----------------------------- MODULE PaymentReview -----------------------------
(***************************************************************************)
(* Manual card payments: a customer submits a receipt for a top-up or for  *)
(* a plan, and admins review it, in the web panel                          *)
(* (internal/web/handlers_auth.go) or from the bot                         *)
(* (internal/telegram/manager.go), through PaymentReviewService            *)
(* (internal/billing/review.go).  Several reviews of one payment may run   *)
(* at once.  A step is one transaction or one write of the store, the      *)
(* provisioning of an order, or the message to the customer.               *)
(***************************************************************************)
EXTENDS WalletStore

CONSTANTS
  Reviews,       \* the reviews; each is a goroutine of its own
  StoreFaults    \* whether the database may fail a call on its own

ASSUME ReviewFaultsAssumption == StoreFaults \in BOOLEAN

VARIABLES
  submission,   \* the next write of the handler that submits each payment
  order,        \* status of the order linked to each payment
  service,      \* <<p, v>>: a services row of payment p's order, made by review v
  pc,           \* the call each review makes next
  task,         \* what each review was asked to do, by whom, about which payment
  cancelled,    \* reviews whose request context is cancelled
  answer,       \* what the reviewer was told
  told,         \* the texts each payment's customer was sent
  broken        \* history: payments for which a later write failed or never came

reviewVars == <<pc, task, cancelled, answer, told>>
planVars   == <<order, service, broken>>
vars == <<walletVars, submission, reviewVars, planVars>>

TopUpMemo(p) == <<"topup_approved", p>>

ReviewTasks == [verdict : {"approve", "reject"}, via : {"web", "telegram"},
                target : PaymentIds]

Calls == {"approveTopUp", "approvePlan", "getOrder", "provision", "compensate",
          "mark", "rejectPayment", "rejectOrder", "notify"}

TypeOK ==
  /\ WalletTypeOK
  /\ submission \in [PaymentIds -> {"new", "payment", "done"}]
  /\ order \in [PaymentIds -> {"none", "awaiting_approval", "approved", "provisioned",
                               "rejected"}]
  /\ service \in SUBSET (PaymentIds \X Reviews)
  /\ pc \in [Reviews -> Calls \cup {"new", "done", "dead"}]
  /\ task \in [Reviews -> ReviewTasks]
  /\ cancelled \in SUBSET Reviews
  /\ answer \in [Reviews -> {"nothing", "error", "Approved", "Rejected"}]
  /\ told \in [PaymentIds -> SUBSET {"topup_pending", "topup_approved", "service_ready",
                                     "order_failed"}]
  /\ broken \in SUBSET PaymentIds

Init ==
  /\ WalletInit
  /\ submission = [p \in PaymentIds |-> "new"]
  /\ order = [p \in PaymentIds |-> "none"]
  /\ service = {}
  /\ pc = [v \in Reviews |-> "new"]
  /\ task \in [Reviews -> ReviewTasks]
  /\ cancelled = {}
  /\ answer = [v \in Reviews |-> "nothing"]
  /\ told = [p \in PaymentIds |-> {}]
  /\ broken = {}

-----------------------------------------------------------------------------
(* Submitting a receipt: finishTopUp and createTopUp write one row,        *)
(* finishPlanReceipt and createCardOrder write two, not in a transaction.  *)

CreateTopUpPayment(p) ==
  /\ submission[p] = "new"
  /\ submission' = [submission EXCEPT ![p] = "done"]
  /\ \E u \in EndUsers, a \in Amounts \ {0} : CreatePayment(p, u, a, FALSE)
  /\ UNCHANGED <<reviewVars, planVars>>

CreatePlanOrder(p) ==
  /\ submission[p] = "new"
  /\ submission' = [submission EXCEPT ![p] = "payment"]
  /\ order' = [order EXCEPT ![p] = "awaiting_approval"]
  /\ UNCHANGED <<walletVars, reviewVars, service, broken>>

\* The linked payment; when it cannot be created the order is left behind.
CreatePlanPayment(p) ==
  /\ submission[p] = "payment"
  /\ submission' = [submission EXCEPT ![p] = "done"]
  /\ \/ /\ \E u \in EndUsers, a \in Amounts \ {0} : CreatePayment(p, u, a, TRUE)
        /\ UNCHANGED broken
     \/ StoreFaults /\ broken' = broken \cup {p} /\ UNCHANGED walletVars
  /\ UNCHANGED <<reviewVars, order, service>>

-----------------------------------------------------------------------------
Target(v) == task[v].target

Running(v) == pc[v] \in Calls

GoTo(v, next) == pc' = [pc EXCEPT ![v] = next]

StoreWorks(v) == v \notin cancelled
StoreFails(v) == v \in cancelled \/ StoreFaults

Answer(v, text) ==
  answer' = IF v \in cancelled THEN answer ELSE [answer EXCEPT ![v] = text]

\* payments.reviewed_by and orders.approved_by reference admins(id); the bot
\* passes reviewer 0, who is no admin, so its updates violate the foreign key.
KnownReviewer(v) == task[v].via = "web"

\* A review begins from a payment its reviewer can see; GetPayment tells a plan
\* purchase from a top-up.
StartReview(v) ==
  /\ pc[v] = "new" /\ payment[Target(v)] # NoPayment
  /\ GoTo(v, IF task[v].verdict = "reject" THEN "rejectPayment"
             ELSE IF payment[Target(v)].plan THEN "approvePlan" ELSE "approveTopUp")
  /\ UNCHANGED <<walletVars, submission, task, cancelled, answer, told, planVars>>

\* An approval that failed: the bot still writes to the customer, the web does not.
ApprovalFails(v) ==
  /\ GoTo(v, IF task[v].via = "telegram" THEN "notify" ELSE "done")
  /\ Answer(v, "error")

ApproveTopUp(v) ==
  /\ pc[v] = "approveTopUp"
  /\ \/ /\ StoreWorks(v) /\ KnownReviewer(v)
        /\ ApprovePayment(Target(v))
        /\ GoTo(v, "notify") /\ Answer(v, "Approved")
     \/ /\ StoreFails(v) \/ ~KnownReviewer(v) \/ ~IsPending(Target(v))
        /\ ApprovalFails(v) /\ UNCHANGED walletVars
  /\ UNCHANGED <<submission, task, cancelled, told, planVars>>

\* An approval of a plan that does not look at the status of the payment.
ApprovePlanAgain(v) ==
  LET p == Target(v)
  IN  /\ pc[v] = "approvePlan"
      /\ \/ /\ StoreWorks(v) /\ KnownReviewer(v)
            /\ payment' = [payment EXCEPT ![p].status = "approved"]
            /\ order' = [order EXCEPT ![p] = "approved"]
            /\ GoTo(v, "getOrder") /\ UNCHANGED answer
         \/ /\ StoreFails(v) \/ ~KnownReviewer(v)
            /\ ApprovalFails(v) /\ UNCHANGED <<payment, order>>
      /\ UNCHANGED <<balance, walletTx, submission, task, cancelled, told, service, broken>>

\* approvePlanPayment, its transaction: payment and order together.
ApprovePlan(v) ==
  LET p == Target(v)
  IN  /\ pc[v] = "approvePlan"
      /\ \/ /\ StoreWorks(v) /\ KnownReviewer(v) /\ IsPending(p)
            /\ payment' = [payment EXCEPT ![p].status = "approved"]
            /\ order' = [order EXCEPT ![p] = "approved"]
            /\ GoTo(v, "getOrder") /\ UNCHANGED answer
         \/ /\ StoreFails(v) \/ ~KnownReviewer(v) \/ ~IsPending(p)
            /\ ApprovalFails(v) /\ UNCHANGED <<payment, order>>
      /\ UNCHANGED <<balance, walletTx, submission, task, cancelled, told, service, broken>>

\* A failed read of the order returns at once: nothing is undone.
GetOrder(v) ==
  /\ pc[v] = "getOrder"
  /\ \/ StoreWorks(v) /\ GoTo(v, "provision") /\ UNCHANGED <<answer, broken>>
     \/ /\ StoreFails(v) /\ broken' = broken \cup {Target(v)}
        /\ ApprovalFails(v)
  /\ UNCHANGED <<walletVars, submission, task, cancelled, told, order, service>>

\* A failed provisioning that only reports its error.
ProvisionWithoutCompensation(v) ==
  /\ pc[v] = "provision"
  /\ \/ /\ StoreWorks(v) /\ service' = service \cup {<<Target(v), v>>}
        /\ GoTo(v, "mark") /\ UNCHANGED answer
     \/ ApprovalFails(v) /\ UNCHANGED service
  /\ UNCHANGED <<walletVars, submission, task, cancelled, told, order, broken>>

\* ProvisionOrder; its steps, and what it leaves on the panel, are in Checkout.
Provision(v) ==
  /\ pc[v] = "provision"
  /\ \/ /\ StoreWorks(v) /\ service' = service \cup {<<Target(v), v>>}
        /\ GoTo(v, "mark")
     \/ GoTo(v, "compensate") /\ UNCHANGED service
  /\ UNCHANGED <<walletVars, submission, task, cancelled, answer, told, order, broken>>

\* A failed provisioning that rejects the payment and forgets its order.
CompensatePaymentOnly(v) ==
  LET p == Target(v)
  IN  /\ pc[v] = "compensate"
      /\ ApprovalFails(v)
      /\ \/ /\ StoreWorks(v)
            /\ payment' = [payment EXCEPT ![p].status = "rejected"]
            /\ UNCHANGED <<order, broken>>
         \/ StoreFails(v) /\ broken' = broken \cup {p} /\ UNCHANGED <<payment, order>>
      /\ UNCHANGED <<balance, walletTx, submission, task, cancelled, told, service>>

\* compensateApprovedPlanPayment: both rows are rejected; its error is logged.
Compensate(v) ==
  LET p == Target(v)
  IN  /\ pc[v] = "compensate"
      /\ ApprovalFails(v)
      /\ \/ /\ StoreWorks(v)
            /\ payment' = [payment EXCEPT ![p].status = "rejected"]
            /\ order' = [order EXCEPT ![p] = "rejected"]
            /\ UNCHANGED broken
         \/ StoreFails(v) /\ broken' = broken \cup {p} /\ UNCHANGED <<payment, order>>
      /\ UNCHANGED <<balance, walletTx, submission, task, cancelled, told, service>>

\* MarkOrderProvisioned; its error is dropped.
MarkOrderProvisioned(v) ==
  /\ pc[v] = "mark"
  /\ GoTo(v, "notify") /\ Answer(v, "Approved")
  /\ \/ StoreWorks(v) /\ order' = [order EXCEPT ![Target(v)] = "provisioned"] /\ UNCHANGED broken
     \/ StoreFails(v) /\ broken' = broken \cup {Target(v)} /\ UNCHANGED order
  /\ UNCHANGED <<walletVars, submission, task, cancelled, told, service>>

\* The error of the rejection is dropped: the reviewer reads the same either way.
RejectReceipt(v) ==
  LET p == Target(v)
  IN  /\ pc[v] = "rejectPayment"
      /\ \/ /\ StoreWorks(v) /\ KnownReviewer(v)
            /\ RejectPayment(p)
            /\ IF payment[p].plan THEN GoTo(v, "rejectOrder") /\ UNCHANGED answer
               ELSE GoTo(v, "notify") /\ Answer(v, "Rejected")
         \/ /\ StoreFails(v) \/ ~KnownReviewer(v) \/ ~IsPending(p)
            /\ GoTo(v, "notify") /\ Answer(v, "Rejected")
            /\ UNCHANGED walletVars
      /\ UNCHANGED <<submission, task, cancelled, told, planVars>>

\* The linked order, in a write of its own whose error is dropped. No other
\* review writes the order of a rejected payment, so read and write are one step.
RejectOrder(v) ==
  LET p == Target(v)
  IN  /\ pc[v] = "rejectOrder"
      /\ GoTo(v, "notify") /\ Answer(v, "Rejected")
      /\ \/ /\ StoreWorks(v) /\ order[p] = "awaiting_approval"
            /\ order' = [order EXCEPT ![p] = "rejected"] /\ UNCHANGED broken
         \/ /\ StoreWorks(v) /\ order[p] # "awaiting_approval"
            /\ UNCHANGED <<order, broken>>
         \/ StoreFails(v) /\ broken' = broken \cup {p} /\ UNCHANGED order
      /\ UNCHANGED <<walletVars, submission, task, cancelled, told, service>>

HasService(p) == \E v \in Reviews : <<p, v>> \in service

\* Texts that follow the verdict the reviewer asked for.
ReviewMessagesOfVerdict(p) ==
  IF \E v \in Reviews : pc[v] = "notify" /\ Target(v) = p /\ task[v].verdict = "reject"
  THEN {"order_failed"} ELSE {"service_ready"}

\* The texts paymentReviewMessage may pick from the rows as they are by now. For
\* an approved payment it says topup_approved when it finds no service, when the
\* look-up fails, and when the service has no subscription link.
ReviewMessages(p) ==
  CASE payment[p].status = "rejected" -> {"order_failed"}
    [] payment[p].status = "approved" ->
         {"topup_approved"} \cup (IF HasService(p) THEN {"service_ready"} ELSE {})
    [] OTHER                          -> {"topup_pending"}

NotifyEndUser(v) ==
  /\ pc[v] = "notify"
  /\ GoTo(v, "done")
  /\ \/ /\ StoreWorks(v)
        /\ \E text \in ReviewMessages(Target(v)) :
             told' = [told EXCEPT ![Target(v)] = @ \cup {text}]
     \/ UNCHANGED told
  /\ UNCHANGED <<walletVars, submission, task, cancelled, answer, planVars>>

Step(v) ==
  \/ ApproveTopUp(v) \/ ApprovePlan(v) \/ GetOrder(v) \/ Provision(v) \/ Compensate(v)
  \/ MarkOrderProvisioned(v) \/ RejectReceipt(v) \/ RejectOrder(v) \/ NotifyEndUser(v)

HangUp(v) ==
  /\ Running(v) /\ v \notin cancelled
  /\ cancelled' = cancelled \cup {v}
  /\ UNCHANGED <<walletVars, submission, pc, task, answer, told, planVars>>

\* The server dies: what a running handler had still to write is never written.
MidWrite(v) == pc[v] \in {"getOrder", "provision", "compensate", "mark", "rejectOrder"}

Crash ==
  /\ \E v \in Reviews : Running(v)
  /\ pc' = [v \in Reviews |-> IF Running(v) THEN "dead" ELSE pc[v]]
  /\ submission' = [p \in PaymentIds |->
                      IF submission[p] = "payment" THEN "done" ELSE submission[p]]
  /\ broken' = broken \cup {Target(v) : v \in {w \in Reviews : MidWrite(w)}}
                      \cup {p \in PaymentIds : submission[p] = "payment"}
  /\ UNCHANGED <<walletVars, task, cancelled, answer, told, order, service>>

\* Admins adjust the wallets meanwhile.
OtherWalletStep ==
  /\ \E u \in EndUsers, d \in Deltas : AdjustWallet(u, d)
  /\ UNCHANGED <<submission, reviewVars, planVars>>

Next ==
  \/ \E p \in PaymentIds : CreateTopUpPayment(p) \/ CreatePlanOrder(p) \/ CreatePlanPayment(p)
  \/ \E v \in Reviews : StartReview(v) \/ Step(v) \/ HangUp(v)
  \/ OtherWalletStep
  \/ Crash

Spec == Init /\ [][Next]_vars

\* A handler goes on until it returns; nobody must submit or review anything.
FairSpec == Spec /\ \A v \in Reviews : WF_vars(Step(v))

-----------------------------------------------------------------------------
IsPlan(p) == payment[p] # NoPayment /\ payment[p].plan

\* However many admins review one receipt, from wherever: a top-up is credited
\* exactly when it is approved, once, in full, to its payer; and the receipt of a
\* plan purchase is never credited to a wallet.
ReceiptCreditedOnce ==
  \A p \in PaymentIds :
    /\ NeverTwice(TopUpMemo(p))
    /\ Posted(TopUpMemo(p)) <=> Approved(p) /\ ~IsPlan(p)
    /\ \A u \in EndUsers : \A i \in DOMAIN walletTx[u] :
         walletTx[u][i].memo = TopUpMemo(p) =>
           payment[p].user = u /\ payment[p].amount = walletTx[u][i].delta

\* One receipt buys at most one service, and only while its payment stands
\* approved: a rejected payment or order never leaves a service behind.
ReceiptBuysOneService ==
  \A p \in PaymentIds :
    /\ \A v, w \in Reviews : <<p, v>> \in service /\ <<p, w>> \in service => v = w
    /\ HasService(p) => IsPlan(p) /\ Approved(p) /\ order[p] \in {"approved", "provisioned"}

\* One receipt is good for one thing, once: a credit or a service.
ReceiptUsedOnce == ReceiptCreditedOnce /\ ReceiptBuysOneService

\* A verdict stands: a rejected payment stays rejected, and an approved one is
\* taken back only for a plan that was never delivered.
VerdictStands ==
  [][\A p \in PaymentIds :
       /\ payment[p] # NoPayment /\ payment[p].status = "rejected" => payment'[p] = payment[p]
       /\ Approved(p) /\ payment'[p] # payment[p] =>
            IsPlan(p) /\ ~HasService(p)' /\ payment'[p].status = "rejected"]_vars

InReview(p) == \E v \in Reviews : Target(v) = p /\ MidWrite(v)

\* When no review of a plan payment is under way and none of its writes failed, the
\* payment, its order and its service tell the same story.
RowsAgree ==
  \A p \in PaymentIds :
    IsPlan(p) /\ ~InReview(p) /\ p \notin broken =>
      LET status == payment[p].status
      IN  /\ status = "pending"  <=> order[p] = "awaiting_approval"
          /\ status = "approved" <=> order[p] = "provisioned"
          /\ status = "rejected" <=> order[p] = "rejected"
          /\ status = "approved" <=> HasService(p)

\* The customer is told of a service only when there is one and of a failure only
\* when the payment is rejected, whatever other reviews did meanwhile.
MessagesAreTrue ==
  \A p \in PaymentIds :
    /\ "service_ready" \in told[p] => HasService(p)
    /\ "order_failed" \in told[p] => payment[p].status = "rejected"

\* An approved plan payment comes to a service or to a rejection, unless one of the
\* writes after its approval failed.
ApprovedPlanIsSettled ==
  \A p \in PaymentIds :
    IsPlan(p) /\ Approved(p) ~> HasService(p) \/ ~Approved(p) \/ p \in broken

=============================================================================
