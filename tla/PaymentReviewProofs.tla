-------------------------- MODULE PaymentReviewProofs --------------------------
(***************************************************************************)
(* What PaymentReview promises of a receipt, for any number of customers,  *)
(* payments and concurrent reviews, with failing writes and crashes. The   *)
(* invariant ties what a review is about to write to the rows as they are. *)
(***************************************************************************)
EXTENDS PaymentReview, WalletStoreProofs

\* A review under way knows its payment, and while its verdict is still to be
\* carried through the rows are as its last write left them.
ReviewRight(v) ==
  LET p == Target(v)
  IN  /\ pc[v] # "new" => payment[p] # NoPayment
      /\ pc[v] = "approveTopUp" => ~IsPlan(p)
      /\ pc[v] = "approvePlan" \/ MidWrite(v) => IsPlan(p)
      /\ pc[v] \in {"getOrder", "provision", "compensate", "mark"} =>
            Approved(p) /\ order[p] = "approved"
      /\ pc[v] \in {"getOrder", "provision", "compensate"} => ~HasService(p)
      /\ pc[v] = "mark" => HasService(p)
      /\ pc[v] = "rejectOrder" =>
            payment[p].status = "rejected" /\ order[p] = "awaiting_approval"

\* No two reviews have a verdict on one payment to carry through.
OneWriter ==
  \A v, w \in Reviews :
    MidWrite(v) /\ MidWrite(w) /\ Target(v) = Target(w) => v = w

\* Before its payment there is at most an order.
Submitted(p) ==
  /\ submission[p] = "new" => order[p] = "none"
  /\ submission[p] = "payment" => order[p] = "awaiting_approval"
  /\ submission[p] # "done" => payment[p] = NoPayment
  /\ payment[p] = NoPayment => told[p] = {} /\ ~HasService(p)

\* The order follows its payment, or a review is to see to it, or a write failed.
OrderRight(p) ==
  IsPlan(p) =>
    /\ payment[p].status = "pending" => order[p] = "awaiting_approval" /\ ~HasService(p)
    /\ Approved(p) =>
          \/ order[p] = "provisioned" /\ HasService(p)
          \/ order[p] = "approved" /\ (p \in broken \/ InReview(p))
    /\ payment[p].status = "rejected" =>
          /\ ~HasService(p)
          /\ \/ order[p] = "rejected"
             \/ order[p] = "awaiting_approval" /\ (p \in broken \/ InReview(p))

\* One service at most, for an approved plan payment.
ServiceRight(p) ==
  /\ \A v, w \in Reviews : <<p, v>> \in service /\ <<p, w>> \in service => v = w
  /\ HasService(p) => IsPlan(p) /\ Approved(p)

TextsTrue(p) ==
  /\ "service_ready" \in told[p] => HasService(p)
  /\ "order_failed" \in told[p] =>
        payment[p] # NoPayment /\ payment[p].status = "rejected"

RowsRight(p) == Submitted(p) /\ OrderRight(p) /\ ServiceRight(p) /\ TextsTrue(p)

\* ReceiptCreditedOnce of one payment.
Credited(p) ==
  /\ NeverTwice(TopUpMemo(p))
  /\ Posted(TopUpMemo(p)) <=> Approved(p) /\ ~IsPlan(p)
  /\ \A u \in EndUsers : \A i \in DOMAIN walletTx[u] :
       walletTx[u][i].memo = TopUpMemo(p) =>
         payment[p].user = u /\ payment[p].amount = walletTx[u][i].delta

AllRight == /\ OneWriter
            /\ \A v \in Reviews : ReviewRight(v)
            /\ \A p \in PaymentIds : RowsRight(p)

IInv == TypeOK /\ AllRight /\ \A p \in PaymentIds : Credited(p)

-----------------------------------------------------------------------------
(* Types.                                                                  *)

\* The first state is well typed.
LEMMA InitTypeOK == Init => TypeOK
BY InitTypes DEF Init, TypeOK, Calls

\* A payment whose status a review decides is still a payment, of the same kind.
LEMMA DecidedRow ==
  ASSUME WalletTypeOK, NEW p \in PaymentIds, payment[p] # NoPayment,
         NEW status \in PaymentStatus,
         payment' = [payment EXCEPT ![p].status = status]
  PROVE  /\ payment' \in [PaymentIds -> Payments \cup {NoPayment}]
         /\ \A q \in PaymentIds \ {p} : payment'[q] = payment[q]
         /\ payment'[p] # NoPayment /\ payment'[p].status = status
         /\ payment'[p].user = payment[p].user
         /\ payment'[p].amount = payment[p].amount
         /\ payment'[p].plan = payment[p].plan
         /\ payment[p].plan \in BOOLEAN /\ payment[p].status \in PaymentStatus
<1>1. payment[p] \in Payments
  BY DEF WalletTypeOK
<1>2. /\ payment'[p] = [payment[p] EXCEPT !.status = status]
      /\ \A q \in PaymentIds \ {p} : payment'[q] = payment[q]
      /\ payment' = [q \in PaymentIds |-> payment'[q]]
  BY DEF WalletTypeOK
<1>3. payment'[p] \in Payments
  BY <1>1, <1>2 DEF Payments
<1>4. payment'[p] # NoPayment
  BY <1>3, PaymentAssumption
<1>5. payment' \in [PaymentIds -> Payments \cup {NoPayment}]
  BY <1>2, <1>3 DEF WalletTypeOK
<1> QED  BY <1>1, <1>2, <1>4, <1>5 DEF Payments

\* A submission keeps the types.
LEMMA SubmitTypes ==
  ASSUME TypeOK, NEW p \in PaymentIds,
         CreateTopUpPayment(p) \/ CreatePlanOrder(p) \/ CreatePlanPayment(p)
  PROVE  TypeOK'
<1>1. CASE CreateTopUpPayment(p)
  <2>1. WalletTypeOK'
    <3>1. PICK u \in EndUsers, a \in Amounts \ {0} : CreatePayment(p, u, a, FALSE)
      BY <1>1 DEF CreateTopUpPayment
    <3> QED  BY <3>1, CreatePaymentStep DEF TypeOK
  <2> QED  BY <1>1, <2>1 DEF TypeOK, CreateTopUpPayment, reviewVars, planVars
<1>2. CASE CreatePlanOrder(p)
  BY <1>2 DEF TypeOK, CreatePlanOrder, walletVars, WalletTypeOK, reviewVars
<1>3. CASE CreatePlanPayment(p)
  <2>1. WalletTypeOK'
    <3>1. CASE \E u \in EndUsers, a \in Amounts \ {0} : CreatePayment(p, u, a, TRUE)
      <4>1. PICK u \in EndUsers, a \in Amounts \ {0} : CreatePayment(p, u, a, TRUE)
        BY <3>1
      <4> QED  BY <4>1, CreatePaymentStep DEF TypeOK
    <3>2. CASE UNCHANGED walletVars
      BY <3>2 DEF TypeOK, WalletTypeOK, walletVars
    <3> QED  BY <1>3, <3>1, <3>2 DEF CreatePlanPayment
  <2>2. broken' \in SUBSET PaymentIds
    BY <1>3 DEF CreatePlanPayment, TypeOK
  <2> QED  BY <1>3, <2>1, <2>2 DEF TypeOK, CreatePlanPayment, reviewVars
<1> QED  BY <1>1, <1>2, <1>3

\* What a step of a review does to its own place and to its answer.
LEMMA GoToTypes ==
  ASSUME TypeOK, NEW v \in Reviews, NEW next, GoTo(v, next)
  PROVE  /\ pc'[v] = next /\ \A w \in Reviews \ {v} : pc'[w] = pc[w]
         /\ next \in Calls \cup {"done"} =>
               pc' \in [Reviews -> Calls \cup {"new", "done", "dead"}]
BY DEF GoTo, TypeOK

\* So are the answers to the reviewer.
LEMMA AnswerTypes ==
  ASSUME TypeOK, NEW v \in Reviews, NEW text \in {"error", "Approved", "Rejected"},
         Answer(v, text)
  PROVE  answer' \in [Reviews -> {"nothing", "error", "Approved", "Rejected"}]
BY DEF Answer, TypeOK

\* A failed approval ends, or goes on to the message.
LEMMA ApprovalFailsTypes ==
  ASSUME TypeOK, NEW v \in Reviews, ApprovalFails(v)
  PROVE  /\ pc' \in [Reviews -> Calls \cup {"new", "done", "dead"}]
         /\ answer' \in [Reviews -> {"nothing", "error", "Approved", "Rejected"}]
         /\ pc'[v] \in {"notify", "done"}
         /\ \A w \in Reviews \ {v} : pc'[w] = pc[w]
<1>1. \/ GoTo(v, "notify")
      \/ GoTo(v, "done")
  BY DEF ApprovalFails
<1>2. Answer(v, "error")
  BY DEF ApprovalFails
<1>3. answer' \in [Reviews -> {"nothing", "error", "Approved", "Rejected"}]
  BY <1>2, AnswerTypes
<1>4. /\ pc' \in [Reviews -> Calls \cup {"new", "done", "dead"}]
      /\ pc'[v] \in {"notify", "done"}
      /\ \A w \in Reviews \ {v} : pc'[w] = pc[w]
  BY <1>1, GoToTypes DEF Calls
<1> QED  BY <1>3, <1>4

\* A review is of a payment.
LEMMA TargetType ==
  ASSUME TypeOK, NEW v \in Reviews
  PROVE  Target(v) \in PaymentIds
BY DEF TypeOK, Target, ReviewTasks

\* Each step of a review keeps the types, and the other reviews where they are.
LEMMA DecisionTypes ==
  ASSUME TypeOK, NEW v \in Reviews,
         StartReview(v) \/ ApproveTopUp(v) \/ ApprovePlan(v) \/ RejectReceipt(v)
  PROVE  TypeOK' /\ \A w \in Reviews \ {v} : pc'[w] = pc[w]
<1>0. Target(v) \in PaymentIds /\ WalletTypeOK
  BY TargetType DEF TypeOK
<1>1. CASE StartReview(v)
  <2>1. \E next \in {"rejectPayment", "approvePlan", "approveTopUp"} : GoTo(v, next)
    BY <1>1 DEF StartReview
  <2>2. /\ pc' \in [Reviews -> Calls \cup {"new", "done", "dead"}]
        /\ \A w \in Reviews \ {v} : pc'[w] = pc[w]
    BY <2>1, GoToTypes DEF Calls
  <2> QED  BY <1>0, <1>1, <2>2 DEF StartReview, TypeOK, walletVars, WalletTypeOK, planVars
<1>2. CASE ApproveTopUp(v)
  <2>1. /\ pc' \in [Reviews -> Calls \cup {"new", "done", "dead"}]
        /\ \A w \in Reviews \ {v} : pc'[w] = pc[w]
        /\ answer' \in [Reviews -> {"nothing", "error", "Approved", "Rejected"}]
    BY <1>2, ApprovalFailsTypes, GoToTypes, AnswerTypes DEF ApproveTopUp, Calls
  <2>2. WalletTypeOK'
    BY <1>0, <1>2, ApproveStep DEF ApproveTopUp, walletVars, WalletTypeOK
  <2> QED  BY <1>2, <2>1, <2>2 DEF ApproveTopUp, TypeOK, planVars
<1>3. CASE ApprovePlan(v)
  <2>1. /\ pc' \in [Reviews -> Calls \cup {"new", "done", "dead"}]
        /\ \A w \in Reviews \ {v} : pc'[w] = pc[w]
        /\ answer' \in [Reviews -> {"nothing", "error", "Approved", "Rejected"}]
    <3>1. ASSUME UNCHANGED answer
          PROVE  answer' \in [Reviews -> {"nothing", "error", "Approved", "Rejected"}]
      BY <3>1 DEF TypeOK
    <3>2. CASE GoTo(v, "getOrder") /\ UNCHANGED answer
      BY <3>1, <3>2, GoToTypes DEF Calls
    <3>3. CASE ApprovalFails(v)
      BY <3>3, ApprovalFailsTypes
    <3> QED  BY <1>3, <3>2, <3>3 DEF ApprovePlan
  <2>2. WalletTypeOK'
    <3>1. CASE /\ IsPending(Target(v))
               /\ payment' = [payment EXCEPT ![Target(v)].status = "approved"]
      <4>1. payment' \in [PaymentIds -> Payments \cup {NoPayment}]
        BY <1>0, <3>1, DecidedRow DEF IsPending, PaymentStatus
      <4> QED  BY <1>0, <1>3, <4>1 DEF ApprovePlan, WalletTypeOK
    <3>2. CASE UNCHANGED payment
      BY <1>0, <1>3, <3>2 DEF ApprovePlan, WalletTypeOK
    <3> QED  BY <1>3, <3>1, <3>2 DEF ApprovePlan
  <2>3. order' \in [PaymentIds -> {"none", "awaiting_approval", "approved",
                                   "provisioned", "rejected"}]
    BY <1>3 DEF ApprovePlan, TypeOK
  <2> QED  BY <1>3, <2>1, <2>2, <2>3 DEF ApprovePlan, TypeOK
<1>4. CASE RejectReceipt(v)
  <2>1. /\ pc' \in [Reviews -> Calls \cup {"new", "done", "dead"}]
        /\ \A w \in Reviews \ {v} : pc'[w] = pc[w]
        /\ answer' \in [Reviews -> {"nothing", "error", "Approved", "Rejected"}]
    <3>1. CASE GoTo(v, "rejectOrder") /\ UNCHANGED answer
      <4>1. answer' \in [Reviews -> {"nothing", "error", "Approved", "Rejected"}]
        BY <3>1 DEF TypeOK
      <4> QED  BY <3>1, <4>1, GoToTypes DEF Calls
    <3>2. CASE GoTo(v, "notify") /\ Answer(v, "Rejected")
      BY <3>2, GoToTypes, AnswerTypes DEF Calls
    <3> QED  BY <1>4, <3>1, <3>2 DEF RejectReceipt
  <2>2. WalletTypeOK'
    BY <1>0, <1>4, RejectStep DEF RejectReceipt, walletVars, WalletTypeOK
  <2> QED  BY <1>4, <2>1, <2>2 DEF RejectReceipt, TypeOK, planVars
<1> QED  BY <1>1, <1>2, <1>3, <1>4

\* The same of the steps that carry a verdict out; a compensation finds its payment.
LEMMA CarryOutTypes ==
  ASSUME TypeOK, NEW v \in Reviews,
         \/ GetOrder(v) \/ Provision(v) \/ Compensate(v)
         \/ MarkOrderProvisioned(v) \/ RejectOrder(v) \/ NotifyEndUser(v),
         ReviewRight(v)
  PROVE  TypeOK' /\ \A w \in Reviews \ {v} : pc'[w] = pc[w]
<1>0. Target(v) \in PaymentIds /\ WalletTypeOK
  BY TargetType DEF TypeOK
<1>1. broken' \in SUBSET PaymentIds
  BY <1>0 DEF GetOrder, Provision, Compensate, MarkOrderProvisioned, RejectOrder,
              NotifyEndUser, TypeOK, planVars
<1>2. order' \in [PaymentIds -> {"none", "awaiting_approval", "approved",
                                 "provisioned", "rejected"}]
  BY <1>0 DEF GetOrder, Provision, Compensate, MarkOrderProvisioned, RejectOrder,
              NotifyEndUser, TypeOK, planVars
<1>3. service' \in SUBSET (PaymentIds \X Reviews)
  BY <1>0 DEF GetOrder, Provision, Compensate, MarkOrderProvisioned, RejectOrder,
              NotifyEndUser, TypeOK, planVars
<1>4. WalletTypeOK'
  <2>1. CASE Compensate(v)
    <3>1. payment' \in [PaymentIds -> Payments \cup {NoPayment}]
      <4>1. CASE payment' = [payment EXCEPT ![Target(v)].status = "rejected"]
        <5>1. payment[Target(v)] # NoPayment
          BY <2>1 DEF ReviewRight, Compensate
        <5> QED  BY <1>0, <4>1, <5>1, DecidedRow DEF PaymentStatus
      <4>2. CASE UNCHANGED payment
        BY <1>0, <4>2 DEF WalletTypeOK
      <4> QED  BY <2>1, <4>1, <4>2 DEF Compensate
    <3> QED  BY <1>0, <2>1, <3>1 DEF Compensate, WalletTypeOK
  <2>2. CASE ~Compensate(v)
    BY <1>0, <2>2 DEF GetOrder, Provision, MarkOrderProvisioned, RejectOrder,
                      NotifyEndUser, walletVars, WalletTypeOK
  <2> QED  BY <2>1, <2>2
<1>5. /\ pc' \in [Reviews -> Calls \cup {"new", "done", "dead"}]
      /\ \A w \in Reviews \ {v} : pc'[w] = pc[w]
      /\ answer' \in [Reviews -> {"nothing", "error", "Approved", "Rejected"}]
  <2>1. CASE ApprovalFails(v)
    BY <2>1, ApprovalFailsTypes
  <2>2. ASSUME NEW next \in Calls \cup {"done"}, GoTo(v, next),
               UNCHANGED answer \/ Answer(v, "Approved") \/ Answer(v, "Rejected")
        PROVE  /\ pc' \in [Reviews -> Calls \cup {"new", "done", "dead"}]
               /\ \A w \in Reviews \ {v} : pc'[w] = pc[w]
               /\ answer' \in [Reviews -> {"nothing", "error", "Approved", "Rejected"}]
    <3>1. answer' \in [Reviews -> {"nothing", "error", "Approved", "Rejected"}]
      BY <2>2, AnswerTypes DEF TypeOK
    <3> QED  BY <2>2, <3>1, GoToTypes
  <2> QED  BY <2>1, <2>2 DEF GetOrder, Provision, Compensate, MarkOrderProvisioned,
                             RejectOrder, NotifyEndUser, Calls
<1>6. told' \in [PaymentIds -> SUBSET {"topup_pending", "topup_approved",
                                      "service_ready", "order_failed"}]
  <2>1. CASE NotifyEndUser(v)
    <3>1. ReviewMessages(Target(v)) \subseteq {"topup_pending", "topup_approved",
                                              "service_ready", "order_failed"}
      BY DEF ReviewMessages
    <3> QED  BY <2>1, <3>1 DEF NotifyEndUser, TypeOK
  <2>2. CASE ~NotifyEndUser(v)
    BY <2>2 DEF GetOrder, Provision, Compensate, MarkOrderProvisioned, RejectOrder, TypeOK
  <2> QED  BY <2>1, <2>2
<1>7. UNCHANGED <<submission, task, cancelled>>
  BY DEF GetOrder, Provision, Compensate, MarkOrderProvisioned, RejectOrder,
         NotifyEndUser
<1> QED  BY <1>1, <1>2, <1>3, <1>4, <1>5, <1>6, <1>7 DEF TypeOK

\* Adjustments, hang-ups and crashes keep the types.
LEMMA OtherTypes ==
  ASSUME TypeOK, OtherWalletStep \/ Crash \/ \E v \in Reviews : HangUp(v)
  PROVE  TypeOK'
<1>1. CASE OtherWalletStep
  <2>1. WalletTypeOK'
    BY <1>1, AdjustStep DEF OtherWalletStep, TypeOK
  <2> QED  BY <1>1, <2>1 DEF OtherWalletStep, TypeOK, reviewVars, planVars
<1>2. CASE Crash
  <2>1. broken' \in SUBSET PaymentIds
    BY <1>2, TargetType DEF Crash, TypeOK
  <2>2. pc' \in [Reviews -> Calls \cup {"new", "done", "dead"}]
    BY <1>2 DEF Crash, TypeOK
  <2>3. submission' \in [PaymentIds -> {"new", "payment", "done"}]
    BY <1>2 DEF Crash, TypeOK
  <2> QED  BY <1>2, <2>1, <2>2, <2>3 DEF Crash, TypeOK, walletVars, WalletTypeOK
<1>3. ASSUME NEW v \in Reviews, HangUp(v) PROVE TypeOK'
  BY <1>3 DEF HangUp, TypeOK, walletVars, WalletTypeOK, planVars
<1> QED  BY <1>1, <1>2, <1>3

\* Every step keeps the types.
LEMMA TypeStep == IInv /\ [Next]_vars => TypeOK'
<1> SUFFICES ASSUME IInv, [Next]_vars PROVE TypeOK'
  OBVIOUS
<1>0. TypeOK /\ \A v \in Reviews : ReviewRight(v)
  BY DEF IInv, AllRight
<1>1. CASE UNCHANGED vars
  BY <1>0, <1>1 DEF vars, walletVars, reviewVars, planVars, TypeOK, WalletTypeOK
<1> QED  BY <1>0, <1>1, SubmitTypes, DecisionTypes, CarryOutTypes, OtherTypes
         DEF Next, Step

-----------------------------------------------------------------------------
(* Rows and reviews.                                                       *)

\* What a step of one review does to the other reviews and payments, when it
\* changes the rows of its own payment only while that payment is pending or the
\* review has its verdict to carry through.
LEMMA FrameStep ==
  ASSUME IInv, NEW v \in Reviews, NEW p \in PaymentIds, Target(v) = p,
         UNCHANGED <<task, submission>>,
         \A w \in Reviews \ {v} : pc'[w] = pc[w],
         \A q \in PaymentIds \ {p} :
           payment'[q] = payment[q] /\ order'[q] = order[q] /\ told'[q] = told[q],
         broken \subseteq broken', service \subseteq service',
         service' \subseteq service \cup {<<p, v>>},
         payment'[p] # NoPayment,
         payment'[p].plan = payment[p].plan,
         \/ MidWrite(v) \/ IsPending(p)
         \/ /\ payment'[p] = payment[p]
            /\ order'[p] = order[p] /\ service' = service,
         MidWrite(v)' => MidWrite(v) \/ IsPending(p),
         ReviewRight(v)', RowsRight(p)'
  PROVE  AllRight'
<1>0. /\ TypeOK /\ OneWriter /\ \A w \in Reviews : ReviewRight(w)
      /\ \A q \in PaymentIds : RowsRight(q)
  BY DEF IInv, AllRight
<1>1. \A w \in Reviews : Target(w) \in PaymentIds /\ Target(w)' = Target(w)
  BY <1>0, TargetType DEF Target
<1>2. \A w \in Reviews \ {v} : MidWrite(w)' <=> MidWrite(w)
  BY DEF MidWrite
<1>3. ASSUME NEW w \in Reviews, w # v, MidWrite(w), Target(w) = p
      PROVE  ~MidWrite(v) /\ ~IsPending(p)
  <2>1. ~MidWrite(v)
    BY <1>0, <1>3 DEF OneWriter
  <2>2. ~IsPending(p)
    BY <1>0, <1>3 DEF ReviewRight, MidWrite, IsPending, Approved
  <2> QED  BY <2>1, <2>2
<1>4. OneWriter'
  BY <1>0, <1>1, <1>2, <1>3 DEF OneWriter
<1>5. ASSUME NEW w \in Reviews \ {v}, Target(w) # p
      PROVE  ReviewRight(w)'
  <2>1. /\ payment'[Target(w)] = payment[Target(w)]
        /\ order'[Target(w)] = order[Target(w)]
    BY <1>1, <1>5
  <2>2. HasService(Target(w))' <=> HasService(Target(w))
    BY <1>1, <1>5 DEF HasService
  <2> QED  BY <1>0, <1>1, <1>2, <2>1, <2>2 DEF ReviewRight, IsPlan, Approved, MidWrite
<1>6. ASSUME NEW w \in Reviews \ {v}, Target(w) = p
      PROVE  ReviewRight(w)'
  <2>1. CASE MidWrite(w)
    <3>1. payment'[p] = payment[p] /\ order'[p] = order[p] /\ service' = service
      BY <1>3, <1>6, <2>1
    <3>2. HasService(p)' <=> HasService(p)
      BY <1>1, <3>1 DEF HasService
    <3>3. Target(w)' = p /\ pc'[w] = pc[w] /\ ReviewRight(w)
      BY <1>0, <1>1, <1>6
    <3> QED  BY <1>6, <3>1, <3>2, <3>3 DEF ReviewRight, IsPlan, Approved, MidWrite
  <2>2. CASE ~MidWrite(w)
    <3>1. /\ payment'[p] # NoPayment /\ payment'[p].plan = payment[p].plan
          /\ pc'[w] = pc[w] /\ ReviewRight(w) /\ Target(w)' = p
      BY <1>0, <1>1, <1>6
    <3> QED  BY <1>6, <2>2, <3>1 DEF ReviewRight, IsPlan, MidWrite
  <2> QED  BY <2>1, <2>2
<1>7. ASSUME NEW q \in PaymentIds \ {p}
      PROVE  RowsRight(q)'
  <2>1. HasService(q)' <=> HasService(q)
    BY <1>7 DEF HasService
  <2>2. InReview(q) => InReview(q)'
    BY <1>1, <1>2, <1>7 DEF InReview
  <2>3. /\ payment'[q] = payment[q] /\ order'[q] = order[q] /\ told'[q] = told[q]
        /\ submission'[q] = submission[q] /\ RowsRight(q)
        /\ q \in broken => q \in broken'
    BY <1>0, <1>7
  <2>4. \A w \in Reviews : <<q, w>> \in service' <=> <<q, w>> \in service
    BY <1>7
  <2> QED  BY <2>1, <2>2, <2>3, <2>4 DEF RowsRight, Submitted, OrderRight, ServiceRight,
                                        TextsTrue, IsPlan, Approved
<1> QED  BY <1>4, <1>5, <1>6, <1>7 DEF AllRight

\* A step that leaves the rows alone.
LEMMA QuietStep ==
  ASSUME IInv, NEW v \in Reviews,
         UNCHANGED <<task, submission, payment, order, service, told>>,
         \A w \in Reviews \ {v} : pc'[w] = pc[w],
         broken \subseteq broken',
         payment[Target(v)] # NoPayment,
         MidWrite(v)' => MidWrite(v),
         MidWrite(v) => MidWrite(v)' \/ Target(v) \in broken',
         ReviewRight(v)'
  PROVE  AllRight'
<1>0. TypeOK /\ OneWriter /\ (\A w \in Reviews : ReviewRight(w))
      /\ \A q \in PaymentIds : RowsRight(q)
  BY DEF IInv, AllRight
<1>1. PICK p \in PaymentIds : Target(v) = p
  BY <1>0, TargetType
<1>2. \A w \in Reviews : Target(w)' = Target(w)
  BY DEF Target
<1>3. HasService(p)' <=> HasService(p)
  BY DEF HasService
<1>4. InReview(p) => InReview(p)' \/ p \in broken'
  <2>1. ASSUME NEW w \in Reviews, Target(w) = p, MidWrite(w), p \notin broken'
        PROVE  MidWrite(w)'
    BY <1>1, <2>1 DEF MidWrite
  <2> QED  BY <1>2, <2>1 DEF InReview
<1>5. RowsRight(p)'
  <2>1. RowsRight(p) /\ (p \in broken => p \in broken')
    BY <1>0
  <2> QED  BY <1>3, <1>4, <2>1
           DEF RowsRight, Submitted, OrderRight, ServiceRight, TextsTrue, IsPlan, Approved
<1> QED  BY <1>1, <1>5, FrameStep

\* A review starts with the call its task and the payment's kind ask for.
LEMMA StartReviewRight ==
  ASSUME IInv, NEW v \in Reviews, StartReview(v)
  PROVE  AllRight'
<1>0. TypeOK /\ ReviewRight(v) /\ Target(v) \in PaymentIds
  BY TargetType DEF IInv, AllRight
<1>1. UNCHANGED <<task, submission, payment, order, service, told, broken>>
  BY DEF StartReview, walletVars, planVars
<1>2. /\ \A w \in Reviews \ {v} : pc'[w] = pc[w]
      /\ \/ pc'[v] = "rejectPayment"
         \/ pc'[v] = "approvePlan" /\ payment[Target(v)].plan
         \/ pc'[v] = "approveTopUp" /\ ~payment[Target(v)].plan
  BY <1>0, GoToTypes DEF StartReview
<1>3. payment[Target(v)] # NoPayment /\ pc[v] = "new" /\ Target(v)' = Target(v)
  BY <1>1 DEF StartReview, Target
<1>4. ~MidWrite(v) /\ ~MidWrite(v)'
  BY <1>2, <1>3 DEF MidWrite
<1>5. ReviewRight(v)'
  BY <1>1, <1>2, <1>3, <1>4 DEF ReviewRight, IsPlan, MidWrite
<1> QED  BY <1>1, <1>2, <1>3, <1>4, <1>5, QuietStep

\* A review that has done its part is right whatever the rows are.
LEMMA DoneRight ==
  ASSUME NEW v \in Reviews, UNCHANGED task,
         pc'[v] \in {"notify", "done"}, payment'[Target(v)] # NoPayment
  PROVE  ReviewRight(v)' /\ ~MidWrite(v)'
<1>1. Target(v)' = Target(v)
  BY DEF Target
<1> QED  BY <1>1 DEF ReviewRight, MidWrite

\* An approved top-up has neither order nor service.
LEMMA ApproveTopUpRight ==
  ASSUME IInv, NEW v \in Reviews, ApproveTopUp(v)
  PROVE  AllRight'
<1>0. TypeOK /\ WalletTypeOK /\ ReviewRight(v)
  BY DEF IInv, AllRight, TypeOK
<1>1. PICK p \in PaymentIds : Target(v) = p
  BY <1>0, TargetType
<1>2. /\ UNCHANGED <<task, submission, order, service, told, broken>>
      /\ pc[v] = "approveTopUp" /\ ~MidWrite(v)
      /\ payment[p] # NoPayment /\ ~IsPlan(p)
  BY <1>0, <1>1 DEF ApproveTopUp, planVars, MidWrite, ReviewRight
<1>3. pc'[v] \in {"notify", "done"} /\ \A w \in Reviews \ {v} : pc'[w] = pc[w]
  BY <1>0, ApprovalFailsTypes, GoToTypes DEF ApproveTopUp
<1>4. CASE UNCHANGED payment
  <2>1. ReviewRight(v)' /\ ~MidWrite(v)'
    BY <1>1, <1>2, <1>3, <1>4, DoneRight
  <2> QED  BY <1>1, <1>2, <1>3, <1>4, <2>1, QuietStep
<1>5. CASE ApprovePayment(p)
  <2>1. /\ IsPending(p) /\ payment' = [payment EXCEPT ![p].status = "approved"]
    BY <1>5 DEF ApprovePayment
  <2>2. /\ \A q \in PaymentIds \ {p} : payment'[q] = payment[q]
        /\ payment'[p] # NoPayment /\ payment'[p].status = "approved"
        /\ payment'[p].plan = payment[p].plan
    BY <1>0, <1>2, <2>1, DecidedRow DEF PaymentStatus
  <2>3. ReviewRight(v)' /\ ~MidWrite(v)'
    BY <1>1, <1>2, <1>3, <2>2, DoneRight
  <2>4. RowsRight(p)'
    <3>1. RowsRight(p) /\ (HasService(p)' <=> HasService(p))
      BY <1>2 DEF IInv, AllRight, HasService
    <3> QED  BY <1>2, <2>1, <2>2, <3>1 DEF RowsRight, Submitted, OrderRight,
             ServiceRight, TextsTrue, IsPlan, Approved, IsPending
  <2> QED  BY <1>1, <1>2, <1>3, <2>1, <2>2, <2>3, <2>4, FrameStep
<1> QED  BY <1>1, <1>4, <1>5 DEF ApproveTopUp, walletVars

\* An approval takes a pending plan payment and its order into review.
LEMMA ApprovePlanRight ==
  ASSUME IInv, NEW v \in Reviews, ApprovePlan(v)
  PROVE  AllRight'
<1>0. TypeOK /\ WalletTypeOK /\ ReviewRight(v)
  BY DEF IInv, AllRight, TypeOK
<1>1. PICK p \in PaymentIds : Target(v) = p
  BY <1>0, TargetType
<1>2. /\ UNCHANGED <<task, submission, service, told, broken>>
      /\ pc[v] = "approvePlan" /\ ~MidWrite(v)
      /\ payment[p] # NoPayment /\ IsPlan(p)
  BY <1>0, <1>1 DEF ApprovePlan, MidWrite, ReviewRight, IsPlan
<1>3. CASE ApprovalFails(v) /\ UNCHANGED <<payment, order>>
  <2>1. pc'[v] \in {"notify", "done"} /\ \A w \in Reviews \ {v} : pc'[w] = pc[w]
    BY <1>0, <1>3, ApprovalFailsTypes
  <2>2. ReviewRight(v)' /\ ~MidWrite(v)'
    BY <1>1, <1>2, <1>3, <2>1, DoneRight
  <2> QED  BY <1>1, <1>2, <1>3, <2>1, <2>2, QuietStep
<1>4. CASE /\ IsPending(p) /\ payment' = [payment EXCEPT ![p].status = "approved"]
           /\ order' = [order EXCEPT ![p] = "approved"] /\ GoTo(v, "getOrder")
  <2>1. /\ \A q \in PaymentIds \ {p} : payment'[q] = payment[q]
        /\ payment'[p] # NoPayment /\ payment'[p].status = "approved"
        /\ payment'[p].plan = payment[p].plan
    BY <1>0, <1>2, <1>4, DecidedRow DEF PaymentStatus
  <2>2. order'[p] = "approved" /\ \A q \in PaymentIds \ {p} : order'[q] = order[q]
    BY <1>0, <1>4 DEF TypeOK
  <2>3. pc'[v] = "getOrder" /\ \A w \in Reviews \ {v} : pc'[w] = pc[w]
    BY <1>0, <1>4, GoToTypes
  <2>4. RowsRight(p) /\ (HasService(p)' <=> HasService(p)) /\ Target(v)' = p
    BY <1>1, <1>2 DEF IInv, AllRight, HasService, Target
  <2>5. ~HasService(p) /\ payment[p].status = "pending"
    BY <1>2, <1>4, <2>4 DEF RowsRight, OrderRight, IsPending
  <2>6. ReviewRight(v)' /\ MidWrite(v)'
    BY <1>2, <2>1, <2>2, <2>3, <2>4, <2>5 DEF ReviewRight, MidWrite, IsPlan, Approved
  <2>7. InReview(p)'
    BY <2>4, <2>6 DEF InReview
  <2>8. RowsRight(p)'
    BY <1>2, <2>1, <2>2, <2>4, <2>5, <2>7
       DEF RowsRight, Submitted, OrderRight, ServiceRight, TextsTrue, IsPlan, Approved
  <2> QED  BY <1>1, <1>2, <1>4, <2>1, <2>2, <2>3, <2>6, <2>8, FrameStep
<1> QED  BY <1>1, <1>3, <1>4 DEF ApprovePlan

\* A failed read leaves an approved order behind, and is recorded.
LEMMA GetOrderRight ==
  ASSUME IInv, NEW v \in Reviews, GetOrder(v)
  PROVE  AllRight'
<1>0. TypeOK /\ ReviewRight(v)
  BY DEF IInv, AllRight
<1>1. /\ UNCHANGED <<task, submission, payment, order, service, told>>
      /\ pc[v] = "getOrder" /\ MidWrite(v)
      /\ payment[Target(v)] # NoPayment /\ broken \subseteq broken'
  BY <1>0 DEF GetOrder, walletVars, MidWrite, ReviewRight
<1>2. CASE GoTo(v, "provision")
  <2>1. pc'[v] = "provision" /\ \A w \in Reviews \ {v} : pc'[w] = pc[w]
    BY <1>0, <1>2, GoToTypes
  <2>2. /\ Target(v)' = Target(v) /\ MidWrite(v)'
        /\ HasService(Target(v))' <=> HasService(Target(v))
    BY <1>1, <2>1 DEF Target, MidWrite, HasService
  <2>3. ReviewRight(v)'
    BY <1>0, <1>1, <2>1, <2>2 DEF ReviewRight, MidWrite, IsPlan, Approved
  <2> QED  BY <1>1, <2>1, <2>2, <2>3, QuietStep
<1>3. CASE ApprovalFails(v) /\ broken' = broken \cup {Target(v)}
  <2>1. pc'[v] \in {"notify", "done"} /\ \A w \in Reviews \ {v} : pc'[w] = pc[w]
    BY <1>0, <1>3, ApprovalFailsTypes
  <2>2. ReviewRight(v)' /\ ~MidWrite(v)'
    BY <1>1, <2>1, DoneRight
  <2> QED  BY <1>1, <1>3, <2>1, <2>2, QuietStep
<1> QED  BY <1>2, <1>3 DEF GetOrder

\* The service is the first: while a review provisions there is none.
LEMMA ProvisionRight ==
  ASSUME IInv, NEW v \in Reviews, Provision(v)
  PROVE  AllRight'
<1>0. TypeOK /\ ReviewRight(v)
  BY DEF IInv, AllRight
<1>1. PICK p \in PaymentIds : Target(v) = p
  BY <1>0, TargetType
<1>2. /\ UNCHANGED <<task, submission, payment, order, told, broken>>
      /\ pc[v] = "provision" /\ MidWrite(v)
      /\ payment[p] # NoPayment /\ IsPlan(p) /\ Approved(p)
      /\ order[p] = "approved" /\ ~HasService(p)
  BY <1>0, <1>1 DEF Provision, walletVars, MidWrite, ReviewRight, IsPlan
<1>3. Target(v)' = p /\ RowsRight(p)
  BY <1>1, <1>2 DEF Target, IInv, AllRight
<1>4. CASE GoTo(v, "compensate") /\ UNCHANGED service
  <2>1. pc'[v] = "compensate" /\ \A w \in Reviews \ {v} : pc'[w] = pc[w]
    BY <1>0, <1>4, GoToTypes
  <2>2. MidWrite(v)' /\ ~HasService(p)'
    BY <1>2, <1>4, <2>1 DEF MidWrite, HasService
  <2>3. ReviewRight(v)'
    BY <1>2, <1>3, <2>1, <2>2 DEF ReviewRight, MidWrite, IsPlan, Approved
  <2> QED  BY <1>1, <1>2, <1>4, <2>1, <2>2, <2>3, QuietStep
<1>5. CASE service' = service \cup {<<p, v>>} /\ GoTo(v, "mark")
  <2>1. pc'[v] = "mark" /\ \A w \in Reviews \ {v} : pc'[w] = pc[w]
    BY <1>0, <1>5, GoToTypes
  <2>2. MidWrite(v)' /\ HasService(p)' /\ InReview(p)'
    BY <1>3, <1>5, <2>1 DEF MidWrite, HasService, InReview
  <2>3. ReviewRight(v)'
    BY <1>2, <1>3, <2>1, <2>2 DEF ReviewRight, MidWrite, IsPlan, Approved
  <2>4. ServiceRight(p)'
    <3>1. \A w \in Reviews : <<p, w>> \in service' => w = v
      BY <1>2, <1>5 DEF HasService
    <3> QED  BY <1>2, <3>1 DEF ServiceRight, IsPlan, Approved
  <2>5. RowsRight(p)'
    BY <1>2, <1>3, <2>2, <2>4
       DEF RowsRight, Submitted, OrderRight, TextsTrue, IsPlan, Approved
  <2> QED  BY <1>1, <1>2, <1>5, <2>1, <2>2, <2>3, <2>5, FrameStep
<1> QED  BY <1>1, <1>4, <1>5 DEF Provision

\* A compensation rejects an order that has no service.
LEMMA CompensateRight ==
  ASSUME IInv, NEW v \in Reviews, Compensate(v)
  PROVE  AllRight'
<1>0. TypeOK /\ WalletTypeOK /\ ReviewRight(v)
  BY DEF IInv, AllRight, TypeOK
<1>1. PICK p \in PaymentIds : Target(v) = p
  BY <1>0, TargetType
<1>2. /\ UNCHANGED <<task, submission, service, told>>
      /\ pc[v] = "compensate" /\ MidWrite(v) /\ broken \subseteq broken'
      /\ payment[p] # NoPayment /\ IsPlan(p) /\ Approved(p) /\ ~HasService(p)
  BY <1>0, <1>1 DEF Compensate, MidWrite, ReviewRight, IsPlan
<1>3. pc'[v] \in {"notify", "done"} /\ \A w \in Reviews \ {v} : pc'[w] = pc[w]
  BY <1>0, ApprovalFailsTypes DEF Compensate
<1>4. CASE UNCHANGED <<payment, order>> /\ broken' = broken \cup {p}
  <2>1. ReviewRight(v)' /\ ~MidWrite(v)'
    BY <1>1, <1>2, <1>3, <1>4, DoneRight
  <2> QED  BY <1>1, <1>2, <1>3, <1>4, <2>1, QuietStep
<1>5. CASE /\ payment' = [payment EXCEPT ![p].status = "rejected"]
           /\ order' = [order EXCEPT ![p] = "rejected"]
  <2>1. /\ \A q \in PaymentIds \ {p} : payment'[q] = payment[q]
        /\ payment'[p] # NoPayment /\ payment'[p].status = "rejected"
        /\ payment'[p].plan = payment[p].plan
    BY <1>0, <1>2, <1>5, DecidedRow DEF PaymentStatus
  <2>2. order'[p] = "rejected" /\ \A q \in PaymentIds \ {p} : order'[q] = order[q]
    BY <1>0, <1>5 DEF TypeOK
  <2>3. RowsRight(p) /\ ~HasService(p)'
    BY <1>2 DEF IInv, AllRight, HasService
  <2>4. ReviewRight(v)' /\ ~MidWrite(v)'
    BY <1>1, <1>2, <1>3, <2>1, DoneRight
  <2>5. RowsRight(p)'
    BY <1>2, <2>1, <2>2, <2>3
       DEF RowsRight, Submitted, OrderRight, ServiceRight, TextsTrue, IsPlan,
           Approved, HasService
  <2> QED  BY <1>1, <1>2, <1>3, <1>5, <2>1, <2>2, <2>4, <2>5, FrameStep
<1> QED  BY <1>1, <1>4, <1>5 DEF Compensate

\* An order is marked only when it has its service.
LEMMA MarkRight ==
  ASSUME IInv, NEW v \in Reviews, MarkOrderProvisioned(v)
  PROVE  AllRight'
<1>0. TypeOK /\ ReviewRight(v)
  BY DEF IInv, AllRight
<1>1. PICK p \in PaymentIds : Target(v) = p
  BY <1>0, TargetType
<1>2. /\ UNCHANGED <<task, submission, payment, service, told>>
      /\ pc[v] = "mark" /\ MidWrite(v) /\ broken \subseteq broken'
      /\ payment[p] # NoPayment /\ IsPlan(p) /\ Approved(p) /\ HasService(p)
  BY <1>0, <1>1 DEF MarkOrderProvisioned, walletVars, MidWrite, ReviewRight, IsPlan
<1>3. pc'[v] = "notify" /\ \A w \in Reviews \ {v} : pc'[w] = pc[w]
  BY <1>0, GoToTypes DEF MarkOrderProvisioned
<1>4. ReviewRight(v)' /\ ~MidWrite(v)'
  BY <1>1, <1>2, <1>3, DoneRight
<1>5. CASE UNCHANGED order /\ broken' = broken \cup {p}
  BY <1>1, <1>2, <1>3, <1>4, <1>5, QuietStep
<1>6. CASE order' = [order EXCEPT ![p] = "provisioned"]
  <2>1. order'[p] = "provisioned" /\ \A q \in PaymentIds \ {p} : order'[q] = order[q]
    BY <1>0, <1>6 DEF TypeOK
  <2>2. RowsRight(p) /\ HasService(p)'
    BY <1>2 DEF IInv, AllRight, HasService
  <2>3. RowsRight(p)'
    BY <1>2, <2>1, <2>2
       DEF RowsRight, Submitted, OrderRight, ServiceRight, TextsTrue, IsPlan, Approved
  <2> QED  BY <1>1, <1>2, <1>3, <1>4, <2>1, <2>3, FrameStep
<1> QED  BY <1>1, <1>5, <1>6 DEF MarkOrderProvisioned

\* A rejected plan payment leaves its order to the same review.
LEMMA RejectReceiptRight ==
  ASSUME IInv, NEW v \in Reviews, RejectReceipt(v)
  PROVE  AllRight'
<1>0. TypeOK /\ WalletTypeOK /\ ReviewRight(v)
  BY DEF IInv, AllRight, TypeOK
<1>1. PICK p \in PaymentIds : Target(v) = p
  BY <1>0, TargetType
<1>2. /\ UNCHANGED <<task, submission, order, service, told, broken>>
      /\ pc[v] = "rejectPayment" /\ ~MidWrite(v) /\ payment[p] # NoPayment
  BY <1>0, <1>1 DEF RejectReceipt, planVars, MidWrite, ReviewRight
<1>3. CASE UNCHANGED walletVars /\ GoTo(v, "notify")
  <2>1. pc'[v] = "notify" /\ \A w \in Reviews \ {v} : pc'[w] = pc[w]
    BY <1>0, <1>3, GoToTypes
  <2>2. UNCHANGED payment
    BY <1>3 DEF walletVars
  <2>3. ReviewRight(v)' /\ ~MidWrite(v)'
    BY <1>1, <1>2, <2>1, <2>2, DoneRight
  <2> QED  BY <1>1, <1>2, <2>1, <2>2, <2>3, QuietStep
<1>4. CASE /\ RejectPayment(p)
           /\ IF payment[p].plan THEN GoTo(v, "rejectOrder") ELSE GoTo(v, "notify")
  <2>1. IsPending(p) /\ payment' = [payment EXCEPT ![p].status = "rejected"]
    BY <1>4 DEF RejectPayment
  <2>2. /\ \A q \in PaymentIds \ {p} : payment'[q] = payment[q]
        /\ payment'[p] # NoPayment /\ payment'[p].status = "rejected"
        /\ payment'[p].plan = payment[p].plan /\ payment[p].plan \in BOOLEAN
    BY <1>0, <1>2, <2>1, DecidedRow DEF PaymentStatus
  <2>3. /\ \A w \in Reviews \ {v} : pc'[w] = pc[w]
        /\ pc'[v] = IF payment[p].plan THEN "rejectOrder" ELSE "notify"
    BY <1>0, <1>4, GoToTypes
  <2>4. /\ RowsRight(p) /\ (HasService(p)' <=> HasService(p))
        /\ Target(v)' = p /\ payment[p].status = "pending"
    BY <1>1, <1>2, <2>1 DEF IInv, AllRight, HasService, Target, IsPending
  <2>5. ~HasService(p) /\ (IsPlan(p) => order[p] = "awaiting_approval")
    BY <1>2, <2>4 DEF RowsRight, OrderRight, ServiceRight, Approved
  <2>6. ReviewRight(v)' /\ (payment[p].plan => MidWrite(v)')
    BY <1>2, <2>2, <2>3, <2>4, <2>5 DEF ReviewRight, MidWrite, IsPlan
  <2>7. payment[p].plan => InReview(p)'
    BY <2>4, <2>6 DEF InReview
  <2>8. RowsRight(p)'
    BY <1>2, <2>2, <2>4, <2>5, <2>7
       DEF RowsRight, Submitted, OrderRight, ServiceRight, TextsTrue, IsPlan,
           Approved, HasService
  <2> QED  BY <1>1, <1>2, <2>1, <2>2, <2>3, <2>6, <2>8, FrameStep
<1> QED  BY <1>1, <1>3, <1>4 DEF RejectReceipt

\* The order of a rejected payment follows it, or a write failed.
LEMMA RejectOrderRight ==
  ASSUME IInv, NEW v \in Reviews, RejectOrder(v)
  PROVE  AllRight'
<1>0. TypeOK /\ ReviewRight(v)
  BY DEF IInv, AllRight
<1>1. PICK p \in PaymentIds : Target(v) = p
  BY <1>0, TargetType
<1>2. /\ UNCHANGED <<task, submission, payment, service, told>>
      /\ pc[v] = "rejectOrder" /\ MidWrite(v) /\ broken \subseteq broken'
      /\ payment[p] # NoPayment /\ IsPlan(p)
      /\ payment[p].status = "rejected" /\ order[p] = "awaiting_approval"
  BY <1>0, <1>1 DEF RejectOrder, walletVars, MidWrite, ReviewRight, IsPlan
<1>3. pc'[v] = "notify" /\ \A w \in Reviews \ {v} : pc'[w] = pc[w]
  BY <1>0, GoToTypes DEF RejectOrder
<1>4. ReviewRight(v)' /\ ~MidWrite(v)'
  BY <1>1, <1>2, <1>3, DoneRight
<1>5. CASE UNCHANGED order /\ broken' = broken \cup {p}
  BY <1>1, <1>2, <1>3, <1>4, <1>5, QuietStep
<1>6. CASE order' = [order EXCEPT ![p] = "rejected"]
  <2>1. order'[p] = "rejected" /\ \A q \in PaymentIds \ {p} : order'[q] = order[q]
    BY <1>0, <1>6 DEF TypeOK
  <2>2. RowsRight(p) /\ (HasService(p)' <=> HasService(p))
    BY <1>2 DEF IInv, AllRight, HasService
  <2>3. RowsRight(p)'
    BY <1>2, <2>1, <2>2
       DEF RowsRight, Submitted, OrderRight, ServiceRight, TextsTrue, IsPlan,
           Approved, HasService
  <2> QED  BY <1>1, <1>2, <1>3, <1>4, <2>1, <2>3, FrameStep
<1> QED  BY <1>1, <1>2, <1>5, <1>6 DEF RejectOrder

\* The message says what the rows say at that moment.
LEMMA NotifyRight ==
  ASSUME IInv, NEW v \in Reviews, NotifyEndUser(v)
  PROVE  AllRight'
<1>0. TypeOK /\ ReviewRight(v)
  BY DEF IInv, AllRight
<1>1. PICK p \in PaymentIds : Target(v) = p
  BY <1>0, TargetType
<1>2. /\ UNCHANGED <<task, submission, payment, order, service, broken>>
      /\ pc[v] = "notify" /\ ~MidWrite(v) /\ payment[p] # NoPayment
  BY <1>0, <1>1 DEF NotifyEndUser, walletVars, planVars, MidWrite, ReviewRight
<1>3. pc'[v] = "done" /\ \A w \in Reviews \ {v} : pc'[w] = pc[w]
  BY <1>0, GoToTypes DEF NotifyEndUser
<1>4. ReviewRight(v)' /\ ~MidWrite(v)'
  BY <1>1, <1>2, <1>3, DoneRight
<1>5. CASE UNCHANGED told
  BY <1>1, <1>2, <1>3, <1>4, <1>5, QuietStep
<1>6. ASSUME NEW text \in ReviewMessages(p), told' = [told EXCEPT ![p] = @ \cup {text}]
      PROVE  AllRight'
  <2>1. told'[p] = told[p] \cup {text} /\ \A q \in PaymentIds \ {p} : told'[q] = told[q]
    BY <1>0, <1>6 DEF TypeOK
  <2>2. /\ text = "service_ready" => HasService(p)
        /\ text = "order_failed" => payment[p].status = "rejected"
    BY <1>6 DEF ReviewMessages
  <2>3. RowsRight(p) /\ (HasService(p)' <=> HasService(p))
    BY <1>2 DEF IInv, AllRight, HasService
  <2>4. InReview(p) => InReview(p)'
    <3>1. \A w \in Reviews : Target(w)' = Target(w) /\ (MidWrite(w) => MidWrite(w)')
      BY <1>2, <1>3 DEF MidWrite, Target
    <3> QED  BY <3>1 DEF InReview
  <2>5. RowsRight(p)'
    BY <1>2, <2>1, <2>2, <2>3, <2>4
       DEF RowsRight, Submitted, OrderRight, ServiceRight, TextsTrue, IsPlan, Approved
  <2> QED  BY <1>1, <1>2, <1>3, <1>4, <2>1, <2>5, FrameStep
<1> QED  BY <1>1, <1>5, <1>6 DEF NotifyEndUser

\* A submission changes the rows of its own payment only, which no review has
\* seen yet.
LEMMA SubmitFrame ==
  ASSUME IInv, NEW p \in PaymentIds, payment[p] = NoPayment,
         UNCHANGED <<pc, task, told, service>>, broken \subseteq broken',
         \A q \in PaymentIds \ {p} :
           /\ payment'[q] = payment[q] /\ order'[q] = order[q]
           /\ submission'[q] = submission[q],
         Submitted(p)', OrderRight(p)'
  PROVE  AllRight'
<1>0. /\ TypeOK /\ OneWriter /\ \A w \in Reviews : ReviewRight(w)
      /\ \A q \in PaymentIds : RowsRight(q)
  BY DEF IInv, AllRight
<1>1. \A w \in Reviews : /\ Target(w) \in PaymentIds /\ Target(w)' = Target(w)
                         /\ MidWrite(w)' <=> MidWrite(w)
  BY <1>0, TargetType DEF Target, MidWrite
<1>2. OneWriter'
  BY <1>0, <1>1 DEF OneWriter
<1>3. ASSUME NEW w \in Reviews PROVE ReviewRight(w)'
  <2>1. CASE Target(w) = p
    <3>1. pc'[w] = "new" /\ ~MidWrite(w)'
      BY <1>0, <2>1 DEF ReviewRight, MidWrite
    <3> QED  BY <3>1 DEF ReviewRight
  <2>2. CASE Target(w) # p
    <3>1. /\ payment'[Target(w)] = payment[Target(w)]
          /\ order'[Target(w)] = order[Target(w)]
          /\ HasService(Target(w))' <=> HasService(Target(w))
      BY <1>1, <2>2 DEF HasService
    <3> QED  BY <1>0, <1>1, <3>1 DEF ReviewRight, IsPlan, Approved, MidWrite
  <2> QED  BY <2>1, <2>2
<1>4. RowsRight(p)'
  <2>1. told'[p] = {} /\ ~HasService(p)'
    BY <1>0 DEF RowsRight, Submitted, HasService
  <2> QED  BY <2>1 DEF RowsRight, ServiceRight, TextsTrue, HasService
<1>5. ASSUME NEW q \in PaymentIds \ {p} PROVE RowsRight(q)'
  <2>1. (HasService(q)' <=> HasService(q)) /\ (InReview(q)' <=> InReview(q))
    BY <1>1 DEF HasService, InReview
  <2>2. /\ payment'[q] = payment[q] /\ order'[q] = order[q]
        /\ submission'[q] = submission[q] /\ RowsRight(q)
        /\ q \in broken => q \in broken'
    BY <1>0
  <2> QED  BY <2>1, <2>2 DEF RowsRight, Submitted, OrderRight, ServiceRight,
                             TextsTrue, IsPlan, Approved
<1> QED  BY <1>2, <1>3, <1>4, <1>5 DEF AllRight

\* A payment that has been created.
LEMMA CreatedRow ==
  ASSUME WalletTypeOK, NEW p \in PaymentIds, NEW u \in EndUsers,
         NEW a \in Amounts, NEW plan \in BOOLEAN, CreatePayment(p, u, a, plan)
  PROVE  /\ payment[p] = NoPayment /\ payment'[p] # NoPayment
         /\ payment'[p].plan = plan /\ payment'[p].status = "pending"
         /\ \A q \in PaymentIds \ {p} : payment'[q] = payment[q]
<1> DEFINE row == [user |-> u, amount |-> a, plan |-> plan, status |-> "pending"]
<1>1. row # NoPayment /\ row.plan = plan /\ row.status = "pending"
  BY PaymentAssumption DEF Payments, PaymentStatus
<1>2. payment[p] = NoPayment /\ payment' = [payment EXCEPT ![p] = row]
  BY DEF CreatePayment
<1> HIDE DEF row
<1> QED  BY <1>1, <1>2 DEF WalletTypeOK

\* A submission leaves the payment pending and a plan's order awaiting it.
LEMMA SubmitRight ==
  ASSUME IInv, NEW p \in PaymentIds,
         CreateTopUpPayment(p) \/ CreatePlanOrder(p) \/ CreatePlanPayment(p)
  PROVE  AllRight'
<1>0. TypeOK /\ WalletTypeOK /\ RowsRight(p)
  BY DEF IInv, AllRight, TypeOK
<1>1. CASE CreateTopUpPayment(p)
  <2>1. PICK u \in EndUsers, a \in Amounts \ {0} : CreatePayment(p, u, a, FALSE)
    BY <1>1 DEF CreateTopUpPayment
  <2>2. /\ payment[p] = NoPayment /\ payment'[p] # NoPayment /\ payment'[p].plan = FALSE
        /\ \A q \in PaymentIds \ {p} : payment'[q] = payment[q]
    BY <1>0, <2>1, CreatedRow
  <2>3. /\ UNCHANGED <<pc, task, told, service, order, broken>>
        /\ submission'[p] = "done"
        /\ \A q \in PaymentIds \ {p} : submission'[q] = submission[q]
    BY <1>0, <1>1 DEF CreateTopUpPayment, reviewVars, planVars, TypeOK
  <2>4. Submitted(p)' /\ OrderRight(p)'
    BY <2>2, <2>3 DEF Submitted, OrderRight, IsPlan
  <2> QED  BY <2>2, <2>3, <2>4, SubmitFrame
<1>2. CASE CreatePlanOrder(p)
  <2>1. /\ submission'[p] = "payment" /\ order'[p] = "awaiting_approval"
        /\ payment[p] = NoPayment /\ UNCHANGED <<pc, task, told, service, payment, broken>>
        /\ \A q \in PaymentIds \ {p} :
              submission'[q] = submission[q] /\ order'[q] = order[q]
    BY <1>0, <1>2 DEF CreatePlanOrder, walletVars, reviewVars, TypeOK, RowsRight, Submitted
  <2>2. Submitted(p)' /\ OrderRight(p)'
    BY <1>0, <2>1 DEF Submitted, OrderRight, IsPlan, RowsRight, HasService
  <2> QED  BY <2>1, <2>2, SubmitFrame
<1>3. CASE CreatePlanPayment(p)
  <2>1. /\ submission'[p] = "done" /\ order[p] = "awaiting_approval"
        /\ payment[p] = NoPayment /\ told[p] = {} /\ ~HasService(p)
        /\ UNCHANGED <<pc, task, told, service, order>> /\ broken \subseteq broken'
        /\ \A q \in PaymentIds \ {p} : submission'[q] = submission[q]
    BY <1>0, <1>3 DEF CreatePlanPayment, reviewVars, TypeOK, RowsRight, Submitted
  <2>2. ~HasService(p)'
    BY <2>1 DEF HasService
  <2>3. CASE UNCHANGED walletVars
    <3>1. UNCHANGED payment
      BY <2>3 DEF walletVars
    <3>2. Submitted(p)' /\ OrderRight(p)'
      BY <2>1, <2>2, <3>1 DEF Submitted, OrderRight, IsPlan
    <3> QED  BY <2>1, <3>1, <3>2, SubmitFrame
  <2>4. CASE \E u \in EndUsers, a \in Amounts \ {0} : CreatePayment(p, u, a, TRUE)
    <3>1. /\ payment'[p] # NoPayment /\ payment'[p].status = "pending"
          /\ \A q \in PaymentIds \ {p} : payment'[q] = payment[q]
      BY <1>0, <2>4, CreatedRow
    <3>2. Submitted(p)' /\ OrderRight(p)'
      BY <2>1, <2>2, <3>1 DEF Submitted, OrderRight, IsPlan, Approved
    <3> QED  BY <2>1, <3>1, <3>2, SubmitFrame
  <2> QED  BY <1>3, <2>3, <2>4 DEF CreatePlanPayment
<1> QED  BY <1>1, <1>2, <1>3

\* Steps that leave the rows and the reviews alone.
LEMMA StillRight ==
  ASSUME IInv, UNCHANGED <<submission, pc, task, told, payment, planVars>>
  PROVE  AllRight'
<1>0. /\ OneWriter /\ \A w \in Reviews : ReviewRight(w)
      /\ \A q \in PaymentIds : RowsRight(q)
  BY DEF IInv, AllRight
<1>1. UNCHANGED <<order, service, broken>>
  BY DEF planVars
<1>2. OneWriter'
  BY <1>0 DEF OneWriter, MidWrite, Target
<1>3. \A w \in Reviews : ReviewRight(w)'
  BY <1>0, <1>1 DEF ReviewRight, MidWrite, Target, HasService, IsPlan, Approved
<1>4. \A q \in PaymentIds : RowsRight(q)'
  BY <1>0, <1>1 DEF RowsRight, Submitted, OrderRight, ServiceRight, TextsTrue, HasService,
                    InReview, MidWrite, Target, IsPlan, Approved
<1> QED  BY <1>2, <1>3, <1>4 DEF AllRight

\* A crash ends every review, and marks the payments whose verdict it cuts off.
LEMMA CrashRight == IInv /\ Crash => AllRight'
<1> SUFFICES ASSUME IInv, Crash PROVE AllRight'
  OBVIOUS
<1>0. /\ TypeOK /\ \A w \in Reviews : ReviewRight(w)
      /\ \A q \in PaymentIds : RowsRight(q)
  BY DEF IInv, AllRight
<1>1. /\ UNCHANGED <<task, told, payment, order, service>> /\ broken \subseteq broken'
      /\ \A w \in Reviews : MidWrite(w) => Target(w) \in broken'
  BY DEF Crash, walletVars
<1>2. ASSUME NEW w \in Reviews
      PROVE  ~MidWrite(w)' /\ ReviewRight(w)'
  <2>1. pc'[w] = IF Running(w) THEN "dead" ELSE pc[w]
    BY DEF Crash
  <2>2. pc'[w] \notin Calls /\ (pc'[w] = "new" => pc[w] = "new")
    BY <2>1 DEF Running, Calls
  <2>3. ~MidWrite(w)' /\ Target(w)' = Target(w)
    BY <1>1, <2>2 DEF MidWrite, Calls, Target
  <2>4. pc'[w] # "new" => payment[Target(w)] # NoPayment
    BY <1>0, <2>1 DEF ReviewRight, Running, Calls
  <2> QED  BY <1>1, <2>2, <2>3, <2>4 DEF ReviewRight, MidWrite, Calls
<1>3. ASSUME NEW q \in PaymentIds PROVE RowsRight(q)'
  <2>1. HasService(q)' <=> HasService(q)
    BY <1>1 DEF HasService
  <2>2. q \in broken \/ InReview(q) => q \in broken'
    BY <1>1 DEF InReview
  <2>3. submission'[q] = IF submission[q] = "payment" THEN "done" ELSE submission[q]
    BY DEF Crash
  <2>4. RowsRight(q)
    BY <1>0
  <2> QED  BY <1>1, <2>1, <2>2, <2>3, <2>4
           DEF RowsRight, Submitted, OrderRight, ServiceRight, TextsTrue, IsPlan, Approved
<1>4. OneWriter'
  BY <1>2 DEF OneWriter
<1> QED  BY <1>2, <1>3, <1>4 DEF AllRight

\* Every step keeps rows and reviews right.
LEMMA RightStep == IInv /\ [Next]_vars => AllRight'
<1> SUFFICES ASSUME IInv, [Next]_vars PROVE AllRight'
  OBVIOUS
<1>1. CASE UNCHANGED vars
  BY <1>1, StillRight DEF vars, walletVars, reviewVars
<1>2. CASE OtherWalletStep
  <2>1. UNCHANGED payment
    BY <1>2, AdjustStep DEF OtherWalletStep, IInv, TypeOK
  <2> QED  BY <1>2, <2>1, StillRight DEF OtherWalletStep, reviewVars
<1>3. ASSUME NEW v \in Reviews, HangUp(v) PROVE AllRight'
  BY <1>3, StillRight DEF HangUp, walletVars
<1>4. ASSUME NEW v \in Reviews, Step(v) PROVE AllRight'
  BY <1>4, ApproveTopUpRight, ApprovePlanRight, GetOrderRight, ProvisionRight,
     CompensateRight, MarkRight, RejectReceiptRight, RejectOrderRight, NotifyRight
     DEF Step
<1> QED  BY <1>1, <1>2, <1>3, <1>4, SubmitRight, StartReviewRight, CrashRight DEF Next

-----------------------------------------------------------------------------
(* The wallet.                                                             *)

Paid(p) == Approved(p) /\ ~IsPlan(p)

\* A step that writes no row for a payment's credit keeps it right.
LEMMA CreditKept ==
  ASSUME NEW q \in PaymentIds, Credited(q), UNCHANGED walletTx,
         Paid(q)' <=> Paid(q), Paid(q) => payment'[q] = payment[q]
  PROVE  Credited(q)'
<1>0. TopUpMemo(q)' = TopUpMemo(q)
  BY DEF TopUpMemo
<1>1. (Posted(TopUpMemo(q))' <=> Posted(TopUpMemo(q))) /\ NeverTwice(TopUpMemo(q))'
  BY <1>0 DEF Posted, NeverTwice, Credited
<1>2. ASSUME NEW v \in EndUsers, NEW i \in DOMAIN walletTx'[v],
             walletTx'[v][i].memo = TopUpMemo(q)
      PROVE  payment'[q].user = v /\ payment'[q].amount = walletTx'[v][i].delta
  <2>1. Posted(TopUpMemo(q))
    BY <1>2 DEF Posted
  <2> QED  BY <1>2, <2>1 DEF Credited, Paid
<1> QED  BY <1>0, <1>1, <1>2 DEF Credited, Paid

\* A row for another purpose changes nothing for this payment.
LEMMA CreditKeptBeside ==
  ASSUME WalletTypeOK, NEW q \in PaymentIds, Credited(q),
         NEW u \in EndUsers, NEW d, NEW memo, SaveBalance(u, d, memo),
         memo # TopUpMemo(q), payment'[q] = payment[q]
  PROVE  Credited(q)'
<1>0. TopUpMemo(q)' = TopUpMemo(q) /\ (Paid(q)' <=> Paid(q))
  BY DEF TopUpMemo, Paid, Approved, IsPlan
<1>1. (Posted(TopUpMemo(q))' <=> Posted(TopUpMemo(q))) /\ NeverTwice(TopUpMemo(q))'
  BY <1>0, OtherMemosKept DEF Credited
<1>2. ASSUME NEW v \in EndUsers, NEW i \in DOMAIN walletTx'[v],
             walletTx'[v][i].memo = TopUpMemo(q)
      PROVE  payment'[q].user = v /\ payment'[q].amount = walletTx'[v][i].delta
  <2>1. \/ i \in DOMAIN walletTx[v] /\ walletTx'[v][i] = walletTx[v][i]
        \/ walletTx'[v][i].memo = memo
    <3>1. \A w \in EndUsers : \A j \in DOMAIN walletTx'[w] :
            \/ j \in DOMAIN walletTx[w] /\ walletTx'[w][j] = walletTx[w][j]
            \/ walletTx'[w][j].memo = memo
      BY SaveBalanceRows
    <3> QED  BY <3>1
  <2>2. i \in DOMAIN walletTx[v] /\ walletTx'[v][i] = walletTx[v][i]
    BY <1>2, <2>1
  <2> QED  BY <1>2, <2>2 DEF Credited
<1> QED  BY <1>0, <1>1, <1>2 DEF Credited, Paid

\* An approved top-up is credited for the first time.
LEMMA CreditFirst ==
  ASSUME WalletTypeOK, NEW q \in PaymentIds, Credited(q), ApprovePayment(q), ~IsPlan(q)
  PROVE  Credited(q)'
<1> DEFINE u == payment[q].user
           a == payment[q].amount
<1>0. TopUpMemo(q)' = TopUpMemo(q) /\ TopUpMemo(q) = <<"topup_approved", q>>
  BY DEF TopUpMemo
<1>1. /\ payment[q] # NoPayment /\ payment[q].status = "pending"
      /\ SaveBalance(u, a, TopUpMemo(q))
      /\ payment' = [payment EXCEPT ![q].status = "approved"]
  BY <1>0 DEF ApprovePayment, IsPending
<1>2. u \in EndUsers
  BY <1>1 DEF WalletTypeOK, Payments
<1>3. /\ payment'[q] # NoPayment /\ payment'[q].status = "approved"
      /\ payment'[q].user = u /\ payment'[q].amount = a
      /\ payment'[q].plan = payment[q].plan
  BY <1>1, DecidedRow DEF PaymentStatus
<1>4. Paid(q)' /\ ~Paid(q)
  BY <1>1, <1>3 DEF Paid, Approved, IsPlan
<1>5. ~Posted(TopUpMemo(q))
  BY <1>4 DEF Credited, Paid
<1>6. Posted(TopUpMemo(q))' /\ NeverTwice(TopUpMemo(q))'
  BY <1>0, <1>1, <1>2, <1>5, FirstPosting
<1>7. ASSUME NEW v \in EndUsers, NEW i \in DOMAIN walletTx'[v],
             walletTx'[v][i].memo = TopUpMemo(q)
      PROVE  v = u /\ walletTx'[v][i].delta = a
  <2>1. ~(i \in DOMAIN walletTx[v] /\ walletTx'[v][i] = walletTx[v][i])
    BY <1>5, <1>7 DEF Posted
  <2>2. /\ \A w \in EndUsers : \A j \in DOMAIN walletTx'[w] :
             \/ j \in DOMAIN walletTx[w] /\ walletTx'[w][j] = walletTx[w][j]
             \/ w = u /\ j = Len(walletTx[u]) + 1 /\ walletTx'[w][j].delta = a
    BY <1>1, <1>2, SaveBalanceRows
  <2> QED  BY <2>1, <2>2
<1> QED  BY <1>0, <1>3, <1>4, <1>6, <1>7 DEF Credited, Paid

\* Every step keeps every payment's credit right.
LEMMA CreditStep == IInv /\ [Next]_vars => \A q \in PaymentIds : Credited(q)'
<1> SUFFICES ASSUME IInv, [Next]_vars, NEW q \in PaymentIds PROVE Credited(q)'
  OBVIOUS
<1>0. /\ TypeOK /\ WalletTypeOK /\ Credited(q)
      /\ \A v \in Reviews : ReviewRight(v) /\ Target(v) \in PaymentIds
  BY TargetType DEF IInv, AllRight, TypeOK
<1>1. ASSUME UNCHANGED <<walletTx, payment>> PROVE Credited(q)'
  BY <1>0, <1>1, CreditKept DEF Paid, Approved, IsPlan
<1>2. CASE UNCHANGED walletVars
  BY <1>1, <1>2 DEF walletVars
<1>3. CASE OtherWalletStep
  <2>1. PICK u \in EndUsers, d \in Deltas : AdjustWallet(u, d)
    BY <1>3 DEF OtherWalletStep
  <2>2. UNCHANGED payment /\ \E x : SaveBalance(u, x, <<"admin_adjust", NoRef>>)
    BY <2>1 DEF AdjustWallet, CreditWallet, DebitWallet
  <2>3. <<"admin_adjust", NoRef>> # TopUpMemo(q)
    BY DEF TopUpMemo
  <2> QED  BY <1>0, <2>2, <2>3, CreditKeptBeside
<1>4. ASSUME NEW p \in PaymentIds, NEW u \in EndUsers, NEW a \in Amounts,
             NEW plan \in BOOLEAN, CreatePayment(p, u, a, plan)
      PROVE  Credited(q)'
  <2>1. /\ payment[p] = NoPayment /\ payment'[p] # NoPayment
        /\ payment'[p].plan = plan /\ payment'[p].status = "pending"
        /\ \A r \in PaymentIds \ {p} : payment'[r] = payment[r]
    BY <1>0, <1>4, CreatedRow
  <2>2. UNCHANGED walletTx
    BY <1>4 DEF CreatePayment
  <2>3. CASE p = q
    <3>1. ~Paid(q) /\ ~Paid(q)'
      BY <2>1, <2>3 DEF Paid, Approved
    <3> QED  BY <1>0, <2>2, <3>1, CreditKept
  <2>4. CASE p # q
    BY <1>0, <2>1, <2>2, <2>4, CreditKept DEF Paid, Approved, IsPlan
  <2> QED  BY <2>3, <2>4
<1>5. ASSUME NEW p \in PaymentIds, payment[p] # NoPayment, UNCHANGED walletTx,
             NEW status \in PaymentStatus, IsPlan(p) \/ (IsPending(p) /\ status # "approved"),
             payment' = [payment EXCEPT ![p].status = status]
      PROVE  Credited(q)'
  <2>1. /\ payment'[p] # NoPayment /\ payment'[p].plan = payment[p].plan
        /\ payment'[p].status = status
        /\ \A r \in PaymentIds \ {p} : payment'[r] = payment[r]
    BY <1>0, <1>5, DecidedRow
  <2>2. CASE p = q
    <3>1. ~Paid(q) /\ ~Paid(q)'
      BY <1>5, <2>1, <2>2 DEF Paid, Approved, IsPlan, IsPending
    <3> QED  BY <1>0, <1>5, <3>1, CreditKept
  <2>3. CASE p # q
    BY <1>0, <1>5, <2>1, <2>3, CreditKept DEF Paid, Approved, IsPlan
  <2> QED  BY <2>2, <2>3
<1>6. ASSUME NEW v \in Reviews, ApproveTopUp(v) PROVE Credited(q)'
  <2>1. CASE ApprovePayment(Target(v))
    <3>1. ~IsPlan(Target(v))
      BY <1>0, <1>6 DEF ApproveTopUp, ReviewRight
    <3>2. CASE Target(v) = q
      BY <1>0, <2>1, <3>1, <3>2, CreditFirst
    <3>3. CASE Target(v) # q
      <4> DEFINE p == Target(v)
      <4>1. /\ payment[p] # NoPayment
            /\ SaveBalance(payment[p].user, payment[p].amount, <<"topup_approved", p>>)
            /\ payment' = [payment EXCEPT ![p].status = "approved"]
        BY <2>1 DEF ApprovePayment, IsPending
      <4>2. payment[p].user \in EndUsers
        BY <1>0, <4>1 DEF WalletTypeOK, Payments
      <4>3. payment'[q] = payment[q] /\ <<"topup_approved", p>> # TopUpMemo(q)
        BY <1>0, <3>3, <4>1 DEF TopUpMemo, WalletTypeOK
      <4> HIDE DEF p
      <4> QED  BY <1>0, <4>1, <4>2, <4>3, CreditKeptBeside
    <3> QED  BY <3>2, <3>3
  <2> QED  BY <1>2, <1>6, <2>1 DEF ApproveTopUp
<1>7. ASSUME NEW v \in Reviews, ApprovePlan(v) PROVE Credited(q)'
  <2>1. PICK p \in PaymentIds : Target(v) = p
    BY <1>0
  <2>2. payment[p] # NoPayment /\ IsPlan(p) /\ UNCHANGED walletTx
    BY <1>0, <1>7, <2>1 DEF ApprovePlan, ReviewRight
  <2>3. \/ UNCHANGED payment
        \/ payment' = [payment EXCEPT ![p].status = "approved"]
    BY <1>7, <2>1 DEF ApprovePlan
  <2>4. "approved" \in PaymentStatus
    BY DEF PaymentStatus
  <2> QED  BY <1>1, <1>5, <2>2, <2>3, <2>4
<1>8. ASSUME NEW v \in Reviews, Compensate(v) PROVE Credited(q)'
  <2>1. payment[Target(v)] # NoPayment /\ IsPlan(Target(v)) /\ UNCHANGED walletTx
    BY <1>0, <1>8 DEF Compensate, ReviewRight, MidWrite
  <2> QED  BY <1>0, <1>1, <1>5, <1>8, <2>1 DEF Compensate, PaymentStatus
<1>9. ASSUME NEW v \in Reviews, RejectReceipt(v) PROVE Credited(q)'
  <2>1. CASE RejectPayment(Target(v))
    <3>1. /\ IsPending(Target(v)) /\ payment[Target(v)] # NoPayment /\ UNCHANGED walletTx
          /\ payment' = [payment EXCEPT ![Target(v)].status = "rejected"]
      BY <2>1 DEF RejectPayment, IsPending
    <3> QED  BY <1>0, <1>5, <3>1 DEF PaymentStatus
  <2> QED  BY <1>2, <1>9, <2>1 DEF RejectReceipt
<1>10. ASSUME NEW p \in PaymentIds,
              CreateTopUpPayment(p) \/ CreatePlanOrder(p) \/ CreatePlanPayment(p)
       PROVE  Credited(q)'
  BY <1>2, <1>4, <1>10 DEF CreateTopUpPayment, CreatePlanOrder, CreatePlanPayment
<1>11. ASSUME NEW v \in Reviews,
              \/ StartReview(v) \/ GetOrder(v) \/ Provision(v) \/ HangUp(v)
              \/ MarkOrderProvisioned(v) \/ RejectOrder(v) \/ NotifyEndUser(v)
       PROVE  Credited(q)'
  BY <1>2, <1>11 DEF StartReview, GetOrder, Provision, HangUp, MarkOrderProvisioned,
                     RejectOrder, NotifyEndUser
<1>12. CASE Crash \/ UNCHANGED vars
  BY <1>2, <1>12 DEF Crash, vars
<1> QED  BY <1>3, <1>6, <1>7, <1>8, <1>9, <1>10, <1>11, <1>12 DEF Next, Step

-----------------------------------------------------------------------------
(* What is promised.                                                       *)

\* At the start nothing is submitted and no review has begun.
LEMMA InitRight == Init => IInv
<1> SUFFICES ASSUME Init PROVE IInv
  OBVIOUS
<1>1. TypeOK
  BY InitTypeOK
<1>2. AllRight
  BY DEF Init, WalletInit, AllRight, OneWriter, ReviewRight, RowsRight, Submitted,
         OrderRight, ServiceRight, TextsTrue, MidWrite, IsPlan, Approved, HasService
<1>3. ASSUME NEW p \in PaymentIds PROVE Credited(p)
  <2>1. \A u \in EndUsers : \A i \in DOMAIN walletTx[u] :
          walletTx[u][i].memo # TopUpMemo(p)
    <3> SUFFICES ASSUME NEW u \in EndUsers, NEW i \in DOMAIN walletTx[u]
                 PROVE  walletTx[u][i].memo # TopUpMemo(p)
      OBVIOUS
    <3> DEFINE opening == WalletTx(Opening[u], Opening[u], <<"admin_adjust", NoRef>>)
    <3>1. walletTx[u] = IF Opening[u] = 0 THEN <<>> ELSE <<opening>>
      BY DEF Init, WalletInit
    <3>2. opening.memo = <<"admin_adjust", NoRef>>
      BY DEF WalletTx
    <3> HIDE DEF opening
    <3>3. walletTx[u] = <<opening>> /\ i = 1
      BY <3>1
    <3> QED  BY <3>2, <3>3 DEF TopUpMemo
  <2>2. ~Approved(p)
    BY DEF Init, WalletInit, Approved
  <2> QED  BY <2>1, <2>2 DEF Posted, NeverTwice, Credited
<1> QED  BY <1>1, <1>2, <1>3 DEF IInv

\* Whatever is submitted, reviewed, adjusted, cut off or refused, the rows are as
\* the reviews under way rely on.
THEOREM ReviewInvariant == Spec => []IInv
<1>1. IInv /\ [Next]_vars => IInv'
  <2> SUFFICES ASSUME IInv, [Next]_vars PROVE IInv'
    OBVIOUS
  <2>1. TypeOK' /\ AllRight'
    BY TypeStep, RightStep
  <2>2. \A p \in PaymentIds : Credited(p)'
    BY CreditStep
  <2> QED  BY <2>1, <2>2 DEF IInv
<1> QED  BY <1>1, InitRight, PTL DEF Spec

\* A receipt is used once: a top-up is credited exactly when it is approved, once,
\* in full, to its payer; a plan payment buys at most one service, while it stands
\* approved; for any number of customers, payments and concurrent reviews.
THEOREM ReviewReceiptUsedOnce == Spec => []ReceiptUsedOnce
<1>1. IInv => ReceiptCreditedOnce
  BY DEF IInv, Credited, ReceiptCreditedOnce
<1>2. IInv => ReceiptBuysOneService
  <2> SUFFICES ASSUME IInv, NEW p \in PaymentIds
               PROVE  /\ \A v, w \in Reviews :
                           <<p, v>> \in service /\ <<p, w>> \in service => v = w
                      /\ HasService(p) =>
                           IsPlan(p) /\ Approved(p) /\ order[p] \in {"approved", "provisioned"}
    BY DEF ReceiptBuysOneService
  <2>1. RowsRight(p)
    BY DEF IInv, AllRight
  <2> QED  BY <2>1 DEF RowsRight, ServiceRight, OrderRight
<1>3. IInv => ReceiptUsedOnce
  BY <1>1, <1>2 DEF ReceiptUsedOnce
<1> QED  BY <1>3, ReviewInvariant, PTL

\* A plan payment, its order and its service tell one story when no review of it
\* is under way and none of its writes failed.
THEOREM ReviewRowsAgree == Spec => []RowsAgree
<1>1. IInv => RowsAgree
  <2> SUFFICES ASSUME IInv, NEW p \in PaymentIds, IsPlan(p), ~InReview(p), p \notin broken
               PROVE  /\ payment[p].status = "pending" <=> order[p] = "awaiting_approval"
                      /\ payment[p].status = "approved" <=> order[p] = "provisioned"
                      /\ payment[p].status = "rejected" <=> order[p] = "rejected"
                      /\ payment[p].status = "approved" <=> HasService(p)
    BY DEF RowsAgree
  <2>1. RowsRight(p)
    BY DEF IInv, AllRight
  <2>2. payment[p].status \in {"pending", "approved", "rejected"}
    BY DEF IInv, TypeOK, WalletTypeOK, IsPlan, Payments, PaymentStatus
  <2> QED  BY <2>1, <2>2 DEF RowsRight, OrderRight, Approved, IsPlan
<1> QED  BY <1>1, ReviewInvariant, PTL

\* A customer is told of a service only when there is one, and of a failure only
\* when the payment is rejected.
THEOREM ReviewMessagesAreTrue == Spec => []MessagesAreTrue
<1>1. IInv => MessagesAreTrue
  BY DEF IInv, AllRight, RowsRight, TextsTrue, MessagesAreTrue
<1> QED  BY <1>1, ReviewInvariant, PTL

\* A rejected payment stays as it is, and an approval is taken back only from a plan
\* payment without a service.
THEOREM ReviewVerdictStands == Spec => VerdictStands
<1> DEFINE Kept(p) ==
      /\ payment[p] # NoPayment /\ payment[p].status = "rejected" => payment'[p] = payment[p]
      /\ Approved(p) /\ payment'[p] # payment[p] =>
           IsPlan(p) /\ ~HasService(p)' /\ payment'[p].status = "rejected"
<1>1. IInv /\ [Next]_vars => \A p \in PaymentIds : Kept(p)
  <2> SUFFICES ASSUME IInv, [Next]_vars, NEW p \in PaymentIds PROVE Kept(p)
    OBVIOUS
  <2>0. /\ WalletTypeOK /\ \A v \in Reviews : ReviewRight(v) /\ Target(v) \in PaymentIds
    BY TargetType DEF IInv, AllRight, TypeOK
  <2>1. ASSUME NEW q \in PaymentIds, payment[q] = NoPayment \/ IsPending(q),
               NEW row, payment' = [payment EXCEPT ![q] = row]
        PROVE  Kept(p)
    <3>1. CASE p = q
      BY <2>1, <3>1 DEF IsPending, Approved
    <3>2. CASE p # q
      BY <2>0, <2>1, <3>2 DEF WalletTypeOK
    <3> QED  BY <3>1, <3>2
  <2>2. CASE UNCHANGED payment
    BY <2>2
  <2>3. ASSUME NEW v \in Reviews, Compensate(v) PROVE Kept(p)
    <3>1. /\ payment[Target(v)] # NoPayment /\ IsPlan(Target(v))
          /\ ~HasService(Target(v)) /\ UNCHANGED service /\ Approved(Target(v))
      BY <2>0, <2>3 DEF Compensate, ReviewRight, MidWrite
    <3>2. CASE payment' = [payment EXCEPT ![Target(v)].status = "rejected"]
      <4>1. /\ payment'[Target(v)].status = "rejected"
            /\ \A r \in PaymentIds \ {Target(v)} : payment'[r] = payment[r]
        BY <2>0, <3>1, <3>2, DecidedRow DEF PaymentStatus
      <4>2. ~HasService(Target(v))'
        BY <2>3, <3>1 DEF HasService, Compensate, Target
      <4>3. CASE p = Target(v)
        <5>1. ~HasService(p)'
          BY <3>1, <4>3 DEF HasService
        <5> QED  BY <3>1, <4>1, <4>3, <5>1 DEF Approved
      <4>4. CASE p # Target(v)
        BY <4>1, <4>4
      <4> QED  BY <4>3, <4>4
    <3> QED  BY <2>2, <2>3, <3>2 DEF Compensate
  <2>4. CASE UNCHANGED walletVars
    BY <2>2, <2>4 DEF walletVars
  <2>5. ASSUME NEW q \in PaymentIds,
               CreateTopUpPayment(q) \/ CreatePlanOrder(q) \/ CreatePlanPayment(q)
        PROVE  Kept(p)
    <3>1. ASSUME NEW u, NEW a, NEW plan, CreatePayment(q, u, a, plan) PROVE Kept(p)
      BY <2>1, <3>1 DEF CreatePayment
    <3> QED  BY <2>4, <2>5, <3>1 DEF CreateTopUpPayment, CreatePlanOrder, CreatePlanPayment
  <2>6. ASSUME NEW v \in Reviews, ApproveTopUp(v) \/ ApprovePlan(v) \/ RejectReceipt(v)
        PROVE  Kept(p)
    <3>1. ASSUME IsPending(Target(v)), NEW status,
                 payment' = [payment EXCEPT ![Target(v)].status = status]
          PROVE  Kept(p)
      BY <2>0, <2>1, <3>1
    <3>2. \/ UNCHANGED walletVars \/ UNCHANGED payment
          \/ /\ IsPending(Target(v))
             /\ \E status : payment' = [payment EXCEPT ![Target(v)].status = status]
      BY <2>6 DEF ApproveTopUp, ApprovePlan, RejectReceipt, ApprovePayment, RejectPayment
    <3> QED  BY <2>2, <2>4, <3>1, <3>2
  <2>7. ASSUME NEW v \in Reviews,
               \/ StartReview(v) \/ GetOrder(v) \/ Provision(v) \/ HangUp(v)
               \/ MarkOrderProvisioned(v) \/ RejectOrder(v) \/ NotifyEndUser(v)
        PROVE  Kept(p)
    BY <2>4, <2>7 DEF StartReview, GetOrder, Provision, HangUp, MarkOrderProvisioned,
                      RejectOrder, NotifyEndUser
  <2>8. CASE OtherWalletStep \/ Crash \/ UNCHANGED vars
    <3>1. UNCHANGED payment
      BY <2>8 DEF OtherWalletStep, AdjustWallet, CreditWallet, DebitWallet, Crash, vars,
                  walletVars
    <3> QED  BY <2>2, <3>1
  <2> QED  BY <2>3, <2>5, <2>6, <2>7, <2>8 DEF Next, Step
<1>2. IInv /\ [Next]_vars
      => [\A p \in PaymentIds :
            /\ payment[p] # NoPayment /\ payment[p].status = "rejected"
               => payment'[p] = payment[p]
            /\ Approved(p) /\ payment'[p] # payment[p] =>
                 IsPlan(p) /\ ~HasService(p)' /\ payment'[p].status = "rejected"]_vars
  BY <1>1
<1> QED  BY <1>2, ReviewInvariant, PTL DEF Spec, VerdictStands
=============================================================================
