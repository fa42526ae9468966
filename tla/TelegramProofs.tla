---------------------------- MODULE TelegramProofs ----------------------------
(***************************************************************************)
(* Proofs about two parts of the Telegram manager                          *)
(* (internal/telegram/manager.go) that share no state: the handlers that   *)
(* save a customer's row whole (module EndUserRows), for any customers,    *)
(* tasks and amounts, and the registry and the webhook of a bot (module    *)
(* BotManager), for any requests, tokens and updates.                      *)
(***************************************************************************)
EXTENDS EndUserRows, BotManager, WalletStoreProofs, FiniteSetTheorems

-----------------------------------------------------------------------------
(* The customer's row (module EndUserRows).                                *)

\* The balances a customer's wallet_tx rows say the customer had.
Real(u) == {0} \cup {walletTx[u][i].after : i \in DOMAIN walletTx[u]}

\* The trial columns of a row, saved or copied: used once or not at all, and used
\* only when the customer was delivered one.
TrialsOf(p, u) ==
  /\ p.trialCount \in {0, 1}
  /\ p.trialUsed <=> p.trialCount = 1
  /\ p.trialCount = 1 => Trials(u) # {}

Loaded(t) == pc[t] \notin {"new", "done", "dead"}

\* The task found the trial unused on its copy.
MayTry(t) == pc[t] \in {"order", "provision", "reject", "save", "mark"}

CopyIsOld(t) ==
  Loaded(t) =>
    /\ copy[t].balance \in Real(owner[t])
    /\ TrialsOf(copy[t].profile, owner[t])
    /\ MayTry(t) => copy[t].profile.trialCount = 0

Delivery(t) ==
  /\ pc[t] \in {"save", "mark"} => t \in service
  /\ pc[t] = "save" => t \in unsaved
  /\ pc[t] \in {"new", "lang", "check", "order", "provision", "reject"} => t \notin service

\* What came of an order is settled by the task's last step, or after the delivery.
Settled(t) ==
  /\ told[t] # "nothing" => pc[t] = "done"
  /\ told[t] = "service_ready" => t \in service
  /\ told[t] = "order_failed" => t \notin service
  /\ order[t] = "provisioned" => t \in service
  /\ order[t] = "rejected" => pc[t] = "done" /\ t \notin service

RowIsReal(u) == balance[u] \in Real(u) /\ TrialsOf(profile[u], u)

\* The trials counted in the row, while no stale copy was saved over it.
Counted(u) ==
  \/ profile[u].trialCount = 0 /\ Trials(u) \ unsaved = {}
  \/ profile[u].trialCount = 1 /\ \E t \in Tasks : Trials(u) \ unsaved = {t}

RowIsTrue(u) ==
  u \notin overwritten =>
    /\ L!Chained(walletTx[u]) /\ L!Explained(walletTx[u], balance[u])
    /\ profile[u].status = ruling[u]
    /\ Counted(u)

CustomersInv ==
  /\ CustomersTypeOK
  /\ IsFiniteSet(service)
  /\ \A t \in Tasks : CopyIsOld(t) /\ Delivery(t) /\ Settled(t)
  /\ \A u \in EndUsers : RowIsReal(u) /\ RowIsTrue(u)

\* A task's step that touches no row and delivers nothing only has to answer for the task.
LEMMA TaskStep ==
  ASSUME CustomersInv, CustomersTypeOK', NEW t \in Tasks,
         UNCHANGED <<walletVars, owner, service, unsaved, rowVars>>,
         \A s \in Tasks \ {t} : /\ pc'[s] = pc[s] /\ copy'[s] = copy[s]
                                /\ told'[s] = told[s] /\ order'[s] = order[s],
         CopyIsOld(t)', Delivery(t)', Settled(t)'
  PROVE  CustomersInv'
<1>1. /\ balance' = balance /\ walletTx' = walletTx /\ profile' = profile
      /\ overwritten' = overwritten /\ ruling' = ruling
      /\ owner' = owner /\ service' = service /\ unsaved' = unsaved
  BY DEF walletVars, rowVars
<1>2. \A u \in EndUsers : Real(u)' = Real(u) /\ Trials(u)' = Trials(u)
  BY <1>1 DEF Real, Trials
<1>3. ASSUME NEW s \in Tasks PROVE CopyIsOld(s)' /\ Delivery(s)' /\ Settled(s)'
  <2>1. CASE s = t
    BY <2>1
  <2>2. CASE s # t
    <3>1. CopyIsOld(s) /\ Delivery(s) /\ Settled(s) /\ owner[s] \in EndUsers
      BY DEF CustomersInv, CustomersTypeOK
    <3>2. CopyIsOld(s)'
      BY <1>1, <1>2, <2>2, <3>1 DEF CopyIsOld, Loaded, MayTry, TrialsOf
    <3>3. Delivery(s)' /\ Settled(s)'
      BY <1>1, <2>2, <3>1 DEF Delivery, Settled
    <3>4. QED BY <3>2, <3>3
  <2>3. QED BY <2>1, <2>2
<1>4. ASSUME NEW u \in EndUsers PROVE RowIsReal(u)' /\ RowIsTrue(u)'
  <2>1. RowIsReal(u) /\ RowIsTrue(u)
    BY DEF CustomersInv
  <2>2. RowIsReal(u)'
    BY <1>1, <1>2, <2>1 DEF RowIsReal, TrialsOf
  <2>3. RowIsTrue(u)'
    BY <1>1, <1>2, <2>1 DEF RowIsTrue, Counted
  <2>4. QED BY <2>2, <2>3
<1>5. IsFiniteSet(service)'
  BY <1>1 DEF CustomersInv
<1>6. QED BY <1>3, <1>4, <1>5 DEF CustomersInv

\* The copy LoadUser takes is the row itself.
LEMMA LoadUserKeeps ==
  ASSUME CustomersInv, NEW t \in Tasks, LoadUser(t) PROVE CustomersInv'
<1>1. /\ owner[t] \in EndUsers /\ kind[t] \in Kinds
      /\ CopyIsOld(t) /\ Delivery(t) /\ Settled(t) /\ RowIsReal(owner[t])
      /\ CustomersTypeOK
  BY DEF CustomersInv, CustomersTypeOK
<1>2. Row(owner[t]) \in [balance : Nat, profile : Profiles]
  BY <1>1 DEF Row, CustomersTypeOK, WalletTypeOK
<1>3. /\ UNCHANGED <<walletVars, owner, service, unsaved, rowVars, kind, order>>
      /\ pc[t] = "new"
  BY DEF LoadUser, trialVars
<1>4. CASE copy' = [copy EXCEPT ![t] = Row(owner[t])]
           /\ GoTo(t, IF kind[t] = "lang" THEN "lang" ELSE "check") /\ UNCHANGED told
  <2>1. pc'[t] \in {"lang", "check"}
    BY <1>1, <1>4 DEF GoTo, CustomersTypeOK
  <2>2. CustomersTypeOK'
    BY <1>1, <1>2, <1>3, <1>4 DEF GoTo, CustomersTypeOK, WalletTypeOK, walletVars, rowVars
  <2>3. Real(owner[t])' = Real(owner[t]) /\ Trials(owner[t])' = Trials(owner[t])
    BY <1>3 DEF Real, Trials, walletVars
  <2>4. copy'[t] = Row(owner[t]) /\ owner'[t] = owner[t]
    BY <1>1, <1>3, <1>4 DEF CustomersTypeOK
  <2>5. CopyIsOld(t)'
    BY <1>1, <2>1, <2>3, <2>4 DEF CopyIsOld, MayTry, Row, RowIsReal, TrialsOf
  <2>6. Delivery(t)' /\ Settled(t)'
    BY <1>1, <1>3, <1>4, <2>1 DEF Delivery, Settled
  <2>7. \A s \in Tasks \ {t} : /\ pc'[s] = pc[s] /\ copy'[s] = copy[s]
                               /\ told'[s] = told[s] /\ order'[s] = order[s]
    BY <1>1, <1>3, <1>4 DEF GoTo, CustomersTypeOK
  <2>8. QED BY <1>3, <2>2, <2>5, <2>6, <2>7, TaskStep
<1>5. CASE Answer(t, "nothing") /\ UNCHANGED copy
  <2>1. CustomersTypeOK'
    BY <1>1, <1>3, <1>5 DEF Answer, GoTo, CustomersTypeOK, WalletTypeOK, walletVars, rowVars
  <2>2. pc'[t] = "done" /\ told'[t] = "nothing"
    BY <1>1, <1>5 DEF Answer, GoTo, CustomersTypeOK
  <2>3. CopyIsOld(t)' /\ Delivery(t)' /\ Settled(t)'
    BY <1>1, <1>3, <2>2 DEF CopyIsOld, Loaded, Delivery, Settled
  <2>4. \A s \in Tasks \ {t} : /\ pc'[s] = pc[s] /\ copy'[s] = copy[s]
                               /\ told'[s] = told[s] /\ order'[s] = order[s]
    BY <1>1, <1>3, <1>5 DEF Answer, GoTo, CustomersTypeOK
  <2>5. QED BY <1>3, <2>1, <2>3, <2>4, TaskStep
<1>6. QED BY <1>4, <1>5 DEF LoadUser

\* Answering a customer ends the task, whatever it was doing.
LEMMA AnswerKeeps ==
  ASSUME CustomersInv, NEW t \in Tasks, NEW text \in
           {"nothing", "user_blocked", "trial_already_used", "order_failed", "service_ready"},
         Answer(t, text), UNCHANGED <<walletVars, kind, owner, copy, service, unsaved, rowVars>>,
         order' \in [Tasks -> {"none", "approved", "provisioned", "rejected"}],
         \A s \in Tasks \ {t} : order'[s] = order[s],
         text = "service_ready" => t \in service,
         text = "order_failed" => t \notin service,
         order'[t] = "provisioned" => t \in service,
         order'[t] = "rejected" => t \notin service
  PROVE  CustomersInv'
<1>1. CustomersTypeOK
  BY DEF CustomersInv
<1>2. CustomersTypeOK'
  BY <1>1 DEF Answer, GoTo, CustomersTypeOK, WalletTypeOK, walletVars, rowVars
<1>3. pc'[t] = "done" /\ told'[t] = text
  BY <1>1 DEF Answer, GoTo, CustomersTypeOK
<1>4. CopyIsOld(t)' /\ Delivery(t)' /\ Settled(t)'
  BY <1>3 DEF CopyIsOld, Loaded, Delivery, Settled
<1>5. \A s \in Tasks \ {t} : /\ pc'[s] = pc[s] /\ copy'[s] = copy[s]
                             /\ told'[s] = told[s] /\ order'[s] = order[s]
  BY <1>1 DEF Answer, GoTo, CustomersTypeOK
<1>6. QED BY <1>2, <1>4, <1>5, TaskStep

\* Moving on before anything is delivered; a task that goes on to order has found the
\* trial unused.
LEMMA GoToKeeps ==
  ASSUME CustomersInv, NEW t \in Tasks, NEW next \in {"order", "provision", "reject"},
         GoTo(t, next), UNCHANGED <<walletVars, kind, owner, copy, told, service, unsaved, rowVars>>,
         order' \in [Tasks -> {"none", "approved", "provisioned", "rejected"}],
         \A s \in Tasks \ {t} : order'[s] = order[s],
         order'[t] \in {order[t], "approved"},
         pc[t] \in {"check", "order", "provision"},
         MayTry(t) \/ copy[t].profile.trialCount = 0
  PROVE  CustomersInv'
<1>1. CustomersTypeOK /\ CopyIsOld(t) /\ Delivery(t) /\ Settled(t) /\ owner[t] \in EndUsers
  BY DEF CustomersInv, CustomersTypeOK
<1>2. CustomersTypeOK'
  BY <1>1 DEF GoTo, CustomersTypeOK, WalletTypeOK, walletVars, rowVars
<1>3. pc'[t] = next
  BY <1>1 DEF GoTo, CustomersTypeOK
<1>4. Real(owner[t])' = Real(owner[t]) /\ Trials(owner[t])' = Trials(owner[t])
  BY DEF Real, Trials, walletVars
<1>5. CopyIsOld(t)'
  BY <1>1, <1>3, <1>4 DEF CopyIsOld, Loaded, MayTry, TrialsOf
<1>6. Delivery(t)' /\ Settled(t)'
  BY <1>1, <1>3 DEF Delivery, Settled
<1>7. \A s \in Tasks \ {t} : /\ pc'[s] = pc[s] /\ copy'[s] = copy[s]
                             /\ told'[s] = told[s] /\ order'[s] = order[s]
  BY <1>1 DEF GoTo, CustomersTypeOK
<1>8. QED BY <1>2, <1>5, <1>6, <1>7, TaskStep

\* The refusal, the check, the order, its rejection and its mark are such steps.
LEMMA PlainStepsKeep ==
  ASSUME CustomersInv, NEW t \in Tasks,
         \/ RefuseBlocked(t) \/ CheckTrial(t) \/ CreateTrialOrder(t)
         \/ RejectTrialOrder(t) \/ MarkTrialOrder(t)
  PROVE  CustomersInv'
<1>1. CustomersTypeOK /\ CopyIsOld(t) /\ Delivery(t) /\ Settled(t)
  BY DEF CustomersInv
<1>2. CASE RefuseBlocked(t)
  BY <1>1, <1>2, AnswerKeeps DEF RefuseBlocked, Settled, trialVars, CustomersTypeOK
<1>3. CASE CheckTrial(t)
  <2>1. UNCHANGED <<walletVars, kind, owner, copy, service, unsaved, rowVars, order>>
    BY <1>3 DEF CheckTrial, trialVars
  <2>2. CASE TrialSpent(t) /\ Answer(t, "trial_already_used")
    BY <1>1, <2>1, <2>2, AnswerKeeps DEF Settled, CustomersTypeOK
  <2>3. CASE ~TrialSpent(t) /\ GoTo(t, "order") /\ UNCHANGED told
    <3>1. copy[t].profile.trialCount = 0
      BY <1>1, <1>3, <2>3 DEF CheckTrial, TrialSpent, CopyIsOld, Loaded, TrialsOf
    <3>2. pc[t] = "check"
      BY <1>3 DEF CheckTrial
    <3>3. QED BY <1>1, <2>1, <2>3, <3>1, <3>2, GoToKeeps DEF CustomersTypeOK
  <2>4. CASE Answer(t, "nothing")
    BY <1>1, <2>1, <2>4, AnswerKeeps DEF Settled, CustomersTypeOK
  <2>5. QED BY <1>3, <2>2, <2>3, <2>4 DEF CheckTrial
<1>4. CASE CreateTrialOrder(t)
  <2>1. UNCHANGED <<walletVars, kind, owner, copy, service, unsaved, rowVars>> /\ pc[t] = "order"
    BY <1>4 DEF CreateTrialOrder
  <2>2. CASE order' = [order EXCEPT ![t] = "approved"] /\ GoTo(t, "provision") /\ UNCHANGED told
    BY <1>1, <2>1, <2>2, GoToKeeps DEF MayTry, CustomersTypeOK
  <2>3. CASE Answer(t, "nothing") /\ UNCHANGED order
    BY <1>1, <2>1, <2>3, AnswerKeeps DEF Settled, CustomersTypeOK
  <2>4. QED BY <1>4, <2>2, <2>3 DEF CreateTrialOrder
<1>5. CASE RejectTrialOrder(t)
  <2>1. t \notin service
    BY <1>1, <1>5 DEF RejectTrialOrder, Delivery
  <2>2. order' \in [Tasks -> {"none", "approved", "provisioned", "rejected"}]
        /\ \A s \in Tasks \ {t} : order'[s] = order[s]
    BY <1>1, <1>5 DEF RejectTrialOrder, CustomersTypeOK
  <2>3. order'[t] \in {order[t], "rejected"}
    BY <1>1, <1>5 DEF RejectTrialOrder, CustomersTypeOK
  <2>4. QED BY <1>1, <1>5, <2>1, <2>2, <2>3, AnswerKeeps DEF RejectTrialOrder, Settled
<1>6. CASE MarkTrialOrder(t)
  <2>1. t \in service
    BY <1>1, <1>6 DEF MarkTrialOrder, Delivery
  <2>2. order' \in [Tasks -> {"none", "approved", "provisioned", "rejected"}]
        /\ \A s \in Tasks \ {t} : order'[s] = order[s]
    BY <1>1, <1>6 DEF MarkTrialOrder, CustomersTypeOK
  <2>3. order'[t] \in {order[t], "provisioned"}
    BY <1>1, <1>6 DEF MarkTrialOrder, CustomersTypeOK
  <2>4. QED BY <1>1, <1>6, <2>1, <2>2, <2>3, AnswerKeeps DEF MarkTrialOrder, Settled
<1>7. QED BY <1>2, <1>3, <1>4, <1>5, <1>6

\* A delivery is not counted yet: the row of its customer stays as true as it was.
LEMMA ProvisionKeeps ==
  ASSUME CustomersInv, NEW t \in Tasks, ProvisionTrial(t) PROVE CustomersInv'
<1>1. CustomersTypeOK /\ CopyIsOld(t) /\ Delivery(t) /\ Settled(t) /\ owner[t] \in EndUsers
  BY DEF CustomersInv, CustomersTypeOK
<1>2. /\ UNCHANGED <<walletVars, kind, owner, copy, order, rowVars>>
      /\ pc[t] = "provision" /\ MayTry(t)
  BY DEF ProvisionTrial, MayTry
<1>3. CASE UNCHANGED <<service, unsaved>>
           /\ IF kind[t] = "trialBot" THEN GoTo(t, "reject") /\ UNCHANGED told
              ELSE Answer(t, "nothing")
  <2>1. CASE GoTo(t, "reject") /\ UNCHANGED told
    BY <1>1, <1>2, <1>3, <2>1, GoToKeeps DEF CustomersTypeOK
  <2>2. CASE Answer(t, "nothing")
    BY <1>1, <1>2, <1>3, <2>2, AnswerKeeps DEF Settled, CustomersTypeOK
  <2>3. QED BY <1>3, <2>1, <2>2
<1>4. CASE /\ service' = service \cup {t} /\ unsaved' = unsaved \cup {t}
           /\ GoTo(t, "save") /\ UNCHANGED told
  <2>1. /\ balance' = balance /\ walletTx' = walletTx /\ profile' = profile
        /\ overwritten' = overwritten /\ ruling' = ruling /\ owner' = owner
        /\ copy' = copy /\ told' = told /\ order' = order
    BY <1>2, <1>4 DEF walletVars, rowVars
  <2>2. CustomersTypeOK'
    BY <1>1, <1>2, <1>4 DEF GoTo, CustomersTypeOK, WalletTypeOK, walletVars, rowVars
  <2>3. IsFiniteSet(service)'
    BY <1>4, FS_AddElement DEF CustomersInv
  <2>4. \A u \in EndUsers : Real(u)' = Real(u) /\ Trials(u) \subseteq Trials(u)'
    BY <1>4, <2>1 DEF Real, Trials
  <2>5. t \notin service /\ t \notin unsaved
    BY <1>1, <1>2 DEF Delivery, CustomersTypeOK
  <2>6. \A u \in EndUsers : Trials(u)' \ unsaved' = Trials(u) \ unsaved
    BY <1>4, <2>1, <2>5 DEF Trials
  <2>7. ASSUME NEW s \in Tasks PROVE CopyIsOld(s)' /\ Delivery(s)' /\ Settled(s)'
    <3>1. CopyIsOld(s) /\ Delivery(s) /\ Settled(s) /\ owner[s] \in EndUsers
      BY DEF CustomersInv, CustomersTypeOK
    <3>2. CASE s = t
      <4>1. pc'[t] = "save" /\ t \in service' /\ t \in unsaved'
        BY <1>1, <1>4 DEF GoTo, CustomersTypeOK
      <4>2. CopyIsOld(t)'
        BY <1>1, <1>2, <2>1, <2>4, <4>1 DEF CopyIsOld, Loaded, MayTry, TrialsOf
      <4>3. QED BY <1>1, <1>2, <2>1, <3>2, <4>1, <4>2 DEF Delivery, Settled
    <3>3. CASE s # t
      <4>1. pc'[s] = pc[s] /\ (s \in service' <=> s \in service) /\ (s \in unsaved' <=> s \in unsaved)
        BY <1>1, <1>4, <3>3 DEF GoTo, CustomersTypeOK
      <4>2. CopyIsOld(s)'
        BY <2>1, <2>4, <3>1, <4>1 DEF CopyIsOld, Loaded, MayTry, TrialsOf
      <4>3. QED BY <2>1, <3>1, <3>3, <4>1, <4>2 DEF Delivery, Settled
    <3>4. QED BY <3>2, <3>3
  <2>8. ASSUME NEW u \in EndUsers PROVE RowIsReal(u)' /\ RowIsTrue(u)'
    <3>1. RowIsReal(u) /\ RowIsTrue(u)
      BY DEF CustomersInv
    <3>2. RowIsReal(u)'
      BY <2>1, <2>4, <3>1 DEF RowIsReal, TrialsOf
    <3>3. RowIsTrue(u)'
      BY <2>1, <2>6, <3>1 DEF RowIsTrue, Counted
    <3>4. QED BY <3>2, <3>3
  <2>9. QED BY <2>2, <2>3, <2>7, <2>8 DEF CustomersInv
<1>5. QED BY <1>3, <1>4 DEF ProvisionTrial

\* What a save leaves alone: every other customer's row, and all that was loaded before.
LEMMA SaveFrame ==
  ASSUME CustomersInv, NEW t \in Tasks, NEW new \in Profiles, UpdateEndUser(t, new),
         UNCHANGED <<owner, copy, service>>,
         unsaved' \in {unsaved, unsaved \ {t}}
  PROVE  /\ \A u \in EndUsers : Real(u)' = Real(u) /\ Trials(u)' = Trials(u)
         /\ \A u \in EndUsers \ {owner[t]} : RowIsReal(u)' /\ RowIsTrue(u)'
<1>1. /\ walletTx' = walletTx /\ ruling' = ruling /\ owner[t] \in EndUsers /\ t \in Tasks
      /\ CustomersTypeOK
  BY DEF UpdateEndUser, CustomersInv, CustomersTypeOK
<1>2. \A u \in EndUsers : Real(u)' = Real(u) /\ Trials(u)' = Trials(u)
  BY <1>1 DEF Real, Trials
<1>3. ASSUME NEW u \in EndUsers \ {owner[t]} PROVE RowIsReal(u)' /\ RowIsTrue(u)'
  <2>1. RowIsReal(u) /\ RowIsTrue(u)
    BY DEF CustomersInv
  <2>2. balance'[u] = balance[u] /\ profile'[u] = profile[u]
    BY <1>1 DEF UpdateEndUser, CustomersTypeOK, WalletTypeOK
  <2>3. u \in overwritten' <=> u \in overwritten
    BY DEF UpdateEndUser
  <2>4. Trials(u)' \ unsaved' = Trials(u) \ unsaved
    BY <1>2 DEF Trials
  <2>5. RowIsReal(u)'
    BY <1>2, <2>1, <2>2 DEF RowIsReal, TrialsOf
  <2>6. RowIsTrue(u)'
    BY <1>1, <2>1, <2>2, <2>3, <2>4 DEF RowIsTrue, Counted
  <2>7. QED BY <2>5, <2>6
<1>4. QED BY <1>2, <1>3

\* The language callback writes back the trial columns and the balance of its copy.
LEMMA SwitchLangKeeps ==
  ASSUME CustomersInv, NEW t \in Tasks, SwitchLang(t) PROVE CustomersInv'
<1>1. /\ CustomersTypeOK /\ CopyIsOld(t) /\ Delivery(t) /\ Settled(t) /\ owner[t] \in EndUsers
      /\ copy[t] \in [balance : Nat, profile : Profiles]
  BY DEF CustomersInv, CustomersTypeOK
<1>2. /\ UNCHANGED <<kind, owner, copy, order, service, unsaved>>
      /\ pc[t] = "lang" /\ Answer(t, "lang_switched")
  BY DEF SwitchLang, trialVars
<1>3. pc'[t] = "done" /\ told'[t] = "lang_switched"
  BY <1>1, <1>2 DEF Answer, GoTo, CustomersTypeOK
<1>4. CopyIsOld(t)' /\ Delivery(t)' /\ Settled(t)'
  BY <1>1, <1>2, <1>3 DEF CopyIsOld, Loaded, Delivery, Settled
<1>5. \A s \in Tasks \ {t} : pc'[s] = pc[s] /\ told'[s] = told[s]
  BY <1>1, <1>2 DEF Answer, GoTo, CustomersTypeOK
<1>6. CASE UNCHANGED <<walletVars, rowVars>>
  <2>1. CustomersTypeOK'
    BY <1>1, <1>2, <1>6 DEF Answer, GoTo, CustomersTypeOK, WalletTypeOK, walletVars, rowVars
  <2>2. QED BY <1>2, <1>4, <1>5, <1>6, <2>1, TaskStep
<1>7. ASSUME NEW l \in Langs, UpdateEndUser(t, [copy[t].profile EXCEPT !.lang = l])
      PROVE  CustomersInv'
  <2> DEFINE new == [copy[t].profile EXCEPT !.lang = l]
  <2>0. PICK u \in EndUsers : u = owner[t]
    BY <1>1
  <2>1. /\ new \in Profiles /\ new.status = copy[t].profile.status
        /\ new.trialCount = copy[t].profile.trialCount
        /\ new.trialUsed = copy[t].profile.trialUsed
    BY <1>1 DEF Profiles
  <2>2. balance'[u] = copy[t].balance /\ profile'[u] = new
    BY <1>1, <1>7, <2>0 DEF UpdateEndUser, CustomersTypeOK, WalletTypeOK
  <2>3. CustomersTypeOK'
    BY <1>1, <1>2, <1>7, <2>1 DEF UpdateEndUser, Answer, GoTo, CustomersTypeOK, WalletTypeOK
  <2>4. /\ \A v \in EndUsers : Real(v)' = Real(v) /\ Trials(v)' = Trials(v)
        /\ \A v \in EndUsers \ {u} : RowIsReal(v)' /\ RowIsTrue(v)'
    BY <1>2, <1>7, <2>0, <2>1, SaveFrame
  <2>5. CopyIsOld(t) /\ copy[t].balance \in Real(u) /\ TrialsOf(copy[t].profile, u)
    BY <1>1, <1>2, <2>0 DEF CopyIsOld, Loaded
  <2>6. RowIsReal(u)'
    BY <1>1, <2>1, <2>2, <2>4, <2>5 DEF RowIsReal, TrialsOf
  <2>7. RowIsTrue(u)'
    <3>1. CASE Row(u) = copy[t]
      <4>1. /\ balance'[u] = balance[u] /\ new.status = profile[u].status
            /\ new.trialCount = profile[u].trialCount
        BY <2>1, <2>2, <3>1 DEF Row
      <4>2. /\ walletTx' = walletTx /\ ruling' = ruling /\ (u \in overwritten' <=> u \in overwritten)
            /\ Trials(u)' \ unsaved' = Trials(u) \ unsaved
        BY <1>1, <1>2, <1>7, <2>0, <2>4, <3>1 DEF UpdateEndUser
      <4>3. RowIsTrue(u)
        BY <1>1 DEF CustomersInv
      <4>4. QED BY <2>2, <4>1, <4>2, <4>3 DEF RowIsTrue, Counted
    <3>2. CASE Row(u) # copy[t]
      BY <1>7, <2>0, <3>2 DEF UpdateEndUser, RowIsTrue
    <3>3. QED BY <3>1, <3>2
  <2>8. ASSUME NEW s \in Tasks PROVE CopyIsOld(s)' /\ Delivery(s)' /\ Settled(s)'
    <3>1. CASE s = t
      BY <1>4, <3>1
    <3>2. CASE s # t
      <4>1. CopyIsOld(s) /\ Delivery(s) /\ Settled(s) /\ owner[s] \in EndUsers
        BY <1>1 DEF CustomersInv, CustomersTypeOK
      <4>2. CopyIsOld(s)'
        BY <1>2, <1>5, <2>4, <3>2, <4>1 DEF CopyIsOld, Loaded, MayTry, TrialsOf
      <4>3. QED BY <1>2, <1>5, <3>2, <4>1, <4>2 DEF Delivery, Settled
    <3>3. QED BY <3>1, <3>2
  <2>9. IsFiniteSet(service)'
    BY <1>2 DEF CustomersInv
  <2>10. QED BY <2>3, <2>4, <2>6, <2>7, <2>8, <2>9 DEF CustomersInv
<1>8. QED BY <1>6, <1>7 DEF SwitchLang

\* A trial counted in columns that had none.
LEMMA TrialSpentOnce ==
  ASSUME NEW p \in Profiles, p.trialCount = 0,
         NEW q, q = [p EXCEPT !.trialUsed = TRUE, !.trialCount = @ + 1]
  PROVE  q \in Profiles /\ q.status = p.status /\ q.trialCount = 1 /\ q.trialUsed = TRUE
<1>1. PICK r \in Profiles : r = [p EXCEPT !.trialUsed = TRUE]
  BY DEF Profiles
<1>2. q = [r EXCEPT !.trialCount = p.trialCount + 1]
  BY <1>1, Zenon
<1>3. r.status = p.status /\ r.trialUsed = TRUE /\ p.trialCount + 1 = 1
  BY <1>1 DEF Profiles
<1>4. q = [r EXCEPT !.trialCount = 1]
  BY <1>2, <1>3
<1>5. QED BY <1>3, <1>4 DEF Profiles

\* The trial is counted on a copy that found it unused: a row that is that copy counts
\* this trial and no other.
LEMMA SaveTrialKeeps ==
  ASSUME CustomersInv, NEW t \in Tasks, SaveTrial(t) PROVE CustomersInv'
<1> DEFINE new == [copy[t].profile EXCEPT !.trialUsed = TRUE, !.trialCount = @ + 1]
<1>0. PICK u \in EndUsers : u = owner[t]
  BY DEF CustomersInv, CustomersTypeOK
<1>1. /\ CustomersTypeOK /\ CopyIsOld(t) /\ Delivery(t) /\ Settled(t) 
      /\ copy[t] \in [balance : Nat, profile : Profiles]
  BY DEF CustomersInv, CustomersTypeOK
<1>2. UNCHANGED <<kind, owner, copy, told, order, service>> /\ pc[t] = "save" /\ GoTo(t, "mark")
  BY DEF SaveTrial
<1>3. pc'[t] = "mark" /\ \A s \in Tasks \ {t} : pc'[s] = pc[s]
  BY <1>1, <1>2 DEF GoTo, CustomersTypeOK
<1>4. t \in service /\ t \in unsaved /\ t \in Trials(u)
  BY <1>0, <1>1, <1>2 DEF Delivery, Trials
<1>5. Delivery(t)' /\ Settled(t)'
  BY <1>1, <1>2, <1>3, <1>4 DEF Delivery, Settled
<1>6. /\ copy[t].balance \in Real(u) /\ copy[t].profile.trialCount = 0
      /\ TrialsOf(copy[t].profile, u)
  BY <1>0, <1>1, <1>2 DEF CopyIsOld, Loaded, MayTry
<1>7. CASE UNCHANGED <<walletVars, rowVars, unsaved>>
  <2>1. CustomersTypeOK'
    BY <1>1, <1>2, <1>7 DEF GoTo, CustomersTypeOK, WalletTypeOK, walletVars, rowVars
  <2>2. Real(u)' = Real(u) /\ Trials(u)' = Trials(u)
    BY <1>2, <1>7 DEF Real, Trials, walletVars
  <2>3. CopyIsOld(t)'
    BY <1>0, <1>2, <1>6, <2>2 DEF CopyIsOld, TrialsOf
  <2>4. QED BY <1>2, <1>3, <1>5, <1>7, <2>1, <2>3, TaskStep
<1>8. CASE UpdateEndUser(t, new) /\ unsaved' = unsaved \ {t}
  <2>1. /\ new \in Profiles /\ new.status = copy[t].profile.status
        /\ new.trialCount = 1 /\ new.trialUsed = TRUE
    <3>1. copy[t].profile \in Profiles
      BY <1>1
    <3>2. QED BY <1>6, <3>1, TrialSpentOnce
  <2>2. balance'[u] = copy[t].balance /\ profile'[u] = new
    BY <1>0, <1>1, <1>8 DEF UpdateEndUser, CustomersTypeOK, WalletTypeOK
  <2>3. CustomersTypeOK'
    BY <1>1, <1>2, <1>8, <2>1 DEF UpdateEndUser, GoTo, CustomersTypeOK, WalletTypeOK
  <2>4. /\ \A v \in EndUsers : Real(v)' = Real(v) /\ Trials(v)' = Trials(v)
        /\ \A v \in EndUsers \ {u} : RowIsReal(v)' /\ RowIsTrue(v)'
    BY <1>0, <1>2, <1>8, <2>1, SaveFrame
  <2>5. RowIsReal(u)'
    <3>1. balance'[u] \in Real(u)' /\ Trials(u)' # {}
      BY <1>1, <1>4, <1>6, <2>2, <2>4
    <3>2. profile'[u].trialCount = 1 /\ profile'[u].trialUsed = TRUE
      BY <2>1, <2>2
    <3>3. QED BY <1>2, <3>1, <3>2 DEF RowIsReal, TrialsOf
  <2>6. RowIsTrue(u)'
    <3>1. CASE Row(u) = copy[t] /\ u \notin overwritten
      <4>1. /\ balance'[u] = balance[u] /\ new.status = profile[u].status
            /\ profile[u].trialCount = 0
        BY <1>6, <2>1, <2>2, <3>1 DEF Row
      <4>2. walletTx' = walletTx /\ ruling' = ruling
        BY <1>8 DEF UpdateEndUser
      <4>3. RowIsTrue(u)
        BY <1>1 DEF CustomersInv
      <4>4. Trials(u) \ unsaved = {}
        BY <3>1, <4>1, <4>3 DEF RowIsTrue, Counted
      <4>5. Trials(u)' \ unsaved' = {t}
        BY <1>1, <1>4, <1>8, <2>4, <4>4
      <4>6. Counted(u)'
        BY <2>1, <2>2, <4>5 DEF Counted
      <4>7. QED BY <2>1, <2>2, <3>1, <4>1, <4>2, <4>3, <4>6 DEF RowIsTrue
    <3>2. CASE Row(u) # copy[t] \/ u \in overwritten
      BY <1>0, <1>8, <3>2 DEF UpdateEndUser, RowIsTrue
    <3>3. QED BY <3>1, <3>2
  <2>7. ASSUME NEW s \in Tasks PROVE CopyIsOld(s)' /\ Delivery(s)' /\ Settled(s)'
    <3>1. CopyIsOld(s) /\ Delivery(s) /\ Settled(s) /\ owner[s] \in EndUsers
      BY <1>1 DEF CustomersInv, CustomersTypeOK
    <3>2. CASE s = t
      <4>1. CopyIsOld(t)'
        BY <1>0, <1>1, <1>2, <1>6, <2>4 DEF CopyIsOld, TrialsOf
      <4>2. QED BY <1>5, <3>2, <4>1
    <3>3. CASE s # t
      <4>1. CopyIsOld(s)'
        BY <1>2, <1>3, <2>4, <3>1, <3>3 DEF CopyIsOld, Loaded, MayTry, TrialsOf
      <4>2. QED BY <1>2, <1>3, <1>8, <3>1, <3>3, <4>1 DEF Delivery, Settled
    <3>4. QED BY <3>2, <3>3
  <2>8. IsFiniteSet(service)'
    BY <1>2 DEF CustomersInv
  <2>9. QED BY <2>3, <2>4, <2>5, <2>6, <2>7, <2>8 DEF CustomersInv
<1>9. QED BY <1>7, <1>8 DEF SaveTrial

\* A block, or its removal, writes the one column the admin ruled about.
LEMMA StatusKeeps ==
  ASSUME CustomersInv, NEW u \in EndUsers, NEW s \in {"active", "blocked"},
         SetEndUserStatus(u, s)
  PROVE  CustomersInv'
<1>1. CustomersTypeOK
  BY DEF CustomersInv
<1>2. /\ balance' = balance /\ walletTx' = walletTx /\ overwritten' = overwritten
      /\ owner' = owner /\ service' = service /\ unsaved' = unsaved /\ pc' = pc
      /\ kind' = kind /\ copy' = copy /\ told' = told /\ order' = order
      /\ payment' = payment
  BY DEF SetEndUserStatus, walletVars, taskVars, trialVars
<1>3. \A v \in EndUsers : Real(v)' = Real(v) /\ Trials(v)' = Trials(v)
  BY <1>2 DEF Real, Trials
<1>4. profile[u] \in Profiles /\ [profile[u] EXCEPT !.status = s] \in Profiles
  BY <1>1 DEF CustomersTypeOK, Profiles
<1>5. profile' = [profile EXCEPT ![u] = [profile[u] EXCEPT !.status = s]]
      /\ ruling' = [ruling EXCEPT ![u] = s]
  BY DEF SetEndUserStatus
<1>6. CustomersTypeOK'
  BY <1>1, <1>2, <1>4, <1>5 DEF CustomersTypeOK, WalletTypeOK
<1>7. ASSUME NEW t \in Tasks PROVE CopyIsOld(t)' /\ Delivery(t)' /\ Settled(t)'
  <2>1. CopyIsOld(t) /\ Delivery(t) /\ Settled(t) /\ owner[t] \in EndUsers
    BY <1>1 DEF CustomersInv, CustomersTypeOK
  <2>2. CopyIsOld(t)'
    BY <1>2, <1>3, <2>1 DEF CopyIsOld, Loaded, MayTry, TrialsOf
  <2>3. QED BY <1>2, <2>1, <2>2 DEF Delivery, Settled
<1>8. ASSUME NEW v \in EndUsers PROVE RowIsReal(v)' /\ RowIsTrue(v)'
  <2>1. RowIsReal(v) /\ RowIsTrue(v)
    BY DEF CustomersInv
  <2>2. /\ profile'[v].trialCount = profile[v].trialCount
        /\ profile'[v].trialUsed = profile[v].trialUsed
        /\ profile[v].status = ruling[v] => profile'[v].status = ruling'[v]
    BY <1>1, <1>4, <1>5 DEF CustomersTypeOK, Profiles
  <2>3. RowIsReal(v)'
    BY <1>2, <1>3, <2>1, <2>2 DEF RowIsReal, TrialsOf
  <2>4. RowIsTrue(v)'
    BY <1>2, <1>3, <2>1, <2>2 DEF RowIsTrue, Counted
  <2>5. QED BY <2>3, <2>4
<1>9. QED BY <1>2, <1>6, <1>7, <1>8 DEF CustomersInv

\* A task that was cut off says and settles nothing more.
LEMMA CrashKeeps == ASSUME CustomersInv, Crash PROVE CustomersInv'
<1>1. CustomersTypeOK
  BY DEF CustomersInv
<1>2. /\ balance' = balance /\ walletTx' = walletTx /\ overwritten' = overwritten
      /\ owner' = owner /\ service' = service /\ unsaved' = unsaved /\ copy' = copy
      /\ kind' = kind /\ told' = told /\ order' = order /\ profile' = profile
      /\ ruling' = ruling /\ payment' = payment
  BY DEF Crash, walletVars, trialVars, rowVars
<1>3. \A v \in EndUsers : Real(v)' = Real(v) /\ Trials(v)' = Trials(v)
  BY <1>2 DEF Real, Trials
<1>4. \A t \in Tasks : pc'[t] = IF pc[t] \in {"new", "done"} THEN pc[t] ELSE "dead"
  BY DEF Crash
<1>5. CustomersTypeOK'
  BY <1>1, <1>2 DEF Crash, CustomersTypeOK, WalletTypeOK
<1>6. ASSUME NEW t \in Tasks PROVE CopyIsOld(t)' /\ Delivery(t)' /\ Settled(t)'
  <2>1. CopyIsOld(t) /\ Delivery(t) /\ Settled(t) /\ owner[t] \in EndUsers
    BY <1>1 DEF CustomersInv, CustomersTypeOK
  <2>2. CopyIsOld(t)'
    BY <1>4 DEF CopyIsOld, Loaded
  <2>3. QED BY <1>2, <1>4, <2>1, <2>2 DEF Delivery, Settled
<1>7. ASSUME NEW v \in EndUsers PROVE RowIsReal(v)' /\ RowIsTrue(v)'
  <2>1. RowIsReal(v) /\ RowIsTrue(v)
    BY DEF CustomersInv
  <2>2. RowIsReal(v)'
    BY <1>2, <1>3, <2>1 DEF RowIsReal, TrialsOf
  <2>3. RowIsTrue(v)'
    BY <1>2, <1>3, <2>1 DEF RowIsTrue, Counted
  <2>4. QED BY <2>2, <2>3
<1>8. QED BY <1>2, <1>5, <1>6, <1>7 DEF CustomersInv

\* A posting leaves every balance the customer ever had in the rows, and explains the
\* new one if the old one was explained.
LEMMA PostingKeepsRows ==
  ASSUME WalletTypeOK, L!Next
  PROVE  \A u \in EndUsers :
           /\ Real(u) \subseteq Real(u)'
           /\ balance[u] \in Real(u) => balance'[u] \in Real(u)'
           /\ L!Chained(walletTx[u]) /\ L!Explained(walletTx[u], balance[u])
                => L!Chained(walletTx'[u]) /\ L!Explained(walletTx'[u], balance'[u])
<1>1. PICK v \in EndUsers, d \in Deltas, m \in Memos : L!Post(v, d, m)
  BY DEF L!Next
<1> DEFINE e == [delta |-> d, after |-> balance[v] + d, memo |-> m]
<1>2. /\ balance[v] + d \in Nat /\ balance' = [balance EXCEPT ![v] = balance[v] + d]
      /\ walletTx' = [walletTx EXCEPT ![v] = Append(walletTx[v], e)]
  BY <1>1 DEF L!Post
<1>3. L!Entries = WalletTxRows
  BY DEF L!Entries, WalletTxRows
<1> SUFFICES ASSUME NEW u \in EndUsers
             PROVE  /\ Real(u) \subseteq Real(u)'
                    /\ balance[u] \in Real(u) => balance'[u] \in Real(u)'
                    /\ L!Chained(walletTx[u]) /\ L!Explained(walletTx[u], balance[u])
                         => L!Chained(walletTx'[u]) /\ L!Explained(walletTx'[u], balance'[u])
  OBVIOUS
<1>4. CASE u = v
  <2> DEFINE h == walletTx[v]
             g == Append(h, e)
  <2>1. h \in Seq(L!Entries) /\ e \in L!Entries
    BY <1>2, <1>3 DEF WalletTypeOK, L!Entries
  <2>2. /\ DOMAIN h = 1..Len(h) /\ DOMAIN g = 1..(Len(h) + 1) /\ Len(h) \in Nat
        /\ g[Len(h) + 1] = e /\ \A i \in 1..Len(h) : g[i] = h[i]
    BY <2>1
  <2>3. walletTx'[u] = g /\ balance'[u] = balance[v] + d
    BY <1>2, <1>4 DEF WalletTypeOK
  <2> HIDE DEF g
  <2>4. \A i \in DOMAIN h : i \in DOMAIN g /\ g[i].after = h[i].after
    BY <2>2
  <2>5. Real(u) \subseteq Real(u)'
    BY <1>4, <2>3, <2>4 DEF Real
  <2>6. Len(h) + 1 \in DOMAIN g /\ g[Len(h) + 1].after = balance[v] + d
    BY <2>2
  <2>7. balance'[u] \in Real(u)'
    BY <2>3, <2>6 DEF Real
  <2>8. L!Chained(h) /\ L!Explained(h, balance[v])
          => L!Chained(g) /\ L!Explained(g, balance[v] + d)
    BY <1>2, <2>1, AppendExplains DEF g, WalletTypeOK
  <2>9. QED BY <1>4, <2>3, <2>5, <2>7, <2>8
<1>5. CASE u # v
  <2>1. walletTx'[u] = walletTx[u] /\ balance'[u] = balance[u]
    BY <1>2, <1>5 DEF WalletTypeOK
  <2>2. QED BY <2>1 DEF Real
<1>6. QED BY <1>4, <1>5

\* The wallet transactions run beside the handlers.
LEMMA WalletKeeps == ASSUME CustomersInv, OtherWalletStep PROVE CustomersInv'
<1>1. CustomersTypeOK /\ WalletTypeOK
  BY DEF CustomersInv, CustomersTypeOK
<1>2. /\ overwritten' = overwritten /\ owner' = owner /\ service' = service
      /\ unsaved' = unsaved /\ copy' = copy /\ kind' = kind /\ told' = told /\ pc' = pc
      /\ order' = order /\ profile' = profile /\ ruling' = ruling
  BY DEF OtherWalletStep, taskVars, trialVars, rowVars
<1>3. WalletTypeOK' /\ [L!Next]_(L!ledgerVars)
  BY <1>1, WalletStep DEF OtherWalletStep
<1>4. \A v \in EndUsers :
        /\ Real(v) \subseteq Real(v)'
        /\ balance[v] \in Real(v) => balance'[v] \in Real(v)'
        /\ L!Chained(walletTx[v]) /\ L!Explained(walletTx[v], balance[v])
             => L!Chained(walletTx'[v]) /\ L!Explained(walletTx'[v], balance'[v])
  <2>1. CASE L!Next
    BY <1>1, <2>1, PostingKeepsRows
  <2>2. CASE UNCHANGED L!ledgerVars
    <3>1. balance' = balance /\ walletTx' = walletTx
      BY <2>2 DEF L!ledgerVars
    <3>2. QED BY <3>1 DEF Real
  <2>3. QED BY <1>3, <2>1, <2>2
<1>5. \A v \in EndUsers : Trials(v)' = Trials(v)
  BY <1>2 DEF Trials
<1>6. CustomersTypeOK'
  BY <1>1, <1>2, <1>3 DEF CustomersTypeOK
<1>7. ASSUME NEW t \in Tasks PROVE CopyIsOld(t)' /\ Delivery(t)' /\ Settled(t)'
  <2>1. CopyIsOld(t) /\ Delivery(t) /\ Settled(t) /\ owner[t] \in EndUsers
    BY <1>1 DEF CustomersInv, CustomersTypeOK
  <2>2. CopyIsOld(t)'
    BY <1>2, <1>4, <1>5, <2>1 DEF CopyIsOld, Loaded, MayTry, TrialsOf
  <2>3. QED BY <1>2, <2>1, <2>2 DEF Delivery, Settled
<1>8. ASSUME NEW v \in EndUsers PROVE RowIsReal(v)' /\ RowIsTrue(v)'
  <2>1. RowIsReal(v) /\ RowIsTrue(v)
    BY DEF CustomersInv
  <2>2. RowIsReal(v)'
    BY <1>2, <1>4, <1>5, <2>1 DEF RowIsReal, TrialsOf
  <2>3. RowIsTrue(v)'
    BY <1>2, <1>4, <1>5, <2>1 DEF RowIsTrue, Counted
  <2>4. QED BY <2>2, <2>3
<1>9. QED BY <1>2, <1>6, <1>7, <1>8 DEF CustomersInv

\* A new bot: each balance is what the opening wallet_tx row left, no task has begun.
LEMMA CustomersInitInv == CustomersInit => CustomersInv
<1> SUFFICES ASSUME CustomersInit PROVE CustomersInv
  OBVIOUS
<1>1. WalletInit /\ WalletTypeOK
  BY InitTypes DEF CustomersInit
<1>2. NewProfile \in Profiles
  BY DEF NewProfile, Profiles, Langs
<1>3. CustomersTypeOK
  BY <1>1, <1>2 DEF CustomersInit, CustomersTypeOK
<1>4. IsFiniteSet(service) /\ \A u \in EndUsers : Trials(u) = {}
  BY FS_EmptySet DEF CustomersInit, Trials
<1>5. \A t \in Tasks : CopyIsOld(t) /\ Delivery(t) /\ Settled(t)
  BY DEF CustomersInit, CopyIsOld, Loaded, Delivery, Settled
<1>6. ASSUME NEW u \in EndUsers PROVE RowIsReal(u) /\ RowIsTrue(u)
  <2> DEFINE first == WalletTx(Opening[u], Opening[u], <<"admin_adjust", NoRef>>)
  <2>1. balance[u] = Opening[u] /\ walletTx[u] = IF Opening[u] = 0 THEN <<>> ELSE <<first>>
    BY <1>1 DEF WalletInit
  <2>2. first.after = Opening[u] /\ first.delta = Opening[u] /\ Opening[u] \in Nat
    BY OpeningAssumption, AmountsAssumption DEF WalletTx
  <2>3. balance[u] \in Real(u)
    BY <2>1, <2>2 DEF Real
  <2>4. L!Chained(walletTx[u]) /\ L!Explained(walletTx[u], balance[u])
    <3>1. CASE Opening[u] = 0
      BY <2>1, <3>1 DEF L!Chained, L!Explained
    <3>2. CASE Opening[u] # 0
      <4> DEFINE h == <<first>>
      <4>1. Len(h) = 1 /\ h[1] = first /\ h # <<>>
        OBVIOUS
      <4>2. walletTx[u] = h
        BY <2>1, <3>2
      <4> HIDE DEF h
      <4>3. QED BY <2>1, <2>2, <4>1, <4>2 DEF L!Chained, L!Explained, L!Before
    <3>3. QED BY <3>1, <3>2
  <2>5. /\ profile[u].trialCount = 0 /\ profile[u].trialUsed = FALSE
        /\ profile[u].status = "active" /\ ruling[u] = "active"
    BY DEF CustomersInit, NewProfile
  <2>6. QED BY <1>4, <2>3, <2>4, <2>5 DEF RowIsReal, RowIsTrue, TrialsOf, Counted
<1>7. QED BY <1>3, <1>4, <1>5, <1>6 DEF CustomersInv

\* The invariant of the rows and of the handlers that save them.
THEOREM CustomersInvariant == CustomersSpec => []CustomersInv
<1>1. CustomersInv /\ [CustomersNext]_customerVars => CustomersInv'
  <2> SUFFICES ASSUME CustomersInv, [CustomersNext]_customerVars PROVE CustomersInv'
    OBVIOUS
  <2>1. ASSUME NEW t \in Tasks, Step(t) PROVE CustomersInv'
    BY <2>1, LoadUserKeeps, PlainStepsKeep, ProvisionKeeps, SwitchLangKeeps, SaveTrialKeeps
       DEF Step
  <2>2. ASSUME NEW u \in EndUsers, NEW s \in {"active", "blocked"}, SetEndUserStatus(u, s)
        PROVE  CustomersInv'
    BY <2>2, StatusKeeps
  <2>3. CASE UNCHANGED customerVars
    <3>1. /\ balance' = balance /\ walletTx' = walletTx /\ payment' = payment
          /\ profile' = profile /\ overwritten' = overwritten /\ ruling' = ruling
          /\ pc' = pc /\ kind' = kind /\ owner' = owner /\ copy' = copy /\ told' = told
          /\ order' = order /\ service' = service /\ unsaved' = unsaved
      BY <2>3 DEF customerVars, walletVars, taskVars, trialVars, rowVars
    <3>2. \A u \in EndUsers : Real(u)' = Real(u) /\ Trials(u)' = Trials(u)
      BY <3>1 DEF Real, Trials
    <3>3. CustomersTypeOK'
      BY <3>1 DEF CustomersInv, CustomersTypeOK, WalletTypeOK
    <3>4. ASSUME NEW t \in Tasks PROVE CopyIsOld(t)' /\ Delivery(t)' /\ Settled(t)'
      <4>1. CopyIsOld(t) /\ Delivery(t) /\ Settled(t) /\ owner[t] \in EndUsers
        BY DEF CustomersInv, CustomersTypeOK
      <4>2. CopyIsOld(t)'
        BY <3>1, <3>2, <4>1 DEF CopyIsOld, Loaded, MayTry, TrialsOf
      <4>3. QED BY <3>1, <4>1, <4>2 DEF Delivery, Settled
    <3>5. ASSUME NEW u \in EndUsers PROVE RowIsReal(u)' /\ RowIsTrue(u)'
      BY <3>1, <3>2 DEF CustomersInv, RowIsReal, RowIsTrue, Counted, TrialsOf
    <3>6. QED BY <3>1, <3>3, <3>4, <3>5 DEF CustomersInv
  <2>4. QED BY <2>1, <2>2, <2>3, WalletKeeps, CrashKeeps DEF CustomersNext
<1>2. QED BY <1>1, CustomersInitInv, PTL DEF CustomersSpec

\* The types of the row and of the handlers that save it.
THEOREM CustomersTypeCorrect == CustomersSpec => []CustomersTypeOK
<1>1. CustomersInv => CustomersTypeOK
  BY DEF CustomersInv
<1>2. QED BY <1>1, CustomersInvariant, PTL

\* Whatever whole rows are saved over each other (UpdateEndUser), the balance is one the
\* wallet_tx rows say the customer had, and no trial is counted that was not delivered.
THEOREM CustomersNothingInvented == CustomersSpec => []NothingInvented
<1>1. CustomersInv => NothingInvented
  <2> SUFFICES ASSUME CustomersInv PROVE NothingInvented
    OBVIOUS
  <2>1. ASSUME NEW u \in EndUsers
        PROVE  /\ balance[u] \in Real(u)
               /\ profile[u].trialCount <= Cardinality(Trials(u))
               /\ profile[u].trialUsed <=> profile[u].trialCount > 0
    <3>1. RowIsReal(u)
      BY DEF CustomersInv
    <3>2. IsFiniteSet(Trials(u))
      BY FS_Subset DEF CustomersInv, Trials
    <3>3. Cardinality(Trials(u)) \in Nat /\ (Trials(u) # {} => Cardinality(Trials(u)) # 0)
      BY <3>2, FS_CardinalityType, FS_EmptySet
    <3>4. QED BY <3>1, <3>3 DEF RowIsReal, TrialsOf
  <2>2. QED BY <2>1 DEF NothingInvented, BalanceWasReal, TrialsNeverOvercounted, Real
<1>2. QED BY <1>1, CustomersInvariant, PTL

\* A save over a row that changed meanwhile is the only way a row goes wrong: a customer
\* it never happened to has the balance wallet_tx explains, the status the admin gave,
\* every counted trial, and one at most.
THEOREM CustomersOnlyStaleCopiesHarm == CustomersSpec => []OnlyStaleCopiesHarm
<1>1. CustomersInv => OnlyStaleCopiesHarm
  <2> SUFFICES ASSUME CustomersInv, NEW u \in EndUsers \ overwritten
               PROVE  /\ L!Chained(walletTx[u]) /\ L!Explained(walletTx[u], balance[u])
                      /\ profile[u].status = ruling[u]
                      /\ profile[u].trialCount = Cardinality(Trials(u) \ unsaved)
                      /\ Cardinality(Trials(u) \ unsaved) <= 1
    BY DEF OnlyStaleCopiesHarm
  <2>1. RowIsTrue(u) /\ u \notin overwritten
    BY DEF CustomersInv
  <2>2. Counted(u)
    BY <2>1 DEF RowIsTrue
  <2>3. /\ profile[u].trialCount = Cardinality(Trials(u) \ unsaved)
        /\ Cardinality(Trials(u) \ unsaved) <= 1
    <3>1. CASE profile[u].trialCount = 0 /\ Trials(u) \ unsaved = {}
      BY <3>1, FS_EmptySet
    <3>2. ASSUME NEW t \in Tasks, profile[u].trialCount = 1, Trials(u) \ unsaved = {t}
          PROVE  profile[u].trialCount = Cardinality(Trials(u) \ unsaved)
                 /\ Cardinality(Trials(u) \ unsaved) <= 1
      <4>1. Cardinality({t}) = 1
        BY FS_Singleton, Zenon
      <4>2. Cardinality(Trials(u) \ unsaved) = 1
        BY <3>2, <4>1
      <4>3. QED BY <3>2, <4>2
    <3>3. QED BY <2>2, <3>1, <3>2 DEF Counted
  <2>4. QED BY <2>1, <2>3 DEF RowIsTrue
<1>2. QED BY <1>1, CustomersInvariant, PTL

\* The order a trial leaves and the answer its customer gets agree with what was
\* delivered, across failures of the store and crashes (requestTrial, createTrial).
THEOREM CustomersTrialOrderTells == CustomersSpec => []TrialOrderTellsOutcome
<1>1. CustomersInv => TrialOrderTellsOutcome
  BY DEF CustomersInv, Settled, TrialOrderTellsOutcome
<1>2. QED BY <1>1, CustomersInvariant, PTL

-----------------------------------------------------------------------------
(* The bot and its registry (module BotManager).                           *)

Calls ==
  {"new", "status", "token", "cards", "delete", "reload", "add", "getMe", "setWebhook",
   "addSave", "unhook", "unhookCall", "remove", "lookup", "reread", "mark", "handle",
   "list", "retry", "retryRead", "retrySave", "done"}

Runs == [pc : Calls, copy : Rows, form : Rows, blank : BOOLEAN, then : {"done", "token", "cards", "reread"},
         update : Updates \cup {None}, got : BOOLEAN, tries : 0..(MaxRetries + 1)]

BotTypes ==
  /\ row \in Rows /\ wanted \in Rows
  /\ registry \in Tokens \cup {None}
  /\ hooks \in SUBSET Tokens
  /\ seen \in SUBSET Updates
  /\ run \in [Requests -> Runs]
  /\ begun \in Nat /\ forgotten \in Nat
  /\ handled \in [Updates -> Nat]
  /\ left \in BOOLEAN /\ trouble \in 0..StaleUsed

SeenIsCapped == IsFiniteSet(seen) /\ Cardinality(seen) <= MaxSeen

\* A request reads the row only while it is not deleted.
CopyExists(r) == ~run[r].copy.deleted /\ ~run[r].form.deleted

Obeyed == trouble < SaveFailed => row = wanted

\* The request will take the entry out of the registry.
Removing(a) == run[a].pc \in {"unhook", "unhookCall", "remove"} /\ ~run[a].blank

\* What the registry says is true of the row, or a request is on its way to correct it,
\* or a reload that could not read the row left the entry, which is noted.
Spoken ==
  trouble < StaleUsed /\ registry # None =>
    IF row.deleted THEN \E a \in Admins : Removing(a)
    ELSE \/ registry = row.token
         \/ left /\ trouble >= HooksOff
         \/ \E a \in Admins : At(a, "reload")

\* The request will call setWebhook for the token of the row, or fail to.
Setting(a) ==
  \/ run[a].pc \in {"add", "reload"}
  \/ run[a].pc \in {"getMe", "setWebhook"} /\ run[a].copy.token = row.token

\* The request will call deleteWebhook for the token of the row, or fail to, or find
\* the bot disabled when it registers it.
Unhooking(a) ==
  \/ run[a].pc \in {"add", "reload", "unhook"}
  \/ run[a].pc = "unhookCall" /\ run[a].copy.token = row.token

Hooked ==
  trouble = 0 /\ ~row.deleted =>
    /\ \A r \in Requests : run[r].copy.status = "active"
    /\ row.status = "active" /\ row.token \notin hooks => \E a \in Admins : Setting(a)
    /\ row.status = "disabled" /\ row.token \in hooks => \E a \in Admins : Unhooking(a)

\* The posts of an update that were let through and are not handled yet.
Let(u) == {d \in Deliveries : At(d, "handle") /\ run[d].update = u}

Remembered ==
  \A u \in Updates :
    /\ IsFiniteSet(Let(u))
    /\ handled[u] + Cardinality(Let(u)) <= forgotten + (IF u \in seen THEN 1 ELSE 0)

BotInv ==
  /\ BotTypes /\ SeenIsCapped
  /\ \A r \in Requests : CopyExists(r)
  /\ \A d \in Deliveries : At(d, "handle") => run[d].update \in Updates
  /\ Obeyed /\ Spoken /\ Hooked /\ Remembered

\* The row a bot starts with and the state of an ended request are well typed.
LEMMA BotFirst == FirstRow \in Rows /\ Ended \in Runs /\ MaxRetries + 1 \in Nat
<1>1. FirstRow \in Rows
  BY BotBoundsAssumption DEF FirstRow, Rows
<1>2. QED BY <1>1, BotBoundsAssumption DEF Ended, Runs, Calls

\* A step of one request: the others hold what they held.
Alone(r) == \A s \in Requests \ {r} : run'[s] = run[s]

\* Blame only adds to what went wrong.
LEMMA BlameAdds ==
  ASSUME BotTypes, NEW worse \in {HooksOff, SaveFailed, StaleUsed}, NEW happened \in BOOLEAN,
         Blame(worse, happened)
  PROVE  /\ trouble' \in 0..StaleUsed /\ trouble' >= trouble
         /\ happened => trouble' >= worse
  BY DEF Blame, BotTypes, HooksOff, SaveFailed, StaleUsed

\* What the updates are promised is disturbed only by a request that marks or handles one.
LEMMA UpdatesKept ==
  ASSUME BotInv, NEW r \in Requests, Alone(r), NoUpdates,
         run[r].pc # "handle", run'[r].pc # "handle"
  PROVE  /\ SeenIsCapped' /\ Remembered'
         /\ \A d \in Deliveries : At(d, "handle")' => run'[d].update \in Updates
<1>1. seen' = seen /\ handled' = handled /\ forgotten' = forgotten
  BY DEF NoUpdates
<1>2. SeenIsCapped'
  BY <1>1 DEF BotInv, SeenIsCapped
<1>3. \A d \in Deliveries : /\ At(d, "handle")' <=> At(d, "handle")
                            /\ At(d, "handle") => run'[d] = run[d]
  BY DEF Alone, At, Requests
<1>4. \A u \in Updates : Let(u)' = Let(u)
  BY <1>3 DEF Let
<1>5. Remembered'
  BY <1>1, <1>4 DEF BotInv, Remembered
<1>6. QED BY <1>2, <1>3, <1>5 DEF BotInv

\* Once a stale copy was used, only the promise about updates is left.
LEMMA Spoilt ==
  ASSUME BotInv, BotTypes', NEW r \in Requests, Alone(r), NoUpdates,
         run[r].pc # "handle", run'[r].pc # "handle", CopyExists(r)', trouble' = StaleUsed
  PROVE  BotInv'
<1>1. \A s \in Requests : CopyExists(s)'
  BY DEF Alone, BotInv, CopyExists
<1>2. Obeyed' /\ Spoken' /\ Hooked'
  BY DEF Obeyed, Spoken, Hooked, SaveFailed, StaleUsed
<1>3. QED BY <1>1, <1>2, UpdatesKept DEF BotInv

\* A step that changes the request's own state only, and gives up nothing it was on its
\* way to do unless that is noted as trouble.
LEMMA OwnRest ==
  ASSUME BotInv, BotTypes', NEW r \in Requests, Alone(r),
         UNCHANGED <<row, registry, left, hooks>>,
         trouble' < SaveFailed /\ row = wanted => wanted' = wanted,
         CopyExists(r)',
         trouble' >= trouble,
         trouble' = 0 /\ ~row.deleted => run'[r].copy.status = "active",
         row.deleted /\ Removing(r) => Removing(r)',
         At(r, "reload") => row.deleted,
         trouble' = 0 /\ ~row.deleted /\ row.status = "active" /\ row.token \notin hooks
           /\ Setting(r) => Setting(r)',
         trouble' = 0 /\ ~row.deleted /\ row.status = "disabled" /\ row.token \in hooks
           /\ Unhooking(r) => \E b \in Admins : Unhooking(b)'
  PROVE  (\A s \in Requests : CopyExists(s)') /\ Obeyed' /\ Spoken' /\ Hooked'
<1>1. row' = row /\ registry' = registry /\ left' = left /\ hooks' = hooks
  OBVIOUS
<1>2. trouble \in Nat /\ trouble' \in Nat /\ trouble' >= trouble
  BY DEF BotTypes, BotInv, StaleUsed
<1>3. \A s \in Requests : CopyExists(s)'
  BY DEF Alone, BotInv, CopyExists
<1>4. Obeyed'
  BY <1>1, <1>2 DEF BotInv, Obeyed, SaveFailed
<1>5. ASSUME NEW a \in Admins, a # r
      PROVE  run'[a] = run[a]
  BY <1>5 DEF Alone, Requests
<1>6. Spoken'
  <2> SUFFICES ASSUME trouble' < StaleUsed, registry # None
               PROVE  IF row.deleted THEN \E a \in Admins : Removing(a)'
                      ELSE \/ registry = row.token
                           \/ left /\ trouble' >= HooksOff
                           \/ \E a \in Admins : At(a, "reload")'
    BY <1>1 DEF Spoken
  <2>1. trouble < StaleUsed
    BY <1>2 DEF StaleUsed
  <2>2. CASE row.deleted
    <3>1. PICK a \in Admins : Removing(a)
      BY <2>1, <2>2 DEF BotInv, Spoken
    <3>2. Removing(a)'
      BY <1>5, <2>2, <3>1 DEF Removing
    <3>3. QED BY <2>2, <3>2
  <2>3. CASE ~row.deleted /\ registry # row.token /\ ~(left /\ trouble >= HooksOff)
    <3>1. PICK a \in Admins : At(a, "reload")
      BY <2>1, <2>3 DEF BotInv, Spoken
    <3>2. At(a, "reload")'
      BY <1>5, <2>3, <3>1 DEF At
    <3>3. QED BY <2>3, <3>2
  <2>4. QED BY <1>2, <2>2, <2>3 DEF HooksOff
<1>7. Hooked'
  <2> SUFFICES ASSUME trouble' = 0, ~row.deleted
               PROVE  /\ \A s \in Requests : run'[s].copy.status = "active"
                      /\ row.status = "active" /\ row.token \notin hooks
                           => \E a \in Admins : Setting(a)'
                      /\ row.status = "disabled" /\ row.token \in hooks
                           => \E a \in Admins : Unhooking(a)'
    BY <1>1 DEF Hooked
  <2>1. trouble = 0 /\ Hooked
    BY <1>2 DEF BotInv
  <2>2. \A s \in Requests : run'[s].copy.status = "active"
    BY <2>1 DEF Hooked, Alone
  <2>3. ASSUME row.status = "active", row.token \notin hooks
        PROVE  \E a \in Admins : Setting(a)'
    <3>1. PICK a \in Admins : Setting(a)
      BY <2>1, <2>3 DEF Hooked
    <3>2. Setting(a)'
      BY <1>1, <1>5, <2>3, <3>1 DEF Setting
    <3>3. QED BY <3>2
  <2>4. ASSUME row.status = "disabled", row.token \in hooks
        PROVE  \E a \in Admins : Unhooking(a)'
    <3>1. PICK a \in Admins : Unhooking(a)
      BY <2>1, <2>4 DEF Hooked
    <3>2. CASE a # r
      BY <1>1, <1>5, <3>1, <3>2 DEF Unhooking
    <3>3. QED BY <2>4, <3>1, <3>2
  <2>5. QED BY <2>2, <2>3, <2>4
<1>8. QED BY <1>3, <1>4, <1>6, <1>7

\* The same of a request that neither marks nor handles an update.
LEMMA OwnStep ==
  ASSUME BotInv, BotTypes', NEW r \in Requests, Alone(r), NoUpdates,
         UNCHANGED <<row, registry, left, hooks>>,
         trouble' < SaveFailed /\ row = wanted => wanted' = wanted,
         run[r].pc # "handle", run'[r].pc # "handle", CopyExists(r)',
         trouble' >= trouble,
         trouble' = 0 /\ ~row.deleted => run'[r].copy.status = "active",
         row.deleted /\ Removing(r) => Removing(r)',
         At(r, "reload") => row.deleted,
         trouble' = 0 /\ ~row.deleted /\ row.status = "active" /\ row.token \notin hooks
           /\ Setting(r) => Setting(r)',
         trouble' = 0 /\ ~row.deleted /\ row.status = "disabled" /\ row.token \in hooks
           /\ Unhooking(r) => \E b \in Admins : Unhooking(b)'
  PROVE  BotInv'
  BY OwnRest, UpdatesKept DEF BotInv

\* A request that ends, or goes back to the form that used Add or DeleteWebhook.
LEMMA EndsAre ==
  ASSUME BotTypes, NEW r \in Requests, Return(r) \/ Goto(r, "done")
  PROVE  /\ run' \in [Requests -> Runs] /\ Alone(r)
         /\ run'[r].pc \in {"done", "token", "cards", "reread"}
         /\ run'[r].copy = FirstRow /\ run'[r].form \in {run[r].form, FirstRow}
<1>0. run \in [Requests -> Runs] /\ run[r] \in Runs
  BY DEF BotTypes
<1>1. CASE run' = [run EXCEPT ![r] = Ended]
  BY <1>0, <1>1, BotFirst DEF Alone, Ended
<1>2. CASE run' = [run EXCEPT ![r] = [@ EXCEPT !.pc = run[r].then, !.copy = FirstRow]]
  <2>1. run' \in [Requests -> Runs]
    BY <1>0, <1>2, BotFirst DEF Runs, Calls
  <2>2. Alone(r)
    BY <1>0, <1>2 DEF Alone
  <2>3. /\ run'[r].pc = run[r].then /\ run'[r].copy = FirstRow
        /\ run'[r].form = run[r].form
    BY <1>0, <1>2 DEF Runs
  <2>4. run[r].then \in {"done", "token", "cards", "reread"}
    BY <1>0 DEF Runs
  <2>5. QED BY <2>1, <2>2, <2>3, <2>4
<1>3. QED BY <1>1, <1>2 DEF Return, Goto

\* Ending is harmless for a request that gives up nothing it was on its way to do.
LEMMA EndKeeps ==
  ASSUME BotInv, NEW r \in Requests, Return(r) \/ Goto(r, "done"),
         NoUpdates, UNCHANGED <<row, wanted, registry, left, hooks>>, begun' \in Nat,
         run[r].pc \notin {"handle", "reload"},
         trouble' \in 0..StaleUsed, trouble' >= trouble,
         ~(row.deleted /\ Removing(r)),
         trouble' = 0 /\ ~row.deleted /\ row.token \notin hooks => ~Setting(r),
         trouble' = 0 /\ ~row.deleted /\ row.status = "disabled" => ~Unhooking(r)
  PROVE  BotInv'
<1>1. /\ run' \in [Requests -> Runs] /\ Alone(r)
      /\ run'[r].pc \in {"done", "token", "cards", "reread"}
      /\ run'[r].copy = FirstRow /\ run'[r].form \in {run[r].form, FirstRow}
  BY EndsAre DEF BotInv
<1>2. BotTypes'
  BY <1>1 DEF BotInv, BotTypes, NoUpdates
<1>3. CopyExists(r)'
  BY <1>1 DEF CopyExists, FirstRow, BotInv
<1>4. QED BY <1>1, <1>2, <1>3, OwnStep DEF FirstRow, At

\* Add: the reads, and the calls that fail.
LEMMA AddReadKeeps ==
  ASSUME BotInv, NEW r \in Requests, AddRead(r) PROVE BotInv'
<1>0. /\ BotTypes /\ run \in [Requests -> Runs] /\ run[r] \in Runs /\ row \in Rows
      /\ run[r].pc = "add"
  BY DEF BotInv, BotTypes, AddRead, At
<1>1. /\ UNCHANGED <<row, wanted, registry, left, hooks>> /\ NoUpdates /\ begun' = begun
      /\ begun \in Nat
  BY <1>0 DEF AddRead, NoDatabase, NoTelegram, BotTypes
<1>2. trouble' \in 0..StaleUsed /\ trouble' >= trouble
  BY <1>0, BlameAdds DEF AddRead
<1>3. CASE Fail(r) /\ Blame(HooksOff, ~row.deleted)
  <2>1. ~row.deleted => trouble' >= 1
    BY <1>0, <1>3, BlameAdds DEF HooksOff
  <2>2. QED BY <1>0, <1>1, <1>2, <1>3, <2>1, EndKeeps DEF Fail, Removing
<1>4. CASE /\ ~row.deleted /\ run' = [run EXCEPT ![r].pc = "getMe", ![r].copy = row]
           /\ Blame(HooksOff, row.status = "disabled")
  <2>1. run' = [run EXCEPT ![r].pc = "getMe", ![r].copy = row]
    BY <1>4
  <2>2. run' \in [Requests -> Runs]
    BY <1>0, <2>1 DEF Runs, Calls
  <2>3. Alone(r)
    BY <1>0, <2>1 DEF Alone
  <2>4. run'[r].pc = "getMe" /\ run'[r].copy = row /\ run'[r].form = run[r].form
    BY <1>0, <2>1 DEF Runs
  <2>5. BotTypes'
    BY <1>0, <1>1, <1>2, <2>2 DEF BotTypes, NoUpdates
  <2>6. CopyExists(r)'
    BY <1>4, <2>4 DEF CopyExists, BotInv
  <2>7. trouble' = 0 => row.status = "active"
    BY <1>0, <1>4 DEF Rows, Blame, HooksOff, BotTypes, StaleUsed
  <2>8. Setting(r)'
    BY <1>1, <2>4 DEF Setting
  <2>9. QED BY <1>0, <1>1, <1>2, <1>4, <2>3, <2>4, <2>5, <2>6, <2>7, <2>8, OwnStep DEF At
<1>5. QED BY <1>3, <1>4 DEF AddRead

\* The request acts on a copy that is the row, or the use of a stale copy is noted.
LEMMA BlameStaleTells ==
  ASSUME BotTypes, NEW c, BlameStale(c)
  PROVE  \/ c = row /\ trouble' = trouble
         \/ c # row /\ trouble' = StaleUsed
  BY DEF BlameStale, Blame, BotTypes, StaleUsed

\* bot.New: the entry speaks for the copy, which is the row; or getMe fails.
LEMMA AddRegisterKeeps ==
  ASSUME BotInv, NEW r \in Requests, AddRegister(r) PROVE BotInv'
<1>0. /\ BotTypes /\ run \in [Requests -> Runs] /\ run[r] \in Runs /\ row \in Rows
      /\ run[r].pc = "getMe" /\ begun \in Nat /\ trouble \in 0..StaleUsed
      /\ run[r].copy \in Rows
  BY DEF BotInv, BotTypes, AddRegister, At, Runs
<1>1. UNCHANGED <<row, wanted, hooks>> /\ NoUpdates /\ begun' = begun
  BY <1>0 DEF AddRegister, NoDatabase
<1>2. CASE UNCHANGED <<registry, left>> /\ NotSet(run[r].copy.token) /\ Fail(r)
  <2>1. /\ trouble' \in 0..StaleUsed /\ trouble' >= trouble
        /\ run[r].copy.token \notin hooks => trouble' >= 1
    BY <1>0, <1>2, BlameAdds DEF NotSet, HooksOff
  <2>2. Return(r) \/ Goto(r, "done")
    BY <1>2 DEF Fail
  <2>3. Setting(r) => run[r].copy.token = row.token
    BY <1>0 DEF Setting
  <2>4. QED BY <1>0, <1>1, <1>2, <2>1, <2>2, <2>3, EndKeeps DEF Removing, Unhooking
<1>3. CASE /\ registry' = run[r].copy.token /\ left' = FALSE /\ BlameStale(run[r].copy)
           /\ Goto(r, "setWebhook")
  <2>1. run' = [run EXCEPT ![r] = [@ EXCEPT !.pc = "setWebhook"]]
    BY <1>3 DEF Goto
  <2>2. run' \in [Requests -> Runs]
    BY <1>0, <2>1 DEF Runs, Calls
  <2>3. Alone(r)
    BY <1>0, <2>1 DEF Alone
  <2>4. /\ run'[r].pc = "setWebhook" /\ run'[r].copy = run[r].copy
        /\ run'[r].form = run[r].form
    BY <1>0, <2>1 DEF Runs
  <2>5. run[r].copy.token \in Tokens
    BY <1>0 DEF Rows
  <2>6. trouble' \in 0..StaleUsed
    BY <1>0, <1>3, BlameStaleTells DEF StaleUsed
  <2>7. BotTypes'
    BY <1>0, <1>1, <1>3, <2>2, <2>5, <2>6 DEF BotTypes, NoUpdates
  <2>8. CopyExists(r)'
    BY <2>4 DEF CopyExists, BotInv
  <2>9. CASE run[r].copy # row
    BY <1>0, <1>1, <1>3, <2>3, <2>4, <2>7, <2>8, <2>9, Spoilt, BlameStaleTells
  <2>10. CASE run[r].copy = row
    <3>1. trouble' = trouble /\ registry' = row.token /\ ~row.deleted
      BY <1>0, <1>3, <2>10, BlameStaleTells DEF BotInv, CopyExists
    <3>2. Spoken'
      BY <1>1, <3>1 DEF Spoken
    <3>3. Obeyed'
      BY <1>1, <3>1 DEF BotInv, Obeyed
    <3>4. \A s \in Requests : /\ CopyExists(s)' /\ run'[s].copy = run[s].copy
                              /\ Setting(s) => Setting(s)'
                              /\ Unhooking(s) => Unhooking(s)'
      BY <1>0, <1>1, <2>3, <2>4, <2>8
         DEF BotInv, CopyExists, Alone, Setting, Unhooking
    <3>5. Hooked'
      BY <1>1, <3>1, <3>4 DEF BotInv, Hooked, Requests
    <3>6. QED BY <1>0, <1>1, <2>3, <2>4, <2>7, <3>2, <3>3, <3>4, <3>5, UpdatesKept
              DEF BotInv
  <2>11. QED BY <2>9, <2>10
<1>4. QED BY <1>2, <1>3 DEF AddRegister

\* A webhook that is set is set for the copy, which is the row: the bot is active and
\* has its webhook.  Here of Add, and of the retries.
LEMMA HookSet ==
  ASSUME BotInv, BotTypes', NEW r \in Requests, Alone(r), NoUpdates,
         UNCHANGED <<row, wanted, registry, left>>,
         hooks' = hooks \cup {run[r].copy.token}, BlameStale(run[r].copy),
         run[r].pc \notin {"handle", "reload"}, run'[r].pc # "handle",
         ~Removing(r), run'[r].copy = run[r].copy, CopyExists(r)'
  PROVE  BotInv'
<1>0. BotTypes
  BY DEF BotInv
<1>1. CASE run[r].copy # row
  BY <1>0, <1>1, Spoilt, BlameStaleTells
<1>2. CASE run[r].copy = row
  <2>1. trouble' = trouble /\ row.token \in hooks'
    BY <1>0, <1>2, BlameStaleTells
  <2>2. Obeyed'
    BY <2>1 DEF BotInv, Obeyed
  <2>3. \A a \in Admins : /\ Removing(a) => Removing(a)'
                          /\ At(a, "reload") => At(a, "reload")'
    BY DEF Removing, At, Alone, Requests
  <2>4. Spoken'
    BY <2>1, <2>3 DEF BotInv, Spoken
  <2>5. \A s \in Requests : CopyExists(s)' /\ run'[s].copy = run[s].copy
    BY DEF BotInv, CopyExists, Alone
  <2>6. Hooked'
    <3> SUFFICES ASSUME trouble' = 0, ~row.deleted PROVE Hooked'
      BY DEF Hooked
    <3>1. run[r].copy.status = "active" /\ \A s \in Requests : run[s].copy.status = "active"
      BY <2>1 DEF BotInv, Hooked
    <3>2. QED BY <1>2, <2>1, <2>5, <3>1 DEF Hooked
  <2>7. QED BY <2>2, <2>4, <2>5, <2>6, UpdatesKept DEF BotInv
<1>3. QED BY <1>1, <1>2

\* The setWebhook of Add; its failure is noted when the token is left without a webhook.
LEMMA AddSetWebhookKeeps ==
  ASSUME BotInv, NEW r \in Requests, AddSetWebhook(r) PROVE BotInv'
<1>0. /\ BotTypes /\ run \in [Requests -> Runs] /\ run[r] \in Runs /\ row \in Rows
      /\ run[r].pc = "setWebhook" /\ begun \in Nat /\ trouble \in 0..StaleUsed
      /\ run[r].copy \in Rows
  BY DEF BotInv, BotTypes, AddSetWebhook, At, Runs
<1>1. UNCHANGED <<row, wanted, registry, left>> /\ NoUpdates /\ begun' = begun
  BY <1>0 DEF AddSetWebhook, NoDatabase
<1>2. CASE /\ hooks' = hooks \cup {run[r].copy.token} /\ BlameStale(run[r].copy)
           /\ Goto(r, "addSave")
  <2>1. run' = [run EXCEPT ![r] = [@ EXCEPT !.pc = "addSave"]]
    BY <1>2 DEF Goto
  <2>2. run' \in [Requests -> Runs]
    BY <1>0, <2>1 DEF Runs, Calls
  <2>3. /\ Alone(r) /\ run'[r].pc = "addSave" /\ run'[r].copy = run[r].copy
        /\ run'[r].form = run[r].form
    BY <1>0, <2>1 DEF Runs, Alone
  <2>4. run[r].copy.token \in Tokens
    BY <1>0 DEF Rows
  <2>5. trouble' \in 0..StaleUsed
    BY <1>0, <1>2, BlameStaleTells DEF StaleUsed
  <2>6. BotTypes'
    BY <1>0, <1>1, <1>2, <2>2, <2>4, <2>5 DEF BotTypes, NoUpdates
  <2>7. CopyExists(r)'
    BY <2>3 DEF CopyExists, BotInv
  <2>8. QED BY <1>0, <1>1, <1>2, <2>3, <2>6, <2>7, HookSet DEF Removing
<1>3. CASE /\ hooks' = hooks /\ NotSet(run[r].copy.token)
           /\ run' = [run EXCEPT ![r].pc = "addSave", ![r].tries = IF r = Boot THEN 1 ELSE 0]
  <2>1. /\ trouble' \in 0..StaleUsed /\ trouble' >= trouble
        /\ run[r].copy.token \notin hooks => trouble' >= 1
    BY <1>0, <1>3, BlameAdds DEF NotSet, HooksOff
  <2>2. run' \in [Requests -> Runs]
    <3>1. PICK n \in {0, 1} : n = IF r = Boot THEN 1 ELSE 0
      OBVIOUS
    <3>2. n \in 0..(MaxRetries + 1)
      BY BotBoundsAssumption
    <3>3. run' = [run EXCEPT ![r].pc = "addSave", ![r].tries = n]
      BY <1>3, <3>1
    <3>4. QED BY <1>0, <3>2, <3>3 DEF Runs, Calls
  <2>3. /\ Alone(r) /\ run'[r].pc = "addSave" /\ run'[r].copy = run[r].copy
        /\ run'[r].form = run[r].form
    BY <1>0, <1>3 DEF Runs, Alone
  <2>4. BotTypes'
    BY <1>0, <1>1, <1>3, <2>1, <2>2 DEF BotTypes, NoUpdates
  <2>5. CopyExists(r)'
    BY <2>3 DEF CopyExists, BotInv
  <2>6. Setting(r) => run[r].copy.token = row.token
    BY <1>0 DEF Setting
  <2>7. trouble' = 0 /\ ~row.deleted => run'[r].copy.status = "active"
    BY <1>0, <2>1, <2>3 DEF BotInv, Hooked
  <2>8. QED BY <1>0, <1>1, <1>3, <2>1, <2>3, <2>4, <2>5, <2>6, <2>7, OwnStep
            DEF Removing, Unhooking, At
<1>4. QED BY <1>2, <1>3 DEF AddSetWebhook

\* A whole row saved unchanged is the row, or the use of a stale copy is noted.
LEMMA SameSave ==
  ASSUME BotTypes, NEW c \in Rows, Save(c, c)
  PROVE  /\ row' \in Rows /\ trouble' \in 0..StaleUsed
         /\ \/ row' = row /\ trouble' >= trouble
            \/ trouble' = StaleUsed
<1>1. trouble \in 0..StaleUsed /\ trouble \in Nat /\ row \in Rows /\ StaleUsed \in 0..StaleUsed
  BY DEF BotTypes, StaleUsed
<1>2. CASE row' = c /\ BlameStale(c)
  BY <1>1, <1>2, BlameStaleTells
<1>3. CASE row' = row /\ Blame(SaveFailed, c # row)
  BY <1>1, <1>3, BlameAdds
<1>4. QED BY <1>2, <1>3 DEF Save

\* Such a save by a request that is not on its way to change a webhook.
LEMMA SameSaveKeeps ==
  ASSUME BotInv, NEW r \in Requests, row' \in Rows, trouble' \in 0..StaleUsed,
         trouble' = StaleUsed \/ (row' = row /\ trouble' >= trouble),
         run' \in [Requests -> Runs], Alone(r), NoTelegram, NoUpdates, wanted' = wanted,
         begun' = begun, run[r].pc \in {"addSave", "cards", "retrySave"},
         run'[r].pc # "handle", CopyExists(r)',
         run'[r].copy \in {run[r].copy, FirstRow}
  PROVE  BotInv'
<1>0. BotTypes /\ BotTypes'
  BY DEF BotInv, BotTypes, NoTelegram, NoUpdates
<1>1. CASE trouble' = StaleUsed
  BY <1>0, <1>1, Spoilt
<1>2. CASE row' = row /\ trouble' >= trouble
  <2>1. trouble' = 0 => trouble = 0
    BY <1>0, <1>2 DEF BotTypes, StaleUsed
  <2>2. trouble' = 0 /\ ~row.deleted => run'[r].copy.status = "active"
    BY <2>1 DEF BotInv, Hooked, FirstRow
  <2>3. QED BY <1>0, <1>2, <2>2, OwnStep DEF NoTelegram, Removing, Setting, Unhooking, At
<1>3. QED BY <1>1, <1>2

\* Add saves its copy with the webhook error, whatever became of the call.
LEMMA AddSaveKeeps ==
  ASSUME BotInv, NEW r \in Requests, AddSave(r) PROVE BotInv'
<1>0. /\ BotTypes /\ run \in [Requests -> Runs] /\ run[r] \in Runs
      /\ run[r].pc = "addSave" /\ run[r].copy \in Rows
  BY DEF BotInv, BotTypes, AddSave, At, Runs
<1>1. /\ Save(run[r].copy, run[r].copy) /\ NoTelegram /\ NoUpdates /\ wanted' = wanted
      /\ begun' = begun
  BY DEF AddSave
<1>2. CASE run' = [run EXCEPT ![r].pc = "retry"]
  <2>1. /\ run' \in [Requests -> Runs] /\ Alone(r) /\ run'[r].pc = "retry"
        /\ run'[r].copy = run[r].copy /\ run'[r].form = run[r].form
    BY <1>0, <1>2 DEF Runs, Calls, Alone
  <2>2. CopyExists(r)'
    BY <2>1 DEF CopyExists, BotInv
  <2>3. QED BY <1>0, <1>1, <2>1, <2>2, SameSave, SameSaveKeeps
<1>3. CASE Return(r)
  <2>1. /\ run' \in [Requests -> Runs] /\ Alone(r)
        /\ run'[r].pc \in {"done", "token", "cards", "reread"}
        /\ run'[r].copy = FirstRow /\ run'[r].form \in {run[r].form, FirstRow}
    BY <1>0, <1>3, EndsAre
  <2>2. CopyExists(r)'
    BY <2>1 DEF CopyExists, BotInv, FirstRow
  <2>3. QED BY <1>0, <1>1, <2>1, <2>2, SameSave, SameSaveKeeps
<1>4. QED BY <1>2, <1>3 DEF AddSave

\* The last save of the settings form writes the row it read back, if it had read one.
LEMMA SaveCardsKeeps ==
  ASSUME BotInv, NEW a \in Admins, SaveCards(a) PROVE BotInv'
<1>0. /\ BotTypes /\ run \in [Requests -> Runs] /\ run[a] \in Runs /\ a \in Requests
      /\ run[a].pc = "cards" /\ run[a].form \in Rows
  BY DEF BotInv, BotTypes, SaveCards, At, Runs, Requests
<1>1. /\ SaveForm(a, run[a].form) /\ NoTelegram /\ NoUpdates /\ wanted' = wanted
      /\ begun' = begun
  BY DEF SaveCards
<1>2. /\ run' \in [Requests -> Runs] /\ Alone(a)
      /\ run'[a].pc \in {"done", "token", "cards", "reread"}
      /\ run'[a].copy = FirstRow /\ run'[a].form \in {run[a].form, FirstRow}
  BY <1>0, EndsAre DEF SaveCards
<1>3. CopyExists(a)'
  BY <1>0, <1>2 DEF CopyExists, BotInv, FirstRow
<1>4. /\ row' \in Rows /\ trouble' \in 0..StaleUsed
      /\ trouble' = StaleUsed \/ (row' = row /\ trouble' >= trouble)
  <2>1. CASE run[a].blank
    BY <1>0, <1>1, <2>1, BlameAdds DEF SaveForm, BotTypes
  <2>2. CASE ~run[a].blank
    BY <1>0, <1>1, <2>2, SameSave DEF SaveForm
  <2>3. QED BY <2>1, <2>2
<1>5. QED BY <1>0, <1>1, <1>2, <1>3, <1>4, SameSaveKeeps

\* A retry goes on, or was the last.
LEMMA AnotherTryIs ==
  ASSUME BotTypes, AnotherTry
  PROVE  /\ run' \in [Requests -> Runs] /\ Alone(Boot)
         /\ run'[Boot].pc \in {"retry", "done"}
         /\ run'[Boot].copy \in {run[Boot].copy, FirstRow}
         /\ run'[Boot].form \in {run[Boot].form, FirstRow}
<1>0. run \in [Requests -> Runs] /\ Boot \in Requests /\ run[Boot] \in Runs
  BY DEF BotTypes, Requests
<1>1. CASE ~(run[Boot].tries < MaxRetries)
  <2>1. run' = [run EXCEPT ![Boot] = Ended]
    BY <1>1 DEF AnotherTry
  <2>2. QED BY <1>0, <2>1, BotFirst DEF Alone, Ended
<1>2. CASE run[Boot].tries < MaxRetries
  <2>1. run[Boot].tries + 1 \in 0..(MaxRetries + 1)
    BY <1>0, <1>2, BotBoundsAssumption DEF Runs
  <2>2. PICK n \in 0..(MaxRetries + 1) : n = run[Boot].tries + 1
    BY <2>1
  <2>3. run' = [run EXCEPT ![Boot] = [run[Boot] EXCEPT !.pc = "retry", !.tries = n]]
    <3> DEFINE next == [run[Boot] EXCEPT !.pc = "retry", !.tries = run[Boot].tries + 1]
    <3>1. run' = [run EXCEPT ![Boot] =
                    IF run[Boot].tries < MaxRetries THEN next ELSE Ended]
      BY Zenon DEF AnotherTry
    <3>2. (IF run[Boot].tries < MaxRetries THEN next ELSE Ended) = next
      BY <1>2, Zenon
    <3>3. next = [run[Boot] EXCEPT !.pc = "retry", !.tries = n]
      BY <2>2, Zenon
    <3>4. QED BY <3>1, <3>2, <3>3, Zenon
  <2>4. PICK q \in Runs : q = [run[Boot] EXCEPT !.pc = "retry", !.tries = n]
    BY <1>0 DEF Runs, Calls
  <2>5. q.pc = "retry" /\ q.copy = run[Boot].copy /\ q.form = run[Boot].form
    BY <1>0, <2>4 DEF Runs
  <2>6. QED BY <1>0, <2>3, <2>4, <2>5 DEF Alone
<1>3. QED BY <1>1, <1>2

\* A retry reads the row again and saves it whole with the outcome of its call.
LEMMA RetryKeeps ==
  ASSUME BotInv, RetryRead \/ RetrySave PROVE BotInv'
<1>0. /\ BotTypes /\ run \in [Requests -> Runs] /\ run[Boot] \in Runs /\ Boot \in Requests
      /\ row \in Rows /\ trouble \in 0..StaleUsed /\ run[Boot].form \in Rows
  BY DEF BotInv, BotTypes, Runs, Requests
<1>1. CASE RetrySave
  <2>1. /\ Save(run[Boot].form, run[Boot].form) /\ NoTelegram /\ NoUpdates
        /\ wanted' = wanted /\ begun' = begun /\ AnotherTry /\ run[Boot].pc = "retrySave"
    BY <1>1 DEF RetrySave, At
  <2>2. CopyExists(Boot)'
    BY <1>0, <2>1, AnotherTryIs DEF CopyExists, BotInv, FirstRow
  <2>3. QED BY <1>0, <2>1, <2>2, AnotherTryIs, SameSave, SameSaveKeeps
<1>2. CASE RetryRead
  <2>1. /\ UNCHANGED <<row, wanted, registry, left, hooks, begun, trouble>> /\ NoUpdates
        /\ run[Boot].pc = "retryRead"
    BY <1>2 DEF RetryRead, At, NoDatabase, NoTelegram
  <2>2. /\ run' \in [Requests -> Runs] /\ Alone(Boot) /\ CopyExists(Boot)'
        /\ run'[Boot].pc # "handle" /\ run'[Boot].copy \in {run[Boot].copy, FirstRow}
    <3>1. CASE AnotherTry
      BY <1>0, <3>1, AnotherTryIs DEF CopyExists, BotInv, FirstRow
    <3>2. CASE ~row.deleted
               /\ run' = [run EXCEPT ![Boot].pc = "retrySave", ![Boot].form = row]
      <4>1. /\ run' \in [Requests -> Runs] /\ Alone(Boot) /\ run'[Boot].pc = "retrySave"
            /\ run'[Boot].copy = run[Boot].copy /\ run'[Boot].form = row
        BY <1>0, <3>2 DEF Runs, Calls, Alone
      <4>2. CopyExists(Boot)'
        BY <1>0, <3>2, <4>1 DEF CopyExists, BotInv
      <4>3. QED BY <4>1, <4>2
    <3>3. QED BY <1>2, <3>1, <3>2 DEF RetryRead
  <2>3. BotTypes'
    BY <1>0, <2>1, <2>2 DEF BotTypes, NoUpdates
  <2>4. trouble' = 0 /\ ~row.deleted => run'[Boot].copy.status = "active"
    BY <1>0, <2>1, <2>2 DEF BotInv, Hooked, FirstRow
  <2>5. trouble' >= trouble
    BY <1>0, <2>1 DEF StaleUsed
  <2>6. QED BY <1>0, <2>1, <2>2, <2>3, <2>4, <2>5, OwnStep
            DEF Removing, Setting, Unhooking, At
<1>3. QED BY <1>1, <1>2

\* A retry sets the webhook of the copy the start-up took.
LEMMA RetryCallKeeps == ASSUME BotInv, RetryCall PROVE BotInv'
<1>0. /\ BotTypes /\ run \in [Requests -> Runs] /\ run[Boot] \in Runs /\ Boot \in Requests
      /\ row \in Rows /\ trouble \in 0..StaleUsed /\ run[Boot].copy \in Rows
      /\ run[Boot].pc = "retry"
  BY DEF BotInv, BotTypes, Runs, Requests, RetryCall, At
<1>1. UNCHANGED <<row, wanted, registry, left, begun>> /\ NoUpdates
  BY DEF RetryCall, NoDatabase
<1>2. CASE /\ hooks' = hooks \cup {run[Boot].copy.token} /\ BlameStale(run[Boot].copy)
           /\ run' = [run EXCEPT ![Boot].pc = "retryRead", ![Boot].tries = MaxRetries + 1]
  <2>1. /\ Alone(Boot) /\ run'[Boot].pc = "retryRead"
        /\ run'[Boot].copy = run[Boot].copy /\ run'[Boot].form = run[Boot].form
    BY <1>0, <1>2 DEF Runs, Alone
  <2>2. PICK n \in 0..(MaxRetries + 1) : n = MaxRetries + 1
    BY BotBoundsAssumption
  <2>3. run' \in [Requests -> Runs]
    BY <1>0, <1>2, <2>2 DEF Runs, Calls
  <2>4. run[Boot].copy.token \in Tokens
    BY <1>0 DEF Rows
  <2>5. trouble' \in 0..StaleUsed
    BY <1>0, <1>2, BlameStaleTells DEF StaleUsed
  <2>6. BotTypes'
    BY <1>0, <1>1, <1>2, <2>3, <2>4, <2>5 DEF BotTypes, NoUpdates
  <2>7. CopyExists(Boot)'
    BY <1>0, <2>1 DEF CopyExists, BotInv
  <2>8. QED BY <1>0, <1>1, <1>2, <2>1, <2>6, <2>7, HookSet DEF Removing
<1>3. CASE /\ hooks' = hooks /\ NotSet(run[Boot].copy.token) /\ Goto(Boot, "retryRead")
  <2>1. trouble' \in 0..StaleUsed /\ trouble' >= trouble
    BY <1>0, <1>3, BlameAdds DEF NotSet, HooksOff
  <2>2. run' = [run EXCEPT ![Boot] = [@ EXCEPT !.pc = "retryRead"]]
    BY <1>3 DEF Goto
  <2>3. /\ run' \in [Requests -> Runs] /\ Alone(Boot) /\ run'[Boot].pc = "retryRead"
        /\ run'[Boot].copy = run[Boot].copy /\ run'[Boot].form = run[Boot].form
    BY <1>0, <2>2 DEF Runs, Calls, Alone
  <2>4. BotTypes'
    BY <1>0, <1>1, <1>3, <2>1, <2>3 DEF BotTypes, NoUpdates
  <2>5. CopyExists(Boot)'
    BY <1>0, <2>3 DEF CopyExists, BotInv
  <2>6. trouble' = 0 /\ ~row.deleted => run'[Boot].copy.status = "active"
    BY <1>0, <2>1, <2>3 DEF BotInv, Hooked
  <2>7. QED BY <1>0, <1>1, <1>3, <2>1, <2>3, <2>4, <2>5, <2>6, OwnStep
            DEF Removing, Setting, Unhooking, At
<1>4. QED BY <1>2, <1>3 DEF RetryCall

\* LoadActive reads the row once more in Add.
LEMMA LoadActiveKeeps == ASSUME BotInv, LoadActive PROVE BotInv'
<1>0. /\ BotTypes /\ run \in [Requests -> Runs] /\ run[Boot] \in Runs /\ Boot \in Requests
      /\ trouble \in 0..StaleUsed /\ begun \in Nat /\ run[Boot].pc = "list"
  BY DEF BotInv, BotTypes, Requests, LoadActive, At
<1>1. UNCHANGED <<row, wanted, registry, left, hooks, begun, trouble>> /\ NoUpdates
  BY DEF LoadActive, NoDatabase, NoTelegram
<1>2. trouble' >= trouble
  BY <1>0, <1>1 DEF StaleUsed
<1>3. CASE Goto(Boot, "done")
  BY <1>0, <1>1, <1>2, <1>3, EndKeeps DEF Removing, Setting, Unhooking
<1>4. CASE Goto(Boot, "add")
  <2>1. run' = [run EXCEPT ![Boot] = [@ EXCEPT !.pc = "add"]]
    BY <1>4 DEF Goto
  <2>2. /\ run' \in [Requests -> Runs] /\ Alone(Boot) /\ run'[Boot].pc = "add"
        /\ run'[Boot].copy = run[Boot].copy /\ run'[Boot].form = run[Boot].form
    BY <1>0, <2>1 DEF Runs, Calls, Alone
  <2>3. BotTypes'
    BY <1>0, <1>1, <2>2 DEF BotTypes, NoUpdates
  <2>4. CopyExists(Boot)'
    BY <1>0, <2>2 DEF CopyExists, BotInv
  <2>5. trouble' = 0 /\ ~row.deleted => run'[Boot].copy.status = "active"
    BY <1>0, <1>1, <2>2 DEF BotInv, Hooked
  <2>6. QED BY <1>0, <1>1, <1>2, <2>2, <2>3, <2>4, <2>5, OwnStep
            DEF Removing, Setting, Unhooking, At
<1>5. QED BY <1>3, <1>4 DEF LoadActive

\* DeleteWebhook: the token it will speak with is the row's, or a request is about to
\* reload the bot.
LEMMA UnhookReadKeeps ==
  ASSUME BotInv, NEW a \in Admins, UnhookRead(a) PROVE BotInv'
<1>0. /\ BotTypes /\ run \in [Requests -> Runs] /\ run[a] \in Runs /\ a \in Requests
      /\ row \in Rows /\ trouble \in 0..StaleUsed /\ run[a].pc = "unhook"
      /\ run[a].copy \in Rows /\ begun \in Nat
  BY DEF BotInv, BotTypes, Runs, Requests, UnhookRead, At
<1>1. UNCHANGED <<row, wanted, registry, left, hooks, begun>> /\ NoUpdates
  BY DEF UnhookRead, NoDatabase, NoTelegram
<1>2. trouble' \in 0..StaleUsed /\ trouble' >= trouble
  <2>1. CASE trouble' = trouble
    BY <1>0, <2>1 DEF StaleUsed
  <2>2. CASE Blame(HooksOff, ~row.deleted)
    BY <1>0, <2>2, BlameAdds
  <2>3. QED BY <2>1, <2>2 DEF UnhookRead
<1>3. CASE Goto(a, "remove") /\ Blame(HooksOff, ~row.deleted)
  <2>1. run' = [run EXCEPT ![a] = [@ EXCEPT !.pc = "remove"]]
    BY <1>3 DEF Goto
  <2>2. /\ run' \in [Requests -> Runs] /\ Alone(a) /\ run'[a].pc = "remove"
        /\ run'[a].copy = run[a].copy /\ run'[a].form = run[a].form
        /\ run'[a].blank = run[a].blank
    BY <1>0, <2>1 DEF Runs, Calls, Alone
  <2>3. BotTypes'
    BY <1>0, <1>1, <1>2, <2>2 DEF BotTypes, NoUpdates
  <2>4. CopyExists(a)'
    BY <1>0, <2>2 DEF CopyExists, BotInv
  <2>5. ~row.deleted => trouble' >= 1
    BY <1>0, <1>3, BlameAdds DEF HooksOff
  <2>6. QED BY <1>0, <1>1, <1>2, <2>2, <2>3, <2>4, <2>5, OwnStep DEF Removing, At
<1>4. CASE /\ ~row.deleted /\ trouble' = trouble
           /\ run' = [run EXCEPT ![a].pc = "unhookCall", ![a].copy.token = SpeaksWith]
  <2>1. SpeaksWith \in Tokens
    BY <1>0 DEF SpeaksWith, BotTypes, Rows
  <2>2. PICK k \in Tokens : k = SpeaksWith
    BY <2>1
  <2>3. run' = [run EXCEPT ![a].pc = "unhookCall", ![a].copy.token = k]
    BY <1>4, <2>2
  <2>4. PICK c \in Rows : c = [run[a].copy EXCEPT !.token = k]
    BY <1>0 DEF Rows
  <2>5. /\ c.token = k /\ c.status = run[a].copy.status /\ c.deleted = run[a].copy.deleted
    BY <1>0, <2>4 DEF Rows
  <2>6. /\ run' \in [Requests -> Runs] /\ Alone(a) /\ run'[a].pc = "unhookCall"
        /\ run'[a].copy = c /\ run'[a].form = run[a].form
    BY <1>0, <2>3, <2>4 DEF Runs, Calls, Alone
  <2>7. BotTypes'
    BY <1>0, <1>1, <1>2, <2>6 DEF BotTypes, NoUpdates
  <2>8. CopyExists(a)'
    BY <1>0, <2>5, <2>6 DEF CopyExists, BotInv
  <2>9. trouble' = 0 /\ ~row.deleted => run'[a].copy.status = "active"
    BY <1>0, <1>1, <1>4, <2>5, <2>6 DEF BotInv, Hooked
  <2>10. ASSUME trouble = 0 PROVE \E b \in Admins : Unhooking(b)'
    <3>1. CASE SpeaksWith = row.token
      BY <1>1, <2>2, <2>5, <2>6, <3>1 DEF Unhooking
    <3>2. CASE SpeaksWith # row.token
      <4>1. registry # None /\ registry # row.token
        BY <3>2 DEF SpeaksWith
      <4>2. PICK b \in Admins : At(b, "reload")
        BY <1>4, <2>10, <4>1 DEF BotInv, Spoken, StaleUsed, HooksOff
      <4>3. run'[b] = run[b]
        BY <1>0, <2>6, <4>2 DEF Alone, Requests, At
      <4>4. QED BY <4>2, <4>3 DEF At, Unhooking
    <3>3. QED BY <3>1, <3>2
  <2>11. QED BY <1>0, <1>1, <1>2, <1>4, <2>6, <2>7, <2>8, <2>9, <2>10, OwnStep
             DEF Removing, Setting, At
<1>5. QED BY <1>3, <1>4 DEF UnhookRead

\* deleteWebhook of a disabled bot takes the webhook of the token it was called with.
LEMMA UnhookCallKeeps ==
  ASSUME BotInv, NEW a \in Admins, UnhookCall(a) PROVE BotInv'
<1>0. /\ BotTypes /\ run \in [Requests -> Runs] /\ run[a] \in Runs /\ a \in Requests
      /\ row \in Rows /\ trouble \in 0..StaleUsed /\ run[a].pc = "unhookCall"
      /\ run[a].copy \in Rows /\ begun \in Nat
  BY DEF BotInv, BotTypes, Runs, Requests, UnhookCall, At
<1>1. UNCHANGED <<row, wanted, registry, left, begun>> /\ NoUpdates
  BY DEF UnhookCall, NoDatabase
<1>2. run' = [run EXCEPT ![a].pc = "remove", ![a].copy = FirstRow]
  BY DEF UnhookCall
<1>3. /\ run' \in [Requests -> Runs] /\ Alone(a) /\ run'[a].pc = "remove"
      /\ run'[a].copy = FirstRow /\ run'[a].form = run[a].form
      /\ run'[a].blank = run[a].blank
  BY <1>0, <1>2, BotFirst DEF Runs, Calls, Alone
<1>4. CopyExists(a)'
  BY <1>0, <1>3 DEF CopyExists, BotInv, FirstRow
<1>5. CASE hooks' = hooks \ {run[a].copy.token} /\ Blame(StaleUsed, row.status = "active")
  <2>1. trouble' \in 0..StaleUsed
    BY <1>0, <1>5, BlameAdds
  <2>2. BotTypes'
    BY <1>0, <1>1, <1>3, <1>5, <2>1 DEF BotTypes, NoUpdates
  <2>3. CASE row.status = "active"
    <3>1. trouble' = StaleUsed
      BY <1>0, <1>5, <2>3 DEF Blame, StaleUsed
    <3>2. QED BY <1>0, <1>1, <1>3, <1>4, <2>2, <3>1, Spoilt
  <2>4. CASE row.status # "active"
    <3>1. trouble' = trouble
      BY <1>5, <2>4 DEF Blame
    <3>2. \A s \in Requests : CopyExists(s)'
      BY <1>3, <1>4 DEF BotInv, CopyExists, Alone
    <3>3. Obeyed'
      BY <1>1, <3>1 DEF BotInv, Obeyed
    <3>4. \A b \in Admins : /\ Removing(b) => Removing(b)'
                            /\ At(b, "reload") => At(b, "reload")'
                            /\ Unhooking(b) => \/ Unhooking(b)'
                                               \/ run[a].copy.token = row.token
      BY <1>0, <1>1, <1>3 DEF Removing, At, Alone, Requests, Unhooking
    <3>5. Spoken'
      BY <1>1, <3>1, <3>4 DEF BotInv, Spoken
    <3>6. Hooked'
      BY <1>1, <1>3, <1>5, <2>4, <3>1, <3>4 DEF BotInv, Hooked, Alone, FirstRow
    <3>7. QED BY <1>0, <1>1, <1>3, <2>2, <3>2, <3>3, <3>5, <3>6, UpdatesKept DEF BotInv
  <2>5. QED BY <2>3, <2>4
<1>6. CASE hooks' = hooks /\ NotRemoved(run[a].copy.token)
  <2>1. /\ trouble' \in 0..StaleUsed /\ trouble' >= trouble
        /\ run[a].copy.token \in hooks => trouble' >= 1
    BY <1>0, <1>6 DEF NotRemoved, Blame, HooksOff, StaleUsed
  <2>2. BotTypes'
    BY <1>0, <1>1, <1>3, <1>6, <2>1 DEF BotTypes, NoUpdates
  <2>3. Unhooking(a) => run[a].copy.token = row.token
    BY <1>0 DEF Unhooking
  <2>4. QED BY <1>0, <1>1, <1>3, <1>4, <1>6, <2>1, <2>2, <2>3, OwnStep
            DEF Removing, Setting, At, FirstRow
<1>7. QED BY <1>5, <1>6 DEF UnhookCall

\* Remove drops the entry: a bot that is not registered is spoken for by nobody.  For a
\* form without a row nothing happens.
LEMMA RemoveKeeps ==
  ASSUME BotInv, NEW a \in Admins, Remove(a) PROVE BotInv'
<1>0. /\ BotTypes /\ a \in Requests /\ run[a].pc = "remove" /\ begun \in Nat
      /\ trouble \in 0..StaleUsed
  BY DEF BotInv, BotTypes, Requests, Remove, At
<1>1. UNCHANGED <<row, wanted, hooks, begun, trouble>> /\ NoUpdates
  BY DEF Remove, NoDatabase
<1>2. /\ run' \in [Requests -> Runs] /\ Alone(a)
      /\ run'[a].pc \in {"done", "token", "cards", "reread"}
      /\ run'[a].copy = FirstRow /\ run'[a].form \in {run[a].form, FirstRow}
  BY <1>0, EndsAre DEF Remove
<1>2a. CASE run[a].blank
  <2>1. UNCHANGED <<row, wanted, registry, left, hooks>>
    BY <1>1, <1>2a DEF Remove
  <2>2. trouble' >= trouble
    BY <1>0, <1>1 DEF StaleUsed
  <2>3. QED BY <1>0, <1>1, <1>2a, <2>1, <2>2, EndKeeps DEF Remove, Removing, Setting, Unhooking
<1> SUFFICES ASSUME ~run[a].blank PROVE BotInv'
  BY <1>2a
<1>2b. registry' = None /\ left' = FALSE
  BY DEF Remove
<1>3. BotTypes'
  BY <1>0, <1>1, <1>2, <1>2b DEF BotTypes, NoUpdates
<1>4. \A s \in Requests : CopyExists(s)'
  BY <1>2 DEF BotInv, CopyExists, Alone, FirstRow
<1>5. Obeyed' /\ Spoken'
  BY <1>1, <1>2b DEF BotInv, Obeyed, Spoken
<1>6. \A b \in Admins : (Setting(b) => Setting(b)') /\ (Unhooking(b) => Unhooking(b)')
  BY <1>0, <1>1, <1>2 DEF Setting, Unhooking, Alone, Requests
<1>7. Hooked'
  BY <1>1, <1>2, <1>6 DEF BotInv, Hooked, Alone, FirstRow
<1>8. QED BY <1>0, <1>1, <1>2, <1>3, <1>4, <1>5, <1>7, UpdatesKept DEF BotInv

\* Opening a form, or a request to delete: the row is copied, and is there.
LEMMA OpenKeeps ==
  ASSUME BotInv, NEW a \in Admins, OpenSettings(a) \/ OpenDelete(a) PROVE BotInv'
<1>0. /\ BotTypes /\ run \in [Requests -> Runs] /\ run[a] \in Runs /\ a \in Requests
      /\ row \in Rows /\ trouble \in 0..StaleUsed /\ begun \in Nat
      /\ run[a].pc = "new" /\ ~row.deleted
  BY DEF BotInv, BotTypes, Requests, OpenSettings, OpenDelete, At
<1>1. /\ UNCHANGED <<row, wanted, registry, left, hooks, trouble>> /\ NoUpdates
      /\ begun' = begun + 1
  BY DEF OpenSettings, OpenDelete, NoDatabase, NoTelegram
<1>2. trouble' >= trouble
  BY <1>0, <1>1 DEF StaleUsed
<1>3. /\ run' \in [Requests -> Runs] /\ Alone(a) /\ run'[a].pc \in {"status", "delete"}
      /\ run'[a].copy \in {run[a].copy, FirstRow}
      /\ run'[a].form \in {run[a].form, row, FirstRow}
  <2>1. CASE OpenSettings(a)
    <3>1. PICK q \in Runs, z \in Runs :
            /\ q = [Ended EXCEPT !.pc = "status", !.form = row]
            /\ z = [Ended EXCEPT !.pc = "status", !.blank = TRUE]
      BY <1>0, BotFirst DEF Runs, Calls
    <3>2. run' = [run EXCEPT ![a] = q] \/ run' = [run EXCEPT ![a] = z]
      BY <2>1, <3>1 DEF OpenSettings
    <3>3. /\ q.pc = "status" /\ q.copy = FirstRow /\ q.form = row
          /\ z.pc = "status" /\ z.copy = FirstRow /\ z.form = FirstRow
      BY <3>1 DEF Ended
    <3>4. QED BY <1>0, <3>1, <3>2, <3>3 DEF Alone
  <2>2. CASE OpenDelete(a)
    <3>1. run' = [run EXCEPT ![a] = [@ EXCEPT !.pc = "delete"]]
      BY <2>2 DEF OpenDelete, Goto
    <3>2. QED BY <1>0, <3>1 DEF Runs, Calls, Alone
  <2>3. QED BY <2>1, <2>2
<1>4. BotTypes'
  BY <1>0, <1>1, <1>3 DEF BotTypes, NoUpdates
<1>5. CopyExists(a)'
  BY <1>0, <1>3 DEF CopyExists, BotInv, FirstRow
<1>6. trouble' = 0 /\ ~row.deleted => run'[a].copy.status = "active"
  BY <1>0, <1>1, <1>3 DEF BotInv, Hooked, FirstRow
<1>7. QED BY <1>0, <1>1, <1>2, <1>3, <1>4, <1>5, <1>6, OwnStep
          DEF Removing, Setting, Unhooking, At

\* A token that is not typed, or not accepted.
LEMMA TokenKeeps ==
  ASSUME BotInv, NEW a \in Admins, KeepToken(a) \/ RefuseToken(a) PROVE BotInv'
<1>0. /\ BotTypes /\ run \in [Requests -> Runs] /\ run[a] \in Runs /\ a \in Requests
      /\ trouble \in 0..StaleUsed /\ begun \in Nat /\ run[a].pc = "token"
  BY DEF BotInv, BotTypes, Requests, KeepToken, RefuseToken, At
<1>1. UNCHANGED <<row, wanted, registry, left, hooks, trouble, begun>> /\ NoUpdates
  BY DEF KeepToken, RefuseToken, NoDatabase, NoTelegram
<1>2. trouble' >= trouble
  BY <1>0, <1>1 DEF StaleUsed
<1>3. CASE Goto(a, "done")
  BY <1>0, <1>1, <1>2, <1>3, EndKeeps DEF Removing, Setting, Unhooking
<1>4. CASE Goto(a, "cards")
  <2>1. run' = [run EXCEPT ![a] = [@ EXCEPT !.pc = "cards"]]
    BY <1>4 DEF Goto
  <2>2. /\ run' \in [Requests -> Runs] /\ Alone(a) /\ run'[a].pc = "cards"
        /\ run'[a].copy = run[a].copy /\ run'[a].form = run[a].form
    BY <1>0, <2>1 DEF Runs, Calls, Alone
  <2>3. BotTypes'
    BY <1>0, <1>1, <2>2 DEF BotTypes, NoUpdates
  <2>4. CopyExists(a)'
    BY <1>0, <2>2 DEF CopyExists, BotInv
  <2>5. trouble' = 0 /\ ~row.deleted => run'[a].copy.status = "active"
    BY <1>0, <1>1, <2>2 DEF BotInv, Hooked
  <2>6. QED BY <1>0, <1>1, <1>2, <2>2, <2>3, <2>4, <2>5, OwnStep
            DEF Removing, Setting, Unhooking, At
<1>5. QED BY <1>3, <1>4 DEF KeepToken, RefuseToken

\* What the form's save does to the promise of the console: a copy that was the row gives
\* the row what the console asked for; a stale one, or a save that fails, is noted.  A
\* form without a row only ever fails.
LEMMA FormSave ==
  ASSUME BotInv, NEW a \in Admins, NEW c \in Rows, c = run[a].form, NEW new \in Rows,
         SaveForm(a, new)
  PROVE  /\ row' \in Rows /\ trouble' \in 0..StaleUsed
         /\ \/ trouble' = StaleUsed
            \/ c = row /\ row' = new /\ trouble' = trouble
            \/ /\ row' = row /\ trouble' >= trouble
               /\ new # row => trouble' >= SaveFailed
<1>1. BotTypes /\ trouble \in 0..StaleUsed /\ row \in Rows /\ StaleUsed \in 0..StaleUsed
  BY DEF BotInv, BotTypes, StaleUsed
<1>2. CASE row' = new /\ BlameStale(c)
  BY <1>1, <1>2, BlameStaleTells
<1>3. CASE row' = row /\ Blame(SaveFailed, new # row)
  BY <1>1, <1>3, BlameAdds
<1>4. CASE run[a].blank
  <2>1. row' = row /\ Blame(SaveFailed, TRUE)
    BY <1>4 DEF SaveForm
  <2>2. QED BY <1>1, <2>1, BlameAdds
<1>5. QED BY <1>2, <1>3, <1>4 DEF SaveForm, Save

\* The form's save when its copy was the row.
LEMMA FreshSave ==
  ASSUME BotInv, BotTypes', NEW a \in Admins, NEW new \in Rows, Alone(a), NoTelegram, NoUpdates,
         run[a].pc \in {"status", "token"}, run'[a].pc # "handle", CopyExists(a)',
         row' = new, trouble' = trouble, new.deleted = row.deleted,
         row = wanted => wanted' = new,
         run'[a].copy = run[a].copy,
         new.token # row.token => At(a, "reload")',
         ~row.deleted /\ new.status = "active" => Setting(a)',
         ~row.deleted /\ new.status = "disabled" => Unhooking(a)'
  PROVE  BotInv'
<1>0. a \in Requests /\ new.status \in {"active", "disabled"}
  BY DEF Requests, Rows
<1>1. \A s \in Requests : CopyExists(s)' /\ run'[s].copy = run[s].copy
  BY DEF Alone, BotInv, CopyExists
<1>2. Obeyed'
  BY DEF BotInv, Obeyed
<1>3. \A b \in Admins : /\ Removing(b) => Removing(b)'
                        /\ At(b, "reload") => At(b, "reload")'
  BY <1>0 DEF Removing, At, Alone, Requests
<1>4. Spoken'
  BY <1>3 DEF BotInv, Spoken, NoTelegram
<1>5. Hooked'
  BY <1>0, <1>1 DEF BotInv, Hooked
<1>6. QED BY <1>0, <1>1, <1>2, <1>4, <1>5, UpdatesKept DEF BotInv

\* The status of the form: an active bot is added next, a disabled one unhooked.
LEMMA SaveStatusKeeps ==
  ASSUME BotInv, NEW a \in Admins, NEW status \in {"active", "disabled"}, SaveStatus(a, status)
  PROVE  BotInv'
<1>0. /\ BotTypes /\ run \in [Requests -> Runs] /\ run[a] \in Runs /\ a \in Requests
      /\ row \in Rows /\ wanted \in Rows /\ trouble \in 0..StaleUsed /\ begun \in Nat
      /\ run[a].pc = "status" /\ run[a].form \in Rows
  BY DEF BotInv, BotTypes, Requests, SaveStatus, At, Runs
<1>1. PICK new \in Rows : new = [run[a].form EXCEPT !.status = status]
  BY <1>0 DEF Rows
<1>2. new.status = status /\ new.token = run[a].form.token /\ new.deleted = run[a].form.deleted
  BY <1>0, <1>1 DEF Rows
<1>3. NoTelegram /\ NoUpdates /\ begun' = begun
  BY DEF SaveStatus
<1>4. CASE Goto(a, "token") /\ UNCHANGED <<row, wanted, trouble>>
  <2>1. run' = [run EXCEPT ![a] = [@ EXCEPT !.pc = "token"]]
    BY <1>4 DEF Goto
  <2>2. /\ run' \in [Requests -> Runs] /\ Alone(a) /\ run'[a].pc = "token"
        /\ run'[a].copy = run[a].copy /\ run'[a].form = run[a].form
    BY <1>0, <2>1 DEF Runs, Calls, Alone
  <2>3. BotTypes'
    BY <1>0, <1>3, <1>4, <2>2 DEF BotTypes, NoUpdates, NoTelegram
  <2>4. CopyExists(a)'
    BY <1>0, <2>2 DEF CopyExists, BotInv
  <2>5. trouble' = 0 /\ ~row.deleted => run'[a].copy.status = "active"
    BY <1>0, <1>4, <2>2 DEF BotInv, Hooked
  <2>6. trouble' >= trouble
    BY <1>0, <1>4 DEF StaleUsed
  <2>7. QED BY <1>0, <1>3, <1>4, <2>2, <2>3, <2>4, <2>5, <2>6, OwnStep
            DEF Removing, Setting, Unhooking, At, NoTelegram
<1>5. CASE /\ SaveForm(a, new)
           /\ wanted' = [wanted EXCEPT !.status = new.status]
           /\ run' = [run EXCEPT ![a] =
                [@ EXCEPT !.pc = IF new.status = "active" THEN "add" ELSE "unhook",
                          !.form = new, !.then = "token"]]
  <2>1. PICK c \in {"add", "unhook"} : c = IF new.status = "active" THEN "add" ELSE "unhook"
    OBVIOUS
  <2>2. run' = [run EXCEPT ![a] =
                  [run[a] EXCEPT !.pc = c, !.form = new, !.then = "token"]]
    BY <1>5, <2>1
  <2>3. PICK q \in Runs : q = [run[a] EXCEPT !.pc = c, !.form = new, !.then = "token"]
    BY <1>0 DEF Runs, Calls
  <2>4. q.pc = c /\ q.copy = run[a].copy /\ q.form = new
    BY <1>0, <2>3 DEF Runs
  <2>5. /\ run' \in [Requests -> Runs] /\ Alone(a) /\ run'[a].pc = c
        /\ run'[a].copy = run[a].copy /\ run'[a].form = new
    BY <1>0, <2>2, <2>3, <2>4 DEF Alone
  <2>6. wanted' \in Rows
    BY <1>0, <1>1, <1>2, <1>5 DEF Rows
  <2>7. BotTypes'
    BY <1>0, <1>3, <1>5, <2>5, <2>6, FormSave DEF BotTypes, NoUpdates, NoTelegram
  <2>8. CopyExists(a)'
    BY <1>0, <1>2, <2>5 DEF CopyExists, BotInv
  <2>9. CASE trouble' = StaleUsed
    BY <1>0, <1>3, <2>1, <2>5, <2>7, <2>8, <2>9, Spoilt
  <2>10. CASE run[a].form = row /\ row' = new /\ trouble' = trouble
    <3>1. row = wanted => wanted' = new
      BY <1>0, <1>1, <1>2, <1>5, <2>10 DEF Rows
    <3>2. new.status = "active" => Setting(a)'
      BY <2>1, <2>5 DEF Setting
    <3>3. new.status = "disabled" => Unhooking(a)'
      BY <2>1, <2>5 DEF Unhooking
    <3>4. QED BY <1>0, <1>2, <1>3, <2>1, <2>5, <2>7, <2>8, <2>10, <3>1, <3>2, <3>3, FreshSave
  <2>11. CASE /\ row' = row /\ trouble' >= trouble
              /\ new # row => trouble' >= SaveFailed
    <3>1. trouble' < SaveFailed /\ row = wanted => wanted' = wanted
      <4> SUFFICES ASSUME trouble' < SaveFailed, row = wanted PROVE wanted' = wanted
        OBVIOUS
      <4>1. new = row
        BY <2>7, <2>11 DEF SaveFailed, BotTypes, StaleUsed
      <4>2. QED BY <1>0, <1>5, <4>1 DEF Rows
    <3>2. trouble' = 0 => trouble = 0
      BY <1>0, <2>11 DEF StaleUsed
    <3>3. trouble' = 0 /\ ~row.deleted => run'[a].copy.status = "active"
      BY <1>0, <2>5, <3>2 DEF BotInv, Hooked
    <3>4. QED BY <1>0, <1>3, <2>1, <2>5, <2>7, <2>8, <2>11, <3>1, <3>3, OwnStep
              DEF Removing, Setting, Unhooking, At, NoTelegram
  <2>12. QED BY <1>0, <1>5, <2>9, <2>10, <2>11, FormSave
<1>6. QED BY <1>1, <1>2, <1>4, <1>5 DEF SaveStatus

\* A new token is saved, and the bot is reloaded next.
LEMMA SaveTokenKeeps ==
  ASSUME BotInv, NEW a \in Admins, NEW token \in Tokens, SaveToken(a, token)
  PROVE  BotInv'
<1>0. /\ BotTypes /\ run \in [Requests -> Runs] /\ run[a] \in Runs /\ a \in Requests
      /\ row \in Rows /\ wanted \in Rows /\ trouble \in 0..StaleUsed /\ begun \in Nat
      /\ run[a].pc = "token" /\ run[a].form \in Rows
  BY DEF BotInv, BotTypes, Requests, SaveToken, At, Runs
<1>1. PICK new \in Rows : new = [run[a].form EXCEPT !.token = token]
  BY <1>0 DEF Rows
<1>2. new.token = token /\ new.status = run[a].form.status /\ new.deleted = run[a].form.deleted
  BY <1>0, <1>1 DEF Rows
<1>3. /\ NoTelegram /\ NoUpdates /\ begun' = begun /\ SaveForm(a, new)
      /\ wanted' = [wanted EXCEPT !.token = token]
      /\ run' = [run EXCEPT ![a] =
                   [@ EXCEPT !.pc = "reload", !.form = new, !.then = "cards"]]
  BY <1>1 DEF SaveToken
<1>4. PICK q \in Runs : q = [run[a] EXCEPT !.pc = "reload", !.form = new, !.then = "cards"]
  BY <1>0 DEF Runs, Calls
<1>5. q.pc = "reload" /\ q.copy = run[a].copy /\ q.form = new
  BY <1>0, <1>4 DEF Runs
<1>6. /\ run' \in [Requests -> Runs] /\ Alone(a) /\ run'[a].pc = "reload"
      /\ run'[a].copy = run[a].copy /\ run'[a].form = new
  BY <1>0, <1>3, <1>4, <1>5 DEF Alone
<1>7. wanted' \in Rows
  BY <1>0, <1>3 DEF Rows
<1>8. BotTypes'
  BY <1>0, <1>3, <1>6, <1>7, FormSave DEF BotTypes, NoUpdates, NoTelegram
<1>9. CopyExists(a)'
  BY <1>0, <1>2, <1>6 DEF CopyExists, BotInv
<1>10. CASE trouble' = StaleUsed
  BY <1>0, <1>3, <1>6, <1>8, <1>9, <1>10, Spoilt
<1>11. CASE run[a].form = row /\ row' = new /\ trouble' = trouble
  <2>1. row = wanted => wanted' = new
    BY <1>0, <1>1, <1>3, <1>11 DEF Rows
  <2>2. At(a, "reload")' /\ Setting(a)' /\ Unhooking(a)'
    BY <1>6 DEF At, Setting, Unhooking
  <2>3. QED BY <1>0, <1>2, <1>3, <1>6, <1>8, <1>9, <1>11, <2>1, <2>2, FreshSave
<1>12. CASE /\ row' = row /\ trouble' >= trouble
            /\ new # row => trouble' >= SaveFailed
  <2>1. trouble' < SaveFailed /\ row = wanted => wanted' = wanted
    <3> SUFFICES ASSUME trouble' < SaveFailed, row = wanted PROVE wanted' = wanted
      OBVIOUS
    <3>1. new = row
      BY <1>8, <1>12 DEF SaveFailed, BotTypes, StaleUsed
    <3>2. QED BY <1>0, <1>2, <1>3, <3>1 DEF Rows
  <2>2. trouble' = 0 => trouble = 0
    BY <1>0, <1>12 DEF StaleUsed
  <2>3. trouble' = 0 /\ ~row.deleted => run'[a].copy.status = "active"
    BY <1>0, <1>6, <2>2 DEF BotInv, Hooked
  <2>4. QED BY <1>0, <1>3, <1>6, <1>8, <1>9, <1>12, <2>1, <2>3, OwnStep
            DEF Removing, Setting, Unhooking, At, NoTelegram
<1>13. QED BY <1>0, <1>3, <1>10, <1>11, <1>12, FormSave

\* Reload: the entry goes, and Add is next.  When the row is not read, the entry stays: a
\* deleted bot is left to its deletion, and for any other this is noted.
LEMMA ReloadKeeps ==
  ASSUME BotInv, NEW a \in Admins, Reload(a) PROVE BotInv'
<1>0. /\ BotTypes /\ run \in [Requests -> Runs] /\ run[a] \in Runs /\ a \in Requests
      /\ trouble \in 0..StaleUsed /\ begun \in Nat /\ left \in BOOLEAN /\ run[a].pc = "reload"
  BY DEF BotInv, BotTypes, Requests, Reload, At
<1>1. UNCHANGED <<row, wanted, hooks, begun>> /\ NoUpdates
  BY DEF Reload, NoDatabase
<1>2. PICK c \in {"cards", "add"} :
        /\ Goto(a, c)
        /\ c = "cards" => /\ registry' = registry /\ left' = (left \/ ~row.deleted)
                          /\ Blame(HooksOff, ~row.deleted)
        /\ c = "add" => /\ ~row.deleted /\ registry' = None /\ left' = FALSE
                        /\ trouble' = trouble
  BY DEF Reload
<1>3. /\ trouble' \in 0..StaleUsed /\ trouble' >= trouble
      /\ c = "cards" /\ ~row.deleted => trouble' >= 1
  BY <1>0, <1>2 DEF Blame, HooksOff, StaleUsed
<1>4. run' = [run EXCEPT ![a] = [@ EXCEPT !.pc = c]]
  BY <1>2 DEF Goto
<1>5. /\ run' \in [Requests -> Runs] /\ Alone(a) /\ run'[a].pc = c
      /\ run'[a].copy = run[a].copy /\ run'[a].form = run[a].form
  BY <1>0, <1>4 DEF Runs, Calls, Alone
<1>6. left' \in BOOLEAN /\ registry' \in {registry, None}
  BY <1>0, <1>2
<1>7. BotTypes'
  BY <1>0, <1>1, <1>3, <1>5, <1>6 DEF BotTypes, NoUpdates
<1>8. \A s \in Requests : CopyExists(s)' /\ run'[s].copy = run[s].copy
  BY <1>0, <1>5 DEF CopyExists, BotInv, Alone
<1>9. Obeyed'
  BY <1>0, <1>1, <1>3 DEF BotInv, Obeyed, SaveFailed, StaleUsed
<1>10. CASE c = "cards" /\ row.deleted
  <2>1. left' = left
    BY <1>0, <1>2, <1>10
  <2>2. QED BY <1>0, <1>1, <1>2, <1>3, <1>5, <1>7, <1>8, <1>10, <2>1, OwnStep DEF Removing, At
<1>11. CASE c = "cards" /\ ~row.deleted
  <2>1. left' /\ trouble' >= HooksOff
    BY <1>2, <1>3, <1>11 DEF HooksOff
  <2>2. Spoken' /\ Hooked'
    BY <1>1, <1>3, <1>11, <2>1 DEF Spoken, Hooked
  <2>3. QED BY <1>0, <1>1, <1>5, <1>7, <1>8, <1>9, <1>11, <2>2, UpdatesKept DEF BotInv
<1>12. CASE c = "add"
  <2>1. Spoken'
    BY <1>2, <1>12 DEF Spoken
  <2>2. Setting(a)' /\ Unhooking(a)'
    BY <1>5, <1>12 DEF Setting, Unhooking
  <2>3. Hooked'
    BY <1>1, <1>2, <1>8, <1>12, <2>2 DEF BotInv, Hooked
  <2>4. QED BY <1>0, <1>1, <1>5, <1>7, <1>8, <1>9, <1>12, <2>1, <2>3, UpdatesKept DEF BotInv
<1>13. QED BY <1>10, <1>11, <1>12

\* A deletion is asked and made; its webhook and its entry are removed next.
LEMMA SoftDeleteKeeps ==
  ASSUME BotInv, NEW a \in Admins, SoftDelete(a) PROVE BotInv'
<1>0. /\ BotTypes /\ run \in [Requests -> Runs] /\ run[a] \in Runs /\ a \in Requests
      /\ row \in Rows /\ wanted \in Rows /\ run[a].pc = "delete"
  BY DEF BotInv, BotTypes, Requests, SoftDelete, At
<1>1. UNCHANGED <<registry, left, hooks, trouble, begun>> /\ NoUpdates
  BY DEF SoftDelete, NoTelegram
<1>2. PICK q \in Runs : q = [Ended EXCEPT !.pc = "unhook"]
  BY BotFirst DEF Runs, Calls
<1>2a. /\ q.pc = "unhook" /\ q.copy = FirstRow /\ q.form = FirstRow /\ ~q.blank
       /\ run' = [run EXCEPT ![a] = q]
  BY <1>2 DEF SoftDelete, Ended
<1>3. /\ run' \in [Requests -> Runs] /\ Alone(a) /\ run'[a].pc = "unhook"
      /\ run'[a].copy = FirstRow /\ run'[a].form = FirstRow /\ ~run'[a].blank
  BY <1>0, <1>2, <1>2a DEF Alone
<1>4. PICK new \in Rows : new = [row EXCEPT !.deleted = TRUE, !.status = "disabled"]
  BY <1>0 DEF Rows
<1>5. PICK asked \in Rows : asked = [wanted EXCEPT !.deleted = TRUE, !.status = "disabled"]
  BY <1>0 DEF Rows
<1>6. row' = new /\ wanted' = asked /\ new.deleted /\ (row = wanted => new = asked)
  BY <1>0, <1>4, <1>5 DEF SoftDelete, Rows
<1>7. BotTypes'
  BY <1>0, <1>1, <1>3, <1>6 DEF BotTypes, NoUpdates
<1>8. \A s \in Requests : CopyExists(s)'
  BY <1>0, <1>3 DEF BotInv, CopyExists, Alone, FirstRow
<1>9. Obeyed' /\ Hooked'
  BY <1>1, <1>6 DEF BotInv, Obeyed, Hooked
<1>10. Removing(a)'
  BY <1>3 DEF Removing
<1>11. Spoken'
  BY <1>6, <1>10 DEF Spoken
<1>12. QED BY <1>0, <1>1, <1>3, <1>7, <1>8, <1>9, <1>11, UpdatesKept DEF BotInv

\* A post begins, and looks the bot up.
LEMMA PostKeeps ==
  ASSUME BotInv, NEW d \in Deliveries, Post(d) \/ Lookup(d) \/ Reread(d) PROVE BotInv'
<1>0. /\ BotTypes /\ run \in [Requests -> Runs] /\ run[d] \in Runs /\ d \in Requests
      /\ trouble \in 0..StaleUsed /\ begun \in Nat
      /\ run[d].pc \in {"done", "lookup", "reread"}
  BY DEF BotInv, BotTypes, Requests, Post, Lookup, Reread, At
<1>1. /\ UNCHANGED <<row, wanted, registry, left, hooks, trouble>> /\ NoUpdates
      /\ begun' \in {begun, begun + 1}
  BY DEF Post, Lookup, Reread, NoDatabase, NoTelegram
<1>2. trouble' >= trouble /\ begun' \in Nat
  BY <1>0, <1>1 DEF StaleUsed
<1>3. CASE Goto(d, "done")
  BY <1>0, <1>1, <1>2, <1>3, EndKeeps DEF Removing, Setting, Unhooking
<1>4. ASSUME run' \in [Requests -> Runs], Alone(d), run'[d].pc # "handle",
             run'[d].copy \in {run[d].copy, FirstRow}, run'[d].form \in {run[d].form, FirstRow}
      PROVE  BotInv'
  <2>1. BotTypes'
    BY <1>0, <1>1, <1>2, <1>4 DEF BotTypes, NoUpdates
  <2>2. CopyExists(d)'
    BY <1>0, <1>4 DEF CopyExists, BotInv, FirstRow
  <2>3. trouble' = 0 /\ ~row.deleted => run'[d].copy.status = "active"
    BY <1>0, <1>1, <1>4 DEF BotInv, Hooked, FirstRow
  <2>4. QED BY <1>0, <1>1, <1>2, <1>4, <2>1, <2>2, <2>3, OwnStep
            DEF Removing, Setting, Unhooking, At
<1>5. CASE Post(d)
  <2>1. run' = [run EXCEPT ![d] = [Ended EXCEPT !.pc = "lookup", !.then = "reread"]]
    BY <1>5 DEF Post
  <2>2. PICK q \in Runs : q = [Ended EXCEPT !.pc = "lookup", !.then = "reread"]
    BY BotFirst DEF Runs, Calls
  <2>3. q.pc = "lookup" /\ q.copy = FirstRow /\ q.form = FirstRow
    BY <2>2 DEF Ended
  <2>4. QED BY <1>0, <1>4, <2>1, <2>2, <2>3 DEF Alone
<1>6. CASE Lookup(d)
  <2>1. CASE run' = [run EXCEPT ![d].pc = "mark", ![d].got = TRUE]
    <3>1. /\ run' \in [Requests -> Runs] /\ Alone(d) /\ run'[d].pc = "mark"
          /\ run'[d].copy = run[d].copy /\ run'[d].form = run[d].form
      BY <1>0, <2>1 DEF Runs, Calls, Alone
    <3>2. QED BY <1>4, <3>1
  <2>2. CASE Goto(d, "add")
    <3>1. run' = [run EXCEPT ![d] = [@ EXCEPT !.pc = "add"]]
      BY <2>2 DEF Goto
    <3>2. /\ run' \in [Requests -> Runs] /\ Alone(d) /\ run'[d].pc = "add"
          /\ run'[d].copy = run[d].copy /\ run'[d].form = run[d].form
      BY <1>0, <3>1 DEF Runs, Calls, Alone
    <3>3. QED BY <1>4, <3>2
  <2>3. QED BY <1>3, <1>6, <2>1, <2>2 DEF Lookup
<1>7. CASE Reread(d)
  <2>1. PICK b \in BOOLEAN : b = (registry # None)
    OBVIOUS
  <2>2. run' = [run EXCEPT ![d].pc = "mark", ![d].got = b]
    BY <1>7, <2>1 DEF Reread
  <2>3. /\ run' \in [Requests -> Runs] /\ Alone(d) /\ run'[d].pc = "mark"
        /\ run'[d].copy = run[d].copy /\ run'[d].form = run[d].form
    BY <1>0, <2>2 DEF Runs, Calls, Alone
  <2>4. QED BY <1>4, <2>3
<1>8. QED BY <1>5, <1>6, <1>7

\* A post that is let through was not marked since the marks were last dropped.
LEMMA MarkKeeps ==
  ASSUME BotInv, NEW d \in Deliveries, NEW u \in Updates, Mark(d, u) PROVE BotInv'
<1>0. /\ BotTypes /\ run \in [Requests -> Runs] /\ run[d] \in Runs /\ d \in Requests
      /\ trouble \in 0..StaleUsed /\ begun \in Nat /\ run[d].pc = "mark"
      /\ seen \in SUBSET Updates /\ handled \in [Updates -> Nat] /\ forgotten \in Nat
      /\ IsFiniteSet(seen)
  BY DEF BotInv, BotTypes, Requests, Mark, At, SeenIsCapped
<1>1. UNCHANGED <<row, wanted, registry, left, hooks, trouble, begun, handled>>
  BY DEF Mark, NoDatabase, NoTelegram
<1>2. trouble' >= trouble
  BY <1>0, <1>1 DEF StaleUsed
<1>3. CASE u \in seen /\ Goto(d, "done") /\ UNCHANGED <<seen, forgotten>>
  <2>1. NoUpdates
    BY <1>1, <1>3 DEF NoUpdates
  <2>2. QED BY <1>0, <1>1, <1>2, <1>3, <2>1, EndKeeps DEF Removing, Setting, Unhooking
<1>4. CASE /\ u \notin seen
           /\ run' = [run EXCEPT ![d].pc = "handle", ![d].update = u]
           /\ \/ /\ Cardinality(seen \cup {u}) > MaxSeen
                 /\ seen' = {} /\ forgotten' = forgotten + 1
              \/ /\ ~(Cardinality(seen \cup {u}) > MaxSeen)
                 /\ seen' = seen \cup {u} /\ forgotten' = forgotten
  <2>1. /\ run' \in [Requests -> Runs] /\ Alone(d) /\ run'[d].pc = "handle"
        /\ run'[d].copy = run[d].copy /\ run'[d].form = run[d].form /\ run'[d].update = u
    BY <1>0, <1>4 DEF Runs, Calls, Alone
  <2>2. BotTypes'
    BY <1>0, <1>1, <1>4, <2>1 DEF BotTypes
  <2>3. CopyExists(d)'
    BY <1>0, <2>1 DEF CopyExists, BotInv
  <2>4. trouble' = 0 /\ ~row.deleted => run'[d].copy.status = "active"
    BY <1>0, <1>1, <2>1 DEF BotInv, Hooked
  <2>5. (\A s \in Requests : CopyExists(s)') /\ Obeyed' /\ Spoken' /\ Hooked'
    BY <1>0, <1>1, <1>2, <2>1, <2>2, <2>3, <2>4, OwnRest
       DEF Removing, Setting, Unhooking, At
  <2>6. SeenIsCapped'
    <3>1. CASE seen' = {}
      BY <3>1, FS_EmptySet, BotBoundsAssumption DEF SeenIsCapped
    <3>2. CASE seen' = seen \cup {u} /\ ~(Cardinality(seen \cup {u}) > MaxSeen)
      <4>1. IsFiniteSet(seen') /\ Cardinality(seen') \in Nat
        BY <1>0, <3>2, FS_AddElement, FS_CardinalityType
      <4>2. QED BY <3>2, <4>1, BotBoundsAssumption DEF SeenIsCapped
    <3>3. QED BY <1>4, <3>1, <3>2
  <2>7. \A e \in Deliveries : At(e, "handle")' => run'[e].update \in Updates
    BY <2>1 DEF At, Alone, Requests, BotInv
  <2>8. d \notin Let(u) /\ Let(u)' = Let(u) \cup {d}
    BY <1>0, <2>1 DEF Let, At, Alone, Requests
  <2>9. \A v \in Updates \ {u} : Let(v)' = Let(v)
    BY <1>0, <2>1 DEF Let, At, Alone, Requests
  <2>10. ASSUME NEW v \in Updates
         PROVE  /\ IsFiniteSet(Let(v)')
                /\ handled'[v] + Cardinality(Let(v)') <=
                     forgotten' + (IF v \in seen' THEN 1 ELSE 0)
    <3>1. /\ IsFiniteSet(Let(v))
          /\ handled[v] + Cardinality(Let(v)) <= forgotten + (IF v \in seen THEN 1 ELSE 0)
      BY DEF BotInv, Remembered
    <3>2. Cardinality(Let(v)) \in Nat /\ handled[v] \in Nat
      BY <1>0, <3>1, FS_CardinalityType
    <3>3. CASE v = u
      <4>1. IsFiniteSet(Let(u)') /\ Cardinality(Let(u)') = Cardinality(Let(u)) + 1
        BY <2>8, <3>1, <3>3, FS_AddElement
      <4>2. QED BY <1>0, <1>1, <1>4, <3>1, <3>2, <3>3, <4>1
    <3>4. CASE v # u
      <4>1. Let(v)' = Let(v)
        BY <2>9, <3>4
      <4>2. QED BY <1>0, <1>1, <1>4, <3>1, <3>2, <3>4, <4>1
    <3>5. QED BY <3>3, <3>4
  <2>11. QED BY <2>2, <2>5, <2>6, <2>7, <2>10 DEF BotInv, Remembered
<1>5. QED BY <1>3, <1>4 DEF Mark

\* A post that was let through is handled, or panics on a removed bot.
LEMMA HandleKeeps ==
  ASSUME BotInv, NEW d \in Deliveries, Handle(d) PROVE BotInv'
<1>0. /\ BotTypes /\ run \in [Requests -> Runs] /\ run[d] \in Runs /\ d \in Requests
      /\ trouble \in 0..StaleUsed /\ begun \in Nat /\ run[d].pc = "handle"
      /\ handled \in [Updates -> Nat] /\ forgotten \in Nat /\ run[d].update \in Updates
  BY DEF BotInv, BotTypes, Requests, Handle, At
<1>1. UNCHANGED <<row, wanted, registry, left, hooks, trouble, begun, seen, forgotten>>
  BY DEF Handle, NoDatabase, NoTelegram
<1>2. trouble' >= trouble
  BY <1>0, <1>1 DEF StaleUsed
<1>3. PICK u \in Updates : u = run[d].update
  BY <1>0
<1>4. \/ handled' = [handled EXCEPT ![u] = @ + 1]
      \/ handled' = handled
  BY <1>3 DEF Handle
<1>5. Goto(d, "done")
  BY DEF Handle
<1>6. /\ run' \in [Requests -> Runs] /\ Alone(d)
      /\ run'[d].pc \in {"done", "token", "cards", "reread"}
      /\ run'[d].copy = FirstRow /\ run'[d].form \in {run[d].form, FirstRow}
  BY <1>0, <1>5, EndsAre
<1>7. handled' \in [Updates -> Nat]
  BY <1>0, <1>4
<1>8. BotTypes'
  BY <1>0, <1>1, <1>6, <1>7 DEF BotTypes
<1>9. CopyExists(d)'
  BY <1>0, <1>6 DEF CopyExists, BotInv, FirstRow
<1>10. (\A s \in Requests : CopyExists(s)') /\ Obeyed' /\ Spoken' /\ Hooked'
  BY <1>0, <1>1, <1>2, <1>6, <1>8, <1>9, OwnRest
     DEF Removing, Setting, Unhooking, At, FirstRow
<1>11. SeenIsCapped'
  BY <1>1 DEF BotInv, SeenIsCapped
<1>12. \A e \in Deliveries : At(e, "handle")' => run'[e].update \in Updates
  BY <1>6 DEF At, Alone, Requests, BotInv
<1>13. d \in Let(u) /\ Let(u)' = Let(u) \ {d} /\ \A v \in Updates \ {u} : Let(v)' = Let(v)
  BY <1>0, <1>3, <1>6 DEF Let, At, Alone, Requests
<1>14. ASSUME NEW v \in Updates
       PROVE  /\ IsFiniteSet(Let(v)')
              /\ handled'[v] + Cardinality(Let(v)') <=
                   forgotten' + (IF v \in seen' THEN 1 ELSE 0)
  <2>1. /\ IsFiniteSet(Let(v))
        /\ handled[v] + Cardinality(Let(v)) <= forgotten + (IF v \in seen THEN 1 ELSE 0)
    BY DEF BotInv, Remembered
  <2>2. Cardinality(Let(v)) \in Nat /\ handled[v] \in Nat
    BY <1>0, <2>1, FS_CardinalityType
  <2>3. CASE v = u
    <3>1. IsFiniteSet(Let(u)') /\ Cardinality(Let(u)') = Cardinality(Let(u)) - 1
      BY <1>13, <2>1, <2>3, FS_RemoveElement
    <3>2. handled'[u] <= handled[u] + 1 /\ handled'[u] \in Nat
      BY <1>0, <1>4
    <3>3. QED BY <1>0, <1>1, <2>1, <2>2, <2>3, <3>1, <3>2
  <2>4. CASE v # u
    <3>1. Let(v)' = Let(v) /\ handled'[v] = handled[v]
      BY <1>0, <1>4, <1>13, <2>4
    <3>2. QED BY <1>1, <2>1, <3>1
  <2>5. QED BY <2>3, <2>4
<1>15. QED BY <1>8, <1>10, <1>11, <1>12, <1>14 DEF BotInv, Remembered

\* A restart forgets the marks, the registry and every request; one of the console or
\* of the start-up that was cut off is noted.
LEMMA RestartKeeps == ASSUME BotInv, Restart PROVE BotInv'
<1>0. /\ BotTypes /\ run \in [Requests -> Runs] /\ trouble \in 0..StaleUsed /\ begun \in Nat
      /\ handled \in [Updates -> Nat] /\ forgotten \in Nat
  BY DEF BotInv, BotTypes
<1>1. /\ row' = row /\ wanted' = wanted /\ hooks' = hooks /\ handled' = handled
      /\ registry' = None /\ left' \in BOOLEAN
      /\ seen' = {} /\ forgotten' = forgotten + 1 /\ begun' = begun + 1
  BY DEF Restart, NoDatabase
<1>2. /\ trouble' \in 0..StaleUsed /\ trouble' >= trouble
      /\ (\E r \in Admins \cup {Boot} : Running(r)) => trouble' >= 1
  BY <1>0 DEF Restart, Blame, HooksOff, StaleUsed
<1>3. ASSUME NEW r \in Requests
      PROVE  /\ run'[r] \in Runs
             /\ run'[r].pc # "handle"
             /\ \/ run'[r] = run[r]
                \/ run'[r].copy = FirstRow /\ run'[r].form = FirstRow
  <2>1. PICK q \in Runs : q = [Ended EXCEPT !.pc = "list"]
    BY BotFirst DEF Runs, Calls
  <2>2. q.pc = "list" /\ q.copy = FirstRow /\ q.form = FirstRow
    BY <2>1 DEF Ended
  <2>3. Ended.pc = "done" /\ Ended.copy = FirstRow /\ Ended.form = FirstRow
    BY DEF Ended
  <2>4. \/ run'[r] = q
        \/ run'[r] = run[r] /\ run[r].pc = "new"
        \/ run'[r] = Ended
    BY <2>1 DEF Restart, At
  <2>5. QED BY <1>0, <2>2, <2>3, <2>4, BotFirst
<1>4. run' \in [Requests -> Runs]
  <2>1. DOMAIN run' = Requests /\ run' = [r \in Requests |-> run'[r]]
    BY DEF Restart
  <2>2. QED BY <1>3, <2>1
<1>5. BotTypes'
  BY <1>0, <1>1, <1>2, <1>4 DEF BotTypes
<1>6. SeenIsCapped'
  BY <1>1, FS_EmptySet, BotBoundsAssumption DEF SeenIsCapped
<1>7. \A r \in Requests : CopyExists(r)'
  BY <1>3 DEF BotInv, CopyExists, FirstRow
<1>8. \A d \in Deliveries : ~At(d, "handle")'
  BY <1>3 DEF At, Requests
<1>9. \A u \in Updates : Let(u)' = {}
  BY <1>8 DEF Let
<1>10. trouble' = 0 => trouble = 0 /\ \A a \in Admins : ~Setting(a) /\ ~Unhooking(a)
  BY <1>0, <1>2 DEF Running, Setting, Unhooking, StaleUsed
<1>11. Obeyed' /\ Spoken'
  BY <1>0, <1>1, <1>2 DEF BotInv, Obeyed, Spoken, StaleUsed, SaveFailed
<1>12. Hooked'
  BY <1>1, <1>3, <1>10 DEF BotInv, Hooked, FirstRow
<1>13. ASSUME NEW u \in Updates
       PROVE  /\ IsFiniteSet(Let(u)')
              /\ handled'[u] + Cardinality(Let(u)') <=
                   forgotten' + (IF u \in seen' THEN 1 ELSE 0)
  <2>1. IsFiniteSet(Let(u)') /\ Cardinality(Let(u)') = 0
    BY <1>9, FS_EmptySet
  <2>2. /\ IsFiniteSet(Let(u))
        /\ handled[u] + Cardinality(Let(u)) <= forgotten + (IF u \in seen THEN 1 ELSE 0)
    BY DEF BotInv, Remembered
  <2>3. Cardinality(Let(u)) \in Nat /\ handled[u] \in Nat
    BY <1>0, <2>2, FS_CardinalityType
  <2>4. QED BY <1>0, <1>1, <2>1, <2>2, <2>3
<1>14. QED BY <1>5, <1>6, <1>7, <1>8, <1>11, <1>12, <1>13 DEF BotInv, Remembered

\* A bot just added: registered, with its webhook, and no request.
LEMMA BotInitInv == Init => BotInv
<1> SUFFICES ASSUME Init PROVE BotInv
  OBVIOUS
<1>1. PICK q \in Runs : q = [Ended EXCEPT !.pc = "new"]
  BY BotFirst DEF Runs, Calls
<1>2. q.pc = "new" /\ q.copy = FirstRow /\ q.form = FirstRow
  BY <1>1 DEF Ended
<1>3. Ended.pc = "done" /\ Ended.copy = FirstRow /\ Ended.form = FirstRow
  BY DEF Ended
<1>4. run = [r \in Requests |-> IF r \in Admins THEN q ELSE Ended]
  BY <1>1 DEF Init
<1>0. /\ row = FirstRow /\ wanted = FirstRow /\ registry = FirstToken /\ left \in BOOLEAN
       /\ hooks = {FirstToken} /\ seen = {} /\ forgotten = 0 /\ begun = 0 /\ trouble = 0
       /\ handled = [u \in Updates |-> 0]
  BY DEF Init
<1>5. BotTypes
  BY <1>4, <1>0, BotFirst, BotBoundsAssumption DEF BotTypes, StaleUsed
<1>6. SeenIsCapped
  BY <1>0, FS_EmptySet, BotBoundsAssumption DEF SeenIsCapped
<1>7. \A r \in Requests : /\ run[r].copy = FirstRow /\ run[r].form = FirstRow
                          /\ run[r].pc # "handle"
  BY <1>2, <1>3, <1>4
<1>8. (\A r \in Requests : CopyExists(r)) /\ \A d \in Deliveries : ~At(d, "handle")
  BY <1>7 DEF CopyExists, FirstRow, At, Requests
<1>9. Obeyed /\ Spoken /\ Hooked
  BY <1>7, <1>0 DEF Obeyed, Spoken, Hooked, FirstRow
<1>10. \A u \in Updates : Let(u) = {} /\ handled[u] = 0
  BY <1>8, <1>0 DEF Let
<1>11. Remembered
  BY <1>10, <1>0, FS_EmptySet DEF Remembered
<1>12. QED BY <1>5, <1>6, <1>8, <1>9, <1>11 DEF BotInv

\* The invariant of the row, the registry, the webhooks and the updates of a bot.
THEOREM BotInvariant == Spec => []BotInv
<1>1. BotInv /\ [Next]_vars => BotInv'
  <2> SUFFICES ASSUME BotInv, [Next]_vars PROVE BotInv'
    OBVIOUS
  <2>1. ASSUME NEW r \in Requests, Add(r) PROVE BotInv'
    BY <2>1, AddReadKeeps, AddRegisterKeeps, AddSetWebhookKeeps, AddSaveKeeps DEF Add
  <2>2. ASSUME NEW a \in Admins, Console(a) PROVE BotInv'
    BY <2>2, OpenKeeps, SaveStatusKeeps, TokenKeeps, SaveTokenKeeps, ReloadKeeps,
       SaveCardsKeeps, SoftDeleteKeeps, UnhookReadKeeps, UnhookCallKeeps, RemoveKeeps
       DEF Console, Unhook
  <2>3. ASSUME NEW d \in Deliveries, Endpoint(d) PROVE BotInv'
    BY <2>3, PostKeeps, MarkKeeps, HandleKeeps DEF Endpoint
  <2>4. CASE Startup
    BY <2>4, LoadActiveKeeps, RetryCallKeeps, RetryKeeps DEF Startup
  <2>5. CASE UNCHANGED vars
    <3>1. /\ row' = row /\ registry' = registry /\ hooks' = hooks /\ seen' = seen
          /\ run' = run /\ begun' = begun /\ wanted' = wanted /\ handled' = handled
          /\ forgotten' = forgotten /\ left' = left /\ trouble' = trouble
      BY <2>5 DEF vars
    <3>2. BotTypes' /\ SeenIsCapped' /\ Obeyed' /\ Spoken' /\ Hooked'
      BY <3>1 DEF BotInv, BotTypes, SeenIsCapped, Obeyed, Spoken, Hooked, Removing, Setting,
                  Unhooking, At
    <3>3. \A u \in Updates : Let(u)' = Let(u)
      BY <3>1 DEF Let, At
    <3>4. Remembered'
      BY <3>1, <3>3 DEF BotInv, Remembered
    <3>5. QED BY <3>1, <3>2, <3>4 DEF BotInv, CopyExists, At
  <2>6. QED BY <2>1, <2>2, <2>3, <2>4, <2>5, RestartKeeps DEF Next
<1>2. QED BY <1>1, BotInitInv, PTL DEF Spec

\* The types of the bot; markUpdateSeen never holds more updates than its cap.
THEOREM BotTypeCorrect == Spec => []TypeOK
<1>1. BotInv => TypeOK
  <2> SUFFICES ASSUME BotInv PROVE TypeOK
    OBVIOUS
  <2>1. \A r \in Requests : run[r] \in Runs
    BY DEF BotInv, BotTypes
  <2>2. QED BY <2>1 DEF BotInv, BotTypes, Runs, SeenIsCapped, TypeOK
<1>2. QED BY <1>1, BotInvariant, PTL

\* What the console last made of a bot's status, token and deletion outlives every
\* whole-row save of the form, of Add and of the retries (UpdateBot), unless a save failed
\* or used a stale copy: for any number of forms, posts and restarts.
THEOREM BotConsoleIsObeyed == Spec => []ConsoleIsObeyed
<1>1. BotInv => ConsoleIsObeyed
  BY DEF BotInv, BotTypes, Obeyed, ConsoleIsObeyed, StaleUsed, SaveFailed
<1>2. QED BY <1>1, BotInvariant, PTL

\* A bot at rest is registered under the token of its row, or under an older one that a
\* Reload which could not read the row left, and a deleted one not at all (Manager.Add,
\* Reload and Remove), whatever calls failed, unless a stale copy was used.
THEOREM BotRegistryFollowsRow == Spec => []RegistryFollowsRow
<1>1. BotInv => RegistryFollowsRow
  <2> SUFFICES ASSUME BotInv, Quiet, registry # None, trouble < StaleUsed
               PROVE  ~row.deleted /\ (registry = row.token \/ left)
    BY DEF RegistryFollowsRow
  <2>1. \A a \in Admins : ~Removing(a) /\ ~At(a, "reload")
    BY DEF Quiet, Running, Requests, Removing, At
  <2>2. QED BY <2>1 DEF BotInv, Spoken
<1>2. QED BY <1>1, BotInvariant, PTL

\* A bot at rest has its webhook exactly when it is active, while nothing went wrong.
THEOREM BotWebhookFollowsStatus == Spec => []WebhookFollowsStatus
<1>1. BotInv => WebhookFollowsStatus
  <2> SUFFICES ASSUME BotInv, Quiet, ~row.deleted, trouble = 0
               PROVE  row.token \in hooks <=> row.status = "active"
    BY DEF WebhookFollowsStatus
  <2>1. \A a \in Admins : ~Setting(a) /\ ~Unhooking(a)
    BY DEF Quiet, Running, Requests, Setting, Unhooking
  <2>2. row.status \in {"active", "disabled"}
    BY DEF BotInv, BotTypes, Rows
  <2>3. QED BY <2>1, <2>2 DEF BotInv, Hooked
<1>2. QED BY <1>1, BotInvariant, PTL

\* Telegram may repeat an update as often as it likes: it is handled once for every time
\* the seen updates were dropped, at the cap or by a restart, and once more.
THEOREM BotHandledOncePerMemory == Spec => []HandledOncePerMemory
<1>1. BotInv => HandledOncePerMemory
  <2> SUFFICES ASSUME BotInv, NEW u \in Updates PROVE handled[u] <= 1 + forgotten
    BY DEF HandledOncePerMemory
  <2>1. /\ IsFiniteSet(Let(u))
        /\ handled[u] + Cardinality(Let(u)) <= forgotten + (IF u \in seen THEN 1 ELSE 0)
        /\ handled[u] \in Nat /\ forgotten \in Nat
    BY DEF BotInv, BotTypes, Remembered
  <2>2. Cardinality(Let(u)) \in Nat
    BY <2>1, FS_CardinalityType
  <2>3. QED BY <2>1, <2>2
<1>2. QED BY <1>1, BotInvariant, PTL
=============================================================================
