------------------------------ MODULE EndUserRows ------------------------------
(***************************************************************************)
(* The end_users row beside the wallet: language, status and trial         *)
(* counters share the row with the balance.  The language callback         *)
(* (internal/telegram/manager.go handleCallback) and both trial handlers   *)
(* (requestTrial; internal/miniapp/api.go createTrial) load the row,       *)
(* change one column of their copy and save the WHOLE copy with            *)
(* UpdateEndUser, outside any transaction and without a lock.              *)
(* The wallet transactions of module WalletStore run in between.           *)
(***************************************************************************)
EXTENDS WalletStore

CONSTANTS
  Tasks,        \* the handler runs; each is a goroutine of its own
  MaxTrials,    \* the setting trial_max_per_user
  StoreFaults   \* whether a database call may fail

ASSUME MaxTrialsAssumption == MaxTrials \in Nat
ASSUME RowFaultsAssumption == StoreFaults \in BOOLEAN

VARIABLES
  profile,      \* the other columns of each customer's row
  pc,           \* the call each task makes next
  kind,         \* which handler a task runs
  owner,        \* the customer a task works for
  copy,         \* the row a task loaded
  order,        \* status of the order a trial created
  service,      \* trials with a services row
  told,         \* what a trial's customer was told
  unsaved,      \* history: trials delivered whose row was never saved
  overwritten,  \* history: customers whose row was saved from a stale copy
  ruling        \* history: the status an admin last gave each customer

taskVars == <<pc, kind, owner, copy, told>>
trialVars == <<order, service, unsaved>>
rowVars == <<profile, overwritten, ruling>>
customerVars == <<walletVars, taskVars, trialVars, rowVars>>

Langs == {"fa", "en"}

Profiles == [lang : Langs, status : {"active", "blocked"},
             trialCount : Nat, trialUsed : BOOLEAN]

Kinds == {"lang", "trialBot", "trialMini"}

NewProfile == [lang |-> "fa", status |-> "active", trialCount |-> 0, trialUsed |-> FALSE]

CustomersTypeOK ==
  /\ WalletTypeOK
  /\ profile \in [EndUsers -> Profiles]
  /\ pc \in [Tasks -> {"new", "lang", "check", "order", "provision", "reject",
                       "save", "mark", "done", "dead"}]
  /\ kind \in [Tasks -> Kinds]
  /\ owner \in [Tasks -> EndUsers]
  /\ copy \in [Tasks -> [balance : Nat, profile : Profiles]]
  /\ order \in [Tasks -> {"none", "approved", "provisioned", "rejected"}]
  /\ service \in SUBSET Tasks
  /\ unsaved \in SUBSET service
  /\ told \in [Tasks -> {"nothing", "user_blocked", "lang_switched",
                         "trial_already_used", "order_failed", "service_ready"}]
  /\ overwritten \in SUBSET EndUsers
  /\ ruling \in [EndUsers -> {"active", "blocked"}]

CustomersInit ==
  /\ WalletInit
  /\ profile = [u \in EndUsers |-> NewProfile]
  /\ pc = [t \in Tasks |-> "new"]
  /\ kind \in [Tasks -> Kinds]
  /\ owner \in [Tasks -> EndUsers]
  /\ copy = [t \in Tasks |-> [balance |-> 0, profile |-> NewProfile]]
  /\ order = [t \in Tasks |-> "none"]
  /\ service = {} /\ unsaved = {}
  /\ told = [t \in Tasks |-> "nothing"]
  /\ overwritten = {}
  /\ ruling = [u \in EndUsers |-> "active"]

-----------------------------------------------------------------------------
Row(u) == [balance |-> balance[u], profile |-> profile[u]]

GoTo(t, next) == pc' = [pc EXCEPT ![t] = next]

Answer(t, text) == GoTo(t, "done") /\ told' = [told EXCEPT ![t] = text]

\* A save that counts a trial on top of the counter it was given.
UpdateEndUserCountingTwice(t, new) ==
  LET u == owner[t]
  IN  /\ balance' = [balance EXCEPT ![u] = copy[t].balance]
      /\ profile' = [profile EXCEPT ![u] = [new EXCEPT !.trialCount = @ + 1]]
      /\ overwritten' = IF Row(u) = copy[t] THEN overwritten ELSE overwritten \cup {u}
      /\ UNCHANGED <<walletTx, payment, ruling>>

\* gorm's Save writes every column of the copy, changed or not, the balance too.
UpdateEndUser(t, new) ==
  LET u == owner[t]
  IN  /\ balance' = [balance EXCEPT ![u] = copy[t].balance]
      /\ profile' = [profile EXCEPT ![u] = new]
      /\ overwritten' = IF Row(u) = copy[t] THEN overwritten ELSE overwritten \cup {u}
      /\ UNCHANGED <<walletTx, payment, ruling>>

\* GetOrCreateEndUser of a customer who exists: the row the task will work with.
LoadUser(t) ==
  /\ pc[t] = "new"
  /\ \/ /\ copy' = [copy EXCEPT ![t] = Row(owner[t])]
        /\ GoTo(t, IF kind[t] = "lang" THEN "lang" ELSE "check")
        /\ UNCHANGED told
     \/ StoreFaults /\ Answer(t, "nothing") /\ UNCHANGED copy
  /\ UNCHANGED <<walletVars, kind, owner, trialVars, rowVars>>

Blocked(t) == copy[t].profile.status = "blocked"

\* Every handler looks at the status of its copy first.
RefuseBlocked(t) ==
  /\ pc[t] \in {"lang", "check"} /\ Blocked(t)
  /\ Answer(t, "user_blocked")
  /\ UNCHANGED <<walletVars, kind, owner, copy, trialVars, rowVars>>

\* The error of the save is dropped.
SwitchLang(t) ==
  /\ pc[t] = "lang" /\ ~Blocked(t)
  /\ \/ \E l \in Langs : UpdateEndUser(t, [copy[t].profile EXCEPT !.lang = l])
     \/ StoreFaults /\ UNCHANGED <<walletVars, rowVars>>
  /\ Answer(t, "lang_switched")
  /\ UNCHANGED <<kind, owner, copy, trialVars>>

\* A check that looks only at the setting, and lets one trial too many pass.
TrialSpentTooLate(t) == copy[t].profile.trialCount > MaxTrials

TrialSpent(t) ==
  copy[t].profile.trialCount >= MaxTrials \/ copy[t].profile.trialUsed

\* The handler also returns when trials are disabled, when the bot has no plan,
\* or when the plans cannot be read.
CheckTrial(t) ==
  /\ pc[t] = "check" /\ ~Blocked(t)
  /\ \/ TrialSpent(t) /\ Answer(t, "trial_already_used")
     \/ ~TrialSpent(t) /\ GoTo(t, "order") /\ UNCHANGED told
     \/ Answer(t, "nothing")
  /\ UNCHANGED <<walletVars, kind, owner, copy, trialVars, rowVars>>

CreateTrialOrder(t) ==
  /\ pc[t] = "order"
  /\ \/ order' = [order EXCEPT ![t] = "approved"] /\ GoTo(t, "provision") /\ UNCHANGED told
     \/ StoreFaults /\ Answer(t, "nothing") /\ UNCHANGED order
  /\ UNCHANGED <<walletVars, kind, owner, copy, service, unsaved, rowVars>>

\* A trial whose provisioning error is not looked at.
ProvisionTrialUnchecked(t) ==
  /\ pc[t] = "provision"
  /\ GoTo(t, "save")
  /\ \/ service' = service \cup {t} /\ unsaved' = unsaved \cup {t}
     \/ UNCHANGED <<service, unsaved>>
  /\ UNCHANGED <<walletVars, kind, owner, copy, told, order, rowVars>>

\* ProvisionOrder (its steps are those of module Checkout). When it fails the
\* bot handler goes on to reject the order, the mini app handler returns.
ProvisionTrial(t) ==
  /\ pc[t] = "provision"
  /\ \/ /\ service' = service \cup {t} /\ unsaved' = unsaved \cup {t}
        /\ GoTo(t, "save") /\ UNCHANGED told
     \/ /\ IF kind[t] = "trialBot" THEN GoTo(t, "reject") /\ UNCHANGED told
           ELSE Answer(t, "nothing")
        /\ UNCHANGED <<service, unsaved>>
  /\ UNCHANGED <<walletVars, kind, owner, copy, order, rowVars>>

RejectTrialOrder(t) ==
  /\ pc[t] = "reject"
  /\ \/ order' = [order EXCEPT ![t] = "rejected"]
     \/ StoreFaults /\ UNCHANGED order
  /\ Answer(t, "order_failed")
  /\ UNCHANGED <<walletVars, kind, owner, copy, service, unsaved, rowVars>>

\* The trial is marked used on the copy loaded before it was provisioned; the
\* error of the save is dropped.
SaveTrial(t) ==
  /\ pc[t] = "save"
  /\ GoTo(t, "mark")
  /\ \/ /\ UpdateEndUser(t, [copy[t].profile EXCEPT !.trialUsed = TRUE, !.trialCount = @ + 1])
        /\ unsaved' = unsaved \ {t}
     \/ StoreFaults /\ UNCHANGED <<walletVars, rowVars, unsaved>>
  /\ UNCHANGED <<kind, owner, copy, told, order, service>>

MarkTrialOrder(t) ==
  /\ pc[t] = "mark"
  /\ \/ order' = [order EXCEPT ![t] = "provisioned"]
     \/ StoreFaults /\ UNCHANGED order
  /\ Answer(t, "service_ready")
  /\ UNCHANGED <<walletVars, kind, owner, copy, service, unsaved, rowVars>>

Step(t) ==
  \/ LoadUser(t) \/ RefuseBlocked(t) \/ SwitchLang(t) \/ CheckTrial(t) \/ CreateTrialOrder(t)
  \/ ProvisionTrial(t) \/ RejectTrialOrder(t) \/ SaveTrial(t) \/ MarkTrialOrder(t)

\* An admin blocks or unblocks a customer: this update writes one column only.
SetEndUserStatus(u, s) ==
  /\ profile[u].status # s
  /\ profile' = [profile EXCEPT ![u].status = s]
  /\ ruling' = [ruling EXCEPT ![u] = s]
  /\ UNCHANGED <<walletVars, taskVars, trialVars, overwritten>>

Crash ==
  /\ \E t \in Tasks : pc[t] \notin {"new", "done", "dead"}
  /\ pc' = [t \in Tasks |-> IF pc[t] \in {"new", "done"} THEN pc[t] ELSE "dead"]
  /\ UNCHANGED <<walletVars, kind, owner, copy, told, trialVars, rowVars>>

OtherWalletStep == WalletNext /\ UNCHANGED <<taskVars, trialVars, rowVars>>

CustomersNext ==
  \/ \E t \in Tasks : Step(t)
  \/ \E u \in EndUsers, s \in {"active", "blocked"} : SetEndUserStatus(u, s)
  \/ OtherWalletStep
  \/ Crash

CustomersSpec == CustomersInit /\ [][CustomersNext]_customerVars

-----------------------------------------------------------------------------
Trials(u) == {t \in service : owner[t] = u}

\* Whatever is overwritten, no balance is invented: it is one the customer's
\* wallet_tx rows say the customer had.
BalanceWasReal ==
  \A u \in EndUsers :
    balance[u] \in {0} \cup {walletTx[u][i].after : i \in DOMAIN walletTx[u]}

\* Saving a stale copy is the only way a row goes wrong. While none of a
\* customer's saves came from a copy that had changed meanwhile, wallet_tx explains
\* the balance, the status is what an admin last set, every trial whose save
\* succeeded is counted, and at most one was.
OnlyStaleCopiesHarm ==
  \A u \in EndUsers \ overwritten :
    /\ L!Chained(walletTx[u]) /\ L!Explained(walletTx[u], balance[u])
    /\ profile[u].status = ruling[u]
    /\ profile[u].trialCount = Cardinality(Trials(u) \ unsaved)
    /\ Cardinality(Trials(u) \ unsaved) <= 1

\* Even when copies overwrite each other, a customer is never counted more trials
\* than were delivered, and the two trial columns say the same.
TrialsNeverOvercounted ==
  \A u \in EndUsers :
    /\ profile[u].trialCount <= Cardinality(Trials(u))
    /\ profile[u].trialUsed <=> profile[u].trialCount > 0

\* Whatever is overwritten, no money and no trial is invented.
NothingInvented == BalanceWasReal /\ TrialsNeverOvercounted

\* A trial's order tells what came of it: provisioned has its service, rejected
\* has none, and the customer is told the one or the other.
TrialOrderTellsOutcome ==
  \A t \in Tasks :
    /\ order[t] = "provisioned" => t \in service
    /\ order[t] = "rejected" => t \notin service
    /\ told[t] = "service_ready" => t \in service
    /\ told[t] = "order_failed" => t \notin service
=============================================================================
