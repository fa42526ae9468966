------------------------------ MODULE SalesQuota ------------------------------
(***************************************************************************)
(* How an agent's accounts on one panel come into being: sold by hand under*)
(* the limit agent_panels.max_users, created by the master, sold by a bot, *)
(* or attached by the master to a user the panel already has                *)
(* (internal/sales/service.go, internal/web/agent_access.go).              *)
(*                                                                         *)
(* CreatePanelAccount counts the agent's active services, creates the user  *)
(* on the panel, then inserts the row: three calls with no lock and no     *)
(* transaction.                                                            *)
(* What happens to a service later is ServiceLifecycle's; here each such    *)
(* operation is one step, for its effect on the count.                      *)
(***************************************************************************)
EXTENDS Integers, FiniteSets

CONSTANTS
  Accounts,   \* usernames on the panel; creations use fresh ones
  NoAccount,  \* the account of a run that has none
  Runs,       \* requests and bot purchases under way
  Limits      \* the values of max_users considered; 0 is no limit

ASSUME AccountsAssumption == IsFiniteSet(Accounts) /\ NoAccount \notin Accounts
ASSUME RunsAssumption == IsFiniteSet(Runs)
ASSUME LimitsAssumption == Limits \subseteq Nat

VARIABLES
  maxUsers,    \* agent_panels.max_users
  row,         \* the services row of each account
  onPanel,     \* the accounts that are users of the panel
  run,         \* what each run does next
  created,     \* history: the accounts with a row from a creation that was counted
  reactivated, \* history: those of them that became active again later
  attached,    \* history: the accounts whose row an attachment inserted
  limits,      \* history: the values max_users has had
  overlapped   \* history: a creation was let through while another was under way

vars == <<maxUsers, row, onPanel, run, created, reactivated, attached, limits, overlapped>>
history == <<created, reactivated, attached, limits, overlapped>>

Ops == {"create", "master", "sale", "attach"}
Calls == {"load", "count", "panel", "insert", "undo", "exists", "attach"}

RunStates == [pc : Calls \cup {"idle"}, op : Ops \cup {"none"},
              account : Accounts \cup {NoAccount}, limit : Nat]

Idle == [pc |-> "idle", op |-> "none", account |-> NoAccount, limit |-> 0]

TypeOK ==
  /\ maxUsers \in Limits
  /\ row \in [Accounts -> {"none", "active", "inactive"}]
  /\ onPanel \subseteq Accounts
  /\ run \in [Runs -> RunStates]
  /\ \A j \in Runs : run[j].pc # "idle" => run[j].account \in Accounts
  /\ created \subseteq Accounts /\ reactivated \subseteq Accounts
  /\ attached \subseteq Accounts
  /\ limits \subseteq Limits /\ maxUsers \in limits
  /\ overlapped \in BOOLEAN

\* The panel may have users that hodhod does not know.
Init ==
  /\ maxUsers \in Limits
  /\ row = [a \in Accounts |-> "none"]
  /\ onPanel \in SUBSET Accounts
  /\ run = [j \in Runs |-> Idle]
  /\ created = {} /\ reactivated = {} /\ attached = {}
  /\ limits = {maxUsers}
  /\ overlapped = FALSE

----------------------------------------------------------------------------
At(j, c) == run[j].pc = c
Op(j) == run[j].op
Account(j) == run[j].account

Goto(j, c) == run' = [run EXCEPT ![j].pc = c]
Finish(j) == run' = [run EXCEPT ![j] = Idle]

HasRow(a) == row[a] # "none"
Fresh(a) == ~HasRow(a) /\ a \notin onPanel /\ \A j \in Runs : Account(j) # a

\* CountServicesByAgentPanel.
ActiveCount == Cardinality({a \in Accounts : row[a] = "active"})

\* A run that was let through the limit and has not inserted its row yet.
LetThrough(j) == Op(j) = "create" /\ run[j].pc \in {"panel", "insert"}

\* A creation by the agent or by the master, under a fresh name (a taken one the panel
\* refuses), or ProvisionFromOrder of a bot sale.
StartCreation(j, o, a) ==
  /\ At(j, "idle") /\ Fresh(a)
  /\ run' = [run EXCEPT ![j] = [pc |-> IF o = "sale" THEN "panel" ELSE "load",
                                op |-> o, account |-> a, limit |-> 0]]
  /\ UNCHANGED <<maxUsers, row, onPanel, history>>

\* attachPanelUsersToAgent, for a user on the panel's list; one run for each user.
StartAttach(j, a) ==
  /\ At(j, "idle") /\ a \in onPanel
  /\ run' = [run EXCEPT ![j] = [pc |-> "exists", op |-> "attach", account |-> a, limit |-> 0]]
  /\ UNCHANGED <<maxUsers, row, onPanel, history>>

\* Mutant: the agent's creations skip the count as the master's do.
LoadSkipsCount(j) ==
  /\ At(j, "load")
  /\ run' = [run EXCEPT ![j].limit = maxUsers, ![j].pc = "panel"]
  /\ UNCHANGED <<maxUsers, row, onPanel, history>>

\* loadCreateScope reads the agent's terms; SkipAgentQuota leaves the count out.
Load(j) ==
  /\ At(j, "load")
  /\ run' = [run EXCEPT ![j].limit = maxUsers,
                        ![j].pc = IF Op(j) = "master" THEN "panel" ELSE "count"]
  /\ UNCHANGED <<maxUsers, row, onPanel, history>>

\* Mutant: the limit itself is let through.
CountOffByOne(j) ==
  /\ At(j, "count")
  /\ IF run[j].limit > 0 /\ ActiveCount > run[j].limit
       THEN Finish(j) /\ UNCHANGED overlapped
       ELSE /\ Goto(j, "panel")
            /\ overlapped' = (overlapped \/ \E k \in Runs \ {j} : LetThrough(k))
  /\ UNCHANGED <<maxUsers, row, onPanel, created, reactivated, attached, limits>>

\* enforceQuota.
Count(j) ==
  /\ At(j, "count")
  /\ IF run[j].limit > 0 /\ ActiveCount >= run[j].limit
       THEN Finish(j) /\ UNCHANGED overlapped
       ELSE /\ Goto(j, "panel")
            /\ overlapped' = (overlapped \/ \E k \in Runs \ {j} : LetThrough(k))
  /\ UNCHANGED <<maxUsers, row, onPanel, created, reactivated, attached, limits>>

\* CreateUser; a name the panel has already is an error.
CreateUser(j) ==
  /\ At(j, "panel") /\ Account(j) \notin onPanel
  /\ onPanel' = onPanel \cup {Account(j)}
  /\ Goto(j, "insert")
  /\ UNCHANGED <<maxUsers, row, history>>

\* CreateService: one row for each user of the panel (migration 000014).  The master's
\* page goes on to attach the user.
Insert(j) ==
  /\ At(j, "insert")
  /\ IF HasRow(Account(j))
       THEN Goto(j, "undo") /\ UNCHANGED <<row, created>>
       ELSE /\ row' = [row EXCEPT ![Account(j)] = "active"]
            /\ created' = IF Op(j) = "create" THEN created \cup {Account(j)} ELSE created
            /\ IF Op(j) = "master" THEN Goto(j, "exists") ELSE Finish(j)
  /\ UNCHANGED <<maxUsers, onPanel, reactivated, attached, limits, overlapped>>

\* The row was not inserted: DeleteUser takes the user back.
Undo(j) ==
  /\ At(j, "undo")
  /\ onPanel' = onPanel \ {Account(j)}
  /\ Finish(j)
  /\ UNCHANGED <<maxUsers, row, history>>

\* ServiceExistsByPanelUsername, after the grant.
Exists(j) ==
  /\ At(j, "exists")
  /\ IF HasRow(Account(j)) THEN Finish(j) ELSE Goto(j, "attach")
  /\ UNCHANGED <<maxUsers, row, onPanel, history>>

\* The row is inserted even when GetUser finds no user; a row that is there by now makes
\* it fail, and the error is dropped.
Attach(j) ==
  /\ At(j, "attach")
  /\ IF HasRow(Account(j))
       THEN UNCHANGED <<row, attached>>
       ELSE /\ row' = [row EXCEPT ![Account(j)] = "active"]
            /\ attached' = attached \cup {Account(j)}
  /\ Finish(j)
  /\ UNCHANGED <<maxUsers, onPanel, created, reactivated, limits, overlapped>>

\* Mutant: any error takes the user back, that of the attachment included.
FailAlwaysUndoes(j) ==
  /\ ~At(j, "idle")
  /\ IF run[j].pc \in {"insert", "exists"} THEN Goto(j, "undo") ELSE Finish(j)
  /\ onPanel' = onPanel
  /\ UNCHANGED <<maxUsers, row, history>>

\* A call fails.  CreateUser may fail with the user made, and then nothing is undone.
Fail(j) ==
  /\ ~At(j, "idle")
  /\ IF At(j, "insert") THEN Goto(j, "undo") ELSE Finish(j)
  /\ \/ onPanel' = onPanel
     \/ At(j, "panel") /\ onPanel' = onPanel \cup {Account(j)}
  /\ UNCHANGED <<maxUsers, row, history>>

Step(j) ==
  \/ Load(j) \/ Count(j) \/ CreateUser(j) \/ Insert(j) \/ Undo(j)
  \/ Exists(j) \/ Attach(j) \/ Fail(j)

Crash ==
  /\ run' = [j \in Runs |-> Idle]
  /\ UNCHANGED <<maxUsers, row, onPanel, history>>
----------------------------------------------------------------------------
\* postAgentPanel, postPanelAgent: the master sets the agent's limit.
SetLimit(n) ==
  /\ n # maxUsers
  /\ maxUsers' = n
  /\ limits' = limits \cup {n}
  /\ UNCHANGED <<row, onPanel, run, created, reactivated, attached, overlapped>>

\* A service is disabled, or expires: it no longer counts.
Deactivate(a) ==
  /\ row[a] = "active"
  /\ row' = [row EXCEPT ![a] = "inactive"]
  /\ UNCHANGED <<maxUsers, onPanel, run, history>>

\* SetEnabled, or a renewal on 3x-ui, makes it active again; nothing is counted.
Reactivate(a) ==
  /\ row[a] = "inactive"
  /\ row' = [row EXCEPT ![a] = "active"]
  /\ reactivated' = IF a \in created THEN reactivated \cup {a} ELSE reactivated
  /\ UNCHANGED <<maxUsers, onPanel, run, created, attached, limits, overlapped>>

\* DeleteService.
Delete(a) ==
  /\ HasRow(a)
  /\ row' = [row EXCEPT ![a] = "none"]
  /\ onPanel' = onPanel \ {a}
  /\ created' = created \ {a}
  /\ reactivated' = reactivated \ {a}
  /\ attached' = attached \ {a}
  /\ UNCHANGED <<maxUsers, run, limits, overlapped>>

Next ==
  \/ \E j \in Runs : \/ \E a \in Accounts : \/ \E o \in Ops \ {"attach"} : StartCreation(j, o, a)
                                          \/ StartAttach(j, a)
                    \/ Step(j)
  \/ \E n \in Limits : SetLimit(n)
  \/ \E a \in Accounts : Deactivate(a) \/ Reactivate(a) \/ Delete(a)
  \/ Crash

Spec == Init /\ [][Next]_vars
----------------------------------------------------------------------------
\* The services sold under the limit and active since.
Sold == {a \in created \ reactivated : row[a] = "active"}
Selling == {j \in Runs : LetThrough(j)}

\* Some limit the agent has had is not exceeded by n.
Within(n) == 0 \in limits \/ \E l \in limits : n <= l

\* The limit is checked before the panel is called and the row inserted, so creations
\* that overlap may exceed it; but never by more than the other requests under way.
OverrunIsBounded == 0 \in limits \/ \E l \in limits : Cardinality(Sold) < l + Cardinality(Runs)

\* One creation after the other keeps the limit, whatever fails and whatever else the
\* master, the bots and the expiry check do to the agent's services meanwhile.
QuotaKept == overlapped \/ Within(Cardinality(Sold))

\* The limit holds as far as a check before the creation can hold it.
QuotaHolds == OverrunIsBounded /\ QuotaKept

\* What takes a creation back deletes the panel user of no service, except of one that
\* an attachment made of the half-created account.
UndoSparesServices ==
  [][\A a \in onPanel \ onPanel' : row'[a] # "none" => a \in attached]_vars

=============================================================================
