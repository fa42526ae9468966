# A TLA+ model of hodhod

hodhod sells VPN subscriptions through Telegram bots and a Telegram mini app.
A master admin runs VPN panels (Marzban, 3x-ui) and lends them to agents; an
agent runs bots and sells by hand; customers hold a wallet in toman, top it up
by bank card with a manually reviewed receipt, and buy plans.  One Go process
serves the web panel, the bots' webhooks, the mini app and a cron scheduler over
one PostgreSQL database.

The modules here are translated from the Go code under `src/internal`.  TLC
checks them on small instances; TLAPS proves the theorems for every instance.

## Inventory

| Component | State | Operations | Hard part | What makes it correct |
|---|---|---|---|---|
| wallet store `db/repo.go`, `billing/wallet.go` | `end_users.balance_toman`, `wallet_tx`, `payments` | credit, debit, approve, reject, adjust | several admins and handlers at once | no negative balance; the history explains every balance; a payment is credited exactly once |
| checkout `billing/orders.go`, `telegram/manager.go` `buyPlan`, `miniapp/api.go` `createOrder`, `sales/service.go` `ProvisionFromOrder` | orders, services, panel users, a mutex per customer | buy from the wallet | no transaction spans debit, order, panel and service; each call may fail, be cancelled or be cut off by a crash | a charge is answered by the service or by one refund |
| payment review `billing/review.go`, `web/handlers_auth.go`, bot callbacks | payments, orders, services, messages | submit a receipt, approve, reject, compensate, notify | concurrent reviewers; provisioning after commit | one credit or one service per receipt; verdicts stand; rows agree |
| customer rows and trials `db/repo.go` `UpdateEndUser`, `requestTrial`, `createTrial` | the `end_users` row | language, trial, block | whole-row saves of copies loaded earlier | the wallet and the block survive; one trial |
| agents' sales `sales/service.go` | services, agent quotas, panel users | create, renew, enable, reset, delete | check-then-create; panel and row disagree | quota kept; the row follows the panel |
| scheduler `scheduler/scheduler.go` | services, warning marks | poll usage, warn, expire, back up | whole-row saves against renewals and deletes; jobs overlap | no renewal undone, no deleted service back, one warning per level |
| bot manager `telegram/manager.go` | bots in memory, updates seen, webhook state | add, remove, reload, dispatch, retry | registry against database; at-most-once updates | a deleted bot is not served; an update is handled once |
| panel registry and clients `panels/` | cached clients, tokens | get, invalidate, panel calls | cache filled after an invalidation | no stale credentials |
| backups `backup/service.go` | backup rows and files | run, prune | failed rows count; name collisions; files and rows change in separate calls | a listed backup has its file; a good one remains |
| bot configuration `botconfig/` | cards, settings, bots | pick a card, adjust, delete a bot | counters read from a cached record | the rotation is fair; no bot with services is deleted |
| panel user lists `web/list_panel_accounts.go`, `panel_users_merge.go`, `pagination.go` | none: joins the panel's accounts and the store's services | merge, filter, page | two sources read at different moments; pages of an arbitrary order | every account is found; badges are true; an agent sees what it may |
| agent access `web/agent_access.go`, `db/repo_grants.go`, `handlers_agent_customers.go` | assignments, permissions, user and inbound grants | save the access form, attach, create, modify, disable | forms saved after their data changed; permission, assignment and grant checked one by one, and not the same ones on every way | stored grants are what the master decided; every change rests on what its way asks for |
| web panel `web/` | sessions, rate limits | log in, change and reset passwords, suspend | status checked once; sessions swept in a separate write | sessions follow the password; suspended agents stay out |
| domains `domains/verify.go`, `db/repo_domains.go` | the agent's domain, token, verification and switch | set, verify, switch | domain replaced during the look-up | a live domain is proven and its agent's |
| panel settings `panelsettings/` | a JSON list in one row | save, delete a template | read-modify-write | no template lost |
| configuration, crypto, HTTP client, texts, logging, start-up | | | | |

Components meet in the database (rows are the only shared state except the
manager's maps and mutexes), in direct calls (handlers call billing and sales,
which call the store and a panel client), and in the request context: an HTTP
request that goes away cancels every later database and panel call of its
handler.

`PROJECT.json` lists every component with its status and the hazards of the code
at their lines, with the properties that watch them.

## Modules

```
Ledger            what a wallet promises             WalletStoreProofs
  ^ refines
WalletStore       the wallet transactions            WalletStoreProofs
  ^ extends
Checkout          buying from the wallet  --refines--> Purchase     CheckoutProofs
PaymentReview     receipts and their reviews         PaymentReviewProofs
EndUserRows       the rest of the customer's row     TelegramProofs
ServiceLifecycle  a sold service: row and panel      ServiceLifecycleProofs
SalesQuota        an agent's accounts and their limit AgentProofs
BotManager        a bot: row, registry, webhooks, updates  TelegramProofs
Pagination        pages of a list                    AgentProofs
AgentVisibility   what an agent may see and do       AgentProofs
  ^ both extended by
UserLists         lists joined from panel and store  AgentProofs
  ^ AgentVisibility is extended by
AgentAccess       grants, who writes them, what they cover  AgentProofs
PanelAccess       a panel's client: cache, edits, calls PanelAccessProofs
ConsoleAccess     logins, sessions, domains           ConsoleAccessProofs
```

Each run has a module `MC<Module>` that gives the constants their values; the
`.cfg` of the same name lists what is checked.  `told_refunded` uses `MCCheckout`.

**Ledger.**  The abstract wallet: a balance and a history per customer; a step
posts a signed amount that keeps the balance a natural number.

**WalletStore.**  One action per store transaction, atomic because the code locks
the row it reads (`SELECT ... FOR UPDATE`) and rolls back on an error.
`balance`, `walletTx` and `payment` are the column and the two tables.  A
`wallet_tx` row keeps delta, balance after, and a *memo* (reason and reference).
`DebitWallet` is not enabled where the code returns `ErrInsufficientBalance`.

**Purchase.**  What a customer is promised of a purchase: open, charged, then
delivered or refunded, never both.

**Checkout.**  Each request is a goroutine whose `pc` names its next call.  Both
channels run the same calls; they differ where the code does: the bot takes the
customer's mutex and reads the row under it, the mini app does neither; the bot
tells the customer of a failure, the mini app answers an error.  `cancelled` is
the cancelled context: every later call fails, compensation included.  The panel
call may succeed, fail, or fail after creating the user.  `failed` is a history
variable: the calls whose error the code drops.  `Crash` ends all goroutines and
frees the in-memory mutexes.

**PaymentReview.**  Receipts are submitted as the code does (one write for a
top-up, two for a plan) and reviewed by concurrent reviews, from the web panel or
the bot.  `ProvisionOrder` is one step that succeeds or fails.  Reviews from the bot
carry reviewer 0, which `payments.reviewed_by REFERENCES admins(id)` refuses
(`KnownReviewer`).

**EndUserRows.**  The handlers that load the customer's row, change a column and save
the whole copy, interleaved with wallet transactions and with `SetEndUserStatus`,
which writes its column only.  `overwritten` is a history variable: the
customers whose row was saved from a copy that had changed meanwhile.

**ServiceLifecycle.**  One services row (`row`) and its panel user (`user`) under
the agents' and admins' requests and the two cron jobs.  A *run* is a goroutine of
one of them: `op` says which, `pc` is its next database or panel call, `copy` the row it
loaded, `info` the user it last read.  `Save` writes the whole copy, as GORM's `Save`
does, which inserts a deleted row again.  `kind` picks the panel client: Marzban
changes the fields it is sent and reports the status; the 3x-ui client replaces the
whole client and always reports it enabled.  `Fail` is any call's failure, with what
the code does about it.  `raced` and `broken` are history variables that mark the two
ways in which row and panel come apart: a run acted on a copy that was no longer
true (or beside a run that had not yet written what it did), and a run ended between
changing one side and the other (or del-depleted removed users whose rows stay).
`repeated` marks a warning sent twice.  Left out: the panel's own suspension of used-up
or expired users, services without an expiry or without a limit, and
`RefreshUsage`, which nothing calls.

**SalesQuota.**  The accounts of one agent on one panel: `row` and `onPanel` are the
services table and the panel.  A *run* is a creation by hand (`create`: counted,
then the panel call, then the row), a creation by the master from the panel's page
(`master`: not counted, attached afterwards), a bot's sale, or an attachment of a user the
panel already has.  `maxUsers` changes while runs are under way; each run carries the
`limit` it loaded.  Disabling, expiry, re-activation and deletion are one step
each: `ServiceLifecycle` shows their calls.  `created`, `reactivated` and `attached` are
histories of how rows became active, `limits` of the limits set, `overlapped` of a
creation let through beside another.  Left out: `expiry_cap_days` (a check of the request
alone), `quota_bytes` (nothing in the code sets it), inbound grants, and two runs given
the same name by hand.  An attachment may find the user of a creation that has not
inserted its row: its own row then makes that creation fail, and the creation deletes the
user the new row stands for.  `UndoSparesServices` says that this is the only way in
which an undone creation harms a service.

**BotManager.**  One bot, with its `row` (status, token, deletion mark), its entry in the
manager's `registry`, the `hooks` set at Telegram and the `seen` updates.  The requests are
the settings form and the deletion (`Console`), posts of Telegram (`Endpoint`) and the
start-up with its retries (`Startup`); `Add` is shared by all three.  Each read, save, registry access and
network call is a step (`getMe` and the registration it allows are one), and each save
and call may fail.  The form's values and the name of
an update are chosen where they are first used.  `wanted` is what the console last asked for, and `trouble` the worst that has gone wrong; each property names what it excuses, so the run
shows that nothing else makes row, registry and webhook come apart.  Each read of the row may fail,
and does what the code then does: `blank` is a form without a row, whose saves write nothing, and `left` the
old entry that `Reload` leaves when it cannot read the row.  The retries of a request
are left out: they run under its context, which is cancelled before the first one, so
all their calls fail; those of the start-up are modelled.  Left out too: the webhook error and the card
columns of the row, creation of the bot and its limit, and what `handle` does with an
update (`Checkout`, `PaymentReview`, `EndUserRows`).

**Pagination, AgentVisibility.**  Operators only.  `Pagination` is the arithmetic of
`web/pagination.go` and of the pages cut in memory.  `AgentVisibility` is which accounts an
agent sees (its services, its grants, the accounts on inbounds it may view) and which of
them it may change (`web/agent_access.go`).

**UserLists.**  A reader opens a list with a filter and turns its pages; `world` is what the
panel and the store hold, and may change between any two steps.  A request is two steps: what it
reads of the store, then the panel's answer and the page shown.  Panel and store may each fail to
answer.  Some of these errors the code shows (`ListFails`), the others it drops and makes the page
without what it asked for: `told` is false when the services were not read, and `answered` when any
page of the walk was made without an answer it needed.  `ListUsers` gives the
answers of the four ways in which a panel lists its accounts: page by page, all
clients, collected from the inbounds (in the order of a Go map, so any order), and
Marzban's, cut at `Cap` (1000 in the code).  A list is a function on places: filtering it
(`Passing`) or cutting a page from it (`PageOf`) restricts the function, and a row's number
is its `Rank` among the places that are left.  `order` gives each place its account and the
inbounds it is listed for, so a panel that lists an account once per inbound has several
places for it (`Dedupe` makes them one row).  `MergeService`, `MatchesFilter`,
`LocalPages` and `PanelPages` are the merge, the filter and the two ways of cutting
pages.  A page cut from merged rows is any subset of the right size, because each request walks
its Go map anew.  `AgentPages` is the same for an agent's own list.  Left out: traffic and
expiry columns, sorting, and what a link carries besides its page (the pages linked are `PageNumbers`).

**AgentAccess.**  The master's requests (`MasterRuns`) render a form, tick it and save it;
`shown` and `ticks` are what the form was rendered with and what the master made of it.
Saving is as many steps as the code has calls: the assignment, the inbound grants in one
transaction, then the rows to keep are read, then replaced in one transaction.
Attaching an inbound, an account of the list or a new account goes through
`AttachAccount` and `Adopt` for each account.

An agent (`AgentRuns`) changes accounts on two ways.  The pages of a panel (`StartChange`) read
permission, then assignment, services and grants (`LookUp`), then the permissions again
(`Judge`).  The routes of a service (`StartServiceChange`: `/services/{id}` and `/customers/{id}`) ask for
the permission of the operation and for the service (`FindService`), and for nothing else.  Both then
change the account on the panel (`Act`) and save the service's row whole (`ReadRow`, `SaveRow`), which
brings back a row deleted meanwhile; a deletion takes the account and then the row (`DeleteRow`).  A
creation reads the assignment with the `scope` it may still carry from before there were
inbound grants (`LoadScope`), then the grants, and takes the scope when no grant lets the agent
create (`Creatable`).  `wish` and `wishIn` are histories of what the master last
decided of each account and inbound; `clouded` marks the decisions that a stale form, a form
rendered without the grants, a race or a name with an underscore spoilt; `held` collects what was true since an agent's
request began.  Left out: the quota and the undo of a creation (`SalesQuota`), the values a
modification writes (`ServiceLifecycle`), and what the master does to a service besides deleting it.

**PanelAccess.**  One panel's row, the client the registry has cached for it, and the
requests that use either.  `Lookup`, `ReadPanel` and `Insert` are the registry's `Get`, with the
row read outside the lock.  `SavePanel` writes the whole row and `Invalidate` drops the
client.  A backup downloads, opens a file named after the second (`clock`), fills it, inserts a row,
reads how many rows to keep (`Retentions`, since a failed reading counts as the default), lists the
rows, and for each prunable one removes the file (`RemoveFile`) and then the row (`DeleteRow`); each
step may fail in the way the code answers, and the process may die between any two.  A call (`StartCall`) logs in, sends, may be lost or refused, and is repeated as
`doLocked` of the 3x-ui client and `do` of the Marzban client do; `applied` counts how
often the panel carried it out.  `stale`, `shared`, `orphaned` and `displaced` are histories: a client cached
after its row had changed, file names used twice, names whose file a pruning removed and whose row
it has not deleted, and a good backup that failed rows pushed out.  `Crash` empties the cache and ends all requests.

**ConsoleAccess.**  Logins on the platform's host or an agent's, the agents' own changes of
password, resets, suspensions, and the domain forms.  A password is the number of the change that
set it and a token the number of the domain change it came with, so "the same password" is
equality.  Each request reads, decides and writes in separate steps; marks on the
run (`late`, `raced`, `moved`, `before`) record what overtook it, and `spoilt` the agents whose
sweep of sessions failed or whose domain was marked out of turn.  What DNS answers is
arbitrary.  A crash is a request that ends before its next write, as its failing steps do.  Left out:
the rate limiter, the CSRF check and the random session ids.

## Runs

| Run | Bounds | Shows |
|---|---|---|
| `wallet_store` | 2 customers, 2 payments, amounts 0-2, 2 adjustments each | wallet safety and refinement of `Ledger` |
| `checkout` | 1 customer who can afford one purchase, 2 requests, 1 adjustment | purchase safety, refinement of `Purchase` and `Ledger`, termination |
| `payment_review` | 2 customers, 1 receipt, 2 reviews | review safety, settled approvals |
| `end_user_rows` | 1 customer, 2 handler runs, up to 3 history rows | what stale saves can and cannot break |
| `services` | 1 service on either panel, 3 runs of any operation, 2 at a time, 2 days, 2 units of traffic | what survives every race, and that only races and cut-off runs make row and panel disagree |
| `sales_quota` | 3 accounts, 2 runs, limits 1 and 2 | by how much creations exceed the limit, when they keep it, what undoing one deletes |
| `bot_manager` | 1 bot, 2 tokens, any 3 of: 2 console requests, posts of 2 updates, restarts; a cap of 1 update, 1 retry | what it takes for row, registry and webhook to disagree; updates handled once |
| `user_lists` | 3 accounts in pages of 2, Marzban answers at most 2, 2 agents, 2 inbounds, 21 readers (master or agent, each with a filter), 1 change during a walk | who finds every account, which badges hold, what an agent sees, when panel and store answer and when not |
| `agent_access` | 1 agent, 2 accounts (one with an underscore), 1 inbound, 2 browsers of the master and 1 of the agent, 2 requests, 1 change nobody here asked for, 5 of 7 permissions | stored grants are the master's decisions; what covers each change of an agent, on the pages and on the service routes |
| `panel_access` | 1 panel, 2 addresses, 2 requests at a time and 3 in all, each pruning keeps 1 or 2 backups, 2 seconds, 2 refusals of a call, 1 crash | the cached client follows the row, backups have their files, changes are made at most once |
| `console_access` | 2 agents, 1 domain, 2 requests at a time, 4 requests or forms in all | sessions follow the password, a reset stands, a live domain is proven, who is let in |
| `told_refunded` | as `checkout` | *violated*: told of a refund that failed |

The bounds are small because the properties relate at most two actors of one
customer: two purchases that compete for the money of one, two reviews of one
receipt, a stale copy and the write it overwrites.  More customers add rows that do
not touch each other (each transaction locks and writes one customer's row);
`wallet_store` and `payment_review` keep two to see a credit that reaches the
wrong one.  In `services` three runs let a race of two follow or precede a complete third
(disable, renew, poll), and `PlanDays = 0` puts the last day and the expired
day within two days.  In `sales_quota` two runs
are what it takes to overlap, and three accounts are what two runs over a limit of one
must not all fill.  In `bot_manager` two requests race and a third event follows, or
three updates pass a cap of one.  In `user_lists` a third account fills a page, so that the
two whose states vary meet on one page and across two; one change is what makes two
readings differ.  In `agent_access` two requests overlap, two of the master or one of each side, on
an assigned and a fresh panel, with a right to create that comes from a grant, from the scope, or from
neither; the permissions to add volume and to reset usage are left out, because the code treats them
like those to add time and to disable.  In `panel_access` three requests are an edit in the middle of a
lookup that another lookup follows, or a success, a failure and a pruning that
keeps one row, beside another that keeps two.  In `console_access` four are a log-in, a change of password, a reset and one more log-in, or a
domain taken, given to another agent and verified in between.  The symmetry over runs, accounts,
addresses and agents is sound: no property and no initial state names one.
`MaxTx` bounds the number of adjustments, `MaxStarts`, `MaxBegun` and `MaxChanges` what may
begin or change: nothing else could repeat for ever.  The theorems remove these bounds where they exist.

All runs switch deadlock checking off: a system in which every request is answered
and the bounds are reached has nothing left to do.

**Fairness.**  `FairSpec` asks that a running handler takes its next step
(`WF` of its steps only).  Go schedules its goroutines, database calls end with the
request context, panel calls have HTTP timeouts.  Nothing is asked of
customers, admins, clients or crashes.  A request waiting for the mutex needs no
more than weak fairness in a purchase that ends, because each holder gives it
up for good.

**Assumptions.**  A failed transaction was rolled back (a commit whose
acknowledgement is lost is not modelled).  Only one server process runs, as the
deployment files start it, so the purchase mutex is shared by all bot handlers.
Every modelled call may fail when `StoreFaults` is TRUE.

## What the code does that its texts do not say

`ToldRefundedIsRefunded` has a run of its own.  `buyPlan` drops the error of the refund and still
sends `order_failed`, "Order failed and the amount was refunded to your wallet."

The properties of the other runs name the exceptions under which they hold, and each
exception is something the code does.

*Payments and customers.*  A language switch or a trial saves the row it loaded earlier,
balance, block and trial counter included, over whatever was written meanwhile: a wallet
transaction is undone, or two trials are had (`OnlyStaleCopiesHarm`).  A reviewer in the bot carries
id 0, which the foreign key of `reviewed_by` refuses: the approver reads "Rejected" and the payment
stays pending; approvals fail the same way.  A rejected card payment is told with the refund
text although no wallet was charged (`manager.go:600`, `handlers_auth.go:247`).  An approved
plan payment whose service is missing is told "Wallet top-up approved."
`trial_max_per_user` above 1 has no effect, for `trial_used_at` alone refuses the second
trial (`manager.go:774`, `api.go:234`).

*Services.*  `GetUser` of the 3x-ui client reports every user as enabled, so disabling a service writes
"active" into its row, and later updates enable the user again.  `max_users` counts active
services and enabling one counts nothing: disable, create and enable again exceeds the
limit without any race (`QuotaHolds`).

*Bots.*  The webhook of a deleted bot is never removed, because `DeleteWebhook` looks for
the row after its deletion.  Replacing the token of a disabled bot, or an update that
arrives after it was disabled, registers it and sets its webhook again.  The settings
form, which holds the row from its start, overwrites the webhook error that `Add` has just
saved.  A bot whose `getMe` fails in `Add` is neither registered nor retried.  After a rotation
`Reload` returns before it removes the old client when it cannot read the row (`manager.go:189`): the
bot goes on under the token that was replaced (`RegistryFollowsRow`).

*Lists.*  The source filter "hodhod" always gives an empty list: rows are matched before their
source is set.  The agent filter narrows the services and not the accounts, so other agents'
accounts appear without an owner.  On the first page of several, or of a filtered list, an account of
a later page is shown as "not on panel".  A status filter given to the panel and the status of the
merged row look at different data.  Marzban lists end at 1000 accounts.  Pages of merged rows are
cut from a Go map's order, so a walk over them may miss one account and show another
twice (`NothingMissed`, `BadgesAreTrue`).  The error of reading the services is dropped in both lists
(`list_panel_accounts.go:47`, `handlers_agent_customers.go:66`): the master's then shows every account
as the panel's own and misses those that only the store has, the agent's loses its own
accounts under a status filter, and neither shows an error (`AgentSeesOwn`).

*Access.*  Saving the access form drops the grants of accounts with an underscore in their
name, for the form's field is split at the first one; the form's hint (`admin_en.go:406`) says that
saving inbound access alone does not revoke.  The form that assigns a panel again renders no
ticks and so wipes the agent's inbound grants.  Attaching an account nobody owns also makes it the
agent's service, so that taking its tick away later does not take the account
away.  The form is rendered empty when the grants cannot be read (`handlers_master.go:79`, `:84`), and
saving it wipes them (`MasterIsObeyed`).

The routes of a service check neither the assignment nor the permission to modify users, which the
pages of a panel require for the same operations: an agent with `disable_enable` alone is refused
on the page and served on the route.  An agent whose last right to create is taken away gets back the
inbounds an assignment from before the grants may name (`sales/service.go:107`).  A change that
saves the service's row after another request deleted it brings the row
back, be the account there or not (`ActsAreCovered` says what remains true).

*Panels and backups.*  Two saves of one panel's row undo each other.  A call that is refused after
its first sending sends an empty body the second time, while one without a body is carried out then,
and the Marzban client repeats a refused
call for as long as it is refused (`CallIsHonest`).  Two backups of a panel within a
second share one file, and pruning one deletes the other's.  Failed rows count against the
retention and can push the last good backup out.  A file whose row was not inserted
is never pruned, and a row whose deletion failed, or was cut off by the end of the process, stays listed
as good without its file.  A retention that cannot be read counts as 7, whatever was
set (`BackupsAreKept`).

*Console.*  A session outlives its agent's suspension and a reset of the password by the
master; the agent's own change ends the other sessions ("Other sessions are logged out after
change."), but the error of that deletion is dropped, and a log-in under way opens its session
afterwards.  A verification or a switch under way counts for the domain that replaced the one it
was begun for, and a session opened on a host stays valid when the host changes
hands (`SessionsFollowPassword`, `LiveDomainIsProven`, `EntryIsChecked`).

## Proofs

`WalletStoreProofs`: first of the abstract ledger, the type invariant and
`LedgerExplainsBalance` (each row's `after` is the previous one plus its delta, the
last one is the balance), inductive together.  Then of the store `WalletTypeCorrect`; `WalletImplementsLedger`, one lemma per
transaction that shows a `Post` or a stutter of the ledger;
`WalletHistoryExplainsBalance`, carried over from the ledger by the
refinement; `WalletCreditsOnce`, inductive with the type invariant because its
middle conjunct ties "posted" to "approved": a pending payment has no row yet, so
the row an approval appends is the first.

`CheckoutProofs`: the safety of a purchase under every interleaving of any number
of customers and requests.  `PaidOnceOrRefunded` is not inductive: it speaks of
requests that have ended, and says nothing of one whose refund is its next call.
The invariant `IInv` adds to the type invariant, for each request, `MoneyRight` (at
most one debit and one refund in the history, each of the plan's price) and
`Stage`: what has happened to the money, the order, the panel user and the service
when the request is about to make a given call, for each call.  "About to refund"
then means charged, not refunded and not delivered, which is what the refund
needs.  `StageStep` has one step per action; `OthersKept` and `OtherWalletKept` are the
frame: a step of one request leaves the stage of the others.  From `IInv` follow
`PaidOnceOrRefunded`, `AnswersCharge`, `OrderTellsOutcome` and
`PanelMatchesServices`, and the refinements: of `Purchase`, where a step either
changes the request's phase (`StepOutcome`) or keeps it (`SamePhase`), and of
`Ledger`.

`ServiceLifecycleProofs`: `RacesSpare` is `NoOrphan` and `ExpiredIsPast`, which hold in every
state, races and failures included; neither is inductive.  `IInv` adds `RunSafe`, what a run in flight
relies on: a copy marked "expired", and the copy of a check about to disable or close,
have an expiry in the past; a copy about to be saved is of a row that existed; before
a row is deleted its user is gone.  `StepSafe` and `Frame` split each action's
proof into the acting run and the others (`OthersSafe`).  `EnabledOnPurpose` follows from
the type invariant and the shape of the update call.

`RowFollowsPanel` holds between runs only, and both it and `WarnedOnce` only while the
history is `Clean` (no harmful overlap, no failed call).  `CInv` says what holds
during a clean run: row and panel agree, or there is a run that has changed one and is
about to change the other (`Explained`); a row without its user is about to be deleted
(`GoneTogether`); a message sent has its mark, or its run is about to store it
(`Marked`).  That a save may write the whole row without undoing anything rests
on `RunTrue`: what a run read is still true when it uses it.  For `CutOffIsDue`, no other
run can be about to change the panel in a clean history, so the row is still the expiry
check's copy and has the user's expiry (`Explained`), which the check found in the past.

`AgentProofs`, the limit: `QuotaHolds` is `OverrunIsBounded` and `QuotaKept`, which bound what is sold.  Neither is
inductive, for the creations let through but not yet inserted do not appear in them;
`TotalBounded` and `SerialKept` add their number (`Selling`).  A count adds one to it, which
the count itself justifies (what is sold is active, so it was counted); an insertion
moves one from `Selling` to `Sold`; every other step shrinks both (`NothingSold`).
`UndoSparesServices` rests on `OwnAccount`: the account of an unfinished creation is
its own, and a row it has can only come from an attachment.

`AgentProofs`, access: `AccessInv` proves both properties of `AgentAccess`.
`MasterIsObeyed` is inductive with the types of the grants and of the requests: a save
either writes what the master's form decided, which sets `wish`, or is one that
`clouded` marks.  The form that leaves an inbound out carries no tick for it, so a
form's ticks lie within what it showed (`RequestTypes`).  `ActsAreCovered` speaks of a
request that has changed the panel; `Grounded` says at each stage what `held` has
collected so far, in the order the code asks for it: on a page permission, assignment and account,
through a route permission and service, for a creation the assignment, what its scope named, and
of each inbound that it was granted or, while none was, in that scope (`IsNamed`).

`AgentProofs`, pages: `PagesShowEachRow` is the arithmetic of `TotalPages`, `Offset` and
`HasNext` over the ranks of a list's places, which may have gaps where a filter took
rows out: a row's rank lies between 1 and the number of rows (`RankBounds`), no two rows
have the same one, and so it is on the page its rank is divided to and on no other.
`LinksLeadEverywhere` is the arithmetic of `PageNumbers`, for every length, page size and page asked
for; the runs try up to twelve pages.  `LinkAt` gives the links as one function of their
index (first page, gap, window, gap, last page), from which the rest is arithmetic.

`AgentProofs`, lists: none of the three properties of `UserLists` is inductive, for they
speak of a page that is shown or of a walk that ended.  Three layers carry them.

- *What an answer holds.*  `ListsAreTrue`: whichever way a panel lists its accounts, a row is
  of one of its clients and says what the client is, and unless Marzban cut the list every client
  has a row.  `DedupeTrue` and `DedupeWhole` carry that over to one row per account with all its
  inbounds, `MergedRows` and `MergedTrue` to the merge with the services, and `LocalAnswer`,
  `PanelAnswer` and `HodhodAnswer` to the pages of the three ways a master's list is made.
- *What a request holds.*  `FreshRead`: while nothing changed since the store was read, the
  services read are those of the store, or none when it did not answer; `BadgesAreTrue` follows
  from it with the rows of the page just shown, made with the services (`MasterBadges`) or without
  any (`BareBadges`).  `AgentWalk` is its counterpart for an agent: on unchanged
  data what was read as visible is what the agent may view (`ReadAsIs`), and all of it when the
  panel answered and its list was whole (`ReadInFull`).
- *What a walk has shown.*  `OrderedOnOnePage`: where rows come in an arbitrary order, a
  reader still in order has not turned a page, so that one page had everything and its
  completeness is that of the merge (`LocalFinds`, `AgentShown`).  `MasterWalk` is about the lists
  whose order stays, read while nothing changes and the store answers (`Following`): every described row that ranks on
  a page already turned is shown (`Turned`), and a page adds the rows of its own ranks
  (`PanelFinds`), the first one also the accounts that only the store has.  When no page follows, no
  rank is left (`LastPage`), and `NothingMissed` follows with `LinksLeadEverywhere`.

The proofs have to say when a total is to be believed: a panel that counted no filtered
row reports all its rows (`TotalOf`), and such an answer
has no row of the panel on any page, so the extra pages it links to lose nothing.

`TelegramProofs`, customers: whole-row saves make every property of `EndUserRows` depend on what a handler
holds.  `CustomersInv` adds, for each handler, that its copy was once a true row, its
balance one the history explained and its trial counted only if delivered (`CopyIsOld`),
where its delivery stands (`Delivery`) and that its order and its answer
say what became of it (`Settled`); for each row, that
its balance is one the history explained at some time (`RowIsReal`), and, while no
stale copy was saved over it, the one it explains now (`RowIsTrue`).  The wallet's
transactions enter through `WalletStep`, proved from the lemmas about the store.

`TelegramProofs`, the bot: `RegistryFollowsRow` and `WebhookFollowsStatus` speak of a bot at
rest.  `BotInv` adds what a request under way is still to do: `Spoken`, the registry has the
row's token, a request is about to register or remove it, or a reload that could not read the
row has left it (`left`); `Hooked`, the webhook
is as the status wants it or a request will call Telegram; `Obeyed`, the row is
what the console wanted, while no save failed or was stale.  `Remembered` counts, for each
update, what was handled and what was let through and is not handled yet: the check of the
seen updates and their marking are one step, so only a dropped memory lets one through again.

`PaymentReviewProofs`: none of the four safety properties of `PaymentReview` is inductive: they speak of rows
at rest, or of the wallet.  `ReviewRight` says what a review in flight relies on at each call (a review about to
provision or to compensate has an approved payment, an approved order and no service; one
about to reject the order has a rejected payment), `OneWriter` that no two reviews
carry out a verdict on one payment, and `RowsRight` where the rows of a payment may stand
apart: only while a review is to see to it or a write has failed.  The pending check
inside the approving and rejecting transactions is what `OneWriter` rests on.  `FrameStep`
shows once that a step of one review leaves the others right; each action then has a
lemma about its own review and payment.  `Credited` carries `WalletCreditsOnce` over to payments of two kinds, with the same lemmas
about `wallet_tx` rows.

`PanelAccessProofs`: `ClientIsCurrent` is inductive: the step that caches a client built
from an old row is the one that sets `stale`, and the step that changes the row leaves
an edit between its save and its invalidation.  `CallIsHonest` speaks of answered calls; `CallRight` adds that
a change not yet answered has not been applied, which is what a repetition relies on.
`BackupsAreKept` needs to know whose a name is: a file name that is not shared
belongs to one row or to one request about to add its row (`OneOwner`,
`OwnerToBe`), so a pruning that removes a file removes its own row's.  `OlderFollow` says
that a pruning which is about to remove a row will also remove every older row that is still there,
however many rows it keeps: the lists of two overlapping prunings lie one within the other, so what the one
that keeps fewer keeps (at least one row, for the `Retentions` are positive) nobody removes.  With `BackupStage` (where each request stands with its file and row)
these give `GoodStays` and `FilesKept`, the two halves of the property.

`ConsoleAccessProofs`: four properties that speak of what is stored, broken or kept by
what a request in flight is about to store.  `RunRight` says what such a request relies
on, in four parts: `Placed`, its kind goes with its place; `Fresh`, the password
it was given is still the agent's unless it was overtaken; `Admitted`, who is about to be let in may
enter; `Proving`, a look-up or a switch is about the domain the agent has unless
it was overtaken.  The master's steps are the ones that break these, so each is
shown to mark the requests it overtakes (`OvertakenRight`, `DisplacedRight`).  `Accounted` is
`SessionsFollowPassword` for one session; opening, saving and sweeping
have a lemma each, and every other step keeps the sessions and the sweepers (`QuietSessions`).

The proofs assume the ASSUMEs of the modules only: amounts are naturals, payments and
requests are possible references, accounts and runs are finite sets where they are counted, opening balances and prices are amounts;
bounds are naturals and the `Retentions` positive; the values that stand for "none" (`NoAgent`,
`NoUser`, `NoName`, `None`) are not names, and a master's request is not an agent's
(`NamesAreApart`, `NamesAreSeconds`, `BotBoundsAssumption`); the permission sets offered
are sets of permissions; and what a run begins with is a state: grants of the
right types (`BeginningsAreStates`), no two agents with one domain and a
verified domain with its token (`BeginningsAreProven`);
the accounts are finite (`UsersAreFinite`), the worlds a list is read in are states of a panel whose order has a
place for every account and inbound (`WorldsAreStates`), and an agent's filter has the fields
its page offers (`ReadersAreViewers`, `NothingIsApart`).  The
wallet proofs are about the wallet transactions; those about `EndUserRows` show what a
whole-row save outside of them does to the balance.

Only model-checked: the liveness properties (`EveryRequestEnds`, `ApprovedPlanIsSettled`),
which rest on fairness.  Every invariant and action property a passing run checks, and
both refinements, are also stated by a theorem.

## Not modelled

The components with status `not_modelled` in `PROJECT.json`.  Within the modelled
ones: texts and formatting, audit rows and logs (no property depends on them), the
contents of orders and services beyond their status and links, permission checks
before a review (they only make it not start).  In `PaymentReview` and `EndUserRows`
provisioning is one step; `Checkout` shows its steps and what it leaves on a
panel.  In the web panel the forms for plans, cards, channels and settings are single writes of what
they were sent, and the dashboards only read.

Two hazards have no property: the card round robin, which advances an index in the database and reads it
from the bot the manager loaded, and the list of panel templates, whose saves write
back the list they read.

## Plan

In this order:

1. The rest of the bot: the card round robin, the limit of `postBot`, chat states and the
   top-up limiter; the list of panel templates with the saves that race on it.
2. The login rate limiter beside the logins of `ConsoleAccess`.
3. `UserLists` beyond what its properties tell apart: sorting, and what a link carries
   besides its page.
