------------------------------ MODULE BotManager ------------------------------
(***************************************************************************)
(* One Telegram bot: its row in the table bots, its entry in the           *)
(* registry of the Manager (internal/telegram/manager.go), its webhooks at *)
(* Telegram, and the updates Telegram delivers, under the settings form    *)
(* and the deletion of the console (internal/web/handlers_bots.go), the    *)
(* webhook endpoint and the start-up (internal/app/app.go).                *)
(*                                                                         *)
(* Every request is a goroutine.  The row is read with GetBot and saved    *)
(* whole with UpdateBot; there is no transaction, and getMe, setWebhook    *)
(* and deleteWebhook are network calls between the read and the save.      *)
(* Each database, registry or network access is one step.                  *)
(*                                                                         *)
(* Of a row the status, the token and the deletion mark are kept: the      *)
(* public id and the webhook secret never change, and the last webhook     *)
(* error and the card columns decide nothing here.                         *)
(***************************************************************************)
EXTENDS Integers, FiniteSets

CONSTANTS
  Admins,         \* requests of the console, each made once
  Deliveries,     \* requests of Telegram that overlap
  Boot,           \* LoadActive and the retries it leaves behind
  Tokens,         \* bot tokens; FirstToken is the one the bot was created with
  FirstToken,
  None,           \* no token, no registry entry
  Updates,        \* updates Telegram has for the bot
  MaxSeen,        \* the cap of seenUpdates (5000)
  MaxRetries,     \* attempts of retrySetWebhook (5)
  MaxBegun        \* bound: requests of the console and of Telegram, and restarts

ASSUME BotBoundsAssumption ==
  /\ FirstToken \in Tokens /\ None \notin Tokens
  /\ MaxSeen \in Nat /\ MaxRetries \in Nat /\ MaxBegun \in Nat

VARIABLES
  row,        \* the row
  registry,   \* m.bots: the token the entry's api speaks with, or None
  hooks,      \* external: tokens whose webhook points here
  seen,       \* m.seenUpdates
  run,        \* what each request does next, with the copies it holds
  begun,      \* requests and restarts so far
  wanted,     \* history: what the console was last told to make of the row
  handled,    \* history: how often each update was handled
  forgotten,  \* history: how often the seen updates were dropped
  left,       \* history: the entry is there because a reload could not read the row
  trouble     \* history: the worst that has gone wrong

vars == <<row, registry, hooks, seen, run, begun, wanted, handled, forgotten, left, trouble>>

Rows == [status : {"active", "disabled"}, token : Tokens, deleted : BOOLEAN]

\* Trouble so far, the worst only.  HooksOff: a call of Telegram or the read of the row
\* that comes before it failed, the process stopped inside a request of the console or the start-up, or an update or a new token
\* set about registering a disabled bot.  SaveFailed: a save failed (its error is dropped
\* everywhere).  StaleUsed: a request saved, or acted on, a copy that was no longer the row.
HooksOff == 1
SaveFailed == 2
StaleUsed == 3

Requests == Admins \cup Deliveries \cup {Boot}

FirstRow == [status |-> "active", token |-> FirstToken, deleted |-> FALSE]

\* copy: the row Add and DeleteWebhook read; form: the row postBotSettings read, or
\* the one a retry read; blank: postBotSettings could not read it; then: where the request goes on after Add; got: Dispatch's mb.
Ended == [pc |-> "done", copy |-> FirstRow, form |-> FirstRow, blank |-> FALSE,
          then |-> "done", update |-> None, got |-> FALSE, tries |-> 0]

Running(r) == run[r].pc \notin {"new", "done"}

Quiet == \A r \in Requests : ~Running(r)

\* The server listens once LoadActive is done; its retries go on.
Listening == run[Boot].pc \in {"done", "retry", "retryRead", "retrySave"}

At(r, pc) == run[r].pc = pc

Goto(r, pc) ==
  run' = [run EXCEPT ![r] = IF pc = "done" THEN Ended ELSE [@ EXCEPT !.pc = pc]]

\* The end of Add or of DeleteWebhook and Remove, whose copy is dropped.
Return(r) ==
  run' = [run EXCEPT ![r] = IF run[r].then = "done" THEN Ended
                            ELSE [@ EXCEPT !.pc = run[r].then, !.copy = FirstRow]]

-----------------------------------------------------------------------------
(* The database and Telegram.                                              *)

Blame(kind, happened) == trouble' = IF happened /\ kind > trouble THEN kind ELSE trouble

BlameStale(copy) == Blame(StaleUsed, copy # row)

\* UpdateBot(new) by a request whose copy was `copy`: every column is written, the
\* deletion mark too; or the save fails and nobody is told.
Save(copy, new) ==
  \/ row' = new /\ BlameStale(copy)
  \/ row' = row /\ Blame(SaveFailed, new # row)

\* A call that was to leave `token` with or without its webhook has failed.
NotSet(token) == Blame(HooksOff, token \notin hooks)
NotRemoved(token) == Blame(HooksOff, token \in hooks)

NoDatabase == UNCHANGED <<row, wanted>>
NoTelegram == UNCHANGED <<registry, left, hooks>>
NoUpdates == UNCHANGED <<seen, handled, forgotten>>

-----------------------------------------------------------------------------
(* Manager.Add, used by all three kinds of request.                        *)

\* Dispatch gives up when Add fails; the others drop its error.
Fail(r) == IF r \in Deliveries THEN Goto(r, "done") ELSE Return(r)

\* GetBot finds rows that are not deleted, whatever their status, and may fail for any;
\* then Add returns its error.
AddRead(r) ==
  /\ At(r, "add")
  /\ \/ /\ ~row.deleted
        /\ run' = [run EXCEPT ![r].pc = "getMe", ![r].copy = row]
        /\ Blame(HooksOff, row.status = "disabled")
     \/ /\ Fail(r)
        /\ Blame(HooksOff, ~row.deleted)
  /\ NoDatabase /\ NoTelegram /\ NoUpdates
  /\ UNCHANGED begun

\* bot.New calls getMe; when it fails Add returns with nothing registered.
AddRegister(r) ==
  /\ At(r, "getMe")
  /\ \/ /\ registry' = run[r].copy.token /\ left' = FALSE
        /\ BlameStale(run[r].copy)
        /\ Goto(r, "setWebhook")
     \/ /\ UNCHANGED <<registry, left>>
        /\ NotSet(run[r].copy.token)
        /\ Fail(r)
  /\ NoDatabase /\ NoUpdates
  /\ UNCHANGED <<hooks, begun>>

\* tries = 1 tells AddSave of the start-up that the call failed.
AddSetWebhook(r) ==
  /\ At(r, "setWebhook")
  /\ \/ /\ hooks' = hooks \cup {run[r].copy.token}
        /\ BlameStale(run[r].copy)
        /\ Goto(r, "addSave")
     \/ /\ hooks' = hooks
        /\ NotSet(run[r].copy.token)
        /\ run' = [run EXCEPT ![r].pc = "addSave", ![r].tries = IF r = Boot THEN 1 ELSE 0]
  /\ NoDatabase /\ NoUpdates
  /\ UNCHANGED <<registry, left, begun>>

\* The copy is saved with the outcome of the call in webhook_last_error.  A failed
\* call is retried in a goroutine under the context of the request: for a request it
\* is cancelled before the first retry, a second later, and then every call of the
\* retries fails; only the start-up's context lasts.
AddSave(r) ==
  /\ At(r, "addSave")
  /\ Save(run[r].copy, run[r].copy)
  /\ IF r = Boot /\ run[r].tries = 1
       THEN run' = [run EXCEPT ![r].pc = "retry"]
       ELSE Return(r)
  /\ NoTelegram /\ NoUpdates
  /\ UNCHANGED <<wanted, begun>>

Add(r) ==
  \/ AddRead(r) \/ AddRegister(r) \/ AddSetWebhook(r) \/ AddSave(r)

-----------------------------------------------------------------------------
(* Manager.DeleteWebhook followed by Manager.Remove; errors are dropped,   *)
(* so the entry is removed whatever became of the webhook.                 *)

\* The entry's api is used, or a new one for the token of the row.
SpeaksWith == IF registry # None THEN registry ELSE row.token

\* Mutant: the error of the read ends the request before Remove.
UnhookReadGivesUp(a) ==
  /\ At(a, "unhook")
  /\ \/ /\ ~row.deleted
        /\ run' = [run EXCEPT ![a].pc = "unhookCall", ![a].copy.token = SpeaksWith]
        /\ UNCHANGED trouble
     \/ /\ Return(a)
        /\ Blame(HooksOff, ~row.deleted)
  /\ NoDatabase /\ NoTelegram /\ NoUpdates
  /\ UNCHANGED begun

\* When the row is not found, or the read fails, Telegram is not called at all.  (The row
\* and the registry are read in one step: nothing happens between the two reads.)
UnhookRead(a) ==
  /\ At(a, "unhook")
  /\ \/ /\ ~row.deleted
        /\ run' = [run EXCEPT ![a].pc = "unhookCall", ![a].copy.token = SpeaksWith]
        /\ UNCHANGED trouble
     \/ /\ Goto(a, "remove")
        /\ Blame(HooksOff, ~row.deleted)
  /\ NoDatabase /\ NoTelegram /\ NoUpdates
  /\ UNCHANGED begun

UnhookCall(a) ==
  /\ At(a, "unhookCall")
  /\ \/ /\ hooks' = hooks \ {run[a].copy.token}
        /\ Blame(StaleUsed, row.status = "active")
     \/ hooks' = hooks /\ NotRemoved(run[a].copy.token)
  /\ run' = [run EXCEPT ![a].pc = "remove", ![a].copy = FirstRow]
  /\ NoDatabase /\ NoUpdates
  /\ UNCHANGED <<registry, left, begun>>

\* A form without a row has no public id to remove.
Remove(a) ==
  /\ At(a, "remove")
  /\ IF run[a].blank THEN UNCHANGED <<registry, left>>
                     ELSE registry' = None /\ left' = FALSE
  /\ Return(a)
  /\ NoDatabase /\ NoUpdates
  /\ UNCHANGED <<hooks, begun, trouble>>

Unhook(a) == UnhookRead(a) \/ UnhookCall(a) \/ Remove(a)

-----------------------------------------------------------------------------
(* The console.                                                            *)

\* postBotSettings, tab "general": the form always carries a status and a card display
\* mode, and a token when one was typed.  The error of GetBot is dropped: a failed read
\* gives an empty row, without a public id, whose saves the foreign key to agents refuses
\* (for a deleted bot such a request does nothing).
OpenSettings(a) ==
  /\ At(a, "new") /\ Listening
  /\ begun < MaxBegun
  /\ ~row.deleted
  /\ \/ run' = [run EXCEPT ![a] = [Ended EXCEPT !.pc = "status", !.form = row]]
     \/ run' = [run EXCEPT ![a] = [Ended EXCEPT !.pc = "status", !.blank = TRUE]]
  /\ begun' = begun + 1
  /\ NoDatabase /\ NoTelegram /\ NoUpdates
  /\ UNCHANGED trouble

SaveForm(a, new) ==
  IF run[a].blank THEN row' = row /\ Blame(SaveFailed, TRUE) ELSE Save(run[a].form, new)

\* Mutant: the form's copy is changed but not saved.
SaveStatusUnsaved(a, status) ==
  LET new == [run[a].form EXCEPT !.status = status] IN
  /\ At(a, "status")
  /\ run' = [run EXCEPT ![a].pc = IF new = run[a].form THEN "token"
                                  ELSE IF status = "active" THEN "add" ELSE "unhook",
                        ![a].form = new, ![a].then = "token"]
  /\ wanted' = [wanted EXCEPT !.status = status]
  /\ UNCHANGED <<row, trouble, begun>>
  /\ NoTelegram /\ NoUpdates

\* Mutant: a bot that is disabled is only dropped from the registry.
SaveStatusKeepsHook(a, status) ==
  LET new == [run[a].form EXCEPT !.status = status] IN
  /\ At(a, "status")
  /\ IF ~run[a].blank /\ new = run[a].form
       THEN /\ Goto(a, "token")
            /\ UNCHANGED <<row, wanted, trouble>>
       ELSE /\ SaveForm(a, new)
            /\ wanted' = [wanted EXCEPT !.status = status]
            /\ run' = [run EXCEPT ![a] =
                 [@ EXCEPT !.pc = IF status = "active" THEN "add" ELSE "remove",
                           !.form = new, !.then = "token"]]
  /\ NoTelegram /\ NoUpdates
  /\ UNCHANGED begun

\* A status unlike the copy's (any, without a copy) is saved; then the bot is added, or its webhook and entry removed.
SaveStatus(a, status) ==
  LET new == [run[a].form EXCEPT !.status = status] IN
  /\ At(a, "status")
  /\ IF ~run[a].blank /\ new = run[a].form
       THEN /\ Goto(a, "token")
            /\ UNCHANGED <<row, wanted, trouble>>
       ELSE /\ SaveForm(a, new)
            /\ wanted' = [wanted EXCEPT !.status = status]
            /\ run' = [run EXCEPT ![a] =
                 [@ EXCEPT !.pc = IF status = "active" THEN "add" ELSE "unhook",
                           !.form = new, !.then = "token"]]
  /\ NoTelegram /\ NoUpdates
  /\ UNCHANGED begun

\* No token was typed: on to the card display mode.
KeepToken(a) ==
  /\ At(a, "token")
  /\ Goto(a, "cards")
  /\ NoDatabase /\ NoTelegram /\ NoUpdates
  /\ UNCHANGED <<begun, trouble>>

\* ValidateToken refuses the token, or could not ask Telegram: the request ends.
RefuseToken(a) ==
  /\ At(a, "token")
  /\ Goto(a, "done")
  /\ NoDatabase /\ NoTelegram /\ NoUpdates
  /\ UNCHANGED <<begun, trouble>>

\* The copy of the row read at the start is saved again, with the new token (bound: one
\* other than the form's; to type the same again only repeats Add).
SaveToken(a, token) ==
  LET new == [run[a].form EXCEPT !.token = token] IN
  /\ At(a, "token") /\ token # run[a].form.token
  /\ SaveForm(a, new)
  /\ wanted' = [wanted EXCEPT !.token = token]
  /\ run' = [run EXCEPT ![a] = [@ EXCEPT !.pc = "reload", !.form = new, !.then = "cards"]]
  /\ NoTelegram /\ NoUpdates
  /\ UNCHANGED begun

\* Manager.Reload: Remove and Add for a row that GetBot finds.  When it does not, or
\* fails, the entry stays as it is, and the caller drops the error.
Reload(a) ==
  /\ At(a, "reload")
  /\ \/ /\ ~row.deleted
        /\ registry' = None /\ left' = FALSE
        /\ Goto(a, "add")
        /\ UNCHANGED trouble
     \/ /\ registry' = registry /\ left' = (left \/ ~row.deleted)
        /\ Goto(a, "cards")
        /\ Blame(HooksOff, ~row.deleted)
  /\ NoDatabase /\ NoUpdates
  /\ UNCHANGED <<hooks, begun>>

\* card_display_mode: the copy of the row is saved a last time.
SaveCards(a) ==
  /\ At(a, "cards")
  /\ SaveForm(a, run[a].form)
  /\ Goto(a, "done")
  /\ NoTelegram /\ NoUpdates
  /\ UNCHANGED <<wanted, begun>>

\* postBotDelete and BotService.Delete, when no active service and no pending payment
\* refuses it.  The reads come first; SoftDeleteBot writes its two columns only.
OpenDelete(a) ==
  /\ At(a, "new") /\ Listening
  /\ begun < MaxBegun
  /\ ~row.deleted
  /\ Goto(a, "delete")
  /\ begun' = begun + 1
  /\ NoDatabase /\ NoTelegram /\ NoUpdates
  /\ UNCHANGED trouble

SoftDelete(a) ==
  /\ At(a, "delete")
  /\ row' = [row EXCEPT !.deleted = TRUE, !.status = "disabled"]
  /\ wanted' = [wanted EXCEPT !.deleted = TRUE, !.status = "disabled"]
  /\ run' = [run EXCEPT ![a] = [Ended EXCEPT !.pc = "unhook"]]
  /\ NoTelegram /\ NoUpdates
  /\ UNCHANGED <<begun, trouble>>

Console(a) ==
  \/ OpenSettings(a)
  \/ \E status \in {"active", "disabled"} : SaveStatus(a, status)
  \/ KeepToken(a) \/ RefuseToken(a)
  \/ \E token \in Tokens : SaveToken(a, token)
  \/ Reload(a) \/ SaveCards(a)
  \/ OpenDelete(a) \/ SoftDelete(a)
  \/ Unhook(a)

-----------------------------------------------------------------------------
(* The webhook endpoint.                                                   *)

\* External: Telegram posts an update (named when it is marked), one it posted before too when the answer was
\* late or lost; a post may still be on its way after the webhook was removed.
Post(d) ==
  /\ At(d, "done") /\ Listening
  /\ begun < MaxBegun
  /\ run' = [run EXCEPT ![d] = [Ended EXCEPT !.pc = "lookup", !.then = "reread"]]
  /\ begun' = begun + 1
  /\ NoDatabase /\ NoTelegram /\ NoUpdates
  /\ UNCHANGED trouble

\* SecretFor and Dispatch look the bot up; without an entry they ask the database,
\* whose status they do not read, and Dispatch adds the bot; a failed read ends it.
Lookup(d) ==
  /\ At(d, "lookup")
  /\ \/ registry # None /\ run' = [run EXCEPT ![d].pc = "mark", ![d].got = TRUE]
     \/ registry = None /\ ~row.deleted /\ Goto(d, "add")
     \/ registry = None /\ Goto(d, "done")
  /\ NoDatabase /\ NoTelegram /\ NoUpdates
  /\ UNCHANGED <<begun, trouble>>

\* mb = m.bots[publicID]: nil when it was removed meanwhile.
Reread(d) ==
  /\ At(d, "reread")
  /\ run' = [run EXCEPT ![d].pc = "mark", ![d].got = registry # None]
  /\ NoDatabase /\ NoTelegram /\ NoUpdates
  /\ UNCHANGED <<begun, trouble>>

\* Mutant: at the cap a new update is let through without a mark.
MarkFull(d, u) ==
  /\ At(d, "mark")
  /\ IF u \in seen
       THEN Goto(d, "done") /\ UNCHANGED seen
       ELSE /\ run' = [run EXCEPT ![d].pc = "handle", ![d].update = u]
            /\ seen' = IF Cardinality(seen) < MaxSeen THEN seen \cup {u} ELSE seen
  /\ NoDatabase /\ NoTelegram
  /\ UNCHANGED <<begun, trouble, handled, forgotten>>

\* markUpdateSeen, under seenMu: above the cap every mark goes, the new one too.
Mark(d, u) ==
  LET marked == seen \cup {u} IN
  /\ At(d, "mark")
  /\ IF u \in seen
       THEN Goto(d, "done") /\ UNCHANGED <<seen, forgotten>>
       ELSE /\ run' = [run EXCEPT ![d].pc = "handle", ![d].update = u]
            /\ IF Cardinality(marked) > MaxSeen
                 THEN seen' = {} /\ forgotten' = forgotten + 1
                 ELSE seen' = marked /\ UNCHANGED forgotten
  /\ NoDatabase /\ NoTelegram
  /\ UNCHANGED <<begun, trouble, handled>>

\* handle with a nil bot panics: the update stays marked and is never handled.
Handle(d) ==
  /\ At(d, "handle")
  /\ handled' = IF run[d].got THEN [handled EXCEPT ![run[d].update] = @ + 1] ELSE handled
  /\ Goto(d, "done")
  /\ NoDatabase /\ NoTelegram
  /\ UNCHANGED <<begun, trouble, seen, forgotten>>

Endpoint(d) ==
  \/ Post(d) \/ Lookup(d) \/ Reread(d)
  \/ \E u \in Updates : Mark(d, u)
  \/ Handle(d)

-----------------------------------------------------------------------------
(* The start-up and its retries.                                           *)

\* The process stops in the middle of anything and starts again.
Restart ==
  /\ begun < MaxBegun
  /\ begun' = begun + 1
  /\ registry' = None /\ left' = FALSE
  /\ seen' = {} /\ forgotten' = forgotten + 1
  /\ run' = [r \in Requests |-> CASE r = Boot -> [Ended EXCEPT !.pc = "list"]
                                  [] At(r, "new") -> run[r]
                                  [] OTHER -> Ended]
  /\ Blame(HooksOff, \E r \in Admins \cup {Boot} : Running(r))
  /\ NoDatabase
  /\ UNCHANGED <<hooks, handled>>

\* LoadActive: ListActiveBots, then Add; when the list fails the start-up goes on.
LoadActive ==
  /\ At(Boot, "list")
  /\ \/ row.status = "active" /\ ~row.deleted /\ Goto(Boot, "add")
     \/ Goto(Boot, "done")
  /\ NoDatabase /\ NoTelegram /\ NoUpdates
  /\ UNCHANGED <<begun, trouble>>

\* retrySetWebhook: the call uses the token Add was started with.
RetryCall ==
  /\ At(Boot, "retry")
  /\ \/ /\ hooks' = hooks \cup {run[Boot].copy.token}
        /\ BlameStale(run[Boot].copy)
        /\ run' = [run EXCEPT ![Boot].pc = "retryRead", ![Boot].tries = MaxRetries + 1]
     \/ /\ hooks' = hooks
        /\ NotSet(run[Boot].copy.token)
        /\ Goto(Boot, "retryRead")
  /\ NoDatabase /\ NoUpdates
  /\ UNCHANGED <<registry, left, begun>>

AnotherTry ==
  run' = [run EXCEPT ![Boot] =
            IF @.tries < MaxRetries
              THEN [@ EXCEPT !.pc = "retry", !.tries = run[Boot].tries + 1]
              ELSE Ended]

\* For a deleted bot, or when it fails, GetBot returns an empty row, whose save the
\* database refuses.
RetryRead ==
  /\ At(Boot, "retryRead")
  /\ \/ AnotherTry
     \/ ~row.deleted /\ run' = [run EXCEPT ![Boot].pc = "retrySave", ![Boot].form = row]
  /\ NoDatabase /\ NoTelegram /\ NoUpdates
  /\ UNCHANGED <<begun, trouble>>

RetrySave ==
  /\ At(Boot, "retrySave")
  /\ Save(run[Boot].form, run[Boot].form)
  /\ AnotherTry
  /\ NoTelegram /\ NoUpdates
  /\ UNCHANGED <<wanted, begun>>

Startup == LoadActive \/ RetryCall \/ RetryRead \/ RetrySave

-----------------------------------------------------------------------------
Init ==
  /\ row = FirstRow /\ wanted = FirstRow
  /\ registry = FirstToken /\ left = FALSE
  /\ hooks = {FirstToken}
  /\ seen = {} /\ forgotten = 0
  /\ run = [r \in Requests |-> IF r \in Admins THEN [Ended EXCEPT !.pc = "new"] ELSE Ended]
  /\ begun = 0
  /\ handled = [u \in Updates |-> 0]
  /\ trouble = 0

Next ==
  \/ \E r \in Requests : Add(r)
  \/ \E a \in Admins : Console(a)
  \/ \E d \in Deliveries : Endpoint(d)
  \/ Startup
  \/ Restart

Spec == Init /\ [][Next]_vars

-----------------------------------------------------------------------------
(* Properties.                                                             *)

\* The types; markUpdateSeen never holds more than its cap.
TypeOK ==
  /\ row \in Rows /\ wanted \in Rows
  /\ registry \in Tokens \cup {None}
  /\ hooks \subseteq Tokens
  /\ seen \subseteq Updates /\ Cardinality(seen) <= MaxSeen
  /\ \A r \in Requests :
       /\ run[r].copy \in Rows /\ run[r].form \in Rows
       /\ run[r].tries \in 0..(MaxRetries + 1)
  /\ left \in BOOLEAN /\ trouble \in 0..StaleUsed

\* What the console last did to the status, the token and the deletion of a bot stays in
\* the row, through every whole-row save of Add, of the retries and of the form itself,
\* unless a save failed or one request saved a copy another had made stale.
ConsoleIsObeyed ==
  Quiet /\ row # wanted => trouble >= SaveFailed

\* When no request is running, the registry speaks for a bot that exists, across
\* rotations, deletions, restarts, failed saves and failed calls of Telegram, and with
\* the token of its row unless Reload could not read the row after a new token was saved
\* and left the old entry, which stays until the bot is registered, removed or reloaded
\* again; all of it unless a request acted on a stale copy.
RegistryFollowsRow ==
  Quiet /\ registry # None /\ trouble < StaleUsed
    => ~row.deleted /\ (registry = row.token \/ left)

\* When no request is running, the bot's webhook is set exactly when the bot is active:
\* a disabled bot is off, and an active one is reachable, unless a call of Telegram, the
\* read of the row before it or a save failed, a request acted on a stale copy or was cut
\* off, or a disabled bot was woken.
WebhookFollowsStatus ==
  Quiet /\ ~row.deleted /\ trouble = 0
    => (row.token \in hooks <=> row.status = "active")

\* An update is handled at most once for every time the memory of seen updates was
\* dropped, whatever Telegram repeats and however requests overlap.
HandledOncePerMemory == \A u \in Updates : handled[u] <= 1 + forgotten
=============================================================================
