--------------------------- MODULE ServiceLifecycle ---------------------------
(***************************************************************************)
(* One sold service: its row in the table services and its user on a VPN   *)
(* panel, under the operations of admins and agents                        *)
(* (internal/sales/service.go), the usage poll and the expiry check        *)
(* (internal/scheduler/scheduler.go), through a Marzban or a 3x-ui client  *)
(* (internal/panels/marzban.go, xui.go).                                   *)
(*                                                                         *)
(* Every run of a handler or of a cron job is a goroutine.  It copies the  *)
(* row, calls the panel and saves the WHOLE copy, with no lock and no      *)
(* transaction; each database or panel call is one step.  GORM's Save      *)
(* inserts the row again when it is gone.                                  *)
(***************************************************************************)
EXTENDS Integers

CONSTANTS
  Runs,         \* requests of admins and agents, and runs of the cron jobs
  Kinds,        \* the kinds of panel considered
  WarnPercent,  \* the customer's or the bot's warn_percent
  LeadDays,     \* expiry_warn_days
  PlanDays,     \* days left at the start
  MaxNow,       \* bound: days that pass
  MaxUsed,      \* bound: traffic the panel counts
  MaxStarts     \* bound: runs begun

ASSUME KindsAssumption == Kinds \subseteq {"marzban", "xui"}
ASSUME ServiceBoundsAssumption ==
  /\ MaxNow \in Nat /\ MaxUsed \in Nat /\ MaxStarts \in Nat
  /\ WarnPercent \in Nat /\ LeadDays \in Nat /\ PlanDays \in Nat

VARIABLES
  now,       \* the day
  kind,      \* the kind of the service's panel
  row,       \* the service's row
  user,      \* its user on the panel
  run,       \* what each run does next, with the copies it holds
  starts,    \* runs begun
  told,      \* history: highest usage warning and last expiry warning sent
  repeated,  \* history: a warning was sent twice
  raced,     \* history: a run acted on a copy that was no longer true
  broken     \* history: a run ended between changing one side and the other

vars == <<now, kind, row, user, run, starts, told, repeated, raced, broken>>

Never == -1

Rows == [status : {"none", "active", "disabled", "expired"}, expire : Nat,
         limit : Nat, used : Nat, warned : Nat, warnedAt : Nat \cup {Never}]

Users == [state : {"none", "enabled", "disabled"}, expire : Nat, limit : Nat, used : Nat]

NoRow == [status |-> "none", expire |-> 0, limit |-> 0, used |-> 0,
          warned |-> 0, warnedAt |-> Never]

NoUser == [state |-> "none", expire |-> 0, limit |-> 0, used |-> 0]

HasRow == row.status # "none"
HasUser == user.state # "none"

\* The page operations start with the panel's user and look the row up afterwards;
\* the others read the row first.  (ModifyService reads it only to find the user
\* that it hands to ModifyPanelAccount, which looks the row up again.)
GrantOps == {"addTime", "addVolume", "modify"}
EnableOps == {"enable", "panelEnable"}
PanelStatusOps == {"panelEnable", "panelDisable"}
StatusOps == EnableOps \cup {"disable", "panelDisable", "expiry"}
PageOps == {"modify", "panelEnable", "panelDisable", "panelReset"}
HandlerOps == GrantOps \cup PageOps \cup {"enable", "disable", "reset", "delete"}
Ops == HandlerOps \cup {"poll", "expiry"}

Calls == {"read", "list", "cur", "put", "info", "reread", "save", "zero", "saveZero",
          "del", "drop", "warn", "mark", "warnExpiry", "markExpiry", "close"}

RunStates == [pc : Calls \cup {"idle"}, op : Ops \cup {"none"},
              copy : Rows, info : Users, at : Nat]

Idle == [pc |-> "idle", op |-> "none", copy |-> NoRow, info |-> NoUser, at |-> 0]

TypeOK ==
  /\ now \in Nat
  /\ kind \in Kinds
  /\ row \in Rows
  /\ user \in Users
  /\ run \in [Runs -> RunStates]
  /\ starts \in 0..MaxStarts
  /\ told \in [usage : Nat, expiry : Nat \cup {Never}]
  /\ repeated \in BOOLEAN /\ raced \in BOOLEAN /\ broken \in BOOLEAN

\* A plan with two units of traffic, delivered.
Init ==
  /\ now = 0
  /\ kind \in Kinds
  /\ row = [status |-> "active", expire |-> PlanDays, limit |-> 2, used |-> 0,
            warned |-> 0, warnedAt |-> Never]
  /\ user = [state |-> "enabled", expire |-> PlanDays, limit |-> 2, used |-> 0]
  /\ run = [j \in Runs |-> Idle]
  /\ starts = 0
  /\ told = [usage |-> 0, expiry |-> Never]
  /\ repeated = FALSE /\ raced = FALSE /\ broken = FALSE

----------------------------------------------------------------------------
At(j, c) == run[j].pc = c
Op(j) == run[j].op
Copy(j) == run[j].copy
Info(j) == run[j].info

Goto(j, c) == run' = [run EXCEPT ![j].pc = c]
Finish(j) == run' = [run EXCEPT ![j] = Idle]

\* The run has changed the panel, or sent a warning, and not yet written it down.
Pending(j) ==
  \/ run[j].pc \in {"reread", "saveZero", "drop", "mark", "markExpiry", "close"}
  \/ run[j].pc \in {"info", "save"} /\ Op(j) # "poll"

\* The run acts: on a row that has changed since it was copied, or beside a run
\* that has not yet written what it did.
Act(j, stale) == raced' = (raced \/ stale \/ \E k \in Runs \ {j} : Pending(k))

\* What GetUser answers: the 3x-ui client always reports an enabled user.
Reported == IF kind = "xui" THEN [user EXCEPT !.state = "enabled"] ELSE user

\* The first panel call of an operation.  Disable and Enable of the 3x-ui client
\* read the user first, for its update call replaces everything.
FirstCall(o) ==
  CASE o \in {"reset", "panelReset"} -> "zero"
    [] o = "delete" -> "del"
    [] o = "poll" -> "info"
    [] o \in StatusOps /\ kind = "marzban" -> "put"
    [] OTHER -> "cur"

\* The terms UpdateUser asks for, counted from the user it read.  A modification sets
\* them; one day and one unit of traffic stand for every amount.
NewExpire(o, cur) ==
  CASE o = "addTime" -> (IF cur.expire > now THEN cur.expire ELSE now) + 1
    [] o = "modify" -> now + 1
    [] OTHER -> cur.expire

NewLimit(o, cur) == CASE o = "addVolume" -> cur.limit + 1
                      [] o = "modify" -> 1
                      [] OTHER -> cur.limit

\* Mutant: the Marzban client sends status "active" with every update of the terms.
UpdatedAlwaysActive(o, cur) ==
  [user EXCEPT !.state = IF o \in StatusOps \ EnableOps THEN "disabled" ELSE "enabled",
               !.expire = IF o \in StatusOps THEN @ ELSE NewExpire(o, cur),
               !.limit = IF o \in StatusOps THEN @ ELSE NewLimit(o, cur)]

\* The update call: Marzban changes the fields it is sent, 3x-ui the whole client.
Updated(o, cur) ==
  LET termsSent == o \notin StatusOps \/ kind = "xui"
      state == CASE o \in EnableOps -> "enabled"
                 [] o \in StatusOps \ EnableOps -> "disabled"
                 [] OTHER -> IF kind = "xui" THEN cur.state ELSE user.state
  IN  [user EXCEPT !.state = state,
                   !.expire = IF termsSent THEN NewExpire(o, cur) ELSE @,
                   !.limit = IF termsSent THEN NewLimit(o, cur) ELSE @]

\* Mutant: the expiry is left out.
WithInfoNoExpire(r, i) ==
  [r EXCEPT !.used = i.used, !.limit = i.limit,
            !.status = IF i.state = "enabled" THEN "active" ELSE "disabled"]

\* Mutant: as in RefreshUsage, the status only ever becomes "disabled".
WithInfoKeepsStatus(r, i) ==
  [r EXCEPT !.used = i.used, !.limit = i.limit, !.expire = i.expire,
            !.status = IF i.state = "enabled" THEN @ ELSE "disabled"]

\* applyUserInfo.
WithInfo(r, i) == [r EXCEPT !.used = i.used, !.limit = i.limit, !.expire = i.expire,
                            !.status = IF i.state = "enabled" THEN "active" ELSE "disabled"]

Level(r) == (r.used * 100) \div r.limit
----------------------------------------------------------------------------
Start(j, o) ==
  /\ At(j, "idle")
  /\ starts < MaxStarts
  /\ starts' = starts + 1
  /\ run' = [run EXCEPT ![j].op = o,
                        ![j].pc = IF o \in {"poll", "expiry"} THEN "list"
                                  ELSE IF o \in PageOps THEN FirstCall(o) ELSE "read"]
  /\ UNCHANGED <<now, kind, row, user, told, repeated, raced, broken>>

\* GetService: no row ends the request.
Read(j) ==
  /\ At(j, "read")
  /\ IF HasRow
       THEN run' = [run EXCEPT ![j].copy = row, ![j].pc = FirstCall(Op(j))]
       ELSE Finish(j)
  /\ UNCHANGED <<now, kind, row, user, starts, told, repeated, raced, broken>>

\* Mutant: a service is over on its last day already.
ListOffByOne(j) ==
  /\ At(j, "list")
  /\ IF row.status = "active"
       THEN run' = [run EXCEPT ![j].copy = row, ![j].at = now,
                               ![j].pc = IF Op(j) = "expiry" /\ row.expire > now
                                           THEN "warnExpiry" ELSE FirstCall(Op(j))]
       ELSE Finish(j)
  /\ UNCHANGED <<now, kind, row, user, starts, told, repeated, raced, broken>>

\* ListActiveServicesForPanel, and checkExpiry's comparison with the clock.
List(j) ==
  /\ At(j, "list")
  /\ IF row.status = "active"
       THEN run' = [run EXCEPT ![j].copy = row,
                               ![j].at = IF Op(j) = "expiry" THEN now ELSE 0,
                               ![j].pc = IF Op(j) = "expiry" /\ row.expire >= now
                                           THEN "warnExpiry" ELSE FirstCall(Op(j))]
       ELSE Finish(j)
  /\ UNCHANGED <<now, kind, row, user, starts, told, repeated, raced, broken>>

\* GetUser inside UpdateUser and inside the 3x-ui client's Enable and Disable.
Cur(j) ==
  /\ At(j, "cur") /\ HasUser
  /\ run' = [run EXCEPT ![j].info = Reported, ![j].pc = "put"]
  /\ UNCHANGED <<now, kind, row, user, starts, told, repeated, raced, broken>>

AfterPut(o) == CASE o \in PanelStatusOps -> "reread"
                 [] o = "expiry" -> "close"
                 [] OTHER -> "info"

\* Update of the panel's user: absolute terms, from a user read earlier.
Put(j) ==
  /\ At(j, "put") /\ HasUser
  /\ user' = Updated(Op(j), Info(j))
  /\ run' = [run EXCEPT ![j].info = NoUser, ![j].pc = AfterPut(Op(j))]
  /\ Act(j, \/ Op(j) \notin PageOps /\ row # Copy(j)
            \/ (Op(j) \notin StatusOps \/ kind = "xui")
                 /\ <<user.expire, user.limit>> # <<Info(j).expire, Info(j).limit>>)
  /\ UNCHANGED <<now, kind, row, starts, told, repeated, broken>>

\* GetUser of the poll and after an update.
GetUser(j) ==
  /\ At(j, "info") /\ HasUser
  /\ run' = [run EXCEPT ![j].info = Reported,
                        ![j].pc = IF Op(j) = "modify" THEN "reread" ELSE "save"]
  /\ UNCHANGED <<now, kind, row, user, starts, told, repeated, raced, broken>>

\* GetServiceByPanelUsername: without a row the panel alone has changed.
Reread(j) ==
  /\ At(j, "reread")
  /\ IF HasRow
       THEN run' = [run EXCEPT ![j].copy = row,
                               ![j].pc = CASE Op(j) = "modify" -> "save"
                                           [] Op(j) = "panelReset" -> "saveZero"
                                           [] OTHER -> "info"]
       ELSE Finish(j)
  /\ UNCHANGED <<now, kind, row, user, starts, told, repeated, raced, broken>>

\* UpdateServiceByID writes every column of the copy, and inserts a deleted row again.
Saved(j) == IF Op(j) = "poll" THEN [Copy(j) EXCEPT !.used = Info(j).used]
            ELSE WithInfo(Copy(j), Info(j))

Save(j) ==
  /\ At(j, "save")
  /\ row' = Saved(j)
  /\ IF Op(j) = "poll" THEN run' = [run EXCEPT ![j].copy = Saved(j), ![j].info = NoUser, ![j].pc = "warn"]
                       ELSE Finish(j)
  /\ Act(j, row # Copy(j))
  /\ UNCHANGED <<now, kind, user, starts, told, repeated, broken>>

\* ResetUsage on the panel, then in the row; the warning mark stays.
Zero(j) ==
  /\ At(j, "zero") /\ HasUser
  /\ user' = [user EXCEPT !.used = 0]
  /\ Goto(j, IF Op(j) = "panelReset" THEN "reread" ELSE "saveZero")
  /\ UNCHANGED <<now, kind, row, starts, told, repeated, raced, broken>>

SaveZero(j) ==
  /\ At(j, "saveZero")
  /\ row' = [Copy(j) EXCEPT !.used = 0]
  /\ Finish(j)
  /\ Act(j, row # Copy(j))
  /\ UNCHANGED <<now, kind, user, starts, told, repeated, broken>>

\* DeleteService: the panel's user first (one that is gone already is no error).
DeleteUser(j) ==
  /\ At(j, "del")
  /\ user' = NoUser
  /\ Goto(j, "drop")
  /\ UNCHANGED <<now, kind, row, starts, told, repeated, raced, broken>>

DeleteRow(j) ==
  /\ At(j, "drop")
  /\ row' = NoRow
  /\ Finish(j)
  /\ UNCHANGED <<now, kind, user, starts, told, repeated, raced, broken>>
----------------------------------------------------------------------------
\* Mutant: the mark is not compared.
MustWarnEachPoll(r) == r.limit > 0 /\ Level(r) >= WarnPercent

\* maybeWarn: the message goes out before the mark is saved.
MustWarn(r) == r.limit > 0 /\ Level(r) >= WarnPercent /\ Level(r) > r.warned

Warn(j) ==
  /\ At(j, "warn")
  /\ IF MustWarn(Copy(j))
       THEN /\ told' = [told EXCEPT !.usage = Level(Copy(j))]
            /\ repeated' = (repeated \/ Level(Copy(j)) <= told.usage)
            /\ Goto(j, "mark")
            /\ Act(j, row # Copy(j))
       ELSE Finish(j) /\ UNCHANGED <<told, repeated, raced>>
  /\ UNCHANGED <<now, kind, row, user, starts, broken>>

Mark(j) ==
  /\ At(j, "mark")
  /\ row' = [Copy(j) EXCEPT !.warned = Level(Copy(j))]
  /\ Finish(j)
  /\ Act(j, row # Copy(j))
  /\ UNCHANGED <<now, kind, user, starts, told, repeated, broken>>

\* shouldSendExpiryWarn.
MustWarnExpiry(r, at) ==
  /\ r.expire < at + LeadDays
  /\ r.warnedAt # Never => at - r.warnedAt >= LeadDays

WarnExpiry(j) ==
  /\ At(j, "warnExpiry")
  /\ IF MustWarnExpiry(Copy(j), run[j].at)
       THEN /\ told' = [told EXCEPT !.expiry = run[j].at]
            /\ repeated' = (repeated \/ (/\ told.expiry # Never
                                        /\ run[j].at - told.expiry < LeadDays))
            /\ Goto(j, "markExpiry")
            /\ Act(j, row # Copy(j))
       ELSE Finish(j) /\ UNCHANGED <<told, repeated, raced>>
  /\ UNCHANGED <<now, kind, row, user, starts, broken>>

\* UpdateServiceExpiryWarned writes its column only.
MarkExpiry(j) ==
  /\ At(j, "markExpiry")
  /\ row' = IF HasRow THEN [row EXCEPT !.warnedAt = run[j].at] ELSE row
  /\ Finish(j)
  /\ UNCHANGED <<now, kind, user, starts, told, repeated, raced, broken>>

\* The row of an expired service, after its user was disabled (or was not).
Close(j) ==
  /\ At(j, "close")
  /\ row' = [Copy(j) EXCEPT !.status = "expired"]
  /\ Finish(j)
  /\ Act(j, row # Copy(j))
  /\ UNCHANGED <<now, kind, user, starts, told, repeated, broken>>
----------------------------------------------------------------------------
\* Mutant: the error of DeleteUser is dropped and the row deleted.
FailDeletesAnyway(j) ==
  /\ ~At(j, "idle")
  /\ IF At(j, "del") THEN Goto(j, "drop") ELSE Finish(j)
  /\ UNCHANGED <<now, kind, row, user, starts, told, repeated, raced, broken>>

\* A database or panel call of the run fails; a panel call does when the user is gone.
\* checkExpiry drops the errors of Disable, pollUsage that of its save; every other
\* error ends the run.
Fail(j) ==
  /\ ~At(j, "idle")
  /\ IF Op(j) = "expiry" /\ run[j].pc \in {"cur", "put"}
       THEN Goto(j, "close")
       ELSE IF Op(j) = "poll" /\ At(j, "save")
       THEN run' = [run EXCEPT ![j].copy = Saved(j), ![j].info = NoUser, ![j].pc = "warn"]
       ELSE Finish(j)
  /\ broken' = (\/ broken
                \/ Pending(j)
                \/ Op(j) = "expiry" /\ (At(j, "list") \/ HasUser))
  /\ UNCHANGED <<now, kind, row, user, starts, told, repeated, raced>>

Step(j) ==
  \/ Read(j) \/ List(j) \/ Cur(j) \/ Put(j) \/ GetUser(j) \/ Reread(j)
  \/ Save(j) \/ Zero(j) \/ SaveZero(j) \/ DeleteUser(j) \/ DeleteRow(j)
  \/ Warn(j) \/ Mark(j) \/ WarnExpiry(j) \/ MarkExpiry(j) \/ Close(j) \/ Fail(j)

\* The server restarts.
Crash ==
  /\ run' = [j \in Runs |-> Idle]
  /\ broken' = (broken \/ \E j \in Runs : Pending(j))
  /\ UNCHANGED <<now, kind, row, user, starts, told, repeated, raced>>

\* postPanelUsersDelDepleted removes used-up users of a 3x-ui panel, and no row.
DelDepleted ==
  /\ kind = "xui" /\ HasUser /\ user.used >= user.limit
  /\ user' = NoUser
  /\ broken' = TRUE
  /\ UNCHANGED <<now, kind, row, run, starts, told, repeated, raced>>

\* The customer's traffic, counted by the panel.
Use ==
  /\ user.state = "enabled" /\ user.used < MaxUsed
  /\ user' = [user EXCEPT !.used = @ + 1]
  /\ UNCHANGED <<now, kind, row, run, starts, told, repeated, raced, broken>>

Tick ==
  /\ now < MaxNow
  /\ now' = now + 1
  /\ UNCHANGED <<kind, row, user, run, starts, told, repeated, raced, broken>>

Next ==
  \/ \E j \in Runs : (\E o \in Ops : Start(j, o)) \/ Step(j)
  \/ Crash \/ DelDepleted \/ Use \/ Tick

Spec == Init /\ [][Next]_vars
----------------------------------------------------------------------------
\* Between runs the row tells the truth about the panel: there is a row exactly when
\* there is a user, with the same limit and expiry, and on Marzban it reads "active"
\* exactly when the user is enabled; except where runs raced or one was cut off.
RowFollowsPanel ==
  raced \/ broken \/ (\E j \in Runs : Pending(j)) \/
    /\ HasRow <=> HasUser
    /\ <<row.expire, row.limit>> = <<user.expire, user.limit>>
    /\ kind = "marzban" => (row.status = "active" <=> user.state = "enabled")

\* A service marked "expired" has expired, whatever races: the mark and the expiry
\* date are written by one save of one copy.
ExpiredIsPast == row.status = "expired" => row.expire < now

\* No user stays on the panel after its row is gone, where nobody would see it and
\* its traffic is free: DeleteService removes the user first.
NoOrphan == HasUser => HasRow

\* What no race, failure or restart can break.
RacesSpare == ExpiredIsPast /\ NoOrphan

\* The customer is warned once per percentage of the traffic and once per lead time of
\* the expiry, though the message goes out before the mark is stored.
WarnedOnce == repeated => raced \/ broken

\* The expiry check disables only a user whose term on the panel is over, although it
\* decides from a list read earlier; except where a renewal raced or was cut off.
CutOffIsDue ==
  [][\A j \in Runs : /\ Op(j) = "expiry" /\ At(j, "put") /\ ~At(j, "put")'
                     /\ user.state = "enabled" /\ user'.state = "disabled"
       => user.expire < now \/ raced' \/ broken]_vars

\* On Marzban a disabled user is enabled by an Enable request only; a renewal or a
\* modification leaves it disabled.
EnabledOnPurpose ==
  [][kind = "marzban" /\ user.state = "disabled" /\ user'.state = "enabled"
       => \E h \in Runs : At(h, "put") /\ Op(h) \in EnableOps]_vars

=============================================================================
