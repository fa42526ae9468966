----------------------------- MODULE AgentAccess -----------------------------
(***************************************************************************)
(* What the master lets an agent do with the accounts of a panel, and what *)
(* the agent then does.                                                    *)
(*                                                                         *)
(* The master decides through forms that carry the state they were         *)
(* rendered from: the access form writes back every tick it shows, by      *)
(* deleting the rows and inserting others (web/agent_access.go,            *)
(* db/repo_grants.go). Attaching accounts adds rows one by one. The agent  *)
(* meanwhile creates accounts and changes them, on two ways that check     *)
(* different things one after the other: the pages of a panel ask for the  *)
(* assignment, the account's grant and the permission to modify users; the *)
(* routes of a service (/services, /customers) ask only for the service.   *)
(*                                                                         *)
(* One panel. The quota and the undo of a creation are in SalesQuota.      *)
(***************************************************************************)
EXTENDS Naturals, FiniteSets, AgentVisibility

CONSTANTS NoUser,         \* no account is meant
          Underscored,    \* the names with an underscore
          Beginnings,     \* the states of panel and store to begin with
          PermissionSets, \* what the master may save as permissions
          MasterRuns, AgentRuns, \* requests that may be under way at once
          MaxStarts,      \* bound on the requests started
          MaxChanges      \* bound on the changes nobody here asked for

ASSUME UnderscoredAreUsers == Underscored \subseteq Users

Requests == MasterRuns \cup AgentRuns
InboundRights == {"create", "view"}

\* The permissions the pages of a panel ask for, and the routes of a service.
PagePermissions == {"modify_user", "reset_usage", "disable_enable"}
ServicePermissions == PagePermissions
                      \cup {"add_time", "add_volume", "delete_user"}
Permissions == {"create_user"} \cup ServicePermissions

ASSUME PermissionsAreKnown == PermissionSets \subseteq SUBSET Permissions

\* No name is used twice.
ASSUME NamesAreApart ==
    /\ NoAgent \notin Agents /\ NoUser \notin Users
    /\ Users \cap Inbounds = {} /\ MasterRuns \cap AgentRuns = {}

ASSUME BeginningsAreStates ==
    \A b \in Beginnings :
        /\ b.clients \in [Users -> SUBSET Inbounds]
        /\ b.service \in [Users -> Agents \cup {NoAgent}]
        /\ b.assigned \in SUBSET Agents
        /\ b.scope \in [Agents -> SUBSET Inbounds]
        /\ b.perms \in [Agents -> SUBSET Permissions]
        /\ b.granted \in [Agents -> [Users -> SUBSET Rights]]
        /\ b.inboundGrants \in [Agents -> [Inbounds -> SUBSET InboundRights]]

VARIABLES
    clients,       \* the inbounds of each account on the panel, {} without one
    service,       \* the agent whose service an account belongs to
    assigned,      \* the agents the panel is assigned to (agent_panels)
    scope,         \* the inbounds an older assignment names (scope_json)
    perms,         \* the permissions of each agent (agent_permissions)
    granted,       \* the rights of each agent's user grant (agent_user_grants)
    inboundGrants, \* of each agent's inbound grant (agent_inbound_grants)
    req,           \* the requests under way
    wish, wishIn,  \* what the master last decided of each account, inbound
    clouded,       \* decisions that a stale form, a race or a name spoilt
    held,          \* what was true of an agent's request since it began
    starts, changes

store == <<service, assigned, scope, perms, granted, inboundGrants>>
decided == <<wish, wishIn, clouded>>
accessVars == <<clients, store, req, decided, held, starts, changes>>

NoRights == [u \in Users |-> {}]
NoInbounds == [i \in Inbounds |-> {}]

Blank == [pc |-> "idle", kind |-> "none", perm |-> "none",
          agent |-> NoAgent, user |-> NoUser, owner |-> NoAgent,
          table |-> {}, shown |-> NoRights, ticks |-> NoRights,
          rowsIn |-> {}, shownIn |-> NoInbounds, ticksIn |-> NoInbounds,
          existing |-> NoRights, names |-> {}, inbounds |-> {}, legacy |-> {},
          seen |-> [own |-> FALSE, grant |-> {}, inbound |-> FALSE]]

AccessInit ==
    /\ \E b \in Beginnings :
          /\ clients = b.clients /\ service = b.service
          /\ assigned = b.assigned /\ scope = b.scope /\ perms = b.perms
          /\ granted = b.granted /\ inboundGrants = b.inboundGrants
    /\ req = [r \in Requests |-> Blank]
    /\ wish = granted /\ wishIn = inboundGrants /\ clouded = {}
    /\ held = [r \in AgentRuns |-> {}]
    /\ starts = 0 /\ changes = 0

Stands(r, pc) == req[r].pc = pc
Become(r, new) == req' = [req EXCEPT ![r] = new]
Proceed(r, pc) == req' = [req EXCEPT ![r].pc = pc]
Conclude(r) == req' = [req EXCEPT ![r] = Blank]

\* What holds now of the agent of a request and the account it is about.
Holds(r) ==
    LET a == req[r].agent
        u == req[r].user
        creatable == {i \in Inbounds : "create" \in inboundGrants[a][i]}
    IN  IF req[r].pc = "idle" THEN {}
        ELSE ({"perm"} \X (perms[a] \cap {req[r].perm, "modify_user"}))
             \cup ({"create"} \X creatable)
             \cup ({"scope"} \X scope[a])
             \cup (IF a \in assigned THEN {<<"assigned">>} ELSE {})
             \cup (IF creatable = {} THEN {<<"no creates">>} ELSE {})
             \cup (IF u # NoUser /\ service[u] = a THEN {<<"own">>} ELSE {})
             \cup (IF u # NoUser /\ "modify" \in granted[a][u]
                   THEN {<<"granted">>} ELSE {})

\* held collects what was true at some time since the request began.
Remember ==
    held' = [r \in AgentRuns |->
                IF req'[r].pc = "idle" THEN {} ELSE held[r] \cup Holds(r)']

\* A request begins.
Start(r, new) ==
    /\ Stands(r, "idle") /\ starts < MaxStarts
    /\ starts' = starts + 1
    /\ Become(r, new)
    /\ UNCHANGED <<clients, store, decided, changes>>
    /\ Remember

\* A step of a request that changes nothing but the request.
Quietly == UNCHANGED <<clients, store, decided, starts, changes>> /\ Remember

-----------------------------------------------------------------------------
(* The forms.                                                              *)

\* pageAgentEdit: the form of one panel and agent. The table lists the
\* accounts the panel lists and every granted one; without the panel's answer
\* only the granted ones. The inbounds are the panel's alone: when it does
\* not list them, the form shows no inbound, whatever was granted. The errors
\* of the two readings of the grants are dropped: the form then shows none.
RenderAccess(r, a) ==
    \E usersListed, inboundsListed, grantsRead, inboundsRead \in BOOLEAN :
        LET rights == IF grantsRead THEN granted[a] ELSE NoRights
            rightsIn == IF inboundsRead THEN inboundGrants[a] ELSE NoInbounds
            table == {u \in Users : \/ usersListed /\ clients[u] # {}
                                    \/ rights[u] # {}}
            rowsIn == IF inboundsListed THEN Inbounds ELSE {}
        IN  Start(r, [Blank EXCEPT
                 !.pc = "edit", !.kind = "access", !.agent = a,
                 !.table = table, !.shown = rights, !.ticks = rights,
                 !.rowsIn = rowsIn, !.shownIn = rightsIn,
                 !.ticksIn = [i \in Inbounds |->
                                 IF i \in rowsIn THEN rightsIn[i] ELSE {}]])

\* The master changes the ticks of one account.
TickUser(r, u, rights) ==
    /\ Stands(r, "edit") /\ req[r].kind = "access" /\ u \in req[r].table
    /\ req' = [req EXCEPT ![r].ticks[u] = rights, ![r].pc = "save inbounds"]
    /\ Quietly

\* Or of one inbound.
TickInbound(r, i, rights) ==
    /\ Stands(r, "edit") /\ i \in req[r].rowsIn
    /\ req' = [req EXCEPT ![r].ticksIn[i] = rights,
                          ![r].pc = IF req[r].kind = "access"
                                    THEN "save inbounds" ELSE "assign"]
    /\ Quietly

\* Or none, and saves the form as it is.
TickNothing(r) ==
    /\ Stands(r, "edit")
    /\ Proceed(r, IF req[r].kind = "access" THEN "save inbounds" ELSE "assign")
    /\ Quietly

\* The forms that assign the panel list the inbounds with no tick, also those
\* of an agent that has grants already.
RenderAssign(r, a) ==
    \E inboundsListed \in BOOLEAN :
        Start(r, [Blank EXCEPT !.pc = "edit", !.kind = "assign", !.agent = a,
                         !.rowsIn = IF inboundsListed THEN Inbounds ELSE {}])

\* postAgentPanel, postPanelAgent: the assignment is written first, and with
\* it an empty scope.
SaveAssignment(r) ==
    /\ Stands(r, "assign")
    /\ assigned' = assigned \cup {req[r].agent}
    /\ scope' = [scope EXCEPT ![req[r].agent] = {}]
    /\ Proceed(r, "save inbounds")
    /\ UNCHANGED <<clients, service, perms, granted, inboundGrants, decided,
                   starts, changes>>
    /\ Remember

\* parseInboundGrantsFromForm keeps the inbounds with a tick.
InboundTicks(r) == req[r].ticksIn

\* ReplaceAgentInboundGrants: in one transaction the rows are deleted and the
\* form's inserted. The form that assigns decides every inbound it shows, the
\* access form those whose ticks were changed.
SaveInbounds(r) ==
    /\ Stands(r, "save inbounds")
    /\ LET a == req[r].agent
           decides == {i \in req[r].rowsIn :
                          \/ req[r].kind = "assign"
                          \/ req[r].ticksIn[i] # req[r].shownIn[i]}
           spoilt == {i \in Inbounds \ decides :
                          \/ i \notin req[r].rowsIn /\ inboundGrants[a][i] # {}
                          \/ i \in req[r].rowsIn
                               /\ req[r].shownIn[i] # inboundGrants[a][i]}
       IN  /\ inboundGrants' = [inboundGrants EXCEPT ![a] = InboundTicks(r)]
           /\ wishIn' = [wishIn EXCEPT ![a] =
                            [i \in Inbounds |-> IF i \in decides
                                                THEN req[r].ticksIn[i]
                                                ELSE @[i]]]
           /\ clouded' = (clouded \ ({a} \X decides)) \cup ({a} \X spoilt)
    /\ IF req[r].kind = "access"
       THEN Proceed(r, "read grants") ELSE Conclude(r)
    /\ UNCHANGED <<clients, service, assigned, scope, perms, granted, wish,
                   starts, changes>>
    /\ Remember

\* SaveAgentUserGrants reads the rows it will keep.
ReadGrants(r) ==
    /\ Stands(r, "read grants")
    /\ req' = [req EXCEPT ![r].existing = granted[req[r].agent],
                          ![r].pc = "replace grants"]
    /\ Quietly

\* parseUserGrantsFromForm splits user_<name>_<right> at the first underscore:
\* the ticks of a name with an underscore are lost.
FormGrants(r) ==
    [u \in Users |-> IF u \in Underscored THEN {} ELSE req[r].ticks[u]]

\* Mutant: the form replaces every row, also of accounts it did not show.
SavedFormOnly(existing, table, form) ==
    [u \in Users |-> IF u \in table THEN form[u] ELSE {}]

\* Accounts of the table get what the form says, the others keep their row.
SavedGrants(existing, table, form) ==
    [u \in Users |-> IF u \in table THEN form[u] ELSE existing[u]]

\* ReplaceAgentUserGrants deletes the agent's rows and inserts the merged
\* ones in one transaction; what came in since they were read is lost.
ReplaceGrants(r) ==
    /\ Stands(r, "replace grants")
    /\ LET a == req[r].agent
           table == req[r].table
           decides == {u \in table : req[r].ticks[u] # req[r].shown[u]}
           spoilt == {u \in Users :
                        \/ /\ u \in table \ decides
                           /\ req[r].shown[u] # granted[a][u]
                        \/ /\ u \notin table
                           /\ req[r].existing[u] # granted[a][u]}
                     \cup (Underscored \cap table)
       IN  /\ granted' = [granted EXCEPT ![a] =
                            SavedGrants(req[r].existing, table, FormGrants(r))]
           /\ wish' = [wish EXCEPT ![a] = [u \in Users |->
                          IF u \in decides THEN req[r].ticks[u] ELSE @[u]]]
           /\ clouded' = (clouded \ ({a} \X decides)) \cup ({a} \X spoilt)
    /\ Conclude(r)
    /\ UNCHANGED <<clients, service, assigned, scope, perms, inboundGrants,
                   wishIn, starts, changes>>
    /\ Remember

\* postAgentPermissions: one row, written whole; no permission means view only.
SavePermissions(r, a, some) ==
    /\ Stands(r, "idle") /\ starts < MaxStarts
    /\ starts' = starts + 1
    /\ perms' = [perms EXCEPT ![a] = some]
    /\ UNCHANGED <<clients, service, assigned, scope, granted, inboundGrants,
                   req, decided, changes>>
    /\ Remember

-----------------------------------------------------------------------------
(* Attaching accounts to an agent.                                         *)

\* postAgentAttachInboundUsers: every account listed on the inbound.
AttachInbound(r, a, i) ==
    /\ a \in assigned
    /\ Start(r, [Blank EXCEPT !.pc = "attach", !.kind = "attach", !.agent = a,
                    !.names = {u \in Users : UserOnInbound(clients[u], {i})}])

\* postPanelUserAttachAgent: one account of the list, there or no longer.
AttachUser(r, a, u) ==
    /\ a \in assigned
    /\ Start(r, [Blank EXCEPT !.pc = "attach", !.kind = "attach", !.agent = a,
                             !.names = {u}])

\* postPanelUser: the master creates an account for an agent on the inbounds
\* picked, and attaches it like the others.
MasterCreates(r, a, u, inbounds) ==
    /\ Stands(r, "idle") /\ starts < MaxStarts /\ inbounds # {}
    /\ a \in assigned /\ clients[u] = {} /\ service[u] = NoAgent
    /\ starts' = starts + 1
    /\ clients' = [clients EXCEPT ![u] = inbounds]
    /\ service' = [service EXCEPT ![u] = a]
    /\ Become(r, [Blank EXCEPT !.pc = "attach", !.kind = "attach", !.agent = a,
                              !.names = {u}])
    /\ UNCHANGED <<assigned, scope, perms, granted, inboundGrants, decided,
                   changes>>
    /\ Remember

\* Mutant: an account that has a grant keeps it as it was.
UpsertKeeps(grants, u) ==
    IF grants[u] = {} THEN [grants EXCEPT ![u] = Rights] ELSE grants

\* UpsertAgentUserGrant overwrites the rights of a row that exists.
UpsertGrant(grants, u) == [grants EXCEPT ![u] = Rights]

\* attachPanelUsersToAgent, one account: the grant comes first.
AttachAccount(r, u) ==
    /\ Stands(r, "attach") /\ u \in req[r].names
    /\ LET a == req[r].agent
       IN  /\ granted' = [granted EXCEPT ![a] = UpsertGrant(@, u)]
           /\ wish' = [wish EXCEPT ![a][u] = Rights]
           /\ clouded' = clouded \ {<<a, u>>}
    /\ req' = [req EXCEPT ![r].user = u, ![r].names = @ \ {u},
                          ![r].pc = "adopt"]
    /\ UNCHANGED <<clients, service, assigned, scope, perms, inboundGrants,
                   wishIn, starts, changes>>
    /\ Remember

\* Then a service for an account nobody has one for. Its creation may fail,
\* also because someone else made one since; nobody is told.
Adopt(r) ==
    /\ Stands(r, "adopt")
    /\ \/ /\ service[req[r].user] = NoAgent
          /\ service' = [service EXCEPT ![req[r].user] = req[r].agent]
       \/ UNCHANGED service
    /\ Proceed(r, "attach")
    /\ UNCHANGED <<clients, assigned, scope, perms, granted, inboundGrants,
                   decided, starts, changes>>
    /\ Remember

AttachEnds(r) ==
    /\ Stands(r, "attach") /\ req[r].names = {}
    /\ Conclude(r) /\ Quietly

\* A request of the master ends with an error of the store: what it wrote so
\* far stays.
MasterFails(r) ==
    /\ req[r].pc \in {"assign", "save inbounds", "read grants",
                      "replace grants", "attach", "adopt"}
    /\ Conclude(r) /\ Quietly

-----------------------------------------------------------------------------
(* The agent at work.                                                      *)

\* postAgentPanelUserModify, postAgentPanelUserAction: canPerm comes first.
StartChange(r, a, perm, u) ==
    /\ perm \in perms[a]
    /\ Start(r, [Blank EXCEPT !.pc = "look", !.kind = "page", !.perm = perm,
                             !.agent = a, !.user = u])

\* serviceAction: ModifyService, AddTime, AddVolume, SetEnabled, ResetUsage and
\* DeleteService begin with checkPerm.
StartServiceChange(r, a, perm, u) ==
    /\ perm \in perms[a]
    /\ Start(r, [Blank EXCEPT !.pc = "find", !.kind = "service", !.perm = perm,
                             !.agent = a, !.user = u])

\* getService: the row must be the agent's. Nothing else is asked.
FindService(r) ==
    /\ Stands(r, "find")
    /\ IF service[req[r].user] = req[r].agent
       THEN req' = [req EXCEPT ![r].pc = "act", ![r].owner = req[r].agent]
       ELSE Conclude(r)
    /\ Quietly

\* Whether the agent sees the account; the panel is listed only for inbounds
\* the agent may look at, and may not answer.
LookUp(r) ==
    /\ Stands(r, "look")
    /\ LET a == req[r].agent
           viewable == {i \in Inbounds : "view" \in inboundGrants[a][i]}
       IN  \E answered \in BOOLEAN :
           LET v == VisibleUsers(a \in assigned,
                        {u \in Users : service[u] = a}, granted[a], viewable,
                        [u \in Users |-> IF answered THEN clients[u] ELSE {}]
                    )[req[r].user]
           IN  IF CanView(v)
               THEN req' = [req EXCEPT ![r].pc = "judge", ![r].seen = v]
               ELSE Conclude(r)
    /\ Quietly

\* The permissions are read again: changing any account of the panel takes
\* the one to modify users.
Judge(r) ==
    /\ Stands(r, "judge")
    /\ IF CanModify(req[r].seen, "modify_user" \in perms[req[r].agent])
       THEN Proceed(r, "act") ELSE Conclude(r)
    /\ Quietly

\* The panel changes the account, or deletes it, there or not.
\* ModifyPanelAccount asks for the permission once more; the others do not.
Act(r) ==
    /\ Stands(r, "act")
    /\ LET u == req[r].user
           deletes == req[r].perm = "delete_user"
       IN  IF /\ req[r].perm = "modify_user"
                    => "modify_user" \in perms[req[r].agent]
              /\ deletes \/ clients[u] # {}
           THEN /\ Proceed(r, "acted")
                /\ clients' = IF deletes THEN [clients EXCEPT ![u] = {}]
                              ELSE clients
           ELSE Conclude(r) /\ UNCHANGED clients
    /\ UNCHANGED <<store, decided, starts, changes>>
    /\ Remember

\* A service that was found is saved as it was; the pages, and every
\* ModifyPanelAccount, read the row of the account only now.
ReadRow(r) ==
    /\ Stands(r, "acted") /\ req[r].kind # "create"
    /\ req[r].perm # "delete_user"
    /\ LET found == req[r].kind = "service" /\ req[r].perm # "modify_user"
       IN  req' = [req EXCEPT ![r].pc = "save", ![r].owner =
                      IF found THEN @ ELSE service[req[r].user]]
    /\ Quietly

\* UpdateServiceByID writes the whole row; one deleted meanwhile is back.
SaveRow(r) ==
    /\ Stands(r, "save")
    /\ service' = [service EXCEPT ![req[r].user] =
                      IF @ = NoAgent THEN req[r].owner ELSE @]
    /\ Conclude(r)
    /\ UNCHANGED <<clients, assigned, scope, perms, granted, inboundGrants,
                   decided, starts, changes>>
    /\ Remember

\* DeleteService, after the account: the row it found, if it is still there.
DeleteRow(r) ==
    /\ Stands(r, "acted") /\ req[r].perm = "delete_user"
    /\ service' = [service EXCEPT ![req[r].user] =
                      IF @ = req[r].owner THEN NoAgent ELSE @]
    /\ Conclude(r)
    /\ UNCHANGED <<clients, assigned, scope, perms, granted, inboundGrants,
                   decided, starts, changes>>
    /\ Remember

\* postAgentPanelUser, postService: an account on the inbounds of a template,
\* or without one on all the agent may create on.
StartCreate(r, a, inbounds) ==
    /\ "create_user" \in perms[a]
    /\ Start(r, [Blank EXCEPT !.pc = "scope", !.kind = "create",
                             !.perm = "create_user", !.agent = a,
                             !.inbounds = inbounds])

\* CreatePanelAccount and loadCreateScope: permission and assignment, whose
\* row may still name inbounds of its own.
LoadScope(r) ==
    /\ Stands(r, "scope")
    /\ LET a == req[r].agent
       IN  IF "create_user" \in perms[a] /\ a \in assigned
           THEN req' = [req EXCEPT ![r].pc = "inbounds", ![r].legacy = scope[a]]
           ELSE Conclude(r)
    /\ Quietly

\* The inbounds of the grants; without any, those of the assignment.
Creatable(grants, legacy) ==
    LET granting == {i \in Inbounds : "create" \in grants[i]}
    IN  IF granting = {} THEN legacy ELSE granting

\* What is asked for must be among them.
ChooseInbounds(r) ==
    /\ Stands(r, "inbounds")
    /\ LET allowed == Creatable(inboundGrants[req[r].agent], req[r].legacy)
           asked == req[r].inbounds
       IN  IF allowed # {} /\ asked \subseteq allowed
           THEN req' = [req EXCEPT ![r].pc = "create",
                          ![r].inbounds = IF asked = {} THEN allowed ELSE asked]
           ELSE Conclude(r)
    /\ Quietly

\* The client is created under a new name, then its service.
CreateAccount(r, u) ==
    /\ Stands(r, "create") /\ clients[u] = {} /\ service[u] = NoAgent
    /\ clients' = [clients EXCEPT ![u] = req[r].inbounds]
    /\ service' = [service EXCEPT ![u] = req[r].agent]
    /\ req' = [req EXCEPT ![r].pc = "acted", ![r].user = u]
    /\ UNCHANGED <<assigned, scope, perms, granted, inboundGrants, decided,
                   starts, changes>>
    /\ Remember

\* The request ends, answered or with an error of the panel or the store.
AgentEnds(r) ==
    /\ req[r].pc \in {"look", "judge", "find", "act", "scope", "inbounds",
                      "create", "acted", "save"}
    /\ Conclude(r) /\ Quietly

-----------------------------------------------------------------------------
(* Changes from elsewhere, and the next-state relation.                    *)

Elsewhere ==
    /\ changes < MaxChanges
    /\ changes' = changes + 1
    /\ UNCHANGED <<req, decided, starts, assigned, scope, perms, granted,
                   inboundGrants>>
    /\ Remember

\* Accounts come, go and move on the panel itself.
PanelMoves(u, inbounds) ==
    /\ inbounds # clients[u]
    /\ clients' = [clients EXCEPT ![u] = inbounds]
    /\ UNCHANGED service
    /\ Elsewhere

\* A service is deleted.
ServiceDropped(u) ==
    /\ service[u] # NoAgent
    /\ service' = [service EXCEPT ![u] = NoAgent]
    /\ UNCHANGED clients
    /\ Elsewhere

MasterStep(r) ==
    \/ \E a \in Agents :
          \/ RenderAccess(r, a) \/ RenderAssign(r, a)
          \/ \E some \in PermissionSets : SavePermissions(r, a, some)
          \/ \E i \in Inbounds : AttachInbound(r, a, i)
          \/ \E u \in Users : AttachUser(r, a, u)
          \/ \E u \in Users, inbounds \in SUBSET Inbounds :
                MasterCreates(r, a, u, inbounds)
    \/ \E u \in Users, rights \in SUBSET Rights : TickUser(r, u, rights)
    \/ \E i \in Inbounds, rights \in SUBSET InboundRights :
          TickInbound(r, i, rights)
    \/ TickNothing(r) \/ SaveAssignment(r) \/ SaveInbounds(r)
    \/ ReadGrants(r) \/ ReplaceGrants(r)
    \/ \E u \in Users : AttachAccount(r, u)
    \/ Adopt(r) \/ AttachEnds(r) \/ MasterFails(r)

AgentStep(r) ==
    \/ \E a \in Agents, u \in Users :
          \/ \E perm \in PagePermissions : StartChange(r, a, perm, u)
          \/ \E perm \in ServicePermissions : StartServiceChange(r, a, perm, u)
    \/ \E a \in Agents, inbounds \in SUBSET Inbounds :
          StartCreate(r, a, inbounds)
    \/ LookUp(r) \/ Judge(r) \/ FindService(r) \/ Act(r)
    \/ ReadRow(r) \/ SaveRow(r) \/ DeleteRow(r)
    \/ LoadScope(r) \/ ChooseInbounds(r)
    \/ \E u \in Users : CreateAccount(r, u)
    \/ AgentEnds(r)

AccessNext ==
    \/ \E r \in MasterRuns : MasterStep(r)
    \/ \E r \in AgentRuns : AgentStep(r)
    \/ \E u \in Users, inbounds \in SUBSET Inbounds : PanelMoves(u, inbounds)
    \/ \E u \in Users : ServiceDropped(u)

AccessSpec == AccessInit /\ [][AccessNext]_accessVars

-----------------------------------------------------------------------------
(* Properties.                                                             *)

\* The stored grants are what the master last decided: by changing a tick, by
\* assigning or by attaching, and an untouched tick decides nothing. It may be
\* otherwise only where a form was older than the row it wrote, a form was
\* rendered without the panel's answer or without the grants, whose readings
\* drop their errors (handlers_master.go:79, :84), rows changed between the
\* reading and the replacing of a save, or the form lost a name with an
\* underscore.
MasterIsObeyed ==
    \A a \in Agents :
        /\ \A u \in Users :
              <<a, u>> \notin clouded => granted[a][u] = wish[a][u]
        /\ \A i \in Inbounds :
              <<a, i>> \notin clouded => inboundGrants[a][i] = wishIn[a][i]

\* Every change an agent makes rests on the permission of its request, and
\* besides, each at some time during the request: from a page of the panel, on
\* the assignment, the permission to modify users, and the account its own or
\* granted for modifying; through a route of a service, on the service its own
\* and on nothing else, not the assignment and not the permission to modify
\* users; a creation, on the assignment and on each of its inbounds granted for
\* creating or, while no inbound was, named by the scope of the assignment.
ActsAreCovered ==
    \A r \in AgentRuns : req[r].pc \in {"acted", "save"} =>
        /\ <<"perm", req[r].perm>> \in held[r]
        /\ req[r].kind # "service" => <<"assigned">> \in held[r]
        /\ req[r].kind = "service" => <<"own">> \in held[r]
        /\ req[r].kind = "page" =>
              /\ <<"perm", "modify_user">> \in held[r]
              /\ <<"own">> \in held[r] \/ <<"granted">> \in held[r]
        /\ req[r].kind = "create" =>
              /\ req[r].inbounds # {}
              /\ \A i \in req[r].inbounds :
                    \/ <<"create", i>> \in held[r]
                    \/ <<"scope", i>> \in held[r]
                         /\ <<"no creates">> \in held[r]
===============================================================================
