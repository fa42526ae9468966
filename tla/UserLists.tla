------------------------------ MODULE UserLists ------------------------------
(***************************************************************************)
(* The console's lists of panel accounts.                                  *)
(*                                                                         *)
(* A list joins two sources that nothing keeps in step: the accounts the   *)
(* panel answers and the services of the store. The master's list of a     *)
(* panel (web/list_panel_accounts.go, web/panel_users_merge.go) asks the   *)
(* panel for one page, and asks for everything and pages in memory when    *)
(* the filter is one the panel does not know. An agent's list starts from  *)
(* what the agent may see. Which accounts a reader finds while turning the *)
(* pages, and what each row says of its account, is decided here.          *)
(*                                                                         *)
(* One request is two steps: what it reads of the store, then what it      *)
(* reads of the panel and shows. The data may change between any two.      *)
(***************************************************************************)
EXTENDS Integers, Sequences, FiniteSets, FiniteSetsExt, SequencesExt,
        Pagination, AgentVisibility

CONSTANTS NoClient, NoService, \* the account is not on the panel, has no service
          Master,              \* the viewer who is no agent
          NoInbound,           \* the empty inbound filter
          PerPage, Cap,        \* rows of a page; most rows of a Marzban answer
          Worlds,              \* the states the data may start in
          Readers,             \* who opens a list with which filter
          Matches,             \* Matches[u]: the texts of u that contain the query
          ClientStates, ServiceStates, \* what a change may turn an account into
          MaxShifts            \* bound on the changes during one walk

ASSUME PagesArePositive == PerPage \in Nat \ {0} /\ Cap \in Nat

\* How a panel answers: 3x-ui with the paged endpoint, 3x-ui with the plain
\* client list, an older 3x-ui with only the inbounds, Marzban.
Listings == {"paged", "list", "inbounds", "marzban"}

PanelClients == [enabled : BOOLEAN, past : BOOLEAN, inbounds : SUBSET Inbounds]
StoreServices == [agent : Agents, status : {"active", "expired", "disabled"}]

\* Where a panel lists an account, if it has it: once, or once for each of its
\* inbounds on a panel that keeps a client per inbound.
Places == [user : Users, inbounds : SUBSET Inbounds]

PanelStates ==
    [clients : [Users -> PanelClients \cup {NoClient}],
     services : [Users -> StoreServices \cup {NoService}],
     order : Seq(Places), listing : Listings,
     assigned : SUBSET Agents,
     granted : [Agents -> [Users -> SUBSET Rights]],
     viewable : [Agents -> SUBSET Inbounds]]

Filters == [query : BOOLEAN, status : {"all", "active", "disabled", "expired"},
            source : {"", "panel", "hodhod", "both"},
            inbound : Inbounds \cup {NoInbound}, agent : Agents \cup {NoAgent}]

ASSUME UsersAreFinite == IsFiniteSet(Users)

\* The values that stand for nothing are not something else.
ASSUME NothingIsApart ==
    /\ NoClient \notin PanelClients /\ NoService \notin StoreServices
    /\ Master \notin Agents /\ NoAgent \notin Agents /\ NoInbound \notin Inbounds

\* The panel's order has a place for every account and each of its inbounds.
ASSUME WorldsAreStates ==
    /\ Worlds \subseteq PanelStates
    /\ \A w \in Worlds : \A u \in Users :
          LET own == {k \in DOMAIN w.order : w.order[k].user = u}
          IN  own # {} /\ Inbounds = UNION {w.order[k].inbounds : k \in own}
    /\ ClientStates \subseteq PanelClients /\ ServiceStates \subseteq StoreServices

\* An agent's page offers the query and the status only (pageCustomers).
ASSUME ReadersAreViewers ==
    /\ Readers \subseteq [viewer : Agents \cup {Master}, whole : BOOLEAN,
                         filter : Filters]
    /\ \A r \in Readers : r.viewer # Master =>
          r.filter.source = "" /\ r.filter.inbound = NoInbound

VARIABLES
    world,   \* the panel's clients, the store's services, the grants
    walk,    \* the reader turning the pages
    read,    \* what the current request has read of the store
    rows,    \* the rows of the page last shown
    shifts   \* number of changes so far, bounded by MaxShifts

listVars == <<world, walk, read, rows, shifts>>

Clients == {u \in Users : world.clients[u] # NoClient}
Serviced == {u \in Users : world.services[u] # NoService}

-----------------------------------------------------------------------------
(* What the panel answers.                                                 *)

\* xuiMapClientRow: the row of the account at a place, on the inbounds the
\* panel lists it for there.
RowAt(k) ==
    LET place == world.order[k]
        c == world.clients[place.user]
    IN  [user |-> place.user, enabled |-> c.enabled, past |-> c.past,
         inbounds |-> c.inbounds \cap place.inbounds]

\* The panel's own order, the latest expiry first.
PanelRows ==
    LET Listed(k) ==
            LET c == world.clients[world.order[k].user]
            IN  /\ c # NoClient
                /\ c.inbounds = {} \/ c.inbounds \cap world.order[k].inbounds # {}
    IN  [k \in {j \in DOMAIN world.order : Listed(j)} |-> RowAt(k)]

Names(list) == {r.user : r \in Range(list)}

\* Mutant: the last row of an account replaces the others and their inbounds.
DedupeLast(list) ==
    {list[k] : k \in {j \in DOMAIN list :
                         \A i \in DOMAIN list : i > j => list[i].user # list[j].user}}

\* One row per account, on all its inbounds. The rows a panel gives of one
\* account differ in their inbounds only.
Dedupe(list) ==
    {[list[k] EXCEPT !.inbounds =
         UNION {r.inbounds : r \in {q \in Range(list) : q.user = list[k].user}}]
     : k \in DOMAIN list}

\* The answers ListUsers may give. The walk over the inbounds collects the
\* accounts in a Go map, whose order is arbitrary; Marzban stops at Cap.
ListUsers ==
    CASE world.listing \in {"paged", "list"} -> {PanelRows}
      [] world.listing = "inbounds" -> SetToSeqs(Dedupe(PanelRows))
      [] world.listing = "marzban" -> {PageOf(PanelRows, 1, Cap)}

\* filterUsersInMemory: the search looks at the name and the note. The paged
\* endpoint filters the same way on its side of the wire.
PanelKeeps(row, f) ==
    /\ f.query => Matches[row.user] \cap {"name", "note"} # {}
    /\ f.status = "disabled" => ~row.enabled
    /\ f.status = "active" => row.enabled /\ ~row.past
    /\ f.status = "expired" => row.past

Passing(list, f) == Restrict(list, {k \in DOMAIN list : PanelKeeps(list[k], f)})

\* ListUsersPaged: the rows of the page and the two totals the panel reports.
\* Without the endpoint everything is loaded and cut in memory, where both
\* totals count the filtered rows.
PagedAnswer(list, f, page) ==
    LET kept == Passing(list, f)
        filtered == Cardinality(DOMAIN kept)
    IN  [rows |-> PageOf(kept, page, PerPage),
         filtered |-> filtered,
         total |-> IF world.listing = "paged" THEN Cardinality(DOMAIN list)
                   ELSE filtered]

ListUsersPaged(f, page) == {PagedAnswer(list, f, page) : list \in ListUsers}

-----------------------------------------------------------------------------
(* Rows of the console.                                                    *)

\* panelUserRowFromPanel: disabled wins over expired.
FromPanel(r) ==
    [user |-> r.user, inbounds |-> r.inbounds, agent |-> NoAgent,
     label |-> FALSE, source |-> "", hodhodOnly |-> FALSE,
     status |-> IF ~r.enabled THEN "disabled"
                ELSE IF r.past THEN "expired" ELSE "active"]

\* panelUserRowFromService: no inbound is known of a service.
FromService(u, svc) ==
    [user |-> u, inbounds |-> {}, agent |-> svc.agent, label |-> TRUE,
     source |-> "", hodhodOnly |-> FALSE, status |-> svc.status]

\* mergePanelUserWithService: a service that is expired or disabled overrides
\* what the panel says of the client.
MergeService(row, svc) ==
    [row EXCEPT !.agent = svc.agent, !.label = TRUE,
                !.status = IF svc.status = "active" THEN @ ELSE svc.status]

\* matchPanelUserFilters. The query looks at the name and, where a service gave
\* the row one, at the label and the agent's name ("label" here). The agent of
\* the filter is not looked at.
MatchesFilter(row, f) ==
    /\ f.query => \/ "name" \in Matches[row.user]
                  \/ "label" \in Matches[row.user] /\ row.label
    /\ f.inbound # NoInbound => f.inbound \in row.inbounds
    /\ f.status # "all" => row.status = f.status
    /\ f.source = "panel" => row.source = "panel"
    /\ f.source = "hodhod" => row.source \in {"hodhod", "both"}
    /\ f.source = "both" => row.source = "both"

\* Filters the panel does not know make the server load and merge everything.
NeedsLocalMerge(f) ==
    f.inbound # NoInbound \/ f.agent # NoAgent \/ f.source # ""

\* The services a list looks at: one agent's when the filter names one.
InScope(services, f) ==
    {u \in Users : /\ services[u] # NoService
                   /\ f.agent # NoAgent => services[u].agent = f.agent}

\* The row of an account the panel listed.
MergedRow(r, services, f) ==
    IF r.user \in InScope(services, f)
    THEN [MergeService(FromPanel(r), services[r.user]) EXCEPT !.source = "both"]
    ELSE [FromPanel(r) EXCEPT !.source = "panel"]

\* The row of a service whose account the panel did not list.
HodhodRow(u, services) ==
    [FromService(u, services[u]) EXCEPT !.source = "hodhod", !.hodhodOnly = TRUE]

Matching(candidates, f) == {row \in candidates : MatchesFilter(row, f)}

\* The pages that may be cut from a set of rows (paginatePanelUserRows): the
\* rows come out of a Go map, in an arbitrary order, anew for every request.
CutPages(all, page) ==
    {[rows |-> part, total |-> Cardinality(all)] :
        part \in kSubset(PageLength(page, PerPage, Cardinality(all)), all)}

\* mergePanelUsers: the listed accounts and, of the services without a listed
\* one, those that are wanted.
Merged(list, services, f, wanted) ==
    Matching({MergedRow(r, services, f) : r \in Dedupe(list)}
               \cup {HodhodRow(u, services) : u \in wanted \ Names(list)}, f)

\* Everything is merged, filtered and cut, the services without a client included.
LocalPages(f, page, services) ==
    UNION {CutPages(Merged(list, services, f, InScope(services, f)), page)
           : list \in ListUsers}

TotalOf(answer) == IF answer.filtered = 0 THEN answer.total ELSE answer.filtered

\* Mutant: the first page gets a row for every service, listed or not.
PagesWithAllServices(f, page, services) ==
    {[rows |-> Matching({MergedRow(r, services, f) : r \in Dedupe(answer.rows)}
                          \cup {HodhodRow(u, services) : u \in InScope(services, f)}, f),
      total |-> TotalOf(answer)]
     : answer \in ListUsersPaged(f, page)}

\* mergePanelUsersPage: one page of the panel is merged, and the first page
\* also gets a row for every service whose account is not on it. The total is
\* the panel's count of the filtered rows, or of all rows when that is 0.
PanelPages(f, page, services) ==
    {[rows |-> Merged(answer.rows, services, f,
                      IF page <= 1 THEN InScope(services, f) ELSE {}),
      total |-> TotalOf(answer)]
     : answer \in ListUsersPaged(f, page)}

\* panelUsersHodhodData: the services without a client; a panel that does not
\* answer is taken for an empty one. The row is matched before its source is
\* set, so the filter that leads here drops every row.
HodhodPages(f, page, services) ==
    {LET kept == {u \in InScope(services, f) \ Names(list) :
                     MatchesFilter(FromService(u, services[u]), f)}
     IN  [rows |-> {HodhodRow(u, services) : u \in kept},
          total |-> Cardinality(kept)]
     : list \in ListUsers \cup {<<>>}}

\* loadPanelUsersViewData and listMasterPanelAccounts choose the way.
MasterPages(f, page, services) ==
    IF f.source = "hodhod" THEN HodhodPages(f, page, services)
    ELSE IF NeedsLocalMerge(f) THEN LocalPages(f, page, services)
    ELSE PanelPages(f, page, services)

-----------------------------------------------------------------------------
(* An agent's list.                                                        *)

\* What the agent sees, from the store and, for inbounds it may look at, from
\* a listing of the panel (buildAgentVisibleUsers). A listing that fails
\* leaves the inbounds out and says nothing.
AgentVisible(agent, whole, list) ==
    LET own == {u \in Serviced : world.services[u].agent = agent}
        listed == [u \in Users |->
                      UNION {r.inbounds : r \in {q \in Range(list) : q.user = u}}]
    IN  IF whole
        THEN VisibleEverywhere(agent \in world.assigned, own,
                               world.granted[agent], world.viewable[agent], listed)
        ELSE VisibleUsers(agent \in world.assigned, own,
                          world.granted[agent], world.viewable[agent], listed)

\* agentCustomerRow: the row of a visible account, from a second reading of
\* the agent's services, which may fail and then is empty, and of the panel.
\* Without the panel's answer the row has a name and nothing else.
AgentRow(u, v, agent, answered, told, listed) ==
    LET bare == [user |-> u, inbounds |-> {}, agent |-> NoAgent, label |-> FALSE,
                 source |-> "", hodhodOnly |-> FALSE, status |-> ""]
        still == told /\ u \in Serviced /\ world.services[u].agent = agent
        panel == {r \in listed : r.user = u}
    IN  IF ~answered THEN bare
        ELSE IF panel = {}
        THEN IF v.own /\ still THEN FromService(u, world.services[u]) ELSE bare
        ELSE LET r == CHOOSE q \in panel : TRUE
             IN  IF ~v.own THEN [FromPanel(r) EXCEPT !.source = "panel"]
                 ELSE IF still THEN MergeService(FromPanel(r), world.services[u])
                 ELSE bare

\* listAgentPanelAccounts: the visible accounts that pass the filter, in the
\* order of a Go map.
AgentPages(agent, f, page, visible, answered, told, list) ==
    LET seen == {u \in Users : CanView(visible[u])}
        all == Matching({AgentRow(u, visible[u], agent, answered, told,
                                  Dedupe(list)) : u \in seen}, f)
    IN  CutPages(all, page)

-----------------------------------------------------------------------------
(* Turning the pages.                                                      *)

NoReader == [viewer |-> Master, whole |-> FALSE,
             filter |-> [query |-> FALSE, status |-> "all", source |-> "",
                         inbound |-> NoInbound, agent |-> NoAgent]]

Closed == [pc |-> "closed", reader |-> NoReader, page |-> 1, pages |-> 1,
           shown |-> {}, steady |-> TRUE, fresh |-> FALSE, ordered |-> TRUE,
           answered |-> TRUE]

ListsInit ==
    /\ world \in Worlds
    /\ walk = Closed
    /\ read = [services |-> [u \in Users |-> NoService], told |-> TRUE,
               visible |-> [u \in Users |-> [own |-> FALSE, grant |-> {},
                                             inbound |-> FALSE]]]
    /\ rows = {}
    /\ shifts = 0

Filter == walk.reader.filter
Viewer == walk.reader.viewer

\* Someone opens a list at its first page.
Open(reader) ==
    /\ walk.pc = "closed"
    /\ walk' = [Closed EXCEPT !.pc = "store", !.reader = reader]
    /\ UNCHANGED <<world, read, rows, shifts>>

\* Mutant: the answer of the store before is used for every later page.
ReadServicesOnce ==
    /\ walk.pc = "store" /\ Viewer = Master
    /\ read' = IF walk.page > 1 THEN read
               ELSE [read EXCEPT !.services = world.services, !.told = TRUE]
    /\ walk' = [walk EXCEPT !.pc = "panel", !.fresh = TRUE]
    /\ UNCHANGED <<world, rows, shifts>>

\* The request reads the store: all services of the panel for the master. A
\* reading that fails is dropped, and the page is made as if there were none.
ReadServices ==
    /\ walk.pc = "store" /\ Viewer = Master
    /\ \E told \in BOOLEAN :
          /\ read' = [read EXCEPT
                !.services = IF told THEN world.services
                             ELSE [u \in Users |-> NoService],
                !.told = told]
          /\ walk' = [walk EXCEPT !.pc = "panel", !.fresh = TRUE,
                                  !.answered = @ /\ told]
    /\ UNCHANGED <<world, rows, shifts>>

\* For an agent it works out what the agent sees, for which it lists the
\* panel when the agent may look at inbounds. That listing may fail.
ReadVisible ==
    /\ walk.pc = "store" /\ Viewer # Master
    /\ LET asks == Viewer \in world.assigned /\ world.viewable[Viewer] # {}
       IN  \E answered \in {TRUE, ~asks},
              list \in ListUsers :
              /\ read' = [read EXCEPT !.visible =
                             AgentVisible(Viewer, walk.reader.whole,
                                          IF asks /\ answered THEN list ELSE <<>>)]
              /\ walk' = [walk EXCEPT !.pc = "panel", !.fresh = TRUE,
                                      !.answered = @ /\ answered]
    /\ UNCHANGED <<world, rows, shifts>>

\* The page is shown; the reader goes on while there is a next page.
Show(answer, ordered, answered) ==
    LET pages == TotalPages(answer.total, PerPage)
        next == HasNext(walk.page, PerPage, answer.total)
    IN  /\ rows' = answer.rows
        /\ walk' = [walk EXCEPT
              !.pc = IF next THEN "store" ELSE "done",
              !.page = IF next THEN @ + 1 ELSE @,
              !.pages = pages,
              !.shown = @ \cup {row.user : row \in answer.rows},
              !.ordered = @ /\ (ordered \/ pages = 1),
              !.answered = @ /\ answered]

\* The master's page: the panel's order is kept only when the panel pages.
ShowToMaster ==
    /\ walk.pc = "panel" /\ Viewer = Master
    /\ \E answer \in MasterPages(Filter, walk.page, read.services) :
          Show(answer, ~NeedsLocalMerge(Filter) /\ world.listing # "inbounds", TRUE)
    /\ UNCHANGED <<world, read, shifts>>

\* The panel does not answer the master's list, or the store does not say what
\* an agent sees: an error and no rows.
ListFails ==
    /\ walk.pc = IF Viewer = Master THEN "panel" ELSE "store"
    /\ walk' = [walk EXCEPT !.pc = "failed"]
    /\ rows' = {}
    /\ UNCHANGED <<world, read, shifts>>

\* The agent's page. Only panels the agent is assigned to are asked. When the
\* store fails to list them, or the agent's services, the page is made without.
ShowToAgent ==
    /\ walk.pc = "panel" /\ Viewer # Master
    /\ LET asks == Viewer \in world.assigned
       IN  \E answered \in {FALSE, asks}, told \in BOOLEAN, list \in ListUsers :
           \E answer \in AgentPages(Viewer, Filter, walk.page, read.visible,
                         answered, told, IF answered THEN list ELSE <<>>) :
              Show(answer, FALSE, (answered \/ ~asks) /\ told)
    /\ UNCHANGED <<world, read, shifts>>

\* Someone else changes the data between two steps of the reader.
Change(newWorld) ==
    /\ walk.pc \in {"store", "panel"} /\ shifts < MaxShifts
    /\ newWorld # world
    /\ world' = newWorld
    /\ shifts' = shifts + 1
    /\ walk' = [walk EXCEPT !.steady = FALSE, !.fresh = FALSE]
    /\ UNCHANGED <<read, rows>>

PanelChanges(u) ==
    \E c \in ClientStates \cup {NoClient} :
        Change([world EXCEPT !.clients[u] = c])

StoreChanges(u) ==
    \E s \in ServiceStates \cup {NoService} :
        Change([world EXCEPT !.services[u] = s])

GrantRevoked(a, u) == Change([world EXCEPT !.granted[a][u] = {}])

ListsNext ==
    \/ \E reader \in Readers : Open(reader)
    \/ ReadServices \/ ReadVisible
    \/ ShowToMaster \/ ListFails \/ ShowToAgent
    \/ \E u \in Users : PanelChanges(u) \/ StoreChanges(u)
    \/ \E a \in Agents, u \in Users : GrantRevoked(a, u)

ListsSpec == ListsInit /\ [][ListsNext]_listVars

-----------------------------------------------------------------------------
(* Properties.                                                             *)

\* The whole list of the panel fits what Marzban answers.
NotCut == world.listing = "marzban" => Cardinality(DOMAIN PanelRows) <= Cap

\* Panel and store agree that the account is in the state filtered for. When
\* they differ, the panel's filter and the merged row look at different ones.
HasStatus(u, f) ==
    \/ f.status = "all"
    \/ /\ u \in Clients \cup Serviced
       /\ u \in Clients =>
             f.status = (IF ~world.clients[u].enabled THEN "disabled"
                         ELSE IF world.clients[u].past THEN "expired"
                         ELSE "active")
       /\ u \in Serviced =>
             world.services[u].status \in
                {f.status} \cup (IF u \in Clients THEN {"active"} ELSE {})

\* The accounts a filter of the master's list describes, by name.
Described(f) ==
    LET scoped == InScope(world.services, f)
    IN  {u \in Clients \cup scoped :
            /\ f.query => "name" \in Matches[u]
            /\ HasStatus(u, f)
            /\ f.inbound # NoInbound =>
                  u \in Clients /\ f.inbound \in world.clients[u].inbounds
            /\ f.agent # NoAgent => u \in scoped
            /\ f.source = "panel" => u \in Clients \ scoped
            /\ f.source = "both" => u \in Clients \cap scoped}

\* The links lead on from every page of lists with and without gaps.
LinksLead ==
    \A pages \in 1..12 : \A page \in 0..(pages + 2) : LinksLeadOn(page, pages)

\* A master who turns all pages of a list that does not change meanwhile, in
\* an order that stays, has seen every account the filter describes, unless
\* the store failed to answer for one of the pages, which no page shows: no
\* page boundary, total, duplicate row or merge loses one, and the links lead
\* on.
NothingMissed ==
    /\ /\ walk.pc = "done" /\ Viewer = Master /\ Filter.source # "hodhod"
       /\ walk.steady /\ walk.ordered /\ walk.answered /\ NotCut
       => Described(Filter) \subseteq walk.shown
    /\ LinksLead

\* What a row of the master's list says of its account was so while the page
\* was made: where the account exists, and whose service it is. "On the panel
\* only" leaves the service open when the store failed to answer, which the
\* page does not show. "Not on the panel" can be relied on only when the
\* panel's whole list was merged: the first page of several, or of a filtered
\* list, says it of the accounts on the other pages.
BadgesAreTrue ==
    walk.fresh /\ walk.pc \in {"store", "done"} /\ Viewer = Master
    => \A row \in rows :
          /\ row.source = "both" => row.user \in Clients \cap Serviced
          /\ row.source = "panel" =>
                /\ row.user \in Clients
                /\ read.told => row.user \notin InScope(world.services, Filter)
          /\ row.hodhodOnly => row.user \in Serviced
          /\ row.hodhodOnly /\ NotCut
               /\ (\/ NeedsLocalMerge(Filter)
                   \/ walk.pages = 1 /\ ~Filter.query /\ Filter.status = "all")
             => row.user \notin Clients
          /\ row.label => row.agent = world.services[row.user].agent

\* What an agent may look at, said from the grants.
MayView(a) ==
    LET reached == a \in world.assigned
    IN  {u \in Users :
            \/ /\ reached \/ walk.reader.whole
               /\ \/ u \in Serviced /\ world.services[u].agent = a
                  \/ world.granted[a][u] # {}
            \/ /\ reached /\ u \in Clients
               /\ world.clients[u].inbounds \cap world.viewable[a] # {}}

\* An agent's list of unchanged data shows no account the agent may not look
\* at, whatever fails. It shows every one the agent may look at, through a
\* service, a grant or an inbound, when one page held them all and both the
\* panel and the store answered: a failed second reading of the services is
\* dropped, and a status filter then loses the agent's own accounts.
AgentSeesOwn ==
    walk.pc = "done" /\ Viewer # Master /\ walk.steady
    => /\ walk.shown \subseteq MayView(Viewer)
       /\ walk.ordered /\ walk.answered /\ NotCut =>
             {u \in MayView(Viewer) :
                 /\ Filter.query => "name" \in Matches[u]
                 /\ Viewer \in world.assigned \/ Filter.status = "all"
                 /\ HasStatus(u, Filter)
                 /\ u \in Serviced => world.services[u].agent = Viewer
                                      \/ Filter.status = "all"
                                      \/ u \in Clients} \subseteq walk.shown
===============================================================================
