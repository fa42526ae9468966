----------------------------- MODULE MCUserLists -----------------------------
(* Three accounts on pages of two. The third is a plain client that fills a *)
(* page; the first takes every state, the second some.                      *)
EXTENDS UserLists, TLC

CONSTANTS u1, u2, u3, a1, a2, i1, i2

MCUsers == {u1, u2, u3}
MCAgents == {a1, a2}
MCInbounds == {i1, i2}

Client(enabled, past, inbounds) ==
    [enabled |-> enabled, past |-> past, inbounds |-> inbounds]
Service(agent, status) == [agent |-> agent, status |-> status]

\* A change turns an account off, removes it or gives it to the first agent.
MCClientStates == {Client(FALSE, FALSE, {i1})}
MCServiceStates == {Service(a1, "active")}

FirstClient == {NoClient, Client(TRUE, FALSE, {i1, i2}),
                Client(TRUE, TRUE, {i1, i2}), Client(FALSE, TRUE, {i1, i2})}
FirstService == {NoService, Service(a1, "active"), Service(a1, "expired"),
                 Service(a2, "disabled")}
SecondClient == {NoClient, Client(TRUE, FALSE, {i2})}
SecondService == {NoService, Service(a1, "active")}

\* What was granted of the first account, and the inbounds a1 may look at.
Grants == {<<{}, {}>>, <<{"view"}, {}>>, <<{}, {i2}>>}

\* A panel that keeps a client per inbound, and the others.
Place(u, inbounds) == [user |-> u, inbounds |-> inbounds]
PlacePerInbound ==
    <<Place(u3, {i1}), Place(u2, {i2}), Place(u1, {i1}), Place(u1, {i2}),
      Place(u2, {i1}), Place(u3, {i2})>>
PlacePerAccount(l) ==
    LET P(u) == Place(u, MCInbounds)
    IN  IF l = "list" THEN <<P(u1), P(u2), P(u3)>> ELSE <<P(u3), P(u2), P(u1)>>

MCWorlds ==
    {[clients |-> (u1 :> c1 @@ u2 :> c2 @@ u3 :> Client(TRUE, FALSE, {i1})),
      services |-> (u1 :> s1 @@ u2 :> s2 @@ u3 :> NoService),
      order |-> IF l \in {"paged", "inbounds"} THEN PlacePerInbound
                ELSE PlacePerAccount(l),
      listing |-> l,
      assigned |-> {a1},
      granted |-> (a1 :> (u1 :> g[1] @@ u2 :> {} @@ u3 :> {})
                   @@ a2 :> (u1 :> {} @@ u2 :> {} @@ u3 :> {"view"})),
      viewable |-> (a1 :> g[2] @@ a2 :> {i1})] :
       c1 \in FirstClient, s1 \in FirstService,
       c2 \in SecondClient, s2 \in SecondService,
       l \in Listings, g \in Grants}

NoFilter == [query |-> FALSE, status |-> "all", source |-> "",
             inbound |-> NoInbound, agent |-> NoAgent]
MasterFilters ==
    {NoFilter}
    \cup {[NoFilter EXCEPT !.status = s] : s \in {"active", "disabled", "expired"}}
    \cup {[NoFilter EXCEPT !.source = s] : s \in {"panel", "hodhod", "both"}}
    \cup {[NoFilter EXCEPT !.query = TRUE], [NoFilter EXCEPT !.inbound = i1],
          [NoFilter EXCEPT !.inbound = i2], [NoFilter EXCEPT !.agent = a1]}
AgentFilters ==
    {NoFilter, [NoFilter EXCEPT !.query = TRUE],
     [NoFilter EXCEPT !.status = "active"], [NoFilter EXCEPT !.status = "disabled"]}
MCReaders ==
    {[viewer |-> Master, whole |-> FALSE, filter |-> f] : f \in MasterFilters}
    \cup {[viewer |-> a1, whole |-> w, filter |-> f] :
             w \in BOOLEAN, f \in AgentFilters}
    \cup {[viewer |-> a2, whole |-> w, filter |-> NoFilter] : w \in BOOLEAN}

MCMatches == u1 :> {"name"} @@ u2 :> {"label"} @@ u3 :> {"note"}
===============================================================================
