---------------------------- MODULE MCAgentAccess ----------------------------
(* One agent, two accounts, one of them with an underscore in its name, and *)
(* one inbound; two browsers of the master and one of the agent. The agent  *)
(* never has the permissions to add volume and to reset usage, which the    *)
(* code treats like the one to add time, and on the pages like the one to   *)
(* disable.                                                                 *)
EXTENDS AgentAccess, TLC

CONSTANTS a1, u1, u2, i1, m1, m2, g1

MCAgents == {a1}
MCUsers == {u1, u2}
MCUnderscored == {u2}
MCInbounds == {i1}
MCMasterRuns == {m1, m2}
MCAgentRuns == {g1}
MCSymmetry == Permutations(MCMasterRuns)

MCPermissions == Permissions \ {"add_volume", "reset_usage"}
MCPermissionSets == {{}, MCPermissions, {"disable_enable"}}

\* A panel not assigned yet, and one whose agent has some of everything: it may
\* create by a grant, or by the scope of an older assignment.
MCBeginnings ==
    {[clients |-> (u1 :> {i1} @@ u2 :> {i1}),
      service |-> (u1 :> NoAgent @@ u2 :> NoAgent),
      assigned |-> {}, scope |-> (a1 :> {}), perms |-> (a1 :> {}),
      granted |-> (a1 :> NoRights), inboundGrants |-> (a1 :> NoInbounds)]}
    \cup
    {[clients |-> (u1 :> {i1} @@ u2 :> n[1]),
      service |-> (u1 :> o[1] @@ u2 :> NoAgent),
      assigned |-> {a1}, scope |-> (a1 :> n[3]),
      perms |-> (a1 :> MCPermissions),
      granted |-> (a1 :> (u1 :> o[2] @@
                          u2 :> IF n[1] = {} THEN {} ELSE Rights)),
      inboundGrants |-> (a1 :> (i1 :> n[2]))] :
        n \in {<<{}, {"create"}, {}>>, <<{}, {}, {i1}>>, <<{i1}, {"view"}, {}>>},
        o \in {<<NoAgent, {"view"}>>, <<a1, {}>>}}
===============================================================================
