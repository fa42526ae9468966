--------------------------- MODULE AgentVisibility ---------------------------
(***************************************************************************)
(* Which panel accounts an agent sees, and which of them it may change     *)
(* (src/internal/web/agent_access.go), as operators over one panel.        *)
(*                                                                         *)
(* An account is visible for any of three reasons: the agent has a service *)
(* of that name, the account was granted to it, or the account sits on an  *)
(* inbound whose accounts the agent may look at. Only the first two can    *)
(* make it modifiable.                                                     *)
(***************************************************************************)
CONSTANTS Users, Inbounds, \* of one panel
          Agents,
          NoAgent          \* the agent of what belongs to none

\* What a grant row may allow.
Rights == {"view", "modify"}

\* Whether a listed account sits on one of the inbounds.
UserOnInbound(inbounds, wanted) == inbounds \cap wanted # {}

\* buildAgentVisibleUsers for one panel: why each account is visible.
\* own      the accounts the agent has a service for
\* granted  the rights of the agent's grant row, {} without a row
\* listed   the inbounds of each account the panel listed, {} for the others
\* A page of one panel shows nothing of a panel the agent is not assigned to.
VisibleUsers(assigned, own, granted, viewable, listed) ==
    [u \in DOMAIN granted |->
        [own |-> assigned /\ u \in own,
         grant |-> IF assigned THEN granted[u] ELSE {},
         inbound |-> assigned /\ UserOnInbound(listed[u], viewable)]]

\* The page of all panels drops the assignment test for services and grants
\* and looks at the inbounds of assigned panels only.
VisibleEverywhere(assigned, own, granted, viewable, listed) ==
    [u \in DOMAIN granted |->
        [own |-> u \in own,
         grant |-> granted[u],
         inbound |-> assigned /\ UserOnInbound(listed[u], viewable)]]

\* Mutant: the inbound no longer makes an account visible.
ViewedByGrantOnly(v) == v.own \/ v.grant # {}

\* Any reason is enough to see the account.
CanView(v) == v.own \/ v.grant # {} \/ v.inbound

\* Mutant: a grant to look at an account is taken for one to change it.
ModifiedByView(v, hasPerm) == hasPerm /\ (v.own \/ v.grant # {})

\* Changing takes the agent's permission and an own service or a grant to
\* modify; seeing the account through its inbound is not enough.
CanModify(v, hasPerm) == hasPerm /\ (v.own \/ "modify" \in v.grant)
===============================================================================
