---------------------------- MODULE ConsoleAccess ----------------------------
(***************************************************************************)
(* Who gets into the web console, and where.                               *)
(*                                                                         *)
(* Agents log in on the main host or on a host of their own                *)
(* (web/handlers_auth.go, web/host.go) and change their password, which    *)
(* ends their other sessions (web/handlers_account.go). The master resets  *)
(* passwords, suspends agents, gives them domains, verifies these by DNS   *)
(* and switches them on (web/handlers_master.go, db/repo_domains.go,       *)
(* domains/verify.go).                                                     *)
(*                                                                         *)
(* Each request reads, decides and writes in separate steps, and what it   *)
(* read may have changed when it writes.                                   *)
(***************************************************************************)
EXTENDS Naturals

CONSTANTS Agents,
          Domains,
          Main,         \* the platform's host
          NoDomain,
          NoAgent,
          Beginnings,   \* the states of the agents' rows to begin with
          Runs,         \* requests that may be under way at once
          MaxStarts     \* bound on the requests

ASSUME NamesDiffer ==
    Main \notin Domains /\ NoDomain \notin Domains /\ NoAgent \notin Agents

\* At first every domain has a token and one agent, and what is verified was
\* verified with that token.
ASSUME BeginningsAreProven ==
    \A b \in Beginnings :
        /\ b.domain \in [Agents -> Domains \cup {NoDomain}]
        /\ b.token \in [Agents -> Nat] /\ b.verified \in [Agents -> Nat]
        /\ b.enabled \in [Agents -> BOOLEAN]
        /\ \A x \in Agents :
              /\ b.verified[x] \in {0, b.token[x]}
              /\ b.enabled[x] => b.verified[x] # 0
              /\ b.domain[x] # NoDomain =>
                    /\ b.token[x] # 0
                    /\ \A y \in Agents \ {x} : b.domain[y] # b.domain[x]

VARIABLES
    password,  \* of each agent's login, as the number of the change that set it
    suspended, \* the agents whose status is disabled
    domain, token, verified, enabled, \* custom_domain, domain_verify_token, ...
    sessions,  \* the rows of sessions
    run,       \* the requests under way
    lastOwn,   \* each agent's latest own change of password
    spoilt,    \* agents with a sweep that failed, a domain marked out of turn
    starts

rows == <<password, suspended, domain, token, verified, enabled>>
history == <<lastOwn, spoilt>>
vars == <<rows, sessions, run, history, starts>>

\* A verification token or a password is as good as the number of its change.
Idle == [pc |-> "idle", kind |-> "none", agent |-> NoAgent, host |-> Main,
         owner |-> NoAgent, gave |-> 0, copy |-> 0, session |-> 0,
         domain |-> NoDomain, token |-> 0, late |-> FALSE, raced |-> FALSE,
         moved |-> FALSE, before |-> FALSE]

Init ==
    /\ \E b \in Beginnings :
          /\ domain = b.domain /\ verified = b.verified /\ enabled = b.enabled
          /\ token = b.token
    /\ password = [a \in Agents |-> 0] /\ suspended = {}
    /\ sessions = {}
    /\ run = [r \in Runs |-> Idle]
    /\ lastOwn = [a \in Agents |-> [session |-> 0, number |-> 0]]
    /\ spoilt = [sweep |-> {}, domain |-> {}]
    /\ starts = 0

At(r, pc) == run[r].pc = pc
Goto(r, pc) == run' = [run EXCEPT ![r].pc = pc]
Finish(r) == run' = [run EXCEPT ![r] = Idle]
ReadsOnly == UNCHANGED <<rows, sessions, history, starts>>
Reject(r) == Finish(r) /\ ReadsOnly

-----------------------------------------------------------------------------
(* Hosts.                                                                  *)

IsLive(a) == enabled[a] /\ verified[a] # 0

\* HostMiddleware: a host is the platform's, or that of the agent whose
\* domain it is, verified and enabled. Another host is not found.
Serves(host, a) == IF host = Main THEN a = NoAgent
                   ELSE a \in Agents /\ domain[a] = host /\ IsLive(a)

-----------------------------------------------------------------------------
(* Logins.                                                                 *)

\* postLogin on some host.
StartLogin(r, a, host, owner) ==
    /\ At(r, "idle") /\ starts < MaxStarts
    /\ Serves(host, owner)
    /\ starts' = starts + 1
    /\ run' = [run EXCEPT ![r] =
                 [Idle EXCEPT !.pc = "password", !.kind = "login", !.agent = a,
                              !.host = host, !.owner = owner,
                              !.session = starts + 1]]
    /\ UNCHANGED <<rows, sessions, history>>

\* The password given is the one of the row read.
PasswordFits(r) ==
    /\ At(r, "password")
    /\ run' = [run EXCEPT ![r].gave = password[run[r].agent], ![r].pc = "status"]
    /\ ReadsOnly

\* It is not.
PasswordWrong(r) == At(r, "password") /\ Reject(r)

\* Mutant: an agent may log in on another agent's host.
MayEnterAnyHost(r) == run[r].agent \notin suspended

\* A suspended agent stays out; an agent's host lets only that agent in.
MayEnter(r) ==
    run[r].agent \notin suspended /\ run[r].owner \in {NoAgent, run[r].agent}

\* The status is read after the password; then the host is compared.
StatusFits(r) ==
    /\ At(r, "status") /\ MayEnter(r)
    /\ Goto(r, "open")
    /\ ReadsOnly

StatusForbids(r) == At(r, "status") /\ ~MayEnter(r) /\ Reject(r)

\* createSession.
OpenSession(r) ==
    /\ At(r, "open")
    /\ sessions' = sessions \cup
         {[id |-> run[r].session, agent |-> run[r].agent, host |-> run[r].host,
           gave |-> run[r].gave, late |-> run[r].late, moved |-> run[r].moved,
           before |-> run[r].before]}
    /\ Finish(r)
    /\ UNCHANGED <<rows, history, starts>>

OpenFails(r) == At(r, "open") /\ Reject(r)

\* postLogout, or the session's seven days are over.
EndSession(s) ==
    /\ sessions' = sessions \ {s}
    /\ UNCHANGED <<rows, run, history, starts>>

-----------------------------------------------------------------------------
(* Passwords.                                                              *)

\* A new password is saved: runs that read the old one are late or raced.
Save(a) ==
    /\ password' = [password EXCEPT ![a] = @ + 1]
    /\ UNCHANGED <<suspended, domain, token, verified, enabled>>

Overtaken(a) ==
    [q \in Runs |->
       IF run[q].agent # a THEN run[q]
       ELSE IF run[q].pc \in {"status", "open"} THEN [run[q] EXCEPT !.late = TRUE]
       ELSE IF run[q].pc = "save" THEN [run[q] EXCEPT !.raced = TRUE]
       ELSE run[q]]

\* postAccountPassword begins with a session and the row of its agent.
StartChange(r, s) ==
    /\ At(r, "idle") /\ starts < MaxStarts
    /\ starts' = starts + 1
    /\ run' = [run EXCEPT ![r] =
                 [Idle EXCEPT !.pc = "check", !.kind = "change",
                              !.agent = s.agent, !.session = s.id,
                              !.copy = password[s.agent]]]
    /\ UNCHANGED <<rows, sessions, history>>

\* Mutant: the current password is compared with the row the request came with.
ComparedCopy(r) == run[r].copy

\* The row is read again, and the current password compared with that.
Compared(r) == password[run[r].agent]

CheckFits(r) ==
    /\ At(r, "check")
    /\ run' = [run EXCEPT ![r].gave = Compared(r), ![r].copy = 0, ![r].pc = "save"]
    /\ ReadsOnly

\* It differs, or the new one is short or mistyped.
CheckFails(r) == At(r, "check") /\ Reject(r)

\* The row read at the check is saved whole.
SaveOwn(r) ==
    /\ At(r, "save")
    /\ Save(run[r].agent)
    /\ lastOwn' = [lastOwn EXCEPT ![run[r].agent] =
                     [session |-> run[r].session, number |-> password'[run[r].agent]]]
    /\ run' = [Overtaken(run[r].agent) EXCEPT ![r] =
                 [Idle EXCEPT !.pc = "sweep", !.kind = "change",
                              !.agent = run[r].agent, !.session = run[r].session]]
    /\ UNCHANGED <<sessions, spoilt, starts>>

SaveOwnFails(r) == At(r, "save") /\ Reject(r)

\* Mutant: the session of the change goes and the others stay.
SweptKept(r) ==
    {s \in sessions : s.agent # run[r].agent \/ s.id # run[r].session}

\* DeleteSessionsByAdminExcept: what is left without the agent's sessions but
\* the one of the change.
Swept(r) ==
    {s \in sessions : s.agent # run[r].agent \/ s.id = run[r].session}

Sweep(r) ==
    /\ At(r, "sweep")
    /\ sessions' = Swept(r)
    /\ spoilt' = IF run[r].session = lastOwn[run[r].agent].session
                 THEN [spoilt EXCEPT !.sweep = @ \ {run[r].agent}] ELSE spoilt
    /\ Finish(r)
    /\ UNCHANGED <<rows, lastOwn, starts>>

\* Its error is ignored; a crash has the same effect.
SweepFails(r) ==
    /\ At(r, "sweep")
    /\ spoilt' = [spoilt EXCEPT !.sweep = @ \cup {run[r].agent}]
    /\ Finish(r)
    /\ UNCHANGED <<rows, sessions, lastOwn, starts>>

-----------------------------------------------------------------------------
(* The master's forms.                                                     *)

Post == starts < MaxStarts /\ starts' = starts + 1

StartForm(r, new) ==
    /\ At(r, "idle") /\ Post
    /\ run' = [run EXCEPT ![r] = new]
    /\ UNCHANGED <<rows, sessions, history>>

\* postAgentResetPassword: the sessions stay.
ResetPassword(a) ==
    /\ Post
    /\ Save(a)
    /\ run' = Overtaken(a)
    /\ UNCHANGED <<sessions, history>>

\* postAgentUpdate writes the status. Sessions that are open, or about to be,
\* outlive a suspension.
SetStatus(a, disabled) ==
    /\ Post
    /\ suspended' = IF disabled THEN suspended \cup {a} ELSE suspended \ {a}
    /\ sessions' = {IF s.agent = a THEN [s EXCEPT !.before = disabled] ELSE s :
                       s \in sessions}
    /\ run' = [q \in Runs |-> IF run[q].agent = a /\ At(q, "open")
                              THEN [run[q] EXCEPT !.before = disabled] ELSE run[q]]
    /\ UNCHANGED <<password, domain, token, verified, enabled,
                   history>>

\* postAgentDomain: a domain another agent has is refused.
StartSetDomain(r, a, d) ==
    /\ \A b \in Agents \ {a} : d = NoDomain \/ domain[b] # d
    /\ StartForm(r, [Idle EXCEPT !.pc = "set", !.kind = "set", !.agent = a,
                                 !.domain = d])

\* What a change of a's domain overtakes: verifications and switches of it,
\* sessions and logins on its host.
Displaced(a) ==
    [q \in Runs |->
       IF run[q].agent = a /\ run[q].kind \in {"verify", "switch"}
       THEN [run[q] EXCEPT !.raced = TRUE]
       ELSE IF run[q].owner = a THEN [run[q] EXCEPT !.moved = TRUE]
       ELSE run[q]]

\* Mutant: the new domain inherits the verification of the old one.
SetDomainKeepsVerified(r) ==
    LET a == run[r].agent
    IN  /\ At(r, "set")
        /\ domain' = [domain EXCEPT ![a] = run[r].domain]
        /\ token' = [token EXCEPT ![a] = @ + 1]
        /\ enabled' = [enabled EXCEPT ![a] = FALSE]
        /\ run' = [Displaced(a) EXCEPT ![r] = Idle]
        /\ UNCHANGED <<password, suspended, verified, sessions,
                       history, starts>>

\* SetAgentDomain: a new token, not verified, not enabled. The index refuses a
\* domain that another agent got since the look-up.
SetDomain(r) ==
    LET a == run[r].agent
    IN  /\ At(r, "set")
        /\ \A b \in Agents \ {a} :
              run[r].domain = NoDomain \/ domain[b] # run[r].domain
        /\ domain' = [domain EXCEPT ![a] = run[r].domain]
        /\ token' = [token EXCEPT ![a] = @ + 1]
        /\ verified' = [verified EXCEPT ![a] = 0]
        /\ enabled' = [enabled EXCEPT ![a] = FALSE]
        /\ spoilt' = [spoilt EXCEPT !.domain = @ \ {a}]
        /\ sessions' = {IF s.host = domain[a] THEN [s EXCEPT !.moved = TRUE] ELSE s :
                           s \in sessions}
        /\ run' = [Displaced(a) EXCEPT ![r] = Idle]
        /\ UNCHANGED <<password, suspended, lastOwn, starts>>

SetDomainFails(r) == At(r, "set") /\ Reject(r)

\* postAgentVerifyDomain reads the agent and then asks DNS about that domain.
StartVerify(r, a) ==
    /\ domain[a] # NoDomain
    /\ StartForm(r, [Idle EXCEPT !.pc = "lookup", !.kind = "verify", !.agent = a,
                                 !.domain = domain[a], !.token = token[a]])

\* Verify: the text record of the domain holds the token read, or its name is
\* the platform's. DNS is not ours: it may say so or not.
LookupFits(r) ==
    /\ At(r, "lookup")
    /\ Goto(r, "mark")
    /\ ReadsOnly

LookupFails(r) == At(r, "lookup") /\ Reject(r)

\* MarkAgentDomainVerified, whatever domain the agent has by now.
Mark(r) ==
    LET a == run[r].agent
    IN  /\ At(r, "mark")
        /\ verified' = [verified EXCEPT ![a] = run[r].token]
        /\ spoilt' = IF run[r].raced THEN [spoilt EXCEPT !.domain = @ \cup {a}]
                     ELSE spoilt
        /\ Finish(r)
        /\ UNCHANGED <<password, suspended, domain, token, enabled, sessions,
                       lastOwn, starts>>

\* SetAgentDomainEnabled reads the agent; only a verified domain is enabled.
StartSwitch(r, a, on) ==
    /\ on => verified[a] # 0 /\ domain[a] # NoDomain
    /\ StartForm(r, [Idle EXCEPT !.pc = IF on THEN "enable" ELSE "disable",
                                 !.kind = "switch", !.agent = a])

Switch(r) ==
    LET a == run[r].agent
    IN  /\ At(r, "enable") \/ At(r, "disable")
        /\ enabled' = [enabled EXCEPT ![a] = At(r, "enable")]
        /\ spoilt' = IF run[r].raced THEN [spoilt EXCEPT !.domain = @ \cup {a}]
                     ELSE spoilt
        /\ Finish(r)
        /\ UNCHANGED <<password, suspended, domain, token, verified, sessions,
                       lastOwn, starts>>

FormFails(r) == (At(r, "mark") \/ At(r, "enable") \/ At(r, "disable")) /\ Reject(r)

-----------------------------------------------------------------------------
AgentStep(r) ==
    \/ \E a \in Agents, h \in Domains \cup {Main}, o \in Agents \cup {NoAgent} :
          StartLogin(r, a, h, o)
    \/ PasswordFits(r) \/ PasswordWrong(r) \/ StatusFits(r) \/ StatusForbids(r)
    \/ OpenSession(r) \/ OpenFails(r)
    \/ \E s \in sessions : StartChange(r, s)
    \/ CheckFits(r) \/ CheckFails(r) \/ SaveOwn(r) \/ SaveOwnFails(r)
    \/ Sweep(r) \/ SweepFails(r)

MasterStep(r) ==
    \/ \E a \in Agents, d \in Domains \cup {NoDomain} : StartSetDomain(r, a, d)
    \/ SetDomain(r) \/ SetDomainFails(r)
    \/ \E a \in Agents : StartVerify(r, a)
    \/ LookupFits(r) \/ LookupFails(r) \/ Mark(r)
    \/ \E a \in Agents, on \in BOOLEAN : StartSwitch(r, a, on)
    \/ Switch(r) \/ FormFails(r)

Next ==
    \/ \E r \in Runs : AgentStep(r) \/ MasterStep(r)
    \/ \E s \in sessions : EndSession(s)
    \/ \E a \in Agents : ResetPassword(a) \/ \E b \in BOOLEAN : SetStatus(a, b)

Spec == Init /\ [][Next]_vars

-----------------------------------------------------------------------------
(* Properties.                                                             *)

\* An agent's own change of password ends the other sessions, as the form
\* promises (account_password): once the change is through, a session opened
\* with an older password is the one that made the change, or was opened by a
\* login that had compared passwords before it, or the deletion failed, which
\* the code ignores. Two changes at once leave at most the later one's.
SessionsFollowPassword ==
    \A s \in sessions :
        s.gave < lastOwn[s.agent].number =>
            \/ s.id = lastOwn[s.agent].session \/ s.late
            \/ s.agent \in spoilt.sweep
            \/ \E r \in Runs : At(r, "sweep") /\ run[r].agent = s.agent

\* An own change replaces only the password that was given for it, so that it
\* does not undo a reset by the master, unless the password is changed again
\* between the comparison with the fresh row and the save.
ResetStands ==
    [][\A r \in Runs :
         At(r, "save") /\ run'[r].pc # "save"
            /\ password'[run[r].agent] # password[run[r].agent]
         => run[r].gave = password[run[r].agent] \/ run[r].raced]_vars

\* An agent's host is a domain no other agent has, verified with the token it
\* got with that domain and switched on after that; except when the domain
\* was replaced during a look-up or a switch, which then counts for the new one.
LiveDomainIsProven ==
    \A a \in Agents :
        /\ a \notin spoilt.domain =>
              verified[a] \in {0, token[a]} /\ (enabled[a] => verified[a] # 0)
        /\ domain[a] # NoDomain => \A b \in Agents \ {a} : domain[b] # domain[a]

\* A session of a suspended agent was let in before the suspension, and one on
\* an agent's host is that agent's, unless the host has changed hands since its
\* login began.
EntryIsChecked ==
    \A s \in sessions :
        /\ s.agent \in suspended => s.before
        /\ s.host # Main /\ ~s.moved => domain[s.agent] = s.host
===============================================================================
