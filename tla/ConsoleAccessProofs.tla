------------------------- MODULE ConsoleAccessProofs -------------------------
(***************************************************************************)
(* What ConsoleAccess promises, for any number of agents, domains and      *)
(* requests. No property is inductive: each speaks of what a request in    *)
(* flight is about to write. RunRight says what such a request relies on.  *)
(***************************************************************************)
EXTENDS ConsoleAccess, TLAPS

Places == {"idle", "password", "status", "open", "check", "save", "sweep",
           "set", "lookup", "mark", "enable", "disable"}
Kinds == {"none", "login", "change", "set", "verify", "switch"}

RequestType ==
    [pc : Places, kind : Kinds,
     agent : Agents \cup {NoAgent}, host : Domains \cup {Main},
     owner : Agents \cup {NoAgent}, gave : Nat, copy : Nat, session : Nat,
     domain : Domains \cup {NoDomain}, token : Nat, late : BOOLEAN,
     raced : BOOLEAN, moved : BOOLEAN, before : BOOLEAN]

SessionType ==
    [id : Nat, agent : Agents, host : Domains \cup {Main}, gave : Nat,
     late : BOOLEAN, moved : BOOLEAN, before : BOOLEAN]

\* The variables have their types.
TypeOK ==
    /\ password \in [Agents -> Nat]
    /\ suspended \subseteq Agents
    /\ domain \in [Agents -> Domains \cup {NoDomain}]
    /\ token \in [Agents -> Nat] /\ verified \in [Agents -> Nat]
    /\ enabled \in [Agents -> BOOLEAN]
    /\ sessions \subseteq SessionType
    /\ run \in [Runs -> RequestType]
    /\ lastOwn \in [Agents -> [session : Nat, number : Nat]]
    /\ spoilt \in [sweep : SUBSET Agents, domain : SUBSET Agents]
    /\ starts \in Nat

\* A request under way is about an agent, and its kind goes with its place.
Placed(q) ==
    /\ run[q].pc # "idle" => run[q].agent \in Agents
    /\ run[q].pc \in {"lookup", "mark"} => run[q].kind = "verify"
    /\ run[q].pc \in {"enable", "disable"} => run[q].kind = "switch"

\* The password given is still the agent's, unless the request was overtaken.
Fresh(q) ==
    /\ run[q].pc \in {"status", "open"} /\ ~run[q].late
       => run[q].gave = password[run[q].agent]
    /\ run[q].pc = "save" /\ ~run[q].raced
       => run[q].gave = password[run[q].agent]

\* Who is about to be let in may enter: the status was seen before, and the
\* host is the agent's own.
Admitted(q) ==
    /\ run[q].pc = "open" /\ run[q].agent \in suspended => run[q].before
    /\ run[q].host # Main =>
          /\ run[q].kind = "login" /\ run[q].owner \in Agents
          /\ ~run[q].moved => domain[run[q].owner] = run[q].host
          /\ run[q].pc = "open" => run[q].owner = run[q].agent

\* A look-up or a switch is about a domain with its token, the one the agent
\* has unless the request was overtaken.
Proving(q) ==
    /\ run[q].pc \in {"lookup", "mark"} =>
          /\ run[q].token # 0
          /\ ~run[q].raced => run[q].token = token[run[q].agent]
    /\ run[q].pc = "enable" /\ ~run[q].raced => verified[run[q].agent] # 0

RunRight(q) == Placed(q) /\ Fresh(q) /\ Admitted(q) /\ Proving(q)

\* A domain comes with a token.
Tokens == \A a \in Agents : domain[a] # NoDomain => token[a] # 0

\* The latest own change is not later than the password.
Changes == \A a \in Agents : lastOwn[a].number <= password[a]

\* A session older than the latest own change is the one that made it, or was
\* opened late, or is about to be swept, or the sweep has failed.
Accounted(s) ==
    s.gave < lastOwn[s.agent].number =>
        \/ s.id = lastOwn[s.agent].session \/ s.late
        \/ s.agent \in spoilt.sweep
        \/ \E r \in Runs : /\ run[r].pc = "sweep" /\ run[r].agent = s.agent
                           /\ run[r].session = lastOwn[s.agent].session

\* The inductive invariant.
IInv == /\ TypeOK /\ \A q \in Runs : RunRight(q)
        /\ Tokens /\ LiveDomainIsProven
        /\ Changes /\ (\A s \in sessions : Accounted(s)) /\ EntryIsChecked

-----------------------------------------------------------------------------
(* Types.                                                                  *)

LEMMA IdleType == Idle \in RequestType /\ Idle.pc = "idle" /\ Idle.host = Main
BY NamesDiffer DEF Idle, RequestType, Places, Kinds

\* The fields that steps change keep their types.
LEMMA FieldTypes ==
    ASSUME NEW x \in RequestType
    PROVE  /\ \A p \in Places : [x EXCEPT !.pc = p] \in RequestType
           /\ \A p \in Places, n \in Nat :
                 [x EXCEPT !.gave = n, !.pc = p] \in RequestType
           /\ \A p \in Places, n \in Nat :
                 [x EXCEPT !.gave = n, !.copy = 0, !.pc = p] \in RequestType
           /\ \A b \in BOOLEAN : /\ [x EXCEPT !.late = b] \in RequestType
                                 /\ [x EXCEPT !.raced = b] \in RequestType
                                 /\ [x EXCEPT !.moved = b] \in RequestType
                                 /\ [x EXCEPT !.before = b] \in RequestType
BY DEF RequestType

\* Giving one request a value of the type keeps the type of all.
LEMMA Updated ==
    ASSUME run \in [Runs -> RequestType], NEW r \in Runs,
           NEW new \in RequestType, run' = [run EXCEPT ![r] = new]
    PROVE  run' \in [Runs -> RequestType]
OBVIOUS

LEMMA InitType == Init => TypeOK /\ \A q \in Runs : run[q] = Idle
BY IdleType, BeginningsAreProven DEF Init, TypeOK

LEMMA EndType ==
    ASSUME TypeOK, NEW r \in Runs, Finish(r)
    PROVE  run' \in [Runs -> RequestType]
BY IdleType, Updated DEF TypeOK, Finish

LEMMA RejectType ==
    ASSUME TypeOK, NEW r \in Runs, Reject(r)
    PROVE  TypeOK'
BY EndType DEF Reject, ReadsOnly, rows, history, TypeOK

\* What a change of password does to the other requests.
LEMMA OvertakenType ==
    ASSUME TypeOK, NEW a \in Agents
    PROVE  Overtaken(a) \in [Runs -> RequestType]
<1>1. ASSUME NEW q \in Runs
      PROVE  Overtaken(a)[q] \in RequestType
  <2>1. run[q] \in RequestType
    BY DEF TypeOK
  <2>2. /\ [run[q] EXCEPT !.late = TRUE] \in RequestType
        /\ [run[q] EXCEPT !.raced = TRUE] \in RequestType
    BY <2>1, FieldTypes
  <2> QED  BY <2>1, <2>2 DEF Overtaken
<1> QED  BY <1>1 DEF Overtaken

\* And a change of domain.
LEMMA DisplacedType ==
    ASSUME TypeOK, NEW a \in Agents
    PROVE  Displaced(a) \in [Runs -> RequestType]
<1>1. ASSUME NEW q \in Runs
      PROVE  Displaced(a)[q] \in RequestType
  <2>1. run[q] \in RequestType
    BY DEF TypeOK
  <2>2. /\ [run[q] EXCEPT !.moved = TRUE] \in RequestType
        /\ [run[q] EXCEPT !.raced = TRUE] \in RequestType
    BY <2>1, FieldTypes
  <2> QED  BY <2>1, <2>2 DEF Displaced
<1> QED  BY <1>1 DEF Displaced

\* Logins keep the types.
LEMMA LoginType ==
    ASSUME TypeOK, NEW r \in Runs, Placed(r),
           \/ \E a \in Agents, h \in Domains \cup {Main},
                 o \in Agents \cup {NoAgent} : StartLogin(r, a, h, o)
           \/ PasswordFits(r) \/ StatusFits(r) \/ OpenSession(r)
    PROVE  TypeOK'
<1>0. run \in [Runs -> RequestType] /\ run[r] \in RequestType
  BY DEF TypeOK
<1>1. ASSUME NEW a \in Agents, NEW h \in Domains \cup {Main},
             NEW o \in Agents \cup {NoAgent}, StartLogin(r, a, h, o)
      PROVE  TypeOK'
  <2>1. "password" \in Places /\ "login" \in Kinds /\ starts + 1 \in Nat
    BY DEF Places, Kinds, TypeOK
  <2>2. [Idle EXCEPT !.pc = "password", !.kind = "login", !.agent = a,
                     !.host = h, !.owner = o, !.session = starts + 1]
        \in RequestType
    BY <2>1, IdleType DEF RequestType, Idle
  <2> QED  BY <1>0, <1>1, <2>1, <2>2, Updated DEF StartLogin, rows, history, TypeOK
<1>2. CASE PasswordFits(r)
  <2>1. "status" \in Places /\ password[run[r].agent] \in Nat
    BY <1>2 DEF PasswordFits, At, Placed, TypeOK, Places
  <2>2. run' = [run EXCEPT ![r] =
                  [run[r] EXCEPT !.gave = password[run[r].agent],
                                 !.pc = "status"]]
    BY <1>0, <1>2 DEF PasswordFits
  <2>3. run' \in [Runs -> RequestType]
    BY <1>0, <2>1, <2>2, FieldTypes, Updated
  <2> QED  BY <1>2, <2>3 DEF PasswordFits, ReadsOnly, rows, history, TypeOK
<1>3. CASE StatusFits(r)
  <2>1. run' = [run EXCEPT ![r] = [run[r] EXCEPT !.pc = "open"]]
    BY <1>0, <1>3 DEF StatusFits, Goto
  <2>2. run' \in [Runs -> RequestType]
    BY <1>0, <2>1, FieldTypes, Updated DEF Places
  <2> QED  BY <1>3, <2>2 DEF StatusFits, ReadsOnly, rows, history, TypeOK
<1>4. CASE OpenSession(r)
  <2>1. run[r].agent \in Agents
    BY <1>4 DEF OpenSession, At, Placed
  <2>2. [id |-> run[r].session, agent |-> run[r].agent, host |-> run[r].host,
         gave |-> run[r].gave, late |-> run[r].late, moved |-> run[r].moved,
         before |-> run[r].before] \in SessionType
    BY <1>0, <2>1 DEF SessionType, RequestType
  <2> QED
    BY <1>4, <2>2, EndType DEF OpenSession, rows, history, TypeOK
<1> QED  BY <1>1, <1>2, <1>3, <1>4

\* Changes of password and the sweeps after them keep the types.
LEMMA ChangeType ==
    ASSUME TypeOK, NEW r \in Runs, Placed(r),
           \/ \E s \in sessions : StartChange(r, s)
           \/ CheckFits(r) \/ SaveOwn(r) \/ Sweep(r) \/ SweepFails(r)
    PROVE  TypeOK'
<1>0. run \in [Runs -> RequestType] /\ run[r] \in RequestType
  BY DEF TypeOK
<1>1. ASSUME NEW s \in sessions, StartChange(r, s)
      PROVE  TypeOK'
  <2>1. s.agent \in Agents /\ s.id \in Nat /\ password[s.agent] \in Nat
    BY DEF SessionType, TypeOK
  <2>2. "check" \in Places /\ "change" \in Kinds
    BY DEF Places, Kinds
  <2>3. [Idle EXCEPT !.pc = "check", !.kind = "change", !.agent = s.agent,
                     !.session = s.id, !.copy = password[s.agent]]
        \in RequestType
    BY <2>1, <2>2, IdleType DEF RequestType, Idle
  <2>4. run' \in [Runs -> RequestType]
    BY <1>0, <1>1, <2>3, Updated DEF StartChange
  <2>5. starts \in Nat /\ starts' = starts + 1
    BY <1>1 DEF StartChange, TypeOK
  <2>6. starts' \in Nat
    BY <2>5
  <2> QED  BY <1>1, <2>4, <2>6 DEF StartChange, rows, history, TypeOK
<1>2. CASE CheckFits(r)
  <2>1. "save" \in Places /\ password[run[r].agent] \in Nat
    BY <1>2 DEF CheckFits, At, Placed, TypeOK, Places
  <2>2. run' = [run EXCEPT ![r] =
                  [run[r] EXCEPT !.gave = password[run[r].agent], !.copy = 0,
                                 !.pc = "save"]]
    BY <1>0, <1>2 DEF CheckFits, Compared
  <2>3. run' \in [Runs -> RequestType]
    BY <1>0, <2>1, <2>2, FieldTypes, Updated
  <2> QED  BY <1>2, <2>3 DEF CheckFits, ReadsOnly, rows, history, TypeOK
<1>3. CASE SaveOwn(r)
  <2> DEFINE a == run[r].agent
  <2>1. a \in Agents /\ run[r].session \in Nat
    BY <1>0, <1>3 DEF SaveOwn, At, Placed, RequestType
  <2>2. "sweep" \in Places /\ "change" \in Kinds
    BY DEF Places, Kinds
  <2>3. [Idle EXCEPT !.pc = "sweep", !.kind = "change", !.agent = a,
                     !.session = run[r].session] \in RequestType
    BY <2>1, <2>2, IdleType DEF RequestType, Idle
  <2>4. run' \in [Runs -> RequestType]
    BY <1>3, <2>1, <2>3, OvertakenType DEF SaveOwn
  <2>5. password' \in [Agents -> Nat] /\ password'[a] \in Nat
    BY <1>3, <2>1 DEF SaveOwn, Save, TypeOK
  <2>6. lastOwn' \in [Agents -> [session : Nat, number : Nat]]
    BY <1>3, <2>1, <2>5 DEF SaveOwn, TypeOK
  <2> QED  BY <1>3, <2>4, <2>5, <2>6 DEF SaveOwn, Save, TypeOK
<1>4. CASE Sweep(r) \/ SweepFails(r)
  <2>1. run[r].agent \in Agents
    BY <1>4 DEF Sweep, SweepFails, At, Placed
  <2>2. spoilt' \in [sweep : SUBSET Agents, domain : SUBSET Agents]
    BY <1>4, <2>1 DEF Sweep, SweepFails, TypeOK
  <2>3. run' \in [Runs -> RequestType]
    BY <1>4, EndType DEF Sweep, SweepFails
  <2> QED  BY <1>4, <2>2, <2>3 DEF Sweep, SweepFails, Swept, rows, TypeOK
<1> QED  BY <1>1, <1>2, <1>3, <1>4

\* The domain forms keep the types.
LEMMA FormType ==
    ASSUME TypeOK, NEW r \in Runs, Placed(r), MasterStep(r)
    PROVE  TypeOK'
<1>0. run \in [Runs -> RequestType] /\ run[r] \in RequestType
  BY DEF TypeOK
<1>1. ASSUME NEW new \in RequestType, StartForm(r, new)
      PROVE  TypeOK'
  BY <1>0, <1>1, Updated DEF StartForm, Post, rows, history, TypeOK
<1>2. ASSUME NEW a \in Agents, NEW d \in Domains \cup {NoDomain},
             StartSetDomain(r, a, d)
      PROVE  TypeOK'
  <2>1. [Idle EXCEPT !.pc = "set", !.kind = "set", !.agent = a, !.domain = d]
        \in RequestType
    BY IdleType DEF RequestType, Idle, Places, Kinds
  <2> QED  BY <1>1, <1>2, <2>1 DEF StartSetDomain
<1>3. CASE SetDomain(r)
  <2> DEFINE a == run[r].agent
  <2>1. a \in Agents /\ run[r].domain \in Domains \cup {NoDomain}
    BY <1>0, <1>3 DEF SetDomain, At, Placed, RequestType
  <2>2. run' \in [Runs -> RequestType]
    BY <1>3, <2>1, IdleType, DisplacedType DEF SetDomain
  <2>3. \A s \in sessions : [s EXCEPT !.moved = TRUE] \in SessionType
    BY DEF SessionType, TypeOK
  <2>4. sessions' \subseteq SessionType
    BY <1>3, <2>3 DEF SetDomain, TypeOK
  <2>5. spoilt' \in [sweep : SUBSET Agents, domain : SUBSET Agents]
    BY <1>3 DEF SetDomain, TypeOK
  <2>6. /\ domain' \in [Agents -> Domains \cup {NoDomain}]
        /\ token' \in [Agents -> Nat] /\ verified' \in [Agents -> Nat]
        /\ enabled' \in [Agents -> BOOLEAN]
    BY <1>3, <2>1 DEF SetDomain, TypeOK
  <2> QED  BY <1>3, <2>2, <2>4, <2>5, <2>6 DEF SetDomain, TypeOK
<1>4. ASSUME NEW a \in Agents, StartVerify(r, a)
      PROVE  TypeOK'
  <2>1. domain[a] \in Domains \cup {NoDomain} /\ token[a] \in Nat
    BY DEF TypeOK
  <2>2. [Idle EXCEPT !.pc = "lookup", !.kind = "verify", !.agent = a,
                     !.domain = domain[a], !.token = token[a]] \in RequestType
    BY <2>1, IdleType DEF RequestType, Idle, Places, Kinds
  <2> QED  BY <1>1, <1>4, <2>2 DEF StartVerify
<1>5. CASE LookupFits(r)
  <2>1. run' = [run EXCEPT ![r] = [run[r] EXCEPT !.pc = "mark"]]
    BY <1>0, <1>5 DEF LookupFits, Goto
  <2>2. run' \in [Runs -> RequestType]
    BY <1>0, <2>1, FieldTypes, Updated DEF Places
  <2> QED  BY <1>5, <2>2 DEF LookupFits, ReadsOnly, rows, history, TypeOK
<1>6. CASE Mark(r) \/ Switch(r)
  <2> DEFINE a == run[r].agent
  <2>1. a \in Agents /\ run[r].token \in Nat
    BY <1>0, <1>6 DEF Mark, Switch, At, Placed, RequestType
  <2>2. spoilt' \in [sweep : SUBSET Agents, domain : SUBSET Agents]
    BY <1>6, <2>1 DEF Mark, Switch, TypeOK
  <2>3. run' \in [Runs -> RequestType]
    BY <1>6, EndType DEF Mark, Switch
  <2>4. verified' \in [Agents -> Nat]
    BY <1>6, <2>1 DEF Mark, Switch, TypeOK
  <2>5. enabled' \in [Agents -> BOOLEAN]
    BY <1>6, <2>1 DEF Mark, Switch, At, TypeOK
  <2> QED  BY <1>6, <2>2, <2>3, <2>4, <2>5 DEF Mark, Switch, TypeOK
<1>7. ASSUME NEW a \in Agents, NEW on \in BOOLEAN, StartSwitch(r, a, on)
      PROVE  TypeOK'
  <2>1. [Idle EXCEPT !.pc = IF on THEN "enable" ELSE "disable",
                     !.kind = "switch", !.agent = a] \in RequestType
    BY IdleType DEF RequestType, Idle, Places, Kinds
  <2> QED  BY <1>1, <1>7, <2>1 DEF StartSwitch
<1> QED
  BY <1>2, <1>3, <1>4, <1>5, <1>6, <1>7, RejectType
  DEF MasterStep, SetDomainFails, LookupFails, FormFails

\* So does what the master writes at once, and the end of a session.
LEMMA WriteType ==
    ASSUME TypeOK,
           \/ \E s \in sessions : EndSession(s)
           \/ \E a \in Agents : ResetPassword(a) \/ \E b \in BOOLEAN : SetStatus(a, b)
    PROVE  TypeOK'
<1>1. ASSUME NEW s \in sessions, EndSession(s)
      PROVE  TypeOK'
  BY <1>1 DEF EndSession, rows, history, TypeOK
<1>2. ASSUME NEW a \in Agents, ResetPassword(a)
      PROVE  TypeOK'
  <2>1. password' \in [Agents -> Nat] /\ starts' \in Nat
    BY <1>2 DEF ResetPassword, Post, Save, TypeOK
  <2>2. run' \in [Runs -> RequestType]
    BY <1>2, OvertakenType DEF ResetPassword
  <2> QED  BY <1>2, <2>1, <2>2 DEF ResetPassword, Save, history, TypeOK
<1>3. ASSUME NEW a \in Agents, NEW b \in BOOLEAN, SetStatus(a, b)
      PROVE  TypeOK'
  <2>1. \A s \in sessions : [s EXCEPT !.before = b] \in SessionType
    BY DEF SessionType, TypeOK
  <2>2. sessions' \subseteq SessionType
    BY <1>3, <2>1 DEF SetStatus, TypeOK
  <2>3. \A q \in Runs : run[q] \in RequestType
                        /\ [run[q] EXCEPT !.before = b] \in RequestType
    BY FieldTypes DEF TypeOK
  <2>4. run' \in [Runs -> RequestType]
    BY <1>3, <2>3 DEF SetStatus
  <2>5. suspended' \subseteq Agents /\ starts' \in Nat
    BY <1>3 DEF SetStatus, Post, TypeOK
  <2> QED  BY <1>3, <2>2, <2>4, <2>5 DEF SetStatus, history, TypeOK
<1> QED  BY <1>1, <1>2, <1>3

LEMMA TypeStep ==
    ASSUME TypeOK, \A q \in Runs : Placed(q), [Next]_vars
    PROVE  TypeOK'
<1>1. CASE \E r \in Runs : AgentStep(r)
  BY <1>1, LoginType, ChangeType, RejectType
  DEF AgentStep, PasswordWrong, StatusForbids, OpenFails, CheckFails,
      SaveOwnFails
<1>2. CASE \E r \in Runs : MasterStep(r)
  BY <1>2, FormType
<1>3. CASE UNCHANGED vars
  BY <1>3 DEF vars, rows, history, TypeOK
<1> QED  BY <1>1, <1>2, <1>3, WriteType DEF Next

-----------------------------------------------------------------------------
(* The requests under way.                                                 *)

LEMMA IdleRight ==
    ASSUME NEW q \in Runs, run'[q] = Idle
    PROVE  RunRight(q)'
BY IdleType DEF RunRight, Placed, Fresh, Admitted, Proving

\* A request that is let alone while the rows it relies on stay.
LEMMA RightKept ==
    ASSUME NEW q \in Runs, RunRight(q), run'[q] = run[q],
           UNCHANGED <<password, suspended, domain, token, verified>>
    PROVE  RunRight(q)'
BY DEF RunRight, Placed, Fresh, Admitted, Proving

\* A change of a password, seen from any request.
LEMMA OvertakenRight ==
    ASSUME TypeOK, NEW q \in Runs, RunRight(q), NEW a \in Agents,
           run'[q] = Overtaken(a)[q], Save(a)
    PROVE  RunRight(q)'
<1>0. run[q] \in RequestType /\ password \in [Agents -> Nat]
  BY DEF TypeOK
<1>1. CASE run[q].agent # a
  <2>1. run'[q] = run[q]
    BY <1>1 DEF Overtaken
  <2>2. run[q].agent \in Agents => password'[run[q].agent] = password[run[q].agent]
    BY <1>0, <1>1 DEF Save
  <2> QED
    BY <2>1, <2>2 DEF Save, RunRight, Placed, Fresh, Admitted, Proving
<1>2. CASE run[q].agent = a /\ run[q].pc \in {"status", "open"}
  <2>1. run'[q] = [run[q] EXCEPT !.late = TRUE]
    BY <1>2 DEF Overtaken
  <2> QED
    BY <1>0, <1>2, <2>1
    DEF RequestType, Save, RunRight, Placed, Fresh, Admitted, Proving
<1>3. CASE run[q].agent = a /\ run[q].pc = "save"
  <2>1. run'[q] = [run[q] EXCEPT !.raced = TRUE]
    BY <1>3 DEF Overtaken
  <2> QED
    BY <1>0, <1>3, <2>1
    DEF RequestType, Save, RunRight, Placed, Fresh, Admitted, Proving
<1>4. CASE run[q].agent = a /\ run[q].pc \notin {"status", "open", "save"}
  <2>1. run'[q] = run[q]
    BY <1>4 DEF Overtaken
  <2> QED
    BY <1>4, <2>1 DEF Save, RunRight, Placed, Fresh, Admitted, Proving
<1> QED  BY <1>1, <1>2, <1>3, <1>4

\* A change of a domain, seen from any request.
LEMMA DisplacedRight ==
    ASSUME TypeOK, NEW q \in Runs, RunRight(q), NEW a \in Agents,
           NEW d \in Domains \cup {NoDomain},
           run'[q] = Displaced(a)[q],
           domain' = [domain EXCEPT ![a] = d],
           token' = [token EXCEPT ![a] = @ + 1],
           verified' = [verified EXCEPT ![a] = 0],
           UNCHANGED <<password, suspended>>
    PROVE  RunRight(q)'
<1>0. run[q] \in RequestType
  BY DEF TypeOK
<1>1. \A b \in Agents \ {a} : /\ domain'[b] = domain[b] /\ token'[b] = token[b]
                              /\ verified'[b] = verified[b]
  BY DEF TypeOK
<1>2. CASE run[q].agent = a /\ run[q].kind \in {"verify", "switch"}
  <2>1. run'[q] = [run[q] EXCEPT !.raced = TRUE]
    BY <1>2 DEF Displaced
  <2>2. run[q].host = Main
    BY <1>2 DEF RunRight, Admitted
  <2> QED
    BY <1>0, <1>2, <2>1, <2>2
    DEF RequestType, RunRight, Placed, Fresh, Admitted, Proving
<1>3. CASE /\ ~(run[q].agent = a /\ run[q].kind \in {"verify", "switch"})
           /\ run[q].owner = a
  <2>1. run'[q] = [run[q] EXCEPT !.moved = TRUE]
    BY <1>3 DEF Displaced
  <2> QED
    BY <1>0, <1>1, <1>3, <2>1
    DEF RequestType, RunRight, Placed, Fresh, Admitted, Proving
<1>4. CASE /\ ~(run[q].agent = a /\ run[q].kind \in {"verify", "switch"})
           /\ run[q].owner # a
  <2>1. run'[q] = run[q]
    BY <1>4 DEF Displaced
  <2> QED
    BY <1>0, <1>1, <1>4, <2>1
    DEF RequestType, RunRight, Placed, Fresh, Admitted, Proving
<1> QED  BY <1>2, <1>3, <1>4

\* A step of one request that writes no row leaves the others right.
LEMMA RightStep ==
    ASSUME TypeOK, \A q \in Runs : RunRight(q), NEW r \in Runs,
           \A q \in Runs \ {r} : run'[q] = run[q],
           UNCHANGED <<password, suspended, domain, token, verified>>,
           RunRight(r)'
    PROVE  \A q \in Runs : RunRight(q)'
BY RightKept

LEMMA LoginRight ==
    ASSUME TypeOK, \A q \in Runs : RunRight(q), NEW r \in Runs,
           \/ \E a \in Agents, h \in Domains \cup {Main},
                 o \in Agents \cup {NoAgent} : StartLogin(r, a, h, o)
           \/ PasswordFits(r) \/ StatusFits(r) \/ OpenSession(r) \/ Reject(r)
    PROVE  \A q \in Runs : RunRight(q)'
<1>0. run \in [Runs -> RequestType] /\ run[r] \in RequestType /\ RunRight(r)
  BY DEF TypeOK
<1>1. ASSUME NEW a \in Agents, NEW h \in Domains \cup {Main},
             NEW o \in Agents \cup {NoAgent}, StartLogin(r, a, h, o)
      PROVE  \A q \in Runs : RunRight(q)'
  <2>1. run'[r] = [Idle EXCEPT !.pc = "password", !.kind = "login", !.agent = a,
                               !.host = h, !.owner = o, !.session = starts + 1]
    BY <1>0, <1>1 DEF StartLogin
  <2>2. h # Main => o \in Agents /\ domain[o] = h
    BY <1>1 DEF StartLogin, Serves
  <2>3. domain' = domain
    BY <1>1 DEF StartLogin, rows
  <2>4. RunRight(r)'
    BY <2>1, <2>2, <2>3 DEF Idle, RunRight, Placed, Fresh, Admitted, Proving
  <2> QED  BY <1>0, <1>1, <2>4, RightStep DEF StartLogin, rows
<1>2. CASE PasswordFits(r)
  <2>1. run'[r] = [run[r] EXCEPT !.gave = password[run[r].agent],
                                 !.pc = "status"]
    BY <1>0, <1>2 DEF PasswordFits
  <2>2. RunRight(r)'
    BY <1>0, <1>2, <2>1
    DEF RequestType, PasswordFits, At, ReadsOnly, rows, RunRight, Placed,
        Fresh, Admitted, Proving
  <2> QED  BY <1>0, <1>2, <2>2, RightStep DEF PasswordFits, ReadsOnly, rows
<1>3. CASE StatusFits(r)
  <2>1. run'[r] = [run[r] EXCEPT !.pc = "open"]
    BY <1>0, <1>3 DEF StatusFits, Goto
  <2>2. /\ run[r].agent \notin suspended
        /\ run[r].host # Main => run[r].owner = run[r].agent
    BY <1>0, <1>3, NamesDiffer DEF StatusFits, MayEnter, RunRight, Admitted
  <2>3. RunRight(r)'
    BY <1>0, <1>3, <2>1, <2>2
    DEF RequestType, StatusFits, At, ReadsOnly, rows, RunRight, Placed,
        Fresh, Admitted, Proving
  <2> QED  BY <1>0, <1>3, <2>3, RightStep DEF StatusFits, Goto, ReadsOnly, rows
<1>4. CASE OpenSession(r)
  BY <1>0, <1>4, IdleRight, RightStep DEF OpenSession, Finish, rows
<1>5. CASE Reject(r)
  BY <1>0, <1>5, IdleRight, RightStep DEF Reject, Finish, ReadsOnly, rows
<1> QED  BY <1>1, <1>2, <1>3, <1>4, <1>5

LEMMA ChangeRight ==
    ASSUME TypeOK, \A q \in Runs : RunRight(q), NEW r \in Runs,
           \/ \E s \in sessions : StartChange(r, s)
           \/ CheckFits(r) \/ SaveOwn(r) \/ Sweep(r) \/ SweepFails(r)
    PROVE  \A q \in Runs : RunRight(q)'
<1>0. run \in [Runs -> RequestType] /\ run[r] \in RequestType /\ RunRight(r)
  BY DEF TypeOK
<1>1. ASSUME NEW s \in sessions, StartChange(r, s)
      PROVE  \A q \in Runs : RunRight(q)'
  <2>1. run'[r] = [Idle EXCEPT !.pc = "check", !.kind = "change",
                               !.agent = s.agent, !.session = s.id,
                               !.copy = password[s.agent]]
    BY <1>0, <1>1 DEF StartChange
  <2>2. s.agent \in Agents
    BY DEF TypeOK, SessionType
  <2>3. RunRight(r)'
    BY <2>1, <2>2 DEF Idle, RunRight, Placed, Fresh, Admitted, Proving
  <2> QED  BY <1>0, <1>1, <2>3, RightStep DEF StartChange, rows
<1>2. CASE CheckFits(r)
  <2>1. run'[r] = [run[r] EXCEPT !.gave = password[run[r].agent], !.copy = 0,
                                 !.pc = "save"]
    BY <1>0, <1>2 DEF CheckFits, Compared
  <2>2. RunRight(r)'
    BY <1>0, <1>2, <2>1
    DEF RequestType, CheckFits, At, ReadsOnly, rows, RunRight, Placed,
        Fresh, Admitted, Proving
  <2> QED  BY <1>0, <1>2, <2>2, RightStep DEF CheckFits, ReadsOnly, rows
<1>3. CASE SaveOwn(r)
  <2> DEFINE a == run[r].agent
             swept == [Idle EXCEPT !.pc = "sweep", !.kind = "change",
                                   !.agent = a, !.session = run[r].session]
  <2>1. a \in Agents /\ Save(a) /\ run' = [Overtaken(a) EXCEPT ![r] = swept]
    BY <1>0, <1>3 DEF SaveOwn, At, RunRight, Placed
  <2>2. DOMAIN Overtaken(a) = Runs
    BY DEF Overtaken
  <2>3. ASSUME NEW q \in Runs, q # r
        PROVE  RunRight(q)'
    BY <2>1, <2>2, <2>3, OvertakenRight
  <2>4. run'[r] = swept
    BY <2>1, <2>2
  <2>5. a \in Agents
    BY <2>1
  <2>6. RunRight(r)'
    BY <2>4, <2>5 DEF Idle, RunRight, Placed, Fresh, Admitted, Proving
  <2> QED  BY <2>3, <2>6
<1>4. CASE Sweep(r) \/ SweepFails(r)
  BY <1>0, <1>4, IdleRight, RightStep DEF Sweep, SweepFails, Finish, rows
<1> QED  BY <1>1, <1>2, <1>3, <1>4

LEMMA FormRight ==
    ASSUME TypeOK, \A q \in Runs : RunRight(q), Tokens, NEW r \in Runs,
           MasterStep(r)
    PROVE  \A q \in Runs : RunRight(q)'
<1>0. run \in [Runs -> RequestType] /\ run[r] \in RequestType /\ RunRight(r)
  BY DEF TypeOK
<1>1. ASSUME NEW a \in Agents, NEW d \in Domains \cup {NoDomain},
             StartSetDomain(r, a, d)
      PROVE  \A q \in Runs : RunRight(q)'
  <2>1. run'[r] = [Idle EXCEPT !.pc = "set", !.kind = "set", !.agent = a,
                               !.domain = d]
    BY <1>0, <1>1 DEF StartSetDomain, StartForm
  <2>2. RunRight(r)'
    BY <2>1 DEF Idle, RunRight, Placed, Fresh, Admitted, Proving
  <2> QED
    BY <1>0, <1>1, <2>2, RightStep DEF StartSetDomain, StartForm, rows
<1>2. CASE SetDomain(r)
  <2> DEFINE a == run[r].agent
  <2>1. a \in Agents /\ run[r].domain \in Domains \cup {NoDomain}
    BY <1>0, <1>2 DEF SetDomain, At, RunRight, Placed, RequestType
  <2>2. DOMAIN Displaced(a) = Runs
    BY DEF Displaced
  <2>3. run' = [Displaced(a) EXCEPT ![r] = Idle]
    BY <1>2 DEF SetDomain
  <2>4. ASSUME NEW q \in Runs, q # r
        PROVE  RunRight(q)'
    <3>1. run'[q] = Displaced(a)[q]
      BY <2>2, <2>3, <2>4
    <3> QED
      BY <1>2, <2>1, <3>1, DisplacedRight DEF SetDomain
  <2>5. RunRight(r)'
    BY <2>2, <2>3, IdleRight
  <2> QED  BY <2>4, <2>5
<1>3. ASSUME NEW a \in Agents, StartVerify(r, a)
      PROVE  \A q \in Runs : RunRight(q)'
  <2>1. run'[r] = [Idle EXCEPT !.pc = "lookup", !.kind = "verify", !.agent = a,
                               !.domain = domain[a], !.token = token[a]]
    BY <1>0, <1>3 DEF StartVerify, StartForm
  <2>2. token[a] # 0
    BY <1>3 DEF StartVerify, Tokens
  <2>3. token' = token
    BY <1>3 DEF StartVerify, StartForm, rows
  <2>4. RunRight(r)'
    BY <2>1, <2>2, <2>3
    DEF Idle, RunRight, Placed, Fresh, Admitted, Proving
  <2> QED  BY <1>0, <1>3, <2>4, RightStep DEF StartVerify, StartForm, rows
<1>4. CASE LookupFits(r)
  <2>1. run'[r] = [run[r] EXCEPT !.pc = "mark"]
    BY <1>0, <1>4 DEF LookupFits, Goto
  <2>2. RunRight(r)'
    BY <1>0, <1>4, <2>1
    DEF RequestType, LookupFits, At, ReadsOnly, rows, RunRight, Placed,
        Fresh, Admitted, Proving
  <2> QED  BY <1>0, <1>4, <2>2, RightStep DEF LookupFits, Goto, ReadsOnly, rows
<1>5. CASE Mark(r)
  <2>1. run[r].agent \in Agents /\ run[r].token # 0
    BY <1>0, <1>5 DEF Mark, At, RunRight, Placed, Proving
  <2>2. \A a \in Agents : verified[a] # 0 => verified'[a] # 0
    BY <1>5, <2>1 DEF Mark, TypeOK
  <2>3. ASSUME NEW q \in Runs, q # r
        PROVE  RunRight(q)'
    <3>1. run'[q] = run[q] /\ UNCHANGED <<password, suspended, domain, token>>
      BY <1>0, <1>5, <2>3 DEF Mark, Finish
    <3> QED
      BY <2>2, <3>1 DEF RunRight, Placed, Fresh, Admitted, Proving
  <2>4. RunRight(r)'
    BY <1>0, <1>5, IdleRight DEF Mark, Finish
  <2> QED  BY <2>3, <2>4
<1>6. ASSUME NEW a \in Agents, NEW on \in BOOLEAN, StartSwitch(r, a, on)
      PROVE  \A q \in Runs : RunRight(q)'
  <2>1. run'[r] = [Idle EXCEPT !.pc = IF on THEN "enable" ELSE "disable",
                               !.kind = "switch", !.agent = a]
    BY <1>0, <1>6 DEF StartSwitch, StartForm
  <2>2. (on => verified[a] # 0) /\ verified' = verified
    BY <1>6 DEF StartSwitch, StartForm, rows
  <2>3. RunRight(r)'
    BY <2>1, <2>2 DEF Idle, RunRight, Placed, Fresh, Admitted, Proving
  <2> QED  BY <1>0, <1>6, <2>3, RightStep DEF StartSwitch, StartForm, rows
<1>7. CASE Switch(r)
  BY <1>0, <1>7, IdleRight, RightStep DEF Switch, Finish
<1>8. CASE Reject(r)
  BY <1>8, LoginRight
<1> QED
  BY <1>1, <1>2, <1>3, <1>4, <1>5, <1>6, <1>7, <1>8
  DEF MasterStep, SetDomainFails, LookupFails, FormFails

LEMMA WriteRight ==
    ASSUME TypeOK, \A q \in Runs : RunRight(q),
           \/ \E s \in sessions : EndSession(s)
           \/ \E a \in Agents : ResetPassword(a) \/ \E b \in BOOLEAN : SetStatus(a, b)
    PROVE  \A q \in Runs : RunRight(q)'
<1>1. ASSUME NEW s \in sessions, EndSession(s)
      PROVE  \A q \in Runs : RunRight(q)'
  BY <1>1, RightKept DEF EndSession, rows
<1>2. ASSUME NEW a \in Agents, ResetPassword(a)
      PROVE  \A q \in Runs : RunRight(q)'
  BY <1>2, OvertakenRight DEF ResetPassword
<1>3. ASSUME NEW a \in Agents, NEW b \in BOOLEAN, SetStatus(a, b), NEW q \in Runs
      PROVE  RunRight(q)'
  <2>0. run[q] \in RequestType /\ RunRight(q)
    BY DEF TypeOK
  <2>1. UNCHANGED <<password, domain, token, verified>>
    BY <1>3 DEF SetStatus
  <2>2. CASE run[q].agent = a /\ run[q].pc = "open"
    <3>1. run'[q] = [run[q] EXCEPT !.before = b]
      BY <1>3, <2>2 DEF SetStatus, At
    <3>2. a \in suspended' => b
      BY <1>3 DEF SetStatus
    <3> QED
      BY <2>0, <2>1, <2>2, <3>1, <3>2
      DEF RequestType, RunRight, Placed, Fresh, Admitted, Proving
  <2>3. CASE ~(run[q].agent = a /\ run[q].pc = "open")
    <3>1. run'[q] = run[q]
      BY <1>3, <2>3 DEF SetStatus, At
    <3>2. run[q].agent # a /\ run[q].agent \in suspended'
          => run[q].agent \in suspended
      BY <1>3 DEF SetStatus
    <3> QED
      BY <2>0, <2>1, <2>3, <3>1, <3>2
      DEF RunRight, Placed, Fresh, Admitted, Proving
  <2> QED  BY <2>2, <2>3
<1> QED  BY <1>1, <1>2, <1>3

LEMMA AllRight ==
    ASSUME TypeOK, \A q \in Runs : RunRight(q), Tokens, [Next]_vars
    PROVE  \A q \in Runs : RunRight(q)'
<1>1. CASE \E r \in Runs : AgentStep(r)
  BY <1>1, LoginRight, ChangeRight
  DEF AgentStep, PasswordWrong, StatusForbids, OpenFails, CheckFails,
      SaveOwnFails
<1>2. CASE \E r \in Runs : MasterStep(r)
  BY <1>2, FormRight
<1>3. CASE UNCHANGED vars
  BY <1>3, RightKept DEF vars, rows
<1> QED  BY <1>1, <1>2, <1>3, WriteRight DEF Next

-----------------------------------------------------------------------------
(* Domains.                                                                *)

LEMMA DomainsKept ==
    ASSUME Tokens, LiveDomainIsProven,
           UNCHANGED <<domain, token, verified, enabled>>,
           spoilt'.domain = spoilt.domain
    PROVE  Tokens' /\ LiveDomainIsProven'
BY DEF Tokens, LiveDomainIsProven

LEMMA AgentStepDomains ==
    ASSUME TypeOK, Tokens, LiveDomainIsProven, NEW r \in Runs, AgentStep(r)
    PROVE  Tokens' /\ LiveDomainIsProven'
<1>1. UNCHANGED <<domain, token, verified, enabled>>
  BY DEF AgentStep, StartLogin, PasswordFits, PasswordWrong, StatusFits,
         StatusForbids, OpenSession, OpenFails, StartChange, CheckFits,
         CheckFails, SaveOwn, SaveOwnFails, Sweep, SweepFails, Reject,
         ReadsOnly, Save, rows
<1>2. spoilt'.domain = spoilt.domain
  <2>1. CASE Sweep(r) \/ SweepFails(r)
    BY <2>1 DEF Sweep, SweepFails, TypeOK
  <2>2. CASE ~(Sweep(r) \/ SweepFails(r))
    BY <2>2
    DEF AgentStep, StartLogin, PasswordFits, PasswordWrong, StatusFits,
        StatusForbids, OpenSession, OpenFails, StartChange, CheckFits,
        CheckFails, SaveOwn, SaveOwnFails, Reject, ReadsOnly, history
  <2> QED  BY <2>1, <2>2
<1> QED  BY <1>1, <1>2, DomainsKept

\* A new domain has a new token and is neither verified nor on; no other agent
\* has it.
LEMMA SetDomainProven ==
    ASSUME TypeOK, Tokens, LiveDomainIsProven, NEW r \in Runs, RunRight(r),
           SetDomain(r)
    PROVE  Tokens' /\ LiveDomainIsProven'
<1> DEFINE a == run[r].agent
<1>0. a \in Agents
  BY DEF SetDomain, At, RunRight, Placed
<1>1. /\ domain'[a] = run[r].domain /\ token'[a] = token[a] + 1
      /\ verified'[a] = 0 /\ enabled'[a] = FALSE /\ token[a] \in Nat
  BY <1>0 DEF SetDomain, TypeOK
<1>2. \A b \in Agents \ {a} :
        /\ domain'[b] = domain[b] /\ token'[b] = token[b]
        /\ verified'[b] = verified[b] /\ enabled'[b] = enabled[b]
  BY DEF SetDomain, TypeOK
<1>3. spoilt'.domain = spoilt.domain \ {a}
  BY DEF SetDomain, TypeOK
<1>4. \A b \in Agents \ {a} : run[r].domain = NoDomain \/ domain[b] # run[r].domain
  BY DEF SetDomain
<1>5. Tokens'
  BY <1>1, <1>2 DEF Tokens
<1>6. ASSUME NEW x \in Agents, x \notin spoilt'.domain
      PROVE  verified'[x] \in {0, token'[x]} /\ (enabled'[x] => verified'[x] # 0)
  BY <1>1, <1>2, <1>3, <1>6 DEF LiveDomainIsProven
<1>7. ASSUME NEW x \in Agents, domain'[x] # NoDomain, NEW y \in Agents \ {x}
      PROVE  domain'[y] # domain'[x]
  BY <1>1, <1>2, <1>4, <1>7 DEF LiveDomainIsProven
<1> QED  BY <1>5, <1>6, <1>7 DEF LiveDomainIsProven

\* What is marked was looked up with the agent's token, or is spoilt.
LEMMA MarkProven ==
    ASSUME TypeOK, Tokens, LiveDomainIsProven, NEW r \in Runs, RunRight(r),
           Mark(r)
    PROVE  Tokens' /\ LiveDomainIsProven'
<1> DEFINE a == run[r].agent
<1>0. a \in Agents /\ run[r].token # 0
      /\ (~run[r].raced => run[r].token = token[a])
  BY DEF Mark, At, RunRight, Placed, Proving
<1>1. UNCHANGED <<domain, token, enabled>> /\ verified'[a] = run[r].token
      /\ \A b \in Agents \ {a} : verified'[b] = verified[b]
  BY <1>0 DEF Mark, TypeOK
<1>2. spoilt'.domain = IF run[r].raced THEN spoilt.domain \cup {a}
                       ELSE spoilt.domain
  BY DEF Mark, TypeOK
<1>3. ASSUME NEW x \in Agents, x \notin spoilt'.domain
      PROVE  verified'[x] \in {0, token'[x]} /\ (enabled'[x] => verified'[x] # 0)
  BY <1>0, <1>1, <1>2, <1>3 DEF LiveDomainIsProven
<1> QED  BY <1>1, <1>3 DEF Tokens, LiveDomainIsProven

\* What is switched on was verified, or is spoilt.
LEMMA SwitchProven ==
    ASSUME TypeOK, Tokens, LiveDomainIsProven, NEW r \in Runs, RunRight(r),
           Switch(r)
    PROVE  Tokens' /\ LiveDomainIsProven'
<1> DEFINE a == run[r].agent
<1>0. a \in Agents /\ (At(r, "enable") /\ ~run[r].raced => verified[a] # 0)
  BY DEF Switch, At, RunRight, Placed, Proving
<1>1. UNCHANGED <<domain, token, verified>> /\ enabled'[a] = At(r, "enable")
      /\ \A b \in Agents \ {a} : enabled'[b] = enabled[b]
  BY <1>0 DEF Switch, TypeOK
<1>2. spoilt'.domain = IF run[r].raced THEN spoilt.domain \cup {a}
                       ELSE spoilt.domain
  BY DEF Switch, TypeOK
<1>3. ASSUME NEW x \in Agents, x \notin spoilt'.domain
      PROVE  verified'[x] \in {0, token'[x]} /\ (enabled'[x] => verified'[x] # 0)
  BY <1>0, <1>1, <1>2, <1>3 DEF LiveDomainIsProven
<1> QED  BY <1>1, <1>3 DEF Tokens, LiveDomainIsProven

LEMMA DomainsStep ==
    ASSUME TypeOK, Tokens, LiveDomainIsProven, \A q \in Runs : RunRight(q),
           [Next]_vars
    PROVE  Tokens' /\ LiveDomainIsProven'
<1>1. CASE \E r \in Runs : AgentStep(r)
  BY <1>1, AgentStepDomains
<1>2. ASSUME NEW r \in Runs, MasterStep(r)
      PROVE  Tokens' /\ LiveDomainIsProven'
  <2>1. CASE SetDomain(r) \/ Mark(r) \/ Switch(r)
    BY <2>1, SetDomainProven, MarkProven, SwitchProven
  <2>2. CASE ~(SetDomain(r) \/ Mark(r) \/ Switch(r))
    <3>1. UNCHANGED <<rows, history>>
      BY <1>2, <2>2
      DEF MasterStep, StartSetDomain, SetDomainFails, StartVerify, LookupFits,
          LookupFails, StartSwitch, FormFails, StartForm, Reject, ReadsOnly
    <3> QED  BY <3>1, DomainsKept DEF rows, history
  <2> QED  BY <2>1, <2>2
<1>3. CASE \/ \E s \in sessions : EndSession(s)
           \/ \E a \in Agents : ResetPassword(a)
                                \/ \E b \in BOOLEAN : SetStatus(a, b)
  BY <1>3, DomainsKept DEF EndSession, ResetPassword, Save, SetStatus, rows, history
<1>4. CASE UNCHANGED vars
  BY <1>4, DomainsKept DEF vars, rows, history
<1> QED  BY <1>1, <1>2, <1>3, <1>4 DEF Next

-----------------------------------------------------------------------------
(* Sessions.                                                               *)

\* The requests about to sweep stay so.
SweepersKept ==
    \A q \in Runs : run[q].pc = "sweep" =>
        /\ run'[q].pc = "sweep" /\ run'[q].agent = run[q].agent
        /\ run'[q].session = run[q].session

SessionsRight ==
    Changes /\ (\A s \in sessions : Accounted(s)) /\ EntryIsChecked

\* A session t that a step makes of s, of the same agent and password.
LEMMA AccountedKept ==
    ASSUME NEW s, NEW t, Accounted(s), t.id = s.id, t.agent = s.agent,
           t.gave = s.gave, t.late = s.late, lastOwn' = lastOwn,
           spoilt.sweep \subseteq spoilt'.sweep, SweepersKept
    PROVE  Accounted(t)'
BY DEF Accounted, SweepersKept

\* A step that only removes sessions and leaves what they rest on.
LEMMA SessionsKept ==
    ASSUME SessionsRight, sessions' \subseteq sessions,
           UNCHANGED <<password, suspended, domain, lastOwn>>,
           spoilt'.sweep = spoilt.sweep, SweepersKept
    PROVE  SessionsRight'
<1>1. \A s \in sessions' : Accounted(s)'
  BY AccountedKept DEF SessionsRight
<1>2. Changes' /\ EntryIsChecked'
  BY DEF SessionsRight, Changes, EntryIsChecked
<1> QED  BY <1>1, <1>2 DEF SessionsRight

\* Requests that start, go on or end without writing what sessions rest on.
LEMMA QuietSessions ==
    ASSUME TypeOK, SessionsRight, NEW r \in Runs, run[r].pc # "sweep",
           \A q \in Runs \ {r} : run'[q] = run[q],
           UNCHANGED <<password, suspended, domain, lastOwn, sessions>>,
           spoilt'.sweep = spoilt.sweep
    PROVE  SessionsRight'
BY SessionsKept DEF SweepersKept

\* A session is opened with the agent's password, unless late, and on a host
\* that is the agent's own.
LEMMA OpenAccounted ==
    ASSUME TypeOK, SessionsRight, NEW r \in Runs, RunRight(r), OpenSession(r)
    PROVE  SessionsRight'
<1> DEFINE new == [id |-> run[r].session, agent |-> run[r].agent,
                   host |-> run[r].host, gave |-> run[r].gave,
                   late |-> run[r].late, moved |-> run[r].moved,
                   before |-> run[r].before]
           a == run[r].agent
<1>0. /\ run[r].pc = "open" /\ a \in Agents
      /\ sessions' = sessions \cup {new}
      /\ UNCHANGED <<password, suspended, domain, lastOwn, spoilt>>
  BY DEF OpenSession, At, RunRight, Placed, rows, history
<1>1. SweepersKept
  BY <1>0 DEF OpenSession, Finish, SweepersKept, TypeOK
<1>2. \A s \in sessions : Accounted(s)'
  BY <1>0, <1>1, AccountedKept DEF SessionsRight
<1>3. lastOwn[a].number <= password[a]
  BY <1>0 DEF SessionsRight, Changes
<1>4. run[r].late \/ run[r].gave = password[a]
  BY <1>0 DEF RunRight, Fresh
<1>5. /\ lastOwn[a].number \in Nat /\ password[a] \in Nat
  BY <1>0 DEF TypeOK
<1>6. ASSUME NEW s, s = new
      PROVE  Accounted(s)'
  <2>1. s.agent = a /\ s.late = run[r].late /\ s.gave = run[r].gave
    BY <1>6
  <2>2. s.late \/ ~(s.gave < lastOwn[a].number)
    BY <1>3, <1>4, <1>5, <2>1
  <2> QED  BY <1>0, <2>1, <2>2 DEF Accounted
<1>7. /\ new.agent \in suspended => new.before
      /\ new.host # Main /\ ~new.moved => domain[new.agent] = new.host
  BY <1>0 DEF RunRight, Admitted
<1>8. EntryIsChecked'
  BY <1>0, <1>7 DEF SessionsRight, EntryIsChecked
<1> QED  BY <1>0, <1>2, <1>6, <1>8 DEF SessionsRight, Changes

\* After an own change the request is about to sweep what is older.
LEMMA SaveAccounted ==
    ASSUME TypeOK, SessionsRight, NEW r \in Runs, RunRight(r), SaveOwn(r)
    PROVE  SessionsRight'
<1> DEFINE a == run[r].agent
           swept == [Idle EXCEPT !.pc = "sweep", !.kind = "change",
                                 !.agent = a, !.session = run[r].session]
<1>0. /\ run[r].pc = "save" /\ a \in Agents /\ Save(a)
      /\ run' = [Overtaken(a) EXCEPT ![r] = swept]
      /\ lastOwn' = [lastOwn EXCEPT ![a] =
                       [session |-> run[r].session, number |-> password'[a]]]
      /\ UNCHANGED <<sessions, spoilt, suspended, domain>>
  BY DEF SaveOwn, Save, At, RunRight, Placed
<1>1. /\ \A b \in Agents \ {a} : /\ password'[b] = password[b]
                                 /\ lastOwn'[b] = lastOwn[b]
      /\ lastOwn'[a].number = password'[a] /\ password'[a] \in Nat
      /\ lastOwn'[a].session = run[r].session
  BY <1>0 DEF Save, TypeOK
<1>2. Changes'
  BY <1>1 DEF SessionsRight, Changes
<1>3. run'[r] = swept
  BY <1>0 DEF Overtaken
<1>4. run'[r].pc = "sweep" /\ run'[r].agent = a /\ run'[r].session = run[r].session
  BY <1>3 DEF Idle
<1>5. SweepersKept
  <2> SUFFICES ASSUME NEW q \in Runs, run[q].pc = "sweep"
               PROVE  run'[q] = run[q]
    BY DEF SweepersKept
  <2> QED  BY <1>0 DEF Overtaken
<1>6. ASSUME NEW s \in sessions
      PROVE  Accounted(s)'
  <2>1. s.agent \in Agents /\ Accounted(s)
    BY DEF TypeOK, SessionType, SessionsRight
  <2>2. CASE s.agent = a
    BY <1>1, <1>4, <2>2 DEF Accounted
  <2>3. CASE s.agent # a
    BY <1>0, <1>1, <1>5, <2>1, <2>3 DEF Accounted, SweepersKept
  <2> QED  BY <2>2, <2>3
<1>7. EntryIsChecked'
  BY <1>0 DEF SessionsRight, EntryIsChecked
<1> QED  BY <1>0, <1>2, <1>6, <1>7 DEF SessionsRight

\* The sweep of the latest change leaves its own session; that of an earlier
\* one leaves nothing that was not accounted for.
LEMMA SweepAccounted ==
    ASSUME TypeOK, SessionsRight, NEW r \in Runs, RunRight(r), Sweep(r)
    PROVE  SessionsRight'
<1> DEFINE a == run[r].agent
<1>0. /\ run[r].pc = "sweep" /\ a \in Agents /\ sessions' = Swept(r)
      /\ UNCHANGED <<password, suspended, domain, lastOwn>>
      /\ \A q \in Runs \ {r} : run'[q] = run[q]
  BY DEF Sweep, Finish, At, RunRight, Placed, rows, TypeOK
<1>1. \A b \in Agents \ {a} : b \in spoilt.sweep => b \in spoilt'.sweep
  BY DEF Sweep, TypeOK
<1>2. run[r].session # lastOwn[a].session => spoilt' = spoilt
  BY DEF Sweep
<1>3. ASSUME NEW s \in sessions'
      PROVE  Accounted(s)'
  <2>1. /\ s \in sessions /\ s.agent \in Agents /\ Accounted(s)
        /\ s.agent = a => s.id = run[r].session
    BY <1>0, <1>3 DEF Swept, TypeOK, SessionType, SessionsRight
  <2>2. CASE s.agent = a /\ run[r].session = lastOwn[a].session
    BY <1>0, <2>1, <2>2 DEF Accounted
  <2>3. CASE s.agent = a /\ run[r].session # lastOwn[a].session
    BY <1>0, <1>2, <2>1, <2>3 DEF Accounted
  <2>4. CASE s.agent # a
    BY <1>0, <1>1, <2>1, <2>4 DEF Accounted
  <2> QED  BY <2>2, <2>3, <2>4
<1>4. Changes' /\ EntryIsChecked'
  BY <1>0 DEF SessionsRight, Changes, EntryIsChecked, Swept
<1> QED  BY <1>3, <1>4 DEF SessionsRight

LEMMA SweepFailsAccounted ==
    ASSUME TypeOK, SessionsRight, NEW r \in Runs, RunRight(r), SweepFails(r)
    PROVE  SessionsRight'
<1> DEFINE a == run[r].agent
<1>0. /\ run[r].pc = "sweep" /\ a \in Agents
      /\ UNCHANGED <<password, suspended, domain, lastOwn, sessions>>
      /\ \A q \in Runs \ {r} : run'[q] = run[q]
      /\ spoilt'.sweep = spoilt.sweep \cup {a}
  BY DEF SweepFails, Finish, At, RunRight, Placed, rows, TypeOK
<1>1. ASSUME NEW s \in sessions'
      PROVE  Accounted(s)'
  <2>1. s.agent \in Agents /\ Accounted(s)
    BY <1>0, <1>1 DEF TypeOK, SessionType, SessionsRight
  <2> QED  BY <1>0, <2>1 DEF Accounted
<1>2. Changes' /\ EntryIsChecked'
  BY <1>0 DEF SessionsRight, Changes, EntryIsChecked
<1> QED  BY <1>1, <1>2 DEF SessionsRight

\* Marks on the sessions leave their agents, passwords and ids.
LEMMA MarkedAccounted ==
    ASSUME TypeOK, SessionsRight, SweepersKept, lastOwn' = lastOwn,
           spoilt'.sweep = spoilt.sweep,
           \A t \in sessions' : \E s \in sessions :
              t.id = s.id /\ t.agent = s.agent /\ t.gave = s.gave /\ t.late = s.late
    PROVE  \A t \in sessions' : Accounted(t)'
BY AccountedKept DEF SessionsRight

LEMMA SetDomainSessions ==
    ASSUME TypeOK, SessionsRight, NEW r \in Runs, RunRight(r), SetDomain(r)
    PROVE  SessionsRight'
<1> DEFINE a == run[r].agent
           moved(s) == IF s.host = domain[a] THEN [s EXCEPT !.moved = TRUE] ELSE s
<1>0. /\ run[r].pc = "set" /\ a \in Agents
      /\ sessions' = {moved(s) : s \in sessions}
      /\ UNCHANGED <<password, suspended, lastOwn>>
      /\ domain' = [domain EXCEPT ![a] = run[r].domain]
      /\ spoilt'.sweep = spoilt.sweep
      /\ run' = [Displaced(a) EXCEPT ![r] = Idle]
  BY DEF SetDomain, At, RunRight, Placed, TypeOK
<1>1. \A s \in sessions :
        /\ moved(s).id = s.id /\ moved(s).agent = s.agent /\ moved(s).host = s.host
        /\ moved(s).gave = s.gave /\ moved(s).late = s.late
        /\ moved(s).before = s.before
        /\ s.moved => moved(s).moved
        /\ s.host = domain[a] => moved(s).moved
  BY DEF TypeOK, SessionType
<1>2. ASSUME NEW q \in Runs, run[q].pc = "sweep"
      PROVE  /\ run'[q].pc = "sweep" /\ run'[q].agent = run[q].agent
             /\ run'[q].session = run[q].session
  <2>1. run'[q] = Displaced(a)[q]
    BY <1>0, <1>2 DEF Displaced
  <2>2. run'[q] \in {run[q], [run[q] EXCEPT !.moved = TRUE],
                     [run[q] EXCEPT !.raced = TRUE]}
    BY <2>1 DEF Displaced
  <2>3. run[q] \in RequestType
    BY DEF TypeOK
  <2> QED  BY <1>2, <2>2, <2>3 DEF RequestType
<1>3. SweepersKept
  BY <1>2 DEF SweepersKept
<1>4. \A t \in sessions' : Accounted(t)'
  BY <1>0, <1>1, <1>3, MarkedAccounted
<1>5. ASSUME NEW s \in sessions
      PROVE  /\ moved(s).agent \in suspended => moved(s).before
             /\ moved(s).host # Main /\ ~moved(s).moved
                => domain'[moved(s).agent] = moved(s).host
  <2>1. /\ s.agent \in suspended => s.before
        /\ s.host # Main /\ ~s.moved => domain[s.agent] = s.host
        /\ s.agent \in Agents
    BY DEF SessionsRight, EntryIsChecked, TypeOK, SessionType
  <2>2. s.agent # a => domain'[s.agent] = domain[s.agent]
    BY <1>0, <2>1 DEF TypeOK
  <2> QED  BY <1>1, <2>1, <2>2
<1>6. EntryIsChecked'
  BY <1>0, <1>5 DEF EntryIsChecked
<1> QED  BY <1>0, <1>4, <1>6 DEF SessionsRight, Changes

LEMMA SetStatusSessions ==
    ASSUME TypeOK, SessionsRight, NEW a \in Agents, NEW b \in BOOLEAN,
           SetStatus(a, b)
    PROVE  SessionsRight'
<1> DEFINE marked(s) == IF s.agent = a THEN [s EXCEPT !.before = b] ELSE s
<1>0. /\ sessions' = {marked(s) : s \in sessions}
      /\ UNCHANGED <<password, domain, lastOwn, spoilt>>
      /\ suspended' = IF b THEN suspended \cup {a} ELSE suspended \ {a}
      /\ \A q \in Runs : run[q].pc = "sweep" => run'[q] = run[q]
  BY DEF SetStatus, At, history
<1>1. \A s \in sessions :
        /\ marked(s).id = s.id /\ marked(s).agent = s.agent
        /\ marked(s).host = s.host /\ marked(s).moved = s.moved
        /\ marked(s).gave = s.gave /\ marked(s).late = s.late
        /\ marked(s).before = IF s.agent = a THEN b ELSE s.before
  BY DEF TypeOK, SessionType
<1>2. SweepersKept
  BY <1>0 DEF SweepersKept
<1>3. \A t \in sessions' : Accounted(t)'
  BY <1>0, <1>1, <1>2, MarkedAccounted
<1>4. ASSUME NEW s \in sessions
      PROVE  /\ marked(s).agent \in suspended' => marked(s).before
             /\ marked(s).host # Main /\ ~marked(s).moved
                => domain[marked(s).agent] = marked(s).host
  BY <1>0, <1>1 DEF SessionsRight, EntryIsChecked
<1>5. ASSUME NEW t \in sessions'
      PROVE  /\ t.agent \in suspended' => t.before
             /\ t.host # Main /\ ~t.moved => domain'[t.agent] = t.host
  <2>1. PICK s \in sessions : t = marked(s)
    BY <1>0
  <2>2. domain' = domain
    BY <1>0
  <2> QED  BY <1>4, <2>1, <2>2
<1>6. EntryIsChecked'
  BY <1>5 DEF EntryIsChecked
<1> QED  BY <1>0, <1>3, <1>6 DEF SessionsRight, Changes

LEMMA ResetSessions ==
    ASSUME TypeOK, SessionsRight, NEW a \in Agents, ResetPassword(a)
    PROVE  SessionsRight'
<1>0. /\ Save(a) /\ UNCHANGED <<sessions, lastOwn, spoilt, suspended, domain>>
      /\ run' = Overtaken(a)
  BY DEF ResetPassword, Save, history
<1>1. SweepersKept
  <2> SUFFICES ASSUME NEW q \in Runs, run[q].pc = "sweep"
               PROVE  run'[q] = run[q]
    BY DEF SweepersKept
  <2> QED  BY <1>0 DEF Overtaken
<1>2. \A s \in sessions' : Accounted(s)'
  BY <1>0, <1>1, MarkedAccounted
<1>3. ASSUME NEW x \in Agents
      PROVE  lastOwn'[x].number <= password'[x]
  <2>1. lastOwn[x].number <= password[x] /\ lastOwn[x].number \in Nat
        /\ password[x] \in Nat
    BY DEF SessionsRight, Changes, TypeOK
  <2>2. password'[x] \in {password[x], password[x] + 1}
    BY <1>0 DEF Save, TypeOK
  <2> QED  BY <1>0, <2>1, <2>2
<1>4. EntryIsChecked'
  BY <1>0 DEF SessionsRight, EntryIsChecked
<1> QED  BY <1>2, <1>3, <1>4 DEF SessionsRight, Changes

LEMMA AgentStepSessions ==
    ASSUME TypeOK, SessionsRight, NEW r \in Runs, RunRight(r), AgentStep(r)
    PROVE  SessionsRight'
<1>1. CASE OpenSession(r) \/ SaveOwn(r) \/ Sweep(r) \/ SweepFails(r)
  BY <1>1, OpenAccounted, SaveAccounted, SweepAccounted, SweepFailsAccounted
<1>2. CASE ~(OpenSession(r) \/ SaveOwn(r) \/ Sweep(r) \/ SweepFails(r))
  <2>1. /\ run[r].pc # "sweep"
        /\ UNCHANGED <<password, suspended, domain, lastOwn, spoilt, sessions>>
    BY <1>2
    DEF AgentStep, StartLogin, PasswordFits, PasswordWrong, StatusFits,
        StatusForbids, OpenFails, StartChange, CheckFits, CheckFails,
        SaveOwnFails, Reject, ReadsOnly, At, rows, history
  <2>2. \A q \in Runs \ {r} : run'[q] = run[q]
    BY <1>2
    DEF AgentStep, StartLogin, PasswordFits, PasswordWrong, StatusFits,
        StatusForbids, OpenFails, StartChange, CheckFits, CheckFails,
        SaveOwnFails, Reject, Finish, Goto, TypeOK
  <2> QED  BY <2>1, <2>2, QuietSessions
<1> QED  BY <1>1, <1>2

LEMMA MasterStepSessions ==
    ASSUME TypeOK, SessionsRight, NEW r \in Runs, RunRight(r), MasterStep(r)
    PROVE  SessionsRight'
<1>1. CASE SetDomain(r)
  BY <1>1, SetDomainSessions
<1>2. CASE ~SetDomain(r)
  <2>1. /\ run[r].pc # "sweep"
        /\ UNCHANGED <<password, suspended, domain, lastOwn, sessions>>
    BY <1>2
    DEF MasterStep, StartSetDomain, SetDomainFails, StartVerify, LookupFits,
        LookupFails, Mark, StartSwitch, Switch, FormFails, StartForm, Reject,
        ReadsOnly, At, rows, history
  <2>2. \A q \in Runs \ {r} : run'[q] = run[q]
    BY <1>2
    DEF MasterStep, StartSetDomain, SetDomainFails, StartVerify, LookupFits,
        LookupFails, Mark, StartSwitch, Switch, FormFails, StartForm, Reject,
        Finish, Goto, TypeOK
  <2>3. spoilt'.sweep = spoilt.sweep
    <3>1. CASE Mark(r) \/ Switch(r)
      BY <3>1 DEF Mark, Switch, TypeOK
    <3>2. CASE ~(Mark(r) \/ Switch(r))
      BY <1>2, <3>2
      DEF MasterStep, StartSetDomain, SetDomainFails, StartVerify, LookupFits,
          LookupFails, StartSwitch, FormFails, StartForm, Reject, ReadsOnly,
          history
    <3> QED  BY <3>1, <3>2
  <2> QED  BY <2>1, <2>2, <2>3, QuietSessions
<1> QED  BY <1>1, <1>2

LEMMA SessionsStep ==
    ASSUME TypeOK, SessionsRight, \A q \in Runs : RunRight(q), [Next]_vars
    PROVE  SessionsRight'
<1>1. CASE \E r \in Runs : AgentStep(r) \/ MasterStep(r)
  BY <1>1, AgentStepSessions, MasterStepSessions
<1>2. ASSUME NEW s \in sessions, EndSession(s)
      PROVE  SessionsRight'
  BY <1>2, SessionsKept DEF EndSession, SweepersKept, rows, history
<1>3. CASE \E a \in Agents : ResetPassword(a) \/ \E b \in BOOLEAN : SetStatus(a, b)
  BY <1>3, ResetSessions, SetStatusSessions
<1>4. CASE UNCHANGED vars
  BY <1>4, SessionsKept DEF vars, SweepersKept, rows, history
<1> QED  BY <1>1, <1>2, <1>3, <1>4 DEF Next

-----------------------------------------------------------------------------
(* The theorems.                                                           *)

\* The invariant holds of every state, for any agents, domains and requests.
THEOREM ConsoleInvariant == Spec => []IInv
<1>1. Init => IInv
  <2> SUFFICES ASSUME Init PROVE IInv
    OBVIOUS
  <2>1. TypeOK /\ \A q \in Runs : run[q] = Idle
    BY InitType
  <2>2. \A q \in Runs : RunRight(q)
    BY <2>1, IdleType DEF RunRight, Placed, Fresh, Admitted, Proving
  <2>3. Tokens /\ LiveDomainIsProven
    BY BeginningsAreProven DEF Init, Tokens, LiveDomainIsProven
  <2>4. Changes /\ (\A s \in sessions : Accounted(s)) /\ EntryIsChecked
    BY DEF Init, Changes, EntryIsChecked
  <2> QED  BY <2>1, <2>2, <2>3, <2>4 DEF IInv
<1>2. IInv /\ [Next]_vars => IInv'
  <2> SUFFICES ASSUME IInv, [Next]_vars PROVE IInv'
    OBVIOUS
  <2>1. TypeOK'
    BY TypeStep DEF IInv, RunRight
  <2>2. \A q \in Runs : RunRight(q)'
    BY AllRight DEF IInv
  <2>3. Tokens' /\ LiveDomainIsProven'
    BY DomainsStep DEF IInv
  <2>4. SessionsRight'
    BY SessionsStep DEF IInv, SessionsRight
  <2> QED  BY <2>1, <2>2, <2>3, <2>4 DEF IInv, SessionsRight
<1> QED  BY <1>1, <1>2, PTL DEF Spec

\* An agent's host is a domain of its own, verified with the token it got with
\* it, unless the domain was replaced during a look-up or a switch.
THEOREM ConsoleLiveDomainIsProven == Spec => []LiveDomainIsProven
<1>1. IInv => LiveDomainIsProven
  BY DEF IInv
<1> QED  BY <1>1, ConsoleInvariant, PTL

\* Sessions of suspended agents are older than the suspension, and a session
\* on an agent's host is that agent's, unless the host changed hands.
THEOREM ConsoleEntryIsChecked == Spec => []EntryIsChecked
<1>1. IInv => EntryIsChecked
  BY DEF IInv
<1> QED  BY <1>1, ConsoleInvariant, PTL

\* An agent's own change of password ends its other sessions, but for a login
\* under way and a deletion that failed.
THEOREM ConsoleSessionsFollowPassword == Spec => []SessionsFollowPassword
<1>1. IInv => SessionsFollowPassword
  BY DEF IInv, Accounted, SessionsFollowPassword, At
<1> QED  BY <1>1, ConsoleInvariant, PTL

\* An own change replaces the password that was given for it, unless it was
\* changed again between the comparison and the save.
THEOREM ConsoleResetStands == Spec => ResetStands
<1> DEFINE Stands ==
        \A r \in Runs :
            At(r, "save") /\ run'[r].pc # "save"
               /\ password'[run[r].agent] # password[run[r].agent]
            => run[r].gave = password[run[r].agent] \/ run[r].raced
<1>1. IInv => Stands
  BY DEF IInv, RunRight, Fresh, At
<1>2. IInv /\ [Next]_vars => [Stands]_vars
  BY <1>1
<1> QED  BY <1>2, ConsoleInvariant, PTL DEF Spec, ResetStands
===============================================================================
