------------------------------ MODULE AgentProofs ------------------------------
(***************************************************************************)
(* Theorems about what agents get on a panel.                              *)
(*                                                                         *)
(* SalesQuota: what the limit on an agent's accounts is worth for every    *)
(* number of accounts and of requests under way, and that taking a         *)
(* creation back harms no service.                                         *)
(* AgentAccess: that the stored grants are what the master decided, and    *)
(* that whatever an agent does to an account was covered while it was      *)
(* asked for.                                                              *)
(* Pagination: that the pages of any list show each of its rows once, and  *)
(* that the links under them lead on, for every length.                    *)
(* UserLists: that a badge is true of the account it is on, that an agent  *)
(* is shown his own services and no others, and that following the links   *)
(* of a list nothing that stayed as it was is missed.                      *)
(***************************************************************************)
EXTENDS SalesQuota, AgentAccess, UserLists, FiniteSetTheorems, SequenceTheorems,
        TLAPS

\* A run of a creation that has not ended and has not inserted its row.
Creating(j) == run[j].pc \in {"load", "count", "panel", "insert", "undo"}

\* The account of a creation belongs to it alone, and nobody but an attachment can have
\* inserted a row for it.
OwnAccount ==
  /\ \A j \in Runs : Creating(j) /\ HasRow(Account(j)) => Account(j) \in attached
  /\ \A j, k \in Runs : j # k /\ Creating(j) /\ Creating(k) => Account(j) # Account(k)

\* A creation about to be counted carries a limit the agent has had.
LimitWasSet == \A j \in Runs : At(j, "count") => run[j].limit \in limits

CreatedHaveRows == \A a \in created : HasRow(a)

\* The limit binds what is sold together with what is about to be.
Total == Cardinality(Sold) + Cardinality(Selling)
TotalBounded == 0 \in limits \/ \E l \in limits : Total < l + Cardinality(Runs)
SerialKept == overlapped \/ Within(Total)

IInv == /\ TypeOK /\ OwnAccount /\ LimitWasSet /\ CreatedHaveRows
        /\ TotalBounded /\ SerialKept

-----------------------------------------------------------------------------
\* What is sold and what is being sold are finite.
LEMMA Finite ==
  ASSUME TypeOK
  PROVE  /\ IsFiniteSet(Sold) /\ Cardinality(Sold) \in Nat
         /\ IsFiniteSet(Selling) /\ Cardinality(Selling) \in Nat
         /\ Cardinality(Runs) \in Nat
         /\ limits \subseteq Nat
<1>1. Sold \in SUBSET Accounts /\ Selling \in SUBSET Runs
  BY DEF Sold, Selling, TypeOK
<1>2. IsFiniteSet(Sold) /\ IsFiniteSet(Selling)
  BY <1>1, FS_Subset, AccountsAssumption, RunsAssumption
<1> QED
  BY <1>2, FS_CardinalityType, RunsAssumption, LimitsAssumption DEF TypeOK

\* A part of a finite set is no larger than the set.
LEMMA Smaller ==
  ASSUME NEW S, IsFiniteSet(S), NEW T, T \subseteq S
  PROVE  Cardinality(T) <= Cardinality(S) /\ Cardinality(T) \in Nat
BY FS_Subset, FS_CardinalityType

\* A step that sells nothing and lets nobody through keeps the bounds.
LEMMA NothingSold ==
  ASSUME TypeOK, TypeOK', TotalBounded, SerialKept,
         Sold' \subseteq Sold, Selling' \subseteq Selling,
         limits \subseteq limits', overlapped => overlapped'
  PROVE  TotalBounded' /\ SerialKept'
<1>1. /\ Cardinality(Sold') <= Cardinality(Sold) /\ Cardinality(Sold') \in Nat
      /\ Cardinality(Selling') <= Cardinality(Selling) /\ Cardinality(Selling') \in Nat
  BY Finite, Smaller
<1>2. Total' <= Total /\ Total \in Nat /\ Total' \in Nat
  BY <1>1, Finite DEF Total
<1>3. TotalBounded'
  BY <1>2, Finite DEF TotalBounded
<1>4. SerialKept'
  BY <1>2, Finite DEF SerialKept, Within
<1> QED
  BY <1>3, <1>4

\* Letting one more creation through, after it was counted.
LEMMA CountKeepsBounds ==
  ASSUME IInv, TypeOK', NEW j \in Runs, Count(j)
  PROVE  TotalBounded' /\ SerialKept'
<1>0. run \in [Runs -> RunStates] /\ Sold' = Sold /\ limits' = limits
  BY DEF IInv, TypeOK, Count, Sold
<1>1. CASE run[j].limit > 0 /\ ActiveCount >= run[j].limit
  <2>1. run' = [run EXCEPT ![j] = Idle] /\ overlapped' = overlapped
    BY <1>1 DEF Count, Finish
  <2>2. Selling' \subseteq Selling
    BY <1>0, <2>1 DEF Selling, LetThrough, Op, Idle
  <2> QED
    BY <1>0, <2>1, <2>2, NothingSold DEF IInv
<1>2. CASE ~(run[j].limit > 0 /\ ActiveCount >= run[j].limit)
  <2>1. /\ run' = [run EXCEPT ![j].pc = "panel"]
        /\ overlapped' = (overlapped \/ \E k \in Runs \ {j} : LetThrough(k))
    BY <1>2 DEF Count, Goto
  <2>2. Selling' \subseteq Selling \cup {j}
    BY <1>0, <2>1 DEF Selling, LetThrough, Op
  <2>3. run[j].limit \in limits /\ run[j].limit \in Nat
    BY <1>0 DEF IInv, LimitWasSet, Count, RunStates
  <2>4. CASE run[j].limit = 0
    BY <1>0, <2>3, <2>4 DEF TotalBounded, SerialKept, Within
  <2>5. CASE run[j].limit > 0
    <3>1. Sold \subseteq {a \in Accounts : row[a] = "active"}
      BY DEF Sold, IInv, TypeOK
    <3>2. /\ IsFiniteSet({a \in Accounts : row[a] = "active"})
          /\ ActiveCount \in Nat
      BY FS_Subset, FS_CardinalityType, AccountsAssumption DEF ActiveCount
    <3>3. Cardinality(Sold) <= ActiveCount
      BY <3>1, <3>2, Smaller DEF ActiveCount
    <3>4. Cardinality(Sold) < run[j].limit /\ Cardinality(Sold) \in Nat
      BY <1>2, <2>3, <2>5, <3>2, <3>3, Finite DEF IInv
    <3>5. Selling' \subseteq Runs
      BY DEF Selling
    <3>6. Cardinality(Selling') <= Cardinality(Runs) /\ Cardinality(Selling') \in Nat
      BY <3>5, Smaller, RunsAssumption
    <3>7. Total' < run[j].limit + Cardinality(Runs)
      BY <1>0, <2>3, <3>4, <3>6, Finite DEF Total, IInv
    <3>8. TotalBounded'
      BY <1>0, <2>3, <3>7 DEF TotalBounded
    <3>9. ASSUME ~overlapped' PROVE Within(Total)'
      <4>1. Selling \subseteq {j}
        BY <2>1, <3>9 DEF Selling
      <4>2. Selling' \subseteq {j}
        BY <2>2, <4>1
      <4>3. Cardinality(Selling') <= 1
        <5>1. IsFiniteSet({j}) /\ Cardinality({j}) = 1
          BY FS_Singleton
        <5> QED
          BY <4>2, <5>1, Smaller
      <4>4. Total' <= run[j].limit
        BY <1>0, <2>3, <3>4, <3>6, <4>3 DEF Total
      <4> QED
        BY <1>0, <2>3, <4>4 DEF Within
    <3> QED
      BY <3>8, <3>9 DEF SerialKept
  <2> QED
    BY <2>3, <2>4, <2>5
<1> QED
  BY <1>1, <1>2

\* The insertion of the row moves one creation from "being sold" to "sold".
LEMMA InsertKeepsBounds ==
  ASSUME IInv, TypeOK', NEW j \in Runs, Insert(j)
  PROVE  TotalBounded' /\ SerialKept'
<1>0. run \in [Runs -> RunStates] /\ limits' = limits /\ overlapped' = overlapped
  BY DEF IInv, TypeOK, Insert
<1>1. Account(j) \in Accounts
  BY DEF IInv, TypeOK, Insert, At, Account
<1>2. Selling' \subseteq Selling \ {j}
  <2>1. run'[j].pc \notin {"panel", "insert"} /\ \A k \in Runs \ {j} : run'[k] = run[k]
    <3>1. \/ run' = [run EXCEPT ![j].pc = "undo"]
          \/ run' = [run EXCEPT ![j].pc = "exists"]
          \/ run' = [run EXCEPT ![j] = Idle]
      BY DEF Insert, Goto, Finish
    <3> QED
      BY <1>0, <3>1 DEF Idle, RunStates
  <2> QED
    BY <2>1 DEF Selling, LetThrough, Op
<1>3. CASE Op(j) = "create" /\ ~HasRow(Account(j))
  <2>1. j \in Selling
    BY <1>3 DEF Insert, Selling, LetThrough, At
  <2>2. Sold' \subseteq Sold \cup {Account(j)}
    BY <1>1, <1>3 DEF Insert, Sold, IInv, TypeOK
  <2>3. Cardinality(Selling') <= Cardinality(Selling) - 1 /\ Cardinality(Selling') \in Nat
    <3>1. /\ IsFiniteSet(Selling \ {j})
          /\ Cardinality(Selling \ {j}) = Cardinality(Selling) - 1
      BY <2>1, Finite, FS_RemoveElement DEF IInv
    <3> QED
      BY <1>2, <3>1, Smaller
  <2>4. Cardinality(Sold') <= Cardinality(Sold) + 1 /\ Cardinality(Sold') \in Nat
    <3>1. /\ IsFiniteSet(Sold \cup {Account(j)})
          /\ Cardinality(Sold \cup {Account(j)}) <= Cardinality(Sold) + 1
          /\ Cardinality(Sold \cup {Account(j)}) \in Nat
      <4>1. IsFiniteSet(Sold) /\ Cardinality(Sold) \in Nat
        BY Finite DEF IInv
      <4>2. /\ IsFiniteSet(Sold \cup {Account(j)})
            /\ Cardinality(Sold \cup {Account(j)})
                 = IF Account(j) \in Sold THEN Cardinality(Sold) ELSE Cardinality(Sold) + 1
        BY <4>1, FS_AddElement
      <4> QED
        BY <4>1, <4>2
    <3> QED
      BY <2>2, <3>1, Smaller, Finite DEF IInv
  <2>5. Total' <= Total /\ Total \in Nat /\ Total' \in Nat
    BY <2>3, <2>4, Finite DEF Total, IInv
  <2>6. TotalBounded'
    BY <1>0, <2>5, Finite DEF TotalBounded, IInv
  <2> QED
    BY <1>0, <2>5, <2>6, Finite DEF SerialKept, Within, IInv
<1>4. CASE ~(Op(j) = "create" /\ ~HasRow(Account(j)))
  <2>1. created' = created
    BY <1>4 DEF Insert
  <2>2. Sold' \subseteq Sold
    BY <1>1, <2>1 DEF Insert, Sold, IInv, TypeOK, CreatedHaveRows, HasRow
  <2> QED
    BY <1>0, <1>2, <2>2, NothingSold DEF IInv
<1> QED
  BY <1>3, <1>4
-----------------------------------------------------------------------------
\* An idle run is a run.
LEMMA IdleType == Idle \in RunStates
BY DEF Idle, RunStates

\* Every step keeps the types.
LEMMA TypeStep ==
  ASSUME TypeOK, [Next]_vars
  PROVE  TypeOK'
<1>0. run \in [Runs -> RunStates] /\ row \in [Accounts -> {"none", "active", "inactive"}]
  BY DEF TypeOK
<1> USE <1>0, IdleType
<1>1. ASSUME NEW j \in Runs, NEW o \in Ops, NEW a \in Accounts, StartCreation(j, o, a)
      PROVE  TypeOK'
  BY <1>1 DEF TypeOK, StartCreation, RunStates, Calls, Ops, history
<1>2. ASSUME NEW j \in Runs, NEW a \in Accounts, StartAttach(j, a) PROVE TypeOK'
  BY <1>2 DEF TypeOK, StartAttach, RunStates, Calls, Ops, history
<1>3. ASSUME NEW j \in Runs, Load(j) PROVE TypeOK'
  <2>1. maxUsers \in Nat
    BY LimitsAssumption DEF TypeOK
  <2> QED
    BY <1>3, <2>1 DEF TypeOK, Load, At, RunStates, Calls, history
<1>4. ASSUME NEW j \in Runs, Count(j) PROVE TypeOK'
  <2>1. overlapped' \in BOOLEAN
    BY <1>4 DEF Count, TypeOK
  <2>2. run' \in [Runs -> RunStates] /\ \A k \in Runs : run'[k].pc # "idle" => run'[k].account \in Accounts
    BY <1>4 DEF TypeOK, Count, At, Goto, Finish, RunStates, Calls, Idle
  <2> QED
    BY <1>4, <2>1, <2>2 DEF TypeOK, Count
<1>5. ASSUME NEW j \in Runs, CreateUser(j) PROVE TypeOK'
  BY <1>5 DEF TypeOK, CreateUser, At, Account, Goto, RunStates, Calls, history
<1>6. ASSUME NEW j \in Runs, Insert(j) PROVE TypeOK'
  BY <1>6 DEF TypeOK, Insert, At, Account, Goto, Finish, RunStates, Calls, Idle
<1>7. ASSUME NEW j \in Runs, Undo(j) PROVE TypeOK'
  BY <1>7 DEF TypeOK, Undo, Finish, RunStates, Idle, history
<1>8. ASSUME NEW j \in Runs, Exists(j) PROVE TypeOK'
  BY <1>8 DEF TypeOK, Exists, At, Goto, Finish, RunStates, Calls, Idle, history
<1>9. ASSUME NEW j \in Runs, Attach(j) PROVE TypeOK'
  BY <1>9 DEF TypeOK, Attach, At, Account, Finish, RunStates, Idle
<1>10. ASSUME NEW j \in Runs, Fail(j) PROVE TypeOK'
  BY <1>10 DEF TypeOK, Fail, At, Account, Goto, Finish, RunStates, Calls, Idle, history
<1>11. ASSUME NEW n \in Limits, SetLimit(n) PROVE TypeOK'
  BY <1>11 DEF TypeOK, SetLimit
<1>12. ASSUME NEW a \in Accounts, Deactivate(a) \/ Reactivate(a) \/ Delete(a) PROVE TypeOK'
  BY <1>12 DEF TypeOK, Deactivate, Reactivate, Delete, history
<1>13. CASE Crash
  BY <1>13 DEF TypeOK, Crash, Idle, history
<1>14. CASE UNCHANGED vars
  BY <1>14 DEF TypeOK, vars
<1> QED
  BY <1>1, <1>2, <1>3, <1>4, <1>5, <1>6, <1>7, <1>8, <1>9, <1>10, <1>11, <1>12, <1>13, <1>14
  DEF Next, Step

\* What a run of a creation knows stays true when no row is inserted and the account
\* of no run changes.
LEMMA OwnKept ==
  ASSUME TypeOK, OwnAccount,
         \A j \in Runs : Creating(j)' => Creating(j) /\ run'[j].account = run[j].account,
         \A a \in Accounts : HasRow(a)' => HasRow(a) /\ (a \in attached => a \in attached')
  PROVE  OwnAccount'
<1>1. \A j \in Runs : Creating(j) => run[j].account \in Accounts
  BY DEF Creating, TypeOK
<1> QED
  BY <1>1 DEF OwnAccount, Account

\* A step keeps the account of a creation its own, and its limit one that was set.
LEMMA OwnStep ==
  ASSUME IInv, [Next]_vars
  PROVE  OwnAccount' /\ LimitWasSet' /\ CreatedHaveRows'
<1>0. /\ TypeOK /\ run \in [Runs -> RunStates] /\ row \in [Accounts -> {"none", "active", "inactive"}]
      /\ OwnAccount /\ LimitWasSet /\ CreatedHaveRows
      /\ created \subseteq Accounts /\ maxUsers \in limits
      /\ \A j \in Runs : run[j].pc # "idle" => run[j].account \in Accounts
  BY DEF IInv, TypeOK
<1> USE <1>0
<1>1. ASSUME NEW j \in Runs, NEW o \in Ops, NEW a \in Accounts, StartCreation(j, o, a)
      PROVE  OwnAccount' /\ LimitWasSet' /\ CreatedHaveRows'
  BY <1>1 DEF OwnAccount, LimitWasSet, CreatedHaveRows, StartCreation, Fresh, Creating, Account,
              At, HasRow, history
<1>2. ASSUME NEW j \in Runs, NEW a \in Accounts, StartAttach(j, a)
      PROVE  OwnAccount' /\ LimitWasSet' /\ CreatedHaveRows'
  BY <1>2, OwnKept DEF LimitWasSet, CreatedHaveRows, StartAttach, Creating, At, HasRow, history
<1>3. ASSUME NEW j \in Runs, Load(j)
      PROVE  OwnAccount' /\ LimitWasSet' /\ CreatedHaveRows'
  BY <1>3, OwnKept DEF LimitWasSet, CreatedHaveRows, Load, Creating, At, HasRow, history, RunStates
<1>4. ASSUME NEW j \in Runs, Count(j)
      PROVE  OwnAccount' /\ LimitWasSet' /\ CreatedHaveRows'
  BY <1>4, OwnKept DEF LimitWasSet, CreatedHaveRows, Count, Goto, Finish, Idle, Creating, At, HasRow,
              RunStates
<1>5. ASSUME NEW j \in Runs, CreateUser(j)
      PROVE  OwnAccount' /\ LimitWasSet' /\ CreatedHaveRows'
  BY <1>5, OwnKept DEF LimitWasSet, CreatedHaveRows, CreateUser, Goto, Creating, At, HasRow, history,
              RunStates
<1>6. ASSUME NEW j \in Runs, Insert(j)
      PROVE  OwnAccount' /\ LimitWasSet' /\ CreatedHaveRows'
  <2>1. CASE HasRow(Account(j))
    BY <1>6, <2>1, OwnKept DEF LimitWasSet, CreatedHaveRows, Insert, Goto, Creating, At, HasRow,
                RunStates
  <2>2. CASE ~HasRow(Account(j))
    <3>1. /\ row' = [row EXCEPT ![Account(j)] = "active"]
          /\ created' = IF Op(j) = "create" THEN created \cup {Account(j)} ELSE created
          /\ attached' = attached /\ limits' = limits
          /\ run' = [run EXCEPT ![j].pc = "exists"] \/ run' = [run EXCEPT ![j] = Idle]
      BY <1>6, <2>2 DEF Insert, Goto, Finish
    <3>2. Account(j) \in Accounts /\ Creating(j)
      BY <1>6 DEF Insert, At, Account, Creating
    <3>3. ~Creating(j)' /\ \A k \in Runs \ {j} : run'[k] = run[k]
      BY <3>1 DEF Creating, Idle, RunStates
    <3>4. \A a : HasRow(a)' => a = Account(j) \/ HasRow(a)
      BY <3>1 DEF HasRow
    <3>5. OwnAccount'
      BY <3>1, <3>2, <3>3, <3>4 DEF OwnAccount, Creating, Account
    <3>6. LimitWasSet'
      BY <3>1, <3>3 DEF LimitWasSet, At, Creating
    <3>7. CreatedHaveRows'
      BY <3>1, <3>2 DEF CreatedHaveRows, HasRow
    <3> QED
      BY <3>5, <3>6, <3>7
  <2> QED
    BY <2>1, <2>2
<1>7. ASSUME NEW j \in Runs, Undo(j)
      PROVE  OwnAccount' /\ LimitWasSet' /\ CreatedHaveRows'
  BY <1>7, OwnKept DEF LimitWasSet, CreatedHaveRows, Undo, Finish, Idle, Creating, At, HasRow, history
<1>8. ASSUME NEW j \in Runs, Exists(j)
      PROVE  OwnAccount' /\ LimitWasSet' /\ CreatedHaveRows'
  BY <1>8, OwnKept DEF LimitWasSet, CreatedHaveRows, Exists, Goto, Finish, Idle, Creating, At, HasRow,
              history, RunStates
<1>9. ASSUME NEW j \in Runs, Attach(j)
      PROVE  OwnAccount' /\ LimitWasSet' /\ CreatedHaveRows'
  <2>1. run' = [run EXCEPT ![j] = Idle] /\ created' = created /\ limits' = limits
    BY <1>9 DEF Attach, Finish
  <2>2. Account(j) \in Accounts
    BY <1>9 DEF Attach, At, Account
  <2>3. /\ \A a \in Accounts : HasRow(a)' => HasRow(a) \/ a \in attached'
        /\ attached \subseteq attached'
        /\ \A a \in Accounts : HasRow(a) => HasRow(a)'
    <3>1. \/ row' = row /\ attached' = attached
          \/ /\ row' = [row EXCEPT ![Account(j)] = "active"]
             /\ attached' = attached \cup {Account(j)}
      BY <1>9 DEF Attach
    <3> QED
      BY <2>2, <3>1 DEF HasRow
  <2>4. \A k \in Runs : Creating(k)' => Creating(k) /\ Account(k)' = Account(k) /\ Account(k) \in Accounts
    BY <2>1 DEF Creating, Idle, Account
  <2> QED
    BY <2>1, <2>3, <2>4 DEF OwnAccount, LimitWasSet, CreatedHaveRows, At, Idle
<1>10. ASSUME NEW j \in Runs, Fail(j)
       PROVE  OwnAccount' /\ LimitWasSet' /\ CreatedHaveRows'
  BY <1>10, OwnKept DEF LimitWasSet, CreatedHaveRows, Fail, Goto, Finish, Idle, Creating, At, HasRow,
              history, RunStates
<1>11. ASSUME NEW n \in Limits, SetLimit(n)
       PROVE  OwnAccount' /\ LimitWasSet' /\ CreatedHaveRows'
  BY <1>11, OwnKept DEF LimitWasSet, CreatedHaveRows, SetLimit, Creating, At, HasRow
<1>12. ASSUME NEW a \in Accounts, Deactivate(a) \/ Reactivate(a)
       PROVE  OwnAccount' /\ LimitWasSet' /\ CreatedHaveRows'
  BY <1>12, OwnKept DEF LimitWasSet, CreatedHaveRows, Deactivate, Reactivate, Creating, At, HasRow,
              history
<1>13. ASSUME NEW a \in Accounts, Delete(a)
       PROVE  OwnAccount' /\ LimitWasSet' /\ CreatedHaveRows'
  BY <1>13, OwnKept DEF LimitWasSet, CreatedHaveRows, Delete, Creating, At, HasRow
<1>14. CASE Crash
  BY <1>14, OwnKept DEF LimitWasSet, CreatedHaveRows, Crash, Idle, Creating, At, HasRow, history
<1>15. CASE UNCHANGED vars
  BY <1>15, OwnKept DEF LimitWasSet, CreatedHaveRows, Creating, At, HasRow, vars
<1> QED
  BY <1>1, <1>2, <1>3, <1>4, <1>5, <1>6, <1>7, <1>8, <1>9, <1>10, <1>11, <1>12, <1>13, <1>14, <1>15
  DEF Next, Step

\* The bounds are disturbed by a count and by an insertion alone.
LEMMA BoundStep ==
  ASSUME IInv, TypeOK', [Next]_vars
  PROVE  TotalBounded' /\ SerialKept'
<1>0. /\ run \in [Runs -> RunStates] /\ row \in [Accounts -> {"none", "active", "inactive"}]
      /\ TypeOK /\ TotalBounded /\ SerialKept /\ created \subseteq Accounts
      /\ \A a \in created : row[a] # "none"
      /\ \A j \in Runs : run[j].pc # "idle" => run[j].account \in Accounts
  BY DEF IInv, TypeOK, CreatedHaveRows, HasRow
<1> USE <1>0
<1>1. ASSUME NEW j \in Runs, Count(j) PROVE TotalBounded' /\ SerialKept'
  BY <1>1, CountKeepsBounds
<1>2. ASSUME NEW j \in Runs, Insert(j) PROVE TotalBounded' /\ SerialKept'
  BY <1>2, InsertKeepsBounds
<1>3. ASSUME NEW j \in Runs,
             \/ \E o \in Ops \ {"attach"}, a \in Accounts : StartCreation(j, o, a)
             \/ \E a \in Accounts : StartAttach(j, a)
             \/ Load(j) \/ CreateUser(j) \/ Undo(j) \/ Exists(j) \/ Fail(j)
      PROVE  TotalBounded' /\ SerialKept'
  <2>1. Sold' = Sold /\ limits' = limits /\ overlapped' = overlapped
    BY <1>3 DEF Sold, StartCreation, StartAttach, Load, CreateUser, Undo, Exists, Fail, history
  <2>2. \A k \in Runs \ {j} : run'[k] = run[k]
    BY <1>3 DEF StartCreation, StartAttach, Load, CreateUser, Undo, Exists, Fail, Goto, Finish
  <2>3. LetThrough(j)' => LetThrough(j)
    <3>1. CASE \/ \E o \in Ops \ {"attach"}, a \in Accounts : StartCreation(j, o, a)
               \/ \E a \in Accounts : StartAttach(j, a)
      BY <3>1 DEF LetThrough, Op, StartCreation, StartAttach
    <3>2. CASE Load(j)
      BY <3>2 DEF LetThrough, Op, Load, RunStates
    <3>3. CASE CreateUser(j) \/ Undo(j) \/ Exists(j) \/ Fail(j)
      BY <3>3 DEF LetThrough, Op, CreateUser, Undo, Exists, Fail, Goto, Finish, Idle, At, RunStates
    <3> QED
      BY <1>3, <3>1, <3>2, <3>3
  <2>4. Selling' \subseteq Selling
    BY <2>2, <2>3 DEF Selling, LetThrough, Op
  <2> QED
    BY <2>1, <2>4, NothingSold
<1>4. ASSUME NEW j \in Runs, Attach(j) PROVE TotalBounded' /\ SerialKept'
  <2>1. /\ run' = [run EXCEPT ![j] = Idle] /\ limits' = limits /\ overlapped' = overlapped
        /\ created' = created /\ reactivated' = reactivated
    BY <1>4 DEF Attach, Finish
  <2>2. Selling' \subseteq Selling
    BY <2>1 DEF Selling, LetThrough, Op, Idle
  <2>3. \/ row' = row
        \/ row[Account(j)] = "none" /\ row' = [row EXCEPT ![Account(j)] = "active"]
    BY <1>4 DEF Attach, HasRow
  <2>4. Sold' \subseteq Sold
    BY <2>1, <2>3 DEF Sold
  <2> QED
    BY <2>1, <2>2, <2>4, NothingSold
<1>5. ASSUME NEW a \in Accounts, Deactivate(a) \/ Reactivate(a) \/ Delete(a)
      PROVE  TotalBounded' /\ SerialKept'
  <2>1. Selling' = Selling /\ limits' = limits /\ overlapped' = overlapped
    BY <1>5 DEF Deactivate, Reactivate, Delete, Selling, LetThrough, Op, history
  <2>2. CASE Deactivate(a)
    BY <2>1, <2>2, NothingSold DEF Deactivate, Sold, history
  <2>3. CASE Reactivate(a)
    BY <2>1, <2>3, NothingSold DEF Reactivate, Sold
  <2>4. CASE Delete(a)
    BY <2>1, <2>4, NothingSold DEF Delete, Sold
  <2> QED
    BY <1>5, <2>2, <2>3, <2>4
<1>6. ASSUME NEW n \in Limits, SetLimit(n) PROVE TotalBounded' /\ SerialKept'
  <2>1. Selling' = Selling /\ Sold' = Sold /\ limits \subseteq limits' /\ overlapped' = overlapped
    BY <1>6 DEF SetLimit, Selling, Sold, LetThrough, Op
  <2> QED
    BY <2>1, NothingSold
<1>7. CASE Crash
  <2>1. Selling' = {} /\ Sold' = Sold /\ limits' = limits /\ overlapped' = overlapped
    BY <1>7 DEF Crash, Selling, Sold, LetThrough, Op, Idle, history
  <2> QED
    BY <2>1, NothingSold
<1>8. CASE UNCHANGED vars
  <2>1. Selling' = Selling /\ Sold' = Sold /\ limits' = limits /\ overlapped' = overlapped
    BY <1>8 DEF vars, Selling, Sold, LetThrough, Op
  <2> QED
    BY <2>1, NothingSold
<1> QED
  BY <1>1, <1>2, <1>3, <1>4, <1>5, <1>6, <1>7, <1>8 DEF Next, Step
-----------------------------------------------------------------------------
\* The inductive invariant holds at the start,
LEMMA InitIInv ==
  ASSUME Init
  PROVE  IInv
<1>1. TypeOK
  BY IdleType DEF Init, TypeOK, Idle
<1>2. OwnAccount /\ LimitWasSet /\ CreatedHaveRows
  BY DEF Init, OwnAccount, LimitWasSet, CreatedHaveRows, Creating, At, Idle
<1>3. Sold = {} /\ Selling = {}
  BY DEF Init, Sold, Selling, LetThrough, Op, Idle
<1>4. Total = 0
  BY <1>3, FS_EmptySet DEF Total
<1>5. maxUsers \in Nat /\ limits = {maxUsers} /\ Cardinality(Runs) \in Nat
  BY LimitsAssumption, RunsAssumption, FS_CardinalityType DEF Init
<1>6. TotalBounded /\ SerialKept
  BY <1>4, <1>5 DEF TotalBounded, SerialKept, Within
<1> QED
  BY <1>1, <1>2, <1>6 DEF IInv

\* every step keeps it,
LEMMA NextIInv ==
  ASSUME IInv, [Next]_vars
  PROVE  IInv'
BY TypeStep, OwnStep, BoundStep DEF IInv

\* and so it always holds.
LEMMA Invariant == Spec => []IInv
BY InitIInv, NextIInv, PTL DEF Spec

\* Type correctness.
THEOREM SalesTypeCorrect == Spec => []TypeOK
<1>1. IInv => TypeOK
  BY DEF IInv
<1> QED
  BY <1>1, Invariant, PTL

\* Creations that overlap exceed the limit by fewer than the requests under way,
\* however many there are (CreatePanelAccount).
THEOREM SalesOverrunIsBounded == Spec => []OverrunIsBounded
<1>1. IInv => OverrunIsBounded
  BY Finite DEF IInv, TotalBounded, Total, OverrunIsBounded
<1> QED
  BY <1>1, Invariant, PTL

\* Creations that do not overlap keep the limit (enforceQuota).
THEOREM SalesQuotaKept == Spec => []QuotaKept
<1>1. IInv => QuotaKept
  BY Finite DEF IInv, SerialKept, Total, QuotaKept, Within
<1> QED
  BY <1>1, Invariant, PTL

\* Both at once: what the check of enforceQuota holds, overlapping or not.
THEOREM SalesQuotaHolds == Spec => []QuotaHolds
<1>1. []OverrunIsBounded /\ []QuotaKept => []QuotaHolds
  <2>1. OverrunIsBounded /\ QuotaKept => QuotaHolds
    BY DEF QuotaHolds
  <2> QED
    BY <2>1, PTL
<1> QED
  BY <1>1, SalesOverrunIsBounded, SalesQuotaKept, PTL

\* A creation taken back deletes the user of no service, except of one that an
\* attachment made meanwhile.
THEOREM SalesUndoSparesServices == Spec => UndoSparesServices
<1>1. IInv /\ [Next]_vars => [\A a \in onPanel \ onPanel' : row'[a] # "none" => a \in attached]_vars
  <2> SUFFICES ASSUME IInv, [Next]_vars, NEW a \in onPanel \ onPanel', row'[a] # "none"
               PROVE  a \in attached
    OBVIOUS
  <2>1. CASE \E j \in Runs : Undo(j)
    <3>1. PICK j \in Runs : Undo(j)
      BY <2>1
    <3>2. a = Account(j) /\ Creating(j) /\ HasRow(Account(j))
      BY <3>1 DEF Undo, Creating, At, HasRow, history
    <3> QED
      BY <3>2 DEF IInv, OwnAccount
  <2>2. CASE \E b \in Accounts : Delete(b)
    BY <2>2 DEF Delete, IInv, TypeOK
  <2>3. CASE ~(\E j \in Runs : Undo(j)) /\ ~(\E b \in Accounts : Delete(b))
    <3>1. onPanel \subseteq onPanel'
      BY <2>3 DEF Next, Step, StartCreation, StartAttach, Load, Count, CreateUser, Insert, Exists,
                  Attach, Fail, SetLimit, Deactivate, Reactivate, Crash, vars
    <3> QED
      BY <3>1
  <2> QED
    BY <2>1, <2>2, <2>3
<1> QED
  BY <1>1, Invariant, PTL DEF Spec, UndoSparesServices

-----------------------------------------------------------------------------
(* The invariant of AgentAccess.                                           *)

\* Where a request of the master and one of an agent may stand, and the kinds
\* of request there are.
MasterStages == {"idle", "edit", "assign", "save inbounds", "read grants",
                 "replace grants", "attach", "adopt"}
AgentStages == {"idle", "look", "judge", "find", "act", "acted", "save",
                "scope", "inbounds", "create"}
Kinds == {"none", "access", "assign", "attach", "page", "service", "create"}

Asking == [pc : MasterStages \cup AgentStages,
           kind : Kinds, perm : Permissions \cup {"none"},
           agent : Agents \cup {NoAgent}, user : Users \cup {NoUser},
           owner : Agents \cup {NoAgent},
           table : SUBSET Users, shown : [Users -> SUBSET Rights],
           ticks : [Users -> SUBSET Rights],
           rowsIn : SUBSET Inbounds,
           shownIn : [Inbounds -> SUBSET InboundRights],
           ticksIn : [Inbounds -> SUBSET InboundRights],
           existing : [Users -> SUBSET Rights],
           names : SUBSET Users, inbounds : SUBSET Inbounds,
           legacy : SUBSET Inbounds,
           seen : [own : BOOLEAN, grant : SUBSET Rights, inbound : BOOLEAN]]

StoreTypes ==
  /\ clients \in [Users -> SUBSET Inbounds]
  /\ service \in [Users -> Agents \cup {NoAgent}]
  /\ assigned \in SUBSET Agents
  /\ scope \in [Agents -> SUBSET Inbounds]
  /\ perms \in [Agents -> SUBSET Permissions]
GrantTypes ==
  /\ granted \in [Agents -> [Users -> SUBSET Rights]]
  /\ inboundGrants \in [Agents -> [Inbounds -> SUBSET InboundRights]]
  /\ wish \in [Agents -> [Users -> SUBSET Rights]]
  /\ wishIn \in [Agents -> [Inbounds -> SUBSET InboundRights]]

\* A request under way has an agent, stands where its kind of request may, and
\* an inbound its form does not show carries no tick.
WellFormed(r, x) ==
  /\ x \in Asking
  /\ x.pc # "idle" => x.agent \in Agents
  /\ r \in MasterRuns => x.pc \in MasterStages
  /\ r \in AgentRuns => x.pc \in AgentStages
  /\ \A i \in Inbounds \ x.rowsIn : x.ticksIn[i] = {}
RequestTypes == /\ req \in [Requests -> Asking]
                /\ \A r \in Requests : WellFormed(r, req[r])

\* What an agent's request rests on at each of its stages: the kind it was
\* begun with, and what has been true at some time since.
MayModify(r) == <<"perm", "modify_user">> \in held[r]
IsMine(r) == /\ <<"assigned">> \in held[r]
             /\ <<"own">> \in held[r] \/ <<"granted">> \in held[r]
IsNamed(r, i) == \/ <<"create", i>> \in held[r]
                 \/ <<"scope", i>> \in held[r] /\ <<"no creates">> \in held[r]
MayCreate(r) ==
  /\ <<"assigned">> \in held[r] /\ req[r].inbounds # {}
  /\ \A i \in req[r].inbounds : IsNamed(r, i)
Covered(r) == \/ req[r].kind = "page" /\ MayModify(r) /\ IsMine(r)
              \/ req[r].kind = "service" /\ <<"own">> \in held[r]
              \/ req[r].kind = "create" /\ MayCreate(r)

Grounded(r) ==
  /\ req[r].pc # "idle" => <<"perm", req[r].perm>> \in held[r]
  /\ req[r].pc \in {"look", "judge", "find", "act", "acted", "save"}
        => req[r].user \in Users
  /\ req[r].pc \in {"look", "judge"} => req[r].kind = "page"
  /\ req[r].pc = "find" => req[r].kind = "service"
  /\ req[r].pc \in {"scope", "inbounds", "create"} => req[r].kind = "create"
  /\ req[r].pc = "judge" /\ (req[r].seen.own \/ "modify" \in req[r].seen.grant)
        => IsMine(r)
  /\ req[r].pc = "inbounds" =>
        /\ <<"assigned">> \in held[r]
        /\ \A i \in req[r].legacy : <<"scope", i>> \in held[r]
  /\ req[r].pc \in {"act", "acted", "save", "create"} => Covered(r)

AccessInv == /\ StoreTypes /\ GrantTypes /\ RequestTypes
             /\ MasterIsObeyed /\ \A r \in AgentRuns : Grounded(r)

-----------------------------------------------------------------------------
(* Requests one at a time.                                                 *)

\* No request is well formed.
LEMMA BlankIsWellFormed ==
  ASSUME NEW r \in Requests
  PROVE  WellFormed(r, Blank)
<1>1. NoRights \in [Users -> SUBSET Rights]
      /\ NoInbounds \in [Inbounds -> SUBSET InboundRights]
  BY DEF NoRights, NoInbounds
<1>2. Blank \in Asking
  BY <1>1 DEF Blank, Asking, MasterStages, Kinds
<1> QED
  BY <1>2 DEF WellFormed, Blank, MasterStages, AgentStages, NoInbounds

\* One request becomes another well-formed one.
LEMMA OneRequest ==
  ASSUME RequestTypes, NEW r \in Requests, NEW x, WellFormed(r, x),
         req' = [req EXCEPT ![r] = x]
  PROVE  /\ RequestTypes' /\ req'[r] = x
         /\ \A q \in Requests \ {r} : req'[q] = req[q]
<1>1. x \in Asking
  BY DEF WellFormed
<1>2. /\ req' \in [Requests -> Asking] /\ req'[r] = x
      /\ \A q \in Requests \ {r} : req'[q] = req[q]
  BY <1>1 DEF RequestTypes
<1>3. \A q \in Requests : WellFormed(q, req'[q])
  BY <1>2 DEF RequestTypes
<1> QED
  BY <1>2, <1>3 DEF RequestTypes, WellFormed

\* What held of a request under way is kept, and what holds of it is added.
LEMMA Kept ==
  ASSUME NEW r \in AgentRuns, Remember, req'[r].pc # "idle"
  PROVE  /\ held[r] \subseteq held'[r]
         /\ \A p \in perms'[req'[r].agent] :
              p \in {req'[r].perm, "modify_user"} => <<"perm", p>> \in held'[r]
         /\ req'[r].agent \in assigned' => <<"assigned">> \in held'[r]
         /\ req'[r].user # NoUser /\ service'[req'[r].user] = req'[r].agent
              => <<"own">> \in held'[r]
         /\ req'[r].user # NoUser
              /\ "modify" \in granted'[req'[r].agent][req'[r].user]
              => <<"granted">> \in held'[r]
<1>1. held'[r] = held[r] \cup Holds(r)'
  BY DEF Remember
<1> QED
  BY <1>1 DEF Holds

\* The same of the inbounds.
LEMMA KeptInbounds ==
  ASSUME NEW r \in AgentRuns, Remember, req'[r].pc # "idle",
         NEW a, a = req'[r].agent
  PROVE  /\ \A i \in Inbounds : "create" \in inboundGrants'[a][i]
                                => <<"create", i>> \in held'[r]
         /\ (\A i \in Inbounds : "create" \notin inboundGrants'[a][i])
              => <<"no creates">> \in held'[r]
         /\ \A i \in scope'[a] : <<"scope", i>> \in held'[r]
<1>1. held'[r] = held[r] \cup Holds(r)'
  BY DEF Remember
<1> QED
  BY <1>1 DEF Holds

\* What was remembered of a request under way stays.
LEMMA Remembered ==
  ASSUME NEW r \in AgentRuns, Remember, req'[r].pc # "idle"
  PROVE  held[r] \subseteq held'[r]
BY DEF Remember

\* A request that is left alone rests on what it rested on, and one that has
\* ended on nothing.
LEMMA StillGrounded ==
  ASSUME NEW r \in AgentRuns, Grounded(r), Remember,
         req'[r] = req[r] \/ req'[r] = Blank
  PROVE  Grounded(r)'
<1>1. CASE req'[r].pc = "idle"
  BY <1>1 DEF Grounded
<1>2. CASE req'[r].pc # "idle"
  <2>1. held[r] \subseteq held'[r] /\ req'[r] = req[r]
    BY <1>2, Remembered DEF Blank
  <2> QED
    BY <2>1 DEF Grounded, Covered, MayModify, IsMine, MayCreate, IsNamed
<1> QED
  BY <1>1, <1>2

\* The steps of a request that leave panel, store and decisions alone.
LEMMA QuietStep ==
  ASSUME AccessInv, NEW r \in Requests, NEW x, WellFormed(r, x),
         req' = [req EXCEPT ![r] = x], Remember,
         UNCHANGED <<clients, store, decided>>,
         r \in AgentRuns => Grounded(r)'
  PROVE  AccessInv'
<1> USE DEF AccessInv
<1>1. StoreTypes' /\ GrantTypes' /\ MasterIsObeyed'
  BY DEF StoreTypes, GrantTypes, MasterIsObeyed, store, decided
<1>2. /\ RequestTypes'
      /\ \A q \in Requests \ {r} : req'[q] = req[q]
  BY OneRequest
<1>3. \A q \in AgentRuns : Grounded(q)'
  BY <1>2, StillGrounded DEF Requests
<1> QED
  BY <1>1, <1>2, <1>3

\* The steps of a master's request leave the agents' requests as they are.
LEMMA MasterAside ==
  ASSUME AccessInv, NEW r \in MasterRuns, NEW x, WellFormed(r, x),
         req' = [req EXCEPT ![r] = x], Remember
  PROVE  /\ RequestTypes'
         /\ \A q \in AgentRuns : Grounded(q)'
<1>1. RequestTypes' /\ \A q \in Requests \ {r} : req'[q] = req[q]
  BY OneRequest DEF Requests, AccessInv
<1>2. \A q \in AgentRuns : q \in Requests \ {r}
  BY NamesAreApart DEF Requests
<1> QED
  BY <1>1, <1>2, StillGrounded DEF AccessInv

\* So does a step of an agent's request the others, once it is grounded.
LEMMA AgentAside ==
  ASSUME AccessInv, NEW r \in AgentRuns, NEW x, WellFormed(r, x),
         req' = [req EXCEPT ![r] = x], Remember, Grounded(r)'
  PROVE  /\ RequestTypes'
         /\ \A q \in AgentRuns : Grounded(q)'
<1>1. r \in Requests /\ AgentRuns \subseteq Requests
  BY DEF Requests
<1>2. RequestTypes' /\ \A q \in Requests \ {r} : req'[q] = req[q]
  BY <1>1, OneRequest DEF AccessInv
<1> QED
  BY <1>1, <1>2, StillGrounded DEF AccessInv

\* So a step of the master that writes nothing yet keeps everything.
LEMMA QuietMaster ==
  ASSUME AccessInv, NEW r \in MasterRuns, NEW x, WellFormed(r, x),
         req' = [req EXCEPT ![r] = x], Remember,
         UNCHANGED <<clients, store, decided>>
  PROVE  AccessInv'
<1>1. r \in Requests /\ r \notin AgentRuns
  BY NamesAreApart DEF Requests
<1> QED
  BY <1>1, QuietStep

\* Wherever a request ends, in answer or in error, it leaves nothing behind.
LEMMA Ends ==
  ASSUME AccessInv, NEW r \in Requests, Conclude(r), Quietly
  PROVE  AccessInv'
<1>1. WellFormed(r, Blank) /\ req' = [req EXCEPT ![r] = Blank]
  BY BlankIsWellFormed DEF Conclude
<1>2. req'[r] = Blank
  BY <1>1, OneRequest DEF AccessInv
<1>3. r \in AgentRuns => Grounded(r)'
  BY <1>2, StillGrounded DEF AccessInv, Quietly
<1> QED
  BY <1>1, <1>3, QuietStep DEF Quietly

-----------------------------------------------------------------------------
(* The master's forms.                                                     *)

\* The access form shows what was stored when it was rendered.
LEMMA RenderAccessKeeps ==
  ASSUME AccessInv, NEW r \in MasterRuns, NEW a \in Agents, RenderAccess(r, a)
  PROVE  AccessInv'
<1>1. PICK rights \in [Users -> SUBSET Rights],
           rightsIn \in [Inbounds -> SUBSET InboundRights],
           table \in SUBSET Users, rowsIn \in SUBSET Inbounds :
        Start(r, [Blank EXCEPT
                 !.pc = "edit", !.kind = "access", !.agent = a,
                 !.table = table, !.shown = rights, !.ticks = rights,
                 !.rowsIn = rowsIn, !.shownIn = rightsIn,
                 !.ticksIn = [i \in Inbounds |->
                                 IF i \in rowsIn THEN rightsIn[i] ELSE {}]])
  <2>1. PICK usersListed \in BOOLEAN, inboundsListed \in BOOLEAN,
             grantsRead \in BOOLEAN, inboundsRead \in BOOLEAN :
          LET rights == IF grantsRead THEN granted[a] ELSE NoRights
              rightsIn == IF inboundsRead THEN inboundGrants[a] ELSE NoInbounds
              table == {u \in Users : \/ usersListed /\ clients[u] # {}
                                      \/ rights[u] # {}}
              rowsIn == IF inboundsListed THEN Inbounds ELSE {}
          IN  Start(r, [Blank EXCEPT
                 !.pc = "edit", !.kind = "access", !.agent = a,
                 !.table = table, !.shown = rights, !.ticks = rights,
                 !.rowsIn = rowsIn, !.shownIn = rightsIn,
                 !.ticksIn = [i \in Inbounds |->
                                 IF i \in rowsIn THEN rightsIn[i] ELSE {}]])
    BY DEF RenderAccess
  <2>a. PICK rights, rightsIn :
          /\ rights = IF grantsRead THEN granted[a] ELSE NoRights
          /\ rightsIn = IF inboundsRead THEN inboundGrants[a] ELSE NoInbounds
    OBVIOUS
  <2>b. PICK table \in SUBSET Users :
          table = {u \in Users : \/ usersListed /\ clients[u] # {}
                                 \/ rights[u] # {}}
    OBVIOUS
  <2>c. PICK rowsIn \in SUBSET Inbounds :
          rowsIn = IF inboundsListed THEN Inbounds ELSE {}
    OBVIOUS
  <2>2. Start(r, [Blank EXCEPT
                 !.pc = "edit", !.kind = "access", !.agent = a,
                 !.table = table, !.shown = rights, !.ticks = rights,
                 !.rowsIn = rowsIn, !.shownIn = rightsIn,
                 !.ticksIn = [i \in Inbounds |->
                                 IF i \in rowsIn THEN rightsIn[i] ELSE {}]])
    BY <2>1, <2>a, <2>b, <2>c
  <2>3. /\ NoRights \in [Users -> SUBSET Rights]
        /\ NoInbounds \in [Inbounds -> SUBSET InboundRights]
        /\ granted[a] \in [Users -> SUBSET Rights]
        /\ inboundGrants[a] \in [Inbounds -> SUBSET InboundRights]
    BY DEF NoRights, NoInbounds, AccessInv, GrantTypes
  <2>4. /\ rights \in [Users -> SUBSET Rights]
        /\ rightsIn \in [Inbounds -> SUBSET InboundRights]
    BY <2>3, <2>a
  <2> QED
    BY <2>2, <2>4
<1>2. PICK ticksIn \in [Inbounds -> SUBSET InboundRights] :
        ticksIn = [i \in Inbounds |-> IF i \in rowsIn THEN rightsIn[i] ELSE {}]
  <2>1. [i \in Inbounds |-> IF i \in rowsIn THEN rightsIn[i] ELSE {}]
          \in [Inbounds -> SUBSET InboundRights]
    OBVIOUS
  <2> QED
    BY <2>1
<1>4. PICK x : x = [Blank EXCEPT !.pc = "edit", !.kind = "access", !.agent = a,
                 !.table = table, !.shown = rights, !.ticks = rights,
                 !.rowsIn = rowsIn, !.shownIn = rightsIn,
                 !.ticksIn = ticksIn]
  OBVIOUS
<1>5. Start(r, x)
  BY <1>1, <1>2, <1>4
<1>6. /\ x \in Asking /\ x.pc = "edit" /\ x.agent = a /\ x.rowsIn = rowsIn
      /\ x.ticksIn = ticksIn
  <2>1. Blank \in Asking
    BY BlankIsWellFormed DEF WellFormed, Requests
  <2> QED
    BY <1>4, <2>1 DEF Asking, MasterStages, Kinds
<1>7. WellFormed(r, x)
  BY <1>2, <1>6, NamesAreApart DEF WellFormed, MasterStages
<1> QED
  BY <1>5, <1>7, QuietMaster DEF Start, Become

\* The form that assigns shows no tick.
LEMMA RenderAssignKeeps ==
  ASSUME AccessInv, NEW r \in MasterRuns, NEW a \in Agents, RenderAssign(r, a)
  PROVE  AccessInv'
<1>1. PICK rowsIn \in SUBSET Inbounds :
        Start(r, [Blank EXCEPT !.pc = "edit", !.kind = "assign", !.agent = a,
                               !.rowsIn = rowsIn])
  BY DEF RenderAssign
<1>2. PICK x : x = [Blank EXCEPT !.pc = "edit", !.kind = "assign", !.agent = a,
                                 !.rowsIn = rowsIn]
  OBVIOUS
<1>3. /\ x \in Asking /\ x.pc = "edit" /\ x.agent = a
      /\ x.ticksIn = NoInbounds
  <2>1. Blank \in Asking /\ Blank.ticksIn = NoInbounds
    BY BlankIsWellFormed DEF WellFormed, Requests, Blank
  <2> QED
    BY <1>2, <2>1 DEF Asking, MasterStages, Kinds
<1>4. WellFormed(r, x)
  BY <1>3, NamesAreApart DEF WellFormed, MasterStages, NoInbounds
<1> QED
  BY <1>1, <1>2, <1>4, QuietMaster DEF Start, Become

\* Ticking, on accounts or on inbounds the form shows, or not at all.
LEMMA TicksKeep ==
  ASSUME AccessInv, NEW r \in MasterRuns,
         \/ \E u \in Users, rights \in SUBSET Rights : TickUser(r, u, rights)
         \/ \E i \in Inbounds, rights \in SUBSET InboundRights :
               TickInbound(r, i, rights)
         \/ TickNothing(r)
  PROVE  AccessInv'
<1>1. /\ r \in Requests /\ req[r] \in Asking /\ WellFormed(r, req[r])
      /\ r \notin AgentRuns
  BY NamesAreApart DEF AccessInv, RequestTypes, Requests
<1>2. ASSUME NEW u \in Users, NEW rights \in SUBSET Rights,
             TickUser(r, u, rights)
      PROVE  AccessInv'
  <2>1. PICK x : x = [req[r] EXCEPT !.ticks[u] = rights, !.pc = "save inbounds"]
    OBVIOUS
  <2>2. req' = [req EXCEPT ![r] = x]
    BY <1>2, <2>1 DEF TickUser
  <2>3. /\ x \in Asking /\ x.pc = "save inbounds" /\ x.agent = req[r].agent
        /\ x.rowsIn = req[r].rowsIn /\ x.ticksIn = req[r].ticksIn
    BY <1>1, <2>1 DEF Asking, MasterStages
  <2>4. WellFormed(r, x)
    BY <1>1, <1>2, <2>3 DEF WellFormed, MasterStages, TickUser, Stands
  <2> QED
    BY <1>2, <2>2, <2>4, QuietMaster DEF TickUser, Quietly
<1>3. ASSUME NEW i \in Inbounds, NEW rights \in SUBSET InboundRights,
             TickInbound(r, i, rights)
      PROVE  AccessInv'
  <2>1. PICK pc \in {"save inbounds", "assign"} :
          req' = [req EXCEPT ![r].ticksIn[i] = rights, ![r].pc = pc]
    BY <1>3 DEF TickInbound
  <2>2. PICK x : x = [req[r] EXCEPT !.ticksIn[i] = rights, !.pc = pc]
    OBVIOUS
  <2>3. req' = [req EXCEPT ![r] = x]
    BY <2>1, <2>2
  <2>4. /\ x \in Asking /\ x.pc = pc /\ x.agent = req[r].agent
        /\ x.rowsIn = req[r].rowsIn
        /\ x.ticksIn = [req[r].ticksIn EXCEPT ![i] = rights]
    BY <1>1, <2>2 DEF Asking, MasterStages
  <2>5. i \in req[r].rowsIn /\ req[r].agent \in Agents
    BY <1>1, <1>3 DEF TickInbound, Stands, WellFormed
  <2>6. WellFormed(r, x)
    <3>1. \A j \in Inbounds \ x.rowsIn : x.ticksIn[j] = req[r].ticksIn[j]
      BY <1>1, <2>4, <2>5 DEF Asking
    <3> QED
      BY <1>1, <2>4, <2>5, <3>1 DEF WellFormed, MasterStages
  <2> QED
    BY <1>3, <2>3, <2>6, QuietMaster DEF TickInbound, Quietly
<1>4. CASE TickNothing(r)
  <2>1. PICK pc \in {"save inbounds", "assign"} : req' = [req EXCEPT ![r].pc = pc]
    BY <1>4 DEF TickNothing, Proceed
  <2>2. PICK x : x = [req[r] EXCEPT !.pc = pc]
    OBVIOUS
  <2>3. req' = [req EXCEPT ![r] = x]
    BY <2>1, <2>2
  <2>4. /\ x \in Asking /\ x.pc = pc /\ x.agent = req[r].agent
        /\ x.rowsIn = req[r].rowsIn /\ x.ticksIn = req[r].ticksIn
    BY <1>1, <2>2 DEF Asking, MasterStages
  <2>5. WellFormed(r, x)
    BY <1>1, <1>4, <2>4 DEF WellFormed, MasterStages, TickNothing, Stands
  <2> QED
    BY <1>4, <2>3, <2>5, QuietMaster DEF TickNothing, Quietly
<1> QED
  BY <1>2, <1>3, <1>4

\* The rest of a master's request that only reads.
LEMMA MasterReadsKeep ==
  ASSUME AccessInv, NEW r \in MasterRuns,
         ReadGrants(r) \/ AttachEnds(r) \/ MasterFails(r)
  PROVE  AccessInv'
<1>1. /\ r \in Requests /\ req[r] \in Asking /\ WellFormed(r, req[r])
  BY DEF AccessInv, RequestTypes, Requests
<1>2. CASE ReadGrants(r)
  <2>1. PICK x : x = [req[r] EXCEPT !.existing = granted[req[r].agent],
                                    !.pc = "replace grants"]
    OBVIOUS
  <2>2. req' = [req EXCEPT ![r] = x]
    BY <1>2, <2>1 DEF ReadGrants
  <2>3. /\ req[r].agent \in Agents
        /\ granted[req[r].agent] \in [Users -> SUBSET Rights]
    BY <1>1, <1>2 DEF ReadGrants, Stands, WellFormed, AccessInv, GrantTypes
  <2>4. /\ x \in Asking /\ x.pc = "replace grants" /\ x.agent = req[r].agent
        /\ x.rowsIn = req[r].rowsIn /\ x.ticksIn = req[r].ticksIn
    BY <1>1, <2>1, <2>3 DEF Asking, MasterStages
  <2>5. WellFormed(r, x)
    BY <1>1, <2>3, <2>4, NamesAreApart DEF WellFormed, MasterStages
  <2> QED
    BY <1>2, <2>2, <2>5, QuietMaster DEF ReadGrants, Quietly
<1>3. CASE AttachEnds(r) \/ MasterFails(r)
  BY <1>1, <1>3, Ends DEF AttachEnds, MasterFails
<1> QED
  BY <1>2, <1>3

\* Attaching begins with the accounts to attach.
LEMMA AttachStarts ==
  ASSUME AccessInv, NEW r \in MasterRuns, NEW a \in Agents,
         NEW names \in SUBSET Users
  PROVE  WellFormed(r, [Blank EXCEPT !.pc = "attach", !.kind = "attach",
                                     !.agent = a, !.names = names])
<1>1. PICK x : x = [Blank EXCEPT !.pc = "attach", !.kind = "attach",
                                 !.agent = a, !.names = names]
  OBVIOUS
<1>2. Blank \in Asking /\ Blank.ticksIn = NoInbounds
  BY BlankIsWellFormed DEF WellFormed, Requests, Blank
<1>3. x \in Asking /\ x.pc = "attach" /\ x.agent = a /\ x.ticksIn = NoInbounds
  BY <1>1, <1>2 DEF Asking, MasterStages, Kinds
<1>4. WellFormed(r, x)
  BY <1>3, NamesAreApart DEF WellFormed, MasterStages, NoInbounds
<1> QED
  BY <1>1, <1>4

\* The two requests that attach accounts the panel has.
LEMMA AttachStartsKeep ==
  ASSUME AccessInv, NEW r \in MasterRuns, NEW a \in Agents,
         \/ \E i \in Inbounds : AttachInbound(r, a, i)
         \/ \E u \in Users : AttachUser(r, a, u)
  PROVE  AccessInv'
<1>1. PICK names \in SUBSET Users :
        Start(r, [Blank EXCEPT !.pc = "attach", !.kind = "attach", !.agent = a,
                               !.names = names])
  <2>1. ASSUME NEW i \in Inbounds, AttachInbound(r, a, i)
        PROVE  \E names \in SUBSET Users :
                 Start(r, [Blank EXCEPT !.pc = "attach", !.kind = "attach",
                                        !.agent = a, !.names = names])
    <3>1. {u \in Users : UserOnInbound(clients[u], {i})} \in SUBSET Users
      OBVIOUS
    <3> QED
      BY <2>1, <3>1 DEF AttachInbound
  <2>2. ASSUME NEW u \in Users, AttachUser(r, a, u)
        PROVE  \E names \in SUBSET Users :
                 Start(r, [Blank EXCEPT !.pc = "attach", !.kind = "attach",
                                        !.agent = a, !.names = names])
    <3>1. {u} \in SUBSET Users
      OBVIOUS
    <3> QED
      BY <2>2, <3>1 DEF AttachUser
  <2> QED
    BY <2>1, <2>2
<1>2. WellFormed(r, [Blank EXCEPT !.pc = "attach", !.kind = "attach",
                                  !.agent = a, !.names = names])
  BY AttachStarts
<1> QED
  BY <1>1, <1>2, QuietMaster DEF Start, Become

-----------------------------------------------------------------------------
(* The master writes.                                                      *)

\* The assignment.
LEMMA SaveAssignmentKeeps ==
  ASSUME AccessInv, NEW r \in MasterRuns, SaveAssignment(r)
  PROVE  AccessInv'
<1>1. /\ req[r] \in Asking /\ WellFormed(r, req[r])
  BY DEF AccessInv, RequestTypes, Requests
<1>2. PICK x : x = [req[r] EXCEPT !.pc = "save inbounds"]
  OBVIOUS
<1>3. req' = [req EXCEPT ![r] = x]
  BY <1>2 DEF SaveAssignment, Proceed
<1>4. /\ x \in Asking /\ x.pc = "save inbounds" /\ x.agent = req[r].agent
      /\ x.rowsIn = req[r].rowsIn /\ x.ticksIn = req[r].ticksIn
  BY <1>1, <1>2 DEF Asking, MasterStages
<1>5. req[r].agent \in Agents
  BY <1>1 DEF SaveAssignment, Stands, WellFormed
<1>6. WellFormed(r, x)
  BY <1>1, <1>4, <1>5, NamesAreApart DEF WellFormed, MasterStages
<1>7. RequestTypes' /\ \A q \in AgentRuns : Grounded(q)'
  BY <1>3, <1>6, MasterAside DEF SaveAssignment
<1>8. StoreTypes' /\ GrantTypes' /\ MasterIsObeyed'
  BY <1>5 DEF SaveAssignment, StoreTypes, GrantTypes, MasterIsObeyed, AccessInv,
              decided
<1> QED
  BY <1>7, <1>8 DEF AccessInv

\* The permissions.
LEMMA SavePermissionsKeeps ==
  ASSUME AccessInv, NEW r \in MasterRuns, NEW a \in Agents,
         NEW some \in PermissionSets, SavePermissions(r, a, some)
  PROVE  AccessInv'
<1>1. StoreTypes' /\ GrantTypes' /\ MasterIsObeyed'
  BY PermissionsAreKnown
  DEF SavePermissions, StoreTypes, GrantTypes, MasterIsObeyed, AccessInv, decided
<1>2. RequestTypes' /\ \A q \in AgentRuns : Grounded(q)'
  BY StillGrounded DEF SavePermissions, RequestTypes, WellFormed, AccessInv
<1> QED
  BY <1>1, <1>2 DEF AccessInv

\* What one agent and one set of names is decided leaves the rest decided as it
\* was.
LEMMA CloudMoves ==
  ASSUME NEW a \in Agents, NEW decides, NEW spoilt,
         clouded' = (clouded \ ({a} \X decides)) \cup ({a} \X spoilt),
         NEW b, NEW n, <<b, n>> \notin clouded'
  PROVE  /\ <<b, n>> \in clouded => b = a /\ n \in decides
         /\ b = a => n \notin spoilt
OBVIOUS

\* The inbounds of a form: an untouched tick writes back what was stored.
LEMMA SaveInboundsKeeps ==
  ASSUME AccessInv, NEW r \in MasterRuns, SaveInbounds(r)
  PROVE  AccessInv'
<1>1. /\ req[r] \in Asking /\ WellFormed(r, req[r]) /\ r \in Requests
  BY DEF AccessInv, RequestTypes, Requests
<1>2. PICK a \in Agents : a = req[r].agent
  BY <1>1 DEF SaveInbounds, Stands, WellFormed
<1>3. PICK ticks \in [Inbounds -> SUBSET InboundRights],
           kept \in SUBSET Inbounds, decides \in SUBSET Inbounds,
           spoilt \in SUBSET Inbounds :
        /\ ticks = req[r].ticksIn /\ kept = req[r].rowsIn
        /\ decides = {i \in kept : \/ req[r].kind = "assign"
                                   \/ ticks[i] # req[r].shownIn[i]}
        /\ spoilt = {i \in Inbounds \ decides :
                        \/ i \notin kept /\ inboundGrants[a][i] # {}
                        \/ i \in kept /\ req[r].shownIn[i] # inboundGrants[a][i]}
  BY <1>1 DEF Asking
<1>4. /\ inboundGrants' = [inboundGrants EXCEPT ![a] = ticks]
      /\ wishIn' = [wishIn EXCEPT ![a] =
                       [i \in Inbounds |-> IF i \in decides THEN ticks[i]
                                           ELSE wishIn[a][i]]]
      /\ clouded' = (clouded \ ({a} \X decides)) \cup ({a} \X spoilt)
      /\ UNCHANGED <<clients, service, assigned, scope, perms, granted, wish>>
  BY <1>2, <1>3 DEF SaveInbounds, InboundTicks
<1>5. \A i \in Inbounds : wishIn[a][i] \in SUBSET InboundRights
  BY DEF AccessInv, GrantTypes
<1>6. [i \in Inbounds |-> IF i \in decides THEN ticks[i] ELSE wishIn[a][i]]
        \in [Inbounds -> SUBSET InboundRights]
  BY <1>5
<1>7. StoreTypes' /\ GrantTypes'
  BY <1>4, <1>6 DEF AccessInv, StoreTypes, GrantTypes
<1>8. MasterIsObeyed'
  <2>1. ASSUME NEW b \in Agents, NEW u \in Users, <<b, u>> \notin clouded'
        PROVE  granted'[b][u] = wish'[b][u]
    <3>1. u \notin decides
      BY <1>3, NamesAreApart
    <3>2. <<b, u>> \notin clouded
      BY <1>4, <2>1, <3>1, CloudMoves
    <3> QED
      BY <1>4, <3>2 DEF AccessInv, MasterIsObeyed
  <2>2. ASSUME NEW b \in Agents, NEW i \in Inbounds, <<b, i>> \notin clouded'
        PROVE  inboundGrants'[b][i] = wishIn'[b][i]
    <3>1. CASE b # a
      <4>1. <<b, i>> \notin clouded
        BY <1>4, <2>2, <3>1, CloudMoves
      <4>2. inboundGrants'[b] = inboundGrants[b] /\ wishIn'[b] = wishIn[b]
        BY <1>4, <3>1 DEF AccessInv, GrantTypes
      <4> QED
        BY <4>1, <4>2 DEF AccessInv, MasterIsObeyed
    <3>2. CASE b = a /\ i \in decides
      BY <1>4, <1>6, <3>2 DEF AccessInv, GrantTypes
    <3>3. CASE b = a /\ i \notin decides
      <4>1. i \notin spoilt /\ <<a, i>> \notin clouded
        BY <1>4, <2>2, <3>3, CloudMoves
      <4>2. inboundGrants[a][i] = wishIn[a][i]
        BY <4>1 DEF AccessInv, MasterIsObeyed
      <4>3. ticks[i] = inboundGrants[a][i]
        BY <1>1, <1>3, <3>3, <4>1 DEF WellFormed
      <4>4. inboundGrants'[a][i] = ticks[i] /\ wishIn'[a][i] = wishIn[a][i]
        BY <1>4, <3>3 DEF AccessInv, GrantTypes
      <4> QED
        BY <3>3, <4>2, <4>3, <4>4
    <3> QED
      BY <3>1, <3>2, <3>3
  <2> QED
    BY <2>1, <2>2 DEF MasterIsObeyed
<1>9. RequestTypes' /\ \A q \in AgentRuns : Grounded(q)'
  <2>1. CASE req[r].kind = "access"
    <3>1. PICK x : x = [req[r] EXCEPT !.pc = "read grants"]
      OBVIOUS
    <3>2. req' = [req EXCEPT ![r] = x]
      BY <2>1, <3>1 DEF SaveInbounds, Proceed
    <3>3. /\ x \in Asking /\ x.pc = "read grants" /\ x.agent = req[r].agent
          /\ x.rowsIn = req[r].rowsIn /\ x.ticksIn = req[r].ticksIn
      BY <1>1, <3>1 DEF Asking, MasterStages
    <3>4. WellFormed(r, x)
      BY <1>1, <1>2, <3>3, NamesAreApart DEF WellFormed, MasterStages
    <3> QED
      BY <3>2, <3>4, MasterAside DEF SaveInbounds
  <2>2. CASE req[r].kind # "access"
    BY <1>1, <2>2, BlankIsWellFormed, MasterAside DEF SaveInbounds, Conclude
  <2> QED
    BY <2>1, <2>2
<1> QED
  BY <1>7, <1>8, <1>9 DEF AccessInv

\* The accounts of a form: those it does not show keep the row that was read.
LEMMA ReplaceGrantsKeeps ==
  ASSUME AccessInv, NEW r \in MasterRuns, ReplaceGrants(r)
  PROVE  AccessInv'
<1>1. /\ req[r] \in Asking /\ WellFormed(r, req[r]) /\ r \in Requests
  BY DEF AccessInv, RequestTypes, Requests
<1>2. PICK a \in Agents : a = req[r].agent
  BY <1>1 DEF ReplaceGrants, Stands, WellFormed
<1>3. PICK ticks \in [Users -> SUBSET Rights], table \in SUBSET Users,
           existing \in [Users -> SUBSET Rights],
           decides \in SUBSET Users, spoilt \in SUBSET Users :
        /\ ticks = req[r].ticks /\ table = req[r].table
        /\ existing = req[r].existing
        /\ decides = {u \in table : ticks[u] # req[r].shown[u]}
        /\ spoilt = {u \in Users :
                        \/ /\ u \in table \ decides
                           /\ req[r].shown[u] # granted[a][u]
                        \/ u \notin table /\ existing[u] # granted[a][u]}
                    \cup (Underscored \cap table)
  BY <1>1 DEF Asking
<1>4. PICK saved \in [Users -> SUBSET Rights] :
        saved = [u \in Users |-> IF u \in table
                                 THEN IF u \in Underscored THEN {} ELSE ticks[u]
                                 ELSE existing[u]]
  <2>1. [u \in Users |-> IF u \in table
                         THEN IF u \in Underscored THEN {} ELSE ticks[u]
                         ELSE existing[u]] \in [Users -> SUBSET Rights]
    OBVIOUS
  <2> QED
    BY <2>1
<1>5. saved = SavedGrants(req[r].existing, req[r].table, FormGrants(r))
  BY <1>3, <1>4 DEF SavedGrants, FormGrants
<1>6. /\ granted' = [granted EXCEPT ![a] = saved]
      /\ wish' = [wish EXCEPT ![a] =
                     [u \in Users |-> IF u \in decides THEN ticks[u]
                                      ELSE wish[a][u]]]
      /\ clouded' = (clouded \ ({a} \X decides)) \cup ({a} \X spoilt)
      /\ UNCHANGED <<clients, service, assigned, scope, perms, inboundGrants, wishIn>>
  BY <1>2, <1>3, <1>5 DEF ReplaceGrants
<1>7. \A u \in Users : wish[a][u] \in SUBSET Rights
  BY DEF AccessInv, GrantTypes
<1>8. [u \in Users |-> IF u \in decides THEN ticks[u] ELSE wish[a][u]]
        \in [Users -> SUBSET Rights]
  BY <1>7
<1>9. StoreTypes' /\ GrantTypes'
  BY <1>6, <1>8 DEF AccessInv, StoreTypes, GrantTypes
<1>10. MasterIsObeyed'
  <2>1. ASSUME NEW b \in Agents, NEW i \in Inbounds, <<b, i>> \notin clouded'
        PROVE  inboundGrants'[b][i] = wishIn'[b][i]
    <3>1. i \notin decides
      BY <1>3, NamesAreApart
    <3>2. <<b, i>> \notin clouded
      BY <1>6, <2>1, <3>1, CloudMoves
    <3> QED
      BY <1>6, <3>2 DEF AccessInv, MasterIsObeyed
  <2>2. ASSUME NEW b \in Agents, NEW u \in Users, <<b, u>> \notin clouded'
        PROVE  granted'[b][u] = wish'[b][u]
    <3>1. CASE b # a
      <4>1. <<b, u>> \notin clouded
        BY <1>6, <2>2, <3>1, CloudMoves
      <4>2. granted'[b] = granted[b] /\ wish'[b] = wish[b]
        BY <1>6, <3>1 DEF AccessInv, GrantTypes
      <4> QED
        BY <4>1, <4>2 DEF AccessInv, MasterIsObeyed
    <3>2. CASE b = a
      <4>1. /\ u \notin spoilt
            /\ <<a, u>> \in clouded => u \in decides
        BY <1>6, <2>2, <3>2, CloudMoves
      <4>2. granted'[a][u] = saved[u]
        BY <1>6 DEF AccessInv, GrantTypes
      <4>3. wish'[a][u] = IF u \in decides THEN ticks[u] ELSE wish[a][u]
        BY <1>6 DEF AccessInv, GrantTypes
      <4>4. CASE u \in decides
        BY <1>3, <1>4, <3>2, <4>1, <4>2, <4>3, <4>4
      <4>5. CASE u \notin decides
        <5>1. granted[a][u] = wish[a][u]
          BY <4>1, <4>5 DEF AccessInv, MasterIsObeyed
        <5>2. saved[u] = granted[a][u]
          BY <1>3, <1>4, <4>1, <4>5
        <5> QED
          BY <3>2, <4>2, <4>3, <4>5, <5>1, <5>2
      <4> QED
        BY <4>4, <4>5
    <3> QED
      BY <3>1, <3>2
  <2> QED
    BY <2>1, <2>2 DEF MasterIsObeyed
<1>11. RequestTypes' /\ \A q \in AgentRuns : Grounded(q)'
  BY <1>1, BlankIsWellFormed, MasterAside DEF ReplaceGrants, Conclude
<1> QED
  BY <1>9, <1>10, <1>11 DEF AccessInv

\* The account of an agent, created by the master.
LEMMA MasterCreatesKeeps ==
  ASSUME AccessInv, NEW r \in MasterRuns, NEW a \in Agents, NEW u \in Users,
         NEW inbounds \in SUBSET Inbounds, MasterCreates(r, a, u, inbounds)
  PROVE  AccessInv'
<1>1. PICK names \in SUBSET Users : names = {u}
  OBVIOUS
<1>2. req' = [req EXCEPT ![r] = [Blank EXCEPT !.pc = "attach", !.kind = "attach",
                                              !.agent = a, !.names = names]]
  BY <1>1 DEF MasterCreates, Become
<1>3. RequestTypes' /\ \A q \in AgentRuns : Grounded(q)'
  BY <1>2, AttachStarts, MasterAside DEF MasterCreates
<1>4. StoreTypes' /\ GrantTypes' /\ MasterIsObeyed'
  BY DEF MasterCreates, StoreTypes, GrantTypes, MasterIsObeyed, AccessInv, decided
<1> QED
  BY <1>3, <1>4 DEF AccessInv

\* One account attached: whatever was decided of it before, it is decided now.
LEMMA AttachKeeps ==
  ASSUME AccessInv, NEW r \in MasterRuns, NEW u \in Users, AttachAccount(r, u)
  PROVE  AccessInv'
<1>1. /\ req[r] \in Asking /\ WellFormed(r, req[r])
  BY DEF AccessInv, RequestTypes, Requests
<1>2. PICK a \in Agents : a = req[r].agent
  BY <1>1 DEF AttachAccount, Stands, WellFormed
<1>3. /\ granted' = [granted EXCEPT ![a] = [granted[a] EXCEPT ![u] = Rights]]
      /\ wish' = [wish EXCEPT ![a][u] = Rights]
      /\ clouded' = clouded \ {<<a, u>>}
      /\ UNCHANGED <<clients, service, assigned, scope, perms, inboundGrants, wishIn>>
  BY <1>2 DEF AttachAccount, UpsertGrant
<1>4. StoreTypes' /\ GrantTypes'
  BY <1>3 DEF AccessInv, StoreTypes, GrantTypes
<1>5. MasterIsObeyed'
  <2>1. ASSUME NEW b \in Agents, NEW i \in Inbounds, <<b, i>> \notin clouded'
        PROVE  inboundGrants'[b][i] = wishIn'[b][i]
    <3>1. <<b, i>> \notin clouded
      BY <1>3, <2>1, NamesAreApart
    <3> QED
      BY <1>3, <3>1 DEF AccessInv, MasterIsObeyed
  <2>2. ASSUME NEW b \in Agents, NEW v \in Users, <<b, v>> \notin clouded'
        PROVE  granted'[b][v] = wish'[b][v]
    <3>1. CASE b = a /\ v = u
      BY <1>3, <3>1 DEF AccessInv, GrantTypes
    <3>2. CASE ~(b = a /\ v = u)
      <4>1. <<b, v>> \notin clouded
        BY <1>3, <2>2, <3>2
      <4>2. granted'[b][v] = granted[b][v] /\ wish'[b][v] = wish[b][v]
        BY <1>3, <3>2 DEF AccessInv, GrantTypes
      <4> QED
        BY <4>1, <4>2 DEF AccessInv, MasterIsObeyed
    <3> QED
      BY <3>1, <3>2
  <2> QED
    BY <2>1, <2>2 DEF MasterIsObeyed
<1>6. PICK x : x = [req[r] EXCEPT !.user = u, !.names = req[r].names \ {u},
                                  !.pc = "adopt"]
  OBVIOUS
<1>7. req' = [req EXCEPT ![r] = x]
  BY <1>6 DEF AttachAccount
<1>8. /\ x \in Asking /\ x.pc = "adopt" /\ x.agent = a
      /\ x.rowsIn = req[r].rowsIn /\ x.ticksIn = req[r].ticksIn
  BY <1>1, <1>2, <1>6 DEF Asking, MasterStages
<1>9. WellFormed(r, x)
  BY <1>1, <1>8, NamesAreApart DEF WellFormed, MasterStages
<1>10. RequestTypes' /\ \A q \in AgentRuns : Grounded(q)'
  BY <1>7, <1>9, MasterAside DEF AttachAccount
<1> QED
  BY <1>4, <1>5, <1>10 DEF AccessInv

\* Then its service. The user of a request that adopts is known.
LEMMA AdoptKeeps ==
  ASSUME AccessInv, NEW r \in MasterRuns, Adopt(r)
  PROVE  AccessInv'
<1>1. /\ req[r] \in Asking /\ WellFormed(r, req[r])
  BY DEF AccessInv, RequestTypes, Requests
<1>2. req[r].agent \in Agents
  BY <1>1 DEF Adopt, Stands, WellFormed
<1>3. StoreTypes' /\ GrantTypes' /\ MasterIsObeyed'
  <2>1. service' \in [Users -> Agents \cup {NoAgent}]
    BY <1>2 DEF Adopt, AccessInv, StoreTypes
  <2> QED
    BY <2>1 DEF Adopt, StoreTypes, GrantTypes, MasterIsObeyed, AccessInv, decided
<1>4. PICK x : x = [req[r] EXCEPT !.pc = "attach"]
  OBVIOUS
<1>5. req' = [req EXCEPT ![r] = x]
  BY <1>4 DEF Adopt, Proceed
<1>6. /\ x \in Asking /\ x.pc = "attach" /\ x.agent = req[r].agent
      /\ x.rowsIn = req[r].rowsIn /\ x.ticksIn = req[r].ticksIn
  BY <1>1, <1>4 DEF Asking, MasterStages
<1>7. WellFormed(r, x)
  BY <1>1, <1>2, <1>6, NamesAreApart DEF WellFormed, MasterStages
<1>8. RequestTypes' /\ \A q \in AgentRuns : Grounded(q)'
  BY <1>5, <1>7, MasterAside DEF Adopt
<1> QED
  BY <1>3, <1>8 DEF AccessInv

\* Every step of a request of the master.
LEMMA MasterStepKeeps ==
  ASSUME AccessInv, NEW r \in MasterRuns, MasterStep(r)
  PROVE  AccessInv'
BY RenderAccessKeeps, RenderAssignKeeps, SavePermissionsKeeps, AttachStartsKeep,
   MasterCreatesKeeps, TicksKeep, SaveAssignmentKeeps, SaveInboundsKeeps,
   MasterReadsKeep, ReplaceGrantsKeeps, AttachKeeps, AdoptKeeps
DEF MasterStep

-----------------------------------------------------------------------------
(* The agent at work.                                                      *)

\* A request is made by an agent with the permission it needs.
LEMMA StartKeeps ==
  ASSUME AccessInv, NEW r \in AgentRuns, NEW a \in Agents,
         NEW perm \in Permissions, perm \in perms[a],
         NEW x \in Asking, x.agent = a, x.perm = perm, x.ticksIn = NoInbounds,
         \/ x.pc = "look" /\ x.kind = "page" /\ x.user \in Users
         \/ x.pc = "find" /\ x.kind = "service" /\ x.user \in Users
         \/ x.pc = "scope" /\ x.kind = "create",
         Start(r, x)
  PROVE  AccessInv'
<1>1. r \in Requests /\ req' = [req EXCEPT ![r] = x] /\ x.pc # "idle"
  BY DEF Start, Become, Requests
<1>2. WellFormed(r, x)
  BY NamesAreApart DEF WellFormed, AgentStages, NoInbounds
<1>3. req'[r] = x
  BY <1>1, <1>2, OneRequest DEF AccessInv
<1>4. Grounded(r)'
  <2>1. perm \in perms'[a] /\ Remember
    BY DEF Start, store
  <2>2. <<"perm", perm>> \in held'[r]
    BY <1>1, <1>3, <2>1, Kept
  <2> QED
    BY <1>3, <2>2 DEF Grounded
<1> QED
  BY <1>1, <1>2, <1>4, QuietStep DEF Start

\* From a page of the panel, or through a route of a service.
LEMMA StartChangeKeeps ==
  ASSUME AccessInv, NEW r \in AgentRuns, NEW a \in Agents, NEW u \in Users,
         \/ \E perm \in PagePermissions : StartChange(r, a, perm, u)
         \/ \E perm \in ServicePermissions : StartServiceChange(r, a, perm, u)
  PROVE  AccessInv'
<1>1. PICK perm \in Permissions, pc \in {"look", "find"},
           kind \in {"page", "service"} :
        /\ pc = "look" <=> kind = "page"
        /\ perm \in perms[a]
        /\ Start(r, [Blank EXCEPT !.pc = pc, !.kind = kind, !.perm = perm,
                                  !.agent = a, !.user = u])
  BY DEF StartChange, StartServiceChange, PagePermissions, ServicePermissions,
         Permissions
<1>2. PICK x : x = [Blank EXCEPT !.pc = pc, !.kind = kind, !.perm = perm,
                                 !.agent = a, !.user = u]
  OBVIOUS
<1>3. Blank \in Asking /\ Blank.ticksIn = NoInbounds
  BY BlankIsWellFormed DEF WellFormed, Blank, Requests
<1>4. /\ x \in Asking /\ x.pc = pc /\ x.kind = kind /\ x.perm = perm
      /\ x.agent = a /\ x.user = u /\ x.ticksIn = NoInbounds
  BY <1>2, <1>3 DEF Asking, AgentStages, Kinds
<1> QED
  BY <1>1, <1>2, <1>4, StartKeeps

\* Or to create an account.
LEMMA StartCreateKeeps ==
  ASSUME AccessInv, NEW r \in AgentRuns, NEW a \in Agents,
         NEW inbounds \in SUBSET Inbounds, StartCreate(r, a, inbounds)
  PROVE  AccessInv'
<1>1. PICK x : x = [Blank EXCEPT !.pc = "scope", !.kind = "create",
                                 !.perm = "create_user", !.agent = a,
                                 !.inbounds = inbounds]
  OBVIOUS
<1>2. Blank \in Asking /\ Blank.ticksIn = NoInbounds
      /\ "create_user" \in Permissions
  BY BlankIsWellFormed DEF WellFormed, Blank, Requests, Permissions
<1>3. /\ x \in Asking /\ x.pc = "scope" /\ x.kind = "create" /\ x.agent = a
      /\ x.perm = "create_user" /\ x.ticksIn = NoInbounds
  BY <1>1, <1>2 DEF Asking, AgentStages, Kinds
<1> QED
  BY <1>1, <1>2, <1>3, StartKeeps DEF StartCreate

\* What an agent's request becomes at its next stage.
LEMMA AgentProceeds ==
  ASSUME AccessInv, NEW r \in AgentRuns, req[r].pc # "idle",
         NEW x \in Asking, x.pc \in AgentStages, x.agent = req[r].agent,
         x.rowsIn = req[r].rowsIn, x.ticksIn = req[r].ticksIn,
         req' = [req EXCEPT ![r] = x]
  PROVE  WellFormed(r, x) /\ req'[r] = x /\ RequestTypes'
<1>1. r \in Requests /\ req[r] \in Asking /\ WellFormed(r, req[r])
  BY DEF AccessInv, RequestTypes, Requests
<1>2. WellFormed(r, x)
  BY <1>1, NamesAreApart DEF WellFormed
<1> QED
  BY <1>1, <1>2, OneRequest DEF AccessInv

\* What the agent sees of an account as its own, or as granted for modifying,
\* is so at that moment.
LEMMA LookUpKeeps ==
  ASSUME AccessInv, NEW r \in AgentRuns, LookUp(r)
  PROVE  AccessInv'
<1>1. r \in Requests /\ req[r] \in Asking
  BY DEF Requests, AccessInv, RequestTypes
<1>2. PICK a \in Agents, u \in Users : a = req[r].agent /\ u = req[r].user
  BY <1>1 DEF LookUp, Stands, AccessInv, RequestTypes, WellFormed, Grounded
<1>3. PICK v : /\ v \in [own : BOOLEAN, grant : SUBSET Rights, inbound : BOOLEAN]
               /\ v.own => a \in assigned /\ service[u] = a
               /\ "modify" \in v.grant => a \in assigned
                                          /\ "modify" \in granted[a][u]
               /\ \/ req' = [req EXCEPT ![r].pc = "judge", ![r].seen = v]
                  \/ Conclude(r)
  <2>1. PICK viewable, listed, v :
          /\ v = VisibleUsers(a \in assigned, {w \in Users : service[w] = a},
                              granted[a], viewable, listed)[u]
          /\ IF CanView(v)
             THEN req' = [req EXCEPT ![r].pc = "judge", ![r].seen = v]
             ELSE Conclude(r)
    BY <1>2 DEF LookUp
  <2>2. DOMAIN granted[a] = Users /\ granted[a][u] \in SUBSET Rights
    BY DEF AccessInv, GrantTypes
  <2>3. v = [own |-> a \in assigned /\ service[u] = a,
             grant |-> IF a \in assigned THEN granted[a][u] ELSE {},
             inbound |-> a \in assigned /\ UserOnInbound(listed[u], viewable)]
    BY <2>1, <2>2 DEF VisibleUsers
  <2>4. /\ v \in [own : BOOLEAN, grant : SUBSET Rights, inbound : BOOLEAN]
        /\ v.own => a \in assigned /\ service[u] = a
        /\ "modify" \in v.grant => a \in assigned /\ "modify" \in granted[a][u]
    BY <2>2, <2>3 DEF UserOnInbound
  <2> QED
    BY <2>1, <2>4
<1>4. CASE req' = [req EXCEPT ![r].pc = "judge", ![r].seen = v]
  <2>1. PICK x : x = [req[r] EXCEPT !.pc = "judge", !.seen = v]
    OBVIOUS
  <2>2. req' = [req EXCEPT ![r] = x]
    BY <1>4, <2>1
  <2>3. /\ x \in Asking /\ x.pc = "judge" /\ x.seen = v
        /\ x.user = u /\ x.kind = req[r].kind /\ x.agent = a
        /\ x.perm = req[r].perm
        /\ x.rowsIn = req[r].rowsIn /\ x.ticksIn = req[r].ticksIn
    BY <1>1, <1>2, <1>3, <2>1 DEF Asking, AgentStages
  <2>4. WellFormed(r, x) /\ req'[r] = x
    BY <1>2, <2>2, <2>3, AgentProceeds DEF LookUp, Stands, AgentStages
  <2>5. Grounded(r)'
    <3>1. req[r].kind = "page" /\ <<"perm", req[r].perm>> \in held[r]
      BY DEF LookUp, Stands, AccessInv, Grounded
    <3>2. held[r] \subseteq held'[r]
      BY <2>3, <2>4, Kept DEF LookUp, Quietly
    <3>3. v.own \/ "modify" \in v.grant => IsMine(r)'
      <4>1. UNCHANGED <<service, assigned, granted>> /\ u # NoUser
        BY NamesAreApart DEF LookUp, Quietly, store
      <4> QED
        BY <1>3, <2>3, <2>4, <4>1, Kept DEF IsMine, LookUp, Quietly
    <3> QED
      BY <1>2, <2>3, <2>4, <3>1, <3>2, <3>3 DEF Grounded
  <2> QED
    BY <1>1, <2>2, <2>4, <2>5, QuietStep DEF LookUp, Quietly
<1>5. CASE Conclude(r)
  BY <1>1, <1>5, Ends DEF LookUp
<1> QED
  BY <1>3, <1>4, <1>5

\* The permission to modify is read where the change is judged.
LEMMA JudgeKeeps ==
  ASSUME AccessInv, NEW r \in AgentRuns, Judge(r)
  PROVE  AccessInv'
<1>1. r \in Requests /\ req[r] \in Asking /\ req[r].pc = "judge"
  BY DEF Requests, AccessInv, RequestTypes, Judge, Stands
<1>2. CASE /\ CanModify(req[r].seen, "modify_user" \in perms[req[r].agent])
           /\ Proceed(r, "act")
  <2>1. PICK x : x = [req[r] EXCEPT !.pc = "act"]
    OBVIOUS
  <2>2. req' = [req EXCEPT ![r] = x]
    BY <1>2, <2>1 DEF Proceed
  <2>3. /\ x \in Asking /\ x.pc = "act" /\ x.user = req[r].user
        /\ x.kind = req[r].kind /\ x.agent = req[r].agent
        /\ x.perm = req[r].perm
        /\ x.rowsIn = req[r].rowsIn /\ x.ticksIn = req[r].ticksIn
    BY <1>1, <2>1 DEF Asking, AgentStages
  <2>4. WellFormed(r, x) /\ req'[r] = x
    BY <1>1, <2>2, <2>3, AgentProceeds DEF AgentStages
  <2>5. Grounded(r)'
    <3>1. /\ req[r].kind = "page" /\ req[r].user \in Users
          /\ <<"perm", req[r].perm>> \in held[r]
          /\ IsMine(r)
      BY <1>1, <1>2 DEF AccessInv, Grounded, CanModify
    <3>2. held[r] \subseteq held'[r]
      BY <2>3, <2>4, Kept DEF Judge, Quietly
    <3>3. MayModify(r)'
      BY <1>2, <2>3, <2>4, Kept DEF Judge, Quietly, store, CanModify, MayModify
    <3>4. IsMine(r)'
      BY <3>1, <3>2 DEF IsMine
    <3> QED
      BY <2>3, <2>4, <3>1, <3>2, <3>3, <3>4 DEF Grounded, Covered
  <2> QED
    BY <1>1, <2>2, <2>4, <2>5, QuietStep DEF Judge, Quietly
<1>3. CASE Conclude(r)
  BY <1>1, <1>3, Ends DEF Judge
<1> QED
  BY <1>2, <1>3 DEF Judge

\* The service is the agent's when it is found.
LEMMA FindServiceKeeps ==
  ASSUME AccessInv, NEW r \in AgentRuns, FindService(r)
  PROVE  AccessInv'
<1>1. r \in Requests /\ req[r] \in Asking /\ req[r].pc = "find"
  BY DEF Requests, AccessInv, RequestTypes, FindService, Stands
<1>2. CASE /\ service[req[r].user] = req[r].agent
           /\ req' = [req EXCEPT ![r].pc = "act", ![r].owner = req[r].agent]
  <2>1. PICK x : x = [req[r] EXCEPT !.pc = "act", !.owner = req[r].agent]
    OBVIOUS
  <2>2. req' = [req EXCEPT ![r] = x]
    BY <1>2, <2>1
  <2>3. /\ x \in Asking /\ x.pc = "act" /\ x.user = req[r].user
        /\ x.kind = req[r].kind /\ x.agent = req[r].agent
        /\ x.perm = req[r].perm
        /\ x.rowsIn = req[r].rowsIn /\ x.ticksIn = req[r].ticksIn
    BY <1>1, <2>1 DEF Asking, AgentStages
  <2>4. WellFormed(r, x) /\ req'[r] = x
    BY <1>1, <2>2, <2>3, AgentProceeds DEF AgentStages
  <2>5. Grounded(r)'
    <3>1. /\ req[r].kind = "service" /\ req[r].user \in Users
          /\ <<"perm", req[r].perm>> \in held[r]
      BY <1>1 DEF AccessInv, Grounded
    <3>2. held[r] \subseteq held'[r]
      BY <2>3, <2>4, Kept DEF FindService, Quietly
    <3>3. <<"own">> \in held'[r]
      <4>1. service' = service /\ req[r].user # NoUser
        BY <3>1, NamesAreApart DEF FindService, Quietly, store
      <4> QED
        BY <1>2, <2>3, <2>4, <4>1, Kept DEF FindService, Quietly
    <3> QED
      BY <2>3, <2>4, <3>1, <3>2, <3>3 DEF Grounded, Covered
  <2> QED
    BY <1>1, <2>2, <2>4, <2>5, QuietStep DEF FindService, Quietly
<1>3. CASE Conclude(r)
  BY <1>1, <1>3, Ends DEF FindService
<1> QED
  BY <1>2, <1>3 DEF FindService

\* Panel and services may change, decisions do not.
LEMMA WritesKeep ==
  ASSUME AccessInv, clients' \in [Users -> SUBSET Inbounds],
         service' \in [Users -> Agents \cup {NoAgent}],
         UNCHANGED <<assigned, scope, perms, granted, inboundGrants, decided>>
  PROVE  StoreTypes' /\ GrantTypes' /\ MasterIsObeyed'
BY DEF StoreTypes, GrantTypes, MasterIsObeyed, AccessInv, decided

\* What a request rests on carries it on to the next stage of its change.
LEMMA StaysCovered ==
  ASSUME AccessInv, NEW r \in AgentRuns, NEW x \in Asking,
         req[r].pc \in {"act", "acted"}, x.pc \in {"acted", "save"},
         x.user = req[r].user, x.kind = req[r].kind, x.perm = req[r].perm,
         x.agent = req[r].agent, x.inbounds = req[r].inbounds,
         x.rowsIn = req[r].rowsIn, x.ticksIn = req[r].ticksIn,
         req' = [req EXCEPT ![r] = x], Remember
  PROVE  /\ WellFormed(r, x) /\ RequestTypes' /\ Grounded(r)'
         /\ \A q \in AgentRuns : Grounded(q)'
<1>1. WellFormed(r, x) /\ req'[r] = x
  BY AgentProceeds DEF AgentStages
<1>2. /\ Covered(r) /\ req[r].user \in Users
      /\ <<"perm", req[r].perm>> \in held[r]
  BY DEF AccessInv, Grounded
<1>3. held[r] \subseteq held'[r]
  BY <1>1, Kept
<1>4. Covered(r)'
  BY <1>1, <1>2, <1>3 DEF Covered, MayModify, IsMine, MayCreate, IsNamed
<1>5. Grounded(r)'
  BY <1>1, <1>2, <1>3, <1>4 DEF Grounded
<1> QED
  BY <1>1, <1>5, AgentAside

\* The change is made on what was judged.
LEMMA ActKeeps ==
  ASSUME AccessInv, NEW r \in AgentRuns, Act(r)
  PROVE  AccessInv'
<1>1. r \in Requests /\ req[r] \in Asking /\ req[r].pc = "act"
  BY DEF Requests, AccessInv, RequestTypes, Act, Stands
<1>2. CASE Proceed(r, "acted")
  <2>1. PICK x : x = [req[r] EXCEPT !.pc = "acted"]
    OBVIOUS
  <2>2. req' = [req EXCEPT ![r] = x]
    BY <1>2, <2>1 DEF Proceed
  <2>3. /\ x \in Asking /\ x.pc = "acted" /\ x.user = req[r].user
        /\ x.kind = req[r].kind /\ x.agent = req[r].agent
        /\ x.perm = req[r].perm /\ x.inbounds = req[r].inbounds
        /\ x.rowsIn = req[r].rowsIn /\ x.ticksIn = req[r].ticksIn
    BY <1>1, <2>1 DEF Asking, AgentStages
  <2>4. RequestTypes' /\ \A q \in AgentRuns : Grounded(q)'
    BY <1>1, <2>2, <2>3, StaysCovered DEF Act
  <2>5. /\ clients' \in [Users -> SUBSET Inbounds] /\ UNCHANGED store
        /\ UNCHANGED decided
    BY DEF Act, AccessInv, StoreTypes
  <2>6. StoreTypes' /\ GrantTypes' /\ MasterIsObeyed'
    BY <2>5, WritesKeep DEF store, AccessInv, StoreTypes
  <2> QED
    BY <2>4, <2>6 DEF AccessInv
<1>3. CASE Conclude(r) /\ UNCHANGED clients
  <2>1. Conclude(r) /\ Quietly
    BY <1>3 DEF Act, Quietly
  <2> QED
    BY <1>1, <2>1, Ends
<1> QED
  BY <1>2, <1>3 DEF Act

\* The row to write is read, whoever it belongs to.
LEMMA ReadRowKeeps ==
  ASSUME AccessInv, NEW r \in AgentRuns, ReadRow(r)
  PROVE  AccessInv'
<1>1. r \in Requests /\ req[r] \in Asking /\ req[r].pc = "acted"
  BY DEF Requests, AccessInv, RequestTypes, ReadRow, Stands
<1>2. PICK owner \in Agents \cup {NoAgent} :
        req' = [req EXCEPT ![r].pc = "save", ![r].owner = owner]
  <2>1. /\ service[req[r].user] \in Agents \cup {NoAgent}
        /\ req[r].owner \in Agents \cup {NoAgent}
    BY <1>1 DEF AccessInv, StoreTypes, Grounded, Asking
  <2> QED
    BY <2>1 DEF ReadRow
<1>3. PICK x : x = [req[r] EXCEPT !.pc = "save", !.owner = owner]
  OBVIOUS
<1>4. req' = [req EXCEPT ![r] = x]
  BY <1>2, <1>3
<1>5. /\ x \in Asking /\ x.pc = "save" /\ x.user = req[r].user
      /\ x.kind = req[r].kind /\ x.agent = req[r].agent
      /\ x.perm = req[r].perm /\ x.inbounds = req[r].inbounds
      /\ x.rowsIn = req[r].rowsIn /\ x.ticksIn = req[r].ticksIn
  BY <1>1, <1>3 DEF Asking, AgentStages
<1>6. WellFormed(r, x) /\ Grounded(r)'
  BY <1>1, <1>4, <1>5, StaysCovered DEF ReadRow, Quietly
<1> QED
  BY <1>1, <1>4, <1>6, QuietStep DEF ReadRow, Quietly

\* And written, or deleted.
LEMMA RowWriteKeeps ==
  ASSUME AccessInv, NEW r \in AgentRuns, SaveRow(r) \/ DeleteRow(r)
  PROVE  AccessInv'
<1>1. /\ r \in Requests /\ req[r] \in Asking /\ Conclude(r) /\ Remember
      /\ UNCHANGED <<clients, assigned, scope, perms, granted, inboundGrants,
                     decided>>
  BY DEF Requests, AccessInv, RequestTypes, SaveRow, DeleteRow
<1>2. service' \in [Users -> Agents \cup {NoAgent}]
  <2>1. req[r].owner \in Agents \cup {NoAgent}
    BY <1>1 DEF Asking
  <2>2. CASE SaveRow(r)
    BY <2>1, <2>2 DEF SaveRow, AccessInv, StoreTypes
  <2>3. CASE DeleteRow(r)
    BY <2>3 DEF DeleteRow, AccessInv, StoreTypes
  <2> QED
    BY <2>2, <2>3
<1>3. StoreTypes' /\ GrantTypes' /\ MasterIsObeyed'
  BY <1>1, <1>2, WritesKeep DEF AccessInv, StoreTypes
<1>4. WellFormed(r, Blank) /\ req' = [req EXCEPT ![r] = Blank]
  BY <1>1, BlankIsWellFormed DEF Conclude
<1>5. req'[r] = Blank
  BY <1>1, <1>4, OneRequest DEF AccessInv
<1>6. Grounded(r)'
  BY <1>1, <1>5, StillGrounded DEF AccessInv
<1>7. RequestTypes' /\ \A q \in AgentRuns : Grounded(q)'
  BY <1>1, <1>4, <1>6, AgentAside
<1> QED
  BY <1>3, <1>7 DEF AccessInv

\* The assignment is looked at, and the scope it names is what it was then.
LEMMA LoadScopeKeeps ==
  ASSUME AccessInv, NEW r \in AgentRuns, LoadScope(r)
  PROVE  AccessInv'
<1>1. r \in Requests /\ req[r] \in Asking /\ req[r].pc = "scope"
  BY DEF Requests, AccessInv, RequestTypes, LoadScope, Stands
<1>2. PICK a \in Agents : a = req[r].agent
  BY <1>1 DEF AccessInv, RequestTypes, WellFormed
<1>3. CASE /\ a \in assigned
           /\ req' = [req EXCEPT ![r].pc = "inbounds", ![r].legacy = scope[a]]
  <2>1. PICK x : x = [req[r] EXCEPT !.pc = "inbounds", !.legacy = scope[a]]
    OBVIOUS
  <2>2. req' = [req EXCEPT ![r] = x]
    BY <1>3, <2>1
  <2>a. scope[a] \in SUBSET Inbounds
    BY DEF AccessInv, StoreTypes
  <2>3. /\ x \in Asking /\ x.pc = "inbounds" /\ x.legacy = scope[a]
        /\ x.kind = req[r].kind /\ x.agent = a /\ x.perm = req[r].perm
        /\ x.rowsIn = req[r].rowsIn /\ x.ticksIn = req[r].ticksIn
    BY <1>1, <1>2, <2>1, <2>a DEF Asking, AgentStages
  <2>4. WellFormed(r, x) /\ req'[r] = x
    BY <1>1, <1>2, <2>2, <2>3, AgentProceeds DEF AgentStages
  <2>5. Grounded(r)'
    <3>1. req[r].kind = "create" /\ <<"perm", req[r].perm>> \in held[r]
      BY <1>1 DEF AccessInv, Grounded
    <3>2. UNCHANGED <<assigned, scope>> /\ Remember
      BY DEF LoadScope, Quietly, store
    <3>3. held[r] \subseteq held'[r]
      BY <2>3, <2>4, <3>2, Remembered
    <3>5. <<"assigned">> \in held'[r]
      <4>1. req'[r].agent = a /\ req'[r].pc # "idle"
        BY <2>3, <2>4
      <4>2. a \in assigned'
        BY <1>3, <3>2
      <4> QED
        BY <3>2, <4>1, <4>2, Kept
    <3>4. \A i \in scope'[a] : <<"scope", i>> \in held'[r]
      BY <2>3, <2>4, <3>2, KeptInbounds
    <3> QED
      BY <2>3, <2>4, <3>1, <3>2, <3>3, <3>4, <3>5 DEF Grounded
  <2> QED
    BY <1>1, <2>2, <2>4, <2>5, QuietStep DEF LoadScope, Quietly
<1>4. CASE Conclude(r)
  BY <1>1, <1>4, Ends DEF LoadScope
<1> QED
  BY <1>2, <1>3, <1>4 DEF LoadScope

\* What is created lies on inbounds granted where they are chosen, or named by
\* the scope while none was, and on one at least.
LEMMA ChooseInboundsKeeps ==
  ASSUME AccessInv, NEW r \in AgentRuns, ChooseInbounds(r)
  PROVE  AccessInv'
<1>1. r \in Requests /\ req[r] \in Asking /\ req[r].pc = "inbounds"
  BY DEF Requests, AccessInv, RequestTypes, ChooseInbounds, Stands
<1>2. PICK a \in Agents : a = req[r].agent
  BY <1>1 DEF AccessInv, RequestTypes, WellFormed
<1>3. PICK allowed \in SUBSET Inbounds, asked \in SUBSET Inbounds :
        allowed = Creatable(inboundGrants[a], req[r].legacy)
        /\ asked = req[r].inbounds
  BY <1>1 DEF AccessInv, RequestTypes, Asking, Creatable
<1>4. ASSUME NEW inbounds \in SUBSET allowed, inbounds # {},
             req' = [req EXCEPT ![r].pc = "create", ![r].inbounds = inbounds]
      PROVE  AccessInv'
  <2>1. PICK x : x = [req[r] EXCEPT !.pc = "create", !.inbounds = inbounds]
    OBVIOUS
  <2>2. req' = [req EXCEPT ![r] = x] /\ inbounds \in SUBSET Inbounds
    BY <1>3, <1>4, <2>1
  <2>3. /\ x \in Asking /\ x.pc = "create" /\ x.inbounds = inbounds
        /\ x.kind = req[r].kind /\ x.agent = a /\ x.perm = req[r].perm
        /\ x.rowsIn = req[r].rowsIn /\ x.ticksIn = req[r].ticksIn
    BY <1>1, <1>2, <2>1, <2>2 DEF Asking, AgentStages
  <2>4. WellFormed(r, x) /\ req'[r] = x
    BY <1>1, <1>2, <2>2, <2>3, AgentProceeds DEF AgentStages
  <2>5. Grounded(r)'
    <3>1. /\ req[r].kind = "create" /\ <<"assigned">> \in held[r]
          /\ <<"perm", req[r].perm>> \in held[r]
          /\ \A i \in req[r].legacy : <<"scope", i>> \in held[r]
      BY <1>1 DEF AccessInv, Grounded
    <3>2. inboundGrants' = inboundGrants /\ Remember
      BY DEF ChooseInbounds, Quietly, store
    <3>3. /\ held[r] \subseteq held'[r]
          /\ \A i \in Inbounds : "create" \in inboundGrants[a][i]
                                 => <<"create", i>> \in held'[r]
          /\ (\A i \in Inbounds : "create" \notin inboundGrants[a][i])
               => <<"no creates">> \in held'[r]
      BY <2>3, <2>4, <3>2, Kept, KeptInbounds
    <3>4. \A i \in allowed : IsNamed(r, i)'
      <4>1. CASE \A i \in Inbounds : "create" \notin inboundGrants[a][i]
        <5>1. allowed = req[r].legacy
          BY <1>3, <4>1 DEF Creatable
        <5> QED
          BY <3>1, <3>3, <4>1, <5>1 DEF IsNamed
      <4>2. CASE \E i \in Inbounds : "create" \in inboundGrants[a][i]
        <5>1. \A i \in allowed : i \in Inbounds /\ "create" \in inboundGrants[a][i]
          BY <1>3, <4>2 DEF Creatable
        <5> QED
          BY <3>3, <5>1 DEF IsNamed
      <4> QED
        BY <4>1, <4>2
    <3>5. MayCreate(r)'
      BY <1>4, <2>3, <2>4, <3>1, <3>3, <3>4 DEF MayCreate
    <3> QED
      BY <2>3, <2>4, <3>1, <3>3, <3>5 DEF Grounded, Covered
  <2> QED
    BY <1>1, <2>2, <2>4, <2>5, QuietStep DEF ChooseInbounds, Quietly
<1>5. CASE Conclude(r)
  BY <1>1, <1>5, Ends DEF ChooseInbounds
<1>6. \/ Conclude(r)
      \/ \E inbounds \in SUBSET allowed :
           /\ inbounds # {}
           /\ req' = [req EXCEPT ![r].pc = "create", ![r].inbounds = inbounds]
  <2>1. \/ Conclude(r)
        \/ /\ allowed # {} /\ asked \subseteq allowed
           /\ req' = [req EXCEPT ![r].pc = "create",
                        ![r].inbounds = IF asked = {} THEN allowed ELSE asked]
    BY <1>2, <1>3 DEF ChooseInbounds
  <2>2. CASE asked = {}
    BY <2>1, <2>2
  <2>3. CASE asked # {}
    BY <2>1, <2>3
  <2> QED
    BY <2>2, <2>3
<1> QED
  BY <1>4, <1>5, <1>6

\* The account is created on those inbounds.
LEMMA CreateAccountKeeps ==
  ASSUME AccessInv, NEW r \in AgentRuns, NEW u \in Users, CreateAccount(r, u)
  PROVE  AccessInv'
<1>1. r \in Requests /\ req[r] \in Asking /\ req[r].pc = "create"
  BY DEF Requests, AccessInv, RequestTypes, CreateAccount, Stands
<1>2. PICK x : x = [req[r] EXCEPT !.pc = "acted", !.user = u]
  OBVIOUS
<1>3. req' = [req EXCEPT ![r] = x]
  BY <1>2 DEF CreateAccount
<1>4. /\ x \in Asking /\ x.pc = "acted" /\ x.inbounds = req[r].inbounds
      /\ x.kind = req[r].kind /\ x.agent = req[r].agent /\ x.user = u
      /\ x.perm = req[r].perm
      /\ x.rowsIn = req[r].rowsIn /\ x.ticksIn = req[r].ticksIn
      /\ req[r].agent \in Agents /\ req[r].inbounds \in SUBSET Inbounds
  BY <1>1, <1>2 DEF AccessInv, RequestTypes, WellFormed, Asking, AgentStages
<1>5. WellFormed(r, x) /\ req'[r] = x
  BY <1>1, <1>3, <1>4, AgentProceeds DEF AgentStages
<1>6. Grounded(r)'
  <2>1. Covered(r) /\ <<"perm", req[r].perm>> \in held[r]
    BY <1>1 DEF AccessInv, Grounded
  <2>2. held[r] \subseteq held'[r]
    BY <1>4, <1>5, Kept DEF CreateAccount
  <2>3. Covered(r)'
    BY <1>4, <1>5, <2>1, <2>2
    DEF Covered, MayModify, IsMine, MayCreate, IsNamed
  <2> QED
    BY <1>4, <1>5, <2>1, <2>2, <2>3 DEF Grounded
<1>7. RequestTypes' /\ \A q \in AgentRuns : Grounded(q)'
  BY <1>3, <1>5, <1>6, AgentAside DEF CreateAccount
<1>8. StoreTypes' /\ GrantTypes' /\ MasterIsObeyed'
  <2>1. /\ clients' \in [Users -> SUBSET Inbounds]
        /\ service' \in [Users -> Agents \cup {NoAgent}]
    BY <1>4 DEF CreateAccount, AccessInv, StoreTypes
  <2> QED
    BY <2>1, WritesKeep DEF CreateAccount
<1> QED
  BY <1>7, <1>8 DEF AccessInv

\* Every step of a request of an agent.
LEMMA AgentStepKeeps ==
  ASSUME AccessInv, NEW r \in AgentRuns, AgentStep(r)
  PROVE  AccessInv'
<1>1. AgentEnds(r) => AccessInv'
  BY Ends DEF AgentEnds, Requests
<1> QED
  BY <1>1, StartChangeKeeps, StartCreateKeeps, LookUpKeeps, JudgeKeeps,
     FindServiceKeeps, ActKeeps, ReadRowKeeps, RowWriteKeeps, LoadScopeKeeps,
     ChooseInboundsKeeps, CreateAccountKeeps
  DEF AgentStep

-----------------------------------------------------------------------------
(* The invariant and what it says.                                         *)

\* What happens elsewhere moves no request.
LEMMA ElsewhereKeeps ==
  ASSUME AccessInv,
         \/ \E u \in Users, inbounds \in SUBSET Inbounds : PanelMoves(u, inbounds)
         \/ \E u \in Users : ServiceDropped(u)
  PROVE  AccessInv'
<1>1. StoreTypes' /\ GrantTypes' /\ MasterIsObeyed'
  <2>1. /\ clients' \in [Users -> SUBSET Inbounds]
        /\ service' \in [Users -> Agents \cup {NoAgent}]
        /\ assigned' = assigned /\ scope' = scope /\ perms' = perms
    BY DEF PanelMoves, ServiceDropped, Elsewhere, AccessInv, StoreTypes
  <2>2. UNCHANGED <<granted, inboundGrants, wish, wishIn, clouded>>
    BY DEF PanelMoves, ServiceDropped, Elsewhere, decided
  <2> QED
    BY <2>1, <2>2 DEF AccessInv, StoreTypes, GrantTypes, MasterIsObeyed
<1>2. RequestTypes' /\ \A r \in AgentRuns : Grounded(r)'
  BY StillGrounded
  DEF PanelMoves, ServiceDropped, Elsewhere, RequestTypes, WellFormed, AccessInv
<1> QED
  BY <1>1, <1>2 DEF AccessInv

\* AccessInv holds in every state: types, MasterIsObeyed, and what each request
\* of an agent rests on at the stage it has reached.
THEOREM AccessInvariant == AccessSpec => []AccessInv
<1>1. AccessInit => AccessInv
  <2> SUFFICES ASSUME AccessInit PROVE AccessInv
    OBVIOUS
  <2>1. StoreTypes /\ GrantTypes /\ MasterIsObeyed
    BY BeginningsAreStates DEF AccessInit, StoreTypes, GrantTypes, MasterIsObeyed
  <2>2. RequestTypes
    <3>1. \A r \in Requests : req[r] = Blank /\ WellFormed(r, Blank)
      BY BlankIsWellFormed DEF AccessInit
    <3>2. req \in [Requests -> Asking]
      BY <3>1 DEF AccessInit, WellFormed
    <3> QED
      BY <3>1, <3>2 DEF RequestTypes
  <2>3. \A r \in AgentRuns : Grounded(r)
    BY DEF AccessInit, Requests, Blank, Grounded
  <2> QED
    BY <2>1, <2>2, <2>3 DEF AccessInv
<1>2. AccessInv /\ [AccessNext]_accessVars => AccessInv'
  <2> SUFFICES ASSUME AccessInv, [AccessNext]_accessVars PROVE AccessInv'
    OBVIOUS
  <2>1. CASE UNCHANGED accessVars
    <3>1. UNCHANGED <<clients, store, req, decided, held>>
      BY <2>1 DEF accessVars
    <3>2. StoreTypes' /\ GrantTypes' /\ MasterIsObeyed'
      BY <3>1 DEF store, decided, AccessInv, StoreTypes, GrantTypes,
                  MasterIsObeyed
    <3>3. RequestTypes'
      BY <3>1 DEF AccessInv, RequestTypes, WellFormed
    <3>4. \A r \in AgentRuns : Grounded(r)'
      BY <3>1 DEF AccessInv, Grounded, Covered, MayModify, IsMine, MayCreate,
                  IsNamed
    <3> QED
      BY <3>2, <3>3, <3>4 DEF AccessInv
  <2> QED
    BY <2>1, MasterStepKeeps, AgentStepKeeps, ElsewhereKeeps DEF AccessNext
<1> QED
  BY <1>1, <1>2, PTL DEF AccessSpec

\* The stored grants are what the master last decided, for any number of
\* agents, accounts, inbounds and browsers, except where a form was older than
\* the rows it wrote, lacked the panel's answer or the grants, raced another,
\* or lost a name (ReplaceAgentInboundGrants, SaveAgentUserGrants,
\* attachPanelUsersToAgent).
THEOREM AccessMasterIsObeyed == AccessSpec => []MasterIsObeyed
BY AccessInvariant, PTL DEF AccessInv

\* Every change of an agent rests on the permission of its request; from a page
\* of the panel also on the assignment, the permission to modify users and the
\* account its own or granted (canPerm, buildAgentVisibleUsers,
\* agentCanModifyUser); through a route of a service on the service its own
\* (checkPerm, getService); a creation on the assignment and on inbounds granted
\* or, while none was, named by the scope (loadCreateScope), each at some time
\* during the request.
THEOREM AccessActsAreCovered == AccessSpec => []ActsAreCovered
<1>1. AccessInv => ActsAreCovered
  BY DEF AccessInv, ActsAreCovered, Grounded, Covered, MayModify, IsMine,
         MayCreate, IsNamed
<1> QED
  BY <1>1, AccessInvariant, PTL

(* Pages and their links.                                                  *)

\* Whether the row of rank i falls on the page.
OnPage(i, page, perPage) ==
    i > Offset(page, perPage) /\ i <= Offset(page, perPage) + perPage

\* Division by a page size.
LEMMA Quotient ==
    ASSUME NEW n \in Nat, NEW p \in Nat \ {0}
    PROVE  /\ n \div p \in Nat
           /\ (n \div p) * p <= n /\ n < (n \div p) * p + p
           /\ n % p = 0 <=> n = (n \div p) * p
<1>1. n \div p \in Nat
  OBVIOUS
<1>2. (n \div p) * p <= n /\ n < (n \div p) * p + p
  OBVIOUS
<1>3. n % p = 0 => n = (n \div p) * p
  OBVIOUS
<1>4. n % p # 0 => n # (n \div p) * p
  OBVIOUS
<1> QED
  BY <1>1, <1>2, <1>3, <1>4

\* The rows of whole pages.
LEMMA Multiples ==
    ASSUME NEW a \in Nat, NEW b \in Nat, NEW p \in Nat \ {0}
    PROVE  /\ a * p \in Nat /\ b * p \in Nat /\ 0 * p = 0
           /\ a < b => a * p + p <= b * p
           /\ (a + 1) * p = a * p + p
OBVIOUS

\* A page shows the rows after those of the pages before it.
LEMMA PageSpan ==
    ASSUME NEW p \in Nat \ {0}, NEW i \in Nat, NEW k \in Nat
    PROVE  OnPage(i, k + 1, p) <=> k * p < i /\ i <= k * p + p
<1>1. Offset(k + 1, p) = k * p
  <2>1. k + 1 >= 1 /\ (k + 1) - 1 = k
    OBVIOUS
  <2> QED
    BY <2>1 DEF Offset
<1> QED
  BY <1>1, Multiples DEF OnPage

\* Each row falls on one page of those counted.
LEMMA OnePage ==
    ASSUME NEW total \in Nat, NEW p \in Nat \ {0}, NEW i \in 1..total
    PROVE  \E page \in 1..TotalPages(total, p) :
              /\ OnPage(i, page, p)
              /\ \A q \in 1..TotalPages(total, p) : OnPage(i, q, p) => q = page
<1>1. PICK k : k = (i - 1) \div p
  OBVIOUS
<1>2. k \in Nat /\ k * p \in Nat /\ k * p <= i - 1 /\ i - 1 < k * p + p
  <2>1. i - 1 \in Nat
    OBVIOUS
  <2> QED
    BY <1>1, <2>1, Quotient, Multiples
<1>3. PICK n : n = total \div p
  OBVIOUS
<1>4. /\ n \in Nat /\ n * p \in Nat /\ n * p <= total /\ total < n * p + p
      /\ total % p = 0 <=> total = n * p
  BY <1>3, Quotient, Multiples
<1>5. PICK T \in Nat \ {0} : T = TotalPages(total, p) /\ T = n + (IF total % p # 0 THEN 1 ELSE 0)
  <2>1. n + (IF total % p # 0 THEN 1 ELSE 0) \in Nat \ {0}
    <3>1. n = 0 => total # n * p
      BY Multiples
    <3> QED
      BY <1>4, <3>1
  <2> QED
    BY <1>3, <2>1 DEF TotalPages
<1>6. k < T
  <2>1. SUFFICES ASSUME T <= k
                 PROVE  FALSE
    BY <1>2, <1>5
  <2>2. T * p \in Nat /\ T * p <= k * p
    BY <1>2, <2>1, Multiples
  <2>3. CASE total % p = 0
    BY <1>2, <1>4, <1>5, <2>2, <2>3
  <2>4. CASE total % p # 0
    <3>1. T = n + 1 /\ T * p = n * p + p
      BY <1>4, <1>5, <2>4, Multiples
    <3> QED
      BY <1>2, <1>4, <2>2, <3>1
  <2> QED
    BY <2>3, <2>4
<1>7. OnPage(i, k + 1, p)
  BY <1>2, PageSpan
<1>8. ASSUME NEW q \in 1..T, OnPage(i, q, p)
      PROVE  q = k + 1
  <2>1. PICK m \in Nat : q = m + 1
    OBVIOUS
  <2>2. m * p \in Nat /\ m * p < i /\ i <= m * p + p
    BY <1>8, <2>1, PageSpan, Multiples
  <2>3. ~(m < k) /\ ~(k < m)
    BY <1>2, <2>2, Multiples
  <2> QED
    BY <1>2, <2>1, <2>3
<1> QED
  BY <1>2, <1>5, <1>6, <1>7, <1>8

\* Lists are finite, and their places are numbers.
IsList(list) ==
    /\ DOMAIN list \subseteq Nat /\ IsFiniteSet(DOMAIN list)
    /\ list = [k \in DOMAIN list |-> list[k]]

\* The rows that are left are numbered from 1.
LEMMA RankBounds ==
    ASSUME NEW list, IsList(list), NEW k \in DOMAIN list
    PROVE  Rank(list, k) \in 1..Cardinality(DOMAIN list)
<1>1. PICK before : before = {j \in DOMAIN list : j <= k}
  OBVIOUS
<1>2. before \in SUBSET DOMAIN list /\ k \in before
  BY <1>1 DEF IsList
<1>3. /\ IsFiniteSet(before) /\ Cardinality(before) \in Nat
      /\ Cardinality(before) <= Cardinality(DOMAIN list)
      /\ Cardinality(DOMAIN list) \in Nat
  BY <1>2, FS_Subset, FS_CardinalityType DEF IsList
<1>4. Cardinality(before) # 0
  BY <1>2, <1>3, FS_EmptySet
<1> QED
  BY <1>1, <1>3, <1>4 DEF Rank

\* What a page has of a list.
LEMMA PageRows ==
    ASSUME NEW list, IsList(list), NEW page, NEW p
    PROVE  /\ IsList(PageOf(list, page, p))
           /\ \A k : k \in DOMAIN PageOf(list, page, p)
                    <=> k \in DOMAIN list /\ OnPage(Rank(list, k), page, p)
           /\ \A k \in DOMAIN PageOf(list, page, p) : PageOf(list, page, p)[k] = list[k]
<1>1. PICK places : places = {k \in DOMAIN list : OnPage(Rank(list, k), page, p)}
  OBVIOUS
<1>2. places \subseteq DOMAIN list /\ IsFiniteSet(places) /\ places \subseteq Nat
  BY <1>1, FS_Subset DEF IsList
<1>3. PageOf(list, page, p) = [k \in places |-> list[k]]
  BY <1>1 DEF PageOf, Restrict, OnPage
<1> QED
  BY <1>1, <1>2, <1>3 DEF IsList

\* Turning the pages shows every row of a list, on one page only, for any
\* length of the list and any page size (TotalPages, HasNext).
THEOREM PagesShowEachRow ==
    ASSUME NEW list, IsList(list), NEW k \in DOMAIN list, NEW p \in Nat \ {0}
    PROVE  \E page \in 1..TotalPages(Cardinality(DOMAIN list), p) :
              /\ \A q \in 1..(page - 1) : HasNext(q, p, Cardinality(DOMAIN list))
              /\ k \in DOMAIN PageOf(list, page, p)
              /\ PageOf(list, page, p)[k] = list[k]
              /\ \A q \in 1..TotalPages(Cardinality(DOMAIN list), p) :
                    k \in DOMAIN PageOf(list, q, p) => q = page
<1>1. PICK L \in Nat : L = Cardinality(DOMAIN list)
  BY FS_CardinalityType DEF IsList
<1>2. PICK T : T = TotalPages(L, p)
  OBVIOUS
<1>3. PICK i \in 1..L : i = Rank(list, k)
  BY <1>1, RankBounds
<1>4. PICK page \in 1..T : /\ OnPage(i, page, p)
                           /\ \A q \in 1..T : OnPage(i, q, p) => q = page
  BY <1>2, OnePage
<1>5. T \in Int
  <2>1. L \div p \in Nat
    BY Quotient
  <2> QED
    BY <1>2, <2>1 DEF TotalPages
<1>6. ASSUME NEW q
      PROVE  /\ k \in DOMAIN PageOf(list, q, p) <=> OnPage(i, q, p)
             /\ k \in DOMAIN PageOf(list, q, p) => PageOf(list, q, p)[k] = list[k]
  BY <1>3, PageRows
<1>7. \A q \in 1..(page - 1) : HasNext(q, p, L)
  BY <1>2, <1>4, <1>5 DEF HasNext
<1>8. PageOf(list, page, p)[k] = list[k]
  BY <1>4, <1>6
<1> QED
  BY <1>1, <1>2, <1>4, <1>6, <1>7, <1>8

\* Two sequences of numbers, one after the other.
LEMMA Joined ==
    ASSUME NEW s \in Seq(Int), NEW t \in Seq(Int), NEW u, u = s \o t
    PROVE  /\ u \in Seq(Int) /\ Len(u) = Len(s) + Len(t)
           /\ Len(s) \in Nat /\ Len(t) \in Nat
           /\ \A i \in 1..Len(u) :
                 u[i] = IF i <= Len(s) THEN s[i] ELSE t[i - Len(s)]
BY ConcatProperties, SMTT(30)

\* The links of a long list, by position: the first page, a gap, the pages
\* from start to end around the current one, a gap, the last page.
Placed(links, page, pages, cur, start, end, a, b, w) ==
    /\ cur = IF page < 1 THEN 1 ELSE page
    /\ start = IF cur - 1 < 2 THEN 2 ELSE cur - 1
    /\ end = IF cur + 1 > pages - 1 THEN pages - 1 ELSE cur + 1
    /\ a = IF cur > 3 THEN 1 ELSE 0
    /\ b = IF end < pages - 1 THEN 1 ELSE 0
    /\ w = IF end < start THEN 0 ELSE end - start + 1
    /\ links \in Seq(Int) /\ Len(links) = a + w + b + 2
    /\ \A i \in 1..Len(links) :
          links[i] = IF i = 1 THEN 1
                     ELSE IF i <= 1 + a THEN Gap
                     ELSE IF i <= 1 + a + w THEN start + (i - 1 - a) - 1
                     ELSE IF i <= 1 + a + w + b THEN Gap ELSE pages

\* That is how pageNumbers places them.
LEMMA LinkAt ==
    ASSUME NEW pages \in Nat, pages > 7, NEW page \in Nat,
           NEW links, links = PageNumbers(page, pages)
    PROVE  \E cur, start, end, a, b, w \in Nat :
              Placed(links, page, pages, cur, start, end, a, b, w)
<1>a. PICK cur \in Nat : cur = IF page < 1 THEN 1 ELSE page
  OBVIOUS
<1>b. PICK start \in Nat : start = IF cur - 1 < 2 THEN 2 ELSE cur - 1
  OBVIOUS
<1>c. PICK end \in Nat : end = IF cur + 1 > pages - 1 THEN pages - 1 ELSE cur + 1
  OBVIOUS
<1>d. PICK a \in Nat : a = IF cur > 3 THEN 1 ELSE 0
  OBVIOUS
<1>e. PICK b \in Nat : b = IF end < pages - 1 THEN 1 ELSE 0
  OBVIOUS
<1>f. PICK w \in Nat : w = IF end < start THEN 0 ELSE end - start + 1
  <2>1. (IF end < start THEN 0 ELSE end - start + 1) \in Nat
    OBVIOUS
  <2> QED
    BY <2>1
<1>1. PICK g : g = IF cur > 3 THEN <<Gap>> ELSE <<>>
  OBVIOUS
<1>2. PICK win : win = [i \in 1..(end - start + 1) |-> start + i - 1]
  OBVIOUS
<1>3. PICK h : h = IF end < pages - 1 THEN <<Gap>> ELSE <<>>
  OBVIOUS
<1>4. PICK first : first = <<1>>
  OBVIOUS
<1>5. PICK final : final = <<pages>>
  OBVIOUS
<1>6. links = (((first \o g) \o win) \o h) \o final
  <2> DEFINE cur0 == IF page < 1 THEN 1 ELSE page
             start0 == IF cur0 - 1 < 2 THEN 2 ELSE cur0 - 1
             end0 == IF cur0 + 1 > pages - 1 THEN pages - 1 ELSE cur0 + 1
             g0 == IF cur0 > 3 THEN <<Gap>> ELSE <<>>
             h0 == IF end0 < pages - 1 THEN <<Gap>> ELSE <<>>
             win0 == [i \in 1..(end0 - start0 + 1) |-> start0 + i - 1]
             few == [i \in 1..pages |-> i]
  <2>1. links = IF pages <= 7 THEN few
                ELSE (((<<1>> \o g0) \o win0) \o h0) \o <<pages>>
    BY DEF PageNumbers
  <2>2. cur0 = cur /\ start0 = start /\ end0 = end
    BY <1>a, <1>b, <1>c
  <2> HIDE DEF cur0, start0, end0, few
  <2>3. g0 = g /\ h0 = h
    BY <1>1, <1>3, <2>2
  <2>4. win0 = win
    BY <1>2, <2>2, Zenon
  <2> HIDE DEF g0, h0, win0
  <2>5. ~(pages <= 7)
    OBVIOUS
  <2>6. links = (((<<1>> \o g0) \o win0) \o h0) \o <<pages>>
    BY <2>1, <2>5
  <2> QED
    BY <1>4, <1>5, <2>3, <2>4, <2>6
<1>7. Gap \in Int
  BY DEF Gap
<1>8. /\ first \in Seq(Int) /\ Len(first) = 1 /\ first[1] = 1
      /\ final \in Seq(Int) /\ Len(final) = 1 /\ final[1] = pages
  BY <1>4, <1>5
<1>8a. first \in Seq(Int) /\ final \in Seq(Int)
  BY <1>8
<1>9. /\ g \in Seq(Int) /\ Len(g) = a /\ \A i \in 1..a : g[i] = Gap
  BY <1>1, <1>7, <1>d
<1>9a. g \in Seq(Int)
  BY <1>9
<1>10. /\ h \in Seq(Int) /\ Len(h) = b /\ \A i \in 1..b : h[i] = Gap
  BY <1>3, <1>7, <1>e
<1>10a. h \in Seq(Int)
  BY <1>10
<1>11. /\ win \in Seq(Int) /\ Len(win) = w
       /\ \A i \in 1..w : win[i] = start + i - 1
  <2>1. 1..(end - start + 1) = 1..w
    BY <1>f
  <2>2. win = [i \in 1..w |-> start + i - 1]
    BY <1>2, <2>1
  <2> QED
    BY <2>2
<1>11a. win \in Seq(Int)
  BY <1>11
<1>12. PICK r : r = first \o g
  OBVIOUS
<1>13. PICK s : s = r \o win
  OBVIOUS
<1>14. PICK t : t = s \o h
  OBVIOUS
<1>15. links = t \o final
  BY <1>6, <1>12, <1>13, <1>14
<1>16. /\ r \in Seq(Int) /\ Len(r) = 1 + a
       /\ \A i \in 1..(1 + a) : r[i] = IF i = 1 THEN 1 ELSE Gap
  <2>1. /\ r \in Seq(Int) /\ Len(r) = Len(first) + Len(g)
        /\ \A i \in 1..Len(r) :
              r[i] = IF i <= Len(first) THEN first[i] ELSE g[i - Len(first)]
    BY <1>8a, <1>9a, <1>12, Joined
  <2> QED
    BY <1>8, <1>9, <2>1
<1>16a. r \in Seq(Int)
  BY <1>16
<1>17. /\ s \in Seq(Int) /\ Len(s) = 1 + a + w
       /\ \A i \in 1..(1 + a + w) :
             s[i] = IF i = 1 THEN 1 ELSE IF i <= 1 + a THEN Gap
                    ELSE start + (i - 1 - a) - 1
  <2>1. /\ s \in Seq(Int) /\ Len(s) = Len(r) + Len(win)
        /\ \A i \in 1..Len(s) :
              s[i] = IF i <= Len(r) THEN r[i] ELSE win[i - Len(r)]
    BY <1>11a, <1>16a, <1>13, Joined
  <2>2. Len(s) = 1 + a + w
    BY <1>11, <1>16, <2>1
  <2>3. ASSUME NEW i \in 1..(1 + a + w)
        PROVE  s[i] = IF i = 1 THEN 1 ELSE IF i <= 1 + a THEN Gap
                      ELSE start + (i - 1 - a) - 1
    <3>1. s[i] = IF i <= 1 + a THEN r[i] ELSE win[i - (1 + a)]
      BY <1>16, <2>1, <2>2
    <3>2. CASE i <= 1 + a
      BY <1>16, <3>1, <3>2
    <3>3. CASE i > 1 + a
      <4>1. i - (1 + a) \in 1..w /\ i - (1 + a) = i - 1 - a
        BY <3>3
      <4> QED
        BY <1>11, <3>1, <3>3, <4>1
    <3> QED
      BY <3>2, <3>3
  <2> QED
    BY <2>1, <2>2, <2>3
<1>17a. s \in Seq(Int)
  BY <1>17
<1>18. /\ t \in Seq(Int) /\ Len(t) = 1 + a + w + b
       /\ \A i \in 1..(1 + a + w + b) :
             t[i] = IF i <= 1 + a + w THEN s[i] ELSE Gap
  <2>1. /\ t \in Seq(Int) /\ Len(t) = Len(s) + Len(h)
        /\ \A i \in 1..Len(t) :
              t[i] = IF i <= Len(s) THEN s[i] ELSE h[i - Len(s)]
    BY <1>10a, <1>17a, <1>14, Joined
  <2>2. Len(t) = 1 + a + w + b
    BY <1>10, <1>17, <2>1
  <2>3. ASSUME NEW i \in 1..(1 + a + w + b)
        PROVE  t[i] = IF i <= 1 + a + w THEN s[i] ELSE Gap
    <3>1. t[i] = IF i <= 1 + a + w THEN s[i] ELSE h[i - (1 + a + w)]
      BY <1>17, <2>1, <2>2
    <3>2. CASE i > 1 + a + w
      <4>1. i - (1 + a + w) \in 1..b
        BY <3>2
      <4> QED
        BY <1>10, <3>1, <3>2, <4>1
    <3> QED
      BY <3>1, <3>2
  <2> QED
    BY <2>1, <2>2, <2>3
<1>18a. t \in Seq(Int)
  BY <1>18
<1>19. /\ links \in Seq(Int) /\ Len(links) = Len(t) + Len(final)
       /\ \A i \in 1..Len(links) :
             links[i] = IF i <= Len(t) THEN t[i] ELSE final[i - Len(t)]
  BY <1>8a, <1>18a, <1>15, Joined
<1>20. Len(links) = a + w + b + 2
  BY <1>8, <1>18, <1>19
<1>21. ASSUME NEW i \in 1..Len(links)
       PROVE  links[i] = IF i = 1 THEN 1
                         ELSE IF i <= 1 + a THEN Gap
                         ELSE IF i <= 1 + a + w THEN start + (i - 1 - a) - 1
                         ELSE IF i <= 1 + a + w + b THEN Gap ELSE pages
  <2>1. CASE i <= 1 + a + w
    <3>1. i \in 1..(1 + a + w) /\ i \in 1..(1 + a + w + b)
      BY <2>1
    <3>2. links[i] = t[i] /\ t[i] = s[i]
      BY <1>18, <1>19, <2>1, <3>1
    <3>3. s[i] = IF i = 1 THEN 1 ELSE IF i <= 1 + a THEN Gap
                 ELSE start + (i - 1 - a) - 1
      BY <1>17, <3>1
    <3> QED
      BY <2>1, <3>2, <3>3
  <2>2. CASE i > 1 + a + w /\ i <= 1 + a + w + b
    BY <1>18, <1>19, <2>2
  <2>3. CASE i > 1 + a + w + b
    BY <1>8, <1>18, <1>19, <1>20, <2>3
  <2> QED
    BY <2>1, <2>2, <2>3
<1> QED
  <2>1. Placed(links, page, pages, cur, start, end, a, b, w)
    BY <1>a, <1>b, <1>c, <1>d, <1>e, <1>f, <1>19, <1>20, <1>21 DEF Placed
  <2> QED
    BY <2>1

\* The links under a list lead on from every page, however long it is and
\* whatever page the request asked for (pageNumbers).
THEOREM LinksLeadEverywhere ==
    \A pages \in Nat \ {0}, page \in Nat : LinksLeadOn(page, pages)
<1> SUFFICES ASSUME NEW pages \in Nat \ {0}, NEW page \in Nat
             PROVE  LinksLeadOn(page, pages)
  OBVIOUS
<1>1. PICK links : links = PageNumbers(page, pages)
  OBVIOUS
<1>2. CASE pages <= 7
  <2>1. links = [i \in 1..pages |-> i]
    BY <1>1, <1>2 DEF PageNumbers
  <2>2. Len(links) = pages /\ DOMAIN links = 1..pages /\ \A i \in 1..pages : links[i] = i
    BY <2>1
  <2>3. {1, pages} \cup ({page - 1, page, page + 1} \cap 1..pages)
           \subseteq {links[i] : i \in DOMAIN links}
    BY <2>2
  <2> QED
    BY <1>1, <2>2, <2>3 DEF LinksLeadOn, Gap
<1>3. CASE pages > 7
  <2>1. PICK cur, start, end, a, b, w \in Nat :
           Placed(links, page, pages, cur, start, end, a, b, w)
    <3>1. pages \in Nat
      OBVIOUS
    <3> QED
      BY <1>1, <1>3, <3>1, LinkAt
  <2> USE DEF Placed
  <2>8. DOMAIN links = 1..Len(links) /\ Len(links) \in Nat
    BY <2>1
  <2>9. Gap = 0 - 1
    BY DEF Gap
  <2>10. {1, pages} \cup ({page - 1, page, page + 1} \cap 1..pages)
           \subseteq {links[i] : i \in DOMAIN links}
    <3>1. links[1] = 1 /\ 1 \in DOMAIN links
      BY <2>1, <2>8
    <3>2. links[Len(links)] = pages /\ Len(links) \in DOMAIN links
      BY <2>1, <2>8
    <3>3. ASSUME NEW n \in start..end
          PROVE  n - start + 2 + a \in DOMAIN links /\ links[n - start + 2 + a] = n
      BY <2>1, <2>8
    <3>4. ASSUME NEW n \in {page - 1, page, page + 1} \cap 1..pages
          PROVE  n \in {1, pages} \cup start..end
      BY <1>3, <2>1
    <3> QED
      BY <3>1, <3>2, <3>3, <3>4
  <2>11. ASSUME NEW i \in 1..(Len(links) - 1),
                links[i] # Gap, links[i + 1] # Gap
         PROVE  links[i + 1] = links[i] + 1
    <3>1. i \in 1..Len(links) /\ i + 1 \in 1..Len(links)
      BY <2>8
    <3>2. CASE i = 1
      BY <1>3, <2>1, <2>9, <2>11, <3>1, <3>2
    <3>3. CASE i > 1 /\ i <= a + w
      BY <1>3, <2>1, <2>9, <2>11, <3>1, <3>3
    <3>4. CASE i > 1 /\ i > a + w
      BY <1>3, <2>1, <2>9, <2>11, <3>1, <3>4
    <3> QED
      BY <3>1, <3>2, <3>3, <3>4
  <2>12. ASSUME NEW i \in DOMAIN links, links[i] = Gap
         PROVE  i \in 2..(Len(links) - 1) /\ links[i + 1] > links[i - 1] + 1
    <3>1. i \in 2..(Len(links) - 1)
      BY <1>3, <2>1, <2>8, <2>9, <2>12
    <3>2. i - 1 \in 1..Len(links) /\ i + 1 \in 1..Len(links) /\ i \in 1..Len(links)
      BY <2>8, <3>1
    <3>3. \/ i = 2 /\ a = 1
          \/ i = 2 + a + w /\ b = 1
      <4>1. a \in {0, 1} /\ b \in {0, 1} /\ start >= 2
        BY <2>1
      <4>2. ~(i > 1 + a /\ i <= 1 + a + w)
        <5>1. SUFFICES ASSUME i > 1 + a, i <= 1 + a + w
                       PROVE  FALSE
          OBVIOUS
        <5>2. links[i] = start + (i - 1 - a) - 1
          <6>1. ~(i = 1) /\ ~(i <= 1 + a)
            BY <2>1, <3>1, <4>1, <5>1
          <6>2. links[i] = IF i = 1 THEN 1
                           ELSE IF i <= 1 + a THEN Gap
                           ELSE IF i <= 1 + a + w THEN start + (i - 1 - a) - 1
                           ELSE IF i <= 1 + a + w + b THEN Gap ELSE pages
            BY <2>1, <3>2
          <6> QED
            BY <5>1, <6>1, <6>2
        <5> QED
          BY <2>9, <2>12, <3>2, <4>1, <5>1, <5>2
      <4>3. ~(i > 1 + a + w + b)
        <5>1. SUFFICES ASSUME i > 1 + a + w + b
                       PROVE  FALSE
          OBVIOUS
        <5>2. links[i] = pages
          <6>1. /\ ~(i = 1) /\ ~(i <= 1 + a) /\ ~(i <= 1 + a + w)
                /\ ~(i <= 1 + a + w + b)
            BY <2>1, <3>1, <4>1, <5>1
          <6>2. links[i] = IF i = 1 THEN 1
                           ELSE IF i <= 1 + a THEN Gap
                           ELSE IF i <= 1 + a + w THEN start + (i - 1 - a) - 1
                           ELSE IF i <= 1 + a + w + b THEN Gap ELSE pages
            BY <2>1, <3>2
          <6> QED
            BY <6>1, <6>2
        <5> QED
          BY <1>3, <2>9, <2>12, <5>2
      <4> QED
        BY <3>1, <3>2, <4>1, <4>2, <4>3
    <3>4. CASE i = 2 /\ a = 1
      BY <1>3, <2>1, <2>9, <3>2, <3>4
    <3>5. CASE i = 2 + a + w /\ b = 1
      BY <1>3, <2>1, <2>9, <3>2, <3>5
    <3> QED
      BY <3>1, <3>3, <3>4, <3>5
  <2> QED
    BY <1>1, <2>10, <2>11, <2>12 DEF LinksLeadOn
<1> QED
  BY <1>2, <1>3

-----------------------------------------------------------------------------
(* Lists of panel accounts: what the panel answers.                        *)

\* The row that says everything the panel knows of an account.
FullRow(u) ==
    [user |-> u, enabled |-> world.clients[u].enabled,
     past |-> world.clients[u].past, inbounds |-> world.clients[u].inbounds]

\* A row that says what the panel knows of one of its accounts, perhaps on
\* some of the account's inbounds only.
TrueRow(r) ==
    \E u \in Clients : \E part \in SUBSET world.clients[u].inbounds :
        r = [FullRow(u) EXCEPT !.inbounds = part]

TrueList(list) == IsList(list) /\ \A k \in DOMAIN list : TrueRow(list[k])

\* The inbounds a list shows an account on.
ShownOn(list, u) == UNION {r.inbounds : r \in {q \in Range(list) : q.user = u}}

\* A list with every account of the panel, on all its inbounds.
WholeList(list) ==
    \A u \in Clients : /\ \E k \in DOMAIN list : list[k].user = u
                       /\ ShownOn(list, u) = world.clients[u].inbounds

\* The panel's order has a place for the account and each of its inbounds.
HasPlaces(u) ==
    LET own == {k \in DOMAIN world.order : world.order[k].user = u}
    IN  own # {} /\ Inbounds = UNION {world.order[k].inbounds : k \in own}

DataTyped == world \in PanelStates /\ \A u \in Users : HasPlaces(u)

\* What the type of the data says of each of its parts.
LEMMA DataParts ==
    ASSUME DataTyped
    PROVE  /\ \A u \in Users : world.clients[u] \in PanelClients \cup {NoClient}
           /\ \A u \in Users : world.services[u] \in StoreServices \cup {NoService}
           /\ world.order \in Seq(Places) /\ world.listing \in Listings
           /\ Clients \subseteq Users /\ Serviced \subseteq Users
           /\ \A u \in Clients : world.clients[u] \in PanelClients
           /\ \A u \in Serviced : world.services[u] \in StoreServices
BY DEF DataTyped, PanelStates, Clients, Serviced

\* The image of a finite set under a function.
LEMMA FiniteImages ==
    ASSUME NEW S, IsFiniteSet(S), NEW f
    PROVE  /\ IsFiniteSet({f[x] : x \in S})
           /\ Cardinality({f[x] : x \in S}) \in Nat
<1>1. PICK T : T = {f[x] : x \in S}
  OBVIOUS
<1>2. PICK g : g = [x \in S |-> f[x]]
  OBVIOUS
<1>3. g \in Surjection(S, T)
  BY <1>1, <1>2 DEF Surjection
<1> QED
  BY <1>1, <1>3, FS_Surjection, FS_CardinalityType

\* The parts of a true row.
LEMMA TrueParts ==
    ASSUME DataTyped, NEW r, TrueRow(r)
    PROVE  /\ r.user \in Clients /\ r.inbounds \subseteq world.clients[r.user].inbounds
           /\ r.enabled = world.clients[r.user].enabled
           /\ r.past = world.clients[r.user].past
           /\ r = [FullRow(r.user) EXCEPT !.inbounds = r.inbounds]
BY DEF TrueRow, FullRow

\* Each row of the panel's own order is true.
LEMMA PanelRowsTrue ==
    ASSUME DataTyped
    PROVE  TrueList(PanelRows)
<1>1. /\ DOMAIN PanelRows \subseteq DOMAIN world.order
      /\ PanelRows = [k \in DOMAIN PanelRows |-> RowAt(k)]
      /\ \A k \in DOMAIN PanelRows : world.clients[world.order[k].user] # NoClient
  BY DEF PanelRows
<1>2. /\ DOMAIN world.order = 1..Len(world.order) /\ Len(world.order) \in Nat
      /\ \A k \in DOMAIN world.order : world.order[k] \in Places
  BY DataParts, SeqDef
<1>3. IsFiniteSet(DOMAIN PanelRows) /\ DOMAIN PanelRows \subseteq Nat
  <2>1. IsFiniteSet(DOMAIN world.order)
    BY <1>2, FS_Interval
  <2>2. DOMAIN PanelRows \in SUBSET DOMAIN world.order
    BY <1>1
  <2> QED
    BY <1>2, <2>1, <2>2, FS_Subset
<1>4. ASSUME NEW k \in DOMAIN PanelRows
      PROVE  TrueRow(PanelRows[k])
  <2>1. PICK u : u = world.order[k].user
    OBVIOUS
  <2>2. u \in Clients
    BY <1>1, <1>2, <2>1 DEF Clients, Places
  <2>3. PICK part : part = world.clients[u].inbounds \cap world.order[k].inbounds
    OBVIOUS
  <2>4. PanelRows[k] = [FullRow(u) EXCEPT !.inbounds = part]
    BY <1>1, <2>1, <2>3 DEF RowAt, FullRow
  <2> QED
    BY <2>2, <2>3, <2>4 DEF TrueRow
<1> QED
  BY <1>1, <1>3, <1>4 DEF TrueList, IsList

\* The panel's own order has every account on all its inbounds.
LEMMA PanelRowsWhole ==
    ASSUME DataTyped
    PROVE  WholeList(PanelRows)
<1> SUFFICES ASSUME NEW u \in Clients
             PROVE  /\ \E k \in DOMAIN PanelRows : PanelRows[k].user = u
                    /\ ShownOn(PanelRows, u) = world.clients[u].inbounds
  BY DEF WholeList
<1>1. PICK on : on = world.clients[u].inbounds
  OBVIOUS
<1>2. u \in Users /\ world.clients[u] # NoClient /\ on \subseteq Inbounds
  BY <1>1, DataParts DEF Clients, PanelClients
<1>3. /\ \E k \in DOMAIN world.order : world.order[k].user = u
      /\ \A i \in Inbounds : \E k \in DOMAIN world.order :
            world.order[k].user = u /\ i \in world.order[k].inbounds
  BY <1>2 DEF DataTyped, HasPlaces
<1>4. \A k \in DOMAIN world.order :
         world.order[k].user = u
         => /\ k \in DOMAIN PanelRows
                  <=> on = {} \/ on \cap world.order[k].inbounds # {}
            /\ k \in DOMAIN PanelRows =>
                  /\ PanelRows[k].user = u
                  /\ PanelRows[k].inbounds = on \cap world.order[k].inbounds
  BY <1>1, <1>2 DEF PanelRows, RowAt
<1>5. \E k \in DOMAIN PanelRows : PanelRows[k].user = u
  <2>1. CASE on = {}
    BY <1>3, <1>4, <2>1
  <2>2. CASE on # {}
    BY <1>2, <1>3, <1>4, <2>2
  <2> QED
    BY <2>1, <2>2
<1>6. on \subseteq ShownOn(PanelRows, u)
  <2> SUFFICES ASSUME NEW i \in on
               PROVE  i \in ShownOn(PanelRows, u)
    OBVIOUS
  <2>1. PICK k \in DOMAIN PanelRows : PanelRows[k].user = u /\ i \in PanelRows[k].inbounds
    BY <1>2, <1>3, <1>4
  <2>2. PanelRows[k] \in Range(PanelRows)
    BY <2>1 DEF Range
  <2> QED
    BY <2>1, <2>2 DEF ShownOn
<1>7. ShownOn(PanelRows, u) \subseteq on
  <2>1. \A q \in Range(PanelRows) : q.user = u => q.inbounds \subseteq on
    BY <1>1, PanelRowsTrue, TrueParts DEF Range, TrueList
  <2> QED
    BY <2>1 DEF ShownOn
<1> QED
  BY <1>1, <1>5, <1>6, <1>7

\* Dedupe gives true rows, one for each account of the list.
LEMMA DedupeTrue ==
    ASSUME DataTyped, NEW list, TrueList(list)
    PROVE  /\ \A r \in Dedupe(list) : TrueRow(r) /\ r.user \in Names(list)
           /\ \A u \in Names(list) : \E r \in Dedupe(list) :
                 r.user = u /\ r.inbounds = ShownOn(list, u)
           /\ Names(list) \subseteq Clients
           /\ IsFiniteSet(Dedupe(list))
<1>1. ASSUME NEW q \in Range(list)
      PROVE  TrueRow(q)
  BY <1>1 DEF TrueList, Range
<1>2. Names(list) \subseteq Clients
  BY <1>1, TrueParts DEF Names
<1>3. ASSUME NEW u
      PROVE  ShownOn(list, u) \subseteq world.clients[u].inbounds
  BY <1>1, TrueParts DEF ShownOn
<1>4. PICK entry : entry = [k \in DOMAIN list |->
                           [list[k] EXCEPT !.inbounds = ShownOn(list, list[k].user)]]
  OBVIOUS
<1>5. Dedupe(list) = {entry[k] : k \in DOMAIN list}
  BY <1>4 DEF Dedupe, ShownOn
<1>6. ASSUME NEW k \in DOMAIN list
      PROVE  /\ TrueRow(entry[k]) /\ list[k].user \in Clients
             /\ entry[k].user = list[k].user
             /\ entry[k].inbounds = ShownOn(list, list[k].user)
             /\ list[k].user \in Names(list)
  <2>1. list[k] \in Range(list)
    BY <1>6 DEF Range
  <2>8. TrueRow(list[k])
    BY <1>1, <2>1
  <2>2. PICK u \in Clients : \E part \in SUBSET world.clients[u].inbounds :
           list[k] = [FullRow(u) EXCEPT !.inbounds = part]
    BY <2>8 DEF TrueRow
  <2>3. list[k].user = u
    BY <2>2 DEF FullRow
  <2>4. entry[k] = [FullRow(u) EXCEPT !.inbounds = ShownOn(list, u)]
    BY <1>4, <1>6, <2>2, <2>3 DEF FullRow
  <2>5. TrueRow(entry[k])
    BY <1>3, <2>2, <2>4 DEF TrueRow
  <2>6. entry[k].user = u /\ entry[k].inbounds = ShownOn(list, u)
    BY <2>4 DEF FullRow
  <2>7. list[k].user \in Names(list)
    BY <2>1 DEF Names
  <2> QED
    BY <2>2, <2>3, <2>5, <2>6, <2>7
<1>7. ASSUME NEW u \in Names(list)
      PROVE  \E k \in DOMAIN list : list[k].user = u
  BY <1>7 DEF Names, Range
<1>8. IsFiniteSet({entry[k] : k \in DOMAIN list})
  BY FiniteImages DEF TrueList, IsList
<1>9. \A r \in Dedupe(list) : TrueRow(r) /\ r.user \in Names(list)
  BY <1>5, <1>6
<1>10. ASSUME NEW u \in Names(list)
       PROVE  \E r \in Dedupe(list) : r.user = u /\ r.inbounds = ShownOn(list, u)
  <2>1. PICK k \in DOMAIN list : list[k].user = u
    BY <1>7
  <2>2. entry[k] \in Dedupe(list)
    BY <1>5, <2>1
  <2> QED
    BY <1>6, <2>1, <2>2
<1> QED
  BY <1>2, <1>5, <1>8, <1>9, <1>10

\* Of a whole list Dedupe gives one full row for each account of the panel.
LEMMA DedupeWhole ==
    ASSUME DataTyped, NEW list, TrueList(list), WholeList(list)
    PROVE  /\ Names(list) = Clients
           /\ Dedupe(list) = {FullRow(u) : u \in Clients}
<1>1. Clients \subseteq Names(list)
  BY DEF WholeList, Names, Range
<1>2. Names(list) = Clients
  BY <1>1, DedupeTrue
<1>3. ASSUME NEW r, TrueRow(r), r.inbounds = world.clients[r.user].inbounds
      PROVE  r = FullRow(r.user)
  <2>1. r = [FullRow(r.user) EXCEPT !.inbounds = world.clients[r.user].inbounds]
    BY <1>3, TrueParts
  <2> QED
    BY <2>1 DEF FullRow
<1>4. ASSUME NEW r \in Dedupe(list)
      PROVE  r.user \in Clients /\ r = FullRow(r.user)
  <2>1. TrueRow(r) /\ r.user \in Clients
    BY <1>2, DedupeTrue
  <2>2. PICK k \in DOMAIN list :
           r = [list[k] EXCEPT !.inbounds = ShownOn(list, list[k].user)]
    BY DEF Dedupe, ShownOn
  <2>3. r.user = list[k].user /\ r.inbounds = ShownOn(list, list[k].user)
    <3>1. TrueRow(list[k])
      BY DEF TrueList
    <3>2. PICK u \in Clients : \E part \in SUBSET world.clients[u].inbounds :
             list[k] = [FullRow(u) EXCEPT !.inbounds = part]
      BY <3>1 DEF TrueRow
    <3> QED
      BY <2>2, <3>2 DEF FullRow
  <2>4. r.inbounds = world.clients[r.user].inbounds
    BY <2>1, <2>3 DEF WholeList
  <2> QED
    BY <1>3, <2>1, <2>4
<1>5. ASSUME NEW u \in Clients
      PROVE  FullRow(u) \in Dedupe(list)
  <2>1. PICK r \in Dedupe(list) : r.user = u
    BY <1>2, DedupeTrue
  <2> QED
    BY <1>4, <2>1
<1> QED
  BY <1>2, <1>4, <1>5

\* Every answer of the panel is a true list, and a whole one unless Marzban
\* cut it (ListUsers).
LEMMA ListsAreTrue ==
    ASSUME DataTyped, NEW list \in ListUsers
    PROVE  /\ TrueList(list)
           /\ NotCut => WholeList(list)
           /\ world.listing \in {"paged", "list"} => list = PanelRows
           /\ world.listing = "marzban" /\ NotCut => list = PanelRows
<1>1. TrueList(PanelRows) /\ WholeList(PanelRows)
  BY PanelRowsTrue, PanelRowsWhole
<1>2. CASE world.listing \in {"paged", "list"}
  BY <1>1, <1>2 DEF ListUsers
<1>3. CASE world.listing = "inbounds"
  <2>1. PICK all : all = Dedupe(PanelRows)
    OBVIOUS
  <2>2. list \in SetToSeqs(all)
    BY <1>3, <2>1 DEF ListUsers
  <2>3. PICK n \in Nat : n = Cardinality(all) /\ IsFiniteSet(all)
    BY <1>1, <2>1, DedupeTrue, FS_CardinalityType
  <2>4. /\ list \in [1..n -> all]
        /\ \A i, j \in 1..n : i # j => list[i] # list[j]
    BY <2>2, <2>3 DEF SetToSeqs
  <2>5. IsFiniteSet(1..n) /\ Cardinality(1..n) = n
    BY FS_Interval
  <2>6. list \in Surjection(1..n, all)
    <3>1. list \in Injection(1..n, all)
      BY <2>4 DEF Injection, IsInjective
    <3> QED
      BY <2>3, <2>5, <3>1, FS_Injection
  <2>7. \A r \in all : \E k \in DOMAIN list : list[k] = r
    BY <2>4, <2>6 DEF Surjection
  <2>8. all = {FullRow(u) : u \in Clients} /\ \A r \in all : TrueRow(r)
    BY <1>1, <2>1, DedupeWhole, DedupeTrue
  <2>9. TrueList(list)
    BY <2>4, <2>5, <2>8 DEF TrueList, IsList
  <2>10. WholeList(list)
    <3> SUFFICES ASSUME NEW u \in Clients
                 PROVE  /\ \E k \in DOMAIN list : list[k].user = u
                        /\ ShownOn(list, u) = world.clients[u].inbounds
      BY DEF WholeList
    <3>1. PICK k \in DOMAIN list : list[k] = FullRow(u)
      BY <2>7, <2>8
    <3>2. FullRow(u).user = u /\ FullRow(u).inbounds = world.clients[u].inbounds
      BY DEF FullRow
    <3>3. ASSUME NEW q \in Range(list), q.user = u
          PROVE  q = FullRow(u)
      <4>1. PICK v \in Clients : q = FullRow(v)
        BY <2>4, <2>8 DEF Range
      <4> QED
        BY <3>3, <4>1 DEF FullRow
    <3>4. FullRow(u) \in Range(list)
      BY <3>1 DEF Range
    <3>5. {q \in Range(list) : q.user = u} = {FullRow(u)}
      BY <3>2, <3>3, <3>4
    <3> QED
      BY <3>1, <3>2, <3>5 DEF ShownOn
  <2> QED
    BY <1>3, <2>9, <2>10
<1>4. CASE world.listing = "marzban"
  <2>1. list = PageOf(PanelRows, 1, Cap)
    BY <1>4 DEF ListUsers
  <2>2. IsList(PanelRows)
    BY <1>1 DEF TrueList
  <2>3. TrueList(list)
    BY <1>1, <2>1, <2>2, PageRows DEF TrueList
  <2>4. ASSUME NotCut
        PROVE  list = PanelRows
    <3>1. Cap \in Nat /\ Cardinality(DOMAIN PanelRows) <= Cap
      BY <1>4, <2>4, PagesArePositive DEF NotCut
    <3>2. Offset(1, Cap) = 0
      BY <3>1 DEF Offset
    <3>3. Cardinality(DOMAIN PanelRows) \in Nat
      BY <2>2, FS_CardinalityType DEF IsList
    <3>4. \A k \in DOMAIN PanelRows : OnPage(Rank(PanelRows, k), 1, Cap)
      BY <2>2, <3>1, <3>2, <3>3, RankBounds DEF OnPage
    <3>5. DOMAIN list = DOMAIN PanelRows
      BY <2>1, <2>2, <3>4, PageRows
    <3>6. \A k \in DOMAIN list : list[k] = PanelRows[k]
      BY <2>1, <2>2, PageRows
    <3>7. IsList(list)
      BY <2>3 DEF TrueList
    <3> QED
      BY <2>2, <3>5, <3>6, <3>7 DEF IsList
  <2> QED
    BY <1>1, <1>4, <2>3, <2>4
<1> QED
  BY <1>2, <1>3, <1>4, DataParts DEF Listings

\* The pages up to the last one have every row.
LEMMA LastPage ==
    ASSUME NEW total \in Nat, NEW p \in Nat \ {0}, NEW page \in Nat \ {0},
           page >= TotalPages(total, p), NEW i \in 1..total
    PROVE  /\ i <= page * p
           /\ page = 1 => OnPage(i, 1, p)
<1>1. PICK q \in 1..TotalPages(total, p) : OnPage(i, q, p)
  BY OnePage
<1>2. TotalPages(total, p) \in Int
  <2>1. total \div p \in Nat
    BY Quotient
  <2> QED
    BY <2>1 DEF TotalPages
<1>3. q \in Nat \ {0} /\ q <= page
  BY <1>2
<1>4. PICK m \in Nat : q = m + 1
  BY <1>3
<1>5. m * p \in Nat /\ i <= m * p + p
  BY <1>1, <1>4, PageSpan
<1>6. q * p = m * p + p /\ q * p <= page * p /\ page * p \in Nat
  <2>1. q < page => q * p + p <= page * p
    BY <1>3, Multiples
  <2>2. q * p = m * p + p /\ q * p \in Nat /\ page * p \in Nat
    BY <1>3, <1>4, Multiples
  <2> QED
    BY <1>3, <2>1, <2>2
<1>7. page = 1 => q = 1
  BY <1>3
<1> QED
  BY <1>1, <1>5, <1>6, <1>7

-----------------------------------------------------------------------------
(* Lists of panel accounts: the rows of the master's pages.                *)

\* What a merged row is, field by field (mergePanelUsers).
LEMMA MergedFields ==
    ASSUME NEW r, NEW services, NEW f
    PROVE  LET entry == MergedRow(r, services, f)
               scoped == r.user \in InScope(services, f)
           IN  /\ entry.user = r.user /\ entry.inbounds = r.inbounds
               /\ ~entry.hodhodOnly /\ (entry.label <=> scoped)
               /\ entry.source = IF scoped THEN "both" ELSE "panel"
               /\ entry.agent = IF scoped THEN services[r.user].agent ELSE NoAgent
               /\ entry.status = IF scoped /\ services[r.user].status # "active"
                               THEN services[r.user].status
                               ELSE IF ~r.enabled THEN "disabled"
                               ELSE IF r.past THEN "expired" ELSE "active"
<1>1. CASE r.user \in InScope(services, f)
  <2>1. MergedRow(r, services, f) =
           [FromPanel(r) EXCEPT
              !.agent = services[r.user].agent, !.label = TRUE, !.source = "both",
              !.status = IF services[r.user].status = "active" THEN FromPanel(r).status
                         ELSE services[r.user].status]
    BY <1>1 DEF MergedRow, MergeService, FromPanel
  <2> QED
    BY <1>1, <2>1 DEF FromPanel
<1>2. CASE r.user \notin InScope(services, f)
  BY <1>2 DEF MergedRow, FromPanel
<1> QED
  BY <1>1, <1>2

\* The fields of the row of a service that no list has.
LEMMA HodhodFields ==
    ASSUME NEW u, NEW services
    PROVE  LET entry == HodhodRow(u, services)
           IN  /\ entry.user = u /\ entry.inbounds = {}
               /\ entry.hodhodOnly /\ entry.label /\ entry.source = "hodhod"
               /\ entry.agent = services[u].agent /\ entry.status = services[u].status
BY DEF HodhodRow, FromService

\* The rows of a merge are those of listed accounts and of wanted services.
LEMMA MergedRows ==
    ASSUME NEW list, NEW services, NEW f, NEW wanted, NEW entry
    PROVE  entry \in Merged(list, services, f, wanted)
           <=> /\ MatchesFilter(entry, f)
               /\ \/ \E r \in Dedupe(list) : entry = MergedRow(r, services, f)
                  \/ \E u \in wanted \ Names(list) : entry = HodhodRow(u, services)
BY DEF Merged, Matching

\* There are finitely many of them.
LEMMA MergedFinite ==
    ASSUME DataTyped, NEW list, TrueList(list), NEW services, NEW f,
           NEW wanted \in SUBSET Users
    PROVE  /\ IsFiniteSet(Merged(list, services, f, wanted))
           /\ Cardinality(Merged(list, services, f, wanted)) \in Nat
<1>1. PICK listed : listed = [r \in Dedupe(list) |-> MergedRow(r, services, f)]
  OBVIOUS
<1>2. PICK others : others = [u \in wanted \ Names(list) |-> HodhodRow(u, services)]
  OBVIOUS
<1>3. IsFiniteSet({listed[r] : r \in Dedupe(list)})
  BY DedupeTrue, FiniteImages
<1>4. IsFiniteSet({others[u] : u \in wanted \ Names(list)})
  <2>1. wanted \ Names(list) \in SUBSET Users
    OBVIOUS
  <2>2. IsFiniteSet(wanted \ Names(list))
    BY <2>1, UsersAreFinite, FS_Subset
  <2> QED
    BY <2>2, FiniteImages
<1>5. PICK all : /\ all = {listed[r] : r \in Dedupe(list)}
                          \cup {others[u] : u \in wanted \ Names(list)}
                 /\ IsFiniteSet(all)
  BY <1>3, <1>4, FS_Union
<1>6. Merged(list, services, f, wanted) \in SUBSET all
  BY <1>1, <1>2, <1>5 DEF Merged, Matching
<1> QED
  BY <1>5, <1>6, FS_Subset, FS_CardinalityType

\* The services in scope are services.
LEMMA ScopeServed ==
    ASSUME NEW f
    PROVE  InScope(world.services, f) \subseteq Serviced
BY DEF InScope, Serviced

\* A merged row of unchanged services is right about its account; "only here"
\* it says of the wanted services the list does not have.
LEMMA MergedTrue ==
    ASSUME DataTyped, NEW list, TrueList(list), NEW f, NEW wanted,
           NEW entry \in Merged(list, world.services, f, wanted)
    PROVE  /\ entry.user \in Clients \cup wanted
           /\ entry.source = "both" => entry.user \in Clients \cap Serviced
           /\ entry.source = "panel" =>
                 entry.user \in Clients \ InScope(world.services, f)
           /\ entry.hodhodOnly => entry.user \in wanted \ Names(list)
           /\ entry.label => entry.agent = world.services[entry.user].agent
<1>1. CASE \E r \in Dedupe(list) : entry = MergedRow(r, world.services, f)
  <2>1. PICK r \in Dedupe(list) : entry = MergedRow(r, world.services, f)
    BY <1>1
  <2>2. r.user \in Clients
    BY DedupeTrue
  <2> QED
    BY <2>1, <2>2, MergedFields, ScopeServed
<1>2. CASE \E u \in wanted \ Names(list) : entry = HodhodRow(u, world.services)
  BY <1>2, HodhodFields
<1> QED
  BY <1>1, <1>2, MergedRows

\* A page is cut from a list: what passed, the part on the page, who was merged
\* into it and how many passed.
PanelCut(list, kept, part, wanted, n, f, page, services, answer) ==
    /\ list \in ListUsers
    /\ kept = Passing(list, f) /\ part = PageOf(kept, page, PerPage)
    /\ wanted = IF page = 1 THEN InScope(services, f) ELSE {}
    /\ n = Cardinality(DOMAIN kept)
    /\ IsList(kept) /\ TrueList(part)
    /\ \A k : k \in DOMAIN kept <=> k \in DOMAIN list /\ PanelKeeps(list[k], f)
    /\ \A k \in DOMAIN kept : kept[k] = list[k]
    /\ answer.rows = Merged(part, services, f, wanted)
    /\ answer.total \in Nat /\ n \in Nat
    /\ n # 0 => answer.total = n

\* The panel's page: which list it is cut from, and its total.
LEMMA PanelAnswer ==
    ASSUME DataTyped, NEW f, NEW page \in Nat \ {0}, NEW services,
           NEW answer \in PanelPages(f, page, services)
    PROVE  \E list, kept, part, wanted, n :
              PanelCut(list, kept, part, wanted, n, f, page, services, answer)
<1>1. PICK list \in ListUsers :
         answer = [rows |-> Merged(PagedAnswer(list, f, page).rows, services, f,
                                   IF page <= 1 THEN InScope(services, f) ELSE {}),
                   total |-> TotalOf(PagedAnswer(list, f, page))]
  BY DEF PanelPages, ListUsersPaged
<1>2. PICK kept : kept = Passing(list, f)
  OBVIOUS
<1>3. PICK part : part = PageOf(kept, page, PerPage)
  OBVIOUS
<1>4. TrueList(list)
  BY ListsAreTrue
<1>5. /\ \A k : k \in DOMAIN kept <=> k \in DOMAIN list /\ PanelKeeps(list[k], f)
      /\ kept = [k \in DOMAIN kept |-> list[k]]
  BY <1>2 DEF Passing, Restrict
<1>6. IsList(kept)
  <2>1. DOMAIN kept \in SUBSET DOMAIN list
    BY <1>5
  <2>2. IsFiniteSet(DOMAIN kept) /\ DOMAIN kept \subseteq Nat
    BY <1>4, <2>1, FS_Subset DEF TrueList, IsList
  <2> QED
    BY <1>5, <2>2 DEF IsList
<1>7. TrueList(part)
  <2>1. /\ IsList(part)
        /\ \A k \in DOMAIN part : k \in DOMAIN kept /\ part[k] = kept[k]
    BY <1>3, <1>6, PageRows
  <2>2. \A k \in DOMAIN kept : TrueRow(kept[k])
    BY <1>4, <1>5 DEF TrueList
  <2> QED
    BY <2>1, <2>2 DEF TrueList
<1>8. PICK n \in Nat, m \in Nat : n = Cardinality(DOMAIN kept) /\ m = Cardinality(DOMAIN list)
  BY <1>4, <1>6, FS_CardinalityType DEF TrueList, IsList
<1>9. /\ answer.rows = Merged(part, services, f,
                              IF page = 1 THEN InScope(services, f) ELSE {})
      /\ answer.total = IF n = 0 THEN IF world.listing = "paged" THEN m ELSE n
                        ELSE n
  <2>1. PagedAnswer(list, f, page) =
           [rows |-> part, filtered |-> n,
            total |-> IF world.listing = "paged" THEN m ELSE n]
    BY <1>2, <1>3, <1>8 DEF PagedAnswer
  <2>2. page <= 1 <=> page = 1
    OBVIOUS
  <2> QED
    BY <1>1, <2>1, <2>2 DEF TotalOf
<1>10. PICK wanted : wanted = IF page = 1 THEN InScope(services, f) ELSE {}
  OBVIOUS
<1>11. \A k \in DOMAIN kept : kept[k] = list[k]
  BY <1>5
<1>12. answer.total \in Nat /\ (n # 0 => answer.total = n)
  BY <1>8, <1>9
<1>13. PanelCut(list, kept, part, wanted, n, f, page, services, answer)
  BY <1>1, <1>2, <1>3, <1>5, <1>6, <1>7, <1>8, <1>9, <1>10, <1>11, <1>12
     DEF PanelCut
<1> QED
  BY <1>13

\* A page cut from a set of rows; a single page has them all.
LEMMA CutAnswer ==
    ASSUME NEW all, IsFiniteSet(all), NEW page \in Nat \ {0},
           NEW answer \in CutPages(all, page)
    PROVE  /\ answer.rows \subseteq all
           /\ answer.total \in Nat
           /\ page = 1 /\ TotalPages(answer.total, PerPage) = 1 => answer.rows = all
<1>1. PICK n \in Nat : n = Cardinality(all)
  BY FS_CardinalityType
<1>2. PICK part \in kSubset(PageLength(page, PerPage, n), all) :
         answer = [rows |-> part, total |-> n]
  BY <1>1 DEF CutPages
<1>3. part \in SUBSET all /\ Cardinality(part) = PageLength(page, PerPage, n)
  BY <1>2 DEF kSubset
<1>4. ASSUME page = 1, TotalPages(n, PerPage) = 1
      PROVE  part = all
  <2>1. n <= PerPage
    <3>1. CASE n = 0
      BY <3>1, PagesArePositive
    <3>2. CASE n # 0
      <4>1. n \in 1..n
        BY <3>2
      <4>2. n <= 1 * PerPage
        BY <1>4, <4>1, LastPage, PagesArePositive
      <4> QED
        BY <4>2, PagesArePositive
    <3> QED
      BY <3>1, <3>2
  <2>2. Offset(page, PerPage) = 0
    BY <1>4, PagesArePositive DEF Offset
  <2>3. PageLength(page, PerPage, n) = n
    BY <2>1, <2>2, PagesArePositive DEF PageLength
  <2> QED
    BY <1>1, <1>3, <2>3, FS_Subset
<1> QED
  BY <1>2, <1>3, <1>4

\* The page of a merge of everything.
LEMMA LocalAnswer ==
    ASSUME DataTyped, NEW f, NEW page \in Nat \ {0}, NEW services,
           NEW answer \in LocalPages(f, page, services)
    PROVE  \E list \in ListUsers :
              LET all == Merged(list, services, f, InScope(services, f))
              IN  /\ TrueList(list) /\ answer.rows \subseteq all
                  /\ answer.total \in Nat
                  /\ page = 1 /\ TotalPages(answer.total, PerPage) = 1
                     => answer.rows = all
<1>1. PICK list \in ListUsers :
         answer \in CutPages(Merged(list, services, f, InScope(services, f)), page)
  BY DEF LocalPages
<1>2. TrueList(list)
  BY ListsAreTrue
<1>3. InScope(services, f) \in SUBSET Users
  BY DEF InScope
<1>4. IsFiniteSet(Merged(list, services, f, InScope(services, f)))
  BY <1>2, <1>3, MergedFinite
<1> QED
  BY <1>1, <1>2, <1>4, CutAnswer

\* The list of the services without a client shows none: its own filter drops
\* them.
LEMMA HodhodAnswer ==
    ASSUME DataTyped, NEW f, f.source = "hodhod", NEW page, NEW services,
           NEW answer \in HodhodPages(f, page, services)
    PROVE  answer.total \in Nat /\ answer.rows = {}
<1>1. PICK list, kept :
         /\ kept = {u \in InScope(services, f) \ Names(list) :
                       MatchesFilter(FromService(u, services[u]), f)}
         /\ answer = [rows |-> {HodhodRow(u, services) : u \in kept},
                      total |-> Cardinality(kept)]
  BY DEF HodhodPages
<1>2. kept = {}
  <2>1. ASSUME NEW u
        PROVE  ~MatchesFilter(FromService(u, services[u]), f)
    <3>1. FromService(u, services[u]).source = ""
      BY DEF FromService
    <3> QED
      BY <3>1 DEF MatchesFilter
  <2> QED
    BY <1>1, <2>1
<1>3. answer.rows = {} /\ answer.total = Cardinality({})
  BY <1>1, <1>2
<1> QED
  BY <1>3, FS_EmptySet

\* The master's page has a total, and rows of the accounts of the panel or of
\* services that were read.
LEMMA MasterAnswer ==
    ASSUME DataTyped, NEW f, NEW page \in Nat \ {0}, NEW services,
           NEW answer \in MasterPages(f, page, services)
    PROVE  /\ answer.total \in Nat
           /\ \A entry \in answer.rows : entry.user \in Users
<1> DEFINE Known(entry) == entry.user \in Users
<1>1. ASSUME NEW list, TrueList(list), NEW wanted \in SUBSET Users,
             NEW entry \in Merged(list, services, f, wanted)
      PROVE  entry.user \in Users
  <2>1. CASE \E r \in Dedupe(list) : entry = MergedRow(r, services, f)
    <3>1. PICK r \in Dedupe(list) : entry = MergedRow(r, services, f)
      BY <2>1
    <3>2. r.user \in Users
      BY <1>1, DedupeTrue, DataParts
    <3> QED
      BY <3>1, <3>2, MergedFields
  <2>2. CASE \E u \in wanted \ Names(list) : entry = HodhodRow(u, services)
    BY <2>2, HodhodFields
  <2> QED
    BY <2>1, <2>2, MergedRows
<1>2. InScope(services, f) \in SUBSET Users
  BY DEF InScope
<1>3. CASE f.source = "hodhod" /\ answer \in HodhodPages(f, page, services)
  BY <1>3, HodhodAnswer
<1>4. CASE answer \in LocalPages(f, page, services)
  <2>1. PICK list \in ListUsers :
           /\ TrueList(list) /\ answer.total \in Nat
           /\ answer.rows \subseteq Merged(list, services, f, InScope(services, f))
    BY <1>4, LocalAnswer
  <2> QED
    BY <1>1, <1>2, <2>1
<1>5. CASE answer \in PanelPages(f, page, services)
  <2>1. PICK list, kept, part, wanted, n :
           PanelCut(list, kept, part, wanted, n, f, page, services, answer)
    BY <1>5, PanelAnswer
  <2>2. /\ TrueList(part) /\ answer.total \in Nat
        /\ answer.rows = Merged(part, services, f, wanted)
    BY <2>1 DEF PanelCut
  <2>3. wanted \in SUBSET Users
    BY <1>2, <2>1 DEF PanelCut
  <2> QED
    BY <1>1, <2>2, <2>3
<1> QED
  BY <1>3, <1>4, <1>5 DEF MasterPages

\* Where a page can be relied on for what is only in the store: everything was
\* merged, or one page has the unfiltered list.
TellsMissing(f, pages) ==
    \/ NeedsLocalMerge(f)
    \/ pages = 1 /\ ~f.query /\ f.status = "all"

\* What a row of the master's page says, of unchanged services.
TrueBadge(entry, f, pages) ==
    /\ entry.source = "both" => entry.user \in Clients \cap Serviced
    /\ entry.source = "panel" => entry.user \in Clients \ InScope(world.services, f)
    /\ entry.hodhodOnly => entry.user \in Serviced
    /\ entry.hodhodOnly /\ NotCut /\ TellsMissing(f, pages) => entry.user \notin Clients
    /\ entry.label => entry.agent = world.services[entry.user].agent

\* Whatever way the master's page was put together, its rows are true of the
\* services it was merged with.
LEMMA MasterBadges ==
    ASSUME DataTyped, NEW f, NEW page \in Nat \ {0},
           NEW answer \in MasterPages(f, page, world.services),
           NEW entry \in answer.rows
    PROVE  TrueBadge(entry, f, TotalPages(answer.total, PerPage))
<1>1. PICK pages : pages = TotalPages(answer.total, PerPage)
  OBVIOUS
<1>2. InScope(world.services, f) \subseteq Serviced
  BY ScopeServed
<1>3. CASE f.source = "hodhod" /\ answer \in HodhodPages(f, page, world.services)
  BY <1>3, HodhodAnswer
<1>4. CASE answer \in LocalPages(f, page, world.services)
  <2>1. PICK list \in ListUsers :
           /\ TrueList(list)
           /\ answer.rows \subseteq
                 Merged(list, world.services, f, InScope(world.services, f))
    BY <1>4, LocalAnswer
  <2>2. NotCut => Names(list) = Clients
    BY ListsAreTrue, DedupeWhole
  <2>3. entry \in Merged(list, world.services, f, InScope(world.services, f))
    BY <2>1
  <2> QED
    BY <1>2, <2>1, <2>2, <2>3, MergedTrue DEF TrueBadge
<1>5. CASE answer \in PanelPages(f, page, world.services) /\ ~NeedsLocalMerge(f)
  <2>0. PICK list, kept, part, wanted, n :
           PanelCut(list, kept, part, wanted, n, f, page, world.services, answer)
    BY <1>5, PanelAnswer
  <2>1. /\ list \in ListUsers
        /\ kept = Passing(list, f) /\ part = PageOf(kept, page, PerPage)
        /\ wanted = IF page = 1 THEN InScope(world.services, f) ELSE {}
        /\ n = Cardinality(DOMAIN kept)
        /\ IsList(kept) /\ TrueList(part)
        /\ \A k : k \in DOMAIN kept
                  <=> k \in DOMAIN list /\ PanelKeeps(list[k], f)
        /\ \A k \in DOMAIN kept : kept[k] = list[k]
        /\ answer.rows = Merged(part, world.services, f, wanted)
        /\ answer.total \in Nat /\ n \in Nat
        /\ n # 0 => answer.total = n
    BY <2>0 DEF PanelCut
  <2>2. /\ entry.source = "both" => entry.user \in Clients \cap Serviced
        /\ entry.source = "panel" => entry.user \in Clients \ InScope(world.services, f)
        /\ entry.hodhodOnly => entry.user \in wanted \ Names(part)
        /\ entry.label => entry.agent = world.services[entry.user].agent
    BY <2>1, MergedTrue
  <2>3. entry.hodhodOnly => page = 1 /\ entry.user \in Serviced
    BY <1>2, <2>1, <2>2
  <2>4. ASSUME entry.hodhodOnly, NotCut, TellsMissing(f, pages)
        PROVE  entry.user \notin Clients
    <3>1. page = 1 /\ pages = 1 /\ ~f.query /\ f.status = "all"
      BY <1>5, <2>3, <2>4 DEF TellsMissing
    <3>2. TrueList(list) /\ WholeList(list)
      BY <2>1, <2>4, ListsAreTrue
    <3>3. \A k \in DOMAIN list : k \in DOMAIN kept /\ kept[k] = list[k]
      BY <2>1, <3>1 DEF PanelKeeps
    <3>4. ASSUME NEW k \in DOMAIN list
          PROVE  k \in DOMAIN part /\ part[k] = list[k]
      <4>1. Rank(kept, k) \in 1..n
        BY <2>1, <3>3, RankBounds
      <4>2. n # 0
        BY <2>1, <4>1
      <4>3. OnPage(Rank(kept, k), 1, PerPage)
        <5>1. TotalPages(n, PerPage) = 1
          BY <1>1, <2>1, <3>1, <4>2
        <5>2. 1 \in Nat \ {0} /\ 1 >= TotalPages(n, PerPage)
          BY <5>1
        <5> QED
          BY <2>1, <4>1, <5>2, LastPage, PagesArePositive
      <4> QED
        BY <2>1, <3>1, <3>3, <4>3, PageRows
    <3>5. Clients \subseteq Names(part)
      <4> SUFFICES ASSUME NEW u \in Clients
                   PROVE  u \in Names(part)
        OBVIOUS
      <4>1. PICK k \in DOMAIN list : list[k].user = u
        BY <3>2 DEF WholeList
      <4> QED
        BY <3>4, <4>1 DEF Names, Range
    <3> QED
      BY <2>2, <2>4, <3>5
  <2> QED
    BY <1>1, <2>2, <2>3, <2>4 DEF TrueBadge
<1> QED
  BY <1>1, <1>3, <1>4, <1>5 DEF MasterPages

\* What is read of a store that does not answer.
NothingTold == [u \in Users |-> NoService]

\* A row that is made without any service: an account of the panel.
BareBadge(entry) ==
    /\ entry.source # "both" /\ ~entry.hodhodOnly /\ ~entry.label
    /\ entry.source = "panel" => entry.user \in Clients

\* A page made without the store's answer has only such rows.
LEMMA BareBadges ==
    ASSUME DataTyped, NEW f, NEW page \in Nat \ {0},
           NEW answer \in MasterPages(f, page, NothingTold),
           NEW entry \in answer.rows
    PROVE  BareBadge(entry)
<1>1. InScope(NothingTold, f) = {}
  BY DEF InScope, NothingTold
<1>2. ASSUME NEW list, TrueList(list), entry \in Merged(list, NothingTold, f, {})
      PROVE  BareBadge(entry)
  <2>1. PICK r \in Dedupe(list) : entry = MergedRow(r, NothingTold, f)
    BY <1>2, MergedRows
  <2>2. r.user \in Clients
    BY <1>2, DedupeTrue
  <2> QED
    BY <1>1, <2>1, <2>2, MergedFields DEF BareBadge
<1>3. CASE f.source = "hodhod" /\ answer \in HodhodPages(f, page, NothingTold)
  BY <1>3, HodhodAnswer
<1>4. CASE answer \in LocalPages(f, page, NothingTold)
  <2>1. PICK list \in ListUsers :
           /\ TrueList(list)
           /\ answer.rows \subseteq Merged(list, NothingTold, f, InScope(NothingTold, f))
    BY <1>4, LocalAnswer
  <2> QED
    BY <1>1, <1>2, <2>1
<1>5. CASE answer \in PanelPages(f, page, NothingTold)
  <2>1. PICK list, kept, part, wanted, n :
           PanelCut(list, kept, part, wanted, n, f, page, NothingTold, answer)
    BY <1>5, PanelAnswer
  <2>2. /\ TrueList(part) /\ wanted = {}
        /\ answer.rows = Merged(part, NothingTold, f, wanted)
    BY <1>1, <2>1 DEF PanelCut
  <2> QED
    BY <1>2, <2>2
<1> QED
  BY <1>3, <1>4, <1>5 DEF MasterPages

-----------------------------------------------------------------------------
(* Lists of panel accounts: the reader's walk.                             *)

Walks ==
    [pc : {"closed", "store", "panel", "done", "failed"},
     reader : [viewer : Agents \cup {Master}, whole : BOOLEAN, filter : Filters],
     page : Nat \ {0}, pages : Int, shown : SUBSET Users, steady : BOOLEAN,
     fresh : BOOLEAN, ordered : BOOLEAN, answered : BOOLEAN]

Reads ==
    [services : [Users -> StoreServices \cup {NoService}], told : BOOLEAN,
     visible : [Users -> [own : BOOLEAN, grant : SUBSET Rights, inbound : BOOLEAN]]]

\* Agents are readers of unnamed source and inbound only (pageCustomers).
AgentFilter ==
    Viewer # Master => Filter.source = "" /\ Filter.inbound = NoInbound

ListTypes == DataTyped /\ walk \in Walks /\ read \in Reads /\ AgentFilter

\* What the type of the walk says of the list that is read.
LEMMA ReaderParts ==
    ASSUME ListTypes
    PROVE  /\ Filter \in Filters /\ Viewer \in Agents \cup {Master}
           /\ walk.page \in Nat \ {0} /\ walk.pages \in Int
BY DEF ListTypes, Walks, Filter, Viewer

\* Someone else's change leaves data of its type.
LEMMA ChangesTyped ==
    ASSUME DataTyped, NEW u \in Users,
           \/ \E c \in PanelClients \cup {NoClient} :
                 world' = [world EXCEPT !.clients[u] = c]
           \/ \E s \in StoreServices \cup {NoService} :
                 world' = [world EXCEPT !.services[u] = s]
           \/ \E a \in Agents : world' = [world EXCEPT !.granted[a][u] = {}]
    PROVE  DataTyped'
<1>1. world \in PanelStates
  BY DEF DataTyped
<1>2. world' \in PanelStates /\ world'.order = world.order
  <2>1. ASSUME NEW c \in PanelClients \cup {NoClient},
               world' = [world EXCEPT !.clients[u] = c]
        PROVE  world' \in PanelStates /\ world'.order = world.order
    BY <1>1, <2>1 DEF PanelStates
  <2>2. ASSUME NEW s \in StoreServices \cup {NoService},
               world' = [world EXCEPT !.services[u] = s]
        PROVE  world' \in PanelStates /\ world'.order = world.order
    BY <1>1, <2>2 DEF PanelStates
  <2>3. ASSUME NEW a \in Agents, world' = [world EXCEPT !.granted[a][u] = {}]
        PROVE  world' \in PanelStates /\ world'.order = world.order
    <3>1. [world.granted EXCEPT ![a][u] = {}] \in [Agents -> [Users -> SUBSET Rights]]
      BY <1>1 DEF PanelStates
    <3> QED
      BY <1>1, <2>3, <3>1 DEF PanelStates
  <2> QED
    BY <2>1, <2>2, <2>3
<1>3. ASSUME NEW v \in Users
      PROVE  HasPlaces(v)'
  BY <1>2 DEF DataTyped, HasPlaces
<1> QED
  BY <1>2, <1>3 DEF DataTyped

\* What an agent may see is worked out for every account.
LEMMA VisibleTyped ==
    ASSUME DataTyped, NEW agent \in Agents, NEW whole \in BOOLEAN, NEW list
    PROVE  AgentVisible(agent, whole, list)
              \in [Users -> [own : BOOLEAN, grant : SUBSET Rights, inbound : BOOLEAN]]
<1>1. world.granted[agent] \in [Users -> SUBSET Rights]
  BY DEF DataTyped, PanelStates
<1>2. CASE whole
  BY <1>1, <1>2 DEF AgentVisible, VisibleEverywhere, UserOnInbound
<1>3. CASE ~whole
  BY <1>1, <1>3 DEF AgentVisible, VisibleUsers, UserOnInbound
<1> QED
  BY <1>2, <1>3

\* An agent's row is that of the account it was made for.
LEMMA AgentRowUser ==
    ASSUME NEW u, NEW v, NEW agent, NEW answered, NEW told, NEW listed
    PROVE  AgentRow(u, v, agent, answered, told, listed).user = u
<1>1. PICK panel : panel = {r \in listed : r.user = u}
  OBVIOUS
<1>2. panel # {} => (CHOOSE q \in panel : TRUE) \in panel
  OBVIOUS
<1>3. panel # {} => (CHOOSE q \in panel : TRUE).user = u
  BY <1>1, <1>2
<1> QED
  BY <1>1, <1>3 DEF AgentRow, FromService, FromPanel, MergeService

\* An agent's page has rows of the accounts the agent sees; a single page has
\* all of those that match the filter.
LEMMA AgentAnswer ==
    ASSUME DataTyped, NEW agent, NEW f, NEW page \in Nat \ {0}, NEW visible,
           NEW answered, NEW told, NEW list,
           NEW answer \in AgentPages(agent, f, page, visible, answered, told, list)
    PROVE  LET seen == {u \in Users : CanView(visible[u])}
               entry(u) == AgentRow(u, visible[u], agent, answered, told, Dedupe(list))
           IN  /\ answer.total \in Nat
               /\ \A r \in answer.rows : r.user \in seen
               /\ page = 1 /\ TotalPages(answer.total, PerPage) = 1
                  => \A u \in seen : MatchesFilter(entry(u), f) => entry(u) \in answer.rows
<1>1. PICK seen, entry :
         /\ seen = {u \in Users : CanView(visible[u])}
         /\ entry = [u \in seen |-> AgentRow(u, visible[u], agent, answered, told,
                                             Dedupe(list))]
  OBVIOUS
<1>2. PICK all : all = {r \in {entry[u] : u \in seen} : MatchesFilter(r, f)}
  OBVIOUS
<1>3. IsFiniteSet(all)
  <2>1. seen \in SUBSET Users
    BY <1>1
  <2>2. IsFiniteSet({entry[u] : u \in seen})
    BY <2>1, UsersAreFinite, FS_Subset, FiniteImages
  <2>3. all \in SUBSET {entry[u] : u \in seen}
    BY <1>2
  <2> QED
    BY <2>2, <2>3, FS_Subset
<1>4. answer \in CutPages(all, page)
  BY <1>1, <1>2 DEF AgentPages, Matching
<1>5. /\ answer.rows \subseteq all /\ answer.total \in Nat
      /\ page = 1 /\ TotalPages(answer.total, PerPage) = 1 => answer.rows = all
  BY <1>3, <1>4, CutAnswer
<1>6. \A u \in seen : entry[u].user = u
  BY <1>1, AgentRowUser
<1>7. \A r \in answer.rows : r.user \in seen
  BY <1>2, <1>5, <1>6
<1> QED
  BY <1>1, <1>2, <1>5, <1>7

\* A shown page leaves the walk of its type.
LEMMA ShowTyped ==
    ASSUME ListTypes, NEW answer, NEW ordered \in BOOLEAN, NEW answered \in BOOLEAN,
           answer.total \in Nat, \A entry \in answer.rows : entry.user \in Users,
           Show(answer, ordered, answered)
    PROVE  walk' \in Walks
<1>1. PICK pages \in Int : pages = TotalPages(answer.total, PerPage)
  <2>1. answer.total \div PerPage \in Nat
    BY Quotient, PagesArePositive
  <2> QED
    BY <2>1 DEF TotalPages
<1>2. PICK shown : shown = walk.shown \cup {entry.user : entry \in answer.rows}
  OBVIOUS
<1>3. shown \in SUBSET Users
  <2>1. walk.shown \subseteq Users
    BY DEF ListTypes, Walks
  <2> QED
    BY <1>2, <2>1
<1>4. \E next \in BOOLEAN :
         walk' = [walk EXCEPT
                    !.pc = IF next THEN "store" ELSE "done",
                    !.page = IF next THEN @ + 1 ELSE @,
                    !.pages = pages, !.shown = shown,
                    !.ordered = @ /\ (ordered \/ pages = 1),
                    !.answered = @ /\ answered]
  <2>1. CASE HasNext(walk.page, PerPage, answer.total)
    BY <1>1, <1>2, <2>1 DEF Show
  <2>2. CASE ~HasNext(walk.page, PerPage, answer.total)
    BY <1>1, <1>2, <2>2 DEF Show
  <2> QED
    BY <2>1, <2>2
<1>5. PICK page \in Nat \ {0}, pc \in {"store", "done"},
           kept \in BOOLEAN, told \in BOOLEAN :
         walk' = [walk EXCEPT !.pc = pc, !.page = page, !.pages = pages,
                              !.shown = shown, !.ordered = kept, !.answered = told]
  <2>1. /\ walk.page \in Nat \ {0} /\ walk.page + 1 \in Nat \ {0}
        /\ (walk.ordered /\ (ordered \/ pages = 1)) \in BOOLEAN
        /\ (walk.answered /\ answered) \in BOOLEAN
    BY DEF ListTypes, Walks
  <2> QED
    BY <1>4, <2>1
<1> QED
  BY <1>3, <1>5 DEF ListTypes, Walks

\* A closed list, and one that was just opened.
LEMMA OpensTyped ==
    /\ Closed \in Walks /\ Closed.reader.viewer = Master
    /\ \A reader \in Readers :
          LET opened == [Closed EXCEPT !.pc = "store", !.reader = reader]
          IN  /\ opened \in Walks /\ opened.reader = reader
              /\ reader.viewer # Master =>
                    reader.filter.source = "" /\ reader.filter.inbound = NoInbound
<1>1. NoReader.filter \in Filters /\ NoReader.viewer = Master
  BY DEF NoReader, Filters
<1>2. NoReader \in [viewer : Agents \cup {Master}, whole : BOOLEAN, filter : Filters]
  BY <1>1 DEF NoReader
<1>3. Closed \in Walks /\ Closed.reader.viewer = Master
  BY <1>1, <1>2 DEF Closed, Walks
<1>4. ASSUME NEW reader \in Readers
      PROVE  LET opened == [Closed EXCEPT !.pc = "store", !.reader = reader]
             IN  opened \in Walks /\ opened.reader = reader
  <2>1. reader \in [viewer : Agents \cup {Master}, whole : BOOLEAN, filter : Filters]
    BY ReadersAreViewers
  <2> QED
    BY <1>3, <2>1 DEF Walks
<1> QED
  BY <1>3, <1>4, ReadersAreViewers

\* The type invariant of the lists: worlds, walks and counters stay in their types.
THEOREM ListsTyped == ListsSpec => []ListTypes
<1>1. ListsInit => ListTypes
  <2> SUFFICES ASSUME ListsInit
               PROVE  ListTypes
    OBVIOUS
  <2>1. DataTyped
    BY WorldsAreStates DEF ListsInit, DataTyped, HasPlaces
  <2>2. walk \in Walks /\ AgentFilter
    BY OpensTyped DEF ListsInit, AgentFilter, Viewer
  <2>3. read \in Reads
    BY DEF ListsInit, Reads
  <2> QED
    BY <2>1, <2>2, <2>3 DEF ListTypes
<1>2. ListTypes /\ [ListsNext]_listVars => ListTypes'
  <2> SUFFICES ASSUME ListTypes, [ListsNext]_listVars
               PROVE  ListTypes'
    OBVIOUS
  <2>1. DataTyped /\ walk \in Walks /\ read \in Reads /\ AgentFilter
    BY DEF ListTypes
  <2>2. world' = world => DataTyped'
    BY <2>1 DEF DataTyped, HasPlaces
  <2>3. walk'.reader = walk.reader => AgentFilter'
    BY <2>1 DEF AgentFilter, Viewer, Filter
  <2>4. ASSUME NEW reader \in Readers, Open(reader)
        PROVE  ListTypes'
    <3>1. walk' \in Walks /\ AgentFilter'
      BY <2>4, OpensTyped DEF Open, AgentFilter, Viewer, Filter
    <3> QED
      BY <2>1, <2>2, <2>4, <3>1 DEF Open, ListTypes
  <2>5. CASE ReadServices
    <3>1. PICK told \in BOOLEAN :
             /\ read' = [read EXCEPT
                            !.services = IF told THEN world.services ELSE NothingTold,
                            !.told = told]
             /\ walk' = [walk EXCEPT !.pc = "panel", !.fresh = TRUE,
                                     !.answered = @ /\ told]
      BY <2>5 DEF ReadServices, NothingTold
    <3>2. /\ world.services \in [Users -> StoreServices \cup {NoService}]
          /\ NothingTold \in [Users -> StoreServices \cup {NoService}]
      BY <2>1 DEF DataTyped, PanelStates, NothingTold
    <3>3. read' \in Reads
      BY <2>1, <3>1, <3>2 DEF Reads
    <3>4. walk' \in Walks /\ walk'.reader = walk.reader
      BY <2>1, <3>1 DEF Walks
    <3> QED
      BY <2>2, <2>3, <2>5, <3>3, <3>4 DEF ReadServices, ListTypes
  <2>6. CASE ReadVisible
    <3>1. PICK asks \in BOOLEAN : asks = (Viewer \in world.assigned /\ world.viewable[Viewer] # {})
      OBVIOUS
    <3>5. PICK answered \in BOOLEAN : \E list :
             /\ read' = [read EXCEPT !.visible =
                            AgentVisible(Viewer, walk.reader.whole, list)]
             /\ walk' = [walk EXCEPT !.pc = "panel", !.fresh = TRUE,
                                     !.answered = @ /\ answered]
      BY <2>6, <3>1 DEF ReadVisible
    <3>2. Viewer \in Agents /\ walk.reader.whole \in BOOLEAN
      BY <2>1, <2>6 DEF ReadVisible, Walks, Viewer
    <3>3. read' \in Reads
      BY <2>1, <3>2, <3>5, VisibleTyped DEF Reads
    <3>4. walk' \in Walks /\ walk'.reader = walk.reader
      BY <2>1, <3>5 DEF Walks
    <3> QED
      BY <2>2, <2>3, <2>6, <3>3, <3>4 DEF ReadVisible, ListTypes
  <2>7. ASSUME NEW answer, NEW ordered \in BOOLEAN, NEW answered \in BOOLEAN,
               answer.total \in Nat, \A entry \in answer.rows : entry.user \in Users,
               Show(answer, ordered, answered), world' = world, read' = read
        PROVE  ListTypes'
    <3>1. walk' \in Walks
      BY <2>7, ShowTyped
    <3>2. walk'.reader = walk.reader
      BY <2>1, <2>7 DEF Show, Walks
    <3> QED
      BY <2>1, <2>2, <2>3, <2>7, <3>1, <3>2 DEF ListTypes
  <2>8. CASE ShowToMaster
    <3>1. PICK answer \in MasterPages(Filter, walk.page, read.services) :
             Show(answer, ~NeedsLocalMerge(Filter) /\ world.listing # "inbounds", TRUE)
      BY <2>8 DEF ShowToMaster
    <3>2. answer.total \in Nat /\ \A entry \in answer.rows : entry.user \in Users
      BY <2>1, ReaderParts, MasterAnswer
    <3>3. (~NeedsLocalMerge(Filter) /\ world.listing # "inbounds") \in BOOLEAN
      OBVIOUS
    <3> QED
      BY <2>7, <2>8, <3>1, <3>2, <3>3 DEF ShowToMaster
  <2>9. CASE ListFails
    <3>1. walk' \in Walks /\ walk'.reader = walk.reader
      BY <2>1, <2>9 DEF ListFails, Walks
    <3> QED
      BY <2>1, <2>2, <2>3, <2>9, <3>1 DEF ListFails, ListTypes
  <2>10. CASE ShowToAgent
    <3>1. PICK answered \in {FALSE, (Viewer \in world.assigned)}, told \in BOOLEAN : \E list :
          \E answer \in AgentPages(Viewer, Filter, walk.page, read.visible,
                                   answered, told, list) :
             Show(answer, FALSE, (answered \/ ~(Viewer \in world.assigned)) /\ told)
      BY <2>10 DEF ShowToAgent
    <3>2. PICK list, answer :
             /\ answer \in AgentPages(Viewer, Filter, walk.page, read.visible,
                                     answered, told, list)
             /\ Show(answer, FALSE, (answered \/ ~(Viewer \in world.assigned)) /\ told)
      BY <3>1
    <3>3. answer.total \in Nat /\ \A entry \in answer.rows : entry.user \in Users
      BY <2>1, <3>2, ReaderParts, AgentAnswer
    <3>4. ((answered \/ ~(Viewer \in world.assigned)) /\ told) \in BOOLEAN
      OBVIOUS
    <3> QED
      BY <2>7, <2>10, <3>2, <3>3, <3>4 DEF ShowToAgent
  <2>11. ASSUME NEW newWorld, Change(newWorld), DataTyped'
         PROVE  ListTypes'
    <3>1. walk' \in Walks /\ walk'.reader = walk.reader
      BY <2>1, <2>11 DEF Change, Walks
    <3> QED
      BY <2>1, <2>3, <2>11, <3>1 DEF Change, ListTypes
  <2>12. ASSUME NEW u \in Users, PanelChanges(u)
         PROVE  ListTypes'
    <3>1. PICK c \in PanelClients \cup {NoClient} :
             Change([world EXCEPT !.clients[u] = c])
      BY <2>12, WorldsAreStates DEF PanelChanges
    <3>2. DataTyped'
      BY <2>1, <3>1, ChangesTyped DEF Change
    <3> QED
      BY <2>11, <3>1, <3>2
  <2>13. ASSUME NEW u \in Users, StoreChanges(u)
         PROVE  ListTypes'
    <3>1. PICK s \in StoreServices \cup {NoService} :
             Change([world EXCEPT !.services[u] = s])
      BY <2>13, WorldsAreStates DEF StoreChanges
    <3>2. DataTyped'
      BY <2>1, <3>1, ChangesTyped DEF Change
    <3> QED
      BY <2>11, <3>1, <3>2
  <2>14. ASSUME NEW a \in Agents, NEW u \in Users, GrantRevoked(a, u)
         PROVE  ListTypes'
    <3>1. Change([world EXCEPT !.granted[a][u] = {}])
      BY <2>14 DEF GrantRevoked
    <3>2. DataTyped'
      BY <2>1, <3>1, ChangesTyped DEF Change
    <3> QED
      BY <2>11, <3>1, <3>2
  <2>15. CASE UNCHANGED listVars
    BY <2>1, <2>2, <2>3, <2>15 DEF listVars, ListTypes
  <2> QED
    BY <2>4, <2>5, <2>6, <2>8, <2>9, <2>10, <2>12, <2>13, <2>14, <2>15 DEF ListsNext
<1> QED
  BY <1>1, <1>2, PTL DEF ListsSpec

-----------------------------------------------------------------------------
(* Lists of panel accounts: badges.                                        *)

\* What is said of data stays said while they do not change.
LEMMA StillData ==
    ASSUME world' = world
    PROVE  /\ Clients' = Clients /\ Serviced' = Serviced /\ PanelRows' = PanelRows
           /\ NotCut' <=> NotCut
<1>1. Clients' = Clients /\ Serviced' = Serviced
  BY DEF Clients, Serviced
<1>2. PanelRows' = PanelRows
  BY DEF PanelRows, RowAt
<1>3. NotCut' <=> NotCut
  BY <1>2 DEF NotCut
<1> QED
  BY <1>1, <1>2, <1>3

\* The steps other than a shown page, by what they do to the walk.
LEMMA OtherSteps ==
    ASSUME ListTypes, [ListsNext]_listVars
    PROVE  \/ ShowToMaster \/ ShowToAgent
           \/ /\ walk.pc = "closed" /\ world' = world /\ rows' = rows
              /\ \E reader \in Readers :
                    walk' = [Closed EXCEPT !.pc = "store", !.reader = reader]
           \/ /\ walk.pc = "store" /\ world' = world /\ rows' = rows
              /\ \/ ReadServices \/ ReadVisible
           \/ /\ walk.pc \in {"store", "panel"} /\ world' = world
              /\ walk' = [walk EXCEPT !.pc = "failed"]
           \/ /\ walk' = [walk EXCEPT !.steady = FALSE, !.fresh = FALSE]
              /\ read' = read /\ world'.listing = world.listing
           \/ UNCHANGED listVars
<1>2. ASSUME NEW newWorld, Change(newWorld), newWorld.listing = world.listing
      PROVE  /\ walk' = [walk EXCEPT !.steady = FALSE, !.fresh = FALSE]
             /\ read' = read /\ world'.listing = world.listing
  BY <1>2 DEF Change
<1>3. /\ \A u, c : [world EXCEPT !.clients[u] = c].listing = world.listing
      /\ \A u, s : [world EXCEPT !.services[u] = s].listing = world.listing
      /\ \A a, u : [world EXCEPT !.granted[a][u] = {}].listing = world.listing
  BY DEF ListTypes, DataTyped, PanelStates
<1>4. ASSUME NEW u \in Users, PanelChanges(u)
      PROVE  \E newWorld : Change(newWorld) /\ newWorld.listing = world.listing
  <2>1. PICK c : Change([world EXCEPT !.clients[u] = c])
    BY <1>4 DEF PanelChanges
  <2>2. PICK newWorld : newWorld = [world EXCEPT !.clients[u] = c]
    OBVIOUS
  <2>3. Change(newWorld) /\ newWorld.listing = world.listing
    BY <1>3, <2>1, <2>2
  <2> QED
    BY <2>3
<1>6. ASSUME NEW u \in Users, StoreChanges(u)
      PROVE  \E newWorld : Change(newWorld) /\ newWorld.listing = world.listing
  <2>1. PICK s : Change([world EXCEPT !.services[u] = s])
    BY <1>6 DEF StoreChanges
  <2>2. PICK newWorld : newWorld = [world EXCEPT !.services[u] = s]
    OBVIOUS
  <2>3. Change(newWorld) /\ newWorld.listing = world.listing
    BY <1>3, <2>1, <2>2
  <2> QED
    BY <2>3
<1>5. ASSUME NEW a \in Agents, NEW u \in Users, GrantRevoked(a, u)
      PROVE  \E newWorld : Change(newWorld) /\ newWorld.listing = world.listing
  <2>1. Change([world EXCEPT !.granted[a][u] = {}])
    BY <1>5 DEF GrantRevoked
  <2>2. PICK newWorld : newWorld = [world EXCEPT !.granted[a][u] = {}]
    OBVIOUS
  <2>3. Change(newWorld) /\ newWorld.listing = world.listing
    BY <1>3, <2>1, <2>2
  <2> QED
    BY <2>3
<1> QED
  BY <1>2, <1>4, <1>5, <1>6 DEF ListsNext, Open, ReadServices, ReadVisible, ListFails

\* While nothing changed, the services that were read are those of the store,
\* or none when it did not answer.
FreshRead ==
    walk.pc = "panel" /\ Viewer = Master /\ walk.fresh
    => read.services = IF read.told THEN world.services ELSE NothingTold

\* What a row of the master's page says, of unchanged services or of none.
ToldBadge(entry, f, pages, told) ==
    /\ entry.source = "both" => entry.user \in Clients \cap Serviced
    /\ entry.source = "panel" =>
          /\ entry.user \in Clients
          /\ told => entry.user \notin InScope(world.services, f)
    /\ entry.hodhodOnly => entry.user \in Serviced
    /\ entry.hodhodOnly /\ NotCut /\ TellsMissing(f, pages) => entry.user \notin Clients
    /\ entry.label => entry.agent = world.services[entry.user].agent

\* A row of the master's list says of its account what was so while the page
\* was made: whose service it is, whether the panel has it (mergePanelUsers,
\* mergePanelUsersPage, panelUsersHodhodData). Whether it has no service a row
\* says only when the store answered (listMasterPanelAccounts drops the error).
THEOREM BadgesStayTrue == ListsSpec => []BadgesAreTrue
<1> DEFINE Inv == BadgesAreTrue /\ FreshRead
<1>1. ListsInit => Inv
  BY DEF ListsInit, Closed, BadgesAreTrue, FreshRead
<1>2. ListTypes /\ ListTypes' /\ Inv /\ [ListsNext]_listVars => Inv'
  <2> SUFFICES ASSUME ListTypes, Inv, [ListsNext]_listVars
               PROVE  Inv'
    OBVIOUS
  <2>1. walk \in Walks /\ read \in Reads /\ DataTyped
    BY DEF ListTypes
  <2>2. CASE ShowToMaster
    <3>1. PICK answer \in MasterPages(Filter, walk.page, read.services) :
             Show(answer, ~NeedsLocalMerge(Filter) /\ world.listing # "inbounds", TRUE)
      BY <2>2 DEF ShowToMaster
    <3>2. walk.pc = "panel" /\ Viewer = Master /\ world' = world /\ read' = read
      BY <2>2 DEF ShowToMaster
    <3>3. /\ rows' = answer.rows /\ walk'.pages = TotalPages(answer.total, PerPage)
          /\ walk'.pc \in {"store", "done"} /\ walk'.fresh = walk.fresh
          /\ walk'.reader = walk.reader
      BY <2>1, <3>1 DEF Show, Walks
    <3>4. FreshRead'
      BY <3>3 DEF FreshRead
    <3>5. Filter' = Filter /\ Viewer' = Viewer
      BY <3>3 DEF Filter, Viewer
    <3>6. ASSUME walk.fresh
          PROVE  \A entry \in rows' : ToldBadge(entry, Filter, walk'.pages, read.told)
      <4>1. read.services = IF read.told THEN world.services ELSE NothingTold
        BY <3>2, <3>6 DEF FreshRead
      <4>2. CASE read.told
        <5>1. \A entry \in rows' : TrueBadge(entry, Filter, walk'.pages)
          BY <2>1, <3>1, <3>3, <4>1, <4>2, ReaderParts, MasterBadges
        <5> QED
          BY <5>1 DEF TrueBadge, ToldBadge
      <4>3. CASE ~read.told
        <5>1. \A entry \in rows' : BareBadge(entry)
          BY <2>1, <3>1, <3>3, <4>1, <4>3, ReaderParts, BareBadges
        <5> QED
          BY <4>3, <5>1 DEF BareBadge, ToldBadge
      <4> QED
        BY <4>2, <4>3
    <3>7. BadgesAreTrue'
      <4>1. /\ Clients' = Clients /\ Serviced' = Serviced /\ (NotCut' <=> NotCut)
            /\ world'.services = world.services
        BY <3>2, StillData
      <4>2. /\ InScope(world.services, Filter)' = InScope(world.services, Filter)
            /\ NeedsLocalMerge(Filter)' <=> NeedsLocalMerge(Filter)
        BY <3>5, <4>1
      <4>3. SUFFICES ASSUME walk.fresh
                     PROVE  BadgesAreTrue'
        BY <3>3 DEF BadgesAreTrue
      <4>4. \A entry \in rows' :
               /\ entry.source = "both" => entry.user \in Clients \cap Serviced
               /\ entry.source = "panel" =>
                     /\ entry.user \in Clients
                     /\ read.told => entry.user \notin InScope(world.services, Filter)
               /\ entry.hodhodOnly => entry.user \in Serviced
               /\ entry.hodhodOnly /\ NotCut
                    /\ (\/ NeedsLocalMerge(Filter)
                        \/ walk'.pages = 1 /\ ~Filter.query /\ Filter.status = "all")
                  => entry.user \notin Clients
               /\ entry.label => entry.agent = world.services[entry.user].agent
        <5>1. \A entry \in rows' : ToldBadge(entry, Filter, walk'.pages, read.told)
          BY <3>6, <4>3
        <5> QED
          BY <5>1 DEF ToldBadge, TellsMissing
      <4> QED
        BY <3>2, <3>5, <4>1, <4>2, <4>4 DEF BadgesAreTrue
    <3> QED
      BY <3>4, <3>7
  <2>3. CASE ShowToAgent
    <3>1. Viewer # Master /\ walk'.reader = walk.reader /\ walk'.pc \in {"store", "done"}
      BY <2>1, <2>3 DEF ShowToAgent, Show, Walks
    <3> QED
      BY <3>1 DEF BadgesAreTrue, FreshRead, Viewer
  <2>4. ASSUME NEW reader \in Readers,
               walk' = [Closed EXCEPT !.pc = "store", !.reader = reader]
        PROVE  Inv'
    BY <2>4 DEF Closed, BadgesAreTrue, FreshRead
  <2>5. CASE ReadServices
    <3>1. /\ walk'.pc = "panel" /\ world' = world
          /\ read'.services = IF read'.told THEN world.services ELSE NothingTold
      BY <2>1, <2>5 DEF ReadServices, Walks, Reads, NothingTold
    <3> QED
      BY <3>1 DEF BadgesAreTrue, FreshRead
  <2>6. CASE ReadVisible
    <3>1. walk'.pc = "panel" /\ Viewer # Master /\ walk'.reader = walk.reader
      BY <2>1, <2>6 DEF ReadVisible, Walks
    <3> QED
      BY <3>1 DEF BadgesAreTrue, FreshRead, Viewer
  <2>7. CASE walk' = [walk EXCEPT !.pc = "failed"]
    <3>1. walk'.pc = "failed"
      BY <2>1, <2>7 DEF Walks
    <3> QED
      BY <3>1 DEF BadgesAreTrue, FreshRead
  <2>8. CASE walk' = [walk EXCEPT !.steady = FALSE, !.fresh = FALSE]
    <3>1. walk'.fresh = FALSE
      BY <2>1, <2>8 DEF Walks
    <3> QED
      BY <3>1 DEF BadgesAreTrue, FreshRead
  <2>9. CASE UNCHANGED listVars
    <3>1. world' = world /\ walk' = walk /\ read' = read /\ rows' = rows
      BY <2>9 DEF listVars
    <3> QED
      BY <3>1, StillData DEF BadgesAreTrue, FreshRead, Filter, Viewer
  <2> QED
    BY <2>2, <2>3, <2>4, <2>5, <2>6, <2>7, <2>8, <2>9, OtherSteps
<1> QED
  BY <1>1, <1>2, ListsTyped, PTL DEF ListsSpec

-----------------------------------------------------------------------------
(* Lists of panel accounts: what an agent sees.                            *)

\* Where the rows of a page have no order that stays, a reader who is still in
\* order has not turned a page.
OrderedOnOnePage ==
    /\ walk.pc \in {"store", "panel"} /\ walk.ordered
    /\ \/ Viewer # Master
       \/ NeedsLocalMerge(Filter)
       \/ world.listing = "inbounds"
    => walk.page = 1

\* What a shown page does to the walk.
LEMMA Shown ==
    ASSUME walk \in Walks, NEW answer, NEW ordered, NEW answered,
           answer.total \in Nat, Show(answer, ordered, answered)
    PROVE  LET pages == TotalPages(answer.total, PerPage)
           IN  /\ walk'.reader = walk.reader /\ walk'.steady = walk.steady
               /\ walk'.pages = pages /\ pages \in Int
               /\ walk'.shown = walk.shown \cup {entry.user : entry \in answer.rows}
               /\ walk'.ordered <=> walk.ordered /\ (ordered \/ pages = 1)
               /\ walk'.answered <=> walk.answered /\ answered
               /\ \/ /\ walk.page < pages
                     /\ walk'.pc = "store" /\ walk'.page = walk.page + 1
                  \/ /\ walk.page >= pages
                     /\ walk'.pc = "done" /\ walk'.page = walk.page
<1>1. TotalPages(answer.total, PerPage) \in Int
  <2>1. answer.total \div PerPage \in Nat
    BY Quotient, PagesArePositive
  <2> QED
    BY <2>1 DEF TotalPages
<1>2. walk.page \in Nat \ {0} /\ walk.ordered \in BOOLEAN /\ walk.answered \in BOOLEAN
  BY DEF Walks
<1>3. PICK pages \in Int : pages = TotalPages(answer.total, PerPage)
  BY <1>1
<1>4. PICK shown : shown = walk.shown \cup {entry.user : entry \in answer.rows}
  OBVIOUS
<1>5. CASE walk.page < pages
  <2>1. walk' = [walk EXCEPT !.pc = "store", !.page = @ + 1, !.pages = pages,
                             !.shown = shown, !.ordered = @ /\ (ordered \/ pages = 1),
                             !.answered = @ /\ answered]
    BY <1>3, <1>4, <1>5 DEF Show, HasNext
  <2> QED
    BY <1>2, <1>3, <1>4, <1>5, <2>1 DEF Walks
<1>6. CASE walk.page >= pages
  <2>1. walk' = [walk EXCEPT !.pc = "done", !.pages = pages,
                             !.shown = shown, !.ordered = @ /\ (ordered \/ pages = 1),
                             !.answered = @ /\ answered]
    <3>1. ~HasNext(walk.page, PerPage, answer.total)
      BY <1>2, <1>3, <1>6 DEF HasNext
    <3>2. walk = [walk EXCEPT !.page = @]
      BY DEF Walks
    <3> QED
      BY <1>3, <1>4, <3>1, <3>2 DEF Show
  <2> QED
    BY <1>2, <1>3, <1>4, <1>6, <2>1 DEF Walks
<1> QED
  BY <1>2, <1>3, <1>5, <1>6

\* Whenever the rows of a page come in an arbitrary order (an agent's list, a merge
\* of everything, a walk over the inbounds), a reader who has turned a page has lost
\* the order: only a list of one page can be relied on.
THEOREM OrderedStaysOnOnePage == ListsSpec => []OrderedOnOnePage
<1>1. ListsInit => OrderedOnOnePage
  BY DEF ListsInit, Closed, OrderedOnOnePage
<1>2. ListTypes /\ OrderedOnOnePage /\ [ListsNext]_listVars => OrderedOnOnePage'
  <2> SUFFICES ASSUME ListTypes, OrderedOnOnePage, [ListsNext]_listVars
               PROVE  OrderedOnOnePage'
    OBVIOUS
  <2>1. walk \in Walks /\ DataTyped
    BY DEF ListTypes
  <2>2. CASE ShowToMaster
    <3>1. PICK answer \in MasterPages(Filter, walk.page, read.services) :
             Show(answer, ~NeedsLocalMerge(Filter) /\ world.listing # "inbounds", TRUE)
      BY <2>2 DEF ShowToMaster
    <3>2. answer.total \in Nat
      BY <2>1, <3>1, ReaderParts, MasterAnswer
    <3>3. Filter' = Filter /\ Viewer' = Master /\ world' = world
      BY <2>1, <2>2, <3>1, <3>2, Shown DEF ShowToMaster, Filter, Viewer
    <3>4. SUFFICES ASSUME walk'.pc \in {"store", "panel"},
                          NeedsLocalMerge(Filter) \/ world.listing = "inbounds",
                          walk'.ordered
                   PROVE  FALSE
      BY <3>3 DEF OrderedOnOnePage
    <3>5. PICK pages \in Int :
             /\ walk'.ordered => walk.ordered /\ pages = 1
             /\ walk'.pc = "store" => walk.page < pages
             /\ walk'.pc \in {"store", "done"}
      BY <2>1, <3>1, <3>2, <3>4, Shown
    <3> QED
      BY <3>4, <3>5, ReaderParts
  <2>3. CASE ShowToAgent
    <3>1. PICK list, answered, told, heard, answer :
             /\ answer \in AgentPages(Viewer, Filter, walk.page, read.visible,
                                      answered, told, list)
             /\ Show(answer, FALSE, heard)
      BY <2>3 DEF ShowToAgent
    <3>2. answer.total \in Nat
      BY <2>1, <3>1, ReaderParts, AgentAnswer
    <3>3. PICK pages \in Int :
             /\ walk'.ordered => pages = 1
             /\ walk'.pc = "store" => walk.page < pages
             /\ walk'.pc \in {"store", "done"}
      BY <2>1, <3>1, <3>2, Shown
    <3> QED
      BY <3>3, ReaderParts DEF OrderedOnOnePage
  <2>4. CASE world' = world /\ \/ ReadServices \/ ReadVisible \/ UNCHANGED listVars
                               \/ walk' = [walk EXCEPT !.pc = "failed"]
    <3>1. /\ walk'.reader = walk.reader /\ walk'.page = walk.page
          /\ walk'.ordered = walk.ordered
          /\ walk'.pc \in {"store", "panel"} => walk.pc \in {"store", "panel"}
      BY <2>1, <2>4 DEF Walks, ReadServices, ReadVisible, listVars
    <3> QED
      BY <2>4, <3>1 DEF OrderedOnOnePage, Filter, Viewer
  <2>5. ASSUME NEW reader, walk' = [Closed EXCEPT !.pc = "store", !.reader = reader]
        PROVE  OrderedOnOnePage'
    BY <2>5 DEF Closed, OrderedOnOnePage
  <2>6. CASE /\ walk' = [walk EXCEPT !.steady = FALSE, !.fresh = FALSE]
             /\ world'.listing = world.listing
    <3>1. /\ walk'.reader = walk.reader /\ walk'.page = walk.page
          /\ walk'.ordered = walk.ordered /\ walk'.pc = walk.pc
      BY <2>1, <2>6 DEF Walks
    <3> QED
      BY <2>6, <3>1 DEF OrderedOnOnePage, Filter, Viewer
  <2> QED
    BY <2>2, <2>3, <2>4, <2>5, <2>6, OtherSteps DEF listVars
<1> QED
  BY <1>1, <1>2, ListsTyped, PTL DEF ListsSpec

\* The services of an agent in the store.
HasService(u, agent) == u \in Serviced /\ world.services[u].agent = agent

\* What an agent may look at stays while the data do.
LEMMA StillViewed ==
    ASSUME world' = world, walk'.reader = walk.reader
    PROVE  /\ Filter' = Filter /\ Viewer' = Viewer
           /\ MayView(Viewer)' = MayView(Viewer)
           /\ \A u : HasService(u, Viewer)' <=> HasService(u, Viewer)
           /\ \A u : HasStatus(u, Filter)' <=> HasStatus(u, Filter)
<1>1. Filter' = Filter /\ Viewer' = Viewer
  BY DEF Filter, Viewer
<1>2. Clients' = Clients /\ Serviced' = Serviced
  BY StillData
<1>3. MayView(Viewer)' = MayView(Viewer)
  BY <1>1, <1>2 DEF MayView
<1>4. ASSUME NEW u
      PROVE  /\ HasService(u, Viewer)' <=> HasService(u, Viewer)
             /\ HasStatus(u, Filter)' <=> HasStatus(u, Filter)
  BY <1>1, <1>2 DEF HasService, HasStatus
<1> QED
  BY <1>1, <1>3, <1>4

\* What the agent's request has read of unchanged data: the agent sees
\* nothing it may not look at, and, if the panel answered in full, all it may.
ReadAsIs(visible) ==
    \A u \in Users :
        /\ CanView(visible[u]) => u \in MayView(Viewer)
        /\ visible[u].own
              <=> HasService(u, Viewer) /\ (Viewer \in world.assigned \/ walk.reader.whole)

ReadInFull(visible) == \A u \in MayView(Viewer) : CanView(visible[u])

\* What buildAgentVisibleUsers gives for a true list.
LEMMA VisibleAsIs ==
    ASSUME DataTyped, Viewer \in Agents, walk.reader.whole \in BOOLEAN,
           NEW list, \A q \in Range(list) : TrueRow(q)
    PROVE  /\ ReadAsIs(AgentVisible(Viewer, walk.reader.whole, list))
           /\ \/ Viewer \in world.assigned => world.viewable[Viewer] = {}
              \/ \A u \in Clients : ShownOn(list, u) = world.clients[u].inbounds
              => ReadInFull(AgentVisible(Viewer, walk.reader.whole, list))
<1> DEFINE reached == Viewer \in world.assigned
<1>1. PICK visible : visible = AgentVisible(Viewer, walk.reader.whole, list)
  OBVIOUS
<1>3. DOMAIN world.granted[Viewer] = Users
  BY DEF DataTyped, PanelStates
<1>4. ASSUME NEW u \in Users
      PROVE  /\ visible[u].own <=> HasService(u, Viewer) /\ (reached \/ walk.reader.whole)
             /\ visible[u].grant # {} <=> world.granted[Viewer][u] # {}
                                          /\ (reached \/ walk.reader.whole)
             /\ visible[u].inbound <=>
                   reached /\ ShownOn(list, u) \cap world.viewable[Viewer] # {}
  <2>1. PICK own, listed :
           /\ own = {v \in Serviced : world.services[v].agent = Viewer}
           /\ listed = [v \in Users |-> ShownOn(list, v)]
    OBVIOUS
  <2>2. u \in own <=> HasService(u, Viewer)
    BY <2>1 DEF HasService
  <2>3. CASE walk.reader.whole
    <3>1. visible = VisibleEverywhere(Viewer \in world.assigned, own,
                       world.granted[Viewer], world.viewable[Viewer], listed)
      BY <1>1, <2>1, <2>3 DEF AgentVisible, ShownOn
    <3> QED
      BY <1>3, <2>1, <2>2, <2>3, <3>1 DEF VisibleEverywhere, UserOnInbound
  <2>4. CASE ~walk.reader.whole
    <3>1. visible = VisibleUsers(Viewer \in world.assigned, own,
                       world.granted[Viewer], world.viewable[Viewer], listed)
      BY <1>1, <2>1, <2>4 DEF AgentVisible, ShownOn
    <3> QED
      BY <1>3, <2>1, <2>2, <2>4, <3>1 DEF VisibleUsers, UserOnInbound
  <2> QED
    BY <2>3, <2>4
<1>5. ASSUME NEW u \in Users
      PROVE  /\ ShownOn(list, u) \subseteq world.clients[u].inbounds
             /\ ShownOn(list, u) # {} => u \in Clients
  BY TrueParts DEF ShownOn
<1>6. ASSUME NEW u \in Users
      PROVE  u \in MayView(Viewer)
             <=> \/ /\ reached \/ walk.reader.whole
                    /\ HasService(u, Viewer) \/ world.granted[Viewer][u] # {}
                 \/ /\ reached /\ u \in Clients
                    /\ world.clients[u].inbounds \cap world.viewable[Viewer] # {}
  BY DEF MayView, HasService
<1>7. ASSUME NEW u \in Users
      PROVE  CanView(visible[u]) => u \in MayView(Viewer)
  <2>1. ASSUME ShownOn(list, u) \cap world.viewable[Viewer] # {}
        PROVE  u \in Clients /\ world.clients[u].inbounds \cap world.viewable[Viewer] # {}
    BY <1>5, <2>1
  <2> QED
    BY <1>4, <1>6, <2>1 DEF CanView
<1>8. ReadAsIs(visible)
  BY <1>4, <1>7 DEF ReadAsIs
<1>9. ASSUME \/ Viewer \in world.assigned => world.viewable[Viewer] = {}
             \/ \A u \in Clients : ShownOn(list, u) = world.clients[u].inbounds
      PROVE  ReadInFull(visible)
  <2> SUFFICES ASSUME NEW u \in MayView(Viewer)
               PROVE  CanView(visible[u])
    BY DEF ReadInFull
  <2>1. u \in Users
    BY DEF MayView
  <2>2. ASSUME reached, u \in Clients,
               world.clients[u].inbounds \cap world.viewable[Viewer] # {}
        PROVE  ShownOn(list, u) \cap world.viewable[Viewer] # {}
    BY <1>9, <2>2
  <2> QED
    BY <1>4, <1>6, <2>1, <2>2 DEF CanView
<1> QED
  BY <1>1, <1>8, <1>9

\* The accounts an agent's list must have.
Due(f) ==
    {u \in MayView(Viewer) :
        /\ f.query => "name" \in Matches[u]
        /\ Viewer \in world.assigned \/ f.status = "all"
        /\ HasStatus(u, f)
        /\ u \in Serviced => \/ world.services[u].agent = Viewer
                             \/ f.status = "all"
                             \/ u \in Clients}

\* The row of such an account passes the filter.
LEMMA DueMatch ==
    ASSUME DataTyped, AgentFilter, Viewer # Master,
           NEW list, NEW answered \in BOOLEAN, NEW told \in BOOLEAN,
           Filter.status # "all" => told = TRUE,
           answered = TRUE => TrueList(list) /\ WholeList(list),
           Viewer \in world.assigned => answered = TRUE,
           NEW u, u \in Due(Filter), NEW v,
           v.own <=> HasService(u, Viewer) /\ (Viewer \in world.assigned \/ walk.reader.whole)
    PROVE  MatchesFilter(AgentRow(u, v, Viewer, answered, told, Dedupe(list)), Filter)
<1>1. PICK entry : entry = AgentRow(u, v, Viewer, answered, told, Dedupe(list))
  OBVIOUS
<1>2. entry.user = u
  BY <1>1, AgentRowUser
<1>4. Filter.query => "name" \in Matches[u]
  BY DEF Due
<1>5. \A w : FullRow(w).user = w
  BY DEF FullRow
<1>3. ASSUME Filter.status # "all"
      PROVE  entry.status = Filter.status
  <2>1. /\ Viewer \in world.assigned /\ answered = TRUE /\ told = TRUE
        /\ HasStatus(u, Filter)
    BY <1>3 DEF Due
  <2>2. Dedupe(list) = {FullRow(w) : w \in Clients}
    BY <2>1, DedupeWhole
  <2>3. PICK panel : panel = {r \in Dedupe(list) : r.user = u}
    OBVIOUS
  <2>4. v.own <=> HasService(u, Viewer)
    BY <2>1
  <2>5. CASE u \in Clients
    <3>6. FullRow(u) \in Dedupe(list)
      BY <2>2, <2>5
    <3>7. ASSUME NEW r \in Dedupe(list), r.user = u
          PROVE  r = FullRow(u)
      <4>1. PICK w \in Clients : r = FullRow(w)
        BY <2>2
      <4> QED
        BY <1>5, <3>7, <4>1
    <3>1. panel = {FullRow(u)}
      BY <1>5, <2>3, <3>6, <3>7
    <3>2. panel # {} /\ (CHOOSE q \in panel : TRUE) = FullRow(u)
      BY <3>1
    <3>3. Filter.status = FromPanel(FullRow(u)).status
      BY <1>3, <2>1, <2>5 DEF HasStatus, FromPanel, FullRow
    <3>4. CASE ~v.own
      <4>1. entry = [FromPanel(FullRow(u)) EXCEPT !.source = "panel"]
        BY <1>1, <2>1, <2>3, <3>2, <3>4 DEF AgentRow
      <4> QED
        BY <3>3, <4>1 DEF FromPanel
    <3>5. CASE v.own
      <4>1. HasService(u, Viewer)
        BY <2>4, <3>5
      <4>2. entry = MergeService(FromPanel(FullRow(u)), world.services[u])
        BY <1>1, <2>1, <2>3, <3>2, <3>5, <4>1 DEF AgentRow, HasService
      <4>3. world.services[u].status \in {Filter.status, "active"}
        BY <1>3, <2>1, <2>5, <4>1 DEF HasStatus, HasService
      <4> QED
        BY <3>3, <4>2, <4>3 DEF MergeService, FromPanel
    <3> QED
      BY <3>4, <3>5
  <2>6. CASE u \notin Clients
    <3>5. ASSUME NEW r \in Dedupe(list)
          PROVE  r.user # u
      <4>1. PICK w \in Clients : r = FullRow(w)
        BY <2>2
      <4> QED
        BY <1>5, <2>6, <4>1
    <3>1. panel = {}
      BY <2>3, <3>5
    <3>2. HasService(u, Viewer)
      BY <1>3, <2>1, <2>6 DEF HasStatus, HasService, Due
    <3>3. entry = FromService(u, world.services[u])
      BY <1>1, <2>1, <2>3, <2>4, <3>1, <3>2 DEF AgentRow, HasService
    <3>4. world.services[u].status = Filter.status
      BY <1>3, <2>1, <2>6, <3>2 DEF HasStatus, HasService
    <3> QED
      BY <3>3, <3>4 DEF FromService
  <2> QED
    BY <2>5, <2>6
<1> QED
  BY <1>1, <1>2, <1>3, <1>4 DEF MatchesFilter, AgentFilter

\* What an agent was shown of unchanged data, and what the request has read.
AgentWalk ==
    Viewer # Master /\ walk.steady /\ walk.pc \in {"store", "panel", "done"}
    => /\ walk.shown \subseteq MayView(Viewer)
       /\ walk.pc = "panel" => /\ ReadAsIs(read.visible)
                               /\ walk.answered /\ NotCut => ReadInFull(read.visible)

\* A step of the reader leaves who is due as it was.
LEMMA StillDue ==
    ASSUME world' = world, walk'.reader = walk.reader
    PROVE  Due(Filter)' = Due(Filter)
<1>1. /\ Viewer' = Viewer /\ Filter' = Filter /\ MayView(Viewer)' = MayView(Viewer)
      /\ \A u : HasStatus(u, Filter)' <=> HasStatus(u, Filter)
      /\ Clients' = Clients /\ Serviced' = Serviced
  BY StillViewed, StillData
<1>2. ASSUME NEW u
      PROVE  u \in Due(Filter)' <=> u \in Due(Filter)
  BY <1>1 DEF Due
<1> QED
  BY <1>2

\* The request of an agent reads what the agent may look at.
LEMMA AgentReads ==
    ASSUME ListTypes, ReadVisible, AgentWalk
    PROVE  AgentWalk' /\ AgentSeesOwn'
<1>1. walk \in Walks /\ read \in Reads /\ DataTyped
  BY DEF ListTypes
<1>2. /\ walk.pc = "store" /\ Viewer # Master /\ Viewer \in Agents
      /\ walk.reader.whole \in BOOLEAN /\ world' = world
  BY <1>1 DEF ReadVisible, Walks, Viewer
<1> DEFINE asks == Viewer \in world.assigned /\ world.viewable[Viewer] # {}
<1>3. PICK answered \in {TRUE, ~asks}, list \in ListUsers :
         /\ read' = [read EXCEPT !.visible =
                        AgentVisible(Viewer, walk.reader.whole,
                                     IF asks /\ answered THEN list ELSE <<>>)]
         /\ walk' = [walk EXCEPT !.pc = "panel", !.fresh = TRUE,
                                 !.answered = @ /\ answered]
  BY DEF ReadVisible
<1>4. PICK got : got = IF asks /\ answered THEN list ELSE <<>>
  OBVIOUS
<1>5. PICK visible : visible = AgentVisible(Viewer, walk.reader.whole, got)
  OBVIOUS
<1>6. /\ walk'.reader = walk.reader /\ walk'.steady = walk.steady
      /\ walk'.shown = walk.shown /\ walk'.pc = "panel"
      /\ walk'.answered <=> walk.answered /\ answered
      /\ read'.visible = visible
  BY <1>1, <1>3, <1>4, <1>5 DEF Walks, Reads
<1>7. TrueList(list) /\ (NotCut => WholeList(list))
  BY <1>1, ListsAreTrue
<1>8. \A q \in Range(got) : TrueRow(q)
  <2>1. CASE asks /\ answered
    BY <1>4, <1>7, <2>1 DEF TrueList, Range
  <2>2. CASE ~(asks /\ answered)
    BY <1>4, <2>2 DEF Range
  <2> QED
    BY <2>1, <2>2
<1>9. ReadAsIs(visible)
  BY <1>1, <1>2, <1>5, <1>8, VisibleAsIs
<1>10. ASSUME answered, NotCut
       PROVE  ReadInFull(visible)
  <2>1. CASE asks
    <3>1. \A u \in Clients : ShownOn(got, u) = world.clients[u].inbounds
      BY <1>4, <1>7, <1>10, <2>1 DEF WholeList
    <3> QED
      BY <1>1, <1>2, <1>5, <1>8, <3>1, VisibleAsIs
  <2>2. CASE ~asks
    <3>1. Viewer \in world.assigned => world.viewable[Viewer] = {}
      BY <2>2
    <3> QED
      BY <1>1, <1>2, <1>5, <1>8, <3>1, VisibleAsIs
  <2> QED
    BY <2>1, <2>2
<1>11. /\ Viewer' = Viewer /\ MayView(Viewer)' = MayView(Viewer)
       /\ \A u : HasService(u, Viewer)' <=> HasService(u, Viewer)
       /\ NotCut' <=> NotCut
  BY <1>2, <1>6, StillViewed, StillData
<1>12. ReadAsIs(read.visible)'
  BY <1>2, <1>6, <1>9, <1>11 DEF ReadAsIs
<1>13. walk'.answered /\ NotCut' => ReadInFull(read.visible)'
  BY <1>6, <1>10, <1>11 DEF ReadInFull
<1>14. AgentWalk'
  BY <1>2, <1>6, <1>11, <1>12, <1>13 DEF AgentWalk
<1> QED
  BY <1>6, <1>14 DEF AgentSeesOwn

\* A page shown to an agent has what the agent may look at, and a single page
\* all of it that the filter describes.
LEMMA AgentShown ==
    ASSUME ListTypes, ShowToAgent, AgentWalk, OrderedOnOnePage
    PROVE  AgentWalk' /\ AgentSeesOwn'
<1>1. walk \in Walks /\ DataTyped /\ AgentFilter
  BY DEF ListTypes
<1>2. walk.pc = "panel" /\ Viewer # Master /\ world' = world
  BY DEF ShowToAgent
<1> DEFINE asks == Viewer \in world.assigned
<1>3. PICK answered \in {FALSE, asks}, told \in BOOLEAN, list \in ListUsers :
      \E answer \in AgentPages(Viewer, Filter, walk.page, read.visible,
                               answered, told, IF answered THEN list ELSE <<>>) :
         Show(answer, FALSE, (answered \/ ~asks) /\ told)
  BY DEF ShowToAgent
<1>4. PICK got : got = IF answered THEN list ELSE <<>>
  OBVIOUS
<1>5. PICK answer \in AgentPages(Viewer, Filter, walk.page, read.visible,
                                 answered, told, got) :
         Show(answer, FALSE, (answered \/ ~asks) /\ told)
  BY <1>3, <1>4
<1>6. PICK seen : seen = {u \in Users : CanView(read.visible[u])}
  OBVIOUS
<1>7. /\ answer.total \in Nat
      /\ \A r \in answer.rows : r.user \in seen
      /\ walk.page = 1 /\ TotalPages(answer.total, PerPage) = 1
         => \A u \in seen :
               MatchesFilter(AgentRow(u, read.visible[u], Viewer, answered, told,
                                      Dedupe(got)), Filter)
               => AgentRow(u, read.visible[u], Viewer, answered, told, Dedupe(got))
                     \in answer.rows
  BY <1>1, <1>6, ReaderParts, AgentAnswer
<1>8. PICK pages \in Int :
         /\ pages = TotalPages(answer.total, PerPage)
         /\ walk'.reader = walk.reader /\ walk'.steady = walk.steady
         /\ walk'.shown = walk.shown \cup {entry.user : entry \in answer.rows}
         /\ walk'.ordered => walk.ordered /\ pages = 1
         /\ walk'.answered => walk.answered /\ (answered \/ ~asks) /\ told
         /\ walk'.pc \in {"store", "done"}
  BY <1>1, <1>5, <1>7, Shown
<1>9. /\ Viewer' = Viewer /\ Filter' = Filter /\ MayView(Viewer)' = MayView(Viewer)
      /\ \A u : HasService(u, Viewer)' <=> HasService(u, Viewer)
      /\ \A u : HasStatus(u, Filter)' <=> HasStatus(u, Filter)
      /\ Clients' = Clients /\ Serviced' = Serviced /\ (NotCut' <=> NotCut)
  BY <1>2, <1>8, StillViewed, StillData
<1>10. ASSUME walk.steady
       PROVE  /\ walk'.shown \subseteq MayView(Viewer)
              /\ ReadAsIs(read.visible)
              /\ walk.answered /\ NotCut => ReadInFull(read.visible)
  <2>1. /\ walk.shown \subseteq MayView(Viewer)
        /\ ReadAsIs(read.visible)
        /\ walk.answered /\ NotCut => ReadInFull(read.visible)
    BY <1>2, <1>10 DEF AgentWalk
  <2>2. seen \subseteq MayView(Viewer)
    BY <1>6, <2>1 DEF ReadAsIs
  <2> QED
    BY <1>7, <1>8, <2>1, <2>2
<1>11. AgentWalk'
  BY <1>8, <1>9, <1>10 DEF AgentWalk
<1>12. ASSUME walk.steady, walk'.ordered, walk'.answered, NotCut
       PROVE  Due(Filter) \subseteq walk'.shown
  <2> SUFFICES ASSUME NEW u, u \in Due(Filter)
               PROVE  u \in walk'.shown
    OBVIOUS
  <2>1. u \in MayView(Viewer) /\ u \in Users
    BY DEF Due, MayView
  <2>2. u \in seen
    BY <1>6, <1>8, <1>10, <1>12, <2>1 DEF ReadInFull
  <2>3. PICK v : v = read.visible[u]
    OBVIOUS
  <2>4. v.own <=> /\ HasService(u, Viewer)
                  /\ Viewer \in world.assigned \/ walk.reader.whole
    BY <1>10, <1>12, <2>1, <2>3 DEF ReadAsIs
  <2>12. asks \in BOOLEAN
    OBVIOUS
  <2>5. PICK heard \in BOOLEAN : heard = answered
    BY <1>3, <2>12
  <2>6. heard = TRUE => TrueList(got) /\ WholeList(got)
    BY <1>1, <1>3, <1>4, <1>12, <2>5, ListsAreTrue
  <2>7. /\ Viewer \in world.assigned => heard = TRUE
        /\ told
    BY <1>8, <1>12, <2>5
  <2>8. MatchesFilter(AgentRow(u, v, Viewer, heard, told, Dedupe(got)), Filter)
    BY <1>1, <1>2, <2>4, <2>6, <2>7, DueMatch
  <2>9. walk.page = 1 /\ pages = 1
    BY <1>2, <1>8, <1>12 DEF OrderedOnOnePage
  <2>10. AgentRow(u, v, Viewer, heard, told, Dedupe(got)) \in answer.rows
    BY <1>7, <1>8, <2>2, <2>3, <2>5, <2>8, <2>9
  <2>11. AgentRow(u, v, Viewer, heard, told, Dedupe(got)).user = u
    BY AgentRowUser
  <2> QED
    BY <1>8, <2>10, <2>11
<1>13. Due(Filter)' = Due(Filter)
  BY <1>2, <1>8, StillDue
<1>14. AgentSeesOwn'
  <2>1. SUFFICES ASSUME walk'.steady
                 PROVE  /\ walk'.shown \subseteq MayView(Viewer)'
                        /\ walk'.ordered /\ walk'.answered /\ NotCut'
                           => Due(Filter)' \subseteq walk'.shown
    BY DEF AgentSeesOwn, Due
  <2>2. walk.steady
    BY <1>8, <2>1
  <2>3. walk'.shown \subseteq MayView(Viewer)'
    BY <1>9, <1>10, <2>2
  <2>4. ASSUME walk'.ordered, walk'.answered, NotCut'
        PROVE  Due(Filter)' \subseteq walk'.shown
    <3>1. NotCut
      BY <1>9, <2>4
    <3>2. Due(Filter) \subseteq walk'.shown
      BY <1>12, <2>2, <2>4, <3>1
    <3> QED
      BY <1>13, <3>2
  <2> QED
    BY <2>3, <2>4
<1> QED
  BY <1>11, <1>14

\* An agent who opens a list of unchanged data is shown no account it may not
\* look at, and, when panel and store answered and one page held them, all it
\* may (buildAgentVisibleUsers, loadAgentCustomerEnrich,
\* listAgentPanelAccounts).
THEOREM AgentsSeeTheirOwn == ListsSpec => []AgentSeesOwn
<1> DEFINE Inv == AgentSeesOwn /\ AgentWalk
<1>1. ListsInit => Inv
  BY DEF ListsInit, Closed, AgentSeesOwn, AgentWalk
<1>2. ListTypes /\ OrderedOnOnePage /\ Inv /\ [ListsNext]_listVars => Inv'
  <2> SUFFICES ASSUME ListTypes, OrderedOnOnePage, Inv, [ListsNext]_listVars
               PROVE  Inv'
    OBVIOUS
  <2>1. walk \in Walks
    BY DEF ListTypes
  <2>2. CASE ShowToMaster
    <3>1. Viewer = Master /\ walk'.reader = walk.reader
      BY <2>1, <2>2 DEF ShowToMaster, Show, Walks
    <3> QED
      BY <3>1 DEF AgentSeesOwn, AgentWalk, Viewer
  <2>3. CASE ShowToAgent
    BY <2>3, AgentShown
  <2>4. ASSUME NEW reader, walk' = [Closed EXCEPT !.pc = "store", !.reader = reader]
        PROVE  Inv'
    <3>1. walk'.pc = "store" /\ walk'.shown = {}
      BY <2>4 DEF Closed
    <3> QED
      BY <3>1 DEF AgentSeesOwn, AgentWalk
  <2>5. CASE ReadServices
    <3>1. Viewer = Master /\ walk'.reader = walk.reader
      BY <2>1, <2>5 DEF ReadServices, Walks
    <3> QED
      BY <3>1 DEF AgentSeesOwn, AgentWalk, Viewer
  <2>6. CASE ReadVisible
    BY <2>6, AgentReads
  <2>7. CASE walk' = [walk EXCEPT !.pc = "failed"]
    <3>1. walk'.pc = "failed"
      BY <2>1, <2>7 DEF Walks
    <3> QED
      BY <3>1 DEF AgentSeesOwn, AgentWalk
  <2>8. CASE walk' = [walk EXCEPT !.steady = FALSE, !.fresh = FALSE]
    <3>1. walk'.steady = FALSE
      BY <2>1, <2>8 DEF Walks
    <3> QED
      BY <3>1 DEF AgentSeesOwn, AgentWalk
  <2>9. CASE UNCHANGED listVars
    <3>1. world' = world /\ walk' = walk /\ read' = read
      BY <2>9 DEF listVars
    <3>2. /\ Filter' = Filter /\ Viewer' = Viewer /\ MayView(Viewer)' = MayView(Viewer)
          /\ \A u : HasService(u, Viewer)' <=> HasService(u, Viewer)
          /\ \A u : HasStatus(u, Filter)' <=> HasStatus(u, Filter)
          /\ Clients' = Clients /\ Serviced' = Serviced /\ (NotCut' <=> NotCut)
      BY <3>1, StillViewed, StillData
    <3>3. ReadAsIs(read.visible)' <=> ReadAsIs(read.visible)
      BY <3>1, <3>2 DEF ReadAsIs
    <3>4. ReadInFull(read.visible)' <=> ReadInFull(read.visible)
      BY <3>1, <3>2 DEF ReadInFull
    <3>5. AgentWalk'
      <4>1. SUFFICES ASSUME Viewer # Master, walk.steady,
                            walk.pc \in {"store", "panel", "done"}
                     PROVE  /\ walk.shown \subseteq MayView(Viewer)'
                            /\ walk.pc = "panel" =>
                                  /\ ReadAsIs(read.visible)'
                                  /\ walk.answered /\ NotCut' => ReadInFull(read.visible)'
        BY <3>1, <3>2 DEF AgentWalk
      <4> QED
        BY <3>2, <3>3, <3>4, <4>1 DEF AgentWalk
    <3>6. Due(Filter)' = Due(Filter)
      BY <3>1, StillDue
    <3>7. AgentSeesOwn'
      <4>1. SUFFICES ASSUME walk.pc = "done", Viewer # Master, walk.steady
                     PROVE  /\ walk.shown \subseteq MayView(Viewer)'
                            /\ walk.ordered /\ walk.answered /\ NotCut'
                               => Due(Filter)' \subseteq walk.shown
        BY <3>1, <3>2 DEF AgentSeesOwn, Due
      <4>2. /\ walk.shown \subseteq MayView(Viewer)
            /\ walk.ordered /\ walk.answered /\ NotCut => Due(Filter) \subseteq walk.shown
        BY <4>1 DEF AgentSeesOwn, Due
      <4> QED
        BY <3>2, <3>6, <4>2
    <3> QED
      BY <3>5, <3>7
  <2> QED
    BY <2>2, <2>3, <2>4, <2>5, <2>6, <2>7, <2>8, <2>9, OtherSteps
<1> QED
  BY <1>1, <1>2, ListsTyped, OrderedStaysOnOnePage, PTL DEF ListsSpec

-----------------------------------------------------------------------------
(* Lists of panel accounts: nothing is missed.                             *)

\* A described account's row passes the filter, whatever row it is.
LEMMA DescribedMatch ==
    ASSUME DataTyped, NEW f \in Filters, f.source # "hodhod",
           NEW u, u \in Described(f)
    PROVE  /\ \A r : /\ TrueRow(r) /\ r.user = u
                     /\ f.inbound = NoInbound \/ r = FullRow(u)
                     => MatchesFilter(MergedRow(r, world.services, f), f)
           /\ u \notin Clients => /\ u \in InScope(world.services, f)
                                  /\ MatchesFilter(HodhodRow(u, world.services), f)
           /\ \A r : TrueRow(r) /\ r.user = u => PanelKeeps(r, f)
<1> DEFINE scoped == u \in InScope(world.services, f)
<1>1. /\ u \in Clients \/ scoped
      /\ f.query => "name" \in Matches[u]
      /\ HasStatus(u, f)
      /\ f.inbound # NoInbound => u \in Clients /\ f.inbound \in world.clients[u].inbounds
      /\ f.source = "panel" => u \in Clients /\ ~scoped
      /\ f.source = "both" => u \in Clients /\ scoped
  BY DEF Described
<1>2. scoped => u \in Serviced
  BY ScopeServed
<1>3. /\ f.status \in {"all", "active", "disabled", "expired"}
      /\ f.source \in {"", "panel", "both"}
  BY DEF Filters
<1>4. ASSUME NEW r, TrueRow(r), r.user = u
      PROVE  /\ PanelKeeps(r, f)
             /\ f.inbound = NoInbound \/ r = FullRow(u)
                => MatchesFilter(MergedRow(r, world.services, f), f)
  <2>1. /\ u \in Clients /\ r.enabled = world.clients[u].enabled
        /\ r.past = world.clients[u].past
    BY <1>4, TrueParts
  <2>2. f.status # "all" =>
           /\ f.status = IF ~r.enabled THEN "disabled"
                         ELSE IF r.past THEN "expired" ELSE "active"
           /\ scoped => world.services[u].status \in {f.status, "active"}
    BY <1>1, <1>2, <2>1 DEF HasStatus
  <2>3. PanelKeeps(r, f)
    BY <1>1, <1>3, <1>4, <2>2 DEF PanelKeeps
  <2>4. ASSUME f.inbound = NoInbound \/ r = FullRow(u)
        PROVE  MatchesFilter(MergedRow(r, world.services, f), f)
    <3>1. PICK entry : entry = MergedRow(r, world.services, f)
      OBVIOUS
    <3>2. /\ entry.user = u /\ entry.inbounds = r.inbounds
          /\ entry.source = IF scoped THEN "both" ELSE "panel"
          /\ entry.status = IF scoped /\ world.services[u].status # "active"
                          THEN world.services[u].status
                          ELSE IF ~r.enabled THEN "disabled"
                          ELSE IF r.past THEN "expired" ELSE "active"
      BY <1>4, <3>1, MergedFields
    <3>3. f.inbound # NoInbound => f.inbound \in entry.inbounds
      BY <1>1, <2>4, <3>2 DEF FullRow
    <3>4. f.status # "all" => entry.status = f.status
      BY <2>2, <3>2
    <3> QED
      BY <1>1, <1>3, <3>1, <3>2, <3>3, <3>4 DEF MatchesFilter
  <2> QED
    BY <2>3, <2>4
<1>5. ASSUME u \notin Clients
      PROVE  scoped /\ MatchesFilter(HodhodRow(u, world.services), f)
  <2>1. scoped /\ u \in Serviced /\ f.source = "" /\ f.inbound = NoInbound
    BY <1>1, <1>2, <1>3, <1>5
  <2>2. f.status # "all" => world.services[u].status = f.status
    BY <1>1, <1>5, <2>1 DEF HasStatus
  <2>3. PICK entry : entry = HodhodRow(u, world.services)
    OBVIOUS
  <2>4. entry.user = u /\ entry.status = world.services[u].status
    BY <2>3, HodhodFields
  <2>5. MatchesFilter(entry, f)
    BY <1>1, <2>1, <2>2, <2>4 DEF MatchesFilter
  <2> QED
    BY <2>1, <2>3, <2>5
<1> QED
  BY <1>4, <1>5

\* A single page of everything merged has every described account.
LEMMA LocalFinds ==
    ASSUME DataTyped, NotCut, NEW f \in Filters, f.source # "hodhod",
           NEW answer \in LocalPages(f, 1, world.services),
           TotalPages(answer.total, PerPage) = 1
    PROVE  Described(f) \subseteq {entry.user : entry \in answer.rows}
<1>1. PICK list \in ListUsers :
         answer.rows = Merged(list, world.services, f, InScope(world.services, f))
  <2>1. 1 \in Nat \ {0}
    OBVIOUS
  <2> QED
    BY <2>1, LocalAnswer
<1>2. TrueList(list) /\ WholeList(list)
  BY ListsAreTrue
<1>3. Names(list) = Clients /\ Dedupe(list) = {FullRow(u) : u \in Clients}
  BY <1>2, DedupeWhole
<1> SUFFICES ASSUME NEW u, u \in Described(f)
             PROVE  \E entry \in answer.rows : entry.user = u
  OBVIOUS
<1>4. CASE u \in Clients
  <2>1. FullRow(u) \in Dedupe(list) /\ FullRow(u).user = u
    BY <1>3, <1>4 DEF FullRow
  <2>2. TrueRow(FullRow(u))
    BY <1>2, <2>1, DedupeTrue
  <2>3. MatchesFilter(MergedRow(FullRow(u), world.services, f), f)
    BY <2>1, <2>2, DescribedMatch
  <2>4. MergedRow(FullRow(u), world.services, f) \in answer.rows
    BY <1>1, <2>1, <2>3, MergedRows
  <2> QED
    BY <2>1, <2>4, MergedFields
<1>5. CASE u \notin Clients
  <2>1. /\ u \in InScope(world.services, f) \ Names(list)
        /\ MatchesFilter(HodhodRow(u, world.services), f)
    BY <1>3, <1>5, DescribedMatch
  <2>2. HodhodRow(u, world.services) \in answer.rows
    BY <1>1, <2>1, MergedRows
  <2> QED
    BY <2>2, HodhodFields
<1> QED
  BY <1>4, <1>5

\* Where a page of the panel ends is where the next one starts.
LEMMA NextOffset ==
    ASSUME NEW page \in Nat \ {0}, NEW p \in Nat \ {0}
    PROVE  /\ Offset(page, p) \in Nat /\ Offset(1, p) = 0
           /\ Offset(page + 1, p) = Offset(page, p) + p
           /\ page * p = Offset(page, p) + p
<1>1. PICK n \in Nat : page = n + 1
  OBVIOUS
<1>2. Offset(page, p) = n * p /\ Offset(page + 1, p) = page * p
  <2>1. page >= 1 /\ page - 1 = n /\ (page + 1) - 1 = page
    BY <1>1
  <2> QED
    BY <2>1 DEF Offset
<1>3. n * p \in Nat /\ page * p = n * p + p /\ 0 * p = 0
  BY <1>1, Multiples
<1>4. Offset(1, p) = 0
  BY <1>3 DEF Offset
<1> QED
  BY <1>2, <1>3, <1>4

\* A page of the panel has the described accounts whose rows fall on it, the
\* first one also those the panel does not have.
PanelShows(list, f, page, answer) ==
    LET kept == Passing(list, f)
    IN  /\ \A k \in DOMAIN kept :
              /\ Rank(kept, k) \in Nat \ {0}
              /\ /\ kept[k].user \in Described(f)
                 /\ OnPage(Rank(kept, k), page, PerPage)
                 => \E entry \in answer.rows : entry.user = kept[k].user
              /\ page >= TotalPages(answer.total, PerPage)
                 => Rank(kept, k) <= Offset(page, PerPage) + PerPage
        /\ page = 1 => \A u \in Described(f) \ Clients :
                          \E entry \in answer.rows : entry.user = u
        /\ \A u \in Described(f) \cap Clients :
              \E k \in DOMAIN kept : kept[k].user = u

\* The page the panel cut shows what it should of the list it was cut from.
LEMMA PanelFinds ==
    ASSUME DataTyped, NotCut, NEW f \in Filters, ~NeedsLocalMerge(f),
           NEW page \in Nat \ {0},
           NEW answer \in PanelPages(f, page, world.services)
    PROVE  \E list \in ListUsers : PanelShows(list, f, page, answer)
<1>1. f.source = "" /\ f.inbound = NoInbound
  BY DEF NeedsLocalMerge
<1>0. PICK list, kept, part, wanted, n :
         PanelCut(list, kept, part, wanted, n, f, page, world.services, answer)
  BY PanelAnswer
<1>2. /\ list \in ListUsers
      /\ kept = Passing(list, f) /\ part = PageOf(kept, page, PerPage)
      /\ wanted = IF page = 1 THEN InScope(world.services, f) ELSE {}
      /\ n = Cardinality(DOMAIN kept)
      /\ IsList(kept) /\ TrueList(part)
      /\ \A k : k \in DOMAIN kept
                <=> k \in DOMAIN list /\ PanelKeeps(list[k], f)
      /\ \A k \in DOMAIN kept : kept[k] = list[k]
      /\ answer.rows = Merged(part, world.services, f, wanted)
      /\ answer.total \in Nat /\ n \in Nat
      /\ n # 0 => answer.total = n
  BY <1>0 DEF PanelCut
<1>3. TrueList(list) /\ WholeList(list)
  BY <1>2, ListsAreTrue
<1>4. ASSUME NEW k \in DOMAIN kept
      PROVE  Rank(kept, k) \in 1..n
  BY <1>2, RankBounds
<1>5. ASSUME NEW k \in DOMAIN kept, kept[k].user \in Described(f),
             OnPage(Rank(kept, k), page, PerPage)
      PROVE  \E entry \in answer.rows : entry.user = kept[k].user
  <2>1. k \in DOMAIN part /\ part[k] = kept[k]
    BY <1>2, <1>5, PageRows
  <2>2. PICK u : u = kept[k].user
    OBVIOUS
  <2>3. u \in Names(part)
    BY <2>1, <2>2 DEF Names, Range
  <2>4. PICK r \in Dedupe(part) : r.user = u /\ TrueRow(r)
    BY <1>2, <2>3, DedupeTrue
  <2>5. MatchesFilter(MergedRow(r, world.services, f), f)
    BY <1>1, <1>5, <2>2, <2>4, DescribedMatch
  <2>6. MergedRow(r, world.services, f) \in answer.rows
    BY <1>2, <2>4, <2>5, MergedRows
  <2> QED
    BY <2>2, <2>4, <2>6, MergedFields
<1>6. ASSUME NEW k \in DOMAIN kept, page >= TotalPages(answer.total, PerPage)
      PROVE  Rank(kept, k) <= Offset(page, PerPage) + PerPage
  <2>1. n # 0
    BY <1>2, <1>4
  <2>2. page >= TotalPages(n, PerPage)
    BY <1>2, <1>6, <2>1
  <2>3. Rank(kept, k) <= page * PerPage
    BY <1>2, <1>4, <2>2, LastPage, PagesArePositive
  <2> QED
    BY <2>3, NextOffset, PagesArePositive
<1>7. ASSUME page = 1, NEW u, u \in Described(f), u \notin Clients
      PROVE  \E entry \in answer.rows : entry.user = u
  <2>1. /\ u \in InScope(world.services, f)
        /\ MatchesFilter(HodhodRow(u, world.services), f)
    BY <1>1, <1>7, DescribedMatch
  <2>2. u \in wanted \ Names(part)
    BY <1>2, <1>7, <2>1, DedupeTrue
  <2>3. HodhodRow(u, world.services) \in answer.rows
    BY <1>2, <2>1, <2>2, MergedRows
  <2> QED
    BY <2>3, HodhodFields
<1>8. ASSUME NEW u, u \in Described(f), u \in Clients
      PROVE  \E k \in DOMAIN kept : kept[k].user = u
  <2>1. PICK k \in DOMAIN list : list[k].user = u
    BY <1>3, <1>8 DEF WholeList
  <2>2. PanelKeeps(list[k], f)
    <3>1. TrueRow(list[k])
      BY <1>3, <2>1 DEF TrueList
    <3> QED
      BY <1>1, <1>8, <2>1, <3>1, DescribedMatch
  <2> QED
    BY <1>2, <2>1, <2>2
<1>9. \A k \in DOMAIN kept : Rank(kept, k) \in Nat \ {0}
  BY <1>2, <1>4
<1>10. PanelShows(list, f, page, answer)
  BY <1>2, <1>5, <1>6, <1>7, <1>8, <1>9 DEF PanelShows
<1> QED
  BY <1>2, <1>10

\* What the master has seen when the pages before this one were turned: the
\* described accounts with a row on them, and those that the panel has not.
Turned(page, shown) ==
    LET kept == Passing(PanelRows, Filter)
    IN  /\ \A k \in DOMAIN kept :
              /\ kept[k].user \in Described(Filter)
              /\ Rank(kept, k) <= Offset(page, PerPage)
              => kept[k].user \in shown
        /\ page > 1 => Described(Filter) \ Clients \subseteq shown

\* The panel's own order stays from page to page.
PanelOrders == ~NeedsLocalMerge(Filter) /\ world.listing # "inbounds"

\* A master who turns the pages of unchanged data in an order that stays, and
\* for whom the store answered.
Following ==
    /\ Viewer = Master /\ Filter.source # "hodhod"
    /\ walk.steady /\ walk.ordered /\ walk.answered /\ NotCut

MasterWalk ==
    Following
    => /\ walk.pc = "panel" => read.services = world.services
       /\ walk.pc \in {"store", "panel"} /\ PanelOrders => Turned(walk.page, walk.shown)
       /\ walk.pc = "done" => Described(Filter) \subseteq walk.shown

\* What is described stays described while the data stay.
LEMMA StillDescribed ==
    ASSUME world' = world, walk'.reader = walk.reader
    PROVE  /\ Filter' = Filter /\ Viewer' = Viewer
           /\ Described(Filter)' = Described(Filter)
           /\ PanelOrders' <=> PanelOrders
           /\ Clients' = Clients /\ PanelRows' = PanelRows
           /\ NotCut' <=> NotCut
<1>1. /\ Filter' = Filter /\ Viewer' = Viewer
      /\ \A u : HasStatus(u, Filter)' <=> HasStatus(u, Filter)
      /\ Clients' = Clients /\ PanelRows' = PanelRows
      /\ NotCut' <=> NotCut
  BY StillViewed, StillData
<1>2. InScope(world.services, Filter)' = InScope(world.services, Filter)
  BY <1>1
<1>3. ASSUME NEW u
      PROVE  u \in Described(Filter)' <=> u \in Described(Filter)
  BY <1>1, <1>2 DEF Described
<1>4. PanelOrders' <=> PanelOrders
  BY <1>1 DEF PanelOrders
<1> QED
  BY <1>1, <1>3, <1>4

\* The master's page leaves nothing out.
LEMMA MasterShown ==
    ASSUME ListTypes, ShowToMaster, MasterWalk, OrderedOnOnePage
    PROVE  MasterWalk'
<1>1. walk \in Walks /\ DataTyped /\ Filter \in Filters /\ walk.page \in Nat \ {0}
  BY ReaderParts DEF ListTypes
<1>2. walk.pc = "panel" /\ Viewer = Master /\ world' = world
  BY DEF ShowToMaster
<1>3. PICK answer \in MasterPages(Filter, walk.page, read.services) :
         Show(answer, ~NeedsLocalMerge(Filter) /\ world.listing # "inbounds", TRUE)
  BY DEF ShowToMaster
<1>4. answer.total \in Nat
  BY <1>1, MasterAnswer
<1>5. PICK pages, found :
         /\ pages \in Int /\ pages = TotalPages(answer.total, PerPage)
         /\ found = {entry.user : entry \in answer.rows}
         /\ walk'.reader = walk.reader /\ walk'.steady = walk.steady
         /\ walk'.shown = walk.shown \cup found
         /\ walk'.ordered => walk.ordered /\ (PanelOrders \/ pages = 1)
         /\ walk'.answered => walk.answered
         /\ \/ /\ walk.page < pages
               /\ walk'.pc = "store" /\ walk'.page = walk.page + 1
            \/ /\ walk.page >= pages
               /\ walk'.pc = "done" /\ walk'.page = walk.page
  BY <1>1, <1>3, <1>4, Shown DEF PanelOrders
<1>6. /\ Filter' = Filter /\ Viewer' = Viewer
      /\ Described(Filter)' = Described(Filter)
      /\ PanelOrders' <=> PanelOrders
      /\ Clients' = Clients /\ PanelRows' = PanelRows
      /\ NotCut' <=> NotCut
  BY <1>2, <1>5, StillDescribed
<1> SUFFICES ASSUME Following, walk'.ordered
             PROVE  /\ walk'.pc = "store" /\ PanelOrders => Turned(walk'.page, walk'.shown)
                    /\ walk'.pc = "done" => Described(Filter) \subseteq walk'.shown
  BY <1>5, <1>6 DEF MasterWalk, Following, Turned
<1>7. NotCut /\ Filter.source # "hodhod" /\ read.services = world.services
  BY <1>2 DEF MasterWalk, Following
<1>8. ~PanelOrders => walk.page = 1 /\ pages = 1 /\ walk'.pc = "done"
  BY <1>1, <1>2, <1>5 DEF OrderedOnOnePage, Following, PanelOrders
<1>9. CASE NeedsLocalMerge(Filter)
  <2>1. walk.page = 1 /\ pages = 1 /\ walk'.pc = "done"
    BY <1>8, <1>9 DEF PanelOrders
  <2>2. answer \in LocalPages(Filter, 1, world.services)
    BY <1>7, <1>9, <2>1 DEF MasterPages
  <2>3. Described(Filter) \subseteq found
    BY <1>1, <1>5, <1>7, <2>1, <2>2, LocalFinds
  <2> QED
    BY <1>5, <2>1, <2>3
<1>10. CASE ~NeedsLocalMerge(Filter)
  <2>1. answer \in PanelPages(Filter, walk.page, world.services)
    BY <1>7, <1>10 DEF MasterPages
  <2>9. PICK list \in ListUsers : PanelShows(list, Filter, walk.page, answer)
    BY <1>1, <1>7, <1>10, <2>1, PanelFinds
  <2>2. PICK kept :
           /\ kept = Passing(list, Filter)
           /\ \A k \in DOMAIN kept :
                 /\ Rank(kept, k) \in Nat \ {0}
                 /\ /\ kept[k].user \in Described(Filter)
                    /\ OnPage(Rank(kept, k), walk.page, PerPage)
                    => \E entry \in answer.rows : entry.user = kept[k].user
                 /\ walk.page >= TotalPages(answer.total, PerPage)
                    => Rank(kept, k) <= Offset(walk.page, PerPage) + PerPage
           /\ walk.page = 1 => \A u \in Described(Filter) \ Clients :
                                  \E entry \in answer.rows : entry.user = u
           /\ \A u \in Described(Filter) \cap Clients :
                 \E k \in DOMAIN kept : kept[k].user = u
    BY <2>9 DEF PanelShows
  <2>3. PICK before \in Nat :
           /\ before = Offset(walk.page, PerPage)
           /\ Offset(walk.page + 1, PerPage) = before + PerPage
           /\ walk.page = 1 => before = 0
    BY <1>1, PagesArePositive, NextOffset
  <2>4. PanelOrders => list = PanelRows /\ Turned(walk.page, walk.shown)
    <3>1. PanelOrders => list = PanelRows
      BY <1>1, <1>7, <2>2, ListsAreTrue, DataParts DEF PanelOrders, Listings
    <3> QED
      BY <1>2, <3>1 DEF MasterWalk
  <2>5. ASSUME NEW k \in DOMAIN kept, kept[k].user \in Described(Filter),
               Rank(kept, k) <= before + PerPage
        PROVE  kept[k].user \in walk'.shown
    <3>1. CASE Rank(kept, k) > before
      <4>1. OnPage(Rank(kept, k), walk.page, PerPage)
        BY <2>3, <2>5, <3>1 DEF OnPage
      <4> QED
        BY <1>5, <2>2, <2>5, <4>1
    <3>2. CASE ~(Rank(kept, k) > before)
      <4>1. Rank(kept, k) <= before /\ before # 0
        BY <2>2, <2>3, <3>2
      <4>2. PanelOrders
        BY <1>8, <2>3, <4>1
      <4>3. kept[k].user \in walk.shown
        BY <2>2, <2>3, <2>4, <2>5, <4>1, <4>2 DEF Turned
      <4> QED
        BY <1>5, <4>3
    <3> QED
      BY <3>1, <3>2
  <2>6. Described(Filter) \ Clients \subseteq walk'.shown
    <3>1. CASE walk.page = 1
      BY <1>5, <2>2, <3>1
    <3>2. CASE walk.page # 1
      <4>1. PanelOrders /\ walk.page > 1
        BY <1>1, <1>8, <3>2
      <4> QED
        BY <1>5, <2>4, <4>1 DEF Turned
    <3> QED
      BY <3>1, <3>2
  <2>7. CASE walk'.pc = "store"
    <3>1. PanelOrders /\ walk'.page = walk.page + 1
      BY <1>5, <1>8, <2>7
    <3> QED
      BY <2>2, <2>3, <2>4, <2>5, <2>6, <2>7, <3>1 DEF Turned
  <2>8. CASE walk'.pc = "done"
    <3>1. walk.page >= TotalPages(answer.total, PerPage)
      BY <1>5, <2>8
    <3>2. ASSUME NEW u, u \in Described(Filter), u \in Clients
          PROVE  u \in walk'.shown
      <4>1. PICK k \in DOMAIN kept : kept[k].user = u
        BY <2>2, <3>2
      <4>2. Rank(kept, k) <= before + PerPage
        BY <2>2, <2>3, <3>1
      <4> QED
        BY <2>5, <3>2, <4>1, <4>2
    <3> QED
      BY <2>6, <2>8, <3>2
  <2> QED
    BY <1>5, <2>7, <2>8
<1> QED
  BY <1>9, <1>10

\* No row falls on a page before the first.
LEMMA RankAboveFirst ==
    ASSUME DataTyped, NEW f
    PROVE  \A k \in DOMAIN Passing(PanelRows, f) :
              ~(Rank(Passing(PanelRows, f), k) <= Offset(1, PerPage))
<1>1. PICK kept : kept = Passing(PanelRows, f)
  OBVIOUS
<1>2. /\ kept = [k \in DOMAIN kept |-> kept[k]]
      /\ DOMAIN kept \in SUBSET DOMAIN PanelRows
  BY <1>1 DEF Passing, Restrict
<1>3. IsList(kept)
  BY <1>2, PanelRowsTrue, FS_Subset DEF TrueList, IsList
<1>4. Offset(1, PerPage) = 0 /\ Cardinality(DOMAIN kept) \in Nat
  BY <1>3, NextOffset, PagesArePositive, FS_CardinalityType DEF IsList
<1> QED
  BY <1>1, <1>3, <1>4, RankBounds

\* The links under a list lead on, whatever its page.
LEMMA LinksAlwaysLead == LinksLead
<1>1. \A pages \in 1..12 : \A page \in 0..(pages + 2) :
         pages \in Nat \ {0} /\ page \in Nat
  OBVIOUS
<1> QED
  BY <1>1, LinksLeadEverywhere DEF LinksLead

\* A master who turns all pages of a list of unchanged data, in an order that
\* stays and with the store answering every page, has seen every account the
\* filter describes, for any number of accounts, page size and filter
\* (ListUsersPaged, mergePanelUsersPage, mergePanelUsers,
\* paginatePanelUserRows).
THEOREM NothingIsMissed == ListsSpec => []NothingMissed
<1>1. ListsInit => MasterWalk
  BY DEF ListsInit, Closed, MasterWalk
<1>2. ListTypes /\ OrderedOnOnePage /\ MasterWalk /\ [ListsNext]_listVars => MasterWalk'
  <2> SUFFICES ASSUME ListTypes, OrderedOnOnePage, MasterWalk, [ListsNext]_listVars
               PROVE  MasterWalk'
    OBVIOUS
  <2>1. walk \in Walks /\ read \in Reads /\ DataTyped
    BY DEF ListTypes
  <2>2. CASE ShowToMaster
    BY <2>2, MasterShown
  <2>3. CASE ShowToAgent
    <3>1. Viewer # Master /\ walk'.reader = walk.reader
      BY <2>1, <2>3 DEF ShowToAgent, Show, Walks
    <3> QED
      BY <3>1 DEF MasterWalk, Following, Viewer
  <2>4. ASSUME NEW reader, walk' = [Closed EXCEPT !.pc = "store", !.reader = reader],
               world' = world
        PROVE  MasterWalk'
    <3>1. walk'.pc = "store" /\ walk'.page = 1
      BY <2>4 DEF Closed
    <3>2. PanelRows' = PanelRows
      BY <2>4, StillData
    <3>3. Turned(walk.page, walk.shown)'
      <4>1. PICK f : f = Filter'
        OBVIOUS
      <4>2. \A k \in DOMAIN Passing(PanelRows, f) :
               ~(Rank(Passing(PanelRows, f), k) <= Offset(1, PerPage))
        BY <2>1, RankAboveFirst
      <4> QED
        BY <3>1, <3>2, <4>1, <4>2 DEF Turned
    <3> QED
      BY <3>1, <3>3 DEF MasterWalk
  <2>5. CASE world' = world /\ (ReadServices \/ ReadVisible \/ UNCHANGED listVars)
    <3>1. /\ walk'.reader = walk.reader /\ walk'.page = walk.page
          /\ walk'.ordered = walk.ordered /\ walk'.steady = walk.steady
          /\ walk'.shown = walk.shown /\ (walk'.answered => walk.answered)
      BY <2>1, <2>5 DEF Walks, ReadServices, ReadVisible, listVars
    <3>2. /\ Filter' = Filter /\ Viewer' = Viewer
          /\ Described(Filter)' = Described(Filter)
          /\ PanelOrders' <=> PanelOrders
          /\ Clients' = Clients /\ PanelRows' = PanelRows
          /\ NotCut' <=> NotCut
      BY <2>5, <3>1, StillDescribed
    <3>3. Following' => Following /\ walk'.answered
      BY <3>1, <3>2 DEF Following
    <3>4. Turned(walk.page, walk.shown)' <=> Turned(walk.page, walk.shown)
      BY <3>1, <3>2 DEF Turned
    <3>5. SUFFICES ASSUME Following, walk'.answered
                   PROVE  /\ walk'.pc = "panel" => read'.services = world.services
                          /\ walk'.pc \in {"store", "panel"} /\ PanelOrders
                             => Turned(walk.page, walk.shown)
                          /\ walk'.pc = "done" => Described(Filter) \subseteq walk.shown
      BY <2>5, <3>1, <3>2, <3>3, <3>4 DEF MasterWalk
    <3>6. CASE ReadServices
      <4>1. walk.pc = "store" /\ walk'.pc = "panel" /\ read'.services = world.services
        BY <2>1, <3>5, <3>6 DEF ReadServices, Walks, Reads
      <4> QED
        BY <3>5, <4>1 DEF MasterWalk
    <3>7. CASE ReadVisible
      BY <3>5, <3>7 DEF ReadVisible, Following
    <3>8. CASE UNCHANGED listVars
      <4>1. walk' = walk /\ read' = read
        BY <3>8 DEF listVars
      <4> QED
        BY <3>5, <4>1 DEF MasterWalk
    <3> QED
      BY <2>5, <3>6, <3>7, <3>8
  <2>7. CASE walk' = [walk EXCEPT !.pc = "failed"]
    <3>1. walk'.pc = "failed"
      BY <2>1, <2>7 DEF Walks
    <3> QED
      BY <3>1 DEF MasterWalk
  <2>8. CASE walk' = [walk EXCEPT !.steady = FALSE, !.fresh = FALSE]
    <3>1. walk'.steady = FALSE
      BY <2>1, <2>8 DEF Walks
    <3> QED
      BY <3>1 DEF MasterWalk, Following
  <2> QED
    BY <2>2, <2>3, <2>4, <2>5, <2>7, <2>8, OtherSteps DEF listVars
<1>3. MasterWalk => NothingMissed
  BY LinksAlwaysLead DEF MasterWalk, Following, NothingMissed
<1> QED
  BY <1>1, <1>2, <1>3, ListsTyped, OrderedStaysOnOnePage, PTL DEF ListsSpec
================================================================================
