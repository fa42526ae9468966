------------------------ MODULE ServiceLifecycleProofs ------------------------
(***************************************************************************)
(* Theorems of ServiceLifecycle: what holds for every number of runs, every *)
(* race between them, every failure and every restart.                     *)
(***************************************************************************)
EXTENDS ServiceLifecycle, TLAPS

\* What a run in flight relies on: of its copy of the row, and of the panel.
RunSafe(j) ==
  /\ Copy(j).status = "expired" => Copy(j).expire < now
  /\ Op(j) = "expiry" /\ run[j].pc \in {"cur", "put", "close"} => Copy(j).expire < now
  /\ At(j, "close") => Op(j) = "expiry"
  /\ (\/ run[j].pc \in {"saveZero", "warn", "mark"}
      \/ Op(j) = "poll" /\ run[j].pc \in {"info", "save"}
      \/ Op(j) # "panelReset" /\ At(j, "zero"))
     => Copy(j).status # "none"
  /\ At(j, "drop") => ~HasUser
  /\ At(j, "mark") => Copy(j).limit > 0

IInv == TypeOK /\ ExpiredIsPast /\ NoOrphan /\ \A j \in Runs : RunSafe(j)

\* A percentage is a natural number.
LEMMA LevelType ==
  ASSUME NEW r \in Rows, r.limit > 0
  PROVE  Level(r) \in Nat
BY SMT DEF Level, Rows

\* Each kind of write yields a row, a user, or a run of the declared shape.
LEMMA SavedType ==
  ASSUME TypeOK, NEW j \in Runs
  PROVE  Saved(j) \in Rows
<1>1. Copy(j) \in Rows /\ Info(j) \in Users
  BY DEF TypeOK, RunStates, Copy, Info
<1> QED
  BY <1>1 DEF Saved, WithInfo, Rows, Users

LEMMA UpdatedType ==
  ASSUME TypeOK, NEW j \in Runs, HasUser
  PROVE  Updated(Op(j), Info(j)) \in Users
<1>1. Info(j) \in Users /\ user \in Users /\ now \in Nat
  BY DEF TypeOK, RunStates, Info
<1>2. NewExpire(Op(j), Info(j)) \in Nat /\ NewLimit(Op(j), Info(j)) \in Nat
  BY <1>1 DEF NewExpire, NewLimit, Users
<1> QED
  BY <1>1, <1>2 DEF Updated, Users, StatusOps, EnableOps

LEMMA ReportedType == ASSUME TypeOK PROVE Reported \in Users
BY DEF TypeOK, Reported, Users

LEMMA FirstCallType == \A o : FirstCall(o) \in {"zero", "del", "info", "put", "cur"}
BY DEF FirstCall

LEMMA IdleType == Idle \in RunStates /\ NoRow \in Rows /\ NoUser \in Users
BY DEF Idle, RunStates, NoRow, NoUser, Rows, Users, Never, Calls

\* The history of warnings and races keeps its type.
LEMMA ActType ==
  ASSUME NEW j, NEW stale \in BOOLEAN, raced \in BOOLEAN, Act(j, stale)
  PROVE  raced' \in BOOLEAN
BY DEF Act

-----------------------------------------------------------------------------
\* The part of a step that concerns the run that takes it.
StepSafe(j) == TypeOK' /\ ExpiredIsPast' /\ NoOrphan' /\ RunSafe(j)'

\* What a step of j leaves to the other runs: their state and the day, and no user
\* appears on the panel.
Frame(j) == /\ \A k \in Runs \ {j} : run'[k] = run[k]
            /\ now' = now
            /\ HasUser' => HasUser

LEMMA OthersSafe ==
  ASSUME NEW j \in Runs, NEW k \in Runs \ {j}, RunSafe(k), Frame(j)
  PROVE  RunSafe(k)'
BY DEF Frame, RunSafe, At, Op, Copy, HasUser

LEMMA StartSafe ==
  ASSUME IInv, NEW j \in Runs, NEW o \in Ops, Start(j, o)
  PROVE  StepSafe(j) /\ Frame(j)
<1>0. run \in [Runs -> RunStates] /\ row \in Rows /\ user \in Users /\ now \in Nat
  BY DEF IInv, TypeOK
<1>1. run' \in [Runs -> RunStates]
  <2> DEFINE c == IF o \in {"poll", "expiry"} THEN "list"
                  ELSE IF o \in PageOps THEN FirstCall(o) ELSE "read"
  <2>1. c \in Calls
    BY FirstCallType DEF Calls
  <2>2. run' = [run EXCEPT ![j].op = o, ![j].pc = c]
    BY DEF Start
  <2> HIDE DEF c
  <2> QED
    BY <1>0, <2>1, <2>2 DEF RunStates
<1>2. TypeOK'
  BY <1>0, <1>1, ServiceBoundsAssumption DEF Start, TypeOK, IInv
<1>3. Frame(j)
  BY <1>0 DEF Start, Frame, HasUser
<1>4. RunSafe(j)'
  BY <1>0, FirstCallType
     DEF Start, IInv, RunSafe, RunStates, At, Op, Copy, PageOps, FirstCall
<1>5. ExpiredIsPast' /\ NoOrphan'
  BY <1>0 DEF Start, IInv, ExpiredIsPast, NoOrphan, HasRow, HasUser
<1> QED
  BY <1>2, <1>3, <1>4, <1>5 DEF StepSafe

LEMMA ReadSafe ==
  ASSUME IInv, NEW j \in Runs, Read(j)
  PROVE  StepSafe(j) /\ Frame(j)
<1>0. run \in [Runs -> RunStates] /\ row \in Rows /\ user \in Users /\ now \in Nat
  BY DEF IInv, TypeOK
<1>1. run' \in [Runs -> RunStates]
  BY <1>0, FirstCallType, IdleType DEF Read, Finish, RunStates, Calls
<1>2. TypeOK'
  BY <1>0, <1>1 DEF Read, TypeOK, IInv
<1>3. Frame(j)
  BY <1>0 DEF Read, Finish, Frame, HasUser
<1>4. RunSafe(j)'
  BY <1>0, FirstCallType
     DEF Read, Finish, IInv, RunSafe, RunStates, At, Op, Copy, Idle, NoRow,
         FirstCall, HasRow, ExpiredIsPast
<1>5. ExpiredIsPast' /\ NoOrphan'
  BY <1>0 DEF Read, IInv, ExpiredIsPast, NoOrphan, HasRow, HasUser
<1> QED
  BY <1>2, <1>3, <1>4, <1>5 DEF StepSafe

LEMMA ListSafe ==
  ASSUME IInv, NEW j \in Runs, List(j)
  PROVE  StepSafe(j) /\ Frame(j)
<1>0. run \in [Runs -> RunStates] /\ row \in Rows /\ user \in Users /\ now \in Nat
  BY DEF IInv, TypeOK
<1>1. run' \in [Runs -> RunStates]
  BY <1>0, FirstCallType, IdleType DEF List, Finish, RunStates, Calls
<1>2. TypeOK'
  BY <1>0, <1>1 DEF List, TypeOK, IInv
<1>3. Frame(j)
  BY <1>0 DEF List, Finish, Frame, HasUser
<1>4. RunSafe(j)'
  BY <1>0, FirstCallType
     DEF List, Finish, IInv, RunSafe, RunStates, At, Op, Copy, Idle, NoRow,
         FirstCall, HasRow, ExpiredIsPast
<1>5. ExpiredIsPast' /\ NoOrphan'
  BY <1>0 DEF List, IInv, ExpiredIsPast, NoOrphan, HasRow, HasUser
<1> QED
  BY <1>2, <1>3, <1>4, <1>5 DEF StepSafe

LEMMA CurSafe ==
  ASSUME IInv, NEW j \in Runs, Cur(j)
  PROVE  StepSafe(j) /\ Frame(j)
<1>0. run \in [Runs -> RunStates] /\ row \in Rows /\ user \in Users /\ now \in Nat
  BY DEF IInv, TypeOK
<1>1. run' \in [Runs -> RunStates]
  <2>1. Reported \in Users
    BY ReportedType DEF IInv
  <2>2. PICK c \in Calls : run' = [run EXCEPT ![j].info = Reported, ![j].pc = c]
    BY DEF Cur, Calls
  <2>3. \A i \in Users : [run EXCEPT ![j].info = i, ![j].pc = c] \in [Runs -> RunStates]
    BY <1>0 DEF RunStates
  <2> QED
    BY <2>1, <2>2, <2>3
<1>2. TypeOK'
  BY <1>0, <1>1 DEF Cur, TypeOK, IInv
<1>3. Frame(j)
  BY <1>0 DEF Cur, Frame, HasUser
<1>4. RunSafe(j)'
  BY <1>0 DEF Cur, IInv, RunSafe, RunStates, At, Op, Copy
<1>5. ExpiredIsPast' /\ NoOrphan'
  BY <1>0 DEF Cur, IInv, ExpiredIsPast, NoOrphan, HasRow, HasUser
<1> QED
  BY <1>2, <1>3, <1>4, <1>5 DEF StepSafe

LEMMA PutSafe ==
  ASSUME IInv, NEW j \in Runs, Put(j)
  PROVE  StepSafe(j) /\ Frame(j)
<1>0. run \in [Runs -> RunStates] /\ row \in Rows /\ user \in Users /\ now \in Nat
  BY DEF IInv, TypeOK
<1>1. run' \in [Runs -> RunStates]
  BY <1>0, IdleType DEF Put, RunStates, Calls, IInv, AfterPut
<1>2. TypeOK'
  BY <1>0, <1>1, UpdatedType DEF Put, TypeOK, IInv, Act
<1>3. Frame(j)
  BY <1>0 DEF Put, Frame, HasUser
<1>4. RunSafe(j)'
  BY <1>0
     DEF Put, IInv, RunSafe, RunStates, At, Op, Copy, AfterPut, StatusOps,
         EnableOps, PanelStatusOps, HasUser
<1>5. ExpiredIsPast' /\ NoOrphan'
  BY <1>0 DEF Put, IInv, ExpiredIsPast, NoOrphan, HasRow, HasUser
<1> QED
  BY <1>2, <1>3, <1>4, <1>5 DEF StepSafe

LEMMA GetUserSafe ==
  ASSUME IInv, NEW j \in Runs, GetUser(j)
  PROVE  StepSafe(j) /\ Frame(j)
<1>0. run \in [Runs -> RunStates] /\ row \in Rows /\ user \in Users /\ now \in Nat
  BY DEF IInv, TypeOK
<1>1. run' \in [Runs -> RunStates]
  <2>1. Reported \in Users
    BY ReportedType DEF IInv
  <2>2. PICK c \in Calls : run' = [run EXCEPT ![j].info = Reported, ![j].pc = c]
    BY DEF GetUser, Calls
  <2>3. \A i \in Users : [run EXCEPT ![j].info = i, ![j].pc = c] \in [Runs -> RunStates]
    BY <1>0 DEF RunStates
  <2> QED
    BY <2>1, <2>2, <2>3
<1>2. TypeOK'
  BY <1>0, <1>1 DEF GetUser, TypeOK, IInv
<1>3. Frame(j)
  BY <1>0 DEF GetUser, Frame, HasUser
<1>4. RunSafe(j)'
  BY <1>0 DEF GetUser, IInv, RunSafe, RunStates, At, Op, Copy
<1>5. ExpiredIsPast' /\ NoOrphan'
  BY <1>0 DEF GetUser, IInv, ExpiredIsPast, NoOrphan, HasRow, HasUser
<1> QED
  BY <1>2, <1>3, <1>4, <1>5 DEF StepSafe

LEMMA RereadSafe ==
  ASSUME IInv, NEW j \in Runs, Reread(j)
  PROVE  StepSafe(j) /\ Frame(j)
<1>0. run \in [Runs -> RunStates] /\ row \in Rows /\ user \in Users /\ now \in Nat
  BY DEF IInv, TypeOK
<1>1. run' \in [Runs -> RunStates]
  BY <1>0, IdleType DEF Reread, Finish, RunStates, Calls
<1>2. TypeOK'
  BY <1>0, <1>1 DEF Reread, TypeOK, IInv
<1>3. Frame(j)
  BY <1>0 DEF Reread, Finish, Frame, HasUser
<1>4. RunSafe(j)'
  BY <1>0
     DEF Reread, Finish, IInv, RunSafe, RunStates, At, Op, Copy, Idle, NoRow,
         HasRow, ExpiredIsPast
<1>5. ExpiredIsPast' /\ NoOrphan'
  BY <1>0 DEF Reread, IInv, ExpiredIsPast, NoOrphan, HasRow, HasUser
<1> QED
  BY <1>2, <1>3, <1>4, <1>5 DEF StepSafe

LEMMA SaveSafe ==
  ASSUME IInv, NEW j \in Runs, Save(j)
  PROVE  StepSafe(j) /\ Frame(j)
<1>0. run \in [Runs -> RunStates] /\ row \in Rows /\ user \in Users /\ now \in Nat
  BY DEF IInv, TypeOK
<1>1. run' \in [Runs -> RunStates]
  BY <1>0, IdleType, SavedType DEF Save, Finish, RunStates, Calls, IInv
<1>2. TypeOK'
  BY <1>0, <1>1, SavedType DEF Save, TypeOK, IInv, Act
<1>3. Frame(j)
  BY <1>0 DEF Save, Finish, Frame, HasUser
<1>4. RunSafe(j)'
  BY <1>0
     DEF Save, Finish, IInv, RunSafe, RunStates, At, Op, Copy, Idle, NoRow, Saved,
         Rows
<1>5. ExpiredIsPast' /\ NoOrphan'
  BY <1>0
     DEF Save, IInv, ExpiredIsPast, NoOrphan, RunSafe, At, Op, Copy, HasRow,
         HasUser, Rows, RunStates, Saved, WithInfo
<1> QED
  BY <1>2, <1>3, <1>4, <1>5 DEF StepSafe

LEMMA ZeroSafe ==
  ASSUME IInv, NEW j \in Runs, Zero(j)
  PROVE  StepSafe(j) /\ Frame(j)
<1>0. run \in [Runs -> RunStates] /\ row \in Rows /\ user \in Users /\ now \in Nat
  BY DEF IInv, TypeOK
<1>1. run' \in [Runs -> RunStates]
  BY <1>0 DEF Zero, Goto, RunStates, Calls
<1>2. TypeOK'
  BY <1>0, <1>1 DEF Zero, TypeOK, IInv, Users
<1>3. Frame(j)
  BY <1>0 DEF Zero, Goto, Frame, HasUser
<1>4. RunSafe(j)'
  BY <1>0 DEF Zero, Goto, IInv, RunSafe, RunStates, At, Op, Copy, HasUser
<1>5. ExpiredIsPast' /\ NoOrphan'
  BY <1>0 DEF Zero, IInv, ExpiredIsPast, NoOrphan, HasRow, HasUser
<1> QED
  BY <1>2, <1>3, <1>4, <1>5 DEF StepSafe

LEMMA SaveZeroSafe ==
  ASSUME IInv, NEW j \in Runs, SaveZero(j)
  PROVE  StepSafe(j) /\ Frame(j)
<1>0. run \in [Runs -> RunStates] /\ row \in Rows /\ user \in Users /\ now \in Nat
  BY DEF IInv, TypeOK
<1>1. run' \in [Runs -> RunStates]
  BY <1>0, IdleType DEF SaveZero, Finish, RunStates, Calls
<1>2. TypeOK'
  BY <1>0, <1>1 DEF SaveZero, TypeOK, IInv, Act, Rows, RunStates, Copy
<1>3. Frame(j)
  BY <1>0 DEF SaveZero, Finish, Frame, HasUser
<1>4. RunSafe(j)'
  BY <1>0 DEF SaveZero, Finish, IInv, RunSafe, RunStates, At, Op, Copy, Idle, NoRow
<1>5. ExpiredIsPast' /\ NoOrphan'
  <2>0. Copy(j) \in Rows
    BY <1>0 DEF RunStates, Copy
  <2>1. Copy(j) \in Rows /\ Copy(j).status # "none"
    BY <2>0 DEF SaveZero, IInv, RunSafe, At
  <2>2. row'.status = Copy(j).status /\ row'.expire = Copy(j).expire
    BY <2>1 DEF SaveZero, Rows
  <2> QED
    BY <2>1, <2>2 DEF SaveZero, IInv, RunSafe, ExpiredIsPast, NoOrphan, HasRow
<1> QED
  BY <1>2, <1>3, <1>4, <1>5 DEF StepSafe

LEMMA DeleteUserSafe ==
  ASSUME IInv, NEW j \in Runs, DeleteUser(j)
  PROVE  StepSafe(j) /\ Frame(j)
<1>0. run \in [Runs -> RunStates] /\ row \in Rows /\ user \in Users /\ now \in Nat
  BY DEF IInv, TypeOK
<1>1. run' \in [Runs -> RunStates]
  BY <1>0 DEF DeleteUser, Goto, RunStates, Calls
<1>2. TypeOK'
  BY <1>0, <1>1, IdleType DEF DeleteUser, TypeOK, IInv
<1>3. Frame(j)
  BY <1>0 DEF DeleteUser, Goto, Frame, HasUser, NoUser
<1>4. RunSafe(j)'
  BY <1>0 DEF DeleteUser, Goto, IInv, RunSafe, RunStates, At, Op, Copy, HasUser, NoUser
<1>5. ExpiredIsPast' /\ NoOrphan'
  BY <1>0 DEF DeleteUser, IInv, ExpiredIsPast, NoOrphan, HasRow, HasUser, NoUser
<1> QED
  BY <1>2, <1>3, <1>4, <1>5 DEF StepSafe

LEMMA DeleteRowSafe ==
  ASSUME IInv, NEW j \in Runs, DeleteRow(j)
  PROVE  StepSafe(j) /\ Frame(j)
<1>0. run \in [Runs -> RunStates] /\ row \in Rows /\ user \in Users /\ now \in Nat
  BY DEF IInv, TypeOK
<1>1. run' \in [Runs -> RunStates]
  BY <1>0, IdleType DEF DeleteRow, Finish, RunStates, Calls
<1>2. TypeOK'
  BY <1>0, <1>1, IdleType DEF DeleteRow, TypeOK, IInv
<1>3. Frame(j)
  BY <1>0 DEF DeleteRow, Finish, Frame, HasUser
<1>4. RunSafe(j)'
  BY <1>0 DEF DeleteRow, Finish, IInv, RunSafe, RunStates, At, Op, Copy, Idle, NoRow
<1>5. ExpiredIsPast' /\ NoOrphan'
  BY <1>0
     DEF DeleteRow, IInv, ExpiredIsPast, NoOrphan, RunSafe, At, Op, Copy, HasRow,
         HasUser, Rows, RunStates, NoRow
<1> QED
  BY <1>2, <1>3, <1>4, <1>5 DEF StepSafe

LEMMA WarnSafe ==
  ASSUME IInv, NEW j \in Runs, Warn(j)
  PROVE  StepSafe(j) /\ Frame(j)
<1>0. run \in [Runs -> RunStates] /\ row \in Rows /\ user \in Users /\ now \in Nat
  BY DEF IInv, TypeOK
<1>1. run' \in [Runs -> RunStates]
  BY <1>0, IdleType DEF Warn, Finish, Goto, RunStates, Calls
<1>2. TypeOK'
  <2>1. Copy(j) \in Rows /\ (MustWarn(Copy(j)) => Level(Copy(j)) \in Nat)
    BY <1>0, LevelType DEF RunStates, Copy, MustWarn
  <2> QED
    BY <1>1, <2>1 DEF Warn, TypeOK, IInv, Act
<1>3. Frame(j)
  BY <1>0 DEF Warn, Finish, Goto, Frame, HasUser
<1>4. RunSafe(j)'
  BY <1>0
     DEF Warn, Finish, Goto, IInv, RunSafe, RunStates, At, Op, Copy, Idle, NoRow,
         MustWarn
<1>5. ExpiredIsPast' /\ NoOrphan'
  BY <1>0 DEF Warn, IInv, ExpiredIsPast, NoOrphan, HasRow, HasUser
<1> QED
  BY <1>2, <1>3, <1>4, <1>5 DEF StepSafe

LEMMA MarkSafe ==
  ASSUME IInv, NEW j \in Runs, Mark(j)
  PROVE  StepSafe(j) /\ Frame(j)
<1>0. run \in [Runs -> RunStates] /\ row \in Rows /\ user \in Users /\ now \in Nat
  BY DEF IInv, TypeOK
<1>1. run' \in [Runs -> RunStates]
  BY <1>0, IdleType DEF Mark, Finish, RunStates, Calls
<1>2. TypeOK'
  BY <1>0, <1>1, LevelType
     DEF Mark, TypeOK, IInv, Act, Rows, RunStates, Copy, RunSafe, At
<1>3. Frame(j)
  BY <1>0 DEF Mark, Finish, Frame, HasUser
<1>4. RunSafe(j)'
  BY <1>0 DEF Mark, Finish, IInv, RunSafe, RunStates, At, Op, Copy, Idle, NoRow
<1>5. ExpiredIsPast' /\ NoOrphan'
  <2>0. Copy(j) \in Rows
    BY <1>0 DEF RunStates, Copy
  <2>1. Copy(j) \in Rows /\ Copy(j).status # "none"
    BY <2>0 DEF Mark, IInv, RunSafe, At
  <2>2. row'.status = Copy(j).status /\ row'.expire = Copy(j).expire
    BY <2>1 DEF Mark, Rows
  <2> QED
    BY <2>1, <2>2 DEF Mark, IInv, RunSafe, ExpiredIsPast, NoOrphan, HasRow
<1> QED
  BY <1>2, <1>3, <1>4, <1>5 DEF StepSafe

LEMMA WarnExpirySafe ==
  ASSUME IInv, NEW j \in Runs, WarnExpiry(j)
  PROVE  StepSafe(j) /\ Frame(j)
<1>0. run \in [Runs -> RunStates] /\ row \in Rows /\ user \in Users /\ now \in Nat
  BY DEF IInv, TypeOK
<1>1. run' \in [Runs -> RunStates]
  BY <1>0, IdleType DEF WarnExpiry, Finish, Goto, RunStates, Calls
<1>2. TypeOK'
  BY <1>0, <1>1 DEF WarnExpiry, TypeOK, IInv, Act, RunStates
<1>3. Frame(j)
  BY <1>0 DEF WarnExpiry, Finish, Goto, Frame, HasUser
<1>4. RunSafe(j)'
  BY <1>0
     DEF WarnExpiry, Finish, Goto, IInv, RunSafe, RunStates, At, Op, Copy, Idle,
         NoRow
<1>5. ExpiredIsPast' /\ NoOrphan'
  BY <1>0 DEF WarnExpiry, IInv, ExpiredIsPast, NoOrphan, HasRow, HasUser
<1> QED
  BY <1>2, <1>3, <1>4, <1>5 DEF StepSafe

LEMMA MarkExpirySafe ==
  ASSUME IInv, NEW j \in Runs, MarkExpiry(j)
  PROVE  StepSafe(j) /\ Frame(j)
<1>0. run \in [Runs -> RunStates] /\ row \in Rows /\ user \in Users /\ now \in Nat
  BY DEF IInv, TypeOK
<1>1. run' \in [Runs -> RunStates]
  BY <1>0, IdleType DEF MarkExpiry, Finish, RunStates, Calls
<1>2. TypeOK'
  BY <1>0, <1>1 DEF MarkExpiry, TypeOK, IInv, Rows, RunStates, Copy, HasRow
<1>3. Frame(j)
  BY <1>0 DEF MarkExpiry, Finish, Frame, HasUser
<1>4. RunSafe(j)'
  BY <1>0 DEF MarkExpiry, Finish, IInv, RunSafe, RunStates, At, Op, Copy, Idle, NoRow
<1>5. ExpiredIsPast' /\ NoOrphan'
  BY <1>0
     DEF MarkExpiry, IInv, ExpiredIsPast, NoOrphan, RunSafe, At, Op, Copy, HasRow,
         HasUser, Rows, RunStates
<1> QED
  BY <1>2, <1>3, <1>4, <1>5 DEF StepSafe

LEMMA CloseSafe ==
  ASSUME IInv, NEW j \in Runs, Close(j)
  PROVE  StepSafe(j) /\ Frame(j)
<1>0. run \in [Runs -> RunStates] /\ row \in Rows /\ user \in Users /\ now \in Nat
  BY DEF IInv, TypeOK
<1>1. run' \in [Runs -> RunStates]
  BY <1>0, IdleType DEF Close, Finish, RunStates, Calls
<1>2. TypeOK'
  BY <1>0, <1>1 DEF Close, TypeOK, IInv, Act, Rows, RunStates, Copy
<1>3. Frame(j)
  BY <1>0 DEF Close, Finish, Frame, HasUser
<1>4. RunSafe(j)'
  BY <1>0 DEF Close, Finish, IInv, RunSafe, RunStates, At, Op, Copy, Idle, NoRow
<1>5. ExpiredIsPast' /\ NoOrphan'
  BY <1>0
     DEF Close, IInv, ExpiredIsPast, NoOrphan, RunSafe, At, Op, Copy, HasRow,
         HasUser, Rows, RunStates
<1> QED
  BY <1>2, <1>3, <1>4, <1>5 DEF StepSafe

LEMMA FailSafe ==
  ASSUME IInv, NEW j \in Runs, Fail(j)
  PROVE  StepSafe(j) /\ Frame(j)
<1>0. run \in [Runs -> RunStates] /\ row \in Rows /\ user \in Users /\ now \in Nat
  BY DEF IInv, TypeOK
<1>1. run' \in [Runs -> RunStates]
  BY <1>0, IdleType, SavedType DEF Fail, Finish, Goto, RunStates, Calls, IInv
<1>2. TypeOK'
  BY <1>0, <1>1 DEF Fail, TypeOK, IInv
<1>3. Frame(j)
  BY <1>0 DEF Fail, Finish, Goto, Frame, HasUser
<1>4. RunSafe(j)'
  BY <1>0
     DEF Fail, Finish, Goto, IInv, RunSafe, RunStates, At, Op, Copy, Idle, NoRow,
         Saved, Rows
<1>5. ExpiredIsPast' /\ NoOrphan'
  BY <1>0 DEF Fail, IInv, ExpiredIsPast, NoOrphan, HasRow, HasUser
<1> QED
  BY <1>2, <1>3, <1>4, <1>5 DEF StepSafe

-----------------------------------------------------------------------------
LEMMA InitSafe == Init => IInv
<1> SUFFICES ASSUME Init PROVE IInv
  OBVIOUS
<1>1. TypeOK
  <2>1. row \in Rows /\ user \in Users
    BY ServiceBoundsAssumption DEF Init, Rows, Users
  <2>2. run \in [Runs -> RunStates]
    BY IdleType DEF Init
  <2>3. now \in Nat /\ kind \in Kinds /\ starts \in 0..MaxStarts
    BY ServiceBoundsAssumption DEF Init
  <2>4. told \in [usage : Nat, expiry : Nat \cup {Never}]
    BY DEF Init
  <2>5. repeated \in BOOLEAN /\ raced \in BOOLEAN /\ broken \in BOOLEAN
    BY DEF Init
  <2> QED
    BY <2>1, <2>2, <2>3, <2>4, <2>5 DEF TypeOK
<1>2. ASSUME NEW j \in Runs PROVE RunSafe(j)
  BY DEF Init, RunSafe, Idle, NoRow, At, Op, Copy
<1>3. ExpiredIsPast /\ NoOrphan
  BY DEF Init, ExpiredIsPast, NoOrphan, HasRow
<1> QED
  BY <1>1, <1>2, <1>3 DEF IInv

\* A step of one run, and the others beside it.
LEMMA RunsKept ==
  ASSUME IInv, NEW j \in Runs, StepSafe(j), Frame(j)
  PROVE  IInv'
<1>1. ASSUME NEW k \in Runs PROVE RunSafe(k)'
  <2>1. CASE k = j
    BY <2>1 DEF StepSafe
  <2>2. CASE k # j
    BY <2>2, OthersSafe DEF IInv
  <2> QED
    BY <2>1, <2>2
<1> QED
  BY <1>1 DEF IInv, StepSafe

LEMMA CrashSafe == ASSUME IInv, Crash PROVE IInv'
<1>1. TypeOK'
  BY IdleType DEF IInv, Crash, TypeOK
<1>2. ASSUME NEW j \in Runs PROVE RunSafe(j)'
  BY DEF Crash, RunSafe, Idle, NoRow, At, Op, Copy
<1>3. ExpiredIsPast' /\ NoOrphan'
  BY DEF IInv, Crash, ExpiredIsPast, NoOrphan, HasRow, HasUser
<1> QED
  BY <1>1, <1>2, <1>3 DEF IInv

\* The panel, the customer and the clock: the runs stay, the day does not go back,
\* and no user appears.
LEMMA OutsideSafe == ASSUME IInv, DelDepleted \/ Use \/ Tick PROVE IInv'
<1>0. now \in Nat /\ user \in Users /\ row \in Rows /\ run \in [Runs -> RunStates]
  BY DEF IInv, TypeOK
<1>1. TypeOK'
  <2>1. CASE DelDepleted
    BY <2>1, IdleType DEF IInv, TypeOK, DelDepleted
  <2>2. CASE Use
    <3>1. user' \in Users
      BY <1>0, <2>2 DEF Use, Users
    <3> QED
      BY <2>2, <3>1 DEF IInv, TypeOK, Use
  <2>3. CASE Tick
    <3>1. now' \in Nat
      BY <1>0, <2>3 DEF Tick
    <3> QED
      BY <2>3, <3>1 DEF IInv, TypeOK, Tick
  <2> QED
    BY <2>1, <2>2, <2>3
<1>2. /\ run' = run /\ row' = row
      /\ now' = now \/ now' = now + 1
      /\ HasUser' => HasUser
  BY <1>0 DEF DelDepleted, Use, Tick, HasUser, NoUser
<1>3. ASSUME NEW j \in Runs PROVE RunSafe(j)'
  <2>1. Copy(j) \in Rows
    BY <1>0 DEF RunStates, Copy
  <2> QED
    BY <1>0, <1>2, <2>1 DEF IInv, RunSafe, Rows, At, Op, Copy
<1>4. ExpiredIsPast' /\ NoOrphan'
  BY <1>0, <1>2 DEF IInv, ExpiredIsPast, NoOrphan, HasRow, Rows
<1> QED
  BY <1>1, <1>3, <1>4 DEF IInv

LEMMA NextSafe == IInv /\ [Next]_vars => IInv'
<1> SUFFICES ASSUME IInv, [Next]_vars PROVE IInv'
  OBVIOUS
<1>1. ASSUME NEW j \in Runs, NEW o \in Ops, Start(j, o) PROVE IInv'
  BY <1>1, StartSafe, RunsKept
<1>2. ASSUME NEW j \in Runs, Step(j) PROVE IInv'
  <2>1. StepSafe(j) /\ Frame(j)
    BY <1>2, ReadSafe, ListSafe, CurSafe, PutSafe, GetUserSafe, RereadSafe, SaveSafe,
       ZeroSafe, SaveZeroSafe, DeleteUserSafe, DeleteRowSafe, WarnSafe, MarkSafe,
       WarnExpirySafe, MarkExpirySafe, CloseSafe, FailSafe DEF Step
  <2> QED
    BY <2>1, RunsKept
<1>3. CASE UNCHANGED vars
  BY <1>3 DEF vars, IInv, TypeOK, ExpiredIsPast, NoOrphan, RunSafe, HasRow, HasUser,
              At, Op, Copy
<1> QED
  BY <1>1, <1>2, <1>3, CrashSafe, OutsideSafe DEF Next

LEMMA Invariant == Spec => []IInv
BY InitSafe, NextSafe, PTL DEF Spec

-----------------------------------------------------------------------------
\* Every row, user, copy and mark keeps its type, the percentages included.
THEOREM ServiceTypeCorrect == Spec => []TypeOK
<1>1. IInv => TypeOK
  BY DEF IInv
<1> QED
  BY Invariant, <1>1, PTL

\* Whatever races, fails or restarts, a service marked "expired" (checkExpiry) has
\* expired: a renewal that overlaps the check never leaves the mark with a later date.
THEOREM ServiceExpiredIsPast == Spec => []ExpiredIsPast
<1>1. IInv => ExpiredIsPast
  BY DEF IInv
<1> QED
  BY Invariant, <1>1, PTL

\* Whatever races, fails or restarts, no panel user is left without its row
\* (DeleteService removes the user first, and the whole-row saves only add rows).
THEOREM ServiceNoOrphan == Spec => []NoOrphan
<1>1. IInv => NoOrphan
  BY DEF IInv
<1> QED
  BY Invariant, <1>1, PTL

\* Both at once: what no race, failure or restart of the nine operations can break.
THEOREM ServiceRacesSpare == Spec => []RacesSpare
<1>1. IInv => RacesSpare
  BY DEF IInv, RacesSpare
<1> QED
  BY Invariant, <1>1, PTL

-----------------------------------------------------------------------------
\* On Marzban only an Enable request enables a disabled user: UpdateUser sends a status
\* only when asked to, and no cron job does.
THEOREM ServiceEnabledOnPurpose == Spec => EnabledOnPurpose
<1> DEFINE Purpose == kind = "marzban" /\ user.state = "disabled" /\ user'.state = "enabled"
                        => \E h \in Runs : At(h, "put") /\ Op(h) \in EnableOps
<1>1. ASSUME IInv, [Next]_vars PROVE [Purpose]_vars
  <2> SUFFICES ASSUME kind = "marzban", user.state = "disabled", user'.state = "enabled"
               PROVE  \E h \in Runs : At(h, "put") /\ Op(h) \in EnableOps
    OBVIOUS
  <2>0. user \in Users
    BY <1>1 DEF IInv, TypeOK
  <2>1. user' # user
    OBVIOUS
  <2>2. PICK j \in Runs : Put(j) \/ Zero(j) \/ DeleteUser(j)
    <3>1. ~(UNCHANGED vars \/ Crash \/ DelDepleted \/ Use \/ Tick)
      BY <2>0, <2>1 DEF vars, Crash, DelDepleted, Use, Tick
    <3>2. PICK j \in Runs : (\E o \in Ops : Start(j, o)) \/ Step(j)
      BY <1>1, <3>1 DEF Next
    <3>3. Put(j) \/ Zero(j) \/ DeleteUser(j)
      BY <2>1, <3>2 DEF Step, Start, Read, List, Cur, GetUser, Reread, Save, SaveZero,
         DeleteRow, Warn, Mark, WarnExpiry, MarkExpiry, Close, Fail
    <3> QED
      BY <3>3
  <2>3. Put(j)
    BY <2>0, <2>2 DEF Zero, DeleteUser, NoUser, Users
  <2>4. user'.state = Updated(Op(j), Info(j)).state
    BY <2>3 DEF Put
  <2>5. Op(j) \in EnableOps
    BY <2>0, <2>4 DEF Updated, Users
  <2> QED
    BY <2>3, <2>5 DEF Put
<1>2. IInv /\ [Next]_vars => [Purpose]_vars
  BY <1>1
<1>3. Spec => [][Purpose]_vars
  BY <1>2, Invariant, PTL DEF Spec
<1> QED
  BY <1>3 DEF EnabledOnPurpose

-----------------------------------------------------------------------------
(* What holds as long as no run raced and none was cut off. *)
Clean == ~raced /\ ~broken

\* The run has changed the panel and its writing, or finding no row, ends the difference.
Changing(j) ==
  \/ run[j].pc \in {"drop", "close"}
  \/ At(j, "reread") /\ Op(j) # "panelReset"
  \/ run[j].pc \in {"info", "save"} /\ Op(j) # "poll"

SameTerms(a, b) == a.expire = b.expire /\ a.limit = b.limit

Agree ==
  /\ HasRow <=> HasUser
  /\ SameTerms(row, user)
  /\ kind = "marzban" => (row.status = "active" <=> user.state = "enabled")

\* An absent row or user has no terms left.
Tidy == (~HasRow => row = NoRow) /\ (~HasUser => user = NoUser)

Explained == Agree \/ \E j \in Runs : Changing(j)

GoneTogether == HasRow /\ ~HasUser => \E j \in Runs : At(j, "drop")

Marked ==
  HasRow => /\ told.usage <= row.warned \/ \E j \in Runs : At(j, "mark")
            /\ told.expiry = row.warnedAt \/ \E j \in Runs : At(j, "markExpiry")

\* The steps before which a run has read its copy from a row, and those before which
\* it has read the user that it writes down.
HoldsRow(j) ==
  \/ run[j].pc \in {"close", "save", "saveZero", "warnExpiry", "warn", "mark"}
  \/ At(j, "info") /\ Op(j) # "modify"
  \/ run[j].pc \in {"cur", "put"} /\ Op(j) \notin PageOps

HoldsUser(j) ==
  \/ At(j, "save") /\ Op(j) # "poll"
  \/ At(j, "reread") /\ Op(j) = "modify"

\* The operation fits what the run does next, and what it read was there.
RunFits(j) ==
  /\ Op(j) = "poll" => run[j].pc \in {"list", "info", "save", "warn", "mark"}
  /\ Op(j) = "panelReset" => run[j].pc \in {"zero", "reread", "saveZero"}
  /\ HoldsRow(j) => Copy(j).status # "none"
  /\ At(j, "put") /\ (kind = "xui" \/ Op(j) \notin StatusOps)
       => Info(j).state # "none"

\* What the run holds is still true.
RunTrue(j) ==
  /\ HoldsUser(j) /\ HasUser
       => SameTerms(Info(j), user) /\ (kind = "marzban" => Info(j).state = user.state)
  /\ At(j, "close") /\ HasUser
       => SameTerms(Copy(j), user) /\ (kind = "marzban" => user.state = "disabled")
  /\ At(j, "mark") => told.usage = Level(Copy(j))
  /\ At(j, "markExpiry") => told.expiry = run[j].at

CInv ==
  /\ Tidy
  /\ \A j \in Runs : RunFits(j)
  /\ WarnedOnce
  /\ Clean => /\ Explained /\ GoneTogether /\ Marked
              /\ \A j \in Runs : RunTrue(j)

\* What a step of j leaves to the other runs: their state, and, while one of them has
\* something to write down, the panel's user and the warnings.
Spares(j) ==
  /\ \A k \in Runs \ {j} : run'[k] = run[k]
  /\ kind' = kind
  /\ Clean' => Clean
  /\ Clean' /\ (\E k \in Runs \ {j} : Pending(k))
       => /\ told' = told
          /\ HasUser' => HasUser /\ SameTerms(user', user) /\ user'.state = user.state

\* The part of a step that concerns the run that takes it, and what the runs share.
StepTrue(j) ==
  /\ Tidy' /\ WarnedOnce' /\ RunFits(j)'
  /\ Clean' => Explained' /\ GoneTogether' /\ Marked' /\ RunTrue(j)'

\* What the other runs hold stays true.
LEMMA OthersTrue ==
  ASSUME CInv, NEW j \in Runs, NEW k \in Runs \ {j}, Spares(j)
  PROVE  RunFits(k)' /\ (Clean' => RunTrue(k)')
<1>1. run'[k] = run[k] /\ kind' = kind
  BY DEF Spares
<1>2. RunFits(k)'
  BY <1>1 DEF CInv, RunFits, HoldsRow, At, Op, Copy, Info
<1>3. ASSUME Clean' PROVE RunTrue(k)'
  <2>1. RunTrue(k)
    BY <1>3 DEF Spares, CInv
  <2>2. CASE Pending(k)
    <3>1. /\ told' = told
          /\ HasUser' => HasUser /\ SameTerms(user', user) /\ user'.state = user.state
      BY <1>3, <2>2 DEF Spares
    <3> QED
      BY <1>1, <2>1, <3>1 DEF RunTrue, HoldsUser, SameTerms, At, Op, Copy, Info
  <2>3. CASE ~Pending(k)
    BY <1>1, <2>3 DEF Pending, RunTrue, HoldsUser, At, Op
  <2> QED
    BY <2>2, <2>3
<1> QED
  BY <1>2, <1>3

\* A step of one run, and the others beside it.
LEMMA CKept ==
  ASSUME CInv, NEW j \in Runs, Spares(j), StepTrue(j)
  PROVE  CInv'
<1>1. ASSUME NEW k \in Runs PROVE RunFits(k)' /\ (Clean' => RunTrue(k)')
  BY OthersTrue DEF StepTrue
<1> QED
  BY <1>1 DEF StepTrue, CInv

\* A step that reads or gives up: it leaves the row, the panel and the warnings.
Reads(j) ==
  /\ row' = row /\ user' = user /\ told' = told /\ repeated' = repeated /\ kind' = kind
  /\ \A k \in Runs \ {j} : run'[k] = run[k]
  /\ Clean' => Clean
  /\ Clean' /\ Changing(j) => Changing(j)' \/ ~HasRow
  /\ Clean' /\ run[j].pc \in {"drop", "mark", "markExpiry"} => run'[j].pc = run[j].pc
  /\ RunFits(j)'
  /\ Clean' => RunTrue(j)'

\* A step that reads keeps what the runs share.
LEMMA ReadsTrue ==
  ASSUME IInv, CInv, NEW j \in Runs, Reads(j)
  PROVE  CInv'
<1>1. Spares(j)
  BY DEF Reads, Spares, SameTerms, HasUser
<1>2. Tidy' /\ WarnedOnce' /\ RunFits(j)'
  BY DEF Reads, CInv, Tidy, WarnedOnce, Clean, HasRow, HasUser
<1>3. ASSUME Clean' PROVE Explained'
  <2>1. Agree <=> Agree'
    BY DEF Reads, Agree, HasRow, HasUser, SameTerms
  <2>2. ~HasRow => Agree
    BY DEF IInv, NoOrphan, CInv, Tidy, Agree, SameTerms, NoRow, NoUser, HasRow, HasUser
  <2>3. \A k \in Runs \ {j} : Changing(k) => Changing(k)'
    BY DEF Reads, Changing, At, Op
  <2>4. Explained
    BY <1>3 DEF Reads, CInv
  <2> QED
    BY <1>3, <2>1, <2>2, <2>3, <2>4 DEF Explained, Reads
<1>4. ASSUME Clean' PROVE GoneTogether' /\ Marked'
  <2>1. GoneTogether /\ Marked
    BY <1>4 DEF Reads, CInv
  <2>2. \A k \in Runs : run[k].pc \in {"drop", "mark", "markExpiry"} => run'[k].pc = run[k].pc
    BY <1>4 DEF Reads
  <2> QED
    BY <2>1, <2>2 DEF Reads, GoneTogether, Marked, HasRow, HasUser, At
<1>5. StepTrue(j)
  BY <1>2, <1>3, <1>4 DEF StepTrue, Reads
<1> QED
  BY <1>1, <1>5, CKept

-----------------------------------------------------------------------------
\* The steps that read, and the failures.

\* A run that begins holds nothing yet.
LEMMA StartTrue ==
  ASSUME IInv, CInv, NEW j \in Runs, NEW o \in Ops, Start(j, o)
  PROVE  Reads(j)
<1>0. run \in [Runs -> RunStates]
  BY DEF IInv, TypeOK
<1>1. RunFits(j)'
  BY <1>0, FirstCallType
     DEF Start, RunFits, HoldsRow, RunStates, At, Op, Copy, Info, PageOps, StatusOps,
         EnableOps, PanelStatusOps, FirstCall, CInv
<1>2. RunTrue(j)'
  BY <1>0, FirstCallType DEF Start, RunTrue, HoldsUser, RunStates, At, Op
<1>3. ~Changing(j) /\ run[j].pc \notin {"drop", "mark", "markExpiry"}
  BY DEF Start, Changing, At
<1>4. \A k \in Runs \ {j} : run'[k] = run[k]
  BY <1>0 DEF Start
<1> QED
  BY <1>1, <1>2, <1>3, <1>4 DEF Start, Reads, Clean

\* The copy is read from a row.
LEMMA ReadTrue ==
  ASSUME IInv, CInv, NEW j \in Runs, Read(j)
  PROVE  Reads(j)
<1>0. run \in [Runs -> RunStates]
  BY DEF IInv, TypeOK
<1>1. RunFits(j)'
  BY <1>0, FirstCallType
     DEF Read, Finish, Idle, RunFits, HoldsRow, HasRow, RunStates, At, Op, Copy, Info,
         PageOps, StatusOps, EnableOps, PanelStatusOps, FirstCall, CInv
<1>2. RunTrue(j)'
  BY <1>0, FirstCallType DEF Read, Finish, Idle, RunTrue, HoldsUser, RunStates, At, Op
<1>3. ~Changing(j) /\ run[j].pc \notin {"drop", "mark", "markExpiry"}
  BY DEF Read, Changing, At
<1>4. \A k \in Runs \ {j} : run'[k] = run[k]
  BY <1>0 DEF Read, Finish
<1> QED
  BY <1>1, <1>2, <1>3, <1>4 DEF Read, Reads, Clean

\* So is the copy of the cron jobs.
LEMMA ListTrue ==
  ASSUME IInv, CInv, NEW j \in Runs, List(j)
  PROVE  Reads(j)
<1>0. run \in [Runs -> RunStates]
  BY DEF IInv, TypeOK
<1>1. RunFits(j)'
  BY <1>0, FirstCallType
     DEF List, Finish, Idle, RunFits, HoldsRow, HasRow, RunStates, At, Op, Copy, Info,
         PageOps, StatusOps, EnableOps, PanelStatusOps, FirstCall, CInv
<1>2. RunTrue(j)'
  BY <1>0, FirstCallType DEF List, Finish, Idle, RunTrue, HoldsUser, RunStates, At, Op
<1>3. ~Changing(j) /\ run[j].pc \notin {"drop", "mark", "markExpiry"}
  BY DEF List, Changing, At
<1>4. \A k \in Runs \ {j} : run'[k] = run[k]
  BY <1>0 DEF List, Finish
<1> QED
  BY <1>1, <1>2, <1>3, <1>4 DEF List, Reads, Clean

\* A user was read, so it was there.
LEMMA CurTrue ==
  ASSUME IInv, CInv, NEW j \in Runs, Cur(j)
  PROVE  Reads(j)
<1>0. run \in [Runs -> RunStates] /\ user \in Users /\ kind \in Kinds
  BY DEF IInv, TypeOK
<1>1. RunFits(j)'
  <2>1. Reported.state # "none"
    BY <1>0 DEF Cur, HasUser, Reported, Users
  <2> QED
    BY <1>0, <2>1 DEF Cur, RunFits, HoldsRow, RunStates, At, Op, Copy, Info, CInv
<1>2. RunTrue(j)'
  BY <1>0 DEF Cur, RunTrue, HoldsUser, RunStates, At, Op
<1>3. ~Changing(j) /\ run[j].pc \notin {"drop", "mark", "markExpiry"}
  BY DEF Cur, Changing, At
<1>4. \A k \in Runs \ {j} : run'[k] = run[k]
  BY <1>0 DEF Cur
<1> QED
  BY <1>1, <1>2, <1>3, <1>4 DEF Cur, Reads, Clean

\* What is read from the panel is true when it is read.
LEMMA GetUserTrue ==
  ASSUME IInv, CInv, NEW j \in Runs, GetUser(j)
  PROVE  Reads(j)
<1>0. run \in [Runs -> RunStates] /\ user \in Users /\ kind \in Kinds
  BY DEF IInv, TypeOK
<1>1. RunFits(j)'
  BY <1>0 DEF GetUser, RunFits, HoldsRow, RunStates, At, Op, Copy, Info, CInv
<1>2. RunTrue(j)'
  <2>1. SameTerms(Reported, user) /\ (kind = "marzban" => Reported.state = user.state)
    BY <1>0 DEF Reported, SameTerms, Users
  <2>2. Info(j)' = Reported /\ ~At(j, "close")' /\ ~At(j, "mark")' /\ ~At(j, "markExpiry")'
    BY <1>0 DEF GetUser, RunStates, At, Info
  <2> QED
    BY <2>1, <2>2 DEF GetUser, RunTrue, SameTerms
<1>3. Changing(j) => Changing(j)'
  BY <1>0 DEF GetUser, Changing, RunStates, At, Op
<1>4. \A k \in Runs \ {j} : run'[k] = run[k]
  BY <1>0 DEF GetUser
<1> QED
  BY <1>1, <1>2, <1>3, <1>4 DEF GetUser, Reads, Clean, At

\* Without a row there is no user either, and nothing to write.
LEMMA RereadTrue ==
  ASSUME IInv, CInv, NEW j \in Runs, Reread(j)
  PROVE  Reads(j)
<1>0. run \in [Runs -> RunStates]
  BY DEF IInv, TypeOK
<1>1. RunFits(j)'
  BY <1>0
     DEF Reread, Finish, Idle, RunFits, HoldsRow, HasRow, RunStates, At, Op, Copy, Info,
         CInv
<1>2. ASSUME Clean' PROVE RunTrue(j)'
  <2>1. RunTrue(j)
    BY <1>2 DEF Reread, Clean, CInv
  <2> QED
    BY <1>0, <2>1
       DEF Reread, Finish, Idle, RunTrue, HoldsUser, RunStates, At, Op, Info, Copy, HasUser
<1>3. HasRow /\ Changing(j) => Changing(j)'
  BY <1>0 DEF Reread, Changing, RunStates, At, Op, CInv, RunFits
<1>4. \A k \in Runs \ {j} : run'[k] = run[k]
  BY <1>0 DEF Reread, Finish
<1> QED
  BY <1>1, <1>2, <1>3, <1>4 DEF Reread, Reads, Clean, At

\* A run that fails with something to write is counted as cut off.
LEMMA FailTrue ==
  ASSUME IInv, CInv, NEW j \in Runs, Fail(j)
  PROVE  Reads(j)
<1>0. run \in [Runs -> RunStates]
  BY DEF IInv, TypeOK
<1>1. RunFits(j)'
  BY <1>0
     DEF Fail, Finish, Goto, Idle, RunFits, HoldsRow, RunStates, At, Op, Copy, Info,
         CInv, PageOps, Saved, Rows
<1>2. ASSUME Clean' PROVE RunTrue(j)'
  <2>1. At(j, "close")' => ~HasUser'
    BY <1>0, <1>2 DEF Fail, Finish, Goto, Idle, RunStates, At, Op, Clean, HasUser, Pending
  <2> QED
    BY <1>0, <2>1 DEF Fail, Finish, Goto, Idle, RunTrue, HoldsUser, RunStates, At, Op
<1>3. Clean' => ~Pending(j) /\ Clean
  BY DEF Fail, Clean
<1>4. \A k \in Runs \ {j} : run'[k] = run[k]
  BY <1>0 DEF Fail, Finish, Goto
<1>5. Changing(j) \/ run[j].pc \in {"drop", "mark", "markExpiry"} => Pending(j)
  BY DEF Changing, Pending, At
<1> QED
  BY <1>1, <1>2, <1>3, <1>4, <1>5 DEF Fail, Reads

\* A run that acts without racing does so on the row it copied, beside no run that has
\* something to write down.
LEMMA ActClean ==
  ASSUME NEW j \in Runs, NEW stale \in BOOLEAN, Act(j, stale), broken' = broken, Clean'
  PROVE  Clean /\ ~stale /\ \A k \in Runs \ {j} : ~Pending(k) /\ ~Changing(k)
<1>1. Clean /\ ~stale /\ \A k \in Runs \ {j} : ~Pending(k)
  BY DEF Act, Clean
<1>2. \A k \in Runs : Changing(k) => Pending(k)
  BY DEF Changing, Pending, At
<1> QED
  BY <1>1, <1>2

\* Beside no other run, the row tells the truth about the panel, or this run is about
\* to write the difference down.
LEMMA AloneAgrees ==
  ASSUME CInv, Clean, NEW j \in Runs, \A k \in Runs \ {j} : ~Changing(k), ~Changing(j)
  PROVE  Agree
BY DEF CInv, Explained

\* An acting run spares the others: there is none that it could harm.
LEMMA ActSpares ==
  ASSUME NEW j \in Runs, NEW stale \in BOOLEAN, Act(j, stale), broken' = broken,
         kind' = kind, \A k \in Runs \ {j} : run'[k] = run[k]
  PROVE  Spares(j)
BY ActClean DEF Spares

\* The panel is changed first: the run now has the difference to write down.
LEMMA PutTrue ==
  ASSUME IInv, CInv, NEW j \in Runs, Put(j)
  PROVE  Spares(j) /\ StepTrue(j)
<1>0. /\ run \in [Runs -> RunStates] /\ user \in Users /\ row \in Rows
      /\ now \in Nat /\ Copy(j) \in Rows /\ Info(j) \in Users /\ kind \in {"marzban", "xui"}
  BY KindsAssumption DEF IInv, TypeOK, RunStates, Copy, Info
<1> DEFINE stale == \/ Op(j) \notin PageOps /\ row # Copy(j)
                    \/ (Op(j) \notin StatusOps \/ kind = "xui")
                         /\ <<user.expire, user.limit>> # <<Info(j).expire, Info(j).limit>>
<1>1. stale \in BOOLEAN /\ Act(j, stale) /\ broken' = broken
  BY DEF Put
<1>2. run' = [run EXCEPT ![j].info = NoUser, ![j].pc = AfterPut(Op(j))]
  BY DEF Put
<1>3. /\ \A k \in Runs \ {j} : run'[k] = run[k]
      /\ run'[j].pc = AfterPut(Op(j)) /\ run'[j].op = Op(j) /\ run'[j].copy = Copy(j)
  BY <1>0, <1>2 DEF RunStates, Op, Copy
<1>4. Spares(j)
  <2>1. kind' = kind
    BY DEF Put
  <2> HIDE DEF stale
  <2> QED
    BY <1>1, <1>3, <2>1, ActSpares
<1>5. Op(j) # "poll" /\ Op(j) # "panelReset"
  BY DEF Put, At, CInv, RunFits
<1>6. HasUser'
  <2>1. Updated(Op(j), Info(j)).state # "none"
    BY <1>0 DEF Put, CInv, RunFits, Updated, Users, HasUser, EnableOps, StatusOps, At
  <2> QED
    BY <2>1 DEF Put, HasUser
<1>7. Tidy' /\ WarnedOnce'
  BY <1>4, <1>6 DEF Put, CInv, Tidy, WarnedOnce, HasRow, Spares, Clean
<1>8. RunFits(j)'
  <2>1. HoldsRow(j)' => HoldsRow(j)
    BY <1>3, <1>5 DEF Put, HoldsRow, AfterPut, PanelStatusOps, PageOps, At, Op
  <2> QED
    BY <1>3, <1>5, <2>1 DEF Put, CInv, RunFits, AfterPut, At, Op, Copy
<1>9. Changing(j)'
  BY <1>3, <1>5 DEF Changing, AfterPut, PanelStatusOps, At, Op
<1>10. ASSUME Clean' PROVE Marked' /\ RunTrue(j)'
  <2>1. Clean /\ ~stale /\ (\A k \in Runs \ {j} : ~Pending(k) /\ ~Changing(k)) /\ ~Changing(j)
    <3>1. ~Changing(j)
      BY DEF Put, Changing, At
    <3> HIDE DEF stale
    <3> QED
      BY <1>1, <1>10, <3>1, ActClean
  <2>2. Marked'
    <3>1. \A k \in Runs : run[k].pc \notin {"mark", "markExpiry"}
      BY <2>1 DEF Put, Pending, At
    <3> QED
      BY <2>1, <3>1 DEF Put, CInv, Marked, HasRow, At
  <2>3. Agree
    BY <2>1, AloneAgrees
  <2>4. run'[j].pc \notin {"save", "mark", "markExpiry"} /\ ~HoldsUser(j)'
    BY <1>3 DEF AfterPut, HoldsUser, At, Op, PanelStatusOps
  <2>5. ASSUME At(j, "close")'
        PROVE  SameTerms(Copy(j), user)' /\ user'.state = "disabled"
    <3>1. Op(j) = "expiry"
      BY <1>3, <2>5 DEF AfterPut, At
    <3>2. row = Copy(j) /\ (kind = "xui" => SameTerms(Info(j), user))
      BY <2>1, <3>1 DEF PageOps, SameTerms
    <3>3. /\ Updated("expiry", Info(j)).state = "disabled"
          /\ SameTerms(Updated("expiry", Info(j)), user)
      BY <1>0, <3>2 DEF Updated, Users, SameTerms, NewExpire, NewLimit, StatusOps, EnableOps
    <3> QED
      BY <1>3, <2>3, <3>1, <3>2, <3>3 DEF Put, Agree, SameTerms, Copy
  <2> QED
    BY <2>2, <2>4, <2>5 DEF RunTrue, At
<1> QED
  BY <1>4, <1>6, <1>7, <1>8, <1>9, <1>10 DEF StepTrue, Explained, GoneTogether

\* A save that does not race writes what the panel says, or the traffic only.
LEMMA SaveTrue ==
  ASSUME IInv, CInv, NEW j \in Runs, Save(j)
  PROVE  Spares(j) /\ StepTrue(j)
<1>0. /\ run \in [Runs -> RunStates] /\ user \in Users /\ row \in Rows
      /\ Copy(j) \in Rows /\ Info(j) \in Users /\ kind \in {"marzban", "xui"}
  BY KindsAssumption DEF IInv, TypeOK, RunStates, Copy, Info
<1>1. Act(j, row # Copy(j)) /\ broken' = broken /\ kind' = kind /\ user' = user
  BY DEF Save
<1>3. \A k \in Runs \ {j} : run'[k] = run[k]
  BY <1>0 DEF Save, Finish
<1>4. Spares(j)
  BY <1>1, <1>3, ActSpares
<1>5. Copy(j).status # "none"
  BY DEF Save, CInv, RunFits, HoldsRow, At
<1>6. HasRow'
  BY <1>0, <1>5 DEF Save, HasRow, Saved, WithInfo, Rows
<1>7. Tidy' /\ WarnedOnce'
  BY <1>4, <1>6 DEF Save, CInv, Tidy, WarnedOnce, HasUser, Spares, Clean
<1>8. RunFits(j)'
  BY <1>0, <1>5
     DEF Save, Finish, Idle, Saved, RunFits, CInv, HoldsRow, RunStates, Rows, At, Op, Copy, Info
<1>9. ASSUME Clean' PROVE Agree' /\ Marked' /\ RunTrue(j)'
  <2>1. /\ Clean /\ row = Copy(j)
        /\ \A k \in Runs \ {j} : ~Pending(k) /\ ~Changing(k)
    BY <1>1, <1>9, ActClean
  <2>2. HasRow /\ HasUser
    <3>1. \A k \in Runs : ~At(k, "drop")
      BY <2>1 DEF Save, Pending, At
    <3> QED
      BY <1>5, <2>1, <3>1 DEF CInv, GoneTogether, HasRow
  <2>3. Agree'
    <3>1. CASE Op(j) = "poll"
      <4>1. Agree
        BY <2>1, <3>1, AloneAgrees DEF Save, Changing, At
      <4>2. row' = [row EXCEPT !.used = Info(j).used]
        BY <2>1, <3>1 DEF Save, Saved
      <4> QED
        BY <1>0, <1>1, <4>1, <4>2 DEF Agree, HasRow, HasUser, SameTerms, Rows
    <3>2. CASE Op(j) # "poll"
      <4>1. SameTerms(Info(j), user) /\ (kind = "marzban" => Info(j).state = user.state)
        BY <2>1, <2>2, <3>2 DEF Save, CInv, RunTrue, HoldsUser
      <4>2. row' = WithInfo(row, Info(j))
        BY <2>1, <3>2 DEF Save, Saved
      <4>3. SameTerms(row', user)
        BY <1>0, <4>1, <4>2 DEF WithInfo, SameTerms, Rows
      <4>4. kind = "marzban" => (row'.status = "active" <=> user.state = "enabled")
        BY <1>0, <4>1, <4>2 DEF WithInfo, Rows
      <4> QED
        BY <1>1, <1>6, <2>2, <4>3, <4>4 DEF Agree, SameTerms, HasUser
    <3> QED
      BY <3>1, <3>2
  <2>4. Marked'
    <3>1. \A k \in Runs : run[k].pc \notin {"mark", "markExpiry"}
      BY <2>1 DEF Save, Pending, At
    <3>2. row'.warned = row.warned /\ row'.warnedAt = row.warnedAt
      BY <1>0, <2>1 DEF Save, Saved, WithInfo, Rows
    <3> QED
      BY <2>1, <2>2, <3>1, <3>2 DEF Save, CInv, Marked, At
  <2>5. RunTrue(j)'
    BY <1>0 DEF Save, Finish, Idle, RunTrue, HoldsUser, RunStates, At, Op
  <2> QED
    BY <2>3, <2>4, <2>5
<1> QED
  BY <1>4, <1>7, <1>8, <1>9 DEF StepTrue, Explained, GoneTogether, Agree

\* Resetting the traffic leaves the terms.
LEMMA ZeroTrue ==
  ASSUME IInv, CInv, NEW j \in Runs, Zero(j)
  PROVE  Spares(j) /\ StepTrue(j)
<1>0. run \in [Runs -> RunStates] /\ user \in Users
  BY DEF IInv, TypeOK
<1>1. /\ \A k \in Runs \ {j} : run'[k] = run[k]
      /\ run'[j] = [run[j] EXCEPT !.pc = IF Op(j) = "panelReset" THEN "reread" ELSE "saveZero"]
  BY <1>0 DEF Zero, Goto
<1>2. SameTerms(user', user) /\ user'.state = user.state /\ HasUser /\ (Clean' <=> Clean)
  BY <1>0 DEF Zero, Users, SameTerms, Clean
<1>3. Spares(j)
  BY <1>1, <1>2 DEF Spares, Zero, HasUser
<1>4. Tidy' /\ WarnedOnce'
  BY <1>2 DEF Zero, CInv, Tidy, WarnedOnce, HasRow, HasUser, Clean
<1>5. RunFits(j)'
  <2>1. At(j, "zero") /\ Op(j)' = Op(j) /\ Copy(j)' = Copy(j)
    BY <1>0, <1>1 DEF Zero, RunStates, Op, Copy
  <2>2. At(j, "saveZero")' => Copy(j).status # "none"
    BY <1>0, <1>1, <2>1 DEF IInv, RunSafe, RunStates, At, Op
  <2> QED
    BY <1>0, <1>1, <2>1, <2>2 DEF CInv, RunFits, HoldsRow, RunStates, At
<1>6. ASSUME Clean' PROVE Explained' /\ GoneTogether' /\ Marked' /\ RunTrue(j)'
  <2>1. Explained /\ GoneTogether /\ Marked
    BY <1>2, <1>6 DEF CInv
  <2>2. ~Changing(j) /\ run[j].pc \notin {"drop", "mark", "markExpiry"}
    BY DEF Zero, Changing, At
  <2>3. \A k \in Runs \ {j} : Changing(k) => Changing(k)'
    BY <1>1 DEF Changing, At, Op
  <2>4. Explained'
    BY <1>2, <2>1, <2>2, <2>3 DEF Zero, Explained, Agree, HasRow, HasUser, SameTerms
  <2>5. GoneTogether' /\ Marked'
    BY <1>1, <1>2, <2>1, <2>2 DEF Zero, GoneTogether, Marked, HasRow, HasUser, At
  <2>6. RunTrue(j)'
    BY <1>0, <1>1 DEF Zero, RunTrue, HoldsUser, RunStates, At, Op
  <2> QED
    BY <2>4, <2>5, <2>6
<1> QED
  BY <1>3, <1>4, <1>5, <1>6 DEF StepTrue

\* The reset of the row leaves the terms too.
LEMMA SaveZeroTrue ==
  ASSUME IInv, CInv, NEW j \in Runs, SaveZero(j)
  PROVE  Spares(j) /\ StepTrue(j)
<1>0. run \in [Runs -> RunStates] /\ row \in Rows /\ Copy(j) \in Rows
  BY DEF IInv, TypeOK, RunStates, Copy
<1>1. Act(j, row # Copy(j)) /\ broken' = broken /\ kind' = kind /\ user' = user
  BY DEF SaveZero
<1>2. run'[j] = Idle /\ \A k \in Runs \ {j} : run'[k] = run[k]
  BY <1>0 DEF SaveZero, Finish
<1>3. Spares(j)
  BY <1>1, <1>2, ActSpares
<1>4. HasRow'
  BY <1>0 DEF SaveZero, CInv, RunFits, HoldsRow, At, HasRow, Rows
<1>5. Tidy' /\ WarnedOnce'
  BY <1>3, <1>4 DEF SaveZero, CInv, Tidy, WarnedOnce, HasUser, Spares, Clean
<1>6. RunFits(j)' /\ RunTrue(j)'
  BY <1>2 DEF RunFits, RunTrue, HoldsRow, HoldsUser, Idle, At, Op
<1>7. ASSUME Clean' PROVE Agree' /\ Marked'
  <2>1. /\ Clean /\ row = Copy(j)
        /\ \A k \in Runs \ {j} : ~Pending(k) /\ ~Changing(k)
    BY <1>1, <1>7, ActClean
  <2>2. row' = [row EXCEPT !.used = 0]
    BY <2>1 DEF SaveZero
  <2>3. Agree
    BY <2>1, AloneAgrees DEF SaveZero, Changing, At
  <2>4. Agree'
    BY <1>0, <1>1, <2>2, <2>3 DEF Agree, HasRow, HasUser, SameTerms, Rows
  <2>5. \A k \in Runs : run[k].pc \notin {"mark", "markExpiry"}
    BY <2>1 DEF SaveZero, Pending, At
  <2>6. Marked'
    BY <1>0, <2>1, <2>2, <2>5 DEF SaveZero, CInv, Marked, HasRow, At, Rows
  <2> QED
    BY <2>4, <2>6
<1> QED
  BY <1>3, <1>5, <1>6, <1>7 DEF StepTrue, Explained, GoneTogether, Agree

\* The user is gone and its row about to go.
LEMMA DeleteUserTrue ==
  ASSUME IInv, CInv, NEW j \in Runs, DeleteUser(j)
  PROVE  Spares(j) /\ StepTrue(j)
<1>0. run \in [Runs -> RunStates]
  BY DEF IInv, TypeOK
<1>1. /\ \A k \in Runs \ {j} : run'[k] = run[k]
      /\ run'[j] = [run[j] EXCEPT !.pc = "drop"]
  BY <1>0 DEF DeleteUser, Goto
<1>2. ~HasUser' /\ (Clean' <=> Clean)
  BY DEF DeleteUser, HasUser, NoUser, Clean
<1>3. Spares(j)
  BY <1>1, <1>2 DEF Spares, DeleteUser
<1>4. Tidy' /\ WarnedOnce'
  BY DEF DeleteUser, CInv, Tidy, WarnedOnce, HasRow, HasUser
<1>5. At(j, "drop")' /\ Op(j)' = Op(j)
  BY <1>0, <1>1 DEF RunStates, At, Op
<1>6. RunFits(j)' /\ RunTrue(j)'
  BY <1>5 DEF DeleteUser, CInv, RunFits, RunTrue, HoldsRow, HoldsUser, At
<1>7. ASSUME Clean' PROVE Marked'
  BY <1>1, <1>2, <1>7 DEF DeleteUser, CInv, Marked, HasRow, At
<1> QED
  BY <1>3, <1>4, <1>5, <1>6, <1>7 DEF StepTrue, Explained, GoneTogether, Changing, At

\* Both are gone.
LEMMA DeleteRowTrue ==
  ASSUME IInv, CInv, NEW j \in Runs, DeleteRow(j)
  PROVE  Spares(j) /\ StepTrue(j)
<1>0. run \in [Runs -> RunStates] /\ ~HasUser
  BY DEF IInv, TypeOK, DeleteRow, RunSafe
<1>1. run'[j] = Idle /\ \A k \in Runs \ {j} : run'[k] = run[k]
  BY <1>0 DEF DeleteRow, Finish
<1>2. ~HasRow' /\ ~HasUser' /\ (Clean' <=> Clean)
  BY <1>0 DEF DeleteRow, HasRow, HasUser, NoRow, Clean
<1>3. Spares(j)
  BY <1>1, <1>2 DEF Spares, DeleteRow
<1>4. Tidy' /\ WarnedOnce'
  BY DEF DeleteRow, CInv, Tidy, WarnedOnce, HasUser
<1>5. RunFits(j)' /\ RunTrue(j)'
  BY <1>1 DEF RunFits, RunTrue, HoldsRow, HoldsUser, Idle, At, Op
<1>6. Agree'
  <2>1. row' = NoRow /\ user' = NoUser
    BY <1>0 DEF DeleteRow, CInv, Tidy
  <2> QED
    BY <1>2, <2>1 DEF Agree, SameTerms, NoRow, NoUser
<1> QED
  BY <1>2, <1>3, <1>4, <1>5, <1>6 DEF StepTrue, Explained, GoneTogether, Marked

\* A warning that is not due ends the run and changes nothing.
LEMMA EndsTrue ==
  ASSUME IInv, CInv, NEW j \in Runs, Finish(j), ~Changing(j),
         run[j].pc \notin {"drop", "mark", "markExpiry"},
         UNCHANGED <<kind, row, user, told, repeated, raced, broken>>
  PROVE  Reads(j)
<1>0. run \in [Runs -> RunStates]
  BY DEF IInv, TypeOK
<1>1. run'[j] = Idle /\ \A k \in Runs \ {j} : run'[k] = run[k]
  BY <1>0 DEF Finish
<1>2. RunFits(j)' /\ RunTrue(j)'
  BY <1>1 DEF RunFits, RunTrue, HoldsRow, HoldsUser, Idle, At, Op
<1> QED
  BY <1>1, <1>2 DEF Reads, Clean

\* A usage warning that does not race is higher than every earlier one.
LEMMA WarnTrue ==
  ASSUME IInv, CInv, NEW j \in Runs, Warn(j)
  PROVE  Reads(j) \/ (Spares(j) /\ StepTrue(j))
<1>0. run \in [Runs -> RunStates] /\ Copy(j) \in Rows
  BY DEF IInv, TypeOK, RunStates, Copy
<1>1. CASE ~MustWarn(Copy(j))
  <2>1. ~Changing(j) /\ run[j].pc \notin {"drop", "mark", "markExpiry"}
    BY DEF Warn, Changing, At
  <2>2. Finish(j) /\ UNCHANGED <<kind, row, user, told, repeated, raced, broken>>
    BY <1>1 DEF Warn
  <2> QED
    BY <2>1, <2>2, EndsTrue
<1>2. CASE MustWarn(Copy(j))
  <2>1. Act(j, row # Copy(j)) /\ broken' = broken /\ kind' = kind /\ user' = user /\ row' = row
    BY <1>2 DEF Warn
  <2>2. /\ \A k \in Runs \ {j} : run'[k] = run[k]
        /\ run'[j].pc = "mark" /\ run'[j].op = Op(j) /\ run'[j].copy = Copy(j)
    BY <1>0, <1>2 DEF Warn, Goto, RunStates, Op, Copy
  <2>3. Spares(j)
    BY <2>1, <2>2, ActSpares
  <2>4. RunFits(j)'
    BY <1>0, <2>2 DEF Warn, CInv, RunFits, HoldsRow, At, Op, Copy
  <2>5. told' = [told EXCEPT !.usage = Level(Copy(j))]
    BY <1>2 DEF Warn
  <2>6. told'.usage = Level(Copy(j)) /\ told'.expiry = told.expiry
    BY <2>5 DEF IInv, TypeOK
  <2>7. ASSUME Clean'
        PROVE  /\ WarnedOnce' /\ Explained' /\ GoneTogether' /\ Marked' /\ RunTrue(j)'
    <3>1. /\ Clean /\ row = Copy(j)
          /\ \A k \in Runs \ {j} : ~Pending(k) /\ ~Changing(k)
      BY <2>1, <2>7, ActClean
    <3>2. \A k \in Runs : run[k].pc \notin {"drop", "mark", "markExpiry"}
      BY <3>1 DEF Warn, Pending, At
    <3>3. Agree /\ HasRow
      <4>1. Agree
        BY <3>1, AloneAgrees DEF Warn, Changing, At
      <4>2. HasRow
        BY <3>1 DEF Warn, CInv, RunFits, HoldsRow, At, HasRow
      <4> QED
        BY <4>1, <4>2
    <3>4. told.usage <= row.warned /\ told.expiry = row.warnedAt
      BY <3>1, <3>2, <3>3 DEF CInv, Marked, At
    <3>5. ~(Level(Copy(j)) <= told.usage)
      <4>1. Level(Copy(j)) \in Nat /\ Level(Copy(j)) > row.warned /\ row.warned \in Nat
            /\ told.usage \in Nat
        BY <1>0, <1>2, <3>1, LevelType DEF MustWarn, IInv, TypeOK, Rows
      <4> HIDE DEF Level
      <4> QED
        BY <3>4, <4>1
    <3>6. WarnedOnce'
      BY <1>2, <2>7, <3>1, <3>5 DEF Warn, CInv, WarnedOnce, Clean
    <3>7. Agree' /\ GoneTogether'
      BY <2>1, <3>3 DEF Agree, GoneTogether, HasRow, HasUser, SameTerms
    <3>8. Marked'
      BY <2>1, <2>2, <2>6, <3>4 DEF Marked, At
    <3>9. RunTrue(j)'
      BY <2>2, <2>6 DEF RunTrue, HoldsUser, At, Op, Copy
    <3> QED
      BY <3>6, <3>7, <3>8, <3>9 DEF Explained
  <2>8. Tidy' /\ WarnedOnce'
    BY <2>1, <2>7 DEF CInv, Tidy, WarnedOnce, HasRow, HasUser, Clean
  <2> QED
    BY <2>3, <2>4, <2>7, <2>8 DEF StepTrue
<1> QED
  BY <1>1, <1>2

\* The mark that is stored is the warning that was sent.
LEMMA MarkTrue ==
  ASSUME IInv, CInv, NEW j \in Runs, Mark(j)
  PROVE  Spares(j) /\ StepTrue(j)
<1>0. run \in [Runs -> RunStates] /\ row \in Rows /\ Copy(j) \in Rows
  BY DEF IInv, TypeOK, RunStates, Copy
<1>1. Act(j, row # Copy(j)) /\ broken' = broken /\ kind' = kind /\ user' = user
  BY DEF Mark
<1>2. run'[j] = Idle /\ \A k \in Runs \ {j} : run'[k] = run[k]
  BY <1>0 DEF Mark, Finish
<1>3. Spares(j)
  BY <1>1, <1>2, ActSpares
<1>4. HasRow'
  BY <1>0 DEF Mark, CInv, RunFits, HoldsRow, At, HasRow, Rows
<1>5. Tidy' /\ WarnedOnce'
  BY <1>3, <1>4 DEF Mark, CInv, Tidy, WarnedOnce, HasUser, Spares, Clean
<1>6. RunFits(j)' /\ RunTrue(j)'
  BY <1>2 DEF RunFits, RunTrue, HoldsRow, HoldsUser, Idle, At, Op
<1>7. ASSUME Clean' PROVE Agree' /\ Marked'
  <2>1. /\ Clean /\ row = Copy(j)
        /\ \A k \in Runs \ {j} : ~Pending(k) /\ ~Changing(k)
    BY <1>1, <1>7, ActClean
  <2>2. told.usage = Level(Copy(j)) /\ Level(Copy(j)) \in Nat
    BY <1>0, <2>1, LevelType DEF Mark, CInv, RunTrue, IInv, RunSafe
  <2>3. /\ row'.warned = told.usage /\ row'.warnedAt = row.warnedAt
        /\ SameTerms(row', row) /\ row'.status = row.status
    BY <1>0, <2>1, <2>2 DEF Mark, Rows, SameTerms
  <2>4. Agree
    BY <2>1, AloneAgrees DEF Mark, Changing, At
  <2>5. Agree'
    BY <1>1, <2>3, <2>4 DEF Agree, HasRow, HasUser, SameTerms
  <2>6. ~(\E k \in Runs : At(k, "markExpiry"))
    BY <2>1 DEF Mark, Pending, At
  <2>7. HasRow
    BY <1>4, <2>3 DEF HasRow
  <2>8. told.expiry = row.warnedAt
    BY <2>1, <2>6, <2>7 DEF CInv, Marked
  <2>9. told' = told
    BY DEF Mark
  <2>10. Marked'
    BY <2>2, <2>3, <2>8, <2>9 DEF Marked
  <2> QED
    BY <2>5, <2>10
<1> QED
  BY <1>3, <1>5, <1>6, <1>7 DEF StepTrue, Explained, GoneTogether, Agree

\* An expiry warning that does not race comes a lead time after the last one.
LEMMA WarnExpiryTrue ==
  ASSUME IInv, CInv, NEW j \in Runs, WarnExpiry(j)
  PROVE  Reads(j) \/ (Spares(j) /\ StepTrue(j))
<1>0. run \in [Runs -> RunStates] /\ Copy(j) \in Rows /\ run[j].at \in Nat
  BY DEF IInv, TypeOK, RunStates, Copy
<1>1. CASE ~MustWarnExpiry(Copy(j), run[j].at)
  <2>1. ~Changing(j) /\ run[j].pc \notin {"drop", "mark", "markExpiry"}
    BY DEF WarnExpiry, Changing, At
  <2>2. Finish(j) /\ UNCHANGED <<kind, row, user, told, repeated, raced, broken>>
    BY <1>1 DEF WarnExpiry
  <2> QED
    BY <2>1, <2>2, EndsTrue
<1>2. CASE MustWarnExpiry(Copy(j), run[j].at)
  <2>1. Act(j, row # Copy(j)) /\ broken' = broken /\ kind' = kind /\ user' = user /\ row' = row
    BY <1>2 DEF WarnExpiry
  <2>2. /\ \A k \in Runs \ {j} : run'[k] = run[k]
        /\ run'[j].pc = "markExpiry" /\ run'[j].op = Op(j) /\ run'[j].at = run[j].at
    BY <1>0, <1>2 DEF WarnExpiry, Goto, RunStates, Op
  <2>3. Spares(j)
    BY <2>1, <2>2, ActSpares
  <2>4. RunFits(j)'
    BY <1>0, <2>2 DEF WarnExpiry, CInv, RunFits, HoldsRow, At, Op
  <2>5. told'.expiry = run[j].at /\ told'.usage = told.usage
    BY <1>2 DEF WarnExpiry, IInv, TypeOK
  <2>6. ASSUME Clean'
        PROVE  /\ WarnedOnce' /\ Explained' /\ GoneTogether' /\ Marked' /\ RunTrue(j)'
    <3>1. /\ Clean /\ row = Copy(j)
          /\ \A k \in Runs \ {j} : ~Pending(k) /\ ~Changing(k)
      BY <2>1, <2>6, ActClean
    <3>2. \A k \in Runs : run[k].pc \notin {"drop", "mark", "markExpiry"}
      BY <3>1 DEF WarnExpiry, Pending, At
    <3>3. Agree /\ HasRow
      <4>1. Agree
        BY <3>1, AloneAgrees DEF WarnExpiry, Changing, At
      <4>2. HasRow
        BY <3>1 DEF WarnExpiry, CInv, RunFits, HoldsRow, At, HasRow
      <4> QED
        BY <4>1, <4>2
    <3>4. told.usage <= row.warned /\ told.expiry = row.warnedAt
      BY <3>1, <3>2, <3>3 DEF CInv, Marked, At
    <3>5. ~(told.expiry # Never /\ run[j].at - told.expiry < LeadDays)
      <4>1. row.warnedAt # Never => run[j].at - row.warnedAt >= LeadDays
        BY <1>2, <3>1 DEF MustWarnExpiry
      <4>2. row.warnedAt \in Int /\ LeadDays \in Int /\ run[j].at \in Int
        BY <1>0, <3>1, ServiceBoundsAssumption DEF Rows, Never
      <4> QED
        BY <3>4, <4>1, <4>2
    <3>6. WarnedOnce'
      BY <1>2, <2>6, <3>1, <3>5 DEF WarnExpiry, CInv, WarnedOnce, Clean
    <3>7. Agree' /\ GoneTogether'
      BY <2>1, <3>3 DEF Agree, GoneTogether, HasRow, HasUser, SameTerms
    <3>8. Marked'
      BY <2>1, <2>2, <2>5, <3>4 DEF Marked, At
    <3>9. RunTrue(j)'
      BY <2>2, <2>5 DEF RunTrue, HoldsUser, At, Op
    <3> QED
      BY <3>6, <3>7, <3>8, <3>9 DEF Explained
  <2>7. Tidy' /\ WarnedOnce'
    BY <2>1, <2>6 DEF CInv, Tidy, WarnedOnce, HasRow, HasUser, Clean
  <2> QED
    BY <2>3, <2>4, <2>6, <2>7 DEF StepTrue
<1> QED
  BY <1>1, <1>2

\* Its column alone is written, so the rest of the row stays true.
LEMMA MarkExpiryTrue ==
  ASSUME IInv, CInv, NEW j \in Runs, MarkExpiry(j)
  PROVE  Spares(j) /\ StepTrue(j)
<1>0. run \in [Runs -> RunStates] /\ row \in Rows /\ run[j].at \in Nat
  BY DEF IInv, TypeOK, RunStates
<1>1. run'[j] = Idle /\ \A k \in Runs \ {j} : run'[k] = run[k]
  BY <1>0 DEF MarkExpiry, Finish
<1>2. /\ SameTerms(row', row) /\ row'.status = row.status /\ row'.warned = row.warned
      /\ HasRow => row'.warnedAt = run[j].at
      /\ ~HasRow => row' = row
      /\ Clean' <=> Clean
  BY <1>0 DEF MarkExpiry, SameTerms, Rows, Clean
<1>3. Spares(j)
  BY <1>1, <1>2 DEF Spares, MarkExpiry, SameTerms, HasUser
<1>4. Tidy' /\ WarnedOnce'
  BY <1>2 DEF MarkExpiry, CInv, Tidy, WarnedOnce, HasRow, HasUser
<1>5. RunFits(j)' /\ RunTrue(j)'
  BY <1>1 DEF RunFits, RunTrue, HoldsRow, HoldsUser, Idle, At, Op
<1>6. ASSUME Clean' PROVE Explained' /\ GoneTogether' /\ Marked'
  <2>1. Explained /\ GoneTogether /\ Marked /\ RunTrue(j)
    BY <1>2, <1>6 DEF CInv
  <2>2. ~Changing(j) /\ run[j].pc \notin {"drop", "mark"}
    BY DEF MarkExpiry, Changing, At
  <2>3. \A k \in Runs \ {j} : Changing(k) => Changing(k)'
    BY <1>1 DEF Changing, At, Op
  <2>4. Explained'
    BY <1>2, <2>1, <2>2, <2>3 DEF MarkExpiry, Explained, Agree, HasRow, HasUser, SameTerms
  <2>5. GoneTogether'
    BY <1>1, <1>2, <2>1, <2>2 DEF MarkExpiry, GoneTogether, HasRow, HasUser, At
  <2>6. Marked'
    <3>1. told' = told /\ told.expiry = run[j].at
      BY <2>1 DEF MarkExpiry, RunTrue
    <3>2. HasRow' <=> HasRow
      BY <1>2 DEF HasRow
    <3>3. (\E k \in Runs : At(k, "mark")) => (\E k \in Runs : At(k, "mark")')
      BY <1>1, <2>2 DEF At
    <3> QED
      BY <1>2, <2>1, <3>1, <3>2, <3>3 DEF Marked
  <2> QED
    BY <2>4, <2>5, <2>6
<1> QED
  BY <1>3, <1>4, <1>5, <1>6 DEF StepTrue

\* The closed row agrees with the user that was disabled.
LEMMA CloseTrue ==
  ASSUME IInv, CInv, NEW j \in Runs, Close(j)
  PROVE  Spares(j) /\ StepTrue(j)
<1>0. run \in [Runs -> RunStates] /\ row \in Rows /\ Copy(j) \in Rows /\ user \in Users
  BY DEF IInv, TypeOK, RunStates, Copy
<1>1. Act(j, row # Copy(j)) /\ broken' = broken /\ kind' = kind /\ user' = user
  BY DEF Close
<1>2. run'[j] = Idle /\ \A k \in Runs \ {j} : run'[k] = run[k]
  BY <1>0 DEF Close, Finish
<1>3. Spares(j)
  BY <1>1, <1>2, ActSpares
<1>4. row'.status = "expired"
  BY <1>0 DEF Close, Rows
<1>5. Tidy' /\ WarnedOnce'
  BY <1>3, <1>4 DEF Close, CInv, Tidy, WarnedOnce, HasRow, HasUser, Spares, Clean
<1>6. RunFits(j)' /\ RunTrue(j)'
  BY <1>2 DEF RunFits, RunTrue, HoldsRow, HoldsUser, Idle, At, Op
<1>7. ASSUME Clean' PROVE Agree' /\ Marked'
  <2>1. /\ Clean /\ row = Copy(j)
        /\ \A k \in Runs \ {j} : ~Pending(k) /\ ~Changing(k)
    BY <1>1, <1>7, ActClean
  <2>2. \A k \in Runs : run[k].pc \notin {"drop", "mark", "markExpiry"}
    BY <2>1 DEF Close, Pending, At
  <2>3. HasRow
    BY <2>1 DEF Close, CInv, RunFits, HoldsRow, At, HasRow
  <2>4. HasUser
    BY <2>1, <2>2, <2>3 DEF CInv, GoneTogether, At
  <2>5. SameTerms(row, user) /\ (kind = "marzban" => user.state = "disabled")
    BY <2>1, <2>4 DEF Close, CInv, RunTrue
  <2>6. SameTerms(row', row) /\ row'.warned = row.warned /\ row'.warnedAt = row.warnedAt
    BY <1>0, <2>1 DEF Close, Rows, SameTerms
  <2>7. Agree'
    BY <1>1, <1>4, <2>4, <2>5, <2>6 DEF Agree, HasRow, HasUser, SameTerms
  <2>8. Marked'
    BY <2>1, <2>2, <2>3, <2>6 DEF Close, CInv, Marked, At
  <2> QED
    BY <2>7, <2>8
<1> QED
  BY <1>3, <1>5, <1>6, <1>7 DEF StepTrue, Explained, GoneTogether, Agree

-----------------------------------------------------------------------------
\* A delivered service agrees with its panel.
LEMMA InitTrue == Init => CInv
<1> SUFFICES ASSUME Init PROVE CInv
  OBVIOUS
<1>1. \A j \in Runs : RunFits(j) /\ RunTrue(j)
  BY DEF Init, Idle, RunFits, RunTrue, HoldsRow, HoldsUser, At, Op
<1>2. Tidy /\ WarnedOnce /\ GoneTogether /\ Marked
  BY DEF Init, Tidy, WarnedOnce, GoneTogether, Marked, HasRow, HasUser
<1>3. Agree
  BY DEF Init, Agree, SameTerms, HasRow, HasUser
<1> QED
  BY <1>1, <1>2, <1>3 DEF CInv, Explained

\* A restart while something was still to be written is counted as cut off.
LEMMA CrashTrue == ASSUME CInv, Crash PROVE CInv'
<1>1. \A j \in Runs : RunFits(j)' /\ RunTrue(j)'
  BY DEF Crash, Idle, RunFits, RunTrue, HoldsRow, HoldsUser, At, Op
<1>2. Clean' => Clean /\ \A j \in Runs : ~Pending(j)
  BY DEF Crash, Clean
<1>3. Tidy' /\ WarnedOnce'
  BY <1>2 DEF Crash, CInv, Tidy, WarnedOnce, HasRow, HasUser, Clean
<1>4. ASSUME Clean' PROVE Explained' /\ GoneTogether' /\ Marked'
  <2>1. /\ Explained /\ GoneTogether /\ Marked
        /\ \A j \in Runs : ~Changing(j) /\ run[j].pc \notin {"drop", "mark", "markExpiry"}
    BY <1>2, <1>4 DEF CInv, Changing, Pending, At
  <2> QED
    BY <2>1 DEF Crash, Explained, Agree, SameTerms, GoneTogether, Marked, HasRow,
                HasUser, At
<1> QED
  BY <1>1, <1>3, <1>4 DEF CInv

\* A removal on the panel is counted as cut off; traffic and time change no terms.
LEMMA OutsideTrue == ASSUME IInv, CInv, DelDepleted \/ Use \/ Tick PROVE CInv'
<1>0. user \in Users
  BY DEF IInv, TypeOK
<1>1. /\ row' = row /\ run' = run /\ told' = told /\ repeated' = repeated /\ kind' = kind
      /\ Clean' => Clean /\ SameTerms(user', user) /\ user'.state = user.state
      /\ user'.state # "none" => user.state # "none"
      /\ ~HasUser' => user' = NoUser \/ user' = user
  BY <1>0 DEF DelDepleted, Use, Tick, Clean, SameTerms, Users, NoUser, HasUser
<1>2. Tidy' /\ WarnedOnce' /\ \A j \in Runs : RunFits(j)'
  BY <1>1 DEF CInv, Tidy, WarnedOnce, RunFits, HoldsRow, HasRow, HasUser, Clean, At, Op,
              Copy, Info
<1>3. ASSUME Clean' PROVE Explained' /\ GoneTogether' /\ Marked' /\ \A j \in Runs : RunTrue(j)'
  <2>1. /\ Explained /\ GoneTogether /\ Marked /\ \A j \in Runs : RunTrue(j)
        /\ SameTerms(user', user) /\ user'.state = user.state
    BY <1>1, <1>3 DEF CInv
  <2>2. Explained' /\ GoneTogether' /\ Marked'
    BY <1>1, <2>1 DEF Explained, Agree, SameTerms, GoneTogether, Marked, HasRow, HasUser,
                      Changing, At, Op
  <2>3. \A j \in Runs : RunTrue(j)'
    BY <1>1, <2>1 DEF RunTrue, HoldsUser, SameTerms, HasUser, At, Op, Copy, Info
  <2> QED
    BY <2>2, <2>3
<1> QED
  BY <1>2, <1>3 DEF CInv

\* Every step keeps both invariants.
LEMMA NextTrue == IInv /\ CInv /\ [Next]_vars => CInv'
<1> SUFFICES ASSUME IInv, CInv, [Next]_vars PROVE CInv'
  OBVIOUS
<1>1. ASSUME NEW j \in Runs, NEW o \in Ops, Start(j, o) PROVE CInv'
  BY <1>1, StartTrue, ReadsTrue
<1>2. ASSUME NEW j \in Runs, Step(j) PROVE CInv'
  <2>1. Reads(j) \/ (Spares(j) /\ StepTrue(j))
    BY <1>2, ReadTrue, ListTrue, CurTrue, PutTrue, GetUserTrue, RereadTrue, SaveTrue,
       ZeroTrue, SaveZeroTrue, DeleteUserTrue, DeleteRowTrue, WarnTrue, MarkTrue,
       WarnExpiryTrue, MarkExpiryTrue, CloseTrue, FailTrue DEF Step
  <2> QED
    BY <2>1, ReadsTrue, CKept
<1>3. CASE UNCHANGED vars
  BY <1>3 DEF vars, CInv, Tidy, WarnedOnce, RunFits, RunTrue, HoldsRow, HoldsUser, Clean,
     Explained, Agree, SameTerms, GoneTogether, Marked, Changing, HasRow, HasUser, At, Op,
     Copy, Info
<1> QED
  BY <1>1, <1>2, <1>3, CrashTrue, OutsideTrue DEF Next

\* The invariant of the runs and the truth between them, together.
LEMMA CleanInvariant == Spec => [](IInv /\ CInv)
<1>1. Init => IInv /\ CInv
  BY InitSafe, InitTrue
<1>2. (IInv /\ CInv) /\ [Next]_vars => (IInv /\ CInv)'
  BY NextSafe, NextTrue
<1> QED
  BY <1>1, <1>2, PTL DEF Spec

-----------------------------------------------------------------------------
\* Between runs the row tells the truth about the panel (service.go, scheduler.go): the
\* nine operations and the two jobs keep both sides equal, in every order, as long as no
\* two of them overlapped in a harmful way and none was cut off.
THEOREM ServiceRowFollowsPanel == Spec => []RowFollowsPanel
<1>1. CInv => RowFollowsPanel
  <2> SUFFICES ASSUME CInv, Clean, \A j \in Runs : ~Pending(j)
               PROVE  Agree
    BY DEF RowFollowsPanel, Agree, SameTerms, Clean
  <2>1. \A j \in Runs : ~Changing(j)
    BY DEF Changing, Pending, At
  <2> QED
    BY <2>1 DEF CInv, Explained
<1> QED
  BY CleanInvariant, <1>1, PTL

\* The customer is warned once (maybeWarn, sendExpiryWarn), although the message goes
\* out before its mark is stored and every save writes the whole row.
THEOREM ServiceWarnedOnce == Spec => []WarnedOnce
<1>1. CInv => WarnedOnce
  BY DEF CInv
<1> QED
  BY CleanInvariant, <1>1, PTL

\* The expiry check (checkExpiry) disables only a user whose term on the panel is over.
THEOREM ServiceCutOffIsDue == Spec => CutOffIsDue
<1> DEFINE Due(j) == /\ Op(j) = "expiry" /\ At(j, "put") /\ ~At(j, "put")'
                     /\ user.state = "enabled" /\ user'.state = "disabled"
                     => user.expire < now \/ raced' \/ broken
<1>1. ASSUME IInv, CInv, [Next]_vars, NEW j \in Runs PROVE Due(j)
  <2> SUFFICES ASSUME Op(j) = "expiry", At(j, "put"), ~At(j, "put")',
                      user.state = "enabled", user'.state = "disabled", ~raced', ~broken
               PROVE  user.expire < now
    OBVIOUS
  <2>0. run \in [Runs -> RunStates] /\ user \in Users
    BY <1>1 DEF IInv, TypeOK
  <2>1. Put(j)
    <3>1. ~(UNCHANGED vars \/ Crash \/ DelDepleted \/ Use \/ Tick)
      BY <2>0 DEF vars, Crash, DelDepleted, Use, Tick, NoUser, Users
    <3>2. PICK k \in Runs : (\E o \in Ops : Start(k, o)) \/ Step(k)
      BY <1>1, <3>1 DEF Next
    <3>3. Put(k) \/ Zero(k) \/ DeleteUser(k)
      BY <3>2 DEF Step, Start, Read, List, Cur, GetUser, Reread, Save, SaveZero,
         DeleteRow, Warn, Mark, WarnExpiry, MarkExpiry, Close, Fail
    <3>4. Put(k)
      BY <2>0, <3>3 DEF Zero, DeleteUser, NoUser, Users
    <3>5. k = j
      BY <2>0, <3>4 DEF Put, At
    <3> QED
      BY <3>4, <3>5
  <2>2. PICK stale \in BOOLEAN : Act(j, stale) /\ (row # Copy(j) => stale)
    BY <2>1 DEF Put, PageOps
  <2>3. Clean' /\ broken' = broken
    BY <2>1 DEF Put, Clean
  <2>4. Clean /\ row = Copy(j) /\ \A k \in Runs \ {j} : ~Changing(k)
    BY <2>2, <2>3, ActClean
  <2>5. Agree
    BY <1>1, <2>4, AloneAgrees DEF Changing, At
  <2>6. Copy(j).expire < now
    BY <1>1 DEF IInv, RunSafe, At
  <2> QED
    BY <2>4, <2>5, <2>6 DEF Agree, SameTerms
<1>2. IInv /\ CInv /\ [Next]_vars => [\A j \in Runs : Due(j)]_vars
  BY <1>1
<1>3. Spec => [][\A j \in Runs : Due(j)]_vars
  BY <1>2, CleanInvariant, PTL DEF Spec
<1> QED
  BY <1>3 DEF CutOffIsDue
=============================================================================
