-------------------------- MODULE PanelAccessProofs --------------------------
(***************************************************************************)
(* The cached client, the calls and the backups of PanelAccess, for any    *)
(* number of requests, edits, refusals and crashes and any retention.      *)
(*                                                                         *)
(* The backups need the longer invariant: whose file a name is, while a    *)
(* request has written it and not yet added its row, and while another is  *)
(* about to remove a row it listed some time ago.                          *)
(***************************************************************************)
EXTENDS PanelAccess, SequenceTheorems, TLAPS

Fields == {"pc", "kind", "id", "read", "client", "address", "name", "doomed",
           "method", "tries", "refusals", "body", "applied", "ok"}

\* Each request has its fields, and counts its attempts and their effects.
Shape(q) ==
    DOMAIN run[q] = Fields /\ run[q].tries \in Nat /\ run[q].applied \in Nat

\* A call that changes an account has changed nothing before it is answered,
\* and what it reports then is so.
CallRight(q) ==
    run[q].method # "GET" =>
        IF run[q].pc = "answered"
        THEN run[q].applied \in {0, 1} /\ (run[q].ok => run[q].applied = 1)
        ELSE run[q].applied = 0

RequestRight(q) == Shape(q) /\ CallRight(q)

IInv == /\ DOMAIN run = Runs
        /\ \A q \in Runs : RequestRight(q)
        /\ ClientIsCurrent

-----------------------------------------------------------------------------
(* Requests.                                                               *)

\* A request that starts is right, as is one that has ended.
LEMMA IdleShape ==
    /\ DOMAIN Idle = Fields /\ Idle.tries = 0 /\ Idle.applied = 0
    /\ Idle.pc = "idle" /\ Idle.method = "GET"
BY DEF Idle, Fields

\* A step of one request leaves the others right.
LEMMA OthersRight ==
    ASSUME IInv, NEW r \in Runs, NEW new, run' = [run EXCEPT ![r] = new],
           RequestRight(r)'
    PROVE  DOMAIN run' = Runs /\ \A q \in Runs : RequestRight(q)'
BY DEF IInv, RequestRight, Shape, CallRight

LEMMA FinishRight ==
    ASSUME IInv, NEW r \in Runs, Finish(r)
    PROVE  DOMAIN run' = Runs /\ \A q \in Runs : RequestRight(q)'
<1>1. run'[r] = Idle
  BY DEF Finish, IInv
<1>2. RequestRight(r)'
  BY <1>1, IdleShape DEF RequestRight, Shape, CallRight
<1> QED  BY <1>2, OthersRight DEF Finish

\* A request starts with nothing applied.
LEMMA StartRight ==
    ASSUME IInv, NEW r \in Runs, NEW new, Start(r, new),
           DOMAIN new = Fields, new.tries = 0, new.applied = 0,
           new.pc # "answered"
    PROVE  DOMAIN run' = Runs /\ \A q \in Runs : RequestRight(q)'
<1>1. run' = [run EXCEPT ![r] = new]
  BY DEF Start
<1>2. run'[r] = new
  BY <1>1 DEF IInv
<1>3. RequestRight(r)'
  BY <1>2 DEF RequestRight, Shape, CallRight
<1> QED  BY <1>1, <1>3, OthersRight

\* A change is attempted once: a failed attempt is answered, without success.
LEMMA FailedRight ==
    ASSUME IInv, NEW r \in Runs, run[r].pc \in {"use", "send"},
           NEW n \in {run[r].applied, run[r].applied + 1}, Failed(r, n)
    PROVE  DOMAIN run' = Runs /\ \A q \in Runs : RequestRight(q)'
<1>0. DOMAIN run = Runs /\ RequestRight(r)
  BY DEF IInv
<1>1. CASE run[r].tries + 1 < Attempts(r)
  <2> DEFINE new == [run[r] EXCEPT !.pc = "use", !.tries = @ + 1,
                                   !.refusals = 0, !.applied = n]
  <2>1. run' = [run EXCEPT ![r] = new]
    BY <1>0, <1>1 DEF Failed
  <2>2. run[r].method = "GET"
    BY <1>0, <1>1 DEF Attempts, RequestRight, Shape
  <2>3. run'[r] = new
    BY <1>0, <2>1
  <2>4. RequestRight(r)'
    BY <1>0, <2>2, <2>3 DEF RequestRight, Shape, CallRight, Fields
  <2> QED  BY <2>1, <2>4, OthersRight
<1>2. CASE ~(run[r].tries + 1 < Attempts(r))
  <2> DEFINE new == [run[r] EXCEPT !.pc = "answered", !.ok = FALSE,
                                   !.applied = n]
  <2>1. run' = [run EXCEPT ![r] = new]
    BY <1>0, <1>2 DEF Failed
  <2>2. run'[r] = new
    BY <1>0, <2>1
  <2>3. RequestRight(r)'
    BY <1>0, <2>2 DEF RequestRight, Shape, CallRight, Fields
  <2> QED  BY <2>1, <2>3, OthersRight
<1> QED  BY <1>1, <1>2

\* The steps of a call after its client was found.
LEMMA CallRightStep ==
    ASSUME IInv, NEW r \in Runs,
           \/ LoginFails(r) \/ LoggedIn(r) \/ Lost(r) \/ Refused(r) \/ Answer(r)
    PROVE  DOMAIN run' = Runs /\ \A q \in Runs : RequestRight(q)'
<1>0. DOMAIN run = Runs /\ RequestRight(r)
  BY DEF IInv
<1>1. CASE LoginFails(r)
  BY <1>1, FailedRight DEF LoginFails, At
<1>2. CASE LoggedIn(r)
  <2>1. /\ run[r].pc = "use" /\ run' = [run EXCEPT ![r] = [@ EXCEPT !.pc = "send"]]
    BY <1>0, <1>2 DEF LoggedIn, At, Goto
  <2>2. run'[r] = [run[r] EXCEPT !.pc = "send"]
    BY <1>0, <2>1
  <2>3. RequestRight(r)'
    BY <1>0, <2>1, <2>2 DEF RequestRight, Shape, CallRight, Fields
  <2> QED  BY <2>1, <2>3, OthersRight
<1>3. CASE Lost(r)
  <2>1. PICK arrived \in BOOLEAN :
          Failed(r, run[r].applied + IF arrived /\ run[r].body = "full"
                                     THEN 1 ELSE 0)
    BY <1>3 DEF Lost
  <2>2. run[r].pc = "send"
    BY <1>3 DEF Lost, At
  <2>3. run[r].applied + (IF arrived /\ run[r].body = "full" THEN 1 ELSE 0)
        \in {run[r].applied, run[r].applied + 1}
    BY <1>0 DEF RequestRight, Shape
  <2> QED  BY <2>1, <2>2, <2>3, FailedRight
<1>4. CASE Refused(r)
  <2>1. CASE kind = "xui" /\ run[r].refusals > 0
    BY <1>4, <2>1, FailedRight DEF Refused, At
  <2>2. CASE ~(kind = "xui" /\ run[r].refusals > 0)
    <3> DEFINE new == [run[r] EXCEPT !.pc = "use", !.refusals = @ + 1,
                         !.body = IF run[r].method = "POST" THEN "empty"
                                  ELSE "full"]
    <3>1. run[r].pc = "send" /\ run' = [run EXCEPT ![r] = new]
      BY <1>0, <1>4, <2>2 DEF Refused, At
    <3>2. run'[r] = new
      BY <1>0, <3>1
    <3>3. RequestRight(r)'
      BY <1>0, <3>1, <3>2 DEF RequestRight, Shape, CallRight, Fields
    <3> QED  BY <3>1, <3>3, OthersRight
  <2> QED  BY <2>1, <2>2
<1>5. CASE Answer(r)
  <2>1. CASE run[r].body = "full"
    <3> DEFINE new == [run[r] EXCEPT !.ok = TRUE, !.applied = @ + 1,
                                     !.pc = "answered"]
    <3>1. run[r].pc = "send" /\ run' = [run EXCEPT ![r] = new]
      BY <1>0, <1>5, <2>1 DEF Answer, At
    <3>2. run'[r] = new
      BY <1>0, <3>1
    <3>3. RequestRight(r)'
      BY <1>0, <3>1, <3>2 DEF RequestRight, Shape, CallRight, Fields
    <3> QED  BY <3>1, <3>3, OthersRight
  <2>2. CASE run[r].body # "full"
    BY <1>5, <2>2, FailedRight DEF Answer, At
  <2> QED  BY <2>1, <2>2
<1> QED  BY <1>1, <1>2, <1>3, <1>4, <1>5

\* The steps before it, and those of edits and backups, apply nothing.
LEMMA QuietRight ==
    ASSUME IInv, NEW r \in Runs, run[r].pc # "answered", run'[r].pc # "answered",
           run'[r].method = run[r].method, run'[r].applied = run[r].applied,
           run'[r].tries = run[r].tries, DOMAIN run'[r] = Fields,
           DOMAIN run' = Runs, \A q \in Runs \ {r} : run'[q] = run[q]
    PROVE  DOMAIN run' = Runs /\ \A q \in Runs : RequestRight(q)'
BY DEF IInv, RequestRight, Shape, CallRight

LEMMA OtherStepsRight ==
    ASSUME IInv, NEW r \in Runs,
           \/ Lookup(r) \/ ReadPanel(r) \/ Insert(r) \/ SavePanel(r)
           \/ Download(r) \/ OpenFile(r) \/ WriteFile(r) \/ Record(r)
           \/ ListRows(r) \/ ListFails(r) \/ RemoveFile(r) \/ DeleteRow(r)
    PROVE  DOMAIN run' = Runs /\ \A q \in Runs : RequestRight(q)'
<1>0. DOMAIN run = Runs /\ DOMAIN run[r] = Fields /\ run[r].pc # "answered"
  BY DEF IInv, RequestRight, Shape, Lookup, ReadPanel, Insert, SavePanel,
         Download, OpenFile, WriteFile, Record, ListRows, ListFails, RemoveFile,
         DeleteRow, At
<1>1. DOMAIN run' = Runs /\ \A q \in Runs \ {r} : run'[q] = run[q]
  BY <1>0 DEF Lookup, ReadPanel, Insert, SavePanel, Download, OpenFile,
              WriteFile, Record, ListRows, ListFails, RemoveFile, DeleteRow, Goto
<1>2. CASE \/ Lookup(r) \/ SavePanel(r) \/ OpenFile(r) \/ WriteFile(r) \/ Record(r)
           \/ ListFails(r) \/ RemoveFile(r)
  <2>1. PICK pc \in {"use", "read", "invalidate", "fill", "record", "prune",
                     "remove", "drop"} :
           run'[r] = [run[r] EXCEPT !.pc = pc]
    BY <1>0, <1>2
    DEF Lookup, SavePanel, OpenFile, WriteFile, Record, ListFails, RemoveFile, Goto
  <2> QED  BY <1>0, <1>1, <2>1, QuietRight DEF Fields
<1>3. CASE ReadPanel(r) \/ Insert(r)
  <2>1. PICK pc \in {"insert", "use"} : \E c :
           run'[r] = [run[r] EXCEPT !.client = c, !.pc = pc]
    BY <1>0, <1>3 DEF ReadPanel, Insert
  <2> QED  BY <1>0, <1>1, <2>1, QuietRight DEF Fields
<1>4. CASE Download(r)
  <2>1. run'[r] = [run[r] EXCEPT !.name = clock, !.pc = "write"]
    BY <1>0, <1>4 DEF Download
  <2> QED  BY <1>0, <1>1, <2>1, QuietRight DEF Fields
<1>5. CASE ListRows(r)
  <2>1. PICK keep \in Retentions :
           run'[r] = [run[r] EXCEPT !.doomed = Reverse(Prunable(backups, keep)),
                                    !.pc = "remove"]
    BY <1>0, <1>5 DEF ListRows
  <2> QED  BY <1>0, <1>1, <2>1, QuietRight DEF Fields
<1>6. CASE DeleteRow(r)
  <2>1. run'[r] = [run[r] EXCEPT !.doomed = Tail(run[r].doomed), !.pc = "remove"]
    BY <1>0, <1>6 DEF DeleteRow
  <2> QED  BY <1>0, <1>1, <2>1, QuietRight DEF Fields
<1> QED  BY <1>2, <1>3, <1>4, <1>5, <1>6

LEMMA AllRight ==
    ASSUME IInv, [Next]_vars
    PROVE  DOMAIN run' = Runs /\ \A q \in Runs : RequestRight(q)'
<1>1. ASSUME NEW r \in Runs, Step(r)
      PROVE  DOMAIN run' = Runs /\ \A q \in Runs : RequestRight(q)'
  <2>1. CASE \/ \E address \in Addresses : StartEdit(r, address)
             \/ StartDisable(r) \/ StartBackup(r)
             \/ \E method \in Methods : StartCall(r, method)
    BY <2>1, StartRight
    DEF StartEdit, StartDisable, StartBackup, StartCall, Idle, Fields
  <2>2. CASE \/ SaveFails(r) \/ Invalidate(r) \/ DownloadFails(r) \/ WriteFails(r)
             \/ RecordFails(r) \/ BackupEnds(r) \/ CallEnds(r)
    BY <2>2, FinishRight
    DEF SaveFails, Invalidate, DownloadFails, WriteFails, BackupFails,
        RecordFails, BackupEnds, CallEnds
  <2> QED
    BY <1>1, <2>1, <2>2, CallRightStep, OtherStepsRight DEF Step
<1>2. CASE Tick \/ UNCHANGED vars
  BY <1>2 DEF Tick, vars, IInv, RequestRight, Shape, CallRight
<1>3. CASE Crash
  <2>1. DOMAIN run' = Runs /\ \A q \in Runs : run'[q] = Idle
    BY <1>3 DEF Crash
  <2> QED
    BY <2>1, IdleShape DEF RequestRight, Shape, CallRight
<1> QED  BY <1>1, <1>2, <1>3 DEF Next

-----------------------------------------------------------------------------
(* The cache.                                                              *)

\* A saved row has an invalidation ahead of it; an insertion compares the
\* client with the row as it is by then.
LEMMA ClientStep ==
    ASSUME IInv, [Next]_vars
    PROVE  ClientIsCurrent'
<1>0. DOMAIN run = Runs /\ ClientIsCurrent
  BY DEF IInv
<1>1. ASSUME UNCHANGED <<row, cache, stale>>,
             \A q \in Runs : run[q].pc = "invalidate" => run'[q] = run[q]
      PROVE  ClientIsCurrent'
  BY <1>0, <1>1 DEF ClientIsCurrent, At
<1>2. ASSUME NEW r \in Runs, Step(r)
      PROVE  ClientIsCurrent'
  <2>1. CASE Insert(r)
    BY <2>1 DEF Insert, ClientIsCurrent
  <2>2. CASE SavePanel(r)
    <3>1. run'[r].pc = "invalidate"
      BY <1>0, <2>2 DEF SavePanel, Goto, IInv, RequestRight, Shape, Fields
    <3> QED  BY <3>1 DEF ClientIsCurrent, At
  <2>3. CASE Invalidate(r)
    BY <2>3 DEF Invalidate, ClientIsCurrent
  <2>4. CASE ~(Insert(r) \/ SavePanel(r) \/ Invalidate(r))
    <3>1. UNCHANGED <<row, cache, stale>> /\ run[r].pc # "invalidate"
      BY <1>2, <2>4
      DEF Step, Lookup, ReadPanel, StartEdit, StartDisable, SaveFails,
          StartBackup, DownloadFails, Download, OpenFile, WriteFails, WriteFile,
          Record, RecordFails, ListRows, ListFails, RemoveFile, DeleteRow,
          BackupEnds, StartCall, LoginFails, LoggedIn, Lost, Refused, Answer, CallEnds, Start, BackupFails, At,
          registry
    <3>2. \A q \in Runs \ {r} : run'[q] = run[q]
      BY <1>0, <1>2, <2>4
      DEF Step, Lookup, ReadPanel, StartEdit, StartDisable, SaveFails,
          StartBackup, DownloadFails, Download, OpenFile, WriteFails, WriteFile,
          Record, RecordFails, ListRows, ListFails, RemoveFile, DeleteRow,
          BackupEnds, StartCall, LoginFails, LoggedIn, Lost, Refused, Answer, CallEnds, Start, BackupFails,
          Finish, Goto, Failed
    <3> QED  BY <1>1, <3>1, <3>2
  <2> QED  BY <2>1, <2>2, <2>3, <2>4
<1>3. CASE Tick \/ UNCHANGED vars
  BY <1>1, <1>3 DEF Tick, vars, registry
<1>4. CASE Crash
  BY <1>4 DEF Crash, ClientIsCurrent
<1> QED  BY <1>2, <1>3, <1>4 DEF Next

-----------------------------------------------------------------------------
(* The theorems.                                                           *)

\* Requests are right and the client is current in every state, for any
\* number of requests and addresses.
THEOREM PanelInvariant == Spec => []IInv
<1>1. Init => IInv
  BY IdleShape
  DEF Init, IInv, RequestRight, Shape, CallRight, ClientIsCurrent
<1>2. IInv /\ [Next]_vars => IInv'
  BY AllRight, ClientStep DEF IInv
<1> QED  BY <1>1, <1>2, PTL DEF Spec

\* The registry's client is the one of the panel's row between edits, unless
\* it was cached after an edit from a row read before it.
THEOREM PanelClientIsCurrent == Spec => []ClientIsCurrent
<1>1. IInv => ClientIsCurrent
  BY DEF IInv
<1> QED  BY <1>1, PanelInvariant, PTL

\* A call that changes an account does so at most once, however often it is
\* refused, and reports success only when it did.
THEOREM PanelCallIsHonest == Spec => []CallIsHonest
<1>1. IInv => CallIsHonest
  BY DEF IInv, RequestRight, CallRight, CallIsHonest, At
<1> QED  BY <1>1, PanelInvariant, PTL

-----------------------------------------------------------------------------
(* The backups: the invariant.                                             *)

BackupRows == [id : Nat, status : {"ok", "failed"}, name : Names \cup {NoName}]

\* The stages at which a backup has a file, and those after its row was added.
Filing == {"write", "fill", "record", "prune", "remove", "drop"}
Recorded == {"prune", "remove", "drop"}

\* A row that a request has listed for pruning and has not got to yet.
IsDoomed(id) ==
    \E q \in Runs : \E i \in DOMAIN run[q].doomed : run[q].doomed[i].id = id

StoreTypes ==
    /\ backups \in Seq(BackupRows) /\ starts \in Nat /\ clock \in Names
    /\ written \in SUBSET Names
    /\ files \in [Names -> Nat \cup {NoFile}]

\* A row has an id of its own and one that a request had; a good one has the
\* name of a file that was written.
RowsRight ==
    /\ \A k \in DOMAIN backups :
          /\ backups[k].id <= starts
          /\ backups[k].status = "ok" => backups[k].name \in written
          /\ backups[k].status = "failed" => backups[k].name = NoName
    /\ \A k, l \in DOMAIN backups : backups[k].id = backups[l].id => k = l

\* Where each request stands with its backup. Only pruning dooms rows.
BackupStage(q) ==
    /\ run[q].id \in Nat /\ run[q].id <= starts
    /\ run[q].doomed \in Seq(BackupRows)
    /\ run[q].pc \in Filing => run[q].kind = "backup"
    /\ run[q].pc \notin {"remove", "drop"} => run[q].doomed = <<>>
    /\ run[q].pc = "drop" => run[q].doomed # <<>>
    /\ run[q].pc \in {"write", "fill", "record"} => run[q].name \in Names
    /\ run[q].pc \in {"fill", "record"} => run[q].name \in written
    /\ \A i \in DOMAIN run[q].doomed :
          /\ run[q].doomed[i].id <= starts
          /\ run[q].doomed[i].name \in written \cup {NoName}

\* The id of a request is its own, and before its row is added no row has it.
IdsApart ==
    /\ \A q, r \in Runs : q # r /\ run[q].kind = "backup" /\ run[r].kind = "backup"
                          => run[q].id # run[r].id
    /\ \A q \in Runs : run[q].kind = "backup" /\ run[q].pc \notin Recorded =>
          /\ \A k \in DOMAIN backups : backups[k].id # run[q].id
          /\ ~IsDoomed(run[q].id)

\* A file name that is not shared has one owner: one row, or one request that
\* writes the file and adds its row; and a doomed row of that name is the
\* owner's.
OneOwner ==
    /\ \A k, l \in DOMAIN backups :
          backups[k].name = backups[l].name /\ backups[k].name \in Names \ shared
          => k = l
    /\ \A q \in Runs : \A i \in DOMAIN run[q].doomed : \A k \in DOMAIN backups :
          run[q].doomed[i].name = backups[k].name
          /\ backups[k].name \in Names \ shared
          => run[q].doomed[i].id = backups[k].id
OwnerToBe(q) ==
    run[q].pc \in {"fill", "record"} /\ run[q].name \notin shared =>
        /\ run[q].pc = "record" => files[run[q].name] = run[q].id
        /\ \A k \in DOMAIN backups : backups[k].name # run[q].name
        /\ \A r \in Runs : \A i \in DOMAIN run[r].doomed :
              run[r].doomed[i].name # run[q].name
        /\ \A r \in Runs \ {q} : run[r].pc \in {"fill", "record"}
                                  => run[r].name # run[q].name

\* However many rows each pruning keeps, one that is about to remove a row is
\* about to remove every older row that is still there, and after it.
OlderFollow ==
    \A q \in Runs : \A i \in DOMAIN run[q].doomed : \A k, l \in DOMAIN backups :
        backups[l].id = run[q].doomed[i].id /\ k < l =>
            \E j \in DOMAIN run[q].doomed :
                i < j /\ run[q].doomed[j].id = backups[k].id

\* The good row that stays listed is one that nobody is about to remove.
GoodStays ==
    everGood /\ ~displaced =>
        \E k \in DOMAIN backups : backups[k].status = "ok" /\ ~IsDoomed(backups[k].id)

\* A good row has its file, unless the file's name is shared or a pruning has
\* removed the file.
FilesKept ==
    \A k \in DOMAIN backups :
        backups[k].status = "ok" /\ backups[k].name \notin shared \cup orphaned
        => files[backups[k].name] = backups[k].id

BackupInv == /\ StoreTypes /\ RowsRight /\ \A q \in Runs : BackupStage(q)
             /\ IdsApart /\ OneOwner /\ \A q \in Runs : OwnerToBe(q)
             /\ OlderFollow /\ GoodStays /\ FilesKept

-----------------------------------------------------------------------------
(* The steps that store nothing.                                           *)

\* A sequence is a function on the numbers up to its length.
LEMMA Elements ==
    ASSUME NEW S, NEW s \in Seq(S)
    PROVE  /\ Len(s) \in Nat /\ DOMAIN s = 1..Len(s)
           /\ \A k \in DOMAIN s : s[k] \in S
OBVIOUS

\* The rows have ids requests had, those there and those about to be removed.
LEMMA OldIds ==
    ASSUME BackupInv
    PROVE  /\ starts \in Nat /\ Len(backups) \in Nat
           /\ DOMAIN backups = 1..Len(backups)
           /\ \A k \in DOMAIN backups :
                 backups[k] \in BackupRows /\ backups[k].id \in 0..starts
           /\ \A q \in Runs : \A i \in DOMAIN run[q].doomed :
                 /\ run[q].doomed[i] \in BackupRows
                 /\ run[q].doomed[i].id \in 0..starts
           /\ \A id : IsDoomed(id) => id \in 0..starts
<1>1. /\ Len(backups) \in Nat /\ DOMAIN backups = 1..Len(backups)
      /\ \A k \in DOMAIN backups : backups[k] \in BackupRows
  BY Elements DEF BackupInv, StoreTypes
<1>2. \A q \in Runs : \A i \in DOMAIN run[q].doomed :
         run[q].doomed[i] \in BackupRows /\ run[q].doomed[i].id <= starts
  BY Elements DEF BackupInv, BackupStage
<1>3. \A k \in DOMAIN backups : backups[k].id \in Nat /\ backups[k].id <= starts
  BY <1>1 DEF BackupInv, RowsRight, BackupRows
<1>4. \A q \in Runs : \A i \in DOMAIN run[q].doomed : run[q].doomed[i].id \in Nat
  BY <1>2 DEF BackupRows
<1>5. starts \in Nat
  BY DEF BackupInv, StoreTypes
<1> QED
  BY <1>1, <1>2, <1>3, <1>4, <1>5 DEF IsDoomed

\* A request may end, move on short of storing, or begin a backup with a new
\* id; with what it doomed it may only drop all of it.
LEMMA NothingStored ==
    ASSUME BackupInv, NEW r \in Runs, UNCHANGED stored,
           starts' \in {starts, starts + 1}, clock' \in Names,
           \A q \in Runs \ {r} : run'[q] = run[q],
           run'[r].doomed = <<>>, run'[r].id \in Nat, run'[r].id <= starts',
           run'[r].pc \notin {"fill", "record", "prune", "remove", "drop"},
           run'[r].pc = "write" => run'[r].kind = "backup" /\ run'[r].name \in Names,
           run'[r].kind = "backup" =>
              \/ /\ run'[r].id = run[r].id /\ run[r].kind = "backup"
                 /\ run[r].pc \notin Recorded
              \/ starts' = starts + 1 /\ run'[r].id = starts'
    PROVE  BackupInv'
<1> USE DEF BackupInv
<1>1. UNCHANGED <<files, backups, written, shared, orphaned, everGood, displaced>>
  BY DEF stored
<1>2. /\ starts \in Nat /\ starts' \in Nat /\ starts <= starts'
      /\ starts' # starts => starts' = starts + 1
  BY DEF StoreTypes
<1>3. StoreTypes'
  BY <1>1, <1>2 DEF StoreTypes
<1>4. \A k \in DOMAIN backups : backups[k].id \in Nat /\ backups[k].id <= starts
  BY OldIds
<1>5. RowsRight'
  BY <1>1, <1>2, <1>4 DEF RowsRight
<1>6. \A id : IsDoomed(id)' => IsDoomed(id)
  BY DEF IsDoomed
<1>7. \A id : IsDoomed(id) => id <= starts /\ id \in Nat
  BY OldIds
<1>8. \A q \in Runs : BackupStage(q)'
  <2>1. BackupStage(r)'
    BY DEF BackupStage, Filing
  <2>2. ASSUME NEW q \in Runs \ {r}
        PROVE  BackupStage(q)'
    <3>1. /\ run[q].id <= starts'
          /\ \A i \in DOMAIN run[q].doomed : run[q].doomed[i].id <= starts'
      BY <1>2, OldIds DEF BackupStage
    <3> QED
      BY <1>1, <3>1 DEF BackupStage
  <2> QED
    BY <2>1, <2>2
<1>9. IdsApart'
  <2>1. ASSUME NEW q \in Runs \ {r}, run'[q].kind = "backup",
               run'[r].kind = "backup"
        PROVE  run'[q].id # run'[r].id
    BY <1>2, <2>1 DEF IdsApart, BackupStage
  <2>2. ASSUME NEW q \in Runs, run'[q].kind = "backup", run'[q].pc \notin Recorded
        PROVE  /\ \A k \in DOMAIN backups : backups[k].id # run'[q].id
               /\ ~IsDoomed(run'[q].id)
    BY <1>2, <1>4, <1>7, <2>2 DEF IdsApart
  <2> QED
    BY <1>1, <1>6, <2>1, <2>2 DEF IdsApart
<1>10. OneOwner'
  BY <1>1 DEF OneOwner
<1>11. \A q \in Runs : OwnerToBe(q)'
  BY <1>1 DEF OwnerToBe
<1>12. OlderFollow' /\ GoodStays' /\ FilesKept'
  BY <1>1, <1>6 DEF OlderFollow, GoodStays, FilesKept
<1> QED
  BY <1>3, <1>5, <1>8, <1>9, <1>10, <1>11, <1>12

\* Wherever a request ends without storing, the backups are as they were.
LEMMA EndsUnstored ==
    ASSUME IInv, BackupInv, NEW r \in Runs, Finish(r),
           UNCHANGED <<stored, starts, clock>>
    PROVE  BackupInv'
<1>1. run'[r] = Idle /\ \A q \in Runs \ {r} : run'[q] = run[q]
  BY DEF Finish, IInv
<1> QED
  BY <1>1, NothingStored DEF Idle, StoreTypes, BackupInv

\* A request that looks up its client, edits or calls keeps its id, and dooms
\* nothing.
LEMMA MovesUnstored ==
    ASSUME BackupInv, NEW r \in Runs, run[r].pc \notin Recorded,
           \A q \in Runs \ {r} : run'[q] = run[q],
           run'[r].id = run[r].id, run'[r].kind = run[r].kind,
           run'[r].doomed = run[r].doomed,
           run'[r].pc \in {"use", "read", "insert", "invalidate", "send",
                           "answered"},
           UNCHANGED <<stored, starts, clock>>
    PROVE  BackupInv'
<1>1. /\ run'[r].doomed = <<>> /\ run'[r].id \in Nat /\ run'[r].id <= starts'
      /\ starts' = starts /\ clock' \in Names
  BY DEF BackupInv, BackupStage, Recorded, StoreTypes
<1> QED
  BY <1>1, NothingStored

\* The steps of the registry and of a call that only move a request on.
LEMMA MovesKeepBackups ==
    ASSUME IInv, BackupInv, NEW r \in Runs,
           \/ Lookup(r) \/ ReadPanel(r) \/ Insert(r) \/ SavePanel(r)
           \/ LoggedIn(r)
           \/ Refused(r) /\ ~(kind = "xui" /\ run[r].refusals > 0)
           \/ Answer(r) /\ run[r].body = "full"
    PROVE  BackupInv'
<1>1. DOMAIN run = Runs /\ DOMAIN run[r] = Fields
  BY DEF IInv, RequestRight, Shape
<1>2. UNCHANGED <<stored, starts, clock>>
  BY DEF Lookup, ReadPanel, Insert, SavePanel, LoggedIn, Refused, Answer, bounds
<1>3. run[r].pc \in {"lookup", "read", "insert", "save", "use", "send"}
  BY DEF Lookup, ReadPanel, Insert, SavePanel, LoggedIn, Refused, Answer, At
<1>4. /\ \A q \in Runs \ {r} : run'[q] = run[q]
      /\ run'[r].id = run[r].id /\ run'[r].kind = run[r].kind
      /\ run'[r].doomed = run[r].doomed
      /\ run'[r].pc \in {"use", "read", "insert", "invalidate", "send", "answered"}
  <2>1. CASE Lookup(r) \/ SavePanel(r) \/ LoggedIn(r)
    <3>1. PICK pc \in {"use", "read", "invalidate", "send"} :
             run' = [run EXCEPT ![r] = [run[r] EXCEPT !.pc = pc]]
      BY <1>1, <2>1 DEF Lookup, SavePanel, LoggedIn, Goto
    <3> QED
      BY <1>1, <3>1 DEF Fields
  <2>2. CASE ReadPanel(r) \/ Insert(r)
    <3>1. PICK pc \in {"insert", "use"} : \E c :
             run' = [run EXCEPT ![r] = [run[r] EXCEPT !.client = c, !.pc = pc]]
      BY <1>1, <2>2 DEF ReadPanel, Insert
    <3> QED
      BY <1>1, <3>1 DEF Fields
  <2>3. CASE Refused(r) /\ ~(kind = "xui" /\ run[r].refusals > 0)
    <3> DEFINE new == [run[r] EXCEPT !.pc = "use", !.refusals = @ + 1,
                         !.body = IF run[r].method = "POST" THEN "empty"
                                  ELSE "full"]
    <3>1. run' = [run EXCEPT ![r] = new]
      BY <1>1, <2>3 DEF Refused
    <3> QED
      BY <1>1, <3>1 DEF Fields
  <2>4. CASE Answer(r) /\ run[r].body = "full"
    <3>1. \E n : run' = [run EXCEPT ![r] = [run[r] EXCEPT !.ok = TRUE,
                                              !.applied = n, !.pc = "answered"]]
      BY <1>1, <2>4 DEF Answer
    <3> QED
      BY <1>1, <3>1 DEF Fields
  <2> QED
    BY <2>1, <2>2, <2>3, <2>4
<1> QED
  BY <1>2, <1>3, <1>4, MovesUnstored DEF Recorded

\* A failed attempt of a call.
LEMMA FailedKeepsBackups ==
    ASSUME IInv, BackupInv, NEW r \in Runs, run[r].pc \in {"use", "send"},
           NEW n, Failed(r, n), UNCHANGED <<stored, bounds>>
    PROVE  BackupInv'
<1>1. DOMAIN run = Runs /\ DOMAIN run[r] = Fields
  BY DEF IInv, RequestRight, Shape
<1>2. /\ \A q \in Runs \ {r} : run'[q] = run[q]
      /\ run'[r].id = run[r].id /\ run'[r].kind = run[r].kind
      /\ run'[r].doomed = run[r].doomed
      /\ run'[r].pc \in {"use", "answered"}
  <2>1. CASE run[r].tries + 1 < Attempts(r)
    <3>1. \E m : run' = [run EXCEPT ![r] = [run[r] EXCEPT !.pc = "use",
                           !.tries = m, !.refusals = 0, !.applied = n]]
      BY <1>1, <2>1 DEF Failed
    <3> QED
      BY <1>1, <3>1 DEF Fields
  <2>2. CASE ~(run[r].tries + 1 < Attempts(r))
    <3>1. run' = [run EXCEPT ![r] = [run[r] EXCEPT !.pc = "answered",
                                       !.ok = FALSE, !.applied = n]]
      BY <1>1, <2>2 DEF Failed
    <3> QED
      BY <1>1, <3>1 DEF Fields
  <2> QED
    BY <2>1, <2>2
<1> QED
  BY <1>2, MovesUnstored DEF Recorded, bounds

\* A request starts, a backup among them with an id nobody had.
LEMMA StartsKeepBackups ==
    ASSUME IInv, BackupInv, NEW r \in Runs,
           \/ \E address \in Addresses : StartEdit(r, address)
           \/ StartDisable(r) \/ StartBackup(r)
           \/ \E method \in Methods : StartCall(r, method)
    PROVE  BackupInv'
<1>1. PICK new : /\ Start(r, new) /\ new.doomed = <<>>
                 /\ new.pc \in {"save", "lookup"}
                 /\ \/ new.id = 0 /\ new.kind # "backup"
                    \/ new.id = starts + 1
  <2>1. ASSUME NEW address \in Addresses, StartEdit(r, address)
        PROVE  \E new : /\ Start(r, new) /\ new.doomed = <<>>
                        /\ new.pc = "save" /\ new.id = 0 /\ new.kind # "backup"
    <3> DEFINE new == [Idle EXCEPT !.pc = "save", !.kind = "edit", !.read = row,
                                  !.address = address]
    <3>1. Start(r, new)
      BY <2>1 DEF StartEdit
    <3> HIDE DEF new
    <3>2. new.doomed = <<>> /\ new.pc = "save" /\ new.id = 0 /\ new.kind = "edit"
      BY DEF new, Idle
    <3> QED
      BY <3>1, <3>2
  <2>2. ASSUME StartDisable(r)
        PROVE  \E new : /\ Start(r, new) /\ new.doomed = <<>>
                        /\ new.pc = "save" /\ new.id = 0 /\ new.kind # "backup"
    <3> DEFINE new == [Idle EXCEPT !.pc = "save", !.kind = "disable", !.read = row]
    <3>1. Start(r, new)
      BY <2>2 DEF StartDisable
    <3> HIDE DEF new
    <3>2. new.doomed = <<>> /\ new.pc = "save" /\ new.id = 0 /\ new.kind = "disable"
      BY DEF new, Idle
    <3> QED
      BY <3>1, <3>2
  <2>3. ASSUME StartBackup(r)
        PROVE  \E new : /\ Start(r, new) /\ new.doomed = <<>>
                        /\ new.pc = "lookup" /\ new.id = starts + 1
    <3> DEFINE new == [Idle EXCEPT !.pc = "lookup", !.kind = "backup",
                                  !.id = starts + 1]
    <3>1. Start(r, new)
      BY <2>3 DEF StartBackup
    <3> HIDE DEF new
    <3>2. new.doomed = <<>> /\ new.pc = "lookup" /\ new.id = starts + 1
      BY DEF new, Idle
    <3> QED
      BY <3>1, <3>2
  <2>4. ASSUME NEW method \in Methods, StartCall(r, method)
        PROVE  \E new : /\ Start(r, new) /\ new.doomed = <<>>
                        /\ new.pc = "lookup" /\ new.id = 0 /\ new.kind # "backup"
    <3> DEFINE new == [Idle EXCEPT !.pc = "lookup", !.kind = "call", !.method = method]
    <3>1. Start(r, new)
      BY <2>4 DEF StartCall
    <3> HIDE DEF new
    <3>2. new.doomed = <<>> /\ new.pc = "lookup" /\ new.id = 0 /\ new.kind = "call"
      BY DEF new, Idle
    <3> QED
      BY <3>1, <3>2
  <2> QED
    BY <2>1, <2>2, <2>3, <2>4
<1>2. /\ run'[r] = new /\ \A q \in Runs \ {r} : run'[q] = run[q]
      /\ starts' = starts + 1 /\ UNCHANGED <<stored, clock>>
  BY <1>1 DEF Start, IInv
<1>3. starts \in Nat /\ clock' \in Names
  BY <1>2 DEF BackupInv, StoreTypes
<1> QED
  BY <1>1, <1>2, <1>3, NothingStored

\* The download fixes the name of the file.
LEMMA DownloadKeepsBackups ==
    ASSUME IInv, BackupInv, NEW r \in Runs, Download(r)
    PROVE  BackupInv'
<1>1. DOMAIN run = Runs /\ DOMAIN run[r] = Fields
  BY DEF IInv, RequestRight, Shape
<1>2. run' = [run EXCEPT ![r] = [run[r] EXCEPT !.name = clock, !.pc = "write"]]
  BY <1>1 DEF Download
<1>3. /\ \A q \in Runs \ {r} : run'[q] = run[q]
      /\ run'[r].id = run[r].id /\ run'[r].kind = "backup"
      /\ run'[r].doomed = run[r].doomed /\ run'[r].pc = "write"
      /\ run'[r].name = clock
  BY <1>1, <1>2 DEF Fields, Download
<1>4. /\ run[r].pc = "use" /\ run[r].kind = "backup"
      /\ UNCHANGED <<stored, starts, clock>>
  BY DEF Download, At, bounds
<1>5. /\ run[r].doomed = <<>> /\ run[r].id \in Nat /\ run[r].id <= starts
      /\ clock \in Names
  BY <1>4 DEF BackupInv, BackupStage, StoreTypes
<1> QED
  BY <1>3, <1>4, <1>5, NothingStored DEF Recorded

-----------------------------------------------------------------------------
(* The steps that store.                                                   *)

\* A row added at the end.
LEMMA Appended ==
    ASSUME NEW S, NEW s \in Seq(S), NEW e \in S, NEW t, t = Append(s, e)
    PROVE  /\ t \in Seq(S) /\ Len(t) = Len(s) + 1 /\ Len(s) \in Nat
           /\ DOMAIN t = DOMAIN s \cup {Len(t)} /\ Len(t) \notin DOMAIN s
           /\ \A k \in DOMAIN s : t[k] = s[k]
           /\ t[Len(t)] = e
OBVIOUS

\* A part of a sequence.
LEMMA Part ==
    ASSUME NEW S, NEW s \in Seq(S), NEW m \in 1..(Len(s) + 1),
           NEW n \in (m - 1)..Len(s)
    PROVE  /\ SubSeq(s, m, n) \in Seq(S)
           /\ Len(SubSeq(s, m, n)) = n - m + 1
           /\ \A k \in 1..(n - m + 1) : SubSeq(s, m, n)[k] = s[m + k - 1]
<1>1. /\ Len(s) \in Nat /\ m \in Int /\ n \in Int
      /\ \A i \in m..n : s[i] \in S
  BY Elements
<1>2. /\ SubSeq(s, m, n) \in Seq(S)
      /\ Len(SubSeq(s, m, n)) = IF m <= n THEN n - m + 1 ELSE 0
      /\ \A k \in 1..(n - m + 1) : SubSeq(s, m, n)[k] = s[m + k - 1]
  BY <1>1, SubSeqProperties, SMTT(30)
<1> QED
  BY <1>1, <1>2

\* A row taken out.
LEMMA TakenOut ==
    ASSUME NEW S, NEW s \in Seq(S), NEW j \in DOMAIN s
    PROVE  /\ RemoveAt(s, j) \in Seq(S) /\ Len(RemoveAt(s, j)) = Len(s) - 1
           /\ DOMAIN RemoveAt(s, j) = 1..(Len(s) - 1)
           /\ \A k \in 1..(Len(s) - 1) :
                 RemoveAt(s, j)[k] = IF k < j THEN s[k] ELSE s[k + 1]
<1>1. Len(s) \in Nat /\ j \in 1..Len(s)
  BY Elements
<1>2. PICK a : a = SubSeq(s, 1, j - 1)
  OBVIOUS
<1>3. PICK b : b = SubSeq(s, j + 1, Len(s))
  OBVIOUS
<1>4. /\ a \in Seq(S) /\ Len(a) = j - 1
      /\ \A k \in 1..(j - 1) : a[k] = s[k]
  <2>1. /\ 1 \in 1..(Len(s) + 1) /\ j - 1 \in (1 - 1)..Len(s)
        /\ (j - 1) - 1 + 1 = j - 1
        /\ \A k \in 1..(j - 1) : 1 + k - 1 = k
    BY <1>1
  <2>2. /\ a \in Seq(S) /\ Len(a) = (j - 1) - 1 + 1
        /\ \A k \in 1..((j - 1) - 1 + 1) : a[k] = s[1 + k - 1]
    BY <1>2, <2>1, Part, SMTT(30)
  <2> QED
    BY <2>1, <2>2
<1>5. /\ b \in Seq(S) /\ Len(b) = Len(s) - j
      /\ \A k \in 1..(Len(s) - j) : b[k] = s[j + k]
  <2>1. /\ j + 1 \in 1..(Len(s) + 1) /\ Len(s) \in ((j + 1) - 1)..Len(s)
        /\ Len(s) - (j + 1) + 1 = Len(s) - j
        /\ \A k \in 1..(Len(s) - j) : j + 1 + k - 1 = j + k
    BY <1>1
  <2>2. /\ b \in Seq(S) /\ Len(b) = Len(s) - (j + 1) + 1
        /\ \A k \in 1..(Len(s) - (j + 1) + 1) : b[k] = s[j + 1 + k - 1]
    BY <1>3, <2>1, Part, SMTT(30)
  <2> QED
    BY <2>1, <2>2
<1>6. PICK t : t = RemoveAt(s, j)
  OBVIOUS
<1>7. t = a \o b
  BY <1>2, <1>3, <1>6 DEF RemoveAt
<1>8. /\ t \in Seq(S) /\ Len(t) = Len(a) + Len(b)
      /\ \A k \in 1..(Len(a) + Len(b)) :
            t[k] = IF k <= Len(a) THEN a[k] ELSE b[k - Len(a)]
  BY <1>4, <1>5, <1>7, ConcatProperties, SMTT(30)
<1>9. Len(t) = Len(s) - 1 /\ DOMAIN t = 1..(Len(s) - 1)
  <2>1. Len(t) = Len(s) - 1
    BY <1>1, <1>4, <1>5, <1>8
  <2> QED
    BY <1>8, <2>1, Elements
<1>10. ASSUME NEW k \in 1..(Len(s) - 1)
       PROVE  t[k] = IF k < j THEN s[k] ELSE s[k + 1]
  <2>1. t[k] = IF k <= j - 1 THEN a[k] ELSE b[k - (j - 1)]
    <3>1. k \in 1..(Len(a) + Len(b))
      BY <1>1, <1>4, <1>5
    <3> QED
      BY <1>4, <1>8, <3>1
  <2>2. CASE k < j
    BY <1>1, <1>4, <2>1, <2>2
  <2>3. CASE k >= j
    <3>1. k - (j - 1) \in 1..(Len(s) - j) /\ j + (k - (j - 1)) = k + 1
      BY <1>1, <2>3
    <3>2. b[k - (j - 1)] = s[j + (k - (j - 1))]
      BY <1>5, <3>1
    <3> QED
      BY <1>1, <2>1, <2>3, <3>1, <3>2
  <2> QED
    BY <1>1, <2>2, <2>3
<1> QED
  BY <1>6, <1>8, <1>9, <1>10

\* The rows without the one of that id: the others are in order, and those
\* after it move up by one.
WithoutRow(old, rows) ==
    /\ rows \in Seq(BackupRows)
    /\ \A k \in DOMAIN rows : \E l \in DOMAIN backups :
          rows[k] = backups[l] /\ rows[k].id # old.id
    /\ \A k, l \in DOMAIN rows : rows[k].id = rows[l].id => k = l
    /\ \A l \in DOMAIN backups : backups[l].id # old.id =>
          \E k \in DOMAIN rows : rows[k] = backups[l]
    /\ \/ rows = backups
       \/ \E j \in DOMAIN backups :
             /\ backups[j].id = old.id /\ Len(rows) = Len(backups) - 1
             /\ \A k \in DOMAIN rows : \E l \in DOMAIN backups :
                   rows[k] = backups[l] /\ l # j
                   /\ l = IF k < j THEN k ELSE k + 1

\* That is what dropping a row leaves.
LEMMA Dropped ==
    ASSUME BackupInv, NEW old, NEW rows, rows = DropRow(backups, old)
    PROVE  WithoutRow(old, rows)
<1> USE DEF WithoutRow
<1>1. /\ backups \in Seq(BackupRows) /\ Len(backups) \in Nat
      /\ DOMAIN backups = 1..Len(backups)
      /\ \A k, l \in DOMAIN backups : backups[k].id = backups[l].id => k = l
  BY OldIds DEF BackupInv, StoreTypes, RowsRight
<1>2. CASE \E j \in DOMAIN backups : backups[j].id = old.id
  <2>1. PICK j \in DOMAIN backups : backups[j].id = old.id
                                    /\ rows = RemoveAt(backups, j)
    BY <1>2 DEF DropRow
  <2>2. /\ rows \in Seq(BackupRows) /\ Len(rows) = Len(backups) - 1
        /\ DOMAIN rows = 1..Len(rows)
        /\ \A k \in DOMAIN rows : rows[k] = IF k < j THEN backups[k]
                                             ELSE backups[k + 1]
    <3>1. /\ rows \in Seq(BackupRows) /\ Len(rows) = Len(backups) - 1
          /\ DOMAIN rows = 1..(Len(backups) - 1)
          /\ \A k \in 1..(Len(backups) - 1) :
                rows[k] = IF k < j THEN backups[k] ELSE backups[k + 1]
      <4>1. backups \in Seq(BackupRows) /\ j \in DOMAIN backups
        BY <1>1
      <4>2. /\ RemoveAt(backups, j) \in Seq(BackupRows)
            /\ Len(RemoveAt(backups, j)) = Len(backups) - 1
            /\ DOMAIN RemoveAt(backups, j) = 1..(Len(backups) - 1)
            /\ \A k \in 1..(Len(backups) - 1) :
                  RemoveAt(backups, j)[k] = IF k < j THEN backups[k]
                                            ELSE backups[k + 1]
        BY <4>1, TakenOut
      <4> QED
        BY <2>1, <4>2
    <3> QED
      BY <3>1
  <2>3. ASSUME NEW k \in DOMAIN rows
        PROVE  \E l \in DOMAIN backups :
                  /\ rows[k] = backups[l] /\ l # j
                  /\ l = IF k < j THEN k ELSE k + 1
    BY <1>1, <2>1, <2>2
  <2>4. \A l \in DOMAIN backups : l # j =>
           \E k \in DOMAIN rows : rows[k] = backups[l]
    <3>1. ASSUME NEW l \in DOMAIN backups, l < j
          PROVE  l \in DOMAIN rows /\ rows[l] = backups[l]
      BY <1>1, <2>1, <2>2, <3>1
    <3>2. ASSUME NEW l \in DOMAIN backups, l > j
          PROVE  l - 1 \in DOMAIN rows /\ rows[l - 1] = backups[l]
      BY <1>1, <2>1, <2>2, <3>2
    <3> QED
      BY <1>1, <2>1, <3>1, <3>2
  <2>5. \A k \in DOMAIN rows : \E l \in DOMAIN backups :
           rows[k] = backups[l] /\ rows[k].id # old.id
    <3>1. TAKE k \in DOMAIN rows
    <3>2. PICK l \in DOMAIN backups :
             /\ rows[k] = backups[l] /\ l # j
             /\ l = IF k < j THEN k ELSE k + 1
      BY <2>3
    <3>3. backups[l].id # old.id
      BY <1>1, <2>1, <3>2
    <3> QED
      BY <3>2, <3>3
  <2>6. \A k, l \in DOMAIN rows : rows[k].id = rows[l].id => k = l
    <3>1. TAKE k, l \in DOMAIN rows
    <3>2. PICK m \in DOMAIN backups, n \in DOMAIN backups :
             /\ rows[k] = backups[m] /\ m = IF k < j THEN k ELSE k + 1
             /\ rows[l] = backups[n] /\ n = IF l < j THEN l ELSE l + 1
      BY <2>3
    <3> QED
      BY <1>1, <2>1, <2>2, <3>2
  <2>7. \E i \in DOMAIN backups :
           /\ backups[i].id = old.id /\ Len(rows) = Len(backups) - 1
           /\ \A k \in DOMAIN rows : \E l \in DOMAIN backups :
                 /\ rows[k] = backups[l] /\ l # i
                 /\ l = IF k < i THEN k ELSE k + 1
    BY <2>1, <2>2, <2>3
  <2> QED
    BY <1>1, <2>1, <2>2, <2>4, <2>5, <2>6, <2>7
<1>3. CASE ~ \E j \in DOMAIN backups : backups[j].id = old.id
  BY <1>1, <1>3 DEF DropRow
<1> QED
  BY <1>2, <1>3

\* A backup adds its row: the good one of a file nobody else will own, or a
\* failed one without a file.
LEMMA RowAdded ==
    ASSUME BackupInv, NEW r \in Runs,
           run[r].kind = "backup", run[r].pc \notin Recorded,
           NEW b \in BackupRows, b.id = run[r].id,
           b.status = "ok" => run[r].pc = "record" /\ b.name = run[r].name,
           b.status = "failed" => b.name = NoName /\ everGood' = everGood,
           backups' = Append(backups, b),
           UNCHANGED <<files, written, shared, orphaned, displaced, starts, clock>>,
           \A q \in Runs \ {r} : run'[q] = run[q],
           run'[r].doomed = <<>>, run'[r].id \in {0, run[r].id},
           \/ run'[r].pc = "idle" /\ run'[r].kind # "backup"
           \/ run'[r].pc = "prune" /\ run'[r].kind = "backup"
                /\ run'[r].id = run[r].id
    PROVE  BackupInv'
<1> USE DEF BackupInv
<1>1. /\ backups' \in Seq(BackupRows) /\ Len(backups') = Len(backups) + 1
      /\ Len(backups) \in Nat
      /\ DOMAIN backups' = DOMAIN backups \cup {Len(backups')}
      /\ Len(backups') \notin DOMAIN backups
      /\ \A k \in DOMAIN backups : backups'[k] = backups[k]
      /\ backups'[Len(backups')] = b
  BY Appended DEF StoreTypes
<1>2. b.id \in Nat /\ b.id <= starts /\ b.status \in {"ok", "failed"}
  BY DEF BackupStage, BackupRows
<1>3. \A id : IsDoomed(id)' => IsDoomed(id)
  BY DEF IsDoomed
<1>4. ~IsDoomed(b.id) /\ \A k \in DOMAIN backups : backups[k].id # b.id
  BY DEF IdsApart
<1>5. b.status = "ok" => b.name \in written
  BY DEF BackupStage
<1>6. StoreTypes'
  BY <1>1 DEF StoreTypes
<1>7. RowsRight'
  <2>1. ASSUME NEW k \in DOMAIN backups'
        PROVE  /\ backups'[k].id <= starts'
               /\ backups'[k].status = "ok" => backups'[k].name \in written'
               /\ backups'[k].status = "failed" => backups'[k].name = NoName
    BY <1>1, <1>2, <1>5, <2>1 DEF RowsRight
  <2>2. ASSUME NEW k \in DOMAIN backups', NEW l \in DOMAIN backups',
               backups'[k].id = backups'[l].id
        PROVE  k = l
    BY <1>1, <1>4, <2>2 DEF RowsRight
  <2> QED
    BY <2>1, <2>2 DEF RowsRight
<1>8. \A q \in Runs : BackupStage(q)'
  <2>1. BackupStage(r)'
    <3>1. run'[r].id \in Nat /\ run'[r].id <= starts'
      BY DEF BackupStage, StoreTypes
    <3> QED
      BY <3>1 DEF BackupStage, Filing
  <2> QED
    BY <2>1 DEF BackupStage
<1>9. IdsApart'
  <2>1. ASSUME NEW q \in Runs, NEW p \in Runs, q # p,
               run'[q].kind = "backup", run'[p].kind = "backup"
        PROVE  run'[q].id # run'[p].id
    BY <2>1 DEF IdsApart
  <2>2. ASSUME NEW q \in Runs, run'[q].kind = "backup", run'[q].pc \notin Recorded
        PROVE  /\ \A k \in DOMAIN backups' : backups'[k].id # run'[q].id
               /\ ~IsDoomed(run'[q].id)
    <3>1. q # r /\ run'[q] = run[q]
      BY <2>2 DEF Recorded
    <3> QED
      BY <1>1, <2>2, <3>1 DEF IdsApart
  <2> QED
    BY <1>3, <2>1, <2>2 DEF IdsApart
<1>10. b.name \in Names \ shared =>
          /\ b.status = "ok" /\ files[b.name] = b.id
          /\ \A k \in DOMAIN backups : backups[k].name # b.name
          /\ \A q \in Runs : \A i \in DOMAIN run[q].doomed :
                run[q].doomed[i].name # b.name
          /\ \A q \in Runs \ {r} : run[q].pc \in {"fill", "record"}
                                    => run[q].name # b.name
  BY <1>2, NamesAreSeconds DEF OwnerToBe, Names
<1>11. OneOwner'
  <2>1. ASSUME NEW k \in DOMAIN backups', NEW l \in DOMAIN backups',
               backups'[k].name = backups'[l].name,
               backups'[k].name \in Names \ shared'
        PROVE  k = l
    BY <1>1, <1>10, <2>1 DEF OneOwner
  <2>2. ASSUME NEW q \in Runs, NEW i \in DOMAIN run'[q].doomed,
               NEW k \in DOMAIN backups',
               run'[q].doomed[i].name = backups'[k].name,
               backups'[k].name \in Names \ shared'
        PROVE  run'[q].doomed[i].id = backups'[k].id
    BY <1>1, <1>10, <2>2 DEF OneOwner
  <2> QED
    BY <2>1, <2>2 DEF OneOwner
<1>12. \A q \in Runs : OwnerToBe(q)'
  <2>1. ASSUME NEW q \in Runs, run'[q].pc \in {"fill", "record"},
               run'[q].name \notin shared'
        PROVE  /\ run'[q].pc = "record" => files'[run'[q].name] = run'[q].id
               /\ \A k \in DOMAIN backups' : backups'[k].name # run'[q].name
               /\ \A p \in Runs : \A i \in DOMAIN run'[p].doomed :
                     run'[p].doomed[i].name # run'[q].name
               /\ \A p \in Runs \ {q} : run'[p].pc \in {"fill", "record"}
                                         => run'[p].name # run'[q].name
    <3>1. q # r /\ run'[q] = run[q] /\ run[q].name \in Names
      BY <2>1 DEF BackupStage
    <3>2. \A k \in DOMAIN backups' : backups'[k].name # run'[q].name
      BY <1>1, <1>10, <2>1, <3>1 DEF OwnerToBe
    <3> QED
      BY <2>1, <3>1, <3>2 DEF OwnerToBe
  <2> QED
    BY <2>1 DEF OwnerToBe
<1>13. OlderFollow'
  <2>1. ASSUME NEW q \in Runs, NEW i \in DOMAIN run'[q].doomed,
               NEW k \in DOMAIN backups', NEW l \in DOMAIN backups',
               backups'[l].id = run'[q].doomed[i].id, k < l
        PROVE  \E j \in DOMAIN run'[q].doomed :
                  i < j /\ run'[q].doomed[j].id = backups'[k].id
    <3>1. q # r /\ run'[q] = run[q]
      BY <2>1
    <3>2. l \in DOMAIN backups
      BY <1>1, <1>4, <2>1, <3>1 DEF IsDoomed
    <3>3. k \in DOMAIN backups
      BY <1>1, <2>1, <3>2, OldIds
    <3> QED
      BY <1>1, <2>1, <3>1, <3>2, <3>3 DEF OlderFollow
  <2> QED
    BY <2>1 DEF OlderFollow
<1>14. GoodStays'
  <2>1. CASE b.status = "ok"
    BY <1>1, <1>3, <1>4, <2>1 DEF GoodStays
  <2>2. CASE b.status = "failed"
    BY <1>1, <1>3, <2>2 DEF GoodStays
  <2> QED
    BY <1>2, <2>1, <2>2
<1>15. FilesKept'
  <2>1. ASSUME NEW k \in DOMAIN backups', backups'[k].status = "ok",
               backups'[k].name \notin shared' \cup orphaned'
        PROVE  files'[backups'[k].name] = backups'[k].id
    BY <1>1, <1>5, <1>10, <2>1 DEF FilesKept, StoreTypes
  <2> QED
    BY <2>1 DEF FilesKept
<1> QED
  BY <1>6, <1>7, <1>8, <1>9, <1>11, <1>12, <1>13, <1>14, <1>15

\* A download or a write that fails leaves no row, or a failed one.
LEMMA FailureKeepsBackups ==
    ASSUME IInv, BackupInv, NEW r \in Runs, DownloadFails(r) \/ WriteFails(r)
    PROVE  BackupInv'
<1>1. /\ BackupFails(r, NoName)
      /\ run[r].kind = "backup" /\ run[r].pc \notin Recorded
  BY DEF DownloadFails, WriteFails, At, Recorded, Filing, BackupInv, BackupStage
<1>2. /\ run'[r] = Idle /\ \A q \in Runs \ {r} : run'[q] = run[q]
      /\ UNCHANGED <<files, written, shared, orphaned, everGood, displaced,
                     starts, clock>>
  BY <1>1 DEF BackupFails, Finish, IInv, bounds
<1>3. CASE backups' = backups
  BY <1>1, <1>2, <1>3, EndsUnstored DEF BackupFails, stored
<1>4. CASE backups' = Append(backups, Row(r, "failed", NoName))
  <2> DEFINE b == Row(r, "failed", NoName)
  <2>1. /\ b \in BackupRows /\ b.id = run[r].id /\ b.status = "failed"
        /\ b.name = NoName
    BY DEF Row, BackupRows, BackupInv, BackupStage
  <2>2. backups' = Append(backups, b)
    BY <1>4
  <2> HIDE DEF b
  <2>3. /\ run'[r].doomed = <<>> /\ run'[r].id = 0 /\ run'[r].pc = "idle"
        /\ run'[r].kind # "backup"
    BY <1>2 DEF Idle
  <2> QED
    BY <1>1, <1>2, <2>1, <2>2, <2>3, RowAdded
<1> QED
  BY <1>1, <1>3, <1>4 DEF BackupFails

\* A backup that wrote its file adds its row, and prunes next.
LEMMA RecordKeepsBackups ==
    ASSUME IInv, BackupInv, NEW r \in Runs, Record(r)
    PROVE  BackupInv'
<1>1. DOMAIN run = Runs /\ DOMAIN run[r] = Fields
  BY DEF IInv, RequestRight, Shape
<1>2. /\ run[r].kind = "backup" /\ run[r].pc = "record"
      /\ run[r].doomed = <<>> /\ run[r].name \in Names /\ run[r].id \in Nat
  BY DEF Record, At, BackupInv, BackupStage, Filing
<1>3. run' = [run EXCEPT ![r] = [run[r] EXCEPT !.pc = "prune"]]
  BY <1>1 DEF Record, Goto
<1>4. /\ \A q \in Runs \ {r} : run'[q] = run[q]
      /\ run'[r].id = run[r].id /\ run'[r].kind = "backup"
      /\ run'[r].doomed = <<>> /\ run'[r].pc = "prune"
  BY <1>1, <1>2, <1>3 DEF Fields
<1> DEFINE b == Row(r, "ok", run[r].name)
<1>5. /\ b \in BackupRows /\ b.id = run[r].id /\ b.status = "ok"
      /\ b.name = run[r].name
  BY <1>2 DEF Row, BackupRows
<1>6. backups' = Append(backups, b)
  BY DEF Record
<1> HIDE DEF b
<1>7. UNCHANGED <<files, written, shared, orphaned, displaced, starts, clock>>
  BY DEF Record, bounds
<1>8. run[r].pc \notin Recorded
  BY <1>2 DEF Recorded
<1> QED
  BY <1>2, <1>4, <1>5, <1>6, <1>7, <1>8, RowAdded

\* Opening a file takes it from whoever had that name, which shares it.
LEMMA OpenKeepsBackups ==
    ASSUME IInv, BackupInv, NEW r \in Runs, OpenFile(r)
    PROVE  BackupInv'
<1> USE DEF BackupInv
<1>1. DOMAIN run = Runs /\ DOMAIN run[r] = Fields
  BY DEF IInv, RequestRight, Shape
<1>2. PICK n : n = run[r].name
  OBVIOUS
<1>3. /\ run[r].kind = "backup" /\ run[r].pc = "write" /\ run[r].doomed = <<>>
      /\ n \in Names /\ run[r].id \in Nat
  BY <1>2 DEF OpenFile, At, BackupStage, Filing
<1>4. run' = [run EXCEPT ![r] = [run[r] EXCEPT !.pc = "fill"]]
  BY <1>1 DEF OpenFile, Goto
<1>5. /\ \A q \in Runs \ {r} : run'[q] = run[q]
      /\ run'[r].id = run[r].id /\ run'[r].kind = "backup"
      /\ run'[r].doomed = <<>> /\ run'[r].pc = "fill" /\ run'[r].name = n
  BY <1>1, <1>2, <1>3, <1>4 DEF Fields
<1>6. /\ files' = [files EXCEPT ![n] = NoFile]
      /\ written' = written \cup {n} /\ shared' = shared \cup ({n} \cap written)
      /\ UNCHANGED <<backups, orphaned, everGood, displaced, starts, clock>>
  BY <1>2 DEF OpenFile, bounds
<1>7. /\ \A q \in Runs : run'[q].doomed = run[q].doomed
      /\ \A id : IsDoomed(id)' <=> IsDoomed(id)
  BY <1>3, <1>5 DEF IsDoomed
<1>8. StoreTypes'
  BY <1>3, <1>6 DEF StoreTypes
<1>9. RowsRight'
  BY <1>6 DEF RowsRight
<1>10. \A q \in Runs : BackupStage(q)'
  BY <1>3, <1>5, <1>6 DEF BackupStage, Filing
<1>11. IdsApart'
  BY <1>3, <1>5, <1>6, <1>7 DEF IdsApart, Recorded
<1>12. OneOwner'
  BY <1>6, <1>7 DEF OneOwner
<1>13. \A k \in DOMAIN backups : backups[k].name \in written \cup {NoName}
  BY OldIds DEF RowsRight, BackupRows
<1>14. \A q \in Runs : OwnerToBe(q)'
  <2>1. NoName # n
    BY <1>3, NamesAreSeconds DEF Names
  <2>2. OwnerToBe(r)'
    <3>1. SUFFICES ASSUME run'[r].name \notin shared'
                   PROVE  OwnerToBe(r)'
      BY DEF OwnerToBe
    <3>2. n \notin written
      BY <1>5, <1>6, <3>1
    <3>3. \A k \in DOMAIN backups : backups[k].name # n
      BY <1>13, <2>1, <3>2
    <3>4. \A q \in Runs : \A i \in DOMAIN run[q].doomed :
             run[q].doomed[i].name # n
      BY <2>1, <3>2 DEF BackupStage
    <3>5. \A q \in Runs \ {r} : run[q].pc \in {"fill", "record"} => run[q].name # n
      BY <3>2 DEF BackupStage
    <3> QED
      BY <1>5, <1>6, <1>7, <3>3, <3>4, <3>5 DEF OwnerToBe
  <2>3. ASSUME NEW q \in Runs \ {r}
        PROVE  OwnerToBe(q)'
    <3>1. CASE run[q].pc \in {"fill", "record"} /\ run[q].name \notin shared'
      <4>1. run[q].name # n /\ run[q].name \notin shared
        BY <1>6, <3>1 DEF BackupStage
      <4>2. files'[run[q].name] = files[run[q].name]
        BY <1>6, <3>1, <4>1 DEF BackupStage, StoreTypes
      <4> QED
        BY <1>5, <1>6, <1>7, <3>1, <4>1, <4>2 DEF OwnerToBe
    <3>2. CASE ~(run[q].pc \in {"fill", "record"} /\ run[q].name \notin shared')
      BY <1>5, <3>2 DEF OwnerToBe
    <3> QED
      BY <3>1, <3>2
  <2> QED
    BY <2>2, <2>3
<1>15. OlderFollow' /\ GoodStays'
  BY <1>6, <1>7 DEF OlderFollow, GoodStays, IsDoomed
<1>16. FilesKept'
  <2>1. ASSUME NEW k \in DOMAIN backups, backups[k].status = "ok",
               backups[k].name \notin shared' \cup orphaned'
        PROVE  files'[backups[k].name] = backups[k].id
    <3>1. backups[k].name \in written /\ backups[k].name # n
      BY <1>6, <2>1 DEF RowsRight
    <3> QED
      BY <1>6, <2>1, <3>1 DEF FilesKept, StoreTypes
  <2> QED
    BY <1>6, <2>1 DEF FilesKept
<1> QED
  BY <1>8, <1>9, <1>10, <1>11, <1>12, <1>14, <1>15, <1>16

\* Filling it changes a file that nobody else owns.
LEMMA WriteKeepsBackups ==
    ASSUME IInv, BackupInv, NEW r \in Runs, WriteFile(r)
    PROVE  BackupInv'
<1> USE DEF BackupInv
<1>1. DOMAIN run = Runs /\ DOMAIN run[r] = Fields
  BY DEF IInv, RequestRight, Shape
<1>2. PICK n : n = run[r].name
  OBVIOUS
<1>3. /\ run[r].kind = "backup" /\ run[r].pc = "fill" /\ run[r].doomed = <<>>
      /\ n \in Names /\ n \in written /\ run[r].id \in Nat
  BY <1>2 DEF WriteFile, At, BackupStage, Filing
<1>4. run' = [run EXCEPT ![r] = [run[r] EXCEPT !.pc = "record"]]
  BY <1>1 DEF WriteFile, Goto
<1>5. /\ \A q \in Runs \ {r} : run'[q] = run[q]
      /\ run'[r].id = run[r].id /\ run'[r].kind = "backup"
      /\ run'[r].doomed = <<>> /\ run'[r].pc = "record" /\ run'[r].name = n
  BY <1>1, <1>2, <1>3, <1>4 DEF Fields
<1>6. /\ files' = [files EXCEPT ![n] = run[r].id]
      /\ UNCHANGED <<backups, written, shared, orphaned, everGood, displaced,
                     starts, clock>>
  BY <1>2 DEF WriteFile, bounds
<1>7. /\ \A q \in Runs : run'[q].doomed = run[q].doomed
      /\ \A id : IsDoomed(id)' <=> IsDoomed(id)
  BY <1>3, <1>5 DEF IsDoomed
<1>8. n \notin shared =>
         /\ \A k \in DOMAIN backups : backups[k].name # n
         /\ \A q \in Runs : \A i \in DOMAIN run[q].doomed :
               run[q].doomed[i].name # n
         /\ \A q \in Runs \ {r} : run[q].pc \in {"fill", "record"}
                                   => run[q].name # n
  BY <1>2, <1>3 DEF OwnerToBe
<1>9. StoreTypes' /\ RowsRight'
  BY <1>3, <1>6 DEF StoreTypes, RowsRight
<1>10. \A q \in Runs : BackupStage(q)'
  BY <1>3, <1>5, <1>6 DEF BackupStage, Filing
<1>11. IdsApart' /\ OneOwner'
  BY <1>3, <1>5, <1>6, <1>7 DEF IdsApart, OneOwner, Recorded
<1>12. files'[n] = run[r].id /\ \A m \in Names \ {n} : files'[m] = files[m]
  BY <1>3, <1>6 DEF StoreTypes
<1>13. \A q \in Runs : OwnerToBe(q)'
  <2>1. OwnerToBe(r)'
    BY <1>5, <1>6, <1>7, <1>8, <1>12 DEF OwnerToBe
  <2>2. ASSUME NEW q \in Runs \ {r}
        PROVE  OwnerToBe(q)'
    <3>1. CASE run[q].pc \in {"fill", "record"} /\ run[q].name \notin shared
      <4>1. run[q].name # n /\ run[q].name \in Names
        BY <1>8, <3>1 DEF BackupStage
      <4> QED
        BY <1>5, <1>6, <1>7, <1>12, <3>1, <4>1 DEF OwnerToBe
    <3>2. CASE ~(run[q].pc \in {"fill", "record"} /\ run[q].name \notin shared)
      BY <1>5, <1>6, <3>2 DEF OwnerToBe
    <3> QED
      BY <3>1, <3>2
  <2> QED
    BY <2>1, <2>2
<1>14. OlderFollow' /\ GoodStays'
  BY <1>6, <1>7 DEF OlderFollow, GoodStays, IsDoomed
<1>15. FilesKept'
  <2>1. ASSUME NEW k \in DOMAIN backups, backups[k].status = "ok",
               backups[k].name \notin shared \cup orphaned
        PROVE  files'[backups[k].name] = backups[k].id
    <3>1. backups[k].name \in Names /\ backups[k].name # n
      BY <1>8, <2>1 DEF RowsRight, StoreTypes
    <3> QED
      BY <1>12, <2>1, <3>1 DEF FilesKept
  <2> QED
    BY <1>6, <2>1 DEF FilesKept
<1> QED
  BY <1>9, <1>10, <1>11, <1>13, <1>14, <1>15


\* What is prunable is the rows that have as many after them as are kept.
LEMMA PrunableRows ==
    ASSUME BackupInv, NEW keep \in Nat \ {0}, NEW old, old = Prunable(backups, keep)
    PROVE  /\ old \in Seq(BackupRows) /\ Len(old) \in Nat
           /\ DOMAIN old = 1..Len(old)
           /\ Len(old) = IF Len(backups) <= keep THEN 0 ELSE Len(backups) - keep
           /\ \A k \in 1..Len(old) : k \in DOMAIN backups /\ old[k] = backups[k]
<1>1. /\ backups \in Seq(BackupRows) /\ Len(backups) \in Nat
      /\ DOMAIN backups = 1..Len(backups)
  BY OldIds DEF BackupInv, StoreTypes
<1>2. PICK n : n = IF Len(backups) <= keep THEN 0 ELSE Len(backups) - keep
  OBVIOUS
<1>3. /\ 1 \in 1..(Len(backups) + 1) /\ n \in (1 - 1)..Len(backups)
      /\ n - 1 + 1 = n /\ \A k \in 1..n : 1 + k - 1 = k /\ k \in 1..Len(backups)
  <2>1. n \in 0..Len(backups)
    <3>1. \A l, m \in Nat : (IF l <= m THEN 0 ELSE l - m) \in 0..l
      OBVIOUS
    <3> QED
      BY <1>1, <1>2, <3>1
  <2> QED
    BY <1>1, <2>1
<1>4. old = SubSeq(backups, 1, n)
  BY <1>2 DEF Prunable
<1>5. /\ old \in Seq(BackupRows) /\ Len(old) = n - 1 + 1
      /\ \A k \in 1..(n - 1 + 1) : old[k] = backups[1 + k - 1]
  BY <1>1, <1>3, <1>4, Part, SMTT(30)
<1>6. Len(old) \in Nat /\ DOMAIN old = 1..Len(old)
  BY <1>5, Elements
<1> QED
  BY <1>1, <1>2, <1>3, <1>5, <1>6

\* A backup lists what it will remove: all rows but the newest, those first.
LEMMA ListKeepsBackups ==
    ASSUME IInv, BackupInv, NEW r \in Runs, ListRows(r)
    PROVE  BackupInv'
<1> USE DEF BackupInv
<1>1. DOMAIN run = Runs /\ DOMAIN run[r] = Fields
  BY DEF IInv, RequestRight, Shape
<1>0. PICK keep \in Retentions :
         /\ run' = [run EXCEPT ![r].doomed = Reverse(Prunable(backups, keep)),
                               ![r].pc = "remove"]
         /\ \/ displaced'
            \/ ~displaced /\ {backups[k].status :
                               k \in (Len(Prunable(backups, keep)) + 1)..Len(backups)}
                              # {"failed"}
  BY DEF ListRows
<1>2. PICK old : old = Prunable(backups, keep)
  OBVIOUS
<1>3. PICK gone : gone = Reverse(old)
  OBVIOUS
<1>4. PICK L : L = Len(backups)
  OBVIOUS
<1>5. PICK N : N = Len(old)
  OBVIOUS
<1>6. /\ old \in Seq(BackupRows) /\ DOMAIN old = 1..N
      /\ N = IF L <= keep THEN 0 ELSE L - keep
      /\ \A k \in 1..N : k \in DOMAIN backups /\ old[k] = backups[k]
  BY <1>2, <1>4, <1>5, PrunableRows, RetentionsArePositive
<1>7. /\ L \in Nat /\ N \in Nat /\ keep \in Nat \ {0}
      /\ DOMAIN backups = 1..L
  BY <1>2, <1>4, <1>5, OldIds, PrunableRows, RetentionsArePositive
<1>order. /\ gone \in Seq(BackupRows) /\ DOMAIN gone = 1..N
          /\ \A i \in 1..N : (N - i) + 1 \in 1..N /\ gone[i] = backups[(N - i) + 1]
  <2>1. gone = [i \in 1..N |-> old[(N - i) + 1]]
    BY <1>3, <1>5 DEF Reverse
  <2>2. \A i \in 1..N : (N - i) + 1 \in 1..N
    BY <1>7
  <2>3. \A i \in 1..N : gone[i] \in BackupRows /\ gone[i] = backups[(N - i) + 1]
    BY <1>6, <2>1, <2>2, <1>7, Elements
  <2>4. gone \in [1..N -> BackupRows]
    BY <2>1, <2>3
  <2> QED
    BY <1>7, <2>1, <2>2, <2>3, <2>4
<1>8. /\ gone \in Seq(BackupRows)
      /\ \A i \in DOMAIN gone : \E k \in 1..N : gone[i] = backups[k]
  BY <1>order
<1>9. /\ run[r].kind = "backup" /\ run[r].pc = "prune" /\ run[r].doomed = <<>>
      /\ run[r].id \in Nat /\ run[r].id <= starts
  BY DEF ListRows, At, BackupStage, Filing
<1>10. run' = [run EXCEPT ![r] = [run[r] EXCEPT !.doomed = gone, !.pc = "remove"]]
  BY <1>0, <1>1, <1>2, <1>3
<1>11. /\ \A q \in Runs \ {r} : run'[q] = run[q]
       /\ run'[r].id = run[r].id /\ run'[r].kind = "backup"
       /\ run'[r].doomed = gone /\ run'[r].pc = "remove"
  BY <1>1, <1>9, <1>10 DEF Fields
<1>12. UNCHANGED <<files, backups, written, shared, orphaned, everGood, starts,
                   clock>>
  BY DEF ListRows, bounds
<1>13. \A id : IsDoomed(id)' => IsDoomed(id) \/ \E k \in 1..N : id = backups[k].id
  BY <1>8, <1>11 DEF IsDoomed
<1>14. StoreTypes' /\ RowsRight'
  BY <1>12 DEF StoreTypes, RowsRight
<1>15. \A q \in Runs : BackupStage(q)'
  <2>1. ASSUME NEW i \in DOMAIN gone
        PROVE  gone[i].id <= starts /\ gone[i].name \in written \cup {NoName}
    <3>1. PICK k \in DOMAIN backups : gone[i] = backups[k]
      BY <1>6, <1>8
    <3>2. backups[k].status \in {"ok", "failed"}
      BY OldIds DEF BackupRows
    <3> QED
      BY <3>1, <3>2 DEF RowsRight
  <2>2. BackupStage(r)'
    BY <1>8, <1>9, <1>11, <1>12, <2>1 DEF BackupStage, Filing
  <2> QED
    BY <1>11, <1>12, <2>2 DEF BackupStage
<1>16. IdsApart'
  <2>1. ASSUME NEW q \in Runs, run'[q].kind = "backup", run'[q].pc \notin Recorded
        PROVE  /\ \A k \in DOMAIN backups : backups[k].id # run'[q].id
               /\ ~IsDoomed(run[q].id)'
    <3>1. q # r /\ run'[q] = run[q]
      BY <1>11, <2>1 DEF Recorded
    <3>2. PICK id : id = run[q].id
      OBVIOUS
    <3>3. ~IsDoomed(id) /\ \A k \in DOMAIN backups : backups[k].id # id
      BY <2>1, <3>1, <3>2 DEF IdsApart
    <3>4. ~IsDoomed(id)'
      BY <1>6, <1>13, <3>3
    <3> QED
      BY <3>1, <3>2, <3>3, <3>4 DEF IsDoomed
  <2>2. ASSUME NEW q \in Runs, NEW p \in Runs, q # p, run'[q].kind = "backup",
               run'[p].kind = "backup"
        PROVE  run'[q].id # run'[p].id
    BY <1>9, <1>11, <2>2 DEF IdsApart
  <2> QED
    BY <1>12, <2>1, <2>2 DEF IdsApart, IsDoomed
<1>17. OneOwner'
  <2>1. ASSUME NEW q \in Runs, NEW i \in DOMAIN run'[q].doomed,
               NEW k \in DOMAIN backups,
               run'[q].doomed[i].name = backups[k].name,
               backups[k].name \in Names \ shared
        PROVE  run'[q].doomed[i].id = backups[k].id
    <3>1. CASE q = r
      BY <1>6, <1>8, <1>11, <2>1, <3>1 DEF OneOwner
    <3>2. CASE q # r
      BY <1>11, <2>1, <3>2 DEF OneOwner
    <3> QED
      BY <3>1, <3>2
  <2> QED
    BY <1>12, <2>1 DEF OneOwner
<1>18. \A q \in Runs : OwnerToBe(q)'
  <2>1. ASSUME NEW q \in Runs, run'[q].pc \in {"fill", "record"},
               run'[q].name \notin shared'
        PROVE  /\ run'[q].pc = "record" => files'[run'[q].name] = run'[q].id
               /\ \A k \in DOMAIN backups' : backups'[k].name # run'[q].name
               /\ \A p \in Runs : \A i \in DOMAIN run'[p].doomed :
                     run'[p].doomed[i].name # run'[q].name
               /\ \A p \in Runs \ {q} : run'[p].pc \in {"fill", "record"}
                                         => run'[p].name # run'[q].name
    <3>1. q # r /\ run'[q] = run[q]
      BY <1>11, <2>1
    <3>2. \A k \in DOMAIN backups : backups[k].name # run[q].name
      BY <1>12, <2>1, <3>1 DEF OwnerToBe
    <3>3. \A i \in DOMAIN gone : gone[i].name # run[q].name
      BY <1>6, <1>8, <3>2
    <3> QED
      BY <1>11, <1>12, <2>1, <3>1, <3>2, <3>3 DEF OwnerToBe
  <2> QED
    BY <2>1 DEF OwnerToBe
<1>19. \A k, l \in DOMAIN backups : backups[k].id = backups[l].id => k = l
  BY DEF RowsRight
<1>20. OlderFollow'
  <2>1. ASSUME NEW i \in DOMAIN gone, NEW k \in DOMAIN backups,
               NEW l \in DOMAIN backups, backups[l].id = gone[i].id, k < l
        PROVE  \E j \in DOMAIN gone : i < j /\ gone[j].id = backups[k].id
    <3>1. i \in 1..N /\ (N - i) + 1 \in 1..N /\ gone[i] = backups[(N - i) + 1]
      BY <2>1, <1>order
    <3>2. l = (N - i) + 1
      BY <1>6, <1>19, <2>1, <3>1
    <3>3. k \in Nat /\ k >= 1 /\ i \in Nat
      BY <1>7, <3>1
    <3> DEFINE j == (N - k) + 1
    <3>4. j \in 1..N /\ i < j /\ (N - j) + 1 = k
      BY <1>7, <2>1, <3>1, <3>2, <3>3
    <3>5. gone[j] = backups[k]
      BY <1>order, <3>4
    <3> QED
      BY <1>order, <3>4, <3>5
  <2>2. ASSUME NEW q \in Runs, NEW i \in DOMAIN run'[q].doomed,
               NEW k \in DOMAIN backups, NEW l \in DOMAIN backups,
               backups[l].id = run'[q].doomed[i].id, k < l
        PROVE  \E j \in DOMAIN run'[q].doomed :
                  i < j /\ run'[q].doomed[j].id = backups[k].id
    <3>1. CASE q = r
      BY <1>11, <2>1, <2>2, <3>1
    <3>2. CASE q # r
      BY <1>11, <2>2, <3>2 DEF OlderFollow
    <3> QED
      BY <3>1, <3>2
  <2> QED
    BY <1>12, <2>2 DEF OlderFollow
<1>21. GoodStays'
  <2>1. SUFFICES ASSUME everGood, ~displaced'
                 PROVE  \E k \in DOMAIN backups : /\ backups[k].status = "ok"
                                                  /\ ~IsDoomed(backups[k].id)'
    BY <1>12 DEF GoodStays, IsDoomed
  <2> DEFINE kept == {backups[k].status : k \in (N + 1)..L}
  <2>2. ~displaced /\ kept # {"failed"}
    BY <1>0, <1>2, <1>4, <1>5, <2>1
  <2>3. PICK k \in DOMAIN backups : backups[k].status = "ok"
                                    /\ ~IsDoomed(backups[k].id)
    BY <2>1, <2>2 DEF GoodStays
  <2>4. CASE k > N
    <3>1. PICK id : id = backups[k].id
      OBVIOUS
    <3>2. ~IsDoomed(id)'
      BY <1>6, <1>7, <1>13, <1>19, <2>3, <2>4, <3>1
    <3> QED
      BY <1>12, <2>3, <3>1, <3>2 DEF IsDoomed
  \* A good row among those kept is newer, and were it doomed, so would this be.
  <2>5. CASE k <= N
    <3>1. N + 1 \in (N + 1)..L /\ (N + 1)..L \subseteq DOMAIN backups
      BY <1>6, <1>7, <2>3, <2>5
    <3>2. kept \subseteq {"ok", "failed"}
      BY <3>1, OldIds DEF BackupRows
    <3>3. PICK l \in (N + 1)..L : backups[l].status = "ok"
      BY <2>2, <3>1, <3>2
    <3>4. PICK id : id = backups[l].id
      OBVIOUS
    <3>5. l \in DOMAIN backups /\ k < l /\ l > N
      BY <1>7, <2>3, <2>5, <3>1, <3>3
    <3>6. ~IsDoomed(id)
      BY <2>3, <3>4, <3>5 DEF OlderFollow, IsDoomed
    <3>7. ~IsDoomed(id)'
      BY <1>6, <1>7, <1>13, <1>19, <3>3, <3>4, <3>5, <3>6
    <3> QED
      BY <1>12, <3>3, <3>4, <3>5, <3>7 DEF IsDoomed
  <2> QED
    BY <1>7, <2>3, <2>4, <2>5
<1>22. FilesKept'
  BY <1>12 DEF FilesKept
<1> QED
  BY <1>14, <1>15, <1>16, <1>17, <1>18, <1>20, <1>21, <1>22
\* Nothing to prune when the rows cannot be listed.
LEMMA ListFailsKeepsBackups ==
    ASSUME IInv, BackupInv, NEW r \in Runs, ListFails(r)
    PROVE  BackupInv'
<1> USE DEF BackupInv
<1>1. DOMAIN run = Runs /\ DOMAIN run[r] = Fields
  BY DEF IInv, RequestRight, Shape
<1>2. run[r].kind = "backup" /\ run[r].pc = "prune" /\ run[r].doomed = <<>>
  BY DEF ListFails, At, BackupStage, Filing
<1>3. run' = [run EXCEPT ![r] = [run[r] EXCEPT !.pc = "remove"]]
  BY <1>1 DEF ListFails, Goto
<1>4. /\ \A q \in Runs \ {r} : run'[q] = run[q]
      /\ run'[r].id = run[r].id /\ run'[r].kind = "backup"
      /\ run'[r].doomed = <<>> /\ run'[r].pc = "remove"
  BY <1>1, <1>2, <1>3 DEF Fields
<1>5. UNCHANGED <<files, backups, written, shared, orphaned, everGood, displaced,
                  starts, clock>>
  BY DEF ListFails, stored, bounds
<1>6. /\ \A q \in Runs : run'[q].doomed = run[q].doomed
      /\ \A id : IsDoomed(id)' <=> IsDoomed(id)
  BY <1>2, <1>4 DEF IsDoomed
<1>7. StoreTypes' /\ RowsRight' /\ OneOwner' /\ OlderFollow' /\ GoodStays'
      /\ FilesKept'
  BY <1>5, <1>6
  DEF StoreTypes, RowsRight, OneOwner, OlderFollow, GoodStays, FilesKept, IsDoomed
<1>8. \A q \in Runs : BackupStage(q)'
  BY <1>2, <1>4, <1>5 DEF BackupStage, Filing
<1>9. IdsApart'
  BY <1>2, <1>4, <1>5, <1>6 DEF IdsApart, Recorded
<1>10. \A q \in Runs : OwnerToBe(q)'
  BY <1>4, <1>5, <1>6 DEF OwnerToBe
<1> QED
  BY <1>7, <1>8, <1>9, <1>10

\* What the oldest row a request has still to remove is: one of those it doomed,
\* whose file no request is writing.
LEMMA DoomedRow ==
    ASSUME BackupInv, NEW r \in Runs, run[r].doomed # <<>>,
           NEW old, old = Head(run[r].doomed)
    PROVE  /\ old \in BackupRows /\ IsDoomed(old.id) /\ old.id <= starts
           /\ old.name \in written \cup {NoName}
           /\ \A k \in DOMAIN backups :
                 old.name = backups[k].name /\ backups[k].name \in Names \ shared
                 => old.id = backups[k].id
           /\ \A q \in Runs : run[q].pc \in {"fill", "record"}
                              /\ run[q].name \notin shared => run[q].name # old.name
<1> USE DEF BackupInv
<1>1. run[r].doomed \in Seq(BackupRows)
  BY DEF BackupStage
<1>2. 1 \in DOMAIN run[r].doomed /\ old = run[r].doomed[1]
  BY <1>1
<1>3. IsDoomed(old.id) /\ \E i \in DOMAIN run[r].doomed : run[r].doomed[i] = old
  BY <1>2 DEF IsDoomed
<1>4. old \in BackupRows
  BY <1>3, OldIds
<1> QED
  BY <1>3, <1>4 DEF BackupStage, OneOwner, OwnerToBe

\* The file of one doomed row goes: the row has no file until it is deleted.
LEMMA FileRemovalKeepsBackups ==
    ASSUME IInv, BackupInv, NEW r \in Runs, RemoveFile(r)
    PROVE  BackupInv'
<1> USE DEF BackupInv
<1>1. DOMAIN run = Runs /\ DOMAIN run[r] = Fields
  BY DEF IInv, RequestRight, Shape
<1>2. PICK old : old = Head(run[r].doomed)
  OBVIOUS
<1>3. /\ run[r].kind = "backup" /\ run[r].pc = "remove" /\ run[r].doomed # <<>>
  BY DEF RemoveFile, At, BackupStage, Filing
<1>4. run' = [run EXCEPT ![r] = [run[r] EXCEPT !.pc = "drop"]]
  BY <1>1 DEF RemoveFile, Goto
<1>5. /\ \A q \in Runs \ {r} : run'[q] = run[q]
      /\ run'[r].id = run[r].id /\ run'[r].kind = "backup"
      /\ run'[r].doomed = run[r].doomed /\ run'[r].pc = "drop"
  BY <1>1, <1>3, <1>4 DEF Fields
<1>6. UNCHANGED <<backups, written, shared, everGood, displaced, starts, clock>>
  BY DEF RemoveFile, bounds
<1>7. /\ old.name = NoName => files' = files /\ orphaned' = orphaned
      /\ old.name # NoName =>
            /\ files' \in {files, [files EXCEPT ![old.name] = NoFile]}
            /\ orphaned' = orphaned \cup {old.name}
  BY <1>2 DEF RemoveFile
<1>8. \A q \in Runs : run[q].pc \in {"fill", "record"}
                      /\ run[q].name \notin shared => run[q].name # old.name
  BY <1>2, <1>3, DoomedRow
<1>9. /\ \A n \in Names : n # old.name => files'[n] = files[n]
      /\ files' \in [Names -> Nat \cup {NoFile}]
      /\ orphaned \subseteq orphaned'
  <2>1. files' \in {files, [files EXCEPT ![old.name] = NoFile]}
    BY <1>7
  <2>2. orphaned \subseteq orphaned'
    BY <1>7
  <2>3. CASE files' = files
    BY <2>2, <2>3 DEF StoreTypes
  <2>4. CASE files' = [files EXCEPT ![old.name] = NoFile]
    BY <2>2, <2>4 DEF StoreTypes
  <2> QED
    BY <2>1, <2>3, <2>4
<1>10. /\ \A q \in Runs : run'[q].doomed = run[q].doomed
       /\ \A id : IsDoomed(id)' <=> IsDoomed(id)
  BY <1>5 DEF IsDoomed
<1>11. StoreTypes' /\ RowsRight' /\ OneOwner' /\ OlderFollow' /\ GoodStays'
  <2>1. StoreTypes'
    BY <1>6, <1>9 DEF StoreTypes
  <2>2. RowsRight' /\ OneOwner' /\ OlderFollow'
    BY <1>6, <1>10 DEF RowsRight, OneOwner, OlderFollow
  <2>3. GoodStays'
    BY <1>6, <1>10 DEF GoodStays, IsDoomed
  <2> QED
    BY <2>1, <2>2, <2>3
<1>12. \A q \in Runs : BackupStage(q)'
  BY <1>3, <1>5, <1>6 DEF BackupStage, Filing
<1>13. IdsApart'
  BY <1>3, <1>5, <1>6, <1>10 DEF IdsApart, Recorded
<1>14. \A q \in Runs : OwnerToBe(q)'
  <2>1. \A q \in Runs : run[q].pc \in {"fill", "record"} => run[q].name \in Names
    BY DEF BackupStage
  <2> QED
    BY <1>5, <1>6, <1>8, <1>9, <1>10, <2>1 DEF OwnerToBe
<1>15. FilesKept'
  <2>1. ASSUME NEW k \in DOMAIN backups, backups[k].status = "ok",
               backups[k].name \notin shared \cup orphaned'
        PROVE  files'[backups[k].name] = backups[k].id
    <3>1. backups[k].name \in Names /\ backups[k].name # NoName
      BY <2>1, NamesAreSeconds DEF RowsRight, StoreTypes, Names
    <3>2. backups[k].name # old.name
      BY <1>7, <2>1, <3>1
    <3> QED
      BY <1>9, <2>1, <3>1, <3>2 DEF FilesKept
  <2> QED
    BY <1>6, <2>1 DEF FilesKept
<1> QED
  BY <1>11, <1>12, <1>13, <1>14, <1>15

\* One doomed row goes, or stays without its file.
LEMMA RowDeletionKeepsBackups ==
    ASSUME IInv, BackupInv, NEW r \in Runs, DeleteRow(r)
    PROVE  BackupInv'
<1>0. \A old : backups' = DropRow(backups, old) => WithoutRow(old, backups')
  BY Dropped
<1> USE DEF BackupInv
<1>1. DOMAIN run = Runs /\ DOMAIN run[r] = Fields
  BY DEF IInv, RequestRight, Shape
<1>2. PICK d : d = run[r].doomed
  OBVIOUS
<1>3. PICK old : old = Head(d)
  OBVIOUS
<1>4. /\ run[r].kind = "backup" /\ run[r].pc = "drop" /\ d # <<>>
      /\ d \in Seq(BackupRows) /\ run[r].id \in Nat /\ run[r].id <= starts
  BY <1>2 DEF DeleteRow, At, BackupStage, Filing
<1>5. /\ 1 \in DOMAIN d /\ old = d[1] /\ Tail(d) \in Seq(BackupRows)
      /\ \A i \in DOMAIN Tail(d) : i + 1 \in DOMAIN d /\ Tail(d)[i] = d[i + 1]
  BY <1>3, <1>4
<1>6. run' = [run EXCEPT ![r] = [run[r] EXCEPT !.doomed = Tail(d), !.pc = "remove"]]
  BY <1>1, <1>2 DEF DeleteRow
<1>7. /\ \A q \in Runs \ {r} : run'[q] = run[q]
      /\ run'[r].id = run[r].id /\ run'[r].kind = "backup"
      /\ run'[r].doomed = Tail(d) /\ run'[r].pc = "remove"
  BY <1>1, <1>4, <1>6 DEF Fields
<1>8. UNCHANGED <<files, written, shared, everGood, displaced, starts, clock>>
  BY DEF DeleteRow, bounds
<1>9. \/ /\ backups' = DropRow(backups, old)
         /\ orphaned' = orphaned \ {old.name}
      \/ backups' = backups /\ orphaned' = orphaned
  BY <1>2, <1>3 DEF DeleteRow
\* The row is one that this request had doomed.
<1>10. /\ IsDoomed(old.id)
       /\ \A k \in DOMAIN backups :
             old.name = backups[k].name /\ backups[k].name \in Names \ shared
             => old.id = backups[k].id
  BY <1>2, <1>3, <1>4, DoomedRow
<1>11. \A q \in Runs : \A i \in DOMAIN run'[q].doomed :
          \E j \in DOMAIN run[q].doomed : run'[q].doomed[i] = run[q].doomed[j]
  <2>1. ASSUME NEW i \in DOMAIN Tail(d)
        PROVE  \E j \in DOMAIN d : Tail(d)[i] = d[j]
    BY <1>5
  <2>2. ASSUME NEW q \in Runs, NEW i \in DOMAIN run'[q].doomed
        PROVE  \E j \in DOMAIN run[q].doomed :
                  run'[q].doomed[i] = run[q].doomed[j]
    <3>1. CASE q = r
      <4>1. run'[q].doomed = Tail(d) /\ run[q].doomed = d
        BY <1>2, <1>7, <3>1
      <4> QED
        BY <2>1, <2>2, <4>1
    <3>2. CASE q # r
      BY <1>7, <2>2, <3>2
    <3> QED
      BY <3>1, <3>2
  <2> QED
    BY <2>2
<1>12. \A id : IsDoomed(id)' => IsDoomed(id)
  BY <1>11 DEF IsDoomed
\* The rows there were, without or with that one.
<1>15. /\ backups' \in Seq(BackupRows)
       /\ \A k \in DOMAIN backups' : \E l \in DOMAIN backups :
             backups'[k] = backups[l]
       /\ \A k, l \in DOMAIN backups' : backups'[k].id = backups'[l].id => k = l
       /\ \A l \in DOMAIN backups : backups[l].id # old.id =>
             \E k \in DOMAIN backups' : backups'[k] = backups[l]
  <2>1. CASE backups' = backups
    BY <2>1 DEF StoreTypes, RowsRight
  <2>2. CASE backups' = DropRow(backups, old)
    BY <2>2, <1>0 DEF WithoutRow
  <2> QED
    BY <1>9, <2>1, <2>2
<1>16. StoreTypes'
  BY <1>8, <1>15 DEF StoreTypes
<1>17. RowsRight'
  <2>1. ASSUME NEW k \in DOMAIN backups'
        PROVE  /\ backups'[k].id <= starts'
               /\ backups'[k].status = "ok" => backups'[k].name \in written'
               /\ backups'[k].status = "failed" => backups'[k].name = NoName
    BY <1>8, <1>15, <2>1 DEF RowsRight
  <2> QED
    BY <1>15, <2>1 DEF RowsRight
<1>18. \A q \in Runs : BackupStage(q)'
  <2>1. ASSUME NEW q \in Runs, NEW i \in DOMAIN run'[q].doomed
        PROVE  /\ run'[q].doomed[i].id <= starts'
               /\ run'[q].doomed[i].name \in written' \cup {NoName}
    BY <1>8, <1>11, <2>1 DEF BackupStage
  <2>2. BackupStage(r)'
    BY <1>4, <1>5, <1>7, <1>8, <2>1 DEF BackupStage, Filing
  <2>3. ASSUME NEW q \in Runs \ {r}
        PROVE  BackupStage(q)'
    BY <1>7, <1>8 DEF BackupStage
  <2> QED
    BY <2>2, <2>3
<1>19. IdsApart'
  <2>1. ASSUME NEW q \in Runs, NEW p \in Runs, q # p, run'[q].kind = "backup",
               run'[p].kind = "backup"
        PROVE  run'[q].id # run'[p].id
    BY <1>4, <1>7, <2>1 DEF IdsApart
  <2>2. ASSUME NEW q \in Runs, run'[q].kind = "backup", run'[q].pc \notin Recorded
        PROVE  /\ \A k \in DOMAIN backups' : backups'[k].id # run'[q].id
               /\ ~IsDoomed(run[q].id)'
    <3>1. q # r /\ run'[q] = run[q]
      BY <1>7, <2>2 DEF Recorded
    <3>2. PICK id : id = run[q].id
      OBVIOUS
    <3>3. ~IsDoomed(id) /\ \A k \in DOMAIN backups : backups[k].id # id
      BY <2>2, <3>1, <3>2 DEF IdsApart
    <3>4. ~IsDoomed(id)'
      BY <1>12, <3>3
    <3>5. \A k \in DOMAIN backups' : backups'[k].id # id
      BY <1>15, <3>3
    <3> QED
      BY <3>1, <3>2, <3>4, <3>5 DEF IsDoomed
  <2> QED
    BY <2>1, <2>2 DEF IdsApart, IsDoomed
<1>20. OneOwner'
  <2>1. ASSUME NEW k \in DOMAIN backups', NEW l \in DOMAIN backups',
               backups'[k].name = backups'[l].name,
               backups'[k].name \in Names \ shared'
        PROVE  k = l
    <3>1. PICK m \in DOMAIN backups, n \in DOMAIN backups :
             backups'[k] = backups[m] /\ backups'[l] = backups[n]
      BY <1>15
    <3>2. m = n
      BY <1>8, <2>1, <3>1 DEF OneOwner
    <3> QED
      BY <1>15, <3>1, <3>2
  <2>2. ASSUME NEW q \in Runs, NEW i \in DOMAIN run'[q].doomed,
               NEW k \in DOMAIN backups',
               run'[q].doomed[i].name = backups'[k].name,
               backups'[k].name \in Names \ shared'
        PROVE  run'[q].doomed[i].id = backups'[k].id
    <3>1. PICK m \in DOMAIN backups : backups'[k] = backups[m]
      BY <1>15
    <3>2. PICK j \in DOMAIN run[q].doomed : run'[q].doomed[i] = run[q].doomed[j]
      BY <1>11, <2>2
    <3> QED
      BY <1>8, <2>2, <3>1, <3>2 DEF OneOwner
  <2> QED
    BY <2>1, <2>2 DEF OneOwner
<1>21. \A q \in Runs : OwnerToBe(q)'
  <2>1. ASSUME NEW q \in Runs, run'[q].pc \in {"fill", "record"},
               run'[q].name \notin shared'
        PROVE  /\ run'[q].pc = "record" => files'[run'[q].name] = run'[q].id
               /\ \A k \in DOMAIN backups' : backups'[k].name # run'[q].name
               /\ \A p \in Runs : \A i \in DOMAIN run'[p].doomed :
                     run'[p].doomed[i].name # run'[q].name
               /\ \A p \in Runs \ {q} : run'[p].pc \in {"fill", "record"}
                                         => run'[p].name # run'[q].name
    <3>1. q # r /\ run'[q] = run[q] /\ run[q].name \notin shared
      BY <1>7, <1>8, <2>1
    <3>2. /\ run[q].pc = "record" => files[run[q].name] = run[q].id
          /\ \A k \in DOMAIN backups : backups[k].name # run[q].name
          /\ \A p \in Runs : \A i \in DOMAIN run[p].doomed :
                run[p].doomed[i].name # run[q].name
          /\ \A p \in Runs \ {q} : run[p].pc \in {"fill", "record"}
                                    => run[p].name # run[q].name
      BY <2>1, <3>1 DEF OwnerToBe
    <3>3. \A p \in Runs : \A i \in DOMAIN run'[p].doomed :
             run'[p].doomed[i].name # run[q].name
      BY <1>11, <3>2
    <3>4. \A k \in DOMAIN backups' : backups'[k].name # run[q].name
      BY <1>15, <3>2
    <3>5. \A p \in Runs \ {q} : run'[p].pc \in {"fill", "record"}
                                 => run'[p].name # run[q].name
      BY <1>7, <3>2
    <3> QED
      BY <1>8, <2>1, <3>1, <3>2, <3>3, <3>4, <3>5
  <2> QED
    BY <2>1 DEF OwnerToBe
\* The rows left are in the order they were in, and so is what is doomed.
<1>22. OlderFollow'
  <2>1. ASSUME NEW k \in DOMAIN backups', NEW l \in DOMAIN backups', k < l
        PROVE  \E m, n \in DOMAIN backups :
                  m < n /\ backups'[k] = backups[m] /\ backups'[l] = backups[n]
    <3>1. CASE backups' = backups
      BY <2>1, <3>1
    <3>2. CASE backups' # backups
      <4>1. PICK j \in DOMAIN backups :
               \A i \in DOMAIN backups' : \E n \in DOMAIN backups :
                     /\ backups'[i] = backups[n]
                     /\ n = IF i < j THEN i ELSE i + 1
        BY <1>9, <3>2, <1>0 DEF WithoutRow
      <4>2. PICK m \in DOMAIN backups, n \in DOMAIN backups :
               /\ backups'[k] = backups[m] /\ m = IF k < j THEN k ELSE k + 1
               /\ backups'[l] = backups[n] /\ n = IF l < j THEN l ELSE l + 1
        BY <4>1
      <4>3. j \in Nat /\ k \in Nat /\ l \in Nat
        <5>1. backups' \in Seq(BackupRows)
          BY <1>15
        <5>2. k \in Nat /\ l \in Nat
          BY <5>1, Elements
        <5> QED
          BY <5>2, OldIds
      <4> QED
        BY <2>1, <4>2, <4>3
    <3> QED
      BY <3>1, <3>2
  <2>2. ASSUME NEW q \in Runs, NEW i \in DOMAIN run'[q].doomed,
               NEW k \in DOMAIN backups', NEW l \in DOMAIN backups',
               backups'[l].id = run'[q].doomed[i].id, k < l
        PROVE  \E j \in DOMAIN run'[q].doomed :
                  i < j /\ run'[q].doomed[j].id = backups'[k].id
    <3>1. PICK m \in DOMAIN backups, n \in DOMAIN backups :
             m < n /\ backups'[k] = backups[m] /\ backups'[l] = backups[n]
      BY <2>1, <2>2
    <3>2. CASE q = r
      <4>1. i \in DOMAIN Tail(d) /\ run'[q].doomed = Tail(d)
        BY <1>7, <2>2, <3>2
      <4>2. i + 1 \in DOMAIN d /\ backups[n].id = d[i + 1].id
        BY <1>5, <2>2, <3>1, <4>1
      <4>3. PICK j \in DOMAIN d : i + 1 < j /\ d[j].id = backups[m].id
        BY <1>2, <3>1, <3>2, <4>2 DEF OlderFollow
      <4>4. /\ Len(d) \in Nat /\ DOMAIN d = 1..Len(d)
            /\ DOMAIN Tail(d) = 1..(Len(d) - 1)
        BY <1>4
      <4>5. j - 1 \in DOMAIN Tail(d) /\ i < j - 1 /\ (j - 1) + 1 = j
        BY <4>1, <4>3, <4>4
      <4>6. Tail(d)[j - 1] = d[j]
        BY <1>5, <4>5
      <4> QED
        BY <3>1, <4>1, <4>3, <4>5, <4>6
    <3>3. CASE q # r
      BY <1>7, <2>2, <3>1, <3>3 DEF OlderFollow
    <3> QED
      BY <3>2, <3>3
  <2> QED
    BY <2>2 DEF OlderFollow
<1>23. GoodStays'
  <2>1. SUFFICES ASSUME everGood, ~displaced
                 PROVE  \E k \in DOMAIN backups' : /\ backups'[k].status = "ok"
                                                   /\ ~IsDoomed(backups[k].id)'
    BY <1>8 DEF GoodStays, IsDoomed
  <2>2. PICK l \in DOMAIN backups : backups[l].status = "ok"
                                    /\ ~IsDoomed(backups[l].id)
    BY <2>1 DEF GoodStays
  <2>3. backups[l].id # old.id
    BY <1>10, <2>2
  <2>4. PICK k \in DOMAIN backups' : backups'[k] = backups[l]
    BY <1>15, <2>3
  <2>5. PICK id : id = backups[l].id
    OBVIOUS
  <2>6. ~IsDoomed(id)'
    BY <1>12, <2>2, <2>5
  <2> QED
    BY <2>2, <2>4, <2>5, <2>6 DEF IsDoomed
<1>24. FilesKept'
  <2>1. ASSUME NEW k \in DOMAIN backups', backups'[k].status = "ok",
               backups'[k].name \notin shared \cup orphaned'
        PROVE  files[backups'[k].name] = backups'[k].id
    <3>1. PICK l \in DOMAIN backups : backups'[k] = backups[l]
      BY <1>15
    <3>2. backups[l].name \in Names \ shared
      BY <2>1, <3>1 DEF RowsRight, StoreTypes
    <3>3. backups[l].name \notin orphaned
      <4>1. SUFFICES ASSUME backups[l].name \in orphaned
                     PROVE  FALSE
        OBVIOUS
      <4>2. backups' = DropRow(backups, old) /\ backups[l].name = old.name
        BY <1>9, <2>1, <3>1, <4>1
      <4>3. old.id = backups[l].id
        BY <1>10, <3>2, <4>2
      <4> QED
        BY <3>1, <4>2, <4>3, <1>0 DEF WithoutRow
    <3> QED
      BY <2>1, <3>1, <3>2, <3>3 DEF FilesKept
  <2> QED
    BY <1>8, <2>1 DEF FilesKept
<1> QED
  BY <1>16, <1>17, <1>18, <1>19, <1>20, <1>21, <1>22, <1>23, <1>24
-----------------------------------------------------------------------------
(* Every step.                                                             *)

\* What a call comes to, and what only ends a request, store nothing.
LEMMA EndsKeepBackups ==
    ASSUME IInv, BackupInv, NEW r \in Runs,
           \/ SaveFails(r) \/ Invalidate(r) \/ RecordFails(r) \/ BackupEnds(r)
           \/ CallEnds(r)
    PROVE  BackupInv'
<1>1. Finish(r) /\ UNCHANGED <<stored, starts, clock>>
  BY DEF SaveFails, Invalidate, RecordFails, BackupEnds, CallEnds, bounds
<1> QED
  BY <1>1, EndsUnstored

\* A call's attempt that fails is retried or answered.
LEMMA CallsKeepBackups ==
    ASSUME IInv, BackupInv, NEW r \in Runs,
           \/ LoginFails(r) \/ Lost(r) \/ Refused(r) \/ Answer(r)
    PROVE  BackupInv'
<1>1. run[r].pc \in {"use", "send"} /\ UNCHANGED <<stored, bounds>>
  BY DEF LoginFails, Lost, Refused, Answer, At
<1>2. CASE \E n : Failed(r, n)
  BY <1>1, <1>2, FailedKeepsBackups
<1>3. CASE ~ \E n : Failed(r, n)
  <2>1. \/ Refused(r) /\ ~(kind = "xui" /\ run[r].refusals > 0)
        \/ Answer(r) /\ run[r].body = "full"
    BY <1>3 DEF LoginFails, Lost, Refused, Answer
  <2> QED
    BY <2>1, MovesKeepBackups
<1> QED
  BY <1>2, <1>3

\* Every step keeps the backups in order.
LEMMA BackupStep ==
    ASSUME IInv, BackupInv, [Next]_vars
    PROVE  BackupInv'
<1>1. ASSUME NEW r \in Runs, Step(r)
      PROVE  BackupInv'
  <2>1. CASE \/ \E address \in Addresses : StartEdit(r, address)
             \/ StartDisable(r) \/ StartBackup(r)
             \/ \E method \in Methods : StartCall(r, method)
    BY <2>1, StartsKeepBackups
  <2>2. CASE \/ Lookup(r) \/ ReadPanel(r) \/ Insert(r) \/ SavePanel(r)
             \/ LoggedIn(r)
    <3>1. \/ Lookup(r) \/ ReadPanel(r) \/ Insert(r) \/ SavePanel(r)
          \/ LoggedIn(r)
          \/ Refused(r) /\ ~(kind = "xui" /\ run[r].refusals > 0)
          \/ Answer(r) /\ run[r].body = "full"
      BY <2>2
    <3> QED
      BY <3>1, MovesKeepBackups
  <2>3. CASE \/ SaveFails(r) \/ Invalidate(r) \/ RecordFails(r) \/ BackupEnds(r)
             \/ CallEnds(r)
    BY <2>3, EndsKeepBackups
  <2>4. CASE LoginFails(r) \/ Lost(r) \/ Refused(r) \/ Answer(r)
    BY <2>4, CallsKeepBackups
  <2>5. CASE DownloadFails(r) \/ WriteFails(r)
    BY <2>5, FailureKeepsBackups
  <2>6. CASE Download(r)
    BY <2>6, DownloadKeepsBackups
  <2>7. CASE OpenFile(r) \/ WriteFile(r)
    BY <2>7, OpenKeepsBackups, WriteKeepsBackups
  <2>8. CASE Record(r)
    BY <2>8, RecordKeepsBackups
  <2>9. CASE ListRows(r) \/ ListFails(r)
    BY <2>9, ListKeepsBackups, ListFailsKeepsBackups
  <2>10. CASE RemoveFile(r) \/ DeleteRow(r)
    BY <2>10, FileRemovalKeepsBackups, RowDeletionKeepsBackups
  <2> QED
    BY <1>1, <2>1, <2>2, <2>3, <2>4, <2>5, <2>6, <2>7, <2>8, <2>9, <2>10
    DEF Step
<1>2. CASE Tick
  <2>1. UNCHANGED <<stored, run, starts>>
    BY <1>2 DEF Tick
  <2>2. clock' \in Names
    BY <1>2, NamesAreSeconds DEF Tick, BackupInv, StoreTypes, Names
  <2> QED
    BY <2>1, <2>2
    DEF BackupInv, StoreTypes, RowsRight, BackupStage, IdsApart, OneOwner,
        OwnerToBe, OlderFollow, GoodStays, FilesKept, IsDoomed, stored
<1>3. CASE UNCHANGED vars
  <2>1. UNCHANGED <<stored, run, starts, clock>>
    BY <1>3 DEF vars, bounds
  <2> QED
    BY <2>1
    DEF BackupInv, StoreTypes, RowsRight, BackupStage, IdsApart, OneOwner,
        OwnerToBe, OlderFollow, GoodStays, FilesKept, IsDoomed, stored
<1>4. CASE Crash
  <2>1. /\ \A q \in Runs : run'[q] = Idle
        /\ UNCHANGED <<files, backups, written, shared, orphaned, everGood,
                       displaced, clock, starts>>
    BY <1>4 DEF Crash, stored
  <2>2. /\ Idle.pc = "idle" /\ Idle.kind = "none" /\ Idle.doomed = <<>>
        /\ Idle.id = 0
    BY DEF Idle
  <2>3. \A id : ~IsDoomed(id)'
    BY <2>1, <2>2 DEF IsDoomed
  <2>4. StoreTypes' /\ RowsRight' /\ FilesKept'
    BY <2>1 DEF BackupInv, StoreTypes, RowsRight, FilesKept
  <2>5. \A q \in Runs : BackupStage(q)' /\ OwnerToBe(q)'
    <3>1. starts \in Nat /\ <<>> \in Seq(BackupRows) /\ DOMAIN <<>> = {}
      BY DEF BackupInv, StoreTypes
    <3>2. ASSUME NEW q \in Runs
          PROVE  BackupStage(q)'
      <4>1. /\ run'[q].pc = "idle" /\ run'[q].id = 0 /\ run'[q].doomed = <<>>
            /\ starts' = starts
        BY <2>1, <2>2
      <4> QED
        BY <3>1, <4>1 DEF BackupStage, Filing
    <3>3. \A q \in Runs : OwnerToBe(q)'
      BY <2>1, <2>2 DEF OwnerToBe
    <3> QED
      BY <3>2, <3>3
  <2>6. IdsApart' /\ OneOwner'
    BY <2>1, <2>2 DEF BackupInv, IdsApart, OneOwner
  <2>7. OlderFollow' /\ GoodStays'
    BY <2>1, <2>3 DEF BackupInv, OlderFollow, GoodStays, IsDoomed
  <2> QED
    BY <2>4, <2>5, <2>6, <2>7 DEF BackupInv
<1> QED
  BY <1>1, <1>2, <1>3, <1>4 DEF Next

\* They start so: without rows, files or requests.
LEMMA BackupInit == Init => BackupInv
<1> SUFFICES ASSUME Init
             PROVE  BackupInv
  OBVIOUS
<1>1. /\ Idle.pc = "idle" /\ Idle.kind = "none" /\ Idle.doomed = <<>>
      /\ Idle.id = 0
  BY DEF Idle
<1>2. /\ \A q \in Runs : run[q] = Idle
      /\ files = [n \in Names |-> NoFile]
      /\ backups = <<>> /\ written = {} /\ shared = {}
      /\ everGood = FALSE /\ clock = 0 /\ starts = 0
  BY DEF Init
<1>3. StoreTypes
  BY <1>2, NamesAreSeconds DEF StoreTypes, Names
<1>4. \A q \in Runs : BackupStage(q) /\ OwnerToBe(q)
  <2>1. <<>> \in Seq(BackupRows) /\ DOMAIN <<>> = {}
    OBVIOUS
  <2>2. ASSUME NEW q \in Runs
        PROVE  BackupStage(q)
    <3>1. run[q].pc = "idle" /\ run[q].id = 0 /\ run[q].doomed = <<>> /\ starts = 0
      BY <1>1, <1>2
    <3> QED
      BY <2>1, <3>1 DEF BackupStage, Filing
  <2>3. \A q \in Runs : OwnerToBe(q)
    BY <1>1, <1>2 DEF OwnerToBe
  <2> QED
    BY <2>2, <2>3
<1>5. RowsRight /\ IdsApart /\ OneOwner /\ OlderFollow /\ GoodStays /\ FilesKept
  BY <1>1, <1>2
  DEF RowsRight, IdsApart, OneOwner, OlderFollow, GoodStays, FilesKept
<1> QED
  BY <1>3, <1>4, <1>5 DEF BackupInv

\* The rows, the files and what is about to be removed agree in every state,
\* for any number of backups at once, failures and crashes.
THEOREM PanelBackupInvariant == Spec => [](IInv /\ BackupInv)
<1>1. IInv /\ BackupInv /\ [Next]_vars => BackupInv'
  BY BackupStep
<1> QED
  BY <1>1, BackupInit, PanelInvariant, PTL DEF Spec

\* A backup listed as good has its file unless the file's name is shared or a
\* pruning has removed the file and not yet, or never, deleted the row; and a
\* good one stays listed unless failures pushed it out, however many rows each
\* pruning keeps and wherever prunings interleave, fail or are cut off.
THEOREM PanelBackupsAreKept == Spec => []BackupsAreKept
<1>1. BackupInv => BackupsAreKept
  BY DEF BackupInv, FilesKept, GoodStays, BackupsAreKept
<1> QED
  BY <1>1, PanelBackupInvariant, PTL
===============================================================================
