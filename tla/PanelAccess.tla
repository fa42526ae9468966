----------------------------- MODULE PanelAccess -----------------------------
(***************************************************************************)
(* One panel's client: how it is cached, replaced and used.                *)
(*                                                                         *)
(* The registry (panels/registry.go) keeps a client built from the panel's *)
(* row. The console changes the row and then drops the client. A backup    *)
(* (backup/service.go) downloads through the client, writes a file, adds a *)
(* row and prunes older ones. A call that changes an account logs in,      *)
(* sends, and tries again when the panel refuses it (panels/xui.go,        *)
(* panels/marzban.go).                                                     *)
(*                                                                         *)
(* Requests run concurrently and share the cache, the rows and the files.  *)
(* A crash loses the cache and the requests.                               *)
(***************************************************************************)
EXTENDS Integers, Sequences, FiniteSets, SequencesExt

CONSTANTS Runs,
          Addresses,   \* address and credentials of the panel
          NoClient, NoFile, NoName,
          Retentions,  \* values of backup_retention, the default of 7 among them
          MaxStarts,   \* bound on the requests started
          MaxClock,    \* bound on the seconds that pass
          MaxRefusals, \* bound on the refusals (401) of one call
          MaxCrashes   \* bound on the crashes

ASSUME RetentionsArePositive == Retentions \subseteq Nat \ {0}

\* A file name is the second of a download.
ASSUME NamesAreSeconds == MaxClock \in Nat /\ NoName \notin 0..MaxClock

VARIABLES
    row,     \* the panel's row: address and status
    kind,    \* 3x-ui or Marzban
    cache,   \* address the cached client was built for, or NoClient
    stale,   \* the cached client was put there after its row had changed
    files,   \* what each backup file holds
    backups, \* the rows of panel_backups, oldest first
    written, shared, \* file names opened by a backup; by more than one
    orphaned,        \* names a pruning removed whose row it has not deleted
    everGood, displaced, \* a backup succeeded; failed rows pushed one out
    run, clock, starts, crashes

registry == <<row, kind, cache, stale>>
stored == <<files, backups, written, shared, orphaned, everGood, displaced>>
bounds == <<clock, starts, crashes>>
vars == <<registry, stored, run, bounds>>

Names == 0..MaxClock

Idle == [pc |-> "idle", kind |-> "none", id |-> 0, read |-> NoClient,
         client |-> NoClient, address |-> NoClient, name |-> NoName,
         doomed |-> <<>>, method |-> "GET", tries |-> 0, refusals |-> 0,
         body |-> "full", applied |-> 0, ok |-> FALSE]

Init ==
    /\ row \in [address : Addresses, status : {"active"}]
    /\ kind \in {"xui", "marzban"}
    /\ cache = NoClient /\ stale = FALSE
    /\ files = [n \in Names |-> NoFile]
    /\ backups = <<>> /\ written = {} /\ shared = {} /\ orphaned = {}
    /\ everGood = FALSE /\ displaced = FALSE
    /\ run = [r \in Runs |-> Idle]
    /\ clock = 0 /\ starts = 0 /\ crashes = 0

At(r, pc) == run[r].pc = pc
Goto(r, pc) == run' = [run EXCEPT ![r].pc = pc]
Finish(r) == run' = [run EXCEPT ![r] = Idle]

Start(r, new) ==
    /\ At(r, "idle") /\ starts < MaxStarts
    /\ starts' = starts + 1
    /\ run' = [run EXCEPT ![r] = new]
    /\ UNCHANGED <<registry, stored, clock, crashes>>

-----------------------------------------------------------------------------
(* The registry.                                                           *)

\* Get: a cached client is used as it is.
Lookup(r) ==
    /\ At(r, "lookup")
    /\ Goto(r, IF cache # NoClient THEN "use" ELSE "read")
    /\ UNCHANGED <<registry, stored, bounds>>

\* Otherwise the row is read, outside the lock.
ReadPanel(r) ==
    /\ At(r, "read")
    /\ run' = [run EXCEPT ![r].client = row.address, ![r].pc = "insert"]
    /\ UNCHANGED <<registry, stored, bounds>>

\* The client built from it replaces what the cache then holds.
Insert(r) ==
    /\ At(r, "insert")
    /\ cache' = run[r].client
    /\ stale' = (run[r].client # row.address)
    /\ run' = [run EXCEPT ![r].client = NoClient, ![r].pc = "use"]
    /\ UNCHANGED <<row, kind, stored, bounds>>

\* postPanelUpdate and postPanelDisable read the row, change some fields and
\* save all of it.
StartEdit(r, address) ==
    Start(r, [Idle EXCEPT !.pc = "save", !.kind = "edit", !.read = row,
                          !.address = address])
StartDisable(r) ==
    Start(r, [Idle EXCEPT !.pc = "save", !.kind = "disable", !.read = row])

Edited(r) ==
    IF run[r].kind = "edit"
    THEN [run[r].read EXCEPT !.address = run[r].address]
    ELSE [run[r].read EXCEPT !.status = "disabled"]

\* Mutant: a disabled panel keeps its client.
SaveForgetsDisable(r) ==
    /\ At(r, "save")
    /\ row' = Edited(r)
    /\ IF run[r].kind = "edit" THEN Goto(r, "invalidate") ELSE Finish(r)
    /\ UNCHANGED <<kind, cache, stale, stored, bounds>>

\* The save may fail, which ends the request.
SavePanel(r) ==
    /\ At(r, "save")
    /\ row' = Edited(r)
    /\ Goto(r, "invalidate")
    /\ UNCHANGED <<kind, cache, stale, stored, bounds>>

SaveFails(r) ==
    /\ At(r, "save")
    /\ Finish(r)
    /\ UNCHANGED <<registry, stored, bounds>>

\* Only a saved row drops the client.
Invalidate(r) ==
    /\ At(r, "invalidate")
    /\ cache' = NoClient /\ stale' = FALSE
    /\ Finish(r)
    /\ UNCHANGED <<row, kind, stored, bounds>>

-----------------------------------------------------------------------------
(* Backups.                                                                *)

\* The cron job takes the active panels with backups on, the console any.
StartBackup(r) ==
    Start(r, [Idle EXCEPT !.pc = "lookup", !.kind = "backup", !.id = starts + 1])

Row(r, status, name) == [id |-> run[r].id, status |-> status, name |-> name]

\* A failure on the way is recorded as a row of its own, if the store takes it.
BackupFails(r, name) ==
    /\ backups' \in {backups, Append(backups, Row(r, "failed", name))}
    /\ Finish(r)
    /\ UNCHANGED <<registry, files, written, shared, orphaned, everGood,
                   displaced, bounds>>

\* Marzban has no backup; a download that fails twice gives up.
DownloadFails(r) ==
    /\ At(r, "use") /\ run[r].kind = "backup"
    /\ BackupFails(r, NoName)

\* The file is named after the second of the download.
Download(r) ==
    /\ At(r, "use") /\ run[r].kind = "backup" /\ kind = "xui"
    /\ run' = [run EXCEPT ![r].name = clock, ![r].pc = "write"]
    /\ UNCHANGED <<registry, stored, bounds>>

\* WriteFile opens the file, which empties one of that name, and fills it.
OpenFile(r) ==
    /\ At(r, "write")
    /\ LET name == run[r].name
       IN  /\ files' = [files EXCEPT ![name] = NoFile]
           /\ written' = written \cup {name}
           /\ shared' = shared \cup ({name} \cap written)
    /\ Goto(r, "fill")
    /\ UNCHANGED <<registry, backups, orphaned, everGood, displaced, bounds>>

\* Either may fail, which leaves no file or a part of one.
WriteFails(r) ==
    /\ At(r, "write") \/ At(r, "fill")
    /\ BackupFails(r, NoName)

WriteFile(r) ==
    /\ At(r, "fill")
    /\ files' = [files EXCEPT ![run[r].name] = run[r].id]
    /\ Goto(r, "record")
    /\ UNCHANGED <<registry, backups, written, shared, orphaned, everGood,
                   displaced, bounds>>

\* The row of a file that was written; without it the file is left behind.
Record(r) ==
    /\ At(r, "record")
    /\ backups' = Append(backups, Row(r, "ok", run[r].name))
    /\ everGood' = TRUE
    /\ Goto(r, "prune")
    /\ UNCHANGED <<registry, files, written, shared, orphaned, displaced, bounds>>

RecordFails(r) ==
    /\ At(r, "record")
    /\ Finish(r)
    /\ UNCHANGED <<registry, stored, bounds>>

\* Mutant: one row too few is kept.
OlderThanKept(rows, keep) ==
    SubSeq(rows, 1, IF Len(rows) < keep THEN 0 ELSE Len(rows) - keep + 1)

\* All rows but the newest ones, whatever their status.
Prunable(rows, keep) ==
    SubSeq(rows, 1, IF Len(rows) <= keep THEN 0 ELSE Len(rows) - keep)

\* prune reads how many rows are kept (a setting that cannot be read counts as
\* the default), lists the rows once and takes the prunable ones, newest first.
ListRows(r) ==
    /\ At(r, "prune")
    /\ \E keep \in Retentions :
          LET old == Prunable(backups, keep)
              kept == {backups[k].status : k \in (Len(old) + 1)..Len(backups)}
          IN  /\ run' = [run EXCEPT ![r].doomed = Reverse(old), ![r].pc = "remove"]
              /\ displaced' = (displaced \/ kept = {"failed"})
    /\ UNCHANGED <<registry, files, backups, written, shared, orphaned, everGood,
                   bounds>>

\* The rows cannot be listed: nothing is pruned.
ListFails(r) ==
    /\ At(r, "prune")
    /\ Goto(r, "remove")
    /\ UNCHANGED <<registry, stored, bounds>>

\* One row of the list: first its file is removed. The error is ignored.
RemoveFile(r) ==
    /\ At(r, "remove") /\ run[r].doomed # <<>>
    /\ LET name == Head(run[r].doomed).name
       IN  IF name = NoName
           THEN UNCHANGED <<files, orphaned>>
           ELSE /\ files' \in {files, [files EXCEPT ![name] = NoFile]}
                /\ orphaned' = orphaned \cup {name}
    /\ Goto(r, "drop")
    /\ UNCHANGED <<registry, backups, written, shared, everGood, displaced, bounds>>

\* Mutant: the file goes and the row stays.
KeepRow(rows, old) == rows

\* DeletePanelBackup: the row of that id, if it is still there.
DropRow(rows, old) ==
    IF \E k \in DOMAIN rows : rows[k].id = old.id
    THEN RemoveAt(rows, CHOOSE k \in DOMAIN rows : rows[k].id = old.id)
    ELSE rows

\* Then the row is deleted. The store's error is ignored as well, which leaves
\* the row without its file.
DeleteRow(r) ==
    /\ At(r, "drop")
    /\ LET old == Head(run[r].doomed)
       IN  \/ backups' = DropRow(backups, old) /\ orphaned' = orphaned \ {old.name}
           \/ UNCHANGED <<backups, orphaned>>
    /\ run' = [run EXCEPT ![r].doomed = Tail(@), ![r].pc = "remove"]
    /\ UNCHANGED <<registry, files, written, shared, everGood, displaced, bounds>>

\* Last the file is sent to a chat, if it is still there; then the answer.
BackupEnds(r) ==
    /\ At(r, "remove") /\ run[r].doomed = <<>>
    /\ Finish(r)
    /\ UNCHANGED <<registry, stored, bounds>>

-----------------------------------------------------------------------------
(* Calls.                                                                  *)

\* A call reads ("GET") or changes an account: "POST" sends a body, "ACT" has
\* none (a reset of the traffic, a deletion).
Methods == {"GET", "POST", "ACT"}
StartCall(r, method) ==
    Start(r, [Idle EXCEPT !.pc = "lookup", !.kind = "call", !.method = method])

\* Mutant: a call that changes something is repeated like one that reads.
ThreeAttempts(r) == 3

\* doLocked: only a call of 3x-ui that reads is attempted three times.
Attempts(r) == IF kind = "xui" /\ run[r].method = "GET" THEN 3 ELSE 1

\* An attempt failed: the next one, with a body read to its end by the first.
Failed(r, applied) ==
    LET more == run[r].tries + 1 < Attempts(r)
    IN  run' = IF more
               THEN [run EXCEPT ![r].pc = "use", ![r].tries = @ + 1,
                                ![r].refusals = 0, ![r].applied = applied]
               ELSE [run EXCEPT ![r].pc = "answered", ![r].ok = FALSE,
                                ![r].applied = applied]

\* 3x-ui logs in for every attempt, Marzban when it has no token.
LoginFails(r) ==
    /\ At(r, "use") /\ run[r].kind = "call"
    /\ Failed(r, run[r].applied)
    /\ UNCHANGED <<registry, stored, bounds>>

LoggedIn(r) ==
    /\ At(r, "use") /\ run[r].kind = "call"
    /\ Goto(r, "send")
    /\ UNCHANGED <<registry, stored, bounds>>

\* The request or its answer is lost: the call cannot tell which.
Lost(r) ==
    /\ At(r, "send")
    /\ \E arrived \in BOOLEAN :
          Failed(r, run[r].applied + IF arrived /\ run[r].body = "full"
                                     THEN 1 ELSE 0)
    /\ UNCHANGED <<registry, stored, bounds>>

\* The panel refuses the session. The call logs in again and sends once more:
\* 3x-ui once in an attempt, Marzban for as long as it is refused. The body
\* was consumed by the first sending.
Refused(r) ==
    /\ At(r, "send") /\ run[r].refusals < MaxRefusals
    /\ IF kind = "xui" /\ run[r].refusals > 0
       THEN Failed(r, run[r].applied)
       ELSE run' = [run EXCEPT ![r].pc = "use", ![r].refusals = @ + 1,
                        ![r].body = IF run[r].method = "POST" THEN "empty"
                                    ELSE "full"]
    /\ UNCHANGED <<registry, stored, bounds>>

\* The panel answers. It carries out what it was sent, and rejects a change
\* that has lost its body.
Answer(r) ==
    /\ At(r, "send")
    /\ IF run[r].body = "full"
       THEN run' = [run EXCEPT ![r].ok = TRUE, ![r].applied = @ + 1,
                               ![r].pc = "answered"]
       ELSE Failed(r, run[r].applied)
    /\ UNCHANGED <<registry, stored, bounds>>

CallEnds(r) ==
    /\ At(r, "answered")
    /\ Finish(r)
    /\ UNCHANGED <<registry, stored, bounds>>

-----------------------------------------------------------------------------
Tick ==
    /\ clock < MaxClock
    /\ clock' = clock + 1
    /\ UNCHANGED <<registry, stored, run, starts, crashes>>

\* The process dies and starts again: memory is lost, files and rows stay.
Crash ==
    /\ crashes < MaxCrashes
    /\ crashes' = crashes + 1
    /\ cache' = NoClient /\ stale' = FALSE
    /\ run' = [r \in Runs |-> Idle]
    /\ UNCHANGED <<row, kind, stored, clock, starts>>

Step(r) ==
    \/ Lookup(r) \/ ReadPanel(r) \/ Insert(r)
    \/ \E address \in Addresses : StartEdit(r, address)
    \/ StartDisable(r) \/ SavePanel(r) \/ SaveFails(r) \/ Invalidate(r)
    \/ StartBackup(r) \/ DownloadFails(r) \/ Download(r)
    \/ OpenFile(r) \/ WriteFails(r) \/ WriteFile(r) \/ Record(r) \/ RecordFails(r)
    \/ ListRows(r) \/ ListFails(r) \/ RemoveFile(r) \/ DeleteRow(r) \/ BackupEnds(r)
    \/ \E method \in Methods : StartCall(r, method)
    \/ LoginFails(r) \/ LoggedIn(r) \/ Lost(r) \/ Refused(r) \/ Answer(r)
    \/ CallEnds(r)

Next == (\E r \in Runs : Step(r)) \/ Tick \/ Crash

Spec == Init /\ [][Next]_vars

-----------------------------------------------------------------------------
(* Properties.                                                             *)

\* While no edit is between its save and its invalidation, the client handed
\* out is the one of the panel's row, unless it was built from a row read
\* before an edit and cached after it: then it stays until the next edit.
ClientIsCurrent ==
    cache # NoClient /\ ~stale /\ (\A r \in Runs : ~At(r, "invalidate"))
    => cache = row.address

\* A backup the console lists as good has its file, with what that backup
\* downloaded. The exceptions: two backups fell into one second and opened the
\* same file, or a pruning has removed the file and not yet deleted the row, be
\* it that the deletion is still ahead, that it failed, or that the process
\* died between the two calls. And once a backup has succeeded a good one
\* stays listed, whichever of two prunings runs first and however many rows
\* each keeps: only when as many failures as are kept fall between a success
\* and its pruning do they push it out, as failed rows count against the
\* retention.
BackupsAreKept ==
    /\ \A k \in DOMAIN backups :
          backups[k].status = "ok" /\ backups[k].name \notin shared \cup orphaned
          => files[backups[k].name] = backups[k].id
    /\ everGood /\ ~displaced => \E k \in DOMAIN backups : backups[k].status = "ok"

\* A call that changes an account changes it at most once, and reports
\* success only when it did. Repeating is for calls that read; a change is
\* sent again only when the panel refused it. One with a body has lost it by
\* then and is rejected, one without a body is carried out that time.
CallIsHonest ==
    \A r \in Runs : run[r].kind = "call" /\ run[r].method # "GET" =>
        /\ run[r].applied <= 1
        /\ At(r, "answered") /\ run[r].ok => run[r].applied = 1
===============================================================================
