------------------------------ MODULE JsonlLog ------------------------------
(***************************************************************************)
(* One session's file in the JSONL backend, through crashes: how           *)
(* packages/session/session-persistence-jsonl/src/index.ts publishes,      *)
(* appends to, rolls back, reads and repairs it, driven by the             *)
(* coordinator's cursor (packages/session/session-persistence/src/         *)
(* coordinator.ts).  The coordinator serializes a session's operations, so *)
(* one is in progress at a time; between its steps the process may die or  *)
(* the machine lose power.                                                 *)
(*                                                                         *)
(* The disk: unsynced changes of a file persist in order, so a power loss  *)
(* leaves the last synced content or that of a later moment, the last      *)
(* write possibly cut short.  A failed sync leaves this open.              *)
(*                                                                         *)
(* A definition under a "Fault:" line is a plausible bug that a property   *)
(* catches when it replaces the definition below it; no action uses it.    *)
(***************************************************************************)
EXTENDS Naturals, Sequences, SequencesExt

CONSTANTS MaxEvents,       \* bound: events in the session
          MaxFaults,       \* bound: failed writes, truncations and syncs
          MaxCloseFaults,  \* bound: failed closes of the append handle
          MaxCrashes       \* bound: dead processes and power losses

ASSUME BoundsAssumption ==
  /\ MaxEvents \in Nat
  /\ MaxFaults \in Nat
  /\ MaxCloseFaults \in Nat
  /\ MaxCrashes \in Nat

VARIABLES
  compression,   \* "zstd" or "none"
  file,          \* the file as the system calls see it
  durable,       \* what a power loss may leave of it
  life,          \* "cold": no session in memory; "live": one is attached
  log,           \* the live session's events
  cursor,        \* the events the coordinator holds to be stored
  materialized,  \* and whether it holds the file to exist
  step,          \* of the operation in progress, or "idle"
  purpose,       \* "append" or "repair"
  batch,         \* the events it writes
  before,        \* the file before they were written
  promised,      \* history: the file when an operation last succeeded
  faults, closeFaults, crashes

memory == <<life, log, cursor, materialized>>
op     == <<step, purpose, batch, before>>
disk   == <<file, durable>>
bounds == <<faults, closeFaults, crashes>>
vars   == <<compression, disk, memory, op, promised, bounds>>

-----------------------------------------------------------------------------
(* Events and turns.  A session numbers its events from 0.                 *)

(* Of the messages only those that ask for a call matter here.             *)
Kind == {"turn/start", "step/start", "assistant/message", "tool/call", "tool/result",
         "step/end", "turn/end"}

LastKind(s) == IF s = <<>> THEN "turn/end" ELSE Last(s).kind

(* What may follow; a message asks for one call here, and no append of a   *)
(* live step fails.  A result without a tool/call says that the call never *)
(* started.                                                                *)
Follows(s) ==
  CASE LastKind(s) = "turn/end"                  -> {"turn/start"}
    [] LastKind(s) \in {"turn/start", "step/end"} -> {"step/start", "turn/end"}
    [] LastKind(s) = "step/start"                -> {"assistant/message", "step/end"}
    [] LastKind(s) = "assistant/message"         -> {"tool/call", "tool/result"}
    [] LastKind(s) = "tool/call"                 -> {"tool/result"}
    [] LastKind(s) = "tool/result"               -> {"step/end"}

Event(s, kind) == [seq |-> Len(s), kind |-> kind]

(* The events of the given kinds, numbered on from s.                      *)
Numbered(s, kinds) == [k \in DOMAIN kinds |-> [seq |-> Len(s) + k - 1, kind |-> kinds[k]]]

\* Fault: an interrupted step is left open.
TurnEndOnly(s) == Numbered(s, IF LastKind(s) = "turn/end" THEN <<>> ELSE <<"turn/end">>)

(* The events that end an interrupted turn.  The call a message asked for  *)
(* is answered, whether it had started or not.                             *)
Closers(s) ==
  Numbered(s, CASE LastKind(s) = "turn/end"                     -> <<>>
                [] LastKind(s) \in {"turn/start", "step/end"}    -> <<"turn/end">>
                [] LastKind(s) \in {"step/start", "tool/result"} -> <<"step/end", "turn/end">>
                [] LastKind(s) \in {"assistant/message", "tool/call"} ->
                     <<"tool/result", "step/end", "turn/end">>)

-----------------------------------------------------------------------------
(* The file: its complete records, then perhaps a torn end, of which a     *)
(* Zstandard frame yields the records in tail.                             *)

Absent == [exists |-> FALSE, lines |-> <<>>, tail |-> <<>>, torn |-> FALSE]

Content(lines, tail, torn) == [exists |-> TRUE, lines |-> lines, tail |-> tail, torn |-> torn]

Whole(lines) == Content(lines, <<>>, FALSE)

(* A write of b onto f that was cut short.                                 *)
Cut(f, b) ==
  IF compression = "zstd"
    THEN {Content(f.lines, SubSeq(b, 1, k), TRUE) : k \in 0 .. Len(b)}
    ELSE {Content(f.lines \o SubSeq(b, 1, k), <<>>, t) : k \in 0 .. Len(b) - 1, t \in BOOLEAN}

(* The records that continue one another from 0.                           *)
Contiguous(s) == \A i \in 1 .. Len(s) : s[i].seq = i - 1

Valid(s) == CHOOSE p \in {SubSeq(s, 1, k) : k \in 0 .. Len(s)} :
              /\ Contiguous(p)
              /\ Len(p) < Len(s) => s[Len(p) + 1].seq # Len(p)

Stored(f) == Valid(f.lines \o f.tail)

(* A gap is refused in a complete frame, and where a turn ends after it.   *)
Refused(f) ==
  LET all == f.lines \o f.tail
  IN  \/ compression = "zstd" /\ ~Contiguous(f.lines)
      \/ \E i \in Len(Stored(f)) + 1 .. Len(all) : all[i].kind = "turn/end"

Torn(f) == f.torn \/ ~Contiguous(f.lines)

\* Fault: a torn end is left unless it held complete records.
TruncatedIfRecovered(f) == IF f.tail = <<>> THEN f ELSE Whole(f.lines)

Truncated(f) == Whole(Valid(f.lines))

(* The records a repair writes again once it has cut the torn end off.     *)
Recovered(f) == SubSeq(Stored(f), Len(Valid(f.lines)) + 1, Len(Stored(f)))

-----------------------------------------------------------------------------
Init ==
  /\ compression \in {"zstd", "none"}
  /\ file = Absent /\ durable = {Absent}
  /\ life = "cold" /\ log = <<>> /\ cursor = 0 /\ materialized = FALSE
  /\ step = "idle" /\ purpose = "append" /\ batch = <<>> /\ before = Absent
  /\ promised = Absent
  /\ faults = 0 /\ closeFaults = 0 /\ crashes = 0

Fault ==
  /\ faults < MaxFaults
  /\ faults' = faults + 1
  /\ UNCHANGED <<closeFaults, crashes>>

CloseFault ==
  /\ closeFaults < MaxCloseFaults
  /\ closeFaults' = closeFaults + 1
  /\ UNCHANGED <<faults, crashes>>

(* The file changes, and the change is not yet durable.                    *)
Change(f) == file' = f /\ durable' = durable \cup {f}

\* Fault: a sync is started and not awaited.
SyncStarted == UNCHANGED disk

Synced == durable' = {file} /\ UNCHANGED file

Continue(next) == step' = next /\ UNCHANGED <<purpose, batch, before>>

Finished == step' = "idle" /\ batch' = <<>> /\ before' = Absent /\ UNCHANGED purpose

(* A rejected operation leaves the coordinator as it was.                  *)
Rejected == Finished /\ UNCHANGED <<memory, promised>>

(* The durable write is the transaction.                                   *)
Succeeded ==
  /\ Finished
  /\ promised' = file
  /\ IF purpose = "append"
       THEN cursor' = cursor + Len(batch) /\ materialized' = TRUE /\ UNCHANGED <<life, log>>
       ELSE UNCHANGED memory

-----------------------------------------------------------------------------
(* The session.                                                            *)

(* No file under the id: a new session, its file made by the first append. *)
Create ==
  /\ life = "cold" /\ step = "idle" /\ ~file.exists
  /\ life' = "live" /\ log' = <<>> /\ cursor' = 0 /\ materialized' = FALSE
  /\ UNCHANGED <<compression, disk, op, promised, bounds>>

Emit ==
  /\ life = "live" /\ Len(log) < MaxEvents
  /\ \E kind \in Follows(log) : log' = Append(log, Event(log, kind))
  /\ UNCHANGED <<compression, disk, life, cursor, materialized, op, promised, bounds>>

(* A retry is the same write again: the cursor has not moved.  A session   *)
(* is not followed further onto a file whose rollback was given up.        *)
StartAppend ==
  /\ life = "live" /\ step = "idle" /\ cursor < Len(log)
  /\ ~Torn(file)
  /\ step' = IF materialized THEN "write" ELSE "publish"
  /\ purpose' = "append"
  /\ batch' = SubSeq(log, cursor + 1, Len(log))
  /\ UNCHANGED <<compression, disk, memory, before, promised, bounds>>

(* An empty session is made durable on request.                            *)
EnsureMaterialized ==
  /\ life = "live" /\ step = "idle" /\ log = <<>> /\ ~materialized
  /\ step' = "publish" /\ purpose' = "append" /\ batch' = <<>>
  /\ UNCHANGED <<compression, disk, memory, before, promised, bounds>>

(* The session is disposed once everything is stored.                      *)
Retire ==
  /\ life = "live" /\ step = "idle" /\ cursor = Len(log)
  /\ life' = "cold" /\ log' = <<>> /\ cursor' = 0 /\ materialized' = FALSE
  /\ UNCHANGED <<compression, disk, op, promised, bounds>>

(* The backend is reloaded under a live session, whose log must begin with *)
(* what is stored.                                                         *)
Adoptable == ~Refused(file) /\ IsPrefix(Stored(file), log)

AdoptLivePrefix ==
  /\ life = "live" /\ step = "idle"
  /\ ~Torn(file) /\ Adoptable
  /\ cursor' = Len(Stored(file))
  /\ materialized' = file.exists
  /\ UNCHANGED <<compression, disk, life, log, op, promised, bounds>>

-----------------------------------------------------------------------------
(* The first write: a synced temporary file, linked under the final name,  *)
(* whose directory entry is then synced.                                   *)

Publish ==
  /\ step = "publish"
  /\ \/ /\ ~file.exists
        /\ Change(Whole(batch))
        /\ Continue("syncDir")
        /\ UNCHANGED <<memory, promised, bounds>>
     \/ Rejected /\ UNCHANGED <<disk, bounds>> /\ file.exists
     \/ Rejected /\ UNCHANGED disk /\ Fault
  /\ UNCHANGED compression

SyncDir ==
  /\ step = "syncDir"
  /\ \/ Synced /\ Succeeded /\ UNCHANGED bounds
     \/ Rejected /\ UNCHANGED disk /\ Fault
  /\ UNCHANGED compression

-----------------------------------------------------------------------------
(* A later write.                                                          *)

Write ==
  /\ step = "write"
  /\ before' = file
  /\ \/ file' = Whole(file.lines \o batch) /\ step' = "sync" /\ UNCHANGED bounds
     \/ file' \in Cut(file, batch) \cup {file} /\ step' = "rollback" /\ Fault
  /\ durable' = durable \cup Cut(file, batch) \cup {file'}
  /\ UNCHANGED <<compression, memory, purpose, batch, promised>>

Sync ==
  /\ step = "sync"
  /\ \/ Synced /\ Continue("close") /\ UNCHANGED bounds
     \/ UNCHANGED disk /\ Continue("rollback") /\ Fault
  /\ UNCHANGED <<compression, memory, promised>>

CloseHandle ==
  /\ step = "close"
  /\ \/ Succeeded /\ UNCHANGED bounds
     \/ Rejected /\ CloseFault
  /\ UNCHANGED <<compression, disk>>

\* Fault: a failed append leaves its bytes behind.
KeepBytes == Change(file)

(* Cut the file back to its length before the append.                      *)
CutBack == Change(before)

Rollback ==
  /\ step = "rollback"
  /\ \/ CutBack /\ Continue("syncBack") /\ UNCHANGED <<memory, promised, bounds>>
     \/ Rejected /\ UNCHANGED disk /\ CloseFault
  /\ UNCHANGED compression

SyncBack ==
  /\ step = "syncBack"
  /\ Rejected
  /\ \/ Synced /\ UNCHANGED bounds
     \/ UNCHANGED disk /\ Fault
  /\ UNCHANGED compression

-----------------------------------------------------------------------------
(* Opening a stored session: repair the file until a read finds nothing to *)
(* repair, then attach a session to it.                                    *)

Repair ==
  /\ life = "cold" /\ step = "idle" /\ file.exists /\ ~Refused(file)
  /\ Torn(file) \/ Closers(Stored(file)) # <<>>
  /\ step' = IF Torn(file) THEN "truncate" ELSE "write"
  /\ purpose' = "repair"
  /\ batch' = Recovered(file) \o Closers(Stored(file))
  /\ UNCHANGED <<compression, disk, memory, before, promised, bounds>>

Truncate ==
  /\ step = "truncate"
  /\ \/ Change(Truncated(file)) /\ Continue("syncTail")
        /\ UNCHANGED <<memory, promised, bounds>>
     \/ Rejected /\ UNCHANGED disk /\ Fault
  /\ UNCHANGED compression

SyncTail ==
  /\ step = "syncTail"
  /\ \/ /\ Synced
        /\ IF batch = <<>> THEN Succeeded ELSE Continue("write") /\ UNCHANGED <<memory, promised>>
        /\ UNCHANGED bounds
     \/ Rejected /\ UNCHANGED disk /\ Fault
  /\ UNCHANGED compression

Attach ==
  /\ life = "cold" /\ step = "idle" /\ file.exists /\ ~Refused(file)
  /\ ~Torn(file) /\ Closers(Stored(file)) = <<>>
  /\ life' = "live" /\ log' = Stored(file) /\ cursor' = Len(log') /\ materialized' = TRUE
  /\ UNCHANGED <<compression, disk, op, promised, bounds>>

-----------------------------------------------------------------------------
(* Crashes.                                                                *)

Down ==
  /\ crashes < MaxCrashes
  /\ crashes' = crashes + 1
  /\ life' = "cold" /\ log' = <<>> /\ cursor' = 0 /\ materialized' = FALSE
  /\ step' = "idle" /\ batch' = <<>> /\ before' = Absent
  /\ UNCHANGED <<compression, purpose, promised, faults, closeFaults>>

(* The process dies; the system keeps the file as written so far.          *)
ProcessCrash ==
  /\ Down
  /\ LET cut == IF step = "write" THEN Cut(file, batch) ELSE {}
     IN  /\ file' \in {file} \cup cut
         /\ durable' = durable \cup cut

PowerLoss ==
  /\ Down
  /\ file' \in durable
  /\ durable' = {file'}

Next ==
  \/ Create \/ Emit \/ StartAppend \/ EnsureMaterialized \/ Retire \/ AdoptLivePrefix
  \/ Publish \/ SyncDir \/ Write \/ Sync \/ CloseHandle \/ Rollback \/ SyncBack
  \/ Repair \/ Truncate \/ SyncTail \/ Attach
  \/ ProcessCrash \/ PowerLoss

Spec == Init /\ [][Next]_vars

(* Storage operations complete, and a load goes on until it succeeds.      *)
Progress ==
  \/ Publish \/ SyncDir \/ Write \/ Sync \/ CloseHandle \/ Rollback \/ SyncBack
  \/ Repair \/ Truncate \/ SyncTail \/ Attach

LiveSpec == Spec /\ WF_vars(Progress)

-----------------------------------------------------------------------------
FileType(f) ==
  /\ f.exists \in BOOLEAN /\ f.torn \in BOOLEAN
  /\ f.lines \in Seq([seq : Nat, kind : Kind])
  /\ f.tail \in Seq([seq : Nat, kind : Kind])

(* Every variable has its type.                                            *)
TypeOK ==
  /\ compression \in {"zstd", "none"}
  /\ FileType(file) /\ FileType(before) /\ FileType(promised)
  /\ file \in durable /\ \A d \in durable : FileType(d)
  /\ life \in {"cold", "live"} /\ materialized \in BOOLEAN
  /\ log \in Seq([seq : Nat, kind : Kind]) /\ cursor \in 0 .. Len(log)
  /\ step \in {"idle", "publish", "syncDir", "write", "sync", "close",
               "rollback", "syncBack", "truncate", "syncTail"}
  /\ purpose \in {"append", "repair"}
  /\ batch \in Seq([seq : Nat, kind : Kind])

(* Whatever a power loss may leave is readable and begins with every       *)
(* record of the last operation that succeeded: an acknowledged batch is   *)
(* never lost, neither to the crash nor to the repair after it             *)
(* (appendLines, materialize, commitRepair).                               *)
AcknowledgedSurvives ==
  promised.exists =>
    \A d \in durable : d.exists /\ ~Refused(d) /\ IsPrefix(promised.lines, Stored(d))

(* Between operations the file of a live session holds exactly the events  *)
(* below the cursor, so that a retry lands behind them; and a reloaded     *)
(* backend finds a file that this session continues (appendCore,           *)
(* rollbackAppend, seedCoversPrefix).                                      *)
CursorAgrees ==
  life = "live" /\ step = "idle" =>
    /\ Adoptable
    /\ materialized => ~Torn(file) /\ file.lines = SubSeq(log, 1, cursor)

(* A session's history is well nested whatever crashes it went through, a  *)
(* crash inside the repair of an earlier one included                      *)
(* (interruptedTurnClosers, commitRepair).                                 *)
HistoryIsNested ==
  \A i \in 1 .. Len(log) : log[i].kind \in Follows(SubSeq(log, 1, i - 1))

(* A stored session that nobody holds is opened in the end: the repair     *)
(* loop reaches a file that needs no repair (prepare, commitPrepared).     *)
RecoveryConverges == (life = "cold" /\ file.exists) ~> (life = "live" \/ ~file.exists)
=============================================================================
