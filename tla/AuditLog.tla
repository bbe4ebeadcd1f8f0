------------------------------ MODULE AuditLog ------------------------------
(***************************************************************************)
(* The audit log of the permission engine (internal/permission/audit.go):  *)
(* LogAction hands a record to a bounded channel or drops it, a writer     *)
(* goroutine inserts what it receives, Sync waits until nothing is         *)
(* pending, Close closes the channel and waits for the writer.             *)
(*                                                                         *)
(* A wait group is the set of the records it counts, a record is its name. *)
(***************************************************************************)
EXTENDS Naturals, Sequences

CONSTANTS
    Records,    \* what is logged
    Capacity,   \* of insertCh, 64 in the code
    Syncers,    \* the goroutines that call Sync
    Closers     \* the goroutines that call Close

ASSUME CapacityAssumption == Capacity \in Nat \ {0}

VARIABLES
    insertCh,   \* the records in the channel
    chClosed,   \* the channel has been closed
    closed,     \* AuditLogger.closed
    writer,     \* where batchWriter is
    inHand,     \* what batchWriter has received: a record or nothing
    pendingWg,  \* the records counted in pendingWg
    table,      \* the rows of audit_logs
    logged,     \* what became of a record: see Fates
    syncs,      \* where each Sync is, and what had been accepted when it began
    closes,     \* where each Close is
    panicked    \* a send hit the closed channel

auditVars == <<insertCh, chClosed, closed, writer, inHand, pendingWg, table, logged,
               syncs, closes, panicked>>

Fates == {"no", "counted", "accepted", "dropped", "failed"}

WriterPlaces == {"start", "wait", "insert", "inserted", "gone", "broken"}

AuditInit ==
    /\ insertCh = <<>>
    /\ chClosed = FALSE
    /\ closed = FALSE
    /\ writer = "start"
    /\ inHand = {}
    /\ pendingWg = {}
    /\ table = {}
    /\ logged = [r \in Records |-> "no"]
    /\ syncs = [s \in Syncers |-> [at |-> "idle", owes |-> {}]]
    /\ closes = [c \in Closers |-> "idle"]
    /\ panicked = FALSE

-----------------------------------------------------------------------------
(* LogAction.  The count is raised before the select; a select with room   *)
(* sends, one without drops, and one on a closed channel panics.           *)

Count(r) ==
    /\ logged[r] = "no"
    /\ logged' = [logged EXCEPT ![r] = "counted"]
    /\ pendingWg' = pendingWg \union {r}
    /\ UNCHANGED <<insertCh, chClosed, closed, writer, inHand, table, syncs, closes, panicked>>

Hand(r) ==
    /\ logged[r] = "counted"
    /\ ~chClosed
    /\ Len(insertCh) < Capacity
    /\ logged' = [logged EXCEPT ![r] = "accepted"]
    /\ insertCh' = Append(insertCh, r)
    /\ UNCHANGED <<chClosed, closed, writer, inHand, pendingWg, table, syncs, closes, panicked>>

(* The variant: a record that is dropped stays counted.                     *)
StillCounted(r) == UNCHANGED pendingWg

Uncounted(r) == pendingWg' = pendingWg \ {r}

DropRecord(r) ==
    /\ logged[r] = "counted"
    /\ ~chClosed
    /\ Len(insertCh) = Capacity
    /\ logged' = [logged EXCEPT ![r] = "dropped"]
    /\ Uncounted(r)
    /\ UNCHANGED <<insertCh, chClosed, closed, writer, inHand, table, syncs, closes, panicked>>

SendOnClosed(r) ==
    /\ logged[r] = "counted"
    /\ chClosed
    /\ panicked' = TRUE
    /\ UNCHANGED <<insertCh, chClosed, closed, writer, inHand, pendingWg, table, logged, syncs, closes>>

-----------------------------------------------------------------------------
(* batchWriter.                                                            *)

PrepareFails ==
    /\ writer = "start"
    /\ writer' = "broken"
    /\ UNCHANGED <<insertCh, chClosed, closed, inHand, pendingWg, table, logged, syncs, closes, panicked>>

Prepared ==
    /\ writer = "start"
    /\ writer' = "wait"
    /\ UNCHANGED <<insertCh, chClosed, closed, inHand, pendingWg, table, logged, syncs, closes, panicked>>

(* The variant: the count goes down when the record is received.            *)
ReceiveAndDone ==
    /\ writer = "wait"
    /\ insertCh # <<>>
    /\ writer' = "insert"
    /\ inHand' = {Head(insertCh)}
    /\ pendingWg' = pendingWg \ inHand'
    /\ insertCh' = Tail(insertCh)
    /\ UNCHANGED <<chClosed, closed, table, logged, syncs, closes, panicked>>

Receive ==
    /\ writer = "wait"
    /\ insertCh # <<>>
    /\ writer' = "insert"
    /\ inHand' = {Head(insertCh)}
    /\ insertCh' = Tail(insertCh)
    /\ UNCHANGED <<chClosed, closed, pendingWg, table, logged, syncs, closes, panicked>>

(* The insert, which may fail: that is logged, and the record is lost.      *)
Insert ==
    /\ writer = "insert"
    /\ writer' = "inserted"
    /\ \/ table' = table \union inHand /\ UNCHANGED logged
       \/ logged' = [r \in Records |-> IF r \in inHand THEN "failed" ELSE logged[r]] /\ UNCHANGED table
    /\ UNCHANGED <<insertCh, chClosed, closed, inHand, pendingWg, syncs, closes, panicked>>

Done ==
    /\ writer = "inserted"
    /\ writer' = "wait"
    /\ inHand' = {}
    /\ pendingWg' = pendingWg \ inHand
    /\ UNCHANGED <<insertCh, chClosed, closed, table, logged, syncs, closes, panicked>>

RangeEnds ==
    /\ writer = "wait"
    /\ insertCh = <<>>
    /\ chClosed
    /\ writer' = "gone"
    /\ UNCHANGED <<insertCh, chClosed, closed, inHand, pendingWg, table, logged, syncs, closes, panicked>>

-----------------------------------------------------------------------------
(* Sync.                                                                   *)

Accepted == {r \in Records : logged[r] \in {"accepted", "failed"}}

SyncBegins(s) ==
    /\ syncs[s].at = "idle"
    /\ syncs' = [syncs EXCEPT ![s] = [at |-> "waiting", owes |-> Accepted]]
    /\ UNCHANGED <<insertCh, chClosed, closed, writer, inHand, pendingWg, table, logged, closes, panicked>>

SyncReturns(s) ==
    /\ syncs[s].at = "waiting"
    /\ pendingWg = {}
    /\ syncs' = [syncs EXCEPT ![s].at = "returned"]
    /\ UNCHANGED <<insertCh, chClosed, closed, writer, inHand, pendingWg, table, logged, closes, panicked>>

-----------------------------------------------------------------------------
(* Close: only the first closes the channel and waits.                     *)

CloseAgain(c) ==
    /\ closes[c] = "idle"
    /\ closed
    /\ closes' = [closes EXCEPT ![c] = "again"]
    /\ UNCHANGED <<insertCh, chClosed, closed, writer, inHand, pendingWg, table, logged, syncs, panicked>>

CloseBegins(c) ==
    /\ closes[c] = "idle"
    /\ ~closed
    /\ closed' = TRUE
    /\ closes' = [closes EXCEPT ![c] = "closing"]
    /\ UNCHANGED <<insertCh, chClosed, writer, inHand, pendingWg, table, logged, syncs, panicked>>

CloseChannel(c) ==
    /\ closes[c] = "closing"
    /\ chClosed' = TRUE
    /\ closes' = [closes EXCEPT ![c] = "waiting"]
    /\ UNCHANGED <<insertCh, closed, writer, inHand, pendingWg, table, logged, syncs, panicked>>

(* The variant: Close closes the channel and does not wait.                 *)
NotAwaited == TRUE

WriterStopped == writer \in {"gone", "broken"}

CloseReturns(c) ==
    /\ closes[c] = "waiting"
    /\ WriterStopped
    /\ closes' = [closes EXCEPT ![c] = "returned"]
    /\ UNCHANGED <<insertCh, chClosed, closed, writer, inHand, pendingWg, table, logged, syncs, panicked>>

Running ==
    \/ \E r \in Records : Hand(r) \/ DropRecord(r) \/ SendOnClosed(r)
    \/ Prepared \/ Receive \/ Insert \/ Done \/ RangeEnds
    \/ \E s \in Syncers : SyncReturns(s)
    \/ \E c \in Closers : CloseChannel(c) \/ CloseReturns(c)

(* A panic ends the process.                                               *)
AuditNext ==
    /\ ~panicked
    /\ \/ Running
       \/ PrepareFails
       \/ \E r \in Records : Count(r)
       \/ \E s \in Syncers : SyncBegins(s)
       \/ \E c \in Closers : CloseAgain(c) \/ CloseBegins(c)

AuditSpec == AuditInit /\ [][AuditNext]_auditVars /\ WF_auditVars(~panicked /\ Running)

-----------------------------------------------------------------------------
AuditTypeOK ==
    /\ insertCh \in Seq(Records)
    /\ Len(insertCh) <= Capacity
    /\ chClosed \in BOOLEAN
    /\ closed \in BOOLEAN
    /\ writer \in WriterPlaces
    /\ inHand \subseteq Records
    /\ pendingWg \subseteq Records
    /\ table \subseteq Records
    /\ logged \in [Records -> Fates]
    /\ syncs \in [Syncers -> [at : {"idle", "waiting", "returned"}, owes : SUBSET Records]]
    /\ closes \in [Closers -> {"idle", "closing", "waiting", "returned", "again"}]
    /\ panicked \in BOOLEAN

Settled(r) == r \in table \/ logged[r] = "failed"

(* A Sync that has returned has waited for every record whose LogAction had *)
(* accepted it before the Sync began: it is in the table, or its insert     *)
(* failed (audit.go:118, "Sync waits for all pending writes to complete").  *)
SyncStored ==
    \A s \in Syncers : syncs[s].at = "returned" => \A r \in syncs[s].owes : Settled(r)

(* The Close that closes the channel returns when every record that was     *)
(* accepted is in the table or its insert failed, unless the writer never   *)
(* got its statement.                                                       *)
CloseStored ==
    \A c \in Closers :
        closes[c] = "returned" /\ writer # "broken" => \A r \in Accepted : Settled(r)

(* A Sync ends, unless the writer is broken or the process has panicked.    *)
SyncEnds ==
    \A s \in Syncers :
        syncs[s].at = "waiting" ~> syncs[s].at = "returned" \/ writer = "broken" \/ panicked

(* Not so: a record that comes while the log is being closed is dropped.    *)
(* LogAction does not look at closed, and its send panics.                  *)
NeverPanics == ~panicked
=============================================================================
