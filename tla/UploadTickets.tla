---------------------------- MODULE UploadTickets ----------------------------
(***************************************************************************)
(* One WeChat upload ticket: a slot is reserved before the upload and kept *)
(* by the document, or given back when the upload fails.                   *)
(*                                                                         *)
(* Every handler has a database session of its own.  Its copy of the       *)
(* ticket is dropped by each commit and rollback and loaded again by the   *)
(* next access; SELECT ... FOR UPDATE takes the row's lock but does not    *)
(* reload a copy that is there.                                            *)
(***************************************************************************)
EXTENDS Naturals, FiniteSets

CONSTANTS
    Uploads,      \* POSTs of a file with this ticket
    MaxFiles,     \* max_files of the ticket
    RowLocks,     \* TRUE on PostgreSQL; on SQLite FOR UPDATE locks nothing
    MaxFaults,    \* bound: handlers that die or lose the database
    NoTicket

ASSUME UploadsFinite == IsFiniteSet(Uploads)
ASSUME LimitPositive == MaxFiles \in Nat \ {0}
ASSUME FaultsNat == MaxFaults \in Nat

Tickets == [count : Nat, status : {"active", "completed", "expired"},
            results : SUBSET Uploads]

ASSUME NoTicketAssumption == NoTicket \notin Tickets

VARIABLES
    ticket,     \* the committed row
    late,       \* expires_at has passed
    target,     \* the session the ticket is for: "open", "closed", "deleted"
    doc,        \* [Uploads -> the document this upload made]
    pc,
    copy,       \* the copy of the ticket a handler has loaded
    faults,
    stale       \* history: the kinds of write made from a copy older than the row

ticketVars == <<ticket, late, target, doc, pc, copy, faults, stale>>

TicketInit ==
    /\ ticket = [count |-> 0, status |-> "active", results |-> {}]
    /\ late = FALSE
    /\ target = "open"
    /\ doc = [u \in Uploads |-> "none"]
    /\ pc = [u \in Uploads |-> "idle"]
    /\ copy = [u \in Uploads |-> NoTicket]
    /\ faults = 0
    /\ stale = {}

-----------------------------------------------------------------------------
(* The row.                                                                *)

\* WxUploadTicketService.status_for
StatusFor(t) ==
    IF t.status # "active" THEN t.status
    ELSE IF late THEN "expired"
    ELSE IF t.count >= MaxFiles THEN "completed" ELSE "active"

\* A reservation in progress holds the row's lock.
TicketLocked(u) == RowLocks /\ \E v \in Uploads \ {u} : pc[v] = "reserving"

\* A column is written when it differs from the copy.
TicketColumn(loaded, new, committed) == IF new = loaded THEN committed ELSE new

Write(loaded, new, kind) ==
    /\ ticket' = [count |-> TicketColumn(loaded.count, new.count, ticket.count),
                  status |-> TicketColumn(loaded.status, new.status, ticket.status),
                  results |-> TicketColumn(loaded.results, new.results, ticket.results)]
    /\ stale' = IF loaded = ticket THEN stale ELSE stale \cup {kind}

Goto(u, where, c) ==
    /\ pc' = [pc EXCEPT ![u] = where]
    /\ copy' = [copy EXCEPT ![u] = c]

\* reserve_upload_slot: the next slot is taken.
Taken(t) ==
    [t EXCEPT !.count = @ + 1, !.status = IF t.count + 1 >= MaxFiles THEN "completed" ELSE @]

\* Mutant: the slot is not given back.
GivenBack_Never(t) == t

\* release_upload_slot: a full ticket is open again, unless it has expired.
GivenBack(t) ==
    LET count == IF t.count = 0 THEN 0 ELSE t.count - 1 IN
    [t EXCEPT !.count = count,
              !.status = IF @ = "completed" /\ count < MaxFiles /\ ~late THEN "active" ELSE @]

\* Mutant: the result of an upload replaces those before it.
Recorded_Last(t, u) == [t EXCEPT !.results = {u}]

\* finalize_reserved_upload
Recorded(t, u) ==
    LET results == t.results \cup {u}
        count == IF Cardinality(results) > t.count THEN Cardinality(results) ELSE t.count
    IN  [count |-> count, results |-> results,
         status |-> IF count >= MaxFiles THEN "completed" ELSE t.status]

-----------------------------------------------------------------------------
(* upload_file_with_ticket: the reservation.                               *)

\* The row is locked and loaded; a ticket that is used up, or whose session is
\* gone, is refused.
BeginReserve(u) ==
    /\ pc[u] = "idle"
    /\ ~TicketLocked(u)
    /\ IF StatusFor(ticket) = "active" /\ target # "deleted"
       THEN Goto(u, "reserving", ticket) /\ UNCHANGED ticket
       ELSE /\ Goto(u, "refused", NoTicket)
            /\ ticket' = IF StatusFor(ticket) = "expired"
                         THEN [ticket EXCEPT !.status = "expired"] ELSE ticket
    /\ UNCHANGED <<late, target, doc, faults, stale>>

CommitReserve(u) ==
    /\ pc[u] = "reserving"
    /\ Write(copy[u], Taken(copy[u]), "reserve")
    /\ Goto(u, "reloading", NoTicket)
    /\ UNCHANGED <<late, target, doc, faults>>

\* db.refresh(locked)
Reload(u) ==
    /\ pc[u] = "reloading"
    /\ Goto(u, "reserved", ticket)
    /\ UNCHANGED <<ticket, late, target, doc, faults, stale>>

\* The form names another session, or the interview is over: the slot is given
\* back from the copy that was just loaded.
RefuseForSession(u) ==
    /\ pc[u] = "reserved"
    /\ Goto(u, "releasing", copy[u])
    /\ UNCHANGED <<ticket, late, target, doc, faults, stale>>

\* file.read() raises, outside the try: nobody gives the slot back.
ReadFails(u) ==
    /\ pc[u] = "reserved"
    /\ faults < MaxFaults
    /\ faults' = faults + 1
    /\ Goto(u, "dead", NoTicket)
    /\ UNCHANGED <<ticket, late, target, doc, stale>>

\* The file has been read, the session is there.
StartUpload(u) ==
    /\ pc[u] = "reserved"
    /\ target = "open"
    /\ Goto(u, "uploading", copy[u])
    /\ UNCHANGED <<ticket, late, target, doc, faults, stale>>

-----------------------------------------------------------------------------
(* The upload and its outcome.                                             *)

\* SessionNotFoundError, FileTooLargeError, UnsupportedFileTypeError: no
\* transaction has ended since the copy was loaded.
RejectFile(u) ==
    /\ pc[u] \in {"reserved", "uploading"}
    /\ pc[u] = "reserved" => target = "deleted"
    /\ Goto(u, "releasing", copy[u])
    /\ UNCHANGED <<ticket, late, target, doc, faults, stale>>

\* FileService.upload fails later and rolls back, which drops the copy.
UploadFails(u) ==
    /\ pc[u] = "uploading"
    /\ Goto(u, "releasing", NoTicket)
    /\ UNCHANGED <<ticket, late, target, doc, faults, stale>>

CommitUpload(u) ==
    /\ pc[u] = "uploading"
    /\ doc' = [doc EXCEPT ![u] = "live"]
    /\ Goto(u, "uploaded", NoTicket)
    /\ UNCHANGED <<ticket, late, target, faults, stale>>

\* The answer cannot be built: the document is there, the upload has failed.
AnswerFails(u) ==
    /\ pc[u] = "uploaded"
    /\ Goto(u, "releasing", NoTicket)
    /\ UNCHANGED <<ticket, late, target, doc, faults, stale>>

\* record.ticket_hash reloads the row before it is locked ...
LoadForFinalize(u) ==
    /\ pc[u] = "uploaded"
    /\ Goto(u, "finalizing", ticket)
    /\ UNCHANGED <<ticket, late, target, doc, faults, stale>>

\* ... and the result is written from that copy.
Finalize(u) ==
    /\ pc[u] = "finalizing"
    /\ ~TicketLocked(u)
    /\ Write(copy[u], Recorded(copy[u], u), "finalize")
    /\ Goto(u, "accepted", NoTicket)
    /\ UNCHANGED <<late, target, doc, faults>>

LoadForRelease(u) ==
    /\ pc[u] = "releasing"
    /\ copy[u] = NoTicket
    /\ Goto(u, "releasing", ticket)
    /\ UNCHANGED <<ticket, late, target, doc, faults, stale>>

Release(u) ==
    /\ pc[u] = "releasing"
    /\ copy[u] # NoTicket
    /\ ~TicketLocked(u)
    /\ Write(copy[u], GivenBack(copy[u]), "release")
    /\ Goto(u, IF doc[u] = "live" THEN "tombstoning" ELSE "refused", NoTicket)
    /\ UNCHANGED <<late, target, doc, faults>>

\* _rollback_reserved_upload: the document goes after its slot.
Tombstone(u) ==
    /\ pc[u] = "tombstoning"
    /\ doc' = [doc EXCEPT ![u] = "tombstoned"]
    /\ Goto(u, "refused", NoTicket)
    /\ UNCHANGED <<ticket, late, target, faults, stale>>

\* The handler dies, or the database fails it (after which its session refuses
\* the clean-up too): whatever is committed stays.
Die(u) ==
    /\ pc[u] \in {"reloading", "reserved", "uploading", "uploaded", "finalizing",
                  "releasing", "tombstoning"}
    /\ faults < MaxFaults
    /\ faults' = faults + 1
    /\ Goto(u, IF pc[u] = "tombstoning" THEN "refused" ELSE "dead", NoTicket)
    /\ UNCHANGED <<ticket, late, target, doc, stale>>

-----------------------------------------------------------------------------
(* Time and the session.                                                   *)

Expire ==
    /\ ~late
    /\ late' = TRUE
    /\ UNCHANGED <<ticket, target, doc, pc, copy, faults, stale>>

\* The interview ends; or its owner deletes the session with its documents
\* (the ticket's row stays).
EndSession(how) ==
    /\ target = "open" \/ (target = "closed" /\ how = "deleted")
    /\ target' = how
    /\ doc' = [u \in Uploads |-> IF how = "deleted" /\ doc[u] = "live" THEN "deleted" ELSE doc[u]]
    /\ UNCHANGED <<ticket, late, pc, copy, faults, stale>>

UploadStep(u) ==
    \/ CommitReserve(u)
    \/ Reload(u)
    \/ RefuseForSession(u)
    \/ StartUpload(u)
    \/ RejectFile(u)
    \/ UploadFails(u)
    \/ CommitUpload(u)
    \/ AnswerFails(u)
    \/ LoadForFinalize(u)
    \/ Finalize(u)
    \/ LoadForRelease(u)
    \/ Release(u)
    \/ Tombstone(u)

TicketNext ==
    \/ \E u \in Uploads : BeginReserve(u) \/ UploadStep(u) \/ ReadFails(u) \/ Die(u)
    \/ Expire
    \/ \E how \in {"closed", "deleted"} : EndSession(how)

TicketSpec == TicketInit /\ [][TicketNext]_ticketVars

-----------------------------------------------------------------------------
(* Properties.                                                             *)

PCs == {"idle", "reserving", "reloading", "reserved", "uploading", "uploaded",
        "finalizing", "releasing", "tombstoning", "accepted", "refused", "dead"}

TicketTypeOK ==
    /\ ticket \in Tickets
    /\ late \in BOOLEAN
    /\ target \in {"open", "closed", "deleted"}
    /\ doc \in [Uploads -> {"none", "live", "tombstoned", "deleted"}]
    /\ pc \in [Uploads -> PCs]
    /\ copy \in [Uploads -> Tickets \cup {NoTicket}]
    /\ faults \in 0 .. MaxFaults
    /\ stale \subseteq {"reserve", "release", "finalize"}

\* Uploads whose slot is taken and not given back.
Holding == {u \in Uploads : pc[u] \in {"reloading", "reserved", "uploading", "uploaded",
                                       "finalizing", "releasing", "accepted", "dead"}}

CountedInOrder == stale \subseteq {"finalize"}

\* uploaded_count is the number of slots taken and not given back, whatever
\* fails in between, as long as no slot is counted from an old copy.
CountIsExact == CountedInOrder => ticket.count = Cardinality(Holding)

\* The ticket lists every upload it has accepted, unless two of them finalized
\* from the same copy.
ResultsComplete ==
    "finalize" \notin stale => ticket.results = {u \in Uploads : pc[u] = "accepted"}

=============================================================================
