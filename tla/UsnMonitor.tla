------------------------------ MODULE UsnMonitor ------------------------------
(***************************************************************************)
(* UsnJournalTracker (usn_tracker.cpp) as `securewipe monitor` runs it: it *)
(* polls the change journal of an NTFS volume from a cursor it keeps in    *)
(* memory and inserts each record into usn_events.  The file system        *)
(* appends to the journal, trims its oldest records and may re-create it;  *)
(* Ctrl-C arrives at any time; the store may refuse an insert, and the     *)
(* process may be killed and started again.                                *)
(*                                                                         *)
(* A record is its number in the journal.  Numbers go on across a          *)
(* re-creation, which is visible only in the journal's identifier.         *)
(***************************************************************************)
EXTENDS Integers, Sequences, SequencesExt

CONSTANTS
    BufRecords,     \* records that fit in the output buffer (kOutBuf)
    MaxUsn,         \* bound: records the file system appends
    MaxJournals,    \* bound: journals the volume sees
    MaxSessions,    \* bound: times the monitor is started
    Env             \* what may happen: "trim", "recreate", "locked", "kill"

ASSUME UsnConstants ==
    /\ BufRecords \in Nat \ {0} /\ MaxUsn \in Nat
    /\ MaxJournals \in Nat \ {0} /\ MaxSessions \in Nat \ {0}
    /\ Env \subseteq {"trim", "recreate", "locked", "kill"}

VARIABLES
    firstUsn, nextUsn, journalId,   \* the journal: the records it holds, its id
    cursor, id,                     \* next_usn_ and journal_id_ of the tracker
    batch,                          \* records polled and not yet inserted
    stop,                           \* g_stop
    phase,                          \* where RunLoop stands
    events,                         \* the rows of usn_events, oldest first
    since,                          \* the journal's end when this session began
    sessions

journal == <<firstUsn, nextUsn, journalId>>
tracker == <<cursor, id, since, sessions>>
vars    == <<journal, tracker, batch, stop, phase, events>>

Alive == phase \in {"loop", "insert"}

TypeOK ==
    /\ firstUsn \in 0..MaxUsn /\ nextUsn \in 0..MaxUsn
    /\ journalId \in 1..MaxJournals
    /\ cursor \in 0..MaxUsn /\ since \in 0..MaxUsn /\ id \in 1..MaxJournals
    /\ batch \in Seq(0..(MaxUsn - 1)) /\ events \in Seq(0..(MaxUsn - 1))
    /\ stop \in BOOLEAN
    /\ phase \in {"loop", "insert", "stopped", "thrown", "killed"}
    /\ sessions \in 1..MaxSessions

(* OpenVolume and QueryJournal of the first monitor, on a volume with a    *)
(* journal that already holds records.                                     *)
Init ==
    /\ firstUsn = 0 /\ nextUsn \in 0..MaxUsn /\ journalId = 1
    /\ cursor = nextUsn /\ id = 1 /\ since = nextUsn /\ sessions = 1
    /\ batch = <<>> /\ stop = FALSE /\ phase = "loop" /\ events = <<>>

(***************************************************************************)
(* The monitor                                                             *)
(***************************************************************************)

Records(from, upto) == [i \in 1..(upto - from) |-> from + i - 1]

(* FSCTL_READ_USN_JOURNAL from the cursor fails. *)
Unreadable == cursor < firstUsn \/ id # journalId

(* The cursor moves by a full buffer, however few records were returned. *)
PollRecordsFull ==
    /\ phase = "loop" /\ ~stop /\ ~Unreadable /\ cursor < nextUsn
    /\ \E upto \in (cursor + 1)..nextUsn :
          /\ upto - cursor <= BufRecords
          /\ batch' = Records(cursor, upto)
          /\ cursor' = cursor + BufRecords
    /\ phase' = "insert"
    /\ UNCHANGED <<journal, id, since, sessions, stop, events>>

(* The cursor stays on the last record that was returned. *)
PollRecordsRepeating ==
    /\ phase = "loop" /\ ~stop /\ ~Unreadable /\ cursor < nextUsn
    /\ \E upto \in (cursor + 1)..nextUsn :
          /\ upto - cursor <= BufRecords
          /\ batch' = Records(cursor, upto) /\ cursor' = upto - 1
    /\ phase' = "insert"
    /\ UNCHANGED <<journal, id, since, sessions, stop, events>>

(* One round of RunLoop that finds records: the cursor is past them before *)
(* the first is inserted.  A round that finds none, or whose read fails,   *)
(* sleeps and changes nothing.                                             *)
PollRecords ==
    /\ phase = "loop" /\ ~stop /\ ~Unreadable /\ cursor < nextUsn
    /\ \E upto \in (cursor + 1)..nextUsn :
          /\ upto - cursor <= BufRecords
          /\ batch' = Records(cursor, upto) /\ cursor' = upto
    /\ phase' = "insert"
    /\ UNCHANGED <<journal, id, since, sessions, stop, events>>

(* Ctrl-C breaks off the loop over the records. *)
InsertUsnEventUntilStop ==
    /\ phase = "insert"
    /\ events' = Append(events, Head(batch))
    /\ batch' = IF stop THEN <<>> ELSE Tail(batch)
    /\ phase' = IF batch' = <<>> THEN "loop" ELSE "insert"
    /\ UNCHANGED <<journal, tracker, stop>>

InsertUsnEvent ==
    /\ phase = "insert"
    /\ events' = Append(events, Head(batch)) /\ batch' = Tail(batch)
    /\ phase' = IF Len(batch) = 1 THEN "loop" ELSE "insert"
    /\ UNCHANGED <<journal, tracker, stop>>

(* A record that the store refuses is left out, and the loop goes on. *)
InsertSkips ==
    /\ phase = "insert" /\ "locked" \in Env
    /\ batch' = Tail(batch)
    /\ phase' = IF Len(batch) = 1 THEN "loop" ELSE "insert"
    /\ UNCHANGED <<journal, tracker, stop, events>>

(* SQLITE_BUSY, a full disk: the exception leaves RunLoop, and main ends.  *)
InsertThrows ==
    /\ phase = "insert" /\ "locked" \in Env
    /\ phase' = "thrown" /\ batch' = <<>>
    /\ UNCHANGED <<journal, tracker, stop, events>>

(* The flag is read only after a round without records. *)
LoopExitsWhenIdle ==
    /\ phase = "loop" /\ stop /\ cursor = nextUsn
    /\ phase' = "stopped"
    /\ UNCHANGED <<journal, tracker, batch, stop, events>>

(* while (!g_stop) *)
LoopExits ==
    /\ phase = "loop" /\ stop
    /\ phase' = "stopped"
    /\ UNCHANGED <<journal, tracker, batch, stop, events>>

Monitor == PollRecords \/ InsertUsnEvent \/ InsertThrows \/ LoopExits

(***************************************************************************)
(* Its surroundings                                                        *)
(***************************************************************************)

(* SIGINT or SIGTERM. *)
SigHandler ==
    /\ Alive /\ ~stop
    /\ stop' = TRUE
    /\ UNCHANGED <<journal, tracker, batch, phase, events>>

Kill ==
    /\ Alive /\ "kill" \in Env
    /\ phase' = "killed" /\ batch' = <<>>
    /\ UNCHANGED <<journal, tracker, stop, events>>

(* The constructor of the next run: the cursor goes to the journal's end.  *)
QueryJournal ==
    /\ ~Alive /\ sessions < MaxSessions
    /\ cursor' = nextUsn /\ id' = journalId /\ since' = nextUsn
    /\ sessions' = sessions + 1
    /\ stop' = FALSE /\ phase' = "loop"
    /\ UNCHANGED <<journal, batch, events>>

FileChanges ==
    /\ nextUsn < MaxUsn
    /\ nextUsn' = nextUsn + 1
    /\ UNCHANGED <<firstUsn, journalId, tracker, batch, stop, phase, events>>

JournalTrimmed ==
    /\ "trim" \in Env /\ firstUsn < nextUsn
    /\ firstUsn' = firstUsn + 1
    /\ UNCHANGED <<nextUsn, journalId, tracker, batch, stop, phase, events>>

JournalRecreated ==
    /\ "recreate" \in Env /\ journalId < MaxJournals
    /\ firstUsn' = nextUsn /\ journalId' = journalId + 1
    /\ UNCHANGED <<nextUsn, tracker, batch, stop, phase, events>>

Environment ==
    \/ SigHandler \/ Kill \/ QueryJournal
    \/ FileChanges \/ JournalTrimmed \/ JournalRecreated

Next == Monitor \/ Environment

Spec == Init /\ [][Next]_vars
FairSpec == Spec /\ WF_vars(Monitor)

(***************************************************************************)
(* Properties                                                              *)
(***************************************************************************)

(* The table is in journal order and holds no record twice, across polls,  *)
(* full buffers, kills and restarts (the cursor of PollRecords).           *)
EventsInOrder ==
    \A i, j \in 1..Len(events) : i < j => events[i] < events[j]

(* Within a session the monitor loses nothing it has moved its cursor      *)
(* past: such a record is in the table, or in the batch being inserted,    *)
(* and a Ctrl-C during the insertions waits for the end of the batch.      *)
ReadMeansLogged ==
    phase \in {"loop", "insert", "stopped"} =>
        \A usn \in since..(cursor - 1) : Contains(events, usn) \/ Contains(batch, usn)

(* Nothing enters the table that the file system has not journalled while  *)
(* some session ran, and rows are only ever added, one at a time.          *)
EventsOnlyAppended ==
    [][ events' # events =>
            /\ events' = Append(events, events'[Len(events')])
            /\ events'[Len(events')] \in since..(nextUsn - 1) ]_vars

(* Ctrl-C ends the monitor, whatever the journal and the store do          *)
(* (`while (!g_stop)`, read after every batch).                            *)
StopIsObeyed == stop ~> ~Alive

(* A monitor that keeps running logs every change made after its start,    *)
(* while the journal can be read from its cursor: full buffers and slow    *)
(* inserts delay a record but do not lose it (RunLoop, PollRecords).       *)
ReadableRecordsLogged ==
    \A usn \in 0..(MaxUsn - 1) :
        (Alive /\ since <= usn /\ usn < nextUsn) ~>
            (Contains(events, usn) \/ ~Alive \/ stop \/ Unreadable)

Log == INSTANCE ChangeLog WITH
    made    <- nextUsn,
    mark    <- IF phase = "insert" THEN Head(batch) ELSE cursor,
    log     <- events,
    running <- Alive

(* Polls, buffers, refused inserts, Ctrl-C, kills and restarts implement a *)
(* log without gaps: within a session the next row is always the change    *)
(* after the last one, and nothing is logged in two sessions.              *)
ImplementsChangeLog == Log!Spec

(* README.md:111, "Advances next_usn cursor so each PollRecords() only     *)
(* returns new entries"; usn_tracker.h:42, "returns new records": a        *)
(* monitor that keeps running gets to log every change made after its      *)
(* start, unless the journal itself drops the record.                      *)
NewRecordsLogged ==
    \A usn \in 0..(MaxUsn - 1) :
        (Alive /\ since <= usn /\ usn < nextUsn) ~>
            (Contains(events, usn) \/ ~Alive \/ stop \/ usn < firstUsn)

==============================================================================
