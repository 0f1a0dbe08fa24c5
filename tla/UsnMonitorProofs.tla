--------------------------- MODULE UsnMonitorProofs ---------------------------
(***************************************************************************)
(* Proofs about the journal monitor: its table is in journal order without *)
(* duplicates, and what a session has read is in the table or on its way.  *)
(***************************************************************************)
EXTENDS UsnMonitor, TLAPS

(* The next record to insert. *)
Due == cursor - Len(batch)

(* The inductive invariant: the batch is the stretch of the journal that   *)
(* ends at the cursor, and the table holds only older records, among them  *)
(* all that the session has inserted.                                      *)
CursorInv ==
    /\ since <= Due /\ cursor <= nextUsn
    /\ phase = "insert" <=> batch # <<>>

BatchInv == \A i \in 1..Len(batch) : batch[i] = Due + i - 1

TableInv ==
    /\ EventsInOrder
    /\ \A i \in 1..Len(events) : events[i] < Due

LoggedInv ==
    phase \in {"loop", "insert", "stopped"} =>
        \A usn \in since..(Due - 1) : Contains(events, usn)

IInv == TypeOK /\ CursorInv /\ BatchInv /\ TableInv /\ LoggedInv

(* The first session starts at the journal's end, with an empty table. *)
LEMMA InitIInv ==
    ASSUME Init
    PROVE  IInv
<1>1. /\ batch = <<>> /\ Len(batch) = 0 /\ events = <<>> /\ Len(events) = 0
      /\ cursor = nextUsn /\ since = nextUsn /\ nextUsn \in Nat
    BY UsnConstants DEF Init
<1>2. TypeOK
    <2>1. batch \in Seq(0..(MaxUsn - 1)) /\ events \in Seq(0..(MaxUsn - 1))
        BY <1>1
    <2>2. /\ firstUsn \in 0..MaxUsn /\ nextUsn \in 0..MaxUsn /\ cursor \in 0..MaxUsn
          /\ since \in 0..MaxUsn /\ sessions \in 1..MaxSessions
          /\ journalId \in 1..MaxJournals /\ id \in 1..MaxJournals
        BY UsnConstants DEF Init
    <2> QED  BY <2>1, <2>2 DEF Init, TypeOK
<1>3. CursorInv /\ BatchInv /\ TableInv /\ LoggedInv
    BY <1>1 DEF Init, CursorInv, BatchInv, TableInv, LoggedInv, EventsInOrder, Due
<1> QED  BY <1>2, <1>3 DEF IInv

(* A poll moves the cursor and puts what it passed into the batch. *)
LEMMA PollKeepsIInv ==
    ASSUME IInv, PollRecords
    PROVE  IInv'
<1>1. PICK upto \in (cursor + 1)..nextUsn :
          /\ upto - cursor <= BufRecords
          /\ batch' = Records(cursor, upto) /\ cursor' = upto
    BY DEF PollRecords
<1>2. upto \in Nat /\ cursor \in Nat /\ upto - cursor \in Nat \ {0} /\ upto <= MaxUsn
    BY <1>1, UsnConstants DEF IInv, TypeOK
<1>3. /\ batch' \in Seq(0..(MaxUsn - 1)) /\ Len(batch') = upto - cursor
      /\ \A i \in 1..(upto - cursor) : batch'[i] = cursor + i - 1
    BY <1>1, <1>2, UsnConstants DEF Records
<1>4. batch = <<>> /\ Len(batch) = 0 /\ Due = cursor /\ Due' = cursor
    BY <1>1, <1>2, <1>3 DEF PollRecords, IInv, TypeOK, CursorInv, Due
<1>5. TypeOK'
    BY <1>1, <1>2, <1>3, UsnConstants DEF PollRecords, IInv, TypeOK, journal
<1>6. CursorInv'
    BY <1>1, <1>2, <1>3, <1>4 DEF PollRecords, IInv, CursorInv, journal
<1>7. BatchInv'
    BY <1>3, <1>4 DEF BatchInv
<1>8. TableInv'
    BY <1>4 DEF PollRecords, IInv, TableInv, EventsInOrder
<1>9. LoggedInv'
    BY <1>4 DEF PollRecords, IInv, LoggedInv, Contains
<1> QED  BY <1>5, <1>6, <1>7, <1>8, <1>9 DEF IInv

(* An insertion moves the oldest record of the batch to the table's end. *)
LEMMA InsertKeepsIInv ==
    ASSUME IInv, InsertUsnEvent
    PROVE  IInv'
<1>1. batch \in Seq(0..(MaxUsn - 1)) /\ events \in Seq(0..(MaxUsn - 1)) /\ batch # <<>>
    BY DEF InsertUsnEvent, IInv, TypeOK, CursorInv
<1>2. /\ Len(batch) \in Nat \ {0} /\ Len(batch') = Len(batch) - 1
      /\ batch' \in Seq(0..(MaxUsn - 1))
      /\ \A i \in 1..Len(batch') : batch'[i] = batch[i + 1]
    BY <1>1 DEF InsertUsnEvent
<1>3. cursor \in Nat /\ cursor' = cursor /\ since \in Nat /\ since' = since
    BY UsnConstants DEF InsertUsnEvent, tracker, IInv, TypeOK
<1>4. Due \in Int /\ Due' = Due + 1
    BY <1>2, <1>3 DEF Due
<1>5. Head(batch) = Due /\ Head(batch) \in 0..(MaxUsn - 1)
    <2>1. 1 \in 1..Len(batch) /\ Head(batch) = batch[1]
        BY <1>1, <1>2
    <2>2. batch[1] \in 0..(MaxUsn - 1)
        BY <1>1, <2>1, UsnConstants
    <2>3. batch[1] = Due + 1 - 1
        BY <2>1 DEF IInv, BatchInv
    <2> QED  BY <1>4, <2>1, <2>2, <2>3
<1>6. /\ events' \in Seq(0..(MaxUsn - 1)) /\ Len(events') = Len(events) + 1
      /\ events'[Len(events) + 1] = Due
      /\ \A i \in 1..Len(events) : events'[i] = events[i]
    BY <1>1, <1>5 DEF InsertUsnEvent
<1>7. phase' = "insert" <=> batch' # <<>>
    BY <1>1, <1>2 DEF InsertUsnEvent
<1>8. TypeOK'
    BY <1>2, <1>6 DEF InsertUsnEvent, IInv, TypeOK, journal, tracker
<1>9. CursorInv'
    BY <1>3, <1>4, <1>7 DEF InsertUsnEvent, IInv, CursorInv, journal
<1>10. BatchInv'
    BY <1>2, <1>4 DEF IInv, BatchInv
<1>11. TableInv'
    <2>5. Len(events) \in Nat /\ \A i \in 1..Len(events) : events[i] \in 0..(MaxUsn - 1)
        BY <1>1, UsnConstants
    <2>6. \A i \in 1..Len(events) : events[i] < Due
        BY DEF IInv, TableInv
    <2>1. /\ Len(events) \in Nat
          /\ \A i \in 1..Len(events) : events[i] \in Int /\ events[i] < Due
        BY <2>5, <2>6
    <2>2. ASSUME NEW i \in 1..Len(events'), NEW j \in 1..Len(events'), i < j
          PROVE  events'[i] < events'[j]
        <3>1. i \in 1..Len(events) /\ events'[i] = events[i]
            BY <1>6, <2>1, <2>2
        <3>2. CASE j = Len(events) + 1
            BY <1>6, <2>1, <3>1, <3>2
        <3>3. CASE j # Len(events) + 1
            <4>1. j \in 1..Len(events) /\ events'[j] = events[j]
                BY <1>6, <2>1, <3>3
            <4> QED  BY <2>2, <3>1, <4>1 DEF IInv, TableInv, EventsInOrder
        <3> QED  BY <3>2, <3>3
    <2>3. ASSUME NEW i \in 1..Len(events') PROVE events'[i] < Due'
        BY <1>4, <1>6, <2>1
    <2> QED  BY <2>2, <2>3 DEF TableInv, EventsInOrder
<1>12. LoggedInv'
    <2>1. phase = "insert"
        BY DEF InsertUsnEvent
    <2>2. SUFFICES ASSUME NEW usn \in since..Due
                   PROVE  \E i \in 1..Len(events') : events'[i] = usn
        BY <1>3, <1>4 DEF LoggedInv, Contains
    <2>3. CASE usn = Due
        BY <2>3, <1>1, <1>6
    <2>4. CASE usn # Due
        <3>1. usn \in since..(Due - 1)
            BY <2>4, <1>3, <1>4
        <3>2. PICK i \in 1..Len(events) : events[i] = usn
            BY <3>1, <2>1 DEF IInv, LoggedInv, Contains
        <3> QED  BY <3>2, <1>1, <1>6
    <2> QED  BY <2>3, <2>4
<1> QED  BY <1>8, <1>9, <1>10, <1>11, <1>12 DEF IInv

(* The steps that end a session leave the table alone and drop the batch.  *)
LEMMA DropKeepsIInv ==
    ASSUME IInv, InsertThrows \/ Kill
    PROVE  IInv'
<1>1. /\ batch' = <<>> /\ phase' \in {"thrown", "killed"}
      /\ UNCHANGED <<journal, tracker, stop, events>>
    BY DEF InsertThrows, Kill
<1>2. Due \in Int /\ Due <= cursor /\ Due' = cursor /\ cursor \in Nat
    BY <1>1, UsnConstants DEF IInv, TypeOK, Due, tracker
<1>3. TypeOK'
    BY <1>1 DEF IInv, TypeOK, journal, tracker
<1>4. CursorInv' /\ BatchInv' /\ LoggedInv'
    BY <1>1, <1>2, UsnConstants DEF IInv, TypeOK, CursorInv, BatchInv, LoggedInv, journal, tracker
<1>5. TableInv'
    <2>1. events \in Seq(0..(MaxUsn - 1)) /\ events' = events
        BY <1>1 DEF IInv, TypeOK
    <2> QED  BY <1>2, <2>1, UsnConstants DEF IInv, TableInv, EventsInOrder
<1> QED  BY <1>3, <1>4, <1>5 DEF IInv

(* A new session starts behind everything that was ever logged. *)
LEMMA RestartKeepsIInv ==
    ASSUME IInv, QueryJournal
    PROVE  IInv'
<1>1. batch = <<>> /\ batch' = <<>>
    BY DEF QueryJournal, IInv, CursorInv, Alive
<1>2. Due = cursor /\ Due' = nextUsn /\ Len(batch) = 0
    BY <1>1, UsnConstants DEF QueryJournal, IInv, TypeOK, Due
<1>3. TypeOK'
    <2>1. sessions' \in 1..MaxSessions
        BY UsnConstants DEF QueryJournal, IInv, TypeOK
    <2> QED  BY <2>1 DEF QueryJournal, IInv, TypeOK, journal
<1>4. CursorInv' /\ BatchInv' /\ LoggedInv'
    BY <1>1, <1>2, UsnConstants
    DEF QueryJournal, IInv, TypeOK, CursorInv, BatchInv, LoggedInv, journal
<1>5. TableInv'
    <2>1. events \in Seq(0..(MaxUsn - 1)) /\ events' = events
        BY DEF QueryJournal, IInv, TypeOK
    <2> QED  BY <1>2, <2>1, UsnConstants
             DEF IInv, TypeOK, CursorInv, TableInv, EventsInOrder
<1> QED  BY <1>3, <1>4, <1>5 DEF IInv

(* The remaining steps touch neither the cursor, the batch nor the table.  *)
LEMMA OtherStepsKeepIInv ==
    ASSUME IInv,
           \/ LoopExits \/ SigHandler
           \/ FileChanges \/ JournalTrimmed \/ JournalRecreated \/ UNCHANGED vars
    PROVE  IInv'
<1>1. UNCHANGED <<tracker, batch, events>> /\ Due' = Due
    BY DEF LoopExits, SigHandler, FileChanges, JournalTrimmed, JournalRecreated, vars,
           Due, tracker
<1>2. TypeOK'
    <2>1. CASE LoopExits \/ SigHandler \/ UNCHANGED vars
        BY <2>1 DEF LoopExits, SigHandler, vars, IInv, TypeOK, journal, tracker
    <2>2. CASE FileChanges \/ JournalTrimmed \/ JournalRecreated
        <3>1. UNCHANGED <<tracker, batch, stop, phase, events>>
            BY <2>2 DEF FileChanges, JournalTrimmed, JournalRecreated
        <3>2. firstUsn' \in 0..MaxUsn /\ nextUsn' \in 0..MaxUsn /\ journalId' \in 1..MaxJournals
            BY <2>2, UsnConstants
            DEF FileChanges, JournalTrimmed, JournalRecreated, IInv, TypeOK
        <3> QED  BY <3>1, <3>2 DEF IInv, TypeOK, tracker
    <2> QED  BY <2>1, <2>2
<1>3. CursorInv'
    BY <1>1, UsnConstants
    DEF LoopExits, SigHandler, FileChanges, JournalTrimmed, JournalRecreated, vars,
        IInv, TypeOK, CursorInv, journal, tracker
<1>4. BatchInv' /\ TableInv'
    BY <1>1 DEF IInv, BatchInv, TableInv, EventsInOrder
<1>5. LoggedInv'
    BY <1>1 DEF LoopExits, SigHandler, FileChanges, JournalTrimmed, JournalRecreated,
                vars, IInv, LoggedInv, Contains, tracker
<1> QED  BY <1>2, <1>3, <1>4, <1>5 DEF IInv

(* Cursor, batch and table fit together at every moment of every session   *)
(* (PollRecords, InsertUsnEvent).                                          *)
THEOREM MonitorInvariant == Spec => []IInv
<1>1. IInv /\ [Next]_vars => IInv'
    BY PollKeepsIInv, InsertKeepsIInv, DropKeepsIInv, RestartKeepsIInv, OtherStepsKeepIInv
    DEF Next, Monitor, Environment
<1> QED  BY InitIInv, <1>1, PTL DEF Spec

(* Every variable keeps to its range (the fields of UsnJournalTracker and  *)
(* the journal it reads).                                                  *)
THEOREM MonitorTypeOK == Spec => []TypeOK
<1>1. IInv => TypeOK
    BY DEF IInv
<1> QED  BY MonitorInvariant, <1>1, PTL

(* The table is in journal order without duplicates, for journals, buffers *)
(* and numbers of sessions of any size.                                    *)
THEOREM MonitorEventsInOrder == Spec => []EventsInOrder
<1>1. IInv => EventsInOrder
    BY DEF IInv, TableInv
<1> QED  BY MonitorInvariant, <1>1, PTL

(* What a session has read is in the table or still in the batch, until    *)
(* and after Ctrl-C.                                                       *)
THEOREM MonitorReadMeansLogged == Spec => []ReadMeansLogged
<1>1. ASSUME IInv PROVE ReadMeansLogged
    <2>1. cursor \in Nat /\ since \in Nat /\ Len(batch) \in Nat
        BY <1>1, UsnConstants DEF IInv, TypeOK
    <2>2. SUFFICES ASSUME phase \in {"loop", "insert", "stopped"},
                          NEW usn \in since..(cursor - 1)
                   PROVE  Contains(events, usn) \/ Contains(batch, usn)
        BY DEF ReadMeansLogged
    <2>3. CASE usn < Due
        BY <1>1, <2>1, <2>2, <2>3 DEF IInv, LoggedInv, Due
    <2>4. CASE usn >= Due
        <3>1. usn - Due + 1 \in 1..Len(batch)
            BY <2>1, <2>4 DEF Due
        <3>2. batch[usn - Due + 1] = usn
            BY <1>1, <2>1, <3>1 DEF IInv, BatchInv, Due
        <3> QED  BY <3>1, <3>2 DEF Contains
    <2> QED  BY <2>1, <2>3, <2>4 DEF Due
<1> QED  BY MonitorInvariant, <1>1, PTL

(* Only an insertion changes the table; the row it adds is the oldest one  *)
(* of the batch, which lies between the session's start and the journal's  *)
(* end.                                                                    *)
THEOREM MonitorEventsOnlyAppended == Spec => EventsOnlyAppended
<1>1. ASSUME IInv, [Next]_vars, events' # events
      PROVE  /\ events' = Append(events, events'[Len(events')])
             /\ events'[Len(events')] \in since..(nextUsn - 1)
    <2>1. InsertUsnEvent
        BY <1>1 DEF Next, Monitor, Environment, PollRecords, InsertThrows, LoopExits, vars,
            SigHandler, Kill, QueryJournal, FileChanges, JournalTrimmed, JournalRecreated
    <2>2. batch \in Seq(0..(MaxUsn - 1)) /\ events \in Seq(0..(MaxUsn - 1)) /\ batch # <<>>
        BY <1>1, <2>1 DEF InsertUsnEvent, IInv, TypeOK, CursorInv
    <2>3. /\ Len(batch) \in Nat \ {0} /\ Head(batch) = batch[1]
          /\ batch[1] \in 0..(MaxUsn - 1) /\ 1 \in 1..Len(batch)
        BY <2>2, UsnConstants
    <2>4. events' = Append(events, batch[1]) /\ events'[Len(events')] = batch[1]
        BY <2>1, <2>2, <2>3 DEF InsertUsnEvent
    <2>5. batch[1] = Due + 1 - 1
        BY <1>1, <2>3 DEF IInv, BatchInv
    <2>6. since <= Due /\ cursor <= nextUsn /\ cursor \in Nat /\ nextUsn \in Nat /\ since \in Nat
        BY <1>1, UsnConstants DEF IInv, TypeOK, CursorInv
    <2>7. batch[1] \in since..(nextUsn - 1)
        BY <2>3, <2>5, <2>6 DEF Due
    <2> QED  BY <2>4, <2>7
<1> QED  BY MonitorInvariant, <1>1, PTL DEF Spec, EventsOnlyAppended

(***************************************************************************)
(* Progress                                                                *)
(***************************************************************************)

(* What a step of the monitor does for a session that goes on: it inserts  *)
(* the record that is due, and one fewer is waiting; or it fetches more,   *)
(* but not once it was told to stop.                                       *)
Further ==
    \/ ~Alive'
    \/ Due' = Due + 1 /\ Len(batch') < Len(batch)
    \/ ~stop /\ phase = "loop" /\ phase' = "insert" /\ Due' = Due

(* What others leave as it is, unless they kill the monitor or start it.   *)
Kept == Alive /\ Alive' => UNCHANGED <<phase, batch, cursor, since>> /\ (stop => stop')

(* No step of RunLoop is made in vain, and nobody else takes anything back *)
(* while the session lasts.  After Ctrl-C it ends after as many insertions *)
(* as the batch then held, or fewer; before, each record the journal still *)
(* has comes to be due, in two steps for each record before it at most.    *)
THEOREM MonitorProgress ==
    Spec => [][(Monitor => Further) /\ (Monitor \/ Kept)]_vars
<1> DEFINE Move == (Monitor => Further) /\ (Monitor \/ Kept)
<1>1. ASSUME IInv, Next
      PROVE  Move
    <2>1. CASE PollRecords
        <3>1. PICK upto \in (cursor + 1)..nextUsn :
                  batch' = Records(cursor, upto) /\ cursor' = upto
            BY <2>1 DEF PollRecords
        <3>2. upto \in Nat /\ cursor \in Nat /\ upto - cursor \in Nat
            BY <1>1, <3>1, UsnConstants DEF IInv, TypeOK
        <3>3. Len(batch') = upto - cursor
            BY <3>1, <3>2 DEF Records
        <3>4. batch = <<>> /\ Len(batch) = 0
            BY <1>1, <2>1 DEF PollRecords, IInv, CursorInv
        <3>5. Due' = Due
            BY <3>1, <3>2, <3>3, <3>4 DEF Due
        <3> QED  BY <2>1, <3>5 DEF PollRecords, Further, Monitor
    <2>2. CASE InsertUsnEvent
        <3>1. batch \in Seq(0..(MaxUsn - 1)) /\ batch # <<>>
            BY <1>1, <2>2 DEF InsertUsnEvent, IInv, TypeOK, CursorInv
        <3>2. Len(batch) \in Nat \ {0} /\ Len(batch') = Len(batch) - 1
            BY <2>2, <3>1 DEF InsertUsnEvent
        <3>3. cursor \in Nat /\ cursor' = cursor
            BY <1>1, <2>2, UsnConstants DEF InsertUsnEvent, tracker, IInv, TypeOK
        <3>4. Due' = Due + 1
            BY <3>2, <3>3 DEF Due
        <3> QED  BY <2>2, <3>2, <3>4 DEF Further, Monitor
    <2>3. CASE InsertThrows \/ LoopExits
        BY <2>3 DEF InsertThrows, LoopExits, Alive, Further, Monitor
    <2>4. CASE Environment
        <3>1. Kept
            BY <2>4
            DEF Environment, SigHandler, Kill, QueryJournal, FileChanges, JournalTrimmed,
                JournalRecreated, Kept, Alive, tracker
        <3>2. Monitor => ~Alive'
            BY <1>1, <2>4
            DEF Environment, SigHandler, Kill, QueryJournal, FileChanges, JournalTrimmed,
                JournalRecreated, Monitor, PollRecords, InsertUsnEvent, InsertThrows, LoopExits,
                IInv, CursorInv, Alive, journal, tracker
        <3> QED  BY <3>1, <3>2 DEF Further
    <2> QED  BY <1>1, <2>1, <2>2, <2>3, <2>4 DEF Next, Monitor
<1>2. IInv /\ [Next]_vars => [Move]_vars
    BY <1>1
<1>3. Spec => [][Move]_vars
    <2> HIDE DEF Move
    <2> QED  BY MonitorInvariant, <1>2, PTL DEF Spec
<1> QED  BY <1>3

(***************************************************************************)
(* The refinement of ChangeLog                                             *)
(***************************************************************************)

Mark == IF phase = "insert" THEN Head(batch) ELSE cursor

MarkInv ==
    /\ Mark = Due /\ Mark \in Nat
    /\ Mark <= cursor /\ cursor <= nextUsn /\ nextUsn \in Nat

(* The first change that is not logged is the one that is due. *)
LEMMA MarkIsDue == IInv => MarkInv
<1> SUFFICES ASSUME IInv PROVE MarkInv
    OBVIOUS
<1> USE DEF MarkInv
<1>1. /\ cursor \in Nat /\ nextUsn \in Nat /\ cursor <= nextUsn /\ since \in Nat
      /\ batch \in Seq(0..(MaxUsn - 1)) /\ Len(batch) \in Nat /\ since <= Due
    BY UsnConstants DEF IInv, TypeOK, CursorInv
<1>2. CASE phase = "insert"
    <2>1. batch # <<>> /\ 1 \in 1..Len(batch) /\ Head(batch) = batch[1]
        BY <1>1, <1>2 DEF IInv, CursorInv
    <2>2. batch[1] = Due + 1 - 1
        BY <2>1 DEF IInv, BatchInv
    <2>3. Due \in Int
        BY <1>1 DEF Due
    <2> QED  BY <1>1, <1>2, <2>1, <2>2, <2>3 DEF Mark, Due
<1>3. CASE phase # "insert"
    <2>1. batch = <<>> /\ Len(batch) = 0
        BY <1>1, <1>3 DEF IInv, CursorInv
    <2> QED  BY <1>1, <1>3, <2>1 DEF Mark, Due
<1> QED  BY <1>2, <1>3

(* Each step of monitor, journal and signals is a step of ChangeLog, or    *)
(* none.                                                                   *)
LEMMA StepsAreLogSteps ==
    ASSUME IInv, MarkInv, MarkInv', [Next]_vars
    PROVE  Log!Next \/ UNCHANGED <<nextUsn, Mark, events, Alive>>
<1>1. /\ Mark = Due /\ Mark \in Nat /\ Mark <= cursor /\ cursor <= nextUsn /\ nextUsn \in Nat
      /\ Mark' = Due' /\ cursor \in Nat
    BY UsnConstants DEF MarkInv, IInv, TypeOK
<1>2. CASE PollRecords
    <2>1. PICK upto \in (cursor + 1)..nextUsn :
              batch' = Records(cursor, upto) /\ cursor' = upto
        BY <1>2 DEF PollRecords
    <2>2. upto - cursor \in Nat \ {0} /\ Len(batch') = upto - cursor
        BY <1>1, <2>1 DEF Records
    <2>3. batch = <<>> /\ Len(batch) = 0
        BY <1>2 DEF PollRecords, IInv, CursorInv
    <2>4. Due' = Due
        BY <1>1, <2>1, <2>2, <2>3 DEF Due
    <2> QED  BY <1>1, <1>2, <2>4 DEF PollRecords, Alive, journal
<1>3. CASE InsertUsnEvent
    <2>1. /\ batch \in Seq(0..(MaxUsn - 1)) /\ batch # <<>>
          /\ batch' = Tail(batch) /\ cursor' = cursor /\ nextUsn' = nextUsn
        BY <1>3 DEF InsertUsnEvent, IInv, TypeOK, CursorInv, tracker, journal
    <2>2. Len(batch) \in Nat \ {0} /\ Len(batch') = Len(batch) - 1
        BY <2>1
    <2>3. Due' = Due + 1
        BY <1>1, <2>1, <2>2 DEF Due
    <2>4. Due < nextUsn
        BY <1>1, <2>2 DEF Due
    <2>5. events' = Append(events, Mark) /\ Alive /\ Alive'
        BY <1>3 DEF InsertUsnEvent, Mark, Alive
    <2>6. Log!LogNext
        BY <1>1, <2>1, <2>3, <2>4, <2>5 DEF Log!LogNext, Mark
    <2> QED  BY <2>6 DEF Log!Next
<1>4. CASE InsertThrows \/ Kill
    <2>1. /\ Alive /\ ~Alive' /\ cursor' = cursor /\ nextUsn' = nextUsn /\ events' = events
          /\ Mark' = cursor
        BY <1>4 DEF InsertThrows, Kill, Alive, tracker, journal, Mark
    <2>2. Log!End
        BY <1>1, <2>1 DEF Log!End, Mark
    <2> QED  BY <2>2 DEF Log!Next
<1>5. CASE LoopExits
    <2>1. /\ Alive /\ ~Alive' /\ cursor' = cursor /\ nextUsn' = nextUsn /\ events' = events
          /\ Mark' = cursor /\ Mark = cursor
        BY <1>5 DEF LoopExits, Alive, tracker, journal, Mark
    <2>2. Log!End
        BY <1>1, <2>1 DEF Log!End, Mark
    <2> QED  BY <2>2 DEF Log!Next
<1>6. CASE QueryJournal
    <2>1. ~Alive /\ Alive' /\ Mark' = nextUsn /\ nextUsn' = nextUsn /\ events' = events
        BY <1>6 DEF QueryJournal, Alive, journal, Mark
    <2>2. Log!Start
        BY <2>1 DEF Log!Start, Mark
    <2> QED  BY <2>2 DEF Log!Next
<1>7. CASE FileChanges
    <2>1. nextUsn' = nextUsn + 1 /\ Mark' = Mark /\ events' = events /\ Alive' = Alive
        BY <1>7 DEF FileChanges, tracker, Mark, Alive
    <2>2. Log!Change
        BY <2>1 DEF Log!Change, Mark
    <2> QED  BY <2>2 DEF Log!Next
<1>8. CASE SigHandler \/ JournalTrimmed \/ JournalRecreated \/ UNCHANGED vars
    BY <1>8 DEF SigHandler, JournalTrimmed, JournalRecreated, vars, tracker, journal, Mark, Alive
<1> QED  BY <1>2, <1>3, <1>4, <1>5, <1>6, <1>7, <1>8 DEF Next, Monitor, Environment

(* The monitor implements the log without gaps, for journals, buffers and  *)
(* numbers of sessions of any size.                                        *)
THEOREM MonitorImplementsChangeLog == Spec => ImplementsChangeLog
<1>1. Init => Log!Init
    BY UsnConstants DEF Init, Log!Init, Alive
<1>2. IInv /\ MarkInv /\ MarkInv' /\ [Next]_vars => [Log!Next]_(Log!vars)
    BY StepsAreLogSteps DEF Log!vars, Mark
<1> QED  BY MonitorInvariant, MarkIsDue, <1>1, <1>2, PTL DEF Spec, ImplementsChangeLog, Log!Spec

==============================================================================
