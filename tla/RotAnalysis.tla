----------------------------- MODULE RotAnalysis -----------------------------
(***************************************************************************)
(* `securewipe analyze`: MetadataStore::StaleFiles (db.cpp) and            *)
(* RotAnalyzer (optimizer.cpp) read the rows that scans have left, while   *)
(* the files they are about are used, removed and made anew, and while     *)
(* scans, in other processes, replace one row after the other.             *)
(*                                                                         *)
(* A time is a number of seconds; 0 is the Unix epoch.  A file system that *)
(* keeps no access times answers with the FILETIME 0, which becomes a      *)
(* number far below 0 (Unset).  The access time in a row is a set: empty   *)
(* for NULL, else of one element.                                          *)
(***************************************************************************)
EXTENDS Integers, FiniteSets

CONSTANTS
    Path,
    Scanner,        \* the processes that scan
    Marks,          \* per path, what its name has the pattern of:
                    \* "temporary", "duplicate", "log"
    Untimed,        \* paths on a file system that keeps no access times
    Sizes,          \* the sizes a file may have
    LogLimit,       \* 100 MB
    StaleAfter,     \* --stale-days, in seconds
    Start, MaxClock \* the present when the model starts, and a bound

Unset == -1

(* The threshold does not reach back to 1970.                              *)
ASSUME RotConstants ==
    /\ IsFiniteSet(Path) /\ Untimed \subseteq Path
    /\ Marks \in [Path -> SUBSET {"temporary", "duplicate", "log"}]
    /\ Sizes \subseteq Nat /\ LogLimit \in Nat /\ StaleAfter \in Nat
    /\ Start \in Nat /\ StaleAfter < Start /\ MaxClock \in Nat /\ Start <= MaxClock

VARIABLES
    clock,      \* NowUnix
    files,      \* the files there are: size and access time by path
    rows,       \* file_metadata by path: size, access time, time of the scan, and
                \* (which the store does not keep) when the status was read
    rec,        \* the record each scanner has in hand, by path: one or none
    phase,      \* where CmdAnalyze stands
    cutoff,     \* what was last used before this is stale
    stale,      \* the rows StaleFiles returned, by path
    report      \* RotReport

vars == <<clock, files, rows, rec, phase, cutoff, stale, report>>

Empty == [p \in {} |-> {}]
Put(f, p, v) == [q \in DOMAIN f \cup {p} |-> IF q = p THEN v ELSE f[q]]
Without(f, p) == [q \in DOMAIN f \ {p} |-> f[q]]

Categories == {"Stale", "Temporary", "LikelyDuplicate", "LargeLog", "Empty"}
NoReport == [total_rot_files |-> 0, total_rot_bytes |-> 0,
             categories |-> [c \in Categories |-> {}]]

Times == {Unset} \cup 0..MaxClock

(* A row is dated no earlier than its status was read, nor after the       *)
(* present, and has no access from after the reading; the epoch is stored  *)
(* as NULL (UpsertFile).                                                   *)
RowOK(row) ==
    /\ row.size \in Sizes /\ row.scanned \in Start..clock /\ row.seen \in Start..row.scanned
    /\ \A t \in row.accessed : t \in Times \ {0} /\ t <= row.seen

TypeOK ==
    /\ clock \in Start..MaxClock
    /\ \A p \in DOMAIN files : p \in Path /\ files[p] \in [size : Sizes, accessed : Times]
    /\ \A p \in DOMAIN rows : p \in Path /\ RowOK(rows[p])
    /\ \A s \in Scanner : Cardinality(DOMAIN rec[s]) <= 1
    /\ phase \in {"idle", "selecting", "reported"} /\ cutoff \in Int /\ cutoff <= clock
    /\ \A p \in DOMAIN stale : p \in DOMAIN rows /\ RowOK(stale[p])
    /\ report.total_rot_files \in Nat /\ report.total_rot_bytes \in Nat

(* Files of any age, none of them scanned. *)
Init ==
    /\ clock = Start
    /\ files \in [Path -> [size : Sizes, accessed : {Unset} \cup 0..Start]]
    /\ \A p \in Path : files[p].accessed = Unset <=> p \in Untimed
    /\ rows = Empty /\ rec = [s \in Scanner |-> Empty] /\ stale = Empty
    /\ phase = "idle" /\ cutoff = 0 /\ report = NoReport

(***************************************************************************)
(* The scan: CollectMetadata reads the status, then the clock; UpsertFile  *)
(***************************************************************************)

(* GetFileAttributesExA.  The record's time of the scan is 0 until         *)
(* CollectMetadata gets to it.                                             *)
ReadStatus(s, p) ==
    /\ DOMAIN rec[s] = {} /\ p \in DOMAIN files
    /\ rec' = [rec EXCEPT ![s] = Put(Empty, p,
                 [size |-> files[p].size, accessed |-> files[p].accessed,
                  scanned |-> 0, seen |-> clock])]
    /\ UNCHANGED <<clock, files, rows, phase, cutoff, stale, report>>

(* NowUnix, which may be a second later: the file may have been used since.*)
StampScan(s) ==
    \E p \in DOMAIN rec[s] :
        /\ rec[s][p].scanned = 0
        /\ rec' = [rec EXCEPT ![s][p].scanned = clock]
        /\ UNCHANGED <<clock, files, rows, phase, cutoff, stale, report>>

(* An access time of 0 is bound as NULL. *)
Optional(t) == IF t = 0 THEN {} ELSE {t}

(* The row that stands there keeps its access time. *)
UpsertFileKeep(s) ==
    \E p \in DOMAIN rec[s] :
        /\ rec[s][p].scanned # 0
        /\ rows' = Put(rows, p, [rec[s][p] EXCEPT
                       !.accessed = IF p \in DOMAIN rows THEN rows[p].accessed ELSE Optional(@)])
        /\ rec' = [rec EXCEPT ![s] = Empty]
        /\ UNCHANGED <<clock, files, phase, cutoff, stale, report>>

(* The time is bound as it is. *)
UpsertFileZero(s) ==
    \E p \in DOMAIN rec[s] :
        /\ rec[s][p].scanned # 0
        /\ rows' = Put(rows, p, [rec[s][p] EXCEPT !.accessed = {@}])
        /\ rec' = [rec EXCEPT ![s] = Empty]
        /\ UNCHANGED <<clock, files, phase, cutoff, stale, report>>

(* The row is replaced whatever it held, by an older record too.           *)
UpsertFile(s) ==
    \E p \in DOMAIN rec[s] :
        /\ rec[s][p].scanned # 0
        /\ rows' = Put(rows, p, [rec[s][p] EXCEPT !.accessed = Optional(@)])
        /\ rec' = [rec EXCEPT ![s] = Empty]
        /\ UNCHANGED <<clock, files, phase, cutoff, stale, report>>

(* The store is locked, or the scan is killed. *)
ScanStops(s) ==
    /\ DOMAIN rec[s] # {} /\ rec' = [rec EXCEPT ![s] = Empty]
    /\ UNCHANGED <<clock, files, rows, phase, cutoff, stale, report>>

(***************************************************************************)
(* The analysis                                                            *)
(***************************************************************************)

BeginAnalyze ==
    /\ phase = "idle"
    /\ phase' = "selecting" /\ cutoff' = clock - StaleAfter
    /\ UNCHANGED <<clock, files, rows, rec, stale, report>>

(* Rows without an access time are left out. *)
IsStaleDated(row) == \E t \in row.accessed : t < cutoff

(* WHERE last_accessed < ? OR last_accessed IS NULL                        *)
IsStale(row) == \A t \in row.accessed : t < cutoff

StaleFiles == LET found == {p \in DOMAIN rows : IsStale(rows[p])}
              IN  [p \in found |-> rows[p]]

(* The name's patterns are asked about before the size. *)
ClassifyRotByName(p, row) ==
    CASE "temporary" \in Marks[p] -> "Temporary"
      [] "temporary" \notin Marks[p] /\ "duplicate" \in Marks[p] -> "LikelyDuplicate"
      [] Marks[p] = {"log"} /\ row.size > LogLimit -> "LargeLog"
      [] OTHER -> "Stale"

(* The first that applies, in the order of the code's returns.             *)
ClassifyRot(p, row) ==
    IF row.size = 0 THEN "Empty"
    ELSE IF "temporary" \in Marks[p] THEN "Temporary"
    ELSE IF "duplicate" \in Marks[p] THEN "LikelyDuplicate"
    ELSE IF "log" \in Marks[p] /\ row.size > LogLimit THEN "LargeLog"
    ELSE "Stale"

(* The bytes of some of the rows, one by one. *)
Bytes(paths, found) == UNION {{p} \X (1..found[p].size) : p \in paths}

(* Each category and its total, and the totals added up.                   *)
Analyze(found) ==
    LET in(c)    == {p \in DOMAIN found : ClassifyRot(p, found[p]) = c}
        count(c) == Cardinality(in(c))
        bytes(c) == Cardinality(Bytes(in(c), found))
    IN  [total_rot_files |-> count("Stale") + count("Temporary") + count("LikelyDuplicate")
                                 + count("LargeLog") + count("Empty"),
         total_rot_bytes |-> bytes("Stale") + bytes("Temporary") + bytes("LikelyDuplicate")
                                 + bytes("LargeLog") + bytes("Empty"),
         categories      |-> [c \in Categories |-> in(c)]]

(* The rows are read in one statement; what follows concerns only them.    *)
SelectAndReport ==
    /\ phase = "selecting"
    /\ phase' = "reported" /\ stale' = StaleFiles /\ report' = Analyze(stale')
    /\ UNCHANGED <<clock, files, rows, rec, cutoff>>

Program ==
    \/ \E s \in Scanner :
          (\E p \in Path : ReadStatus(s, p)) \/ StampScan(s) \/ UpsertFile(s) \/ ScanStops(s)
    \/ BeginAnalyze \/ SelectAndReport

(***************************************************************************)
(* The files, meanwhile                                                    *)
(***************************************************************************)

Present(p) == IF p \in Untimed THEN Unset ELSE clock

(* A file is used, or created where there was none; the file system may    *)
(* leave the access time of a file it has as it is.                        *)
Use(p) ==
    /\ \E s \in Sizes, t \in {Present(p)} \cup {files[q].accessed : q \in DOMAIN files \cap {p}} :
          files' = Put(files, p, [size |-> s, accessed |-> t])
    /\ UNCHANGED <<clock, rows, rec, phase, cutoff, stale, report>>

Remove(p) ==
    /\ p \in DOMAIN files /\ files' = Without(files, p)
    /\ UNCHANGED <<clock, rows, rec, phase, cutoff, stale, report>>

Tick ==
    /\ clock < MaxClock /\ clock' = clock + 1
    /\ UNCHANGED <<files, rows, rec, phase, cutoff, stale, report>>

Next == Program \/ Tick \/ \E p \in Path : Use(p) \/ Remove(p)

Spec == Init /\ [][Next]_vars

(***************************************************************************)
(* Properties                                                              *)
(***************************************************************************)

(* A file that has a row when the query runs, that is there and has not    *)
(* been used since the cutoff is suggested: whichever of two scans wrote   *)
(* the row last, however old the record it wrote, and also when the age is *)
(* unknown, stored as NULL or as a time before 1970 (db.cpp, StaleFiles).  *)
UnusedAreSuggested ==
    [][phase' # phase /\ phase' = "reported" =>
          \A p \in DOMAIN files \cap DOMAIN rows :
              files[p].accessed < cutoff => p \in DOMAIN stale']_vars

(* What is suggested although its file has been used lately was used at   *)
(* or after the moment at which the status its row holds was read, in      *)
(* whatever order two scans read and wrote: the report is old, and not     *)
(* wrong about a use that the reading could have seen (scanner.cpp,        *)
(* CollectMetadata; db.cpp, UpsertFile).  The time that the row itself     *)
(* gives is read later and vouches for less: see README.                   *)
UsedSinceRead ==
    \A p \in DOMAIN stale \cap DOMAIN files :
        files[p].accessed >= cutoff => files[p].accessed >= stale[p].seen

(* Each row that was selected is in one category, the totals count each    *)
(* once, and a file is called empty or an oversized log only if it is,     *)
(* whatever else its name looks like (optimizer.cpp, ClassifyRot).         *)
ReportPartition ==
    phase = "reported" =>
        LET cat == report.categories
        IN  /\ UNION {cat[c] : c \in Categories} = DOMAIN stale
            /\ \A c, d \in Categories : c # d => cat[c] \cap cat[d] = {}
            /\ cat["Empty"] = {p \in DOMAIN stale : stale[p].size = 0}
            /\ \A p \in cat["LargeLog"] : "log" \in Marks[p] /\ stale[p].size > LogLimit
            /\ report.total_rot_files = Cardinality(DOMAIN stale)
            /\ report.total_rot_bytes = Cardinality(Bytes(DOMAIN stale, stale))

==============================================================================
