----------------------------- MODULE MetadataScan -----------------------------
(***************************************************************************)
(* `securewipe scan`: MetadataScanner (scanner.cpp) walks a directory tree *)
(* and upserts a row per file into file_metadata (db.cpp), while others    *)
(* create, remove and resize files, and while another process, such as the *)
(* monitor, may hold the store's write lock.  The store has no busy        *)
(* timeout: a statement that finds the lock taken fails at once.           *)
(*                                                                         *)
(* A path is a node of a fixed tree; what changes is which nodes exist.    *)
(* The settings of the scanner are those of the command, which leaves them *)
(* at their defaults: any depth, hidden entries too, files of any size.    *)
(***************************************************************************)
EXTENDS Integers, Sequences, FiniteSets

CONSTANTS
    Node, Root, Parent,     \* the paths: a tree below Root
    Dirs, Links,            \* kinds of paths; the others are regular files
    MaxSize, MaxScans,      \* bounds: file sizes, runs of the command
    Faults,     \* "denied", "opendir", "iterate", "stat", "locked", "kill"
    Changes                 \* "create", "remove", "resize"

(* Nothing is its own ancestor: every path lies below Root. *)
ASSUME ScanConstants ==
    /\ IsFiniteSet(Node) /\ Root \in Dirs
    /\ Parent \in [Node \ {Root} -> Dirs]
    /\ Dirs \subseteq Node /\ Links \subseteq Node \ Dirs
    /\ \A S \in SUBSET (Node \ {Root}) : S # {} => \E n \in S : Parent[n] \notin S
    /\ MaxSize \in Nat /\ MaxScans \in Nat
    /\ Faults \subseteq {"denied", "opendir", "iterate", "stat", "locked", "kill"}
    /\ Changes \subseteq {"create", "remove", "resize"}

VARIABLES
    present, size,              \* the paths that exist; the sizes of files
    rowScan, rowSize,           \* file_metadata: the scan that wrote the row
                                \* of a path last (0: no row), and its size
    phase,                      \* where the scan stands
    stack,                      \* the open directories and their entries to come
    cur, rec,                   \* the entry at hand (Root: none) and its size
    stats,                      \* ScanStats
    scans,                      \* runs of the command
    visited, stable,            \* entries returned; files there since the start
    missed, silent,             \* paths skipped; directories that looked empty
    lost                        \* records the store refused

tree == <<present, size>>
rows == <<rowScan, rowSize>>
log  == <<visited, missed, silent, lost>>
vars == <<tree, rows, phase, stack, cur, rec, stats, scans, log, stable>>

File == Node \ (Dirs \cup Links)
Children(d) == {n \in Node \ {Root} : Parent[n] = d}
NoStats == [file_count |-> 0, dir_count |-> 0, total_bytes |-> 0, skipped |-> 0]

Scanning == phase \in {"next", "opendir", "stat", "upsert"}

(* A path and the directories above it: the least set that holds it and    *)
(* the parent of whatever it holds.                                        *)
Chain == [n \in Node |-> {m \in Node :
    \A S \in SUBSET Node : n \in S /\ (\A k \in S \ {Root} : Parent[k] \in S) => m \in S}]

TypeOK ==
    /\ present \subseteq Node /\ stable \subseteq present \cap File
    /\ size \in [File -> 0..MaxSize]
    /\ rowScan \in [File -> 0..scans] /\ rowSize \in [File -> 0..MaxSize]
    /\ phase \in {"ended", "next", "opendir", "stat", "upsert", "done"}
    /\ \A i \in 1..Len(stack) : stack[i].dir \in Dirs /\ stack[i].todo \subseteq Node \ visited
    /\ cur \in Node /\ rec \in 0..MaxSize /\ scans \in 0..MaxScans
    /\ stats \in [file_count : 0..Cardinality(File), dir_count : 0..Cardinality(Dirs),
                  total_bytes : Nat, skipped : 0..Cardinality(Node)]
    /\ visited \subseteq Node /\ missed \subseteq visited \cup {Root}
    /\ silent \subseteq Dirs
    /\ lost \subseteq File \X (0..MaxSize)

Init ==
    /\ present \in {Node, {}} /\ size \in [File -> 0..MaxSize]
    /\ rowScan = [f \in File |-> 0] /\ rowSize = [f \in File |-> 0]
    /\ phase = "ended" /\ stack = <<>> /\ cur = Root /\ rec = 0
    /\ stats = NoStats /\ scans = 0
    /\ visited = {} /\ stable = {}
    /\ missed = {} /\ silent = {} /\ lost = {}

(***************************************************************************)
(* The scanner                                                             *)
(***************************************************************************)

Fresh == visited' = {} /\ missed' = {} /\ silent' = {} /\ lost' = {}

(* The process is gone, with all it knew. *)
ProcessEnds ==
    /\ phase' = "ended" /\ stack' = <<>> /\ cur' = Root /\ rec' = 0
    /\ stats' = NoStats /\ stable' = {} /\ Fresh

Skip(n) ==
    /\ stats' = [stats EXCEPT !.skipped = @ + 1]
    /\ missed' = missed \cup {n}

(* The statistics go on from the scan before. *)
StartScanNoReset ==
    /\ ~Scanning /\ scans < MaxScans
    /\ scans' = scans + 1
    /\ \/ /\ Root \in present
          /\ phase' = "opendir" /\ stable' = present \cap File /\ Fresh
          /\ UNCHANGED <<stack, cur, rec, stats>>
       \/ (Root \notin present \/ "locked" \in Faults) /\ ProcessEnds
    /\ UNCHANGED <<tree, rows>>

(* The store is opened, which may find it locked; a root that does not     *)
(* exist is refused; the walk begins.                                      *)
StartScan ==
    /\ ~Scanning /\ scans < MaxScans
    /\ scans' = scans + 1
    /\ \/ /\ Root \in present
          /\ phase' = "opendir" /\ stable' = present \cap File /\ Fresh
          /\ stats' = NoStats
          /\ UNCHANGED <<stack, cur, rec>>
       \/ (Root \notin present \/ "locked" \in Faults) /\ ProcessEnds
    /\ UNCHANGED <<tree, rows>>

(* ScanDir opens cur; a directory that may not be listed looks empty.      *)
OpenDir ==
    /\ phase = "opendir" /\ cur \in present
    /\ \/ /\ stack' = Append(stack, [dir |-> cur, todo |-> Children(cur) \cap present])
          /\ UNCHANGED silent
       \/ /\ "denied" \in Faults
          /\ stack' = Append(stack, [dir |-> cur, todo |-> {}])
          /\ silent' = silent \cup {cur}
    /\ phase' = "next" /\ cur' = Root
    /\ UNCHANGED <<tree, rows, rec, stats, scans, visited, missed, lost, stable>>

(* The failure is ignored. *)
OpenDirFailsUncounted ==
    /\ phase = "opendir"
    /\ cur \notin present \/ "opendir" \in Faults
    /\ phase' = IF stack = <<>> THEN "done" ELSE "next"
    /\ cur' = Root
    /\ UNCHANGED <<tree, rows, stack, rec, stats, scans, log, stable>>

(* The directory is tried until it opens. *)
OpenDirFailsRetry ==
    /\ phase = "opendir"
    /\ cur \notin present \/ "opendir" \in Faults
    /\ UNCHANGED vars

OpenDirFails ==
    /\ phase = "opendir"
    /\ cur \notin present \/ "opendir" \in Faults
    /\ Skip(cur)
    /\ phase' = IF stack = <<>> THEN "done" ELSE "next"
    /\ cur' = Root
    /\ UNCHANGED <<tree, rows, stack, rec, scans, visited, silent, lost, stable>>

Top == stack[Len(stack)]

(* The iterator returns n.  What has vanished since is neither a directory *)
(* nor a file, and is passed over.                                         *)
Visit(n) ==
    /\ phase = "next" /\ stack # <<>> /\ n \in Top.todo
    /\ stack' = [stack EXCEPT ![Len(stack)].todo = @ \ {n}]
    /\ visited' = visited \cup {n} 
    /\ \/ n \notin present /\ UNCHANGED <<phase, cur, stats, missed>>
       \/ n \in present \cap Links /\ Skip(n) /\ UNCHANGED <<phase, cur>>
       \/ /\ n \in present \ Links
          /\ phase' = (IF n \in Dirs THEN "opendir" ELSE "stat") /\ cur' = n
          /\ stats' = [stats EXCEPT !.dir_count = IF n \in Dirs THEN @ + 1 ELSE @]
          /\ UNCHANGED missed
    /\ UNCHANGED <<tree, rows, rec, scans, silent, lost, stable>>

(* Advancing the iterator, or asking for a status, throws: the exception   *)
(* leaves Scan through every open directory.                               *)
IterationThrows ==
    /\ phase = "next" /\ "iterate" \in Faults
    /\ ProcessEnds
    /\ UNCHANGED <<tree, rows, scans>>

DirEnds ==
    /\ phase = "next" /\ Top.todo = {}
    /\ stack' = SubSeq(stack, 1, Len(stack) - 1)
    /\ phase' = IF Len(stack) = 1 THEN "done" ELSE "next"
    /\ UNCHANGED <<tree, rows, cur, rec, stats, scans, log, stable>>

CollectMetadata ==
    /\ phase = "stat" /\ cur \in present
    /\ phase' = "upsert" /\ rec' = size[cur]
    /\ stats' = [stats EXCEPT !.file_count = @ + 1, !.total_bytes = @ + size[cur]]
    /\ UNCHANGED <<tree, rows, stack, cur, scans, log, stable>>

(* A file that could not be read is counted like any other. *)
CollectFailsCounted ==
    /\ phase = "stat"
    /\ cur \notin present \/ "stat" \in Faults
    /\ phase' = "next" /\ cur' = Root /\ stats' = [stats EXCEPT !.file_count = @ + 1]
    /\ missed' = missed \cup {cur}
    /\ UNCHANGED <<tree, rows, stack, rec, scans, visited, silent, lost, stable>>

(* CollectMetadata returns nothing: the file is gone or unreadable.        *)
CollectFails ==
    /\ phase = "stat"
    /\ cur \notin present \/ "stat" \in Faults
    /\ Skip(cur) /\ phase' = "next" /\ cur' = Root
    /\ UNCHANGED <<tree, rows, stack, rec, scans, visited, silent, lost, stable>>

(* INSERT ... ON CONFLICT(path) DO UPDATE, committed by itself. *)
UpsertFile ==
    /\ phase = "upsert"
    /\ rowScan' = [rowScan EXCEPT ![cur] = scans] /\ rowSize' = [rowSize EXCEPT ![cur] = rec]
    /\ phase' = "next" /\ cur' = Root /\ rec' = 0
    /\ UNCHANGED <<tree, stack, stats, scans, log, stable>>

(* The exception is caught and logged; the file stays counted. *)
UpsertFails ==
    /\ phase = "upsert" /\ "locked" \in Faults
    /\ lost' = lost \cup {<<cur, rec>>}
    /\ phase' = "next" /\ cur' = Root /\ rec' = 0
    /\ UNCHANGED <<tree, rows, stack, stats, scans, visited, missed, silent, stable>>

Scanner ==
    \/ OpenDir \/ OpenDirFails \/ (\E n \in Node : Visit(n)) \/ IterationThrows \/ DirEnds
    \/ CollectMetadata \/ CollectFails \/ UpsertFile \/ UpsertFails

(***************************************************************************)
(* Everybody else                                                          *)
(***************************************************************************)

Kill ==
    /\ Scanning /\ "kill" \in Faults
    /\ ProcessEnds
    /\ UNCHANGED <<tree, rows, scans>>

(* An open iterator may or may not come upon a new entry. *)
Create(n) ==
    /\ "create" \in Changes /\ n \notin present /\ Parent[n] \in present
    /\ present' = present \cup {n}
    /\ \/ UNCHANGED stack
       \/ \E i \in 1..Len(stack) :
             /\ n \notin visited /\ stack[i].dir = Parent[n]
             /\ stack' = [stack EXCEPT ![i].todo = @ \cup {n}]
    /\ UNCHANGED <<size, rows, phase, cur, rec, stats, scans, log, stable>>

Remove(n) ==
    /\ "remove" \in Changes /\ n \in present /\ Children(n) \cap present = {}
    /\ present' = present \ {n} /\ stable' = stable \ {n}
    /\ size' = [f \in File |-> IF f = n THEN 0 ELSE size[f]]
    /\ UNCHANGED <<rows, phase, stack, cur, rec, stats, scans, log>>

Resize(f) ==
    /\ "resize" \in Changes /\ f \in present
    /\ \E s \in 0..MaxSize : size' = [size EXCEPT ![f] = s]
    /\ UNCHANGED <<present, rows, phase, stack, cur, rec, stats, scans, log, stable>>

Others == Kill \/ (\E n \in Node \ {Root} : Create(n) \/ Remove(n)) \/ \E f \in File : Resize(f)

Next == StartScan \/ Scanner \/ Others

Spec == Init /\ [][Next]_vars
FairSpec == Spec /\ WF_vars(Scanner)

(***************************************************************************)
(* Properties                                                              *)
(***************************************************************************)

(* A scan that returns accounts for every file that was there all along:   *)
(* its row is of this scan, or the store refused it, or the file or a      *)
(* directory above it is among the skipped, or lies below a directory that *)
(* may not be listed, which alone is passed over in silence (ScanDir).     *)
FilesAccounted ==
    phase = "done" =>
        \A f \in stable :
            \/ rowScan[f] = scans
            \/ \E s \in 0..MaxSize : <<f, s>> \in lost
            \/ Chain[f] \cap (missed \cup silent) # {}

(* The records of this scan: stored, refused, under way.  Their bytes, one *)
(* by one.                                                                 *)
Written == {<<f, rowSize[f]>> : f \in {g \in File : rowScan[g] = scans}}
Counted == Written \cup lost \cup (IF phase = "upsert" THEN {<<cur, rec>>} ELSE {})
Bytes(S) == UNION {{r} \X (1..r[2]) : r \in S}

(* At any time the counts of the scan are those of the rows it wrote and   *)
(* of the records the store refused, the one under way included: no file   *)
(* is stored twice under one count, or counted twice, and none is counted  *)
(* as a file and as skipped (the counters of ScanDir around UpsertFile).   *)
StatsMatchRows ==
    Scanning \/ phase = "done" =>
        /\ stats.file_count = Cardinality(Counted)
        /\ stats.total_bytes = Cardinality(Bytes(Counted))
        /\ stats.skipped = Cardinality(missed)

(* However the tree changes under it, a scan comes to its end.             *)
ScanEnds == Scanning ~> ~Scanning

==============================================================================
