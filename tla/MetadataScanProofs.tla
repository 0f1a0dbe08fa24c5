-------------------------- MODULE MetadataScanProofs --------------------------
(***************************************************************************)
(* Proofs about the metadata scanner: whatever tree it walks, whoever      *)
(* changes the tree meanwhile and whatever fails, a scan that returns      *)
(* accounts for every file that was there all along, and its statistics    *)
(* are those of the rows it wrote.                                         *)
(***************************************************************************)
EXTENDS MetadataScan, FiniteSetTheorems, SequenceTheorems, TLAPS

Running == Scanning \/ phase = "done"

(* What exists hangs together.  Out of a scan there is no open directory,  *)
(* and no entry at hand when none is being worked on.                      *)
TreeInv ==
    /\ \A n \in present \ {Root} : Parent[n] \in present
    /\ phase \notin {"opendir", "stat", "upsert"} => cur = Root
    /\ phase \in {"ended", "done"} => stack = <<>>
    /\ phase \in {"next", "stat", "upsert"} => stack # <<>>
    /\ phase = "ended" => stable = {} /\ stats = NoStats /\ visited = {} /\ missed = {} /\ lost = {}

Opened == [dir : Dirs, todo : SUBSET Node]

(* The open directories: each is open once and has been returned by the    *)
(* one above, and it holds back only entries of its own.                   *)
StackInv ==
    /\ stack \in Seq(Opened)
    /\ \A i \in 1..Len(stack) :
          /\ stack[i].todo \subseteq Children(stack[i].dir) \ visited
          /\ stack[i].dir \in visited \cup {Root}
    /\ \A i, j \in 1..Len(stack) : stack[i].dir = stack[j].dir => i = j

(* What has been returned lies below what has been returned; a directory   *)
(* about to be opened is new to the scan.                                  *)
VisitInv ==
    /\ visited \subseteq Node \ {Root} /\ missed \subseteq visited \cup {Root}
    /\ \A n \in visited : Parent[n] \in visited \cup {Root}
    /\ phase = "opendir" =>
          /\ cur \in Dirs /\ cur \in visited \cup {Root} /\ cur \notin missed
          /\ \A i \in 1..Len(stack) : stack[i].dir # cur
          /\ \A n \in visited : Parent[n] # cur

(* A file is returned before it is counted, and counted once.              *)
RecordInv ==
    /\ Running => \A f \in File : rowScan[f] = scans => f \in visited
    /\ \A r \in lost : r[1] \in visited /\ rowScan[r[1]] # scans
    /\ \A r, q \in lost : r[1] = q[1] => r = q
    /\ phase \in {"stat", "upsert"} =>
          /\ cur \in File /\ cur \in visited /\ cur \notin missed
          /\ rowScan[cur] # scans /\ \A r \in lost : r[1] # cur

DirsInv == stats.dir_count \in Nat /\ stats.dir_count <= Cardinality(visited \cap Dirs)

(* The type invariant but for the stack and the statistics. *)
TypeRest ==
    /\ present \subseteq Node /\ stable \subseteq present \cap File
    /\ size \in [File -> 0..MaxSize]
    /\ rowScan \in [File -> 0..scans] /\ rowSize \in [File -> 0..MaxSize]
    /\ phase \in {"ended", "next", "opendir", "stat", "upsert", "done"}
    /\ cur \in Node /\ rec \in 0..MaxSize /\ scans \in 0..MaxScans
    /\ visited \subseteq Node /\ missed \subseteq visited \cup {Root}
    /\ silent \subseteq Dirs
    /\ lost \subseteq File \X (0..MaxSize)

ScanInv == TypeOK /\ TreeInv /\ StackInv /\ VisitInv /\ RecordInv /\ DirsInv /\ StatsMatchRows

(* The paths that have been there since the scan began, and where each of  *)
(* them stands: returned, to come, below what is skipped or looks empty,   *)
(* or below what has not been opened yet.                                  *)
Held == UNION {Chain[f] : f \in stable}

Reached(n) ==
    \/ n \in visited
    \/ \E i \in 1..Len(stack) : n \in stack[i].todo
    \/ Parent[n] \in missed \cup silent
    \/ phase = "opendir" /\ cur = Parent[n]
    \/ Parent[n] # Root /\ Parent[n] \notin visited

Recorded(f) ==
    \/ rowScan[f] = scans
    \/ \E s \in 0..MaxSize : <<f, s>> \in lost
    \/ f \in missed
    \/ phase \in {"stat", "upsert"} /\ cur = f

WalkInv ==
    /\ \A n \in Held \ {Root} : Reached(n)
    /\ \A f \in stable \cap visited : Recorded(f)

(* What closing the innermost directory does to the stack. *)
LEMMA StackPop ==
    ASSUME NEW S, NEW s \in Seq(S), s # <<>>
    PROVE  /\ Len(s) \in Nat \ {0}
           /\ SubSeq(s, 1, Len(s) - 1) \in Seq(S)
           /\ Len(SubSeq(s, 1, Len(s) - 1)) = Len(s) - 1
           /\ \A i \in 1..(Len(s) - 1) : SubSeq(s, 1, Len(s) - 1)[i] = s[i]
           /\ Len(s) # 1 => SubSeq(s, 1, Len(s) - 1) # <<>>
           /\ Len(s) = 1 => SubSeq(s, 1, Len(s) - 1) = <<>>
<1> DEFINE m == Len(s) - 1
           t == SubSeq(s, 1, m)
<1>1. m \in Nat /\ Len(s) = m + 1
    BY EmptySeq
<1>2. \A i \in 1..m : s[i] \in S
    BY <1>1
<1> HIDE DEF m
<1>3. t \in Seq(S) /\ Len(t) = m /\ \A i \in 1..m : t[i] = s[i]
    BY <1>1, <1>2, SubSeqProperties
<1>4. t = <<>> <=> m = 0
    BY <1>3, EmptySeq
<1> QED  BY <1>1, <1>3, <1>4 DEF m

(* The stack when the innermost directory is closed. *)
LEMMA Pop ==
    ASSUME ScanInv, stack # <<>>, stack' = SubSeq(stack, 1, Len(stack) - 1)
    PROVE  /\ Len(stack) \in Nat \ {0} /\ stack' \in Seq(Opened)
           /\ Len(stack') = Len(stack) - 1
           /\ \A i \in 1..Len(stack') : stack'[i] = stack[i]
           /\ Len(stack) = 1 <=> stack' = <<>>
BY StackPop DEF ScanInv, StackInv

(* No step leaves a path without its parent, or a stack behind. *)
LEMMA TreeStep ==
    ASSUME ScanInv, [Next]_vars
    PROVE  TreeInv'
<1>1. CASE StartScan
    BY <1>1, ScanConstants DEF StartScan, ProcessEnds, Fresh, NoStats,
        ScanInv, TypeOK, TreeInv, Scanning, Children, File, tree, rows, log
<1>2. CASE OpenDir
    BY <1>2, ScanConstants DEF OpenDir, ScanInv, TypeOK, TreeInv, Scanning,
        Children, File, tree, rows, log
<1>3. CASE OpenDirFails
    BY <1>3, ScanConstants DEF OpenDirFails, Skip, ScanInv, TypeOK, TreeInv,
        Scanning, Children, File, tree, rows, log
<1>4. ASSUME NEW n \in Node, Visit(n)  PROVE TreeInv'
    BY <1>4, ScanConstants DEF Visit, Top, Skip, ScanInv, TypeOK, TreeInv,
        Scanning, Children, File, tree, rows, log
<1>5. CASE IterationThrows
    BY <1>5, ScanConstants DEF IterationThrows, ProcessEnds, Fresh, NoStats,
        ScanInv, TypeOK, TreeInv, Scanning, Children, File, tree, rows, log
<1>6. CASE DirEnds
    <2>1. stack # <<>> /\ stack' = SubSeq(stack, 1, Len(stack) - 1)
        BY <1>6 DEF DirEnds, ScanInv, TreeInv
    <2>2. Len(stack) = 1 <=> stack' = <<>>
        BY <2>1, Pop
    <2> QED  BY <1>6, <2>1, <2>2 DEF DirEnds, ScanInv, TypeOK, TreeInv, Scanning, tree, rows, log
<1>7. CASE CollectMetadata
    BY <1>7, ScanConstants DEF CollectMetadata, ScanInv, TypeOK, TreeInv,
        Scanning, Children, File, tree, rows, log
<1>8. CASE CollectFails
    BY <1>8, ScanConstants DEF CollectFails, Skip, ScanInv, TypeOK, TreeInv,
        Scanning, Children, File, tree, rows, log
<1>9. CASE UpsertFile
    BY <1>9, ScanConstants DEF UpsertFile, ScanInv, TypeOK, TreeInv,
        Scanning, Children, File, tree, rows, log
<1>10. CASE UpsertFails
    BY <1>10, ScanConstants DEF UpsertFails, ScanInv, TypeOK, TreeInv,
        Scanning, Children, File, tree, rows, log
<1>11. CASE Kill
    BY <1>11, ScanConstants DEF Kill, ProcessEnds, Fresh, NoStats, ScanInv,
        TypeOK, TreeInv, Scanning, Children, File, tree, rows, log
<1>12. ASSUME NEW n \in Node \ {Root}, Create(n)  PROVE TreeInv'
    BY <1>12, ScanConstants DEF Create, ScanInv, TypeOK, TreeInv, Scanning,
        Children, File, tree, rows, log
<1>13. ASSUME NEW n \in Node \ {Root}, Remove(n)  PROVE TreeInv'
    BY <1>13, ScanConstants DEF Remove, ScanInv, TypeOK, TreeInv, Scanning,
        Children, File, tree, rows, log
<1>14. ASSUME NEW f \in File, Resize(f)  PROVE TreeInv'
    BY <1>14, ScanConstants DEF Resize, ScanInv, TypeOK, TreeInv, Scanning,
        Children, File, tree, rows, log
<1>15. CASE UNCHANGED vars
    BY <1>15, ScanConstants DEF vars, ScanInv, TypeOK, TreeInv, Scanning,
        Children, File, tree, rows, log
<1> QED
    BY <1>1, <1>2, <1>3, <1>4, <1>5, <1>6, <1>7, <1>8, <1>9, <1>10, <1>11,
        <1>12, <1>13, <1>14, <1>15 DEF Next, Scanner, Others

(* The entry the iterator returns is new to the scan, and the innermost    *)
(* directory alone has held it back.                                       *)
LEMMA VisitStack ==
    ASSUME ScanInv, NEW n \in Node, Visit(n)
    PROVE  /\ Len(stack) \in Nat \ {0} /\ n \in stack[Len(stack)].todo
           /\ n \in Node \ {Root} /\ n \notin visited /\ n \notin missed
           /\ Parent[n] \in visited \cup {Root}
           /\ stack' \in Seq(Opened) /\ Len(stack') = Len(stack)
           /\ \A i \in 1..Len(stack) :
                 stack'[i].dir = stack[i].dir /\ stack'[i].todo = stack[i].todo \ {n}
<1>1. /\ stack \in Seq(Opened) /\ Len(stack) \in Nat \ {0} /\ n \in stack[Len(stack)].todo
      /\ stack' = [stack EXCEPT ![Len(stack)].todo = @ \ {n}]
    BY EmptySeq DEF Visit, Top, ScanInv, StackInv
<1>2. /\ n \in Node \ {Root} /\ n \notin visited /\ n \notin missed
      /\ Parent[n] \in visited \cup {Root}
    BY <1>1 DEF ScanInv, StackInv, VisitInv, Children
<1>3. \A i \in 1..Len(stack) : i # Len(stack) => n \notin stack[i].todo
    BY <1>1 DEF ScanInv, StackInv, Children
<1>4. \A i \in 1..Len(stack) : stack[i] \in Opened
    BY <1>1
<1>5. /\ DOMAIN stack' = 1..Len(stack)
      /\ \A i \in 1..Len(stack) :
            /\ stack'[i] \in Opened /\ stack'[i].dir = stack[i].dir
            /\ stack'[i].todo = stack[i].todo \ {n}
    BY <1>1, <1>3, <1>4 DEF Opened
<1>6. stack' \in Seq(Opened) /\ Len(stack') = Len(stack)
    <2>1. stack' = [i \in DOMAIN stack' |-> stack'[i]]
        BY <1>1
    <2>2. stack' \in [1..Len(stack) -> Opened]
        BY <1>5, <2>1
    <2> QED  BY <1>1, <2>2
<1> QED  BY <1>1, <1>2, <1>5, <1>6

(* A new path may come up in one open directory, and only in its own.      *)
LEMMA CreateStack ==
    ASSUME ScanInv, NEW n \in Node \ {Root}, Create(n)
    PROVE  /\ stack' \in Seq(Opened) /\ Len(stack') = Len(stack) /\ Len(stack) \in Nat
           /\ \A i \in 1..Len(stack) :
                 /\ stack'[i].dir = stack[i].dir
                 /\ \/ stack'[i].todo = stack[i].todo
                    \/ /\ n \in Children(stack[i].dir) \ visited
                       /\ stack'[i].todo = stack[i].todo \cup {n}
<1>1. stack \in Seq(Opened) /\ Len(stack) \in Nat
    BY DEF ScanInv, StackInv
<1>2. CASE UNCHANGED stack
    BY <1>1, <1>2
<1>3. CASE \E i \in 1..Len(stack) :
              /\ n \notin visited /\ stack[i].dir = Parent[n]
              /\ stack' = [stack EXCEPT ![i].todo = @ \cup {n}]
    <2>1. PICK k \in 1..Len(stack) :
              /\ n \in Children(stack[k].dir) \ visited
              /\ stack' = [stack EXCEPT ![k].todo = @ \cup {n}]
        BY <1>3 DEF Children
    <2>2. \A i \in 1..Len(stack) : stack[i] \in Opened
        BY <1>1
    <2>3. /\ DOMAIN stack' = 1..Len(stack)
          /\ \A i \in 1..Len(stack) :
                /\ stack'[i] \in Opened /\ stack'[i].dir = stack[i].dir
                /\ i # k => stack'[i].todo = stack[i].todo
          /\ stack'[k].todo = stack[k].todo \cup {n}
        BY <1>1, <2>1, <2>2 DEF Opened
    <2>4. stack' \in Seq(Opened) /\ Len(stack') = Len(stack)
        <3>1. stack' = [i \in DOMAIN stack' |-> stack'[i]]
            BY <2>1
        <3>2. stack' \in [1..Len(stack) -> Opened]
            BY <2>3, <3>1
        <3> QED  BY <1>1, <3>2
    <2> QED  BY <1>1, <2>1, <2>3, <2>4
<1> QED  BY <1>2, <1>3 DEF Create

(* Opening a directory puts it on top, with entries of its own, or none.   *)
LEMMA OpenStack ==
    ASSUME ScanInv, OpenDir
    PROVE  /\ stack' \in Seq(Opened) /\ Len(stack') = Len(stack) + 1 /\ Len(stack) \in Nat
           /\ \A i \in 1..Len(stack) : stack'[i] = stack[i]
           /\ stack'[Len(stack')].dir = cur
           /\ \/ stack'[Len(stack')].todo = Children(cur) \cap present
              \/ stack'[Len(stack')].todo = {} /\ cur \in silent'
<1>1. /\ cur \in Dirs /\ {} \in SUBSET Node
      /\ Children(cur) \cap present \in SUBSET Node
    BY DEF OpenDir, ScanInv, VisitInv, Children
<1>2. PICK T \in SUBSET Node :
          /\ stack' = Append(stack, [dir |-> cur, todo |-> T])
          /\ T = Children(cur) \cap present \/ (T = {} /\ cur \in silent')
    <2>1. ASSUME NEW U \in SUBSET Node,
                 stack' = Append(stack, [dir |-> cur, todo |-> U]),
                 U = Children(cur) \cap present \/ (U = {} /\ cur \in silent')
          PROVE  \E T \in SUBSET Node :
                    /\ stack' = Append(stack, [dir |-> cur, todo |-> T])
                    /\ T = Children(cur) \cap present \/ (T = {} /\ cur \in silent')
        BY <2>1
    <2>2. \/ stack' = Append(stack, [dir |-> cur, todo |-> Children(cur) \cap present])
          \/ stack' = Append(stack, [dir |-> cur, todo |-> {}]) /\ cur \in silent'
        BY DEF OpenDir
    <2> QED  BY <1>1, <2>1, <2>2
<1> DEFINE e == [dir |-> cur, todo |-> T]
<1>3. e \in Opened /\ e.dir = cur /\ e.todo = T
    BY <1>1 DEF Opened
<1> HIDE DEF e
<1>4. stack \in Seq(Opened) /\ Len(stack) \in Nat
    BY DEF ScanInv, StackInv
<1>5. /\ Append(stack, e) \in Seq(Opened) /\ Len(Append(stack, e)) = Len(stack) + 1
      /\ \A i \in 1..Len(stack) : Append(stack, e)[i] = stack[i]
      /\ Append(stack, e)[Len(stack) + 1] = e
    BY <1>3, <1>4, AppendProperties
<1>6. stack' = Append(stack, e)
    BY <1>2 DEF e
<1> QED  BY <1>2, <1>3, <1>4, <1>5, <1>6

(* A directory is opened once and holds back only entries of its own that  *)
(* have not been returned.                                                 *)
LEMMA StackStep ==
    ASSUME ScanInv, [Next]_vars
    PROVE  StackInv'
<1>1. CASE StartScan
    BY <1>1, ScanConstants DEF StartScan, ProcessEnds, Fresh, NoStats,
        ScanInv, TypeOK, TreeInv, StackInv, VisitInv, Scanning, Opened,
        Children, tree, rows, log
<1>2. CASE OpenDir
    <2>1. /\ stack' \in Seq(Opened) /\ Len(stack') = Len(stack) + 1 /\ Len(stack) \in Nat
          /\ \A i \in 1..Len(stack) : stack'[i] = stack[i]
          /\ stack'[Len(stack')].dir = cur /\ stack'[Len(stack')].todo \subseteq Children(cur)
        BY <1>2, OpenStack
    <2>2. /\ visited' = visited /\ cur \in visited \cup {Root}
          /\ \A i \in 1..Len(stack) : stack[i].dir # cur
          /\ Children(cur) \cap visited = {}
        BY <1>2 DEF OpenDir, ScanInv, VisitInv, Children
    <2>3. \A i \in 1..Len(stack') : i \in 1..Len(stack) \/ i = Len(stack')
        BY <2>1
    <2>4. \A i, j \in 1..Len(stack') : stack'[i].dir = stack'[j].dir => i = j
        <3> SUFFICES ASSUME NEW i \in 1..Len(stack'), NEW j \in 1..Len(stack'),
                            stack'[i].dir = stack'[j].dir
                     PROVE  i = j
            OBVIOUS
        <3>1. CASE i \in 1..Len(stack) /\ j \in 1..Len(stack)
            BY <2>1, <3>1 DEF ScanInv, StackInv
        <3> QED  BY <2>1, <2>2, <2>3, <3>1
    <2> QED  BY <2>1, <2>2, <2>3, <2>4 DEF ScanInv, StackInv
<1>3. CASE OpenDirFails
    BY <1>3, ScanConstants DEF OpenDirFails, Skip, ScanInv, TypeOK, TreeInv,
        StackInv, VisitInv, Scanning, Opened, Children, tree, rows, log
<1>4. ASSUME NEW n \in Node, Visit(n)  PROVE StackInv'
    <2>1. /\ Len(stack) \in Nat /\ visited' = visited \cup {n}
          /\ stack' \in Seq(Opened) /\ Len(stack') = Len(stack)
          /\ \A i \in 1..Len(stack) :
                stack'[i].dir = stack[i].dir /\ stack'[i].todo = stack[i].todo \ {n}
        BY <1>4, VisitStack DEF Visit
    <2> QED  BY <2>1 DEF ScanInv, StackInv
<1>5. CASE IterationThrows
    BY <1>5, ScanConstants DEF IterationThrows, ProcessEnds, Fresh, NoStats,
        ScanInv, TypeOK, TreeInv, StackInv, VisitInv, Scanning, Opened,
        Children, tree, rows, log
<1>6. CASE DirEnds
    <2>1. stack # <<>> /\ stack' = SubSeq(stack, 1, Len(stack) - 1)
        BY <1>6 DEF DirEnds, ScanInv, TreeInv
    <2>2. /\ Len(stack) \in Nat /\ stack' \in Seq(Opened) /\ Len(stack') = Len(stack) - 1
          /\ \A i \in 1..Len(stack') : stack'[i] = stack[i] /\ i \in 1..Len(stack)
        BY <2>1, Pop
    <2>3. /\ visited' = visited
          /\ \A i \in 1..Len(stack) :
                /\ stack[i].todo \subseteq Children(stack[i].dir) \ visited
                /\ stack[i].dir \in visited \cup {Root}
          /\ \A i, j \in 1..Len(stack) : stack[i].dir = stack[j].dir => i = j
        BY <1>6 DEF DirEnds, log, ScanInv, StackInv
    <2>4. \A i, j \in 1..Len(stack') : stack'[i].dir = stack'[j].dir => i = j
        BY <2>2, <2>3
    <2> QED  BY <2>2, <2>3, <2>4 DEF StackInv, Children
<1>7. CASE CollectMetadata
    BY <1>7, ScanConstants DEF CollectMetadata, ScanInv, TypeOK, TreeInv,
        StackInv, VisitInv, Scanning, Opened, Children, tree, rows, log
<1>8. CASE CollectFails
    BY <1>8, ScanConstants DEF CollectFails, Skip, ScanInv, TypeOK, TreeInv,
        StackInv, VisitInv, Scanning, Opened, Children, tree, rows, log
<1>9. CASE UpsertFile
    BY <1>9, ScanConstants DEF UpsertFile, ScanInv, TypeOK, TreeInv,
        StackInv, VisitInv, Scanning, Opened, Children, tree, rows, log
<1>10. CASE UpsertFails
    BY <1>10, ScanConstants DEF UpsertFails, ScanInv, TypeOK, TreeInv,
        StackInv, VisitInv, Scanning, Opened, Children, tree, rows, log
<1>11. CASE Kill
    BY <1>11, ScanConstants DEF Kill, ProcessEnds, Fresh, NoStats, ScanInv,
        TypeOK, TreeInv, StackInv, VisitInv, Scanning, Opened, Children,
        tree, rows, log
<1>12. ASSUME NEW n \in Node \ {Root}, Create(n)  PROVE StackInv'
    <2>1. /\ stack' \in Seq(Opened) /\ Len(stack') = Len(stack) /\ Len(stack) \in Nat
          /\ \A i \in 1..Len(stack) :
                /\ stack'[i].dir = stack[i].dir
                /\ \/ stack'[i].todo = stack[i].todo
                   \/ /\ n \in Children(stack[i].dir) \ visited
                      /\ stack'[i].todo = stack[i].todo \cup {n}
        BY <1>12, CreateStack
    <2>2. visited' = visited
        BY <1>12 DEF Create, log
    <2> QED  BY <2>1, <2>2 DEF ScanInv, StackInv
<1>13. ASSUME NEW n \in Node \ {Root}, Remove(n)  PROVE StackInv'
    BY <1>13, ScanConstants DEF Remove, ScanInv, TypeOK, TreeInv, StackInv,
        VisitInv, Scanning, Opened, Children, tree, rows, log
<1>14. ASSUME NEW f \in File, Resize(f)  PROVE StackInv'
    BY <1>14, ScanConstants DEF Resize, ScanInv, TypeOK, TreeInv, StackInv,
        VisitInv, Scanning, Opened, Children, tree, rows, log
<1>15. CASE UNCHANGED vars
    BY <1>15, ScanConstants DEF vars, ScanInv, TypeOK, TreeInv, StackInv,
        VisitInv, Scanning, Opened, Children, tree, rows, log
<1> QED
    BY <1>1, <1>2, <1>3, <1>4, <1>5, <1>6, <1>7, <1>8, <1>9, <1>10, <1>11,
        <1>12, <1>13, <1>14, <1>15 DEF Next, Scanner, Others

(* The scan goes down the tree: what it returns is new, and lies below what *)
(* it has returned.                                                        *)
LEMMA VisitStep ==
    ASSUME ScanInv, [Next]_vars
    PROVE  VisitInv'
<1>1. CASE StartScan
    BY <1>1, ScanConstants DEF StartScan, ProcessEnds, Fresh, NoStats,
        ScanInv, TypeOK, TreeInv, VisitInv, RecordInv, Scanning, tree, rows,
        log
<1>2. CASE OpenDir
    BY <1>2, ScanConstants DEF OpenDir, ScanInv, TypeOK, TreeInv, VisitInv,
        RecordInv, Scanning, tree, rows, log
<1>3. CASE OpenDirFails
    BY <1>3, ScanConstants DEF OpenDirFails, Skip, ScanInv, TypeOK, TreeInv,
        VisitInv, RecordInv, Scanning, tree, rows, log
<1>4. ASSUME NEW n \in Node, Visit(n)  PROVE VisitInv'
    <2>1. /\ Len(stack) \in Nat /\ Len(stack') = Len(stack) /\ visited' = visited \cup {n}
          /\ n \in Node \ {Root} /\ n \notin visited /\ n \notin missed
          /\ Parent[n] \in visited \cup {Root}
          /\ \A i \in 1..Len(stack) : stack'[i].dir = stack[i].dir
        BY <1>4, VisitStack DEF Visit
    <2>2. \A i \in 1..Len(stack) : stack[i].dir # n
        BY <2>1 DEF ScanInv, StackInv
    <2>3. \A m \in visited \cup {n} : Parent[m] # n
        BY <2>1 DEF ScanInv, VisitInv
    <2> QED  BY <1>4, <2>1, <2>2, <2>3 DEF Visit, Skip, ScanInv, VisitInv, TreeInv
<1>5. CASE IterationThrows
    BY <1>5, ScanConstants DEF IterationThrows, ProcessEnds, Fresh, NoStats,
        ScanInv, TypeOK, TreeInv, VisitInv, RecordInv, Scanning, tree, rows,
        log
<1>6. CASE DirEnds
    <2>1. stack # <<>> /\ phase' # "opendir" /\ UNCHANGED log
        BY <1>6 DEF DirEnds, ScanInv, TreeInv
    <2> QED  BY <2>1 DEF ScanInv, VisitInv, log
<1>7. CASE CollectMetadata
    BY <1>7, ScanConstants DEF CollectMetadata, ScanInv, TypeOK, TreeInv,
        VisitInv, RecordInv, Scanning, tree, rows, log
<1>8. CASE CollectFails
    BY <1>8, ScanConstants DEF CollectFails, Skip, ScanInv, TypeOK, TreeInv,
        VisitInv, RecordInv, Scanning, tree, rows, log
<1>9. CASE UpsertFile
    BY <1>9, ScanConstants DEF UpsertFile, ScanInv, TypeOK, TreeInv,
        VisitInv, RecordInv, Scanning, tree, rows, log
<1>10. CASE UpsertFails
    BY <1>10, ScanConstants DEF UpsertFails, ScanInv, TypeOK, TreeInv,
        VisitInv, RecordInv, Scanning, tree, rows, log
<1>11. CASE Kill
    BY <1>11, ScanConstants DEF Kill, ProcessEnds, Fresh, NoStats, ScanInv,
        TypeOK, TreeInv, VisitInv, RecordInv, Scanning, tree, rows, log
<1>12. ASSUME NEW n \in Node \ {Root}, Create(n)  PROVE VisitInv'
    <2>1. /\ Len(stack') = Len(stack) /\ Len(stack) \in Nat
          /\ \A i \in 1..Len(stack) : stack'[i].dir = stack[i].dir
        BY <1>12, CreateStack
    <2> QED  BY <1>12, <2>1 DEF Create, log, ScanInv, VisitInv
<1>13. ASSUME NEW n \in Node \ {Root}, Remove(n)  PROVE VisitInv'
    BY <1>13, ScanConstants DEF Remove, ScanInv, TypeOK, TreeInv, VisitInv,
        RecordInv, Scanning, tree, rows, log
<1>14. ASSUME NEW f \in File, Resize(f)  PROVE VisitInv'
    BY <1>14, ScanConstants DEF Resize, ScanInv, TypeOK, TreeInv, VisitInv,
        RecordInv, Scanning, tree, rows, log
<1>15. CASE UNCHANGED vars
    BY <1>15, ScanConstants DEF vars, ScanInv, TypeOK, TreeInv, VisitInv,
        RecordInv, Scanning, tree, rows, log
<1> QED
    BY <1>1, <1>2, <1>3, <1>4, <1>5, <1>6, <1>7, <1>8, <1>9, <1>10, <1>11,
        <1>12, <1>13, <1>14, <1>15 DEF Next, Scanner, Others

(* No file gets a second record: one about to be counted has neither a row  *)
(* of this scan nor a refused record.                                      *)
LEMMA RecordStep ==
    ASSUME ScanInv, [Next]_vars
    PROVE  RecordInv'
<1>1. CASE StartScan
    <2>1. /\ rowScan \in [File -> 0..scans] /\ scans \in Nat
          /\ scans' = scans + 1 /\ rowScan' = rowScan /\ lost' = {}
          /\ phase' \in {"opendir", "ended"}
        BY <1>1 DEF StartScan, ProcessEnds, Fresh, rows, ScanInv, TypeOK
    <2>2. \A f \in File : rowScan'[f] # scans'
        BY <2>1
    <2> QED  BY <2>1, <2>2 DEF RecordInv
<1>2. CASE OpenDir
    BY <1>2, ScanConstants DEF OpenDir, ScanInv, TypeOK, TreeInv, VisitInv,
        RecordInv, Scanning, Running, tree, rows, log
<1>3. CASE OpenDirFails
    BY <1>3, ScanConstants DEF OpenDirFails, Skip, ScanInv, TypeOK, TreeInv,
        VisitInv, RecordInv, Scanning, Running, tree, rows, log
<1>4. ASSUME NEW n \in Node, Visit(n)  PROVE RecordInv'
    <2>1. n \notin visited
        BY <1>4, VisitStack
    <2>2. \A r \in lost : r[1] # n
        BY <2>1 DEF ScanInv, RecordInv
    <2>3. Running /\ (n \in File => rowScan[n] # scans)
        BY <1>4, <2>1 DEF Visit, ScanInv, RecordInv, Running, Scanning
    <2>4. UNCHANGED <<rows, scans, lost>> /\ visited' = visited \cup {n}
        BY <1>4 DEF Visit
    <2>5. /\ \A f \in File : rowScan'[f] = scans' => f \in visited'
          /\ \A r \in lost' : r[1] \in visited' /\ rowScan'[r[1]] # scans'
          /\ \A r, q \in lost' : r[1] = q[1] => r = q
        BY <2>3, <2>4 DEF ScanInv, RecordInv, rows
    <2>6. CASE phase' \in {"stat", "upsert"}
        <3>1. cur' = n /\ n \in File /\ missed' = missed
            BY <1>4, <2>6 DEF Visit, File
        <3>2. n \notin missed
            BY <1>4, VisitStack
        <3> QED  BY <2>2, <2>3, <2>4, <2>5, <3>1, <3>2 DEF RecordInv, rows
    <2> QED  BY <2>5, <2>6 DEF RecordInv
<1>5. CASE IterationThrows
    BY <1>5, ScanConstants DEF IterationThrows, ProcessEnds, Fresh, NoStats,
        ScanInv, TypeOK, TreeInv, VisitInv, RecordInv, Scanning, Running,
        tree, rows, log
<1>6. CASE DirEnds
    BY <1>6, ScanConstants DEF DirEnds, Top, ScanInv, TypeOK, TreeInv,
        VisitInv, RecordInv, Scanning, Running, tree, rows, log
<1>7. CASE CollectMetadata
    BY <1>7, ScanConstants DEF CollectMetadata, ScanInv, TypeOK, TreeInv,
        VisitInv, RecordInv, Scanning, Running, tree, rows, log
<1>8. CASE CollectFails
    BY <1>8, ScanConstants DEF CollectFails, Skip, ScanInv, TypeOK, TreeInv,
        VisitInv, RecordInv, Scanning, Running, tree, rows, log
<1>9. CASE UpsertFile
    <2>1. cur \in File /\ cur \in visited /\ \A r \in lost : r[1] # cur
        BY <1>9 DEF UpsertFile, ScanInv, RecordInv
    <2>2. rowScan \in [File -> 0..scans] /\ Running
        BY <1>9 DEF UpsertFile, ScanInv, TypeOK, Running, Scanning
    <2> QED  BY <1>9, <2>1, <2>2 DEF UpsertFile, log, ScanInv, RecordInv
<1>10. CASE UpsertFails
    <2>1. /\ cur \in File /\ cur \in visited /\ rowScan[cur] # scans
          /\ \A r \in lost : r[1] # cur
        BY <1>10 DEF UpsertFails, ScanInv, RecordInv
    <2>2. lost' = lost \cup {<<cur, rec>>} /\ <<cur, rec>>[1] = cur /\ phase' = "next"
        BY <1>10 DEF UpsertFails
    <2>3. UNCHANGED <<rows, scans, visited>> /\ Running
        BY <1>10 DEF UpsertFails, Running, Scanning
    <2> QED  BY <2>1, <2>2, <2>3 DEF rows, ScanInv, RecordInv
<1>11. CASE Kill
    BY <1>11, ScanConstants DEF Kill, ProcessEnds, Fresh, NoStats, ScanInv,
        TypeOK, TreeInv, VisitInv, RecordInv, Scanning, Running, tree, rows,
        log
<1>12. ASSUME NEW n \in Node \ {Root}, Create(n)  PROVE RecordInv'
    BY <1>12, ScanConstants DEF Create, ScanInv, TypeOK, TreeInv, VisitInv,
        RecordInv, Scanning, Running, tree, rows, log
<1>13. ASSUME NEW n \in Node \ {Root}, Remove(n)  PROVE RecordInv'
    BY <1>13, ScanConstants DEF Remove, ScanInv, TypeOK, TreeInv, VisitInv,
        RecordInv, Scanning, Running, tree, rows, log
<1>14. ASSUME NEW f \in File, Resize(f)  PROVE RecordInv'
    BY <1>14, ScanConstants DEF Resize, ScanInv, TypeOK, TreeInv, VisitInv,
        RecordInv, Scanning, Running, tree, rows, log
<1>15. CASE UNCHANGED vars
    BY <1>15, ScanConstants DEF vars, ScanInv, TypeOK, TreeInv, VisitInv,
        RecordInv, Scanning, Running, tree, rows, log
<1> QED
    BY <1>1, <1>2, <1>3, <1>4, <1>5, <1>6, <1>7, <1>8, <1>9, <1>10, <1>11,
        <1>12, <1>13, <1>14, <1>15 DEF Next, Scanner, Others

(* The bytes of a set of records grow by those of the record that is new.  *)
LEMMA BytesAdd ==
    ASSUME NEW S \in SUBSET (File \X (0..MaxSize)), IsFiniteSet(S), IsFiniteSet(Bytes(S)),
           NEW f \in File, NEW s \in 0..MaxSize, <<f, s>> \notin S
    PROVE  /\ IsFiniteSet(Bytes(S \cup {<<f, s>>}))
           /\ Cardinality(Bytes(S \cup {<<f, s>>})) = Cardinality(Bytes(S)) + s
<1> DEFINE r == <<f, s>>
           new == {r} \X (1..s)
<1>1. s \in Nat
    BY ScanConstants
<1>2. IsFiniteSet(new) /\ Cardinality(new) = s
    <2>1. IsFiniteSet({r}) /\ Cardinality({r}) = 1
        BY FS_Singleton
    <2>2. IsFiniteSet(1..s) /\ Cardinality(1..s) = s
        BY <1>1, FS_Interval
    <2>3. IsFiniteSet(new) /\ Cardinality(new) = 1 * s
        BY <2>1, <2>2, FS_Product
    <2> QED  BY <1>1, <2>3
<1>3. Bytes(S \cup {r}) = Bytes(S) \cup new
    <2>1. r[2] = s
        OBVIOUS
    <2>2. {{q} \X (1..q[2]) : q \in S \cup {r}} = {{q} \X (1..q[2]) : q \in S} \cup {new}
        BY <2>1
    <2> QED  BY <2>2 DEF Bytes
<1>4. Bytes(S) \cap new = {}
    BY DEF Bytes
<1>5. Cardinality({}) = 0 /\ Cardinality(Bytes(S)) \in Nat
    BY FS_EmptySet, FS_CardinalityType
<1> HIDE DEF new
<1>6. /\ IsFiniteSet(Bytes(S) \cup new)
      /\ Cardinality(Bytes(S) \cup new)
            = Cardinality(Bytes(S)) + Cardinality(new) - Cardinality(Bytes(S) \cap new)
    BY <1>2, FS_Union
<1>7. Cardinality(Bytes(S) \cap new) = 0
    BY <1>4, <1>5
<1>8. IsFiniteSet(Bytes(S) \cup new) /\ Cardinality(Bytes(S) \cup new) = Cardinality(Bytes(S)) + s
    BY <1>1, <1>2, <1>5, <1>6, <1>7
<1> QED  BY <1>3, <1>8

(* The records of a scan are finitely many, and no more than there are     *)
(* files, for no file has two.                                             *)
LEMMA CountedFinite ==
    ASSUME ScanInv
    PROVE  /\ Counted \in SUBSET (File \X (0..MaxSize))
           /\ IsFiniteSet(File) /\ IsFiniteSet(Counted) /\ IsFiniteSet(Bytes(Counted))
           /\ Cardinality(Counted) \in Nat /\ Cardinality(Bytes(Counted)) \in Nat
           /\ Cardinality(Counted) <= Cardinality(File) /\ Cardinality(File) \in Nat
           /\ \A f \in File : (\A r \in Counted : r[1] # f)
                               => Cardinality(Counted) < Cardinality(File)
<1>1. Counted \in SUBSET (File \X (0..MaxSize))
    BY DEF Counted, Written, ScanInv, TypeOK, RecordInv
<1>2. IsFiniteSet(File)
    BY ScanConstants, FS_Subset DEF File
<1>3. IsFiniteSet(File \X (0..MaxSize))
    <2>1. IsFiniteSet(0..MaxSize)
        BY ScanConstants, FS_Interval
    <2> QED  BY <1>2, <2>1, FS_Product
<1>4. IsFiniteSet(Counted)
    BY <1>1, <1>3, FS_Subset
<1>5. IsFiniteSet(Bytes(Counted))
    <2>1. Bytes(Counted) \in SUBSET ((File \X (0..MaxSize)) \X (1..MaxSize))
        BY <1>1, ScanConstants DEF Bytes
    <2>2. IsFiniteSet(1..MaxSize)
        BY ScanConstants, FS_Interval
    <2>3. IsFiniteSet((File \X (0..MaxSize)) \X (1..MaxSize))
        BY <1>3, <2>2, FS_Product
    <2> QED  BY <2>1, <2>3, FS_Subset
<1>6. \A r, q \in Counted : r[1] = q[1] => r = q
    <2> DEFINE underway == IF phase = "upsert" THEN {<<cur, rec>>} ELSE {}
    <2>1. \A r \in Written : rowScan[r[1]] = scans /\ r = <<r[1], rowSize[r[1]]>>
        BY DEF Written
    <2>2. /\ \A r \in lost : rowScan[r[1]] # scans
          /\ \A r, q \in lost : r[1] = q[1] => r = q
        BY DEF ScanInv, RecordInv
    <2>3. \A r \in underway : /\ r = <<cur, rec>> /\ r[1] = cur /\ rowScan[cur] # scans
                              /\ \A q \in lost : q[1] # cur
        BY DEF ScanInv, RecordInv
    <2> HIDE DEF underway
    <2>4. \A r, q \in Written \cup lost \cup underway : r[1] = q[1] => r = q
        BY <2>1, <2>2, <2>3
    <2> QED  BY <2>4 DEF Counted, underway
<1> DEFINE name == [r \in Counted |-> r[1]]
<1>7. name \in Injection(Counted, File)
    BY <1>1, <1>6 DEF Injection, IsInjective
<1>8. Cardinality(Counted) <= Cardinality(File)
    BY <1>2, <1>7, FS_Injection
<1>9. ASSUME NEW f \in File, \A r \in Counted : r[1] # f
      PROVE  Cardinality(Counted) < Cardinality(File)
    <2>1. name \in Injection(Counted, File \ {f})
        BY <1>1, <1>6, <1>9 DEF Injection, IsInjective
    <2>2. IsFiniteSet(File \ {f}) /\ Cardinality(File \ {f}) = Cardinality(File) - 1
        BY <1>2, FS_RemoveElement
    <2>3. Cardinality(Counted) <= Cardinality(File \ {f})
        BY <2>1, <2>2, FS_Injection
    <2> QED  BY <1>2, <1>4, <2>2, <2>3, FS_CardinalityType
<1> QED  BY <1>1, <1>2, <1>4, <1>5, <1>8, <1>9, FS_CardinalityType

(* The paths skipped, and the directories, are finitely many. *)
LEMMA NodesFinite ==
    ASSUME ScanInv
    PROVE  /\ IsFiniteSet(missed) /\ Cardinality(missed) \in Nat
           /\ Cardinality(missed) <= Cardinality(Node) /\ Cardinality(Node) \in Nat
           /\ IsFiniteSet(visited \cap Dirs) /\ Cardinality(visited \cap Dirs) \in Nat
           /\ Cardinality(visited \cap Dirs) <= Cardinality(Dirs) /\ Cardinality(Dirs) \in Nat
<1>1. missed \in SUBSET Node /\ visited \cap Dirs \in SUBSET Dirs /\ Dirs \in SUBSET Node
    BY ScanConstants DEF ScanInv, VisitInv
<1>2. IsFiniteSet(Node) /\ IsFiniteSet(Dirs)
    BY <1>1, ScanConstants, FS_Subset
<1> QED  BY <1>1, <1>2, FS_Subset, FS_CardinalityType

(* A path is skipped once. *)
LEMMA SkipCounts ==
    ASSUME ScanInv, NEW n \in Node, n \notin missed, Skip(n), Running
    PROVE  /\ stats'.skipped = Cardinality(missed')
           /\ stats'.file_count = stats.file_count /\ stats'.total_bytes = stats.total_bytes
<1>1. Cardinality(missed \cup {n}) = Cardinality(missed) + 1
    BY NodesFinite, FS_AddElement
<1>2. stats.skipped = Cardinality(missed)
    BY DEF ScanInv, StatsMatchRows, Running
<1>3. /\ stats'.skipped = stats.skipped + 1
      /\ stats'.file_count = stats.file_count /\ stats'.total_bytes = stats.total_bytes
    BY DEF Skip, ScanInv, TypeOK
<1> QED  BY <1>1, <1>2, <1>3 DEF Skip

(* A record that is written or refused has been counted before. *)
LEMMA RecordsKept ==
    ASSUME ScanInv, UpsertFile \/ UpsertFails
    PROVE  Counted' = Counted
<1>1. /\ cur \in File /\ rowScan[cur] # scans /\ phase = "upsert" /\ phase' = "next"
      /\ scans' = scans
    BY DEF UpsertFile, UpsertFails, ScanInv, RecordInv
<1>2. Counted = Written \cup lost \cup {<<cur, rec>>} /\ Counted' = Written' \cup lost'
    BY <1>1 DEF Counted
<1>3. CASE UpsertFile
    <2>1. /\ rowScan' = [rowScan EXCEPT ![cur] = scans]
          /\ rowSize' = [rowSize EXCEPT ![cur] = rec]
          /\ lost' = lost
        BY <1>3 DEF UpsertFile, log
    <2>2. DOMAIN rowScan = File /\ DOMAIN rowSize = File
        BY DEF ScanInv, TypeOK
    <2>3. /\ {g \in File : rowScan'[g] = scans'} = {g \in File : rowScan[g] = scans} \cup {cur}
          /\ \A g \in File : rowSize'[g] = IF g = cur THEN rec ELSE rowSize[g]
        BY <1>1, <2>1, <2>2
    <2>4. Written' = Written \cup {<<cur, rec>>}
        BY <1>1, <2>3 DEF Written
    <2> QED  BY <1>2, <2>1, <2>4
<1>4. CASE UpsertFails
    <2>1. Written' = Written /\ lost' = lost \cup {<<cur, rec>>}
        BY <1>4 DEF UpsertFails, rows, Written
    <2> QED  BY <1>2, <2>1
<1> QED  BY <1>3, <1>4

(* Nothing else touches the records of a scan.                             *)
LEMMA RecordsUntouched ==
    ASSUME UNCHANGED <<rows, lost, scans>>, phase # "upsert", phase' # "upsert"
    PROVE  Counted' = Counted
BY DEF Counted, Written, rows

(* Every step keeps the counts those of the records.                       *)
LEMMA StatsStep ==
    ASSUME ScanInv, [Next]_vars
    PROVE  StatsMatchRows'
<1>1. CASE StartScan
    <2> SUFFICES ASSUME Running'
                 PROVE  StatsMatchRows'
        BY DEF StatsMatchRows, Running, Scanning
    <2>1. /\ stats' = NoStats /\ missed' = {} /\ lost' = {} /\ phase' = "opendir"
          /\ scans' = scans + 1 /\ rowScan' = rowScan
        BY <1>1 DEF StartScan, ProcessEnds, Fresh, Running, Scanning, rows
    <2>2. \A f \in File : rowScan'[f] # scans'
        BY <2>1 DEF ScanInv, TypeOK
    <2>3. Counted' = {}
        BY <2>1, <2>2 DEF Counted, Written
    <2>4. Bytes({}) = {}
        BY DEF Bytes
    <2> QED  BY <2>1, <2>3, <2>4, FS_EmptySet DEF StatsMatchRows, NoStats
<1>2. CASE OpenDir
    <2>1. UNCHANGED <<stats, missed, Counted>> /\ (Running' => Running)
        BY <1>2 DEF OpenDir, vars, log, rows, Counted, Written, Running, Scanning
    <2> QED  BY <2>1 DEF StatsMatchRows, ScanInv, Running
<1>3. CASE OpenDirFails
    <2>1. Running /\ cur \in Node /\ cur \notin missed /\ Skip(cur)
        BY <1>3, ScanConstants
        DEF OpenDirFails, Running, Scanning, ScanInv, VisitInv, RecordInv, File
    <2>2. Counted' = Counted
        BY <1>3, RecordsUntouched DEF OpenDirFails, log
    <2> QED  BY <2>1, <2>2, SkipCounts DEF StatsMatchRows, ScanInv, Running
<1>4. ASSUME NEW n \in Node, Visit(n)  PROVE StatsMatchRows'
    <2>1. Running /\ n \notin missed
        BY <1>4, VisitStack DEF Visit, Running, Scanning
    <2>2. Counted' = Counted
        BY <1>4, RecordsUntouched DEF Visit
    <2>3. CASE Skip(n)
        BY <2>1, <2>2, <2>3, SkipCounts DEF StatsMatchRows, ScanInv, Running
    <2>4. CASE ~Skip(n)
        <3>1. /\ missed' = missed /\ stats'.file_count = stats.file_count
              /\ stats'.total_bytes = stats.total_bytes /\ stats'.skipped = stats.skipped
            BY <1>4, <2>4 DEF Visit, ScanInv, TypeOK
        <3> QED  BY <2>1, <2>2, <3>1 DEF StatsMatchRows, ScanInv, Running
    <2> QED  BY <2>3, <2>4
<1>5. CASE IterationThrows
    BY <1>5 DEF IterationThrows, ProcessEnds, Fresh, NoStats,
        StatsMatchRows, Scanning, tree, rows, log
<1>6. CASE DirEnds
    <2>1. UNCHANGED <<stats, missed, Counted>> /\ (Running' => Running)
        BY <1>6 DEF DirEnds, vars, log, rows, Counted, Written, Running, Scanning
    <2> QED  BY <2>1 DEF StatsMatchRows, ScanInv, Running
<1>7. CASE CollectMetadata
    <2> DEFINE r == <<cur, size[cur]>>
    <2>1. /\ cur \in File /\ rowScan[cur] # scans /\ \A q \in lost : q[1] # cur
          /\ size[cur] \in 0..MaxSize /\ phase = "stat" /\ phase' = "upsert"
          /\ rec' = size[cur] /\ cur' = cur /\ UNCHANGED <<rows, scans, lost, missed>>
        BY <1>7 DEF CollectMetadata, log, ScanInv, TypeOK, RecordInv
    <2>2. Written' = Written /\ Counted = Written \cup lost
        BY <2>1 DEF Written, Counted, rows
    <2>3. Counted' = Counted \cup {r}
        BY <2>1, <2>2 DEF Counted
    <2>4. r \notin Counted
        BY <2>1, <2>2 DEF Written
    <2>5. Cardinality(Counted') = Cardinality(Counted) + 1
        BY <2>3, <2>4, CountedFinite, FS_AddElement
    <2>6. Cardinality(Bytes(Counted')) = Cardinality(Bytes(Counted)) + size[cur]
        BY <2>1, <2>3, <2>4, CountedFinite, BytesAdd
    <2>7. /\ stats'.file_count = stats.file_count + 1 /\ stats'.skipped = stats.skipped
          /\ stats'.total_bytes = stats.total_bytes + size[cur]
        BY <1>7 DEF CollectMetadata, ScanInv, TypeOK
    <2> QED  BY <2>1, <2>5, <2>6, <2>7 DEF StatsMatchRows, ScanInv, Scanning
<1>8. CASE CollectFails
    <2>1. Running /\ cur \in Node /\ cur \notin missed /\ Skip(cur)
        BY <1>8, ScanConstants
        DEF CollectFails, Running, Scanning, ScanInv, VisitInv, RecordInv, File
    <2>2. Counted' = Counted
        BY <1>8, RecordsUntouched DEF CollectFails, log
    <2> QED  BY <2>1, <2>2, SkipCounts DEF StatsMatchRows, ScanInv, Running
<1>9. CASE UpsertFile
    <2>1. Running /\ UNCHANGED <<stats, missed>> /\ Counted' = Counted
        BY <1>9, RecordsKept DEF UpsertFile, log, Running, Scanning
    <2> QED  BY <2>1 DEF StatsMatchRows, ScanInv, Running
<1>10. CASE UpsertFails
    <2>1. Running /\ UNCHANGED <<stats, missed>> /\ Counted' = Counted
        BY <1>10, RecordsKept DEF UpsertFails, log, Running, Scanning
    <2> QED  BY <2>1 DEF StatsMatchRows, ScanInv, Running
<1>11. CASE Kill
    BY <1>11 DEF Kill, ProcessEnds, Fresh, NoStats, StatsMatchRows,
        Scanning, tree, rows, log
<1>12. ASSUME NEW n \in Node \ {Root}, Create(n)  PROVE StatsMatchRows'
    <2>1. UNCHANGED <<stats, missed, Counted>> /\ (Running' => Running)
        BY <1>12 DEF Create, vars, log, rows, Counted, Written, Running, Scanning
    <2> QED  BY <2>1 DEF StatsMatchRows, ScanInv, Running
<1>13. ASSUME NEW n \in Node \ {Root}, Remove(n)  PROVE StatsMatchRows'
    <2>1. UNCHANGED <<stats, missed, Counted>> /\ (Running' => Running)
        BY <1>13 DEF Remove, vars, log, rows, Counted, Written, Running, Scanning
    <2> QED  BY <2>1 DEF StatsMatchRows, ScanInv, Running
<1>14. ASSUME NEW f \in File, Resize(f)  PROVE StatsMatchRows'
    <2>1. UNCHANGED <<stats, missed, Counted>> /\ (Running' => Running)
        BY <1>14 DEF Resize, vars, log, rows, Counted, Written, Running, Scanning
    <2> QED  BY <2>1 DEF StatsMatchRows, ScanInv, Running
<1>15. CASE UNCHANGED vars
    <2>1. UNCHANGED <<stats, missed, Counted>> /\ (Running' => Running)
        BY <1>15 DEF vars, vars, log, rows, Counted, Written, Running, Scanning
    <2> QED  BY <2>1 DEF StatsMatchRows, ScanInv, Running
<1> QED
    BY <1>1, <1>2, <1>3, <1>4, <1>5, <1>6, <1>7, <1>8, <1>9, <1>10, <1>11,
        <1>12, <1>13, <1>14, <1>15 DEF Next, Scanner, Others

(* A directory is counted when it is returned, once.                       *)
LEMMA DirsStep ==
    ASSUME ScanInv, [Next]_vars
    PROVE  DirsInv'
<1>1. CASE StartScan
    <2>1. /\ Cardinality(visited' \cap Dirs) \in Nat
        BY ScanConstants, FS_Subset, FS_CardinalityType
    <2>2. stats'.dir_count = 0
        BY <1>1 DEF StartScan, ProcessEnds, NoStats
    <2> QED  BY <2>1, <2>2 DEF DirsInv
<1>2. CASE OpenDir
    BY <1>2 DEF OpenDir, ScanInv, DirsInv, tree, rows, log
<1>3. CASE OpenDirFails
    <2>1. stats'.dir_count = stats.dir_count /\ visited' = visited
        BY <1>3 DEF OpenDirFails, Skip, ScanInv, TypeOK
    <2> QED  BY <2>1 DEF ScanInv, DirsInv
<1>4. ASSUME NEW n \in Node, Visit(n)  PROVE DirsInv'
    <2>1. /\ n \in Node \ {Root} /\ n \notin visited /\ visited' = visited \cup {n}
        BY <1>4, VisitStack DEF Visit
    <2>2. stats.dir_count \in Nat /\ stats.dir_count <= Cardinality(visited \cap Dirs)
        BY DEF ScanInv, DirsInv
    <2>3. CASE n \in Dirs /\ stats'.dir_count = stats.dir_count + 1
        <3>1. visited' \cap Dirs = (visited \cap Dirs) \cup {n}
            BY <2>1, <2>3
        <3>2. Cardinality((visited \cap Dirs) \cup {n}) = Cardinality(visited \cap Dirs) + 1
            BY <2>1, NodesFinite, FS_AddElement
        <3> QED  BY <2>2, <2>3, <3>1, <3>2, NodesFinite DEF DirsInv
    <2>4. CASE stats'.dir_count = stats.dir_count
        <3>1. Cardinality(visited \cap Dirs) <= Cardinality(visited' \cap Dirs)
            <4>1. IsFiniteSet(visited' \cap Dirs)
                BY ScanConstants, FS_Subset
            <4>2. visited \cap Dirs \in SUBSET (visited' \cap Dirs)
                BY <2>1
            <4> QED  BY <4>1, <4>2, FS_Subset
        <3>2. Cardinality(visited' \cap Dirs) \in Nat
            BY ScanConstants, FS_Subset, FS_CardinalityType
        <3> QED  BY <2>2, <2>4, <3>1, <3>2, NodesFinite DEF DirsInv
    <2> QED  BY <1>4, <2>3, <2>4 DEF Visit, Skip, ScanInv, TypeOK
<1>5. CASE IterationThrows
    <2>1. /\ Cardinality(visited' \cap Dirs) \in Nat
        BY ScanConstants, FS_Subset, FS_CardinalityType
    <2>2. stats'.dir_count = 0
        BY <1>5 DEF IterationThrows, ProcessEnds, NoStats
    <2> QED  BY <2>1, <2>2 DEF DirsInv
<1>6. CASE DirEnds
    BY <1>6 DEF DirEnds, Top, ScanInv, DirsInv, tree, rows, log
<1>7. CASE CollectMetadata
    <2>1. stats'.dir_count = stats.dir_count /\ visited' = visited
        BY <1>7 DEF CollectMetadata, log, ScanInv, TypeOK
    <2> QED  BY <2>1 DEF ScanInv, DirsInv
<1>8. CASE CollectFails
    <2>1. stats'.dir_count = stats.dir_count /\ visited' = visited
        BY <1>8 DEF CollectFails, Skip, ScanInv, TypeOK
    <2> QED  BY <2>1 DEF ScanInv, DirsInv
<1>9. CASE UpsertFile
    BY <1>9 DEF UpsertFile, ScanInv, DirsInv, tree, rows, log
<1>10. CASE UpsertFails
    BY <1>10 DEF UpsertFails, ScanInv, DirsInv, tree, rows, log
<1>11. CASE Kill
    <2>1. /\ Cardinality(visited' \cap Dirs) \in Nat
        BY ScanConstants, FS_Subset, FS_CardinalityType
    <2>2. stats'.dir_count = 0
        BY <1>11 DEF Kill, ProcessEnds, NoStats
    <2> QED  BY <2>1, <2>2 DEF DirsInv
<1>12. ASSUME NEW n \in Node \ {Root}, Create(n)  PROVE DirsInv'
    BY <1>12 DEF Create, ScanInv, DirsInv, tree, rows, log
<1>13. ASSUME NEW n \in Node \ {Root}, Remove(n)  PROVE DirsInv'
    BY <1>13 DEF Remove, ScanInv, DirsInv, tree, rows, log
<1>14. ASSUME NEW f \in File, Resize(f)  PROVE DirsInv'
    BY <1>14 DEF Resize, ScanInv, DirsInv, tree, rows, log
<1>15. CASE UNCHANGED vars
    BY <1>15 DEF vars, ScanInv, DirsInv, tree, rows, log
<1> QED
    BY <1>1, <1>2, <1>3, <1>4, <1>5, <1>6, <1>7, <1>8, <1>9, <1>10, <1>11,
        <1>12, <1>13, <1>14, <1>15 DEF Next, Scanner, Others

(* The counts keep within the tree. *)
LEMMA StatsTyped ==
    ASSUME ScanInv, [Next]_vars
    PROVE  stats' \in [file_count : 0..Cardinality(File), dir_count : 0..Cardinality(Dirs),
                       total_bytes : Nat, skipped : 0..Cardinality(Node)]
<1> DEFINE Stats == [file_count : 0..Cardinality(File), dir_count : 0..Cardinality(Dirs),
                     total_bytes : Nat, skipped : 0..Cardinality(Node)]
<1>1. stats \in Stats
    BY DEF ScanInv, TypeOK
<1>2. /\ Cardinality(File) \in Nat /\ Cardinality(Dirs) \in Nat /\ Cardinality(Node) \in Nat
    BY CountedFinite, NodesFinite
<1>3. NoStats \in Stats
    BY <1>2 DEF NoStats
<1>4. stats'.dir_count \in 0..Cardinality(Dirs)
    <2>1. IsFiniteSet(Dirs) /\ visited' \cap Dirs \in SUBSET Dirs
        BY ScanConstants, FS_Subset
    <2>2. /\ Cardinality(visited' \cap Dirs) <= Cardinality(Dirs)
          /\ Cardinality(visited' \cap Dirs) \in Nat
        BY <2>1, FS_Subset, FS_CardinalityType
    <2> QED  BY <1>2, <2>2, DirsStep DEF DirsInv
<1>5. ASSUME NEW n \in Node, n \notin missed, Skip(n), Running
      PROVE  stats' \in Stats
    <2>1. missed' \in SUBSET Node
        <3>1. missed \subseteq Node
            BY ScanConstants DEF ScanInv, VisitInv
        <3> QED  BY <1>5, <3>1 DEF Skip
    <2>2. Cardinality(missed') <= Cardinality(Node) /\ Cardinality(missed') \in Nat
        BY <2>1, ScanConstants, FS_Subset, FS_CardinalityType
    <2>3. stats'.skipped = Cardinality(missed')
        BY <1>5, SkipCounts
    <2> HIDE DEF Stats
    <2>4. stats' = [stats EXCEPT !.skipped = @ + 1] /\ stats.skipped + 1 = stats'.skipped
        BY <1>1, <1>5 DEF Skip, Stats
    <2> QED  BY <1>1, <2>2, <2>3, <2>4 DEF Stats
<1>6. CASE CollectMetadata
    <2>1. /\ cur \in File /\ \A r \in Counted : r[1] # cur
          /\ stats.file_count = Cardinality(Counted) /\ size[cur] \in Nat
        BY <1>6, ScanConstants
        DEF CollectMetadata, ScanInv, TypeOK, RecordInv, StatsMatchRows, Scanning, Counted, Written
    <2>2. Cardinality(Counted) < Cardinality(File) /\ Cardinality(Counted) \in Nat
        BY <2>1, CountedFinite
    <2>3. stats.file_count + 1 \in 0..Cardinality(File) /\ stats.total_bytes + size[cur] \in Nat
        BY <1>1, <1>2, <2>1, <2>2
    <2>4. stats' = [stats EXCEPT !.file_count = @ + 1, !.total_bytes = @ + size[cur]]
        BY <1>6 DEF CollectMetadata
    <2> QED  BY <1>1, <2>3, <2>4
<1>7. CASE stats' \in {stats, NoStats}
    BY <1>1, <1>3, <1>7
<1>8. CASE OpenDirFails
    <2>1. Running /\ cur \in Node /\ cur \notin missed /\ Skip(cur)
        BY <1>8, ScanConstants DEF OpenDirFails, Running, Scanning, ScanInv, VisitInv
    <2> QED  BY <2>1, <1>5
<1>9. CASE CollectFails
    <2>1. Running /\ cur \in Node /\ cur \notin missed /\ Skip(cur)
        BY <1>9 DEF CollectFails, Running, Scanning, ScanInv, RecordInv, File
    <2> QED  BY <2>1, <1>5
<1>10. ASSUME NEW n \in Node, Visit(n)
       PROVE  stats' \in Stats
    <2>1. CASE Skip(n)
        BY <1>5, <1>10, <2>1, VisitStack DEF Visit, Running, Scanning
    <2>2. CASE stats' = [stats EXCEPT !.dir_count = IF n \in Dirs THEN @ + 1 ELSE @]
        BY <1>1, <1>4, <2>2
    <2> QED  BY <1>7, <1>10, <2>1, <2>2 DEF Visit
<1>11. \/ CollectMetadata \/ OpenDirFails \/ CollectFails \/ (\E n \in Node : Visit(n))
       \/ stats' \in {stats, NoStats}
    BY DEF Next, Scanner, Others, vars, StartScan, OpenDir, IterationThrows, DirEnds, UpsertFile,
           UpsertFails, Kill, ProcessEnds, Create, Remove, Resize
<1> QED  BY <1>6, <1>7, <1>8, <1>9, <1>10, <1>11

(* The rest of the type invariant.                                         *)
LEMMA TypeStep ==
    ASSUME ScanInv, [Next]_vars
    PROVE  TypeRest'
<1>0. /\ TypeRest /\ Root \in Node /\ Dirs \subseteq Node /\ File \subseteq Node
      /\ scans \in Nat /\ 0 \in 0..MaxSize
      /\ phase \in {"stat", "upsert"} => cur \in File \cap visited
      /\ phase = "opendir" => cur \in Dirs \cap (visited \cup {Root})
    BY ScanConstants DEF ScanInv, TypeOK, TypeRest, RecordInv, VisitInv, File
<1>1. CASE StartScan
    <2>1. scans' = scans + 1 /\ scans' \in 0..MaxScans
        BY <1>0, <1>1, ScanConstants DEF StartScan
    <2>2. rowScan' \in [File -> 0..scans'] /\ rowSize' \in [File -> 0..MaxSize]
        BY <1>0, <1>1, <2>1 DEF StartScan, rows, TypeRest
    <2> QED  BY <1>0, <1>1, <2>1, <2>2 DEF StartScan, ProcessEnds, Fresh, tree, TypeRest
<1>2. CASE OpenDir
    BY <1>0, <1>2 DEF OpenDir, tree, rows, log, TypeRest
<1>3. CASE OpenDirFails
    BY <1>0, <1>3 DEF OpenDirFails, Skip, tree, rows, TypeRest
<1>4. ASSUME NEW n \in Node, Visit(n)  PROVE TypeRest'
    BY <1>0, <1>4 DEF Visit, Skip, tree, rows, TypeRest
<1>5. CASE IterationThrows
    BY <1>0, <1>5 DEF IterationThrows, ProcessEnds, Fresh, tree, rows, TypeRest
<1>6. CASE DirEnds
    BY <1>0, <1>6 DEF DirEnds, tree, rows, log, TypeRest
<1>7. CASE CollectMetadata
    BY <1>0, <1>7 DEF CollectMetadata, tree, rows, log, TypeRest
<1>8. CASE CollectFails
    BY <1>0, <1>8 DEF CollectFails, Skip, tree, rows, TypeRest
<1>9. CASE UpsertFile
    <2>1. rowScan' \in [File -> 0..scans'] /\ rowSize' \in [File -> 0..MaxSize]
        BY <1>0, <1>9 DEF UpsertFile, TypeRest
    <2> QED  BY <1>0, <1>9, <2>1 DEF UpsertFile, tree, log, TypeRest
<1>10. CASE UpsertFails
    BY <1>0, <1>10 DEF UpsertFails, tree, rows, TypeRest
<1>11. CASE Kill
    BY <1>0, <1>11 DEF Kill, ProcessEnds, Fresh, tree, rows, TypeRest
<1>12. ASSUME NEW n \in Node \ {Root}, Create(n)  PROVE TypeRest'
    BY <1>0, <1>12 DEF Create, rows, log, TypeRest
<1>13. ASSUME NEW n \in Node \ {Root}, Remove(n)  PROVE TypeRest'
    BY <1>0, <1>13 DEF Remove, rows, log, TypeRest
<1>14. ASSUME NEW f \in File, Resize(f)  PROVE TypeRest'
    BY <1>0, <1>14 DEF Resize, rows, log, TypeRest
<1>15. CASE UNCHANGED vars
    BY <1>0, <1>15 DEF vars, tree, rows, log, TypeRest
<1> QED
    BY <1>1, <1>2, <1>3, <1>4, <1>5, <1>6, <1>7, <1>8, <1>9, <1>10, <1>11,
        <1>12, <1>13, <1>14, <1>15 DEF Next, Scanner, Others

(***************************************************************************)
(* Where the paths are that have been there since the scan began           *)
(***************************************************************************)

(* The chain of a path holds the path, and with each of its members the    *)
(* parent; and it is the least set that does.                              *)
LEMMA ChainProperties ==
    ASSUME NEW n \in Node
    PROVE  /\ Chain[n] \subseteq Node /\ n \in Chain[n]
           /\ \A k \in Chain[n] \ {Root} : Parent[k] \in Chain[n]
           /\ \A S \in SUBSET Node : n \in S /\ (\A k \in S \ {Root} : Parent[k] \in S)
                                        => Chain[n] \subseteq S
BY ScanConstants DEF Chain

(* What has been there since the scan began is still there, up to the root.*)
LEMMA HeldPresent ==
    ASSUME ScanInv
    PROVE  /\ Held \subseteq present /\ present \subseteq Node
           /\ \A n \in Held \ {Root} : Parent[n] \in Held
<1>1. /\ present \in SUBSET Node /\ stable \subseteq present
      /\ \A k \in present \ {Root} : Parent[k] \in present
    BY DEF ScanInv, TypeOK, TreeInv
<1>2. \A f \in stable : Chain[f] \subseteq present
    BY <1>1, ChainProperties
<1>3. \A f \in stable : \A n \in Chain[f] \ {Root} : Parent[n] \in Chain[f]
    BY <1>1, ChainProperties
<1> QED  BY <1>1, <1>2, <1>3 DEF Held

(* Fewer files held, fewer paths held. *)
LEMMA HeldShrinks ==
    ASSUME stable' \subseteq stable
    PROVE  Held' \subseteq Held
BY DEF Held

(* A path that stays is reached unless something above it is skipped.      *)
LEMMA WalkStep ==
    ASSUME ScanInv, WalkInv, [Next]_vars
    PROVE  WalkInv'
<1>1. CASE StartScan
    <2>1. CASE ProcessEnds
        BY <2>1 DEF ProcessEnds, WalkInv, Held
    <2>2. CASE phase' = "opendir" /\ UNCHANGED cur /\ Fresh
        <3>1. cur' = Root /\ visited' = {}
            BY <1>1, <2>2 DEF StartScan, ScanInv, TreeInv, Scanning, Fresh
        <3> QED  BY <2>2, <3>1 DEF WalkInv, Reached
    <2> QED  BY <1>1, <2>1, <2>2 DEF StartScan
<1>2. CASE OpenDir
    <2>1. /\ Len(stack') = Len(stack) + 1 /\ Len(stack) \in Nat
          /\ \A i \in 1..Len(stack) : stack'[i] = stack[i]
          /\ \/ stack'[Len(stack')].todo = Children(cur) \cap present
             \/ stack'[Len(stack')].todo = {} /\ cur \in silent'
        BY <1>2, OpenStack
    <2>2. /\ phase = "opendir" /\ phase' = "next" /\ silent \subseteq silent'
          /\ UNCHANGED <<visited, missed, lost, stable, rows, scans>>
        BY <1>2 DEF OpenDir
    <2>3. Held' = Held /\ Held \subseteq present /\ present \subseteq Node
        BY <2>2, HeldPresent DEF Held
    <2>4. ASSUME NEW n \in Held \ {Root}, Reached(n)
          PROVE  Reached(n)'
        <3>1. CASE cur = Parent[n]
            <4>1. CASE cur \in silent'
                BY <3>1, <4>1 DEF Reached
            <4>2. CASE stack'[Len(stack')].todo = Children(cur) \cap present
                <5>1. n \in stack'[Len(stack')].todo /\ Len(stack') \in 1..Len(stack')
                    BY <2>1, <2>3, <3>1, <4>2 DEF Children
                <5> QED  BY <5>1 DEF Reached
            <4> QED  BY <2>1, <4>1, <4>2
        <3>2. CASE \E i \in 1..Len(stack) : n \in stack[i].todo
            BY <2>1, <3>2 DEF Reached
        <3> QED  BY <2>2, <2>4, <3>1, <3>2 DEF Reached
    <2> QED  BY <2>2, <2>3, <2>4 DEF WalkInv, Recorded, rows
<1>3. CASE OpenDirFails
    <2>1. /\ missed' = missed \cup {cur} /\ phase = "opendir" /\ phase' \notin {"stat", "upsert"}
          /\ UNCHANGED <<stack, visited, silent, lost, stable, rows, scans>>
        BY <1>3 DEF OpenDirFails, Skip
    <2> QED  BY <2>1 DEF WalkInv, Held, Reached, Recorded, rows
<1>4. ASSUME NEW n \in Node, Visit(n)  PROVE WalkInv'
    <2>1. /\ Len(stack) \in Nat /\ Len(stack') = Len(stack) /\ visited' = visited \cup {n}
          /\ \A i \in 1..Len(stack) : stack'[i].todo = stack[i].todo \ {n}
        BY <1>4, VisitStack DEF Visit
    <2>2. /\ phase = "next" /\ missed \subseteq missed'
          /\ UNCHANGED <<silent, lost, stable, rows, scans>>
        BY <1>4 DEF Visit, Skip
    <2>3. Held' = Held /\ Held \subseteq present /\ \A k \in Held \ {Root} : Parent[k] \in Held
        BY <2>2, HeldPresent DEF Held
    <2>4. ASSUME NEW k \in Held \ {Root}, Reached(k)
          PROVE  Reached(k)'
        <3>1. CASE Parent[k] = n /\ Parent[k] \notin visited
            <4>1. n \in present \cap Dirs /\ n \notin Links
                BY <2>3, <3>1, ScanConstants DEF ScanInv, TypeOK
            <4>2. phase' = "opendir" /\ cur' = n
                BY <1>4, <4>1 DEF Visit
            <4> QED  BY <3>1, <4>2 DEF Reached
        <3> QED  BY <2>1, <2>2, <2>4, <3>1 DEF Reached
    <2>5. ASSUME NEW f \in stable, f \in visited' 
          PROVE  Recorded(f)'
        <3>1. CASE f = n
            <4>1. f \in present \cap File
                BY DEF ScanInv, TypeOK
            <4>2. phase' = "stat" /\ cur' = n
                BY <1>4, <3>1, <4>1 DEF Visit, File
            <4> QED  BY <3>1, <4>2 DEF Recorded
        <3>2. CASE f \in visited /\ Recorded(f)
            BY <2>2, <3>2 DEF Recorded, rows
        <3> QED  BY <2>1, <2>5, <3>1, <3>2 DEF WalkInv
    <2> QED  BY <2>2, <2>3, <2>4, <2>5 DEF WalkInv
<1>5. CASE IterationThrows
    BY <1>5 DEF IterationThrows, ProcessEnds, WalkInv, Held
<1>6. CASE DirEnds
    <2>1. stack # <<>> /\ stack' = SubSeq(stack, 1, Len(stack) - 1)
        BY <1>6 DEF DirEnds, ScanInv, TreeInv
    <2>2. /\ Len(stack) \in Nat \ {0} /\ Len(stack') = Len(stack) - 1
          /\ \A i \in 1..Len(stack') : stack'[i] = stack[i]
        BY <2>1, Pop
    <2>3. /\ stack[Len(stack)].todo = {} /\ phase = "next"
          /\ phase' \notin {"opendir", "stat", "upsert"}
          /\ UNCHANGED <<visited, missed, silent, lost, stable, rows, scans>>
        BY <1>6 DEF DirEnds, Top, log
    <2>4. ASSUME NEW i \in 1..Len(stack), NEW n \in stack[i].todo
          PROVE  i \in 1..Len(stack') /\ n \in stack'[i].todo
        BY <2>2, <2>3, <2>4
    <2> QED  BY <2>3, <2>4 DEF WalkInv, Held, Reached, Recorded, rows
<1>7. CASE CollectMetadata
    BY <1>7 DEF CollectMetadata, WalkInv, Held, Reached, Recorded, rows, log
<1>8. CASE CollectFails
    <2>1. /\ missed' = missed \cup {cur} /\ phase = "stat" /\ phase' = "next"
          /\ UNCHANGED <<stack, visited, silent, lost, stable, rows, scans>>
        BY <1>8 DEF CollectFails, Skip
    <2> QED  BY <2>1 DEF WalkInv, Held, Reached, Recorded, rows
<1>9. CASE UpsertFile
    <2>1. /\ cur \in File /\ DOMAIN rowScan = File
          /\ rowScan' = [rowScan EXCEPT ![cur] = scans] /\ phase = "upsert" /\ phase' = "next"
          /\ UNCHANGED <<stack, visited, missed, silent, lost, stable, scans>>
        BY <1>9 DEF UpsertFile, log, ScanInv, TypeOK, RecordInv
    <2>2. ASSUME NEW f \in stable \cap visited
          PROVE  Recorded(f)'
        <3>1. Recorded(f) /\ f \in File
            BY DEF WalkInv, ScanInv, TypeOK
        <3> QED  BY <2>1, <3>1 DEF Recorded
    <2> QED  BY <2>1, <2>2 DEF WalkInv, Held, Reached
<1>10. CASE UpsertFails
    <2>1. /\ lost' = lost \cup {<<cur, rec>>} /\ rec \in 0..MaxSize
          /\ phase = "upsert" /\ phase' = "next"
          /\ UNCHANGED <<stack, visited, missed, silent, stable, rows, scans>>
        BY <1>10 DEF UpsertFails, ScanInv, TypeOK
    <2>2. ASSUME NEW f \in stable \cap visited
          PROVE  Recorded(f)'
        <3>1. Recorded(f)
            BY DEF WalkInv
        <3> QED  BY <2>1, <3>1 DEF Recorded, rows
    <2> QED  BY <2>1, <2>2 DEF WalkInv, Held, Reached
<1>11. CASE Kill
    BY <1>11 DEF Kill, ProcessEnds, WalkInv, Held
<1>12. ASSUME NEW n \in Node \ {Root}, Create(n)  PROVE WalkInv'
    <2>1. /\ Len(stack') = Len(stack)
          /\ \A i \in 1..Len(stack) : stack[i].todo \subseteq stack'[i].todo
        BY <1>12, CreateStack
    <2>2. UNCHANGED <<phase, cur, log, stable, rows, scans>>
        BY <1>12 DEF Create
    <2> QED  BY <2>1, <2>2 DEF WalkInv, Held, Reached, Recorded, rows, log
<1>13. ASSUME NEW n \in Node \ {Root}, Remove(n)  PROVE WalkInv'
    <2>1. Held' \subseteq Held /\ stable' \subseteq stable
        BY <1>13, HeldShrinks DEF Remove
    <2> QED  BY <1>13, <2>1 DEF Remove, WalkInv, Reached, Recorded, rows, log
<1>14. ASSUME NEW f \in File, Resize(f)  PROVE WalkInv'
    BY <1>14 DEF Resize, WalkInv, Held, Reached, Recorded, rows, log
<1>15. CASE UNCHANGED vars
    BY <1>15 DEF vars, WalkInv, Held, Reached, Recorded, rows, log
<1> QED
    BY <1>1, <1>2, <1>3, <1>4, <1>5, <1>6, <1>7, <1>8, <1>9, <1>10, <1>11,
        <1>12, <1>13, <1>14, <1>15 DEF Next, Scanner, Others

(***************************************************************************)
(* The theorems                                                            *)
(***************************************************************************)

(* The invariant holds before the first scan... *)
LEMMA ScanInit ==
    ASSUME Init
    PROVE  ScanInv /\ WalkInv
<1>1. TypeOK
    <2>1. Root \in Node
        BY ScanConstants
    <2>2. IsFiniteSet(File) /\ IsFiniteSet(Dirs)
        BY ScanConstants, FS_Subset DEF File
    <2>3. Cardinality(File) \in Nat /\ Cardinality(Dirs) \in Nat /\ Cardinality(Node) \in Nat
        BY <2>2, ScanConstants, FS_CardinalityType
    <2> QED  BY <2>1, <2>3, ScanConstants DEF Init, TypeOK, NoStats
<1>2. TreeInv
    BY ScanConstants DEF Init, TreeInv
<1>3. StackInv /\ VisitInv
    BY DEF Init, StackInv, VisitInv
<1>4. RecordInv
    BY DEF Init, RecordInv, Running, Scanning
<1>5. DirsInv
    <2>1. Cardinality(visited \cap Dirs) = 0
        BY FS_EmptySet DEF Init
    <2> QED  BY <2>1 DEF Init, DirsInv, NoStats
<1>6. StatsMatchRows
    BY DEF Init, StatsMatchRows, Scanning
<1>7. WalkInv
    BY DEF Init, WalkInv, Held
<1> QED  BY <1>1, <1>2, <1>3, <1>4, <1>5, <1>6, <1>7 DEF ScanInv

(* ... and after every step. *)
LEMMA ScanStep ==
    ASSUME ScanInv, WalkInv, [Next]_vars
    PROVE  (ScanInv /\ WalkInv)'
<1>1. TypeOK'
    <2>1. TypeRest' /\ StackInv'
        BY TypeStep, StackStep
    <2>2. \A i \in 1..Len(stack') :
              stack'[i].dir \in Dirs /\ stack'[i].todo \subseteq Node \ visited'
        <3>1. ASSUME NEW i \in 1..Len(stack')
              PROVE  stack'[i].dir \in Dirs /\ stack'[i].todo \subseteq Node \ visited'
            <4>1. stack'[i] \in Opened
                BY <2>1, ElementOfSeq DEF StackInv
            <4>2. stack'[i].dir \in Dirs
                BY <4>1 DEF Opened
            <4> QED  BY <2>1, <4>2 DEF StackInv, Children
        <3> QED  BY <3>1
    <2> QED  BY <2>1, <2>2, StatsTyped DEF TypeOK, TypeRest
<1>2. TreeInv' /\ StackInv' /\ VisitInv' /\ RecordInv'
    BY TreeStep, StackStep, VisitStep, RecordStep
<1>3. DirsInv' /\ StatsMatchRows'
    BY DirsStep, StatsStep
<1> QED  BY <1>1, <1>2, <1>3, WalkStep DEF ScanInv

(* The inductive invariant of the scanner. *)
THEOREM ScanInvariant == Spec => [](ScanInv /\ WalkInv)
<1>1. Init => ScanInv /\ WalkInv
    BY ScanInit
<1>2. ScanInv /\ WalkInv /\ [Next]_vars => (ScanInv /\ WalkInv)'
    BY ScanStep
<1> QED  BY <1>1, <1>2, PTL DEF Spec

(* Type correctness of the scanner, whatever the tree and the failures.    *)
THEOREM ScanTypeOK == Spec => []TypeOK
<1>1. ScanInv => TypeOK
    BY DEF ScanInv
<1> QED  BY ScanInvariant, <1>1, PTL

(* At any time the counts of the scan are those of the rows it wrote and   *)
(* of the records the store refused, for any tree and sizes of any range.  *)
THEOREM ScanStatsMatchRows == Spec => []StatsMatchRows
<1>1. ScanInv => StatsMatchRows
    BY DEF ScanInv
<1> QED  BY ScanInvariant, <1>1, PTL

(* When the scan is done, a file that has been there all along has been    *)
(* returned, unless a path above it was skipped or looked empty: otherwise *)
(* the paths above it that have not been returned would be a set closed    *)
(* under parenthood, which a tree below Root does not have.                *)
LEMMA DoneReached ==
    ASSUME ScanInv, WalkInv, phase = "done", NEW f \in stable,
           Chain[f] \cap (missed \cup silent) = {}
    PROVE  f \in visited
<1> DEFINE unseen == Chain[f] \ (visited \cup {Root})
<1>1. /\ f \in Node \ {Root} /\ stack = <<>>
    BY ScanConstants DEF ScanInv, TypeOK, TreeInv, File
<1>2. /\ Chain[f] \subseteq Node /\ f \in Chain[f]
      /\ \A k \in Chain[f] \ {Root} : Parent[k] \in Chain[f]
    BY <1>1, ChainProperties
<1>3. Chain[f] \subseteq Held
    BY DEF Held
<1>4. ASSUME NEW n \in unseen
      PROVE  Parent[n] \in unseen
    <2>1. Reached(n) /\ n \notin visited /\ Parent[n] \in Chain[f]
        BY <1>2, <1>3 DEF WalkInv
    <2>2. Parent[n] \notin missed \cup silent
        BY <2>1
    <2>3. ~ \E i \in 1..Len(stack) : n \in stack[i].todo
        BY <1>1
    <2> QED  BY <2>1, <2>2, <2>3 DEF Reached
<1>5. unseen \in SUBSET (Node \ {Root})
    BY <1>2
<1>6. unseen = {}
    BY <1>4, <1>5, ScanConstants
<1> QED  BY <1>1, <1>2, <1>6

(* A scan that returns accounts for every file that was there all along,   *)
(* in any tree and through any changes and failures (ScanDir, UpsertFile). *)
THEOREM ScanFilesAccounted == Spec => []FilesAccounted
<1>1. ASSUME ScanInv, WalkInv
      PROVE  FilesAccounted
    <2> SUFFICES ASSUME phase = "done", NEW f \in stable
                 PROVE  \/ rowScan[f] = scans
                        \/ \E s \in 0..MaxSize : <<f, s>> \in lost
                        \/ Chain[f] \cap (missed \cup silent) # {}
        BY DEF FilesAccounted
    <2>1. CASE f \in visited
        <3>1. Recorded(f) /\ f \in Node
            BY <1>1, <2>1 DEF WalkInv, ScanInv, TypeOK
        <3>2. f \in Chain[f]
            BY <3>1, ChainProperties
        <3> QED  BY <3>1, <3>2 DEF Recorded
    <2>2. CASE f \notin visited
        BY <1>1, <2>2, DoneReached
    <2> QED  BY <2>1, <2>2
<1> QED  BY ScanInvariant, <1>1, PTL

(***************************************************************************)
(* Progress                                                                *)
(***************************************************************************)

(* The way of one entry through the scanner. *)
Stage(where) == CASE where \in {"opendir", "stat"} -> 0
                  [] where = "upsert" -> 1
                  [] where = "next"   -> 2
                  [] OTHER            -> 3

(* What is compared first: the entries returned, where the one at hand     *)
(* stands, the directories that are open.                                  *)
Further ==
    \/ ~Scanning'
    \/ visited \subseteq visited' /\ visited # visited'
    \/ visited' = visited /\ Stage(phase') > Stage(phase)
    \/ /\ visited' = visited /\ phase' = "next" /\ phase = "next"
       /\ Len(stack') < Len(stack)

(* Each step of the scanner brings the scan on: no entry is returned       *)
(* twice, none is worked on for ever.  Others who create entries in open   *)
(* directories, remove or resize them take nothing of that back, and with  *)
(* finitely many paths every scan ends (ScanDir).                          *)
THEOREM ScanProgress ==
    Spec => [][/\ Scanner => Further
               /\ \/ ~Scanning \/ ~Scanning' \/ Scanner
                  \/ UNCHANGED <<visited, phase>> /\ Len(stack') = Len(stack)]_vars
<1> DEFINE Move ==
        /\ Scanner => Further
        /\ \/ ~Scanning \/ ~Scanning' \/ Scanner
           \/ UNCHANGED <<visited, phase>> /\ Len(stack') = Len(stack)
<1>1. ASSUME OpenDir \/ OpenDirFails \/ CollectMetadata \/ CollectFails \/ UpsertFile \/ UpsertFails
      PROVE  Further
    <2>1. /\ visited' = visited
          /\ \/ phase \in {"opendir", "stat", "upsert"} /\ phase' \in {"next", "done"}
             \/ phase = "stat" /\ phase' = "upsert"
        BY <1>1 DEF OpenDir, OpenDirFails, CollectMetadata, CollectFails, UpsertFile, UpsertFails,
                    log
    <2>2. Stage(phase') > Stage(phase)
        BY <2>1 DEF Stage
    <2> QED  BY <2>1, <2>2 DEF Further
<1>2. ASSUME ScanInv, NEW n \in Node, Visit(n) PROVE Further
    <2>1. stack \in Seq(Opened) /\ stack # <<>> /\ n \in Top.todo
        BY <1>2 DEF Visit, ScanInv, StackInv
    <2>2. Len(stack) \in 1..Len(stack)
        BY <2>1, EmptySeq, LenProperties
    <2>3. n \notin visited
        BY <1>2, <2>1, <2>2 DEF Top, ScanInv, StackInv
    <2>4. visited' = visited \cup {n}
        BY <1>2 DEF Visit
    <2> QED  BY <2>3, <2>4 DEF Further
<1>3. ASSUME ScanInv, DirEnds PROVE Further
    <2>1. /\ phase = "next" /\ phase' \in {"done", "next"} /\ visited' = visited
          /\ stack' = SubSeq(stack, 1, Len(stack) - 1)
        BY <1>3 DEF DirEnds, log
    <2>2. stack \in Seq(Opened) /\ stack # <<>>
        BY <1>3, <2>1 DEF ScanInv, StackInv, TreeInv
    <2>3. Len(stack') < Len(stack)
        BY <2>1, <2>2, Pop
    <2>4. CASE phase' = "done"
        BY <2>4 DEF Further, Scanning
    <2> QED  BY <2>1, <2>3, <2>4 DEF Further
<1>4. ASSUME IterationThrows \/ Kill PROVE ~Scanning'
    BY <1>4 DEF IterationThrows, Kill, ProcessEnds, Scanning
<1>5. ASSUME StartScan PROVE ~Scanning
    BY <1>5 DEF StartScan
<1>6. ASSUME ScanInv, (\E n \in Node \ {Root} : Create(n) \/ Remove(n)) \/ \E f \in File : Resize(f)
      PROVE  UNCHANGED <<visited, phase>> /\ Len(stack') = Len(stack)
    <2>1. ASSUME NEW n \in Node \ {Root}, Create(n)
          PROVE  UNCHANGED <<visited, phase>> /\ Len(stack') = Len(stack)
        <3>1. visited' = visited /\ phase' = phase
            BY <2>1 DEF Create, log
        <3>2. stack \in Seq(Opened)
            BY <1>6 DEF ScanInv, StackInv
        <3>3. \/ stack' = stack
              \/ \E i \in 1..Len(stack) : stack' = [stack EXCEPT ![i].todo = @ \cup {n}]
            BY <2>1 DEF Create
        <3>4. DOMAIN stack' = DOMAIN stack
            BY <3>3
        <3>5. stack' \in Seq(Opened)
            BY <1>6, <2>1, CreateStack
        <3>6. Len(stack') = Len(stack)
            BY <3>2, <3>4, <3>5, LenProperties
        <3> QED  BY <3>1, <3>6
    <2>2. ASSUME NEW n \in Node, Remove(n)
          PROVE  UNCHANGED <<visited, phase, stack>>
        BY <2>2 DEF Remove, log
    <2>3. ASSUME NEW f \in File, Resize(f)
          PROVE  UNCHANGED <<visited, phase, stack>>
        BY <2>3 DEF Resize, log
    <2> QED  BY <1>6, <2>1, <2>2, <2>3
<1>7. ScanInv /\ [Next]_vars => [Move]_vars
    <2>1. ScanInv /\ Scanner => Further
        BY <1>1, <1>2, <1>3, <1>4 DEF Scanner, Further
    <2>2. ScanInv /\ Next => Move
        BY <1>4, <1>5, <1>6, <2>1 DEF Next, Others
    <2> QED  BY <2>2
<1>8. Spec => [][Move]_vars
    <2> HIDE DEF Move
    <2> QED  BY ScanInvariant, <1>7, PTL DEF Spec
<1> QED  BY <1>8

==============================================================================
