--------------------------- MODULE RotAnalysisProofs ---------------------------
(***************************************************************************)
(* Proofs about the ROT analysis, for any paths, any number of scans that  *)
(* run at once, any sizes and times: no file that is unused since the      *)
(* cutoff is left out for the age its row gives, and what was used and is  *)
(* suggested all the same was used after the status in its row was read.   *)
(***************************************************************************)
EXTENDS RotAnalysis, FiniteSetTheorems, TLAPS

(* What the status of path p, read at `seen`, says of the access times is  *)
(* not after the file's own in `fs`, and is the file's own unless that is  *)
(* from after the reading, or is one of those that are as good as none.    *)
(* Nothing of the kind holds of the time of the scan, which is read later. *)
Sound(p, times, seen, fs, now) ==
    /\ seen \in Int /\ seen <= now
    /\ \A t \in times : t \in Int /\ t <= now /\ (p \in Untimed => t = Unset)
    /\ p \in DOMAIN fs =>
          /\ \A t \in times : t <= fs[p].accessed
          /\ \/ fs[p].accessed \in times \cup {Unset, 0}
             \/ fs[p].accessed >= seen

FilesInv ==
    /\ clock \in Int /\ clock >= Start
    /\ \A p \in DOMAIN files : /\ files[p].accessed \in Int /\ files[p].accessed <= clock
                               /\ p \in Untimed => files[p].accessed = Unset

RecordsInv ==
    /\ DOMAIN rec = Scanner
    /\ \A s \in Scanner : \A p \in DOMAIN rec[s] :
           /\ DOMAIN rec[s][p] = {"size", "accessed", "scanned", "seen"}
           /\ Sound(p, {rec[s][p].accessed}, rec[s][p].seen, files, clock)
    /\ \A p \in DOMAIN rows : Sound(p, rows[p].accessed, rows[p].seen, files, clock)

StaleInv ==
    /\ cutoff \in Int /\ (phase = "idle" => stale = Empty)
    /\ phase # "idle" => cutoff > 0
    /\ \A p \in DOMAIN stale :
           /\ Sound(p, stale[p].accessed, stale[p].seen, files, clock)
           /\ IsStale(stale[p])

IInv == FilesInv /\ RecordsInv /\ StaleInv

(* There are no rows, no records and no report. *)
LEMMA InitIInv == Init => IInv
<1> SUFFICES ASSUME Init PROVE IInv
    OBVIOUS
<1>1. FilesInv
    <2>1. clock = Start /\ Start \in Int /\ DOMAIN files = Path
        BY RotConstants DEF Init
    <2>2. ASSUME NEW p \in Path
          PROVE  /\ files[p].accessed \in Int /\ files[p].accessed <= Start
                 /\ p \in Untimed => files[p].accessed = Unset
        <3>1. files[p].accessed \in {Unset} \cup 0..Start
            BY DEF Init
        <3> QED  BY <3>1, <2>1, RotConstants DEF Init, Unset
    <2> QED  BY <2>1, <2>2 DEF FilesInv
<1>2. RecordsInv
    BY DEF Init, RecordsInv, Empty
<1>3. StaleInv
    BY DEF Init, StaleInv, Empty
<1> QED  BY <1>1, <1>2, <1>3 DEF IInv

(* What happens to the files and the clock. *)
WorldStep == Tick \/ \E p \in Path : Use(p) \/ Remove(p)

(* The files are used in the present, so that a record stays sound.        *)
LEMMA SoundStays ==
    ASSUME FilesInv, WorldStep \/ UNCHANGED <<files, clock>>
    PROVE  /\ FilesInv'
           /\ \A p, times, seen :
                  Sound(p, times, seen, files, clock)
                      => Sound(p, times, seen, files', clock')
<1>1. CASE UNCHANGED <<files, clock>>
    BY <1>1 DEF FilesInv
<1>2. CASE Tick
    <2>1. clock' = clock + 1 /\ files' = files /\ clock \in Int
        BY <1>2 DEF Tick, FilesInv
    <2> QED  BY <2>1, RotConstants DEF FilesInv, Sound
<1>3. ASSUME NEW q \in Path, Remove(q)
      PROVE  /\ FilesInv'
             /\ \A p, times, seen :
                    Sound(p, times, seen, files, clock)
                        => Sound(p, times, seen, files', clock')
    <2>1. /\ clock' = clock /\ DOMAIN files' = DOMAIN files \ {q}
          /\ \A p \in DOMAIN files' : files'[p] = files[p]
        BY <1>3 DEF Remove, Without
    <2> QED  BY <2>1 DEF FilesInv, Sound
<1>4. ASSUME NEW q \in Path, Use(q)
      PROVE  /\ FilesInv'
             /\ \A p, times, seen :
                    Sound(p, times, seen, files, clock)
                        => Sound(p, times, seen, files', clock')
    <2>1. PICK s \in Sizes,
               t \in {Present(q)} \cup {files[p].accessed : p \in DOMAIN files \cap {q}} :
             files' = Put(files, q, [size |-> s, accessed |-> t])
        BY <1>4 DEF Use
    <2>2. /\ clock' = clock /\ DOMAIN files' = DOMAIN files \cup {q}
          /\ files'[q].accessed = t
          /\ \A p \in DOMAIN files : p # q => files'[p] = files[p]
        BY <1>4, <2>1 DEF Use, Put
    <2>3. \/ t = clock /\ q \notin Untimed
          \/ t = Unset /\ q \in Untimed
          \/ q \in DOMAIN files /\ t = files[q].accessed
        BY <2>1 DEF Present
    <2>4. t \in Int /\ t <= clock /\ (q \in Untimed => t = Unset)
        BY <2>3, RotConstants DEF FilesInv, Unset
    <2>5. FilesInv'
        BY <2>2, <2>4 DEF FilesInv
    <2>6. ASSUME NEW p, NEW times, NEW seen, Sound(p, times, seen, files, clock)
          PROVE  Sound(p, times, seen, files', clock')
        <3>1. CASE p # q
            BY <2>2, <2>6, <3>1 DEF Sound
        <3>2. CASE p = q
            <4>1. \A x \in times : x <= t
                BY <2>3, <2>6, <3>2, RotConstants DEF Sound, Unset
            <4>2. t \in times \cup {Unset, 0} \/ t >= seen
                BY <2>3, <2>6, <3>2 DEF Sound
            <4> QED  BY <2>2, <2>6, <3>2, <4>1, <4>2 DEF Sound
        <3> QED  BY <3>1, <3>2
    <2> QED  BY <2>5, <2>6
<1> QED  BY <1>1, <1>2, <1>3, <1>4 DEF WorldStep

(* The files move on, and everything that is written about them stays true.*)
LEMMA WorldKeepsIInv ==
    ASSUME IInv, WorldStep
    PROVE  IInv'
<1>1. UNCHANGED <<rows, rec, phase, cutoff, stale>>
    BY DEF WorldStep, Tick, Use, Remove
<1>2. /\ FilesInv'
      /\ \A p, times, seen :
             Sound(p, times, seen, files, clock) => Sound(p, times, seen, files', clock')
    BY SoundStays DEF IInv
<1>3. RecordsInv'
    BY <1>1, <1>2 DEF IInv, RecordsInv
<1>4. StaleInv'
    BY <1>1, <1>2 DEF IInv, StaleInv, IsStale
<1> QED  BY <1>2, <1>3, <1>4 DEF IInv

(* A record is true of the file at the moment its status is read           *)
(* (ReadStatus).                                                           *)
LEMMA ReadKeepsIInv ==
    ASSUME IInv, NEW s \in Scanner, NEW p \in Path, ReadStatus(s, p)
    PROVE  IInv'
<1>1. /\ UNCHANGED <<clock, files, rows, phase, cutoff, stale>> /\ p \in DOMAIN files
      /\ rec' = [rec EXCEPT ![s] = Put(Empty, p,
                   [size |-> files[p].size, accessed |-> files[p].accessed,
                    scanned |-> 0, seen |-> clock])]
    BY DEF ReadStatus
<1>2. /\ DOMAIN rec' = Scanner /\ \A r \in Scanner \ {s} : rec'[r] = rec[r]
      /\ DOMAIN rec'[s] = {p} /\ rec'[s][p].accessed = files[p].accessed
      /\ rec'[s][p].seen = clock
      /\ DOMAIN rec'[s][p] = {"size", "accessed", "scanned", "seen"}
    BY <1>1 DEF IInv, RecordsInv, Put, Empty
<1>3. Sound(p, {files[p].accessed}, clock, files, clock)
    BY <1>1 DEF IInv, FilesInv, Sound
<1>4. RecordsInv'
    <2>1. /\ DOMAIN rec'[s][p] = {"size", "accessed", "scanned", "seen"}
          /\ Sound(p, {rec'[s][p].accessed}, rec'[s][p].seen, files', clock')
        BY <1>1, <1>2, <1>3
    <2>2. \A r \in Scanner \ {s} : \A q \in DOMAIN rec'[r] :
              /\ DOMAIN rec'[r][q] = {"size", "accessed", "scanned", "seen"}
              /\ Sound(q, {rec'[r][q].accessed}, rec'[r][q].seen, files', clock')
        BY <1>1, <1>2 DEF IInv, RecordsInv
    <2>3. \A q \in DOMAIN rows' : Sound(q, rows'[q].accessed, rows'[q].seen, files', clock')
        BY <1>1 DEF IInv, RecordsInv
    <2> QED  BY <1>2, <2>1, <2>2, <2>3 DEF RecordsInv
<1>5. FilesInv' /\ StaleInv'
    BY <1>1 DEF IInv, FilesInv, StaleInv, IsStale
<1> QED  BY <1>4, <1>5 DEF IInv

(* The time of the scan changes nothing in what a record says of its file  *)
(* (StampScan).                                                            *)
LEMMA StampKeepsIInv ==
    ASSUME IInv, NEW s \in Scanner, StampScan(s)
    PROVE  IInv'
<1>1. PICK p \in DOMAIN rec[s] : /\ rec' = [rec EXCEPT ![s][p].scanned = clock]
                                 /\ UNCHANGED <<clock, files, rows, phase, cutoff, stale>>
    BY DEF StampScan
<1>2. /\ DOMAIN rec' = Scanner
      /\ \A r \in Scanner : DOMAIN rec'[r] = DOMAIN rec[r]
      /\ \A r \in Scanner : \A q \in DOMAIN rec[r] : r # s \/ q # p => rec'[r][q] = rec[r][q]
      /\ rec'[s][p] = [rec[s][p] EXCEPT !.scanned = clock]
    BY <1>1 DEF IInv, RecordsInv
<1>3. \A r \in Scanner : \A q \in DOMAIN rec[r] :
          /\ DOMAIN rec[r][q] = {"size", "accessed", "scanned", "seen"}
          /\ Sound(q, {rec[r][q].accessed}, rec[r][q].seen, files, clock)
    BY DEF IInv, RecordsInv
<1>4. \A r \in Scanner : \A q \in DOMAIN rec[r] :
          /\ DOMAIN rec'[r][q] = DOMAIN rec[r][q]
          /\ rec'[r][q].accessed = rec[r][q].accessed /\ rec'[r][q].seen = rec[r][q].seen
    <2>1. DOMAIN rec[s][p] = {"size", "accessed", "scanned", "seen"}
        BY <1>3
    <2>2. /\ DOMAIN rec'[s][p] = DOMAIN rec[s][p]
          /\ rec'[s][p].accessed = rec[s][p].accessed /\ rec'[s][p].seen = rec[s][p].seen
        BY <1>2, <2>1
    <2>3. ASSUME NEW r \in Scanner, NEW q \in DOMAIN rec[r], r # s \/ q # p
          PROVE  rec'[r][q] = rec[r][q]
        BY <1>2, <2>3
    <2> QED  BY <2>2, <2>3
<1>5. \A q \in DOMAIN rows : Sound(q, rows[q].accessed, rows[q].seen, files, clock)
    BY DEF IInv, RecordsInv
<1>6. RecordsInv'
    <2>1. ASSUME NEW r \in Scanner, NEW q \in DOMAIN rec'[r]
          PROVE  /\ DOMAIN rec'[r][q] = {"size", "accessed", "scanned", "seen"}
                 /\ Sound(q, {rec'[r][q].accessed}, rec'[r][q].seen, files', clock')
        <3>1. q \in DOMAIN rec[r]
            BY <1>2, <2>1
        <3>2. /\ DOMAIN rec[r][q] = {"size", "accessed", "scanned", "seen"}
              /\ Sound(q, {rec[r][q].accessed}, rec[r][q].seen, files, clock)
            BY <1>3, <3>1
        <3>3. /\ DOMAIN rec'[r][q] = DOMAIN rec[r][q]
              /\ rec'[r][q].accessed = rec[r][q].accessed /\ rec'[r][q].seen = rec[r][q].seen
            BY <1>4, <3>1
        <3> QED  BY <1>1, <3>2, <3>3
    <2>2. \A q \in DOMAIN rows' : Sound(q, rows'[q].accessed, rows'[q].seen, files', clock')
        BY <1>1, <1>5
    <2> QED  BY <1>2, <2>1, <2>2 DEF RecordsInv
<1>7. FilesInv' /\ StaleInv'
    BY <1>1 DEF IInv, FilesInv, StaleInv, IsStale
<1> QED  BY <1>6, <1>7 DEF IInv

(* A row takes over what its record says, but for the epoch, which no row  *)
(* can tell from no time at all.                                           *)
LEMMA UpsertKeepsIInv ==
    ASSUME IInv, NEW s \in Scanner, UpsertFile(s)
    PROVE  IInv'
<1>1. PICK p \in DOMAIN rec[s] :
          /\ rows' = Put(rows, p, [rec[s][p] EXCEPT !.accessed = Optional(@)])
          /\ rec' = [rec EXCEPT ![s] = Empty]
          /\ UNCHANGED <<clock, files, phase, cutoff, stale>>
    BY DEF UpsertFile
<1>2. /\ Sound(p, {rec[s][p].accessed}, rec[s][p].seen, files, clock)
      /\ DOMAIN rec[s][p] = {"size", "accessed", "scanned", "seen"}
    BY DEF IInv, RecordsInv
<1>3. rows'[p].accessed = Optional(rec[s][p].accessed) /\ rows'[p].seen = rec[s][p].seen
    BY <1>1, <1>2 DEF Put
<1>4. Sound(p, Optional(rec[s][p].accessed), rec[s][p].seen, files, clock)
    BY <1>2 DEF Sound, Optional
<1>5. /\ DOMAIN rows' = DOMAIN rows \cup {p}
      /\ \A q \in DOMAIN rows : q # p => rows'[q] = rows[q]
    BY <1>1 DEF Put
<1>6. /\ DOMAIN rec' = Scanner /\ DOMAIN rec'[s] = {}
      /\ \A r \in Scanner \ {s} : rec'[r] = rec[r]
    BY <1>1 DEF IInv, RecordsInv, Empty
<1>7. RecordsInv'
    BY <1>1, <1>3, <1>4, <1>5, <1>6 DEF IInv, RecordsInv
<1>8. FilesInv' /\ StaleInv'
    BY <1>1 DEF IInv, FilesInv, StaleInv, IsStale
<1> QED  BY <1>7, <1>8 DEF IInv

(* A scanner that stops drops its record (ScanStops). *)
LEMMA StopKeepsIInv ==
    ASSUME IInv, NEW s \in Scanner, ScanStops(s)
    PROVE  IInv'
<1>1. /\ UNCHANGED <<clock, files, rows, phase, cutoff, stale>>
      /\ rec' = [rec EXCEPT ![s] = Empty]
    BY DEF ScanStops
<1>2. /\ DOMAIN rec' = Scanner /\ DOMAIN rec'[s] = {}
      /\ \A r \in Scanner \ {s} : rec'[r] = rec[r]
    BY <1>1 DEF IInv, RecordsInv, Empty
<1>3. RecordsInv'
    BY <1>1, <1>2 DEF IInv, RecordsInv
<1>4. FilesInv' /\ StaleInv'
    BY <1>1 DEF IInv, FilesInv, StaleInv, IsStale
<1> QED  BY <1>3, <1>4 DEF IInv

(* The threshold does not reach back to the epoch. *)
LEMMA AnalyzeKeepsIInv ==
    ASSUME IInv, BeginAnalyze \/ SelectAndReport
    PROVE  IInv'
<1>1. UNCHANGED <<clock, files, rows, rec>>
    BY DEF BeginAnalyze, SelectAndReport
<1>2. FilesInv' /\ RecordsInv'
    BY <1>1 DEF IInv, FilesInv, RecordsInv
<1>3. CASE BeginAnalyze
    <2>1. cutoff' \in Int /\ cutoff' > 0
        BY <1>3, RotConstants DEF BeginAnalyze, IInv, FilesInv
    <2>2. stale' = stale /\ stale = Empty /\ phase' = "selecting"
        BY <1>3 DEF BeginAnalyze, IInv, StaleInv
    <2> QED  BY <1>2, <2>1, <2>2 DEF IInv, StaleInv, Empty
<1>4. CASE SelectAndReport
    <2>1. /\ stale' = StaleFiles /\ cutoff' = cutoff /\ phase' = "reported"
          /\ cutoff \in Int /\ cutoff > 0
        BY <1>4 DEF SelectAndReport, IInv, StaleInv
    <2>2. /\ DOMAIN stale' \subseteq DOMAIN rows
          /\ \A p \in DOMAIN stale' : stale'[p] = rows[p] /\ IsStale(rows[p])
        BY <2>1 DEF StaleFiles
    <2> QED  BY <1>1, <1>2, <2>1, <2>2 DEF IInv, RecordsInv, StaleInv, IsStale
<1> QED  BY <1>3, <1>4

(* What records, rows and reports say of a file was true of it once, and   *)
(* stays true of the past.                                                 *)
THEOREM RotInvariant == Spec => []IInv
<1>1. IInv /\ [Next]_vars => IInv'
    <2>1. ASSUME IInv, UNCHANGED vars PROVE IInv'
        BY <2>1 DEF vars, IInv, FilesInv, RecordsInv, StaleInv, IsStale
    <2> QED  BY <2>1, WorldKeepsIInv, ReadKeepsIInv, StampKeepsIInv, UpsertKeepsIInv,
                StopKeepsIInv, AnalyzeKeepsIInv DEF Next, Program, WorldStep
<1> QED  BY InitIInv, <1>1, PTL DEF Spec

(* A file that is suggested although it was used after the cutoff was used *)
(* at or after the moment at which the status in its row was read, which   *)
(* may be before the time its row gives (CollectMetadata, StaleFiles).     *)
THEOREM RotUsedSinceRead == Spec => []UsedSinceRead
<1>1. ASSUME IInv, NEW p \in DOMAIN stale \cap DOMAIN files, files[p].accessed >= cutoff
      PROVE  files[p].accessed >= stale[p].seen
    <2>1. cutoff \in Int /\ cutoff > 0
        BY <1>1 DEF IInv, StaleInv, Empty
    <2>2. \A t \in stale[p].accessed : t \in Int /\ t < cutoff
        BY <1>1 DEF IInv, StaleInv, IsStale, Sound
    <2>3. files[p].accessed \in Int
        BY <1>1 DEF IInv, FilesInv
    <2>4. files[p].accessed \notin stale[p].accessed \cup {Unset, 0}
        BY <1>1, <2>1, <2>2, <2>3 DEF Unset
    <2> QED  BY <1>1, <2>4 DEF IInv, StaleInv, Sound
<1>2. IInv => UsedSinceRead
    BY <1>1 DEF UsedSinceRead
<1> QED  BY RotInvariant, <1>2, PTL

(* A file there is a row about and that is not used since the cutoff is    *)
(* among what the query returns, however its row came about (StaleFiles).  *)
THEOREM RotUnusedAreSuggested == Spec => UnusedAreSuggested
<1>1. ASSUME IInv, [Next]_vars, phase' # phase, phase' = "reported",
             NEW p \in DOMAIN files \cap DOMAIN rows, files[p].accessed < cutoff
      PROVE  p \in DOMAIN stale'
    <2>1. SelectAndReport
        BY <1>1 DEF Next, Program, ReadStatus, StampScan, UpsertFile, ScanStops, BeginAnalyze, Tick,
                    Use, Remove, vars
    <2>2. IsStale(rows[p])
        <3>1. ASSUME NEW t \in rows[p].accessed PROVE t < cutoff
            <4>1. t \in Int /\ t <= files[p].accessed
                BY <1>1 DEF IInv, RecordsInv, Sound
            <4>2. files[p].accessed \in Int /\ cutoff \in Int
                BY <1>1 DEF IInv, FilesInv, StaleInv
            <4> QED  BY <1>1, <4>1, <4>2
        <3> QED  BY <3>1 DEF IsStale
    <2> QED  BY <2>1, <2>2 DEF SelectAndReport, StaleFiles
<1>2. IInv /\ [Next]_vars =>
          [phase' # phase /\ phase' = "reported" =>
              \A p \in DOMAIN files \cap DOMAIN rows :
                  files[p].accessed < cutoff => p \in DOMAIN stale']_vars
    BY <1>1
<1> QED  BY RotInvariant, <1>2, PTL DEF Spec, UnusedAreSuggested

(***************************************************************************)
(* Types                                                                   *)
(***************************************************************************)

(* What a scanner has in hand. *)
Record == [size : Sizes, accessed : Times, scanned : Int, seen : Int]

HandInv ==
    /\ DOMAIN rec = Scanner
    /\ \A s \in Scanner : DOMAIN rec[s] = {} \/ \E p \in Path : DOMAIN rec[s] = {p}
    /\ \A s \in Scanner : \A p \in DOMAIN rec[s] :
           /\ p \in Path /\ rec[s][p] \in Record
           /\ rec[s][p].seen \in Start..clock /\ rec[s][p].accessed <= rec[s][p].seen
           /\ rec[s][p].scanned = 0 \/ rec[s][p].scanned \in rec[s][p].seen..clock

(* The report is that of the rows that were selected. *)
ReportInv ==
    /\ phase = "idle" => stale = Empty
    /\ report = IF phase = "reported" THEN Analyze(stale) ELSE NoReport

TypeInv == TypeOK /\ HandInv /\ ReportInv

(* A row stays typed as the clock goes on. *)
LEMMA RowStays ==
    ASSUME clock \in Int, clock' \in Int, clock <= clock'
    PROVE  \A row : RowOK(row) => RowOK(row)'
BY RotConstants DEF RowOK

(* The bytes of finitely many rows are finitely many. *)
LEMMA BytesFinite ==
    ASSUME NEW found, IsFiniteSet(DOMAIN found), \A p \in DOMAIN found : found[p].size \in Nat,
           NEW S \in SUBSET DOMAIN found
    PROVE  IsFiniteSet(S) /\ IsFiniteSet(Bytes(S, found)) /\ Cardinality(Bytes(S, found)) \in Nat
<1> DEFINE blocks == {{p} \X (1..found[p].size) : p \in S}
           block  == [p \in S |-> {p} \X (1..found[p].size)]
<1>1. IsFiniteSet(S)
    BY FS_Subset
<1>2. block \in Surjection(S, blocks)
    BY DEF Surjection
<1>3. IsFiniteSet(blocks)
    BY <1>1, <1>2, FS_Surjection
<1>4. ASSUME NEW p \in S
      PROVE  IsFiniteSet({p} \X (1..found[p].size))
    <2>1. \A n \in Nat : IsFiniteSet(1..n)
        BY FS_Interval
    <2>2. IsFiniteSet({p})
        BY FS_Singleton
    <2>3. IsFiniteSet(1..found[p].size)
        BY <2>1
    <2> QED  BY <2>2, <2>3, FS_Product
<1>5. \A T \in blocks : IsFiniteSet(T)
    BY <1>4
<1>6. IsFiniteSet(UNION blocks)
    BY <1>3, <1>5, FS_UNION
<1> QED  BY <1>1, <1>6, FS_CardinalityType DEF Bytes

(* The rows of two disjoint sets, and their bytes, add up. *)
LEMMA BytesUnion ==
    ASSUME NEW found, IsFiniteSet(DOMAIN found), \A p \in DOMAIN found : found[p].size \in Nat,
           NEW S \in SUBSET DOMAIN found, NEW T \in SUBSET DOMAIN found, S \cap T = {}
    PROVE  /\ Cardinality(S \cup T) = Cardinality(S) + Cardinality(T)
           /\ Cardinality(Bytes(S \cup T, found))
                  = Cardinality(Bytes(S, found)) + Cardinality(Bytes(T, found))
<1>1. /\ IsFiniteSet(S) /\ IsFiniteSet(T)
      /\ IsFiniteSet(Bytes(S, found)) /\ IsFiniteSet(Bytes(T, found))
    BY BytesFinite
<1>2. Cardinality(S) \in Nat /\ Cardinality(T) \in Nat /\ Cardinality({}) = 0
    BY <1>1, FS_CardinalityType, FS_EmptySet
<1>3. Cardinality(S \cup T) = Cardinality(S) + Cardinality(T)
    <2>1. Cardinality(S \cup T) = Cardinality(S) + Cardinality(T) - Cardinality(S \cap T)
        BY <1>1, FS_Union
    <2>2. Cardinality(S \cap T) = 0
        BY <1>2
    <2> QED  BY <1>2, <2>1, <2>2
<1>4. Bytes(S \cup T, found) = Bytes(S, found) \cup Bytes(T, found)
    BY DEF Bytes
<1>5. Bytes(S, found) \cap Bytes(T, found) = {}
    BY DEF Bytes
<1>6. Cardinality(Bytes(S, found)) \in Nat /\ Cardinality(Bytes(T, found)) \in Nat
    BY BytesFinite
<1>7. Cardinality(Bytes(S, found) \cup Bytes(T, found))
          = Cardinality(Bytes(S, found)) + Cardinality(Bytes(T, found))
    <2> DEFINE s == Bytes(S, found)
               t == Bytes(T, found)
    <2>1. Cardinality(s \cup t) = Cardinality(s) + Cardinality(t) - Cardinality(s \cap t)
        BY <1>1, FS_Union
    <2>2. Cardinality(s \cap t) = 0
        BY <1>2, <1>5
    <2> HIDE DEF s, t
    <2>3. Cardinality(s \cup t) = Cardinality(s) + Cardinality(t)
        BY <1>6, <2>1, <2>2 DEF s, t
    <2> QED  BY <2>3 DEF s, t
<1> QED  BY <1>3, <1>4, <1>7

(* Every row is in one category. *)
LEMMA Classified ==
    ASSUME NEW p, NEW row
    PROVE  ClassifyRot(p, row) \in Categories
BY DEF ClassifyRot, Categories

(* The totals of the five categories are those of all the rows. *)
LEMMA AnalyzeTotals ==
    ASSUME NEW found, IsFiniteSet(DOMAIN found), \A p \in DOMAIN found : found[p].size \in Nat
    PROVE  /\ Analyze(found).total_rot_files = Cardinality(DOMAIN found)
           /\ Analyze(found).total_rot_bytes = Cardinality(Bytes(DOMAIN found, found))
           /\ Cardinality(DOMAIN found) \in Nat
           /\ Cardinality(Bytes(DOMAIN found, found)) \in Nat
           /\ \A c \in Categories : Analyze(found).categories[c]
                  = {p \in DOMAIN found : ClassifyRot(p, found[p]) = c}
<1> DEFINE in(c) == {p \in DOMAIN found : ClassifyRot(p, found[p]) = c}
           st == in("Stale")
           te == in("Temporary")
           du == in("LikelyDuplicate")
           lo == in("LargeLog")
           em == in("Empty")
           sum(S) == Cardinality(Bytes(S, found))
<1>1. /\ st \in SUBSET DOMAIN found /\ te \in SUBSET DOMAIN found /\ du \in SUBSET DOMAIN found
      /\ lo \in SUBSET DOMAIN found /\ em \in SUBSET DOMAIN found
    OBVIOUS
<1>2. DOMAIN found = st \cup te \cup du \cup lo \cup em
    BY Classified DEF Categories
<1>3. /\ st \cap te = {} /\ (st \cup te) \cap du = {} /\ (st \cup te \cup du) \cap lo = {}
      /\ (st \cup te \cup du \cup lo) \cap em = {}
    OBVIOUS
<1>4. /\ Analyze(found).total_rot_files = Cardinality(st) + Cardinality(te) + Cardinality(du)
                                              + Cardinality(lo) + Cardinality(em)
      /\ Analyze(found).total_rot_bytes = sum(st) + sum(te) + sum(du) + sum(lo) + sum(em)
      /\ \A c \in Categories : Analyze(found).categories[c] = in(c)
    BY DEF Analyze
<1> HIDE DEF st, te, du, lo, em
<1>5. /\ Cardinality(st \cup te) = Cardinality(st) + Cardinality(te)
      /\ sum(st \cup te) = sum(st) + sum(te)
    BY <1>1, <1>3, BytesUnion
<1>6. /\ Cardinality(st \cup te \cup du) = Cardinality(st \cup te) + Cardinality(du)
      /\ sum(st \cup te \cup du) = sum(st \cup te) + sum(du)
    BY <1>1, <1>3, BytesUnion
<1>7. /\ Cardinality(st \cup te \cup du \cup lo) = Cardinality(st \cup te \cup du) + Cardinality(lo)
      /\ sum(st \cup te \cup du \cup lo) = sum(st \cup te \cup du) + sum(lo)
    BY <1>1, <1>3, BytesUnion
<1>8. /\ Cardinality(DOMAIN found) = Cardinality(st \cup te \cup du \cup lo) + Cardinality(em)
      /\ sum(DOMAIN found) = sum(st \cup te \cup du \cup lo) + sum(em)
    <2> DEFINE all == st \cup te \cup du \cup lo
    <2>1. all \in SUBSET DOMAIN found /\ all \cap em = {}
        BY <1>1, <1>3
    <2> HIDE DEF all
    <2>2. /\ Cardinality(all \cup em) = Cardinality(all) + Cardinality(em)
          /\ sum(all \cup em) = sum(all) + sum(em)
        BY <1>1, <2>1, BytesUnion
    <2> QED  BY <1>2, <2>2 DEF all
<1>9. Cardinality(DOMAIN found) \in Nat /\ sum(DOMAIN found) \in Nat
    BY BytesFinite, FS_CardinalityType
<1> QED  BY <1>4, <1>5, <1>6, <1>7, <1>8, <1>9

(* There are no rows and no reports, and the files are of their types. *)
LEMMA InitTypeInv == Init => TypeInv
<1> SUFFICES ASSUME Init PROVE TypeInv
    OBVIOUS
<1>1. DOMAIN Empty = {} /\ Cardinality({}) = 0
    BY FS_EmptySet DEF Empty
<1>2. /\ clock \in Start..MaxClock /\ cutoff \in Int /\ cutoff <= clock
      /\ phase \in {"idle", "selecting", "reported"}
    BY RotConstants DEF Init
<1>3. ASSUME NEW p \in DOMAIN files
      PROVE  p \in Path /\ files[p] \in [size : Sizes, accessed : Times]
    <2>1. files \in [Path -> [size : Sizes, accessed : {Unset} \cup 0..Start]]
        BY DEF Init
    <2>2. {Unset} \cup 0..Start \subseteq Times
        BY RotConstants DEF Times
    <2> QED  BY <2>1, <2>2
<1>4. report.total_rot_files = 0 /\ report.total_rot_bytes = 0
    BY DEF Init, NoReport
<1>5. TypeOK
    BY <1>1, <1>2, <1>3, <1>4 DEF Init, TypeOK
<1>6. HandInv
    BY <1>1 DEF Init, HandInv
<1>7. ReportInv
    BY DEF Init, ReportInv
<1> QED  BY <1>5, <1>6, <1>7 DEF TypeInv

(* The parts of the type invariant, for the steps to cite. *)
FilesTyped == \A p \in DOMAIN files : p \in Path /\ files[p] \in [size : Sizes, accessed : Times]
RowsTyped  == \A p \in DOMAIN rows : p \in Path /\ RowOK(rows[p])
StaleTyped == \A p \in DOMAIN stale : p \in DOMAIN rows /\ RowOK(stale[p])

(* The files are of their types whatever happens to them. *)
LEMMA WorldKeepsFiles ==
    ASSUME TypeInv, WorldStep
    PROVE  FilesTyped' /\ clock' \in Start..MaxClock /\ clock <= clock'
<1>1. clock \in Start..MaxClock /\ clock \in Int /\ FilesTyped
    BY RotConstants DEF TypeInv, TypeOK, FilesTyped
<1>2. CASE Tick
    BY <1>1, <1>2, RotConstants DEF Tick, FilesTyped
<1>3. ASSUME NEW q \in Path, Remove(q)
      PROVE  FilesTyped' /\ clock' = clock
    BY <1>1, <1>3 DEF Remove, Without, FilesTyped
<1>4. ASSUME NEW q \in Path, Use(q)
      PROVE  FilesTyped' /\ clock' = clock
    <2>1. PICK s \in Sizes,
               t \in {Present(q)} \cup {files[p].accessed : p \in DOMAIN files \cap {q}} :
             files' = Put(files, q, [size |-> s, accessed |-> t])
        BY <1>4 DEF Use
    <2>2. Present(q) \in Times
        BY <1>1, RotConstants DEF Present, Times
    <2>3. t \in Times
        BY <1>1, <2>1, <2>2 DEF FilesTyped
    <2>4. /\ DOMAIN files' = DOMAIN files \cup {q}
          /\ \A p \in DOMAIN files' :
                 files'[p] = IF p = q THEN [size |-> s, accessed |-> t] ELSE files[p]
        BY <2>1 DEF Put
    <2> QED  BY <1>1, <1>4, <2>3, <2>4 DEF FilesTyped, Use
<1> QED  BY <1>1, <1>2, <1>3, <1>4 DEF WorldStep

(* What is written stays typed while the files are used. *)
LEMMA WorldKeepsType ==
    ASSUME TypeInv, WorldStep
    PROVE  TypeInv'
<1>1. FilesTyped' /\ clock' \in Start..MaxClock /\ clock <= clock'
    BY WorldKeepsFiles
<1>2. UNCHANGED <<rows, rec, phase, cutoff, stale, report>>
    BY DEF WorldStep, Tick, Use, Remove
<1>3. clock \in Int /\ clock' \in Int /\ cutoff \in Int /\ cutoff <= clock
    BY <1>1, RotConstants DEF TypeInv, TypeOK
<1>4. \A row : RowOK(row) => RowOK(row)'
    BY <1>1, <1>3, RowStays
<1>5. TypeOK'
    BY <1>1, <1>2, <1>3, <1>4 DEF TypeInv, TypeOK, FilesTyped
<1>6. HandInv'
    BY <1>1, <1>2, <1>3, RotConstants DEF TypeInv, HandInv
<1>7. ReportInv'
    BY <1>2 DEF TypeInv, ReportInv
<1> QED  BY <1>5, <1>6, <1>7 DEF TypeInv

(* A record has the status of a file, which was used in the past           *)
(* (ReadStatus).                                                           *)
LEMMA ReadKeepsType ==
    ASSUME IInv, TypeInv, NEW s \in Scanner, NEW p \in Path, ReadStatus(s, p)
    PROVE  TypeInv'
<1>1. /\ UNCHANGED <<clock, files, rows, phase, cutoff, stale, report>> /\ p \in DOMAIN files
      /\ rec' = [rec EXCEPT ![s] = Put(Empty, p,
                   [size |-> files[p].size, accessed |-> files[p].accessed,
                    scanned |-> 0, seen |-> clock])]
    BY DEF ReadStatus
<1>2. /\ DOMAIN rec' = Scanner /\ \A r \in Scanner \ {s} : rec'[r] = rec[r]
      /\ DOMAIN rec'[s] = {p}
      /\ rec'[s][p] = [size |-> files[p].size, accessed |-> files[p].accessed,
                       scanned |-> 0, seen |-> clock]
    BY <1>1 DEF TypeInv, HandInv, Put, Empty
<1>3. /\ files[p] \in [size : Sizes, accessed : Times] /\ files[p].accessed <= clock
      /\ clock \in Int /\ clock \in Start..clock
    BY <1>1, RotConstants DEF TypeInv, TypeOK, IInv, FilesInv
<1>4. rec'[s][p] \in Record
    BY <1>2, <1>3 DEF Record
<1>5. HandInv'
    BY <1>1, <1>2, <1>3, <1>4 DEF TypeInv, HandInv
<1>6. \A r \in Scanner : Cardinality(DOMAIN rec'[r]) <= 1
    <2>1. Cardinality({p}) = 1
        BY FS_Singleton
    <2>2. Cardinality(DOMAIN rec'[s]) <= 1
        BY <1>2, <2>1
    <2>3. \A r \in Scanner \ {s} : Cardinality(DOMAIN rec'[r]) <= 1
        BY <1>2 DEF TypeInv, TypeOK
    <2> QED  BY <2>2, <2>3
<1>7. TypeOK'
    BY <1>1, <1>6 DEF TypeInv, TypeOK, RowOK
<1>8. ReportInv'
    BY <1>1 DEF TypeInv, ReportInv
<1> QED  BY <1>5, <1>7, <1>8 DEF TypeInv

(* A record is dated in the present, after its status was read             *)
(* (StampScan).                                                            *)
LEMMA StampKeepsType ==
    ASSUME TypeInv, NEW s \in Scanner, StampScan(s)
    PROVE  TypeInv'
<1>1. PICK p \in DOMAIN rec[s] :
          /\ rec' = [rec EXCEPT ![s][p].scanned = clock]
          /\ UNCHANGED <<clock, files, rows, phase, cutoff, stale, report>>
    BY DEF StampScan
<1>2. /\ DOMAIN rec = Scanner /\ rec[s][p] \in Record /\ p \in Path
      /\ rec[s][p].seen \in Start..clock /\ rec[s][p].accessed <= rec[s][p].seen
      /\ clock \in Int /\ Start \in Int
    BY RotConstants DEF TypeInv, TypeOK, HandInv
<1>3. /\ DOMAIN rec' = Scanner
      /\ \A r \in Scanner : DOMAIN rec'[r] = DOMAIN rec[r]
      /\ \A r \in Scanner : \A q \in DOMAIN rec[r] : r # s \/ q # p => rec'[r][q] = rec[r][q]
      /\ rec'[s][p] = [rec[s][p] EXCEPT !.scanned = clock]
    BY <1>1, <1>2
<1>4. /\ rec'[s][p] \in Record /\ rec'[s][p].scanned = clock
      /\ rec'[s][p].seen = rec[s][p].seen /\ rec'[s][p].accessed = rec[s][p].accessed
    BY <1>2, <1>3 DEF Record
<1>5. clock \in rec[s][p].seen..clock
    BY <1>2
<1>6. HandInv'
    <2>1. /\ p \in Path /\ rec'[s][p] \in Record
          /\ rec'[s][p].seen \in Start..clock' /\ rec'[s][p].accessed <= rec'[s][p].seen
          /\ rec'[s][p].scanned \in rec'[s][p].seen..clock'
        BY <1>1, <1>2, <1>4, <1>5
    <2>2. \A r \in Scanner : DOMAIN rec'[r] = {} \/ \E q \in Path : DOMAIN rec'[r] = {q}
        BY <1>3 DEF TypeInv, HandInv
    <2>3. ASSUME NEW r \in Scanner, NEW q \in DOMAIN rec'[r], r # s \/ q # p
          PROVE  /\ q \in Path /\ rec'[r][q] \in Record
                 /\ rec'[r][q].seen \in Start..clock' /\ rec'[r][q].accessed <= rec'[r][q].seen
                 /\ rec'[r][q].scanned = 0 \/ rec'[r][q].scanned \in rec'[r][q].seen..clock'
        <3>1. q \in DOMAIN rec[r] /\ rec'[r][q] = rec[r][q] /\ clock' = clock
            BY <1>1, <1>3, <2>3
        <3> QED  BY <3>1 DEF TypeInv, HandInv
    <2> QED  BY <1>3, <2>1, <2>2, <2>3 DEF HandInv
<1>7. TypeOK'
    BY <1>1, <1>3 DEF TypeInv, TypeOK, RowOK
<1>8. ReportInv'
    BY <1>1 DEF TypeInv, ReportInv
<1> QED  BY <1>6, <1>7, <1>8 DEF TypeInv

(* A scanner whose hands are empty again is typed. *)
LEMMA HandsEmptied ==
    ASSUME TypeInv, NEW s \in Scanner, rec' = [rec EXCEPT ![s] = Empty], clock' = clock
    PROVE  HandInv' /\ \A r \in Scanner : Cardinality(DOMAIN rec'[r]) <= 1
<1>1. /\ DOMAIN rec' = Scanner /\ DOMAIN rec'[s] = {}
      /\ \A r \in Scanner \ {s} : rec'[r] = rec[r]
    BY DEF TypeInv, HandInv, Empty
<1>2. Cardinality({}) = 0
    BY FS_EmptySet
<1>3. \A r \in Scanner : Cardinality(DOMAIN rec'[r]) <= 1
    BY <1>1, <1>2 DEF TypeInv, TypeOK
<1> QED  BY <1>1, <1>3 DEF TypeInv, HandInv

(* The row of a record is dated as the record is, and has no access time 0 *)
(* (UpsertFile).                                                           *)
LEMMA UpsertKeepsType ==
    ASSUME TypeInv, NEW s \in Scanner, UpsertFile(s)
    PROVE  TypeInv'
<1>1. PICK p \in DOMAIN rec[s] :
          /\ rec[s][p].scanned # 0
          /\ rows' = Put(rows, p, [rec[s][p] EXCEPT !.accessed = Optional(@)])
          /\ rec' = [rec EXCEPT ![s] = Empty]
          /\ UNCHANGED <<clock, files, phase, cutoff, stale, report>>
    BY DEF UpsertFile
<1>2. /\ p \in Path /\ rec[s][p] \in Record
      /\ rec[s][p].seen \in Start..clock /\ rec[s][p].accessed <= rec[s][p].seen
      /\ rec[s][p].scanned \in rec[s][p].seen..clock
    BY <1>1 DEF TypeInv, HandInv
<1>3. /\ DOMAIN rows' = DOMAIN rows \cup {p}
      /\ \A q \in DOMAIN rows : q # p => rows'[q] = rows[q]
      /\ rows'[p] = [rec[s][p] EXCEPT !.accessed = Optional(@)]
    BY <1>1 DEF Put
<1>4. /\ rows'[p].size \in Sizes /\ rows'[p].scanned = rec[s][p].scanned
      /\ rows'[p].seen = rec[s][p].seen /\ rows'[p].accessed = Optional(rec[s][p].accessed)
    BY <1>2, <1>3 DEF Record
<1>5. RowOK(rows'[p])
    <2>1. clock \in Int /\ Start \in Int
        BY RotConstants DEF TypeInv, TypeOK
    <2>2. /\ rows'[p].scanned \in Start..clock /\ rows'[p].seen \in Start..rows'[p].scanned
        BY <1>2, <1>4, <2>1 DEF Record
    <2>3. \A t \in rows'[p].accessed : t \in Times \ {0} /\ t <= rows'[p].seen
        BY <1>2, <1>4 DEF Record, Optional
    <2> QED  BY <1>4, <2>2, <2>3 DEF RowOK
<1>6. RowsTyped'
    BY <1>1, <1>2, <1>3, <1>5 DEF TypeInv, TypeOK, RowsTyped, RowOK
<1>7. HandInv' /\ \A r \in Scanner : Cardinality(DOMAIN rec'[r]) <= 1
    BY <1>1, HandsEmptied
<1>8. TypeOK'
    BY <1>1, <1>3, <1>6, <1>7 DEF TypeInv, TypeOK, RowsTyped, RowOK
<1>9. ReportInv'
    BY <1>1 DEF TypeInv, ReportInv
<1> QED  BY <1>7, <1>8, <1>9 DEF TypeInv

(* A scan that ends leaves the rows as they are (ScanStops). *)
LEMMA StopKeepsType ==
    ASSUME TypeInv, NEW s \in Scanner, ScanStops(s)
    PROVE  TypeInv'
<1>1. /\ rec' = [rec EXCEPT ![s] = Empty]
      /\ UNCHANGED <<clock, files, rows, phase, cutoff, stale, report>>
    BY DEF ScanStops
<1>2. HandInv' /\ \A r \in Scanner : Cardinality(DOMAIN rec'[r]) <= 1
    BY <1>1, HandsEmptied
<1>3. TypeOK' /\ ReportInv'
    BY <1>1, <1>2 DEF TypeInv, TypeOK, ReportInv, RowOK
<1> QED  BY <1>2, <1>3 DEF TypeInv

(* There are finitely many rows, each of a size that is a number. *)
LEMMA RowsFinite ==
    ASSUME TypeInv, NEW found, DOMAIN found \subseteq DOMAIN rows,
           \A p \in DOMAIN found : RowOK(found[p])
    PROVE  IsFiniteSet(DOMAIN found) /\ \A p \in DOMAIN found : found[p].size \in Nat
<1>1. DOMAIN found \subseteq Path
    BY DEF TypeInv, TypeOK
<1>2. IsFiniteSet(DOMAIN found)
    BY <1>1, RotConstants, FS_Subset
<1> QED  BY <1>2, RotConstants DEF RowOK

(* The report is made of rows, and its totals are numbers                  *)
(* (StaleFiles, Analyze).                                                  *)
LEMMA AnalyzeKeepsType ==
    ASSUME TypeInv, BeginAnalyze \/ SelectAndReport
    PROVE  TypeInv'
<1>1. UNCHANGED <<clock, files, rows, rec>>
    BY DEF BeginAnalyze, SelectAndReport
<1>2. HandInv'
    BY <1>1 DEF TypeInv, HandInv
<1>3. CASE BeginAnalyze
    <2>1. clock \in Int /\ cutoff' = clock - StaleAfter
        BY <1>3, RotConstants DEF BeginAnalyze, TypeInv, TypeOK
    <2>2. cutoff' \in Int /\ cutoff' <= clock
        BY <2>1, RotConstants
    <2>3. TypeOK'
        BY <1>1, <1>3, <2>2 DEF BeginAnalyze, TypeInv, TypeOK, RowOK
    <2>4. ReportInv'
        BY <1>3 DEF BeginAnalyze, TypeInv, ReportInv
    <2> QED  BY <1>2, <2>3, <2>4 DEF TypeInv
<1>4. CASE SelectAndReport
    <2>1. /\ phase' = "reported" /\ cutoff' = cutoff
          /\ stale' = StaleFiles /\ report' = Analyze(stale')
        BY <1>4 DEF SelectAndReport
    <2>2. /\ DOMAIN stale' \subseteq DOMAIN rows
          /\ \A p \in DOMAIN stale' : RowOK(stale'[p])
        BY <2>1 DEF StaleFiles, TypeInv, TypeOK
    <2>3. IsFiniteSet(DOMAIN stale') /\ \A p \in DOMAIN stale' : stale'[p].size \in Nat
        BY <2>2, RowsFinite
    <2>4. report'.total_rot_files \in Nat /\ report'.total_rot_bytes \in Nat
        BY <2>1, <2>3, AnalyzeTotals
    <2>5. TypeOK'
        BY <1>1, <2>1, <2>2, <2>4 DEF TypeInv, TypeOK, RowOK
    <2>6. ReportInv'
        BY <2>1 DEF ReportInv
    <2> QED  BY <1>2, <2>5, <2>6 DEF TypeInv
<1> QED  BY <1>3, <1>4

(* Every state is of its types, and a report is that of the rows that were *)
(* selected.                                                               *)
THEOREM RotTypeInvariant == Spec => []TypeInv
<1>1. IInv /\ TypeInv /\ [Next]_vars => TypeInv'
    <2>1. ASSUME TypeInv, UNCHANGED vars PROVE TypeInv'
        BY <2>1 DEF vars, TypeInv, TypeOK, HandInv, ReportInv, RowOK
    <2> QED  BY <2>1, WorldKeepsType, ReadKeepsType, StampKeepsType, UpsertKeepsType,
                StopKeepsType, AnalyzeKeepsType DEF Next, Program, WorldStep
<1> QED  BY RotInvariant, InitTypeInv, <1>1, PTL DEF Spec

(* No row is dated after the present or before its status was read, none   *)
(* has an access from after the reading, and the totals are numbers        *)
(* (CollectMetadata, UpsertFile).                                          *)
THEOREM RotTypeOK == Spec => []TypeOK
<1>1. TypeInv => TypeOK
    BY DEF TypeInv
<1> QED  BY RotTypeInvariant, <1>1, PTL

(* Each selected row is in one category and counted once, with the bytes   *)
(* it has, and the empty files and the oversized logs are such             *)
(* (ClassifyRot, Analyze).                                                 *)
THEOREM RotReportPartition == Spec => []ReportPartition
<1>1. ASSUME TypeInv, phase = "reported" PROVE ReportPartition
    <2> DEFINE cat == report.categories
    <2>1. report = Analyze(stale)
        BY <1>1 DEF TypeInv, ReportInv
    <2>2. IsFiniteSet(DOMAIN stale) /\ \A p \in DOMAIN stale : stale[p].size \in Nat
        <3>1. DOMAIN stale \subseteq DOMAIN rows /\ \A p \in DOMAIN stale : RowOK(stale[p])
            BY <1>1 DEF TypeInv, TypeOK
        <3> QED  BY <1>1, <3>1, RowsFinite
    <2>3. /\ report.total_rot_files = Cardinality(DOMAIN stale)
          /\ report.total_rot_bytes = Cardinality(Bytes(DOMAIN stale, stale))
          /\ \A c \in Categories : cat[c] = {p \in DOMAIN stale : ClassifyRot(p, stale[p]) = c}
        BY <2>1, <2>2, AnalyzeTotals
    <2> HIDE DEF cat
    <2>4. UNION {cat[c] : c \in Categories} = DOMAIN stale
        <3>1. \A c \in Categories : cat[c] \subseteq DOMAIN stale
            BY <2>3
        <3>2. \A p \in DOMAIN stale : p \in cat[ClassifyRot(p, stale[p])]
            BY <2>3, Classified
        <3> QED  BY <3>1, <3>2, Classified
    <2>5. \A c, d \in Categories : c # d => cat[c] \cap cat[d] = {}
        BY <2>3
    <2>6. cat["Empty"] = {p \in DOMAIN stale : stale[p].size = 0}
        <3>1. "Empty" \in Categories
            BY DEF Categories
        <3>2. \A p \in DOMAIN stale : ClassifyRot(p, stale[p]) = "Empty" <=> stale[p].size = 0
            BY DEF ClassifyRot
        <3> QED  BY <2>3, <3>1, <3>2
    <2>7. \A p \in cat["LargeLog"] : "log" \in Marks[p] /\ stale[p].size > LogLimit
        <3>1. "LargeLog" \in Categories
            BY DEF Categories
        <3>2. \A p \in DOMAIN stale :
                  ClassifyRot(p, stale[p]) = "LargeLog"
                      => "log" \in Marks[p] /\ stale[p].size > LogLimit
            BY DEF ClassifyRot
        <3> QED  BY <2>3, <3>1, <3>2
    <2> QED  BY <2>3, <2>4, <2>5, <2>6, <2>7 DEF ReportPartition, cat
<1>2. TypeInv => ReportPartition
    BY <1>1 DEF ReportPartition
<1> QED  BY RotTypeInvariant, <1>2, PTL

================================================================================
