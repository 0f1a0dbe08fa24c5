--------------------------- MODULE WipeSessionProofs ---------------------------
(***************************************************************************)
(* Proofs about runs of `wipe --cert-out` on one directory, for any number *)
(* of files, runs and seconds, any command lines, and any of the faults: a *)
(* certificate file is of a run that took place, and of the last one once  *)
(* that has saved its own, and no file is counted in two reports.          *)
(***************************************************************************)
EXTENDS WipeSession, SequenceTheorems, FiniteSetTheorems, TLAPS

(* What the loop of WipePath counts has gone, and is counted in no report  *)
(* of an earlier run.                                                      *)
CountInv ==
    /\ phase = "wiping" =>
          /\ wiped + failed + todo <= Files /\ wiped <= Files - left
          /\ \A r \in reports : r.report[2] + wiped <= Files - left
    /\ \A r \in reports : r.report[2] \in Nat /\ r.report[2] <= Files - left

(* Between the wipe and the end of the command, the result at hand is that *)
(* of this run, and so is the certificate once there is one.               *)
ResultInv ==
    phase \in {"wiped", "issued", "opened", "saved"} =>
        /\ result \in reports /\ result.report[1] = runs
        /\ result.completed_at \in 0..clock

CertInv ==
    /\ phase \in {"issued", "opened", "saved"} =>
          \E t \in result.completed_at..clock : cert = Generate(result, runs, runs, t)
    /\ phase = "opened" => disk = "partial"
    /\ phase = "saved" /\ disk = "whole" => doc = ToJson(cert)

DocInv ==
    disk = "whole" =>
        \E r \in reports :
            /\ Certifies(doc, r)
            /\ \E t \in r.completed_at..clock : doc.issued_at = UnixToIso8601(t)

IInv ==
    TypeOK /\ CountInv /\ NothingReportedTwice /\ ResultInv /\ CertInv /\ DocInv

(* The document of a certificate says of its result what it should.        *)
LEMMA DocumentOfResult ==
    ASSUME NEW r, NEW k, NEW t
    PROVE  /\ Certifies(ToJson(Generate(r, k, k, t)), r)
           /\ ToJson(Generate(r, k, k, t)).issued_at = UnixToIso8601(t)
           /\ ToJson(Generate(r, k, k, t)).report = r.report
BY DEF Certifies, ToJson, Generate

(* No command has run. *)
LEMMA InitIInv == Init => IInv
BY SessionOK DEF Init, IInv, TypeOK, CountInv, NothingReportedTwice, ResultInv, CertInv,
   DocInv, Running

(* A command starts with nothing counted. *)
LEMMA BeginKeepsIInv ==
    ASSUME IInv, BeginWipe
    PROVE  IInv'
<1>1. /\ UNCHANGED <<clock, left, result, cert, file, verdict, reports>>
      /\ line' \in LinesFor(Dir) /\ phase' = "wiping" /\ runs' = runs + 1 /\ runs < MaxRuns
      /\ todo' = left /\ started_at' = clock /\ wiped' = 0 /\ failed' = 0
      /\ LinesFor(Dir) \subseteq Lines
    BY DEF BeginWipe, LinesFor
<1>2. TypeOK'
    BY <1>1, SessionOK DEF IInv, TypeOK, Running, file, LinesFor
<1>3. CountInv' /\ NothingReportedTwice'
    BY <1>1, SessionOK DEF IInv, TypeOK, CountInv, NothingReportedTwice
<1>4. ResultInv' /\ CertInv' /\ DocInv'
    BY <1>1 DEF IInv, ResultInv, CertInv, DocInv, file, Certifies
<1> QED  BY <1>2, <1>3, <1>4 DEF IInv

(* A file that is wiped has gone, and is counted once (WipeFile). *)
LEMMA FileKeepsIInv ==
    ASSUME IInv, WipeFile
    PROVE  IInv'
<1>1. /\ UNCHANGED <<clock, phase, runs, line, started_at, result, cert, file, verdict, reports>>
      /\ phase = "wiping" /\ todo > 0 /\ todo' = todo - 1
      /\ \/ left' = left - 1 /\ wiped' = wiped + 1 /\ failed' = failed
         \/ failed' = failed + 1 /\ left' = left /\ wiped' = wiped
    BY DEF WipeFile
<1>2. /\ left \in Nat /\ left <= Files /\ todo \in Nat /\ todo <= left /\ Files \in Nat
      /\ wiped \in Nat /\ failed \in Nat /\ wiped + failed + todo <= Files
      /\ wiped <= Files - left
    BY <1>1, SessionOK DEF IInv, TypeOK, CountInv
<1>3. /\ left' \in 0..Files /\ todo' \in 0..left' /\ wiped' \in 0..Files
      /\ failed' \in 0..Files /\ left' <= left
    BY <1>1, <1>2
<1>4. TypeOK'
    BY <1>1, <1>3 DEF IInv, TypeOK, Running, file, LinesFor
<1>5. CountInv' /\ NothingReportedTwice'
    <2>1. /\ wiped' + failed' + todo' <= Files /\ wiped' <= Files - left'
          /\ wiped' - wiped = left - left'
        BY <1>1, <1>2
    <2>2. ASSUME NEW r \in reports
          PROVE  /\ r.report[2] \in Nat /\ r.report[2] <= Files - left'
                 /\ r.report[2] + wiped' <= Files - left'
        <3>1. /\ r.report[2] \in Nat /\ r.report[2] <= Files - left
              /\ r.report[2] + wiped <= Files - left
            BY <1>1 DEF IInv, CountInv
        <3> QED  BY <1>2, <1>3, <2>1, <3>1
    <2>3. ASSUME NEW r \in reports, NEW s \in reports, r # s
          PROVE  r.report[2] + s.report[2] <= Files - left'
        <3>1. r.report[2] + s.report[2] <= Files - left
            BY <2>3 DEF IInv, NothingReportedTwice
        <3> QED  BY <1>2, <1>3, <2>2, <3>1
    <2> QED  BY <1>1, <2>1, <2>2, <2>3 DEF CountInv, NothingReportedTwice
<1>6. ResultInv' /\ CertInv' /\ DocInv'
    BY <1>1 DEF IInv, ResultInv, CertInv, DocInv, file, Certifies
<1> QED  BY <1>4, <1>5, <1>6 DEF IInv

(* The new report is the only one that counts the files of this run.       *)
LEMMA ReturnKeepsIInv ==
    ASSUME IInv, WipePathReturns
    PROVE  IInv'
<1>1. /\ UNCHANGED <<clock, left, runs, line, wipe, cert, file, verdict>>
      /\ phase = "wiping" /\ phase' \in {"idle", "wiped"}
      /\ result' = [started_at |-> started_at, completed_at |-> clock,
                    report |-> <<runs, wiped, failed>>]
      /\ reports' = reports \cup {result'}
    BY DEF WipePathReturns
<1>2. TypeOK'
    BY <1>1 DEF IInv, TypeOK, Running, file, wipe, LinesFor
<1>3. result'.report[2] = wiped /\ result'.report[1] = runs /\ result'.completed_at = clock
    BY <1>1
<1>4. /\ wiped \in Nat /\ wiped <= Files - left
      /\ \A r \in reports : /\ r.report[2] \in Nat /\ r.report[2] <= Files - left
                            /\ r.report[2] + wiped <= Files - left
    BY <1>1 DEF IInv, TypeOK, CountInv
<1>5. CountInv'
    BY <1>1, <1>3, <1>4 DEF CountInv
<1>6. NothingReportedTwice'
    <2>1. ASSUME NEW r \in reports', NEW s \in reports', r # s
          PROVE  r.report[2] + s.report[2] <= Files - left
        <3>1. CASE r \in reports /\ s \in reports
            BY <2>1, <3>1 DEF IInv, NothingReportedTwice
        <3>2. CASE r = result' /\ s \in reports
            BY <1>3, <1>4, <3>2
        <3>3. CASE s = result' /\ r \in reports
            BY <1>3, <1>4, <3>3
        <3> QED  BY <1>1, <2>1, <3>1, <3>2, <3>3
    <2> QED  BY <1>1, <2>1 DEF NothingReportedTwice
<1>7. ResultInv' /\ CertInv' /\ DocInv'
    BY <1>1, <1>3 DEF IInv, TypeOK, ResultInv, CertInv, DocInv, file, Certifies
<1> QED  BY <1>2, <1>5, <1>6, <1>7 DEF IInv

(* The steps that follow count nothing; what they disturb are the          *)
(* certificate and its file.                                               *)
LEMMA CountsStand ==
    ASSUME IInv, UNCHANGED <<left, runs, line, wipe, result, reports>>,
           clock' \in clock..MaxClock, phase' # "wiping" \/ phase' = phase,
           phase' \in {"idle", "wiping", "wiped", "issued", "opened", "saved"},
           Running' => Running, disk' \in {"none", "partial", "whole"},
           verdict' \in {"none", "valid", "invalid", "unreadable"}
    PROVE  TypeOK' /\ CountInv' /\ NothingReportedTwice'
<1>1. clock' \in 1..MaxClock /\ started_at' \in 0..clock'
    BY SessionOK DEF IInv, TypeOK, wipe
<1>2. TypeOK'
    BY <1>1 DEF IInv, TypeOK, wipe, LinesFor
<1> QED  BY <1>2 DEF IInv, CountInv, NothingReportedTwice, wipe

(* A certificate takes over the result (IssueCertificate). *)
LEMMA IssueKeepsIInv ==
    ASSUME IInv, IssueCertificate
    PROVE  IInv'
<1>1. /\ UNCHANGED <<clock, left, runs, line, wipe, result, file, verdict, reports>>
      /\ phase = "wiped" /\ phase' = "issued" /\ cert' = Generate(result, runs, runs, clock)
    BY DEF IssueCertificate
<1>2. result.completed_at \in 0..clock /\ clock \in Nat
    BY <1>1 DEF IInv, TypeOK, ResultInv
<1>3. TypeOK' /\ CountInv' /\ NothingReportedTwice'
    BY <1>1, CountsStand DEF IInv, TypeOK, Running, file
<1>4. ResultInv' /\ DocInv'
    BY <1>1 DEF IInv, ResultInv, DocInv, file, Certifies
<1>5. CertInv'
    <2>1. clock \in result.completed_at..clock
        BY <1>2
    <2> QED  BY <1>1, <2>1 DEF CertInv
<1> QED  BY <1>3, <1>4, <1>5 DEF IInv

(* An opened file is empty (OpenCertificate). *)
LEMMA OpenKeepsIInv ==
    ASSUME IInv, OpenCertificate
    PROVE  IInv'
<1>1. /\ UNCHANGED <<clock, left, runs, line, wipe, result, cert, doc, verdict, reports>>
      /\ phase = "issued"
      /\ \/ phase' = "opened" /\ disk' = "partial"
         \/ phase' = "idle" /\ disk' = disk
    BY DEF OpenCertificate
<1>2. TypeOK' /\ CountInv' /\ NothingReportedTwice'
    BY <1>1, CountsStand DEF IInv, TypeOK, Running
<1>3. ResultInv' /\ CertInv' /\ DocInv'
    BY <1>1 DEF IInv, ResultInv, CertInv, DocInv, Certifies
<1> QED  BY <1>2, <1>3 DEF IInv

(* A written file holds the certificate of this run (WriteCertificate). *)
LEMMA WriteKeepsIInv ==
    ASSUME IInv, WriteCertificate
    PROVE  IInv'
<1>1. /\ UNCHANGED <<clock, left, runs, line, wipe, result, cert, verdict, reports>>
      /\ phase = "opened" /\ phase' = "saved"
      /\ \/ disk' = "whole" /\ doc' = ToJson(cert)
         \/ UNCHANGED file
    BY DEF WriteCertificate
<1>2. TypeOK' /\ CountInv' /\ NothingReportedTwice'
    BY <1>1, CountsStand DEF IInv, TypeOK, Running, file
<1>3. ResultInv' /\ CertInv'
    BY <1>1 DEF IInv, ResultInv, CertInv, file
<1>4. DocInv'
    <2>1. CASE UNCHANGED file
        BY <1>1, <2>1 DEF IInv, DocInv, file, Certifies
    <2>2. CASE disk' = "whole" /\ doc' = ToJson(cert)
        <3>1. PICK t \in result.completed_at..clock : cert = Generate(result, runs, runs, t)
            BY <1>1 DEF IInv, CertInv
        <3>2. Certifies(doc', result) /\ doc'.issued_at = UnixToIso8601(t)
            BY <2>2, <3>1, DocumentOfResult
        <3>3. result \in reports
            BY <1>1 DEF IInv, ResultInv
        <3> QED  BY <1>1, <3>2, <3>3 DEF DocInv, Certifies
    <2> QED  BY <1>1, <2>1, <2>2
<1> QED  BY <1>2, <1>3, <1>4 DEF IInv

(* A command that stops short of its end, and those beside it.             *)
LEMMA OthersKeepIInv ==
    ASSUME IInv, RefuseWipe \/ IssueFails \/ Crash \/ VerifyCert \/ Tick
    PROVE  IInv'
<1>1. /\ UNCHANGED <<left, runs, line, wipe, result, cert, file, reports>>
      /\ phase' \in {phase, "idle"} /\ clock' \in clock..MaxClock
      /\ verdict' \in {"none", "valid", "invalid", "unreadable"}
    BY SessionOK DEF RefuseWipe, IssueFails, Crash, VerifyCert, Tick, IInv, TypeOK
<1>2. TypeOK' /\ CountInv' /\ NothingReportedTwice'
    BY <1>1, CountsStand DEF IInv, TypeOK, Running, file
<1>3. ASSUME NEW n PROVE n..clock \subseteq n..clock'
    BY <1>1 DEF IInv, TypeOK
<1>4. ResultInv'
    BY <1>1, <1>3 DEF IInv, ResultInv
<1>5. CertInv' /\ DocInv'
    BY <1>1, <1>3 DEF IInv, CertInv, DocInv, file, Certifies
<1> QED  BY <1>2, <1>4, <1>5 DEF IInv

(* Tallies, result, certificate and file agree through every command,      *)
(* failure and crash.                                                      *)
THEOREM SessionInvariant == Spec => []IInv
<1>1. IInv /\ [Next]_vars => IInv'
    <2>1. ASSUME IInv, UNCHANGED vars PROVE IInv'
        BY <2>1 DEF vars, file, wipe, IInv, TypeOK, CountInv, NothingReportedTwice,
                    ResultInv, CertInv, DocInv, Running, LinesFor, Certifies
    <2> QED  BY <2>1, BeginKeepsIInv, FileKeepsIInv, ReturnKeepsIInv, IssueKeepsIInv,
                OpenKeepsIInv, WriteKeepsIInv, OthersKeepIInv DEF Next, CmdWipe
<1> QED  BY InitIInv, <1>1, PTL DEF Spec

(* The tallies, clock and phases of the command keep to their ranges; a    *)
(* run never counts more files than the directory held.                    *)
THEOREM SessionTypeOK == Spec => []TypeOK
<1>1. IInv => TypeOK
    BY DEF IInv
<1> QED  BY SessionInvariant, <1>1, PTL

(* No file is counted in two reports, however often runs are broken off    *)
(* and repeated (WipePath's tallies, main.cpp's CmdWipe).                  *)
THEOREM SessionNothingReportedTwice == Spec => []NothingReportedTwice
<1>1. IInv => NothingReportedTwice
    BY DEF IInv
<1> QED  BY SessionInvariant, <1>1, PTL

(* A complete certificate file certifies a run that took place, was over   *)
(* when the certificate was issued, and counted only files that have gone. *)
THEOREM SessionCertificateIsOfARun == Spec => []CertificateIsOfARun
<1>1. IInv => CertificateIsOfARun
    BY DEF IInv, CountInv, DocInv, CertificateIsOfARun
<1> QED  BY SessionInvariant, <1>1, PTL

(* A run that has written its certificate leaves its own in the file.      *)
THEOREM SessionSavedIsOfThisRun == Spec => []SavedIsOfThisRun
<1>1. ASSUME IInv, phase = "saved", disk = "whole"
      PROVE  Certifies(doc, result) /\ doc.report[1] = runs
    <2>1. PICK t \in result.completed_at..clock : cert = Generate(result, runs, runs, t)
        BY <1>1 DEF IInv, CertInv
    <2>2. doc = ToJson(Generate(result, runs, runs, t))
        BY <1>1, <2>1 DEF IInv, CertInv
    <2>3. Certifies(doc, result) /\ doc.report = result.report
        BY <2>2, DocumentOfResult
    <2> QED  BY <1>1, <2>3 DEF IInv, ResultInv
<1>2. IInv => SavedIsOfThisRun
    BY <1>1 DEF SavedIsOfThisRun
<1> QED  BY SessionInvariant, <1>2, PTL

(***************************************************************************)
(* The command line                                                        *)
(***************************************************************************)

(* A set of numbers has a least one. *)
LEMMA Least ==
    ASSUME NEW T \in SUBSET Nat, T # {}
    PROVE  \E x \in T : \A y \in T : x <= y
<1> DEFINE upto == {0..n : n \in T}
<1>1. IsWellFoundedOn(StrictSubsetOrdering(Nat), FiniteSubsetsOf(Nat))
    BY FS_StrictSubsetOrderingWellFounded
<1>2. upto \subseteq FiniteSubsetsOf(Nat) /\ upto # {}
    <2>1. \A n \in Nat : IsFiniteSet(0..n)
        BY FS_Interval
    <2>2. \A n \in T : 0..n \subseteq Nat
        OBVIOUS
    <2> QED  BY <2>1, <2>2 DEF FiniteSubsetsOf
<1>3. PICK U \in upto : \A V \in upto : <<V, U>> \notin StrictSubsetOrdering(Nat)
    <2> HIDE DEF upto
    <2> QED  BY <1>1, <1>2, WFMin
<1>4. PICK x \in T : U = 0..x
    BY <1>3
<1>5. ASSUME NEW y \in T PROVE x <= y
    <2>1. SUFFICES ASSUME y < x PROVE FALSE
        OBVIOUS
    <2>2. 0..y \subseteq 0..x /\ 0..y # 0..x /\ 0..y \subseteq Nat /\ 0..x \subseteq Nat
        <3>1. x \in 0..x /\ x \notin 0..y
            BY <2>1
        <3> QED  BY <2>1, <3>1
    <2>3. <<0..y, 0..x>> \in StrictSubsetOrdering(Nat)
        BY <2>2 DEF StrictSubsetOrdering
    <2> QED  BY <1>3, <1>4, <2>3
<1> QED  BY <1>5

(* The arguments after each word are those of the word before, and of it   *)
(* (ParseArgs's loop ends).                                                *)
LEMMA ParsingIs ==
    ASSUME NEW l, Len(l) \in Nat
    PROVE  Parsing(l) = [i \in 0..Len(l) |->
                            IF i = 0 THEN NoArgs ELSE ParseWord(Parsing(l)[i - 1], l[i])]
<1> DEFINE Is(n, f) == f = [i \in 0..n |-> IF i = 0 THEN NoArgs ELSE ParseWord(f[i - 1], l[i])]
           Bad == {n \in Nat : n <= Len(l) /\ ~ \E f : Is(n, f)}
<1>1. Bad = {}
    <2>1. SUFFICES ASSUME Bad # {} PROVE FALSE
        OBVIOUS
    <2>2. PICK n \in Bad : \A m \in Bad : n <= m
        <3>1. Bad \in SUBSET Nat
            OBVIOUS
        <3> HIDE DEF Bad
        <3> QED  BY <2>1, <3>1, Least
    <2>3. CASE n = 0
        <3>1. Is(0, [i \in 0..0 |-> NoArgs])
            OBVIOUS
        <3> QED  BY <2>2, <2>3, <3>1
    <2>4. CASE n > 0
        <3>0. n \in Nat /\ n <= Len(l)
            BY <2>2
        <3>1. n - 1 \in Nat /\ n \in Nat /\ n - 1 <= Len(l) /\ n - 1 \notin Bad
            <4> HIDE DEF Bad
            <4> QED  BY <2>2, <2>4, <3>0
        <3>2. PICK g : Is(n - 1, g)
            BY <3>1
        <3> DEFINE f == [i \in 0..n |-> IF i = n THEN ParseWord(g[n - 1], l[n]) ELSE g[i]]
        <3>3. ASSUME NEW i \in 0..n
              PROVE  f[i] = IF i = 0 THEN NoArgs ELSE ParseWord(f[i - 1], l[i])
            <4>1. CASE i = n
                BY <2>4, <3>1, <4>1
            <4>2. CASE i # n
                <5>1. i \in 0..(n - 1) /\ (i > 0 => i - 1 \in 0..(n - 1))
                    BY <3>1, <4>2
                <5>2. g[i] = IF i = 0 THEN NoArgs ELSE ParseWord(g[i - 1], l[i])
                    BY <3>2, <5>1
                <5>3. f[i] = g[i] /\ (i > 0 => f[i - 1] = g[i - 1])
                    BY <3>1, <4>2, <5>1
                <5> QED  BY <5>1, <5>2, <5>3
            <4> QED  BY <4>1, <4>2
        <3>4. Is(n, f)
            BY <3>3
        <3> QED  BY <2>2, <3>4
    <2> QED  BY <2>2, <2>3, <2>4
<1>2. \E f : Is(Len(l), f)
    BY <1>1
<1> QED  BY <1>2 DEF Parsing

(* What the arguments say of the first n words of a line: each positional  *)
(* argument is a word that no option precedes, and each entry of the flags *)
(* that is no option follows the option that it is the value of.           *)
FromWords(a, l, n) ==
    /\ a.open \in BOOLEAN /\ (a.open = TRUE <=> n > 0 /\ l[n] \in Options)
    /\ \A j \in DOMAIN a.positional :
           \E i \in 1..n : l[i] = a.positional[j] /\ (i > 1 => l[i - 1] \notin Options)
    /\ a.open = TRUE => Len(a.flags) > 0 /\ a.flags[Len(a.flags)] = l[n]
    /\ \A j \in DOMAIN a.flags :
           a.flags[j] \in Options \/
              \E i \in 2..n : l[i] = a.flags[j] /\ j > 1 /\ l[i - 1] = a.flags[j - 1]

Arguments(W) == [positional : Seq(W), flags : Seq(W), open : BOOLEAN]

(* One more word is a positional argument, an option, or the value of the  *)
(* option before it (ParseArgs).                                           *)
LEMMA WordKeepsFromWords ==
    ASSUME NEW W, NEW l \in Seq(W), NEW n \in 1..Len(l),
           NEW a \in Arguments(W), FromWords(a, l, n - 1)
    PROVE  ParseWord(a, l[n]) \in Arguments(W) /\ FromWords(ParseWord(a, l[n]), l, n)
<1> DEFINE w == l[n]
           b == ParseWord(a, w)
<1>1. w \in W /\ n \in Nat /\ n > 0 /\ n - 1 \in Nat
    BY LenProperties, ElementOfSeq
<1>2. a.positional \in Seq(W) /\ a.flags \in Seq(W) /\ a.open \in BOOLEAN
    BY DEF Arguments
<1>3. /\ a.open = TRUE <=> n - 1 > 0 /\ l[n - 1] \in Options
      /\ \A j \in DOMAIN a.positional :
             \E i \in 1..n : l[i] = a.positional[j] /\ (i > 1 => l[i - 1] \notin Options)
      /\ a.open = TRUE => Len(a.flags) > 0 /\ a.flags[Len(a.flags)] = l[n - 1]
      /\ \A j \in DOMAIN a.flags :
             a.flags[j] \in Options \/
                \E i \in 2..n : l[i] = a.flags[j] /\ j > 1 /\ l[i - 1] = a.flags[j - 1]
    <2>1. 1..(n - 1) \subseteq 1..n /\ 2..(n - 1) \subseteq 2..n
        BY <1>1
    <2> QED  BY <2>1 DEF FromWords
<1> DEFINE added == Append(a.flags, w)
<1>4. /\ added \in Seq(W) /\ Len(added) = Len(a.flags) + 1 /\ Len(a.flags) \in Nat
      /\ DOMAIN added = 1..Len(a.flags) + 1 /\ DOMAIN a.flags = 1..Len(a.flags)
      /\ added[Len(a.flags) + 1] = w
      /\ \A j \in 1..Len(a.flags) : added[j] = a.flags[j]
    BY <1>1, <1>2, AppendProperties, LenProperties
<1>5. ASSUME w \in Options \/ a.open = TRUE
      PROVE  \A j \in DOMAIN added :
                 added[j] \in Options \/
                    \E i \in 2..n : l[i] = added[j] /\ j > 1 /\ l[i - 1] = added[j - 1]
    <2>1. ASSUME NEW j \in 1..Len(a.flags)
          PROVE  added[j] \in Options \/
                    \E i \in 2..n : l[i] = added[j] /\ j > 1 /\ l[i - 1] = added[j - 1]
        <3>1. /\ j \in DOMAIN a.flags /\ added[j] = a.flags[j]
              /\ (j > 1 => added[j - 1] = a.flags[j - 1])
            BY <1>4
        <3> QED  BY <1>3, <3>1
    <2>2. ASSUME w \notin Options
          PROVE  LET j == Len(a.flags) + 1
                 IN  \E i \in 2..n : l[i] = added[j] /\ j > 1 /\ l[i - 1] = added[j - 1]
        <3>1. /\ Len(a.flags) > 0 /\ a.flags[Len(a.flags)] = l[n - 1] /\ n \in 2..n
            BY <1>1, <1>3, <1>5, <2>2
        <3>2. l[n] = added[Len(a.flags) + 1] /\ l[n - 1] = added[Len(a.flags) + 1 - 1]
            BY <1>4, <3>1
        <3> QED  BY <1>4, <3>1, <3>2
    <2>3. ASSUME NEW j \in DOMAIN added
          PROVE  added[j] \in Options \/
                    \E i \in 2..n : l[i] = added[j] /\ j > 1 /\ l[i - 1] = added[j - 1]
        <3>1. j \in 1..Len(a.flags) \/ j = Len(a.flags) + 1
            BY <1>4
        <3>2. CASE j = Len(a.flags) + 1 /\ w \in Options
            BY <1>4, <3>2
        <3>3. CASE j = Len(a.flags) + 1 /\ w \notin Options
            <4> HIDE DEF added, w
            <4> QED  BY <2>2, <3>3
        <3> QED  BY <2>1, <3>1, <3>2, <3>3
    <2> QED  BY <2>3
<1>6. CASE w \in Options
    <2>1. b = [positional |-> a.positional, flags |-> added, open |-> TRUE]
        BY <1>6 DEF ParseWord, Arguments
    <2>2. b \in Arguments(W)
        BY <1>2, <1>4, <2>1 DEF Arguments
    <2>3. b.positional = a.positional /\ b.flags = added /\ b.open = TRUE
        BY <2>1
    <2>4. FromWords(b, l, n)
        <3>1. \A j \in DOMAIN b.flags :
                 b.flags[j] \in Options \/
                    \E i \in 2..n : l[i] = b.flags[j] /\ j > 1 /\ l[i - 1] = b.flags[j - 1]
            BY <1>5, <1>6, <2>3
        <3>2. Len(b.flags) > 0 /\ b.flags[Len(b.flags)] = l[n]
            BY <1>4, <2>3
        <3> HIDE DEF b, added
        <3>3. b.open \in BOOLEAN /\ (b.open = TRUE <=> n > 0 /\ l[n] \in Options)
            BY <1>1, <1>6, <2>3
        <3>4. \A j \in DOMAIN b.positional :
                 \E i \in 1..n : l[i] = b.positional[j] /\ (i > 1 => l[i - 1] \notin Options)
            BY <1>3, <2>3
        <3> QED  BY <3>1, <3>2, <3>3, <3>4 DEF FromWords
    <2> QED  BY <2>2, <2>4
<1>7. CASE w \notin Options /\ a.open = TRUE
    <2>1. b = [positional |-> a.positional, flags |-> added, open |-> FALSE]
        BY <1>7 DEF ParseWord, Arguments
    <2>2. b \in Arguments(W)
        BY <1>2, <1>4, <2>1 DEF Arguments
    <2>3. b.positional = a.positional /\ b.flags = added /\ b.open = FALSE
        BY <2>1
    <2>4. FromWords(b, l, n)
        <3>1. \A j \in DOMAIN b.flags :
                 b.flags[j] \in Options \/
                    \E i \in 2..n : l[i] = b.flags[j] /\ j > 1 /\ l[i - 1] = b.flags[j - 1]
            BY <1>5, <1>7, <2>3
        <3> HIDE DEF b, added
        <3>2. b.open \in BOOLEAN /\ b.open # TRUE /\ ~(n > 0 /\ l[n] \in Options)
            BY <1>7, <2>3
        <3>3. \A j \in DOMAIN b.positional :
                 \E i \in 1..n : l[i] = b.positional[j] /\ (i > 1 => l[i - 1] \notin Options)
            BY <1>3, <2>3
        <3> QED  BY <3>1, <3>2, <3>3 DEF FromWords
    <2> QED  BY <2>2, <2>4
<1>8. CASE w \notin Options /\ a.open = FALSE
    <2> DEFINE more == Append(a.positional, w)
    <2>1. b = [positional |-> more, flags |-> a.flags, open |-> FALSE]
        BY <1>8 DEF ParseWord, Arguments
    <2>2. /\ more \in Seq(W) /\ Len(a.positional) \in Nat
          /\ DOMAIN more = 1..Len(a.positional) + 1 /\ DOMAIN a.positional = 1..Len(a.positional)
          /\ more[Len(a.positional) + 1] = w
          /\ \A j \in 1..Len(a.positional) : more[j] = a.positional[j]
        BY <1>1, <1>2, AppendProperties, LenProperties
    <2>3. b \in Arguments(W)
        BY <1>2, <2>1, <2>2 DEF Arguments
    <2>4. b.positional = more /\ b.flags = a.flags /\ b.open = FALSE
        BY <2>1
    <2>5. \A j \in DOMAIN more :
              \E i \in 1..n : l[i] = more[j] /\ (i > 1 => l[i - 1] \notin Options)
        <3>1. ASSUME NEW j \in 1..Len(a.positional)
              PROVE  \E i \in 1..n : l[i] = more[j] /\ (i > 1 => l[i - 1] \notin Options)
            BY <1>3, <2>2
        <3>2. n \in 1..n /\ (n > 1 => l[n - 1] \notin Options)
            BY <1>1, <1>3, <1>8
        <3>3. l[n] = more[Len(a.positional) + 1]
            BY <2>2
        <3>4. ASSUME NEW j \in DOMAIN more
              PROVE  j \in 1..Len(a.positional) \/ j = Len(a.positional) + 1
            BY <2>2
        <3> HIDE DEF more
        <3> QED  BY <3>1, <3>2, <3>3, <3>4
    <2>6. FromWords(b, l, n)
        <3> HIDE DEF b, more
        <3>1. b.open \in BOOLEAN /\ b.open # TRUE /\ ~(n > 0 /\ l[n] \in Options)
            BY <1>8, <2>4
        <3>2. \A j \in DOMAIN b.positional :
                 \E i \in 1..n : l[i] = b.positional[j] /\ (i > 1 => l[i - 1] \notin Options)
            BY <2>4, <2>5
        <3>3. \A j \in DOMAIN b.flags :
                 b.flags[j] \in Options \/
                    \E i \in 2..n : l[i] = b.flags[j] /\ j > 1 /\ l[i - 1] = b.flags[j - 1]
            BY <1>3, <2>4
        <3> QED  BY <3>1, <3>2, <3>3 DEF FromWords
    <2> QED  BY <2>3, <2>6
<1> QED  BY <1>2, <1>6, <1>7, <1>8

(* The arguments come from the words of the line (ParseArgs). *)
LEMMA ArgumentsFromWords ==
    ASSUME NEW W, NEW l \in Seq(W)
    PROVE  ParseArgs(l) \in Arguments(W) /\ FromWords(ParseArgs(l), l, Len(l))
<1> DEFINE Ok(n) == Parsing(l)[n] \in Arguments(W) /\ FromWords(Parsing(l)[n], l, n)
           Bad == {n \in Nat : n <= Len(l) /\ ~ Ok(n)}
<1>1. Len(l) \in Nat
    BY LenProperties
<1>2. \A n \in 0..Len(l) :
          Parsing(l)[n] = IF n = 0 THEN NoArgs ELSE ParseWord(Parsing(l)[n - 1], l[n])
    <2>1. Parsing(l) = [i \in 0..Len(l) |->
                            IF i = 0 THEN NoArgs ELSE ParseWord(Parsing(l)[i - 1], l[i])]
        BY <1>1, ParsingIs
    <2> DEFINE f == Parsing(l)
    <2> HIDE DEF f
    <2>2. f = [i \in 0..Len(l) |-> IF i = 0 THEN NoArgs ELSE ParseWord(f[i - 1], l[i])]
        BY <2>1 DEF f
    <2>3. \A n \in 0..Len(l) : f[n] = IF n = 0 THEN NoArgs ELSE ParseWord(f[n - 1], l[n])
        BY <2>2
    <2> QED  BY <2>3 DEF f
<1>3. Bad = {}
    <2>1. SUFFICES ASSUME Bad # {} PROVE FALSE
        OBVIOUS
    <2>2. PICK n \in Bad : \A m \in Bad : n <= m
        <3>1. Bad \in SUBSET Nat
            OBVIOUS
        <3> HIDE DEF Bad
        <3> QED  BY <2>1, <3>1, Least
    <2>3. CASE n = 0
        <3>1. Parsing(l)[0] = NoArgs
            BY <1>1, <1>2
        <3>2. <<>> \in Seq(W)
            BY EmptySeq
        <3>3. /\ NoArgs.positional = <<>> /\ NoArgs.flags = <<>> /\ NoArgs.open = FALSE
              /\ NoArgs \in Arguments(W) /\ DOMAIN <<>> = {}
            BY <3>2 DEF NoArgs, Arguments
        <3>4. FromWords(NoArgs, l, 0)
            <4>1. NoArgs.open \in BOOLEAN /\ NoArgs.open # TRUE
                BY <3>3, Zenon
            <4>2. ~(0 > 0)
                OBVIOUS
            <4>3. DOMAIN NoArgs.positional = {} /\ DOMAIN NoArgs.flags = {}
                BY <3>3
            <4> QED  BY <4>1, <4>2, <4>3 DEF FromWords
        <3> QED  BY <2>2, <2>3, <3>1, <3>3, <3>4
    <2>4. CASE n > 0
        <3>1. n \in 1..Len(l) /\ n - 1 \in Nat /\ n - 1 \notin Bad /\ n - 1 <= Len(l)
            BY <1>1, <2>2, <2>4
        <3>2. Ok(n - 1)
            BY <3>1
        <3>3. Parsing(l)[n] = ParseWord(Parsing(l)[n - 1], l[n])
            BY <1>1, <1>2, <3>1
        <3>4. Ok(n)
            BY <3>1, <3>2, <3>3, WordKeepsFromWords
        <3> QED  BY <2>2, <3>4
    <2> QED  BY <2>2, <2>3, <2>4
<1>4. Ok(Len(l))
    BY <1>1, <1>3
<1> QED  BY <1>4 DEF ParseArgs

(* The target is a word that no option precedes (CmdWipe). *)
LEMMA TargetIsAWord ==
    ASSUME NEW W, NEW l \in Seq(W), WipeTarget(ParseArgs(l)) # NoPath
    PROVE  \E i \in DOMAIN l : /\ l[i] = WipeTarget(ParseArgs(l))
                               /\ i > 1 => l[i - 1] \notin Options
<1> DEFINE a == ParseArgs(l)
<1>1. a \in Arguments(W) /\ FromWords(a, l, Len(l))
    BY ArgumentsFromWords
<1> HIDE DEF a
<1>2. a.positional \in Seq(W)
    BY <1>1 DEF Arguments
<1>3. a.positional # <<>> /\ WipeTarget(a) = a.positional[1]
    BY DEF WipeTarget, a
<1>4. 1 \in DOMAIN a.positional
    BY <1>2, <1>3, EmptySeq, LenProperties
<1>5. \E i \in 1..Len(l) : l[i] = a.positional[1] /\ (i > 1 => l[i - 1] \notin Options)
    BY <1>1, <1>4 DEF FromWords
<1> QED  BY <1>3, <1>5, LenProperties DEF a

(* A certificate that is no option is the word after --cert-out            *)
(* (Args::get).                                                            *)
LEMMA CertOutIsAWord ==
    ASSUME NEW W, NEW l \in Seq(W), NEW c, CertOut(ParseArgs(l)) = c, c # NoPath, c \notin Options
    PROVE  \E i \in DOMAIN l \ {1} : l[i] = c /\ l[i - 1] = "--cert-out"
<1> DEFINE a  == ParseArgs(l)
           at == {i \in 1..Len(a.flags) - 1 : a.flags[i] = "--cert-out"}
<1>1. a \in Arguments(W) /\ FromWords(a, l, Len(l))
    BY ArgumentsFromWords
<1>2. CertOut(a) = IF at = {} THEN NoPath
                   ELSE a.flags[(CHOOSE i \in at : \A j \in at : i <= j) + 1]
    BY DEF CertOut, Get
<1> HIDE DEF a
<1>3. a.flags \in Seq(W) /\ Len(a.flags) \in Nat /\ DOMAIN a.flags = 1..Len(a.flags)
    BY <1>1, LenProperties DEF Arguments
<1>4. PICK k \in at : a.flags[k + 1] = c
    <2>1. at # {} /\ at \in SUBSET Nat
        BY <1>2, <1>3 DEF a
    <2>2. (CHOOSE i \in at : \A j \in at : i <= j) \in at
        <3> HIDE DEF at
        <3>1. \E i \in at : \A j \in at : i <= j
            BY <2>1, Least
        <3> QED  BY <3>1
    <2>3. a.flags[(CHOOSE i \in at : \A j \in at : i <= j) + 1] = c
        BY <1>2, <2>1 DEF a
    <2> HIDE DEF at
    <2> QED  BY <2>2, <2>3
<1>5. k + 1 \in DOMAIN a.flags /\ a.flags[k] = "--cert-out" /\ k \in Nat
    BY <1>3
<1>6. PICK i \in 2..Len(l) : l[i] = c /\ l[i - 1] = a.flags[k + 1 - 1]
    BY <1>1, <1>4, <1>5 DEF FromWords
<1>7. i \in DOMAIN l \ {1}
    BY LenProperties
<1>8. k + 1 - 1 = k
    BY <1>5
<1> QED  BY <1>5, <1>6, <1>7, <1>8

(* An opened file is the one that the line names. *)
OpenedInv == phase = "opened" => CertOut(ParseArgs(line)) = Cert

(* The line stays while the command runs (OpenCertificate). *)
LEMMA OpenedInvStep ==
    ASSUME TypeOK, OpenedInv, [Next]_vars
    PROVE  OpenedInv'
<1>1. CASE BeginWipe
    BY <1>1 DEF BeginWipe, OpenedInv
<1>2. CASE OpenCertificate
    BY <1>2 DEF OpenCertificate, OpenedInv
<1>3. CASE UNCHANGED vars
    BY <1>3 DEF vars, OpenedInv
<1>4. CASE RefuseWipe \/ WipeFile \/ WipePathReturns \/ IssueCertificate \/ IssueFails
              \/ WriteCertificate \/ Crash \/ VerifyCert \/ Tick
    BY <1>4 DEF RefuseWipe, WipeFile, WipePathReturns, IssueCertificate, IssueFails,
                WriteCertificate, Crash, VerifyCert, Tick, OpenedInv
<1> QED  BY <1>1, <1>2, <1>3, <1>4 DEF Next, CmdWipe

(* However a line is written, files go only if its target is a word of its *)
(* own, and a certificate file changes only if its name stands after the   *)
(* option (ParseArgs, CmdWipe).                                            *)
THEOREM SessionLineIsObeyed == Spec => LineIsObeyed
<1> DEFINE Obeyed ==
        /\ left' # left =>
              \E i \in DOMAIN line : line[i] = Dir /\ (i > 1 => line[i - 1] \notin Options)
        /\ file' # file =>
              \E i \in DOMAIN line \ {1} : line[i] = Cert /\ line[i - 1] = "--cert-out"
<1>1. Init => OpenedInv
    BY DEF Init, OpenedInv
<1>2. ASSUME TypeOK, Running
      PROVE  /\ line \in Seq(STRING) /\ WipeTarget(ParseArgs(line)) = Dir /\ Dir # NoPath
             /\ Cert # NoPath /\ Cert \notin Options
    BY <1>2, SessionOK DEF TypeOK, LinesFor
<1>3. ASSUME TypeOK, WipeFile PROVE Obeyed
    <2>1. file' = file /\ Running
        BY <1>3 DEF WipeFile, Running
    <2> QED  BY <1>2, <1>3, <2>1, TargetIsAWord
<1>4. ASSUME TypeOK, OpenedInv, OpenCertificate \/ WriteCertificate PROVE Obeyed
    <2>1. left' = left /\ Running
        BY <1>4 DEF OpenCertificate, WriteCertificate, Running
    <2>2. CASE file' = file
        BY <2>1, <2>2
    <2>3. CASE file' # file
        <3>1. CertOut(ParseArgs(line)) = Cert
            BY <1>4, <2>3 DEF OpenCertificate, WriteCertificate, OpenedInv, file
        <3>2. \E i \in DOMAIN line \ {1} : line[i] = Cert /\ line[i - 1] = "--cert-out"
            BY <1>2, <1>4, <2>1, <3>1, CertOutIsAWord
        <3> QED  BY <2>1, <3>2
    <2> QED  BY <2>2, <2>3
<1>5. ASSUME RefuseWipe \/ BeginWipe \/ WipePathReturns \/ IssueCertificate \/ IssueFails
                \/ Crash \/ VerifyCert \/ Tick
      PROVE  Obeyed
    <2>1. left' = left /\ file' = file
        BY <1>5 DEF RefuseWipe, BeginWipe, WipePathReturns, IssueCertificate, IssueFails, Crash,
                    VerifyCert, Tick
    <2> QED  BY <2>1
<1> HIDE DEF Obeyed
<1>6. TypeOK /\ OpenedInv /\ [Next]_vars => [Obeyed]_vars
    BY <1>3, <1>4, <1>5 DEF Next, CmdWipe
<1>7. TypeOK /\ OpenedInv /\ [Next]_vars => OpenedInv'
    BY OpenedInvStep
<1>8. Spec => [][Obeyed]_vars
    BY SessionTypeOK, <1>1, <1>6, <1>7, PTL DEF Spec
<1> QED  BY <1>8 DEF LineIsObeyed, Obeyed

================================================================================
