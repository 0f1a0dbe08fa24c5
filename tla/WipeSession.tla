------------------------------ MODULE WipeSession ------------------------------
(***************************************************************************)
(* The commands `wipe --cert-out` and `verify-cert` (main.cpp) on one      *)
(* directory and one certificate file: the wipe may be broken off between  *)
(* any two files, fail to issue or to write its certificate, and be run    *)
(* again, which replaces the file; somebody verifies the file at any time. *)
(* How a single file is wiped is the matter of WipeEngine.                 *)
(***************************************************************************)
EXTENDS Certificate, CommandLine

CONSTANTS
    Files,      \* how many files the directory holds
    Dir, Cert,  \* the names of the directory and of the certificate file
    Lines,      \* the command lines of `wipe`
    MaxRuns,    \* bound: times the wipe is run
    MaxClock,   \* bound: the seconds that pass
    Faults      \* what may fail: "crash", "file", "generate", "open", "write"

(* A command line is words; neither name is an option, nor empty.          *)
ASSUME SessionOK ==
    /\ Files \in Nat /\ MaxRuns \in Nat /\ MaxClock \in Nat \ {0}
    /\ Faults \subseteq {"crash", "file", "generate", "open", "write"}
    /\ Lines \subseteq Seq(STRING) /\ NoPath \notin {Dir, Cert}
    /\ {Dir, Cert} \cap Options = {} /\ "nist-clear" \in Methods

VARIABLES
    clock, left,            \* NowUnix; the files that still exist
    phase, runs,            \* where CmdWipe stands; how often it was started
    line,                   \* the command line of the run, or of the latest
    todo, started_at, wiped, failed,    \* the loop of WipePath
    result, cert,           \* what it returned, and the certificate of it
    disk, doc,              \* the certificate file: its state, its contents
    verdict,                \* what verify-cert said last
    reports                 \* every result so far

wipe == <<todo, started_at, wiped, failed>>
file == <<disk, doc>>
vars == <<clock, left, phase, runs, line, wipe, result, cert, file, verdict, reports>>

NoResult == [started_at |-> 0, completed_at |-> 0, report |-> <<0, 0, 0>>]
NoCert   == Generate(NoResult, 0, 0, 0)

(* The lines that wipe path p. *)
LinesFor(p) == {l \in Lines : ~WipeRefused(ParseArgs(l)) /\ WipeTarget(ParseArgs(l)) = p}

Running == phase \in {"wiping", "wiped", "issued", "opened"}

TypeOK ==
    /\ clock \in 1..MaxClock /\ left \in 0..Files /\ runs \in 0..MaxRuns
    /\ line \in Lines \cup {<<>>} /\ (Running => line \in LinesFor(Dir))
    /\ phase \in {"idle", "wiping", "wiped", "issued", "opened", "saved"}
    /\ todo \in 0..left /\ wiped \in 0..Files /\ failed \in 0..Files
    /\ started_at \in 0..clock
    /\ disk \in {"none", "partial", "whole"}
    /\ verdict \in {"none", "valid", "invalid", "unreadable"}

Init ==
    /\ clock = 1 /\ left = Files /\ phase = "idle" /\ runs = 0 /\ line = <<>>
    /\ todo = 0 /\ started_at = 0 /\ wiped = 0 /\ failed = 0
    /\ result = NoResult /\ cert = NoCert /\ disk = "none" /\ doc = NoCert
    /\ verdict = "none" /\ reports = {}

(* The tallies are not reset: they go on from the run before. *)
BeginWipeStale ==
    /\ ~Running /\ runs < MaxRuns
    /\ line' \in LinesFor(Dir)
    /\ phase' = "wiping" /\ runs' = runs + 1
    /\ todo' = left /\ started_at' = clock
    /\ UNCHANGED <<clock, left, wiped, failed, result, cert, file, verdict, reports>>

(* The usage is printed, or ParseWipeMethod throws. *)
RefuseWipe ==
    /\ ~Running
    /\ \E l \in Lines : WipeRefused(ParseArgs(l))
    /\ phase' = "idle"
    /\ UNCHANGED <<clock, left, runs, line, wipe, result, cert, file, verdict, reports>>

(* WipePath lists the files; the directory itself is never removed.        *)
BeginWipe ==
    /\ ~Running /\ runs < MaxRuns
    /\ line' \in LinesFor(Dir)
    /\ phase' = "wiping" /\ runs' = runs + 1
    /\ todo' = left /\ started_at' = clock /\ wiped' = 0 /\ failed' = 0
    /\ UNCHANGED <<clock, left, result, cert, file, verdict, reports>>

WipeFile ==
    /\ phase = "wiping" /\ todo > 0
    /\ todo' = todo - 1
    /\ \/ left' = left - 1 /\ wiped' = wiped + 1 /\ UNCHANGED failed
       \/ "file" \in Faults /\ failed' = failed + 1 /\ UNCHANGED <<left, wiped>>
    /\ UNCHANGED <<clock, phase, runs, line, started_at, result, cert, file, verdict, reports>>

(* Without --cert-out, or a word after it, the command is over.            *)
WipePathReturns ==
    /\ phase = "wiping" /\ todo = 0
    /\ phase' = IF CertOut(ParseArgs(line)) = NoPath THEN "idle" ELSE "wiped"
    /\ result' = [started_at |-> started_at, completed_at |-> clock,
                  report |-> <<runs, wiped, failed>>]
    /\ reports' = reports \cup {result'}
    /\ UNCHANGED <<clock, left, runs, line, wipe, cert, file, verdict>>

(* WipeCertificate::Generate; the run's number stands for the UUID and for *)
(* the fresh key.                                                          *)
IssueCertificate ==
    /\ phase = "wiped"
    /\ phase' = "issued" /\ cert' = Generate(result, runs, runs, clock)
    /\ UNCHANGED <<clock, left, runs, line, wipe, result, file, verdict, reports>>

(* The failure is swallowed, and the certificate at hand is saved.         *)
IssueFailsQuietly ==
    /\ phase = "wiped" /\ "generate" \in Faults
    /\ phase' = "issued"
    /\ UNCHANGED <<clock, left, runs, line, wipe, result, cert, file, verdict, reports>>

(* No key, or a path that is not UTF-8 in the payload: the exception ends  *)
(* the command, with the files gone.                                       *)
IssueFails ==
    /\ phase = "wiped" /\ "generate" \in Faults
    /\ phase' = "idle"
    /\ UNCHANGED <<clock, left, runs, line, wipe, result, cert, file, verdict, reports>>

(* SaveJson opens the file, which empties it ...  An option in the place   *)
(* of the path is the name of another file.                                *)
OpenCertificate ==
    /\ phase = "issued"
    /\ \/ CertOut(ParseArgs(line)) = Cert /\ phase' = "opened" /\ disk' = "partial"
       \/ CertOut(ParseArgs(line)) # Cert /\ phase' = "idle" /\ UNCHANGED disk
       \/ "open" \in Faults /\ phase' = "idle" /\ UNCHANGED disk
    /\ UNCHANGED <<clock, left, runs, line, wipe, result, cert, doc, verdict, reports>>

(* ... and writes the document; whether that worked is not asked, and the  *)
(* command says "Certificate saved".                                       *)
WriteCertificate ==
    /\ phase = "opened"
    /\ phase' = "saved"
    /\ \/ disk' = "whole" /\ doc' = ToJson(cert)
       \/ "write" \in Faults /\ UNCHANGED file
    /\ UNCHANGED <<clock, left, runs, line, wipe, result, cert, verdict, reports>>

Crash ==
    /\ Running /\ "crash" \in Faults
    /\ phase' = "idle"
    /\ UNCHANGED <<clock, left, runs, line, wipe, result, cert, file, verdict, reports>>

(* CmdVerifyCert: LoadJson and VerifySelf. *)
VerifyCert ==
    /\ disk # "none"
    /\ verdict' = IF disk = "partial" THEN "unreadable"
                  ELSE IF VerifySelf(LoadJson(doc, clock)) THEN "valid" ELSE "invalid"
    /\ UNCHANGED <<clock, left, phase, runs, line, wipe, result, cert, file, reports>>

Tick ==
    /\ clock < MaxClock
    /\ clock' = clock + 1
    /\ UNCHANGED <<left, phase, runs, line, wipe, result, cert, file, verdict, reports>>

CmdWipe ==
    \/ RefuseWipe \/ BeginWipe \/ WipeFile \/ WipePathReturns
    \/ IssueCertificate \/ IssueFails \/ OpenCertificate \/ WriteCertificate

Next == CmdWipe \/ Crash \/ VerifyCert \/ Tick

Spec == Init /\ [][Next]_vars

(***************************************************************************)
(* Properties                                                              *)
(***************************************************************************)

(* The fields of document d that record a run are those of result r.       *)
Certifies(d, r) ==
    /\ d.report = r.report
    /\ d.started_at = UnixToIso8601(r.started_at)
    /\ d.completed_at = UnixToIso8601(r.completed_at)
    /\ d.duration_seconds = r.completed_at - r.started_at

(* However runs crash, fail and are repeated, a complete certificate file  *)
(* certifies a run that took place and was over when it was issued, and    *)
(* counts no more files than have gone.                                    *)
CertificateIsOfARun ==
    disk = "whole" =>
        \E r \in reports :
            /\ Certifies(doc, r) /\ r.report[2] <= Files - left
            /\ \E t \in r.completed_at..clock : doc.issued_at = UnixToIso8601(t)

(* No file is counted in two reports: the runs together report no more     *)
(* files than have gone, whatever was broken off in between.               *)
NothingReportedTwice ==
    \A r, s \in reports : r # s => r.report[2] + s.report[2] <= Files - left

(* A run that has written its certificate leaves the certificate of that   *)
(* very run, not one of an earlier run.                                    *)
SavedIsOfThisRun ==
    phase = "saved" /\ disk = "whole" => Certifies(doc, result) /\ doc.report[1] = runs

(* However words and options are mixed, files are wiped only if the name   *)
(* of their directory is a word of its own, and the certificate file is    *)
(* touched only if its name stands after --cert-out: what an option takes  *)
(* for its value is never taken for the target (main.cpp, ParseArgs).      *)
LineIsObeyed ==
    [][/\ left' # left =>
            \E i \in DOMAIN line :
                line[i] = Dir /\ (i > 1 => line[i - 1] \notin Options)
       /\ file' # file =>
            \E i \in DOMAIN line \ {1} : line[i] = Cert /\ line[i - 1] = "--cert-out"]_vars

(* certificate.cpp:395, "best-effort; not used in verification": a         *)
(* certificate file that nobody has changed is found valid.                *)
SavedCertificateVerifies == verdict # "invalid"

==============================================================================
