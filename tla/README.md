# SecureWipe: TLA+ models, checks and proofs

This directory holds a TLA+ development of SecureWipe, the command line program
in `src/`: it overwrites files and volumes, issues signed certificates of what it
wiped, looks for hidden storage, scans a disk's metadata into SQLite and analyses
it, and monitors an NTFS volume's change journal. The modules follow the code call
by call where the order of the calls matters, TLC checks them on small instances,
and TLAPS proves the safety properties for all instances; only liveness is left to TLC
alone.

## The system

SecureWipe is a single-threaded Windows program. Each command is one process that
makes blocking calls. What makes it hard is what happens *between* its calls: the
files, the volume, the journal and the SQLite file are shared with every other
process of the machine, any call may fail, and the process may be killed.

| Part | State it keeps | Operations | Talks to | What makes it correct |
|---|---|---|---|---|
| Wipe methods (`wipe_engine.*`) | none | `BuildPasses` | both wipes | each method has the passes the documentation promises |
| File wipe (`WipeEngine::WipePath`) | list of files, error list, tallies; per file: sampled size, pass, offset | `CollectFiles`, `WipeFile`, delete, verify | file system | what the result says is true of the disk; a file is unlinked only after every pass covered it; it ends |
| Volume wipe (`WipeEngine::WipeVolume`) | pass, offset, the handle's file pointer | one loop over passes and chunks | raw volume | a result means every pass covered every sector, whatever was short, refused or ignored |
| Hidden storage detector (`detection.*`) | one report | `Detect`: open, length, native size, compare | device | an alarm is true; what it misses was out of its sight and not called safe |
| Certificate (`certificate.*`) | one document | `Generate`, `VerifySelf`, `SaveJson`, `LoadJson` | OpenSSL, file system | it is that of a real run, and verifies later |
| Commands and command line (`main.cpp`) | none between runs but the files they leave | `ParseArgs`, `Args::get`, `wipe`, `verify-cert`, ... | all parts | crashes and reruns never count a file twice; an option's value is never taken for the target |
| Change monitor (`usn_tracker.*`) | cursor, journal id, a batch | `PollRecords`, `InsertUsnEvent`, Ctrl-C | NTFS journal, store | in order, once, nothing behind the cursor lost; Ctrl-C ends it |
| Scanner (`scanner.*`) | recursion over directories, counters | `ScanDir`, `CollectMetadata` | file system, store | every file accounted for; counts agree with the rows |
| Store (`db.*`) | tables `file_metadata`, `usn_events`, `wipe_log` | `UpsertFile`, `InsertUsnEvent`, `StaleFiles` | SQLite | no busy timeout: a statement that meets a lock fails at once |
| ROT analysis (`optimizer.*`) | a threshold, one report | `Analyze`, `ClassifyRot` | store | no unused file is missing, a row is true of the moment it was read at, each in one category, totals agree |
| NTFS compression (`optimizer.*`) | the size before | `CompressFile`, `DecompressFile` | file system | the savings it reports exist |
| Idle profiler (`idle_profiler.*`) | one sample | `Sample`, `WaitUntilIdle`, `RunWhenIdle` | system counters | runs work only on a machine found idle, and does get to run it |
| Dashboard | none | estimates in floating point, printed | | |

The hard behaviours are listed one by one, with their lines, under `hazards` in
`PROJECT.json`, each with the properties that are about it.

## The modules

| Module | Models |
|---|---|
| `WipeMethods` | the methods and their schedules of passes |
| `SecureErase` | abstract: what a file wipe promises |
| `WipeEngine` | `WipePath` with `CollectFiles` and `WipeFile`, and the other processes; implements `SecureErase` |
| `VolumeWipe` | `WipeVolume`, the device, and a mounted file system |
| `HpaDetect` | `HiddenStorageDetector` |
| `DriveErasure` | `HpaDetect` and then `VolumeWipe` on one drive |
| `ChangeLog` | abstract: what a change monitor promises |
| `UsnMonitor` | `UsnJournalTracker`, `InsertUsnEvent`, the journal, signals, restarts; implements `ChangeLog` |
| `MetadataScan` | `MetadataScanner`, `UpsertFile`, the tree, the store's lock, kills |
| `RotAnalysis` | `StaleFiles` and `RotAnalyzer`, scans that replace rows meanwhile, and the files themselves |
| `Certificate` | what is hashed, signed, written, read back and verified (operators only) |
| `CommandLine` | `ParseArgs` and `Args::get` (operators only) |
| `WipeSession` | the commands `wipe --cert-out` and `verify-cert` over command lines, runs and crashes; it uses `Certificate` and `CommandLine` |
| `IdleProfiler` | `IdleProfiler`, on a tick count that wraps |
| `NtfsOptimizer` | `NtfsOptimizer`, while others write to the file |
| `IdleWork` | `IdleProfiler` with `NtfsOptimizer` as the function it runs |
| `MC...` | the values of the constants for TLC |
| `...Proofs` | theorems and their proofs |

`map` in `PROJECT.json` names the lines each definition stands for.
Every module also holds a few operators that no specification uses (the comment
above each says what is wrong with it): they are faults a programmer could have
made, such as `DeleteFailsSilently`. Put in the place of the definition after them, each
makes some property fail, which shows that the property depends on that code.

### WipeEngine and SecureErase

A file is a sequence of units; a unit is 0 while it is user data and `k` once pass
`k` was the last to overwrite it. One step is one system call: `StatFile` samples
the size, `OpenPass` opens the file by path once per pass, `WriteChunk` is one
`WriteFile` that may write less than asked, `DeleteFile` unlinks, `CheckGone` is one
`fs::exists`. `WipeFails` and `StatFails` are the exceptions that the loop of
`WipePath` catches; `CheckThrows` and `CollectThrows` are the ones it does not.
Between any two steps other processes may append to a file, delete it, or create it
again (`Grow`, `Remove`, `Create`), under the sharing mode the code asks for:
nobody can delete a file while the handle of a pass is open. Three facts of
the disk are kept beside what the program sees: `residue`, the files whose data went
to free space unoverwritten, `touched`, the files that others wrote to, and `unseen`,
those they made anew where the engine has neither opened the path nor looked for it since.

`SuccessMeansErased`, `EveryFileAccounted`, `BytesMatchErased` and
`VerifiedMeansGone` relate the result to the disk. `UnlinkOnlyErased` and
`PassesInOrder` speak of single steps. Files that others wrote to are not left out where
the code does reach them: a file that was appended to, or made anew between two passes,
is unlinked only when the last pass has covered it as far as the size was sampled
(`UnlinkOnlyErased`), and a verification that passed has found it gone however often it was
made anew before the look (`VerifiedMeansGone`). `passes_completed` is the length of the
schedule whatever happened, so nothing can be said of it.

`SecureErase` has none of the calls. A file is in one of six states: its data can be
read, has been overwritten at least once all over (*scrubbed*), has had its last pass
(*erased*), is *gone*, was unlinked by others with its data (*lost*), or was written by
others (*foreign*). It moves forward only; a run ends clean only if nothing is
reported and every listed file is gone or foreign. `StateOf` reads these states off a
file's units, and `ImplementsSecureErase` says that each call is a step of
`SecureErase` or none.

### VolumeWipe

The volume is an array of cells with the same counting of passes. `ToWrite` is the
rounding to 4096 bytes; `Written` says what an unbuffered write may do at the end
of a device, which either clips the write or refuses it (`Clips`). A failed seek
(`BeginPass`) is ignored by the code and leaves the pointer at the end of the last
pass. `fault` records that some call failed, for `HealthyVolumeCompletes`. `dirtied` are
the cells that the mounted file system wrote and that no pass has been over since: a
cell written between two passes must come out of the wipe like any other, and only
what is written behind the last pass is excepted.
`PassFrontier` describes the volume at every moment, also after an abort, when no
result tells how far the wipe came.

### HpaDetect and DriveErasure

A drive has a native number of sectors of its own size; what the system shows of it
is `Length`, in units of 512 bytes. `GetLength` and `AtaReadNativeMax` may fail and
then leave a 0, which `Compare` takes for a size. `NativeAnswer` is the address the
device returns (28 bits), of which three 8-bit registers are read. A command that
fails and one that leaves those registers at 0 come to the same and are one
alternative. What is opened may be a volume (`whole` is false), whose length says
nothing about the drive; the properties speak of drives.

`DriveErasure` has the detector run to its report and then the wipe of the same
drive. Both see what the length query shows. `ErasedOrTold` relates the two: on a
drive that three registers can number and that answered, what a completed wipe left
behind had been announced. `SufficientMeansErased` says so of every drive, as the
text of the report does, and is violated.

### UsnMonitor and ChangeLog

A record is its number; the journal holds the records from `firstUsn` up to
`nextUsn` under an identifier. `PollRecords` moves the cursor before the first
record is inserted, as the code does; a poll that finds nothing or fails only sleeps,
so it is no step. `QueryJournal` is the constructor of the next run. Trimming,
re-creation, a locked store and a kill may come at any moment. The loop sees
Ctrl-C only between batches.

`ChangeLog` has a log to which changes are appended one by one, without a gap while a
session is on. The mapping puts its mark at the oldest record of the batch, or at the
cursor (`Mark`): that the cursor runs ahead of the table is not seen from outside.

### MetadataScan

Paths are nodes of a fixed tree; what exists of it changes. The stack holds the
open directory iterators of the recursion and the entries each has yet to return;
an entry created meanwhile may or may not be returned. `OpenDir`, `Visit`,
`CollectMetadata` and `UpsertFile` are separate, since each asks about a path anew.
`stable` (files there since the scan began), `missed`, `silent` and `lost` record
what happened to whom, for the properties. The scanner's settings (`max_depth`,
`skip_hidden`, `min_size_bytes`) are never set by the program and have their
defaults. If the process ends by an exception or a kill its counters are gone; the rows
stay, one transaction each.

### RotAnalysis

Rows come from scanners that run beside the analysis: `CollectMetadata` is two steps, the
reading of the file's status (`ReadStatus`) and that of the clock (`StampScan`), and
`UpsertFile` replaces the row some time later, so that an older record may replace a
younger one. A file may be used, and the second change, between any two of the three.
Files are used, removed and made anew all the
while; a file system may keep no access times (`Untimed`; its FILETIME 0 becomes a
number below 0) or not update one. `BeginAnalyze` reads the clock,
`SelectAndReport` is one SQL statement and the sums over what it returned. A name
is the set of patterns it matches. The properties compare the report with the files
as they are then, and with the moment at which the status in a row was read. The store keeps
no such moment: it is carried along as `seen`, beside the `scanned` that the row does have
and that may be later. `ReportPartition` compares the
report with a definition of it that has no order of cases.

### Certificate, CommandLine and WipeSession

OpenSSL is idealised: a digest determines the payload, a signature determines key
and data. All fields that pass through unchanged are one field, `report`. A run
numbers itself, which stands for its UUID and its key. `OpenCertificate` empties the
file and `WriteCertificate` fills it, or does not, without the program noticing.

A command line is a sequence of words. Options are the words that begin with `-`;
`ParseWord` is one turn of the loop of `ParseArgs`, in which every option takes the
word after it. A run starts from any of the lines that name the directory
(`LinesFor`) and goes on as the line says: `CertOut` may be absent, or an option, in
which case nothing reaches the certificate file. `RefuseWipe` is a line that
prints the usage. `LineIsObeyed` compares what is wiped and written with the line as
its author wrote it.

### IdleProfiler, NtfsOptimizer and IdleWork

Time passes in ticks, in sleeps and between the two calls that tell how long the
user has been away. `tick` wraps around as `GetTickCount` does, and `Elapsed` is
the unsigned difference; `away` is the true absence, counted up to the threshold, and
`seenAway` what it was when the tick count was read. Each tick of a window counts as
idle, busy, or not at all. `calm` says that from now on nobody works here, for
`BlockingCallRuns`. Local variables are reset when `Sample` has returned.

`NtfsOptimizer` is one step per call. A compressed file takes half of its size; a
size on the disk is read as two words, of which the low one's largest value means
failure. `DecompressFile` ignores the result of its control call.

No command calls either class. `IdleWork` puts them together as the header intends:
what was begun on an idle machine goes on when the user is back and writes to the
file. What is claimed is that work starts only after a window and an absence that
were idle (`RunsOnlyWhenFoundIdle`); that the machine still is idle is not.

## What TLC checks

| Run | Question | Result |
|---|---|---|
| `FileWipe` | two files, three passes, any interference and failure, with and without verification: is the result true of the disk, does the run end, and is it a `SecureErase`? | holds |
| `FileWipeSkips` | does a run without errors leave no file? (`wipe_engine.h:69`) | violated |
| `Drive` | detector and wipe on one drive, every native size, every method, failing queries, seeks and writes, foreign writes: is each report true, is nothing left unsaid, does the wipe end? | holds |
| `DriveHidden` | does the detector call a wipe sufficient only of drives that the wipe erases? (`detection.cpp:153`) | violated |
| `VolumePartialSector` | a length that is no multiple of 4096: does a healthy volume get wiped? (`README.md:120`) | violated |
| `Monitor` | three sessions with every event: order, no loss, all readable records logged, Ctrl-C obeyed, and is it a `ChangeLog`? | holds |
| `MonitorTrim` | are new records logged on a journal that is trimmed? (`README.md:111`) | violated |
| `Scan` | two scans of a changing tree: files accounted for, counts right, ends | holds |
| `Rot` | an analysis beside two scanners and users: was what it suggests unused when it was read, and is nothing unused missing? | holds |
| `SessionFaults` | three runs, eight command lines, crashes at every step: certificates are of real runs, nothing is counted twice, lines are obeyed | holds |
| `SessionVerify` | is an unchanged certificate file found valid? (`certificate.cpp:395`) | violated |
| `Idle` | background work on a wrapping tick count with users coming and going: does it start only when found idle, does it get to run, are its savings real? | holds |

The violated runs are disagreements between the code and its own documentation,
comments or messages; `PROJECT.json` quotes the lines. In short:

* Files below a directory that may not be listed are skipped without an error.
* The last write of a volume pass is rounded up past the end of a volume whose
  length is not a multiple of 4096; where the device refuses it, the wipe stops there in pass one.
* A monitor whose cursor was trimmed away, or whose journal was re-created, logs
  nothing more and says nothing.
* `LoadJson` does not restore the times that the hash covers, so `verify-cert`
  rejects every certificate file.
* Of the native size, 24 bits are read: on a drive that shows 8 GB or more the detector finds
  nothing hidden, without a warning, and says that wiping is sufficient.

Seen while modelling, without a run of its own: data appended to a file after its size
was sampled is deleted without being overwritten (no document promises more, so the
properties of the file wipe speak of the sampled size where others wrote); a row of a scan
may be dated a second or more after the reading of the status it holds, and so after a use
of the file that it does not hold (nothing compares `scanned_at` with anything, and no
document says what it vouches for); verification asks only about
the listed files, so after a listing that failed at once it passes over no files at all
(a scan error is in the list of errors, but `verification_passed` is true);
`SaveJson` does not examine the stream it wrote to; an insert that the store refuses ends
the monitor; an option without a value, such as `--verbose` before the target, takes
the target for its value, after which `wipe` prints its usage; a scan writes the row
it has over a younger one.

### Bounds, and why they are enough

* Files: two, since `WipePath` treats files one after the other and shares only
  tallies between them. Each holds zero to two units, may grow by one, and with
  buffers of two a pass takes one write, or more when they are short. Three
  passes have a first, a middle and a last one.
* Drive: two sectors of two cells with a chunk of both (and writes that end after the
  first); native sizes of 1 to 6 in units of one and two cells that are no smaller
  than the visible four, of which registers hold five values and addresses end at ten:
  less, exactly and more than can be numbered. All five methods run, the 35-pass
  one too. `DriveHidden` shows six cells to registers of four; `VolumePartialSector` has
  five cells, of which the last is a partial sector. Devices that clip a write are
  covered by the proofs only.
* Monitor: six records and a buffer of two, so that batches are partial, full and
  more than full; two journals; three sessions.
* Scan: a root with a file, a link and a directory with a file: an entry of each kind on each level
  that matters; sizes 0 and 1; two scans, the second over the rows of the first.
* Analysis: two paths, of which one has the pattern of a log, the other two patterns and
  no access times; two scanners, so that one can overtake the other; sizes 0
  and above the limit for logs; a present of 2 and 3, with files as old as the
  epoch, whose time is stored as NULL. One tick is enough for the second to change
  between any two steps of a scan. The scanners are alike (`SYMMETRY`), which is sound as
  no property tells them apart and no liveness is asked. Once the report is made, which nothing
  changes any more, a scanner with a record in hand is not followed further (`ScansMatter`,
  a `CONSTRAINT`): the report of such a state is also that of one in which the scanner
  had stopped before, which is followed.
* Session: eight command lines (the usual one, options before, between and after, with
  values missing); three files, three runs, three seconds; a run broken off anywhere leaves
  files for two more.
* Idle: a tick count that wraps at 7, a window of two ticks, polls of one, a
  threshold of two ticks and of nine tenths, which a window of two meets only if
  idle throughout; files of up to three units, and words of three values, so that a size on
  the disk is the word's largest value and fails to be told.

`CHECK_DEADLOCK FALSE` is set where a process ends and then takes no step: in all
runs but `Rot` and `Idle`, whose worlds go on for ever and are checked for deadlock.

### Fairness

Each specification has weak fairness on the steps of the program as a whole
(`Engine`, `Monitor`, `Scanner`; `DetectHidden` and `WipeStep` for the drive): a single
thread whose next call returns, with success or not. `WorkSpec` has it for the
passing of time (`Tick`) and the calls of `Sample` and its loop (`Sampling`) only, not for
the function, which may run for ever. No fairness is assumed of a particular
outcome, of the environment, or of a signal. `BlockingCallRuns` is conditional on a
machine that is left alone for good, without which there is nothing to wait for.
`Terminates`, `ScanEnds`, `StopIsObeyed`, `ReadableRecordsLogged` and
`BlockingCallRuns` hold under it.

## What TLAPS proves

For all values of the constants that meet the assumptions named in the modules
(`ConstantsOK`, `VolumeOK`, `DriveOK`, `UsnConstants`, `ScanConstants`, `SessionOK`,
`RotConstants`, `IdleConstants`, `NtfsConstants`), every invariant and every action
property that a run finds to hold, both refinements, and for four components the safety
half of their liveness (*progress*):

| Module | Theorems about |
|---|---|
| `WipeMethodsProofs` | `ScheduleLength`: each schedule has the promised number of passes |
| `WipeEngineProofs` | `TypeOK`, `SuccessMeansErased`, `VerifiedMeansGone`, `EveryFileAccounted`, `BytesMatchErased`, `UnlinkOnlyErased`, `PassesInOrder`, progress, `ImplementsSecureErase` |
| `DriveErasureProofs` | of the volume wipe: `TypeOK`, `CompletedMeansCovered`, `PassFrontier`, progress, and `HealthyVolumeCompletes` for volumes of whole sectors; of both commands: that they contain a volume wipe, `DriveTypeOK`, `AlarmMeansHidden`, `SmallDriveExact`, `ErasedOrTold` |
| `UsnMonitorProofs` | `TypeOK`, `EventsInOrder`, `ReadMeansLogged`, `EventsOnlyAppended`, progress, `ImplementsChangeLog` |
| `MetadataScanProofs` | `TypeOK`, `StatsMatchRows`, `FilesAccounted`, progress |
| `WipeSessionProofs` | `TypeOK`, `CertificateIsOfARun`, `NothingReportedTwice`, `SavedIsOfThisRun`, `LineIsObeyed` |
| `RotAnalysisProofs` | `TypeOK`, `UsedSinceRead`, `UnusedAreSuggested`, `ReportPartition` |
| `IdleWorkProofs` | `WorkTypeOK`, `RunsOnlyWhenFoundIdle`, `SavingsAreReal` |

Each proof is an inductive invariant, one lemma per group of actions, and a
theorem that closes with PTL.

* File wipe. `SuccessMeansErased` is not inductive: that a file was erased is
  decided long before the run ends. The invariant says, in this order, where each phase
  stands (`LocalInv`), that files not yet reached are untouched by the engine
  (`WaitingInv`), that in the file at hand the units before the offset hold the
  current pass and the others the one before (`LayerInv`), that this holds up to the offset
  also of a file that others wrote to (`SampledInv`), that the sampled size is
  the size unless they did (`SizeInv`), that a
  file with residue is gone, unless others made it anew (`ResidueInv`), that a file
  that is through is reported, or gone without residue (`OutcomeInv`), and
  what verification has found so far (`VerifyInv`). On top of it, `CountInv` has the
  tally equal the number of files that left the loop. Of the bytes, a sum over files, the
  model speaks as of the number of their units, file by file (`Units`), so that a file
  that is through adds a set disjoint from the rest (`BytesInv`, by the library's facts
  on cardinality) and no induction over a fold is needed. For the refinement, each
  action is shown to move one file along `Onward`, to report one, to list, to end or
  to leave all that `SecureErase` sees alone.
* Volume. The pointer is where the offset is, or past it at the end after a failed seek
  (`PositionInv`), and cells before the offset hold the current pass, cells
  behind it the one before, unless others wrote them and no pass has been there since
  (`LayerInv`). With
  `Capacity % Sector = 0`, which the theorem assumes and `VolumePartialSector` shows to be
  needed, the pointer of a wipe without faults stays at the start of a sector
  (`HealthyInv`), so that no rounded write passes the end.
* Drive. `ReportInv` says what each call of the detector has left in the report, and
  `OrderInv` that the wipe waits for it; the proofs about the volume carry over, since
  the detector only reads (`DriveImplementsVolume`: the composed system is a volume wipe).
  The rest is arithmetic about the answer cut to the registers.
* Monitor. The batch holds consecutive records that end at the cursor (`CursorInv`,
  `BatchInv`); the table is in order and holds only older ones (`TableInv`), among them every
  record since the session's start (`LoggedInv`). For the refinement, the mark is the
  record that is due (`MarkInv`).
* Scan. The open directories are nested, each open once and holding back entries of its own
  that were not returned (`StackInv`); what was returned lies below what was returned
  (`VisitInv`); a file is counted once (`RecordInv`). `FilesAccounted` needs more: of every path
  above a file that was there throughout, `WalkInv` says that it has been returned, is to
  come, lies below what is skipped or unlisted, or below what is not yet opened. When the
  scan ends, take the paths above the file that were not returned: were nothing skipped or
  unlisted above them, the set would hold the parent of each of its members, which a tree
  does not allow (`ScanConstants`: every set of paths has one whose parent is not in it). This replaces induction along the path.
  Bytes are counted as in the file wipe.
* Session. The files counted by the run under way, and by any report, have gone
  (`CountInv`); result, certificate and file agree from the wipe to the end of the
  command (`ResultInv`, `CertInv`), and a whole file is that of a report (`DocInv`). What
  command lines there are does not matter for these. `LineIsObeyed` is about `ParseArgs` on lines
  of any length: what the arguments say of the first `n` words (`FromWords`) is carried from
  each word to the next (`WordKeepsFromWords`), and the least prefix for which it
  failed would have a predecessor for which it holds. `SessionOK` asks for it that lines are
  sequences of strings and that neither name is the empty string, which
  the program takes for no name.
* Analysis. Records, rows and the selected rows are `Sound`: the access time in them
  is not after the file's own, and is the file's own, none at all, or older than a use
  at or after the moment at which the status was read; the time of the scan, which comes
  after it, is bound only to lie between that moment and the present (`TypeOK`).
  This survives removal and re-creation of the file and an older
  record written over a younger one (`RecordsInv`, `StaleInv`). The report is that of the rows
  that were selected (`ReportInv`); that its categories divide them follows from the cases
  of `ClassifyRot`, and the totals from cardinalities of disjoint sets. For
  `TypeOK`, `HandInv` says that a record in hand is no younger than the clock.
* Idle work. Absence and its reading, below the threshold, are differences of two
  counts modulo `Wrap` (`AwayInv`), and the processor's fraction is that of the window or
  stands for an unknown one (`WindowInv`). The assumption `Wrap > UserThreshold + ...`
  says that the threshold is far below 49.7 days. Savings: what a call knows of a file that nobody
  wrote to is true (`KnownInv`). Types: what is counted of a window and what is left of its sleep
  are together no longer than the window (`SampleInv`), without which the next tick
  could leave the type.
* Progress. `FileWipeProgress`, `VolumeProgress` and `ScanProgress` give each program a
  position, compared part by part (`Further`): chapters, files left, passes, the offset; or
  the entries returned, the way of the one at hand, the open directories. Every step
  of the program moves the position forward, also one that fails, and no step of others moves
  it in the volume wipe and the file wipe, or moves it back in the scan. The parts being
  finite, only finitely many steps are possible, and with the weak fairness assumed the
  runs' `Terminates` and `ScanEnds` follow; that last inference is made by TLC on the instances
  and by the reader in general. `MonitorProgress` does the same for a program that need not
  end: a step inserts the record that is due, with one fewer waiting, or fetches more, but
  not after Ctrl-C, so that a session ends when its batch is stored (`StopIsObeyed`) and before
  that has each readable record come to be due (`ReadableRecordsLogged`).

Only model-checked is liveness, which is out of this prover's reach: `Terminates` of
both wipes, `ScanEnds`, `StopIsObeyed` and `ReadableRecordsLogged`, whose safety half is
proved as progress, and `BlockingCallRuns`. The two abstract specifications state
no fairness, so that their refinements are proved in full. The properties of the violated runs are refuted, not proved.

## What is not modelled

* Vendored code (`json.hpp`, which is nine tenths of the lines in `src/`, and the
  OpenSSL binaries) and the build file: not this program's own logic. A map of all other code
  would still cover less than 30% of the lines.
* Dashboard: floating-point estimates that are printed, without state or control.
* Texts: names of methods, summaries, log lines, help, exit codes; conversions between code pages.
* The prompt of `wipe-volume`, and the options of commands other than `wipe`, which are
  read the same way.
* The content of a random pass; the medium behind a write (wear levelling, caches).
  `FlushFileBuffers` is taken to work, though the code ignores its result.
* `GenerateWithKey` and `VerifySignature` with a key file: no command issues such a
  certificate.
* `LogWipe`, `TotalSize` and `FileCount`: nothing calls them.
* The times of a `file_metadata` row other than the last access and the scan (`created_at` is left
  alone by an upsert), and the fields of a change record besides its number.

## Plan

Done, in this order: the wipes, the monitor, the scanner, the certificate and its
commands; the analysis; the detector and its composition with the wipe; the idle
profiler and what it was meant to run; the command line; the two abstract
specifications and refinements; the proofs above, which leave no invariant or action
property to TLC alone.

Left: progress of one call of the idle profiler, the safety half of `BlockingCallRuns`; that the abstract `ChangeLog` and `SecureErase` have
the properties their users read out of them; the detector alone as a function of its drive.
Should a command come to call `IdleProfiler`, `LogWipe` or `GenerateWithKey`, it belongs
into `IdleWork` and `WipeSession`.
