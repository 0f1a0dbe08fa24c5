------------------------------ MODULE WipeEngine ------------------------------
(***************************************************************************)
(* WipeEngine::WipePath (wipe_engine.cpp) with WipeFile and CollectFiles,  *)
(* run while other processes use the same files.  Every system call is a   *)
(* step of its own, because WipeFile opens files with FILE_SHARE_WRITE and *)
(* reopens them by path for each pass: other processes append to, delete   *)
(* and re-create files between the calls.                                  *)
(*                                                                         *)
(* A file is a sequence of units.  A unit holds 0 while it is user data    *)
(* and k once pass k of the schedule was the last to overwrite it.         *)
(***************************************************************************)
EXTENDS WipeMethods, FiniteSets

CONSTANTS
    File,       \* the regular files at or below the target path
    Denied,     \* files below a directory the user may not list
    Verify,     \* the values the --verify option may have
    Method,     \* the --method option
    BufUnits,   \* kBufferSize, in units
    MaxUnits,   \* bound: units a file may hold
    Interfere   \* what other processes may do: "grow", "remove", "create"

ASSUME ConstantsOK ==
    /\ IsFiniteSet(File)
    /\ Verify \subseteq BOOLEAN
    /\ Denied \subseteq File
    /\ Method \in WipeMethod
    /\ BufUnits \in Nat \ {0} /\ MaxUnits \in Nat \ {0}
    /\ Interfere \subseteq {"grow", "remove", "create"}

Passes == Len(BuildPasses(Method))

VARIABLES
    present,        \* files that have a directory entry
    data,           \* units of each file
    residue,        \* files whose user data went to free space unoverwritten
    touched,        \* files that others grew or re-created during the run
    unseen,         \* files that others re-created, and the engine has neither
                    \* opened nor looked for since
    phase,          \* where WipePath stands
    listed,         \* files: what CollectFiles returned
    todo,           \* files the running loop has not reached
    file, size, pass, written,       \* locals of WipeFile
    scanErr, wipeErr, delErr,        \* errors, by kind
    bytesWiped, filesProcessed,      \* the tallies of the result
    passed                           \* verification_passed

medium == <<present, data, residue, touched>>
disk  == <<medium, unseen>>
loc   == <<file, size, pass, written>>
errs  == <<scanErr, wipeErr, delErr>>
tally == <<bytesWiped, filesProcessed>>
vars  == <<disk, phase, listed, todo, loc, errs, tally, passed>>

Phases == {"collect", "next", "open", "write", "delete", "verify", "done", "thrown"}

Running == phase \notin {"done", "thrown"}
HandleOpen(f) == phase = "write" /\ file = f
UserData(f) == \E i \in 1..Len(data[f]) : data[f][i] = 0
Errors == scanErr \/ wipeErr # {} \/ delErr # {}

TypeOK ==
    /\ present \subseteq File /\ residue \subseteq File /\ touched \subseteq File
    /\ unseen \subseteq File
    /\ data \in [File -> Seq(0..Passes)]
    /\ phase \in Phases
    /\ listed \subseteq File /\ todo \subseteq listed
    /\ file \in File \cup {"none"}
    /\ size \in Nat /\ pass \in 1..Passes /\ written \in Nat
    /\ scanErr \in BOOLEAN /\ wipeErr \subseteq listed /\ delErr \subseteq listed
    /\ bytesWiped \in Nat /\ filesProcessed \in Nat
    /\ passed \in BOOLEAN

Init ==
    /\ present = File /\ residue = {} /\ touched = {} /\ unseen = {}
    /\ \E len \in [File -> 0..MaxUnits] : data = [f \in File |-> [i \in 1..len[f] |-> 0]]
    /\ phase = "collect" /\ listed = {} /\ todo = {}
    /\ file = "none" /\ size = 0 /\ pass = 1 /\ written = 0
    /\ scanErr = FALSE /\ wipeErr = {} /\ delErr = {}
    /\ bytesWiped = 0 /\ filesProcessed = 0 /\ passed = FALSE

(***************************************************************************)
(* Collecting the files                                                    *)
(***************************************************************************)

(* Nothing is wiped when the target does not exist, its status cannot be   *)
(* read, or a name has no spelling in the process's code page: that        *)
(* exception leaves WipePath.                                              *)
CollectThrows ==
    /\ phase = "collect"
    /\ phase' = "thrown"
    /\ UNCHANGED <<disk, listed, todo, loc, errs, tally, passed>>

(* The listing.  Directories the user may not read are skipped without a   *)
(* word; any other failure ends the iteration early and is recorded.  A    *)
(* target that is a file is listed, or has vanished since the exists check *)
(* and takes this path too: a directory of one file can do all it does.    *)
CollectFiles ==
    /\ phase = "collect"
    /\ \E seen \in SUBSET (present \ Denied), failed \in BOOLEAN :
          /\ seen # present \ Denied => failed
          /\ listed' = seen /\ todo' = seen /\ scanErr' = failed
    /\ phase' = "next"
    /\ UNCHANGED <<disk, loc, wipeErr, delErr, tally, passed>>

(***************************************************************************)
(* Wiping one file                                                         *)
(***************************************************************************)

(* An empty file is deleted but left out of the count. *)
StatFileUncounted(f) ==
    /\ phase = "next" /\ f \in todo /\ f \in present
    /\ todo' = todo \ {f}
    /\ file' = f /\ size' = Len(data[f]) /\ pass' = 1 /\ written' = 0
    /\ phase' = IF size' = 0 THEN "delete" ELSE "open"
    /\ UNCHANGED <<disk, listed, errs, tally, passed>>

(* GetFileAttributesExA samples the size; an empty file needs no pass.     *)
StatFile(f) ==
    /\ phase = "next" /\ f \in todo /\ f \in present
    /\ todo' = todo \ {f}
    /\ file' = f /\ size' = Len(data[f]) /\ pass' = 1 /\ written' = 0
    /\ \/ /\ size' = 0 /\ phase' = "delete" /\ filesProcessed' = filesProcessed + 1
       \/ /\ size' > 0 /\ phase' = "open" /\ UNCHANGED filesProcessed
    /\ UNCHANGED <<disk, listed, errs, bytesWiped, passed>>

(* Dropped: the failing file is tried again and again. *)
StatFailsRetry(f) ==
    /\ phase = "next" /\ f \in todo
    /\ wipeErr' = wipeErr \cup {f}
    /\ UNCHANGED <<disk, phase, listed, todo, loc, scanErr, delErr, tally, passed>>

(* A file that cannot be read is passed over without an error. *)
StatFailsSilently(f) ==
    /\ phase = "next" /\ f \in todo
    /\ todo' = todo \ {f}
    /\ UNCHANGED <<disk, phase, listed, loc, errs, tally, passed>>

StatFails(f) ==
    /\ phase = "next" /\ f \in todo
    /\ todo' = todo \ {f} /\ wipeErr' = wipeErr \cup {f}
    /\ UNCHANGED <<disk, phase, listed, loc, scanErr, delErr, tally, passed>>

(* CreateFileA with OPEN_EXISTING, once per pass. *)
OpenPass ==
    /\ phase = "open" /\ file \in present
    /\ phase' = "write" /\ written' = 0 /\ unseen' = unseen \ {file}
    /\ UNCHANGED <<medium, listed, todo, file, size, pass, errs, tally, passed>>

(* n units from offset w now hold pass p; the file may grow.               *)
Overwrite(units, w, n, p) ==
    [i \in 1..(IF w + n > Len(units) THEN w + n ELSE Len(units)) |->
        IF i \in (w + 1)..(w + n) THEN p ELSE units[i]]

(* The tally grows with every pass, not once per file. *)
AfterWritePerPass ==
    \/ written' < size /\ UNCHANGED <<phase, pass, tally>>
    \/ /\ written' = size
       /\ bytesWiped' = bytesWiped + size
       /\ \/ pass < Passes /\ phase' = "open" /\ pass' = pass + 1 /\ UNCHANGED filesProcessed
          \/ pass = Passes /\ phase' = "delete" /\ UNCHANGED pass
             /\ filesProcessed' = filesProcessed + 1

(* The loop over the passes runs once too often. *)
AfterWriteOneMore ==
    \/ written' < size /\ UNCHANGED <<phase, pass, tally>>
    \/ /\ written' = size /\ pass <= Passes
       /\ phase' = "open" /\ pass' = pass + 1 /\ UNCHANGED tally
    \/ /\ written' = size /\ pass > Passes
       /\ phase' = "delete" /\ UNCHANGED pass
       /\ bytesWiped' = bytesWiped + size /\ filesProcessed' = filesProcessed + 1

(* The last write of a pass flushes and closes the handle; the last pass   *)
(* returns the sampled size, which the caller adds up.                     *)
AfterWrite ==
    \/ written' < size /\ UNCHANGED <<phase, pass, tally>>
    \/ /\ written' = size /\ pass < Passes
       /\ phase' = "open" /\ pass' = pass + 1 /\ UNCHANGED tally
    \/ /\ written' = size /\ pass = Passes
       /\ phase' = "delete" /\ UNCHANGED pass
       /\ bytesWiped' = bytesWiped + size /\ filesProcessed' = filesProcessed + 1

(* The offset advances by what was asked for, not by what was written. *)
WriteChunkShort ==
    /\ phase = "write"
    /\ \E n \in 1..BufUnits :
          /\ n <= size - written
          /\ data' = [data EXCEPT ![file] = Overwrite(@, written, n, pass)]
    /\ written' = IF size - written < BufUnits THEN size ELSE written + BufUnits
    /\ AfterWrite
    /\ UNCHANGED <<present, residue, touched, unseen, listed, todo, file, size, errs, passed>>

(* One WriteFile, which may write less than the buffer.                    *)
WriteChunk ==
    /\ phase = "write"
    /\ \E n \in 1..BufUnits :
          /\ n <= size - written
          /\ data' = [data EXCEPT ![file] = Overwrite(@, written, n, pass)]
          /\ written' = written + n
    /\ AfterWrite
    /\ UNCHANGED <<present, residue, touched, unseen, listed, todo, file, size, errs, passed>>

(* The failure is recorded, but the file is deleted all the same. *)
WipeFailsDeletes ==
    /\ phase \in {"open", "write"}
    /\ phase' = "delete" /\ wipeErr' = wipeErr \cup {file}
    /\ UNCHANGED <<disk, listed, todo, loc, scanErr, delErr, tally, passed>>

(* CreateFileA or WriteFile fails: ThrowWin32, caught in WipePath's loop.  *)
WipeFails ==
    /\ phase \in {"open", "write"}
    /\ phase' = "next" /\ wipeErr' = wipeErr \cup {file}
    /\ UNCHANGED <<disk, listed, todo, loc, scanErr, delErr, tally, passed>>

(* The directory entry goes; what the units hold stays on the medium.      *)
Unlink(f) ==
    /\ present' = present \ {f} /\ unseen' = unseen \ {f}
    /\ residue' = IF UserData(f) THEN residue \cup {f} ELSE residue

DeleteFile ==
    /\ phase = "delete" /\ file \in present
    /\ Unlink(file)
    /\ phase' = "next"
    /\ UNCHANGED <<data, touched, listed, todo, loc, errs, tally, passed>>

(* The result of DeleteFileA is not looked at. *)
DeleteFailsSilently ==
    /\ phase = "delete"
    /\ phase' = "next"
    /\ UNCHANGED <<disk, listed, todo, loc, errs, tally, passed>>

DeleteFails ==
    /\ phase = "delete"
    /\ phase' = "next" /\ delErr' = delErr \cup {file}
    /\ UNCHANGED <<disk, listed, todo, loc, scanErr, wipeErr, tally, passed>>

(***************************************************************************)
(* Verification and result                                                 *)
(***************************************************************************)

LoopEnds ==
    /\ phase = "next" /\ todo = {}
    /\ \/ TRUE \in Verify /\ phase' = "verify" /\ todo' = listed
       \/ FALSE \in Verify /\ phase' = "done" /\ UNCHANGED todo
    /\ UNCHANGED <<disk, listed, loc, errs, tally, passed>>

(* The last answer wins, instead of the first file found. *)
CheckGoneLast(f) ==
    /\ phase = "verify" /\ f \in todo
    /\ \/ (f \notin present \/ todo # {f}) /\ todo' = todo \ {f} /\ UNCHANGED phase
       \/ f \in present /\ todo = {f} /\ phase' = "done" /\ UNCHANGED todo
    /\ unseen' = unseen \ {f}
    /\ UNCHANGED <<medium, listed, loc, errs, tally, passed>>

(* std::all_of over fs::exists, which stops at the first file it finds.    *)
CheckGone(f) ==
    /\ phase = "verify" /\ f \in todo
    /\ \/ f \notin present /\ todo' = todo \ {f} /\ UNCHANGED phase
       \/ f \in present /\ phase' = "done" /\ UNCHANGED todo
    /\ unseen' = unseen \ {f}
    /\ UNCHANGED <<medium, listed, loc, errs, tally, passed>>

(* fs::exists throws when it cannot tell; nothing in WipePath catches it.  *)
CheckThrows ==
    /\ phase = "verify" /\ todo # {}
    /\ phase' = "thrown"
    /\ UNCHANGED <<disk, listed, todo, loc, errs, tally, passed>>

VerificationPasses ==
    /\ phase = "verify" /\ todo = {}
    /\ phase' = "done" /\ passed' = TRUE
    /\ UNCHANGED <<disk, listed, todo, loc, errs, tally>>

Engine ==
    \/ CollectThrows \/ CollectFiles
    \/ \E f \in File : StatFile(f) \/ StatFails(f) \/ CheckGone(f)
    \/ OpenPass \/ WriteChunk \/ WipeFails \/ DeleteFile \/ DeleteFails
    \/ LoopEnds \/ CheckThrows \/ VerificationPasses

(***************************************************************************)
(* Other processes, while the command runs                                 *)
(***************************************************************************)

Grow(f) ==
    /\ Running /\ "grow" \in Interfere /\ f \in present /\ Len(data[f]) < MaxUnits
    /\ data' = [data EXCEPT ![f] = Append(@, 0)]
    /\ touched' = touched \cup {f}
    /\ UNCHANGED <<present, residue, unseen, phase, listed, todo, loc, errs, tally, passed>>

(* The engine's handle has no FILE_SHARE_DELETE. *)
Remove(f) ==
    /\ Running /\ "remove" \in Interfere /\ f \in present /\ ~HandleOpen(f)
    /\ Unlink(f)
    /\ UNCHANGED <<data, touched, phase, listed, todo, loc, errs, tally, passed>>

Create(f) ==
    /\ Running /\ "create" \in Interfere /\ f \notin present
    /\ present' = present \cup {f} /\ data' = [data EXCEPT ![f] = <<0>>]
    /\ touched' = touched \cup {f} /\ unseen' = unseen \cup {f}
    /\ UNCHANGED <<residue, phase, listed, todo, loc, errs, tally, passed>>

Others == \E f \in File : Grow(f) \/ Remove(f) \/ Create(f)

Next == Engine \/ Others

Spec == Init /\ [][Next]_vars
FairSpec == Spec /\ WF_vars(Engine)

(***************************************************************************)
(* Properties                                                              *)
(***************************************************************************)

(* A run that reports no error has erased and unlinked every file it       *)
(* listed that nobody else wrote to: neither a directory entry nor a unit  *)
(* of its user data is left, whatever failed or vanished on the way        *)
(* (WipePath's loop with its two error paths).                             *)
SuccessMeansErased ==
    phase = "done" /\ ~Errors =>
        \A f \in listed \ touched : f \notin present /\ f \notin residue

(* WipePath unlinks a file only after the whole schedule ran over every    *)
(* unit of it, up to the sampled size if others have grown it or made it   *)
(* anew under the passes: a failed open or write never leads to            *)
(* DeleteFileA, which would put user data into free space.  Only a file    *)
(* that is put there behind the last pass goes as it is.                   *)
UnlinkOnlyErased ==
    [][ \A f \in present \ present' :
            phase' # phase /\ f \notin unseen =>
                /\ f \notin wipeErr'
                /\ \A i \in 1..(IF f \in touched THEN size ELSE Len(data[f])) :
                       data[f][i] = Passes ]_vars

(* The passes reach each unit one after the other and in schedule order,   *)
(* however WriteFile splits them (WipeFile's two nested loops).            *)
PassesInOrder ==
    [][ \A f \in File \ touched' : \A i \in 1..Len(data[f]) :
            data'[f][i] \in {data[f][i], data[f][i] + 1} ]_vars

(* The result's files_processed and errors partition the listing: a file   *)
(* counted as processed was wiped, and one that was not is reported.       *)
EveryFileAccounted ==
    phase \in {"verify", "done"} =>
        filesProcessed = Cardinality(listed) - Cardinality(wipeErr)

(* The units of a set of files, one by one. *)
Units(S) == UNION {{f} \X (1..Len(data[f])) : f \in S}

(* bytes_wiped is the size of what was erased: neither the passes nor the  *)
(* files that failed half-way are added to it.                             *)
BytesMatchErased ==
    phase = "done" /\ touched = {} =>
        bytesWiped = Cardinality(Units(listed \ wipeErr))

(* verification_passed: every listed file was found gone, also one that    *)
(* others had made anew before it was looked for; what is there was        *)
(* created behind the look (std::all_of over fs::exists).                  *)
VerifiedMeansGone == passed => listed \cap present \subseteq unseen

(* However the calls fail, WipePath comes to its end.                      *)
Terminates == <>(phase \in {"done", "thrown"})

(* wipe_engine.h:69, "Wipe a single file or all files under a directory":  *)
(* after a run without errors nothing that was there at its start is left. *)
SuccessLeavesNoFile ==
    phase = "done" /\ ~Errors => present \subseteq touched

(* What SecureErase calls the state of a file.                             *)
StateOf(f) ==
    IF f \in touched THEN "foreign"
    ELSE IF f \notin present THEN (IF f \in residue THEN "lost" ELSE "gone")
    ELSE IF \A i \in 1..Len(data[f]) : data[f][i] = Passes THEN "erased"
    ELSE IF UserData(f) THEN "data" ELSE "scrubbed"

Verdict ==
    CASE phase = "thrown" -> "exception"
      [] phase = "done"   -> IF Errors THEN "errors" ELSE "clean"
      [] OTHER            -> "none"

Erase == INSTANCE SecureErase WITH
    state    <- [f \in File |-> StateOf(f)],
    reported <- wipeErr \cup delErr,
    verdict  <- Verdict

(* The calls of WipePath, whatever fails and whoever interferes, implement *)
(* the promise: no file goes back from scrubbed or erased to data, or from *)
(* data to gone, and a clean end leaves no listed file on its way.         *)
ImplementsSecureErase == Erase!Spec

==============================================================================
