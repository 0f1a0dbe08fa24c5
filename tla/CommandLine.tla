------------------------------ MODULE CommandLine ------------------------------
(***************************************************************************)
(* The command line (main.cpp, Args and ParseArgs), as the sequence of the *)
(* words after the command.  Every option takes the word after it as its   *)
(* value unless that is an option; there is no list of the options.        *)
(***************************************************************************)
EXTENDS Naturals, Sequences

CONSTANTS
    Options,        \* the words that begin with "-"
    Methods         \* the names ParseWipeMethod knows

NoArgs == [positional |-> <<>>, flags |-> <<>>, open |-> FALSE]

(* An option is followed by its value only where it is written so. *)
ParseWordFlag(a, word) ==
    IF word \in Options THEN [a EXCEPT !.flags = Append(@, word)]
    ELSE [a EXCEPT !.positional = Append(@, word)]

(* `open`: the word before this was an option. *)
ParseWord(a, word) ==
    IF word \in Options THEN [a EXCEPT !.flags = Append(@, word), !.open = TRUE]
    ELSE IF a.open THEN [a EXCEPT !.flags = Append(@, word), !.open = FALSE]
    ELSE [a EXCEPT !.positional = Append(@, word)]

(* What is known after each word of the line. *)
Parsing(line) ==
    LET parsed[i \in 0..Len(line)] ==
            IF i = 0 THEN NoArgs ELSE ParseWord(parsed[i - 1], line[i])
    IN  parsed

ParseArgs(line) == Parsing(line)[Len(line)]

(* The entry after the first `flag` that is not the last entry, an option  *)
(* as well as a value.                                                     *)
Get(a, flag, default) ==
    LET at == {i \in 1..Len(a.flags) - 1 : a.flags[i] = flag}
    IN  IF at = {} THEN default ELSE a.flags[(CHOOSE i \in at : \A j \in at : i <= j) + 1]

NoPath == ""

(* What CmdWipe is told to do; it refuses to begin without a path or with  *)
(* a method that has no such name.                                         *)
WipeTarget(a)  == IF a.positional = <<>> THEN NoPath ELSE a.positional[1]
WipeMethod(a)  == Get(a, "--method", "nist-clear")
CertOut(a)     == Get(a, "--cert-out", NoPath)
WipeRefused(a) == WipeTarget(a) = NoPath \/ WipeMethod(a) \notin Methods

================================================================================
