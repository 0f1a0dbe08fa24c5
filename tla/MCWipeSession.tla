---------------------------- MODULE MCWipeSession ----------------------------
(***************************************************************************)
(* A directory of a few files, wiped twice or three times.                 *)
(***************************************************************************)
EXTENDS WipeSession

AllFaults == {"crash", "file", "generate", "open", "write"}
NoFaults  == {}

MCOptions == {"--cert-out", "--method", "--verbose"}
MCMethods == {"nist-clear"}

(* As the help has it; and with an option that was given no value.         *)
Usual == {<<"dir", "--cert-out", "cert">>}
Mixed == Usual \cup
    {<<"--verbose", "dir", "--cert-out", "cert">>,
     <<"--cert-out", "cert", "dir", "--verbose">>,
     <<"--cert-out", "dir">>, <<"--method", "dir", "dir">>,
     <<"dir", "--cert-out", "--verbose", "cert">>,
     <<"dir", "--verbose", "cert", "--cert-out">>,
     <<"dir", "--method", "nist-clear", "--cert-out", "cert", "cert">>}
===============================================================================
