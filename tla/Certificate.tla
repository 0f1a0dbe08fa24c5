------------------------------ MODULE Certificate ------------------------------
(***************************************************************************)
(* WipeCertificate (certificate.cpp): what is hashed and signed, what is   *)
(* written to the certificate file, and what is read back and verified.    *)
(*                                                                         *)
(* The fields that pass through a certificate unchanged (target, method,   *)
(* tallies, verification, errors, device) are one field, report.  The      *)
(* interface type of the device, which is hashed but not written, is not   *)
(* modelled: no code sets it.                                              *)
(***************************************************************************)
EXTENDS Integers, Sequences

(* OpenSSL: a digest determines its payload, a signature its key and data. *)
SHA256(payload)  == <<"sha256", payload>>
Sign(key, hash)  == <<"pss", key, hash>>

(* UnixToIso8601: text in place of a number. *)
UnixToIso8601(t) == <<"utc", t>>

BuildCanonicalPayload(c) ==
    <<c.id, c.issued_at, c.started_at, c.completed_at, c.duration_seconds, c.report>>

(* A certificate of result r, issued now under a fresh key. *)
Generate(r, uuid, key, now) ==
    LET c == [id |-> uuid, issued_at |-> now, report |-> r.report,
              started_at |-> r.started_at, completed_at |-> r.completed_at,
              duration_seconds |-> r.completed_at - r.started_at,
              payload_sha256 |-> <<>>, signature |-> <<>>, public_key_pem |-> key]
        hash == SHA256(BuildCanonicalPayload(c))
    IN  [c EXCEPT !.payload_sha256 = hash, !.signature = Sign(key, hash)]

VerifySignature_pem(c, pem) ==
    LET hash == SHA256(BuildCanonicalPayload(c))
    IN  hash = c.payload_sha256 /\ c.signature = Sign(pem, hash)

VerifySelf(c) == VerifySignature_pem(c, c.public_key_pem)

(* The document, with the times as text. *)
ToJson(c) ==
    [c EXCEPT !.issued_at = UnixToIso8601(@), !.started_at = UnixToIso8601(@),
              !.completed_at = UnixToIso8601(@)]

(* The times are not parsed back: "best-effort; not used in verification". *)
LoadJson(doc, now) ==
    [doc EXCEPT !.issued_at = now, !.started_at = 0, !.completed_at = 0]

==============================================================================
