------------------------------- MODULE Certs --------------------------------
(***************************************************************************)
(* taklctl ca init and ca issue (cmd/taklctl/main.go), run one after the   *)
(* other by one operator, against the files they leave behind.  Every file *)
(* is truncated and then written, the certificate before its key; a crash  *)
(* or a full disk stops a command anywhere, and nothing is rolled back.    *)
(*                                                                         *)
(* A key pair is a number.  A certificate holds a public key and names the *)
(* key that signed it.                                                     *)
(***************************************************************************)
EXTENDS Naturals

CONSTANTS
  Node,      \* nodes certificates are issued for
  CA,        \* the name of the CA's own files
  Missing, Torn,   \* a file that does not exist, or is cut short
  MaxKeys    \* bound: key pairs that are generated

CertsAssumption ==
  /\ CA \notin Node /\ MaxKeys \in Nat
  /\ {Missing, Torn} \cap (Nat \cup [pub : Nat, by : Nat]) = {}

VARIABLES
  crt, key,  \* the files <name>.crt and <name>.key
  keys,      \* key pairs generated so far
  cmd,       \* the command that is running
  issued     \* the node whose issue has just succeeded, or CA for none

certVars == <<crt, key, keys, cmd, issued>>

Name == Node \cup {CA}
NoCmd == [pc |-> "idle", name |-> CA, pair |-> 0, cert |-> Missing]
Certificate(pub, by) == [pub |-> pub, by |-> by]
Readable(f) == f # Missing /\ f # Torn

CertsInit ==
  /\ crt = [n \in Name |-> Missing] /\ key = [n \in Name |-> Missing]
  /\ keys = 0 /\ cmd = NoCmd /\ issued = CA

\* GenerateKey, and the certificate the command is going to write.
Generate(name, pub, by) ==
  /\ keys < MaxKeys /\ keys' = keys + 1
  /\ cmd' = [pc |-> "truncateCrt", name |-> name, pair |-> pub, cert |-> Certificate(pub, by)]

CaInit ==
  /\ cmd = NoCmd
  /\ Generate(CA, keys + 1, keys + 1)
  /\ issued' = CA
  /\ UNCHANGED <<crt, key>>

\* loadCA, and CreateCertificate (external), which refuses a signing key that
\* is not the one of the CA's certificate.
LoadCA == Readable(crt[CA]) /\ Readable(key[CA]) /\ crt[CA].pub = key[CA]

CaIssue(n) ==
  /\ cmd = NoCmd /\ LoadCA
  /\ Generate(n, keys + 1, key[CA])
  /\ issued' = CA
  /\ UNCHANGED <<crt, key>>

-----------------------------------------------------------------------------
(* writePEM of the certificate, then of the key: open with O_TRUNC, encode. *)

Proceeds(from, to) == cmd.pc = from /\ cmd' = IF to = "idle" THEN NoCmd ELSE [cmd EXCEPT !.pc = to]

TruncateCrt ==
  /\ Proceeds("truncateCrt", "writeCrt")
  /\ crt' = [crt EXCEPT ![cmd.name] = Torn]
  /\ UNCHANGED <<key, keys, issued>>

WriteCrt ==
  /\ Proceeds("writeCrt", "truncateKey")
  /\ crt' = [crt EXCEPT ![cmd.name] = cmd.cert]
  /\ UNCHANGED <<key, keys, issued>>

TruncateKey ==
  /\ Proceeds("truncateKey", "writeKey")
  /\ key' = [key EXCEPT ![cmd.name] = Torn]
  /\ UNCHANGED <<crt, keys, issued>>

WriteKey ==
  /\ Proceeds("writeKey", "idle")
  /\ key' = [key EXCEPT ![cmd.name] = cmd.pair]
  /\ issued' = cmd.name
  /\ UNCHANGED <<crt, keys>>

\* A crash, or an error on the way: the files stay as they are.
Stop ==
  /\ cmd # NoCmd
  /\ cmd' = NoCmd
  /\ UNCHANGED <<crt, key, keys, issued>>

CertsNext ==
  \/ CaInit \/ TruncateCrt \/ WriteCrt \/ TruncateKey \/ WriteKey \/ Stop
  \/ \E n \in Node : CaIssue(n)

CertsSpec == CertsInit /\ [][CertsNext]_certVars

-----------------------------------------------------------------------------
\* When ca issue reports success its two files belong together and the CA's
\* certificate verifies them, whatever commands were cut short before: also a
\* ca init that replaced the CA's certificate and not its key.
IssuedVerifies ==
  issued \in Node /\ cmd = NoCmd =>
    /\ Readable(crt[issued]) /\ crt[issued].pub = key[issued]
    /\ Readable(crt[CA]) /\ crt[issued].by = crt[CA].pub
=============================================================================
