----------------------------- MODULE ServedPair -----------------------------
(***************************************************************************)
(* What certificateReloader (server/tls_reload.go) promises to the TLS     *)
(* stack, whatever is written to the files: every handshake gets a complete *)
(* certificate with its own private key, and the certificates are taken in *)
(* the order the file has held them.  No handshake goes back behind what   *)
(* an earlier one has taken, until the process ends.  An older certificate *)
(* is served when, and only when, somebody has put it back into the file.  *)
(***************************************************************************)
EXTENDS Integers, Sequences

CONSTANTS
  Certs, PrivateKeys,
  KeyOf,         \* [Certs -> PrivateKeys]
  FileCerts,     \* what the certificate file may hold, of which Certs can be parsed
  Handshakes, None

Pairs == [cert : Certs, key : PrivateKeys]
PairOf(c) == [cert |-> c, key |-> KeyOf[c]]

VARIABLES served,     \* the pair in use
          result,     \* what each handshake got last
          contents,   \* all that the certificate file has held so far
          position    \* the place in contents of the pair taken last, or 0
servedVars == <<served, result, contents, position>>

Nothing == [h \in Handshakes |-> None]
ServedInit == /\ served = None /\ result = Nothing
              /\ contents \in [1..1 -> FileCerts] /\ position = 0

\* a pair is taken into use, at the start of the process or in a handshake
Load(n) ==
  /\ n \in 1..Len(contents) /\ position <= n
  /\ contents[n] \in Certs
  /\ served' = PairOf(contents[n]) /\ position' = n
Load1 == /\ \E n \in 1..Len(contents) : Load(n)
         /\ UNCHANGED <<result, contents>>
Handshake(h) ==
  /\ \/ UNCHANGED <<served, position>> /\ served # None
     \/ \E n \in 1..Len(contents) : Load(n)
  /\ result' = [result EXCEPT ![h] = served']
  /\ UNCHANGED contents
Write(c) == contents' = Append(contents, c) /\ UNCHANGED <<served, result, position>>
End == served' = None /\ result' = Nothing /\ position' = 0 /\ UNCHANGED contents

ServedNext == Load1 \/ End \/ (\E h \in Handshakes : Handshake(h))
                \/ (\E c \in FileCerts : Write(c))
ServedSpec == ServedInit /\ [][ServedNext]_servedVars

=============================================================================
