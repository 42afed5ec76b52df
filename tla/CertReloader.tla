---------------------------- MODULE CertReloader ----------------------------
(***************************************************************************)
(* server/tls_reload.go: each TLS handshake re-reads the certificate and   *)
(* the key under a mutex and replaces the pair in use only by a complete,  *)
(* matching pair.  The two files are read one after the other, and someone *)
(* else replaces them: see UbuntuReloader for the two files of the Ubuntu  *)
(* installation, CertManager for the link of the containers.               *)
(***************************************************************************)
EXTENDS Integers

CONSTANTS
  Certs, PrivateKeys, KeyOf, Handshakes, None,
  Main,        \* the goroutine that loads the first pair
  Unreadable   \* what a file that is missing or cannot be parsed contains

VARIABLES
  certFile, keyFile,   \* what --cert and --key name
  process,             \* "down", "loading" or "up"
  mu,                  \* the goroutine that holds the mutex, or None
  thread,              \* where each goroutine is in reload, and what it has read
  files, certificate,  \* the fields of certificateReloader
  result               \* what getCertificate returned to each handshake last
disk == <<certFile, keyFile>>
served == <<files, certificate, result>>
reloaderVars == <<process, mu, thread, served>>
vars == <<disk, reloaderVars>>

Pairs == [cert : Certs, key : PrivateKeys]
PairOf(c) == [cert |-> c, key |-> KeyOf[c]]
Goroutines == Handshakes \cup {Main}

ASSUME ReloaderAssumption ==
  /\ Certs \subseteq Nat
  /\ KeyOf \in [Certs -> PrivateKeys]
  /\ Unreadable \notin Nat \cup PrivateKeys
  /\ Main \notin Handshakes
  /\ None \notin Goroutines \cup Pairs

FileCerts == Certs \cup {Unreadable}
FileKeys == PrivateKeys \cup {Unreadable}
ReadPairs == [cert : FileCerts, key : FileKeys]
Idle == [pc |-> "idle", cert |-> Unreadable, key |-> Unreadable]
Threads == [pc : {"idle", "readCert", "readKey", "parse"}, cert : FileCerts,
            key : FileKeys]

(***************************************************************************)
(* reload.  newCertificateReloader calls it before the listener starts,    *)
(* getCertificate calls it with the mutex held.                            *)
(***************************************************************************)
\* the goroutine leaves reload; without a pair the process does not start
Leave(t) ==
  /\ thread' = [thread EXCEPT ![t] = Idle]
  /\ process' = IF t # Main THEN process
                ELSE IF certificate' = None THEN "down" ELSE "up"
  /\ mu' = None
  /\ result' = IF t = Main THEN result ELSE [result EXCEPT ![t] = certificate']
Go(t, here, record) ==
  /\ thread[t].pc = here
  /\ thread' = [thread EXCEPT ![t] = record]
  /\ UNCHANGED <<process, mu, served>>

Keep(t) == UNCHANGED <<files, certificate>> /\ Leave(t)
ReadCert(t) ==
  IF certFile = Unreadable
  THEN thread[t].pc = "readCert" /\ Keep(t)
  ELSE Go(t, "readCert", [thread[t] EXCEPT !.pc = "readKey", !.cert = certFile])
ReadKey(t) ==
  IF keyFile = Unreadable
  THEN thread[t].pc = "readKey" /\ Keep(t)
  ELSE Go(t, "readKey", [thread[t] EXCEPT !.pc = "parse", !.key = keyFile])
ParseOnce(t) == \* mutant: a certificate that was tried once is not tried again
  LET pair == [cert |-> thread[t].cert, key |-> thread[t].key]
      changed == certificate = None \/ pair.cert # files.cert IN
  /\ thread[t].pc = "parse"
  /\ files' = pair
  /\ certificate' = IF changed /\ KeyOf[pair.cert] = pair.key THEN pair ELSE certificate
  /\ Leave(t)
Parse(t) ==
  LET pair == [cert |-> thread[t].cert, key |-> thread[t].key]
      changed == certificate = None \/ pair # files IN
  /\ thread[t].pc = "parse"
  /\ IF changed /\ KeyOf[pair.cert] = pair.key
     THEN files' = pair /\ certificate' = pair /\ Leave(t)
     ELSE Keep(t)
reload(t) == ReadCert(t) \/ ReadKey(t) \/ Parse(t)

newCertificateReloader ==
  /\ process = "down"
  /\ process' = "loading"
  /\ thread' = [thread EXCEPT ![Main].pc = "readCert"]
  /\ UNCHANGED <<mu, served>>
\* a client connects: getCertificate waits for the mutex
LockFree(h) == \* mutant: no mutex
  /\ process = "up"
  /\ thread[h].pc = "idle"
  /\ thread' = [thread EXCEPT ![h].pc = "readCert"]
  /\ UNCHANGED <<process, mu, served>>
Lock(h) ==
  /\ process = "up"
  /\ mu = None
  /\ mu' = h
  /\ thread' = [thread EXCEPT ![h].pc = "readCert"]
  /\ UNCHANGED <<process, served>>

\* log.Fatal, a crash or a restart
NoResult == [h \in Handshakes |-> None]
Exit ==
  /\ process # "down"
  /\ process' = "down"
  /\ mu' = None
  /\ thread' = [t \in Goroutines |-> Idle]
  /\ files' = None /\ certificate' = None
  /\ result' = NoResult

ReloaderInit ==
  /\ process = "down"
  /\ mu = None
  /\ thread = [t \in Goroutines |-> Idle]
  /\ files = None /\ certificate = None
  /\ result = NoResult
Serve == (\E t \in Goroutines : reload(t)) \/ \E h \in Handshakes : Lock(h)
Reloader == Serve \/ newCertificateReloader \/ Exit

\* Every variable keeps its type, the mutex is held exactly while a handshake
\* is in reload, only one goroutine is, and a server that is up has a pair.
TypeOK ==
  /\ certFile \in FileCerts /\ keyFile \in FileKeys
  /\ process \in {"down", "loading", "up"}
  /\ mu \in Handshakes \cup {None}
  /\ thread \in [Goroutines -> Threads]
  /\ certificate \in Pairs \cup {None} /\ files = certificate
  /\ result \in [Handshakes -> Pairs \cup {None}]
  /\ process = "up" <=> certificate # None
  /\ \A t \in Goroutines : thread[t].pc # "idle" =>
       IF t = Main THEN process = "loading" ELSE process = "up" /\ mu = t

=============================================================================
