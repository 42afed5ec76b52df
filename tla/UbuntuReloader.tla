--------------------------- MODULE UbuntuReloader ---------------------------
(***************************************************************************)
(* The reloader of CertReloader under the Ubuntu installation, where the   *)
(* certificate and the key are two files that are replaced one by one.     *)
(* The writers are installer/deploy-hook.sh:31-32, which may be            *)
(* interrupted between its two mv and whose lineage may be renewed between *)
(* its two reads, and the rollback of installer/install.sh, which removes  *)
(* both files, copies an older pair back (374-377, 415-421) and moves the  *)
(* lineage's over it (402-403).  All that is known of them is that any     *)
(* file may come to hold anything at any moment.  History variables record *)
(* what the certificate file has held and who has read what of it.         *)
(***************************************************************************)
EXTENDS CertReloader, Sequences

CONSTANT MaxWrites   \* bound on the replacements of the certificate
ASSUME WritesAssumption == MaxWrites \in Nat

VARIABLES
  contents,   \* history: all that the certificate file has held so far
  readAt,     \* history: the place in contents each goroutine in reload has read, or 0
  position    \* history: the place of the matching pair that was read last, or 0
history == <<contents, readAt, position>>
ubuntuVars == <<vars, history>>

Promise == INSTANCE ServedPair WITH served <- certificate

\* a file is replaced, removed or half written
WriteCert(c) ==
  /\ certFile' = c
  /\ UNCHANGED <<keyFile, reloaderVars>>
WriteKey(k) ==
  /\ keyFile' = k
  /\ UNCHANGED <<certFile, reloaderVars>>

(***************************************************************************)
(* The steps with what is recorded of them.                                *)
(***************************************************************************)
NotReading == [t \in Goroutines |-> 0]
Forget(t) == readAt' = [readAt EXCEPT ![t] = IF thread'[t].pc = "idle" THEN 0 ELSE @]
\* what the goroutine reads is what the file holds now
Reads(t) ==
  /\ ReadCert(t)
  /\ readAt' = [readAt EXCEPT ![t] = IF certFile = Unreadable THEN 0 ELSE Len(contents)]
  /\ UNCHANGED position
\* a matching pair is in use afterwards, whether it was before or not
Loads(t) ==
  /\ Parse(t) /\ Forget(t)
  /\ position' = IF KeyOf[thread[t].cert] = thread[t].key THEN readAt[t] ELSE position
Reloads(t) == \/ Reads(t) \/ Loads(t)
              \/ ReadKey(t) /\ Forget(t) /\ UNCHANGED position

Serving == /\ \/ \E t \in Goroutines : Reloads(t)
              \/ \E h \in Handshakes : Lock(h) /\ UNCHANGED <<readAt, position>>
           /\ UNCHANGED <<disk, contents>>
Starting == newCertificateReloader /\ UNCHANGED <<disk, history>>
Ending == Exit /\ readAt' = NotReading /\ position' = 0 /\ UNCHANGED <<disk, contents>>
Replacing ==
  \/ \E c \in FileCerts :
       /\ Len(contents) <= MaxWrites
       /\ WriteCert(c) /\ contents' = Append(contents, c) /\ UNCHANGED <<readAt, position>>
  \/ \E k \in FileKeys : WriteKey(k) /\ UNCHANGED history

Init == /\ certFile = Unreadable /\ keyFile = Unreadable /\ ReloaderInit
        /\ contents = <<certFile>> /\ readAt = NotReading /\ position = 0
Next == Serving \/ Starting \/ Ending \/ Replacing
Spec == Init /\ [][Next]_ubuntuVars

\* systemd starts the server again, and clients keep connecting
FairSpec == Spec /\ WF_ubuntuVars(Serving) /\ WF_ubuntuVars(Starting)

(***************************************************************************)
(* Properties.                                                             *)
(***************************************************************************)
\* Whatever is written to the files: clients get matching pairs only, of
\* certificates the file has held, and no handshake goes back behind what an
\* earlier one took, however slowly either of them read.
PairsAreCompleteAndInOrder == Promise!ServedSpec

\* When the files stop changing at a matching pair and the server stops being
\* restarted, the pair is taken into use for good: no torn read of the two files is
\* remembered as if it had been loaded.
CatchesUp ==
  \A c \in Certs :
    <>[](certFile = c /\ keyFile = KeyOf[c]) /\ <>[](process # "down")
      => <>[](certificate = PairOf(c))

=============================================================================
