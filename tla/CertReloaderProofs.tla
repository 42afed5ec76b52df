------------------------- MODULE CertReloaderProofs -------------------------
(***************************************************************************)
(* Proofs about UbuntuReloader for every set of certificates, keys and     *)
(* handshakes: the type invariant, and that the reloader implements        *)
(* ServedPair.  The inductive invariant adds to TypeOK that what a         *)
(* goroutine has read lies, in the order the file held it, between the     *)
(* pair in use and the last content: the mutex is what keeps a slow reader *)
(* from going back behind a faster one.                                    *)
(***************************************************************************)
EXTENDS UbuntuReloader, TLAPS

\* where in contents the goroutine has read, against the pair in use
ReadInOrder(t) ==
  /\ readAt[t] \in 0..Len(contents)
  /\ thread[t].pc \in {"readKey", "parse"} =>
       /\ readAt[t] # 0 /\ position <= readAt[t]
       /\ thread[t].cert = contents[readAt[t]] /\ thread[t].cert \in Certs
  /\ thread[t].pc = "parse" => thread[t].key \in PrivateKeys
\* the pair in use is a matching one, from where it was taken
InUse ==
  /\ position \in 0..Len(contents)
  /\ certificate # None =>
       /\ position # 0
       /\ contents[position] \in Certs /\ certificate = PairOf(contents[position])
Recorded == /\ contents \in Seq(FileCerts) /\ contents # <<>>
            /\ certFile = contents[Len(contents)]
            /\ readAt \in [Goroutines -> Nat]
Inv == TypeOK /\ Recorded /\ InUse /\ \A t \in Goroutines : ReadInOrder(t)

USE ReloaderAssumption
    DEF PairOf, Promise!PairOf, Pairs, Promise!Pairs, Goroutines, FileCerts, FileKeys

\* The initial state satisfies the invariant and starts the abstract behaviour.
LEMMA InitInv == Init => Inv /\ Promise!ServedInit
<1> SUFFICES ASSUME Init PROVE Inv /\ Promise!ServedInit
  OBVIOUS
<1> USE DEF Init, ReloaderInit, Idle, NoResult, NotReading
<1>1. TypeOK BY DEF TypeOK, Threads
<1>2. contents = <<Unreadable>> OBVIOUS
<1>3. Recorded BY <1>2 DEF Recorded
<1>4. InUse BY <1>2 DEF InUse
<1>5. \A t \in Goroutines : ReadInOrder(t) BY <1>2 DEF ReadInOrder
<1>6. Promise!ServedInit BY <1>2 DEF Promise!ServedInit, Promise!Nothing
<1> QED BY <1>1, <1>3, <1>4, <1>5, <1>6 DEF Inv

\* What reading the certificate makes of a goroutine's record.
LEMMA CertRead ==
  ASSUME NEW r \in Threads, NEW c \in FileCerts
  PROVE  /\ [r EXCEPT !.pc = "readKey", !.cert = c] \in Threads
         /\ [r EXCEPT !.pc = "readKey", !.cert = c].pc = "readKey"
         /\ [r EXCEPT !.pc = "readKey", !.cert = c].cert = c
BY DEF Threads

\* What reading the key makes of it.
LEMMA KeyRead ==
  ASSUME NEW r \in Threads, NEW k \in FileKeys
  PROVE  /\ [r EXCEPT !.pc = "parse", !.key = k] \in Threads
         /\ [r EXCEPT !.pc = "parse", !.key = k].pc = "parse"
         /\ [r EXCEPT !.pc = "parse", !.key = k].cert = r.cert
         /\ [r EXCEPT !.pc = "parse", !.key = k].key = k
BY DEF Threads

\* Of what is recorded, contents[n] is a content of the file.
LEMMA Contents == Recorded => /\ Len(contents) \in Nat \ {0}
                              /\ \A n \in 1..Len(contents) : contents[n] \in FileCerts
BY DEF Recorded

\* A goroutine that leaves reload with the pair in use unchanged: a handshake is
\* answered with it, and the process does not start without one.
LEMMA KeepType ==
  ASSUME NEW t \in Goroutines, TypeOK, Keep(t), thread[t].pc # "idle", UNCHANGED disk
  PROVE  /\ TypeOK'
         /\ thread' = [thread EXCEPT ![t] = Idle]
         /\ t # Main => certificate # None
BY DEF Keep, Leave, disk, TypeOK, Idle, Threads

\* It is then a handshake of ServedPair, or nothing when the process starts.
LEMMA KeepStep ==
  ASSUME NEW t \in Goroutines, Inv, Keep(t), thread[t].pc # "idle", UNCHANGED <<disk, contents>>,
         position' = position, readAt' = [readAt EXCEPT ![t] = 0]
  PROVE  Inv' /\ [Promise!ServedNext]_(Promise!servedVars)
<1>1. TypeOK' /\ thread' = [thread EXCEPT ![t] = Idle] /\ (t # Main => certificate # None)
  BY KeepType DEF Inv
<1>2. Recorded' BY DEF Inv, Recorded, disk
<1>3. InUse' BY DEF Inv, InUse, Keep
<1>4. \A u \in Goroutines : ReadInOrder(u)'
  BY <1>1 DEF Inv, TypeOK, Recorded, ReadInOrder, Idle
<1>5. CASE t = Main
  BY <1>1, <1>2, <1>3, <1>4, <1>5 DEF Inv, Keep, Leave, Promise!servedVars
<1>6. CASE t \in Handshakes
  <2>1. certificate # None BY <1>1, <1>6
  <2>2. Promise!Handshake(t) BY <1>6, <2>1 DEF Promise!Handshake, Keep, Leave
  <2> QED BY <1>1, <1>2, <1>3, <1>4, <1>6, <2>2 DEF Inv, Promise!ServedNext
<1> QED BY <1>5, <1>6

\* A goroutine that takes the pair it has read: the pair matches and comes from no
\* earlier content than the one before, since the mutex was held since it was read.
LEMMA LoadsStep ==
  ASSUME NEW t \in Goroutines, Inv, Loads(t), UNCHANGED <<disk, contents>>
  PROVE  Inv' /\ [Promise!ServedNext]_(Promise!servedVars)
<1> DEFINE pair == [cert |-> thread[t].cert, key |-> thread[t].key]
<1>0. thread[t].pc = "parse" BY DEF Loads, Parse
<1>1. /\ readAt[t] \in 1..Len(contents) /\ position <= readAt[t]
      /\ pair.cert = contents[readAt[t]] /\ pair.cert \in Certs /\ pair.key \in PrivateKeys
  BY <1>0 DEF Inv, ReadInOrder
<1>2. CASE KeyOf[thread[t].cert] # thread[t].key
  <2>1. Keep(t) BY <1>2 DEF Loads, Parse
  <2>2. thread' = [thread EXCEPT ![t] = Idle] BY <2>1 DEF Keep, Leave
  <2>3. thread'[t].pc = "idle" BY <2>2 DEF Inv, TypeOK, Idle
  <2>4. readAt' = [readAt EXCEPT ![t] = 0] BY <2>3 DEF Loads, Forget
  <2>5. position' = position BY <1>2 DEF Loads
  <2> QED BY <1>0, <2>1, <2>4, <2>5, KeepStep
<1>3. CASE KeyOf[thread[t].cert] = thread[t].key
  <2>1. pair \in Pairs /\ pair = PairOf(contents[readAt[t]]) /\ pair # None
    BY <1>1, <1>3
  <2>2. files' = pair /\ certificate' = pair /\ Leave(t)
    BY <1>3 DEF Loads, Parse, Keep, Inv, TypeOK
  <2>3. thread' = [thread EXCEPT ![t] = Idle] BY <2>2 DEF Leave
  <2>4. thread'[t].pc = "idle" BY <2>3 DEF Inv, TypeOK, Idle
  <2>5. readAt' = [readAt EXCEPT ![t] = 0] /\ position' = readAt[t]
    BY <1>3, <2>4 DEF Loads, Forget
  <2>6. TypeOK'
    BY <1>0, <2>1, <2>2 DEF Inv, TypeOK, Leave, disk, Idle, Threads
  <2>7. Recorded' BY <2>5 DEF Inv, Recorded, disk
  <2>8. InUse' BY <1>1, <2>1, <2>2, <2>5 DEF InUse
  <2>9. \A u \in Goroutines : ReadInOrder(u)'
    <3>1. \A u \in Goroutines \ {t} : thread[u].pc = "idle"
      BY <1>0 DEF Inv, TypeOK
    <3>2. \A u \in Goroutines : thread'[u].pc = "idle"
      BY <2>3, <3>1 DEF Idle, Inv, TypeOK
    <3>3. \A u \in Goroutines : readAt'[u] \in 0..Len(contents)
      BY <2>5, Contents DEF Inv, Recorded, ReadInOrder
    <3> QED BY <3>2, <3>3 DEF ReadInOrder
  <2>10. Promise!Load(readAt[t])
    BY <1>1, <2>1, <2>2, <2>5 DEF Promise!Load
  <2>11. CASE t = Main
    <3>1. Promise!Load1 BY <1>1, <2>2, <2>10, <2>11 DEF Promise!Load1, Leave
    <3> QED BY <2>6, <2>7, <2>8, <2>9, <3>1 DEF Inv, Promise!ServedNext
  <2>12. CASE t \in Handshakes
    <3>1. Promise!Handshake(t)
      BY <1>1, <2>1, <2>2, <2>10, <2>12 DEF Promise!Handshake, Leave
    <3> QED BY <2>6, <2>7, <2>8, <2>9, <2>12, <3>1 DEF Inv, Promise!ServedNext
  <2> QED BY <2>11, <2>12
<1> QED BY <1>2, <1>3

\* A goroutine that has read the certificate holds the last content of the file.
LEMMA ReadsStep ==
  ASSUME NEW t \in Goroutines, Inv, Reads(t), UNCHANGED <<disk, contents>>
  PROVE  Inv' /\ [Promise!ServedNext]_(Promise!servedVars)
<1>1. CASE certFile = Unreadable
  <2>1. Keep(t) /\ thread[t].pc = "readCert" BY <1>1 DEF Reads, ReadCert
  <2>2. position' = position /\ readAt' = [readAt EXCEPT ![t] = 0] BY <1>1 DEF Reads
  <2> QED BY <2>1, <2>2, KeepStep
<1>2. CASE certFile # Unreadable
  <2> DEFINE record == [thread[t] EXCEPT !.pc = "readKey", !.cert = certFile]
  <2>1. thread[t].pc = "readCert" /\ thread' = [thread EXCEPT ![t] = record]
        /\ UNCHANGED <<process, mu, files, certificate, result, position>>
        /\ readAt' = [readAt EXCEPT ![t] = Len(contents)]
    BY <1>2 DEF Reads, ReadCert, Go, served
  <2>2. certFile \in Certs BY <1>2 DEF Inv, TypeOK
  <2>3. record \in Threads /\ record.pc = "readKey" /\ record.cert = certFile
    <3>1. thread[t] \in Threads BY DEF Inv, TypeOK
    <3>2. certFile \in FileCerts BY DEF Inv, TypeOK
    <3> QED BY <3>1, <3>2, CertRead
  <2> HIDE DEF record
  <2>4. TypeOK'
    <3>1. thread' \in [Goroutines -> Threads] BY <2>1, <2>3 DEF Inv, TypeOK
    <3>2. \A u \in Goroutines : thread'[u].pc # "idle" => thread[u].pc # "idle"
      BY <2>1 DEF Inv, TypeOK
    <3> QED BY <2>1, <3>1, <3>2 DEF Inv, TypeOK, disk
  <2>5. Recorded' BY <2>1, Contents DEF Inv, Recorded, disk
  <2>6. InUse' BY <2>1 DEF Inv, InUse
  <2>7. \A u \in Goroutines : ReadInOrder(u)'
    <3>1. ReadInOrder(t)'
      BY <2>1, <2>2, <2>3, Contents DEF Inv, TypeOK, Recorded, InUse, ReadInOrder
    <3>2. \A u \in Goroutines \ {t} : ReadInOrder(u)'
      BY <2>1 DEF Inv, TypeOK, Recorded, ReadInOrder
    <3> QED BY <3>1, <3>2
  <2> QED BY <2>1, <2>4, <2>5, <2>6, <2>7 DEF Inv, Promise!servedVars
<1> QED BY <1>1, <1>2

\* A goroutine that has read the key too keeps what it has read of the certificate.
LEMMA ReadKeyStep ==
  ASSUME NEW t \in Goroutines, Inv, ReadKey(t), Forget(t),
         UNCHANGED <<disk, contents, position>>
  PROVE  Inv' /\ [Promise!ServedNext]_(Promise!servedVars)
<1>1. CASE keyFile = Unreadable
  <2>1. Keep(t) /\ thread[t].pc = "readKey" BY <1>1 DEF ReadKey
  <2>2. thread' = [thread EXCEPT ![t] = Idle] BY <2>1 DEF Keep, Leave
  <2>3. thread'[t].pc = "idle" BY <2>2 DEF Inv, TypeOK, Idle
  <2>4. readAt' = [readAt EXCEPT ![t] = 0] BY <2>3 DEF Forget
  <2> QED BY <2>1, <2>4, KeepStep
<1>2. CASE keyFile # Unreadable
  <2> DEFINE record == [thread[t] EXCEPT !.pc = "parse", !.key = keyFile]
  <2>1. thread[t].pc = "readKey" /\ thread' = [thread EXCEPT ![t] = record]
        /\ UNCHANGED <<process, mu, files, certificate, result, position>>
    BY <1>2 DEF ReadKey, Go, served
  <2>2. keyFile \in PrivateKeys BY <1>2 DEF Inv, TypeOK
  <2>3. /\ record \in Threads /\ record.pc = "parse" /\ record.key = keyFile
        /\ record.cert = thread[t].cert
    <3>1. thread[t] \in Threads BY DEF Inv, TypeOK
    <3>2. keyFile \in FileKeys BY DEF Inv, TypeOK
    <3> QED BY <3>1, <3>2, KeyRead
  <2> HIDE DEF record
  <2>4. readAt' = readAt
    <3>1. thread'[t].pc = "parse" BY <2>1, <2>3 DEF Inv, TypeOK
    <3> QED BY <3>1 DEF Forget, Inv, Recorded
  <2>5. TypeOK'
    <3>1. thread' \in [Goroutines -> Threads] BY <2>1, <2>3 DEF Inv, TypeOK
    <3>2. \A u \in Goroutines : thread'[u].pc # "idle" => thread[u].pc # "idle"
      BY <2>1 DEF Inv, TypeOK
    <3> QED BY <2>1, <3>1, <3>2 DEF Inv, TypeOK, disk
  <2>6. Recorded' BY <2>4 DEF Inv, Recorded, disk
  <2>7. InUse' BY <2>1 DEF Inv, InUse
  <2>8. \A u \in Goroutines : ReadInOrder(u)'
    <3>1. ReadInOrder(t)'
      BY <2>1, <2>2, <2>3, <2>4 DEF Inv, TypeOK, ReadInOrder
    <3>2. \A u \in Goroutines \ {t} : ReadInOrder(u)'
      BY <2>1, <2>4 DEF Inv, TypeOK, ReadInOrder
    <3> QED BY <3>1, <3>2
  <2> QED BY <2>1, <2>5, <2>6, <2>7, <2>8 DEF Inv, Promise!servedVars
<1> QED BY <1>1, <1>2

\* What is written to the files changes nothing of what was read of them before.
LEMMA ReplacingStep ==
  ASSUME Inv, Replacing
  PROVE  Inv' /\ [Promise!ServedNext]_(Promise!servedVars)
<1> USE DEF WriteCert, WriteKey, reloaderVars, served, history
<1>1. ASSUME NEW c \in FileCerts, WriteCert(c), contents' = Append(contents, c),
             UNCHANGED <<readAt, position>>
      PROVE  Inv' /\ [Promise!ServedNext]_(Promise!servedVars)
  <2>1. TypeOK' BY <1>1 DEF Inv, TypeOK
  <2>2. /\ contents' \in Seq(FileCerts) /\ Len(contents') = Len(contents) + 1
        /\ contents'[Len(contents')] = c
        /\ \A n \in 1..Len(contents) : contents'[n] = contents[n]
        /\ Len(contents) \in Nat
    BY <1>1 DEF Inv, Recorded
  <2>3. Recorded' BY <1>1, <2>2 DEF Inv, Recorded
  <2>4. InUse' BY <1>1, <2>2 DEF Inv, InUse
  <2>5. \A t \in Goroutines : ReadInOrder(t)'
    BY <1>1, <2>2 DEF Inv, Recorded, ReadInOrder
  <2>6. Promise!Write(c) BY <1>1 DEF Promise!Write
  <2> QED BY <1>1, <2>1, <2>3, <2>4, <2>5, <2>6 DEF Inv, Promise!ServedNext
<1>2. ASSUME NEW k \in FileKeys, WriteKey(k), UNCHANGED history
      PROVE  Inv' /\ [Promise!ServedNext]_(Promise!servedVars)
  <2>1. TypeOK' BY <1>2 DEF Inv, TypeOK
  <2>2. Recorded' BY <1>2 DEF Inv, Recorded
  <2>3. InUse' BY <1>2 DEF Inv, InUse
  <2>4. \A t \in Goroutines : ReadInOrder(t)' BY <1>2 DEF Inv, ReadInOrder
  <2> QED BY <1>2, <2>1, <2>2, <2>3, <2>4 DEF Inv, Promise!servedVars
<1> QED BY <1>1, <1>2 DEF Replacing

\* Every step keeps the invariant and is a step of ServedPair or a stutter.
LEMMA StepInv ==
  Inv /\ [Next]_ubuntuVars => Inv' /\ [Promise!ServedNext]_(Promise!servedVars)
<1> SUFFICES ASSUME Inv, [Next]_ubuntuVars
             PROVE  Inv' /\ [Promise!ServedNext]_(Promise!servedVars)
  OBVIOUS
<1>1. CASE UNCHANGED ubuntuVars
  <2> USE <1>1 DEF ubuntuVars, history, vars, disk, reloaderVars, served
  <2>1. TypeOK' BY DEF Inv, TypeOK
  <2>2. Recorded' BY DEF Inv, Recorded
  <2>3. InUse' BY DEF Inv, InUse
  <2>4. \A t \in Goroutines : ReadInOrder(t)' BY DEF Inv, ReadInOrder
  <2> QED BY <2>1, <2>2, <2>3, <2>4 DEF Inv, Promise!servedVars
<1>2. ASSUME NEW t \in Goroutines, Reloads(t), UNCHANGED <<disk, contents>>
      PROVE  Inv' /\ [Promise!ServedNext]_(Promise!servedVars)
  <2>1. CASE Reads(t) BY <1>2, <2>1, ReadsStep
  <2>2. CASE Loads(t) BY <1>2, <2>2, LoadsStep
  <2>3. CASE ReadKey(t) /\ Forget(t) /\ UNCHANGED position
    BY <1>2, <2>3, ReadKeyStep DEF disk
  <2> QED BY <1>2, <2>1, <2>2, <2>3 DEF Reloads
<1>3. ASSUME NEW h \in Handshakes, Lock(h), UNCHANGED <<disk, history>>
      PROVE  Inv' /\ [Promise!ServedNext]_(Promise!servedVars)
  <2> USE <1>3 DEF Lock, history, disk, served
  <2>1. TypeOK' BY DEF Inv, TypeOK, Threads
  <2>2. Recorded' BY DEF Inv, Recorded
  <2>3. InUse' BY DEF Inv, InUse
  <2>4. \A t \in Goroutines : ReadInOrder(t)' BY DEF Inv, TypeOK, Threads, ReadInOrder
  <2> QED BY <2>1, <2>2, <2>3, <2>4 DEF Inv, Promise!servedVars
<1>4. CASE Starting
  <2> USE <1>4 DEF Starting, newCertificateReloader, history, disk, served
  <2>1. TypeOK' BY DEF Inv, TypeOK, Threads
  <2>2. Recorded' BY DEF Inv, Recorded
  <2>3. InUse' BY DEF Inv, InUse
  <2>4. \A t \in Goroutines : ReadInOrder(t)' BY DEF Inv, TypeOK, Threads, ReadInOrder
  <2> QED BY <2>1, <2>2, <2>3, <2>4 DEF Inv, Promise!servedVars
<1>5. CASE Ending
  <2> USE <1>5 DEF Ending, Exit, NoResult, NotReading, Idle, disk
  <2>1. TypeOK' BY DEF Inv, TypeOK, Threads
  <2>2. Recorded' BY DEF Inv, Recorded
  <2>3. InUse' BY DEF Inv, InUse
  <2>4. \A t \in Goroutines : ReadInOrder(t)' BY DEF Inv, Recorded, ReadInOrder
  <2>5. Promise!End BY DEF Promise!End, Promise!Nothing
  <2> QED BY <2>1, <2>2, <2>3, <2>4, <2>5 DEF Inv, Promise!ServedNext
<1>6. CASE Replacing
  BY <1>6, ReplacingStep
<1> QED
  BY <1>1, <1>2, <1>3, <1>4, <1>5, <1>6 DEF Next, Serving, history

\* tls_reload.go keeps its state well-typed: the mutex is held exactly by the
\* handshake in reload, and a server that accepts connections has a pair.
THEOREM TypeCorrect == Spec => []TypeOK
<1>1. Init => Inv BY InitInv
<1>2. Inv /\ [Next]_ubuntuVars => Inv' BY StepInv
<1>3. Inv => TypeOK BY DEF Inv
<1> QED BY <1>1, <1>2, <1>3, PTL DEF Spec

\* tls_reload.go implements its promise for any number of handshakes and any
\* replacement of the files, also by older ones or by garbage: every handshake gets
\* a matching pair that the file has held, and none goes back behind what an
\* earlier one took.
THEOREM ReloaderKeepsItsPromise == Spec => PairsAreCompleteAndInOrder
<1>1. Init => Inv /\ Promise!ServedInit BY InitInv
<1>2. Inv /\ [Next]_ubuntuVars => Inv' /\ [Promise!ServedNext]_(Promise!servedVars) BY StepInv
<1> QED BY <1>1, <1>2, PTL DEF Spec, PairsAreCompleteAndInOrder, Promise!ServedSpec

=============================================================================
