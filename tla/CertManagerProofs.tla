-------------------------- MODULE CertManagerProofs --------------------------
(***************************************************************************)
(* The safety properties of the container deployment for every set of      *)
(* certificates, clients, rotations and faults.                            *)
(***************************************************************************)
EXTENDS CertManager, TLAPS

USE ManagerAssumption
    DEF ManagerAssumption, Proxy!Goroutines, Proxy!FileCerts, Proxy!FileKeys, Proxy!PairOf,
        Proxy!Pairs, Pairs

-----------------------------------------------------------------------------
(* The proxy, whatever happens to the files behind the link: what a goroutine *)
(* has read can be parsed, and what is served matches.                        *)
ReadsParse(t) ==
  /\ thread[t].pc \in {"readKey", "parse"} => thread[t].cert \in Certs
  /\ thread[t].pc = "parse" => thread[t].key \in PrivateKeys

(* TypeOK of the reloader without the two files. *)
ProxyTypes ==
  /\ process \in {"down", "loading", "up"}
  /\ mu \in Handshakes \cup {None}
  /\ thread \in [Proxy!Goroutines -> Proxy!Threads]
  /\ certificate \in Pairs \cup {None} /\ files = certificate
  /\ result \in [Handshakes -> Pairs \cup {None}]
  /\ process = "up" <=> certificate # None
  /\ \A t \in Proxy!Goroutines : thread[t].pc # "idle" =>
       IF t = Main THEN process = "loading" ELSE process = "up" /\ mu = t

LEMMA ProxyTypeOK ==
  Proxy!TypeOK <=> /\ CurrentCert \in Proxy!FileCerts /\ CurrentKey \in Proxy!FileKeys
                   /\ ProxyTypes
BY DEF Proxy!TypeOK, ProxyTypes

ServedInv ==
  /\ ProxyTypes
  /\ \A t \in Proxy!Goroutines : ReadsParse(t)
  /\ certificate # None => Matches(certificate)
  /\ \A h \in Handshakes : result[h] # None => Matches(result[h])

(* A goroutine leaves with the pair in use. *)
LEMMA KeepServed ==
  ASSUME ServedInv, NEW t \in Proxy!Goroutines, thread[t].pc # "idle", Proxy!Keep(t)
  PROVE  ServedInv'
<1>1. ProxyTypes'
  BY DEF ServedInv, ProxyTypes, Proxy!Keep, Proxy!Leave, Proxy!Idle, Proxy!Threads
<1>2. \A u \in Proxy!Goroutines : ReadsParse(u)'
  BY DEF ServedInv, ProxyTypes, ReadsParse, Proxy!Keep, Proxy!Leave, Proxy!Idle
<1>3. /\ certificate' # None => Matches(certificate')
      /\ \A h \in Handshakes : result'[h] # None => Matches(result'[h])
  BY DEF ServedInv, ProxyTypes, Matches, Proxy!Keep, Proxy!Leave
<1> QED BY <1>1, <1>2, <1>3 DEF ServedInv, Matches

(* A goroutine goes on to the next read. *)
LEMMA GoServed ==
  ASSUME ServedInv, NEW t \in Proxy!Goroutines, NEW record \in Proxy!Threads,
         thread[t].pc # "idle", thread' = [thread EXCEPT ![t] = record],
         UNCHANGED <<process, mu, files, certificate, result>>,
         record.pc \in {"readKey", "parse"}, record.cert \in Certs,
         record.pc = "parse" => record.key \in PrivateKeys
  PROVE  ServedInv'
<1>1. ProxyTypes'   BY DEF ServedInv, ProxyTypes
<1>2. \A u \in Proxy!Goroutines : ReadsParse(u)'   BY DEF ServedInv, ProxyTypes, ReadsParse
<1> QED BY <1>1, <1>2 DEF ServedInv, Matches

LEMMA ReloadServed ==
  ASSUME ServedInv, NEW t \in Proxy!Goroutines, Proxy!reload(t),
         CurrentCert \in Proxy!FileCerts, CurrentKey \in Proxy!FileKeys
  PROVE  ServedInv'
<1>0. thread[t] \in Proxy!Threads   BY DEF ServedInv, ProxyTypes
<1>1. ASSUME thread[t].pc # "idle", Proxy!Keep(t) PROVE ServedInv'   BY <1>1, KeepServed
<1>2. CASE Proxy!ReadCert(t)
  <2>1. CASE CurrentCert = Unreadable   BY <1>1, <1>2, <2>1 DEF Proxy!ReadCert
  <2>2. CASE CurrentCert # Unreadable
    <3> DEFINE record == [thread[t] EXCEPT !.pc = "readKey", !.cert = CurrentCert]
    <3>1. thread[t].pc = "readCert" /\ thread' = [thread EXCEPT ![t] = record]
          /\ UNCHANGED <<process, mu, files, certificate, result>>
      BY <1>2, <2>2 DEF Proxy!ReadCert, Proxy!Go, Proxy!served
    <3>2. CurrentCert \in Certs   BY <2>2
    <3>3. record \in Proxy!Threads /\ record.pc = "readKey" /\ record.cert = CurrentCert
      BY <1>0, <3>2 DEF Proxy!Threads
    <3> HIDE DEF record
    <3> QED BY <3>1, <3>2, <3>3, GoServed
  <2> QED BY <2>1, <2>2
<1>3. CASE Proxy!ReadKey(t)
  <2>1. CASE CurrentKey = Unreadable   BY <1>1, <1>3, <2>1 DEF Proxy!ReadKey
  <2>2. CASE CurrentKey # Unreadable
    <3> DEFINE record == [thread[t] EXCEPT !.pc = "parse", !.key = CurrentKey]
    <3>1. thread[t].pc = "readKey" /\ thread' = [thread EXCEPT ![t] = record]
          /\ UNCHANGED <<process, mu, files, certificate, result>>
      BY <1>3, <2>2 DEF Proxy!ReadKey, Proxy!Go, Proxy!served
    <3>2. CurrentKey \in PrivateKeys   BY <2>2
    <3>3. /\ record \in Proxy!Threads /\ record.pc = "parse"
          /\ record.cert = thread[t].cert /\ record.key = CurrentKey
      BY <1>0, <3>2 DEF Proxy!Threads
    <3>4. thread[t].cert \in Certs   BY <3>1 DEF ServedInv, ReadsParse
    <3> HIDE DEF record
    <3> QED BY <3>1, <3>2, <3>3, <3>4, GoServed
  <2> QED BY <2>1, <2>2
<1>4. CASE Proxy!Parse(t)
  <2> DEFINE pair == [cert |-> thread[t].cert, key |-> thread[t].key]
  <2>1. CASE Proxy!Keep(t)   BY <1>1, <1>4, <2>1 DEF Proxy!Parse
  <2>2. CASE ~Proxy!Keep(t)
    <3>1. /\ thread[t].pc = "parse" /\ KeyOf[thread[t].cert] = thread[t].key
          /\ files' = pair /\ certificate' = pair /\ Proxy!Leave(t)
      BY <1>4, <2>2 DEF Proxy!Parse
    <3>2. Matches(pair) /\ pair # None
      BY <3>1 DEF ServedInv, ReadsParse, Matches
    <3> HIDE DEF pair
    <3>3. ProxyTypes'
      BY <3>1, <3>2 DEF ServedInv, ProxyTypes, Matches, Proxy!Leave, Proxy!Idle, Proxy!Threads
    <3>4. \A u \in Proxy!Goroutines : ReadsParse(u)'
      BY <3>1 DEF ServedInv, ProxyTypes, ReadsParse, Proxy!Leave, Proxy!Idle
    <3>5. \A h \in Handshakes : result'[h] # None => Matches(result'[h])
      BY <3>1, <3>2 DEF ServedInv, ProxyTypes, Matches, Proxy!Leave
    <3> QED BY <3>1, <3>2, <3>3, <3>4, <3>5 DEF ServedInv, Matches
  <2> QED BY <2>1, <2>2
<1> QED BY <1>2, <1>3, <1>4 DEF Proxy!reload

LEMMA ProxyServed ==
  ASSUME ServedInv,
         \/ \E h \in Handshakes : Proxy!Lock(h)
         \/ Proxy!newCertificateReloader \/ Proxy!Exit \/ UNCHANGED proxyVars
  PROVE  ServedInv'
<1>1. ASSUME NEW h \in Handshakes, Proxy!Lock(h) PROVE ServedInv'
  <2>1. thread' = [thread EXCEPT ![h].pc = "readCert"] /\ mu' = h /\ mu = None
        /\ process = "up" /\ UNCHANGED <<process, files, certificate, result>>
    BY <1>1 DEF Proxy!Lock, Proxy!served
  <2>2. ProxyTypes'   BY <2>1 DEF ServedInv, ProxyTypes, Proxy!Threads
  <2>3. \A u \in Proxy!Goroutines : ReadsParse(u)'
    BY <2>1 DEF ServedInv, ProxyTypes, ReadsParse, Proxy!Threads
  <2> QED BY <2>1, <2>2, <2>3 DEF ServedInv, Matches
<1>2. CASE Proxy!newCertificateReloader
  <2>1. thread' = [thread EXCEPT ![Main].pc = "readCert"] /\ process = "down" /\ process' = "loading"
        /\ UNCHANGED <<mu, files, certificate, result>>
    BY <1>2 DEF Proxy!newCertificateReloader, Proxy!served
  <2>2. ProxyTypes'   BY <2>1 DEF ServedInv, ProxyTypes, Proxy!Threads
  <2>3. \A u \in Proxy!Goroutines : ReadsParse(u)'
    BY <2>1 DEF ServedInv, ProxyTypes, ReadsParse, Proxy!Threads
  <2> QED BY <2>1, <2>2, <2>3 DEF ServedInv, Matches
<1>3. CASE Proxy!Exit
  BY <1>3 DEF ServedInv, ProxyTypes, ReadsParse, Matches, Proxy!Exit, Proxy!Idle, Proxy!NoResult,
              Proxy!Threads
<1>4. CASE UNCHANGED proxyVars
  BY <1>4 DEF ServedInv, ProxyTypes, ReadsParse, Matches, proxyVars
<1> QED BY <1>1, <1>2, <1>3, <1>4

-----------------------------------------------------------------------------
(* The manager. *)
Managers == [pc : Labels, failure : BOOLEAN, previous : Pairs \cup {None},
             after : {"retry", "down"}, expected : Proxy!FileCerts,
             credentials : 0..MaxConfig]

Types ==
  /\ issued \in Certs \cup {0}
  /\ lineage \in Proxy!ReadPairs
  /\ current = None \/ Matches(current)
  /\ config \in 0..MaxConfig /\ loaded \in 0..config
  /\ manager \in Managers
  /\ ServedInv
  /\ verified \subseteq Pairs /\ abandoned \subseteq Pairs
  /\ faults \in 0..MaxFaults

InCheck == manager.pc \in Checking \cup {"rollback"}

(* Certbot only goes forward, and what was published was once in the lineage. *)
Forward(pair) == pair # None => lineage.cert \in Certs /\ pair.cert <= lineage.cert
Lineage ==
  /\ lineage.cert # Unreadable => lineage.cert <= issued
  /\ Forward(current) /\ Forward(manager.previous)

(* The version that a cycle leaves in place if its check never passes. *)
Fallback == IF InCheck /\ manager.previous # None THEN manager.previous ELSE current
Published ==
  /\ manager.previous # None => Matches(manager.previous)
  /\ manager.pc \in {"start", "certbot", "publish"} => manager.previous = None
  /\ InCheck => current # None
  /\ manager.pc \in Checking => current = lineage
  /\ manager.pc \in {"connect", "compare"} => manager.expected = current.cert
  /\ \A pair \in verified : current # None /\ pair.cert <= current.cert
  /\ \A pair \in verified : pair.cert <= Fallback.cert
  /\ verified # {} => Fallback \in verified \cup abandoned

ManagerInv == Types /\ Lineage /\ Published

LEMMA ManagerInit == Init => ManagerInv
<1> SUFFICES ASSUME Init PROVE ManagerInv   OBVIOUS
<1>1. ServedInv
  BY DEF Init, Proxy!ReloaderInit, ServedInv, ProxyTypes, ReadsParse, Proxy!Idle, Proxy!Threads,
         Proxy!NoResult
<1>2. manager \in Managers   BY DEF Init, Down, Managers, Labels
<1>3. lineage \in Proxy!ReadPairs   BY DEF Init, Proxy!ReadPairs
<1>4. config \in 0..MaxConfig /\ loaded \in 0..config /\ faults \in 0..MaxFaults   BY DEF Init
<1>5. Types
  <2>1. issued = 0 /\ current = None /\ verified = {} /\ abandoned = {}   BY DEF Init
  <2> QED BY <1>1, <1>2, <1>3, <1>4, <2>1 DEF Types
<1> QED BY <1>5 DEF Init, ManagerInv, Lineage, Forward, Published, Down, Checking, InCheck

(* A matching pair is not None, and its certificate determines it. *)
LEMMA Matching ==
  /\ ~Matches(None)
  /\ \A p, q : Matches(p) /\ Matches(q) /\ p.cert = q.cert => p = q
BY DEF Matches

LEMMA FilesBehindLink ==
  ASSUME Types
  PROVE  CurrentCert \in Proxy!FileCerts /\ CurrentKey \in Proxy!FileKeys
BY DEF Types, CurrentCert, CurrentKey, Matches

LEMMA ToStep ==
  ASSUME manager \in Managers, NEW pc \in Labels, To(pc)
  PROVE  /\ manager' \in Managers /\ manager'.pc = pc
         /\ manager'.previous = manager.previous /\ manager'.expected = manager.expected
BY DEF To, Managers

LEMMA DownType == Down \in Managers /\ Down.pc = "down" /\ Down.previous = None
BY DEF Down, Managers, Labels

(* A step that publishes nothing, verifies nothing and leaves the lineage alone. *)
LEMMA QuietStep ==
  ASSUME ManagerInv, manager' \in Managers, ServedInv',
         UNCHANGED <<issued, lineage, current, verified>>,
         config' \in 0..MaxConfig, loaded' \in 0..config',
         abandoned' \subseteq Pairs, abandoned \subseteq abandoned', faults' \in 0..MaxFaults,
         manager'.previous = manager.previous \/ (manager'.previous = None /\ ~InCheck'),
         manager'.pc \in {"start", "certbot", "publish"} => manager'.previous = None,
         manager'.pc \in Checking => manager.pc \in Checking,
         manager'.pc \in {"connect", "compare"} => manager'.expected = current.cert,
         InCheck' => InCheck,
         InCheck => InCheck' \/ current \in abandoned'
  PROVE  ManagerInv'
<1>1. Types'   BY DEF ManagerInv, Types
<1>2. Lineage'   BY DEF ManagerInv, Lineage, Forward
<1>3. Fallback' = Fallback \/ (Fallback' = current /\ current \in abandoned')
  BY DEF Fallback, InCheck
<1>4. Published'
  <2>1. \A pair \in verified : pair.cert <= Fallback'.cert
    BY <1>3 DEF ManagerInv, Published
  <2>2. verified # {} => Fallback' \in verified \cup abandoned'
    BY <1>3 DEF ManagerInv, Published
  <2>3. /\ manager'.previous # None => Matches(manager'.previous)
        /\ InCheck' => current' # None
        /\ manager'.pc \in Checking => current' = lineage'
    BY DEF ManagerInv, Published
  <2> QED BY <2>1, <2>2, <2>3 DEF ManagerInv, Published, Matches
<1> QED BY <1>1, <1>2, <1>4 DEF ManagerInv

(* A step in which only the manager moves. *)
LEMMA LocalStep ==
  ASSUME ManagerInv, Local, Calm, NEW pc \in Labels, To(pc),
         pc \in Checking => manager.pc \in Checking,
         pc \in {"certbot", "publish"} => manager.pc \in {"start", "certbot", "publish"},
         pc \notin {"start", "connect", "compare"},
         pc = "rollback" => manager.pc \in Checking,
         InCheck => pc \in Checking \cup {"rollback"}
  PROVE  ManagerInv'
<1>1. manager \in Managers /\ ServedInv   BY DEF ManagerInv, Types
<1>2. /\ manager' \in Managers /\ manager'.pc = pc /\ manager'.previous = manager.previous
  BY <1>1, ToStep
<1>3. UNCHANGED <<issued, lineage, current, config, loaded, verified, abandoned, faults, proxyVars>>
  BY DEF Local, Calm, history
<1>4. ServedInv'   BY <1>1, <1>3, ProxyServed
<1>5. /\ config \in 0..MaxConfig /\ loaded \in 0..config /\ abandoned \subseteq Pairs
      /\ faults \in 0..MaxFaults
  BY DEF ManagerInv, Types
<1>6. pc \in {"start", "certbot", "publish"} => manager.previous = None
  BY DEF ManagerInv, Published
<1>7. /\ manager'.pc \in {"start", "certbot", "publish"} => manager'.previous = None
      /\ manager'.pc \in Checking => manager.pc \in Checking
      /\ manager'.pc \notin {"connect", "compare"}
  BY <1>2, <1>6
<1>8. InCheck' => InCheck   BY <1>2 DEF InCheck, Checking
<1>9. InCheck => InCheck'   BY <1>2 DEF InCheck, Checking
<1>10. manager'.pc \in {"connect", "compare"} => manager'.expected = current.cert   BY <1>7
<1> QED BY <1>2, <1>3, <1>4, <1>5, <1>7, <1>8, <1>9, <1>10, QuietStep

(* run_cycle up to the publication. *)
LEMMA CycleSteps ==
  ASSUME ManagerInv, Begin \/ ensure_config \/ CertbotExit \/ CertbotFailure
  PROVE  ManagerInv'
<1>1. manager \in Managers /\ ServedInv   BY DEF ManagerInv, Types
<1>2. /\ config \in 0..MaxConfig /\ loaded \in 0..config /\ abandoned \subseteq Pairs
      /\ faults \in 0..MaxFaults
  BY DEF ManagerInv, Types
<1>3. CASE Begin
  <2>1. UNCHANGED <<issued, lineage, current, config, loaded, verified, abandoned, faults, proxyVars>>
    BY <1>3 DEF Begin, StartCycle, Local, Calm, history
  <2>2. ServedInv'   BY <1>1, <2>1, ProxyServed
  <2>3. manager' = [Down EXCEPT !.pc = "start", !.previous = None] /\ ~InCheck
    BY <1>3 DEF Begin, StartCycle, InCheck, Checking, At
  <2>4. manager' \in Managers /\ manager'.pc = "start" /\ manager'.previous = None
    <3>1. manager' = [pc |-> "start", failure |-> FALSE, previous |-> None, after |-> "retry",
                      expected |-> Unreadable, credentials |-> 0]
      BY <2>3 DEF Down
    <3> QED BY <3>1 DEF Managers, Labels
  <2> QED BY <1>2, <2>1, <2>2, <2>3, <2>4, QuietStep DEF InCheck, Checking
<1>4. CASE ensure_config
  <2>1. UNCHANGED <<issued, lineage, current, loaded, verified, abandoned, faults, proxyVars>>
    BY <1>4 DEF ensure_config, Calm, history
  <2>2. ServedInv'   BY <1>1, <2>1, ProxyServed
  <2>3. manager.pc = "start" /\ To("certbot")   BY <1>4 DEF ensure_config, At
  <2>4. manager' \in Managers /\ manager'.pc = "certbot" /\ manager'.previous = manager.previous
    BY <1>1, <2>3, ToStep DEF Labels
  <2>5. manager.previous = None   BY <2>3 DEF ManagerInv, Published
  <2>6. config' \in 0..MaxConfig /\ loaded' \in 0..config'
    BY <1>2, <1>4, <2>1 DEF ensure_config
  <2> QED BY <1>2, <2>1, <2>2, <2>3, <2>4, <2>5, <2>6, QuietStep DEF InCheck, Checking
<1>5. CASE CertbotExit
  BY <1>5, LocalStep DEF CertbotExit, At, InCheck, Checking, Labels
<1>6. CASE CertbotFailure
  <2>1. UNCHANGED <<issued, lineage, current, config, loaded, verified, abandoned, faults, proxyVars>>
    BY <1>6 DEF CertbotFailure, Local, Calm, history
  <2>2. ServedInv'   BY <1>1, <2>1, ProxyServed
  <2>3. manager.pc = "certbot" /\ manager.previous = None
    BY <1>6 DEF CertbotFailure, At, ManagerInv, Published
  <2>4. manager' \in Managers /\ manager'.pc \in {"retry", "publish"}
        /\ manager'.previous = manager.previous
    BY <1>1, <1>6 DEF CertbotFailure, Managers, Labels
  <2> QED BY <1>2, <2>1, <2>2, <2>3, <2>4, QuietStep DEF InCheck, Checking
<1> QED BY <1>3, <1>4, <1>5, <1>6

(* Certbot replaces the certificate by the last one it issued. *)
LEMMA CertbotSteps ==
  ASSUME ManagerInv, Certbot
  PROVE  ManagerInv'
<1>1. manager.pc = "certbot" /\ manager.previous = None /\ ~InCheck
  BY DEF Certbot, Issue, WriteLineage, At, ManagerInv, Published, InCheck, Checking
<1>2. UNCHANGED <<current, config, loaded, manager, verified, abandoned, faults, proxyVars>>
  BY DEF Certbot, Issue, WriteLineage, Calm, history
<1>3. ServedInv'   BY <1>2, ProxyServed DEF ManagerInv, Types
<1>4. Published'
  BY <1>1, <1>2 DEF ManagerInv, Published, Fallback, InCheck, Checking, Matches
<1>5. /\ issued \in Certs \cup {0} /\ issued' \in Certs \cup {0} /\ issued <= issued'
      /\ lineage' = lineage \/ issued' = issued
  BY DEF ManagerInv, Types, Certbot, Issue, WriteLineage
<1>6. /\ lineage' \in Proxy!ReadPairs
      /\ lineage'.cert = lineage.cert \/ (issued # 0 /\ lineage'.cert = issued)
  <2>1. CASE Issue   BY <2>1 DEF Issue, ManagerInv, Types
  <2>2. CASE WriteLineage
    <3>1. issued \in Certs /\ KeyOf[issued] \in PrivateKeys
      BY <1>5, <2>2 DEF WriteLineage
    <3> QED BY <2>2, <3>1 DEF WriteLineage, ManagerInv, Types, Proxy!ReadPairs
  <2> QED BY <2>1, <2>2 DEF Certbot
<1>7. lineage.cert \in Certs \cup {Unreadable}   BY DEF ManagerInv, Types, Proxy!ReadPairs
<1>8. Lineage'
  <2>0. issued \in Nat /\ issued' \in Nat   BY <1>5
  <2>1. lineage'.cert # Unreadable => lineage'.cert <= issued'
    <3>1. CASE lineage'.cert = issued   BY <1>5, <3>1
    <3>2. CASE lineage'.cert = lineage.cert
      <4> SUFFICES ASSUME lineage.cert # Unreadable PROVE lineage.cert <= issued'   BY <3>2
      <4>1. lineage.cert \in Nat   BY <1>7
      <4>2. lineage.cert <= issued   BY DEF ManagerInv, Lineage
      <4> QED BY <1>5, <2>0, <4>1, <4>2
    <3> QED BY <1>6, <3>1, <3>2
  <2>2. current # None => lineage'.cert \in Certs /\ current.cert <= lineage'.cert
    <3> SUFFICES ASSUME current # None
                 PROVE  lineage'.cert \in Certs /\ current.cert <= lineage'.cert
      OBVIOUS
    <3>1. current.cert \in Nat   BY DEF ManagerInv, Types, Matches
    <3>2. lineage.cert \in Certs /\ current.cert <= lineage.cert
      BY DEF ManagerInv, Lineage, Forward
    <3>3. lineage.cert <= issued   BY <3>2 DEF ManagerInv, Lineage
    <3>4. CASE lineage'.cert = lineage.cert   BY <3>2, <3>4
    <3>5. CASE issued # 0 /\ lineage'.cert = issued
      <4>1. lineage.cert \in Nat   BY <3>2
      <4> QED BY <1>5, <2>0, <3>1, <3>2, <3>3, <3>5, <4>1
    <3> QED BY <1>6, <3>4, <3>5
  <2> QED BY <1>1, <1>2, <2>1, <2>2 DEF Lineage, Forward
<1>9. Types'   BY <1>2, <1>3, <1>5, <1>6 DEF ManagerInv, Types, Matches
<1> QED BY <1>4, <1>8, <1>9 DEF ManagerInv

(* publish_certificate: what was in place becomes what a failed check returns to. *)
LEMMA PublishStep ==
  ASSUME ManagerInv, publish_certificate
  PROVE  ManagerInv'
<1>0. manager \in Managers /\ manager.pc = "publish" /\ manager.previous = None /\ ~InCheck
  BY DEF ManagerInv, Types, Published, publish_certificate, Publish, At, InCheck, Checking
<1>1. UNCHANGED <<issued, lineage, config, loaded, verified, abandoned, faults, proxyVars>>
  BY DEF publish_certificate, Publish, Calm, history
<1>2. ServedInv'   BY <1>1, ProxyServed DEF ManagerInv, Types
<1>3. CASE To("retry") /\ UNCHANGED current
  <2>1. manager' \in Managers /\ manager'.pc = "retry" /\ manager'.previous = manager.previous
    BY <1>0, <1>3, ToStep DEF Labels
  <2>2. ~InCheck'   BY <2>1 DEF InCheck, Checking
  <2>3. /\ config \in 0..MaxConfig /\ loaded \in 0..config /\ abandoned \subseteq Pairs
        /\ faults \in 0..MaxFaults
    BY DEF ManagerInv, Types
  <2>4. manager'.pc \notin Checking /\ manager'.pc \notin {"connect", "compare"}
    BY <2>1 DEF Checking
  <2> QED BY <1>0, <1>1, <1>2, <1>3, <2>1, <2>2, <2>3, <2>4, QuietStep
<1>4. CASE lineage = current /\ To("check") /\ UNCHANGED current
  <2>1. manager' \in Managers /\ manager'.pc = "check" /\ manager'.previous = None
    BY <1>0, <1>4, ToStep DEF Labels, Checking
  <2>2. current # None   BY <1>4 DEF ManagerInv, Types, Proxy!ReadPairs
  <2>3. Types'   BY <1>1, <1>2, <1>4, <2>1 DEF ManagerInv, Types, Matches
  <2>4. Lineage'   BY <1>0, <1>1, <1>4, <2>1 DEF ManagerInv, Lineage, Forward
  <2>5. Published'
    BY <1>0, <1>1, <1>4, <2>1, <2>2 DEF ManagerInv, Published, Fallback, InCheck, Checking, Matches
  <2> QED BY <2>3, <2>4, <2>5 DEF ManagerInv
<1>5. CASE /\ Matches(lineage) /\ current' = lineage
           /\ manager' = [manager EXCEPT !.pc = "check", !.previous = current]
  <2>1. /\ manager' \in Managers /\ manager'.pc = "check" /\ manager'.previous = current
    <3>1. current \in Pairs \cup {None}   BY DEF ManagerInv, Types, Matches
    <3> QED BY <1>0, <1>5, <3>1 DEF Managers, Labels, Checking
  <2>2. lineage # None /\ lineage.cert \in Certs   BY <1>5 DEF Matches
  <2>3. Types'   BY <1>1, <1>2, <1>5, <2>1 DEF ManagerInv, Types, Matches
  <2>4. Lineage'   BY <1>1, <1>5, <2>1, <2>2 DEF ManagerInv, Lineage, Forward
  <2>5. InCheck' /\ Fallback' = IF current # None THEN current ELSE lineage
    BY <1>5, <2>1 DEF Fallback, InCheck, Checking
  <2>6. Published'
    <3>1. \A pair \in verified : pair.cert <= lineage.cert
      <4> SUFFICES ASSUME NEW pair \in verified PROVE pair.cert <= lineage.cert   OBVIOUS
      <4>1. current # None /\ pair.cert <= current.cert   BY DEF ManagerInv, Published
      <4>2. current.cert <= lineage.cert   BY <4>1 DEF ManagerInv, Lineage, Forward
      <4>3. pair.cert \in Nat /\ current.cert \in Nat /\ lineage.cert \in Nat
        BY <2>2, <4>1 DEF ManagerInv, Types, Matches
      <4> QED BY <4>1, <4>2, <4>3
    <3>2. \A pair \in verified : pair.cert <= Fallback'.cert
      BY <2>5 DEF ManagerInv, Published
    <3>3. verified # {} => Fallback' \in verified \cup abandoned
      <4>1. verified # {} => current \in verified \cup abandoned
        BY <1>0 DEF ManagerInv, Published, Fallback
      <4>2. verified # {} => current # None   BY DEF ManagerInv, Published
      <4> QED BY <2>5, <4>1, <4>2
    <3>4. current # None => Matches(current)   BY DEF ManagerInv, Types
    <3> QED BY <1>1, <1>5, <2>1, <2>2, <3>1, <3>2, <3>3, <3>4 DEF Published, Matches, Checking
  <2> QED BY <2>3, <2>4, <2>6 DEF ManagerInv
<1> QED BY <1>3, <1>4, <1>5 DEF publish_certificate, Publish

(* run_healthcheck without the verdict. *)
LEMMA HealthcheckSteps ==
  ASSUME ManagerInv, ReadExpected \/ Connect \/ Again \/ GiveUp
  PROVE  ManagerInv'
<1>0. manager \in Managers   BY DEF ManagerInv, Types
<1>1. /\ config \in 0..MaxConfig /\ loaded \in 0..config /\ abandoned \subseteq Pairs
      /\ faults \in 0..MaxFaults
  BY DEF ManagerInv, Types
<1>2. CASE ReadExpected
  <2>1. UNCHANGED <<issued, lineage, current, config, loaded, verified, abandoned, faults, proxyVars>>
    BY <1>2 DEF ReadExpected, Local, Calm, history
  <2>2. ServedInv'   BY <2>1, ProxyServed DEF ManagerInv, Types
  <2>3. manager.pc = "check" /\ current # None
    BY <1>2 DEF ReadExpected, At, ManagerInv, Published, InCheck, Checking
  <2>4. CurrentCert = current.cert /\ CurrentCert \in Proxy!FileCerts
    BY <2>3, FilesBehindLink DEF CurrentCert, ManagerInv
  <2>5. /\ manager' \in Managers /\ manager'.pc = "connect"
        /\ manager'.previous = manager.previous /\ manager'.expected = current.cert
    BY <1>0, <1>1, <1>2, <2>4 DEF ReadExpected, Managers, Labels, Checking
  <2>6. InCheck /\ InCheck'   BY <2>3, <2>5 DEF InCheck, Checking
  <2>7. manager.pc \in Checking   BY <2>3 DEF Checking
  <2> QED BY <1>1, <2>1, <2>2, <2>5, <2>6, <2>7, QuietStep
<1>3. CASE Connect
  <2>1. UNCHANGED <<issued, lineage, current, config, loaded, verified, abandoned, faults>>
    BY <1>3 DEF Connect, Calm, history
  <2>2. ServedInv'   BY <1>3, ProxyServed DEF Connect, ManagerInv, Types
  <2>3. manager.pc = "connect" /\ manager.expected = current.cert
    BY <1>3 DEF Connect, At, ManagerInv, Published
  <2>4. PICK pc \in {"compare", "failed"} : To(pc)   BY <1>3 DEF Connect
  <2>5. /\ manager' \in Managers /\ manager'.pc = pc
        /\ manager'.previous = manager.previous /\ manager'.expected = current.cert
    BY <1>0, <2>3, <2>4, ToStep DEF Labels, Checking
  <2>6. InCheck /\ InCheck'   BY <2>3, <2>5 DEF InCheck, Checking
  <2>7. manager.pc \in Checking   BY <2>3 DEF Checking
  <2> QED BY <1>1, <2>1, <2>2, <2>5, <2>6, <2>7, QuietStep
<1>4. CASE Again
  BY <1>4, LocalStep DEF Again, At, InCheck, Checking, Labels
<1>5. CASE GiveUp
  BY <1>5, LocalStep DEF GiveUp, At, InCheck, Checking, Labels
<1> QED BY <1>2, <1>3, <1>4, <1>5

(* What the health check passes with is what is published, so also what a later *)
(* cycle can fall back to.                                                       *)
LEMMA RequestStep ==
  ASSUME ManagerInv, request
  PROVE  ManagerInv'
<1>1. CASE Calm /\ To("failed")
  BY <1>1, LocalStep DEF request, Compare, At, InCheck, Checking, Labels
<1>2. CASE /\ verified' = verified \cup {current}
           /\ To(IF manager.failure THEN "retry" ELSE "verified")
  <2>1. UNCHANGED <<issued, lineage, current, config, loaded, abandoned, faults, proxyVars>>
    BY DEF request, Compare, Local
  <2>2. ServedInv'   BY <2>1, ProxyServed DEF ManagerInv, Types
  <2>3. manager.pc = "compare" /\ manager \in Managers
    BY DEF request, Compare, At, ManagerInv, Types
  <2>4. /\ manager' \in Managers /\ manager'.pc \in {"retry", "verified"}
        /\ manager'.previous = manager.previous
    BY <1>2, <2>3, ToStep DEF Labels
  <2>5. current # None /\ Matches(current)
    BY <2>3 DEF ManagerInv, Types, Published, InCheck, Checking
  <2>6. Types'   BY <1>2, <2>1, <2>2, <2>4, <2>5 DEF ManagerInv, Types, Matches
  <2>7. Lineage'   BY <2>1, <2>4 DEF ManagerInv, Lineage, Forward
  <2>8. ~InCheck' /\ Fallback' = current   BY <2>1, <2>4 DEF Fallback, InCheck, Checking
  <2>9. \A pair \in verified' : pair.cert <= current.cert
    <3>1. current.cert \in Nat   BY <2>5 DEF Matches
    <3>2. \A pair \in verified : pair.cert <= current.cert   BY DEF ManagerInv, Published
    <3> QED BY <1>2, <3>1, <3>2
  <2>10. Published'
    BY <1>2, <2>1, <2>4, <2>5, <2>8, <2>9 DEF ManagerInv, Published, Checking, Matches
  <2> QED BY <2>6, <2>7, <2>10 DEF ManagerInv
<1> QED BY <1>1, <1>2 DEF request, Compare, Calm, history

LEMMA RollbackStep ==
  ASSUME ManagerInv, rollback
  PROVE  ManagerInv'
<1>1. UNCHANGED <<issued, lineage, config, loaded, verified, abandoned, faults, proxyVars>>
  BY DEF rollback, SwitchTo, Calm, history
<1>2. ServedInv'   BY <1>1, ProxyServed DEF ManagerInv, Types
<1>3. manager.pc = "rollback" /\ manager \in Managers /\ InCheck
  BY DEF rollback, SwitchTo, At, ManagerInv, Types, InCheck
<1>4. /\ manager' \in Managers /\ manager'.pc \in {"retry", "down"}
      /\ manager'.previous = manager.previous
  <2>1. manager.after \in {"retry", "down"}   BY <1>3 DEF Managers
  <2> QED BY <1>3, <2>1, ToStep DEF rollback, SwitchTo, Labels
<1>5. current' = Fallback   BY <1>3 DEF rollback, SwitchTo, Fallback
<1>6. current # None   BY <1>3 DEF ManagerInv, Published
<1>7. Fallback # None /\ Matches(Fallback)
  BY <1>6 DEF Fallback, ManagerInv, Types, Published
<1>8. Types'   BY <1>1, <1>2, <1>4, <1>5, <1>7 DEF ManagerInv, Types, Matches
<1>9. Lineage'   BY <1>1, <1>4, <1>5 DEF ManagerInv, Lineage, Forward, Fallback
<1>10. ~InCheck' /\ Fallback' = Fallback   BY <1>4, <1>5 DEF Fallback, InCheck, Checking
<1>11. Published'
  BY <1>1, <1>4, <1>5, <1>7, <1>10 DEF ManagerInv, Published, Checking, Matches
<1> QED BY <1>8, <1>9, <1>11 DEF ManagerInv

(* An OSError out of switch_to_version may come after the switch: a new pair stays, of *)
(* which the cycle will say nothing, or the version of the cycle before is back.        *)
LEMMA SwitchedStep ==
  ASSUME ManagerInv, OSError, Switched
  PROVE  ManagerInv'
<1>0. manager \in Managers   BY DEF ManagerInv, Types
<1>1. /\ config \in 0..MaxConfig /\ loaded \in 0..config /\ faults' \in 0..MaxFaults
      /\ UNCHANGED <<issued, lineage, config, loaded, verified, proxyVars>>
  BY DEF OSError, Fault, ManagerInv, Types
<1>2. ServedInv'   BY <1>1, ProxyServed DEF ManagerInv, Types
<1>3. /\ manager' \in Managers /\ manager'.pc \in {"retry", "down"}
      /\ manager'.previous = manager.previous
  <2>1. manager.after \in {"retry", "down"}   BY <1>0 DEF Managers
  <2> QED BY <1>0, <2>1, ToStep DEF OSError, Labels
<1>4. ~InCheck' /\ manager'.pc \notin Checking   BY <1>3 DEF InCheck, Checking
<1>5. /\ Matches(current') /\ current' # None /\ current'.cert \in Nat
      /\ current'.cert <= lineage.cert /\ lineage.cert \in Certs
      /\ \A pair \in verified : pair.cert <= current'.cert
  <2>1. CASE At("publish") /\ Matches(lineage) /\ current' = lineage
    <3>1. lineage.cert \in Certs /\ current' # None   BY <2>1 DEF Matches
    <3>2. \A pair \in verified : pair.cert <= lineage.cert
      <4> SUFFICES ASSUME NEW pair \in verified PROVE pair.cert <= lineage.cert   OBVIOUS
      <4>1. current # None /\ pair.cert <= current.cert   BY DEF ManagerInv, Published
      <4>2. current.cert <= lineage.cert   BY <4>1 DEF ManagerInv, Lineage, Forward
      <4>3. pair.cert \in Nat /\ current.cert \in Nat /\ lineage.cert \in Nat
        BY <3>1, <4>1 DEF ManagerInv, Types, Matches
      <4> QED BY <4>1, <4>2, <4>3
    <3>3. lineage.cert \in Nat   BY <2>1 DEF Matches
    <3>4. Matches(current')   BY <2>1
    <3>5. current'.cert <= lineage.cert   BY <2>1, <3>3
    <3> QED BY <2>1, <3>1, <3>2, <3>3, <3>4, <3>5
  <2>2. CASE At("rollback") /\ manager.previous # None /\ current' = manager.previous
    <3>1. current' = Fallback   BY <2>2 DEF Fallback, InCheck, At
    <3>2. Matches(manager.previous) /\ manager.previous.cert \in Nat
      BY <2>2 DEF ManagerInv, Published, Matches
    <3>3. lineage.cert \in Certs /\ manager.previous.cert <= lineage.cert
      BY <2>2 DEF ManagerInv, Lineage, Forward
    <3>4. \A pair \in verified : pair.cert <= Fallback.cert   BY DEF ManagerInv, Published
    <3> QED BY <2>2, <3>1, <3>2, <3>3, <3>4
  <2> QED BY <2>1, <2>2 DEF Switched
<1>6. /\ abandoned' \subseteq Pairs
      /\ current' = current \/ current' \in abandoned' \/ current' = Fallback
      /\ abandoned \subseteq abandoned'
  BY <1>5 DEF OSError, CutOff, ManagerInv, Types, Matches
<1>7. Fallback' = current'   BY <1>4 DEF Fallback
<1>8. verified # {} => current' \in verified \cup abandoned'
  <2>1. CASE current' # current   BY <2>1 DEF OSError, CutOff
  <2>2. CASE current' = current /\ InCheck
    <3>1. current' \in abandoned'   BY <2>2 DEF OSError, CutOff, InCheck
    <3> QED BY <3>1
  <2>3. CASE current' = current /\ ~InCheck
    BY <1>6, <2>3 DEF ManagerInv, Published, Fallback
  <2> QED BY <2>1, <2>2, <2>3
<1>9. Types'   BY <1>1, <1>2, <1>3, <1>5, <1>6 DEF ManagerInv, Types, Matches
<1>10. Lineage'   BY <1>1, <1>3, <1>5 DEF ManagerInv, Lineage, Forward
<1>11. Published'
  <2>1. manager.previous # None => Matches(manager.previous)   BY DEF ManagerInv, Published
  <2> QED BY <1>1, <1>3, <1>4, <1>5, <1>7, <1>8, <2>1 DEF Published, Matches
<1> QED BY <1>9, <1>10, <1>11 DEF ManagerInv

LEMMA DisturbSteps ==
  ASSUME ManagerInv, AcmeUnavailable \/ Timeout \/ Stop \/ Kill \/ (OSError /\ UNCHANGED current)
  PROVE  ManagerInv'
<1>0. manager \in Managers   BY DEF ManagerInv, Types
<1>1. /\ config \in 0..MaxConfig /\ loaded \in 0..config /\ faults' \in 0..MaxFaults
      /\ UNCHANGED <<issued, lineage, current, config, loaded, verified, proxyVars>>
  BY DEF AcmeUnavailable, Timeout, Stop, Kill, OSError, Local, Fault, ManagerInv, Types
<1>2. ServedInv'   BY <1>1, ProxyServed DEF ManagerInv, Types
<1>3. abandoned' \subseteq Pairs /\ abandoned \subseteq abandoned'
  <2>1. InCheck => current \in Pairs   BY DEF ManagerInv, Types, Published, Matches
  <2> QED BY <1>1, <2>1
        DEF AcmeUnavailable, Timeout, Stop, Kill, OSError, CutOff, ManagerInv, Types, InCheck
<1>4. CASE AcmeUnavailable \/ Timeout
  <2>1. PICK pc \in {"retry", "failed"} : To(pc) /\ (pc = "retry" => manager.pc = "start")
          /\ (pc = "failed" => manager.pc \in {"connect", "compare"})
    BY <1>4 DEF AcmeUnavailable, Timeout, At
  <2>2. manager' \in Managers /\ manager'.pc = pc /\ manager'.previous = manager.previous
    BY <1>0, <2>1, ToStep DEF Labels, Checking
  <2>3. InCheck <=> InCheck'   BY <2>1, <2>2 DEF InCheck, Checking
  <2>4. manager'.pc \in Checking => manager.pc \in Checking   BY <2>1, <2>2 DEF Checking
  <2>5. manager'.pc \notin {"connect", "compare", "start", "certbot", "publish"}   BY <2>1, <2>2
  <2> QED BY <1>1, <1>2, <1>3, <2>2, <2>3, <2>4, <2>5, QuietStep
<1>5. CASE Stop /\ manager.pc \in Checking
  <2>1. /\ manager' \in Managers /\ manager'.pc = "rollback"
        /\ manager'.previous = manager.previous
    BY <1>0, <1>5 DEF Stop, Managers, Labels
  <2>2. InCheck /\ InCheck' /\ manager'.pc \notin Checking
    BY <1>5, <2>1 DEF InCheck, Checking
  <2>3. manager'.pc \notin {"connect", "compare", "start", "certbot", "publish"}   BY <2>1
  <2> QED BY <1>1, <1>2, <1>3, <2>1, <2>2, <2>3, QuietStep
<1>6. CASE manager' = Down /\ (InCheck => current \in abandoned')
  <2>1. manager' \in Managers /\ manager'.pc = "down" /\ manager'.previous = None
    BY <1>6, DownType
  <2>2. ~InCheck' /\ manager'.pc \notin Checking   BY <2>1 DEF InCheck, Checking
  <2> QED BY <1>1, <1>2, <1>3, <1>6, <2>1, <2>2, QuietStep
<1>7. CASE OSError /\ UNCHANGED current
  <2>1. manager.after \in {"retry", "down"}   BY <1>0 DEF Managers
  <2>2. /\ manager' \in Managers /\ manager'.pc \in {"retry", "down"}
        /\ manager'.previous = manager.previous
    BY <1>0, <1>7, <2>1, ToStep DEF OSError, Labels
  <2>3. ~InCheck' /\ manager'.pc \notin Checking   BY <2>2 DEF InCheck, Checking
  <2>4. InCheck => current \in abandoned'   BY <1>7 DEF OSError, CutOff, InCheck
  <2>5. manager'.pc \notin {"connect", "compare", "start", "certbot", "publish"}   BY <2>2
  <2> QED BY <1>1, <1>2, <1>3, <2>2, <2>3, <2>4, <2>5, QuietStep
<1>8. Stop => (manager.pc \in Checking \/ (manager' = Down /\ ~InCheck))
  BY DEF Stop, At, InCheck
<1>9. Kill => manager' = Down /\ (InCheck => current \in abandoned')
  BY <1>1 DEF Kill, CutOff, InCheck
<1> QED BY <1>4, <1>5, <1>6, <1>7, <1>8, <1>9

(* The proxy container and the operator. *)
LEMMA OthersSteps ==
  ASSUME ManagerInv, proxyExit \/ run_proxy \/ serve \/ rotate_credentials
  PROVE  ManagerInv'
<1>1. /\ UNCHANGED <<issued, lineage, current, manager, verified, abandoned>>
      /\ faults' \in 0..MaxFaults
  BY DEF proxyExit, run_proxy, serve, rotate_credentials, Calm, Fault, history, ManagerInv, Types
<1>2. config' \in 0..MaxConfig /\ loaded' \in 0..config'
  BY DEF proxyExit, run_proxy, serve, rotate_credentials, ManagerInv, Types
<1>3. ServedInv'
  <2>1. ServedInv /\ CurrentCert \in Proxy!FileCerts /\ CurrentKey \in Proxy!FileKeys
    BY FilesBehindLink DEF ManagerInv, Types
  <2>2. (\E t \in Proxy!Goroutines : Proxy!reload(t)) => ServedInv'   BY <2>1, ReloadServed
  <2> QED BY <2>1, <2>2, ProxyServed DEF proxyExit, run_proxy, serve, rotate_credentials
<1>4. InCheck' = InCheck   BY <1>1 DEF InCheck
<1>5. manager \in Managers /\ abandoned \subseteq Pairs   BY DEF ManagerInv, Types
<1>6. /\ manager.pc \in {"start", "certbot", "publish"} => manager.previous = None
      /\ manager.pc \in {"connect", "compare"} => manager.expected = current.cert
  BY DEF ManagerInv, Published
<1> QED BY <1>1, <1>2, <1>3, <1>4, <1>5, <1>6, QuietStep

LEMMA ManagerStep ==
  ASSUME ManagerInv, [Next]_vars
  PROVE  ManagerInv'
<1>1. CASE UNCHANGED vars
  <2>1. UNCHANGED <<issued, lineage, current, config, loaded, manager, verified, abandoned, faults,
                    proxyVars>>
    BY <1>1 DEF vars, history
  <2>2. ServedInv'   BY <2>1, ProxyServed DEF ManagerInv, Types
  <2>3. Types'   BY <2>1, <2>2 DEF ManagerInv, Types, Matches
  <2>4. Lineage' /\ Published'
    BY <2>1 DEF ManagerInv, Lineage, Forward, Published, Fallback, InCheck, Matches
  <2> QED BY <2>3, <2>4 DEF ManagerInv
<1> QED BY <1>1, CycleSteps, CertbotSteps, PublishStep, HealthcheckSteps, RequestStep,
           RollbackStep, DisturbSteps, SwitchedStep, OthersSteps
        DEF Next, run_cycle, run_healthcheck, Disturb, OSError

LEMMA ManagerInvariant == Spec => []ManagerInv
BY ManagerInit, ManagerStep, PTL DEF Spec

-----------------------------------------------------------------------------
(* In every execution the variables have their types, and what tls/current points to  *)
(* is a matching pair, whatever Certbot leaves in the lineage and wherever the manager *)
(* is stopped.                                                                        *)
THEOREM ManagerType == Spec => []TypeOK
<1>1. ManagerInv => TypeOK
  BY FilesBehindLink, ProxyTypeOK DEF ManagerInv, Types, Published, TypeOK, Managers, ServedInv
<1> QED BY <1>1, ManagerInvariant, PTL

(* No execution takes the deployment back behind a verified pair. *)
THEOREM ManagerNeverBehindVerified == Spec => []NeverBehindVerified
<1>1. ManagerInv => NeverBehindVerified   BY DEF ManagerInv, Published, NeverBehindVerified
<1> QED BY <1>1, ManagerInvariant, PTL

(* Between two cycles the published pair is a verified one if any is, unless a kill or *)
(* an OSError cut a cycle off after it had put the pair in place.                       *)
THEOREM ManagerVerifiedUnlessCutOff == Spec => []VerifiedUnlessCutOff
<1>1. ManagerInv => VerifiedUnlessCutOff
  BY DEF ManagerInv, Published, VerifiedUnlessCutOff, Fallback, InCheck, Checking, At
<1> QED BY <1>1, ManagerInvariant, PTL

(* "Verified" is only said of the pair of the lineage that the proxy served to the      *)
(* check: equal certificates are equal pairs, for only matching pairs are published     *)
(* and served.                                                                          *)
THEOREM ManagerVerifiedMeansServed == Spec => VerifiedMeansServed
<1>1. ASSUME ManagerInv, Next, manager'.pc = "verified", manager.pc # "verified"
      PROVE  current = lineage /\ result[HealthCheck] = current
  <2>0. manager \in Managers /\ manager.after \in {"retry", "down"}
    BY <1>1 DEF ManagerInv, Types, Managers
  <2>1. ASSUME NEW pc, pc # "verified" PROVE ~To(pc)
    BY <1>1, <2>0, <2>1 DEF To, Managers
  <2>2. ~run_cycle \/ request
    <3>1. ~Begin   BY <1>1 DEF Begin, StartCycle, Down
    <3>2. ~CertbotFailure   BY <1>1, <2>0 DEF CertbotFailure, Managers
    <3>3. ~publish_certificate   BY <1>1, <2>0, <2>1 DEF publish_certificate, Publish, Managers
    <3>4. ~ReadExpected   BY <1>1, <2>0 DEF ReadExpected, Managers
    <3>5. ~rollback   BY <2>0, <2>1 DEF rollback, SwitchTo
    <3>6. ~ensure_config /\ ~CertbotExit /\ ~Connect /\ ~Again /\ ~GiveUp
      BY <2>1 DEF ensure_config, CertbotExit, Connect, Again, GiveUp
    <3> QED BY <3>1, <3>2, <3>3, <3>4, <3>5, <3>6 DEF run_cycle, run_healthcheck
  <2>3. ~Certbot /\ ~run_proxy /\ ~serve /\ ~rotate_credentials /\ ~proxyExit
    BY <1>1 DEF Certbot, Issue, WriteLineage, run_proxy, serve, rotate_credentials, proxyExit
  <2>4. ~Disturb
    <3>1. ~AcmeUnavailable /\ ~Timeout /\ ~OSError
      BY <2>0, <2>1 DEF AcmeUnavailable, Timeout, OSError
    <3>2. manager' # Down   BY <1>1 DEF Down
    <3>3. ~Stop /\ ~Kill   BY <1>1, <2>0, <3>2 DEF Stop, Kill, Managers
    <3> QED BY <2>3, <3>1, <3>3 DEF Disturb
  <2>5. request   BY <1>1, <2>2, <2>3, <2>4 DEF Next
  <2>6. Answered /\ manager.pc = "compare"
    <3>1. ~To("failed")   BY <2>1
    <3> QED BY <2>5, <3>1 DEF request, Compare, At
  <2>7. current = lineage /\ Matches(current) /\ manager.expected = current.cert
    BY <1>1, <2>6 DEF ManagerInv, Types, Published, InCheck, Checking
  <2>8. Matches(result[HealthCheck]) /\ result[HealthCheck].cert = current.cert
    BY <1>1, <2>6, <2>7 DEF ManagerInv, Types, ServedInv, Answered
  <2> QED BY <2>7, <2>8, Matching
<1> QED BY <1>1, ManagerInvariant, PTL DEF Spec, VerifiedMeansServed

=============================================================================
