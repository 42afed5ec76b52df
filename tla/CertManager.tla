----------------------------- MODULE CertManager -----------------------------
(***************************************************************************)
(* deploy/manager.py and its neighbours in the container deployment: the   *)
(* manager renews the lineage with Certbot, publishes it behind one        *)
(* symlink, checks the live proxy and rolls back when the check fails; the *)
(* proxy (deploy/run_server.py, server/main.go) reads its configuration    *)
(* once and the certificate, through the symlink, in every handshake.      *)
(* A published version never changes, so it is represented by its pair.    *)
(***************************************************************************)
EXTENDS Integers

CONSTANTS
  Certs, PrivateKeys, KeyOf, Handshakes, None, Main, Unreadable,
  HealthCheck,   \* the handshake that healthcheck.py makes
  MaxConfig,     \* bound on rotations and changes of the settings
  MaxFaults      \* bound on faults of each of the kinds below

ASSUME ManagerAssumption ==
  /\ HealthCheck \in Handshakes /\ Main \notin Handshakes
  /\ Certs \subseteq Nat \ {0}
  /\ KeyOf \in [Certs -> PrivateKeys]
  /\ Unreadable \notin Nat \cup PrivateKeys
  /\ None \notin Handshakes \cup {Main}
  /\ None \notin [cert : Certs \cup {Unreadable}, key : PrivateKeys \cup {Unreadable}]
  /\ MaxConfig \in Nat \ {0} /\ MaxFaults \in Nat

VARIABLES
  issued,    \* the last certificate issued, 0 for none
  lineage,   \* live/: the certificate and the key, written one by one
  current,   \* the version tls/current points to, or None
  config,    \* what the proxy reads once: credentials and config.json; 0 for none
  loaded,    \* what it has read
  manager,   \* the manager's cycle
  process, mu, thread, files, certificate, result,   \* see CertReloader
  verified,  \* history: the pairs a health check has passed with
  abandoned, \* history: the pairs in place when a cycle was cut off after publishing
  faults     \* how often it was disturbed

CurrentCert == IF current = None THEN Unreadable ELSE current.cert
CurrentKey == IF current = None THEN Unreadable ELSE current.key
Proxy == INSTANCE CertReloader WITH certFile <- CurrentCert, keyFile <- CurrentKey

proxyVars == <<process, mu, thread, files, certificate, result>>
history == <<verified, abandoned, faults>>
vars == <<issued, lineage, current, config, loaded, manager, proxyVars, history>>

Pairs == Proxy!Pairs
Matches(pair) == pair \in Pairs /\ KeyOf[pair.cert] = pair.key
Down == [pc |-> "down", failure |-> FALSE, previous |-> None, after |-> "retry",
         expected |-> Unreadable, credentials |-> 0]
Checking == {"check", "connect", "compare", "failed"}
Labels == {"down", "start", "certbot", "publish", "rollback", "retry", "verified"}
            \cup Checking

At(pc) == manager.pc = pc
To(pc) == manager' = [manager EXCEPT !.pc = pc]
Fault == faults < MaxFaults /\ faults' = faults + 1 /\ UNCHANGED verified
Calm == UNCHANGED history
Local == UNCHANGED <<issued, lineage, current, config, loaded, proxyVars>>

(***************************************************************************)
(* run_cycle.                                                              *)
(***************************************************************************)
\* the container starts, or the interval after the last cycle is over
StartCycle(previous) ==
  /\ At("down") \/ At("retry") \/ At("verified")
  /\ manager' = [Down EXCEPT !.pc = "start", !.previous = previous]
  /\ Local /\ Calm
BeginStale == StartCycle(manager.previous)  \* mutant: previous outlives its cycle
Begin == StartCycle(None)
\* ensure_config and ensure_credentials create what is missing; wait_for_acme
ensure_config ==
  /\ At("start")
  /\ config' = IF config = 0 THEN 1 ELSE config
  /\ To("certbot")
  /\ UNCHANGED <<issued, lineage, current, loaded, proxyVars>> /\ Calm

\* Certbot gets a certificate and replaces the files of the lineage
Issue ==
  /\ At("certbot") /\ issued + 1 \in Certs
  /\ issued' = issued + 1
  /\ UNCHANGED <<lineage, current, config, loaded, manager, proxyVars>> /\ Calm
WriteLineage ==
  /\ At("certbot") /\ issued # 0
  /\ lineage' \in {[lineage EXCEPT !.cert = issued], [lineage EXCEPT !.key = KeyOf[issued]]}
  /\ UNCHANGED <<issued, current, config, loaded, manager, proxyVars>> /\ Calm
\* run_external(certbot) returns, or raises and leaves what was written so far
CertbotExit ==
  /\ At("certbot") /\ issued # 0 /\ lineage = Proxy!PairOf(issued)
  /\ To("publish")
  /\ Local /\ Calm
CertbotAlwaysRaises == \* mutant: a lineage written by a failed run is left idle
  /\ At("certbot")
  /\ To("retry")
  /\ Local /\ Calm
CertbotFailure ==
  /\ At("certbot")
  /\ manager' = IF Unreadable \in {lineage.cert, lineage.key}
                THEN [manager EXCEPT !.pc = "retry"]
                ELSE [manager EXCEPT !.pc = "publish", !.failure = TRUE]
  /\ Local /\ Calm

Publish(valid) ==
  /\ At("publish")
  /\ IF lineage = current
     THEN To("check") /\ UNCHANGED current
     ELSE IF valid
     THEN /\ current' = lineage
          /\ manager' = [manager EXCEPT !.pc = "check", !.previous = current]
     ELSE To("retry") /\ UNCHANGED current
  /\ UNCHANGED <<issued, lineage, config, loaded, proxyVars>> /\ Calm
publishUnvalidated == Publish(TRUE)  \* mutant: the staged pair is not validated
publish_certificate == Publish(Matches(lineage))

(***************************************************************************)
(* run_healthcheck runs healthcheck.py until it succeeds or time is up.    *)
(***************************************************************************)
\* the script reads the credentials and the published certificate
ReadExpected ==
  /\ At("check")
  /\ manager' = [manager EXCEPT !.pc = "connect", !.expected = CurrentCert,
                                !.credentials = config]
  /\ Local /\ Calm
Connect ==
  /\ At("connect")
  /\ \/ Proxy!Lock(HealthCheck) /\ To("compare")
     \/ process # "up" /\ To("failed") /\ UNCHANGED proxyVars
  /\ UNCHANGED <<issued, lineage, current, config, loaded>> /\ Calm
Compare(passes) ==
  /\ At("compare") /\ thread[HealthCheck].pc = "idle"
  /\ IF passes
     THEN /\ To(IF manager.failure THEN "retry" ELSE "verified")
          /\ verified' = verified \cup {current}
     ELSE To("failed") /\ UNCHANGED verified
  /\ UNCHANGED <<abandoned, faults>> /\ Local
Answered == result[HealthCheck] # None /\ result[HealthCheck].cert = manager.expected
ignoreStatus == Compare(TRUE)  \* mutant: the script's exit status is ignored
request == Compare(Answered /\ loaded = manager.credentials)
Again == At("failed") /\ To("check") /\ Local /\ Calm
GiveUp == At("failed") /\ To("rollback") /\ Local /\ Calm
run_healthcheck == ReadExpected \/ Connect \/ request \/ Again \/ GiveUp

SwitchTo(pair) ==
  /\ At("rollback")
  /\ current' = IF manager.previous = None THEN current ELSE pair
  /\ To(manager.after)
  /\ UNCHANGED <<issued, lineage, config, loaded, proxyVars>> /\ Calm
keepPublished == SwitchTo(current)  \* mutant: no rollback
rollback == SwitchTo(manager.previous)

run_cycle == \/ Begin \/ ensure_config \/ CertbotExit \/ CertbotFailure
             \/ publish_certificate \/ run_healthcheck \/ rollback

(***************************************************************************)
(* What disturbs the manager: settings it refuses or an ACME listener that *)
(* does not answer, an attempt that times out, SIGTERM, SIGKILL, an OSError. *)
(***************************************************************************)
AcmeUnavailable == At("start") /\ To("retry") /\ Local /\ Fault /\ UNCHANGED abandoned
Timeout ==
  /\ At("connect") \/ At("compare")
  /\ To("failed")
  /\ Local /\ Fault /\ UNCHANGED abandoned
\* run_external and the waits notice the signal; publishing and rolling back do not
Stop ==
  /\ ~At("down") /\ ~At("publish") /\ ~At("rollback")
  /\ manager' = IF manager.pc \in Checking
                THEN [manager EXCEPT !.pc = "rollback", !.after = "down"]
                ELSE Down
  /\ Local /\ Fault /\ UNCHANGED abandoned
\* no verdict follows on the pair that is in place then
CutOff == abandoned' = abandoned \cup
            (IF manager.pc \in Checking \cup {"rollback"} \/ current' # current
             THEN {current'} ELSE {})
Kill == ~At("down") /\ manager' = Down /\ Local /\ Fault /\ CutOff
\* outside the try of line 407, and not caught by it: switch_to_version can raise
\* before the link is replaced or after, in fsync_directory
Switched == \/ At("publish") /\ Matches(lineage) /\ current' = lineage
            \/ At("rollback") /\ manager.previous # None /\ current' = manager.previous
OSError ==
  /\ manager.pc \in {"start", "certbot", "publish", "check", "failed", "rollback"}
  /\ UNCHANGED current \/ Switched
  /\ To(manager.after)
  /\ UNCHANGED <<issued, lineage, config, loaded, proxyVars>> /\ Fault /\ CutOff

(***************************************************************************)
(* The proxy container and the operator.                                   *)
(***************************************************************************)
\* run_proxy waits for its files, main reads the configuration
run_proxy ==
  /\ config # 0 /\ current # None
  /\ Proxy!newCertificateReloader
  /\ loaded' = config
  /\ UNCHANGED <<issued, lineage, current, config, manager>> /\ Calm
proxyExit ==
  /\ Proxy!Exit
  /\ loaded' = 0
  /\ UNCHANGED <<issued, lineage, current, config, manager>> /\ Fault /\ UNCHANGED abandoned
serve ==
  /\ \/ \E t \in Proxy!Goroutines : Proxy!reload(t)
     \/ \E h \in Handshakes \ {HealthCheck} : Proxy!Lock(h)
  /\ UNCHANGED <<issued, lineage, current, config, loaded, manager>> /\ Calm
\* the rotate command, or ensure_config after the operator changed the settings
rotate_credentials ==
  /\ config \in 1..(MaxConfig - 1)
  /\ config' = config + 1
  /\ UNCHANGED <<issued, lineage, current, loaded, manager, proxyVars>> /\ Calm

Init ==
  /\ issued = 0
  /\ lineage = [cert |-> Unreadable, key |-> Unreadable]
  /\ current = None
  /\ config = 0 /\ loaded = 0
  /\ manager = Down
  /\ Proxy!ReloaderInit
  /\ verified = {} /\ abandoned = {} /\ faults = 0
Certbot == Issue \/ WriteLineage
Disturb == AcmeUnavailable \/ Timeout \/ Stop \/ Kill \/ OSError \/ proxyExit
Next == run_cycle \/ Certbot \/ Disturb \/ run_proxy \/ serve \/ rotate_credentials
Spec == Init /\ [][Next]_vars

\* the manager and the proxy keep running; Certbot need not ever succeed
FairSpec == Spec /\ WF_vars(run_cycle) /\ WF_vars(run_proxy)
                 /\ WF_vars(\E t \in Proxy!Goroutines : Proxy!reload(t)
                              /\ UNCHANGED <<issued, lineage, current, config, loaded, manager, history>>)

(***************************************************************************)
(* Properties.                                                             *)
(***************************************************************************)
\* Every variable keeps its type, and what tls/current points to is a complete
\* matching pair at every moment.
TypeOK ==
  /\ issued \in Certs \cup {0}
  /\ lineage \in Proxy!ReadPairs
  /\ current = None \/ Matches(current)
  /\ config \in 0..MaxConfig /\ loaded \in 0..config
  /\ manager \in [pc : Labels, failure : BOOLEAN, previous : Pairs \cup {None},
                  after : {"retry", "down"}, expected : Proxy!FileCerts,
                  credentials : 0..MaxConfig]
  /\ Proxy!TypeOK
  /\ verified \subseteq Pairs /\ abandoned \subseteq Pairs
  /\ faults \in 0..MaxFaults

\* No crash, stop, rollback or retry ever takes the deployment back to a pair
\* older than one a health check has passed with.
NeverBehindVerified == \A pair \in verified : current # None /\ pair.cert <= current.cert

\* Between two cycles, once some pair has been verified, the published pair is a
\* verified one, or one that a cycle had just put in place when a kill or an OSError
\* cut it off before the verdict.  No failed check, stop, time-out or repetition
\* leaves any other pair there.
VerifiedUnlessCutOff ==
  (At("retry") \/ At("verified")) /\ verified # {} => current \in verified \cup abandoned

\* "Certificate and live proxy verified" is only said when the lineage is what
\* is published and what the proxy served to the check.
VerifiedMeansServed ==
  [][manager'.pc = "verified" /\ manager.pc # "verified" =>
       current = lineage /\ result[HealthCheck] = current]_vars

\* A lineage that Certbot has written is published and served, even if Certbot
\* fails in every cycle, when the proxy runs with the current configuration.
LineageIsServed ==
  \A c \in Certs :
    <>[](lineage = Proxy!PairOf(c) /\ process = "up" /\ loaded = config) =>
      <>[](current = Proxy!PairOf(c) /\ certificate = Proxy!PairOf(c))

\* publish_certificate's contract: the caller rolls back to the old version if the
\* health check fails.  So a cycle that has published over an old version goes on to
\* the next one only with the new pair verified or the old one back.
RollsBack ==
  [][manager.pc \in Checking /\ manager'.pc = "retry" /\ manager.previous # None =>
       current' \in verified']_vars

=============================================================================
