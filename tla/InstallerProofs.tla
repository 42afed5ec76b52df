--------------------------- MODULE InstallerProofs ---------------------------
(***************************************************************************)
(* TypeOK, MixtureHasSnapshot and RestoredMeansPrevious for any number of  *)
(* runs, certificates and faults.                                          *)
(***************************************************************************)
EXTENDS Installer, TLAPS

USE InstallerAssumption
    DEF InstallerAssumption, Broken, Software, Tls, Paths, Owners, Saving, Updating,
        RollingBack

(* TypeOK for the provers: tables are functions, and no path holds certificate 0. *)
Tables == {f \in [Paths -> Int] :
             /\ \A p \in Software : f[p] \in Broken..MaxRuns
             /\ \A p \in Tls : f[p] = Broken \/ f[p] \in 1..MaxCert}

Installers == {i \in [pc : {"idle"} \union Updating \union RollingBack, at : 1..6,
                      rollback_failed : BOOLEAN, active : BOOLEAN] : i.pc = "replace" => i.at <= 4}

Types ==
    /\ file \in Tables /\ backup \in Tables
    /\ pending \in [Tls -> Int]
    /\ \A p \in Tls : pending[p] = Broken \/ pending[p] \in 1..MaxCert
    /\ lineage \in 1..MaxCert
    /\ proxy \in [up : BOOLEAN, stopped : BOOLEAN, of : 0..MaxRuns, cert : 1..MaxCert]
    /\ run \in 0..MaxRuns
    /\ installer \in Installers
    /\ snapshots \subseteq [Software -> Broken..MaxRuns]
    /\ deploy \in [Owners -> {"idle", "copyCert", "copyKey", "mvCert", "mvKey",
                              "restart", "failed"}]
    /\ renewal \in {"idle", "certbot", "hooking", "reconcile", "deploying", "checkChanged",
                    "check", "recheck"}
    /\ outcome \in {"none", "complete", "failed", "restored", "incomplete", "killed", "hungUp"}
    /\ floor \in 1..MaxCert
    /\ faults \in 0..MaxFaults
    /\ hungUp \in BOOLEAN

(* A whole snapshot is on the disk as soon as one is needed. *)
Protected ==
    ~hungUp /\ (~Whole(file) \/ installer.pc \notin {"idle"} \union Saving) =>
        \E s \in snapshots : Whole(s)

(* The paths before the n-th one of a list. *)
Before(list, n) == {list[i] : i \in 1..n - 1}

Saved ==
    /\ At("snapshot") =>
          \A p \in Software \intersect Before(UPDATE_PATHS, installer.at) : backup[p] = file[p]
    /\ At("states") => \A p \in Software : backup[p] = file[p]

Written ==
    /\ At("replace") =>
          \A p \in Software \intersect Before(Replaced, installer.at) : file[p] = run
    /\ installer.pc \in Updating \ (Saving \union {"replace"}) =>
          \A p \in Software : file[p] = run

Restored ==
    /\ At("undo") => installer.rollback_failed
    /\ At("restore") /\ ~installer.rollback_failed =>
          \A p \in Software \intersect Before(UPDATE_PATHS, installer.at) : file[p] = backup[p]
    /\ installer.pc \in RollingBack \ {"restore"} /\ ~installer.rollback_failed =>
          \A p \in Software : file[p] = backup[p]

InstallerInv == Types /\ Protected /\ Saved /\ Written /\ Restored

-----------------------------------------------------------------------------
LEMMA SoftwareWritten ==
    ASSUME NEW f \in Tables, NEW p \in Software, NEW v \in Broken..MaxRuns
    PROVE  [f EXCEPT ![p] = v] \in Tables
BY DEF Tables

LEMMA TlsWritten ==
    ASSUME NEW f \in Tables, NEW p \in Tls, NEW v, v = Broken \/ v \in 1..MaxCert
    PROVE  [f EXCEPT ![p] = v] \in Tables
BY DEF Tables

Processes == [up : BOOLEAN, stopped : BOOLEAN, of : 0..MaxRuns, cert : 1..MaxCert]

LEMMA NoProcessType ==
    ASSUME NEW stopped \in BOOLEAN
    PROVE  NoProcess(stopped) \in Processes
BY DEF NoProcess, Processes

LEMMA Process ==
    ASSUME Types, Restarted \/ Handshake
    PROVE  proxy' \in Processes
<1>. proxy \in Processes /\ file \in Tables   BY DEF Types, Processes
<1>1. PairInPlace => file["cert"] \in 1..MaxCert   BY DEF PairInPlace, Tables
<1>2. file["binary"] # Broken => file["binary"] \in 0..MaxRuns   BY DEF Tables
<1>3. CASE Restarted
  <2>1. CASE PairInPlace /\ file["binary"] # Broken /\ file["units"] # Broken
    <3>1. proxy' = [up |-> TRUE, stopped |-> FALSE,
                     of |-> file["binary"], cert |-> file["cert"]]
      BY <1>3, <2>1 DEF Restarted
    <3>. QED BY <1>1, <1>2, <2>1, <3>1 DEF Processes
  <2>2. CASE ~(PairInPlace /\ file["binary"] # Broken /\ file["units"] # Broken)
    <3>1. proxy' = NoProcess(FALSE)   BY <1>3, <2>2 DEF Restarted
    <3>. QED BY <3>1, NoProcessType
  <2>. QED BY <2>1, <2>2
<1>4. CASE Handshake
  <2>1. PICK c \in 1..MaxCert : proxy' = [proxy EXCEPT !.cert = c]
    BY <1>1, <1>4 DEF Handshake, Processes
  <2>. QED BY <2>1 DEF Processes
<1>. QED BY <1>3, <1>4

LEMMA Place ==
    ASSUME installer \in Installers,
           \/ \E pc \in {"idle"} \union Updating \union RollingBack : Goto(pc)
           \/ Next1 /\ installer.at < 6 /\ (At("replace") => installer.at < 4)
           \/ installer' = Idle
    PROVE  installer' \in Installers
<1>1. ASSUME NEW pc \in {"idle"} \union Updating \union RollingBack, Goto(pc)
      PROVE  installer' \in Installers
  <2>1. PICK q \in {"idle"} \union Updating \union RollingBack, n \in 1..6, b \in BOOLEAN,
               a \in BOOLEAN :
          installer = [pc |-> q, at |-> n, rollback_failed |-> b, active |-> a]
    BY DEF Installers
  <2>2. installer' = [pc |-> pc, at |-> 1, rollback_failed |-> b, active |-> a]
    BY <1>1, <2>1 DEF Goto
  <2>. QED BY <2>2 DEF Installers
<1>2. CASE Next1 /\ installer.at < 6 /\ (At("replace") => installer.at < 4)
  BY <1>2 DEF Installers, Next1, At
<1>3. CASE installer' = Idle   BY <1>3 DEF Installers, Idle
<1>. QED BY <1>1, <1>2, <1>3

(* deploy-hook.sh and refresh_rollback_tls. *)
LEMMA DeployTypes ==
    ASSUME Types, NEW o \in Owners, Deploy(o)
    PROVE  Types'
<1>1. ASSUME NEW p \in Tls, Copy(o, p) PROVE Types'
  <2>1. pending' = [pending EXCEPT ![p] = lineage]   BY <1>1 DEF Copy
  <2>2. PICK d \in {"copyKey", "mvCert"} : deploy' = [deploy EXCEPT ![o] = d]
    BY <1>1 DEF Copy
  <2>3. UNCHANGED <<file, proxy, lineage, runVars, renewal, history>>
    BY <1>1 DEF Copy, Deploy
  <2>. QED BY <2>1, <2>2, <2>3 DEF Types, runVars, history
<1>2. ASSUME NEW p \in Tls, Move(o, p) PROVE Types'
  <2>1. PICK d \in {"idle", "failed", "mvKey", "restart"} : deploy' = [deploy EXCEPT ![o] = d]
    BY <1>2 DEF Move
  <2>2. file' \in Tables
    <3>1. CASE file' = file   BY <3>1 DEF Types
    <3>2. CASE file' # file
      <4>1. file' = [file EXCEPT ![p] = pending[p]] /\ pending[p] # Broken   BY <1>2, <3>2 DEF Move
      <4>. QED BY <4>1, TlsWritten DEF Types
    <3>. QED BY <3>1, <3>2
  <2>3. pending' = pending \/ pending' = [pending EXCEPT ![p] = Broken]   BY <1>2 DEF Move
  <2>4. UNCHANGED <<proxy, lineage, runVars, renewal, history>>   BY <1>2 DEF Move, Deploy
  <2>. QED BY <2>1, <2>2, <2>3, <2>4 DEF Types, runVars, history
<1>3. CASE RestartProxy(o)
  <2>1. proxy' = proxy \/ Restarted   BY <1>3 DEF RestartProxy
  <2>2. proxy' \in Processes   BY <2>1, Process DEF Types, Processes
  <2>. QED BY <1>3, <2>2 DEF RestartProxy, Deploy, Types, runVars, history, Processes
<1>. QED BY <1>1, <1>2, <1>3 DEF Deploy

LEMMA RenewalTypes ==
    ASSUME Types, Renewal
    PROVE  Types'
<1>1. CASE CertbotRenews
  <2>1. lineage' \in 1..MaxCert   BY <1>1 DEF CertbotRenews, Types
  <2>. QED BY <1>1, <2>1 DEF CertbotRenews, Renew, StartDeploy, Renewal, Types, runVars, history
<1>2. CASE RenewalChecks
  <2>1. proxy' = proxy \/ Restarted \/ Handshake   BY <1>2 DEF RenewalChecks
  <2>2. proxy' \in Processes   BY <2>1, Process DEF Types, Processes
  <2>. QED BY <1>2, <2>2 DEF RenewalChecks, Renew, Renewal, Types, runVars, history, Processes
<1>3. CASE RenewalStarts \/ CertbotDoesNot \/ HookEnds \/ Reconcile \/ ReconcileEnds
  <2>1. UNCHANGED diskVars
    BY <1>3 DEF RenewalStarts, CertbotDoesNot, HookEnds, Reconcile, ReconcileEnds
  <2>2. deploy' = deploy \/ StartDeploy("renewal") \/ EndDeploy("renewal")
    BY <1>3 DEF RenewalStarts, CertbotDoesNot, HookEnds, Reconcile, ReconcileEnds
  <2>3. renewal' \in {"certbot", "reconcile", "check", "deploying", "checkChanged", "idle"}
    BY <1>3 DEF RenewalStarts, CertbotDoesNot, HookEnds, Reconcile, ReconcileEnds, Renew
  <2>. QED BY <2>1, <2>2, <2>3
       DEF Renewal, Types, StartDeploy, EndDeploy, diskVars, runVars, history
<1>. QED BY <1>1, <1>2, <1>3 DEF Renewal

(* The state of the proxy is recorded. *)
LEMMA StatesRecorded ==
    ASSUME Types, States
    PROVE  /\ installer' \in Installers
           /\ installer'.pc = "replace" /\ installer'.at = 1
<1>. installer \in Installers   BY DEF Types
<1>1. PICK active \in BOOLEAN :
        installer' = [installer EXCEPT !.pc = "replace", !.at = 1, !.active = active]
  <2>1. PICK active \in IF proxy.up \/ proxy.stopped THEN {proxy.up} ELSE BOOLEAN :
          installer' = [installer EXCEPT !.pc = "replace", !.at = 1, !.active = active]
    BY DEF States
  <2>2. active \in BOOLEAN   BY DEF Types
  <2>. QED BY <2>1, <2>2
<1>2. PICK q \in {"idle"} \union Updating \union RollingBack, n \in 1..6, b \in BOOLEAN,
             a \in BOOLEAN :
        installer = [pc |-> q, at |-> n, rollback_failed |-> b, active |-> a]
  BY DEF Installers
<1>3. installer' = [pc |-> "replace", at |-> 1, rollback_failed |-> b, active |-> active]
  BY <1>1, <1>2
<1>. QED BY <1>3 DEF Installers

(* install.sh, the update. *)
LEMMA UpdateTypes ==
    ASSUME Types, Update
    PROVE  Types'
<1>. installer \in Installers /\ file \in Tables /\ backup \in Tables
  BY DEF Types, Installers
<1>1. CASE Start
  <2>1. run' \in 0..MaxRuns   BY <1>1 DEF Start, Types
  <2>2. installer' \in Installers   BY <1>1, Place DEF Start
  <2>. QED BY <1>1, <2>1, <2>2 DEF Start, Types, diskVars, Installers
<1>2. CASE Snapshot
  <2>1. PICK p \in Paths : backup' = [backup EXCEPT ![p] = file[p]]
    <3>1. UPDATE_PATHS[installer.at] \in Paths   BY DEF UPDATE_PATHS, Installers
    <3>. QED BY <1>2, <3>1 DEF Snapshot
  <2>2. backup' \in Tables   BY <2>1 DEF Tables
  <2>3. installer' \in Installers
    <3>1. CASE installer.at < Len(UPDATE_PATHS)
      BY <1>2, <3>1, Place DEF Snapshot, UPDATE_PATHS, At
    <3>2. CASE ~(installer.at < Len(UPDATE_PATHS))   BY <1>2, <3>2, Place DEF Snapshot
    <3>. QED BY <3>1, <3>2
  <2>4. snapshots' = snapshots   BY <1>2 DEF Snapshot
  <2>. QED BY <1>2, <2>2, <2>3, <2>4 DEF Snapshot, Types, diskVars, history, Installers
<1>8. CASE States
  <2>1. installer' \in Installers   BY <1>8, StatesRecorded
  <2>2. SoftwareOf(backup) \in [Software -> Broken..MaxRuns]   BY DEF SoftwareOf, Tables
  <2>3. snapshots' \subseteq [Software -> Broken..MaxRuns]   BY <1>8, <2>2 DEF States, Types
  <2>. QED BY <1>8, <2>1, <2>3 DEF States, Types, diskVars, history, Installers
<1>3. CASE Replace
  <2>1. PICK p \in Software, v \in Broken..MaxRuns : file' = [file EXCEPT ![p] = v]
    <3>1. installer.at \in 1..4   BY <1>3 DEF Replace, At, Installers
    <3>2. Replaced[installer.at] \in Software   BY <3>1 DEF Replaced
    <3>. QED BY <1>3, <3>2 DEF Replace, Types
  <2>2. file' \in Tables   BY <2>1, SoftwareWritten
  <2>3. installer' \in Installers
    <3>1. CASE Next1 /\ installer.at < 4
      <4>1. installer.at < 6   BY <3>1 DEF Installers
      <4>. QED BY <3>1, <4>1, Place
    <3>2. CASE ~(Next1 /\ installer.at < 4)   BY <1>3, <3>2, Place DEF Replace, Replaced
    <3>. QED BY <3>1, <3>2
  <2>. QED BY <1>3, <2>2, <2>3 DEF Replace, Types, history, Installers
<1>4. CASE Certonly
  <2>1. lineage' \in 1..MaxCert   BY <1>4 DEF Certonly, Types
  <2>2. installer' \in Installers   BY <1>4, Place DEF Certonly
  <2>. QED BY <1>4, <2>1, <2>2 DEF Certonly, StartDeploy, Types, history
<1>5. CASE Hooked
  <2>1. installer' \in Installers   BY <1>5, Place DEF Hooked
  <2>. QED BY <1>5, <2>1 DEF Hooked, Types, diskVars, history
<1>6. CASE StartProxy \/ Check
  <2>1. installer' \in Installers   BY <1>6, Place DEF StartProxy, Check
  <2>2. proxy' \in Processes   BY <1>6, Process DEF StartProxy, Check
  <2>. QED BY <1>6, <2>1, <2>2 DEF StartProxy, Check, Types, history, Processes
<1>7. CASE Finish
  <2>1. installer' \in Installers   BY <1>7, Place DEF Finish
  <2>. QED BY <1>7, <2>1 DEF Finish, Types, diskVars
<1>. QED BY <1>1, <1>2, <1>3, <1>4, <1>5, <1>6, <1>7, <1>8 DEF Update

LEMMA AdvanceType ==
    ASSUME installer \in Installers, installer.pc \in {"restore", "undo"},
           NEW failed \in BOOLEAN, Advance(failed)
    PROVE  installer' \in Installers
<1>1. PICK pc \in {"restore", "undo", "refresh", "clean"}, at \in 1..6, b \in BOOLEAN,
             a \in BOOLEAN :
        installer' = [pc |-> pc, at |-> at, rollback_failed |-> b, active |-> a]
  <2>1. (IF installer.at = Len(UPDATE_PATHS) THEN 1 ELSE installer.at + 1) \in 1..6
    BY DEF Installers, UPDATE_PATHS
  <2>2. (CASE At("restore") /\ installer.at = Len(UPDATE_PATHS) -> "refresh"
           [] At("undo") /\ UPDATE_PATHS[installer.at] = "key" -> "clean"
           [] OTHER -> installer.pc) \in {"restore", "undo", "refresh", "clean"}
    BY DEF At
  <2>3. (installer.rollback_failed \/ failed) \in BOOLEAN /\ installer.active \in BOOLEAN
    BY DEF Installers
  <2>. QED BY <2>1, <2>2, <2>3 DEF Advance
<1>. QED BY <1>1 DEF Installers

(* install.sh, the EXIT trap. *)
LEMMA RollbackTypes ==
    ASSUME Types, Rollback
    PROVE  Types'
<1>. installer \in Installers /\ file \in Tables /\ backup \in Tables
  BY DEF Types
<1>1. CASE restore_update_path
  <2>1. PICK p \in Paths : p = UPDATE_PATHS[installer.at]   BY DEF UPDATE_PATHS, Installers
  <2>2. file' = file \/ file' = [file EXCEPT ![p] = Broken] \/ file' = [file EXCEPT ![p] = backup[p]]
    BY <1>1, <2>1 DEF restore_update_path
  <2>3. file' \in Tables   BY <2>2 DEF Tables
  <2>4. installer' = installer \/ Advance(TRUE) \/ Advance(FALSE)
    BY <1>1 DEF restore_update_path
  <2>5. installer.pc \in {"restore", "undo"}   BY <1>1 DEF restore_update_path
  <2>6. installer' \in Installers   BY <2>4, <2>5, AdvanceType
  <2>7. faults' = faults \/ Fault   BY <1>1 DEF restore_update_path
  <2>8. faults' \in 0..MaxFaults   BY <2>7 DEF Types, Fault
  <2>. QED BY <1>1, <2>3, <2>6, <2>8 DEF restore_update_path, Types
<1>2. CASE Refresh
  <2>1. installer' \in Installers   BY <1>2, Place DEF Refresh
  <2>. QED BY <1>2, <2>1 DEF Refresh, StartDeploy, Types, diskVars, history
<1>3. CASE RefreshEnds
  <2>1. installer' \in Installers
    <3>1. CASE Goto("clean")   BY <3>1, Place
    <3>2. CASE ~Goto("clean")
      <4>1. installer' = [pc |-> "undo", at |-> 3, rollback_failed |-> TRUE,
                           active |-> installer.active]
        BY <1>3, <3>2 DEF RefreshEnds
      <4>2. installer.active \in BOOLEAN   BY DEF Installers
      <4>. QED BY <4>1, <4>2 DEF Installers
    <3>. QED BY <3>1, <3>2
  <2>. QED BY <1>3, <2>1 DEF RefreshEnds, EndDeploy, Types, diskVars, history
<1>4. CASE Clean
  <2>1. installer' \in Installers   BY <1>4, Place DEF Clean
  <2>. QED BY <1>4, <2>1 DEF Clean, Types, history
<1>5. CASE RestoreUnits
  <2>1. installer' \in Installers
    <3>1. CASE Goto("check")   BY <3>1, Place
    <3>2. CASE ~Goto("check")
      <4>1. installer' = [installer EXCEPT !.pc = "check", !.rollback_failed = TRUE]
        BY <1>5, <3>2 DEF RestoreUnits
      <4>. QED BY <4>1 DEF Installers
    <3>. QED BY <3>1, <3>2
  <2>2. proxy' = proxy \/ Restarted \/ proxy' = NoProcess(TRUE)   BY <1>5, Zenon DEF RestoreUnits
  <2>3. proxy' \in Processes
    <3>1. NoProcess(TRUE) \in Processes   BY NoProcessType
    <3>2. proxy' = proxy => proxy' \in Processes   BY DEF Types, Processes
    <3>3. Restarted => proxy' \in Processes   BY Process
    <3>4. proxy' = NoProcess(TRUE) => proxy' \in Processes   BY <3>1, Zenon
    <3>. QED BY <2>2, <3>2, <3>3, <3>4, Zenon
  <2>4. faults' \in 0..MaxFaults
    <3>1. faults' = faults \/ Fault   BY <1>5, Zenon DEF RestoreUnits
    <3>. QED BY <3>1 DEF Fault, Types
  <2>. QED BY <1>5, <2>1, <2>3, <2>4 DEF RestoreUnits, Types, Processes
<1>6. CASE CheckRollback
  <2>1. installer' \in Installers   BY <1>6, Place DEF CheckRollback, LastCheck
  <2>2. proxy' = proxy \/ Handshake   BY <1>6 DEF CheckRollback, LastCheck
  <2>3. proxy' \in Processes   BY <2>2, Process DEF Types, Processes
  <2>4. outcome' \in {"restored", "incomplete"} /\ snapshots' \subseteq snapshots
    BY <1>6 DEF CheckRollback, LastCheck
  <2>. QED BY <1>6, <2>1, <2>3, <2>4 DEF CheckRollback, LastCheck, Types, Processes
<1>. QED BY <1>1, <1>2, <1>3, <1>4, <1>5, <1>6 DEF Rollback

LEMMA FaultTypes ==
    ASSUME Types, Faults
    PROVE  Types'
<1>. installer \in Installers   BY DEF Types
<1>0. faults' \in 0..MaxFaults
  BY DEF Faults, UpdateFails, Kill, Hangup, DeployFails, Fault, NoFault, Types
<1>1. CASE UpdateFails
  <2>1. Fails /\ UNCHANGED hungUp   BY <1>1 DEF UpdateFails, NoFault
  <2>2. installer' \in Installers   BY <2>1, Place DEF Fails
  <2>3. outcome' \in {outcome, "failed"}   BY <2>1 DEF Fails
  <2>. QED BY <1>0, <2>1, <2>2, <2>3 DEF Fails, EndDeploy, Types, diskVars
<1>2. CASE Kill
  <2>1. installer' \in Installers   BY <1>2, Place DEF Kill
  <2>. QED BY <1>0, <1>2, <2>1 DEF Kill, EndDeploy, Types, diskVars
<1>3. CASE Hangup
  <2>1. installer' \in Installers   BY <1>3, Place DEF Hangup
  <2>2. hungUp' \in BOOLEAN /\ snapshots' \subseteq snapshots   BY <1>3 DEF Hangup
  <2>. QED BY <1>0, <1>3, <2>1, <2>2 DEF Hangup, EndDeploy, Types, diskVars
<1>4. ASSUME NEW o \in Owners, DeployFails(o) PROVE Types'
  BY <1>0, <1>4 DEF DeployFails, Types, diskVars, runVars
<1>. QED BY <1>1, <1>2, <1>3, <1>4 DEF Faults

LEMMA TypesStep ==
    ASSUME Types, [Next]_vars
    PROVE  Types'
<1>1. CASE Serve
  <2>1. proxy' \in Processes   BY <1>1, Process DEF Serve
  <2>. QED BY <1>1, <2>1 DEF Serve, Types, runVars, history, Processes
<1>2. CASE UNCHANGED vars   BY <1>2 DEF Types, vars, diskVars, runVars, history
<1>. QED BY <1>1, <1>2, UpdateTypes, RollbackTypes, FaultTypes, RenewalTypes, DeployTypes DEF Next

LEMMA TypesInit == Init => Types
<1>. SUFFICES ASSUME Init PROVE Types   OBVIOUS
<1>1. file \in Tables   BY DEF Init, Tables
<1>2. installer \in Installers   BY DEF Init, Idle, Installers
<1>3. proxy \in Processes
  <2>1. NoProcess(TRUE) \in Processes   BY NoProcessType
  <2>2. [up |-> TRUE, stopped |-> FALSE, of |-> 0, cert |-> 1] \in Processes   BY DEF Processes
  <2>3. \/ proxy = [up |-> TRUE, stopped |-> FALSE, of |-> 0, cert |-> 1]
        \/ proxy = NoProcess(TRUE)
    BY Zenon DEF Init
  <2>. QED BY <2>1, <2>2, <2>3
<1>4. /\ backup \in Tables /\ pending \in [Tls -> Int] /\ \A p \in Tls : pending[p] = Broken
      /\ snapshots \subseteq [Software -> Broken..MaxRuns]
  BY <1>1 DEF Init
<1>5. /\ lineage \in 1..MaxCert /\ run \in 0..MaxRuns /\ floor \in 1..MaxCert
      /\ faults \in 0..MaxFaults
  BY DEF Init
<1>6. /\ renewal = "idle" /\ outcome = "none" /\ hungUp = FALSE
      /\ deploy = [o \in Owners |-> "idle"]
  BY DEF Init
<1>. QED BY <1>1, <1>2, <1>3, <1>4, <1>5, <1>6 DEF Types, Processes

-----------------------------------------------------------------------------
LEMMA NextBefore ==
    ASSUME NEW list, NEW n \in Nat \ {0}
    PROVE  Before(list, n + 1) = Before(list, n) \union {list[n]}
BY DEF Before

LEMMA NothingBeforeFirst == ASSUME NEW list PROVE Before(list, 1) = {}
BY DEF Before

LEMMA Lists ==
    /\ \A n \in 1..4 : Replaced[n] \notin Before(Replaced, n)
    /\ Before(Replaced, 5) = Software
    /\ \A n \in 1..6 : UPDATE_PATHS[n] \notin Before(UPDATE_PATHS, n)
    /\ Before(UPDATE_PATHS, 7) = Paths
BY DEF Before, Replaced, UPDATE_PATHS

(* A snapshot of the software is whole when the software is. *)
LEMMA WholeSnapshot ==
    ASSUME NEW f
    PROVE  Whole(SoftwareOf(f)) <=> Whole(f)
BY DEF Whole, SoftwareOf

Kept == \A p \in Software : file'[p] = file[p]

LEMMA WholeKept == Kept => (Whole(file)' <=> Whole(file))
BY DEF Kept, Whole

Rest == Protected /\ Saved /\ Written /\ Restored

(* The renewal service writes the two TLS paths only. *)
LEMMA SoftwareUntouched ==
    ASSUME Types, Renewal \/ Serve \/ \E o \in Owners : Deploy(o) \/ DeployFails(o)
    PROVE  Kept /\ UNCHANGED <<runVars, hungUp>>
<1>1. CASE Renewal
  <2>1. file' = file
    BY <1>1 DEF Renewal, RenewalStarts, CertbotRenews, CertbotDoesNot, HookEnds, Reconcile,
                ReconcileEnds, RenewalChecks, diskVars
  <2>. QED BY <1>1, <2>1 DEF Renewal, Kept, history
<1>2. CASE Serve   BY <1>2 DEF Serve, Kept, history
<1>3. ASSUME NEW o \in Owners, Deploy(o) PROVE Kept /\ UNCHANGED <<runVars, hungUp>>
  <2>1. file' = file \/ \E p \in Tls : file' = [file EXCEPT ![p] = pending[p]]
    BY <1>3 DEF Deploy, Copy, Move, RestartProxy
  <2>2. Kept   BY <2>1 DEF Kept, Types, Tables
  <2>. QED BY <1>3, <2>2 DEF Deploy, history
<1>4. ASSUME NEW o \in Owners, DeployFails(o) PROVE Kept /\ UNCHANGED <<runVars, hungUp>>
  BY <1>4 DEF DeployFails, Kept, diskVars
<1>. QED BY <1>1, <1>2, <1>3, <1>4

LEMMA RestKept ==
    ASSUME Rest, Kept, UNCHANGED <<runVars, hungUp>>
    PROVE  Rest'
<1>1. UNCHANGED <<run, installer, backup, snapshots, hungUp>>   BY DEF runVars
<1>2. Protected'   BY <1>1, WholeKept DEF Rest, Protected
<1>3. Saved'   BY <1>1 DEF Rest, Saved, Kept, At
<1>4. Written'   BY <1>1 DEF Rest, Written, Kept, At
<1>5. Restored'   BY <1>1 DEF Rest, Restored, Kept, At
<1>. QED BY <1>2, <1>3, <1>4, <1>5 DEF Rest

(* The steps of the installer that leave the files alone. *)
LEMMA SnapshotRest ==
    ASSUME Types, Rest, Snapshot
    PROVE  Rest'
<1>. DEFINE n == installer.at
            p == UPDATE_PATHS[n]
<1>1. /\ At("snapshot") /\ UNCHANGED <<file, run, hungUp>>
      /\ backup' = [backup EXCEPT ![p] = file[p]]
  BY DEF Snapshot, diskVars, history
<1>2. n \in 1..6 /\ p \in Paths   BY DEF Types, Installers, UPDATE_PATHS
<1>3. \A q \in Software \intersect Before(UPDATE_PATHS, n + 1) : backup'[q] = file[q]
  BY <1>1, <1>2, NextBefore DEF Rest, Saved, Types, Tables
<1>4. CASE Next1 /\ UNCHANGED snapshots
  <2>1. installer'.pc = "snapshot" /\ installer'.at = n + 1
    BY <1>1, <1>2, <1>4 DEF Next1, Types, Installers, At
  <2>2. Protected'   BY <1>1, <1>4, <2>1 DEF Rest, Protected, At, Whole
  <2>3. Saved'
    <3>1. ~At("states")'   BY <2>1 DEF At
    <3>2. \A q \in Software \intersect Before(UPDATE_PATHS, installer'.at) :
            backup'[q] = file'[q]
      BY <1>1, <1>3, <2>1
    <3>. QED BY <3>1, <3>2 DEF Saved
  <2>. QED BY <2>1, <2>2, <2>3 DEF Rest, Written, Restored, At
<1>5. CASE ~Next1
  <2>1. ~(n < Len(UPDATE_PATHS)) /\ Goto("states") /\ snapshots' = snapshots
    BY <1>5 DEF Snapshot
  <2>2. n = 6   BY <1>2, <2>1 DEF UPDATE_PATHS
  <2>3. installer'.pc = "states"   BY <2>1 DEF Goto, Types, Installers
  <2>4. \A q \in Software : backup'[q] = file[q]   BY <1>3, <2>2, Lists
  <2>5. Protected'   BY <1>1, <2>1, <2>3 DEF Rest, Protected, At, Whole
  <2>. QED BY <1>1, <2>3, <2>4, <2>5 DEF Rest, Saved, Written, Restored, At
<1>. QED BY <1>4, <1>5 DEF Snapshot

(* The snapshot counts from here on. *)
LEMMA StatesRest ==
    ASSUME Types, Rest, States
    PROVE  Rest'
<1>1. /\ At("states") /\ UNCHANGED <<file, run, backup, hungUp>>
      /\ snapshots' = snapshots \union {SoftwareOf(backup)}
  BY DEF States, diskVars, history
<1>2. installer'.pc = "replace" /\ installer'.at = 1   BY StatesRecorded
<1>3. SoftwareOf(backup) = SoftwareOf(file)   BY <1>1 DEF Rest, Saved, SoftwareOf
<1>4. Protected'
  <2>1. CASE Whole(file)   BY <1>1, <1>3, <2>1, WholeSnapshot DEF Protected
  <2>2. CASE ~Whole(file)   BY <1>1, <2>2 DEF Rest, Protected, Whole
  <2>. QED BY <2>1, <2>2
<1>. QED BY <1>2, <1>4, NothingBeforeFirst DEF Rest, Saved, Written, Restored, At

(* Going on within the update, or within the rollback, or to its start. *)
LEMMA RestGoto ==
    ASSUME Types, Rest, Kept, UNCHANGED <<run, backup, snapshots, hungUp>>,
           NEW pc, Goto(pc),
           \/ /\ installer.pc \in Updating \ (Saving \union {"replace"})
              /\ pc \in Updating \ (Saving \union {"replace"})
           \/ installer.pc \in Updating \ Saving /\ pc = "restore"
           \/ /\ installer.pc \in RollingBack \ {"restore"}
              /\ pc \in RollingBack \ {"restore", "undo"}
    PROVE  Rest'
<1>1. installer'.pc = pc /\ installer'.at = 1
      /\ installer'.rollback_failed = installer.rollback_failed
  BY DEF Goto, Types, Installers
<1>2. Protected'   BY <1>1, WholeKept DEF Rest, Protected
<1>3. Saved'   BY <1>1 DEF Saved, At
<1>4. Written'   BY <1>1 DEF Rest, Written, Kept, At
<1>5. Restored'   BY <1>1, NothingBeforeFirst DEF Rest, Restored, Kept, At
<1>. QED BY <1>2, <1>3, <1>4, <1>5 DEF Rest

(* The run is over. *)
LEMMA RestIdle ==
    ASSUME Rest, UNCHANGED file, installer' = Idle,
           hungUp' \/ Whole(file) \/ \E s \in snapshots' : Whole(s)
    PROVE  Rest'
<1>1. installer'.pc = "idle"   BY DEF Idle
<1>. QED BY <1>1 DEF Rest, Protected, Saved, Written, Restored, At, Whole

LEMMA ReplaceRest ==
    ASSUME Types, Rest, Replace
    PROVE  Rest'
<1>. DEFINE n == installer.at
            p == Replaced[n]
<1>1. At("replace") /\ UNCHANGED <<run, backup, snapshots, hungUp>>
  BY DEF Replace, history
<1>2. n \in 1..4 /\ p \in Software   BY <1>1 DEF Types, Installers, Replaced, At
<1>3. PICK v : file' = [file EXCEPT ![p] = v]   BY DEF Replace
<1>4. \A q \in Software \ {p} : file'[q] = file[q]   BY <1>3 DEF Types, Tables
<1>5. CASE UNCHANGED installer
  <2>1. Written'   BY <1>1, <1>2, <1>4, <1>5, Lists DEF Rest, Written, At
  <2>. QED BY <1>1, <1>5, <2>1 DEF Rest, Protected, Saved, Restored, At
<1>6. CASE installer' # installer
  <2>1. file' = [file EXCEPT ![p] = run]
        /\ IF n < Len(Replaced) THEN Next1 ELSE Goto("certonly")
    BY <1>6 DEF Replace
  <2>2. file'[p] = run   BY <1>2, <2>1 DEF Types, Tables
  <2>3. \A q \in Software \intersect Before(Replaced, n + 1) : file'[q] = run
    BY <1>1, <1>2, <1>4, <2>2, NextBefore DEF Rest, Written
  <2>4. CASE n < Len(Replaced)
    <3>1. installer'.pc = "replace" /\ installer'.at = n + 1
      BY <1>1, <2>1, <2>4 DEF Next1, Types, Installers, At
    <3>. QED BY <1>1, <2>3, <3>1 DEF Rest, Protected, Saved, Written, Restored, At
  <2>5. CASE ~(n < Len(Replaced))
    <3>1. n = 4   BY <1>2, <2>5 DEF Replaced
    <3>2. installer'.pc = "certonly"   BY <2>1, <2>5 DEF Goto, Types, Installers
    <3>3. \A q \in Software : file'[q] = run   BY <2>3, <3>1, Lists
    <3>. QED BY <1>1, <3>2, <3>3 DEF Rest, Protected, Saved, Written, Restored, At
  <2>. QED BY <2>4, <2>5
<1>. QED BY <1>5, <1>6

LEMMA UpdateRest ==
    ASSUME Types, Rest, Update
    PROVE  Rest'
<1>1. CASE Start
  <2>1. installer'.pc = "snapshot" /\ installer'.at = 1
    BY <1>1 DEF Start, Goto, Types, Installers
  <2>2. At("idle") /\ UNCHANGED <<file, backup, snapshots, hungUp>>   BY <1>1 DEF Start, diskVars
  <2>3. Protected'   BY <2>1, <2>2 DEF Rest, Protected, At, Whole
  <2>. QED BY <2>1, <2>3, NothingBeforeFirst DEF Rest, Saved, Written, Restored, At
<1>2. CASE Snapshot   BY <1>2, SnapshotRest
<1>6. CASE States   BY <1>6, StatesRest
<1>3. CASE Replace   BY <1>3, ReplaceRest
<1>4. CASE Certonly \/ Hooked \/ StartProxy \/ Check
  <2>1. PICK pc \in {"hook", "dryhook", "restart", "health2", "health", "dryrun", "finish"} :
          Goto(pc)
    BY <1>4 DEF Certonly, Hooked, StartProxy, Check
  <2>2. installer.pc \in {"certonly", "dryrun", "hook", "dryhook", "restart", "health", "health2"}
    BY <1>4 DEF Certonly, Hooked, StartProxy, Check, At
  <2>3. UNCHANGED <<file, run, backup, snapshots, hungUp>>
    BY <1>4 DEF Certonly, Hooked, StartProxy, Check, diskVars, history
  <2>4. Kept   BY <2>3 DEF Kept
  <2>. QED BY <2>1, <2>2, <2>3, <2>4, RestGoto
<1>5. CASE Finish
  <2>1. At("finish") /\ installer' = Idle /\ UNCHANGED file   BY <1>5 DEF Finish, diskVars
  <2>2. \A p \in Software : file[p] = run   BY <2>1 DEF Rest, Written, At
  <2>3. Whole(file)   BY <2>2 DEF Whole, Types
  <2>. QED BY <2>1, <2>3, RestIdle
<1>. QED BY <1>1, <1>2, <1>3, <1>4, <1>5, <1>6 DEF Update

LEMMA RestoreRest ==
    ASSUME Types, Rest, restore_update_path
    PROVE  Rest'
<1>. DEFINE n == installer.at
            p == UPDATE_PATHS[n]
<1>1. /\ installer.pc \in {"restore", "undo"}
      /\ UNCHANGED <<run, backup, snapshots, hungUp>>
  BY DEF restore_update_path
<1>2. n \in 1..6 /\ p \in Paths   BY DEF Types, Installers, UPDATE_PATHS
<1>3. PICK v : file' = file \/ file' = [file EXCEPT ![p] = v]   BY DEF restore_update_path
<1>4. \A q \in Paths \ {p} : file'[q] = file[q]   BY <1>3 DEF Types, Tables
<1>5. CASE UNCHANGED installer
  <2>1. Restored'   BY <1>1, <1>2, <1>4, <1>5, Lists DEF Rest, Restored, At
  <2>. QED BY <1>1, <1>5, <2>1 DEF Rest, Protected, Saved, Written, At
<1>6. CASE installer' # installer
  <2>1. PICK failed \in BOOLEAN : Advance(failed) /\ (~failed => file' = [file EXCEPT ![p] = backup[p]])
    BY <1>6 DEF restore_update_path
  <2>2. /\ installer'.pc \in {"restore", "refresh", "undo", "clean"}
        /\ installer'.rollback_failed = (installer.rollback_failed \/ failed)
        /\ At("undo") => installer'.pc \in {"undo", "clean"}
        /\ At("restore") /\ n < 6 => installer'.pc = "restore" /\ installer'.at = n + 1
        /\ At("restore") /\ n = 6 => installer'.pc = "refresh"
    BY <1>1, <1>2, <2>1 DEF Advance, At, UPDATE_PATHS
  <2>3. Protected' /\ Saved' /\ Written'
    BY <1>1, <2>2 DEF Rest, Protected, Saved, Written, At
  <2>4. Restored'
    <3>1. CASE installer'.rollback_failed   BY <2>2, <3>1 DEF Restored
    <3>2. CASE ~installer'.rollback_failed
      <4>1. At("restore") /\ ~installer.rollback_failed /\ ~failed
        BY <1>1, <2>2, <3>2 DEF Rest, Restored, At
      <4>2. file'[p] = backup[p]   BY <1>2, <2>1, <4>1 DEF Types, Tables
      <4>3. \A q \in Software \intersect Before(UPDATE_PATHS, n + 1) : file'[q] = backup[q]
        BY <1>2, <1>4, <4>1, <4>2, NextBefore DEF Rest, Restored
      <4>4. CASE n < 6   BY <1>1, <2>2, <4>1, <4>3, <4>4 DEF Restored, At
      <4>5. CASE n = 6
        <5>1. \A q \in Software : file'[q] = backup[q]   BY <4>3, <4>5, Lists
        <5>. QED BY <1>1, <2>2, <4>1, <4>5, <5>1 DEF Restored, At
      <4>. QED BY <1>2, <4>4, <4>5
    <3>. QED BY <3>1, <3>2
  <2>. QED BY <2>3, <2>4 DEF Rest
<1>. QED BY <1>5, <1>6

LEMMA RollbackRest ==
    ASSUME Types, Rest, Rollback
    PROVE  Rest'
<1>1. CASE restore_update_path   BY <1>1, RestoreRest
<1>2. ASSUME NEW pc \in {"clean", "refreshing", "units", "check"}, Goto(pc),
             Refresh \/ RefreshEnds \/ Clean \/ RestoreUnits
      PROVE  Rest'
  <2>1. installer.pc \in {"refresh", "refreshing", "clean", "units"}
    BY <1>2 DEF Refresh, RefreshEnds, Clean, RestoreUnits, At
  <2>2. UNCHANGED <<file, run, backup, snapshots, hungUp>>
    BY <1>2 DEF Refresh, RefreshEnds, Clean, RestoreUnits, diskVars, history
  <2>3. Kept   BY <2>2 DEF Kept
  <2>. QED BY <1>2, <2>1, <2>2, <2>3, RestGoto
<1>3. ASSUME RefreshEnds \/ RestoreUnits,
             installer'.pc \in {"undo", "check"}, installer'.rollback_failed
      PROVE  Rest'
  <2>1. installer.pc \in {"refreshing", "units"}   BY <1>3 DEF RefreshEnds, RestoreUnits, At
  <2>2. UNCHANGED <<file, run, backup, snapshots, hungUp>>
    BY <1>3 DEF RefreshEnds, RestoreUnits, diskVars, history
  <2>. QED BY <1>3, <2>1, <2>2 DEF Rest, Protected, Saved, Written, Restored, At, Whole
<1>4. CASE CheckRollback
  <2>1. At("check") /\ installer' = Idle /\ UNCHANGED <<file, hungUp>>
    BY <1>4 DEF CheckRollback, LastCheck
  <2>2. hungUp \/ \E s \in snapshots : Whole(s)   BY <2>1 DEF Rest, Protected, At
  <2>3. CASE snapshots' = snapshots   BY <2>1, <2>2, <2>3, RestIdle
  <2>4. CASE snapshots' # snapshots
    <3>1. ~installer.rollback_failed /\ snapshots' = snapshots \ {SoftwareOf(backup)}
      BY <1>4, <2>4 DEF CheckRollback, Complete
    <3>2. SoftwareOf(backup) = SoftwareOf(file)
      BY <2>1, <3>1 DEF Rest, Restored, At, SoftwareOf
    <3>3. Whole(SoftwareOf(backup)) => Whole(file)   BY <3>2, WholeSnapshot
    <3>. QED BY <2>1, <2>2, <3>1, <3>3, RestIdle
  <2>. QED BY <2>3, <2>4
<1>5. Refresh \/ Clean => \E pc \in {"clean", "refreshing", "units", "check"} : Goto(pc)
  BY DEF Refresh, Clean
<1>6. RefreshEnds => Goto("clean") \/ (installer'.pc = "undo" /\ installer'.rollback_failed)
  BY DEF RefreshEnds
<1>7. RestoreUnits => Goto("check") \/ (installer'.pc = "check" /\ installer'.rollback_failed)
  BY DEF RestoreUnits, Types, Installers
<1>. QED BY <1>1, <1>2, <1>3, <1>4, <1>5, <1>6, <1>7 DEF Rollback

LEMMA FaultRest ==
    ASSUME Types, Rest, UpdateFails \/ Kill \/ Hangup
    PROVE  Rest'
<1>1. UNCHANGED <<file, run, backup>>   BY DEF UpdateFails, Fails, Kill, Hangup, diskVars
<1>2. Kept   BY <1>1 DEF Kept
<1>3. Whole(file) \/ hungUp \/ installer.pc = "idle" \/ \E s \in snapshots : Whole(s)
  BY DEF Rest, Protected
<1>4. CASE UpdateFails
  <2>1. installer.pc \in Updating /\ Fails /\ UNCHANGED <<snapshots, hungUp>>
    BY <1>4 DEF UpdateFails, Fails, NoFault
  <2>2. CASE installer.pc \in Saving   BY <1>1, <1>3, <2>1, <2>2, RestIdle DEF Fails
  <2>3. CASE installer.pc \notin Saving   BY <1>1, <1>2, <2>1, <2>3, RestGoto DEF Fails
  <2>. QED BY <2>2, <2>3
<1>5. CASE Kill   BY <1>1, <1>3, <1>5, RestIdle DEF Kill
<1>6. CASE Hangup
  <2>1. installer.pc # "idle" /\ installer' = Idle   BY <1>6 DEF Hangup
  <2>2. CASE installer.pc \in Saving
    BY <1>1, <1>3, <1>6, <2>1, <2>2, RestIdle DEF Hangup
  <2>3. CASE installer.pc \notin Saving
    <3>1. hungUp'   BY <1>6, <2>3 DEF Hangup
    <3>. QED BY <1>1, <2>1, <3>1, RestIdle
  <2>. QED BY <2>2, <2>3
<1>. QED BY <1>4, <1>5, <1>6

LEMMA InstallerInvariant == Spec => []InstallerInv
<1>1. Init => InstallerInv
  <2>. SUFFICES ASSUME Init PROVE InstallerInv   OBVIOUS
  <2>1. Whole(file) /\ installer.pc = "idle"   BY DEF Init, Whole, Idle
  <2>. QED BY <2>1, TypesInit DEF InstallerInv, Protected, Saved, Written, Restored, At
<1>2. InstallerInv /\ [Next]_vars => InstallerInv'
  <2>. SUFFICES ASSUME InstallerInv, [Next]_vars PROVE InstallerInv'   OBVIOUS
  <2>. Types /\ Rest   BY DEF InstallerInv, Rest
  <2>1. Types'   BY TypesStep
  <2>2. Rest'
    <3>1. CASE UNCHANGED vars
      BY <3>1, RestKept DEF vars, diskVars, history, Kept
    <3>2. CASE Renewal \/ Serve \/ \E o \in Owners : Deploy(o) \/ DeployFails(o)
      BY <3>2, SoftwareUntouched, RestKept
    <3>. QED BY <3>1, <3>2, UpdateRest, RollbackRest, FaultRest DEF Next, Faults
  <2>. QED BY <2>1, <2>2 DEF InstallerInv, Rest
<1>. QED BY <1>1, <1>2, PTL DEF Spec

(* In every execution the variables have their types: a path holds the version of a   *)
(* run, or is missing, whatever fails.                                                *)
THEOREM InstallerType == Spec => []TypeOK
<1>1. Types => TypeOK
  <2>. SUFFICES ASSUME Types PROVE TypeOK   OBVIOUS
  <2>1. ASSUME NEW f \in Tables PROVE DOMAIN f = Paths /\ \A p \in Paths : f[p] \in Values(p)
    BY DEF Tables, Values
  <2>2. pending \in [Tls -> Broken..MaxCert]   BY DEF Types
  <2>3. installer \in [pc : {"idle"} \union Updating \union RollingBack,
                       at : 1..Len(UPDATE_PATHS), rollback_failed : BOOLEAN,
                       active : BOOLEAN]
    BY DEF Types, Installers, UPDATE_PATHS
  <2>. QED BY <2>1, <2>2, <2>3 DEF Types, TypeOK
<1>. QED BY <1>1, InstallerInvariant, PTL DEF InstallerInv

(* A run that fails, is killed or rolls back, however often and however it fails,      *)
(* leaves a whole installation or a whole snapshot of one on the disk, unless a run    *)
(* was hung up.                                                                        *)
THEOREM InstallerMixtureHasSnapshot == Spec => []MixtureHasSnapshot
<1>1. InstallerInv => MixtureHasSnapshot   BY DEF InstallerInv, Protected, MixtureHasSnapshot
<1>. QED BY <1>1, InstallerInvariant, PTL

-----------------------------------------------------------------------------
(* RestoredMeansPrevious.  The software is covered by Restored.  The process that     *)
(* runs at the last check was started from the restored binary, whoever restarted it   *)
(* (Running).  Its certificate is no older than the lineage was at the failure:        *)
(* nothing on the disk is newer than what waits in cert.new (Ordered), so that a move  *)
(* of the renewal service never replaces a pair by an older one, and once the refresh  *)
(* has copied, what waits there is recent enough (Refreshed).                          *)
AtMost(c, d) == d = Broken \/ c <= d

Ordered ==
    /\ floor <= lineage
    /\ file["cert"] <= lineage /\ backup["cert"] <= lineage /\ pending["cert"] <= lineage
    /\ AtMost(file["cert"], pending["cert"]) /\ AtMost(backup["cert"], pending["cert"])

Refreshed ==
    /\ At("refreshing") /\ deploy["installer"] \notin {"copyCert", "failed"} =>
          AtMost(floor, pending["cert"])
    /\ At("refreshing")
       /\ deploy["installer"] \notin {"copyCert", "copyKey", "mvCert", "failed"} =>
          floor <= file["cert"]
    /\ installer.pc \in {"clean", "units", "check"} /\ ~installer.rollback_failed =>
          floor <= file["cert"]

Running ==
    At("check") /\ ~installer.rollback_failed /\ proxy.up => proxy.of = file["binary"]

Ending == installer.pc # "idle" => outcome = "none"

RollbackInv == Ordered /\ Refreshed /\ Running /\ Ending

LEMMA Certificates ==
    ASSUME Types
    PROVE  /\ file["cert"] \in Int /\ backup["cert"] \in Int /\ pending["cert"] \in Int
           /\ file["cert"] = Broken \/ file["cert"] >= 1
           /\ backup["cert"] = Broken \/ backup["cert"] >= 1
           /\ pending["cert"] = Broken \/ pending["cert"] >= 1
           /\ lineage \in Nat \ {0} /\ floor \in Nat \ {0}
BY DEF Types, Tables

(* Whoever starts the process, or connects to it. *)
LEMMA RunningKept ==
    ASSUME Types, Running, proxy' = proxy \/ Restarted \/ Handshake,
           installer' = installer, file'["binary"] = file["binary"]
    PROVE  Running'
<1>1. CASE Restarted   BY <1>1 DEF Restarted, NoProcess, Running, At, Types
<1>2. CASE Handshake   BY <1>2 DEF Handshake, Running, At, Types
<1>3. CASE proxy' = proxy   BY <1>3 DEF Running, At
<1>. QED BY <1>1, <1>2, <1>3

(* The renewal service, its hook and the one that a rollback runs. *)
LEMMA DeployRollback ==
    ASSUME Types, RollbackInv, NEW o \in Owners, Deploy(o)
    PROVE  RollbackInv'
<1>0. UNCHANGED <<lineage, installer, backup, floor, outcome>>
  BY DEF Deploy, runVars, history
<1>1. CASE Copy(o, "cert")
  <2>1. /\ file' = file /\ proxy' = proxy /\ pending'["cert"] = lineage
        /\ deploy'["installer"] \in {deploy["installer"], "copyKey"}
    BY <1>1 DEF Copy, Types
  <2>. QED BY <1>0, <2>1, Certificates, RunningKept
       DEF RollbackInv, Ordered, Refreshed, Ending, AtMost, At
<1>2. CASE Copy(o, "key")
  <2>1. /\ file' = file /\ proxy' = proxy /\ pending'["cert"] = pending["cert"]
        /\ \/ deploy'["installer"] = deploy["installer"]
           \/ deploy["installer"] = "copyKey" /\ deploy'["installer"] = "mvCert"
    BY <1>2 DEF Copy, Types
  <2>. QED BY <1>0, <2>1, RunningKept
       DEF RollbackInv, Ordered, Refreshed, Ending, AtMost, At
<1>3. ASSUME NEW p \in Tls, Move(o, p), pending[p] = Broken PROVE RollbackInv'
  <2>1. /\ UNCHANGED <<file, pending, proxy>>
        /\ deploy'["installer"] \in {deploy["installer"], "failed"}
    BY <1>3 DEF Move, Types
  <2>. QED BY <1>0, <2>1, RunningKept
       DEF RollbackInv, Ordered, Refreshed, Ending, AtMost, At
<1>4. CASE Move(o, "cert") /\ pending["cert"] # Broken
  <2>1. /\ file'["cert"] = pending["cert"] /\ file'["binary"] = file["binary"]
        /\ pending'["cert"] = Broken /\ proxy' = proxy
        /\ \/ deploy'["installer"] = deploy["installer"]
           \/ deploy["installer"] = "mvCert" /\ deploy'["installer"] = "mvKey"
    BY <1>4 DEF Move, Types, Tables
  <2>2. Ordered'   BY <1>0, <2>1, Certificates DEF RollbackInv, Ordered, AtMost
  <2>3. Refreshed'
    BY <1>0, <1>4, <2>1, Certificates DEF RollbackInv, Ordered, Refreshed, AtMost, At
  <2>. QED BY <1>0, <2>1, <2>2, <2>3, RunningKept DEF RollbackInv, Ending
<1>5. CASE Move(o, "key") /\ pending["key"] # Broken
  <2>1. /\ file'["cert"] = file["cert"] /\ file'["binary"] = file["binary"]
        /\ pending'["cert"] = pending["cert"] /\ proxy' = proxy
        /\ \/ deploy'["installer"] = deploy["installer"]
           \/ deploy["installer"] = "mvKey" /\ deploy'["installer"] \in {"idle", "restart"}
    BY <1>5 DEF Move, Types, Tables
  <2>. QED BY <1>0, <2>1, RunningKept
       DEF RollbackInv, Ordered, Refreshed, Ending, AtMost, At
<1>6. CASE RestartProxy(o)
  <2>1. UNCHANGED <<file, pending>>   BY <1>6 DEF RestartProxy
  <2>2. proxy' = proxy \/ Restarted   BY <1>6 DEF RestartProxy
  <2>3. \/ deploy'["installer"] = deploy["installer"]
        \/ deploy["installer"] = "restart" /\ deploy'["installer"] = "idle"
    <3>1. deploy[o] = "restart" /\ deploy' = [deploy EXCEPT ![o] = "idle"]
      BY <1>6 DEF RestartProxy
    <3>. QED BY <3>1 DEF Types
  <2>. QED BY <1>0, <2>1, <2>2, <2>3, RunningKept
       DEF RollbackInv, Ordered, Refreshed, Ending, AtMost, At
<1>. QED BY <1>1, <1>2, <1>3, <1>4, <1>5, <1>6 DEF Deploy

LEMMA BesideRollback ==
    ASSUME Types, RollbackInv,
           \/ Renewal \/ Serve \/ UNCHANGED vars
           \/ \E o \in Owners : DeployFails(o)
    PROVE  RollbackInv'
<1>1. /\ UNCHANGED <<file, pending, installer, backup, floor, outcome>>
      /\ lineage' = lineage \/ lineage' = lineage + 1
      /\ proxy' = proxy \/ Restarted \/ Handshake
      /\ deploy'["installer"] \in {deploy["installer"], "failed"}
  <2>1. CASE Renewal
    <3>1. UNCHANGED <<file, pending, installer, backup, floor, outcome>>
      BY <2>1 DEF Renewal, RenewalStarts, CertbotRenews, CertbotDoesNot, HookEnds, Reconcile,
                  ReconcileEnds, RenewalChecks, diskVars, runVars, history
    <3>2. lineage' = lineage \/ lineage' = lineage + 1
      BY <2>1 DEF Renewal, RenewalStarts, CertbotRenews, CertbotDoesNot, HookEnds, Reconcile,
                  ReconcileEnds, RenewalChecks, diskVars
    <3>3. proxy' = proxy \/ Restarted \/ Handshake
      BY <2>1 DEF Renewal, RenewalStarts, CertbotRenews, CertbotDoesNot, HookEnds, Reconcile,
                  ReconcileEnds, RenewalChecks, diskVars
    <3>4. deploy' = deploy \/ StartDeploy("renewal") \/ EndDeploy("renewal")
      BY <2>1 DEF Renewal, RenewalStarts, CertbotRenews, CertbotDoesNot, HookEnds, Reconcile,
                  ReconcileEnds, RenewalChecks
    <3>5. deploy'["installer"] = deploy["installer"]
      BY <3>4 DEF StartDeploy, EndDeploy, Types
    <3>. QED BY <3>1, <3>2, <3>3, <3>5
  <2>2. CASE Serve   BY <2>2 DEF Serve, runVars, history
  <2>3. CASE UNCHANGED vars   BY <2>3 DEF vars, diskVars, runVars, history
  <2>4. ASSUME NEW o \in Owners, DeployFails(o) PROVE <1>1
    BY <2>4 DEF DeployFails, diskVars, runVars, Types
  <2>. QED BY <2>1, <2>2, <2>3, <2>4
<1>2. Ordered'   BY <1>1, Certificates DEF RollbackInv, Ordered, AtMost
<1>3. Refreshed'   BY <1>1 DEF RollbackInv, Refreshed, AtMost, At
<1>. QED BY <1>1, <1>2, <1>3, RunningKept DEF RollbackInv, Ending

(* The steps of the update before a rollback. *)
LEMMA UpdateRollback ==
    ASSUME Types, RollbackInv, Update
    PROVE  RollbackInv'
<1>1. /\ installer'.pc \in {"idle"} \union Updating
      /\ installer'.pc # "idle" => outcome' = "none"
  <2>1. \A pc : Goto(pc) => installer'.pc = pc   BY DEF Goto, Types, Installers
  <2>2. Next1 => installer'.pc = installer.pc   BY DEF Next1, Types, Installers
  <2>3. CASE Start   BY <2>1, <2>3 DEF Start
  <2>4. CASE Snapshot
    BY <2>1, <2>2, <2>4 DEF Snapshot, RollbackInv, Ending, At, history
  <2>8. CASE States   BY <2>8, StatesRecorded DEF States, RollbackInv, Ending, At, history
  <2>5. CASE Replace
    BY <2>1, <2>2, <2>5 DEF Replace, RollbackInv, Ending, At, history
  <2>6. CASE Certonly \/ Hooked \/ StartProxy \/ Check
    BY <2>1, <2>6 DEF Certonly, Hooked, StartProxy, Check, RollbackInv, Ending, At, history
  <2>7. CASE Finish   BY <2>7 DEF Finish, Idle
  <2>. QED BY <2>3, <2>4, <2>5, <2>6, <2>7, <2>8 DEF Update
<1>2. /\ file'["cert"] = file["cert"] /\ pending' = pending /\ floor' = floor
      /\ lineage' = lineage \/ lineage' = lineage + 1
      /\ backup'["cert"] \in {backup["cert"], file["cert"]}
  <2>1. CASE Start \/ States \/ Hooked \/ StartProxy \/ Check \/ Finish
    BY <2>1 DEF Start, States, Hooked, StartProxy, Check, Finish, diskVars, history
  <2>2. CASE Snapshot
    <3>. installer \in Installers   BY DEF Types
    <3>1. UPDATE_PATHS[installer.at] \in Paths   BY DEF UPDATE_PATHS, Installers
    <3>2. PICK p \in Paths : backup' = [backup EXCEPT ![p] = file[p]]
      BY <2>2, <3>1 DEF Snapshot
    <3>. QED BY <2>2, <3>2 DEF Snapshot, Types, Tables, diskVars, history
  <2>3. CASE Replace
    <3>1. installer.at \in 1..4   BY <2>3 DEF Replace, At, Types, Installers
    <3>2. PICK p \in Software : \E v : file' = [file EXCEPT ![p] = v]
      BY <2>3, <3>1 DEF Replace, Replaced
    <3>. QED BY <2>3, <3>2 DEF Replace, Types, Tables, history
  <2>4. CASE Certonly   BY <2>4 DEF Certonly, Types, history
  <2>. QED BY <2>1, <2>2, <2>3, <2>4 DEF Update
<1>3. Ordered'   BY <1>2, Certificates DEF RollbackInv, Ordered, AtMost
<1>4. Refreshed' /\ Running'   BY <1>1 DEF Refreshed, Running, At
<1>. QED BY <1>1, <1>3, <1>4 DEF RollbackInv, Ending

(* The beginning of a rollback, and the end of a run without one. *)
LEMMA FaultRollback ==
    ASSUME Types, RollbackInv, UpdateFails \/ Kill \/ Hangup
    PROVE  RollbackInv'
<1>1. UNCHANGED <<file, pending, lineage, proxy, backup>> /\ floor' \in {floor, lineage}
  BY DEF UpdateFails, Fails, Kill, Hangup, diskVars
<1>2. \/ installer'.pc = "idle"
      \/ installer'.pc = "restore" /\ outcome' = outcome /\ installer.pc # "idle"
  <2>1. Idle.pc = "idle"   BY DEF Idle
  <2>2. Goto("restore") => installer'.pc = "restore"   BY DEF Goto, Types, Installers
  <2>. QED BY <2>1, <2>2 DEF UpdateFails, Fails, Kill, Hangup
<1>3. Ordered'   BY <1>1, Certificates DEF RollbackInv, Ordered, AtMost
<1>. QED BY <1>2, <1>3 DEF RollbackInv, Refreshed, Running, Ending, At

(* The rollback itself. *)
LEMMA RollbackRollback ==
    ASSUME Types, RollbackInv, Restored, Rollback
    PROVE  RollbackInv'
<1>1. CASE restore_update_path
  <2>1. UNCHANGED <<pending, lineage, backup, floor, outcome>> /\ installer.pc # "idle"
    BY <1>1 DEF restore_update_path
  <2>2. file'["cert"] \in {file["cert"], backup["cert"], Broken}
    <3>. installer \in Installers   BY DEF Types
    <3>1. PICK p \in Paths : p = UPDATE_PATHS[installer.at]   BY DEF UPDATE_PATHS, Installers
    <3>2. \/ file' = file \/ file' = [file EXCEPT ![p] = Broken]
          \/ file' = [file EXCEPT ![p] = backup[p]]
      BY <1>1, <3>1 DEF restore_update_path
    <3>. QED BY <3>2 DEF Types, Tables
  <2>3. /\ installer'.pc \in {"restore", "undo", "refresh", "clean"}
        /\ installer'.pc = "clean" => installer'.rollback_failed
    <3>1. CASE installer' = installer   BY <1>1, <3>1 DEF restore_update_path
    <3>2. ASSUME NEW failed \in BOOLEAN, Advance(failed) PROVE <2>3
      BY <1>1, <3>2 DEF restore_update_path, Advance, At, Restored
    <3>. QED BY <1>1, <3>1, <3>2 DEF restore_update_path
  <2>4. Ordered'   BY <2>1, <2>2, Certificates DEF RollbackInv, Ordered, AtMost
  <2>. QED BY <2>1, <2>3, <2>4 DEF RollbackInv, Refreshed, Running, Ending, At
<1>2. \A pc : Goto(pc) => /\ installer'.pc = pc
                          /\ installer'.rollback_failed = installer.rollback_failed
  BY DEF Goto, Types, Installers
<1>3. CASE Refresh
  <2>1. UNCHANGED <<file, pending, lineage, backup, floor, outcome>> /\ installer.pc # "idle"
    BY <1>3 DEF Refresh, diskVars, history, At
  <2>2. \/ installer'.pc = "clean" /\ file["cert"] = lineage
        \/ installer'.pc = "refreshing" /\ deploy'["installer"] = "copyCert"
    BY <1>2, <1>3 DEF Refresh, InSync, StartDeploy, Types
  <2>. QED BY <2>1, <2>2, Certificates
       DEF RollbackInv, Ordered, Refreshed, Running, Ending, AtMost, At
<1>4. CASE RefreshEnds
  <2>1. UNCHANGED <<file, pending, lineage, backup, floor, outcome>> /\ At("refreshing")
    BY <1>4 DEF RefreshEnds, diskVars, history
  <2>2. \/ installer'.pc = "clean" /\ deploy["installer"] = "idle"
        \/ installer'.pc = "undo" /\ installer'.rollback_failed
    BY <1>2, <1>4 DEF RefreshEnds
  <2>. QED BY <2>1, <2>2 DEF RollbackInv, Ordered, Refreshed, Running, Ending, AtMost, At
<1>5. CASE Clean
  <2>1. /\ UNCHANGED <<file, lineage, backup, floor, outcome>> /\ pending'["cert"] = Broken
        /\ At("clean") /\ installer'.pc = "units"
        /\ installer'.rollback_failed = installer.rollback_failed
    BY <1>2, <1>5 DEF Clean, history
  <2>. QED BY <2>1, Certificates
       DEF RollbackInv, Ordered, Refreshed, Running, Ending, AtMost, At
<1>6. CASE RestoreUnits
  <2>1. UNCHANGED <<file, pending, lineage, backup, floor, outcome>> /\ At("units")
    BY <1>6 DEF RestoreUnits
  <2>2. /\ installer'.pc = "check"
        /\ \/ installer'.rollback_failed
           \/ /\ installer'.rollback_failed = installer.rollback_failed
              /\ Restarted \/ proxy' = NoProcess(TRUE)
    BY <1>2, <1>6 DEF RestoreUnits, Types, Installers
  <2>3. (Restarted \/ proxy' = NoProcess(TRUE)) /\ proxy'.up => proxy'.of = file["binary"]
    BY DEF Restarted, NoProcess, Types
  <2>. QED BY <2>1, <2>2, <2>3 DEF RollbackInv, Ordered, Refreshed, Running, Ending, AtMost, At
<1>7. CASE CheckRollback
  <2>1. UNCHANGED <<file, pending, lineage, backup, floor>> /\ installer'.pc = "idle"
    BY <1>7 DEF CheckRollback, LastCheck, Idle
  <2>. QED BY <2>1 DEF RollbackInv, Ordered, Refreshed, Running, Ending, AtMost, At
<1>. QED BY <1>1, <1>3, <1>4, <1>5, <1>6, <1>7 DEF Rollback

LEMMA RollbackInvariant == Spec => [](InstallerInv /\ RollbackInv)
<1>1. Init => RollbackInv
  <2>. SUFFICES ASSUME Init PROVE RollbackInv   OBVIOUS
  <2>1. /\ file["cert"] = 1 /\ backup["cert"] = 1 /\ pending["cert"] = Broken
        /\ lineage = 1 /\ floor = 1 /\ installer.pc = "idle"
    BY DEF Init, Idle
  <2>. QED BY <2>1 DEF RollbackInv, Ordered, Refreshed, Running, Ending, AtMost, At
<1>2. InstallerInv /\ RollbackInv /\ [Next]_vars => RollbackInv'
  BY DeployRollback, BesideRollback, UpdateRollback, FaultRollback, RollbackRollback
  DEF InstallerInv, Next, Faults
<1>. QED BY <1>1, <1>2, InstallerInvariant, PTL DEF Spec

(* "Previous installation restored" is said of a whole rollback only: every path of    *)
(* the software is what it was when the run began, the certificate in the files is no  *)
(* older than the lineage's when the update failed, and a running proxy is of that     *)
(* binary, although the renewal service works on the same files and restarts it        *)
(* meanwhile; if it was active when the run began, it runs with that certificate.      *)
THEOREM InstallerRestores == Spec => RestoredMeansPrevious
<1>1. InstallerInv /\ RollbackInv /\ [Next]_vars =>
        [At("check") /\ outcome' = "restored" =>
            /\ SoftwareOf(file) = SoftwareOf(backup)
            /\ file["cert"] >= floor
            /\ proxy'.up => proxy'.of = backup["binary"]
            /\ installer.active => proxy'.up /\ proxy'.cert = file["cert"]]_vars
  <2>. SUFFICES ASSUME InstallerInv, RollbackInv, Next, At("check"), outcome' = "restored"
                PROVE  /\ SoftwareOf(file) = SoftwareOf(backup)
                       /\ file["cert"] >= floor
                       /\ proxy'.up => proxy'.of = backup["binary"]
                       /\ installer.active => proxy'.up /\ proxy'.cert = file["cert"]
    OBVIOUS
  <2>1. outcome # "restored"   BY DEF RollbackInv, Ending, At
  <2>2. LastCheck
    <3>1. ~Renewal /\ ~Serve /\ \A o \in Owners : ~Deploy(o) /\ ~DeployFails(o)
      BY <2>1 DEF Renewal, Serve, Deploy, DeployFails, history
    <3>2. ~Update
      BY <2>1 DEF Update, Start, Snapshot, States, Replace, Certonly, Hooked, StartProxy,
                  Check, Finish, At, history
    <3>3. ~UpdateFails /\ ~Kill /\ ~Hangup
      BY <2>1 DEF UpdateFails, Fails, Kill, Hangup, At
    <3>4. Rollback => CheckRollback
      BY <2>1 DEF Rollback, restore_update_path, Refresh, RefreshEnds, Clean, RestoreUnits,
                  At, history
    <3>. QED BY <3>1, <3>2, <3>3, <3>4 DEF Next, Faults, CheckRollback
  <2>3. ~installer.rollback_failed /\ (installer.active => Healthy)
    BY <2>2 DEF LastCheck, Complete
  <2>4. SoftwareOf(file) = SoftwareOf(backup) /\ file["binary"] = backup["binary"]
    BY <2>3 DEF InstallerInv, Restored, At, SoftwareOf
  <2>5. installer.active => proxy'.up /\ proxy'.cert = file["cert"]
    <3>1. installer.active => Healthy /\ Handshake   BY <2>2, <2>3 DEF LastCheck
    <3>. QED BY <3>1 DEF Healthy, Handshake, InstallerInv, Types
  <2>6. proxy'.up => proxy'.of = backup["binary"]
    <3>1. proxy.up => proxy.of = file["binary"]   BY <2>3 DEF RollbackInv, Running
    <3>2. proxy' = proxy \/ Handshake   BY <2>2 DEF LastCheck
    <3>3. proxy'.up = proxy.up /\ proxy'.of = proxy.of
      BY <3>2 DEF Handshake, InstallerInv, Types
    <3>. QED BY <2>4, <3>1, <3>3
  <2>7. floor <= file["cert"]   BY <2>3 DEF RollbackInv, Refreshed, At
  <2>8. floor \in Int /\ file["cert"] \in Int   BY Certificates DEF InstallerInv
  <2>. QED BY <2>4, <2>5, <2>6, <2>7, <2>8
<1>. QED BY <1>1, RollbackInvariant, PTL DEF Spec, RestoredMeansPrevious

==============================================================================
