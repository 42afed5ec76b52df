------------------------------ MODULE Installer ------------------------------
(***************************************************************************)
(* Updating a complete Ubuntu installation (src/installer/install.sh, 349   *)
(* on) while the renewal service runs (renew.sh, deploy-hook.sh).           *)
(*                                                                         *)
(* A path holds a version of the software (the number of the run that wrote *)
(* it, 0 for the one in place at first), the TLS paths the number of a      *)
(* certificate.  Every command can fail, the installer can be killed or hung *)
(* up between any two, and the renewal service takes its steps between its  *)
(* own.  Faults are counted and bounded.                                    *)
(***************************************************************************)
EXTENDS Integers, Sequences

CONSTANTS
    MaxRuns,        \* runs of the installer
    MaxCert,        \* certificates the authority issues
    MaxFaults       \* failing commands, kills and hangups together

ASSUME InstallerAssumption ==
    MaxRuns \in Nat \ {0} /\ MaxCert \in Nat \ {0} /\ MaxFaults \in Nat

Broken == -1        \* a path that is missing or half written

Replaced == <<"config", "binary", "scripts", "units">>      \* in the order of 467-575
UPDATE_PATHS == <<"binary", "config", "cert", "key", "units", "scripts">>

Software == {"config", "binary", "scripts", "units"}
Tls == {"cert", "key"}
Paths == Software \union Tls

Owners == {"installer", "renewal"}

VARIABLES
    file,           \* what each path holds
    pending,        \* the two .new files of tls/
    lineage,        \* the certificate in Certbot's lineage
    proxy,          \* the proxy unit: its process, the binary and the pair it has
    run, installer, \* the installer: its run and where it is
    backup,         \* UPDATE_BACKUP of this run
    snapshots,      \* the complete snapshots on the disk
    deploy,         \* deploy-hook.sh or refresh_rollback_tls, by who runs it
    renewal,        \* renew.sh: where it is
    outcome, floor, \* history: how the run ended; the lineage when it failed
    faults, hungUp  \* history

diskVars == <<file, pending, lineage, proxy>>
runVars == <<run, installer, backup, snapshots>>
history == <<outcome, floor, faults, hungUp>>
vars == <<diskVars, runVars, deploy, renewal, history>>

Saving == {"snapshot", "states"}        \* UPDATE_READY is not set yet
Updating == Saving \union
            {"replace", "certonly", "hook", "restart", "health", "dryrun", "dryhook",
             "health2", "finish"}
RollingBack == {"restore", "refresh", "refreshing", "undo", "clean", "units", "check"}

Values(p) == Broken..(IF p \in Tls THEN MaxCert ELSE MaxRuns)

TypeOK ==
    /\ DOMAIN file = Paths /\ \A p \in Paths : file[p] \in Values(p)
    /\ pending \in [Tls -> Broken..MaxCert]
    /\ lineage \in 1..MaxCert
    /\ proxy \in [up : BOOLEAN, stopped : BOOLEAN, of : 0..MaxRuns, cert : 1..MaxCert]
    /\ run \in 0..MaxRuns
    /\ installer \in [pc : {"idle"} \union Updating \union RollingBack,
                      at : 1..Len(UPDATE_PATHS), rollback_failed : BOOLEAN,
                      active : BOOLEAN]
    /\ DOMAIN backup = Paths /\ \A p \in Paths : backup[p] \in Values(p)
    /\ \A s \in snapshots : s \in [Software -> Broken..MaxRuns]
    /\ deploy \in [Owners -> {"idle", "copyCert", "copyKey", "mvCert", "mvKey",
                              "restart", "failed"}]
    /\ renewal \in {"idle", "certbot", "hooking", "reconcile", "deploying", "checkChanged",
                    "check", "recheck"}
    /\ outcome \in {"none", "complete", "failed", "restored", "incomplete", "killed", "hungUp"}
    /\ floor \in 1..MaxCert
    /\ faults \in 0..MaxFaults
    /\ hungUp \in BOOLEAN

Idle == [pc |-> "idle", at |-> 1, rollback_failed |-> FALSE, active |-> FALSE]

\* the unit without a process: stopped by the operator or the rollback, or failed
NoProcess(stopped) == [up |-> FALSE, stopped |-> stopped, of |-> 0, cert |-> 1]

Init ==
    /\ file = [p \in Paths |-> IF p \in Tls THEN 1 ELSE 0]
    /\ pending = [p \in Tls |-> Broken]
    /\ lineage = 1
    /\ proxy \in {[up |-> TRUE, stopped |-> FALSE, of |-> 0, cert |-> 1], NoProcess(TRUE)}
    /\ run = 0 /\ installer = Idle
    /\ backup = file /\ snapshots = {}
    /\ deploy = [o \in Owners |-> "idle"]
    /\ renewal = "idle"
    /\ outcome = "none" /\ floor = 1
    /\ faults = 0 /\ hungUp = FALSE

-----------------------------------------------------------------------------
SoftwareOf(f) == [p \in Software |-> f[p]]

At(pc) == installer.pc = pc
Goto(pc) == installer' = [installer EXCEPT !.pc = pc, !.at = 1]
Next1 == installer' = [installer EXCEPT !.at = @ + 1]

Fault == faults < MaxFaults /\ faults' = faults + 1
NoFault == UNCHANGED <<faults, hungUp>>

PairInPlace == file["cert"] = file["key"] /\ file["cert"] # Broken

(* systemctl restart returns when the process has started; with a pair that does   *)
(* not match, or without its binary or unit, the process ends at once.  A unit that *)
(* was stopped is started too.                                                      *)
Restarted ==
    proxy' = IF PairInPlace /\ file["binary"] # Broken /\ file["units"] # Broken
             THEN [up |-> TRUE, stopped |-> FALSE,
                   of |-> file["binary"], cert |-> file["cert"]]
             ELSE NoProcess(FALSE)

(* healthcheck.py: the proxy's next handshake reloads a matching pair, and what it  *)
(* presents must be the installed certificate.                                      *)
Healthy ==
    /\ proxy.up /\ file["config"] # Broken
    /\ PairInPlace \/ proxy.cert = file["cert"]
Handshake == proxy' = [proxy EXCEPT !.cert = IF PairInPlace THEN file["cert"] ELSE @]

(* The process reloads at any handshake; systemd restarts one that ended (after 5 s) *)
(* but none that was stopped.                                                        *)
Serve ==
    /\ IF proxy.up THEN Handshake ELSE ~proxy.stopped /\ Restarted
    /\ proxy' # proxy
    /\ UNCHANGED <<file, pending, lineage, runVars, deploy, renewal, history>>

-----------------------------------------------------------------------------
(* deploy-hook.sh, lines 29-44, and refresh_rollback_tls, lines 400-403: the same   *)
(* four commands on the same two .new files, whoever runs them.                     *)

Copy(o, p) ==
    /\ deploy[o] = IF p = "cert" THEN "copyCert" ELSE "copyKey"
    /\ pending' = [pending EXCEPT ![p] = lineage]
    /\ deploy' = [deploy EXCEPT ![o] = IF p = "cert" THEN "copyKey" ELSE "mvCert"]
    /\ UNCHANGED <<file, proxy>>

Move(o, p) ==
    /\ deploy[o] = IF p = "cert" THEN "mvCert" ELSE "mvKey"
    /\ IF pending[p] = Broken
       THEN /\ deploy' = [deploy EXCEPT ![o] = "failed"]
            /\ UNCHANGED <<file, pending>>
       ELSE /\ file' = [file EXCEPT ![p] = pending[p]]
            /\ pending' = [pending EXCEPT ![p] = Broken]
            /\ deploy' = [deploy EXCEPT ![o] =
                  CASE p = "cert" -> "mvKey"
                    [] p = "key" /\ o = "installer" /\ At("refreshing") -> "idle"
                    [] OTHER -> "restart"]
    /\ UNCHANGED proxy

(* A hook restarts an active proxy only, a reconciliation always. *)
RestartProxy(o) ==
    /\ deploy[o] = "restart"
    /\ IF proxy.up \/ (o = "renewal" /\ renewal = "deploying")
       THEN Restarted ELSE UNCHANGED proxy
    /\ deploy' = [deploy EXCEPT ![o] = "idle"]
    /\ UNCHANGED <<file, pending>>

Deploy(o) ==
    /\ (\E p \in Tls : Copy(o, p) \/ Move(o, p)) \/ RestartProxy(o)
    /\ UNCHANGED <<lineage, runVars, renewal, history>>

DeployFails(o) ==
    /\ deploy[o] \notin {"idle", "failed"} /\ Fault
    /\ deploy' = [deploy EXCEPT ![o] = "failed"]
    /\ UNCHANGED <<diskVars, runVars, renewal, outcome, floor, hungUp>>

StartDeploy(o) == deploy' = [deploy EXCEPT ![o] = "copyCert"]
EndDeploy(o) == deploy' = [deploy EXCEPT ![o] = "idle"]

-----------------------------------------------------------------------------
(* renew.sh. *)

Renew(from, to) == renewal = from /\ renewal' = to

InSync == file["cert"] = lineage /\ file["key"] = lineage

RenewalStarts ==
    /\ Renew("idle", "certbot")
    /\ file["scripts"] # Broken /\ file["units"] # Broken
    /\ UNCHANGED <<diskVars, deploy>>

(* Certbot renews and runs the hook, unless the installer's Certbot holds its lock. *)
CertbotRenews ==
    /\ Renew("certbot", "hooking")
    /\ ~At("dryhook")
    /\ lineage < MaxCert /\ lineage' = lineage + 1
    /\ StartDeploy("renewal")
    /\ UNCHANGED <<file, pending, proxy>>

EndWithoutReconcile == \* mutant: a renewal that was not due ends the service
    Renew("certbot", "idle") /\ UNCHANGED <<diskVars, deploy>>

(* Nothing is due, or Certbot fails. *)
CertbotDoesNot == Renew("certbot", "reconcile") /\ UNCHANGED <<diskVars, deploy>>

(* Certbot does not report that its hook failed. *)
HookEnds ==
    /\ Renew("hooking", "reconcile") /\ deploy["renewal"] \in {"idle", "failed"}
    /\ EndDeploy("renewal")
    /\ UNCHANGED diskVars

(* deploy-hook.sh --reconcile *)
Reconcile ==
    /\ \/ InSync /\ Renew("reconcile", "check") /\ UNCHANGED deploy
       \/ ~InSync /\ Renew("reconcile", "deploying") /\ StartDeploy("renewal")
    /\ UNCHANGED diskVars

ReconcileEnds ==
    /\ \/ deploy["renewal"] = "idle" /\ Renew("deploying", "checkChanged")
       \/ deploy["renewal"] = "failed" /\ Renew("deploying", "idle")
    /\ EndDeploy("renewal")
    /\ UNCHANGED diskVars

(* After a change a failing check ends the run; files that matched before get one   *)
(* restart and one more check.  A failed run is repeated by systemd or by the timer. *)
RenewalChecks ==
    /\ \/ Healthy /\ renewal \in {"check", "checkChanged", "recheck"} /\ renewal' = "idle"
          /\ Handshake
       \/ ~Healthy /\ renewal \in {"checkChanged", "recheck"} /\ renewal' = "idle"
          /\ UNCHANGED proxy
       \/ ~Healthy /\ Renew("check", "recheck") /\ Restarted
    /\ UNCHANGED <<file, pending, lineage, deploy>>

Renewal ==
    /\ \/ RenewalStarts \/ CertbotRenews \/ CertbotDoesNot \/ HookEnds
       \/ Reconcile \/ ReconcileEnds \/ RenewalChecks
    /\ UNCHANGED <<runVars, history>>

-----------------------------------------------------------------------------
(* install.sh: the update. *)

(* Bound: after a run that ended with a whole installation another one would only   *)
(* repeat the first; the further runs are those on what an unfinished one left.     *)
Unfinished == outcome \in {"incomplete", "killed", "hungUp"}

Start ==
    /\ At("idle") /\ run < MaxRuns /\ (run = 0 \/ Unfinished)
    /\ run' = run + 1 /\ Goto("snapshot")
    /\ outcome' = "none"
    /\ UNCHANGED <<diskVars, backup, snapshots, deploy, renewal, floor, faults, hungUp>>

Snapshot ==
    /\ At("snapshot")
    /\ LET p == UPDATE_PATHS[installer.at]
       IN  backup' = [backup EXCEPT ![p] = file[p]]
    /\ IF installer.at < Len(UPDATE_PATHS)
       THEN Next1 /\ UNCHANGED snapshots
       ELSE Goto("states") /\ UNCHANGED snapshots
    /\ UNCHANGED <<diskVars, run, deploy, renewal, history>>

(* UPDATE_ACTIVE: a process that ends again and again is active at moments only.     *)
(* With UPDATE_READY set, the snapshot counts as complete.                           *)
States ==
    /\ At("states")
    /\ \E active \in IF proxy.up \/ proxy.stopped THEN {proxy.up} ELSE BOOLEAN :
          installer' = [installer EXCEPT !.pc = "replace", !.at = 1, !.active = active]
    /\ snapshots' = snapshots \union {SoftwareOf(backup)}
    /\ UNCHANGED <<diskVars, run, backup, deploy, renewal, history>>

(* The config and the binary are moved into place; the others are written there.    *)
Replace ==
    /\ At("replace")
    /\ LET p == Replaced[installer.at]
       IN  IF p \in {"config", "binary"} \/ file[p] = Broken
           THEN /\ file' = [file EXCEPT ![p] = run]
                /\ IF installer.at < Len(Replaced) THEN Next1 ELSE Goto("certonly")
           ELSE file' = [file EXCEPT ![p] = Broken] /\ UNCHANGED installer
    /\ UNCHANGED <<pending, lineage, proxy, run, backup, snapshots, deploy, renewal, history>>

(* Certbot issues when the certificate is about to expire; the hook follows in any  *)
(* case.  The dry run leaves the lineage as it is.                                   *)
Certonly ==
    /\ \/ At("certonly") /\ renewal # "hooking" /\ Goto("hook")
          /\ lineage' \in {lineage, lineage + 1} /\ lineage' <= MaxCert
       \/ At("dryrun") /\ renewal # "hooking" /\ Goto("dryhook") /\ UNCHANGED lineage
    /\ StartDeploy("installer")
    /\ UNCHANGED <<file, pending, proxy, run, backup, snapshots, renewal, history>>

Hooked ==
    /\ deploy["installer"] = "idle"
    /\ (At("hook") /\ Goto("restart")) \/ (At("dryhook") /\ Goto("health2"))
    /\ UNCHANGED <<diskVars, run, backup, snapshots, deploy, renewal, history>>

StartProxy ==
    /\ At("restart") /\ Goto("health")
    /\ Restarted
    /\ UNCHANGED <<file, pending, lineage, run, backup, snapshots, deploy, renewal, history>>

Check ==
    /\ Healthy /\ Handshake
    /\ (At("health") /\ Goto("dryrun")) \/ (At("health2") /\ Goto("finish"))
    /\ UNCHANGED <<file, pending, lineage, run, backup, snapshots, deploy, renewal, history>>

(* The key is shown, UPDATE_COMPLETE is set and the trap removes the snapshot. *)
Finish ==
    /\ At("finish") /\ installer' = Idle
    /\ snapshots' = snapshots \ {SoftwareOf(backup)}
    /\ outcome' = "complete"
    /\ UNCHANGED <<diskVars, run, backup, deploy, renewal, floor, faults, hungUp>>

-----------------------------------------------------------------------------
(* install.sh: the EXIT trap. *)

Fails ==
    /\ IF installer.pc \in Saving
       THEN installer' = Idle /\ outcome' = "failed"
       ELSE Goto("restore") /\ UNCHANGED outcome
    /\ floor' = lineage
    /\ EndDeploy("installer")
    /\ UNCHANGED <<diskVars, run, backup, snapshots, renewal>>

(* A command fails, or a failing check, hook or lock of Certbot makes one fail.     *)
UpdateFails ==
    /\ installer.pc \in Updating
    /\ \/ Fault /\ UNCHANGED hungUp
       \/ /\ NoFault
          /\ \/ installer.pc \in {"health", "health2"} /\ ~Healthy
             \/ deploy["installer"] = "failed"
             \/ installer.pc \in {"certonly", "dryrun"} /\ renewal = "hooking"
    /\ Fails

AdvanceOn(failed) == \* mutant: the index is not reset after the loop
    installer' =
        [pc |-> IF At("restore") /\ installer.at = Len(UPDATE_PATHS) THEN "refresh"
                ELSE installer.pc,
         at |-> installer.at + 1,
         rollback_failed |-> installer.rollback_failed \/ failed,
         active |-> installer.active]

(* The loop over UPDATE_PATHS, and the two TLS paths alone after a failed refresh.   *)
Advance(failed) ==
    installer' =
        [pc |-> CASE At("restore") /\ installer.at = Len(UPDATE_PATHS) -> "refresh"
                  [] At("undo") /\ UPDATE_PATHS[installer.at] = "key" -> "clean"
                  [] OTHER -> installer.pc,
         at |-> IF installer.at = Len(UPDATE_PATHS) THEN 1 ELSE installer.at + 1,
         rollback_failed |-> installer.rollback_failed \/ failed,
         active |-> installer.active]

(* restore_update_path: the binary is moved into place, the others are removed and  *)
(* copied.                                                                           *)
restore_update_path ==
    /\ installer.pc \in {"restore", "undo"}
    /\ LET p == UPDATE_PATHS[installer.at]
       IN  \/ /\ p # "binary" /\ file[p] # Broken
              /\ file' = [file EXCEPT ![p] = Broken]
              /\ UNCHANGED <<installer, faults>>
           \/ /\ p = "binary" \/ file[p] = Broken
              /\ \/ file' = [file EXCEPT ![p] = backup[p]]
                    /\ Advance(FALSE) /\ UNCHANGED faults
                 \/ Advance(TRUE) /\ Fault /\ UNCHANGED file
    /\ UNCHANGED <<pending, lineage, proxy, run, backup, snapshots, deploy, renewal, outcome,
                   floor, hungUp>>

RefreshNot == \* mutant: the restored pair is kept, old or not
    /\ At("refresh") /\ Goto("clean")
    /\ UNCHANGED <<diskVars, run, backup, snapshots, deploy, renewal, history>>

(* refresh_rollback_tls: the restored pair may be older than the lineage. *)
Refresh ==
    /\ At("refresh")
    /\ \/ InSync /\ Goto("clean") /\ UNCHANGED deploy
       \/ ~InSync /\ Goto("refreshing") /\ StartDeploy("installer")
    /\ UNCHANGED <<diskVars, run, backup, snapshots, renewal, history>>

RefreshEnds ==
    /\ At("refreshing")
    /\ \/ deploy["installer"] = "idle" /\ Goto("clean")
       \/ /\ deploy["installer"] = "failed"
          /\ installer' = [pc |-> "undo", at |-> 3, rollback_failed |-> TRUE,
                            active |-> installer.active]
    /\ EndDeploy("installer")
    /\ UNCHANGED <<diskVars, run, backup, snapshots, renewal, history>>

(* Both .new files are removed, whoever wrote them. *)
Clean ==
    /\ At("clean") /\ Goto("units")
    /\ pending' = [p \in Tls |-> Broken]
    /\ UNCHANGED <<file, lineage, proxy, run, backup, snapshots, deploy, renewal, history>>

(* daemon-reload and restore_unit_state for the proxy, whose state is what it was    *)
(* at the snapshot.                                                                  *)
RestoreUnits ==
    /\ At("units")
    /\ \/ Goto("check") /\ UNCHANGED faults
          /\ IF installer.active THEN Restarted ELSE proxy' = NoProcess(TRUE)
       \/ /\ installer' = [installer EXCEPT !.pc = "check", !.rollback_failed = TRUE]
          /\ Fault /\ UNCHANGED proxy
    /\ UNCHANGED <<file, pending, lineage, run, backup, snapshots, deploy, renewal, outcome,
                   floor, hungUp>>

(* The last check, of a proxy that was active: the rollback is complete when it      *)
(* passes and no command has failed.                                                 *)
Complete ==
    /\ ~installer.rollback_failed
    /\ installer.active => Healthy /\ file["scripts"] # Broken
LastCheck ==
    /\ At("check") /\ installer' = Idle
    /\ outcome' = IF Complete THEN "restored" ELSE "incomplete"
    /\ IF installer.active /\ Healthy THEN Handshake ELSE UNCHANGED proxy
    /\ UNCHANGED <<file, pending, lineage, run, backup, deploy, renewal, floor, faults, hungUp>>

CheckForgets == \* mutant: the snapshot is removed after a failed rollback too
    LastCheck /\ snapshots' = snapshots \ {SoftwareOf(backup)}

(* The snapshot is retained when anything went wrong. *)
CheckRollback ==
    /\ LastCheck
    /\ snapshots' = IF Complete THEN snapshots \ {SoftwareOf(backup)} ELSE snapshots

(* The machine stops, or the shell is killed: no trap runs. *)
Kill ==
    /\ installer.pc # "idle" /\ Fault
    /\ installer' = Idle /\ outcome' = "killed"
    /\ EndDeploy("installer")
    /\ UNCHANGED <<diskVars, run, backup, snapshots, renewal, floor, hungUp>>

(* The terminal goes away during the update: the trap sees the status of the command *)
(* before the signal, zero, and removes the snapshot without restoring anything.     *)
Hangup ==
    /\ installer.pc \in Updating /\ Fault
    /\ installer' = Idle /\ outcome' = "hungUp"
    /\ hungUp' = (hungUp \/ installer.pc \notin Saving)
    /\ snapshots' = IF installer.pc \in Saving THEN snapshots ELSE snapshots \ {SoftwareOf(backup)}
    /\ EndDeploy("installer")
    /\ UNCHANGED <<diskVars, run, backup, renewal, floor>>

Update == Start \/ Snapshot \/ States \/ Replace \/ Certonly \/ Hooked \/ StartProxy \/ Check \/ Finish
Rollback == restore_update_path \/ Refresh \/ RefreshEnds \/ Clean \/ RestoreUnits \/ CheckRollback
Faults == UpdateFails \/ Kill \/ Hangup \/ \E o \in Owners : DeployFails(o)

Next == Update \/ Rollback \/ Faults \/ Renewal \/ Serve \/ \E o \in Owners : Deploy(o)

Spec == Init /\ [][Next]_vars

(* The timer and systemd repeat the renewal service, its commands end, the proxy is *)
(* restarted when it ended, and browsers connect to it.                             *)
FairSpec ==
    /\ Spec
    /\ WF_vars(Renewal) /\ WF_vars(Deploy("renewal")) /\ WF_vars(Serve)

-----------------------------------------------------------------------------
Whole(s) == \A p \in Software : s[p] # Broken /\ s[p] = s["binary"]

(* At every moment, so also when the machine stops there, an installation that is a  *)
(* mixture of versions, or lacks a path, has a complete snapshot of one version on   *)
(* the disk: through failures of the update and of its rollback, kills, and further  *)
(* runs on what they left.  A run that was hung up forfeits this.                    *)
MixtureHasSnapshot ==
    ~Whole(file) /\ ~hungUp => \E s \in snapshots : Whole(s)

(* "Previous installation restored": every path of the software is what it was when  *)
(* the run began, the certificate in the files is none older than the lineage's when *)
(* the update failed, and a proxy that runs is of the restored binary -- though the  *)
(* renewal service writes and moves the same .new files and restarts the proxy        *)
(* meanwhile.  If the proxy was active when the run began, it runs and presents the   *)
(* certificate in the files; otherwise nothing is said of whether it runs.            *)
RestoredMeansPrevious ==
    [][At("check") /\ outcome' = "restored" =>
          /\ SoftwareOf(file) = SoftwareOf(backup)
          /\ file["cert"] >= floor
          /\ proxy'.up => proxy'.of = backup["binary"]
          /\ installer.active => proxy'.up /\ proxy'.cert = file["cert"]]_vars

(* A certificate in the lineage is deployed and served in the end, whatever an       *)
(* update, its rollback and a failed or interrupted hook did to the two files, once  *)
(* the installer is over and the paths are there.                                     *)
LineageIsDeployed ==
    \A c \in 1..MaxCert :
        <>[](/\ lineage = c /\ At("idle")
             /\ \A p \in Software : file[p] # Broken)
            => <>[](/\ file["cert"] = c /\ file["key"] = c
                    /\ proxy.up /\ proxy.cert = c)
=============================================================================
