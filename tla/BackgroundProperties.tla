------------------------ MODULE BackgroundProperties ------------------------
(***************************************************************************)
(* What the service worker of module Background must guarantee.            *)
(***************************************************************************)
EXTENDS Background

\* Every variable keeps its type, and exclusive() marks exactly the time in
\* which one of its tasks runs.
TypeOK ==
  /\ BrowserTypeOK
  /\ awake \in BOOLEAN
  /\ pc \in [Threads -> Labels]
  /\ loc \in [Threads -> LocalRecords]
  /\ queue \in Seq(TaskRecords) /\ waiting \in Seq(TaskRecords)
  /\ configurationChanging \in BOOLEAN
  /\ configurationEpoch \in Nat /\ proxyErrorEpoch \in Nat /\ browserSettingEpoch \in Nat
  /\ restoreAfterIncognitoTakeover \in BOOLEAN
  /\ ownProxyClearedForConflict \in BOOLEAN
  /\ auth \in [Requests -> AuthRecords]
  /\ authAttempts \subseteq Requests
  /\ test \in [Tests -> TestRecords]
  /\ budget \in [Events -> Nat]
  /\ configurationChanging <=> pc["op"] # "idle"

\* The worker has nothing left to do and Chrome has nothing left to tell it.
rest == booted /\ pc["op"] = "idle" /\ queue = <<>> /\ notices = {}
\* ... and no Chrome call was rejected, which leaves its effect out.
calm == rest /\ budget["failure"] = Budget["failure"]

\* Disconnecting clears both of the extension's settings (docs/usage.md:21),
\* even if the worker is killed half-way and boot has to finish the job.
OffMeansCleared == calm /\ ~storage.enabled => proxyPref = None /\ ~rtcPref

\* What Chrome was told is what is stored: no command, roll-back of exclusions,
\* conflict or restart leaves a PAC of other exclusions or of another server.
RestingProxyIsConfigured ==
  calm /\ proxyPref # None => storage.enabled /\ proxyPref = ConfiguredPac(storage)

\* "A stored PAC must never remain active if WebRTC cannot be restricted":
\* losing WebRTC in any enabled context takes the extension's PAC down.
RestingProxyNeedsWebRTC ==
  calm /\ proxyPref # None => webRTCIsRestrictedInAllEnabledContexts

\* Losing the incognito route takes the PAC down too, so that it cannot come
\* back for regular windows alone (docs/architecture.md:31).  The code does not
\* keep this: saveExclusions may put the PAC back and leave the note that it was
\* taken down.
IncognitoConflictCleared ==
  calm /\ storage.enabled /\ <<"proxy", "incognito">> \in taken => proxyPref = None

\* What it does keep: no change of the incognito route, however it falls between the
\* steps of commands, restarts and reconciliations, stays unhandled with the PAC
\* installed, unless the note says that the PAC was taken down before.
IncognitoConflictHandled ==
  calm /\ ~ownProxyClearedForConflict => IncognitoConflictCleared

\* The badge shows the status: after all events are handled there is no stale
\* ON and no stale "!".
BadgeShowsStatus == calm => badge = BadgeOf(status)

\* At every single step, whatever was killed or rejected, the extension's
\* own PAC names the server of the stored key and nothing is enabled without
\* a key: importKey and forget never swap the key under an installed PAC.
AppliedServerIsStored ==
  /\ storage.enabled => storage.connection # None
  /\ proxyPref # None => /\ storage.connection # None
                         /\ proxyPref.server = ServerOf[storage.connection]

Grants(r) == auth[r].pc = "decide" /\ auth'[r].pc = "granted"

\* A username and password leave the worker only while the configuration they
\* come from is still the stored one, enabled, and no task is changing it:
\* storage read before the awaits of onAuthRequired is not stale at the end.
CredentialsAreCurrent ==
  [][\A r \in Requests : Grants(r) =>
       /\ ~configurationChanging
       /\ storage.enabled
       /\ storage.connection = auth[r].data.connection
       /\ storage.exclusions = auth[r].data.exclusions
       /\ ServerOf[storage.connection] = auth[r].server]_vars

\* They leave only if, in the context of the request, Chrome used exactly the
\* stored PAC and the WebRTC policy, or is about to report that this changed.
CredentialsUnderOwnSettings ==
  [][\A r \in Requests : Grants(r) =>
       LET c == auth[r].context IN
       /\ "proxy" \in notices \/ isEffectiveProxySetting(c, ConfiguredPac(storage))
       /\ "rtc" \in notices \/ webRTCIsRestricted(c)]_vars

Shows(t) == test[t].pc = "last" /\ test'[t].pc = "ok"

\* An IP that is shown was observed under one configuration: the key, the
\* exclusions and the enabled flag are those of the status after the answer,
\* and if the check started from an error, no error is left in the storage.
ShownIpIsOfThisConnection ==
  [][\A t \in Tests : Shows(t) =>
       /\ storage.enabled /\ storage.connection # None
       /\ storage.connection = test[t].data.connection
       /\ storage.exclusions = test[t].data.exclusions
       /\ test[t].error # None => storage.proxyError = None]_vars

Answers(t) == test[t].pc = "fetch" /\ test'[t].pc = "look2"
IpifyIsProxied == /\ proxyPref # None /\ proxyPref.exclusions \notin TestExcluded
                  /\ <<"proxy", "regular">> \notin taken

\* An IP that is shown is the proxy's: when api.ipify.org answers and until the IP is
\* shown, Chrome sends the request through a PAC that does not exclude it, or is about
\* to report a change of the setting.  A change that it has reported since the check
\* began leaves the answer unshown.
ShownIpWasProxied ==
  [][\A t \in Tests :
       /\ Answers(t) => \/ "proxy" \in notices \/ IpifyIsProxied
                        \/ browserSettingEpoch # test[t].settingEpoch
       /\ Shows(t) => "proxy" \in notices \/ IpifyIsProxied]_vars

\* An IP check clears nothing but the error it started from, and never one
\* after which Chrome may have gone direct: such an error, stored while the
\* check was under way, survives until the user reconnects.
RetryClearsItsOwnError ==
  [][storage.proxyError # None /\ storage'.proxyError = None =>
       \/ loc["op"].task.kind \in {"importKey", "connect", "disconnect", "forget"}
       \/ /\ storage.proxyError # "direct"
          /\ storage.proxyError = test[loc["op"].task.test].error]_vars

\* Events run out, so the worker comes to rest: no task waits forever in the
\* chain, reconciliations do not trigger each other for ever through the
\* notices of their own changes, and every IP check ends.
Settles ==
  <>[](awake => rest /\ \A t \in Tests : test[t].pc \in {"idle", "ok", "failed"})

\* When others let go of everything they took, a connection that stayed enabled
\* gets its PAC back, unless a call of Chrome was rejected.
Heals ==
  <>[](/\ awake /\ storage.enabled /\ taken = {}
       /\ budget["failure"] = Budget["failure"]) => []<>(proxyPref # None)

=============================================================================
