----------------------------- MODULE Background -----------------------------
(***************************************************************************)
(* The service worker of the browser extension (extension/background.js). *)
(*                                                                         *)
(* Two threads of JavaScript change the configuration: `boot`, the         *)
(* reconciliation a freshly loaded worker starts with, and `op`, the chain *)
(* of tasks that exclusive() runs one after the other.  A step of a thread *)
(* performs one asynchronous Chrome call (or several reads in a row) and   *)
(* runs the code after it up to the next call, so every other actor may    *)
(* act between two steps.  Proxy challenges and IP checks run beside them, *)
(* outside the chain.  The worker can be killed between any two steps: its *)
(* globals are lost, chrome.storage and the Chrome settings survive.       *)
(***************************************************************************)
EXTENDS Browser

CONSTANTS
  TestExcluded,     \* the exclusion lists that cover api.ipify.org
  Requests,         \* browser requests the proxy may challenge
  Tests,            \* concurrent IP checks (one per open popup)
  Commands,         \* the popup commands that occur
  Connected,        \* the key an earlier worker was connected with, or None
  Budget            \* how often each environment event may occur

Events == {"command", "takeover", "kill", "error", "failure", "test"}

ASSUME BackgroundAssumption ==
  /\ TestExcluded \subseteq Lists
  /\ Budget \in [Events -> Nat]
  /\ None \notin Tests
  /\ Connected \in Keys \cup {None}

VARIABLES
  awake,                         \* is the worker loaded?
  pc, loc,                       \* where each thread is, and its locals
  queue, waiting,                \* tasks chained on `operation`, and on `boot`
  configurationChanging, configurationEpoch, proxyErrorEpoch,
  browserSettingEpoch, restoreAfterIncognitoTakeover,
  ownProxyClearedForConflict,    \* the globals of background.js
  auth, authAttempts,            \* the challenge of each request
  test,                          \* the IP checks
  budget                         \* environment events left

flags == <<restoreAfterIncognitoTakeover, ownProxyClearedForConflict>>
epochs == <<configurationEpoch, proxyErrorEpoch, browserSettingEpoch>>
threads == <<storage, prefs, badge, pc, loc, flags, epochs, configurationChanging>>
\* what a step of a thread never touches
chain == <<queue, configurationChanging, epochs>>
beside == <<taken, awake, waiting, auth, authAttempts, budget>>
vars == <<threads, queue, test, beside>>

Threads == {"boot", "op"}

\* buildProxyConfig: the PAC script is a function of host:port and the list
buildProxyConfig(k, x) == [server |-> ServerOf[k], exclusions |-> x]
ConfiguredPac(data) == buildProxyConfig(data.connection, data.exclusions)

isEffectiveProxySetting(c, pac) == ProxyLevel(c) = "own" /\ proxyPref = pac
webRTCIsRestricted(c) == RtcLevel(c) = "own"
incognitoWebRTCIsRestricted == IncognitoAllowed => webRTCIsRestricted("incognito")
webRTCIsRestrictedInAllEnabledContexts ==
  webRTCIsRestricted("regular") /\ incognitoWebRTCIsRestricted
incognitoProxyInRegular(pac) == \* mutant: what is in effect is asked for regular windows
  [controllable |-> ~IncognitoAllowed \/ ProxyLevel("incognito") # "other",
   effective |-> isEffectiveProxySetting("regular", pac),
   level |-> IF IncognitoAllowed THEN ProxyLevel("incognito") ELSE None]
incognitoProxyState(pac) ==
  IF IncognitoAllowed
  THEN [controllable |-> ProxyLevel("incognito") # "other",
        effective |-> isEffectiveProxySetting("incognito", pac),
        level |-> ProxyLevel("incognito")]
  ELSE [controllable |-> TRUE, effective |-> TRUE, level |-> None]
EffectiveEverywhere(pac) ==
  isEffectiveProxySetting("regular", pac) /\ incognitoProxyState(pac).effective

\* status(): "retry" is an error state with canRetryIp
States == {"unconfigured", "off", "error", "conflict", "retry", "active"}
status ==
  LET pac == ConfiguredPac(storage) IN
  IF storage.connection = None THEN "unconfigured"
  ELSE IF ~storage.enabled
    THEN IF ProxyLevel("regular") = "own" \/ webRTCIsRestricted("regular")
         THEN "error" ELSE "off"
  ELSE IF ~webRTCIsRestrictedInAllEnabledContexts THEN "error"
  ELSE IF ~incognitoProxyState(pac).controllable \/ ProxyLevel("regular") # "own"
    THEN "conflict"
  ELSE IF ~EffectiveEverywhere(pac) \/ storage.proxyError = "direct" THEN "error"
  ELSE IF storage.proxyError # None THEN "retry" ELSE "active"
BadgeOf(state) == CASE state = "active" -> "ON"
                    [] state \in {"conflict", "error", "retry"} -> "!"
                    [] OTHER -> ""

(***************************************************************************)
(* Tasks and the locals of a thread.                                       *)
(***************************************************************************)
Kinds == {"importKey", "connect", "disconnect", "forget", "saveExclusions",
          "proxyError", "authFailed", "proxyChange", "rtcChange", "clearError",
          "boot", "bootCatch"}
TaskRecords == [kind : Kinds, key : Keys \cup {None}, exclusions : Lists,
                error : Errors \cup {None}, test : Tests \cup {None}]
Task(kind) == [kind |-> kind, key |-> None, exclusions |-> NoExclusions,
               error |-> None, test |-> None]

Entry(kind) ==
  CASE kind = "importKey" -> "im.disable"
    [] kind = "connect" -> "co.check"
    [] kind \in {"disconnect", "forget"} -> "di.disable"
    [] kind = "saveExclusions" -> "sa.check"
    [] kind \in {"proxyError", "authFailed"} -> "pe.store"
    [] kind = "proxyChange" -> "ch.look"
    [] kind = "clearError" -> "te.check"
    [] OTHER -> "rc.read"
\* where the code goes on after the updateBadge of the task
AfterBadge(kind) == CASE kind = "forget" -> "fo.remove"
                      [] kind = "clearError" -> "te.done"
                      [] OTHER -> "end"

Returns == {"end", "fo.remove", "te.done", "badge.look"}

\* the steps inside a try block, by the block
RcTry == {"rc.rtc", "rc.unrestricted", "rc.setRtc", "rc.checkRtc", "rc.proxy",
          "rc.setProxy", "rc.checkProxy", "rc.last"}
CoTry == {"co.setRtc", "co.checkRtc", "co.setProxy", "co.applied"}
SaTry == {"sa.setProxy", "sa.applied"}
SaRestoreTry == {"sa.mayRestore", "sa.restore", "sa.restored"}
BadgeLabels == {"badge.look", "badge.set"}
Failable == RcTry \cup CoTry \cup SaTry \cup SaRestoreTry \cup BadgeLabels \cup
  {"rc.read", "rc.caught", "off.proxy", "off.rtc", "boot.clear", "im.disable",
   "im.store", "co.check", "co.clear", "co.refuse", "co.enable", "co.undo",
   "di.disable", "fo.remove", "sa.check", "sa.refuse", "sa.store", "sa.rollback",
   "sa.giveUp", "pe.store", "ch.look", "ch.clear", "te.check", "te.store"}
StepLabels == Failable \cup {"end", "te.changed", "te.done"}
Labels == StepLabels \cup {"idle", "done"}

LocalRecords == [task : TaskRecords, data : StoredData, state : States,
                 ret : Returns]
Locals(task) == [task |-> task, data |-> NoData, state |-> "off",
                 ret |-> AfterBadge(task.kind)]
NoLocals == Locals(Task("boot"))
Snapshot(p) == [loc[p] EXCEPT !.data = storage]
Expected(p) == ConfiguredPac(loc[p].data)

(***************************************************************************)
(* The forms a step takes: go from one label to the next, and what it      *)
(* reads or writes on the way.  The callers frame the flags.               *)
(***************************************************************************)
Goto(p, here, next) == pc[p] = here /\ pc' = [pc EXCEPT ![p] = next]

Look(p, here, next) ==
  Goto(p, here, next) /\ UNCHANGED <<storage, prefs, badge, loc>>

Remember(p, here, locals, next) ==
  /\ Goto(p, here, next)
  /\ loc' = [loc EXCEPT ![p] = locals]
  /\ UNCHANGED <<storage, prefs, badge>>

Store(p, here, data, next) ==
  /\ Goto(p, here, next)
  /\ storage' = data
  /\ UNCHANGED <<prefs, badge, loc>>

SetProxy(p, here, pac, next) ==
  /\ Goto(p, here, next)
  /\ proxyPref' = pac
  /\ Notify("proxy", proxyPref # pac)
  /\ UNCHANGED <<storage, rtcPref, badge, loc>>

SetRtc(p, here, on, next) ==
  /\ Goto(p, here, next)
  /\ rtcPref' = on
  /\ Notify("rtc", rtcPref # on)
  /\ UNCHANGED <<storage, proxyPref, badge, loc>>

clearOwnProxySetting(p, here, next) == SetProxy(p, here, None, next)
clearOwnWebRTCSetting(p, here, next) == SetRtc(p, here, FALSE, next)

keepFlags == UNCHANGED flags
SetFlags(restore, cleared) ==
  /\ restoreAfterIncognitoTakeover' = restore
  /\ ownProxyClearedForConflict' = cleared

(***************************************************************************)
(* updateBadge: ask for the status, then set the text.  A reconciliation   *)
(* nested in another task sets it twice: ret is then "badge.look".         *)
(***************************************************************************)
BadgeLook(p) ==
  Remember(p, "badge.look", [loc[p] EXCEPT !.state = status], "badge.set")
BadgeSetIfText(p) == \* mutant: an empty text leaves the badge as it is
  /\ Goto(p, "badge.set", loc[p].ret)
  /\ badge' = IF BadgeOf(loc[p].state) = "" THEN badge ELSE BadgeOf(loc[p].state)
  /\ loc' = [loc EXCEPT ![p].ret = "end"]
  /\ UNCHANGED <<storage, prefs>>
BadgeSet(p) ==
  /\ Goto(p, "badge.set", loc[p].ret)
  /\ badge' = BadgeOf(loc[p].state)
  /\ loc' = [loc EXCEPT ![p].ret = "end"]
  /\ UNCHANGED <<storage, prefs>>
updateBadge(p) == (BadgeLook(p) \/ BadgeSet(p)) /\ keepFlags

\* both clears, as importKey, disconnect, connect's undo and the reconciliation
\* of a disabled configuration end with them
OffProxyOnly(p) == \* mutant: WebRTC is not cleared
  clearOwnProxySetting(p, "off.proxy", "badge.look")
OffProxy(p) == clearOwnProxySetting(p, "off.proxy", "off.rtc")
OffRtc(p) == clearOwnWebRTCSetting(p, "off.rtc",
               IF loc[p].task.kind = "importKey" THEN "im.store" ELSE "badge.look")

(***************************************************************************)
(* reconcileAtStartup                                                      *)
(***************************************************************************)
RcRead(p) ==
  /\ Goto(p, "rc.read", IF storage.enabled /\ storage.connection # None
                        THEN "rc.rtc" ELSE "off.proxy")
  /\ loc' = [loc EXCEPT ![p] = Snapshot(p)]
  /\ storage' = [storage EXCEPT !.enabled = @ /\ storage.connection # None]
  /\ UNCHANGED <<prefs, badge>>
RcRtc(p) == Look(p, "rc.rtc",
  CASE RtcLevel("regular") = "own" -> "rc.proxy"
    [] RtcLevel("regular") = "free" -> "rc.unrestricted"
    [] OTHER -> "rc.caught")
RcUnrestricted(p) == clearOwnProxySetting(p, "rc.unrestricted", "rc.setRtc")
RcSetRtc(p) == SetRtc(p, "rc.setRtc", TRUE, "rc.checkRtc")
RcCheckRtc(p) == Look(p, "rc.checkRtc",
  IF webRTCIsRestricted("regular") THEN "rc.proxy" ELSE "rc.caught")
RcProxy(p) ==
  LET mayControl == incognitoWebRTCIsRestricted /\ ProxyLevel("regular") # "other"
      controllable == incognitoProxyState(Expected(p)).controllable IN
  /\ Look(p, "rc.proxy",
       IF ~mayControl \/ ~controllable THEN "rc.caught"
       ELSE IF isEffectiveProxySetting("regular", Expected(p)) THEN "rc.last"
       ELSE "rc.setProxy")
  /\ SetFlags(restoreAfterIncognitoTakeover \/ (mayControl /\ ~controllable),
              ownProxyClearedForConflict)
RcVerifyOnly(p) == Look(p, "rc.setProxy", "rc.caught") \* mutant: PAC not set again
RcSetProxy(p) == SetProxy(p, "rc.setProxy", Expected(p), "rc.checkProxy")
RcCheckProxy(p) == Look(p, "rc.checkProxy",
  IF isEffectiveProxySetting("regular", Expected(p)) THEN "rc.last" ELSE "rc.caught")
RcLast(p) ==
  LET ok == /\ webRTCIsRestrictedInAllEnabledContexts
            /\ incognitoProxyState(Expected(p)).effective IN
  /\ Look(p, "rc.last", IF ok THEN "badge.look" ELSE "rc.caught")
  /\ IF ok THEN SetFlags(FALSE, FALSE) ELSE keepFlags
RcKeepProxy(p) == Look(p, "rc.caught", "badge.look") \* mutant: PAC not cleared
RcCaught(p) == clearOwnProxySetting(p, "rc.caught", "badge.look")

reconcileAtStartup(p) ==
  \/ /\ \/ RcRead(p) \/ RcRtc(p) \/ RcUnrestricted(p) \/ RcSetRtc(p) \/ RcCheckRtc(p)
        \/ RcSetProxy(p) \/ RcCheckProxy(p) \/ RcCaught(p) \/ OffProxy(p) \/ OffRtc(p)
     /\ keepFlags
  \/ RcProxy(p) \/ RcLast(p)

(***************************************************************************)
(* The commands of the popup.                                              *)
(***************************************************************************)
ImStoreFirst(p) == \* mutant: the new key is stored before the PAC is cleared
  Store(p, "im.disable", [storage EXCEPT !.enabled = FALSE], "im.store")
ImDisable(p) ==
  Store(p, "im.disable", [storage EXCEPT !.enabled = FALSE], "off.proxy")
ImStore(p) ==
  Store(p, "im.store", [storage EXCEPT !.connection = loc[p].task.key,
                          !.exclusions = NoExclusions, !.proxyError = None],
        "badge.look")
importKey(p) == (ImDisable(p) \/ ImStore(p)) /\ keepFlags

CoCheck(p) == Remember(p, "co.check", Snapshot(p),
  IF storage.connection = None THEN "end"
  ELSE IF \/ ProxyLevel("regular") = "other"
          \/ ~incognitoProxyState(ConfiguredPac(storage)).controllable
          \/ RtcLevel("regular") = "other" THEN "co.refuse"
  ELSE IF webRTCIsRestricted("regular") THEN "co.enable" ELSE "co.clear")
CoRefuse(p) == clearOwnProxySetting(p, "co.refuse", "end")
CoClear(p) == clearOwnProxySetting(p, "co.clear", "co.enable")
CoEnable(p) == Store(p, "co.enable",
  [storage EXCEPT !.enabled = TRUE, !.proxyError = None], "co.setRtc")
CoSetRtc(p) == SetRtc(p, "co.setRtc", TRUE, "co.checkRtc")
CoCheckRtc(p) == Look(p, "co.checkRtc",
  IF webRTCIsRestrictedInAllEnabledContexts THEN "co.setProxy" ELSE "co.undo")
CoSetProxy(p) == SetProxy(p, "co.setProxy", Expected(p), "co.applied")
CoApplied(p) ==
  LET ok == /\ EffectiveEverywhere(Expected(p))
            /\ webRTCIsRestrictedInAllEnabledContexts IN
  /\ Look(p, "co.applied", IF ok THEN "badge.look" ELSE "co.undo")
  /\ IF ok THEN SetFlags(FALSE, FALSE) ELSE keepFlags
CoUndo(p) == Store(p, "co.undo", [storage EXCEPT !.enabled = FALSE], "off.proxy")
connect(p) ==
  \/ /\ \/ CoCheck(p) \/ CoRefuse(p) \/ CoClear(p) \/ CoEnable(p) \/ CoSetRtc(p)
        \/ CoCheckRtc(p) \/ CoSetProxy(p) \/ CoUndo(p)
     /\ keepFlags
  \/ CoApplied(p)

disconnect(p) ==
  /\ Store(p, "di.disable", [storage EXCEPT !.enabled = FALSE, !.proxyError = None],
           "off.proxy")
  /\ SetFlags(FALSE, FALSE)
\* forget() is disconnect() followed by this removal
ForgetBoth(p) == \* mutant: the default for missing exclusions is dropped
  /\ Store(p, "fo.remove",
       [storage EXCEPT !.connection = None, !.exclusions = None], "badge.look")
  /\ keepFlags
forget(p) ==
  /\ Store(p, "fo.remove",
       [storage EXCEPT !.connection = None, !.exclusions = NoExclusions], "badge.look")
  /\ keepFlags

OldPac(p) == Expected(p) \* mutant: the PAC is built from the old exclusions
NewPac(p) == buildProxyConfig(loc[p].data.connection, loc[p].task.exclusions)
SaCheck(p) ==
  LET applied == storage.connection # None /\ storage.enabled
      mayControl == /\ ProxyLevel("regular") # "other"
                    /\ webRTCIsRestrictedInAllEnabledContexts
      controllable == incognitoProxyState(ConfiguredPac(storage)).controllable IN
  /\ Remember(p, "sa.check", Snapshot(p),
       IF storage.connection = None THEN "end"
       ELSE IF applied /\ ~(mayControl /\ controllable) THEN "sa.refuse"
       ELSE "sa.store")
  /\ SetFlags(restoreAfterIncognitoTakeover \/ (applied /\ mayControl /\ ~controllable),
              ownProxyClearedForConflict)
SaRefuse(p) == clearOwnProxySetting(p, "sa.refuse", "end")
SaStore(p) ==
  /\ Store(p, "sa.store", [storage EXCEPT !.exclusions = loc[p].task.exclusions],
           IF loc[p].data.enabled THEN "sa.setProxy" ELSE "badge.look")
  /\ SetFlags(restoreAfterIncognitoTakeover,
              ownProxyClearedForConflict /\ loc[p].data.enabled)
SaSetProxy(p) == SetProxy(p, "sa.setProxy", NewPac(p), "sa.applied")
SaApplied(p) ==
  LET ok == EffectiveEverywhere(NewPac(p)) /\ webRTCIsRestrictedInAllEnabledContexts IN
  /\ Look(p, "sa.applied", IF ok THEN "badge.look" ELSE "sa.rollback")
  /\ SetFlags(restoreAfterIncognitoTakeover, ownProxyClearedForConflict /\ ~ok)
SaRollback(p) == Store(p, "sa.rollback",
  [storage EXCEPT !.exclusions = loc[p].data.exclusions], "sa.mayRestore")
SaMayRestore(p) == Look(p, "sa.mayRestore",
  IF /\ webRTCIsRestrictedInAllEnabledContexts
     /\ incognitoProxyState(Expected(p)).controllable
  THEN "sa.restore" ELSE "sa.giveUp")
SaRestore(p) == SetProxy(p, "sa.restore", Expected(p), "sa.restored")
SaRestored(p) == Look(p, "sa.restored",
  IF EffectiveEverywhere(Expected(p)) /\ webRTCIsRestrictedInAllEnabledContexts
  THEN "badge.look" ELSE "sa.giveUp")
SaGiveUp(p) == clearOwnProxySetting(p, "sa.giveUp", "badge.look")
saveExclusions(p) ==
  \/ /\ \/ SaRefuse(p) \/ SaSetProxy(p) \/ SaRollback(p) \/ SaMayRestore(p)
        \/ SaRestore(p) \/ SaRestored(p) \/ SaGiveUp(p)
     /\ keepFlags
  \/ SaCheck(p) \/ SaStore(p) \/ SaApplied(p)

(***************************************************************************)
(* The tasks queued by Chrome's events: a proxy error (or the AUTH_FAILED  *)
(* of a repeated challenge, stored whatever `enabled` says) and a change   *)
(* of the proxy setting; a WebRTC change runs reconcileAtStartup.          *)
(***************************************************************************)
PeStore(p) ==
  LET record == storage.enabled \/ loc[p].task.kind = "authFailed" IN
  /\ Store(p, "pe.store",
       IF record THEN [storage EXCEPT !.proxyError = loc[p].task.error] ELSE storage,
       IF record THEN "badge.look" ELSE "end")
  /\ keepFlags

ChLook(p) ==
  LET incognito == incognitoProxyState(ConfiguredPac(storage))
      release == ~incognito.effective /\ ~ownProxyClearedForConflict
      restore == /\ restoreAfterIncognitoTakeover
                 /\ ~incognito.effective /\ ~release
                 /\ incognito.level = "free" /\ ProxyLevel("regular") = "free"
                 /\ webRTCIsRestrictedInAllEnabledContexts IN
  IF ~storage.enabled \/ storage.connection = None
  THEN Look(p, "ch.look", "badge.look") /\ keepFlags
  ELSE /\ Remember(p, "ch.look",
            [loc[p] EXCEPT !.ret = IF restore THEN "badge.look" ELSE "end"],
            CASE release -> "ch.clear" [] restore -> "rc.read" [] OTHER -> "badge.look")
       /\ SetFlags(IF release THEN ~incognito.controllable
                   ELSE restoreAfterIncognitoTakeover /\ ~incognito.effective /\ ~restore,
                   ownProxyClearedForConflict /\ ~incognito.effective /\ ~restore)
ChClearAgain(p) == \* mutant: clears until the setting is effective
  /\ clearOwnProxySetting(p, "ch.clear", "ch.look")
  /\ SetFlags(restoreAfterIncognitoTakeover, FALSE)
ChClear(p) ==
  /\ clearOwnProxySetting(p, "ch.clear", "badge.look")
  /\ SetFlags(restoreAfterIncognitoTakeover, TRUE)
onProxySettingChange(p) == ChLook(p) \/ ChClear(p)

(***************************************************************************)
(* testIp: "look" and "check" are status() and the comparisons before the  *)
(* request, "look2" and "check2" those after the answer, "last" the one    *)
(* before the result is returned.                                          *)
(***************************************************************************)
TestLabels == {"idle", "look", "check", "fetch", "look2", "check2", "queued", "last",
               "ok", "failed"}
TestRecords == [pc : TestLabels, epoch : Nat, settingEpoch : Nat, errorEpoch : Nat,
                data : StoredData, state : States, error : Errors \cup {None}]
NoTest == [pc |-> "idle", epoch |-> 0, settingEpoch |-> 0, errorEpoch |-> 0,
           data |-> NoData, state |-> "off", error |-> None]

booted == awake /\ pc["boot"] = "done"
Enqueue(task) == queue' = Append(queue, task)
Spend(event) == /\ budget[event] > 0
                /\ budget' = [budget EXCEPT ![event] = @ - 1]
changedError(t) == proxyErrorEpoch # test[t].errorEpoch \* mutant: errors only
changedConfiguration(t) == \* mutant: setting changes are not noticed
  configurationEpoch # test[t].epoch \/ proxyErrorEpoch # test[t].errorEpoch
changed(t) == \/ configurationEpoch # test[t].epoch
              \/ browserSettingEpoch # test[t].settingEpoch
              \/ proxyErrorEpoch # test[t].errorEpoch
Unusable(t) == \/ configurationChanging
               \/ changed(t)
               \/ test[t].state \notin {"active", "retry"}

TestStart(t) ==
  /\ booted
  /\ Spend("test")
  /\ test[t].pc \in {"idle", "ok", "failed"}
  /\ test' = [test EXCEPT ![t] = [NoTest EXCEPT !.pc = "look",
       !.epoch = configurationEpoch, !.settingEpoch = browserSettingEpoch,
       !.errorEpoch = proxyErrorEpoch]]
  /\ UNCHANGED <<threads, queue, taken, awake, waiting, auth, authAttempts>>

TestStep(t, here, record) ==
  test[t].pc = here /\ test' = [test EXCEPT ![t] = record]
TestLook(t, here, next) == TestStep(t, here,
  [test[t] EXCEPT !.pc = next, !.data = storage, !.state = status])
TestCheck(t) == TestStep(t, "check",
  IF Unusable(t) \/ test[t].data.exclusions \in TestExcluded
  THEN [test[t] EXCEPT !.pc = "failed"]
  ELSE [test[t] EXCEPT !.pc = "fetch", !.error = test[t].data.proxyError])
\* api.ipify.org answers, or the request fails or is aborted after 10 seconds
TestFetch(t) == \E next \in {"look2", "failed"} :
  TestStep(t, "fetch", [test[t] EXCEPT !.pc = next])
TestCheck2(t) == TestStep(t, "check2", [test[t] EXCEPT !.pc =
  IF Unusable(t) THEN "failed" ELSE IF test[t].error # None THEN "queued" ELSE "last"])
TestLast(t) == TestStep(t, "last", [test[t] EXCEPT !.pc =
  IF configurationChanging \/ changed(t) THEN "failed" ELSE "ok"])
testIp(t) ==
  /\ \/ TestLook(t, "look", "check") \/ TestCheck(t) \/ TestFetch(t)
     \/ TestLook(t, "look2", "check2") \/ TestCheck2(t) \/ TestLast(t)
  /\ IF test'[t].pc = "queued"
     THEN Enqueue([Task("clearError") EXCEPT !.test = t]) ELSE UNCHANGED queue
  /\ UNCHANGED <<threads, beside>>

\* the task in which a successful retry clears the error it started from
TeClearAnything(p) == Look(p, "te.check", "te.store") /\ UNCHANGED test \* mutant
TeCheck(p) ==
  LET t == loc[p].task.test
      mine == configurationEpoch = test[t].epoch + 1
      unchanged == /\ browserSettingEpoch = test[t].settingEpoch
                   /\ proxyErrorEpoch = test[t].errorEpoch
                   /\ storage.proxyError = test[t].error
                   /\ status = "retry" IN
  /\ Look(p, "te.check", IF mine /\ unchanged THEN "te.store" ELSE "end")
  /\ test' = [test EXCEPT ![t].epoch = IF mine THEN configurationEpoch ELSE @]
TeStore(p) ==
  /\ Store(p, "te.store", [storage EXCEPT !.proxyError = None], "te.changed")
  /\ UNCHANGED test
TeChanged(p) ==
  /\ Look(p, "te.changed", IF changed(loc[p].task.test) THEN "end" ELSE "badge.look")
  /\ UNCHANGED test
TeDone(p) == /\ Look(p, "te.done", "end")
             /\ test' = [test EXCEPT ![loc[p].task.test].pc = "last"]
clearError(p) ==
  (TeCheck(p) \/ TeStore(p) \/ TeChanged(p) \/ TeDone(p)) /\ keepFlags

(***************************************************************************)
(* The threads.                                                            *)
(***************************************************************************)
Boot ==
  /\ \/ reconcileAtStartup("boot") \/ updateBadge("boot")
     \/ clearOwnProxySetting("boot", "boot.clear", "badge.look") /\ keepFlags
  /\ UNCHANGED <<chain, test, beside>>

Operation ==
  /\ \/ /\ \/ reconcileAtStartup("op") \/ updateBadge("op") \/ importKey("op")
           \/ connect("op") \/ disconnect("op") \/ forget("op")
           \/ saveExclusions("op") \/ PeStore("op") \/ onProxySettingChange("op")
        /\ UNCHANGED test
     \/ clearError("op")
  /\ UNCHANGED <<chain, beside>>

\* what was chained on boot enters the chain of exclusive() when it is over
BootDone ==
  /\ Goto("boot", "end", "done")
  /\ loc' = [loc EXCEPT !["boot"] = NoLocals]
  /\ queue' = queue \o waiting
  /\ waiting' = <<>>
  /\ UNCHANGED <<storage, prefs, badge, flags, configurationChanging, epochs, test,
                 taken, awake, auth, authAttempts, budget>>

\* exclusive(): enter the next task, and the finally block after it
Start ==
  /\ queue # <<>>
  /\ Goto("op", "idle", Entry(Head(queue).kind))
  /\ loc' = [loc EXCEPT !["op"] = Locals(Head(queue))]
  /\ queue' = Tail(queue)
  /\ configurationChanging' = TRUE
  /\ configurationEpoch' = configurationEpoch + 1
  /\ UNCHANGED <<storage, prefs, badge, flags, proxyErrorEpoch, browserSettingEpoch,
                 test, beside>>
Finish ==
  LET t == loc["op"].task.test IN
  /\ Goto("op", "end", "idle")
  /\ loc' = [loc EXCEPT !["op"] = NoLocals]
  /\ configurationChanging' = FALSE
  /\ test' = IF t # None /\ test[t].pc = "queued"
             THEN [test EXCEPT ![t].pc = "failed"] ELSE test
  /\ UNCHANGED <<storage, prefs, badge, flags, queue, epochs, beside>>

\* a Chrome call of a thread rejects: the catch or finally block around it
Rescue(p) ==
  LET here == pc[p]
      kind == loc[p].task.kind IN
  CASE here \in RcTry -> "rc.caught"
    [] here \in CoTry -> "co.undo"
    [] here \in SaTry -> "sa.rollback"
    [] here \in SaRestoreTry -> "sa.giveUp"
    [] here \in {"sa.giveUp", "boot.clear"} -> "badge.look"
    [] kind = "boot" /\ here \notin RcTry -> "boot.clear"
    [] kind = "proxyChange" /\ here \notin RcTry
         /\ ~(here \in BadgeLabels /\ loc[p].ret = "end") -> "badge.look"
    [] OTHER -> "end"
Fail(p) ==
  /\ pc[p] \in Failable
  /\ Spend("failure")
  /\ pc' = [pc EXCEPT ![p] = Rescue(p)]
  /\ loc' = [loc EXCEPT
       ![p].task.kind = IF Rescue(p) = "boot.clear" THEN "bootCatch" ELSE @,
       ![p].ret = IF Rescue(p) = "badge.look" THEN "end" ELSE @]
  /\ UNCHANGED <<storage, prefs, badge, flags, chain, test, taken, awake, waiting,
                 auth, authAttempts>>

(***************************************************************************)
(* onAuthRequired.  A challenge reads the storage ("read"), then Chrome's  *)
(* settings in the context of its tab ("settings"), and then answers.      *)
(***************************************************************************)
AuthLabels == {"idle", "read", "settings", "decide", "granted", "cancel", "ignored",
               "closed"}
InFlight == {"read", "settings", "decide"}
AuthRecords == [pc : AuthLabels, server : Servers, context : Contexts, epoch : Nat,
                settingEpoch : Nat, data : StoredData, effective : BOOLEAN]

AuthStep(r, here, record) ==
  /\ auth[r].pc = here
  /\ auth' = [auth EXCEPT ![r] = record]
  /\ UNCHANGED <<storage, prefs, badge, pc, loc, flags, configurationChanging,
                 configurationEpoch, browserSettingEpoch, test, taken, awake,
                 waiting, budget>>
Answer(r, here, answer) == AuthStep(r, here, [auth[r] EXCEPT !.pc = answer])
quiet == UNCHANGED <<queue, proxyErrorEpoch, authAttempts>>

\* the proxy challenges a request, or challenges it again after an answer
Challenge(r, s, c) ==
  /\ booted
  /\ auth[r].pc = "idle" \/ (auth[r].pc = "granted" /\ auth[r].context = c)
  /\ AuthStep(r, auth[r].pc,
       [pc |-> IF configurationChanging THEN "cancel" ELSE "read",
        server |-> s, context |-> c, epoch |-> configurationEpoch,
        settingEpoch |-> browserSettingEpoch, data |-> NoData, effective |-> FALSE])
  /\ quiet
AuthRead(r) ==
  LET matching == /\ storage.enabled /\ storage.connection # None
                  /\ ServerOf[storage.connection] = auth[r].server IN
  /\ AuthStep(r, "read", [auth[r] EXCEPT !.data = storage,
                            !.pc = IF matching THEN "settings" ELSE "ignored"])
  /\ quiet
AuthSettings(r) ==
  LET a == auth[r] IN
  /\ AuthStep(r, "settings", [a EXCEPT !.pc = "decide", !.effective =
       /\ isEffectiveProxySetting(a.context, ConfiguredPac(a.data))
       /\ webRTCIsRestricted(a.context)])
  /\ quiet
AuthTabGone(r) == Answer(r, "settings", "cancel") /\ quiet
staleSettings(r) == \* mutant: the configuration is not compared
  browserSettingEpoch # auth[r].settingEpoch \/ ~auth[r].effective
staleConfiguration(r) == \* mutant: setting changes are not noticed
  configurationChanging \/ configurationEpoch # auth[r].epoch \/ ~auth[r].effective
stale(r) == \/ configurationChanging
            \/ configurationEpoch # auth[r].epoch
            \/ browserSettingEpoch # auth[r].settingEpoch
            \/ ~auth[r].effective
AuthCancel(r) == stale(r) /\ Answer(r, "decide", "cancel") /\ quiet
AuthRejected(r) ==
  /\ ~stale(r) /\ r \in authAttempts
  /\ Answer(r, "decide", "cancel")
  /\ proxyErrorEpoch' = proxyErrorEpoch + 1
  /\ Enqueue([Task("authFailed") EXCEPT !.error = "authFailed"])
  /\ UNCHANGED authAttempts
AuthGrant(r) ==
  /\ ~stale(r) /\ r \notin authAttempts
  /\ Answer(r, "decide", "granted")
  /\ authAttempts' = authAttempts \cup {r}
  /\ UNCHANGED <<queue, proxyErrorEpoch>>
onAuthRequired(r) == \/ AuthRead(r) \/ AuthSettings(r) \/ AuthTabGone(r)
                     \/ AuthCancel(r) \/ AuthRejected(r) \/ AuthGrant(r)
\* onCompleted and onErrorOccurred
clearAuthAttempt(r) ==
  /\ awake
  /\ auth[r].pc \in {"granted", "cancel", "ignored"}
  /\ Answer(r, auth[r].pc, "closed")
  /\ authAttempts' = authAttempts \ {r}
  /\ UNCHANGED <<queue, proxyErrorEpoch>>

(***************************************************************************)
(* What happens to the worker.                                             *)
(***************************************************************************)
\* a message of the popup enters exclusive() once boot is over
Message(kind, key, list) ==
  /\ booted
  /\ Spend("command")
  /\ Enqueue([Task(kind) EXCEPT !.key = key, !.exclusions = list])
  /\ UNCHANGED <<threads, test, taken, awake, waiting, auth, authAttempts>>
Command ==
  \/ \E kind \in Commands \cap {"connect", "disconnect", "forget"} :
       Message(kind, None, NoExclusions)
  \/ "importKey" \in Commands /\ \E k \in Keys : Message("importKey", k, NoExclusions)
  \/ "saveExclusions" \in Commands
       /\ \E x \in Lists : Message("saveExclusions", None, x)

\* Chrome reports a proxy error; its handler does not wait for boot
ProxyError(error) ==
  /\ awake
  /\ Spend("error")
  /\ proxyErrorEpoch' = proxyErrorEpoch + 1
  /\ Enqueue([Task("proxyError") EXCEPT !.error = error])
  /\ UNCHANGED <<storage, prefs, badge, pc, loc, flags, configurationChanging,
       configurationEpoch, browserSettingEpoch, test, taken, awake, waiting, auth,
       authAttempts>>

ChangeTask(setting) == Task(IF setting = "proxy" THEN "proxyChange" ELSE "rtcChange")
onChange(setting) ==
  /\ awake
  /\ setting \in notices
  /\ notices' = notices \ {setting}
  /\ browserSettingEpoch' = browserSettingEpoch + 1
  /\ IF booted THEN Enqueue(ChangeTask(setting)) /\ UNCHANGED waiting
     ELSE waiting' = Append(waiting, ChangeTask(setting)) /\ UNCHANGED queue
  /\ UNCHANGED <<storage, proxyPref, rtcPref, badge, pc, loc, flags,
       configurationChanging, configurationEpoch, proxyErrorEpoch, test, taken, awake,
       auth, authAttempts, budget>>

Takeover(setting, c) ==
  /\ Contest(setting, c)
  /\ Spend("takeover")
  /\ UNCHANGED <<pc, loc, flags, chain, test, awake, waiting, auth, authAttempts>>

Asleep == [p \in Threads |-> "idle"]
Kill ==
  /\ awake
  /\ Spend("kill")
  /\ awake' = FALSE
  /\ pc' = Asleep
  /\ loc' = [p \in Threads |-> NoLocals]
  /\ SetFlags(FALSE, FALSE)
  /\ queue' = <<>> /\ waiting' = <<>>
  /\ configurationChanging' = FALSE
  /\ configurationEpoch' = 0 /\ proxyErrorEpoch' = 0 /\ browserSettingEpoch' = 0
  /\ authAttempts' = {}
  /\ auth' = [r \in Requests |-> [auth[r] EXCEPT !.pc =
                IF @ \in InFlight THEN "cancel" ELSE @]]
  /\ test' = [t \in Tests |-> NoTest]
  /\ UNCHANGED <<storage, prefs, badge, taken>>
\* Chrome loads the worker to deliver an event
Wake ==
  /\ ~awake
  /\ awake' = TRUE
  /\ pc' = [pc EXCEPT !["boot"] = "rc.read"]
  /\ UNCHANGED <<storage, prefs, badge, loc, flags, chain, test, taken, waiting, auth,
       authAttempts, budget>>

\* a fresh installation, or what an earlier worker left behind after connecting
LeftBehind ==
  /\ storage = [NoData EXCEPT !.connection = Connected, !.enabled = Connected # None]
  /\ proxyPref = IF Connected = None THEN None
                 ELSE buildProxyConfig(Connected, NoExclusions)
  /\ rtcPref = (Connected # None)
  /\ badge = IF Connected = None THEN "" ELSE "ON"
  /\ taken = {} /\ notices = {}
NotLoaded ==
  /\ awake = FALSE
  /\ pc = Asleep
  /\ loc = [p \in Threads |-> NoLocals]
  /\ queue = <<>> /\ waiting = <<>>
  /\ configurationChanging = FALSE
  /\ configurationEpoch = 0 /\ proxyErrorEpoch = 0 /\ browserSettingEpoch = 0
  /\ restoreAfterIncognitoTakeover = FALSE /\ ownProxyClearedForConflict = FALSE
  /\ authAttempts = {}
  /\ test = [t \in Tests |-> NoTest]
NoChallenge(label) ==
  [pc |-> label, server |-> CHOOSE s \in Servers : TRUE, context |-> "regular",
   epoch |-> 0, settingEpoch |-> 0, data |-> NoData, effective |-> FALSE]
Init == /\ LeftBehind /\ NotLoaded
        /\ auth = [r \in Requests |-> NoChallenge("idle")]
        /\ budget = Budget

\* the program's own steps; Environment is everything else
Worker == \/ Boot \/ BootDone \/ Operation \/ Start \/ Finish
          \/ \E r \in Requests : onAuthRequired(r)
          \/ \E t \in Tests : testIp(t)
Environment == \/ Command
               \/ \E e \in {"fatal", "direct"} : ProxyError(e)
               \/ \E setting \in Settings, c \in Visible : Takeover(setting, c)
               \/ \E p \in Threads : Fail(p)
               \/ \E r \in Requests, s \in Servers, c \in Visible : Challenge(r, s, c)
               \/ \E r \in Requests : clearAuthAttempt(r)
               \/ \E t \in Tests : TestStart(t)
               \/ Kill \/ Wake
Next == Worker \/ (\E setting \in Settings : onChange(setting)) \/ Environment

Spec == Init /\ [][Next]_vars

Fairness == /\ WF_vars(Worker)
            /\ \A setting \in Settings : WF_vars(onChange(setting))
            /\ WF_vars(notices # {} /\ Wake)
FairSpec == Spec /\ Fairness

=============================================================================
