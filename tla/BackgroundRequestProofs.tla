----------------------- MODULE BackgroundRequestProofs -----------------------
(***************************************************************************)
(* Proofs about onAuthRequired: for every set of keys, servers, exclusion  *)
(* lists and requests, and however often the environment acts, credentials *)
(* leave the worker only under a current configuration and under the       *)
(* extension's own settings.                                               *)
(*                                                                         *)
(* A challenge is answered by a worker whose boot is over, so no step of   *)
(* boot runs beside it.  While a task runs, the configuration epoch is     *)
(* already ahead of every challenge that began before the task.  Hence     *)
(* what a challenge has read is what is stored, unless its epoch shows     *)
(* that it is not: that is AuthInv.  SettingsInv says the same of Chrome's *)
(* settings, with the notice of a change or the setting epoch.             *)
(*                                                                         *)
(* The second part is about the IP checks (testIp), which run beside the   *)
(* tasks in the same way, but whose successful retries queue a task.       *)
(* The third is about the badge, which all of them may leave behind.       *)
(***************************************************************************)
EXTENDS BackgroundProofs

Current(r) == ~configurationChanging /\ auth[r].epoch = configurationEpoch
Matches(r) ==
  /\ storage.enabled
  /\ storage.connection = auth[r].data.connection
  /\ storage.exclusions = auth[r].data.exclusions
  /\ ServerOf[storage.connection] = auth[r].server
AuthInv == \A r \in Requests : auth[r].pc \in InFlight =>
  /\ booted
  /\ auth[r].epoch <= configurationEpoch
  /\ configurationChanging => auth[r].epoch < configurationEpoch
  /\ auth[r].pc \in {"settings", "decide"} /\ Current(r) => Matches(r)

OwnSettings(r) ==
  LET c == auth[r].context IN
  /\ "proxy" \in notices \/ isEffectiveProxySetting(c, ConfiguredPac(auth[r].data))
  /\ "rtc" \in notices \/ webRTCIsRestricted(c)
SettingsInv == \A r \in Requests : auth[r].pc \in InFlight =>
  /\ auth[r].settingEpoch <= browserSettingEpoch
  /\ /\ auth[r].pc = "decide" /\ auth[r].effective /\ Current(r)
     /\ auth[r].settingEpoch = browserSettingEpoch
     => OwnSettings(r)

\* After any step of a thread no challenge under way is current: either there is
\* none (boot), or a task runs or has just ended.
LEMMA ThreadsOutdate ==
  ASSUME TypeOK, DataIsBound, AuthInv,
         Boot \/ BootDone \/ Operation \/ Start \/ Finish \/ \E p \in Threads : Fail(p)
  PROVE  /\ auth' = auth /\ browserSettingEpoch' = browserSettingEpoch
         /\ \A r \in Requests : auth[r].pc \in InFlight =>
              /\ booted'
              /\ auth[r].epoch <= configurationEpoch'
              /\ configurationChanging' => auth[r].epoch < configurationEpoch'
              /\ ~Current(r)'
<1> USE DEF AuthInv, beside
<1>1. auth' = auth /\ browserSettingEpoch' = browserSettingEpoch
  BY DEF Boot, BootDone, Operation, Start, Finish, Fail, chain, epochs
<1>2. CASE pc["boot"] # "done"
  BY <1>1, <1>2 DEF booted
<1>3. CASE pc["boot"] = "done"
  <2>1. ~Boot /\ ~BootDone
    <3>1. "done" \notin StepLabels
      BY DEF StepLabels, Failable, RcTry, CoTry, SaTry, SaRestoreTry, BadgeLabels
    <3> QED BY <1>3, <3>1, BootEffect DEF StepEffect, BootDone, Goto
  <2>2. \A r \in Requests : auth[r].epoch \in Nat
    BY DEF TypeOK, AuthRecords
  <2>3. CASE Operation \/ Fail("op")
    <3>1. pc["op"] # "idle"
      <4>1. "idle" \notin StepLabels
        BY DEF StepLabels, Failable, RcTry, CoTry, SaTry, SaRestoreTry, BadgeLabels
      <4> QED BY <2>3, <4>1, OperationEffect DEF StepEffect, Fail, StepLabels
    <3>2. configurationChanging
      BY <3>1 DEF TypeOK
    <3>3. UNCHANGED <<awake, configurationChanging, configurationEpoch>>
      BY <2>3 DEF Operation, Fail, chain, epochs
    <3>4. pc'["boot"] = pc["boot"]
      BY <2>3, OperationEffect DEF StepEffect, Fail, TypeOK, Threads
    <3> QED BY <1>1, <3>2, <3>3, <3>4 DEF booted, Current
  <2>4. CASE Start
    <3>1. /\ awake' = awake /\ configurationChanging' = TRUE
          /\ configurationEpoch' = configurationEpoch + 1
          /\ pc'["boot"] = pc["boot"]
      BY <2>4 DEF Start, Goto, TypeOK, Threads
    <3>2. configurationEpoch \in Nat
      BY DEF TypeOK
    <3> QED BY <1>1, <2>2, <3>1, <3>2 DEF booted, Current
  <2>5. CASE Finish
    <3>1. /\ UNCHANGED <<awake, configurationEpoch>>
          /\ configurationChanging' = FALSE
          /\ pc'["boot"] = pc["boot"]
          /\ pc["op"] = "end"
      BY <2>5 DEF Finish, Goto, TypeOK, Threads, epochs
    <3>2. configurationChanging /\ configurationEpoch \in Nat
      BY <3>1 DEF TypeOK
    <3> QED BY <1>1, <2>2, <3>1, <3>2 DEF booted, Current
  <2>6. CASE Fail("boot")
    BY <1>3, <2>6
    DEF Fail, Failable, RcTry, CoTry, SaTry, SaRestoreTry, BadgeLabels
  <2> QED BY <2>1, <2>3, <2>4, <2>5, <2>6 DEF Threads
<1> QED BY <1>2, <1>3

\* So the steps of the threads preserve both invariants.
LEMMA ThreadsKeepAuth ==
  ASSUME TypeOK, DataIsBound, AuthInv, SettingsInv,
         Boot \/ BootDone \/ Operation \/ Start \/ Finish \/ \E p \in Threads : Fail(p)
  PROVE  AuthInv' /\ SettingsInv'
<1>1. AuthInv'
  BY ThreadsOutdate DEF AuthInv
<1>2. SettingsInv'
  BY ThreadsOutdate DEF SettingsInv
<1> QED BY <1>1, <1>2

\* The steps of a challenge itself.
LEMMA ChallengeKeepsAuth ==
  ASSUME TypeOK, AuthInv, SettingsInv, NEW r \in Requests,
         \/ onAuthRequired(r) \/ clearAuthAttempt(r)
         \/ \E s \in Servers, c \in Visible : Challenge(r, s, c)
  PROVE  AuthInv' /\ SettingsInv'
<1>1. UNCHANGED <<storage, prefs, taken, awake, pc, configurationChanging,
                  configurationEpoch, browserSettingEpoch>>
  BY DEF onAuthRequired, AuthRead, AuthSettings, AuthTabGone, AuthCancel, AuthRejected,
         AuthGrant, clearAuthAttempt, Challenge, Answer, AuthStep
<1>2. \A q \in Requests \ {r} : auth'[q] = auth[q]
  BY DEF onAuthRequired, AuthRead, AuthSettings, AuthTabGone, AuthCancel, AuthRejected,
         AuthGrant, clearAuthAttempt, Challenge, Answer, AuthStep, TypeOK
<1>3. auth[r] \in AuthRecords /\ configurationEpoch \in Nat /\ browserSettingEpoch \in Nat
  BY DEF TypeOK
<1>4. auth'[r].pc \in InFlight =>
  /\ booted
  /\ auth'[r].epoch <= configurationEpoch
  /\ configurationChanging => auth'[r].epoch < configurationEpoch
  /\ auth'[r].settingEpoch <= browserSettingEpoch
  /\ auth'[r].pc \in {"settings", "decide"}
       /\ ~configurationChanging /\ auth'[r].epoch = configurationEpoch
       => /\ storage.enabled
          /\ storage.connection = auth'[r].data.connection
          /\ storage.exclusions = auth'[r].data.exclusions
          /\ ServerOf[storage.connection] = auth'[r].server
  /\ auth'[r].pc = "decide" /\ auth'[r].effective
       => /\ isEffectiveProxySetting(auth'[r].context, ConfiguredPac(auth'[r].data))
          /\ webRTCIsRestricted(auth'[r].context)
  <2> USE <1>3 DEF InFlight, AuthStep, TypeOK
  <2>1. CASE AuthRead(r)
    BY <2>1 DEF AuthRead, AuthInv, SettingsInv, AuthRecords
  <2>2. CASE AuthSettings(r)
    BY <2>2 DEF AuthSettings, AuthInv, SettingsInv, Current, Matches, AuthRecords
  <2>3. CASE AuthTabGone(r) \/ AuthCancel(r) \/ AuthRejected(r) \/ AuthGrant(r)
             \/ clearAuthAttempt(r)
    BY <2>3 DEF AuthTabGone, AuthCancel, AuthRejected, AuthGrant, clearAuthAttempt,
                Answer, AuthRecords
  <2>4. CASE \E s \in Servers, c \in Visible : Challenge(r, s, c)
    BY <2>4 DEF Challenge
  <2> QED BY <2>1, <2>2, <2>3, <2>4 DEF onAuthRequired
<1>5. AuthInv'
  BY <1>1, <1>2, <1>4 DEF AuthInv, booted, Current, Matches
<1>6. SettingsInv'
  BY <1>1, <1>2, <1>4
  DEF SettingsInv, OwnSettings, Current, prefs, isEffectiveProxySetting, ProxyLevel,
      webRTCIsRestricted, RtcLevel
<1> QED BY <1>5, <1>6

\* Everything else leaves the configuration alone; a change of Chrome's settings
\* comes with a notice, and handling the notice raises the setting epoch.
LEMMA WorldKeepsAuth ==
  ASSUME TypeOK, AuthInv, SettingsInv,
         \/ \E t \in Tests : testIp(t) \/ TestStart(t)
         \/ Command \/ \E e \in {"fatal", "direct"} : ProxyError(e)
         \/ \E s \in Settings : onChange(s)
         \/ \E s \in Settings, c \in Visible : Takeover(s, c)
         \/ Kill \/ Wake
  PROVE  AuthInv' /\ SettingsInv'
<1>1. CASE \/ \E t \in Tests : testIp(t) \/ TestStart(t)
           \/ Command \/ \E e \in {"fatal", "direct"} : ProxyError(e)
  <2>1. UNCHANGED <<storage, prefs, taken, awake, pc, configurationChanging, auth,
                    configurationEpoch, browserSettingEpoch>>
    BY <1>1 DEF testIp, TestStart, Command, Message, ProxyError, threads, beside, epochs
  <2> QED
    BY <2>1 DEF AuthInv, SettingsInv, Current, Matches, booted, OwnSettings, prefs,
        isEffectiveProxySetting, ProxyLevel, webRTCIsRestricted, RtcLevel
<1>2. ASSUME NEW s \in Settings, onChange(s)
      PROVE  AuthInv' /\ SettingsInv'
  <2>1. /\ UNCHANGED <<storage, awake, pc, configurationChanging, auth, configurationEpoch>>
        /\ browserSettingEpoch' = browserSettingEpoch + 1
    BY <1>2 DEF onChange
  <2>2. browserSettingEpoch \in Nat /\ \A r \in Requests : auth[r].settingEpoch \in Nat
    BY DEF TypeOK, AuthRecords
  <2>3. AuthInv'
    BY <2>1 DEF AuthInv, Current, Matches, booted
  <2>4. SettingsInv'
    BY <2>1, <2>2 DEF SettingsInv
  <2> QED BY <2>3, <2>4
<1>3. ASSUME NEW s \in Settings, NEW c \in Visible, Takeover(s, c)
      PROVE  AuthInv' /\ SettingsInv'
  <2>1. /\ UNCHANGED <<storage, proxyPref, rtcPref, awake, pc, configurationChanging,
                       auth, configurationEpoch, browserSettingEpoch>>
        /\ notices' = notices \cup {s}
        /\ \A other \in Settings \ {s}, d \in Contexts :
             <<other, d>> \in taken' <=> <<other, d>> \in taken
    BY <1>3 DEF Takeover, Contest, chain, epochs
  <2>2. \A r \in Requests : auth[r].context \in Contexts
    BY DEF TypeOK, AuthRecords
  <2>3. AuthInv'
    BY <2>1 DEF AuthInv, Current, Matches, booted
  <2>4. \A r \in Requests : OwnSettings(r) => OwnSettings(r)'
    BY <2>1, <2>2 DEF OwnSettings, isEffectiveProxySetting, ProxyLevel,
                      webRTCIsRestricted, RtcLevel, Settings
  <2>5. SettingsInv'
    BY <2>1, <2>4 DEF SettingsInv, Current
  <2> QED BY <2>3, <2>5
<1>4. CASE Kill
  <2>1. \A r \in Requests : auth'[r].pc \notin InFlight
    BY <1>4 DEF Kill, TypeOK, AuthRecords, InFlight
  <2> QED BY <2>1 DEF AuthInv, SettingsInv
<1>5. CASE Wake
  <2>1. \A r \in Requests : auth[r].pc \notin InFlight
    BY <1>5 DEF Wake, AuthInv, booted
  <2>2. auth' = auth
    BY <1>5 DEF Wake
  <2> QED BY <2>1, <2>2 DEF AuthInv, SettingsInv
<1> QED BY <1>1, <1>2, <1>3, <1>4, <1>5

\* Both invariants hold in every reachable state.
LEMMA AuthInvariant == Spec => [](TypeOK /\ DataIsBound /\ AuthInv /\ SettingsInv)
<1>1. Init => AuthInv /\ SettingsInv
  <2>1. Init => \A r \in Requests : auth[r].pc = "idle"
    <3> SUFFICES ASSUME Init, NEW r \in Requests PROVE auth[r].pc = "idle"
      OBVIOUS
    <3>1. PICK s, c, e, d, f :
            auth = [q \in Requests |-> [pc |-> "idle", server |-> s, context |-> c,
                      epoch |-> e, settingEpoch |-> e, data |-> d, effective |-> f]]
      BY Zenon DEF Init, NoChallenge
    <3> QED BY <3>1
  <2> QED BY <2>1 DEF AuthInv, SettingsInv, InFlight
<1>2. TypeOK /\ DataIsBound /\ AuthInv /\ SettingsInv /\ [Next]_vars
        => AuthInv' /\ SettingsInv'
  <2> SUFFICES ASSUME TypeOK, DataIsBound, AuthInv, SettingsInv, [Next]_vars
               PROVE  AuthInv' /\ SettingsInv'
    OBVIOUS
  <2>1. CASE UNCHANGED vars
    BY <2>1 DEF vars, threads, beside, epochs, prefs, AuthInv, SettingsInv, Current,
        Matches, booted, OwnSettings, isEffectiveProxySetting, ProxyLevel,
        webRTCIsRestricted, RtcLevel
  <2>2. CASE Worker
    BY <2>2, ThreadsKeepAuth, ChallengeKeepsAuth, WorldKeepsAuth DEF Worker
  <2>3. CASE Environment
    BY <2>3, ThreadsKeepAuth, ChallengeKeepsAuth, WorldKeepsAuth DEF Environment
  <2>4. CASE \E s \in Settings : onChange(s)
    BY <2>4, WorldKeepsAuth
  <2> QED BY <2>1, <2>2, <2>3, <2>4 DEF Next
<1> QED BY <1>1, <1>2, TypeInvariant, PTL DEF Spec

\* Only AuthGrant grants, and it finds the challenge not to be stale.
LEMMA GrantIsNotStale ==
  ASSUME TypeOK, NEW r \in Requests, Next, Grants(r)
  PROVE  AuthGrant(r)
<1>1. ASSUME NEW q \in Requests, q # r,
             \/ onAuthRequired(q) \/ clearAuthAttempt(q)
             \/ \E s \in Servers, c \in Visible : Challenge(q, s, c)
      PROVE  FALSE
  <2>1. auth'[r] = auth[r]
    BY <1>1 DEF onAuthRequired, AuthRead, AuthSettings, AuthTabGone, AuthCancel,
       AuthRejected, AuthGrant, clearAuthAttempt, Challenge, Answer, AuthStep, TypeOK
  <2> QED BY <2>1 DEF Grants
<1>2. ASSUME \/ onAuthRequired(r) \/ clearAuthAttempt(r)
             \/ \E s \in Servers, c \in Visible : Challenge(r, s, c)
      PROVE  AuthGrant(r)
  <2> USE DEF Grants, Answer, AuthStep, TypeOK
  <2>1. ~AuthRead(r) /\ ~AuthSettings(r) /\ ~AuthTabGone(r)
    BY DEF AuthRead, AuthSettings, AuthTabGone
  <2>2. ~AuthCancel(r) /\ ~AuthRejected(r) /\ ~clearAuthAttempt(r)
    <3>1. \A here, l : l # "granted" => ~Answer(r, here, l)
      BY DEF AuthRecords
    <3> QED BY <3>1 DEF AuthCancel, AuthRejected, clearAuthAttempt
  <2>3. \A s \in Servers, c \in Visible : ~Challenge(r, s, c)
    BY DEF Challenge
  <2> QED BY <1>2, <2>1, <2>2, <2>3 DEF onAuthRequired
<1>3. CASE Kill
  BY <1>3 DEF Kill, Grants, TypeOK, AuthRecords, InFlight
<1>4. ASSUME auth' = auth PROVE FALSE
  BY <1>4 DEF Grants
<1>5. CASE Worker
  BY <1>1, <1>2, <1>4, <1>5
  DEF Worker, Boot, BootDone, Operation, Start, Finish, testIp, beside
<1>6. CASE Environment
  BY <1>1, <1>2, <1>3, <1>4, <1>6
  DEF Environment, Command, Message, ProxyError, Takeover, Fail, TestStart, Wake
<1>7. CASE \E s \in Settings : onChange(s)
  BY <1>4, <1>7 DEF onChange
<1> QED BY <1>5, <1>6, <1>7 DEF Next

\* Credentials leave the worker only under the configuration they come from.
THEOREM GrantsAreCurrent == Spec => CredentialsAreCurrent
<1>1. TypeOK /\ AuthInv /\ [Next]_vars =>
        [\A r \in Requests : Grants(r) =>
           /\ ~configurationChanging
           /\ storage.enabled
           /\ storage.connection = auth[r].data.connection
           /\ storage.exclusions = auth[r].data.exclusions
           /\ ServerOf[storage.connection] = auth[r].server]_vars
  <2> SUFFICES ASSUME TypeOK, AuthInv, Next, NEW r \in Requests, Grants(r)
               PROVE  /\ ~configurationChanging /\ Matches(r)
    BY DEF Matches
  <2>1. AuthGrant(r)
    BY GrantIsNotStale
  <2>2. Current(r) /\ auth[r].pc = "decide"
    BY <2>1 DEF AuthGrant, stale, Current, Grants
  <2> QED BY <2>2 DEF AuthInv, InFlight, Current
<1> QED BY <1>1, AuthInvariant, PTL DEF Spec, CredentialsAreCurrent

\* They leave only under the extension's own PAC and WebRTC policy.
THEOREM GrantsAreUnderOwnSettings == Spec => CredentialsUnderOwnSettings
<1>1. TypeOK /\ AuthInv /\ SettingsInv /\ [Next]_vars =>
        [\A r \in Requests : Grants(r) =>
           LET c == auth[r].context IN
           /\ "proxy" \in notices \/ isEffectiveProxySetting(c, ConfiguredPac(storage))
           /\ "rtc" \in notices \/ webRTCIsRestricted(c)]_vars
  <2> SUFFICES ASSUME TypeOK, AuthInv, SettingsInv, Next, NEW r \in Requests, Grants(r)
               PROVE  LET c == auth[r].context IN
                      /\ \/ "proxy" \in notices
                         \/ isEffectiveProxySetting(c, ConfiguredPac(storage))
                      /\ "rtc" \in notices \/ webRTCIsRestricted(c)
    OBVIOUS
  <2>1. AuthGrant(r)
    BY GrantIsNotStale
  <2>2. /\ Current(r) /\ auth[r].pc = "decide" /\ auth[r].effective
        /\ auth[r].settingEpoch = browserSettingEpoch
    BY <2>1 DEF AuthGrant, stale, Current, Grants
  <2>3. Matches(r) /\ OwnSettings(r)
    BY <2>2 DEF AuthInv, SettingsInv, InFlight
  <2>4. ConfiguredPac(storage) = ConfiguredPac(auth[r].data)
    BY <2>3 DEF Matches, ConfiguredPac, buildProxyConfig
  <2> QED BY <2>3, <2>4 DEF OwnSettings
<1> QED BY <1>1, AuthInvariant, PTL DEF Spec, CredentialsUnderOwnSettings

(***************************************************************************)
(* IP checks.  A successful retry queues a task of its own that clears the *)
(* error (clearError).  The chain holds at most one such task for each     *)
(* check, and the check waits for it (QueueInv, OpInv); from "te.store" on *)
(* the check has the configuration epoch of this task.  CheckInv says what *)
(* a check knows while its epoch is the current one.                       *)
(***************************************************************************)
Clearing == {"te.check", "te.store", "te.changed", "te.done"}
\* what the chain may hold
Proper(task) ==
  /\ task.kind \notin {"boot", "bootCatch"}
  /\ task.kind \in {"proxyError", "authFailed"} => task.error # None
  /\ task.kind = "clearError" <=> task.test # None
  /\ task.kind = "importKey" => task.key # None
QueueInv ==
  /\ \A i \in 1..Len(waiting) : Proper(waiting[i]) /\ waiting[i].test = None
  /\ \A i \in 1..Len(queue) :
       /\ Proper(queue[i])
       /\ queue[i].test # None =>
            /\ test[queue[i].test].pc = "queued"
            /\ \A j \in 1..Len(queue) : queue[j].test = queue[i].test => j = i

\* where the task of a command or of a retry can be
Belongs ==
  LET kind == loc["op"].task.kind IN
  /\ pc["op"] \in {"im.disable", "im.store"} => kind = "importKey"
  /\ pc["op"] \in {"co.check", "co.clear", "co.enable", "co.undo"} \cup CoTry
       => kind = "connect"
  /\ pc["op"] = "di.disable" => kind \in {"disconnect", "forget"}
  /\ pc["op"] = "fo.remove" \/ loc["op"].ret = "fo.remove" => kind = "forget"
  /\ pc["op"] = "pe.store" => kind \in {"proxyError", "authFailed"}
  /\ pc["op"] \in Clearing => kind = "clearError"
  /\ loc["op"].ret = "te.done" => kind = "clearError"
  /\ kind = "clearError" =>
       /\ pc["op"] \in Clearing \cup BadgeLabels \cup {"end"}
       /\ loc["op"].ret \in {"te.done", "end"}
\* what the task of a retry and its check know of each other
ClearInv(t) ==
  /\ pc["op"] # "end" => test[t].pc = "queued"
  /\ pc["op"] \notin {"te.check", "end"} => test[t].epoch = configurationEpoch
  /\ pc["op"] = "te.store" =>
       storage.proxyError = test[t].error /\ storage.proxyError # "direct"
  /\ pc["op"] \in {"te.changed", "te.done"} \cup BadgeLabels => storage.proxyError = None
  /\ \A i \in 1..Len(queue) : queue[i].test # t
OpInv ==
  pc["op"] # "idle" =>
    /\ Proper(loc["op"].task) /\ Belongs
    /\ loc["op"].task.test # None => ClearInv(loc["op"].task.test)

ClearsFor(t) == pc["op"] # "idle" /\ loc["op"].task.test = t
Under(t) == \/ test[t].epoch = configurationEpoch
            \/ /\ ClearsFor(t) /\ pc["op"] = "te.check"
               /\ test[t].epoch + 1 = configurationEpoch
Observed(t) ==
  /\ storage.enabled /\ storage.connection # None
  /\ storage.connection = test[t].data.connection
  /\ storage.exclusions = test[t].data.exclusions
CheckInv(t) ==
  LET c == test[t] IN
  /\ c.pc \notin {"idle", "ok", "failed"} => booted /\ c.epoch <= configurationEpoch
  /\ /\ c.pc \in {"fetch", "look2", "check2", "queued", "last"}
     /\ configurationChanging /\ c.epoch = configurationEpoch
     => /\ c.pc \in {"queued", "last"} /\ ClearsFor(t) /\ pc["op"] # "te.check"
        /\ c.pc = "last" => pc["op"] = "end"
  /\ \/ c.pc = "check2" /\ c.state \in {"active", "retry"}
     \/ c.pc \in {"queued", "last"}
     => (Under(t) => Observed(t))
  /\ c.pc = "last" /\ c.error # None /\ c.epoch = configurationEpoch =>
       storage.proxyError = None
TestInv == QueueInv /\ OpInv /\ \A t \in Tests : CheckInv(t)

USE DEF StepLabels, Failable, RcTry, CoTry, SaTry, SaRestoreTry, BadgeLabels, Clearing

\* What the steps of a task read and write of their locals, and what a command leaves
\* of the stored error.
LEMMA OpTyped ==
  ASSUME TypeOK
  PROVE  /\ "op" \in Threads /\ "boot" \in Threads
         /\ loc["op"].task \in TaskRecords /\ loc["op"].ret \in Returns
         /\ loc["op"].task.test \in Tests \cup {None}
         /\ Snapshot("op").task = loc["op"].task /\ Snapshot("op").ret = loc["op"].ret
<1>1. loc["op"] \in LocalRecords /\ storage \in StoredData
  BY DEF TypeOK, BrowserTypeOK, Threads
<1>2. loc["op"].task \in TaskRecords /\ loc["op"].ret \in Returns
  BY <1>1 DEF LocalRecords
<1>3. loc["op"].task.test \in Tests \cup {None}
  BY <1>2 DEF TaskRecords
<1> QED BY <1>1, <1>2, <1>3 DEF Snapshot, LocalRecords, Threads

\* What the chain holds names a check or none.
LEMMA QueueTyped ==
  ASSUME TypeOK
  PROVE  /\ Len(queue) \in Nat /\ Len(waiting) \in Nat
         /\ \A i \in 1..Len(queue) : queue[i] \in TaskRecords
                                     /\ queue[i].test \in Tests \cup {None}
         /\ \A i \in 1..Len(waiting) : waiting[i] \in TaskRecords
<1>1. \A i \in 1..Len(queue) : queue[i] \in TaskRecords
  BY ElementOfSeq DEF TypeOK
<1>2. \A i \in 1..Len(waiting) : waiting[i] \in TaskRecords
  BY ElementOfSeq DEF TypeOK
<1> QED BY <1>1, <1>2, LenProperties DEF TaskRecords, TypeOK

ErrorRemoved == storage.proxyError # None /\ storage'.proxyError = None
Switched == storage'.enabled # storage.enabled
KeyReplaced == storage'.connection # storage.connection
\* what a step of a task that is no retry keeps
TaskStays ==
  /\ pc["op"] # "idle" /\ pc'["op"] # "idle"
  /\ loc'["op"].task = loc["op"].task
  /\ loc["op"].task.kind # "clearError"
  /\ Belongs'
  /\ ErrorRemoved => loc["op"].task.kind \in {"importKey", "connect", "disconnect", "forget"}
  /\ Switched /\ AppliedServerIsStored =>
       loc["op"].task.kind \in {"importKey", "connect", "disconnect", "forget"}
  /\ KeyReplaced =>
       \/ loc["op"].task.kind = "importKey" /\ storage'.connection = loc["op"].task.key
       \/ loc["op"].task.kind = "forget" /\ storage'.connection = None

\* The reconciliation removes no error.
LEMMA ReconcileStays ==
  ASSUME TypeOK, Belongs, reconcileAtStartup("op")
  PROVE  TaskStays
<1> USE OpTyped DEF TypeOK, Labels, Goto, Look, Remember, Store, SetProxy, SetRtc,
        keepFlags, clearOwnProxySetting, clearOwnWebRTCSetting, Belongs, TaskStays,
        ErrorRemoved, Switched, KeyReplaced, AppliedServerIsStored
<1>1. CASE RcRead("op") /\ keepFlags
  <2>1. LET new == [storage EXCEPT !.enabled = @ /\ storage.connection # None] IN
        /\ new.proxyError = storage.proxyError
        /\ new.connection = storage.connection
        /\ AppliedServerIsStored => new.enabled = storage.enabled
    BY Zenon DEF BrowserTypeOK, StoredData, AppliedServerIsStored
  <2>2. /\ storage'.proxyError = storage.proxyError
        /\ storage'.connection = storage.connection
        /\ AppliedServerIsStored => storage'.enabled = storage.enabled
    BY Zenon, <1>1, <2>1 DEF RcRead
  <2> HIDE DEF AppliedServerIsStored
  <2> QED BY <1>1, <2>2 DEF RcRead
<1>2. CASE RcRtc("op") /\ keepFlags
  BY <1>2 DEF RcRtc
<1>3. CASE RcUnrestricted("op") /\ keepFlags
  BY <1>3 DEF RcUnrestricted
<1>4. CASE RcSetRtc("op") /\ keepFlags
  BY <1>4 DEF RcSetRtc
<1>5. CASE RcCheckRtc("op") /\ keepFlags
  BY <1>5 DEF RcCheckRtc
<1>6. CASE RcSetProxy("op") /\ keepFlags
  BY <1>6 DEF RcSetProxy
<1>7. CASE RcCheckProxy("op") /\ keepFlags
  BY <1>7 DEF RcCheckProxy
<1>8. CASE RcCaught("op") /\ keepFlags
  BY <1>8 DEF RcCaught
<1>9. CASE OffProxy("op") /\ keepFlags
  BY <1>9 DEF OffProxy
<1>10. CASE OffRtc("op") /\ keepFlags
  BY <1>10 DEF OffRtc
<1>11. CASE RcProxy("op")
  BY <1>11 DEF RcProxy
<1>12. CASE RcLast("op")
  BY <1>12 DEF RcLast
<1> QED BY <1>1, <1>2, <1>3, <1>4, <1>5, <1>6, <1>7, <1>8, <1>9, <1>10, <1>11, <1>12
        DEF reconcileAtStartup

\* connect replaces the connection and removes its error.
LEMMA ConnectStays ==
  ASSUME TypeOK, Belongs, connect("op")
  PROVE  TaskStays
<1> USE OpTyped DEF TypeOK, Labels, Goto, Look, Remember, Store, SetProxy, SetRtc,
        keepFlags, clearOwnProxySetting, clearOwnWebRTCSetting, Belongs, TaskStays,
        ErrorRemoved, Switched, KeyReplaced, AppliedServerIsStored
<1>1. CASE CoCheck("op") /\ keepFlags
  BY <1>1 DEF CoCheck
<1>2. CASE CoRefuse("op") /\ keepFlags
  BY <1>2 DEF CoRefuse
<1>3. CASE CoClear("op") /\ keepFlags
  BY <1>3 DEF CoClear
<1>4. CASE CoEnable("op") /\ keepFlags
  <2>1. [storage EXCEPT !.enabled = TRUE, !.proxyError = None].connection = storage.connection
    BY DEF BrowserTypeOK, StoredData
  <2> QED BY <1>4, <2>1 DEF CoEnable
<1>5. CASE CoSetRtc("op") /\ keepFlags
  BY <1>5 DEF CoSetRtc
<1>6. CASE CoCheckRtc("op") /\ keepFlags
  BY <1>6 DEF CoCheckRtc
<1>7. CASE CoSetProxy("op") /\ keepFlags
  BY <1>7 DEF CoSetProxy
<1>8. CASE CoUndo("op") /\ keepFlags
  <2>1. LET new == [storage EXCEPT !.enabled = FALSE] IN
        /\ new.proxyError = storage.proxyError
        /\ new.connection = storage.connection
    BY DEF BrowserTypeOK, StoredData
  <2> QED BY <1>8, <2>1 DEF CoUndo
<1>9. CASE CoApplied("op")
  BY <1>9 DEF CoApplied
<1> QED BY <1>1, <1>2, <1>3, <1>4, <1>5, <1>6, <1>7, <1>8, <1>9
        DEF connect

\* So do importKey and disconnect; forget() is a disconnect with a removal.
LEMMA OtherCommandsStay ==
  ASSUME TypeOK, Belongs, importKey("op") \/ disconnect("op") \/ forget("op")
  PROVE  TaskStays
<1> USE OpTyped DEF TypeOK, Labels, Goto, Look, Remember, Store, SetProxy, SetRtc,
        keepFlags, clearOwnProxySetting, clearOwnWebRTCSetting, Belongs, TaskStays,
        ErrorRemoved, Switched, KeyReplaced, AppliedServerIsStored
<1>1. CASE ImDisable("op") /\ keepFlags
  <2>1. LET new == [storage EXCEPT !.enabled = FALSE] IN
        /\ new.proxyError = storage.proxyError
        /\ new.connection = storage.connection
    BY DEF BrowserTypeOK, StoredData
  <2> QED BY <1>1, <2>1 DEF ImDisable
<1>2. CASE ImStore("op") /\ keepFlags
  BY <1>2 DEF ImStore
<1>3. CASE disconnect("op")
  <2>1. [storage EXCEPT !.enabled = FALSE, !.proxyError = None].connection = storage.connection
    BY DEF BrowserTypeOK, StoredData
  <2> QED BY <1>3, <2>1 DEF disconnect
<1>4. CASE forget("op")
  <2>1. LET new == [storage EXCEPT !.connection = None, !.exclusions = NoExclusions] IN
        /\ new.proxyError = storage.proxyError
        /\ new.enabled = storage.enabled
        /\ new.connection = None
    BY DEF BrowserTypeOK, StoredData
  <2> QED BY <1>4, <2>1 DEF forget
<1> QED BY <1>1, <1>2, <1>3, <1>4
        DEF importKey

\* saveExclusions and its roll-back leave the error alone.
LEMMA SaveStays ==
  ASSUME TypeOK, Belongs, saveExclusions("op")
  PROVE  TaskStays
<1> USE OpTyped DEF TypeOK, Labels, Goto, Look, Remember, Store, SetProxy, SetRtc,
        keepFlags, clearOwnProxySetting, clearOwnWebRTCSetting, Belongs, TaskStays,
        ErrorRemoved, Switched, KeyReplaced, AppliedServerIsStored
<1>1. CASE SaCheck("op")
  BY <1>1 DEF SaCheck
<1>2. CASE SaRefuse("op") /\ keepFlags
  BY <1>2 DEF SaRefuse
<1>3. CASE SaStore("op")
  <2>1. LET new == [storage EXCEPT !.exclusions = loc["op"].task.exclusions] IN
        /\ new.proxyError = storage.proxyError
        /\ new.connection = storage.connection
        /\ new.enabled = storage.enabled
    BY DEF BrowserTypeOK, StoredData
  <2> QED BY <1>3, <2>1 DEF SaStore
<1>4. CASE SaSetProxy("op") /\ keepFlags
  BY <1>4 DEF SaSetProxy
<1>5. CASE SaApplied("op")
  BY <1>5 DEF SaApplied
<1>6. CASE SaRollback("op") /\ keepFlags
  <2>1. LET new == [storage EXCEPT !.exclusions = loc["op"].data.exclusions] IN
        /\ new.proxyError = storage.proxyError
        /\ new.connection = storage.connection
        /\ new.enabled = storage.enabled
    BY DEF BrowserTypeOK, StoredData
  <2> QED BY <1>6, <2>1 DEF SaRollback
<1>7. CASE SaMayRestore("op") /\ keepFlags
  BY <1>7 DEF SaMayRestore
<1>8. CASE SaRestore("op") /\ keepFlags
  BY <1>8 DEF SaRestore
<1>9. CASE SaRestored("op") /\ keepFlags
  BY <1>9 DEF SaRestored
<1>10. CASE SaGiveUp("op") /\ keepFlags
  BY <1>10 DEF SaGiveUp
<1> QED BY <1>1, <1>2, <1>3, <1>4, <1>5, <1>6, <1>7, <1>8, <1>9, <1>10
        DEF saveExclusions

\* A stored proxy error replaces an error, and a change of the setting stores nothing.
LEMMA EventStays ==
  ASSUME TypeOK, Belongs, Proper(loc["op"].task),
         PeStore("op") \/ onProxySettingChange("op")
  PROVE  TaskStays
<1> USE OpTyped DEF TypeOK, Labels, Goto, Look, Remember, Store, SetProxy, keepFlags,
        clearOwnProxySetting, Belongs, TaskStays, ErrorRemoved, Switched,
        KeyReplaced, AppliedServerIsStored
<1>1. CASE PeStore("op")
  <2>1. [storage EXCEPT !.proxyError = loc["op"].task.error].proxyError = loc["op"].task.error
    BY DEF BrowserTypeOK, StoredData
  <2>2. loc["op"].task.error # None
    BY <1>1 DEF PeStore, Proper
  <2> QED BY <1>1, <2>1, <2>2 DEF PeStore
<1>2. CASE ChLook("op")
  <2>1. \A l \in {"badge.look", "end"} :
          /\ [loc["op"] EXCEPT !.ret = l].ret = l
          /\ [loc["op"] EXCEPT !.ret = l].task = loc["op"].task
    BY DEF LocalRecords
  <2>2. /\ pc["op"] = "ch.look"
        /\ pc'["op"] \in {"ch.clear", "rc.read", "badge.look"}
        /\ loc'["op"].ret \in {"badge.look", "end", loc["op"].ret}
        /\ loc'["op"].task = loc["op"].task
        /\ storage' = storage
    BY <1>2, <2>1 DEF ChLook
  <2> QED BY <2>2
<1>3. CASE ChClear("op")
  BY <1>3 DEF ChClear
<1> QED BY <1>1, <1>2, <1>3 DEF onProxySettingChange

\* updateBadge of any task; that of a retry comes back to its last step.
LEMMA BadgeStays ==
  ASSUME TypeOK, Belongs, updateBadge("op")
  PROVE  /\ pc["op"] \in BadgeLabels /\ pc'["op"] # "idle"
         /\ loc'["op"].task = loc["op"].task
         /\ Belongs' /\ storage' = storage
         /\ loc["op"].task.kind = "clearError" =>
              pc'["op"] \in {"badge.set", "te.done", "end"}
<1> USE OpTyped DEF TypeOK, Labels, Goto, Remember, keepFlags, Belongs
<1>1. CASE BadgeLook("op")
  <2>1. /\ [loc["op"] EXCEPT !.state = status].task = loc["op"].task
        /\ [loc["op"] EXCEPT !.state = status].ret = loc["op"].ret
    BY DEF LocalRecords
  <2> QED BY <1>1, <2>1 DEF BadgeLook
<1>2. CASE BadgeSet("op")
  <2>1. /\ [loc["op"] EXCEPT !.ret = "end"].task = loc["op"].task
        /\ [loc["op"] EXCEPT !.ret = "end"].ret = "end"
    BY DEF LocalRecords
  <2> QED BY <1>2, <2>1 DEF BadgeSet, Returns
<1> QED BY <1>1, <1>2 DEF updateBadge

\* While a task runs, only the check that waits for it can have the current epoch.
LEMMA OthersOutdated ==
  ASSUME TypeOK, TestInv, pc["op"] # "idle", NEW t \in Tests, loc["op"].task.test # t,
         test[t].pc \in {"fetch", "look2", "check2", "queued", "last"}
  PROVE  test[t].epoch # configurationEpoch
BY DEF TypeOK, TestInv, CheckInv, ClearsFor

\* Checks run in a worker whose boot is over.
LEMMA NoneBeforeBoot ==
  ASSUME TypeOK, TestInv, ~booted
  PROVE  /\ \A t \in Tests : test[t].pc \in {"idle", "ok", "failed"}
         /\ pc["op"] # "idle" /\ loc["op"].task.test # None => pc["op"] = "end"
<1>1. \A t \in Tests : test[t].pc \in {"idle", "ok", "failed"}
  BY DEF TypeOK, TestInv, CheckInv, TestRecords, TestLabels
<1> QED BY <1>1, OpTyped DEF TestInv, OpInv, ClearInv

\* So whatever the task does to the storage, the other checks say nothing about it.
LEMMA OthersStay ==
  ASSUME TypeOK, TestInv, pc["op"] # "idle", pc'["op"] # "idle",
         loc'["op"].task = loc["op"].task,
         NEW t \in Tests, loc["op"].task.test # t, test'[t] = test[t],
         UNCHANGED <<awake, configurationChanging, configurationEpoch>>,
         pc'["boot"] = pc["boot"]
  PROVE  CheckInv(t)'
<1>1. test[t].pc \in {"fetch", "look2", "check2", "queued", "last"} =>
        test[t].epoch # configurationEpoch
  BY OthersOutdated
<1>2. CheckInv(t)
  BY DEF TestInv
<1> QED BY <1>1, <1>2 DEF CheckInv, Under, ClearsFor, booted

\* A task that is no retry may do to the storage what it likes.
LEMMA PlainKeepsTests ==
  ASSUME TypeOK, TestInv, pc["op"] # "idle", pc'["op"] # "idle",
         loc'["op"].task = loc["op"].task, loc["op"].task.kind # "clearError", Belongs',
         UNCHANGED <<queue, waiting, test, awake, configurationChanging, configurationEpoch>>,
         pc'["boot"] = pc["boot"]
  PROVE  TestInv'
<1>1. loc["op"].task.test = None
  BY DEF TestInv, OpInv, Proper
<1>2. QueueInv'
  BY DEF TestInv, QueueInv
<1>3. OpInv'
  BY <1>1 DEF TestInv, OpInv
<1>4. ASSUME NEW t \in Tests PROVE CheckInv(t)'
  BY <1>1, OthersStay, BackgroundAssumption
<1> QED BY <1>2, <1>3, <1>4 DEF TestInv

\* The steps of a retry's task: what it learns of its check, and what the check learns.
LEMMA RetryKeepsTests ==
  ASSUME TypeOK, TestInv, pc["op"] # "idle", NEW t \in Tests, loc["op"].task.test = t,
         clearError("op"),
         UNCHANGED <<queue, waiting, awake, configurationChanging, configurationEpoch,
                     proxyErrorEpoch, browserSettingEpoch>>,
         pc'["boot"] = pc["boot"]
  PROVE  TestInv'
<1> USE OpTyped DEF TypeOK, Labels, Goto, Look, Store, keepFlags
<1>0. /\ test[t] \in TestRecords /\ loc' = loc /\ pc'["op"] # "idle"
      /\ Proper(loc["op"].task) /\ Belongs /\ ClearInv(t) /\ CheckInv(t) /\ QueueInv
      /\ pc["op"] \in Clearing /\ loc["op"].task.kind = "clearError"
  <2>1. loc' = loc /\ pc'["op"] # "idle" /\ pc["op"] \in Clearing
    BY DEF clearError, TeCheck, TeStore, TeChanged, TeDone
  <2>2. Proper(loc["op"].task) /\ Belongs /\ ClearInv(t) /\ CheckInv(t) /\ QueueInv
    BY BackgroundAssumption DEF TestInv, OpInv
  <2> QED BY <2>1, <2>2, BackgroundAssumption DEF Proper
<1>1. /\ storage'.connection = storage.connection /\ storage'.enabled = storage.enabled
      /\ storage'.exclusions = storage.exclusions
      /\ storage'.proxyError \in {storage.proxyError, None}
      /\ \A s \in Tests : s # t => test'[s] = test[s]
  <2>1. LET removed == [storage EXCEPT !.proxyError = None] IN
        /\ removed.connection = storage.connection /\ removed.enabled = storage.enabled
        /\ removed.exclusions = storage.exclusions /\ removed.proxyError = None
    BY DEF BrowserTypeOK, StoredData
  <2> QED BY <1>0, <2>1 DEF clearError, TeCheck, TeStore, TeChanged, TeDone
<1>2. \A s \in Tests : s # t => CheckInv(s)'
  BY <1>0, <1>1, OthersStay
<1>3. /\ Belongs' /\ ClearInv(t)' /\ CheckInv(t)' /\ test'[t].pc \in {"queued", "last"}
  <2> USE <1>0
  <2>1. CASE TeCheck("op")
    <3> DEFINE mine == configurationEpoch = test[t].epoch + 1
    <3>1. test'[t] = [test[t] EXCEPT !.epoch = IF mine THEN configurationEpoch ELSE @]
      BY <2>1 DEF TeCheck
    <3>2. /\ test'[t].epoch = IF mine THEN configurationEpoch ELSE test[t].epoch
          /\ test'[t].pc = test[t].pc /\ test'[t].error = test[t].error
          /\ test'[t].data = test[t].data /\ test'[t].state = test[t].state
      BY <3>1 DEF TestRecords
    <3>3. pc'["op"] = "te.store" =>
            mine /\ storage.proxyError = test[t].error /\ status = "retry"
      BY <2>1 DEF TeCheck
    <3>4. status = "retry" => storage.proxyError # "direct"
      BY DEF status
    <3>5. pc["op"] = "te.check" /\ pc'["op"] \in {"te.store", "end"} /\ storage' = storage
      BY <2>1 DEF TeCheck
    <3> QED BY <3>2, <3>3, <3>4, <3>5
            DEF Belongs, ClearInv, CheckInv, Under, ClearsFor, Observed, booted, TestRecords
  <2>2. CASE TeStore("op") /\ keepFlags
    <3>1. test' = test /\ storage'.proxyError = None
      BY <2>2 DEF TeStore, BrowserTypeOK, StoredData
    <3>2. pc["op"] = "te.store" /\ pc'["op"] = "te.changed"
      BY <2>2 DEF TeStore
    <3> QED BY <1>1, <3>1, <3>2
            DEF Belongs, ClearInv, CheckInv, Under, ClearsFor, Observed, booted
  <2>3. CASE TeChanged("op") /\ keepFlags
    <3>1. /\ pc["op"] = "te.changed" /\ pc'["op"] \in {"end", "badge.look"}
          /\ UNCHANGED <<storage, test>>
      BY <2>3 DEF TeChanged
    <3> QED BY <1>1, <3>1
            DEF Belongs, ClearInv, CheckInv, Under, ClearsFor, Observed, booted
  <2>4. CASE TeDone("op") /\ keepFlags
    <3>1. /\ test'[t] = [test[t] EXCEPT !.pc = "last"] /\ storage' = storage
          /\ pc["op"] = "te.done" /\ pc'["op"] = "end"
      BY <2>4 DEF TeDone
    <3>2. /\ test'[t].epoch = test[t].epoch /\ test'[t].pc = "last"
          /\ test'[t].error = test[t].error /\ test'[t].data = test[t].data
      BY <3>1 DEF TestRecords
    <3> QED BY <1>1, <3>1, <3>2
            DEF Belongs, ClearInv, CheckInv, Under, ClearsFor, Observed, booted
  <2> QED BY <2>1, <2>2, <2>3, <2>4 DEF clearError
<1>4. QueueInv'
  BY <1>0, <1>1, QueueTyped DEF QueueInv, ClearInv
<1>5. OpInv'
  BY <1>0, <1>3 DEF OpInv
<1> QED BY <1>2, <1>3, <1>4, <1>5 DEF TestInv

\* updateBadge and a rejected call leave all of it as it is, and end a retry at most.
LEMMA QuietKeepsTests ==
  ASSUME TypeOK, TestInv, pc["op"] # "idle", pc'["op"] # "idle", Belongs',
         loc'["op"].task = loc["op"].task,
         loc["op"].task.kind = "clearError" =>
           /\ pc'["op"] \in {"badge.set", "te.done", "end"}
           /\ pc'["op"] # "end" => pc["op"] \in BadgeLabels,
         UNCHANGED <<storage, queue, waiting, test, awake, configurationChanging,
                     configurationEpoch>>,
         pc'["boot"] = pc["boot"]
  PROVE  TestInv'
<1>1. CASE loc["op"].task.kind # "clearError"
  BY <1>1, PlainKeepsTests
<1>2. CASE loc["op"].task.kind = "clearError"
  <2> DEFINE t == loc["op"].task.test
  <2>1. t \in Tests /\ Proper(loc["op"].task) /\ ClearInv(t) /\ CheckInv(t) /\ QueueInv
    BY <1>2, OpTyped DEF TestInv, OpInv, Proper
  <2>2. \A s \in Tests : s # t => CheckInv(s)'
    BY OthersStay
  <2>3. ClearInv(t)' /\ CheckInv(t)'
    BY <1>2, <2>1
    DEF ClearInv, CheckInv, Under, ClearsFor, Observed, booted, TypeOK, TestRecords
  <2>4. QueueInv' /\ OpInv'
    BY <2>1, <2>3 DEF QueueInv, OpInv
  <2> QED BY <2>2, <2>3, <2>4 DEF TestInv
<1> QED BY <1>1, <1>2

\* Every step of a task keeps the invariant; what removes an error is one of the four
\* commands or the last step of a retry.
LEMMA OperationKeepsTests ==
  ASSUME TypeOK, DataIsBound, TestInv, Operation
  PROVE  TestInv'
<1>1. /\ UNCHANGED <<queue, waiting, awake, configurationChanging, configurationEpoch,
                     proxyErrorEpoch, browserSettingEpoch>>
      /\ pc'["boot"] = pc["boot"] /\ pc["op"] # "idle" /\ pc'["op"] # "idle"
  <2>1. StepEffect("op") /\ pc'["boot"] = pc["boot"]
    BY OperationEffect DEF StepEffect, TypeOK, Threads
  <2> QED BY <2>1 DEF StepEffect, Operation, chain, beside, epochs
<1>2. Proper(loc["op"].task) /\ Belongs
  BY <1>1 DEF TestInv, OpInv
<1>3. CASE clearError("op")
  <2>1. loc["op"].task.kind = "clearError"
    BY <1>2, <1>3
    DEF Belongs, clearError, TeCheck, TeStore, TeChanged, TeDone, Look, Store, Goto
  <2>2. loc["op"].task.test \in Tests
    BY <1>2, <2>1, OpTyped DEF Proper
  <2> QED BY <1>1, <1>3, <2>2, RetryKeepsTests
<1>4. CASE updateBadge("op") /\ UNCHANGED test
  BY <1>1, <1>2, <1>4, BadgeStays, QuietKeepsTests
<1>5. CASE /\ \/ reconcileAtStartup("op") \/ importKey("op") \/ connect("op")
              \/ disconnect("op") \/ forget("op") \/ saveExclusions("op")
              \/ PeStore("op") \/ onProxySettingChange("op")
           /\ UNCHANGED test
  <2>1. TaskStays
    BY <1>2, <1>5, ReconcileStays, ConnectStays, OtherCommandsStay, SaveStays, EventStays
  <2> QED BY <1>1, <1>5, <2>1, PlainKeepsTests DEF TaskStays
<1> QED BY <1>3, <1>4, <1>5 DEF Operation

\* A rejected call ends a retry.
LEMMA FailKeepsTests ==
  ASSUME TypeOK, TestInv, Fail("op")
  PROVE  TestInv'
<1>1. /\ UNCHANGED <<storage, queue, waiting, test, awake, configurationChanging,
                     configurationEpoch>>
      /\ pc'["boot"] = pc["boot"] /\ pc["op"] # "idle" /\ pc["op"] \in Failable
      /\ pc'["op"] = Rescue("op")
  BY DEF Fail, chain, epochs, TypeOK, Threads
<1>2. Proper(loc["op"].task) /\ Belongs
  BY <1>1 DEF TestInv, OpInv
<1>3. /\ Rescue("op") \in {"rc.caught", "co.undo", "sa.rollback", "sa.giveUp",
                           "badge.look", "end"}
      /\ loc["op"].task.kind = "clearError" => Rescue("op") = "end"
      /\ Rescue("op") = "co.undo" => pc["op"] \in CoTry
  BY <1>1, <1>2 DEF Rescue, Proper, Belongs
<1>4. /\ loc'["op"].task = loc["op"].task
      /\ loc'["op"].ret \in {loc["op"].ret, "end"}
  <2>1. loc["op"] \in LocalRecords /\ loc["op"].task \in TaskRecords
    BY LocalsTyped, OpTyped
  <2>2. Rescue("op") # "boot.clear"
    BY <1>3
  <2> QED BY <2>1, <2>2, OpTyped DEF Fail, LocalRecords, TaskRecords, TypeOK
<1>5. Belongs'
  BY <1>1, <1>2, <1>3, <1>4 DEF Belongs
<1> QED BY <1>1, <1>3, <1>4, <1>5, QuietKeepsTests

\* Before boot is over there are no checks to keep anything for.
LEMMA BootKeepsTests ==
  ASSUME TypeOK, DataIsBound, TestInv, Boot \/ Fail("boot")
  PROVE  TestInv'
<1>1. /\ UNCHANGED <<queue, waiting, test, awake, configurationChanging, configurationEpoch>>
      /\ pc["boot"] # "done" /\ pc'["op"] = pc["op"] /\ loc'["op"] = loc["op"]
  BY BootEffect DEF StepEffect, Boot, Fail, chain, epochs, beside, TypeOK, Threads
<1>2. /\ \A t \in Tests : test[t].pc \in {"idle", "ok", "failed"}
      /\ pc["op"] # "idle" /\ loc["op"].task.test # None => pc["op"] = "end"
  BY <1>1, NoneBeforeBoot DEF booted
<1>3. QueueInv'
  BY <1>1 DEF TestInv, QueueInv
<1>4. OpInv'
  BY <1>1, <1>2 DEF TestInv, OpInv, Belongs, ClearInv
<1>5. \A t \in Tests : CheckInv(t)'
  BY <1>1, <1>2 DEF CheckInv
<1> QED BY <1>3, <1>4, <1>5 DEF TestInv

\* What waited for boot enters the chain: none of it is a retry.
LEMMA BootDoneKeepsTests ==
  ASSUME TypeOK, TestInv, BootDone
  PROVE  TestInv'
<1>1. /\ queue' = queue \o waiting /\ waiting' = <<>> /\ test' = test /\ pc["boot"] = "end"
      /\ UNCHANGED <<storage, awake, configurationChanging, configurationEpoch>>
      /\ pc'["op"] = pc["op"] /\ loc'["op"] = loc["op"]
  BY DEF BootDone, Goto, epochs, TypeOK, Threads
<1>2. /\ \A t \in Tests : test[t].pc \in {"idle", "ok", "failed"}
      /\ pc["op"] # "idle" /\ loc["op"].task.test # None => pc["op"] = "end"
  BY <1>1, NoneBeforeBoot DEF booted
<1>3. /\ \A i \in 1..Len(waiting) : Proper(waiting[i]) /\ waiting[i].test = None
      /\ \A i \in 1..Len(queue) : Proper(queue[i]) /\ queue[i].test = None
  BY <1>2, QueueTyped DEF TestInv, QueueInv
<1>4. \A i \in 1..Len(queue') : Proper(queue'[i]) /\ queue'[i].test = None
  <2> SUFFICES ASSUME NEW i \in 1..Len(queue')
               PROVE  Proper(queue'[i]) /\ queue'[i].test = None
    OBVIOUS
  <2>1. /\ Len(queue') = Len(queue) + Len(waiting)
        /\ queue'[i] = IF i <= Len(queue) THEN queue[i] ELSE waiting[i - Len(queue)]
    BY <1>1, ConcatProperties DEF TypeOK
  <2>2. CASE i <= Len(queue)
    BY <1>3, <2>1, <2>2, QueueTyped
  <2>3. CASE i > Len(queue)
    <3>1. i - Len(queue) \in 1..Len(waiting)
      BY <2>1, <2>3, QueueTyped
    <3> QED BY <1>3, <2>1, <2>3, <3>1, QueueTyped
  <2> QED BY <2>2, <2>3, QueueTyped
<1>5. QueueInv'
  BY <1>1, <1>4, EmptySeq DEF QueueInv
<1>6. OpInv'
  BY <1>1, <1>2, <1>4, BackgroundAssumption DEF TestInv, OpInv, Belongs, ClearInv, Proper
<1>7. \A t \in Tests : CheckInv(t)'
  BY <1>1, <1>2 DEF CheckInv
<1> QED BY <1>5, <1>6, <1>7 DEF TestInv

\* A task begins: every check under way is outdated, but for one whose own retry it is.
LEMMA StartKeepsTests ==
  ASSUME TypeOK, TestInv, Start
  PROVE  TestInv'
<1> DEFINE task == queue[1]
<1>1. /\ queue # <<>> /\ queue' = Tail(queue) /\ queue \in Seq(TaskRecords)
      /\ pc["op"] = "idle" /\ pc'["op"] = Entry(task.kind) /\ loc'["op"] = Locals(task)
      /\ pc'["boot"] = pc["boot"]
      /\ UNCHANGED <<storage, test, awake, waiting>>
      /\ configurationEpoch' = configurationEpoch + 1 /\ configurationChanging'
  BY HeadTailProperties DEF Start, Goto, beside, TypeOK, Threads
<1>2. /\ Len(queue) \in Nat \ {0} /\ Len(queue') = Len(queue) - 1
      /\ \A i \in 1..Len(queue') : queue'[i] = queue[i + 1]
  BY <1>1, HeadTailProperties, EmptySeq
<1>3. task \in TaskRecords /\ task.test \in Tests \cup {None}
  BY <1>2, QueueTyped
<1>4. /\ Proper(task)
      /\ task.test # None =>
           /\ test[task.test].pc = "queued"
           /\ \A i \in 1..Len(queue') : queue'[i].test # task.test
  BY <1>2 DEF TestInv, QueueInv
<1>5. QueueInv'
  <2> SUFFICES ASSUME NEW i \in 1..Len(queue')
               PROVE  /\ Proper(queue'[i])
                      /\ queue'[i].test # None =>
                           /\ test[queue'[i].test].pc = "queued"
                           /\ \A j \in 1..Len(queue') :
                                  queue'[j].test = queue'[i].test => j = i
    BY <1>1 DEF TestInv, QueueInv
  <2>1. /\ i + 1 \in 1..Len(queue) /\ queue'[i] = queue[i + 1]
        /\ \A j \in 1..Len(queue') : j + 1 \in 1..Len(queue) /\ queue'[j] = queue[j + 1]
    BY <1>2
  <2> QED BY <2>1 DEF TestInv, QueueInv
<1>6. OpInv'
  <2>1. loc'["op"].task = task /\ loc'["op"].ret = AfterBadge(task.kind)
    BY <1>1 DEF Locals
  <2> HIDE DEF task
  <2>2. Belongs'
    BY <1>1, <1>3, <2>1 DEF Belongs, Entry, AfterBadge, TaskRecords, Kinds
  <2>3. ASSUME NEW t \in Tests, task.test = t
        PROVE  ClearInv(t)'
    <3>1. task.kind = "clearError" /\ pc'["op"] = "te.check"
      BY <1>1, <1>4, <2>3, BackgroundAssumption DEF Proper, Entry
    <3> QED BY <1>1, <1>4, <2>3, <3>1, BackgroundAssumption DEF ClearInv
  <2> QED BY <1>3, <1>4, <2>1, <2>2, <2>3 DEF OpInv
<1>7. ASSUME NEW t \in Tests PROVE CheckInv(t)'
  <2>1. CheckInv(t) /\ ~ClearsFor(t) /\ test[t] \in TestRecords /\ configurationEpoch \in Nat
    BY <1>1 DEF TestInv, ClearsFor, TypeOK
  <2>2. test[t].epoch \in Nat /\ test[t].pc \in TestLabels
    BY <2>1 DEF TestRecords
  <2>3. Under(t)' /\ test[t].epoch <= configurationEpoch => Under(t)
    BY <1>1, <2>1, <2>2 DEF Under
  <2> QED BY <1>1, <2>1, <2>2, <2>3 DEF CheckInv, Observed, booted, TestLabels
<1> QED BY <1>5, <1>6, <1>7 DEF TestInv

\* A task ends: a check that still waits for it has failed.
LEMMA FinishKeepsTests ==
  ASSUME TypeOK, TestInv, Finish
  PROVE  TestInv'
<1> DEFINE t == loc["op"].task.test
<1>1. /\ pc["op"] = "end" /\ pc'["op"] = "idle" /\ pc'["boot"] = pc["boot"]
      /\ UNCHANGED <<storage, queue, waiting, awake, configurationEpoch>>
      /\ configurationChanging' = FALSE /\ configurationChanging
  BY DEF Finish, Goto, epochs, beside, TypeOK, Threads
<1>2. t # None => t \in Tests /\ \A i \in 1..Len(queue) : queue[i].test # t
  BY <1>1, OpTyped DEF TestInv, OpInv, ClearInv
<1>3. \A s \in Tests : s # t => test'[s] = test[s]
  BY DEF Finish, TypeOK
<1>4. QueueInv'
  BY <1>1, <1>2, <1>3, QueueTyped DEF TestInv, QueueInv
<1>5. ASSUME NEW s \in Tests PROVE CheckInv(s)'
  <2>1. CheckInv(s)
    BY DEF TestInv
  <2>2. CASE s # t
    <3>1. test[s].pc \in {"fetch", "look2", "check2", "queued", "last"} =>
            test[s].epoch # configurationEpoch
      BY <1>1, <2>2, OthersOutdated
    <3> QED BY <1>1, <1>3, <2>1, <2>2, <3>1 DEF CheckInv, Under, ClearsFor, booted
  <2>3. CASE s = t
    <3>1. \/ test'[s].pc = "failed"
          \/ test'[s] = test[s] /\ test[s].pc # "queued"
      BY <2>3, BackgroundAssumption DEF Finish, TypeOK, TestRecords
    <3>2. test'[s].pc = "failed" => CheckInv(s)'
      BY DEF CheckInv
    <3>3. ASSUME test'[s] = test[s], test[s].pc # "queued" PROVE CheckInv(s)'
      BY <1>1, <2>1, <3>3 DEF CheckInv, Under, ClearsFor, Observed, booted
    <3> QED BY <3>1, <3>2, <3>3
  <2> QED BY <2>2, <2>3
<1> QED BY <1>1, <1>4, <1>5 DEF TestInv, OpInv

\* A task other than a retry enters the chain, or what waits for boot, or nothing does.
Chained(task) ==
  \/ queue' = Append(queue, task) /\ waiting' = waiting
  \/ queue' = queue /\ waiting' = Append(waiting, task)
LEMMA ChainingKeepsTests ==
  ASSUME TypeOK, TestInv,
         UNCHANGED <<storage, pc, loc, test, awake, configurationChanging,
                     configurationEpoch>>,
         \/ UNCHANGED <<queue, waiting>>
         \/ \E task \in TaskRecords : Proper(task) /\ task.test = None /\ Chained(task)
  PROVE  TestInv'
<1>1. QueueInv' /\ \A t \in Tests : (\A i \in 1..Len(queue) : queue[i].test # t)
                     => (\A i \in 1..Len(queue') : queue'[i].test # t)
  <2>1. CASE UNCHANGED <<queue, waiting>>
    BY <2>1 DEF TestInv, QueueInv
  <2>2. ASSUME NEW task \in TaskRecords, Proper(task), task.test = None,
               queue' = Append(queue, task), waiting' = waiting
        PROVE  <1>1
    <3>1. /\ Len(queue') = Len(queue) + 1 /\ Len(queue) \in Nat
          /\ \A i \in 1..Len(queue') :
               queue'[i] = IF i = Len(queue) + 1 THEN task ELSE queue[i]
      BY <2>2, AppendProperties, QueueTyped DEF TypeOK
    <3> QED BY <2>2, <3>1, BackgroundAssumption DEF TestInv, QueueInv
  <2>3. ASSUME NEW task \in TaskRecords, Proper(task), task.test = None,
               queue' = queue, waiting' = Append(waiting, task)
        PROVE  <1>1
    <3>1. /\ Len(waiting') = Len(waiting) + 1 /\ Len(waiting) \in Nat
          /\ \A i \in 1..Len(waiting') :
               waiting'[i] = IF i = Len(waiting) + 1 THEN task ELSE waiting[i]
      BY <2>3, AppendProperties, QueueTyped DEF TypeOK
    <3> QED BY <2>3, <3>1 DEF TestInv, QueueInv
  <2> QED BY <2>1, <2>2, <2>3 DEF Chained
<1>2. OpInv'
  <2>1. ASSUME pc["op"] # "idle", loc["op"].task.test # None
        PROVE  ClearInv(loc["op"].task.test)'
    BY <1>1, <2>1, OpTyped DEF TestInv, OpInv, ClearInv
  <2> QED BY <2>1 DEF TestInv, OpInv, Belongs
<1>3. \A t \in Tests : CheckInv(t)'
  BY DEF TestInv, CheckInv, Under, ClearsFor, Observed, booted
<1> QED BY <1>1, <1>2, <1>3 DEF TestInv

\* The tasks of commands, of proxy errors and of changed settings are no retries.
LEMMA CommandProper ==
  ASSUME NEW kind \in Kinds \ {"boot", "bootCatch", "proxyError", "authFailed", "clearError"},
         NEW key \in Keys \cup {None}, NEW x \in Lists,
         kind = "importKey" => key # None
  PROVE  LET task == [Task(kind) EXCEPT !.key = key, !.exclusions = x] IN
         task \in TaskRecords /\ Proper(task) /\ task.test = None
<1> DEFINE task == [Task(kind) EXCEPT !.key = key, !.exclusions = x]
<1>1. task \in TaskRecords
  <2>1. kind \in Kinds
    OBVIOUS
  <2> QED BY <2>1, TasksTyped, Zenon
<1>2. task.kind = kind /\ task.test = None /\ task.key = key
  BY DEF Task
<1> HIDE DEF task
<1>3. Proper(task)
  BY <1>2 DEF Proper
<1> QED BY <1>1, <1>2, <1>3 DEF task

LEMMA ErrorProper ==
  ASSUME NEW kind \in {"proxyError", "authFailed"}, NEW e \in Errors
  PROVE  LET task == [Task(kind) EXCEPT !.error = e] IN
         task \in TaskRecords /\ Proper(task) /\ task.test = None
<1> DEFINE task == [Task(kind) EXCEPT !.error = e]
<1>1. task \in TaskRecords
  <2>1. kind \in Kinds
    BY DEF Kinds
  <2> QED BY <2>1, TasksTyped, Zenon
<1>2. task.kind = kind /\ task.test = None /\ task.error = e
  BY DEF Task
<1> HIDE DEF task
<1>3. Proper(task)
  BY <1>2, BrowserAssumption DEF Proper
<1> QED BY <1>1, <1>2, <1>3 DEF task

LEMMA ChangeProper ==
  ASSUME NEW s \in Settings
  PROVE  ChangeTask(s) \in TaskRecords /\ Proper(ChangeTask(s)) /\ ChangeTask(s).test = None
<1>1. PICK kind \in {"proxyChange", "rtcChange"} : ChangeTask(s) = Task(kind)
  BY DEF ChangeTask
<1>2. Task(kind) \in TaskRecords
  <2>1. kind \in Kinds
    BY DEF Kinds
  <2> QED BY <2>1, TasksTyped, Zenon
<1>3. Task(kind).kind = kind /\ Task(kind).test = None
  BY DEF Task
<1> QED BY <1>1, <1>2, <1>3 DEF Proper

\* A challenge chains a task only if its credentials were rejected.
LEMMA ChallengeKeepsTests ==
  ASSUME TypeOK, TestInv, NEW r \in Requests,
         \/ onAuthRequired(r) \/ clearAuthAttempt(r)
         \/ \E s \in Servers, c \in Visible : Challenge(r, s, c)
  PROVE  TestInv'
<1>1. UNCHANGED <<storage, pc, loc, test, awake, configurationChanging,
                  configurationEpoch, waiting>>
  BY DEF onAuthRequired, AuthRead, AuthSettings, AuthTabGone, AuthCancel, AuthRejected,
      AuthGrant, clearAuthAttempt, Challenge, Answer, AuthStep
<1>2. \/ queue' = queue
      \/ queue' = Append(queue, [Task("authFailed") EXCEPT !.error = "authFailed"])
  BY DEF onAuthRequired, AuthRead, AuthSettings, AuthTabGone, AuthCancel, AuthRejected,
      AuthGrant, clearAuthAttempt, Challenge, Enqueue, quiet
<1> DEFINE task == [Task("authFailed") EXCEPT !.error = "authFailed"]
<1>3. task \in TaskRecords /\ Proper(task) /\ task.test = None
  BY ErrorProper DEF Errors
<1> HIDE DEF task
<1> QED BY <1>1, <1>2, <1>3, ChainingKeepsTests DEF Chained, task

\* Challenges, commands, errors and changes of settings leave the checks alone.
LEMMA WorldKeepsTests ==
  ASSUME TypeOK, TestInv,
         \/ \E r \in Requests : \/ onAuthRequired(r) \/ clearAuthAttempt(r)
                                \/ \E s \in Servers, c \in Visible : Challenge(r, s, c)
         \/ Command \/ \E e \in {"fatal", "direct"} : ProxyError(e)
         \/ \E s \in Settings : onChange(s)
         \/ \E s \in Settings, c \in Visible : Takeover(s, c)
  PROVE  TestInv'
<1> USE DEF threads, epochs
<1>1. CASE \E r \in Requests : \/ onAuthRequired(r) \/ clearAuthAttempt(r)
                               \/ \E s \in Servers, c \in Visible : Challenge(r, s, c)
  BY <1>1, ChallengeKeepsTests
<1>2. CASE Command
  <2>1. PICK kind \in Kinds \ {"boot", "bootCatch", "proxyError", "authFailed", "clearError"},
             key \in Keys \cup {None}, x \in Lists :
             Message(kind, key, x) /\ (kind = "importKey" => key # None)
    BY <1>2, BrowserAssumption DEF Command, Kinds
  <2> DEFINE task == [Task(kind) EXCEPT !.key = key, !.exclusions = x]
  <2>2. task \in TaskRecords /\ Proper(task) /\ task.test = None
    BY <2>1, CommandProper, Zenon
  <2>3. Chained(task)
    BY <2>1 DEF Message, Enqueue, Chained
  <2> HIDE DEF task
  <2> QED BY <2>1, <2>2, <2>3, ChainingKeepsTests DEF Message
<1>3. ASSUME NEW e \in {"fatal", "direct"}, ProxyError(e)
      PROVE  TestInv'
  <2> DEFINE task == [Task("proxyError") EXCEPT !.error = e]
  <2>1. task \in TaskRecords /\ Proper(task) /\ task.test = None
    BY ErrorProper DEF Errors
  <2>2. Chained(task)
    BY <1>3 DEF ProxyError, Enqueue, Chained
  <2> HIDE DEF task
  <2> QED BY <1>3, <2>1, <2>2, ChainingKeepsTests DEF ProxyError
<1>4. ASSUME NEW s \in Settings, onChange(s)
      PROVE  TestInv'
  <2>1. Chained(ChangeTask(s))
    BY <1>4 DEF onChange, Enqueue, Chained
  <2> QED BY <1>4, <2>1, ChangeProper, ChainingKeepsTests DEF onChange
<1>5. ASSUME NEW s \in Settings, NEW c \in Visible, Takeover(s, c)
      PROVE  TestInv'
  BY <1>5, ChainingKeepsTests DEF Takeover, Contest, chain
<1> QED BY <1>1, <1>2, <1>3, <1>4, <1>5

\* A killed worker forgets its checks, and a loaded one has none yet.
LEMMA RestartKeepsTests ==
  ASSUME TypeOK, TestInv, Kill \/ Wake
  PROVE  TestInv'
<1>1. CASE Kill
  <2>1. /\ pc'["op"] = "idle" /\ queue' = <<>> /\ waiting' = <<>>
        /\ \A t \in Tests : test'[t].pc = "idle"
    BY <1>1 DEF Kill, Asleep, NoTest, Threads
  <2> QED BY <2>1, EmptySeq DEF TestInv, QueueInv, OpInv, CheckInv
<1>2. CASE Wake
  <2>1. /\ UNCHANGED <<storage, queue, waiting, test, loc, configurationChanging,
                       configurationEpoch>>
        /\ ~booted /\ pc'["op"] = pc["op"]
    BY <1>2 DEF Wake, booted, chain, epochs, TypeOK, Threads
  <2>2. /\ \A t \in Tests : test[t].pc \in {"idle", "ok", "failed"}
        /\ pc["op"] # "idle" /\ loc["op"].task.test # None => pc["op"] = "end"
    BY <2>1, NoneBeforeBoot
  <2>3. QueueInv'
    BY <2>1 DEF TestInv, QueueInv
  <2>4. OpInv'
    BY <2>1, <2>2 DEF TestInv, OpInv, Belongs, ClearInv
  <2>5. \A t \in Tests : CheckInv(t)'
    BY <2>1, <2>2 DEF CheckInv
  <2> QED BY <2>3, <2>4, <2>5 DEF TestInv
<1> QED BY <1>1, <1>2

\* What a look at the status changes of a check.
LEMMA LookUpdate ==
  ASSUME TypeOK, NEW t \in Tests, NEW here, NEW next, TestLook(t, here, next)
  PROVE  /\ test[t].pc = here /\ test'[t].pc = next
         /\ test'[t].data = storage /\ test'[t].state = status
         /\ test'[t].epoch = test[t].epoch
         /\ test'[t].settingEpoch = test[t].settingEpoch
<1> DEFINE s == status
<1> HIDE DEF s
<1>1. /\ test[t].pc = here
      /\ test' = [test EXCEPT ![t] = [test[t] EXCEPT !.pc = next, !.data = storage,
                                                     !.state = s]]
  BY DEF TestLook, TestStep, s
<1>2. test[t] \in TestRecords /\ test \in [Tests -> TestRecords]
  BY DEF TypeOK
<1>3. test'[t] = [test[t] EXCEPT !.pc = next, !.data = storage, !.state = s]
  BY <1>1, <1>2
<1>4. /\ test'[t].pc = next /\ test'[t].data = storage /\ test'[t].state = s
      /\ test'[t].epoch = test[t].epoch
      /\ test'[t].settingEpoch = test[t].settingEpoch
  BY <1>2, <1>3 DEF TestRecords
<1> QED BY <1>1, <1>4 DEF s

\* The steps of a check itself.  It goes on only while no task runs and none has run
\* since it began, so what it has observed is what is stored.
LEMMA CheckKeepsOwn ==
  ASSUME TypeOK, TestInv, NEW t \in Tests, testIp(t) \/ TestStart(t)
  PROVE  CheckInv(t)'
<1>1. /\ UNCHANGED <<storage, pc, loc, awake, configurationChanging, configurationEpoch>>
      /\ test[t] \in TestRecords /\ CheckInv(t) /\ configurationEpoch \in Nat
  BY DEF testIp, TestStart, threads, epochs, beside, TypeOK, TestInv
<1>2. configurationChanging <=> pc["op"] # "idle"
  BY DEF TypeOK
<1> USE <1>1
<1>3. CASE TestStart(t)
  <2>1. /\ test'[t].pc = "look" /\ test'[t].epoch = configurationEpoch /\ booted
    BY <1>3 DEF TestStart, NoTest, TypeOK
  <2> QED BY <2>1 DEF CheckInv, booted
<1>4. CASE TestCheck(t)
  <2>1. \/ test'[t].pc = "failed"
        \/ /\ test'[t].pc = "fetch" /\ test'[t].epoch = test[t].epoch
           /\ ~configurationChanging /\ test[t].pc = "check"
    BY <1>4 DEF TestCheck, TestStep, Unusable, TypeOK, TestRecords
  <2> QED BY <2>1 DEF CheckInv, booted
<1>5. CASE TestFetch(t)
  <2>1. /\ test'[t].pc \in {"look2", "failed"} /\ test'[t].epoch = test[t].epoch
        /\ test[t].pc = "fetch"
    BY <1>5 DEF TestFetch, TestStep, TypeOK, TestRecords
  <2> QED BY <2>1 DEF CheckInv, booted
<1>6. CASE TestLook(t, "look", "check") \/ TestLook(t, "look2", "check2")
  <2>1. /\ test'[t].epoch = test[t].epoch
        /\ test'[t].data = storage /\ test'[t].state = status
        /\ \/ test[t].pc = "look" /\ test'[t].pc = "check"
           \/ test[t].pc = "look2" /\ test'[t].pc = "check2"
    BY <1>6, LookUpdate
  <2>2. status \in {"active", "retry"} => storage.enabled /\ storage.connection # None
    BY DEF status
  <2> QED BY <2>1, <2>2 DEF CheckInv, Under, ClearsFor, Observed, booted
<1>7. CASE TestCheck2(t)
  <2>1. /\ test'[t].epoch = test[t].epoch /\ test'[t].data = test[t].data
        /\ test'[t].error = test[t].error /\ test[t].pc = "check2"
        /\ \/ test'[t].pc = "failed"
           \/ /\ test'[t].pc = IF test[t].error # None THEN "queued" ELSE "last"
              /\ test[t].state \in {"active", "retry"} /\ ~configurationChanging
              /\ test[t].epoch = configurationEpoch
    BY <1>7 DEF TestCheck2, TestStep, Unusable, changed, TypeOK, TestRecords
  <2> QED BY <1>2, <2>1 DEF CheckInv, Under, ClearsFor, Observed, booted
<1>8. CASE TestLast(t)
  <2>1. test'[t].pc \in {"failed", "ok"}
    BY <1>8 DEF TestLast, TestStep, TypeOK, TestRecords
  <2> QED BY <2>1 DEF CheckInv
<1> QED BY <1>3, <1>4, <1>5, <1>6, <1>7, <1>8 DEF testIp

\* Only one retry of a check is ever in the chain, and none of a check that begins.
LEMMA CheckKeepsTests ==
  ASSUME TypeOK, TestInv, NEW t \in Tests, testIp(t) \/ TestStart(t)
  PROVE  TestInv'
<1>1. /\ UNCHANGED <<storage, pc, loc, awake, waiting, configurationChanging,
                     configurationEpoch>>
      /\ \A s \in Tests : s # t => test'[s] = test[s]
      /\ test[t].pc # "queued"
  BY DEF testIp, TestLook, TestCheck, TestFetch, TestCheck2, TestLast, TestStep, TestStart,
         threads, epochs, beside, TypeOK
<1>2. \/ queue' = queue
      \/ /\ queue' = Append(queue, [Task("clearError") EXCEPT !.test = t])
         /\ test'[t].pc = "queued" /\ ~configurationChanging
  <2>1. test[t] \in TestRecords
    BY DEF TypeOK
  <2>2. TestLook(t, "look", "check") \/ TestLook(t, "look2", "check2")
          => test'[t].pc # "queued"
    BY LookUpdate
  <2>3. TestCheck(t) \/ TestFetch(t) \/ TestLast(t) => test'[t].pc # "queued"
    <3>1. TestCheck(t) => test'[t].pc # "queued"
      BY <2>1 DEF TestCheck, TestStep, TypeOK, TestRecords
    <3>2. TestFetch(t) => test'[t].pc # "queued"
      BY <2>1 DEF TestFetch, TestStep, TypeOK, TestRecords
    <3>3. TestLast(t) => test'[t].pc # "queued"
      BY <2>1 DEF TestLast, TestStep, TypeOK, TestRecords
    <3> QED BY <3>1, <3>2, <3>3
  <2>4. TestCheck2(t) /\ test'[t].pc = "queued" => ~configurationChanging
    BY <2>1 DEF TestCheck2, TestStep, Unusable, TypeOK, TestRecords
  <2>5. TestStart(t) => test'[t].pc # "queued"
    BY DEF TestStart, NoTest, TypeOK
  <2>6. test'[t].pc = "queued" => ~configurationChanging
    BY <2>2, <2>3, <2>4, <2>5 DEF testIp
  <2> QED BY <2>5, <2>6 DEF testIp, TestStart, Enqueue
<1>3. \A i \in 1..Len(queue) : queue[i].test # t
  BY <1>1, BackgroundAssumption DEF TestInv, QueueInv
<1>4. QueueInv'
  <2>1. CASE queue' = queue
    BY <1>1, <1>3, <2>1, QueueTyped DEF TestInv, QueueInv
  <2>2. CASE queue' # queue
    <3> DEFINE task == [Task("clearError") EXCEPT !.test = t]
    <3>1. task.kind = "clearError" /\ task.test = t /\ task \in TaskRecords
      <4>1. task \in TaskRecords
        <5>1. "clearError" \in Kinds
          BY DEF Kinds
        <5> QED BY <5>1, TasksTyped, Zenon
      <4> QED BY <4>1 DEF Task
    <3>2. queue' = Append(queue, task) /\ test'[t].pc = "queued"
      BY <1>2, <2>2
    <3> HIDE DEF task
    <3>3. /\ Len(queue') = Len(queue) + 1 /\ Len(queue) \in Nat
          /\ \A i \in 1..Len(queue') :
               queue'[i] = IF i = Len(queue) + 1 THEN task ELSE queue[i]
      BY <3>1, <3>2, AppendProperties, QueueTyped DEF TypeOK
    <3>4. Proper(task)
      BY <3>1, BackgroundAssumption DEF Proper
    <3> QED BY <1>1, <1>3, <3>1, <3>2, <3>3, <3>4, QueueTyped DEF TestInv, QueueInv
  <2> QED BY <2>1, <2>2
<1>5. OpInv'
  <2>1. ASSUME NEW s \in Tests, pc["op"] # "idle", loc["op"].task.test = s
        PROVE  ClearInv(s)'
    <3>1. ClearInv(s) /\ queue' = queue
      BY <1>2, <2>1, BackgroundAssumption DEF TestInv, OpInv, TypeOK
    <3>2. CASE s # t
      BY <1>1, <3>1, <3>2 DEF ClearInv
    <3>3. CASE s = t
      <4>1. pc["op"] = "end"
        BY <1>1, <3>1, <3>3 DEF ClearInv
      <4> QED BY <1>1, <3>1, <4>1 DEF ClearInv
    <3> QED BY <3>2, <3>3
  <2> QED BY <1>1, <2>1, OpTyped DEF TestInv, OpInv, Belongs
<1>6. \A s \in Tests : s # t => CheckInv(s)'
  BY <1>1 DEF TestInv, CheckInv, Under, ClearsFor, Observed, booted
<1> QED BY <1>4, <1>5, <1>6, CheckKeepsOwn DEF TestInv

\* Every step of the specification keeps it, and it holds in every reachable state.
LEMMA NextKeepsTests ==
  ASSUME TypeOK, DataIsBound, TestInv, [Next]_vars
  PROVE  TestInv'
<1>1. CASE UNCHANGED vars
  BY <1>1, ChainingKeepsTests DEF vars, threads, beside, epochs
<1>2. CASE Worker
  BY <1>2, BootKeepsTests, BootDoneKeepsTests, OperationKeepsTests, StartKeepsTests,
     FinishKeepsTests, WorldKeepsTests, CheckKeepsTests DEF Worker
<1>3. CASE Environment
  BY <1>3, WorldKeepsTests, FailKeepsTests, BootKeepsTests, CheckKeepsTests,
     RestartKeepsTests DEF Environment, Threads
<1>4. CASE \E s \in Settings : onChange(s)
  BY <1>4, WorldKeepsTests
<1> QED BY <1>1, <1>2, <1>3, <1>4 DEF Next

LEMMA InitTests == Init => TestInv
<1> SUFFICES ASSUME Init PROVE TestInv
  OBVIOUS
<1>1. pc = Asleep /\ queue = <<>> /\ waiting = <<>> /\ test = [t \in Tests |-> NoTest]
  BY Zenon DEF Init, NotLoaded
<1>2. pc["op"] = "idle" /\ queue = <<>> /\ waiting = <<>>
  BY <1>1 DEF Asleep, Threads
<1>3. \A t \in Tests : test[t].pc = "idle"
  BY <1>1 DEF NoTest
<1> QED BY <1>2, <1>3, EmptySeq DEF TestInv, QueueInv, OpInv, CheckInv

LEMMA TestInvariant == Spec => [](TypeOK /\ DataIsBound /\ TestInv)
<1>1. TypeOK /\ DataIsBound /\ TestInv /\ [Next]_vars => TestInv'
  BY NextKeepsTests
<1> QED BY InitTests, <1>1, TypeInvariant, PTL DEF Spec

\* Only the last step of a check shows an IP.
LEMMA ShowIsLast ==
  ASSUME TypeOK, NEW t \in Tests, Next, test[t].pc # "ok", test'[t].pc = "ok"
  PROVE  TestLast(t)
<1>1. test[t] \in TestRecords
  BY DEF TypeOK
<1>2. ASSUME test' = test PROVE FALSE
  BY <1>2
<1>3. ASSUME NEW s \in Tests, testIp(s) \/ TestStart(s)
      PROVE  TestLast(t)
  <2>1. s = t
    BY <1>3 DEF testIp, TestLook, TestCheck, TestFetch, TestCheck2, TestLast, TestStep,
                TestStart, TypeOK
  <2>2. \A record : test' = [test EXCEPT ![t] = record] => test'[t] = record
    BY DEF TypeOK
  <2>3. ~TestStart(t)
    BY <1>1, <2>2, Zenon DEF TestStart, NoTest, TestRecords
  <2>4. ~TestFetch(t) /\ ~TestCheck(t) /\ ~TestCheck2(t)
    <3>1. ~TestFetch(t)
      BY <1>1 DEF TestFetch, TestStep, TypeOK, TestRecords
    <3>2. ~TestCheck(t)
      BY <1>1 DEF TestCheck, TestStep, TypeOK, TestRecords
    <3>3. ~TestCheck2(t)
      BY <1>1 DEF TestCheck2, TestStep, TypeOK, TestRecords
    <3> QED BY <3>1, <3>2, <3>3
  <2>5. ~TestLook(t, "look", "check") /\ ~TestLook(t, "look2", "check2")
    BY <1>1 DEF TestLook, TestStep, TypeOK, TestRecords
  <2> QED BY <1>3, <2>1, <2>3, <2>4, <2>5 DEF testIp
<1>4. ASSUME Operation PROVE FALSE
  <2>1. CASE clearError("op")
    <3>1. CASE TeCheck("op")
      <4>1. PICK s, e : test' = [test EXCEPT ![s].epoch = e]
        BY <3>1 DEF TeCheck
      <4> QED BY <1>1, <4>1 DEF TypeOK, TestRecords
    <3>2. CASE TeDone("op")
      BY <1>1, <3>2 DEF TeDone, TypeOK, TestRecords
    <3> QED BY <1>2, <2>1, <3>1, <3>2 DEF clearError, TeStore, TeChanged
  <2> QED BY <1>2, <1>4, <2>1 DEF Operation
<1>5. ASSUME Finish PROVE FALSE
  <2>1. \/ test' = test
        \/ \E s : test' = [test EXCEPT ![s].pc = "failed"]
    BY <1>5 DEF Finish
  <2> QED BY <1>1, <2>1 DEF TypeOK, TestRecords
<1>6. CASE Kill
  BY <1>6 DEF Kill, NoTest
<1>7. ASSUME NEW r \in Requests,
             \/ onAuthRequired(r) \/ clearAuthAttempt(r)
             \/ \E s \in Servers, c \in Visible : Challenge(r, s, c)
      PROVE  FALSE
  BY <1>7 DEF onAuthRequired, AuthRead, AuthSettings, AuthTabGone, AuthCancel,
      AuthRejected, AuthGrant, clearAuthAttempt, Challenge, Answer, AuthStep
<1>8. CASE Worker
  BY <1>2, <1>3, <1>4, <1>5, <1>7, <1>8 DEF Worker, Boot, BootDone, Start
<1>9. CASE Environment
  <2>1. CASE \/ Command \/ \E e \in {"fatal", "direct"} : ProxyError(e)
             \/ \E s \in Settings, c \in Visible : Takeover(s, c)
             \/ Wake
    BY <1>2, <2>1, Zenon DEF Command, Message, ProxyError, Takeover, Wake
  <2>2. ASSUME NEW p \in Threads, Fail(p) PROVE FALSE
    BY <1>2, <2>2, Zenon DEF Fail
  <2> QED BY <1>2, <1>3, <1>6, <1>7, <1>9, <2>1, <2>2 DEF Environment
<1>10. CASE \E s \in Settings : onChange(s)
  BY <1>2, <1>10 DEF onChange
<1> QED BY <1>8, <1>9, <1>10 DEF Next

\* What it shows was observed under what is stored.
LEMMA ShownIsObserved ==
  ASSUME TypeOK, TestInv, NEW t \in Tests, Next, Shows(t)
  PROVE  Observed(t) /\ (test[t].error # None => storage.proxyError = None)
<1>1. TestLast(t) /\ test[t] \in TestRecords
  BY ShowIsLast DEF TypeOK, Shows
<1>2. test[t].epoch = configurationEpoch /\ test[t].pc = "last"
  BY <1>1 DEF TestLast, TestStep, Shows, changed, TypeOK, TestRecords
<1> QED BY <1>2 DEF TestInv, CheckInv, Under

\* An IP that the popup shows was observed under the connection that is stored and
\* enabled, and leaves no error of an earlier one behind: no command, retry, restart or
\* late answer of testIp() comes between the observation and the answer.
THEOREM ShownIpCorrect == Spec => ShownIpIsOfThisConnection
<1>1. TypeOK /\ TestInv /\ [Next]_vars =>
        [\A t \in Tests : Shows(t) =>
           /\ storage.enabled /\ storage.connection # None
           /\ storage.connection = test[t].data.connection
           /\ storage.exclusions = test[t].data.exclusions
           /\ test[t].error # None => storage.proxyError = None]_vars
  BY ShownIsObserved DEF Observed
<1> QED BY <1>1, TestInvariant, PTL DEF Spec, ShownIpIsOfThisConnection

-----------------------------------------------------------------------------
(* The same for Chrome's proxy setting: while the setting epoch of a check  *)
(* is the current one and no notice is on its way, nothing has changed the  *)
(* setting since its status was read, so the PAC in effect is the one that  *)
(* the check compared with its exclusions (ProxiedInv).                     *)
Going == {"fetch", "look2", "check2", "queued", "last"}
InEffect(t) ==
  /\ proxyPref # None /\ <<"proxy", "regular">> \notin taken
  /\ IF test[t].pc = "check" THEN proxyPref.exclusions = test[t].data.exclusions
                             ELSE proxyPref.exclusions \notin TestExcluded
Proxied(t) ==
  /\ test[t].pc \notin {"idle", "ok", "failed"} =>
       test[t].settingEpoch <= browserSettingEpoch
  /\ \/ test[t].pc = "check" /\ test[t].state \in {"active", "retry"}
     \/ test[t].pc \in Going
     => (test[t].settingEpoch = browserSettingEpoch => "proxy" \in notices \/ InEffect(t))
ProxiedInv == \A t \in Tests : Proxied(t)

\* A step that leaves the check where it is, ends it or ends its retry keeps this, if
\* it announces what it does to the setting.
LEMMA AnnouncedKeeps ==
  ASSUME NEW t \in Tests, Proxied(t),
         UNCHANGED <<taken, browserSettingEpoch>>,
         "proxy" \in notices => "proxy" \in notices',
         \/ proxyPref' = proxyPref
         \/ "proxy" \in notices' \/ <<"proxy", "regular">> \in taken,
         test'[t].settingEpoch = test[t].settingEpoch,
         test'[t].data = test[t].data, test'[t].state = test[t].state,
         \/ test'[t].pc = test[t].pc \/ test'[t].pc \in {"idle", "ok", "failed"}
         \/ test[t].pc = "queued" /\ test'[t].pc = "last"
  PROVE  Proxied(t)'
BY DEF Proxied, InEffect, Going

\* A thread announces what it does to the setting, unless another extension holds it.
LEMMA ThreadsAnnounce ==
  ASSUME TypeOK, Boot \/ Operation
  PROVE  /\ UNCHANGED <<taken, browserSettingEpoch>>
         /\ "proxy" \in notices => "proxy" \in notices'
         /\ \/ proxyPref' = proxyPref
            \/ "proxy" \in notices' \/ <<"proxy", "regular">> \in taken
<1>1. UNCHANGED <<taken, browserSettingEpoch>>
  BY DEF Boot, Operation, chain, beside, epochs
<1> DEFINE Announced == /\ "proxy" \in notices => "proxy" \in notices'
                        /\ \/ proxyPref' = proxyPref
                           \/ "proxy" \in notices' \/ <<"proxy", "regular">> \in taken
<1>2. ASSUME NEW p, NEW pac, NEW here, NEW next, SetProxy(p, here, pac, next)
      PROVE  Announced
  BY <1>2 DEF SetProxy, Notify, Visible, Contexts
<1>3. ASSUME NEW p, NEW on, NEW here, NEW next, SetRtc(p, here, on, next)
      PROVE  Announced
  BY <1>3 DEF SetRtc, Notify
<1>4. ASSUME UNCHANGED prefs PROVE Announced
  BY <1>4 DEF prefs
<1> HIDE DEF Announced
<1> USE DEF Look, Remember, Store, clearOwnProxySetting, clearOwnWebRTCSetting
<1>5. ASSUME NEW p, reconcileAtStartup(p) PROVE Announced
  BY <1>2, <1>3, <1>4, <1>5
  DEF reconcileAtStartup, RcRead, RcRtc, RcUnrestricted, RcSetRtc, RcCheckRtc, RcProxy,
      RcSetProxy, RcCheckProxy, RcLast, RcCaught, OffProxy, OffRtc
<1>6. ASSUME NEW p, updateBadge(p) PROVE Announced
  BY <1>4, <1>6 DEF updateBadge, BadgeLook, BadgeSet, prefs
<1>7. ASSUME NEW p, importKey(p) \/ disconnect(p) \/ forget(p) \/ PeStore(p)
      PROVE  Announced
  BY <1>4, <1>7 DEF importKey, ImDisable, ImStore, disconnect, forget, PeStore
<1>8. ASSUME NEW p, connect(p) PROVE Announced
  BY <1>2, <1>3, <1>4, <1>8
  DEF connect, CoCheck, CoRefuse, CoClear, CoEnable, CoSetRtc, CoCheckRtc, CoSetProxy,
      CoApplied, CoUndo
<1>9. ASSUME NEW p, saveExclusions(p) PROVE Announced
  BY <1>2, <1>4, <1>9
  DEF saveExclusions, SaCheck, SaRefuse, SaStore, SaSetProxy, SaApplied, SaRollback,
      SaMayRestore, SaRestore, SaRestored, SaGiveUp
<1>10. ASSUME NEW p, onProxySettingChange(p) PROVE Announced
  BY <1>2, <1>4, <1>10 DEF onProxySettingChange, ChLook, ChClear
<1>11. ASSUME NEW p, clearError(p) PROVE Announced
  BY <1>4, <1>11 DEF clearError, TeCheck, TeStore, TeChanged, TeDone
<1>12. Announced
  BY <1>2, <1>5, <1>6, <1>7, <1>8, <1>9, <1>10, <1>11 DEF Boot, Operation
<1> QED BY <1>1, <1>12 DEF Announced

\* The task of a retry answers the check that waits for it, and only that one.
LEMMA TasksAnswer ==
  ASSUME TypeOK, TestInv, NEW t \in Tests, Operation \/ Finish
  PROVE  /\ test'[t].settingEpoch = test[t].settingEpoch
         /\ test'[t].data = test[t].data /\ test'[t].state = test[t].state
         /\ \/ test'[t].pc = test[t].pc
            \/ test[t].pc = "queued" /\ test'[t].pc \in {"last", "failed"}
<1>1. test[t] \in TestRecords /\ test \in [Tests -> TestRecords]
  BY DEF TypeOK
<1>2. CASE test' = test
  BY <1>2
<1>3. CASE TeCheck("op")
  <2>1. PICK s, e : test' = [test EXCEPT ![s].epoch = e]
    BY <1>3 DEF TeCheck
  <2> QED BY <1>1, <2>1 DEF TestRecords
<1>4. CASE TeDone("op")
  <2>1. test' = [test EXCEPT ![loc["op"].task.test].pc = "last"] /\ pc["op"] = "te.done"
    BY <1>4 DEF TeDone, Look, Goto
  <2>2. CASE loc["op"].task.test = t
    <3>1. test[t].pc = "queued"
      BY <2>1, <2>2, BackgroundAssumption DEF TestInv, OpInv, ClearInv
    <3> QED BY <1>1, <2>1, <2>2, <3>1 DEF TestRecords
  <2>3. CASE loc["op"].task.test # t
    BY <1>1, <2>1, <2>3
  <2> QED BY <2>2, <2>3
<1>5. CASE Finish
  <2> DEFINE s == loc["op"].task.test
  <2>1. \/ test' = test
        \/ test[s].pc = "queued" /\ test' = [test EXCEPT ![s].pc = "failed"]
    BY <1>5 DEF Finish
  <2>2. CASE s = t
    BY <1>1, <2>1, <2>2 DEF TestRecords
  <2>3. CASE s # t
    BY <1>1, <2>1, <2>3
  <2> QED BY <2>2, <2>3
<1> QED BY <1>2, <1>3, <1>4, <1>5 DEF Operation, clearError, TeStore, TeChanged

\* The steps of a check itself: its status is good only under its own PAC, and it goes
\* on to the request only when this does not exclude the service.
LEMMA CheckIsProxied ==
  ASSUME TypeOK, NEW t \in Tests, Proxied(t), testIp(t) \/ TestStart(t)
  PROVE  Proxied(t)'
<1>1. UNCHANGED <<storage, proxyPref, notices, taken, browserSettingEpoch>>
  BY DEF testIp, TestStart, threads, epochs, beside, prefs
<1>2. test[t] \in TestRecords /\ test \in [Tests -> TestRecords]
      /\ browserSettingEpoch \in Nat
  BY DEF TypeOK
<1>3. CASE TestStart(t)
  <2>1. test'[t].pc = "look" /\ test'[t].settingEpoch = browserSettingEpoch
    BY <1>2, <1>3 DEF TestStart, NoTest
  <2> QED BY <1>1, <1>2, <2>1 DEF Proxied, Going
<1>4. CASE TestLook(t, "look", "check")
  <2>1. /\ test[t].pc = "look" /\ test'[t].pc = "check"
        /\ test'[t].data = storage /\ test'[t].state = status
        /\ test'[t].settingEpoch = test[t].settingEpoch
    BY <1>4, LookUpdate
  <2>2. ASSUME status \in {"active", "retry"}
        PROVE  /\ proxyPref # None /\ <<"proxy", "regular">> \notin taken
               /\ proxyPref.exclusions = storage.exclusions
    <3>1. isEffectiveProxySetting("regular", ConfiguredPac(storage))
      BY <2>2 DEF status, EffectiveEverywhere
    <3> QED BY <3>1 DEF isEffectiveProxySetting, ProxyLevel, ConfiguredPac,
                        buildProxyConfig
  <2> QED BY <1>1, <2>1, <2>2 DEF Proxied, InEffect, Going
<1>5. CASE TestCheck(t)
  <2>1. /\ test[t].pc = "check" /\ test'[t].settingEpoch = test[t].settingEpoch
        /\ \/ test'[t].pc = "failed"
           \/ /\ test'[t].pc = "fetch" /\ test[t].state \in {"active", "retry"}
              /\ test[t].data.exclusions \notin TestExcluded
    BY <1>2, <1>5 DEF TestCheck, TestStep, Unusable, TestRecords
  <2> QED BY <1>1, <2>1 DEF Proxied, InEffect, Going
<1>6. CASE TestFetch(t) \/ TestLook(t, "look2", "check2") \/ TestCheck2(t) \/ TestLast(t)
  <2>1. /\ test[t].pc \in Going /\ test'[t].pc \in Going \cup {"ok", "failed"}
        /\ test'[t].settingEpoch = test[t].settingEpoch
    <3>1. CASE TestFetch(t)
      BY <1>2, <3>1 DEF TestFetch, TestStep, TestRecords, Going
    <3>2. CASE TestLook(t, "look2", "check2")
      BY <3>2, LookUpdate DEF Going
    <3>3. CASE TestCheck2(t)
      BY <1>2, <3>3 DEF TestCheck2, TestStep, TestRecords, Going
    <3>4. CASE TestLast(t)
      BY <1>2, <3>4 DEF TestLast, TestStep, TestRecords, Going
    <3> QED BY <1>6, <3>1, <3>2, <3>3, <3>4
  <2> QED BY <1>1, <2>1 DEF Proxied, InEffect, Going
<1> QED BY <1>3, <1>4, <1>5, <1>6 DEF testIp

\* Every step of the specification keeps it.
LEMMA NextKeepsProxied ==
  ASSUME TypeOK, TestInv, ProxiedInv, [Next]_vars
  PROVE  ProxiedInv'
<1> USE DEF ProxiedInv
<1>1. ASSUME UNCHANGED <<prefs, taken, browserSettingEpoch, test>> PROVE ProxiedInv'
  BY <1>1, AnnouncedKeeps DEF prefs
<1>2. CASE Boot \/ Operation
  <2>1. CASE Boot
    BY <2>1, ThreadsAnnounce, AnnouncedKeeps DEF Boot
  <2>2. CASE Operation
    BY <2>2, ThreadsAnnounce, TasksAnswer, AnnouncedKeeps
  <2> QED BY <1>2, <2>1, <2>2
<1>3. CASE Finish
  <2>1. UNCHANGED <<prefs, taken, browserSettingEpoch>>
    BY <1>3 DEF Finish, epochs, beside
  <2> QED BY <1>3, <2>1, TasksAnswer, AnnouncedKeeps DEF prefs
<1>4. ASSUME NEW t \in Tests, testIp(t) \/ TestStart(t) PROVE ProxiedInv'
  <2>1. Proxied(t)'
    BY <1>4, CheckIsProxied
  <2>2. /\ UNCHANGED <<prefs, taken, browserSettingEpoch>>
        /\ \A s \in Tests : s # t => test'[s] = test[s]
    BY <1>4 DEF testIp, TestLook, TestCheck, TestFetch, TestCheck2, TestLast, TestStep,
                TestStart, threads, epochs, beside, TypeOK
  <2>3. \A s \in Tests : s # t => Proxied(s)'
    BY <2>2, AnnouncedKeeps DEF prefs
  <2> QED BY <2>1, <2>3
<1>5. ASSUME NEW s \in Settings, onChange(s) PROVE ProxiedInv'
  <2>1. test' = test /\ browserSettingEpoch' = browserSettingEpoch + 1
    BY <1>5 DEF onChange
  <2>2. browserSettingEpoch \in Nat /\ \A t \in Tests : test[t].settingEpoch \in Nat
    BY DEF TypeOK, TestRecords
  <2> QED BY <2>1, <2>2 DEF Proxied, Going
<1>6. ASSUME NEW s \in Settings, NEW c \in Visible, Takeover(s, c) PROVE ProxiedInv'
  <2>1. /\ UNCHANGED <<proxyPref, browserSettingEpoch, test>>
        /\ notices' = notices \cup {s}
        /\ <<"proxy", "regular">> \in taken' <=>
             \/ s = "proxy" /\ c = "regular" /\ <<"proxy", "regular">> \notin taken
             \/ <<s, c>> # <<"proxy", "regular">> /\ <<"proxy", "regular">> \in taken
    BY <1>6 DEF Takeover, Contest, chain, epochs
  <2> QED BY <2>1 DEF Proxied, InEffect
<1>7. CASE Kill
  <2>1. \A t \in Tests : test'[t].pc = "idle"
    BY <1>7 DEF Kill, NoTest
  <2> QED BY <2>1 DEF Proxied, Going
<1>8. CASE \/ BootDone \/ Start \/ Wake \/ Command
           \/ \E p \in Threads : Fail(p)
           \/ \E e \in {"fatal", "direct"} : ProxyError(e)
  <2>1. CASE BootDone \/ Start \/ Wake
    BY <1>1, <2>1 DEF BootDone, Start, Wake, chain, epochs, beside
  <2>2. CASE Command \/ \E e \in {"fatal", "direct"} : ProxyError(e)
    BY <1>1, <2>2 DEF Command, Message, ProxyError, threads, epochs
  <2>3. CASE \E p \in Threads : Fail(p)
    BY <1>1, <2>3 DEF Fail, chain, epochs
  <2> QED BY <1>8, <2>1, <2>2, <2>3
<1>9. ASSUME NEW r \in Requests,
             \/ onAuthRequired(r) \/ clearAuthAttempt(r)
             \/ \E s \in Servers, c \in Visible : Challenge(r, s, c)
      PROVE  ProxiedInv'
  BY <1>1, <1>9 DEF onAuthRequired, AuthRead, AuthSettings, AuthTabGone, AuthCancel,
      AuthRejected, AuthGrant, clearAuthAttempt, Challenge, Answer, AuthStep
<1>10. CASE UNCHANGED vars
  BY <1>1, <1>10 DEF vars, threads, beside, epochs
<1>11. CASE Worker
  BY <1>2, <1>3, <1>4, <1>8, <1>9, <1>11 DEF Worker
<1>12. CASE Environment
  BY <1>4, <1>6, <1>7, <1>8, <1>9, <1>12 DEF Environment
<1> QED BY <1>5, <1>10, <1>11, <1>12 DEF Next

\* An IP that is shown came through the proxy: when api.ipify.org answers and until its
\* answer is shown, a PAC that does not exclude it is in effect in regular windows, unless
\* Chrome has reported a change since the check began or is about to: no task, rival or
\* restart makes the request direct unnoticed.
THEOREM ShownIpProxied == Spec => ShownIpWasProxied
<1>1. Init => ProxiedInv
  <2> SUFFICES ASSUME Init PROVE ProxiedInv
    OBVIOUS
  <2>1. test = [t \in Tests |-> NoTest]
    BY Zenon DEF Init, NotLoaded
  <2> QED BY <2>1 DEF ProxiedInv, Proxied, NoTest, Going
<1>2. TypeOK /\ TestInv /\ ProxiedInv /\ [Next]_vars => ProxiedInv'
  BY NextKeepsProxied
<1>3. ASSUME TypeOK, TestInv, ProxiedInv, Next, NEW t \in Tests
      PROVE  /\ Answers(t) => \/ "proxy" \in notices \/ IpifyIsProxied
                              \/ browserSettingEpoch # test[t].settingEpoch
             /\ Shows(t) => "proxy" \in notices \/ IpifyIsProxied
  <2>1. CASE Answers(t)
    BY <1>3, <2>1 DEF Answers, Shows, ProxiedInv, Proxied, InEffect, Going, IpifyIsProxied
  <2>2. CASE Shows(t)
    <3>1. TestLast(t) /\ test[t] \in TestRecords /\ test[t].pc = "last"
      BY <1>3, <2>2, ShowIsLast DEF TypeOK, Shows
    <3>2. test[t].settingEpoch = browserSettingEpoch
      BY <2>2, <3>1 DEF TestLast, TestStep, Shows, changed, TypeOK, TestRecords
    <3> QED BY <1>3, <3>1, <3>2
            DEF Answers, ProxiedInv, Proxied, InEffect, Going, IpifyIsProxied
  <2> QED BY <2>1, <2>2
<1>4. TypeOK /\ TestInv /\ ProxiedInv /\ [Next]_vars =>
        [\A t \in Tests :
           /\ Answers(t) => \/ "proxy" \in notices \/ IpifyIsProxied
                            \/ browserSettingEpoch # test[t].settingEpoch
           /\ Shows(t) => "proxy" \in notices \/ IpifyIsProxied]_vars
  BY <1>3
<1> QED BY <1>1, <1>2, <1>4, TestInvariant, PTL DEF Spec, ShownIpWasProxied

\* The reconciliation and the badge of boot store no other error, and remove none.
LEMMA BootKeepsError ==
  ASSUME TypeOK, Boot
  PROVE  storage'.proxyError = storage.proxyError
<1>1. [storage EXCEPT !.enabled = @ /\ storage.connection # None].proxyError
        = storage.proxyError
  BY DEF TypeOK, BrowserTypeOK, StoredData
<1>2. CASE reconcileAtStartup("boot")
  <2>1. CASE RcRead("boot")
    BY <1>1, <2>1 DEF RcRead
  <2>2. CASE ~RcRead("boot")
    BY <1>2, <2>2
    DEF reconcileAtStartup, RcRtc, RcUnrestricted, RcSetRtc, RcCheckRtc, RcSetProxy,
        RcCheckProxy, RcCaught, OffProxy, OffRtc, RcProxy, RcLast, Look, SetProxy, SetRtc,
        clearOwnProxySetting, clearOwnWebRTCSetting
  <2> QED BY <2>1, <2>2
<1>3. CASE \/ updateBadge("boot")
           \/ clearOwnProxySetting("boot", "boot.clear", "badge.look")
  BY <1>3 DEF updateBadge, BadgeLook, BadgeSet, Remember, clearOwnProxySetting, SetProxy
<1> QED BY <1>2, <1>3 DEF Boot

\* A task removes an error only as a command, or as the retry of the error's own check.
LEMMA OperationRemoves ==
  ASSUME TypeOK, DataIsBound, TestInv, Operation, ErrorRemoved
  PROVE  \/ loc["op"].task.kind \in {"importKey", "connect", "disconnect", "forget"}
         \/ /\ storage.proxyError # "direct"
            /\ storage.proxyError = test[loc["op"].task.test].error
<1>1. pc["op"] # "idle"
  BY OperationEffect DEF StepEffect
<1>2. Proper(loc["op"].task) /\ Belongs
  BY <1>1 DEF TestInv, OpInv
<1>3. CASE clearError("op")
  <2>1. TeStore("op")
    BY <1>3 DEF clearError, TeCheck, TeChanged, TeDone, Look, ErrorRemoved
  <2>2. pc["op"] = "te.store" /\ loc["op"].task.kind = "clearError"
    BY <1>2, <2>1 DEF TeStore, Store, Goto, Belongs
  <2>3. ClearInv(loc["op"].task.test)
    BY <1>1, <1>2, <2>2 DEF TestInv, OpInv, Proper
  <2> QED BY <2>2, <2>3 DEF ClearInv
<1>4. CASE updateBadge("op")
  BY <1>2, <1>4, BadgeStays DEF ErrorRemoved
<1>5. CASE \/ reconcileAtStartup("op") \/ importKey("op") \/ connect("op")
           \/ disconnect("op") \/ forget("op") \/ saveExclusions("op")
           \/ PeStore("op") \/ onProxySettingChange("op")
  <2>1. TaskStays
    BY <1>2, <1>5, ReconcileStays, ConnectStays, OtherCommandsStay, SaveStays, EventStays
  <2> QED BY <2>1 DEF TaskStays
<1> QED BY <1>3, <1>4, <1>5 DEF Operation

\* A retry clears nothing but the error it started from, and never one after which
\* Chrome may have gone direct: clearing is a task of its own, compares again when its
\* turn comes, and nobody else stores an error between the comparison and the removal.
THEOREM RetryClearsCorrect == Spec => RetryClearsItsOwnError
<1>1. TypeOK /\ DataIsBound /\ TestInv /\ [Next]_vars =>
        [storage.proxyError # None /\ storage'.proxyError = None =>
           \/ loc["op"].task.kind \in {"importKey", "connect", "disconnect", "forget"}
           \/ /\ storage.proxyError # "direct"
              /\ storage.proxyError = test[loc["op"].task.test].error]_vars
  <2> SUFFICES ASSUME TypeOK, DataIsBound, TestInv, Next, ErrorRemoved
               PROVE  \/ loc["op"].task.kind
                           \in {"importKey", "connect", "disconnect", "forget"}
                      \/ /\ storage.proxyError # "direct"
                         /\ storage.proxyError = test[loc["op"].task.test].error
    BY DEF ErrorRemoved
  <2>1. Boot \/ Operation
    <3>1. storage' # storage
      BY DEF ErrorRemoved
    <3>2. ASSUME NEW r \in Requests,
                 \/ onAuthRequired(r) \/ clearAuthAttempt(r)
                 \/ \E s \in Servers, c \in Visible : Challenge(r, s, c)
          PROVE  FALSE
      BY <3>1, <3>2 DEF onAuthRequired, AuthRead, AuthSettings, AuthTabGone, AuthCancel,
          AuthRejected, AuthGrant, clearAuthAttempt, Challenge, Answer, AuthStep
    <3>3. CASE Worker
      BY <3>1, <3>2, <3>3 DEF Worker, BootDone, Start, Finish, testIp, threads
    <3>4. ~Environment
      <4>1. ASSUME \/ Command \/ \E e \in {"fatal", "direct"} : ProxyError(e)
                   \/ \E s \in Settings, c \in Visible : Takeover(s, c)
                   \/ \E t \in Tests : TestStart(t)
                   \/ Kill \/ Wake
            PROVE  FALSE
        BY <3>1, <4>1, Zenon DEF Command, Message, ProxyError, Takeover, Contest,
                                 TestStart, Kill, Wake, threads
      <4>2. ASSUME NEW p \in Threads, Fail(p) PROVE FALSE
        BY <3>1, <4>2, Zenon DEF Fail
      <4> QED BY <3>1, <3>2, <4>1, <4>2 DEF Environment
    <3>5. ~\E s \in Settings : onChange(s)
      BY <3>1 DEF onChange
    <3> QED BY <3>3, <3>4, <3>5 DEF Next
  <2> QED BY <2>1, BootKeepsError, OperationRemoves DEF ErrorRemoved
<1> QED BY <1>1, TestInvariant, PTL DEF Spec, RetryClearsItsOwnError

(***************************************************************************)
(* The badge.  boot runs outside exclusive(): a proxy error reported       *)
(* before it is over is handled beside it, and then boot may write a text  *)
(* that is older.  Without such an error only one thread runs at a time,   *)
(* and the badge shows the status, or somebody will call updateBadge: the  *)
(* running task, unless it is at one of the labels from which it may end   *)
(* without it (Silent), or what is queued or about to be reported.         *)
(* A retry whose error is cleared ends so only after an event that is      *)
(* queued behind it.                                                       *)
(***************************************************************************)
ErrorsAwaitBoot == [][\A e \in {"fatal", "direct"} : ProxyError(e) => booted]_vars

Silent == {"co.check", "co.refuse", "sa.check", "sa.refuse", "pe.store", "te.check",
           "te.store", "te.done", "badge.set", "end"}
Updates == StepLabels \ Silent
Outstanding ==
  \/ ~awake \/ notices # {} \/ Queued("proxyChange") \/ Queued("rtcChange")
  \/ storage.enabled /\ (\/ Queued("proxyError") \/ Queued("authFailed")
                         \/ pc["op"] = "pe.store")
Retrying == {"te.store", "te.changed"}
BadgePending ==
  /\ badge # BadgeOf(status) => Outstanding \/ At(Updates) \/ At({"badge.set"})
  /\ \A p \in Threads :
       pc[p] = "badge.set" /\ BadgeOf(loc[p].state) # BadgeOf(status) => Outstanding
  /\ pc["op"] \in Retrying =>
       storage.enabled /\ (changed(loc["op"].task.test) => Outstanding)
OneThread == pc["boot"] # "done" => pc["op"] = "idle" /\ queue = <<>>
BadgeInv == OneThread /\ (Unfailed => BadgePending)

\* The status is a function of the storage and of Chrome's settings.
LEMMA StatusAlike ==
  ASSUME UNCHANGED <<storage, proxyPref, rtcPref, taken>>
  PROVE  status' = status
BY DEF status, ProxyLevel, webRTCIsRestricted, RtcLevel,
       webRTCIsRestrictedInAllEnabledContexts, incognitoWebRTCIsRestricted,
       incognitoProxyState, EffectiveEverywhere, isEffectiveProxySetting

\* Where others hold the proxy setting, taking the own PAC down changes nothing.
LEMMA StatusOfTaken ==
  ASSUME UNCHANGED <<storage, rtcPref, taken>>,
         \A c \in Visible : <<"proxy", c>> \in taken
  PROVE  status' = status
<1>1. /\ <<"proxy", "regular">> \in taken
      /\ IncognitoAllowed => <<"proxy", "incognito">> \in taken
  BY DEF Visible, Contexts
<1> QED BY <1>1
  DEF status, ProxyLevel, webRTCIsRestricted, RtcLevel,
      webRTCIsRestrictedInAllEnabledContexts, incognitoWebRTCIsRestricted,
      incognitoProxyState, EffectiveEverywhere, isEffectiveProxySetting

\* What a step of thread p, other than that of a retry, does about the badge: it goes on
\* to an updateBadge, remembers the status for the text or sets the text it remembers,
\* is followed by an event, or changes nothing that the badge depends on.
Silently(p) ==
  /\ status' = status /\ UNCHANGED <<badge, storage>>
  /\ pc[p] \in Silent \ {"badge.set"} /\ pc'[p] # "badge.set"
  /\ pc[p] = "pe.store" => ~storage.enabled
Sets(p) ==
  /\ pc[p] = "badge.set" /\ badge' = BadgeOf(loc[p].state)
  /\ status' = status /\ UNCHANGED storage
  /\ pc'[p] # "badge.set"
Looks(p) == pc'[p] = "badge.set" /\ loc'[p].state = status'
BadgeStep(p) ==
  /\ notices \subseteq notices'
  /\ pc'[p] \notin Retrying
  /\ \/ pc'[p] \in Updates \/ Looks(p) \/ Sets(p) \/ Silently(p)
     \/ notices' # {} /\ pc'[p] # "badge.set"

LEMMA Updating ==
  /\ "badge.look" \in Updates /\ "badge.set" \notin Updates
  /\ {"ch.look", "rc.read", "te.changed"} \subseteq Updates
  /\ \A l \in Silent : l \notin Updates
BY DEF Updates, Silent, StepLabels, Failable, RcTry, CoTry, SaTry, SaRestoreTry,
       BadgeLabels

\* A step that goes on to an updateBadge need not do anything else about it.
LEMMA GoingOn ==
  ASSUME NEW p, notices \subseteq notices',
         pc'[p] \in Updates \ Retrying
  PROVE  BadgeStep(p)
BY DEF BadgeStep

LEMMA ReconcileBadge ==
  ASSUME TypeOK, NEW p \in Threads, reconcileAtStartup(p)
  PROVE  BadgeStep(p)
<1> USE DEF Goto, Look, SetProxy, SetRtc, clearOwnProxySetting, clearOwnWebRTCSetting,
            Notify, prefs, TypeOK, Updates, Silent, Retrying, StepLabels, Failable, RcTry,
            CoTry, SaTry, SaRestoreTry, BadgeLabels
<1>1. CASE RcRead(p)
  BY <1>1, GoingOn DEF RcRead
<1>2. CASE RcRtc(p)
  BY <1>2, GoingOn DEF RcRtc
<1>3. CASE RcUnrestricted(p)
  BY <1>3, GoingOn DEF RcUnrestricted
<1>4. CASE RcSetRtc(p)
  BY <1>4, GoingOn DEF RcSetRtc
<1>5. CASE RcCheckRtc(p)
  BY <1>5, GoingOn DEF RcCheckRtc
<1>6. CASE RcProxy(p)
  BY <1>6, GoingOn DEF RcProxy
<1>7. CASE RcSetProxy(p)
  BY <1>7, GoingOn DEF RcSetProxy
<1>8. CASE RcCheckProxy(p)
  BY <1>8, GoingOn DEF RcCheckProxy
<1>9. CASE RcLast(p)
  BY <1>9, GoingOn DEF RcLast
<1>10. CASE RcCaught(p)
  BY <1>10, GoingOn DEF RcCaught
<1>11. CASE OffProxy(p)
  BY <1>11, GoingOn DEF OffProxy
<1>12. CASE OffRtc(p)
  BY <1>12, GoingOn DEF OffRtc
<1> QED BY <1>1, <1>2, <1>3, <1>4, <1>5, <1>6, <1>7, <1>8, <1>9, <1>10, <1>11, <1>12
        DEF reconcileAtStartup

\* updateBadge itself: the text is the one of the status it has just asked for.
LEMMA UpdateBadge ==
  ASSUME TypeOK, NEW p \in Threads, taken' = taken, updateBadge(p)
  PROVE  BadgeStep(p)
<1>1. /\ UNCHANGED <<storage, proxyPref, rtcPref, notices>> /\ status' = status
  BY StatusAlike DEF updateBadge, BadgeLook, BadgeSet, Remember, prefs
<1>2. CASE BadgeLook(p)
  <2>1. loc'[p].state = status
    BY <1>2, LocalsTyped DEF BadgeLook, Remember, TypeOK, LocalRecords
  <2>2. pc'[p] = "badge.set"
    BY <1>2 DEF BadgeLook, Remember, Goto, TypeOK
  <2> QED BY <1>1, <2>1, <2>2 DEF BadgeStep, Looks, Retrying
<1>3. CASE BadgeSet(p)
  <2>1. loc[p].ret \in Returns
    BY LocalsTyped
  <2>2. pc[p] = "badge.set" /\ pc'[p] = loc[p].ret /\ badge' = BadgeOf(loc[p].state)
    BY <1>3 DEF BadgeSet, Goto, TypeOK
  <2> QED BY <1>1, <2>1, <2>2 DEF BadgeStep, Sets, Retrying, Returns
<1> QED BY <1>2, <1>3 DEF updateBadge

\* connect and saveExclusions refuse without an updateBadge: clearing the PAC then is
\* an event, unless there is none or it is not in effect anywhere.
LEMMA RefusalBadge ==
  ASSUME TypeOK, NEW p \in Threads, UNCHANGED taken, CoRefuse(p) \/ SaRefuse(p)
  PROVE  BadgeStep(p)
<1>1. /\ pc[p] \in {"co.refuse", "sa.refuse"} /\ pc'[p] = "end"
      /\ proxyPref' = None /\ Notify("proxy", proxyPref # None)
      /\ UNCHANGED <<storage, rtcPref, badge>>
  BY DEF CoRefuse, SaRefuse, clearOwnProxySetting, SetProxy, Goto, TypeOK
<1>2. notices \subseteq notices'
  BY <1>1 DEF Notify
<1>3. CASE proxyPref = None
  BY <1>1, <1>2, <1>3, StatusAlike DEF BadgeStep, Silently, Silent, Retrying
<1>4. CASE \A c \in Visible : <<"proxy", c>> \in taken
  BY <1>1, <1>2, <1>4, StatusOfTaken DEF BadgeStep, Silently, Silent, Retrying
<1>5. CASE proxyPref # None /\ \E c \in Visible : <<"proxy", c>> \notin taken
  BY <1>1, <1>2, <1>5 DEF Notify, BadgeStep, Retrying
<1> QED BY <1>3, <1>4, <1>5

LEMMA ConnectBadge ==
  ASSUME TypeOK, NEW p \in Threads, UNCHANGED taken, connect(p)
  PROVE  BadgeStep(p)
<1> USE DEF Goto, Look, Remember, Store, SetProxy, SetRtc, clearOwnProxySetting, Notify,
            prefs, TypeOK, Updates, Silent, Retrying, StepLabels, Failable, RcTry, CoTry,
            SaTry, SaRestoreTry, BadgeLabels
<1>1. CASE CoCheck(p)
  <2>1. /\ UNCHANGED <<storage, proxyPref, rtcPref, notices, badge>>
        /\ pc[p] = "co.check"
        /\ pc'[p] \in {"end", "co.refuse", "co.enable", "co.clear"}
    BY <1>1 DEF CoCheck
  <2> QED BY <2>1, StatusAlike DEF BadgeStep, Silently
<1>2. CASE CoClear(p)
  BY <1>2, GoingOn DEF CoClear
<1>3. CASE CoEnable(p)
  BY <1>3, GoingOn DEF CoEnable
<1>4. CASE CoSetRtc(p)
  BY <1>4, GoingOn DEF CoSetRtc
<1>5. CASE CoCheckRtc(p)
  BY <1>5, GoingOn DEF CoCheckRtc
<1>6. CASE CoSetProxy(p)
  BY <1>6, GoingOn DEF CoSetProxy
<1>7. CASE CoApplied(p)
  BY <1>7, GoingOn DEF CoApplied
<1>8. CASE CoUndo(p)
  BY <1>8, GoingOn DEF CoUndo
<1> QED BY <1>1, <1>2, <1>3, <1>4, <1>5, <1>6, <1>7, <1>8, RefusalBadge DEF connect

LEMMA SaveBadge ==
  ASSUME TypeOK, NEW p \in Threads, UNCHANGED taken, saveExclusions(p)
  PROVE  BadgeStep(p)
<1> USE DEF Goto, Look, Remember, Store, SetProxy, clearOwnProxySetting, Notify, prefs,
            TypeOK, Updates, Silent, Retrying, StepLabels, Failable, RcTry, CoTry, SaTry,
            SaRestoreTry, BadgeLabels
<1>1. CASE SaCheck(p)
  <2>1. /\ UNCHANGED <<storage, proxyPref, rtcPref, notices, badge>>
        /\ pc[p] = "sa.check" /\ pc'[p] \in {"end", "sa.refuse", "sa.store"}
    BY <1>1 DEF SaCheck
  <2> QED BY <2>1, StatusAlike DEF BadgeStep, Silently
<1>2. CASE SaStore(p)
  BY <1>2, GoingOn DEF SaStore
<1>3. CASE SaSetProxy(p)
  BY <1>3, GoingOn DEF SaSetProxy
<1>4. CASE SaApplied(p)
  BY <1>4, GoingOn DEF SaApplied
<1>5. CASE SaRollback(p)
  BY <1>5, GoingOn DEF SaRollback
<1>6. CASE SaMayRestore(p)
  BY <1>6, GoingOn DEF SaMayRestore
<1>7. CASE SaRestore(p)
  BY <1>7, GoingOn DEF SaRestore
<1>8. CASE SaRestored(p)
  BY <1>8, GoingOn DEF SaRestored
<1>9. CASE SaGiveUp(p)
  BY <1>9, GoingOn DEF SaGiveUp
<1> QED BY <1>1, <1>2, <1>3, <1>4, <1>5, <1>6, <1>7, <1>8, <1>9, RefusalBadge
        DEF saveExclusions

LEMMA OtherBadge ==
  ASSUME TypeOK, NEW p \in Threads, UNCHANGED taken,
         \/ importKey(p) \/ disconnect(p) \/ forget(p) \/ PeStore(p)
         \/ onProxySettingChange(p)
         \/ clearOwnProxySetting(p, "boot.clear", "badge.look")
  PROVE  BadgeStep(p)
<1> USE DEF Goto, Look, Remember, Store, SetProxy, clearOwnProxySetting, Notify, prefs,
            TypeOK, Updates, Silent, Retrying, StepLabels, Failable, RcTry, CoTry, SaTry,
            SaRestoreTry, BadgeLabels
<1>1. CASE importKey(p)
  BY <1>1, GoingOn DEF importKey, ImDisable, ImStore
<1>2. CASE disconnect(p)
  BY <1>2, GoingOn DEF disconnect
<1>3. CASE forget(p)
  BY <1>3, GoingOn DEF forget
<1>4. CASE PeStore(p)
  <2>1. UNCHANGED <<proxyPref, rtcPref, notices, badge>> /\ pc[p] = "pe.store"
    BY <1>4 DEF PeStore
  <2>2. \/ pc'[p] = "badge.look"
        \/ pc'[p] = "end" /\ ~storage.enabled /\ storage' = storage
    BY <1>4 DEF PeStore
  <2> QED BY <2>1, <2>2, GoingOn, StatusAlike DEF BadgeStep, Silently
<1>5. CASE ChLook(p)
  <2>1. notices' = notices /\ pc'[p] \in {"badge.look", "ch.clear", "rc.read"}
    BY <1>5 DEF ChLook
  <2> QED BY <2>1, GoingOn
<1>6. CASE ChClear(p)
  BY <1>6, GoingOn DEF ChClear
<1>7. CASE clearOwnProxySetting(p, "boot.clear", "badge.look")
  BY <1>7, GoingOn
<1> QED BY <1>1, <1>2, <1>3, <1>4, <1>5, <1>6, <1>7 DEF onProxySettingChange

\* Every other step of boot or of a task is one of these.
LEMMA StepKeepsBadge ==
  ASSUME TypeOK, OneThread, BadgePending, NEW p \in Threads, BadgeStep(p),
         pc[p] \notin {"idle", "done"}, \A q \in Threads : q # p => pc'[q] = pc[q],
         UNCHANGED <<awake, queue, waiting>>
  PROVE  BadgePending'
<1>1. \A q \in Threads : q # p => pc'[q] \in {"idle", "done"} /\ pc[q] \in {"idle", "done"}
  BY DEF OneThread, Threads
<1>2. {"idle", "done"} \cap (Updates \cup Retrying \cup {"badge.set", "pe.store"}) = {}
  BY DEF Updates, Retrying, StepLabels, Failable, RcTry, CoTry, SaTry, SaRestoreTry,
         BadgeLabels
<1>3. pc'["op"] \notin Retrying
  BY <1>1, <1>2 DEF BadgeStep, Threads
<1>4. pc'[p] # "badge.set" => \A q \in Threads : pc'[q] # "badge.set"
  BY <1>1
<1>5. CASE pc'[p] \in Updates
  BY <1>3, <1>4, <1>5, Updating DEF BadgePending, At
<1>6. CASE Looks(p)
  BY <1>1, <1>3, <1>6 DEF BadgePending, At, Looks
<1>7. CASE notices' # {} /\ pc'[p] # "badge.set"
  BY <1>3, <1>4, <1>7 DEF BadgePending, Outstanding
<1>8. notices # {} => notices' # {}
  BY DEF BadgeStep
<1>9. CASE Sets(p) \/ Silently(p)
  <2>1. Outstanding => Outstanding'
    BY <1>1, <1>8, <1>9 DEF Outstanding, Queued, Sets, Silently, Threads
  <2>2. pc'[p] # "badge.set" /\ ~At(Updates)
    BY <1>1, <1>2, <1>9, Updating DEF At, Sets, Silently
  <2>3. CASE Sets(p)
    BY <1>3, <1>4, <2>1, <2>2, <2>3 DEF Sets, BadgePending
  <2>4. CASE Silently(p)
    <3>1. ~At({"badge.set"})
      BY <1>1, <2>4 DEF At, Silently
    <3> QED BY <1>3, <1>4, <2>1, <2>2, <2>4, <3>1 DEF Silently, BadgePending
  <2> QED BY <1>9, <2>3, <2>4
<1> QED BY <1>5, <1>6, <1>7, <1>9 DEF BadgeStep

\* The task of a retry returns without an updateBadge after its removal only when
\* something has changed meanwhile.  Another error is then queued behind it.
LEMMA RetryKeepsBadge ==
  ASSUME TypeOK, TestInv, OneThread, BadgePending, clearError("op"),
         UNCHANGED <<chain, beside>>
  PROVE  BadgePending'
<1> DEFINE t == loc["op"].task.test
<1>1. /\ pc["op"] \in Clearing /\ pc["boot"] = "done" /\ pc'["boot"] = "done"
      /\ UNCHANGED <<proxyPref, rtcPref, notices, badge, loc, taken, awake, waiting, queue>>
      /\ UNCHANGED <<proxyErrorEpoch, browserSettingEpoch, configurationEpoch>>
      /\ "op" \in Threads
  BY DEF clearError, TeCheck, TeStore, TeChanged, TeDone, Look, Store, Goto, Clearing,
         OneThread, TypeOK, Threads, prefs, chain, epochs, beside
<1>2. t \in Tests /\ test[t] \in TestRecords
  <2>1. pc["op"] # "idle"
    BY <1>1 DEF Clearing
  <2>2. t # None
    BY <1>1, <2>1 DEF TestInv, OpInv, Belongs, Proper
  <2> QED BY <2>2, OpTyped DEF TypeOK
<1> HIDE DEF t
<1>3. /\ "badge.set" \notin Clearing /\ "done" \notin Updates \cup {"badge.set"}
      /\ {"te.check", "te.done", "te.store", "end"} \cap (Updates \cup {"badge.set"}) = {}
      /\ {"te.changed", "badge.look"} \subseteq Updates
  BY Updating DEF Clearing, Updates, Silent, StepLabels, Failable, RcTry, CoTry, SaTry,
     SaRestoreTry, BadgeLabels
<1>4. pc["op"] # "pe.store" /\ pc["op"] # "badge.set"
  BY <1>1 DEF Clearing
<1>5. CASE TeCheck("op")
  <2>1. /\ pc["op"] = "te.check" /\ storage' = storage /\ pc'["op"] \in {"te.store", "end"}
        /\ pc'["op"] = "te.store" => /\ status = "retry"
                                     /\ configurationEpoch = test[t].epoch + 1
                                     /\ browserSettingEpoch = test[t].settingEpoch
                                     /\ proxyErrorEpoch = test[t].errorEpoch
        /\ configurationEpoch = test[t].epoch + 1
             => test' = [test EXCEPT ![t].epoch = configurationEpoch]
    BY <1>1, <1>5 DEF TeCheck, Look, Goto, TypeOK, t
  <2>2. pc'["op"] = "te.store" => storage'.enabled /\ ~changed(t)'
    <3>1. status = "retry" => storage.enabled
      BY DEF status
    <3>2. configurationEpoch = test[t].epoch + 1 =>
            /\ test'[t].epoch = configurationEpoch
            /\ test'[t].settingEpoch = test[t].settingEpoch
            /\ test'[t].errorEpoch = test[t].errorEpoch
      BY <1>2, <2>1 DEF TypeOK, TestRecords
    <3>3. t' = t
      BY <1>1 DEF t
    <3> QED BY <1>1, <2>1, <3>1, <3>2, <3>3 DEF changed
  <2>3. status' = status
    BY <1>1, <2>1, StatusAlike
  <2>4. Outstanding => Outstanding'
    BY <1>1, <1>4, <2>1 DEF Outstanding, Queued
  <2>5. ~At(Updates) /\ ~At({"badge.set"}) /\ \A q \in Threads : pc'[q] # "badge.set"
    BY <1>1, <1>3, <2>1 DEF At, Threads
  <2> QED BY <1>1, <2>1, <2>2, <2>3, <2>4, <2>5 DEF BadgePending, Retrying, t
<1>6. CASE TeStore("op")
  <2>1. /\ pc["op"] = "te.store" /\ pc'["op"] = "te.changed" /\ test' = test
        /\ storage' = [storage EXCEPT !.proxyError = None]
    BY <1>1, <1>6 DEF TeStore, Store, Goto, TypeOK
  <2>2. storage'.enabled = storage.enabled
    BY <2>1 DEF TypeOK, BrowserTypeOK, StoredData
  <2>3. Outstanding => Outstanding'
    BY <1>1, <1>4, <2>2 DEF Outstanding, Queued
  <2>4. changed(t)' <=> changed(t)
    BY <1>1, <2>1 DEF changed, t
  <2>5. At(Updates)' /\ \A q \in Threads : pc'[q] # "badge.set"
    BY <1>1, <1>3, <2>1 DEF At, Threads
  <2>6. storage.enabled /\ (changed(t) => Outstanding)
    BY <2>1 DEF BadgePending, Retrying, t
  <2> QED BY <1>1, <2>2, <2>3, <2>4, <2>5, <2>6 DEF BadgePending, t
<1>7. CASE TeChanged("op")
  <2>1. /\ pc["op"] = "te.changed" /\ storage' = storage
        /\ pc'["op"] = IF changed(t) THEN "end" ELSE "badge.look"
    BY <1>1, <1>7 DEF TeChanged, Look, Goto, TypeOK, t
  <2>2. \A q \in Threads : pc'[q] # "badge.set"
    BY <1>1, <1>3, <2>1 DEF Threads
  <2>3. CASE ~changed(t)
    BY <1>1, <1>3, <2>1, <2>2, <2>3 DEF BadgePending, At, Retrying
  <2>4. CASE changed(t)
    <3>1. Outstanding
      BY <2>1, <2>4 DEF BadgePending, Retrying, t
    <3>2. Outstanding'
      BY <1>1, <1>4, <2>1, <3>1 DEF Outstanding, Queued
    <3> QED BY <2>1, <2>4, <3>2 DEF BadgePending, Retrying
  <2> QED BY <2>3, <2>4
<1>8. CASE TeDone("op")
  <2>1. pc["op"] = "te.done" /\ pc'["op"] = "end" /\ storage' = storage
    BY <1>1, <1>8 DEF TeDone, Look, Goto, TypeOK
  <2>2. status' = status
    BY <1>1, <2>1, StatusAlike
  <2>3. Outstanding => Outstanding'
    BY <1>1, <1>4, <2>1 DEF Outstanding, Queued
  <2>4. ~At(Updates) /\ ~At({"badge.set"}) /\ \A q \in Threads : pc'[q] # "badge.set"
    BY <1>1, <1>3, <2>1 DEF At, Threads
  <2> QED BY <1>1, <2>1, <2>2, <2>3, <2>4 DEF BadgePending, Retrying
<1> QED BY <1>5, <1>6, <1>7, <1>8 DEF clearError

\* The threads.
LEMMA ThreadsKeepBadge ==
  ASSUME TypeOK, DataIsBound, TestInv, BadgeInv, Boot \/ Operation
  PROVE  BadgeInv'
<1>1. UNCHANGED <<taken, awake, queue, waiting, budget>>
  BY DEF Boot, Operation, chain, beside
<1>2. CASE Boot
  <2>1. StepEffect("boot") /\ "boot" \in Threads
    BY <1>2, BootEffect DEF Threads
  <2>2. /\ pc["boot"] \in StepLabels /\ pc'["boot"] \in StepLabels
        /\ \A q \in Threads : q # "boot" => pc'[q] = pc[q]
    BY <2>1 DEF StepEffect, TypeOK
  <2>3. {"idle", "done"} \cap StepLabels = {}
    BY DEF StepLabels, Failable, RcTry, CoTry, SaTry, SaRestoreTry, BadgeLabels
  <2>4. BadgeStep("boot")
    BY <1>1, <1>2, <2>1, ReconcileBadge, UpdateBadge, OtherBadge DEF Boot
  <2>5. OneThread'
    BY <1>1, <2>2, <2>3 DEF BadgeInv, OneThread, Threads
  <2>6. BadgePending => BadgePending'
    BY <1>1, <2>1, <2>2, <2>3, <2>4, StepKeepsBadge DEF BadgeInv
  <2> QED BY <1>1, <2>5, <2>6 DEF BadgeInv, Unfailed
<1>3. CASE Operation
  <2>1. StepEffect("op") /\ "op" \in Threads
    BY <1>3, OperationEffect DEF Threads
  <2>2. /\ pc["op"] \in StepLabels /\ pc'["op"] \in StepLabels
        /\ \A q \in Threads : q # "op" => pc'[q] = pc[q]
    BY <2>1 DEF StepEffect, TypeOK
  <2>3. {"idle", "done"} \cap StepLabels = {}
    BY DEF StepLabels, Failable, RcTry, CoTry, SaTry, SaRestoreTry, BadgeLabels
  <2>4. BadgeStep("op") \/ clearError("op")
    BY <1>1, <1>3, <2>1, ReconcileBadge, UpdateBadge, ConnectBadge, SaveBadge, OtherBadge
    DEF Operation
  <2>5. OneThread'
    BY <2>2, <2>3 DEF BadgeInv, OneThread, Threads
  <2>6. BadgePending => BadgePending'
    <3>1. CASE BadgeStep("op")
      BY <1>1, <2>1, <2>2, <2>3, <3>1, StepKeepsBadge DEF BadgeInv
    <3>2. CASE clearError("op")
      BY <1>3, <3>2, RetryKeepsBadge DEF BadgeInv, Operation
    <3> QED BY <2>4, <3>1, <3>2
  <2> QED BY <1>1, <2>5, <2>6 DEF BadgeInv, Unfailed
<1> QED BY <1>2, <1>3

\* What is in the chain stays there until it is started.
LEMMA ChainKeepsBadge ==
  ASSUME TypeOK, BadgeInv, BootDone \/ Start \/ Finish
  PROVE  BadgeInv'
<1>1. /\ UNCHANGED <<storage, proxyPref, rtcPref, notices, badge, taken, awake, budget>>
      /\ status' = status
  BY StatusAlike DEF BootDone, Start, Finish, prefs, beside
<1>2. /\ {"idle", "done", "end"} \cap (Updates \cup {"badge.set"} \cup Retrying) = {}
      /\ "op" \in Threads /\ "boot" \in Threads
  BY DEF Updates, Silent, StepLabels, Failable, RcTry, CoTry, SaTry, SaRestoreTry,
         BadgeLabels, Threads, Retrying
<1>3. CASE BootDone
  <2>1. /\ pc["boot"] = "end" /\ pc'["boot"] = "done" /\ pc["op"] = "idle"
        /\ pc'["op"] = "idle" /\ queue' = queue \o waiting /\ waiting' = <<>>
    BY <1>3 DEF BootDone, Goto, TypeOK, BadgeInv, OneThread, Threads
  <2>2. \A k : Queued(k) => Queued(k)'
    <3>1. /\ Len(queue') = Len(queue) + Len(waiting)
          /\ Len(queue) \in Nat /\ Len(waiting) \in Nat
          /\ \A i \in 1..Len(queue) : queue'[i] = queue[i]
          /\ \A i \in 1..Len(waiting) : queue'[Len(queue) + i] = waiting[i]
      BY <2>1, ConcatProperties, LenProperties DEF TypeOK
    <3> QED BY <3>1 DEF Queued
  <2>3. Outstanding => Outstanding'
    BY <1>1, <2>1, <2>2 DEF Outstanding
  <2>4. BadgePending => BadgePending'
    BY <1>1, <1>2, <2>1, <2>3 DEF BadgePending, At, Threads
  <2> QED BY <1>1, <2>1, <2>4 DEF BadgeInv, OneThread, Unfailed
<1>4. CASE Start
  <2> DEFINE task == queue[1]
  <2>1. /\ queue # <<>> /\ queue' = Tail(queue) /\ queue \in Seq(TaskRecords)
        /\ pc["op"] = "idle" /\ pc'["op"] = Entry(task.kind)
        /\ pc'["boot"] = pc["boot"] /\ pc["boot"] = "done" /\ waiting' = waiting
    BY <1>4, HeadTailProperties
    DEF Start, Goto, TypeOK, beside, BadgeInv, OneThread, Threads
  <2>2. /\ Len(queue) \in Nat \ {0} /\ Len(queue') = Len(queue) - 1
        /\ \A i \in 1..Len(queue') : queue'[i] = queue[i + 1]
    BY <2>1, HeadTailProperties, EmptySeq
  <2>3. \A i \in 1..Len(queue) :
          i = 1 \/ (i - 1 \in 1..Len(queue') /\ queue'[i - 1] = queue[i])
    BY <2>2
  <2> HIDE DEF task
  <2>4. \A k : Queued(k) => Queued(k)' \/ task.kind = k
    BY <2>1, <2>3 DEF Queued, task
  <2>5. /\ task.kind \in {"proxyChange", "rtcChange"} => Entry(task.kind) \in Updates
        /\ task.kind \in {"proxyError", "authFailed"} => Entry(task.kind) = "pe.store"
        /\ Entry(task.kind) \notin Retrying \cup {"badge.set"}
    BY Updating DEF Entry, Retrying
  <2>6. Outstanding => Outstanding' \/ At(Updates)'
    BY <1>1, <1>2, <2>1, <2>4, <2>5 DEF Outstanding, At
  <2>7. BadgePending => BadgePending'
    BY <1>1, <1>2, <2>1, <2>5, <2>6 DEF BadgePending, At, Threads
  <2> QED BY <1>1, <2>1, <2>7 DEF BadgeInv, OneThread, Unfailed
<1>5. CASE Finish
  <2>1. /\ pc["op"] = "end" /\ pc'["op"] = "idle" /\ pc["boot"] = "done"
        /\ pc'["boot"] = "done" /\ queue' = queue /\ waiting' = waiting
    BY <1>5 DEF Finish, Goto, TypeOK, beside, BadgeInv, OneThread, Threads
  <2>2. Outstanding => Outstanding'
    BY <1>1, <2>1 DEF Outstanding, Queued
  <2>3. BadgePending => BadgePending'
    BY <1>1, <1>2, <2>1, <2>2 DEF BadgePending, At, Threads
  <2> QED BY <1>1, <2>1, <2>3 DEF BadgeInv, OneThread, Unfailed
<1> QED BY <1>3, <1>4, <1>5

\* After a rejected call nothing is said about the badge.
LEMMA FailKeepsBadge ==
  ASSUME TypeOK, RestInv, BadgeInv, NEW p \in Threads, Fail(p)
  PROVE  BadgeInv'
<1>1. /\ pc' = [pc EXCEPT ![p] = Rescue(p)] /\ queue' = queue
      /\ pc[p] \notin {"idle", "done"}
  BY DEF Fail, chain, Failable, RcTry, CoTry, SaTry, SaRestoreTry, BadgeLabels
<1>2. Rescue(p) \notin {"idle", "done"}
  BY DEF Rescue
<1>3. OneThread'
  BY <1>1, <1>2 DEF BadgeInv, OneThread, TypeOK, Threads
<1>4. ~Unfailed'
  <2>1. budget'["failure"] = budget["failure"] - 1
    BY DEF Fail, Spend, TypeOK, Events
  <2>2. budget["failure"] \in Nat /\ Budget["failure"] \in Nat
    BY BackgroundAssumption DEF TypeOK, Events
  <2> QED BY <2>1, <2>2 DEF RestInv, Unfailed
<1> QED BY <1>3, <1>4 DEF BadgeInv

\* A step beside the threads that leaves what the badge depends on alone and takes
\* nothing away from what is pending.
LEMMA BesideBadge ==
  ASSUME BadgePending, UNCHANGED <<storage, proxyPref, rtcPref, taken, badge, pc, loc>>,
         Outstanding => Outstanding',
         pc["op"] \in Retrying /\ storage.enabled =>
           (changed(loc["op"].task.test)' => changed(loc["op"].task.test) \/ Outstanding')
  PROVE  BadgePending'
<1>1. status' = status
  BY StatusAlike
<1>2. pc["op"] \in Retrying =>
        storage.enabled /\ (changed(loc["op"].task.test)' => Outstanding')
  BY DEF BadgePending
<1> QED BY <1>1, <1>2 DEF BadgePending, At

LEMMA AppendQueues ==
  ASSUME TypeOK, NEW task \in TaskRecords, queue' = Append(queue, task), waiting' = waiting
  PROVE  \A k : Queued(k) \/ task.kind = k => Queued(k)'
<1>1. Len(queue) \in Nat /\ Len(waiting) \in Nat
  BY LenProperties DEF TypeOK
<1> QED BY <1>1, AppendProperties DEF Queued, TypeOK

\* A proxy error after boot, or a repeated challenge, is queued and waits for its turn.
LEMMA ErrorKeepsBadge ==
  ASSUME TypeOK, AuthInv, BadgeInv,
         \/ \E r \in Requests : AuthRejected(r)
         \/ booted /\ \E e \in {"fatal", "direct"} : ProxyError(e)
  PROVE  BadgeInv'
<1>1. /\ UNCHANGED <<storage, proxyPref, rtcPref, notices, taken, badge>>
      /\ UNCHANGED <<pc, loc, awake, waiting>>
      /\ budget'["failure"] = budget["failure"] /\ pc["boot"] = "done"
      /\ \E task \in TaskRecords : /\ queue' = Append(queue, task)
                                   /\ task.kind \in {"proxyError", "authFailed"}
  <2>1. ASSUME NEW r \in Requests, AuthRejected(r) PROVE <1>1
    <3> DEFINE task == [Task("authFailed") EXCEPT !.error = "authFailed"]
    <3>1. task \in TaskRecords /\ task.kind = "authFailed"
      BY TasksTyped DEF Kinds, Errors, Task
    <3>2. booted
      BY <2>1 DEF AuthRejected, Answer, AuthStep, AuthInv, InFlight
    <3> QED BY <2>1, <3>1, <3>2 DEF AuthRejected, Answer, AuthStep, Enqueue, prefs, booted
  <2>2. ASSUME booted, NEW e \in {"fatal", "direct"}, ProxyError(e) PROVE <1>1
    <3> DEFINE task == [Task("proxyError") EXCEPT !.error = e]
    <3>1. task \in TaskRecords /\ task.kind = "proxyError"
      BY TasksTyped DEF Kinds, Errors, Task
    <3>2. budget'["failure"] = budget["failure"]
      BY <2>2 DEF ProxyError, Spend, TypeOK, Events
    <3> QED BY <2>2, <3>1, <3>2 DEF ProxyError, Enqueue, prefs, booted
  <2> QED BY <2>1, <2>2
<1>2. \A k : Queued(k) => Queued(k)'
  BY <1>1, AppendQueues
<1>3. Queued("proxyError")' \/ Queued("authFailed")'
  BY <1>1, AppendQueues
<1>4. Outstanding => Outstanding'
  BY <1>1, <1>2 DEF Outstanding
<1>5. storage.enabled => Outstanding'
  BY <1>1, <1>3 DEF Outstanding
<1>6. BadgePending => BadgePending'
  BY <1>1, <1>4, <1>5, BesideBadge
<1> QED BY <1>1, <1>6 DEF BadgeInv, OneThread, Unfailed

\* A command, a challenge and an IP check other than the one that the running task
\* belongs to.
LEMMA WorldKeepsBadge ==
  ASSUME TypeOK, TestInv, BadgeInv,
         \/ \E r \in Requests :
              \/ (onAuthRequired(r) /\ ~AuthRejected(r)) \/ clearAuthAttempt(r)
              \/ \E s \in Servers, c \in Visible : Challenge(r, s, c)
         \/ Command
         \/ \E t \in Tests : testIp(t) \/ TestStart(t)
         \/ UNCHANGED vars
  PROVE  BadgeInv'
<1>1. /\ UNCHANGED <<storage, proxyPref, rtcPref, notices, taken, badge, pc, loc, awake,
                     waiting, configurationEpoch, browserSettingEpoch, proxyErrorEpoch>>
      /\ budget'["failure"] = budget["failure"]
      /\ \/ queue' = queue
         \/ pc["boot"] = "done" /\ \E task \in TaskRecords : queue' = Append(queue, task)
      /\ \/ test' = test
         \/ \E t \in Tests : /\ test[t].pc # "queued"
                             /\ \A s \in Tests : s # t => test'[s] = test[s]
  <2> USE DEF threads, beside, epochs, prefs
  <2>1. ASSUME NEW r \in Requests,
               \/ (onAuthRequired(r) /\ ~AuthRejected(r)) \/ clearAuthAttempt(r)
               \/ \E s \in Servers, c \in Visible : Challenge(r, s, c)
        PROVE  <1>1
    BY <2>1 DEF onAuthRequired, AuthRead, AuthSettings, AuthTabGone, AuthCancel, AuthGrant,
                clearAuthAttempt, Challenge, Answer, AuthStep, quiet
  <2>2. CASE Command
    <3>1. PICK kind \in Kinds, key \in Keys \cup {None}, x \in Lists : Message(kind, key, x)
      BY <2>2, BrowserAssumption DEF Command, Kinds
    <3>2. [Task(kind) EXCEPT !.key = key, !.exclusions = x] \in TaskRecords
      BY TasksTyped
    <3>3. budget'["failure"] = budget["failure"]
      BY <3>1 DEF Message, Spend, TypeOK, Events
    <3> QED BY <3>1, <3>2, <3>3 DEF Message, Enqueue, booted
  <2>3. ASSUME NEW t \in Tests, testIp(t) PROVE <1>1
    <3>1. [Task("clearError") EXCEPT !.test = t] \in TaskRecords
      BY TasksTyped DEF Kinds
    <3>2. /\ test[t].pc \notin {"idle", "ok", "failed", "queued"}
          /\ \A s \in Tests : s # t => test'[s] = test[s]
      BY <2>3 DEF testIp, TestLook, TestCheck, TestFetch, TestCheck2, TestLast, TestStep,
                  TypeOK
    <3>3. booted
      BY <3>2 DEF TestInv, CheckInv
    <3> QED BY <2>3, <3>1, <3>2, <3>3 DEF testIp, Enqueue, booted
  <2>4. ASSUME NEW t \in Tests, TestStart(t) PROVE <1>1
    <3>1. budget'["failure"] = budget["failure"]
      BY <2>4 DEF TestStart, Spend, TypeOK, Events
    <3>2. /\ test[t].pc # "queued"
          /\ \A s \in Tests : s # t => test'[s] = test[s]
      BY <2>4 DEF TestStart, TypeOK
    <3> QED BY <2>4, <3>1, <3>2 DEF TestStart
  <2>5. CASE UNCHANGED vars
    BY <2>5 DEF vars
  <2> QED BY <2>1, <2>2, <2>3, <2>4, <2>5
<1>2. \A k : Queued(k) => Queued(k)'
  <2>1. CASE queue' = queue
    BY <1>1, <2>1 DEF Queued
  <2> QED BY <1>1, <2>1, AppendQueues
<1>3. Outstanding => Outstanding'
  BY <1>1, <1>2 DEF Outstanding
<1>4. pc["op"] \in Retrying =>
        (changed(loc["op"].task.test)' => changed(loc["op"].task.test))
  <2> SUFFICES ASSUME pc["op"] \in Retrying
               PROVE  changed(loc["op"].task.test)' <=> changed(loc["op"].task.test)
    OBVIOUS
  <2> DEFINE t == loc["op"].task.test
  <2>1. pc["op"] \in Clearing \ {"end", "idle"}
    BY DEF Retrying, Clearing
  <2>2. t # None
    BY <2>1 DEF TestInv, OpInv, Belongs, Proper
  <2>3. t \in Tests /\ test[t].pc = "queued"
    BY <2>1, <2>2, OpTyped DEF TestInv, OpInv, ClearInv
  <2>4. test'[t] = test[t] /\ loc' = loc
    BY <1>1, <2>3
  <2> QED BY <1>1, <2>4 DEF changed
<1>5. BadgePending => BadgePending'
  BY <1>1, <1>3, <1>4, BesideBadge
<1> QED BY <1>1, <1>5 DEF BadgeInv, OneThread, Unfailed

\* An event on its way, in the chain, or lost with a worker whose successor begins with
\* a reconciliation, suffices.
LEMMA EventKeepsBadge ==
  ASSUME TypeOK, BadgeInv,
         \/ \E s \in Settings : onChange(s) \/ \E c \in Visible : Takeover(s, c)
  PROVE  BadgeInv'
<1>1. /\ UNCHANGED <<storage, badge, pc, loc, awake>>
      /\ budget'["failure"] = budget["failure"]
      /\ pc["boot"] # "done" => queue' = queue
      /\ Outstanding'
  <2>1. ASSUME NEW s \in Settings, onChange(s) PROVE <1>1
    <3> DEFINE task == ChangeTask(s)
    <3>1. /\ UNCHANGED <<storage, badge, pc, loc, awake, budget>>
          /\ \/ queue' = Append(queue, task) /\ waiting' = waiting /\ pc["boot"] = "done"
             \/ waiting' = Append(waiting, task) /\ queue' = queue
      BY <2>1 DEF onChange, Enqueue, booted
    <3>2. task \in TaskRecords
      BY TasksTyped DEF ChangeTask, Kinds
    <3>3. task.kind \in {"proxyChange", "rtcChange"}
      BY DEF ChangeTask, Task
    <3> HIDE DEF task
    <3>4. Queued(task.kind)'
      <4>1. CASE queue' = Append(queue, task) /\ waiting' = waiting
        BY <3>2, <4>1, AppendQueues
      <4>2. CASE waiting' = Append(waiting, task)
        <5>1. Len(waiting) \in Nat
          BY LenProperties DEF TypeOK
        <5> QED BY <3>1, <3>2, <4>2, <5>1, AppendProperties DEF Queued, TypeOK
      <4> QED BY <3>1, <4>1, <4>2
    <3> QED BY <3>1, <3>3, <3>4 DEF Outstanding
  <2>2. ASSUME NEW s \in Settings, NEW c \in Visible, Takeover(s, c) PROVE <1>1
    <3>1. /\ UNCHANGED <<storage, badge, pc, loc, awake, queue>> /\ notices' # {}
          /\ budget'["failure"] = budget["failure"]
      BY <2>2 DEF Takeover, Contest, chain, Spend, TypeOK, Events
    <3> QED BY <3>1 DEF Outstanding
  <2> QED BY <2>1, <2>2
<1>2. BadgePending => BadgePending'
  BY <1>1 DEF BadgePending
<1> QED BY <1>1, <1>2 DEF BadgeInv, OneThread, Unfailed

LEMMA RestartKeepsBadge ==
  ASSUME TypeOK, KeyInv, BadgeInv, Kill \/ Wake
  PROVE  BadgeInv'
<1>1. {"idle", "rc.read"} \cap (Retrying \cup {"badge.set", "done"}) = {}
  BY DEF Retrying
<1>2. CASE Kill
  <2>1. /\ ~awake' /\ pc' = Asleep /\ queue' = <<>>
    BY <1>2 DEF Kill
  <2>2. \A p \in Threads : pc'[p] = "idle"
    BY <2>1 DEF Asleep
  <2> QED BY <1>1, <2>1, <2>2 DEF BadgeInv, OneThread, BadgePending, Outstanding, Threads
<1>3. CASE Wake
  <2>1. /\ pc["boot"] = "idle" /\ pc'["boot"] = "rc.read" /\ pc'["op"] = pc["op"]
        /\ queue' = queue
    BY <1>3 DEF Wake, KeyInv, BootPath, chain, TypeOK, Threads
  <2>2. pc["op"] = "idle" /\ queue = <<>>
    BY <2>1 DEF BadgeInv, OneThread
  <2>3. At(Updates)'
    BY <2>1, Updating DEF At, Threads
  <2> QED BY <1>1, <2>1, <2>2, <2>3 DEF BadgeInv, OneThread, BadgePending, Threads
<1> QED BY <1>2, <1>3

LEMMA InitBadge == Init => BadgeInv
<1> SUFFICES ASSUME Init PROVE BadgeInv
  OBVIOUS
<1>1. ~awake /\ pc = Asleep /\ queue = <<>>
  BY Zenon DEF Init, NotLoaded
<1>2. \A p \in Threads : pc[p] = "idle"
  BY <1>1 DEF Asleep
<1> QED BY <1>1, <1>2
    DEF BadgeInv, OneThread, BadgePending, Outstanding, Retrying, Threads

LEMMA NextKeepsBadge ==
  ASSUME TypeOK, DataIsBound, KeyInv, RestInv, AuthInv, TestInv, BadgeInv, [Next]_vars,
         [\A e \in {"fatal", "direct"} : ProxyError(e) => booted]_vars
  PROVE  BadgeInv'
<1>1. CASE UNCHANGED vars
  BY <1>1, WorldKeepsBadge
<1>2. CASE Next
  <2>1. CASE Worker
    BY <2>1, ThreadsKeepBadge, ChainKeepsBadge, ErrorKeepsBadge, WorldKeepsBadge DEF Worker
  <2>2. CASE \E s \in Settings : onChange(s)
    BY <2>2, EventKeepsBadge
  <2>3. ASSUME NEW e \in {"fatal", "direct"}, ProxyError(e), vars' # vars PROVE BadgeInv'
    BY <2>3, ErrorKeepsBadge
  <2>4. CASE Environment
    BY <1>1, <2>3, <2>4, EventKeepsBadge, FailKeepsBadge, WorldKeepsBadge, RestartKeepsBadge
    DEF Environment
  <2> QED BY <1>2, <2>1, <2>2, <2>4 DEF Next
<1> QED BY <1>1, <1>2

\* When everything is handled the toolbar icon shows the status, after any commands,
\* takeovers and restarts without a rejected Chrome call, provided that no proxy error
\* is reported while boot runs: boot is the one caller of updateBadge outside exclusive().
THEOREM BadgeCorrect == Spec /\ ErrorsAwaitBoot => []BadgeShowsStatus
<1>1. TypeOK /\ DataIsBound /\ KeyInv /\ RestInv /\ AuthInv /\ TestInv /\ BadgeInv
      /\ [Next]_vars /\ [\A e \in {"fatal", "direct"} : ProxyError(e) => booted]_vars
      => BadgeInv'
  BY NextKeepsBadge
<1>2. RestInv /\ BadgeInv => BadgeShowsStatus
  <2> SUFFICES ASSUME RestInv, BadgeInv, calm PROVE badge = BadgeOf(status)
    BY DEF BadgeShowsStatus
  <2>1. /\ awake /\ pc["boot"] = "done" /\ pc["op"] = "idle" /\ queue = <<>>
        /\ waiting = <<>> /\ notices = {} /\ BadgePending
    BY DEF calm, rest, booted, RestInv, BadgeInv, Unfailed
  <2>2. ~At(Updates) /\ ~At({"badge.set"})
    BY <2>1 DEF At, Threads, Updates, StepLabels, Failable, RcTry, CoTry, SaTry,
       SaRestoreTry, BadgeLabels
  <2>3. \A k : ~Queued(k)
    BY <2>1, EmptySeq DEF Queued
  <2> QED BY <2>1, <2>2, <2>3 DEF BadgePending, Outstanding
<1> QED BY <1>1, <1>2, InitBadge, RestInvariant, AuthInvariant, TestInvariant, PTL
    DEF Spec, ErrorsAwaitBoot
=============================================================================
