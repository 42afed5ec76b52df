-------------------------- MODULE BackgroundProofs --------------------------
(***************************************************************************)
(* Type correctness of the service worker for every value of the           *)
(* constants.  TypeOK is not inductive: a PAC can only be built from the   *)
(* data a task has remembered if a connection was in it, so the invariant  *)
(* also says where that is known (DataIsBound).  The argument has two      *)
(* parts.  First, what any step of a thread does to the variables it may   *)
(* touch (StepEffect), by cases on the program counter; then that such a   *)
(* step, and each of the other actions, preserves the invariant.           *)
(*                                                                         *)
(* The second part proves, in the same two steps, that the applied PAC     *)
(* always names the server of the stored key (AppliedServerIsStored); the  *)
(* third, what the worker has done when it comes to rest.                  *)
(***************************************************************************)
EXTENDS BackgroundProperties, TLAPS, SequenceTheorems

\* the labels at which the code uses `connection` after checking that it is set
UsesData == RcTry \cup CoTry \cup SaTry \cup SaRestoreTry
            \cup {"co.clear", "co.enable", "sa.store", "sa.rollback"}
DataIsBound == \A p \in Threads :
  pc[p] \in UsesData => loc[p].data.connection # None

\* what a step of thread p may do
StepEffect(p) ==
  /\ pc[p] \in StepLabels /\ pc'[p] \in StepLabels
  /\ pc' = [pc EXCEPT ![p] = pc'[p]]
  /\ loc'[p] \in LocalRecords /\ loc' = [loc EXCEPT ![p] = loc'[p]]
  /\ pc'[p] \in UsesData => loc'[p].data.connection # None
  /\ storage' \in StoredData
  /\ proxyPref' \in Pacs \cup {None} /\ rtcPref' \in BOOLEAN
  /\ notices' \subseteq Settings /\ badge' \in Badges
  /\ restoreAfterIncognitoTakeover' \in BOOLEAN /\ ownProxyClearedForConflict' \in BOOLEAN

\* The updates of the locals stay within their type.
LEMMA LocalsUpdate ==
  ASSUME NEW l \in LocalRecords, NEW s \in States, NEW r \in Returns
  PROVE  /\ [l EXCEPT !.state = s] \in LocalRecords
         /\ [l EXCEPT !.state = s].data = l.data
         /\ [l EXCEPT !.ret = r] \in LocalRecords
         /\ [l EXCEPT !.ret = r].data = l.data
BY DEF LocalRecords

\* The updates of an IP check stay within their type.
LEMMA TestUpdate ==
  ASSUME NEW l \in TestRecords
  PROVE  /\ \A e \in Nat : [l EXCEPT !.epoch = e] \in TestRecords
         /\ \A s \in TestLabels : [l EXCEPT !.pc = s] \in TestRecords
BY DEF TestRecords

USE DEF StepLabels, Failable, RcTry, CoTry, SaTry, SaRestoreTry, BadgeLabels

\* buildProxyConfig of a valid key and list is a PAC.
LEMMA PacIsTyped ==
  ASSUME NEW k \in Keys, NEW x \in Lists
  PROVE  buildProxyConfig(k, x) \in Pacs
BY BrowserAssumption DEF buildProxyConfig, Pacs

\* What a step of a thread may read, spelled out once.
LEMMA LocalsTyped ==
  ASSUME TypeOK, NEW p \in Threads
  PROVE  /\ storage.connection \in Keys \cup {None} /\ storage.enabled \in BOOLEAN
         /\ storage.exclusions \in Lists /\ storage.proxyError \in Errors \cup {None}
         /\ loc[p] \in LocalRecords
         /\ loc[p].data.connection \in Keys \cup {None}
         /\ loc[p].data.exclusions \in Lists
         /\ loc[p].data.enabled \in BOOLEAN
         /\ loc[p].ret \in Returns
         /\ loc[p].task \in TaskRecords
         /\ Snapshot(p) \in LocalRecords
         /\ Snapshot(p).data = storage
         /\ Snapshot(p).ret = loc[p].ret
         /\ loc[p].data.connection # None => Expected(p) \in Pacs /\ NewPac(p) \in Pacs
<1>1. loc[p] \in LocalRecords /\ storage \in StoredData
  BY DEF TypeOK, BrowserTypeOK
<1>2. loc[p].data \in StoredData /\ loc[p].task \in TaskRecords /\ loc[p].ret \in Returns
  BY <1>1 DEF LocalRecords
<1>3. loc[p].data.connection \in Keys \cup {None} /\ loc[p].data.exclusions \in Lists
      /\ loc[p].data.enabled \in BOOLEAN
  BY <1>2 DEF StoredData
<1>4. storage.connection \in Keys \cup {None} /\ storage.enabled \in BOOLEAN
      /\ storage.exclusions \in Lists /\ storage.proxyError \in Errors \cup {None}
  BY <1>1 DEF StoredData
<1>5. Snapshot(p) \in LocalRecords /\ Snapshot(p).data = storage
      /\ Snapshot(p).ret = loc[p].ret
  BY <1>1 DEF Snapshot, LocalRecords
<1>6. loc[p].task.exclusions \in Lists
  BY <1>2 DEF TaskRecords
<1>7. loc[p].data.connection # None => Expected(p) \in Pacs /\ NewPac(p) \in Pacs
  BY <1>3, <1>6, PacIsTyped DEF Expected, ConfiguredPac, NewPac
<1> QED BY <1>1, <1>2, <1>3, <1>4, <1>5, <1>7

\* The steps of reconcileAtStartup, in boot or in a task.
LEMMA ReconcileEffect ==
  ASSUME TypeOK, DataIsBound, NEW p \in Threads, reconcileAtStartup(p)
  PROVE  StepEffect(p)
<1> USE LocalsTyped DEF TypeOK, BrowserTypeOK, DataIsBound, StepEffect, UsesData,
        Labels, Goto, Look, SetProxy, SetRtc, Notify, Settings, keepFlags, flags,
        SetFlags, prefs, clearOwnProxySetting, clearOwnWebRTCSetting
<1>1. CASE RcRead(p) /\ keepFlags
  <2>1. [storage EXCEPT !.enabled = @ /\ storage.connection # None] \in StoredData
    BY DEF StoredData
  <2> QED BY <1>1, <2>1 DEF RcRead
<1>2. CASE RcRtc(p) /\ keepFlags
  BY <1>2 DEF RcRtc
<1>3. CASE RcUnrestricted(p) /\ keepFlags
  BY <1>3 DEF RcUnrestricted
<1>4. CASE RcSetRtc(p) /\ keepFlags
  BY <1>4 DEF RcSetRtc
<1>5. CASE RcCheckRtc(p) /\ keepFlags
  BY <1>5 DEF RcCheckRtc
<1>6. CASE RcSetProxy(p) /\ keepFlags
  BY <1>6 DEF RcSetProxy
<1>7. CASE RcCheckProxy(p) /\ keepFlags
  BY <1>7 DEF RcCheckProxy
<1>8. CASE RcCaught(p) /\ keepFlags
  BY <1>8 DEF RcCaught
<1>9. CASE OffProxy(p) /\ keepFlags
  BY <1>9 DEF OffProxy
<1>10. CASE OffRtc(p) /\ keepFlags
  BY <1>10 DEF OffRtc
<1>11. CASE RcProxy(p)
  BY <1>11 DEF RcProxy
<1>12. CASE RcLast(p)
  BY <1>12 DEF RcLast
<1> QED BY <1>1, <1>2, <1>3, <1>4, <1>5, <1>6, <1>7, <1>8, <1>9, <1>10, <1>11, <1>12
        DEF reconcileAtStartup

\* status() is one of the states the popup knows.
LEMMA StatusTyped == status \in States
BY DEF status, States

\* The two flags of incognitoProxyState are Booleans.
LEMMA IncognitoTyped ==
  ASSUME NEW pac
  PROVE  /\ incognitoProxyState(pac).controllable \in BOOLEAN
         /\ incognitoProxyState(pac).effective \in BOOLEAN
BY DEF incognitoProxyState, isEffectiveProxySetting

\* updateBadge only returns to where its task goes on.
LEMMA BadgeEffect ==
  ASSUME TypeOK, DataIsBound, NEW p \in Threads, updateBadge(p)
  PROVE  StepEffect(p)
<1> USE LocalsTyped DEF TypeOK, BrowserTypeOK, DataIsBound, StepEffect, UsesData,
        Labels, Goto, keepFlags, flags, prefs
<1>1. CASE BadgeLook(p) /\ keepFlags
  <2>1. [loc[p] EXCEPT !.state = status] \in LocalRecords
    BY StatusTyped, LocalsUpdate
  <2> QED BY <1>1, <2>1 DEF BadgeLook, Remember
<1>2. CASE BadgeSet(p) /\ keepFlags
  <2>1. /\ [loc[p] EXCEPT !.ret = "end"] \in LocalRecords
        /\ [loc[p] EXCEPT !.ret = "end"].data = loc[p].data
    BY StatusTyped, LocalsUpdate DEF Returns
  <2>2. BadgeOf(loc[p].state) \in Badges
    BY DEF BadgeOf, Badges
  <2>3. loc[p].ret \in StepLabels \ UsesData
    BY DEF Returns
  <2> QED BY <1>2, <2>1, <2>2, <2>3 DEF BadgeSet
<1> QED BY <1>1, <1>2 DEF updateBadge

\* The steps of connect: whatever it checked, it builds its PAC from a key.
LEMMA ConnectEffect ==
  ASSUME TypeOK, DataIsBound, NEW p \in Threads, connect(p)
  PROVE  StepEffect(p)
<1> USE LocalsTyped DEF TypeOK, BrowserTypeOK, DataIsBound, StepEffect, UsesData,
        Labels, Goto, Look, Remember, Store, SetProxy, SetRtc, Notify, Settings,
        keepFlags, flags, SetFlags, prefs, clearOwnProxySetting
<1>1. CASE CoCheck(p) /\ keepFlags
  BY <1>1 DEF CoCheck
<1>2. CASE CoRefuse(p) /\ keepFlags
  BY <1>2 DEF CoRefuse
<1>3. CASE CoClear(p) /\ keepFlags
  BY <1>3 DEF CoClear
<1>4. CASE CoEnable(p) /\ keepFlags
  <2>1. [storage EXCEPT !.enabled = TRUE, !.proxyError = None] \in StoredData
    BY DEF StoredData
  <2> QED BY <1>4, <2>1 DEF CoEnable
<1>5. CASE CoSetRtc(p) /\ keepFlags
  BY <1>5 DEF CoSetRtc
<1>6. CASE CoCheckRtc(p) /\ keepFlags
  BY <1>6 DEF CoCheckRtc
<1>7. CASE CoSetProxy(p) /\ keepFlags
  BY <1>7 DEF CoSetProxy
<1>8. CASE CoUndo(p) /\ keepFlags
  <2>1. [storage EXCEPT !.enabled = FALSE] \in StoredData
    BY DEF StoredData
  <2> QED BY <1>8, <2>1 DEF CoUndo
<1>9. CASE CoApplied(p)
  BY <1>9 DEF CoApplied
<1> QED BY <1>1, <1>2, <1>3, <1>4, <1>5, <1>6, <1>7, <1>8, <1>9 DEF connect

\* importKey, disconnect and forget.
LEMMA OtherCommandsEffect ==
  ASSUME TypeOK, DataIsBound, NEW p \in Threads,
         importKey(p) \/ disconnect(p) \/ forget(p)
  PROVE  StepEffect(p)
<1> USE LocalsTyped DEF TypeOK, BrowserTypeOK, DataIsBound, StepEffect, UsesData,
        Labels, Goto, Store, keepFlags, flags, SetFlags, prefs
<1>1. CASE ImDisable(p) /\ keepFlags
  <2>1. [storage EXCEPT !.enabled = FALSE] \in StoredData
    BY DEF StoredData
  <2> QED BY <1>1, <2>1 DEF ImDisable
<1>2. CASE ImStore(p) /\ keepFlags
  <2>1. loc[p].task.key \in Keys \cup {None}
    BY DEF TaskRecords
  <2>2. [storage EXCEPT !.connection = loc[p].task.key, !.exclusions = NoExclusions,
                        !.proxyError = None] \in StoredData
    BY <2>1, BrowserAssumption DEF StoredData
  <2> QED BY <1>2, <2>2 DEF ImStore
<1>3. CASE disconnect(p)
  <2>1. [storage EXCEPT !.enabled = FALSE, !.proxyError = None] \in StoredData
    BY DEF StoredData
  <2> QED BY <1>3, <2>1 DEF disconnect
<1>4. CASE forget(p)
  <2>1. [storage EXCEPT !.connection = None, !.exclusions = NoExclusions] \in StoredData
    BY BrowserAssumption DEF StoredData
  <2> QED BY <1>4, <2>1 DEF forget
<1> QED BY <1>1, <1>2, <1>3, <1>4 DEF importKey

\* saveExclusions with its roll-back.
LEMMA SaveEffect ==
  ASSUME TypeOK, DataIsBound, NEW p \in Threads, saveExclusions(p)
  PROVE  StepEffect(p)
<1> USE LocalsTyped DEF TypeOK, BrowserTypeOK, DataIsBound, StepEffect, UsesData,
        Labels, Goto, Look, Remember, Store, SetProxy, Notify, Settings,
        keepFlags, flags, SetFlags, prefs, clearOwnProxySetting
<1>1. CASE SaCheck(p)
  BY <1>1 DEF SaCheck
<1>2. CASE SaRefuse(p) /\ keepFlags
  BY <1>2 DEF SaRefuse
<1>3. CASE SaStore(p)
  <2>1. loc[p].task.exclusions \in Lists
    BY DEF TaskRecords
  <2>2. [storage EXCEPT !.exclusions = loc[p].task.exclusions] \in StoredData
    BY <2>1 DEF StoredData
  <2> QED BY <1>3, <2>2 DEF SaStore
<1>4. CASE SaSetProxy(p) /\ keepFlags
  BY <1>4 DEF SaSetProxy
<1>5. CASE SaApplied(p)
  BY <1>5 DEF SaApplied
<1>6. CASE SaRollback(p) /\ keepFlags
  <2>1. [storage EXCEPT !.exclusions = loc[p].data.exclusions] \in StoredData
    BY DEF StoredData
  <2> QED BY <1>6, <2>1 DEF SaRollback
<1>7. CASE SaMayRestore(p) /\ keepFlags
  BY <1>7 DEF SaMayRestore
<1>8. CASE SaRestore(p) /\ keepFlags
  BY <1>8 DEF SaRestore
<1>9. CASE SaRestored(p) /\ keepFlags
  BY <1>9 DEF SaRestored
<1>10. CASE SaGiveUp(p) /\ keepFlags
  BY <1>10 DEF SaGiveUp
<1> QED BY <1>1, <1>2, <1>3, <1>4, <1>5, <1>6, <1>7, <1>8, <1>9, <1>10
        DEF saveExclusions

\* The tasks of onProxyError and of proxy.settings.onChange.
LEMMA EventEffect ==
  ASSUME TypeOK, DataIsBound, NEW p \in Threads, PeStore(p) \/ onProxySettingChange(p)
  PROVE  StepEffect(p)
<1> USE LocalsTyped DEF TypeOK, BrowserTypeOK, DataIsBound, StepEffect, UsesData,
        Labels, Goto, Look, Remember, Store, SetProxy, Notify, Settings,
        keepFlags, flags, SetFlags, prefs, clearOwnProxySetting
<1>1. CASE PeStore(p)
  <2>1. loc[p].task.error \in Errors \cup {None}
    BY DEF TaskRecords
  <2>2. [storage EXCEPT !.proxyError = loc[p].task.error] \in StoredData
    BY <2>1 DEF StoredData
  <2> QED BY <1>1, <2>2 DEF PeStore
<1>2. CASE ChLook(p)
  <2>1. \A l \in Returns : /\ [loc[p] EXCEPT !.ret = l] \in LocalRecords
                              /\ [loc[p] EXCEPT !.ret = l].data = loc[p].data
    BY StatusTyped, LocalsUpdate
  <2>2. CASE ~storage.enabled \/ storage.connection = None
    BY <1>2, <2>2 DEF ChLook
  <2>3. CASE ~(~storage.enabled \/ storage.connection = None)
    <3>1. /\ pc[p] = "ch.look"
          /\ pc'[p] \in {"ch.clear", "rc.read", "badge.look"}
          /\ pc' = [pc EXCEPT ![p] = pc'[p]]
          /\ \E l \in {"badge.look", "end"} : loc' = [loc EXCEPT ![p] = [loc[p] EXCEPT !.ret = l]]
          /\ UNCHANGED <<storage, prefs, badge>>
      BY <1>2, <2>3 DEF ChLook
    <3>2. restoreAfterIncognitoTakeover' \in BOOLEAN /\ ownProxyClearedForConflict' \in BOOLEAN
      BY <1>2, <2>3, IncognitoTyped DEF ChLook
    <3>3. PICK l \in {"badge.look", "end"} :
            loc' = [loc EXCEPT ![p] = [loc[p] EXCEPT !.ret = l]]
      BY <3>1
    <3>4. /\ loc'[p] \in LocalRecords
          /\ loc' = [loc EXCEPT ![p] = loc'[p]]
      BY <2>1, <3>3 DEF Returns
    <3> QED BY <3>1, <3>2, <3>4
  <2> QED BY <2>2, <2>3
<1>3. CASE ChClear(p)
  BY <1>3 DEF ChClear
<1> QED BY <1>1, <1>2, <1>3 DEF onProxySettingChange

\* The task in which a retry clears its error.
LEMMA ClearErrorEffect ==
  ASSUME TypeOK, DataIsBound, NEW p \in Threads, clearError(p)
  PROVE  StepEffect(p) /\ test' \in [Tests -> TestRecords]
<1> USE LocalsTyped DEF TypeOK, BrowserTypeOK, DataIsBound, StepEffect, UsesData,
        Labels, Goto, Look, Store, keepFlags, flags, SetFlags, prefs
<1>1. CASE TeCheck(p) /\ keepFlags
  <2>1. test' \in [Tests -> TestRecords]
    <3> DEFINE t == loc[p].task.test
    <3>1. PICK e : /\ test' = [test EXCEPT ![t].epoch = e]
                   /\ e = configurationEpoch \/ e = test[t].epoch
      BY <1>1 DEF TeCheck
    <3>2. CASE t \in Tests
      <4>1. test[t] \in TestRecords
        BY <3>2
      <4>2. e \in Nat
        BY <3>1, <4>1 DEF TestRecords
      <4>3. [test[t] EXCEPT !.epoch = e] \in TestRecords
        BY <4>1, <4>2, TestUpdate
      <4>4. test' = [test EXCEPT ![t] = [test[t] EXCEPT !.epoch = e]]
        BY <3>1
      <4> QED BY <4>3, <4>4
    <3>3. CASE t \notin Tests
      BY <3>1, <3>3
    <3> QED BY <3>2, <3>3
  <2> QED BY <1>1, <2>1 DEF TeCheck
<1>2. CASE TeStore(p) /\ keepFlags
  <2>1. [storage EXCEPT !.proxyError = None] \in StoredData
    BY DEF StoredData
  <2> QED BY <1>2, <2>1 DEF TeStore
<1>3. CASE TeChanged(p) /\ keepFlags
  BY <1>3 DEF TeChanged
<1>4. CASE TeDone(p) /\ keepFlags
  <2>1. test' \in [Tests -> TestRecords]
    BY <1>4, TestUpdate DEF TeDone, TestLabels
  <2> QED BY <1>4, <2>1 DEF TeDone
<1> QED BY <1>1, <1>2, <1>3, <1>4 DEF clearError

\* A step of a thread preserves the invariant.
LEMMA StepTyped ==
  ASSUME TypeOK, DataIsBound, NEW p \in Threads, StepEffect(p),
         test' \in [Tests -> TestRecords], UNCHANGED <<chain, beside>>
  PROVE  TypeOK' /\ DataIsBound'
<1> USE DEF chain, beside, epochs
<1>1. BrowserTypeOK'
  BY DEF StepEffect, BrowserTypeOK, TypeOK
<1>2. pc' \in [Threads -> Labels] /\ loc' \in [Threads -> LocalRecords]
  BY DEF StepEffect, TypeOK, Labels
<1>3. configurationChanging' <=> pc'["op"] # "idle"
  <2>1. pc["op"] # "idle" <=> pc'["op"] # "idle"
    BY DEF StepEffect, TypeOK, Threads
  <2>2. configurationChanging' = configurationChanging
    OBVIOUS
  <2>3. configurationChanging <=> pc["op"] # "idle"
    BY DEF TypeOK
  <2> QED BY <2>1, <2>2, <2>3
<1>4. TypeOK'
  BY <1>1, <1>2, <1>3 DEF TypeOK, StepEffect
<1>5. DataIsBound'
  BY DEF StepEffect, TypeOK, DataIsBound
<1> QED BY <1>4, <1>5

\* Every step of boot is such a step.
LEMMA BootEffect ==
  ASSUME TypeOK, DataIsBound, Boot
  PROVE  StepEffect("boot")
<1> "boot" \in Threads
  BY DEF Threads
<1>1. CASE reconcileAtStartup("boot")
  BY <1>1, ReconcileEffect
<1>2. CASE updateBadge("boot")
  BY <1>2, BadgeEffect
<1>3. CASE clearOwnProxySetting("boot", "boot.clear", "badge.look") /\ keepFlags
  BY <1>3, LocalsTyped
  DEF TypeOK, BrowserTypeOK, DataIsBound, StepEffect, UsesData, Labels, Goto,
      SetProxy, Notify, Settings, keepFlags, flags, clearOwnProxySetting
<1> QED BY <1>1, <1>2, <1>3 DEF Boot

\* Every step of a task is such a step.
LEMMA OperationEffect ==
  ASSUME TypeOK, DataIsBound, Operation
  PROVE  StepEffect("op") /\ test' \in [Tests -> TestRecords]
<1> "op" \in Threads
  BY DEF Threads
<1>1. CASE clearError("op")
  BY <1>1, ClearErrorEffect
<1>2. CASE ~clearError("op")
  BY <1>2, ReconcileEffect, BadgeEffect, ConnectEffect, OtherCommandsEffect,
     SaveEffect, EventEffect DEF Operation, TypeOK
<1> QED BY <1>1, <1>2

\* Both threads preserve the invariant.
LEMMA ThreadsTyped ==
  ASSUME TypeOK, DataIsBound, Boot \/ Operation
  PROVE  TypeOK' /\ DataIsBound'
<1>1. CASE Boot
  BY <1>1, BootEffect, StepTyped DEF Boot, TypeOK, Threads
<1>2. CASE Operation
  BY <1>2, OperationEffect, StepTyped DEF Operation, Threads
<1> QED BY <1>1, <1>2

\* The tasks the handlers build are tasks.
LEMMA TasksTyped ==
  ASSUME NEW k \in Kinds
  PROVE  /\ Task(k) \in TaskRecords
         /\ \A e \in Errors : [Task(k) EXCEPT !.error = e] \in TaskRecords
         /\ \A t \in Tests : [Task(k) EXCEPT !.test = t] \in TaskRecords
         /\ \A key \in Keys \cup {None}, x \in Lists :
              [Task(k) EXCEPT !.key = key, !.exclusions = x] \in TaskRecords
BY BrowserAssumption DEF Task, TaskRecords

\* A task starts at a label that uses no remembered data.
LEMMA NewLocalsTyped ==
  ASSUME NEW task \in TaskRecords
  PROVE  /\ Locals(task) \in LocalRecords
         /\ Entry(task.kind) \in StepLabels \ UsesData
<1>1. NoData \in StoredData
  BY BrowserAssumption DEF NoData, StoredData
<1>2. "off" \in States
  BY DEF States
<1>3. AfterBadge(task.kind) \in Returns
  BY DEF AfterBadge, Returns
<1>4. Locals(task) \in LocalRecords
  BY <1>1, <1>2, <1>3 DEF Locals, LocalRecords
<1>5. Entry(task.kind) \in StepLabels \ UsesData
  BY DEF Entry, UsesData
<1> QED BY <1>4, <1>5

\* The locals of an idle thread are locals.
LEMMA NoLocalsTyped == NoLocals \in LocalRecords
<1>1. Task("boot") \in TaskRecords
  BY TasksTyped DEF Kinds
<1> QED BY <1>1, NewLocalsTyped DEF NoLocals

\* exclusive() starts and finishes tasks, and boot hands over what waited.
LEMMA ChainTyped ==
  ASSUME TypeOK, DataIsBound, BootDone \/ Start \/ Finish
  PROVE  TypeOK' /\ DataIsBound'
<1> USE DEF beside, epochs, flags, prefs, Goto, Threads
<1>1. CASE BootDone
  <2>1. queue' \in Seq(TaskRecords) /\ waiting' \in Seq(TaskRecords)
    BY <1>1, ConcatProperties DEF BootDone, TypeOK
  <2>2. loc' \in [Threads -> LocalRecords]
    BY <1>1, NoLocalsTyped DEF BootDone, TypeOK
  <2>3. pc' \in [Threads -> Labels] /\ pc'["op"] = pc["op"] /\ pc'["boot"] = "done"
    BY <1>1 DEF BootDone, TypeOK, Labels
  <2>4. TypeOK'
    BY <1>1, <2>1, <2>2, <2>3 DEF BootDone, TypeOK, BrowserTypeOK
  <2>5. DataIsBound'
    BY <1>1, <2>3 DEF BootDone, DataIsBound, UsesData, TypeOK
  <2> QED BY <2>4, <2>5
<1>2. CASE Start
  <2>1. Head(queue) \in TaskRecords /\ queue' \in Seq(TaskRecords)
    BY <1>2, HeadTailProperties DEF Start, TypeOK
  <2>2. /\ Locals(Head(queue)) \in LocalRecords
        /\ Entry(Head(queue).kind) \in StepLabels \ UsesData
    BY <2>1, NewLocalsTyped
  <2>3. loc' \in [Threads -> LocalRecords] /\ loc'["boot"] = loc["boot"]
    BY <1>2, <2>2 DEF Start, TypeOK
  <2>4. /\ pc' \in [Threads -> Labels] /\ pc'["boot"] = pc["boot"]
        /\ pc'["op"] \in StepLabels \ UsesData
    BY <1>2, <2>2 DEF Start, TypeOK, Labels
  <2>5. configurationEpoch' \in Nat
    BY <1>2 DEF Start, TypeOK
  <2>6. configurationChanging' <=> pc'["op"] # "idle"
    BY <1>2, <2>4 DEF Start
  <2>7. TypeOK'
    BY <1>2, <2>1, <2>3, <2>4, <2>5, <2>6 DEF Start, TypeOK, BrowserTypeOK
  <2>8. DataIsBound'
    BY <2>3, <2>4 DEF DataIsBound
  <2> QED BY <2>7, <2>8
<1>3. CASE Finish
  <2>1. loc' \in [Threads -> LocalRecords] /\ loc'["boot"] = loc["boot"]
    BY <1>3, NoLocalsTyped DEF Finish, TypeOK
  <2>2. pc' \in [Threads -> Labels] /\ pc'["op"] = "idle" /\ pc'["boot"] = pc["boot"]
    BY <1>3 DEF Finish, TypeOK, Labels
  <2>3. test' \in [Tests -> TestRecords]
    BY <1>3, TestUpdate DEF Finish, TypeOK, TestLabels
  <2>4. TypeOK'
    BY <1>3, <2>1, <2>2, <2>3 DEF Finish, TypeOK, BrowserTypeOK
  <2>5. DataIsBound'
    BY <2>1, <2>2 DEF DataIsBound, UsesData
  <2> QED BY <2>4, <2>5
<1> QED BY <1>1, <1>2, <1>3

\* A rejected Chrome call goes to a label that needs no new data.
LEMMA FailTyped ==
  ASSUME TypeOK, DataIsBound, NEW p \in Threads, Fail(p)
  PROVE  TypeOK' /\ DataIsBound'
<1> USE DEF beside, chain, epochs, flags, prefs
<1>1. Rescue(p) \in StepLabels /\ (Rescue(p) \in UsesData => pc[p] \in SaTry)
  BY DEF Rescue, UsesData
<1>2. /\ [loc[p] EXCEPT !.task.kind = IF Rescue(p) = "boot.clear" THEN "bootCatch" ELSE @,
                        !.ret = IF Rescue(p) = "badge.look" THEN "end" ELSE @]
           \in LocalRecords
      /\ [loc[p] EXCEPT !.task.kind = IF Rescue(p) = "boot.clear" THEN "bootCatch" ELSE @,
                        !.ret = IF Rescue(p) = "badge.look" THEN "end" ELSE @].data
           = loc[p].data
  <2>1. loc[p] \in LocalRecords /\ loc[p].task \in TaskRecords /\ loc[p].ret \in Returns
    BY LocalsTyped
  <2>2. [loc[p].task EXCEPT !.kind = IF Rescue(p) = "boot.clear" THEN "bootCatch" ELSE @]
          \in TaskRecords
    BY <2>1 DEF TaskRecords, Kinds
  <2> QED BY <2>1, <2>2 DEF LocalRecords, Returns
<1>3. loc' = [loc EXCEPT ![p] = [loc[p] EXCEPT
        !.task.kind = IF Rescue(p) = "boot.clear" THEN "bootCatch" ELSE @,
        !.ret = IF Rescue(p) = "badge.look" THEN "end" ELSE @]]
  BY DEF Fail, TypeOK
<1>4. loc' \in [Threads -> LocalRecords] /\ \A q \in Threads : loc'[q].data = loc[q].data
  BY <1>2, <1>3 DEF TypeOK
<1>5. /\ pc' = [pc EXCEPT ![p] = Rescue(p)] /\ pc' \in [Threads -> Labels]
      /\ pc[p] \in StepLabels /\ pc'[p] \in StepLabels
  BY <1>1 DEF Fail, TypeOK, Labels
<1>6. pc["op"] # "idle" <=> pc'["op"] # "idle"
  BY <1>5 DEF TypeOK, Threads
<1>7. BrowserTypeOK'
  BY DEF Fail, TypeOK, BrowserTypeOK
<1>8. budget' \in [Events -> Nat]
  BY DEF Fail, Spend, Events, TypeOK
<1>9. TypeOK'
  BY <1>4, <1>5, <1>6, <1>7, <1>8 DEF Fail, TypeOK
<1>10. DataIsBound'
  BY <1>1, <1>4, <1>5 DEF DataIsBound, UsesData, TypeOK
<1> QED BY <1>9, <1>10

\* The challenges.
LEMMA AuthTyped ==
  ASSUME TypeOK, NEW r \in Requests,
         \/ onAuthRequired(r) \/ clearAuthAttempt(r)
         \/ \E s \in Servers, c \in Visible : Challenge(r, s, c)
  PROVE  auth' \in [Requests -> AuthRecords]
<1>1. /\ auth[r] \in AuthRecords
      /\ \A l \in AuthLabels : [auth[r] EXCEPT !.pc = l] \in AuthRecords
  BY DEF TypeOK, AuthRecords
<1>2. \A here, l : l \in AuthLabels /\ Answer(r, here, l) => auth' \in [Requests -> AuthRecords]
  BY <1>1 DEF TypeOK, Answer, AuthStep
<1>3. CASE AuthRead(r)
  <2>1. \A l \in AuthLabels : [auth[r] EXCEPT !.data = storage, !.pc = l] \in AuthRecords
    BY <1>1 DEF TypeOK, BrowserTypeOK, AuthRecords
  <2> QED BY <1>3, <2>1 DEF AuthRead, AuthStep, TypeOK, AuthLabels
<1>4. CASE AuthSettings(r)
  <2> DEFINE own == /\ isEffectiveProxySetting(auth[r].context, ConfiguredPac(auth[r].data))
                    /\ webRTCIsRestricted(auth[r].context)
  <2>1. own \in BOOLEAN
    BY DEF isEffectiveProxySetting, webRTCIsRestricted
  <2>2. auth' = [auth EXCEPT ![r] = [auth[r] EXCEPT !.pc = "decide", !.effective = own]]
    BY <1>4 DEF AuthSettings, AuthStep
  <2> HIDE DEF own
  <2>3. [auth[r] EXCEPT !.pc = "decide", !.effective = own] \in AuthRecords
    <3>1. \A a \in AuthRecords, e \in BOOLEAN, l \in AuthLabels :
            [a EXCEPT !.pc = l, !.effective = e] \in AuthRecords
      BY DEF AuthRecords
    <3> QED BY <1>1, <2>1, <3>1 DEF AuthLabels
  <2> QED BY <2>2, <2>3 DEF TypeOK
<1>5. ASSUME NEW s \in Servers, NEW c \in Visible, Challenge(r, s, c)
      PROVE  auth' \in [Requests -> AuthRecords]
  <2>1. c \in Contexts
    BY DEF Visible, Contexts
  <2>2. NoData \in StoredData
    BY BrowserAssumption DEF NoData, StoredData
  <2>3. [pc |-> IF configurationChanging THEN "cancel" ELSE "read",
         server |-> s, context |-> c, epoch |-> configurationEpoch,
         settingEpoch |-> browserSettingEpoch, data |-> NoData,
         effective |-> FALSE] \in AuthRecords
    BY <2>1, <2>2 DEF TypeOK, AuthRecords, AuthLabels
  <2> QED BY <1>5, <2>3 DEF Challenge, AuthStep, TypeOK
<1> QED
  BY <1>2, <1>3, <1>4, <1>5 DEF onAuthRequired, AuthTabGone, AuthCancel, AuthRejected,
     AuthGrant, clearAuthAttempt, AuthLabels

\* Chaining one more task.
LEMMA EnqueueTyped ==
  ASSUME TypeOK, NEW task \in TaskRecords
  PROVE  /\ Append(queue, task) \in Seq(TaskRecords)
         /\ Append(waiting, task) \in Seq(TaskRecords)
BY AppendProperties DEF TypeOK

\* The IP checks.
LEMMA TestTyped ==
  ASSUME TypeOK, NEW t \in Tests, testIp(t) \/ TestStart(t)
  PROVE  /\ test' \in [Tests -> TestRecords]
         /\ queue' \in Seq(TaskRecords)
<1>1. test[t] \in TestRecords
  BY DEF TypeOK
<1>2. \A here, l : l \in TestLabels /\ TestStep(t, here, [test[t] EXCEPT !.pc = l])
        => test' \in [Tests -> TestRecords]
  BY <1>1, TestUpdate DEF TestStep, TypeOK
<1>3. \A here, l : l \in TestLabels /\ TestLook(t, here, l)
        => test' \in [Tests -> TestRecords]
  <2>1. \A l \in TestLabels :
          [test[t] EXCEPT !.pc = l, !.data = storage, !.state = status] \in TestRecords
    BY <1>1, StatusTyped DEF TypeOK, BrowserTypeOK, TestRecords
  <2> QED BY <2>1 DEF TestLook, TestStep, TypeOK
<1>4. ASSUME TestCheck(t) PROVE test' \in [Tests -> TestRecords]
  <2>1. test[t].data.proxyError \in Errors \cup {None}
    <3>1. test[t].data \in StoredData
      BY <1>1 DEF TestRecords
    <3> QED BY <3>1 DEF StoredData
  <2>2. [test[t] EXCEPT !.pc = "fetch", !.error = test[t].data.proxyError] \in TestRecords
    BY <1>1, <2>1 DEF TestRecords, TestLabels
  <2>3. [test[t] EXCEPT !.pc = "failed"] \in TestRecords
    BY <1>1, TestUpdate DEF TestLabels
  <2> QED BY <1>4, <2>2, <2>3 DEF TestCheck, TestStep, TypeOK
<1>5. CASE TestStart(t)
  <2>1. NoTest \in TestRecords
    BY BrowserAssumption DEF NoTest, NoData, StoredData, TestRecords, TestLabels, States
  <2>2. [NoTest EXCEPT !.pc = "look", !.epoch = configurationEpoch,
          !.settingEpoch = browserSettingEpoch, !.errorEpoch = proxyErrorEpoch]
          \in TestRecords
    BY <2>1 DEF TypeOK, TestRecords, TestLabels
  <2> QED BY <1>5, <2>2 DEF TestStart, TypeOK
<1>6. CASE testIp(t)
  <2>1. test' \in [Tests -> TestRecords]
    BY <1>2, <1>3, <1>4, <1>6
    DEF testIp, TestFetch, TestCheck2, TestLast, TestLabels
  <2>2. [Task("clearError") EXCEPT !.test = t] \in TaskRecords
    BY TasksTyped DEF Kinds
  <2>3. queue' = Append(queue, [Task("clearError") EXCEPT !.test = t]) \/ queue' = queue
    BY <1>6 DEF testIp, Enqueue
  <2>4. queue' \in Seq(TaskRecords)
    BY <2>2, <2>3, EnqueueTyped DEF TypeOK
  <2> QED BY <2>1, <2>4
<1> QED BY <1>5, <1>6

\* The environment spends its budget.
LEMMA SpendTyped ==
  ASSUME TypeOK, NEW e \in Events, Spend(e)
  PROVE  budget' \in [Events -> Nat]
BY DEF Spend, TypeOK

\* What runs beside the threads preserves the invariant.
LEMMA BesideTyped ==
  ASSUME TypeOK, DataIsBound,
         \/ \E r \in Requests : \/ onAuthRequired(r) \/ clearAuthAttempt(r)
                                \/ \E s \in Servers, c \in Visible : Challenge(r, s, c)
         \/ \E t \in Tests : testIp(t) \/ TestStart(t)
         \/ Command \/ \E e \in {"fatal", "direct"} : ProxyError(e)
  PROVE  TypeOK' /\ DataIsBound'
<1>1. /\ UNCHANGED <<storage, prefs, badge, pc, loc, flags, configurationChanging, awake,
                     taken, configurationEpoch, browserSettingEpoch, waiting>>
      /\ queue' \in Seq(TaskRecords)
      /\ proxyErrorEpoch' \in Nat
      /\ auth' \in [Requests -> AuthRecords] /\ authAttempts' \subseteq Requests
      /\ test' \in [Tests -> TestRecords]
      /\ budget' \in [Events -> Nat]
  <2> USE DEF threads, beside, epochs
  <2>1. ASSUME NEW r \in Requests,
               \/ onAuthRequired(r) \/ clearAuthAttempt(r)
               \/ \E s \in Servers, c \in Visible : Challenge(r, s, c)
        PROVE  <1>1
    <3>1. auth' \in [Requests -> AuthRecords]
      BY <2>1, AuthTyped
    <3>2. [Task("authFailed") EXCEPT !.error = "authFailed"] \in TaskRecords
      BY TasksTyped DEF Kinds, Errors
    <3>3. /\ \/ /\ queue' = queue
                /\ proxyErrorEpoch' = proxyErrorEpoch
             \/ /\ queue' = Append(queue, [Task("authFailed") EXCEPT !.error = "authFailed"])
                /\ proxyErrorEpoch' = proxyErrorEpoch + 1
          /\ authAttempts' \subseteq authAttempts \cup {r}
      BY <2>1
      DEF onAuthRequired, AuthRead, AuthSettings, AuthTabGone, AuthCancel, AuthRejected,
          AuthGrant, clearAuthAttempt, Challenge, Enqueue, quiet
    <3>4. queue' \in Seq(TaskRecords)
      BY <3>2, <3>3, EnqueueTyped DEF TypeOK
    <3>5. proxyErrorEpoch' \in Nat /\ authAttempts' \subseteq Requests
      BY <3>3 DEF TypeOK
    <3>6. UNCHANGED <<storage, prefs, badge, pc, loc, flags, configurationChanging,
                      configurationEpoch, browserSettingEpoch, test, taken, awake,
                      waiting, budget>>
      BY <2>1
      DEF onAuthRequired, AuthRead, AuthSettings, AuthTabGone, AuthCancel, AuthRejected,
          AuthGrant, clearAuthAttempt, Challenge, Answer, AuthStep
    <3> QED BY <3>1, <3>4, <3>5, <3>6 DEF TypeOK
  <2>2. ASSUME NEW t \in Tests, testIp(t) \/ TestStart(t)
        PROVE  <1>1
    <3>1. test' \in [Tests -> TestRecords] /\ queue' \in Seq(TaskRecords)
      BY <2>2, TestTyped
    <3>2. budget' \in [Events -> Nat]
      BY <2>2, SpendTyped DEF testIp, TestStart, TypeOK, Events
    <3> QED BY <2>2, <3>1, <3>2 DEF testIp, TestStart, TypeOK
  <2>3. CASE Command
    <3>1. PICK kind \in Kinds, key \in Keys \cup {None}, x \in Lists : Message(kind, key, x)
      BY <2>3, BrowserAssumption DEF Command, Kinds
    <3>2. [Task(kind) EXCEPT !.key = key, !.exclusions = x] \in TaskRecords
      BY TasksTyped
    <3>3. budget' \in [Events -> Nat]
      BY <3>1, SpendTyped DEF Message, Events
    <3>4. queue' \in Seq(TaskRecords)
      BY <3>1, <3>2, EnqueueTyped DEF Message, Enqueue, TypeOK
    <3> QED BY <3>1, <3>3, <3>4 DEF Message, TypeOK
  <2>4. ASSUME NEW e \in {"fatal", "direct"}, ProxyError(e)
        PROVE  <1>1
    <3>1. [Task("proxyError") EXCEPT !.error = e] \in TaskRecords
      BY TasksTyped DEF Kinds, Errors
    <3>2. budget' \in [Events -> Nat]
      BY <2>4, SpendTyped DEF ProxyError, Events
    <3>3. queue' \in Seq(TaskRecords)
      BY <2>4, <3>1, EnqueueTyped DEF ProxyError, Enqueue, TypeOK
    <3> QED BY <2>4, <3>2, <3>3 DEF ProxyError, TypeOK
  <2> QED BY <2>1, <2>2, <2>3, <2>4
<1>2. TypeOK'
  BY <1>1 DEF TypeOK, BrowserTypeOK, prefs, flags
<1>3. DataIsBound'
  BY <1>1 DEF DataIsBound
<1> QED BY <1>2, <1>3

\* So do Chrome, other extensions and restarts of the worker.
LEMMA WorldTyped ==
  ASSUME TypeOK, DataIsBound,
         \/ \E s \in Settings : onChange(s)
         \/ \E s \in Settings, c \in Visible : Takeover(s, c)
         \/ Kill \/ Wake
  PROVE  TypeOK' /\ DataIsBound'
<1> USE DEF epochs, flags, prefs
<1>1. ASSUME NEW s \in Settings, onChange(s)
      PROVE  TypeOK' /\ DataIsBound'
  <2>1. ChangeTask(s) \in TaskRecords
    BY TasksTyped DEF ChangeTask, Kinds
  <2>2. queue' \in Seq(TaskRecords) /\ waiting' \in Seq(TaskRecords)
    BY <1>1, <2>1, EnqueueTyped DEF onChange, Enqueue, TypeOK
  <2>3. TypeOK'
    BY <1>1, <2>2 DEF onChange, TypeOK, BrowserTypeOK
  <2> QED BY <1>1, <2>3 DEF onChange, DataIsBound
<1>2. ASSUME NEW s \in Settings, NEW c \in Visible, Takeover(s, c)
      PROVE  TypeOK' /\ DataIsBound'
  <2>1. taken' \subseteq Settings \X Contexts /\ notices' \subseteq Settings
    BY <1>2 DEF Takeover, Contest, Visible, Contexts, TypeOK, BrowserTypeOK
  <2>2. budget' \in [Events -> Nat]
    BY <1>2, SpendTyped DEF Takeover, Events
  <2>3. UNCHANGED <<storage, proxyPref, rtcPref, badge, pc, loc, flags, chain, test,
                    awake, waiting, auth, authAttempts>>
    BY <1>2 DEF Takeover, Contest
  <2>4. TypeOK'
    BY <2>1, <2>2, <2>3 DEF TypeOK, BrowserTypeOK, chain
  <2> QED BY <2>3, <2>4 DEF DataIsBound
<1>3. CASE Kill
  <2>1. pc' \in [Threads -> Labels] /\ \A p \in Threads : pc'[p] = "idle"
    BY <1>3 DEF Kill, Asleep, Labels
  <2>2. loc' \in [Threads -> LocalRecords]
    BY <1>3, NoLocalsTyped DEF Kill
  <2>3. auth' \in [Requests -> AuthRecords]
    <3>1. \A a \in AuthRecords :
            [a EXCEPT !.pc = IF @ \in InFlight THEN "cancel" ELSE @] \in AuthRecords
      BY DEF AuthRecords, AuthLabels
    <3> QED BY <1>3, <3>1 DEF Kill, TypeOK
  <2>4. test' \in [Tests -> TestRecords]
    <3>1. NoTest \in TestRecords
      BY BrowserAssumption DEF NoTest, NoData, StoredData, TestRecords, TestLabels, States
    <3> QED BY <1>3, <3>1 DEF Kill
  <2>5. budget' \in [Events -> Nat]
    BY <1>3, SpendTyped DEF Kill, Events
  <2>6. queue' \in Seq(TaskRecords) /\ waiting' \in Seq(TaskRecords)
    BY <1>3, EmptySeq DEF Kill
  <2>7. ~configurationChanging' /\ pc'["op"] = "idle"
    BY <1>3, <2>1 DEF Kill, Threads
  <2>8. TypeOK'
    BY <1>3, <2>1, <2>2, <2>3, <2>4, <2>5, <2>6, <2>7
    DEF Kill, SetFlags, TypeOK, BrowserTypeOK
  <2>9. DataIsBound'
    BY <2>1 DEF DataIsBound, UsesData
  <2> QED BY <2>8, <2>9
<1>4. CASE Wake
  <2>1. /\ pc' \in [Threads -> Labels] /\ pc'["op"] = pc["op"]
        /\ pc'["boot"] = "rc.read"
    BY <1>4 DEF Wake, Threads, Labels, TypeOK
  <2>2. UNCHANGED <<storage, prefs, badge, loc, flags, chain, test, taken, waiting, auth,
                    authAttempts, budget>> /\ awake' = TRUE
    BY <1>4 DEF Wake
  <2>3. TypeOK'
    BY <2>1, <2>2 DEF TypeOK, BrowserTypeOK, chain
  <2>4. DataIsBound'
    BY <2>1, <2>2 DEF DataIsBound, UsesData, Threads
  <2> QED BY <2>3, <2>4
<1> QED BY <1>1, <1>2, <1>3, <1>4

\* The invariant holds when the worker is first installed.
LEMMA InitTyped == Init => TypeOK /\ DataIsBound
<1> SUFFICES ASSUME Init PROVE TypeOK /\ DataIsBound
  OBVIOUS
<1> USE BrowserAssumption, BackgroundAssumption DEF Init, LeftBehind, NotLoaded, NoChallenge
<1>1. BrowserTypeOK
  <2>1. storage \in StoredData
    BY DEF NoData, StoredData
  <2>2. proxyPref \in Pacs \cup {None}
    BY PacIsTyped
  <2> QED BY <2>1, <2>2 DEF BrowserTypeOK, Badges
<1>2. pc \in [Threads -> Labels] /\ \A p \in Threads : pc[p] = "idle"
  BY DEF Asleep, Labels
<1>3. loc \in [Threads -> LocalRecords]
  BY NoLocalsTyped
<1>4. NoData \in StoredData
  BY DEF NoData, StoredData
<1>5. auth \in [Requests -> AuthRecords]
  <2>1. (CHOOSE s \in Servers : TRUE) \in Servers
    OBVIOUS
  <2> QED BY <1>4, <2>1 DEF AuthRecords, AuthLabels, Contexts
<1>6. test \in [Tests -> TestRecords]
  BY <1>4 DEF NoTest, TestRecords, TestLabels, States
<1>7. queue \in Seq(TaskRecords) /\ waiting \in Seq(TaskRecords)
  BY EmptySeq
<1>8. TypeOK
  BY <1>1, <1>2, <1>3, <1>5, <1>6, <1>7 DEF TypeOK, Threads
<1>9. DataIsBound
  BY <1>2 DEF DataIsBound, UsesData
<1> QED BY <1>8, <1>9

\* Every step preserves it.
LEMMA NextTyped ==
  ASSUME TypeOK, DataIsBound, [Next]_vars
  PROVE  TypeOK' /\ DataIsBound'
<1>1. CASE UNCHANGED vars
  BY <1>1 DEF vars, threads, beside, epochs, flags, prefs, TypeOK, BrowserTypeOK,
              DataIsBound
<1>2. CASE Worker
  BY <1>2, ThreadsTyped, ChainTyped, BesideTyped DEF Worker
<1>3. CASE Environment
  BY <1>3, FailTyped, BesideTyped, WorldTyped DEF Environment
<1>4. CASE \E s \in Settings : onChange(s)
  BY <1>4, WorldTyped
<1> QED BY <1>1, <1>2, <1>3, <1>4 DEF Next

\* The inductive invariant, for the modules that build on it.
LEMMA TypeInvariant == Spec => [](TypeOK /\ DataIsBound)
<1>1. TypeOK /\ DataIsBound /\ [Next]_vars => (TypeOK /\ DataIsBound)'
  BY NextTyped
<1> QED BY InitTyped, <1>1, PTL DEF Spec

\* Every reachable state is well typed: in particular no task, roll-back, retry or
\* restart of background.js installs a PAC of a missing key or list, and exclusive()
\* marks exactly the time in which a task runs.
THEOREM TypeCorrect == Spec => []TypeOK
BY TypeInvariant, PTL

(***************************************************************************)
(* The applied server is the stored one.                                   *)
(*                                                                         *)
(* A task that replaces or removes the key does it only after both of its  *)
(* clears (Swapping), and what a thread remembers of the key stays what is *)
(* stored while it may still build a PAC of it (KeyIsBound): the only      *)
(* other thread is boot, and before boot is over no task that touches the  *)
(* key, the switch or the PAC can run (BootFirst).                         *)
(***************************************************************************)
Swapping(p) ==
  \/ pc[p] \in {"off.rtc", "im.store", "fo.remove"}
  \/ pc[p] \in BadgeLabels /\ loc[p].ret = "fo.remove"
ForgetLabels == {"di.disable", "off.proxy", "off.rtc", "end"} \cup BadgeLabels
KeyIsBound(p) ==
  /\ pc[p] \in UsesData => loc[p].data.connection = storage.connection
  /\ pc[p] = "off.proxy" => ~storage.enabled
  /\ Swapping(p) => ~storage.enabled /\ proxyPref = None
  /\ loc[p].ret = "fo.remove" => loc[p].task.kind = "forget" /\ pc[p] \in ForgetLabels

BootPath ==
  /\ pc["boot"] \in RcTry \cup BadgeLabels \cup
       {"idle", "rc.read", "rc.caught", "off.proxy", "off.rtc", "boot.clear", "end", "done"}
  /\ loc["boot"].task.kind \in {"boot", "bootCatch"}
  /\ loc["boot"].ret = "end"
  /\ ~awake => pc["boot"] = "idle"

\* the tasks whose handlers do not wait for boot, and clearError, which changes
\* as little
Harmless == {"proxyError", "authFailed", "clearError"}
HarmlessLabels == BadgeLabels \cup
  {"pe.store", "te.check", "te.store", "te.changed", "te.done", "end"}
HarmlessTask ==
  /\ pc["op"] = "idle" \/ (loc["op"].task.kind \in Harmless /\ pc["op"] \in HarmlessLabels)
  /\ loc["op"].ret \in {"end", "te.done"}
HarmlessQueue == \A i \in 1..Len(queue) : queue[i].kind \in Harmless
BootFirst == pc["boot"] # "done" => HarmlessTask /\ HarmlessQueue

KeyInv ==
  /\ AppliedServerIsStored
  /\ \A p \in Threads : KeyIsBound(p)
  /\ BootPath
  /\ BootFirst

\* What the actions of a thread do to the PAC, the key and its locals, spelled
\* out once.
LEMMA PacServer ==
  ASSUME NEW p \in Threads
  PROVE  /\ Expected(p).server = ServerOf[loc[p].data.connection]
         /\ NewPac(p).server = ServerOf[loc[p].data.connection]
BY DEF Expected, NewPac, ConfiguredPac, buildProxyConfig

\* The reconciliation installs a PAC of the key it has read, which is still stored.
LEMMA ReconcileKeepsKey ==
  ASSUME TypeOK, DataIsBound, AppliedServerIsStored, NEW p \in Threads, KeyIsBound(p),
         reconcileAtStartup(p)
  PROVE  AppliedServerIsStored' /\ KeyIsBound(p)' /\ pc[p] \notin HarmlessLabels
<1> USE LocalsTyped, PacServer DEF TypeOK, BrowserTypeOK, DataIsBound, UsesData, Labels,
        AppliedServerIsStored, KeyIsBound, Swapping, ForgetLabels, HarmlessLabels,
        Goto, Look, SetProxy, SetRtc, keepFlags, flags, prefs,
        clearOwnProxySetting, clearOwnWebRTCSetting
<1>1. CASE RcRead(p) /\ keepFlags
  <2>1. [storage EXCEPT !.enabled = @ /\ storage.connection # None].connection
          = storage.connection
    BY DEF StoredData
  <2>2. [storage EXCEPT !.enabled = @ /\ storage.connection # None].enabled
          = (storage.enabled /\ storage.connection # None)
    BY DEF StoredData
  <2> QED BY <1>1, <2>1, <2>2 DEF RcRead, Snapshot
<1>2. CASE RcRtc(p) /\ keepFlags
  BY <1>2 DEF RcRtc
<1>3. CASE RcUnrestricted(p) /\ keepFlags
  BY <1>3 DEF RcUnrestricted
<1>4. CASE RcSetRtc(p) /\ keepFlags
  BY <1>4 DEF RcSetRtc
<1>5. CASE RcCheckRtc(p) /\ keepFlags
  BY <1>5 DEF RcCheckRtc
<1>6. CASE RcSetProxy(p) /\ keepFlags
  BY <1>6 DEF RcSetProxy
<1>7. CASE RcCheckProxy(p) /\ keepFlags
  BY <1>7 DEF RcCheckProxy
<1>8. CASE RcCaught(p) /\ keepFlags
  BY <1>8 DEF RcCaught
<1>9. CASE OffProxy(p) /\ keepFlags
  BY <1>9 DEF OffProxy
<1>10. CASE OffRtc(p) /\ keepFlags
  BY <1>10 DEF OffRtc
<1>11. CASE RcProxy(p)
  BY <1>11 DEF RcProxy
<1>12. CASE RcLast(p)
  BY <1>12 DEF RcLast
<1> QED BY <1>1, <1>2, <1>3, <1>4, <1>5, <1>6, <1>7, <1>8, <1>9, <1>10, <1>11, <1>12
        DEF reconcileAtStartup

\* updateBadge changes neither the key nor the PAC.
LEMMA BadgeKeepsKey ==
  ASSUME TypeOK, DataIsBound, AppliedServerIsStored, NEW p \in Threads, KeyIsBound(p),
         updateBadge(p)
  PROVE  /\ AppliedServerIsStored' /\ KeyIsBound(p)'
         /\ loc'[p].task = loc[p].task
         /\ pc'[p] \in {"badge.set", loc[p].ret}
         /\ loc'[p].ret \in {"end", loc[p].ret}
         /\ storage' = storage /\ proxyPref' = proxyPref
<1>1. UNCHANGED <<storage, prefs>>
  BY DEF updateBadge, BadgeLook, BadgeSet, Remember
<1>2. AppliedServerIsStored'
  BY <1>1 DEF AppliedServerIsStored, prefs
<1>3. loc[p] \in LocalRecords /\ loc[p].ret \in Returns
  BY LocalsTyped
<1>4. CASE BadgeLook(p)
  <2>1. /\ [loc[p] EXCEPT !.state = status].task = loc[p].task
        /\ [loc[p] EXCEPT !.state = status].ret = loc[p].ret
    BY <1>3 DEF LocalRecords
  <2>2. /\ loc'[p].task = loc[p].task /\ loc'[p].ret = loc[p].ret
        /\ pc[p] = "badge.look" /\ pc'[p] = "badge.set"
    BY <1>4, <2>1 DEF BadgeLook, Remember, Goto, TypeOK
  <2> QED BY <1>1, <1>2, <2>2 DEF KeyIsBound, Swapping, ForgetLabels, UsesData, prefs
<1>5. CASE BadgeSet(p)
  <2>1. /\ [loc[p] EXCEPT !.ret = "end"].task = loc[p].task
        /\ [loc[p] EXCEPT !.ret = "end"].ret = "end"
    BY <1>3 DEF LocalRecords
  <2>2. /\ loc'[p].task = loc[p].task /\ loc'[p].ret = "end"
        /\ pc[p] = "badge.set" /\ pc'[p] = loc[p].ret
    BY <1>5, <2>1 DEF BadgeSet, Goto, TypeOK
  <2> QED BY <1>1, <1>2, <1>3, <2>2 DEF KeyIsBound, Swapping, UsesData, Returns, prefs
<1> QED BY <1>4, <1>5 DEF updateBadge

\* connect enables what is stored, and installs its PAC.
LEMMA ConnectKeepsKey ==
  ASSUME TypeOK, DataIsBound, AppliedServerIsStored, NEW p \in Threads, KeyIsBound(p),
         connect(p)
  PROVE  AppliedServerIsStored' /\ KeyIsBound(p)' /\ pc[p] \notin HarmlessLabels
<1> USE LocalsTyped, PacServer DEF TypeOK, BrowserTypeOK, DataIsBound, UsesData, Labels,
        AppliedServerIsStored, KeyIsBound, Swapping, ForgetLabels, HarmlessLabels,
        Goto, Look, Remember, Store, SetProxy, SetRtc, keepFlags, flags, prefs,
        clearOwnProxySetting
<1>1. CASE CoCheck(p) /\ keepFlags
  BY <1>1 DEF CoCheck
<1>2. CASE CoRefuse(p) /\ keepFlags
  BY <1>2 DEF CoRefuse
<1>3. CASE CoClear(p) /\ keepFlags
  BY <1>3 DEF CoClear
<1>4. CASE CoEnable(p) /\ keepFlags
  <2>1. [storage EXCEPT !.enabled = TRUE, !.proxyError = None].connection
          = storage.connection
    BY DEF StoredData
  <2> QED BY <1>4, <2>1 DEF CoEnable
<1>5. CASE CoSetRtc(p) /\ keepFlags
  BY <1>5 DEF CoSetRtc
<1>6. CASE CoCheckRtc(p) /\ keepFlags
  BY <1>6 DEF CoCheckRtc
<1>7. CASE CoSetProxy(p) /\ keepFlags
  BY <1>7 DEF CoSetProxy
<1>8. CASE CoUndo(p) /\ keepFlags
  <2>1. /\ [storage EXCEPT !.enabled = FALSE].connection = storage.connection
        /\ [storage EXCEPT !.enabled = FALSE].enabled = FALSE
    BY DEF StoredData
  <2> QED BY <1>8, <2>1 DEF CoUndo
<1>9. CASE CoApplied(p)
  BY <1>9 DEF CoApplied
<1> QED BY <1>1, <1>2, <1>3, <1>4, <1>5, <1>6, <1>7, <1>8, <1>9 DEF connect

\* importKey and forget change the key when nothing is enabled or installed.
LEMMA OtherCommandsKeepKey ==
  ASSUME TypeOK, DataIsBound, AppliedServerIsStored, NEW p \in Threads, KeyIsBound(p),
         importKey(p) \/ disconnect(p) \/ forget(p)
  PROVE  AppliedServerIsStored' /\ KeyIsBound(p)' /\ pc[p] \notin HarmlessLabels
<1> USE LocalsTyped DEF TypeOK, BrowserTypeOK, DataIsBound, UsesData, Labels,
        AppliedServerIsStored, KeyIsBound, Swapping, ForgetLabels, HarmlessLabels,
        Goto, Store, keepFlags, flags, prefs
<1>1. CASE ImDisable(p) /\ keepFlags
  <2>1. /\ [storage EXCEPT !.enabled = FALSE].connection = storage.connection
        /\ [storage EXCEPT !.enabled = FALSE].enabled = FALSE
    BY DEF StoredData
  <2> QED BY <1>1, <2>1 DEF ImDisable
<1>2. CASE ImStore(p) /\ keepFlags
  <2>1. [storage EXCEPT !.connection = loc[p].task.key, !.exclusions = NoExclusions,
                        !.proxyError = None].enabled = storage.enabled
    BY DEF StoredData
  <2> QED BY <1>2, <2>1 DEF ImStore
<1>3. CASE disconnect(p)
  <2>1. /\ [storage EXCEPT !.enabled = FALSE, !.proxyError = None].connection
             = storage.connection
        /\ [storage EXCEPT !.enabled = FALSE, !.proxyError = None].enabled = FALSE
    BY DEF StoredData
  <2> QED BY <1>3, <2>1 DEF disconnect
<1>4. CASE forget(p)
  <2>1. [storage EXCEPT !.connection = None, !.exclusions = NoExclusions].enabled
          = storage.enabled
    BY DEF StoredData
  <2> QED BY <1>4, <2>1 DEF forget
<1> QED BY <1>1, <1>2, <1>3, <1>4 DEF importKey

\* saveExclusions and its roll-back install PACs of the one stored key.
LEMMA SaveKeepsKey ==
  ASSUME TypeOK, DataIsBound, AppliedServerIsStored, NEW p \in Threads, KeyIsBound(p),
         saveExclusions(p)
  PROVE  AppliedServerIsStored' /\ KeyIsBound(p)' /\ pc[p] \notin HarmlessLabels
<1> USE LocalsTyped, PacServer DEF TypeOK, BrowserTypeOK, DataIsBound, UsesData, Labels,
        AppliedServerIsStored, KeyIsBound, Swapping, ForgetLabels, HarmlessLabels,
        Goto, Look, Remember, Store, SetProxy, keepFlags, flags, prefs,
        clearOwnProxySetting
<1>1. CASE SaCheck(p)
  BY <1>1 DEF SaCheck
<1>2. CASE SaRefuse(p) /\ keepFlags
  BY <1>2 DEF SaRefuse
<1>3. CASE SaStore(p)
  <2>1. /\ [storage EXCEPT !.exclusions = loc[p].task.exclusions].connection
             = storage.connection
        /\ [storage EXCEPT !.exclusions = loc[p].task.exclusions].enabled
             = storage.enabled
    BY DEF StoredData
  <2> QED BY <1>3, <2>1 DEF SaStore
<1>4. CASE SaSetProxy(p) /\ keepFlags
  BY <1>4 DEF SaSetProxy
<1>5. CASE SaApplied(p)
  BY <1>5 DEF SaApplied
<1>6. CASE SaRollback(p) /\ keepFlags
  <2>1. /\ [storage EXCEPT !.exclusions = loc[p].data.exclusions].connection
             = storage.connection
        /\ [storage EXCEPT !.exclusions = loc[p].data.exclusions].enabled
             = storage.enabled
    BY DEF StoredData
  <2> QED BY <1>6, <2>1 DEF SaRollback
<1>7. CASE SaMayRestore(p) /\ keepFlags
  BY <1>7 DEF SaMayRestore
<1>8. CASE SaRestore(p) /\ keepFlags
  BY <1>8 DEF SaRestore
<1>9. CASE SaRestored(p) /\ keepFlags
  BY <1>9 DEF SaRestored
<1>10. CASE SaGiveUp(p) /\ keepFlags
  BY <1>10 DEF SaGiveUp
<1> QED BY <1>1, <1>2, <1>3, <1>4, <1>5, <1>6, <1>7, <1>8, <1>9, <1>10
        DEF saveExclusions

\* A change of the proxy setting only ever clears, or goes on to reconcile.
LEMMA ChangeKeepsKey ==
  ASSUME TypeOK, DataIsBound, AppliedServerIsStored, NEW p \in Threads, KeyIsBound(p),
         onProxySettingChange(p)
  PROVE  AppliedServerIsStored' /\ KeyIsBound(p)' /\ pc[p] \notin HarmlessLabels
<1> USE LocalsTyped DEF TypeOK, BrowserTypeOK, DataIsBound, UsesData, Labels,
        AppliedServerIsStored, KeyIsBound, Swapping, ForgetLabels, HarmlessLabels,
        Goto, Look, Remember, SetProxy, keepFlags, flags, prefs, clearOwnProxySetting
<1>1. CASE ChLook(p)
  <2>1. loc[p].ret # "fo.remove"
    BY <1>1 DEF ChLook
  <2>2. \A l \in {"badge.look", "end"} : [loc[p] EXCEPT !.ret = l].ret = l
    BY DEF LocalRecords
  <2>3. /\ pc[p] = "ch.look"
        /\ pc'[p] \in {"ch.clear", "rc.read", "badge.look"}
        /\ loc'[p].ret # "fo.remove"
        /\ UNCHANGED <<storage, prefs, badge>>
    BY <1>1, <2>1, <2>2 DEF ChLook
  <2> QED BY <2>3
<1>2. CASE ChClear(p)
  BY <1>2 DEF ChClear
<1> QED BY <1>1, <1>2 DEF onProxySettingChange

\* The harmless tasks change only the stored error.
LEMMA HarmlessKeepsKey ==
  ASSUME TypeOK, DataIsBound, AppliedServerIsStored, NEW p \in Threads, KeyIsBound(p),
         PeStore(p) \/ clearError(p)
  PROVE  /\ AppliedServerIsStored' /\ KeyIsBound(p)'
         /\ loc' = loc /\ pc'[p] \in HarmlessLabels
         /\ storage'.connection = storage.connection /\ storage'.enabled = storage.enabled
         /\ storage'.exclusions = storage.exclusions
         /\ proxyPref' = proxyPref
<1> USE LocalsTyped DEF TypeOK, BrowserTypeOK, DataIsBound, UsesData, Labels,
        AppliedServerIsStored, KeyIsBound, Swapping, ForgetLabels, HarmlessLabels,
        Goto, Look, Store, keepFlags, flags, prefs
<1>1. \A e : /\ [storage EXCEPT !.proxyError = e].connection = storage.connection
             /\ [storage EXCEPT !.proxyError = e].enabled = storage.enabled
             /\ [storage EXCEPT !.proxyError = e].exclusions = storage.exclusions
  BY DEF StoredData
<1>2. CASE PeStore(p)
  BY <1>1, <1>2 DEF PeStore
<1>3. CASE TeCheck(p)
  BY <1>3 DEF TeCheck
<1>4. CASE TeStore(p)
  BY <1>1, <1>4 DEF TeStore
<1>5. CASE TeChanged(p)
  BY <1>5 DEF TeChanged
<1>6. CASE TeDone(p)
  BY <1>6 DEF TeDone
<1> QED BY <1>2, <1>3, <1>4, <1>5, <1>6 DEF clearError

\* Boot runs the reconciliation and its badge, whatever is rejected.
LEMMA BootStaysOnPath ==
  ASSUME TypeOK, DataIsBound, KeyInv, Boot \/ Fail("boot")
  PROVE  BootPath'
<1> "boot" \in Threads
  BY DEF Threads
<1>path. BootPath
  BY DEF KeyInv
<1>awake. awake' /\ awake' = awake
  <2>1. pc["boot"] # "idle"
    BY BootEffect DEF StepEffect, Fail
  <2> QED BY <1>path, <2>1 DEF BootPath, Boot, Fail, beside, TypeOK
<1> USE LocalsTyped, <1>path, <1>awake DEF TypeOK, BootPath, Labels, Goto, Look, SetProxy, SetRtc,
        clearOwnProxySetting, clearOwnWebRTCSetting
<1>1. CASE reconcileAtStartup("boot")
  <2>1. CASE RcRead("boot")
    <3>1. /\ Snapshot("boot").task = loc["boot"].task
          /\ Snapshot("boot").ret = loc["boot"].ret
      BY DEF Snapshot, LocalRecords
    <3> QED BY <2>1, <3>1 DEF RcRead
  <2>2. CASE ~RcRead("boot")
    BY <1>1, <2>2
    DEF reconcileAtStartup, RcRtc, RcUnrestricted, RcSetRtc, RcCheckRtc, RcSetProxy,
        RcCheckProxy, RcCaught, OffProxy, OffRtc, RcProxy, RcLast
  <2> QED BY <2>1, <2>2
<1>2. CASE updateBadge("boot")
  <2>1. /\ loc'["boot"].task = loc["boot"].task
        /\ pc'["boot"] \in {"badge.set", loc["boot"].ret}
        /\ loc'["boot"].ret \in {"end", loc["boot"].ret}
    BY <1>2, BadgeKeepsKey DEF KeyInv
  <2> QED BY <2>1
<1>3. CASE clearOwnProxySetting("boot", "boot.clear", "badge.look")
  BY <1>3
<1>4. CASE Fail("boot")
  <2>1. Rescue("boot") \in {"rc.caught", "badge.look", "boot.clear", "end"}
    BY <1>4 DEF Rescue, Fail
  <2>2. /\ loc'["boot"].task.kind \in {"boot", "bootCatch"}
        /\ loc'["boot"].ret = "end"
    BY <1>4 DEF Fail, LocalRecords, TaskRecords
  <2> QED BY <1>4, <2>1, <2>2 DEF Fail
<1> QED BY <1>1, <1>2, <1>3, <1>4 DEF Boot

\* A step of boot keeps what boot knows of the key.
LEMMA BootKeepsKey ==
  ASSUME TypeOK, DataIsBound, KeyInv, Boot
  PROVE  AppliedServerIsStored' /\ KeyIsBound("boot")'
<1> "boot" \in Threads
  BY DEF Threads
<1>1. CASE clearOwnProxySetting("boot", "boot.clear", "badge.look")
  BY <1>1
  DEF KeyInv, BootPath, AppliedServerIsStored, KeyIsBound, Swapping, UsesData,
      clearOwnProxySetting, SetProxy, Goto, TypeOK
<1> QED BY <1>1, ReconcileKeepsKey, BadgeKeepsKey DEF Boot, KeyInv

\* So does a step of a task; before boot is over it leaves key, switch and PAC alone.
LEMMA OperationKeepsKey ==
  ASSUME TypeOK, DataIsBound, KeyInv, Operation
  PROVE  /\ AppliedServerIsStored' /\ KeyIsBound("op")'
         /\ pc["boot"] # "done" =>
              /\ HarmlessTask'
              /\ storage'.connection = storage.connection
              /\ storage'.enabled = storage.enabled
              /\ storage'.exclusions = storage.exclusions
              /\ proxyPref' = proxyPref
<1> "op" \in Threads
  BY DEF Threads
<1> USE DEF KeyInv
<1>1. CASE PeStore("op") \/ clearError("op")
  <2>1. /\ AppliedServerIsStored' /\ KeyIsBound("op")'
        /\ loc' = loc /\ pc'["op"] \in HarmlessLabels
        /\ storage'.connection = storage.connection
        /\ storage'.enabled = storage.enabled
        /\ storage'.exclusions = storage.exclusions
        /\ proxyPref' = proxyPref
    BY <1>1, HarmlessKeepsKey
  <2>2. pc["op"] # "idle"
    BY <1>1 DEF PeStore, clearError, TeCheck, TeStore, TeChanged, TeDone, Store, Look, Goto
  <2> QED BY <2>1, <2>2 DEF BootFirst, HarmlessTask
<1>2. CASE updateBadge("op")
  <2>1. /\ AppliedServerIsStored' /\ KeyIsBound("op")'
        /\ loc'["op"].task = loc["op"].task
        /\ pc'["op"] \in {"badge.set", loc["op"].ret}
        /\ loc'["op"].ret \in {"end", loc["op"].ret}
        /\ storage' = storage /\ proxyPref' = proxyPref
    BY <1>2, BadgeKeepsKey
  <2>2. pc["op"] # "idle"
    BY <1>2 DEF updateBadge, BadgeLook, BadgeSet, Remember, Goto
  <2> QED BY <2>1, <2>2 DEF BootFirst, HarmlessTask, HarmlessLabels
<1>3. CASE \/ reconcileAtStartup("op") \/ connect("op") \/ saveExclusions("op")
           \/ importKey("op") \/ disconnect("op") \/ forget("op")
           \/ onProxySettingChange("op")
  <2>1. /\ AppliedServerIsStored' /\ KeyIsBound("op")'
        /\ pc["op"] \notin HarmlessLabels
    BY <1>3, ReconcileKeepsKey, ConnectKeepsKey, SaveKeepsKey, OtherCommandsKeepKey,
       ChangeKeepsKey
  <2>2. pc["op"] # "idle"
    BY OperationEffect DEF StepEffect
  <2> QED BY <2>1, <2>2 DEF BootFirst, HarmlessTask
<1> QED BY <1>1, <1>2, <1>3 DEF Operation

\* A rejected call goes to a label that relies on nothing new.
LEMMA FailKeepsKey ==
  ASSUME TypeOK, DataIsBound, KeyInv, NEW p \in Threads, Fail(p)
  PROVE  KeyInv'
<1> USE DEF KeyInv, Threads
<1>1. UNCHANGED <<storage, proxyPref, queue>> /\ pc'[p] = Rescue(p)
      /\ \A q \in Threads : q # p => pc'[q] = pc[q] /\ loc'[q] = loc[q]
  BY DEF Fail, prefs, chain, TypeOK
<1>2. /\ loc'[p].data = loc[p].data
      /\ loc'[p].task.kind = IF Rescue(p) = "boot.clear" THEN "bootCatch"
                             ELSE loc[p].task.kind
      /\ loc'[p].ret = IF Rescue(p) = "badge.look" THEN "end" ELSE loc[p].ret
  <2>1. loc[p] \in LocalRecords /\ loc[p].task \in TaskRecords
    BY LocalsTyped
  <2> QED BY <2>1 DEF Fail, LocalRecords, TaskRecords, TypeOK
<1>3. AppliedServerIsStored'
  BY <1>1 DEF AppliedServerIsStored
<1>4. KeyIsBound(p)'
  <2>1. /\ Rescue(p) \in {"rc.caught", "co.undo", "sa.rollback", "sa.giveUp",
                          "badge.look", "boot.clear", "end"}
        /\ Rescue(p) = "sa.rollback" => pc[p] \in SaTry
    BY DEF Rescue
  <2>2. loc[p].ret = "fo.remove" => Rescue(p) = "end"
    BY DEF Rescue, KeyIsBound, ForgetLabels, Fail
  <2> QED BY <1>1, <1>2, <2>1, <2>2 DEF KeyIsBound, Swapping, UsesData, ForgetLabels
<1>5. \A q \in Threads : q # p => KeyIsBound(q)'
  BY <1>1 DEF KeyIsBound, Swapping
<1>6. BootPath'
  <2>1. CASE p = "boot"
    BY <2>1, BootStaysOnPath
  <2>2. CASE p = "op"
    BY <1>1, <2>2 DEF BootPath, Fail
  <2> QED BY <2>1, <2>2
<1>7. BootFirst'
  <2>1. pc[p] # "done"
    BY DEF Fail
  <2>2. HarmlessQueue => HarmlessQueue'
    BY <1>1 DEF HarmlessQueue
  <2>3. CASE p = "boot"
    BY <1>1, <2>1, <2>2, <2>3 DEF BootFirst, HarmlessTask
  <2>4. CASE p = "op"
    <3>1. pc'["boot"] = pc["boot"]
      BY <1>1, <2>4
    <3>2. HarmlessTask => HarmlessTask'
      <4>1. HarmlessTask => Rescue("op") = "end"
        BY <2>4 DEF HarmlessTask, HarmlessLabels, Harmless, Rescue, Fail
      <4> QED BY <1>1, <1>2, <2>4, <4>1 DEF HarmlessTask, HarmlessLabels, Fail
    <3> QED BY <2>2, <3>1, <3>2 DEF BootFirst
  <2> QED BY <2>3, <2>4
<1> QED BY <1>3, <1>4, <1>5, <1>6, <1>7

\* Both threads together: a step of one leaves what the other relies on.
LEMMA ThreadsKeepKey ==
  ASSUME TypeOK, DataIsBound, KeyInv, Boot \/ Operation
  PROVE  KeyInv'
<1> USE DEF KeyInv, Threads
<1>1. CASE Boot
  <2>1. /\ pc["boot"] # "done" /\ pc'["op"] = pc["op"] /\ loc'["op"] = loc["op"]
        /\ queue' = queue
    BY <1>1, BootEffect DEF StepEffect, Boot, chain, TypeOK
  <2>2. HarmlessTask /\ HarmlessQueue
    BY <2>1 DEF BootFirst
  <2>3. HarmlessTask' /\ HarmlessQueue'
    BY <2>1, <2>2 DEF HarmlessTask, HarmlessQueue
  <2>4. KeyIsBound("op")'
    BY <2>3 DEF HarmlessTask, HarmlessLabels, KeyIsBound, Swapping, UsesData
  <2> QED BY <1>1, <2>3, <2>4, BootKeepsKey, BootStaysOnPath DEF BootFirst
<1>2. CASE Operation
  <2>1. /\ pc'["boot"] = pc["boot"] /\ loc'["boot"] = loc["boot"]
        /\ queue' = queue /\ awake' = awake
    BY <1>2, OperationEffect DEF StepEffect, Operation, chain, beside, TypeOK
  <2>2. BootPath' /\ (HarmlessQueue => HarmlessQueue')
    BY <2>1 DEF BootPath, HarmlessQueue
  <2>3. KeyIsBound("boot")'
    BY <1>2, <2>1, OperationKeepsKey DEF KeyIsBound, Swapping, UsesData, BootPath
  <2> QED BY <1>2, <2>1, <2>2, <2>3, OperationKeepsKey DEF BootFirst
<1> QED BY <1>1, <1>2

\* A task starts with locals of its own, and ends without any.
LEMMA ChainKeepsKey ==
  ASSUME TypeOK, DataIsBound, KeyInv, BootDone \/ Start \/ Finish
  PROVE  KeyInv'
<1> USE DEF KeyInv, Threads
<1>1. UNCHANGED <<storage, proxyPref>>
  BY DEF BootDone, Start, Finish, prefs
<1>awake. awake' = awake
  BY DEF BootDone, Start, Finish, beside
<1>2. AppliedServerIsStored'
  BY <1>1 DEF AppliedServerIsStored
<1>3. /\ NoLocals.ret = "end" /\ NoLocals.task.kind = "boot"
  BY DEF NoLocals, Locals, Task, AfterBadge
<1>4. CASE BootDone
  <2>1. /\ pc["boot"] = "end" /\ pc'["boot"] = "done" /\ loc'["boot"] = NoLocals
        /\ pc'["op"] = pc["op"] /\ loc'["op"] = loc["op"]
    BY <1>4 DEF BootDone, Goto, TypeOK
  <2>2. KeyIsBound("op")'
    BY <1>1, <2>1 DEF KeyIsBound, Swapping
  <2>3. KeyIsBound("boot")'
    BY <1>3, <2>1 DEF KeyIsBound, Swapping, UsesData
  <2> QED BY <1>2, <1>3, <1>awake, <2>1, <2>2, <2>3 DEF BootPath, BootFirst
<1>5. CASE Start
  <2> DEFINE task == Head(queue)
  <2>1. task \in TaskRecords
    BY <1>5, HeadTailProperties DEF Start, TypeOK
  <2>2. /\ pc'["boot"] = pc["boot"] /\ loc'["boot"] = loc["boot"]
        /\ pc'["op"] = Entry(task.kind) /\ loc'["op"] = Locals(task)
    BY <1>5 DEF Start, Goto, TypeOK
  <2>3. /\ Locals(task).task = task /\ Locals(task).ret = AfterBadge(task.kind)
        /\ Entry(task.kind) \notin UsesData
    BY <2>1, NewLocalsTyped DEF Locals
  <2> HIDE DEF task
  <2>4. KeyIsBound("op")'
    BY <2>2, <2>3 DEF KeyIsBound, Swapping, Entry, AfterBadge, ForgetLabels
  <2>5. KeyIsBound("boot")'
    BY <1>1, <2>2 DEF KeyIsBound, Swapping
  <2>6. BootFirst'
    <3>1. ASSUME HarmlessQueue
          PROVE  task.kind \in Harmless /\ HarmlessQueue'
      <4>1. /\ queue # <<>> /\ queue' = Tail(queue) /\ queue \in Seq(TaskRecords)
        BY <1>5 DEF Start, TypeOK
      <4>2. /\ Len(queue) \in Nat \ {0} /\ task = queue[1]
            /\ Len(queue') = Len(queue) - 1
            /\ \A i \in 1..Len(queue') : queue'[i] = queue[i + 1]
        BY <4>1, HeadTailProperties, EmptySeq DEF task
      <4> QED BY <3>1, <4>2 DEF HarmlessQueue
    <3>2. task.kind \in Harmless => HarmlessTask'
      BY <2>2, <2>3 DEF HarmlessTask, HarmlessLabels, Harmless, Entry, AfterBadge
    <3> QED BY <2>2, <3>1, <3>2 DEF BootFirst
  <2>7. BootPath'
    BY <1>awake, <2>2 DEF BootPath
  <2> QED BY <1>2, <2>4, <2>5, <2>6, <2>7
<1>6. CASE Finish
  <2>1. /\ pc'["boot"] = pc["boot"] /\ loc'["boot"] = loc["boot"]
        /\ pc'["op"] = "idle" /\ loc'["op"] = NoLocals /\ queue' = queue
    BY <1>6 DEF Finish, Goto, TypeOK
  <2>2. KeyIsBound("op")'
    BY <1>3, <2>1 DEF KeyIsBound, Swapping, UsesData
  <2>3. KeyIsBound("boot")'
    BY <1>1, <2>1 DEF KeyIsBound, Swapping
  <2>4. BootPath' /\ BootFirst'
    BY <1>3, <1>awake, <2>1 DEF BootPath, BootFirst, HarmlessTask, HarmlessQueue
  <2> QED BY <1>2, <2>2, <2>3, <2>4
<1> QED BY <1>4, <1>5, <1>6

\* A task that is chained before boot is over is a harmless one.
LEMMA EnqueueKeepsKey ==
  ASSUME TypeOK, KeyInv, NEW task \in TaskRecords,
         queue' = Append(queue, task),
         pc' = pc, loc' = loc, awake' = awake,
         task.kind \in Harmless \/ pc["boot"] = "done"
  PROVE  BootFirst' /\ BootPath'
<1>1. HarmlessQueue /\ task.kind \in Harmless => HarmlessQueue'
  <2>1. /\ Len(queue') = Len(queue) + 1
        /\ \A i \in 1..Len(queue') :
             queue'[i] = IF i = Len(queue) + 1 THEN task ELSE queue[i]
    BY AppendProperties DEF TypeOK
  <2>2. Len(queue) \in Nat
    BY LenProperties DEF TypeOK
  <2> QED BY <2>1, <2>2 DEF HarmlessQueue
<1> QED BY <1>1 DEF KeyInv, BootFirst, BootPath, HarmlessTask

\* What changes neither the threads nor the stored and applied settings.
LEMMA BesideKeepsKey ==
  ASSUME TypeOK, KeyInv,
         \/ \E r \in Requests : \/ onAuthRequired(r) \/ clearAuthAttempt(r)
                                \/ \E s \in Servers, c \in Visible : Challenge(r, s, c)
         \/ \E t \in Tests : testIp(t) \/ TestStart(t)
         \/ Command \/ \E e \in {"fatal", "direct"} : ProxyError(e)
         \/ \E s \in Settings : onChange(s)
         \/ \E s \in Settings, c \in Visible : Takeover(s, c)
  PROVE  KeyInv'
<1>1. /\ UNCHANGED <<storage, proxyPref, pc, loc, awake>>
      /\ \/ queue' = queue
         \/ \E task \in TaskRecords :
              /\ queue' = Append(queue, task)
              /\ task.kind \in Harmless \/ pc["boot"] = "done"
  <2> USE DEF threads, prefs, beside
  <2>1. ASSUME NEW r \in Requests,
               \/ onAuthRequired(r) \/ clearAuthAttempt(r)
               \/ \E s \in Servers, c \in Visible : Challenge(r, s, c)
        PROVE  <1>1
    <3>1. /\ [Task("authFailed") EXCEPT !.error = "authFailed"] \in TaskRecords
          /\ [Task("authFailed") EXCEPT !.error = "authFailed"].kind = "authFailed"
      BY TasksTyped DEF Kinds, Errors, Task
    <3>2. UNCHANGED <<storage, prefs, pc, loc, awake>>
      BY <2>1
      DEF onAuthRequired, AuthRead, AuthSettings, AuthTabGone, AuthCancel, AuthRejected,
          AuthGrant, clearAuthAttempt, Challenge, Answer, AuthStep
    <3>3. \/ queue' = queue
          \/ queue' = Append(queue, [Task("authFailed") EXCEPT !.error = "authFailed"])
      BY <2>1
      DEF onAuthRequired, AuthRead, AuthSettings, AuthTabGone, AuthCancel, AuthRejected,
          AuthGrant, clearAuthAttempt, Challenge, Enqueue, quiet
    <3> QED BY <3>1, <3>2, <3>3 DEF Harmless
  <2>2. ASSUME NEW t \in Tests, testIp(t) \/ TestStart(t)
        PROVE  <1>1
    <3>1. /\ [Task("clearError") EXCEPT !.test = t] \in TaskRecords
          /\ [Task("clearError") EXCEPT !.test = t].kind = "clearError"
      BY TasksTyped DEF Kinds, Task
    <3> QED BY <2>2, <3>1 DEF testIp, TestStart, Enqueue, Harmless
  <2>3. CASE Command
    <3>1. PICK kind \in Kinds, key \in Keys \cup {None}, x \in Lists : Message(kind, key, x)
      BY <2>3, BrowserAssumption DEF Command, Kinds
    <3>2. [Task(kind) EXCEPT !.key = key, !.exclusions = x] \in TaskRecords
      BY TasksTyped
    <3> QED BY <3>1, <3>2 DEF Message, Enqueue, booted
  <2>4. ASSUME NEW e \in {"fatal", "direct"}, ProxyError(e)
        PROVE  <1>1
    <3>1. /\ [Task("proxyError") EXCEPT !.error = e] \in TaskRecords
          /\ [Task("proxyError") EXCEPT !.error = e].kind = "proxyError"
      BY TasksTyped DEF Kinds, Errors, Task
    <3> QED BY <2>4, <3>1 DEF ProxyError, Enqueue, Harmless
  <2>5. ASSUME NEW s \in Settings, onChange(s)
        PROVE  <1>1
    <3>1. ChangeTask(s) \in TaskRecords
      BY TasksTyped DEF ChangeTask, Kinds
    <3> QED BY <2>5, <3>1 DEF onChange, Enqueue, booted
  <2>6. ASSUME NEW s \in Settings, NEW c \in Visible, Takeover(s, c)
        PROVE  <1>1
    BY <2>6 DEF Takeover, Contest, chain
  <2> QED BY <2>1, <2>2, <2>3, <2>4, <2>5, <2>6
<1>2. AppliedServerIsStored' /\ \A p \in Threads : KeyIsBound(p)'
  BY <1>1 DEF KeyInv, AppliedServerIsStored, KeyIsBound, Swapping
<1>3. CASE queue' = queue
  BY <1>1, <1>2, <1>3 DEF KeyInv, BootPath, BootFirst, HarmlessTask, HarmlessQueue
<1>4. CASE queue' # queue
  BY <1>1, <1>2, <1>4, EnqueueKeepsKey DEF KeyInv
<1> QED BY <1>3, <1>4

\* A killed worker has forgotten its tasks; what is stored and applied survives.
LEMMA RestartKeepsKey ==
  ASSUME TypeOK, DataIsBound, KeyInv, Kill \/ Wake
  PROVE  KeyInv'
<1> USE DEF KeyInv, Threads
<1>1. AppliedServerIsStored'
  BY DEF Kill, Wake, prefs, AppliedServerIsStored
<1>2. CASE Kill
  <2>1. \A p \in Threads : pc'[p] = "idle" /\ loc'[p] = NoLocals
    BY <1>2 DEF Kill, Asleep
  <2>2. NoLocals.ret = "end" /\ NoLocals.task.kind = "boot"
    BY DEF NoLocals, Locals, Task, AfterBadge
  <2>3. HarmlessQueue'
    BY <1>2, EmptySeq DEF Kill, HarmlessQueue
  <2> QED BY <1>1, <2>1, <2>2, <2>3
          DEF KeyIsBound, Swapping, UsesData, BootPath, BootFirst, HarmlessTask
<1>3. CASE Wake
  <2>1. /\ pc'["boot"] = "rc.read" /\ pc'["op"] = pc["op"]
        /\ loc' = loc /\ queue' = queue /\ storage' = storage /\ proxyPref' = proxyPref
        /\ awake'
    BY <1>3 DEF Wake, chain, prefs, TypeOK
  <2>2. pc["boot"] = "idle"
    BY <1>3 DEF Wake, BootPath
  <2>3. HarmlessTask' /\ HarmlessQueue'
    BY <2>1, <2>2 DEF BootFirst, HarmlessTask, HarmlessQueue
  <2>4. KeyIsBound("op")' /\ KeyIsBound("boot")'
    BY <2>1, <2>2 DEF KeyIsBound, Swapping, UsesData, BootPath
  <2>5. BootPath'
    BY <2>1 DEF BootPath
  <2> QED BY <1>1, <2>3, <2>4, <2>5 DEF BootFirst
<1> QED BY <1>2, <1>3

\* An empty queue holds nothing to fear.
LEMMA NothingQueued == queue = <<>> => HarmlessQueue
<1>1. queue = <<>> => Len(queue) = 0
  BY EmptySeq
<1> QED BY <1>1 DEF HarmlessQueue

\* The invariant holds at the start, and every step preserves it.
LEMMA InitKey == Init => KeyInv
<1> SUFFICES ASSUME Init PROVE KeyInv
  OBVIOUS
<1> USE BrowserAssumption, BackgroundAssumption DEF Init, LeftBehind, NotLoaded, NoChallenge, Threads
<1>1. \A p \in Threads : pc[p] = "idle" /\ loc[p] = NoLocals
  BY DEF Asleep
<1>2. NoLocals.ret = "end" /\ NoLocals.task.kind = "boot"
  BY DEF NoLocals, Locals, Task, AfterBadge
<1>3. AppliedServerIsStored
  <2>1. storage.connection = Connected /\ storage.enabled = (Connected # None)
    BY DEF NoData
  <2> QED BY <2>1 DEF AppliedServerIsStored, buildProxyConfig
<1>4. HarmlessQueue
  BY NothingQueued
<1>5. \A p \in Threads : KeyIsBound(p)
  BY <1>1, <1>2 DEF KeyIsBound, Swapping, UsesData
<1>6. BootPath
  BY <1>1, <1>2 DEF BootPath
<1>7. BootFirst
  BY <1>1, <1>2, <1>4 DEF BootFirst, HarmlessTask
<1> QED BY <1>3, <1>5, <1>6, <1>7 DEF KeyInv

\* Every step of the specification keeps it.
LEMMA NextKeepsKey ==
  ASSUME TypeOK, DataIsBound, KeyInv, [Next]_vars
  PROVE  KeyInv'
<1>1. CASE UNCHANGED vars
  BY <1>1 DEF vars, threads, beside, prefs, KeyInv, AppliedServerIsStored, KeyIsBound,
              Swapping, BootPath, BootFirst, HarmlessTask, HarmlessQueue
<1>2. CASE Worker
  BY <1>2, ThreadsKeepKey, ChainKeepsKey, BesideKeepsKey DEF Worker
<1>3. CASE Environment
  BY <1>3, FailKeepsKey, BesideKeepsKey, RestartKeepsKey DEF Environment
<1>4. CASE \E s \in Settings : onChange(s)
  BY <1>4, BesideKeepsKey
<1> QED BY <1>1, <1>2, <1>3, <1>4 DEF Next

\* In every reachable state, whatever was killed or rejected half-way, the PAC that
\* background.js has installed names the server of the stored key, and nothing is
\* enabled without a key.
THEOREM AppliedServerCorrect == Spec => []AppliedServerIsStored
<1>1. TypeOK /\ DataIsBound /\ KeyInv /\ [Next]_vars => KeyInv'
  BY NextKeepsKey
<1>2. KeyInv => AppliedServerIsStored
  BY DEF KeyInv
<1> QED BY InitKey, TypeInvariant, <1>1, <1>2, PTL DEF Spec

(***************************************************************************)
(* The worker at rest: OffMeansCleared, RestingProxyIsConfigured,          *)
(* RestingProxyNeedsWebRTC and IncognitoConflictHandled.                   *)
(*                                                                         *)
(* None of them is inductive: each says of the states at rest that         *)
(* something is not so.  The invariant says of every state that, if it is  *)
(* so, somebody is still about to deal with it: a thread that has reached  *)
(* a label from which it will (At), a task in the chain or behind boot     *)
(* (Queued), a notice on its way, or boot itself, when the worker sleeps.  *)
(* At rest nobody is left.                                                 *)
(***************************************************************************)
\* the labels at which the switch is known to be on
Enabling == RcTry \cup CoTry \cup SaTry \cup SaRestoreTry
            \cup {"sa.rollback", "sa.giveUp"}
\* those at which the remembered exclusions are the stored ones
Rereads == RcTry \cup CoTry \cup SaRestoreTry \cup {"co.clear", "co.enable", "sa.store"}
DataIsStored(p) ==
  /\ pc[p] \in Enabling => storage.enabled
  /\ pc[p] \in Rereads => loc[p].data.exclusions = storage.exclusions
  /\ pc[p] \in SaTry => loc[p].task.exclusions = storage.exclusions
  /\ pc[p] = "sa.store" => loc[p].data.enabled = storage.enabled

\* what must not be so at rest
KeepsProxy == ~storage.enabled /\ proxyPref # None
KeepsRtc == ~storage.enabled /\ rtcPref
PacDiffers == proxyPref # None /\ proxyPref.exclusions # storage.exclusions
Exposed == proxyPref # None /\ ~webRTCIsRestrictedInAllEnabledContexts
Conflicting == /\ proxyPref # None /\ storage.enabled
               /\ <<"proxy", "incognito">> \in taken /\ ~ownProxyClearedForConflict

\* the labels from which a thread deals with it
ClearsProxy == {"rc.read", "off.proxy"}
ClearsRtc == {"rc.read", "off.proxy", "off.rtc"}
Rewrites == {"rc.read", "rc.rtc", "rc.unrestricted", "rc.setRtc", "rc.checkRtc",
             "rc.proxy", "rc.setProxy", "rc.caught", "off.proxy", "sa.setProxy",
             "sa.mayRestore", "sa.restore", "sa.giveUp"}
Checks == Enabling \cup {"rc.read", "rc.caught", "off.proxy", "co.undo"}
Resolves == Checks \cup {"ch.look", "ch.clear"}

At(labels) == \E p \in Threads : pc[p] \in labels
Queued(kind) == \/ \E i \in 1..Len(queue) : queue[i].kind = kind
                \/ \E i \in 1..Len(waiting) : waiting[i].kind = kind
Pending ==
  /\ KeepsProxy => ~awake \/ At(ClearsProxy)
  /\ KeepsRtc => ~awake \/ At(ClearsRtc)
  /\ PacDiffers => ~awake \/ At(Rewrites)
  /\ Exposed => ~awake \/ "rtc" \in notices \/ Queued("rtcChange") \/ At(Checks)
  /\ Conflicting =>
       ~awake \/ "proxy" \in notices \/ Queued("proxyChange") \/ At(Resolves)

Unfailed == budget["failure"] = Budget["failure"]
RestInv ==
  /\ \A p \in Threads : DataIsStored(p)
  /\ taken \subseteq Settings \X Visible
  /\ pc["boot"] = "done" => waiting = <<>>
  /\ budget["failure"] <= Budget["failure"]
  /\ Unfailed => Pending

\* What a step of thread p does: it creates none of these situations, and none
\* outlasts the labels that deal with it.  The one step that could is the end of a
\* saveExclusions on a disabled configuration: no PAC is installed then.
Settled(p) ==
  /\ KeepsProxy' /\ pc'[p] \notin ClearsProxy => KeepsProxy /\ pc[p] \notin ClearsProxy
  /\ KeepsRtc' /\ pc'[p] \notin ClearsRtc => KeepsRtc /\ pc[p] \notin ClearsRtc
  /\ PacDiffers' /\ pc'[p] \notin Rewrites =>
       \/ PacDiffers /\ pc[p] \notin Rewrites
       \/ KeepsProxy /\ pc[p] = "sa.store"
  /\ Exposed' /\ pc'[p] \notin Checks => Exposed /\ pc[p] \notin Checks
  /\ Conflicting' /\ pc'[p] \notin Resolves => Conflicting /\ pc[p] \notin Resolves
RestEffect(p) == DataIsStored(p)' /\ Settled(p) /\ notices \subseteq notices'

(***************************************************************************)
(* What the conditions of the code say about these situations.             *)
(***************************************************************************)
\* A setting that is in effect is the one installed.
LEMMA EffectiveIsInstalled ==
  ASSUME NEW c, NEW pac, isEffectiveProxySetting(c, pac)
  PROVE  proxyPref = pac
BY DEF isEffectiveProxySetting

\* WebRTC is restricted or not by what is taken and preferred, and by nothing else.
LEMMA RestrictedAlike ==
  ASSUME rtcPref' = rtcPref, \A c : <<"rtc", c>> \in taken' <=> <<"rtc", c>> \in taken
  PROVE  webRTCIsRestrictedInAllEnabledContexts' = webRTCIsRestrictedInAllEnabledContexts
BY DEF webRTCIsRestrictedInAllEnabledContexts, incognitoWebRTCIsRestricted,
       webRTCIsRestricted, RtcLevel

\* Where another extension holds the incognito route, ours is not in effect there.
LEMMA IncognitoTaken ==
  ASSUME taken \subseteq Settings \X Visible, <<"proxy", "incognito">> \in taken
  PROVE  \A pac : /\ ~incognitoProxyState(pac).effective
                  /\ incognitoProxyState(pac).level = "other"
<1>1. "incognito" \in Visible
  OBVIOUS
<1>2. IncognitoAllowed
  BY <1>1 DEF Visible
<1> QED BY <1>2 DEF incognitoProxyState, isEffectiveProxySetting, ProxyLevel

(***************************************************************************)
(* The steps of a thread, handler by handler.                              *)
(***************************************************************************)
\* A step that leaves the settings, the storage and the flags alone and goes from
\* labels that deal with nothing to any labels settles whatever it settles by moving.
LEMMA MoveRests ==
  ASSUME NEW p \in Threads, UNCHANGED <<storage, prefs, taken>>,
         ownProxyClearedForConflict' = ownProxyClearedForConflict
  PROVE  /\ KeepsProxy' <=> KeepsProxy
         /\ KeepsRtc' <=> KeepsRtc
         /\ PacDiffers' <=> PacDiffers
         /\ Exposed' <=> Exposed
         /\ Conflicting' <=> Conflicting
BY RestrictedAlike DEF KeepsProxy, KeepsRtc, PacDiffers, Exposed, Conflicting, prefs

\* The reconciliation of an enabled configuration ends with its PAC installed and
\* WebRTC restricted, or with no PAC; that of a disabled one clears both settings.
LEMMA ReconcileRests ==
  ASSUME TypeOK, DataIsBound, AppliedServerIsStored, NEW p \in Threads, KeyIsBound(p),
         DataIsStored(p), taken \subseteq Settings \X Visible, taken' = taken,
         reconcileAtStartup(p)
  PROVE  RestEffect(p)
<1> USE LocalsTyped DEF TypeOK, BrowserTypeOK, Labels, RestEffect, DataIsStored, Settled,
        KeepsProxy, KeepsRtc, PacDiffers, Exposed, Conflicting,
        Enabling, Rereads, ClearsProxy, ClearsRtc, Rewrites, Checks, Resolves,
        Goto, Look, SetProxy, SetRtc, Notify, keepFlags, flags, SetFlags, prefs,
        clearOwnProxySetting, clearOwnWebRTCSetting
<1>pac. Expected(p).exclusions = loc[p].data.exclusions
  BY DEF Expected, ConfiguredPac, buildProxyConfig
<1>rtc. rtcPref' = rtcPref => webRTCIsRestrictedInAllEnabledContexts' =
                                webRTCIsRestrictedInAllEnabledContexts
  BY RestrictedAlike
<1>1. CASE RcRead(p) /\ keepFlags
  <2>1. /\ [storage EXCEPT !.enabled = @ /\ storage.connection # None].exclusions
             = storage.exclusions
        /\ [storage EXCEPT !.enabled = @ /\ storage.connection # None].enabled
             = (storage.enabled /\ storage.connection # None)
    BY DEF StoredData
  <2>2. loc'[p].data = storage
    BY <1>1 DEF RcRead
  <2> QED BY <1>1, <2>1, <2>2 DEF RcRead
<1>2. CASE RcRtc(p) /\ keepFlags
  BY <1>2, <1>rtc DEF RcRtc
<1>3. CASE RcUnrestricted(p) /\ keepFlags
  BY <1>3, <1>rtc DEF RcUnrestricted
<1>4. CASE RcSetRtc(p) /\ keepFlags
  BY <1>4 DEF RcSetRtc
<1>5. CASE RcCheckRtc(p) /\ keepFlags
  BY <1>5, <1>rtc DEF RcCheckRtc
<1>6. CASE RcSetProxy(p) /\ keepFlags
  BY <1>6, <1>rtc, <1>pac DEF RcSetProxy
<1>7. CASE RcCheckProxy(p) /\ keepFlags
  BY <1>7, <1>rtc DEF RcCheckProxy
<1>8. CASE RcCaught(p) /\ keepFlags
  BY <1>8, <1>rtc DEF RcCaught
<1>9. CASE OffProxy(p) /\ keepFlags
  BY <1>9, <1>rtc DEF OffProxy
<1>10. CASE OffRtc(p) /\ keepFlags
  BY <1>10 DEF OffRtc, KeyIsBound, Swapping
<1>11. CASE RcProxy(p)
  BY <1>11, <1>rtc, <1>pac, EffectiveIsInstalled DEF RcProxy
<1>12. CASE RcLast(p)
  BY <1>12, <1>rtc, IncognitoTaken DEF RcLast
<1> QED BY <1>1, <1>2, <1>3, <1>4, <1>5, <1>6, <1>7, <1>8, <1>9, <1>10, <1>11, <1>12
        DEF reconcileAtStartup

\* updateBadge looks, sets a text, and returns to a label that settles nothing.
LEMMA BadgeRests ==
  ASSUME TypeOK, DataIsBound, AppliedServerIsStored, NEW p \in Threads, KeyIsBound(p),
         taken' = taken, updateBadge(p)
  PROVE  RestEffect(p)
<1>1. /\ UNCHANGED <<storage, prefs, flags>>
      /\ pc[p] \in BadgeLabels /\ pc'[p] \in {"badge.set", loc[p].ret}
  BY DEF updateBadge, BadgeLook, BadgeSet, Remember, keepFlags, Goto, TypeOK
<1>2. loc[p].ret \in Returns
  BY LocalsTyped
<1>3. pc'[p] \notin Enabling \cup Rereads
  BY <1>1, <1>2 DEF Returns, Enabling, Rereads
<1>4. DataIsStored(p)'
  BY <1>3 DEF DataIsStored, Enabling, Rereads
<1>5. /\ KeepsProxy' <=> KeepsProxy
      /\ KeepsRtc' <=> KeepsRtc
      /\ PacDiffers' <=> PacDiffers
      /\ Exposed' <=> Exposed
      /\ Conflicting' <=> Conflicting
  BY <1>1, MoveRests DEF flags
<1>6. pc[p] \notin Resolves \cup Rewrites \cup ClearsRtc \cup ClearsProxy
  BY <1>1 DEF Resolves, Checks, Enabling, Rewrites, ClearsRtc, ClearsProxy
<1> QED BY <1>1, <1>4, <1>5, <1>6 DEF RestEffect, Settled, Resolves, prefs

\* connect ends with its PAC installed and WebRTC restricted, or undoes both.
LEMMA ConnectRests ==
  ASSUME TypeOK, DataIsBound, AppliedServerIsStored, NEW p \in Threads, KeyIsBound(p),
         DataIsStored(p), taken \subseteq Settings \X Visible, taken' = taken, connect(p)
  PROVE  RestEffect(p)
<1> USE LocalsTyped DEF TypeOK, BrowserTypeOK, Labels, RestEffect, DataIsStored, Settled,
        KeepsProxy, KeepsRtc, PacDiffers, Exposed, Conflicting,
        Enabling, Rereads, ClearsProxy, ClearsRtc, Rewrites, Checks, Resolves,
        Goto, Look, Remember, Store, SetProxy, SetRtc, Notify, keepFlags, flags,
        SetFlags, prefs, clearOwnProxySetting
<1>pac. Expected(p).exclusions = loc[p].data.exclusions
  BY DEF Expected, ConfiguredPac, buildProxyConfig
<1>rtc. rtcPref' = rtcPref => webRTCIsRestrictedInAllEnabledContexts' =
                                webRTCIsRestrictedInAllEnabledContexts
  BY RestrictedAlike
<1>1. CASE CoCheck(p) /\ keepFlags
  BY <1>1, <1>rtc DEF CoCheck
<1>2. CASE CoRefuse(p) /\ keepFlags
  BY <1>2, <1>rtc DEF CoRefuse
<1>3. CASE CoClear(p) /\ keepFlags
  BY <1>3, <1>rtc DEF CoClear
<1>4. CASE CoEnable(p) /\ keepFlags
  <2>1. /\ [storage EXCEPT !.enabled = TRUE, !.proxyError = None].enabled
        /\ [storage EXCEPT !.enabled = TRUE, !.proxyError = None].exclusions
             = storage.exclusions
    BY DEF StoredData
  <2> QED BY <1>4, <1>rtc, <2>1 DEF CoEnable
<1>5. CASE CoSetRtc(p) /\ keepFlags
  BY <1>5 DEF CoSetRtc
<1>6. CASE CoCheckRtc(p) /\ keepFlags
  BY <1>6, <1>rtc DEF CoCheckRtc
<1>7. CASE CoSetProxy(p) /\ keepFlags
  BY <1>7, <1>rtc, <1>pac DEF CoSetProxy
<1>8. CASE CoUndo(p) /\ keepFlags
  <2>1. /\ ~[storage EXCEPT !.enabled = FALSE].enabled
        /\ [storage EXCEPT !.enabled = FALSE].exclusions = storage.exclusions
    BY DEF StoredData
  <2> QED BY <1>8, <1>rtc, <2>1 DEF CoUndo
<1>9. CASE CoApplied(p)
  BY <1>9, <1>rtc, IncognitoTaken DEF CoApplied, EffectiveEverywhere
<1> QED BY <1>1, <1>2, <1>3, <1>4, <1>5, <1>6, <1>7, <1>8, <1>9 DEF connect

\* importKey, disconnect and forget switch off, then clear both settings.
LEMMA OtherCommandsRest ==
  ASSUME TypeOK, DataIsBound, AppliedServerIsStored, NEW p \in Threads, KeyIsBound(p),
         DataIsStored(p), taken' = taken, importKey(p) \/ disconnect(p) \/ forget(p)
  PROVE  RestEffect(p)
<1> USE LocalsTyped DEF TypeOK, BrowserTypeOK, Labels, RestEffect, DataIsStored, Settled,
        KeepsProxy, KeepsRtc, PacDiffers, Exposed, Conflicting,
        Enabling, Rereads, ClearsProxy, ClearsRtc, Rewrites, Checks, Resolves,
        Goto, Store, keepFlags, flags, SetFlags, prefs, KeyIsBound, Swapping
<1>rtc. rtcPref' = rtcPref => webRTCIsRestrictedInAllEnabledContexts' =
                                webRTCIsRestrictedInAllEnabledContexts
  BY RestrictedAlike
<1>1. CASE ImDisable(p) /\ keepFlags
  <2>1. /\ ~[storage EXCEPT !.enabled = FALSE].enabled
        /\ [storage EXCEPT !.enabled = FALSE].exclusions = storage.exclusions
    BY DEF StoredData
  <2> QED BY <1>1, <1>rtc, <2>1 DEF ImDisable
<1>2. CASE ImStore(p) /\ keepFlags
  <2>1. [storage EXCEPT !.connection = loc[p].task.key, !.exclusions = NoExclusions,
                        !.proxyError = None].enabled = storage.enabled
    BY DEF StoredData
  <2> QED BY <1>2, <1>rtc, <2>1 DEF ImStore
<1>3. CASE disconnect(p)
  <2>1. /\ ~[storage EXCEPT !.enabled = FALSE, !.proxyError = None].enabled
        /\ [storage EXCEPT !.enabled = FALSE, !.proxyError = None].exclusions
             = storage.exclusions
    BY DEF StoredData
  <2> QED BY <1>3, <1>rtc, <2>1 DEF disconnect
<1>4. CASE forget(p)
  <2>1. [storage EXCEPT !.connection = None, !.exclusions = NoExclusions].enabled
          = storage.enabled
    BY DEF StoredData
  <2> QED BY <1>4, <1>rtc, <2>1 DEF forget
<1> QED BY <1>1, <1>2, <1>3, <1>4 DEF importKey

\* saveExclusions ends with the new PAC, with the restored one, or with none.
LEMMA SaveRests ==
  ASSUME TypeOK, DataIsBound, AppliedServerIsStored, NEW p \in Threads, KeyIsBound(p),
         DataIsStored(p), taken \subseteq Settings \X Visible, taken' = taken,
         saveExclusions(p)
  PROVE  RestEffect(p)
<1> USE LocalsTyped DEF TypeOK, BrowserTypeOK, Labels, RestEffect, DataIsStored, Settled,
        KeepsProxy, KeepsRtc, PacDiffers, Exposed, Conflicting,
        Enabling, Rereads, ClearsProxy, ClearsRtc, Rewrites, Checks, Resolves,
        Goto, Look, Remember, Store, SetProxy, Notify, keepFlags, flags,
        SetFlags, prefs, clearOwnProxySetting
<1>pac. /\ Expected(p).exclusions = loc[p].data.exclusions
        /\ NewPac(p).exclusions = loc[p].task.exclusions
  BY DEF Expected, NewPac, ConfiguredPac, buildProxyConfig
<1>rtc. rtcPref' = rtcPref => webRTCIsRestrictedInAllEnabledContexts' =
                                webRTCIsRestrictedInAllEnabledContexts
  BY RestrictedAlike
<1>1. CASE SaCheck(p)
  BY <1>1, <1>rtc DEF SaCheck
<1>2. CASE SaRefuse(p) /\ keepFlags
  BY <1>2, <1>rtc DEF SaRefuse
<1>3. CASE SaStore(p)
  <2>1. /\ [storage EXCEPT !.exclusions = loc[p].task.exclusions].exclusions
             = loc[p].task.exclusions
        /\ [storage EXCEPT !.exclusions = loc[p].task.exclusions].enabled
             = storage.enabled
    BY DEF StoredData
  <2> QED BY <1>3, <1>rtc, <2>1 DEF SaStore
<1>4. CASE SaSetProxy(p) /\ keepFlags
  BY <1>4, <1>rtc, <1>pac DEF SaSetProxy
<1>5. CASE SaApplied(p)
  BY <1>5, <1>rtc, IncognitoTaken DEF SaApplied, EffectiveEverywhere
<1>6. CASE SaRollback(p) /\ keepFlags
  <2>1. /\ [storage EXCEPT !.exclusions = loc[p].data.exclusions].exclusions
             = loc[p].data.exclusions
        /\ [storage EXCEPT !.exclusions = loc[p].data.exclusions].enabled
             = storage.enabled
    BY DEF StoredData
  <2> QED BY <1>6, <1>rtc, <2>1 DEF SaRollback
<1>7. CASE SaMayRestore(p) /\ keepFlags
  BY <1>7, <1>rtc DEF SaMayRestore
<1>8. CASE SaRestore(p) /\ keepFlags
  BY <1>8, <1>rtc, <1>pac DEF SaRestore
<1>9. CASE SaRestored(p) /\ keepFlags
  BY <1>9, <1>rtc, IncognitoTaken DEF SaRestored, EffectiveEverywhere
<1>10. CASE SaGiveUp(p) /\ keepFlags
  BY <1>10, <1>rtc DEF SaGiveUp
<1> QED BY <1>1, <1>2, <1>3, <1>4, <1>5, <1>6, <1>7, <1>8, <1>9, <1>10
        DEF saveExclusions

\* A change of the proxy setting takes the PAC down, unless the conflict is already
\* known; a proxy error and a retry change nothing here.
LEMMA EventRests ==
  ASSUME TypeOK, DataIsBound, AppliedServerIsStored, NEW p \in Threads, KeyIsBound(p),
         taken \subseteq Settings \X Visible, taken' = taken,
         onProxySettingChange(p)
  PROVE  RestEffect(p)
<1> USE LocalsTyped DEF TypeOK, BrowserTypeOK, Labels, RestEffect, DataIsStored, Settled,
        KeepsProxy, KeepsRtc, PacDiffers, Exposed, Conflicting,
        Enabling, Rereads, ClearsProxy, ClearsRtc, Rewrites, Checks, Resolves,
        Goto, Look, Remember, SetProxy, Notify, keepFlags, flags,
        SetFlags, prefs, clearOwnProxySetting
<1>rtc. rtcPref' = rtcPref => webRTCIsRestrictedInAllEnabledContexts' =
                                webRTCIsRestrictedInAllEnabledContexts
  BY RestrictedAlike
<1>1. CASE ChLook(p)
  <2>1. CASE ~storage.enabled \/ storage.connection = None
    BY <1>1, <1>rtc, <2>1 DEF ChLook, AppliedServerIsStored
  <2>2. CASE ~(~storage.enabled \/ storage.connection = None)
    <3>1. /\ pc[p] = "ch.look"
          /\ pc'[p] \in {"ch.clear", "rc.read", "badge.look"}
          /\ UNCHANGED <<storage, prefs>>
      BY <1>1, <2>2 DEF ChLook
    <3>2. Conflicting' => pc'[p] = "ch.clear"
      <4>1. CASE <<"proxy", "incognito">> \in taken
        BY <1>1, <2>2, <3>1, <4>1, IncognitoTaken DEF ChLook
      <4> QED BY <4>1
    <3>3. RestEffect(p)
      BY <1>rtc, <3>1, <3>2
    <3> QED BY <3>3
  <2> QED BY <2>1, <2>2
<1>2. CASE ChClear(p)
  BY <1>2, <1>rtc DEF ChClear
<1> QED BY <1>1, <1>2 DEF onProxySettingChange

\* A proxy error and a retry change nothing here.
LEMMA ErrorRests ==
  ASSUME TypeOK, DataIsBound, AppliedServerIsStored, NEW p \in Threads, KeyIsBound(p),
         taken' = taken, PeStore(p) \/ clearError(p)
  PROVE  RestEffect(p)
<1>1. /\ pc[p] \in HarmlessLabels /\ pc'[p] \in HarmlessLabels
      /\ storage'.enabled = storage.enabled /\ storage'.exclusions = storage.exclusions
      /\ UNCHANGED <<prefs, flags>>
  <2>1. /\ pc'[p] \in HarmlessLabels
        /\ storage'.enabled = storage.enabled /\ storage'.exclusions = storage.exclusions
    BY HarmlessKeepsKey
  <2>2. pc[p] \in HarmlessLabels /\ UNCHANGED <<prefs, flags>>
    BY DEF PeStore, clearError, TeCheck, TeStore, TeChanged, TeDone, Store, Look, Goto,
           keepFlags, HarmlessLabels
  <2> QED BY <2>1, <2>2
<1>2. webRTCIsRestrictedInAllEnabledContexts' = webRTCIsRestrictedInAllEnabledContexts
  BY <1>1, RestrictedAlike DEF prefs
<1> QED BY <1>1, <1>2
  DEF RestEffect, DataIsStored, Settled, KeepsProxy, KeepsRtc, PacDiffers, Exposed,
      Conflicting, Enabling, Rereads, ClearsProxy, ClearsRtc, Rewrites, Checks, Resolves,
      HarmlessLabels, prefs, flags

(***************************************************************************)
(* All actions together.                                                   *)
(***************************************************************************)
\* A step that keeps the chain, of a thread that settles what it leaves, keeps
\* everything pending that was not settled: the other thread stays where it is.
LEMMA StepKeepsPending ==
  ASSUME TypeOK, NEW p \in Threads, pc' = [pc EXCEPT ![p] = pc'[p]], RestEffect(p),
         UNCHANGED <<awake, queue, waiting>>, Pending, ~(KeepsProxy /\ pc[p] = "sa.store")
  PROVE  Pending'
<1>1. \A L : At(L) => (pc[p] \in L \/ At(L)')
  BY DEF At, TypeOK
<1>2. \A L : pc'[p] \in L => At(L)'
  BY DEF At
<1>3. \A k : Queued(k) => Queued(k)'
  BY DEF Queued
<1>4. KeepsProxy' => ~awake' \/ At(ClearsProxy)'
  BY <1>1, <1>2 DEF RestEffect, Settled, Pending
<1>5. KeepsRtc' => ~awake' \/ At(ClearsRtc)'
  BY <1>1, <1>2 DEF RestEffect, Settled, Pending
<1>6. PacDiffers' => ~awake' \/ At(Rewrites)'
  BY <1>1, <1>2 DEF RestEffect, Settled, Pending
<1>7. Exposed' => ~awake' \/ "rtc" \in notices' \/ Queued("rtcChange")' \/ At(Checks)'
  BY <1>1, <1>2, <1>3 DEF RestEffect, Settled, Pending
<1>8. Conflicting' => ~awake' \/ "proxy" \in notices' \/ Queued("proxyChange")'
                      \/ At(Resolves)'
  BY <1>1, <1>2, <1>3 DEF RestEffect, Settled, Pending
<1> QED BY <1>4, <1>5, <1>6, <1>7, <1>8 DEF Pending, At, Queued,
        ClearsProxy, ClearsRtc, Rewrites, Checks, Resolves, Enabling

\* Every step of boot settles what it leaves.
LEMMA BootRests ==
  ASSUME TypeOK, DataIsBound, KeyInv, RestInv, Boot
  PROVE  RestEffect("boot")
<1> "boot" \in Threads
  BY DEF Threads
<1>1. taken' = taken
  BY DEF Boot, beside
<1>2. CASE clearOwnProxySetting("boot", "boot.clear", "badge.look") /\ keepFlags
  <2>1. rtcPref' = rtcPref /\ storage' = storage /\ proxyPref' = None
        /\ pc["boot"] = "boot.clear" /\ pc'["boot"] = "badge.look"
        /\ notices \subseteq notices'
    BY <1>2 DEF clearOwnProxySetting, SetProxy, Goto, Notify, TypeOK
  <2> QED BY <2>1
    DEF RestEffect, DataIsStored, Settled, KeepsProxy, KeepsRtc, PacDiffers, Exposed,
        Conflicting, Enabling, Rereads, ClearsProxy, ClearsRtc, Rewrites, Checks, Resolves
<1> QED BY <1>1, <1>2, ReconcileRests, BadgeRests DEF Boot, KeyInv, RestInv

\* So does every step of a task.
LEMMA OperationRests ==
  ASSUME TypeOK, DataIsBound, KeyInv, RestInv, Operation
  PROVE  RestEffect("op")
<1> "op" \in Threads
  BY DEF Threads
<1>1. taken' = taken
  BY DEF Operation, beside
<1> QED BY <1>1, ReconcileRests, BadgeRests, ConnectRests, OtherCommandsRest, SaveRests,
           EventRests, ErrorRests DEF Operation, KeyInv, RestInv

\* Both threads together.
LEMMA ThreadsRest ==
  ASSUME TypeOK, DataIsBound, KeyInv, RestInv, Boot \/ Operation
  PROVE  RestInv'
<1> USE DEF Threads
<1>1. UNCHANGED <<queue, taken, awake, waiting, budget>>
  BY DEF Boot, Operation, chain, beside
<1>2. CASE Boot
  <2>1. RestEffect("boot") /\ pc' = [pc EXCEPT !["boot"] = pc'["boot"]]
        /\ pc["boot"] # "done" /\ pc'["boot"] # "done"
        /\ pc'["op"] = pc["op"] /\ loc'["op"] = loc["op"]
    BY <1>2, BootRests, BootEffect DEF StepEffect, TypeOK
  <2>2. pc["boot"] # "sa.store"
    BY <2>1 DEF KeyInv, BootPath
  <2>3. pc["op"] \notin Enabling \cup Rereads
    BY <2>1 DEF KeyInv, BootFirst, HarmlessTask, HarmlessLabels, Enabling, Rereads
  <2>4. DataIsStored("op")' /\ DataIsStored("boot")'
    BY <2>1, <2>3 DEF RestEffect, DataIsStored, Enabling, Rereads
  <2>5. Unfailed' => Pending'
    BY <1>1, <2>1, <2>2, StepKeepsPending DEF RestInv, Unfailed
  <2> QED BY <1>1, <2>1, <2>4, <2>5 DEF RestInv
<1>3. CASE Operation
  <2>1. RestEffect("op") /\ pc' = [pc EXCEPT !["op"] = pc'["op"]]
        /\ pc'["boot"] = pc["boot"] /\ loc'["boot"] = loc["boot"]
    BY <1>3, OperationRests, OperationEffect DEF StepEffect, TypeOK
  <2>2. Pending => ~(KeepsProxy /\ pc["op"] = "sa.store")
    <3>1. SUFFICES ASSUME Pending, KeepsProxy, pc["op"] = "sa.store" PROVE FALSE
      OBVIOUS
    <3>2. pc["boot"] = "done" /\ awake
      BY <3>1 DEF KeyInv, BootFirst, HarmlessTask, HarmlessLabels, BootPath
    <3>3. ~At(ClearsProxy)
      BY <3>1, <3>2 DEF At, ClearsProxy
    <3> QED BY <3>1, <3>2, <3>3 DEF Pending
  <2>3. DataIsStored("boot")'
    <3>1. DataIsStored("boot")
      BY DEF RestInv
    <3>2. CASE pc["boot"] = "done"
      BY <2>1, <3>2 DEF DataIsStored, Enabling, Rereads
    <3>3. CASE pc["boot"] # "done"
      <4>1. storage'.enabled = storage.enabled /\ storage'.exclusions = storage.exclusions
        BY <1>3, <3>3, OperationKeepsKey
      <4> QED BY <2>1, <3>1, <4>1 DEF DataIsStored
    <3> QED BY <3>2, <3>3
  <2>4. Unfailed' => Pending'
    BY <1>1, <2>1, <2>2, StepKeepsPending DEF RestInv, Unfailed
  <2> QED BY <1>1, <2>1, <2>3, <2>4 DEF RestInv, RestEffect
<1> QED BY <1>2, <1>3

\* A task that ends or starts settles nothing by it: a change of a setting leaves the
\* chain for the label that deals with it.
LEMMA ChainRests ==
  ASSUME TypeOK, DataIsBound, KeyInv, RestInv, BootDone \/ Start \/ Finish
  PROVE  RestInv'
<1> USE DEF Threads
<1>1. UNCHANGED <<storage, prefs, taken, ownProxyClearedForConflict, awake, budget>>
  BY DEF BootDone, Start, Finish, flags, beside
<1>2. /\ KeepsProxy' <=> KeepsProxy
      /\ KeepsRtc' <=> KeepsRtc
      /\ PacDiffers' <=> PacDiffers
      /\ Exposed' <=> Exposed
      /\ Conflicting' <=> Conflicting
  BY <1>1, MoveRests
<1>3. CASE BootDone
  <2>1. /\ pc["boot"] = "end" /\ pc'["boot"] = "done"
        /\ pc'["op"] = pc["op"] /\ loc'["op"] = loc["op"]
        /\ queue' = queue \o waiting /\ waiting' = <<>>
    BY <1>3 DEF BootDone, Goto, TypeOK
  <2>2. \A k : Queued(k) => Queued(k)'
    <3>1. /\ Len(queue') = Len(queue) + Len(waiting)
          /\ Len(queue) \in Nat /\ Len(waiting) \in Nat
          /\ \A i \in 1..Len(queue) : queue'[i] = queue[i]
          /\ \A i \in 1..Len(waiting) : queue'[Len(queue) + i] = waiting[i]
      BY <2>1, ConcatProperties, LenProperties DEF TypeOK
    <3> QED BY <3>1 DEF Queued
  <2>3. \A L \in {ClearsProxy, ClearsRtc, Rewrites, Checks, Resolves} : At(L) => At(L)'
    BY <2>1 DEF At, ClearsProxy, ClearsRtc, Rewrites, Checks, Resolves, Enabling
  <2>4. DataIsStored("boot")' /\ DataIsStored("op")'
    BY <1>1, <2>1 DEF RestInv, DataIsStored, Enabling, Rereads
  <2>5. Pending => Pending'
    BY <1>1, <1>2, <2>2, <2>3 DEF Pending, At, prefs, ClearsProxy, ClearsRtc, Rewrites,
       Checks, Resolves, Enabling
  <2> QED BY <1>1, <2>1, <2>4, <2>5 DEF RestInv, Unfailed
<1>4. CASE Start
  <2> DEFINE task == Head(queue)
  <2>1. /\ task \in TaskRecords
        /\ pc["op"] = "idle" /\ pc'["op"] = Entry(task.kind)
        /\ pc'["boot"] = pc["boot"] /\ loc'["boot"] = loc["boot"]
        /\ waiting' = waiting
    BY <1>4, HeadTailProperties DEF Start, Goto, TypeOK, beside
  <2>2. \A k : Queued(k) => Queued(k)' \/ task.kind = k
    <3>1. /\ queue # <<>> /\ queue' = Tail(queue) /\ queue \in Seq(TaskRecords)
      BY <1>4 DEF Start, TypeOK
    <3>2. /\ Len(queue) \in Nat \ {0} /\ task = queue[1]
          /\ Len(queue') = Len(queue) - 1
          /\ \A i \in 1..Len(queue') : queue'[i] = queue[i + 1]
      BY <3>1, HeadTailProperties, EmptySeq
    <3>3. \A i \in 1..Len(queue) : i = 1 \/ (i - 1 \in 1..Len(queue') /\ queue'[i - 1] = queue[i])
      BY <3>2
    <3> HIDE DEF task
    <3> QED BY <2>1, <3>2, <3>3 DEF Queued
  <2> HIDE DEF task
  <2>3. /\ task.kind = "rtcChange" => Entry(task.kind) \in Checks
        /\ task.kind = "rtcChange" => Entry(task.kind) \in Resolves
        /\ task.kind = "proxyChange" => Entry(task.kind) \in Resolves
        /\ Entry(task.kind) \notin Enabling \cup Rereads
    BY DEF Entry, Checks, Resolves, Enabling, Rereads
  <2>4. \A L \in {ClearsProxy, ClearsRtc, Rewrites, Checks, Resolves} : At(L) => At(L)'
    BY <2>1 DEF At, ClearsProxy, ClearsRtc, Rewrites, Checks, Resolves, Enabling
  <2>5. DataIsStored("boot")' /\ DataIsStored("op")'
    BY <1>1, <2>1, <2>3 DEF RestInv, DataIsStored, Enabling, Rereads
  <2>6. \A L : Entry(task.kind) \in L => At(L)'
    BY <2>1 DEF At
  <2>7. Queued("rtcChange") => Queued("rtcChange")' \/ At(Checks)'
    BY <2>2, <2>3, <2>6 DEF At, Checks, Enabling
  <2>8. Queued("proxyChange") => Queued("proxyChange")' \/ At(Resolves)'
    BY <2>2, <2>3, <2>6 DEF At, Resolves, Checks, Enabling
  <2>9. Pending => Pending'
    BY <1>1, <1>2, <2>4, <2>7, <2>8 DEF Pending, At, prefs, ClearsProxy, ClearsRtc,
       Rewrites, Checks, Resolves, Enabling
  <2> QED BY <1>1, <2>1, <2>5, <2>9 DEF RestInv, Unfailed
<1>5. CASE Finish
  <2>1. /\ pc["op"] = "end" /\ pc'["op"] = "idle"
        /\ pc'["boot"] = pc["boot"] /\ loc'["boot"] = loc["boot"]
        /\ queue' = queue /\ waiting' = waiting
    BY <1>5 DEF Finish, Goto, TypeOK, beside
  <2>2. \A L \in {ClearsProxy, ClearsRtc, Rewrites, Checks, Resolves} : At(L) => At(L)'
    BY <2>1 DEF At, ClearsProxy, ClearsRtc, Rewrites, Checks, Resolves, Enabling
  <2>3. DataIsStored("boot")' /\ DataIsStored("op")'
    BY <1>1, <2>1 DEF RestInv, DataIsStored, Enabling, Rereads
  <2>4. Pending => Pending'
    BY <1>1, <1>2, <2>1, <2>2 DEF Pending, At, Queued, prefs, ClearsProxy, ClearsRtc,
       Rewrites, Checks, Resolves, Enabling
  <2> QED BY <1>1, <2>1, <2>3, <2>4 DEF RestInv, Unfailed
<1> QED BY <1>3, <1>4, <1>5

\* After a rejected call nothing is promised but what the thread still remembers.
LEMMA FailRests ==
  ASSUME TypeOK, DataIsBound, KeyInv, RestInv, NEW p \in Threads, Fail(p)
  PROVE  RestInv'
<1>1. /\ UNCHANGED <<storage, taken, waiting>> /\ pc'[p] = Rescue(p) /\ pc[p] # "done"
      /\ \A q \in Threads : q # p => pc'[q] = pc[q] /\ loc'[q] = loc[q]
      /\ loc'[p].data = loc[p].data
  <2>1. loc[p] \in LocalRecords /\ loc[p].task \in TaskRecords
    BY LocalsTyped
  <2> QED BY <2>1 DEF Fail, prefs, chain, TypeOK, LocalRecords, TaskRecords
<1>2. /\ Rescue(p) \notin Rereads \cup SaTry /\ Rescue(p) # "done"
      /\ Rescue(p) \in Enabling => pc[p] \in Enabling
  BY DEF Rescue, Rereads, Enabling
<1>3. \A q \in Threads : DataIsStored(q)'
  <2>1. DataIsStored(p)'
    BY <1>1, <1>2 DEF RestInv, DataIsStored, Rereads, Enabling
  <2>2. \A q \in Threads : q # p => DataIsStored(q)'
    BY <1>1 DEF RestInv, DataIsStored
  <2> QED BY <2>1, <2>2
<1>4. ~Unfailed' /\ budget'["failure"] <= Budget["failure"]
  <2>1. budget'["failure"] = budget["failure"] - 1
    BY DEF Fail, Spend, TypeOK, Events
  <2>2. budget["failure"] \in Nat /\ Budget["failure"] \in Nat
    BY BackgroundAssumption DEF TypeOK, Events
  <2> QED BY <2>1, <2>2 DEF RestInv, Unfailed
<1>5. pc'["boot"] = "done" => waiting' = <<>>
  BY <1>1, <1>2 DEF RestInv, Threads
<1> QED BY <1>1, <1>3, <1>4, <1>5 DEF RestInv

\* What runs beside the threads changes no setting, and only adds to the chain.
LEMMA BesideRests ==
  ASSUME TypeOK, RestInv,
         \/ \E r \in Requests : \/ onAuthRequired(r) \/ clearAuthAttempt(r)
                                \/ \E s \in Servers, c \in Visible : Challenge(r, s, c)
         \/ \E t \in Tests : testIp(t) \/ TestStart(t)
         \/ Command \/ \E e \in {"fatal", "direct"} : ProxyError(e)
  PROVE  RestInv'
<1>1. /\ UNCHANGED <<storage, prefs, taken, pc, loc, flags, awake, waiting>>
      /\ budget'["failure"] = budget["failure"]
      /\ queue' = queue \/ \E task \in TaskRecords : queue' = Append(queue, task)
  <2> USE DEF threads, beside
  <2>1. ASSUME NEW r \in Requests,
               \/ onAuthRequired(r) \/ clearAuthAttempt(r)
               \/ \E s \in Servers, c \in Visible : Challenge(r, s, c)
        PROVE  <1>1
    <3>1. [Task("authFailed") EXCEPT !.error = "authFailed"] \in TaskRecords
      BY TasksTyped DEF Kinds, Errors
    <3>2. UNCHANGED <<storage, prefs, taken, pc, loc, flags, awake, waiting, budget>>
      BY <2>1
      DEF onAuthRequired, AuthRead, AuthSettings, AuthTabGone, AuthCancel, AuthRejected,
          AuthGrant, clearAuthAttempt, Challenge, Answer, AuthStep
    <3>3. \/ queue' = queue
          \/ queue' = Append(queue, [Task("authFailed") EXCEPT !.error = "authFailed"])
      BY <2>1
      DEF onAuthRequired, AuthRead, AuthSettings, AuthTabGone, AuthCancel, AuthRejected,
          AuthGrant, clearAuthAttempt, Challenge, Enqueue, quiet
    <3> QED BY <3>1, <3>2, <3>3
  <2>2. ASSUME NEW t \in Tests, testIp(t) \/ TestStart(t)
        PROVE  <1>1
    <3>1. [Task("clearError") EXCEPT !.test = t] \in TaskRecords
      BY TasksTyped DEF Kinds
    <3>2. budget'["failure"] = budget["failure"]
      BY <2>2 DEF testIp, TestStart, Spend, TypeOK, Events
    <3> QED BY <2>2, <3>1, <3>2 DEF testIp, TestStart, Enqueue
  <2>3. CASE Command
    <3>1. PICK kind \in Kinds, key \in Keys \cup {None}, x \in Lists : Message(kind, key, x)
      BY <2>3, BrowserAssumption DEF Command, Kinds
    <3>2. [Task(kind) EXCEPT !.key = key, !.exclusions = x] \in TaskRecords
      BY TasksTyped
    <3>3. budget'["failure"] = budget["failure"]
      BY <3>1 DEF Message, Spend, TypeOK, Events
    <3> QED BY <3>1, <3>2, <3>3 DEF Message, Enqueue
  <2>4. ASSUME NEW e \in {"fatal", "direct"}, ProxyError(e)
        PROVE  <1>1
    <3>1. [Task("proxyError") EXCEPT !.error = e] \in TaskRecords
      BY TasksTyped DEF Kinds, Errors
    <3>2. budget'["failure"] = budget["failure"]
      BY <2>4 DEF ProxyError, Spend, TypeOK, Events
    <3> QED BY <2>4, <3>1, <3>2 DEF ProxyError, Enqueue
  <2> QED BY <2>1, <2>2, <2>3, <2>4
<1>2. \A k : Queued(k) => Queued(k)'
  <2>1. CASE queue' = queue
    BY <1>1, <2>1 DEF Queued
  <2>2. ASSUME NEW task \in TaskRecords, queue' = Append(queue, task)
        PROVE  <1>2
    BY <1>1, <2>2, AppendProperties, LenProperties DEF Queued, TypeOK
  <2> QED BY <1>1, <2>1, <2>2
<1>3. /\ KeepsProxy' <=> KeepsProxy
      /\ KeepsRtc' <=> KeepsRtc
      /\ PacDiffers' <=> PacDiffers
      /\ Exposed' <=> Exposed
      /\ Conflicting' <=> Conflicting
  BY <1>1, RestrictedAlike
  DEF KeepsProxy, KeepsRtc, PacDiffers, Exposed, Conflicting, prefs, flags
<1>4. Pending => Pending'
  BY <1>1, <1>2, <1>3 DEF Pending, At, prefs
<1> QED BY <1>1, <1>4 DEF RestInv, Unfailed, DataIsStored

\* A notice that is delivered becomes a task, or waits for boot.
LEMMA ChangeRests ==
  ASSUME TypeOK, KeyInv, RestInv, NEW s \in Settings, onChange(s)
  PROVE  RestInv'
<1> DEFINE task == ChangeTask(s)
<1>1. /\ UNCHANGED <<storage, proxyPref, rtcPref, taken, pc, loc, flags, awake, budget>>
      /\ awake /\ notices' = notices \ {s}
      /\ \/ queue' = Append(queue, task) /\ waiting' = waiting
         \/ waiting' = Append(waiting, task) /\ queue' = queue /\ pc["boot"] # "done"
  BY DEF onChange, Enqueue, booted
<1>2. task \in TaskRecords
  BY TasksTyped DEF ChangeTask, Kinds
<1>3. task.kind = IF s = "proxy" THEN "proxyChange" ELSE "rtcChange"
  BY DEF ChangeTask, Task
<1> HIDE DEF task
<1>4. \A k : Queued(k) \/ task.kind = k => Queued(k)'
  <2>1. Len(queue) \in Nat /\ Len(waiting) \in Nat
    BY LenProperties DEF TypeOK
  <2>2. CASE queue' = Append(queue, task) /\ waiting' = waiting
    BY <1>2, <2>1, <2>2, AppendProperties DEF Queued, TypeOK
  <2>3. CASE waiting' = Append(waiting, task) /\ queue' = queue
    BY <1>2, <2>1, <2>3, AppendProperties DEF Queued, TypeOK
  <2> QED BY <1>1, <2>2, <2>3
<1>5. /\ KeepsProxy' <=> KeepsProxy
      /\ KeepsRtc' <=> KeepsRtc
      /\ PacDiffers' <=> PacDiffers
      /\ Exposed' <=> Exposed
      /\ Conflicting' <=> Conflicting
  BY <1>1, RestrictedAlike
  DEF KeepsProxy, KeepsRtc, PacDiffers, Exposed, Conflicting, flags
<1>6. Pending => Pending'
  <2>1. "rtc" \in notices => "rtc" \in notices' \/ Queued("rtcChange")'
    BY <1>1, <1>3, <1>4
  <2>2. "proxy" \in notices => "proxy" \in notices' \/ Queued("proxyChange")'
    BY <1>1, <1>3, <1>4 DEF Settings
  <2> QED BY <1>1, <1>4, <1>5, <2>1, <2>2 DEF Pending, At
<1> QED BY <1>1, <1>6 DEF RestInv, Unfailed, DataIsStored

\* Whatever is taken or let go, Chrome is about to report it.
LEMMA TakeoverRests ==
  ASSUME TypeOK, RestInv, NEW s \in Settings, NEW c \in Visible, Takeover(s, c)
  PROVE  RestInv'
<1>1. /\ UNCHANGED <<storage, proxyPref, rtcPref, pc, loc, flags, awake, queue, waiting>>
      /\ budget'["failure"] = budget["failure"]
      /\ notices' = notices \cup {s}
      /\ taken' \subseteq taken \cup {<<s, c>>}
      /\ \A x \in {"regular", "incognito"}, y \in Settings :
           y # s => (<<y, x>> \in taken' <=> <<y, x>> \in taken)
  BY DEF Takeover, Contest, chain, Spend, TypeOK, Events
<1>2. taken' \subseteq Settings \X Visible
  BY <1>1 DEF RestInv
<1>3. /\ KeepsProxy' <=> KeepsProxy
      /\ KeepsRtc' <=> KeepsRtc
      /\ PacDiffers' <=> PacDiffers
  BY <1>1 DEF KeepsProxy, KeepsRtc, PacDiffers
<1>4. Exposed' => Exposed \/ "rtc" \in notices'
  BY <1>1 DEF Exposed, webRTCIsRestrictedInAllEnabledContexts,
     incognitoWebRTCIsRestricted, webRTCIsRestricted, RtcLevel, Settings
<1>5. Conflicting' => Conflicting \/ "proxy" \in notices'
  BY <1>1 DEF Conflicting, flags, Settings
<1>6. Pending => Pending'
  BY <1>1, <1>3, <1>4, <1>5 DEF Pending, At, Queued
<1> QED BY <1>1, <1>2, <1>6 DEF RestInv, Unfailed, DataIsStored

\* A worker that is killed leaves everything to the boot of the next one.
LEMMA RestartRests ==
  ASSUME TypeOK, KeyInv, RestInv, Kill \/ Wake
  PROVE  RestInv'
<1> USE DEF Threads
<1>1. UNCHANGED <<storage, taken>> /\ budget'["failure"] = budget["failure"]
  BY DEF Kill, Wake, Spend, TypeOK, Events
<1>2. CASE Kill
  <2>1. ~awake' /\ \A p \in Threads : pc'[p] = "idle"
    BY <1>2 DEF Kill, Asleep
  <2>2. Pending'
    BY <2>1 DEF Pending
  <2>3. \A p \in Threads : DataIsStored(p)'
    BY <2>1 DEF DataIsStored, Enabling, Rereads
  <2> QED BY <1>1, <2>1, <2>2, <2>3 DEF RestInv
<1>3. CASE Wake
  <2>1. pc'["boot"] = "rc.read" /\ pc'["op"] = pc["op"] /\ loc' = loc
    BY <1>3 DEF Wake, TypeOK
  <2>2. Pending'
    BY <2>1 DEF Pending, At, ClearsProxy, ClearsRtc, Rewrites, Checks, Resolves
  <2>3. \A p \in Threads : DataIsStored(p)'
    BY <1>1, <2>1 DEF RestInv, DataIsStored, Enabling, Rereads
  <2> QED BY <1>1, <2>1, <2>2, <2>3 DEF RestInv
<1> QED BY <1>2, <1>3

\* The invariant holds at the start, and every step preserves it.
LEMMA InitRests == Init => RestInv
<1> SUFFICES ASSUME Init PROVE RestInv
  OBVIOUS
<1>1. ~awake /\ \A p \in Threads : pc[p] = "idle"
  BY DEF Init, NotLoaded, Asleep
<1>2. budget["failure"] <= Budget["failure"]
  <2>1. Budget["failure"] \in Nat
    BY BackgroundAssumption DEF Events
  <2>2. budget = Budget
    BY DEF Init
  <2> QED BY <2>1, <2>2
<1> QED BY <1>1, <1>2
    DEF Init, LeftBehind, NotLoaded, RestInv, Pending, DataIsStored, Enabling,
        Rereads, Threads

\* Every step of the specification keeps it.
LEMMA NextRests ==
  ASSUME TypeOK, DataIsBound, KeyInv, RestInv, [Next]_vars
  PROVE  RestInv'
<1>1. CASE UNCHANGED vars
  BY <1>1
  DEF vars, threads, beside, prefs, flags, RestInv, Unfailed, DataIsStored, Pending, At,
      Queued, KeepsProxy, KeepsRtc, PacDiffers, Exposed, Conflicting,
      webRTCIsRestrictedInAllEnabledContexts, incognitoWebRTCIsRestricted,
      webRTCIsRestricted, RtcLevel
<1>2. CASE Worker
  BY <1>2, ThreadsRest, ChainRests, BesideRests DEF Worker
<1>3. CASE Environment
  BY <1>3, FailRests, BesideRests, TakeoverRests, RestartRests DEF Environment
<1>4. CASE \E s \in Settings : onChange(s)
  BY <1>4, ChangeRests
<1> QED BY <1>1, <1>2, <1>3, <1>4 DEF Next

\* The inductive invariant.
LEMMA RestInvariant == Spec => [](TypeOK /\ KeyInv /\ RestInv)
<1>1. TypeOK /\ DataIsBound /\ KeyInv /\ [Next]_vars => KeyInv'
  BY NextKeepsKey
<1>2. TypeOK /\ DataIsBound /\ KeyInv /\ RestInv /\ [Next]_vars => RestInv'
  BY NextRests
<1> QED BY InitKey, InitRests, TypeInvariant, <1>1, <1>2, PTL DEF Spec

\* At rest nobody is left to deal with anything.
LEMMA NothingPending ==
  ASSUME TypeOK, KeyInv, RestInv, calm
  PROVE  ~KeepsProxy /\ ~KeepsRtc /\ ~PacDiffers /\ ~Exposed /\ ~Conflicting
<1>1. /\ awake /\ pc["boot"] = "done" /\ pc["op"] = "idle" /\ queue = <<>>
      /\ waiting = <<>> /\ notices = {} /\ Pending
  BY DEF calm, rest, booted, RestInv, Unfailed
<1>2. \A L \in {ClearsProxy, ClearsRtc, Rewrites, Checks, Resolves} : ~At(L)
  BY <1>1 DEF At, Threads, ClearsProxy, ClearsRtc, Rewrites, Checks, Resolves, Enabling
<1>3. \A k : ~Queued(k)
  <2>1. Len(queue) = 0 /\ Len(waiting) = 0
    BY <1>1, EmptySeq
  <2> QED BY <2>1 DEF Queued
<1> QED BY <1>1, <1>2, <1>3 DEF Pending

\* Disconnecting, and every other way the switch goes off, has cleared both of the
\* extension's settings when the worker comes to rest, kills in between included.
THEOREM OffMeansClearedCorrect == Spec => []OffMeansCleared
<1>1. TypeOK /\ KeyInv /\ RestInv => OffMeansCleared
  BY NothingPending DEF OffMeansCleared, KeepsProxy, KeepsRtc
<1> QED BY RestInvariant, <1>1, PTL

\* At rest the PAC that Chrome holds is the one of the stored key and exclusions.
THEOREM RestingProxyIsConfiguredCorrect == Spec => []RestingProxyIsConfigured
<1>1. TypeOK /\ KeyInv /\ RestInv => RestingProxyIsConfigured
  <2> SUFFICES ASSUME TypeOK, KeyInv, RestInv, calm, proxyPref # None
               PROVE  storage.enabled /\ proxyPref = ConfiguredPac(storage)
    BY DEF RestingProxyIsConfigured
  <2>1. storage.enabled /\ proxyPref.exclusions = storage.exclusions
    BY NothingPending, LocalsTyped DEF KeepsProxy, PacDiffers, TypeOK, BrowserTypeOK, StoredData
  <2>2. proxyPref.server = ServerOf[storage.connection]
    BY DEF KeyInv, AppliedServerIsStored
  <2>3. proxyPref \in Pacs
    BY DEF TypeOK, BrowserTypeOK
  <2> QED BY <2>1, <2>2, <2>3 DEF Pacs, ConfiguredPac, buildProxyConfig
<1> QED BY RestInvariant, <1>1, PTL

\* At rest no PAC is installed unless WebRTC is restricted wherever the extension acts.
THEOREM RestingProxyNeedsWebRTCCorrect == Spec => []RestingProxyNeedsWebRTC
<1>1. TypeOK /\ KeyInv /\ RestInv => RestingProxyNeedsWebRTC
  BY NothingPending DEF RestingProxyNeedsWebRTC, Exposed
<1> QED BY RestInvariant, <1>1, PTL

\* At rest a lost incognito route has taken the PAC down, unless the worker still
\* believes to have dealt with it.
THEOREM IncognitoConflictCorrect == Spec => []IncognitoConflictHandled
<1>1. TypeOK /\ KeyInv /\ RestInv => IncognitoConflictHandled
  BY NothingPending DEF IncognitoConflictHandled, IncognitoConflictCleared, Conflicting
<1> QED BY RestInvariant, <1>1, PTL
=============================================================================
