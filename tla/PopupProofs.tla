----------------------------- MODULE PopupProofs -----------------------------
(***************************************************************************)
(* Proofs about the popup in front of the service worker, for every value  *)
(* of the constants: what it shows while its buttons can be pressed is     *)
(* what is stored, and an address it shows is that of the server above it. *)
(*                                                                         *)
(* The stored key and the switch are changed by tasks of commands alone    *)
(* (WorkerEffect).  A popup that found none when it was opened has at most *)
(* one such task in the chain, and it is the one of the message it waits   *)
(* for (OneCommand).  So what it was answered stays true until it sends    *)
(* the next command.                                                       *)
(***************************************************************************)
EXTENDS Popup, BackgroundRequestProofs

WorkerInv == TypeOK /\ DataIsBound /\ KeyInv /\ TestInv

(***************************************************************************)
(* What a step of the worker does to what the popup depends on.            *)
(***************************************************************************)
IsCommand(task) == task.kind \in CommandKinds
QueueKept ==
  \A i \in 1..Len(queue') : IsCommand(queue'[i]) =>
    i \in 1..Len(queue) /\ queue'[i] = queue[i]
NoneWaits == \A i \in 1..Len(waiting) : ~IsCommand(waiting[i])

Stays == /\ ~Started /\ ~Ended /\ ~Killed
         /\ loc'["op"].task.kind = loc["op"].task.kind
         /\ QueueKept
Begins == /\ Started /\ ~Killed
          /\ queue # <<>> /\ queue' = Tail(queue)
          /\ loc'["op"].task = Head(queue)
Stops == /\ ~Started /\ ~IsCommand(loc'["op"].task)
         /\ storage' = storage /\ QueueKept
         /\ Killed => queue' = <<>>
KeyReplacedByCommand ==
  /\ Switched \/ KeyReplaced => IsCommand(loc["op"].task)
  /\ KeyReplaced => \/ loc["op"].task.kind = "forget"
                    \/ loc["op"].task.kind = "importKey" /\ storage'.connection # None
WorkerEffect == KeyReplacedByCommand /\ NoneWaits' /\ (Stays \/ Begins \/ Stops)

\* The chain of exclusive() grows at its end.
LEMMA AppendKeeps ==
  ASSUME NEW S, NEW q \in Seq(S), NEW task \in S, ~IsCommand(task)
  PROVE  \A i \in 1..Len(Append(q, task)) : IsCommand(Append(q, task)[i]) =>
           i \in 1..Len(q) /\ Append(q, task)[i] = q[i]
<1>1. /\ Len(Append(q, task)) = Len(q) + 1 /\ Len(q) \in Nat
      /\ \A i \in 1..Len(q) + 1 :
           Append(q, task)[i] = IF i = Len(q) + 1 THEN task ELSE q[i]
  BY AppendProperties, LenProperties
<1> QED BY <1>1

\* The tasks of events are no commands.
LEMMA EventTasks ==
  /\ \A e \in Errors : LET task == [Task("proxyError") EXCEPT !.error = e] IN
       task \in TaskRecords /\ ~IsCommand(task)
  /\ LET task == [Task("authFailed") EXCEPT !.error = "authFailed"] IN
       task \in TaskRecords /\ ~IsCommand(task)
  /\ \A t \in Tests : LET task == [Task("clearError") EXCEPT !.test = t] IN
       task \in TaskRecords /\ ~IsCommand(task)
  /\ \A s \in Settings : ChangeTask(s) \in TaskRecords /\ ~IsCommand(ChangeTask(s))
<1>1. {"proxyError", "authFailed", "clearError", "proxyChange", "rtcChange"} \subseteq Kinds
  BY DEF Kinds
<1>2. \A e \in Errors : [Task("proxyError") EXCEPT !.error = e] \in TaskRecords
  BY <1>1, TasksTyped, Zenon
<1>3. [Task("authFailed") EXCEPT !.error = "authFailed"] \in TaskRecords
  BY <1>1, TasksTyped DEF Errors
<1>4. \A t \in Tests : [Task("clearError") EXCEPT !.test = t] \in TaskRecords
  BY <1>1, TasksTyped, Zenon
<1>5. \A s \in Settings : ChangeTask(s) \in TaskRecords
  BY ChangeProper
<1>6. /\ \A e : [Task("proxyError") EXCEPT !.error = e].kind = "proxyError"
      /\ [Task("authFailed") EXCEPT !.error = "authFailed"].kind = "authFailed"
      /\ \A t : [Task("clearError") EXCEPT !.test = t].kind = "clearError"
      /\ \A s \in Settings : ChangeTask(s).kind \in {"proxyChange", "rtcChange"}
  BY DEF Task, ChangeTask
<1> QED BY <1>2, <1>3, <1>4, <1>5, <1>6, Zenon DEF IsCommand, CommandKinds

\* boot reconciles, but neither the key nor the switch changes by that.
LEMMA BootKeepsStored ==
  ASSUME TypeOK, AppliedServerIsStored, Boot
  PROVE  ~Switched /\ ~KeyReplaced
<1>1. CASE RcRead("boot")
  <2>1. LET new == [storage EXCEPT !.enabled = @ /\ storage.connection # None] IN
        /\ new.connection = storage.connection
        /\ new.enabled = storage.enabled
    BY Zenon DEF TypeOK, BrowserTypeOK, StoredData, AppliedServerIsStored
  <2> QED BY <1>1, <2>1, Zenon DEF RcRead, Switched, KeyReplaced
<1>2. CASE ~RcRead("boot")
  <2>1. storage' = storage
    BY <1>2
    DEF Boot, updateBadge, BadgeLook, BadgeSet, Remember, reconcileAtStartup, RcRtc,
        RcUnrestricted, RcSetRtc, RcCheckRtc, RcSetProxy, RcCheckProxy, RcCaught, OffProxy,
        OffRtc, RcProxy, RcLast, Look, SetProxy, SetRtc, clearOwnProxySetting,
        clearOwnWebRTCSetting
  <2> QED BY <2>1 DEF Switched, KeyReplaced
<1> QED BY <1>1, <1>2

\* The steps of tasks and of boot.
LEMMA OperationForPopup ==
  ASSUME WorkerInv, NoneWaits, Operation
  PROVE  WorkerEffect
<1> USE DEF WorkerInv
<1>1. UNCHANGED <<queue, waiting, awake>> /\ pc["op"] # "idle" /\ pc'["op"] # "idle"
  <2>1. StepEffect("op") /\ "op" \in Threads
    BY OperationEffect DEF Threads
  <2>2. "idle" \notin StepLabels
    BY DEF StepLabels, Failable, RcTry, CoTry, SaTry, SaRestoreTry, BadgeLabels
  <2> QED BY <2>1, <2>2 DEF StepEffect, Operation, chain, beside
<1>2. /\ ~Started /\ ~Ended /\ ~Killed /\ QueueKept /\ NoneWaits'
  BY <1>1 DEF Started, Ended, Killed, QueueKept, NoneWaits
<1>3. Proper(loc["op"].task) /\ Belongs /\ AppliedServerIsStored
  BY <1>1 DEF TestInv, OpInv, KeyInv
<1>4. CASE clearError("op")
  <2>1. /\ storage'.connection = storage.connection /\ storage'.enabled = storage.enabled
        /\ loc' = loc
    <3>1. LET new == [storage EXCEPT !.proxyError = None] IN
          new.connection = storage.connection /\ new.enabled = storage.enabled
      BY DEF TypeOK, BrowserTypeOK, StoredData
    <3> QED BY <1>4, <3>1, Zenon
      DEF clearError, TeCheck, TeStore, TeChanged, TeDone, Look, Store
  <2> QED BY <1>2, <2>1 DEF WorkerEffect, Stays, KeyReplacedByCommand, Switched, KeyReplaced
<1>5. CASE updateBadge("op")
  <2>1. loc'["op"].task = loc["op"].task /\ storage' = storage
    BY <1>3, <1>5, BadgeStays
  <2> QED BY <1>2, <2>1 DEF WorkerEffect, Stays, KeyReplacedByCommand, Switched, KeyReplaced
<1>6. CASE \/ reconcileAtStartup("op") \/ importKey("op") \/ connect("op")
           \/ disconnect("op") \/ forget("op") \/ saveExclusions("op")
           \/ PeStore("op") \/ onProxySettingChange("op")
  <2>1. TaskStays
    BY <1>3, <1>6, ReconcileStays, ConnectStays, OtherCommandsStay, SaveStays, EventStays
  <2>2. KeyReplacedByCommand
    BY <1>3, <2>1 DEF TaskStays, KeyReplacedByCommand, IsCommand, CommandKinds, Proper
  <2> QED BY <1>2, <2>1, <2>2 DEF TaskStays, WorkerEffect, Stays
<1> QED BY <1>4, <1>5, <1>6 DEF Operation

LEMMA BootForPopup ==
  ASSUME WorkerInv, NoneWaits, Boot \/ BootDone
  PROVE  WorkerEffect
<1> USE DEF WorkerInv
<1>1. CASE Boot
  <2>1. ~Switched /\ ~KeyReplaced
    BY <1>1, BootKeepsStored DEF KeyInv
  <2>2. /\ UNCHANGED <<queue, waiting, awake>>
        /\ pc'["op"] = pc["op"] /\ loc'["op"] = loc["op"]
    BY <1>1, BootEffect DEF StepEffect, Boot, chain, beside, TypeOK, Threads
  <2> QED BY <2>1, <2>2
    DEF WorkerEffect, KeyReplacedByCommand, Stays, QueueKept, NoneWaits, Started, Ended,
        Killed
<1>2. CASE BootDone
  <2>1. /\ queue' = queue \o waiting /\ waiting' = <<>> /\ awake' = awake
        /\ storage' = storage
        /\ pc'["op"] = pc["op"] /\ loc'["op"] = loc["op"]
    BY <1>2 DEF BootDone, Goto, TypeOK, Threads
  <2>2. /\ Len(queue') = Len(queue) + Len(waiting)
        /\ Len(queue) \in Nat /\ Len(waiting) \in Nat
        /\ \A i \in 1..Len(queue') :
             queue'[i] = IF i <= Len(queue) THEN queue[i] ELSE waiting[i - Len(queue)]
    BY <2>1, ConcatProperties, QueueTyped DEF TypeOK
  <2>3. QueueKept
    <3> SUFFICES ASSUME NEW i \in 1..Len(queue'), IsCommand(queue'[i]), i > Len(queue)
                 PROVE  FALSE
      BY <2>2 DEF QueueKept
    <3>1. i - Len(queue) \in 1..Len(waiting)
      BY <2>2
    <3> QED BY <2>2, <3>1 DEF NoneWaits
  <2>4. NoneWaits'
    BY <2>1, EmptySeq DEF NoneWaits
  <2> QED BY <2>1, <2>3, <2>4
    DEF WorkerEffect, KeyReplacedByCommand, Switched, KeyReplaced, Stays, Started, Ended,
        Killed
<1> QED BY <1>1, <1>2

\* exclusive() enters and leaves a task; a rejected call leaves the task what it is.
LEMMA ChainForPopup ==
  ASSUME WorkerInv, NoneWaits, Start \/ Finish \/ \E p \in Threads : Fail(p)
  PROVE  WorkerEffect
<1> USE DEF WorkerInv
<1>0. /\ storage' = storage /\ UNCHANGED <<waiting, awake>>
      /\ ~Switched /\ ~KeyReplaced /\ ~Killed /\ NoneWaits'
  <2>1. CASE Start
    BY <2>1 DEF Start, beside, Switched, KeyReplaced, Killed, NoneWaits
  <2>2. CASE Finish
    BY <2>2 DEF Finish, beside, Switched, KeyReplaced, Killed, NoneWaits
  <2>3. ASSUME NEW p \in Threads, Fail(p)
        PROVE  /\ storage' = storage /\ UNCHANGED <<waiting, awake>>
               /\ ~Switched /\ ~KeyReplaced /\ ~Killed /\ NoneWaits'
    BY <2>3 DEF Fail, Switched, KeyReplaced, Killed, NoneWaits
  <2> QED BY <2>1, <2>2, <2>3
<1>1. CASE Start
  <2>1. Entry(Head(queue).kind) # "idle"
    BY DEF Entry
  <2>2. /\ queue # <<>> /\ queue' = Tail(queue)
        /\ pc["op"] = "idle" /\ pc'["op"] # "idle"
        /\ loc'["op"].task = Head(queue)
    BY <1>1, <2>1 DEF Start, Goto, Locals, TypeOK, Threads
  <2> QED BY <1>0, <2>2 DEF WorkerEffect, KeyReplacedByCommand, Begins, Started
<1>2. CASE Finish
  <2>1. pc["op"] = "end" /\ loc'["op"] = NoLocals /\ queue' = queue
    BY <1>2 DEF Finish, Goto, TypeOK, Threads
  <2>2. NoLocals.task.kind = "boot"
    BY DEF NoLocals, Locals, Task
  <2> QED BY <1>0, <2>1, <2>2
    DEF WorkerEffect, KeyReplacedByCommand, Stops, Started, QueueKept, IsCommand, CommandKinds
<1>3. ASSUME NEW p \in Threads, Fail(p) PROVE WorkerEffect
  <2>1. queue' = queue
    BY <1>3 DEF Fail, chain
  <2>2. CASE p = "boot"
    <3>1. pc'["op"] = pc["op"] /\ loc'["op"] = loc["op"]
      BY <1>3, <2>2 DEF Fail, TypeOK, Threads
    <3> QED BY <1>0, <2>1, <3>1
      DEF WorkerEffect, KeyReplacedByCommand, Stays, Started, Ended, QueueKept
  <2>3. CASE p = "op"
    <3>1. pc["op"] \notin {"idle", "end"}
      BY <1>3, <2>3
      DEF Fail, Failable, RcTry, CoTry, SaTry, SaRestoreTry, BadgeLabels
    <3>2. pc'["op"] = Rescue("op")
      BY <1>3, <2>3 DEF Fail, TypeOK, Threads
    <3>3. Rescue("op") \notin {"idle", "boot.clear"}
      BY <3>1 DEF Rescue, TestInv, OpInv, Proper
    <3>4. loc'["op"].task.kind = loc["op"].task.kind
      <4>1. loc["op"] \in LocalRecords /\ loc["op"].task \in TaskRecords
        BY LocalsTyped, OpTyped
      <4> QED BY <1>3, <2>3, <3>3, <4>1, OpTyped DEF Fail, LocalRecords, TaskRecords, TypeOK
    <3> QED BY <1>0, <2>1, <3>1, <3>2, <3>3, <3>4
      DEF WorkerEffect, KeyReplacedByCommand, Stays, Started, Ended, QueueKept
  <2> QED BY <2>2, <2>3 DEF Threads
<1> QED BY <1>1, <1>2, <1>3

\* Events put tasks of their own into the chain; checks and challenges as well.
LEMMA QuietForPopup ==
  ASSUME NoneWaits,
         UNCHANGED <<storage, waiting, awake, pc, loc>>,
         QueueKept
  PROVE  WorkerEffect
BY DEF WorkerEffect, KeyReplacedByCommand, Switched, KeyReplaced, Stays, Started, Ended,
       Killed, NoneWaits

LEMMA QueueGrows ==
  ASSUME TypeOK, NEW task \in TaskRecords, ~IsCommand(task), queue' = Append(queue, task)
  PROVE  QueueKept
<1>1. queue \in Seq(TaskRecords)
  BY QueueTyped DEF TypeOK
<1> QED BY <1>1, AppendKeeps DEF QueueKept

LEMMA WorldForPopup ==
  ASSUME WorkerInv, NoneWaits,
         \/ \E r \in Requests : onAuthRequired(r)
         \/ \E t \in Tests : testIp(t)
         \/ \E setting \in Settings : onChange(setting)
         \/ \E e \in {"fatal", "direct"} : ProxyError(e)
         \/ \E setting \in Settings, c \in Visible : Takeover(setting, c)
  PROVE  WorkerEffect
<1> USE DEF WorkerInv
<1>1. ASSUME NEW r \in Requests, onAuthRequired(r) PROVE WorkerEffect
  <2>1. UNCHANGED <<storage, waiting, awake, pc, loc>>
    BY <1>1
    DEF onAuthRequired, AuthRead, AuthSettings, AuthTabGone, AuthCancel, AuthRejected,
        AuthGrant, Answer, AuthStep
  <2>2. QueueKept
    <3>1. CASE queue' = queue
      BY <3>1 DEF QueueKept
    <3>2. CASE AuthRejected(r)
      BY <3>2, EventTasks, QueueGrows DEF AuthRejected, Enqueue
    <3> QED BY <1>1, <3>1, <3>2
      DEF onAuthRequired, AuthRead, AuthSettings, AuthTabGone, AuthCancel, AuthGrant, quiet
  <2> QED BY <2>1, <2>2, QuietForPopup
<1>2. ASSUME NEW t \in Tests, testIp(t) PROVE WorkerEffect
  <2>1. UNCHANGED <<storage, waiting, awake, pc, loc>>
    BY <1>2 DEF testIp, threads, beside
  <2>2. QueueKept
    <3>1. CASE queue' = queue
      BY <3>1 DEF QueueKept
    <3>2. CASE Enqueue([Task("clearError") EXCEPT !.test = t])
      BY <3>2, EventTasks, QueueGrows DEF Enqueue
    <3> QED BY <1>2, <3>1, <3>2 DEF testIp
  <2> QED BY <2>1, <2>2, QuietForPopup
<1>3. ASSUME NEW setting \in Settings, onChange(setting) PROVE WorkerEffect
  <2>1. UNCHANGED <<storage, awake, pc, loc>>
    BY <1>3 DEF onChange
  <2>2. ChangeTask(setting) \in TaskRecords /\ ~IsCommand(ChangeTask(setting))
    BY EventTasks
  <2>3. CASE booted
    <3>1. QueueKept /\ waiting' = waiting
      BY <1>3, <2>2, <2>3, QueueGrows DEF onChange, Enqueue
    <3> QED BY <2>1, <3>1, QuietForPopup
  <2>4. CASE ~booted
    <3>1. queue' = queue /\ waiting' = Append(waiting, ChangeTask(setting))
      BY <1>3, <2>4 DEF onChange
    <3>2. NoneWaits'
      <4>1. waiting \in Seq(TaskRecords)
        BY QueueTyped DEF TypeOK
      <4> QED BY <2>2, <3>1, <4>1, AppendKeeps DEF NoneWaits
    <3> QED BY <2>1, <3>1, <3>2
      DEF WorkerEffect, KeyReplacedByCommand, Switched, KeyReplaced, Stays, Started, Ended,
          Killed, QueueKept
  <2> QED BY <2>3, <2>4
<1>4. ASSUME NEW e \in {"fatal", "direct"}, ProxyError(e) PROVE WorkerEffect
  <2>1. UNCHANGED <<storage, waiting, awake, pc, loc>>
    BY <1>4 DEF ProxyError
  <2>2. QueueKept
    BY <1>4, EventTasks, QueueGrows DEF ProxyError, Enqueue, Errors
  <2> QED BY <2>1, <2>2, QuietForPopup
<1>5. ASSUME NEW setting \in Settings, NEW c \in Visible, Takeover(setting, c)
      PROVE  WorkerEffect
  BY <1>5, QuietForPopup DEF Takeover, Contest, chain, QueueKept
<1> QED BY <1>1, <1>2, <1>3, <1>4, <1>5

LEMMA LifeForPopup ==
  ASSUME WorkerInv, NoneWaits, Kill \/ Wake
  PROVE  WorkerEffect
<1> USE DEF WorkerInv
<1>1. CASE Kill
  <2>1. /\ storage' = storage /\ queue' = <<>> /\ waiting' = <<>>
        /\ pc'["op"] = "idle" /\ loc'["op"] = NoLocals
    BY <1>1 DEF Kill, Asleep, Threads
  <2>2. NoLocals.task.kind = "boot"
    BY DEF NoLocals, Locals, Task
  <2>3. NoneWaits' /\ QueueKept
    BY <2>1, EmptySeq DEF NoneWaits, QueueKept
  <2> QED BY <2>1, <2>2, <2>3
    DEF WorkerEffect, KeyReplacedByCommand, Switched, KeyReplaced, Stops, Started,
        IsCommand, CommandKinds
<1>2. CASE Wake
  <2>1. /\ UNCHANGED <<storage, waiting, queue, loc>> /\ ~Killed
        /\ pc'["op"] = pc["op"]
    BY <1>2 DEF Wake, chain, Killed, TypeOK, Threads
  <2> QED BY <2>1
    DEF WorkerEffect, KeyReplacedByCommand, Switched, KeyReplaced, Stays, Started, Ended,
        QueueKept, NoneWaits
<1> QED BY <1>1, <1>2

LEMMA ElsewhereForPopup ==
  ASSUME WorkerInv, NoneWaits, Elsewhere
  PROVE  WorkerEffect
BY OperationForPopup, BootForPopup, ChainForPopup, WorldForPopup, LifeForPopup
DEF Elsewhere, Worker

(***************************************************************************)
(* What the popup relies on.                                               *)
(***************************************************************************)
\* a message says no more than its command needs
Sensible ==
  /\ asked.kind \in CommandKinds => asked.kind \in Commands
  /\ asked.key # None <=> asked.kind = "importKey"
  /\ asked.exclusions # NoExclusions => asked.kind = "saveExclusions"
\* what the popup waits for, and where its message can be meanwhile
Phase ==
  /\ stage = "closed" => message \in {"none", "sent"} /\ view = NoAnswer /\ ip = None
  /\ stage = "free" => message = "none"
  /\ stage = "command" => asked.kind \in CommandKinds /\ view # NoAnswer
  /\ stage = "test" => asked.kind = "TEST_IP" /\ view # NoAnswer /\ view.connection # None
  /\ stage \in {"opening", "tested", "refresh"} =>
       asked.kind = "GET_STATE" /\ message \in {"sent", "answered"}
  /\ message = "taken" /\ asked.kind = "TEST_IP" => asked.test \in Tests
  /\ message = "answered" /\ ok => answer \in IF stage = "test" THEN [ip : Keys] ELSE Views
\* the only command in the worker is ours
OnlyOurs ==
  /\ \A i \in 1..Len(queue) : IsCommand(queue[i]) =>
       message = "taken" /\ asked.kind = queue[i].kind /\ turn = i
  /\ IsCommand(loc["op"].task) =>
       message = "taken" /\ asked.kind = loc["op"].task.kind /\ turn = 0
OneCommand == NoneWaits /\ (stage # "closed" /\ ~orphaned => OnlyOurs)
\* what was answered, and what is shown of it
Sound(v) == v.state \in {"active", "retry"} => v.connection # None
Agrees(v) == v.connection = storage.connection /\ v.enabled = storage.enabled
Answered == message = "answered" /\ ok /\ stage # "test"
Viewed ==
  /\ view # NoAnswer => Sound(view)
  /\ Answered => Sound(answer)
  /\ ~orphaned =>
     /\ Answered => Agrees(answer)
     /\ stage = "free" /\ view # NoAnswer /\ "view" \notin unheard => Agrees(view)
\* an address on the screen is that of the stored key, but for a replacement
Addressed ==
  /\ stage = "command" /\ ClearsIp(asked.kind) => ip = None
  /\ ~orphaned =>
     /\ stage = "test" /\ message = "answered" /\ ok => answer.ip = storage.connection
     /\ ip # None => view # NoAnswer /\ view.connection # None /\ storage.connection # None
     /\ ip # None /\ "ip" \notin unheard /\ ~(stage = "command" /\ Replaces) =>
          storage.connection = ip
PopupInv == Sensible /\ Phase /\ OneCommand /\ Viewed /\ Addressed

\* Answers of different kinds are different.
LEMMA AnswersDiffer ==
  /\ \A v \in Views : v # NoAnswer /\ v # Rejected
  /\ \A a \in [ip : Keys] : a # Rejected
  /\ NoAnswer # Rejected
BY DEF Views, NoAnswer, Rejected

LEMMA MessageTyped ==
  ASSUME NEW kind \in CommandKinds \cup {"TEST_IP"}, NEW key \in Keys \cup {None},
         NEW list \in Lists,
         asked' = [GetState EXCEPT !.kind = kind, !.key = key, !.exclusions = list]
  PROVE  /\ asked' \in Messages
         /\ asked'.kind = kind /\ asked'.key = key /\ asked'.exclusions = list
BY DEF Messages, GetState

LEMMA GetStateTyped == GetState \in Messages
BY BrowserAssumption DEF Messages, GetState

LEMMA StatusSound == Sound(StatusView)
BY DEF Sound, StatusView, status

LEMMA UserKeeps ==
  ASSUME TypeOK, PopupTypeOK, PopupInv, User
  PROVE  PopupTypeOK' /\ PopupInv'
<1> USE DEF PopupInv
<1>0. UNCHANGED <<storage, queue, waiting, loc>>
  <2>1. UNCHANGED vars
    <3>1. CASE Open
      BY <3>1 DEF Open
    <3>2. CASE Close
      BY <3>2 DEF Close
    <3>3. CASE ClickSomething
      BY <3>3 DEF ClickSomething, Click
    <3>4. CASE ClickTest
      BY <3>4 DEF ClickTest
    <3> QED BY <3>1, <3>2, <3>3, <3>4 DEF User
  <2> QED BY <2>1 DEF vars, threads, beside
<1>1. CASE Open
  <2>1. /\ stage = "closed" /\ stage' = "opening" /\ message' = "sent" /\ asked' = GetState
        /\ UNCHANGED <<answer, turn, thrown, view, ip, unheard>>
        /\ view = NoAnswer /\ ip = None
    BY <1>1 DEF Open, Send, Phase
  <2>2. /\ orphaned' \in BOOLEAN
        /\ ~orphaned' => /\ \A i \in 1..Len(queue) : ~IsCommand(queue[i])
                         /\ ~IsCommand(loc["op"].task)
    BY <1>1 DEF Open, IsCommand
  <2>3. PopupTypeOK'
    BY <2>1, <2>2, GetStateTyped DEF PopupTypeOK, Stages
  <2>4. Sensible' /\ Phase'
    BY <2>1 DEF Sensible, Phase, GetState, CommandKinds
  <2>5. OneCommand'
    BY <1>0, <2>2 DEF OneCommand, OnlyOurs, NoneWaits
  <2>6. Viewed' /\ Addressed'
    BY <2>1 DEF Viewed, Addressed, Answered
  <2> QED BY <2>3, <2>4, <2>5, <2>6
<1>2. CASE Close
  <2>1. /\ stage' = "closed" /\ view' = NoAnswer /\ ip' = None /\ answer' = NoAnswer
        /\ orphaned' = FALSE /\ unheard' = {} /\ turn' = 0 /\ thrown' = FALSE
        /\ message' \in {"none", "sent"}
        /\ asked' \in {asked, GetState}
    BY <1>2 DEF Close, Shut
  <2>2. PopupTypeOK'
    BY <2>1, GetStateTyped DEF PopupTypeOK, Stages
  <2>3. Sensible'
    BY <2>1 DEF Sensible, GetState, CommandKinds
  <2>4. Phase'
    BY <2>1 DEF Phase
  <2>5. OneCommand'
    BY <1>0, <2>1 DEF OneCommand, NoneWaits
  <2>6. Viewed' /\ Addressed'
    BY <2>1 DEF Viewed, Addressed, Answered
  <2> QED BY <2>2, <2>3, <2>4, <2>5, <2>6
<1>3. CASE ClickSomething
  <2>1. PICK kind \in Commands, key \in Keys \cup {None}, list \in Lists :
          /\ key # None <=> kind = "importKey"
          /\ list # NoExclusions => kind = "saveExclusions"
          /\ Click(kind, key, list)
    BY <1>3 DEF ClickSomething
  <2>2. /\ stage = "free" /\ view # NoAnswer
        /\ stage' = "command" /\ message' = "sent"
        /\ ip' = IF ClearsIp(kind) THEN None ELSE ip
        /\ unheard' \subseteq unheard
        /\ ip' # None => unheard' = unheard
        /\ UNCHANGED <<answer, turn, thrown, view, orphaned>>
    BY <2>1 DEF Click, Send
  <2>3. asked' \in Messages /\ asked'.kind = kind /\ asked'.key = key
        /\ asked'.exclusions = list /\ kind \in CommandKinds
    <3>1. asked' = [GetState EXCEPT !.kind = kind, !.key = key, !.exclusions = list]
      BY <2>1 DEF Click, Send
    <3>2. kind \in CommandKinds
      BY PopupAssumption
    <3>3. key \in Keys \cup {None} /\ list \in Lists
      BY <2>1
    <3>4. kind \in CommandKinds \cup {"TEST_IP"}
      BY <3>2
    <3> QED BY <3>1, <3>2, <3>3, <3>4, MessageTyped
  <2>4. PopupTypeOK'
    BY <2>2, <2>3 DEF PopupTypeOK, Stages
  <2>5. Sensible'
    BY <2>1, <2>3 DEF Sensible
  <2>6. Phase'
    BY <2>2, <2>3 DEF Phase, CommandKinds
  <2>7. OneCommand'
    BY <1>0, <2>2 DEF OneCommand, OnlyOurs, NoneWaits, Phase
  <2>8. Viewed'
    BY <2>2 DEF Viewed, Answered, Sound
  <2>9. Addressed'
    BY <1>0, <2>2, <2>3 DEF Addressed
  <2> QED BY <2>4, <2>5, <2>6, <2>7, <2>8, <2>9
<1>4. CASE ClickTest
  <2>1. /\ stage = "free" /\ view # NoAnswer /\ view.state \in {"active", "retry"}
        /\ stage' = "test" /\ message' = "sent"
        /\ UNCHANGED <<answer, turn, thrown, view, ip, orphaned, unheard>>
    BY <1>4 DEF ClickTest, Send, shown
  <2>2. /\ asked' \in Messages /\ asked'.kind = "TEST_IP"
        /\ asked'.key = None /\ asked'.exclusions = NoExclusions
    BY <1>4, BrowserAssumption DEF ClickTest, Send, GetState, Messages
  <2>3. PopupTypeOK'
    BY <2>1, <2>2 DEF PopupTypeOK, Stages
  <2>4. Sensible'
    BY <2>2 DEF Sensible, CommandKinds
  <2>5. Phase'
    BY <2>1, <2>2 DEF Phase, Viewed, Sound
  <2>6. OneCommand'
    BY <1>0, <2>1 DEF OneCommand, OnlyOurs, NoneWaits, Phase
  <2>7. Viewed'
    BY <2>1 DEF Viewed, Answered, Sound
  <2>8. Addressed'
    BY <1>0, <2>1 DEF Addressed
  <2> QED BY <2>3, <2>4, <2>5, <2>6, <2>7, <2>8
<1> QED BY <1>1, <1>2, <1>3, <1>4 DEF User

\* The worker takes the message: a command enters the end of the chain.
LEMMA DeliverKeeps ==
  ASSUME TypeOK, PopupTypeOK, PopupInv, Deliver
  PROVE  PopupTypeOK' /\ PopupInv'
<1> USE DEF PopupInv
<1>1. CASE TakeCommand
  <2>1. /\ message = "sent" /\ asked.kind \in CommandKinds
        /\ message' = IF stage = "closed" THEN "none" ELSE "taken"
        /\ asked' = IF stage = "closed" THEN GetState ELSE asked
        /\ turn' = IF stage = "closed" THEN 0 ELSE Len(queue')
        /\ UNCHANGED <<stage, answer, thrown, view, ip, orphaned, unheard>>
    BY <1>1 DEF TakeCommand, Taken, Remembered, shown
  <2>2. /\ UNCHANGED <<storage, waiting, loc>>
        /\ \E task \in TaskRecords : task.kind = asked.kind /\ queue' = Append(queue, task)
    <3>1. /\ Message(asked.kind, asked.key, asked.exclusions)
          /\ asked.key \in Keys \cup {None} /\ asked.exclusions \in Lists
      BY <1>1 DEF TakeCommand, PopupTypeOK, Messages
    <3>2. asked.kind \in Kinds
      BY <2>1 DEF CommandKinds, Kinds
    <3> DEFINE task == [Task(asked.kind) EXCEPT !.key = asked.key,
                                                !.exclusions = asked.exclusions]
    <3>3. task \in TaskRecords /\ task.kind = asked.kind
      BY <3>1, <3>2 DEF Task, TaskRecords
    <3>4. queue' = Append(queue, task) /\ UNCHANGED <<storage, waiting, loc>>
      BY <3>1 DEF Message, Enqueue, threads
    <3> QED BY <3>3, <3>4
  <2>3. PICK task \in TaskRecords : task.kind = asked.kind /\ queue' = Append(queue, task)
    BY <2>2
  <2>4. /\ Len(queue) \in Nat /\ Len(queue') = Len(queue) + 1
        /\ \A i \in 1..Len(queue') : queue'[i] = IF i = Len(queue') THEN task ELSE queue[i]
    BY <2>3, AppendProperties, LenProperties, QueueTyped DEF TypeOK
  <2>5. PopupTypeOK'
    BY <2>1, <2>4, GetStateTyped DEF PopupTypeOK
  <2>6. Sensible'
    BY <2>1 DEF Sensible, GetState, CommandKinds
  <2>7. Phase'
    BY <2>1 DEF Phase, CommandKinds
  <2>8. OneCommand'
    <3>1. NoneWaits'
      BY <2>2 DEF OneCommand, NoneWaits
    <3>2. ASSUME stage # "closed", ~orphaned PROVE OnlyOurs'
      <4>1. /\ \A i \in 1..Len(queue) : ~IsCommand(queue[i])
            /\ ~IsCommand(loc["op"].task)
        BY <2>1, <3>2 DEF OneCommand, OnlyOurs
      <4>2. message' = "taken" /\ asked' = asked /\ turn' = Len(queue') /\ loc' = loc
        BY <2>1, <2>2, <3>2
      <4>3. ASSUME NEW i \in 1..Len(queue'), IsCommand(queue'[i])
            PROVE  i = Len(queue') /\ queue'[i].kind = asked.kind
        BY <2>3, <2>4, <4>1, <4>3
      <4> QED BY <4>1, <4>2, <4>3 DEF OnlyOurs
    <3> QED BY <2>1, <3>1, <3>2 DEF OneCommand
  <2>9. Viewed'
    BY <2>1, <2>2 DEF Viewed, Answered, Phase, Sound
  <2>10. Addressed'
    BY <2>1, <2>2 DEF Addressed, Phase, Replaces
  <2> QED BY <2>5, <2>6, <2>7, <2>8, <2>9, <2>10
<1>2. CASE TakeTest
  <2>1. PICK t \in Tests : TestStart(t) /\ Remembered([asked EXCEPT !.test = t])
    BY <1>2 DEF TakeTest
  <2>2. /\ message = "sent" /\ asked.kind = "TEST_IP"
        /\ message' = IF stage = "closed" THEN "none" ELSE "taken"
        /\ UNCHANGED <<stage, answer, turn, thrown, view, ip, orphaned, unheard>>
    BY <1>2 DEF TakeTest, Taken, shown
  <2>3. UNCHANGED <<storage, queue, waiting, loc>>
    BY <2>1 DEF TestStart, threads
  <2>4. /\ asked' \in Messages
        /\ stage = "closed" => asked' = GetState
        /\ stage # "closed" => /\ asked'.kind = "TEST_IP" /\ asked'.test = t
                              /\ asked'.key = asked.key
                              /\ asked'.exclusions = asked.exclusions
    BY <2>1, <2>2, GetStateTyped DEF Remembered, PopupTypeOK, Messages
  <2>5. PopupTypeOK'
    BY <2>2, <2>4 DEF PopupTypeOK
  <2>6. Sensible'
    BY <2>2, <2>4 DEF Sensible, GetState, CommandKinds
  <2>7. Phase'
    BY <2>2, <2>4 DEF Phase, CommandKinds
  <2>8. OneCommand'
    BY <2>2, <2>3, <2>4 DEF OneCommand, OnlyOurs, NoneWaits
  <2>9. Viewed'
    BY <2>2, <2>3 DEF Viewed, Answered, Phase, Sound
  <2>10. Addressed'
    BY <2>2, <2>3, <2>4 DEF Addressed, Phase, CommandKinds
  <2> QED BY <2>5, <2>6, <2>7, <2>8, <2>9, <2>10
<1>3. CASE TakeGetState
  <2>1. /\ message = "sent" /\ asked.kind = "GET_STATE"
        /\ UNCHANGED <<stage, asked, turn, thrown, view, ip, orphaned, unheard>>
        /\ IF stage = "closed" THEN message' = "none" /\ answer' = answer
           ELSE message' = "answered" /\ answer' \in {StatusView, Rejected}
        /\ UNCHANGED <<storage, queue, waiting, loc>>
    BY <1>3 DEF TakeGetState, shown, vars, threads, beside
  <2>2. StatusView \in Views
    BY StatusTyped DEF StatusView, Views, TypeOK, BrowserTypeOK, StoredData
  <2>3. PopupTypeOK'
    BY <2>1, <2>2 DEF PopupTypeOK
  <2>4. Sensible'
    BY <2>1 DEF Sensible
  <2>5. Phase'
    BY <2>1, <2>2 DEF Phase, ok, CommandKinds
  <2>6. OneCommand'
    BY <2>1 DEF OneCommand, OnlyOurs, NoneWaits
  <2>7. Viewed'
    <3>1. StatusView.connection = storage.connection /\ StatusView.enabled = storage.enabled
      BY DEF StatusView
    <3>2. ok' /\ stage # "closed" => answer' = StatusView
      BY <2>1 DEF ok
    <3>3. stage # "free" /\ (stage = "closed" => message' = "none")
      BY <2>1 DEF Phase
    <3>4. Answered' => answer' = StatusView
      BY <2>1, <3>2, <3>3 DEF Answered
    <3> QED BY <2>1, <3>1, <3>3, <3>4, StatusSound DEF Viewed, Sound, Agrees
  <2>8. Addressed'
    BY <2>1 DEF Addressed, Phase, Replaces, CommandKinds
  <2> QED BY <2>3, <2>4, <2>5, <2>6, <2>7, <2>8
<1> QED BY <1>1, <1>2, <1>3 DEF Deliver

\* The answer reaches run(): at that moment the worker has no command left.
LEMMA HearKeeps ==
  ASSUME TypeOK, PopupTypeOK, PopupInv, Hear
  PROVE  PopupTypeOK' /\ PopupInv'
<1> USE DEF PopupInv
<1>0. /\ UNCHANGED <<storage, queue, waiting, loc>>
      /\ message = "answered" /\ asked' = GetState /\ answer' = NoAnswer /\ turn' = 0
      /\ UNCHANGED <<thrown, orphaned>>
  <2>1. UNCHANGED vars
    BY DEF Hear, CommandDone, TestDone, ViewRead, RunFails, RefreshFails, Heard
  <2>2. /\ message = "answered" /\ asked' = GetState /\ answer' = NoAnswer /\ turn' = 0
        /\ UNCHANGED <<thrown, orphaned>>
    BY DEF Hear, CommandDone, TestDone, ViewRead, RunFails, RefreshFails, Heard, Send
  <2> QED BY <2>1, <2>2 DEF vars, threads, beside
<1>1. \/ stage' = "free" /\ message' = "none"
      \/ stage' \in {"tested", "refresh"} /\ message' = "sent"
  BY DEF Hear, CommandDone, TestDone, ViewRead, RunFails, RefreshFails, Heard, Send
<1>2. OneCommand'
  BY <1>0 DEF OneCommand, OnlyOurs, NoneWaits, Phase
<1>3. Sensible' /\ Phase'
  BY <1>0, <1>1 DEF Sensible, Phase, GetState, CommandKinds
<1>4. CASE CommandDone
  <2>1. /\ stage = "command" /\ ok /\ stage' = "free" /\ view' = answer
        /\ ip' = IF Replaces THEN None ELSE ip
        /\ unheard' = unheard \ (IF Replaces THEN {"view", "ip"} ELSE {"view"})
    BY <1>4 DEF CommandDone, Heard
  <2>2. answer \in Views /\ Answered
    BY <1>0, <2>1 DEF Phase, Answered
  <2>3. PopupTypeOK'
    BY <1>0, <1>1, <2>1, <2>2, GetStateTyped DEF PopupTypeOK, Stages
  <2>4. Viewed'
    BY <1>0, <1>1, <2>1, <2>2 DEF Viewed, Answered, Sound, Agrees
  <2>5. Addressed'
    BY <1>0, <2>1, <2>2, AnswersDiffer DEF Addressed, Viewed, Agrees
  <2> QED BY <1>2, <1>3, <2>3, <2>4, <2>5
<1>5. CASE TestDone
  <2>1. /\ stage = "test" /\ ok /\ stage' = "tested" /\ view' = view
        /\ ip' = answer.ip /\ unheard' = unheard \ {"ip"}
    BY <1>5 DEF TestDone, Heard, Send
  <2>2. answer \in [ip : Keys] /\ view # NoAnswer /\ view.connection # None
    BY <1>0, <2>1 DEF Phase
  <2>3. ip' \in Keys /\ ip' # None
    BY <2>1, <2>2, BrowserAssumption
  <2>4. PopupTypeOK'
    BY <1>0, <1>1, <2>1, <2>3, GetStateTyped DEF PopupTypeOK, Stages
  <2>5. Viewed'
    BY <1>0, <1>1, <2>1 DEF Viewed, Answered, Sound
  <2>6. Addressed'
    BY <1>0, <1>1, <2>1, <2>2, <2>3 DEF Addressed
  <2> QED BY <1>2, <1>3, <2>4, <2>5, <2>6
<1>6. CASE ViewRead
  <2>1. /\ stage \in {"opening", "tested", "refresh"} /\ ok /\ stage' = "free"
        /\ view' = answer /\ unheard' = unheard \ {"view"} /\ ip' = ip
    BY <1>6 DEF ViewRead, Heard
  <2>2. answer \in Views /\ Answered
    BY <1>0, <2>1 DEF Phase, Answered
  <2>3. PopupTypeOK'
    BY <1>0, <1>1, <2>1, <2>2, GetStateTyped DEF PopupTypeOK, Stages
  <2>4. Viewed'
    BY <1>0, <1>1, <2>1, <2>2 DEF Viewed, Answered, Sound, Agrees
  <2>5. Addressed'
    BY <1>0, <2>1, <2>2, AnswersDiffer DEF Addressed, Viewed, Agrees
  <2> QED BY <1>2, <1>3, <2>3, <2>4, <2>5
<1>7. CASE RunFails
  <2>1. /\ stage' = "refresh" /\ message' = "sent" /\ view' = view /\ ip' = ip
        /\ unheard' = IF stage = "command" /\ Replaces THEN unheard \cup {"ip"} ELSE unheard
    BY <1>7 DEF RunFails, Heard, Send
  <2>2. PopupTypeOK'
    BY <1>0, <2>1, GetStateTyped DEF PopupTypeOK, Stages
  <2>3. Viewed'
    BY <1>0, <2>1 DEF Viewed, Answered, Sound
  <2>4. Addressed'
    BY <1>0, <2>1 DEF Addressed
  <2> QED BY <1>2, <1>3, <2>2, <2>3, <2>4
<1>8. CASE RefreshFails
  <2>1. /\ stage \in {"opening", "refresh"} /\ stage' = "free"
        /\ view' = view /\ ip' = ip /\ unheard' = unheard \cup {"view"}
    BY <1>8 DEF RefreshFails, Heard
  <2>2. PopupTypeOK'
    BY <1>0, <1>1, <2>1, GetStateTyped DEF PopupTypeOK, Stages
  <2>3. Viewed'
    BY <1>0, <1>1, <2>1 DEF Viewed, Answered, Sound
  <2>4. Addressed'
    BY <1>0, <2>1 DEF Addressed
  <2> QED BY <1>2, <1>3, <2>2, <2>3, <2>4
<1> QED BY <1>4, <1>5, <1>6, <1>7, <1>8 DEF Hear

\* Without a command in it, the worker takes up none and changes neither the key nor
\* the switch.
NoCommand == /\ \A i \in 1..Len(queue) : ~IsCommand(queue[i])
             /\ ~IsCommand(loc["op"].task)
LEMMA TailRemembers ==
  ASSUME TypeOK, queue # <<>>
  PROVE  /\ Len(queue) \in Nat \ {0} /\ Head(queue) = queue[1]
         /\ Len(Tail(queue)) = Len(queue) - 1
         /\ \A i \in 1..Len(Tail(queue)) : Tail(queue)[i] = queue[i + 1]
BY HeadTailProperties, LenProperties, EmptySeq, QueueTyped DEF TypeOK
LEMMA NoCommandStays ==
  ASSUME TypeOK, WorkerEffect, NoCommand
  PROVE  /\ NoCommand'
         /\ storage'.connection = storage.connection /\ storage'.enabled = storage.enabled
<1>1. /\ storage'.connection = storage.connection /\ storage'.enabled = storage.enabled
  BY DEF WorkerEffect, KeyReplacedByCommand, Switched, KeyReplaced, NoCommand
<1>2. CASE Stays
  BY <1>1, <1>2 DEF Stays, NoCommand, QueueKept, IsCommand
<1>3. CASE Begins
  BY <1>1, <1>3, TailRemembers DEF Begins, NoCommand
<1>4. CASE Stops
  BY <1>1, <1>4 DEF Stops, NoCommand, QueueKept
<1> QED BY <1>2, <1>3, <1>4 DEF WorkerEffect

\* While our command is in the worker, `turn` says where.
LEMMA OnlyOursStays ==
  ASSUME TypeOK, WorkerEffect, OnlyOurs, turn \in Nat,
         turn' = IF Started /\ turn > 0 THEN turn - 1 ELSE turn,
         UNCHANGED <<message, asked>>
  PROVE  OnlyOurs'
<1>1. CASE Stays
  BY <1>1 DEF Stays, OnlyOurs, QueueKept, IsCommand
<1>2. CASE Begins
  <2>1. /\ Len(queue) \in Nat \ {0} /\ loc'["op"].task = queue[1]
        /\ Len(queue') = Len(queue) - 1
        /\ \A i \in 1..Len(queue') : queue'[i] = queue[i + 1]
    BY <1>2, TailRemembers DEF Begins
  <2>2. ASSUME IsCommand(loc'["op"].task)
        PROVE  message = "taken" /\ asked.kind = loc'["op"].task.kind /\ turn' = 0
    BY <1>2, <2>1, <2>2 DEF OnlyOurs, Begins
  <2>3. ASSUME NEW i \in 1..Len(queue'), IsCommand(queue'[i])
        PROVE  message = "taken" /\ asked.kind = queue'[i].kind /\ turn' = i
    <3>1. i + 1 \in 1..Len(queue) /\ IsCommand(queue[i + 1])
      BY <2>1, <2>3
    <3>2. message = "taken" /\ asked.kind = queue[i + 1].kind /\ turn = i + 1
      BY <3>1 DEF OnlyOurs
    <3> QED BY <1>2, <2>1, <3>2 DEF Begins
  <2> QED BY <2>2, <2>3 DEF OnlyOurs
<1>3. CASE Stops
  BY <1>3 DEF Stops, OnlyOurs, QueueKept
<1> QED BY <1>1, <1>2, <1>3 DEF WorkerEffect

\* The end of a check that shows an address (see ShownIpCorrect).
LEMMA CheckAnswers ==
  ASSUME WorkerInv, Elsewhere, NEW t \in Tests, test[t].pc # "ok", test'[t].pc = "ok"
  PROVE  /\ test'[t].data.connection = storage.connection /\ storage.connection # None
         /\ storage.connection \in Keys
<1>1. Next
  BY DEF Elsewhere, Next, Environment
<1>2. TestLast(t)
  BY <1>1, ShowIsLast DEF WorkerInv
<1>3. Shows(t)
  BY <1>2 DEF TestLast, TestStep, Shows
<1>4. Observed(t)
  BY <1>1, <1>3, ShownIsObserved DEF WorkerInv
<1>5. test'[t].data = test[t].data
  <2>1. test[t] \in TestRecords /\ test \in [Tests -> TestRecords]
    BY DEF WorkerInv, TypeOK
  <2>2. test'[t] = [test[t] EXCEPT !.pc =
          IF configurationChanging \/ changed(t) THEN "failed" ELSE "ok"]
    BY <1>2, <2>1 DEF TestLast, TestStep
  <2> QED BY <2>1, <2>2 DEF TestRecords
<1> QED BY <1>4, <1>5 DEF Observed, WorkerInv, TypeOK, BrowserTypeOK, StoredData

\* A step of the worker, with what it means for the message.
LEMMA FollowKeeps ==
  ASSUME WorkerInv, PopupTypeOK, PopupInv, Elsewhere, Follow
  PROVE  PopupTypeOK' /\ PopupInv'
<1> USE DEF PopupInv
<1>0. /\ UNCHANGED <<stage, asked, view, ip, orphaned, unheard>>
      /\ turn' = IF Started /\ turn > 0 THEN turn - 1 ELSE turn
      /\ turn \in Nat /\ turn' \in Nat
  BY DEF Follow, shown, PopupTypeOK
<1>1. /\ WorkerEffect /\ NoneWaits' /\ TypeOK
  BY ElsewhereForPopup DEF OneCommand, WorkerEffect, WorkerInv
<1>2. Sensible'
  BY <1>0 DEF Sensible
<1>3. ASSUME NoCommand
      PROVE  /\ NoCommand'
             /\ storage'.connection = storage.connection
             /\ storage'.enabled = storage.enabled
  BY <1>1, <1>3, NoCommandStays
<1>4. NoCommand' => OneCommand'
  BY <1>1 DEF OneCommand, OnlyOurs, NoCommand
<1>5. ASSUME stage # "closed", ~orphaned, ~(message = "taken" /\ asked.kind \in CommandKinds)
      PROVE  NoCommand
  BY <1>5 DEF OneCommand, OnlyOurs, NoCommand, IsCommand
<1>6. (stage = "closed" \/ orphaned) => OneCommand'
  BY <1>0, <1>1 DEF OneCommand
<1>7. ASSUME Killed, message \in {"sent", "taken"},
             message' = Cut, answer' = IF stage = "closed" THEN answer ELSE Rejected,
             thrown' = FALSE
      PROVE  PopupTypeOK' /\ PopupInv'
  <2>1. PopupTypeOK'
    BY <1>0, <1>7 DEF PopupTypeOK, Cut
  <2>2. Phase'
    BY <1>0, <1>7 DEF Phase, Cut, ok
  <2>3. /\ NoCommand' /\ storage' = storage
    BY <1>1, <1>7, EmptySeq DEF WorkerEffect, Stays, Begins, Stops, NoCommand
  <2>4. Viewed'
    BY <1>0, <1>7, <2>3 DEF Viewed, Answered, Phase, Cut, ok, Sound, Agrees
  <2>5. Addressed'
    BY <1>0, <1>7, <2>3 DEF Addressed, Cut, ok, Replaces
  <2> QED BY <1>2, <1>4, <2>1, <2>2, <2>3, <2>4, <2>5
<1>8. ASSUME ~Killed, Ours, Ended, thrown' = FALSE,
             Replied(IF thrown THEN Rejected ELSE StatusView)
      PROVE  PopupTypeOK' /\ PopupInv'
  <2>1. /\ message = "taken" /\ asked.kind \in CommandKinds /\ turn = 0
        /\ message' = "answered" /\ answer' \in {Rejected, StatusView}
    BY <1>8 DEF Ours, Replied
  <2>2. stage = "command"
    BY <2>1 DEF PopupTypeOK, Stages, Phase, CommandKinds
  <2>3. StatusView \in Views
    BY <1>1, StatusTyped DEF StatusView, Views, TypeOK, BrowserTypeOK, StoredData
  <2>4. PopupTypeOK'
    BY <1>0, <1>8, <2>1, <2>3 DEF PopupTypeOK
  <2>5. Phase'
    BY <1>0, <2>1, <2>2, <2>3 DEF Phase, ok
  <2>6. Stops
    BY <1>1, <1>8 DEF WorkerEffect, Stays, Begins, Started, Ended
  <2>7. OneCommand'
    <3>1. ASSUME ~orphaned PROVE NoCommand'
      <4>1. \A i \in 1..Len(queue) : ~IsCommand(queue[i])
        BY <2>1, <2>2, <3>1 DEF OneCommand, OnlyOurs
      <4> QED BY <2>6, <4>1 DEF Stops, QueueKept, NoCommand
    <3> QED BY <1>4, <1>6, <3>1
  <2>8. Viewed'
    <3>1. StatusView.connection = storage.connection /\ StatusView.enabled = storage.enabled
      BY DEF StatusView
    <3>2. Answered' => answer' = StatusView
      BY <2>1 DEF Answered, ok
    <3> QED BY <1>0, <2>2, <2>6, <3>1, <3>2, StatusSound DEF Viewed, Sound, Agrees, Stops
  <2>9. Addressed'
    BY <1>0, <2>2, <2>6 DEF Addressed, Replaces, Stops
  <2> QED BY <1>2, <2>4, <2>5, <2>7, <2>8, <2>9
<1>9. ASSUME ~Killed, OurTestEnded, thrown' = thrown,
             Replied(IF test'[asked.test].pc = "ok"
                     THEN [ip |-> test'[asked.test].data.connection] ELSE Rejected)
      PROVE  PopupTypeOK' /\ PopupInv'
  <2>1. /\ message = "taken" /\ asked.kind = "TEST_IP" /\ asked.test \in Tests
        /\ message' = "answered"
    BY <1>9 DEF OurTestEnded, Replied, Phase
  <2>2. stage = "test"
    BY <2>1 DEF PopupTypeOK, Stages, Phase, CommandKinds
  <2>3. ASSUME ok'
        PROVE  answer' \in [ip : Keys] /\ answer'.ip = storage.connection
    <3>1. /\ test'[asked.test].pc = "ok" /\ test[asked.test].pc # "ok"
          /\ answer' = [ip |-> test'[asked.test].data.connection]
      BY <1>9, <2>3 DEF OurTestEnded, Replied, ok
    <3> QED BY <2>1, <3>1, CheckAnswers
  <2>4. PopupTypeOK'
    BY <1>0, <1>9, <2>1, <2>3 DEF PopupTypeOK, ok
  <2>5. Phase'
    BY <1>0, <2>1, <2>2, <2>3 DEF Phase
  <2>6. ~orphaned => NoCommand
    BY <1>5, <2>1, <2>2 DEF CommandKinds
  <2>7. OneCommand'
    BY <1>3, <1>4, <1>6, <2>6
  <2>8. Viewed'
    BY <1>0, <2>2 DEF Viewed, Answered, Sound
  <2>9. Addressed'
    BY <1>0, <1>3, <2>2, <2>3, <2>6 DEF Addressed
  <2> QED BY <1>2, <2>4, <2>5, <2>7, <2>8, <2>9
<1>10. ASSUME thrown' = (thrown \/ (Ours /\ Throws)), UNCHANGED <<message, answer>>
       PROVE  PopupTypeOK' /\ PopupInv'
  <2>1. PopupTypeOK'
    <3>1. thrown' \in BOOLEAN
      BY <1>10, Zenon DEF PopupTypeOK
    <3> QED BY <1>0, <1>10, <3>1 DEF PopupTypeOK
  <2>2. Phase'
    BY <1>0, <1>10 DEF Phase, ok
  <2>3. CASE stage = "closed" \/ orphaned
    <3>1. Viewed'
      BY <1>0, <1>10, <2>3 DEF Viewed, Phase, Answered, ok, Sound
    <3>2. Addressed'
      BY <1>0, <1>10, <2>3 DEF Addressed, Phase, ok
    <3> QED BY <1>2, <1>6, <2>1, <2>2, <2>3, <3>1, <3>2
  <2>4. CASE NoCommand
    <3>1. Viewed'
      BY <1>0, <1>3, <1>10, <2>4 DEF Viewed, Answered, ok, Sound, Agrees
    <3>2. Addressed'
      BY <1>0, <1>3, <1>10, <2>4 DEF Addressed, Replaces, ok
    <3> QED BY <1>2, <1>3, <1>4, <2>1, <2>2, <2>4, <3>1, <3>2
  <2>5. CASE /\ stage # "closed" /\ ~orphaned
             /\ message = "taken" /\ asked.kind \in CommandKinds
    <3>1. stage = "command"
      BY <2>5 DEF PopupTypeOK, Stages, Phase, CommandKinds
    <3>2. OnlyOurs
      BY <2>5 DEF OneCommand
    <3>3. OneCommand'
      BY <1>0, <1>1, <1>10, <3>2, OnlyOursStays DEF OneCommand
    <3>4. Viewed'
      BY <1>0, <1>10, <2>5, <3>1 DEF Viewed, Answered, Sound
    <3>5. Addressed'
      <4>1. ASSUME ip # None
            PROVE  storage'.connection # None /\ (~Replaces => ~KeyReplaced)
        <5>1. /\ ~ClearsIp(asked.kind) /\ storage.connection # None
              /\ view.connection # None
          BY <2>5, <3>1, <4>1 DEF Addressed
        <5>2. CASE ~KeyReplaced
          BY <5>1, <5>2 DEF KeyReplaced
        <5>3. CASE KeyReplaced
          <6>1. asked.kind = loc["op"].task.kind
            BY <1>1, <3>2, <5>3 DEF WorkerEffect, KeyReplacedByCommand, OnlyOurs
          <6>2. asked.kind = "importKey" /\ storage'.connection # None
            BY <1>1, <5>1, <5>3, <6>1 DEF WorkerEffect, KeyReplacedByCommand, ClearsIp
          <6> QED BY <5>1, <6>2 DEF Replaces
        <5> QED BY <5>2, <5>3
      <4>2. Replaces' <=> Replaces
        BY <1>0 DEF Replaces
      <4> QED BY <1>0, <1>10, <2>5, <3>1, <4>1, <4>2 DEF Addressed, KeyReplaced
    <3> QED BY <1>2, <2>1, <2>2, <3>3, <3>4, <3>5
  <2> QED BY <1>5, <2>3, <2>4, <2>5
<1> QED BY <1>7, <1>8, <1>9, <1>10 DEF Follow

\* The popup leaves the worker alone, or takes a step that Background describes.
LEMMA PopupStepsWorker ==
  ASSUME WorkerInv, PopupTypeOK, PopupInv, [PopupNext]_popupVars
  PROVE  WorkerInv'
<1>1. CASE [Next]_vars
  <2>1. TypeOK' /\ DataIsBound'
    BY <1>1, NextTyped DEF WorkerInv
  <2>2. KeyInv' /\ TestInv'
    BY <1>1, NextKeepsKey, NextKeepsTests DEF WorkerInv
  <2> QED BY <2>1, <2>2 DEF WorkerInv
<1>2. CASE User \/ Hear \/ UNCHANGED popupVars
  <2>1. UNCHANGED vars
    BY <1>2
    DEF User, Open, Close, ClickSomething, Click, ClickTest, Hear, CommandDone, TestDone,
        ViewRead, RunFails, RefreshFails, Heard, popupVars
  <2> QED BY <1>1, <2>1
<1>3. CASE TakeCommand
  <2>1. Command
    <3>1. /\ Message(asked.kind, asked.key, asked.exclusions) /\ asked.kind \in Commands
          /\ asked.kind \in CommandKinds
          /\ asked.key \in Keys \cup {None} /\ asked.exclusions \in Lists
      BY <1>3 DEF TakeCommand, PopupTypeOK, Messages, PopupInv, Sensible
    <3>2. /\ asked.key # None <=> asked.kind = "importKey"
          /\ asked.exclusions # NoExclusions => asked.kind = "saveExclusions"
      BY DEF PopupInv, Sensible
    <3> QED BY <3>1, <3>2 DEF Command, CommandKinds
  <2> QED BY <1>1, <2>1 DEF Next, Environment
<1>4. CASE TakeTest
  BY <1>1, <1>4 DEF TakeTest, Next, Environment
<1>5. CASE TakeGetState
  <2>1. CASE UNCHANGED vars
    BY <1>1, <2>1
  <2>2. CASE /\ Spend("failure")
             /\ UNCHANGED <<threads, queue, test, taken, awake, waiting, auth, authAttempts>>
    <3>1. TypeOK' /\ DataIsBound'
      <4>1. budget' \in [Events -> Nat]
        BY <2>2, SpendTyped DEF WorkerInv, Events
      <4> QED BY <2>2, <4>1
        DEF WorkerInv, TypeOK, BrowserTypeOK, DataIsBound, threads, prefs, epochs, flags
    <3>2. KeyInv'
      BY <2>2
      DEF WorkerInv, KeyInv, AppliedServerIsStored, KeyIsBound, Swapping, BootPath,
          BootFirst, HarmlessTask, HarmlessQueue, threads, prefs
    <3>3. TestInv'
      BY <2>2, ChainingKeepsTests DEF WorkerInv, threads, epochs
    <3> QED BY <3>1, <3>2, <3>3 DEF WorkerInv
  <2> QED BY <1>5, <2>1, <2>2 DEF TakeGetState
<1>6. CASE Elsewhere
  BY <1>1, <1>6 DEF Elsewhere, Next, Environment
<1> QED BY <1>2, <1>3, <1>4, <1>5, <1>6 DEF PopupNext, Deliver

LEMMA PopupInitially == PopupInit => WorkerInv /\ PopupTypeOK /\ PopupInv
<1> SUFFICES ASSUME PopupInit PROVE WorkerInv /\ PopupTypeOK /\ PopupInv
  OBVIOUS
<1>1. WorkerInv
  BY InitTyped, InitKey, InitTests DEF PopupInit, WorkerInv
<1>2. PopupTypeOK
  BY GetStateTyped DEF PopupInit, PopupTypeOK, Stages
<1>3. Sensible /\ Phase
  BY DEF PopupInit, Sensible, Phase, GetState, CommandKinds
<1>4. OneCommand
  BY EmptySeq DEF PopupInit, Init, NotLoaded, OneCommand, NoneWaits
<1>5. Viewed /\ Addressed
  BY DEF PopupInit, Viewed, Answered, Addressed
<1> QED BY <1>1, <1>2, <1>3, <1>4, <1>5 DEF PopupInv

LEMMA PopupInvariant == PopupSpec => [](WorkerInv /\ PopupTypeOK /\ PopupInv)
<1>1. PopupInit => WorkerInv /\ PopupTypeOK /\ PopupInv
  BY PopupInitially
<1>2. WorkerInv /\ PopupTypeOK /\ PopupInv /\ [PopupNext]_popupVars
        => (WorkerInv /\ PopupTypeOK /\ PopupInv)'
  <2> SUFFICES ASSUME WorkerInv, PopupTypeOK, PopupInv, [PopupNext]_popupVars
               PROVE  (WorkerInv /\ PopupTypeOK /\ PopupInv)'
    OBVIOUS
  <2>1. WorkerInv'
    BY PopupStepsWorker
  <2>2. CASE PopupNext
    <3>1. PopupTypeOK' /\ PopupInv'
      BY <2>2, UserKeeps, DeliverKeeps, HearKeeps, FollowKeeps DEF PopupNext, WorkerInv
    <3> QED BY <2>1, <3>1
  <2>3. CASE UNCHANGED popupVars
    <3>1. UNCHANGED <<storage, queue, waiting, loc, stage, asked, message, answer, turn,
                      thrown, view, ip, orphaned, unheard>>
      BY <2>3 DEF popupVars, popup, shown, vars, threads, beside
    <3>2. PopupTypeOK'
      BY <3>1 DEF PopupTypeOK
    <3>3. Sensible' /\ Phase' /\ OneCommand'
      BY <3>1 DEF PopupInv, Sensible, Phase, OneCommand, OnlyOurs, NoneWaits, ok
    <3>4. Viewed' /\ Addressed'
      BY <3>1 DEF PopupInv, Viewed, Addressed, Answered, Sound, Agrees, Replaces, ok
    <3> QED BY <2>1, <3>2, <3>3, <3>4 DEF PopupInv
  <2> QED BY <2>2, <2>3
<1> QED BY <1>1, <1>2, PTL DEF PopupSpec

(***************************************************************************)
(* The theorems.                                                           *)
(***************************************************************************)
\* The messages, the answers and what is shown of them are what popup.js declares and
\* the worker sends, in every state.
THEOREM PopupTypeCorrect == PopupSpec => []PopupTypeOK
BY PopupInvariant, PTL

\* While the buttons can be pressed the popup shows the stored key and the stored
\* switch (render() after run() of popup.js), whatever was rejected or killed.
THEOREM ViewCorrect == PopupSpec => []ViewIsStored
<1>1. PopupInv => ViewIsStored
  BY DEF PopupInv, Viewed, Agrees, ViewIsStored
<1> QED BY <1>1, PopupInvariant, PTL

\* An address that is shown was observed under the key of the server that is shown
\* (connection-data and result of popup.js).
THEOREM ShownAddressCorrect == PopupSpec => []IpOfShownServer
<1>1. PopupInv => IpOfShownServer
  BY DEF PopupInv, Viewed, Addressed, Agrees, IpOfShownServer
<1> QED BY <1>1, PopupInvariant, PTL
=============================================================================
