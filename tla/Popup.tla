------------------------------- MODULE Popup -------------------------------
(***************************************************************************)
(* The popup (extension/popup.js) in front of the service worker.          *)
(*                                                                         *)
(* The popup sends one message at a time and disables its buttons until    *)
(* the answer is there.  The worker may be killed with the message in its  *)
(* hands, a Chrome call of it may reject, and the user may close the popup *)
(* over a command that goes on without it.  Commands and IP checks come    *)
(* from here alone, so each step of Background is taken as it is, with     *)
(* what it means for the message the popup waits for.                      *)
(***************************************************************************)
EXTENDS BackgroundProperties

VARIABLES
  stage,     \* what the popup is waiting for
  asked,     \* the message it sent last
  message,   \* where its message is: sent (before `await boot` is over),
             \* taken by the worker, answered
  answer,    \* the answer on its way back
  turn,      \* our task and those before it that have not been started
  thrown,    \* our running task is going to reject
  view,      \* `current`: the state shown, of which the server, the switch
             \* and the state matter
  ip,        \* the key under which the shown address was observed
  orphaned,  \* a popup closed earlier left a command behind, when this one opened
  unheard    \* {"view"}: the last refresh failed; {"ip"}: a replacement did
shown == <<view, ip, orphaned, unheard>>
popup == <<stage, asked, message, answer, turn, thrown, shown>>
popupVars == <<vars, popup>>

Stages == {"closed", "opening", "free", "command", "test", "tested", "refresh"}
Pressed == {"command", "test", "tested", "refresh"} \* run() holds the buttons
CommandKinds == {"importKey", "connect", "disconnect", "forget", "saveExclusions"}
Messages == [kind : CommandKinds \cup {"GET_STATE", "TEST_IP"}, key : Keys \cup {None},
             exclusions : Lists, test : Tests \cup {None}]
GetState == [kind |-> "GET_STATE", key |-> None, exclusions |-> NoExclusions,
             test |-> None]
Views == [connection : Keys \cup {None}, enabled : BOOLEAN, state : States]
StatusView == [connection |-> storage.connection, enabled |-> storage.enabled,
               state |-> status]
Rejected == [rejected |-> TRUE]
NoAnswer == [rejected |-> FALSE]

ASSUME PopupAssumption == Commands \subseteq CommandKinds

PopupTypeOK ==
  /\ stage \in Stages
  /\ asked \in Messages
  /\ message \in {"none", "sent", "taken", "answered"}
  /\ answer \in Views \cup {NoAnswer, Rejected} \cup [ip : Keys]
  /\ turn \in Nat
  /\ thrown \in BOOLEAN
  /\ view \in Views \cup {NoAnswer}
  /\ ip \in Keys \cup {None}
  /\ orphaned \in BOOLEAN
  /\ unheard \subseteq {"view", "ip"}

(***************************************************************************)
(* The user.                                                               *)
(***************************************************************************)
Send(next, what) == stage' = next /\ message' = "sent" /\ asked' = what
\* the script ends with a GET_STATE; both sections are hidden until it is answered
Open ==
  /\ stage = "closed" /\ message = "none"
  /\ Send("opening", GetState)
  /\ orphaned' = \E task \in {queue[i] : i \in 1..Len(queue)} \cup {loc["op"].task} :
                   task.kind \in CommandKinds
  /\ UNCHANGED <<vars, answer, turn, thrown, view, ip, unheard>>
Shut == /\ view' = NoAnswer /\ ip' = None /\ orphaned' = FALSE /\ unheard' = {}
        /\ answer' = NoAnswer
\* closing does not take back a message; nobody is there for its answer
Close ==
  /\ stage # "closed"
  /\ stage' = "closed" /\ Shut
  /\ message' = IF message = "sent" THEN "sent" ELSE "none"
  /\ turn' = 0 /\ thrown' = FALSE
  /\ asked' = IF message = "sent" THEN asked ELSE GetState
  /\ UNCHANGED vars

\* run() clears the old address before these commands
ForgetKeepsIp(kind) == kind \in {"connect", "disconnect"} \* mutant
ClearsIp(kind) == kind \in {"connect", "disconnect", "forget"}
Click(kind, key, list) ==
  /\ stage = "free" /\ view # NoAnswer /\ budget["command"] > 0
  /\ CASE kind = "connect" -> view.connection # None /\ ~view.enabled
       [] kind = "disconnect" -> view.connection # None /\ view.enabled
       [] kind \in {"forget", "saveExclusions"} -> view.connection # None
       [] OTHER -> TRUE
  /\ Send("command", [GetState EXCEPT !.kind = kind, !.key = key, !.exclusions = list])
  /\ ip' = IF ClearsIp(kind) THEN None ELSE ip
  /\ unheard' = IF ClearsIp(kind) THEN unheard \ {"ip"} ELSE unheard
  /\ UNCHANGED <<vars, answer, turn, thrown, view, orphaned>>
ClickSomething ==
  \E kind \in Commands, key \in Keys \cup {None}, list \in Lists :
    /\ key # None <=> kind = "importKey"
    /\ list # NoExclusions => kind = "saveExclusions"
    /\ Click(kind, key, list)
ClickTest ==
  /\ stage = "free" /\ view # NoAnswer /\ budget["test"] > 0
  /\ view.state \in {"active", "retry"}
  /\ Send("test", [GetState EXCEPT !.kind = "TEST_IP"])
  /\ UNCHANGED <<vars, answer, turn, thrown, shown>>
User == Open \/ Close \/ ClickSomething \/ ClickTest

(***************************************************************************)
(* The worker takes the message.                                           *)
(***************************************************************************)
Taken == message = "sent" /\ message' = IF stage = "closed" THEN "none" ELSE "taken"
Remembered(what) == asked' = IF stage = "closed" THEN GetState ELSE what
TakeCommand ==
  /\ asked.kind \in CommandKinds
  /\ Taken /\ Remembered(asked)
  /\ Message(asked.kind, asked.key, asked.exclusions)
  /\ turn' = IF stage = "closed" THEN 0 ELSE Len(queue')
  /\ UNCHANGED <<stage, answer, thrown, shown>>
TakeTest ==
  /\ asked.kind = "TEST_IP"
  /\ Taken
  /\ \E t \in Tests : TestStart(t) /\ Remembered([asked EXCEPT !.test = t])
  /\ UNCHANGED <<stage, answer, turn, thrown, shown>>
\* GET_STATE: status() after `await boot`, answered or rejected
TakeGetState ==
  /\ asked.kind = "GET_STATE"
  /\ message = "sent" /\ booted
  /\ IF stage = "closed" THEN message' = "none" /\ UNCHANGED <<vars, answer>>
     ELSE /\ message' = "answered"
          /\ \/ answer' = StatusView /\ UNCHANGED vars
             \/ /\ answer' = Rejected /\ Spend("failure")
                /\ UNCHANGED <<threads, queue, test, taken, awake, waiting, auth,
                               authAttempts>>
  /\ UNCHANGED <<stage, asked, turn, thrown, shown>>
Deliver == TakeCommand \/ TakeTest \/ TakeGetState

(***************************************************************************)
(* What a step of the worker means for the message.                        *)
(***************************************************************************)
Throwing == {"co.refuse", "co.undo", "sa.refuse", "sa.rollback"}
Throws ==
  /\ pc["op"] # pc'["op"]
  /\ \/ pc["op"] \in Throwing
     \/ pc["op"] \in {"co.check", "sa.check"} /\ pc'["op"] = "end"
     \/ budget'["failure"] < budget["failure"]
Started == pc["op"] = "idle" /\ pc'["op"] # "idle"
Ended == pc["op"] = "end" /\ pc'["op"] = "idle"
Ours == message = "taken" /\ asked.kind \in CommandKinds /\ turn = 0
OurTestEnded ==
  /\ message = "taken" /\ asked.kind = "TEST_IP"
  /\ test'[asked.test].pc # test[asked.test].pc
  /\ test'[asked.test].pc \in {"ok", "failed"}
Killed == awake /\ ~awake'
Cut == IF stage = "closed" THEN "none" ELSE "answered"

Replied(what) == message' = "answered" /\ answer' = what
Follow ==
  /\ turn' = IF Started /\ turn > 0 THEN turn - 1 ELSE turn
  /\ \/ /\ Killed /\ message \in {"sent", "taken"} \* the port of the message closes
        /\ message' = Cut
        /\ answer' = IF stage = "closed" THEN answer ELSE Rejected
        /\ thrown' = FALSE
     \/ /\ ~Killed /\ Ours /\ Ended
        /\ Replied(IF thrown THEN Rejected ELSE StatusView)
        /\ thrown' = FALSE
     \/ /\ ~Killed /\ OurTestEnded
        /\ LET t == test'[asked.test] IN
           Replied(IF t.pc = "ok" THEN [ip |-> t.data.connection] ELSE Rejected)
        /\ UNCHANGED thrown
     \/ /\ ~(Killed /\ message \in {"sent", "taken"}) /\ ~(Ours /\ Ended) /\ ~OurTestEnded
        /\ thrown' = (thrown \/ (Ours /\ Throws))
        /\ UNCHANGED <<message, answer>>
  /\ UNCHANGED <<stage, asked, shown>>
Elsewhere ==
  \/ Worker
  \/ \E setting \in Settings : onChange(setting)
  \/ \E e \in {"fatal", "direct"} : ProxyError(e)
  \/ \E setting \in Settings, c \in Visible : Takeover(setting, c)
  \/ \E p \in Threads : Fail(p)
  \/ Kill \/ Wake

(***************************************************************************)
(* The answer reaches run().                                               *)
(***************************************************************************)
Heard(next, what) ==
  /\ message = "answered"
  /\ IF next = "free" THEN stage' = "free" /\ message' = "none" /\ asked' = GetState
     ELSE Send(next, GetState)
  /\ view' = what /\ answer' = NoAnswer /\ turn' = 0
  /\ UNCHANGED <<vars, thrown, orphaned>>
ok == answer # Rejected
Replaces == asked.kind = "importKey" /\ view.connection # None
\* the form of a replacement empties the address once the answer is good
CommandDone ==
  /\ stage = "command" /\ ok /\ Heard("free", answer)
  /\ ip' = IF Replaces THEN None ELSE ip
  /\ unheard' = unheard \ (IF Replaces THEN {"view", "ip"} ELSE {"view"})
TestDone ==
  /\ stage = "test" /\ ok /\ Heard("tested", view)
  /\ ip' = answer.ip /\ unheard' = unheard \ {"ip"}
ViewRead ==
  /\ stage \in {"opening", "tested", "refresh"} /\ ok /\ Heard("free", answer)
  /\ unheard' = unheard \ {"view"} /\ UNCHANGED ip
\* catch: show the error and ask for the state
RunFailsUnread == \* mutant: the state is not read after an error
  /\ stage \in {"command", "test", "tested"} /\ ~ok /\ Heard("free", view)
  /\ UNCHANGED <<ip, unheard>>
RunFailsShowing == \* mutant: a rejection is rendered as if it were a state
  /\ stage \in {"command", "test", "tested"} /\ ~ok /\ Heard("refresh", answer)
  /\ UNCHANGED <<ip, unheard>>
RunFails ==
  /\ stage \in {"command", "test", "tested"} /\ ~ok /\ Heard("refresh", view)
  /\ unheard' = IF stage = "command" /\ Replaces THEN unheard \cup {"ip"} ELSE unheard
  /\ UNCHANGED ip
\* ... of which the failure is ignored: "Keep the last view."
RefreshLocks == \* mutant: only the end of the try block enables the buttons
  /\ stage \in {"opening", "refresh"} /\ ~ok
  /\ message = "answered" /\ message' = "none" /\ answer' = NoAnswer
  /\ UNCHANGED <<vars, stage, asked, turn, thrown, shown>>
RefreshFails ==
  /\ stage \in {"opening", "refresh"} /\ ~ok /\ Heard("free", view)
  /\ unheard' = unheard \cup {"view"} /\ UNCHANGED ip
Hear == CommandDone \/ TestDone \/ ViewRead \/ RunFails \/ RefreshFails

PopupInit ==
  /\ Init
  /\ stage = "closed" /\ asked = GetState /\ message = "none"
  /\ answer = NoAnswer /\ turn = 0 /\ thrown = FALSE
  /\ view = NoAnswer /\ ip = None /\ orphaned = FALSE /\ unheard = {}
PopupNext == User \/ Deliver \/ Hear \/ (Elsewhere /\ Follow)
PopupSpec == PopupInit /\ [][PopupNext]_popupVars

\* Chrome delivers messages and answers, and loads the worker for a message
PopupFairness ==
  /\ Fairness
  /\ WF_vars(message = "sent" /\ Wake)
  /\ WF_popupVars(Deliver) /\ WF_popupVars(Hear)
FairPopupSpec == PopupSpec /\ PopupFairness

(***************************************************************************)
(* What the user may rely on.                                              *)
(***************************************************************************)
\* While the buttons can be pressed, the popup shows the key and the switch that
\* are stored, whatever was rejected, killed half-way or repaired by boot: the
\* main button never offers to connect what is connected.  Not covered: a
\* command that an earlier popup left running, and a failed refresh, after
\* which the code keeps the last view on purpose (popup.js:52).
ViewIsStored ==
  stage = "free" /\ view # NoAnswer /\ ~orphaned /\ "view" \notin unheard =>
    /\ view.connection = storage.connection
    /\ view.enabled = storage.enabled

\* An external address that is shown belongs to the server that is shown above
\* it, unless the answer to a replacement was an error: the address is then
\* left as it is although the key may have been stored.
IpOfShownServer ==
  stage = "free" /\ ip # None /\ ~orphaned /\ unheard = {} => view.connection = ip

\* Whatever the worker does with a message, the buttons of the popup come back.
PopupUnlocks ==
  stage \in Pressed \cup {"opening"} ~> stage \in {"free", "closed"}

=============================================================================
