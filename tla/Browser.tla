------------------------------ MODULE Browser ------------------------------
(***************************************************************************)
(* What the extension's service worker (module Background) gets from       *)
(* Chrome: chrome.storage.local, the proxy setting and the WebRTC policy   *)
(* in regular and in incognito windows, their onChange notifications and   *)
(* the toolbar badge.  All of it outlives the worker.                      *)
(***************************************************************************)
EXTENDS Integers, Sequences, FiniteSets

CONSTANTS
  Keys,             \* validated connection keys
  Servers,          \* the host:port part of a key, all that a PAC depends on
  ServerOf,         \* [Keys -> Servers]
  Lists,            \* normalised exclusion lists
  NoExclusions,     \* the empty list
  IncognitoAllowed, \* may the extension act in incognito windows?
  Contested,        \* the <<setting, context>> pairs others may take
  None

Errors == {"fatal", "direct", "authFailed"}
Contexts == {"regular", "incognito"}
Visible == IF IncognitoAllowed THEN Contexts ELSE {"regular"}
Settings == {"proxy", "rtc"}

ASSUME BrowserAssumption ==
  /\ ServerOf \in [Keys -> Servers]
  /\ Servers # {}
  /\ NoExclusions \in Lists
  /\ IncognitoAllowed \in BOOLEAN
  /\ Contested \subseteq Settings \X Visible
  /\ None \notin Keys \cup Errors

VARIABLES
  storage,             \* chrome.storage.local
  proxyPref, rtcPref,  \* this extension's own preferences, never effective by themselves
  taken,               \* the <<setting, context>> pairs another extension or a policy holds
  notices,             \* onChange events on their way to the worker
  badge                \* the text on the toolbar icon
prefs == <<proxyPref, rtcPref, notices>>

StoredData == [connection : Keys \cup {None}, enabled : BOOLEAN,
               exclusions : Lists, proxyError : Errors \cup {None}]
NoData == [connection |-> None, enabled |-> FALSE,
           exclusions |-> NoExclusions, proxyError |-> None]
Pacs == [server : Servers, exclusions : Lists]
Badges == {"ON", "!", ""}

BrowserTypeOK ==
  /\ storage \in StoredData
  /\ proxyPref \in Pacs \cup {None}
  /\ rtcPref \in BOOLEAN
  /\ taken \subseteq Settings \X Contexts
  /\ notices \subseteq Settings
  /\ badge \in Badges

\* levelOfControl: "controlled_by_this_extension", "controllable_by_this_extension"
\* or neither
ProxyLevel(c) == IF <<"proxy", c>> \in taken THEN "other"
                 ELSE IF proxyPref = None THEN "free" ELSE "own"
RtcLevel(c) == IF <<"rtc", c>> \in taken THEN "other"
               ELSE IF rtcPref THEN "own" ELSE "free"

\* Chrome reports a change of an effective value, our own changes included;
\* equal notices that are still on their way are one
Notify(setting, changes) ==
  notices' = IF changes /\ \E c \in Visible : <<setting, c>> \notin taken
             THEN notices \cup {setting} ELSE notices

\* another extension or a policy takes a setting in one context, or lets it go
Contest(setting, c) ==
  /\ <<setting, c>> \in Contested
  /\ taken' = IF <<setting, c>> \in taken THEN taken \ {<<setting, c>>}
              ELSE taken \cup {<<setting, c>>}
  /\ notices' = notices \cup {setting}
  /\ UNCHANGED <<storage, proxyPref, rtcPref, badge>>

=============================================================================
