---------------------------- MODULE MCBackground ----------------------------
(***************************************************************************)
(* Two keys of different servers and two exclusion lists; the second list  *)
(* excludes api.ipify.org.  The configurations choose the commands, the    *)
(* settings others contend for and how often each event occurs.            *)
(***************************************************************************)
EXTENDS BackgroundProperties, TLC
CONSTANTS k1, k2, s1, s2, none, list

MCServerOf == (k1 :> s1) @@ (k2 :> s2)
MCLists == {none, list}
NoEvents == [e \in Events |-> 0]

AllCommands == {"importKey", "connect", "disconnect", "forget", "saveExclusions"}
NoCommands == {}
SaveOnly == {"saveExclusions"}
NoSettings == {}
ProxyAndRtc == {<<"proxy", "incognito">>, <<"rtc", "regular">>}
RegularProxy == {<<"proxy", "regular">>}
ProxyInIncognito == {<<"proxy", "incognito">>}
Rtc == {<<"rtc", "regular">>, <<"rtc", "incognito">>}
Everything == Settings \X Contexts

ConfigBudget == [NoEvents EXCEPT !["command"] = 2, !["takeover"] = 1, !["kill"] = 1,
                                 !["failure"] = 1]
LivenessBudget == [NoEvents EXCEPT !["takeover"] = 2, !["kill"] = 1, !["test"] = 1]
IpCheckBudget == [NoEvents EXCEPT !["command"] = 1, !["test"] = 1, !["takeover"] = 3]
BadgeBudget == [NoEvents EXCEPT !["error"] = 1]
RollbackBudget == [NoEvents EXCEPT !["command"] = 1, !["takeover"] = 5]
IncognitoBudget == [NoEvents EXCEPT !["takeover"] = 2, !["kill"] = 1]
=============================================================================
