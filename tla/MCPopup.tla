------------------------------ MODULE MCPopup ------------------------------
(***************************************************************************)
(* The popup and the worker with the keys and lists of MCBackground, in    *)
(* four scenarios, each with the events that make it: a rival extension    *)
(* takes the settings while no popup is open; calls of Chrome are rejected *)
(* under the popup; the worker is restarted under it; the user closes it   *)
(* over what it asked for.                                                 *)
(***************************************************************************)
EXTENDS Popup, MCBackground, Routing

VARIABLE scenario
mcVars == <<popupVars, scenario>>

EventsOf == [rivals |-> {"takeover", "kill"},
             rejections |-> {"command", "test", "failure"},
             restarts |-> {"command", "test", "kill"},
             closing |-> {"command", "test"}]
PopupBudget == [LivenessBudget EXCEPT !["command"] = 1, !["failure"] = 2]

MCInit == PopupInit /\ scenario \in DOMAIN EventsOf
MCNext == /\ PopupNext
          /\ \A e \in Events \ EventsOf[scenario] : budget'[e] = budget[e]
          /\ scenario = "rivals" => stage' = "closed"
          /\ scenario \in {"rejections", "restarts"} => stage' # "closed" \/ stage = "closed"
          /\ UNCHANGED scenario
MCSpec == MCInit /\ [][MCNext]_mcVars /\ PopupFairness

(***************************************************************************)
(* Exclusions, with two letters of which one has a capital.                *)
(***************************************************************************)
MCToLower == [c \in Upper |-> "b"]
ipify == <<"a", ".", "b", ".", "a">> \* api.ipify.org
Domains == (none :> <<>>) @@
           (list :> normalizeExclusions(<< <<"*", ".", "B", ".", "a">> >>).list)
MCTestExcluded == {x \in MCLists : FindProxyForURL(ipify, Domains[x]) = "DIRECT"}

Texts == UNION {[1..n -> Char \ {Hyphen}] : n \in 3..4} \cup
         {<<"*", ".">> \o t : t \in [1..3 -> Letters \cup {Dot}]}
\* What was stored is read as it was stored (background.js:46): a list is not
\* changed by normalising it again, and covers the domains it was made from.
ASSUME ListsAreStable ==
  \A x \in Texts, y \in {<<"a", ".", "b">>, <<"B", ".", "a">>, <<"a", ".", "a">>} :
    LET r == normalizeExclusions(<<y, x, y>>) IN
    ~r.thrown => /\ normalizeExclusions(r.list) = r
                 /\ \A t \in {x, y} :
                      /\ isExcludedHost(Unstarred(t), r.list)
                      /\ isExcludedHost(<<"a", ".">> \o Unstarred(t), r.list)
=============================================================================
