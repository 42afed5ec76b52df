------------------------------ MODULE SelfGuard ------------------------------
(***************************************************************************)
(* How the proxy keeps a request from reaching the proxy's own host        *)
(* (src/server/proxy.go, selfAddresses, destinations, dialDestinations).   *)
(*                                                                         *)
(* The addresses of the own host name are learned by lookups that requests *)
(* make outside of the lock: a lookup is asked, answered and learned in    *)
(* three steps, so answers of several requests are learned in any order    *)
(* while the host's record changes.  An address is a model value; a target *)
(* is the set of addresses its authority stands for.                       *)
(***************************************************************************)
EXTENDS FiniteSets

CONSTANTS
    Requests,       \* slots of concurrent requests, each reused
    Addresses,      \* the addresses that occur
    Public,         \* those publicAddress accepts
    ExtraSelf,      \* extraSelf: own addresses given by the configuration
    Local,          \* addresses of the machine's interfaces
    SelfHosts,      \* values of selfHost: "none", "name" or a literal address
    HostAnswers,    \* what the own host name can resolve to
    TargetAnswers   \* what the authority of a request can stand for

ASSUME GuardAssumption ==
    /\ Public \subseteq Addresses /\ ExtraSelf \subseteq Addresses
    /\ Local \subseteq Addresses
    /\ SelfHosts \subseteq {"none", "name"} \union Addresses
    /\ HostAnswers \subseteq SUBSET Addresses /\ TargetAnswers \subseteq SUBSET Addresses

VARIABLES
    selfHost,       \* selfHost of the proxyServer
    dns,            \* the record of the own host name, at the resolver
    selfResolved,   \* selfResolved: own addresses learned so far
    paused,         \* the clock is before selfRetryAfter
    request         \* the request in each slot

guardVars == <<selfHost, dns, selfResolved, paused, request>>

(* `owed' is history: what the proxy knew when the request asked, and what the   *)
(* request's own lookup taught it.  The program refuses these and keeps no such  *)
(* variable.                                                                      *)
Request == [pc : {"idle", "asking", "answered", "merge", "resolve", "dial", "dialing",
                  "connected"},
            gone : BOOLEAN,                \* the request's context is cancelled
            owed : SUBSET Addresses,
            failed : BOOLEAN,              \* lookupErr # nil
            self : SUBSET Addresses,       \* the answer of the lookup, then self
            targets : SUBSET Addresses,    \* targets not dialled yet
            at : Addresses \union {"none"}]

Idle == [pc |-> "idle", gone |-> FALSE, owed |-> {}, failed |-> FALSE, self |-> {},
         targets |-> {}, at |-> "none"]

GuardTypeOK ==
    /\ selfHost \in SelfHosts
    /\ dns \in HostAnswers
    /\ selfResolved \in SUBSET Addresses
    /\ paused \in BOOLEAN
    /\ request \in [Requests -> Request]

GuardInit ==
    /\ selfHost \in SelfHosts
    /\ dns \in HostAnswers
    /\ selfResolved = {}
    /\ paused = FALSE
    /\ request = [r \in Requests |-> Idle]

-----------------------------------------------------------------------------
Become(r, next) == request' = [request EXCEPT ![r] = next]

(* The handler writes the error and returns. *)
Refuse(r) == Become(r, Idle)

LookupIfUnknown == selfResolved = {} \* mutant: a known host is never looked up again

ShouldLookup == selfResolved = {} \/ ~paused

(* A request for another host than the own one reaches selfAddresses (one for the  *)
(* own host is refused before, and changes nothing); the first critical section     *)
(* decides whether it looks the own host up.                                        *)
Ask(r) ==
    /\ request[r].pc = "idle"
    /\ Become(r, [Idle EXCEPT !.owed = IF selfHost = "name" THEN selfResolved ELSE {},
                              !.pc = IF selfHost = "name" /\ ShouldLookup
                                     THEN "asking" ELSE "merge"])
    /\ UNCHANGED <<selfHost, dns, selfResolved, paused>>

(* The resolver answers with the record of this moment. *)
Answer(r) ==
    /\ request[r].pc = "asking" /\ ~request[r].gone
    /\ Become(r, [request[r] EXCEPT !.pc = "answered", !.self = dns])
    /\ UNCHANGED <<selfHost, dns, selfResolved, paused>>

LearnAnew(r) == \* mutant: the answer replaces what was known
    /\ request[r].pc = "answered"
    /\ selfResolved' = request[r].self
    /\ paused' = FALSE
    /\ Become(r, [request[r] EXCEPT !.pc = "merge", !.self = {},
                                    !.owed = @ \union request[r].self])
    /\ UNCHANGED <<selfHost, dns>>

(* The second critical section, after a successful lookup. *)
Learn(r) ==
    /\ request[r].pc = "answered"
    /\ selfResolved' = selfResolved \union request[r].self
    /\ paused' = FALSE
    /\ Become(r, [request[r] EXCEPT !.pc = "merge", !.self = {},
                                    !.owed = @ \union request[r].self])
    /\ UNCHANGED <<selfHost, dns>>

(* The second critical section, after a failed lookup. *)
LookupFails(r) ==
    /\ request[r].pc = "asking"
    /\ paused' = (paused \/ (selfResolved # {} /\ ~request[r].gone))
    /\ Become(r, [request[r] EXCEPT !.pc = "merge", !.failed = TRUE])
    /\ UNCHANGED <<selfHost, dns, selfResolved>>

HostSelf == CASE selfHost = "none" -> {}
              [] selfHost = "name" -> selfResolved
              [] OTHER -> {selfHost}

KnownSelf == ExtraSelf \union HostSelf

MayMergeResolved(r) == \* mutant: any own address will do, a private one too
    ~(request[r].failed /\ selfResolved = {})

MayMerge(r) ==
    /\ ~(request[r].failed /\ selfResolved = {})
    /\ selfHost = "none" \/ KnownSelf \intersect Public # {}

(* The third critical section, the check for a public own address, and the         *)
(* addresses of the interfaces.                                                    *)
Merge(r) ==
    /\ request[r].pc = "merge" /\ MayMerge(r)
    /\ Become(r, [request[r] EXCEPT !.pc = "resolve", !.self = KnownSelf \union Local,
                                    !.failed = FALSE])
    /\ UNCHANGED <<selfHost, dns, selfResolved, paused>>

(* Nothing public is known, or localAddresses fails. *)
MergeFails(r) ==
    /\ request[r].pc = "merge"
    /\ Refuse(r)
    /\ UNCHANGED <<selfHost, dns, selfResolved, paused>>

Allowed(r, answer) == (answer \intersect Public) \ request[r].self

(* The target's own addresses, without the forbidden ones. *)
Resolve(r) ==
    /\ request[r].pc = "resolve"
    /\ \E answer \in TargetAnswers :
          /\ Allowed(r, answer) # {}
          /\ Become(r, [request[r] EXCEPT !.pc = "dial", !.self = {},
                                          !.targets = Allowed(r, answer)])
    /\ UNCHANGED <<selfHost, dns, selfResolved, paused>>

ResolveFails(r) ==
    /\ request[r].pc = "resolve"
    /\ Refuse(r)
    /\ UNCHANGED <<selfHost, dns, selfResolved, paused>>

(* dialDestinations tries one target after the other, while the context lives. *)
Dial(r) ==
    /\ request[r].pc = "dial" /\ ~request[r].gone
    /\ \E a \in request[r].targets :
          Become(r, [request[r] EXCEPT !.pc = "dialing", !.at = a, !.targets = @ \ {a}])
    /\ UNCHANGED <<selfHost, dns, selfResolved, paused>>

DialOk(r) ==
    /\ request[r].pc = "dialing"
    /\ Become(r, [request[r] EXCEPT !.pc = "connected", !.targets = {}])
    /\ UNCHANGED <<selfHost, dns, selfResolved, paused>>

DialFails(r) ==
    /\ request[r].pc = "dialing"
    /\ Become(r, [request[r] EXCEPT !.pc = "dial", !.at = "none"])
    /\ UNCHANGED <<selfHost, dns, selfResolved, paused>>

DialEnds(r) ==
    /\ request[r].pc = "dial"
    /\ request[r].gone \/ request[r].targets = {}
    /\ Refuse(r)
    /\ UNCHANGED <<selfHost, dns, selfResolved, paused>>

(* The handler returns: the tunnel or the answer is over (module Tunnel). *)
Return(r) ==
    /\ request[r].pc = "connected"
    /\ Become(r, Idle)
    /\ UNCHANGED <<selfHost, dns, selfResolved, paused>>

(* The client leaves: its request's context is cancelled. *)
ClientLeaves(r) ==
    /\ request[r].pc \notin {"idle", "connected"} /\ ~request[r].gone
    /\ Become(r, [request[r] EXCEPT !.gone = TRUE])
    /\ UNCHANGED <<selfHost, dns, selfResolved, paused>>

(* Ten seconds have passed since a failed lookup. *)
PauseEnds ==
    /\ paused
    /\ paused' = FALSE
    /\ UNCHANGED <<selfHost, dns, selfResolved, request>>

(* The operator or a dynamic name service changes the record. *)
HostMoves ==
    /\ dns' \in HostAnswers \ {dns}
    /\ UNCHANGED <<selfHost, selfResolved, paused, request>>

Proceed(r) ==
    \/ Learn(r) \/ Merge(r) \/ MergeFails(r) \/ Resolve(r) \/ ResolveFails(r)
    \/ Dial(r) \/ DialOk(r) \/ DialFails(r) \/ DialEnds(r) \/ Return(r)

GuardNext ==
    \/ \E r \in Requests :
          \/ Ask(r) \/ Answer(r) \/ LookupFails(r)
          \/ Proceed(r) \/ ClientLeaves(r)
    \/ PauseEnds
    \/ HostMoves

GuardSpec == GuardInit /\ [][GuardNext]_guardVars

(* A handler does not stop between two steps, a lookup comes back within its       *)
(* timeout, the clock moves, requests keep coming, and the resolver does not fail   *)
(* every lookup.                                                                    *)
GuardFairness ==
    /\ \A r \in Requests :
          /\ WF_guardVars(Proceed(r))
          /\ WF_guardVars(Answer(r) \/ LookupFails(r))
          /\ WF_guardVars(Ask(r))
          /\ SF_guardVars(Answer(r))
    /\ WF_guardVars(PauseEnds)

-----------------------------------------------------------------------------
(* No request dials an address that was known for the proxy's own when the request *)
(* arrived, or that its own lookup returned, whatever other lookups were learned    *)
(* and in whatever order, and however the record moved meanwhile; nor one that the  *)
(* configuration or an interface names.                                             *)
NeverDialsKnownSelf ==
    \A r \in Requests :
        request[r].pc \in {"dialing", "connected"} =>
            request[r].at \notin request[r].owed \union ExtraSelf \union Local

(* With a configured host the guard fails closed: no request dials before a public *)
(* address of the proxy is known, even when the first lookups fail or return only   *)
(* private addresses.                                                               *)
FailsClosed ==
    \A r \in Requests :
        request[r].pc \in {"dialing", "connected"} /\ selfHost # "none" =>
            KnownSelf \intersect Public # {}

(* A pause starts only once something is resolved: the guard without any address    *)
(* asks at every request, and after a pause it goes on asking; so a record that     *)
(* stays is learned in the end, though lookups fail, overlap and are abandoned.     *)
LearnsNewAddress ==
    \A d \in HostAnswers :
        selfHost = "name" /\ <>[](dns = d) => <>(d \subseteq selfResolved)
=============================================================================
