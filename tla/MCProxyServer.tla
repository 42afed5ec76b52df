---------------------------- MODULE MCProxyServer ----------------------------
(***************************************************************************)
(* Both parts of the proxy's request handling in one run.  They share no   *)
(* variable: the guard ends with a dialled connection, the tunnel begins   *)
(* with one.  A behaviour therefore explores one of the two, chosen at the *)
(* start and held in `part'; their product would only repeat each part in  *)
(* every state of the other.                                               *)
(***************************************************************************)
EXTENDS SelfGuard, Tunnel

CONSTANTS own1, own2, lan

MCAddresses == {own1, own2, lan}
MCPublic == {own1, own2}
MCLocal == {lan}
MCSelfHosts == {"none", "name", own1}
MCHostAnswers == {{own1}, {own2}, {lan}}
MCTargetAnswers == {{own1}, {own2}, {own1, own2, lan}}

VARIABLE part

vars == <<part, guardVars, tunnelVars>>

Init ==
    /\ GuardInit /\ TunnelInit
    /\ \/ part = "guard"
       \/ part = "tunnel" /\ selfHost = "none" /\ dns = {own1}

Next ==
    \/ part = "guard" /\ GuardNext /\ UNCHANGED <<part, tunnelVars>>
    \/ part = "tunnel" /\ TunnelNext /\ UNCHANGED <<part, guardVars>>

FairSpec ==
    /\ Init /\ [][Next]_vars
    /\ part = "guard" => GuardFairness
    /\ part = "tunnel" => TunnelFairness

TypeOK == GuardTypeOK /\ TunnelTypeOK
=============================================================================
