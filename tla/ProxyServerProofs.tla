------------------------- MODULE ProxyServerProofs --------------------------
(***************************************************************************)
(* The guard (NeverDialsKnownSelf, FailsClosed) for every set of requests  *)
(* and addresses, every record of the own host and every kind of selfHost; *)
(* the tunnel (InOrder, AnswerDelivered, TruncationVisible,                *)
(* NothingLeftBehind) for any number of bytes; and the two as they are     *)
(* composed in MCProxyServer.                                              *)
(***************************************************************************)
EXTENDS MCProxyServer, TLAPS

-----------------------------------------------------------------------------
(* The guard. *)

Forbidden(r) == request[r].owed \union ExtraSelf \union Local

Searching == {"resolve", "dial", "dialing", "connected"}

(* What is owed is known: selfResolved only grows, so a lookup that another request *)
(* learns later takes nothing away.  Requests look up only a host name.             *)
OwedIsKnown ==
    \A r \in Requests :
        /\ request[r].owed \subseteq selfResolved
        /\ selfHost # "name" => request[r].owed = {}
        /\ request[r].pc \in {"asking", "answered"} => selfHost = "name"

SelfIsComplete ==
    \A r \in Requests : request[r].pc = "resolve" => Forbidden(r) \subseteq request[r].self

TargetsAreFree ==
    \A r \in Requests :
        request[r].pc \in {"dial", "dialing", "connected"} =>
            request[r].targets \intersect Forbidden(r) = {}

PublicIsKnown ==
    \A r \in Requests :
        request[r].pc \in Searching /\ selfHost # "none" => KnownSelf \intersect Public # {}

GuardInv ==
    /\ GuardTypeOK /\ OwedIsKnown /\ SelfIsComplete /\ TargetsAreFree
    /\ NeverDialsKnownSelf /\ PublicIsKnown

USE DEF Become, Refuse, Idle

-----------------------------------------------------------------------------
(* The steps of one request. *)
Steps(r) == Ask(r) \/ Answer(r) \/ LookupFails(r) \/ Proceed(r) \/ ClientLeaves(r)

(* No step forgets an own address, and the configuration stays. *)
LEMMA StepGrows ==
    ASSUME GuardTypeOK, [GuardNext]_guardVars
    PROVE  selfResolved \subseteq selfResolved' /\ selfHost' = selfHost
BY DEF GuardTypeOK, GuardNext, guardVars, Proceed, Ask, Answer, Learn, LookupFails, Merge,
       MergeFails, Resolve, ResolveFails, Dial, DialOk, DialFails, DialEnds, Return,
       ClientLeaves, PauseEnds, HostMoves

(* What is known of the own host grows with it. *)
LEMMA KnownGrows ==
    ASSUME GuardTypeOK, [GuardNext]_guardVars
    PROVE  KnownSelf \subseteq KnownSelf'
<1>1. selfResolved \subseteq selfResolved' /\ selfHost' = selfHost
  BY StepGrows
<1>2. HostSelf \subseteq HostSelf'
  <2>1. CASE selfHost = "name"   BY <1>1, <2>1 DEF HostSelf
  <2>2. CASE selfHost # "name"   BY <1>1, <2>2 DEF HostSelf
  <2>. QED BY <2>1, <2>2
<1>. QED BY <1>2 DEF KnownSelf

(* A step that gives one request another record keeps the table's type. *)
LEMMA BecomeType ==
    ASSUME request \in [Requests -> Request], NEW r \in Requests, NEW next \in Request,
           request' = [request EXCEPT ![r] = next]
    PROVE  request' \in [Requests -> Request]
OBVIOUS

(* Every action keeps the types. *)
LEMMA TypeStep ==
    ASSUME GuardAssumption, GuardTypeOK, [GuardNext]_guardVars
    PROVE  GuardTypeOK'
<1>1. ASSUME NEW r \in Requests, Steps(r) PROVE request' \in [Requests -> Request]
  <2>0. request \in [Requests -> Request] /\ request[r] \in Request   BY DEF GuardTypeOK
  <2>1. Idle \in Request   BY DEF Request
  <2>2. CASE Ask(r)
    <3>1. ASSUME NEW o \in SUBSET Addresses, NEW p \in {"asking", "merge"}
          PROVE  [Idle EXCEPT !.owed = o, !.pc = p] \in Request
      BY DEF Request
    <3>. QED BY <2>0, <2>2, <3>1, BecomeType DEF Ask, GuardTypeOK
  <2>3. CASE Answer(r)
    <3>1. [request[r] EXCEPT !.pc = "answered", !.self = dns] \in Request
      BY <2>0, GuardAssumption DEF Request, GuardTypeOK, GuardAssumption
    <3>. QED BY <2>0, <2>3, <3>1, BecomeType DEF Answer
  <2>4. CASE Learn(r)
    <3>1. [request[r] EXCEPT !.pc = "merge", !.self = {},
                             !.owed = request[r].owed \union request[r].self] \in Request
      BY <2>0 DEF Request
    <3>. QED BY <2>0, <2>4, <3>1, BecomeType DEF Learn
  <2>5. CASE LookupFails(r)
    <3>1. [request[r] EXCEPT !.pc = "merge", !.failed = TRUE] \in Request
      BY <2>0 DEF Request
    <3>. QED BY <2>0, <2>5, <3>1, BecomeType DEF LookupFails
  <2>6. CASE Merge(r)
    <3>1. KnownSelf \union Local \in SUBSET Addresses
      BY GuardAssumption DEF KnownSelf, HostSelf, GuardAssumption, GuardTypeOK
    <3>2. [request[r] EXCEPT !.pc = "resolve", !.self = KnownSelf \union Local,
                             !.failed = FALSE] \in Request
      BY <2>0, <3>1 DEF Request
    <3>. QED BY <2>0, <2>6, <3>2, BecomeType DEF Merge
  <2>7. CASE Resolve(r)
    <3>1. PICK answer \in TargetAnswers :
            Become(r, [request[r] EXCEPT !.pc = "dial", !.self = {},
                                         !.targets = Allowed(r, answer)])
      BY <2>7 DEF Resolve
    <3>2. Allowed(r, answer) \in SUBSET Addresses   BY GuardAssumption DEF Allowed, GuardAssumption
    <3>3. [request[r] EXCEPT !.pc = "dial", !.self = {},
                             !.targets = Allowed(r, answer)] \in Request
      BY <2>0, <3>2 DEF Request
    <3>. QED BY <2>0, <3>1, <3>3, BecomeType
  <2>8. CASE Dial(r)
    <3>1. PICK a \in request[r].targets :
            Become(r, [request[r] EXCEPT !.pc = "dialing", !.at = a,
                                         !.targets = request[r].targets \ {a}])
      BY <2>8 DEF Dial
    <3>2. [request[r] EXCEPT !.pc = "dialing", !.at = a,
                             !.targets = request[r].targets \ {a}] \in Request
      BY <2>0 DEF Request
    <3>. QED BY <2>0, <3>1, <3>2, BecomeType
  <2>9. CASE DialOk(r)
    <3>1. [request[r] EXCEPT !.pc = "connected", !.targets = {}] \in Request
      BY <2>0 DEF Request
    <3>. QED BY <2>0, <2>9, <3>1, BecomeType DEF DialOk
  <2>10. CASE DialFails(r)
    <3>1. [request[r] EXCEPT !.pc = "dial", !.at = "none"] \in Request
      BY <2>0 DEF Request
    <3>. QED BY <2>0, <2>10, <3>1, BecomeType DEF DialFails
  <2>11. CASE MergeFails(r) \/ ResolveFails(r) \/ DialEnds(r) \/ Return(r)
    BY <2>0, <2>1, <2>11, BecomeType DEF MergeFails, ResolveFails, DialEnds, Return
  <2>12. CASE ClientLeaves(r)
    <3>1. [request[r] EXCEPT !.gone = TRUE] \in Request   BY <2>0 DEF Request
    <3>. QED BY <2>0, <2>12, <3>1, BecomeType DEF ClientLeaves
  <2>. QED
    BY <1>1, <2>2, <2>3, <2>4, <2>5, <2>6, <2>7, <2>8, <2>9, <2>10, <2>11, <2>12
    DEF Steps, Proceed
<1>2. CASE PauseEnds \/ HostMoves \/ UNCHANGED guardVars
  BY <1>2 DEF PauseEnds, HostMoves, guardVars, GuardTypeOK
<1>3. ASSUME NEW r \in Requests, Steps(r)
      PROVE  selfHost' \in SelfHosts /\ dns' \in HostAnswers /\ paused' \in BOOLEAN
  <2>1. CASE LookupFails(r)   BY <2>1 DEF LookupFails, GuardTypeOK
  <2>2. CASE ~LookupFails(r)
    BY <1>3, <2>2 DEF GuardTypeOK, Steps, Proceed, Ask, Answer, Learn, Merge,
       MergeFails, Resolve, ResolveFails, Dial, DialOk, DialFails, DialEnds, Return, ClientLeaves
  <2>. QED BY <2>1, <2>2
<1>4. ASSUME NEW r \in Requests, Steps(r) PROVE selfResolved' \in SUBSET Addresses
  <2>1. request[r].self \subseteq Addresses   BY DEF GuardTypeOK, Request
  <2>. QED
    BY <1>4, <2>1 DEF GuardTypeOK, Steps, Proceed, Ask, Answer, Learn, LookupFails, Merge,
       MergeFails, Resolve, ResolveFails, Dial, DialOk, DialFails, DialEnds, Return, ClientLeaves
<1>5. ASSUME NEW r \in Requests, Steps(r) PROVE GuardTypeOK'
  BY <1>1, <1>3, <1>4, <1>5 DEF GuardTypeOK
<1>. QED BY <1>2, <1>5 DEF GuardNext, Steps

(* The parts of the invariant that speak of one request. *)
Mine(r) ==
    /\ request[r].owed \subseteq selfResolved
    /\ selfHost # "name" => request[r].owed = {}
    /\ request[r].pc \in {"asking", "answered"} => selfHost = "name"
    /\ request[r].pc = "resolve" => Forbidden(r) \subseteq request[r].self
    /\ request[r].pc \in {"dial", "dialing", "connected"} =>
          request[r].targets \intersect Forbidden(r) = {}
    /\ request[r].pc \in {"dialing", "connected"} => request[r].at \notin Forbidden(r)
    /\ request[r].pc \in Searching /\ selfHost # "none" => KnownSelf \intersect Public # {}

(* The invariant, request by request. *)
LEMMA InvIsMine ==
    GuardInv <=> GuardTypeOK /\ \A r \in Requests : Mine(r)
BY DEF GuardInv, Mine, OwedIsKnown, SelfIsComplete, TargetsAreFree, NeverDialsKnownSelf,
       PublicIsKnown, Forbidden

(* A request whose own record does not change keeps its part. *)
LEMMA OthersKeep ==
    ASSUME GuardTypeOK, [GuardNext]_guardVars, NEW q \in Requests, Mine(q),
           request'[q] = request[q]
    PROVE  Mine(q)'
<1>1. selfResolved \subseteq selfResolved' /\ selfHost' = selfHost   BY StepGrows
<1>2. KnownSelf \subseteq KnownSelf'   BY KnownGrows
<1>. QED BY <1>1, <1>2 DEF Mine, Forbidden

(* The request that moves keeps its part, action by action. *)
LEMMA MoverKeeps ==
    ASSUME GuardAssumption, GuardTypeOK, NEW r \in Requests, Mine(r), Steps(r)
    PROVE  Mine(r)'
<1>. USE DEF GuardTypeOK, Request, Mine, Forbidden, Searching
<1>0. [GuardNext]_guardVars   BY DEF Steps, GuardNext
<1>1. KnownSelf \subseteq KnownSelf'   BY <1>0, KnownGrows
<1>2. CASE Ask(r)           BY <1>2 DEF Ask
<1>3. CASE Answer(r)        BY <1>3 DEF Answer
<1>4. CASE Learn(r)         BY <1>4 DEF Learn
<1>5. CASE LookupFails(r)   BY <1>5 DEF LookupFails
<1>6. CASE Merge(r)
  <2>1. request'[r].self = KnownSelf \union Local /\ request'[r].owed = request[r].owed
    BY <1>6 DEF Merge
  <2>2. request[r].owed \subseteq KnownSelf
    BY DEF KnownSelf, HostSelf
  <2>3. selfHost # "none" => KnownSelf \intersect Public # {}
    BY <1>6 DEF Merge, MayMerge
  <2>4. UNCHANGED <<selfHost, selfResolved>> /\ request'[r].pc = "resolve"
    BY <1>6 DEF Merge
  <2>5. Forbidden(r)' \subseteq request'[r].self
    BY <2>1, <2>2, <2>4 DEF KnownSelf
  <2>. QED BY <2>1, <2>3, <2>4, <2>5, <1>1
<1>7. CASE MergeFails(r)    BY <1>7 DEF MergeFails
<1>8. CASE Resolve(r)
  <2>1. PICK answer \in TargetAnswers :
          request' = [request EXCEPT ![r] = [request[r] EXCEPT !.pc = "dial", !.self = {},
                                              !.targets = Allowed(r, answer)]]
    BY <1>8 DEF Resolve
  <2>2. request'[r].targets = Allowed(r, answer) /\ request'[r].owed = request[r].owed
        /\ request'[r].pc = "dial"
    BY <2>1
  <2>3. Allowed(r, answer) \intersect Forbidden(r) = {}
    BY <1>8 DEF Resolve, Allowed
  <2>4. UNCHANGED <<selfHost, selfResolved>>   BY <1>8 DEF Resolve
  <2>. QED BY <1>8, <2>2, <2>3, <2>4, <1>1 DEF Resolve
<1>9. CASE ResolveFails(r)  BY <1>9 DEF ResolveFails
<1>10. CASE Dial(r)
  <2>1. PICK a \in request[r].targets :
          request' = [request EXCEPT ![r] = [request[r] EXCEPT !.pc = "dialing", !.at = a,
                                              !.targets = @ \ {a}]]
    BY <1>10 DEF Dial
  <2>2. request'[r].at = a /\ request'[r].targets = request[r].targets \ {a}
        /\ request'[r].owed = request[r].owed /\ request'[r].pc = "dialing"
    BY <2>1
  <2>3. UNCHANGED <<selfHost, selfResolved>>   BY <1>10 DEF Dial
  <2>. QED BY <1>10, <2>2, <2>3, <1>1 DEF Dial
<1>11. CASE DialOk(r)       BY <1>11, <1>1 DEF DialOk
<1>12. CASE DialFails(r)    BY <1>12, <1>1 DEF DialFails
<1>13. CASE DialEnds(r)     BY <1>13 DEF DialEnds
<1>14. CASE Return(r)       BY <1>14 DEF Return
<1>15. CASE ClientLeaves(r) BY <1>15, <1>1 DEF ClientLeaves
<1>. QED
  BY <1>2, <1>3, <1>4, <1>5, <1>6, <1>7, <1>8, <1>9, <1>10, <1>11, <1>12, <1>13, <1>14,
     <1>15 DEF Steps, Proceed

(* A step of one request leaves the records of the others alone. *)
LEMMA OnlyMine ==
    ASSUME GuardTypeOK, NEW r \in Requests, Steps(r), NEW q \in Requests \ {r}
    PROVE  request'[q] = request[q]
BY DEF GuardTypeOK, Steps, Proceed, Ask, Answer, Learn, LookupFails, Merge, MergeFails,
       Resolve, ResolveFails, Dial, DialOk, DialFails, DialEnds, Return, ClientLeaves

(* The invariant holds at the start, *)
LEMMA GuardInvInit ==
    ASSUME GuardAssumption, GuardInit
    PROVE  GuardInv
<1>1. GuardTypeOK   BY DEF GuardAssumption, GuardInit, GuardTypeOK, Request
<1>2. ASSUME NEW r \in Requests PROVE Mine(r)
  BY DEF GuardInit, Mine, Forbidden, Searching
<1>. QED BY <1>1, <1>2, InvIsMine

(* and every step keeps it. *)
LEMMA GuardInvStep ==
    ASSUME GuardAssumption, GuardInv, [GuardNext]_guardVars
    PROVE  GuardInv'
<1>1. GuardTypeOK /\ \A r \in Requests : Mine(r)   BY InvIsMine
<1>2. GuardTypeOK'   BY <1>1, TypeStep
<1>3. ASSUME NEW q \in Requests PROVE Mine(q)'
  <2>1. ASSUME NEW r \in Requests, Steps(r) PROVE Mine(q)'
    <3>1. CASE q = r   BY <1>1, <2>1, <3>1, MoverKeeps
    <3>2. CASE q # r   BY <1>1, <1>3, <2>1, <3>2, OnlyMine, OthersKeep
    <3>. QED BY <3>1, <3>2
  <2>2. CASE PauseEnds \/ HostMoves \/ UNCHANGED guardVars
    <3>1. request' = request   BY <2>2 DEF PauseEnds, HostMoves, guardVars
    <3>. QED BY <1>1, <1>3, <3>1, OthersKeep
  <2>. QED BY <2>1, <2>2 DEF GuardNext, Steps
<1>4. (GuardInv)' <=> (GuardTypeOK' /\ \A r \in Requests : Mine(r)')
  BY DEF GuardInv, Mine, OwedIsKnown, SelfIsComplete, TargetsAreFree, NeverDialsKnownSelf,
         PublicIsKnown, Forbidden
<1>. QED BY <1>2, <1>3, <1>4

(* The invariant holds in every reachable state. *)
THEOREM GuardInvariant == GuardSpec => []GuardInv
<1>1. GuardInit => GuardInv   BY GuardAssumption, GuardInvInit
<1>2. GuardInv /\ [GuardNext]_guardVars => GuardInv'   BY GuardAssumption, GuardInvStep
<1>. QED BY <1>1, <1>2, PTL DEF GuardSpec

(* The proxy's variables keep their types. *)
THEOREM GuardType == GuardSpec => []GuardTypeOK
<1>1. GuardInv => GuardTypeOK   BY DEF GuardInv
<1>. QED BY <1>1, GuardInvariant, PTL

(* No request dials an address it had to know for the proxy's own, for any number of *)
(* requests that overlap and however the record of the host moves (selfAddresses).   *)
THEOREM GuardNeverDialsKnownSelf == GuardSpec => []NeverDialsKnownSelf
<1>1. GuardInv => NeverDialsKnownSelf   BY DEF GuardInv
<1>. QED BY <1>1, GuardInvariant, PTL

(* With a configured host nothing is dialled before a public own address is known.   *)
THEOREM GuardFailsClosed == GuardSpec => []FailsClosed
<1>1. GuardInv => FailsClosed   BY DEF GuardInv, PublicIsKnown, FailsClosed, Searching
<1>. QED BY <1>1, GuardInvariant, PTL

-----------------------------------------------------------------------------
(* The tunnel. *)
HIDE DEF Become, Refuse, Idle

Types ==
    /\ kind \in {"connect", "upgrade", "forward"}
    /\ handler \in {"idle", "hijack", "establish", "copying", "closing", "returned",
                    "aborted", "refused"}
    /\ sent \in [Sides -> 0..MaxBytes]
    /\ peer \in [Sides -> {"open", "eof", "reset"}]
    /\ taken \in [Sides -> Nat]
    /\ conn \in [Sides -> {"open", "halfclosed", "closed"}]
    /\ copier \in [Sides -> {"none", "reads", "writes", "ended"}]
    /\ clean \in [Sides -> BOOLEAN]
    /\ buffered \in Seq(Nat)
    /\ chunk \in [Sides -> Seq(Nat)]
    /\ received \in [Sides -> Seq(Nat)]

(* What was received is a prefix of what was sent; until a write fails it goes on    *)
(* with the chunk and with the parser's bytes, and that is all that was taken.       *)
Numbered(q, from) == \A i \in 1..Len(q) : q[i] = from + i

Waiting(s) == IF s = "client" THEN Len(buffered) ELSE 0

Flow(s) ==
    /\ Numbered(received[s], 0)
    /\ Numbered(chunk[s], Len(received[s]))
    /\ taken[s] <= sent[s]
    /\ Len(received[s]) + Len(chunk[s]) <= taken[s]
    /\ copier[s] # "writes" => chunk[s] = <<>>
    /\ copier[s] \in {"none", "reads", "writes"} =>
          Len(received[s]) + Len(chunk[s]) + Waiting(s) = taken[s]
    /\ clean[s] => copier[s] = "ended" /\ Len(received[s]) = sent[s] /\ peer[s] # "open"

(* The parser's bytes are the first ones. *)
Parsed ==
    /\ Numbered(buffered, 0)
    /\ buffered # <<>> => copier["client"] \in {"none", "reads"} /\ received["client"] = <<>>

(* Where the handler is tells which copiers run and which connections are open. *)
Stage ==
    /\ conn["client"] # "halfclosed"
    /\ handler \in {"idle", "hijack", "establish", "refused"} =>
          \A s \in Sides : copier[s] = "none"
    /\ handler \in {"idle", "hijack"} => taken["client"] = 0 /\ buffered = <<>>
    /\ handler \in {"idle", "hijack", "establish", "copying"} =>
          \A s \in Sides : conn[s] # "closed"
    /\ handler \in {"hijack", "establish", "closing", "refused"} => kind # "forward"
    /\ handler = "refused" => conn["upstream"] = "closed"
    /\ handler \in {"closing", "aborted"} => \A s \in Sides : conn[s] = "closed"
    /\ handler \in {"returned", "aborted"} => \A s \in Sides : copier[s] \in {"none", "ended"}
    /\ handler = "returned" =>
          /\ conn["upstream"] = "closed"
          /\ kind # "forward" => conn["client"] = "closed"
          /\ kind = "forward" => clean["upstream"]
    /\ kind = "forward" => copier["client"] = "none"

(* While the client keeps its connection, only the upstream's direction can end      *)
(* first, and of its own accord.                                                     *)
EndsFirst ==
    kind # "forward" /\ peer["client"] = "open" /\ peer["upstream"] # "reset" =>
        /\ handler = "copying" =>
              /\ copier["client"] # "ended"
              /\ copier["upstream"] = "ended" => clean["upstream"]
        /\ handler \in {"closing", "returned"} => clean["upstream"]

TunnelInv ==
    /\ Types /\ (\A s \in Sides : Flow(s)) /\ Parsed /\ Stage /\ EndsFirst

USE TunnelAssumption DEF Sides, Other, TunnelAssumption

-----------------------------------------------------------------------------
(* Numbered sequences. *)

LEMMA CountingUp ==
    ASSUME NEW n \in Nat, NEW k \in Nat, NEW q, q = [i \in 1..n |-> k + i]
    PROVE  q \in Seq(Nat) /\ Len(q) = n /\ Numbered(q, k)
BY DEF Numbered

LEMMA AppendNumbered ==
    ASSUME NEW p \in Seq(Nat), NEW q \in Seq(Nat), Numbered(p, 0), Numbered(q, Len(p))
    PROVE  p \o q \in Seq(Nat) /\ Len(p \o q) = Len(p) + Len(q) /\ Numbered(p \o q, 0)
BY DEF Numbered

LEMMA PrefixNumbered ==
    ASSUME NEW q \in Seq(Nat), NEW k \in Nat, NEW n \in 0..Len(q), Numbered(q, k)
    PROVE  /\ SubSeq(q, 1, n) \in Seq(Nat) /\ Len(SubSeq(q, 1, n)) = n
           /\ Numbered(SubSeq(q, 1, n), k)
BY DEF Numbered

-----------------------------------------------------------------------------
(* The steps of the copiers, by what they do to the data. *)

LEMMA TypesStep ==
    ASSUME TunnelInv, [TunnelNext]_tunnelVars
    PROVE  Types'
<1>. USE DEF TunnelInv
<1>1. ASSUME NEW s \in Sides, Peer(s) PROVE Types'
  BY <1>1 DEF Types, Peer, Send, EndStream, Reset, copyVars
<1>2. ASSUME NEW s \in Sides, Read(s) PROVE Types'
  <2>1. PICK n \in taken[s] + 1..sent[s] :
          /\ chunk' = [chunk EXCEPT ![s] = [i \in 1..n - taken[s] |-> taken[s] + i]]
          /\ taken' = [taken EXCEPT ![s] = n]
    BY <1>2 DEF Read
  <2>3. n \in Nat /\ taken[s] \in Nat /\ n - taken[s] \in Nat   BY DEF Types
  <2>2. [i \in 1..n - taken[s] |-> taken[s] + i] \in Seq(Nat)
    BY <2>3
  <2>. QED BY <1>2, <2>1, <2>2, <2>3 DEF Types, Read, peerVars
<1>3. ASSUME NEW s \in Sides, Write(s) PROVE Types'
  <2>1. received[s] \o chunk[s] \in Seq(Nat)   BY DEF Types
  <2>. QED BY <1>3, <2>1 DEF Types, Write, peerVars
<1>4. ASSUME NEW s \in Sides, CopierEnds(s) PROVE Types'
  <2>1. CASE ReadEOF(s)     BY <2>1 DEF Types, ReadEOF, EndCopy, peerVars
  <2>2. CASE ReadFails(s)   BY <2>2 DEF Types, ReadFails, EndCopy, peerVars
  <2>3. CASE WriteFails(s)
    <3>1. PICK n \in 0..Len(chunk[s]) - 1 :
            received' = [received EXCEPT ![s] = @ \o SubSeq(chunk[s], 1, n)]
      BY <2>3 DEF WriteFails
    <3>2. received[s] \in Seq(Nat) /\ chunk[s] \in Seq(Nat)   BY DEF Types
    <3>3. SubSeq(chunk[s], 1, n) \in Seq(Nat)   BY <3>2
    <3>4. received[s] \o SubSeq(chunk[s], 1, n) \in Seq(Nat)   BY <3>2, <3>3
    <3>5. received' \in [Sides -> Seq(Nat)]   BY <3>1, <3>4 DEF Types
    <3>7. chunk' \in [Sides -> Seq(Nat)]
      <4>1. chunk' = [chunk EXCEPT ![s] = <<>>]   BY <2>3 DEF WriteFails
      <4>. QED BY <4>1 DEF Types
    <3>6. /\ copier' \in [Sides -> {"none", "reads", "writes", "ended"}]
          /\ clean' \in [Sides -> BOOLEAN]
          /\ conn' \in [Sides -> {"open", "halfclosed", "closed"}]
      <4>1. EndCopy(s, FALSE)   BY <2>3 DEF WriteFails
      <4>. QED BY <4>1 DEF Types, EndCopy
    <3>. QED BY <2>3, <3>5, <3>6, <3>7 DEF Types, WriteFails, peerVars
  <2>. QED BY <1>4, <2>1, <2>2, <2>3 DEF CopierEnds
<1>5. CASE ReadBuffered   BY <1>5 DEF Types, ReadBuffered, peerVars
<1>6. CASE Hijack
  <2>1. PICK n \in 0..sent["client"] :
          /\ buffered' = [i \in 1..n |-> i]
          /\ taken' = [taken EXCEPT !["client"] = n]
    BY <1>6 DEF Hijack
  <2>2. n \in Nat   BY DEF Types
  <2>3. [i \in 1..n |-> i] \in Seq(Nat)   BY <2>2
  <2>. QED BY <1>6, <2>1, <2>2, <2>3 DEF Types, Hijack, peerVars
<1>7. CASE Handler /\ ~Hijack
  BY <1>7 DEF Types, Handler, HijackFails, Establish, EstablishFails, CloseBoth,
      TunnelReturns, ForwardReturns, ForwardAborts, peerVars, copyVars
<1>8. CASE Reuse   BY <1>8 DEF Types, Reuse
<1>9. ASSUME NEW k \in {"connect", "upgrade", "forward"}, Begin(k) PROVE Types'
  BY <1>9 DEF Types, Begin, peerVars
<1>10. CASE UNCHANGED tunnelVars
  BY <1>10 DEF Types, tunnelVars, peerVars, copyVars
<1>. QED BY <1>1, <1>2, <1>3, <1>4, <1>5, <1>6, <1>7, <1>8, <1>9, <1>10 DEF TunnelNext

(* What one direction has, as far as Flow speaks of it. *)
Same(t) ==
    /\ received[t]' = received[t] /\ chunk[t]' = chunk[t] /\ taken[t]' = taken[t]
    /\ copier[t]' = copier[t] /\ clean[t]' = clean[t]

LEMMA FlowSame ==
    ASSUME NEW t \in Sides, Flow(t), Same(t), Waiting(t)' = Waiting(t),
           sent[t]' = sent[t], peer[t]' = peer[t]
    PROVE  Flow(t)'
BY DEF Flow, Same, Numbered

(* A copier's step leaves the other direction as it is. *)
LEMMA FlowOther ==
    ASSUME Types, NEW s \in Sides, NEW t \in Sides, t # s, Flow(t),
           Read(s) \/ Write(s) \/ CopierEnds(s)
    PROVE  Flow(t)'
<1>1. CASE Read(s)
  <2>1. Same(t) /\ Waiting(t)' = Waiting(t) /\ sent[t]' = sent[t] /\ peer[t]' = peer[t]
    BY <1>1 DEF Types, Read, Same, Waiting, peerVars
  <2>. QED BY <2>1, FlowSame
<1>2. CASE Write(s)
  <2>1. Same(t) /\ Waiting(t)' = Waiting(t) /\ sent[t]' = sent[t] /\ peer[t]' = peer[t]
    BY <1>2 DEF Types, Write, Same, Waiting, peerVars
  <2>. QED BY <2>1, FlowSame
<1>3. CASE CopierEnds(s)
  <2>1. PICK b \in BOOLEAN : EndCopy(s, b)
    BY <1>3 DEF CopierEnds, ReadEOF, ReadFails, WriteFails
  <2>2. copier[t]' = copier[t] /\ clean[t]' = clean[t]   BY <2>1 DEF EndCopy, Types
  <2>3. received[t]' = received[t] /\ chunk[t]' = chunk[t]
    <3>1. CASE WriteFails(s)
      <4>1. PICK d : received' = [received EXCEPT ![s] = d]   BY <3>1 DEF WriteFails
      <4>2. chunk' = [chunk EXCEPT ![s] = <<>>]   BY <3>1 DEF WriteFails
      <4>. QED BY <4>1, <4>2 DEF Types
    <3>. QED BY <1>3, <3>1 DEF CopierEnds, ReadEOF, ReadFails
  <2>4. UNCHANGED <<sent, peer, taken, buffered>>
    BY <1>3 DEF CopierEnds, ReadEOF, ReadFails, WriteFails, peerVars
  <2>. QED BY <2>2, <2>3, <2>4, FlowSame DEF Same, Waiting
<1>. QED BY <1>1, <1>2, <1>3

LEMMA FlowRead ==
    ASSUME Types, NEW s \in Sides, Flow(s), Parsed, Read(s)
    PROVE  Flow(s)'
<1>1. PICK n \in taken[s] + 1..sent[s] :
        /\ chunk' = [chunk EXCEPT ![s] = [i \in 1..n - taken[s] |-> taken[s] + i]]
        /\ taken' = [taken EXCEPT ![s] = n]
  BY DEF Read
<1>2. n \in Nat /\ taken[s] \in Nat /\ n - taken[s] \in Nat /\ received[s] \in Seq(Nat)
  BY DEF Types
<1>3. chunk[s]' = [i \in 1..n - taken[s] |-> taken[s] + i] /\ taken[s]' = n
  BY <1>1 DEF Types
<1>4. Len(chunk[s]') = n - taken[s] /\ Numbered(chunk[s]', taken[s])
  BY <1>2, <1>3, CountingUp
<1>5. Waiting(s) = 0   BY DEF Read, FromWire, Waiting
<1>6. Len(received[s]) = taken[s]
  <2>1. copier[s] = "reads"   BY DEF Read
  <2>2. chunk[s] = <<>> /\ Len(received[s]) + Len(chunk[s]) + Waiting(s) = taken[s]
    BY <2>1 DEF Flow
  <2>3. Len(chunk[s]) = 0 /\ Len(received[s]) \in Nat   BY <1>2, <2>2
  <2>. QED BY <1>5, <2>2, <2>3
<1>7. received' = received /\ buffered' = buffered /\ sent' = sent /\ clean' = clean
  BY DEF Read, peerVars
<1>8. copier[s]' = "writes" /\ ~clean[s]   BY DEF Read, Types, Flow
<1>9. Waiting(s)' = Waiting(s) /\ n <= sent[s]   BY <1>7 DEF Waiting, Types
<1>10. Len(received[s]') = taken[s] /\ Numbered(received[s]', 0)   BY <1>6, <1>7 DEF Flow
<1>11. /\ Len(received[s]') + Len(chunk[s]') = taken[s]'
       /\ taken[s]' <= sent[s]' /\ ~clean[s]'
  BY <1>2, <1>3, <1>4, <1>7, <1>8, <1>9, <1>10
<1>. QED BY <1>2, <1>3, <1>4, <1>5, <1>8, <1>9, <1>10, <1>11 DEF Flow

LEMMA FlowWrite ==
    ASSUME Types, NEW s \in Sides, Flow(s), Parsed, Write(s)
    PROVE  Flow(s)'
<1>1. received[s] \in Seq(Nat) /\ chunk[s] \in Seq(Nat)   BY DEF Types
<1>2. received[s]' = received[s] \o chunk[s] /\ chunk[s]' = <<>> /\ copier[s]' = "reads"
  BY DEF Write, Types
<1>3. Len(received[s]') = Len(received[s]) + Len(chunk[s]) /\ Numbered(received[s]', 0)
  BY <1>1, <1>2, AppendNumbered DEF Flow
<1>4. UNCHANGED <<taken, buffered, sent, clean>>   BY DEF Write, peerVars
<1>5. copier[s] = "writes" /\ ~clean[s]   BY DEF Write, Flow
<1>6. Len(received[s]) + Len(chunk[s]) + Waiting(s) = taken[s]   BY <1>5 DEF Flow
<1>7. Waiting(s)' = Waiting(s) /\ Waiting(s) \in Nat   BY <1>4 DEF Waiting, Types
<1>8. /\ Len(received[s]) \in Nat /\ Len(chunk[s]) \in Nat /\ taken[s] <= sent[s]
      /\ taken[s] \in Nat /\ sent[s] \in Nat /\ taken[s]' = taken[s] /\ sent[s]' = sent[s]
      /\ clean[s]' = clean[s]
  BY <1>1, <1>4 DEF Flow, Types
<1>9. Numbered(chunk[s]', Len(received[s]')) /\ Len(chunk[s]') = 0
  BY <1>2 DEF Numbered
<1>10. Len(received[s]') + Len(chunk[s]') = Len(received[s]) + Len(chunk[s])
  BY <1>3, <1>8, <1>9
<1>11. Len(received[s]') + Len(chunk[s]') + Waiting(s)' = taken[s]'
  BY <1>6, <1>7, <1>8, <1>10
<1>12. Len(received[s]') + Len(chunk[s]') <= taken[s]'
  BY <1>8, <1>10 DEF Flow
<1>13. taken[s]' <= sent[s]' /\ ~clean[s]'   BY <1>5, <1>8
<1>. QED BY <1>2, <1>3, <1>9, <1>11, <1>12, <1>13 DEF Flow

LEMMA FlowEnds ==
    ASSUME Types, NEW s \in Sides, Flow(s), Parsed, CopierEnds(s)
    PROVE  Flow(s)'
<1>1. received[s] \in Seq(Nat) /\ chunk[s] \in Seq(Nat) /\ taken[s] \in Nat
  BY DEF Types
<1>2. UNCHANGED <<sent, peer, taken, buffered>>
  BY DEF CopierEnds, ReadEOF, ReadFails, WriteFails, peerVars
<1>3. PICK b \in BOOLEAN : EndCopy(s, b) /\ (b => ReadEOF(s))
  BY DEF CopierEnds, ReadEOF, ReadFails, WriteFails
<1>4. copier[s]' = "ended" /\ clean[s]' = b   BY <1>3 DEF EndCopy, Types
<1>5. CASE ReadEOF(s) \/ ReadFails(s)
  <2>1. received' = received /\ chunk' = chunk /\ copier[s] = "reads"
    BY <1>5 DEF ReadEOF, ReadFails
  <2>2. Waiting(s) = 0   BY <1>5 DEF ReadEOF, ReadFails, FromWire, Waiting
  <2>3. Len(received[s]) = taken[s] /\ chunk[s] = <<>>
    <3>1. chunk[s] = <<>> /\ Len(received[s]) + Len(chunk[s]) + Waiting(s) = taken[s]
      BY <2>1 DEF Flow
    <3>. QED BY <1>1, <2>2, <3>1
  <2>4. b => taken[s] = sent[s] /\ peer[s] = "eof"   BY <1>3 DEF ReadEOF
  <2>. QED BY <1>2, <1>4, <2>1, <2>3, <2>4 DEF Flow, Numbered
<1>6. CASE WriteFails(s)
  <2>1. PICK n \in 0..Len(chunk[s]) - 1 :
          received' = [received EXCEPT ![s] = @ \o SubSeq(chunk[s], 1, n)]
    BY <1>6 DEF WriteFails
  <2>2. received[s]' = received[s] \o SubSeq(chunk[s], 1, n)   BY <2>1 DEF Types
  <2>3. /\ n \in 0..Len(chunk[s]) /\ n \in Nat
        /\ Len(received[s]) \in Nat /\ Len(chunk[s]) \in Nat
    BY <1>1
  <2>4. /\ SubSeq(chunk[s], 1, n) \in Seq(Nat) /\ Len(SubSeq(chunk[s], 1, n)) = n
        /\ Numbered(SubSeq(chunk[s], 1, n), Len(received[s]))
    BY <1>1, <2>3, PrefixNumbered DEF Flow
  <2>5. Len(received[s]') = Len(received[s]) + n /\ Numbered(received[s]', 0)
    BY <1>1, <2>2, <2>4, AppendNumbered DEF Flow
  <2>6. chunk[s]' = <<>>
    <3>1. chunk' = [chunk EXCEPT ![s] = <<>>]   BY <1>6 DEF WriteFails
    <3>. QED BY <3>1 DEF Types
  <2>7. ~b
    <3>1. ~ReadEOF(s)   BY <1>6 DEF WriteFails, ReadEOF
    <3>. QED BY <1>3, <3>1
  <2>8. Len(received[s]) + Len(chunk[s]) <= taken[s] /\ taken[s] <= sent[s]   BY DEF Flow
  <2>9. Len(received[s]') + Len(chunk[s]') <= taken[s]'
    <3>1. taken[s]' = taken[s] /\ Len(chunk[s]') = 0   BY <1>2, <2>6
    <3>2. PICK r \in Nat, c \in Nat : r = Len(received[s]) /\ c = Len(chunk[s])   BY <2>3
    <3>3. n <= c /\ r + c <= taken[s]
      <4>1. n \in 0..c   BY <2>3, <3>2
      <4>2. r + c <= taken[s]   BY <2>8, <3>2
      <4>. QED BY <4>1, <4>2
    <3>4. Len(received[s]') = r + n   BY <2>5, <3>2
    <3>. QED BY <1>1, <2>3, <3>1, <3>3, <3>4
  <2>. QED BY <1>2, <1>4, <2>5, <2>6, <2>7, <2>8, <2>9 DEF Flow, Numbered
<1>. QED BY <1>5, <1>6 DEF CopierEnds

(* A peer's step: a direction that ended cleanly has no peer that could still send. *)
LEMMA FlowPeer ==
    ASSUME Types, NEW s \in Sides, NEW t \in Sides, Flow(t), Peer(s)
    PROVE  Flow(t)'
<1>1. Same(t) /\ Waiting(t)' = Waiting(t)
  BY DEF Peer, Send, EndStream, Reset, Same, Waiting, copyVars
<1>2. sent[t] <= sent[t]' /\ (peer[t] # "open" => sent[t]' = sent[t] /\ peer[t]' # "open")
  BY DEF Peer, Send, EndStream, Reset, Types
<1>3. taken[t] \in Nat /\ sent[t] \in Nat /\ sent[t]' \in Nat
  BY DEF Peer, Send, EndStream, Reset, Types
<1>4. taken[t]' <= sent[t]'
  <2>1. taken[t]' = taken[t] /\ taken[t] <= sent[t]   BY <1>1 DEF Same, Flow
  <2>. QED BY <1>2, <1>3, <2>1
<1>5. clean[t]' => copier[t]' = "ended" /\ Len(received[t]') = sent[t]' /\ peer[t]' # "open"
  BY <1>1, <1>2 DEF Same, Flow
<1>. QED BY <1>1, <1>4, <1>5 DEF Same, Flow, Numbered

(* The steps of the handler other than Hijack move no data, and start only copiers    *)
(* that have none.                                                                    *)
LEMMA FlowHandler ==
    ASSUME Types, Stage, NEW t \in Sides, Flow(t), ~Hijack,
           Handler \/ \E k \in {"connect", "upgrade", "forward"} : Begin(k)
    PROVE  Flow(t)'
<1>1. UNCHANGED <<received, chunk, taken, buffered, sent, peer, clean>>
  BY DEF Handler, HijackFails, Establish, EstablishFails, CloseBoth, TunnelReturns,
      ForwardReturns, ForwardAborts, Begin, peerVars, copyVars
<1>2. copier[t]' = copier[t] \/ (copier[t] = "none" /\ copier[t]' = "reads")
  BY DEF Handler, HijackFails, Establish, EstablishFails, CloseBoth, TunnelReturns,
      ForwardReturns, ForwardAborts, Begin, copyVars, Stage, Types
<1>. QED BY <1>1, <1>2 DEF Flow, Numbered, Waiting

LEMMA FlowHijack ==
    ASSUME Types, Stage, NEW t \in Sides, Flow(t), Hijack
    PROVE  Flow(t)'
<1>1. PICK n \in 0..sent["client"] :
        buffered' = [i \in 1..n |-> i] /\ taken' = [taken EXCEPT !["client"] = n]
  BY DEF Hijack
<1>2. UNCHANGED <<received, chunk, sent, peer, clean, copier>>   BY DEF Hijack, peerVars
<1>3. CASE t = "upstream"
  BY <1>1, <1>2, <1>3, FlowSame DEF Same, Waiting, Types
<1>4. CASE t = "client"
  <2>1. n \in Nat /\ n <= sent["client"] /\ taken["client"]' = n /\ Len(buffered') = n
    BY <1>1 DEF Types
  <2>2. copier["client"] = "none" /\ taken["client"] = 0 /\ buffered = <<>>
    BY DEF Hijack, Stage
  <2>3. received["client"] \in Seq(Nat) /\ chunk["client"] \in Seq(Nat)   BY DEF Types
  <2>4. Len(received["client"]) = 0 /\ Len(chunk["client"]) = 0
    <3>1. PICK r \in Nat, c \in Nat :
            r = Len(received["client"]) /\ c = Len(chunk["client"])
      BY <2>3
    <3>2. Len(received["client"]) + Len(chunk["client"]) <= taken["client"]
      BY <1>4 DEF Flow
    <3>3. r + c <= 0   BY <2>2, <3>1, <3>2
    <3>4. r = 0 /\ c = 0   BY <3>3
    <3>. QED BY <3>1, <3>4
  <2>5. Len(received["client"]') + Len(chunk["client"]') = 0 /\ Waiting("client")' = n
    BY <1>2, <2>1, <2>4 DEF Waiting
  <2>6. /\ Len(received[t]') + Len(chunk[t]') <= taken[t]'
        /\ Len(received[t]') + Len(chunk[t]') + Waiting(t)' = taken[t]'
    <3>1. 0 <= n /\ 0 + n = n   BY <2>1
    <3>. QED BY <1>4, <2>1, <2>5, <3>1
  <2>7. ~clean[t]   BY <1>4, <2>2 DEF Flow
  <2>. QED BY <1>2, <1>4, <2>1, <2>6, <2>7 DEF Flow, Numbered
<1>. QED BY <1>3, <1>4

LEMMA FlowReadBuffered ==
    ASSUME Types, NEW t \in Sides, Flow(t), Parsed, ReadBuffered
    PROVE  Flow(t)'
<1>1. UNCHANGED <<received, taken, sent, peer, clean>>   BY DEF ReadBuffered, peerVars
<1>2. CASE t = "upstream"
  <2>1. Same(t) /\ Waiting(t)' = Waiting(t)
    BY <1>1, <1>2 DEF ReadBuffered, Same, Waiting, Types
  <2>. QED BY <1>1, <2>1, FlowSame
<1>3. CASE t = "client"
  <2>1. /\ received["client"] = <<>> /\ chunk["client"]' = buffered /\ buffered' = <<>>
        /\ copier["client"] = "reads" /\ copier["client"]' = "writes"
    BY DEF ReadBuffered, Parsed, Types
  <2>2. chunk["client"] = <<>>   BY <1>3, <2>1 DEF Flow
  <2>3. Len(buffered) = taken["client"] /\ ~clean["client"]
    <3>1. PICK n \in Nat : n = Len(buffered)   BY DEF Types
    <3>2. 0 + 0 + n = taken["client"]   BY <1>3, <2>1, <2>2, <3>1 DEF Flow, Waiting
    <3>. QED BY <1>3, <2>1, <3>1, <3>2 DEF Flow
  <2>4. /\ Len(received["client"]') = 0 /\ Len(chunk["client"]') = taken["client"]'
        /\ Waiting("client")' = 0 /\ taken["client"]' \in Nat
    BY <1>1, <2>1, <2>3 DEF Waiting, Types
  <2>5. Numbered(received[t]', 0) /\ Numbered(chunk[t]', Len(received[t]'))
    BY <1>1, <1>3, <2>1, <2>4 DEF Parsed, Numbered
  <2>6. /\ Len(received[t]') + Len(chunk[t]') <= taken[t]'
        /\ Len(received[t]') + Len(chunk[t]') + Waiting(t)' = taken[t]'
    BY <1>3, <2>4
  <2>. QED BY <1>1, <1>3, <2>1, <2>3, <2>5, <2>6 DEF Flow
<1>. QED BY <1>2, <1>3

LEMMA FlowStep ==
    ASSUME TunnelInv, [TunnelNext]_tunnelVars, NEW t \in Sides
    PROVE  Flow(t)'
<1>. USE DEF TunnelInv
<1>1. ASSUME NEW s \in Sides, Read(s) \/ Write(s) \/ CopierEnds(s) PROVE Flow(t)'
  <2>1. CASE t = s   BY <1>1, <2>1, FlowRead, FlowWrite, FlowEnds
  <2>2. CASE t # s   BY <1>1, <2>2, FlowOther
  <2>. QED BY <2>1, <2>2
<1>2. ASSUME NEW s \in Sides, Peer(s) PROVE Flow(t)'   BY <1>2, FlowPeer
<1>3. CASE Reuse   BY <1>3 DEF Reuse, Flow, Numbered, Waiting, Types
<1>4. CASE UNCHANGED tunnelVars
  BY <1>4, FlowSame DEF Same, Waiting, tunnelVars, peerVars, copyVars
<1>. QED BY <1>1, <1>2, <1>3, <1>4, FlowHandler, FlowHijack, FlowReadBuffered DEF TunnelNext

-----------------------------------------------------------------------------
LEMMA ParsedStep ==
    ASSUME TunnelInv, [TunnelNext]_tunnelVars
    PROVE  Parsed'
<1>. USE DEF TunnelInv
<1>1. CASE Hijack
  <2>1. PICK n \in 0..sent["client"] : buffered' = [i \in 1..n |-> i]
    BY <1>1 DEF Hijack
  <2>2. Numbered(buffered', 0)   BY <2>1 DEF Numbered, Types
  <2>3. received["client"]' = received["client"] /\ received["client"] \in Seq(Nat)
    BY <1>1 DEF Hijack, Types
  <2>4. Len(received["client"]) + Len(chunk["client"]) <= 0
    BY <1>1 DEF Hijack, Stage, Flow
  <2>5. chunk["client"] = <<>> /\ copier["client"] = "none"   BY <1>1 DEF Hijack, Stage, Flow
  <2>6. received["client"] = <<>>
    <3>1. Len(chunk["client"]) = 0   BY <2>5
    <3>2. PICK r \in Nat : r = Len(received["client"])   BY <2>3
    <3>3. r + 0 <= 0   BY <2>4, <3>1, <3>2
    <3>4. r = 0   BY <3>3
    <3>5. Len(received["client"]) = 0   BY <3>2, <3>4
    <3>. QED BY <2>3, <3>5
  <2>7. copier["client"]' = "none"   BY <1>1, <2>5 DEF Hijack
  <2>. QED BY <2>2, <2>3, <2>6, <2>7 DEF Parsed
<1>2. CASE Reuse \/ ReadBuffered
  <2>1. buffered' = <<>>   BY <1>2 DEF Reuse, ReadBuffered
  <2>. QED BY <2>1 DEF Parsed, Numbered
<1>3. ASSUME NEW s \in Sides, Read(s) \/ Write(s) \/ CopierEnds(s) PROVE Parsed'
  <2>1. buffered' = buffered
    BY <1>3 DEF Read, Write, CopierEnds, ReadEOF, ReadFails, WriteFails
  <2>2. CASE s = "client"
    <3>1. buffered = <<>>
      BY <1>3, <2>2 DEF Read, Write, CopierEnds, ReadEOF, ReadFails, WriteFails, FromWire, Parsed
    <3>. QED BY <2>1, <3>1 DEF Parsed, Numbered
  <2>3. CASE s = "upstream"
    <3>1. received["client"]' = received["client"] /\ copier["client"]' = copier["client"]
      <4>1. CASE WriteFails(s)
        <5>1. PICK d : received' = [received EXCEPT ![s] = d]   BY <4>1 DEF WriteFails
        <5>2. EndCopy(s, FALSE)   BY <4>1 DEF WriteFails
        <5>. QED BY <2>3, <5>1, <5>2 DEF Types, EndCopy
      <4>. QED BY <1>3, <2>3, <4>1 DEF Read, Write, CopierEnds, ReadEOF, ReadFails, EndCopy, Types
    <3>. QED BY <2>1, <3>1 DEF Parsed, Numbered
  <2>. QED BY <2>2, <2>3
<1>4. ASSUME NEW s \in Sides, Peer(s) PROVE Parsed'
  BY <1>4 DEF Peer, Send, EndStream, Reset, copyVars, Parsed, Numbered
<1>5. CASE (Handler \/ \E k \in {"connect", "upgrade", "forward"} : Begin(k)) /\ ~Hijack
  <2>1. UNCHANGED <<buffered, received>>
    BY <1>5 DEF Handler, HijackFails, Establish, EstablishFails, CloseBoth, TunnelReturns,
      ForwardReturns, ForwardAborts, Begin, copyVars
  <2>2. copier["client"]' = copier["client"] \/ copier["client"]' = "reads"
    BY <1>5 DEF Handler, HijackFails, Establish, EstablishFails, CloseBoth, TunnelReturns,
      ForwardReturns, ForwardAborts, Begin, copyVars, Types
  <2>. QED BY <2>1, <2>2 DEF Parsed, Numbered
<1>6. CASE UNCHANGED tunnelVars   BY <1>6 DEF tunnelVars, copyVars, Parsed, Numbered
<1>. QED BY <1>1, <1>2, <1>3, <1>4, <1>5, <1>6 DEF TunnelNext

(* What the copiers leave alone of the handler, and do to their connection. *)
LEMMA CopierConn ==
    ASSUME Types, NEW s \in Sides,
           Read(s) \/ Write(s) \/ CopierEnds(s) \/ (s = "client" /\ ReadBuffered)
    PROVE  /\ UNCHANGED <<kind, handler, peer>>
           /\ conn["client"]' = conn["client"]
           /\ conn["upstream"]' = conn["upstream"]
                 \/ (conn["upstream"] = "open" /\ conn["upstream"]' = "halfclosed")
           /\ copier[s] \in {"reads", "writes"}
           /\ \A t \in Sides : t # s => copier[t]' = copier[t] /\ clean[t]' = clean[t]
<1>1. CASE CopierEnds(s)
  <2>1. PICK b \in BOOLEAN : EndCopy(s, b)
    BY <1>1 DEF CopierEnds, ReadEOF, ReadFails, WriteFails
  <2>2. UNCHANGED <<kind, handler, peer>> /\ copier[s] \in {"reads", "writes"}
    BY <1>1 DEF CopierEnds, ReadEOF, ReadFails, WriteFails, peerVars
  <2>. QED BY <2>1, <2>2 DEF EndCopy, Types
<1>2. CASE ~CopierEnds(s)
  BY <1>2 DEF Read, Write, ReadBuffered, peerVars, Types
<1>. QED BY <1>1, <1>2

LEMMA StageStep ==
    ASSUME TunnelInv, [TunnelNext]_tunnelVars
    PROVE  Stage'
<1>. USE DEF TunnelInv
<1>1. ASSUME NEW s \in Sides,
             Read(s) \/ Write(s) \/ CopierEnds(s) \/ (s = "client" /\ ReadBuffered)
      PROVE  Stage'
  <2>1. handler \in {"copying", "closing"}   BY <1>1, CopierConn DEF Stage, Types
  <2>. QED BY <1>1, <2>1, CopierConn DEF Stage, Types
<1>2. ASSUME NEW s \in Sides, Peer(s) PROVE Stage'
  BY <1>2 DEF Peer, Send, EndStream, Reset, copyVars, Stage
<1>3. CASE Hijack \/ HijackFails \/ Establish \/ EstablishFails
  BY <1>3 DEF Hijack, HijackFails, Establish, EstablishFails, copyVars, Stage, Types
<1>4. CASE CloseBoth \/ TunnelReturns
  BY <1>4 DEF CloseBoth, TunnelReturns, copyVars, Stage, Types
<1>5. CASE ForwardReturns \/ ForwardAborts
  BY <1>5 DEF ForwardReturns, ForwardAborts, copyVars, Stage, Types
<1>6. CASE Reuse   BY <1>6 DEF Reuse, Stage, Types
<1>7. ASSUME NEW k \in {"connect", "upgrade", "forward"}, Begin(k) PROVE Stage'
  BY <1>7 DEF Begin, peerVars, Stage, Types
<1>8. CASE UNCHANGED tunnelVars   BY <1>8 DEF tunnelVars, copyVars, Stage
<1>. QED BY <1>1, <1>2, <1>3, <1>4, <1>5, <1>6, <1>7, <1>8 DEF TunnelNext, Handler

(* A copier ends by itself only at the end of its own stream while nobody has closed  *)
(* or reset a connection.                                                             *)
LEMMA EndsCleanly ==
    ASSUME Types, Stage, handler = "copying", kind # "forward", NEW s \in Sides,
           peer["client"] # "reset", peer["upstream"] # "reset", CopierEnds(s)
    PROVE  peer[s] = "eof" /\ clean[s]'
<1>1. ~WriteFails(s) /\ ~ReadFails(s)
  BY DEF WriteFails, ReadFails, Cancelled, Stage
<1>2. ReadEOF(s)   BY <1>1 DEF CopierEnds
<1>. QED BY <1>2 DEF ReadEOF, EndCopy, Types

LEMMA EndsFirstStep ==
    ASSUME TunnelInv, [TunnelNext]_tunnelVars
    PROVE  EndsFirst'
<1>. USE DEF TunnelInv
<1>1. ASSUME NEW s \in Sides,
             Read(s) \/ Write(s) \/ CopierEnds(s) \/ (s = "client" /\ ReadBuffered)
      PROVE  EndsFirst'
  <2>1. SUFFICES ASSUME kind # "forward", peer["client"] = "open", peer["upstream"] # "reset"
                 PROVE  /\ handler = "copying" =>
                              /\ copier["client"]' # "ended"
                              /\ copier["upstream"]' = "ended" => clean["upstream"]'
                        /\ handler \in {"closing", "returned"} => clean["upstream"]'
    BY <1>1, CopierConn DEF EndsFirst
  <2>2. CASE handler = "copying"
    <3>1. CASE CopierEnds(s)
      <4>1. s = "upstream" /\ clean["upstream"]'   BY <2>1, <2>2, <3>1, EndsCleanly
      <4>. QED BY <1>1, <2>1, <2>2, <4>1, CopierConn DEF EndsFirst
    <3>2. CASE ~CopierEnds(s)
      <4>1. copier[s]' # "ended"   BY <1>1, <3>2 DEF Read, Write, ReadBuffered, Types
      <4>. QED BY <1>1, <2>1, <2>2, <4>1, CopierConn DEF EndsFirst
    <3>. QED BY <3>1, <3>2
  <2>3. CASE handler \in {"closing", "returned"}
    <3>1. clean["upstream"] /\ copier["upstream"] = "ended"   BY <2>1, <2>3 DEF EndsFirst, Flow
    <3>2. s # "upstream"   BY <1>1, <3>1, CopierConn
    <3>. QED BY <1>1, <2>3, <3>1, <3>2, CopierConn
  <2>. QED BY <2>2, <2>3
<1>2. ASSUME NEW s \in Sides, Peer(s) PROVE EndsFirst'
  BY <1>2 DEF Peer, Send, EndStream, Reset, copyVars, EndsFirst, Types
<1>3. CASE Hijack \/ HijackFails \/ Establish \/ EstablishFails
  BY <1>3 DEF Hijack, HijackFails, Establish, EstablishFails, copyVars, EndsFirst, Types
<1>4. CASE CloseBoth \/ TunnelReturns
  BY <1>4 DEF CloseBoth, TunnelReturns, peerVars, copyVars, EndsFirst
<1>5. CASE ForwardReturns \/ ForwardAborts
  BY <1>5 DEF ForwardReturns, ForwardAborts, EndsFirst
<1>6. CASE Reuse   BY <1>6 DEF Reuse, EndsFirst
<1>7. ASSUME NEW k \in {"connect", "upgrade", "forward"}, Begin(k) PROVE EndsFirst'
  BY <1>7 DEF Begin, EndsFirst
<1>8. CASE UNCHANGED tunnelVars   BY <1>8 DEF tunnelVars, peerVars, copyVars, EndsFirst
<1>. QED BY <1>1, <1>2, <1>3, <1>4, <1>5, <1>6, <1>7, <1>8 DEF TunnelNext, Handler

-----------------------------------------------------------------------------
LEMMA InvInit == TunnelInit => TunnelInv
BY DEF TunnelInit, Fresh, TunnelInv, Types, Flow, Numbered, Waiting, Parsed, Stage, EndsFirst

(* TunnelInv holds always. *)
THEOREM TunnelInvariant == TunnelSpec => []TunnelInv
<1>1. TunnelInv /\ [TunnelNext]_tunnelVars => TunnelInv'
  BY TypesStep, FlowStep, ParsedStep, StageStep, EndsFirstStep DEF TunnelInv
<1>. QED BY InvInit, <1>1, PTL DEF TunnelSpec

(* Each peer has a prefix of what the other sent, in every state of every tunnel and  *)
(* answer: proxy.go, connect, tunnelCopy and forwardHTTP.                              *)
THEOREM TunnelInOrder == TunnelSpec => []InOrder
<1>1. TunnelInv => InOrder
  <2>. SUFFICES ASSUME TunnelInv, NEW s \in Sides
                PROVE  /\ Len(received[s]) <= sent[s]
                       /\ \A i \in 1..Len(received[s]) : received[s][i] = i
    BY DEF InOrder
  <2>1. PICK r \in Nat, c \in Nat : r = Len(received[s]) /\ c = Len(chunk[s])
    BY DEF TunnelInv, Types
  <2>2. r + c <= taken[s] /\ taken[s] <= sent[s]   BY <2>1 DEF TunnelInv, Flow
  <2>3. taken[s] \in Nat /\ sent[s] \in Nat   BY DEF TunnelInv, Types
  <2>4. r <= sent[s]   BY <2>2, <2>3
  <2>5. \A i \in 1..Len(received[s]) : received[s][i] = 0 + i
    BY DEF TunnelInv, Flow, Numbered
  <2>. QED BY <2>1, <2>4, <2>5
<1>. QED BY TunnelInvariant, <1>1, PTL

(* The origin's answer has reached the client that waits for it when the handler       *)
(* returns, though the first direction to end closes both connections (connect,        *)
(* relayUpgrade).                                                                      *)
THEOREM TunnelAnswerDelivered == TunnelSpec => []AnswerDelivered
<1>1. TunnelInv => AnswerDelivered
  BY DEF TunnelInv, AnswerDelivered, Complete, EndsFirst, Stage, Flow
<1>. QED BY TunnelInvariant, <1>1, PTL

(* A forwarded answer that the handler completes is the whole answer (forwardHTTP).     *)
THEOREM TunnelTruncationVisible == TunnelSpec => []TruncationVisible
<1>1. TunnelInv => TruncationVisible
  BY DEF TunnelInv, TruncationVisible, Complete, Stage, Flow
<1>. QED BY TunnelInvariant, <1>1, PTL

(* No copier and no upstream connection outlives its handler, on any path.              *)
THEOREM TunnelLeavesNothing == TunnelSpec => []NothingLeftBehind
<1>1. TunnelInv => NothingLeftBehind
  BY DEF TunnelInv, NothingLeftBehind, Over, Stage, Types
<1>. QED BY TunnelInvariant, <1>1, PTL

LEMMA NumberedIsBounded ==
    ASSUME NEW q \in Seq(Nat), NEW k \in Nat, Numbered(q, k), k + Len(q) <= MaxBytes
    PROVE  q \in BoundedSeq(1..MaxBytes, MaxBytes)
<1>1. PICK n \in Nat : n = Len(q)   OBVIOUS
<1>2. k + n <= MaxBytes /\ MaxBytes \in Nat   BY <1>1
<1>3. n \in 0..MaxBytes   BY <1>2
<1>4. \A i \in 1..n : q[i] \in 1..MaxBytes   BY <1>1, <1>2 DEF Numbered
<1>5. q \in [1..n -> 1..MaxBytes]   BY <1>1, <1>4
<1>. QED BY <1>3, <1>5 DEF BoundedSeq, SeqOf

(* No step leaves the types of the variables, and no sequence grows beyond what a peer  *)
(* sends.                                                                               *)
THEOREM TunnelType == TunnelSpec => []TunnelTypeOK
<1>1. TunnelInv => TunnelTypeOK
  <2>. SUFFICES ASSUME TunnelInv PROVE TunnelTypeOK   OBVIOUS
  <2>1. ASSUME NEW s \in Sides
        PROVE  /\ received[s] \in BoundedSeq(1..MaxBytes, MaxBytes)
               /\ chunk[s] \in BoundedSeq(1..MaxBytes, MaxBytes)
               /\ taken[s] \in 0..MaxBytes
    <3>1. PICK r \in Nat, c \in Nat : r = Len(received[s]) /\ c = Len(chunk[s])
      BY DEF TunnelInv, Types
    <3>2. /\ r + c <= taken[s] /\ taken[s] <= sent[s] /\ sent[s] <= MaxBytes
          /\ taken[s] \in Nat /\ sent[s] \in Nat /\ MaxBytes \in Nat
      BY <3>1 DEF TunnelInv, Flow, Types
    <3>3. 0 + r <= MaxBytes /\ r + c <= MaxBytes /\ taken[s] \in 0..MaxBytes   BY <3>2
    <3>4. received[s] \in Seq(Nat) /\ chunk[s] \in Seq(Nat)   BY DEF TunnelInv, Types
    <3>5. Numbered(received[s], 0) /\ Numbered(chunk[s], r)   BY <3>1 DEF TunnelInv, Flow
    <3>. QED BY <3>1, <3>3, <3>4, <3>5, NumberedIsBounded
  <2>2. buffered \in BoundedSeq(1..MaxBytes, MaxBytes)
    <3>1. CASE buffered = <<>>
      <4>1. Numbered(buffered, 0) /\ buffered \in Seq(Nat) /\ Len(buffered) = 0
        BY <3>1 DEF Numbered
      <4>2. PICK n \in Nat : n = Len(buffered)   BY <4>1
      <4>3. 0 + n <= MaxBytes   BY <4>1, <4>2
      <4>. QED BY <4>1, <4>2, <4>3, NumberedIsBounded
    <3>2. CASE buffered # <<>>
      <4>1. copier["client"] \in {"none", "reads"} /\ received["client"] = <<>>
        BY <3>2 DEF TunnelInv, Parsed
      <4>2. chunk["client"] = <<>>   BY <4>1 DEF TunnelInv, Flow
      <4>3. PICK n \in Nat : n = Len(buffered)   BY DEF TunnelInv, Types
      <4>4. Len(received["client"]) = 0 /\ Len(chunk["client"]) = 0   BY <4>1, <4>2
      <4>5. 0 + 0 + n = taken["client"]   BY <4>1, <4>3, <4>4 DEF TunnelInv, Flow, Waiting
      <4>6. 0 + n <= MaxBytes   BY <2>1, <4>5
      <4>7. Numbered(buffered, 0) /\ buffered \in Seq(Nat)   BY DEF TunnelInv, Types, Parsed
      <4>. QED BY <4>3, <4>6, <4>7, NumberedIsBounded
    <3>. QED BY <3>1, <3>2
  <2>. QED BY <2>1, <2>2 DEF TunnelInv, Types, TunnelTypeOK
<1>. QED BY TunnelInvariant, <1>1, PTL

-----------------------------------------------------------------------------
(* The two together.  A step of one part leaves the other alone, so what was       *)
(* proved of each holds of both.                                                   *)
LEMMA PartsAreIndependent == FairSpec => GuardSpec /\ TunnelSpec
<1>1. Init => GuardInit /\ TunnelInit   BY DEF Init
<1>2. [Next]_vars => [GuardNext]_guardVars /\ [TunnelNext]_tunnelVars   BY DEF Next, vars
<1>. QED BY <1>1, <1>2, PTL DEF FairSpec, GuardSpec, TunnelSpec

(* All variables of the proxy's request handling keep their types. *)
THEOREM ProxyServerType == FairSpec => []TypeOK
BY PartsAreIndependent, GuardType, TunnelType, PTL DEF TypeOK

(* The safety of a request from its arrival to its end: what it may dial, what it     *)
(* delivers and what it leaves behind, in the composition that the run checks.        *)
THEOREM ProxyServerSafe ==
    FairSpec => [](/\ NeverDialsKnownSelf /\ FailsClosed
                   /\ InOrder /\ AnswerDelivered /\ TruncationVisible
                   /\ NothingLeftBehind)
BY PartsAreIndependent, GuardNeverDialsKnownSelf, GuardFailsClosed, TunnelInOrder,
   TunnelAnswerDelivered, TunnelTruncationVisible, TunnelLeavesNothing, PTL
=============================================================================
