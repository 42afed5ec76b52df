-------------------------------- MODULE Tunnel --------------------------------
(***************************************************************************)
(* What happens to a request once it has an upstream connection            *)
(* (src/server/proxy.go, connect, tunnelCopy, forwardHTTP, relayUpgrade).   *)
(*                                                                         *)
(* One handler and one copier for each direction share two connections     *)
(* whose peers send, stop sending and reset when they like.  The n-th byte  *)
(* a peer sends is the number n.  `received' is what a connection has       *)
(* accepted for its peer; what the network does with accepted bytes after a *)
(* close is not modelled.                                                   *)
(***************************************************************************)
EXTENDS Naturals, Sequences, SequencesExt

CONSTANT MaxBytes       \* bytes each peer sends at most

ASSUME TunnelAssumption == MaxBytes \in Nat \ {0}

Sides == {"client", "upstream"}     \* a direction has the name of its source
Other(s) == IF s = "client" THEN "upstream" ELSE "client"

VARIABLES
    kind,       \* connect (CONNECT), upgrade (101 answer) or forward (other answer)
    handler,    \* where the handler is
    sent,       \* bytes each peer has sent
    peer,       \* a peer is open, has ended its stream (eof), or has reset
    taken,      \* bytes of each peer taken off its connection
    buffered,   \* client bytes taken off by the HTTP parser, not yet read
    conn,       \* the proxy's end of each connection
    copier,     \* the copier of each direction: reads, writes or has ended
    chunk,      \* bytes a copier has read and not written
    clean,      \* a direction ended with the end of its stream
    received    \* what the peer opposite of a source has received

peerVars == <<sent, peer>>
copyVars == <<taken, buffered, copier, chunk, clean, received>>
tunnelVars == <<kind, handler, conn, peerVars, copyVars>>

TunnelTypeOK ==
    /\ kind \in {"connect", "upgrade", "forward"}
    /\ handler \in {"idle", "hijack", "establish", "copying", "closing", "returned",
                    "aborted", "refused"}
    /\ sent \in [Sides -> 0..MaxBytes]
    /\ peer \in [Sides -> {"open", "eof", "reset"}]
    /\ taken \in [Sides -> 0..MaxBytes]
    /\ conn \in [Sides -> {"open", "halfclosed", "closed"}]
    /\ copier \in [Sides -> {"none", "reads", "writes", "ended"}]
    /\ clean \in [Sides -> BOOLEAN]
    /\ buffered \in BoundedSeq(1..MaxBytes, MaxBytes)
    /\ chunk \in [Sides -> BoundedSeq(1..MaxBytes, MaxBytes)]
    /\ received \in [Sides -> BoundedSeq(1..MaxBytes, MaxBytes)]

Over == {"returned", "aborted", "refused"}

Fresh ==
    /\ sent = [s \in Sides |-> 0] /\ peer = [s \in Sides |-> "open"]
    /\ taken = [s \in Sides |-> 0] /\ buffered = <<>>
    /\ copier = [s \in Sides |-> "none"] /\ chunk = [s \in Sides |-> <<>>]
    /\ clean = [s \in Sides |-> FALSE] /\ received = [s \in Sides |-> <<>>]

TunnelInit ==
    /\ kind = "connect" /\ handler = "idle"
    /\ conn = [s \in Sides |-> "open"]
    /\ Fresh

-----------------------------------------------------------------------------
(* The peers. *)

Send(s) ==
    /\ handler # "idle" /\ peer[s] = "open" /\ sent[s] < MaxBytes
    /\ sent' = [sent EXCEPT ![s] = @ + 1]
    /\ UNCHANGED <<kind, handler, peer, conn, copyVars>>

(* A close of the sending side; for an answer being forwarded, its complete body. *)
EndStream(s) ==
    /\ handler # "idle" /\ peer[s] = "open"
    /\ peer' = [peer EXCEPT ![s] = "eof"]
    /\ UNCHANGED <<kind, handler, sent, conn, copyVars>>

(* The connection breaks; for an answer being forwarded, also a body cut short.    *)
Reset(s) ==
    /\ handler # "idle" /\ peer[s] # "reset"
    /\ peer' = [peer EXCEPT ![s] = "reset"]
    /\ UNCHANGED <<kind, handler, sent, conn, copyVars>>

-----------------------------------------------------------------------------
(* The handler. *)

(* The handler of a finished request has returned and another one dialled its      *)
(* target; a forwarded answer has only the direction to the client.                *)
Begin(k) ==
    /\ handler = "idle"
    /\ kind' = k
    /\ handler' = IF k = "forward" THEN "copying" ELSE "hijack"
    /\ copier' = [copier EXCEPT !["upstream"] = IF k = "forward" THEN "reads" ELSE @]
    /\ UNCHANGED <<conn, peerVars, taken, buffered, chunk, clean, received>>

(* The HTTP parser may have taken a part of the client's bytes. *)
Hijack ==
    /\ handler = "hijack"
    /\ \E n \in 0..sent["client"] :
          /\ buffered' = [i \in 1..n |-> i]
          /\ taken' = [taken EXCEPT !["client"] = n]
    /\ handler' = "establish"
    /\ UNCHANGED <<kind, conn, peerVars, copier, chunk, clean, received>>

(* No Hijacker, or Hijack fails: the client's connection stays the server's.  In    *)
(* an upgrade the deferred close of the answer's body closes the upstream.          *)
HijackFails ==
    /\ handler = "hijack"
    /\ handler' = "refused"
    /\ conn' = [conn EXCEPT !["upstream"] = "closed"]
    /\ UNCHANGED <<kind, peerVars, copyVars>>

EstablishRaw == \* mutant: the upstream copier reads the connection, not the parser
    /\ handler = "establish" /\ peer["client"] # "reset"
    /\ handler' = "copying"
    /\ copier' = [s \in Sides |-> "reads"]
    /\ buffered' = <<>>
    /\ UNCHANGED <<kind, conn, peerVars, taken, chunk, clean, received>>

(* The 200 or 101 head is written and the copiers start. *)
Establish ==
    /\ handler = "establish" /\ peer["client"] # "reset"
    /\ handler' = "copying"
    /\ copier' = [s \in Sides |-> "reads"]
    /\ UNCHANGED <<kind, conn, peerVars, taken, buffered, chunk, clean, received>>

EstablishLeaks == \* mutant: the upstream connection is forgotten on this path
    /\ handler = "establish" /\ peer["client"] = "reset"
    /\ handler' = "aborted"
    /\ conn' = [conn EXCEPT !["client"] = "closed"]
    /\ UNCHANGED <<kind, peerVars, copyVars>>

EstablishFails ==
    /\ handler = "establish" /\ peer["client"] = "reset"
    /\ handler' = "aborted"
    /\ conn' = [s \in Sides |-> "closed"]
    /\ UNCHANGED <<kind, peerVars, copyVars>>

CloseLast == \* mutant: the handler waits for both directions before it closes
    /\ handler = "copying" /\ kind # "forward"
    /\ \A s \in Sides : copier[s] = "ended"
    /\ conn' = [s \in Sides |-> "closed"]
    /\ handler' = "closing"
    /\ UNCHANGED <<kind, peerVars, copyVars>>

(* The first of the two directions has ended. *)
CloseBoth ==
    /\ handler = "copying" /\ kind # "forward"
    /\ \E s \in Sides : copier[s] = "ended"
    /\ conn' = [s \in Sides |-> "closed"]
    /\ handler' = "closing"
    /\ UNCHANGED <<kind, peerVars, copyVars>>

(* The second one has ended too. *)
TunnelReturns ==
    /\ handler = "closing"
    /\ \A s \in Sides : copier[s] = "ended"
    /\ handler' = "returned"
    /\ UNCHANGED <<kind, conn, peerVars, copyVars>>

ForwardCompletes == \* mutant: an error of io.Copy is ignored
    /\ handler = "copying" /\ kind = "forward"
    /\ copier["upstream"] = "ended"
    /\ conn' = [conn EXCEPT !["upstream"] = "closed"]
    /\ handler' = "returned"
    /\ UNCHANGED <<kind, peerVars, copyVars>>

(* The body is copied to its end: the server completes the answer. *)
ForwardReturns ==
    /\ handler = "copying" /\ kind = "forward"
    /\ copier["upstream"] = "ended" /\ clean["upstream"]
    /\ conn' = [conn EXCEPT !["upstream"] = "closed"]
    /\ handler' = "returned"
    /\ UNCHANGED <<kind, peerVars, copyVars>>

(* io.Copy failed: the panic makes the server close the client's connection. *)
ForwardAborts ==
    /\ handler = "copying" /\ kind = "forward"
    /\ copier["upstream"] = "ended" /\ ~clean["upstream"]
    /\ conn' = [s \in Sides |-> "closed"]
    /\ handler' = "aborted"
    /\ UNCHANGED <<kind, peerVars, copyVars>>

(* The handler's goroutine is gone; the slot serves another request. *)
Reuse ==
    /\ handler \in Over
    /\ handler' = "idle" /\ kind' = "connect"
    /\ conn' = [s \in Sides |-> "open"]
    /\ sent' = [s \in Sides |-> 0] /\ peer' = [s \in Sides |-> "open"]
    /\ taken' = [s \in Sides |-> 0] /\ buffered' = <<>>
    /\ copier' = [s \in Sides |-> "none"] /\ chunk' = [s \in Sides |-> <<>>]
    /\ clean' = [s \in Sides |-> FALSE] /\ received' = [s \in Sides |-> <<>>]

-----------------------------------------------------------------------------
(* The copiers. *)

(* tunnelCopy half-closes a TCP destination: of a CONNECT tunnel only the upstream  *)
(* is one, the client's connection is TLS.                                          *)
EndCopy(s, ok) ==
    /\ copier' = [copier EXCEPT ![s] = "ended"]
    /\ clean' = [clean EXCEPT ![s] = ok]
    /\ conn' = [conn EXCEPT ![Other(s)] =
                    IF kind = "connect" /\ s = "client" /\ @ = "open"
                    THEN "halfclosed" ELSE @]

(* The parser's bytes come first, in one piece; then what the connection has. *)
ReadBuffered ==
    /\ copier["client"] = "reads" /\ buffered # <<>>
    /\ chunk' = [chunk EXCEPT !["client"] = buffered]
    /\ buffered' = <<>>
    /\ copier' = [copier EXCEPT !["client"] = "writes"]
    /\ UNCHANGED <<kind, handler, peerVars, taken, conn, clean, received>>

FromWire(s) == s = "client" => buffered = <<>>

(* What arrived before a reset can still be read. *)
Read(s) ==
    /\ copier[s] = "reads" /\ FromWire(s) /\ conn[s] # "closed"
    /\ \E n \in taken[s] + 1..sent[s] :
          /\ chunk' = [chunk EXCEPT ![s] = [i \in 1..n - taken[s] |-> taken[s] + i]]
          /\ taken' = [taken EXCEPT ![s] = n]
    /\ copier' = [copier EXCEPT ![s] = "writes"]
    /\ UNCHANGED <<kind, handler, peerVars, buffered, conn, clean, received>>

ReadEOFEarly(s) == \* mutant: the bytes that come with the end of a stream are dropped
    /\ copier[s] = "reads" /\ FromWire(s) /\ conn[s] # "closed"
    /\ peer[s] = "eof"
    /\ EndCopy(s, TRUE)
    /\ UNCHANGED <<kind, handler, peerVars, taken, buffered, chunk, received>>

ReadEOF(s) ==
    /\ copier[s] = "reads" /\ FromWire(s) /\ conn[s] # "closed"
    /\ peer[s] = "eof" /\ taken[s] = sent[s]
    /\ EndCopy(s, TRUE)
    /\ UNCHANGED <<kind, handler, peerVars, taken, buffered, chunk, received>>

(* The server cancels the context of a request whose client is gone, and with it    *)
(* the answer that is being forwarded.                                              *)
Cancelled == kind = "forward" /\ peer["client"] # "open"

ReadFails(s) ==
    /\ copier[s] = "reads" /\ FromWire(s)
    /\ conn[s] = "closed" \/ peer[s] = "reset" \/ Cancelled
    /\ EndCopy(s, FALSE)
    /\ UNCHANGED <<kind, handler, peerVars, taken, buffered, chunk, received>>

Write(s) ==
    /\ copier[s] = "writes" /\ conn[Other(s)] # "closed" /\ peer[Other(s)] # "reset"
    /\ received' = [received EXCEPT ![s] = @ \o chunk[s]]
    /\ chunk' = [chunk EXCEPT ![s] = <<>>]
    /\ copier' = [copier EXCEPT ![s] = "reads"]
    /\ UNCHANGED <<kind, handler, peerVars, taken, buffered, conn, clean>>

WriteAgain(s) == \* mutant: a write that failed in part is repeated as a whole
    /\ copier[s] = "writes"
    /\ conn[Other(s)] = "closed" \/ peer[Other(s)] = "reset"
    /\ \E n \in 0..Len(chunk[s]) - 1 :
          received' = [received EXCEPT ![s] = @ \o SubSeq(chunk[s], 1, n) \o chunk[s]]
    /\ chunk' = [chunk EXCEPT ![s] = <<>>]
    /\ EndCopy(s, FALSE)
    /\ UNCHANGED <<kind, handler, peerVars, taken, buffered>>

(* A close or a reset interrupts a write; a part of the chunk may be through. *)
WriteFails(s) ==
    /\ copier[s] = "writes"
    /\ conn[Other(s)] = "closed" \/ peer[Other(s)] = "reset"
    /\ \E n \in 0..Len(chunk[s]) - 1 :
          received' = [received EXCEPT ![s] = @ \o SubSeq(chunk[s], 1, n)]
    /\ chunk' = [chunk EXCEPT ![s] = <<>>]
    /\ EndCopy(s, FALSE)
    /\ UNCHANGED <<kind, handler, peerVars, taken, buffered>>

-----------------------------------------------------------------------------
Peer(s) == Send(s) \/ EndStream(s) \/ Reset(s)

Handler ==
    \/ Hijack \/ HijackFails \/ Establish \/ EstablishFails
    \/ CloseBoth \/ TunnelReturns \/ ForwardReturns \/ ForwardAborts

(* What a copier does once its connection has something to say; a write to a peer   *)
(* that does not read is not among them.                                            *)
CopierEnds(s) == ReadEOF(s) \/ ReadFails(s) \/ WriteFails(s)

TunnelNext ==
    \/ \E s \in Sides :
          Peer(s) \/ Read(s) \/ Write(s) \/ CopierEnds(s)
    \/ ReadBuffered \/ Handler \/ Reuse
    \/ \E k \in {"connect", "upgrade", "forward"} : Begin(k)

TunnelSpec == TunnelInit /\ [][TunnelNext]_tunnelVars

(* Goroutines are scheduled, and an operation on a closed connection fails.  No     *)
(* peer has to send, to read or to end.                                             *)
TunnelFairness ==
    /\ WF_tunnelVars(Handler)
    /\ WF_tunnelVars(ReadBuffered)
    /\ \A s \in Sides : WF_tunnelVars(CopierEnds(s))

-----------------------------------------------------------------------------
(* Each peer receives a prefix of what the other sent: nothing is lost, repeated or *)
(* reordered in the middle of a tunnel, the bytes that the HTTP parser had already  *)
(* taken off the client's connection included (proxy.go, comment in connect).       *)
InOrder ==
    \A s \in Sides :
        /\ Len(received[s]) <= sent[s]
        /\ \A i \in 1..Len(received[s]) : received[s][i] = i

Complete(s) == Len(received[s]) = sent[s]

(* The direction that ends first closes both connections, so a direction can lose   *)
(* its last bytes; but not the answer of an origin that ends its stream while the    *)
(* client keeps its own open: the client has it all when the handler returns.        *)
AnswerDelivered ==
    handler = "returned" /\ peer["upstream"] = "eof" /\ peer["client"] = "open"
        => Complete("upstream")

(* A forwarded answer ends like a complete one only if the origin completed it and   *)
(* the client has all of it; otherwise the client sees its connection break.         *)
TruncationVisible ==
    kind = "forward" /\ handler = "returned" => clean["upstream"] /\ Complete("upstream")

(* However a request ends, on every path, no copier is left behind and the upstream  *)
(* connection is closed; so is the client's, unless the server still owns it and goes *)
(* on with it.                                                                        *)
NothingLeftBehind ==
    handler \in Over =>
        /\ conn["upstream"] = "closed"
        /\ \A s \in Sides : copier[s] \in {"none", "ended"}
        /\ conn["client"] = "open" =>
              handler = "refused" \/ (kind = "forward" /\ handler = "returned")

(* When either direction has ended the handler returns, though the other copier may  *)
(* be waiting in a read or in a write for a peer that never moves again.             *)
TunnelEnds ==
    (\E s \in Sides : copier[s] = "ended") ~> handler \in Over
=============================================================================
