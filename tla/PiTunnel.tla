------------------------------ MODULE PiTunnel ------------------------------
(***************************************************************************)
(* The Pi tunnel: a relay that pairs one client WebSocket with the node    *)
(* WebSocket of a device, after the node itself has allowed the client,    *)
(* and then forwards opaque binary frames in both directions.              *)
(*                                                                         *)
(* The relay is one event loop, so a handler up to its first await is one  *)
(* action.  A socket the relay closes is "closing" - nothing more is sent  *)
(* to it, what it sent is still handled - until its close event, where     *)
(* cleanup runs.  Messages are FIFO in each direction; out[s] is what      *)
(* bufferedAmount counts.  A client authenticates once per socket, so the  *)
(* request id of its authorization is the client's socket.                 *)
(***************************************************************************)
EXTENDS Naturals, Sequences, SequencesExt

CONSTANTS
    NodeSocks,      \* connections of the one device
    ClientSocks,
    HighWater,      \* bufferedHighWaterBytes, in frames
    Absolute,       \* bufferedAbsoluteBytes, in frames
    MaxQueued,      \* maxQueuedFrames
    Setups          \* what the behaviours are about, see below

\* A setup fixes for one behaviour the sockets that connect, the frames each
\* side sends in a session, whether a node answers authorizations in their
\* order, and what goes wrong.
Setup == [socks: SUBSET (NodeSocks \union ClientSocks), frames: Nat, ordered: BOOLEAN,
          faults: SUBSET {"closes", "pollFails", "revoke"}]

ASSUME PiTunnelAssumption ==
    /\ NodeSocks \intersect ClientSocks = {} /\ "none" \notin NodeSocks \union ClientSocks
    /\ HighWater \in Nat \ {0} /\ MaxQueued \in Nat \ {0}
    /\ Absolute \in Nat /\ Absolute > HighWater
    /\ Setups \subseteq Setup

VARIABLES
    sock,       \* readyState of each socket
    phase,      \* state.phase
    timer,      \* the handshakeTimer: "none", "handshake" or "authorization"
    lookup,     \* answer of findActiveByNodeId a node's handler waits for
    client,     \* NodeState.client
    pending,    \* NodeState.pendingAuthorization
    peer,       \* ClientState.node
    registered, \* the entry of the device in the map "nodes"
    queue,      \* OpaqueForwardQueue of frames a socket sent
    in, out,    \* messages to the relay and from it
    device,     \* lifecycle of the device in the repository
    poll,       \* the snapshot of a revocation poll under way
    view,       \* external: the client a node believes it is connected to
    asked,      \* external: authorizations a node has not answered
    allowed,    \* ghost: clients some node allowed
    sent, got,  \* ghost: frames sent by and for each client
    setup       \* the member of Setups this behaviour is about; never changes

relayVars == <<sock, phase, timer, lookup, client, pending, peer, registered, queue>>

externalVars == <<view, asked, allowed, sent, got>>

vars == <<sock, phase, timer, lookup, client, pending, peer, registered, queue, in, out,
          device, poll, view, asked, allowed, sent, got, setup>>

None == "none"

NoPoll == [n |-> None, active |-> TRUE]

Socks == NodeSocks \union ClientSocks

Alive(s) == sock[s] \in {"open", "closing"}

Frame(c, i) == [t |-> "frame", c |-> c, i |-> i]

Init ==
    /\ sock = [s \in Socks |-> "none"]
    /\ phase = [s \in Socks |-> "handshake"]
    /\ timer = [s \in Socks |-> "none"]
    /\ lookup = [n \in NodeSocks |-> None]
    /\ client = [n \in NodeSocks |-> None]
    /\ pending = [n \in NodeSocks |-> None]
    /\ peer = [c \in ClientSocks |-> None]
    /\ registered = None
    /\ queue = [s \in Socks |-> <<>>]
    /\ in = [s \in Socks |-> <<>>] /\ out = [s \in Socks |-> <<>>]
    /\ device = "pending"
    /\ poll = NoPoll
    /\ view = [n \in NodeSocks |-> None]
    /\ asked = [n \in NodeSocks |-> <<>>]
    /\ allowed = {}
    /\ sent = [c \in ClientSocks |-> [node |-> 0, client |-> 0]]
    /\ got = [c \in ClientSocks |-> [node |-> <<>>, client |-> <<>>]]
    /\ setup \in Setups

----------------------------------------------------------------------------
(* Helpers of the relay.  Closing(S) is safeClose on the sockets S.        *)

Closing(S) == [s \in Socks |-> IF s \in S /\ sock[s] = "open" THEN "closing" ELSE sock[s]]

\* sendControl: msgs[s] is sent to each open socket s of its domain.
Control(msgs) ==
    out' = [s \in Socks |-> IF s \in DOMAIN msgs /\ sock[s] = "open"
                            THEN Append(out[s], msgs[s]) ELSE out[s]]

Consume(s) == in' = [in EXCEPT ![s] = Tail(@)]

Receives(s, kind) == Alive(s) /\ in[s] # <<>> /\ Head(in[s]).t = kind

----------------------------------------------------------------------------
(* Connecting. *)

\* accept: the challenge goes out, the peer answers it with its proof.
Accept(s) ==
    /\ sock[s] = "none" /\ s \in setup.socks
    /\ sock' = [sock EXCEPT ![s] = "open"]
    /\ timer' = [timer EXCEPT ![s] = "handshake"]
    /\ in' = [in EXCEPT ![s] = <<[t |-> "auth"]>>]
    /\ UNCHANGED <<phase, lookup, client, pending, peer, registered, queue, out,
                   device, poll, externalVars, setup>>

\* handleNodeControl up to the await of the repository.
NodeAuth(n) ==
    /\ Receives(n, "auth") /\ phase[n] = "handshake"
    /\ lookup' = [lookup EXCEPT ![n] = device]
    /\ Consume(n)
    /\ UNCHANGED <<sock, phase, timer, client, pending, peer, registered, queue, out,
                   device, poll, externalVars, setup>>

\* Mutant: the state is not looked at again after the await.
LookupReturns_ghost(n) ==
    /\ lookup[n] # None
    /\ lookup' = [lookup EXCEPT ![n] = None]
    /\ IF lookup[n] # "active" \/ registered # None
       THEN sock' = Closing({n}) /\ UNCHANGED <<timer, phase, registered, out>>
       ELSE /\ timer' = [timer EXCEPT ![n] = "none"]
            /\ phase' = [phase EXCEPT ![n] = "ready"]
            /\ registered' = n
            /\ Control([s \in {n} |-> [t |-> "ready"]])
            /\ UNCHANGED sock
    /\ UNCHANGED <<client, pending, peer, queue, in, device, poll, externalVars, setup>>

\* ... and from there on: a socket that is gone or closing meanwhile is left
\* alone, a revoked device or a second connection is rejected.
LookupReturns(n) ==
    /\ lookup[n] # None
    /\ lookup' = [lookup EXCEPT ![n] = None]
    /\ CASE sock[n] # "open" \/ phase[n] # "handshake" ->
              UNCHANGED <<sock, timer, phase, registered, out>>
         [] sock[n] = "open" /\ phase[n] = "handshake" /\ (lookup[n] # "active" \/ registered # None) ->
              sock' = Closing({n}) /\ UNCHANGED <<timer, phase, registered, out>>
         [] OTHER ->
              /\ timer' = [timer EXCEPT ![n] = "none"]
              /\ phase' = [phase EXCEPT ![n] = "ready"]
              /\ registered' = n
              /\ Control([s \in {n} |-> [t |-> "ready"]])
              /\ UNCHANGED sock
    /\ UNCHANGED <<client, pending, peer, queue, in, device, poll, externalVars, setup>>

NodeFree(n) == n # None /\ phase[n] = "ready" /\ client[n] = None /\ pending[n] = None

\* handleClientControl: a node that is ready is asked for its permission.
ClientAuth(c) ==
    /\ Receives(c, "auth") /\ phase[c] = "handshake"
    /\ Consume(c)
    /\ LET n == registered IN
       \/ /\ NodeFree(n)
          /\ timer' = [timer EXCEPT ![c] = "authorization"]
          /\ phase' = [phase EXCEPT ![c] = "authorizing", ![n] = "authorizing"]
          /\ peer' = [peer EXCEPT ![c] = n]
          /\ pending' = [pending EXCEPT ![n] = c]
          /\ Control([s \in {n} |-> [t |-> "authorizeClient", c |-> c]])
          /\ UNCHANGED sock
       \/ /\ ~NodeFree(n)
          /\ sock' = Closing({c})
          /\ UNCHANGED <<timer, phase, peer, pending, out>>
    /\ UNCHANGED <<lookup, client, registered, queue, device, poll, externalVars, setup>>

\* The answer names the request that is pending.
Answers(n, m) == pending[n] = m.c

\* handleNodeControl with an authorization result: late ones are ignored.
Authorized(n) ==
    /\ Receives(n, "result") /\ phase[n] \in {"ready", "authorizing"}
    /\ Consume(n)
    /\ LET m == Head(in[n])
           c == pending[n]
       IN \/ /\ phase[n] = "authorizing" /\ Answers(n, m)
             /\ pending' = [pending EXCEPT ![n] = None]
             /\ \/ \* pair
                   /\ Alive(c) /\ phase[c] = "authorizing" /\ m.allow
                   /\ sock[n] = "open" /\ sock[c] = "open"
                   /\ timer' = [timer EXCEPT ![c] = "none"]
                   /\ phase' = [phase EXCEPT ![n] = "paired", ![c] = "paired"]
                   /\ client' = [client EXCEPT ![n] = c]
                   /\ peer' = [peer EXCEPT ![c] = n]
                   /\ queue' = [queue EXCEPT ![n] = <<>>, ![c] = <<>>]
                   /\ Control([s \in {n, c} |-> IF s = n THEN [t |-> "clientConnected", c |-> c]
                                                ELSE [t |-> "ready"]])
                   /\ UNCHANGED sock
                \/ \* the client is denied, or one of the two is closing
                   /\ ~(Alive(c) /\ phase[c] = "authorizing" /\ m.allow
                        /\ sock[n] = "open" /\ sock[c] = "open")
                   /\ phase' = [phase EXCEPT ![n] = "ready"]
                   /\ timer' = [timer EXCEPT ![c] = IF m.allow THEN "none" ELSE @]
                   /\ sock' = Closing({c})
                   /\ UNCHANGED <<client, peer, queue, out>>
          \/ /\ ~(phase[n] = "authorizing" /\ Answers(n, m))
             /\ UNCHANGED <<sock, phase, timer, client, pending, peer, queue, out>>
    /\ UNCHANGED <<lookup, registered, device, poll, externalVars, setup>>

\* A text frame of a paired node is forbidden, an authorization result too.
TextForbidden(n) ==
    /\ Receives(n, "result") /\ phase[n] = "paired"
    /\ Consume(n)
    /\ sock' = Closing({n})
    /\ UNCHANGED <<phase, timer, lookup, client, pending, peer, registered, queue, out,
                   device, poll, externalVars, setup>>

\* The timeout of an authorization that is still pending releases the node.
TimeoutReleases(c) == phase[c] = "authorizing" /\ peer[c] # None /\ pending[peer[c]] = c

TimerFires(c) ==
    /\ Alive(c) /\ timer[c] # "none"
    /\ timer' = [timer EXCEPT ![c] = "none"]
    /\ IF timer[c] = "authorization" /\ TimeoutReleases(c)
       THEN /\ pending' = [pending EXCEPT ![peer[c]] = None]
            /\ phase' = [phase EXCEPT ![peer[c]] = "ready"]
            /\ peer' = [peer EXCEPT ![c] = None]
       ELSE UNCHANGED <<pending, phase, peer>>
    /\ sock' = Closing({c})
    /\ UNCHANGED <<lookup, client, registered, queue, in, out, device, poll, externalVars, setup>>

----------------------------------------------------------------------------
(* Forwarding. *)

\* Where the frames of a paired socket go.
Target(s) == IF s \in NodeSocks THEN client[s] ELSE peer[s]

\* The client of the pair s belongs to: back-pressure closes it, not the node.
ClientOf(s) == IF s \in NodeSocks THEN client[s] ELSE s

\* OpaqueForwardQueue.forward
Forward(s) ==
    LET d == Target(s)  f == Head(in[s]) IN
    IF sock[d] # "open" \/ Len(queue[s]) >= MaxQueued
       \/ Len(out[d]) + Len(queue[s]) + 1 > Absolute
    THEN sock' = Closing({ClientOf(s)}) /\ UNCHANGED <<queue, out>>
    ELSE IF queue[s] # <<>> \/ Len(out[d]) >= HighWater
    THEN queue' = [queue EXCEPT ![s] = Append(@, f)] /\ UNCHANGED <<out, sock>>
    ELSE out' = [out EXCEPT ![d] = Append(@, f)] /\ UNCHANGED <<queue, sock>>

\* handleMessage with a binary frame.
BinaryFrame(s) ==
    /\ Receives(s, "frame") /\ phase[s] = "paired"
    /\ Consume(s)
    /\ Forward(s)
    /\ UNCHANGED <<phase, timer, lookup, client, pending, peer, registered,
                   device, poll, externalVars, setup>>

\* Mutant: a stale frame goes to the client that is being authorized.
StaleFrame_forwarded(n) ==
    /\ Receives(n, "frame") /\ phase[n] \in {"ready", "authorizing"}
    /\ Consume(n)
    /\ IF pending[n] # None THEN out' = [out EXCEPT ![pending[n]] = Append(@, Head(in[n]))]
       ELSE out' = out
    /\ UNCHANGED <<relayVars, device, poll, externalVars, setup>>

\* A node's frame for a client that has left is dropped.
StaleFrame(n) ==
    /\ Receives(n, "frame") /\ phase[n] \in {"ready", "authorizing"}
    /\ Consume(n)
    /\ UNCHANGED <<relayVars, out, device, poll, externalVars, setup>>

\* Mutant: the queue waits for a buffer below one less than the high-water mark.
Moves_below(s) ==
    LET room == HighWater - 1 IN
    IF Len(out[Target(s)]) >= room THEN 0
    ELSE IF room - Len(out[Target(s)]) < Len(queue[s]) THEN room - Len(out[Target(s)])
    ELSE Len(queue[s])

\* The frames drain sends: as many as fit below the high-water mark.
Moves(s) ==
    LET room == HighWater - Len(out[Target(s)]) IN
    IF Len(out[Target(s)]) >= HighWater THEN 0
    ELSE IF room < Len(queue[s]) THEN room ELSE Len(queue[s])

\* OpaqueForwardQueue.drain, from its timer.
Drain(s) ==
    /\ phase[s] = "paired" /\ queue[s] # <<>> /\ Target(s) # None
    /\ LET d == Target(s)  k == Moves(s) IN
       \/ /\ sock[d] # "open"
          /\ queue' = [queue EXCEPT ![s] = <<>>]
          /\ UNCHANGED out
       \/ /\ sock[d] = "open" /\ k > 0
          /\ queue' = [queue EXCEPT ![s] = SubSeq(@, k + 1, Len(@))]
          /\ out' = [out EXCEPT ![d] = @ \o SubSeq(queue[s], 1, k)]
    /\ UNCHANGED <<sock, phase, timer, lookup, client, pending, peer, registered, in,
                   device, poll, externalVars, setup>>

----------------------------------------------------------------------------
(* Closing. *)

\* cleanup of a client: its node is free again.
ClientGone(c) ==
    LET n == peer[c]
        paired == n # None /\ Alive(n) /\ client[n] = c
        waits == n # None /\ Alive(n) /\ pending[n] = c
    IN /\ queue' = [s \in Socks |-> IF s = c \/ (paired /\ s = n) THEN <<>> ELSE queue[s]]
       /\ client' = IF paired THEN [client EXCEPT ![n] = None] ELSE client
       /\ pending' = IF waits THEN [pending EXCEPT ![n] = None] ELSE pending
       /\ phase' = IF paired \/ waits THEN [phase EXCEPT ![n] = "ready"] ELSE phase
       /\ sock' = [sock EXCEPT ![c] = "closed"]
       /\ IF paired THEN Control([s \in {n} |-> [t |-> "clientDisconnected"]]) ELSE UNCHANGED out
       /\ UNCHANGED registered

\* cleanup of a node: its client, or the one that waits for it, is closed.
NodeGone(n) ==
    /\ queue' = [queue EXCEPT ![n] = <<>>]
    /\ registered' = IF registered = n THEN None ELSE registered
    /\ sock' = [Closing({client[n], pending[n]} \ {None}) EXCEPT ![n] = "closed"]
    /\ UNCHANGED <<client, pending, phase, out>>

\* The close event of s, whoever closed it; what s had sent is lost with it.
CloseEvent(s) ==
    /\ Alive(s)
    /\ timer' = [timer EXCEPT ![s] = "none"]
    /\ in' = [in EXCEPT ![s] = <<>>]
    /\ IF s \in NodeSocks THEN NodeGone(s) ELSE ClientGone(s)
    /\ UNCHANGED <<lookup, peer, device, poll, externalVars, setup>>

\* The lifecycle timer closes an old or idle socket; handleMessage rejects a
\* message out of turn.
RelayCloses(s) ==
    /\ "closes" \in setup.faults /\ sock[s] = "open"
    /\ sock' = Closing({s})
    /\ UNCHANGED <<phase, timer, lookup, client, pending, peer, registered, queue, in, out,
                   device, poll, externalVars, setup>>

----------------------------------------------------------------------------
(* The device. *)

\* consumeActivation, under the row lock of the device: the code is used once.
Activate ==
    /\ device = "pending"
    /\ device' = "active"
    /\ UNCHANGED <<relayVars, in, out, poll, externalVars, setup>>

\* revoke, under the same lock.
Revoke ==
    /\ "revoke" \in setup.faults /\ device # "revoked"
    /\ device' = "revoked"
    /\ UNCHANGED <<relayVars, in, out, poll, externalVars, setup>>

\* Mutant: the poll trusts the lookup of the connection.
StartPoll_cached ==
    /\ poll = NoPoll /\ registered # None
    /\ poll' = [n |-> registered, active |-> TRUE]
    /\ UNCHANGED <<relayVars, in, out, device, externalVars, setup>>

\* pollRevocations up to its await; polls do not overlap.
StartPoll ==
    /\ poll = NoPoll /\ registered # None
    /\ poll' = [n |-> registered, active |-> device = "active"]
    /\ UNCHANGED <<relayVars, in, out, device, externalVars, setup>>

\* ... and after it: the socket is closed if it still is the node's.
EndPoll ==
    /\ poll # NoPoll
    /\ \E failed \in IF "pollFails" \in setup.faults THEN BOOLEAN ELSE {FALSE} :
          sock' = IF (failed \/ ~poll.active) /\ registered = poll.n
                  THEN Closing({poll.n}) ELSE sock
    /\ poll' = NoPoll
    /\ UNCHANGED <<phase, timer, lookup, client, pending, peer, registered, queue, in, out,
                   device, externalVars, setup>>

----------------------------------------------------------------------------
(* The two ends (external). *)

Take(s) == out' = [out EXCEPT ![s] = Tail(@)]

\* The node reads a control message, or a frame; a frame that is not of the
\* client it believes in is recorded as a stray one.
NodeReads(n) ==
    /\ Alive(n) /\ out[n] # <<>>
    /\ Take(n)
    /\ LET m == Head(out[n]) IN
       /\ view' = [view EXCEPT ![n] = CASE m.t = "clientConnected" -> m.c
                                        [] m.t = "clientDisconnected" -> None
                                        [] OTHER -> @]
       /\ asked' = [asked EXCEPT ![n] = IF m.t = "authorizeClient" THEN Append(@, m.c) ELSE @]
       /\ got' = IF m.t = "frame"
                 THEN [got EXCEPT ![m.c].node = Append(@, IF view[n] = m.c THEN m ELSE Frame(None, 0))]
                 ELSE got
    /\ UNCHANGED <<relayVars, in, device, poll, allowed, sent, setup>>

NodeAnswers(n, k) ==
    /\ sock[n] = "open" /\ k \in DOMAIN asked[n] /\ (setup.ordered => k = 1)
    /\ LET c == asked[n][k] IN
       \E allow \in BOOLEAN :
          /\ in' = [in EXCEPT ![n] = Append(@, [t |-> "result", c |-> c, allow |-> allow])]
          /\ allowed' = IF allow THEN allowed \union {c} ELSE allowed
    /\ asked' = [asked EXCEPT ![n] = RemoveAt(@, k)]
    /\ UNCHANGED <<relayVars, out, device, poll, view, sent, got, setup>>

NodeSends(n) ==
    /\ sock[n] = "open" /\ view[n] # None
    /\ LET c == view[n] IN
       /\ sent[c].node < setup.frames
       /\ sent' = [sent EXCEPT ![c].node = @ + 1]
       /\ in' = [in EXCEPT ![n] = Append(@, Frame(c, sent[c].node + 1))]
    /\ UNCHANGED <<relayVars, out, device, poll, view, asked, allowed, got, setup>>

ClientReads(c) ==
    /\ Alive(c) /\ out[c] # <<>>
    /\ Take(c)
    /\ got' = IF Head(out[c]).t = "frame" THEN [got EXCEPT ![c].client = Append(@, Head(out[c]))]
              ELSE got
    /\ UNCHANGED <<relayVars, in, device, poll, view, asked, allowed, sent, setup>>

\* A client sends once it was told that it is paired.
ClientSends(c) ==
    /\ sock[c] = "open" /\ phase[c] = "paired" /\ \A i \in DOMAIN out[c] : out[c][i].t # "ready"
    /\ sent[c].client < setup.frames
    /\ sent' = [sent EXCEPT ![c].client = @ + 1]
    /\ in' = [in EXCEPT ![c] = Append(@, Frame(c, sent[c].client + 1))]
    /\ UNCHANGED <<relayVars, out, device, poll, view, asked, allowed, got, setup>>

----------------------------------------------------------------------------
NodeStep(n) ==
    \/ NodeAuth(n) \/ LookupReturns(n) \/ Authorized(n) \/ TextForbidden(n) \/ StaleFrame(n)

Next ==
    \/ \E s \in Socks : \/ Accept(s) \/ BinaryFrame(s) \/ Drain(s) \/ CloseEvent(s)
                        \/ RelayCloses(s) \/ TimerFires(s)
    \/ \E n \in NodeSocks : \/ NodeStep(n) \/ NodeReads(n) \/ NodeSends(n)
                            \/ \E k \in 1 .. 2 : NodeAnswers(n, k)
    \/ \E c \in ClientSocks : ClientAuth(c) \/ ClientReads(c) \/ ClientSends(c)
    \/ Activate \/ Revoke \/ StartPoll \/ EndPoll

Spec == Init /\ [][Next]_vars

(***************************************************************************)
(* The event loop runs every handler, timer and poll; a socket that is     *)
(* closing closes; ends that are connected read.  No end has to connect,   *)
(* answer, send or stay.                                                   *)
(***************************************************************************)
Fairness ==
    /\ \A s \in Socks : /\ WF_vars(BinaryFrame(s)) /\ WF_vars(Drain(s)) /\ WF_vars(TimerFires(s))
                        /\ WF_vars(sock[s] = "closing" /\ CloseEvent(s))
    /\ \A n \in NodeSocks : WF_vars(NodeStep(n)) /\ WF_vars(NodeReads(n))
    /\ \A c \in ClientSocks : WF_vars(ClientAuth(c)) /\ WF_vars(ClientReads(c))
    /\ WF_vars(StartPoll) /\ WF_vars(EndPoll)

FairSpec == Spec /\ Fairness

----------------------------------------------------------------------------
(* Properties. *)

\* Phases, timers and the pairing references have their types, and a queue
\* stays within maxQueuedFrames and the absolute bound.
TypeOK ==
    /\ \A s \in Socks : /\ sock[s] \in {"none", "open", "closing", "closed"}
                        /\ phase[s] \in {"handshake", "authorizing", "ready", "paired"}
                        /\ timer[s] \in {"none", "handshake", "authorization"}
                        /\ Len(queue[s]) <= MaxQueued /\ Len(queue[s]) <= Absolute
    /\ \A n \in NodeSocks : {client[n], pending[n]} \subseteq ClientSocks \union {None}
    /\ \A c \in ClientSocks : peer[c] \in NodeSocks \union {None}
    /\ registered \in NodeSocks \union {None}

\* A client is only ever paired after the node allowed this very client: the
\* late answer for one that timed out or left never admits the next one
\* (requestId in handleNodeControl).
PairedOnlyIfAllowed == \A c \in ClientSocks : phase[c] = "paired" => c \in allowed

InOrder(frames, c) ==
    \A i \in DOMAIN frames : /\ frames[i].c = c
                             /\ i > 1 => frames[i - 1].i < frames[i].i

NoGap(frames) == \A i \in DOMAIN frames : frames[i].i = i

\* Frames reach the end they were meant for, in the order they were sent, and
\* without a gap for as long as the client is not being closed - across
\* queueing, back-pressure and one client following another on the node's
\* connection.
FramesReachTheirClient ==
    \A c \in ClientSocks :
        /\ InOrder(got[c].client, c) /\ InOrder(got[c].node, c)
        /\ sock[c] = "open" => NoGap(got[c].client) /\ NoGap(got[c].node)

\* The device's entry is a connection that is there and authenticated: no
\* ghost of a handshake that timed out during the lookup, and no reconnected
\* node unregistered by the close of its predecessor.
RegisteredIsConnected ==
    /\ registered # None => Alive(registered) /\ phase[registered] # "handshake"
    /\ \A n \in NodeSocks : (Alive(n) /\ phase[n] # "handshake") => registered = n

\* The connection of a revoked device is closed.
RevokedIsDisconnected == device = "revoked" ~> [](registered = None)

\* A queued frame is sent on, unless its pair ends.
QueueDrains == \A s \in Socks : queue[s] # <<>> ~> queue[s] = <<>>

\* The relay does not close a node because of an answer that comes late
\* ("ignores a late authorization result after the Client disconnects").
LateAnswerIsIgnored == [][\A n \in NodeSocks : ~TextForbidden(n)]_vars
=============================================================================
