--------------------------- MODULE PiTunnelProofs ---------------------------
(* The Pi tunnel for any number of connections and any setups: who is      *)
(* registered, who is paired with whom, who was allowed to be, and that    *)
(* every frame reaches the end it was sent to.                             *)
EXTENDS PiTunnel, SequenceTheorems, TLAPS

Phases == {"handshake", "authorizing", "ready", "paired"}

FrameOf(C) == [t : {"frame"}, c : C, i : Nat]

InMessage == [t : {"auth"}] \union FrameOf(ClientSocks)
             \union [t : {"result"}, c : ClientSocks, allow : BOOLEAN]

OutMessage == [t : {"ready", "clientDisconnected"}] \union FrameOf(ClientSocks)
              \union [t : {"clientConnected", "authorizeClient"}, c : ClientSocks]

(* The types of what the handlers decide on ...                            *)
Relay ==
  /\ sock \in [Socks -> {"none", "open", "closing", "closed"}]
  /\ phase \in [Socks -> Phases]
  /\ timer \in [Socks -> {"none", "handshake", "authorization"}]
  /\ lookup \in [NodeSocks -> {None, "pending", "active", "revoked"}]
  /\ client \in [NodeSocks -> ClientSocks \union {None}]
  /\ pending \in [NodeSocks -> ClientSocks \union {None}]
  /\ peer \in [ClientSocks -> NodeSocks \union {None}]
  /\ registered \in NodeSocks \union {None}
  /\ device \in {"pending", "active", "revoked"}
  /\ poll \in [n : NodeSocks \union {None}, active : BOOLEAN]
  /\ setup \in Setups

(* ... and of what is on its way.                                          *)
Traffic ==
  /\ in \in [Socks -> Seq(InMessage)]
  /\ out \in [Socks -> Seq(OutMessage)]
  /\ queue \in [Socks -> Seq(FrameOf(ClientSocks))]
  /\ view \in [NodeSocks -> ClientSocks \union {None}]
  /\ asked \in [NodeSocks -> Seq(ClientSocks)]
  /\ allowed \subseteq ClientSocks
  /\ sent \in [ClientSocks -> [node : Nat, client : Nat]]
  /\ got \in [ClientSocks -> [node : Seq(FrameOf(ClientSocks \union {None})), client : Seq(FrameOf(ClientSocks))]]

(* A paired socket forwards to a socket, and no queue outgrows its limits. *)
Queues ==
  \A s \in Socks : /\ Len(queue[s]) <= MaxQueued /\ Len(queue[s]) <= Absolute

(* Only a client waits for an authorization.                               *)
Timers == \A n \in NodeSocks : timer[n] # "authorization"

(* A socket that has not connected has done nothing yet, and a client is   *)
(* only ever at a node that has authenticated itself.                      *)
Beginnings ==
  /\ \A s \in Socks : sock[s] = "none" => phase[s] = "handshake"
  /\ \A c \in ClientSocks : /\ peer[c] = None => phase[c] \in {"handshake", "authorizing"}
                            /\ peer[c] # None => phase[peer[c]] # "handshake"

(* An answer that is on its way was given by a node.                       *)
AnswersAreGiven ==
  \A n \in NodeSocks : \A i \in DOMAIN in[n] :
    in[n][i].t = "result" /\ in[n][i].allow => in[n][i].c \in allowed

(* The node and the client of a session name each other; so do a node and  *)
(* the client it is asked about.                                           *)
SessionsAreMutual ==
  /\ \A n \in NodeSocks : client[n] # None =>
       /\ phase[n] # "handshake"
       /\ Alive(n) => phase[n] = "paired" /\ pending[n] = None /\ Alive(client[n])
                      /\ phase[client[n]] = "paired" /\ peer[client[n]] = n
  /\ \A n \in NodeSocks : pending[n] # None =>
       /\ phase[n] # "handshake"
       /\ Alive(n) => phase[n] = "authorizing" /\ client[n] = None /\ Alive(pending[n])
                      /\ phase[pending[n]] = "authorizing" /\ peer[pending[n]] = n
  /\ \A n \in NodeSocks : /\ phase[n] = "paired" => client[n] # None
                          /\ phase[n] = "authorizing" => pending[n] # None
  /\ \A c \in ClientSocks : phase[c] = "paired" /\ Alive(c) /\ Alive(peer[c]) => client[peer[c]] = c

IInv ==
  /\ Relay
  /\ Traffic
  /\ Queues
  /\ Timers
  /\ Beginnings
  /\ AnswersAreGiven
  /\ RegisteredIsConnected
  /\ SessionsAreMutual
  /\ PairedOnlyIfAllowed

-----------------------------------------------------------------------------
(* The types of the relay.                                                 *)

(* safeClose: who is connected stays connected, until the close event.     *)
LEMMA ClosingSockets ==
  ASSUME Relay, NEW S
  PROVE  /\ Closing(S) \in [Socks -> {"none", "open", "closing", "closed"}]
         /\ \A s \in Socks : /\ Closing(S)[s] \in {"open", "closing"} <=> Alive(s)
                             /\ Closing(S)[s] = "none" <=> sock[s] = "none"
                             /\ Closing(S)[s] = "open" => sock[s] = "open"
                             /\ s \in S => Closing(S)[s] # "open"
BY DEF Relay, Closing, Alive

(* What an authorization result does: nothing, a session, or a refusal.    *)
Pairs(n, c) ==
  /\ sock[n] = "open" /\ sock[c] = "open" /\ phase[c] = "authorizing" /\ Head(in[n]).allow
  /\ timer' = [timer EXCEPT ![c] = "none"]
  /\ phase' = [phase EXCEPT ![n] = "paired", ![c] = "paired"]
  /\ client' = [client EXCEPT ![n] = c] /\ peer' = [peer EXCEPT ![c] = n]
  /\ sock' = sock

Refuses(n, c) ==
  /\ timer' \in {timer, [timer EXCEPT ![c] = "none"]}
  /\ phase' = [phase EXCEPT ![n] = "ready"]
  /\ sock' = Closing({c})
  /\ UNCHANGED <<client, peer>>

LEMMA AuthorizedCases ==
  ASSUME Relay, Traffic, NEW n \in NodeSocks, Authorized(n)
  PROVE  \/ UNCHANGED <<sock, phase, timer, client, pending, peer>>
         \/ \E c \in ClientSocks :
              /\ pending[n] = c /\ phase[n] = "authorizing" /\ Head(in[n]).t = "result" /\ Head(in[n]).c = c
              /\ pending' = [pending EXCEPT ![n] = None]
              /\ Pairs(n, c) \/ Refuses(n, c)
<1>1. Head(in[n]) \in InMessage /\ Head(in[n]).t = "result"
  <2>1. in[n] \in Seq(InMessage) /\ in[n] # <<>>
    BY DEF Authorized, Receives, Traffic, Socks
  <2> QED BY <2>1, HeadTailProperties DEF Authorized, Receives
<1>2. Head(in[n]).c \in ClientSocks
  BY <1>1 DEF InMessage, FrameOf
<1>3. timer = [timer EXCEPT ![pending[n]] = timer[pending[n]]]
  BY DEF Relay
<1> QED BY <1>1, <1>2, <1>3 DEF Authorized, Answers, Pairs, Refuses

(* What the end of a client does to the node it was at.                    *)
Frees(n, c) ==
  /\ Alive(n) /\ (client[n] = c \/ pending[n] = c)
  /\ client' = [client EXCEPT ![n] = IF client[n] = c THEN None ELSE client[n]]
  /\ pending' = [pending EXCEPT ![n] = IF pending[n] = c THEN None ELSE pending[n]]
  /\ phase' = [phase EXCEPT ![n] = "ready"]

FreesNone(c) ==
  /\ UNCHANGED <<client, pending, phase>>
  /\ peer[c] # None /\ Alive(peer[c]) => client[peer[c]] # c /\ pending[peer[c]] # c

LEMMA ClientGoneCases ==
  ASSUME Relay, NEW c \in ClientSocks, ClientGone(c)
  PROVE  /\ sock' = [sock EXCEPT ![c] = "closed"] /\ registered' = registered
         /\ FreesNone(c) \/ (peer[c] \in NodeSocks /\ Frees(peer[c], c))
<1>1. sock' = [sock EXCEPT ![c] = "closed"] /\ registered' = registered
  BY DEF ClientGone
<1> DEFINE n == peer[c]
<1>2. n \in NodeSocks \union {None} /\ (n # None => n \in NodeSocks)
  BY DEF Relay
<1>3. CASE n # None /\ Alive(n) /\ (client[n] = c \/ pending[n] = c)
  <2>1. client' = [client EXCEPT ![n] = IF client[n] = c THEN None ELSE client[n]]
    BY <1>2, <1>3 DEF ClientGone, Relay
  <2>2. pending' = [pending EXCEPT ![n] = IF pending[n] = c THEN None ELSE pending[n]]
    BY <1>2, <1>3 DEF ClientGone, Relay
  <2>3. phase' = [phase EXCEPT ![n] = "ready"]
    BY <1>2, <1>3 DEF ClientGone
  <2> QED BY <1>1, <1>2, <1>3, <2>1, <2>2, <2>3 DEF Frees
<1>4. CASE ~(n # None /\ Alive(n) /\ (client[n] = c \/ pending[n] = c))
  BY <1>1, <1>2, <1>4 DEF ClientGone, FreesNone
<1> QED BY <1>3, <1>4

(* A client that authenticates waits for the answer of a free node, or is  *)
(* closed.                                                                 *)
Asks(n, c) ==
  /\ NodeFree(n) /\ n = registered
  /\ timer' = [timer EXCEPT ![c] = "authorization"]
  /\ phase' = [phase EXCEPT ![c] = "authorizing", ![n] = "authorizing"]
  /\ peer' = [peer EXCEPT ![c] = n]
  /\ pending' = [pending EXCEPT ![n] = c]
  /\ sock' = sock

LEMMA ClientAuthCases ==
  ASSUME Relay, NEW c \in ClientSocks, ClientAuth(c)
  PROVE  /\ phase[c] = "handshake" /\ Alive(c) /\ UNCHANGED <<lookup, client, registered, device, poll, setup>>
         /\ \/ UNCHANGED <<timer, phase, peer, pending>> /\ sock' = Closing({c})
            \/ \E n \in NodeSocks : Asks(n, c)
BY DEF Relay, ClientAuth, Receives, NodeFree, Asks

(* What becomes of a frame: its client is closed, it waits, or it is sent. *)
LEMMA ForwardCases ==
  ASSUME NEW s, Forward(s)
  PROVE  \/ sock' = Closing({ClientOf(s)}) /\ UNCHANGED <<queue, out>>
         \/ /\ ~(Len(queue[s]) >= MaxQueued)
            /\ ~(Len(out[Target(s)]) + Len(queue[s]) + 1 > Absolute)
            /\ sock[Target(s)] = "open"
            /\ queue[s] # <<>> \/ Len(out[Target(s)]) >= HighWater
            /\ queue' = [queue EXCEPT ![s] = Append(queue[s], Head(in[s]))] /\ UNCHANGED <<out, sock>>
         \/ /\ queue[s] = <<>> /\ sock[Target(s)] = "open"
            /\ out' = [out EXCEPT ![Target(s)] = Append(out[Target(s)], Head(in[s]))] /\ UNCHANGED <<queue, sock>>
BY DEF Forward

LEMMA RelayNext == ASSUME IInv, [Next]_vars PROVE Relay'
<1> USE PiTunnelAssumption DEF IInv, Relay, Phases, Socks, relayVars, externalVars, Timers, None,
   Alive, NoPoll, Setup, Consume
<1>1. ASSUME NEW s \in Socks, Accept(s) PROVE Relay'
  BY <1>1 DEF Accept
<1>2. ASSUME NEW s \in Socks, BinaryFrame(s) PROVE Relay'
  <2>1. sock' \in [Socks -> {"none", "open", "closing", "closed"}]
    <3>1. sock' = sock \/ sock' = Closing({ClientOf(s)})
      BY <1>2, ForwardCases DEF BinaryFrame
    <3> QED BY <3>1, ClosingSockets
  <2> QED BY <1>2, <2>1 DEF BinaryFrame
<1>3. ASSUME NEW s \in Socks, Drain(s) PROVE Relay'
  BY <1>3 DEF Drain
<1>4. ASSUME NEW s \in Socks, CloseEvent(s) PROVE Relay'
  <2>1. timer' \in [Socks -> {"none", "handshake", "authorization"}]
    BY <1>4 DEF CloseEvent
  <2>2. CASE s \in NodeSocks
    <3>1. sock' = [Closing({client[s], pending[s]} \ {None}) EXCEPT ![s] = "closed"]
      BY <1>4, <2>2 DEF CloseEvent, NodeGone
    <3>2. sock' \in [Socks -> {"none", "open", "closing", "closed"}]
      BY <3>1, ClosingSockets
    <3> QED BY <1>4, <2>1, <2>2, <3>2 DEF CloseEvent, NodeGone
  <2>3. CASE s \in ClientSocks
    <3>1. ClientGone(s)
      BY <1>4, <2>3, PiTunnelAssumption DEF CloseEvent
    <3>2. sock' \in [Socks -> {"none", "open", "closing", "closed"}] /\ registered' = registered
      BY <3>1, <2>3, ClientGoneCases
    <3>3. /\ client' \in [NodeSocks -> ClientSocks \union {None}]
          /\ pending' \in [NodeSocks -> ClientSocks \union {None}]
          /\ phase' \in [Socks -> Phases]
      BY <3>1, <2>3, ClientGoneCases DEF Frees, FreesNone
    <3> QED BY <1>4, <2>1, <3>2, <3>3 DEF CloseEvent
  <2> QED BY <2>2, <2>3
<1>5. ASSUME NEW s \in Socks, RelayCloses(s) PROVE Relay'
  BY <1>5 DEF RelayCloses, Closing
<1>6. ASSUME NEW s \in Socks, TimerFires(s) PROVE Relay'
  BY <1>6 DEF TimerFires, Closing, TimeoutReleases
<1>7. ASSUME NEW n \in NodeSocks, NodeAuth(n) PROVE Relay'
  BY <1>7 DEF NodeAuth
<1>8. ASSUME NEW n \in NodeSocks, LookupReturns(n) PROVE Relay'
  BY <1>8, ClosingSockets DEF LookupReturns
<1>9. ASSUME NEW n \in NodeSocks, Authorized(n) PROVE Relay'
  <2>1. UNCHANGED <<lookup, registered, device, poll, setup>>
    BY <1>9 DEF Authorized
  <2>2. CASE UNCHANGED <<sock, phase, timer, client, pending, peer>>
    BY <2>1, <2>2
  <2>3. ASSUME NEW c \in ClientSocks, pending' = [pending EXCEPT ![n] = None], Pairs(n, c) PROVE Relay'
    BY <2>1, <2>3 DEF Pairs
  <2>4. ASSUME NEW c \in ClientSocks, pending' = [pending EXCEPT ![n] = None], Refuses(n, c) PROVE Relay'
    BY <2>1, <2>4, ClosingSockets DEF Refuses
  <2> QED BY <1>9, <2>2, <2>3, <2>4, AuthorizedCases
<1>10. ASSUME NEW n \in NodeSocks, TextForbidden(n) PROVE Relay'
  BY <1>10 DEF TextForbidden, Closing
<1>11. ASSUME NEW n \in NodeSocks, StaleFrame(n) PROVE Relay'
  BY <1>11 DEF StaleFrame
<1>12. ASSUME NEW n \in NodeSocks, NodeReads(n) PROVE Relay'
  BY <1>12 DEF NodeReads, Take
<1>13. ASSUME NEW n \in NodeSocks, NodeSends(n) PROVE Relay'
  BY <1>13 DEF NodeSends
<1>14. ASSUME NEW c \in ClientSocks, ClientAuth(c) PROVE Relay'
  <2>1. UNCHANGED <<lookup, client, registered, device, poll, setup>>
    BY <1>14, ClientAuthCases
  <2>2. CASE UNCHANGED <<timer, phase, peer, pending>> /\ sock' = Closing({c})
    BY <2>1, <2>2, ClosingSockets
  <2>3. ASSUME NEW n \in NodeSocks, Asks(n, c) PROVE Relay'
    BY <2>1, <2>3 DEF Asks
  <2> QED BY <1>14, <2>2, <2>3, ClientAuthCases
<1>15. ASSUME NEW c \in ClientSocks, ClientReads(c) PROVE Relay'
  BY <1>15 DEF ClientReads, Take
<1>16. ASSUME NEW c \in ClientSocks, ClientSends(c) PROVE Relay'
  BY <1>16 DEF ClientSends
<1>17. CASE Activate
  BY <1>17 DEF Activate
<1>18. CASE Revoke
  BY <1>18 DEF Revoke
<1>19. CASE StartPoll
  BY <1>19 DEF StartPoll
<1>20. CASE EndPoll
  BY <1>20 DEF EndPoll, Closing
<1>21. ASSUME NEW n \in NodeSocks, NEW k \in 1 .. 2, NodeAnswers(n, k) PROVE Relay'
  BY <1>21 DEF NodeAnswers
<1>22. CASE UNCHANGED vars
  BY <1>22 DEF vars
<1> QED BY <1>1, <1>2, <1>3, <1>4, <1>5, <1>6, <1>7, <1>8, <1>9, <1>10, <1>11, <1>12, <1>13, <1>14,
   <1>15, <1>16, <1>17, <1>18, <1>19, <1>20, <1>21, <1>22 DEF Next, NodeStep

-----------------------------------------------------------------------------
(* The types of what is on its way.                                        *)

LEMMA ConsumeType ==
  ASSUME Traffic, NEW s \in Socks, NEW kind, Receives(s, kind), Consume(s)
  PROVE  in' \in [Socks -> Seq(InMessage)] /\ Head(in[s]) \in InMessage /\ Head(in[s]).t = kind
<1>1. in[s] \in Seq(InMessage) /\ in[s] # <<>>
  BY DEF Traffic, Receives
<1>2. Tail(in[s]) \in Seq(InMessage) /\ Head(in[s]) \in InMessage
  BY <1>1, HeadTailProperties
<1> QED BY <1>2 DEF Consume, Traffic, Receives

LEMMA ControlType ==
  ASSUME Traffic, NEW msgs, \A s \in DOMAIN msgs : msgs[s] \in OutMessage, Control(msgs)
  PROVE  out' \in [Socks -> Seq(OutMessage)]
<1>1. \A s \in Socks : s \in DOMAIN msgs => Append(out[s], msgs[s]) \in Seq(OutMessage)
  BY AppendProperties DEF Traffic
<1> QED BY <1>1 DEF Control, Traffic

LEMMA TakeType ==
  ASSUME Traffic, NEW s \in Socks, out[s] # <<>>, Take(s)
  PROVE  out' \in [Socks -> Seq(OutMessage)] /\ Head(out[s]) \in OutMessage
<1>1. Tail(out[s]) \in Seq(OutMessage) /\ Head(out[s]) \in OutMessage
  BY HeadTailProperties DEF Traffic
<1> QED BY <1>1 DEF Take, Traffic

LEMMA FrameTypes ==
  /\ \A m \in InMessage : m.t = "frame" => m \in FrameOf(ClientSocks) /\ m \in OutMessage
  /\ \A m \in OutMessage : m.t = "frame" => m \in FrameOf(ClientSocks) /\ m.c \in ClientSocks
  /\ \A m \in OutMessage : m.t \in {"clientConnected", "authorizeClient"} => m.c \in ClientSocks
  /\ \A c \in ClientSocks, i \in Nat : Frame(c, i) \in FrameOf(ClientSocks) /\ Frame(c, i) \in InMessage
  /\ Frame(None, 0) \in FrameOf(ClientSocks \union {None})
  /\ FrameOf(ClientSocks) \subseteq FrameOf(ClientSocks \union {None})
BY DEF InMessage, OutMessage, FrameOf, Frame

(* The handlers of the relay leave the two ends alone.                     *)
LEMMA RelayTraffic ==
  ASSUME Traffic, UNCHANGED externalVars, in' \in [Socks -> Seq(InMessage)],
         out' \in [Socks -> Seq(OutMessage)], queue' \in [Socks -> Seq(FrameOf(ClientSocks))]
  PROVE  Traffic'
BY DEF Traffic, externalVars

LEMMA AcceptTraffic == ASSUME Traffic, NEW s \in Socks, Accept(s) PROVE Traffic'
<1>1. <<[t |-> "auth"]>> \in Seq(InMessage)
  <2>1. [t |-> "auth"] \in InMessage
    BY DEF InMessage
  <2> QED BY <2>1
<1>2. in' \in [Socks -> Seq(InMessage)]
  BY <1>1 DEF Accept, Traffic
<1> QED BY <1>2, RelayTraffic DEF Accept, Traffic

LEMMA BinaryTraffic == ASSUME Traffic, NEW s \in Socks, BinaryFrame(s) PROVE Traffic'
<1>1. in' \in [Socks -> Seq(InMessage)] /\ Head(in[s]) \in InMessage /\ Head(in[s]).t = "frame"
  BY ConsumeType DEF BinaryFrame
<1>2. Head(in[s]) \in FrameOf(ClientSocks) /\ Head(in[s]) \in OutMessage
  BY <1>1, FrameTypes
<1>3. queue' \in [Socks -> Seq(FrameOf(ClientSocks))]
  <2>1. Append(queue[s], Head(in[s])) \in Seq(FrameOf(ClientSocks))
    BY <1>2, AppendProperties DEF Traffic
  <2>2. queue' = queue \/ queue' = [queue EXCEPT ![s] = Append(queue[s], Head(in[s]))]
    BY ForwardCases DEF BinaryFrame
  <2> QED BY <2>1, <2>2 DEF Traffic
<1>4. out' \in [Socks -> Seq(OutMessage)]
  <2> DEFINE d == Target(s)
  <2>1. out' = out \/ out' = [out EXCEPT ![d] = Append(out[d], Head(in[s]))]
    BY ForwardCases DEF BinaryFrame
  <2>2. d \in Socks => Append(out[d], Head(in[s])) \in Seq(OutMessage)
    BY <1>2, AppendProperties DEF Traffic
  <2> HIDE DEF d
  <2> QED BY <2>1, <2>2 DEF Traffic
<1> QED BY <1>1, <1>3, <1>4, RelayTraffic DEF BinaryFrame

LEMMA MovesAreQueued ==
  ASSUME Traffic, NEW s \in Socks, NEW d \in Socks, d = Target(s), HighWater \in Nat
  PROVE  Moves(s) \in 0 .. Len(queue[s])
<1>1. Len(out[d]) \in Nat /\ Len(queue[s]) \in Nat
  BY LenProperties DEF Traffic
<1> QED BY <1>1 DEF Moves

LEMMA DrainTraffic == ASSUME Traffic, NEW s \in Socks, Target(s) # None => Target(s) \in Socks, Drain(s) PROVE Traffic'
<1> DEFINE d == Target(s)
           k == Moves(s)
<1>1. d \in Socks /\ queue[s] \in Seq(FrameOf(ClientSocks)) /\ out[d] \in Seq(OutMessage)
  BY DEF Drain, Traffic
<1>2. k \in 0 .. Len(queue[s]) /\ Len(queue[s]) \in Nat
  BY <1>1, MovesAreQueued, PiTunnelAssumption, LenProperties
<1> HIDE DEF k, d
<1>3. \A i \in 1 .. Len(queue[s]) : queue[s][i] \in FrameOf(ClientSocks) /\ queue[s][i] \in OutMessage
  BY <1>1, ElementOfSeq DEF OutMessage
<1>4. SubSeq(queue[s], k + 1, Len(queue[s])) \in Seq(FrameOf(ClientSocks))
  BY <1>2, <1>3, SubSeqProperties
<1>5. SubSeq(queue[s], 1, k) \in Seq(OutMessage)
  BY <1>2, <1>3, SubSeqProperties
<1>6. out[d] \o SubSeq(queue[s], 1, k) \in Seq(OutMessage)
  BY <1>1, <1>5, ConcatProperties
<1>7. <<>> \in Seq(FrameOf(ClientSocks))
  OBVIOUS
<1>8. queue' \in [Socks -> Seq(FrameOf(ClientSocks))] /\ out' \in [Socks -> Seq(OutMessage)]
  BY <1>4, <1>6, <1>7 DEF Drain, Traffic, d, k
<1> QED BY <1>8, RelayTraffic DEF Drain, Traffic

LEMMA CloseTraffic == ASSUME Relay, Traffic, NEW s \in Socks, CloseEvent(s) PROVE Traffic'
<1>1. in' \in [Socks -> Seq(InMessage)]
  BY DEF CloseEvent, Traffic
<1>2. CASE s \in NodeSocks
  <2>1. queue' = [queue EXCEPT ![s] = <<>>] /\ out' = out
    BY <1>2 DEF CloseEvent, NodeGone
  <2>2. queue' \in [Socks -> Seq(FrameOf(ClientSocks))] /\ out' \in [Socks -> Seq(OutMessage)]
    BY <2>1, EmptySeq DEF Traffic
  <2> QED BY <1>1, <2>2, RelayTraffic DEF CloseEvent
<1>3. CASE s \notin NodeSocks
  <2>1. ClientGone(s)
    BY <1>3 DEF CloseEvent
  <2>2. queue' \in [Socks -> Seq(FrameOf(ClientSocks))]
    BY <2>1 DEF ClientGone, Traffic
  <2>3. out' \in [Socks -> Seq(OutMessage)]
    <3>1. CASE out' = out
      BY <3>1 DEF Traffic
    <3>2. CASE out' # out
      <4>1. Control([n \in {peer[s]} |-> [t |-> "clientDisconnected"]])
        BY <2>1, <3>2 DEF ClientGone
      <4> QED BY <4>1, ControlType DEF OutMessage
    <3> QED BY <3>1, <3>2
  <2> QED BY <1>1, <2>2, <2>3, RelayTraffic DEF CloseEvent
<1> QED BY <1>2, <1>3

LEMMA NodeHandlerTraffic == ASSUME Relay, Traffic, NEW n \in NodeSocks, NodeStep(n) PROVE Traffic'
<1> USE DEF Socks
<1>1. ASSUME NodeAuth(n) PROVE Traffic'
  BY <1>1, ConsumeType, RelayTraffic DEF NodeAuth, Traffic
<1>2. ASSUME LookupReturns(n) PROVE Traffic'
  <2>1. out' = out \/ Control([s \in {n} |-> [t |-> "ready"]])
    BY <1>2 DEF LookupReturns
  <2>2. out' \in [Socks -> Seq(OutMessage)]
    BY <2>1, ControlType DEF OutMessage, Traffic
  <2> QED BY <1>2, <2>2, RelayTraffic DEF LookupReturns, Traffic
<1>3. ASSUME Authorized(n) PROVE Traffic'
  <2>1. in' \in [Socks -> Seq(InMessage)] /\ Head(in[n]) \in InMessage /\ Head(in[n]).t = "result"
    BY <1>3, ConsumeType DEF Authorized
  <2>2. Head(in[n]).c \in ClientSocks
    BY <2>1 DEF InMessage, FrameOf
  <2>3. \/ out' = out
        \/ /\ Answers(n, Head(in[n]))
           /\ Control([s \in {n, pending[n]} |-> IF s = n THEN [t |-> "clientConnected", c |-> pending[n]]
                                                 ELSE [t |-> "ready"]])
    BY <1>3 DEF Authorized
  <2>4. out' \in [Socks -> Seq(OutMessage)]
    BY <2>2, <2>3, ControlType DEF OutMessage, Traffic, Answers
  <2>5. queue' \in [Socks -> Seq(FrameOf(ClientSocks))]
    <3>1. queue' = queue \/ queue' = [queue EXCEPT ![n] = <<>>, ![pending[n]] = <<>>]
      BY <1>3 DEF Authorized
    <3> DEFINE c == pending[n]
    <3> HIDE DEF c
    <3>2. queue' = queue \/ queue' = [queue EXCEPT ![n] = <<>>, ![c] = <<>>]
      BY <3>1 DEF c
    <3>3. <<>> \in Seq(FrameOf(ClientSocks)) /\ queue \in [Socks -> Seq(FrameOf(ClientSocks))]
      BY EmptySeq DEF Traffic
    <3> QED BY <3>2, <3>3
  <2> QED BY <1>3, <2>1, <2>4, <2>5, RelayTraffic DEF Authorized
<1>4. ASSUME TextForbidden(n) PROVE Traffic'
  BY <1>4, ConsumeType, RelayTraffic DEF TextForbidden, Traffic
<1>5. ASSUME StaleFrame(n) PROVE Traffic'
  BY <1>5, ConsumeType, RelayTraffic DEF StaleFrame, Traffic, relayVars
<1> QED BY <1>1, <1>2, <1>3, <1>4, <1>5 DEF NodeStep

LEMMA ClientAuthTraffic == ASSUME Relay, Traffic, NEW c \in ClientSocks, ClientAuth(c) PROVE Traffic'
<1>1. in' \in [Socks -> Seq(InMessage)]
  BY ConsumeType DEF ClientAuth, Socks
<1>2. out' = out \/ Control([s \in {registered} |-> [t |-> "authorizeClient", c |-> c]])
  BY DEF ClientAuth
<1>3. out' \in [Socks -> Seq(OutMessage)]
  BY <1>2, ControlType DEF OutMessage, Traffic
<1> QED BY <1>1, <1>3, RelayTraffic DEF ClientAuth, Traffic

(* The two ends.                                                           *)
LEMMA SentCounts ==
  ASSUME Traffic, NEW c \in ClientSocks
  PROVE  /\ [sent EXCEPT ![c].node = sent[c].node + 1] \in [ClientSocks -> [node : Nat, client : Nat]]
         /\ [sent EXCEPT ![c].client = sent[c].client + 1] \in [ClientSocks -> [node : Nat, client : Nat]]
<1>1. sent[c] \in [node : Nat, client : Nat] /\ sent \in [ClientSocks -> [node : Nat, client : Nat]]
  BY DEF Traffic
<1>2. /\ [sent[c] EXCEPT !.node = sent[c].node + 1] \in [node : Nat, client : Nat]
      /\ [sent[c] EXCEPT !.client = sent[c].client + 1] \in [node : Nat, client : Nat]
  <2>1. ASSUME NEW x \in [node : Nat, client : Nat]
        PROVE  /\ [x EXCEPT !.node = x.node + 1] \in [node : Nat, client : Nat]
               /\ [x EXCEPT !.client = x.client + 1] \in [node : Nat, client : Nat]
    OBVIOUS
  <2> QED BY <1>1, <2>1
<1> QED BY <1>1, <1>2

LEMMA NodeEndTraffic ==
  ASSUME Traffic, NEW n \in NodeSocks, NodeReads(n) \/ NodeSends(n) \/ \E k \in 1 .. 2 : NodeAnswers(n, k)
  PROVE  Traffic'
<1> USE DEF Socks
<1>1. ASSUME NodeReads(n) PROVE Traffic'
  <2> DEFINE m == Head(out[n])
  <2>1. out' \in [Socks -> Seq(OutMessage)] /\ m \in OutMessage
    BY <1>1, TakeType DEF NodeReads
  <2>2. view' \in [NodeSocks -> ClientSocks \union {None}]
    BY <1>1, <2>1, FrameTypes DEF NodeReads, Traffic
  <2>3. asked' \in [NodeSocks -> Seq(ClientSocks)]
    <3>1. m.t = "authorizeClient" => Append(asked[n], m.c) \in Seq(ClientSocks)
      BY <2>1, FrameTypes, AppendProperties DEF Traffic
    <3> QED BY <1>1, <3>1 DEF NodeReads, Traffic
  <2>4. got' \in [ClientSocks -> [node : Seq(FrameOf(ClientSocks \union {None})), client : Seq(FrameOf(ClientSocks))]]
    <3>1. CASE got' = got
      BY <3>1 DEF Traffic
    <3>2. CASE got' # got
      <4> DEFINE f == IF view[n] = m.c THEN m ELSE Frame(None, 0)
                 c == m.c
                 G == [node : Seq(FrameOf(ClientSocks \union {None})), client : Seq(FrameOf(ClientSocks))]
      <4>1. m.t = "frame" /\ got' = [got EXCEPT ![c].node = Append(got[c].node, f)]
        BY <1>1, <3>2 DEF NodeReads
      <4>2. f \in FrameOf(ClientSocks \union {None}) /\ c \in ClientSocks
        BY <2>1, <4>1, FrameTypes
      <4>3. got[c] \in G /\ got \in [ClientSocks -> G]
        BY <4>2 DEF Traffic
      <4> HIDE DEF f, c
      <4>4. Append(got[c].node, f) \in Seq(FrameOf(ClientSocks \union {None}))
        BY <4>2, <4>3, AppendProperties
      <4> QED BY <4>1, <4>2, <4>3, <4>4
    <3> QED BY <3>1, <3>2
  <2> QED BY <1>1, <2>1, <2>2, <2>3, <2>4 DEF NodeReads, Traffic, relayVars
<1>2. ASSUME NodeSends(n) PROVE Traffic'
  <2> DEFINE c == view[n]
             f == Frame(c, sent[c].node + 1)
  <2>1. c \in ClientSocks /\ sent[c] \in [node : Nat, client : Nat]
    BY <1>2 DEF NodeSends, Traffic
  <2>2. f \in InMessage
    BY <2>1, FrameTypes
  <2>3. sent' = [sent EXCEPT ![c].node = sent[c].node + 1] /\ in' = [in EXCEPT ![n] = Append(in[n], f)]
    BY <1>2 DEF NodeSends
  <2> HIDE DEF f, c
  <2>4. Append(in[n], f) \in Seq(InMessage)
    BY <2>2, AppendProperties DEF Traffic
  <2>5. in' \in [Socks -> Seq(InMessage)]
    BY <2>3, <2>4 DEF Traffic
  <2>6. sent' \in [ClientSocks -> [node : Nat, client : Nat]]
    BY <2>1, <2>3, SentCounts
  <2> QED BY <1>2, <2>5, <2>6 DEF NodeSends, Traffic, relayVars
<1>3. ASSUME NEW k \in 1 .. 2, NodeAnswers(n, k) PROVE Traffic'
  <2> DEFINE c == asked[n][k]
  <2>1. asked[n] \in Seq(ClientSocks) /\ k \in 1 .. Len(asked[n])
    BY <1>3, LenProperties DEF NodeAnswers, Traffic
  <2>2. c \in ClientSocks
    BY <2>1, ElementOfSeq
  <2>3. PICK allow \in BOOLEAN :
           /\ in' = [in EXCEPT ![n] = Append(in[n], [t |-> "result", c |-> c, allow |-> allow])]
           /\ allowed' = IF allow THEN allowed \union {c} ELSE allowed
    BY <1>3 DEF NodeAnswers
  <2>4. RemoveAt(asked[n], k) \in Seq(ClientSocks)
    <3>1. \A i \in 1 .. Len(asked[n]) : asked[n][i] \in ClientSocks
      BY <2>1, ElementOfSeq
    <3>2. SubSeq(asked[n], 1, k - 1) \in Seq(ClientSocks) /\ SubSeq(asked[n], k + 1, Len(asked[n])) \in Seq(ClientSocks)
      BY <2>1, <3>1, LenProperties, SubSeqProperties
    <3> QED BY <3>2, ConcatProperties DEF RemoveAt
  <2> HIDE DEF c
  <2> DEFINE m == [t |-> "result", c |-> c, allow |-> allow]
  <2>5. m \in InMessage
    BY <2>2 DEF InMessage
  <2> HIDE DEF m
  <2>6. Append(in[n], m) \in Seq(InMessage)
    BY <2>5, AppendProperties DEF Traffic
  <2>7. in' \in [Socks -> Seq(InMessage)]
    BY <2>3, <2>6 DEF Traffic, m
  <2>8. asked' \in [NodeSocks -> Seq(ClientSocks)]
    BY <1>3, <2>4 DEF NodeAnswers, Traffic
  <2>9. allowed' \subseteq ClientSocks
    BY <2>2, <2>3 DEF Traffic
  <2> QED BY <1>3, <2>7, <2>8, <2>9 DEF NodeAnswers, Traffic, relayVars
<1> QED BY <1>1, <1>2, <1>3

LEMMA ClientEndTraffic ==
  ASSUME Traffic, NEW c \in ClientSocks, ClientReads(c) \/ ClientSends(c) PROVE Traffic'
<1> USE DEF Socks
<1>1. ASSUME ClientReads(c) PROVE Traffic'
  <2> DEFINE m == Head(out[c])
             G == [node : Seq(FrameOf(ClientSocks \union {None})), client : Seq(FrameOf(ClientSocks))]
  <2>1. out' \in [Socks -> Seq(OutMessage)] /\ m \in OutMessage
    BY <1>1, TakeType DEF ClientReads
  <2>2. got \in [ClientSocks -> G] /\ got[c] \in G
    BY DEF Traffic
  <2>3. got' = got \/ (m.t = "frame" /\ got' = [got EXCEPT ![c].client = Append(got[c].client, m)])
    BY <1>1 DEF ClientReads
  <2> HIDE DEF m
  <2>4. m.t = "frame" => Append(got[c].client, m) \in Seq(FrameOf(ClientSocks))
    BY <2>1, <2>2, FrameTypes, AppendProperties
  <2>5. got' \in [ClientSocks -> G]
    BY <2>2, <2>3, <2>4
  <2> QED BY <1>1, <2>1, <2>5 DEF ClientReads, Traffic, relayVars
<1>2. ASSUME ClientSends(c) PROVE Traffic'
  <2> DEFINE f == Frame(c, sent[c].client + 1)
  <2>1. sent[c] \in [node : Nat, client : Nat]
    BY DEF Traffic
  <2>2. f \in InMessage
    BY <2>1, FrameTypes
  <2>3. sent' = [sent EXCEPT ![c].client = sent[c].client + 1] /\ in' = [in EXCEPT ![c] = Append(in[c], f)]
    BY <1>2 DEF ClientSends
  <2> HIDE DEF f
  <2>4. Append(in[c], f) \in Seq(InMessage)
    BY <2>2, AppendProperties DEF Traffic
  <2>5. in' \in [Socks -> Seq(InMessage)] /\ sent' \in [ClientSocks -> [node : Nat, client : Nat]]
    BY <2>3, <2>4, SentCounts DEF Traffic
  <2> QED BY <1>2, <2>5 DEF ClientSends, Traffic, relayVars
<1> QED BY <1>1, <1>2

(* The targets of a paired socket.                                         *)
LEMMA TargetIsSocket ==
  ASSUME Relay, NEW s \in Socks, Target(s) # None
  PROVE  Target(s) \in Socks
BY DEF Target, Relay, Socks

LEMMA TrafficNext == ASSUME Relay, Traffic, [Next]_vars PROVE Traffic'
<1>1. ASSUME NEW s \in Socks, RelayCloses(s) \/ TimerFires(s) PROVE Traffic'
  BY <1>1 DEF RelayCloses, TimerFires, Traffic, externalVars
<1>2. ASSUME Activate \/ Revoke \/ StartPoll \/ EndPoll PROVE Traffic'
  BY <1>2 DEF Activate, Revoke, StartPoll, EndPoll, Traffic, relayVars, externalVars
<1>3. CASE UNCHANGED vars
  BY <1>3 DEF vars, Traffic
<1> QED BY <1>1, <1>2, <1>3, AcceptTraffic, BinaryTraffic, DrainTraffic, TargetIsSocket,
   CloseTraffic,
        NodeHandlerTraffic, NodeEndTraffic, ClientAuthTraffic, ClientEndTraffic DEF Next

(* A frame is queued only where there is room, and drained from its head.  *)
LEMMA QueuesNext == ASSUME Relay, Traffic, Queues, Beginnings, SessionsAreMutual, [Next]_vars PROVE Queues'
<1>1. /\ MaxQueued \in Nat \ {0} /\ Absolute \in Nat
      /\ \A s \in Socks : queue[s] \in Seq(FrameOf(ClientSocks)) /\ Len(queue[s]) \in Nat
  BY PiTunnelAssumption, LenProperties DEF Traffic
<1>2. ASSUME UNCHANGED queue PROVE Queues'
  BY <1>2 DEF Queues
<1>3. ASSUME \A s \in Socks : queue'[s] \in {queue[s], <<>>} PROVE Queues'
  BY <1>1, <1>3, EmptySeq DEF Queues
<1>4. ASSUME NEW s \in Socks, BinaryFrame(s) PROVE Queues'
  <2> DEFINE d == Target(s)
  <2>1. CASE queue' # queue
    <3>1. /\ ~(Len(queue[s]) >= MaxQueued) /\ ~(Len(out[d]) + Len(queue[s]) + 1 > Absolute) /\ sock[d] = "open"
          /\ queue' = [queue EXCEPT ![s] = Append(queue[s], Head(in[s]))]
      BY <1>4, <2>1, ForwardCases DEF BinaryFrame
    <3>2. Head(in[s]) \in FrameOf(ClientSocks)
      BY <1>4, ConsumeType, FrameTypes DEF BinaryFrame
    <3>3. Len(Append(queue[s], Head(in[s]))) = Len(queue[s]) + 1
      BY <1>1, <3>2, AppendProperties
    <3>4. d # None
      BY <1>4, PiTunnelAssumption DEF BinaryFrame, Target, Beginnings, SessionsAreMutual, Socks
    <3>5. Len(out[d]) \in Nat
      BY <3>4, TargetIsSocket, LenProperties DEF Traffic
    <3> QED BY <1>1, <3>1, <3>3, <3>5 DEF Queues, Traffic
  <2> QED BY <1>2, <2>1
<1>5. ASSUME NEW s \in Socks, Drain(s) PROVE Queues'
  <2> DEFINE k == Moves(s)
             rest == SubSeq(queue[s], k + 1, Len(queue[s]))
  <2>1. queue' = [queue EXCEPT ![s] = <<>>] \/ queue' = [queue EXCEPT ![s] = rest]
    BY <1>5 DEF Drain
  <2>2. k \in 0 .. Len(queue[s])
    BY <1>5, MovesAreQueued, TargetIsSocket, PiTunnelAssumption DEF Drain
  <2> HIDE DEF k
  <2>3. Len(rest) \in Nat /\ Len(rest) <= Len(queue[s])
    <3>1. \A i \in k + 1 .. Len(queue[s]) : queue[s][i] \in FrameOf(ClientSocks)
      BY <1>1, <2>2, ElementOfSeq
    <3> QED BY <1>1, <2>2, <3>1, SubSeqProperties
  <2> HIDE DEF rest
  <2>4. queue \in [Socks -> Seq(FrameOf(ClientSocks))] /\ Len(<<>>) = 0
    BY EmptySeq DEF Traffic
  <2>5. ASSUME NEW q, queue' = [queue EXCEPT ![s] = q], Len(q) \in Nat, Len(q) <= Len(queue[s]) PROVE Queues'
    BY <1>1, <2>4, <2>5 DEF Queues
  <2> QED BY <1>1, <2>1, <2>3, <2>4, <2>5
<1>6. ASSUME NEW s \in Socks, CloseEvent(s) PROVE Queues'
  BY <1>3, <1>6 DEF CloseEvent, NodeGone, ClientGone, Traffic
<1>7. ASSUME NEW n \in NodeSocks, Authorized(n) PROVE Queues'
  BY <1>3, <1>7 DEF Authorized, Traffic
<1>8. ASSUME NEW s \in Socks, Accept(s) \/ RelayCloses(s) \/ TimerFires(s) PROVE Queues'
  BY <1>2, <1>8 DEF Accept, RelayCloses, TimerFires
<1>9. ASSUME NEW n \in NodeSocks, NodeAuth(n) \/ LookupReturns(n) \/ TextForbidden(n) \/ StaleFrame(n) PROVE Queues'
  BY <1>2, <1>9 DEF NodeAuth, LookupReturns, TextForbidden, StaleFrame, relayVars
<1>10. ASSUME NEW n \in NodeSocks, NodeReads(n) \/ NodeSends(n) \/ \E k \in 1 .. 2 : NodeAnswers(n, k) PROVE Queues'
  BY <1>2, <1>10 DEF NodeReads, NodeSends, NodeAnswers, relayVars
<1>11. ASSUME NEW c \in ClientSocks, ClientAuth(c) \/ ClientReads(c) \/ ClientSends(c) PROVE Queues'
  BY <1>2, <1>11 DEF ClientAuth, ClientReads, ClientSends, relayVars
<1>12. ASSUME Activate \/ Revoke \/ StartPoll \/ EndPoll \/ UNCHANGED vars PROVE Queues'
  BY <1>2, <1>12 DEF Activate, Revoke, StartPoll, EndPoll, vars, relayVars
<1> QED BY <1>4, <1>5, <1>6, <1>7, <1>8, <1>9, <1>10, <1>11, <1>12 DEF Next, NodeStep

-----------------------------------------------------------------------------
(* The sessions.                                                           *)

(* Most steps change no phase and no reference, and whom they close is     *)
(* there until its close event.                                            *)
Quiet ==
  /\ UNCHANGED <<phase, client, pending, peer, registered>>
  /\ \A s \in Socks : (Alive(s)' <=> Alive(s)) /\ (sock'[s] = "none" <=> sock[s] = "none")

LEMMA ClosingIsQuiet ==
  ASSUME Relay, NEW S, sock' \in {sock, Closing(S)}, UNCHANGED <<phase, client, pending, peer, registered>>
  PROVE  Quiet
BY ClosingSockets DEF Quiet, Alive

LEMMA StepKinds ==
  ASSUME Relay, Traffic, [Next]_vars
  PROVE  \/ Quiet
         \/ \E s \in Socks : Accept(s) \/ CloseEvent(s) \/ TimerFires(s)
         \/ \E n \in NodeSocks : LookupReturns(n) \/ Authorized(n)
         \/ \E c \in ClientSocks : ClientAuth(c)
<1>1. ASSUME NEW s \in Socks, BinaryFrame(s) PROVE Quiet
  <2>1. sock' = sock \/ sock' = Closing({ClientOf(s)})
    BY <1>1, ForwardCases DEF BinaryFrame
  <2> QED BY <1>1, <2>1, ClosingIsQuiet DEF BinaryFrame
<1>2. ASSUME NEW s \in Socks, Drain(s) PROVE Quiet
  BY <1>2, ClosingIsQuiet DEF Drain
<1>3. ASSUME NEW s \in Socks, RelayCloses(s) PROVE Quiet
  BY <1>3, ClosingIsQuiet DEF RelayCloses
<1>4. ASSUME NEW n \in NodeSocks, NodeAuth(n) \/ TextForbidden(n) \/ StaleFrame(n) PROVE Quiet
  BY <1>4, ClosingIsQuiet DEF NodeAuth, TextForbidden, StaleFrame, relayVars
<1>5. ASSUME NEW n \in NodeSocks, NodeReads(n) \/ NodeSends(n) \/ \E k \in 1 .. 2 : NodeAnswers(n, k) PROVE Quiet
  BY <1>5, ClosingIsQuiet DEF NodeReads, NodeSends, NodeAnswers, relayVars
<1>6. ASSUME NEW c \in ClientSocks, ClientReads(c) \/ ClientSends(c) PROVE Quiet
  BY <1>6, ClosingIsQuiet DEF ClientReads, ClientSends, relayVars
<1>7. ASSUME Activate \/ Revoke \/ StartPoll \/ UNCHANGED vars PROVE Quiet
  BY <1>7, ClosingIsQuiet DEF Activate, Revoke, StartPoll, vars, relayVars
<1>8. ASSUME EndPoll PROVE Quiet
  BY <1>8, ClosingIsQuiet DEF EndPoll
<1> QED BY <1>1, <1>2, <1>3, <1>4, <1>5, <1>6, <1>7, <1>8 DEF Next, NodeStep

(* What the phases, the references and the sockets say together.           *)
Sessions ==
  /\ Beginnings
  /\ RegisteredIsConnected
  /\ SessionsAreMutual

LEMMA Peers == ASSUME Relay, NEW c \in ClientSocks PROVE peer[c] # None => peer[c] \in NodeSocks
BY DEF Relay

LEMMA QuietSessions == ASSUME Relay, Sessions, Quiet PROVE Sessions'
<1>1. Beginnings'
  BY Peers DEF Sessions, Quiet, Beginnings, Socks
<1>2. RegisteredIsConnected'
  BY DEF Relay, Sessions, Quiet, RegisteredIsConnected, Socks, None
<1>3. SessionsAreMutual'
  BY Peers DEF Relay, Sessions, Quiet, SessionsAreMutual, Beginnings, Socks, None
<1> QED BY <1>1, <1>2, <1>3 DEF Sessions

LEMMA AcceptSessions == ASSUME Relay, Sessions, NEW s \in Socks, Accept(s) PROVE Sessions'
<1>1. /\ UNCHANGED <<phase, client, pending, peer, registered>> /\ phase[s] = "handshake"
      /\ \A r \in Socks : r # s => sock'[r] = sock[r]
      /\ sock'[s] = "open" /\ sock[s] = "none"
  BY DEF Accept, Sessions, Beginnings, Relay
<1>2. Beginnings'
  BY <1>1 DEF Sessions, Beginnings
<1>3. RegisteredIsConnected'
  BY <1>1 DEF Relay, Sessions, RegisteredIsConnected, Alive, Socks, None
<1>4. SessionsAreMutual'
  BY <1>1, Peers DEF Relay, Sessions, SessionsAreMutual, Beginnings, Alive, Socks, None
<1> QED BY <1>2, <1>3, <1>4 DEF Sessions

LEMMA LookupSessions == ASSUME Relay, Sessions, NEW n \in NodeSocks, LookupReturns(n) PROVE Sessions'
<1>1. CASE ~(sock[n] = "open" /\ phase[n] = "handshake" /\ lookup[n] = "active" /\ registered = None)
  <2>1. sock' \in {sock, Closing({n})} /\ UNCHANGED <<phase, client, pending, peer, registered>>
    BY <1>1 DEF LookupReturns
  <2> QED BY <2>1, ClosingIsQuiet, QuietSessions
<1>2. CASE sock[n] = "open" /\ phase[n] = "handshake" /\ lookup[n] = "active" /\ registered = None
  <2>1. /\ UNCHANGED <<sock, client, pending, peer>> /\ registered' = n
        /\ phase' = [phase EXCEPT ![n] = "ready"]
    BY <1>2 DEF LookupReturns
  <2>2. /\ n \in Socks /\ phase'[n] = "ready" /\ \A s \in Socks : s # n => phase'[s] = phase[s]
        /\ n \notin ClientSocks /\ n # None
    BY <2>1, PiTunnelAssumption DEF Relay, Socks, None
  <2>3. Beginnings'
    BY <1>2, <2>1, <2>2, Peers DEF Sessions, Beginnings, Socks
  <2>4. RegisteredIsConnected'
    BY <1>2, <2>1, <2>2, PiTunnelAssumption DEF Sessions, RegisteredIsConnected, Alive, Socks, None
  <2>5. SessionsAreMutual'
    BY <1>2, <2>1, <2>2, Peers DEF Relay, Sessions, SessionsAreMutual, Alive, Socks, None
  <2> QED BY <2>3, <2>4, <2>5 DEF Sessions
<1> QED BY <1>1, <1>2

LEMMA ClientAuthSessions == ASSUME Relay, Sessions, NEW c \in ClientSocks, ClientAuth(c) PROVE Sessions'
<1>1. /\ phase[c] = "handshake" /\ Alive(c) /\ UNCHANGED <<client, registered>>
      /\ c \in Socks /\ c \notin NodeSocks /\ None \notin Socks
  BY ClientAuthCases, PiTunnelAssumption DEF Socks, None
<1>2. CASE UNCHANGED <<timer, phase, peer, pending>> /\ sock' = Closing({c})
  BY <1>1, <1>2, ClosingIsQuiet, QuietSessions
<1>3. ASSUME NEW n \in NodeSocks, Asks(n, c) PROVE Sessions'
  <2>1. /\ registered = n /\ phase[n] = "ready" /\ client[n] = None /\ pending[n] = None /\ Alive(n)
        /\ n \in Socks /\ n # None /\ n # c /\ sock' = sock
    BY <1>1, <1>3 DEF Asks, NodeFree, Sessions, RegisteredIsConnected, Socks
  <2>2. /\ phase' = [phase EXCEPT ![c] = "authorizing", ![n] = "authorizing"]
        /\ peer' = [peer EXCEPT ![c] = n] /\ pending' = [pending EXCEPT ![n] = c]
    BY <1>3 DEF Asks
  <2>3. /\ phase'[c] = "authorizing" /\ phase'[n] = "authorizing"
        /\ \A s \in Socks : s \notin {n, c} => phase'[s] = phase[s]
        /\ peer'[c] = n /\ \A d \in ClientSocks : d # c => peer'[d] = peer[d]
        /\ pending'[n] = c /\ \A m \in NodeSocks : m # n => pending'[m] = pending[m]
    BY <2>1, <2>2, <1>1 DEF Relay
  <2>4. Beginnings'
    BY <1>1, <2>1, <2>3, Peers DEF Sessions, Beginnings, Socks, Alive
  <2>5. RegisteredIsConnected'
    BY <1>1, <2>1, <2>3 DEF Sessions, RegisteredIsConnected, Alive, Socks
  <2>6. SessionsAreMutual'
    BY <1>1, <2>1, <2>3, Peers DEF Relay, Sessions, Beginnings, SessionsAreMutual, Alive, Socks
  <2> QED BY <2>4, <2>5, <2>6 DEF Sessions
<1> QED BY <1>2, <1>3, ClientAuthCases

LEMMA AuthorizedSessions == ASSUME Relay, Traffic, Sessions, NEW n \in NodeSocks, Authorized(n) PROVE Sessions'
<1>1. /\ Alive(n) /\ registered' = registered /\ n \in Socks /\ None \notin Socks
      /\ NodeSocks \intersect ClientSocks = {}
  BY PiTunnelAssumption DEF Authorized, Receives, Socks, None
<1>2. CASE UNCHANGED <<sock, phase, timer, client, pending, peer>>
  BY <1>1, <1>2, ClosingIsQuiet, QuietSessions
<1>3. ASSUME NEW c \in ClientSocks, pending[n] = c, phase[n] = "authorizing",
             pending' = [pending EXCEPT ![n] = None], Pairs(n, c) \/ Refuses(n, c)
      PROVE  Sessions'
  <2>1. /\ client[n] = None /\ Alive(c) /\ phase[c] = "authorizing" /\ peer[c] = n
        /\ registered = n /\ c \in Socks /\ c # n
    BY <1>1, <1>3 DEF Sessions, SessionsAreMutual, RegisteredIsConnected, Socks
  <2>2. pending'[n] = None /\ \A m \in NodeSocks : m # n => pending'[m] = pending[m]
    BY <1>3 DEF Relay
  <2>3. ASSUME Pairs(n, c) PROVE Sessions'
    <3>0. sock' = sock
      BY <2>3 DEF Pairs
    <3>1. /\ phase' = [phase EXCEPT ![n] = "paired", ![c] = "paired"]
          /\ client' = [client EXCEPT ![n] = c] /\ peer' = [peer EXCEPT ![c] = n]
      BY <2>3 DEF Pairs
    <3>2. /\ phase'[n] = "paired" /\ phase'[c] = "paired"
          /\ \A s \in Socks : s \notin {n, c} => phase'[s] = phase[s]
          /\ client'[n] = c /\ \A m \in NodeSocks : m # n => client'[m] = client[m]
          /\ UNCHANGED peer
      BY <1>1, <2>1, <3>1 DEF Relay
    <3>3. Beginnings'
      <4>1. \A s \in Socks : sock'[s] = "none" => phase'[s] = "handshake"
        BY <1>1, <2>1, <3>0, <3>2 DEF Sessions, Beginnings, Alive
      <4>2. \A d \in ClientSocks : d # c /\ peer[d] = None => phase'[d] \in {"handshake", "authorizing"}
        BY <1>1, <3>2 DEF Sessions, Beginnings, Socks
      <4>3. \A d \in ClientSocks : peer[d] # None => phase'[peer[d]] # "handshake"
        BY <1>1, <3>2, Peers DEF Sessions, Beginnings, Socks
      <4> QED BY <1>1, <2>1, <3>2, <4>1, <4>2, <4>3 DEF Beginnings
    <3>4. RegisteredIsConnected'
      BY <1>1, <2>1, <3>0, <3>2 DEF Sessions, RegisteredIsConnected, Alive, Socks
    <3>5. SessionsAreMutual'
      <4>1. \A m \in NodeSocks : m # n => c \notin {client[m], pending[m]} \/ ~Alive(m)
        BY <1>1, <2>1 DEF Sessions, SessionsAreMutual
      <4>2. \A s : Alive(s)' <=> Alive(s)
        BY <3>0 DEF Alive
      <4>3. \A m \in NodeSocks : client'[m] # None =>
              /\ phase'[m] # "handshake"
              /\ Alive(m) => phase'[m] = "paired" /\ pending'[m] = None /\ Alive(client'[m])
                             /\ phase'[client'[m]] = "paired" /\ peer[client'[m]] = m
        BY <1>1, <2>1, <2>2, <3>2, <4>1 DEF Relay, Sessions, SessionsAreMutual, Socks
      <4>4. \A m \in NodeSocks : pending'[m] # None =>
              /\ phase'[m] # "handshake"
              /\ Alive(m) => phase'[m] = "authorizing" /\ client'[m] = None /\ Alive(pending'[m])
                             /\ phase'[pending'[m]] = "authorizing" /\ peer[pending'[m]] = m
        <5>1. ASSUME NEW m \in NodeSocks, m # n, pending[m] # None
              PROVE  /\ pending'[m] = pending[m] /\ client'[m] = client[m] /\ phase'[m] = phase[m]
                     /\ Alive(m) => phase'[pending[m]] = phase[pending[m]]
          BY <1>1, <2>1, <2>2, <3>2, <4>1, <5>1 DEF Relay, Socks
        <5> QED BY <2>2, <5>1 DEF Sessions, SessionsAreMutual
      <4>5. \A m \in NodeSocks : /\ phase'[m] = "paired" => client'[m] # None
                                 /\ phase'[m] = "authorizing" => pending'[m] # None
        <5>1. \A m \in NodeSocks : m # n => phase'[m] = phase[m] /\ client'[m] = client[m] /\ pending'[m] = pending[m]
          BY <1>1, <2>1, <2>2, <3>2 DEF Socks
        <5>2. client'[n] # None /\ phase'[n] = "paired"
          BY <1>1, <2>1, <3>2
        <5> QED BY <5>1, <5>2 DEF Sessions, SessionsAreMutual
      <4>6. \A d \in ClientSocks : phase'[d] = "paired" /\ Alive(d) /\ Alive(peer[d]) => client'[peer[d]] = d
        BY <1>1, <2>1, <3>2, Peers DEF Sessions, Beginnings, SessionsAreMutual, Socks
      <4> QED BY <3>2, <4>2, <4>3, <4>4, <4>5, <4>6 DEF SessionsAreMutual
    <3> QED BY <3>3, <3>4, <3>5 DEF Sessions
  <2>4. ASSUME Refuses(n, c) PROVE Sessions'
    <3>1. /\ UNCHANGED <<client, peer>> /\ phase' = [phase EXCEPT ![n] = "ready"]
          /\ \A s \in Socks : (Alive(s)' <=> Alive(s)) /\ (sock'[s] = "none" <=> sock[s] = "none")
      BY <2>4, ClosingSockets DEF Refuses, Alive
    <3>2. phase'[n] = "ready" /\ \A s \in Socks : s # n => phase'[s] = phase[s]
      BY <1>1, <3>1 DEF Relay
    <3>3. Beginnings'
      BY <1>1, <2>1, <3>1, <3>2, Peers DEF Sessions, Beginnings, Socks, Alive
    <3>4. RegisteredIsConnected'
      BY <1>1, <2>1, <3>1, <3>2 DEF Sessions, RegisteredIsConnected, Socks
    <3>5. SessionsAreMutual'
      BY <1>1, <2>1, <2>2, <3>1, <3>2, Peers DEF Relay, Sessions, Beginnings, SessionsAreMutual,
         Socks
    <3> QED BY <3>3, <3>4, <3>5 DEF Sessions
  <2> QED BY <1>3, <2>3, <2>4
<1> QED BY <1>2, <1>3, AuthorizedCases

LEMMA TimerSessions == ASSUME Relay, Sessions, Timers, NEW s \in Socks, TimerFires(s) PROVE Sessions'
<1>1. CASE ~(timer[s] = "authorization" /\ TimeoutReleases(s))
  <2>1. sock' = Closing({s}) /\ UNCHANGED <<phase, client, pending, peer, registered>>
    BY <1>1 DEF TimerFires
  <2> QED BY <2>1, ClosingIsQuiet, QuietSessions
<1>2. CASE timer[s] = "authorization" /\ TimeoutReleases(s)
  <2> DEFINE n == peer[s]
  <2>1. /\ s \in ClientSocks /\ phase[s] = "authorizing" /\ n # None /\ n \in NodeSocks /\ pending[n] = s
        /\ None \notin Socks /\ NodeSocks \intersect ClientSocks = {}
    BY <1>2, Peers, PiTunnelAssumption DEF Timers, TimeoutReleases, Socks, None
  <2>2. /\ pending' = [pending EXCEPT ![n] = None] /\ phase' = [phase EXCEPT ![n] = "ready"]
        /\ peer' = [peer EXCEPT ![s] = None] /\ UNCHANGED <<client, registered>> /\ sock' = Closing({s})
    BY <1>2 DEF TimerFires
  <2>3. \A r \in Socks : (Alive(r)' <=> Alive(r)) /\ (sock'[r] = "none" <=> sock[r] = "none")
    BY <2>2, ClosingSockets DEF Alive
  <2> HIDE DEF n
  <2>4. /\ pending'[n] = None /\ \A m \in NodeSocks : m # n => pending'[m] = pending[m]
        /\ phase'[n] = "ready" /\ \A r \in Socks : r # n => phase'[r] = phase[r]
        /\ peer'[s] = None /\ \A d \in ClientSocks : d # s => peer'[d] = peer[d]
    BY <2>1, <2>2 DEF Relay, Socks
  <2>5. phase[n] # "handshake" /\ sock[n] # "none" /\ (Alive(n) => client[n] = None)
    BY <2>1 DEF Sessions, Beginnings, SessionsAreMutual, Socks
  <2>6. Beginnings'
    BY <2>1, <2>3, <2>4, <2>5, Peers DEF Sessions, Beginnings, Socks
  <2>7. RegisteredIsConnected'
    BY <2>1, <2>2, <2>3, <2>4, <2>5, PiTunnelAssumption DEF Relay, Sessions, RegisteredIsConnected,
       Socks, None
  <2>8. SessionsAreMutual'
    <3>1. \A m \in NodeSocks : m # n => phase'[m] = phase[m] /\ client'[m] = client[m] /\ pending'[m] = pending[m]
      BY <2>1, <2>2, <2>4 DEF Socks
    <3>2. \A m \in NodeSocks : m # n /\ Alive(m) => s \notin {client[m], pending[m]}
      BY <2>1 DEF Sessions, SessionsAreMutual, n
    <3>3. \A m \in NodeSocks : client'[m] # None =>
            /\ phase'[m] # "handshake"
            /\ Alive(m) => phase'[m] = "paired" /\ pending'[m] = None /\ Alive(client'[m])
                           /\ phase'[client'[m]] = "paired" /\ peer'[client'[m]] = m
      <4>1. ASSUME NEW m \in NodeSocks, m # n, client[m] # None, Alive(m)
            PROVE  phase'[client[m]] = phase[client[m]] /\ peer'[client[m]] = peer[client[m]]
        BY <2>1, <2>4, <3>2, <4>1 DEF Relay, Socks
      <4> QED BY <2>2, <2>4, <2>5, <3>1, <4>1 DEF Sessions, SessionsAreMutual
    <3>4. \A m \in NodeSocks : pending'[m] # None =>
            /\ phase'[m] # "handshake"
            /\ Alive(m) => phase'[m] = "authorizing" /\ client'[m] = None /\ Alive(pending'[m])
                           /\ phase'[pending'[m]] = "authorizing" /\ peer'[pending'[m]] = m
      <4>1. ASSUME NEW m \in NodeSocks, m # n, pending[m] # None, Alive(m)
            PROVE  phase'[pending[m]] = phase[pending[m]] /\ peer'[pending[m]] = peer[pending[m]]
        BY <2>1, <2>4, <3>2, <4>1 DEF Relay, Socks
      <4> QED BY <2>4, <3>1, <4>1 DEF Sessions, SessionsAreMutual
    <3>5. \A m \in NodeSocks : /\ phase'[m] = "paired" => client'[m] # None
                               /\ phase'[m] = "authorizing" => pending'[m] # None
      BY <2>4, <3>1 DEF Sessions, SessionsAreMutual
    <3>6. \A d \in ClientSocks : phase'[d] = "paired" /\ Alive(d) /\ Alive(peer'[d]) => client'[peer'[d]] = d
      BY <2>1, <2>2, <2>4 DEF Sessions, SessionsAreMutual, Socks
    <3>7. \A m \in NodeSocks : client'[m] # None => client'[m] \in Socks
      BY <2>2 DEF Relay, Socks
    <3>8. \A m \in NodeSocks : pending'[m] # None => pending'[m] \in Socks
      BY <2>1, <2>4 DEF Relay, Socks
    <3>9. \A d \in ClientSocks : phase'[d] = "paired" => peer'[d] \in Socks /\ d \in Socks
      BY <2>1, <2>4, Peers DEF Sessions, Beginnings, Socks
    <3>10. \A m \in NodeSocks : m \in Socks
      BY DEF Socks
    <3> QED BY <2>3, <3>3, <3>4, <3>5, <3>6, <3>7, <3>8, <3>9, <3>10 DEF SessionsAreMutual
  <2> QED BY <2>6, <2>7, <2>8 DEF Sessions
<1> QED BY <1>1, <1>2

LEMMA NodeGoneSessions ==
  ASSUME Relay, Sessions, NEW n \in NodeSocks, CloseEvent(n) PROVE Sessions'
<1>1. /\ UNCHANGED <<client, pending, phase, peer>> /\ registered' = IF registered = n THEN None ELSE registered
      /\ sock' = [Closing({client[n], pending[n]} \ {None}) EXCEPT ![n] = "closed"] /\ Alive(n)
  BY DEF CloseEvent, NodeGone
<1>2. /\ ~(Alive(n)') /\ sock'[n] # "none" /\ None \notin Socks
      /\ \A r \in Socks : r # n => (Alive(r)' <=> Alive(r)) /\ (sock'[r] = "none" <=> sock[r] = "none")
  BY <1>1, ClosingSockets, PiTunnelAssumption DEF Alive, Socks, None
<1>3. Beginnings'
  BY <1>1, <1>2 DEF Sessions, Beginnings, Alive
<1>4. RegisteredIsConnected'
  BY <1>1, <1>2 DEF Relay, Sessions, RegisteredIsConnected, Socks
<1>5. SessionsAreMutual'
  BY <1>1, <1>2, Peers, PiTunnelAssumption DEF Relay, Sessions, Beginnings, SessionsAreMutual, Socks
<1> QED BY <1>3, <1>4, <1>5 DEF Sessions

LEMMA ClientGoneSessions ==
  ASSUME Relay, Sessions, NEW c \in ClientSocks, CloseEvent(c) PROVE Sessions'
<1>1. ClientGone(c) /\ peer' = peer /\ Alive(c) /\ c \in Socks /\ c \notin NodeSocks
      /\ None \notin Socks /\ NodeSocks \intersect ClientSocks = {}
  BY PiTunnelAssumption DEF CloseEvent, Socks, None
<1>2. /\ sock' = [sock EXCEPT ![c] = "closed"] /\ registered' = registered
      /\ FreesNone(c) \/ (peer[c] \in NodeSocks /\ Frees(peer[c], c))
  BY <1>1, ClientGoneCases
<1>3. /\ ~(Alive(c)') /\ sock'[c] # "none" /\ phase[c] # "none"
      /\ \A r \in Socks : r # c => (Alive(r)' <=> Alive(r)) /\ (sock'[r] = "none" <=> sock[r] = "none")
  BY <1>1, <1>2 DEF Relay, Alive, Phases
<1>4. ASSUME FreesNone(c) PROVE Sessions'
  <2>1. UNCHANGED <<client, pending, phase>>
    BY <1>4 DEF FreesNone
  <2>2. \A m \in NodeSocks : Alive(m) => c \notin {client[m], pending[m]}
    BY <1>1, <1>4 DEF FreesNone, Sessions, SessionsAreMutual, Socks
  <2>3. Beginnings'
    BY <1>1, <1>3, <2>1 DEF Sessions, Beginnings, Alive
  <2>4. RegisteredIsConnected'
    BY <1>1, <1>2, <1>3, <2>1 DEF Relay, Sessions, RegisteredIsConnected, Socks
  <2>5. SessionsAreMutual'
    BY <1>1, <1>3, <2>1, <2>2, Peers DEF Relay, Sessions, Beginnings, SessionsAreMutual, Socks
  <2> QED BY <2>3, <2>4, <2>5 DEF Sessions
<1>5. ASSUME NEW n \in NodeSocks, n = peer[c], Frees(n, c) PROVE Sessions'
  <2>1. /\ Alive(n) /\ n # c /\ phase[n] # "handshake" /\ n \in Socks
    BY <1>1, <1>5 DEF Frees, Sessions, SessionsAreMutual, Socks
  <2>2. client[n] \in {c, None} /\ pending[n] \in {c, None}
    BY <1>1, <1>5 DEF Frees, Sessions, SessionsAreMutual
  <2>3. /\ client'[n] = None /\ pending'[n] = None /\ phase'[n] = "ready"
        /\ \A m \in NodeSocks : m # n => client'[m] = client[m] /\ pending'[m] = pending[m]
        /\ \A r \in Socks : r # n => phase'[r] = phase[r]
    BY <1>5, <2>1, <2>2 DEF Frees, Relay
  <2>4. \A m \in NodeSocks : m # n /\ Alive(m) => c \notin {client[m], pending[m]}
    BY <1>1, <1>5 DEF Sessions, SessionsAreMutual
  <2>5. Beginnings'
    BY <1>1, <1>3, <2>1, <2>3, Peers DEF Sessions, Beginnings, Alive, Socks
  <2>6. RegisteredIsConnected'
    BY <1>1, <1>2, <1>3, <2>1, <2>3 DEF Relay, Sessions, RegisteredIsConnected, Socks
  <2>7. SessionsAreMutual'
    <3>1. \A m \in NodeSocks : /\ m \in Socks /\ (Alive(m)' <=> Alive(m))
                               /\ m # n => phase'[m] = phase[m]
      BY <1>1, <1>3, <2>3 DEF Socks
    <3>2. ASSUME NEW m \in NodeSocks, NEW d \in ClientSocks, m # n, Alive(m), d \in {client[m], pending[m]}
          PROVE  (Alive(d)' <=> Alive(d)) /\ phase'[d] = phase[d]
      BY <1>1, <1>3, <2>3, <2>4, <3>2 DEF Socks
    <3>3. \A d \in ClientSocks : phase'[d] = phase[d] /\ (peer[d] # None => peer[d] \in NodeSocks)
      BY <1>1, <2>3, Peers DEF Socks
    <3>4. \A d \in ClientSocks : Alive(d)' => Alive(d) /\ d # c
      BY <1>1, <1>3 DEF Socks
    <3>5. \A d \in ClientSocks : d # c => client[n] # d
      BY <2>2, <1>1 DEF Socks
    <3>6. ASSUME NEW d \in ClientSocks, phase[d]' = "paired", Alive(d)', Alive(peer[d])'
          PROVE  client'[peer[d]] = d
      <4>1. peer[d] \in NodeSocks /\ Alive(peer[d]) /\ Alive(d) /\ phase[d] = "paired"
        BY <1>1, <3>1, <3>3, <3>4, <3>6 DEF Sessions, Beginnings
      <4>2. client[peer[d]] = d
        BY <4>1 DEF Sessions, SessionsAreMutual
      <4>3. peer[d] # n
        BY <3>4, <3>5, <3>6, <4>2
      <4> QED BY <2>3, <4>1, <4>2, <4>3
    <3>7. \A m \in NodeSocks : client'[m] # None =>
            /\ phase'[m] # "handshake"
            /\ Alive(m)' => phase'[m] = "paired" /\ pending'[m] = None /\ Alive(client[m])'
                            /\ phase[client[m]]' = "paired" /\ peer[client[m]] = m
      BY <2>3, <3>1, <3>2 DEF Relay, Sessions, SessionsAreMutual
    <3>8. \A m \in NodeSocks : pending'[m] # None =>
            /\ phase'[m] # "handshake"
            /\ Alive(m)' => phase'[m] = "authorizing" /\ client'[m] = None /\ Alive(pending[m])'
                            /\ phase[pending[m]]' = "authorizing" /\ peer[pending[m]] = m
      BY <2>3, <3>1, <3>2 DEF Relay, Sessions, SessionsAreMutual
    <3>9. \A m \in NodeSocks : /\ phase'[m] = "paired" => client'[m] # None
                               /\ phase'[m] = "authorizing" => pending'[m] # None
      BY <2>3, <3>1 DEF Sessions, SessionsAreMutual
    <3> QED BY <1>1, <2>3, <3>6, <3>7, <3>8, <3>9 DEF SessionsAreMutual
  <2> QED BY <2>5, <2>6, <2>7 DEF Sessions
<1> QED BY <1>2, <1>4, <1>5

LEMMA SessionsNext == ASSUME Relay, Traffic, Timers, Sessions, [Next]_vars PROVE Sessions'
<1>1. ASSUME NEW s \in Socks, CloseEvent(s) PROVE Sessions'
  BY <1>1, NodeGoneSessions, ClientGoneSessions DEF Socks
<1> QED BY <1>1, StepKinds, QuietSessions, AcceptSessions, TimerSessions, LookupSessions,
   AuthorizedSessions,
        ClientAuthSessions

LEMMA TimersNext == ASSUME Relay, Traffic, Timers, [Next]_vars PROVE Timers'
<1>1. ASSUME UNCHANGED timer PROVE Timers'
  BY <1>1 DEF Timers
<1>2. ASSUME NEW s \in Socks, Accept(s) \/ CloseEvent(s) \/ TimerFires(s) PROVE Timers'
  BY <1>2 DEF Accept, CloseEvent, TimerFires, Timers, Relay, Socks
<1>3. ASSUME NEW n \in NodeSocks, LookupReturns(n) PROVE Timers'
  BY <1>3 DEF LookupReturns, Timers, Relay, Socks
<1>4. ASSUME NEW n \in NodeSocks, Authorized(n) PROVE Timers'
  <2>1. timer' = timer \/ \E c \in ClientSocks : timer' = [timer EXCEPT ![c] = "none"]
    BY <1>4, AuthorizedCases DEF Pairs, Refuses
  <2> QED BY <1>1, <2>1 DEF Timers, Relay, Socks
<1>5. ASSUME NEW c \in ClientSocks, ClientAuth(c) PROVE Timers'
  <2>1. timer' = timer \/ timer' = [timer EXCEPT ![c] = "authorization"]
    BY <1>5, ClientAuthCases DEF Asks
  <2> QED BY <1>1, <2>1, PiTunnelAssumption DEF Timers, Relay, Socks
<1>6. ASSUME NEW s \in Socks, BinaryFrame(s) \/ Drain(s) \/ RelayCloses(s) PROVE Timers'
  BY <1>1, <1>6 DEF BinaryFrame, Drain, RelayCloses
<1>7. ASSUME NEW n \in NodeSocks, NodeAuth(n) \/ TextForbidden(n) \/ StaleFrame(n) PROVE Timers'
  BY <1>1, <1>7 DEF NodeAuth, TextForbidden, StaleFrame, relayVars
<1>8. ASSUME NEW n \in NodeSocks, NodeReads(n) \/ NodeSends(n) \/ \E k \in 1 .. 2 : NodeAnswers(n, k) PROVE Timers'
  BY <1>1, <1>8 DEF NodeReads, NodeSends, NodeAnswers, relayVars
<1>9. ASSUME NEW c \in ClientSocks, ClientReads(c) \/ ClientSends(c) PROVE Timers'
  BY <1>1, <1>9 DEF ClientReads, ClientSends, relayVars
<1>10. ASSUME Activate \/ Revoke \/ StartPoll \/ EndPoll \/ UNCHANGED vars PROVE Timers'
  BY <1>1, <1>10 DEF Activate, Revoke, StartPoll, EndPoll, vars, relayVars
<1> QED BY <1>2, <1>3, <1>4, <1>5, <1>6, <1>7, <1>8, <1>9, <1>10 DEF Next, NodeStep

-----------------------------------------------------------------------------
(* The permissions.                                                        *)

(* A node's messages are taken from the head, and what it appends is a     *)
(* frame or an answer it gave.                                             *)
LEMMA GivenAppends ==
  ASSUME Traffic, AnswersAreGiven, NEW n \in NodeSocks, NEW m \in InMessage,
         m.t = "result" /\ m.allow => m.c \in allowed',
         in' = [in EXCEPT ![n] = Append(in[n], m)], allowed \subseteq allowed'
  PROVE  AnswersAreGiven'
<1>1. in[n] \in Seq(InMessage) /\ in \in [Socks -> Seq(InMessage)] /\ n \in Socks
  BY DEF Traffic, Socks
<1>2. /\ in'[n] = Append(in[n], m) /\ Len(in[n]) \in Nat /\ DOMAIN in[n] = 1 .. Len(in[n])
      /\ \A r \in Socks : r # n => in'[r] = in[r]
  BY <1>1, LenProperties
<1>3. /\ DOMAIN Append(in[n], m) = 1 .. Len(in[n]) + 1
      /\ \A i \in 1 .. Len(in[n]) : Append(in[n], m)[i] = in[n][i]
      /\ Append(in[n], m)[Len(in[n]) + 1] = m
  BY <1>1, AppendProperties, LenProperties
<1>4. ASSUME NEW i \in DOMAIN in'[n], in'[n][i].t = "result" /\ in'[n][i].allow PROVE in'[n][i].c \in allowed'
  <2>1. CASE i \in 1 .. Len(in[n])
    BY <1>2, <1>3, <1>4, <2>1 DEF AnswersAreGiven
  <2>2. CASE i = Len(in[n]) + 1
    BY <1>2, <1>3, <1>4, <2>2
  <2> QED BY <1>2, <1>3, <2>1, <2>2
<1>5. \A r \in NodeSocks : r # n => in'[r] = in[r]
  BY <1>2 DEF Socks
<1> QED BY <1>4, <1>5 DEF AnswersAreGiven

LEMMA GivenConsumes ==
  ASSUME Traffic, AnswersAreGiven, NEW s \in Socks, in[s] # <<>>, Consume(s), allowed' = allowed
  PROVE  AnswersAreGiven'
<1>1. in[s] \in Seq(InMessage) /\ in \in [Socks -> Seq(InMessage)]
  BY DEF Traffic
<1>2. /\ in'[s] = Tail(in[s]) /\ \A r \in Socks : r # s => in'[r] = in[r]
      /\ Len(in[s]) \in Nat /\ DOMAIN in[s] = 1 .. Len(in[s])
  BY <1>1, LenProperties DEF Consume
<1>3. /\ Len(Tail(in[s])) = Len(in[s]) - 1 /\ Tail(in[s]) \in Seq(InMessage)
      /\ \A i \in 1 .. Len(in[s]) - 1 : Tail(in[s])[i] = in[s][i + 1]
  BY <1>1, HeadTailProperties
<1>4. DOMAIN in'[s] = 1 .. Len(in[s]) - 1
  BY <1>2, <1>3, LenProperties
<1>5. \A i \in DOMAIN in'[s] : i + 1 \in DOMAIN in[s] /\ in'[s][i] = in[s][i + 1]
  BY <1>2, <1>3, <1>4
<1>6. ASSUME NEW n \in NodeSocks, NEW i \in DOMAIN in'[n], in'[n][i].t = "result", in'[n][i].allow
      PROVE  in'[n][i].c \in allowed
  <2>1. CASE n = s
    BY <1>5, <1>6, <2>1 DEF AnswersAreGiven
  <2>2. CASE n # s
    BY <1>2, <1>6, <2>2 DEF AnswersAreGiven, Socks
  <2> QED BY <2>1, <2>2
<1> QED BY <1>6 DEF AnswersAreGiven

LEMMA AnswersNext == ASSUME Relay, Traffic, AnswersAreGiven, [Next]_vars PROVE AnswersAreGiven'
<1>1. ASSUME UNCHANGED <<in, allowed>> PROVE AnswersAreGiven'
  BY <1>1 DEF AnswersAreGiven
<1>2. ASSUME NEW s \in Socks, in[s] # <<>>, Consume(s), UNCHANGED externalVars PROVE AnswersAreGiven'
  BY <1>2, GivenConsumes DEF externalVars
<1>3. ASSUME NEW s \in Socks, NEW q, \A i \in DOMAIN q : q[i].t # "result",
             in' = [in EXCEPT ![s] = q], allowed' = allowed
      PROVE  AnswersAreGiven'
  <2>1. in'[s] = q /\ \A r \in Socks : r # s => in'[r] = in[r]
    BY <1>3 DEF Traffic
  <2> QED BY <1>3, <2>1 DEF AnswersAreGiven, Socks
<1>4. ASSUME NEW s \in Socks, Accept(s) PROVE AnswersAreGiven'
  <2> DEFINE q == <<[t |-> "auth"]>>
  <2>1. in' = [in EXCEPT ![s] = q] /\ allowed' = allowed /\ \A i \in DOMAIN q : q[i].t # "result"
    BY <1>4 DEF Accept, externalVars
  <2> HIDE DEF q
  <2> QED BY <1>3, <2>1
<1>5. ASSUME NEW s \in Socks, CloseEvent(s) PROVE AnswersAreGiven'
  <2> DEFINE q == <<>>
  <2>1. in' = [in EXCEPT ![s] = q] /\ allowed' = allowed /\ \A i \in DOMAIN q : q[i].t # "result"
    BY <1>5 DEF CloseEvent, externalVars
  <2> HIDE DEF q
  <2> QED BY <1>3, <2>1
<1>6. ASSUME NEW s \in Socks, BinaryFrame(s) PROVE AnswersAreGiven'
  BY <1>2, <1>6 DEF BinaryFrame, Receives
<1>7. ASSUME NEW n \in NodeSocks, NodeAuth(n) \/ Authorized(n) \/ TextForbidden(n) \/ StaleFrame(n)
      PROVE  AnswersAreGiven'
  BY <1>2, <1>7 DEF NodeAuth, Authorized, TextForbidden, StaleFrame, Receives, Socks
<1>8. ASSUME NEW c \in ClientSocks, ClientAuth(c) PROVE AnswersAreGiven'
  BY <1>2, <1>8 DEF ClientAuth, Receives, Socks
<1>9. ASSUME NEW n \in NodeSocks, NodeSends(n) PROVE AnswersAreGiven'
  <2> DEFINE c == view[n]
             m == Frame(c, sent[c].node + 1)
  <2>1. c \in ClientSocks /\ sent[c].node + 1 \in Nat
    BY <1>9 DEF NodeSends, Traffic
  <2>2. m \in InMessage /\ m.t = "frame"
    BY <2>1, FrameTypes DEF Frame
  <2>3. in' = [in EXCEPT ![n] = Append(in[n], m)] /\ allowed' = allowed
    BY <1>9 DEF NodeSends
  <2> HIDE DEF m
  <2>4. allowed \subseteq allowed'
    BY <2>3
  <2> QED BY <2>2, <2>3, <2>4, GivenAppends
<1>10. ASSUME NEW n \in NodeSocks, NEW k \in 1 .. 2, NodeAnswers(n, k) PROVE AnswersAreGiven'
  <2> DEFINE c == asked[n][k]
  <2>1. c \in ClientSocks
    <3>1. asked[n] \in Seq(ClientSocks) /\ k \in 1 .. Len(asked[n])
      BY <1>10, LenProperties DEF NodeAnswers, Traffic
    <3> QED BY <3>1, ElementOfSeq
  <2>2. PICK allow \in BOOLEAN :
           /\ in' = [in EXCEPT ![n] = Append(in[n], [t |-> "result", c |-> c, allow |-> allow])]
           /\ allowed' = IF allow THEN allowed \union {c} ELSE allowed
    BY <1>10 DEF NodeAnswers
  <2> HIDE DEF c
  <2> DEFINE m == [t |-> "result", c |-> c, allow |-> allow]
  <2>3. m \in InMessage /\ m.allow = allow /\ m.c = c
    BY <2>1 DEF InMessage
  <2>4. in' = [in EXCEPT ![n] = Append(in[n], m)] /\ allowed \subseteq allowed'
    BY <2>2
  <2>5. m.t = "result" /\ m.allow => m.c \in allowed'
    BY <2>2, <2>3
  <2> HIDE DEF m
  <2> QED BY <2>3, <2>4, <2>5, GivenAppends
<1>11. ASSUME NEW c \in ClientSocks, ClientSends(c) PROVE AnswersAreGiven'
  BY <1>11, PiTunnelAssumption DEF ClientSends, AnswersAreGiven, Traffic, Socks
<1>12. ASSUME NEW s \in Socks, Drain(s) \/ RelayCloses(s) \/ TimerFires(s) PROVE AnswersAreGiven'
  BY <1>1, <1>12 DEF Drain, RelayCloses, TimerFires, externalVars
<1>13. ASSUME NEW n \in NodeSocks, LookupReturns(n) \/ NodeReads(n) PROVE AnswersAreGiven'
  BY <1>1, <1>13 DEF LookupReturns, NodeReads, externalVars
<1>14. ASSUME NEW c \in ClientSocks, ClientReads(c) PROVE AnswersAreGiven'
  BY <1>1, <1>14 DEF ClientReads
<1>15. ASSUME Activate \/ Revoke \/ StartPoll \/ EndPoll \/ UNCHANGED vars PROVE AnswersAreGiven'
  BY <1>1, <1>15 DEF Activate, Revoke, StartPoll, EndPoll, vars, externalVars
<1> QED BY <1>4, <1>5, <1>6, <1>7, <1>8, <1>9, <1>10, <1>11, <1>12, <1>13, <1>14, <1>15 DEF Next,
   NodeStep

(* Only the answer of a node that allowed a client pairs it.               *)
LEMMA PairedNext ==
  ASSUME Relay, Traffic, Timers, Sessions, AnswersAreGiven, PairedOnlyIfAllowed, [Next]_vars
  PROVE  PairedOnlyIfAllowed'
<1>0. NodeSocks \intersect ClientSocks = {} /\ None \notin Socks /\ phase \in [Socks -> Phases]
  BY PiTunnelAssumption DEF Relay, Socks, None
<1>1. ASSUME \A c \in ClientSocks : phase'[c] = "paired" => phase[c] = "paired", allowed \subseteq allowed'
      PROVE  PairedOnlyIfAllowed'
  BY <1>1 DEF PairedOnlyIfAllowed
<1>2. ASSUME UNCHANGED phase, allowed \subseteq allowed' PROVE PairedOnlyIfAllowed'
  BY <1>1, <1>2
<1>3. ASSUME NEW n \in NodeSocks, Authorized(n) PROVE PairedOnlyIfAllowed'
  <2>1. allowed' = allowed
    BY <1>3 DEF Authorized, externalVars
  <2>2. CASE phase' = phase
    BY <1>2, <2>1, <2>2
  <2>3. ASSUME NEW c \in ClientSocks, Refuses(n, c) PROVE PairedOnlyIfAllowed'
    BY <1>0, <1>1, <2>1, <2>3 DEF Refuses, Socks
  <2>4. ASSUME NEW c \in ClientSocks, Pairs(n, c), Head(in[n]).t = "result", Head(in[n]).c = c
        PROVE  PairedOnlyIfAllowed'
    <3>1. 1 \in DOMAIN in[n] /\ Head(in[n]) = in[n][1]
      <4>1. in[n] \in Seq(InMessage) /\ in[n] # <<>>
        BY <1>3 DEF Authorized, Receives, Traffic, Socks
      <4> QED BY <4>1, HeadTailProperties, LenProperties
    <3>2. c \in allowed
      BY <2>4, <3>1 DEF AnswersAreGiven, Pairs
    <3>3. \A d \in ClientSocks : d # c => phase'[d] = phase[d]
      BY <1>0, <2>4 DEF Pairs, Socks
    <3> QED BY <2>1, <3>2, <3>3 DEF PairedOnlyIfAllowed
  <2> QED BY <1>3, <2>2, <2>3, <2>4, AuthorizedCases
<1>4. ASSUME NEW n \in NodeSocks, LookupReturns(n) PROVE PairedOnlyIfAllowed'
  BY <1>0, <1>1, <1>4 DEF LookupReturns, externalVars, Socks
<1>5. ASSUME NEW c \in ClientSocks, ClientAuth(c) PROVE PairedOnlyIfAllowed'
  <2>1. allowed' = allowed
    BY <1>5 DEF ClientAuth, externalVars
  <2> QED BY <1>0, <1>1, <1>5, <2>1, ClientAuthCases DEF Asks, Socks
<1>6. ASSUME NEW s \in Socks, TimerFires(s) PROVE PairedOnlyIfAllowed'
  <2>1. allowed' = allowed /\ (phase' = phase \/ phase' = [phase EXCEPT ![peer[s]] = "ready"])
    BY <1>6 DEF TimerFires, externalVars
  <2> QED BY <1>0, <1>1, <2>1 DEF Socks
<1>7. ASSUME NEW s \in Socks, CloseEvent(s) PROVE PairedOnlyIfAllowed'
  <2>1. allowed' = allowed
    BY <1>7 DEF CloseEvent, externalVars
  <2>2. CASE s \in NodeSocks
    BY <1>2, <1>7, <2>1, <2>2 DEF CloseEvent, NodeGone
  <2>3. CASE s \in ClientSocks
    <3>1. ClientGone(s)
      BY <1>0, <1>7, <2>3 DEF CloseEvent
    <3>2. phase' = phase \/ phase' = [phase EXCEPT ![peer[s]] = "ready"]
      BY <2>3, <3>1, ClientGoneCases DEF Frees, FreesNone
    <3> QED BY <1>0, <1>1, <2>1, <3>2 DEF Socks
  <2> QED BY <2>2, <2>3 DEF Socks
<1>8. ASSUME NEW s \in Socks, Accept(s) \/ BinaryFrame(s) \/ Drain(s) \/ RelayCloses(s) PROVE PairedOnlyIfAllowed'
  BY <1>2, <1>8 DEF Accept, BinaryFrame, Drain, RelayCloses, externalVars
<1>9. ASSUME NEW n \in NodeSocks, NodeAuth(n) \/ TextForbidden(n) \/ StaleFrame(n) PROVE PairedOnlyIfAllowed'
  BY <1>2, <1>9 DEF NodeAuth, TextForbidden, StaleFrame, relayVars, externalVars
<1>10. ASSUME NEW n \in NodeSocks, NodeReads(n) \/ NodeSends(n) PROVE PairedOnlyIfAllowed'
  BY <1>2, <1>10 DEF NodeReads, NodeSends, relayVars
<1>11. ASSUME NEW n \in NodeSocks, NEW k \in 1 .. 2, NodeAnswers(n, k) PROVE PairedOnlyIfAllowed'
  BY <1>2, <1>11 DEF NodeAnswers, relayVars
<1>12. ASSUME NEW c \in ClientSocks, ClientReads(c) \/ ClientSends(c) PROVE PairedOnlyIfAllowed'
  BY <1>2, <1>12 DEF ClientReads, ClientSends, relayVars
<1>13. ASSUME Activate \/ Revoke \/ StartPoll \/ EndPoll \/ UNCHANGED vars PROVE PairedOnlyIfAllowed'
  BY <1>2, <1>13 DEF Activate, Revoke, StartPoll, EndPoll, vars, relayVars, externalVars
<1> QED BY <1>3, <1>4, <1>5, <1>6, <1>7, <1>8, <1>9, <1>10, <1>11, <1>12, <1>13 DEF Next, NodeStep

-----------------------------------------------------------------------------
(* The invariant, and what follows from it.                                *)

LEMMA InitInv == ASSUME Init PROVE IInv
<1> USE PiTunnelAssumption DEF Init, Socks, None
<1>1. Relay
  BY DEF Relay, Phases, NoPoll
<1>2. Traffic
  <2>1. \A S : <<>> \in Seq(S)
    BY EmptySeq
  <2> QED BY <2>1 DEF Traffic
<1>3. Queues
  <2>1. Len(<<>>) = 0
    OBVIOUS
  <2> QED BY <2>1 DEF Queues
<1>4. Timers /\ Beginnings /\ PairedOnlyIfAllowed
  BY DEF Timers, Beginnings, PairedOnlyIfAllowed
<1>5. AnswersAreGiven
  BY DEF AnswersAreGiven
<1>6. RegisteredIsConnected /\ SessionsAreMutual
  BY DEF RegisteredIsConnected, SessionsAreMutual, Alive
<1> QED BY <1>1, <1>2, <1>3, <1>4, <1>5, <1>6 DEF IInv

(* The handlers of the relay preserve all of it: types, limits, sessions   *)
(* that are mutual, and the permissions they rest on.                      *)
THEOREM Invariance == Spec => []IInv
<1>1. Init => IInv
  BY InitInv
<1>2. IInv /\ [Next]_vars => IInv'
  <2> SUFFICES ASSUME IInv, [Next]_vars PROVE IInv'
    OBVIOUS
  <2>1. Relay' /\ Traffic' /\ Timers'
    BY RelayNext, TrafficNext, TimersNext DEF IInv
  <2>2. Queues'
    BY QueuesNext DEF IInv
  <2>3. Sessions'
    BY SessionsNext DEF IInv, Sessions
  <2>4. AnswersAreGiven' /\ PairedOnlyIfAllowed'
    BY AnswersNext, PairedNext DEF IInv, Sessions
  <2> QED BY <2>1, <2>2, <2>3, <2>4 DEF IInv, Sessions
<1> QED BY <1>1, <1>2, PTL DEF Spec

(* Phases, timers and references have their types, and a queue stays       *)
(* within maxQueuedFrames and the absolute bound.                          *)
THEOREM TypeCorrect == Spec => []TypeOK
<1>1. IInv => TypeOK
  BY DEF IInv, Relay, Phases, Queues, TypeOK
<1> QED BY <1>1, Invariance, PTL

(* The entry of the device in the map of nodes is an authenticated         *)
(* connection that is there, and there is no other one.                    *)
THEOREM Registered == Spec => []RegisteredIsConnected
<1>1. IInv => RegisteredIsConnected
  BY DEF IInv
<1> QED BY <1>1, Invariance, PTL

(* A client is only ever paired after its node has allowed this client,    *)
(* however late the answers are.                                           *)
THEOREM Permissions == Spec => []PairedOnlyIfAllowed
<1>1. IInv => PairedOnlyIfAllowed
  BY DEF IInv
<1> QED BY <1>1, Invariance, PTL

(* A node serves one session: two clients that are connected and paired    *)
(* with it are the same client, and it names that client.                  *)
OneSession ==
  \A c, d \in ClientSocks : \A n \in NodeSocks :
    /\ Alive(c) /\ Alive(d) /\ Alive(n)
    /\ phase[c] = "paired" /\ phase[d] = "paired" /\ peer[c] = n /\ peer[d] = n
    => c = d /\ client[n] = c

(* The relay never lets two clients share the connection of a node.        *)
THEOREM SessionsAreExclusive == Spec => []OneSession
<1>1. IInv => OneSession
  BY DEF IInv, SessionsAreMutual, OneSession
<1> QED BY <1>1, Invariance, PTL

-----------------------------------------------------------------------------
(* Every frame reaches its client.  What is on its way between the two     *)
(* ends of a session is a stream: the frames that wait for the relay, are  *)
(* queued by it, or are on their way to the reader carry consecutive       *)
(* numbers.  The steps of the relay are classified by what they do to the  *)
(* streams, and each kind preserves the invariant Wires.                   *)

(* The stream of one client in one direction: a sequence carries, of its   *)
(* frames, those numbered from a + 1 to b, in their order; all of them if  *)
(* whole.                                                                  *)
IsFrame(m, c) == m.t = "frame" /\ m.c = c

Segment(S, c, a, b, whole) ==
  /\ a <= b
  /\ \A j \in DOMAIN S : IsFrame(S[j], c) => a < S[j].i /\ S[j].i <= b
  /\ \A j, k \in DOMAIN S : j < k /\ IsFrame(S[j], c) /\ IsFrame(S[k], c) => S[j].i < S[k].i
  /\ whole => \A i \in a + 1 .. b : \E j \in DOMAIN S : IsFrame(S[j], c) /\ S[j].i = i

(* What the end has received of it: numbers up to a.                       *)
Received(G, c, a, whole) ==
  /\ \A j \in DOMAIN G : G[j].c = c /\ G[j].i <= a
  /\ \A j \in DOMAIN G : j > 1 => G[j - 1].i < G[j].i
  /\ whole => Len(G) = a /\ \A j \in DOMAIN G : G[j].i = j

(* Of s frames sent, those in I wait for the relay, those in Q are queued  *)
(* by it, those in O are on their way to the end that received G.          *)
Stream(c, G, O, Q, I, s, w1, w2) ==
  \E a, b, d \in 0 .. s : /\ Received(G, c, a, w1) /\ Segment(O, c, a, b, w1)
                          /\ Segment(Q, c, b, d, w2) /\ Segment(I, c, d, s, w2)

(* What the two ends and the relay send to each other.                     *)
Messages == [t : {"auth", "ready", "clientDisconnected"}] \union FrameOf(ClientSocks)
            \union [t : {"result"}, c : ClientSocks, allow : BOOLEAN]
            \union [t : {"clientConnected", "authorizeClient"}, c : ClientSocks]

(* Only frames have a number.                                              *)
LEMMA Numbers ==
  /\ InMessage \subseteq Messages /\ OutMessage \subseteq Messages /\ FrameOf(ClientSocks) \subseteq Messages
  /\ \A m \in Messages : m.t = "frame" => m.i \in Nat /\ m.c \in ClientSocks /\ m = Frame(m.c, m.i)
  /\ \A m \in FrameOf(ClientSocks) : m.t = "frame"
BY DEF Messages, InMessage, OutMessage, FrameOf, Frame

(* What is left of a sequence once its head is taken.                      *)
LEMMA Tails ==
  ASSUME NEW M, NEW S \in Seq(M), S # <<>>
  PROVE  /\ Len(S) \in Nat \ {0} /\ DOMAIN S = 1 .. Len(S)
         /\ 1 \in DOMAIN S /\ Head(S) = S[1] /\ S[1] \in M
         /\ Tail(S) \in Seq(M) /\ Len(Tail(S)) = Len(S) - 1
         /\ DOMAIN Tail(S) = 1 .. Len(S) - 1
         /\ \A j \in DOMAIN Tail(S) : j + 1 \in DOMAIN S /\ Tail(S)[j] = S[j + 1]
         /\ \A j \in DOMAIN S : j > 1 => j - 1 \in DOMAIN Tail(S) /\ Tail(S)[j - 1] = S[j]
<1>1. Len(S) \in Nat /\ DOMAIN S = 1 .. Len(S) /\ Len(S) # 0
  BY LenProperties, EmptySeq
<1>2. /\ Head(S) \in M /\ Tail(S) \in Seq(M) /\ Len(Tail(S)) = Len(S) - 1
      /\ \A i \in 1 .. Len(Tail(S)) : Tail(S)[i] = S[i + 1]
  BY HeadTailProperties
<1>3. DOMAIN Tail(S) = 1 .. Len(S) - 1
  BY <1>2, LenProperties
<1>4. Head(S) = S[1] /\ 1 \in DOMAIN S
  BY <1>1
<1> QED BY <1>1, <1>2, <1>3, <1>4, ElementOfSeq

(* What a sequence is with an element appended.                            *)
LEMMA Appends ==
  ASSUME NEW M, NEW S \in Seq(M), NEW m \in M
  PROVE  /\ Append(S, m) \in Seq(M) /\ Len(S) \in Nat /\ DOMAIN S = 1 .. Len(S)
         /\ DOMAIN Append(S, m) = 1 .. Len(S) + 1 /\ Len(Append(S, m)) = Len(S) + 1
         /\ \A j \in DOMAIN S : j \in DOMAIN Append(S, m) /\ Append(S, m)[j] = S[j]
         /\ Append(S, m)[Len(S) + 1] = m
BY AppendProperties, LenProperties

(* The next frame extends a segment, anything else leaves it as it is.     *)
LEMMA SegmentAppend ==
  ASSUME NEW S \in Seq(Messages), NEW c, NEW a \in Nat, NEW b \in Nat, NEW w \in BOOLEAN,
         Segment(S, c, a, b, w), NEW m \in Messages
  PROVE  /\ ~IsFrame(m, c) => Segment(Append(S, m), c, a, b, w)
         /\ IsFrame(m, c) /\ m.i > b /\ (w => m.i = b + 1) => Segment(Append(S, m), c, a, m.i, w)
<1> DEFINE T == Append(S, m)
           n == Len(S)
<1>1. /\ n \in Nat /\ DOMAIN S = 1 .. n /\ DOMAIN T = 1 .. n + 1
      /\ \A j \in 1 .. n : T[j] = S[j]
      /\ T[n + 1] = m
  BY Appends
<1>2. \A j \in 1 .. n : S[j] \in Messages
  BY <1>1, ElementOfSeq
<1>3. \A j \in 1 .. n : IsFrame(S[j], c) => S[j].i \in Nat
  BY <1>2, Numbers DEF IsFrame
<1> HIDE DEF T, n
<1>4. ASSUME ~IsFrame(m, c) PROVE Segment(T, c, a, b, w)
  <2>1. \A j \in DOMAIN T : IsFrame(T[j], c) => j \in DOMAIN S /\ T[j] = S[j]
    BY <1>1, <1>4
  <2>2. \A j \in DOMAIN S : j \in DOMAIN T /\ T[j] = S[j]
    BY <1>1
  <2> QED BY <2>1, <2>2 DEF Segment
<1>5. ASSUME IsFrame(m, c), m.i > b, w => m.i = b + 1 PROVE Segment(T, c, a, m.i, w)
  <2>1. m.i \in Nat
    BY <1>5, Numbers DEF IsFrame
  <2>2. \A j \in DOMAIN T : IsFrame(T[j], c) => a < T[j].i /\ T[j].i <= m.i
    BY <1>1, <1>3, <1>5, <2>1 DEF Segment
  <2>3. \A j, k \in DOMAIN T : j < k /\ IsFrame(T[j], c) /\ IsFrame(T[k], c) => T[j].i < T[k].i
    BY <1>1, <1>3, <1>5, <2>1 DEF Segment
  <2>4. ASSUME w, NEW i \in a + 1 .. m.i PROVE \E j \in DOMAIN T : IsFrame(T[j], c) /\ T[j].i = i
    <3>1. CASE i = m.i
      BY <1>1, <1>5, <3>1
    <3>2. CASE i # m.i
      <4>1. i \in a + 1 .. b
        BY <1>5, <2>1, <2>4, <3>2
      <4>2. PICK j \in DOMAIN S : IsFrame(S[j], c) /\ S[j].i = i
        BY <2>4, <4>1 DEF Segment
      <4> QED BY <1>1, <4>2
    <3> QED BY <3>1, <3>2
  <2> QED BY <1>5, <2>1, <2>2, <2>3, <2>4 DEF Segment
<1> QED BY <1>4, <1>5 DEF T

(* A segment without its head begins after the frame that was its head.    *)
LEMMA SegmentTail ==
  ASSUME NEW S \in Seq(Messages), S # <<>>, NEW c, NEW a \in Nat, NEW b \in Nat, NEW w \in BOOLEAN,
         Segment(S, c, a, b, w)
  PROVE  /\ ~IsFrame(Head(S), c) => Segment(Tail(S), c, a, b, w)
         /\ IsFrame(Head(S), c) => /\ Head(S).i \in Nat /\ Head(S).i > a /\ Head(S).i <= b
                                   /\ w => Head(S).i = a + 1
                                   /\ Segment(Tail(S), c, Head(S).i, b, w)
<1> DEFINE T == Tail(S)
           n == Len(S)
<1>1. /\ n \in Nat \ {0} /\ DOMAIN S = 1 .. n /\ Head(S) = S[1] /\ DOMAIN T = 1 .. n - 1
      /\ \A j \in 1 .. n - 1 : T[j] = S[j + 1]
      /\ \A j \in 1 .. n : j > 1 => j - 1 \in 1 .. n - 1 /\ T[j - 1] = S[j]
  BY Tails
<1>2. \A j \in 1 .. n : S[j] \in Messages
  BY <1>1, ElementOfSeq
<1>3. \A j \in 1 .. n : IsFrame(S[j], c) => S[j].i \in Nat
  BY <1>2, Numbers DEF IsFrame
<1> HIDE DEF T, n
<1>4. /\ \A j \in DOMAIN T : IsFrame(T[j], c) => a < T[j].i /\ T[j].i <= b
      /\ \A j, k \in DOMAIN T : j < k /\ IsFrame(T[j], c) /\ IsFrame(T[k], c) => T[j].i < T[k].i
  <2>1. \A j \in DOMAIN T : j + 1 \in DOMAIN S /\ T[j] = S[j + 1]
    BY <1>1
  <2>2. \A j, k \in DOMAIN T : j < k => j + 1 < k + 1
    BY <1>1
  <2> QED BY <2>1, <2>2 DEF Segment
<1>5. ASSUME ~IsFrame(Head(S), c) PROVE Segment(T, c, a, b, w)
  <2>1. ASSUME w, NEW i \in a + 1 .. b PROVE \E j \in DOMAIN T : IsFrame(T[j], c) /\ T[j].i = i
    <3>1. PICK j \in DOMAIN S : IsFrame(S[j], c) /\ S[j].i = i
      BY <2>1 DEF Segment
    <3>2. j > 1
      BY <1>1, <1>5, <3>1
    <3> QED BY <1>1, <3>1, <3>2
  <2> QED BY <1>4, <2>1 DEF Segment
<1>6. ASSUME IsFrame(Head(S), c)
      PROVE  /\ Head(S).i \in Nat /\ Head(S).i > a /\ Head(S).i <= b
             /\ w => Head(S).i = a + 1
             /\ Segment(T, c, Head(S).i, b, w)
  <2> DEFINE h == Head(S).i
  <2>1. h \in Nat /\ h > a /\ h <= b
    BY <1>1, <1>3, <1>6 DEF Segment
  <2>2. \A j \in 1 .. n : j > 1 /\ IsFrame(S[j], c) => h < S[j].i
    <3>1. 1 \in DOMAIN S /\ IsFrame(S[1], c) /\ h = S[1].i
      BY <1>1, <1>6
    <3>2. \A k \in DOMAIN S : 1 < k /\ IsFrame(S[k], c) => S[1].i < S[k].i
      BY <3>1 DEF Segment
    <3> QED BY <1>1, <3>1, <3>2
  <2>3. ASSUME w PROVE h = a + 1
    <3>1. PICK j \in DOMAIN S : IsFrame(S[j], c) /\ S[j].i = a + 1
      BY <2>1, <2>3 DEF Segment
    <3> QED BY <1>1, <2>1, <2>2, <3>1
  <2>4. \A j \in DOMAIN T : IsFrame(T[j], c) => h < T[j].i /\ T[j].i <= b
    BY <1>1, <1>4, <2>2
  <2>5. ASSUME w, NEW i \in h + 1 .. b PROVE \E j \in DOMAIN T : IsFrame(T[j], c) /\ T[j].i = i
    <3>1. PICK j \in DOMAIN S : IsFrame(S[j], c) /\ S[j].i = i
      BY <2>1, <2>5 DEF Segment
    <3>2. j > 1
      BY <1>1, <2>1, <2>5, <3>1
    <3> QED BY <1>1, <3>1, <3>2
  <2> HIDE DEF h
  <2>6. Segment(T, c, h, b, w)
    BY <1>4, <2>1, <2>4, <2>5 DEF Segment
  <2> QED BY <2>1, <2>3, <2>6 DEF h
<1> QED BY <1>5, <1>6 DEF T

(* A stream may always be known less exactly.                              *)
LEMMA SegmentWeaken ==
  ASSUME NEW S, NEW c, NEW a, NEW b, NEW w \in BOOLEAN, NEW x \in BOOLEAN, x => w, Segment(S, c, a, b, w)
  PROVE  Segment(S, c, a, b, x)
BY DEF Segment

(* An empty sequence carries no frame.                                     *)
LEMMA SegmentEmpty ==
  ASSUME NEW c, NEW a \in Nat, NEW b \in Nat, a <= b
  PROVE  /\ Segment(<<>>, c, a, b, FALSE)
         /\ \A w \in BOOLEAN : Segment(<<>>, c, a, a, w)
         /\ \A w \in BOOLEAN : Segment(<<>>, c, a, b, w) /\ w => a = b
<1>1. DOMAIN <<>> = {}
  OBVIOUS
<1>2. a < b => a + 1 \in a + 1 .. b
  OBVIOUS
<1>3. a + 1 .. a = {}
  OBVIOUS
<1> QED BY <1>1, <1>2, <1>3 DEF Segment

(* Without a frame of c, a sequence says nothing of its stream.            *)
LEMMA SegmentNone ==
  ASSUME NEW S, NEW c, NEW a \in Nat, NEW w, \A j \in DOMAIN S : ~IsFrame(S[j], c)
  PROVE  Segment(S, c, a, a, w)
<1>1. a + 1 .. a = {}
  OBVIOUS
<1> QED BY <1>1 DEF Segment

(* What is not a frame of c does not matter.                               *)
LEMMA SegmentOther ==
  ASSUME NEW S, NEW c, NEW a \in Nat, NEW b \in Nat, a <= b, \A j \in DOMAIN S : ~IsFrame(S[j], c)
  PROVE  Segment(S, c, a, b, FALSE) /\ \A w \in BOOLEAN : Segment(S, c, a, a, w)
<1>1. a + 1 .. a = {}
  OBVIOUS
<1> QED BY <1>1 DEF Segment

(* Two segments that meet are one.                                         *)
LEMMA SegmentConcat ==
  ASSUME NEW S \in Seq(Messages), NEW T \in Seq(Messages), NEW c,
         NEW a \in Nat, NEW b \in Nat, NEW e \in Nat, NEW w \in BOOLEAN,
         Segment(S, c, a, b, w), Segment(T, c, b, e, w)
  PROVE  Segment(S \o T, c, a, e, w)
<1> DEFINE R == S \o T
           n == Len(S)
           m == Len(T)
<1>1. /\ n \in Nat /\ m \in Nat /\ DOMAIN S = 1 .. n /\ DOMAIN T = 1 .. m
      /\ \A j \in 1 .. n : S[j] \in Messages
      /\ \A j \in 1 .. m : T[j] \in Messages
  BY LenProperties, ElementOfSeq
<1>2. /\ DOMAIN R = 1 .. n + m
      /\ \A j \in 1 .. n + m : R[j] = IF j <= n THEN S[j] ELSE T[j - n]
  BY ConcatProperties, LenProperties
<1>3. /\ \A j \in 1 .. n : IsFrame(S[j], c) => S[j].i \in Nat
      /\ \A j \in 1 .. m : IsFrame(T[j], c) => T[j].i \in Nat
  BY <1>1, Numbers DEF IsFrame
<1> HIDE DEF R, n, m
<1>4. \A j \in DOMAIN R : \/ j \in 1 .. n /\ R[j] = S[j]
                          \/ j > n /\ j - n \in 1 .. m /\ R[j] = T[j - n]
  BY <1>1, <1>2
<1>5. /\ \A j \in 1 .. n : j \in DOMAIN R /\ R[j] = S[j]
      /\ \A j \in 1 .. m : j + n \in DOMAIN R /\ R[j + n] = T[j]
  BY <1>1, <1>2
<1>6. a <= b /\ b <= e
  BY DEF Segment
<1>7. \A j \in DOMAIN R : IsFrame(R[j], c) => a < R[j].i /\ R[j].i <= e
  BY <1>1, <1>3, <1>4, <1>6 DEF Segment
<1>8. ASSUME NEW j \in DOMAIN R, NEW k \in DOMAIN R, j < k, IsFrame(R[j], c), IsFrame(R[k], c)
      PROVE  R[j].i < R[k].i
  <2>1. j \in Nat /\ k \in Nat
    BY <1>1, <1>2
  <2>2. CASE k \in 1 .. n /\ R[k] = S[k]
    <3>1. j \in 1 .. n /\ R[j] = S[j]
      BY <1>1, <1>4, <1>8, <2>1, <2>2
    <3> QED BY <1>1, <1>8, <2>2, <3>1 DEF Segment
  <2>3. CASE k > n /\ k - n \in 1 .. m /\ R[k] = T[k - n]
    <3>1. CASE j \in 1 .. n /\ R[j] = S[j]
      <4>1. S[j].i <= b /\ b < T[k - n].i
        BY <1>1, <1>8, <2>3, <3>1 DEF Segment
      <4>2. S[j].i \in Nat /\ T[k - n].i \in Nat
        BY <1>3, <1>8, <2>3, <3>1
      <4> QED BY <2>3, <3>1, <4>1, <4>2
    <3>2. CASE j > n /\ j - n \in 1 .. m /\ R[j] = T[j - n]
      <4>1. j - n < k - n
        BY <1>1, <1>8, <2>1
      <4> QED BY <1>1, <1>8, <2>3, <3>2, <4>1 DEF Segment
    <3> QED BY <1>4, <3>1, <3>2
  <2> QED BY <1>4, <2>2, <2>3
<1>9. ASSUME w, NEW i \in a + 1 .. e PROVE \E j \in DOMAIN R : IsFrame(R[j], c) /\ R[j].i = i
  <2>1. i \in a + 1 .. b \/ i \in b + 1 .. e
    BY <1>6
  <2>2. CASE i \in a + 1 .. b
    <3>1. PICK j \in DOMAIN S : IsFrame(S[j], c) /\ S[j].i = i
      BY <1>9, <2>2 DEF Segment
    <3> QED BY <1>1, <1>5, <3>1
  <2>3. CASE i \in b + 1 .. e
    <3>1. PICK j \in DOMAIN T : IsFrame(T[j], c) /\ T[j].i = i
      BY <1>9, <2>3 DEF Segment
    <3> QED BY <1>1, <1>5, <3>1
  <2> QED BY <2>1, <2>2, <2>3
<1>10. a <= e
  BY <1>6
<1> QED BY <1>7, <1>8, <1>9, <1>10 DEF Segment, R

(* A queue of frames of c only, cut after its k-th.                        *)
LEMMA SegmentSplit ==
  ASSUME NEW Q \in Seq(Messages), NEW c, NEW b \in Nat, NEW d \in Nat, NEW w \in BOOLEAN,
         Segment(Q, c, b, d, w), NEW k \in 1 .. Len(Q), \A j \in DOMAIN Q : IsFrame(Q[j], c)
  PROVE  /\ Q[k].i \in Nat /\ b <= Q[k].i /\ Q[k].i <= d
         /\ SubSeq(Q, 1, k) \in Seq(Messages) /\ SubSeq(Q, k + 1, Len(Q)) \in Seq(Messages)
         /\ Segment(SubSeq(Q, 1, k), c, b, Q[k].i, w)
         /\ Segment(SubSeq(Q, k + 1, Len(Q)), c, Q[k].i, d, w)
<1> DEFINE n == Len(Q)
           A == SubSeq(Q, 1, k)
           Z == SubSeq(Q, k + 1, n)
           x == Q[k].i
<1>1. /\ n \in Nat /\ DOMAIN Q = 1 .. n /\ k \in Nat /\ k >= 1 /\ k <= n
      /\ \A j \in 1 .. n : Q[j] \in Messages
  BY LenProperties, ElementOfSeq
<1>2. /\ A \in Seq(Messages) /\ DOMAIN A = 1 .. k
      /\ \A j \in 1 .. k : A[j] = Q[j]
  <2>1. \A j \in 1 .. k : Q[j] \in Messages
    BY <1>1
  <2>2. /\ A \in Seq(Messages) /\ Len(A) = k
        /\ \A j \in 1 .. k - 1 + 1 : A[j] = Q[1 + j - 1]
    BY <1>1, <2>1, SubSeqProperties
  <2> HIDE DEF A
  <2> QED BY <1>1, <2>2, LenProperties
<1>3. /\ Z \in Seq(Messages) /\ DOMAIN Z = 1 .. n - k
      /\ \A j \in 1 .. n - k : Z[j] = Q[k + j]
  <2>1. \A j \in k + 1 .. n : Q[j] \in Messages
    BY <1>1
  <2>2. /\ Z \in Seq(Messages) /\ Len(Z) = IF k + 1 <= n THEN n - (k + 1) + 1 ELSE 0
        /\ \A j \in 1 .. n - (k + 1) + 1 : Z[j] = Q[(k + 1) + j - 1]
    BY <1>1, <2>1, SubSeqProperties
  <2> HIDE DEF Z
  <2>3. Len(Z) = n - k
    <3>1. Len(Z) = IF k + 1 <= n THEN n - (k + 1) + 1 ELSE 0
      BY <2>2
    <3> HIDE DEF n
    <3> QED BY <1>1, <3>1
  <2>4. \A j \in 1 .. n - k : j \in 1 .. n - (k + 1) + 1 /\ (k + 1) + j - 1 = k + j
    BY <1>1
  <2> QED BY <2>2, <2>3, <2>4, LenProperties
<1>4. \A j \in 1 .. n : IsFrame(Q[j], c) /\ Q[j].i \in Nat /\ b < Q[j].i /\ Q[j].i <= d
  BY <1>1, Numbers DEF IsFrame, Segment
<1>5. \A j, l \in 1 .. n : j < l => Q[j].i < Q[l].i
  BY <1>1 DEF Segment
<1> HIDE DEF n, A, Z, x
<1>6. x \in Nat /\ b <= x /\ x <= d
  BY <1>1, <1>4 DEF x
<1>7. \A j \in 1 .. n : (j <= k => Q[j].i <= x) /\ (j > k => x < Q[j].i)
  BY <1>1, <1>4, <1>5 DEF x
<1>8. Segment(A, c, b, x, w)
  <2>1. \A j \in DOMAIN A : b < A[j].i /\ A[j].i <= x
    BY <1>1, <1>2, <1>4, <1>7
  <2>2. \A j, l \in DOMAIN A : j < l => A[j].i < A[l].i
    BY <1>1, <1>2, <1>5
  <2>3. ASSUME w, NEW i \in b + 1 .. x PROVE \E j \in DOMAIN A : IsFrame(A[j], c) /\ A[j].i = i
    <3>1. PICK j \in 1 .. n : Q[j].i = i
      BY <1>1, <1>6, <2>3 DEF Segment
    <3>2. i <= x /\ i \in Nat
      BY <1>6, <2>3
    <3>3. ~(j > k)
      BY <1>6, <1>7, <3>1, <3>2
    <3>4. j \in 1 .. k
      BY <1>1, <3>3
    <3> QED BY <1>2, <1>4, <3>1, <3>4
  <2> QED BY <1>6, <2>1, <2>2, <2>3 DEF Segment
<1>9. Segment(Z, c, x, d, w)
  <2>0. \A j \in DOMAIN Z : k + j \in 1 .. n /\ k + j > k /\ Z[j] = Q[k + j] /\ j \in Int
    BY <1>1, <1>3
  <2>1. \A j \in DOMAIN Z : x < Z[j].i /\ Z[j].i <= d
    BY <1>4, <1>7, <2>0
  <2>2. \A j, l \in DOMAIN Z : j < l => Z[j].i < Z[l].i
    <3>1. \A j, l \in DOMAIN Z : j < l => k + j < k + l
      BY <1>1, <2>0
    <3> QED BY <1>5, <2>0, <3>1
  <2>3. ASSUME w, NEW i \in x + 1 .. d PROVE \E j \in DOMAIN Z : IsFrame(Z[j], c) /\ Z[j].i = i
    <3>1. PICK j \in 1 .. n : Q[j].i = i
      BY <1>1, <1>6, <2>3 DEF Segment
    <3>2. j > k
      BY <1>1, <1>4, <1>6, <1>7, <2>3, <3>1
    <3>3. j - k \in DOMAIN Z /\ k + (j - k) = j
      BY <1>1, <1>3, <3>2
    <3> QED BY <1>3, <1>4, <3>1, <3>3
  <2> QED BY <1>6, <2>1, <2>2, <2>3 DEF Segment
<1> QED BY <1>2, <1>3, <1>6, <1>8, <1>9 DEF n, A, Z, x

(* The reader has received one frame more.                                 *)
LEMMA ReceivedAppend ==
  ASSUME NEW G \in Seq(FrameOf(ClientSocks \union {None})), NEW c \in ClientSocks, NEW a \in Nat,
         NEW w \in BOOLEAN, Received(G, c, a, w),
         NEW m \in FrameOf(ClientSocks), m.c = c, m.i > a, w => m.i = a + 1
  PROVE  Received(Append(G, m), c, m.i, w)
<1> DEFINE H == Append(G, m)
           n == Len(G)
<1>1. m \in FrameOf(ClientSocks \union {None}) /\ m.i \in Nat
  BY DEF FrameOf
<1>2. /\ n \in Nat /\ DOMAIN G = 1 .. n /\ DOMAIN H = 1 .. n + 1 /\ Len(H) = n + 1
      /\ \A j \in 1 .. n : H[j] = G[j]
      /\ H[n + 1] = m
  BY <1>1, Appends
<1>3. \A j \in 1 .. n : G[j].i \in Nat
  <2>1. \A j \in 1 .. n : G[j] \in FrameOf(ClientSocks \union {None})
    BY <1>2, ElementOfSeq
  <2> QED BY <2>1 DEF FrameOf
<1> HIDE DEF H, n
<1>4. \A j \in 1 .. n : G[j].c = c /\ G[j].i <= a /\ (j > 1 => G[j - 1].i < G[j].i)
  BY <1>2 DEF Received
<1>5. \A j \in 1 .. n + 1 : H[j].c = c /\ H[j].i <= m.i
  BY <1>1, <1>2, <1>3, <1>4
<1>6. \A j \in 1 .. n + 1 : j > 1 => H[j - 1].i < H[j].i
  <2> SUFFICES ASSUME NEW j \in 1 .. n + 1, j > 1 PROVE H[j - 1].i < H[j].i
    OBVIOUS
  <2>1. j - 1 \in 1 .. n /\ H[j - 1] = G[j - 1]
    BY <1>2
  <2> QED BY <1>1, <1>2, <1>3, <1>4, <2>1
<1>7. ASSUME w PROVE Len(H) = m.i /\ \A j \in 1 .. n + 1 : H[j].i = j
  <2>1. n = a /\ \A j \in 1 .. n : G[j].i = j
    BY <1>2, <1>7 DEF Received, n
  <2> QED BY <1>2, <1>7, <2>1
<1> QED BY <1>2, <1>5, <1>6, <1>7 DEF Received, H

-----------------------------------------------------------------------------
(* How a stream moves on.  One that is known to be whole may be known less *)
(* exactly.                                                                *)
LEMMA StreamWeaken ==
  ASSUME NEW c, NEW G, NEW O, NEW Q, NEW I, NEW s \in Nat,
         NEW w1 \in BOOLEAN, NEW w2 \in BOOLEAN, NEW x1 \in BOOLEAN, NEW x2 \in BOOLEAN,
         x1 => w1, x2 => w2, Stream(c, G, O, Q, I, s, w1, w2)
  PROVE  Stream(c, G, O, Q, I, s, x1, x2)
<1>1. PICK a, b, d \in 0 .. s : /\ Received(G, c, a, w1) /\ Segment(O, c, a, b, w1)
                                /\ Segment(Q, c, b, d, w2) /\ Segment(I, c, d, s, w2)
  BY DEF Stream
<1>2. Received(G, c, a, x1)
  BY <1>1 DEF Received
<1>3. Segment(O, c, a, b, x1) /\ Segment(Q, c, b, d, x2) /\ Segment(I, c, d, s, x2)
  BY <1>1, SegmentWeaken
<1> QED BY <1>2, <1>3 DEF Stream

(* An end sends the next frame, or something else.                         *)
LEMMA StreamSends ==
  ASSUME NEW c \in ClientSocks, NEW G, NEW O, NEW Q, NEW I \in Seq(Messages), NEW s \in Nat,
         NEW w1 \in BOOLEAN, NEW w2 \in BOOLEAN, Stream(c, G, O, Q, I, s, w1, w2)
  PROVE  /\ Stream(c, G, O, Q, Append(I, Frame(c, s + 1)), s + 1, w1, w2)
         /\ \A m \in Messages : ~IsFrame(m, c) => Stream(c, G, O, Q, Append(I, m), s, w1, w2)
<1>1. PICK a, b, d \in 0 .. s : /\ Received(G, c, a, w1) /\ Segment(O, c, a, b, w1)
                                /\ Segment(Q, c, b, d, w2) /\ Segment(I, c, d, s, w2)
  BY DEF Stream
<1>2. a \in Nat /\ b \in Nat /\ d \in Nat /\ 0 .. s \subseteq 0 .. s + 1
  OBVIOUS
<1> DEFINE f == Frame(c, s + 1)
<1>3. f \in Messages /\ IsFrame(f, c) /\ f.i = s + 1
  BY DEF Messages, FrameOf, Frame, IsFrame
<1> HIDE DEF f
<1>4. Segment(Append(I, f), c, d, s + 1, w2)
  <2>1. f.i > s
    BY <1>3
  <2> QED BY <1>1, <1>2, <1>3, <2>1, SegmentAppend
<1>5. Stream(c, G, O, Q, Append(I, f), s + 1, w1, w2)
  BY <1>1, <1>2, <1>4 DEF Stream
<1>6. ASSUME NEW m \in Messages, ~IsFrame(m, c) PROVE Stream(c, G, O, Q, Append(I, m), s, w1, w2)
  <2>1. Segment(Append(I, m), c, d, s, w2)
    BY <1>1, <1>2, <1>6, SegmentAppend
  <2> QED BY <1>1, <2>1 DEF Stream
<1> QED BY <1>5, <1>6 DEF f

(* An end reads what comes first.                                          *)
LEMMA StreamReads ==
  ASSUME NEW c \in ClientSocks, NEW G \in Seq(FrameOf(ClientSocks \union {None})),
         NEW O \in Seq(Messages), O # <<>>, NEW Q, NEW I, NEW s \in Nat,
         NEW w1 \in BOOLEAN, NEW w2 \in BOOLEAN, Stream(c, G, O, Q, I, s, w1, w2)
  PROVE  /\ ~IsFrame(Head(O), c) => Stream(c, G, Tail(O), Q, I, s, w1, w2)
         /\ IsFrame(Head(O), c) => Stream(c, Append(G, Head(O)), Tail(O), Q, I, s, w1, w2)
<1>1. PICK a, b, d \in 0 .. s : /\ Received(G, c, a, w1) /\ Segment(O, c, a, b, w1)
                                /\ Segment(Q, c, b, d, w2) /\ Segment(I, c, d, s, w2)
  BY DEF Stream
<1>2. a \in Nat /\ b \in Nat
  OBVIOUS
<1>3. ASSUME ~IsFrame(Head(O), c) PROVE Segment(Tail(O), c, a, b, w1)
  BY <1>1, <1>2, <1>3, SegmentTail
<1>4. ASSUME IsFrame(Head(O), c)
      PROVE  Stream(c, Append(G, Head(O)), Tail(O), Q, I, s, w1, w2)
  <2> DEFINE m == Head(O)
  <2>1. /\ m.i \in Nat /\ m.i > a /\ m.i <= b /\ (w1 => m.i = a + 1)
        /\ Segment(Tail(O), c, m.i, b, w1)
    BY <1>1, <1>2, <1>4, SegmentTail
  <2>2. m \in FrameOf(ClientSocks) /\ m.c = c
    <3>1. m \in Messages
      BY HeadTailProperties
    <3> QED BY <1>4, <3>1 DEF Messages, FrameOf, IsFrame
  <2> HIDE DEF m
  <2>3. Received(Append(G, m), c, m.i, w1)
    BY <1>1, <1>2, <2>1, <2>2, ReceivedAppend
  <2>4. m.i \in 0 .. s
    BY <2>1
  <2> QED BY <1>1, <2>1, <2>3, <2>4 DEF Stream, m
<1> QED BY <1>1, <1>3, <1>4 DEF Stream

(* The relay passes over what is not of this stream, or loses a frame.     *)
LEMMA StreamSkips ==
  ASSUME NEW c, NEW G, NEW O, NEW Q, NEW I \in Seq(Messages), I # <<>>, NEW s \in Nat,
         NEW w1 \in BOOLEAN, NEW w2 \in BOOLEAN, Stream(c, G, O, Q, I, s, w1, w2),
         ~IsFrame(Head(I), c) \/ ~w2
  PROVE  Stream(c, G, O, Q, Tail(I), s, w1, w2)
<1>1. PICK a, b, d \in 0 .. s : /\ Received(G, c, a, w1) /\ Segment(O, c, a, b, w1)
                                /\ Segment(Q, c, b, d, w2) /\ Segment(I, c, d, s, w2)
  BY DEF Stream
<1>2. d \in Nat
  OBVIOUS
<1>3. CASE ~IsFrame(Head(I), c)
  BY <1>1, <1>2, <1>3, SegmentTail DEF Stream
<1>4. CASE IsFrame(Head(I), c) /\ ~w2
  <2>1. /\ Head(I).i \in Nat /\ Head(I).i > d /\ Head(I).i <= s
        /\ Segment(Tail(I), c, Head(I).i, s, w2)
    BY <1>1, <1>2, <1>4, SegmentTail
  <2>2. Segment(Tail(I), c, d, s, w2)
    <3> DEFINE T == Tail(I)
               h == Head(I).i
    <3>1. \A j \in DOMAIN T : IsFrame(T[j], c) => T[j].i \in Nat
      <4>1. T \in Seq(Messages)
        BY HeadTailProperties
      <4>2. \A j \in DOMAIN T : T[j] \in Messages
        BY <4>1, ElementOfSeq, LenProperties
      <4> QED BY <4>2, Numbers DEF IsFrame
    <3>2. Segment(T, c, h, s, w2) /\ h \in Nat /\ d < h /\ h <= s
      BY <2>1
    <3> HIDE DEF T, h
    <3>3. \A j \in DOMAIN T : IsFrame(T[j], c) => d < T[j].i
      BY <1>2, <3>1, <3>2 DEF Segment
    <3> QED BY <1>2, <1>4, <3>2, <3>3 DEF Segment, T
  <2> QED BY <1>1, <2>2 DEF Stream
<1> QED BY <1>3, <1>4

(* It forwards a frame, or queues it.                                      *)
LEMMA StreamForwards ==
  ASSUME NEW c, NEW G, NEW O \in Seq(Messages), NEW Q \in Seq(Messages), NEW I \in Seq(Messages), I # <<>>,
         NEW s \in Nat, NEW w1 \in BOOLEAN, NEW w2 \in BOOLEAN, Stream(c, G, O, Q, I, s, w1, w2),
         IsFrame(Head(I), c)
  PROVE  /\ Stream(c, G, O, Append(Q, Head(I)), Tail(I), s, w1, w2)
         /\ Q = <<>> /\ (w1 => w2) => Stream(c, G, Append(O, Head(I)), Q, Tail(I), s, w1, w2)
<1>1. PICK a, b, d \in 0 .. s : /\ Received(G, c, a, w1) /\ Segment(O, c, a, b, w1)
                                /\ Segment(Q, c, b, d, w2) /\ Segment(I, c, d, s, w2)
  BY DEF Stream
<1>2. a \in Nat /\ b \in Nat /\ d \in Nat
  OBVIOUS
<1> DEFINE m == Head(I)
<1>3. /\ m.i \in Nat /\ m.i > d /\ m.i <= s /\ (w2 => m.i = d + 1)
      /\ Segment(Tail(I), c, m.i, s, w2)
  BY <1>1, <1>2, SegmentTail
<1>4. m \in Messages /\ IsFrame(m, c)
  BY HeadTailProperties
<1> HIDE DEF m
<1>5. m.i \in 0 .. s /\ b <= d
  BY <1>1, <1>3 DEF Segment
<1>6. Stream(c, G, O, Append(Q, m), Tail(I), s, w1, w2)
  <2>1. Segment(Append(Q, m), c, b, m.i, w2)
    BY <1>1, <1>2, <1>3, <1>4, SegmentAppend
  <2> QED BY <1>1, <1>3, <1>5, <2>1 DEF Stream
<1>7. ASSUME Q = <<>>, w1 => w2 PROVE Stream(c, G, Append(O, m), Q, Tail(I), s, w1, w2)
  <2>1. w2 => b = d
    BY <1>1, <1>2, <1>5, <1>7, SegmentEmpty
  <2>2. m.i > b /\ (w1 => m.i = b + 1)
    BY <1>2, <1>3, <1>5, <1>7, <2>1
  <2>3. Segment(Append(O, m), c, a, m.i, w1)
    BY <1>1, <1>2, <1>4, <2>2, SegmentAppend
  <2>4. Segment(Q, c, m.i, m.i, w2)
    <3>1. \A j \in DOMAIN Q : ~IsFrame(Q[j], c)
      BY <1>7
    <3> QED BY <1>3, <3>1, SegmentNone
  <2> QED BY <1>1, <1>3, <1>5, <2>3, <2>4 DEF Stream
<1> QED BY <1>6, <1>7 DEF m

(* It sends on the first k frames that it queued.                          *)
LEMMA StreamDrains ==
  ASSUME NEW c, NEW G, NEW O \in Seq(Messages), NEW Q \in Seq(Messages), NEW I,
         NEW s \in Nat, NEW w1 \in BOOLEAN, NEW w2 \in BOOLEAN, Stream(c, G, O, Q, I, s, w1, w2),
         w1 => w2, NEW k \in 1 .. Len(Q), \A j \in DOMAIN Q : IsFrame(Q[j], c)
  PROVE  Stream(c, G, O \o SubSeq(Q, 1, k), SubSeq(Q, k + 1, Len(Q)), I, s, w1, w2)
<1>1. PICK a, b, d \in 0 .. s : /\ Received(G, c, a, w1) /\ Segment(O, c, a, b, w1)
                                /\ Segment(Q, c, b, d, w2) /\ Segment(I, c, d, s, w2)
  BY DEF Stream
<1>2. a \in Nat /\ b \in Nat /\ d \in Nat
  OBVIOUS
<1> DEFINE x == Q[k].i
           A == SubSeq(Q, 1, k)
           Z == SubSeq(Q, k + 1, Len(Q))
<1>3. /\ x \in Nat /\ b <= x /\ x <= d /\ A \in Seq(Messages)
      /\ Segment(A, c, b, x, w2) /\ Segment(Z, c, x, d, w2)
  <2>1. Segment(Q, c, b, d, w2)
    BY <1>1
  <2> HIDE DEF x, A, Z
  <2> QED BY <1>2, <2>1, SegmentSplit DEF x, A, Z
<1> HIDE DEF x, A, Z
<1>4. Segment(A, c, b, x, w1)
  BY <1>3, SegmentWeaken
<1>5. Segment(O \o A, c, a, x, w1)
  BY <1>1, <1>2, <1>3, <1>4, SegmentConcat
<1>6. x \in 0 .. s
  BY <1>3
<1> QED BY <1>1, <1>3, <1>5, <1>6 DEF Stream, A, Z

(* What is queued or waits is lost.                                        *)
LEMMA StreamLoses ==
  ASSUME NEW c, NEW G, NEW O, NEW Q, NEW I, NEW s \in Nat,
         NEW w1 \in BOOLEAN, NEW w2 \in BOOLEAN, Stream(c, G, O, Q, I, s, w1, w2), ~w2,
         NEW P, P = Q \/ \A j \in DOMAIN P : ~IsFrame(P[j], c),
         NEW J, J = I \/ \A j \in DOMAIN J : ~IsFrame(J[j], c)
  PROVE  Stream(c, G, O, P, J, s, w1, w2)
<1>1. PICK a, b, d \in 0 .. s : /\ Received(G, c, a, w1) /\ Segment(O, c, a, b, w1)
                                /\ Segment(Q, c, b, d, w2) /\ Segment(I, c, d, s, w2)
  BY DEF Stream
<1>2. b \in Nat /\ d \in Nat /\ b <= d /\ d <= s
  BY <1>1 DEF Segment
<1>3. Segment(P, c, b, d, FALSE)
  BY <1>1, <1>2, SegmentOther, SegmentWeaken
<1>4. Segment(J, c, d, s, FALSE)
  BY <1>1, <1>2, SegmentOther, SegmentWeaken
<1> QED BY <1>1, <1>3, <1>4 DEF Stream

(* Frames of other clients and control messages go the same way.           *)
LEMMA StreamOthers ==
  ASSUME NEW c, NEW G, NEW O \in Seq(Messages), NEW Q, NEW I, NEW s \in Nat,
         NEW w1 \in BOOLEAN, NEW w2 \in BOOLEAN, Stream(c, G, O, Q, I, s, w1, w2)
  PROVE  /\ \A m \in Messages : ~IsFrame(m, c) => Stream(c, G, Append(O, m), Q, I, s, w1, w2)
         /\ \A T \in Seq(Messages) : (\A j \in DOMAIN T : ~IsFrame(T[j], c))
                                       => Stream(c, G, O \o T, Q, I, s, w1, w2)
<1>1. PICK a, b, d \in 0 .. s : /\ Received(G, c, a, w1) /\ Segment(O, c, a, b, w1)
                                /\ Segment(Q, c, b, d, w2) /\ Segment(I, c, d, s, w2)
  BY DEF Stream
<1>2. a \in Nat /\ b \in Nat
  OBVIOUS
<1>3. \A m \in Messages : ~IsFrame(m, c) => Segment(Append(O, m), c, a, b, w1)
  BY <1>1, <1>2, SegmentAppend
<1>4. ASSUME NEW T \in Seq(Messages), \A j \in DOMAIN T : ~IsFrame(T[j], c)
      PROVE  Segment(O \o T, c, a, b, w1)
  <2>1. Segment(T, c, b, b, w1)
    BY <1>2, <1>4, SegmentNone
  <2> QED BY <1>1, <1>2, <2>1, SegmentConcat
<1> QED BY <1>1, <1>3, <1>4 DEF Stream

(* A session begins without a frame anywhere.                              *)
LEMMA StreamBegins ==
  ASSUME NEW c, NEW O, NEW Q, NEW I, NEW w1 \in BOOLEAN, NEW w2 \in BOOLEAN,
         \A j \in DOMAIN O : ~IsFrame(O[j], c), \A j \in DOMAIN Q : ~IsFrame(Q[j], c),
         \A j \in DOMAIN I : ~IsFrame(I[j], c)
  PROVE  Stream(c, <<>>, O, Q, I, 0, w1, w2)
<1>1. Received(<<>>, c, 0, w1)
  BY DEF Received
<1>2. Segment(O, c, 0, 0, w1) /\ Segment(Q, c, 0, 0, w2) /\ Segment(I, c, 0, 0, w2)
  BY SegmentNone
<1>3. 0 \in 0 .. 0
  OBVIOUS
<1> QED BY <1>1, <1>2, <1>3 DEF Stream

(* The end received what FramesReachTheirClient asks for.                  *)
LEMMA StreamIsInOrder ==
  ASSUME NEW c, NEW G, NEW O, NEW Q, NEW I, NEW s \in Nat,
         NEW w1 \in BOOLEAN, NEW w2 \in BOOLEAN, Stream(c, G, O, Q, I, s, w1, w2)
  PROVE  InOrder(G, c) /\ (w1 => NoGap(G))
BY DEF Stream, Received, InOrder, NoGap

-----------------------------------------------------------------------------
(* What is on its way, and what the two ends know.                         *)

AtNode(c, n) == c \in ClientSocks /\ phase[c] = "paired" /\ peer[c] = n

(* A client that was never paired has neither sent nor received.           *)
Fresh ==
  \A c \in ClientSocks : phase[c] # "paired" =>
    /\ sent[c].node = 0 /\ sent[c].client = 0
    /\ got[c].node = <<>> /\ got[c].client = <<>>

(* A node only hears of clients that were paired with it, and everyone     *)
(* only sends the frames of his own session.                               *)
NodeKnows ==
  \A n \in NodeSocks :
    /\ view[n] # None => AtNode(view[n], n)
    /\ \A m \in ToSet(out[n]) : m.t \in {"clientConnected", "frame"} => AtNode(m.c, n)
    /\ \A m \in ToSet(in[n]) : m.t = "frame" => AtNode(m.c, n)

ClientKnows ==
  \A c \in ClientSocks :
    /\ \A m \in ToSet(in[c]) : m.t = "frame" => m.c = c /\ phase[c] = "paired"
    /\ \A m \in ToSet(out[c]) : m.t = "frame" => m.c = c /\ phase[c] = "paired"

(* The relay queues only frames of the session of the socket they came     *)
(* from.                                                                   *)
Queued ==
  /\ \A s \in Socks : queue[s] # <<>> => Alive(s)
  /\ \A n \in NodeSocks : \A m \in ToSet(queue[n]) : m.c = client[n]
  /\ \A c \in ClientSocks : \A m \in ToSet(queue[c]) : m.c = c

(* What a node believes after it has read the first j messages of o.       *)
Tells(m) == m.t \in {"clientConnected", "clientDisconnected"}

Says(m) == IF m.t = "clientConnected" THEN m.c ELSE None

Believes(o, w, j, v) ==
  \/ w = v /\ \A k \in 1 .. j : ~Tells(o[k])
  \/ \E k \in 1 .. j : Tells(o[k]) /\ Says(o[k]) = v /\ \A l \in k + 1 .. j : ~Tells(o[l])

Partner(n) == IF phase[n] = "paired" THEN client[n] ELSE None

(* It reads a frame believing in its client, and learns of every change of *)
(* its session.                                                            *)
Beliefs ==
  \A n \in NodeSocks :
    /\ \A j \in DOMAIN out[n] : out[n][j].t = "frame" => Believes(out[n], view[n], j, out[n][j].c)
    /\ sock[n] \in {"none", "open"} => Believes(out[n], view[n], Len(out[n]), Partner(n))

(* In a session a node has not sent, and will not be told, anything of     *)
(* another.                                                                *)
PairedHears ==
  \A n \in NodeSocks : phase[n] = "paired" =>
    /\ \A m \in ToSet(in[n]) : m.t = "frame" => m.c = client[n]
    /\ view[n] \in {None, client[n]}
    /\ \A m \in ToSet(out[n]) : Tells(m) => Says(m) = client[n]

(* A node that reads a request of the pending authorization has been told  *)
(* that it has no client, and sends no frame until it is paired again.     *)
Silent(n) == view[n] = None /\ \A m \in ToSet(out[n]) : ~Tells(m)

Asking(m, c) == m.t = "authorizeClient" /\ m.c = c

Answering(m, c) == m.t = "result" /\ m.c = c

AskedLast(o, c) == \A j, k \in DOMAIN o : Asking(o[j], c) /\ j < k => ~Tells(o[k])

AnsweredLast(i, c) == \A j, k \in DOMAIN i : Answering(i[j], c) /\ j < k => i[k].t # "frame"

PendingHears ==
  \A n \in NodeSocks : sock[n] = "open" /\ pending[n] # None =>
    /\ AskedLast(out[n], pending[n]) /\ AnsweredLast(in[n], pending[n])
    /\ pending[n] \in ToSet(asked[n]) => Silent(n)
    /\ \A m \in ToSet(in[n]) : Answering(m, pending[n]) => Silent(n)

(* Nobody has been asked about a client that has not authenticated.        *)
Unasked ==
  \A c \in ClientSocks, n \in NodeSocks : phase[c] = "handshake" =>
    /\ \A m \in ToSet(out[n]) : ~Asking(m, c)
    /\ c \notin ToSet(asked[n])
    /\ \A m \in ToSet(in[n]) : ~Answering(m, c)

(* The streams of a paired client, to its node and from it.                *)
ToNode(c) ==
  Stream(c, got[c].node, out[peer[c]], queue[c], in[c], sent[c].client,
         sock[c] = "open", sock[c] = "open" /\ sock[peer[c]] = "open")

ToClient(c) ==
  Stream(c, got[c].client, out[c], queue[peer[c]], in[peer[c]], sent[c].node,
         sock[c] = "open", sock[c] = "open")

Streams == \A c \in ClientSocks : phase[c] = "paired" => ToNode(c) /\ ToClient(c)

(* The invariant: a session loses its frames only when one of its ends goes. *)
Wires ==
  /\ Fresh /\ NodeKnows /\ ClientKnows /\ Queued
  /\ Beliefs /\ PairedHears /\ PendingHears /\ Unasked /\ Streams

-----------------------------------------------------------------------------
(* The steps, by what they do to the wires.                                *)

Ready == [t |-> "ready"]

(* A message is consumed at s that carries no frame of a session ...       *)
Consumes(s) ==
  /\ Alive(s) /\ in[s] # <<>> /\ in'[s] = Tail(in[s])
  /\ Head(in[s]).t = "frame" => s \in NodeSocks /\ phase[s] # "paired"

(* ... or what s sent is lost with it, when it is gone.                    *)
Loses(s) == sock'[s] = "closed" /\ \A c \in ClientSocks : AtNode(c, s) => sock'[c] # "open"

(* Sockets close or become ready, requests end, messages are consumed.     *)
Calm ==
  /\ UNCHANGED <<view, asked, sent, got, client>>
  /\ \A s \in Socks : /\ sock'[s] = "open" => sock[s] = "open"
                      /\ sock'[s] = "none" => sock[s] = "none"
                      /\ Alive(s) => Alive(s)' \/ queue'[s] = <<>>
                      /\ in'[s] = in[s] \/ Consumes(s) \/ (in'[s] = <<>> /\ Loses(s))
                      /\ queue'[s] = queue[s] \/ (queue'[s] = <<>> /\ Loses(s))
  /\ \A c \in ClientSocks : /\ phase'[c] = phase[c] /\ out'[c] = out[c]
                            /\ phase[c] = "paired" => peer'[c] = peer[c]
  /\ \A n \in NodeSocks : /\ \/ phase'[n] = phase[n]
                             \/ phase'[n] = "ready" /\ (sock'[n] \in {"none", "open"} => phase[n] # "paired")
                          /\ pending'[n] \in {pending[n], None}
                          /\ out'[n] \in {out[n], Append(out[n], Ready)}

(* The answer of a node to the request of a client pairs them.             *)
Pairing(n, c) ==
  /\ phase[n] = "authorizing" /\ phase[c] = "authorizing" /\ pending[n] = c /\ peer[c] = n
  /\ sock[n] = "open" /\ sock[c] = "open" /\ UNCHANGED <<sock, externalVars>>
  /\ in[n] # <<>> /\ Answering(Head(in[n]), c)
  /\ phase' = [phase EXCEPT ![n] = "paired", ![c] = "paired"]
  /\ client' = [client EXCEPT ![n] = c] /\ peer' = peer
  /\ pending' = [pending EXCEPT ![n] = None]
  /\ in' = [in EXCEPT ![n] = Tail(in[n])]
  /\ queue' = [queue EXCEPT ![n] = <<>>, ![c] = <<>>]
  /\ out' = [out EXCEPT ![n] = Append(out[n], [t |-> "clientConnected", c |-> c]),
                        ![c] = Append(out[c], Ready)]

(* A client asks a node that may be closing.                               *)
Requests(n, c) ==
  /\ phase[n] = "ready" /\ client[n] = None /\ pending[n] = None /\ phase[c] = "handshake"
  /\ UNCHANGED <<sock, client, queue, externalVars>>
  /\ phase' = [phase EXCEPT ![c] = "authorizing", ![n] = "authorizing"]
  /\ peer' = [peer EXCEPT ![c] = n] /\ pending' = [pending EXCEPT ![n] = c]
  /\ in[c] # <<>> /\ Head(in[c]).t = "auth" /\ in' = [in EXCEPT ![c] = Tail(in[c])]
  /\ out' = [out EXCEPT ![n] = IF sock[n] = "open"
                               THEN Append(out[n], [t |-> "authorizeClient", c |-> c]) ELSE out[n]]

(* A client leaves its session.                                            *)
Leaves(n, c) ==
  /\ AtNode(c, n) /\ client[n] = c /\ phase[n] = "paired" /\ pending[n] = None
  /\ sock' = [sock EXCEPT ![c] = "closed"] /\ UNCHANGED <<peer, pending, externalVars>>
  /\ phase' = [phase EXCEPT ![n] = "ready"] /\ client' = [client EXCEPT ![n] = None]
  /\ in' = [in EXCEPT ![c] = <<>>] /\ queue' = [queue EXCEPT ![c] = <<>>, ![n] = <<>>]
  /\ out' = [out EXCEPT ![n] = IF sock[n] = "open"
                               THEN Append(out[n], [t |-> "clientDisconnected"]) ELSE out[n]]

(* s and d are the ends of c's session.                                    *)
Between(s, d, c) ==
  /\ phase[c] = "paired" /\ Alive(s)
  /\ \/ s = c /\ d = peer[c]
     \/ s = peer[c] /\ d = c /\ client[s] = c /\ Alive(c) /\ phase[s] = "paired"

(* A frame of the session that s sent goes on to d ...                     *)
Forwarding(s, d, c) ==
  /\ in[s] # <<>> /\ IsFrame(Head(in[s]), c) /\ in' = [in EXCEPT ![s] = Tail(in[s])]
  /\ UNCHANGED <<phase, client, peer, pending, externalVars>>
  /\ \/ sock' = Closing({c}) /\ UNCHANGED <<queue, out>>
     \/ queue' = [queue EXCEPT ![s] = Append(queue[s], Head(in[s]))] /\ UNCHANGED <<out, sock>>
     \/ /\ queue[s] = <<>> /\ sock[d] = "open" /\ UNCHANGED <<queue, sock>>
        /\ out' = [out EXCEPT ![d] = Append(out[d], Head(in[s]))]

(* ... or what was queued for d is sent on.                                *)
Draining(s, d, c) ==
  /\ UNCHANGED <<sock, phase, client, peer, pending, in, externalVars>>
  /\ \/ sock[d] # "open" /\ queue' = [queue EXCEPT ![s] = <<>>] /\ out' = out
     \/ \E k \in 1 .. Len(queue[s]) :
          /\ sock[d] = "open" /\ queue' = [queue EXCEPT ![s] = SubSeq(queue[s], k + 1, Len(queue[s]))]
          /\ out' = [out EXCEPT ![d] = out[d] \o SubSeq(queue[s], 1, k)]

(* The invariants of the relay that the wires rest on.                     *)
Sound == Relay /\ Traffic /\ Timers /\ Sessions

(* Nodes and clients are different sockets.                                *)
LEMMA Names ==
  /\ NodeSocks \intersect ClientSocks = {} /\ None \notin Socks
  /\ NodeSocks \subseteq Socks /\ ClientSocks \subseteq Socks
BY PiTunnelAssumption DEF Socks, None

(* What is on its way at a socket.                                         *)
LEMMA InOf ==
  ASSUME Traffic, NEW s \in Socks
  PROVE  in[s] \in Seq(Messages) /\ out[s] \in Seq(Messages) /\ queue[s] \in Seq(Messages)
<1>1. in[s] \in Seq(InMessage) /\ out[s] \in Seq(OutMessage) /\ queue[s] \in Seq(FrameOf(ClientSocks))
  BY DEF Traffic
<1>2. /\ Seq(InMessage) \subseteq Seq(Messages) /\ Seq(OutMessage) \subseteq Seq(Messages)
      /\ Seq(FrameOf(ClientSocks)) \subseteq Seq(Messages)
  BY Numbers, SeqMonotonic
<1> QED BY <1>1, <1>2

(* The client of a session, seen from its node.                            *)
LEMMA NodeSession ==
  ASSUME Sound, NEW n \in NodeSocks, phase[n] = "paired", Alive(n)
  PROVE  /\ client[n] \in ClientSocks /\ AtNode(client[n], n) /\ Alive(client[n]) /\ pending[n] = None
BY Names DEF Sound, Relay, Sessions, SessionsAreMutual, AtNode, Socks

(* The node of a session, seen from its client.                            *)
LEMMA ClientSession ==
  ASSUME Sound, NEW c \in ClientSocks, phase[c] = "paired"
  PROVE  /\ peer[c] \in NodeSocks
         /\ Alive(c) /\ Alive(peer[c]) => client[peer[c]] = c /\ phase[peer[c]] = "paired"
<1>1. peer[c] # None /\ peer[c] \in NodeSocks
  BY Peers DEF Sound, Sessions, Beginnings
<1> QED BY <1>1, Names DEF Sound, Sessions, SessionsAreMutual, Socks

(* A step that only closes sockets.                                        *)
LEMMA ClosesCalmly ==
  ASSUME Sound, NEW S, sock' \in {sock, Closing(S)},
         UNCHANGED <<phase, client, pending, peer, queue, out, view, asked, sent, got>>,
         \A s \in Socks : in'[s] = in[s] \/ Consumes(s)
  PROVE  Calm
<1>1. \A s \in Socks : /\ sock'[s] = "open" => sock[s] = "open"
                       /\ sock'[s] = "none" => sock[s] = "none"
                       /\ Alive(s) => Alive(s)'
  BY ClosingSockets DEF Sound, Alive
<1> QED BY <1>1, Names DEF Calm, Socks

(* A node's answer pairs its client, or changes nothing of a session.      *)
LEMMA AuthorizedKinds ==
  ASSUME Sound, NEW n \in NodeSocks, Authorized(n)
  PROVE  Calm \/ \E c \in ClientSocks : Pairing(n, c)
<1>1. /\ Alive(n) /\ in[n] # <<>> /\ Head(in[n]).t = "result" /\ phase[n] \in {"ready", "authorizing"}
      /\ in' = [in EXCEPT ![n] = Tail(in[n])] /\ UNCHANGED externalVars /\ n \in Socks
  BY DEF Authorized, Receives, Consume, Socks
<1>2. \A s \in Socks : in'[s] = in[s] \/ Consumes(s)
  BY <1>1 DEF Sound, Traffic, Consumes
<1>3. CASE UNCHANGED <<sock, phase, client, pending, peer, queue, out>>
  BY <1>1, <1>2, <1>3, ClosesCalmly DEF externalVars
<1>4. CASE phase[n] = "authorizing" /\ Answers(n, Head(in[n])) /\ pending' = [pending EXCEPT ![n] = None]
  <2> DEFINE c == pending[n]
  <2>1. c \in ClientSocks /\ Head(in[n]).c = c /\ c \in Socks /\ c # n
    BY <1>1, <1>4, Names DEF Answers, Sound, Relay, Sessions, SessionsAreMutual
  <2>2. /\ phase[c] = "authorizing" /\ peer[c] = n /\ Alive(c) /\ client[n] = None
    BY <1>1, <1>4, <2>1, Names DEF Sound, Sessions, SessionsAreMutual
  <2>3. CASE /\ sock[n] = "open" /\ sock[c] = "open" /\ UNCHANGED sock
             /\ phase' = [phase EXCEPT ![n] = "paired", ![c] = "paired"]
             /\ client' = [client EXCEPT ![n] = c] /\ peer' = [peer EXCEPT ![c] = n]
             /\ queue' = [queue EXCEPT ![n] = <<>>, ![c] = <<>>]
             /\ Control([s \in {n, c} |-> IF s = n THEN [t |-> "clientConnected", c |-> c]
                                          ELSE [t |-> "ready"]])
    <3>1. peer' = peer
      BY <2>2, <2>3 DEF Sound, Relay
    <3>2. out' = [out EXCEPT ![n] = Append(out[n], [t |-> "clientConnected", c |-> c]),
                             ![c] = Append(out[c], Ready)]
      BY <1>1, <2>1, <2>3 DEF Control, Sound, Traffic, Ready
    <3> QED BY <1>1, <1>4, <2>1, <2>2, <2>3, <3>1, <3>2 DEF Pairing, Answering
  <2>4. CASE phase' = [phase EXCEPT ![n] = "ready"] /\ sock' = Closing({c}) /\ UNCHANGED <<client, peer, queue, out>>
    <3>1. \A s \in Socks : /\ sock'[s] = "open" => sock[s] = "open"
                           /\ sock'[s] = "none" => sock[s] = "none"
                           /\ Alive(s) => Alive(s)'
      BY <2>4, ClosingSockets DEF Sound, Alive
    <3>2. \A r \in ClientSocks : phase'[r] = phase[r]
      BY <2>4, Names DEF Sound, Relay
    <3>3. \A m \in NodeSocks : /\ phase'[m] = phase[m] \/ (phase'[m] = "ready" /\ phase[m] # "paired")
                               /\ pending'[m] \in {pending[m], None}
      BY <1>4, <2>4, Names DEF Sound, Relay
    <3> QED BY <1>1, <1>2, <1>4, <2>4, <3>1, <3>2, <3>3, Names DEF Calm, externalVars
  <2> QED BY <1>4, <1>1, <2>1, <2>3, <2>4 DEF Authorized
<1> QED BY <1>3, <1>4 DEF Authorized

(* A client that authenticates asks its node, or is turned away.           *)
LEMMA ClientAuthKinds ==
  ASSUME Sound, NEW c \in ClientSocks, ClientAuth(c)
  PROVE  Calm \/ \E n \in NodeSocks : Requests(n, c)
<1>1. /\ Alive(c) /\ in[c] # <<>> /\ Head(in[c]).t = "auth" /\ phase[c] = "handshake"
      /\ in' = [in EXCEPT ![c] = Tail(in[c])] /\ UNCHANGED <<client, queue>> /\ UNCHANGED externalVars
  BY DEF ClientAuth, Receives, Consume
<1>2. \A s \in Socks : in'[s] = in[s] \/ Consumes(s)
  BY <1>1, Names DEF Sound, Traffic, Consumes
<1>3. CASE sock' = Closing({c}) /\ UNCHANGED <<timer, phase, peer, pending, out>>
  BY <1>1, <1>2, <1>3, ClosesCalmly DEF externalVars
<1>4. CASE /\ NodeFree(registered) /\ UNCHANGED sock
           /\ phase' = [phase EXCEPT ![c] = "authorizing", ![registered] = "authorizing"]
           /\ peer' = [peer EXCEPT ![c] = registered]
           /\ pending' = [pending EXCEPT ![registered] = c]
           /\ Control([s \in {registered} |-> [t |-> "authorizeClient", c |-> c]])
  <2> DEFINE n == registered
  <2>1. n \in NodeSocks /\ phase[n] = "ready" /\ client[n] = None /\ pending[n] = None
    BY <1>4 DEF NodeFree, Sound, Relay
  <2>2. out' = [out EXCEPT ![n] = IF sock[n] = "open"
                                  THEN Append(out[n], [t |-> "authorizeClient", c |-> c]) ELSE out[n]]
    BY <1>4, <2>1, Names DEF Control, Sound, Traffic
  <2> QED BY <1>1, <1>4, <2>1, <2>2 DEF Requests
<1> QED BY <1>3, <1>4 DEF ClientAuth

(* A timeout closes a socket whose session has not begun.                  *)
LEMMA TimerKinds == ASSUME Sound, NEW s \in Socks, TimerFires(s) PROVE Calm
<1>1. UNCHANGED <<client, queue, in, out>> /\ UNCHANGED externalVars /\ sock' = Closing({s})
  BY DEF TimerFires
<1>2. CASE UNCHANGED <<phase, pending, peer>>
  BY <1>1, <1>2, ClosesCalmly DEF externalVars
<1>3. CASE timer[s] = "authorization" /\ TimeoutReleases(s)
  <2> DEFINE n == peer[s]
  <2>1. /\ s \in ClientSocks /\ phase[s] = "authorizing" /\ n # None /\ n \in NodeSocks /\ pending[n] = s
    BY <1>3, Peers, Names DEF Timers, TimeoutReleases, Socks, Sound
  <2>2. /\ pending' = [pending EXCEPT ![n] = None] /\ phase' = [phase EXCEPT ![n] = "ready"]
        /\ peer' = [peer EXCEPT ![s] = None]
    BY <1>3 DEF TimerFires
  <2>3. \A r \in Socks : /\ sock'[r] = "open" => sock[r] = "open"
                         /\ sock'[r] = "none" => sock[r] = "none"
                         /\ Alive(r) <=> Alive(r)'
    BY <1>1, ClosingSockets DEF Sound, Alive
  <2>4. sock'[n] \in {"none", "open"} => phase[n] # "paired"
    <3>1. Alive(n) => phase[n] # "paired"
      BY <2>1, Names DEF Sound, Sessions, SessionsAreMutual
    <3>2. phase[n] # "handshake"
      BY <2>1, Names DEF Sound, Sessions, SessionsAreMutual
    <3>3. sock[n] # "none"
      BY <2>1, <3>2, Names DEF Sound, Sessions, Beginnings
    <3> QED BY <2>1, <2>3, <3>1, <3>3, Names DEF Alive
  <2>5. \A r \in ClientSocks : phase'[r] = phase[r] /\ (phase[r] = "paired" => peer'[r] = peer[r])
    BY <2>1, <2>2, Names DEF Sound, Relay
  <2>6. \A m \in NodeSocks : /\ phase'[m] = phase[m] \/ (m = n /\ phase'[m] = "ready")
                             /\ pending'[m] \in {pending[m], None}
    BY <2>1, <2>2, Names DEF Sound, Relay
  <2> QED BY <1>1, <2>3, <2>4, <2>5, <2>6, Names DEF Calm, externalVars
<1> QED BY <1>2, <1>3 DEF TimerFires

(* A node that goes takes its sessions with it.                            *)
LEMMA NodeGoneKinds == ASSUME Sound, NEW n \in NodeSocks, CloseEvent(n) PROVE Calm
<1>1. /\ Alive(n) /\ in' = [in EXCEPT ![n] = <<>>] /\ queue' = [queue EXCEPT ![n] = <<>>]
      /\ sock' = [Closing({client[n], pending[n]} \ {None}) EXCEPT ![n] = "closed"]
      /\ UNCHANGED <<client, pending, phase, peer, out>> /\ UNCHANGED externalVars /\ n \in Socks
  BY Names DEF CloseEvent, NodeGone
<1> DEFINE C == Closing({client[n], pending[n]} \ {None})
<1>2. /\ C \in [Socks -> {"none", "open", "closing", "closed"}]
      /\ \A s \in Socks : /\ C[s] \in {"open", "closing"} <=> Alive(s)
                          /\ C[s] = "none" <=> sock[s] = "none"
                          /\ C[s] = "open" => sock[s] = "open"
                          /\ s \in {client[n], pending[n]} \ {None} => C[s] # "open"
  BY ClosingSockets DEF Sound
<1> HIDE DEF C
<1>3. sock' = [C EXCEPT ![n] = "closed"]
  BY <1>1 DEF C
<1>4. \A s \in Socks : /\ sock'[s] = "open" => sock[s] = "open"
                       /\ sock'[s] = "none" => sock[s] = "none"
                       /\ Alive(s) => Alive(s)' \/ queue'[s] = <<>>
  BY <1>1, <1>2, <1>3 DEF Alive, Sound, Traffic
<1>5. Loses(n)
  <2>1. sock'[n] = "closed"
    BY <1>1, <1>2, <1>3
  <2>2. ASSUME NEW c \in ClientSocks, AtNode(c, n) PROVE sock'[c] # "open"
    <3>1. CASE Alive(c)
      <4>1. client[n] = c
        BY <1>1, <2>2, <3>1, ClientSession DEF AtNode
      <4> QED BY <1>2, <1>3, <4>1, Names
    <3>2. CASE ~Alive(c)
      BY <1>2, <1>3, <3>2, Names
    <3> QED BY <3>1, <3>2
  <2> QED BY <2>1, <2>2 DEF Loses
<1>6. \A s \in Socks : /\ in'[s] = in[s] \/ (in'[s] = <<>> /\ Loses(s))
                       /\ queue'[s] = queue[s] \/ (queue'[s] = <<>> /\ Loses(s))
  BY <1>1, <1>5 DEF Sound, Traffic
<1> QED BY <1>1, <1>4, <1>6, Names DEF Calm, externalVars

(* A client that goes leaves its session.                                  *)
LEMMA ClientGoneKinds ==
  ASSUME Sound, NEW c \in ClientSocks, CloseEvent(c)
  PROVE  Calm \/ \E n \in NodeSocks : Leaves(n, c)
<1> DEFINE n == peer[c]
<1>1. /\ Alive(c) /\ in' = [in EXCEPT ![c] = <<>>] /\ peer' = peer /\ UNCHANGED externalVars
      /\ ClientGone(c) /\ c \in Socks /\ c \notin NodeSocks /\ sock' = [sock EXCEPT ![c] = "closed"]
  BY Names DEF CloseEvent, ClientGone
<1>2. n # None => n \in NodeSocks /\ n \in Socks /\ n # c
  BY Peers, Names DEF Sound
<1>3. CASE n # None /\ Alive(n) /\ client[n] = c
  <2>1. phase[n] = "paired" /\ AtNode(c, n) /\ pending[n] = None
    BY <1>1, <1>2, <1>3, Names DEF Sound, Sessions, SessionsAreMutual, AtNode
  <2>2. /\ client' = [client EXCEPT ![n] = None] /\ phase' = [phase EXCEPT ![n] = "ready"]
        /\ queue' = [s \in Socks |-> IF s = c \/ s = n THEN <<>> ELSE queue[s]]
        /\ Control([s \in {n} |-> [t |-> "clientDisconnected"]])
        /\ pending' = pending
    BY <1>1, <1>2, <1>3, <2>1, Names DEF ClientGone
  <2>3. queue' = [queue EXCEPT ![c] = <<>>, ![n] = <<>>]
    BY <1>1, <1>2, <1>3, <2>2 DEF Sound, Traffic
  <2>4. out' = [out EXCEPT ![n] = IF sock[n] = "open"
                                  THEN Append(out[n], [t |-> "clientDisconnected"]) ELSE out[n]]
    BY <1>2, <1>3, <2>2 DEF Control, Sound, Traffic
  <2> QED BY <1>1, <1>2, <1>3, <2>1, <2>2, <2>3, <2>4 DEF Leaves
<1>4. CASE ~(n # None /\ Alive(n) /\ client[n] = c)
  <2>1. /\ UNCHANGED <<client, out>> /\ queue' = [s \in Socks |-> IF s = c THEN <<>> ELSE queue[s]]
        /\ \/ UNCHANGED <<pending, phase>>
           \/ /\ n # None /\ Alive(n) /\ pending[n] = c
              /\ pending' = [pending EXCEPT ![n] = None] /\ phase' = [phase EXCEPT ![n] = "ready"]
    BY <1>1, <1>4 DEF ClientGone
  <2>2. \A m \in NodeSocks : /\ \/ phase'[m] = phase[m]
                                \/ phase'[m] = "ready" /\ phase[m] # "paired"
                             /\ pending'[m] \in {pending[m], None}
    <3>1. n # None /\ Alive(n) /\ pending[n] = c => phase[n] # "paired"
      BY <1>2, Names DEF Sound, Sessions, SessionsAreMutual
    <3> QED BY <1>2, <2>1, <3>1, Names DEF Sound, Relay
  <2>3. \A r \in ClientSocks : phase'[r] = phase[r]
    BY <1>2, <2>1, Names DEF Sound, Relay
  <2>4. Loses(c)
    <3>1. \A r \in ClientSocks : peer[r] # c
      BY Names DEF Sound, Relay, Socks
    <3> QED BY <1>1, <3>1 DEF Loses, AtNode, Sound, Relay
  <2>5. \A s \in Socks : /\ sock'[s] = "open" => sock[s] = "open"
                         /\ sock'[s] = "none" => sock[s] = "none"
                         /\ Alive(s) => Alive(s)' \/ queue'[s] = <<>>
                         /\ in'[s] = in[s] \/ (in'[s] = <<>> /\ Loses(s))
                         /\ queue'[s] = queue[s] \/ (queue'[s] = <<>> /\ Loses(s))
    BY <1>1, <2>1, <2>4 DEF Alive, Sound, Traffic, Relay
  <2> QED BY <1>1, <2>1, <2>2, <2>3, <2>5, Names DEF Calm, externalVars
<1> QED BY <1>3, <1>4

(* A frame of a session goes on in its session.                            *)
LEMMA BinaryKinds ==
  ASSUME Sound, Wires, NEW s \in Socks, BinaryFrame(s)
  PROVE  \E d \in Socks, c \in ClientSocks : Between(s, d, c) /\ Forwarding(s, d, c)
<1>1. /\ Alive(s) /\ in[s] # <<>> /\ Head(in[s]).t = "frame" /\ phase[s] = "paired" /\ Forward(s)
      /\ in' = [in EXCEPT ![s] = Tail(in[s])] /\ UNCHANGED <<phase, client, peer, pending>>
      /\ UNCHANGED externalVars
  BY DEF BinaryFrame, Receives, Consume
<1>2. Head(in[s]) \in ToSet(in[s])
  <2>1. in[s] \in Seq(Messages)
    BY InOf DEF Sound
  <2> QED BY <1>1, <2>1, Tails DEF ToSet
<1>3. ASSUME NEW d \in Socks, NEW c \in ClientSocks, d = Target(s), c = ClientOf(s), IsFrame(Head(in[s]), c)
      PROVE  Forwarding(s, d, c)
  BY <1>1, <1>3, ForwardCases DEF Forwarding
<1>4. CASE s \in ClientSocks
  <2>1. peer[s] \in NodeSocks /\ Target(s) = peer[s] /\ ClientOf(s) = s
    BY <1>1, <1>4, ClientSession, Names DEF Target, ClientOf
  <2>2. IsFrame(Head(in[s]), s)
    BY <1>1, <1>2, <1>4 DEF Wires, ClientKnows, IsFrame
  <2>3. Between(s, peer[s], s)
    BY <1>1 DEF Between
  <2> QED BY <1>3, <1>4, <2>1, <2>2, <2>3, Names
<1>5. CASE s \in NodeSocks
  <2>1. /\ client[s] \in ClientSocks /\ Target(s) = client[s] /\ ClientOf(s) = client[s]
        /\ AtNode(client[s], s) /\ Alive(client[s])
    BY <1>1, <1>5, NodeSession DEF Target, ClientOf
  <2>2. IsFrame(Head(in[s]), client[s])
    BY <1>1, <1>2, <1>5 DEF Wires, PairedHears, IsFrame
  <2>3. Between(s, client[s], client[s])
    BY <1>1, <2>1 DEF Between, AtNode
  <2> QED BY <1>3, <2>1, <2>2, <2>3, Names
<1> QED BY <1>4, <1>5 DEF Socks

(* A queue that is sent on belongs to a session.                           *)
LEMMA DrainKinds ==
  ASSUME Sound, Wires, NEW s \in Socks, Drain(s)
  PROVE  \E d \in Socks, c \in ClientSocks : Between(s, d, c) /\ Draining(s, d, c)
<1> DEFINE d == Target(s)
           k == Moves(s)
<1>1. /\ phase[s] = "paired" /\ queue[s] # <<>> /\ d # None /\ d \in Socks /\ Alive(s)
      /\ UNCHANGED <<sock, phase, client, peer, pending, in>> /\ UNCHANGED externalVars
      /\ \/ sock[d] # "open" /\ queue' = [queue EXCEPT ![s] = <<>>] /\ out' = out
         \/ /\ sock[d] = "open" /\ k > 0
            /\ queue' = [queue EXCEPT ![s] = SubSeq(queue[s], k + 1, Len(queue[s]))]
            /\ out' = [out EXCEPT ![d] = out[d] \o SubSeq(queue[s], 1, k)]
  BY TargetIsSocket DEF Drain, Wires, Queued, Sound
<1>2. k > 0 => k \in 1 .. Len(queue[s])
  <2>1. k \in 0 .. Len(queue[s])
    BY <1>1, MovesAreQueued, PiTunnelAssumption DEF Sound
  <2> HIDE DEF k
  <2> QED BY <2>1
<1>3. \A c : Draining(s, d, c)
  BY <1>1, <1>2 DEF Draining
<1>4. CASE s \in ClientSocks
  BY <1>1, <1>3, <1>4, Names DEF Between, Target
<1>5. CASE s \in NodeSocks
  <2>1. client[s] \in ClientSocks /\ AtNode(client[s], s) /\ Alive(client[s]) /\ d = client[s]
    BY <1>1, <1>5, NodeSession DEF Target
  <2> QED BY <1>1, <1>3, <2>1 DEF Between, AtNode
<1> QED BY <1>4, <1>5 DEF Socks

(* The steps that touch no session.                                        *)
LEMMA OtherKinds ==
  ASSUME Sound,
         \/ \E s \in Socks : RelayCloses(s)
         \/ \E n \in NodeSocks : NodeAuth(n) \/ LookupReturns(n) \/ TextForbidden(n) \/ StaleFrame(n)
         \/ Activate \/ Revoke \/ StartPoll \/ EndPoll \/ UNCHANGED vars
  PROVE  Calm
<1>1. ASSUME NEW s \in Socks, RelayCloses(s) PROVE Calm
  BY <1>1, ClosesCalmly DEF RelayCloses, externalVars
<1>2. ASSUME NEW n \in NodeSocks, NodeAuth(n) \/ TextForbidden(n) \/ StaleFrame(n) PROVE Calm
  <2>1. /\ n \in Socks /\ in' = [in EXCEPT ![n] = Tail(in[n])] /\ Alive(n) /\ in[n] # <<>>
        /\ UNCHANGED <<phase, client, pending, peer, queue, out>> /\ UNCHANGED externalVars
        /\ sock' \in {sock, Closing({n})}
        /\ Head(in[n]).t = "frame" => phase[n] # "paired"
    BY <1>2, Names DEF NodeAuth, TextForbidden, StaleFrame, Receives, Consume, relayVars
  <2>2. \A s \in Socks : in'[s] = in[s] \/ Consumes(s)
    BY <2>1 DEF Consumes, Sound, Traffic
  <2> QED BY <2>1, <2>2, ClosesCalmly DEF externalVars
<1>3. ASSUME NEW n \in NodeSocks, LookupReturns(n) PROVE Calm
  <2>1. /\ UNCHANGED <<client, pending, peer, queue, in>> /\ UNCHANGED externalVars /\ n \in Socks
        /\ \/ sock' \in {sock, Closing({n})} /\ UNCHANGED <<phase, out>>
           \/ /\ sock[n] = "open" /\ phase[n] = "handshake" /\ phase' = [phase EXCEPT ![n] = "ready"]
              /\ Control([s \in {n} |-> [t |-> "ready"]]) /\ UNCHANGED sock
    BY <1>3, Names DEF LookupReturns
  <2>2. CASE sock' \in {sock, Closing({n})} /\ UNCHANGED <<phase, out>>
    BY <2>1, <2>2, ClosesCalmly DEF externalVars
  <2>3. CASE /\ sock[n] = "open" /\ phase[n] = "handshake" /\ phase' = [phase EXCEPT ![n] = "ready"]
             /\ Control([s \in {n} |-> [t |-> "ready"]]) /\ UNCHANGED sock
    <3>1. out' = [out EXCEPT ![n] = Append(out[n], Ready)]
      BY <2>1, <2>3 DEF Control, Ready, Sound, Traffic
    <3>2. /\ \A r \in ClientSocks : phase'[r] = phase[r] /\ out'[r] = out[r]
          /\ \A m \in NodeSocks : /\ phase'[m] = phase[m] \/ (phase'[m] = "ready" /\ phase[m] # "paired")
                                  /\ out'[m] \in {out[m], Append(out[m], Ready)}
      BY <2>1, <2>3, <3>1, Names DEF Sound, Relay, Traffic
    <3> QED BY <2>1, <2>3, <3>2, Names DEF Calm, externalVars, Alive
  <2> QED BY <2>1, <2>2, <2>3
<1>4. ASSUME Activate \/ Revoke \/ StartPoll \/ UNCHANGED vars PROVE Calm
  BY <1>4, ClosesCalmly DEF Activate, Revoke, StartPoll, vars, relayVars, externalVars
<1>5. ASSUME EndPoll PROVE Calm
  BY <1>5, ClosesCalmly DEF EndPoll, externalVars
<1> QED BY <1>1, <1>2, <1>3, <1>4, <1>5

(* Every step is of one of these kinds.                                    *)
EndStep ==
  \/ \E n \in NodeSocks : NodeReads(n) \/ NodeSends(n) \/ \E k \in 1 .. 2 : NodeAnswers(n, k)
  \/ \E c \in ClientSocks : ClientReads(c) \/ ClientSends(c)

Session ==
  \E s \in Socks, d \in Socks, c \in ClientSocks :
    Between(s, d, c) /\ (Forwarding(s, d, c) \/ Draining(s, d, c))

(* Together they are all the steps there are.                              *)
LEMMA WireSteps ==
  ASSUME Sound, Wires, [Next]_vars
  PROVE  \/ Calm \/ Session \/ EndStep
         \/ \E n \in NodeSocks, c \in ClientSocks : Pairing(n, c) \/ Requests(n, c) \/ Leaves(n, c)
         \/ \E s \in Socks : Accept(s)
<1>1. ASSUME NEW s \in Socks, BinaryFrame(s) \/ Drain(s) PROVE Session
  BY <1>1, BinaryKinds, DrainKinds DEF Session
<1>2. ASSUME NEW s \in Socks, CloseEvent(s)
      PROVE  Calm \/ \E n \in NodeSocks, c \in ClientSocks : Leaves(n, c)
  BY <1>2, NodeGoneKinds, ClientGoneKinds DEF Socks
<1>3. ASSUME NEW n \in NodeSocks, NodeStep(n) PROVE Calm \/ \E c \in ClientSocks : Pairing(n, c)
  BY <1>3, OtherKinds, AuthorizedKinds DEF NodeStep
<1> QED BY <1>1, <1>2, <1>3, OtherKinds, TimerKinds, ClientAuthKinds DEF Next, EndStep

-----------------------------------------------------------------------------
(* What belongs to the messages of a sequence.                             *)

(* The messages of a sequence and of the sequences made from it.           *)
LEMMA MessagesOf ==
  ASSUME NEW M, NEW S \in Seq(M)
  PROVE  /\ ToSet(S) \subseteq M
         /\ S # <<>> => Head(S) \in ToSet(S) /\ ToSet(Tail(S)) \subseteq ToSet(S)
         /\ \A m \in M : ToSet(Append(S, m)) = ToSet(S) \union {m}
         /\ \A T \in Seq(M) : ToSet(S \o T) = ToSet(S) \union ToSet(T)
         /\ ToSet(<<>>) = {}
<1>1. Len(S) \in Nat /\ DOMAIN S = 1 .. Len(S) /\ ToSet(S) \subseteq M
  <2>1. Len(S) \in Nat /\ DOMAIN S = 1 .. Len(S)
    BY LenProperties
  <2>2. \A j \in DOMAIN S : S[j] \in M
    BY <2>1, ElementOfSeq
  <2> QED BY <2>1, <2>2 DEF ToSet
<1>2. S # <<>> => Head(S) \in ToSet(S) /\ ToSet(Tail(S)) \subseteq ToSet(S)
  BY Tails DEF ToSet
<1>3. ASSUME NEW m \in M PROVE ToSet(Append(S, m)) = ToSet(S) \union {m}
  <2> DEFINE T == Append(S, m)
             n == Len(S)
  <2>1. /\ DOMAIN T = 1 .. n + 1 /\ n \in Nat
        /\ \A j \in 1 .. n : T[j] = S[j]
        /\ T[n + 1] = m /\ DOMAIN S = 1 .. n
    BY Appends
  <2> HIDE DEF T, n
  <2>2. \A j \in DOMAIN T : (j \in DOMAIN S /\ T[j] = S[j]) \/ T[j] = m
    BY <2>1
  <2>3. \A j \in DOMAIN S : j \in DOMAIN T /\ T[j] = S[j]
    BY <2>1
  <2>4. n + 1 \in DOMAIN T
    BY <2>1
  <2> QED BY <2>1, <2>2, <2>3, <2>4 DEF ToSet, T
<1>4. ASSUME NEW T \in Seq(M) PROVE ToSet(S \o T) = ToSet(S) \union ToSet(T)
  <2> DEFINE R == S \o T
             n == Len(S)
             k == Len(T)
  <2>1. n \in Nat /\ k \in Nat /\ DOMAIN S = 1 .. n /\ DOMAIN T = 1 .. k
    BY LenProperties
  <2>2. /\ DOMAIN R = 1 .. n + k
        /\ \A j \in 1 .. n + k : R[j] = IF j <= n THEN S[j] ELSE T[j - n]
    BY ConcatProperties, LenProperties
  <2> HIDE DEF R, n, k
  <2>3. \A j \in DOMAIN R : (j \in DOMAIN S /\ R[j] = S[j]) \/ (j - n \in DOMAIN T /\ R[j] = T[j - n])
    BY <2>1, <2>2
  <2>4. /\ \A j \in DOMAIN S : j \in DOMAIN R /\ R[j] = S[j]
        /\ \A j \in DOMAIN T : j + n \in DOMAIN R /\ R[j + n] = T[j]
    BY <2>1, <2>2
  <2>5. ToSet(R) \subseteq ToSet(S) \union ToSet(T)
    BY <2>3 DEF ToSet
  <2>6. ToSet(S) \subseteq ToSet(R) /\ ToSet(T) \subseteq ToSet(R)
    BY <2>4 DEF ToSet
  <2> QED BY <2>5, <2>6 DEF R
<1>5. ToSet(<<>>) = {}
  BY DEF ToSet
<1> QED BY <1>1, <1>2, <1>3, <1>4, <1>5

(* A part of a sequence holds no other messages.                           *)
LEMMA MessagesOfParts ==
  ASSUME NEW M, NEW Q \in Seq(M), NEW k \in 1 .. Len(Q)
  PROVE  /\ SubSeq(Q, 1, k) \in Seq(M) /\ SubSeq(Q, k + 1, Len(Q)) \in Seq(M)
         /\ ToSet(SubSeq(Q, 1, k)) \subseteq ToSet(Q)
         /\ ToSet(SubSeq(Q, k + 1, Len(Q))) \subseteq ToSet(Q)
<1> DEFINE n == Len(Q)
<1>1. /\ n \in Nat /\ DOMAIN Q = 1 .. n /\ k \in Nat /\ k <= n
      /\ \A j \in 1 .. n : Q[j] \in M
  BY LenProperties, ElementOfSeq
<1>2. ASSUME NEW a \in 1 .. n + 1, NEW z \in 0 .. n
      PROVE  SubSeq(Q, a, z) \in Seq(M) /\ ToSet(SubSeq(Q, a, z)) \subseteq ToSet(Q)
  <2> DEFINE A == SubSeq(Q, a, z)
  <2>1. \A j \in a .. z : Q[j] \in M
    BY <1>1
  <2>2. /\ A \in Seq(M) /\ Len(A) = IF a <= z THEN z - a + 1 ELSE 0
        /\ \A j \in 1 .. z - a + 1 : A[j] = Q[a + j - 1]
    BY <1>1, <2>1, SubSeqProperties
  <2>3. DOMAIN A = 1 .. Len(A)
    BY <2>2, LenProperties
  <2> HIDE DEF A
  <2>4. \A j \in DOMAIN A : a + j - 1 \in DOMAIN Q /\ A[j] = Q[a + j - 1]
    BY <1>1, <2>2, <2>3
  <2> QED BY <2>2, <2>4 DEF ToSet, A
<1> QED BY <1>1, <1>2

(* What a node believes, as messages are added and taken.                  *)
LEMMA BelievesAppend ==
  ASSUME NEW o \in Seq(Messages), NEW w, NEW m \in Messages
  PROVE  /\ \A j \in DOMAIN o : \A v : Believes(o, w, j, v) => Believes(Append(o, m), w, j, v)
         /\ \A v : ~Tells(m) /\ Believes(o, w, Len(o), v) => Believes(Append(o, m), w, Len(o) + 1, v)
         /\ Tells(m) => Believes(Append(o, m), w, Len(o) + 1, Says(m))
<1> DEFINE p == Append(o, m)
           n == Len(o)
<1>1. /\ n \in Nat /\ DOMAIN o = 1 .. n
      /\ \A j \in 1 .. n : p[j] = o[j]
      /\ p[n + 1] = m
  BY Appends
<1> HIDE DEF p, n
<1>2. ASSUME NEW j \in 0 .. n, NEW v, Believes(o, w, j, v) PROVE Believes(p, w, j, v)
  <2>1. CASE w = v /\ \A k \in 1 .. j : ~Tells(o[k])
    BY <1>1, <2>1 DEF Believes
  <2>2. CASE \E k \in 1 .. j : Tells(o[k]) /\ Says(o[k]) = v /\ \A l \in k + 1 .. j : ~Tells(o[l])
    BY <1>1, <2>2 DEF Believes
  <2> QED BY <1>2, <2>1, <2>2 DEF Believes
<1>3. ASSUME NEW v, ~Tells(m), Believes(p, w, n, v) PROVE Believes(p, w, n + 1, v)
  <2>1. CASE w = v /\ \A k \in 1 .. n : ~Tells(p[k])
    BY <1>1, <1>3, <2>1 DEF Believes
  <2>2. CASE \E k \in 1 .. n : Tells(p[k]) /\ Says(p[k]) = v /\ \A l \in k + 1 .. n : ~Tells(p[l])
    BY <1>1, <1>3, <2>2 DEF Believes
  <2> QED BY <1>3, <2>1, <2>2 DEF Believes
<1>4. Tells(m) => Believes(p, w, n + 1, Says(m))
  <2>1. n + 1 \in 1 .. n + 1 /\ (n + 1) + 1 .. n + 1 = {}
    BY <1>1
  <2> QED BY <1>1, <2>1 DEF Believes
<1>5. n \in 0 .. n /\ DOMAIN o \subseteq 0 .. n
  BY <1>1
<1> QED BY <1>2, <1>3, <1>4, <1>5 DEF p, n

(* Reading the first message changes what the node believes now, and not   *)
(* what it will believe.                                                   *)
LEMMA BelievesTail ==
  ASSUME NEW o \in Seq(Messages), o # <<>>, NEW w, NEW j \in DOMAIN o, NEW v, Believes(o, w, j, v)
  PROVE  Believes(Tail(o), IF Tells(Head(o)) THEN Says(Head(o)) ELSE w, j - 1, v)
<1> DEFINE p == Tail(o)
           n == Len(o)
           x == IF Tells(Head(o)) THEN Says(Head(o)) ELSE w
<1>1. /\ n \in Nat \ {0} /\ DOMAIN o = 1 .. n /\ Head(o) = o[1] /\ j \in 1 .. n
      /\ \A i \in 1 .. n - 1 : p[i] = o[i + 1]
  BY Tails
<1> HIDE DEF p, n
<1>2. \A i \in 1 .. j - 1 : i + 1 \in 1 .. j /\ p[i] = o[i + 1]
  BY <1>1
<1>3. ASSUME w = v, \A k \in 1 .. j : ~Tells(o[k]) PROVE Believes(p, x, j - 1, v)
  <2>1. x = v
    BY <1>1, <1>3
  <2>2. \A k \in 1 .. j - 1 : ~Tells(p[k])
    BY <1>2, <1>3
  <2> QED BY <2>1, <2>2 DEF Believes
<1>4. ASSUME NEW k \in 1 .. j, Tells(o[k]), Says(o[k]) = v, \A l \in k + 1 .. j : ~Tells(o[l])
      PROVE  Believes(p, x, j - 1, v)
  <2>1. CASE k = 1
    <3>1. x = v
      BY <1>1, <1>4, <2>1
    <3>2. \A i \in 1 .. j - 1 : ~Tells(p[i])
      <4>1. \A i \in 1 .. j - 1 : i + 1 \in k + 1 .. j
        BY <1>1, <2>1
      <4> QED BY <1>2, <1>4, <4>1
    <3> QED BY <3>1, <3>2 DEF Believes
  <2>2. CASE k # 1
    <3>1. k - 1 \in 1 .. j - 1 /\ p[k - 1] = o[k]
      BY <1>1, <1>2, <2>2
    <3>2. \A l \in (k - 1) + 1 .. j - 1 : ~Tells(p[l])
      <4>1. \A l \in (k - 1) + 1 .. j - 1 : l \in 1 .. j - 1 /\ l + 1 \in k + 1 .. j
        BY <1>1
      <4> QED BY <1>2, <1>4, <4>1
    <3> QED BY <1>4, <3>1, <3>2 DEF Believes
  <2> QED BY <2>1, <2>2
<1> QED BY <1>3, <1>4 DEF Believes, p

(* Without news it believes what it believed.                              *)
LEMMA BelievesNow ==
  ASSUME NEW o, NEW w, NEW j \in Nat, NEW v, Believes(o, w, j, v), \A k \in 1 .. j : ~Tells(o[k])
  PROVE  w = v
BY DEF Believes

(* Messages that tell nothing may follow.                                  *)
LEMMA BelievesConcat ==
  ASSUME NEW o \in Seq(Messages), NEW p \in Seq(Messages), NEW w, \A m \in ToSet(p) : ~Tells(m)
  PROVE  /\ \A j \in DOMAIN o : \A v : Believes(o, w, j, v) => Believes(o \o p, w, j, v)
         /\ \A j \in DOMAIN (o \o p) : \A v : j > Len(o) /\ Believes(o, w, Len(o), v) => Believes(o \o p, w, j, v)
         /\ \A v : Believes(o, w, Len(o), v) => Believes(o \o p, w, Len(o \o p), v)
<1> DEFINE r == o \o p
           n == Len(o)
           l == Len(p)
<1>1. n \in Nat /\ l \in Nat /\ DOMAIN o = 1 .. n /\ DOMAIN p = 1 .. l
  BY LenProperties
<1>2. /\ DOMAIN r = 1 .. n + l /\ Len(r) = n + l
      /\ \A j \in 1 .. n + l : r[j] = IF j <= n THEN o[j] ELSE p[j - n]
  BY ConcatProperties, LenProperties
<1> HIDE DEF r, n, l
<1>3. /\ \A j \in 1 .. n : r[j] = o[j]
      /\ \A j \in n + 1 .. n + l : ~Tells(r[j])
  <2>1. \A j \in n + 1 .. n + l : j - n \in DOMAIN p /\ r[j] = p[j - n]
    BY <1>1, <1>2
  <2>2. \A j \in 1 .. n : r[j] = o[j]
    BY <1>1, <1>2
  <2> QED BY <2>1, <2>2 DEF ToSet
<1>4. ASSUME NEW j \in 0 .. n, NEW v, Believes(o, w, j, v) PROVE Believes(r, w, j, v)
  <2>1. CASE w = v /\ \A k \in 1 .. j : ~Tells(o[k])
    BY <1>1, <1>3, <2>1 DEF Believes
  <2>2. CASE \E k \in 1 .. j : Tells(o[k]) /\ Says(o[k]) = v /\ \A i \in k + 1 .. j : ~Tells(o[i])
    BY <1>1, <1>3, <2>2 DEF Believes
  <2> QED BY <1>4, <2>1, <2>2 DEF Believes
<1>5. ASSUME NEW j \in n .. n + l, NEW v, Believes(r, w, n, v) PROVE Believes(r, w, j, v)
  <2>0. \A i \in 1 .. j : i \in 1 .. n \/ i \in n + 1 .. n + l
    BY <1>1
  <2>1. CASE w = v /\ \A k \in 1 .. n : ~Tells(r[k])
    BY <1>3, <2>0, <2>1 DEF Believes
  <2>2. ASSUME NEW k \in 1 .. n, Tells(r[k]), Says(r[k]) = v, \A i \in k + 1 .. n : ~Tells(r[i])
        PROVE  Believes(r, w, j, v)
    <3>1. k \in 1 .. j /\ \A i \in k + 1 .. j : i \in k + 1 .. n \/ i \in n + 1 .. n + l
      BY <1>1
    <3> QED BY <1>3, <2>2, <3>1 DEF Believes
  <2> QED BY <1>5, <2>1, <2>2 DEF Believes
<1>6. /\ n \in 0 .. n /\ DOMAIN o \subseteq 0 .. n /\ n + l \in n .. n + l
      /\ \A j \in DOMAIN r : j > n => j \in n .. n + l
  BY <1>1, <1>2
<1> QED BY <1>2, <1>4, <1>5, <1>6 DEF r, n
(* What comes after a request, or after its answer.                        *)
LEMMA AskedLastSteps ==
  ASSUME NEW o \in Seq(Messages), NEW c, AskedLast(o, c)
  PROVE  /\ o # <<>> => AskedLast(Tail(o), c)
         /\ \A m \in Messages : ~Tells(m) \/ (\A x \in ToSet(o) : ~Asking(x, c)) => AskedLast(Append(o, m), c)
         /\ \A q \in Seq(Messages) : (\A m \in ToSet(q) : ~Tells(m)) => AskedLast(o \o q, c)
<1>1. o # <<>> => AskedLast(Tail(o), c)
  <2> SUFFICES ASSUME o # <<>> PROVE AskedLast(Tail(o), c)
    OBVIOUS
  <2>1. \A j \in DOMAIN Tail(o) : j \in Nat /\ j + 1 \in DOMAIN o /\ Tail(o)[j] = o[j + 1]
    BY Tails
  <2>2. \A j, k \in DOMAIN Tail(o) : j < k => j + 1 < k + 1
    BY <2>1
  <2> QED BY <2>1, <2>2 DEF AskedLast
<1>2. ASSUME NEW m \in Messages, ~Tells(m) \/ \A x \in ToSet(o) : ~Asking(x, c) PROVE AskedLast(Append(o, m), c)
  <2> DEFINE p == Append(o, m)
             n == Len(o)
  <2>1. /\ n \in Nat /\ DOMAIN o = 1 .. n /\ DOMAIN p = 1 .. n + 1
        /\ \A j \in 1 .. n : p[j] = o[j]
        /\ p[n + 1] = m
    BY Appends
  <2> HIDE DEF p, n
  <2>2. ASSUME NEW j \in DOMAIN p, NEW k \in DOMAIN p, Asking(p[j], c), j < k PROVE ~Tells(p[k])
    <3>1. j \in DOMAIN o /\ p[j] = o[j] /\ o[j] \in ToSet(o)
      <4>1. j \in DOMAIN o
        BY <2>1, <2>2
      <4> QED BY <2>1, <4>1 DEF ToSet
    <3>2. CASE k \in DOMAIN o
      BY <2>1, <2>2, <3>1, <3>2 DEF AskedLast
    <3>3. CASE k = n + 1
      BY <1>2, <2>1, <2>2, <3>1, <3>3
    <3> QED BY <2>1, <3>2, <3>3
  <2> QED BY <2>2 DEF AskedLast, p
<1>3. ASSUME NEW q \in Seq(Messages), \A m \in ToSet(q) : ~Tells(m) PROVE AskedLast(o \o q, c)
  <2> DEFINE r == o \o q
             n == Len(o)
             l == Len(q)
  <2>1. n \in Nat /\ l \in Nat /\ DOMAIN o = 1 .. n /\ DOMAIN q = 1 .. l
    BY LenProperties
  <2>2. /\ DOMAIN r = 1 .. n + l
        /\ \A j \in 1 .. n + l : r[j] = IF j <= n THEN o[j] ELSE q[j - n]
    BY ConcatProperties, LenProperties
  <2> HIDE DEF r, n, l
  <2>3. ASSUME NEW j \in DOMAIN r, NEW k \in DOMAIN r, Asking(r[j], c), j < k PROVE ~Tells(r[k])
    <3>1. CASE k <= n
      <4>1. j \in DOMAIN o /\ k \in DOMAIN o /\ r[j] = o[j] /\ r[k] = o[k]
        BY <2>1, <2>2, <2>3, <3>1
      <4> QED BY <2>3, <4>1 DEF AskedLast
    <3>2. CASE ~(k <= n)
      <4>1. k - n \in DOMAIN q /\ r[k] = q[k - n]
        BY <2>1, <2>2, <3>2
      <4> QED BY <1>3, <4>1 DEF ToSet
    <3> QED BY <3>1, <3>2
  <2> QED BY <2>3 DEF AskedLast, r
<1> QED BY <1>1, <1>2, <1>3

(* The same for what the node sends after its answer.                      *)
LEMMA AnsweredLastSteps ==
  ASSUME NEW i \in Seq(Messages), NEW c, AnsweredLast(i, c)
  PROVE  /\ i # <<>> => AnsweredLast(Tail(i), c)
         /\ \A m \in Messages : m.t # "frame" \/ (\A x \in ToSet(i) : ~Answering(x, c))
                                  => AnsweredLast(Append(i, m), c)
         /\ AnsweredLast(<<>>, c)
         /\ i # <<>> /\ Answering(Head(i), c) => \A m \in ToSet(Tail(i)) : m.t # "frame"
<1>0. i # <<>> => /\ 1 \in DOMAIN i /\ Head(i) = i[1]
                  /\ \A j \in DOMAIN Tail(i) : j \in Nat \ {0} /\ j + 1 \in DOMAIN i /\ Tail(i)[j] = i[j + 1]
  BY Tails
<1>1. i # <<>> => AnsweredLast(Tail(i), c)
  <2>1. i # <<>> => \A j, k \in DOMAIN Tail(i) : j < k => j + 1 < k + 1
    BY <1>0
  <2> QED BY <1>0, <2>1 DEF AnsweredLast
<1>2. ASSUME NEW m \in Messages, m.t # "frame" \/ \A x \in ToSet(i) : ~Answering(x, c)
      PROVE  AnsweredLast(Append(i, m), c)
  <2> DEFINE p == Append(i, m)
             n == Len(i)
  <2>1. /\ n \in Nat /\ DOMAIN i = 1 .. n /\ DOMAIN p = 1 .. n + 1
        /\ \A j \in 1 .. n : p[j] = i[j]
        /\ p[n + 1] = m
    BY Appends
  <2> HIDE DEF p, n
  <2>2. ASSUME NEW j \in DOMAIN p, NEW k \in DOMAIN p, Answering(p[j], c), j < k PROVE p[k].t # "frame"
    <3>1. j \in DOMAIN i /\ p[j] = i[j] /\ i[j] \in ToSet(i)
      <4>1. j \in DOMAIN i
        BY <2>1, <2>2
      <4> QED BY <2>1, <4>1 DEF ToSet
    <3>2. CASE k \in DOMAIN i
      BY <2>1, <2>2, <3>1, <3>2 DEF AnsweredLast
    <3>3. CASE k = n + 1
      BY <1>2, <2>1, <2>2, <3>1, <3>3
    <3> QED BY <2>1, <3>2, <3>3
  <2> QED BY <2>2 DEF AnsweredLast, p
<1>3. ASSUME i # <<>>, Answering(Head(i), c), NEW m \in ToSet(Tail(i)) PROVE m.t # "frame"
  <2>1. PICK j \in DOMAIN Tail(i) : m = Tail(i)[j]
    BY DEF ToSet
  <2>2. j + 1 \in DOMAIN i /\ m = i[j + 1] /\ 1 < j + 1
    BY <1>0, <1>3, <2>1
  <2> QED BY <1>0, <1>3, <2>2 DEF AnsweredLast
<1> QED BY <1>1, <1>2, <1>3 DEF AnsweredLast

(* For everybody else's streams: other messages pass, what is lost was     *)
(* lost already, and what ends weakens them.                               *)
Passes(O, P, c) ==
  \/ P = O
  \/ \E m \in Messages : P = Append(O, m) /\ ~IsFrame(m, c)
  \/ \E T \in Seq(Messages) : P = O \o T /\ \A j \in DOMAIN T : ~IsFrame(T[j], c)

Stays(Q, R, c, x) == R = Q \/ (~x /\ \A j \in DOMAIN R : ~IsFrame(R[j], c))

Skips(I, J, c, x) ==
  \/ J = I
  \/ I # <<>> /\ J = Tail(I) /\ (~IsFrame(Head(I), c) \/ ~x)
  \/ ~x /\ \A j \in DOMAIN J : ~IsFrame(J[j], c)

(* Such steps keep the stream.                                             *)
LEMMA StreamCalm ==
  ASSUME NEW c, NEW G, NEW O \in Seq(Messages), NEW Q \in Seq(Messages), NEW I \in Seq(Messages), NEW s \in Nat,
         NEW w1 \in BOOLEAN, NEW w2 \in BOOLEAN, NEW x1 \in BOOLEAN, NEW x2 \in BOOLEAN,
         x1 => w1, x2 => w2, Stream(c, G, O, Q, I, s, w1, w2),
         NEW P, Passes(O, P, c), NEW R, Stays(Q, R, c, x2), NEW J, Skips(I, J, c, x2)
  PROVE  Stream(c, G, P, R, J, s, x1, x2)
<1> USE DEF Passes, Stays, Skips
<1>1. Stream(c, G, O, Q, I, s, x1, x2)
  BY StreamWeaken
<1>2. Stream(c, G, P, Q, I, s, x1, x2)
  <2>1. ASSUME NEW m \in Messages, ~IsFrame(m, c) PROVE Stream(c, G, Append(O, m), Q, I, s, x1, x2)
    BY <1>1, <2>1, StreamOthers
  <2>2. ASSUME NEW T \in Seq(Messages), \A j \in DOMAIN T : ~IsFrame(T[j], c)
        PROVE  Stream(c, G, O \o T, Q, I, s, x1, x2)
    BY <1>1, <2>2, StreamOthers
  <2> QED BY <1>1, <2>1, <2>2
<1>3. Stream(c, G, P, R, I, s, x1, x2)
  BY <1>2, StreamLoses
<1>4. CASE J = I
  BY <1>3, <1>4
<1>5. CASE I # <<>> /\ J = Tail(I) /\ (~IsFrame(Head(I), c) \/ ~x2)
  BY <1>3, <1>5, StreamSkips
<1>6. CASE ~x2 /\ \A j \in DOMAIN J : ~IsFrame(J[j], c)
  BY <1>3, <1>6, StreamLoses
<1> QED BY <1>4, <1>5, <1>6

(* The streams of a client whose session goes on.                          *)
LEMMA ToNodePasses ==
  ASSUME Sound, NEW c \in ClientSocks, phase[c] = "paired", ToNode(c), NEW n, n = peer[c],
         peer'[c] = n, got'[c] = got[c], sent'[c] = sent[c],
         sock'[c] = "open" => sock[c] = "open", sock'[n] = "open" => sock[n] = "open",
         Passes(out[n], out'[n], c),
         Stays(queue[c], queue'[c], c, sock'[c] = "open" /\ sock'[n] = "open"),
         Skips(in[c], in'[c], c, sock'[c] = "open" /\ sock'[n] = "open")
  PROVE  ToNode(c)'
<1> DEFINE wc == sock[c] = "open"
           wn == sock[c] = "open" /\ sock[n] = "open"
           xc == sock'[c] = "open"
           xn == sock'[c] = "open" /\ sock'[n] = "open"
<1>1. Passes(out[n], out'[n], c) /\ Stays(queue[c], queue'[c], c, xn) /\ Skips(in[c], in'[c], c, xn)
  OBVIOUS
<1>2. Stream(c, got[c].node, out[n], queue[c], in[c], sent[c].client, wc, wn)
  BY DEF ToNode
<1>3. wc \in BOOLEAN /\ wn \in BOOLEAN /\ xc \in BOOLEAN /\ xn \in BOOLEAN /\ (xc => wc) /\ (xn => wn)
  OBVIOUS
<1>4. n \in Socks /\ c \in Socks
  BY ClientSession, Names
<1>5. in[c] \in Seq(Messages) /\ out[n] \in Seq(Messages) /\ queue[c] \in Seq(Messages) /\ sent[c].client \in Nat
  BY <1>4, InOf DEF Sound, Traffic
<1> HIDE DEF wc, wn, xc, xn
<1>6. Stream(c, got[c].node, out'[n], queue'[c], in'[c], sent[c].client, xc, xn)
  BY <1>1, <1>2, <1>3, <1>5, StreamCalm
<1> QED BY <1>6 DEF ToNode, xc, xn

(* The other direction.                                                    *)
LEMMA ToClientPasses ==
  ASSUME Sound, NEW c \in ClientSocks, phase[c] = "paired", ToClient(c), NEW n, n = peer[c],
         peer'[c] = n, got'[c] = got[c], sent'[c] = sent[c],
         sock'[c] = "open" => sock[c] = "open",
         Passes(out[c], out'[c], c),
         Stays(queue[n], queue'[n], c, sock'[c] = "open"), Skips(in[n], in'[n], c, sock'[c] = "open")
  PROVE  ToClient(c)'
<1> DEFINE wc == sock[c] = "open"
           xc == sock'[c] = "open"
<1>1. Passes(out[c], out'[c], c) /\ Stays(queue[n], queue'[n], c, xc) /\ Skips(in[n], in'[n], c, xc)
  OBVIOUS
<1>2. Stream(c, got[c].client, out[c], queue[n], in[n], sent[c].node, wc, wc)
  BY DEF ToClient
<1>3. wc \in BOOLEAN /\ xc \in BOOLEAN /\ (xc => wc)
  OBVIOUS
<1>4. n \in Socks /\ c \in Socks
  BY ClientSession, Names
<1>5. in[n] \in Seq(Messages) /\ out[c] \in Seq(Messages) /\ queue[n] \in Seq(Messages) /\ sent[c].node \in Nat
  BY <1>4, InOf DEF Sound, Traffic
<1> HIDE DEF wc, xc
<1>6. Stream(c, got[c].client, out'[c], queue'[n], in'[n], sent[c].node, xc, xc)
  BY <1>1, <1>2, <1>3, <1>5, StreamCalm
<1> QED BY <1>6 DEF ToClient, xc

(* Both directions, with what the step must leave alone.                   *)
LEMMA StreamsPass ==
  ASSUME Sound, NEW c \in ClientSocks, phase[c] = "paired", ToNode(c), ToClient(c), NEW n, n = peer[c],
         peer'[c] = n, got'[c] = got[c], sent'[c] = sent[c],
         sock'[c] = "open" => sock[c] = "open", sock'[n] = "open" => sock[n] = "open",
         Passes(out[n], out'[n], c), Passes(out[c], out'[c], c),
         Stays(queue[c], queue'[c], c, sock'[c] = "open" /\ sock'[n] = "open"),
         Stays(queue[n], queue'[n], c, sock'[c] = "open"),
         Skips(in[c], in'[c], c, sock'[c] = "open" /\ sock'[n] = "open"),
         Skips(in[n], in'[n], c, sock'[c] = "open")
  PROVE  ToNode(c)' /\ ToClient(c)'
<1>1. ToNode(c)'
  BY ToNodePasses
<1>2. ToClient(c)'
  BY ToClientPasses
<1> QED BY <1>1, <1>2

(* Sessions last as long as their client.                                  *)
LEMMA AtNodeStays ==
  ASSUME \A c \in ClientSocks : phase[c] = "paired" => phase'[c] = "paired" /\ peer'[c] = peer[c]
  PROVE  \A c, n : AtNode(c, n) => AtNode(c, n)'
BY DEF AtNode

(* A message ready tells a node nothing of a client.                       *)
LEMMA ReadyIsCalm == Ready \in Messages /\ ~Tells(Ready) /\ Ready.t = "ready"
BY DEF Ready, Messages, Tells

(* Steps that move nothing of a session.                                   *)
LEMMA CalmWires == ASSUME Sound, Wires, Calm PROVE Wires'
<1> USE DEF Wires
<1>1. /\ \A s \in Socks : in[s] \in Seq(Messages) /\ out[s] \in Seq(Messages) /\ queue[s] \in Seq(Messages)
      /\ NodeSocks \subseteq Socks /\ ClientSocks \subseteq Socks
  BY InOf DEF Sound, Socks
<1>2. \A s \in Socks : ToSet(in'[s]) \subseteq ToSet(in[s]) /\ ToSet(queue'[s]) \subseteq ToSet(queue[s])
  <2> SUFFICES ASSUME NEW s \in Socks
               PROVE  ToSet(in'[s]) \subseteq ToSet(in[s]) /\ ToSet(queue'[s]) \subseteq ToSet(queue[s])
    OBVIOUS
  <2>1. in[s] # <<>> => ToSet(Tail(in[s])) \subseteq ToSet(in[s])
    BY <1>1, MessagesOf
  <2>2. ToSet(<<>>) = {}
    BY <1>1, MessagesOf
  <2> QED BY <2>1, <2>2 DEF Calm, Consumes
<1>3. \A n \in NodeSocks : ToSet(out'[n]) \subseteq ToSet(out[n]) \union {Ready}
  <2> SUFFICES ASSUME NEW n \in NodeSocks PROVE ToSet(out'[n]) \subseteq ToSet(out[n]) \union {Ready}
    OBVIOUS
  <2>1. ToSet(Append(out[n], Ready)) = ToSet(out[n]) \union {Ready}
    BY <1>1, MessagesOf, ReadyIsCalm
  <2> QED BY <2>1 DEF Calm
<1>4. \A c, n : AtNode(c, n) => AtNode(c, n)'
  BY AtNodeStays DEF Calm
<1>5. Fresh' /\ ClientKnows'
  <2>1. Fresh'
    BY DEF Calm, Fresh
  <2>2. \A c \in ClientSocks : /\ ToSet(in'[c]) \subseteq ToSet(in[c]) /\ ToSet(out'[c]) = ToSet(out[c])
                              /\ phase'[c] = phase[c]
    BY <1>1, <1>2 DEF Calm
  <2>3. ClientKnows'
    BY <2>2 DEF ClientKnows
  <2> QED BY <2>1, <2>3
<1>6. NodeKnows'
  BY <1>1, <1>2, <1>3, <1>4, ReadyIsCalm DEF Calm, NodeKnows
<1>7. Queued'
  <2>1. \A s \in Socks : queue'[s] # <<>> => Alive(s)'
    <3> SUFFICES ASSUME NEW s \in Socks, queue'[s] # <<>> PROVE Alive(s)'
      OBVIOUS
    <3>1. queue'[s] = queue[s]
      BY DEF Calm
    <3> QED BY <3>1 DEF Calm, Queued
  <2>2. client' = client
    BY DEF Calm
  <2> QED BY <1>1, <1>2, <2>1, <2>2 DEF Queued
<1>8. \A n \in NodeSocks : \/ phase'[n] = phase[n] /\ Partner(n)' = Partner(n)
                           \/ /\ phase'[n] = "ready" /\ Partner(n)' = None
                              /\ sock'[n] \in {"none", "open"} => Partner(n) = None
  BY DEF Calm, Partner
<1>9. \A n \in NodeSocks : sock'[n] \in {"none", "open"} => sock[n] = sock'[n]
  BY <1>1 DEF Calm
<1>10. Beliefs'
  <2> SUFFICES ASSUME NEW n \in NodeSocks
               PROVE  /\ \A j \in DOMAIN out'[n] : out'[n][j].t = "frame"
                           => Believes(out'[n], view'[n], j, out'[n][j].c)
                      /\ sock'[n] \in {"none", "open"} => Believes(out'[n], view'[n], Len(out'[n]), Partner(n)')
    BY DEF Beliefs
  <2> DEFINE o == out[n]
             w == view[n]
             x == Partner(n)
             y == Partner(n)'
  <2>1. /\ o \in Seq(Messages) /\ view'[n] = w
        /\ out'[n] = o \/ out'[n] = Append(o, Ready)
    BY <1>1 DEF Calm
  <2>2. sock'[n] \in {"none", "open"} => y = x /\ Believes(o, w, Len(o), x)
    BY <1>8, <1>9 DEF Beliefs
  <2>3. \A j \in DOMAIN o : o[j].t = "frame" => Believes(o, w, j, o[j].c)
    BY DEF Beliefs
  <2> HIDE DEF o, w, x, y
  <2>4. /\ \A j \in DOMAIN Append(o, Ready) : Append(o, Ready)[j].t = "frame"
             => Believes(Append(o, Ready), w, j, Append(o, Ready)[j].c)
        /\ sock'[n] \in {"none", "open"} => Believes(Append(o, Ready), w, Len(Append(o, Ready)), y)
    <3>1. /\ \A j \in DOMAIN o : \A v : Believes(o, w, j, v) => Believes(Append(o, Ready), w, j, v)
          /\ \A v : Believes(o, w, Len(o), v) => Believes(Append(o, Ready), w, Len(o) + 1, v)
      BY <2>1, BelievesAppend, ReadyIsCalm
    <3>2. /\ Len(Append(o, Ready)) = Len(o) + 1 /\ Len(o) \in Nat
          /\ \A j \in DOMAIN Append(o, Ready) : (j \in DOMAIN o /\ Append(o, Ready)[j] = o[j]) \/ Append(o, Ready)[j] = Ready
      BY <2>1, Appends, ReadyIsCalm
    <3> QED BY <2>2, <2>3, <3>1, <3>2, ReadyIsCalm
  <2> QED BY <2>1, <2>2, <2>3, <2>4 DEF y
<1>11. PairedHears'
  <2> SUFFICES ASSUME NEW n \in NodeSocks, phase'[n] = "paired"
               PROVE  /\ \A m \in ToSet(in'[n]) : m.t = "frame" => m.c = client'[n]
                      /\ view'[n] \in {None, client'[n]}
                      /\ \A m \in ToSet(out'[n]) : Tells(m) => Says(m) = client'[n]
    BY DEF PairedHears
  <2>1. phase[n] = "paired" /\ view'[n] = view[n] /\ client'[n] = client[n] /\ n \in Socks
    BY <1>1 DEF Calm
  <2> QED BY <1>2, <1>3, <2>1, ReadyIsCalm DEF PairedHears
<1>12. Unasked'
  <2> SUFFICES ASSUME NEW c \in ClientSocks, NEW n \in NodeSocks, phase'[c] = "handshake"
               PROVE  /\ \A m \in ToSet(out'[n]) : ~Asking(m, c)
                      /\ c \notin ToSet(asked'[n])
                      /\ \A m \in ToSet(in'[n]) : ~Answering(m, c)
    BY DEF Unasked
  <2>1. phase[c] = "handshake" /\ asked'[n] = asked[n] /\ ~Asking(Ready, c) /\ n \in Socks
    BY <1>1, ReadyIsCalm DEF Calm, Asking
  <2> QED BY <1>2, <1>3, <2>1 DEF Unasked
<1>13. PendingHears'
  <2> SUFFICES ASSUME NEW n \in NodeSocks, sock'[n] = "open", pending'[n] # None
               PROVE  /\ AskedLast(out'[n], pending'[n]) /\ AnsweredLast(in'[n], pending'[n])
                      /\ pending'[n] \in ToSet(asked'[n]) => Silent(n)'
                      /\ \A m \in ToSet(in'[n]) : Answering(m, pending'[n]) => Silent(n)'
    BY DEF PendingHears
  <2>1. /\ sock[n] = "open" /\ pending[n] = pending'[n] /\ asked' = asked /\ view' = view /\ n \in Socks
        /\ out'[n] = out[n] \/ out'[n] = Append(out[n], Ready)
        /\ in'[n] = in[n] \/ (in[n] # <<>> /\ in'[n] = Tail(in[n])) \/ in'[n] = <<>>
    BY <1>1 DEF Calm, Consumes
  <2>2. AskedLast(out'[n], pending[n])
    BY <1>1, <2>1, AskedLastSteps, ReadyIsCalm DEF PendingHears
  <2>3. AnsweredLast(in'[n], pending[n])
    BY <1>1, <2>1, AnsweredLastSteps DEF PendingHears
  <2>4. Silent(n) => Silent(n)'
    BY <1>3, <2>1, ReadyIsCalm DEF Silent
  <2> QED BY <1>2, <2>1, <2>2, <2>3, <2>4 DEF PendingHears
<1>14. Streams'
  <2> SUFFICES ASSUME NEW c \in ClientSocks, phase'[c] = "paired" PROVE ToNode(c)' /\ ToClient(c)'
    BY DEF Streams
  <2> DEFINE n == peer[c]
             xc == sock'[c] = "open"
             xn == sock'[n] = "open"
  <2>1. phase[c] = "paired" /\ peer'[c] = n /\ got' = got /\ sent' = sent
    BY DEF Calm
  <2>2. n \in NodeSocks /\ n \in Socks /\ c \in Socks /\ c \notin NodeSocks /\ AtNode(c, n)
    BY <1>1, <2>1, ClientSession, Names DEF AtNode
  <2>3. ToNode(c) /\ ToClient(c)
    BY <2>1 DEF Streams
  <2>4. (xc => sock[c] = "open") /\ (xn => sock[n] = "open")
    BY <2>2 DEF Calm
  <2>5. ASSUME NEW s \in {c, n}
        PROVE  /\ queue'[s] = queue[s] \/ (~xc /\ queue'[s] = <<>>)
               /\ \/ in'[s] = in[s]
                  \/ in[s] # <<>> /\ in'[s] = Tail(in[s]) /\ (~IsFrame(Head(in[s]), c) \/ ~xc)
                  \/ ~xc /\ in'[s] = <<>>
    <3>1. s \in Socks /\ (Loses(s) => ~xc)
      BY <2>2, <2>5 DEF Loses
    <3>2. Consumes(s) => in[s] # <<>> /\ in'[s] = Tail(in[s]) /\ (~IsFrame(Head(in[s]), c) \/ ~xc)
      <4> SUFFICES ASSUME Consumes(s), IsFrame(Head(in[s]), c) PROVE ~xc
        BY DEF Consumes
      <4>1. s = n /\ phase[n] # "paired" /\ Alive(n)
        BY <2>2, <2>5 DEF Consumes, IsFrame
      <4>2. ~Alive(c)
        BY <2>1, <4>1, ClientSession
      <4> QED BY <2>4, <4>2 DEF Alive
    <3> QED BY <3>1, <3>2 DEF Calm
  <2>6. out'[c] = out[c] /\ out'[n] \in {out[n], Append(out[n], Ready)}
    BY <2>2 DEF Calm
  <2>7. ~IsFrame(Ready, c) /\ Ready \in Messages
    BY ReadyIsCalm DEF IsFrame
  <2>8. Passes(out[n], out'[n], c) /\ Passes(out[c], out'[c], c)
    BY <2>6, <2>7 DEF Passes
  <2>9. ASSUME NEW s \in {c, n}, NEW x \in BOOLEAN, x => xc
        PROVE  Stays(queue[s], queue'[s], c, x) /\ Skips(in[s], in'[s], c, x)
    BY <2>5, <2>9 DEF Stays, Skips
  <2> QED BY <2>1, <2>3, <2>4, <2>8, <2>9, StreamsPass
<1> QED BY <1>5, <1>6, <1>7, <1>10, <1>11, <1>12, <1>13, <1>14 DEF Wires
(* What everyone knows stays true when what is new belongs to a session.   *)
LEMMA KnowsStays ==
  ASSUME NodeKnows, ClientKnows,
         \A c, n : AtNode(c, n) => AtNode(c, n)',
         \A c \in ClientSocks : phase[c] = "paired" => phase'[c] = "paired",
         \A n \in NodeSocks :
           /\ \A c : c = view'[n] => c \in {view[n], None} \/ AtNode(c, n)'
           /\ \A m \in ToSet(out'[n]) : \/ m \in ToSet(out[n]) \/ m.t \notin {"clientConnected", "frame"}
                                        \/ AtNode(m.c, n)'
           /\ \A m \in ToSet(in'[n]) : m \in ToSet(in[n]) \/ m.t # "frame" \/ AtNode(m.c, n)',
         \A c \in ClientSocks : \A m \in ToSet(in'[c]) \union ToSet(out'[c]) :
           m \in ToSet(in[c]) \union ToSet(out[c]) \/ m.t # "frame" \/ (m.c = c /\ phase'[c] = "paired")
  PROVE  NodeKnows' /\ ClientKnows'
<1>1. NodeKnows'
  <2> SUFFICES ASSUME NEW n \in NodeSocks
               PROVE  /\ \A c : c = view'[n] /\ c # None => AtNode(c, n)'
                      /\ \A m \in ToSet(out'[n]) : m.t \in {"clientConnected", "frame"} => AtNode(m.c, n)'
                      /\ \A m \in ToSet(in'[n]) : m.t = "frame" => AtNode(m.c, n)'
    BY DEF NodeKnows
  <2>1. /\ \A c : c = view[n] /\ c # None => AtNode(c, n)'
        /\ \A m \in ToSet(out[n]) : m.t \in {"clientConnected", "frame"} => AtNode(m.c, n)'
        /\ \A m \in ToSet(in[n]) : m.t = "frame" => AtNode(m.c, n)'
    BY DEF NodeKnows
  <2> QED BY <2>1
<1>2. ClientKnows'
  BY DEF ClientKnows
<1> QED BY <1>1, <1>2

(* What a node believes does not change with messages that tell nothing.   *)
LEMMA BeliefsKept ==
  ASSUME NEW o \in Seq(Messages), NEW w, NEW m \in Messages, NEW v,
         m.t = "frame" => Believes(o, w, Len(o), m.c) /\ ~Tells(m),
         \A j \in DOMAIN o : o[j].t = "frame" => Believes(o, w, j, o[j].c)
  PROVE  /\ \A j \in DOMAIN Append(o, m) : Append(o, m)[j].t = "frame"
              => Believes(Append(o, m), w, j, Append(o, m)[j].c)
         /\ ~Tells(m) /\ Believes(o, w, Len(o), v) => Believes(Append(o, m), w, Len(Append(o, m)), v)
         /\ Tells(m) => Believes(Append(o, m), w, Len(Append(o, m)), Says(m))
<1> DEFINE p == Append(o, m)
           n == Len(o)
<1>1. /\ Len(p) = n + 1 /\ n \in Nat
      /\ \A j \in DOMAIN p : (j \in DOMAIN o /\ p[j] = o[j]) \/ (j = n + 1 /\ p[j] = m)
  BY Appends
<1>2. /\ \A j \in DOMAIN o : \A u : Believes(o, w, j, u) => Believes(p, w, j, u)
      /\ \A u : ~Tells(m) /\ Believes(o, w, n, u) => Believes(p, w, n + 1, u)
      /\ Tells(m) => Believes(p, w, n + 1, Says(m))
  BY BelievesAppend
<1> HIDE DEF p, n
<1>3. m.t = "frame" => Believes(p, w, n + 1, m.c)
  BY <1>2 DEF n
<1> QED BY <1>1, <1>2, <1>3 DEF p, n

(* A node whose answer is read has been silent since it was asked.         *)
LEMMA AnsweredIsSilent ==
  ASSUME Sound, Wires, NEW n \in NodeSocks, NEW c \in ClientSocks, sock[n] = "open", pending[n] = c,
         in[n] # <<>>, Answering(Head(in[n]), c)
  PROVE  Silent(n) /\ \A m \in ToSet(Tail(in[n])) : m.t # "frame"
<1>1. in[n] \in Seq(Messages)
  BY InOf DEF Sound, Socks
<1>2. Head(in[n]) \in ToSet(in[n])
  BY <1>1, MessagesOf
<1>3. AnsweredLast(in[n], c) /\ Silent(n)
  BY <1>2, Names DEF Wires, PendingHears, Socks
<1> QED BY <1>1, <1>3, AnsweredLastSteps

(* A session begins: its streams are empty, and its node hears of its      *)
(* client after everything that it was told before.                        *)
LEMMA PairingWires ==
  ASSUME Sound, Wires, NEW n \in NodeSocks, NEW c \in ClientSocks, Pairing(n, c)
  PROVE  Wires'
<1> USE DEF Wires
<1> DEFINE t == [t |-> "clientConnected", c |-> c]
<1>1. /\ \A s \in Socks : in[s] \in Seq(Messages) /\ out[s] \in Seq(Messages) /\ queue[s] \in Seq(Messages)
      /\ NodeSocks \subseteq Socks /\ ClientSocks \subseteq Socks /\ c \notin NodeSocks /\ n # c
  BY InOf, Names DEF Sound, Socks
<1>2. t \in Messages /\ Tells(t) /\ Says(t) = c /\ t.t = "clientConnected" /\ t.c = c
  BY DEF Messages, Tells, Says
<1> HIDE DEF t
<1>3. /\ UNCHANGED <<sock, peer, view, asked, sent, got>>
      /\ \A s \in Socks : /\ s # n => in'[s] = in[s]
                          /\ s \notin {n, c} => queue'[s] = queue[s] /\ out'[s] = out[s] /\ phase'[s] = phase[s]
      /\ queue'[n] = <<>> /\ queue'[c] = <<>> /\ phase'[n] = "paired" /\ phase'[c] = "paired"
      /\ in'[n] = Tail(in[n]) /\ out'[n] = Append(out[n], t) /\ out'[c] = Append(out[c], Ready)
      /\ client'[n] = c /\ pending'[n] = None
      /\ \A m \in NodeSocks : m # n => client'[m] = client[m] /\ pending'[m] = pending[m]
  BY <1>1 DEF Pairing, externalVars, t, Sound, Relay, Traffic
<1>4. /\ phase[n] = "authorizing" /\ phase[c] = "authorizing" /\ pending[n] = c /\ peer[c] = n
      /\ sock[n] = "open" /\ sock[c] = "open" /\ in[n] # <<>> /\ Head(in[n]).t = "result"
      /\ Silent(n) /\ \A m \in ToSet(Tail(in[n])) : m.t # "frame"
  BY AnsweredIsSilent DEF Pairing, Answering
<1>5. /\ \A s \in Socks : ToSet(in'[s]) \subseteq ToSet(in[s]) /\ ToSet(queue'[s]) \subseteq ToSet(queue[s])
      /\ ToSet(out'[n]) = ToSet(out[n]) \union {t} /\ ToSet(out'[c]) = ToSet(out[c]) \union {Ready}
      /\ ToSet(queue'[n]) = {} /\ ToSet(queue'[c]) = {}
  <2>1. ToSet(Tail(in[n])) \subseteq ToSet(in[n]) /\ ToSet(<<>>) = {}
    BY <1>1, <1>4, MessagesOf
  <2>2. ToSet(out'[n]) = ToSet(out[n]) \union {t} /\ ToSet(out'[c]) = ToSet(out[c]) \union {Ready}
    BY <1>1, <1>2, <1>3, MessagesOf, ReadyIsCalm
  <2> QED BY <1>1, <1>3, <2>1, <2>2
<1>6. \A r \in ClientSocks : phase[r] = "paired" => r # c /\ phase'[r] = "paired"
  BY <1>1, <1>3, <1>4
<1>7. \A r, m : AtNode(r, m) => AtNode(r, m)'
  BY <1>3, <1>6, AtNodeStays
<1>8. Fresh'
  <2>1. \A r \in ClientSocks : phase'[r] # "paired" => phase[r] # "paired"
    BY <1>6
  <2> QED BY <1>3, <2>1 DEF Fresh
<1>9. NodeKnows' /\ ClientKnows'
  <2>1. AtNode(c, n)'
    BY <1>3, <1>4 DEF AtNode
  <2>2. ASSUME NEW m \in NodeSocks
        PROVE  /\ view'[m] = view[m] /\ ToSet(in'[m]) \subseteq ToSet(in[m])
               /\ ToSet(out'[m]) \subseteq ToSet(out[m]) \/ (m = n /\ ToSet(out'[m]) = ToSet(out[m]) \union {t})
    BY <1>1, <1>3, <1>5
  <2>3. ASSUME NEW r \in ClientSocks
        PROVE  ToSet(in'[r]) \subseteq ToSet(in[r]) /\ ToSet(out'[r]) \subseteq ToSet(out[r]) \union {Ready}
    <3>1. r = c \/ out'[r] = out[r]
      BY <1>1, <1>3, Names
    <3> QED BY <1>1, <1>5, <3>1
  <2> HIDE DEF Wires
  <2>4. NodeKnows /\ ClientKnows
    BY DEF Wires
  <2> QED BY <1>2, <1>6, <1>7, <2>1, <2>2, <2>3, <2>4, ReadyIsCalm, KnowsStays
<1>10. Queued'
  <2>1. \A s \in Socks : queue'[s] # <<>> => Alive(s)'
    BY <1>3 DEF Queued, Alive
  <2>2. \A m \in NodeSocks : ToSet(queue'[m]) = {} \/ (queue'[m] = queue[m] /\ client'[m] = client[m])
    BY <1>1, <1>3, <1>5
  <2>3. \A r \in ClientSocks : ToSet(queue'[r]) \subseteq ToSet(queue[r])
    BY <1>1, <1>5
  <2> QED BY <2>1, <2>2, <2>3 DEF Queued
<1>11. \A m \in NodeSocks : m # n => /\ UNCHANGED <<in[m], out[m], view[m], asked[m], client[m], pending[m], sock[m]>>
                                   /\ phase'[m] = phase[m] /\ Partner(m)' = Partner(m)
  BY <1>1, <1>3, Names DEF Partner
<1>12. Beliefs'
  <2> SUFFICES ASSUME NEW m \in NodeSocks
               PROVE  /\ \A j \in DOMAIN out'[m] : out'[m][j].t = "frame"
                           => Believes(out'[m], view'[m], j, out'[m][j].c)
                      /\ sock'[m] \in {"none", "open"} => Believes(out'[m], view'[m], Len(out'[m]), Partner(m)')
    BY DEF Beliefs
  <2>1. CASE m # n
    BY <1>11, <2>1 DEF Beliefs
  <2>2. CASE m = n
    <3>1. Partner(n)' = c
      BY <1>3 DEF Partner
    <3>2. \A j \in DOMAIN out[n] : out[n][j].t = "frame" => Believes(out[n], view[n], j, out[n][j].c)
      BY DEF Beliefs
    <3>3. out[n] \in Seq(Messages) /\ out'[n] = Append(out[n], t) /\ view'[n] = view[n]
      BY <1>1, <1>3
    <3> QED BY <1>2, <2>2, <3>1, <3>2, <3>3, BeliefsKept
  <2> QED BY <2>1, <2>2
<1>13. PairedHears'
  <2> SUFFICES ASSUME NEW m \in NodeSocks, phase'[m] = "paired"
               PROVE  /\ \A x \in ToSet(in'[m]) : x.t = "frame" => x.c = client'[m]
                      /\ view'[m] \in {None, client'[m]}
                      /\ \A x \in ToSet(out'[m]) : Tells(x) => Says(x) = client'[m]
    BY DEF PairedHears
  <2>1. CASE m # n
    BY <1>11, <2>1 DEF PairedHears
  <2>2. CASE m = n
    BY <1>2, <1>3, <1>4, <1>5, <2>2 DEF Silent
  <2> QED BY <2>1, <2>2
<1>14. PendingHears'
  <2> SUFFICES ASSUME NEW m \in NodeSocks, sock'[m] = "open", pending'[m] # None
               PROVE  /\ AskedLast(out'[m], pending'[m]) /\ AnsweredLast(in'[m], pending'[m])
                      /\ pending'[m] \in ToSet(asked'[m]) => Silent(m)'
                      /\ \A x \in ToSet(in'[m]) : Answering(x, pending'[m]) => Silent(m)'
    BY DEF PendingHears
  <2>1. m # n
    BY <1>3
  <2> QED BY <1>11, <2>1 DEF PendingHears, Silent
<1>15. Unasked'
  <2> SUFFICES ASSUME NEW r \in ClientSocks, NEW m \in NodeSocks, phase'[r] = "handshake"
               PROVE  /\ \A x \in ToSet(out'[m]) : ~Asking(x, r)
                      /\ r \notin ToSet(asked'[m])
                      /\ \A x \in ToSet(in'[m]) : ~Answering(x, r)
    BY DEF Unasked
  <2>1. phase[r] = "handshake"
    BY <1>1, <1>3, Names
  <2>2. ~Asking(t, r) /\ ToSet(out'[m]) \subseteq ToSet(out[m]) \union {t} /\ ToSet(in'[m]) \subseteq ToSet(in[m])
    BY <1>1, <1>2, <1>5, <1>11 DEF Asking
  <2> QED BY <1>3, <2>1, <2>2 DEF Unasked
<1>16. Streams'
  <2> SUFFICES ASSUME NEW r \in ClientSocks, phase'[r] = "paired" PROVE ToNode(r)' /\ ToClient(r)'
    BY DEF Streams
  <2>1. CASE r = c
    <3>1. /\ sent'[c].node = 0 /\ sent'[c].client = 0 /\ got'[c].node = <<>> /\ got'[c].client = <<>> /\ peer'[c] = n
      BY <1>3, <1>4 DEF Fresh
    <3>2. ~AtNode(c, n) /\ phase[c] # "paired"
      BY <1>4 DEF AtNode
    <3>3. /\ \A m \in ToSet(out'[n]) \union ToSet(in'[n]) : ~IsFrame(m, c)
          /\ \A m \in ToSet(out'[c]) \union ToSet(in'[c]) : ~IsFrame(m, c)
      <4>1. \A m \in ToSet(out[n]) \union ToSet(in[n]) \union ToSet(out[c]) \union ToSet(in[c]) : ~IsFrame(m, c)
        BY <3>2 DEF NodeKnows, ClientKnows, IsFrame
      <4>2. ~IsFrame(t, c) /\ ~IsFrame(Ready, c)
        BY <1>2, ReadyIsCalm DEF IsFrame
      <4>3. ToSet(in'[n]) \subseteq ToSet(in[n]) /\ ToSet(in'[c]) \subseteq ToSet(in[c])
        BY <1>1, <1>5
      <4> QED BY <1>5, <4>1, <4>2, <4>3
    <3>4. \A x \in {n, c} : /\ \A j \in DOMAIN out'[x] : ~IsFrame(out'[x][j], c)
                            /\ \A j \in DOMAIN in'[x] : ~IsFrame(in'[x][j], c)
                            /\ \A j \in DOMAIN queue'[x] : ~IsFrame(queue'[x][j], c)
      <4>1. \A S : \A j \in DOMAIN S : S[j] \in ToSet(S)
        BY DEF ToSet
      <4>2. \A x \in {n, c} : queue'[x] = <<>>
        BY <1>3
      <4> QED BY <3>3, <4>1, <4>2
    <3>5. /\ Stream(c, <<>>, out'[n], queue'[c], in'[c], 0, sock'[c] = "open", sock'[c] = "open" /\ sock'[n] = "open")
          /\ Stream(c, <<>>, out'[c], queue'[n], in'[n], 0, sock'[c] = "open", sock'[c] = "open")
      BY <3>4, StreamBegins
    <3> QED BY <2>1, <3>1, <3>5 DEF ToNode, ToClient
  <2>2. CASE r # c
    <3> DEFINE m == peer[r]
    <3>1. phase[r] = "paired" /\ m \in NodeSocks /\ r \in Socks /\ r # n /\ m # c /\ ToNode(r) /\ ToClient(r)
      <4>1. phase[r] = "paired"
        BY <1>1, <1>3, <2>2, Names
      <4> QED BY <1>1, <4>1, ClientSession, Names DEF Streams
    <3>2. m = n => ~Alive(r)
      BY <1>4, <3>1, ClientSession DEF Alive
    <3>3. ~IsFrame(t, r) /\ ~IsFrame(Head(in[n]), r) /\ \A j \in DOMAIN <<>> : ~IsFrame(<<>>[j], r)
      BY <1>2, <1>4 DEF IsFrame
    <3>4. Passes(out[m], out'[m], r) /\ Passes(out[r], out'[r], r)
      BY <1>1, <1>2, <1>3, <2>2, <3>1, <3>3 DEF Passes
    <3>5. Skips(in[m], in'[m], r, sock'[r] = "open") /\ Skips(in[r], in'[r], r, sock'[r] = "open" /\ sock'[m] = "open")
      BY <1>1, <1>3, <1>4, <3>1, <3>3 DEF Skips
    <3>6. Stays(queue[m], queue'[m], r, sock'[r] = "open") /\ Stays(queue[r], queue'[r], r, sock'[r] = "open" /\ sock'[m] = "open")
      BY <1>1, <1>3, <2>2, <3>1, <3>2, <3>3 DEF Stays, Alive
    <3>7. peer'[r] = m /\ got'[r] = got[r] /\ sent'[r] = sent[r] /\ sock' = sock
      BY <1>3
    <3> HIDE DEF m
    <3>8. m = peer[r]
      BY DEF m
    <3> QED BY <3>1, <3>4, <3>5, <3>6, <3>7, <3>8, StreamsPass
  <2> QED BY <2>1, <2>2
<1> QED BY <1>8, <1>9, <1>10, <1>12, <1>13, <1>14, <1>15, <1>16 DEF Wires
(* A client authenticates and its node is asked about it.                  *)
LEMMA RequestsWires ==
  ASSUME Sound, Wires, NEW n \in NodeSocks, NEW c \in ClientSocks, Requests(n, c)
  PROVE  Wires'
<1> USE DEF Wires
<1> DEFINE t == [t |-> "authorizeClient", c |-> c]
<1>1. /\ \A s \in Socks : in[s] \in Seq(Messages) /\ out[s] \in Seq(Messages) /\ queue[s] \in Seq(Messages)
      /\ NodeSocks \subseteq Socks /\ ClientSocks \subseteq Socks /\ c \notin NodeSocks /\ n # c
  BY InOf, Names DEF Sound, Socks
<1>2. t \in Messages /\ ~Tells(t) /\ t.t = "authorizeClient" /\ t.c = c
  BY DEF Messages, Tells
<1> HIDE DEF t
<1>3. /\ UNCHANGED <<sock, client, queue, view, asked, sent, got>>
      /\ \A s \in Socks : /\ s # c => in'[s] = in[s]
                          /\ s # n => out'[s] = out[s]
                          /\ s \notin {n, c} => phase'[s] = phase[s]
      /\ phase'[n] = "authorizing" /\ phase'[c] = "authorizing" /\ pending'[n] = c
      /\ in[c] # <<>> /\ in'[c] = Tail(in[c]) /\ Head(in[c]).t = "auth"
      /\ out'[n] = out[n] \/ out'[n] = Append(out[n], t)
      /\ \A m \in NodeSocks : m # n => pending'[m] = pending[m]
      /\ \A r \in ClientSocks : r # c => peer'[r] = peer[r]
  BY <1>1 DEF Requests, externalVars, t, Sound, Relay, Traffic
<1>4. phase[n] = "ready" /\ client[n] = None /\ pending[n] = None /\ phase[c] = "handshake"
  BY DEF Requests
<1>5. /\ \A s \in Socks : ToSet(in'[s]) \subseteq ToSet(in[s])
      /\ ToSet(out'[n]) \subseteq ToSet(out[n]) \union {t}
  <2>1. ToSet(Tail(in[c])) \subseteq ToSet(in[c])
    BY <1>1, <1>3, MessagesOf
  <2>2. ToSet(Append(out[n], t)) = ToSet(out[n]) \union {t}
    BY <1>1, <1>2, MessagesOf
  <2> QED BY <1>1, <1>3, <2>1, <2>2
<1>6. \A r \in ClientSocks : (phase[r] = "paired" <=> phase'[r] = "paired") /\ (phase[r] = "paired" => r # c)
  BY <1>1, <1>3, <1>4, Names
<1>7. \A r, m : AtNode(r, m) => AtNode(r, m)'
  BY <1>3, <1>6, AtNodeStays
<1>8. Fresh'
  BY <1>3, <1>6 DEF Fresh
<1>9. NodeKnows' /\ ClientKnows'
  <2>1. ASSUME NEW m \in NodeSocks
        PROVE  /\ view'[m] = view[m] /\ ToSet(in'[m]) \subseteq ToSet(in[m])
               /\ ToSet(out'[m]) \subseteq ToSet(out[m]) \union {t}
    BY <1>1, <1>3, <1>5
  <2>2. ASSUME NEW r \in ClientSocks
        PROVE  ToSet(in'[r]) \subseteq ToSet(in[r]) /\ ToSet(out'[r]) \subseteq ToSet(out[r])
    BY <1>1, <1>3, <1>5, Names
  <2> HIDE DEF Wires
  <2>3. NodeKnows /\ ClientKnows
    BY DEF Wires
  <2> QED BY <1>2, <1>6, <1>7, <2>1, <2>2, <2>3, KnowsStays
<1>10. Queued'
  BY <1>3 DEF Queued, Alive
<1>11. \A m \in NodeSocks : /\ UNCHANGED <<in[m], view[m], asked[m], client[m], sock[m]>> /\ Partner(m)' = Partner(m)
                            /\ m # n => UNCHANGED <<out[m], pending[m], phase[m]>>
  BY <1>1, <1>3, <1>4, Names DEF Partner
<1>12. Beliefs'
  <2> SUFFICES ASSUME NEW m \in NodeSocks
               PROVE  /\ \A j \in DOMAIN out'[m] : out'[m][j].t = "frame"
                           => Believes(out'[m], view'[m], j, out'[m][j].c)
                      /\ sock'[m] \in {"none", "open"} => Believes(out'[m], view'[m], Len(out'[m]), Partner(m)')
    BY DEF Beliefs
  <2>1. CASE out'[m] = out[m]
    BY <1>11, <2>1 DEF Beliefs
  <2>2. CASE m = n /\ out'[n] = Append(out[n], t)
    <3> DEFINE x == Partner(n)
    <3>1. /\ \A j \in DOMAIN out[n] : out[n][j].t = "frame" => Believes(out[n], view[n], j, out[n][j].c)
          /\ sock[n] \in {"none", "open"} => Believes(out[n], view[n], Len(out[n]), x)
      BY DEF Beliefs
    <3>2. out[n] \in Seq(Messages) /\ view'[n] = view[n] /\ sock'[n] = sock[n] /\ Partner(n)' = x
      BY <1>1, <1>11
    <3> HIDE DEF x
    <3> QED BY <1>2, <2>2, <3>1, <3>2, BeliefsKept
  <2> QED BY <1>3, <1>11, <2>1, <2>2
<1>13. PairedHears'
  <2> SUFFICES ASSUME NEW m \in NodeSocks, phase'[m] = "paired"
               PROVE  /\ \A x \in ToSet(in'[m]) : x.t = "frame" => x.c = client'[m]
                      /\ view'[m] \in {None, client'[m]}
                      /\ \A x \in ToSet(out'[m]) : Tells(x) => Says(x) = client'[m]
    BY DEF PairedHears
  <2>1. m # n
    BY <1>3
  <2> QED BY <1>11, <2>1 DEF PairedHears
<1>14. PendingHears'
  <2> SUFFICES ASSUME NEW m \in NodeSocks, sock'[m] = "open", pending'[m] # None
               PROVE  /\ AskedLast(out'[m], pending'[m]) /\ AnsweredLast(in'[m], pending'[m])
                      /\ pending'[m] \in ToSet(asked'[m]) => Silent(m)'
                      /\ \A x \in ToSet(in'[m]) : Answering(x, pending'[m]) => Silent(m)'
    BY DEF PendingHears
  <2>1. CASE m # n
    BY <1>11, <2>1 DEF PendingHears, Silent
  <2>2. CASE m = n
    <3>1. /\ \A x \in ToSet(out[n]) : ~Asking(x, c)
          /\ c \notin ToSet(asked[n])
          /\ \A x \in ToSet(in[n]) : ~Answering(x, c)
      BY <1>4 DEF Unasked
    <3>2. AskedLast(out[n], c) /\ AnsweredLast(in[n], c)
      BY <3>1 DEF AskedLast, AnsweredLast, ToSet
    <3>3. AskedLast(out'[n], c)
      BY <1>1, <1>2, <1>3, <3>2, AskedLastSteps
    <3> QED BY <1>3, <1>11, <2>2, <3>1, <3>2, <3>3
  <2> QED BY <2>1, <2>2
<1>15. Unasked'
  <2> SUFFICES ASSUME NEW r \in ClientSocks, NEW m \in NodeSocks, phase'[r] = "handshake"
               PROVE  /\ \A x \in ToSet(out'[m]) : ~Asking(x, r)
                      /\ r \notin ToSet(asked'[m])
                      /\ \A x \in ToSet(in'[m]) : ~Answering(x, r)
    BY DEF Unasked
  <2>1. phase[r] = "handshake" /\ r # c
    BY <1>1, <1>3, Names
  <2>2. ~Asking(t, r) /\ ToSet(out'[m]) \subseteq ToSet(out[m]) \union {t} /\ ToSet(in'[m]) \subseteq ToSet(in[m])
    BY <1>1, <1>2, <1>5, <1>11, <2>1 DEF Asking
  <2> QED BY <1>3, <2>1, <2>2 DEF Unasked
<1>16. Streams'
  <2> SUFFICES ASSUME NEW r \in ClientSocks, phase'[r] = "paired" PROVE ToNode(r)' /\ ToClient(r)'
    BY DEF Streams
  <2> DEFINE m == peer[r]
  <2>1. /\ phase[r] = "paired" /\ m \in NodeSocks /\ r \in Socks /\ r # n /\ r # c /\ m # c /\ m \in Socks
        /\ ToNode(r) /\ ToClient(r)
    <3>1. phase[r] = "paired"
      BY <1>6
    <3> QED BY <1>1, <1>6, <3>1, ClientSession, Names DEF Streams
  <2>2. ~IsFrame(t, r)
    BY <1>2 DEF IsFrame
  <2>3. Passes(out[m], out'[m], r) /\ Passes(out[r], out'[r], r)
    BY <1>1, <1>2, <1>3, <2>1, <2>2 DEF Passes
  <2>4. Skips(in[m], in'[m], r, sock'[r] = "open") /\ Skips(in[r], in'[r], r, sock'[r] = "open" /\ sock'[m] = "open")
    BY <1>3, <2>1 DEF Skips
  <2>5. Stays(queue[m], queue'[m], r, sock'[r] = "open") /\ Stays(queue[r], queue'[r], r, sock'[r] = "open" /\ sock'[m] = "open")
    BY <1>3 DEF Stays
  <2>6. peer'[r] = m /\ got'[r] = got[r] /\ sent'[r] = sent[r] /\ sock' = sock
    BY <1>3, <2>1
  <2> HIDE DEF m
  <2>7. m = peer[r]
    BY DEF m
  <2> QED BY <2>1, <2>3, <2>4, <2>5, <2>6, <2>7, StreamsPass
<1> QED BY <1>8, <1>9, <1>10, <1>12, <1>13, <1>14, <1>15, <1>16 DEF Wires

(* A session ends with its client, and its node is told so.                *)
LEMMA LeavesWires ==
  ASSUME Sound, Wires, NEW n \in NodeSocks, NEW c \in ClientSocks, Leaves(n, c)
  PROVE  Wires'
<1> USE DEF Wires
<1> DEFINE t == [t |-> "clientDisconnected"]
<1>1. /\ \A s \in Socks : in[s] \in Seq(Messages) /\ out[s] \in Seq(Messages) /\ queue[s] \in Seq(Messages)
      /\ NodeSocks \subseteq Socks /\ ClientSocks \subseteq Socks /\ c \notin NodeSocks /\ n # c
  BY InOf, Names DEF Sound, Socks
<1>2. t \in Messages /\ Tells(t) /\ Says(t) = None /\ t.t = "clientDisconnected"
  BY DEF Messages, Tells, Says
<1> HIDE DEF t
<1>3. /\ UNCHANGED <<peer, pending, view, asked, sent, got>>
      /\ \A s \in Socks : /\ s # c => in'[s] = in[s] /\ sock'[s] = sock[s]
                          /\ s # n => out'[s] = out[s] /\ phase'[s] = phase[s]
                          /\ s \notin {n, c} => queue'[s] = queue[s]
      /\ phase'[n] = "ready" /\ sock'[c] = "closed" /\ client'[n] = None
      /\ in'[c] = <<>> /\ queue'[n] = <<>> /\ queue'[c] = <<>>
      /\ out'[n] = IF sock[n] = "open" THEN Append(out[n], t) ELSE out[n]
      /\ \A m \in NodeSocks : m # n => client'[m] = client[m]
  BY <1>1 DEF Leaves, externalVars, t, Sound, Relay, Traffic
<1>4. phase[n] = "paired" /\ AtNode(c, n) /\ client[n] = c /\ pending[n] = None
  BY DEF Leaves
<1>5. /\ \A s \in Socks : ToSet(in'[s]) \subseteq ToSet(in[s]) /\ ToSet(queue'[s]) \subseteq ToSet(queue[s])
      /\ ToSet(out'[n]) \subseteq ToSet(out[n]) \union {t}
      /\ ToSet(queue'[n]) = {}
  <2>1. ToSet(<<>>) = {}
    BY <1>1, MessagesOf
  <2>2. ToSet(Append(out[n], t)) = ToSet(out[n]) \union {t}
    BY <1>1, <1>2, MessagesOf
  <2>3. \A s \in Socks : (in'[s] = in[s] \/ in'[s] = <<>>) /\ (queue'[s] = queue[s] \/ queue'[s] = <<>>)
    BY <1>1, <1>3
  <2> QED BY <1>1, <1>3, <2>1, <2>2, <2>3
<1>6. \A r \in ClientSocks : phase'[r] = phase[r]
  BY <1>1, <1>3, Names
<1>7. \A r, m : AtNode(r, m) => AtNode(r, m)'
  BY <1>3, <1>6, AtNodeStays
<1>8. Fresh'
  BY <1>3, <1>6 DEF Fresh
<1>9. NodeKnows' /\ ClientKnows'
  <2>1. ASSUME NEW m \in NodeSocks
        PROVE  /\ view'[m] = view[m] /\ ToSet(in'[m]) \subseteq ToSet(in[m])
               /\ ToSet(out'[m]) \subseteq ToSet(out[m]) \union {t}
    BY <1>1, <1>3, <1>5
  <2>2. ASSUME NEW r \in ClientSocks
        PROVE  ToSet(in'[r]) \subseteq ToSet(in[r]) /\ ToSet(out'[r]) \subseteq ToSet(out[r])
    BY <1>1, <1>3, <1>5, Names
  <2> HIDE DEF Wires
  <2>3. NodeKnows /\ ClientKnows
    BY DEF Wires
  <2> QED BY <1>2, <1>6, <1>7, <2>1, <2>2, <2>3, KnowsStays
<1>10. Queued'
  <2>1. ASSUME NEW s \in Socks, queue'[s] # <<>> PROVE Alive(s)'
    <3>1. s \notin {n, c} /\ queue'[s] = queue[s] /\ sock'[s] = sock[s]
      BY <1>3, <2>1
    <3> QED BY <2>1, <3>1 DEF Queued, Alive
  <2>2. \A m \in NodeSocks : ToSet(queue'[m]) = {} \/ (queue'[m] = queue[m] /\ client'[m] = client[m])
    BY <1>1, <1>3, <1>5
  <2>3. \A r \in ClientSocks : ToSet(queue'[r]) \subseteq ToSet(queue[r])
    BY <1>1, <1>5
  <2> QED BY <2>1, <2>2, <2>3 DEF Queued
<1>11. \A m \in NodeSocks : /\ UNCHANGED <<in[m], view[m], asked[m], pending[m], sock[m]>>
                            /\ m # n => UNCHANGED <<out[m], client[m], phase[m]>> /\ Partner(m)' = Partner(m)
  BY <1>1, <1>3, <1>4, Names DEF Partner
<1>12. Beliefs'
  <2> SUFFICES ASSUME NEW m \in NodeSocks
               PROVE  /\ \A j \in DOMAIN out'[m] : out'[m][j].t = "frame"
                           => Believes(out'[m], view'[m], j, out'[m][j].c)
                      /\ sock'[m] \in {"none", "open"} => Believes(out'[m], view'[m], Len(out'[m]), Partner(m)')
    BY DEF Beliefs
  <2>1. CASE m # n
    BY <1>11, <2>1 DEF Beliefs
  <2>2. CASE m = n /\ sock[n] = "open"
    <3>1. \A j \in DOMAIN out[n] : out[n][j].t = "frame" => Believes(out[n], view[n], j, out[n][j].c)
      BY DEF Beliefs
    <3>2. out[n] \in Seq(Messages) /\ view'[n] = view[n] /\ Partner(n)' = None /\ out'[n] = Append(out[n], t)
      BY <1>1, <1>3, <2>2 DEF Partner
    <3> QED BY <1>2, <2>2, <3>1, <3>2, BeliefsKept
  <2>3. CASE m = n /\ sock[n] # "open"
    <3>1. sock[n] # "none"
      BY <1>1, <1>4 DEF Sound, Sessions, Beginnings
    <3> QED BY <1>3, <1>11, <2>3, <3>1 DEF Beliefs
  <2> QED BY <2>1, <2>2, <2>3
<1>13. PairedHears'
  <2> SUFFICES ASSUME NEW m \in NodeSocks, phase'[m] = "paired"
               PROVE  /\ \A x \in ToSet(in'[m]) : x.t = "frame" => x.c = client'[m]
                      /\ view'[m] \in {None, client'[m]}
                      /\ \A x \in ToSet(out'[m]) : Tells(x) => Says(x) = client'[m]
    BY DEF PairedHears
  <2>1. m # n
    BY <1>3
  <2> QED BY <1>11, <2>1 DEF PairedHears
<1>14. PendingHears'
  <2> SUFFICES ASSUME NEW m \in NodeSocks, sock'[m] = "open", pending'[m] # None
               PROVE  /\ AskedLast(out'[m], pending'[m]) /\ AnsweredLast(in'[m], pending'[m])
                      /\ pending'[m] \in ToSet(asked'[m]) => Silent(m)'
                      /\ \A x \in ToSet(in'[m]) : Answering(x, pending'[m]) => Silent(m)'
    BY DEF PendingHears
  <2>1. m # n
    BY <1>3, <1>4
  <2> QED BY <1>11, <2>1 DEF PendingHears, Silent
<1>15. Unasked'
  <2> SUFFICES ASSUME NEW r \in ClientSocks, NEW m \in NodeSocks, phase'[r] = "handshake"
               PROVE  /\ \A x \in ToSet(out'[m]) : ~Asking(x, r)
                      /\ r \notin ToSet(asked'[m])
                      /\ \A x \in ToSet(in'[m]) : ~Answering(x, r)
    BY DEF Unasked
  <2>1. phase[r] = "handshake"
    BY <1>6
  <2>2. ~Asking(t, r) /\ ToSet(out'[m]) \subseteq ToSet(out[m]) \union {t} /\ ToSet(in'[m]) \subseteq ToSet(in[m])
    BY <1>1, <1>2, <1>5, <1>11, <2>1 DEF Asking
  <2> QED BY <1>3, <2>1, <2>2 DEF Unasked
<1>16. Streams'
  <2> SUFFICES ASSUME NEW r \in ClientSocks, phase'[r] = "paired" PROVE ToNode(r)' /\ ToClient(r)'
    BY DEF Streams
  <2> DEFINE m == peer[r]
  <2>1. /\ phase[r] = "paired" /\ m \in NodeSocks /\ r \in Socks /\ r # n /\ m # c /\ m \in Socks
        /\ ToNode(r) /\ ToClient(r)
    <3>1. phase[r] = "paired"
      BY <1>6
    <3> QED BY <1>1, <3>1, ClientSession, Names DEF Streams
  <2>2. ~IsFrame(t, r) /\ \A j \in DOMAIN <<>> : ~IsFrame(<<>>[j], r)
    BY <1>2 DEF IsFrame
  <2>3. Passes(out[m], out'[m], r) /\ Passes(out[r], out'[r], r)
    BY <1>1, <1>2, <1>3, <2>1, <2>2 DEF Passes
  <2>4. Skips(in[m], in'[m], r, sock'[r] = "open") /\ Skips(in[r], in'[r], r, sock'[r] = "open" /\ sock'[m] = "open")
    BY <1>3, <2>1, <2>2 DEF Skips
  <2>5. m = n /\ r # c /\ queue[n] # <<>> => sock[r] # "open"
    <3> SUFFICES ASSUME m = n, r # c, queue[n] # <<>> PROVE ~Alive(r)
      BY DEF Alive
    <3>1. Alive(n)
      BY <1>1 DEF Queued
    <3> QED BY <1>4, <2>1, <3>1, ClientSession
  <2>6. Stays(queue[m], queue'[m], r, sock'[r] = "open") /\ Stays(queue[r], queue'[r], r, sock'[r] = "open" /\ sock'[m] = "open")
    BY <1>3, <2>1, <2>2, <2>5 DEF Stays
  <2>7. /\ peer'[r] = m /\ got'[r] = got[r] /\ sent'[r] = sent[r]
        /\ (sock'[r] = "open" => sock[r] = "open") /\ (sock'[m] = "open" => sock[m] = "open")
    BY <1>3, <2>1
  <2> HIDE DEF m
  <2>8. m = peer[r]
    BY DEF m
  <2> QED BY <2>1, <2>3, <2>4, <2>6, <2>7, <2>8, StreamsPass
<1> QED BY <1>8, <1>9, <1>10, <1>12, <1>13, <1>14, <1>15, <1>16 DEF Wires

(* What a step of c's session does to everything but the stream it moves.  *)
Moving(s, d, c, T) ==
  /\ UNCHANGED <<phase, client, peer, pending, externalVars>>
  /\ sock' \in {sock, Closing({c})}
  /\ \/ in' = in
     \/ in[s] # <<>> /\ IsFrame(Head(in[s]), c) /\ in' = [in EXCEPT ![s] = Tail(in[s])]
  /\ \A x \in Socks : x # s => queue'[x] = queue[x]
  /\ \A m \in ToSet(queue'[s]) : IsFrame(m, c)
  /\ T \in Seq(Messages) /\ \A m \in ToSet(T) : IsFrame(m, c)
  /\ \/ out' = out
     \/ sock[d] = "open" /\ out' = [out EXCEPT ![d] = out[d] \o T]

(* The queue of a session holds its frames only.                           *)
LEMMA QueueIsOfSession ==
  ASSUME Sound, Wires, NEW s \in Socks, NEW d, NEW c \in ClientSocks, Between(s, d, c)
  PROVE  (\A m \in ToSet(queue[s]) : IsFrame(m, c)) /\ \A j \in DOMAIN queue[s] : IsFrame(queue[s][j], c)
<1>1. \A m \in ToSet(queue[s]) : m.t = "frame"
  <2>1. queue[s] \in Seq(FrameOf(ClientSocks))
    BY DEF Sound, Traffic
  <2> QED BY <2>1, MessagesOf, Numbers
<1>2. \A m \in ToSet(queue[s]) : m.c = c
  <2>1. s = c \/ (s = peer[c] /\ client[s] = c /\ s \in NodeSocks)
    BY ClientSession DEF Between
  <2> QED BY <2>1 DEF Wires, Queued
<1> QED BY <1>1, <1>2 DEF IsFrame, ToSet

(* A step inside one session keeps the invariant once it keeps the stream  *)
(* it moves.                                                               *)
LEMMA MovingWires ==
  ASSUME Sound, Wires, NEW s \in Socks, NEW d \in Socks, NEW c \in ClientSocks, NEW n \in NodeSocks,
         NEW T, n = peer[c], Between(s, d, c), Moving(s, d, c, T),
         s = c => ToNode(c)', s # c => ToClient(c)'
  PROVE  Wires'
<1> USE DEF Wires
<1>1. /\ \A x \in Socks : in[x] \in Seq(Messages) /\ out[x] \in Seq(Messages) /\ queue[x] \in Seq(Messages)
      /\ NodeSocks \subseteq Socks /\ ClientSocks \subseteq Socks /\ NodeSocks \intersect ClientSocks = {}
  BY InOf, Names DEF Sound, Socks
<1>2. /\ phase[c] = "paired" /\ Alive(s) /\ n \in NodeSocks /\ AtNode(c, n)
      /\ (s = c /\ d = n) \/ (s = n /\ d = c /\ client[n] = c)
      /\ Alive(d) => Alive(c) /\ Alive(n) /\ client[n] = c /\ phase[n] = "paired"
  BY ClientSession DEF Between, AtNode
<1>3. /\ UNCHANGED <<phase, client, peer, pending, view, asked, sent, got, allowed>>
      /\ \A x \in Socks : /\ x # s => in'[x] = in[x] /\ queue'[x] = queue[x]
                          /\ x # d => out'[x] = out[x]
                          /\ x # c => sock'[x] = sock[x]
                          /\ sock'[x] = "open" => sock[x] = "open"
                          /\ Alive(x)' <=> Alive(x)
      /\ \/ in'[s] = in[s]
         \/ in[s] # <<>> /\ IsFrame(Head(in[s]), c) /\ in'[s] = Tail(in[s])
      /\ out'[d] = out[d] \/ (sock[d] = "open" /\ out'[d] = out[d] \o T)
      /\ T \in Seq(Messages) /\ \A m \in ToSet(T) : IsFrame(m, c)
      /\ \A m \in ToSet(queue'[s]) : IsFrame(m, c)
  <2>1. \A x \in Socks : /\ x # c => sock'[x] = sock[x]
                         /\ sock'[x] = "open" => sock[x] = "open"
                         /\ Alive(x)' <=> Alive(x)
    <3>1. CASE sock' = sock
      BY <3>1 DEF Alive
    <3>2. CASE sock' = Closing({c})
      BY <3>2, ClosingSockets DEF Sound, Alive, Closing
    <3> QED BY <3>1, <3>2 DEF Moving
  <2> QED BY <2>1, <1>1 DEF Moving, externalVars, Sound, Traffic
<1>4. /\ \A x \in Socks : ToSet(in'[x]) \subseteq ToSet(in[x])
      /\ ToSet(out'[d]) \subseteq ToSet(out[d]) \union ToSet(T)
      /\ \A m \in ToSet(T) : m.t = "frame" /\ m.c = c /\ ~Tells(m)
  <2>1. in[s] # <<>> => ToSet(Tail(in[s])) \subseteq ToSet(in[s])
    BY <1>1, MessagesOf
  <2>2. ToSet(out[d] \o T) = ToSet(out[d]) \union ToSet(T)
    BY <1>1, <1>3, MessagesOf
  <2> QED BY <1>1, <1>3, <2>1, <2>2 DEF IsFrame, Tells
<1>5. \A r, m : AtNode(r, m) => AtNode(r, m)'
  BY <1>3, AtNodeStays
<1>6. Fresh'
  BY <1>3 DEF Fresh
<1>7. NodeKnows' /\ ClientKnows'
  <2>1. \A m \in NodeSocks : view'[m] = view[m]
    BY <1>3
  <2>2. \A m \in NodeSocks : /\ ToSet(in'[m]) \subseteq ToSet(in[m])
                             /\ ToSet(out'[m]) \subseteq ToSet(out[m]) \/ (m = n /\ m = d)
    BY <1>1, <1>2, <1>3, <1>4
  <2>3. \A r \in ClientSocks : /\ ToSet(in'[r]) \subseteq ToSet(in[r])
                               /\ ToSet(out'[r]) \subseteq ToSet(out[r]) \/ (r = c /\ r = d)
    <3> SUFFICES ASSUME NEW r \in ClientSocks
                 PROVE  /\ ToSet(in'[r]) \subseteq ToSet(in[r])
                        /\ ToSet(out'[r]) \subseteq ToSet(out[r]) \/ (r = c /\ r = d)
      OBVIOUS
    <3>1. r = d => r = c
      BY <1>1, <1>2
    <3> QED BY <1>1, <1>3, <1>4, <3>1
  <2>4. AtNode(c, n)' /\ phase'[c] = "paired"
    BY <1>2, <1>3, <1>5
  <2>5. \A r \in ClientSocks : phase[r] = "paired" => phase'[r] = "paired"
    BY <1>3
  <2> HIDE DEF Wires
  <2>6. NodeKnows /\ ClientKnows
    BY DEF Wires
  <2>7. ASSUME NEW m \in NodeSocks
        PROVE  /\ \A r : r = view'[m] => r \in {view[m], None} \/ AtNode(r, m)'
               /\ \A x \in ToSet(out'[m]) : \/ x \in ToSet(out[m]) \/ x.t \notin {"clientConnected", "frame"}
                                            \/ AtNode(x.c, m)'
               /\ \A x \in ToSet(in'[m]) : x \in ToSet(in[m]) \/ x.t # "frame" \/ AtNode(x.c, m)'
    <3>1. ASSUME NEW x \in ToSet(out'[m]), x \notin ToSet(out[m]) PROVE AtNode(x.c, m)'
      <4>1. m = n /\ m = d /\ x \in ToSet(T)
        BY <1>4, <2>2, <3>1
      <4>2. x.c = c
        BY <1>4, <4>1
      <4> QED BY <2>4, <4>1, <4>2
    <3> QED BY <2>1, <2>2, <3>1
  <2>8. ASSUME NEW r \in ClientSocks, NEW x \in ToSet(in'[r]) \union ToSet(out'[r])
        PROVE  x \in ToSet(in[r]) \union ToSet(out[r]) \/ x.t # "frame" \/ (x.c = r /\ phase'[r] = "paired")
    BY <1>4, <2>3, <2>4, <2>8
  <2> QED BY <1>5, <2>5, <2>6, <2>7, <2>8, KnowsStays
<1>8. Queued'
  <2>1. ASSUME NEW x \in Socks, queue'[x] # <<>> PROVE Alive(x)'
    BY <1>2, <1>3, <2>1 DEF Queued
  <2>2. \A m \in NodeSocks : \A x \in ToSet(queue'[m]) : x.c = client'[m]
    BY <1>1, <1>2, <1>3 DEF Queued, IsFrame
  <2>3. \A r \in ClientSocks : \A x \in ToSet(queue'[r]) : x.c = r
    <3>1. \A r \in ClientSocks : (r = s => r = c) /\ (r # s => queue'[r] = queue[r])
      BY <1>1, <1>2, <1>3
    <3> QED BY <1>3, <3>1 DEF Queued, IsFrame
  <2> QED BY <2>1, <2>2, <2>3 DEF Queued
<1>9. \A m \in NodeSocks : /\ view'[m] = view[m] /\ asked'[m] = asked[m] /\ pending'[m] = pending[m] /\ phase'[m] = phase[m]
                           /\ client'[m] = client[m] /\ Partner(m)' = Partner(m) /\ sock'[m] = sock[m]
                           /\ ToSet(in'[m]) \subseteq ToSet(in[m])
                           /\ \/ out'[m] = out[m]
                              \/ /\ m = n /\ m = d /\ sock[n] = "open" /\ out'[n] = out[n] \o T
                                 /\ Partner(n) = c
  <2> SUFFICES ASSUME NEW m \in NodeSocks
               PROVE  /\ Partner(m)' = Partner(m) /\ sock'[m] = sock[m] /\ ToSet(in'[m]) \subseteq ToSet(in[m])
                      /\ \/ out'[m] = out[m]
                         \/ /\ m = n /\ m = d /\ sock[n] = "open" /\ out'[n] = out[n] \o T
                            /\ Partner(n) = c
    BY <1>3
  <2>1. m # c /\ m \in Socks /\ (m = d => m = n)
    BY <1>1, <1>2
  <2>2. m = d /\ sock[d] = "open" => Partner(n) = c
    BY <1>2, <2>1 DEF Partner, Alive
  <2>3. Partner(m)' = Partner(m)
    BY <1>3 DEF Partner
  <2> QED BY <1>3, <1>4, <2>1, <2>2, <2>3
<1>10. Beliefs'
  <2> SUFFICES ASSUME NEW m \in NodeSocks
               PROVE  /\ \A j \in DOMAIN out'[m] : out'[m][j].t = "frame"
                           => Believes(out'[m], view'[m], j, out'[m][j].c)
                      /\ sock'[m] \in {"none", "open"} => Believes(out'[m], view'[m], Len(out'[m]), Partner(m)')
    BY DEF Beliefs
  <2>1. CASE out'[m] = out[m]
    BY <1>9, <2>1 DEF Beliefs
  <2>2. CASE m = n /\ sock[n] = "open" /\ out'[n] = out[n] \o T /\ Partner(n) = c
    <3> DEFINE o == out[n]
               w == view[n]
    <3>1. /\ \A j \in DOMAIN o : o[j].t = "frame" => Believes(o, w, j, o[j].c)
          /\ Believes(o, w, Len(o), c)
      BY <2>2 DEF Beliefs
    <3>2. o \in Seq(Messages) /\ T \in Seq(Messages) /\ \A x \in ToSet(T) : ~Tells(x) /\ x.c = c
      BY <1>1, <1>3, <1>4, <2>2
    <3>3. view'[n] = w /\ Partner(n)' = c /\ out'[n] = o \o T
      BY <1>9, <2>2
    <3> HIDE DEF o, w
    <3>4. /\ \A j \in DOMAIN o : \A v : Believes(o, w, j, v) => Believes(o \o T, w, j, v)
          /\ \A j \in DOMAIN (o \o T) : \A v : j > Len(o) /\ Believes(o, w, Len(o), v) => Believes(o \o T, w, j, v)
          /\ \A v : Believes(o, w, Len(o), v) => Believes(o \o T, w, Len(o \o T), v)
      BY <3>2, BelievesConcat
    <3>5. \A j \in DOMAIN (o \o T) : \/ j \in DOMAIN o /\ (o \o T)[j] = o[j]
                                     \/ j > Len(o) /\ (o \o T)[j].c = c
      <4>1. /\ DOMAIN (o \o T) = 1 .. Len(o) + Len(T)
            /\ \A j \in 1 .. Len(o) + Len(T) : (o \o T)[j] = IF j <= Len(o) THEN o[j] ELSE T[j - Len(o)]
        BY <3>2, ConcatProperties, LenProperties
      <4>2. Len(o) \in Nat /\ Len(T) \in Nat /\ DOMAIN o = 1 .. Len(o) /\ DOMAIN T = 1 .. Len(T)
        BY <3>2, LenProperties
      <4>3. \A j \in DOMAIN T : T[j].c = c
        BY <3>2 DEF ToSet
      <4> QED BY <4>1, <4>2, <4>3
    <3> QED BY <2>2, <3>1, <3>3, <3>4, <3>5
  <2> QED BY <1>9, <2>1, <2>2
<1>11. PairedHears'
  <2> SUFFICES ASSUME NEW m \in NodeSocks, phase'[m] = "paired"
               PROVE  /\ \A x \in ToSet(in'[m]) : x.t = "frame" => x.c = client'[m]
                      /\ view'[m] \in {None, client'[m]}
                      /\ \A x \in ToSet(out'[m]) : Tells(x) => Says(x) = client'[m]
    BY DEF PairedHears
  <2>1. ToSet(out'[m]) \subseteq ToSet(out[m]) \union ToSet(T)
    BY <1>4, <1>9
  <2> QED BY <1>4, <1>9, <2>1 DEF PairedHears
<1>12. PendingHears'
  <2> SUFFICES ASSUME NEW m \in NodeSocks, sock'[m] = "open", pending'[m] # None
               PROVE  /\ AskedLast(out'[m], pending'[m]) /\ AnsweredLast(in'[m], pending'[m])
                      /\ pending'[m] \in ToSet(asked'[m]) => Silent(m)'
                      /\ \A x \in ToSet(in'[m]) : Answering(x, pending'[m]) => Silent(m)'
    BY DEF PendingHears
  <2>1. sock[m] = "open" /\ pending'[m] = pending[m] /\ m \in Socks
    BY <1>1, <1>9
  <2>2. AskedLast(out'[m], pending[m])
    <3>1. AskedLast(out[m], pending[m]) /\ out[m] \in Seq(Messages)
      BY <1>1, <1>9, <2>1 DEF PendingHears
    <3>2. \A x \in ToSet(T) : ~Tells(x)
      BY <1>4
    <3>3. AskedLast(out[m] \o T, pending[m])
      BY <1>3, <3>1, <3>2, AskedLastSteps
    <3> QED BY <1>9, <3>1, <3>3
  <2>3. AnsweredLast(in'[m], pending[m])
    <3>1. in'[m] = in[m] \/ (in[m] # <<>> /\ in'[m] = Tail(in[m]))
      BY <1>3, <2>1
    <3> QED BY <1>1, <1>9, <2>1, <3>1, AnsweredLastSteps DEF PendingHears
  <2>4. Silent(m) => Silent(m)'
    BY <1>4, <1>9 DEF Silent
  <2> QED BY <1>9, <2>1, <2>2, <2>3, <2>4 DEF PendingHears
<1>13. Unasked'
  <2> SUFFICES ASSUME NEW r \in ClientSocks, NEW m \in NodeSocks, phase'[r] = "handshake"
               PROVE  /\ \A x \in ToSet(out'[m]) : ~Asking(x, r)
                      /\ r \notin ToSet(asked'[m])
                      /\ \A x \in ToSet(in'[m]) : ~Answering(x, r)
    BY DEF Unasked
  <2>1. ToSet(out'[m]) \subseteq ToSet(out[m]) \union ToSet(T) /\ \A x \in ToSet(T) : ~Asking(x, r)
    BY <1>4, <1>9 DEF Asking
  <2> QED BY <1>3, <1>9, <2>1 DEF Unasked
<1>14. Streams'
  <2> SUFFICES ASSUME NEW r \in ClientSocks, phase'[r] = "paired" PROVE ToNode(r)' /\ ToClient(r)'
    BY DEF Streams
  <2>1. /\ phase[r] = "paired" /\ peer[r] \in NodeSocks /\ r \in Socks /\ peer[r] \in Socks
        /\ ToNode(r) /\ ToClient(r)
        /\ peer'[r] = peer[r] /\ got'[r] = got[r] /\ sent'[r] = sent[r]
        /\ (sock'[r] = "open" => sock[r] = "open") /\ (sock'[peer[r]] = "open" => sock[peer[r]] = "open")
    <3>1. phase[r] = "paired"
      BY <1>3
    <3> QED BY <1>1, <1>3, <3>1, ClientSession DEF Streams
  <2>2. CASE r = c
    <3>1. CASE s = c
      <4>1. Passes(out[c], out'[c], c) /\ Stays(queue[n], queue'[n], c, sock'[c] = "open") /\ Skips(in[n], in'[n], c, sock'[c] = "open")
        BY <1>1, <1>2, <1>3, <3>1 DEF Passes, Stays, Skips
      <4>2. ToClient(c)'
        BY <2>1, <2>2, <4>1, ToClientPasses
      <4> QED BY <2>2, <3>1, <4>2
    <3>2. CASE s # c
      <4>1. /\ Passes(out[n], out'[n], c) /\ Stays(queue[c], queue'[c], c, sock'[c] = "open" /\ sock'[n] = "open")
            /\ Skips(in[c], in'[c], c, sock'[c] = "open" /\ sock'[n] = "open")
        BY <1>1, <1>2, <1>3, <3>2 DEF Passes, Stays, Skips
      <4>2. ToNode(c)'
        BY <2>1, <2>2, <4>1, ToNodePasses
      <4> QED BY <2>2, <3>2, <4>2
    <3> QED BY <3>1, <3>2
  <2>3. CASE r # c
    <3> DEFINE m == peer[r]
    <3>1. m = s => sock[r] # "open"
      <4> SUFFICES ASSUME m = s PROVE ~Alive(r)
        BY DEF Alive
      <4>1. s = n /\ client[n] = c
        BY <1>1, <1>2, <2>1
      <4> QED BY <1>2, <2>1, <2>3, <4>1, ClientSession
    <3>2. /\ r # s /\ r # d /\ m # c
      BY <1>1, <1>2, <2>1, <2>3
    <3>3. /\ \A j \in DOMAIN T : ~IsFrame(T[j], r)
          /\ \A j \in DOMAIN queue'[s] : ~IsFrame(queue'[s][j], r)
          /\ in[s] # <<>> /\ IsFrame(Head(in[s]), c) => ~IsFrame(Head(in[s]), r)
      BY <1>3, <2>3 DEF IsFrame, ToSet
    <3>4. Passes(out[m], out'[m], r) /\ Passes(out[r], out'[r], r)
      BY <1>1, <1>3, <2>1, <3>2, <3>3 DEF Passes
    <3>5. Skips(in[m], in'[m], r, sock'[r] = "open") /\ Skips(in[r], in'[r], r, sock'[r] = "open" /\ sock'[m] = "open")
      BY <1>3, <2>1, <3>2, <3>3 DEF Skips
    <3>6. Stays(queue[m], queue'[m], r, sock'[r] = "open") /\ Stays(queue[r], queue'[r], r, sock'[r] = "open" /\ sock'[m] = "open")
      BY <1>3, <2>1, <3>1, <3>2, <3>3 DEF Stays
    <3>7. m = peer[r]
      OBVIOUS
    <3> HIDE DEF m
    <3> QED BY <2>1, <3>4, <3>5, <3>6, <3>7, StreamsPass
  <2> QED BY <2>2, <2>3
<1> QED BY <1>6, <1>7, <1>8, <1>10, <1>11, <1>12, <1>13, <1>14 DEF Wires

(* A frame is forwarded, queued, or dropped with its session.              *)
LEMMA ForwardingWires ==
  ASSUME Sound, Wires, NEW s \in Socks, NEW d \in Socks, NEW c \in ClientSocks,
         Between(s, d, c), Forwarding(s, d, c)
  PROVE  Wires'
<1> DEFINE n == peer[c]
           f == Head(in[s])
<1>1. /\ phase[c] = "paired" /\ n \in NodeSocks /\ c \in Socks /\ n \in Socks
      /\ (s = c /\ d = n) \/ (s = n /\ d = c)
      /\ ToNode(c) /\ ToClient(c) /\ s # d
  BY ClientSession, Names DEF Between, Wires, Streams
<1>2. /\ in[s] \in Seq(Messages) /\ out[d] \in Seq(Messages) /\ queue[s] \in Seq(Messages) /\ out[s] \in Seq(Messages)
      /\ in[s] # <<>> /\ IsFrame(f, c) /\ in' = [in EXCEPT ![s] = Tail(in[s])] /\ in'[s] = Tail(in[s])
      /\ f \in Messages /\ sent[c].client \in Nat /\ sent[c].node \in Nat
  <2>1. in[s] \in Seq(Messages) /\ out[d] \in Seq(Messages) /\ queue[s] \in Seq(Messages) /\ out[s] \in Seq(Messages)
    BY InOf DEF Sound
  <2>2. in[s] # <<>> /\ IsFrame(f, c) /\ in' = [in EXCEPT ![s] = Tail(in[s])] /\ in'[s] = Tail(in[s])
    BY DEF Forwarding, Sound, Traffic
  <2> QED BY <2>1, <2>2, HeadTailProperties DEF Sound, Traffic
<1>3. \A m \in ToSet(queue[s]) : IsFrame(m, c)
  BY QueueIsOfSession
<1>4. UNCHANGED <<phase, client, peer, pending, externalVars>> /\ got' = got /\ sent' = sent
  BY DEF Forwarding, externalVars
<1> HIDE DEF n, f
<1>5. CASE sock' = Closing({c}) /\ UNCHANGED <<queue, out>>
  <2>1. Moving(s, d, c, <<>>)
    <3>1. <<>> \in Seq(Messages) /\ ToSet(<<>>) = {}
      BY <1>2, MessagesOf
    <3> QED BY <1>2, <1>3, <1>4, <1>5, <3>1 DEF Moving, f
  <2>2. /\ sock'[c] # "open" /\ (sock'[n] = "open" => sock[n] = "open")
        /\ Skips(in[s], in'[s], c, FALSE) /\ Passes(out[d], out'[d], c) /\ Stays(queue[s], queue'[s], c, FALSE)
    BY <1>1, <1>2, <1>5, ClosingSockets DEF Sound, Skips, Passes, Stays
  <2>3. s = c => ToNode(c)'
    <3> SUFFICES ASSUME s = c PROVE ToNode(c)'
      OBVIOUS
    <3>1. /\ Passes(out[n], out'[n], c)
          /\ Stays(queue[c], queue'[c], c, sock'[c] = "open" /\ sock'[n] = "open")
          /\ Skips(in[c], in'[c], c, sock'[c] = "open" /\ sock'[n] = "open")
      <4>1. s = c /\ d = n
        BY <1>1
      <4>2. in'[c] = Tail(in[c]) /\ in[c] # <<>> /\ sock'[c] # "open" /\ queue'[c] = queue[c] /\ out'[n] = out[n]
        BY <1>2, <1>5, <2>2, <4>1
      <4> QED BY <4>2 DEF Passes, Stays, Skips
    <3>2. peer'[c] = n /\ got'[c] = got[c] /\ sent'[c] = sent[c] /\ n = peer[c]
      BY <1>4 DEF n
    <3> QED BY <1>1, <2>2, <3>1, <3>2, ToNodePasses
  <2>4. s # c => ToClient(c)'
    <3> SUFFICES ASSUME s # c PROVE ToClient(c)'
      OBVIOUS
    <3>1. /\ Passes(out[c], out'[c], c)
          /\ Stays(queue[n], queue'[n], c, sock'[c] = "open") /\ Skips(in[n], in'[n], c, sock'[c] = "open")
      <4>1. s = n /\ d = c
        BY <1>1
      <4>2. in'[n] = Tail(in[n]) /\ in[n] # <<>> /\ sock'[c] # "open" /\ queue'[n] = queue[n] /\ out'[c] = out[c]
        BY <1>2, <1>5, <2>2, <4>1
      <4> QED BY <4>2 DEF Passes, Stays, Skips
    <3>2. peer'[c] = n /\ got'[c] = got[c] /\ sent'[c] = sent[c] /\ n = peer[c]
      BY <1>4 DEF n
    <3> QED BY <1>1, <2>2, <3>1, <3>2, ToClientPasses
  <2> QED BY <1>1, <2>1, <2>3, <2>4, MovingWires DEF n
<1>6. CASE queue' = [queue EXCEPT ![s] = Append(queue[s], f)] /\ UNCHANGED <<out, sock>>
  <2>1. queue'[s] = Append(queue[s], f) /\ \A x \in Socks : x # s => queue'[x] = queue[x]
    BY <1>6 DEF Sound, Traffic
  <2>2. Moving(s, d, c, <<>>)
    <3>1. <<>> \in Seq(Messages) /\ ToSet(<<>>) = {} /\ ToSet(queue'[s]) = ToSet(queue[s]) \union {f}
      BY <1>2, <2>1, MessagesOf
    <3> QED BY <1>2, <1>3, <1>4, <1>6, <2>1, <3>1 DEF Moving, f
  <2>3. ASSUME NEW G, NEW k \in Nat, NEW w1 \in BOOLEAN, NEW w2 \in BOOLEAN,
               Stream(c, G, out[d], queue[s], in[s], k, w1, w2)
        PROVE  Stream(c, G, out'[d], queue'[s], in'[s], k, w1, w2)
    BY <1>2, <1>6, <2>1, <2>3, StreamForwards DEF f
  <2>4. s = c => ToNode(c)'
    <3> DEFINE w == sock[c] = "open" /\ sock[n] = "open"
    <3> SUFFICES ASSUME s = c PROVE ToNode(c)'
      OBVIOUS
    <3>1. Stream(c, got[c].node, out[d], queue[s], in[s], sent[c].client, sock[c] = "open", w)
      BY <1>1 DEF ToNode, n
    <3>2. w \in BOOLEAN /\ (sock[d] = "open" => (sock[c] = "open" => w))
      BY <1>1
    <3> HIDE DEF w
    <3>3. Stream(c, got[c].node, out'[d], queue'[s], in'[s], sent[c].client, sock[c] = "open", w)
      BY <1>2, <1>6, <2>3, <3>1, <3>2
    <3> QED BY <1>1, <1>4, <1>6, <3>3 DEF ToNode, n, w
  <2>5. s # c => ToClient(c)'
    BY <1>1, <1>2, <1>4, <1>6, <2>3 DEF ToClient, n
  <2> QED BY <1>1, <2>2, <2>4, <2>5, MovingWires DEF n
<1>7. CASE /\ queue[s] = <<>> /\ sock[d] = "open" /\ UNCHANGED <<queue, sock>>
           /\ out' = [out EXCEPT ![d] = Append(out[d], f)]
  <2>1. out'[d] = Append(out[d], f) /\ Append(out[d], f) = out[d] \o <<f>>
    BY <1>2, <1>7, AppendIsConcat DEF Sound, Traffic
  <2>2. Moving(s, d, c, <<f>>)
    <3>1. <<f>> \in Seq(Messages) /\ ToSet(<<f>>) = {f}
      BY <1>2 DEF ToSet
    <3> QED BY <1>2, <1>3, <1>4, <1>7, <2>1, <3>1 DEF Moving, f
  <2>3. ASSUME NEW G, NEW k \in Nat, NEW w1 \in BOOLEAN, NEW w2 \in BOOLEAN, w1 => w2,
               Stream(c, G, out[d], queue[s], in[s], k, w1, w2)
        PROVE  Stream(c, G, out'[d], queue'[s], in'[s], k, w1, w2)
    <3>1. Stream(c, G, Append(out[d], f), queue[s], Tail(in[s]), k, w1, w2)
      <4>1. IsFrame(Head(in[s]), c) /\ queue[s] = <<>> /\ in[s] # <<>>
        BY <1>2, <1>7 DEF f
      <4>2. Stream(c, G, Append(out[d], Head(in[s])), queue[s], Tail(in[s]), k, w1, w2)
        <5> DEFINE O == out[d]
                   Q == queue[s]
                   I == in[s]
        <5>1. /\ O \in Seq(Messages) /\ Q \in Seq(Messages) /\ I \in Seq(Messages) /\ I # <<>> /\ Q = <<>>
              /\ IsFrame(Head(I), c) /\ Stream(c, G, O, Q, I, k, w1, w2)
          BY <1>2, <2>3, <4>1
        <5> HIDE DEF O, Q, I
        <5>2. Stream(c, G, Append(O, Head(I)), Q, Tail(I), k, w1, w2)
          BY <2>3, <5>1, StreamForwards
        <5> QED BY <5>2 DEF O, Q, I
      <4> QED BY <4>2 DEF f
    <3> QED BY <1>2, <1>7, <2>1, <3>1
  <2>4. s = c => ToNode(c)'
    <3> DEFINE w == sock[c] = "open" /\ sock[n] = "open"
    <3> SUFFICES ASSUME s = c PROVE ToNode(c)'
      OBVIOUS
    <3>1. Stream(c, got[c].node, out[d], queue[s], in[s], sent[c].client, sock[c] = "open", w)
      BY <1>1 DEF ToNode, n
    <3>2. w \in BOOLEAN /\ (sock[d] = "open" => (sock[c] = "open" => w))
      BY <1>1
    <3> HIDE DEF w
    <3>3. Stream(c, got[c].node, out'[d], queue'[s], in'[s], sent[c].client, sock[c] = "open", w)
      BY <1>2, <1>7, <2>3, <3>1, <3>2
    <3> QED BY <1>1, <1>4, <1>7, <3>3 DEF ToNode, n, w
  <2>5. s # c => ToClient(c)'
    BY <1>1, <1>2, <1>4, <1>7, <2>3 DEF ToClient, n
  <2> QED BY <1>1, <2>2, <2>4, <2>5, MovingWires DEF n
<1> QED BY <1>5, <1>6, <1>7 DEF Forwarding, f

(* A queue is sent on as far as the socket takes it.                       *)
LEMMA DrainingWires ==
  ASSUME Sound, Wires, NEW s \in Socks, NEW d \in Socks, NEW c \in ClientSocks,
         Between(s, d, c), Draining(s, d, c)
  PROVE  Wires'
<1> DEFINE n == peer[c]
<1>1. /\ phase[c] = "paired" /\ n \in NodeSocks /\ c \in Socks /\ n \in Socks
      /\ (s = c /\ d = n) \/ (s = n /\ d = c)
      /\ ToNode(c) /\ ToClient(c) /\ s # d
  BY ClientSession, Names DEF Between, Wires, Streams
<1>2. /\ in[s] \in Seq(Messages) /\ out[d] \in Seq(Messages) /\ queue[s] \in Seq(Messages)
      /\ sent[c].client \in Nat /\ sent[c].node \in Nat
  <2>1. in[s] \in Seq(Messages) /\ out[d] \in Seq(Messages) /\ queue[s] \in Seq(Messages)
    BY InOf DEF Sound
  <2> QED BY <2>1 DEF Sound, Traffic
<1>3. (\A m \in ToSet(queue[s]) : IsFrame(m, c)) /\ \A j \in DOMAIN queue[s] : IsFrame(queue[s][j], c)
  BY QueueIsOfSession
<1>4. UNCHANGED <<sock, phase, client, peer, pending, in, externalVars>> /\ got' = got /\ sent' = sent
  BY DEF Draining, externalVars
<1> HIDE DEF n
<1>5. CASE sock[d] # "open" /\ queue' = [queue EXCEPT ![s] = <<>>] /\ out' = out
  <2>1. queue'[s] = <<>> /\ \A x \in Socks : x # s => queue'[x] = queue[x]
    BY <1>5 DEF Sound, Traffic
  <2>2. Moving(s, d, c, <<>>)
    <3>1. <<>> \in Seq(Messages) /\ ToSet(<<>>) = {}
      BY <1>2, MessagesOf
    <3> QED BY <1>3, <1>4, <1>5, <2>1, <3>1 DEF Moving
  <2>3. Skips(in[s], in'[s], c, FALSE) /\ Passes(out[d], out'[d], c) /\ Stays(queue[s], queue'[s], c, FALSE)
    BY <1>4, <1>5, <2>1 DEF Skips, Passes, Stays
  <2>4. s = c => ToNode(c)'
    <3> SUFFICES ASSUME s = c PROVE ToNode(c)'
      OBVIOUS
    <3>1. sock'[n] # "open"
      BY <1>1, <1>4, <1>5
    <3> QED BY <1>1, <1>4, <2>3, <3>1, ToNodePasses DEF n
  <2>5. s # c => ToClient(c)'
    <3> SUFFICES ASSUME s # c PROVE ToClient(c)'
      OBVIOUS
    <3>1. sock'[c] # "open"
      BY <1>1, <1>4, <1>5
    <3> QED BY <1>1, <1>4, <2>3, <3>1, ToClientPasses DEF n
  <2> QED BY <1>1, <2>2, <2>4, <2>5, MovingWires DEF n
<1>6. ASSUME NEW k \in 1 .. Len(queue[s]), sock[d] = "open",
             queue' = [queue EXCEPT ![s] = SubSeq(queue[s], k + 1, Len(queue[s]))],
             out' = [out EXCEPT ![d] = out[d] \o SubSeq(queue[s], 1, k)]
      PROVE  Wires'
  <2> DEFINE A == SubSeq(queue[s], 1, k)
             Z == SubSeq(queue[s], k + 1, Len(queue[s]))
  <2>1. /\ A \in Seq(Messages) /\ Z \in Seq(Messages)
        /\ ToSet(A) \subseteq ToSet(queue[s]) /\ ToSet(Z) \subseteq ToSet(queue[s])
    <3>1. queue[s] \in Seq(Messages)
      BY <1>2
    <3> HIDE DEF A, Z
    <3> QED BY <1>6, <3>1, MessagesOfParts DEF A, Z
  <2>2. queue'[s] = Z /\ out'[d] = out[d] \o A /\ \A x \in Socks : x # s => queue'[x] = queue[x]
    BY <1>6 DEF Sound, Traffic
  <2>3. out' = [out EXCEPT ![d] = out[d] \o A]
    BY <1>6
  <2> HIDE DEF A, Z
  <2>4. Moving(s, d, c, A)
    BY <1>3, <1>4, <1>6, <2>1, <2>2, <2>3 DEF Moving
  <2>5. ASSUME NEW G, NEW i \in Nat, NEW w1 \in BOOLEAN, NEW w2 \in BOOLEAN, w1 => w2,
               Stream(c, G, out[d], queue[s], in[s], i, w1, w2)
        PROVE  Stream(c, G, out'[d], queue'[s], in'[s], i, w1, w2)
    <3>1. Stream(c, G, out[d] \o A, Z, in[s], i, w1, w2)
      BY <1>2, <1>3, <1>6, <2>5, StreamDrains DEF A, Z
    <3> QED BY <1>4, <2>2, <3>1
  <2>6. s = c => ToNode(c)'
    BY <1>1, <1>2, <1>4, <1>6, <2>5 DEF ToNode, n
  <2>7. s # c => ToClient(c)'
    BY <1>1, <1>2, <1>4, <1>6, <2>5 DEF ToClient, n
  <2> QED BY <1>1, <2>4, <2>6, <2>7, MovingWires DEF n
<1> QED BY <1>5, <1>6 DEF Draining

(* A socket that connects has only sent its authentication.                *)
LEMMA AcceptWires == ASSUME Sound, Wires, NEW s \in Socks, Accept(s) PROVE Wires'
<1> USE DEF Wires
<1>1. /\ NodeSocks \subseteq Socks /\ ClientSocks \subseteq Socks /\ sock[s] = "none" /\ phase[s] = "handshake"
      /\ UNCHANGED <<phase, client, pending, peer, queue, out, view, asked, sent, got>>
      /\ sock'[s] = "open" /\ in'[s] = <<[t |-> "auth"]>>
      /\ \A x \in Socks : x # s => sock'[x] = sock[x] /\ in'[x] = in[x]
  BY DEF Accept, externalVars, Sound, Relay, Traffic, Sessions, Beginnings, Socks
<1>2. \A x \in Socks : Alive(x) => Alive(x)'
  BY <1>1 DEF Alive
<1>3. \A m \in ToSet(in'[s]) : m.t = "auth"
  BY <1>1 DEF ToSet
<1>4. \A r, m : AtNode(r, m) => AtNode(r, m)'
  BY <1>1, AtNodeStays
<1>5. Fresh'
  BY <1>1 DEF Fresh
<1>6. NodeKnows' /\ ClientKnows'
  BY <1>1, <1>3, <1>4 DEF NodeKnows, ClientKnows
<1>7. Queued'
  BY <1>1, <1>2 DEF Queued
<1>8. Beliefs'
  <2> SUFFICES ASSUME NEW n \in NodeSocks
               PROVE  /\ \A j \in DOMAIN out'[n] : out'[n][j].t = "frame"
                           => Believes(out'[n], view'[n], j, out'[n][j].c)
                      /\ sock'[n] \in {"none", "open"} => Believes(out'[n], view'[n], Len(out'[n]), Partner(n)')
    BY DEF Beliefs
  <2>1. Partner(n)' = Partner(n) /\ (sock'[n] \in {"none", "open"} => sock[n] \in {"none", "open"})
    BY <1>1 DEF Partner
  <2> QED BY <1>1, <2>1 DEF Beliefs
<1>9. PairedHears'
  <2> SUFFICES ASSUME NEW n \in NodeSocks, phase'[n] = "paired"
               PROVE  /\ \A m \in ToSet(in'[n]) : m.t = "frame" => m.c = client'[n]
                      /\ view'[n] \in {None, client'[n]}
                      /\ \A m \in ToSet(out'[n]) : Tells(m) => Says(m) = client'[n]
    BY DEF PairedHears
  <2> QED BY <1>1, <1>3 DEF PairedHears
<1>10. PendingHears'
  <2> SUFFICES ASSUME NEW n \in NodeSocks, sock'[n] = "open", pending'[n] # None
               PROVE  /\ AskedLast(out'[n], pending'[n]) /\ AnsweredLast(in'[n], pending'[n])
                      /\ pending'[n] \in ToSet(asked'[n]) => Silent(n)'
                      /\ \A m \in ToSet(in'[n]) : Answering(m, pending'[n]) => Silent(n)'
    BY DEF PendingHears
  <2>1. n # s
    BY <1>1 DEF Sound, Sessions, SessionsAreMutual
  <2> QED BY <1>1, <2>1 DEF PendingHears, Silent
<1>11. Unasked'
  <2>1. \A c, m : m.t = "auth" => ~Answering(m, c)
    BY DEF Answering
  <2> QED BY <1>1, <1>3, <2>1 DEF Unasked
<1>12. Streams'
  <2> SUFFICES ASSUME NEW r \in ClientSocks, phase'[r] = "paired" PROVE ToNode(r)' /\ ToClient(r)'
    BY DEF Streams
  <2>1. phase[r] = "paired" /\ peer[r] \in NodeSocks /\ ToNode(r) /\ ToClient(r)
    <3>1. phase[r] = "paired"
      BY <1>1
    <3> QED BY <3>1, ClientSession DEF Streams
  <2>2. r # s /\ peer[r] # s
    BY <1>1, <2>1, Peers, Names DEF Sound, Sessions, Beginnings
  <2> QED BY <1>1, <2>1, <2>2 DEF ToNode, ToClient
<1> QED BY <1>5, <1>6, <1>7, <1>8, <1>9, <1>10, <1>11, <1>12 DEF Wires

(* A node sends the next frame to the client it believes in.               *)
LEMMA NodeSendsWires == ASSUME Sound, Wires, NEW n \in NodeSocks, NodeSends(n) PROVE Wires'
<1> USE DEF Wires
<1> DEFINE c == view[n]
           k == sent[c].node + 1
           f == Frame(c, k)
<1>1. /\ UNCHANGED relayVars /\ UNCHANGED <<out, view, asked, got>> /\ sock[n] = "open" /\ c # None
      /\ n \in Socks /\ ClientSocks \subseteq Socks /\ n \notin ClientSocks
      /\ c \in ClientSocks /\ AtNode(c, n)
      /\ in'[n] = Append(in[n], f) /\ \A x \in Socks : x # n => in'[x] = in[x]
      /\ sent' = [sent EXCEPT ![c].node = sent[c].node + 1]
      /\ in[n] \in Seq(Messages)
  BY Names, InOf DEF NodeSends, Sound, Traffic, NodeKnows, AtNode, Socks
<1>2. /\ sent'[c].node = k /\ sent'[c].client = sent[c].client /\ k \in Nat /\ sent[c].node \in Nat
      /\ \A r \in ClientSocks : r # c => sent'[r] = sent[r]
  BY <1>1 DEF Sound, Traffic
<1>3. f \in Messages /\ f.t = "frame" /\ f.c = c
  BY <1>1, <1>2 DEF Messages, FrameOf, Frame
<1> HIDE DEF f
<1>4. ToSet(in'[n]) = ToSet(in[n]) \union {f}
  BY <1>1, <1>3, MessagesOf
<1>5. \A r, m : AtNode(r, m)' <=> AtNode(r, m)
  BY <1>1 DEF AtNode, relayVars
<1>6. Fresh'
  BY <1>1, <1>2 DEF Fresh, relayVars, AtNode
<1>7. NodeKnows'
  BY <1>1, <1>3, <1>4, <1>5 DEF NodeKnows, Socks
<1>8. ClientKnows' /\ Queued'
  BY <1>1 DEF ClientKnows, Queued, relayVars, Alive
<1>9. Beliefs'
  BY <1>1 DEF Beliefs, relayVars, Partner
<1>10. PairedHears'
  <2> SUFFICES ASSUME NEW m \in NodeSocks, phase'[m] = "paired"
               PROVE  /\ \A x \in ToSet(in'[m]) : x.t = "frame" => x.c = client'[m]
                      /\ view'[m] \in {None, client'[m]}
                      /\ \A x \in ToSet(out'[m]) : Tells(x) => Says(x) = client'[m]
    BY DEF PairedHears
  <2>1. phase[m] = "paired" /\ client'[m] = client[m] /\ (m # n => in'[m] = in[m])
    BY <1>1 DEF relayVars, Socks
  <2> QED BY <1>1, <1>3, <1>4, <2>1 DEF PairedHears
<1>11. PendingHears'
  <2> SUFFICES ASSUME NEW m \in NodeSocks, sock'[m] = "open", pending'[m] # None
               PROVE  /\ AskedLast(out'[m], pending'[m]) /\ AnsweredLast(in'[m], pending'[m])
                      /\ pending'[m] \in ToSet(asked'[m]) => Silent(m)'
                      /\ \A x \in ToSet(in'[m]) : Answering(x, pending'[m]) => Silent(m)'
    BY DEF PendingHears
  <2>1. sock[m] = "open" /\ pending'[m] = pending[m] /\ Silent(m)' = Silent(m) /\ (m # n => in'[m] = in[m])
    BY <1>1 DEF relayVars, Socks, Silent
  <2>2. CASE m # n
    BY <1>1, <2>1, <2>2 DEF PendingHears
  <2>3. CASE m = n
    <3>1. ~Silent(n)
      BY <1>1 DEF Silent
    <3>2. \A x \in ToSet(in[n]) : ~Answering(x, pending[n])
      BY <2>1, <2>3, <3>1 DEF PendingHears
    <3>3. ~Answering(f, pending[n])
      BY <1>3 DEF Answering
    <3>4. AnsweredLast(in'[n], pending[n])
      BY <1>1, <1>3, <2>1, <2>3, <3>2, AnsweredLastSteps DEF PendingHears
    <3> QED BY <1>1, <1>4, <2>1, <2>3, <3>2, <3>3, <3>4 DEF PendingHears
  <2> QED BY <2>2, <2>3
<1>12. Unasked'
  <2>1. \A r : ~Answering(f, r)
    BY <1>3 DEF Answering
  <2> QED BY <1>1, <1>4, <2>1 DEF Unasked, relayVars, Socks
<1>13. Streams'
  <2> SUFFICES ASSUME NEW r \in ClientSocks, phase'[r] = "paired" PROVE ToNode(r)' /\ ToClient(r)'
    BY DEF Streams
  <2>1. /\ phase[r] = "paired" /\ peer[r] \in NodeSocks /\ ToNode(r) /\ ToClient(r) /\ sent[r].node \in Nat
        /\ UNCHANGED <<sock, peer, queue, out, got>>
    <3>1. phase[r] = "paired"
      BY <1>1 DEF relayVars
    <3> QED BY <1>1, <3>1, ClientSession DEF Streams, relayVars, Sound, Traffic
  <2>2. ToNode(r)'
    <3>1. in'[r] = in[r] /\ sent'[r].client = sent[r].client
      BY <1>1, <1>2
    <3> QED BY <2>1, <3>1 DEF ToNode
  <2>3. ToClient(r)'
    <3>1. CASE r = c
      <4>1. peer[r] = n
        BY <1>1, <3>1 DEF AtNode
      <4>2. Stream(c, got[c].client, out[c], queue[n], in[n], sent[c].node, sock[c] = "open", sock[c] = "open")
        BY <2>1, <3>1, <4>1 DEF ToClient
      <4>3. Stream(c, got[c].client, out[c], queue[n], in'[n], k, sock[c] = "open", sock[c] = "open")
        <5> DEFINE w == sock[c] = "open"
                   i == sent[c].node
        <5>1. /\ Stream(c, got[c].client, out[c], queue[n], in[n], i, w, w) /\ w \in BOOLEAN
              /\ i \in Nat /\ k = i + 1 /\ c \in ClientSocks /\ in[n] \in Seq(Messages)
          BY <1>1, <1>2, <4>2
        <5> HIDE DEF c, w, k, i
        <5>2. Stream(c, got[c].client, out[c], queue[n], Append(in[n], Frame(c, i + 1)), i + 1, w, w)
          BY <5>1, StreamSends
        <5> QED BY <1>1, <5>1, <5>2 DEF f, w
      <4> QED BY <1>2, <2>1, <3>1, <4>1, <4>3 DEF ToClient
    <3>2. CASE r # c /\ peer[r] = n
      <4>1. ~IsFrame(f, r)
        BY <1>3, <3>2 DEF IsFrame
      <4>2. Stream(r, got[r].client, out[r], queue[n], in[n], sent[r].node, sock[r] = "open", sock[r] = "open")
        BY <2>1, <3>2 DEF ToClient
      <4>3. Stream(r, got[r].client, out[r], queue[n], in'[n], sent[r].node, sock[r] = "open", sock[r] = "open")
        <5> DEFINE w == sock[r] = "open"
                   i == sent[r].node
        <5>1. Stream(r, got[r].client, out[r], queue[n], in[n], i, w, w) /\ w \in BOOLEAN /\ i \in Nat
          BY <2>1, <4>2
        <5> HIDE DEF w, i
        <5>2. Stream(r, got[r].client, out[r], queue[n], Append(in[n], f), i, w, w)
          BY <1>1, <1>3, <4>1, <5>1, StreamSends
        <5> QED BY <1>1, <5>2 DEF w, i
      <4> QED BY <1>2, <2>1, <3>2, <4>3 DEF ToClient
    <3>3. CASE r # c /\ peer[r] # n
      BY <1>1, <1>2, <2>1, <3>3 DEF ToClient, Socks
    <3> QED BY <3>1, <3>2, <3>3
  <2> QED BY <2>2, <2>3
<1> QED BY <1>6, <1>7, <1>8, <1>9, <1>10, <1>11, <1>12, <1>13 DEF Wires

(* A sequence without one of its elements.                                 *)
LEMMA RemovedAt ==
  ASSUME NEW M, NEW S \in Seq(M), NEW k \in DOMAIN S
  PROVE  ToSet(RemoveAt(S, k)) \subseteq ToSet(S) /\ S[k] \in ToSet(S)
<1> DEFINE A == SubSeq(S, 1, k - 1)
           Z == SubSeq(S, k + 1, Len(S))
<1>1. Len(S) \in Nat /\ DOMAIN S = 1 .. Len(S) /\ k \in 1 .. Len(S)
  BY LenProperties
<1>2. Z \in Seq(M) /\ ToSet(Z) \subseteq ToSet(S)
  BY <1>1, MessagesOfParts
<1>3. A \in Seq(M) /\ ToSet(A) \subseteq ToSet(S)
  <2>1. CASE k = 1
    <3>1. A = <<>> /\ <<>> \in Seq(M)
      BY <2>1
    <3>2. ToSet(<<>>) = {}
      BY DEF ToSet
    <3> QED BY <3>1, <3>2
  <2>2. CASE k # 1
    <3>1. k - 1 \in 1 .. Len(S)
      BY <1>1, <2>2
    <3> QED BY <3>1, MessagesOfParts
  <2> QED BY <2>1, <2>2
<1> HIDE DEF A, Z
<1>4. ToSet(A \o Z) = ToSet(A) \union ToSet(Z)
  BY <1>2, <1>3, MessagesOf
<1>5. RemoveAt(S, k) = A \o Z
  BY DEF RemoveAt, A, Z
<1> QED BY <1>2, <1>3, <1>4, <1>5 DEF ToSet

(* A node answers a request.                                               *)
LEMMA NodeAnswersWires ==
  ASSUME Sound, Wires, NEW n \in NodeSocks, NEW k \in 1 .. 2, NodeAnswers(n, k)
  PROVE  Wires'
<1> USE DEF Wires
<1> DEFINE c == asked[n][k]
<1>0. PICK allow \in BOOLEAN : in' = [in EXCEPT ![n] = Append(in[n], [t |-> "result", c |-> c, allow |-> allow])]
  BY DEF NodeAnswers
<1> DEFINE f == [t |-> "result", c |-> c, allow |-> allow]
<1>1. /\ UNCHANGED relayVars /\ UNCHANGED <<out, view, got, sent>> /\ n \in Socks
      /\ in'[n] = Append(in[n], f) /\ \A x \in Socks : x # n => in'[x] = in[x]
      /\ in[n] \in Seq(Messages) /\ k \in DOMAIN asked[n] /\ asked[n] \in Seq(ClientSocks)
      /\ asked'[n] = RemoveAt(asked[n], k) /\ \A m \in NodeSocks : m # n => asked'[m] = asked[m]
  BY <1>0, InOf DEF NodeAnswers, Sound, Traffic, Socks
<1>2. /\ ToSet(asked'[n]) \subseteq ToSet(asked[n]) /\ c \in ToSet(asked[n]) /\ c \in ClientSocks
  BY <1>1, RemovedAt, MessagesOf
<1>3. f \in Messages /\ f.t = "result" /\ f.c = c
  BY <1>2 DEF Messages
<1> HIDE DEF f, c
<1>4. ToSet(in'[n]) = ToSet(in[n]) \union {f}
  BY <1>1, <1>3, MessagesOf
<1>5. \A r, m : AtNode(r, m)' <=> AtNode(r, m)
  BY <1>1 DEF AtNode, relayVars
<1>6. Fresh'
  BY <1>1 DEF Fresh, relayVars
<1>7. NodeKnows'
  BY <1>1, <1>3, <1>4, <1>5 DEF NodeKnows, Socks
<1>8. ClientKnows' /\ Queued'
  <2>1. \A r \in ClientSocks : in'[r] = in[r]
    BY <1>1, Names
  <2> QED BY <1>1, <2>1 DEF ClientKnows, Queued, relayVars, Alive
<1>9. Beliefs'
  BY <1>1 DEF Beliefs, relayVars, Partner
<1>10. PairedHears'
  <2> SUFFICES ASSUME NEW m \in NodeSocks, phase'[m] = "paired"
               PROVE  /\ \A x \in ToSet(in'[m]) : x.t = "frame" => x.c = client'[m]
                      /\ view'[m] \in {None, client'[m]}
                      /\ \A x \in ToSet(out'[m]) : Tells(x) => Says(x) = client'[m]
    BY DEF PairedHears
  <2>1. phase[m] = "paired" /\ client'[m] = client[m] /\ (m # n => in'[m] = in[m])
    BY <1>1 DEF relayVars, Socks
  <2> QED BY <1>1, <1>3, <1>4, <2>1 DEF PairedHears
<1>11. PendingHears'
  <2> SUFFICES ASSUME NEW m \in NodeSocks, sock'[m] = "open", pending'[m] # None
               PROVE  /\ AskedLast(out'[m], pending'[m]) /\ AnsweredLast(in'[m], pending'[m])
                      /\ pending'[m] \in ToSet(asked'[m]) => Silent(m)'
                      /\ \A x \in ToSet(in'[m]) : Answering(x, pending'[m]) => Silent(m)'
    BY DEF PendingHears
  <2>1. sock[m] = "open" /\ pending'[m] = pending[m] /\ Silent(m)' = Silent(m) /\ (m # n => in'[m] = in[m])
    BY <1>1 DEF relayVars, Socks, Silent
  <2>2. CASE m # n
    BY <1>1, <2>1, <2>2 DEF PendingHears
  <2>3. CASE m = n
    <3>1. Answering(f, pending[n]) => Silent(n)
      BY <1>2, <1>3, <2>1, <2>3 DEF Answering, PendingHears
    <3>2. AnsweredLast(in'[n], pending[n])
      BY <1>1, <1>3, <2>1, <2>3, AnsweredLastSteps DEF PendingHears
    <3> QED BY <1>1, <1>2, <1>4, <2>1, <2>3, <3>1, <3>2 DEF PendingHears
  <2> QED BY <2>2, <2>3
<1>12. Unasked'
  <2> SUFFICES ASSUME NEW r \in ClientSocks, NEW m \in NodeSocks, phase'[r] = "handshake"
               PROVE  /\ \A x \in ToSet(out'[m]) : ~Asking(x, r)
                      /\ r \notin ToSet(asked'[m])
                      /\ \A x \in ToSet(in'[m]) : ~Answering(x, r)
    BY DEF Unasked
  <2>1. phase[r] = "handshake" /\ m \in Socks
    BY <1>1 DEF relayVars, Socks
  <2>2. CASE m # n
    BY <1>1, <2>1, <2>2 DEF Unasked
  <2>3. CASE m = n
    <3>1. r # c
      BY <1>2, <2>1 DEF Unasked
    <3> QED BY <1>1, <1>2, <1>3, <1>4, <2>1, <2>3, <3>1 DEF Unasked, Answering
  <2> QED BY <2>2, <2>3
<1>13. Streams'
  <2> SUFFICES ASSUME NEW r \in ClientSocks, phase'[r] = "paired" PROVE ToNode(r)' /\ ToClient(r)'
    BY DEF Streams
  <2>1. /\ phase[r] = "paired" /\ peer[r] \in NodeSocks /\ ToNode(r) /\ ToClient(r) /\ sent[r].node \in Nat
        /\ UNCHANGED <<sock, peer, queue, out, got, sent>> /\ in'[r] = in[r]
    <3>1. phase[r] = "paired" /\ UNCHANGED <<sock, peer, queue, out, got, sent>>
      BY <1>1 DEF relayVars
    <3>2. in'[r] = in[r] /\ sent[r].node \in Nat
      BY <1>1, Names DEF Sound, Traffic
    <3>3. peer[r] \in NodeSocks
      BY <3>1, ClientSession
    <3> QED BY <3>1, <3>2, <3>3 DEF Streams
  <2>2. ToNode(r)'
    BY <2>1 DEF ToNode
  <2>3. ToClient(r)'
    <3>1. CASE peer[r] = n
      <4> DEFINE w == sock[r] = "open"
                 i == sent[r].node
      <4>1. Stream(r, got[r].client, out[r], queue[n], in[n], i, w, w) /\ w \in BOOLEAN /\ i \in Nat
        BY <2>1, <3>1 DEF ToClient
      <4>2. ~IsFrame(f, r)
        BY <1>3 DEF IsFrame
      <4> HIDE DEF w, i
      <4>3. Stream(r, got[r].client, out[r], queue[n], Append(in[n], f), i, w, w)
        BY <1>1, <1>3, <4>1, <4>2, StreamSends
      <4> QED BY <1>1, <2>1, <3>1, <4>3 DEF ToClient, w, i
    <3>2. CASE peer[r] # n
      BY <1>1, <2>1, <3>2 DEF ToClient, Socks
    <3> QED BY <3>1, <3>2
  <2> QED BY <2>2, <2>3
<1> QED BY <1>6, <1>7, <1>8, <1>9, <1>10, <1>11, <1>12, <1>13 DEF Wires

(* A client sends its next frame.                                          *)
LEMMA ClientSendsWires == ASSUME Sound, Wires, NEW c \in ClientSocks, ClientSends(c) PROVE Wires'
<1> USE DEF Wires
<1> DEFINE k == sent[c].client + 1
           f == Frame(c, k)
<1>1. /\ UNCHANGED relayVars /\ UNCHANGED <<out, view, asked, got>> /\ phase[c] = "paired"
      /\ c \in Socks /\ c \notin NodeSocks
      /\ in'[c] = Append(in[c], f) /\ \A x \in Socks : x # c => in'[x] = in[x]
      /\ sent' = [sent EXCEPT ![c].client = sent[c].client + 1]
      /\ in[c] \in Seq(Messages)
  BY Names, InOf DEF ClientSends, Sound, Traffic, Socks
<1>2. /\ sent'[c].client = k /\ sent'[c].node = sent[c].node /\ k \in Nat /\ sent[c].client \in Nat
      /\ \A r \in ClientSocks : r # c => sent'[r] = sent[r]
  BY <1>1 DEF Sound, Traffic
<1>3. f \in Messages /\ f.t = "frame" /\ f.c = c
  BY <1>1, <1>2 DEF Messages, FrameOf, Frame
<1> HIDE DEF f
<1>4. ToSet(in'[c]) = ToSet(in[c]) \union {f}
  BY <1>1, <1>3, MessagesOf
<1>5. \A n \in NodeSocks : in'[n] = in[n]
  BY <1>1 DEF Socks
<1>6. Fresh'
  BY <1>1, <1>2 DEF Fresh, relayVars
<1>7. NodeKnows'
  BY <1>1, <1>5 DEF NodeKnows, AtNode, relayVars
<1>8. ClientKnows' /\ Queued'
  <2>1. ClientKnows'
    <3> SUFFICES ASSUME NEW r \in ClientSocks
                 PROVE  /\ \A m \in ToSet(in'[r]) : m.t = "frame" => (phase'[r] = "paired" /\ m.c = r)
                        /\ \A m \in ToSet(out'[r]) : m.t = "frame" => (phase'[r] = "paired" /\ m.c = r)
      BY DEF ClientKnows
    <3>1. phase'[r] = phase[r] /\ out'[r] = out[r]
      BY <1>1 DEF relayVars
    <3>2. CASE r = c
      BY <1>1, <1>3, <1>4, <3>1, <3>2 DEF ClientKnows
    <3>3. CASE r # c
      <4>1. in'[r] = in[r]
        BY <1>1, <3>3 DEF Socks
      <4> QED BY <3>1, <4>1 DEF ClientKnows
    <3> QED BY <3>2, <3>3
  <2>2. Queued'
    BY <1>1 DEF Queued, relayVars, Alive
  <2> QED BY <2>1, <2>2
<1>9. Beliefs'
  BY <1>1 DEF Beliefs, relayVars, Partner
<1>10. PairedHears' /\ Unasked'
  BY <1>1, <1>5 DEF PairedHears, Unasked, relayVars
<1>11. PendingHears'
  BY <1>1, <1>5 DEF PendingHears, relayVars, Silent
<1>12. Streams'
  <2> SUFFICES ASSUME NEW r \in ClientSocks, phase'[r] = "paired" PROVE ToNode(r)' /\ ToClient(r)'
    BY DEF Streams
  <2>1. /\ phase[r] = "paired" /\ peer[r] \in NodeSocks /\ ToNode(r) /\ ToClient(r)
        /\ UNCHANGED <<sock, peer, queue, out, got>>
    <3>1. phase[r] = "paired"
      BY <1>1 DEF relayVars
    <3> QED BY <1>1, <3>1, ClientSession DEF Streams, relayVars
  <2>2. ToClient(r)'
    <3>1. in'[peer[r]] = in[peer[r]] /\ sent'[r].node = sent[r].node
      BY <1>2, <1>5, <2>1
    <3> QED BY <2>1, <3>1 DEF ToClient
  <2>3. ToNode(r)'
    <3>1. CASE r = c
      <4> DEFINE w1 == sock[c] = "open"
                 w2 == sock[c] = "open" /\ sock[peer[c]] = "open"
                 i == sent[c].client
      <4>1. /\ Stream(c, got[c].node, out[peer[c]], queue[c], in[c], i, w1, w2)
            /\ w1 \in BOOLEAN /\ w2 \in BOOLEAN /\ i \in Nat /\ k = i + 1 /\ in[c] \in Seq(Messages)
        BY <1>1, <1>2, <2>1, <3>1 DEF ToNode
      <4> HIDE DEF w1, w2, i, k
      <4>2. Stream(c, got[c].node, out[peer[c]], queue[c], Append(in[c], Frame(c, i + 1)), i + 1, w1, w2)
        BY <4>1, StreamSends
      <4>3. Append(in[c], Frame(c, i + 1)) = in'[c] /\ i + 1 = sent'[c].client
        BY <1>1, <1>2, <4>1 DEF f
      <4> QED BY <2>1, <3>1, <4>2, <4>3 DEF ToNode, w1, w2
    <3>2. CASE r # c
      BY <1>1, <1>2, <2>1, <3>2 DEF ToNode, Socks
    <3> QED BY <3>1, <3>2
  <2> QED BY <2>2, <2>3
<1> QED BY <1>6, <1>7, <1>8, <1>9, <1>10, <1>11, <1>12 DEF Wires

(* A node reads its messages in the order in which the relay sent them.    *)
LEMMA NodeReadsWires == ASSUME Sound, Wires, NEW n \in NodeSocks, NodeReads(n) PROVE Wires'
<1> USE DEF Wires
<1> DEFINE m == Head(out[n])
           v == IF Tells(m) THEN Says(m) ELSE view[n]
<1>1. /\ UNCHANGED relayVars /\ UNCHANGED <<in, sent>> /\ n \in Socks /\ n \notin ClientSocks
      /\ ClientSocks \subseteq Socks
      /\ out[n] # <<>> /\ out[n] \in Seq(Messages)
      /\ out'[n] = Tail(out[n]) /\ \A x \in Socks : x # n => out'[x] = out[x]
      /\ \A x \in NodeSocks : x # n => view'[x] = view[x] /\ asked'[x] = asked[x]
  BY Names, InOf DEF NodeReads, Take, Sound, Traffic, Socks
<1>2. view'[n] = v
  <2>1. view'[n] = CASE m.t = "clientConnected" -> m.c [] m.t = "clientDisconnected" -> None [] OTHER -> view[n]
    BY DEF NodeReads, Sound, Traffic
  <2> HIDE DEF m
  <2> QED BY <2>1 DEF Tells, Says
<1>3. asked'[n] = IF m.t = "authorizeClient" THEN Append(asked[n], m.c) ELSE asked[n]
  BY DEF NodeReads, Sound, Traffic
<1>4. /\ m = out[n][1] /\ 1 \in DOMAIN out[n] /\ m \in Messages /\ m \in ToSet(out[n])
      /\ ToSet(out'[n]) \subseteq ToSet(out[n]) /\ out'[n] \in Seq(Messages)
      /\ Len(out[n]) \in Nat /\ Len(out[n]) \in DOMAIN out[n] /\ DOMAIN out[n] = 1 .. Len(out[n])
      /\ Len(out'[n]) = Len(out[n]) - 1
      /\ \A j \in DOMAIN out'[n] : j \in Nat /\ j + 1 \in DOMAIN out[n] /\ out'[n][j] = out[n][j + 1]
  BY <1>1, Tails, MessagesOf
<1> HIDE DEF m
<1>5. asked[n] \in Seq(ClientSocks) /\ (m.t = "authorizeClient" => m.c \in ClientSocks)
  BY <1>4 DEF Messages, FrameOf, Sound, Traffic
<1>6. ToSet(asked'[n]) = ToSet(asked[n]) \union (IF m.t = "authorizeClient" THEN {m.c} ELSE {})
  BY <1>3, <1>5, MessagesOf
<1>7. m.t = "frame" => ~Tells(m) /\ view[n] = m.c /\ m.c \in ClientSocks /\ AtNode(m.c, n)
  <2> SUFFICES ASSUME m.t = "frame" PROVE ~Tells(m) /\ view[n] = m.c /\ m.c \in ClientSocks /\ AtNode(m.c, n)
    OBVIOUS
  <2>1. ~Tells(m) /\ AtNode(m.c, n)
    BY <1>4 DEF Tells, NodeKnows
  <2>2. Believes(out[n], view[n], 1, m.c)
    BY <1>4 DEF Beliefs
  <2>3. \A k \in 1 .. 1 : ~Tells(out[n][k])
    BY <1>4, <2>1
  <2>4. view[n] = m.c
    BY <2>2, <2>3, BelievesNow
  <2> QED BY <2>1, <2>4 DEF AtNode
<1>8. /\ \A r \in ClientSocks : ~IsFrame(m, r) => got'[r] = got[r]
      /\ \A r \in ClientSocks : IsFrame(m, r) => got'[r].client = got[r].client /\ got'[r].node = Append(got[r].node, m)
  <2>1. CASE m.t # "frame"
    BY <2>1 DEF NodeReads, IsFrame, m
  <2>2. CASE m.t = "frame"
    <3>1. got' = [got EXCEPT ![m.c].node = Append(@, IF view[n] = m.c THEN m ELSE Frame(None, 0))]
      BY <2>2 DEF NodeReads, m
    <3>2. got' = [got EXCEPT ![m.c].node = Append(got[m.c].node, m)]
      BY <1>7, <2>2, <3>1
    <3>3. /\ got'[m.c].node = Append(got[m.c].node, m) /\ got'[m.c].client = got[m.c].client
          /\ \A r \in ClientSocks : r # m.c => got'[r] = got[r]
      BY <1>7, <2>2, <3>2 DEF Sound, Traffic
    <3> QED BY <2>2, <3>3 DEF IsFrame
  <2> QED BY <2>1, <2>2
<1>9. \A r, x : AtNode(r, x)' <=> AtNode(r, x)
  BY <1>1 DEF AtNode, relayVars
<1>10. Fresh'
  <2>1. \A r \in ClientSocks : phase[r] # "paired" => ~IsFrame(m, r)
    BY <1>7 DEF AtNode, IsFrame
  <2> QED BY <1>1, <1>8, <2>1 DEF Fresh, relayVars
<1>11. NodeKnows'
  <2>1. v # None => AtNode(v, n)
    BY <1>4 DEF NodeKnows, Tells, Says
  <2> HIDE DEF v
  <2> QED BY <1>1, <1>2, <1>4, <1>9, <2>1 DEF NodeKnows, Socks
<1>12. ClientKnows' /\ Queued'
  <2>1. \A r \in ClientSocks : out'[r] = out[r]
    BY <1>1
  <2> QED BY <1>1, <2>1 DEF ClientKnows, Queued, relayVars, Alive
<1>13. Beliefs'
  <2> SUFFICES ASSUME NEW x \in NodeSocks
               PROVE  /\ \A j \in DOMAIN out'[x] : out'[x][j].t = "frame"
                           => Believes(out'[x], view'[x], j, out'[x][j].c)
                      /\ sock'[x] \in {"none", "open"} => Believes(out'[x], view'[x], Len(out'[x]), Partner(x)')
    BY DEF Beliefs
  <2>1. Partner(x)' = Partner(x) /\ sock'[x] = sock[x] /\ (x # n => out'[x] = out[x])
    BY <1>1 DEF Partner, relayVars, Socks
  <2>2. CASE x # n
    BY <1>1, <2>1, <2>2 DEF Beliefs
  <2>3. CASE x = n
    <3>1. \A j \in DOMAIN out[n] : \A w : Believes(out[n], view[n], j, w) => Believes(Tail(out[n]), v, j - 1, w)
      BY <1>1, BelievesTail DEF m
    <3> HIDE DEF v
    <3>2. ASSUME NEW j \in DOMAIN out'[n], out'[n][j].t = "frame"
          PROVE  Believes(out'[n], view'[n], j, out'[n][j].c)
      <4>1. j \in Nat /\ j + 1 \in DOMAIN out[n] /\ out'[n][j] = out[n][j + 1] /\ (j + 1) - 1 = j
        BY <1>4
      <4>2. Believes(out[n], view[n], j + 1, out'[n][j].c)
        BY <3>2, <4>1 DEF Beliefs
      <4> QED BY <1>1, <1>2, <3>1, <4>1, <4>2
    <3>3. sock[n] \in {"none", "open"} => Believes(out'[n], view'[n], Len(out'[n]), Partner(n))
      BY <1>1, <1>2, <1>4, <3>1 DEF Beliefs
    <3> QED BY <2>1, <2>3, <3>2, <3>3
  <2> QED BY <2>2, <2>3
<1>14. PairedHears'
  <2> SUFFICES ASSUME NEW x \in NodeSocks, phase'[x] = "paired"
               PROVE  /\ \A y \in ToSet(in'[x]) : y.t = "frame" => y.c = client'[x]
                      /\ view'[x] \in {None, client'[x]}
                      /\ \A y \in ToSet(out'[x]) : Tells(y) => Says(y) = client'[x]
    BY DEF PairedHears
  <2>1. phase[x] = "paired" /\ client'[x] = client[x] /\ in'[x] = in[x] /\ (x # n => out'[x] = out[x])
    BY <1>1 DEF relayVars, Socks
  <2>2. CASE x # n
    BY <1>1, <2>1, <2>2 DEF PairedHears
  <2>3. CASE x = n
    BY <1>2, <1>4, <2>1, <2>3 DEF PairedHears
  <2> QED BY <2>2, <2>3
<1>15. Silent(n) => view'[n] = None /\ \A y \in ToSet(out'[n]) : ~Tells(y)
  BY <1>2, <1>4 DEF Silent
<1>16. PendingHears'
  <2> SUFFICES ASSUME NEW x \in NodeSocks, sock'[x] = "open", pending'[x] # None
               PROVE  /\ AskedLast(out'[x], pending'[x]) /\ AnsweredLast(in'[x], pending'[x])
                      /\ pending'[x] \in ToSet(asked'[x]) => Silent(x)'
                      /\ \A y \in ToSet(in'[x]) : Answering(y, pending'[x]) => Silent(x)'
    BY DEF PendingHears
  <2>1. sock[x] = "open" /\ pending'[x] = pending[x] /\ in'[x] = in[x] /\ (x # n => out'[x] = out[x])
    BY <1>1 DEF relayVars, Socks
  <2>2. CASE x # n
    <3>1. Silent(x)' = Silent(x)
      BY <1>1, <2>1, <2>2 DEF Silent
    <3> QED BY <1>1, <2>1, <2>2, <3>1 DEF PendingHears
  <2>3. CASE x = n
    <3>0. /\ pending[n] # None /\ sock[n] = "open"
          /\ AskedLast(out[n], pending[n]) /\ AnsweredLast(in[n], pending[n])
          /\ pending[n] \in ToSet(asked[n]) => Silent(n)
          /\ \A y \in ToSet(in[n]) : Answering(y, pending[n]) => Silent(n)
      BY <2>1, <2>3 DEF PendingHears
    <3>1. Asking(m, pending[n]) => Silent(n)
      <4> SUFFICES ASSUME Asking(m, pending[n]) PROVE Silent(n)
        OBVIOUS
      <4>1. ~Tells(m)
        BY DEF Asking, Tells
      <4>2. \A k \in DOMAIN out[n] : ~Tells(out[n][k])
        <5>1. \A k \in DOMAIN out[n] : k = 1 \/ 1 < k
          BY <1>4
        <5>2. Asking(out[n][1], pending[n]) /\ ~Tells(out[n][1])
          BY <1>4, <4>1
        <5> QED BY <1>4, <3>0, <5>1, <5>2 DEF AskedLast
      <4>3. Partner(n) = None
        BY <3>0 DEF Sound, Sessions, SessionsAreMutual, Partner, Alive
      <4>4. Believes(out[n], view[n], Len(out[n]), None)
        BY <3>0, <4>3 DEF Beliefs
      <4>5. view[n] = None
        BY <1>4, <4>2, <4>4, BelievesNow
      <4> QED BY <4>2, <4>5 DEF Silent, ToSet
    <3>2. AskedLast(out'[n], pending[n])
      BY <1>1, <3>0, AskedLastSteps
    <3>3. pending[n] \in ToSet(asked'[n]) => Silent(n)
      BY <1>6, <3>0, <3>1 DEF Asking
    <3>4. Silent(n) => Silent(x)'
      BY <1>15, <2>3 DEF Silent
    <3> QED BY <2>1, <2>3, <3>0, <3>2, <3>3, <3>4
  <2> QED BY <2>2, <2>3
<1>17. Unasked'
  <2> SUFFICES ASSUME NEW r \in ClientSocks, NEW x \in NodeSocks, phase'[r] = "handshake"
               PROVE  /\ \A y \in ToSet(out'[x]) : ~Asking(y, r)
                      /\ r \notin ToSet(asked'[x])
                      /\ \A y \in ToSet(in'[x]) : ~Answering(y, r)
    BY DEF Unasked
  <2>1. phase[r] = "handshake" /\ x \in Socks /\ in'[x] = in[x]
    BY <1>1 DEF relayVars, Socks
  <2>2. CASE x # n
    BY <1>1, <2>1, <2>2 DEF Unasked
  <2>3. CASE x = n
    <3>1. ~Asking(m, r)
      BY <1>4, <2>1 DEF Unasked
    <3> QED BY <1>4, <1>6, <2>1, <2>3, <3>1 DEF Unasked, Asking
  <2> QED BY <2>2, <2>3
<1>18. Streams'
  <2> SUFFICES ASSUME NEW r \in ClientSocks, phase'[r] = "paired" PROVE ToNode(r)' /\ ToClient(r)'
    BY DEF Streams
  <2>1. /\ phase[r] = "paired" /\ peer[r] \in NodeSocks /\ ToNode(r) /\ ToClient(r)
        /\ UNCHANGED <<sock, peer, queue, in, sent>> /\ out'[r] = out[r]
        /\ got[r].node \in Seq(FrameOf(ClientSocks \union {None})) /\ sent[r].client \in Nat
    <3>1. phase[r] = "paired" /\ UNCHANGED <<sock, peer, queue, in, sent>>
      BY <1>1 DEF relayVars
    <3>2. peer[r] \in NodeSocks
      BY <3>1, ClientSession
    <3>3. out'[r] = out[r]
      BY <1>1
    <3>4. got[r].node \in Seq(FrameOf(ClientSocks \union {None})) /\ sent[r].client \in Nat
      BY DEF Sound, Traffic
    <3> QED BY <3>1, <3>2, <3>3, <3>4 DEF Streams
  <2>2. ToClient(r)'
    <3>1. got'[r].client = got[r].client
      BY <1>8
    <3> QED BY <2>1, <3>1 DEF ToClient
  <2>3. ToNode(r)'
    <3>1. CASE peer[r] = n
      <4> DEFINE w1 == sock[r] = "open"
                 w2 == sock[r] = "open" /\ sock[n] = "open"
                 g == got[r].node
                 i == sent[r].client
      <4>1. /\ Stream(r, g, out[n], queue[r], in[r], i, w1, w2)
            /\ w1 \in BOOLEAN /\ w2 \in BOOLEAN /\ i \in Nat /\ out[n] \in Seq(Messages) /\ out[n] # <<>>
            /\ g \in Seq(FrameOf(ClientSocks \union {None}))
        BY <1>1, <2>1, <3>1 DEF ToNode
      <4> HIDE DEF w1, w2, i, g
      <4>2. /\ ~IsFrame(Head(out[n]), r) => Stream(r, g, Tail(out[n]), queue[r], in[r], i, w1, w2)
            /\ IsFrame(Head(out[n]), r) => Stream(r, Append(g, Head(out[n])), Tail(out[n]), queue[r], in[r], i, w1, w2)
        BY <4>1, StreamReads
      <4>3. Stream(r, got'[r].node, out'[n], queue[r], in[r], i, w1, w2)
        BY <1>1, <1>8, <4>2 DEF g, m
      <4> QED BY <2>1, <3>1, <4>3 DEF ToNode, w1, w2, i
    <3>2. CASE peer[r] # n
      <4>1. ~IsFrame(m, r)
        BY <1>7, <3>2 DEF AtNode, IsFrame
      <4>2. got'[r] = got[r] /\ out'[peer[r]] = out[peer[r]]
        BY <1>1, <1>8, <2>1, <3>2, <4>1 DEF Socks
      <4> QED BY <2>1, <4>2 DEF ToNode
    <3> QED BY <3>1, <3>2
  <2> QED BY <2>2, <2>3
<1> QED BY <1>10, <1>11, <1>12, <1>13, <1>14, <1>16, <1>17, <1>18 DEF Wires

(* So does a client.                                                       *)
LEMMA ClientReadsWires == ASSUME Sound, Wires, NEW c \in ClientSocks, ClientReads(c) PROVE Wires'
<1> USE DEF Wires
<1> DEFINE m == Head(out[c])
<1>1. /\ UNCHANGED relayVars /\ UNCHANGED <<in, view, asked, sent>> /\ c \in Socks /\ c \notin NodeSocks
      /\ out[c] # <<>> /\ out[c] \in Seq(Messages)
      /\ out'[c] = Tail(out[c]) /\ \A x \in Socks : x # c => out'[x] = out[x]
      /\ \A r \in ClientSocks : r # c => got'[r] = got[r]
      /\ got'[c].node = got[c].node
      /\ got'[c].client = IF m.t = "frame" THEN Append(got[c].client, m) ELSE got[c].client
  BY Names, InOf DEF ClientReads, Take, Sound, Traffic, Socks
<1>2. m \in ToSet(out[c]) /\ ToSet(out'[c]) \subseteq ToSet(out[c])
  BY <1>1, MessagesOf
<1> HIDE DEF m
<1>3. m.t = "frame" => m.c = c /\ phase[c] = "paired"
  BY <1>2 DEF ClientKnows
<1>4. \A n \in NodeSocks : out'[n] = out[n]
  BY <1>1 DEF Socks
<1>5. Fresh'
  BY <1>1, <1>3 DEF Fresh, relayVars
<1>6. NodeKnows'
  BY <1>1, <1>4 DEF NodeKnows, AtNode, relayVars
<1>7. ClientKnows' /\ Queued'
  <2>1. ClientKnows'
    <3> SUFFICES ASSUME NEW r \in ClientSocks
                 PROVE  /\ \A x \in ToSet(in'[r]) : x.t = "frame" => (x.c = r /\ phase'[r] = "paired")
                        /\ \A x \in ToSet(out'[r]) : x.t = "frame" => (x.c = r /\ phase'[r] = "paired")
      BY DEF ClientKnows
    <3>1. phase'[r] = phase[r] /\ in'[r] = in[r] /\ ToSet(out'[r]) \subseteq ToSet(out[r])
      BY <1>1, <1>2 DEF relayVars, Socks
    <3> QED BY <3>1 DEF ClientKnows
  <2>2. Queued'
    BY <1>1 DEF Queued, relayVars, Alive
  <2> QED BY <2>1, <2>2
<1>8. Beliefs'
  BY <1>1, <1>4 DEF Beliefs, relayVars, Partner
<1>9. PairedHears' /\ Unasked'
  BY <1>1, <1>4 DEF PairedHears, Unasked, relayVars
<1>10. PendingHears'
  BY <1>1, <1>4 DEF PendingHears, relayVars, Silent
<1>11. Streams'
  <2> SUFFICES ASSUME NEW r \in ClientSocks, phase'[r] = "paired" PROVE ToNode(r)' /\ ToClient(r)'
    BY DEF Streams
  <2>1. /\ phase[r] = "paired" /\ peer[r] \in NodeSocks /\ ToNode(r) /\ ToClient(r)
        /\ UNCHANGED <<sock, peer, queue, in, sent>> /\ out'[peer[r]] = out[peer[r]]
    <3>1. phase[r] = "paired" /\ UNCHANGED <<sock, peer, queue, in, sent>>
      BY <1>1 DEF relayVars
    <3>2. peer[r] \in NodeSocks
      BY <3>1, ClientSession
    <3> QED BY <1>4, <3>1, <3>2 DEF Streams
  <2>2. ToNode(r)'
    <3>1. got'[r].node = got[r].node
      BY <1>1
    <3> QED BY <2>1, <3>1 DEF ToNode
  <2>3. ToClient(r)'
    <3>1. CASE r = c
      <4> DEFINE w == sock[c] = "open"
                 g == got[c].client
                 i == sent[c].node
                 q == queue[peer[c]]
                 p == in[peer[c]]
      <4>1. /\ Stream(c, g, out[c], q, p, i, w, w)
            /\ w \in BOOLEAN /\ i \in Nat /\ out[c] \in Seq(Messages) /\ out[c] # <<>>
            /\ g \in Seq(FrameOf(ClientSocks \union {None}))
        <5>1. Stream(c, g, out[c], q, p, i, w, w)
          BY <2>1, <3>1 DEF ToClient
        <5>2. i \in Nat /\ g \in Seq(FrameOf(ClientSocks \union {None}))
          <6>1. got[c].client \in Seq(FrameOf(ClientSocks)) /\ i \in Nat
            BY DEF Sound, Traffic
          <6>2. FrameOf(ClientSocks) \subseteq FrameOf(ClientSocks \union {None})
            BY DEF FrameOf
          <6> QED BY <6>1, <6>2, SeqMonotonic
        <5> QED BY <1>1, <5>1, <5>2
      <4> HIDE DEF w, i, g, q, p
      <4>2. /\ ~IsFrame(Head(out[c]), c) => Stream(c, g, Tail(out[c]), q, p, i, w, w)
            /\ IsFrame(Head(out[c]), c) => Stream(c, Append(g, Head(out[c])), Tail(out[c]), q, p, i, w, w)
        BY <4>1, StreamReads
      <4>3. Stream(c, got'[c].client, out'[c], q, p, i, w, w)
        BY <1>1, <1>3, <4>2 DEF g, m, IsFrame
      <4> QED BY <2>1, <3>1, <4>3 DEF ToClient, w, i, q, p
    <3>2. CASE r # c
      <4>1. got'[r] = got[r] /\ out'[r] = out[r]
        BY <1>1, <3>2 DEF Socks
      <4> QED BY <2>1, <4>1 DEF ToClient
    <3> QED BY <3>1, <3>2
  <2> QED BY <2>2, <2>3
<1> QED BY <1>5, <1>6, <1>7, <1>8, <1>9, <1>10, <1>11 DEF Wires

-----------------------------------------------------------------------------
(* The invariant.                                                          *)
LEMMA WiresBegin == Init => Wires
<1> SUFFICES ASSUME Init PROVE Wires
  OBVIOUS
<1>0. NodeSocks \subseteq Socks /\ ClientSocks \subseteq Socks /\ ToSet(<<>>) = {} /\ Len(<<>>) = 0
  BY Names DEF ToSet
<1>1. /\ \A s \in Socks : phase[s] = "handshake" /\ queue[s] = <<>> /\ in[s] = <<>> /\ out[s] = <<>>
      /\ \A n \in NodeSocks : /\ view[n] = None /\ pending[n] = None /\ asked[n] = <<>>
      /\ \A c \in ClientSocks : /\ sent[c].node = 0 /\ sent[c].client = 0
                                /\ got[c].node = <<>> /\ got[c].client = <<>>
  BY <1>0 DEF Init
<1>2. Fresh /\ PairedHears /\ PendingHears /\ Streams
  BY <1>0, <1>1 DEF Fresh, PairedHears, PendingHears, Streams
<1>3. NodeKnows /\ ClientKnows /\ Queued /\ Unasked
  BY <1>0, <1>1 DEF NodeKnows, ClientKnows, Queued, Unasked
<1>4. Beliefs
  BY <1>0, <1>1 DEF Beliefs, Believes, Partner
<1> QED BY <1>2, <1>3, <1>4 DEF Wires

(* Every step preserves it.                                                *)
LEMMA WiresNext == ASSUME Sound, Wires, [Next]_vars PROVE Wires'
<1>1. ASSUME Session PROVE Wires'
  BY <1>1, ForwardingWires, DrainingWires DEF Session
<1>2. ASSUME EndStep PROVE Wires'
  BY <1>2, NodeReadsWires, NodeSendsWires, NodeAnswersWires, ClientReadsWires, ClientSendsWires DEF EndStep
<1>3. ASSUME NEW n \in NodeSocks, NEW c \in ClientSocks, Pairing(n, c) \/ Requests(n, c) \/ Leaves(n, c)
      PROVE  Wires'
  BY <1>3, PairingWires, RequestsWires, LeavesWires
<1> QED BY <1>1, <1>2, <1>3, CalmWires, AcceptWires, WireSteps

(* Every frame reaches the end it was meant for, in the order in which it  *)
(* was sent, and none is missing while its client is connected: across the *)
(* queues of the relay, back-pressure, and one client following another on *)
(* the connection of a node.                                               *)
THEOREM FramesArrive == Spec => []FramesReachTheirClient
<1>1. IInv => Sound
  BY DEF IInv, Sound, Sessions
<1>2. Init => Wires
  BY WiresBegin
<1>3. IInv /\ Wires /\ [Next]_vars => Wires'
  BY <1>1, WiresNext
<1>4. IInv /\ Wires => FramesReachTheirClient
  <2> SUFFICES ASSUME IInv, Wires, NEW c \in ClientSocks
               PROVE  /\ InOrder(got[c].client, c) /\ InOrder(got[c].node, c)
                      /\ sock[c] = "open" => NoGap(got[c].client) /\ NoGap(got[c].node)
    BY DEF FramesReachTheirClient
  <2>1. CASE phase[c] # "paired"
    <3>1. got[c].node = <<>> /\ got[c].client = <<>>
      BY <2>1 DEF Wires, Fresh
    <3> QED BY <3>1 DEF InOrder, NoGap
  <2>2. CASE phase[c] = "paired"
    <3>1. ToNode(c) /\ ToClient(c)
      BY <2>2 DEF Wires, Streams
    <3>2. sent[c].node \in Nat /\ sent[c].client \in Nat
      BY DEF IInv, Traffic
    <3> DEFINE w1 == sock[c] = "open"
               w2 == sock[c] = "open" /\ sock[peer[c]] = "open"
               i == sent[c].node
               j == sent[c].client
    <3>3. /\ Stream(c, got[c].node, out[peer[c]], queue[c], in[c], j, w1, w2)
          /\ Stream(c, got[c].client, out[c], queue[peer[c]], in[peer[c]], i, w1, w1)
          /\ w1 \in BOOLEAN /\ w2 \in BOOLEAN /\ i \in Nat /\ j \in Nat
      BY <3>1, <3>2 DEF ToNode, ToClient
    <3> HIDE DEF w1, w2, i, j
    <3>4. InOrder(got[c].node, c) /\ (w1 => NoGap(got[c].node))
      BY <3>3, StreamIsInOrder
    <3>5. InOrder(got[c].client, c) /\ (w1 => NoGap(got[c].client))
      BY <3>3, StreamIsInOrder
    <3> QED BY <3>4, <3>5 DEF w1
  <2> QED BY <2>1, <2>2
<1> QED BY <1>2, <1>3, <1>4, Invariance, PTL DEF Spec
=============================================================================
