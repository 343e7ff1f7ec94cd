--------------------------- MODULE RelayedTransfer ---------------------------
(* Messages of one relayed business connection, from SendMessage to the      *)
(* receiving application and back to the sender as acknowledgements.         *)
(*                                                                           *)
(*   callee: a TcpStream over EndpointFrameMux, which shares the carriers    *)
(*           of the registration (KCP and TCP);                              *)
(*   relay:  DualFrameRelayEndpoint on the carriers, the route registry with *)
(*           its two pumps, and the endpoint of the client's leg;            *)
(*   client: a DualStream that has one leg at a time, a TcpStream each.      *)
(*                                                                           *)
(* Every hop numbers messages itself. A carrier or leg is a FIFO; frames are *)
(* lost with the carrier they are on, or when the callee's queue overflows.  *)
(* A message is <<direction, record number>>; numbers are given in the order *)
(* of sending by the end-to-end sealing.                                     *)
EXTENDS ReplayWindow, Sequences, Functions, FiniteSets

CONSTANTS
    DownCount,       \* messages from the callee to the client
    UpCount,         \* messages from the client to the callee
    Total,           \* number of frames of each message
    Workloads,       \* what is sent and how much goes wrong (see NewSend)
    Carriers,        \* carriers of the registration, in the order of legIDOrder
    KCP              \* those of the KCP family

Down == {"down"} \X (1..DownCount)
Up == {"up"} \X (1..UpCount)
Messages == Down \union Up

ASSUME TransferAssumption ==
    /\ DownCount \in Nat /\ UpCount \in Nat
    /\ Total \in [Messages -> Nat \ {0}]
    /\ \A w \in Workloads :
          /\ DOMAIN w.sends \subseteq Messages
          /\ \A m \in DOMAIN w.sends : w.sends[m] \in [sends : Nat, retransmits : Nat]
          /\ w.losses \in Nat /\ w.drops \in Nat /\ w.evictions \in Nat
    /\ Carriers \subseteq Nat \ {0} /\ KCP \subseteq Carriers

VARIABLES
    send,       \* SendMessage of each message: pc, frame id, acked, attempts
    callee,     \* TcpStream of the connection on the callee, mux queues
    client,     \* the client's DualStream and the TcpStream of its leg
    up, down,   \* carriers: frames to the relay, frames to the callee
    toRelay, toClient,  \* the client's leg
    alive,      \* attached carriers
    relay,      \* routes of the relay endpoint and its id generators
    pairs,      \* frameRouteRegistry
    given,      \* times the application received each message
    reached,    \* frames that a receiving TcpStream has been handed
    paths       \* carrier and leg the relay has bound each message to

vars == <<send, callee, client, up, down, toRelay, toClient, alive, relay,
          pairs, given, reached, paths>>

history == <<given, reached, paths>>

AllFrames(m) == 0..(Total[m] - 1)
Data(mid, m, seq) == [type |-> "data", mid |-> mid, msg |-> m, seq |-> seq]
Ack(mid, total, got) == [type |-> "ack", mid |-> mid, total |-> total, got |-> got]

(* isFullFrameAck: the ranges of the acknowledgement cover the message. *)
FullAck(f) == f.type = "ack" /\ f.got = 0..(f.total - 1)

FirstFrame(f) == f.type = "data" /\ f.seq = 0

(* The i-th smallest number of a set. *)
Nth(S, i) == CHOOSE n \in S : Cardinality({x \in S : x <= n}) = i

(* The frames of m with the given sequence numbers, in order. *)
FramesOf(mid, m, seqs) ==
    [i \in 1..Cardinality(seqs) |-> Data(mid, m, Nth(seqs, i))]

-----------------------------------------------------------------------------
(* TcpStream, the parts both ends share.                                     *)

NewStream == [gen |-> 0, asm |-> {}, delivered |-> {}, due |-> {}]

Assembled(s, mid) == {e \in s.asm : e.mid = mid}

(* FrameAssembler.Add: the first frame with a sequence number is kept. *)
AddFrame(s, f) ==
    IF \E e \in Assembled(s, f.mid) : e.seq = f.seq
    THEN s.asm
    ELSE s.asm \union {[mid |-> f.mid, msg |-> f.msg, seq |-> f.seq]}

(* A frame whose total differs from the one of the frames it would join. *)
TotalsDisagree(s, f) == \E e \in Assembled(s, f.mid) : Total[e.msg] # Total[f.msg]

(* What handleData does with a frame: nothing but acknowledge it, keep it,   *)
(* complete a message, or fail the stream. A message made of frames of       *)
(* different records cannot be decrypted.                                    *)
Verdict(s, f) ==
    LET parts == {e \in AddFrame(s, f) : e.mid = f.mid}
    IN CASE f.mid \in s.delivered -> "again"
         [] f.mid \notin s.delivered /\ TotalsDisagree(s, f) -> "fail"
         [] f.mid \notin s.delivered /\ ~TotalsDisagree(s, f)
            /\ Cardinality(parts) < Total[f.msg] -> "part"
         [] f.mid \notin s.delivered /\ ~TotalsDisagree(s, f)
            /\ Cardinality(parts) = Total[f.msg] ->
                IF \A e \in parts : e.msg = f.msg THEN "whole" ELSE "fail"

(* assembler, recvTrackers and delivered after the frame. *)
AfterData(s, f) ==
    CASE Verdict(s, f) = "part" ->
            [s EXCEPT !.asm = AddFrame(s, f), !.due = @ \union {f.mid}]
      [] Verdict(s, f) = "whole" ->
            [s EXCEPT !.asm = @ \ Assembled(s, f.mid),
                      !.delivered = @ \union {f.mid}, !.due = @ \ {f.mid}]
      [] OTHER -> s

(* The acknowledgement of a whole message; a part waits for recvAckTimer. *)
Acknowledgement(s, f) ==
    IF Verdict(s, f) \in {"again", "whole"}
    THEN <<Ack(f.mid, Total[f.msg], AllFrames(f.msg))>> ELSE <<>>

\* The timer acknowledges the whole message.
PartialAckAsFull(s, mid) ==
    LET first == CHOOSE e \in Assembled(s, mid) : TRUE
    IN Ack(mid, Total[first.msg], AllFrames(first.msg))

(* recvAckTimer: the acknowledgement of what has arrived of a message. It is *)
(* sent once for each frame that arrives (due); the timer also repeats it,   *)
(* which tells the sender nothing new.                                       *)
PartialAck(s, mid) ==
    LET parts == Assembled(s, mid)
        first == CHOOSE e \in parts : TRUE
    IN Ack(mid, Total[first.msg], {e.seq : e \in parts})

(* handleAck: the tracker of the pending message with that id.               *)
Acked(senders, f) ==
    [m \in Messages |->
        IF m \in senders /\ send[m].pc = "wait" /\ send[m].mid = f.mid
        THEN LET got == send[m].acked \union f.got
             IN [send[m] EXCEPT !.acked = got,
                     !.pc = IF Cardinality(got) >= Total[m] THEN "ok" ELSE @]
        ELSE send[m]]

(* An application receives the record unless the window has seen it. *)
Give(window, f) ==
    given' = [given EXCEPT ![f.msg] = IF duplicate(window, f.msg[2]) THEN @ ELSE @ + 1]

Missing(m) == AllFrames(m) \ send[m].acked

(* Records are sealed in the order of their numbers. *)
Sealed(m) == \A n \in Messages : n[1] = m[1] /\ n[2] < m[2] => send[n].pc # "new"

-----------------------------------------------------------------------------
(* The callee: SendMessage on a TcpStream, EndpointFrameMux.                 *)

CalleeSend(m) ==
    /\ callee.open /\ m \in Down /\ send[m].pc = "new" /\ Sealed(m)
    /\ send' = [send EXCEPT ![m] = [@ EXCEPT !.pc = "wait", !.mid = callee.gen + 1]]
    /\ callee' = [callee EXCEPT !.gen = @ + 1,
                    !.out = @ \o FramesOf(callee.gen + 1, m, AllFrames(m))]
    /\ UNCHANGED <<client, up, down, toRelay, toClient, alive, relay,
                   pairs, history>>

(* waitAck without progress: the missing frames are written once more, or    *)
(* SendMessage returns ErrMessageMaxRetransmits.                             *)
CalleeTimeout(m) ==
    /\ callee.open /\ m \in Down /\ send[m].pc = "wait"
    /\ IF send[m].tries > 0
       THEN /\ send' = [send EXCEPT ![m].tries = @ - 1]
            /\ callee' = [callee EXCEPT !.out =
                            @ \o FramesOf(send[m].mid, m, Missing(m))]
       ELSE /\ send' = [send EXCEPT ![m].pc = "failed"]
            /\ UNCHANGED callee
    /\ UNCHANGED <<client, up, down, toRelay, toClient, alive, relay,
                   pairs, history>>

(* writeLoop: each data frame goes to the carrier preferred at that moment,  *)
(* which setPreferred and maintainCarrierQuality may change at any time.     *)
MuxWrite(k) ==
    /\ callee.open /\ callee.out # <<>> /\ k \in alive
    /\ up' = [up EXCEPT ![k] = Append(@, Head(callee.out))]
    /\ callee' = [callee EXCEPT !.out = Tail(@)]
    /\ UNCHANGED <<send, client, down, toRelay, toClient, alive, relay,
                   pairs, history>>

(* The connection ends: failAndClose of a stream whose frames do not form a  *)
(* message. Pending sends return the error.                                  *)
ConnectionFails ==
    /\ callee' = [callee EXCEPT !.open = FALSE]
    /\ send' = [m \in Messages |->
                  IF send[m].pc = "wait" THEN [send[m] EXCEPT !.pc = "failed"]
                  ELSE send[m]]

(* dispatchFromAdapter and handleFrame on the callee, one step: the queue    *)
(* between the two (muxConn.push) is part of the carrier's, and a full       *)
(* acknowledgement forgets the inbound route as it is written                *)
(* (completeInboundRoute).                                                   *)
CalleeReceive(k) ==
    /\ callee.open /\ down[k] # <<>>
    /\ down' = [down EXCEPT ![k] = Tail(@)]
    /\ LET f == Head(down[k])
       IN \/ /\ f.type = "ack"
             /\ send' = Acked(Down, f)
             /\ UNCHANGED <<callee, up, history>>
          \/ /\ f.type = "data"
             /\ reached' = reached \union {<<f.msg, f.seq>>}
             /\ UNCHANGED paths
             /\ LET verdict == Verdict(callee.stream, f)
                    reply == Acknowledgement(callee.stream, f)
                IN IF verdict = "fail"
                   THEN ConnectionFails /\ UNCHANGED <<up, given>>
                   ELSE /\ callee' = [callee EXCEPT
                              !.stream = AfterData(@, f),
                              !.window = IF verdict = "whole"
                                         THEN observe(@, f.msg[2]) ELSE @,
                              !.inbound = {i \in @ : i[1] # f.mid}
                                 \union IF reply = <<>> THEN {<<f.mid, k>>} ELSE {}]
                        /\ IF verdict = "whole" THEN Give(callee.window, f)
                           ELSE UNCHANGED given
                        /\ up' = [up EXCEPT ![k] = @ \o reply]
                        /\ UNCHANGED send
    /\ UNCHANGED <<client, toRelay, toClient, alive, relay, pairs>>

(* recvAckTimer on the callee: the acknowledgement takes the carrier that    *)
(* the message's last frame came on; if that is gone, the preferred one.     *)
CalleePartialAck(mid, k) ==
    /\ callee.open /\ mid \in callee.stream.due /\ k \in alive
    /\ \A i \in callee.inbound : i[1] = mid => i[2] = k
    /\ callee' = [callee EXCEPT !.stream.due = @ \ {mid}]
    /\ up' = [up EXCEPT ![k] = Append(@, PartialAck(callee.stream, mid))]
    /\ UNCHANGED <<send, client, down, toRelay, toClient, alive, relay,
                   pairs, history>>

(* muxConn.push at muxConnMaxQueue: the oldest frame is dropped. *)
MuxOverflow(k) ==
    /\ callee.open /\ down[k] # <<>> /\ callee.drops > 0
    /\ down' = [down EXCEPT ![k] = Tail(@)]
    /\ callee' = [callee EXCEPT !.drops = @ - 1]
    /\ UNCHANGED <<send, client, up, toRelay, toClient, alive, relay,
                   pairs, history>>

-----------------------------------------------------------------------------
(* The relay: DualFrameRelayEndpoint on the carriers. A route belongs to a   *)
(* logical id; a source route answers data that came in on a carrier.        *)

RouteIds == DOMAIN relay.routes
(* incomingIDs: the logical id of data frames with this id on the carrier. *)
IncomingIds(k, mid) ==
    {l \in RouteIds : LET r == relay.routes[l] IN r.source /\ r.k = k /\ r.mid = mid}
(* ackIDs: the logical id of acknowledgements with this id on the carrier. *)
AckIds(k, mid) == {a.l : a \in {x \in relay.ackIDs : x.k = k /\ x.mid = mid}}

WithRoute(routes, l, r) ==
    [i \in DOMAIN routes \union {l} |-> IF i = l THEN r ELSE routes[i]]

(* completeRouteLocked: the cached frames are released. *)
Completed(r, l, f) ==
    IF FullAck(f) THEN [r EXCEPT !.routes[l].done = TRUE, !.routes[l].cached = {}] ELSE r

PairOf(l) == {p \in pairs : p.relayID = l}
(* The client endpoint has one leg, so that its logical ids are the leg's    *)
(* own frame ids, one sequence in each direction.                            *)
ClientPair(dir, mid) == {p \in pairs : p.dir = dir /\ p.mid = mid}

MarkDone(p, f) ==
    pairs' = (pairs \ {p}) \union {[p EXCEPT !.done = @ \/ FullAck(f)]}

(* pumpRelayToClients on a frame with its logical id. A frame that belongs   *)
(* to no pair binds one, whatever its type and sequence number; without a    *)
(* client it is dropped. The client endpoint drops an acknowledgement for    *)
(* which it has no route. r is the relay state after collect.                *)
PumpToClient(r, l, f, k) ==
    \/ /\ ~client.connected
       /\ relay' = r
       /\ UNCHANGED <<pairs, toClient, paths>>
    \/ /\ client.connected
       /\ LET known == PairOf(l)
              p == IF known # {} THEN CHOOSE x \in known : TRUE
                   ELSE [relayID |-> l, dir |-> "down", mid |-> r.legGen + 1,
                         done |-> FALSE]
          IN /\ relay' = IF known # {} THEN r ELSE [r EXCEPT !.legGen = @ + 1]
             /\ MarkDone(p, f)
             /\ IF f.type = "ack" /\ p.dir = "down"
                THEN UNCHANGED toClient
                ELSE toClient' = Append(toClient, [f EXCEPT !.mid = p.mid])
             /\ paths' = IF f.type = "data"
                         THEN paths \union {<<f.msg, k, client.leg>>} ELSE paths

(* collect and pumpRelayToClients on the next frame of a carrier. *)
RelayToClient(k) ==
    /\ callee.open /\ k \in alive /\ up[k] # <<>>
    /\ up' = [up EXCEPT ![k] = Tail(@)]
    /\ LET f == Head(up[k])
       IN \/ /\ f.type = "data"
             /\ LET known == IncomingIds(k, f.mid)
                    l == IF known # {} THEN CHOOSE x \in known : TRUE
                         ELSE relay.logicalGen + 1
                    r == IF known # {} THEN relay
                         ELSE [relay EXCEPT !.logicalGen = @ + 1,
                                 !.routes = WithRoute(@, l, [k |-> k, mid |-> f.mid,
                                    source |-> TRUE, done |-> FALSE, cached |-> {}])]
                IN PumpToClient(r, l, f, k)
          \/ /\ f.type = "ack"
             /\ LET known == AckIds(k, f.mid)
                IN \/ known = {} /\ UNCHANGED <<relay, pairs, toClient, paths>>
                   \/ \E l \in known : PumpToClient(Completed(relay, l, f), l, f, k)
    /\ UNCHANGED <<send, callee, client, down, toRelay, alive, given, reached>>

(* handleFrameRun of the carrier endpoint on a frame with its logical id: a  *)
(* new message takes the preferred carrier and a fresh id there; data is     *)
(* cached until the route is complete.                                       *)
HandleFrame(r, l, f) ==
    \/ /\ l \notin RouteIds /\ f.type = "ack"
       /\ relay' = r /\ UNCHANGED <<down, paths>>
    \/ /\ l \notin RouteIds /\ f.type = "data"
       /\ \E k \in alive :
            LET mid == r.carrierGen[k] + 1
            IN
             /\ relay' = [r EXCEPT
                    !.carrierGen[k] = mid,
                    !.routes = WithRoute(@, l, [k |-> k, mid |-> mid, source |-> FALSE,
                        done |-> FALSE, cached |-> {<<f.msg, f.seq>>}]),
                    !.ackIDs = @ \union {[k |-> k, mid |-> mid, l |-> l]}]
             /\ down' = [down EXCEPT ![k] = Append(@, [f EXCEPT !.mid = mid])]
             /\ paths' = paths \union {<<f.msg, k, client.leg>>}
    \/ /\ l \in RouteIds
       /\ LET route == r.routes[l]
              kept == IF f.type = "data" /\ ~route.done
                      THEN [r EXCEPT !.routes[l].cached = @ \union {<<f.msg, f.seq>>}]
                      ELSE r
          IN /\ relay' = Completed(kept, l, f)
             /\ down' = [down EXCEPT ![route.k] = Append(@, [f EXCEPT !.mid = route.mid])]
             /\ paths' = IF f.type = "data"
                         THEN paths \union {<<f.msg, route.k, client.leg>>} ELSE paths

(* pumpClientToRelay on the next frame of the client's leg: an unknown       *)
(* frame binds a pair only when it is the first frame of a message.          *)
RelayToCallee ==
    /\ callee.open /\ client.connected /\ toRelay # <<>>
    /\ toRelay' = Tail(toRelay)
    /\ LET f == Head(toRelay)
           known == ClientPair(IF f.type = "data" THEN "up" ELSE "down", f.mid)
       IN \/ /\ known = {} /\ ~FirstFrame(f)
             /\ UNCHANGED <<relay, pairs, down, paths>>
          \/ /\ known = {} /\ FirstFrame(f)
             /\ LET l == relay.logicalGen + 1
                IN /\ pairs' = pairs \union {[relayID |-> l, dir |-> "up",
                                              mid |-> f.mid, done |-> FALSE]}
                   /\ HandleFrame([relay EXCEPT !.logicalGen = l], l, f)
          \/ \E p \in known : MarkDone(p, f) /\ HandleFrame(relay, p.relayID, f)
    /\ UNCHANGED <<send, callee, client, up, toClient, alive, given, reached>>

(* bindPair at maxPairs evicts a completed pair. *)
EvictPair(p) ==
    /\ callee.open /\ p \in pairs /\ p.done /\ relay.evictions > 0
    /\ pairs' = pairs \ {p}
    /\ relay' = [relay EXCEPT !.evictions = @ - 1]
    /\ UNCHANGED <<send, callee, client, up, down, toRelay, toClient, alive,
                   history>>

(* The frames a route has cached, in order, under the id of its new carrier. *)
Replay(route, mid) ==
    LET m == (CHOOSE c \in route.cached : TRUE)[1]
    IN IF route.cached = {} THEN <<>>
       ELSE FramesOf(mid, m, {c[2] : c \in route.cached})

(* Frames to be replayed once the lock of the endpoint is released. *)
Job(l, k, mid, quality) ==
    [l |-> l, k |-> k, mid |-> mid, frames |-> Replay(relay.routes[l], mid),
     quality |-> quality]

(* The messages of the routes have been bound to the carrier. *)
Bound(routes, k) ==
    paths' = paths \union {<<c[1], k, client.leg>> :
                c \in UNION {relay.routes[l].cached : l \in routes}}

(* onLegDetached: source routes and completed routes of the carrier go, the  *)
(* other ones move, in any order, to a carrier that is left, to be replayed  *)
(* there. The callee's mux forgets the carrier.                              *)
LoseCarrier(k, target) ==
    /\ callee.open /\ k \in alive /\ target \in alive \ {k}
    /\ alive' = alive \ {k}
    /\ LET onCarrier == {l \in RouteIds : relay.routes[l].k = k}
           moved == {l \in onCarrier : ~relay.routes[l].source /\ ~relay.routes[l].done}
           left == (RouteIds \ onCarrier) \union moved
       IN /\ Bound(moved, target)
          /\ \E rank \in Bijection(moved, 1..Cardinality(moved)) :
            LET mid(l) == relay.carrierGen[target] + rank[l]
            IN relay' = [relay EXCEPT
                !.carrierGen[target] = @ + Cardinality(moved),
                !.routes = [l \in left |->
                    IF l \in moved
                    THEN [relay.routes[l] EXCEPT !.k = target, !.mid = mid(l)]
                    ELSE relay.routes[l]],
                !.ackIDs = {a \in @ : a.k # k /\ a.l \in left}
                    \union {[k |-> target, mid |-> mid(l), l |-> l] : l \in moved},
                !.jobs = {job \in @ : job.k # k}
                    \union {Job(l, target, mid(l), FALSE) : l \in moved}]
    /\ up' = [up EXCEPT ![k] = <<>>]
    /\ down' = [down EXCEPT ![k] = <<>>]
    /\ callee' = [callee EXCEPT !.inbound = {i \in @ : i[2] # k}]
    /\ UNCHANGED <<send, client, toRelay, toClient, pairs, given, reached>>

(* prepareQualityReplayLocked: a message that KCP has not acknowledged in    *)
(* time is bound to the TCP carrier, to be replayed. Its old id stays known, *)
(* so that acknowledgements of either copy count.                            *)
QualityReplay(l) ==
    /\ callee.open /\ l \in RouteIds
    /\ LET route == relay.routes[l]
       IN /\ ~route.source /\ ~route.done /\ route.k \in KCP
          /\ \E c \in route.cached : c[2] + 1 = Total[c[1]]
          /\ \E k \in alive \ KCP :
                LET mid == relay.carrierGen[k] + 1
                IN /\ relay' = [relay EXCEPT !.carrierGen[k] = mid,
                          !.routes[l] = [@ EXCEPT !.k = k, !.mid = mid],
                          !.ackIDs = @ \union {[k |-> k, mid |-> mid, l |-> l]},
                          !.jobs = @ \union {Job(l, k, mid, TRUE)}]
                   /\ Bound({l}, k)
    /\ UNCHANGED <<send, callee, client, up, down, toRelay, toClient, alive,
                   pairs, given, reached>>

(* A replay for quality is given up when its route is complete or has moved  *)
(* on (writeQualityReplayJob).                                               *)
Obsolete(job) ==
    /\ job.quality
    /\ \/ job.l \notin RouteIds
       \/ LET route == relay.routes[job.l]
          IN route.done \/ route.k # job.k \/ route.mid # job.mid

(* The next frame of a job is written; jobs of one loss may overlap here,    *)
(* the code writes them one after the other.                                 *)
WriteJob(job) ==
    /\ callee.open
    /\ IF Obsolete(job)
       THEN relay' = [relay EXCEPT !.jobs = @ \ {job}] /\ UNCHANGED down
       ELSE /\ down' = [down EXCEPT ![job.k] = Append(@, Head(job.frames))]
            /\ relay' = [relay EXCEPT !.jobs = (@ \ {job}) \union
                  IF Len(job.frames) = 1 THEN {}
                  ELSE {[job EXCEPT !.frames = Tail(@)]}]
    /\ UNCHANGED <<send, callee, client, up, toRelay, toClient, alive, pairs,
                   history>>

-----------------------------------------------------------------------------
(* The client: SendMessage on a DualStream with one leg.                     *)

ClientSend(m) ==
    /\ callee.open /\ client.connected
    /\ m \in Up /\ send[m].pc \in {"new", "retry"} /\ Sealed(m)
    /\ send' = [send EXCEPT ![m] = [send[m] EXCEPT
            !.pc = "wait", !.mid = client.stream.gen + 1, !.acked = {},
            !.tries = send[m].bound.retransmits, !.sends = @ - 1]]
    /\ client' = [client EXCEPT !.stream.gen = @ + 1]
    /\ toRelay' = toRelay \o FramesOf(client.stream.gen + 1, m, AllFrames(m))
    /\ UNCHANGED <<callee, up, down, toClient, alive, relay, pairs, history>>

(* The state of a send whose leg failed it: DualStream sends the same record *)
(* again while it may reconnect, until the caller's context ends.            *)
SendAgain(s) == [s EXCEPT !.pc = IF s.sends > 0 THEN "retry" ELSE "failed"]

ClientTimeout(m) ==
    /\ callee.open /\ m \in Up /\ send[m].pc = "wait"
    /\ IF send[m].tries > 0
       THEN /\ send' = [send EXCEPT ![m].tries = @ - 1]
            /\ toRelay' = toRelay \o FramesOf(send[m].mid, m, Missing(m))
       ELSE /\ send' = [send EXCEPT ![m] = SendAgain(@)]
            /\ UNCHANGED toRelay
    /\ UNCHANGED <<callee, client, up, down, toClient, alive, relay, pairs,
                   history>>

ClientReceive ==
    /\ callee.open /\ client.connected /\ toClient # <<>>
    /\ toClient' = Tail(toClient)
    /\ LET f == Head(toClient)
       IN \/ /\ f.type = "ack"
             /\ send' = Acked(Up, f)
             /\ UNCHANGED <<callee, client, toRelay, history>>
          \/ /\ f.type = "data"
             /\ reached' = reached \union {<<f.msg, f.seq>>}
             /\ UNCHANGED paths
             /\ LET verdict == Verdict(client.stream, f)
                IN IF verdict = "fail"
                   THEN ConnectionFails /\ UNCHANGED <<client, toRelay, given>>
                   ELSE /\ client' = [client EXCEPT
                              !.stream = AfterData(@, f),
                              !.window = IF verdict = "whole"
                                         THEN observe(@, f.msg[2]) ELSE @]
                        /\ IF verdict = "whole" THEN Give(client.window, f)
                           ELSE UNCHANGED given
                        /\ toRelay' = toRelay \o Acknowledgement(client.stream, f)
                        /\ UNCHANGED <<send, callee>>
    /\ UNCHANGED <<up, down, alive, relay, pairs>>

ClientPartialAck(mid) ==
    /\ callee.open /\ client.connected /\ mid \in client.stream.due
    /\ client' = [client EXCEPT !.stream.due = @ \ {mid}]
    /\ toRelay' = Append(toRelay, PartialAck(client.stream, mid))
    /\ UNCHANGED <<send, callee, up, down, toClient, alive, relay,
                   pairs, history>>

\* The registry keeps the pairs of the closed endpoint.
LoseLegKeepsPairs ==
    /\ callee.open /\ client.connected /\ client.losses > 0
    /\ client' = [client EXCEPT !.connected = FALSE, !.losses = @ - 1]
    /\ toRelay' = <<>> /\ toClient' = <<>>
    /\ send' = [m \in Messages |->
                  IF m \in Up /\ send[m].pc = "wait" THEN SendAgain(send[m])
                  ELSE send[m]]
    /\ UNCHANGED <<callee, up, down, alive, relay, pairs, history>>

(* The leg is lost; the relay closes the endpoint and purges its pairs       *)
(* (closeTargetConnection). Sends wait for the next leg. One step: the pump  *)
(* of the leg has ended when startFramePump purges. Where a failed write to  *)
(* the client purges first (onClientFailure), a frame that the pump has read *)
(* may still be bound before Close ends it; that is left out.                *)
LoseLeg ==
    /\ callee.open /\ client.connected /\ client.losses > 0
    /\ client' = [client EXCEPT !.connected = FALSE, !.losses = @ - 1]
    /\ toRelay' = <<>> /\ toClient' = <<>>
    /\ pairs' = {}
    /\ send' = [m \in Messages |->
                  IF m \in Up /\ send[m].pc = "wait" THEN SendAgain(send[m])
                  ELSE send[m]]
    /\ UNCHANGED <<callee, up, down, alive, relay, history>>

(* The client resumes: a new leg, a new TcpStream on it and a new endpoint   *)
(* on the relay (StreamOn).                                                  *)
Resume ==
    /\ callee.open /\ ~client.connected
    /\ client' = [client EXCEPT !.connected = TRUE, !.leg = @ + 1, !.stream = NewStream]
    /\ relay' = [relay EXCEPT !.legGen = 0]
    /\ UNCHANGED <<send, callee, up, down, toRelay, toClient, alive, pairs,
                   history>>

-----------------------------------------------------------------------------
(* A workload bounds the losses of the client's leg, the frames that a full  *)
(* queue drops and the pairs that a full registry evicts. For each message m *)
(* that is sent, w.sends[m] bounds the retransmissions of one SendMessage    *)
(* (maxRetransmitAttempts) and the times a DualStream sends the same record. *)
NewSend(w, m) ==
    LET bound == IF m \in DOMAIN w.sends THEN w.sends[m] ELSE [sends |-> 0, retransmits |-> 0]
    IN [pc |-> IF m \in DOMAIN w.sends THEN "new" ELSE "none", mid |-> 0, acked |-> {},
        tries |-> bound.retransmits, sends |-> bound.sends, bound |-> bound]

Init ==
    /\ \E w \in Workloads :
          /\ send = [m \in Messages |-> NewSend(w, m)]
          /\ callee = [open |-> TRUE, gen |-> 0, out |-> <<>>, window |-> EmptyWindow,
                       stream |-> NewStream, inbound |-> {}, drops |-> w.drops]
          /\ client = [connected |-> TRUE, leg |-> 1, window |-> EmptyWindow,
                       stream |-> NewStream, losses |-> w.losses]
          /\ relay = [logicalGen |-> 0, legGen |-> 0, carrierGen |-> [k \in Carriers |-> 0],
                      routes |-> [l \in {} |-> 0], ackIDs |-> {}, jobs |-> {},
                      evictions |-> w.evictions]
    /\ up = [k \in Carriers |-> <<>>] /\ down = [k \in Carriers |-> <<>>]
    /\ toRelay = <<>> /\ toClient = <<>>
    /\ alive = Carriers
    /\ pairs = {}
    /\ given = [m \in Messages |-> 0] /\ reached = {} /\ paths = {}

Next ==
    \/ \E m \in Down : CalleeSend(m) \/ CalleeTimeout(m)
    \/ \E k \in Carriers : \/ MuxWrite(k)
                           \/ CalleeReceive(k) \/ MuxOverflow(k)
                           \/ RelayToClient(k)
                           \/ \E target \in Carriers : LoseCarrier(k, target)
    \/ \E mid \in callee.stream.due, k \in Carriers : CalleePartialAck(mid, k)
    \/ \E mid \in client.stream.due : ClientPartialAck(mid)
    \/ RelayToCallee
    \/ \E p \in pairs : EvictPair(p)
    \/ \E l \in RouteIds : QualityReplay(l)
    \/ \E job \in relay.jobs : WriteJob(job)
    \/ \E m \in Up : ClientSend(m) \/ ClientTimeout(m)
    \/ ClientReceive
    \/ LoseLeg
    \/ Resume

Spec == Init /\ [][Next]_vars

-----------------------------------------------------------------------------
(* A send of the callee that returned without error has been given to the    *)
(* client's application, and the other way round: acknowledgements are end   *)
(* to end, the relay answers for nobody (SetPureForwarder, replayRoute).     *)
EndToEndAck == \A m \in Messages : send[m].pc = "ok" => given[m] >= 1

(* The carriers and legs that the messages in S have been bound to. *)
PathsOf(S) == {<<p[2], p[3]>> : p \in {q \in paths : q[1] \in S}}
CarriersOf(S) == {p[1] : p \in PathsOf(S)}

(* The same, as far as it holds: for a message of the callee whose frames    *)
(* all went over one carrier and one leg of the client, and for messages of  *)
(* the client, on any number of legs, while the relay has used one carrier.  *)
EndToEndAckOnOnePath ==
    \A m \in Messages :
        /\ send[m].pc = "ok"
        /\ IF m \in Down THEN Cardinality(PathsOf({m})) <= 1
           ELSE Cardinality(CarriersOf(Up)) <= 1
        => given[m] >= 1

(* No frame of a callee's message is counted as acknowledged that has not    *)
(* reached a stream of the client, over all translations of ids by the relay,*)
(* changes of carriers and resumed legs; for messages of the client, while   *)
(* the relay has used one carrier.                                           *)
AckedWasReceived ==
    \A m \in Messages :
        (m \in Down \/ Cardinality(CarriersOf(Up)) <= 1)
        => \A seq \in send[m].acked : <<m, seq>> \in reached

(* No application is given a record twice, although the sender, the relay    *)
(* and the client's DualStream all send copies of it under new ids.          *)
AtMostOnce == \A m \in Messages : given[m] <= 1

(* Ids are unambiguous on every hop: the data frames on the way to the client *)
(* and those it has assembled under one id are of one message (pump binding,  *)
(* purgeConnection), the registry gives a logical id and a client's id at     *)
(* most one partner, and an acknowledgement on a carrier has one logical id   *)
(* (bindAckKeyLocked), through rebinding, replay, eviction and resumed legs.  *)
RoutesUnambiguous ==
    /\ LET sent == {f \in Range(toClient) : f.type = "data"}
       IN \A f \in sent, e \in sent \union client.stream.asm :
             f.mid = e.mid => f.msg = e.msg
    /\ \A p1, p2 \in pairs :
          (p1.relayID = p2.relayID \/ (p1.dir = p2.dir /\ p1.mid = p2.mid)) => p1 = p2
    /\ \A k \in Carriers : \A a1, a2 \in {a \in relay.ackIDs : a.k = k} :
          a1.mid = a2.mid => a1 = a2

(* Acknowledgements and routes are those of the message they are taken for.   *)
AcksTruthful == AckedWasReceived /\ RoutesUnambiguous
=============================================================================
