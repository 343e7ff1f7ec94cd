------------------------------ MODULE TunnelMux ------------------------------
(***************************************************************************)
(* The tunnel's mux: byte streams over one P2P connection, opened by the   *)
(* client, accepted by the server.  Sends wait for their acknowledgement   *)
(* and many are under way at once, so messages arrive in any order and,    *)
(* after a failover, more than once.  (The peer's connection acknowledges  *)
(* a message when it queues it for the readLoop, which is one step here:   *)
(* the queue keeps the order.)                                             *)
(*                                                                         *)
(* A frame that finds no stream of its number makes one, also when it is   *)
(* late and its stream was removed.  A side's streams are therefore known  *)
(* by number and generation: the client opens the first, a late frame      *)
(* makes the next, which the server serves like any other and the client   *)
(* leaves in its accept channel.                                           *)
(***************************************************************************)
EXTENDS Integers, FiniteSets, Sequences

CONSTANTS
    TunStreams,            \* stream numbers
    MaxGens,               \* bound: streams a side has of one number
    acceptCapacity,        \* room in the accept channel
    MaxTunWork,            \* bound: chunks written and faults
    TunFaults              \* whether there are failed sends, duplicates, timeouts, shutdowns

VARIABLES
    tunnel,     \* by side: closed, the accept channel, the message its readLoop is stuck with
    table,      \* by side and number: the generation in the table (0: none), those made
    strm,       \* by side, number and generation: the stream
    tapp,       \* by side, number and generation: what its application did
    tnet,       \* messages whose send was called and that were not read yet
    tsent,      \* messages that were handed over
    tbudget     \* writes and faults that are left

tunVars == <<tunnel, table, strm, tapp, tnet, tsent, tbudget>>

TunSides == {"client", "server"}
Gens == 1..MaxGens
Peer(x) == IF x = "client" THEN "server" ELSE "client"
NoMsg == [to |-> "none", t |-> "none", id |-> 0, seq |-> 0, by |-> 0]
\* A frame carries the number of its stream; the generation that wrote it is
\* not on the wire.
TunMsg(x, t, id, seq, g) == [to |-> Peer(x), t |-> t, id |-> id, seq |-> seq, by |-> g]
NoStrm == [closed |-> FALSE, eof |-> FALSE, got |-> <<>>, pending |-> {}, final |-> -1]
NoTunApp == [pc |-> "none", wrote |-> 0, failed |-> FALSE, closedAt |-> -1]
Works == tbudget > 0 /\ tbudget' = tbudget - 1
Fails == TunFaults /\ Works
\* conn.Send hands the message over.
Transmit(m) == tnet' = tnet \cup {m} /\ tsent' = tsent \cup {m}

-----------------------------------------------------------------------------
(* Stream.                                                                  *)

\* closeLocal: the application reads on what it has.
CloseLocal(s) == [s EXCEPT !.closed = TRUE, !.pending = {}]

\* finishClose, at the end of what the peer sent.
FinishClose(s) == [CloseLocal(s) EXCEPT !.eof = TRUE]

\* Mutant: the end of the stream does not wait for what is missing.
ReachedAlways(s) == s.final >= 0

\* Everything up to the peer's final sequence number was delivered.
Reached(s) == s.final >= 0 /\ Len(s.got) >= s.final

\* The chunks that follow the expected one without a gap.
Following(s) ==
    LET At(n) == {c \in s.pending : c.seq = n}
        n == Len(s.got) + 1
        k == CHOOSE i \in n..(n + Cardinality(s.pending)) :
                At(i) = {} /\ \A j \in n..(i - 1) : At(j) # {}
    IN [i \in 1..(k - n) |-> CHOOSE c \in At(n + i - 1) : TRUE]

\* deliver: an old number is dropped, the expected one releases those that
\* follow it, a later one waits, in place of one of the same number.
Deliver(s, c) ==
    LET run == Following(s)
        next == IF c.seq = Len(s.got)
                THEN [s EXCEPT !.got = Append(@, c) \o run,
                               !.pending = {d \in @ : d.seq > c.seq + Len(run)}]
                ELSE [s EXCEPT !.pending = {d \in @ : d.seq # c.seq} \cup {c}]
    IN IF s.closed \/ c.seq < Len(s.got) THEN s
       ELSE IF Reached(next) THEN FinishClose(next) ELSE next

DeliverClose(s, final) ==
    LET next == [s EXCEPT !.final = final]
    IN IF Reached(next) THEN FinishClose(next) ELSE next

\* What the readLoop does with a message once it has the stream.
Handled(s, m) ==
    CASE m.t = "open" -> s
      [] m.t = "data" -> Deliver(s, [by |-> m.by, seq |-> m.seq])
      [] m.t = "close" -> DeliverClose(s, m.seq)

\* removeStream takes whatever has the number out of the table.
RemoveStream(x, id) == [table EXCEPT ![x][id].cur = 0]

-----------------------------------------------------------------------------
(* The application and its goroutines.                                      *)

\* OpenStream: in the table at once, used when OPEN was acknowledged.
TunOpens(id) ==
    /\ tapp["client"][id][1].pc = "none" /\ ~tunnel["client"].closed
    /\ \A k \in TunStreams : k < id => tapp["client"][k][1].pc # "none"
    /\ table' = [table EXCEPT !["client"][id] = [cur |-> 1, made |-> 1]]
    /\ tapp' = [tapp EXCEPT !["client"][id][1].pc = "opening"]
    /\ Transmit(TunMsg("client", "open", id, 0, 1))
    /\ UNCHANGED <<tunnel, strm, tbudget>>

TunOpened(id) ==
    /\ tapp["client"][id][1].pc = "opening" /\ TunMsg("client", "open", id, 0, 1) \notin tnet
    /\ tapp' = [tapp EXCEPT !["client"][id][1].pc = "up"]
    /\ UNCHANGED <<tunnel, table, strm, tnet, tsent, tbudget>>

\* The send fails, though the message may still arrive: removeStream.
TunOpenFails(id) ==
    /\ tapp["client"][id][1].pc = "opening"
    /\ IF tunnel["client"].closed THEN UNCHANGED tbudget ELSE Fails
    /\ tapp' = [tapp EXCEPT !["client"][id][1].pc = "done"]
    /\ table' = RemoveStream("client", id)
    /\ UNCHANGED <<tunnel, strm, tnet, tsent>>

\* Accept, at the server, which dials its target for every stream it gets.
TunAccepts ==
    /\ tunnel["server"].accept # <<>> /\ ~tunnel["server"].closed
    /\ LET st == Head(tunnel["server"].accept) IN
       tapp' = [tapp EXCEPT !["server"][st[1]][st[2]].pc = "up"]
    /\ tunnel' = [tunnel EXCEPT !["server"].accept = Tail(@)]
    /\ UNCHANGED <<table, strm, tnet, tsent, tbudget>>

\* Write numbers its chunks from 0 on, each sent by a goroutine of its own; it
\* may still run when the other direction has ended and Close was called.  (The
\* windows a sendData waits for delay it, as the connection does.)
TunWrites(x, id, g) ==
    /\ tapp[x][id][g].pc \in {"up", "closing"}
    /\ ~tunnel[x].closed /\ Works
    /\ Transmit(TunMsg(x, "data", id, tapp[x][id][g].wrote, g))
    /\ tapp' = [tapp EXCEPT ![x][id][g].wrote = @ + 1]
    /\ UNCHANGED <<tunnel, table, strm>>

\* sendData fails: the Write does, and Close will reset the stream.  The message
\* was not sent, or is lost, or arrives all the same.
TunSendFails(m) ==
    /\ m \in tnet /\ m.t = "data" /\ ~tunnel[Peer(m.to)].closed /\ Fails
    /\ tapp' = [tapp EXCEPT ![Peer(m.to)][m.id][m.by].failed = TRUE]
    /\ \/ tnet' = tnet \ {m} /\ tsent' = tsent \ {m}
       \/ UNCHANGED <<tnet, tsent>>
    /\ UNCHANGED <<tunnel, table, strm>>

\* Close: RESET after a failed send, otherwise CLOSE with the number of
\* chunks so far; nothing when the stream is closed already.
TunCloses(x, id, g) ==
    /\ tapp[x][id][g].pc = "up"
    /\ IF strm[x][id][g].closed \/ tunnel[x].closed
       THEN tapp' = [tapp EXCEPT ![x][id][g].pc = "closing"] /\ UNCHANGED <<tnet, tsent>>
       ELSE LET a == tapp[x][id][g] IN
            /\ tapp' = [tapp EXCEPT ![x][id][g].pc = "closing",
                  ![x][id][g].closedAt = IF a.failed THEN -1 ELSE a.wrote]
            /\ Transmit(IF a.failed THEN TunMsg(x, "reset", id, 0, g)
                        ELSE TunMsg(x, "close", id, a.wrote, g))
    /\ UNCHANGED <<tunnel, table, strm, tbudget>>

\* Acknowledged, or not in time: removeStream and closeLocal.
TunClosed(x, id, g) ==
    /\ tapp[x][id][g].pc = "closing"
    /\ IF \E m \in tnet : m.to = Peer(x) /\ m.id = id /\ m.by = g /\ m.t \in {"close", "reset"}
       THEN Fails ELSE UNCHANGED tbudget
    /\ tapp' = [tapp EXCEPT ![x][id][g].pc = "done"]
    /\ table' = RemoveStream(x, id)
    /\ strm' = [strm EXCEPT ![x][id][g] = CloseLocal(@)]
    /\ UNCHANGED <<tunnel, tnet, tsent>>

-----------------------------------------------------------------------------
(* readLoop.                                                                *)

Readable(m) == m \in tnet /\ ~tunnel[m.to].closed /\ tunnel[m.to].stuck = NoMsg

\* The message goes to a stream; at its end the stream leaves the table.
Receives(x, id, g, m) ==
    /\ strm' = [strm EXCEPT ![x][id][g] = Handled(@, m)]
    /\ table' = [table EXCEPT ![x][id].cur = IF strm'[x][id][g].eof THEN 0 ELSE @]

\* The message of a stream in the table.
TunReads(m) ==
    /\ Readable(m) /\ m.t \in {"open", "data", "close"} /\ table[m.to][m.id].cur # 0
    /\ tnet' = tnet \ {m}
    /\ Receives(m.to, m.id, table[m.to][m.id].cur, m)
    /\ UNCHANGED <<tunnel, tapp, tsent, tbudget>>

\* inboundStream: of a number that has none it makes a stream, and queues it
\* for Accept.
TunReadsNew(m) ==
    /\ Readable(m) /\ m.t \in {"open", "data", "close"} /\ table[m.to][m.id].cur = 0
    /\ table[m.to][m.id].made < MaxGens
    /\ tnet' = tnet \ {m}
    /\ LET g == table[m.to][m.id].made + 1
           s == Handled(NoStrm, m)
           room == Len(tunnel[m.to].accept) < acceptCapacity
       IN /\ table' = [table EXCEPT ![m.to][m.id] =
                          [cur |-> IF room /\ s.eof THEN 0 ELSE g, made |-> g]]
          /\ IF room
             THEN /\ tunnel' = [tunnel EXCEPT ![m.to].accept = Append(@, <<m.id, g>>)]
                  /\ strm' = [strm EXCEPT ![m.to][m.id][g] = s]
             ELSE tunnel' = [tunnel EXCEPT ![m.to].stuck = m] /\ UNCHANGED strm
    /\ UNCHANGED <<tapp, tsent, tbudget>>

\* There is room in the accept channel again: the newest stream of the number
\* is the one the readLoop has made.
TunUnblocks(x) ==
    /\ tunnel[x].stuck # NoMsg /\ ~tunnel[x].closed /\ Len(tunnel[x].accept) < acceptCapacity
    /\ LET m == tunnel[x].stuck
           g == table[x][m.id].made
       IN /\ tunnel' = [tunnel EXCEPT ![x].accept = Append(@, <<m.id, g>>), ![x].stuck = NoMsg]
          /\ Receives(x, m.id, g, m)
    /\ UNCHANGED <<tapp, tnet, tsent, tbudget>>

TunReadsReset(m) ==
    /\ Readable(m) /\ m.t = "reset"
    /\ tnet' = tnet \ {m}
    /\ LET g == table[m.to][m.id].cur IN
       strm' = IF g = 0 THEN strm ELSE [strm EXCEPT ![m.to][m.id][g] = CloseLocal(@)]
    /\ table' = RemoveStream(m.to, m.id)
    /\ UNCHANGED <<tunnel, tapp, tsent, tbudget>>

\* A retransmission delivers a message a second time.
TunDuplicates(m) ==
    /\ m \in tsent \ tnet
    /\ Fails
    /\ tnet' = tnet \cup {m}
    /\ UNCHANGED <<tunnel, table, strm, tapp, tsent>>

\* shutdown: by the application, after SESSION_CLOSE, or after the
\* connection failed.
TunShutdown(x) ==
    /\ ~tunnel[x].closed
    /\ IF tunnel[Peer(x)].closed THEN UNCHANGED tbudget ELSE Fails
    /\ tunnel' = [tunnel EXCEPT ![x].closed = TRUE, ![x].stuck = NoMsg, ![x].accept = <<>>]
    /\ strm' = [strm EXCEPT ![x] = [id \in TunStreams |-> [g \in Gens |->
                  IF table[x][id].cur = g THEN CloseLocal(@[id][g]) ELSE @[id][g]]]]
    /\ table' = [table EXCEPT ![x] = [id \in TunStreams |-> [@[id] EXCEPT !.cur = 0]]]
    /\ UNCHANGED <<tapp, tnet, tsent>>

-----------------------------------------------------------------------------

TunInit ==
    /\ tunnel = [x \in TunSides |-> [closed |-> FALSE, accept |-> <<>>, stuck |-> NoMsg]]
    /\ table = [x \in TunSides |-> [id \in TunStreams |-> [cur |-> 0, made |-> 0]]]
    /\ strm = [x \in TunSides |-> [id \in TunStreams |-> [g \in Gens |-> NoStrm]]]
    /\ tapp = [x \in TunSides |-> [id \in TunStreams |-> [g \in Gens |-> NoTunApp]]]
    /\ tnet = {} /\ tsent = {} /\ tbudget = MaxTunWork

TunNext ==
    \/ \E id \in TunStreams : TunOpens(id) \/ TunOpened(id) \/ TunOpenFails(id)
    \/ TunAccepts
    \/ \E x \in TunSides : \E id \in TunStreams : \E g \in Gens :
          TunWrites(x, id, g) \/ TunCloses(x, id, g) \/ TunClosed(x, id, g)
    \/ \E m \in tnet : TunSendFails(m) \/ TunReads(m) \/ TunReadsNew(m) \/ TunReadsReset(m)
    \/ \E m \in tsent : TunDuplicates(m)
    \/ \E x \in TunSides : TunUnblocks(x) \/ TunShutdown(x)

-----------------------------------------------------------------------------
(* Properties.                                                              *)

\* The server's application has had more than one stream of a number: a frame
\* that came late was taken for a new stream, dialed and served.
ServedAgain(id) == \E g \in Gens \ {1} : tapp["server"][id][g].pc # "none"

\* A stream's reader gets numbers from 0 on, in order and without a gap or a
\* repetition, although chunks overtake each other and arrive again.
TunnelOrdered ==
    \A x \in TunSides, id \in TunStreams, g \in Gens :
        \A i \in 1..Len(strm[x][id][g].got) : strm[x][id][g].got[i].seq = i - 1

\* What an application reads is what the application at the other end of that
\* stream wrote, and a stream that ends because the peer closed it has
\* delivered all that the peer wrote before it did, although CLOSE may overtake
\* data.
ReadsFromPeer(x, id) ==
    LET s == strm[x][id][1]
        w == tapp[Peer(x)][id][1]
    IN /\ \A i \in 1..Len(s.got) : s.got[i].by = 1
       /\ Len(s.got) <= w.wrote
       /\ s.eof => w.closedAt >= 0 /\ Len(s.got) >= w.closedAt

\* The bytes that are read are those that were written, in order and to the
\* end.  At the server always; at the client unless the server took a late
\* frame for a new stream, whose bytes and CLOSE have the same numbers as those
\* of the stream before (inboundStream, deliver, handleTunnel).
TunnelFaithful ==
    /\ TunnelOrdered
    /\ \A id \in TunStreams :
          ReadsFromPeer("server", id) /\ (ReadsFromPeer("client", id) \/ ServedAgain(id))

\* The client's readLoop never waits for room in the accept channel, which
\* nobody at the client reads: only the client opens streams (NewSession).
ClientKeepsReading == tunnel["client"].stuck = NoMsg
=============================================================================
