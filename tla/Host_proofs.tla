----------------------------- MODULE Host_proofs -----------------------------
(***************************************************************************)
(* The threads of compiled code keep their guards and their scopes, give   *)
(* back what they took, report what their calls died of, and neither race  *)
(* nor wait for a mutex nobody will unlock, for any number of threads,     *)
(* programs, descriptors and messages.  First the sockets a call of net.ys *)
(* works on, then the frames of a thread, then the steps, one by one, then *)
(* what the checks of ownck give about globals and mutexes.                *)
(***************************************************************************)
EXTENDS Host, SequenceTheorems, FiniteSetTheorems, TLAPS

Kind  == {"", "listen", "conn"}
Why   == {"", "resolve", "listen", "connect", "accept", "send", "recv", "getsockname",
          "memory", "closed"}
Error == [why : Why, timeout : BOOLEAN]
Unit  == Messages \X (1 .. Units)
Peer  == [taken : Seq(Unit), cuts : SUBSET Nat, inbox : Nat, closed : BOOLEAN, waiting : Nat]
Fd    == Descriptors \cup {NoFd}
Pair  == [listener : Fd, conn : Fd]

Net ==
  [fn : {"idle", "accept", "recv", "message", "flag", "raised", "returned"}]
    \cup [fn : {"listen", "connect"}, left : 0 .. Addresses]
    \cup [fn : {"send"}, m : Messages, sent : 0 .. Units]

SockType ==
  /\ fds \in [Descriptors -> Kind]
  /\ peer \in [Descriptors -> Peer]
  /\ sockerr \in Error
  /\ writer \in Thread \cup {NoWriter}
  /\ net \in [Thread -> Net]
  /\ cause \in [Thread -> Error]
  /\ caught \in [Thread -> Error]
  /\ conn \in [Thread -> Pair]
  /\ dropped \in SUBSET Descriptors
  /\ eof \in [Thread -> BOOLEAN]

\* A Listener has a listening descriptor, a Conn a connected one, and what the
\* program has lost is still open.
Held ==
  /\ \A t \in Thread :
       /\ conn[t].listener # NoFd => fds[conn[t].listener] = "listen"
       /\ conn[t].conn # NoFd => fds[conn[t].conn] = "conn"
  /\ \A d \in dropped : fds[d] # ""

\* The stream to a peer, and that the next unit would start a message.
Parts(p) ==
  /\ \A i \in DOMAIN p.taken :
       IF Starts(p, i) THEN p.taken[i][2] = 1
       ELSE p.taken[i] = <<p.taken[i - 1][1], p.taken[i - 1][2] + 1>>
  /\ p.cuts \subseteq 1 .. Len(p.taken)
Whole(p) == Starts(p, Len(p.taken) + 1)

Streams ==
  /\ \A d \in Descriptors : Parts(peer[d])
  /\ \A d \in Descriptors : (\A t \in Thread : conn[t].conn # d) => Whole(peer[d])

\* A thread calls with the descriptors that the call needs.
Fits(c, n) ==
  /\ n.fn = "accept" => c.listener # NoFd
  /\ n.fn \in {"send", "recv"} => c.conn # NoFd

\* How far send() is, if p is the peer.
Progress(p, n) ==
  \/ /\ n.fn = "send" /\ n.sent > 0 /\ p.taken # <<>> /\ Last(p.taken) = <<n.m, n.sent>>
     /\ Len(p.taken) \notin p.cuts
  \/ (n.fn = "send" => n.sent = 0) /\ Whole(p)

\* What recv() made of the end of the stream.
Ended(c, n, e, p) ==
  e => n.fn = "idle" \/ (n.fn = "returned" /\ c.conn # NoFd /\ p[c.conn].closed /\ p[c.conn].inbox = 0)

ThreadOk(c, n, e, p) ==
  /\ Fits(c, n)
  /\ Ended(c, n, e, p)
  /\ c.conn # NoFd => Progress(p[c.conn], n)

SockInv ==
  /\ SockType
  /\ Held
  /\ DescriptorsHeld
  /\ Streams
  /\ \A t \in Thread : ThreadOk(conn[t], net[t], eof[t], peer)

-----------------------------------------------------------------------------
\* The states of a call, by their names.
LEMMA NetFacts ==
  ASSUME NEW n \in Net
  PROVE  /\ n.fn \in {"idle", "accept", "recv", "message", "flag", "raised", "returned",
                      "listen", "connect", "send"}
         /\ n.fn = "idle" => n = Idle
         /\ n.fn \in {"listen", "connect"} =>
              /\ n.left \in 0 .. Addresses
              /\ \A k \in 0 .. Addresses : LET q == [n EXCEPT !.left = k] IN
                   q \in Net /\ q.fn = n.fn /\ q.left = k
         /\ n.fn = "send" =>
              /\ n.m \in Messages /\ n.sent \in 0 .. Units
              /\ \A k \in 0 .. Units : LET q == [n EXCEPT !.sent = k] IN
                   q \in Net /\ q.fn = "send" /\ q.m = n.m /\ q.sent = k
<1>1. CASE n \in [fn : {"idle", "accept", "recv", "message", "flag", "raised", "returned"}]
  BY <1>1 DEF Idle
<1>2. CASE n \in [fn : {"listen", "connect"}, left : 0 .. Addresses]
  BY <1>2 DEF Net
<1>3. CASE n \in [fn : {"send"}, m : Messages, sent : 0 .. Units]
  BY <1>3 DEF Net
<1> QED
  BY <1>1, <1>2, <1>3 DEF Net

LEMMA NetMade ==
  /\ \A f \in {"idle", "accept", "recv", "message", "flag", "raised", "returned"} :
       [fn |-> f] \in Net /\ [fn |-> f].fn = f
  /\ \A f \in {"listen", "connect"}, k \in 0 .. Addresses :
       [fn |-> f, left |-> k] \in Net /\ [fn |-> f, left |-> k].fn = f
  /\ \A x \in Messages : [fn |-> "send", m |-> x, sent |-> 0] \in Net
  BY SocketBounds DEF Net

\* A step that opens, closes and hands over nothing, and takes thread t to n and

\* What a stream is depends on the units and on where it was broken off.
LEMMA Alike ==
  ASSUME NEW p, NEW q, p.taken = q.taken, p.cuts = q.cuts
  PROVE  (Parts(p) <=> Parts(q)) /\ (Whole(p) <=> Whole(q)) /\ \A n : Progress(p, n) <=> Progress(q, n)
<1>1. \A i : Starts(p, i) <=> Starts(q, i)
  BY DEF Starts
<1> QED
  BY <1>1 DEF Parts, Whole, Progress

\* The descriptors of a thread are open and nobody else's.
LEMMA OwnFds ==
  ASSUME SockInv, NEW t \in Thread
  PROVE  /\ conn[t] \in Pair /\ NoFd \notin Descriptors /\ net[t] \in Net /\ eof[t] \in BOOLEAN
         /\ conn[t].conn # NoFd =>
              /\ conn[t].conn \in Descriptors /\ fds[conn[t].conn] = "conn" /\ conn[t].conn \notin dropped
              /\ peer[conn[t].conn] \in Peer /\ conn[t].conn # conn[t].listener
              /\ \A u \in Thread : u # t => conn[u].conn # conn[t].conn /\ conn[u].listener # conn[t].conn
         /\ conn[t].listener # NoFd =>
              /\ conn[t].listener \in Descriptors /\ fds[conn[t].listener] = "listen"
              /\ conn[t].listener \notin dropped /\ peer[conn[t].listener] \in Peer
              /\ \A u \in Thread : u # t =>
                   conn[u].conn # conn[t].listener /\ conn[u].listener # conn[t].listener
<1>1. conn[t] \in Pair /\ NoFd \notin Descriptors /\ net[t] \in Net /\ eof[t] \in BOOLEAN
  BY SocketBounds DEF SockInv, SockType, NoFd
<1>2. /\ conn[t].conn # NoFd => conn[t].conn \in Descriptors /\ fds[conn[t].conn] = "conn"
      /\ conn[t].listener # NoFd => conn[t].listener \in Descriptors /\ fds[conn[t].listener] = "listen"
  BY <1>1 DEF SockInv, Held, Pair, Fd
<1>3. conn[t].conn # NoFd => conn[t].conn # conn[t].listener
  <2>1. "conn" # "listen"
    OBVIOUS
  <2> QED
    BY <1>2, <2>1
<1>4. /\ conn[t].conn # NoFd => peer[conn[t].conn] \in Peer
      /\ conn[t].listener # NoFd => peer[conn[t].listener] \in Peer
  BY <1>2 DEF SockInv, SockType
<1>5. ASSUME NEW x \in Descriptors, x \in {conn[t].listener, conn[t].conn}
      PROVE  x \notin dropped /\ \A u \in Thread : u # t => conn[u].conn # x /\ conn[u].listener # x
  <2>1. Has(t, x) /\ DescriptorsHeld
    BY <1>5 DEF Has, SockInv
  <2>2. x \notin dropped /\ \A u \in Thread \ {t} : ~Has(u, x)
    BY <2>1 DEF DescriptorsHeld
  <2> QED
    BY <2>2 DEF Has
<1> QED
  BY <1>1, <1>2, <1>3, <1>4, <1>5

\* A step that opens and closes nothing, and takes thread t to n and e, keeps the
\* invariant when n, e and what its peer was handed fit together.
LEMMA QuietStep ==
  ASSUME SockInv, SockType', NEW t \in Thread, NEW n, NEW e,
         UNCHANGED <<fds, conn, dropped>>,
         net' = [net EXCEPT ![t] = n], eof' = [eof EXCEPT ![t] = e],
         \A x \in Descriptors : x # conn[t].conn =>
           /\ peer'[x].taken = peer[x].taken /\ peer'[x].cuts = peer[x].cuts
           /\ peer'[x].inbox = peer[x].inbox /\ peer'[x].closed = peer[x].closed,
         conn[t].conn # NoFd => Parts(peer'[conn[t].conn]),
         ThreadOk(conn[t], n, e, peer')
  PROVE  SockInv'
<1>1. /\ SockType /\ Held /\ DescriptorsHeld /\ Streams
      /\ \A u \in Thread : ThreadOk(conn[u], net[u], eof[u], peer)
  BY DEF SockInv
<1>2. \A x \in Descriptors : x # conn[t].conn =>
        /\ Parts(peer[x]) => Parts(peer'[x])
        /\ Whole(peer[x]) => Whole(peer'[x])
        /\ \A m : Progress(peer[x], m) => Progress(peer'[x], m)
  <2> SUFFICES ASSUME NEW x \in Descriptors, x # conn[t].conn
               PROVE  /\ Parts(peer[x]) => Parts(peer'[x])
                      /\ Whole(peer[x]) => Whole(peer'[x])
                      /\ \A m : Progress(peer[x], m) => Progress(peer'[x], m)
    OBVIOUS
  <2>1. peer'[x].taken = peer[x].taken /\ peer'[x].cuts = peer[x].cuts
    OBVIOUS
  <2> QED
    BY <2>1, Alike
<1>3. \A u \in Thread : ThreadOk(conn[u], net'[u], eof'[u], peer')
  <2> SUFFICES ASSUME NEW u \in Thread PROVE ThreadOk(conn[u], net'[u], eof'[u], peer')
    OBVIOUS
  <2>1. CASE u = t
    BY <1>1, <2>1 DEF SockType
  <2>2. CASE u # t
    <3>1. net'[u] = net[u] /\ eof'[u] = eof[u]
      BY <1>1, <2>2 DEF SockType
    <3>2. conn[u].conn # NoFd => conn[u].conn \in Descriptors /\ conn[u].conn # conn[t].conn
      BY <2>2, OwnFds
    <3>3. conn[u].conn # NoFd =>
            peer'[conn[u].conn].inbox = peer[conn[u].conn].inbox /\ peer'[conn[u].conn].closed = peer[conn[u].conn].closed
      BY <3>2
    <3>4. ThreadOk(conn[u], net[u], eof[u], peer)
      BY <1>1
    <3>5. conn[u].conn # NoFd => Progress(peer'[conn[u].conn], net[u])
      BY <1>2, <3>2, <3>4 DEF ThreadOk
    <3> QED
      BY <3>1, <3>3, <3>4, <3>5 DEF ThreadOk, Ended
  <2> QED
    BY <2>1, <2>2
<1>4. Held' /\ DescriptorsHeld'
  BY <1>1 DEF Held, DescriptorsHeld, Has
<1>5. Streams'
  <2>1. ASSUME NEW x \in Descriptors
        PROVE  Parts(peer'[x]) /\ ((\A u \in Thread : conn[u].conn # x) => Whole(peer'[x]))
    <3>1. CASE x = conn[t].conn
      BY <3>1, OwnFds
    <3>2. CASE x # conn[t].conn
      BY <1>1, <1>2, <3>2 DEF Streams
    <3> QED
      BY <3>1, <3>2
  <2> QED
    BY <2>1 DEF Streams
<1>6. \A u \in Thread : ThreadOk(conn'[u], net'[u], eof'[u], peer')
  BY <1>3
<1> QED
  BY <1>4, <1>5, <1>6 DEF SockInv

\* A thread that is not sending has no message unfinished.
LEMMA WholeNow ==
  ASSUME SockInv, NEW t \in Thread, conn[t].conn # NoFd
  PROVE  /\ Parts(peer[conn[t].conn])
         /\ net[t].fn # "send" => Whole(peer[conn[t].conn])
  BY OwnFds DEF SockInv, Streams, ThreadOk, Progress

\* A call of thread t fails: it leaves no message unfinished.
LEMMA FailsStep ==
  ASSUME SockInv, NEW t \in Thread, NEW w \in Why, NEW b \in BOOLEAN,
         Fails(t, w, b), net[t].fn \notin {"idle", "returned"},
         UNCHANGED <<fds, caught, conn, dropped, eof>>, peer' \in [Descriptors -> Peer],
         \A x \in Descriptors :
           /\ peer'[x].taken = peer[x].taken
           /\ peer'[x].inbox = peer[x].inbox /\ peer'[x].closed = peer[x].closed
           /\ x # conn[t].conn => peer'[x].cuts = peer[x].cuts,
         conn[t].conn # NoFd => Parts(peer'[conn[t].conn]) /\ Whole(peer'[conn[t].conn])
  PROVE  SockInv'
<1> DEFINE n == [fn |-> "message"]
<1>1. n \in Net /\ n.fn = "message"
  BY NetMade
<1>2. net' = [net EXCEPT ![t] = n]
  BY DEF Fails
<1> HIDE DEF n
<1>3. [why |-> w, timeout |-> b] \in Error
  BY DEF Error
<1>4. SockType'
  BY <1>1, <1>2, <1>3 DEF SockInv, SockType, Fails, pl_sock_fail
<1>5. ThreadOk(conn[t], n, eof[t], peer')
  <2>1. ~eof[t]
    BY DEF SockInv, ThreadOk, Ended
  <2> QED
    BY <1>1, <2>1 DEF ThreadOk, Fits, Progress, Ended
<1>6. eof' = [eof EXCEPT ![t] = eof[t]]
  BY DEF SockInv, SockType
<1>7. \A x \in Descriptors : x # conn[t].conn =>
           /\ peer'[x].taken = peer[x].taken /\ peer'[x].cuts = peer[x].cuts
           /\ peer'[x].inbox = peer[x].inbox /\ peer'[x].closed = peer[x].closed
  OBVIOUS
<1>8. conn[t].conn # NoFd => Parts(peer'[conn[t].conn])
  OBVIOUS
<1>9. UNCHANGED <<fds, conn, dropped>>
  OBVIOUS
<1> QED
  BY <1>2, <1>4, <1>5, <1>6, <1>7, <1>8, <1>9, QuietStep

\* A call other than send() fails, and its peer was handed nothing.
LEMMA FailsQuietly ==
  ASSUME SockInv, NEW t \in Thread, NEW w \in Why, NEW b \in BOOLEAN,
         Fails(t, w, b), net[t].fn \notin {"idle", "returned", "send"},
         UNCHANGED <<fds, caught, conn, dropped, eof>>, peer' \in [Descriptors -> Peer],
         \A x \in Descriptors :
           /\ peer'[x].taken = peer[x].taken /\ peer'[x].cuts = peer[x].cuts
           /\ peer'[x].inbox = peer[x].inbox /\ peer'[x].closed = peer[x].closed
  PROVE  SockInv'
<1>1. conn[t].conn # NoFd => Parts(peer'[conn[t].conn]) /\ Whole(peer'[conn[t].conn])
  <2> SUFFICES ASSUME conn[t].conn # NoFd
               PROVE  Parts(peer'[conn[t].conn]) /\ Whole(peer'[conn[t].conn])
    OBVIOUS
  <2>1. /\ peer'[conn[t].conn].taken = peer[conn[t].conn].taken
        /\ peer'[conn[t].conn].cuts = peer[conn[t].conn].cuts
    BY OwnFds
  <2> QED
    BY <2>1, WholeNow, Alike
<1>2. net[t].fn \notin {"idle", "returned"}
  OBVIOUS
<1> QED
  BY <1>1, <1>2, FailsStep

LEMMA SucceedsType ==
  ASSUME SockType, NEW t \in Thread, Succeeds(t)
  PROVE  /\ sockerr' \in Error /\ cause' \in [Thread -> Error] /\ writer' \in Thread \cup {NoWriter}
         /\ net' \in [Thread -> Net] /\ net'[t].fn = "returned"
         /\ \A u \in Thread : u # t => net'[u] = net[u]
<1> DEFINE n == [fn |-> "returned"]
<1>1. n \in Net /\ n.fn = "returned"
  BY NetMade
<1>2. net' = [net EXCEPT ![t] = n]
  BY DEF Succeeds
<1> HIDE DEF n
<1>3. NoError \in Error
  BY DEF Error, NoError, Why
<1> QED
  BY <1>1, <1>2, <1>3 DEF Succeeds, SockType

\* The call succeeds, and nothing was handed over or opened.
LEMMA SucceedsStep ==
  ASSUME SockInv, NEW t \in Thread, Succeeds(t), UNCHANGED <<fds, caught, conn, dropped>>,
         NEW e \in BOOLEAN, eof' = [eof EXCEPT ![t] = e],
         peer' \in [Descriptors -> Peer], conn[t].conn # NoFd,
         \A x \in Descriptors : peer'[x].taken = peer[x].taken /\ peer'[x].cuts = peer[x].cuts,
         \A x \in Descriptors : x # conn[t].conn =>
           peer'[x].inbox = peer[x].inbox /\ peer'[x].closed = peer[x].closed,
         Whole(peer[conn[t].conn]),
         e => peer'[conn[t].conn].closed /\ peer'[conn[t].conn].inbox = 0
  PROVE  SockInv'
<1> DEFINE n == [fn |-> "returned"]
           p == peer'[conn[t].conn]
<1>1. n \in Net /\ n.fn = "returned"
  BY NetMade
<1>2. net' = [net EXCEPT ![t] = n]
  BY DEF Succeeds
<1> HIDE DEF n
<1>3. SockType'
  BY SucceedsType DEF SockInv, SockType
<1>4. Parts(p) /\ Whole(p)
  <2>1. p.taken = peer[conn[t].conn].taken /\ p.cuts = peer[conn[t].conn].cuts
    BY OwnFds
  <2> HIDE DEF p
  <2> QED
    BY <2>1, WholeNow, Alike
<1>5. ThreadOk(conn[t], n, e, peer')
  BY <1>1, <1>4 DEF ThreadOk, Fits, Progress, Ended
<1>6. \A x \in Descriptors : x # conn[t].conn =>
           /\ peer'[x].taken = peer[x].taken /\ peer'[x].cuts = peer[x].cuts
           /\ peer'[x].inbox = peer[x].inbox /\ peer'[x].closed = peer[x].closed
  OBVIOUS
<1>7. UNCHANGED <<fds, conn, dropped>>
  OBVIOUS
<1> QED
  BY <1>2, <1>3, <1>4, <1>5, <1>6, <1>7, QuietStep

-----------------------------------------------------------------------------
\* A call other than send() moves on with nothing handed over: n is no send()
\* either.
LEMMA MovesOn ==
  ASSUME SockInv, SockType', NEW t \in Thread, NEW n, NEW e, UNCHANGED <<fds, peer, conn, dropped>>,
         net' = [net EXCEPT ![t] = n], eof' = [eof EXCEPT ![t] = e], net[t].fn # "send",
         Fits(conn[t], n), Ended(conn[t], n, e, peer), n.fn = "send" => n.sent = 0
  PROVE  SockInv'
<1>1. conn[t].conn # NoFd => Parts(peer[conn[t].conn]) /\ Whole(peer[conn[t].conn])
  BY WholeNow
<1>2. ThreadOk(conn[t], n, e, peer)
  BY <1>1 DEF ThreadOk, Progress
<1>3. /\ peer' = peer /\ UNCHANGED <<fds, conn, dropped>>
      /\ conn[t].conn # NoFd => Parts(peer'[conn[t].conn])
      /\ ThreadOk(conn[t], n, e, peer')
      /\ \A x \in Descriptors : x # conn[t].conn =>
           /\ peer'[x].taken = peer[x].taken /\ peer'[x].cuts = peer[x].cuts
           /\ peer'[x].inbox = peer[x].inbox /\ peer'[x].closed = peer[x].closed
  BY <1>1, <1>2
<1> QED
  BY <1>3, QuietStep

\* The steps of pl_sock_listen and pl_sock_connect.
LEMMA ResolveFailsStep ==
  ASSUME SockInv, NEW t \in Thread, ResolveFails(t)
  PROVE  SockInv'
<1> DEFINE n == [fn |-> "message"]
<1>1. n \in Net /\ n.fn = "message"
  BY NetMade
<1>2. net' = [net EXCEPT ![t] = n] /\ net[t].fn \in {"listen", "connect"}
      /\ UNCHANGED <<fds, peer, conn, dropped>>
  BY DEF ResolveFails, Resolving
<1> HIDE DEF n
<1>3. /\ [why |-> "resolve", timeout |-> FALSE] \in Error
      /\ [sockerr EXCEPT !.why = "resolve"] \in Error
  BY DEF Error, Why, SockInv, SockType
<1>4. SockType'
  BY <1>1, <1>2, <1>3 DEF SockInv, SockType, ResolveFails
<1>5. ~eof[t]
  BY <1>2 DEF SockInv, ThreadOk, Ended
<1>6. eof' = [eof EXCEPT ![t] = eof[t]]
  BY DEF SockInv, SockType, ResolveFails
<1>7. Fits(conn[t], n) /\ Ended(conn[t], n, eof[t], peer)
  BY <1>1, <1>5 DEF Fits, Ended
<1> QED
  BY <1>1, <1>2, <1>4, <1>6, <1>7, MovesOn

LEMMA AddressRefusedStep ==
  ASSUME SockInv, NEW t \in Thread, AddressRefused(t)
  PROVE  SockInv'
<1> DEFINE n == [net[t] EXCEPT !.left = @ - 1]
<1>1. net[t] \in Net /\ net[t].fn \in {"listen", "connect"} /\ net[t].left > 0
  BY DEF SockInv, SockType, AddressRefused, Resolving
<1>2. n \in Net /\ n.fn = net[t].fn
  <2>1. net[t].left \in 0 .. Addresses
    BY <1>1, NetFacts
  <2>2. net[t].left - 1 \in 0 .. Addresses
    BY <1>1, <2>1, SocketBounds
  <2> QED
    BY <1>1, <2>2, NetFacts
<1>3. net' = [net EXCEPT ![t] = n] /\ UNCHANGED <<fds, peer, conn, dropped>>
  BY DEF AddressRefused
<1> HIDE DEF n
<1>4. SockType'
  BY <1>2, <1>3 DEF SockInv, SockType, AddressRefused
<1>5. ~eof[t]
  BY <1>1 DEF SockInv, ThreadOk, Ended
<1>6. eof' = [eof EXCEPT ![t] = eof[t]]
  BY DEF SockInv, SockType, AddressRefused
<1>7. Fits(conn[t], n) /\ Ended(conn[t], n, eof[t], peer)
  BY <1>1, <1>2, <1>5 DEF Fits, Ended
<1> QED
  BY <1>1, <1>2, <1>3, <1>4, <1>6, <1>7, MovesOn

LEMMA NoAddressLeftStep ==
  ASSUME SockInv, NEW t \in Thread, NoAddressLeft(t) \/ PortFails(t)
  PROVE  SockInv'
<1>1. net[t].fn \in {"listen", "connect"} /\ UNCHANGED <<fds, peer, caught, conn, dropped, eof>>
  BY DEF NoAddressLeft, Resolving, PortFails
<1>2. PICK w \in Why, b \in BOOLEAN : Fails(t, w, b)
  <2>1. {"listen", "connect", "getsockname"} \subseteq Why
    BY DEF Why
  <2>2. CASE NoAddressLeft(t)
    <3>1. PICK b \in BOOLEAN : Fails(t, net[t].fn, b)
      BY <2>2 DEF NoAddressLeft
    <3> QED
      BY <1>1, <2>1, <3>1
  <2>3. CASE PortFails(t)
    BY <2>1, <2>3 DEF PortFails
  <2> QED
    BY <2>2, <2>3
<1>3. /\ peer' \in [Descriptors -> Peer]
      /\ \A x \in Descriptors :
           /\ peer'[x].taken = peer[x].taken /\ peer'[x].cuts = peer[x].cuts
           /\ peer'[x].inbox = peer[x].inbox /\ peer'[x].closed = peer[x].closed
  BY <1>1 DEF SockInv, SockType
<1>4. net[t].fn \notin {"idle", "returned", "send"}
  BY <1>1
<1> QED
  BY <1>1, <1>2, <1>3, <1>4, FailsQuietly

\* A descriptor is opened for thread t, in the place its pair has for it.
LEMMA OpenStep ==
  ASSUME SockInv, NEW t \in Thread, NEW d \in FreeFd, NEW var \in {"listener", "conn"},
         net[t].fn \in {"listen", "connect", "accept"},
         Assign(t, var, d), Succeeds(t), UNCHANGED <<caught, eof>>,
         fds' = [fds EXCEPT ![d] = IF var = "listener" THEN "listen" ELSE "conn"],
         peer' \in [Descriptors -> Peer], peer'[d] = NoPeer,
         \A x \in Descriptors : x # d =>
           /\ peer'[x].taken = peer[x].taken /\ peer'[x].cuts = peer[x].cuts
           /\ peer'[x].inbox = peer[x].inbox /\ peer'[x].closed = peer[x].closed
  PROVE  SockInv'
<1> DEFINE kind == IF var = "listener" THEN "listen" ELSE "conn"
           old  == IF var = "listener" THEN conn[t].listener ELSE conn[t].conn
           c    == IF var = "listener" THEN [conn[t] EXCEPT !.listener = d] ELSE [conn[t] EXCEPT !.conn = d]
<1>1. /\ SockType /\ Held /\ DescriptorsHeld /\ Streams
      /\ \A u \in Thread : ThreadOk(conn[u], net[u], eof[u], peer)
  BY DEF SockInv
<1>2. d \in Descriptors /\ d # NoFd /\ fds[d] = ""
  BY SocketBounds DEF FreeFd, NoFd
<1>3. ASSUME NEW u \in Thread
      PROVE  /\ conn[u] \in Pair /\ conn[u].listener # d /\ conn[u].conn # d
             /\ conn[u].listener # NoFd => conn[u].listener \in Descriptors
             /\ conn[u].conn # NoFd => conn[u].conn \in Descriptors
  <2>1. "listen" # "" /\ "conn" # ""
    OBVIOUS
  <2> QED
    BY <1>2, <2>1, OwnFds
<1>4. /\ conn' = [conn EXCEPT ![t] = c] /\ dropped' = dropped \cup ({old} \ {NoFd})
      /\ c \in Pair
      /\ var = "listener" => c.listener = d /\ c.conn = conn[t].conn /\ old = conn[t].listener
      /\ var = "conn" => c.conn = d /\ c.listener = conn[t].listener /\ old = conn[t].conn
  <2>1. d \in Fd /\ conn[t] \in Pair
    BY <1>2, <1>3 DEF Fd
  <2>2. CASE var = "listener"
    BY <2>1, <2>2 DEF Assign, Pair
  <2>3. CASE var = "conn"
    BY <2>1, <2>3 DEF Assign, Pair
  <2> QED
    BY <2>2, <2>3
<1>5. /\ var = "listener" => kind = "listen"
      /\ var = "conn" => kind = "conn"
      /\ kind \in {"listen", "conn"} /\ fds' = [fds EXCEPT ![d] = kind]
  OBVIOUS
<1> HIDE DEF kind, old, c
<1>6. /\ \A x \in Descriptors : x # d => fds'[x] = fds[x]
      /\ fds'[d] = kind /\ fds' \in [Descriptors -> Kind]
      /\ conn'[t] = c /\ \A u \in Thread : u # t => conn'[u] = conn[u]
      /\ conn' \in [Thread -> Pair]
  BY <1>1, <1>2, <1>4, <1>5 DEF SockType, Kind
<1>7. old # NoFd => old \in Descriptors /\ old # d /\ fds[old] = kind /\ old \notin dropped
  <2>1. CASE var = "listener"
    <3>1. old = conn[t].listener /\ kind = "listen"
      BY <1>4, <1>5, <2>1
    <3> QED
      BY <1>3, <3>1, OwnFds
  <2>2. CASE var = "conn"
    <3>1. old = conn[t].conn /\ kind = "conn"
      BY <1>4, <1>5, <2>2
    <3> QED
      BY <1>3, <3>1, OwnFds
  <2> QED
    BY <2>1, <2>2
<1>8. /\ sockerr' \in Error /\ cause' \in [Thread -> Error] /\ writer' \in Thread \cup {NoWriter}
      /\ net' \in [Thread -> Net] /\ net'[t].fn = "returned"
      /\ \A u \in Thread : u # t => net'[u] = net[u]
  BY <1>1, SucceedsType
<1>9. SockType'
  BY <1>1, <1>4, <1>6, <1>7, <1>8 DEF SockType
<1>10. ASSUME NEW u \in Thread
       PROVE  /\ conn'[u].listener # NoFd => fds'[conn'[u].listener] = "listen"
              /\ conn'[u].conn # NoFd => fds'[conn'[u].conn] = "conn"
  <2>1. /\ conn[u].listener # NoFd => fds'[conn[u].listener] = "listen"
        /\ conn[u].conn # NoFd => fds'[conn[u].conn] = "conn"
    BY <1>1, <1>3, <1>6 DEF Held
  <2>2. CASE u = t
    BY <1>4, <1>5, <1>6, <2>1, <2>2
  <2>3. CASE u # t
    BY <1>6, <2>1, <2>3
  <2> QED
    BY <2>2, <2>3
<1>11. dropped' \subseteq Descriptors /\ d \notin dropped' /\ \A x \in dropped' : fds'[x] # ""
  <2>1. d \notin dropped /\ dropped \subseteq Descriptors
    BY <1>1, <1>2 DEF Held, SockType
  <2>2. ASSUME NEW x \in dropped' PROVE x \in Descriptors /\ x # d /\ fds[x] # ""
    <3>1. CASE x \in dropped
      BY <1>1, <2>1, <3>1 DEF Held
    <3>2. CASE x \notin dropped
      <4>1. x = old /\ old # NoFd
        BY <1>4, <3>2
      <4> QED
        BY <1>5, <1>7, <4>1
    <3> QED
      BY <3>1, <3>2
  <2> QED
    BY <1>6, <2>2
<1>12. Held'
  BY <1>10, <1>11 DEF Held
<1>13. ASSUME NEW x \in Descriptors, fds'[x] # ""
       PROVE  x \in dropped' \/ \E u \in Thread : x \in {conn'[u].listener, conn'[u].conn}
  <2>1. CASE x = d
    BY <1>4, <1>6, <2>1
  <2>2. CASE x # d
    <3>1. fds[x] # ""
      BY <1>6, <1>13, <2>2
    <3>2. CASE x \in dropped
      BY <1>4, <3>2
    <3>3. CASE x \notin dropped
      <4>1. PICK u \in Thread : x \in {conn[u].listener, conn[u].conn}
        BY <1>1, <3>1, <3>3 DEF DescriptorsHeld, Has
      <4>2. CASE u = t
        <5>1. x = old \/ x \in {c.listener, c.conn}
          BY <1>4, <4>1, <4>2
        <5> QED
          BY <1>2, <1>4, <1>6, <5>1, SocketBounds DEF NoFd
      <4>3. CASE u # t
        BY <1>6, <4>1, <4>3
      <4> QED
        BY <4>2, <4>3
    <3> QED
      BY <3>2, <3>3
  <2> QED
    BY <2>1, <2>2
<1>14. ASSUME NEW u \in Thread, NEW x \in Descriptors, x \in {conn'[u].listener, conn'[u].conn}
       PROVE  /\ fds'[x] # "" /\ x \notin dropped'
              /\ \A v \in Thread \ {u} : x \notin {conn'[v].listener, conn'[v].conn}
  <2>0. x # NoFd
    BY SocketBounds DEF NoFd
  <2>1. CASE x = d
    <3>1. u = t
      BY <1>3, <1>6, <1>14, <2>1
    <3>2. fds'[x] # ""
      <4>1. "listen" # "" /\ "conn" # ""
        OBVIOUS
      <4> QED
        BY <1>5, <1>6, <2>1, <4>1
    <3>3. x \notin dropped'
      BY <1>11, <2>1
    <3>4. \A v \in Thread \ {u} : x \notin {conn'[v].listener, conn'[v].conn}
      BY <1>3, <1>6, <2>1, <3>1
    <3> QED
      BY <3>2, <3>3, <3>4
  <2>2. CASE x # d
    <3>1. x \in {conn[u].listener, conn[u].conn}
      BY <1>4, <1>6, <1>14, <2>2
    <3>2. /\ fds[x] # "" /\ x \notin dropped
          /\ \A v \in Thread \ {u} : x \notin {conn[v].listener, conn[v].conn}
      BY <1>1, <3>1 DEF DescriptorsHeld, Has
    <3>3. x # old
      <4>1. CASE u = t
        <5>1. conn[t].conn # NoFd => conn[t].conn # conn[t].listener
          BY OwnFds
        <5> QED
          BY <1>4, <1>6, <1>14, <2>0, <2>2, <4>1, <5>1
      <4>2. CASE u # t
        BY <1>4, <3>2, <4>2
      <4> QED
        BY <4>1, <4>2
    <3>4. \A v \in Thread \ {u} : x \notin {conn'[v].listener, conn'[v].conn}
      BY <1>4, <1>6, <2>2, <3>2
    <3> QED
      BY <1>4, <1>6, <2>2, <3>2, <3>3, <3>4
  <2> QED
    BY <2>1, <2>2
<1>15. DescriptorsHeld'
  BY <1>13, <1>14 DEF DescriptorsHeld, Has
<1>16. NoPeer.taken = <<>> /\ Parts(NoPeer) /\ Whole(NoPeer)
  <2>1. NoPeer.taken = <<>> /\ NoPeer.cuts = {} /\ Len(<<>>) = 0
    BY DEF NoPeer
  <2> QED
    BY <2>1 DEF Parts, Whole, Starts
<1>17. ASSUME NEW x \in Descriptors, x # d
       PROVE  /\ Parts(peer[x]) => Parts(peer'[x])
              /\ Whole(peer[x]) => Whole(peer'[x])
              /\ \A m : Progress(peer[x], m) => Progress(peer'[x], m)
  <2>1. peer'[x].taken = peer[x].taken /\ peer'[x].cuts = peer[x].cuts
    BY <1>17
  <2> QED
    BY <2>1, Alike
<1>18. conn[t].conn # NoFd => Whole(peer[conn[t].conn]) /\ Whole(peer'[conn[t].conn])
  <2>1. net[t].fn # "send"
    OBVIOUS
  <2> QED
    BY <1>3, <1>17, <2>1, WholeNow
<1>19. Streams'
  <2>1. ASSUME NEW x \in Descriptors
        PROVE  Parts(peer'[x]) /\ ((\A u \in Thread : conn'[u].conn # x) => Whole(peer'[x]))
    <3>1. CASE x = d
      BY <1>16, <3>1
    <3>2. CASE x # d
      <4>1. Parts(peer'[x])
        BY <1>1, <1>17, <3>2 DEF Streams
      <4>2. ASSUME \A u \in Thread : conn'[u].conn # x
            PROVE  Whole(peer'[x])
        <5>1. CASE x = conn[t].conn
          BY <1>18, <5>1, SocketBounds DEF NoFd
        <5>2. CASE x # conn[t].conn
          <6>1. \A u \in Thread : conn[u].conn # x
            BY <1>6, <4>2, <5>2
          <6> QED
            BY <1>1, <1>17, <3>2, <6>1 DEF Streams
        <5> QED
          BY <5>1, <5>2
      <4> QED
        BY <4>1, <4>2
    <3> QED
      BY <3>1, <3>2
  <2> QED
    BY <2>1 DEF Streams
<1>20. ASSUME NEW u \in Thread
       PROVE  ThreadOk(conn'[u], net'[u], eof'[u], peer')
  <2>1. ThreadOk(conn[u], net[u], eof[u], peer) /\ eof'[u] = eof[u]
    BY <1>1
  <2>2. CASE u # t
    <3>1. conn[u].conn # NoFd => Progress(peer'[conn[u].conn], net[u])
      BY <1>3, <1>17, <2>1 DEF ThreadOk
    <3>2. conn[u].conn # NoFd =>
            /\ peer'[conn[u].conn].inbox = peer[conn[u].conn].inbox
            /\ peer'[conn[u].conn].closed = peer[conn[u].conn].closed
      BY <1>3
    <3> QED
      BY <1>6, <1>8, <2>1, <2>2, <3>1, <3>2 DEF ThreadOk, Ended
  <2>3. CASE u = t
    <3>1. ~eof'[t]
      BY <2>1, <2>3 DEF ThreadOk, Ended
    <3>2. c.conn # NoFd => Whole(peer'[c.conn])
      BY <1>4, <1>16, <1>18
    <3>3. conn'[t] = c /\ net'[t].fn = "returned"
      BY <1>6, <1>8
    <3> QED
      BY <2>3, <3>1, <3>2, <3>3 DEF ThreadOk, Fits, Progress, Ended
  <2> QED
    BY <2>2, <2>3
<1> QED
  BY <1>9, <1>12, <1>15, <1>19, <1>20 DEF SockInv

\* An address is taken.
LEMMA AddressTakenStep ==
  ASSUME SockInv, NEW t \in Thread, AddressTaken(t)
  PROVE  SockInv'
<1>1. net[t].fn \in {"listen", "connect"} /\ Succeeds(t) /\ UNCHANGED <<caught, eof>>
  BY DEF AddressTaken, Resolving
<1> DEFINE kind == IF net[t].fn = "listen" THEN "listen" ELSE "conn"
           var == IF net[t].fn = "listen" THEN "listener" ELSE "conn"
<1>2. PICK d \in FreeFd : Open(d, kind) /\ Assign(t, var, d)
  BY DEF AddressTaken
<1>3. SockType
  BY DEF SockInv
<1>4. NoPeer \in Peer
  BY EmptySeq DEF NoPeer, Peer
<1>5. /\ peer' \in [Descriptors -> Peer] /\ peer'[d] = NoPeer
      /\ \A x \in Descriptors : x # d => peer'[x] = peer[x]
  BY <1>2, <1>3, <1>4 DEF SockType, Open, FreeFd
<1>6. fds' = [fds EXCEPT ![d] = IF var = "listener" THEN "listen" ELSE "conn"]
  BY <1>2 DEF Open
<1>7. \A x \in Descriptors : x # d =>
        /\ peer'[x].taken = peer[x].taken /\ peer'[x].cuts = peer[x].cuts
        /\ peer'[x].inbox = peer[x].inbox /\ peer'[x].closed = peer[x].closed
  BY <1>5
<1>8. /\ net[t].fn \in {"listen", "connect", "accept"} /\ var \in {"listener", "conn"}
      /\ peer' \in [Descriptors -> Peer] /\ peer'[d] = NoPeer
  BY <1>1, <1>5
<1> HIDE DEF kind, var
<1> QED
  BY <1>1, <1>2, <1>6, <1>7, <1>8, OpenStep

\* A client is accepted.
LEMMA AcceptOneStep ==
  ASSUME SockInv, NEW t \in Thread, AcceptOne(t)
  PROVE  SockInv'
<1> DEFINE l == conn[t].listener
<1>1. net[t].fn = "accept" /\ peer[l].waiting > 0 /\ Succeeds(t) /\ UNCHANGED <<caught, eof>>
  BY DEF AcceptOne, Accepting
<1>2. PICK d \in FreeFd :
        /\ fds'  = [fds EXCEPT ![d] = "conn"]
        /\ peer' = [peer EXCEPT ![l].waiting = @ - 1, ![d] = NoPeer]
        /\ Assign(t, "conn", d)
  BY DEF AcceptOne
<1>3. SockType /\ l # NoFd
  BY <1>1 DEF SockInv, ThreadOk, Fits
<1>4. l \in Descriptors /\ d \in Descriptors /\ l # d /\ peer[l] \in Peer
  <2>1. l \in Descriptors /\ fds[l] = "listen" /\ peer[l] \in Peer
    BY <1>3, OwnFds
  <2>2. d \in Descriptors /\ fds[d] = ""
    BY DEF FreeFd
  <2> HIDE DEF l
  <2> QED
    BY <2>1, <2>2
<1>5. NoPeer \in Peer
  BY EmptySeq DEF NoPeer, Peer
<1> DEFINE p == [peer[l] EXCEPT !.waiting = @ - 1]
<1>6. p \in Peer /\ p.taken = peer[l].taken /\ p.cuts = peer[l].cuts /\ p.inbox = peer[l].inbox
      /\ p.closed = peer[l].closed
  <2> DEFINE q == peer[l]
             k == q.waiting - 1
  <2>1. q \in Peer /\ q.waiting > 0
    BY <1>1, <1>4
  <2> HIDE DEF q
  <2>2. k \in Nat
    BY <2>1 DEF Peer
  <2> HIDE DEF k
  <2>3. /\ [q EXCEPT !.waiting = k] \in Peer
        /\ \A x \in {"taken", "cuts", "inbox", "closed"} : [q EXCEPT !.waiting = k][x] = q[x]
    BY <2>1, <2>2 DEF Peer
  <2>4. [q EXCEPT !.waiting = k] = p
    BY DEF q, k
  <2> QED
    BY <2>3, <2>4 DEF q
<1>7. peer'[d] = NoPeer /\ peer'[l] = p /\ \A x \in Descriptors : x # d /\ x # l => peer'[x] = peer[x]
  BY <1>2, <1>3, <1>4 DEF SockType
<1>8. peer' \in [Descriptors -> Peer]
  <2>1. peer' = [x \in Descriptors |-> peer'[x]]
    BY <1>2, <1>3 DEF SockType
  <2>2. \A x \in Descriptors : peer'[x] \in Peer
    BY <1>3, <1>5, <1>6, <1>7 DEF SockType
  <2> QED
    BY <2>1, <2>2
<1>9. \A x \in Descriptors : x # d =>
        /\ peer'[x].taken = peer[x].taken /\ peer'[x].cuts = peer[x].cuts
        /\ peer'[x].inbox = peer[x].inbox /\ peer'[x].closed = peer[x].closed
  BY <1>6, <1>7
<1>10. fds' = [fds EXCEPT ![d] = IF "conn" = "listener" THEN "listen" ELSE "conn"]
       /\ "conn" \in {"listener", "conn"} /\ net[t].fn \in {"listen", "connect", "accept"}
  BY <1>1, <1>2
<1> HIDE DEF p, l
<1> QED
  BY <1>1, <1>2, <1>7, <1>8, <1>9, <1>10, OpenStep

-----------------------------------------------------------------------------
\* a is the next k units of message m, of which s have been handed over, and it
\* takes peer p to q.
Piece(a, m, s, k) == a \in Seq(Unit) /\ Len(a) = k /\ \A i \in 1 .. k : a[i] = <<m, s + i>>
Takes(p, a, q)    == p \in Peer /\ q \in Peer /\ q.taken = p.taken \o a /\ q.cuts = p.cuts

\* What send() takes from a message.
LEMMA RestFacts ==
  ASSUME NEW m \in Messages, NEW s \in 0 .. Units, NEW k \in 1 .. Units - s
  PROVE  Piece(SubSeq(SubSeq(Message(m), s + 1, Units), 1, k), m, s, k)
<1> DEFINE b == SubSeq(Message(m), s + 1, Units)
<1>1. Units \in Nat /\ s \in Nat /\ k \in Nat /\ k >= 1 /\ s + k <= Units
  BY SocketBounds
<1>2. Message(m) \in Seq(Unit) /\ Len(Message(m)) = Units /\ \A i \in 1 .. Units : Message(m)[i] = <<m, i>>
  BY <1>1 DEF Message, Unit
<1>3. b \in Seq(Unit) /\ Len(b) = Units - s /\ \A i \in 1 .. Units - s : b[i] = <<m, s + i>>
  <2>1. /\ s + 1 \in 1 .. Units + 1 /\ Units \in s .. Units
        /\ \A i \in 1 .. Units - s : s + i \in 1 .. Units
    BY <1>1
  <2> HIDE DEF b
  <2>2. b \in Seq(Unit) /\ Len(b) = Units - s /\ \A i \in 1 .. Units - s : b[i] = Message(m)[s + 1 + i - 1]
    <3>1. s + 1 \in Int /\ Units \in Int /\ \A i \in s + 1 .. Units : Message(m)[i] \in Unit
      BY <1>1, <1>2
    <3>2. /\ b \in Seq(Unit) /\ Len(b) = IF s + 1 <= Units THEN Units - (s + 1) + 1 ELSE 0
          /\ \A i \in 1 .. Units - (s + 1) + 1 : b[i] = Message(m)[s + 1 + i - 1]
      BY <3>1, SubSeqProperties DEF b
    <3>3. Units - (s + 1) + 1 = Units - s /\ s + 1 <= Units
      BY <1>1
    <3> QED
      BY <3>2, <3>3
  <2>3. \A i \in 1 .. Units - s : s + 1 + i - 1 = s + i
    BY <1>1
  <2> QED
    BY <1>2, <2>1, <2>2, <2>3
<1> HIDE DEF b
<1> DEFINE a == SubSeq(b, 1, k)
<1>4. a \in Seq(Unit) /\ Len(a) = k /\ \A i \in 1 .. k : a[i] = b[i]
  BY <1>1, <1>3
<1>5. \A i \in 1 .. k : i \in 1 .. Units - s
  BY <1>1
<1> HIDE DEF a
<1>6. a \in Seq(Unit) /\ Len(a) = k /\ \A i \in 1 .. k : a[i] = <<m, s + i>>
  BY <1>3, <1>4, <1>5
<1> QED
  BY <1>6 DEF a, b, Piece

\* More of a message goes on where what was handed over ends.
LEMMA PartsAppend ==
  ASSUME NEW p, NEW q, NEW a, NEW m \in Messages, NEW s \in 0 .. Units, NEW k \in 1 .. Units - s,
         Piece(a, m, s, k), Takes(p, a, q), Parts(p),
         \/ s = 0 /\ Whole(p)
         \/ s > 0 /\ p.taken # <<>> /\ Last(p.taken) = <<m, s>> /\ Len(p.taken) \notin p.cuts
  PROVE  Parts(q) /\ q.taken # <<>> /\ Last(q.taken) = <<m, s + k>> /\ Len(q.taken) \notin q.cuts
<1>0. /\ p \in Peer /\ q \in Peer /\ q.taken = p.taken \o a /\ q.cuts = p.cuts
      /\ a \in Seq(Unit) /\ Len(a) = k /\ \A i \in 1 .. k : a[i] = <<m, s + i>>
  BY DEF Piece, Takes
<1> DEFINE b == p.taken
           c == q.taken
           n == Len(p.taken)
<1>1. /\ Units \in Nat /\ s \in Nat /\ k \in Nat /\ k >= 1 /\ s + k <= Units /\ n \in Nat
      /\ b \in Seq(Unit) /\ DOMAIN b = 1 .. n /\ p.cuts \subseteq 1 .. n
  <2>1. b \in Seq(Unit) /\ p.cuts \subseteq 1 .. n
    BY <1>0 DEF Peer, Parts
  <2> QED
    BY <2>1, SocketBounds
<1>2. /\ c \in Seq(Unit) /\ Len(c) = n + k /\ DOMAIN c = 1 .. n + k
      /\ \A i \in 1 .. n : c[i] = b[i]
      /\ \A i \in n + 1 .. n + k : c[i] = a[i - n]
  <2>1. /\ c \in Seq(Unit) /\ Len(c) = n + k
        /\ \A i \in 1 .. n + k : c[i] = IF i <= n THEN b[i] ELSE a[i - n]
    <3>1. c = b \o a /\ n = Len(b) /\ b \in Seq(Unit) /\ a \in Seq(Unit) /\ Len(a) = k
      BY <1>0, <1>1
    <3> HIDE DEF b, c, n
    <3>2. /\ b \o a \in Seq(Unit) /\ Len(b \o a) = Len(b) + Len(a)
          /\ \A i \in 1 .. Len(b) + Len(a) : (b \o a)[i] = IF i <= Len(b) THEN b[i] ELSE a[i - Len(b)]
      BY <3>1, ConcatProperties
    <3> QED
      BY <3>1, <3>2
  <2> QED
    BY <1>1, <2>1
<1>3. /\ Parts(p) /\ q.cuts = p.cuts
      /\ \A i : Starts(p, i) <=> i = 1 \/ b[i - 1][2] = Units \/ i - 1 \in p.cuts
      /\ \A i : Starts(q, i) <=> i = 1 \/ c[i - 1][2] = Units \/ i - 1 \in p.cuts
  BY <1>0 DEF Starts
<1>4. \A i \in 1 .. n : IF Starts(p, i) THEN b[i][2] = 1 ELSE b[i] = <<b[i - 1][1], b[i - 1][2] + 1>>
  BY <1>1, <1>3 DEF Parts
<1>5. \/ s = 0 /\ (n + 1 = 1 \/ b[n][2] = Units \/ n \in p.cuts)
      \/ s > 0 /\ n > 0 /\ b[n] = <<m, s>> /\ n \notin p.cuts
  <2>1. CASE s = 0 /\ Whole(p)
    <3>1. n + 1 - 1 = n
      BY <1>1
    <3> QED
      BY <1>3, <2>1, <3>1 DEF Whole
  <2>2. CASE s > 0 /\ b # <<>> /\ Last(b) = <<m, s>> /\ n \notin p.cuts
    <3>1. n > 0 /\ Last(b) = b[n]
      BY <1>1, <2>2, EmptySeq DEF Last
    <3> QED
      BY <2>2, <3>1
  <2> QED
    BY <2>1, <2>2
<1> HIDE DEF b, c, n
<1>6. \A i \in n + 1 .. n + k : i - n \in 1 .. k /\ c[i] = <<m, s + (i - n)>>
  BY <1>0, <1>1, <1>2
<1>7. c[n + k] = <<m, s + k>>
  <2>1. n + k \in n + 1 .. n + k /\ (n + k) - n = k
    BY <1>1
  <2> QED
    BY <1>6, <2>1
<1>8. c # <<>> /\ Last(c) = <<m, s + k>>
  BY <1>1, <1>2, <1>7 DEF Last
<1>9. ASSUME NEW i \in 1 .. n + k
      PROVE  IF Starts(q, i) THEN c[i][2] = 1 ELSE c[i] = <<c[i - 1][1], c[i - 1][2] + 1>>
  <2>1. CASE i \in 1 .. n
    <3>1. i = 1 \/ i - 1 \in 1 .. n
      BY <1>1, <2>1
    <3>2. c[i] = b[i] /\ (i # 1 => c[i - 1] = b[i - 1])
      BY <1>2, <2>1, <3>1
    <3>3. Starts(q, i) <=> Starts(p, i)
      BY <1>3, <3>2
    <3>4. ~Starts(p, i) => i # 1
      BY <1>3
    <3> QED
      BY <1>4, <2>1, <3>2, <3>3, <3>4
  <2>2. CASE i > n + 1
    <3>1. i - 1 \in n + 1 .. n + k /\ i \in n + 1 .. n + k /\ i # 1 /\ s + (i - 1 - n) < Units
          /\ i - 1 \notin p.cuts
      BY <1>1, <2>2
    <3>2. c[i - 1] = <<m, s + (i - 1 - n)>> /\ c[i] = <<m, s + (i - n)>>
      BY <1>6, <3>1
    <3>3. s + (i - n) = (s + (i - 1 - n)) + 1 /\ s + (i - 1 - n) # Units
      BY <1>1, <3>1
    <3>4. ~Starts(q, i)
      BY <1>3, <3>1, <3>2, <3>3
    <3> QED
      BY <3>2, <3>3, <3>4
  <2>3. CASE i = n + 1
    <3>1. c[i] = <<m, s + 1>> /\ i - 1 = n
      <4>1. i \in n + 1 .. n + k /\ i - n = 1
        BY <1>1, <2>3
      <4> QED
        BY <1>1, <1>6, <2>3, <4>1
    <3>2. n > 0 => c[n] = b[n]
      BY <1>1, <1>2
    <3>3. CASE s = 0 /\ (n + 1 = 1 \/ b[n][2] = Units \/ n \in p.cuts)
      <4>1. Starts(q, i)
        <5>1. CASE n + 1 = 1
          BY <1>3, <2>3, <5>1
        <5>2. CASE n + 1 # 1
          <6>1. n > 0
            BY <1>1, <5>2
          <6> QED
            BY <1>3, <3>1, <3>2, <3>3, <5>2, <6>1
        <5> QED
          BY <5>1, <5>2
      <4> QED
        BY <3>1, <3>3, <4>1
    <3>4. CASE s > 0 /\ n > 0 /\ b[n] = <<m, s>> /\ n \notin p.cuts
      <4>1. i # 1 /\ s # Units /\ c[i - 1] = <<m, s>>
        BY <1>1, <2>3, <3>1, <3>2, <3>4
      <4>2. ~Starts(q, i)
        BY <1>3, <3>1, <3>4, <4>1
      <4> QED
        BY <3>1, <4>1, <4>2
    <3> QED
      BY <1>5, <3>3, <3>4
  <2> QED
    BY <1>1, <2>1, <2>2, <2>3
<1>10. q.cuts \subseteq 1 .. Len(c) /\ Len(c) \notin q.cuts
  BY <1>1, <1>2, <1>3
<1>11. Parts(q)
  BY <1>2, <1>9, <1>10 DEF Parts, c
<1> QED
  BY <1>8, <1>10, <1>11 DEF c

\* send() takes a part of the message.
LEMMA SendSomeStep ==
  ASSUME SockInv, NEW t \in Thread, SendSome(t)
  PROVE  SockInv'
<1> DEFINE d == conn[t].conn
           m == net[t].m
           s == net[t].sent
<1>1. net[t].fn = "send" /\ s < Units
  BY DEF SendSome, Sending
<1>2. PICK k \in 1 .. Units - s :
        /\ peer' = [peer EXCEPT ![d].taken = @ \o SubSeq(Rest(t), 1, k)]
        /\ net' = [net EXCEPT ![t].sent = @ + k]
  BY DEF SendSome
<1>3. SockType /\ ThreadOk(conn[t], net[t], eof[t], peer)
  BY DEF SockInv
<1>4. net[t] \in Net /\ m \in Messages /\ s \in 0 .. Units /\ s + k \in 0 .. Units /\ s + k > 0
  <2>1. net[t] \in Net
    BY <1>3 DEF SockType
  <2>2. m \in Messages /\ s \in 0 .. Units
    BY <1>1, <2>1, NetFacts
  <2>3. s + k \in 0 .. Units /\ s + k > 0
    BY <2>2, SocketBounds
  <2> QED
    BY <2>1, <2>2, <2>3
<1>5. d # NoFd /\ d \in Descriptors /\ peer[d] \in Peer
  BY <1>1, <1>3, OwnFds DEF ThreadOk, Fits
<1> DEFINE a == SubSeq(Rest(t), 1, k)
<1>6. Piece(a, m, s, k)
  <2> HIDE DEF a
  <2>1. a = SubSeq(SubSeq(Message(m), s + 1, Units), 1, k)
    BY DEF Rest, a
  <2> QED
    BY <1>4, <2>1, RestFacts
<1> HIDE DEF a
<1> DEFINE p == [peer[d] EXCEPT !.taken = @ \o a]
           n == [net[t] EXCEPT !.sent = @ + k]
<1>7. /\ p \in Peer /\ p.taken = peer[d].taken \o a /\ p.cuts = peer[d].cuts
      /\ p.inbox = peer[d].inbox /\ p.closed = peer[d].closed
  <2>1. peer[d].taken \o a \in Seq(Unit)
    BY <1>5, <1>6 DEF Peer, Piece
  <2> DEFINE c == peer[d].taken \o a
  <2>2. p = [peer[d] EXCEPT !.taken = c] /\ c \in Seq(Unit)
    BY <2>1
  <2> HIDE DEF c, p
  <2>3. /\ p \in Peer /\ p.taken = c /\ p.cuts = peer[d].cuts
        /\ p.inbox = peer[d].inbox /\ p.closed = peer[d].closed
    BY <1>5, <2>2 DEF Peer
  <2> QED
    BY <2>3 DEF c
<1>8. n \in Net /\ n.fn = "send" /\ n.m = m /\ n.sent = s + k
  BY <1>1, <1>4, NetFacts
<1>9. peer' = [peer EXCEPT ![d] = p] /\ net' = [net EXCEPT ![t] = n]
  BY <1>2 DEF a
<1> HIDE DEF p, n
<1>10. Parts(p) /\ Progress(p, n)
  <2>1. Parts(peer[d]) /\ Progress(peer[d], net[t])
    BY <1>3, <1>5 DEF SockInv, Streams, ThreadOk
  <2>2. \/ s = 0 /\ Whole(peer[d])
        \/ s > 0 /\ peer[d].taken # <<>> /\ Last(peer[d].taken) = <<m, s>> /\ Len(peer[d].taken) \notin peer[d].cuts
    BY <1>1, <2>1 DEF Progress
  <2>3. Takes(peer[d], a, p)
    BY <1>5, <1>7 DEF Takes
  <2>4. Parts(p) /\ p.taken # <<>> /\ Last(p.taken) = <<m, s + k>> /\ Len(p.taken) \notin p.cuts
    <3> HIDE DEF m, s, d
    <3> QED
      BY <1>4, <1>6, <2>1, <2>2, <2>3, PartsAppend
  <2> QED
    BY <1>4, <1>8, <2>4 DEF Progress
<1>11. /\ peer' \in [Descriptors -> Peer] /\ peer'[d] = p
       /\ \A x \in Descriptors : x # d => peer'[x] = peer[x]
  BY <1>3, <1>5, <1>7, <1>9 DEF SockType
<1>12. net' \in [Thread -> Net]
  BY <1>3, <1>8, <1>9 DEF SockType
<1>13. UNCHANGED <<fds, sockerr, writer, cause, caught, conn, dropped, eof>>
  BY DEF SendSome
<1>14. SockType'
  BY <1>3, <1>11, <1>12, <1>13 DEF SockType
<1>15. ~eof[t]
  BY <1>1, <1>3 DEF ThreadOk, Ended
<1>16. ThreadOk(conn[t], n, eof[t], peer')
  BY <1>5, <1>8, <1>10, <1>11, <1>15 DEF ThreadOk, Fits, Ended
<1>17. eof' = [eof EXCEPT ![t] = eof[t]]
  BY <1>3, <1>13 DEF SockType
<1>18. \A x \in Descriptors : x # conn[t].conn =>
         /\ peer'[x].taken = peer[x].taken /\ peer'[x].cuts = peer[x].cuts
         /\ peer'[x].inbox = peer[x].inbox /\ peer'[x].closed = peer[x].closed
  BY <1>11
<1>19. Parts(peer'[conn[t].conn]) /\ UNCHANGED <<fds, conn, dropped>>
  BY <1>10, <1>11, <1>13
<1> QED
  BY <1>9, <1>14, <1>16, <1>17, <1>18, <1>19, QuietStep

\* send() fails: in the middle of a message the stream is broken off there.
LEMMA SendFailsStep ==
  ASSUME SockInv, NEW t \in Thread, SendFails(t)
  PROVE  SockInv'
<1> DEFINE d == conn[t].conn
<1>1. PICK b \in BOOLEAN : Fails(t, "send", b)
  BY DEF SendFails
<1>2. /\ net[t].fn = "send" /\ UNCHANGED <<fds, caught, conn, dropped, eof>>
      /\ peer' = IF net[t].sent = 0 THEN peer ELSE [peer EXCEPT ![d].cuts = @ \cup {Len(peer[d].taken)}]
  BY DEF SendFails, Sending
<1>3. SockType /\ ThreadOk(conn[t], net[t], eof[t], peer)
  BY DEF SockInv
<1>4. d # NoFd /\ d \in Descriptors /\ peer[d] \in Peer /\ Parts(peer[d]) /\ Progress(peer[d], net[t])
  BY <1>2, <1>3, OwnFds, WholeNow DEF ThreadOk, Fits
<1>5. PICK p \in Peer : /\ peer' = [peer EXCEPT ![d] = p] /\ Parts(p) /\ Whole(p) /\ p.taken = peer[d].taken
                        /\ p.inbox = peer[d].inbox /\ p.closed = peer[d].closed
  <2>1. CASE net[t].sent = 0
    <3>1. Whole(peer[d]) /\ peer' = [peer EXCEPT ![d] = peer[d]]
      BY <1>2, <1>3, <1>4, <2>1 DEF Progress, SockType
    <3> QED
      BY <1>4, <3>1
  <2>2. CASE net[t].sent # 0
    <3> DEFINE p == [peer[d] EXCEPT !.cuts = @ \cup {Len(peer[d].taken)}]
    <3>1. peer[d].taken \in Seq(Unit) /\ peer[d].taken # <<>> /\ peer[d].cuts \subseteq Nat
      BY <1>2, <1>4, <2>2 DEF Progress, Peer
    <3>2. Len(peer[d].taken) \in Nat /\ Len(peer[d].taken) >= 1 /\ DOMAIN peer[d].taken = 1 .. Len(peer[d].taken)
      BY <3>1, EmptySeq
    <3>3. /\ p \in Peer /\ p.taken = peer[d].taken /\ p.cuts = peer[d].cuts \cup {Len(peer[d].taken)}
          /\ p.inbox = peer[d].inbox /\ p.closed = peer[d].closed
      BY <1>4, <3>2 DEF Peer
    <3>4. peer' = [peer EXCEPT ![d] = p]
      BY <1>2, <2>2
    <3> HIDE DEF p
    <3>5. Whole(p)
      <4>1. Len(p.taken) + 1 - 1 \in p.cuts
        BY <3>2, <3>3
      <4> QED
        BY <4>1 DEF Whole, Starts
    <3>6. \A i \in DOMAIN p.taken : Starts(p, i) <=> Starts(peer[d], i)
      <4>1. \A i \in DOMAIN p.taken : i - 1 # Len(peer[d].taken)
        BY <3>2, <3>3
      <4> QED
        BY <3>3, <4>1 DEF Starts
    <3>7. Parts(p)
      <4>1. p.cuts \subseteq 1 .. Len(p.taken)
        BY <1>4, <3>2, <3>3 DEF Parts
      <4>2. \A i \in DOMAIN p.taken : IF Starts(p, i) THEN p.taken[i][2] = 1
                                      ELSE p.taken[i] = <<p.taken[i - 1][1], p.taken[i - 1][2] + 1>>
        BY <1>4, <3>3, <3>6 DEF Parts
      <4> QED
        BY <4>1, <4>2 DEF Parts
    <3> QED
      BY <3>3, <3>4, <3>5, <3>7
  <2> QED
    BY <2>1, <2>2
<1>6. /\ peer' \in [Descriptors -> Peer] /\ peer'[d] = p
      /\ \A x \in Descriptors : x # d => peer'[x] = peer[x]
  BY <1>3, <1>4, <1>5 DEF SockType
<1>7. \A x \in Descriptors :
        /\ peer'[x].taken = peer[x].taken
        /\ peer'[x].inbox = peer[x].inbox /\ peer'[x].closed = peer[x].closed
        /\ x # conn[t].conn => peer'[x].cuts = peer[x].cuts
  BY <1>5, <1>6
<1>8. /\ "send" \in Why /\ net[t].fn \notin {"idle", "returned"} /\ Parts(peer'[d]) /\ Whole(peer'[d])
      /\ UNCHANGED <<fds, caught, conn, dropped, eof>> /\ peer' \in [Descriptors -> Peer]
  BY <1>2, <1>5, <1>6 DEF Why
<1> QED
  BY <1>1, <1>7, <1>8, FailsStep

\* The other steps of a call in progress.
LEMMA AcceptStep ==
  ASSUME SockInv, NEW t \in Thread, AcceptTimesOut(t) \/ AcceptFails(t) \/ RecvFails(t)
  PROVE  SockInv'
<1>1. SockType /\ {"accept", "recv"} \subseteq Why
  BY DEF SockInv, Why
<1>2. CASE AcceptTimesOut(t)
  <2>1. /\ Fails(t, "accept", TRUE) /\ net[t].fn = "accept"
        /\ UNCHANGED <<fds, peer, caught, conn, dropped, eof>>
    BY <1>2 DEF AcceptTimesOut, Accepting
  <2> QED
    BY <1>1, <2>1, FailsQuietly DEF SockType
<1>3. CASE AcceptFails(t)
  <2> DEFINE l == conn[t].listener
  <2>1. net[t].fn = "accept" /\ peer[l].waiting > 0 /\ UNCHANGED <<fds, caught, conn, dropped, eof>>
    BY <1>3 DEF AcceptFails, Accepting
  <2>2. PICK gone \in 0 .. 1, b \in BOOLEAN :
          peer' = [peer EXCEPT ![l].waiting = @ - gone] /\ Fails(t, "accept", b)
    BY <1>3 DEF AcceptFails
  <2>3. l # NoFd
    BY <2>1 DEF SockInv, ThreadOk, Fits
  <2>4. l \in Descriptors /\ peer[l] \in Peer
    BY <2>3, OwnFds
  <2> DEFINE p == [peer[l] EXCEPT !.waiting = @ - gone]
  <2>5. /\ p \in Peer /\ p.taken = peer[l].taken /\ p.cuts = peer[l].cuts
        /\ p.inbox = peer[l].inbox /\ p.closed = peer[l].closed
    <3>1. peer[l].waiting - gone \in Nat
      BY <2>1, <2>4 DEF Peer
    <3> QED
      BY <2>4, <3>1 DEF Peer
  <2>6. peer' = [peer EXCEPT ![l] = p]
    BY <2>2
  <2> HIDE DEF l, p
  <2>7. peer' \in [Descriptors -> Peer] /\ peer'[l] = p /\ \A x \in Descriptors : x # l => peer'[x] = peer[x]
    BY <1>1, <2>4, <2>5, <2>6 DEF SockType
  <2>8. \A x \in Descriptors :
          /\ peer'[x].taken = peer[x].taken /\ peer'[x].cuts = peer[x].cuts
          /\ peer'[x].inbox = peer[x].inbox /\ peer'[x].closed = peer[x].closed
    BY <2>5, <2>7
  <2>9. net[t].fn \notin {"idle", "returned", "send"}
    BY <2>1
  <2> QED
    BY <1>1, <2>1, <2>2, <2>7, <2>8, <2>9, FailsQuietly
<1>4. CASE RecvFails(t)
  <2>1. PICK b \in BOOLEAN : Fails(t, "recv", b)
    BY <1>4 DEF RecvFails
  <2>2. net[t].fn = "recv" /\ UNCHANGED <<fds, peer, caught, conn, dropped, eof>>
    BY <1>4 DEF RecvFails, Receiving
  <2> QED
    BY <1>1, <2>1, <2>2, FailsQuietly DEF SockType
<1> QED
  BY <1>2, <1>3, <1>4

LEMMA SendDoneStep ==
  ASSUME SockInv, NEW t \in Thread, SendDone(t)
  PROVE  SockInv'
<1>1. Succeeds(t) /\ net[t].fn = "send" /\ net[t].sent = Units
      /\ UNCHANGED <<fds, peer, caught, conn, dropped, eof>>
  BY DEF SendDone, Sending
<1>2. /\ SockType /\ conn[t].conn # NoFd /\ ~eof[t] /\ conn[t].conn \in Descriptors
      /\ peer[conn[t].conn] \in Peer /\ Progress(peer[conn[t].conn], net[t])
  <2>1. SockType /\ ThreadOk(conn[t], net[t], eof[t], peer)
    BY DEF SockInv
  <2>2. conn[t].conn # NoFd /\ ~eof[t]
    BY <1>1, <2>1 DEF ThreadOk, Fits, Ended
  <2> QED
    BY <2>1, <2>2, OwnFds DEF ThreadOk
<1>3. Whole(peer[conn[t].conn])
  <2> DEFINE p == peer[conn[t].conn]
  <2>1. p.taken # <<>> /\ Last(p.taken)[2] = Units /\ p.taken \in Seq(Unit)
    <3>1. net[t].sent # 0
      BY <1>1, SocketBounds
    <3> QED
      BY <1>1, <1>2, <3>1 DEF Progress, Peer
  <2> HIDE DEF p
  <2>2. Len(p.taken) \in Nat /\ Last(p.taken) = p.taken[Len(p.taken) + 1 - 1]
    BY <2>1 DEF Last
  <2>3. Starts(p, Len(p.taken) + 1)
    BY <2>1, <2>2 DEF Starts
  <2> QED
    BY <2>3 DEF Whole, p
<1>4. /\ eof[t] \in BOOLEAN /\ eof' = [eof EXCEPT ![t] = eof[t]] /\ peer' \in [Descriptors -> Peer]
      /\ \A x \in Descriptors : peer'[x].taken = peer[x].taken /\ peer'[x].cuts = peer[x].cuts
      /\ \A x \in Descriptors : x # conn[t].conn =>
           peer'[x].inbox = peer[x].inbox /\ peer'[x].closed = peer[x].closed
  BY <1>1, <1>2 DEF SockType
<1> QED
  BY <1>1, <1>2, <1>3, <1>4, SucceedsStep

LEMMA RecvStep ==
  ASSUME SockInv, NEW t \in Thread, RecvSome(t) \/ RecvEof(t)
  PROVE  SockInv'
<1> DEFINE d == conn[t].conn
<1>1. Succeeds(t) /\ net[t].fn = "recv" /\ UNCHANGED <<fds, caught, conn, dropped>>
  BY DEF RecvSome, RecvEof, Receiving
<1>2. /\ SockType /\ d # NoFd /\ ~eof[t] /\ d \in Descriptors /\ peer[d] \in Peer /\ Whole(peer[d])
  <2>1. SockType /\ ThreadOk(conn[t], net[t], eof[t], peer)
    BY DEF SockInv
  <2>2. conn[t].conn # NoFd /\ ~eof[t]
    BY <1>1, <2>1 DEF ThreadOk, Fits, Ended
  <2> QED
    BY <1>1, <2>1, <2>2, OwnFds, WholeNow
<1>3. CASE RecvSome(t)
  <2>1. PICK k \in 1 .. peer[d].inbox : peer' = [peer EXCEPT ![d].inbox = @ - k]
    BY <1>3 DEF RecvSome
  <2> DEFINE p == [peer[d] EXCEPT !.inbox = @ - k]
  <2>2. p \in Peer /\ p.taken = peer[d].taken /\ p.cuts = peer[d].cuts
    <3>1. peer[d].inbox - k \in Nat
      BY <1>2, <2>1 DEF Peer
    <3> QED
      BY <1>2, <3>1 DEF Peer
  <2>3. peer' = [peer EXCEPT ![d] = p]
    BY <2>1
  <2> HIDE DEF p
  <2>4. peer' \in [Descriptors -> Peer] /\ peer'[d] = p /\ \A x \in Descriptors : x # d => peer'[x] = peer[x]
    BY <1>2, <2>2, <2>3 DEF SockType
  <2>5. /\ eof[t] \in BOOLEAN /\ eof' = [eof EXCEPT ![t] = eof[t]]
        /\ \A x \in Descriptors : peer'[x].taken = peer[x].taken /\ peer'[x].cuts = peer[x].cuts
        /\ \A x \in Descriptors : x # d =>
             peer'[x].inbox = peer[x].inbox /\ peer'[x].closed = peer[x].closed
    BY <1>2, <1>3, <2>2, <2>4 DEF SockType, RecvSome
  <2> QED
    BY <1>1, <1>2, <2>4, <2>5, SucceedsStep
<1>4. CASE RecvEof(t)
  <2>1. /\ eof' = [eof EXCEPT ![t] = TRUE] /\ peer' = peer /\ peer[d].inbox = 0 /\ peer[d].closed
    BY <1>4 DEF RecvEof
  <2>2. /\ peer' \in [Descriptors -> Peer] /\ peer'[d].inbox = 0 /\ peer'[d].closed
        /\ \A x \in Descriptors : peer'[x].taken = peer[x].taken /\ peer'[x].cuts = peer[x].cuts
        /\ \A x \in Descriptors : x # d =>
             peer'[x].inbox = peer[x].inbox /\ peer'[x].closed = peer[x].closed
    BY <1>2, <2>1 DEF SockType
  <2> QED
    BY <1>1, <1>2, <2>1, <2>2, SucceedsStep
<1> QED
  BY <1>3, <1>4

\* last_error() reads the reason, or there was no memory for the buffer of recv().
LEMMA ReadStep ==
  ASSUME SockInv, NEW t \in Thread, ReadMessage(t) \/ ReadFlag(t) \/ RecvNoMemory(t)
  PROVE  SockInv'
<1>1. SockType /\ UNCHANGED <<fds, peer, sockerr, writer, conn, dropped, eof>>
  BY DEF SockInv, ReadMessage, ReadFlag, RecvNoMemory
<1>2. PICK f \in {"message", "flag", "raised"} : net' = [net EXCEPT ![t] = [fn |-> f]]
  BY DEF ReadMessage, ReadFlag, RecvNoMemory
<1> DEFINE n == [fn |-> f]
<1>3. n \in Net /\ n.fn = f
  BY NetMade
<1>4. net' = [net EXCEPT ![t] = n] /\ net[t].fn \in {"message", "flag", "recv"}
  BY <1>2 DEF ReadMessage, ReadFlag, RecvNoMemory, Receiving
<1> HIDE DEF n
<1>5. [why |-> "memory", timeout |-> FALSE] \in Error
  BY DEF Error, Why
<1>6. cause' \in [Thread -> Error] /\ caught' \in [Thread -> Error]
  <2>1. CASE ReadMessage(t)
    BY <1>1, <2>1 DEF ReadMessage, SockType, Error
  <2>2. CASE ReadFlag(t)
    BY <1>1, <2>2 DEF ReadFlag, SockType, Error
  <2>3. CASE RecvNoMemory(t)
    BY <1>1, <1>5, <2>3 DEF RecvNoMemory, SockType
  <2> QED
    BY <2>1, <2>2, <2>3
<1>7. SockType'
  BY <1>1, <1>3, <1>4, <1>6 DEF SockType
<1>8. ~eof[t]
  BY <1>4 DEF SockInv, ThreadOk, Ended
<1>9. /\ eof' = [eof EXCEPT ![t] = eof[t]] /\ Fits(conn[t], n) /\ Ended(conn[t], n, eof[t], peer)
      /\ n.fn # "send" /\ net[t].fn # "send"
  BY <1>1, <1>3, <1>4, <1>8 DEF Fits, Ended, SockType
<1> QED
  BY <1>1, <1>4, <1>7, <1>9, MovesOn

LEMMA InCallStep ==
  ASSUME SockInv, NEW t \in Thread, InCall(t) \/ RecvNoMemory(t)
  PROVE  SockInv'
<1>1. CASE ResolveFails(t) \/ AddressRefused(t) \/ AddressTaken(t) \/ PortFails(t) \/ NoAddressLeft(t)
  BY <1>1, ResolveFailsStep, AddressRefusedStep, AddressTakenStep, NoAddressLeftStep
<1>2. CASE AcceptOne(t) \/ AcceptTimesOut(t) \/ AcceptFails(t) \/ RecvFails(t)
  BY <1>2, AcceptOneStep, AcceptStep
<1>3. CASE SendSome(t) \/ SendDone(t) \/ SendFails(t)
  BY <1>3, SendSomeStep, SendDoneStep, SendFailsStep
<1>4. CASE RecvSome(t) \/ RecvEof(t)
  BY <1>4, RecvStep
<1>5. CASE ReadMessage(t) \/ ReadFlag(t) \/ RecvNoMemory(t)
  BY <1>5, ReadStep
<1> QED
  BY <1>1, <1>2, <1>3, <1>4, <1>5 DEF InCall

-----------------------------------------------------------------------------
\* A call begins.
LEMMA BeginStep ==
  ASSUME SockInv, NEW t \in Thread,
         NEW f \in {"listen", "connect", "accept", "send", "recv"},
         NEW m, f = "send" => m \in Messages, Begin(t, f, m)
  PROVE  SockInv' /\ net'[t].fn = f
<1> DEFINE n == CASE f \in {"listen", "connect"} -> [fn |-> f, left |-> Addresses]
                  [] f = "send"                  -> [fn |-> f, m |-> m, sent |-> 0]
                  [] OTHER                       -> [fn |-> f]
<1>1. /\ net[t] = Idle /\ ~Shut(t, f)
      /\ eof' = [eof EXCEPT ![t] = FALSE] /\ net' = [net EXCEPT ![t] = n]
      /\ UNCHANGED <<fds, peer, sockerr, writer, cause, caught, conn, dropped>>
  BY DEF Begin
<1>2. n \in Net /\ n.fn = f /\ (f = "send" => n.sent = 0)
  <2>1. CASE f \in {"listen", "connect"}
    <3>1. n = [fn |-> f, left |-> Addresses] /\ Addresses \in 0 .. Addresses
      BY <2>1, SocketBounds
    <3> QED
      BY <2>1, <3>1, NetMade
  <2>2. CASE f = "send"
    <3>1. n = [fn |-> f, m |-> m, sent |-> 0]
      BY <2>2
    <3> QED
      BY <2>2, <3>1, NetMade
  <2>3. CASE f \in {"accept", "recv"}
    <3>1. n = [fn |-> f]
      BY <2>3
    <3> QED
      BY <2>3, <3>1, NetMade
  <2> QED
    BY <2>1, <2>2, <2>3
<1> HIDE DEF n
<1>3. SockType'
  BY <1>1, <1>2 DEF SockInv, SockType
<1>4. net[t].fn # "send" /\ Fits(conn[t], n) /\ Ended(conn[t], n, FALSE, peer)
  BY <1>1, <1>2 DEF Idle, Fits, Shut, Ended
<1>5. net'[t].fn = f
  BY <1>1, <1>2 DEF SockInv, SockType
<1> QED
  BY <1>1, <1>2, <1>3, <1>4, <1>5, MovesOn

\* A call on a closed connection raises at once.
LEMMA BeginShutStep ==
  ASSUME SockInv, NEW t \in Thread, NEW f, BeginShut(t, f)
  PROVE  SockInv' /\ net'[t].fn = "raised"
<1> DEFINE n == [fn |-> "raised"]
<1>1. n \in Net /\ n.fn = "raised"
  BY NetMade
<1>2. /\ net[t] = Idle /\ eof' = [eof EXCEPT ![t] = FALSE] /\ net' = [net EXCEPT ![t] = n]
      /\ UNCHANGED <<fds, peer, sockerr, writer, conn, dropped>>
  BY DEF BeginShut
<1> HIDE DEF n
<1>3. [why |-> "closed", timeout |-> FALSE] \in Error
  BY DEF Error, Why
<1>4. cause' \in [Thread -> Error] /\ caught' \in [Thread -> Error]
  BY <1>3 DEF SockInv, SockType, BeginShut
<1>5. SockType'
  BY <1>1, <1>2, <1>4 DEF SockInv, SockType
<1>6. net[t].fn # "send" /\ Fits(conn[t], n) /\ Ended(conn[t], n, FALSE, peer) /\ n.fn # "send"
  BY <1>1, <1>2 DEF Idle, Fits, Ended
<1>7. net'[t].fn = "raised"
  BY <1>1, <1>2 DEF SockInv, SockType
<1> QED
  BY <1>2, <1>5, <1>6, <1>7, MovesOn

\* A call has returned or raised.
LEMMA FinishStep ==
  ASSUME SockInv, NEW t \in Thread, Finish(t)
  PROVE  SockInv'
<1>1. /\ SockType /\ net[t].fn \in {"returned", "raised"} /\ net' = [net EXCEPT ![t] = Idle]
      /\ caught' = [caught EXCEPT ![t] = NoError] /\ cause' = [cause EXCEPT ![t] = NoError]
      /\ UNCHANGED <<fds, peer, sockerr, writer, conn, dropped, eof>>
  BY DEF SockInv, Finish
<1>2. NoError \in Error /\ Idle \in Net /\ Idle.fn = "idle"
  BY NetMade DEF NoError, Error, Why, Idle
<1>3. SockType'
  BY <1>1, <1>2 DEF SockType
<1>4. Fits(conn[t], Idle) /\ Ended(conn[t], Idle, eof[t], peer) /\ eof' = [eof EXCEPT ![t] = eof[t]]
  BY <1>1, <1>2 DEF Fits, Ended, SockType
<1> QED
  BY <1>1, <1>2, <1>3, <1>4, MovesOn

LEMMA Fresh ==
  Parts(NoPeer) /\ Whole(NoPeer) /\ Idle.fn = "idle"
<1>1. NoPeer.taken = <<>> /\ NoPeer.cuts = {} /\ Len(<<>>) = 0
  BY DEF NoPeer
<1> QED
  BY <1>1 DEF Parts, Whole, Starts, Idle

\* A thread loses its Conn and its Listener: they are closed, or dropped open.
LEMMA GoneStep ==
  ASSUME SockInv, SockType', NEW t \in Thread, net[t] = Idle, UNCHANGED <<net, eof>>,
         conn' = [conn EXCEPT ![t] = [listener |-> NoFd, conn |-> NoFd]],
         \A x \in Descriptors : x \notin {conn[t].conn, conn[t].listener} =>
           fds'[x] = fds[x] /\ (peer'[x] = peer[x] \/ (peer'[x] = NoPeer /\ fds[x] = ""))
             /\ (x \in dropped' <=> x \in dropped),
         \A x \in {conn[t].conn, conn[t].listener} \ {NoFd} :
           \/ fds'[x] = "" /\ peer'[x] = NoPeer /\ x \notin dropped'
           \/ fds'[x] = fds[x] /\ peer'[x] = peer[x] /\ x \in dropped'
  PROVE  SockInv'
<1> DEFINE none == [listener |-> NoFd, conn |-> NoFd]
           mine == {conn[t].conn, conn[t].listener}
<1>1. /\ SockType /\ Held /\ DescriptorsHeld /\ Streams
      /\ \A u \in Thread : ThreadOk(conn[u], net[u], eof[u], peer)
  BY DEF SockInv
<1>0. net[t].fn = "idle" /\ net[t].fn # "send"
  BY Fresh
<1>2. none.listener = NoFd /\ none.conn = NoFd /\ NoFd \notin Descriptors
  BY SocketBounds DEF NoFd
<1>3. conn'[t] = none /\ \A u \in Thread : u # t => conn'[u] = conn[u]
  BY <1>1 DEF SockType
<1> HIDE DEF none
<1>4. ASSUME NEW x \in Descriptors, x \in mine
      PROVE  /\ \A u \in Thread : u # t => conn[u].conn # x /\ conn[u].listener # x
             /\ fds[x] # "" /\ x \notin dropped /\ Whole(peer[x])
  <2>1. CASE x = conn[t].conn
    <3>1. conn[t].conn # NoFd /\ "conn" # ""
      BY <1>2, <2>1
    <3>2. Whole(peer[x])
      BY <1>0, <2>1, <3>1, WholeNow
    <3> QED
      BY <2>1, <3>1, <3>2, OwnFds
  <2>2. CASE x # conn[t].conn
    <3>1. x = conn[t].listener /\ conn[t].listener # NoFd /\ "listen" # ""
      BY <1>2, <1>4, <2>2
    <3>2. \A u \in Thread : u # t => conn[u].conn # x /\ conn[u].listener # x
      BY <3>1, OwnFds
    <3>3. Whole(peer[x])
      BY <1>1, <2>2, <3>2 DEF Streams
    <3> QED
      BY <3>1, <3>2, <3>3, OwnFds
  <2> QED
    BY <2>1, <2>2
<1>5. ASSUME NEW u \in Thread, u # t
      PROVE  /\ conn[u].listener # NoFd =>
                  conn[u].listener \in Descriptors /\ conn[u].listener \notin mine /\ fds[conn[u].listener] = "listen"
             /\ conn[u].conn # NoFd =>
                  conn[u].conn \in Descriptors /\ conn[u].conn \notin mine /\ fds[conn[u].conn] = "conn"
  BY <1>4, <1>5, OwnFds
<1>6. ASSUME NEW x \in Descriptors
      PROVE  /\ x \in mine => \/ fds'[x] = "" /\ peer'[x] = NoPeer /\ x \notin dropped'
                              \/ fds'[x] = fds[x] /\ peer'[x] = peer[x] /\ x \in dropped'
             /\ x \notin mine => fds'[x] = fds[x] /\ (x \in dropped' <=> x \in dropped)
                                   /\ (peer'[x] = peer[x] \/ (peer'[x] = NoPeer /\ fds[x] = ""))
  BY <1>2
<1> HIDE DEF mine
<1>7. Held'
  <2>1. ASSUME NEW u \in Thread
        PROVE  /\ conn'[u].listener # NoFd => fds'[conn'[u].listener] = "listen"
               /\ conn'[u].conn # NoFd => fds'[conn'[u].conn] = "conn"
    <3>1. CASE u = t
      BY <1>2, <1>3, <3>1
    <3>2. CASE u # t
      <4>1. conn'[u] = conn[u]
        BY <1>3, <3>2
      <4>2. conn[u].listener # NoFd => fds'[conn[u].listener] = "listen"
        BY <1>5, <1>6, <3>2
      <4>3. conn[u].conn # NoFd => fds'[conn[u].conn] = "conn"
        BY <1>5, <1>6, <3>2
      <4> QED
        BY <4>1, <4>2, <4>3
    <3> QED
      BY <3>1, <3>2
  <2>2. ASSUME NEW x \in dropped' PROVE fds'[x] # ""
    <3>1. x \in Descriptors
      BY <2>2 DEF SockType
    <3>2. CASE x \in mine
      BY <1>4, <1>6, <2>2, <3>1, <3>2
    <3>3. CASE x \notin mine
      BY <1>1, <1>6, <2>2, <3>1, <3>3 DEF Held
    <3> QED
      BY <3>2, <3>3
  <2> QED
    BY <2>1, <2>2 DEF Held
<1>8. DescriptorsHeld'
  <2>1. ASSUME NEW x \in Descriptors, fds'[x] # ""
        PROVE  x \in dropped' \/ \E u \in Thread : x \in {conn'[u].listener, conn'[u].conn}
    <3>1. CASE x \in mine
      BY <1>6, <2>1, <3>1
    <3>2. CASE x \notin mine
      <4>1. x \in dropped \/ \E u \in Thread : x \in {conn[u].listener, conn[u].conn}
        BY <1>1, <1>6, <2>1, <3>2 DEF DescriptorsHeld, Has
      <4>2. CASE x \in dropped
        BY <1>6, <3>2, <4>2
      <4>3. ASSUME NEW u \in Thread, x \in {conn[u].listener, conn[u].conn}
            PROVE  conn'[u] = conn[u]
        BY <1>3, <3>2, <4>3 DEF mine
      <4> QED
        BY <4>1, <4>2, <4>3
    <3> QED
      BY <3>1, <3>2
  <2>2. ASSUME NEW u \in Thread, NEW x \in Descriptors, x \in {conn'[u].listener, conn'[u].conn}
        PROVE  /\ fds'[x] # "" /\ x \notin dropped'
               /\ \A v \in Thread \ {u} : x \notin {conn'[v].listener, conn'[v].conn}
    <3>1. u # t /\ x \in {conn[u].listener, conn[u].conn}
      BY <1>2, <1>3, <2>2
    <3>2. x \notin mine
      <4>1. x \in mine => conn[u].conn # x /\ conn[u].listener # x
        BY <1>4, <3>1
      <4>2. x = conn[u].conn \/ x = conn[u].listener
        BY <3>1
      <4> QED
        BY <4>1, <4>2
    <3>3. /\ fds[x] # "" /\ x \notin dropped
          /\ \A v \in Thread \ {u} : x \notin {conn[v].listener, conn[v].conn}
      BY <1>1, <3>1 DEF DescriptorsHeld, Has
    <3>4. fds'[x] # "" /\ x \notin dropped'
      BY <1>6, <3>2, <3>3
    <3>5. ASSUME NEW v \in Thread \ {u} PROVE x \notin {conn'[v].listener, conn'[v].conn}
      <4>1. CASE v = t
        BY <1>2, <1>3, <4>1
      <4>2. CASE v # t
        BY <1>3, <3>3, <4>2
      <4> QED
        BY <4>1, <4>2
    <3> QED
      BY <3>4, <3>5
  <2> QED
    BY <2>1, <2>2 DEF DescriptorsHeld, Has
<1>9. Parts(NoPeer) /\ Whole(NoPeer)
  BY Fresh
<1>10. Streams'
  <2>1. ASSUME NEW x \in Descriptors
        PROVE  Parts(peer'[x]) /\ ((\A u \in Thread : conn'[u].conn # x) => Whole(peer'[x]))
    <3>1. CASE peer'[x] = NoPeer
      BY <1>9, <3>1
    <3>2. CASE peer'[x] = peer[x]
      <4>1. CASE x \in mine
        BY <1>1, <1>4, <3>2, <4>1 DEF Streams
      <4>2. CASE x \notin mine
        BY <1>1, <1>3, <3>2, <4>2 DEF Streams, mine
      <4> QED
        BY <4>1, <4>2
    <3> QED
      BY <1>6, <3>1, <3>2
  <2> QED
    BY <2>1 DEF Streams
<1>11. ASSUME NEW u \in Thread
       PROVE  ThreadOk(conn'[u], net'[u], eof'[u], peer')
  <2>1. CASE u = t
    BY <1>0, <1>2, <1>3, <2>1 DEF ThreadOk, Fits, Ended
  <2>2. CASE u # t
    <3>1. conn[u].conn # NoFd => peer'[conn[u].conn] = peer[conn[u].conn]
      <4>1. "conn" # ""
        OBVIOUS
      <4> QED
        BY <1>5, <1>6, <2>2, <4>1
    <3>2. ThreadOk(conn[u], net[u], eof[u], peer) /\ conn'[u] = conn[u]
      BY <1>1, <1>3, <2>2
    <3> QED
      BY <3>1, <3>2 DEF ThreadOk, Ended
  <2> QED
    BY <2>1, <2>2
<1> QED
  BY <1>7, <1>8, <1>10, <1>11 DEF SockInv

\* A thread closes what it holds.
LEMMA CloseStep ==
  ASSUME SockInv, NEW t \in Thread, Close(t), net[t] = Idle,
         UNCHANGED <<sockerr, writer, net, cause, caught, eof>>
  PROVE  SockInv'
<1>1. SockType /\ NoPeer \in Peer /\ NoFd \notin Descriptors
  BY EmptySeq, SocketBounds DEF SockInv, NoPeer, Peer, NoFd
<1> DEFINE none == [listener |-> NoFd, conn |-> NoFd]
<1>2. none \in Pair
  BY DEF Pair, Fd
<1>3. /\ fds' \in [Descriptors -> Kind]
      /\ \A x \in Descriptors : fds'[x] = IF x \in {conn[t].conn, conn[t].listener} THEN "" ELSE fds[x]
  BY <1>1 DEF Close, SockType, Kind
<1>4. /\ peer' \in [Descriptors -> Peer]
      /\ \A x \in Descriptors : peer'[x] = IF fds'[x] = "" THEN NoPeer ELSE peer[x]
  BY <1>1 DEF Close, SockType
<1>5. conn' = [conn EXCEPT ![t] = none] /\ dropped' = dropped
  BY DEF Close
<1>6. conn' \in [Thread -> Pair]
  BY <1>1, <1>2, <1>5 DEF SockType
<1>7. SockType'
  BY <1>1, <1>3, <1>4, <1>5, <1>6 DEF SockType
<1>8. \A x \in Descriptors : x \notin {conn[t].conn, conn[t].listener} =>
        fds'[x] = fds[x] /\ (peer'[x] = peer[x] \/ (peer'[x] = NoPeer /\ fds[x] = ""))
          /\ (x \in dropped' <=> x \in dropped)
  BY <1>3, <1>4, <1>5
<1>9. \A x \in {conn[t].conn, conn[t].listener} \ {NoFd} :
        x \in Descriptors /\ x \notin dropped
  BY OwnFds
<1>10. \A x \in {conn[t].conn, conn[t].listener} \ {NoFd} :
         fds'[x] = "" /\ peer'[x] = NoPeer /\ x \notin dropped'
  BY <1>3, <1>4, <1>5, <1>9
<1> QED
  BY <1>5, <1>7, <1>8, <1>10, GoneStep

\* Its variables are gone, and nothing is closed.
LEMMA ForgetStep ==
  ASSUME SockInv, NEW t \in Thread, Forget(t), net[t] = Idle
  PROVE  SockInv'
<1> DEFINE none == [listener |-> NoFd, conn |-> NoFd]
<1>1. /\ SockType /\ conn' = [conn EXCEPT ![t] = none]
      /\ dropped' = dropped \cup ({conn[t].conn, conn[t].listener} \ {NoFd})
      /\ UNCHANGED <<fds, peer, sockerr, writer, net, cause, caught, eof>>
  BY DEF SockInv, Forget
<1>2. none \in Pair
  BY DEF Pair, Fd
<1>3. \A x \in {conn[t].conn, conn[t].listener} \ {NoFd} : x \in Descriptors
  BY OwnFds
<1>4. SockType'
  BY <1>1, <1>2, <1>3 DEF SockType
<1>5. \A x \in Descriptors : x \notin {conn[t].conn, conn[t].listener} =>
        fds'[x] = fds[x] /\ (peer'[x] = peer[x] \/ (peer'[x] = NoPeer /\ fds[x] = ""))
          /\ (x \in dropped' <=> x \in dropped)
  BY <1>1
<1>6. \A x \in {conn[t].conn, conn[t].listener} \ {NoFd} :
        fds'[x] = fds[x] /\ peer'[x] = peer[x] /\ x \in dropped'
  BY <1>1
<1> QED
  BY <1>1, <1>4, <1>5, <1>6, GoneStep

\* The peer acts, or clients come.
LEMMA PeerStep ==
  ASSUME SockInv, PeerActs
  PROVE  SockInv'
<1>1. /\ SockType /\ Held /\ DescriptorsHeld /\ Streams
      /\ \A u \in Thread : ThreadOk(conn[u], net[u], eof[u], peer)
      /\ UNCHANGED <<fds, sockerr, writer, net, cause, caught, conn, dropped, eof>>
  BY DEF SockInv, PeerActs
<1>2. PICK d \in Descriptors :
        \/ /\ fds[d] = "listen" /\ peer[d].waiting = 0
           /\ peer' = [peer EXCEPT ![d].waiting = 1]
        \/ /\ fds[d] = "conn" /\ ~peer[d].closed /\ peer[d].inbox < Units
           /\ peer' = [peer EXCEPT ![d].inbox = @ + 1]
        \/ /\ fds[d] = "conn" /\ ~peer[d].closed
           /\ peer' = [peer EXCEPT ![d].closed = TRUE]
  BY DEF PeerActs
<1>3. peer[d] \in Peer
  BY <1>1 DEF SockType
<1>4. PICK p \in Peer :
        /\ peer' = [peer EXCEPT ![d] = p] /\ p.taken = peer[d].taken /\ p.cuts = peer[d].cuts
        /\ (p.inbox = peer[d].inbox /\ p.closed = peer[d].closed) \/ ~peer[d].closed
  <2>1. CASE peer' = [peer EXCEPT ![d].waiting = 1]
    <3> DEFINE q == [peer[d] EXCEPT !.waiting = 1]
    <3>1. /\ q \in Peer /\ q.taken = peer[d].taken /\ q.cuts = peer[d].cuts
          /\ q.inbox = peer[d].inbox /\ q.closed = peer[d].closed
      BY <1>3 DEF Peer
    <3>2. peer' = [peer EXCEPT ![d] = q]
      BY <2>1
    <3> HIDE DEF q
    <3> QED
      BY <3>1, <3>2
  <2>2. CASE ~peer[d].closed /\ peer' = [peer EXCEPT ![d].inbox = @ + 1]
    <3> DEFINE q == [peer[d] EXCEPT !.inbox = @ + 1]
    <3>1. q \in Peer /\ q.taken = peer[d].taken /\ q.cuts = peer[d].cuts
      BY <1>3 DEF Peer
    <3>2. peer' = [peer EXCEPT ![d] = q]
      BY <2>2
    <3> HIDE DEF q
    <3> QED
      BY <2>2, <3>1, <3>2
  <2>3. CASE ~peer[d].closed /\ peer' = [peer EXCEPT ![d].closed = TRUE]
    <3> DEFINE q == [peer[d] EXCEPT !.closed = TRUE]
    <3>1. q \in Peer /\ q.taken = peer[d].taken /\ q.cuts = peer[d].cuts
      BY <1>3 DEF Peer
    <3>2. peer' = [peer EXCEPT ![d] = q]
      BY <2>3
    <3> HIDE DEF q
    <3> QED
      BY <2>3, <3>1, <3>2
  <2> QED
    BY <1>2, <2>1, <2>2, <2>3
<1>5. /\ peer' \in [Descriptors -> Peer] /\ peer'[d] = p
      /\ \A x \in Descriptors : x # d => peer'[x] = peer[x]
  BY <1>1, <1>4 DEF SockType
<1>6. SockType' /\ Held' /\ DescriptorsHeld'
  BY <1>1, <1>5 DEF SockType, Held, DescriptorsHeld, Has
<1>7. ASSUME NEW x \in Descriptors
      PROVE  /\ Parts(peer[x]) => Parts(peer'[x])
             /\ Whole(peer[x]) => Whole(peer'[x])
             /\ \A m : Progress(peer[x], m) => Progress(peer'[x], m)
  <2>1. peer'[x].taken = peer[x].taken /\ peer'[x].cuts = peer[x].cuts
    BY <1>4, <1>5
  <2> QED
    BY <2>1, Alike
<1>8. Streams'
  BY <1>1, <1>7 DEF Streams
<1>9. ASSUME NEW u \in Thread
      PROVE  ThreadOk(conn'[u], net'[u], eof'[u], peer')
  <2>1. conn[u].conn # NoFd => conn[u].conn \in Descriptors
    BY OwnFds
  <2>2. ThreadOk(conn[u], net[u], eof[u], peer)
    BY <1>1
  <2>3. Ended(conn[u], net[u], eof[u], peer')
    BY <1>4, <1>5, <2>1, <2>2 DEF ThreadOk, Ended
  <2>4. conn[u].conn # NoFd => Progress(peer'[conn[u].conn], net[u])
    BY <1>7, <2>1, <2>2 DEF ThreadOk
  <2> QED
    BY <1>1, <2>2, <2>3, <2>4 DEF ThreadOk
<1> QED
  BY <1>6, <1>8, <1>9 DEF SockInv

\* Nothing happens to the sockets.
LEMMA SockSame ==
  ASSUME SockInv, UNCHANGED sockVars
  PROVE  SockInv'
  BY DEF SockInv, sockVars, SockType, Held, DescriptorsHeld, Has, Streams

\* At first.
LEMMA InitSock ==
  ASSUME InitSockets
  PROVE  SockInv
<1>1. /\ NoError \in Error /\ NoPeer \in Peer /\ Idle \in Net /\ Idle.fn = "idle"
      /\ NoPeer.taken = <<>> /\ NoPeer.cuts = {} /\ Len(<<>>) = 0 /\ NoFd \notin Descriptors
  BY EmptySeq, NetMade, SocketBounds DEF NoError, Error, Why, NoPeer, Peer, Idle, NoFd
<1>2. LET c == [listener |-> NoFd, conn |-> NoFd] IN c \in Pair /\ c.listener = NoFd /\ c.conn = NoFd
  BY DEF Pair, Fd
<1>3. SockType
  BY <1>1, <1>2 DEF InitSockets, SockType, Kind
<1>4. Held /\ DescriptorsHeld
  BY <1>1, <1>2 DEF InitSockets, Held, DescriptorsHeld, Has
<1>5. Streams
  BY Fresh DEF InitSockets, Streams
<1>6. \A t \in Thread : ThreadOk(conn[t], net[t], eof[t], peer)
  BY <1>1, <1>2 DEF InitSockets, ThreadOk, Fits, Ended
<1> QED
  BY <1>3, <1>4, <1>5, <1>6 DEF SockInv

\* What the invariant says of the properties.
LEMMA SockFacts ==
  ASSUME SockInv
  PROVE  StreamTrue /\ DescriptorsHeld
<1>1. ASSUME NEW d \in Descriptors
      PROVE  /\ \A i \in DOMAIN peer[d].taken :
                  IF Starts(peer[d], i) THEN peer[d].taken[i][2] = 1
                  ELSE peer[d].taken[i] = <<peer[d].taken[i - 1][1], peer[d].taken[i - 1][2] + 1>>
             /\ \/ Starts(peer[d], Len(peer[d].taken) + 1)
                \/ \E t \in Thread : conn[t].conn = d /\ Sending(t)
  <2>1. Parts(peer[d]) /\ ((\A t \in Thread : conn[t].conn # d) => Whole(peer[d]))
    BY DEF SockInv, Streams
  <2>2. \A t \in Thread : conn[t].conn = d => Whole(peer[d]) \/ Sending(t)
    BY SocketBounds DEF SockInv, ThreadOk, Progress, NoFd, Sending
  <2>3. Starts(peer[d], Len(peer[d].taken) + 1) <=> Whole(peer[d])
    BY DEF Whole
  <2> QED
    BY <2>1, <2>2, <2>3 DEF Parts
<1>2. Framed
  BY <1>1 DEF Framed
<1>3. EofTrue
  BY DEF SockInv, EofTrue, ThreadOk, Ended
<1> QED
  BY <1>2, <1>3 DEF SockInv, StreamTrue

-----------------------------------------------------------------------------
\* What thread t has read, and is going to read, is what made its call fail; mine
\* says that no other call has written the reason since.
Tells(n, why, c, s, mine) ==
  mine /\ why.why # "memory" =>
    /\ n.fn \in {"message", "flag"} =>
         s.why = why.why /\ (why.why # "resolve" => s.timeout = why.timeout)
    /\ n.fn \in {"flag", "raised"} => c.why = why.why
    /\ n.fn = "raised" => (why.why # "resolve" => c.timeout = why.timeout)

TellsTrue == \A t \in Thread : Tells(net[t], cause[t], caught[t], sockerr, writer = t)

\* A step of thread t leaves the reason alone, or writes it.
LEMMA TellsStep ==
  ASSUME SockType, TellsTrue, NEW t \in Thread,
         \A u \in Thread : u # t => net'[u] = net[u] /\ cause'[u] = cause[u] /\ caught'[u] = caught[u],
         UNCHANGED <<sockerr, writer>> \/ writer' = t,
         Tells(net'[t], cause'[t], caught'[t], sockerr', writer' = t)
  PROVE  TellsTrue'
<1> SUFFICES ASSUME NEW u \in Thread
             PROVE  Tells(net'[u], cause'[u], caught'[u], sockerr', writer' = u)
  BY DEF TellsTrue
<1>1. CASE u = t
  BY <1>1
<1>2. CASE u # t
  <2>1. Tells(net[u], cause[u], caught[u], sockerr, writer = u)
    BY DEF TellsTrue
  <2> QED
    BY <1>2, <2>1 DEF Tells
<1> QED
  BY <1>1, <1>2

LEMMA TellsInCall ==
  ASSUME SockType, SockType', TellsTrue, NEW t \in Thread, InCall(t) \/ RecvNoMemory(t)
  PROVE  TellsTrue'
<1>1. ASSUME NEW n, net' = [net EXCEPT ![t] = n],
             \A u \in Thread : u # t => cause'[u] = cause[u] /\ caught'[u] = caught[u],
             UNCHANGED <<sockerr, writer>> \/ writer' = t,
             Tells(n, cause'[t], caught'[t], sockerr', writer' = t)
      PROVE  TellsTrue'
  <2>1. net'[t] = n /\ \A u \in Thread : u # t => net'[u] = net[u]
    BY <1>1 DEF SockType
  <2> QED
    BY <1>1, <2>1, TellsStep
<1>2. Tells(net[t], cause[t], caught[t], sockerr, writer = t)
  BY DEF TellsTrue
<1>3. ASSUME NEW w, NEW b, Fails(t, w, b), caught' = caught
      PROVE  TellsTrue'
  <2> DEFINE n == [fn |-> "message"]
  <2>1. n.fn = "message" /\ net' = [net EXCEPT ![t] = n] /\ writer' = t
    BY <1>3 DEF Fails
  <2>2. sockerr' = [why |-> w, timeout |-> b] /\ cause'[t] = [why |-> w, timeout |-> b]
        /\ \A u \in Thread : u # t => cause'[u] = cause[u]
    BY <1>3 DEF Fails, pl_sock_fail, SockType
  <2> HIDE DEF n
  <2>3. Tells(n, cause'[t], caught'[t], sockerr', writer' = t)
    BY <2>1, <2>2 DEF Tells
  <2> QED
    BY <1>1, <1>3, <2>1, <2>2, <2>3
<1>4. ASSUME Succeeds(t), caught' = caught
      PROVE  TellsTrue'
  <2> DEFINE n == [fn |-> "returned"]
  <2>1. n.fn = "returned" /\ net' = [net EXCEPT ![t] = n] /\ writer' = t /\ cause' = cause
    BY <1>4 DEF Succeeds
  <2> HIDE DEF n
  <2>2. Tells(n, cause'[t], caught'[t], sockerr', writer' = t)
    BY <2>1 DEF Tells
  <2> QED
    BY <1>1, <1>4, <2>1, <2>2
<1>5. CASE ResolveFails(t)
  <2> DEFINE n == [fn |-> "message"]
  <2>1. n.fn = "message" /\ net' = [net EXCEPT ![t] = n] /\ writer' = t /\ caught' = caught
    BY <1>5 DEF ResolveFails
  <2>2. sockerr'.why = "resolve" /\ cause'[t].why = "resolve"
        /\ \A u \in Thread : u # t => cause'[u] = cause[u]
    BY <1>5 DEF ResolveFails, SockType, Error
  <2> HIDE DEF n
  <2>3. Tells(n, cause'[t], caught'[t], sockerr', writer' = t)
    BY <2>1, <2>2 DEF Tells
  <2> QED
    BY <1>1, <2>1, <2>2, <2>3
<1>6. CASE AddressRefused(t)
  <2> DEFINE n == [net[t] EXCEPT !.left = @ - 1]
  <2>1. net' = [net EXCEPT ![t] = n] /\ net[t] \in Net /\ net[t].fn \in {"listen", "connect"}
        /\ net[t].left > 0 /\ UNCHANGED <<sockerr, writer, cause, caught>>
    BY <1>6 DEF AddressRefused, Resolving, SockType
  <2>2. n.fn = net[t].fn
    <3>1. net[t].left \in 0 .. Addresses
      BY <2>1, NetFacts
    <3>2. net[t].left - 1 \in 0 .. Addresses
      BY <2>1, <3>1, SocketBounds
    <3> QED
      BY <2>1, <3>2, NetFacts
  <2> HIDE DEF n
  <2>3. Tells(n, cause'[t], caught'[t], sockerr', writer' = t)
    BY <2>1, <2>2 DEF Tells
  <2> QED
    BY <1>1, <2>1, <2>3
<1>7. CASE SendSome(t)
  <2>1. net[t] \in Net /\ net[t].fn = "send" /\ UNCHANGED <<sockerr, writer, cause, caught>>
    BY <1>7 DEF SendSome, Sending, SockType
  <2>2. PICK k \in 1 .. Units - net[t].sent : net' = [net EXCEPT ![t].sent = @ + k]
    BY <1>7 DEF SendSome
  <2> DEFINE n == [net[t] EXCEPT !.sent = @ + k]
  <2>3. net' = [net EXCEPT ![t] = n]
    BY <2>2
  <2>4. n.fn = "send"
    <3>1. net[t].sent \in 0 .. Units
      BY <2>1, NetFacts
    <3>2. net[t].sent + k \in 0 .. Units
      BY <2>2, <3>1, SocketBounds
    <3> QED
      BY <2>1, <3>2, NetFacts
  <2> HIDE DEF n
  <2>5. Tells(n, cause'[t], caught'[t], sockerr', writer' = t)
    BY <2>4 DEF Tells
  <2> QED
    BY <1>1, <2>1, <2>3, <2>5
<1>8. CASE ReadMessage(t)
  <2> DEFINE n == [fn |-> "flag"]
  <2>1. n.fn = "flag" /\ net[t].fn = "message" /\ net' = [net EXCEPT ![t] = n]
        /\ UNCHANGED <<cause, sockerr, writer>> /\ caught'[t].why = sockerr.why
        /\ \A u \in Thread : u # t => caught'[u] = caught[u]
    BY <1>8 DEF ReadMessage, SockType, Error
  <2> HIDE DEF n
  <2>2. Tells(n, cause'[t], caught'[t], sockerr', writer' = t)
    BY <1>2, <2>1 DEF Tells
  <2> QED
    BY <1>1, <2>1, <2>2
<1>9. CASE ReadFlag(t)
  <2> DEFINE n == [fn |-> "raised"]
  <2>1. n.fn = "raised" /\ net[t].fn = "flag" /\ net' = [net EXCEPT ![t] = n]
        /\ UNCHANGED <<cause, sockerr, writer>>
        /\ caught'[t].timeout = sockerr.timeout /\ caught'[t].why = caught[t].why
        /\ \A u \in Thread : u # t => caught'[u] = caught[u]
    BY <1>9 DEF ReadFlag, SockType, Error
  <2> HIDE DEF n
  <2>2. Tells(n, cause'[t], caught'[t], sockerr', writer' = t)
    BY <1>2, <2>1 DEF Tells
  <2> QED
    BY <1>1, <2>1, <2>2
<1>10. CASE RecvNoMemory(t)
  <2> DEFINE n == [fn |-> "message"]
  <2>1. n.fn = "message" /\ net' = [net EXCEPT ![t] = n] /\ UNCHANGED <<sockerr, writer, caught>>
        /\ cause'[t].why = "memory" /\ \A u \in Thread : u # t => cause'[u] = cause[u]
    BY <1>10 DEF RecvNoMemory, SockType
  <2> HIDE DEF n
  <2>2. Tells(n, cause'[t], caught'[t], sockerr', writer' = t)
    BY <2>1 DEF Tells
  <2> QED
    BY <1>1, <2>1, <2>2
<1>11. CASE AddressTaken(t) \/ AcceptOne(t) \/ SendDone(t) \/ RecvSome(t) \/ RecvEof(t)
  BY <1>4, <1>11 DEF AddressTaken, AcceptOne, SendDone, RecvSome, RecvEof
<1>12. CASE PortFails(t) \/ NoAddressLeft(t) \/ AcceptTimesOut(t) \/ AcceptFails(t)
             \/ SendFails(t) \/ RecvFails(t)
  BY <1>3, <1>12 DEF PortFails, NoAddressLeft, AcceptTimesOut, AcceptFails, SendFails, RecvFails
<1> QED
  BY <1>5, <1>6, <1>7, <1>8, <1>9, <1>10, <1>11, <1>12 DEF InCall

\* A call begins or has ended.
LEMMA TellsBegins ==
  ASSUME SockInv, SockInv', TellsTrue, NEW t \in Thread, NEW f,
         \/ /\ \E m : Begin(t, f, m)
            /\ net'[t].fn = f /\ f \notin {"message", "flag", "raised"}
         \/ BeginShut(t, f)
         \/ Finish(t)
  PROVE  TellsTrue'
<1>1. SockType /\ UNCHANGED <<sockerr, writer>>
  BY DEF SockInv, Begin, BeginShut, Finish
<1>2. \A u \in Thread : u # t => net'[u] = net[u] /\ cause'[u] = cause[u] /\ caught'[u] = caught[u]
  BY <1>1 DEF SockType, Begin, BeginShut, Finish
<1>3. Tells(net'[t], cause'[t], caught'[t], sockerr', writer' = t)
  <2>1. CASE BeginShut(t, f)
    <3>1. caught'[t] = cause'[t] /\ net'[t].fn = "raised"
      BY <1>1, <2>1 DEF BeginShut, SockType
    <3> QED
      BY <3>1 DEF Tells
  <2>2. CASE Finish(t)
    <3>1. net'[t] = Idle
      BY <1>1, <2>2 DEF Finish, SockType
    <3> QED
      BY <3>1 DEF Tells, Idle
  <2>3. CASE net'[t].fn \notin {"message", "flag", "raised"}
    BY <2>3 DEF Tells
  <2> QED
    BY <2>1, <2>2, <2>3
<1> QED
  BY <1>1, <1>2, <1>3, TellsStep

\* The other steps do not touch it.
LEMMA TellsOther ==
  ASSUME TellsTrue, UNCHANGED <<sockerr, writer, net, cause, caught>>
  PROVE  TellsTrue'
  BY DEF TellsTrue, Tells

LEMMA TellsFacts ==
  ASSUME TellsTrue
  PROVE  NetErrorTrue
  BY DEF TellsTrue, Tells, NetErrorTrue

-----------------------------------------------------------------------------
\* The frames of a thread of program P.
FrameSet(P) ==
  [k : {"fn"}, f : Fns(P), pc : Nat \ {0}]
    \cup [k : {"entry"}, f : P.exports, outer : Nat, scope : Nat, freed : {0}]
    \cup [k : {"lock"}, m : Thread \X {"m"}]

ScopeSet == [by : Nat, threads : SUBSET Thread]

\* The body a frame is in, and whether operation pc of it is the next one.
Code(P, s, i) == Body(P, s[i].f)

\* An entry has the frame of its function above it, and only functions enter and
\* lock.
Shape(P, s) ==
  /\ s \in Seq(FrameSet(P))
  /\ \A i \in DOMAIN s :
       /\ s[i].k = "fn" => s[i].pc \in 1 .. Len(Code(P, s, i)) + 1
       /\ s[i].k = "entry" => i + 1 \in DOMAIN s /\ s[i + 1].k = "fn" /\ s[i + 1].f = s[i].f
       /\ s[i].k # "fn" /\ i > 1 => s[i - 1].k = "fn"

\* g is the last entry up to frame n.
Innermost(s, n, g) ==
  /\ g = 0 \/ (g \in Entries(s) /\ g <= n)
  /\ \A i \in Entries(s) : i <= n => i <= g

Guards(s, g) ==
  /\ Innermost(s, Len(s), g)
  /\ \A i \in Entries(s) : Innermost(s, i - 1, s[i].outer)

\* The scopes of frame i.
Own(sc, i) == {j \in DOMAIN sc : sc[j].by = i}

Scopes(P, s, sc) ==
  /\ sc \in Seq(ScopeSet)
  /\ \A j \in DOMAIN sc : sc[j].by \in DOMAIN s /\ s[sc[j].by].k = "fn"
  /\ \A i, j \in DOMAIN sc : i <= j => sc[i].by <= sc[j].by
  /\ \A i \in DOMAIN s : s[i].k = "fn" => Cardinality(Own(sc, i)) = Opened(Code(P, s, i), s[i].pc)
  /\ \A i \in Entries(s) : /\ s[i].scope \in 0 .. Len(sc)
                           /\ \A j \in DOMAIN sc : j <= s[i].scope <=> sc[j].by < i

Good(P, s, g, sc) == Shape(P, s) /\ Guards(s, g) /\ Scopes(P, s, sc)

-----------------------------------------------------------------------------
\* The frames, by their kinds.
LEMMA FrameFacts ==
  ASSUME NEW P, NEW x \in FrameSet(P)
  PROVE  /\ x.k \in {"fn", "entry", "lock"}
         /\ x.k = "fn" => /\ x.f \in Fns(P) /\ x.pc \in Nat \ {0}
                          /\ \A n \in Nat \ {0} : LET y == [x EXCEPT !.pc = n] IN
                               y \in FrameSet(P) /\ y.k = "fn" /\ y.f = x.f /\ y.pc = n
         /\ x.k = "entry" => x.f \in P.exports /\ x.outer \in Nat /\ x.scope \in Nat /\ x.freed = 0
         /\ x.k = "lock" => x.m \in Thread \X {"m"}
<1>1. CASE x \in [k : {"fn"}, f : Fns(P), pc : Nat \ {0}]
  BY <1>1 DEF FrameSet
<1>2. CASE x \in [k : {"entry"}, f : P.exports, outer : Nat, scope : Nat, freed : {0}]
  BY <1>2
<1>3. CASE x \in [k : {"lock"}, m : Thread \X {"m"}]
  BY <1>3
<1> QED
  BY <1>1, <1>2, <1>3 DEF FrameSet

LEMMA FrameMade ==
  ASSUME NEW P
  PROVE  /\ \A f \in Fns(P) : FnFrame(f) \in FrameSet(P) /\ FnFrame(f).k = "fn"
                              /\ FnFrame(f).f = f /\ FnFrame(f).pc = 1
         /\ \A m \in Thread \X {"m"} : LET x == [k |-> "lock", m |-> m] IN
              x \in FrameSet(P) /\ x.k = "lock" /\ x.m = m
         /\ \A f \in P.exports, o, c \in Nat :
              LET x == [k |-> "entry", f |-> f, outer |-> o, scope |-> c, freed |-> 0] IN
              x \in FrameSet(P) /\ x.k = "entry" /\ x.f = f /\ x.outer = o /\ x.scope = c
  BY DEF FnFrame, FrameSet

\* Sequences of frames.
LEMMA StackFacts ==
  ASSUME NEW S, NEW s \in Seq(S)
  PROVE  /\ Len(s) \in Nat /\ DOMAIN s = 1 .. Len(s)
         /\ \A i \in 1 .. Len(s) : s[i] \in S
         /\ s # <<>> => Len(s) > 0 /\ Last(s) = s[Len(s)]
         /\ s = <<>> => Len(s) = 0
  BY DEF Last

LEMMA Prefix ==
  ASSUME NEW S, NEW s \in Seq(S), NEW m \in 0 .. Len(s)
  PROVE  LET r == SubSeq(s, 1, m)
         IN  /\ r \in Seq(S) /\ Len(r) = m /\ \A i \in 1 .. m : r[i] = s[i]
             /\ m = Len(s) => r = s
<1> DEFINE r == SubSeq(s, 1, m)
<1>1. /\ m \in Nat /\ Len(s) \in Nat /\ m <= Len(s) /\ \A i \in 1 .. m : i \in 1 .. Len(s)
      /\ 1 \in Int /\ m \in Int
  OBVIOUS
<1>2. \A i \in 1 .. m : s[i] \in S
  BY <1>1
<1>3. /\ r \in Seq(S) /\ Len(r) = IF 1 <= m THEN m - 1 + 1 ELSE 0
      /\ \A i \in 1 .. m - 1 + 1 : r[i] = s[1 + i - 1]
  BY <1>1, <1>2, SubSeqProperties
<1>4. Len(r) = m /\ \A i \in 1 .. m : r[i] = s[i]
  <2>1. m - 1 + 1 = m /\ \A i \in 1 .. m : 1 + i - 1 = i
    BY <1>1
  <2>2. IF 1 <= m THEN m - 1 + 1 = m ELSE m = 0
    BY <1>1
  <2> HIDE DEF r
  <2> QED
    BY <1>3, <2>1, <2>2
<1>5. m = Len(s) => r = s
  <2> HIDE DEF r
  <2> QED
    BY <1>3, <1>4, SeqEqual
<1> QED
  BY <1>3, <1>4, <1>5

LEMMA Pushed ==
  ASSUME NEW S, NEW s \in Seq(S), NEW x \in S
  PROVE  LET r == s \o <<x>>
         IN  /\ r \in Seq(S) /\ Len(r) = Len(s) + 1 /\ r[Len(s) + 1] = x
             /\ \A i \in 1 .. Len(s) : r[i] = s[i]
<1>1. <<x>> \in Seq(S) /\ Len(<<x>>) = 1 /\ <<x>>[1] = x
  OBVIOUS
<1> QED
  BY <1>1, ConcatProperties

LEMMA PushedTwo ==
  ASSUME NEW S, NEW s \in Seq(S), NEW x \in S, NEW y \in S
  PROVE  LET r == s \o <<x, y>>
         IN  /\ r \in Seq(S) /\ Len(r) = Len(s) + 2 /\ r[Len(s) + 1] = x /\ r[Len(s) + 2] = y
             /\ \A i \in 1 .. Len(s) : r[i] = s[i]
<1>1. <<x, y>> \in Seq(S) /\ Len(<<x, y>>) = 2 /\ <<x, y>>[1] = x /\ <<x, y>>[2] = y
  OBVIOUS
<1> QED
  BY <1>1, ConcatProperties

\* The next operation of the function on top.
LEMMA Stepped ==
  ASSUME NEW P, NEW s \in Seq(FrameSet(P)), s # <<>>, s[Len(s)].k = "fn"
  PROVE  LET r == Advanced(s)
             n == Len(s)
         IN  /\ r \in Seq(FrameSet(P)) /\ Len(r) = n /\ n \in Nat \ {0}
             /\ r[n].k = "fn" /\ r[n].f = s[n].f /\ r[n].pc = s[n].pc + 1
             /\ \A i \in 1 .. n : i # n => r[i] = s[i]
<1> DEFINE n == Len(s)
           y == [s[n] EXCEPT !.pc = @ + 1]
           r == [s EXCEPT ![n] = y]
<1>1. n \in Nat \ {0} /\ s[n] \in FrameSet(P)
  BY StackFacts
<1>2. s[n].pc \in Nat \ {0} /\ s[n].pc + 1 \in Nat \ {0}
  BY <1>1, FrameFacts
<1>3. y \in FrameSet(P) /\ y.k = "fn" /\ y.f = s[n].f /\ y.pc = s[n].pc + 1
  BY <1>1, <1>2, FrameFacts
<1> HIDE DEF y
<1>4. r \in Seq(FrameSet(P)) /\ Len(r) = n /\ \A i \in 1 .. n : r[i] = IF i = n THEN y ELSE s[i]
  BY <1>1, <1>3, ExceptSeq
<1>5. r = Advanced(s)
  BY DEF Advanced, y
<1> HIDE DEF r
<1>6. r[n] = y /\ \A i \in 1 .. n : i # n => r[i] = s[i]
  BY <1>1, <1>4
<1> QED
  BY <1>1, <1>3, <1>4, <1>5, <1>6

-----------------------------------------------------------------------------
\* The scope: blocks before the first operation, and before the next one.
LEMMA OpenedFirst ==
  ASSUME NEW body
  PROVE  Opened(body, 1) = 0
<1>1. \A S : {i \in 1 .. 1 - 1 : i \in S} = {}
  OBVIOUS
<1>2. {i \in 1 .. 1 - 1 : body[i].op = "scope"} = {} /\ {i \in 1 .. 1 - 1 : body[i].op = "unscope"} = {}
  OBVIOUS
<1>3. Cardinality({}) = 0
  BY FS_EmptySet
<1> QED
  BY <1>2, <1>3 DEF Opened

LEMMA Counted1 ==
  ASSUME NEW pc \in Nat \ {0}, NEW A, NEW B, B = {i \in 1 .. pc : i \in A}
  PROVE  LET C == {i \in 1 .. pc - 1 : i \in A}
         IN  /\ Cardinality(C) \in Nat
             /\ Cardinality(B) = IF pc \in A THEN Cardinality(C) + 1 ELSE Cardinality(C)
<1> DEFINE C == {i \in 1 .. pc - 1 : i \in A}
<1>1. IsFiniteSet(1 .. pc - 1)
  BY FS_Interval
<1>2. IsFiniteSet(C)
  <2>1. C \subseteq 1 .. pc - 1
    OBVIOUS
  <2> QED
    BY <1>1, <2>1, FS_Subset
<1>3. pc \notin C
  OBVIOUS
<1>4. CASE pc \in A
  <2>1. B = C \cup {pc}
    BY <1>4
  <2> QED
    BY <1>2, <1>3, <1>4, <2>1, FS_AddElement, FS_CardinalityType
<1>5. CASE pc \notin A
  <2>1. B = C
    BY <1>5
  <2> QED
    BY <1>2, <1>5, <2>1, FS_CardinalityType
<1> QED
  BY <1>4, <1>5

LEMMA OpenedNext ==
  ASSUME NEW body, NEW pc \in Nat \ {0}
  PROVE  /\ Opened(body, pc) \in Int
         /\ body[pc].op = "scope" => Opened(body, pc + 1) = Opened(body, pc) + 1
         /\ body[pc].op = "unscope" => Opened(body, pc + 1) = Opened(body, pc) - 1
         /\ body[pc].op \notin {"scope", "unscope"} => Opened(body, pc + 1) = Opened(body, pc)
<1> DEFINE A == {i \in Nat : body[i].op = "scope"}
           D == {i \in Nat : body[i].op = "unscope"}
           a1 == {i \in 1 .. pc - 1 : body[i].op = "scope"}
           d1 == {i \in 1 .. pc - 1 : body[i].op = "unscope"}
           a2 == {i \in 1 .. (pc + 1) - 1 : body[i].op = "scope"}
           d2 == {i \in 1 .. (pc + 1) - 1 : body[i].op = "unscope"}
<1>1. /\ a1 = {i \in 1 .. pc - 1 : i \in A} /\ d1 = {i \in 1 .. pc - 1 : i \in D}
      /\ a2 = {i \in 1 .. pc : i \in A} /\ d2 = {i \in 1 .. pc : i \in D}
  OBVIOUS
<1>2. pc \in A <=> body[pc].op = "scope"
  OBVIOUS
<1>3. pc \in D <=> body[pc].op = "unscope"
  OBVIOUS
<1>4. Opened(body, pc) = Cardinality(a1) - Cardinality(d1)
  BY DEF Opened
<1>5. Opened(body, pc + 1) = Cardinality(a2) - Cardinality(d2)
  BY DEF Opened
<1> HIDE DEF A, D, a1, a2, d1, d2
<1>6. Cardinality(a1) \in Nat /\ Cardinality(a2) = IF pc \in A THEN Cardinality(a1) + 1 ELSE Cardinality(a1)
  BY <1>1, Counted1
<1>7. Cardinality(d1) \in Nat /\ Cardinality(d2) = IF pc \in D THEN Cardinality(d1) + 1 ELSE Cardinality(d1)
  BY <1>1, Counted1
<1> QED
  BY <1>2, <1>3, <1>4, <1>5, <1>6, <1>7

\* What a well-formed program gives about the frame of a function.
LEMMA BodyFacts ==
  ASSUME NEW P, WellFormed(P), NEW f \in Fns(P)
  PROVE  /\ Len(Body(P, f)) \in Nat
         /\ \A pc \in 1 .. Len(Body(P, f)) : Body(P, f)[pc] \in Operation(P)
         /\ \A pc \in 1 .. Len(Body(P, f)) + 1 : Opened(Body(P, f), pc) >= 0
         /\ Opened(Body(P, f), Len(Body(P, f)) + 1) = 0
         /\ P.fns[f].own \in BOOLEAN
<1>1. Body(P, f) \in Seq(Operation(P))
  BY DEF WellFormed
<1> QED
  BY <1>1 DEF WellFormed

\* What the invariant of a stack says of its top, a function.
LEMMA TopFacts ==
  ASSUME NEW P, WellFormed(P), NEW s, NEW g, NEW sc, Good(P, s, g, sc),
         s # <<>>, s[Len(s)].k = "fn"
  PROVE  LET n == Len(s) IN
         /\ n \in Nat \ {0} /\ s[n].f \in Fns(P) /\ Len(Code(P, s, n)) \in Nat
         /\ s[n].pc \in Nat /\ 1 <= s[n].pc /\ s[n].pc <= Len(Code(P, s, n)) + 1
         /\ s[n].pc <= Len(Code(P, s, n)) => Code(P, s, n)[s[n].pc] \in Operation(P)
<1> DEFINE n == Len(s)
<1>1. s \in Seq(FrameSet(P))
  BY DEF Good, Shape
<1>2. n \in Nat \ {0} /\ n \in DOMAIN s /\ s[n] \in FrameSet(P)
  BY <1>1, StackFacts
<1>3. s[n].f \in Fns(P) /\ s[n].pc \in Nat
  BY <1>2, FrameFacts
<1>4. s[n].pc \in 1 .. Len(Code(P, s, n)) + 1
  BY <1>2 DEF Good, Shape
<1>5. Len(Code(P, s, n)) \in Nat
  BY <1>3, BodyFacts DEF Code
<1>6. s[n].pc <= Len(Code(P, s, n)) => Code(P, s, n)[s[n].pc] \in Operation(P)
  BY <1>3, <1>4, <1>5, BodyFacts DEF Code
<1> QED
  BY <1>2, <1>3, <1>4, <1>5, <1>6

-----------------------------------------------------------------------------
\* The function on top goes on to its next operation; r is the stack after it.
LEMMA GoesOn ==
  ASSUME NEW P, WellFormed(P), NEW s, NEW g, NEW sc, Good(P, s, g, sc),
         s # <<>>, s[Len(s)].k = "fn", s[Len(s)].pc <= Len(Code(P, s, Len(s)))
  PROVE  LET r == Advanced(s)
             n == Len(s)
         IN  /\ Shape(P, r) /\ Guards(r, g) /\ Len(r) = n /\ n \in Nat \ {0}
             /\ DOMAIN r = DOMAIN s /\ Entries(r) = Entries(s) /\ n \notin Entries(s)
             /\ r[n].k = "fn" /\ r[n].f = s[n].f /\ r[n].pc = s[n].pc + 1
             /\ \A i \in DOMAIN s : /\ i # n => r[i] = s[i]
                                    /\ r[i].k = s[i].k
<1> DEFINE n == Len(s)
           r == Advanced(s)
<1>1. s \in Seq(FrameSet(P))
  BY DEF Good, Shape
<1>2. /\ r \in Seq(FrameSet(P)) /\ Len(r) = n /\ n \in Nat \ {0}
      /\ r[n].k = "fn" /\ r[n].f = s[n].f /\ r[n].pc = s[n].pc + 1
      /\ \A i \in 1 .. n : i # n => r[i] = s[i]
  BY <1>1, Stepped
<1>3. DOMAIN r = 1 .. n /\ DOMAIN s = 1 .. n
  BY <1>1, <1>2, StackFacts
<1>4. \A i \in DOMAIN s : r[i].k = s[i].k
  BY <1>2, <1>3
<1>5. Entries(r) = Entries(s) /\ n \notin Entries(s)
  BY <1>2, <1>3, <1>4 DEF Entries
<1>6. s[n].f \in Fns(P) /\ Len(Code(P, s, n)) \in Nat /\ s[n].pc \in Nat
  BY TopFacts
<1> HIDE DEF r
<1>7. Shape(P, r)
  <2> SUFFICES ASSUME NEW i \in 1 .. n
               PROVE  /\ r[i].k = "fn" => r[i].pc \in 1 .. Len(Code(P, r, i)) + 1
                      /\ r[i].k = "entry" => i + 1 \in DOMAIN r /\ r[i + 1].k = "fn" /\ r[i + 1].f = r[i].f
                      /\ r[i].k # "fn" /\ i > 1 => r[i - 1].k = "fn"
    BY <1>2, <1>3 DEF Shape
  <2>1. /\ s[i].k = "fn" => s[i].pc \in 1 .. Len(Code(P, s, i)) + 1
        /\ s[i].k = "entry" => i + 1 \in DOMAIN s /\ s[i + 1].k = "fn" /\ s[i + 1].f = s[i].f
        /\ s[i].k # "fn" /\ i > 1 => s[i - 1].k = "fn"
    BY <1>3 DEF Good, Shape
  <2>2. CASE i = n
    <3>1. Code(P, r, n) = Code(P, s, n)
      BY <1>2 DEF Code
    <3>2. r[n].pc \in 1 .. Len(Code(P, r, n)) + 1
      BY <1>2, <1>6, <3>1
    <3> QED
      BY <1>2, <2>2, <3>2
  <2>3. CASE i # n
    <3>1. r[i] = s[i]
      BY <1>2, <2>3
    <3>2. Code(P, r, i) = Code(P, s, i)
      BY <3>1 DEF Code
    <3>3. i > 1 => i - 1 \in 1 .. n /\ r[i - 1].k = s[i - 1].k
      <4>1. i > 1 => i - 1 \in 1 .. n
        BY <1>2
      <4> QED
        BY <1>3, <1>4, <4>1
    <3>4. i + 1 \in 1 .. n /\ r[i + 1].k = s[i + 1].k /\ r[i + 1].f = s[i + 1].f
      <4>1. i + 1 \in 1 .. n
        BY <1>2, <2>3
      <4>2. i + 1 # n => r[i + 1] = s[i + 1]
        BY <1>2, <4>1
      <4> QED
        BY <1>2, <1>3, <1>4, <4>1, <4>2
    <3> QED
      BY <1>3, <2>1, <3>1, <3>2, <3>3, <3>4
  <2> QED
    BY <2>2, <2>3
<1>8. Guards(r, g)
  <2>1. \A x, h : Innermost(r, x, h) <=> Innermost(s, x, h)
    BY <1>5 DEF Innermost
  <2>2. \A i \in Entries(s) : r[i] = s[i]
    BY <1>2, <1>3, <1>5 DEF Entries
  <2> QED
    BY <1>2, <1>5, <2>1, <2>2 DEF Good, Guards
<1> QED
  BY <1>2, <1>3, <1>4, <1>5, <1>7, <1>8 DEF r

\* It may open a scope or close one: c is by how many more are open.
LEMMA ScopesGoOn ==
  ASSUME NEW P, WellFormed(P), NEW s, NEW g, NEW sc, NEW d, Good(P, s, g, sc),
         s # <<>>, s[Len(s)].k = "fn", s[Len(s)].pc <= Len(Code(P, s, Len(s))),
         d \in Seq(ScopeSet),
         \A j \in DOMAIN d : d[j].by \in DOMAIN s /\ s[d[j].by].k = "fn",
         \A i, j \in DOMAIN d : i <= j => d[i].by <= d[j].by,
         \A i \in DOMAIN s : i # Len(s) => Own(d, i) = Own(sc, i),
         Cardinality(Own(d, Len(s))) = Opened(Code(P, s, Len(s)), s[Len(s)].pc + 1),
         \A i \in Entries(s) : /\ s[i].scope \in 0 .. Len(d)
                               /\ \A j \in DOMAIN d : j <= s[i].scope <=> d[j].by < i
  PROVE  Good(P, Advanced(s), g, d)
<1> DEFINE n == Len(s)
           r == Advanced(s)
<1>1. /\ Shape(P, r) /\ Guards(r, g) /\ Len(r) = n /\ n \in Nat \ {0}
      /\ DOMAIN r = DOMAIN s /\ Entries(r) = Entries(s) /\ n \notin Entries(s)
      /\ r[n].k = "fn" /\ r[n].f = s[n].f /\ r[n].pc = s[n].pc + 1
      /\ \A i \in DOMAIN s : /\ i # n => r[i] = s[i]
                             /\ r[i].k = s[i].k
  BY GoesOn
<1> HIDE DEF r
<1>2. \A i \in DOMAIN r : r[i].k = "fn" => Cardinality(Own(d, i)) = Opened(Code(P, r, i), r[i].pc)
  <2> SUFFICES ASSUME NEW i \in DOMAIN s, r[i].k = "fn"
               PROVE  Cardinality(Own(d, i)) = Opened(Code(P, r, i), r[i].pc)
    BY <1>1
  <2>1. CASE i = n
    BY <1>1, <2>1 DEF Code
  <2>2. CASE i # n
    <3>1. Cardinality(Own(sc, i)) = Opened(Code(P, s, i), s[i].pc)
      BY <1>1, <2>2 DEF Good, Scopes
    <3> QED
      BY <1>1, <2>2, <3>1 DEF Code
  <2> QED
    BY <2>1, <2>2
<1>3. \A i \in Entries(r) : r[i] = s[i]
  BY <1>1 DEF Entries
<1>4. \A i \in Entries(r) : /\ r[i].scope \in 0 .. Len(d)
                            /\ \A j \in DOMAIN d : j <= r[i].scope <=> d[j].by < i
  BY <1>1, <1>3
<1>5. \A j \in DOMAIN d : d[j].by \in DOMAIN r /\ r[d[j].by].k = "fn"
  BY <1>1
<1>6. Scopes(P, r, d)
  BY <1>2, <1>4, <1>5 DEF Scopes
<1> QED
  BY <1>1, <1>6 DEF Good, r

\* It does neither.
LEMMA GoodAdvance ==
  ASSUME NEW P, WellFormed(P), NEW s, NEW g, NEW sc, Good(P, s, g, sc),
         s # <<>>, s[Len(s)].k = "fn", s[Len(s)].pc <= Len(Code(P, s, Len(s))),
         Code(P, s, Len(s))[s[Len(s)].pc].op \notin {"scope", "unscope"}
  PROVE  Good(P, Advanced(s), g, sc)
<1> DEFINE n == Len(s)
<1>1. n \in Nat \ {0} /\ s[n].pc \in Nat \ {0} /\ n \in DOMAIN s
  <2>1. s \in Seq(FrameSet(P))
    BY DEF Good, Shape
  <2> QED
    BY <2>1, TopFacts, StackFacts
<1>2. Opened(Code(P, s, n), s[n].pc + 1) = Opened(Code(P, s, n), s[n].pc)
  BY <1>1, OpenedNext
<1>3. Scopes(P, s, sc)
  BY DEF Good
<1>4. Cardinality(Own(sc, n)) = Opened(Code(P, s, n), s[n].pc + 1)
  BY <1>1, <1>2, <1>3 DEF Scopes
<1> QED
  BY <1>3, <1>4, ScopesGoOn DEF Scopes

\* The threads a scope has recorded do not matter.
LEMMA GoodRecorded ==
  ASSUME NEW P, NEW s, NEW g, NEW sc, NEW d, Good(P, s, g, sc),
         d \in Seq(ScopeSet), Len(d) = Len(sc), \A j \in DOMAIN sc : d[j].by = sc[j].by
  PROVE  Good(P, s, g, d)
<1>1. Scopes(P, s, sc)
  BY DEF Good
<1>2. DOMAIN d = DOMAIN sc
  BY <1>1, StackFacts DEF Scopes
<1>3. \A i : Own(d, i) = Own(sc, i)
  BY <1>2 DEF Own
<1>4. Scopes(P, s, d)
  BY <1>1, <1>2, <1>3 DEF Scopes
<1> QED
  BY <1>4 DEF Good

-----------------------------------------------------------------------------
\* OpenScope: the scope is the frame's on top.
LEMMA GoodOpen ==
  ASSUME NEW P, WellFormed(P), NEW s, NEW g, NEW sc, Good(P, s, g, sc),
         s # <<>>, s[Len(s)].k = "fn", s[Len(s)].pc <= Len(Code(P, s, Len(s))),
         Code(P, s, Len(s))[s[Len(s)].pc].op = "scope"
  PROVE  Good(P, Advanced(s), g, Append(sc, [by |-> Len(s), threads |-> {}]))
<1> DEFINE n == Len(s)
           x == [by |-> n, threads |-> {}]
           m == Len(sc)
           d == Append(sc, x)
<1>1. n \in Nat \ {0} /\ s[n].pc \in Nat \ {0} /\ n \in DOMAIN s /\ DOMAIN s = 1 .. n
  <2>1. s \in Seq(FrameSet(P))
    BY DEF Good, Shape
  <2> QED
    BY <2>1, TopFacts, StackFacts
<1>2. Scopes(P, s, sc)
  BY DEF Good
<1>3. x \in ScopeSet /\ x.by = n
  BY <1>1 DEF ScopeSet
<1>4. sc \in Seq(ScopeSet) /\ m \in Nat /\ DOMAIN sc = 1 .. m
  BY <1>2, StackFacts DEF Scopes
<1> HIDE DEF x
<1>5. d \in Seq(ScopeSet) /\ Len(d) = m + 1 /\ \A j \in 1 .. m + 1 : d[j] = IF j <= m THEN sc[j] ELSE x
  <2>1. /\ d \in Seq(ScopeSet) /\ Len(d) = m + 1
        /\ \A i \in 1 .. m : d[i] = sc[i]
        /\ d[m + 1] = x
    BY <1>3, <1>4, AppendProperties
  <2> HIDE DEF d
  <2>2. \A j \in 1 .. m + 1 : IF j <= m THEN j \in 1 .. m ELSE j = m + 1
    BY <1>4
  <2> QED
    BY <2>1, <2>2
<1>6. DOMAIN d = 1 .. m + 1
  BY <1>5, StackFacts
<1> HIDE DEF d
<1>7. \A j \in DOMAIN d : d[j].by \in 1 .. n /\ s[d[j].by].k = "fn"
  BY <1>1, <1>2, <1>3, <1>4, <1>5, <1>6 DEF Scopes
<1>8. \A j \in 1 .. m : sc[j].by \in 1 .. n
  BY <1>1, <1>2, <1>4 DEF Scopes
<1>9. \A i, j \in DOMAIN d : i <= j => d[i].by <= d[j].by
  <2> SUFFICES ASSUME NEW i \in 1 .. m + 1, NEW j \in 1 .. m + 1, i <= j
               PROVE  d[i].by <= d[j].by
    BY <1>6
  <2>1. CASE j <= m
    <3>1. i \in 1 .. m /\ j \in 1 .. m
      BY <1>4, <2>1
    <3> QED
      BY <1>2, <1>4, <1>5, <2>1, <3>1 DEF Scopes
  <2>2. CASE ~(j <= m)
    BY <1>1, <1>3, <1>5, <1>6, <1>7, <2>2
  <2> QED
    BY <2>1, <2>2
<1>10. \A i \in DOMAIN s : i # n => Own(d, i) = Own(sc, i)
  <2> SUFFICES ASSUME NEW i \in 1 .. n, i # n PROVE Own(d, i) = Own(sc, i)
    BY <1>1
  <2>1. \A j \in 1 .. m + 1 : d[j].by = i <=> j \in 1 .. m /\ sc[j].by = i
    BY <1>3, <1>4, <1>5
  <2> QED
    BY <1>4, <1>6, <2>1 DEF Own
<1>11. Cardinality(Own(d, n)) = Opened(Code(P, s, n), s[n].pc + 1)
  <2>1. Own(d, n) = Own(sc, n) \cup {m + 1} /\ m + 1 \notin Own(sc, n)
    <3>1. \A j \in 1 .. m + 1 : d[j].by = n <=> (j \in 1 .. m /\ sc[j].by = n) \/ j = m + 1
      BY <1>3, <1>4, <1>5
    <3>2. m + 1 \in 1 .. m + 1 /\ m + 1 \notin 1 .. m /\ 1 .. m \subseteq 1 .. m + 1
      BY <1>4
    <3> QED
      BY <1>4, <1>6, <3>1, <3>2 DEF Own
  <2>2. IsFiniteSet(Own(sc, n))
    <3>1. Own(sc, n) \subseteq 1 .. m /\ IsFiniteSet(1 .. m)
      BY <1>4, FS_Interval DEF Own
    <3> QED
      BY <3>1, FS_Subset
  <2>3. Cardinality(Own(d, n)) = Cardinality(Own(sc, n)) + 1
    BY <2>1, <2>2, FS_AddElement
  <2>4. Cardinality(Own(sc, n)) = Opened(Code(P, s, n), s[n].pc)
    BY <1>1, <1>2 DEF Scopes
  <2> QED
    BY <1>1, <2>3, <2>4, OpenedNext
<1>12. \A i \in Entries(s) : /\ s[i].scope \in 0 .. m + 1
                             /\ \A j \in DOMAIN d : j <= s[i].scope <=> d[j].by < i
  <2> SUFFICES ASSUME NEW i \in Entries(s)
               PROVE  /\ s[i].scope \in 0 .. m + 1
                      /\ \A j \in 1 .. m + 1 : j <= s[i].scope <=> d[j].by < i
    BY <1>6
  <2>1. s[i].scope \in 0 .. m /\ i \in 1 .. n /\ \A j \in 1 .. m : j <= s[i].scope <=> sc[j].by < i
    BY <1>1, <1>2, <1>4 DEF Scopes, Entries
  <2>2. ASSUME NEW j \in 1 .. m + 1 PROVE j <= s[i].scope <=> d[j].by < i
    <3>1. CASE j <= m
      <4>1. j \in 1 .. m
        BY <1>4, <3>1
      <4> QED
        BY <1>5, <2>1, <3>1, <4>1
    <3>2. CASE ~(j <= m)
      BY <1>1, <1>3, <1>4, <1>5, <2>1, <3>2
    <3> QED
      BY <3>1, <3>2
  <2> QED
    BY <1>4, <2>1, <2>2
<1>13. \A j \in DOMAIN d : d[j].by \in DOMAIN s /\ s[d[j].by].k = "fn"
  BY <1>1, <1>7
<1>14. Good(P, Advanced(s), g, d)
  <2>1. \A i \in Entries(s) : /\ s[i].scope \in 0 .. Len(d)
                             /\ \A j \in DOMAIN d : j <= s[i].scope <=> d[j].by < i
    BY <1>5, <1>12
  <2>2. d \in Seq(ScopeSet)
    BY <1>5
  <2> QED
    BY <1>9, <1>10, <1>11, <1>13, <2>1, <2>2, ScopesGoOn
<1> QED
  BY <1>14 DEF d, x

\* CloseScope: the last scope is the frame's on top.
LEMMA GoodClose ==
  ASSUME NEW P, WellFormed(P), NEW s, NEW g, NEW sc, Good(P, s, g, sc),
         s # <<>>, s[Len(s)].k = "fn", s[Len(s)].pc <= Len(Code(P, s, Len(s))),
         Code(P, s, Len(s))[s[Len(s)].pc].op = "unscope"
  PROVE  sc # <<>> /\ Good(P, Advanced(s), g, SubSeq(sc, 1, Len(sc) - 1))
<1> DEFINE n == Len(s)
           m == Len(sc)
           d == SubSeq(sc, 1, m - 1)
<1>1. n \in Nat \ {0} /\ s[n].pc \in Nat \ {0} /\ n \in DOMAIN s /\ DOMAIN s = 1 .. n
      /\ s[n].f \in Fns(P)
  <2>1. s \in Seq(FrameSet(P))
    BY DEF Good, Shape
  <2> QED
    BY <2>1, TopFacts, StackFacts
<1>2. Scopes(P, s, sc)
  BY DEF Good
<1>3. sc \in Seq(ScopeSet) /\ m \in Nat /\ DOMAIN sc = 1 .. m /\ (sc = <<>> => m = 0)
  BY <1>2, StackFacts DEF Scopes
<1>4. Opened(Code(P, s, n), s[n].pc + 1) >= 0
  <2>1. s[n].pc + 1 \in 1 .. Len(Code(P, s, n)) + 1
    BY <1>1, TopFacts
  <2> QED
    BY <1>1, <2>1, BodyFacts DEF Code
<1>5. Cardinality(Own(sc, n)) = Opened(Code(P, s, n), s[n].pc)
  BY <1>1, <1>2 DEF Scopes
<1>6. Cardinality(Own(sc, n)) >= 1
  BY <1>1, <1>4, <1>5, OpenedNext
<1>7. Own(sc, n) # {}
  <2>1. Cardinality({}) = 0
    BY FS_EmptySet
  <2> SUFFICES ASSUME Own(sc, n) = {} PROVE FALSE
    OBVIOUS
  <2>2. Cardinality(Own(sc, n)) = 0
    BY <2>1
  <2> QED
    BY <1>6, <2>2
<1>8. \A j \in 1 .. m : sc[j].by \in 1 .. n
  BY <1>1, <1>2, <1>3 DEF Scopes
<1>9. m >= 1 /\ m \in 1 .. m /\ sc[m].by = n
  <2>1. PICK j \in 1 .. m : sc[j].by = n
    BY <1>3, <1>7 DEF Own
  <2>2. m \in 1 .. m /\ j <= m
    BY <1>3, <2>1
  <2>3. sc[j].by <= sc[m].by
    BY <1>2, <1>3, <2>1, <2>2 DEF Scopes
  <2> QED
    BY <1>1, <1>8, <2>1, <2>2, <2>3
<1>10. m - 1 \in 0 .. m /\ m - 1 \in Nat
  BY <1>3, <1>9
<1>11. d \in Seq(ScopeSet) /\ Len(d) = m - 1 /\ \A j \in 1 .. m - 1 : d[j] = sc[j]
  BY <1>3, <1>10, Prefix
<1>12. DOMAIN d = 1 .. m - 1 /\ \A j \in 1 .. m - 1 : j \in 1 .. m
  BY <1>3, <1>9, <1>11, StackFacts
<1> HIDE DEF d
<1>13. \A j \in DOMAIN d : d[j].by \in DOMAIN s /\ s[d[j].by].k = "fn"
  BY <1>2, <1>3, <1>11, <1>12 DEF Scopes
<1>14. \A i, j \in DOMAIN d : i <= j => d[i].by <= d[j].by
  BY <1>2, <1>3, <1>11, <1>12 DEF Scopes
<1>15. \A i : Own(d, i) = Own(sc, i) \ {m}
  <2>1. \A j : j \in 1 .. m - 1 <=> j \in 1 .. m /\ j # m
    BY <1>3, <1>9
  <2> QED
    BY <1>3, <1>11, <1>12, <2>1 DEF Own
<1>16. \A i \in DOMAIN s : i # n => Own(d, i) = Own(sc, i)
  BY <1>9, <1>15 DEF Own
<1>17. Cardinality(Own(d, n)) = Opened(Code(P, s, n), s[n].pc + 1)
  <2>1. IsFiniteSet(Own(sc, n))
    <3>1. Own(sc, n) \subseteq 1 .. m /\ IsFiniteSet(1 .. m)
      BY <1>3, FS_Interval DEF Own
    <3> QED
      BY <3>1, FS_Subset
  <2>2. m \in Own(sc, n)
    BY <1>3, <1>9 DEF Own
  <2>3. Cardinality(Own(d, n)) = Cardinality(Own(sc, n)) - 1
    BY <1>15, <2>1, <2>2, FS_RemoveElement
  <2> QED
    BY <1>1, <1>5, <2>3, OpenedNext
<1>18. \A i \in Entries(s) : /\ s[i].scope \in 0 .. Len(d)
                             /\ \A j \in DOMAIN d : j <= s[i].scope <=> d[j].by < i
  <2> SUFFICES ASSUME NEW i \in Entries(s)
               PROVE  /\ s[i].scope \in 0 .. m - 1
                      /\ \A j \in 1 .. m - 1 : j <= s[i].scope <=> d[j].by < i
    BY <1>11, <1>12
  <2>1. s[i].scope \in 0 .. m /\ i \in 1 .. n /\ \A j \in 1 .. m : j <= s[i].scope <=> sc[j].by < i
    BY <1>1, <1>2, <1>3 DEF Scopes, Entries
  <2>2. ~(m <= s[i].scope)
    BY <1>1, <1>9, <2>1
  <2>3. s[i].scope \in 0 .. m - 1
    BY <1>3, <2>1, <2>2
  <2> QED
    BY <1>11, <1>12, <2>1, <2>3
<1>19. Good(P, Advanced(s), g, d)
  BY <1>11, <1>13, <1>14, <1>16, <1>17, <1>18, ScopesGoOn
<1>20. sc # <<>>
  BY <1>3, <1>9
<1> QED
  BY <1>19, <1>20 DEF d

-----------------------------------------------------------------------------
\* Frames are pushed: a function's, an entry's and a function's, or a lock's and
\* a function's.
LEMMA GoodPush ==
  ASSUME NEW P, WellFormed(P), NEW s, NEW g, NEW sc, Good(P, s, g, sc),
         NEW r \in Seq(FrameSet(P)), NEW h, NEW n \in Nat, NEW l \in Nat,
         n = Len(s), l = Len(r), l = n + 1 \/ l = n + 2,
         \A i \in 1 .. n : r[i] = s[i],
         r[l].k = "fn", r[l].pc = 1,
         l = n + 1 => h = g,
         l = n + 2 =>
           /\ n # 0 => s[n].k = "fn"
           /\ \/ r[n + 1].k = "lock" /\ h = g
              \/ /\ r[n + 1].k = "entry" /\ h = n + 1 /\ r[n + 1].outer = g
                 /\ r[n + 1].scope = Len(sc) /\ r[n + 1].f = r[l].f
  PROVE  Good(P, r, h, sc)
<1>1. s \in Seq(FrameSet(P)) /\ Shape(P, s) /\ Guards(s, g) /\ Scopes(P, s, sc)
  BY DEF Good, Shape
<1>2. DOMAIN s = 1 .. n /\ DOMAIN r = 1 .. l
  BY <1>1, StackFacts
<1>3. \A i \in 1 .. l : i \in 1 .. n \/ i = n + 1 \/ i = n + 2
  BY <1>2
<1>4. \A i \in 1 .. n : i \in 1 .. l /\ i + 1 \in 1 .. l
  BY <1>2
<1>5. \A i \in 1 .. n : r[i] = s[i] /\ Code(P, r, i) = Code(P, s, i)
  BY DEF Code
<1>6. \A i \in 1 .. l : ~(i \in 1 .. n) => \/ i = l
                                           \/ i = n + 1 /\ l = n + 2 /\ r[i].k \in {"entry", "lock"}
  BY <1>2, <1>3
<1>7. r[l].f \in Fns(P) /\ Len(Code(P, r, l)) \in Nat /\ Opened(Code(P, r, l), r[l].pc) = 0
  <2>1. r[l] \in FrameSet(P)
    BY <1>2, StackFacts
  <2>2. r[l].f \in Fns(P)
    BY <2>1, FrameFacts
  <2> QED
    BY <2>2, BodyFacts, OpenedFirst DEF Code
<1>8. Shape(P, r)
  <2> SUFFICES ASSUME NEW i \in 1 .. l
               PROVE  /\ r[i].k = "fn" => r[i].pc \in 1 .. Len(Code(P, r, i)) + 1
                      /\ r[i].k = "entry" => i + 1 \in 1 .. l /\ r[i + 1].k = "fn" /\ r[i + 1].f = r[i].f
                      /\ r[i].k # "fn" /\ i > 1 => r[i - 1].k = "fn"
    BY <1>2 DEF Shape
  <2>1. CASE i \in 1 .. n
    <3>1. /\ s[i].k = "fn" => s[i].pc \in 1 .. Len(Code(P, s, i)) + 1
          /\ s[i].k = "entry" => i + 1 \in 1 .. n /\ s[i + 1].k = "fn" /\ s[i + 1].f = s[i].f
          /\ s[i].k # "fn" /\ i > 1 => s[i - 1].k = "fn"
      BY <1>1, <1>2, <2>1 DEF Shape
    <3>2. i > 1 => i - 1 \in 1 .. n
      BY <1>2, <2>1
    <3>3. i > 1 => r[i - 1] = s[i - 1]
      BY <3>2
    <3>4. s[i].k = "entry" => r[i + 1] = s[i + 1]
      BY <3>1
    <3> QED
      BY <1>4, <1>5, <2>1, <3>1, <3>3, <3>4
  <2>2. CASE i = l
    BY <1>7, <2>2
  <2>3. CASE i = n + 1 /\ l = n + 2 /\ r[i].k \in {"entry", "lock"}
    <3>1. i + 1 = l /\ i - 1 = n /\ i + 1 \in 1 .. l
      BY <1>2, <2>3
    <3>2. i > 1 => n \in 1 .. n /\ n # 0
      BY <1>2, <2>3
    <3>3. i > 1 => r[n].k = "fn"
      BY <2>3, <3>2
    <3>4. r[i].k = "entry" => r[i].f = r[l].f
      BY <2>3
    <3> QED
      BY <2>3, <3>1, <3>3, <3>4
  <2> QED
    BY <1>6, <2>1, <2>2, <2>3
<1>9. Entries(s) = {i \in 1 .. n : s[i].k = "entry"} /\ Entries(r) = {i \in 1 .. l : r[i].k = "entry"}
  BY <1>2 DEF Entries
<1>10. \A i : i \in Entries(r) <=> \/ i \in Entries(s)
                                   \/ i = n + 1 /\ l = n + 2 /\ r[i].k = "entry"
  <2>1. n + 2 = l => n + 1 \in 1 .. l
    BY <1>2
  <2> QED
    BY <1>4, <1>5, <1>6, <1>9, <2>1
<1>11. \A x \in 0 .. n : \A e : Innermost(s, x, e) => Innermost(r, x, e)
  <2> SUFFICES ASSUME NEW x \in 0 .. n, NEW e, Innermost(s, x, e) PROVE Innermost(r, x, e)
    OBVIOUS
  <2>1. e = 0 \/ (e \in Entries(r) /\ e <= x)
    BY <1>10 DEF Innermost
  <2>2. \A i \in Entries(r) : i <= x => i \in Entries(s)
    BY <1>2, <1>10
  <2> QED
    BY <2>1, <2>2 DEF Innermost
<1>12. Innermost(s, n, g) /\ \A i \in Entries(s) : Innermost(s, i - 1, s[i].outer)
  BY <1>1 DEF Guards
<1>13. Innermost(r, l, h)
  <2>1. CASE l = n + 2 /\ r[n + 1].k = "entry"
    <3>1. h = n + 1 /\ h \in Entries(r) /\ h <= l
      BY <1>2, <1>10, <2>1
    <3>2. \A i \in Entries(r) : i <= h
      BY <1>2, <1>9, <1>10, <3>1
    <3> QED
      BY <3>1, <3>2 DEF Innermost
  <2>2. CASE ~(l = n + 2 /\ r[n + 1].k = "entry")
    <3>1. h = g /\ Entries(r) = Entries(s)
      BY <1>2, <1>10, <2>2
    <3>2. g = 0 \/ (g \in Entries(r) /\ g <= l)
      BY <1>2, <1>9, <1>12, <3>1 DEF Innermost
    <3>3. \A i \in Entries(r) : i <= g
      BY <1>2, <1>9, <1>12, <3>1 DEF Innermost
    <3> QED
      BY <3>1, <3>2, <3>3 DEF Innermost
  <2> QED
    BY <2>1, <2>2
<1>14. ASSUME NEW i \in Entries(r) PROVE Innermost(r, i - 1, r[i].outer)
  <2>1. CASE i \in Entries(s)
    <3>1. i - 1 \in 0 .. n /\ r[i] = s[i]
      BY <1>2, <1>9, <2>1
    <3> QED
      BY <1>11, <1>12, <2>1, <3>1
  <2>2. CASE i = n + 1 /\ l = n + 2 /\ r[i].k = "entry"
    <3>1. i - 1 = n /\ n \in 0 .. n /\ r[i].outer = g
      BY <1>2, <2>2
    <3> QED
      BY <1>11, <1>12, <3>1
  <2> QED
    BY <1>10, <2>1, <2>2
<1>15. Guards(r, h)
  BY <1>13, <1>14 DEF Guards
<1>16. sc \in Seq(ScopeSet) /\ Len(sc) \in Nat /\ DOMAIN sc = 1 .. Len(sc)
       /\ \A j \in DOMAIN sc : sc[j].by \in 1 .. n
  BY <1>1, <1>2, StackFacts DEF Scopes
<1>17. \A j \in DOMAIN sc : sc[j].by \in DOMAIN r /\ r[sc[j].by].k = "fn"
  BY <1>1, <1>2, <1>4, <1>5, <1>16 DEF Scopes
<1>18. ASSUME NEW i \in 1 .. l, r[i].k = "fn"
       PROVE  Cardinality(Own(sc, i)) = Opened(Code(P, r, i), r[i].pc)
  <2>1. CASE i \in 1 .. n
    BY <1>1, <1>2, <1>5, <1>18, <2>1 DEF Scopes
  <2>2. CASE i = l
    <3>1. Own(sc, i) = {}
      BY <1>2, <1>16, <2>2 DEF Own
    <3>2. Cardinality({}) = 0
      BY FS_EmptySet
    <3> QED
      BY <1>7, <2>2, <3>1, <3>2
  <2> QED
    BY <1>6, <1>18, <2>1, <2>2
<1>19. ASSUME NEW i \in Entries(r)
       PROVE  /\ r[i].scope \in 0 .. Len(sc)
              /\ \A j \in DOMAIN sc : j <= r[i].scope <=> sc[j].by < i
  <2>1. CASE i \in Entries(s)
    BY <1>1, <1>5, <1>9, <2>1 DEF Scopes
  <2>2. CASE i = n + 1 /\ l = n + 2 /\ r[i].k = "entry"
    BY <1>2, <1>16, <2>2
  <2> QED
    BY <1>10, <2>1, <2>2
<1>20. Scopes(P, r, sc)
  BY <1>1, <1>2, <1>17, <1>18, <1>19 DEF Scopes
<1> QED
  BY <1>8, <1>15, <1>20 DEF Good

\* Frames are left, and the scopes of those that are.
LEMMA GoodCut ==
  ASSUME NEW P, NEW s, NEW g, NEW sc, Good(P, s, g, sc),
         NEW m \in Nat, NEW n \in Nat, n = Len(s), m <= n,
         NEW q \in Nat, NEW b \in Nat, b = Len(sc), q <= b,
         NEW r \in Seq(FrameSet(P)), Len(r) = m, \A i \in 1 .. m : r[i] = s[i],
         NEW d \in Seq(ScopeSet), Len(d) = q, \A j \in 1 .. q : d[j] = sc[j],
         m # 0 => s[m].k # "entry",
         \A j \in 1 .. b : j <= q <=> sc[j].by <= m,
         NEW h, Innermost(s, m, h)
  PROVE  Good(P, r, h, d)
<1>1. s \in Seq(FrameSet(P)) /\ sc \in Seq(ScopeSet) /\ Shape(P, s) /\ Guards(s, g) /\ Scopes(P, s, sc)
  BY DEF Good, Shape, Scopes
<1>2. DOMAIN s = 1 .. n /\ DOMAIN r = 1 .. m /\ DOMAIN sc = 1 .. b /\ DOMAIN d = 1 .. q
  BY <1>1, StackFacts
<1>3. \A i \in 1 .. m : i \in 1 .. n /\ (i > 1 => i - 1 \in 1 .. m)
  OBVIOUS
<1>4. \A j \in 1 .. q : j \in 1 .. b
  OBVIOUS
<1>5. \A i \in 1 .. m : Code(P, r, i) = Code(P, s, i)
  BY DEF Code
<1>6. Shape(P, r)
  <2> SUFFICES ASSUME NEW i \in 1 .. m
               PROVE  /\ r[i].k = "fn" => r[i].pc \in 1 .. Len(Code(P, r, i)) + 1
                      /\ r[i].k = "entry" => i + 1 \in 1 .. m /\ r[i + 1].k = "fn" /\ r[i + 1].f = r[i].f
                      /\ r[i].k # "fn" /\ i > 1 => r[i - 1].k = "fn"
    BY <1>2 DEF Shape
  <2>1. /\ s[i].k = "fn" => s[i].pc \in 1 .. Len(Code(P, s, i)) + 1
        /\ s[i].k = "entry" => i + 1 \in 1 .. n /\ s[i + 1].k = "fn" /\ s[i + 1].f = s[i].f
        /\ s[i].k # "fn" /\ i > 1 => s[i - 1].k = "fn"
    BY <1>1, <1>2, <1>3 DEF Shape
  <2>2. r[i] = s[i] /\ (i > 1 => r[i - 1] = s[i - 1])
    BY <1>3
  <2>3. s[i].k = "entry" => i + 1 \in 1 .. m /\ r[i + 1] = s[i + 1]
    <3>1. s[i].k = "entry" => i # m
      OBVIOUS
    <3>2. i # m => i + 1 \in 1 .. m
      OBVIOUS
    <3> QED
      BY <3>1, <3>2
  <2> QED
    BY <1>5, <2>1, <2>2, <2>3
<1>7. \A i : i \in Entries(r) <=> i \in Entries(s) /\ i <= m
  BY <1>2, <1>3 DEF Entries
<1>8. Guards(r, h)
  <2>1. Innermost(r, m, h)
    BY <1>7 DEF Innermost
  <2>2. ASSUME NEW i \in Entries(r) PROVE Innermost(r, i - 1, r[i].outer)
    <3>1. i \in Entries(s) /\ i \in 1 .. m /\ r[i] = s[i]
      BY <1>2, <1>7, <2>2 DEF Entries
    <3>2. Innermost(s, i - 1, s[i].outer)
      BY <1>1, <3>1 DEF Guards
    <3>3. \A e \in Entries(s) : e \in 1 .. n
      BY <1>2 DEF Entries
    <3>4. \A e \in Entries(s) : e <= i - 1 => e \in Entries(r)
      BY <1>7, <3>1, <3>3
    <3> QED
      BY <1>7, <3>1, <3>2, <3>4 DEF Innermost
  <2> QED
    BY <2>1, <2>2 DEF Guards
<1>9. \A j \in 1 .. b : sc[j].by \in 1 .. n /\ s[sc[j].by].k = "fn"
  BY <1>1, <1>2 DEF Scopes
<1>10. \A j \in 1 .. q : d[j].by \in 1 .. m /\ r[d[j].by].k = "fn"
  BY <1>4, <1>9
<1>11. \A i, j \in 1 .. q : i <= j => d[i].by <= d[j].by
  BY <1>1, <1>2, <1>4 DEF Scopes
<1>12. ASSUME NEW i \in 1 .. m, r[i].k = "fn"
       PROVE  Cardinality(Own(d, i)) = Opened(Code(P, r, i), r[i].pc)
  <2>1. \A j : j \in 1 .. q /\ d[j].by = i <=> j \in 1 .. b /\ sc[j].by = i
    BY <1>4, <1>9
  <2>2. Own(d, i) = Own(sc, i)
    BY <1>2, <2>1 DEF Own
  <2> QED
    BY <1>1, <1>2, <1>3, <1>5, <1>12, <2>2 DEF Scopes
<1>13. ASSUME NEW i \in Entries(r)
       PROVE  /\ r[i].scope \in 0 .. q
              /\ \A j \in 1 .. q : j <= r[i].scope <=> d[j].by < i
  <2>1. i \in Entries(s) /\ i \in 1 .. m /\ r[i] = s[i]
    BY <1>2, <1>7, <1>13 DEF Entries
  <2>2. s[i].scope \in 0 .. b /\ \A j \in 1 .. b : j <= s[i].scope <=> sc[j].by < i
    BY <1>1, <1>2, <2>1 DEF Scopes
  <2>3. s[i].scope # 0 => s[i].scope \in 1 .. b /\ sc[s[i].scope].by < i
    BY <2>2
  <2>4. s[i].scope # 0 => sc[s[i].scope].by \in Nat
    BY <1>9, <2>3
  <2>5. s[i].scope # 0 => sc[s[i].scope].by <= m
    BY <2>1, <2>3, <2>4
  <2>6. s[i].scope <= q
    BY <2>2, <2>3, <2>5
  <2> QED
    BY <1>4, <2>1, <2>2, <2>6
<1>14. Scopes(P, r, d)
  BY <1>2, <1>10, <1>11, <1>12, <1>13 DEF Scopes
<1> QED
  BY <1>6, <1>8, <1>14 DEF Good

\* A pl_ffi_call is left, whatever stands on its entry (Left).
LEMMA GoodLeft ==
  ASSUME NEW P, NEW s, NEW g, NEW sc, Good(P, s, g, sc), NEW i \in Entries(s)
  PROVE  Good(P, SubSeq(s, 1, i - 1), s[i].outer, SubSeq(sc, 1, s[i].scope))
<1> DEFINE n == Len(s)
           b == Len(sc)
           m == i - 1
           q == s[i].scope
           r == SubSeq(s, 1, m)
           d == SubSeq(sc, 1, q)
<1>1. s \in Seq(FrameSet(P)) /\ sc \in Seq(ScopeSet) /\ Shape(P, s) /\ Guards(s, g) /\ Scopes(P, s, sc)
  BY DEF Good, Shape, Scopes
<1>2. n \in Nat /\ b \in Nat /\ DOMAIN s = 1 .. n /\ DOMAIN sc = 1 .. b
  BY <1>1, StackFacts
<1>3. i \in 1 .. n /\ s[i].k = "entry"
  BY <1>2 DEF Entries
<1>4. m \in Nat /\ m <= n /\ m \in 0 .. n
  BY <1>2, <1>3
<1>5. q \in 0 .. b /\ \A j \in 1 .. b : j <= q <=> sc[j].by < i
  BY <1>1, <1>2 DEF Scopes
<1>6. q \in Nat /\ q <= b
  BY <1>2, <1>5
<1>7. r \in Seq(FrameSet(P)) /\ Len(r) = m /\ \A j \in 1 .. m : r[j] = s[j]
  BY <1>1, <1>4, Prefix
<1>8. d \in Seq(ScopeSet) /\ Len(d) = q /\ \A j \in 1 .. q : d[j] = sc[j]
  BY <1>1, <1>5, Prefix
<1>9. \A j \in 1 .. b : sc[j].by \in 1 .. n
  BY <1>1, <1>2 DEF Scopes
<1>10. \A j \in 1 .. b : j <= q <=> sc[j].by <= m
  BY <1>2, <1>3, <1>5, <1>9
<1>11. Innermost(s, m, s[i].outer)
  BY <1>1 DEF Guards
<1>12. m # 0 => s[m].k # "entry"
  <2>1. m # 0 => i > 1
    BY <1>3
  <2> QED
    BY <1>1, <1>2, <1>3, <2>1 DEF Shape
<1> HIDE DEF n, b, m, q, r, d
<1>13. n = Len(s) /\ b = Len(sc)
  BY DEF n, b
<1>14. Good(P, r, s[i].outer, d)
  BY <1>2, <1>4, <1>6, <1>7, <1>8, <1>10, <1>11, <1>12, <1>13, GoodCut
<1> QED
  BY <1>14 DEF r, d, m, q

\* A function at its end has no scope open.
LEMMA NoneOpen ==
  ASSUME NEW P, WellFormed(P), NEW s, NEW g, NEW sc, Good(P, s, g, sc), s # <<>>,
         \/ s[Len(s)].k = "lock"
         \/ s[Len(s)].k = "fn" /\ s[Len(s)].pc > Len(Code(P, s, Len(s)))
  PROVE  \A j \in 1 .. Len(sc) : sc[j].by \in 1 .. Len(s) - 1
<1> DEFINE n == Len(s)
<1>1. s \in Seq(FrameSet(P)) /\ sc \in Seq(ScopeSet) /\ Scopes(P, s, sc)
  BY DEF Good, Shape, Scopes
<1>2. n \in Nat \ {0} /\ DOMAIN s = 1 .. n /\ n \in 1 .. n /\ DOMAIN sc = 1 .. Len(sc)
  BY <1>1, StackFacts
<1>3. \A j \in 1 .. Len(sc) : sc[j].by \in 1 .. n /\ s[sc[j].by].k = "fn"
  BY <1>1, <1>2 DEF Scopes
<1>4. \A j \in 1 .. Len(sc) : sc[j].by # n
  <2>1. CASE s[n].k = "lock"
    BY <1>3, <2>1
  <2>2. CASE s[n].k = "fn" /\ s[n].pc > Len(Code(P, s, n))
    <3>1. s[n].f \in Fns(P) /\ s[n].pc = Len(Code(P, s, n)) + 1
      BY <2>2, TopFacts
    <3>2. Opened(Code(P, s, n), s[n].pc) = 0
      BY <3>1, BodyFacts DEF Code
    <3>3. Cardinality(Own(sc, n)) = 0
      BY <1>1, <1>2, <2>2, <3>2 DEF Scopes
    <3>4. IsFiniteSet(Own(sc, n))
      <4>1. Own(sc, n) \subseteq 1 .. Len(sc) /\ IsFiniteSet(1 .. Len(sc))
        <5>1. Len(sc) \in Nat
          BY <1>1, StackFacts
        <5> QED
          BY <1>2, <5>1, FS_Interval DEF Own
      <4> QED
        BY <4>1, FS_Subset
    <3>5. Own(sc, n) = {}
      BY <3>3, <3>4, FS_EmptySet
    <3> QED
      BY <1>2, <3>5 DEF Own
  <2> QED
    BY <2>1, <2>2
<1> QED
  BY <1>2, <1>3, <1>4

\* A function returns to the frame below it, or a lock to its own.
LEMMA GoodPop ==
  ASSUME NEW P, WellFormed(P), NEW s, NEW g, NEW sc, Good(P, s, g, sc), s # <<>>,
         \/ s[Len(s)].k = "lock"
         \/ s[Len(s)].k = "fn" /\ s[Len(s)].pc > Len(Code(P, s, Len(s))),
         Len(s) # 1 => s[Len(s) - 1].k # "entry"
  PROVE  Good(P, SubSeq(s, 1, Len(s) - 1), g, sc)
<1> DEFINE n == Len(s)
           m == n - 1
           b == Len(sc)
           r == SubSeq(s, 1, m)
<1>1. s \in Seq(FrameSet(P)) /\ sc \in Seq(ScopeSet) /\ Guards(s, g)
  BY DEF Good, Shape, Scopes
<1>2. n \in Nat \ {0} /\ DOMAIN s = 1 .. n /\ b \in Nat
  BY <1>1, StackFacts
<1>3. m \in Nat /\ m <= n /\ m \in 0 .. n /\ (m # 0 => s[m].k # "entry")
  BY <1>2
<1>4. r \in Seq(FrameSet(P)) /\ Len(r) = m /\ \A j \in 1 .. m : r[j] = s[j]
  BY <1>1, <1>3, Prefix
<1>5. \A j \in 1 .. b : sc[j].by \in 1 .. m
  BY NoneOpen
<1>6. Innermost(s, m, g)
  <2>1. \A e \in Entries(s) : e \in 1 .. n /\ e # n
    BY <1>2 DEF Entries
  <2>2. \A e \in Entries(s) : e <= m /\ e <= n
    BY <1>2, <2>1
  <2>3. Innermost(s, n, g)
    BY <1>1 DEF Guards
  <2> QED
    BY <2>2, <2>3 DEF Innermost
<1>7. \A j \in 1 .. b : j <= b <=> sc[j].by <= m
  BY <1>2, <1>3, <1>5
<1> HIDE DEF n, m, b, r
<1>8. n = Len(s) /\ b = Len(sc) /\ n \in Nat
  BY <1>2 DEF n, b
<1>9. b <= b /\ Len(sc) = b /\ \A j \in 1 .. b : sc[j] = sc[j]
  BY <1>2, <1>8
<1>10. Good(P, r, g, sc)
  BY <1>1, <1>2, <1>3, <1>4, <1>6, <1>7, <1>8, <1>9, GoodCut
<1> QED
  BY <1>10 DEF r, m, n

-----------------------------------------------------------------------------
NetOps == {"listen", "connect", "accept", "send", "recv"}

\* What a failed call died of, and how an argument was given back.
Whys == {"raised", "panic", "exit"} \cup Why
Causes   == {NoCause} \cup (Thread \X Fns(prog) \X Whys)
FreesSet == [own : BOOLEAN, times : 0 .. 1, panic : BOOLEAN]

HostType ==
  /\ prog \in Families /\ Accepted(prog)
  /\ born \in SUBSET Thread /\ prog.starts \subseteq born
  /\ stk \in [Thread -> Seq(FrameSet(prog))]
  /\ guard \in [Thread -> Nat]
  /\ scopes \in [Thread -> Seq(ScopeSet)]
  /\ ffierr \in [Thread -> Causes]
  /\ told \in [Thread -> Causes]
  /\ owner \in [Thread \X {"m"} -> Thread \cup {NoThread}]
  /\ frees \in [Thread -> FreesSet]
  /\ made \in [Thread -> 0 .. Calls]
  /\ dead \in BOOLEAN

\* The function on top calls net.ys.
Calling(P, s) ==
  /\ s # <<>> /\ s[Len(s)].k = "fn" /\ s[Len(s)].pc <= Len(Code(P, s, Len(s)))
  /\ Code(P, s, Len(s))[s[Len(s)].pc].op \in NetOps

FreeOk(f) == f.times = 0 => f.own /\ f.panic

ThreadInv(t) ==
  /\ Good(prog, stk[t], guard[t], scopes[t])
  /\ t \notin born => stk[t] = <<>>
  /\ net[t].fn # "idle" => Calling(prog, stk[t])
  /\ told[t] # NoCause => ffierr[t] = told[t]
  /\ FreeOk(frees[t])

HostInv == HostType /\ SockInv /\ \A t \in Thread : ThreadInv(t)

-----------------------------------------------------------------------------
\* The operations by their names.
LEMMA OperationFacts ==
  ASSUME NEW P, WellFormed(P), NEW o \in Operation(P)
  PROVE  /\ o.op \in {"call", "new", "value", "spawn", "callout", "lock"} => o.f \in Fns(P)
         /\ o.op = "callout" => o.f \in P.exports
         /\ o.op \in {"mutex", "touch", "direct", "lock"} => o.m \in {"mine", "main"}
         /\ o.op = "send" => o.m \in Messages
<1>1. P.exports \subseteq Fns(P)
  BY DEF WellFormed
<1>2. CASE o \in [op : {"write", "mutate", "read", "raise", "panic", "exit", "scope", "unscope",
                        "join", "close"}]
  <2>1. o.op \in {"write", "mutate", "read", "raise", "panic", "exit", "scope", "unscope", "join", "close"}
    BY <1>2
  <2> QED
    BY <2>1
<1>3. CASE o \in [op : {"listen", "connect", "accept", "recv"}, try : BOOLEAN]
             \cup [op : {"send"}, try : BOOLEAN, m : Messages]
  <2>1. CASE o \in [op : {"listen", "connect", "accept", "recv"}, try : BOOLEAN]
    <3>1. o.op \in {"listen", "connect", "accept", "recv"}
      BY <2>1
    <3> QED
      BY <3>1
  <2>2. CASE o \in [op : {"send"}, try : BOOLEAN, m : Messages]
    <3>1. o.op = "send" /\ o.m \in Messages
      BY <2>2
    <3> QED
      BY <3>1
  <2> QED
    BY <1>3, <2>1, <2>2
<1>4. CASE o \in [op : {"call", "new", "value", "spawn"}, f : Fns(P)]
  <2>1. o.op \in {"call", "new", "value", "spawn"} /\ o.f \in Fns(P)
    BY <1>4
  <2> QED
    BY <2>1
<1>5. CASE o \in [op : {"callout"}, f : P.exports]
  <2>1. o.op = "callout" /\ o.f \in P.exports /\ o.f \in Fns(P)
    BY <1>1, <1>5
  <2> QED
    BY <2>1
<1>6. CASE o \in [op : {"mutex", "touch", "direct"}, m : {"mine", "main"}]
  <2>1. o.op \in {"mutex", "touch", "direct"} /\ o.m \in {"mine", "main"}
    BY <1>6
  <2> QED
    BY <2>1
<1>7. CASE o \in [op : {"lock"}, m : {"mine", "main"}, f : Fns(P)]
  <2>1. o.op = "lock" /\ o.m \in {"mine", "main"} /\ o.f \in Fns(P)
    BY <1>7
  <2> QED
    BY <2>1
<1> QED
  BY <1>2, <1>3, <1>4, <1>5, <1>6, <1>7 DEF Operation

LEMMA ProgWell ==
  ASSUME HostType
  PROVE  WellFormed(prog)
  BY FamiliesAssumption DEF HostType

\* The operation a thread is at, and its stack.
LEMMA AtFacts ==
  ASSUME HostInv, NEW t \in Thread, NEW ops, At(t, ops)
  PROVE  /\ stk[t] # <<>> /\ Len(stk[t]) \in Nat \ {0} /\ Top(t) = stk[t][Len(stk[t])]
         /\ Top(t).k = "fn" /\ Top(t).f \in Fns(prog)
         /\ Top(t).pc \in Nat /\ Top(t).pc >= 1 /\ Top(t).pc <= Len(Code(prog, stk[t], Len(stk[t])))
         /\ Op(t) = Code(prog, stk[t], Len(stk[t]))[Top(t).pc]
         /\ Op(t) \in Operation(prog) /\ Op(t).op \in ops
         /\ net[t] = Idle /\ t \in born /\ ~dead
<1>1. WellFormed(prog)
  BY ProgWell DEF HostInv
<1>2. Good(prog, stk[t], guard[t], scopes[t]) /\ (t \notin born => stk[t] = <<>>)
  BY DEF HostInv, ThreadInv
<1>3. stk[t] # <<>> /\ Top(t).k = "fn" /\ Op(t).op \in ops /\ net[t] = Idle /\ ~dead
      /\ Top(t).pc <= Len(Body(prog, Top(t).f))
  BY DEF At, InBody
<1>4. stk[t] \in Seq(FrameSet(prog))
  BY DEF HostInv, HostType
<1>5. Len(stk[t]) \in Nat \ {0} /\ Top(t) = stk[t][Len(stk[t])]
  BY <1>3, <1>4, StackFacts DEF Top
<1>6. Op(t) = Code(prog, stk[t], Len(stk[t]))[Top(t).pc]
  BY <1>5 DEF Op, Code
<1>7. Code(prog, stk[t], Len(stk[t])) = Body(prog, Top(t).f)
  BY <1>5 DEF Code
<1>8. /\ Top(t).f \in Fns(prog) /\ Top(t).pc \in Nat /\ 1 <= Top(t).pc
      /\ Op(t) \in Operation(prog)
  BY <1>1, <1>2, <1>3, <1>5, <1>6, <1>7, TopFacts
<1> QED
  BY <1>2, <1>3, <1>5, <1>6, <1>7, <1>8

\* A step of one thread keeps the invariant when what it leaves of that thread
\* is in order.
LEMMA OneThread ==
  ASSUME HostInv, SockInv', NEW t \in Thread, t \in born, UNCHANGED <<prog, born>>,
         NEW s, NEW g, NEW sc, Good(prog, s, g, sc),
         stk' = [stk EXCEPT ![t] = s], guard' = [guard EXCEPT ![t] = g],
         scopes' = [scopes EXCEPT ![t] = sc],
         NEW e \in Causes, NEW c \in Causes, c # NoCause => e = c,
         ffierr' = [ffierr EXCEPT ![t] = e], told' = [told EXCEPT ![t] = c],
         NEW f \in FreesSet, FreeOk(f), frees' = [frees EXCEPT ![t] = f],
         owner' \in [Thread \X {"m"} -> Thread \cup {NoThread}],
         made' \in [Thread -> 0 .. Calls], dead' \in BOOLEAN,
         \A u \in Thread : u # t => net'[u] = net[u],
         net'[t].fn # "idle" => Calling(prog, s)
  PROVE  HostInv'
<1>1. HostType /\ \A u \in Thread : ThreadInv(u)
  BY DEF HostInv
<1>2. s \in Seq(FrameSet(prog)) /\ sc \in Seq(ScopeSet)
  BY DEF Good, Shape, Scopes
<1>3. g \in Nat
  <2>1. g = 0 \/ g \in Entries(s)
    BY DEF Good, Guards, Innermost
  <2>2. Entries(s) \subseteq Nat
    BY <1>2, StackFacts DEF Entries
  <2> QED
    BY <2>1, <2>2
<1>4. HostType'
  BY <1>1, <1>2, <1>3 DEF HostType, Causes
<1>5. ASSUME NEW u \in Thread PROVE ThreadInv(u)'
  <2>1. CASE u = t
    <3>1. /\ stk'[t] = s /\ guard'[t] = g /\ scopes'[t] = sc /\ ffierr'[t] = e /\ told'[t] = c
          /\ frees'[t] = f
      BY <1>1 DEF HostType
    <3> QED
      BY <2>1, <3>1 DEF ThreadInv
  <2>2. CASE u # t
    <3>1. /\ stk'[u] = stk[u] /\ guard'[u] = guard[u] /\ scopes'[u] = scopes[u]
          /\ ffierr'[u] = ffierr[u] /\ told'[u] = told[u] /\ frees'[u] = frees[u] /\ net'[u] = net[u]
      BY <1>1, <2>2 DEF HostType
    <3> QED
      BY <1>1, <3>1 DEF ThreadInv
  <2> QED
    BY <2>1, <2>2
<1> QED
  BY <1>4, <1>5 DEF HostInv

-----------------------------------------------------------------------------
\* What a step leaves alone of a thread.
LEMMA Same ==
  ASSUME HostInv, NEW t \in Thread
  PROVE  /\ stk = [stk EXCEPT ![t] = stk[t]]
         /\ guard = [guard EXCEPT ![t] = guard[t]]
         /\ scopes = [scopes EXCEPT ![t] = scopes[t]]
         /\ ffierr = [ffierr EXCEPT ![t] = ffierr[t]]
         /\ told = [told EXCEPT ![t] = told[t]]
         /\ frees = [frees EXCEPT ![t] = frees[t]]
         /\ ffierr[t] \in Causes /\ told[t] \in Causes /\ (told[t] # NoCause => ffierr[t] = told[t])
         /\ frees[t] \in FreesSet /\ FreeOk(frees[t]) /\ NoCause \in Causes
         /\ owner \in [Thread \X {"m"} -> Thread \cup {NoThread}]
         /\ made \in [Thread -> 0 .. Calls] /\ dead \in BOOLEAN
         /\ Good(prog, stk[t], guard[t], scopes[t])
         /\ stk[t] # <<>> => t \in born
         /\ WellFormed(prog) /\ net[t] \in Net
<1>1. ThreadInv(t) /\ HostType
  BY DEF HostInv
<1>2. WellFormed(prog)
  BY <1>1, ProgWell
<1>3. net[t] \in Net
  BY DEF HostInv, SockInv, SockType
<1> QED
  BY <1>1, <1>2, <1>3 DEF ThreadInv, HostType, Causes

\* The stack when the operation on top is done, and when it calls f.
LEMMA AdvancedGood ==
  ASSUME HostInv, NEW t \in Thread, NEW ops, At(t, ops), "scope" \notin ops, "unscope" \notin ops
  PROVE  LET r == Advanced(stk[t])
         IN  /\ Good(prog, r, guard[t], scopes[t])
             /\ r \in Seq(FrameSet(prog)) /\ Len(r) = Len(stk[t]) /\ Len(r) \in Nat \ {0} /\ r # <<>>
             /\ r[Len(r)].k = "fn"
<1> DEFINE s == stk[t]
           r == Advanced(s)
<1>1. /\ s # <<>> /\ Len(s) \in Nat \ {0} /\ Top(t) = s[Len(s)]
      /\ Top(t).k = "fn" /\ Top(t).pc <= Len(Code(prog, s, Len(s)))
      /\ Op(t) = Code(prog, s, Len(s))[Top(t).pc] /\ Op(t).op \in ops
  BY AtFacts
<1>2. Good(prog, s, guard[t], scopes[t]) /\ WellFormed(prog)
  BY Same
<1>3. Code(prog, s, Len(s))[s[Len(s)].pc].op \notin {"scope", "unscope"}
  BY <1>1
<1> HIDE DEF s
<1>4. Good(prog, r, guard[t], scopes[t])
  BY <1>1, <1>2, <1>3, GoodAdvance
<1>5. s \in Seq(FrameSet(prog))
  BY <1>2 DEF Good, Shape
<1>6. r \in Seq(FrameSet(prog)) /\ Len(r) = Len(s) /\ r[Len(s)].k = "fn"
  BY <1>1, <1>5, Stepped
<1>7. r # <<>>
  <2>1. Len(<<>>) = 0
    OBVIOUS
  <2> HIDE DEF r
  <2> QED
    BY <1>1, <1>6, <2>1
<1> QED
  BY <1>1, <1>4, <1>6, <1>7 DEF s

LEMMA CalledGood ==
  ASSUME NEW P, WellFormed(P), NEW s, NEW g, NEW sc, Good(P, s, g, sc), NEW f \in Fns(P)
  PROVE  Good(P, Append(s, FnFrame(f)), g, sc)
<1> DEFINE r == Append(s, FnFrame(f))
           n == Len(s)
<1>1. s \in Seq(FrameSet(P))
  BY DEF Good, Shape
<1>2. FnFrame(f) \in FrameSet(P) /\ FnFrame(f).k = "fn" /\ FnFrame(f).pc = 1
  BY FrameMade
<1>3. r \in Seq(FrameSet(P)) /\ Len(r) = n + 1 /\ r[n + 1] = FnFrame(f) /\ \A i \in 1 .. n : r[i] = s[i]
  BY <1>1, <1>2, AppendProperties
<1>4. n \in Nat
  BY <1>1, StackFacts
<1> HIDE DEF r, n
<1>5. n = Len(s) /\ n + 1 \in Nat /\ n + 1 # n + 2
  BY <1>4 DEF n
<1>6. Good(P, r, g, sc)
  BY <1>2, <1>3, <1>4, <1>5, GoodPush
<1> QED
  BY <1>6 DEF r

\* A lock, and the function it calls.
LEMMA LockedGood ==
  ASSUME NEW P, WellFormed(P), NEW s, NEW g, NEW sc, Good(P, s, g, sc), NEW f \in Fns(P),
         NEW m \in Thread \X {"m"}, s # <<>>, s[Len(s)].k = "fn"
  PROVE  Good(P, s \o <<[k |-> "lock", m |-> m], FnFrame(f)>>, g, sc)
<1> DEFINE x == [k |-> "lock", m |-> m]
           r == s \o <<x, FnFrame(f)>>
           n == Len(s)
<1>1. s \in Seq(FrameSet(P)) /\ n \in Nat
  BY StackFacts DEF Good, Shape
<1>2. FnFrame(f) \in FrameSet(P) /\ FnFrame(f).k = "fn" /\ FnFrame(f).pc = 1
      /\ x \in FrameSet(P) /\ x.k = "lock"
  BY FrameMade
<1> HIDE DEF x
<1>3. /\ r \in Seq(FrameSet(P)) /\ Len(r) = n + 2 /\ r[n + 1] = x /\ r[n + 2] = FnFrame(f)
      /\ \A i \in 1 .. n : r[i] = s[i]
  BY <1>1, <1>2, PushedTwo
<1>4. s[n].k = "fn" /\ n = Len(s)
  OBVIOUS
<1> HIDE DEF r, n
<1> DEFINE l == n + 2
<1>5. l \in Nat /\ l # n + 1 /\ l = n + 2
  BY <1>1
<1>6. /\ r \in Seq(FrameSet(P)) /\ l = Len(r) /\ r[n + 1].k = "lock"
      /\ r[l].k = "fn" /\ r[l].pc = 1 /\ \A i \in 1 .. n : r[i] = s[i]
  BY <1>2, <1>3
<1> HIDE DEF l
<1>7. Good(P, r, g, sc)
  BY <1>1, <1>4, <1>5, <1>6, GoodPush
<1> QED
  BY <1>7 DEF r, x

\* An entry, and its function.
LEMMA EnteredGood ==
  ASSUME NEW P, WellFormed(P), NEW s, NEW g, NEW sc, Good(P, s, g, sc), NEW f \in P.exports,
         s # <<>> => s[Len(s)].k = "fn"
  PROVE  Good(P, s \o <<[k |-> "entry", f |-> f, outer |-> g, scope |-> Len(sc), freed |-> 0], FnFrame(f)>>,
              Len(s) + 1, sc)
<1> DEFINE x == [k |-> "entry", f |-> f, outer |-> g, scope |-> Len(sc), freed |-> 0]
           r == s \o <<x, FnFrame(f)>>
           n == Len(s)
<1>1. s \in Seq(FrameSet(P)) /\ n \in Nat /\ (n # 0 => s # <<>>) /\ sc \in Seq(ScopeSet)
  BY StackFacts DEF Good, Shape, Scopes
<1>2. Len(sc) \in Nat
  BY <1>1, StackFacts
<1>3. g \in Nat
  <2>1. g = 0 \/ g \in Entries(s)
    BY DEF Good, Guards, Innermost
  <2>2. Entries(s) \subseteq Nat
    BY <1>1, StackFacts DEF Entries
  <2> QED
    BY <2>1, <2>2
<1>4. f \in Fns(P)
  BY DEF WellFormed
<1>5. FnFrame(f) \in FrameSet(P) /\ FnFrame(f).k = "fn" /\ FnFrame(f).pc = 1 /\ FnFrame(f).f = f
      /\ x \in FrameSet(P) /\ x.k = "entry" /\ x.f = f /\ x.outer = g /\ x.scope = Len(sc)
  <2>1. FnFrame(f) \in FrameSet(P) /\ FnFrame(f).k = "fn" /\ FnFrame(f).pc = 1 /\ FnFrame(f).f = f
    BY <1>4, FrameMade
  <2>2. x \in FrameSet(P) /\ x.k = "entry" /\ x.f = f /\ x.outer = g /\ x.scope = Len(sc)
    BY <1>2, <1>3, FrameMade
  <2> QED
    BY <2>1, <2>2
<1> HIDE DEF x
<1>6. /\ r \in Seq(FrameSet(P)) /\ Len(r) = n + 2 /\ r[n + 1] = x /\ r[n + 2] = FnFrame(f)
      /\ \A i \in 1 .. n : r[i] = s[i]
  BY <1>1, <1>5, PushedTwo
<1>7. (n # 0 => s[n].k = "fn") /\ n = Len(s)
  BY <1>1
<1> HIDE DEF r, n
<1>8. n + 2 \in Nat /\ n + 1 # n + 2
  BY <1>1
<1>9. Good(P, r, n + 1, sc)
  BY <1>1, <1>5, <1>6, <1>7, <1>8, GoodPush, SMTT(30)
<1> QED
  BY <1>9 DEF r, x, n

\* A step of the stack, the guard and the scopes of one thread.
LEMMA Quietly ==
  ASSUME HostInv, NEW t \in Thread, t \in born,
         UNCHANGED <<prog, born, ffierr, frees, made, dead, sockVars>>,
         owner' \in [Thread \X {"m"} -> Thread \cup {NoThread}],
         told' = told \/ told' = [told EXCEPT ![t] = NoCause],
         NEW s, NEW g, NEW sc, Good(prog, s, g, sc),
         stk' = [stk EXCEPT ![t] = s], guard' = [guard EXCEPT ![t] = g],
         scopes' = [scopes EXCEPT ![t] = sc],
         net[t].fn = "idle"
  PROVE  HostInv'
<1>1. SockInv'
  BY SockSame DEF HostInv
<1>2. net' = net
  BY DEF sockVars
<1>3. made' \in [Thread -> 0 .. Calls] /\ dead' \in BOOLEAN
  <2>1. made' = made /\ dead' = dead
    OBVIOUS
  <2> QED
    BY <2>1, Same
<1>4. frees' = [frees EXCEPT ![t] = frees[t]] /\ frees[t] \in FreesSet /\ FreeOk(frees[t])
  <2>1. frees' = frees
    OBVIOUS
  <2> QED
    BY <2>1, Same
<1>5. ffierr' = [ffierr EXCEPT ![t] = ffierr[t]] /\ ffierr[t] \in Causes
  <2>1. ffierr' = ffierr
    OBVIOUS
  <2> QED
    BY <2>1, Same
<1>6. PICK c \in Causes : told' = [told EXCEPT ![t] = c] /\ (c # NoCause => ffierr[t] = c)
  BY Same
<1>7. net'[t].fn # "idle" => Calling(prog, s)
  BY <1>2
<1>8. UNCHANGED <<prog, born>>
  OBVIOUS
<1>9. \A u \in Thread : u # t => net'[u] = net[u]
  BY <1>2
<1> QED
  BY <1>1, <1>3, <1>4, <1>5, <1>6, <1>7, <1>8, <1>9, OneThread

-----------------------------------------------------------------------------
\* The steps that only run the function on top, and its calls.
LEMMA PlainStep ==
  ASSUME HostInv, NEW t \in Thread, Plain(t)
  PROVE  HostInv'
<1> DEFINE ops == {"write", "mutate", "read", "touch", "direct", "call", "new", "value"}
           r == Advanced(stk[t])
<1>1. At(t, ops)
  BY DEF Plain, At
<1>2. /\ Good(prog, r, guard[t], scopes[t]) /\ t \in born /\ net[t] = Idle
      /\ WellFormed(prog) /\ Op(t) \in Operation(prog)
  BY <1>1, AdvancedGood, AtFacts, Same
<1>3. PICK s : Good(prog, s, guard[t], scopes[t]) /\ stk' = [stk EXCEPT ![t] = s]
  <2>1. CASE At(t, {"write", "mutate", "read", "touch", "direct"}) /\ Advance(t)
    BY <1>2, <2>1 DEF Advance
  <2>2. CASE At(t, {"call", "new", "value"}) /\ Call(t, Op(t).f)
    <3>1. Op(t).f \in Fns(prog)
      <4>1. Op(t).op \in {"call", "new", "value"}
        BY <2>2 DEF At
      <4> QED
        BY <1>2, <4>1, OperationFacts
    <3>2. Good(prog, Append(r, FnFrame(Op(t).f)), guard[t], scopes[t])
      BY <1>2, <3>1, CalledGood
    <3>3. stk' = [stk EXCEPT ![t] = Append(r, FnFrame(Op(t).f))]
      BY <2>2 DEF Call
    <3> QED
      BY <3>2, <3>3
  <2> QED
    BY <2>1, <2>2 DEF Plain
<1>4. UNCHANGED <<prog, born, guard, scopes, ffierr, owner, frees, made, dead, sockVars>>
      /\ told' = [told EXCEPT ![t] = NoCause]
  BY DEF Plain
<1>5. guard' = [guard EXCEPT ![t] = guard[t]] /\ scopes' = [scopes EXCEPT ![t] = scopes[t]]
      /\ owner' \in [Thread \X {"m"} -> Thread \cup {NoThread}]
  BY <1>4, Same
<1>6. net[t].fn = "idle"
  BY <1>2 DEF Idle
<1>7. UNCHANGED <<prog, born, ffierr, frees, made, dead, sockVars>>
  BY <1>4
<1>8. told' = told \/ told' = [told EXCEPT ![t] = NoCause]
  BY <1>4
<1> HIDE DEF r, ops
<1> QED
  BY <1>2, <1>3, <1>5, <1>6, <1>7, <1>8, Quietly

LEMMA HostCallsStep ==
  ASSUME HostInv, NEW t \in Thread, HostCalls(t)
  PROVE  HostInv'
<1>1. /\ stk[t] = <<>> /\ t \in prog.starts /\ made[t] < Calls
      /\ made' = [made EXCEPT ![t] = @ + 1]
      /\ Forget(t) /\ UNCHANGED <<prog, born, scopes, ffierr, owner, frees, dead>>
  BY DEF HostCalls
<1>2. PICK f \in prog.calls[t] : Enter(t, f, <<>>)
  BY DEF HostCalls
<1>3. WellFormed(prog) /\ Good(prog, stk[t], guard[t], scopes[t])
  BY Same
<1>4. f \in prog.exports
  BY <1>1, <1>2, <1>3 DEF WellFormed
<1> DEFINE s == <<>> \o <<Entry(t, f), FnFrame(f)>>
<1>5. Good(prog, s, Len(<<>>) + 1, scopes[t])
  BY <1>1, <1>3, <1>4, EnteredGood DEF Entry
<1>6. /\ stk' = [stk EXCEPT ![t] = s] /\ guard' = [guard EXCEPT ![t] = Len(<<>>) + 1]
      /\ told' = [told EXCEPT ![t] = NoCause]
  BY <1>2 DEF Enter
<1> HIDE DEF s
<1>7. t \in born
  BY <1>1 DEF HostInv, HostType
<1>8. made' \in [Thread -> 0 .. Calls]
  <2>1. made \in [Thread -> 0 .. Calls]
    BY Same
  <2> QED
    BY <1>1, <2>1, HostBounds
<1>9. net' = net /\ (net[t].fn # "idle" => Calling(prog, <<>>))
  BY <1>1 DEF Forget, HostInv, ThreadInv
<1>10. net[t].fn = "idle" /\ net[t] = Idle
  <2>1. net[t].fn = "idle"
    BY <1>9 DEF Calling
  <2> QED
    BY <2>1, Same, NetFacts
<1>11. SockInv'
  BY <1>1, <1>10, ForgetStep DEF HostInv
<1>12. net'[t].fn = "idle" /\ \A u \in Thread : u # t => net'[u] = net[u]
  BY <1>9, <1>10
<1> QED
  BY <1>1, <1>5, <1>6, <1>7, <1>8, <1>11, <1>12, Same, OneThread

LEMMA CalledBackStep ==
  ASSUME HostInv, NEW t \in Thread, CalledBack(t)
  PROVE  HostInv'
<1> DEFINE r == Advanced(stk[t])
           f == Op(t).f
           s == r \o <<Entry(t, f), FnFrame(f)>>
<1>1. At(t, {"callout"}) /\ Enter(t, f, r)
      /\ UNCHANGED <<prog, born, scopes, ffierr, owner, frees, made, dead, sockVars>>
  BY DEF CalledBack
<1>2. /\ Good(prog, r, guard[t], scopes[t]) /\ t \in born /\ net[t] = Idle
      /\ WellFormed(prog) /\ Op(t) \in Operation(prog) /\ Op(t).op = "callout"
      /\ r # <<>> /\ r[Len(r)].k = "fn"
  BY <1>1, AdvancedGood, AtFacts, Same
<1>3. f \in prog.exports
  BY <1>2, OperationFacts
<1> HIDE DEF r, f
<1>4. Good(prog, s, Len(r) + 1, scopes[t])
  BY <1>2, <1>3, EnteredGood DEF Entry
<1>5. /\ stk' = [stk EXCEPT ![t] = s] /\ guard' = [guard EXCEPT ![t] = Len(r) + 1]
      /\ told' = [told EXCEPT ![t] = NoCause]
  BY <1>1 DEF Enter
<1> HIDE DEF s
<1>6. scopes' = [scopes EXCEPT ![t] = scopes[t]]
      /\ owner' \in [Thread \X {"m"} -> Thread \cup {NoThread}]
  BY <1>1, Same
<1>7. net[t].fn = "idle"
  BY <1>2 DEF Idle
<1> QED
  BY <1>1, <1>2, <1>4, <1>5, <1>6, <1>7, Quietly

\* Left: the argument of the entry is given back.
LEMMA GivesBack ==
  ASSUME HostInv, NEW f \in Fns(prog), NEW n \in 0 .. 1, NEW p \in BOOLEAN,
         prog.fns[f].own /\ n = 0 => p, ~prog.fns[f].own => n = 0
  PROVE  LET x == [own |-> prog.fns[f].own, panic |-> p, times |-> Freed(f, n)]
         IN  x \in FreesSet /\ FreeOk(x)
<1>1. prog.fns[f].own \in BOOLEAN
  BY Same, ProgWell, BodyFacts DEF HostInv
<1>2. CASE prog.fns[f].own
  <2>1. Freed(f, n) = n
    BY <1>2 DEF Freed
  <2> QED
    BY <1>2, <2>1 DEF FreesSet, FreeOk
<1>3. CASE ~prog.fns[f].own
  <2>1. Freed(f, n) = 1
    BY <1>3 DEF Freed
  <2> QED
    BY <1>1, <2>1 DEF FreesSet, FreeOk
<1> QED
  BY <1>2, <1>3

\* An entry on the stack of a thread.
LEMMA EntryFacts ==
  ASSUME HostInv, NEW t \in Thread, NEW i \in Entries(stk[t])
  PROVE  /\ i \in 1 .. Len(stk[t]) /\ stk[t][i] \in FrameSet(prog) /\ stk[t][i].k = "entry"
         /\ stk[t][i].f \in Fns(prog) /\ stk[t][i].freed = 0
         /\ Good(prog, SubSeq(stk[t], 1, i - 1), stk[t][i].outer, SubSeq(scopes[t], 1, stk[t][i].scope))
<1>1. Good(prog, stk[t], guard[t], scopes[t]) /\ WellFormed(prog)
  BY Same
<1>2. stk[t] \in Seq(FrameSet(prog))
  BY <1>1 DEF Good, Shape
<1>3. i \in 1 .. Len(stk[t]) /\ stk[t][i] \in FrameSet(prog) /\ stk[t][i].k = "entry"
  BY <1>2, StackFacts DEF Entries
<1>4. stk[t][i].f \in prog.exports /\ stk[t][i].freed = 0
  BY <1>3, FrameFacts
<1>5. prog.exports \subseteq Fns(prog)
  BY <1>1 DEF WellFormed
<1> QED
  BY <1>1, <1>3, <1>4, <1>5, GoodLeft

\* The frames of an entry are gone and all above it, or the function on top is.
Cuts(t) ==
  \E q \in 0 .. Len(stk[t]) :
    /\ q + 1 \in Entries(stk[t]) \/ (q = Len(stk[t]) - 1 /\ stk[t][Len(stk[t])].k = "fn")
    /\ stk' = [stk EXCEPT ![t] = SubSeq(stk[t], 1, q)]

\* A panic: back to the pl_ffi_call that set the guard, or the process ends.
LEMMA PanicStep ==
  ASSUME HostInv, NEW t \in Thread, t \in born, net[t] = Idle, NEW c \in Causes, Panic(t, c),
         UNCHANGED <<prog, born, owner, made, sockVars>>
  PROVE  HostInv' /\ (stk' = stk \/ Cuts(t))
<1>1. SockInv' /\ net' = net /\ net[t].fn = "idle"
  BY SockSame DEF HostInv, sockVars, Idle
<1>2. owner' \in [Thread \X {"m"} -> Thread \cup {NoThread}] /\ made' \in [Thread -> 0 .. Calls]
  <2>1. owner' = owner /\ made' = made
    OBVIOUS
  <2> QED
    BY <2>1, Same
<1>3. CASE guard[t] = 0
  <2>1. dead' = TRUE /\ UNCHANGED <<stk, guard, scopes, ffierr, told, frees>>
    BY <1>3 DEF Panic
  <2>2. /\ stk' = [stk EXCEPT ![t] = stk[t]] /\ guard' = [guard EXCEPT ![t] = guard[t]]
        /\ scopes' = [scopes EXCEPT ![t] = scopes[t]] /\ ffierr' = [ffierr EXCEPT ![t] = ffierr[t]]
        /\ told' = [told EXCEPT ![t] = told[t]] /\ frees' = [frees EXCEPT ![t] = frees[t]]
    BY <2>1, Same
  <2>3. /\ ffierr[t] \in Causes /\ told[t] \in Causes /\ (told[t] # NoCause => ffierr[t] = told[t])
        /\ frees[t] \in FreesSet /\ FreeOk(frees[t]) /\ Good(prog, stk[t], guard[t], scopes[t])
    BY Same
  <2>4. dead' \in BOOLEAN /\ UNCHANGED <<prog, born>> /\ (net'[t].fn # "idle" => Calling(prog, stk[t]))
        /\ \A u \in Thread : u # t => net'[u] = net[u]
    BY <1>1, <2>1
  <2>5. HostInv'
    BY <1>1, <1>2, <2>2, <2>3, <2>4, OneThread
  <2> QED
    BY <2>1, <2>5
<1>4. CASE guard[t] # 0
  <2> DEFINE i == guard[t]
             x == stk[t][i]
             s == SubSeq(stk[t], 1, i - 1)
             sc == SubSeq(scopes[t], 1, x.scope)
             f == [own |-> prog.fns[x.f].own, panic |-> TRUE, times |-> Freed(x.f, x.freed)]
  <2>1. i \in Entries(stk[t])
    BY <1>4, Same DEF Good, Guards, Innermost
  <2>2. x.f \in Fns(prog) /\ x.freed = 0 /\ Good(prog, s, x.outer, sc)
    BY <2>1, EntryFacts
  <2>3. f \in FreesSet /\ FreeOk(f)
    <3>1. x.freed \in 0 .. 1 /\ (~prog.fns[x.f].own => x.freed = 0) /\ TRUE \in BOOLEAN
      BY <2>2
    <3> HIDE DEF x
    <3> QED
      BY <2>2, <3>1, GivesBack
  <2>4. /\ stk' = [stk EXCEPT ![t] = s] /\ guard' = [guard EXCEPT ![t] = x.outer]
        /\ scopes' = [scopes EXCEPT ![t] = sc]
        /\ ffierr' = [ffierr EXCEPT ![t] = c] /\ told' = [told EXCEPT ![t] = c]
        /\ frees' = [frees EXCEPT ![t] = f] /\ UNCHANGED dead
    BY <1>4 DEF Panic, Left, Slot
  <2>5. dead' \in BOOLEAN
    BY <2>4, Same
  <2>6. Cuts(t)
    <3>1. stk[t] \in Seq(FrameSet(prog))
      BY DEF HostInv, HostType
    <3>2. i \in 1 .. Len(stk[t]) /\ Len(stk[t]) \in Nat
      BY <2>1, <3>1, StackFacts DEF Entries
    <3> HIDE DEF i
    <3>3. i - 1 \in 0 .. Len(stk[t]) /\ i - 1 + 1 = i
      BY <3>2
    <3> QED
      BY <2>1, <2>4, <3>3 DEF Cuts
  <2> HIDE DEF i, x, s, sc, f
  <2>7. net'[t].fn # "idle" => Calling(prog, s)
    BY <1>1
  <2>8. HostInv'
    BY <1>1, <1>2, <2>2, <2>3, <2>4, <2>5, <2>7, OneThread
  <2> QED
    BY <2>6, <2>8
<1> QED
  BY <1>3, <1>4

LEMMA PanicsStep ==
  ASSUME HostInv, NEW t \in Thread, Panics(t) \/ CopyFails(t)
  PROVE  HostInv' /\ (stk' = stk \/ Cuts(t))
<1>1. UNCHANGED <<prog, born, owner, made, sockVars>>
  BY DEF Panics, CopyFails
<1>2. CASE Panics(t)
  <2>1. At(t, {"panic", "exit"}) /\ Panic(t, <<t, Top(t).f, Op(t).op>>)
    BY <1>2 DEF Panics
  <2>2. Top(t).f \in Fns(prog) /\ Op(t).op \in {"panic", "exit"} /\ t \in born /\ net[t] = Idle
    BY <2>1, AtFacts
  <2>3. <<t, Top(t).f, Op(t).op>> \in Causes
    BY <2>2 DEF Causes, Whys
  <2> QED
    BY <1>1, <2>1, <2>2, <2>3, PanicStep
<1>3. CASE CopyFails(t)
  <2>1. At(t, {"callout"}) /\ Panic(t, <<t, Op(t).f, "memory">>)
    BY <1>3 DEF CopyFails
  <2>2. Op(t) \in Operation(prog) /\ Op(t).op = "callout" /\ t \in born /\ net[t] = Idle
        /\ WellFormed(prog)
    BY <2>1, AtFacts, Same
  <2>3. Op(t).f \in Fns(prog)
    BY <2>2, OperationFacts
  <2>4. <<t, Op(t).f, "memory">> \in Causes
    BY <2>3 DEF Causes, Whys, Why
  <2> QED
    BY <1>1, <2>1, <2>2, <2>4, PanicStep
<1> QED
  BY <1>2, <1>3

\* The innermost entry is the one the guard stands for.
LEMMA Outermost ==
  ASSUME NEW s, NEW g, Guards(s, g), NEW S, s \in Seq(S)
  PROVE  /\ Entries(s) = {} => g = 0
         /\ Entries(s) # {} => g = Max(Entries(s)) /\ g \in Entries(s)
<1>1. DOMAIN s = 1 .. Len(s)
  BY StackFacts
<1>2. Entries(s) \subseteq 1 .. Len(s)
  BY <1>1 DEF Entries
<1>3. \A i \in Entries(s) : i <= Len(s) /\ i \in Int /\ i > 0
  BY <1>2
<1>4. g = 0 \/ g \in Entries(s)
  BY DEF Guards, Innermost
<1>5. \A i \in Entries(s) : i <= g
  BY <1>3 DEF Guards, Innermost
<1>6. CASE Entries(s) # {}
  <2>1. g \in Entries(s)
    BY <1>3, <1>4, <1>5, <1>6
  <2>2. \A x \in Entries(s) : (\A y \in Entries(s) : x >= y) => x = g
    BY <1>3, <1>5, <2>1
  <2>3. g >= g /\ \A y \in Entries(s) : g >= y
    BY <1>3, <1>5, <2>1
  <2> QED
    BY <2>1, <2>2, <2>3 DEF Max
<1> QED
  BY <1>4, <1>6

\* A function returns: to the one below, to the lock or out of the entry.
LEMMA ReturnStep ==
  ASSUME HostInv, NEW t \in Thread, Return(t)
  PROVE  HostInv' /\ Cuts(t)
<1> DEFINE s == stk[t]
           n == Len(s)
           b == WithoutTop(t)
           low == SubSeq(s, 1, n - 1)
<1>1. /\ s # <<>> /\ Top(t).k = "fn" /\ Top(t).pc > Len(Body(prog, Top(t).f))
      /\ IF b # <<>> /\ Last(b).k = "entry"
         THEN Left(t, Front(b), Last(b), 0)
         ELSE stk' = [stk EXCEPT ![t] = b] /\ UNCHANGED <<guard, frees>>
      /\ told' = [told EXCEPT ![t] = NoCause]
      /\ UNCHANGED <<prog, born, scopes, ffierr, owner, made, dead, sockVars>>
  BY DEF Return, InBody
<1>2. Good(prog, s, guard[t], scopes[t]) /\ WellFormed(prog) /\ t \in born
  BY <1>1, Same
<1>3. s \in Seq(FrameSet(prog)) /\ Shape(prog, s) /\ scopes[t] \in Seq(ScopeSet)
  BY <1>2 DEF Good, Shape, Scopes
<1>4. n \in Nat \ {0} /\ n \in 1 .. n /\ DOMAIN s = 1 .. n /\ Top(t) = s[n]
  BY <1>1, <1>3, StackFacts DEF Top
<1>5. s[n].k = "fn" /\ s[n].pc > Len(Code(prog, s, n))
  BY <1>1, <1>4 DEF Code
<1>6. n - 1 \in 0 .. n /\ n - 1 \in Nat
  BY <1>4
<1>7. low \in Seq(FrameSet(prog)) /\ Len(low) = n - 1 /\ \A i \in 1 .. n - 1 : low[i] = s[i]
  BY <1>3, <1>6, Prefix
<1>8. net[t].fn = "idle"
  <2>1. ~Calling(prog, s)
    <3>1. s[n].f \in Fns(prog) /\ Len(Code(prog, s, n)) \in Nat /\ s[n].pc \in Nat
      BY <1>1, <1>2, <1>5, TopFacts
    <3> QED
      BY <1>5, <3>1 DEF Calling
  <2> QED
    BY <2>1 DEF HostInv, ThreadInv
<1>9. owner' \in [Thread \X {"m"} -> Thread \cup {NoThread}] /\ made' \in [Thread -> 0 .. Calls]
      /\ dead' \in BOOLEAN /\ scopes' = [scopes EXCEPT ![t] = scopes[t]]
      /\ ffierr' = [ffierr EXCEPT ![t] = ffierr[t]] /\ ffierr[t] \in Causes /\ NoCause \in Causes
  <2>1. owner' = owner /\ made' = made /\ dead' = dead /\ scopes' = scopes /\ ffierr' = ffierr
    BY <1>1
  <2> QED
    BY <2>1, Same
<1>10. SockInv' /\ net' = net
  BY <1>1, SockSame DEF HostInv, sockVars
<1>11. Front(s) = low
  BY DEF Front
<1> HIDE DEF low
<1>12. CASE n # 1 /\ s[n - 1].k = "entry"
  <2> DEFINE x == s[n - 1]
             own == prog.fns[x.f].own
             y == [x EXCEPT !.freed = @ + 1]
             z == IF own THEN y ELSE x
             f == [own |-> prog.fns[z.f].own, panic |-> FALSE, times |-> Freed(z.f, z.freed)]
  <2>1. n - 1 \in 1 .. n - 1 /\ n - 1 \in 1 .. n /\ n - 1 + 1 = n
    <3>1. n # 1
      BY <1>12
    <3> HIDE DEF n
    <3> QED
      BY <1>4, <3>1
  <2>2. n - 1 \in Entries(s)
    BY <1>4, <1>12, <2>1 DEF Entries
  <2>3. /\ x \in FrameSet(prog) /\ x.f \in Fns(prog) /\ x.freed = 0 /\ x.k = "entry"
        /\ Good(prog, SubSeq(s, 1, n - 1 - 1), x.outer, SubSeq(scopes[t], 1, x.scope))
    BY <1>12, <2>2, EntryFacts
  <2>4. s[n].f = x.f
    BY <1>3, <1>4, <1>12, <2>1 DEF Shape
  <2>5. x \in [k : {"entry"}, f : prog.exports, outer : Nat, scope : Nat, freed : {0}]
    BY <2>3 DEF FrameSet
  <2>6. y.k = "entry" /\ y.f = x.f /\ y.outer = x.outer /\ y.freed = 1
    BY <2>5
  <2>7. z.k = "entry" /\ z.f = x.f /\ z.outer = x.outer /\ z.freed \in 0 .. 1
        /\ (own => z.freed = 1) /\ (~own => z.freed = 0)
    BY <2>3, <2>6
  <2>8. b = IF own THEN [low EXCEPT ![n - 1] = y] ELSE low
    <3>1. low[n - 1] = x /\ n - 1 > 0
      BY <1>7, <2>1
    <3>2. b = IF Len(low) > 0 /\ low[Len(low)].k = "entry" /\ prog.fns[Top(t).f].own
              THEN [low EXCEPT ![Len(low)].freed = @ + 1] ELSE low
      BY <1>11 DEF WithoutTop
    <3>3. [low EXCEPT ![n - 1].freed = @ + 1] = [low EXCEPT ![n - 1] = [low[n - 1] EXCEPT !.freed = @ + 1]]
      OBVIOUS
    <3> HIDE DEF b, y, x
    <3> QED
      BY <1>4, <1>7, <1>12, <2>3, <2>4, <3>1, <3>2, <3>3 DEF x, y
  <2> HIDE DEF b, x, y
  <2>9. DOMAIN low = 1 .. n - 1
    BY <1>7, StackFacts
  <2>10. Len(b) = n - 1 /\ b # <<>> /\ b[n - 1] = z /\ \A i \in 1 .. n - 1 : i # n - 1 => b[i] = low[i]
    <3>1. CASE own
      <4> DEFINE r == [low EXCEPT ![n - 1] = y]
      <4>1. Len(r) = n - 1 /\ r[n - 1] = y /\ \A i \in 1 .. n - 1 : i # n - 1 => r[i] = low[i]
        <5>1. \E S : low \in Seq(S) /\ y \in S
          <6>1. low \in Seq(FrameSet(prog) \cup {y})
            <7>1. \A i \in 1 .. n - 1 : low[i] \in FrameSet(prog) \cup {y}
              BY <1>7, StackFacts
            <7> QED
              BY <1>7, <7>1
          <6> QED
            BY <6>1
        <5> QED
          BY <1>7, <2>1, <5>1, ExceptSeq
      <4>2. b = r /\ z = y
        BY <2>8, <3>1
      <4>3. r # <<>>
        <5>1. Len(<<>>) = 0
          OBVIOUS
        <5> HIDE DEF r
        <5> QED
          BY <1>6, <2>1, <4>1, <5>1
      <4> HIDE DEF r
      <4> QED
        BY <4>1, <4>2, <4>3
    <3>2. CASE ~own
      <4>1. b = low /\ z = x
        BY <2>8, <3>2
      <4>2. low # <<>>
        <5>1. Len(<<>>) = 0
          OBVIOUS
        <5> QED
          BY <1>6, <1>7, <2>1, <5>1
      <4> QED
        BY <1>7, <2>1, <4>1, <4>2 DEF x
    <3> QED
      BY <3>1, <3>2
  <2>11. Last(b) = z
    BY <2>10 DEF Last
  <2>12. Front(b) = SubSeq(s, 1, n - 2)
    <3>1. n - 2 \in Nat /\ n - 1 - 1 = n - 2 /\ n - 2 \in 0 .. n /\ n - 2 <= n - 1
      BY <1>4, <2>1
    <3>2. Front(b) = SubSeq(b, 1, n - 2)
      BY <2>10, <3>1 DEF Front
    <3>3. SubSeq(b, 1, n - 2) = [i \in 1 .. n - 2 |-> b[i]]
      BY <3>1
    <3>4. SubSeq(s, 1, n - 2) = [i \in 1 .. n - 2 |-> s[i]]
      BY <3>1
    <3>5. \A i \in 1 .. n - 2 : b[i] = s[i]
      <4>1. \A i \in 1 .. n - 2 : i \in 1 .. n - 1 /\ i # n - 1
        BY <3>1
      <4> QED
        BY <1>7, <2>10, <4>1
    <3> QED
      BY <3>2, <3>3, <3>4, <3>5
  <2>13. scopes[t] = SubSeq(scopes[t], 1, x.scope)
    <3> DEFINE sc == scopes[t]
    <3>1. \A j \in 1 .. Len(sc) : sc[j].by \in 1 .. n - 1
      BY <1>1, <1>2, <1>5, NoneOpen
    <3>2. Len(sc) \in Nat /\ DOMAIN sc = 1 .. Len(sc)
      BY <1>3, StackFacts
    <3>3. x.scope \in 0 .. Len(sc) /\ \A j \in 1 .. Len(sc) : j <= x.scope <=> sc[j].by < n - 1
      BY <1>2, <2>2, <3>2 DEF Good, Scopes, x
    <3>4. \A j \in 1 .. Len(sc) : s[sc[j].by].k = "fn"
      BY <1>2, <3>2 DEF Good, Scopes
    <3>5. \A j \in 1 .. Len(sc) : sc[j].by # n - 1
      BY <1>12, <3>4
    <3>6. Len(sc) # 0 => Len(sc) <= x.scope
      <4>1. Len(sc) # 0 => Len(sc) \in 1 .. Len(sc)
        BY <3>2
      <4>2. Len(sc) # 0 => sc[Len(sc)].by \in 1 .. n - 1 /\ sc[Len(sc)].by # n - 1
        BY <3>1, <3>5, <4>1
      <4>3. Len(sc) # 0 => sc[Len(sc)].by < n - 1
        BY <1>6, <4>2
      <4> QED
        BY <3>3, <4>1, <4>3
    <3>7. x.scope = Len(sc)
      BY <3>2, <3>3, <3>6
    <3> HIDE DEF sc
    <3>8. Len(sc) \in 0 .. Len(sc) /\ sc \in Seq(ScopeSet)
      BY <1>3, <3>2 DEF sc
    <3>9. SubSeq(sc, 1, Len(sc)) = sc
      BY <3>8, Prefix
    <3> QED
      BY <3>7, <3>9 DEF sc
  <2>14. Left(t, SubSeq(s, 1, n - 2), z, 0)
    BY <1>1, <2>7, <2>10, <2>11, <2>12
  <2>15. /\ stk' = [stk EXCEPT ![t] = SubSeq(s, 1, n - 2)] /\ guard' = [guard EXCEPT ![t] = x.outer]
         /\ frees' = [frees EXCEPT ![t] = f]
    <3>1. x.outer = z.outer /\ (0 = 2) = FALSE
      BY <2>7
    <3> HIDE DEF s, z
    <3>2. /\ stk' = [stk EXCEPT ![t] = SubSeq(s, 1, n - 2)] /\ guard' = [guard EXCEPT ![t] = z.outer]
          /\ frees' = [frees EXCEPT ![t] = [own |-> prog.fns[z.f].own, panic |-> 0 = 2,
                                           times |-> Freed(z.f, z.freed)]]
      BY <2>14, Zenon DEF Left
    <3> QED
      BY <3>1, <3>2
  <2>16. f \in FreesSet /\ FreeOk(f)
    <3>1. z.f \in Fns(prog) /\ (prog.fns[z.f].own /\ z.freed = 0 => FALSE) /\ FALSE \in BOOLEAN
          /\ (~prog.fns[z.f].own => z.freed = 0)
      BY <2>3, <2>7
    <3> HIDE DEF z
    <3> QED
      BY <2>7, <3>1, GivesBack
  <2>17. Good(prog, SubSeq(s, 1, n - 2), x.outer, scopes[t])
    <3>1. n - 1 - 1 = n - 2
      BY <1>4
    <3> QED
      BY <2>3, <2>13, <3>1
  <2>18. UNCHANGED <<prog, born>> /\ (\A u \in Thread : u # t => net'[u] = net[u])
         /\ net'[t].fn = "idle" /\ told' = [told EXCEPT ![t] = NoCause]
    BY <1>1, <1>8, <1>10
  <2>19. Cuts(t)
    <3>1. n - 2 \in 0 .. n /\ n - 2 + 1 = n - 1
      BY <1>4, <2>1
    <3> HIDE DEF n
    <3> QED
      BY <2>2, <2>15, <3>1 DEF Cuts, n
  <2> HIDE DEF f, s
  <2>20. HostInv'
    BY <1>2, <1>9, <1>10, <2>15, <2>16, <2>17, <2>18, OneThread
  <2> QED
    BY <2>19, <2>20
<1>13. CASE ~(n # 1 /\ s[n - 1].k = "entry")
  <2>1. ~(Len(low) > 0 /\ low[Len(low)].k = "entry")
    <3>1. n - 1 > 0 => n # 1 /\ n - 1 \in 1 .. n - 1
      BY <1>4
    <3> QED
      BY <1>7, <1>13, <3>1
  <2>2. b = low
    BY <1>11, <2>1 DEF WithoutTop
  <2>3. ~(b # <<>> /\ Last(b).k = "entry")
    BY <1>7, <2>1, <2>2, StackFacts
  <2>4. stk' = [stk EXCEPT ![t] = low] /\ UNCHANGED <<guard, frees>>
    BY <1>1, <2>2, <2>3
  <2>5. Good(prog, low, guard[t], scopes[t])
    <3>1. n # 1 => s[n - 1].k # "entry"
      BY <1>13
    <3> QED
      BY <1>1, <1>2, <1>5, <3>1, GoodPop DEF low
  <2>6. guard' = [guard EXCEPT ![t] = guard[t]]
    BY <2>4, Same
  <2>7. UNCHANGED <<prog, born, ffierr, frees, made, dead, sockVars>>
        /\ told' = [told EXCEPT ![t] = NoCause]
    BY <1>1, <2>4
  <2>8. Cuts(t)
    BY <1>5, <1>6, <2>4 DEF Cuts, low
  <2> HIDE DEF s, n, b
  <2>9. HostInv'
    BY <1>2, <1>8, <1>9, <2>4, <2>5, <2>6, <2>7, Quietly
  <2> QED
    BY <2>8, <2>9
<1> QED
  BY <1>12, <1>13

\* An exception reaches the entry, and no scope stands open above it.
LEMMA RaiseStep ==
  ASSUME HostInv, NEW t \in Thread, t \in born, NEW c \in Causes, Raise(t, c),
         UNCHANGED <<prog, born, owner, made>>, SockInv', net'[t].fn = "idle",
         \A u \in Thread : u # t => net'[u] = net[u]
  PROVE  HostInv' /\ Cuts(t)
<1> DEFINE i == Max(Entries(stk[t]))
           x == stk[t][i]
           own == prog.fns[x.f].own
           y == [x EXCEPT !.freed = IF own THEN @ + 1 ELSE @]
           s == SubSeq(stk[t], 1, i - 1)
           f == [own |-> prog.fns[y.f].own, panic |-> FALSE, times |-> Freed(y.f, y.freed)]
<1>1. /\ Entries(stk[t]) # {} /\ Len(scopes[t]) = x.scope
      /\ Left(t, s, y, 1)
      /\ ffierr' = [ffierr EXCEPT ![t] = c] /\ told' = [told EXCEPT ![t] = c]
      /\ UNCHANGED <<scopes, dead>>
  BY DEF Raise, Slot
<1>2. Good(prog, stk[t], guard[t], scopes[t]) /\ WellFormed(prog)
  BY Same
<1>3. stk[t] \in Seq(FrameSet(prog)) /\ scopes[t] \in Seq(ScopeSet) /\ Guards(stk[t], guard[t])
  BY <1>2 DEF Good, Shape, Scopes
<1>4. i \in Entries(stk[t])
  BY <1>1, <1>3, Outermost
<1> HIDE DEF i
<1>5. /\ x \in FrameSet(prog) /\ x.f \in Fns(prog) /\ x.freed = 0 /\ x.k = "entry"
      /\ Good(prog, s, x.outer, SubSeq(scopes[t], 1, x.scope))
  BY <1>4, EntryFacts
<1>6. SubSeq(scopes[t], 1, x.scope) = scopes[t]
  <2>1. Len(scopes[t]) \in 0 .. Len(scopes[t])
    BY <1>3, StackFacts
  <2> QED
    BY <1>1, <1>3, <2>1, Prefix
<1>7. x \in [k : {"entry"}, f : prog.exports, outer : Nat, scope : Nat, freed : {0}]
  BY <1>5 DEF FrameSet
<1> HIDE DEF x
<1>8. y.f = x.f /\ y.outer = x.outer /\ y.freed \in 0 .. 1 /\ (own => y.freed = 1) /\ (~own => y.freed = 0)
  BY <1>7
<1> HIDE DEF y, s
<1>9. /\ stk' = [stk EXCEPT ![t] = s] /\ guard' = [guard EXCEPT ![t] = y.outer]
      /\ frees' = [frees EXCEPT ![t] = [own |-> prog.fns[y.f].own, panic |-> 1 = 2,
                                       times |-> Freed(y.f, y.freed)]]
  BY <1>1, Zenon DEF Left
<1>10. frees' = [frees EXCEPT ![t] = f]
  <2>1. (1 = 2) = FALSE
    OBVIOUS
  <2> QED
    BY <1>9, <2>1
<1>11. f \in FreesSet /\ FreeOk(f)
  <2>1. y.f \in Fns(prog) /\ (prog.fns[y.f].own /\ y.freed = 0 => FALSE) /\ FALSE \in BOOLEAN
        /\ (~prog.fns[y.f].own => y.freed = 0)
    BY <1>5, <1>8
  <2> QED
    BY <1>8, <2>1, GivesBack
<1>12. owner' \in [Thread \X {"m"} -> Thread \cup {NoThread}] /\ made' \in [Thread -> 0 .. Calls]
       /\ dead' \in BOOLEAN /\ scopes' = [scopes EXCEPT ![t] = scopes[t]]
  <2>1. owner' = owner /\ made' = made /\ dead' = dead /\ scopes' = scopes
    BY <1>1
  <2> QED
    BY <2>1, Same
<1>13. Good(prog, s, y.outer, scopes[t])
  BY <1>5, <1>6, <1>8
<1> HIDE DEF f
<1>14. HostInv'
  BY <1>1, <1>9, <1>10, <1>11, <1>12, <1>13, OneThread
<1>15. Cuts(t)
  <2>1. i \in 1 .. Len(stk[t]) /\ Len(stk[t]) \in Nat
    BY <1>3, <1>4, StackFacts DEF Entries
  <2>2. i - 1 \in 0 .. Len(stk[t]) /\ i - 1 + 1 = i
    BY <2>1
  <2> QED
    BY <1>4, <1>9, <2>2 DEF Cuts, s
<1> QED
  BY <1>14, <1>15

LEMMA RaisesStep ==
  ASSUME HostInv, NEW t \in Thread, Raises(t)
  PROVE  HostInv' /\ Cuts(t)
<1>1. At(t, {"raise"}) /\ Raise(t, <<t, Top(t).f, "raised">>) /\ UNCHANGED <<prog, born, owner, made, sockVars>>
  BY DEF Raises
<1>2. Top(t).f \in Fns(prog) /\ t \in born /\ net[t] = Idle
  BY <1>1, AtFacts
<1>3. <<t, Top(t).f, "raised">> \in Causes
  BY <1>2 DEF Causes, Whys
<1>4. SockInv' /\ net'[t].fn = "idle" /\ \A u \in Thread : u # t => net'[u] = net[u]
  <2>1. SockInv' /\ net' = net
    BY <1>1, SockSame DEF HostInv, sockVars
  <2> QED
    BY <1>2, <2>1 DEF Idle
<1>5. UNCHANGED <<prog, born, owner, made>>
  BY <1>1
<1> QED
  BY <1>1, <1>2, <1>3, <1>4, <1>5, RaiseStep

-----------------------------------------------------------------------------
\* Scopes and joins.
LEMMA ScopeStep ==
  ASSUME HostInv, NEW t \in Thread, OpenScope(t) \/ CloseScope(t) \/ Join(t)
  PROVE  HostInv'
<1> DEFINE s == stk[t]
           n == Len(s)
<1>1. /\ At(t, {"scope", "unscope", "join"}) /\ stk' = [stk EXCEPT ![t] = Advanced(s)]
      /\ UNCHANGED <<prog, born, guard, ffierr, told, owner, frees, made, dead, sockVars>>
  BY DEF OpenScope, CloseScope, Join, At, Advance
<1>2. /\ s # <<>> /\ n \in Nat \ {0} /\ Top(t) = s[n] /\ Top(t).k = "fn" /\ t \in born /\ net[t] = Idle
      /\ Top(t).pc <= Len(Code(prog, s, n)) /\ Op(t) = Code(prog, s, n)[Top(t).pc]
  BY <1>1, AtFacts
<1>3. Good(prog, s, guard[t], scopes[t]) /\ WellFormed(prog)
  BY Same
<1>4. PICK sc : Good(prog, Advanced(s), guard[t], sc) /\ scopes' = [scopes EXCEPT ![t] = sc]
  <2>1. CASE OpenScope(t)
    <3>1. scopes' = [scopes EXCEPT ![t] = Append(scopes[t], [by |-> n, threads |-> {}])]
          /\ Op(t).op = "scope"
      BY <2>1 DEF OpenScope, At
    <3>2. Code(prog, s, n)[s[n].pc].op = "scope" /\ s[n].k = "fn" /\ s[n].pc <= Len(Code(prog, s, n))
      BY <1>2, <3>1
    <3>3. Good(prog, Advanced(s), guard[t], Append(scopes[t], [by |-> n, threads |-> {}]))
      BY <1>2, <1>3, <3>2, GoodOpen
    <3> QED
      BY <3>1, <3>3
  <2>2. CASE CloseScope(t)
    <3>1. scopes' = [scopes EXCEPT ![t] = SubSeq(scopes[t], 1, Len(scopes[t]) - 1)]
          /\ Op(t).op = "unscope"
      BY <2>2 DEF CloseScope, At, Front
    <3>2. Code(prog, s, n)[s[n].pc].op = "unscope" /\ s[n].k = "fn" /\ s[n].pc <= Len(Code(prog, s, n))
      BY <1>2, <3>1
    <3>3. Good(prog, Advanced(s), guard[t], SubSeq(scopes[t], 1, Len(scopes[t]) - 1))
      BY <1>2, <1>3, <3>2, GoodClose
    <3> QED
      BY <3>1, <3>3
  <2>3. CASE Join(t)
    <3>1. At(t, {"join"}) /\ scopes' = scopes
      BY <2>3 DEF Join
    <3> QED
      BY <3>1, AdvancedGood, Same
  <2> QED
    BY <2>1, <2>2, <2>3
<1>5. guard' = [guard EXCEPT ![t] = guard[t]] /\ owner' \in [Thread \X {"m"} -> Thread \cup {NoThread}]
  <2>1. guard' = guard /\ owner' = owner
    BY <1>1
  <2> QED
    BY <2>1, Same
<1>6. net[t].fn = "idle" /\ UNCHANGED <<prog, born, ffierr, frees, made, dead, sockVars>> /\ told' = told
  BY <1>1, <1>2 DEF Idle
<1> HIDE DEF s, n
<1> QED
  BY <1>1, <1>2, <1>4, <1>5, <1>6, Quietly

\* Mutexes.
LEMMA MutexStep ==
  ASSUME HostInv, NEW t \in Thread, NewMutex(t) \/ Lock(t)
  PROVE  HostInv'
<1> DEFINE s == stk[t]
           o == Op(t)
           r == Advanced(s)
<1>1. /\ At(t, {"mutex", "lock"})
      /\ UNCHANGED <<prog, born, guard, scopes, ffierr, told, frees, made, dead, sockVars>>
  BY DEF NewMutex, Lock, At
<1>2. /\ t \in born /\ net[t] = Idle /\ o \in Operation(prog) /\ o.op \in {"mutex", "lock"}
      /\ Good(prog, r, guard[t], scopes[t]) /\ r # <<>> /\ r[Len(r)].k = "fn" /\ WellFormed(prog)
  BY <1>1, AtFacts, AdvancedGood, Same
<1>3. Mutex(t, o) \in Thread \X {"m"}
  BY HostBounds DEF Mutex
<1>4. PICK q : Good(prog, q, guard[t], scopes[t]) /\ stk' = [stk EXCEPT ![t] = q]
  <2>1. CASE NewMutex(t)
    BY <1>2, <2>1 DEF NewMutex, Advance
  <2>2. CASE Lock(t)
    <3>1. stk' = [stk EXCEPT ![t] = r \o <<[k |-> "lock", m |-> Mutex(t, o)], FnFrame(o.f)>>]
          /\ o.op = "lock"
      BY <2>2 DEF Lock, At
    <3>2. o.f \in Fns(prog)
      BY <1>2, <3>1, OperationFacts
    <3> HIDE DEF r, o
    <3>3. Good(prog, r \o <<[k |-> "lock", m |-> Mutex(t, o)], FnFrame(o.f)>>, guard[t], scopes[t])
      BY <1>2, <1>3, <3>2, LockedGood
    <3> QED
      BY <3>1, <3>3
  <2> QED
    BY <2>1, <2>2
<1>5. owner' \in [Thread \X {"m"} -> Thread \cup {NoThread}]
  <2>1. PICK v \in Thread \cup {NoThread} : owner' = [owner EXCEPT ![Mutex(t, o)] = v]
    BY DEF NewMutex, Lock
  <2>2. owner \in [Thread \X {"m"} -> Thread \cup {NoThread}]
    BY Same
  <2> QED
    BY <1>3, <2>1, <2>2
<1>6. guard' = [guard EXCEPT ![t] = guard[t]] /\ scopes' = [scopes EXCEPT ![t] = scopes[t]]
  <2>1. guard' = guard /\ scopes' = scopes
    BY <1>1
  <2> QED
    BY <2>1, Same
<1>7. net[t].fn = "idle" /\ UNCHANGED <<prog, born, ffierr, frees, made, dead, sockVars>> /\ told' = told
  BY <1>1, <1>2 DEF Idle
<1> HIDE DEF s, o, r
<1> QED
  BY <1>2, <1>4, <1>5, <1>6, <1>7, Quietly

LEMMA UnlockStep ==
  ASSUME HostInv, NEW t \in Thread, Unlock(t)
  PROVE  HostInv'
<1> DEFINE s == stk[t]
           n == Len(s)
<1>1. /\ s # <<>> /\ Top(t).k = "lock" /\ stk' = [stk EXCEPT ![t] = SubSeq(s, 1, n - 1)]
      /\ owner' = [owner EXCEPT ![Top(t).m] = NoThread]
      /\ UNCHANGED <<prog, born, guard, scopes, ffierr, told, frees, made, dead, sockVars>>
  BY DEF Unlock, Front
<1>2. Good(prog, s, guard[t], scopes[t]) /\ WellFormed(prog) /\ t \in born
      /\ owner \in [Thread \X {"m"} -> Thread \cup {NoThread}]
  BY <1>1, Same
<1>3. s \in Seq(FrameSet(prog)) /\ Shape(prog, s)
  BY <1>2 DEF Good, Shape
<1>4. n \in Nat \ {0} /\ DOMAIN s = 1 .. n /\ Top(t) = s[n] /\ s[n] \in FrameSet(prog)
  BY <1>1, <1>3, StackFacts DEF Top
<1>5. n # 1 => s[n - 1].k # "entry"
  <2> HIDE DEF n
  <2>1. n # 1 => n > 1 /\ n \in 1 .. n
    BY <1>4
  <2> QED
    BY <1>1, <1>3, <1>4, <2>1 DEF Shape
<1>6. Good(prog, SubSeq(s, 1, n - 1), guard[t], scopes[t])
  BY <1>1, <1>2, <1>4, <1>5, GoodPop
<1>7. Top(t).m \in Thread \X {"m"}
  BY <1>1, <1>4, FrameFacts
<1>8. owner' \in [Thread \X {"m"} -> Thread \cup {NoThread}]
  BY <1>1, <1>2, <1>7
<1>9. net[t].fn = "idle"
  <2>1. ~Calling(prog, s)
    BY <1>1, <1>4 DEF Calling
  <2> QED
    BY <2>1 DEF HostInv, ThreadInv
<1>10. guard' = [guard EXCEPT ![t] = guard[t]] /\ scopes' = [scopes EXCEPT ![t] = scopes[t]]
  <2>1. guard' = guard /\ scopes' = scopes
    BY <1>1
  <2> QED
    BY <2>1, Same
<1>11. UNCHANGED <<prog, born, ffierr, frees, made, dead, sockVars>> /\ told' = told
       /\ stk' = [stk EXCEPT ![t] = SubSeq(s, 1, n - 1)]
  BY <1>1
<1> HIDE DEF s, n
<1> QED
  BY <1>2, <1>6, <1>8, <1>9, <1>10, <1>11, Quietly

-----------------------------------------------------------------------------
\* A thread is started.
LEMMA SpawnStep ==
  ASSUME HostInv, NEW t \in Thread, Spawn(t)
  PROVE  HostInv'
<1> DEFINE c == CHOOSE c \in Thread \ born : TRUE
           r == Advanced(stk[t])
           fr == FnFrame(Op(t).f)
           m == Len(scopes[t])
<1>1. /\ At(t, {"spawn"}) /\ Thread \ born # {}
      /\ born' = born \cup {c}
      /\ stk' = [stk EXCEPT ![t] = r, ![c] = <<fr>>]
      /\ scopes' = IF scopes[t] = <<>> THEN scopes
                   ELSE [scopes EXCEPT ![t][m].threads = @ \cup {c}]
      /\ UNCHANGED <<prog, guard, ffierr, told, owner, frees, made, dead, sockVars>>
  BY DEF Spawn
<1>2. c \in Thread /\ c \notin born
  BY <1>1
<1> HIDE DEF c
<1>3. /\ t \in born /\ net[t] = Idle /\ Op(t) \in Operation(prog) /\ Op(t).op = "spawn"
      /\ Good(prog, r, guard[t], scopes[t]) /\ WellFormed(prog) /\ r \in Seq(FrameSet(prog))
  <2>1. At(t, {"spawn"}) /\ "scope" \notin {"spawn"} /\ "unscope" \notin {"spawn"}
    BY <1>1
  <2>2. t \in born /\ net[t] = Idle /\ Op(t) \in Operation(prog) /\ Op(t).op = "spawn"
    BY <2>1, AtFacts
  <2>3. Good(prog, r, guard[t], scopes[t]) /\ r \in Seq(FrameSet(prog))
    BY <2>1, AdvancedGood
  <2> QED
    BY <2>2, <2>3, Same
<1>4. Op(t).f \in Fns(prog)
  BY <1>3, OperationFacts
<1>5. fr \in FrameSet(prog)
  BY <1>4, FrameMade
<1>6. HostType /\ SockInv /\ \A u \in Thread : ThreadInv(u)
  BY DEF HostInv
<1>7. c # t /\ stk[c] = <<>> /\ Good(prog, stk[c], guard[c], scopes[c])
  BY <1>2, <1>3, <1>6 DEF ThreadInv
<1>8. Good(prog, <<fr>>, guard[c], scopes[c])
  <2>1. Append(<<>>, fr) = <<fr>>
    OBVIOUS
  <2>2. Good(prog, Append(<<>>, fr), guard[c], scopes[c])
    BY <1>3, <1>4, <1>7, CalledGood
  <2> QED
    BY <2>1, <2>2
<1> HIDE DEF fr
<1>9. <<fr>> \in Seq(FrameSet(prog))
  BY <1>5
<1>10. PICK sc \in Seq(ScopeSet) : /\ scopes' = [scopes EXCEPT ![t] = sc] /\ Len(sc) = m
                                   /\ \A j \in DOMAIN scopes[t] : sc[j].by = scopes[t][j].by
  <2>1. scopes \in [Thread -> Seq(ScopeSet)] /\ scopes[t] \in Seq(ScopeSet) /\ m \in Nat
        /\ DOMAIN scopes[t] = 1 .. m
    BY <1>6, StackFacts DEF HostType
  <2>2. CASE scopes[t] = <<>>
    BY <1>1, <2>1, <2>2, Same
  <2>3. CASE scopes[t] # <<>>
    <3> DEFINE x == scopes[t][m]
               y == [x EXCEPT !.threads = @ \cup {c}]
               sc == [scopes[t] EXCEPT ![m] = y]
    <3>1. m \in 1 .. m
      BY <2>1, <2>3, StackFacts
    <3>2. x \in ScopeSet
      BY <2>1, <3>1
    <3>3. y \in ScopeSet /\ y.by = x.by
      BY <1>2, <3>2 DEF ScopeSet
    <3>4. scopes' = [scopes EXCEPT ![t] = sc]
      BY <1>1, <2>3
    <3> HIDE DEF y
    <3>5. sc \in Seq(ScopeSet) /\ Len(sc) = m /\ \A j \in 1 .. m : sc[j] = IF j = m THEN y ELSE scopes[t][j]
      BY <2>1, <3>1, <3>3, ExceptSeq
    <3> HIDE DEF sc
    <3> QED
      BY <2>1, <3>3, <3>4, <3>5
  <2> QED
    BY <2>2, <2>3
<1>11. Good(prog, r, guard[t], sc)
  BY <1>3, <1>10, GoodRecorded
<1>12. SockInv' /\ net' = net
  BY <1>1, <1>6, SockSame DEF sockVars
<1> HIDE DEF r, m
<1>13. /\ stk' \in [Thread -> Seq(FrameSet(prog))] /\ stk'[t] = r /\ stk'[c] = <<fr>>
       /\ \A u \in Thread : u # t /\ u # c => stk'[u] = stk[u]
  BY <1>1, <1>2, <1>3, <1>6, <1>7, <1>9 DEF HostType
<1>14. scopes' \in [Thread -> Seq(ScopeSet)] /\ scopes'[t] = sc
       /\ \A u \in Thread : u # t => scopes'[u] = scopes[u]
  BY <1>6, <1>10 DEF HostType
<1>15. HostType'
  BY <1>1, <1>2, <1>6, <1>13, <1>14 DEF HostType, Causes
<1>16. ASSUME NEW u \in Thread PROVE ThreadInv(u)'
  <2>1. ThreadInv(u) /\ prog' = prog /\ guard' = guard /\ told' = told /\ ffierr' = ffierr /\ frees' = frees
    BY <1>1, <1>6
  <2>2. CASE u = t
    <3>1. net'[u].fn = "idle"
      BY <1>3, <1>12, <2>2 DEF Idle
    <3> QED
      BY <1>1, <1>3, <1>11, <1>13, <1>14, <2>1, <2>2, <3>1 DEF ThreadInv
  <2>3. CASE u = c
    <3>1. net[u].fn = "idle"
      <4>1. ~Calling(prog, <<>>)
        BY DEF Calling
      <4> QED
        BY <1>7, <2>1, <2>3, <4>1 DEF ThreadInv
    <3> QED
      BY <1>1, <1>7, <1>8, <1>12, <1>13, <1>14, <2>1, <2>3, <3>1 DEF ThreadInv
  <2>4. CASE u # t /\ u # c
    BY <1>1, <1>12, <1>13, <1>14, <2>1, <2>4 DEF ThreadInv
  <2> QED
    BY <2>2, <2>3, <2>4
<1> QED
  BY <1>12, <1>15, <1>16 DEF HostInv

-----------------------------------------------------------------------------
\* The calls of net.ys.
LEMMA NetQuiet ==
  ASSUME HostInv, SockInv', UNCHANGED hostVars,
         \A u \in Thread : net'[u].fn # "idle" => Calling(prog, stk[u])
  PROVE  HostInv'
<1>1. HostType /\ \A u \in Thread : ThreadInv(u)
  BY DEF HostInv
<1>2. HostType'
  BY <1>1 DEF HostType, hostVars, Causes
<1>3. ASSUME NEW u \in Thread PROVE ThreadInv(u)'
  BY <1>1 DEF ThreadInv, hostVars
<1> QED
  BY <1>2, <1>3 DEF HostInv

LEMMA NetBusy ==
  ASSUME HostInv, NEW t \in Thread, net[t].fn # "idle"
  PROVE  /\ t \in born /\ Calling(prog, stk[t]) /\ Top(t) = stk[t][Len(stk[t])] /\ Top(t).f \in Fns(prog)
         /\ Good(prog, Advanced(stk[t]), guard[t], scopes[t])
<1> DEFINE s == stk[t]
<1>1. Calling(prog, s) /\ Good(prog, s, guard[t], scopes[t]) /\ WellFormed(prog)
  BY Same DEF HostInv, ThreadInv
<1>2. s # <<>> /\ s[Len(s)].k = "fn" /\ s[Len(s)].pc <= Len(Code(prog, s, Len(s)))
      /\ Code(prog, s, Len(s))[s[Len(s)].pc].op \notin {"scope", "unscope"}
  BY <1>1 DEF Calling, NetOps
<1>3. s[Len(s)].f \in Fns(prog)
  BY <1>1, <1>2, TopFacts
<1>4. Good(prog, Advanced(s), guard[t], scopes[t])
  BY <1>1, <1>2, GoodAdvance
<1> QED
  BY <1>1, <1>2, <1>3, <1>4, Same DEF Top, Last

LEMMA InCallOthers ==
  ASSUME SockType, NEW t \in Thread, InCall(t) \/ RecvNoMemory(t)
  PROVE  net[t].fn # "idle" /\ \A u \in Thread : u # t => net'[u] = net[u]
<1>1. CASE ResolveFails(t) \/ AddressRefused(t) \/ AddressTaken(t)
          \/ PortFails(t) \/ NoAddressLeft(t)
  <2>1. net[t].fn \in {"listen", "connect"}
    BY <1>1 DEF ResolveFails, AddressRefused, AddressTaken, PortFails, NoAddressLeft, Resolving
  <2>2. \E n : net' = [net EXCEPT ![t] = n]
    BY <1>1 DEF ResolveFails, AddressRefused, AddressTaken, PortFails, NoAddressLeft, Fails, Succeeds
  <2> QED
    BY <2>1, <2>2 DEF SockType
<1>2. CASE AcceptOne(t) \/ AcceptTimesOut(t) \/ AcceptFails(t)
  <2>1. net[t].fn = "accept"
    BY <1>2 DEF AcceptOne, AcceptTimesOut, AcceptFails, Accepting
  <2>2. \E n : net' = [net EXCEPT ![t] = n]
    BY <1>2 DEF AcceptOne, AcceptTimesOut, AcceptFails, Fails, Succeeds
  <2> QED
    BY <2>1, <2>2 DEF SockType
<1>3. CASE SendSome(t) \/ SendDone(t) \/ SendFails(t)
  <2>1. net[t].fn = "send"
    BY <1>3 DEF SendSome, SendDone, SendFails, Sending
  <2>2. \E n : net' = [net EXCEPT ![t] = n]
    BY <1>3 DEF SendSome, SendDone, SendFails, Fails, Succeeds
  <2> QED
    BY <2>1, <2>2 DEF SockType
<1>4. CASE RecvSome(t) \/ RecvEof(t) \/ RecvFails(t) \/ RecvNoMemory(t)
  <2>1. net[t].fn = "recv"
    BY <1>4 DEF RecvSome, RecvEof, RecvFails, RecvNoMemory, Receiving
  <2>2. \E n : net' = [net EXCEPT ![t] = n]
    BY <1>4 DEF RecvSome, RecvEof, RecvFails, RecvNoMemory, Fails, Succeeds
  <2> QED
    BY <2>1, <2>2 DEF SockType
<1>5. CASE ReadMessage(t) \/ ReadFlag(t)
  BY <1>5 DEF ReadMessage, ReadFlag, SockType
<1> QED
  BY <1>1, <1>2, <1>3, <1>4, <1>5 DEF InCall

LEMMA StartsNetFacts ==
  ASSUME HostInv, NEW t \in Thread, StartsNet(t)
  PROVE  /\ SockInv' /\ UNCHANGED hostVars /\ Op(t).op \in NetOps
         /\ \/ BeginShut(t, Op(t).op)
            \/ (\E m : Begin(t, Op(t).op, m)) /\ net'[t].fn = Op(t).op
<1> DEFINE m == IF Op(t).op = "send" THEN Op(t).m ELSE ""
<1>1. /\ At(t, NetOps) /\ UNCHANGED hostVars
      /\ Begin(t, Op(t).op, m) \/ BeginShut(t, Op(t).op)
  BY DEF StartsNet, NetOps
<1>2. Op(t) \in Operation(prog) /\ Op(t).op \in NetOps
  BY <1>1, AtFacts
<1>3. Op(t).op = "send" => m \in Messages
  BY <1>2, Same, OperationFacts
<1> HIDE DEF m
<1>4. SockInv
  BY DEF HostInv
<1>5. CASE BeginShut(t, Op(t).op)
  BY <1>1, <1>2, <1>4, <1>5, BeginShutStep
<1>6. CASE Begin(t, Op(t).op, m)
  <2>1. Op(t).op \in {"listen", "connect", "accept", "send", "recv"}
    BY <1>2 DEF NetOps
  <2>2. SockInv' /\ net'[t].fn = Op(t).op
    BY <1>3, <1>4, <1>6, <2>1, BeginStep
  <2> QED
    BY <1>1, <1>2, <1>6, <2>2
<1> QED
  BY <1>1, <1>5, <1>6

LEMMA StartsNetStep ==
  ASSUME HostInv, NEW t \in Thread, StartsNet(t)
  PROVE  HostInv'
<1>1. At(t, NetOps) /\ UNCHANGED hostVars
  BY DEF StartsNet, NetOps
<1>2. /\ stk[t] # <<>> /\ Top(t) = stk[t][Len(stk[t])] /\ Top(t).k = "fn"
      /\ Top(t).pc <= Len(Code(prog, stk[t], Len(stk[t])))
      /\ Op(t) = Code(prog, stk[t], Len(stk[t]))[Top(t).pc]
      /\ Op(t) \in Operation(prog) /\ Op(t).op \in NetOps
  BY <1>1, AtFacts
<1>3. Calling(prog, stk[t])
  BY <1>2 DEF Calling
<1>4. SockInv'
  BY StartsNetFacts
<1>5. \A u \in Thread : u # t => net'[u] = net[u]
  BY DEF StartsNet, Begin, BeginShut, HostInv, SockInv, SockType
<1>6. \A u \in Thread : net'[u].fn # "idle" => Calling(prog, stk[u])
  BY <1>3, <1>5 DEF HostInv, ThreadInv
<1> QED
  BY <1>1, <1>4, <1>6, NetQuiet

LEMMA InNetStep ==
  ASSUME HostInv, NEW t \in Thread, InNet(t) \/ NoMemory(t)
  PROVE  HostInv'
<1>1. (InCall(t) \/ RecvNoMemory(t)) /\ UNCHANGED hostVars
  BY DEF InNet, NoMemory
<1>2. SockInv'
  BY <1>1, InCallStep DEF HostInv
<1>3. net[t].fn # "idle" /\ \A u \in Thread : u # t => net'[u] = net[u]
  BY <1>1, InCallOthers DEF HostInv, SockInv
<1>4. \A u \in Thread : net'[u].fn # "idle" => Calling(prog, stk[u])
  BY <1>3 DEF HostInv, ThreadInv
<1> QED
  BY <1>1, <1>2, <1>4, NetQuiet

LEMMA ExternalStep ==
  ASSUME HostInv, External
  PROVE  HostInv'
<1>1. PeerActs /\ UNCHANGED hostVars
  BY DEF External
<1>2. SockInv' /\ net' = net
  BY <1>1, PeerStep DEF HostInv, PeerActs
<1>3. \A u \in Thread : net'[u].fn # "idle" => Calling(prog, stk[u])
  BY <1>2 DEF HostInv, ThreadInv
<1> QED
  BY <1>1, <1>2, <1>3, NetQuiet

\* The call has come to its end.
LEMMA FinishFacts ==
  ASSUME HostInv, NEW t \in Thread, Finish(t)
  PROVE  SockInv' /\ net'[t] = Idle /\ \A u \in Thread : u # t => net'[u] = net[u]
<1>1. SockInv' /\ net' = [net EXCEPT ![t] = Idle]
  BY FinishStep DEF HostInv, Finish
<1> QED
  BY <1>1 DEF HostInv, SockInv, SockType

LEMMA NetReturnsStep ==
  ASSUME HostInv, NEW t \in Thread, NetReturns(t)
  PROVE  HostInv'
<1> DEFINE r == Advanced(stk[t])
<1>1. /\ net[t].fn \in {"returned", "raised"} /\ Finish(t) /\ stk' = [stk EXCEPT ![t] = r]
      /\ UNCHANGED <<prog, born, guard, scopes, ffierr, told, owner, frees, made, dead>>
  BY DEF NetReturns, Advance
<1>2. t \in born /\ Good(prog, r, guard[t], scopes[t])
  BY <1>1, NetBusy
<1>3. SockInv' /\ net'[t].fn = "idle" /\ \A u \in Thread : u # t => net'[u] = net[u]
  BY <1>1, FinishFacts DEF Idle
<1>4. /\ owner' \in [Thread \X {"m"} -> Thread \cup {NoThread}] /\ made' \in [Thread -> 0 .. Calls]
      /\ dead' \in BOOLEAN /\ scopes' = [scopes EXCEPT ![t] = scopes[t]]
      /\ guard' = [guard EXCEPT ![t] = guard[t]] /\ ffierr' = [ffierr EXCEPT ![t] = ffierr[t]]
      /\ told' = [told EXCEPT ![t] = told[t]] /\ frees' = [frees EXCEPT ![t] = frees[t]]
  <2>1. /\ owner' = owner /\ made' = made /\ dead' = dead /\ scopes' = scopes /\ ffierr' = ffierr
        /\ guard' = guard /\ told' = told /\ frees' = frees
    BY <1>1
  <2> QED
    BY <2>1, Same
<1>5. /\ ffierr[t] \in Causes /\ told[t] \in Causes /\ (told[t] # NoCause => ffierr[t] = told[t])
      /\ frees[t] \in FreesSet /\ FreeOk(frees[t])
  BY Same
<1>6. UNCHANGED <<prog, born>> /\ stk' = [stk EXCEPT ![t] = r]
  BY <1>1
<1> HIDE DEF r
<1> QED
  BY <1>2, <1>3, <1>4, <1>5, <1>6, OneThread

LEMMA NetRaisesStep ==
  ASSUME HostInv, NEW t \in Thread, NetRaises(t)
  PROVE  HostInv' /\ Cuts(t)
<1>1. /\ net[t].fn = "raised" /\ Finish(t) /\ Raise(t, <<t, Top(t).f, caught[t].why>>)
      /\ UNCHANGED <<prog, born, owner, made>>
  BY DEF NetRaises
<1>2. t \in born /\ Top(t).f \in Fns(prog)
  BY <1>1, NetBusy
<1>3. SockInv' /\ net'[t].fn = "idle" /\ \A u \in Thread : u # t => net'[u] = net[u]
  BY <1>1, FinishFacts DEF Idle
<1>4. caught[t].why \in Whys
  <2>1. caught[t] \in Error
    BY DEF HostInv, SockInv, SockType
  <2> QED
    BY <2>1 DEF Error, Whys
<1>5. <<t, Top(t).f, caught[t].why>> \in Causes
  BY <1>2, <1>4 DEF Causes
<1>6. Raise(t, <<t, Top(t).f, caught[t].why>>) /\ UNCHANGED <<prog, born, owner, made>>
  BY <1>1
<1> QED
  BY <1>2, <1>3, <1>5, <1>6, RaiseStep

LEMMA ClosesStep ==
  ASSUME HostInv, NEW t \in Thread, Closes(t)
  PROVE  HostInv'
<1> DEFINE r == Advanced(stk[t])
<1>1. /\ At(t, {"close"}) /\ Close(t) /\ stk' = [stk EXCEPT ![t] = r]
      /\ UNCHANGED <<prog, born, guard, scopes, ffierr, told, owner, frees, made, dead,
                     sockerr, writer, net, cause, caught, eof>>
  BY DEF Closes, Advance
<1>2. At(t, {"close"}) /\ "scope" \notin {"close"} /\ "unscope" \notin {"close"}
  BY <1>1
<1>3. t \in born /\ net[t] = Idle
  BY <1>2, AtFacts
<1>4. Good(prog, r, guard[t], scopes[t])
  BY <1>2, AdvancedGood
<1>5. net[t].fn = "idle" /\ net' = net
  BY <1>1, <1>3, Fresh
<1>6. SockInv'
  <2>1. SockInv /\ UNCHANGED <<sockerr, writer, net, cause, caught, eof>>
    BY <1>1 DEF HostInv
  <2> QED
    BY <1>1, <1>3, <2>1, CloseStep
<1>7. /\ owner' \in [Thread \X {"m"} -> Thread \cup {NoThread}] /\ made' \in [Thread -> 0 .. Calls]
      /\ dead' \in BOOLEAN /\ scopes' = [scopes EXCEPT ![t] = scopes[t]]
      /\ guard' = [guard EXCEPT ![t] = guard[t]] /\ ffierr' = [ffierr EXCEPT ![t] = ffierr[t]]
      /\ told' = [told EXCEPT ![t] = told[t]] /\ frees' = [frees EXCEPT ![t] = frees[t]]
  <2>1. /\ owner' = owner /\ made' = made /\ dead' = dead /\ scopes' = scopes /\ ffierr' = ffierr
        /\ guard' = guard /\ told' = told /\ frees' = frees
    BY <1>1
  <2> QED
    BY <2>1, Same
<1>8. /\ ffierr[t] \in Causes /\ told[t] \in Causes /\ (told[t] # NoCause => ffierr[t] = told[t])
      /\ frees[t] \in FreesSet /\ FreeOk(frees[t])
  BY Same
<1>9. /\ UNCHANGED <<prog, born>> /\ stk' = [stk EXCEPT ![t] = r]
      /\ net'[t].fn = "idle" /\ \A u \in Thread : u # t => net'[u] = net[u]
  BY <1>1, <1>5
<1> HIDE DEF r
<1> QED
  BY <1>3, <1>4, <1>6, <1>7, <1>8, <1>9, OneThread

-----------------------------------------------------------------------------
LEMMA NoFrames ==
  ASSUME NEW P
  PROVE  Good(P, <<>>, 0, <<>>)
<1>1. Entries(<<>>) = {} /\ Len(<<>>) = 0 /\ DOMAIN <<>> = {}
  BY DEF Entries
<1>2. <<>> \in Seq(FrameSet(P)) /\ <<>> \in Seq(ScopeSet)
  OBVIOUS
<1>3. Shape(P, <<>>)
  BY <1>1, <1>2 DEF Shape
<1>4. Guards(<<>>, 0)
  BY <1>1 DEF Guards, Innermost
<1>5. Scopes(P, <<>>, <<>>)
  BY <1>1, <1>2 DEF Scopes
<1> QED
  BY <1>3, <1>4, <1>5 DEF Good

LEMMA InitHost ==
  ASSUME Init
  PROVE  HostInv
<1>1. /\ prog \in Families /\ Accepted(prog) /\ born = prog.starts
      /\ stk = [t \in Thread |-> IF t \in prog.starts \cap {"main"} THEN <<FnFrame("main")>> ELSE <<>>]
      /\ guard = [t \in Thread |-> 0] /\ scopes = [t \in Thread |-> <<>>]
      /\ ffierr = [t \in Thread |-> NoCause] /\ told = [t \in Thread |-> NoCause]
      /\ owner = [m \in Thread \X {"m"} |-> NoThread] /\ frees = [t \in Thread |-> NoFrees]
      /\ made = [t \in Thread |-> 0] /\ dead = FALSE /\ InitSockets
  BY DEF Init
<1>2. WellFormed(prog)
  BY <1>1, FamiliesAssumption
<1>3. SockInv
  BY <1>1, InitSock
<1>4. "main" \in prog.starts => "main" \in Fns(prog)
  BY <1>2 DEF WellFormed
<1>5. ASSUME NEW t \in Thread
      PROVE  /\ stk[t] \in Seq(FrameSet(prog)) /\ Good(prog, stk[t], guard[t], scopes[t])
             /\ t \notin born => stk[t] = <<>>
  <2>1. CASE t \in prog.starts \cap {"main"}
    <3>1. FnFrame("main") \in FrameSet(prog)
      BY <1>4, <2>1, FrameMade
    <3>2. Append(<<>>, FnFrame("main")) = <<FnFrame("main")>> /\ <<FnFrame("main")>> \in Seq(FrameSet(prog))
      BY <3>1
    <3>3. Good(prog, Append(<<>>, FnFrame("main")), 0, <<>>)
      BY <1>2, <1>4, <2>1, NoFrames, CalledGood
    <3> QED
      BY <1>1, <2>1, <3>2, <3>3
  <2>2. CASE t \notin prog.starts \cap {"main"}
    BY <1>1, <2>2, NoFrames
  <2> QED
    BY <2>1, <2>2
<1>6. stk \in [Thread -> Seq(FrameSet(prog))]
  BY <1>1, <1>5
<1>7. NoFrees \in FreesSet /\ FreeOk(NoFrees)
  BY DEF NoFrees, FreesSet, FreeOk
<1>8. born \in SUBSET Thread /\ prog.starts \subseteq born
  BY <1>1, <1>2 DEF WellFormed
<1>9. HostType
  <2>1. guard \in [Thread -> Nat] /\ scopes \in [Thread -> Seq(ScopeSet)]
    BY <1>1
  <2>2. ffierr \in [Thread -> Causes] /\ told \in [Thread -> Causes] /\ frees \in [Thread -> FreesSet]
    BY <1>1, <1>7 DEF Causes
  <2>3. owner \in [Thread \X {"m"} -> Thread \cup {NoThread}] /\ made \in [Thread -> 0 .. Calls]
    BY <1>1, HostBounds
  <2>4. dead \in BOOLEAN
    BY <1>1
  <2> QED
    BY <1>1, <1>6, <1>8, <2>1, <2>2, <2>3, <2>4 DEF HostType
<1>10. \A t \in Thread : ThreadInv(t)
  BY <1>1, <1>5, <1>7 DEF ThreadInv, InitSockets, Idle
<1> QED
  BY <1>3, <1>9, <1>10 DEF HostInv

LEMMA StepHost ==
  ASSUME HostInv, [Next]_vars
  PROVE  HostInv'
<1>1. CASE External
  BY <1>1, ExternalStep
<1>2. ASSUME NEW t \in Thread, Do(t) \/ NoMemory(t) PROVE HostInv'
  <2>1. CASE Plain(t) \/ HostCalls(t) \/ CalledBack(t) \/ Return(t)
    BY <2>1, PlainStep, HostCallsStep, CalledBackStep, ReturnStep
  <2>2. CASE Raises(t) \/ Panics(t) \/ CopyFails(t)
    BY <2>2, RaisesStep, PanicsStep
  <2>3. CASE Spawn(t) \/ OpenScope(t) \/ CloseScope(t) \/ Join(t)
    BY <2>3, SpawnStep, ScopeStep
  <2>4. CASE NewMutex(t) \/ Lock(t) \/ Unlock(t)
    BY <2>4, MutexStep, UnlockStep
  <2>5. CASE StartsNet(t) \/ InNet(t) \/ NoMemory(t) \/ NetReturns(t) \/ NetRaises(t) \/ Closes(t)
    BY <2>5, StartsNetStep, InNetStep, NetReturnsStep, NetRaisesStep, ClosesStep
  <2> QED
    BY <1>2, <2>1, <2>2, <2>3, <2>4, <2>5 DEF Do
<1>3. CASE UNCHANGED vars
  <2>1. SockInv'
    BY <1>3, SockSame DEF HostInv, vars
  <2>2. UNCHANGED hostVars /\ net' = net
    BY <1>3 DEF vars, sockVars
  <2>3. \A u \in Thread : net'[u].fn # "idle" => Calling(prog, stk[u])
    BY <2>2 DEF HostInv, ThreadInv
  <2> QED
    BY <2>1, <2>2, <2>3, NetQuiet
<1> QED
  BY <1>1, <1>2, <1>3 DEF Next

LEMMA HostInvariant == Spec => []HostInv
<1>1. Init => HostInv
  BY InitHost
<1>2. HostInv /\ [Next]_vars => HostInv'
  BY StepHost
<1> QED
  BY <1>1, <1>2, PTL DEF Spec

\* Every variable has its type, and every frame is one of the program's: an entry
\* has the frame of its function above it (gen_export, pl_ffi_call).
THEOREM HostTypes == Spec => []HostType
<1>1. HostInv => HostType
  BY DEF HostInv
<1> QED
  BY <1>1, HostInvariant, PTL

\* The guard of a thread is the innermost pl_ffi_call on its stack, and its scopes
\* are those its functions have open: a panic never jumps into a frame that is
\* gone, nor leaves a scope: block standing (pl_ffi_call, pl_hook_panic).
THEOREM GuardsAlive == Spec => []FramesAlive
<1>1. ASSUME HostInv PROVE FramesAlive
  <2> SUFFICES ASSUME NEW t \in Thread
               PROVE  /\ guard[t] = IF Entries(stk[t]) = {} THEN 0 ELSE Max(Entries(stk[t]))
                      /\ \A j \in DOMAIN scopes[t] :
                           scopes[t][j].by \in DOMAIN stk[t] /\ stk[t][scopes[t][j].by].k = "fn"
                      /\ \A i \in DOMAIN stk[t] : stk[t][i].k = "fn" =>
                           Cardinality({j \in DOMAIN scopes[t] : scopes[t][j].by = i})
                             = Opened(Body(prog, stk[t][i].f), stk[t][i].pc)
    BY DEF FramesAlive
  <2>1. Shape(prog, stk[t]) /\ Guards(stk[t], guard[t]) /\ Scopes(prog, stk[t], scopes[t])
    BY <1>1, Same DEF Good
  <2>2. guard[t] = IF Entries(stk[t]) = {} THEN 0 ELSE Max(Entries(stk[t]))
    BY <2>1, Outermost DEF Shape
  <2> QED
    BY <2>1, <2>2 DEF Scopes, Own, Code
<1> QED
  BY <1>1, HostInvariant, PTL

\* What a call took it gives back: the copy of an argument is freed once, unless a
\* panic jumps over the body that owns it, and no descriptor stays open that
\* nobody holds (gen_export, pl_sock_listen, pl_sock_connect).
THEOREM CallsGiveBack == Spec => []GivenBack
<1>1. ASSUME HostInv PROVE GivenBack
  <2>1. DescriptorsHeld
    BY <1>1 DEF HostInv, SockInv
  <2>2. ASSUME NEW t \in Thread
        PROVE  frees[t].times <= 1 /\ (frees[t].times = 0 => frees[t].own /\ frees[t].panic)
    BY <1>1, Same DEF FreesSet, FreeOk
  <2> QED
    BY <2>1, <2>2 DEF GivenBack
<1> QED
  BY <1>1, HostInvariant, PTL

\* What a peer was handed is messages in one piece each, except where a send raised:
\* no message is broken off and no other one starts anywhere else, however often the
\* program tries again on the same connection; recv() is "" only at the end of the
\* stream, also after a timeout (pl_sock_send, pl_sock_recv).
THEOREM StreamsTrue == Spec => []StreamTrue
<1>1. HostInv => StreamTrue
  BY SockFacts DEF HostInv
<1> QED
  BY <1>1, HostInvariant, PTL

-----------------------------------------------------------------------------
\* The reason is one for the process: a NetError is true while it is of its own call.
LEMMA InitTells ==
  ASSUME Init
  PROVE  TellsTrue
<1>1. \A t \in Thread : net[t].fn = "idle"
  BY DEF Init, InitSockets, Idle
<1> QED
  BY <1>1 DEF TellsTrue, Tells

LEMMA StepTells ==
  ASSUME HostInv, HostInv', TellsTrue, [Next]_vars
  PROVE  TellsTrue'
<1>1. SockType /\ SockType' /\ SockInv /\ SockInv'
  BY DEF HostInv, SockInv
<1>2. ASSUME UNCHANGED <<sockerr, writer, net, cause, caught>> PROVE TellsTrue'
  BY <1>2, TellsOther
<1>3. CASE External
  BY <1>2, <1>3 DEF External, PeerActs
<1>4. CASE UNCHANGED vars
  BY <1>2, <1>4 DEF vars, sockVars
<1>5. ASSUME NEW t \in Thread, Do(t) \/ NoMemory(t) PROVE TellsTrue'
  <2>1. CASE Plain(t) \/ HostCalls(t) \/ CalledBack(t) \/ Return(t)
    BY <1>2, <2>1 DEF Plain, HostCalls, Forget, CalledBack, Return, sockVars
  <2>2. CASE Raises(t) \/ Panics(t) \/ CopyFails(t)
    BY <1>2, <2>2 DEF Raises, Panics, CopyFails, sockVars
  <2>3. CASE Spawn(t) \/ OpenScope(t) \/ CloseScope(t) \/ Join(t)
    BY <1>2, <2>3 DEF Spawn, OpenScope, CloseScope, Join, sockVars
  <2>4. CASE NewMutex(t) \/ Lock(t) \/ Unlock(t) \/ Closes(t)
    BY <1>2, <2>4 DEF NewMutex, Lock, Unlock, Closes, sockVars
  <2>5. CASE InNet(t) \/ NoMemory(t)
    BY <1>1, <2>5, TellsInCall DEF InNet, NoMemory
  <2>6. CASE StartsNet(t)
    <3> DEFINE f == Op(t).op
    <3>1. /\ f \in NetOps
          /\ BeginShut(t, f) \/ ((\E m : Begin(t, f, m)) /\ net'[t].fn = f)
      BY <2>6, StartsNetFacts
    <3>2. f \notin {"message", "flag", "raised"}
      BY <3>1 DEF NetOps
    <3> HIDE DEF f
    <3> QED
      BY <1>1, <3>1, <3>2, TellsBegins
  <2>7. CASE NetReturns(t) \/ NetRaises(t)
    <3>1. Finish(t)
      BY <2>7 DEF NetReturns, NetRaises
    <3> QED
      BY <1>1, <3>1, TellsBegins
  <2> QED
    BY <1>5, <2>1, <2>2, <2>3, <2>4, <2>5, <2>6, <2>7 DEF Do
<1> QED
  BY <1>3, <1>4, <1>5 DEF Next

\* A call that has failed is reported as what it was: the class and the message a
\* host reads are those of its own call, however many threads fail at once
\* (pl_ffi_set).  The NetError of a thread tells what its own call met whenever no
\* other thread's call has written the reason since, however the calls of the
\* threads interleave; a recv without memory leaves no reason of its own
\* (pl_sock_fail, pl_sock_recv, last_error).
THEOREM ErrorsOwn == Spec => []ErrorsTrue
<1>1. Init => TellsTrue
  BY InitTells
<1>2. HostInv /\ HostInv' /\ TellsTrue /\ [Next]_vars => TellsTrue'
  BY StepTells
<1>3. ASSUME HostInv, TellsTrue PROVE ErrorsTrue
  <2>1. NetErrorTrue
    BY <1>3, TellsFacts
  <2> QED
    BY <1>3, <2>1 DEF ErrorsTrue, HostInv, ThreadInv, Slot
<1> QED
  BY <1>1, <1>2, <1>3, HostInvariant, PTL DEF Spec

-----------------------------------------------------------------------------
\* The frames of thread t, when ow says who holds the mutexes.
Touches(P, t, s, i) ==
  \A o \in Ops(P, s[i].f) : o.op = "touch" =>
    i > 1 /\ s[i - 1].k = "lock" /\ s[i - 1].m = Mutex(t, o)

Runs(P, t, s, ow) ==
  /\ \A i \in DOMAIN s : s[i].k = "fn" => (~Alone(P) => s[i].f \in Safe(P)) /\ Touches(P, t, s, i)
  /\ \A i \in DOMAIN s : s[i].k = "lock" => ow[s[i].m] = t
  /\ \A i, j \in DOMAIN s : s[i].k = "lock" /\ s[j].k = "lock" /\ i # j => s[i].m # s[j].m

RaceInv ==
  /\ \A t \in Thread : Runs(prog, t, stk[t], owner)
  /\ Alone(prog) => born = {"main"}

HasLock(s, m) == \E i \in DOMAIN s : s[i].k = "lock" /\ s[i].m = m

\* Thread t is in a function that has made its mutex.
Making(P, s) == \E i \in DOMAIN s : s[i].k = "fn" /\ Makes(P, s[i].f, s[i].pc)

OwnLock(P, t, s, v) ==
  /\ v # NoThread => v = t /\ Locks(P)
  /\ Locks(P) => Entries(s) \subseteq {1}
  /\ Making(P, s) /\ v # NoThread => HasLock(s, <<t, "m">>)

LockInv ==
  IF prog.exports = {}
  THEN \A m \in Thread \X {"m"} : owner[m] # NoThread => HasLock(stk[owner[m]], m)
  ELSE \A t \in Thread : OwnLock(prog, t, stk[t], owner[<<t, "m">>])

-----------------------------------------------------------------------------
\* What the walk gives: the functions it finds no write in, nor the program a method
\* that changes a global.
LEMMA SafeFacts ==
  ASSUME NEW P, WellFormed(P), Accepted(P), Sheltered(P)
  PROVE  /\ \A f \in Safe(P) : \A o \in Ops(P, f) : o.op \notin {"write", "mutate"}
         /\ \A f \in Safe(P) : \A o \in Ops(P, f) : o.op = "call" /\ o.f \in Fns(P) => o.f \in Safe(P)
         /\ P.exports \subseteq Safe(P)
         /\ \A f \in Fns(P) : \A o \in Ops(P, f) : o.op = "spawn" /\ o.f \in Fns(P) => o.f \in Safe(P)
<1> DEFINE ops == {"write", "mutate"}
<1>1. \A f \in Fns(P) : f \in Reached(P, f)
  BY DEF Reached
<1>2. ASSUME NEW f \in Safe(P), NEW o \in Ops(P, f) PROVE o.op \notin ops
  <2>1. f \in Fns(P) /\ f \in Reached(P, f) /\ ~Finds(P, f, ops)
    BY <1>1 DEF Safe
  <2> QED
    BY <2>1 DEF Finds
<1>3. ASSUME NEW f \in Safe(P), NEW o \in Ops(P, f), o.op = "call", o.f \in Fns(P)
      PROVE  o.f \in Safe(P)
  <2>1. f \in Fns(P) /\ ~Finds(P, f, ops) /\ Edge(P, f, o.f)
    BY <1>3 DEF Safe, Edge
  <2>2. ASSUME NEW h \in Reached(P, o.f) PROVE h \in Reached(P, f)
    <3>1. h \in Fns(P)
      BY DEF Reached
    <3>2. ASSUME NEW S \in SUBSET Fns(P), f \in S,
                 \A e \in S, k \in Fns(P) : Edge(P, e, k) => k \in S
          PROVE  h \in S
      <4>1. o.f \in S
        BY <1>3, <2>1, <3>2
      <4> QED
        BY <3>2, <4>1 DEF Reached
    <3> QED
      BY <3>1, <3>2 DEF Reached
  <2>3. ~Finds(P, o.f, ops)
    BY <2>1, <2>2 DEF Finds
  <2> QED
    BY <1>3, <2>3 DEF Safe
<1>4. ASSUME NEW f \in Fns(P), ~Finds(P, f, {"write"}), ~Finds(P, f, {"mutate"})
      PROVE  f \in Safe(P)
  <2>1. ~Finds(P, f, ops)
    BY <1>4 DEF Finds
  <2> QED
    BY <2>1 DEF Safe
<1>5. P.exports \subseteq Safe(P)
  BY <1>4 DEF Accepted, check_export, Sheltered, WellFormed
<1>6. ASSUME NEW f \in Fns(P), NEW o \in Ops(P, f), o.op = "spawn", o.f \in Fns(P)
      PROVE  o.f \in Safe(P)
  BY <1>4, <1>6 DEF Accepted, check_spawn, Sheltered
<1> QED
  BY <1>2, <1>3, <1>5, <1>6

\* The operation a thread is at is one of its function's.
LEMMA OpIn ==
  ASSUME HostInv, NEW t \in Thread, NEW ops, At(t, ops)
  PROVE  /\ Op(t) \in Ops(prog, Top(t).f) /\ Top(t).f \in Fns(prog) /\ Op(t).op \in ops
         /\ \E i \in DOMAIN stk[t] : i = Len(stk[t]) /\ stk[t][i].k = "fn" /\ stk[t][i].f = Top(t).f
<1>1. /\ stk[t] # <<>> /\ Len(stk[t]) \in Nat \ {0} /\ Top(t) = stk[t][Len(stk[t])] /\ Top(t).k = "fn"
      /\ Top(t).f \in Fns(prog)
      /\ Top(t).pc \in Nat /\ Top(t).pc >= 1 /\ Top(t).pc <= Len(Code(prog, stk[t], Len(stk[t])))
      /\ Op(t) = Code(prog, stk[t], Len(stk[t]))[Top(t).pc] /\ Op(t).op \in ops
  BY AtFacts
<1>2. Body(prog, Top(t).f) \in Seq(Operation(prog))
  BY <1>1, Same DEF WellFormed
<1>3. Code(prog, stk[t], Len(stk[t])) = Body(prog, Top(t).f)
  BY <1>1 DEF Code
<1>4. Top(t).pc \in DOMAIN Body(prog, Top(t).f)
  BY <1>1, <1>2, <1>3, StackFacts
<1>5. DOMAIN stk[t] = 1 .. Len(stk[t])
  BY StackFacts DEF HostInv, HostType
<1>6. Len(stk[t]) \in DOMAIN stk[t]
  BY <1>1, <1>5
<1> QED
  BY <1>1, <1>3, <1>4, <1>6 DEF Ops

\* Frames that stay, and frames that come.
LEMMA RunsKept ==
  ASSUME NEW P, NEW t, NEW s, NEW ow, Runs(P, t, s, ow), NEW r, NEW v,
         NEW n \in Nat, NEW q \in Nat, q <= n, DOMAIN s = 1 .. n, DOMAIN r = 1 .. q,
         \A i \in 1 .. q : /\ r[i].k = s[i].k
                           /\ s[i].k = "fn" => r[i].f = s[i].f
                           /\ s[i].k = "lock" => r[i].m = s[i].m /\ v[s[i].m] = ow[s[i].m]
  PROVE  Runs(P, t, r, v)
<1>1. \A i \in 1 .. q : i \in 1 .. n /\ (i > 1 => i - 1 \in 1 .. q)
  OBVIOUS
<1>2. ASSUME NEW i \in 1 .. q, r[i].k = "fn"
      PROVE  (~Alone(P) => r[i].f \in Safe(P)) /\ Touches(P, t, r, i)
  <2>1. r[i].f = s[i].f /\ s[i].k = "fn" /\ (~Alone(P) => s[i].f \in Safe(P)) /\ Touches(P, t, s, i)
    BY <1>1, <1>2 DEF Runs
  <2>2. i > 1 /\ s[i - 1].k = "lock" => r[i - 1].k = "lock" /\ r[i - 1].m = s[i - 1].m
    BY <1>1
  <2> QED
    BY <2>1, <2>2 DEF Touches
<1>3. \A i \in 1 .. q : r[i].k = "lock" => v[r[i].m] = t
  BY <1>1 DEF Runs
<1>4. \A i, j \in 1 .. q : r[i].k = "lock" /\ r[j].k = "lock" /\ i # j => r[i].m # r[j].m
  BY <1>1 DEF Runs
<1> QED
  BY <1>2, <1>3, <1>4 DEF Runs

LEMMA RunsGrown ==
  ASSUME NEW P, NEW t, NEW s, NEW ow, Runs(P, t, s, ow), NEW r, NEW v,
         NEW n \in Nat, NEW l \in Nat, l = n + 1 \/ l = n + 2, DOMAIN s = 1 .. n, DOMAIN r = 1 .. l,
         \A i \in 1 .. n : r[i] = s[i] /\ (s[i].k = "lock" => v[s[i].m] = ow[s[i].m]),
         r[l].k = "fn", ~Alone(P) => r[l].f \in Safe(P), Touches(P, t, r, l),
         l = n + 2 => \/ r[n + 1].k = "entry"
                      \/ /\ r[n + 1].k = "lock" /\ v[r[n + 1].m] = t
                         /\ \A i \in 1 .. n : s[i].k = "lock" => s[i].m # r[n + 1].m
  PROVE  Runs(P, t, r, v)
<1>1. \A i \in 1 .. l : i \in 1 .. n \/ i = l \/ (i = n + 1 /\ l = n + 2)
  OBVIOUS
<1>2. \A i \in 1 .. n : i > 1 => i - 1 \in 1 .. n
  OBVIOUS
<1>3. ASSUME NEW i \in 1 .. l, r[i].k = "fn"
      PROVE  (~Alone(P) => r[i].f \in Safe(P)) /\ Touches(P, t, r, i)
  <2>1. CASE i \in 1 .. n
    <3>1. r[i] = s[i] /\ (~Alone(P) => s[i].f \in Safe(P)) /\ Touches(P, t, s, i)
      BY <1>3, <2>1 DEF Runs
    <3>2. i > 1 => r[i - 1] = s[i - 1]
      BY <1>2, <2>1
    <3> QED
      BY <3>1, <3>2 DEF Touches
  <2>2. CASE i = l
    BY <2>2
  <2> QED
    BY <1>1, <1>3, <2>1, <2>2
<1>4. ASSUME NEW i \in 1 .. l, r[i].k = "lock" PROVE v[r[i].m] = t
  <2>1. CASE i \in 1 .. n
    BY <1>4, <2>1 DEF Runs
  <2> QED
    BY <1>1, <1>4, <2>1
<1>5. ASSUME NEW i \in 1 .. l, NEW j \in 1 .. l, r[i].k = "lock", r[j].k = "lock", i # j
      PROVE  r[i].m # r[j].m
  <2>1. CASE i \in 1 .. n /\ j \in 1 .. n
    BY <1>5, <2>1 DEF Runs
  <2>2. CASE i \in 1 .. n /\ j = n + 1 /\ l = n + 2
    BY <1>5, <2>2
  <2>3. CASE j \in 1 .. n /\ i = n + 1 /\ l = n + 2
    BY <1>5, <2>3
  <2> QED
    BY <1>1, <1>5, <2>1, <2>2, <2>3
<1> QED
  BY <1>3, <1>4, <1>5 DEF Runs

\* A step of one thread.
LEMMA RaceStep ==
  ASSUME HostInv, RaceInv, NEW t \in Thread, UNCHANGED <<prog, born>>, NEW r,
         stk' = [stk EXCEPT ![t] = r], Runs(prog, t, r, owner'),
         \A u \in Thread : u # t => \A i \in DOMAIN stk[u] :
           stk[u][i].k = "lock" => owner'[stk[u][i].m] = owner[stk[u][i].m]
  PROVE  RaceInv'
<1>1. ASSUME NEW u \in Thread PROVE Runs(prog, u, stk'[u], owner')
  <2>1. CASE u = t
    BY <2>1 DEF HostInv, HostType
  <2>2. CASE u # t
    <3>1. stk'[u] = stk[u] /\ stk[u] \in Seq(FrameSet(prog))
      BY <2>2 DEF HostInv, HostType
    <3>2. Len(stk[u]) \in Nat /\ DOMAIN stk[u] = 1 .. Len(stk[u])
      BY <3>1, StackFacts
    <3>3. \A i \in 1 .. Len(stk[u]) : stk[u][i].k = "lock" => owner'[stk[u][i].m] = owner[stk[u][i].m]
      BY <2>2, <3>2
    <3>4. Runs(prog, u, stk[u], owner)
      BY DEF RaceInv
    <3> QED
      BY <3>1, <3>2, <3>3, <3>4, RunsKept
  <2> QED
    BY <2>1, <2>2
<1> QED
  BY <1>1 DEF RaceInv

\* The top frame goes on to its next operation.
LEMMA RunsAdvanced ==
  ASSUME NEW P, NEW s \in Seq(FrameSet(P)), s # <<>>, s[Len(s)].k = "fn", NEW t, NEW ow,
         Runs(P, t, s, ow), NEW v,
         \A i \in DOMAIN s : s[i].k = "lock" => v[s[i].m] = ow[s[i].m]
  PROVE  LET r == Advanced(s)
         IN  /\ Runs(P, t, r, v) /\ r \in Seq(FrameSet(P)) /\ Len(r) = Len(s) /\ Len(r) \in Nat \ {0}
             /\ \A i \in DOMAIN r : r[i].k = "lock" => i \in DOMAIN s /\ s[i].k = "lock" /\ r[i] = s[i]
<1> DEFINE r == Advanced(s)
           n == Len(s)
<1>1. /\ r \in Seq(FrameSet(P)) /\ Len(r) = n /\ n \in Nat \ {0}
      /\ r[n].k = "fn" /\ r[n].f = s[n].f
      /\ \A i \in 1 .. n : i # n => r[i] = s[i]
  BY Stepped
<1> HIDE DEF r
<1>2. DOMAIN s = 1 .. n /\ DOMAIN r = 1 .. n
  BY <1>1, StackFacts
<1>3. \A i \in 1 .. n : /\ r[i].k = s[i].k
                        /\ s[i].k = "fn" => r[i].f = s[i].f
                        /\ s[i].k = "lock" => r[i].m = s[i].m /\ v[s[i].m] = ow[s[i].m]
  BY <1>1, <1>2
<1>4. n \in Nat /\ n <= n
  BY <1>1
<1> HIDE DEF n
<1>5. Runs(P, t, r, v)
  BY <1>2, <1>3, <1>4, RunsKept
<1> QED
  BY <1>1, <1>2, <1>5 DEF r, n

\* A prefix of the frames stays.
LEMMA RunsCut ==
  ASSUME NEW P, NEW s \in Seq(FrameSet(P)), NEW t, NEW ow, Runs(P, t, s, ow), NEW v,
         NEW q \in 0 .. Len(s),
         \A i \in 1 .. q : s[i].k = "lock" => v[s[i].m] = ow[s[i].m]
  PROVE  Runs(P, t, SubSeq(s, 1, q), v)
<1> DEFINE r == SubSeq(s, 1, q)
<1>1. r \in Seq(FrameSet(P)) /\ Len(r) = q /\ \A i \in 1 .. q : r[i] = s[i]
  BY Prefix
<1>2. Len(s) \in Nat /\ DOMAIN s = 1 .. Len(s) /\ DOMAIN r = 1 .. q /\ q \in Nat /\ q <= Len(s)
  <2>1. Len(s) \in Nat /\ DOMAIN s = 1 .. Len(s)
    BY StackFacts
  <2>2. DOMAIN r = 1 .. q
    BY <1>1, StackFacts
  <2> QED
    BY <2>1, <2>2
<1> HIDE DEF r
<1>3. \A i \in 1 .. q : /\ r[i].k = s[i].k
                        /\ s[i].k = "fn" => r[i].f = s[i].f
                        /\ s[i].k = "lock" => r[i].m = s[i].m /\ v[s[i].m] = ow[s[i].m]
  BY <1>1
<1>4. Runs(P, t, r, v)
  BY <1>2, <1>3, RunsKept
<1> QED
  BY <1>4 DEF r

-----------------------------------------------------------------------------
\* The steps, one thread's frames at a time.
LEMMA RaceSame ==
  ASSUME RaceInv, UNCHANGED <<prog, born, stk, owner>>
  PROVE  RaceInv'
<1>1. ASSUME NEW t \in Thread PROVE Runs(prog, t, stk'[t], owner')
  BY DEF RaceInv
<1> QED
  BY <1>1 DEF RaceInv

LEMMA RaceCut ==
  ASSUME HostInv, RaceInv, NEW t \in Thread, Cuts(t), UNCHANGED <<prog, born, owner>>
  PROVE  RaceInv'
<1>1. PICK q \in 0 .. Len(stk[t]) : stk' = [stk EXCEPT ![t] = SubSeq(stk[t], 1, q)]
  BY DEF Cuts
<1>2. stk[t] \in Seq(FrameSet(prog)) /\ Runs(prog, t, stk[t], owner)
  BY DEF HostInv, HostType, RaceInv
<1>3. Runs(prog, t, SubSeq(stk[t], 1, q), owner')
  BY <1>2, RunsCut
<1> QED
  BY <1>1, <1>3, RaceStep

LEMMA RaceAdvance ==
  ASSUME HostInv, RaceInv, NEW t \in Thread, stk[t] # <<>>, stk[t][Len(stk[t])].k = "fn",
         stk' = [stk EXCEPT ![t] = Advanced(stk[t])], UNCHANGED <<prog, born, owner>>
  PROVE  RaceInv'
<1>1. stk[t] \in Seq(FrameSet(prog)) /\ Runs(prog, t, stk[t], owner)
  BY DEF HostInv, HostType, RaceInv
<1>2. Runs(prog, t, Advanced(stk[t]), owner')
  BY <1>1, RunsAdvanced
<1> QED
  BY <1>2, RaceStep

\* Only the function a lock calls touches the contents of a mutex.
LEMMA NoTouch ==
  ASSUME NEW P, Sheltered(P), NEW g \in Fns(P), NEW e \in Ops(P, g), e.f \in Fns(P),
         e.op \in {"call", "new", "value", "spawn"}, NEW t, NEW s, NEW i, s[i].f = e.f
  PROVE  Touches(P, t, s, i)
<1>1. \A o \in Ops(P, e.f) : o.op # "touch"
  <2>1. e.op # "lock" /\ e.op \in {"call", "new", "value", "spawn", "lock"}
    OBVIOUS
  <2> QED
    BY <2>1 DEF Sheltered
<1> QED
  BY <1>1 DEF Touches

\* What stands where a thread is at an operation.
LEMMA RaceAt ==
  ASSUME HostInv, RaceInv, NEW t \in Thread, NEW ops, At(t, ops), NEW v,
         \A i \in DOMAIN stk[t] : stk[t][i].k = "lock" => v[stk[t][i].m] = owner[stk[t][i].m]
  PROVE  LET a == Advanced(stk[t])
         IN  /\ Runs(prog, t, a, v) /\ a \in Seq(FrameSet(prog))
             /\ Len(a) = Len(stk[t]) /\ Len(a) \in Nat \ {0} /\ DOMAIN a = 1 .. Len(a)
             /\ \A i \in DOMAIN a : a[i].k = "lock" => i \in DOMAIN stk[t] /\ stk[t][i] = a[i] /\ stk[t][i].k = "lock"
             /\ ~Alone(prog) => Top(t).f \in Safe(prog)
             /\ Top(t).f \in Fns(prog) /\ Op(t) \in Ops(prog, Top(t).f) /\ Op(t).op \in ops
             /\ Op(t) \in Operation(prog) /\ WellFormed(prog) /\ Accepted(prog)
             /\ stk[t] # <<>> /\ stk[t][Len(stk[t])].k = "fn" /\ stk[t] \in Seq(FrameSet(prog))
<1>1. /\ stk[t] # <<>> /\ Len(stk[t]) \in Nat \ {0} /\ Top(t) = stk[t][Len(stk[t])] /\ Top(t).k = "fn"
      /\ Op(t) \in Operation(prog)
  BY AtFacts
<1>2. stk[t] \in Seq(FrameSet(prog)) /\ Runs(prog, t, stk[t], owner) /\ Accepted(prog)
  BY DEF HostInv, HostType, RaceInv
<1>3. /\ Op(t) \in Ops(prog, Top(t).f) /\ Top(t).f \in Fns(prog) /\ Op(t).op \in ops
      /\ \E i \in DOMAIN stk[t] : i = Len(stk[t]) /\ stk[t][i].k = "fn" /\ stk[t][i].f = Top(t).f
  BY OpIn
<1>4. ~Alone(prog) => Top(t).f \in Safe(prog)
  BY <1>2, <1>3 DEF Runs
<1> DEFINE a == Advanced(stk[t])
<1>5. /\ Runs(prog, t, a, v) /\ a \in Seq(FrameSet(prog)) /\ Len(a) = Len(stk[t]) /\ Len(a) \in Nat \ {0}
      /\ \A i \in DOMAIN a : a[i].k = "lock" => i \in DOMAIN stk[t] /\ stk[t][i].k = "lock" /\ a[i] = stk[t][i]
  BY <1>1, <1>2, RunsAdvanced
<1>6. DOMAIN a = 1 .. Len(a)
  BY <1>5, StackFacts
<1> HIDE DEF a
<1>7. stk[t][Len(stk[t])].k = "fn" /\ WellFormed(prog)
  BY <1>1, Same
<1> QED
  BY <1>1, <1>2, <1>3, <1>4, <1>5, <1>6, <1>7 DEF a

LEMMA RacePlain ==
  ASSUME HostInv, RaceInv, Sheltered(prog), NEW t \in Thread, Plain(t)
  PROVE  RaceInv'
<1>1. UNCHANGED <<prog, born, owner>>
  BY DEF Plain
<1>2. CASE At(t, {"write", "mutate", "read", "touch", "direct"}) /\ Advance(t)
  <2>1. stk' = [stk EXCEPT ![t] = Advanced(stk[t])]
    BY <1>2 DEF Advance
  <2>2. stk[t] # <<>> /\ stk[t][Len(stk[t])].k = "fn"
    BY <1>2, AtFacts
  <2> QED
    BY <1>1, <2>1, <2>2, RaceAdvance
<1>3. CASE At(t, {"call", "new", "value"}) /\ Call(t, Op(t).f)
  <2> DEFINE a == Advanced(stk[t])
             n == Len(a)
             x == FnFrame(Op(t).f)
             r == Append(a, x)
  <2>1. stk' = [stk EXCEPT ![t] = r]
    BY <1>3 DEF Call
  <2>2. /\ Runs(prog, t, a, owner) /\ a \in Seq(FrameSet(prog)) /\ n \in Nat /\ DOMAIN a = 1 .. n
        /\ ~Alone(prog) => Top(t).f \in Safe(prog)
        /\ Top(t).f \in Fns(prog) /\ Op(t) \in Ops(prog, Top(t).f) /\ Op(t).op \in {"call", "new", "value"}
        /\ Op(t) \in Operation(prog) /\ WellFormed(prog) /\ Accepted(prog)
    <3>1. At(t, {"call", "new", "value"})
      BY <1>3
    <3> HIDE DEF a
    <3>2. \A i \in DOMAIN stk[t] : stk[t][i].k = "lock" => owner[stk[t][i].m] = owner[stk[t][i].m]
      OBVIOUS
    <3> QED
      BY <3>1, <3>2, RaceAt DEF a
  <2>3. Op(t).f \in Fns(prog)
    BY <2>2, OperationFacts
  <2>4. x \in FrameSet(prog) /\ x.k = "fn" /\ x.f = Op(t).f
    BY <2>3, FrameMade
  <2> HIDE DEF a, x
  <2>5. r \in Seq(FrameSet(prog)) /\ Len(r) = n + 1 /\ r[n + 1] = x /\ \A i \in 1 .. n : r[i] = a[i]
    BY <2>2, <2>4, AppendProperties
  <2> HIDE DEF r, n
  <2>6. DOMAIN r = 1 .. n + 1 /\ n + 1 \in Nat
    BY <2>2, <2>5, StackFacts
  <2>7. ~Alone(prog) => Op(t).f \in Safe(prog)
    <3>1. CASE Op(t).op = "call"
      BY <2>2, <2>3, <3>1, SafeFacts
    <3>2. CASE Op(t).op \in {"new", "value"}
      BY <2>2, <3>2 DEF Sheltered
    <3> QED
      BY <2>2, <3>1, <3>2
  <2>8. Touches(prog, t, r, n + 1)
    BY <2>2, <2>3, <2>4, <2>5, NoTouch
  <2>9. n + 1 # n + 2 /\ owner' = owner
    BY <1>1, <2>2
  <2>10. Runs(prog, t, r, owner')
    BY <2>2, <2>4, <2>5, <2>6, <2>7, <2>8, <2>9, RunsGrown
  <2> QED
    BY <1>1, <2>1, <2>9, <2>10, RaceStep
<1> QED
  BY <1>2, <1>3 DEF Plain

\* An exported function reads what it was given, and writes no global.
LEMMA RaceEntered ==
  ASSUME HostInv, RaceInv, Sheltered(prog), NEW t \in Thread, NEW f \in prog.exports,
         NEW a \in Seq(FrameSet(prog)), Runs(prog, t, a, owner),
         Enter(t, f, a), UNCHANGED <<prog, born, owner>>
  PROVE  RaceInv'
<1> DEFINE e == Entry(t, f)
           x == FnFrame(f)
           n == Len(a)
           r == a \o <<e, x>>
<1>1. stk' = [stk EXCEPT ![t] = r]
  BY DEF Enter
<1>2. WellFormed(prog) /\ Accepted(prog) /\ guard[t] \in Nat /\ scopes[t] \in Seq(ScopeSet)
  BY Same DEF HostInv, HostType
<1>3. Len(scopes[t]) \in Nat /\ n \in Nat /\ DOMAIN a = 1 .. n
  BY <1>2, StackFacts
<1>4. e \in FrameSet(prog) /\ e.k = "entry"
  BY <1>2, <1>3, FrameMade DEF Entry
<1>5. f \in Fns(prog)
  BY <1>2 DEF WellFormed
<1>6. x \in FrameSet(prog) /\ x.k = "fn" /\ x.f = f
  BY <1>5, FrameMade
<1> HIDE DEF e, x
<1>7. /\ r \in Seq(FrameSet(prog)) /\ Len(r) = n + 2 /\ r[n + 1] = e /\ r[n + 2] = x
      /\ \A i \in 1 .. n : r[i] = a[i]
  BY <1>4, <1>6, PushedTwo
<1> HIDE DEF r, n
<1>8. DOMAIN r = 1 .. n + 2 /\ n + 2 \in Nat
  BY <1>3, <1>7, StackFacts
<1>9. f \in Safe(prog)
  BY <1>2, SafeFacts
<1>10. Touches(prog, t, r, n + 2)
  BY <1>5, <1>6, <1>7 DEF Touches, Sheltered
<1>11. owner' = owner
  OBVIOUS
<1>12. Runs(prog, t, r, owner')
  BY <1>3, <1>4, <1>6, <1>7, <1>8, <1>9, <1>10, <1>11, RunsGrown
<1> QED
  BY <1>1, <1>11, <1>12, RaceStep

LEMMA RaceEnters ==
  ASSUME HostInv, RaceInv, Sheltered(prog), NEW t \in Thread, HostCalls(t) \/ CalledBack(t)
  PROVE  RaceInv'
<1>1. UNCHANGED <<prog, born, owner>>
  BY DEF HostCalls, CalledBack
<1>2. CASE HostCalls(t)
  <2>1. PICK f \in prog.calls[t] : Enter(t, f, <<>>) /\ t \in prog.starts
    BY <1>2 DEF HostCalls
  <2>2. f \in prog.exports
    BY <2>1, Same DEF WellFormed
  <2>3. Runs(prog, t, <<>>, owner) /\ <<>> \in Seq(FrameSet(prog))
    BY DEF Runs
  <2> QED
    BY <1>1, <2>1, <2>2, <2>3, RaceEntered
<1>3. CASE CalledBack(t)
  <2> DEFINE a == Advanced(stk[t])
  <2>1. At(t, {"callout"}) /\ Enter(t, Op(t).f, a)
    BY <1>3 DEF CalledBack
  <2>2. /\ Runs(prog, t, a, owner) /\ a \in Seq(FrameSet(prog))
        /\ Op(t) \in Operation(prog) /\ Op(t).op = "callout" /\ WellFormed(prog)
    <3>1. \A i \in DOMAIN stk[t] : stk[t][i].k = "lock" => owner[stk[t][i].m] = owner[stk[t][i].m]
      OBVIOUS
    <3> QED
      BY <2>1, <3>1, RaceAt
  <2>3. Op(t).f \in prog.exports
    BY <2>2, OperationFacts
  <2> HIDE DEF a
  <2> QED
    BY <1>1, <2>1, <2>2, <2>3, RaceEntered
<1> QED
  BY <1>2, <1>3

-----------------------------------------------------------------------------
\* A thread is started: some function spawns, so globals are left alone.
LEMMA RaceSpawn ==
  ASSUME HostInv, RaceInv, Sheltered(prog), NEW t \in Thread, Spawn(t)
  PROVE  RaceInv'
<1> DEFINE c == CHOOSE c \in Thread \ born : TRUE
           a == Advanced(stk[t])
           x == FnFrame(Op(t).f)
<1>1. /\ At(t, {"spawn"}) /\ Thread \ born # {}
      /\ stk' = [stk EXCEPT ![t] = a, ![c] = <<x>>] /\ UNCHANGED <<prog, owner>>
  BY DEF Spawn
<1>2. c \in Thread /\ c \notin born
  BY <1>1
<1> HIDE DEF c
<1>3. /\ Runs(prog, t, a, owner) /\ Top(t).f \in Fns(prog) /\ Op(t) \in Ops(prog, Top(t).f)
      /\ Op(t).op = "spawn" /\ Op(t) \in Operation(prog) /\ WellFormed(prog) /\ Accepted(prog)
  <2>1. \A i \in DOMAIN stk[t] : stk[t][i].k = "lock" => owner[stk[t][i].m] = owner[stk[t][i].m]
    OBVIOUS
  <2>2. At(t, {"spawn"})
    BY <1>1
  <2> HIDE DEF a
  <2> QED
    BY <2>1, <2>2, RaceAt DEF a
<1> HIDE DEF a
<1>4. ~Alone(prog)
  BY <1>3 DEF Alone, Spawns
<1>5. Op(t).f \in Fns(prog)
  BY <1>3, OperationFacts
<1>6. Op(t).f \in Safe(prog)
  BY <1>3, <1>5, SafeFacts
<1>7. x.k = "fn" /\ x.f = Op(t).f
  BY <1>5, FrameMade
<1> HIDE DEF x
<1>8. Runs(prog, c, <<x>>, owner)
  <2>1. Touches(prog, c, <<x>>, 1)
    <3>1. <<x>>[1].f = Op(t).f
      BY <1>7
    <3> QED
      BY <1>3, <1>5, <3>1, NoTouch
  <2>2. DOMAIN <<x>> = {1} /\ <<x>>[1] = x
    OBVIOUS
  <2> QED
    BY <1>6, <1>7, <2>1, <2>2 DEF Runs
<1>9. ASSUME NEW u \in Thread PROVE Runs(prog, u, stk'[u], owner)
  <2>1. DOMAIN stk = Thread
    BY DEF HostInv, HostType
  <2>2. CASE u = c
    BY <1>1, <1>8, <2>1, <2>2
  <2>3. CASE u # c /\ u = t
    BY <1>1, <1>3, <2>1, <2>3
  <2>4. CASE u # c /\ u # t
    <3>1. stk'[u] = stk[u]
      BY <1>1, <2>1, <2>4
    <3> QED
      BY <3>1 DEF RaceInv
  <2> QED
    BY <2>2, <2>3, <2>4
<1> QED
  BY <1>1, <1>4, <1>9 DEF RaceInv

\* Frames that hold a mutex.
LEMMA HeldFacts ==
  ASSUME HostInv, RaceInv, NEW u \in Thread, NEW i \in DOMAIN stk[u], stk[u][i].k = "lock"
  PROVE  stk[u][i].m \in Thread \X {"m"} /\ owner[stk[u][i].m] = u
<1>1. stk[u] \in Seq(FrameSet(prog)) /\ Runs(prog, u, stk[u], owner)
  BY DEF HostInv, HostType, RaceInv
<1>2. stk[u][i] \in FrameSet(prog)
  BY <1>1, StackFacts
<1> QED
  BY <1>1, <1>2, FrameFacts DEF Runs

\* A mutex is made while nobody holds it.
LEMMA RaceNewMutex ==
  ASSUME HostInv, RaceInv, NEW t \in Thread, NewMutex(t)
  PROVE  RaceInv'
<1> DEFINE m == Mutex(t, Op(t))
           a == Advanced(stk[t])
<1>1. /\ At(t, {"mutex"}) /\ stk' = [stk EXCEPT ![t] = a]
      /\ \A u \in Thread : \A i \in DOMAIN stk[u] : stk[u][i].k = "lock" => stk[u][i].m # m
      /\ owner' = [owner EXCEPT ![m] = NoThread] /\ UNCHANGED <<prog, born>>
  BY DEF NewMutex, Advance
<1> HIDE DEF m
<1>2. \A u \in Thread : \A i \in DOMAIN stk[u] :
        stk[u][i].k = "lock" => owner'[stk[u][i].m] = owner[stk[u][i].m]
  BY <1>1
<1>3. Runs(prog, t, a, owner')
  <2>1. At(t, {"mutex"})
    BY <1>1
  <2> HIDE DEF a
  <2> QED
    BY <1>2, <2>1, RaceAt DEF a
<1> HIDE DEF a
<1> QED
  BY <1>1, <1>2, <1>3, RaceStep

\* A mutex that is free nobody holds; the function the lock calls touches its
\* contents, and only those.
LEMMA RaceLock ==
  ASSUME HostInv, RaceInv, Sheltered(prog), NEW t \in Thread, Lock(t)
  PROVE  RaceInv'
<1> DEFINE o == Op(t)
           m == Mutex(t, o)
           a == Advanced(stk[t])
           n == Len(a)
           l == [k |-> "lock", m |-> m]
           x == FnFrame(o.f)
           r == a \o <<l, x>>
<1>1. /\ At(t, {"lock"}) /\ owner[m] = NoThread /\ owner' = [owner EXCEPT ![m] = t]
      /\ stk' = [stk EXCEPT ![t] = r] /\ UNCHANGED <<prog, born>>
  BY DEF Lock, Free
<1>2. m \in Thread \X {"m"}
  BY HostBounds DEF Mutex
<1> HIDE DEF m
<1>3. \A u \in Thread : \A i \in DOMAIN stk[u] : stk[u][i].k = "lock" =>
        stk[u][i].m # m /\ owner'[stk[u][i].m] = owner[stk[u][i].m]
  <2> SUFFICES ASSUME NEW u \in Thread, NEW i \in DOMAIN stk[u], stk[u][i].k = "lock"
               PROVE  stk[u][i].m # m /\ owner'[stk[u][i].m] = owner[stk[u][i].m]
    OBVIOUS
  <2>1. owner[stk[u][i].m] = u
    BY HeldFacts
  <2>2. stk[u][i].m # m
    BY <1>1, <2>1, HostBounds DEF NoThread
  <2> QED
    BY <1>1, <2>2
<1>4. /\ Runs(prog, t, a, owner') /\ a \in Seq(FrameSet(prog)) /\ n \in Nat /\ DOMAIN a = 1 .. n
      /\ \A i \in DOMAIN a : a[i].k = "lock" => i \in DOMAIN stk[t] /\ stk[t][i] = a[i] /\ stk[t][i].k = "lock"
      /\ Top(t).f \in Fns(prog) /\ o \in Ops(prog, Top(t).f) /\ o.op = "lock"
      /\ o \in Operation(prog) /\ WellFormed(prog) /\ Accepted(prog)
  <2>1. At(t, {"lock"})
    BY <1>1
  <2> HIDE DEF a, o
  <2> QED
    BY <1>3, <2>1, RaceAt DEF a, o
<1> HIDE DEF a, o
<1>5. o.f \in Fns(prog)
  BY <1>4, OperationFacts
<1>6. x \in FrameSet(prog) /\ x.k = "fn" /\ x.f = o.f /\ l \in FrameSet(prog) /\ l.k = "lock" /\ l.m = m
  BY <1>2, <1>5, FrameMade
<1> HIDE DEF x, l
<1>7. /\ r \in Seq(FrameSet(prog)) /\ Len(r) = n + 2 /\ r[n + 1] = l /\ r[n + 2] = x
      /\ \A i \in 1 .. n : r[i] = a[i]
  BY <1>4, <1>6, PushedTwo
<1> HIDE DEF r, n
<1>8. DOMAIN r = 1 .. n + 2 /\ n + 2 \in Nat /\ n + 2 > 1 /\ n + 2 - 1 = n + 1
  BY <1>4, <1>7, StackFacts
<1>9. o.f \in Safe(prog)
  BY <1>4 DEF Sheltered
<1>10. Touches(prog, t, r, n + 2)
  <2>1. ASSUME NEW p \in Ops(prog, o.f), p.op = "touch" PROVE Mutex(t, p) = m
    <3>1. o.m = p.m
      BY <1>4, <1>5, <2>1 DEF Sheltered
    <3> QED
      BY <3>1 DEF Mutex, m
  <2> DEFINE j == n + 2
  <2>2. j - 1 = n + 1 /\ j > 1 /\ r[j] = x /\ r[n + 1] = l
    <3>1. j - 1 = n + 1 /\ j > 1
      <4>1. n \in Nat
        BY <1>4
      <4> QED
        BY <4>1
    <3>2. r[j] = x /\ r[n + 1] = l
      BY <1>7
    <3> QED
      BY <3>1, <3>2
  <2> HIDE DEF j
  <2>3. Touches(prog, t, r, j)
    BY <1>6, <2>1, <2>2 DEF Touches
  <2> QED
    BY <2>3 DEF j
<1>11. owner'[m] = t
  BY <1>1, <1>2 DEF HostInv, HostType
<1>12. \A i \in 1 .. n : a[i].k = "lock" => a[i].m # m
  BY <1>3, <1>4
<1>13. Runs(prog, t, r, owner')
  BY <1>4, <1>6, <1>7, <1>8, <1>9, <1>10, <1>11, <1>12, RunsGrown
<1> QED
  BY <1>1, <1>3, <1>13, RaceStep

LEMMA RaceUnlock ==
  ASSUME HostInv, RaceInv, NEW t \in Thread, Unlock(t)
  PROVE  RaceInv'
<1> DEFINE s == stk[t]
           n == Len(s)
           m == s[n].m
<1>1. /\ s # <<>> /\ Top(t).k = "lock" /\ stk' = [stk EXCEPT ![t] = SubSeq(s, 1, n - 1)]
      /\ owner' = [owner EXCEPT ![Top(t).m] = NoThread] /\ UNCHANGED <<prog, born>>
  BY DEF Unlock, Front
<1>2. s \in Seq(FrameSet(prog)) /\ Runs(prog, t, s, owner)
  BY DEF HostInv, HostType, RaceInv
<1>3. n \in Nat \ {0} /\ DOMAIN s = 1 .. n /\ Top(t) = s[n]
  BY <1>1, <1>2, StackFacts DEF Top
<1>4. n - 1 \in 0 .. n /\ n \in 1 .. n /\ \A i \in 1 .. n - 1 : i \in 1 .. n /\ i # n
  BY <1>3
<1>5. s[n].k = "lock" /\ owner' = [owner EXCEPT ![m] = NoThread]
  BY <1>1, <1>3
<1>6. owner[m] = t
  BY <1>2, <1>3, <1>4, <1>5 DEF Runs
<1>7. \A u \in Thread : u # t => \A i \in DOMAIN stk[u] :
        stk[u][i].k = "lock" => owner'[stk[u][i].m] = owner[stk[u][i].m]
  <2> SUFFICES ASSUME NEW u \in Thread, u # t, NEW i \in DOMAIN stk[u], stk[u][i].k = "lock"
               PROVE  owner'[stk[u][i].m] = owner[stk[u][i].m]
    OBVIOUS
  <2>1. owner[stk[u][i].m] = u
    BY HeldFacts
  <2> QED
    BY <1>5, <1>6, <2>1
<1>8. \A i \in 1 .. n - 1 : s[i].k = "lock" => owner'[s[i].m] = owner[s[i].m]
  <2>1. \A i \in 1 .. n - 1 : s[i].k = "lock" => s[i].m # m
    BY <1>2, <1>3, <1>4, <1>5 DEF Runs
  <2> QED
    BY <1>5, <2>1
<1>9. Runs(prog, t, SubSeq(s, 1, n - 1), owner')
  <2> DEFINE q == n - 1
  <2>1. q \in 0 .. Len(s) /\ \A i \in 1 .. q : s[i].k = "lock" => owner'[s[i].m] = owner[s[i].m]
    BY <1>4, <1>8
  <2> HIDE DEF q, s
  <2>2. Runs(prog, t, SubSeq(s, 1, q), owner')
    BY <1>2, <2>1, RunsCut
  <2> QED
    BY <2>2 DEF q
<1> HIDE DEF s
<1> QED
  BY <1>1, <1>7, <1>9, RaceStep

-----------------------------------------------------------------------------
LEMMA RaceInit ==
  ASSUME Init, Sheltered(prog)
  PROVE  RaceInv
<1>1. /\ born = prog.starts
      /\ stk = [t \in Thread |-> IF t \in prog.starts \cap {"main"} THEN <<FnFrame("main")>> ELSE <<>>]
  BY DEF Init
<1>2. WellFormed(prog)
  BY FamiliesAssumption DEF Init
<1>3. ASSUME NEW t \in Thread PROVE Runs(prog, t, stk[t], owner)
  <2>1. CASE t \in prog.starts \cap {"main"}
    <3> DEFINE x == FnFrame("main")
    <3>1. "main" \in Fns(prog) /\ prog.starts = {"main"} /\ stk[t] = <<x>>
      BY <1>1, <1>2, <2>1 DEF WellFormed
    <3>2. x.k = "fn" /\ x.f = "main"
      BY <3>1, FrameMade
    <3> HIDE DEF x
    <3>3. ~Alone(prog) => "main" \in Safe(prog)
      BY <3>1 DEF Alone, Sheltered
    <3>4. \A o \in Ops(prog, "main") : o.op # "touch"
      BY <3>1 DEF Sheltered
    <3>5. DOMAIN <<x>> = {1} /\ <<x>>[1] = x
      OBVIOUS
    <3> QED
      BY <3>1, <3>2, <3>3, <3>4, <3>5 DEF Runs, Touches
  <2>2. CASE t \notin prog.starts \cap {"main"}
    BY <1>1, <2>2 DEF Runs
  <2> QED
    BY <2>1, <2>2
<1> QED
  BY <1>1, <1>3 DEF RaceInv, Alone

LEMMA RaceNext ==
  ASSUME HostInv, RaceInv, Sheltered(prog), [Next]_vars
  PROVE  RaceInv'
<1>1. CASE External \/ UNCHANGED vars
  <2>1. UNCHANGED <<prog, born, stk, owner>>
    BY <1>1 DEF External, vars, hostVars
  <2> QED
    BY <2>1, RaceSame
<1>2. ASSUME NEW t \in Thread, Do(t) \/ NoMemory(t) PROVE RaceInv'
  <2>1. CASE Plain(t) \/ HostCalls(t) \/ CalledBack(t)
    BY <2>1, RacePlain, RaceEnters
  <2>2. CASE Return(t) \/ Raises(t) \/ NetRaises(t)
    <3>1. UNCHANGED <<prog, born, owner>>
      BY <2>2 DEF Return, Raises, NetRaises
    <3>2. Cuts(t)
      BY <2>2, ReturnStep, RaisesStep, NetRaisesStep
    <3> QED
      BY <3>1, <3>2, RaceCut
  <2>3. CASE Panics(t) \/ CopyFails(t)
    <3>1. UNCHANGED <<prog, born, owner>>
      BY <2>3 DEF Panics, CopyFails
    <3>2. stk' = stk \/ Cuts(t)
      BY <2>3, PanicsStep
    <3> QED
      BY <3>1, <3>2, RaceCut, RaceSame
  <2>4. CASE OpenScope(t) \/ CloseScope(t) \/ Join(t) \/ Closes(t)
    <3>1. stk' = [stk EXCEPT ![t] = Advanced(stk[t])] /\ UNCHANGED <<prog, born, owner>>
      BY <2>4 DEF OpenScope, CloseScope, Join, Closes, Advance
    <3>2. \E ops : At(t, ops)
      BY <2>4 DEF OpenScope, CloseScope, Join, Closes
    <3>3. stk[t] # <<>> /\ stk[t][Len(stk[t])].k = "fn"
      BY <3>2, AtFacts
    <3> QED
      BY <3>1, <3>3, RaceAdvance
  <2>5. CASE NetReturns(t)
    <3>1. stk' = [stk EXCEPT ![t] = Advanced(stk[t])] /\ UNCHANGED <<prog, born, owner>>
          /\ net[t].fn \in {"returned", "raised"}
      BY <2>5 DEF NetReturns, Advance
    <3>2. stk[t] # <<>> /\ stk[t][Len(stk[t])].k = "fn"
      BY <3>1, NetBusy DEF Calling
    <3> QED
      BY <3>1, <3>2, RaceAdvance
  <2>6. CASE StartsNet(t) \/ InNet(t) \/ NoMemory(t)
    <3>1. UNCHANGED <<prog, born, stk, owner>>
      BY <2>6 DEF StartsNet, InNet, NoMemory, hostVars
    <3> QED
      BY <3>1, RaceSame
  <2>7. CASE Spawn(t) \/ NewMutex(t) \/ Lock(t) \/ Unlock(t)
    BY <2>7, RaceSpawn, RaceNewMutex, RaceLock, RaceUnlock
  <2> QED
    BY <1>2, <2>1, <2>2, <2>3, <2>4, <2>5, <2>6, <2>7 DEF Do
<1> QED
  BY <1>1, <1>2 DEF Next

\* Two threads at the same datum, one of them to write.
LEMMA RaceFree ==
  ASSUME HostInv, RaceInv, Sheltered(prog), NEW t \in Thread, NEW u \in Thread, t # u,
         At(t, {"write", "mutate", "touch", "direct"}),
         At(u, {"read", "write", "mutate", "touch", "direct"})
  PROVE  Cell(t) # Cell(u)
<1>1. ASSUME NEW v \in {t, u}, NEW ops, At(v, ops)
      PROVE  /\ Op(v) \in Ops(prog, Top(v).f) /\ Top(v).f \in Fns(prog) /\ Op(v).op \in ops
             /\ Op(v).op # "direct" /\ v \in born
             /\ ~Alone(prog) => Top(v).f \in Safe(prog)
             /\ Op(v).op = "touch" => owner[Mutex(v, Op(v))] = v
  <2>1. v \in Thread
    OBVIOUS
  <2>2. /\ Op(v) \in Ops(prog, Top(v).f) /\ Top(v).f \in Fns(prog) /\ Op(v).op \in ops
        /\ \E i \in DOMAIN stk[v] : stk[v][i].k = "fn" /\ stk[v][i].f = Top(v).f
    BY <1>1, <2>1, OpIn
  <2>3. PICK i \in DOMAIN stk[v] : stk[v][i].k = "fn" /\ stk[v][i].f = Top(v).f
    BY <2>2
  <2>4. Runs(prog, v, stk[v], owner) /\ stk[v] \in Seq(FrameSet(prog))
    BY <2>1 DEF RaceInv, HostInv, HostType
  <2>5. (~Alone(prog) => Top(v).f \in Safe(prog)) /\ Touches(prog, v, stk[v], i)
    BY <2>3, <2>4 DEF Runs
  <2>6. Op(v).op # "direct"
    BY <2>2 DEF Sheltered
  <2>7. v \in born
    BY <1>1, <2>1, AtFacts
  <2>8. ASSUME Op(v).op = "touch" PROVE owner[Mutex(v, Op(v))] = v
    <3>1. i > 1 /\ stk[v][i - 1].k = "lock" /\ stk[v][i - 1].m = Mutex(v, Op(v))
      BY <2>2, <2>3, <2>5, <2>8 DEF Touches
    <3>2. i - 1 \in DOMAIN stk[v]
      <4>1. DOMAIN stk[v] = 1 .. Len(stk[v]) /\ Len(stk[v]) \in Nat
        BY <2>4, StackFacts
      <4> QED
        BY <3>1, <4>1
    <3> QED
      BY <2>4, <3>1, <3>2 DEF Runs
  <2> QED
    BY <2>2, <2>5, <2>6, <2>7, <2>8
<1>2. ASSUME NEW v \in {t, u}, NEW ops, At(v, ops) PROVE Op(v).op \notin {"write", "mutate"}
  <2>1. /\ Op(v) \in Ops(prog, Top(v).f) /\ ~Alone(prog) => Top(v).f \in Safe(prog)
    BY <1>1, <1>2
  <2>2. ~Alone(prog)
    <3>1. t \in born /\ u \in born
      BY <1>1
    <3> QED
      BY <3>1 DEF RaceInv
  <2>3. WellFormed(prog) /\ Accepted(prog)
    BY Same DEF HostInv, HostType
  <2> QED
    BY <1>1, <1>2, <2>2, <2>3, SafeFacts
<1>3. Op(t).op = "touch"
  BY <1>1, <1>2
<1>4. Op(u).op = "read" \/ Op(u).op = "touch"
  BY <1>1, <1>2
<1>5. Cell(t) = Mutex(t, Op(t))
  BY <1>3 DEF Cell
<1>6. CASE Op(u).op = "read"
  <2>1. Cell(u) = <<"global", "m">>
    BY <1>6 DEF Cell
  <2>2. Cell(t)[1] \in Thread
    BY <1>5, HostBounds DEF Mutex
  <2> QED
    BY <2>1, <2>2, HostBounds
<1>7. CASE Op(u).op = "touch"
  <2>1. Cell(u) = Mutex(u, Op(u))
    BY <1>7 DEF Cell
  <2>2. owner[Cell(t)] = t /\ owner[Cell(u)] = u
    BY <1>1, <1>3, <1>5, <1>7, <2>1
  <2> QED
    BY <2>2
<1> QED
  BY <1>4, <1>6, <1>7

\* No two threads touch the same datum at once, one of them writing, in programs
\* that keep away from what the checks do not walk into: the init a call of a
\* class runs, what a value of function type or a lock calls, main beside threads
\* it has spawned, a method that changes a global, and a mutex whose contents are
\* touched without its lock (check_export, check_spawn, scan_global_write,
\* pl_mutex_with).
THEOREM RaceFreedom ==
  ASSUME \A P \in Families : Accepted(P) => Sheltered(P)
  PROVE  Spec => []NoRace
<1>1. ASSUME HostInv PROVE Sheltered(prog)
  BY <1>1 DEF HostInv, HostType
<1>2. ASSUME Init PROVE RaceInv
  <2>1. Sheltered(prog)
    BY <1>2 DEF Init
  <2> QED
    BY <1>2, <2>1, RaceInit
<1>3. HostInv /\ RaceInv /\ [Next]_vars => RaceInv'
  BY <1>1, RaceNext
<1>4. HostInv /\ RaceInv => NoRace
  BY <1>1, RaceFree DEF NoRace
<1> QED
  BY <1>2, <1>3, <1>4, HostInvariant, PTL DEF Spec

-----------------------------------------------------------------------------
\* The frames of a thread before and after a step, for the mutexes it holds.
LEMMA LocksAdvanced ==
  ASSUME NEW P, NEW s \in Seq(FrameSet(P)), s # <<>>, s[Len(s)].k = "fn",
         NEW o, o = Body(P, s[Len(s)].f)[s[Len(s)].pc]
  PROVE  LET a == Advanced(s)
         IN  /\ Entries(a) = Entries(s)
             /\ \A m : HasLock(s, m) => HasLock(a, m)
             /\ Making(P, a) => Making(P, s) \/ (o.op = "mutex" /\ o.m = "mine")
<1> DEFINE a == Advanced(s)
           n == Len(s)
<1>1. /\ a \in Seq(FrameSet(P)) /\ Len(a) = n /\ n \in Nat \ {0}
      /\ a[n].k = "fn" /\ a[n].f = s[n].f /\ a[n].pc = s[n].pc + 1
      /\ \A i \in 1 .. n : i # n => a[i] = s[i]
  BY Stepped
<1> HIDE DEF a
<1>2. DOMAIN s = 1 .. n /\ DOMAIN a = 1 .. n /\ n \in 1 .. n
  BY <1>1, StackFacts
<1>3. s[n].pc \in Nat \ {0}
  BY <1>2, StackFacts, FrameFacts
<1> HIDE DEF n
<1>4. \A i \in 1 .. n : a[i].k = s[i].k /\ (i # n => a[i] = s[i])
  BY <1>1 DEF n
<1>5. Entries(a) = Entries(s)
  BY <1>2, <1>4 DEF Entries
<1>6. ASSUME NEW m, HasLock(s, m) PROVE HasLock(a, m)
  <2>1. PICK i \in 1 .. n : s[i].k = "lock" /\ s[i].m = m
    BY <1>2, <1>6 DEF HasLock
  <2>2. i # n
    BY <2>1 DEF n
  <2> QED
    BY <1>2, <1>4, <2>1, <2>2 DEF HasLock
<1>7. ASSUME Making(P, a) PROVE Making(P, s) \/ (o.op = "mutex" /\ o.m = "mine")
  <2>1. PICK i \in 1 .. n : a[i].k = "fn" /\ Makes(P, a[i].f, a[i].pc)
    BY <1>2, <1>7 DEF Making
  <2>2. CASE i # n
    BY <1>2, <1>4, <2>1, <2>2 DEF Making
  <2>3. CASE i = n
    <3> DEFINE b == Body(P, s[n].f)
               c == s[n].pc
    <3>1. Makes(P, s[n].f, c + 1) /\ c \in Nat \ {0} /\ s[n].k = "fn" /\ o = b[c]
      BY <1>1, <1>3, <2>1, <2>3 DEF n
    <3> HIDE DEF c, b
    <3>2. PICK j \in 1 .. c + 1 - 1 : b[j].op = "mutex" /\ b[j].m = "mine"
      BY <3>1 DEF Makes, b
    <3>3. CASE j = c
      BY <3>1, <3>2, <3>3
    <3>4. CASE j # c
      <4>1. j \in 1 .. c - 1
        BY <3>1, <3>2, <3>4
      <4>2. Makes(P, s[n].f, c)
        BY <3>2, <4>1 DEF Makes, b
      <4> QED
        BY <1>2, <3>1, <4>2 DEF Making, c
    <3> QED
      BY <3>3, <3>4
  <2> QED
    BY <2>2, <2>3
<1> QED
  BY <1>5, <1>6, <1>7 DEF a

LEMMA LocksPushed ==
  ASSUME NEW P, NEW s, NEW r, NEW n \in Nat, DOMAIN s = 1 .. n, DOMAIN r = 1 .. n + 1,
         \A i \in 1 .. n : r[i] = s[i], r[n + 1].k = "fn", r[n + 1].pc = 1
  PROVE  /\ \A m : HasLock(s, m) => HasLock(r, m)
         /\ Making(P, r) => Making(P, s)
         /\ Entries(r) = Entries(s)
<1>1. \A i \in 1 .. n + 1 : i \in 1 .. n \/ i = n + 1
  OBVIOUS
<1>2. \A i \in 1 .. n : i \in 1 .. n + 1
  OBVIOUS
<1>3. \A f : ~Makes(P, f, 1)
  BY DEF Makes
<1>4. \A m : HasLock(s, m) => HasLock(r, m)
  BY <1>2 DEF HasLock
<1>5. Making(P, r) => Making(P, s)
  BY <1>1, <1>3 DEF Making
<1>6. Entries(r) = Entries(s)
  BY <1>1, <1>2 DEF Entries
<1> QED
  BY <1>4, <1>5, <1>6

LEMMA LocksCut ==
  ASSUME NEW P, NEW s \in Seq(FrameSet(P)), NEW q \in 0 .. Len(s)
  PROVE  LET r == SubSeq(s, 1, q)
         IN  /\ Entries(r) \subseteq Entries(s)
             /\ Making(P, r) => Making(P, s)
             /\ \A i \in 1 .. q : s[i].k = "lock" => HasLock(r, s[i].m)
             /\ q = 0 => ~Making(P, r)
<1> DEFINE r == SubSeq(s, 1, q)
<1>1. r \in Seq(FrameSet(P)) /\ Len(r) = q /\ \A i \in 1 .. q : r[i] = s[i]
  BY Prefix
<1> HIDE DEF r
<1>2. DOMAIN s = 1 .. Len(s) /\ DOMAIN r = 1 .. q
  BY <1>1, StackFacts
<1>3. \A i \in 1 .. q : i \in 1 .. Len(s)
  OBVIOUS
<1>4. Entries(r) \subseteq Entries(s)
  BY <1>1, <1>2, <1>3 DEF Entries
<1>5. Making(P, r) => Making(P, s)
  BY <1>1, <1>2, <1>3 DEF Making
<1>6. \A i \in 1 .. q : s[i].k = "lock" => HasLock(r, s[i].m)
  BY <1>1, <1>2 DEF HasLock
<1>7. q = 0 => ~Making(P, r)
  BY <1>2 DEF Making
<1> QED
  BY <1>4, <1>5, <1>6, <1>7 DEF r

\* A step of one thread: a mutex stays with its holder, or is free, or is taken
\* by the thread, which then has a frame for it; and its frames for the mutexes
\* it keeps stay, unless none that made one is left.
LEMMA LockStep ==
  ASSUME HostInv, LockInv, NEW t \in Thread, prog' = prog, NEW r,
         stk' = [stk EXCEPT ![t] = r],
         \A m \in Thread \X {"m"} :
           \/ owner'[m] = owner[m] /\ (owner[m] = t /\ HasLock(stk[t], m) =>
                HasLock(r, m) \/ (prog.exports # {} /\ ~Making(prog, r)))
           \/ owner'[m] = NoThread
           \/ /\ owner'[m] = t /\ HasLock(r, m) /\ Locks(prog)
              /\ prog.exports # {} => m = <<t, "m">>,
         prog.exports # {} /\ Locks(prog) => Entries(r) \subseteq {1},
         prog.exports # {} /\ Making(prog, r) =>
           Making(prog, stk[t]) \/ owner'[<<t, "m">>] = NoThread \/ HasLock(r, <<t, "m">>)
  PROVE  LockInv'
<1>1. DOMAIN stk = Thread /\ stk'[t] = r /\ \A u \in Thread : u # t => stk'[u] = stk[u]
  BY DEF HostInv, HostType
<1>2. \A m \in Thread \X {"m"} : owner[m] \in Thread \cup {NoThread}
  BY Same
<1>3. CASE prog.exports = {}
  <2>1. ASSUME NEW m \in Thread \X {"m"}, owner'[m] # NoThread PROVE HasLock(stk'[owner'[m]], m)
    <3>1. CASE owner'[m] = t /\ HasLock(r, m)
      BY <1>1, <3>1
    <3>2. CASE /\ owner'[m] = owner[m]
               /\ owner[m] = t /\ HasLock(stk[t], m) => HasLock(r, m)
      <4>1. HasLock(stk[owner[m]], m) /\ owner[m] \in Thread
        BY <1>2, <1>3, <2>1, <3>2 DEF LockInv
      <4> QED
        BY <1>1, <3>2, <4>1
    <3> QED
      BY <1>3, <2>1, <3>1, <3>2
  <2> QED
    BY <1>3, <2>1 DEF LockInv
<1>4. CASE prog.exports # {}
  <2>1. ASSUME NEW u \in Thread PROVE OwnLock(prog, u, stk'[u], owner'[<<u, "m">>])
    <3> DEFINE m == <<u, "m">>
    <3>1. m \in Thread \X {"m"} /\ OwnLock(prog, u, stk[u], owner[m])
      BY <1>4 DEF LockInv
    <3>2. NoThread \notin Thread
      BY HostBounds DEF NoThread
    <3>3. CASE u = t
      <4>1. owner'[m] # NoThread => owner'[m] = t /\ Locks(prog)
        BY <3>1, <3>3 DEF OwnLock
      <4>2. ASSUME Making(prog, r), owner'[m] # NoThread PROVE HasLock(r, m)
        <5>1. CASE HasLock(r, m)
          BY <5>1
        <5>2. CASE ~HasLock(r, m)
          <6>1. Making(prog, stk[t])
            BY <1>4, <3>3, <4>2, <5>2
          <6>2. owner'[m] = owner[m] /\ (owner[m] = t /\ HasLock(stk[t], m) => HasLock(r, m))
            BY <3>1, <4>2, <5>2
          <6>3. owner[m] = t /\ HasLock(stk[t], m)
            BY <3>1, <3>3, <4>2, <6>1, <6>2 DEF OwnLock
          <6> QED
            BY <6>2, <6>3
        <5> QED
          BY <5>1, <5>2
      <4> QED
        BY <1>1, <1>4, <3>3, <4>1, <4>2 DEF OwnLock
    <3>4. CASE u # t
      <4>1. m # <<t, "m">>
        BY <3>4
      <4>2. owner'[m] = owner[m] \/ owner'[m] = NoThread
        BY <1>4, <3>1, <4>1
      <4> QED
        BY <1>1, <3>1, <3>4, <4>2 DEF OwnLock
    <3> QED
      BY <3>3, <3>4
  <2> QED
    BY <1>4, <2>1 DEF LockInv
<1> QED
  BY <1>3, <1>4

-----------------------------------------------------------------------------
LEMMA LockSame ==
  ASSUME LockInv, UNCHANGED <<prog, stk, owner>>
  PROVE  LockInv'
  BY DEF LockInv

LEMMA EntriesOne ==
  ASSUME HostInv, LockInv, NEW t \in Thread, prog.exports # {}, Locks(prog)
  PROVE  Entries(stk[t]) \subseteq {1}
  BY DEF LockInv, OwnLock

\* The thread goes on to its next operation.
LEMMA LockAdvance ==
  ASSUME HostInv, LockInv, NEW t \in Thread, stk[t] # <<>>, stk[t][Len(stk[t])].k = "fn",
         Body(prog, stk[t][Len(stk[t])].f)[stk[t][Len(stk[t])].pc].op # "mutex",
         stk' = [stk EXCEPT ![t] = Advanced(stk[t])], UNCHANGED <<prog, owner>>
  PROVE  LockInv'
<1> DEFINE a == Advanced(stk[t])
<1>1. stk[t] \in Seq(FrameSet(prog))
  BY DEF HostInv, HostType
<1>2. /\ Entries(a) = Entries(stk[t]) /\ \A m : HasLock(stk[t], m) => HasLock(a, m)
      /\ Making(prog, a) => Making(prog, stk[t])
  BY <1>1, LocksAdvanced
<1>3. stk' = [stk EXCEPT ![t] = a]
  OBVIOUS
<1> HIDE DEF a
<1>4. prog.exports # {} /\ Locks(prog) => Entries(a) \subseteq {1}
  BY <1>2, EntriesOne
<1> QED
  BY <1>2, <1>3, <1>4, LockStep

\* An entry is left only where its thread holds no mutex; the function on top of
\* a lock returns to it.
LEMMA LockCut ==
  ASSUME HostInv, LockInv, NEW t \in Thread, Cuts(t), UNCHANGED <<prog, owner>>
  PROVE  LockInv'
<1> DEFINE s == stk[t]
           n == Len(s)
<1>1. PICK q \in 0 .. n :
        /\ q + 1 \in Entries(s) \/ (q = n - 1 /\ s[n].k = "fn")
        /\ stk' = [stk EXCEPT ![t] = SubSeq(s, 1, q)]
  BY DEF Cuts
<1> DEFINE r == SubSeq(s, 1, q)
<1>2. s \in Seq(FrameSet(prog))
  BY DEF HostInv, HostType
<1>3. n \in Nat /\ DOMAIN s = 1 .. n
  BY <1>2, StackFacts
<1>4. /\ Entries(r) \subseteq Entries(s) /\ (Making(prog, r) => Making(prog, s))
      /\ \A i \in 1 .. q : s[i].k = "lock" => HasLock(r, s[i].m)
      /\ q = 0 => ~Making(prog, r)
  BY <1>2, LocksCut
<1>5. stk' = [stk EXCEPT ![t] = r]
  BY <1>1
<1> HIDE DEF r
<1>6. ASSUME q = n - 1, s[n].k = "fn", NEW m, HasLock(s, m) PROVE HasLock(r, m)
  <2>1. PICK i \in 1 .. n : s[i].k = "lock" /\ s[i].m = m
    BY <1>3, <1>6 DEF HasLock
  <2>2. i # n
    BY <1>6, <2>1
  <2>3. i \in 1 .. q
    BY <1>3, <1>6, <2>2
  <2> QED
    BY <1>4, <2>1, <2>3
<1>7. prog.exports = {} => q + 1 \notin Entries(s)
  <2>1. ASSUME q + 1 \in Entries(s) PROVE prog.exports # {}
    <3>1. s[q + 1] \in FrameSet(prog) /\ s[q + 1].k = "entry"
      BY <1>2, <1>3, <2>1, StackFacts DEF Entries
    <3> QED
      BY <3>1, FrameFacts
  <2> QED
    BY <2>1
<1>8. prog.exports # {} /\ Locks(prog) => Entries(s) \subseteq {1}
  BY EntriesOne
<1>9. ASSUME NEW m \in Thread \X {"m"}, owner[m] = t, HasLock(s, m)
      PROVE  HasLock(r, m) \/ (prog.exports # {} /\ ~Making(prog, r))
  <2>1. CASE q = n - 1 /\ s[n].k = "fn"
    BY <1>6, <1>9, <2>1
  <2>2. CASE q + 1 \in Entries(s)
    <3>1. prog.exports # {}
      BY <1>7, <2>2
    <3>2. Locks(prog)
      <4>1. PICK u \in Thread : m = <<u, "m">>
        OBVIOUS
      <4>2. owner[m] # NoThread
        BY <1>9, HostBounds DEF NoThread
      <4> QED
        BY <3>1, <4>1, <4>2 DEF LockInv, OwnLock
    <3>3. q + 1 = 1
      BY <1>8, <2>2, <3>1, <3>2
    <3>4. q = 0
      BY <1>3, <3>3
    <3> QED
      BY <1>4, <3>1, <3>4
  <2> QED
    BY <1>1, <2>1, <2>2
<1> HIDE DEF s, n
<1>10. prog.exports # {} /\ Locks(prog) => Entries(r) \subseteq {1}
  BY <1>4, <1>8
<1> QED
  BY <1>4, <1>5, <1>9, <1>10, LockStep DEF s

\* What is at the top of a thread that is at an operation.
LEMMA LockAt ==
  ASSUME HostInv, LockInv, NEW t \in Thread, NEW ops, At(t, ops)
  PROVE  LET a == Advanced(stk[t])
         IN  /\ a \in Seq(FrameSet(prog)) /\ Len(a) \in Nat \ {0} /\ DOMAIN a = 1 .. Len(a)
             /\ Entries(a) = Entries(stk[t])
             /\ \A m : HasLock(stk[t], m) => HasLock(a, m)
             /\ Making(prog, a) => Making(prog, stk[t]) \/ (Op(t).op = "mutex" /\ Op(t).m = "mine")
             /\ stk[t] # <<>> /\ stk[t][Len(stk[t])].k = "fn"
             /\ Op(t) = Body(prog, stk[t][Len(stk[t])].f)[stk[t][Len(stk[t])].pc]
             /\ Top(t).f \in Fns(prog) /\ Op(t) \in Ops(prog, Top(t).f) /\ Op(t).op \in ops
             /\ Op(t) \in Operation(prog) /\ WellFormed(prog)
<1>1. /\ stk[t] # <<>> /\ Top(t) = stk[t][Len(stk[t])] /\ Top(t).k = "fn"
      /\ Op(t) = Code(prog, stk[t], Len(stk[t]))[Top(t).pc] /\ Op(t) \in Operation(prog)
  BY AtFacts
<1>2. stk[t] \in Seq(FrameSet(prog)) /\ WellFormed(prog)
  BY Same DEF HostInv, HostType
<1>3. Op(t) \in Ops(prog, Top(t).f) /\ Top(t).f \in Fns(prog) /\ Op(t).op \in ops
  BY OpIn
<1>4. stk[t][Len(stk[t])].k = "fn" /\ Op(t) = Body(prog, stk[t][Len(stk[t])].f)[stk[t][Len(stk[t])].pc]
  BY <1>1 DEF Code
<1> DEFINE a == Advanced(stk[t])
<1>5. a \in Seq(FrameSet(prog)) /\ Len(a) = Len(stk[t]) /\ Len(a) \in Nat \ {0}
  BY <1>1, <1>2, <1>4, Stepped
<1>6. /\ Entries(a) = Entries(stk[t])
      /\ \A m : HasLock(stk[t], m) => HasLock(a, m)
      /\ Making(prog, a) => Making(prog, stk[t]) \/ (Op(t).op = "mutex" /\ Op(t).m = "mine")
  BY <1>1, <1>2, <1>4, LocksAdvanced
<1> HIDE DEF a
<1>7. DOMAIN a = 1 .. Len(a)
  BY <1>5, StackFacts
<1> QED
  BY <1>1, <1>2, <1>3, <1>4, <1>5, <1>6, <1>7 DEF a

LEMMA LockPlain ==
  ASSUME HostInv, LockInv, NEW t \in Thread, Plain(t)
  PROVE  LockInv'
<1> DEFINE a == Advanced(stk[t])
           n == Len(a)
           x == FnFrame(Op(t).f)
           r == Append(a, x)
<1>1. UNCHANGED <<prog, owner>>
  BY DEF Plain
<1>2. CASE At(t, {"write", "mutate", "read", "touch", "direct"}) /\ Advance(t)
  <2>1. stk' = [stk EXCEPT ![t] = Advanced(stk[t])]
    BY <1>2 DEF Advance
  <2>2. At(t, {"write", "mutate", "read", "touch", "direct"})
    BY <1>2
  <2>3. /\ stk[t] # <<>> /\ stk[t][Len(stk[t])].k = "fn"
        /\ Body(prog, stk[t][Len(stk[t])].f)[stk[t][Len(stk[t])].pc].op \in {"write", "mutate", "read", "touch", "direct"}
    BY <2>2, LockAt
  <2> QED
    BY <1>1, <2>1, <2>3, LockAdvance
<1>3. CASE At(t, {"call", "new", "value"}) /\ Call(t, Op(t).f)
  <2>1. stk' = [stk EXCEPT ![t] = r] /\ At(t, {"call", "new", "value"})
    BY <1>3 DEF Call
  <2> HIDE DEF a
  <2>2. /\ a \in Seq(FrameSet(prog)) /\ n \in Nat /\ DOMAIN a = 1 .. n
        /\ Entries(a) = Entries(stk[t])
        /\ \A m : HasLock(stk[t], m) => HasLock(a, m)
        /\ Making(prog, a) => Making(prog, stk[t]) \/ (Op(t).op = "mutex" /\ Op(t).m = "mine")
        /\ Op(t).op \in {"call", "new", "value"} /\ Op(t) \in Operation(prog) /\ WellFormed(prog)
    BY <2>1, LockAt DEF a
  <2>3. Op(t).f \in Fns(prog)
    BY <2>2, OperationFacts
  <2>4. x \in FrameSet(prog) /\ x.k = "fn" /\ x.pc = 1
    BY <2>3, FrameMade
  <2> HIDE DEF x
  <2>5. r \in Seq(FrameSet(prog)) /\ Len(r) = n + 1 /\ r[n + 1] = x /\ \A i \in 1 .. n : r[i] = a[i]
    BY <2>2, <2>4, AppendProperties
  <2> HIDE DEF r, n
  <2>6. DOMAIN r = 1 .. n + 1
    BY <2>2, <2>5, StackFacts
  <2>7. /\ \A m : HasLock(a, m) => HasLock(r, m)
        /\ Making(prog, r) => Making(prog, a)
        /\ Entries(r) = Entries(a)
    <3>1. n \in Nat /\ DOMAIN a = 1 .. n /\ (\A i \in 1 .. n : r[i] = a[i])
          /\ r[n + 1].k = "fn" /\ r[n + 1].pc = 1
      BY <2>2, <2>4, <2>5
    <3> QED
      BY <2>6, <3>1, LocksPushed, Zenon
  <2>8. prog.exports # {} /\ Locks(prog) => Entries(r) \subseteq {1}
    BY <2>2, <2>7, EntriesOne
  <2>9. Making(prog, r) => Making(prog, stk[t])
    BY <2>2, <2>7
  <2> QED
    BY <1>1, <2>1, <2>2, <2>7, <2>8, <2>9, LockStep
<1> QED
  BY <1>2, <1>3 DEF Plain

-----------------------------------------------------------------------------
LEMMA LocksTwo ==
  ASSUME NEW P, NEW s \in Seq(FrameSet(P)), NEW e \in FrameSet(P), NEW x \in FrameSet(P),
         e.k # "fn", x.k = "fn", x.pc = 1
  PROVE  LET r == s \o <<e, x>>
         IN  /\ \A m : HasLock(s, m) => HasLock(r, m)
             /\ Making(P, r) => Making(P, s)
             /\ e.k = "lock" => Entries(r) = Entries(s) /\ HasLock(r, e.m)
<1> DEFINE r == s \o <<e, x>>
           n == Len(s)
           l == n + 2
<1>1. /\ r \in Seq(FrameSet(P)) /\ Len(r) = l /\ r[n + 1] = e /\ r[l] = x
      /\ \A i \in 1 .. n : r[i] = s[i]
  BY PushedTwo
<1>2. n \in Nat /\ DOMAIN s = 1 .. n
  BY StackFacts
<1> HIDE DEF r, n
<1>3. l \in Nat /\ n + 1 \in 1 .. l /\ l # n + 1
  BY <1>2
<1>4. l = n + 2
  OBVIOUS
<1> HIDE DEF l
<1>5. DOMAIN r = 1 .. l
  BY <1>1, StackFacts
<1>6. \A i \in 1 .. l : i \in 1 .. n \/ i = l \/ i = n + 1
  BY <1>2, <1>4
<1>7. \A i \in 1 .. n : i \in 1 .. l
  BY <1>2, <1>4
<1>8. \A m : HasLock(s, m) => HasLock(r, m)
  BY <1>1, <1>2, <1>5, <1>7 DEF HasLock
<1>9. ASSUME Making(P, r) PROVE Making(P, s)
  <2>1. PICK i \in 1 .. l : r[i].k = "fn" /\ Makes(P, r[i].f, r[i].pc)
    BY <1>5, <1>9 DEF Making
  <2>2. i # n + 1
    BY <1>1, <2>1
  <2>3. i # l
    BY <1>1, <2>1 DEF Makes
  <2> QED
    BY <1>1, <1>2, <1>6, <2>1, <2>2, <2>3 DEF Making
<1>10. ASSUME e.k = "lock" PROVE Entries(r) = Entries(s) /\ HasLock(r, e.m)
  <2>1. \A i \in 1 .. l : r[i].k = "entry" => i \in 1 .. n
    BY <1>1, <1>6, <1>10
  <2>2. Entries(r) = Entries(s)
    BY <1>1, <1>2, <1>5, <1>7, <2>1 DEF Entries
  <2> QED
    BY <1>1, <1>3, <1>5, <1>10, <2>2 DEF HasLock
<1> QED
  BY <1>8, <1>9, <1>10 DEF r

\* An entry is entered from outside, or by a function that calls C code: then
\* nothing is locked, or nothing is exported.
LEMMA LockEnters ==
  ASSUME HostInv, LockInv, LockSafe(prog), NEW t \in Thread, HostCalls(t) \/ CalledBack(t)
  PROVE  LockInv'
<1>1. UNCHANGED <<prog, owner>>
  BY DEF HostCalls, CalledBack
<1>2. PICK f \in prog.exports, a \in Seq(FrameSet(prog)) :
        /\ Enter(t, f, a)
        /\ \A m : HasLock(stk[t], m) => HasLock(a, m)
        /\ Making(prog, a) => Making(prog, stk[t])
        /\ a = <<>> \/ ~Locks(prog)
  <2>1. CASE HostCalls(t)
    <3>1. PICK f \in prog.calls[t] : Enter(t, f, <<>>) /\ t \in prog.starts /\ stk[t] = <<>>
      BY <2>1 DEF HostCalls
    <3>2. f \in prog.exports /\ <<>> \in Seq(FrameSet(prog))
      BY <3>1, Same DEF WellFormed
    <3> QED
      BY <3>1, <3>2
  <2>2. CASE CalledBack(t)
    <3> DEFINE a == Advanced(stk[t])
    <3>1. At(t, {"callout"}) /\ Enter(t, Op(t).f, a)
      BY <2>2 DEF CalledBack
    <3>2. /\ a \in Seq(FrameSet(prog)) /\ \A m : HasLock(stk[t], m) => HasLock(a, m)
          /\ Making(prog, a) => Making(prog, stk[t]) \/ (Op(t).op = "mutex" /\ Op(t).m = "mine")
          /\ Op(t) \in Operation(prog) /\ WellFormed(prog)
          /\ Top(t).f \in Fns(prog) /\ Op(t) \in Ops(prog, Top(t).f) /\ Op(t).op \in {"callout"}
      BY <3>1, LockAt
    <3> HIDE DEF a
    <3>3. Op(t).f \in prog.exports
      BY <3>2, OperationFacts
    <3>4. ~Locks(prog)
      BY <3>2, <3>3 DEF LockSafe
    <3> QED
      BY <3>1, <3>2, <3>3, <3>4
  <2> QED
    BY <2>1, <2>2
<1> DEFINE e == Entry(t, f)
           x == FnFrame(f)
           r == a \o <<e, x>>
<1>3. stk' = [stk EXCEPT ![t] = r]
  BY <1>2 DEF Enter
<1>4. WellFormed(prog) /\ guard[t] \in Nat /\ scopes[t] \in Seq(ScopeSet)
  BY Same DEF HostInv, HostType
<1>5. Len(scopes[t]) \in Nat
  BY <1>4, StackFacts
<1>6. e \in FrameSet(prog) /\ e.k = "entry"
  BY <1>4, <1>5, FrameMade DEF Entry
<1>7. f \in Fns(prog)
  BY <1>4 DEF WellFormed
<1>8. x \in FrameSet(prog) /\ x.k = "fn" /\ x.pc = 1
  BY <1>7, FrameMade
<1> HIDE DEF e, x
<1>9. (\A m : HasLock(a, m) => HasLock(r, m)) /\ (Making(prog, r) => Making(prog, a))
  BY <1>6, <1>8, LocksTwo
<1>10. a = <<>> => Entries(r) \subseteq {1}
  <2>1. <<>> \o <<e, x>> = <<e, x>> /\ DOMAIN <<e, x>> = {1, 2} /\ <<e, x>>[2] = x
    OBVIOUS
  <2> QED
    BY <1>8, <2>1 DEF Entries
<1> HIDE DEF r
<1> QED
  BY <1>1, <1>2, <1>3, <1>9, <1>10, LockStep

LEMMA LockSpawn ==
  ASSUME HostInv, LockInv, NEW t \in Thread, Spawn(t)
  PROVE  LockInv'
<1> DEFINE c == CHOOSE c \in Thread \ born : TRUE
           a == Advanced(stk[t])
           x == FnFrame(Op(t).f)
<1>1. /\ At(t, {"spawn"}) /\ Thread \ born # {}
      /\ stk' = [stk EXCEPT ![t] = a, ![c] = <<x>>] /\ UNCHANGED <<prog, owner>>
  BY DEF Spawn
<1>2. c \in Thread /\ c \notin born
  BY <1>1
<1> HIDE DEF c
<1>3. stk[c] = <<>> /\ DOMAIN stk = Thread
  BY <1>2, Same DEF HostInv, HostType
<1>4. /\ \A m : HasLock(stk[t], m) => HasLock(a, m)
      /\ Making(prog, a) => Making(prog, stk[t]) \/ (Op(t).op = "mutex" /\ Op(t).m = "mine")
      /\ Entries(a) = Entries(stk[t])
      /\ Op(t) \in Operation(prog) /\ Op(t).op \in {"spawn"} /\ WellFormed(prog)
  <2>1. At(t, {"spawn"})
    BY <1>1
  <2> HIDE DEF a
  <2> QED
    BY <2>1, LockAt DEF a
<1>5. Op(t).f \in Fns(prog)
  BY <1>4, OperationFacts
<1>6. x.k = "fn" /\ x.pc = 1
  BY <1>5, FrameMade
<1> HIDE DEF a, x
<1>7. ~Making(prog, <<x>>) /\ Entries(<<x>>) = {} /\ \A m : ~HasLock(stk[c], m)
  <2>1. DOMAIN <<x>> = {1} /\ <<x>>[1] = x
    OBVIOUS
  <2>2. \A g : ~Makes(prog, g, 1)
    BY DEF Makes
  <2>3. \A m : ~HasLock(stk[c], m)
    BY <1>3 DEF HasLock
  <2> QED
    BY <1>6, <2>1, <2>2, <2>3 DEF Making, Entries
<1>8. \A u \in Thread : /\ u = c => stk'[u] = <<x>>
                        /\ u # c /\ u = t => stk'[u] = a
                        /\ u # c /\ u # t => stk'[u] = stk[u]
  BY <1>1, <1>3
<1>9. CASE prog.exports = {}
  <2>1. ASSUME NEW m \in Thread \X {"m"}, owner[m] # NoThread PROVE HasLock(stk'[owner[m]], m)
    <3>1. owner[m] \in Thread /\ HasLock(stk[owner[m]], m)
      BY <1>9, <2>1, Same DEF LockInv
    <3>2. owner[m] # c
      BY <1>7, <3>1
    <3> QED
      BY <1>4, <1>8, <3>1, <3>2
  <2> QED
    BY <1>1, <1>9, <2>1 DEF LockInv
<1>10. CASE prog.exports # {}
  <2>1. ASSUME NEW u \in Thread PROVE OwnLock(prog, u, stk'[u], owner[<<u, "m">>])
    <3>1. OwnLock(prog, u, stk[u], owner[<<u, "m">>])
      BY <1>10 DEF LockInv
    <3>2. CASE u = c
      BY <1>7, <1>8, <3>1, <3>2 DEF OwnLock
    <3>3. CASE u # c /\ u = t
      BY <1>4, <1>8, <3>1, <3>3 DEF OwnLock
    <3>4. CASE u # c /\ u # t
      BY <1>8, <3>1, <3>4
    <3> QED
      BY <3>2, <3>3, <3>4
  <2> QED
    BY <1>1, <1>10, <2>1 DEF LockInv
<1> QED
  BY <1>9, <1>10

LEMMA LockNewMutex ==
  ASSUME HostInv, LockInv, NEW t \in Thread, NewMutex(t)
  PROVE  LockInv'
<1> DEFINE o == Op(t)
           x == Mutex(t, o)
           a == Advanced(stk[t])
<1>1. /\ At(t, {"mutex"}) /\ stk' = [stk EXCEPT ![t] = a]
      /\ owner' = [owner EXCEPT ![x] = NoThread] /\ UNCHANGED prog
  BY DEF NewMutex, Advance
<1>2. x \in Thread \X {"m"}
  BY HostBounds DEF Mutex
<1>3. /\ Entries(a) = Entries(stk[t]) /\ \A m : HasLock(stk[t], m) => HasLock(a, m)
      /\ Making(prog, a) => Making(prog, stk[t]) \/ (o.op = "mutex" /\ o.m = "mine")
  <2>1. At(t, {"mutex"})
    BY <1>1
  <2> HIDE DEF a, o
  <2> QED
    BY <2>1, LockAt DEF a, o
<1> HIDE DEF a
<1>4. owner'[x] = NoThread /\ \A m \in Thread \X {"m"} : m # x => owner'[m] = owner[m]
  BY <1>1, <1>2, Same
<1>5. o.m = "mine" => x = <<t, "m">>
  BY DEF Mutex
<1> HIDE DEF x, o
<1>6. prog.exports # {} /\ Locks(prog) => Entries(a) \subseteq {1}
  BY <1>3, EntriesOne
<1>7. Making(prog, a) => Making(prog, stk[t]) \/ owner'[<<t, "m">>] = NoThread
  BY <1>3, <1>4, <1>5
<1> QED
  BY <1>1, <1>3, <1>4, <1>6, <1>7, LockStep

LEMMA LockLock ==
  ASSUME HostInv, LockInv, LockSafe(prog), NEW t \in Thread, Lock(t)
  PROVE  LockInv'
<1> DEFINE o == Op(t)
           m == Mutex(t, o)
           a == Advanced(stk[t])
           l == [k |-> "lock", m |-> m]
           x == FnFrame(o.f)
           r == a \o <<l, x>>
<1>1. /\ At(t, {"lock"}) /\ owner' = [owner EXCEPT ![m] = t]
      /\ stk' = [stk EXCEPT ![t] = r] /\ UNCHANGED prog
  BY DEF Lock
<1>2. m \in Thread \X {"m"}
  BY HostBounds DEF Mutex
<1> HIDE DEF m, a, o
<1>3. /\ a \in Seq(FrameSet(prog)) /\ Entries(a) = Entries(stk[t])
      /\ \A k : HasLock(stk[t], k) => HasLock(a, k)
      /\ Making(prog, a) => Making(prog, stk[t]) \/ (o.op = "mutex" /\ o.m = "mine")
      /\ Top(t).f \in Fns(prog) /\ o \in Ops(prog, Top(t).f) /\ o.op = "lock"
      /\ o \in Operation(prog) /\ WellFormed(prog)
  BY <1>1, LockAt DEF a, o
<1>4. o.f \in Fns(prog)
  BY <1>3, OperationFacts
<1>5. x \in FrameSet(prog) /\ x.k = "fn" /\ x.pc = 1 /\ l \in FrameSet(prog) /\ l.k = "lock" /\ l.m = m
  BY <1>2, <1>4, FrameMade
<1> HIDE DEF x, l
<1>6. /\ \A k : HasLock(a, k) => HasLock(r, k)
      /\ Making(prog, r) => Making(prog, a)
      /\ Entries(r) = Entries(a) /\ HasLock(r, m)
  BY <1>3, <1>5, LocksTwo
<1> HIDE DEF r
<1>7. Locks(prog)
  BY <1>3 DEF Locks
<1>8. prog.exports # {} => m = <<t, "m">>
  <2>1. prog.exports # {} => o.m = "mine"
    BY <1>3 DEF LockSafe, Ops
  <2> QED
    BY <2>1 DEF Mutex, m
<1>9. owner'[m] = t /\ \A k \in Thread \X {"m"} : k # m => owner'[k] = owner[k]
  BY <1>1, <1>2, Same
<1>10. prog.exports # {} /\ Locks(prog) => Entries(r) \subseteq {1}
  BY <1>3, <1>6, EntriesOne
<1>11. Making(prog, r) => Making(prog, stk[t])
  BY <1>3, <1>6
<1>12. \A k : HasLock(stk[t], k) => HasLock(r, k)
  BY <1>3, <1>6
<1> QED
  BY <1>1, <1>6, <1>7, <1>8, <1>9, <1>10, <1>11, <1>12, LockStep

LEMMA LockUnlock ==
  ASSUME HostInv, LockInv, NEW t \in Thread, Unlock(t)
  PROVE  LockInv'
<1> DEFINE s == stk[t]
           n == Len(s)
           q == n - 1
           r == SubSeq(s, 1, q)
           x == s[n].m
<1>1. /\ s # <<>> /\ Top(t).k = "lock" /\ stk' = [stk EXCEPT ![t] = r]
      /\ owner' = [owner EXCEPT ![Top(t).m] = NoThread] /\ UNCHANGED prog
  BY DEF Unlock, Front
<1>2. s \in Seq(FrameSet(prog))
  BY DEF HostInv, HostType
<1>3. n \in Nat \ {0} /\ DOMAIN s = 1 .. n /\ Top(t) = s[n] /\ s[n] \in FrameSet(prog)
  BY <1>1, <1>2, StackFacts DEF Top
<1>4. s[n].k = "lock" /\ x \in Thread \X {"m"} /\ owner' = [owner EXCEPT ![x] = NoThread]
  BY <1>1, <1>3, FrameFacts
<1>5. q \in 0 .. n /\ \A i \in 1 .. n : i # n => i \in 1 .. q
  BY <1>3
<1>6. /\ Entries(r) \subseteq Entries(s) /\ (Making(prog, r) => Making(prog, s))
      /\ \A i \in 1 .. q : s[i].k = "lock" => HasLock(r, s[i].m)
  <2> HIDE DEF q, s
  <2> QED
    BY <1>2, <1>5, LocksCut
<1> HIDE DEF r
<1>7. \A m : m # x /\ HasLock(s, m) => HasLock(r, m)
  <2> SUFFICES ASSUME NEW m, m # x, HasLock(s, m) PROVE HasLock(r, m)
    OBVIOUS
  <2> HIDE DEF n, q
  <2>1. PICK i \in 1 .. n : s[i].k = "lock" /\ s[i].m = m
    BY <1>3 DEF HasLock
  <2> QED
    BY <1>5, <1>6, <2>1
<1>8. owner'[x] = NoThread /\ \A m \in Thread \X {"m"} : m # x => owner'[m] = owner[m]
  BY <1>4, Same
<1> HIDE DEF x, n, q
<1>9. prog.exports # {} /\ Locks(prog) => Entries(r) \subseteq {1}
  BY <1>6, EntriesOne
<1> QED
  BY <1>1, <1>6, <1>7, <1>8, <1>9, LockStep

-----------------------------------------------------------------------------
LEMMA LockInit ==
  ASSUME Init
  PROVE  LockInv
<1>1. /\ owner = [m \in Thread \X {"m"} |-> NoThread]
      /\ stk = [t \in Thread |-> IF t \in prog.starts \cap {"main"} THEN <<FnFrame("main")>> ELSE <<>>]
  BY DEF Init
<1>2. ASSUME NEW t \in Thread PROVE Entries(stk[t]) = {}
  <2>1. DOMAIN <<FnFrame("main")>> = {1} /\ <<FnFrame("main")>>[1].k = "fn"
    BY DEF FnFrame
  <2>2. Entries(<<FnFrame("main")>>) = {} /\ Entries(<<>>) = {}
    BY <2>1 DEF Entries
  <2> QED
    BY <1>1, <2>2
<1> QED
  BY <1>1, <1>2 DEF LockInv, OwnLock

LEMMA LockNext ==
  ASSUME HostInv, LockInv, LockSafe(prog), [Next]_vars
  PROVE  LockInv'
<1>1. CASE External \/ UNCHANGED vars
  <2>1. UNCHANGED <<prog, stk, owner>>
    BY <1>1 DEF External, vars, hostVars
  <2> QED
    BY <2>1, LockSame
<1>2. ASSUME NEW t \in Thread, Do(t) \/ NoMemory(t) PROVE LockInv'
  <2>1. CASE Plain(t) \/ HostCalls(t) \/ CalledBack(t)
    BY <2>1, LockPlain, LockEnters
  <2>2. CASE Return(t) \/ Raises(t) \/ NetRaises(t)
    <3>1. UNCHANGED <<prog, owner>>
      BY <2>2 DEF Return, Raises, NetRaises
    <3>2. Cuts(t)
      BY <2>2, ReturnStep, RaisesStep, NetRaisesStep
    <3> QED
      BY <3>1, <3>2, LockCut
  <2>3. CASE Panics(t) \/ CopyFails(t)
    <3>1. UNCHANGED <<prog, owner>>
      BY <2>3 DEF Panics, CopyFails
    <3>2. stk' = stk \/ Cuts(t)
      BY <2>3, PanicsStep
    <3> QED
      BY <3>1, <3>2, LockCut, LockSame
  <2>4. CASE OpenScope(t) \/ CloseScope(t) \/ Join(t) \/ Closes(t)
    <3>1. stk' = [stk EXCEPT ![t] = Advanced(stk[t])] /\ UNCHANGED <<prog, owner>>
      BY <2>4 DEF OpenScope, CloseScope, Join, Closes, Advance
    <3>2. At(t, {"scope", "unscope", "join", "close"})
      BY <2>4 DEF OpenScope, CloseScope, Join, Closes, At
    <3>3. /\ stk[t] # <<>> /\ stk[t][Len(stk[t])].k = "fn"
          /\ Body(prog, stk[t][Len(stk[t])].f)[stk[t][Len(stk[t])].pc].op
               \in {"scope", "unscope", "join", "close"}
      BY <3>2, LockAt
    <3> QED
      BY <3>1, <3>3, LockAdvance
  <2>5. CASE NetReturns(t)
    <3>1. stk' = [stk EXCEPT ![t] = Advanced(stk[t])] /\ UNCHANGED <<prog, owner>>
          /\ net[t].fn \in {"returned", "raised"}
      BY <2>5 DEF NetReturns, Advance
    <3>2. /\ stk[t] # <<>> /\ stk[t][Len(stk[t])].k = "fn"
          /\ Body(prog, stk[t][Len(stk[t])].f)[stk[t][Len(stk[t])].pc].op \in NetOps
      BY <3>1, NetBusy DEF Calling, Code
    <3>3. "mutex" \notin NetOps
      BY DEF NetOps
    <3> QED
      BY <3>1, <3>2, <3>3, LockAdvance
  <2>6. CASE StartsNet(t) \/ InNet(t) \/ NoMemory(t)
    <3>1. UNCHANGED <<prog, stk, owner>>
      BY <2>6 DEF StartsNet, InNet, NoMemory, hostVars
    <3> QED
      BY <3>1, LockSame
  <2>7. CASE Spawn(t) \/ NewMutex(t) \/ Lock(t) \/ Unlock(t)
    BY <2>7, LockSpawn, LockNewMutex, LockLock, LockUnlock
  <2> QED
    BY <1>2, <2>1, <2>2, <2>3, <2>4, <2>5, <2>6, <2>7 DEF Do
<1> QED
  BY <1>1, <1>2 DEF Next

\* Nobody waits for a mutex whose holder has left the lock without unlocking it:
\* not where nothing is exported (a panic ends the process), and not where a
\* function locks only mutexes it has made itself and is not called back by C
\* (pl_mutex_with, pl_hook_panic).
THEOREM HeldLocks ==
  ASSUME \A P \in Families : Accepted(P) => LockSafe(P)
  PROVE  Spec => []LockHeld
<1>1. ASSUME HostInv PROVE LockSafe(prog)
  BY <1>1 DEF HostInv, HostType
<1>2. Init => LockInv
  BY LockInit
<1>3. HostInv /\ LockInv /\ [Next]_vars => LockInv'
  BY <1>1, LockNext
<1>4. ASSUME HostInv, LockInv PROVE LockHeld
  <2> SUFFICES ASSUME NEW t \in Thread, At(t, {"lock"}), owner[Mutex(t, Op(t))] # NoThread
               PROVE  HasLock(stk[owner[Mutex(t, Op(t))]], Mutex(t, Op(t)))
    BY DEF LockHeld, HasLock
  <2> DEFINE m == Mutex(t, Op(t))
  <2>1. m \in Thread \X {"m"}
    BY HostBounds DEF Mutex
  <2>2. CASE prog.exports = {}
    BY <1>4, <2>1, <2>2 DEF LockInv
  <2>3. CASE prog.exports # {}
    <3>1. /\ Top(t).f \in Fns(prog) /\ Op(t).op = "lock" /\ Op(t) = Body(prog, Top(t).f)[Top(t).pc]
          /\ Len(stk[t]) \in DOMAIN stk[t] /\ stk[t][Len(stk[t])] = Top(t) /\ Top(t).k = "fn"
          /\ Top(t).pc \in DOMAIN Body(prog, Top(t).f)
      <4>1. /\ stk[t] # <<>> /\ Len(stk[t]) \in Nat \ {0} /\ Top(t) = stk[t][Len(stk[t])]
            /\ Top(t).k = "fn" /\ Top(t).f \in Fns(prog)
            /\ Top(t).pc \in Nat /\ Top(t).pc >= 1 /\ Top(t).pc <= Len(Code(prog, stk[t], Len(stk[t])))
            /\ Op(t) = Code(prog, stk[t], Len(stk[t]))[Top(t).pc] /\ Op(t).op \in {"lock"}
        BY <1>4, AtFacts
      <4>2. Code(prog, stk[t], Len(stk[t])) = Body(prog, Top(t).f)
        BY <4>1 DEF Code
      <4>3. Body(prog, Top(t).f) \in Seq(Operation(prog)) /\ stk[t] \in Seq(FrameSet(prog))
        BY <1>4, <4>1, Same DEF WellFormed, HostInv, HostType
      <4>4. DOMAIN Body(prog, Top(t).f) = 1 .. Len(Body(prog, Top(t).f))
            /\ DOMAIN stk[t] = 1 .. Len(stk[t])
        BY <4>3, StackFacts
      <4>5. Top(t).pc \in DOMAIN Body(prog, Top(t).f) /\ Len(stk[t]) \in DOMAIN stk[t]
        BY <4>1, <4>2, <4>3, <4>4, StackFacts
      <4> QED
        BY <4>1, <4>2, <4>5
    <3>2. LockSafe(prog)
      BY <1>1, <1>4
    <3>3. Op(t).m = "mine" /\ Makes(prog, Top(t).f, Top(t).pc)
      BY <2>3, <3>1, <3>2 DEF LockSafe
    <3>4. m = <<t, "m">>
      BY <3>3 DEF Mutex
    <3>5. Making(prog, stk[t])
      BY <3>1, <3>3 DEF Making
    <3>6. OwnLock(prog, t, stk[t], owner[<<t, "m">>])
      BY <1>4, <2>3 DEF LockInv
    <3> QED
      BY <3>4, <3>5, <3>6 DEF OwnLock
  <2> QED
    BY <2>2, <2>3
<1> QED
  BY <1>2, <1>3, <1>4, HostInvariant, PTL DEF Spec

=============================================================================
