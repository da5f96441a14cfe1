------------------------------ MODULE Sockets ------------------------------
(***************************************************************************)
(* The sockets of the hosted runtime (src/runtime/hosted.c) and the        *)
(* classes of lib/net.ys on top of them.  A system call is one step, since *)
(* that is where other threads and the peer come in between; the reason of *)
(* the last failure is kept for the whole process (g_sock_err,             *)
(* g_sock_timeout) and read back by last_error() in two further calls.     *)
(*                                                                         *)
(* A call that raises closes nothing.  Whether the program closes then,    *)
(* tries again on the same connection or forgets it is its own affair, and *)
(* so is a Conn that is overwritten while its descriptor is open.          *)
(*                                                                         *)
(* The network and the peer are external: an address may refuse, send may  *)
(* take a part only, an attempt may time out when a timeout is set.  A     *)
(* message is a sequence of units <<message, k>>, k in 1 .. Units.         *)
(***************************************************************************)
EXTENDS Naturals, Sequences, FiniteSets, SequencesExt

CONSTANTS
  Thread,     \* threads of the process
  Messages,   \* bound: messages a thread sends
  Addresses,  \* bound: addresses a name resolves to
  Units,      \* bound: units of a message
  Descriptors \* descriptors the process may have open

ASSUME SocketBounds ==
  Addresses \in Nat \ {0} /\ Units \in Nat \ {0} /\ Descriptors # {} /\ "none" \notin Descriptors

VARIABLES
  fds,    \* open descriptors: "listen" or "conn"; "" when closed
  peer,   \* of a descriptor: the units the peer has been handed, after how many of
          \* them a send failed inside a message, how many of its own are not read
          \* yet, whether it has closed, clients waiting
  sockerr,\* g_sock_err and g_sock_timeout
  writer, \* the thread whose call wrote them last
  net,    \* the socket function each thread is in
  cause,  \* what made that function fail, if it did
  caught, \* the NetError each thread has made of it
  conn,   \* Conn.fd and Listener.fd of each thread
  dropped,\* open descriptors whose Conn or Listener the program no longer has
  eof     \* the last recv of each thread returned ""

sockVars == <<fds, peer, sockerr, writer, net, cause, caught, conn, dropped, eof>>

NoError  == [why |-> "", timeout |-> FALSE]
Idle     == [fn |-> "idle"]
NoPeer   == [taken |-> <<>>, cuts |-> {}, inbox |-> 0, closed |-> FALSE, waiting |-> 0]
NoFd     == "none"

NoWriter == "nobody"

Message(m) == [k \in 1 .. Units |-> <<m, k>>]

InitSockets ==
  /\ fds     = [d \in Descriptors |-> ""]
  /\ peer    = [d \in Descriptors |-> NoPeer]
  /\ sockerr = NoError
  /\ writer  = NoWriter
  /\ dropped = {}
  /\ net     = [t \in Thread |-> Idle]
  /\ cause   = [t \in Thread |-> NoError]
  /\ caught  = [t \in Thread |-> NoError]
  /\ conn    = [t \in Thread |-> [listener |-> NoFd, conn |-> NoFd]]
  /\ eof     = [t \in Thread |-> FALSE]

\* Mutant of pl_sock_fail: the flag of an earlier timeout is left standing.
pl_sock_fail_sticky(what, timeout) ==
  [why |-> what, timeout |-> timeout \/ sockerr.timeout]

\* What a failed call leaves behind: its name and whether it timed out.
pl_sock_fail(what, timeout) == [why |-> what, timeout |-> timeout]

\* The call of thread t fails: it returns -1 (or None) to net.ys.
Fails(t, what, timeout) ==
  /\ sockerr' = pl_sock_fail(what, timeout)
  /\ writer'  = t
  /\ cause'   = [cause EXCEPT ![t] = [why |-> what, timeout |-> timeout]]
  /\ net'     = [net EXCEPT ![t] = [fn |-> "message"]]

\* It succeeds: pl_sock_ok wipes the last failure, whoever's it was.
Succeeds(t) ==
  /\ sockerr' = NoError
  /\ writer'  = t
  /\ net'     = [net EXCEPT ![t] = [fn |-> "returned"]]
  /\ UNCHANGED cause

FreeFd == {d \in Descriptors : fds[d] = ""}

Open(d, kind) ==
  /\ fds'  = [fds EXCEPT ![d] = kind]
  /\ peer' = [peer EXCEPT ![d] = NoPeer]

\* The new Conn or Listener takes the place of the one thread t had; nothing
\* closes the descriptor of that one.
Assign(t, var, d) ==
  /\ conn'    = [conn EXCEPT ![t][var] = d]
  /\ dropped' = dropped \cup ({conn[t][var]} \ {NoFd})

(***************************************************************************)
(* pl_sock_listen and pl_sock_connect: the addresses of the name are tried *)
(* in turn; a descriptor whose bind, listen or connect fails is closed     *)
(* before the next; only when all have failed is the last failure told.    *)
(***************************************************************************)
Resolving(t) == net[t].fn \in {"listen", "connect"}

\* Mutant of AddressRefused: the descriptor is not closed.
AddressRefusedKept(t) ==
  /\ Resolving(t) /\ net[t].left > 0
  /\ \E d \in FreeFd :
       /\ Open(d, IF net[t].fn = "listen" THEN "listen" ELSE "conn")
       /\ net' = [net EXCEPT ![t].left = @ - 1]
  /\ UNCHANGED <<sockerr, writer, cause, caught, conn, dropped, eof>>

AddressRefused(t) ==
  /\ Resolving(t) /\ net[t].left > 0
  /\ net' = [net EXCEPT ![t].left = @ - 1]
  /\ UNCHANGED <<fds, peer, sockerr, writer, cause, caught, conn, dropped, eof>>

AddressTaken(t) ==
  /\ Resolving(t) /\ net[t].left > 0
  /\ \E d \in FreeFd :
       LET kind == IF net[t].fn = "listen" THEN "listen" ELSE "conn"
           var  == IF net[t].fn = "listen" THEN "listener" ELSE "conn"
       IN  Open(d, kind) /\ Assign(t, var, d)
  /\ Succeeds(t)
  /\ UNCHANGED <<caught, eof>>

\* listen_backlog: the port of the new listener cannot be read (pl_sock_port);
\* the descriptor is closed, then the error is told.
PortFails(t) ==
  /\ net[t].fn = "listen" /\ net[t].left > 0 /\ FreeFd # {}
  /\ Fails(t, "getsockname", FALSE)
  /\ UNCHANGED <<fds, peer, caught, conn, dropped, eof>>

\* pl_sock_resolve fails: it leaves the message, but not the flag.
ResolveFails(t) ==
  /\ Resolving(t) /\ net[t].left = Addresses
  /\ sockerr' = [sockerr EXCEPT !.why = "resolve"]
  /\ writer'  = t
  /\ cause'   = [cause EXCEPT ![t] = [why |-> "resolve", timeout |-> FALSE]]
  /\ net'     = [net EXCEPT ![t] = [fn |-> "message"]]
  /\ UNCHANGED <<fds, peer, caught, conn, dropped, eof>>

NoAddressLeft(t) ==
  /\ Resolving(t) /\ net[t].left = 0
  /\ \E timeout \in BOOLEAN : Fails(t, net[t].fn, timeout)
  /\ UNCHANGED <<fds, peer, caught, conn, dropped, eof>>

(***************************************************************************)
(* pl_sock_accept: it waits by itself until a client has come or the time  *)
(* of SO_RCVTIMEO is over, whatever the system makes of that option.       *)
(***************************************************************************)
Accepting(t) == net[t].fn = "accept"

AcceptOne(t) ==
  LET l == conn[t].listener IN
  /\ Accepting(t) /\ peer[l].waiting > 0
  /\ \E d \in FreeFd :
       /\ fds'  = [fds EXCEPT ![d] = "conn"]
       /\ peer' = [peer EXCEPT ![l].waiting = @ - 1, ![d] = NoPeer]
       /\ Assign(t, "conn", d)
  /\ Succeeds(t)
  /\ UNCHANGED <<caught, eof>>

AcceptTimesOut(t) ==
  /\ Accepting(t) /\ peer[conn[t].listener].waiting = 0
  /\ Fails(t, "accept", TRUE)
  /\ UNCHANGED <<fds, peer, caught, conn, dropped, eof>>

\* The client has gone again between the wait and accept(), where the time may be
\* over too, or it still waits and there is no descriptor for it.
AcceptFails(t) ==
  /\ Accepting(t) /\ peer[conn[t].listener].waiting > 0
  /\ \E gone \in 0 .. 1, timeout \in BOOLEAN :
       /\ timeout => gone = 1
       /\ peer' = [peer EXCEPT ![conn[t].listener].waiting = @ - gone]
       /\ Fails(t, "accept", timeout)
  /\ UNCHANGED <<fds, caught, conn, dropped, eof>>

(***************************************************************************)
(* pl_sock_send: send() until everything is taken.  It may fail, or time   *)
(* out, when a part of the message has already been handed over.           *)
(***************************************************************************)
Sending(t) == net[t].fn = "send"
\* Mutant of Rest: every round sends from the start of the message.
RestFromStart(t) == SubSeq(Message(net[t].m), 1, Units - net[t].sent)

\* What send() has not taken yet.
Rest(t) == SubSeq(Message(net[t].m), net[t].sent + 1, Units)

SendSome(t) ==
  LET d == conn[t].conn IN
  /\ Sending(t) /\ net[t].sent < Units
  /\ \E k \in 1 .. Units - net[t].sent :
       /\ peer' = [peer EXCEPT ![d].taken = @ \o SubSeq(Rest(t), 1, k)]
       /\ net'  = [net EXCEPT ![t].sent = @ + k]
  /\ UNCHANGED <<fds, sockerr, writer, cause, caught, conn, dropped, eof>>

SendDone(t) ==
  /\ Sending(t) /\ net[t].sent = Units
  /\ Succeeds(t)
  /\ UNCHANGED <<fds, peer, caught, conn, dropped, eof>>

SendFails(t) ==
  LET d == conn[t].conn IN
  /\ Sending(t) /\ net[t].sent < Units
  /\ \E timeout \in BOOLEAN : Fails(t, "send", timeout)
  /\ peer' = IF net[t].sent = 0 THEN peer
             ELSE [peer EXCEPT ![d].cuts = @ \cup {Len(peer[d].taken)}]
  /\ UNCHANGED <<fds, caught, conn, dropped, eof>>

(***************************************************************************)
(* pl_sock_recv: a part of what has come, "" when the peer has closed and  *)
(* everything is read, None when it failed: it times out only where there  *)
(* is nothing to answer.                                                   *)
(***************************************************************************)
Receiving(t) == net[t].fn = "recv"

RecvSome(t) ==
  LET d == conn[t].conn IN
  /\ Receiving(t)
  /\ \E k \in 1 .. peer[d].inbox : peer' = [peer EXCEPT ![d].inbox = @ - k]
  /\ Succeeds(t)
  /\ UNCHANGED <<fds, caught, conn, dropped, eof>>

RecvEof(t) ==
  LET d == conn[t].conn IN
  /\ Receiving(t) /\ peer[d].inbox = 0 /\ peer[d].closed
  /\ eof' = [eof EXCEPT ![t] = TRUE]
  /\ Succeeds(t)
  /\ UNCHANGED <<fds, peer, caught, conn, dropped>>

\* Mutant of RecvFails: a time that is over is taken for the end of the stream.
RecvFailsAsEof(t) ==
  /\ Receiving(t) /\ peer[conn[t].conn].inbox = 0
  /\ eof' = [eof EXCEPT ![t] = TRUE]
  /\ Succeeds(t)
  /\ UNCHANGED <<fds, peer, caught, conn, dropped>>

\* Mutant of RecvFails: no timeout is set, the read waits for a silent peer.
RecvFailsNever(t) == FALSE

RecvFails(t) ==
  /\ Receiving(t)
  /\ \E timeout \in BOOLEAN :
       /\ timeout => peer[conn[t].conn].inbox = 0 /\ ~peer[conn[t].conn].closed
       /\ Fails(t, "recv", timeout)
  /\ UNCHANGED <<fds, peer, caught, conn, dropped, eof>>

\* No memory for the buffer: None, and nothing is said of the reason.
RecvNoMemory(t) ==
  /\ Receiving(t)
  /\ cause' = [cause EXCEPT ![t] = [why |-> "memory", timeout |-> FALSE]]
  /\ net'   = [net EXCEPT ![t] = [fn |-> "message"]]
  /\ UNCHANGED <<fds, peer, sockerr, writer, caught, conn, dropped, eof>>

\* last_error(): the message first, the flag in a second call.
ReadMessage(t) ==
  /\ net[t].fn = "message"
  /\ caught' = [caught EXCEPT ![t].why = sockerr.why]
  /\ net'    = [net EXCEPT ![t] = [fn |-> "flag"]]
  /\ UNCHANGED <<fds, peer, sockerr, writer, cause, conn, dropped, eof>>

ReadFlag(t) ==
  /\ net[t].fn = "flag"
  /\ caught' = [caught EXCEPT ![t].timeout = sockerr.timeout]
  /\ net'    = [net EXCEPT ![t] = [fn |-> "raised"]]
  /\ UNCHANGED <<fds, peer, sockerr, writer, cause, conn, dropped, eof>>

InCall(t) ==
  \/ ResolveFails(t) \/ AddressRefused(t) \/ AddressTaken(t) \/ PortFails(t) \/ NoAddressLeft(t)
  \/ AcceptOne(t) \/ AcceptTimesOut(t) \/ AcceptFails(t)
  \/ SendSome(t) \/ SendDone(t) \/ SendFails(t)
  \/ RecvSome(t) \/ RecvEof(t) \/ RecvFails(t)
  \/ ReadMessage(t) \/ ReadFlag(t)

\* The Conn or Listener that f is a method of is closed, or there is none yet.
Shut(t, f) ==
  \/ f = "accept" /\ conn[t].listener = NoFd
  \/ f \in {"send", "recv"} /\ conn[t].conn = NoFd

\* Begin(t, f, m): the thread calls Conn.f (or Listener.f), with message m to send.
Begin(t, f, m) ==
  /\ net[t] = Idle /\ ~Shut(t, f)
  /\ eof' = [eof EXCEPT ![t] = FALSE]
  /\ net' = [net EXCEPT ![t] =
       CASE f \in {"listen", "connect"} -> [fn |-> f, left |-> Addresses]
         [] f = "send"                  -> [fn |-> f, m |-> m, sent |-> 0]
         [] OTHER                       -> [fn |-> f]]
  /\ UNCHANGED <<fds, peer, sockerr, writer, cause, caught, conn, dropped>>

\* On a closed one it raises an error of its own, without any system call.
BeginShut(t, f) ==
  /\ net[t] = Idle /\ Shut(t, f)
  /\ eof'    = [eof EXCEPT ![t] = FALSE]
  /\ cause'  = [cause EXCEPT ![t] = [why |-> "closed", timeout |-> FALSE]]
  /\ caught' = [caught EXCEPT ![t] = [why |-> "closed", timeout |-> FALSE]]
  /\ net'    = [net EXCEPT ![t] = [fn |-> "raised"]]
  /\ UNCHANGED <<fds, peer, sockerr, writer, conn, dropped>>

\* Conn.close and Listener.close: each descriptor once, then it is -1.
Close(t) ==
  /\ fds'  = [d \in Descriptors |-> IF d \in {conn[t].conn, conn[t].listener} THEN "" ELSE fds[d]]
  /\ peer' = [d \in Descriptors |-> IF fds'[d] = "" THEN NoPeer ELSE peer[d]]
  /\ conn' = [conn EXCEPT ![t] = [listener |-> NoFd, conn |-> NoFd]]
  /\ UNCHANGED dropped

\* The Conn and the Listener of t are gone, and what is open of them stays open.
Forget(t) ==
  /\ conn'    = [conn EXCEPT ![t] = [listener |-> NoFd, conn |-> NoFd]]
  /\ dropped' = dropped \cup ({conn[t].conn, conn[t].listener} \ {NoFd})
  /\ UNCHANGED <<fds, peer, sockerr, writer, net, cause, caught, eof>>

\* The call has returned or raised; its connection is as it was.
Finish(t) ==
  /\ net[t].fn \in {"returned", "raised"}
  /\ net'    = [net EXCEPT ![t] = Idle]
  /\ caught' = [caught EXCEPT ![t] = NoError]
  /\ cause'  = [cause EXCEPT ![t] = NoError]
  /\ UNCHANGED <<fds, peer, sockerr, writer, conn, dropped, eof>>

\* External: clients come, the peer sends a unit or closes its side.
PeerActs ==
  /\ \E d \in Descriptors :
       \/ /\ fds[d] = "listen" /\ peer[d].waiting = 0
          /\ peer' = [peer EXCEPT ![d].waiting = 1]
       \/ /\ fds[d] = "conn" /\ ~peer[d].closed /\ peer[d].inbox < Units
          /\ peer' = [peer EXCEPT ![d].inbox = @ + 1]
       \/ /\ fds[d] = "conn" /\ ~peer[d].closed
          /\ peer' = [peer EXCEPT ![d].closed = TRUE]
  /\ UNCHANGED <<fds, sockerr, writer, net, cause, caught, conn, dropped, eof>>

(***************************************************************************)
(* Properties.                                                             *)
(***************************************************************************)

\* Unit i of a stream is where a message starts: the first one, or the one behind
\* the end of a message or behind the place where a send failed inside one.
Starts(p, i) == i = 1 \/ p.taken[i - 1][2] = Units \/ i - 1 \in p.cuts

\* A peer has been handed messages in one piece each, except where a send raised:
\* a message is broken off only there, and only there another one can start in the
\* middle of it.  What a send that returned has handed over is whole
\* (pl_sock_send: a part is not shown to the caller).
Framed ==
  \A d \in Descriptors : fds[d] = "conn" =>
    LET p == peer[d] IN
      /\ \A i \in DOMAIN p.taken :
           IF Starts(p, i) THEN p.taken[i][2] = 1
           ELSE p.taken[i] = <<p.taken[i - 1][1], p.taken[i - 1][2] + 1>>
      /\ \/ Starts(p, Len(p.taken) + 1)
         \/ \E t \in Thread : conn[t].conn = d /\ Sending(t)

\* The NetError a thread raises tells what made its own call fail, timeouts apart
\* from other failures, unless the call of another thread wrote the reason before
\* it was read (pl_sock_fail, last_error).  A recv that finds no memory leaves no
\* reason, and a name that does not resolve leaves the flag as it was.
NetErrorTrue ==
  \A t \in Thread : net[t].fn = "raised" /\ writer = t /\ cause[t].why # "memory" =>
    /\ caught[t].why = cause[t].why
    /\ cause[t].why # "resolve" => caught[t].timeout = cause[t].timeout

\* recv() returns "" only when the peer has closed and all it sent is read, also
\* when it is called again after a timeout (pl_sock_recv).
EofTrue ==
  \A t \in Thread : eof[t] /\ net[t].fn = "returned" =>
    peer[conn[t].conn].closed /\ peer[conn[t].conn].inbox = 0

\* Every open descriptor was given to the program, and is the Conn or Listener of
\* one thread unless the program has overwritten that: nothing tried and given up
\* on stays open, no failure takes a connection out of the program's hands, and no
\* two threads have the same (pl_sock_listen, pl_sock_connect, listen_backlog).
Has(t, d) == d \in {conn[t].listener, conn[t].conn}

DescriptorsHeld ==
  /\ \A d \in Descriptors : fds[d] # "" => d \in dropped \/ \E t \in Thread : Has(t, d)
  /\ \A t \in Thread, d \in Descriptors : Has(t, d) =>
       fds[d] # "" /\ d \notin dropped /\ \A u \in Thread \ {t} : ~Has(u, d)

\* A stream is what it looks like: messages in one piece unless a send raised, and
\* an end only where the peer has ended it.
StreamTrue ==
  /\ Framed
  /\ EofTrue
=============================================================================
