---------------------------- MODULE SocketDriver ----------------------------
(***************************************************************************)
(* The Berkeley-socket transport of src/src/mqtt_socket.c as the engine   *)
(* drives it: the file descriptors the driver opens, ctx->handle (one     *)
(* static socket_context per process, zero at start), the state of the    *)
(* peer behind each socket, and the receive buffers of mqtt_poll().  The  *)
(* session is reduced to what the driver's use depends on: stat->connected *)
(* and whether CONNACK is awaited.                                         *)
(*                                                                         *)
(* Each action is one engine function with every net-API call it makes.   *)
(* Paths that change nothing (a failed allocation, a refused TCP connect, *)
(* a send that fails on a closed handle, a poll with nothing to read)     *)
(* are stuttering steps and are not written out.                          *)
(***************************************************************************)
EXTENDS Integers, FiniteSets

CONSTANTS
    MaxFds,          \* descriptors the process has for sockets (EMFILE after)
    MaxBufs,         \* bound on receive buffers allocated and not freed
    MaxPeerCloses,   \* bound on connections the broker closes
    SendCanFail,     \* send() on a live socket may fail (EINTR, EAGAIN...)
    SigpipeIgnored,  \* the application ignores SIGPIPE
    AppRetries       \* the application calls mqtt_connect() again while a
                     \* connection is open (a CONNACK that does not come in
                     \* time, an error returned by mqtt_poll())

VARIABLES
    fds,           \* sockets the driver opened and has not closed
    handle,        \* ctx->handle
    peer,          \* fd -> "up" | "fin" (peer closed) | "rst" (peer reset)
    connected,     \* stat->connected
    awaitConnack,  \* CONNACK in stat->expected_ptypes
    recvLive,      \* receive buffers allocated and not freed
    killed,        \* the process died of SIGPIPE
    peerCloses

vars == <<fds, handle, peer, connected, awaitConnack, recvLive, killed, peerCloses>>

FdNums == 3..(2 + MaxFds)

\* socket() returns the lowest free descriptor, 0 standing for -1.
NewFd == LET free == FdNums \ fds
         IN  IF free = {} THEN 0 ELSE CHOOSE f \in free : \A g \in free : f <= g

\* socket_send(): the outcomes of send(ctx->handle, ...) with flags 0.  A
\* socket the peer closed accepts one more send and is reset by the
\* answer; the next send gets EPIPE, which raises SIGPIPE.
SendOutcomes(fd) ==
    IF fd \notin fds THEN {"fail"}          \* EBADF / ENOTSOCK
    ELSE CASE peer[fd] = "up"  -> IF SendCanFail THEN {"ok", "fail"} ELSE {"ok"}
           [] peer[fd] = "fin" -> {"ok"}
           [] OTHER -> IF SigpipeIgnored THEN {"fail"} ELSE {"sigpipe"}

Sent(fd) == peer' = IF fd \in fds /\ peer[fd] = "fin"
                    THEN [peer EXCEPT ![fd] = "rst"] ELSE peer

\* socket_recv(): poll() reports POLLIN and recv() returns bytes only on a
\* socket that is open and whose peer has not closed it.
Readable(fd) == fd \in fds /\ peer[fd] = "up"

\* alloc_recv_buf(): malloc() of a receive buffer into stat->inp.
alloc_recv_buf == recvLive' = recvLive + 1

\* close_conn(): close(ctx->handle).
close_conn(fd) == fds' = fds \ {fd}

Init ==
    /\ fds = {}
    /\ handle = 0
    /\ peer = [f \in FdNums |-> "up"]
    /\ connected = FALSE
    /\ awaitConnack = FALSE
    /\ recvLive = 0
    /\ killed = FALSE
    /\ peerCloses = 0

\* Variant of mqtt_connect() that does not close the socket after a failed
\* send of CONNECT.
ConnectKeepsSocket ==
    /\ ~killed
    /\ AppRetries \/ (~connected /\ ~awaitConnack)
    /\ NewFd # 0
    /\ handle' = NewFd
    /\ fds' = fds \cup {NewFd}
    /\ peer' = [peer EXCEPT ![NewFd] = "up"]
    /\ \/ awaitConnack' = TRUE
       \/ SendCanFail /\ UNCHANGED awaitConnack
    /\ UNCHANGED <<connected, recvLive, killed, peerCloses>>

\* mqtt_connect(): open_conn() -> create_tcp_client() stores the new socket
\* in ctx->handle without looking at the one there; a failed send of
\* CONNECT closes it again.  connected is left as it was.
mqtt_connect ==
    /\ ~killed
    /\ AppRetries \/ (~connected /\ ~awaitConnack)
    /\ NewFd # 0
    /\ handle' = NewFd
    /\ \/ /\ fds' = fds \cup {NewFd}
          /\ peer' = [peer EXCEPT ![NewFd] = "up"]
          /\ awaitConnack' = TRUE
       \/ /\ SendCanFail
          /\ UNCHANGED <<fds, peer, awaitConnack>>
    /\ UNCHANGED <<connected, recvLive, killed, peerCloses>>

\* mqtt_disconnect(): sends DISCONNECT on ctx->handle; only when that
\* succeeds does it clear connected, reset the mask and close the socket.
mqtt_disconnect ==
    /\ ~killed
    /\ \E r \in SendOutcomes(handle) \ {"fail"} :
         IF r = "sigpipe"
         THEN killed' = TRUE /\ UNCHANGED <<fds, peer, connected, awaitConnack>>
         ELSE /\ Sent(handle)
              /\ connected' = FALSE
              /\ awaitConnack' = FALSE
              /\ close_conn(handle)
              /\ UNCHANGED killed
    /\ UNCHANGED <<handle, recvLive, peerCloses>>

\* mqtt_publish(), mqtt_subscribe(), mqtt_unsubscribe(), mqtt_ping() and
\* the acks: refused unless connected, then one send on ctx->handle.
mqtt_send ==
    /\ ~killed
    /\ connected
    /\ \E r \in SendOutcomes(handle) \ {"fail"} :
         IF r = "sigpipe" THEN killed' = TRUE /\ UNCHANGED peer
                          ELSE Sent(handle) /\ UNCHANGED killed
    /\ UNCHANGED <<fds, handle, connected, awaitConnack, recvLive, peerCloses>>

\* Variant of process_disconnect() that closes without clearing connected.
DisconnectKeepsConnected ==
    /\ close_conn(handle)
    /\ UNCHANGED <<connected, awaitConnack>>

\* process_disconnect(): clears connected, resets the mask, close_conn().
process_disconnect ==
    /\ connected' = FALSE
    /\ awaitConnack' = FALSE
    /\ close_conn(handle)

\* mqtt_poll() when recv() returns a packet: alloc_recv_buf() put a new
\* buffer in stat->inp (the previous one is no longer referenced), and
\* mqtt_process_packet()'s result is returned before free_recv_buf().
\* On every other outcome (PASSED, peer closed or reset) the buffer is
\* freed and nothing changes.
mqtt_poll ==
    /\ ~killed
    /\ recvLive < MaxBufs
    /\ Readable(handle)
    /\ alloc_recv_buf
    /\ \/ /\ awaitConnack            \* CONNACK: process_connack()
          /\ connected' = TRUE
          /\ awaitConnack' = FALSE
          /\ UNCHANGED fds
       \/ connected /\ process_disconnect
       \/ connected /\ UNCHANGED <<fds, connected, awaitConnack>>
    /\ UNCHANGED <<handle, peer, killed, peerCloses>>

\* The broker closes the connection (keep-alive expiry, its own restart).
PeerClose ==
    /\ peerCloses < MaxPeerCloses
    /\ handle \in fds /\ peer[handle] = "up"
    /\ peer' = [peer EXCEPT ![handle] = "fin"]
    /\ peerCloses' = peerCloses + 1
    /\ UNCHANGED <<fds, handle, connected, awaitConnack, recvLive, killed>>

Next ==
    \/ mqtt_connect
    \/ mqtt_disconnect
    \/ mqtt_send
    \/ mqtt_poll
    \/ PeerClose

Spec == Init /\ [][Next]_vars

-----------------------------------------------------------------------------
\* Every socket create_tcp_client() opened and nobody closed is the one in
\* ctx->handle: a socket the driver no longer knows of can never be closed.
NoSocketLeak == fds \subseteq {handle}

\* While stat->connected holds, the engine's sends go to a socket that is
\* open: mqtt_disconnect() and process_disconnect() clear connected when
\* they close, and mqtt_connect() replaces the handle only when the
\* application calls it on a closed session.
ConnectedHasSocket == connected => handle \in fds

\* The process survives a connection the broker closed: no send of the
\* engine hits a reset socket (socket_send() passes flags 0 to send()).
NoSigpipe == ~killed

\* Spec 3: the received PUBLISH borrows the receive buffer until the next
\* process_packet() call; at most that one receive buffer is allocated.
RecvBuffersFreed == recvLive <= 1

=============================================================================
