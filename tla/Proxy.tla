------------------------------- MODULE Proxy -------------------------------
(***************************************************************************)
(* The proxies between remote connections and the local node.  They are    *)
(* started by App.proxy for what the TLS listener accepts, by the accept   *)
(* loop of WithExternalConn, and by the dial functions given to the node;  *)
(* proxy (app/proxy.go) copies each connection in both directions until    *)
(* one side is through.  App.Close waits for those of the listener only.   *)
(* The sockets and their peers are external.                               *)
(***************************************************************************)
EXTENDS Integers, FiniteSets

CONSTANTS Conn,        \* the connections that may be made
          Modes        \* the options that the App may have been created with

\* The listener and the dialer of WithTLS make TCP connections.
ASSUME ProxyAssumption ==
  /\ IsFiniteSet(Conn)
  /\ Modes \subseteq [listening : BOOLEAN, tcp : BOOLEAN, dialled : SUBSET Conn]
  /\ \A m \in Modes : m.listening => m.tcp

VARIABLES mode,        \* the options, and how each connection is made
          accept,      \* App.proxy: "accept", "wait" or "closed" (proxyCh)
          close,       \* App.Close: "no", "stopped", "listener" or "done"
          call,        \* the call of proxy for each connection
          copy,        \* its two goroutines, named for what they read from
          sock,        \* our ends of its sockets: "open", "noRead" or "closed"
          peer,        \* the other ends: "open", "eof" (half closed) or "closed"
          panicked     \* the process is gone

proxyVars == <<mode, accept, close, call, copy, sock, peer, panicked>>

\* WithTLS (a listener) rather than WithExternalConn; the connections of the node,
\* the others come in; and whether there is a TCP connection under the remote one.
Listening == mode.listening
ByNode    == mode.dialled
Tcp       == mode.tcp

Side == {"remote", "local"}
Other(d) == IF d = "remote" THEN "local" ELSE "remote"

\* The context of a call of proxy: Close cancels it first of all, and App.proxy, for
\* what it has accepted, when it leaves its loop.
ctxDone(k) == close # "no" \/ (Listening /\ k \notin ByNode /\ accept # "accept")
-----------------------------------------------------------------------------
(* App.proxy.                                                              *)

\* A connection comes in and the local node is dialled.
Accept(k) ==
  /\ Listening /\ k \notin ByNode /\ ~panicked
  /\ accept = "accept" /\ call[k] = "none" /\ close \in {"no", "stopped"}
  /\ call' = [call EXCEPT ![k] = "keepalive"]
  /\ UNCHANGED <<mode, accept, close, copy, sock, peer, panicked>>

\* The local node cannot be dialled: the client is closed.
AcceptDialError(k) ==
  /\ Listening /\ k \notin ByNode /\ ~panicked
  /\ accept = "accept" /\ call[k] = "none" /\ close \in {"no", "stopped"}
  /\ call' = [call EXCEPT ![k] = "refused"]
  /\ sock' = [sock EXCEPT ![k] = [d \in Side |-> "closed"]]
  /\ UNCHANGED <<mode, accept, close, copy, peer, panicked>>

\* Mutant of AcceptError: accept again.
AcceptErrorRetry ==
  /\ accept = "accept" /\ ~panicked
  /\ UNCHANGED proxyVars

\* Accept fails, because the listener is closed or for any other reason, such as too
\* many open files: the loop is over, and its context is cancelled.
AcceptError ==
  /\ accept = "accept" /\ accept' = "wait" /\ ~panicked
  /\ UNCHANGED <<mode, close, call, copy, sock, peer, panicked>>

\* Mutant of Wait: nobody is waited for.
WaitNot ==
  /\ accept = "wait" /\ accept' = "closed" /\ ~panicked
  /\ UNCHANGED <<mode, close, call, copy, sock, peer, panicked>>

\* wg.Wait, and then proxyCh is closed.
Wait ==
  /\ accept = "wait" /\ ~panicked
  /\ \A k \in Conn \ ByNode : call[k] \in {"none", "refused", "returned", "failed"}
  /\ accept' = "closed"
  /\ UNCHANGED <<mode, close, call, copy, sock, peer, panicked>>
-----------------------------------------------------------------------------
(* The accept loop of WithExternalConn, which nothing ends, and the dial   *)
(* functions of the node.                                                  *)

\* A connection comes in from acceptCh: the node is dialled.
ExtAccept(k) ==
  /\ ~Listening /\ k \notin ByNode /\ call[k] = "none" /\ close # "done" /\ ~panicked
  /\ call' = [call EXCEPT ![k] = "keepalive"]
  /\ UNCHANGED <<mode, accept, close, copy, sock, peer, panicked>>

\* The upgrade header cannot be written, or the node is closed: panic.
ExtAcceptError(k) ==
  /\ ~Listening /\ k \notin ByNode /\ call[k] = "none" /\ ~panicked
  /\ Tcp \/ close = "done"
  /\ call' = [call EXCEPT ![k] = "refused"]
  /\ sock' = [sock EXCEPT ![k]["remote"] = "closed"]
  /\ panicked' = TRUE
  /\ UNCHANGED <<mode, accept, close, copy, peer>>

NodeDial(k) ==
  /\ k \in ByNode /\ call[k] = "none" /\ close # "done" /\ ~panicked
  /\ call' = [call EXCEPT ![k] = "keepalive"]
  /\ UNCHANGED <<mode, accept, close, copy, sock, peer, panicked>>

\* Nothing can be dialled; or the second of the two steps fails, and what the first has
\* opened stays open: the connection if there is no socket pair (WithTLS), the socket
\* pair if there is no connection (WithExternalConn).
NodeDialError(k) ==
  /\ k \in ByNode /\ call[k] = "none" /\ close # "done" /\ ~panicked
  /\ call' = [call EXCEPT ![k] = "refused"]
  /\ \/ sock' = [sock EXCEPT ![k] = [d \in Side |-> "closed"]]
     \/ sock' = [sock EXCEPT ![k][IF Listening THEN "local" ELSE "remote"] = "closed"]
  /\ UNCHANGED <<mode, accept, close, copy, peer, panicked>>
-----------------------------------------------------------------------------
(* proxy.                                                                  *)

\* Keepalive and the user timeout are set, and the goroutines start.  An error
\* returns at once and closes nothing.
Keepalive(k) ==
  /\ call[k] = "keepalive" /\ ~panicked
  /\ \/ /\ call' = [call EXCEPT ![k] = "select"]
        /\ copy' = [copy EXCEPT ![k] = [d \in Side |-> "read"]]
     \/ Tcp /\ call' = [call EXCEPT ![k] = "failed"] /\ UNCHANGED copy
  /\ UNCHANGED <<mode, accept, close, sock, peer, panicked>>

\* A goroutine has read something, and writes it to the other side.
Read(k, d) ==
  /\ copy[k][d] = "read" /\ sock[k][d] = "open" /\ peer[k][d] = "open" /\ ~panicked
  /\ copy' = [copy EXCEPT ![k][d] = "write"]
  /\ UNCHANGED <<mode, accept, close, call, sock, peer, panicked>>

Write(k, d) ==
  /\ copy[k][d] = "write" /\ sock[k][Other(d)] # "closed" /\ peer[k][Other(d)] # "closed" /\ ~panicked
  /\ copy' = [copy EXCEPT ![k][d] = "read"]
  /\ UNCHANGED <<mode, accept, close, call, sock, peer, panicked>>

\* io.Copy returns: end of file, a read or write error, or the user timeout of a
\* remote peer that takes no data.
CopyEnd(k, d) ==
  /\ ~panicked
  /\ \/ copy[k][d] = "read" /\ (sock[k][d] # "open" \/ peer[k][d] # "open")
     \/ copy[k][d] = "write" /\ (sock[k][Other(d)] = "closed" \/ peer[k][Other(d)] = "closed")
     \/ copy[k][d] = "write" /\ d = "local" /\ Tcp
  /\ copy' = [copy EXCEPT ![k][d] = "ended"]
  /\ UNCHANGED <<mode, accept, close, call, sock, peer, panicked>>

Closed == [d \in Side |-> "closed"]

\* ctx.Done: force closing.
Cancelled(k) ==
  /\ call[k] = "select" /\ ctxDone(k) /\ ~panicked
  /\ sock' = [sock EXCEPT ![k] = Closed]
  /\ call' = [call EXCEPT ![k] = "drain"]
  /\ UNCHANGED <<mode, accept, close, copy, peer, panicked>>

Drained(k) ==
  /\ call[k] = "drain" /\ ~panicked /\ \A d \in Side : copy[k][d] = "ended"
  /\ call' = [call EXCEPT ![k] = "returned"]
  /\ UNCHANGED <<mode, accept, close, copy, sock, peer, panicked>>

\* Mutant of FirstEnd: the read side of the other end stays open.
FirstEndOpen(k, d) ==
  /\ call[k] = "select" /\ copy[k][d] = "ended" /\ ~panicked
  /\ call' = [call EXCEPT ![k] = Other(d)]
  /\ UNCHANGED <<mode, accept, close, copy, sock, peer, panicked>>

\* One direction is through: let the other one finish, reading no more.
FirstEnd(k, d) ==
  /\ call[k] = "select" /\ copy[k][d] = "ended" /\ ~panicked
  /\ call' = [call EXCEPT ![k] = Other(d)]
  /\ sock' = IF d = "remote" \/ Tcp THEN [sock EXCEPT ![k][Other(d)] = "noRead"] ELSE sock
  /\ UNCHANGED <<mode, accept, close, copy, peer, panicked>>

\* Mutant of SecondEnd: the sockets are left to the garbage collector.
SecondEndOpen(k, d) ==
  /\ call[k] = d /\ copy[k][d] = "ended" /\ ~panicked
  /\ call' = [call EXCEPT ![k] = "returned"]
  /\ UNCHANGED <<mode, accept, close, copy, sock, peer, panicked>>

\* The other direction is through as well.
SecondEnd(k, d) ==
  /\ call[k] = d /\ copy[k][d] = "ended" /\ ~panicked
  /\ sock' = [sock EXCEPT ![k] = Closed]
  /\ call' = [call EXCEPT ![k] = "returned"]
  /\ UNCHANGED <<mode, accept, close, copy, peer, panicked>>
-----------------------------------------------------------------------------
(* The peers, and App.Close.                                               *)

PeerClose(k, d) ==
  /\ call[k] # "none" /\ ~panicked
  /\ \/ peer[k][d] = "open" /\ peer' = [peer EXCEPT ![k][d] = "eof"]
     \/ peer[k][d] # "closed" /\ peer' = [peer EXCEPT ![k][d] = "closed"]
  /\ UNCHANGED <<mode, accept, close, call, copy, sock, panicked>>

CloseStop ==
  /\ close = "no" /\ close' = "stopped" /\ ~panicked
  /\ UNCHANGED <<mode, accept, call, copy, sock, peer, panicked>>

\* run has returned: close the listener, if there is one, and wait for proxyCh.
CloseListener ==
  /\ Listening /\ close = "stopped" /\ close' = "listener" /\ ~panicked
  /\ UNCHANGED <<mode, accept, call, copy, sock, peer, panicked>>

\* The node closes its ends of the sockets.
CloseNode ==
  /\ close = (IF Listening THEN "listener" ELSE "stopped") /\ accept = "closed" /\ ~panicked
  /\ close' = "done"
  /\ peer' = [k \in Conn |-> [peer[k] EXCEPT !["local"] = "closed"]]
  /\ UNCHANGED <<mode, accept, call, copy, sock, panicked>>
-----------------------------------------------------------------------------
ProxyInit ==
  /\ mode \in Modes
  /\ accept = (IF Listening THEN "accept" ELSE "closed") /\ close = "no" /\ panicked = FALSE
  /\ call = [k \in Conn |-> "none"]
  /\ copy = [k \in Conn |-> [d \in Side |-> "none"]]
  /\ sock = [k \in Conn |-> [d \in Side |-> "open"]]
  /\ peer = [k \in Conn |-> [d \in Side |-> "open"]]

\* The goroutine of proxy.
Main(k) ==
  \/ Keepalive(k) \/ Cancelled(k) \/ Drained(k)
  \/ \E d \in Side : FirstEnd(k, d) \/ SecondEnd(k, d)

ProxyNext ==
  \/ AcceptError \/ Wait \/ CloseStop \/ CloseListener \/ CloseNode
  \/ \E k \in Conn :
       \/ Accept(k) \/ AcceptDialError(k) \/ ExtAccept(k) \/ ExtAcceptError(k)
       \/ NodeDial(k) \/ NodeDialError(k) \/ Main(k)
       \/ \E d \in Side : Read(k, d) \/ Write(k, d) \/ CopyEnd(k, d) \/ PeerClose(k, d)

ProxySpec == ProxyInit /\ [][ProxyNext]_proxyVars

\* Goroutines run; Accept fails when the listener is closed; a copy that can end does so
\* even if it goes round for a while; the local node reads what it is sent.  Nothing is
\* assumed of the remote peer.
ProxyFairSpec ==
  /\ ProxySpec
  /\ WF_proxyVars(close = "listener" /\ AcceptError) /\ WF_proxyVars(Wait)
  /\ WF_proxyVars(CloseListener) /\ WF_proxyVars(CloseNode)
  /\ \A k \in Conn : /\ WF_proxyVars(Main(k))
                     /\ \A d \in Side : SF_proxyVars(CopyEnd(k, d))
                     /\ WF_proxyVars(Write(k, "remote"))
-----------------------------------------------------------------------------
(* Properties.                                                             *)

\* The values the variables may take.
ProxyTypeOK ==
  /\ mode \in Modes
  /\ accept \in {"accept", "wait", "closed"} /\ close \in {"no", "stopped", "listener", "done"}
  /\ call \in [Conn -> {"none", "refused", "keepalive", "select", "drain", "remote", "local",
                      "returned", "failed"}]
  /\ copy \in [Conn -> [Side -> {"none", "read", "write", "ended"}]]
  /\ sock \in [Conn -> [Side -> {"open", "noRead", "closed"}]]
  /\ peer \in [Conn -> [Side -> {"open", "eof", "closed"}]]
  /\ panicked \in BOOLEAN

\* When proxy has returned, whichever side was through first, both sockets are
\* closed and both goroutines are over (proxy.go:62-94).
ReturnReleases ==
  \A k \in Conn : call[k] = "returned" =>
    \A d \in Side : sock[k][d] = "closed" /\ copy[k][d] = "ended"

\* The node is closed only when no connection of the listener is being copied any
\* more (app.go:419-423).
NodeClosedLast ==
  Listening /\ close = "done" =>
    \A k \in Conn \ ByNode, d \in Side : copy[k][d] \in {"none", "ended"}

\* When either peer of a TCP connection closes it, proxy returns (proxy.go:21-26).
ReturnsOnPeerClose ==
  \A k \in Conn, d \in Side :
    Tcp /\ call[k] = "select" /\ peer[k][d] = "closed" ~> call[k] = "returned" \/ panicked

\* A read from, or a write to, a remote connection that is not TCP cannot be ended
\* while proxy waits for its second goroutine (proxy.go:74, 88).
Stuck(k) == ~Tcp /\ call[k] \in Side

\* When its context is cancelled, proxy returns (proxy.go:21-26), even if it is waiting
\* for the second goroutine by then; and so App.Close does (app.go:416-423).
ReturnsOnCancel ==
  /\ close # "no" ~> close = "done" \/ panicked
  /\ \A k \in Conn :
       ctxDone(k) ~> \/ call[k] \in {"none", "refused", "failed", "returned"} \/ Stuck(k)
                     \/ panicked
=============================================================================
