------------------------------ MODULE TcpClient ------------------------------
(***************************************************************************)
(* The interactive client of cpp/client.cpp: the main thread sends the     *)
(* lines of its input, a second thread prints what the server sends, and   *)
(* both use sockFd_ without a lock.  The two reads of sockFd_ in           *)
(* receiveLoop, and close(sockFd_) and the assignment of -1 in run, are    *)
(* steps of their own.                                                     *)
(*                                                                         *)
(* Of the kernel the model keeps what the code relies on: close() frees    *)
(* the descriptor but a recv() in progress keeps the connection, and is    *)
(* not woken; the server learns of the end only when both are gone.        *)
(***************************************************************************)
EXTENDS Integers

CONSTANTS MaxLines,    \* bound: lines of input
          MaxReplies   \* bound: messages of the server

ASSUME ClientAssumption == MaxLines \in Nat /\ MaxReplies \in Nat

VARIABLES sender, receiver,   \* where the two threads are
          lines,              \* lines read so far
          fdOpen,             \* the descriptor is open
          sockFd,             \* sockFd_ # -1
          server,             \* "connected", "closed"
          replies,            \* messages the server has sent
          unread              \* of them, not yet received
clientVars == <<sender, receiver, lines, fdOpen, sockFd, server, replies, unread>>
shared == <<lines, fdOpen, sockFd, server, replies, unread>>

ClientInit ==
  /\ sender = "read" /\ receiver = "test"      \* connectToServer succeeded
  /\ lines = 0 /\ fdOpen = TRUE /\ sockFd = TRUE
  /\ server = "connected" /\ replies = 0 /\ unread = 0

ClientAlive == sender \notin {"killed", "exited"}

GetLine ==
  /\ sender = "read"
  /\ \/ lines < MaxLines /\ lines' = lines + 1 /\ sender' = "send"
     \/ sender' = "close" /\ UNCHANGED lines            \* end of the input
  /\ UNCHANGED <<receiver, fdOpen, sockFd, server, replies, unread>>

\* send() to a server that has closed may succeed, fail, or raise SIGPIPE.
Send ==
  /\ sender = "send"
  /\ sender' \in IF server = "connected" THEN {"read"} ELSE {"read", "close", "killed"}
  /\ UNCHANGED <<receiver, shared>>

CloseFd ==
  /\ sender = "close" /\ sender' = "clear" /\ fdOpen' = FALSE
  /\ UNCHANGED <<receiver, lines, sockFd, server, replies, unread>>

ClearFd ==
  /\ sender = "clear" /\ sender' = "join" /\ sockFd' = FALSE
  /\ UNCHANGED <<receiver, lines, fdOpen, server, replies, unread>>

JoinReceiver ==
  /\ sender = "join" /\ receiver = "done" /\ sender' = "exited"
  /\ UNCHANGED <<receiver, shared>>

TestFd ==
  /\ ClientAlive /\ receiver = "test"
  /\ receiver' = IF sockFd THEN "call" ELSE "done"
  /\ UNCHANGED <<sender, shared>>

\* Wrong variant: the thread receives on a duplicate of the descriptor.
CallRecvOnDuplicate ==
  /\ ClientAlive /\ receiver = "call"
  /\ receiver' = "recv"
  /\ UNCHANGED <<sender, shared>>

\* recv() on a closed descriptor, or on -1, fails with EBADF.
CallRecv ==
  /\ ClientAlive /\ receiver = "call"
  /\ receiver' = IF sockFd /\ fdOpen THEN "recv" ELSE "done"
  /\ UNCHANGED <<sender, shared>>

\* Wrong variant: 0 is taken for an empty message, and the loop goes on.
ReceiveEmptyMessage ==
  /\ ClientAlive /\ receiver = "recv"
  /\ \/ unread > 0 /\ unread' = unread - 1 /\ receiver' = "test"
     \/ unread = 0 /\ server = "closed" /\ receiver' = "test" /\ UNCHANGED unread
  /\ UNCHANGED <<sender, lines, fdOpen, sockFd, server, replies>>

\* A message, or 0 or an error once the server has closed.
ReceiveMessage ==
  /\ ClientAlive /\ receiver = "recv"
  /\ \/ unread > 0 /\ unread' = unread - 1 /\ receiver' = "test"
     \/ unread = 0 /\ server = "closed" /\ receiver' = "done" /\ UNCHANGED unread
  /\ UNCHANGED <<sender, lines, fdOpen, sockFd, server, replies>>

\* EINTR, of a recv() that has nothing to return: the loop tests sockFd_ again.
Interrupted ==
  /\ ClientAlive /\ receiver = "recv" /\ receiver' = "test"
  /\ unread = 0 /\ server = "connected"
  /\ UNCHANGED <<sender, shared>>

ServerSends ==
  /\ server = "connected" /\ replies < MaxReplies
  /\ replies' = replies + 1 /\ unread' = unread + 1
  /\ UNCHANGED <<sender, receiver, lines, fdOpen, sockFd, server>>

\* The server may stop at any time.
ServerCloses ==
  /\ server = "connected" /\ server' = "closed"
  /\ UNCHANGED <<sender, receiver, lines, fdOpen, sockFd, replies, unread>>

\* Nothing holds the connection: the server receives the end and closes.
Released == ~ClientAlive \/ (~fdOpen /\ receiver # "recv")
ServerSeesEnd == Released /\ ServerCloses

Idle == ~ClientAlive /\ server = "closed" /\ UNCHANGED clientVars

ClientNext ==
  \/ GetLine \/ Send \/ CloseFd \/ ClearFd \/ JoinReceiver
  \/ TestFd \/ CallRecv \/ ReceiveMessage \/ Interrupted
  \/ ServerSends \/ ServerCloses \/ ServerSeesEnd \/ Idle

\* The two threads are scheduled, and a server whose client is gone notices.
ClientFairness ==
  /\ WF_clientVars(Send \/ CloseFd \/ ClearFd \/ JoinReceiver)
  /\ WF_clientVars(TestFd \/ CallRecv \/ ReceiveMessage)
  /\ WF_clientVars(ServerSeesEnd)

ClientSpec == ClientInit /\ [][ClientNext]_clientVars /\ ClientFairness

-----------------------------------------------------------------------------
\* Each side sees the end of the other.  The server's close ends the receiving
\* thread, after the messages that are left, also while main waits for a line that
\* may never come or closes the descriptor under the thread.  The client's close
\* ends the client and reaches the server, unless a recv() was in progress: then
\* both may wait for ever.
EndsAreSeen ==
  /\ server = "closed" ~> (receiver = "done" \/ ~ClientAlive)
  /\ (sender = "join" /\ receiver # "recv") ~> (~ClientAlive /\ server = "closed")

\* After the end of the input the client ends by itself, or hangs in the one
\* recv() that was in progress at close(), holding the connection the server
\* would have to close; it never starts another one.
NoNewRecvAfterClose ==
  [][(sender = "join" /\ receiver # "recv") => receiver' # "recv"]_clientVars
=============================================================================
