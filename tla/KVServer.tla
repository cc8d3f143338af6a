------------------------------- MODULE KVServer -------------------------------
(***************************************************************************)
(* The key-value server of cpp/server.cpp: the main thread accepts          *)
(* connections and starts one worker thread for each, a worker reads        *)
(* requests line by line and executes them on RocksDB, SIGINT and SIGTERM   *)
(* stop the server.  The clients are processes of cpp/client.cpp.           *)
(*                                                                          *)
(* A connection c is also the name of its worker thread and of the          *)
(* ClientWorkSpace object that thread allocates; a descriptor is a number,  *)
(* and the kernel gives the lowest free one to a new connection.  Half a    *)
(* line is the unit of transfer, so that recv() may return part of a line.  *)
(* The signal is handled by the main thread, which Linux prefers.           *)
(***************************************************************************)
EXTENDS Integers, Sequences, FiniteSets

CONSTANTS Conns,       \* connections clients may open
          NoConn,      \* no connection, no object
          MaxFds,      \* bound: descriptors for connections are 1..MaxFds
          Keys,        \* the keys requests may name, "" included
          Scripts,     \* what a client may send: sequences of requests, a
                       \* request being the sequence of its tokens
          Loads        \* which client sends what: functions of Conns

ASSUME KVAssumption ==
  /\ NoConn \notin Conns /\ MaxFds \in Nat \ {0}
  /\ "" \in Keys /\ Scripts \subseteq Seq(Seq(STRING))
  /\ Loads \subseteq [Conns -> Scripts]
  /\ \A s \in Scripts : \A i \in 1..Len(s) :
       s[i] # <<>> /\ (Len(s[i]) \in 2..3 => s[i][2] \in Keys)

VARIABLES
  mainPc,        \* the main thread
  gStop,         \* g_stop
  listening,     \* the listening socket is open
  accepted,      \* what accept() has returned to the main thread
  gClientFds,    \* g_client_fds
  toWake,        \* descriptors of snapshotClientFds() still to shut down
  pc, fd, ptr,   \* per worker: control, client_fd, the pointer client
  clients,       \* client_manager.clients_: descriptor -> object
  ws,            \* ws[c]: op_, key_ and val_ of the object c allocated
  files,         \* kernel: files[f] is the connection behind descriptor f
  shut,          \* kernel: connections the server has shut down
  peer,          \* per client: away, queued for accept(), up
  hup,           \* clients that have closed their side
  script,        \* script[c]: the requests of client c
  sent, got,     \* half lines the client has sent, the worker has received
  done,          \* done[c]: requests the worker has processed
  db, dbOpen,    \* the contents of RocksDB; FALSE once db is deleted
  known,         \* values c has sent, or read with get (no program state)
  raced          \* accept() has returned a descriptor between close() and
                 \* unregisterClientFd() of its last user (no program state)

mainVars == <<mainPc, gStop, listening, accepted, toWake>>
tableVars == <<gClientFds, clients, files, shut>>
workerVars == <<pc, fd, ptr, ws>>
peerVars == <<peer, hup, script, sent, raced>>
dataVars == <<got, done, db, dbOpen, known>>
vars == <<mainVars, tableVars, workerVars, peerVars, dataVars>>
notMain == <<tableVars, workerVars, peerVars, dataVars>>
notPc == <<mainVars, tableVars, fd, ptr, ws, peerVars, dataVars>>

Fds == 1..MaxFds
NewWorkSpace == [op |-> "", key |-> "", val |-> ""]
NotFound == "not found"

Init ==
  /\ mainPc = "start" /\ gStop = FALSE /\ listening = FALSE
  /\ accepted = NoConn /\ gClientFds = {} /\ toWake = {}
  /\ pc = [c \in Conns |-> "none"] /\ fd = [c \in Conns |-> 0]
  /\ ptr = [c \in Conns |-> NoConn]
  /\ clients = [f \in Fds |-> NoConn]
  /\ ws = [c \in Conns |-> NewWorkSpace]
  /\ files = [f \in Fds |-> NoConn] /\ shut = {}
  /\ peer = [c \in Conns |-> "away"] /\ hup = {}
  /\ script \in Loads
  /\ sent = [c \in Conns |-> 0] /\ got = [c \in Conns |-> 0]
  /\ done = [c \in Conns |-> 0]
  /\ db = [k \in Keys |-> NotFound] /\ dbOpen = FALSE
  /\ known = [c \in Conns |-> {""}] /\ raced = FALSE

\* The process is running: it has not returned from main(), and neither a signal
\* nor an exception has ended it.
Alive == mainPc \notin {"failed", "stopped", "terminated", "killed"}

-----------------------------------------------------------------------------
(* The clients: they connect, send their lines, and leave at any time.      *)

Connect(c) ==
  /\ Alive /\ listening /\ peer[c] = "away"
  /\ peer' = [peer EXCEPT ![c] = "queued"]
  /\ UNCHANGED <<mainVars, tableVars, workerVars, hup, script, sent, raced, dataVars>>

SendLine(c) ==
  /\ Alive /\ peer[c] # "away" /\ c \notin hup \union shut
  /\ sent[c] < 2 * Len(script[c])
  /\ sent' = [sent EXCEPT ![c] = @ + 1]
  /\ UNCHANGED <<mainVars, tableVars, workerVars, peer, hup, script, raced, dataVars>>

Hangup(c) ==
  /\ Alive /\ peer[c] # "away" /\ c \notin hup
  /\ hup' = hup \union {c}
  /\ UNCHANGED <<mainVars, tableVars, workerVars, peer, script, sent, raced, dataVars>>

-----------------------------------------------------------------------------
(* The main thread.                                                         *)

MainGoto(from, to) == mainPc = from /\ mainPc' = to

\* The socket is set up and the database opened.  A signal during the start
\* may already have closed the socket.
Start ==
  /\ MainGoto("start", "loop")
  /\ listening' \in (IF gStop THEN BOOLEAN ELSE {TRUE})
  /\ dbOpen' = TRUE
  /\ UNCHANGED <<gStop, accepted, toWake, tableVars, workerVars, peerVars, got,
                 done, db, known>>

\* One of socket, setsockopt, bind, listen or DB::Open fails.
StartFails ==
  /\ MainGoto("start", "failed")
  /\ listening' = FALSE
  /\ UNCHANGED <<gStop, accepted, toWake, notMain>>

\* while (!g_stop)
MainLoop ==
  /\ MainGoto("loop", IF gStop THEN "close" ELSE "accept")
  /\ UNCHANGED <<gStop, listening, accepted, toWake, notMain>>

FreeFds == {f \in Fds : files[f] = NoConn}

Accept(c) ==
  /\ MainGoto("accept", "register")
  /\ listening /\ peer[c] = "queued"
  /\ \E f \in FreeFds :
       /\ \A g \in FreeFds : f <= g
       /\ raced' = (raced \/ \E d \in Conns : pc[d] = "closed" /\ fd[d] = f)
       /\ files' = [files EXCEPT ![f] = c]
       /\ fd' = [fd EXCEPT ![c] = f]
  /\ peer' = [peer EXCEPT ![c] = "up"]
  /\ accepted' = c
  /\ UNCHANGED <<gStop, listening, toWake, gClientFds, clients, shut, pc, ptr, ws,
                 hup, script, sent, dataVars>>

\* EINTR or EBADF with g_stop set: the handler has closed the socket.
AcceptInterrupted ==
  /\ MainGoto("accept", "close")
  /\ ~listening
  /\ UNCHANGED <<gStop, listening, accepted, toWake, notMain>>

\* Any other error, as when no descriptor is free, is logged and retried.
AcceptFails ==
  /\ MainGoto("accept", "loop")
  /\ listening
  /\ UNCHANGED <<gStop, listening, accepted, toWake, notMain>>

\* Wrong variant: the connection is not registered.
RegisterNothing ==
  /\ MainGoto("register", "spawn")
  /\ UNCHANGED <<gStop, listening, accepted, toWake, notMain>>

\* registerClientFd(client_fd)
Register ==
  /\ MainGoto("register", "spawn")
  /\ gClientFds' = gClientFds \union {fd[accepted]}
  /\ UNCHANGED <<gStop, listening, accepted, toWake, clients, files, shut,
                 workerVars, peerVars, dataVars>>

\* workers.emplace_back(handleClient, client_fd, client_addr)
Spawn ==
  /\ MainGoto("spawn", "loop")
  /\ pc' = [pc EXCEPT ![accepted] = "new"]
  /\ accepted' = NoConn
  /\ UNCHANGED <<gStop, listening, toWake, tableVars, fd, ptr, ws, peerVars,
                 dataVars>>

\* The system has no thread to give: std::thread throws, and nobody catches.
SpawnFails ==
  /\ MainGoto("spawn", "terminated")
  /\ UNCHANGED <<gStop, listening, accepted, toWake, notMain>>

CloseListen ==
  /\ MainGoto("close", "snapshot")
  /\ listening' = FALSE
  /\ UNCHANGED <<gStop, accepted, toWake, notMain>>

Snapshot ==
  /\ MainGoto("snapshot", "wake")
  /\ toWake' = gClientFds
  /\ UNCHANGED <<gStop, listening, accepted, notMain>>

\* shutdown(client_fd, SHUT_RDWR), which fails on a closed descriptor.
Wake(f) ==
  /\ mainPc = "wake" /\ f \in toWake
  /\ toWake' = toWake \ {f}
  /\ shut' = shut \union ({files[f]} \ {NoConn})
  /\ UNCHANGED <<mainPc, gStop, listening, accepted, gClientFds, clients, files,
                 workerVars, peerVars, dataVars>>

Woken ==
  /\ MainGoto("wake", "join") /\ toWake = {}
  /\ UNCHANGED <<gStop, listening, accepted, toWake, notMain>>

\* Wrong variant: the workers are not joined.
JoinNobody ==
  /\ MainGoto("join", "delete")
  /\ UNCHANGED <<gStop, listening, accepted, toWake, notMain>>

Join ==
  /\ MainGoto("join", "delete")
  /\ \A c \in Conns : pc[c] \in {"none", "gone"}
  /\ UNCHANGED <<gStop, listening, accepted, toWake, notMain>>

DeleteDB ==
  /\ MainGoto("delete", "stopped")
  /\ dbOpen' = FALSE
  /\ UNCHANGED <<gStop, listening, accepted, toWake, tableVars, workerVars,
                 peerVars, got, done, db, known>>

\* handleSignal
Signal ==
  /\ Alive /\ ~gStop
  /\ gStop' = TRUE /\ listening' = FALSE
  /\ UNCHANGED <<mainPc, accepted, toWake, notMain>>

-----------------------------------------------------------------------------
(* handleClient, in the worker thread of connection c.                      *)

WorkerGoto(c, from, to) ==
  Alive /\ pc[c] = from /\ pc' = [pc EXCEPT ![c] = to]

\* Wrong variant: no workspace is made.
AddNoClient(c) == WorkerGoto(c, "new", "added") /\ UNCHANGED notPc

\* insert() keeps an object that is already there.
AddClient(c) ==
  /\ WorkerGoto(c, "new", "added")
  /\ clients' = [clients EXCEPT ![fd[c]] = IF @ = NoConn THEN c ELSE @]
  /\ UNCHANGED <<mainVars, gClientFds, files, shut, fd, ptr, ws, peerVars,
                 dataVars>>

GetClient(c) ==
  /\ WorkerGoto(c, "added", "loop")
  /\ clients[fd[c]] # NoConn
  /\ ptr' = [ptr EXCEPT ![c] = clients[fd[c]]]
  /\ UNCHANGED <<mainVars, tableVars, fd, ws, peerVars, dataVars>>

CheckStop(c) ==
  /\ WorkerGoto(c, "loop", IF gStop THEN "leave" ELSE "recv")
  /\ UNCHANGED notPc

Receive(c) ==
  /\ WorkerGoto(c, "recv", "lines")
  /\ \E n \in (got[c] + 1)..sent[c] : got' = [got EXCEPT ![c] = n]
  /\ UNCHANGED <<mainVars, tableVars, fd, ptr, ws, peerVars, done, db, dbOpen,
                 known>>

\* recv() returns 0, or an error after the client has gone.
Disconnected(c) ==
  /\ WorkerGoto(c, "recv", "leave")
  /\ c \in hup \/ (c \in shut /\ got[c] = sent[c])
  /\ UNCHANGED notPc

\* parseMessage: more than three tokens leave the workspace as it was, fewer
\* leave the rest of it.
ParseMessage(tokens, w) ==
  IF Len(tokens) > 3 THEN w
  ELSE [op |-> tokens[1],
        key |-> IF Len(tokens) > 1 THEN tokens[2] ELSE w.key,
        val |-> IF Len(tokens) > 2 THEN tokens[3] ELSE w.val]

\* The operation of a parsed request on the database: the new contents and the
\* new val_.  An operation that RocksDB refuses changes nothing; a get that fails,
\* as it does when the key is missing, may also clear val_.
Effects(w) ==
  {<<db, w.val>>} \union
  CASE w.op = "get" -> IF db[w.key] = NotFound
                       THEN {<<db, "">>}
                       ELSE {<<db, "">>, <<db, db[w.key]>>}
    [] w.op = "put" -> {<<[db EXCEPT ![w.key] = w.val], w.val>>}
    [] w.op = "delete" -> {<<[db EXCEPT ![w.key] = NotFound], w.val>>}
    [] OTHER -> {}

HasLine(c) == 2 * (done[c] + 1) <= got[c]

\* One round of the inner loop up to the reply.
ProcessMessage(c) ==
  /\ WorkerGoto(c, "lines", "send")
  /\ HasLine(c)
  /\ done' = [done EXCEPT ![c] = @ + 1]
  /\ LET request == script[c][done[c] + 1]
         w == ParseMessage(request, ws[ptr[c]])
         own == IF Len(request) = 3 THEN {request[3]} ELSE {}
     IN \E e \in Effects(w) :
          /\ db' = e[1]
          /\ ws' = [ws EXCEPT ![ptr[c]] = [w EXCEPT !.val = e[2]]]
          /\ known' = [known EXCEPT ![c] =
               @ \union own \union (IF w.op = "get" THEN {e[2]} ELSE {})]
  /\ UNCHANGED <<mainVars, tableVars, fd, ptr, peerVars, got, dbOpen>>

NoLine(c) ==
  /\ WorkerGoto(c, "lines", "loop")
  /\ ~HasLine(c)
  /\ UNCHANGED notPc

SendReply(c) ==
  /\ WorkerGoto(c, "send", "lines")
  /\ c \notin shut
  /\ UNCHANGED notPc

\* send() returns an error: only the inner loop ends.
SendFails(c) ==
  /\ WorkerGoto(c, "send", "loop")
  /\ c \in hup \ shut
  /\ UNCHANGED notPc

\* close(client_fd)
CloseClient(c) ==
  /\ WorkerGoto(c, "leave", "closed")
  /\ files' = [files EXCEPT ![fd[c]] = NoConn]
  /\ UNCHANGED <<mainVars, gClientFds, clients, shut, fd, ptr, ws, peerVars,
                 dataVars>>

\* Wrong variant: deleteClient is forgotten.
UnregisterFdOnly(c) ==
  /\ WorkerGoto(c, "closed", "gone")
  /\ gClientFds' = gClientFds \ {fd[c]}
  /\ UNCHANGED <<mainVars, clients, files, shut, fd, ptr, ws, peerVars, dataVars>>

\* unregisterClientFd(client_fd)
Unregister(c) ==
  /\ WorkerGoto(c, "closed", "gone")
  /\ gClientFds' = gClientFds \ {fd[c]}
  /\ clients' = [clients EXCEPT ![fd[c]] = NoConn]
  /\ UNCHANGED <<mainVars, files, shut, fd, ptr, ws, peerVars, dataVars>>

\* send() to a client that has gone, or on a connection the server itself has shut
\* down, raises SIGPIPE, which is not handled.
RaisesSIGPIPE(c) == pc[c] = "send" /\ c \in hup \union shut

\* getClient throws, and nobody catches.
FindsNoClient(c) == pc[c] = "added" /\ clients[fd[c]] = NoConn

\* client->processMessage on a workspace that deleteClient has freed.
UsesFreedWorkSpace(c) ==
  pc[c] = "lines" /\ HasLine(c) /\ \A f \in Fds : clients[f] # ptr[c]

\* A worker takes the whole process with it.
Killed(c) ==
  /\ Alive
  /\ RaisesSIGPIPE(c) \/ FindsNoClient(c) \/ UsesFreedWorkSpace(c)
  /\ mainPc' = "killed"
  /\ UNCHANGED <<gStop, listening, accepted, toWake, notMain>>

-----------------------------------------------------------------------------
Main == \/ Start \/ StartFails \/ MainLoop \/ AcceptInterrupted \/ AcceptFails
        \/ Register \/ Spawn \/ SpawnFails \/ CloseListen \/ Snapshot \/ Woken
        \/ Join \/ DeleteDB
        \/ \E c \in Conns : Accept(c)
        \/ \E f \in Fds : Wake(f)

Worker(c) == \/ AddClient(c) \/ GetClient(c) \/ CheckStop(c) \/ Receive(c)
             \/ Disconnected(c) \/ ProcessMessage(c) \/ NoLine(c) \/ SendReply(c)
             \/ SendFails(c) \/ CloseClient(c) \/ Unregister(c) \/ Killed(c)

Finished == ~Alive /\ UNCHANGED vars

Next == \/ Main \/ Signal \/ Finished
        \/ \E c \in Conns : \/ Worker(c)
                            \/ Connect(c) \/ SendLine(c) \/ Hangup(c)

Spec == Init /\ [][Next]_vars

\* Threads that can run do; clients and signals owe nothing.
FairSpec == /\ Spec /\ WF_vars(Main)
            /\ \A c \in Conns : WF_vars(Worker(c))

-----------------------------------------------------------------------------
Values == UNION {{s[i][3] : i \in {j \in 1..Len(s) : Len(s[j]) > 2}} : s \in Scripts}

TypeOK ==
  /\ mainPc \in {"start", "loop", "accept", "register", "spawn", "close",
                 "snapshot", "wake", "join", "delete", "failed", "stopped",
                 "terminated", "killed"}
  /\ gStop \in BOOLEAN /\ listening \in BOOLEAN /\ dbOpen \in BOOLEAN
  /\ accepted \in Conns \union {NoConn}
  /\ gClientFds \subseteq Fds /\ toWake \subseteq Fds
  /\ pc \in [Conns -> {"none", "new", "added", "loop", "recv", "lines", "send",
                       "leave", "closed", "gone"}]
  /\ fd \in [Conns -> {0} \union Fds]
  /\ ptr \in [Conns -> Conns \union {NoConn}]
  /\ clients \in [Fds -> Conns \union {NoConn}]
  /\ files \in [Fds -> Conns \union {NoConn}]
  /\ shut \subseteq Conns /\ hup \subseteq Conns
  /\ peer \in [Conns -> {"away", "queued", "up"}]
  /\ script \in [Conns -> Scripts]
  /\ {sent, got, done} \subseteq [Conns -> Nat]
  /\ db \in [Keys -> Values \union {"", NotFound}]

\* A worker kills the process only when a reply is sent to a client that has
\* gone, or that was shut down to stop the server (server.cpp:220): the workspace a
\* worker asks for exists, and is not freed under it, unless its descriptor was
\* reused between close() and unregisterClientFd().
DiesOnlyOnSend ==
  mainPc = "killed" =>
    raced \/ \E c \in Conns : RaisesSIGPIPE(c)

\* "delete db" comes after the join of every worker (server.cpp:323-329): no
\* worker executes a request, or is about to, on a deleted database.
DBAlive == \A c \in Conns : pc[c] \in {"recv", "lines", "send"} => dbOpen

\* A worker executes a request only once its client has sent all of the line.
\* As long as no descriptor is reused between close() and unregisterClientFd(),
\* the pointer a worker keeps across its loop (server.cpp:194) stays valid and
\* leads to its own workspace, and a short request reuses what its client has
\* sent or read before, never what another client left behind under the same
\* descriptor (server.cpp:77-81).
Isolation ==
  /\ \A c \in Conns : 2 * done[c] <= got[c]
  /\ ~raced => \A c \in Conns : pc[c] \in {"loop", "recv", "lines", "send"} =>
       /\ ptr[c] = c /\ clients[fd[c]] = c
       /\ ws[ptr[c]].val \in known[c]

\* "Wake up blocking recv() in worker threads so they can exit quickly"
\* (server.cpp:319): once stopped by a signal the process ends, whatever its
\* clients do.  Violated by the race between close() and unregisterClientFd().
StopEnds == gStop ~> ~Alive

\* That race is the only reason not to end.
StopEndsUnlessRaced == gStop ~> (~Alive \/ raced)
=============================================================================
