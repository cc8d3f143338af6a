--------------------------- MODULE KVServer_proofs ---------------------------
(***************************************************************************)
(* The key-value server, for any connections, descriptors and requests: no *)
(* worker executes a request on a deleted database, each works in its own   *)
(* workspace, and the process dies early for one reason only -- the last    *)
(* two as long as no descriptor is reused before its last user has          *)
(* unregistered it.  And its client, for any input and any replies: no      *)
(* recv() begins on a descriptor that has been closed.                      *)
(***************************************************************************)
EXTENDS KVServer, TcpClient, TLAPS

\* A descriptor is in a worker's hands from accept() to unregisterClientFd(), open
\* from accept() to close().
InUse(c)         == peer[c] = "up" /\ pc[c] # "gone"
HasDescriptor(c) == peer[c] = "up" /\ pc[c] \notin {"closed", "gone"}

\* A worker's workspace is in clients_, and its pointer leads there.
Registered == {"added", "loop", "recv", "lines", "send", "leave", "closed"}
Serving    == {"loop", "recv", "lines", "send"}

\* A worker thread serves a connection that the main thread has accepted; the main
\* thread starts one thread for each.
ThreadsStarted ==
  /\ \A c \in Conns : pc[c] # "none" => peer[c] = "up"
  /\ \A c \in Conns : peer[c] = "up" => fd[c] \in Fds
  /\ mainPc \in {"register", "spawn"} =>
       accepted \in Conns /\ peer[accepted] = "up" /\ pc[accepted] = "none"

DescriptorsOwned == \A c \in Conns : HasDescriptor(c) => files[fd[c]] = c

DescriptorsDistinct ==
  ~raced => \A c, d \in Conns : c # d /\ InUse(c) /\ InUse(d) => fd[c] # fd[d]

\* Without the race the table holds exactly the workspaces of the workers.
PointersSet  == \A c \in Conns : pc[c] \in Serving => ptr[c] \in Conns
TableHolds   == \A c \in Conns : pc[c] \in Registered => clients[fd[c]] = c
TableHasOnly == \A f \in Fds : clients[f] # NoConn =>
                  pc[clients[f]] \in Registered /\ fd[clients[f]] = f
PointersOwn  == \A c \in Conns : pc[c] \in Serving => ptr[c] = c
ValuesOwn    == \A c \in Conns : ws[c].val \in known[c]

WorkSpacesOwned ==
  /\ PointersSet
  /\ ~raced => TableHolds /\ TableHasOnly /\ PointersOwn /\ ValuesOwn

\* Requests are executed after they have been received, received after they were sent.
HalfLines(c) == 2 * Len(script[c])
LinesCounted ==
  \A c \in Conns : /\ 2 * done[c] <= got[c]
                   /\ got[c] <= sent[c]
                   /\ sent[c] <= HalfLines(c)

\* The database is open from before the first worker to after the last.
DatabaseOpen ==
  /\ \A c \in Conns : pc[c] \notin {"none", "gone"} => dbOpen
  /\ mainPc \notin {"start", "failed", "stopped", "killed"} => dbOpen
  /\ mainPc \in {"start", "failed"} => \A c \in Conns : pc[c] = "none"
  /\ mainPc \in {"delete", "stopped"} => \A c \in Conns : pc[c] \in {"none", "gone"}

Operations == {""} \union UNION {{s[i][1] : i \in 1..Len(s)} : s \in Scripts}
WorkSpaces == [op : Operations, key : Keys, val : Values \union {""}]
WorkSpaceTypeOK == /\ ws \in [Conns -> WorkSpaces]
                   /\ known \in [Conns -> SUBSET (Values \union {""})]

IInv == /\ TypeOK
        /\ WorkSpaceTypeOK
        /\ ThreadsStarted
        /\ DescriptorsOwned
        /\ DescriptorsDistinct
        /\ WorkSpacesOwned
        /\ LinesCounted
        /\ DatabaseOpen
        /\ DiesOnlyOnSend

-----------------------------------------------------------------------------
(* What the steps touch.                                                   *)

\* Worker steps that change no more than where the worker is.
Moves(c) == CheckStop(c) \/ Disconnected(c) \/ NoLine(c) \/ SendReply(c) \/ SendFails(c)

\* Steps of the main thread and of a signal that touch nothing but the main thread's
\* own variables.
MainMoves == \/ MainLoop \/ AcceptInterrupted \/ AcceptFails \/ CloseListen \/ Snapshot
             \/ Woken \/ Join \/ Signal \/ StartFails \/ SpawnFails

\* The steps, grouped by what they touch.
LEMMA StepCases ==
  ASSUME [Next]_vars
  PROVE  \/ UNCHANGED vars
         \/ MainMoves \/ Start \/ Register \/ Spawn \/ DeleteDB
         \/ \E f \in Fds : Wake(f)
         \/ \E c \in Conns : \/ Accept(c) \/ Connect(c) \/ SendLine(c) \/ Hangup(c)
                             \/ AddClient(c) \/ GetClient(c) \/ Receive(c)
                             \/ ProcessMessage(c) \/ CloseClient(c) \/ Unregister(c)
                             \/ Killed(c) \/ Moves(c)
BY DEF Next, Main, Worker, Finished, MainMoves, Moves

\* A script is a sequence of requests, a request a sequence of tokens.
LEMMA ScriptType ==
  ASSUME NEW s \in Scripts
  PROVE  /\ Len(s) \in Nat
         /\ \A i \in 1..Len(s) : Len(s[i]) \in Nat /\ Len(s[i]) > 0
<1>1. s \in Seq(Seq(STRING))
  BY KVAssumption, Zenon
<1>2. Len(s) \in Nat /\ \A i \in 1..Len(s) : s[i] \in Seq(STRING)
  BY <1>1
<1>3. \A i \in 1..Len(s) : s[i] # <<>>
  BY KVAssumption, Zenon
<1> QED BY <1>2, <1>3

\* A request that has been received is one of the script's.
LEMMA RequestExists ==
  ASSUME TypeOK, LinesCounted, NEW c \in Conns, HasLine(c)
  PROVE  done[c] + 1 \in 1..Len(script[c]) /\ script[c] \in Scripts
<1>1. /\ script[c] \in Scripts /\ done[c] \in Nat /\ got[c] \in Nat /\ sent[c] \in Nat
  BY DEF TypeOK
<1>2. Len(script[c]) \in Nat
  BY <1>1, ScriptType
<1>3. 2 * (done[c] + 1) <= 2 * Len(script[c])
  BY <1>1, <1>2 DEF HasLine, LinesCounted, HalfLines
<1> QED BY <1>1, <1>2, <1>3

\* The tokens of a request.
LEMMA RequestTokens ==
  ASSUME NEW s \in Scripts, NEW i \in 1..Len(s)
  PROVE  /\ s[i][1] \in Operations
         /\ Len(s[i]) \in 2..3 => s[i][2] \in Keys
         /\ Len(s[i]) > 2 => s[i][3] \in Values
<1>1. s[i][1] \in Operations
  <2> DEFINE firsts == {s[j][1] : j \in 1..Len(s)}
  <2>1. s[i][1] \in firsts
    OBVIOUS
  <2> HIDE DEF firsts
  <2>2. firsts \in {{r[j][1] : j \in 1..Len(r)} : r \in Scripts}
    BY DEF firsts
  <2> QED BY <2>1, <2>2 DEF Operations
<1>2. Len(s[i]) \in 2..3 => s[i][2] \in Keys
  BY KVAssumption, Zenon
<1>3. Len(s[i]) > 2 => s[i][3] \in Values
  BY DEF Values
<1> QED BY <1>1, <1>2, <1>3, Zenon

\* The guards of parseMessage on the number of tokens.
LEMMA TokenCounts ==
  \A n \in Nat : /\ n > 3 <=> (n # 3 /\ n > 2)
                 /\ n > 2 => n > 1
                 /\ (n > 1 /\ ~(n > 3)) <=> n \in 2..3
                 /\ n = 3 <=> (n > 2 /\ ~(n > 3))
OBVIOUS

\* parseMessage keeps a workspace a workspace, and leaves in val_ what the request
\* carries or what was there.
LEMMA ParsedWorkSpace ==
  ASSUME NEW t, NEW n \in Nat, n = Len(t), t[1] \in Operations,
         n \in 2..3 => t[2] \in Keys, n > 2 => t[3] \in Values,
         NEW w \in WorkSpaces
  PROVE  /\ ParseMessage(t, w) \in WorkSpaces
         /\ n = 3 => ParseMessage(t, w).val = t[3]
         /\ n # 3 => ParseMessage(t, w).val = w.val
<1>1. w.key \in Keys /\ w.val \in Values \union {""}
  BY DEF WorkSpaces
<1>2. CASE n > 3
  <2>1. ParseMessage(t, w) = w
    BY <1>2 DEF ParseMessage
  <2> QED BY <1>2, <2>1, TokenCounts, Zenon
<1>3. CASE n > 2 /\ ~(n > 3)
  <2> DEFINE p == [op |-> t[1], key |-> t[2], val |-> t[3]]
  <2>1. ParseMessage(t, w) = p
    BY <1>3, TokenCounts, Zenon DEF ParseMessage
  <2>2. t[2] \in Keys /\ t[3] \in Values
    BY <1>3, TokenCounts, Zenon
  <2>3. p \in WorkSpaces /\ p.val = t[3]
    BY <2>2 DEF WorkSpaces
  <2> HIDE DEF p
  <2> QED BY <1>3, <2>1, <2>3, TokenCounts, Zenon
<1>4. CASE n > 1 /\ ~(n > 2)
  <2> DEFINE p == [op |-> t[1], key |-> t[2], val |-> w.val]
  <2>1. ParseMessage(t, w) = p
    BY <1>4, TokenCounts, Zenon DEF ParseMessage
  <2>2. t[2] \in Keys
    BY <1>4, TokenCounts, Zenon
  <2>3. p \in WorkSpaces /\ p.val = w.val
    BY <1>1, <2>2 DEF WorkSpaces
  <2> HIDE DEF p
  <2> QED BY <1>4, <2>1, <2>3, TokenCounts, Zenon
<1>5. CASE ~(n > 1)
  <2> DEFINE p == [op |-> t[1], key |-> w.key, val |-> w.val]
  <2>1. ParseMessage(t, w) = p
    BY <1>5, TokenCounts, Zenon DEF ParseMessage
  <2>2. p \in WorkSpaces /\ p.val = w.val
    BY <1>1 DEF WorkSpaces
  <2> HIDE DEF p
  <2> QED BY <1>5, <2>1, <2>2, TokenCounts, Zenon
<1> QED BY <1>2, <1>3, <1>4, <1>5, Zenon

\* What a request does to the database and to val_.
LEMMA EffectsType ==
  ASSUME db \in [Keys -> Values \union {"", NotFound}],
         NEW w \in WorkSpaces,
         NEW e \in Effects(w)
  PROVE  /\ e[1] \in [Keys -> Values \union {"", NotFound}]
         /\ e[2] \in Values \union {""}
         /\ w.op # "get" => e[2] = w.val
<1>0. w.op \in Operations /\ w.key \in Keys /\ w.val \in Values \union {""}
  BY DEF WorkSpaces
<1> DEFINE kept    == <<db, w.val>>
           cleared == <<db, "">>
           read    == <<db, db[w.key]>>
           written == <<[db EXCEPT ![w.key] = w.val], w.val>>
           deleted == <<[db EXCEPT ![w.key] = NotFound], w.val>>
<1>1. /\ kept[1] = db /\ kept[2] = w.val
      /\ cleared[1] = db /\ cleared[2] = ""
      /\ read[1] = db /\ read[2] = db[w.key]
      /\ written[1] = [db EXCEPT ![w.key] = w.val] /\ written[2] = w.val
      /\ deleted[1] = [db EXCEPT ![w.key] = NotFound] /\ deleted[2] = w.val
  OBVIOUS
<1>2. \/ e = kept
      \/ w.op = "get" /\ e = cleared
      \/ w.op = "get" /\ db[w.key] # NotFound /\ e = read
      \/ w.op = "put" /\ e = written
      \/ w.op = "delete" /\ e = deleted
  <2> HIDE DEF kept, cleared, read, written, deleted
  <2>1. CASE w.op = "get"
    BY <2>1 DEF Effects, kept, cleared, read
  <2>2. CASE w.op = "put"
    BY <2>2 DEF Effects, kept, written
  <2>3. CASE w.op = "delete"
    BY <2>3 DEF Effects, kept, deleted
  <2>4. CASE w.op \notin {"get", "put", "delete"}
    BY <2>4 DEF Effects, kept
  <2> QED BY <2>1, <2>2, <2>3, <2>4
<1> HIDE DEF kept, cleared, read, written, deleted
<1>3. CASE e = kept
  BY <1>0, <1>1, <1>3
<1>4. CASE w.op = "get" /\ e = cleared
  BY <1>1, <1>4
<1>5. CASE w.op = "get" /\ db[w.key] # NotFound /\ e = read
  BY <1>0, <1>1, <1>5
<1>6. CASE w.op = "put" /\ e = written
  BY <1>0, <1>1, <1>6
<1>7. CASE w.op = "delete" /\ e = deleted
  BY <1>0, <1>1, <1>7
<1> QED BY <1>2, <1>3, <1>4, <1>5, <1>6, <1>7

\* One request, executed on the workspace the worker's pointer leads to.
LEMMA ProcessEffect ==
  ASSUME TypeOK, WorkSpaceTypeOK, LinesCounted, NEW c \in Conns, ptr[c] \in Conns,
         ProcessMessage(c)
  PROVE  /\ db' \in [Keys -> Values \union {"", NotFound}]
         /\ WorkSpaceTypeOK'
         /\ \A d \in Conns \ {ptr[c]} : ws'[d] = ws[d]
         /\ \A d \in Conns : known[d] \subseteq known'[d]
         /\ ws[ptr[c]].val \in known[c] => ws'[ptr[c]].val \in known'[c]
<1> DEFINE request == script[c][done[c] + 1]
           w == ParseMessage(request, ws[ptr[c]])
           own == IF Len(request) = 3 THEN {request[3]} ELSE {}
<1>1. HasLine(c)
  BY DEF ProcessMessage
<1>2. /\ done[c] + 1 \in 1..Len(script[c]) /\ script[c] \in Scripts
  BY <1>1, RequestExists
<1>3. ws[ptr[c]] \in WorkSpaces
  BY DEF WorkSpaceTypeOK
<1>4. /\ w \in WorkSpaces
      /\ Len(request) = 3 => w.val = request[3]
      /\ Len(request) # 3 => w.val = ws[ptr[c]].val
  <2> DEFINE n == Len(request)
  <2>1. n \in Nat
    BY <1>2, ScriptType
  <2>2. /\ request[1] \in Operations
        /\ n \in 2..3 => request[2] \in Keys
        /\ n > 2 => request[3] \in Values
    BY <1>2, RequestTokens
  <2> HIDE DEF n, request
  <2>3. n = Len(request)
    BY DEF n
  <2>4. /\ w \in WorkSpaces
        /\ n = 3 => w.val = request[3]
        /\ n # 3 => w.val = ws[ptr[c]].val
    BY <1>3, <2>1, <2>2, <2>3, ParsedWorkSpace, Zenon
  <2> QED BY <2>3, <2>4, Zenon
<1>5. own \subseteq Values
  BY <1>2 DEF Values
<1>6. PICK e \in Effects(w) :
        /\ db' = e[1]
        /\ ws' = [ws EXCEPT ![ptr[c]] = [w EXCEPT !.val = e[2]]]
        /\ known' = [known EXCEPT ![c] =
             @ \union own \union (IF w.op = "get" THEN {e[2]} ELSE {})]
  BY DEF ProcessMessage
<1> HIDE DEF w, own, request
<1>7. /\ e[1] \in [Keys -> Values \union {"", NotFound}]
      /\ e[2] \in Values \union {""}
      /\ w.op # "get" => e[2] = w.val
  BY <1>4, EffectsType DEF TypeOK
<1>8. [w EXCEPT !.val = e[2]] \in WorkSpaces /\ [w EXCEPT !.val = e[2]].val = e[2]
  BY <1>4, <1>7 DEF WorkSpaces
<1>9. WorkSpaceTypeOK'
  BY <1>5, <1>6, <1>7, <1>8 DEF WorkSpaceTypeOK
<1>10. /\ \A d \in Conns \ {ptr[c]} : ws'[d] = ws[d]
       /\ ws'[ptr[c]].val = e[2]
  BY <1>6, <1>8 DEF WorkSpaceTypeOK
<1>11. /\ \A d \in Conns : known[d] \subseteq known'[d]
       /\ own \subseteq known'[c]
       /\ w.op = "get" => e[2] \in known'[c]
  BY <1>6 DEF WorkSpaceTypeOK
<1>12. ws[ptr[c]].val \in known[c] => e[2] \in known'[c]
  <2>1. CASE w.op = "get"
    BY <2>1, <1>11
  <2>2. CASE w.op # "get" /\ Len(request) = 3
    BY <2>2, <1>4, <1>7, <1>11 DEF own
  <2>3. CASE w.op # "get" /\ Len(request) # 3
    BY <2>3, <1>4, <1>7, <1>11
  <2> QED BY <2>1, <2>2, <2>3
<1> QED BY <1>6, <1>7, <1>9, <1>10, <1>11, <1>12

-----------------------------------------------------------------------------
(* Each part of the invariant is kept.                                     *)

\* Half a line received was sent, a line executed was received.
LEMMA LinesStep ==
  ASSUME TypeOK, LinesCounted, [Next]_vars
  PROVE  LinesCounted' /\ ({sent, got, done} \subseteq [Conns -> Nat])'
<1> USE DEF LinesCounted
<1>0. {sent, got, done} \subseteq [Conns -> Nat]
  BY DEF TypeOK
<1>1. UNCHANGED script => \A c \in Conns : HalfLines(c)' = HalfLines(c)
  BY DEF HalfLines
<1>2. ASSUME NEW c \in Conns, SendLine(c)
      PROVE  LinesCounted' /\ ({sent, got, done} \subseteq [Conns -> Nat])'
  <2>1. /\ sent' = [sent EXCEPT ![c] = @ + 1]
        /\ UNCHANGED <<got, done, script>>
    BY <1>2 DEF SendLine, dataVars
  <2>2. sent[c] < HalfLines(c) /\ HalfLines(c) \in Nat
    <3>1. script[c] \in Scripts
      BY DEF TypeOK
    <3>2. Len(script[c]) \in Nat
      BY <3>1, ScriptType
    <3> QED BY <1>2, <3>2 DEF SendLine, HalfLines
  <2>3. \A d \in Conns : 2 * done[d] <= got[d] /\ got[d] <= sent'[d] /\ sent'[d] <= HalfLines(d)
    BY <1>0, <2>1, <2>2
  <2> QED BY <1>0, <1>1, <2>1, <2>3
<1>3. ASSUME NEW c \in Conns, Receive(c)
      PROVE  LinesCounted' /\ ({sent, got, done} \subseteq [Conns -> Nat])'
  <2>1. PICK n \in (got[c] + 1)..sent[c] : got' = [got EXCEPT ![c] = n]
    BY <1>3 DEF Receive
  <2>2. UNCHANGED <<sent, done, script>>
    BY <1>3 DEF Receive, peerVars
  <2>3. \A d \in Conns : 2 * done[d] <= got'[d] /\ got'[d] <= sent[d]
    BY <1>0, <2>1
  <2> QED BY <1>0, <1>1, <2>1, <2>2, <2>3
<1>4. ASSUME NEW c \in Conns, ProcessMessage(c)
      PROVE  LinesCounted' /\ ({sent, got, done} \subseteq [Conns -> Nat])'
  <2>1. /\ done' = [done EXCEPT ![c] = @ + 1] /\ 2 * (done[c] + 1) <= got[c]
        /\ UNCHANGED <<sent, got, script>>
    BY <1>4 DEF ProcessMessage, HasLine, peerVars
  <2>2. \A d \in Conns : 2 * done'[d] <= got[d]
    BY <1>0, <2>1
  <2> QED BY <1>0, <1>1, <2>1, <2>2
<1>5. CASE UNCHANGED <<sent, got, done, script>>
  <2>1. \A c \in Conns : HalfLines(c)' = HalfLines(c)
    BY <1>1, <1>5
  <2>2. LinesCounted'
    BY <1>5, <2>1
  <2>3. ({sent, got, done} \subseteq [Conns -> Nat])'
    BY <1>0, <1>5
  <2> QED BY <2>2, <2>3
<1>6. UNCHANGED <<sent, got, done, script>>
      \/ \E c \in Conns : SendLine(c) \/ Receive(c) \/ ProcessMessage(c)
  <2>1. CASE UNCHANGED vars
    BY <2>1 DEF vars, peerVars, dataVars
  <2>2. CASE MainMoves \/ Start \/ Register \/ Spawn \/ DeleteDB
    BY <2>2 DEF MainMoves, MainLoop, AcceptInterrupted, AcceptFails, CloseListen, Snapshot,
       Woken, Join, Signal, StartFails, SpawnFails, Start, Register, Spawn, DeleteDB,
       notMain, notPc,
       peerVars, dataVars
  <2>3. ASSUME NEW f \in Fds, Wake(f) PROVE UNCHANGED <<sent, got, done, script>>
    BY <2>3 DEF Wake, peerVars, dataVars
  <2>4. ASSUME NEW c \in Conns, Accept(c) \/ Connect(c) \/ Hangup(c)
        PROVE  UNCHANGED <<sent, got, done, script>>
    BY <2>4 DEF Accept, Connect, Hangup, peerVars, dataVars
  <2>5. ASSUME NEW c \in Conns, \/ AddClient(c) \/ GetClient(c) \/ CloseClient(c)
                                \/ Unregister(c) \/ Killed(c)
        PROVE  UNCHANGED <<sent, got, done, script>>
    BY <2>5 DEF AddClient, GetClient, CloseClient, Unregister, Killed, notMain, peerVars,
       dataVars
  <2>6. ASSUME NEW c \in Conns, Moves(c) PROVE UNCHANGED <<sent, got, done, script>>
    BY <2>6 DEF Moves, CheckStop, Disconnected, NoLine, SendReply, SendFails, notPc,
       peerVars, dataVars
  <2> QED BY StepCases, <2>1, <2>2, <2>3, <2>4, <2>5, <2>6
<1> QED BY <1>2, <1>3, <1>4, <1>5, <1>6

\* What main and the clients do to a worker's control and descriptor: only Spawn starts
\* a worker, only Accept gives it a descriptor.
LEMMA MainSteps ==
  ASSUME TypeOK, ThreadsStarted, [Next]_vars, \A c \in Conns : ~Worker(c)
  PROVE  /\ UNCHANGED <<ptr, ws, clients, known>>
         /\ \/ UNCHANGED <<pc, fd, files, raced>> /\ \A c \in Conns : peer[c] = "up" <=> peer'[c] = "up"
            \/ Spawn /\ UNCHANGED <<fd, files, peer, raced>>
            \/ \E c \in Conns : Accept(c) /\ UNCHANGED pc
<1> USE DEF TypeOK, vars, mainVars, tableVars, workerVars, peerVars, dataVars, notMain
<1>1. CASE UNCHANGED vars
  BY <1>1
<1>2. CASE MainMoves \/ Start \/ Register \/ DeleteDB
  BY <1>2 DEF MainMoves, MainLoop, AcceptInterrupted, AcceptFails, CloseListen,
     Snapshot, Woken, Join, Signal, StartFails, SpawnFails, Start, Register, DeleteDB
<1>3. CASE Spawn
  BY <1>3 DEF Spawn
<1>4. ASSUME NEW f \in Fds, Wake(f) PROVE UNCHANGED <<ptr, ws, clients, known, pc, fd, files, raced, peer>>
  BY <1>4 DEF Wake
<1>5. ASSUME NEW c \in Conns, Accept(c) PROVE UNCHANGED <<ptr, ws, clients, known, pc>>
  BY <1>5 DEF Accept
<1>6. ASSUME NEW c \in Conns, Connect(c) \/ SendLine(c) \/ Hangup(c)
      PROVE  /\ UNCHANGED <<ptr, ws, clients, known, pc, fd, files, raced>>
             /\ \A d \in Conns : peer[d] = "up" <=> peer'[d] = "up"
  BY <1>6 DEF Connect, SendLine, Hangup
<1> QED BY <1>1, <1>2, <1>3, <1>4, <1>5, <1>6 DEF Next, Main, Finished, MainMoves

\* A worker's step leaves the other workers, the connections and their descriptors.
LEMMA WorkerSteps ==
  ASSUME TypeOK, NEW c \in Conns, Worker(c)
  PROVE  /\ \A d \in Conns \ {c} : pc'[d] = pc[d] /\ ptr'[d] = ptr[d]
         /\ UNCHANGED <<fd, peer, raced, accepted, gStop>>
         /\ \/ UNCHANGED mainPc
            \/ Killed(c) /\ UNCHANGED pc
         /\ CloseClient(c) \/ UNCHANGED files
         /\ AddClient(c) \/ Unregister(c) \/ UNCHANGED clients
         /\ ProcessMessage(c) \/ UNCHANGED <<ws, known>>
         /\ Alive
<1> USE DEF TypeOK, mainVars, tableVars, workerVars, peerVars, dataVars, notMain, notPc,
        WorkerGoto
<1>1. CASE CheckStop(c) \/ Disconnected(c) \/ NoLine(c) \/ SendReply(c) \/ SendFails(c)
  BY <1>1 DEF CheckStop, Disconnected, NoLine, SendReply, SendFails
<1>2. CASE AddClient(c) \/ CloseClient(c) \/ Unregister(c)
  BY <1>2 DEF AddClient, CloseClient, Unregister
<1>3. CASE GetClient(c) \/ Receive(c) \/ ProcessMessage(c)
  BY <1>3 DEF GetClient, Receive, ProcessMessage
<1>4. CASE Killed(c)
  BY <1>4 DEF Killed
<1> QED BY <1>1, <1>2, <1>3, <1>4 DEF Worker

\* Where a worker's step takes it.
LEMMA WorkerMoves ==
  ASSUME TypeOK, NEW c \in Conns, Worker(c)
  PROVE  \/ UNCHANGED pc
         \/ <<pc[c], pc'[c]>> \in
              {<<"added", "loop">>, <<"loop", "leave">>, <<"loop", "recv">>,
               <<"recv", "lines">>, <<"recv", "leave">>, <<"lines", "send">>,
               <<"lines", "loop">>, <<"send", "lines">>, <<"send", "loop">>}
         \/ <<pc[c], pc'[c]>> = <<"new", "added">> /\ AddClient(c)
         \/ <<pc[c], pc'[c]>> = <<"leave", "closed">> /\ CloseClient(c)
         \/ <<pc[c], pc'[c]>> = <<"closed", "gone">> /\ Unregister(c)
BY DEF TypeOK, Worker, WorkerGoto, notMain, notPc, workerVars, AddClient, GetClient,
       CheckStop, Receive, Disconnected, ProcessMessage, NoLine, SendReply, SendFails,
       CloseClient, Unregister, Killed

\* A thread for each accepted connection.
LEMMA ThreadsStep ==
  ASSUME TypeOK, ThreadsStarted, [Next]_vars
  PROVE  ThreadsStarted'
<1> USE DEF ThreadsStarted
<1>1. ASSUME NEW c \in Conns, Worker(c) PROVE ThreadsStarted'
  <2>1. UNCHANGED <<fd, peer, accepted>> /\ \A d \in Conns \ {c} : pc'[d] = pc[d]
    BY <1>1, WorkerSteps
  <2>2. UNCHANGED mainPc \/ mainPc' = "killed"
    BY <1>1, WorkerSteps DEF Killed
  <2>3. pc'[c] = pc[c] \/ (pc[c] # "none" /\ pc'[c] # "none")
    BY <1>1, WorkerMoves
  <2> QED BY <2>1, <2>2, <2>3
<1>2. CASE \A c \in Conns : ~Worker(c)
  <2> USE DEF TypeOK, vars, mainVars, tableVars, workerVars, peerVars, dataVars, notMain,
          MainGoto
  <2>1. CASE MainMoves \/ Start \/ DeleteDB \/ UNCHANGED vars
    BY <2>1 DEF MainMoves, MainLoop, AcceptInterrupted, AcceptFails, CloseListen,
       Snapshot, Woken, Join, Signal, StartFails, SpawnFails, Start, DeleteDB
  <2>2. CASE Register
    BY <2>2 DEF Register
  <2>3. CASE Spawn
    BY <2>3 DEF Spawn
  <2>4. ASSUME NEW f \in Fds, Wake(f) PROVE ThreadsStarted'
    BY <2>4 DEF Wake
  <2>5. ASSUME NEW c \in Conns, Accept(c) PROVE ThreadsStarted'
    <3>1. /\ mainPc' = "register" /\ peer[c] = "queued" /\ accepted' = c
          /\ peer' = [peer EXCEPT ![c] = "up"] /\ UNCHANGED pc
          /\ \E f \in Fds : fd' = [fd EXCEPT ![c] = f]
      BY <2>5 DEF Accept, FreeFds
    <3>2. pc[c] = "none"
      BY <3>1
    <3> QED BY <3>1, <3>2
  <2>6. ASSUME NEW c \in Conns, Connect(c) \/ SendLine(c) \/ Hangup(c) PROVE ThreadsStarted'
    <3>1. UNCHANGED <<mainPc, accepted, fd, pc>>
      BY <2>6 DEF Connect, SendLine, Hangup
    <3>2. \A d \in Conns : peer[d] = "up" <=> peer'[d] = "up"
      BY <2>6 DEF Connect, SendLine, Hangup
    <3> QED BY <3>1, <3>2
  <2> QED BY <1>2, <2>1, <2>2, <2>3, <2>4, <2>5, <2>6 DEF Next, Main, Finished, MainMoves
<1> QED BY <1>1, <1>2

\* What accept() returns: a descriptor nobody has, unless its last user is between
\* close() and unregisterClientFd().
LEMMA AcceptFresh ==
  ASSUME TypeOK, ThreadsStarted, DescriptorsOwned, NEW c \in Conns, Accept(c)
  PROVE  \E f \in Fds :
           /\ fd' = [fd EXCEPT ![c] = f] /\ files' = [files EXCEPT ![f] = c]
           /\ peer' = [peer EXCEPT ![c] = "up"] /\ peer[c] = "queued" /\ pc[c] = "none"
           /\ \A d \in Conns : HasDescriptor(d) => fd[d] # f
           /\ ~raced' => ~raced /\ \A d \in Conns : pc[d] = "closed" => fd[d] # f
<1>1. PICK f \in FreeFds :
        /\ raced' = (raced \/ \E d \in Conns : pc[d] = "closed" /\ fd[d] = f)
        /\ files' = [files EXCEPT ![f] = c]
        /\ fd' = [fd EXCEPT ![c] = f]
  BY DEF Accept
<1>2. f \in Fds /\ files[f] = NoConn
  BY DEF FreeFds
<1>3. peer' = [peer EXCEPT ![c] = "up"] /\ peer[c] = "queued" /\ pc[c] = "none"
  BY DEF Accept, ThreadsStarted
<1>4. \A d \in Conns : HasDescriptor(d) => fd[d] # f
  BY <1>2, KVAssumption DEF DescriptorsOwned
<1> QED BY <1>1, <1>2, <1>3, <1>4

\* The kernel's table and the workers' descriptors agree.
LEMMA DescriptorsStep ==
  ASSUME TypeOK, ThreadsStarted, DescriptorsOwned, DescriptorsDistinct, [Next]_vars
  PROVE  DescriptorsOwned' /\ DescriptorsDistinct'
<1> USE DEF DescriptorsOwned, DescriptorsDistinct, HasDescriptor, InUse, ThreadsStarted
<1>1. ASSUME NEW c \in Conns, Worker(c) PROVE DescriptorsOwned' /\ DescriptorsDistinct'
  <2>1. UNCHANGED <<fd, peer, raced>> /\ \A d \in Conns \ {c} : pc'[d] = pc[d]
    BY <1>1, WorkerSteps
  <2>2. CASE CloseClient(c)
    <3>1. /\ pc[c] = "leave" /\ pc'[c] = "closed" /\ peer[c] = "up"
          /\ files' = [files EXCEPT ![fd[c]] = NoConn]
      BY <2>2 DEF CloseClient, WorkerGoto, TypeOK
    <3>2. files[fd[c]] = c
      BY <3>1
    <3>3. \A d \in Conns \ {c} : HasDescriptor(d) => fd[d] # fd[c]
      BY <3>2
    <3>4. \A d \in Conns \ {c} : HasDescriptor(d) => files'[fd[d]] = files[fd[d]]
      BY <3>1, <3>3 DEF TypeOK
    <3> QED BY <2>1, <3>1, <3>4
  <2>3. CASE ~CloseClient(c)
    <3>1. UNCHANGED files
      BY <1>1, <2>3, WorkerSteps
    <3>2. pc[c] \in {"closed", "gone"} => pc'[c] \in {"closed", "gone"}
      BY <1>1, WorkerMoves
    <3>3. pc[c] = "gone" => pc'[c] = "gone"
      BY <1>1, WorkerMoves
    <3> QED BY <2>1, <3>1, <3>2, <3>3
  <2> QED BY <2>2, <2>3
<1>2. CASE \A c \in Conns : ~Worker(c)
  <2>1. ASSUME NEW c \in Conns, Accept(c) PROVE DescriptorsOwned' /\ DescriptorsDistinct'
    <3>1. UNCHANGED pc
      BY <2>1 DEF Accept
    <3>2. PICK f \in Fds :
            /\ fd' = [fd EXCEPT ![c] = f] /\ files' = [files EXCEPT ![f] = c]
            /\ peer' = [peer EXCEPT ![c] = "up"] /\ peer[c] = "queued" /\ pc[c] = "none"
            /\ \A d \in Conns : HasDescriptor(d) => fd[d] # f
            /\ ~raced' => ~raced /\ \A d \in Conns : pc[d] = "closed" => fd[d] # f
      BY <2>1, AcceptFresh
    <3>3. DescriptorsOwned'
      BY <3>1, <3>2 DEF TypeOK
    <3>4. \A d \in Conns \ {c} : fd'[d] = fd[d] /\ peer'[d] = peer[d]
      BY <3>2 DEF TypeOK
    <3>5. fd'[c] = f
      BY <3>2 DEF TypeOK
    <3>6. ~raced' => \A d \in Conns \ {c} : InUse(d) => fd[d] # f
      BY <3>2
    <3> QED BY <3>1, <3>2, <3>3, <3>4, <3>5, <3>6
  <2>2. CASE Spawn
    <3>1. /\ pc' = [pc EXCEPT ![accepted] = "new"] /\ UNCHANGED <<fd, files, peer, raced>>
          /\ accepted \in Conns /\ peer[accepted] = "up" /\ pc[accepted] = "none"
      BY <2>2 DEF Spawn, MainGoto, tableVars, peerVars
    <3> QED BY <3>1 DEF TypeOK
  <2>3. CASE /\ UNCHANGED <<pc, fd, files, raced>>
             /\ \A c \in Conns : peer[c] = "up" <=> peer'[c] = "up"
    BY <2>3
  <2> QED BY <1>2, <2>1, <2>2, <2>3, MainSteps
<1> QED BY <1>1, <1>2

\* Entries of the table that no step touches stay those of their owners.
LEMMA TableStays ==
  ASSUME TypeOK, TableHasOnly, NEW F \in SUBSET Fds,
         \A f \in F : clients'[f] = clients[f],
         \A f \in F : clients[f] \in Conns /\ pc[clients[f]] \in Registered =>
           pc'[clients[f]] \in Registered /\ fd'[clients[f]] = fd[clients[f]]
  PROVE  \A f \in F : clients'[f] # NoConn =>
           pc'[clients'[f]] \in Registered /\ fd'[clients'[f]] = f
<1>1. TAKE f \in F
<1>2. clients[f] # NoConn => clients[f] \in Conns
  BY DEF TypeOK
<1>3. clients[f] # NoConn => pc[clients[f]] \in Registered /\ fd[clients[f]] = f
  BY DEF TableHasOnly
<1> QED BY <1>2, <1>3

\* Each worker keeps its own workspace under its descriptor.
LEMMA WorkSpacesStep ==
  ASSUME TypeOK, WorkSpaceTypeOK, LinesCounted, ThreadsStarted, DescriptorsOwned,
         DescriptorsDistinct, WorkSpacesOwned, [Next]_vars
  PROVE  WorkSpacesOwned'
<1>0. \A c \in Conns : /\ pc[c] # "none" => fd[c] \in Fds
                       /\ pc[c] \in Registered \union {"new"} => InUse(c)
  BY DEF ThreadsStarted, InUse, Registered
<1>1. ASSUME NEW c \in Conns, Worker(c) PROVE WorkSpacesOwned'
  <2>1. /\ UNCHANGED <<fd, raced>>
        /\ \A d \in Conns \ {c} : pc'[d] = pc[d] /\ ptr'[d] = ptr[d]
    BY <1>1, WorkerSteps
  <2>2. CASE AddClient(c)
    <3>1. /\ pc[c] = "new" /\ pc'[c] = "added" /\ UNCHANGED <<ptr, ws, known>>
          /\ clients' = [clients EXCEPT ![fd[c]] = IF @ = NoConn THEN c ELSE @]
      BY <2>2 DEF AddClient, WorkerGoto, TypeOK, dataVars
    <3>2. fd[c] \in Fds /\ InUse(c)
      BY <1>0, <3>1
    <3>3. PointersSet'
      BY <2>1, <3>1 DEF WorkSpacesOwned, PointersSet, Serving
    <3>4. ASSUME ~raced PROVE TableHolds' /\ TableHasOnly' /\ PointersOwn' /\ ValuesOwn'
      <4>1. TableHolds /\ TableHasOnly /\ PointersOwn /\ ValuesOwn
        BY <3>4 DEF WorkSpacesOwned
      <4>2. \A d \in Conns \ {c} : pc[d] \in Registered => fd[d] # fd[c]
        BY <1>0, <3>2, <3>4 DEF DescriptorsDistinct
      <4>3. clients[fd[c]] = NoConn
        <5>1. clients[fd[c]] # NoConn =>
                /\ clients[fd[c]] \in Conns /\ pc[clients[fd[c]]] \in Registered
                /\ fd[clients[fd[c]]] = fd[c]
          BY <3>2, <4>1 DEF TypeOK, TableHasOnly
        <5>2. pc[c] \notin Registered
          BY <3>1 DEF Registered
        <5> QED BY <4>2, <5>1, <5>2
      <4>4. /\ clients'[fd[c]] = c
            /\ \A f \in Fds \ {fd[c]} : clients'[f] = clients[f]
        BY <3>1, <3>2, <4>3 DEF TypeOK
      <4>5. TableHolds'
        BY <1>0, <2>1, <3>1, <4>1, <4>2, <4>4 DEF TableHolds, Registered
      <4>6. TableHasOnly'
        <5>1. pc'[c] \in Registered
          BY <3>1 DEF Registered
        <5>2. \A f \in Fds \ {fd[c]} : clients'[f] # NoConn =>
                pc'[clients'[f]] \in Registered /\ fd'[clients'[f]] = f
          <6>1. \A f \in Fds \ {fd[c]} : clients[f] \in Conns /\ pc[clients[f]] \in Registered =>
                  pc'[clients[f]] \in Registered /\ fd'[clients[f]] = fd[clients[f]]
            BY <2>1, <5>1
          <6>2. \A f \in Fds \ {fd[c]} : clients'[f] = clients[f]
            BY <4>4
          <6>3. TableHasOnly /\ Fds \ {fd[c]} \in SUBSET Fds
            BY <4>1
          <6> QED BY <6>1, <6>2, <6>3, TableStays
        <5> QED BY <2>1, <4>4, <5>1, <5>2 DEF TableHasOnly
      <4>7. PointersOwn' /\ ValuesOwn'
        BY <2>1, <3>1, <4>1 DEF PointersOwn, ValuesOwn, Serving
      <4> QED BY <4>5, <4>6, <4>7
    <3> QED BY <2>1, <3>3, <3>4 DEF WorkSpacesOwned
  <2>3. CASE Unregister(c)
    <3>1. /\ pc[c] = "closed" /\ pc'[c] = "gone" /\ UNCHANGED <<ptr, ws, known>>
          /\ clients' = [clients EXCEPT ![fd[c]] = NoConn]
      BY <2>3 DEF Unregister, WorkerGoto, TypeOK, dataVars
    <3>2. fd[c] \in Fds /\ pc[c] \in Registered /\ InUse(c)
      BY <1>0, <3>1 DEF Registered
    <3>3. PointersSet'
      BY <2>1, <3>1 DEF WorkSpacesOwned, PointersSet, Serving
    <3>4. ASSUME ~raced PROVE TableHolds' /\ TableHasOnly' /\ PointersOwn' /\ ValuesOwn'
      <4>1. TableHolds /\ TableHasOnly /\ PointersOwn /\ ValuesOwn
        BY <3>4 DEF WorkSpacesOwned
      <4>2. \A d \in Conns \ {c} : pc[d] \in Registered => fd[d] # fd[c]
        BY <1>0, <3>2, <3>4 DEF DescriptorsDistinct
      <4>3. /\ clients'[fd[c]] = NoConn
            /\ \A f \in Fds \ {fd[c]} : clients'[f] = clients[f]
        BY <3>1, <3>2 DEF TypeOK
      <4>4. TableHolds'
        BY <1>0, <2>1, <3>1, <4>1, <4>2, <4>3 DEF TableHolds, Registered
      <4>5. \A f \in Fds \ {fd[c]} : clients[f] # NoConn => clients[f] \in Conns \ {c}
        BY <4>1 DEF TableHasOnly, TypeOK
      <4>6. TableHasOnly'
        BY <2>1, <4>1, <4>3, <4>5 DEF TableHasOnly
      <4>7. PointersOwn' /\ ValuesOwn'
        BY <2>1, <3>1, <4>1 DEF PointersOwn, ValuesOwn, Serving
      <4> QED BY <4>4, <4>6, <4>7
    <3> QED BY <2>1, <3>3, <3>4 DEF WorkSpacesOwned
  <2>4. CASE GetClient(c)
    <3>1. /\ pc[c] = "added" /\ pc'[c] = "loop" /\ clients[fd[c]] # NoConn
          /\ ptr'[c] = clients[fd[c]] /\ UNCHANGED <<clients, ws, known>>
      BY <2>4 DEF GetClient, WorkerGoto, TypeOK, tableVars, dataVars
    <3>2. fd[c] \in Fds /\ pc[c] \in Registered /\ pc'[c] \in Registered
      BY <1>0, <3>1 DEF Registered
    <3>3. PointersSet'
      <4>1. ptr'[c] \in Conns
        BY <3>1, <3>2 DEF TypeOK
      <4> QED BY <2>1, <4>1 DEF WorkSpacesOwned, PointersSet
    <3>4. ASSUME ~raced PROVE TableHolds' /\ TableHasOnly' /\ PointersOwn' /\ ValuesOwn'
      <4>1. TableHolds /\ TableHasOnly /\ PointersOwn /\ ValuesOwn
        BY <3>4 DEF WorkSpacesOwned
      <4>2. TableHolds'
        BY <2>1, <3>1, <3>2, <4>1 DEF TableHolds
      <4>3. TableHasOnly'
        BY <2>1, <3>1, <3>2, <4>1, TableStays DEF TableHasOnly
      <4>4. PointersOwn' /\ ValuesOwn'
        BY <2>1, <3>1, <3>2, <4>1 DEF PointersOwn, ValuesOwn, TableHolds
      <4> QED BY <4>2, <4>3, <4>4
    <3> QED BY <2>1, <3>3, <3>4 DEF WorkSpacesOwned
  <2>5. CASE ProcessMessage(c)
    <3>1. pc[c] = "lines" /\ pc'[c] = "send" /\ UNCHANGED <<clients, ptr>>
      BY <2>5 DEF ProcessMessage, WorkerGoto, TypeOK, tableVars
    <3>2. pc[c] \in Serving /\ pc[c] \in Registered /\ pc'[c] \in Registered
      BY <3>1 DEF Registered, Serving
    <3>3. ptr[c] \in Conns
      BY <3>2 DEF WorkSpacesOwned, PointersSet
    <3>4. PointersSet'
      BY <2>1, <3>1, <3>3 DEF WorkSpacesOwned, PointersSet
    <3>5. ASSUME ~raced PROVE TableHolds' /\ TableHasOnly' /\ PointersOwn' /\ ValuesOwn'
      <4>1. TableHolds /\ TableHasOnly /\ PointersOwn /\ ValuesOwn
        BY <3>5 DEF WorkSpacesOwned
      <4>2. TableHolds'
        BY <2>1, <3>1, <3>2, <4>1 DEF TableHolds
      <4>3. TableHasOnly'
        BY <2>1, <3>1, <3>2, <4>1, TableStays DEF TableHasOnly
      <4>4. PointersOwn'
        BY <2>1, <3>1, <3>2, <4>1 DEF PointersOwn
      <4>5. ptr[c] = c
        BY <3>2, <4>1 DEF PointersOwn
      <4>6. /\ \A d \in Conns \ {ptr[c]} : ws'[d] = ws[d]
            /\ \A d \in Conns : known[d] \subseteq known'[d]
            /\ ws[ptr[c]].val \in known[c] => ws'[ptr[c]].val \in known'[c]
        BY <2>5, <3>3, ProcessEffect
      <4>7. ValuesOwn'
        BY <4>1, <4>5, <4>6 DEF ValuesOwn
      <4> QED BY <4>2, <4>3, <4>4, <4>7
    <3> QED BY <2>1, <3>4, <3>5 DEF WorkSpacesOwned
  <2>6. CASE ~(AddClient(c) \/ Unregister(c) \/ GetClient(c) \/ ProcessMessage(c))
    <3>1. UNCHANGED <<clients, ws, known, ptr>>
      BY <1>1, <2>6 DEF Worker, CheckStop, Receive, Disconnected, NoLine, SendReply,
         SendFails, CloseClient, Killed, tableVars, workerVars, dataVars, notMain, notPc
    <3>2. /\ pc[c] \in Registered <=> pc'[c] \in Registered
          /\ pc'[c] \in Serving => pc[c] \in Serving
      BY <1>1, <2>6 DEF Worker, CheckStop, Receive, Disconnected, NoLine, SendReply,
         SendFails, CloseClient, Killed, WorkerGoto, TypeOK, workerVars, notMain,
         Registered, Serving
    <3>3. /\ \A d \in Conns : pc[d] \in Registered <=> pc'[d] \in Registered
          /\ \A d \in Conns : pc'[d] \in Serving => pc[d] \in Serving
      BY <2>1, <3>2
    <3>4. TableHasOnly => TableHasOnly'
      BY <2>1, <3>1, <3>3, TableStays DEF TableHasOnly
    <3> QED BY <2>1, <3>1, <3>3, <3>4 DEF WorkSpacesOwned, PointersSet, TableHolds,
          PointersOwn, ValuesOwn
  <2> QED BY <2>2, <2>3, <2>4, <2>5, <2>6
<1>2. CASE \A c \in Conns : ~Worker(c)
  <2>1. UNCHANGED <<ptr, ws, clients, known>>
    BY <1>2, MainSteps
  <2>2. ASSUME ~raced' => ~raced,
               \A c \in Conns : pc[c] \in Registered <=> pc'[c] \in Registered,
               \A c \in Conns : pc[c] \in Serving <=> pc'[c] \in Serving,
               \A c \in Conns : pc[c] \in Registered => fd'[c] = fd[c]
        PROVE  WorkSpacesOwned'
    <3>1. PointersSet'
      BY <2>1, <2>2 DEF WorkSpacesOwned, PointersSet
    <3>2. ASSUME ~raced' PROVE TableHolds' /\ TableHasOnly' /\ PointersOwn' /\ ValuesOwn'
      <4>1. TableHolds /\ TableHasOnly /\ PointersOwn /\ ValuesOwn
        BY <2>2, <3>2 DEF WorkSpacesOwned
      <4>2. TableHolds'
        BY <2>1, <2>2, <4>1 DEF TableHolds
      <4>3. TableHasOnly'
        BY <2>1, <2>2, <4>1, TableStays DEF TableHasOnly
      <4>4. PointersOwn' /\ ValuesOwn'
        BY <2>1, <2>2, <4>1 DEF PointersOwn, ValuesOwn
      <4> QED BY <4>2, <4>3, <4>4
    <3> QED BY <3>1, <3>2 DEF WorkSpacesOwned
  <2>3. ASSUME NEW c \in Conns, Accept(c), UNCHANGED pc PROVE WorkSpacesOwned'
    <3>1. PICK f \in Fds : fd' = [fd EXCEPT ![c] = f] /\ pc[c] = "none" /\ (~raced' => ~raced)
      BY <2>3, AcceptFresh
    <3>2. \A d \in Conns : pc[d] \in Registered => fd'[d] = fd[d]
      BY <3>1 DEF TypeOK, Registered
    <3> QED BY <2>2, <2>3, <3>1, <3>2
  <2>4. CASE Spawn /\ UNCHANGED <<fd, files, peer, raced>>
    <3>1. /\ pc' = [pc EXCEPT ![accepted] = "new"]
          /\ accepted \in Conns /\ pc[accepted] = "none"
      BY <2>4 DEF Spawn, MainGoto, ThreadsStarted
    <3>2. \A d \in Conns : pc[d] \in Registered <=> pc'[d] \in Registered
      BY <3>1 DEF TypeOK, Registered
    <3>3. \A d \in Conns : pc[d] \in Serving <=> pc'[d] \in Serving
      BY <3>1 DEF TypeOK, Serving
    <3> QED BY <2>2, <2>4, <3>2, <3>3
  <2>5. CASE UNCHANGED <<pc, fd, raced>>
    BY <2>2, <2>5
  <2> QED BY <1>2, <2>3, <2>4, <2>5, MainSteps
<1> QED BY <1>1, <1>2

\* The database is deleted after the last worker.
LEMMA DatabaseStep ==
  ASSUME TypeOK, ThreadsStarted, DatabaseOpen, [Next]_vars
  PROVE  DatabaseOpen'
<1> USE DEF DatabaseOpen
<1>1. ASSUME NEW c \in Conns, Worker(c) PROVE DatabaseOpen'
  <2>1. /\ \A d \in Conns \ {c} : pc'[d] = pc[d]
        /\ UNCHANGED mainPc \/ mainPc' = "killed"
        /\ UNCHANGED dbOpen
    BY <1>1, WorkerSteps DEF Killed, Worker, AddClient, GetClient, CheckStop, Receive,
       Disconnected, ProcessMessage, NoLine, SendReply, SendFails, CloseClient, Unregister,
       dataVars, notMain, notPc
  <2>2. pc[c] \in {"none", "gone"} => pc'[c] = pc[c]
    BY <1>1, WorkerMoves
  <2>3. pc[c] = "none" <=> pc'[c] = "none"
    BY <1>1, WorkerMoves
  <2> QED BY <2>1, <2>2, <2>3
<1>2. CASE \A c \in Conns : ~Worker(c)
  <2> USE DEF MainGoto, vars, mainVars, tableVars, workerVars, peerVars, dataVars, notMain
  <2>1. CASE MainMoves \/ Register \/ UNCHANGED vars
    BY <2>1 DEF MainMoves, MainLoop, AcceptInterrupted, AcceptFails, CloseListen,
       Snapshot, Woken, Join, Signal, StartFails, SpawnFails, Register
  <2>2. CASE Start
    BY <2>2 DEF Start
  <2>3. CASE Spawn
    BY <2>3 DEF Spawn, TypeOK, ThreadsStarted
  <2>4. CASE DeleteDB
    BY <2>4 DEF DeleteDB
  <2>5. ASSUME NEW f \in Fds, Wake(f) PROVE DatabaseOpen'
    BY <2>5 DEF Wake
  <2>6. ASSUME NEW c \in Conns, Accept(c) PROVE DatabaseOpen'
    BY <2>6 DEF Accept
  <2>7. ASSUME NEW c \in Conns, Connect(c) \/ SendLine(c) \/ Hangup(c) PROVE DatabaseOpen'
    BY <2>7 DEF Connect, SendLine, Hangup
  <2> QED BY <1>2, <2>1, <2>2, <2>3, <2>4, <2>5, <2>6, <2>7 DEF Next, Main, Finished,
     MainMoves
<1> QED BY <1>1, <1>2

\* What kills the process.
LEMMA DeathStep ==
  ASSUME TypeOK, ThreadsStarted, WorkSpacesOwned, DiesOnlyOnSend, [Next]_vars
  PROVE  DiesOnlyOnSend'
<1>1. CASE ~Alive
  <2>1. UNCHANGED vars
    <3>1. \A c \in Conns : ~Worker(c)
      BY <1>1, WorkerSteps
    <3>2. ~Main /\ ~Signal
      BY <1>1 DEF Alive, Main, Signal, MainGoto, Start, StartFails, MainLoop,
         AcceptInterrupted,
         AcceptFails, Register, Spawn, SpawnFails, CloseListen, Snapshot, Woken, Join,
         DeleteDB, Accept, Wake
    <3> QED BY <1>1, <3>1, <3>2 DEF Next, Connect, SendLine, Hangup, Finished
  <2> QED BY <2>1 DEF DiesOnlyOnSend, RaisesSIGPIPE, vars, mainVars, workerVars,
     peerVars, tableVars
<1>2. CASE Alive
  <2>1. ASSUME NEW c \in Conns, Killed(c) PROVE DiesOnlyOnSend'
    <3>1. UNCHANGED <<raced, pc, hup, shut>>
      BY <2>1 DEF Killed, notMain, workerVars, peerVars, tableVars
    <3>2. ~raced => ~FindsNoClient(c)
      BY KVAssumption DEF FindsNoClient, WorkSpacesOwned, TableHolds, Registered
    <3>3. ~raced => ~UsesFreedWorkSpace(c)
      BY DEF UsesFreedWorkSpace, WorkSpacesOwned, TableHolds, PointersOwn, Registered,
         Serving,
         ThreadsStarted
    <3> QED BY <2>1, <3>1, <3>2, <3>3 DEF Killed, DiesOnlyOnSend, RaisesSIGPIPE
  <2>2. ASSUME \A c \in Conns : ~Killed(c) PROVE mainPc' # "killed"
    <3>1. ASSUME NEW c \in Conns, Worker(c) PROVE UNCHANGED mainPc
      BY <2>2, <3>1, WorkerSteps
    <3>2. ASSUME Main PROVE mainPc' # "killed"
      BY <1>2, <3>2 DEF Alive, Main, MainGoto, Start, StartFails, MainLoop,
         AcceptInterrupted,
         AcceptFails, Register, Spawn, SpawnFails, CloseListen, Snapshot, Woken, Join,
         DeleteDB, Accept, Wake
    <3> QED BY <1>2, <3>1, <3>2 DEF Alive, Next, Signal, Connect, SendLine, Hangup,
       Finished,
          vars, mainVars
  <2> QED BY <2>1, <2>2 DEF DiesOnlyOnSend
<1> QED BY <1>1, <1>2

\* The variables of the main thread, of the table and of the kernel keep their types.
LEMMA TypeStep ==
  ASSUME TypeOK, WorkSpaceTypeOK, LinesCounted, ThreadsStarted, WorkSpacesOwned, [Next]_vars
  PROVE  TypeOK' /\ WorkSpaceTypeOK'
<1>0. ({sent, got, done} \subseteq [Conns -> Nat])'
  BY LinesStep
<1>1. ASSUME NEW c \in Conns, ProcessMessage(c) PROVE TypeOK' /\ WorkSpaceTypeOK'
  <2>1. ptr[c] \in Conns
    BY <1>1 DEF ProcessMessage, WorkerGoto, WorkSpacesOwned, PointersSet, Serving
  <2>2. db' \in [Keys -> Values \union {"", NotFound}] /\ WorkSpaceTypeOK'
    BY <1>1, <2>1, ProcessEffect
  <2>3. /\ pc' = [pc EXCEPT ![c] = "send"]
        /\ UNCHANGED <<mainVars, tableVars, fd, ptr, peerVars, dbOpen>>
    BY <1>1 DEF ProcessMessage, WorkerGoto
  <2> QED BY <1>0, <2>2, <2>3 DEF TypeOK, mainVars, tableVars, peerVars
<1>2. ASSUME \A c \in Conns : ~ProcessMessage(c) PROVE TypeOK' /\ WorkSpaceTypeOK'
  <2>1. UNCHANGED <<db, ws, known>>
    BY <1>2, StepCases DEF vars, MainMoves, MainLoop, AcceptInterrupted, AcceptFails,
       CloseListen,
     Snapshot, Woken, Join, Signal, StartFails, SpawnFails, Start, Register, Spawn,
     DeleteDB, Wake, Accept,
     Connect, SendLine, Hangup, AddClient, GetClient, Receive, CloseClient, Unregister,
     Killed,
     Moves, CheckStop, Disconnected, NoLine, SendReply, SendFails, notMain, notPc,
     workerVars,
     dataVars
  <2>2. (db \in [Keys -> Values \union {"", NotFound}])' /\ WorkSpaceTypeOK'
    <3>1. db \in [Keys -> Values \union {"", NotFound}]
      BY DEF TypeOK
    <3> QED BY <2>1, <3>1 DEF WorkSpaceTypeOK
  <2> DEFINE Rest ==
        /\ mainPc \in {"start", "loop", "accept", "register", "spawn", "close",
                       "snapshot", "wake", "join", "delete", "failed", "stopped",
                       "terminated", "killed"}
        /\ gStop \in BOOLEAN /\ listening \in BOOLEAN /\ dbOpen \in BOOLEAN
        /\ accepted \in Conns \union {NoConn}
        /\ gClientFds \subseteq Fds /\ toWake \subseteq Fds
        /\ pc \in [Conns -> {"none", "new", "added", "loop", "recv", "lines", "send",
                             "leave", "closed", "gone"}]
        /\ fd \in [Conns -> {0} \union Fds]
        /\ ptr \in [Conns -> Conns \union {NoConn}]
        /\ clients \in [Fds -> Conns \union {NoConn}]
        /\ files \in [Fds -> Conns \union {NoConn}]
        /\ shut \subseteq Conns /\ hup \subseteq Conns
        /\ peer \in [Conns -> {"away", "queued", "up"}]
        /\ script \in [Conns -> Scripts]
  <2>3. Rest
    BY DEF TypeOK
  <2>4. Rest'
    <3> USE <2>3 DEF vars, mainVars, tableVars, workerVars, peerVars, dataVars, notMain,
    notPc,
            MainGoto, WorkerGoto
    <3>1. CASE UNCHANGED vars
      BY <3>1
    <3>2. CASE MainMoves
      BY <3>2 DEF MainMoves, MainLoop, AcceptInterrupted, AcceptFails, CloseListen,
         Snapshot, Woken, Join, Signal, StartFails, SpawnFails
    <3>3. CASE Start \/ DeleteDB
      BY <3>3 DEF Start, DeleteDB
    <3>4. CASE Register \/ Spawn
      BY <3>4 DEF Register, Spawn, ThreadsStarted
    <3>5. ASSUME NEW f \in Fds, Wake(f) PROVE Rest'
      BY <3>5 DEF Wake
    <3>6. ASSUME NEW c \in Conns, Accept(c) PROVE Rest'
      BY <3>6 DEF Accept, FreeFds
    <3>7. ASSUME NEW c \in Conns, Connect(c) \/ SendLine(c) \/ Hangup(c) PROVE Rest'
      BY <3>7 DEF Connect, SendLine, Hangup
    <3>8. ASSUME NEW c \in Conns, AddClient(c) \/ CloseClient(c) \/ Unregister(c) PROVE Rest'
      BY <3>8 DEF AddClient, CloseClient, Unregister
    <3>9. ASSUME NEW c \in Conns, GetClient(c) PROVE Rest'
      <4>1. fd[c] \in Fds
        BY <3>9 DEF GetClient, ThreadsStarted
      <4> QED BY <3>9, <4>1 DEF GetClient
    <3>10. ASSUME NEW c \in Conns, Receive(c) \/ Killed(c) \/ Moves(c) PROVE Rest'
      BY <3>10 DEF Receive, Killed, Moves, CheckStop, Disconnected, NoLine, SendReply,
         SendFails
    <3> HIDE DEF Rest
    <3> QED BY <1>2, <3>1, <3>2, <3>3, <3>4, <3>5, <3>6, <3>7, <3>8, <3>9, <3>10, StepCases
  <2> QED BY <1>0, <2>2, <2>4 DEF TypeOK
<1> QED BY <1>1, <1>2

-----------------------------------------------------------------------------
\* The invariant holds when the server starts ...
LEMMA InitInvariant == Init => IInv
<1> SUFFICES ASSUME Init PROVE IInv
  OBVIOUS
<1>0. script \in [Conns -> Scripts]
  BY KVAssumption DEF Init
<1>1. WorkSpaceTypeOK
  <2>1. "" \in Operations /\ "" \in Keys /\ "" \in Values \union {""}
    <3>1. "" \in Keys
      BY KVAssumption, Zenon
    <3> QED BY <3>1 DEF Operations
  <2>2. NewWorkSpace \in WorkSpaces
    BY <2>1 DEF WorkSpaces, NewWorkSpace
  <2> QED BY <2>2 DEF WorkSpaceTypeOK, Init
<1>2. TypeOK
  <2>1. sent \in [Conns -> Nat] /\ got \in [Conns -> Nat] /\ done \in [Conns -> Nat]
    BY DEF Init
  <2>2. {sent, got, done} \subseteq [Conns -> Nat]
    BY <2>1
  <2> QED BY <1>0, <2>2 DEF TypeOK, Init
<1>3. ThreadsStarted /\ DescriptorsOwned /\ DescriptorsDistinct /\ DatabaseOpen
  BY DEF Init, ThreadsStarted, DescriptorsOwned, DescriptorsDistinct, DatabaseOpen,
     HasDescriptor, InUse
<1>4. WorkSpacesOwned
  BY DEF Init, WorkSpacesOwned, PointersSet, TableHolds, TableHasOnly, PointersOwn,
     ValuesOwn,
     Registered, Serving, NewWorkSpace
<1>5. LinesCounted
  <2>1. ASSUME NEW c \in Conns
        PROVE  HalfLines(c) \in Nat /\ sent[c] = 0 /\ got[c] = 0 /\ done[c] = 0
    <3>1. script[c] \in Scripts /\ sent[c] = 0 /\ got[c] = 0 /\ done[c] = 0
      BY <1>0 DEF Init
    <3>2. Len(script[c]) \in Nat
      BY <3>1, ScriptType
    <3> QED BY <3>1, <3>2 DEF HalfLines
  <2> QED BY <2>1 DEF LinesCounted
<1>6. DiesOnlyOnSend
  BY DEF Init, DiesOnlyOnSend
<1> QED BY <1>1, <1>2, <1>3, <1>4, <1>5, <1>6 DEF IInv

\* ... and every step keeps it.
THEOREM ServerInvariant == Spec => []IInv
<1>1. ASSUME IInv, [Next]_vars PROVE IInv'
  BY <1>1, TypeStep, ThreadsStep, DescriptorsStep, WorkSpacesStep, LinesStep, DatabaseStep,
     DeathStep DEF IInv
<1> QED BY <1>1, InitInvariant, PTL DEF Spec

\* The database is deleted after the last worker has been joined (server.cpp:323-329):
\* no worker executes a request, or is about to, on a deleted database.
THEOREM DatabaseAlwaysOpen == Spec => []DBAlive
<1>1. IInv => DBAlive
  BY DEF IInv, DatabaseOpen, DBAlive
<1> QED BY <1>1, ServerInvariant, PTL

\* The process dies before its time only on a reply to a client that has gone or was
\* shut down, unless a descriptor was reused before its last user had unregistered it
\* (server.cpp:194 and 220): no exception leaves a worker, no worker uses a freed object.
THEOREM DiesForOneReason == Spec => []DiesOnlyOnSend
<1>1. IInv => DiesOnlyOnSend
  BY DEF IInv
<1> QED BY <1>1, ServerInvariant, PTL

\* Unless a descriptor was reused so, each worker keeps its own workspace for as long as
\* it serves its client, and a request never sees what another client left (server.cpp:194).
THEOREM WorkersAlwaysIsolated == Spec => []Isolation
<1>1. IInv => Isolation
  <2> SUFFICES ASSUME IInv PROVE Isolation
    OBVIOUS
  <2>1. \A c \in Conns : 2 * done[c] <= got[c]
    BY DEF IInv, LinesCounted
  <2>2. ASSUME ~raced, NEW c \in Conns, pc[c] \in Serving
        PROVE  ptr[c] = c /\ clients[fd[c]] = c /\ ws[ptr[c]].val \in known[c]
    <3>1. pc[c] \in Registered
      BY <2>2 DEF Serving, Registered
    <3>2. ptr[c] = c
      BY <2>2 DEF IInv, WorkSpacesOwned, PointersOwn
    <3>3. clients[fd[c]] = c
      BY <2>2, <3>1 DEF IInv, WorkSpacesOwned, TableHolds
    <3>4. ws[c].val \in known[c]
      BY <2>2 DEF IInv, WorkSpacesOwned, ValuesOwn
    <3> QED BY <3>2, <3>3, <3>4
  <2> QED BY <2>1, <2>2 DEF Isolation, Serving
<1> QED BY <1>1, ServerInvariant, PTL

-----------------------------------------------------------------------------
(* The client.                                                             *)

\* What the main thread has done to the descriptor and to sockFd_ by now.
DescriptorGone ==
  /\ sender \in {"clear", "join", "exited"} => ~fdOpen
  /\ sender \in {"join", "exited"} => ~sockFd

LEMMA DescriptorGoneKept == DescriptorGone /\ [ClientNext]_clientVars => DescriptorGone'
<1> SUFFICES ASSUME DescriptorGone, [ClientNext]_clientVars PROVE DescriptorGone'
  OBVIOUS
<1>1. CASE GetLine
  BY <1>1 DEF GetLine, DescriptorGone
<1>2. CASE Send
  BY <1>2 DEF Send, DescriptorGone
<1>3. CASE CloseFd
  BY <1>3 DEF CloseFd, DescriptorGone
<1>4. CASE ClearFd
  BY <1>4 DEF ClearFd, DescriptorGone
<1>5. CASE JoinReceiver
  BY <1>5 DEF JoinReceiver, DescriptorGone, shared
<1>6. CASE TestFd \/ CallRecv \/ Interrupted \/ Idle \/ UNCHANGED clientVars
  BY <1>6 DEF TestFd, CallRecv, Interrupted, Idle, DescriptorGone, shared, clientVars
<1>7. CASE ReceiveMessage \/ ServerSends \/ ServerCloses \/ ServerSeesEnd
  BY <1>7 DEF ReceiveMessage, ServerSends, ServerCloses, ServerSeesEnd, DescriptorGone
<1> QED BY <1>1, <1>2, <1>3, <1>4, <1>5, <1>6, <1>7 DEF ClientNext

\* Once the main thread waits for the other one, that one begins no recv(): whatever it
\* had read of sockFd_ before, it finds the descriptor closed (client.cpp, run and
\* receiveLoop).  Only the call in progress at close() remains.
THEOREM NoRecvBeginsAfterClose == ClientSpec => NoNewRecvAfterClose
<1>1. ClientInit => DescriptorGone
  BY DEF ClientInit, DescriptorGone
<1>2. ASSUME DescriptorGone, [ClientNext]_clientVars, sender = "join", receiver # "recv"
      PROVE  receiver' # "recv"
  <2>1. ~sockFd
    BY <1>2 DEF DescriptorGone
  <2>2. CASE CallRecv
    BY <2>1, <2>2 DEF CallRecv
  <2>3. CASE GetLine \/ Send \/ CloseFd \/ ClearFd \/ JoinReceiver
    BY <1>2, <2>3 DEF GetLine, Send, CloseFd, ClearFd, JoinReceiver
  <2>4. CASE TestFd \/ ReceiveMessage \/ Interrupted
    BY <1>2, <2>4 DEF TestFd, ReceiveMessage, Interrupted
  <2>5. CASE ServerSends \/ ServerCloses \/ ServerSeesEnd \/ Idle \/ UNCHANGED clientVars
    BY <1>2, <2>5 DEF ServerSends, ServerCloses, ServerSeesEnd, Idle, clientVars
  <2> QED BY <1>2, <2>2, <2>3, <2>4, <2>5 DEF ClientNext
<1>3. DescriptorGone /\ [ClientNext]_clientVars =>
        [(sender = "join" /\ receiver # "recv") => receiver' # "recv"]_clientVars
  BY <1>2
<1> QED BY <1>1, <1>3, DescriptorGoneKept, PTL DEF ClientSpec, NoNewRecvAfterClose
=============================================================================
