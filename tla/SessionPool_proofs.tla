------------------------- MODULE SessionPool_proofs -------------------------
(***************************************************************************)
(* Database sessions, for any workers, SQLs and pool limits: every open    *)
(* connection has one owner on every path, and the pool implements private *)
(* sessions -- isolated ones if it keeps no idle connections and has one   *)
(* for every worker.                                                       *)
(***************************************************************************)
EXTENDS SessionPool, SequenceTheorems, FiniteSetTheorems, TLAPS

Elements(s) == {s[k] : k \in 1..Len(s)}
Distinct(s) == \A j, k \in 1..Len(s) : s[j] = s[k] => j = k
Held        == {conn[w] : w \in Workers} \ {NoConn}

\* A worker has a connection from when it is given one until it puts it back.
Holders ==
  \A w \in Workers : /\ w \in waiting => pc[w] = "waiting"
                     /\ conn[w] # NoConn <=> pc[w] # "ready" /\ w \notin waiting

\* The parts of OneOwner.
OpenOwned    == open = Elements(idle) \union Held
OwnersApart  == /\ Distinct(idle) /\ Elements(idle) \intersect Held = {}
                /\ \A v, w \in Workers : conn[w] # NoConn /\ conn[v] = conn[w] => v = w

\* The database is closed when every worker has returned.
ClosedAtEnd == closed => /\ \A w \in Workers : pc[w] = "ready" /\ execs[w] = MaxExecs
                         /\ idle = <<>>

\* Nobody waits for, or reuses, a connection if there is one for each worker.
Isolated    == MaxIdle = 0 /\ Cardinality(Workers) <= MaxOpen
NobodyWaits == Isolated => idle = <<>> /\ \A w \in Workers : pc[w] # "waiting"

\* An execution has a configured SQL, begins with its first setup SQL, and sessions
\* carry only what setup SQLs did.
Executing == /\ \A w \in Workers : pc[w] # "ready" => stmt[w] \in SQLs
             /\ \A w \in Workers : pc[w] = "waiting" => setup[w] = FirstSetup
             /\ session \in [Conns -> SUBSET Private!AllSetups]

IInv == /\ TypeOK /\ pool \in Pools
        /\ Holders /\ OpenOwned /\ OwnersApart /\ ClosedAtEnd
        /\ NobodyWaits /\ Executing

-----------------------------------------------------------------------------
(* The idle list.                                                          *)

\* Taking the last connection of the list ...
LEMMA TakeLast ==
  ASSUME NEW S, NEW s \in Seq(S), s # <<>>
  PROVE  LET last == s[Len(s)]
             rest == SubSeq(s, 1, Len(s) - 1)
         IN /\ rest \in Seq(S) /\ last \in S
            /\ Elements(s) = Elements(rest) \union {last}
            /\ Distinct(s) => Distinct(rest) /\ last \notin Elements(rest)
<1> DEFINE last == s[Len(s)]
           rest == SubSeq(s, 1, Len(s) - 1)
<1>1. Len(s) \in Nat /\ Len(s) > 0
  OBVIOUS
<1>2. last \in S
  BY <1>1
<1>3. rest \in Seq(S) /\ Len(rest) = Len(s) - 1 /\ \A k \in 1..Len(rest) : rest[k] = s[k]
  <2> DEFINE n == Len(s) - 1
  <2>1. n \in Nat /\ \A i \in 1..n : s[i] \in S
    BY <1>1
  <2>2. /\ SubSeq(s, 1, n) \in Seq(S)
        /\ Len(SubSeq(s, 1, n)) = IF 1 <= n THEN n - 1 + 1 ELSE 0
        /\ \A i \in 1..(n - 1 + 1) : SubSeq(s, 1, n)[i] = s[1 + i - 1]
    <3> HIDE DEF n
    <3>1. 1 \in Int /\ n \in Int
      BY <2>1
    <3> QED BY <2>1, <3>1, SubSeqProperties
  <2> HIDE DEF n
  <2>3. Len(SubSeq(s, 1, n)) = n /\ \A i \in 1..n : SubSeq(s, 1, n)[i] = s[i]
    BY <2>1, <2>2
  <2> QED BY <2>2, <2>3 DEF n
<1> HIDE DEF rest, last
<1>4. 1..Len(s) = (1..Len(rest)) \union {Len(s)}
  BY <1>1, <1>3
<1>5. Elements(s) = Elements(rest) \union {last}
  BY <1>3, <1>4 DEF Elements, last
<1>6. ASSUME Distinct(s) PROVE Distinct(rest) /\ last \notin Elements(rest)
  <2>1. \A k \in 1..Len(rest) : k # Len(s) /\ k \in 1..Len(s) /\ Len(s) \in 1..Len(s)
    BY <1>1, <1>3
  <2>2. Distinct(rest)
    BY <1>3, <1>6, <2>1 DEF Distinct
  <2>3. last \notin Elements(rest)
    BY <1>3, <1>6, <2>1 DEF Distinct, Elements, last
  <2> QED BY <2>2, <2>3
<1> QED BY <1>2, <1>3, <1>5, <1>6 DEF rest, last

\* ... closing the first ...
LEMMA TakeFirst ==
  ASSUME NEW S, NEW s \in Seq(S), s # <<>>
  PROVE  /\ Tail(s) \in Seq(S)
         /\ Elements(s) = Elements(Tail(s)) \union {Head(s)}
         /\ Distinct(s) => Distinct(Tail(s)) /\ Head(s) \notin Elements(Tail(s))
<1> DEFINE rest == Tail(s)
<1>1. /\ Len(s) \in Nat /\ Len(s) > 0 /\ Head(s) = s[1]
      /\ rest \in Seq(S) /\ Len(rest) = Len(s) - 1
      /\ \A k \in 1..Len(rest) : rest[k] = s[k + 1]
  OBVIOUS
<1> HIDE DEF rest
<1>2. \A k \in 1..Len(s) : k = 1 \/ (k - 1 \in 1..Len(rest) /\ s[k] = rest[k - 1])
  BY <1>1
<1>3. \A k \in 1..Len(rest) : k + 1 \in 1..Len(s) /\ rest[k] = s[k + 1]
  BY <1>1
<1>4. 1 \in 1..Len(s)
  BY <1>1
<1>5. Elements(s) = Elements(rest) \union {Head(s)}
  <2>1. ASSUME NEW k \in 1..Len(s) PROVE s[k] \in Elements(rest) \union {Head(s)}
    <3> DEFINE j == k - 1
    <3>1. k = 1 \/ (j \in 1..Len(rest) /\ s[k] = rest[j])
      BY <1>2
    <3> HIDE DEF j
    <3> QED BY <1>1, <3>1 DEF Elements
  <2>2. Head(s) \in Elements(s)
    BY <1>1, <1>4 DEF Elements
  <2>3. ASSUME NEW k \in 1..Len(rest) PROVE rest[k] \in Elements(s)
    <3> DEFINE j == k + 1
    <3>1. j \in 1..Len(s) /\ rest[k] = s[j]
      BY <1>3
    <3> HIDE DEF j
    <3> QED BY <3>1 DEF Elements
  <2> QED BY <2>1, <2>2, <2>3 DEF Elements
<1>6. ASSUME Distinct(s) PROVE Distinct(rest) /\ Head(s) \notin Elements(rest)
  <2>1. \A j, k \in 1..Len(rest) : rest[j] = rest[k] => j = k
    <3> SUFFICES ASSUME NEW j \in 1..Len(rest), NEW k \in 1..Len(rest), rest[j] = rest[k]
                 PROVE  j = k
      OBVIOUS
    <3>1. s[j + 1] = s[k + 1] /\ j + 1 \in 1..Len(s) /\ k + 1 \in 1..Len(s)
      BY <1>3
    <3>2. j + 1 = k + 1
      BY <1>6, <3>1 DEF Distinct
    <3> QED BY <3>2
  <2>2. \A k \in 1..Len(rest) : rest[k] # s[1]
    <3> SUFFICES ASSUME NEW k \in 1..Len(rest), rest[k] = s[1] PROVE FALSE
      OBVIOUS
    <3>1. s[k + 1] = s[1] /\ k + 1 \in 1..Len(s)
      BY <1>3
    <3>2. k + 1 = 1
      BY <1>4, <1>6, <3>1 DEF Distinct
    <3> QED BY <3>2
  <2> QED BY <1>1, <2>1, <2>2 DEF Distinct, Elements
<1> QED BY <1>1, <1>5, <1>6 DEF rest

\* ... and putting one back at its end.
LEMMA PutLast ==
  ASSUME NEW S, NEW s \in Seq(S), NEW e \in S
  PROVE  /\ Append(s, e) \in Seq(S)
         /\ Elements(Append(s, e)) = Elements(s) \union {e}
         /\ Distinct(s) /\ e \notin Elements(s) => Distinct(Append(s, e))
<1> DEFINE more == Append(s, e)
<1>1. /\ more \in Seq(S) /\ Len(s) \in Nat /\ Len(more) = Len(s) + 1
      /\ \A k \in 1..Len(s) : more[k] = s[k]
      /\ more[Len(s) + 1] = e
  OBVIOUS
<1> HIDE DEF more
<1>2. 1..Len(more) = (1..Len(s)) \union {Len(s) + 1}
  BY <1>1
<1>3. Elements(more) = Elements(s) \union {e}
  BY <1>1, <1>2 DEF Elements
<1>4. ASSUME Distinct(s), e \notin Elements(s) PROVE Distinct(more)
  BY <1>1, <1>2, <1>4 DEF Distinct, Elements
<1> QED BY <1>1, <1>3, <1>4 DEF more

-----------------------------------------------------------------------------
(* database/sql.                                                           *)

Owned == Holders /\ OpenOwned /\ OwnersApart

\* Putting a connection back: another worker, the idle list or nobody has it then.
LEMMA PutConnEffect ==
  ASSUME TypeOK, Owned, NEW w \in Workers, conn[w] # NoConn, w \notin waiting, PutConn(w)
  PROVE  /\ open' \subseteq Conns /\ idle' \in Seq(Conns) /\ broken' \subseteq Conns
         /\ waiting' \subseteq waiting /\ conn' \in [Workers -> Conns \union {NoConn}]
         /\ conn'[w] = NoConn
         /\ \A v \in Workers \ {w} :
              \/ conn'[v] = conn[v] /\ (v \in waiting' <=> v \in waiting)
              \/ conn'[v] # NoConn /\ v \in waiting /\ v \notin waiting'
         /\ MaxIdle = 0 => UNCHANGED idle
         /\ OpenOwned' /\ OwnersApart'
<1> DEFINE c == conn[w]
<1>0. /\ c \in Conns /\ c # NoConn /\ c \in Held /\ c \notin Elements(idle)
      /\ open = Elements(idle) \union Held
      /\ \A v \in Workers \ {w} : conn[v] # c
  BY PoolAssumption DEF TypeOK, Owned, OpenOwned, OwnersApart, Held
<1>1. CASE /\ UNCHANGED <<idle, waiting>>
           /\ open' = open \ {c} /\ broken' = broken \ {c}
           /\ conn' = [conn EXCEPT ![w] = NoConn]
  <2>1. conn'[w] = NoConn /\ \A v \in Workers \ {w} : conn'[v] = conn[v]
    BY <1>1 DEF TypeOK
  <2>2. Held' = Held \ {c}
    BY <1>0, <2>1 DEF Held
  <2>3. OpenOwned' /\ OwnersApart'
    BY <1>0, <1>1, <2>1, <2>2 DEF Owned, OpenOwned, OwnersApart, Elements, Distinct
  <2> QED BY <1>1, <2>1, <2>3 DEF TypeOK
<1>2. CASE /\ UNCHANGED <<open, idle, broken>>
           /\ \E v \in waiting : /\ waiting' = waiting \ {v}
                                 /\ conn' = [conn EXCEPT ![w] = NoConn, ![v] = c]
  <2>1. PICK v \in waiting : /\ waiting' = waiting \ {v}
                             /\ conn' = [conn EXCEPT ![w] = NoConn, ![v] = c]
    BY <1>2
  <2>2. v \in Workers /\ v # w /\ conn[v] = NoConn
    BY DEF TypeOK, Owned, Holders
  <2>3. /\ conn'[w] = NoConn /\ conn'[v] = c
        /\ \A u \in Workers \ {v, w} : conn'[u] = conn[u]
    BY <2>1, <2>2 DEF TypeOK
  <2>4. Held' = Held
    BY <1>0, <2>2, <2>3 DEF Held
  <2>5. OpenOwned' /\ OwnersApart'
    <3>1. \A u, x \in Workers : conn'[x] # NoConn /\ conn'[u] = conn'[x] => u = x
      BY <1>0, <2>2, <2>3 DEF Owned, OwnersApart
    <3>2. Elements(idle)' = Elements(idle) /\ (Distinct(idle)' <=> Distinct(idle))
      BY <1>2 DEF Elements, Distinct
    <3> QED BY <1>0, <1>2, <2>4, <3>1, <3>2 DEF Owned, OpenOwned, OwnersApart
  <2>6. conn' \in [Workers -> Conns \union {NoConn}]
    BY <1>0, <2>1 DEF TypeOK
  <2> QED BY <1>0, <1>2, <2>1, <2>2, <2>3, <2>5, <2>6 DEF TypeOK
<1>3. CASE /\ UNCHANGED <<open, broken, waiting>> /\ IdleRoom
           /\ idle' = Append(idle, c)
           /\ conn' = [conn EXCEPT ![w] = NoConn]
  <2>1. conn'[w] = NoConn /\ \A v \in Workers \ {w} : conn'[v] = conn[v]
    BY <1>3 DEF TypeOK
  <2>2. Held' = Held \ {c}
    BY <1>0, <2>1 DEF Held
  <2>3. idle' \in Seq(Conns) /\ Elements(idle)' = Elements(idle) \union {c} /\ Distinct(idle)'
    <3>1. idle \in Seq(Conns) /\ Distinct(idle)
      BY DEF TypeOK, Owned, OwnersApart
    <3>2. Elements(idle)' = Elements(idle') /\ (Distinct(idle)' <=> Distinct(idle'))
      BY DEF Elements, Distinct
    <3> QED BY <1>0, <1>3, <3>1, <3>2, PutLast
  <2>4. OpenOwned' /\ OwnersApart'
    BY <1>0, <1>3, <2>1, <2>2, <2>3 DEF Owned, OpenOwned, OwnersApart
  <2>5. MaxIdle # 0
    <3>1. Len(idle) \in Nat
      BY DEF TypeOK
    <3> QED BY <1>3, <3>1 DEF IdleRoom
  <2>6. conn' \in [Workers -> Conns \union {NoConn}]
    BY <1>3 DEF TypeOK
  <2> QED BY <1>3, <2>1, <2>3, <2>4, <2>5, <2>6 DEF TypeOK
<1> QED BY <1>1, <1>2, <1>3 DEF PutConn

\* Opening a connection: nobody had it, its session is fresh.
LEMMA OpenConnEffect ==
  ASSUME TypeOK, Owned, NEW w \in Workers, conn[w] = NoConn, NEW c \in Conns, OpenConn(w, c),
         UNCHANGED idle
  PROVE  /\ open' \subseteq Conns /\ conn' \in [Workers -> Conns \union {NoConn}]
         /\ conn'[w] = c /\ c # NoConn /\ \A v \in Workers \ {w} : conn'[v] = conn[v]
         /\ \A v \in Workers : conn[v] # c
         /\ session' = [session EXCEPT ![c] = {}]
         /\ OpenOwned' /\ OwnersApart'
<1>1. /\ c \notin open /\ open' = open \union {c} /\ session' = [session EXCEPT ![c] = {}]
      /\ conn' = [conn EXCEPT ![w] = c]
  BY DEF OpenConn
<1>2. c # NoConn
  BY PoolAssumption
<1>3. conn'[w] = c /\ \A v \in Workers \ {w} : conn'[v] = conn[v]
  BY <1>1 DEF TypeOK
<1>4. c \notin Held /\ c \notin Elements(idle) /\ \A v \in Workers : conn[v] # c
  BY <1>1, <1>2 DEF Owned, OpenOwned, Held
<1>5. Held' = Held \union {c}
  BY <1>2, <1>3 DEF Held
<1>6. OpenOwned' /\ OwnersApart'
  BY <1>1, <1>2, <1>3, <1>4, <1>5 DEF Owned, OpenOwned, OwnersApart, Elements, Distinct
<1> QED BY <1>1, <1>2, <1>3, <1>4, <1>6 DEF TypeOK

-----------------------------------------------------------------------------
(* Types and owners.                                                       *)

\* Steps that leave the pool and the connections of the workers alone.
LEMMA QuietSteps ==
  ASSUME TypeOK, Owned, UNCHANGED <<open, idle, waiting, conn>>,
         \A w \in Workers : pc'[w] = "ready" <=> pc[w] = "ready",
         \A w \in waiting : pc'[w] = "waiting"
  PROVE  Owned'
<1>1. Held' = Held /\ Elements(idle)' = Elements(idle) /\ (Distinct(idle)' <=> Distinct(idle))
  BY DEF Held, Elements, Distinct
<1>2. OpenOwned' /\ OwnersApart'
  BY <1>1 DEF Owned, OpenOwned, OwnersApart
<1>3. Holders'
  BY DEF Owned, Holders, TypeOK
<1> QED BY <1>2, <1>3 DEF Owned

\* A connection is taken from the list, opened, or waited for.
LEMMA AcquireStep ==
  ASSUME TypeOK, Owned, NEW w \in Workers, Acquire(w)
  PROVE  TypeOK' /\ Owned'
<1>0. /\ pc[w] = "ready" /\ conn[w] = NoConn /\ w \notin waiting
      /\ UNCHANGED <<pool, broken, ctxDone, closed>>
  BY DEF Acquire, Owned, Holders
<1>1. /\ execs' \in [Workers -> Nat] /\ stmt' \in [Workers -> SQLs \union {NoSQL}]
      /\ setup' \in [Workers -> Nat \ {0}]
  <2>1. PICK s \in SQLs : stmt' = [stmt EXCEPT ![w] = s]
    BY DEF Acquire
  <2>2. execs' = [execs EXCEPT ![w] = @ + 1] /\ setup' = [setup EXCEPT ![w] = 1]
    BY DEF Acquire, FirstSetup
  <2> QED BY <2>1, <2>2 DEF TypeOK
<1>2. CASE /\ idle # <<>>
           /\ conn' = [conn EXCEPT ![w] = idle[Len(idle)]]
           /\ idle' = SubSeq(idle, 1, Len(idle) - 1)
           /\ pc' = [pc EXCEPT ![w] = "setup"]
           /\ UNCHANGED <<open, session, waiting>>
  <2> DEFINE c == idle[Len(idle)]
  <2>1. /\ idle' \in Seq(Conns) /\ c \in Conns
        /\ Elements(idle) = Elements(idle)' \union {c}
        /\ Distinct(idle)' /\ c \notin Elements(idle)'
    <3>1. idle \in Seq(Conns) /\ Distinct(idle)
      BY DEF TypeOK, Owned, OwnersApart
    <3>2. Elements(idle)' = Elements(idle') /\ (Distinct(idle)' <=> Distinct(idle'))
      BY DEF Elements, Distinct
    <3> QED BY <1>2, <3>1, <3>2, TakeLast
  <2> HIDE DEF c
  <2>2. c # NoConn /\ c \notin Held /\ \A v \in Workers : conn[v] # c
    BY <2>1, PoolAssumption DEF Owned, OwnersApart, Held
  <2>3. conn'[w] = c /\ \A v \in Workers \ {w} : conn'[v] = conn[v]
    BY <1>2 DEF TypeOK, c
  <2>4. Held' = Held \union {c}
    BY <1>0, <2>2, <2>3 DEF Held
  <2>5. OpenOwned' /\ OwnersApart'
    BY <1>2, <2>1, <2>2, <2>3, <2>4 DEF Owned, OpenOwned, OwnersApart
  <2>6. Holders'
    BY <1>0, <1>2, <2>2, <2>3 DEF Owned, Holders, TypeOK
  <2>7. conn' \in [Workers -> Conns \union {NoConn}]
    BY <1>2, <2>1 DEF TypeOK, c
  <2> QED BY <1>0, <1>1, <1>2, <2>1, <2>5, <2>6, <2>7 DEF Owned, TypeOK
<1>3. CASE /\ \E c \in Conns : OpenConn(w, c)
           /\ pc' = [pc EXCEPT ![w] = "setup"]
           /\ UNCHANGED <<idle, waiting>>
  <2>1. PICK c \in Conns : OpenConn(w, c)
    BY <1>3
  <2>2. /\ open' \subseteq Conns /\ conn' \in [Workers -> Conns \union {NoConn}]
        /\ conn'[w] = c /\ c # NoConn /\ \A v \in Workers \ {w} : conn'[v] = conn[v]
        /\ session' = [session EXCEPT ![c] = {}]
        /\ OpenOwned' /\ OwnersApart'
    BY <1>0, <1>3, <2>1, OpenConnEffect
  <2>3. Holders'
    BY <1>0, <1>3, <2>2 DEF Owned, Holders, TypeOK
  <2> QED BY <1>0, <1>1, <1>3, <2>2, <2>3 DEF Owned, TypeOK
<1>4. CASE /\ waiting' = waiting \union {w}
           /\ pc' = [pc EXCEPT ![w] = "waiting"]
           /\ UNCHANGED <<open, idle, session, conn>>
  <2>1. Held' = Held /\ Elements(idle)' = Elements(idle) /\ (Distinct(idle)' <=> Distinct(idle))
    BY <1>4 DEF Held, Elements, Distinct
  <2>2. OpenOwned' /\ OwnersApart'
    BY <1>4, <2>1 DEF Owned, OpenOwned, OwnersApart
  <2>3. Holders'
    BY <1>0, <1>4 DEF Owned, Holders, TypeOK
  <2> QED BY <1>0, <1>1, <1>4, <2>2, <2>3 DEF Owned, TypeOK
<1> QED BY <1>2, <1>3, <1>4 DEF Acquire

\* The other steps that move a connection.
LEMMA MoveSteps ==
  ASSUME TypeOK, Owned, NEW w \in Workers, OpenForWaiter(w) \/ WaitFails(w) \/ Release(w)
  PROVE  TypeOK' /\ Owned'
<1>1. CASE OpenForWaiter(w)
  <2>1. PICK c \in Conns : OpenConn(w, c)
    BY <1>1 DEF OpenForWaiter
  <2>2. /\ w \in waiting /\ waiting' = waiting \ {w} /\ pc[w] = "waiting" /\ conn[w] = NoConn
        /\ UNCHANGED <<pool, idle, broken, pc, stmt, setup, execs, ctxDone, closed>>
    BY <1>1 DEF OpenForWaiter, Owned, Holders
  <2>3. /\ open' \subseteq Conns /\ conn' \in [Workers -> Conns \union {NoConn}]
        /\ conn'[w] = c /\ c # NoConn /\ \A v \in Workers \ {w} : conn'[v] = conn[v]
        /\ session' = [session EXCEPT ![c] = {}]
        /\ OpenOwned' /\ OwnersApart'
    BY <2>1, <2>2, OpenConnEffect
  <2>4. Holders'
    BY <2>2, <2>3 DEF Owned, Holders, TypeOK
  <2> QED BY <2>2, <2>3, <2>4 DEF Owned, TypeOK
<1>2. CASE /\ pc[w] # "ready" /\ w \notin waiting /\ PutConn(w)
           /\ pc' = [pc EXCEPT ![w] = "ready"]
           /\ stmt' = [stmt EXCEPT ![w] = NoSQL]
           /\ UNCHANGED <<pool, session, setup, execs, ctxDone, closed>>
  <2>1. conn[w] # NoConn
    BY <1>2 DEF Owned, Holders
  <2>2. /\ open' \subseteq Conns /\ idle' \in Seq(Conns) /\ broken' \subseteq Conns
        /\ waiting' \subseteq waiting /\ conn' \in [Workers -> Conns \union {NoConn}]
        /\ conn'[w] = NoConn
        /\ \A v \in Workers \ {w} :
             \/ conn'[v] = conn[v] /\ (v \in waiting' <=> v \in waiting)
             \/ conn'[v] # NoConn /\ v \in waiting /\ v \notin waiting'
        /\ OpenOwned' /\ OwnersApart'
    BY <1>2, <2>1, PutConnEffect
  <2>3. Holders'
    BY <1>2, <2>2 DEF Owned, Holders, TypeOK
  <2> QED BY <1>2, <2>2, <2>3 DEF Owned, TypeOK
<1>3. CASE /\ w \in waiting /\ waiting' = waiting \ {w}
           /\ pc' = [pc EXCEPT ![w] = "ready"]
           /\ stmt' = [stmt EXCEPT ![w] = NoSQL]
           /\ UNCHANGED <<open, idle, broken, conn, pool, session, setup, execs, ctxDone, closed>>
  <2>1. Held' = Held /\ Elements(idle)' = Elements(idle) /\ (Distinct(idle)' <=> Distinct(idle))
    BY <1>3 DEF Held, Elements, Distinct
  <2>2. OpenOwned' /\ OwnersApart'
    BY <1>3, <2>1 DEF Owned, OpenOwned, OwnersApart
  <2>3. Holders'
    BY <1>3 DEF Owned, Holders, TypeOK
  <2> QED BY <1>3, <2>2, <2>3 DEF Owned, TypeOK
<1>4. CASE Release(w)
  <2>1. w \notin waiting
    BY <1>4 DEF Release, Goto, Owned, Holders
  <2> QED BY <1>2, <1>4, <2>1 DEF Release, Goto
<1>5. CASE WaitFails(w)
  BY <1>2, <1>3, <1>5 DEF WaitFails, Goto
<1> QED BY <1>1, <1>4, <1>5

\* Every connection keeps exactly one owner.
LEMMA OwnedStep ==
  ASSUME TypeOK, Owned, Executing, [Next]_vars
  PROVE  TypeOK' /\ Owned'
<1>1. ASSUME NEW w \in Workers,
             Acquire(w) \/ OpenForWaiter(w) \/ WaitFails(w) \/ Release(w)
      PROVE  TypeOK' /\ Owned'
  BY <1>1, AcquireStep, MoveSteps
<1>2. ASSUME NEW w \in Workers, AcquireFails(w) PROVE TypeOK' /\ Owned'
  <2>1. /\ UNCHANGED <<open, idle, session, broken, waiting, conn, pc, stmt, setup, ctxDone, closed>>
        /\ execs' = [execs EXCEPT ![w] = @ + 1]
    BY <1>2 DEF AcquireFails, poolVars
  <2>2. \A v \in waiting : pc[v] = "waiting"
    BY DEF TypeOK, Owned, Holders
  <2>3. TypeOK'
    BY <2>1 DEF TypeOK
  <2> QED BY <2>1, <2>2, <2>3, QuietSteps
<1>3. ASSUME NEW w \in Workers, Granted(w) \/ SetupsDone(w) \/ Query(w) PROVE TypeOK' /\ Owned'
  <2>1. /\ UNCHANGED <<open, idle, session, broken, waiting, conn, stmt, setup, execs, ctxDone, closed>>
        /\ pc[w] # "ready" /\ \E p \in {"setup", "query", "release"} : pc' = [pc EXCEPT ![w] = p]
        /\ conn[w] # NoConn
    BY <1>3 DEF Granted, SetupsDone, Query, Goto, poolVars, Owned, Holders, TypeOK
  <2>2. w \notin waiting
    BY <2>1 DEF Owned, Holders
  <2>3. /\ \A v \in Workers : pc'[v] = "ready" <=> pc[v] = "ready"
        /\ \A v \in waiting : pc'[v] = "waiting"
    BY <2>1, <2>2 DEF TypeOK, Owned, Holders
  <2>4. TypeOK'
    BY <2>1 DEF TypeOK
  <2> QED BY <2>1, <2>3, <2>4, QuietSteps
<1>4. ASSUME NEW w \in Workers, Setup(w) PROVE TypeOK' /\ Owned'
  <2>1. /\ UNCHANGED <<open, idle, broken, waiting, conn, pc, stmt, execs, ctxDone, closed>>
        /\ pc[w] = "setup" /\ setup' = [setup EXCEPT ![w] = @ + 1]
        /\ session' \in {session, [session EXCEPT ![conn[w]] = @ \union {<<stmt[w], setup[w]>>}]}
    BY <1>4 DEF Setup
  <2>2. \A v \in waiting : pc[v] = "waiting"
    BY DEF TypeOK, Owned, Holders
  <2>3. Owned'
    BY <2>1, <2>2, QuietSteps
  <2>4. stmt[w] \in SQLs /\ setup[w] \in Nat
    BY <2>1 DEF Executing, TypeOK
  <2>5. session' \in [Conns -> SUBSET (SQLs \X Nat)]
    <3> DEFINE new == <<stmt[w], setup[w]>>
    <3>1. new \in SQLs \X Nat
      BY <2>4
    <3> HIDE DEF new
    <3>2. session' = session \/ session' = [session EXCEPT ![conn[w]] = @ \union {new}]
      BY <2>1 DEF new
    <3>3. conn[w] \in Conns
      BY <2>1 DEF TypeOK, Owned, Holders
    <3>4. session[conn[w]] \union {new} \in SUBSET (SQLs \X Nat)
      BY <3>1, <3>3 DEF TypeOK
    <3> QED BY <3>2, <3>3, <3>4 DEF TypeOK
  <2>6. setup' \in [Workers -> Nat \ {0}]
    BY <2>1 DEF TypeOK
  <2> QED BY <2>1, <2>3, <2>5, <2>6 DEF TypeOK
<1>5. ASSUME NEW w \in Workers, StatementFails(w) PROVE TypeOK' /\ Owned'
  <2>1. /\ UNCHANGED <<open, idle, session, waiting, conn, stmt, setup, execs, ctxDone, closed>>
        /\ pc[w] \in {"setup", "query"} /\ pc' = [pc EXCEPT ![w] = "release"]
        /\ \E lost \in {{}, {conn[w]}} : broken' = broken \union lost
    BY <1>5 DEF StatementFails
  <2>2. conn[w] \in Conns /\ w \notin waiting
    BY <2>1 DEF TypeOK, Owned, Holders
  <2>3. /\ \A v \in Workers : pc'[v] = "ready" <=> pc[v] = "ready"
        /\ \A v \in waiting : pc'[v] = "waiting"
    BY <2>1, <2>2 DEF TypeOK, Owned, Holders
  <2>4. TypeOK'
    BY <2>1, <2>2 DEF TypeOK
  <2> QED BY <2>1, <2>3, <2>4, QuietSteps
<1>6. CASE Cancel \/ UNCHANGED vars
  <2>1. /\ UNCHANGED <<open, idle, session, broken, waiting, conn, pc, stmt, setup, execs, closed>>
        /\ ctxDone' \in {ctxDone, TRUE}
    BY <1>6 DEF Cancel, vars, poolVars
  <2>2. \A v \in waiting : pc[v] = "waiting"
    BY DEF TypeOK, Owned, Holders
  <2> QED BY <2>1, <2>2, QuietSteps DEF TypeOK
<1>7. CASE CloseDB
  <2>1. /\ \A w \in Workers : pc[w] = "ready"
        /\ open' = open \ Elements(idle) /\ idle' = <<>> /\ closed' = TRUE
        /\ UNCHANGED <<session, broken, waiting, conn, pc, stmt, setup, execs, ctxDone>>
    BY <1>7 DEF CloseDB, Elements
  <2>2. Held' = Held /\ Elements(idle)' = {} /\ Distinct(idle)'
    BY <2>1 DEF Held, Elements, Distinct
  <2>3. OpenOwned' /\ OwnersApart'
    BY <2>1, <2>2 DEF Owned, OpenOwned, OwnersApart
  <2>4. Holders'
    BY <2>1 DEF Owned, Holders
  <2>5. idle' \in Seq(Conns)
    BY <2>1
  <2> QED BY <2>1, <2>3, <2>4, <2>5 DEF Owned, TypeOK
<1>8. CASE CloseIdle
  <2>1. /\ idle # <<>> /\ open' = open \ {Head(idle)} /\ idle' = Tail(idle)
        /\ UNCHANGED <<session, broken, waiting, conn, pc, stmt, setup, execs, ctxDone, closed>>
    BY <1>8 DEF CloseIdle
  <2>2. idle \in Seq(Conns) /\ Distinct(idle)
    BY DEF TypeOK, Owned, OwnersApart
  <2>3. /\ idle' \in Seq(Conns)
        /\ Elements(idle) = Elements(idle') \union {Head(idle)}
        /\ Distinct(idle') /\ Head(idle) \notin Elements(idle')
    BY <2>1, <2>2, TakeFirst
  <2>4. Held' = Held /\ Elements(idle)' = Elements(idle') /\ (Distinct(idle)' <=> Distinct(idle'))
    BY <2>1 DEF Held, Elements, Distinct
  <2>5. OpenOwned' /\ OwnersApart'
    BY <2>1, <2>3, <2>4 DEF Owned, OpenOwned, OwnersApart
  <2>6. Holders'
    BY <2>1 DEF Owned, Holders
  <2>7. TypeOK'
    BY <2>1, <2>3 DEF TypeOK
  <2> QED BY <2>5, <2>6, <2>7 DEF Owned
<1> QED BY <1>1, <1>2, <1>3, <1>4, <1>5, <1>6, <1>7, <1>8 DEF Next, Worker, Finished

-----------------------------------------------------------------------------
(* Executions.                                                             *)

\* A setup SQL leaves its mark on the session of its worker.
LEMMA SetupEffect ==
  ASSUME TypeOK, Owned, Executing, NEW w \in Workers, Setup(w)
  PROVE  /\ stmt[w] \in SQLs /\ setup[w] \in 1..Len(Setups[stmt[w]])
         /\ <<stmt[w], setup[w]>> \in Private!AllSetups
         /\ conn[w] \in Conns /\ conn[w] # NoConn /\ pc[w] = "setup"
         /\ setup' = [setup EXCEPT ![w] = @ + 1]
         /\ Setups[stmt[w]][setup[w]] = "" => UNCHANGED session
         /\ Setups[stmt[w]][setup[w]] # "" =>
              session' = [session EXCEPT ![conn[w]] = @ \union {<<stmt[w], setup[w]>>}]
         /\ UNCHANGED <<pool, open, idle, broken, waiting, conn, pc, stmt, execs, ctxDone, closed>>
<1>1. pc[w] = "setup" /\ setup[w] <= Len(Setups[stmt[w]])
  BY DEF Setup
<1>2. conn[w] \in Conns /\ conn[w] # NoConn /\ stmt[w] \in SQLs
  BY <1>1 DEF TypeOK, Owned, Holders, Executing
<1>3. Len(Setups[stmt[w]]) \in Nat
  BY <1>2, PoolAssumption
<1>4. setup[w] \in 1..Len(Setups[stmt[w]])
  BY <1>1, <1>3 DEF TypeOK
<1>5. <<stmt[w], setup[w]>> \in Private!AllSetups
  BY <1>2, <1>4 DEF Private!AllSetups
<1> QED BY <1>1, <1>2, <1>4, <1>5 DEF Setup

\* Executions begin with a configured SQL, and sessions carry setups.
LEMMA ExecutingStep ==
  ASSUME TypeOK, Owned, Executing, [Next]_vars
  PROVE  Executing'
<1> USE DEF TypeOK
<1>1. ASSUME UNCHANGED session \/ \E c \in Conns : session' = [session EXCEPT ![c] = {}]
      PROVE  (session \in [Conns -> SUBSET Private!AllSetups])'
  BY <1>1 DEF Executing, Private!AllSetups
<1>2. ASSUME NEW w \in Workers, Acquire(w) PROVE Executing'
  <2>1. \E s \in SQLs : stmt' = [stmt EXCEPT ![w] = s]
    BY <1>2 DEF Acquire
  <2>2. /\ setup' = [setup EXCEPT ![w] = FirstSetup]
        /\ \E p \in {"setup", "waiting"} : pc' = [pc EXCEPT ![w] = p]
        /\ UNCHANGED session \/ \E c \in Conns : session' = [session EXCEPT ![c] = {}]
    BY <1>2 DEF Acquire, OpenConn
  <2> QED BY <1>1, <2>1, <2>2 DEF Executing
<1>3. ASSUME NEW w \in Workers, OpenForWaiter(w) PROVE Executing'
  <2>1. /\ UNCHANGED <<pc, stmt, setup>>
        /\ \E c \in Conns : session' = [session EXCEPT ![c] = {}]
    BY <1>3 DEF OpenForWaiter, OpenConn
  <2> QED BY <1>1, <2>1 DEF Executing
<1>4. ASSUME NEW w \in Workers, WaitFails(w) \/ Release(w) PROVE Executing'
  <2>1. /\ pc' = [pc EXCEPT ![w] = "ready"] /\ stmt' = [stmt EXCEPT ![w] = NoSQL]
        /\ UNCHANGED <<session, setup>>
    BY <1>4 DEF WaitFails, Release, Goto
  <2> QED BY <1>1, <2>1 DEF Executing
<1>5. ASSUME NEW w \in Workers,
             \/ AcquireFails(w)
             \/ Granted(w) \/ SetupsDone(w) \/ Query(w) \/ StatementFails(w)
      PROVE  Executing'
  <2>1. /\ \/ UNCHANGED pc
           \/ /\ pc[w] # "ready"
              /\ \E p \in {"setup", "query", "release"} : pc' = [pc EXCEPT ![w] = p]
        /\ UNCHANGED <<session, stmt, setup>>
    BY <1>5 DEF AcquireFails, Granted, SetupsDone, Query, StatementFails, Goto, poolVars
  <2> QED BY <1>1, <2>1 DEF Executing
<1>6. ASSUME NEW w \in Workers, Setup(w) PROVE Executing'
  <2>1. /\ <<stmt[w], setup[w]>> \in Private!AllSetups /\ pc[w] = "setup" /\ conn[w] \in Conns
        /\ setup' = [setup EXCEPT ![w] = @ + 1] /\ UNCHANGED <<pc, stmt>>
    BY <1>6, SetupEffect
  <2> DEFINE new == <<stmt[w], setup[w]>>
  <2>2. session' = session \/ session' = [session EXCEPT ![conn[w]] = @ \union {new}]
    BY <1>6, SetupEffect
  <2>3. new \in Private!AllSetups
    BY <2>1
  <2> HIDE DEF new
  <2>4. session' \in [Conns -> SUBSET Private!AllSetups]
    <3>1. session[conn[w]] \union {new} \in SUBSET Private!AllSetups
      BY <2>1, <2>3 DEF Executing
    <3> QED BY <2>2, <3>1 DEF Executing
  <2>5. (session \in [Conns -> SUBSET Private!AllSetups])'
    BY <2>4 DEF Private!AllSetups
  <2> QED BY <2>1, <2>5 DEF Executing
<1>7. CASE Cancel \/ CloseIdle \/ CloseDB \/ UNCHANGED vars
  <2>1. UNCHANGED <<session, pc, stmt, setup>>
    BY <1>7 DEF Cancel, CloseIdle, CloseDB, vars, poolVars
  <2> QED BY <1>1, <2>1 DEF Executing
<1> QED BY <1>2, <1>3, <1>4, <1>5, <1>6, <1>7 DEF Next, Worker, Finished

\* If nothing is idle, fewer connections are open than there are workers.
LEMMA RoomForWorker ==
  ASSUME TypeOK, Owned, idle = <<>>, NEW w \in Workers, conn[w] = NoConn
  PROVE  Cardinality(open) < Cardinality(Workers) /\ Cardinality(Workers) \in Nat
<1> DEFINE S == {v \in Workers : conn[v] # NoConn}
           f == [v \in S |-> conn[v]]
<1>1. open = Held
  <2>1. Len(idle) = 0
    OBVIOUS
  <2>2. Elements(idle) = {}
    BY <2>1 DEF Elements
  <2> QED BY <2>2 DEF Owned, OpenOwned
<1>2. f \in Surjection(S, Held)
  <2>1. f \in [S -> Held]
    BY DEF Held
  <2>2. \A c \in Held : \E v \in S : f[v] = c
    BY DEF Held
  <2> HIDE DEF f
  <2> QED BY <2>1, <2>2 DEF Surjection
<1>3. IsFiniteSet(Workers) /\ Cardinality(Workers) \in Nat
  BY PoolAssumption, FS_CardinalityType
<1>4. /\ IsFiniteSet(Workers \ {w}) /\ Cardinality(Workers \ {w}) = Cardinality(Workers) - 1
  BY <1>3, FS_RemoveElement
<1>5. S \subseteq Workers \ {w}
  OBVIOUS
<1> HIDE DEF S, f
<1>6. IsFiniteSet(S) /\ Cardinality(S) <= Cardinality(Workers \ {w}) /\ Cardinality(S) \in Nat
  BY <1>4, <1>5, FS_Subset, FS_CardinalityType
<1>7. IsFiniteSet(Held) /\ Cardinality(Held) <= Cardinality(S) /\ Cardinality(Held) \in Nat
  BY <1>2, <1>6, FS_Surjection, FS_CardinalityType
<1> QED BY <1>1, <1>3, <1>4, <1>6, <1>7

\* With a connection for every worker and no idle list, every SQL gets a new connection.
LEMMA WaitStep ==
  ASSUME TypeOK, pool \in Pools, Owned, NobodyWaits, [Next]_vars
  PROVE  NobodyWaits' /\ UNCHANGED pool
<1>0. UNCHANGED pool
  BY DEF Next, Worker, Finished, Acquire, AcquireFails, Granted, OpenForWaiter, WaitFails, Setup,
     SetupsDone, Query, StatementFails, Release, Cancel, CloseIdle, CloseDB, vars, poolVars
<1>1. (Isolated' <=> Isolated) /\ MaxIdle' = MaxIdle /\ MaxOpen' = MaxOpen
  BY <1>0 DEF Isolated, MaxIdle, MaxOpen
<1>2. SUFFICES ASSUME Isolated PROVE idle' = <<>> /\ \A w \in Workers : pc'[w] # "waiting"
  BY <1>0, <1>1 DEF NobodyWaits
<1>3. /\ idle = <<>> /\ \A w \in Workers : pc[w] # "waiting" /\ w \notin waiting
      /\ MaxIdle = 0 /\ Cardinality(Workers) <= MaxOpen /\ MaxOpen \in Nat
  BY <1>2, PoolAssumption DEF NobodyWaits, Isolated, Owned, Holders, MaxOpen
<1>4. ASSUME NEW w \in Workers, Acquire(w) PROVE idle' = <<>> /\ \A v \in Workers : pc'[v] # "waiting"
  <2>1. conn[w] = NoConn
    BY <1>4 DEF Acquire, Owned, Holders
  <2>2. Cardinality(open) < Cardinality(Workers) /\ Cardinality(Workers) \in Nat
    BY <1>3, <2>1, RoomForWorker
  <2>3. IsFiniteSet(open) => Cardinality(open) \in Nat
    BY FS_CardinalityType
  <2>4. IsFiniteSet(open)
    BY PoolAssumption, FS_Subset DEF TypeOK
  <2>5. ~(Cardinality(open) >= MaxOpen)
    BY <1>3, <2>2, <2>3, <2>4
  <2>6. pc' = [pc EXCEPT ![w] = "setup"] /\ UNCHANGED idle
    BY <1>3, <1>4, <2>5 DEF Acquire
  <2> QED BY <1>3, <2>6 DEF TypeOK
<1>5. ASSUME NEW w \in Workers, Worker(w), ~Acquire(w)
      PROVE  idle' = <<>> /\ \A v \in Workers : pc'[v] # "waiting"
  <2>1. UNCHANGED pc \/ \E p \in {"setup", "query", "release", "ready"} : pc' = [pc EXCEPT ![w] = p]
    BY <1>5 DEF Worker, AcquireFails, Granted, OpenForWaiter, WaitFails, Setup, SetupsDone, Query,
       StatementFails, Release, Goto
  <2>2. UNCHANGED idle
    <3>1. CASE Release(w) \/ WaitFails(w)
      <4>1. conn[w] # NoConn /\ w \notin waiting /\ PutConn(w)
        BY <1>3, <3>1 DEF Release, WaitFails, Goto, Owned, Holders
      <4> QED BY <1>3, <4>1, PutConnEffect
    <3> QED BY <1>5, <3>1 DEF Worker, AcquireFails, Granted, OpenForWaiter, Setup, SetupsDone,
          Query, StatementFails, poolVars
  <2> QED BY <1>3, <2>1, <2>2 DEF TypeOK
<1>6. CASE Cancel \/ CloseIdle \/ CloseDB \/ UNCHANGED vars
  BY <1>3, <1>6 DEF Cancel, CloseIdle, CloseDB, vars, poolVars
<1> QED BY <1>4, <1>5, <1>6 DEF Next, Finished

\* After the end nothing happens.
LEMMA ClosedStep ==
  ASSUME TypeOK, Owned, ClosedAtEnd, [Next]_vars
  PROVE  ClosedAtEnd'
<1>1. CASE closed
  <2>1. /\ \A w \in Workers : pc[w] = "ready" /\ execs[w] = MaxExecs /\ w \notin waiting
        /\ idle = <<>>
    BY <1>1 DEF ClosedAtEnd, Owned, Holders
  <2>2. MaxExecs \in Nat
    BY PoolAssumption
  <2>3. ASSUME NEW w \in Workers, Worker(w) PROVE FALSE
    <3>1. pc[w] = "ready" /\ ~(execs[w] < MaxExecs) /\ w \notin waiting
      BY <2>1, <2>2
    <3>2. ~Acquire(w) /\ ~AcquireFails(w)
      BY <3>1 DEF Acquire, AcquireFails
    <3>3. ~OpenForWaiter(w)
      BY <3>1 DEF OpenForWaiter
    <3>4. ~Granted(w) /\ ~WaitFails(w) /\ ~SetupsDone(w) /\ ~Query(w) /\ ~Release(w)
      BY <3>1 DEF Granted, WaitFails, SetupsDone, Query, Release, Goto
    <3>5. ~Setup(w) /\ ~StatementFails(w)
      BY <3>1 DEF Setup, StatementFails
    <3> QED BY <2>3, <3>2, <3>3, <3>4, <3>5 DEF Worker
  <2>4. UNCHANGED vars
    BY <1>1, <2>3 DEF Next, Cancel, CloseIdle, CloseDB, Finished
  <2> QED BY <1>1, <2>1, <2>4 DEF ClosedAtEnd, vars, poolVars
<1>2. CASE ~closed
  <2>1. CloseDB \/ UNCHANGED closed
    BY DEF Next, Worker, Finished, Acquire, AcquireFails, Granted, OpenForWaiter, WaitFails, Setup,
       SetupsDone, Query, StatementFails, Release, Cancel, CloseIdle, vars
  <2>2. CloseDB => ClosedAtEnd'
    BY DEF CloseDB, ClosedAtEnd
  <2> QED BY <1>2, <2>1, <2>2 DEF ClosedAtEnd
<1> QED BY <1>1, <1>2

\* The pool starts with at most the connection of Ping, idle.
LEMMA InitInvariant == Init => IInv
<1> SUFFICES ASSUME Init PROVE IInv
  OBVIOUS
<1>1. PICK c \in Conns : /\ open = IF MaxIdle > 0 THEN {c} ELSE {}
                         /\ idle = IF MaxIdle > 0 THEN <<c>> ELSE <<>>
  BY DEF Init
<1>2. /\ pool \in Pools /\ broken = {} /\ waiting = {} /\ ctxDone = FALSE /\ closed = FALSE
      /\ session = [d \in Conns |-> {}] /\ conn = [w \in Workers |-> NoConn]
      /\ pc = [w \in Workers |-> "ready"] /\ stmt = [w \in Workers |-> NoSQL]
      /\ setup = [w \in Workers |-> 1] /\ execs = [w \in Workers |-> 0]
  BY DEF Init, FirstSetup
<1>3. MaxIdle \in Nat
  BY <1>2, PoolAssumption DEF MaxIdle
<1>4. Held = {}
  BY <1>2 DEF Held
<1>5. /\ open \subseteq Conns /\ idle \in Seq(Conns)
      /\ Distinct(idle) /\ open = Elements(idle) /\ (MaxIdle = 0 => idle = <<>>)
  <2>1. CASE MaxIdle > 0
    <3>1. open = {c} /\ idle = <<c>> /\ Len(idle) = 1 /\ idle[1] = c
      BY <1>1, <2>1
    <3> QED BY <2>1, <3>1 DEF Distinct, Elements
  <2>2. CASE ~(MaxIdle > 0)
    <3>1. open = {} /\ idle = <<>> /\ Len(idle) = 0
      BY <1>1, <2>2
    <3> QED BY <3>1 DEF Distinct, Elements
  <2> QED BY <2>1, <2>2
<1>6. TypeOK
  <2>1. session \in [Conns -> SUBSET (SQLs \X Nat)]
    <3>1. {} \in SUBSET (SQLs \X Nat)
      OBVIOUS
    <3> QED BY <1>2, <3>1
  <2>2. /\ conn \in [Workers -> Conns \union {NoConn}]
        /\ pc \in [Workers -> {"ready", "waiting", "setup", "query", "release"}]
        /\ stmt \in [Workers -> SQLs \union {NoSQL}]
        /\ setup \in [Workers -> Nat \ {0}] /\ execs \in [Workers -> Nat]
    BY <1>2
  <2> QED BY <1>2, <1>5, <2>1, <2>2 DEF TypeOK
<1>7. Holders /\ OpenOwned /\ OwnersApart /\ ClosedAtEnd
  BY <1>2, <1>4, <1>5 DEF Holders, OpenOwned, OwnersApart, ClosedAtEnd
<1>8. NobodyWaits /\ Executing
  BY <1>2, <1>5 DEF NobodyWaits, Isolated, Executing
<1> QED BY <1>2, <1>6, <1>7, <1>8 DEF IInv

\* Every step of the pool and of its workers keeps the invariant.
LEMMA StepInvariant == IInv /\ [Next]_vars => IInv'
<1> SUFFICES ASSUME IInv, [Next]_vars PROVE IInv'
  OBVIOUS
<1>1. TypeOK /\ pool \in Pools /\ Owned /\ ClosedAtEnd /\ NobodyWaits /\ Executing
  BY DEF IInv, Owned
<1>2. TypeOK' /\ Owned'
  BY <1>1, OwnedStep
<1>3. Executing'
  BY <1>1, ExecutingStep
<1>4. NobodyWaits' /\ UNCHANGED pool
  BY <1>1, WaitStep
<1>5. ClosedAtEnd'
  BY <1>1, ClosedStep
<1> QED BY <1>1, <1>2, <1>3, <1>4, <1>5 DEF IInv, Owned

\* The inductive invariant: a worker holds a connection from Conn to Close and no
\* other, a pool that keeps no idle connection and has one for every worker never
\* makes a worker wait, and sessions carry only what setup SQLs did.
THEOREM PoolInvariant == Spec => []IInv
BY InitInvariant, StepInvariant, PTL DEF Spec

\* Every open connection is idle or held by exactly one worker, on every path of
\* executeRunSQL and executeCompareSQL, and none is left after db.Close().
THEOREM OneOwnerAlways == Spec => []OneOwner
<1>1. IInv => OneOwner
  <2> SUFFICES ASSUME IInv PROVE OneOwner
    OBVIOUS
  <2>1. open = {idle[k] : k \in 1..Len(idle)} \union ({conn[w] : w \in Workers} \ {NoConn})
    BY DEF IInv, OpenOwned, Elements, Held
  <2>2. \A j, k \in 1..Len(idle) : idle[j] = idle[k] => j = k
    BY DEF IInv, OwnersApart, Distinct
  <2>3. \A w \in Workers : conn[w] # NoConn => conn[w] \in Held
    BY DEF Held
  <2>4. \A k \in 1..Len(idle) : idle[k] \in Elements(idle)
    BY DEF Elements
  <2>5. \A w \in Workers : conn[w] # NoConn =>
          /\ \A k \in 1..Len(idle) : idle[k] # conn[w]
          /\ \A v \in Workers : conn[v] = conn[w] => v = w
    BY <2>3, <2>4 DEF IInv, OwnersApart
  <2>6. ASSUME closed PROVE open = {}
    <3>1. Len(idle) = 0 /\ \A w \in Workers : pc[w] = "ready"
      BY <2>6 DEF IInv, ClosedAtEnd
    <3>2. \A w \in Workers : conn[w] = NoConn
      BY <3>1 DEF IInv, Holders
    <3> QED BY <2>1, <3>1, <3>2
  <2> QED BY <2>1, <2>2, <2>5, <2>6 DEF OneOwner
<1> QED BY <1>1, PoolInvariant, PTL

-----------------------------------------------------------------------------
(* The refinement: the executions of PrivateSessions are the workers that  *)
(* have a connection and have not finished their query.                    *)

Running(w) ==
  IF pc[w] \in {"setup", "query"}
  THEN Private!Execution(stmt[w], setup[w], session[conn[w]], pc[w] = "query")
  ELSE Private!NotRunning

\* The mapping of the INSTANCE, by its parts.
LEMMA Mapping ==
  ASSUME NEW w \in Workers
  PROVE  /\ ~(pc[w] \in {"setup", "query"}) => Running(w) = Private!NotRunning
         /\ pc[w] \in {"setup", "query"} =>
              /\ Running(w) # Private!NotRunning
              /\ Running(w).stmt = stmt[w] /\ Running(w).next = setup[w]
              /\ Running(w).session = session[conn[w]]
              /\ Running(w).querying <=> pc[w] = "query"
<1>1. ASSUME NEW s, NEW k, NEW m, NEW q PROVE Private!Execution(s, k, m, q) # Private!NotRunning
  <2>1. "next" \in DOMAIN Private!Execution(s, k, m, q)
    BY DEF Private!Execution
  <2>2. DOMAIN Private!NotRunning = {"stmt"}
    BY DEF Private!NotRunning
  <2> QED BY <2>1, <2>2
<1>2. Private!Execution(stmt[w], setup[w], session[conn[w]], pc[w] = "query") # Private!NotRunning
  BY <1>1
<1> QED BY <1>2 DEF Running, Private!Execution

\* One worker's execution changes and the others' do not.
LEMMA OneChanges ==
  ASSUME NEW w \in Workers, UNCHANGED pool,
         \A v \in Workers \ {w} : Running(v)' = Running(v),
         NEW r, Running(w)' = r
  PROVE  Private!Become(w, r)
<1> DEFINE R == [v \in Workers |-> Running(v)]
<1>1. R' = [R EXCEPT ![w] = r]
  OBVIOUS
<1>2. Isolated' = Isolated
  BY DEF Isolated, MaxIdle, MaxOpen
<1> QED BY <1>1, <1>2 DEF Private!Become, Running, Isolated, Private!Execution, Private!NotRunning

\* No execution changes.
LEMMA NothingChanges ==
  ASSUME UNCHANGED pool, \A v \in Workers : Running(v)' = Running(v)
  PROVE  UNCHANGED Private!privateVars
<1> DEFINE R == [v \in Workers |-> Running(v)]
<1>1. R' = R
  OBVIOUS
<1>2. Isolated' = Isolated
  BY DEF Isolated, MaxIdle, MaxOpen
<1> QED BY <1>1, <1>2 DEF Private!privateVars, Running, Isolated, Private!Execution, Private!NotRunning

\* An execution does not see what happens on connections other than its own.
LEMMA Unseen ==
  ASSUME NEW v \in Workers, pc'[v] = pc[v], stmt'[v] = stmt[v], setup'[v] = setup[v],
         pc[v] \in {"setup", "query"} =>
           conn'[v] = conn[v] /\ session'[conn[v]] = session[conn[v]]
  PROVE  Running(v)' = Running(v)
BY DEF Running

\* The abstract actions, in terms of a worker's execution.
LEMMA AbstractActions ==
  ASSUME NEW x \in Workers
  PROVE  /\ \A s \in SQLs, left \in SUBSET Private!AllSetups :
              /\ Running(x) = Private!NotRunning
              /\ Isolated => left = {}
              /\ Private!Become(x, Private!Execution(s, 1, left, FALSE))
              => Private!BeginExecution(x)
         /\ /\ Running(x) # Private!NotRunning
            /\ ~Running(x).querying /\ Running(x).next <= Len(Setups[Running(x).stmt])
            /\ Private!Become(x, Private!AfterSetup(Running(x)))
            => Private!ApplySetup(x)
         /\ /\ Running(x) # Private!NotRunning
            /\ Running(x).next > Len(Setups[Running(x).stmt])
            /\ Private!Become(x, Private!Execution(Running(x).stmt, Running(x).next,
                                                  Running(x).session, TRUE))
            => Private!BeginQuery(x)
         /\ /\ Running(x) # Private!NotRunning
            /\ Private!Become(x, Private!NotRunning)
            => Private!EndExecution(x)
<1> DEFINE R == [w \in Workers |->
                  IF pc[w] \in {"setup", "query"}
                  THEN [stmt |-> stmt[w], next |-> setup[w], session |-> session[conn[w]],
                        querying |-> pc[w] = "query"]
                  ELSE [stmt |-> "none"]]
<1>1. R[x] = Running(x)
  BY DEF Running, Private!Execution, Private!NotRunning
<1> HIDE DEF R
<1>2. Private!BeginExecution(x) <=>
        /\ R[x] = Private!NotRunning
        /\ \E s \in SQLs, left \in SUBSET Private!AllSetups :
             /\ Isolated => left = {}
             /\ Private!Become(x, Private!Execution(s, 1, left, FALSE))
  BY DEF Private!BeginExecution, R, Isolated
<1>3. Private!ApplySetup(x) <=>
        /\ R[x] # Private!NotRunning
        /\ ~R[x].querying /\ R[x].next <= Len(Setups[R[x].stmt])
        /\ Private!Become(x, Private!AfterSetup(R[x]))
  BY DEF Private!ApplySetup, Private!Become, R
<1>4. Private!BeginQuery(x) <=>
        /\ R[x] # Private!NotRunning /\ R[x].next > Len(Setups[R[x].stmt])
        /\ Private!Become(x, Private!Execution(R[x].stmt, R[x].next, R[x].session, TRUE))
  BY DEF Private!BeginQuery, Private!Become, R
<1>5. Private!EndExecution(x) <=> R[x] # Private!NotRunning /\ Private!Become(x, Private!NotRunning)
  BY DEF Private!EndExecution, R
<1> QED BY <1>1, <1>2, <1>3, <1>4, <1>5 DEF Private!Become

\* Connections of workers that execute are held by nobody else.
LEMMA Apart ==
  ASSUME IInv
  PROVE  \A v \in Workers : pc[v] \in {"setup", "query"} =>
           /\ conn[v] \in Conns /\ conn[v] # NoConn /\ v \notin waiting /\ stmt[v] \in SQLs
           /\ \A w \in Workers \ {v} : conn[w] # conn[v]
BY DEF IInv, TypeOK, Holders, OwnersApart, Executing

\* Getting a connection at once begins an execution, and waiting for one does not.
LEMMA AcquireMaps ==
  ASSUME IInv, IInv', NEW w \in Workers, Acquire(w)
  PROVE  Private!BeginExecution(w) \/ UNCHANGED Private!privateVars
<1>0. /\ pc[w] = "ready" /\ conn[w] = NoConn /\ UNCHANGED pool
      /\ setup' = [setup EXCEPT ![w] = 1]
  BY DEF Acquire, FirstSetup, IInv, Holders
<1>1. PICK s \in SQLs : stmt' = [stmt EXCEPT ![w] = s]
  BY DEF Acquire
<1>2. Running(w) = Private!NotRunning
  BY <1>0 DEF Running
<1>3. ASSUME pc' = [pc EXCEPT ![w] = "setup"],
             \A v \in Workers \ {w} : pc[v] \in {"setup", "query"} =>
               conn'[v] = conn[v] /\ session'[conn[v]] = session[conn[v]],
             Isolated => session'[conn'[w]] = {}
      PROVE  Private!BeginExecution(w)
  <2>1. \A v \in Workers \ {w} : Running(v)' = Running(v)
    <3> SUFFICES ASSUME NEW v \in Workers \ {w} PROVE Running(v)' = Running(v)
      OBVIOUS
    <3>1. pc'[v] = pc[v] /\ stmt'[v] = stmt[v] /\ setup'[v] = setup[v]
      BY <1>0, <1>1, <1>3 DEF IInv, TypeOK
    <3> QED BY <1>3, <3>1, Unseen
  <2>2. pc'[w] = "setup" /\ stmt'[w] = s /\ setup'[w] = 1
    BY <1>0, <1>1, <1>3 DEF IInv, TypeOK
  <2> DEFINE left == session'[conn'[w]]
  <2>3. Running(w)' = Private!Execution(s, 1, left, FALSE)
    <3>1. (pc'[w] = "query") = FALSE
      BY <2>2
    <3> QED BY <2>2, <3>1 DEF Running, Private!Execution
  <2>4. left \in SUBSET Private!AllSetups
    <3>1. conn'[w] \in Conns
      BY <2>2 DEF IInv, TypeOK, Holders
    <3>2. session' \in [Conns -> SUBSET Private!AllSetups]
      BY DEF IInv, Executing, Private!AllSetups
    <3> QED BY <3>1, <3>2
  <2>5. Isolated => left = {}
    BY <1>3
  <2> HIDE DEF left
  <2>6. Private!Become(w, Private!Execution(s, 1, left, FALSE))
    BY <1>0, <2>1, <2>3, OneChanges DEF Private!Become
  <2> QED BY <1>2, <2>4, <2>5, <2>6, AbstractActions DEF Private!Become
<1>4. CASE /\ idle # <<>>
           /\ conn' = [conn EXCEPT ![w] = idle[Len(idle)]]
           /\ pc' = [pc EXCEPT ![w] = "setup"]
           /\ UNCHANGED session
  <2>1. ~Isolated
    BY <1>4 DEF IInv, NobodyWaits
  <2>2. \A v \in Workers \ {w} : conn'[v] = conn[v]
    BY <1>4 DEF IInv, TypeOK
  <2> QED BY <1>3, <1>4, <2>1, <2>2
<1>5. CASE /\ \E c \in Conns : OpenConn(w, c)
           /\ pc' = [pc EXCEPT ![w] = "setup"]
           /\ UNCHANGED idle
  <2>1. PICK c \in Conns : OpenConn(w, c)
    BY <1>5
  <2>2. /\ conn'[w] = c /\ \A v \in Workers \ {w} : conn'[v] = conn[v]
        /\ \A v \in Workers : conn[v] # c
        /\ session' = [session EXCEPT ![c] = {}]
    BY <1>0, <1>5, <2>1, OpenConnEffect DEF IInv, Owned
  <2>3. session'[c] = {} /\ \A d \in Conns \ {c} : session'[d] = session[d]
    BY <2>2 DEF IInv, TypeOK
  <2>4. \A v \in Workers \ {w} : pc[v] \in {"setup", "query"} =>
          conn'[v] = conn[v] /\ session'[conn[v]] = session[conn[v]]
    BY <2>2, <2>3, Apart
  <2> QED BY <1>3, <1>5, <2>2, <2>3, <2>4
<1>6. CASE /\ pc' = [pc EXCEPT ![w] = "waiting"]
           /\ UNCHANGED <<session, conn>>
  <2> SUFFICES ASSUME NEW v \in Workers PROVE Running(v)' = Running(v)
    BY <1>0, NothingChanges
  <2>1. CASE v = w
    <3>1. pc'[w] = "waiting"
      BY <1>6 DEF IInv, TypeOK
    <3> QED BY <1>2, <2>1, <3>1 DEF Running, Private!NotRunning
  <2>2. CASE v # w
    <3>1. pc'[v] = pc[v] /\ stmt'[v] = stmt[v] /\ setup'[v] = setup[v]
      BY <1>0, <1>1, <1>6, <2>2 DEF IInv, TypeOK
    <3> QED BY <1>6, <3>1, Unseen
  <2> QED BY <2>1, <2>2
<1> QED BY <1>4, <1>5, <1>6 DEF Acquire

\* A worker that had to wait begins its execution when it is handed a connection.
LEMMA GrantedMaps ==
  ASSUME IInv, NEW w \in Workers, Granted(w)
  PROVE  Private!BeginExecution(w)
<1>1. /\ pc[w] = "waiting" /\ pc' = [pc EXCEPT ![w] = "setup"] /\ conn[w] # NoConn
      /\ UNCHANGED <<pool, session, conn, stmt, setup>>
  BY DEF Granted, Goto, poolVars
<1>2. /\ stmt[w] \in SQLs /\ setup[w] = 1 /\ conn[w] \in Conns /\ ~Isolated
      /\ session \in [Conns -> SUBSET Private!AllSetups]
  BY <1>1 DEF IInv, Executing, NobodyWaits, TypeOK, FirstSetup
<1>3. pc'[w] = "setup" /\ \A v \in Workers \ {w} : pc'[v] = pc[v]
  BY <1>1 DEF IInv, TypeOK
<1>4. \A v \in Workers \ {w} : Running(v)' = Running(v)
  BY <1>1, <1>3, Unseen
<1>5. Running(w) = Private!NotRunning
  BY <1>1, Mapping
<1>6. Running(w)' = Private!Execution(stmt[w], 1, session[conn[w]], FALSE)
  <2>1. (pc'[w] = "query") = FALSE
    BY <1>3
  <2> QED BY <1>1, <1>2, <1>3, <2>1 DEF Running, Private!Execution
<1>7. Private!Become(w, Private!Execution(stmt[w], 1, session[conn[w]], FALSE))
  BY <1>1, <1>4, <1>6, OneChanges DEF Private!Become
<1>8. session[conn[w]] \in SUBSET Private!AllSetups
  BY <1>2
<1> QED BY <1>2, <1>5, <1>7, <1>8, AbstractActions DEF Private!Become

\* A setup SQL takes effect on the session of its worker and on no other's.
LEMMA SetupMaps ==
  ASSUME IInv, NEW w \in Workers, Setup(w)
  PROVE  Private!ApplySetup(w)
<1>1. /\ stmt[w] \in SQLs /\ setup[w] \in 1..Len(Setups[stmt[w]])
      /\ conn[w] \in Conns /\ pc[w] = "setup"
      /\ setup' = [setup EXCEPT ![w] = @ + 1]
      /\ Setups[stmt[w]][setup[w]] = "" => UNCHANGED session
      /\ Setups[stmt[w]][setup[w]] # "" =>
           session' = [session EXCEPT ![conn[w]] = @ \union {<<stmt[w], setup[w]>>}]
      /\ UNCHANGED <<pool, conn, pc, stmt>>
  BY SetupEffect DEF IInv, Owned
<1>2. UNCHANGED pool
  BY <1>1
<1>3. \A v \in Workers \ {w} : Running(v)' = Running(v)
  <2> SUFFICES ASSUME NEW v \in Workers \ {w} PROVE Running(v)' = Running(v)
    OBVIOUS
  <2>1. pc'[v] = pc[v] /\ stmt'[v] = stmt[v] /\ setup'[v] = setup[v] /\ conn'[v] = conn[v]
    BY <1>1 DEF IInv, TypeOK
  <2>2. ASSUME pc[v] \in {"setup", "query"} PROVE session'[conn[v]] = session[conn[v]]
    <3>1. conn[v] \in Conns /\ conn[v] # conn[w]
      BY <2>2, Apart
    <3> DEFINE new == <<stmt[w], setup[w]>>
    <3>2. session' = session \/ session' = [session EXCEPT ![conn[w]] = @ \union {new}]
      BY <1>1
    <3> HIDE DEF new
    <3> QED BY <3>1, <3>2 DEF IInv, TypeOK
  <2> QED BY <2>1, <2>2, Unseen
<1> DEFINE marked == IF Setups[stmt[w]][setup[w]] = "" THEN session[conn[w]]
                     ELSE session[conn[w]] \union {<<stmt[w], setup[w]>>}
<1>4. session'[conn[w]] = marked
  <2> DEFINE new == <<stmt[w], setup[w]>>
  <2>1. \/ Setups[stmt[w]][setup[w]] = "" /\ session' = session
        \/ /\ Setups[stmt[w]][setup[w]] # ""
           /\ session' = [session EXCEPT ![conn[w]] = @ \union {new}]
    BY <1>1
  <2>2. marked = IF Setups[stmt[w]][setup[w]] = "" THEN session[conn[w]]
                 ELSE session[conn[w]] \union {new}
    OBVIOUS
  <2> HIDE DEF new, marked
  <2> QED BY <1>1, <2>1, <2>2 DEF IInv, TypeOK
<1> HIDE DEF marked
<1>5. (pc[w] = "query") = FALSE /\ (pc'[w] = "query") = FALSE /\ pc'[w] = "setup"
  BY <1>1
<1>6. Running(w) = Private!Execution(stmt[w], setup[w], session[conn[w]], FALSE)
  BY <1>1, <1>5 DEF Running, Private!Execution
<1>7. Running(w)' = Private!Execution(stmt[w], setup[w] + 1, marked, FALSE)
  <2>1. setup'[w] = setup[w] + 1 /\ stmt'[w] = stmt[w] /\ conn'[w] = conn[w]
    BY <1>1 DEF IInv, TypeOK
  <2> QED BY <1>4, <1>5, <2>1 DEF Running, Private!Execution
<1>8. Private!AfterSetup(Running(w)) = Private!Execution(stmt[w], setup[w] + 1, marked, FALSE)
  <2>1. /\ Running(w).stmt = stmt[w] /\ Running(w).next = setup[w]
        /\ Running(w).session = session[conn[w]]
    BY <1>1, Mapping
  <2> QED BY <2>1 DEF Private!AfterSetup, marked
<1>9. Private!Become(w, Private!AfterSetup(Running(w)))
  BY <1>2, <1>3, <1>7, <1>8, OneChanges DEF Private!Become
<1>10. Running(w) # Private!NotRunning /\ ~Running(w).querying
  BY <1>1, Mapping
<1>11. Running(w).next <= Len(Setups[Running(w).stmt])
  <2>1. Running(w).next = setup[w] /\ Running(w).stmt = stmt[w]
    BY <1>1, Mapping
  <2>2. setup[w] <= Len(Setups[stmt[w]])
    BY DEF Setup
  <2> QED BY <2>1, <2>2
<1> QED BY <1>9, <1>10, <1>11, AbstractActions DEF Private!Become

\* The query begins when all setup SQLs have been executed.
LEMMA SetupsDoneMaps ==
  ASSUME IInv, NEW w \in Workers, SetupsDone(w)
  PROVE  Private!BeginQuery(w)
<1>1. /\ pc[w] = "setup" /\ pc' = [pc EXCEPT ![w] = "query"]
      /\ setup[w] = Len(Setups[stmt[w]]) + 1 /\ stmt[w] \in SQLs
      /\ UNCHANGED <<pool, session, conn, stmt, setup>>
  BY DEF SetupsDone, Goto, poolVars, IInv, Executing
<1>2. pc'[w] = "query" /\ \A v \in Workers \ {w} : pc'[v] = pc[v]
  BY <1>1 DEF IInv, TypeOK
<1>3. \A v \in Workers \ {w} : Running(v)' = Running(v)
  BY <1>1, <1>2, Unseen
<1>4. (pc[w] = "query") = FALSE /\ (pc'[w] = "query") = TRUE
  BY <1>1, <1>2
<1>5. /\ Running(w) = Private!Execution(stmt[w], setup[w], session[conn[w]], FALSE)
      /\ Running(w)' = Private!Execution(stmt[w], setup[w], session[conn[w]], TRUE)
  BY <1>1, <1>2, <1>4 DEF Running, Private!Execution
<1>6. /\ Running(w).stmt = stmt[w] /\ Running(w).next = setup[w]
      /\ Running(w).session = session[conn[w]]
  BY <1>1, Mapping
<1>7. Private!Become(w, Private!Execution(Running(w).stmt, Running(w).next, Running(w).session, TRUE))
  BY <1>1, <1>3, <1>5, <1>6, OneChanges DEF Private!Become
<1>8. Running(w) # Private!NotRunning /\ Running(w).next > Len(Setups[Running(w).stmt])
  <2>1. /\ Running(w) # Private!NotRunning
        /\ Running(w).next = setup[w] /\ Running(w).stmt = stmt[w]
    BY <1>1, Mapping
  <2>2. Len(Setups[stmt[w]]) \in Nat
    BY <1>1, PoolAssumption
  <2> QED BY <1>1, <2>1, <2>2
<1> QED BY <1>7, <1>8, AbstractActions DEF Private!Become

\* An execution ends with its query or with the first statement that fails.
LEMMA EndMaps ==
  ASSUME IInv, NEW w \in Workers, Query(w) \/ StatementFails(w)
  PROVE  Private!EndExecution(w)
<1>1. /\ pc[w] \in {"setup", "query"} /\ pc' = [pc EXCEPT ![w] = "release"]
      /\ UNCHANGED <<pool, session, conn, stmt, setup>>
  BY DEF Query, StatementFails, Goto, poolVars
<1>2. pc'[w] = "release" /\ \A v \in Workers \ {w} : pc'[v] = pc[v]
  BY <1>1 DEF IInv, TypeOK
<1>3. \A v \in Workers \ {w} : Running(v)' = Running(v)
  BY <1>1, <1>2, Unseen
<1>4. Running(w)' = Private!NotRunning
  BY <1>2 DEF Running, Private!NotRunning
<1>5. Running(w) # Private!NotRunning
  BY <1>1, Mapping
<1>6. Private!Become(w, Private!NotRunning)
  BY <1>1, <1>3, <1>4, OneChanges DEF Private!Become
<1> QED BY <1>5, <1>6, AbstractActions

\* What the pool does for workers that wait or release is not seen by executions.
LEMMA PoolMaps ==
  ASSUME IInv, NEW w \in Workers,
         AcquireFails(w) \/ OpenForWaiter(w) \/ WaitFails(w) \/ Release(w)
  PROVE  UNCHANGED Private!privateVars
<1> SUFFICES ASSUME NEW v \in Workers PROVE Running(v)' = Running(v) /\ UNCHANGED pool
  BY NothingChanges DEF AcquireFails, OpenForWaiter, WaitFails, Release, poolVars
<1>1. UNCHANGED pool
  BY DEF AcquireFails, OpenForWaiter, WaitFails, Release, poolVars
<1>2. CASE AcquireFails(w)
  BY <1>1, <1>2, Unseen DEF AcquireFails, poolVars
<1>3. CASE OpenForWaiter(w)
  <2>1. /\ w \in waiting /\ conn[w] = NoConn /\ pc[w] = "waiting"
        /\ UNCHANGED <<idle, pc, stmt, setup>>
    BY <1>3 DEF OpenForWaiter, IInv, Holders
  <2>2. PICK c \in Conns : OpenConn(w, c)
    BY <1>3 DEF OpenForWaiter
  <2>3. /\ \A u \in Workers \ {w} : conn'[u] = conn[u]
        /\ \A u \in Workers : conn[u] # c
        /\ session' = [session EXCEPT ![c] = {}]
    BY <2>1, <2>2, OpenConnEffect DEF IInv, Owned
  <2>4. pc[v] \in {"setup", "query"} => conn'[v] = conn[v] /\ session'[conn[v]] = session[conn[v]]
    BY <2>1, <2>3, Apart DEF IInv, TypeOK
  <2> QED BY <1>1, <2>1, <2>4, Unseen
<1>4. CASE WaitFails(w) \/ Release(w)
  <2>1. /\ pc[w] \in {"waiting", "release"} /\ pc' = [pc EXCEPT ![w] = "ready"]
        /\ stmt' = [stmt EXCEPT ![w] = NoSQL] /\ UNCHANGED <<session, setup>>
    BY <1>4 DEF WaitFails, Release, Goto
  <2>2. UNCHANGED conn \/ (conn[w] # NoConn /\ w \notin waiting /\ PutConn(w))
    BY <1>4 DEF WaitFails, Release, Goto, IInv, Holders
  <2>3. v \notin waiting /\ v # w => conn'[v] = conn[v]
    BY <2>2, PutConnEffect DEF IInv, Owned
  <2>4. CASE v = w
    <3>1. pc'[w] = "ready"
      BY <2>1 DEF IInv, TypeOK
    <3> QED BY <1>1, <2>1, <2>4, <3>1 DEF Running, Private!NotRunning
  <2>5. CASE v # w
    <3>1. pc'[v] = pc[v] /\ stmt'[v] = stmt[v] /\ setup'[v] = setup[v]
      BY <2>1, <2>5 DEF IInv, TypeOK
    <3>2. pc[v] \in {"setup", "query"} => conn'[v] = conn[v]
      BY <2>3, <2>5, Apart
    <3> QED BY <1>1, <2>1, <3>1, <3>2, Unseen
  <2> QED BY <2>4, <2>5
<1> QED BY <1>2, <1>3, <1>4

\* The pool implements PrivateSessions: whatever connections are idle, opened, waited
\* for, handed over, lost or closed, an execution has its session to itself, its setup
\* SQLs take effect in order and before its query, and the session is new if no idle
\* connections are kept and every worker can have a connection.
THEOREM PoolImplementsPrivateSessions == Spec => ImplementsPrivateSessions
<1>1. Init => Private!PrivateInit
  <2> SUFFICES ASSUME Init PROVE Private!PrivateInit
    OBVIOUS
  <2>1. pc = [w \in Workers |-> "ready"]
    BY DEF Init
  <2> QED BY <2>1 DEF Private!PrivateInit, Private!NotRunning
<1>2. IInv /\ IInv' /\ [Next]_vars => [Private!PrivateNext]_Private!privateVars
  <2> SUFFICES ASSUME IInv, IInv', [Next]_vars
               PROVE  Private!PrivateNext \/ UNCHANGED Private!privateVars
    OBVIOUS
  <2>1. ASSUME NEW w \in Workers, Worker(w)
        PROVE  Private!PrivateNext \/ UNCHANGED Private!privateVars
    <3>1. \/ Private!BeginExecution(w) \/ Private!ApplySetup(w) \/ Private!BeginQuery(w)
          \/ Private!EndExecution(w) \/ UNCHANGED Private!privateVars
      BY <2>1, AcquireMaps, GrantedMaps, SetupMaps, SetupsDoneMaps, EndMaps, PoolMaps DEF Worker
    <3> QED BY <3>1 DEF Private!PrivateNext
  <2>2. CASE Cancel \/ CloseIdle \/ CloseDB \/ UNCHANGED vars
    <3>1. UNCHANGED <<pool, session, conn, pc, stmt, setup>>
      BY <2>2 DEF Cancel, CloseIdle, CloseDB, vars, poolVars
    <3>2. \A v \in Workers : Running(v)' = Running(v)
      BY <3>1, Unseen
    <3> QED BY <3>1, <3>2, NothingChanges
  <2> QED BY <2>1, <2>2 DEF Next, Finished
<1> QED BY <1>1, <1>2, PoolInvariant, PTL DEF Spec, ImplementsPrivateSessions, Private!PrivateSpec
=============================================================================
