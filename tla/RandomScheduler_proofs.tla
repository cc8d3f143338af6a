----------------------- MODULE RandomScheduler_proofs -----------------------
(***************************************************************************)
(* The random scheduler, for any number of items, clients and limits: its  *)
(* invariants, and that it implements the abstract quota.  The lemmas      *)
(* about one call of next() are used again by the proofs of the workloads  *)
(* that share the scheduler.                                               *)
(***************************************************************************)
EXTENDS RandomScheduler, TLAPS

\* What the scheduler alone guarantees, whoever calls it.
SchedulerInv == /\ SchedulerTypeOK
                /\ AvailableIsExact
                /\ LimitRespected
                /\ RunNumbersUnique

\* Swap-removal of run_sqls.go:122-126 keeps a slice of items.
LEMMA SwapRemoveType ==
  ASSUME NEW S, NEW s \in Seq(S), NEW k \in 1..Len(s)
  PROVE  SwapRemove(s, k) \in Seq(S) /\ Len(SwapRemove(s, k)) = Len(s) - 1
BY DEF SwapRemove

\* On a slice without duplicates it removes the element at k and no other, and
\* creates no duplicate.
LEMMA SwapRemoveExact ==
  ASSUME NEW S, NEW s \in Seq(S), NEW k \in 1..Len(s),
         \A j, m \in 1..Len(s) : s[j] = s[m] => j = m
  PROVE  /\ \A j, m \in 1..(Len(s) - 1) :
              SwapRemove(s, k)[j] = SwapRemove(s, k)[m] => j = m
         /\ \A j \in 1..(Len(s) - 1) :
              SwapRemove(s, k)[j] \in S /\ SwapRemove(s, k)[j] # s[k]
<1> DEFINE L == Len(s)
           r == SwapRemove(s, k)
<1>1. L \in Nat /\ k \in 1..L /\ \A j \in 1..L : s[j] \in S
  OBVIOUS
<1>2. \A j \in 1..(L - 1) : r[j] = IF j = k THEN s[L] ELSE s[j]
  BY DEF SwapRemove
<1>3. \A j, m \in 1..L : s[j] = s[m] => j = m
  OBVIOUS
<1> HIDE DEF L, r
<1>4. ASSUME NEW j \in 1..(L - 1), NEW m \in 1..(L - 1), r[j] = r[m]
      PROVE  j = m
  <2>1. j \in 1..L /\ m \in 1..L /\ L \in 1..L /\ j # L /\ m # L
    BY <1>1
  <2>2. CASE j = k /\ m # k
    BY <2>1, <2>2, <1>2, <1>3, <1>4
  <2>3. CASE j # k /\ m = k
    BY <2>1, <2>3, <1>2, <1>3, <1>4
  <2>4. CASE j # k /\ m # k
    BY <2>1, <2>4, <1>2, <1>3, <1>4
  <2> QED BY <2>2, <2>3, <2>4
<1>5. ASSUME NEW j \in 1..(L - 1)
      PROVE  r[j] \in S /\ r[j] # s[k]
  <2>1. j \in 1..L /\ L \in 1..L /\ j # L
    BY <1>1
  <2>2. CASE j = k
    BY <2>1, <2>2, <1>1, <1>2, <1>3
  <2>3. CASE j # k
    BY <2>1, <2>3, <1>1, <1>2, <1>3
  <2> QED BY <2>2, <2>3
<1> QED BY <1>4, <1>5 DEF L, r

\* A new scheduler satisfies its invariant.
LEMMA NewSchedulerInv ==
  ASSUME NEW runsLimit \in Limits, NewScheduler(runsLimit)
  PROVE  SchedulerInv
<1> USE SchedulerAssumption DEF NewScheduler, Items
<1>1. SchedulerTypeOK
  BY DEF SchedulerTypeOK, Grants
<1>2. AvailableIsExact
  <2>1. Len(available) = ItemCount
    OBVIOUS
  <2> QED BY <2>1 DEF AvailableIsExact
<1>3. LimitRespected
  BY DEF LimitRespected
<1>4. RunNumbersUnique
  BY DEF RunNumbersUnique, NoGrant
<1> QED BY <1>1, <1>2, <1>3, <1>4 DEF SchedulerInv

\* What next() returns: an item comes with a run number.
LEMMA GrantType ==
  ASSUME NEW g \in Grants, g.item \in Items
  PROVE  g.run \in Nat \ {0}
<1>1. CASE g \in {NoGrant, Nothing}
  <2>1. g.item = 0
    BY <1>1 DEF NoGrant, Nothing
  <2> QED BY <2>1, SchedulerAssumption DEF Items
<1>2. CASE g \in [item : Items, run : Nat \ {0}, ok : {TRUE}]
  BY <1>2
<1> QED BY <1>1, <1>2 DEF Grants

\* One call of next() that draws an index keeps the types.
LEMMA TakeType ==
  ASSUME SchedulerTypeOK, NEW c \in Clients, NEW k \in 1..Len(available), Take(c, k)
  PROVE  SchedulerTypeOK'
<1> DEFINE i == available[k]
           n == runCounts[i] + 1
<1> USE SchedulerAssumption DEF SchedulerTypeOK
<1>1. i \in Items /\ n \in Nat \ {0}
  OBVIOUS
<1>2. (runCounts \in [Items -> Nat])'
  BY <1>1 DEF Take
<1>3. (grant \in [Clients -> Grants])'
  <2>1. [item |-> i, run |-> n, ok |-> TRUE] \in Grants
    BY <1>1 DEF Grants
  <2> QED BY <2>1 DEF Take
<1>4. (available \in Seq(Items))'
  BY SwapRemoveType DEF Take
<1> QED BY <1>2, <1>3, <1>4 DEF Take

\* ... and keeps the slice exact and the limit respected.
LEMMA TakeExact ==
  ASSUME SchedulerTypeOK, AvailableIsExact, LimitRespected,
         NEW c \in Clients, NEW k \in 1..Len(available), Take(c, k)
  PROVE  AvailableIsExact' /\ LimitRespected'
<1> DEFINE i == available[k]
           n == runCounts[i] + 1
           L == Len(available)
<1> USE SchedulerAssumption DEF SchedulerTypeOK
<1>1. /\ i \in Items /\ n \in Nat \ {0} /\ L \in Nat /\ limit \in Nat
      /\ limit' = limit
      /\ runCounts[i] \in Nat
  BY DEF Take
<1>2. limit = 0 \/ runCounts[i] < limit
  BY <1>1 DEF AvailableIsExact
<1>3. /\ runCounts'[i] = n
      /\ \A j \in Items \ {i} : runCounts'[j] = runCounts[j]
  BY <1>1 DEF Take
<1>4. LimitRespected'
  <2>1. \A j \in Items : runCounts[j] \in Nat
    OBVIOUS
  <2> QED BY <1>1, <1>2, <1>3, <2>1 DEF LimitRespected
<1>5. CASE limit > 0 /\ n >= limit
  <2>1. /\ Len(available') = L - 1
        /\ \A j \in 1..(L - 1) :
             available'[j] = IF j = k THEN available[L] ELSE available[j]
    BY <1>5, SwapRemoveType DEF Take, SwapRemove
  <2>2. available' = SwapRemove(available, k)
    BY <1>5 DEF Take
  <2>3. /\ \A j, m \in 1..(L - 1) : available'[j] = available'[m] => j = m
        /\ \A j \in 1..(L - 1) : available'[j] \in Items /\ available'[j] # i
    <3>1. available \in Seq(Items) /\ k \in 1..Len(available)
      OBVIOUS
    <3>2. \A j, m \in 1..Len(available) : available[j] = available[m] => j = m
      BY DEF AvailableIsExact
    <3>3. /\ \A j, m \in 1..(Len(available) - 1) :
               SwapRemove(available, k)[j] = SwapRemove(available, k)[m] => j = m
          /\ \A j \in 1..(Len(available) - 1) :
               /\ SwapRemove(available, k)[j] \in Items
               /\ SwapRemove(available, k)[j] # available[k]
      BY <3>1, <3>2, SwapRemoveExact, Zenon
    <3> QED BY <2>2, <3>3
  <2>4. ~(runCounts'[i] < limit) /\ limit # 0
    BY <1>5, <1>3, <1>1
  <2>5. \A j \in Items \ {i} :
          (\E m \in 1..L : available[m] = j) <=> (\E m \in 1..(L - 1) : available'[m] = j)
    <3> TAKE j \in Items \ {i}
    <3>1. ASSUME NEW m \in 1..L, available[m] = j
          PROVE  \E p \in 1..(L - 1) : available'[p] = j
      <4>1. m # k
        BY <3>1
      <4>2. CASE m = L
        <5>1. k \in 1..(L - 1) /\ available'[k] = j
          BY <2>1, <3>1, <4>1, <4>2, <1>1
        <5> QED BY <5>1
      <4>3. CASE m # L
        <5>1. m \in 1..(L - 1) /\ available'[m] = j
          BY <2>1, <3>1, <4>1, <4>3, <1>1
        <5> QED BY <5>1
      <4> QED BY <4>2, <4>3
    <3>2. ASSUME NEW m \in 1..(L - 1), available'[m] = j
          PROVE  \E p \in 1..L : available[p] = j
      <4>1. L \in 1..L /\ m \in 1..L
        BY <1>1
      <4> QED BY <2>1, <3>2, <4>1
    <3> QED BY <3>1, <3>2
  <2> HIDE DEF i, n, L
  <2>6. \A j \in Items : (\E m \in 1..(L - 1) : available'[m] = j)
                            <=> (limit = 0 \/ runCounts'[j] < limit)
    <3> TAKE j \in Items
    <3>1. CASE j = i
      BY <3>1, <2>3, <2>4
    <3>2. CASE j # i
      BY <3>2, <2>5, <1>3 DEF AvailableIsExact, L
    <3> QED BY <3>1, <3>2
  <2> QED BY <2>1, <2>3, <2>6, <1>1, <1>4 DEF AvailableIsExact, L
<1>6. CASE ~(limit > 0 /\ n >= limit)
  <2>1. available' = available
    BY <1>6 DEF Take
  <2>2. limit = 0 \/ runCounts'[i] < limit
    BY <1>6, <1>3, <1>1
  <2>3. \A j \in Items : (limit = 0 \/ runCounts'[j] < limit)
                            <=> (limit = 0 \/ runCounts[j] < limit)
    BY <2>2, <1>2, <1>3, <1>1
  <2> QED BY <2>1, <2>3, <1>1, <1>4 DEF AvailableIsExact
<1> QED BY <1>5, <1>6

\* ... and labels the run with a number no other client holds.
LEMMA TakeUnique ==
  ASSUME SchedulerTypeOK, RunNumbersUnique,
         NEW c \in Clients, NEW k \in 1..Len(available), Take(c, k)
  PROVE  RunNumbersUnique'
<1> DEFINE i == available[k]
           n == runCounts[i] + 1
<1> USE SchedulerAssumption DEF SchedulerTypeOK
<1>1. i \in Items /\ n \in Nat \ {0} /\ runCounts[i] \in Nat
  OBVIOUS
<1>2. /\ grant'[c] = [item |-> i, run |-> n, ok |-> TRUE]
      /\ \A d \in Clients \ {c} : grant'[d] = grant[d]
      /\ runCounts'[i] = n
      /\ \A j \in Items \ {i} : runCounts'[j] = runCounts[j]
  BY <1>1 DEF Take
<1>3. \A d \in Clients : grant[d].item \in Items => grant[d].run \in Nat
  <2> TAKE d \in Clients
  <2>1. grant[d] \in Grants
    OBVIOUS
  <2> QED BY <2>1, GrantType
<1>4. \A j \in Items : runCounts[j] \in Nat
  OBVIOUS
<1> HIDE DEF i, n
<1>5. ASSUME NEW d \in Clients, grant'[d].item \in Items
      PROVE  grant'[d].run <= runCounts'[grant'[d].item]
  <2>1. CASE d = c
    BY <2>1, <1>1, <1>2
  <2>2. CASE d # c
    <3>1. /\ grant'[d] = grant[d] /\ grant[d].item \in Items
          /\ grant[d].run \in Nat /\ grant[d].run <= runCounts[grant[d].item]
      BY <2>2, <1>2, <1>3, <1>5 DEF RunNumbersUnique
    <3>2. n = runCounts[i] + 1
      BY DEF n
    <3> QED BY <3>1, <3>2, <1>1, <1>2, <1>4
  <2> QED BY <2>1, <2>2
<1>6. ASSUME NEW d \in Clients \ {c}
      PROVE  grant'[c] # grant'[d]
  <2>1. SUFFICES ASSUME grant[d] = [item |-> i, run |-> n, ok |-> TRUE]
                 PROVE  FALSE
    BY <1>2
  <2>2. grant[d].item = i /\ grant[d].run = n
    BY <2>1
  <2>3. n <= runCounts[i]
    BY <2>2, <1>1 DEF RunNumbersUnique
  <2> QED BY <2>3, <1>1 DEF n
<1>7. \A d, e \in Clients : (d # e /\ grant'[d].item \in Items) => grant'[d] # grant'[e]
  BY <1>2, <1>6 DEF RunNumbersUnique
<1> QED BY <1>5, <1>7 DEF RunNumbersUnique

\* A call of next() that draws an index keeps the whole invariant.
LEMMA TakeInv ==
  ASSUME SchedulerInv, NEW c \in Clients, NEW k \in 1..Len(available), Take(c, k)
  PROVE  SchedulerInv'
BY TakeType, TakeExact, TakeUnique DEF SchedulerInv

\* So does the early return on an empty slice.
LEMMA ExhaustedInv ==
  ASSUME SchedulerInv, NEW c \in Clients, Exhausted(c)
  PROVE  SchedulerInv'
<1> USE DEF Exhausted, SchedulerInv
<1>1. SchedulerTypeOK'
  BY DEF SchedulerTypeOK, Grants
<1>2. AvailableIsExact' /\ LimitRespected'
  BY DEF AvailableIsExact, LimitRespected
<1>3. RunNumbersUnique'
  <2>1. Nothing.item \notin Items
    BY DEF Nothing, Items
  <2>2. \A d \in Clients : grant'[d] = IF d = c THEN Nothing ELSE grant[d]
    BY DEF SchedulerTypeOK
  <2> QED BY <2>1, <2>2 DEF RunNumbersUnique
<1> QED BY <1>1, <1>2, <1>3

\* A step that does not touch the scheduler keeps its invariant.
LEMMA StutterInv ==
  ASSUME SchedulerInv, UNCHANGED schedulerVars
  PROVE  SchedulerInv'
BY DEF SchedulerInv, schedulerVars, SchedulerTypeOK, AvailableIsExact,
       LimitRespected, RunNumbersUnique

\* For any items, clients and limits: the slice of available statements is
\* exact, no statement runs more often than its limit, and run numbers are
\* unique (newRunSQLRandomScheduler and next, run_sqls.go:97-128).
THEOREM SchedulerSafety == SchedulerSpec => []SchedulerInv
<1>1. SchedulerInit => SchedulerInv
  BY NewSchedulerInv DEF SchedulerInit
<1>2. SchedulerInv /\ [SchedulerNext]_schedulerVars => SchedulerInv'
  BY TakeInv, ExhaustedInv, StutterInv DEF SchedulerNext
<1> QED BY <1>1, <1>2, PTL DEF SchedulerSpec

\* One call of next() is one step of the abstract quota.
LEMMA TakeGrants ==
  ASSUME SchedulerInv, NEW c \in Clients, NEW k \in 1..Len(available), Take(c, k)
  PROVE  Quota!QuotaNext
<1>1. available[k] \in Items
  BY DEF SchedulerInv, SchedulerTypeOK
<1>2. Quota!HasQuota(available[k])
  BY <1>1 DEF SchedulerInv, AvailableIsExact, Quota!HasQuota
<1>3. Quota!Grant(c, available[k])
  BY <1>2 DEF Take, Quota!Grant
<1> QED BY <1>1, <1>3 DEF Quota!QuotaNext, Quota!Items, Items

LEMMA ExhaustedRefuses ==
  ASSUME SchedulerInv, NEW c \in Clients, Exhausted(c)
  PROVE  Quota!QuotaNext
<1>1. \A i \in Items : ~Quota!HasQuota(i)
  BY DEF SchedulerInv, AvailableIsExact, Exhausted, Quota!HasQuota
<1>2. Quota!Refuse(c)
  BY <1>1 DEF Exhausted, Quota!Refuse, Quota!Items, Items, Quota!Refusal, Nothing
<1> QED BY <1>2 DEF Quota!QuotaNext

\* The scheduler implements the quota: it grants only runs that are left and
\* refuses only when none is left.
THEOREM SchedulerImplementsQuota == SchedulerSpec => ImplementsQuota
<1>1. SchedulerInit => Quota!QuotaInit
  BY SchedulerAssumption DEF SchedulerInit, NewScheduler, Quota!QuotaInit,
     Quota!Items, Items, Quota!NoAnswer, NoGrant
<1>2. SchedulerInv /\ [SchedulerNext]_schedulerVars => [Quota!QuotaNext]_(Quota!quotaVars)
  BY TakeGrants, ExhaustedRefuses DEF SchedulerNext, schedulerVars, Quota!quotaVars
<1> QED BY <1>1, <1>2, SchedulerSafety, PTL DEF SchedulerSpec, ImplementsQuota, Quota!QuotaSpec
=============================================================================
