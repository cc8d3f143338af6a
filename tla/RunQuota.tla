------------------------------ MODULE RunQuota ------------------------------
(***************************************************************************)
(* What a work scheduler promises its clients, with no data structure: a   *)
(* client that asks is granted one more run of some item that still has    *)
(* quota, and is refused only when no item has quota left.  A limit of     *)
(* zero means that the quota is unlimited, as in the configuration of      *)
(* run-sqls and compare-results.                                           *)
(***************************************************************************)
EXTENDS Integers

CONSTANTS ItemCount,   \* the number of configured items (SQLs or SQL pairs)
          Clients      \* the worker goroutines that ask for work

VARIABLES limit,       \* runs allowed per item; 0 disables the limit
          taken,       \* taken[i]: runs of item i granted so far
          answer       \* answer[c]: the last answer client c received

quotaVars == <<limit, taken, answer>>

Items == 1..ItemCount

\* A client that has not asked yet.
NoAnswer == [item |-> 0, run |-> 0, ok |-> TRUE]
Refusal  == [item |-> 0, run |-> 0, ok |-> FALSE]

HasQuota(i) == limit = 0 \/ taken[i] < limit

QuotaInit == /\ limit \in Nat
             /\ taken = [i \in Items |-> 0]
             /\ answer = [c \in Clients |-> NoAnswer]

Grant(c, i) ==
  /\ HasQuota(i)
  /\ taken' = [taken EXCEPT ![i] = @ + 1]
  /\ answer' = [answer EXCEPT ![c] =
                  [item |-> i, run |-> taken[i] + 1, ok |-> TRUE]]
  /\ UNCHANGED limit

Refuse(c) ==
  /\ \A i \in Items : ~HasQuota(i)
  /\ answer' = [answer EXCEPT ![c] = Refusal]
  /\ UNCHANGED <<limit, taken>>

QuotaNext == \E c \in Clients : Refuse(c) \/ \E i \in Items : Grant(c, i)

QuotaSpec == QuotaInit /\ [][QuotaNext]_quotaVars
=============================================================================
