----------------------------- MODULE Tasks_proofs -----------------------------
(***************************************************************************)
(* From the command line to the cases that run.  For any arguments and any *)
(* number of them: a task name in front of complete flags is the task that *)
(* runs, and the configuration of that task, and of no other, gets the     *)
(* value that each flag was given last.                                    *)
(* For any cases in the source, any contents of the YAML file and any      *)
(* number of calls of compare-results and run-sqls: which cases the tasks  *)
(* run, and what their result says.                                        *)
(***************************************************************************)
EXTENDS CommandLine, CaseTasks, SequenceTheorems, TLAPS

-----------------------------------------------------------------------------
(* The command line: the inductive invariant.                              *)

Texts == {a.text : a \in Tokens} \union {a.value : a \in Tokens}

CommandTypeInv ==
  /\ args \in Seq(Tokens) /\ rest \in Seq(Tokens)
  /\ flags \in [FlagNames -> Seq(Texts)]
  /\ stage \in {"parse", "choose", "run", "error"}
  /\ config \in [Tasks -> [Fields -> Texts \union {"default"}]]
  /\ stage = "run" => chosen \in Tasks

Moved == MoveTaskBack(args)

\* The parser has consumed a front part of the arguments.
RestIsSuffix ==
  /\ Len(rest) <= Len(Moved)
  /\ \A j \in 1..Len(rest) : rest[j] = Moved[Len(Moved) - Len(rest) + j]

\* The first n arguments have been read: the flags start at these places, and each
\* flag has the value that it was given last.
ReadAt(n, starts) ==
  /\ FlagsWithValues(Moved, 1, n, starts)
  /\ \A f \in FlagNames :
       /\ flags[f] = <<>> => \A k \in starts : Moved[k].name # f
       /\ flags[f] # <<>> => LastGiven(Moved, starts, f, Last(flags[f]))
Read(n) == \E starts \in SUBSET (1..n) : ReadAt(n, starts)

\* What the parser has consumed it has read; it ends where no flag follows.
Parsed ==
  /\ stage = "parse" => Read(Len(Moved) - Len(rest))
  /\ stage \in {"choose", "run"} =>
       \E n \in 0..Len(Moved) :
         Read(n) /\ (n = Len(Moved) \/ Moved[n + 1].name \in {"", "--"})

\* Complete(2), for one set of places at which flags start.
CompleteWith(starts) == FlagsWithValues(args, 2, Len(args), starts)

\* The place in args of the first argument of rest, if it is not the task name.
Place == Len(args) - Len(rest) + 2

\* Behind a leading task name the parser only stops at the start of a flag, until the
\* task name is all that is left.
Dashed == rest[1].name # ""
StopsAt(starts) == rest # <<>> /\ (Len(rest) = 1 \/ Place \in starts)
AtFlag ==
  Leading => \A starts \in SUBSET (2..Len(args)) : CompleteWith(starts) =>
    /\ stage = "parse" => StopsAt(starts)
    /\ stage = "choose" => rest = <<args[1]>>

\* Configurations keep the values of the source until the task is chosen.
Overridden ==
  \A t \in Tasks, f \in Fields :
    config[t][f] = IF stage = "run" /\ t = chosen /\ flags[f] # <<>> THEN Last(flags[f])
                   ELSE "default"

CommandInv ==
  /\ CommandTypeInv /\ RestIsSuffix /\ Parsed /\ AtFlag /\ Overridden
  /\ LeadingTaskRunsIfComplete

-----------------------------------------------------------------------------
(* The arguments.                                                          *)

\* The arguments are reordered, not changed; a leading task name comes last.
LEMMA MovedArgs ==
  ASSUME args \in Seq(Tokens)
  PROVE  /\ Moved \in Seq(Tokens) /\ Len(Moved) = Len(args)
         /\ \A j \in 1..Len(args) : \E k \in 1..Len(args) : Moved[j] = args[k]
         /\ Leading => /\ Len(args) > 0 /\ Moved[Len(args)] = args[1]
                       /\ \A j \in 1..(Len(args) - 1) : Moved[j] = args[j + 1]
<1>1. CASE Leading
  <2>1. args # <<>> /\ Moved = Append(Tail(args), args[1])
    BY <1>1 DEF Leading, Moved, MoveTaskBack
  <2>2. /\ Len(args) \in Nat /\ Len(args) > 0 /\ args[1] \in Tokens
        /\ Tail(args) \in Seq(Tokens) /\ Len(Tail(args)) = Len(args) - 1
        /\ \A j \in 1..(Len(args) - 1) : Tail(args)[j] = args[j + 1]
    BY <2>1
  <2> DEFINE t == Tail(args)
  <2> HIDE DEF t
  <2>3. /\ Moved \in Seq(Tokens) /\ Len(Moved) = Len(t) + 1 /\ Moved[Len(t) + 1] = args[1]
        /\ \A j \in 1..Len(t) : Moved[j] = t[j]
    BY <2>1, <2>2, AppendProperties DEF t
  <2>4. /\ Len(Moved) = Len(args) /\ Moved[Len(args)] = args[1]
        /\ \A j \in 1..(Len(args) - 1) : Moved[j] = args[j + 1]
    BY <2>2, <2>3 DEF t
  <2>5. \A j \in 1..Len(args) : \E k \in 1..Len(args) : Moved[j] = args[k]
    BY <2>2, <2>4
  <2> QED BY <2>2, <2>3, <2>4, <2>5
<1>2. CASE ~Leading
  BY <1>2 DEF Leading, Moved, MoveTaskBack
<1> QED BY <1>1, <1>2

\* What is left to parse are arguments of the user.
LEMMA RestFromArgs ==
  ASSUME CommandTypeInv, RestIsSuffix
  PROVE  /\ Len(rest) <= Len(args) /\ Len(rest) \in Nat /\ Len(args) \in Nat
         /\ \A j \in 1..Len(rest) : \E k \in 1..Len(args) : rest[j] = args[k]
         /\ Leading => /\ rest # <<>> => rest[Len(rest)] = args[1]
                       /\ \A j \in 1..(Len(rest) - 1) : rest[j] = args[Place + j - 1]
<1>1. /\ Len(Moved) = Len(args) /\ Len(args) \in Nat /\ Len(rest) \in Nat
      /\ rest # <<>> => Len(rest) > 0
  BY MovedArgs DEF CommandTypeInv
<1>2. /\ Len(rest) <= Len(args)
      /\ \A j \in 1..Len(rest) : rest[j] = Moved[Len(args) - Len(rest) + j]
  BY <1>1 DEF RestIsSuffix
<1>3. \A j \in 1..Len(rest) : Len(args) - Len(rest) + j \in 1..Len(args)
  BY <1>1, <1>2
<1>4. ASSUME NEW j \in 1..Len(rest) PROVE \E k \in 1..Len(args) : rest[j] = args[k]
  <2>1. \A i \in 1..Len(args) : \E k \in 1..Len(args) : Moved[i] = args[k]
    BY MovedArgs DEF CommandTypeInv
  <2>2. PICK i \in 1..Len(args) : rest[j] = Moved[i]
    BY <1>2, <1>3
  <2> QED BY <2>1, <2>2
<1>5. ASSUME Leading
      PROVE  /\ rest # <<>> => rest[Len(rest)] = args[1]
             /\ \A j \in 1..(Len(rest) - 1) : rest[j] = args[Place + j - 1]
  <2>1. Moved[Len(args)] = args[1] /\ \A i \in 1..(Len(args) - 1) : Moved[i] = args[i + 1]
    BY <1>5, MovedArgs DEF CommandTypeInv
  <2>2. rest # <<>> => rest[Len(rest)] = args[1]
    BY <1>1, <1>2, <2>1
  <2>3. ASSUME NEW j \in 1..(Len(rest) - 1) PROVE rest[j] = args[Place + j - 1]
    <3>1. /\ j \in 1..Len(rest) /\ Len(args) - Len(rest) + j \in 1..(Len(args) - 1)
          /\ Place + j - 1 = (Len(args) - Len(rest) + j) + 1
      BY <1>1, <1>2 DEF Place
    <3> QED BY <1>2, <2>1, <3>1
  <2> QED BY <2>2, <2>3
<1>6. /\ Len(rest) <= Len(args) /\ Len(rest) \in Nat /\ Len(args) \in Nat
      /\ \A j \in 1..Len(rest) : \E k \in 1..Len(args) : rest[j] = args[k]
  BY <1>1, <1>2, <1>4
<1> QED BY <1>5, <1>6

\* Some of the arguments are consumed.
LEMMA Consumed ==
  ASSUME CommandTypeInv, RestIsSuffix, UNCHANGED args, NEW n \in 0..Len(rest),
         rest' \in Seq(Tokens), Len(rest') = Len(rest) - n,
         \A j \in 1..Len(rest') : rest'[j] = rest[j + n]
  PROVE  RestIsSuffix' /\ Place' = Place + n
<1>1. Moved' = Moved
  BY DEF Moved, MoveTaskBack
<1>2. Len(rest) \in Nat /\ Len(Moved) \in Nat /\ Len(args) \in Nat /\ Len(rest) <= Len(Moved)
  BY MovedArgs DEF CommandTypeInv, RestIsSuffix
<1>3. \A j \in 1..Len(rest') : rest'[j] = Moved[Len(Moved) - Len(rest') + j]
  <2> SUFFICES ASSUME NEW j \in 1..Len(rest') PROVE rest'[j] = Moved[Len(Moved) - Len(rest') + j]
    OBVIOUS
  <2>1. j + n \in 1..Len(rest) /\ Len(Moved) - Len(rest) + (j + n) = Len(Moved) - Len(rest') + j
    BY <1>2
  <2> QED BY <2>1 DEF RestIsSuffix
<1>4. Len(rest') <= Len(Moved)
  BY <1>2
<1> QED BY <1>1, <1>2, <1>3, <1>4 DEF RestIsSuffix, Place

\* Complete(2) says that there are places at which flags start.
LEMMA Complete2 == Complete(2) <=> \E starts \in SUBSET (2..Len(args)) : CompleteWith(starts)
BY DEF Complete, CompleteWith, FlagsWithValues

\* What follows the first one or two elements of a sequence.
LEMMA TailsOf ==
  ASSUME NEW S, NEW s \in Seq(S), s # <<>>
  PROVE  /\ s[1] \in S /\ Len(s) \in Nat /\ Len(s) > 0
         /\ Tail(s) \in Seq(S) /\ Len(Tail(s)) = Len(s) - 1
         /\ \A j \in 1..(Len(s) - 1) : Tail(s)[j] = s[j + 1]
         /\ Len(s) > 1 => /\ s[2] \in S /\ Tail(Tail(s)) \in Seq(S)
                          /\ Len(Tail(Tail(s))) = Len(s) - 2
                          /\ \A j \in 1..(Len(s) - 2) : Tail(Tail(s))[j] = s[j + 2]
<1> DEFINE t == Tail(s)
<1>1. /\ s[1] \in S /\ Len(s) \in Nat /\ Len(s) > 0
      /\ t \in Seq(S) /\ Len(t) = Len(s) - 1
      /\ \A j \in 1..(Len(s) - 1) : t[j] = s[j + 1]
  OBVIOUS
<1> HIDE DEF t
<1>2. ASSUME Len(s) > 1
      PROVE  /\ s[2] \in S /\ Tail(t) \in Seq(S) /\ Len(Tail(t)) = Len(s) - 2
             /\ \A j \in 1..(Len(s) - 2) : Tail(t)[j] = s[j + 2]
  <2>1. t # <<>> /\ s[2] \in S
    BY <1>1, <1>2
  <2>2. /\ Tail(t) \in Seq(S) /\ Len(Tail(t)) = Len(t) - 1
        /\ \A j \in 1..(Len(t) - 1) : Tail(t)[j] = t[j + 1]
    BY <1>1, <2>1
  <2> QED BY <1>1, <2>1, <2>2
<1> QED BY <1>1, <1>2 DEF t

\* Each place holds the start of a flag or the value of the flag in front of it.
Chained(m, starts, own) ==
  /\ \A k \in starts : k \in own \/ k + 1 \in (2..m) \ starts
  /\ \A k \in 2..m : k \notin starts => k - 1 \in starts /\ k - 1 \notin own

\* The next flag starts behind the flag at place p, or behind its value, unless the
\* arguments end there; n - 1 of them are left from p on.
NextFlag(n, p, starts, own) ==
  /\ n > 1
  /\ p \in own => n = 2 \/ p + 1 \in starts
  /\ p \notin own => n > 2 /\ (n = 3 \/ p + 2 \in starts)

\* In a row of flags with their values, a flag is followed by a flag.
LEMMA NextStart ==
  ASSUME NEW m \in Nat, NEW n \in Nat, NEW p, NEW starts, NEW own,
         n <= m, p = m - n + 2, p \in starts, starts \in SUBSET (2..m),
         Chained(m, starts, own)
  PROVE  NextFlag(n, p, starts, own)
<1>1. p \in 2..m /\ n > 1
  OBVIOUS
<1>2. ASSUME p \in own, n # 2, p + 1 \notin starts PROVE FALSE
  <2>1. p + 1 \in 2..m
    BY <1>1, <1>2
  <2>2. (p + 1) - 1 \notin own
    BY <1>2, <2>1 DEF Chained
  <2> QED BY <1>1, <1>2, <2>2
<1>3. ASSUME p \notin own PROVE n > 2 /\ p + 1 \in 2..m /\ p + 1 \notin starts
  BY <1>1, <1>3 DEF Chained
<1>4. ASSUME p \notin own, n # 3, p + 2 \notin starts PROVE FALSE
  <2>1. p + 2 \in 2..m /\ (p + 2) - 1 = p + 1
    BY <1>1, <1>3, <1>4
  <2>2. (p + 2) - 1 \in starts
    BY <1>4, <2>1 DEF Chained
  <2> QED BY <1>3, <1>4, <2>1, <2>2
<1> QED BY <1>1, <1>2, <1>3, <1>4 DEF NextFlag

\* One more flag, with its value inline or behind it.
LEMMA ReadFlag ==
  ASSUME NEW q, NEW n \in Nat, NEW starts \in SUBSET (1..n), NEW d \in {1, 2},
         FlagsWithValues(q, 1, n, starts), q[n + 1].name \in FlagNames,
         q[n + 1].inline => d = 1, ~q[n + 1].inline => d = 2
  PROVE  /\ starts \union {n + 1} \in SUBSET (1..(n + d))
         /\ FlagsWithValues(q, 1, n + d, starts \union {n + 1})
<1> DEFINE more == starts \union {n + 1}
<1>1. more \in SUBSET (1..(n + d))
  OBVIOUS
<1>2. ASSUME NEW k \in 1..(n + d)
      PROVE  IF k \in more THEN q[k].name \in FlagNames
             ELSE k - 1 \in more /\ ~q[k - 1].inline
  <2>1. CASE k \in 1..n
    <3>1. k # n + 1 /\ (k \in more <=> k \in starts)
      BY <2>1
    <3> QED BY <2>1, <3>1 DEF FlagsWithValues
  <2>2. CASE k = n + 1
    BY <2>2
  <2>3. CASE k = n + 2
    <3>1. d = 2 /\ k \notin more /\ k - 1 = n + 1
      BY <2>3
    <3> QED BY <3>1
  <2> QED BY <2>1, <2>2, <2>3
<1>3. ASSUME NEW k \in more PROVE q[k].inline \/ k + 1 \in (1..(n + d)) \ more
  <2>1. CASE k \in starts
    <3>1. q[k].inline \/ k + 1 \in (1..n) \ starts
      BY <2>1 DEF FlagsWithValues
    <3> QED BY <3>1
  <2>2. CASE k = n + 1
    <3>1. q[k].inline \/ d = 2
      BY <2>2
    <3>2. d = 2 => n + 2 \in (1..(n + d)) \ more
      OBVIOUS
    <3> QED BY <2>2, <3>1, <3>2
  <2> QED BY <2>1, <2>2
<1> QED BY <1>1, <1>2, <1>3 DEF FlagsWithValues

\* It is the last one of its name, and leaves the other flags what they were given.
LEMMA LaterFlag ==
  ASSUME NEW q, NEW n \in Nat, NEW starts \in SUBSET (1..n), NEW f
  PROVE  /\ q[n + 1].name = f => LastGiven(q, starts \union {n + 1}, f, Value(q, n + 1))
         /\ q[n + 1].name # f =>
              \A text : LastGiven(q, starts, f, text)
                          => LastGiven(q, starts \union {n + 1}, f, text)
BY DEF LastGiven

\* Behind a leading task name and before the end, the parser is at a flag: the flag
\* has its value, and the next one starts behind it.
LEMMA FlagStep ==
  ASSUME CommandTypeInv, RestIsSuffix, Leading, Dashed,
         NEW starts \in SUBSET (2..Len(args)), CompleteWith(starts), StopsAt(starts)
  PROVE  /\ Len(rest) > 1 /\ rest[1].name \in FlagNames
         /\ rest[1].inline => Len(rest) = 2 \/ Place + 1 \in starts
         /\ ~rest[1].inline => Len(rest) > 2 /\ (Len(rest) = 3 \/ Place + 2 \in starts)
<1> DEFINE m == Len(args)
           n == Len(rest)
           p == Place
           own == {k \in 2..Len(args) : args[k].inline}
<1>1. Len(rest) <= Len(args) /\ Len(rest) \in Nat /\ Len(args) \in Nat
  BY RestFromArgs
<1>2. Len(rest) # 1
  <2>1. rest[Len(rest)] = args[1]
    BY RestFromArgs DEF StopsAt
  <2>2. args[1].name = ""
    BY DEF Leading, Dashed
  <2> QED BY <2>1, <2>2 DEF Dashed
<1>3. Place \in starts
  BY <1>2 DEF StopsAt
<1>4. Place \in 2..Len(args)
  BY <1>3
<1>5. Chained(Len(args), starts, own)
  BY DEF CompleteWith, FlagsWithValues, Chained
<1>6. Place = Len(args) - Len(rest) + 2
  BY DEF Place
<1>8. args[Place].name \in FlagNames
  BY <1>3, <1>4 DEF CompleteWith, FlagsWithValues
<1>9. Place \in own <=> args[Place].inline
  BY <1>4
<1>10. NextFlag(n, p, starts, own)
  <2>1. m \in Nat /\ n \in Nat /\ n <= m
    BY <1>1
  <2>2. starts \in SUBSET (2..m) /\ p \in starts
    BY <1>3
  <2>3. p = m - n + 2
    BY <1>6
  <2>4. Chained(m, starts, own)
    BY <1>5
  <2> HIDE DEF m, n, p, own
  <2> QED BY <2>1, <2>2, <2>3, <2>4, NextStart
<1>11. rest[1] = args[Place]
  <2>1. \A j \in 1..(Len(rest) - 1) : rest[j] = args[Place + j - 1]
    BY RestFromArgs
  <2>2. n \in Nat /\ n > 1
    BY <1>1, <1>10 DEF NextFlag
  <2>3. 1 \in 1..(n - 1)
    <3> HIDE DEF n
    <3> QED BY <2>2
  <2>4. Place + 1 - 1 = Place
    BY <1>1, <1>4
  <2>5. rest[1] = args[Place + 1 - 1]
    BY <2>1, <2>3
  <2> QED BY <2>4, <2>5
<1> QED BY <1>8, <1>9, <1>10, <1>11 DEF NextFlag

-----------------------------------------------------------------------------
(* The inductive invariant.                                                *)

\* It holds before anything is parsed.
LEMMA InitInv == CommandInit => CommandInv
<1> SUFFICES ASSUME CommandInit PROVE CommandInv
  OBVIOUS
<1>1. args \in Seq(Tokens)
  <2>1. PICK n \in 0..MaxArgs : args \in [1..n -> Tokens]
    BY DEF CommandInit
  <2> QED BY <2>1
<1>2. rest = Moved /\ rest \in Seq(Tokens) /\ Len(rest) = Len(args) /\ Len(args) \in Nat
  <2>1. rest = Moved
    BY DEF CommandInit, Moved
  <2>2. Moved \in Seq(Tokens) /\ Len(Moved) = Len(args) /\ Len(args) \in Nat
    BY <1>1, MovedArgs
  <2> QED BY <2>1, <2>2
<1>3. CommandTypeInv
  <2>1. flags \in [FlagNames -> Seq(Texts)]
    <3>1. flags = [f \in FlagNames |-> <<>>]
      BY DEF CommandInit
    <3>2. <<>> \in Seq(Texts)
      OBVIOUS
    <3> QED BY <3>1, <3>2
  <2>2. config \in [Tasks -> [Fields -> Texts \union {"default"}]]
    BY DEF CommandInit
  <2>3. stage = "parse"
    BY DEF CommandInit
  <2> QED BY <1>1, <1>2, <2>1, <2>2, <2>3 DEF CommandTypeInv
<1>4. RestIsSuffix
  <2> DEFINE n == Len(rest)
  <2>1. Moved = rest /\ n \in Nat
    BY <1>2
  <2>2. \A j \in 1..n : (n - n) + j = j
    <3> HIDE DEF n
    <3> QED BY <2>1
  <2>3. n <= n
    <3> HIDE DEF n
    <3> QED BY <2>1
  <2> QED BY <2>1, <2>2, <2>3 DEF RestIsSuffix
<1>5. Parsed
  <2>1. \A f \in FlagNames : flags[f] = <<>>
    BY DEF CommandInit
  <2>2. FlagsWithValues(Moved, 1, 0, {})
    BY DEF FlagsWithValues
  <2>3. Read(0)
    BY <2>1, <2>2 DEF Read, ReadAt
  <2>4. stage = "parse" /\ Len(Moved) - Len(rest) = 0
    <3> DEFINE m == Len(args)
    <3>1. Len(Moved) = m /\ Len(rest) = m /\ m \in Nat
      BY <1>2
    <3> HIDE DEF m
    <3>2. m - m = 0
      BY <3>1
    <3>3. stage = "parse"
      BY DEF CommandInit
    <3> QED BY <3>1, <3>2, <3>3
  <2> QED BY <2>3, <2>4 DEF Parsed
<1>6. AtFlag
  <2> SUFFICES ASSUME Leading, NEW starts \in SUBSET (2..Len(args)), CompleteWith(starts)
               PROVE  StopsAt(starts)
    BY DEF AtFlag, CommandInit
  <2>1. Len(args) > 0
    BY <1>1, MovedArgs
  <2>2. rest # <<>>
    BY <1>2, <2>1
  <2>3. Place = 2
    BY <1>2 DEF Place
  <2>4. ASSUME Len(rest) # 1 PROVE 2 \in starts
    <3>1. 2 \in 2..Len(args)
      BY <1>2, <2>1, <2>4
    <3>2. 2 \notin starts => 2 - 1 \in starts
      BY <3>1 DEF CompleteWith, FlagsWithValues
    <3>3. 2 - 1 = 1 /\ 1 \notin 2..Len(args)
      BY <1>2
    <3> QED BY <3>2, <3>3
  <2> QED BY <2>2, <2>3, <2>4 DEF StopsAt
<1>7. Overridden
  BY DEF CommandInit, Overridden
<1>8. LeadingTaskRunsIfComplete
  BY DEF CommandInit, LeadingTaskRunsIfComplete
<1> QED BY <1>3, <1>4, <1>5, <1>6, <1>7, <1>8 DEF CommandInv

\* What one flag does to the parser: it takes one argument or two.
Taken == IF rest[1].inline THEN 1 ELSE 2
TextTaken == IF rest[1].inline THEN rest[1].value ELSE rest[2].text

LEMMA FlagTakes ==
  ASSUME CommandTypeInv, RestIsSuffix, ParseFlag
  PROVE  /\ Taken \in 1..Len(rest) /\ TextTaken \in Texts /\ rest[1].name \in FlagNames
         /\ flags' = [flags EXCEPT ![rest[1].name] = Append(@, TextTaken)]
         /\ rest' \in Seq(Tokens) /\ Len(rest') = Len(rest) - Taken
         /\ \A j \in 1..Len(rest') : rest'[j] = rest[j + Taken]
<1>1. rest # <<>> /\ rest[1].name \in FlagNames
  BY DEF ParseFlag
<1>2. /\ rest[1] \in Tokens /\ Len(rest) \in Nat /\ Len(rest) > 0
      /\ Tail(rest) \in Seq(Tokens) /\ Len(Tail(rest)) = Len(rest) - 1
      /\ \A j \in 1..(Len(rest) - 1) : Tail(rest)[j] = rest[j + 1]
  BY <1>1, TailsOf DEF CommandTypeInv
<1>3. CASE rest[1].inline
  <2>1. rest' = Tail(rest) /\ Taken = 1 /\ TextTaken = rest[1].value
    BY <1>3 DEF ParseFlag, Taken, TextTaken
  <2>2. flags' = [flags EXCEPT ![rest[1].name] = Append(@, TextTaken)]
    BY <1>3 DEF ParseFlag, TextTaken
  <2>3. TextTaken \in Texts
    BY <1>2, <2>1 DEF Texts
  <2> QED BY <1>1, <1>2, <2>1, <2>2, <2>3
<1>4. CASE ~rest[1].inline
  <2>1. Len(rest) > 1 /\ rest' = Tail(Tail(rest)) /\ Taken = 2 /\ TextTaken = rest[2].text
    BY <1>4 DEF ParseFlag, Taken, TextTaken
  <2>2. flags' = [flags EXCEPT ![rest[1].name] = Append(@, TextTaken)]
    BY <1>4 DEF ParseFlag, TextTaken
  <2>3. /\ rest[2] \in Tokens /\ rest' \in Seq(Tokens) /\ Len(rest') = Len(rest) - 2
        /\ \A j \in 1..(Len(rest) - 2) : rest'[j] = rest[j + 2]
    BY <1>1, <2>1, TailsOf DEF CommandTypeInv
  <2>4. TextTaken \in Texts
    BY <2>1, <2>3 DEF Texts
  <2> QED BY <1>1, <1>2, <2>1, <2>2, <2>3, <2>4
<1> QED BY <1>3, <1>4

\* A flag with its value keeps the invariant.
LEMMA ParseFlagKeeps == ASSUME CommandInv, ParseFlag PROVE CommandInv'
<1> DEFINE flag == rest[1].name
<1>1. CommandTypeInv /\ RestIsSuffix /\ Parsed /\ AtFlag /\ Overridden
  BY DEF CommandInv
<1>2. /\ Taken \in 1..Len(rest) /\ TextTaken \in Texts /\ flag \in FlagNames
      /\ rest' \in Seq(Tokens) /\ Len(rest') = Len(rest) - Taken
      /\ \A j \in 1..Len(rest') : rest'[j] = rest[j + Taken]
  BY <1>1, FlagTakes
<1>3. flags' = [flags EXCEPT ![flag] = Append(@, TextTaken)]
  BY <1>1, FlagTakes
<1>4. stage = "parse" /\ UNCHANGED <<args, stage, chosen, config>>
  BY DEF ParseFlag
<1>5. Len(rest) \in Nat /\ Len(args) \in Nat
  BY <1>1, RestFromArgs
<1>6. RestIsSuffix' /\ Place' = Place + Taken
  BY <1>1, <1>2, <1>4, <1>5, Consumed
<1>7. /\ flags' \in [FlagNames -> Seq(Texts)]
      /\ \A f \in FlagNames \ {flag} : flags'[f] = flags[f]
      /\ flags'[flag] = Append(flags[flag], TextTaken)
      /\ flags[flag] \in Seq(Texts)
  BY <1>1, <1>2, <1>3 DEF CommandTypeInv
<1>8. CommandTypeInv'
  BY <1>1, <1>2, <1>4, <1>7 DEF CommandTypeInv
<1>9. Parsed'
  <2> DEFINE n == Len(Moved) - Len(rest)
             here == n + 1
  <2>1. Moved' = Moved /\ Len(Moved) \in Nat /\ Len(rest) <= Len(Moved) /\ Taken \in {1, 2}
    <3>1. Moved' = Moved
      BY <1>4 DEF Moved
    <3>2. Len(Moved) = Len(args) /\ Len(rest) <= Len(Moved)
      BY <1>1, MovedArgs DEF CommandTypeInv, RestIsSuffix
    <3> QED BY <1>5, <3>1, <3>2 DEF Taken
  <2>2. n \in Nat /\ Len(Moved') - Len(rest') = n + Taken
    BY <2>1, <1>2, <1>5
  <2>3. \A j \in 1..Len(rest) : rest[j] = Moved[n + j]
    BY <1>1 DEF RestIsSuffix
  <2>4. rest[1] = Moved[here]
    BY <2>3, <1>2, <1>5
  <2>5. ~rest[1].inline => rest[2] = Moved[here + 1]
    <3>1. n + 2 = here + 1
      BY <2>2
    <3> QED BY <2>3, <3>1, <1>2, <1>5 DEF Taken
  <2>6. PICK starts \in SUBSET (1..n) : ReadAt(n, starts)
    BY <1>1, <1>4 DEF Parsed, Read
  <2> DEFINE more == starts \union {here}
  <2>7. FlagsWithValues(Moved, 1, n, starts)
    BY <2>6 DEF ReadAt
  <2>8. /\ Moved[here].name \in FlagNames
        /\ Moved[here].inline => Taken = 1
        /\ ~Moved[here].inline => Taken = 2
    BY <2>4, <1>2 DEF Taken
  <2>9. /\ more \in SUBSET (1..(n + Taken))
        /\ FlagsWithValues(Moved, 1, n + Taken, more)
    <3> HIDE DEF n
    <3> QED BY <2>1, <2>2, <2>7, <2>8, ReadFlag
  <2>10. TextTaken = Value(Moved, here)
    BY <2>4, <2>5 DEF TextTaken, Value
  <2>11. ASSUME NEW f \in FlagNames
         PROVE  /\ flags'[f] = <<>> => \A k \in more : Moved[k].name # f
                /\ flags'[f] # <<>> => LastGiven(Moved, more, f, Last(flags'[f]))
    <3>1. /\ Moved[here].name = f => LastGiven(Moved, more, f, Value(Moved, here))
          /\ Moved[here].name # f =>
               \A text : LastGiven(Moved, starts, f, text) => LastGiven(Moved, more, f, text)
      <4> HIDE DEF n
      <4> QED BY <2>2, LaterFlag
    <3>2. CASE f = flag
      <4>1. flags'[f] # <<>> /\ Last(flags'[f]) = TextTaken
        BY <1>2, <1>7, <3>2, AppendProperties DEF Last
      <4> QED BY <2>4, <2>10, <3>1, <3>2, <4>1
    <3>3. CASE f # flag
      <4>1. flags'[f] = flags[f] /\ Moved[here].name # f
        BY <1>7, <2>4, <3>3
      <4>2. /\ flags[f] = <<>> => \A k \in starts : Moved[k].name # f
            /\ flags[f] # <<>> => LastGiven(Moved, starts, f, Last(flags[f]))
        BY <2>6 DEF ReadAt
      <4> QED BY <3>1, <4>1, <4>2
    <3> QED BY <3>2, <3>3
  <2> HIDE DEF n, here, more
  <2>12. PICK read : read = n + Taken
    OBVIOUS
  <2>13. Read(read)'
    <3>1. /\ FlagsWithValues(Moved', 1, read, more)
          /\ \A f \in FlagNames :
               /\ flags'[f] = <<>> => \A k \in more : Moved'[k].name # f
               /\ flags'[f] # <<>> => LastGiven(Moved', more, f, Last(flags'[f]))
      BY <2>1, <2>9, <2>11, <2>12
    <3>2. PICK places \in SUBSET (1..read) : places = more
      BY <2>9, <2>12
    <3>3. ReadAt(read, places)'
      BY <3>1, <3>2 DEF ReadAt
    <3> QED BY <3>2, <3>3 DEF Read
  <2>14. (Len(Moved) - Len(rest))' = read
    BY <2>2, <2>12
  <2>15. Read(Len(Moved) - Len(rest))'
    BY <2>13, <2>14 DEF Read, ReadAt
  <2> QED BY <1>4, <2>15 DEF Parsed
<1>10. AtFlag'
  <2>1. Leading' = Leading /\ \A starts : CompleteWith(starts)' = CompleteWith(starts)
    BY <1>4 DEF Leading, CompleteWith, FlagsWithValues
  <2> SUFFICES ASSUME Leading, NEW starts \in SUBSET (2..Len(args)), CompleteWith(starts)
               PROVE  StopsAt(starts)'
    BY <1>4, <2>1 DEF AtFlag
  <2>2. Dashed
    BY <1>2 DEF Dashed, FlagNames, Fields
  <2>3. StopsAt(starts)
    BY <1>1, <1>4 DEF AtFlag
  <2>4. /\ Len(rest) > 1
        /\ rest[1].inline => Len(rest) = 2 \/ Place + 1 \in starts
        /\ ~rest[1].inline => Len(rest) > 2 /\ (Len(rest) = 3 \/ Place + 2 \in starts)
    BY <1>1, <2>2, <2>3, FlagStep
  <2>5. Len(rest) > Taken /\ (Len(rest) = Taken + 1 \/ Place + Taken \in starts)
    BY <2>4 DEF Taken
  <2>6. rest' # <<>> /\ (Len(rest') = 1 \/ Place' \in starts)
    BY <1>2, <1>5, <1>6, <2>5
  <2> QED BY <2>6 DEF StopsAt
<1>11. Overridden'
  BY <1>1, <1>4 DEF Overridden
<1>12. LeadingTaskRunsIfComplete'
  BY <1>4 DEF LeadingTaskRunsIfComplete
<1> QED BY <1>6, <1>8, <1>9, <1>10, <1>11, <1>12 DEF CommandInv

\* Where the parser stops, only the leading task name is left of a complete line.
LEMMA ParseEndKeeps == ASSUME CommandInv, ParseEnd PROVE CommandInv'
<1>1. CommandTypeInv /\ RestIsSuffix /\ Parsed /\ AtFlag /\ Overridden
  BY DEF CommandInv
<1>2. stage = "parse" /\ stage' = "choose" /\ UNCHANGED <<args, flags, chosen, config>>
  BY DEF ParseEnd
<1>3. \/ UNCHANGED rest
      \/ rest # <<>> /\ rest[1].name = "--" /\ rest' = Tail(rest)
  BY DEF ParseEnd
<1>4. rest' \in Seq(Tokens) /\ RestIsSuffix'
  <2>1. CASE UNCHANGED rest
    BY <1>1, <1>2, <2>1 DEF CommandTypeInv, RestIsSuffix, Moved, MoveTaskBack
  <2>2. CASE rest # <<>> /\ rest' = Tail(rest)
    <3>1. /\ rest' \in Seq(Tokens) /\ Len(rest') = Len(rest) - 1
          /\ Len(rest) \in Nat /\ Len(rest) > 0
          /\ \A j \in 1..(Len(rest) - 1) : rest'[j] = rest[j + 1]
      BY <1>1, <2>2, TailsOf DEF CommandTypeInv
    <3>2. 1 \in 0..Len(rest)
      BY <3>1
    <3>3. \A j \in 1..Len(rest') : rest'[j] = rest[j + 1]
      BY <3>1
    <3>4. UNCHANGED args
      BY <1>2
    <3> QED BY <1>1, <3>1, <3>2, <3>3, <3>4, Consumed
  <2> QED BY <1>3, <2>1, <2>2
<1>5. CommandTypeInv'
  BY <1>1, <1>2, <1>4 DEF CommandTypeInv
<1>6. Parsed'
  <2> DEFINE n == Len(Moved) - Len(rest)
  <2>1. Read(n)
    BY <1>1, <1>2 DEF Parsed
  <2>2. /\ Len(Moved) \in Nat /\ Len(rest) \in Nat /\ Len(rest) <= Len(Moved)
        /\ rest = <<>> <=> Len(rest) = 0
    BY <1>1, MovedArgs DEF CommandTypeInv, RestIsSuffix
  <2>3. n \in 0..Len(Moved) /\ (rest = <<>> => n = Len(Moved))
    BY <2>2
  <2>4. rest # <<>> => rest[1] = Moved[n + 1]
    BY <1>1, <2>2 DEF RestIsSuffix
  <2>5. n = Len(Moved) \/ Moved[n + 1].name \in {"", "--"}
    BY <2>3, <2>4 DEF ParseEnd
  <2> HIDE DEF n
  <2>6. Moved' = Moved /\ \A k : Read(k) => Read(k)'
    BY <1>2 DEF Moved, MoveTaskBack, Read, ReadAt
  <2> QED BY <1>2, <2>1, <2>3, <2>5, <2>6 DEF Parsed
<1>7. AtFlag'
  <2>1. Leading' = Leading /\ \A starts : CompleteWith(starts)' = CompleteWith(starts)
    BY <1>2 DEF Leading, CompleteWith, FlagsWithValues
  <2> SUFFICES ASSUME Leading, NEW starts \in SUBSET (2..Len(args)), CompleteWith(starts)
               PROVE  rest' = <<args[1]>>
    BY <1>2, <2>1 DEF AtFlag
  <2>2. StopsAt(starts)
    BY <1>1, <1>2 DEF AtFlag
  <2>3. ~Dashed
    <3> SUFFICES ASSUME Dashed PROVE FALSE
      OBVIOUS
    <3>1. rest[1].name \in FlagNames
      BY <1>1, <2>2, FlagStep
    <3>2. rest[1].name = "" \/ rest[1].name = "--"
      BY <2>2 DEF ParseEnd, StopsAt
    <3> QED BY <3>1, <3>2 DEF FlagNames, Fields
  <2>4. rest' = rest
    BY <1>3, <2>3 DEF Dashed
  <2>5. Len(rest) = 1
    <3> SUFFICES ASSUME Len(rest) # 1 PROVE FALSE
      OBVIOUS
    <3>1. Place \in starts /\ rest # <<>>
      BY <2>2 DEF StopsAt
    <3>2. args[Place].name \in FlagNames
      BY <3>1 DEF CompleteWith, FlagsWithValues
    <3>3. \A j \in 1..(Len(rest) - 1) : rest[j] = args[Place + j - 1]
      BY <1>1, RestFromArgs
    <3>4. Len(rest) \in Nat /\ Len(args) \in Nat /\ Len(rest) # 0
      BY <1>1, <3>1, RestFromArgs DEF CommandTypeInv
    <3>5. 1 \in 1..(Len(rest) - 1) /\ Place + 1 - 1 = Place
      <4> DEFINE n == Len(rest)
                 m == Len(args)
      <4>1. n \in Nat /\ m \in Nat /\ n # 0 /\ n # 1 /\ Place = m - n + 2
        BY <3>4 DEF Place
      <4> HIDE DEF n, m
      <4>2. 1 \in 1..(n - 1) /\ Place + 1 - 1 = Place
        BY <4>1
      <4> QED BY <4>2 DEF n
    <3>6. rest[1] = args[Place]
      BY <3>3, <3>5
    <3> QED BY <2>3, <3>2, <3>6 DEF Dashed, FlagNames, Fields
  <2>6. rest[1] = args[1]
    <3>1. rest # <<>> => rest[Len(rest)] = args[1]
      BY <1>1, RestFromArgs
    <3> QED BY <2>2, <2>5, <3>1 DEF StopsAt
  <2>7. rest = <<rest[1]>>
    BY <1>1, <2>5 DEF CommandTypeInv
  <2> QED BY <2>4, <2>6, <2>7
<1>8. Overridden'
  BY <1>1, <1>2 DEF Overridden
<1>9. LeadingTaskRunsIfComplete'
  BY <1>2 DEF LeadingTaskRunsIfComplete
<1> QED BY <1>4, <1>5, <1>6, <1>7, <1>8, <1>9 DEF CommandInv

\* A refused command line changes no configuration.
LEMMA FailKeeps ==
  ASSUME CommandInv, stage \in {"parse", "choose"}, Fail, LeadingTaskRunsIfComplete'
  PROVE  CommandInv'
<1>1. stage' = "error" /\ UNCHANGED <<args, rest, flags, chosen, config>>
  BY DEF Fail
<1>2. CommandTypeInv'
  BY <1>1 DEF CommandInv, CommandTypeInv
<1>3. RestIsSuffix'
  BY <1>1 DEF CommandInv, RestIsSuffix, Moved, MoveTaskBack
<1>4. Parsed'
  BY <1>1 DEF Parsed
<1>5. AtFlag'
  BY <1>1 DEF AtFlag
<1>6. Overridden'
  BY <1>1 DEF CommandInv, Overridden
<1> QED BY <1>2, <1>3, <1>4, <1>5, <1>6 DEF CommandInv

\* A complete line with a leading task name has no syntax error.
LEMMA ParseErrorKeeps == ASSUME CommandInv, ParseError PROVE CommandInv'
<1>1. Fail /\ stage = "parse" /\ rest # <<>> /\ stage' = "error" /\ UNCHANGED args
  BY DEF ParseError, Fail
<1>2. CommandTypeInv /\ RestIsSuffix /\ AtFlag
  BY DEF CommandInv
<1>3. ASSUME Leading, Complete(2) PROVE FALSE
  <2>1. PICK starts \in SUBSET (2..Len(args)) : CompleteWith(starts)
    BY <1>3, Complete2
  <2>2. StopsAt(starts)
    BY <1>1, <1>2, <1>3, <2>1 DEF AtFlag
  <2>3. Dashed
    BY DEF ParseError, Dashed, FlagNames, Fields
  <2>4. /\ Len(rest) > 1 /\ rest[1].name \in FlagNames
        /\ ~rest[1].inline => Len(rest) > 2
    BY <1>2, <1>3, <2>1, <2>2, <2>3, FlagStep
  <2>5. CASE rest[1].name \notin FlagNames \union {"", "--"}
    BY <2>4, <2>5
  <2>6. CASE ~rest[1].inline /\ Len(rest) = 1
    BY <2>4, <2>6
  <2> QED BY <2>5, <2>6 DEF ParseError
<1>4. LeadingTaskRunsIfComplete'
  <2>1. Leading' = Leading /\ Complete(2)' = Complete(2)
    BY <1>1 DEF Leading, Complete, FlagsWithValues
  <2> QED BY <1>3, <2>1 DEF LeadingTaskRunsIfComplete
<1> QED BY <1>1, <1>4, FailKeeps

\* It is refused for --task besides the name or for an unsupported name.
LEMMA ChooseErrorKeeps == ASSUME CommandInv, ChooseError PROVE CommandInv'
<1>1. /\ Fail /\ stage = "choose" /\ \A name \in ChosenNames : Alias(name) = ""
      /\ stage' = "error" /\ UNCHANGED <<args, flags>>
  BY DEF ChooseError, Fail
<1>2. ASSUME Leading, Complete(2)
      PROVE  TaskFlag # "" \/ Alias(Normal[args[1].text]) = ""
  <2>1. PICK starts \in SUBSET (2..Len(args)) : CompleteWith(starts)
    BY <1>2, Complete2
  <2>2. rest = <<args[1]>>
    BY <1>1, <1>2, <2>1 DEF CommandInv, AtFlag
  <2>3. Len(rest) = 1 /\ rest[1] = args[1]
    BY <2>2
  <2> QED BY <1>1, <2>3 DEF ChosenNames
<1>3. LeadingTaskRunsIfComplete'
  <2>1. Leading' = Leading /\ Complete(2)' = Complete(2) /\ TaskFlag' = TaskFlag
    BY <1>1 DEF Leading, Complete, FlagsWithValues, TaskFlag
  <2> QED BY <1>1, <1>2, <2>1 DEF LeadingTaskRunsIfComplete
<1> QED BY <1>1, <1>3, FailKeeps

\* The chosen task gets the overrides, and is the leading one of a complete line.
LEMMA ChooseKeeps == ASSUME CommandInv, Choose PROVE CommandInv'
<1>1. CommandTypeInv /\ RestIsSuffix /\ Parsed /\ AtFlag /\ Overridden
  BY DEF CommandInv
<1>2. stage = "choose" /\ stage' = "run" /\ UNCHANGED <<args, rest, flags>>
  BY DEF Choose
<1>3. PICK name \in ChosenNames :
        Alias(name) # "" /\ chosen' = Alias(name) /\ config' = Override(Alias(name))
  BY DEF Choose
<1>4. chosen' \in Tasks
  BY <1>3 DEF Alias, Tasks
<1>5. \A t \in Tasks, f \in Fields : config[t][f] = "default"
  BY <1>1, <1>2 DEF Overridden
<1>6. config \in [Tasks -> [Fields -> Texts \union {"default"}]]
  BY <1>1 DEF CommandTypeInv
<1>7. config' = [config EXCEPT ![chosen'] = [f \in Fields |-> IF flags[f] = <<>> THEN @[f]
                                                            ELSE Last(flags[f])]]
  BY <1>3 DEF Override
<1>8. /\ DOMAIN config' = Tasks
      /\ \A t \in Tasks : t # chosen' => config'[t] = config[t]
      /\ config'[chosen'] = [f \in Fields |-> IF flags[f] = <<>> THEN config[chosen'][f]
                                            ELSE Last(flags[f])]
  BY <1>4, <1>6, <1>7
<1>9. ASSUME NEW f \in Fields, flags[f] # <<>>
      PROVE  Last(flags[f]) \in Texts
  <2>1. flags[f] \in Seq(Texts)
    BY <1>1 DEF CommandTypeInv, FlagNames
  <2>2. Len(flags[f]) \in 1..Len(flags[f])
    BY <1>9, <2>1
  <2> QED BY <2>1, <2>2 DEF Last
<1>10. config' \in [Tasks -> [Fields -> Texts \union {"default"}]]
  <2>1. config'[chosen'] \in [Fields -> Texts \union {"default"}]
    BY <1>4, <1>5, <1>8, <1>9
  <2>2. \A t \in Tasks : config'[t] \in [Fields -> Texts \union {"default"}]
    BY <1>6, <1>8, <2>1
  <2>3. config' = [t \in Tasks |-> config'[t]]
    BY <1>6, <1>7
  <2> QED BY <2>2, <2>3
<1>11. CommandTypeInv'
  BY <1>1, <1>2, <1>4, <1>10 DEF CommandTypeInv
<1>12. RestIsSuffix'
  BY <1>1, <1>2 DEF RestIsSuffix, Moved, MoveTaskBack
<1>13. Parsed'
  <2>1. Moved' = Moved /\ \A k : Read(k) => Read(k)'
    BY <1>2 DEF Moved, MoveTaskBack, Read, ReadAt
  <2> QED BY <1>1, <1>2, <2>1 DEF Parsed
<1>14. AtFlag'
  BY <1>2 DEF AtFlag
<1>15. Overridden'
  <2> SUFFICES ASSUME NEW t \in Tasks, NEW f \in Fields
               PROVE  config'[t][f] = IF t = chosen' /\ flags[f] # <<>> THEN Last(flags[f])
                                      ELSE "default"
    BY <1>2 DEF Overridden
  <2> QED BY <1>4, <1>5, <1>8
<1>16. LeadingTaskRunsIfComplete'
  <2>1. Leading' = Leading /\ Complete(2)' = Complete(2)
    BY <1>2 DEF Leading, Complete, FlagsWithValues
  <2> SUFFICES ASSUME Leading, Complete(2) PROVE chosen' = Alias(Normal[args[1].text])
    BY <1>2, <2>1 DEF LeadingTaskRunsIfComplete
  <2>2. PICK starts \in SUBSET (2..Len(args)) : CompleteWith(starts)
    BY Complete2
  <2>3. rest = <<args[1]>>
    BY <1>1, <1>2, <2>2 DEF AtFlag
  <2>4. rest # <<>> /\ rest[1] = args[1]
    BY <2>3
  <2>5. name = Normal[rest[1].text]
    BY <2>4 DEF ChosenNames
  <2> QED BY <1>3, <2>4, <2>5
<1> QED BY <1>11, <1>12, <1>13, <1>14, <1>15, <1>16 DEF CommandInv

\* A step that changes nothing.
LEMMA StutterKeeps == ASSUME CommandInv, UNCHANGED commandVars PROVE CommandInv'
<1>1. UNCHANGED <<args, rest, flags, stage, chosen, config>>
  BY DEF commandVars
<1>2. CommandTypeInv'
  BY <1>1 DEF CommandInv, CommandTypeInv
<1>3. RestIsSuffix'
  BY <1>1 DEF CommandInv, RestIsSuffix, Moved, MoveTaskBack
<1>4. Parsed'
  <2>1. Moved' = Moved /\ \A k : Read(k) => Read(k)'
    BY <1>1 DEF Moved, MoveTaskBack, Read, ReadAt
  <2> QED BY <1>1, <2>1 DEF CommandInv, Parsed
<1>5. AtFlag'
  BY <1>1 DEF CommandInv, AtFlag, Leading, CompleteWith, FlagsWithValues, StopsAt, Place
<1>6. Overridden'
  BY <1>1 DEF CommandInv, Overridden
<1>7. LeadingTaskRunsIfComplete'
  BY <1>1 DEF CommandInv, LeadingTaskRunsIfComplete, Leading, Complete, FlagsWithValues,
     TaskFlag
<1> QED BY <1>2, <1>3, <1>4, <1>5, <1>6, <1>7 DEF CommandInv

\* Every state of every run of the command line satisfies the inductive invariant.
THEOREM CommandLineInvariant == CommandSpec => []CommandInv
<1>1. CommandInit => CommandInv
  BY InitInv
<1>2. CommandInv /\ [CommandNext]_commandVars => CommandInv'
  <2> SUFFICES ASSUME CommandInv, [CommandNext]_commandVars PROVE CommandInv'
    OBVIOUS
  <2>1. CASE ParseFlag
    BY <2>1, ParseFlagKeeps
  <2>2. CASE ParseError
    BY <2>2, ParseErrorKeeps
  <2>3. CASE ParseEnd
    BY <2>3, ParseEndKeeps
  <2>4. CASE Choose
    BY <2>4, ChooseKeeps
  <2>5. CASE ChooseError
    BY <2>5, ChooseErrorKeeps
  <2>6. CASE CommandDone \/ UNCHANGED commandVars
    BY <2>6, StutterKeeps DEF CommandDone
  <2> QED BY <2>1, <2>2, <2>3, <2>4, <2>5, <2>6 DEF CommandNext
<1> QED BY <1>1, <1>2, PTL DEF CommandSpec

\* A task name in front of flags that all have their values is the task that runs, for any
\* command line (parseCommandLineOptions moves that name behind the flags, of
\* cmd_parameter.go).
THEOREM LeadingTaskAlwaysRuns == CommandSpec => []LeadingTaskRunsIfComplete
<1>1. CommandInv => LeadingTaskRunsIfComplete
  BY DEF CommandInv
<1> QED BY <1>1, CommandLineInvariant, PTL

\* For any command line, each field of the configuration of the task that runs has the
\* value that its flag was given last, and the source's if the flag was not given; no
\* other configuration is touched, and none by a refused line (applyDBCLIOverrides,
\* called by run of main.go).
THEOREM OverridesAlwaysReachTheTask == CommandSpec => []OverridesReachTheTask
<1>1. CommandInv => OverridesReachTheTask
  <2> SUFFICES ASSUME CommandInv PROVE OverridesReachTheTask
    OBVIOUS
  <2>1. \A t \in Tasks, f \in Fields :
          config[t][f] = IF stage = "run" /\ t = chosen /\ flags[f] # <<>> THEN Last(flags[f])
                         ELSE "default"
    BY DEF CommandInv, Overridden
  <2>2. ASSUME stage = "run"
        PROVE  \E n \in 0..Len(Moved) : \E starts \in SUBSET (1..n) :
                 /\ FlagsWithValues(Moved, 1, n, starts)
                 /\ n = Len(Moved) \/ Moved[n + 1].name \in {"", "--"}
                 /\ \A f \in Fields :
                      \/ LastGiven(Moved, starts, f, config[chosen][f])
                      \/ /\ \A k \in starts : Moved[k].name # f
                         /\ config[chosen][f] = "default"
    <3>1. PICK n \in 0..Len(Moved) :
            Read(n) /\ (n = Len(Moved) \/ Moved[n + 1].name \in {"", "--"})
      BY <2>2 DEF CommandInv, Parsed
    <3>2. PICK starts \in SUBSET (1..n) : ReadAt(n, starts)
      BY <3>1 DEF Read
    <3>3. chosen \in Tasks
      BY <2>2 DEF CommandInv, CommandTypeInv
    <3>4. ASSUME NEW f \in Fields
          PROVE  \/ LastGiven(Moved, starts, f, config[chosen][f])
                 \/ /\ \A k \in starts : Moved[k].name # f
                    /\ config[chosen][f] = "default"
      <4>1. f \in FlagNames
        BY DEF FlagNames
      <4>2. config[chosen][f] = IF flags[f] # <<>> THEN Last(flags[f]) ELSE "default"
        BY <2>1, <2>2, <3>3
      <4> QED BY <3>2, <4>1, <4>2 DEF ReadAt
    <3>5. FlagsWithValues(Moved, 1, n, starts)
      BY <3>2 DEF ReadAt
    <3> QED BY <3>1, <3>4, <3>5
  <2>3. \A t \in Tasks, f \in Fields : stage # "run" \/ t # chosen => config[t][f] = "default"
    BY <2>1
  <2> QED BY <2>2, <2>3 DEF OverridesReachTheTask, Moved
<1> QED BY <1>1, CommandLineInvariant, PTL

-----------------------------------------------------------------------------
(* The two tasks: the inductive invariant.                                 *)

Results  == {"none", "nil", "file name", "read", "mismatch", "yaml", "cases", "limits",
             "connection", "run", "no pairs", "pair"}
Outcome  == {"match", "mismatch", "sql"}
Loading  == {"files", "load"}
Loaded   == {"configured", "workload", "concurrent", "serial"}

TypeInv ==
  /\ task \in {"compare", "run"} /\ hardCoded \in Seq(Cases(Nat)) /\ file \in Files
  /\ once \in BOOLEAN /\ yamlErr \in {"nil", "open", "decode", "documents", "case"}
  /\ cases \in Seq(Cases(Nat))
  /\ fromFiles \in BOOLEAN /\ concurrently \in BOOLEAN
  /\ pc \in {"idle"} \union Loading \union Loaded
  /\ calls \in Nat /\ next \in Nat \ {0}
  /\ log \in Seq(Cases(Nat) \X Outcome) /\ given \in Seq(Cases(Nat))
  /\ result \in Results

\* Each mode has its own way through the task; file mode never reads the YAML file.
Modes ==
  /\ task = "run" => ~fromFiles /\ concurrently
  /\ fromFiles => ~once
  /\ pc = "files" => fromFiles
  /\ pc \in Loaded \union {"load"} => ~fromFiles
  /\ pc = "workload" => task = "run"
  /\ pc = "serial" => task = "compare" /\ ~concurrently
  /\ pc = "concurrent" => task = "compare" /\ concurrently

\* What once.Do has left behind.
OnceDone ==
  /\ ~once => yamlErr = "nil" /\ cases = hardCoded
  /\ yamlErr # "nil" => cases = hardCoded
  /\ once /\ yamlErr = "nil" =>
       \E f \in Files : LoadError(f) = "nil" /\ cases = hardCoded \o f.cases
  /\ pc \in Loaded => once /\ yamlErr = "nil"

\* The pairs compared are the first of the configured ones.
Logged ==
  /\ Len(log) <= Len(cases)
  /\ \A i \in 1..Len(log) : log[i][1] = cases[i] /\ (i < Len(log) => log[i][2] = "match")
  /\ pc # "idle" => next = Len(log) + 1
  /\ pc = "serial" => \A i \in 1..Len(log) : log[i][2] = "match"
  /\ pc \notin {"idle", "serial"} => log = <<>>
  /\ log # <<>> => once /\ yamlErr = "nil" /\ ~fromFiles /\ ~concurrently

\* The workload has been given all the cases.
Given ==
  /\ given # <<>> => /\ given = cases /\ \A i \in 1..Len(given) : given[i].complete
                     /\ once /\ yamlErr = "nil"
  /\ pc = "workload" => given # <<>>
  /\ pc \notin {"idle", "workload"} => given = <<>>

\* What a result says.
Returned ==
  /\ pc # "idle" => result = "none"
  /\ result = "nil" /\ ~fromFiles /\ ~concurrently =>
       Len(log) = Len(cases) /\ \A i \in 1..Len(log) : log[i][2] = "match"
  /\ result = "pair" /\ ~concurrently => log # <<>> /\ log[Len(log)][2] # "match"
  /\ yamlErr # "nil" => result \in {"none", "yaml"}
  /\ task = "run" /\ result \in {"nil", "run"} => given # <<>>

IInv == TypeInv /\ Modes /\ OnceDone /\ Logged /\ Given /\ Returned

-----------------------------------------------------------------------------
(* The cases.                                                              *)

\* Loading the YAML file takes all of it or none, and a later call changes nothing.
LEMMA InitializeEffect ==
  ASSUME TypeInv, OnceDone, Initialize
  PROVE  /\ once' = TRUE /\ yamlErr' \in {"nil", "open", "decode", "documents", "case"}
         /\ cases' \in Seq(Cases(Nat))
         /\ UNCHANGED <<task, hardCoded, file>>
         /\ once => UNCHANGED <<yamlErr, cases>>
         /\ yamlErr' # "nil" => cases' = hardCoded
         /\ yamlErr' = "nil" =>
              \E f \in Files : LoadError(f) = "nil" /\ cases' = hardCoded \o f.cases
<1>1. once' = TRUE /\ UNCHANGED <<task, hardCoded, file>>
  BY DEF Initialize
<1>2. CASE once
  BY <1>1, <1>2 DEF Initialize, TypeInv, OnceDone
<1>3. CASE ~once
  <2>1. /\ yamlErr' = LoadError(file) /\ cases = hardCoded
        /\ cases' = IF LoadError(file) = "nil" THEN cases \o file.cases ELSE cases
    BY <1>3 DEF Initialize, OnceDone
  <2>2. /\ file \in Files /\ file.defect \in {"", "open", "decode", "documents", "empty"}
        /\ file.cases \in Seq(Cases(Nat)) /\ cases \in Seq(Cases(Nat))
    <3>1. file \in Files /\ cases \in Seq(Cases(Nat))
      BY DEF TypeInv
    <3>2. file.defect \in {"", "open", "decode", "documents", "empty"}
      BY ONLY <3>1, CasesAssumption
    <3>3. file.cases \in Seq(Cases(Nat))
      BY ONLY <3>1, CasesAssumption
    <3> QED BY <3>1, <3>2, <3>3
  <2>3. LoadError(file) \in {"nil", "open", "decode", "documents", "case"}
    BY <2>2 DEF LoadError, FileError
  <2>4. cases \o file.cases \in Seq(Cases(Nat))
    BY <2>2, ConcatProperties
  <2> QED BY <1>1, <1>3, <2>1, <2>2, <2>3, <2>4
<1> QED BY <1>2, <1>3

\* Steps that do not load leave the cases as they are.
LEMMA OnceKept ==
  ASSUME OnceDone, UNCHANGED <<task, hardCoded, once, yamlErr, cases>>,
         pc' \in Loaded => once /\ yamlErr = "nil"
  PROVE  OnceDone'
<1>1. \A f \in Files : LoadError(f)' = LoadError(f)
  BY DEF LoadError, FileError, YAMLCaseOK, CompareCaseOK, RunCaseOK
<1> QED BY <1>1 DEF OnceDone, Loaded

-----------------------------------------------------------------------------
(* The steps.                                                              *)

\* A call begins with nothing compared, given or returned.
LEMMA CallStep == IInv /\ Call => IInv'
<1> SUFFICES ASSUME IInv, Call PROVE IInv'
  OBVIOUS
<1>1. /\ pc = "idle" /\ calls' = calls + 1 /\ next' = 1
      /\ log' = <<>> /\ given' = <<>> /\ result' = "none"
      /\ pc' = IF fromFiles THEN "files" ELSE "load"
      /\ UNCHANGED <<task, hardCoded, file, once, yamlErr, cases, fromFiles, concurrently>>
  BY DEF Call, loadVars, mode
<1>2. TypeInv'
  <2>1. calls' \in Nat /\ next' \in Nat \ {0} /\ log' = <<>> /\ given' = <<>>
    BY <1>1 DEF IInv, TypeInv
  <2>2. pc' \in {"idle"} \union Loading \union Loaded /\ result' \in Results
    BY <1>1 DEF Loading, Results
  <2> QED BY <1>1, <2>1, <2>2 DEF IInv, TypeInv, Loading, Loaded
<1>3. Modes' /\ OnceDone'
  <2>1. pc' \notin Loaded
    BY <1>1 DEF Loaded
  <2>2. OnceDone'
    BY <1>1, <2>1, OnceKept DEF IInv
  <2>3. Modes'
    BY <1>1 DEF IInv, TypeInv, Modes, Loaded
  <2> QED BY <2>2, <2>3
<1>4. Logged'
  <2>1. Len(log') = 0 /\ Len(cases) \in Nat /\ pc' # "serial"
    BY <1>1 DEF IInv, TypeInv
  <2> QED BY <1>1, <2>1 DEF Logged
<1>5. Given' /\ Returned'
  BY <1>1 DEF Given, Returned
<1> QED BY <1>2, <1>3, <1>4, <1>5 DEF IInv

\* The YAML file is loaded, at most once.
LEMMA LoadStep == IInv /\ Load => IInv'
<1> SUFFICES ASSUME IInv, Load PROVE IInv'
  OBVIOUS
<1>1. /\ pc = "load" /\ UNCHANGED <<fromFiles, concurrently, calls, next, log, given>>
      /\ yamlErr' # "nil" => pc' = "idle" /\ result' = "yaml"
      /\ yamlErr' = "nil" => pc' = "configured" /\ UNCHANGED result
  BY DEF Load, Return, mode
<1>2. /\ once' = TRUE /\ yamlErr' \in {"nil", "open", "decode", "documents", "case"}
      /\ cases' \in Seq(Cases(Nat))
      /\ UNCHANGED <<task, hardCoded, file>>
      /\ once => UNCHANGED <<yamlErr, cases>>
      /\ yamlErr' # "nil" => cases' = hardCoded
      /\ yamlErr' = "nil" =>
           \E f \in Files : LoadError(f) = "nil" /\ cases' = hardCoded \o f.cases
  BY InitializeEffect DEF Load, IInv
<1>3. log = <<>> /\ given = <<>> /\ result = "none" /\ ~fromFiles
  BY <1>1 DEF IInv, Modes, Logged, Given, Returned, Loaded
<1>4. TypeInv'
  BY <1>1, <1>2 DEF IInv, TypeInv, Loaded, Results
<1>5. Modes'
  BY <1>1, <1>2, <1>3 DEF IInv, Modes, Loaded
<1>6. OnceDone'
  <2>1. \A f \in Files : LoadError(f)' = LoadError(f)
    BY <1>2 DEF LoadError, FileError, YAMLCaseOK, CompareCaseOK, RunCaseOK
  <2> QED BY <1>1, <1>2, <2>1 DEF OnceDone, Loaded
<1>7. Logged'
  <2>1. log' = <<>> /\ Len(log') = 0 /\ Len(cases') \in Nat /\ pc' # "serial"
    BY <1>1, <1>2, <1>3
  <2>2. next' = Len(log') + 1
    BY <1>1 DEF IInv, Logged
  <2> QED BY <2>1, <2>2 DEF Logged
<1>8. Given' /\ Returned'
  BY <1>1, <1>2, <1>3 DEF Given, Returned
<1> QED BY <1>4, <1>5, <1>6, <1>7, <1>8 DEF IInv

\* A call that returns without having compared a pair: the result says why.
LEMMA ReturnStep ==
  ASSUME IInv, NEW value \in Results, pc # "idle", Return(value), log = <<>>, given = <<>>,
         UNCHANGED <<loadVars, mode, calls, next, log, given>>,
         task = "run" => value \notin {"nil", "run"},
         yamlErr # "nil" => value = "yaml",
         ~concurrently /\ ~fromFiles => value \notin {"nil", "pair"},
         fromFiles => value # "pair"
  PROVE  IInv'
<1>1. /\ pc' = "idle" /\ result' = value
      /\ UNCHANGED <<task, hardCoded, file, once, yamlErr, cases, fromFiles, concurrently,
                     calls, next, log, given>>
  BY DEF Return, loadVars, mode
<1>2. TypeInv'
  BY <1>1 DEF IInv, TypeInv, Loading, Loaded
<1>3. Modes'
  BY <1>1 DEF IInv, Modes, Loaded
<1>4. OnceDone'
  BY <1>1, OnceKept DEF IInv, Loaded
<1>5. Logged'
  BY <1>1 DEF IInv, Logged
<1>6. Given' /\ Returned'
  BY <1>1 DEF IInv, Given, Returned
<1> QED BY <1>2, <1>3, <1>4, <1>5, <1>6 DEF IInv

\* A call that goes on, with the cases it may have been given.
LEMMA AdvanceStep ==
  ASSUME IInv, pc = "configured", pc' \in Loaded \ {"configured"},
         UNCHANGED <<loadVars, mode, calls, next, log, result>>,
         pc' = "workload" => task = "run" /\ given' = cases /\ cases # <<>>
                             /\ \A i \in 1..Len(cases) : cases[i].complete,
         pc' # "workload" => UNCHANGED given /\ task = "compare",
         pc' = "serial" <=> pc' # "workload" /\ ~concurrently
  PROVE  IInv'
<1>1. /\ UNCHANGED <<task, hardCoded, file, once, yamlErr, cases, fromFiles, concurrently,
                     calls, next, log, result>>
      /\ log = <<>> /\ given = <<>> /\ result = "none" /\ once /\ yamlErr = "nil" /\ ~fromFiles
  BY DEF loadVars, mode, IInv, Logged, Given, Returned, OnceDone, Modes, Loaded
<1>2. TypeInv'
  <2>1. given' \in Seq(Cases(Nat))
    BY <1>1 DEF IInv, TypeInv, Loaded
  <2> QED BY <1>1, <2>1 DEF IInv, TypeInv, Loading, Loaded
<1>3. Modes'
  BY <1>1 DEF IInv, TypeInv, Modes, Loaded
<1>4. OnceDone'
  BY <1>1, OnceKept DEF IInv
<1>5. Logged'
  <2>1. Len(log) = 0
    BY <1>1
  <2> QED BY <1>1, <2>1 DEF IInv, Logged, Loaded
<1>6. Given' /\ Returned'
  BY <1>1 DEF IInv, Given, Returned, Loaded
<1> QED BY <1>2, <1>3, <1>4, <1>5, <1>6 DEF IInv

\* The workload of run-sqls has run on all the cases.
LEMMA WorkloadStep == IInv /\ Workload => IInv'
<1> SUFFICES ASSUME IInv, Workload PROVE IInv'
  OBVIOUS
<1>1. /\ pc = "workload" /\ pc' = "idle" /\ result' \in {"nil", "run"}
      /\ UNCHANGED <<task, hardCoded, file, once, yamlErr, cases, fromFiles, concurrently,
                     calls, next, log, given>>
  BY DEF Workload, Return, loadVars, mode
<1>2. /\ task = "run" /\ concurrently /\ given # <<>> /\ yamlErr = "nil" /\ log = <<>>
  BY <1>1 DEF IInv, Modes, Given, Logged
<1>3. TypeInv'
  BY <1>1 DEF IInv, TypeInv, Loading, Loaded, Results
<1>4. Modes'
  BY <1>1 DEF IInv, Modes, Loaded
<1>5. OnceDone'
  BY <1>1, OnceKept DEF IInv, Loaded
<1>6. Logged'
  BY <1>1 DEF IInv, Logged
<1>7. Given' /\ Returned'
  BY <1>1, <1>2 DEF IInv, Given, Returned
<1> QED BY <1>3, <1>4, <1>5, <1>6, <1>7 DEF IInv

\* One more pair is compared, and the first that does not match ends the call.
LEMMA ComparePairStep == IInv /\ ComparePair => IInv'
<1> SUFFICES ASSUME IInv, ComparePair PROVE IInv'
  OBVIOUS
<1>1. /\ pc = "serial" /\ next <= Len(cases)
      /\ UNCHANGED <<task, hardCoded, file, once, yamlErr, cases, fromFiles, concurrently,
                     calls, given>>
  BY DEF ComparePair, loadVars, mode
<1>2. PICK outcome \in Outcomes(cases[next]) :
        /\ log' = Append(log, <<cases[next], outcome>>)
        /\ IF outcome = "match" THEN next' = next + 1 /\ UNCHANGED <<pc, result>>
           ELSE pc' = "idle" /\ result' = "pair" /\ UNCHANGED next
  BY DEF ComparePair, Return
<1>3. /\ next = Len(log) + 1 /\ \A i \in 1..Len(log) : log[i][2] = "match"
      /\ once /\ yamlErr = "nil" /\ ~fromFiles /\ ~concurrently /\ task = "compare"
      /\ given = <<>> /\ result = "none"
  BY <1>1 DEF IInv, Logged, Modes, OnceDone, Loaded, Given, Returned
<1> DEFINE entry == <<cases[next], outcome>>
<1>4. /\ cases[next] \in Cases(Nat) /\ outcome \in Outcome
      /\ entry \in Cases(Nat) \X Outcome /\ entry[1] = cases[next] /\ entry[2] = outcome
  <2>1. cases[next] \in Cases(Nat)
    BY <1>1 DEF IInv, TypeInv
  <2>2. outcome \in Outcome
    BY DEF Outcomes, Outcome
  <2> QED BY <2>1, <2>2
<1> HIDE DEF entry
<1>5. /\ log' \in Seq(Cases(Nat) \X Outcome) /\ Len(log') = Len(log) + 1 /\ Len(log) \in Nat
      /\ \A i \in 1..Len(log) : log'[i] = log[i]
      /\ log'[Len(log) + 1] = entry /\ log' # <<>>
  <2> DEFINE T == Cases(Nat) \X Outcome
  <2>1. log \in Seq(T) /\ entry \in T /\ log' = Append(log, entry)
    BY <1>2, <1>4 DEF IInv, TypeInv, entry
  <2> HIDE DEF T
  <2>2. /\ log' \in Seq(T) /\ Len(log') = Len(log) + 1 /\ Len(log) \in Nat
        /\ \A i \in 1..Len(log) : log'[i] = log[i]
        /\ log'[Len(log) + 1] = entry /\ log' # <<>>
    BY <2>1, AppendProperties
  <2> QED BY <2>2 DEF T
<1>6. TypeInv'
  <2>1. next' \in Nat \ {0} /\ pc' \in {"idle", "serial"} /\ result' \in Results
    <3>1. next \in Nat \ {0} /\ next' \in {next, next + 1}
      BY <1>2 DEF IInv, TypeInv
    <3>2. pc' \in {"idle", "serial"} /\ result' \in {"none", "pair"}
      BY <1>1, <1>2, <1>3
    <3>3. next' \in Nat \ {0}
      BY <3>1
    <3> QED BY <3>2, <3>3 DEF Results
  <2>2. (log \in Seq(Cases(Nat) \X Outcome))'
    BY <1>5 DEF Cases, Outcome
  <2> QED BY <1>1, <2>1, <2>2 DEF IInv, TypeInv, Loading, Loaded
<1>7. Modes'
  BY <1>1, <1>2 DEF IInv, Modes, Loaded
<1>8. OnceDone'
  BY <1>1, <1>3, OnceKept DEF IInv
<1>9. Logged'
  <2>1. Len(log') <= Len(cases')
    BY <1>1, <1>3, <1>5
  <2>2. \A i \in 1..Len(log') :
          log'[i][1] = cases'[i] /\ (i < Len(log') => log'[i][2] = "match")
    BY <1>1, <1>3, <1>4, <1>5 DEF IInv, Logged
  <2>3. pc' = "serial" => /\ next' = Len(log') + 1
                          /\ \A i \in 1..Len(log') : log'[i][2] = "match"
    BY <1>2, <1>3, <1>4, <1>5
  <2> QED BY <1>1, <1>2, <1>3, <2>1, <2>2, <2>3 DEF Logged
<1>10. Given' /\ Returned'
  <2>1. outcome # "match" => log'[Len(log')][2] # "match"
    BY <1>4, <1>5
  <2> QED BY <1>1, <1>2, <1>3, <1>5, <2>1 DEF IInv, Given, Returned
<1> QED BY <1>6, <1>7, <1>8, <1>9, <1>10 DEF IInv

\* All pairs have been compared, and all of them match.
LEMMA AllComparedStep == IInv /\ AllCompared => IInv'
<1> SUFFICES ASSUME IInv, AllCompared PROVE IInv'
  OBVIOUS
<1>1. /\ pc = "serial" /\ next > Len(cases) /\ pc' = "idle" /\ result' = "nil"
      /\ UNCHANGED <<task, hardCoded, file, once, yamlErr, cases, fromFiles, concurrently,
                     calls, next, log, given>>
  BY DEF AllCompared, Return, loadVars, mode
<1>2. /\ next = Len(log) + 1 /\ \A i \in 1..Len(log) : log[i][2] = "match"
      /\ Len(log) <= Len(cases) /\ yamlErr = "nil" /\ task = "compare"
  BY <1>1 DEF IInv, Logged, OnceDone, Modes, Loaded
<1>3. Len(log) = Len(cases)
  <2>1. Len(log) \in Nat /\ Len(cases) \in Nat
    BY DEF IInv, TypeInv
  <2> QED BY <1>1, <1>2, <2>1
<1>4. TypeInv'
  BY <1>1 DEF IInv, TypeInv, Loading, Loaded, Results
<1>5. Modes'
  BY <1>1 DEF IInv, Modes, Loaded
<1>6. OnceDone'
  BY <1>1, OnceKept DEF IInv, Loaded
<1>7. Logged'
  BY <1>1 DEF IInv, Logged
<1>8. Given' /\ Returned'
  BY <1>1, <1>2, <1>3 DEF IInv, Given, Returned
<1> QED BY <1>4, <1>5, <1>6, <1>7, <1>8 DEF IInv

\* The program starts with the cases of the source.
LEMMA InitInvariant == Init => IInv
<1> SUFFICES ASSUME Init PROVE IInv
  OBVIOUS
<1>1. /\ task \in {"compare", "run"} /\ hardCoded \in Sources /\ cases = hardCoded
      /\ file \in Files /\ once = FALSE /\ yamlErr = "nil"
      /\ pc = "idle" /\ calls = 0 /\ next = 1
      /\ log = <<>> /\ given = <<>> /\ result = "none"
  BY DEF Init, LoadInit
<1>2. fromFiles \in {FALSE, task = "compare"} /\ concurrently \in {TRUE, task = "run"}
  BY DEF Init
<1>3. hardCoded \in Seq(Cases(Nat))
  BY <1>1, CasesAssumption
<1>4. fromFiles \in BOOLEAN /\ concurrently \in BOOLEAN /\ (task = "run" => ~fromFiles /\ concurrently)
  <2>1. (task = "compare") \in BOOLEAN /\ (task = "run") \in BOOLEAN
    OBVIOUS
  <2>2. fromFiles \in BOOLEAN /\ concurrently \in BOOLEAN
    BY <1>2, <2>1
  <2>3. ASSUME task = "run" PROVE fromFiles = FALSE /\ concurrently = TRUE
    <3>1. (task = "compare") = FALSE /\ (task = "run") = TRUE
      BY <2>3
    <3> QED BY <1>2, <3>1
  <2> QED BY <2>2, <2>3
<1>5. Modes /\ OnceDone /\ TypeInv
  <2>1. Modes /\ OnceDone
    BY <1>1, <1>4 DEF Modes, OnceDone, Loaded
  <2>2. log \in Seq(Cases(Nat) \X Outcome) /\ given \in Seq(Cases(Nat))
    BY <1>1
  <2>3. cases \in Seq(Cases(Nat)) /\ hardCoded \in Seq(Cases(Nat))
    BY <1>1, <1>3
  <2>4. /\ yamlErr \in {"nil", "open", "decode", "documents", "case"}
        /\ pc \in {"idle"} \union Loading \union Loaded /\ result \in Results
    BY <1>1 DEF Results
  <2>5. task \in {"compare", "run"} /\ file \in Files /\ once \in BOOLEAN
    BY <1>1
  <2>6. calls \in Nat /\ next \in Nat \ {0}
    BY <1>1
  <2> QED BY <1>4, <2>1, <2>2, <2>3, <2>4, <2>5, <2>6 DEF TypeInv
<1>6. Logged
  <2>1. Len(log) = 0 /\ Len(cases) \in Nat
    BY <1>1, <1>3
  <2> QED BY <1>1, <2>1 DEF Logged
<1>7. Given /\ Returned
  BY <1>1 DEF Given, Returned
<1> QED BY <1>5, <1>6, <1>7 DEF IInv

\* Every step keeps the invariant.
LEMMA StepInvariant == IInv /\ [Next]_vars => IInv'
<1> SUFFICES ASSUME IInv, [Next]_vars PROVE IInv'
  OBVIOUS
<1>1. ASSUME pc \notin {"idle", "serial", "workload"} PROVE log = <<>> /\ given = <<>>
  BY <1>1 DEF IInv, Logged, Given
<1>2. CASE CompareFiles
  <2>1. pc = "files" /\ fromFiles
    BY <1>2 DEF CompareFiles, IInv, Modes
  <2>2. task # "run" /\ yamlErr = "nil"
    BY <2>1 DEF IInv, Modes, OnceDone
  <2>3. /\ \E value \in {"nil", "file name", "read", "mismatch"} : Return(value)
        /\ UNCHANGED <<loadVars, mode, calls, next, log, given>>
    BY <1>2 DEF CompareFiles
  <2> QED BY <1>1, <2>1, <2>2, <2>3, ReturnStep DEF Results
<1>3. CASE Validate
  <2>1. /\ pc = "configured" /\ task = "run"
        /\ UNCHANGED <<loadVars, mode, calls, next, log>>
    BY <1>3 DEF Validate
  <2>2. concurrently /\ ~fromFiles /\ yamlErr = "nil"
    BY <2>1 DEF IInv, Modes, OnceDone, Loaded
  <2>3. CASE (\E value \in {"cases", "limits", "connection"} : Return(value)) /\ UNCHANGED given
    BY <1>1, <2>1, <2>2, <2>3, ReturnStep DEF Results
  <2>4. CASE /\ cases # <<>> /\ \A i \in 1..Len(cases) : cases[i].complete
             /\ given' = cases /\ pc' = "workload" /\ UNCHANGED result
    BY <2>1, <2>2, <2>4, AdvanceStep DEF Loaded
  <2> QED BY <1>3, <2>3, <2>4 DEF Validate, ValidCases
<1>4. CASE Configured
  <2>1. /\ pc = "configured" /\ task = "compare"
        /\ UNCHANGED <<loadVars, mode, calls, next, log, given>>
    BY <1>4 DEF Configured
  <2>2. yamlErr = "nil"
    BY <2>1 DEF IInv, OnceDone, Loaded
  <2>3. CASE \E value \in {"no pairs", "limits", "connection"} : Return(value)
    BY <1>1, <2>1, <2>2, <2>3, ReturnStep DEF Results
  <2>4. CASE UNCHANGED result /\ pc' = IF concurrently THEN "concurrent" ELSE "serial"
    BY <2>1, <2>4, AdvanceStep DEF Loaded
  <2> QED BY <1>4, <2>3, <2>4 DEF Configured
<1>5. CASE CompareConcurrently
  <2>1. pc = "concurrent" /\ task = "compare" /\ concurrently /\ ~fromFiles /\ yamlErr = "nil"
    BY <1>5 DEF CompareConcurrently, IInv, Modes, OnceDone, Loaded
  <2>2. /\ \E value \in {"nil", "pair"} : Return(value)
        /\ UNCHANGED <<loadVars, mode, calls, next, log, given>>
    BY <1>5 DEF CompareConcurrently
  <2> QED BY <1>1, <2>1, <2>2, ReturnStep DEF Results
<1>6. CASE Edit
  <2>1. /\ file' \in Files
        /\ UNCHANGED <<task, hardCoded, once, yamlErr, cases, fromFiles, concurrently, pc,
                       calls, next, log, given, result>>
    BY <1>6 DEF Edit, EditFile, mode
  <2>2. OnceDone'
    BY <2>1, OnceKept DEF IInv, OnceDone
  <2>3. TypeInv'
    BY <2>1 DEF IInv, TypeInv
  <2>4. Modes' /\ Logged' /\ Given' /\ Returned'
    BY <2>1 DEF IInv, Modes, Logged, Given, Returned
  <2> QED BY <2>2, <2>3, <2>4 DEF IInv
<1>7. CASE UNCHANGED vars
  <2>1. UNCHANGED <<task, hardCoded, file, once, yamlErr, cases, fromFiles, concurrently, pc,
                    calls, next, log, given, result>>
    BY <1>7 DEF vars, loadVars
  <2>2. OnceDone'
    BY <2>1, OnceKept DEF IInv, OnceDone
  <2>3. TypeInv'
    BY <2>1 DEF IInv, TypeInv
  <2>4. Modes' /\ Logged' /\ Given' /\ Returned'
    BY <2>1 DEF IInv, Modes, Logged, Given, Returned
  <2> QED BY <2>2, <2>3, <2>4 DEF IInv
<1> QED BY CallStep, LoadStep, WorkloadStep, ComparePairStep, AllComparedStep,
           <1>2, <1>3, <1>4, <1>5, <1>6, <1>7 DEF Next, Finished

-----------------------------------------------------------------------------
\* The inductive invariant.  What a result says depends on the mode, on what once.Do
\* has left behind, and on the pairs compared so far being the first configured ones.
THEOREM TasksInvariant == Spec => []IInv
BY InitInvariant, StepInvariant, PTL DEF Spec

\* The YAML file is taken as a whole or not at all, and once per process.
THEOREM CasesAllOrNothing == Spec => []AllOrNothing
<1>1. IInv => AllOrNothing
  BY DEF IInv, OnceDone, AllOrNothing
<1> QED BY <1>1, TasksInvariant, PTL

\* The serial mode compares the pairs in order and reports the first that differs.
THEOREM SerialAlwaysExact == Spec => []SerialExact
<1>1. IInv => SerialExact
  BY DEF IInv, Logged, Returned, SerialExact
<1> QED BY <1>1, TasksInvariant, PTL

\* Nothing is executed for a configuration that could not be read completely.
THEOREM AlwaysWholeConfiguration == Spec => []WholeConfigurationOrNothing
<1>1. IInv => WholeConfigurationOrNothing
  <2> SUFFICES ASSUME IInv PROVE WholeConfigurationOrNothing
    OBVIOUS
  <2>1. yamlErr # "nil" => log = <<>> /\ given = <<>> /\ result \in {"none", "yaml"}
    BY DEF IInv, Logged, Given, Returned
  <2>2. (fromFiles => ~once) /\ (task = "run" /\ result \in {"nil", "run"} => given # <<>>)
    BY DEF IInv, Modes, Returned
  <2>3. given # <<>> => given = cases /\ \A i \in 1..Len(given) : given[i].complete
    BY DEF IInv, Given
  <2> QED BY <2>1, <2>2, <2>3 DEF WholeConfigurationOrNothing
<1> QED BY <1>1, TasksInvariant, PTL

=============================================================================
