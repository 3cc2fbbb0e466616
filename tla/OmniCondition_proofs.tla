------------------------- MODULE OmniCondition_proofs -------------------------
(***************************************************************************)
(* Proofs about OmniCondition, for any set of threads and any depth of the *)
(* recursive mutex.                                                        *)
(*                                                                         *)
(* The argument: at every moment there is one sequence of threads that the *)
(* pointers of the list spell in both directions, and it holds exactly the *)
(* threads marked cond_waiting.  A wait appends to it, a signal takes its  *)
(* head, a timed-out wait takes an element out of its middle.  With that,  *)
(* a thread is on the list exactly between its Enqueue and the Unlink or   *)
(* Pop that takes it off, which is what keeps the semaphores in step; and  *)
(* the sequence is the queue of the abstract condition variable, which     *)
(* every step then takes as CondVar says it may.                           *)
(***************************************************************************)
EXTENDS OmniCondition, SequenceTheorems, FunctionTheorems, FiniteSetTheorems,
        WellFoundedInduction, TLAPS

LockInv == owner = NULL <=> depth = 0

\* A sequence of threads that is the list: the waiting threads, each once, in
\* the order of the links.
IsChain(c) ==
    /\ c \in Seq(Threads)
    /\ Links(c)
    /\ \A i, j \in DOMAIN c : c[i] = c[j] => i = j
    /\ \A t \in Threads : cond_waiting[t] <=> \E i \in DOMAIN c : c[i] = t

ChainInv == \E c : IsChain(c)

OnList == {"enqueued", "blocked", "timedout"}

WaitInv == \A t \in Threads : cond_waiting[t] => pc[t] \in OnList

\* What the place of a thread says about the locks and about its call.
PlaceInv == \A t \in Threads : /\ pc[t] = "enqueued" => owner = t
                               /\ pc[t] = "broadcast" => crit = t
                               /\ pc[t] = "timedout" => timed[t]

IInv == TypeOK /\ LockInv /\ ChainInv /\ WaitInv /\ PlaceInv /\ SemaphoreInStep

\* omni_condition's constructor, with the mutex free and nobody waiting,
\* satisfies the invariant.
LEMMA InitIInv == Init => IInv
<1>. SUFFICES ASSUME Init PROVE IInv
  OBVIOUS
<1>1. TypeOK /\ LockInv /\ WaitInv /\ PlaceInv /\ SemaphoreInStep
  BY OmniAssumption
  DEF Init, TypeOK, LockInv, WaitInv, PlaceInv, SemaphoreInStep, Pointer, PC
<1>2. IsChain(<< >>)
  <2>1. << >> \in Seq(Threads) /\ DOMAIN << >> = {}
    BY EmptySeq
  <2>2. Links(<< >>)
    BY <2>1 DEF Links, Init
  <2>. QED BY <2>1, <2>2 DEF IsChain, Init
<1>. QED BY <1>1, <1>2 DEF IInv, ChainInv
-----------------------------------------------------------------------------
(***************************************************************************)
(* The list as a sequence.                                                 *)
(***************************************************************************)
\* What IsChain says with the length instead of the domain.
LEMMA ChainFacts ==
  ASSUME NEW c, IsChain(c)
  PROVE  /\ c \in Seq(Threads) /\ Len(c) \in Nat /\ DOMAIN c = 1..Len(c)
         /\ \A i \in 1..Len(c) : c[i] \in Threads /\ c[i] # NULL
         /\ c = << >> <=> Len(c) = 0
  BY OmniAssumption, LenProperties, EmptySeq, ElementOfSeq DEF IsChain

\* Every set of natural numbers that is not empty has a least element.
LEMMA LeastElement ==
  ASSUME NEW S \in SUBSET Nat, S # {}
  PROVE  \E n \in S : \A m \in S : n <= m
<1>. DEFINE R == OpToRel(<, Nat)
<1>1. \A m, n \in Nat : <<m, n>> \in R <=> m < n
  BY DEF OpToRel
<1>2. IsWellFoundedOn(R, Nat)
  BY NatLessThanWellFounded
<1>. HIDE DEF R
<1>3. PICK n \in S : \A m \in S : ~ (<<m, n>> \in R)
  BY <1>2, WFMin
<1>4. ASSUME NEW m \in S PROVE n <= m
  BY <1>1, <1>3, n \in Nat, m \in Nat, ~ (<<m, n>> \in R)
<1>. QED BY <1>4

\* The pointers spell one sequence only.
LEMMA ChainUnique ==
  ASSUME NEW c, IsChain(c), NEW d, IsChain(d), TypeOK
  PROVE  c = d
<1>1. /\ c \in Seq(Threads) /\ Len(c) \in Nat /\ DOMAIN c = 1..Len(c)
      /\ \A i \in 1..Len(c) : c[i] \in Threads /\ c[i] # NULL
      /\ c = << >> <=> Len(c) = 0
      /\ d \in Seq(Threads) /\ Len(d) \in Nat /\ DOMAIN d = 1..Len(d)
      /\ \A i \in 1..Len(d) : d[i] \in Threads /\ d[i] # NULL
      /\ d = << >> <=> Len(d) = 0
  BY ChainFacts
<1>2. Links(c) /\ Links(d)
  BY DEF IsChain
<1>. DEFINE Differ == {i \in Nat : i \in 1..Len(c) /\ i \in 1..Len(d) /\ c[i] # d[i]}
<1>3. Differ = {}
  <2>1. SUFFICES ASSUME Differ # {} PROVE FALSE
    OBVIOUS
  <2>2. PICK i \in Differ : \A j \in Differ : i <= j
    BY <2>1, LeastElement, Differ \in SUBSET Nat
  <2>3. i \in Nat /\ i \in 1..Len(c) /\ i \in 1..Len(d) /\ c[i] # d[i]
    OBVIOUS
  <2>4. CASE i = 1
    BY <1>1, <1>2, <2>3, <2>4 DEF Links
  <2>5. CASE i > 1
    <3>1. i - 1 \in 1..Len(c) /\ i - 1 \in 1..Len(d) /\ i - 1 \notin Differ
      BY <1>1, <2>2, <2>3, <2>5
    <3>2. c[i-1] = d[i-1]
      BY <3>1
    <3>3. i - 1 # Len(c) /\ i - 1 # Len(d) /\ (i - 1) + 1 = i
      BY <1>1, <2>3
    <3>4. cond_next[c[i-1]] = c[i]
      <4>1. \A j \in 1..Len(c) : j # Len(c) => cond_next[c[j]] = c[j+1]
        BY <1>1, <1>2 DEF Links
      <4>. QED BY <3>1, <3>3, <4>1
    <3>5. cond_next[d[i-1]] = d[i]
      <4>1. \A j \in 1..Len(d) : j # Len(d) => cond_next[d[j]] = d[j+1]
        BY <1>1, <1>2 DEF Links
      <4>. QED BY <3>1, <3>3, <4>1
    <3>. QED BY <2>3, <3>2, <3>4, <3>5
  <2>. QED BY <2>3, <2>4, <2>5
<1>4. \A i \in 1..Len(c) : i \in 1..Len(d) => c[i] = d[i]
  BY <1>1, <1>3
<1>. HIDE DEF Differ
<1>5. ASSUME NEW a, NEW b, Links(a), Links(b),
             Len(a) \in Nat, Len(b) \in Nat, Len(a) < Len(b),
             DOMAIN a = 1..Len(a), DOMAIN b = 1..Len(b),
             a = << >> <=> Len(a) = 0, b = << >> <=> Len(b) = 0,
             \A i \in 1..Len(b) : b[i] # NULL,
             \A i \in 1..Len(a) : i \in 1..Len(b) => a[i] = b[i]
      PROVE  FALSE
  <2>1. CASE Len(a) = 0
    BY <1>5, <2>1 DEF Links
  <2>2. CASE Len(a) > 0
    <3>1. cond_next[a[Len(a)]] = NULL
      BY <1>5, <2>2 DEF Links
    <3>2. cond_next[b[Len(a)]] = b[Len(a) + 1] /\ b[Len(a) + 1] # NULL
      BY <1>5, <2>2 DEF Links
    <3>3. a[Len(a)] = b[Len(a)]
      BY <1>5, <2>2
    <3>. QED BY <3>1, <3>2, <3>3
  <2>. QED BY <1>5, <2>1, <2>2
<1>6. Len(c) = Len(d)
  <2>1. ~ (Len(c) < Len(d))
    BY <1>1, <1>2, <1>4, <1>5
  <2>2. ~ (Len(d) < Len(c))
    BY <1>1, <1>2, <1>4, <1>5
  <2>3. Len(c) \in Nat /\ Len(d) \in Nat
    BY <1>1
  <2>. QED BY <2>1, <2>2, <2>3
<1>. QED BY <1>1, <1>4, <1>6, SeqEqual

\* A chain has the form the property asks for, and the other way round.
LEMMA ChainIsOrder ==
  ASSUME NEW c, IsChain(c)
  PROVE  c \in SetToSeqs(Waiters)
<1>1. /\ c \in Seq(Threads) /\ Len(c) \in Nat /\ DOMAIN c = 1..Len(c)
      /\ \A i \in 1..Len(c) : c[i] \in Threads
  BY ChainFacts
<1>2. c \in [1..Len(c) -> Waiters]
  BY <1>1, LenProperties DEF IsChain, Waiters
<1>3. \A i, j \in 1..Len(c) : c[i] = c[j] => i = j
  BY <1>1 DEF IsChain
<1>4. \A t \in Waiters : \E i \in 1..Len(c) : c[i] = t
  BY <1>1 DEF IsChain, Waiters
<1>5. c \in Bijection(1..Len(c), Waiters)
  BY <1>2, <1>3, <1>4, Fun_IsBij
<1>6. Cardinality(Waiters) = Len(c)
  <2>1. IsFiniteSet(1..Len(c)) /\ Cardinality(1..Len(c)) = Len(c)
    <3>1. 1 \in Int /\ Len(c) \in Int /\ (IF 1 > Len(c) THEN 0 ELSE Len(c) - 1 + 1) = Len(c)
      BY <1>1
    <3>. QED BY <3>1, FS_Interval
  <2>2. ExistsBijection(1..Len(c), Waiters)
    BY <1>5, Fun_ExistsBij
  <2>. QED BY <2>1, <2>2, FS_Bijection
<1>. QED BY <1>2, <1>3, <1>6 DEF SetToSeqs

LEMMA OrderIsChain ==
  ASSUME IsFiniteSet(Waiters), NEW c \in SetToSeqs(Waiters), Links(c)
  PROVE  IsChain(c)
<1>. DEFINE n == Cardinality(Waiters)
<1>1. n \in Nat
  BY FS_CardinalityType
<1>2. c \in [1..n -> Waiters] /\ \A i, j \in 1..n : i # j => c[i] # c[j]
  BY DEF SetToSeqs
<1>3. c \in Seq(Waiters) /\ Len(c) = n
  BY <1>1, <1>2
<1>4. c \in Seq(Threads) /\ DOMAIN c = 1..n
  BY <1>2, <1>3, SeqMonotonic DEF Waiters
<1>5. c \in Injection(1..n, Waiters)
  BY <1>2 DEF Injection, IsInjective
<1>6. \A t \in Waiters : \E i \in 1..n : c[i] = t
  <2>1. IsFiniteSet(1..n) /\ Cardinality(1..n) = n
    <3>1. 1 \in Int /\ n \in Int /\ (IF 1 > n THEN 0 ELSE n - 1 + 1) = n
      BY <1>1
    <3>. QED BY <3>1, FS_Interval
  <2>2. c \in Surjection(1..n, Waiters)
    BY <1>5, <2>1, FS_Injection
  <2>. QED BY <2>2 DEF Surjection
<1>. QED BY <1>2, <1>4, <1>6 DEF IsChain, Waiters

\* The sequence that Chain chooses is the list.
LEMMA ChainIs ==
  \A c : TypeOK /\ IsChain(c) => Chain = c
<1>. SUFFICES ASSUME NEW c, TypeOK, IsChain(c) PROVE Chain = c
  OBVIOUS
<1>1. IsFiniteSet(Waiters)
  <2>1. c \in Seq(Threads) /\ Len(c) \in Nat /\ DOMAIN c = 1..Len(c)
    BY ChainFacts
  <2>2. IsFiniteSet(1..Len(c))
    <3>1. 1 \in Int /\ Len(c) \in Int
      BY <2>1
    <3>. QED BY <3>1, FS_Interval
  <2>3. c \in Surjection(1..Len(c), Waiters)
    BY <2>1 DEF IsChain, Waiters, Surjection
  <2>. QED BY <2>2, <2>3, FS_Surjection
<1>2. c \in SetToSeqs(Waiters) /\ Links(c)
  BY ChainIsOrder DEF IsChain
<1>3. Chain \in SetToSeqs(Waiters) /\ Links(Chain)
  BY <1>2 DEF Chain
<1>4. IsChain(Chain)
  BY <1>1, <1>3, OrderIsChain
<1>. QED BY <1>4, ChainUnique

\* What RemoveAt leaves.
LEMMA RemoveAtFacts ==
  ASSUME NEW S, NEW s \in Seq(S), NEW i \in 1..Len(s)
  PROVE  /\ RemoveAt(s, i) \in Seq(S)
         /\ Len(RemoveAt(s, i)) = Len(s) - 1
         /\ \A j \in 1..(Len(s) - 1) :
               RemoveAt(s, i)[j] = IF j < i THEN s[j] ELSE s[j+1]
<1>. DEFINE n == Len(s)
            a == SubSeq(s, 1, i-1)
            b == SubSeq(s, i+1, n)
<1>1. n \in Nat /\ i \in Int /\ 1 <= i /\ i <= n /\ \A j \in 1..n : s[j] \in S
  BY LenProperties, ElementOfSeq
<1>2. /\ a \in Seq(S) /\ Len(a) = i - 1
      /\ \A j \in 1..(i-1) : a[j] = s[j]
  <2>1. 1 \in Int /\ i - 1 \in Int /\ \A j \in 1..(i-1) : s[j] \in S
    BY <1>1
  <2>2. /\ a \in Seq(S) /\ Len(a) = IF 1 <= i-1 THEN (i-1)-1+1 ELSE 0
        /\ \A j \in 1..((i-1)-1+1) : a[j] = s[1+j-1]
    BY <2>1, SubSeqProperties
  <2>. QED BY <1>1, <2>2
<1>3. /\ b \in Seq(S) /\ Len(b) = n - i
      /\ \A j \in 1..(n-i) : b[j] = s[i+j]
  <2>1. i + 1 \in Int /\ n \in Int /\ \A j \in (i+1)..n : s[j] \in S
    BY <1>1
  <2>2. /\ b \in Seq(S) /\ Len(b) = IF i+1 <= n THEN n-(i+1)+1 ELSE 0
        /\ \A j \in 1..(n-(i+1)+1) : b[j] = s[(i+1)+j-1]
    BY <2>1, SubSeqProperties
  <2>. QED BY <1>1, <2>2
<1>4. RemoveAt(s, i) = a \o b
  BY DEF RemoveAt
<1>. HIDE DEF n, a, b
<1>5. /\ a \o b \in Seq(S) /\ Len(a \o b) = Len(a) + Len(b)
      /\ \A j \in 1..(Len(a) + Len(b)) :
            (a \o b)[j] = IF j <= Len(a) THEN a[j] ELSE b[j - Len(a)]
  BY <1>2, <1>3, ConcatProperties
<1>6. ASSUME NEW j \in 1..(n - 1)
      PROVE  (a \o b)[j] = IF j < i THEN s[j] ELSE s[j+1]
  <2>1. (a \o b)[j] = IF j <= i - 1 THEN a[j] ELSE b[j - (i - 1)]
    BY <1>1, <1>2, <1>3, <1>5
  <2>2. CASE j < i
    BY <1>1, <1>2, <2>1, <2>2
  <2>3. CASE ~ (j < i)
    <3>1. j - (i - 1) \in 1..(n - i) /\ i + (j - (i - 1)) = j + 1
      BY <1>1, <2>3
    <3>. QED BY <1>1, <1>3, <2>1, <2>3, <3>1
  <2>. QED BY <2>2, <2>3
<1>. QED BY <1>1, <1>2, <1>3, <1>4, <1>5, <1>6 DEF n

\* A thread that starts to wait is appended.
LEMMA EnqueueChain ==
  ASSUME TypeOK, NEW c, IsChain(c), NEW t \in Threads, ~cond_waiting[t],
         NEW b \in BOOLEAN, Enqueue(t, b)
  PROVE  IsChain(Append(c, t))'
<1>. DEFINE n == Len(c)
            d == Append(c, t)
<1>1. /\ c \in Seq(Threads) /\ n \in Nat /\ DOMAIN c = 1..n
      /\ \A i \in 1..n : c[i] \in Threads /\ c[i] # NULL
      /\ c = << >> <=> n = 0
  BY ChainFacts
<1>2. /\ d \in Seq(Threads) /\ d # << >> /\ Len(d) = n + 1
      /\ \A i \in 1..n : d[i] = c[i]
      /\ d[n + 1] = t
  BY <1>1, AppendProperties
<1>3. DOMAIN d = 1..(n + 1)
  BY <1>2, LenProperties
<1>. HIDE DEF n, d
<1>4. /\ Links(c)
      /\ \A i, j \in 1..n : c[i] = c[j] => i = j
      /\ \A u \in Threads : cond_waiting[u] <=> \E i \in 1..n : c[i] = u
      /\ \A i \in 1..n : c[i] # t
  BY <1>1 DEF IsChain
<1>5. /\ waiting_head = IF n = 0 THEN NULL ELSE c[1]
      /\ waiting_tail = IF n = 0 THEN NULL ELSE c[n]
      /\ \A i \in 1..n : /\ cond_next[c[i]] = IF i = n THEN NULL ELSE c[i+1]
                         /\ cond_prev[c[i]] = IF i = 1 THEN NULL ELSE c[i-1]
  BY <1>1, <1>4 DEF Links, n
<1>6. /\ waiting_tail' = t
      /\ waiting_head' = IF n = 0 THEN t ELSE c[1]
      /\ cond_next'[t] = NULL /\ cond_prev'[t] = IF n = 0 THEN NULL ELSE c[n]
      /\ \A u \in Threads \ {t} :
            /\ cond_next'[u] = IF n # 0 /\ u = c[n] THEN t ELSE cond_next[u]
            /\ cond_prev'[u] = cond_prev[u]
      /\ \A u \in Threads : cond_waiting'[u] <=> (u = t \/ cond_waiting[u])
  BY <1>1, <1>5 DEF TypeOK, Enqueue
<1>7. \A i \in 1..(n+1) : /\ cond_next'[d[i]] = IF i = n + 1 THEN NULL ELSE d[i+1]
                          /\ cond_prev'[d[i]] = IF i = 1 THEN NULL ELSE d[i-1]
  <2>1. SUFFICES ASSUME NEW i \in 1..(n+1)
                 PROVE  /\ cond_next'[d[i]] = IF i = n + 1 THEN NULL ELSE d[i+1]
                        /\ cond_prev'[d[i]] = IF i = 1 THEN NULL ELSE d[i-1]
    OBVIOUS
  <2>2. CASE i = n + 1
    BY <1>1, <1>2, <1>6, <2>2
  <2>3. CASE i \in 1..n
    <3>1. d[i] = c[i] /\ c[i] \in Threads \ {t} /\ (i # n => c[i] # c[n])
      BY <1>1, <1>2, <1>4, <2>3
    <3>2. cond_prev'[c[i]] = IF i = 1 THEN NULL ELSE d[i-1]
      BY <1>1, <1>2, <1>5, <1>6, <2>3, <3>1
    <3>3. cond_next'[c[i]] = d[i+1]
      BY <1>1, <1>2, <1>5, <1>6, <2>3, <3>1
    <3>. QED BY <1>1, <2>3, <3>1, <3>2, <3>3
  <2>. QED BY <1>1, <2>2, <2>3
<1>8. Links(d)'
  <2>1. /\ waiting_head' = d[1] /\ waiting_tail' = d[n+1]
    BY <1>1, <1>2, <1>6
  <2>. QED BY <1>2, <1>3, <1>7, <2>1 DEF Links
<1>9. \A i, j \in 1..(n+1) : d[i] = d[j] => i = j
  BY <1>1, <1>2, <1>4
<1>10. \A u \in Threads : cond_waiting'[u] <=> \E i \in 1..(n+1) : d[i] = u
  BY <1>1, <1>2, <1>4, <1>6
<1>. QED BY <1>2, <1>3, <1>8, <1>9, <1>10 DEF IsChain, d

\* A thread anywhere on the list is taken out of it.
LEMMA UnlinkChain ==
  ASSUME TypeOK, NEW c, IsChain(c), NEW k \in DOMAIN c, Unlink(c[k])
  PROVE  IsChain(RemoveAt(c, k))'
<1>. DEFINE n == Len(c)
            d == RemoveAt(c, k)
<1>1. /\ c \in Seq(Threads) /\ n \in Nat /\ DOMAIN c = 1..n
      /\ \A i \in 1..n : c[i] \in Threads /\ c[i] # NULL
      /\ c = << >> <=> n = 0
  BY ChainFacts
<1>2. k \in 1..n /\ n # 0 /\ c # << >>
  BY <1>1
<1>3. /\ d \in Seq(Threads) /\ Len(d) = n - 1
      /\ \A i \in 1..(n-1) : d[i] = IF i < k THEN c[i] ELSE c[i+1]
  BY <1>1, <1>2, RemoveAtFacts
<1>4. DOMAIN d = 1..(n-1) /\ (d = << >> <=> n = 1)
  BY <1>1, <1>2, <1>3, LenProperties, EmptySeq
<1>. HIDE DEF n, d
<1>5. /\ Links(c)
      /\ \A i, j \in 1..n : c[i] = c[j] => i = j
      /\ \A u \in Threads : cond_waiting[u] <=> \E i \in 1..n : c[i] = u
  BY <1>1 DEF IsChain
<1>6. /\ waiting_head = c[1] /\ waiting_tail = c[n]
      /\ \A i \in 1..n :
            /\ cond_next[c[i]] = IF i = n THEN NULL ELSE c[i+1]
            /\ cond_prev[c[i]] = IF i = 1 THEN NULL ELSE c[i-1]
  BY <1>1, <1>2, <1>5 DEF Links, n
<1>7. /\ c[k] \in Threads /\ (k > 1 => c[k-1] \in Threads) /\ (k < n => c[k+1] \in Threads)
      /\ cond_next[c[k]] = IF k = n THEN NULL ELSE c[k+1]
      /\ cond_prev[c[k]] = IF k = 1 THEN NULL ELSE c[k-1]
  BY <1>1, <1>2, <1>6
<1>8. /\ waiting_head' = IF k = 1 THEN (IF k = n THEN NULL ELSE c[2]) ELSE c[1]
      /\ waiting_tail' = IF k = n THEN (IF k = 1 THEN NULL ELSE c[n-1]) ELSE c[n]
      /\ \A u \in Threads :
            /\ cond_next'[u] = IF k > 1 /\ u = c[k-1] THEN cond_next[c[k]] ELSE cond_next[u]
            /\ cond_prev'[u] = IF k < n /\ u = c[k+1] THEN cond_prev[c[k]] ELSE cond_prev[u]
            /\ cond_waiting'[u] <=> (u # c[k] /\ cond_waiting[u])
  <2>1. \A u \in Threads :
            /\ cond_next'[u] = IF u = cond_prev[c[k]] THEN cond_next[c[k]] ELSE cond_next[u]
            /\ cond_prev'[u] = IF u = cond_next[c[k]] THEN cond_prev[c[k]] ELSE cond_prev[u]
            /\ cond_waiting'[u] <=> (u # c[k] /\ cond_waiting[u])
    BY <1>7 DEF TypeOK, Unlink
  <2>2. /\ waiting_head' = IF cond_prev[c[k]] = NULL THEN cond_next[c[k]] ELSE c[1]
        /\ waiting_tail' = IF cond_next[c[k]] = NULL THEN cond_prev[c[k]] ELSE c[n]
    BY <1>6 DEF Unlink
  <2>3. /\ k > 1 => cond_prev[c[k]] # NULL
        /\ k < n => cond_next[c[k]] # NULL
    BY <1>1, <1>2, <1>7, OmniAssumption
  <2>. QED BY <1>1, <1>2, <1>7, <2>1, <2>2, <2>3, OmniAssumption
<1>9. ASSUME NEW i \in 1..(n-1)
      PROVE  /\ cond_next'[d[i]] = IF i = n - 1 THEN NULL ELSE d[i+1]
             /\ cond_prev'[d[i]] = IF i = 1 THEN NULL ELSE d[i-1]
  <2>1. CASE i < k - 1
    <3>1. /\ i \in 1..n /\ i < k /\ i # n /\ i # n - 1 /\ i + 1 \in 1..(n-1) /\ i + 1 < k
          /\ k - 1 \in 1..n /\ i # k - 1 /\ i # k + 1 /\ (k < n => k + 1 \in 1..n)
      BY <1>1, <1>2, <2>1
    <3>2. d[i] = c[i] /\ d[i+1] = c[i+1]
      BY <1>3, <3>1
    <3>3. i # 1 => d[i-1] = c[i-1]
      BY <1>1, <1>2, <1>3, <3>1, i # 1 => i - 1 \in 1..(n-1) /\ i - 1 < k
    <3>4. c[i] \in Threads /\ c[i] # c[k-1] /\ (k < n => c[i] # c[k+1])
      BY <1>1, <1>5, <3>1
    <3>5. /\ cond_next'[c[i]] = cond_next[c[i]] /\ cond_prev'[c[i]] = cond_prev[c[i]]
          /\ cond_next[c[i]] = c[i+1] /\ cond_prev[c[i]] = IF i = 1 THEN NULL ELSE c[i-1]
      BY <1>6, <1>8, <3>1, <3>4
    <3>. QED BY <3>1, <3>2, <3>3, <3>5
  <2>2. CASE i = k - 1
    <3>1. /\ i \in 1..n /\ i < k /\ k > 1 /\ (k < n => k + 1 \in 1..n /\ k \in 1..(n-1))
          /\ (i = n - 1 <=> k = n) /\ i + 1 = k /\ i # k + 1 /\ ~ (k < k)
      BY <1>1, <1>2, <2>2
    <3>2. d[i] = c[i] /\ (k < n => d[i+1] = c[k+1])
      BY <1>3, <3>1
    <3>3. i # 1 => d[i-1] = c[i-1]
      BY <1>1, <1>2, <1>3, <3>1, i # 1 => i - 1 \in 1..(n-1) /\ i - 1 < k
    <3>4. c[i] \in Threads /\ (k < n => c[i] # c[k+1])
      BY <1>1, <1>5, <3>1
    <3>5. /\ cond_next'[c[i]] = IF k = n THEN NULL ELSE c[k+1]
          /\ cond_prev'[c[i]] = IF i = 1 THEN NULL ELSE c[i-1]
      BY <1>6, <1>7, <1>8, <2>2, <3>1, <3>4
    <3>. QED BY <1>1, <1>2, <3>1, <3>2, <3>3, <3>5
  <2>3. CASE i = k
    <3>1. d[i] = c[k+1] /\ (i < n - 1 => d[i+1] = c[i+2]) /\ (i > 1 => d[i-1] = c[k-1])
      BY <1>1, <1>2, <1>3, <2>3
    <3>2. c[k+1] \in Threads /\ (k > 1 => c[k+1] # c[k-1]) /\ k < n
      BY <1>1, <1>2, <1>5, <2>3
    <3>3. cond_prev[c[k]] = IF k = 1 THEN NULL ELSE c[k-1]
      BY <1>2, <1>6
    <3>4. cond_next[c[k+1]] = IF k + 1 = n THEN NULL ELSE c[k+2]
      BY <1>1, <1>2, <1>6, <2>3
    <3>. QED BY <1>1, <1>2, <1>8, <2>3, <3>1, <3>2, <3>3, <3>4
  <2>4. CASE i > k
    <3>1. d[i] = c[i+1] /\ (i < n - 1 => d[i+1] = c[i+2]) /\ d[i-1] = c[i]
      BY <1>1, <1>2, <1>3, <2>4
    <3>2. c[i+1] \in Threads /\ (k > 1 => c[i+1] # c[k-1]) /\ c[i+1] # c[k+1]
      BY <1>1, <1>2, <1>5, <2>4
    <3>3. /\ cond_next[c[i+1]] = IF i + 1 = n THEN NULL ELSE c[i+2]
          /\ cond_prev[c[i+1]] = c[i]
      BY <1>1, <1>2, <1>6, <2>4
    <3>. QED BY <1>1, <1>2, <1>8, <2>4, <3>1, <3>2, <3>3
  <2>. QED BY <1>1, <1>2, <2>1, <2>2, <2>3, <2>4
<1>10. Links(d)'
  <2>1. /\ waiting_head' = IF n = 1 THEN NULL ELSE d[1]
        /\ waiting_tail' = IF n = 1 THEN NULL ELSE d[n-1]
    BY <1>1, <1>2, <1>3, <1>8
  <2>. QED BY <1>1, <1>2, <1>3, <1>4, <1>9, <2>1 DEF Links
<1>11. \A i, j \in 1..(n-1) : d[i] = d[j] => i = j
  <2>1. SUFFICES ASSUME NEW i \in 1..(n-1), NEW j \in 1..(n-1), d[i] = d[j] PROVE i = j
    OBVIOUS
  <2>. DEFINE at(m) == IF m < k THEN m ELSE m + 1
  <2>2. at(i) \in 1..n /\ at(j) \in 1..n /\ c[at(i)] = c[at(j)]
    BY <1>1, <1>2, <1>3, <2>1
  <2>3. at(i) = at(j)
    BY <1>5, <2>2
  <2>. QED BY <1>1, <1>2, <2>3
<1>12. \A u \in Threads : cond_waiting'[u] <=> \E i \in 1..(n-1) : d[i] = u
  <2>1. SUFFICES ASSUME NEW u \in Threads
                 PROVE  cond_waiting'[u] <=> \E i \in 1..(n-1) : d[i] = u
    OBVIOUS
  <2>2. ASSUME cond_waiting'[u] PROVE \E i \in 1..(n-1) : d[i] = u
    <3>1. PICK j \in 1..n : c[j] = u /\ j # k
      BY <1>5, <1>8, <2>2
    <3>2. CASE j < k
      BY <1>1, <1>2, <1>3, <3>1, <3>2, j \in 1..(n-1)
    <3>3. CASE j > k
      <4>1. j - 1 \in 1..(n-1) /\ d[j-1] = c[j]
        BY <1>1, <1>2, <1>3, <3>1, <3>3
      <4>. QED BY <3>1, <4>1
    <3>. QED BY <1>1, <1>2, <3>1, <3>2, <3>3
  <2>3. ASSUME NEW i \in 1..(n-1), d[i] = u PROVE cond_waiting'[u]
    <3>1. PICK j \in 1..n : c[j] = u /\ j # k
      <4>1. CASE i < k
        BY <1>1, <1>2, <1>3, <2>3, <4>1, i \in 1..n
      <4>2. CASE i >= k
        BY <1>1, <1>2, <1>3, <2>3, <4>2, i + 1 \in 1..n
      <4>. QED BY <1>1, <1>2, <4>1, <4>2
    <3>2. cond_waiting[u] /\ u # c[k]
      BY <1>2, <1>5, <3>1
    <3>. QED BY <1>8, <3>2
  <2>. QED BY <2>2, <2>3
<1>. QED BY <1>3, <1>4, <1>10, <1>11, <1>12 DEF IsChain, d

\* The thread at the head of the list is taken off it.
LEMMA PopChain ==
  ASSUME TypeOK, NEW c, IsChain(c), Pop
  PROVE  c # << >> /\ Head(c) = waiting_head /\ IsChain(Tail(c))'
<1>. DEFINE n == Len(c)
            d == Tail(c)
<1>1. /\ c \in Seq(Threads) /\ n \in Nat /\ DOMAIN c = 1..n
      /\ \A i \in 1..n : c[i] \in Threads /\ c[i] # NULL
      /\ c = << >> <=> n = 0
  BY ChainFacts
<1>2. /\ Links(c)
      /\ \A i, j \in 1..n : c[i] = c[j] => i = j
      /\ \A u \in Threads : cond_waiting[u] <=> \E i \in 1..n : c[i] = u
  BY <1>1 DEF IsChain
<1>3. n > 0 /\ c # << >> /\ 1 \in 1..n /\ n \in 1..n
  BY <1>1, <1>2 DEF Links, Pop
<1>5. /\ d \in Seq(Threads) /\ Len(d) = n - 1
      /\ \A i \in 1..(n-1) : d[i] = c[i+1]
  BY <1>1, <1>3, HeadTailProperties
<1>6. Head(c) = c[1]
  BY <1>1, <1>3
<1>. HIDE DEF n, d
<1>4. /\ waiting_head = c[1] /\ waiting_tail = c[n]
      /\ \A i \in 1..n :
            /\ cond_next[c[i]] = IF i = n THEN NULL ELSE c[i+1]
            /\ cond_prev[c[i]] = IF i = 1 THEN NULL ELSE c[i-1]
  BY <1>1, <1>2, <1>3 DEF Links, n
<1>5a. DOMAIN d = 1..(n-1) /\ (d = << >> <=> n = 1)
  BY <1>1, <1>3, <1>5, LenProperties, EmptySeq
<1>7. /\ waiting_head' = IF n = 1 THEN NULL ELSE c[2]
      /\ waiting_tail' = IF n = 1 THEN NULL ELSE c[n]
      /\ cond_next' = cond_next
      /\ \A u \in Threads :
            /\ cond_prev'[u] = IF n > 1 /\ u = c[2] THEN NULL ELSE cond_prev[u]
            /\ cond_waiting'[u] <=> (u # c[1] /\ cond_waiting[u])
  <2>1. cond_next[c[1]] = IF n = 1 THEN NULL ELSE c[2]
    BY <1>1, <1>3, <1>4
  <2>2. n # 1 => c[2] # NULL
    BY <1>1, <1>3
  <2>3. c[1] \in Threads
    BY <1>1, <1>3
  <2>. QED BY <1>1, <1>3, <1>4, <2>1, <2>2, <2>3, OmniAssumption DEF TypeOK, Pop
<1>8. ASSUME NEW i \in 1..(n-1)
      PROVE  /\ cond_next'[d[i]] = IF i = n - 1 THEN NULL ELSE d[i+1]
             /\ cond_prev'[d[i]] = IF i = 1 THEN NULL ELSE d[i-1]
  <2>1. /\ d[i] = c[i+1] /\ c[i+1] \in Threads /\ (i < n - 1 => d[i+1] = c[i+2])
        /\ i > 1 => d[i-1] = c[i] /\ c[i+1] # c[2]
    BY <1>1, <1>2, <1>3, <1>5
  <2>2. /\ cond_next[c[i+1]] = IF i + 1 = n THEN NULL ELSE c[i+2]
        /\ cond_prev[c[i+1]] = c[i]
    BY <1>1, <1>3, <1>4
  <2>. QED BY <1>1, <1>3, <1>7, <2>1, <2>2
<1>9. Links(d)'
  <2>1. /\ waiting_head' = IF n = 1 THEN NULL ELSE d[1]
        /\ waiting_tail' = IF n = 1 THEN NULL ELSE d[n-1]
    BY <1>1, <1>3, <1>5, <1>7
  <2>. QED BY <1>1, <1>5, <1>5a, <1>8, <2>1 DEF Links
<1>10. \A i, j \in 1..(n-1) : d[i] = d[j] => i = j
  <2>1. SUFFICES ASSUME NEW i \in 1..(n-1), NEW j \in 1..(n-1), d[i] = d[j] PROVE i = j
    OBVIOUS
  <2>2. i + 1 \in 1..n /\ j + 1 \in 1..n /\ c[i+1] = c[j+1]
    BY <1>1, <1>3, <1>5, <2>1
  <2>3. i + 1 = j + 1
    BY <1>2, <2>2
  <2>. QED BY <1>1, <2>3
<1>11. \A u \in Threads : cond_waiting'[u] <=> \E i \in 1..(n-1) : d[i] = u
  <2>1. SUFFICES ASSUME NEW u \in Threads
                 PROVE  cond_waiting'[u] <=> \E i \in 1..(n-1) : d[i] = u
    OBVIOUS
  <2>2. ASSUME cond_waiting'[u] PROVE \E i \in 1..(n-1) : d[i] = u
    <3>1. PICK j \in 1..n : c[j] = u /\ j # 1
      BY <1>2, <1>7, <2>2
    <3>2. j - 1 \in 1..(n-1) /\ d[j-1] = c[j]
      BY <1>1, <1>5, <3>1
    <3>. QED BY <3>1, <3>2
  <2>3. ASSUME NEW i \in 1..(n-1), d[i] = u PROVE cond_waiting'[u]
    <3>1. i + 1 \in 1..n /\ c[i+1] = u /\ i + 1 # 1 /\ 1 \in 1..n
      BY <1>1, <1>3, <1>5, <2>3
    <3>2. cond_waiting[u] /\ u # c[1]
      BY <1>2, <3>1
    <3>. QED BY <1>7, <3>2
  <2>. QED BY <2>2, <2>3
<1>12. IsChain(d)'
  BY <1>5, <1>5a, <1>9, <1>10, <1>11 DEF IsChain
<1>. QED BY <1>1, <1>3, <1>4, <1>6, <1>12 DEF d

\* What the list does not see leaves the sequence alone.
LEMMA SameChain ==
  ASSUME NEW c, IsChain(c), UNCHANGED list
  PROVE  IsChain(c)'
<1>1. Links(c)'
  BY DEF IsChain, Links, list
<1>. QED BY <1>1 DEF IsChain, list
-----------------------------------------------------------------------------
(***************************************************************************)
(* Every step preserves the invariant.                                     *)
(***************************************************************************)
\* Lock and Unlock touch the mutex only.
LEMMA LockStep ==
  ASSUME IInv, NEW t \in Threads, Lock(t) \/ Unlock(t)
  PROVE  IInv'
<1>1. TypeOK' /\ LockInv' /\ PlaceInv'
  BY OmniAssumption DEF IInv, TypeOK, LockInv, PlaceInv, Lock, Unlock,
                        Acquire, Release, list, call, Pointer
<1>2. UNCHANGED <<list, cond_semaphore, pc>>
  BY DEF Lock, Unlock, call
<1>3. ChainInv'
  BY <1>2, SameChain DEF IInv, ChainInv
<1>4. WaitInv' /\ SemaphoreInStep'
  BY <1>2 DEF IInv, WaitInv, SemaphoreInStep, list
<1>. QED BY <1>1, <1>3, <1>4 DEF IInv

\* The first half of wait: the thread joins the list.
LEMMA EnqueueStep ==
  ASSUME IInv, NEW t \in Threads, NEW b \in BOOLEAN, Enqueue(t, b)
  PROVE  IInv'
<1>1. TypeOK' /\ LockInv' /\ PlaceInv'
  BY OmniAssumption
  DEF IInv, TypeOK, LockInv, PlaceInv, Enqueue, mutex, Pointer, PC
<1>2. ChainInv'
  <2>1. ~cond_waiting[t]
    BY DEF IInv, WaitInv, OnList, Enqueue
  <2>. QED BY <2>1, EnqueueChain DEF IInv, ChainInv
<1>3. /\ pc[t] = "run" /\ cond_semaphore' = cond_semaphore
      /\ \A u \in Threads : /\ pc'[u] = IF u = t THEN "enqueued" ELSE pc[u]
                            /\ cond_waiting'[u] <=> (u = t \/ cond_waiting[u])
  BY DEF IInv, TypeOK, Enqueue
<1>4. WaitInv'
  BY <1>3 DEF IInv, WaitInv, OnList
<1>5. SemaphoreInStep'
  BY <1>3 DEF IInv, SemaphoreInStep
<1>. QED BY <1>1, <1>2, <1>4, <1>5 DEF IInv

\* The steps of a wait that leave the list alone.
LEMMA WaitStep ==
  ASSUME IInv, NEW t \in Threads,
         ReleaseMutex(t) \/ TakeSemaphore(t) \/ Expire(t) \/ NoticeSignal(t) \/ Relock(t)
  PROVE  IInv'
<1>1. TypeOK' /\ LockInv' /\ PlaceInv'
  <2>1. CASE ReleaseMutex(t)
    BY <2>1, OmniAssumption
    DEF IInv, TypeOK, LockInv, PlaceInv, ReleaseMutex, Release, list, Pointer, PC
  <2>2. CASE Relock(t)
    BY <2>2, OmniAssumption
    DEF IInv, TypeOK, LockInv, PlaceInv, Relock, Acquire, list, Pointer, PC
  <2>3. CASE TakeSemaphore(t) \/ Expire(t) \/ NoticeSignal(t)
    BY <2>3 DEF IInv, TypeOK, LockInv, PlaceInv, TakeSemaphore, Expire, NoticeSignal,
                mutex, list, PC
  <2>. QED BY <2>1, <2>2, <2>3
<1>2. UNCHANGED list
  BY DEF ReleaseMutex, TakeSemaphore, Expire, NoticeSignal, Relock
<1>3. ChainInv'
  BY <1>2, SameChain DEF IInv, ChainInv
<1>4. \A u \in Threads \ {t} : pc'[u] = pc[u] /\ cond_semaphore'[u] = cond_semaphore[u]
  BY DEF IInv, TypeOK, ReleaseMutex, TakeSemaphore, Expire, NoticeSignal, Relock
<1>5. /\ cond_waiting[t] => pc'[t] \in OnList
      /\ cond_semaphore'[t] = IF /\ pc'[t] \in {"enqueued", "blocked", "timedout", "drain"}
                                 /\ ~cond_waiting[t]
                              THEN 1 ELSE 0
  BY DEF IInv, TypeOK, WaitInv, SemaphoreInStep, OnList,
         ReleaseMutex, TakeSemaphore, Expire, NoticeSignal, Relock
<1>6. WaitInv' /\ SemaphoreInStep'
  BY <1>2, <1>4, <1>5 DEF IInv, WaitInv, SemaphoreInStep, list
<1>. QED BY <1>1, <1>3, <1>6 DEF IInv

\* A timed-out wait takes its thread off the list.
LEMMA WithdrawStep ==
  ASSUME IInv, NEW t \in Threads, Withdraw(t)
  PROVE  IInv'
<1>1. TypeOK' /\ LockInv' /\ PlaceInv'
  BY OmniAssumption
  DEF IInv, TypeOK, LockInv, PlaceInv, Withdraw, Unlink, mutex, Pointer, PC
<1>2. ChainInv'
  <2>1. PICK c : IsChain(c)
    BY DEF IInv, ChainInv
  <2>2. PICK k \in DOMAIN c : c[k] = t
    BY <2>1 DEF IsChain, Withdraw
  <2>3. IsChain(RemoveAt(c, k))'
    BY <2>1, <2>2, UnlinkChain DEF IInv, Withdraw
  <2>. QED BY <2>3 DEF ChainInv
<1>3. /\ cond_waiting[t] /\ cond_semaphore' = cond_semaphore
      /\ \A u \in Threads : /\ pc'[u] = IF u = t THEN "relock" ELSE pc[u]
                            /\ cond_waiting'[u] <=> (u # t /\ cond_waiting[u])
  BY DEF IInv, TypeOK, Withdraw, Unlink
<1>4. WaitInv'
  BY <1>3 DEF IInv, WaitInv
<1>5. SemaphoreInStep'
  BY <1>3 DEF IInv, SemaphoreInStep
<1>. QED BY <1>1, <1>2, <1>4, <1>5 DEF IInv

\* signal, and one turn of the loop of broadcast.
LEMMA PopStep ==
  ASSUME IInv, Pop, UNCHANGED <<mutex, crit, call>>
  PROVE  IInv'
<1>1. waiting_head \in Threads
  BY DEF IInv, TypeOK, Pointer, Pop
<1>2. TypeOK' /\ LockInv' /\ PlaceInv'
  BY <1>1, OmniAssumption
  DEF IInv, TypeOK, LockInv, PlaceInv, Pop, mutex, call, Pointer
<1>3. ChainInv' /\ cond_waiting[waiting_head]
  <2>1. PICK c : IsChain(c)
    BY DEF IInv, ChainInv
  <2>2. c # << >> /\ Head(c) = waiting_head /\ IsChain(Tail(c))'
    BY <2>1, PopChain DEF IInv
  <2>3. 1 \in DOMAIN c /\ c[1] = waiting_head
    BY <2>1, <2>2, ChainFacts
  <2>4. cond_waiting[waiting_head]
    BY <1>1, <2>1, <2>3 DEF IsChain
  <2>. QED BY <2>2, <2>4 DEF ChainInv
<1>4. /\ pc' = pc
      /\ \A u \in Threads :
            /\ cond_waiting'[u] <=> (u # waiting_head /\ cond_waiting[u])
            /\ cond_semaphore'[u] = IF u = waiting_head THEN cond_semaphore[u] + 1
                                                        ELSE cond_semaphore[u]
  BY <1>1, OmniAssumption DEF IInv, TypeOK, Pop, call
<1>5. WaitInv'
  BY <1>4 DEF IInv, WaitInv
<1>6. SemaphoreInStep'
  BY <1>1, <1>3, <1>4 DEF IInv, WaitInv, SemaphoreInStep, OnList
<1>. QED BY <1>2, <1>3, <1>5, <1>6 DEF IInv

\* The two ends of broadcast.
LEMMA BroadcastStep ==
  ASSUME IInv, NEW t \in Threads, BroadcastBegin(t) \/ BroadcastEnd(t)
  PROVE  IInv'
<1>1. TypeOK' /\ LockInv' /\ PlaceInv'
  BY OmniAssumption
  DEF IInv, TypeOK, LockInv, PlaceInv, BroadcastBegin, BroadcastEnd, mutex, list, Pointer, PC
<1>2. UNCHANGED <<list, cond_semaphore>>
  BY DEF BroadcastBegin, BroadcastEnd
<1>3. ChainInv'
  BY <1>2, SameChain DEF IInv, ChainInv
<1>4. /\ pc[t] \notin {"enqueued", "blocked", "timedout", "drain"}
      /\ pc'[t] \notin {"enqueued", "blocked", "timedout", "drain"}
      /\ \A u \in Threads \ {t} : pc'[u] = pc[u]
  BY DEF IInv, TypeOK, BroadcastBegin, BroadcastEnd
<1>5. WaitInv' /\ SemaphoreInStep'
  BY <1>2, <1>4 DEF IInv, WaitInv, SemaphoreInStep, OnList, list
<1>. QED BY <1>1, <1>3, <1>5 DEF IInv

\* The invariant is inductive.
LEMMA NextIInv == IInv /\ [Next]_vars => IInv'
<1>. SUFFICES ASSUME IInv, [Next]_vars PROVE IInv'
  OBVIOUS
<1>1. CASE UNCHANGED vars
  <2>1. ChainInv'
    BY <1>1, SameChain DEF IInv, ChainInv, vars
  <2>2. TypeOK' /\ LockInv' /\ WaitInv' /\ PlaceInv' /\ SemaphoreInStep'
    BY <1>1 DEF IInv, TypeOK, LockInv, WaitInv, PlaceInv, SemaphoreInStep,
                vars, mutex, list, call
  <2>. QED BY <2>1, <2>2 DEF IInv
<1>2. ASSUME NEW t \in Threads, Step(t) PROVE IInv'
  <2>1. CASE Lock(t) \/ Unlock(t)
    BY <2>1, LockStep
  <2>2. ASSUME NEW b \in BOOLEAN, Enqueue(t, b) PROVE IInv'
    BY <2>2, EnqueueStep
  <2>3. CASE ReleaseMutex(t) \/ TakeSemaphore(t) \/ Expire(t) \/ NoticeSignal(t) \/ Relock(t)
    BY <2>3, WaitStep
  <2>4. CASE Withdraw(t)
    BY <2>4, WithdrawStep
  <2>5. CASE Signal(t) \/ BroadcastOne(t)
    BY <2>5, PopStep DEF Signal, BroadcastOne
  <2>6. CASE BroadcastBegin(t) \/ BroadcastEnd(t)
    BY <2>6, BroadcastStep
  <2>. QED BY <1>2, <2>1, <2>2, <2>3, <2>4, <2>5, <2>6 DEF Step
<1>. QED BY <1>1, <1>2 DEF Next
-----------------------------------------------------------------------------
\* The invariant holds in every state of the condition variable.
THEOREM Invariance == Spec => []IInv
  BY InitIInv, NextIInv, PTL DEF Spec

\* Every variable of omni_mutex and omni_condition keeps its type; in
\* particular the mutex is never unlocked more often than it was locked.
THEOREM TypeCorrect == Spec => []TypeOK
<1>1. IInv => TypeOK
  BY DEF IInv
<1>. QED BY Invariance, <1>1, PTL

\* Whatever the order of waits, signals, broadcasts and withdrawals, the
\* pointers of the linked list spell the waiting threads, each once, forwards
\* and backwards: no thread is lost and none is left behind.
THEOREM ListStaysIntact == Spec => []ListIntact
<1>1. IInv => ListIntact
  BY ChainIsOrder DEF IInv, ChainInv, IsChain, ListIntact
<1>. QED BY Invariance, <1>1, PTL

\* The semaphore of a thread is up exactly from the signal that takes it off
\* the list to the wait that consumes it: a binary semaphore is enough, and no
\* wait starts with the signal of an earlier one.
THEOREM SemaphoresInStep == Spec => []SemaphoreInStep
<1>1. IInv => SemaphoreInStep
  BY DEF IInv
<1>. QED BY Invariance, <1>1, PTL

\* timedwait's second WaitForSingleObject, with no timeout, returns at once:
\* "it _must_ have been signalled".
THEOREM SecondWaitNeverBlocks == Spec => []DrainNeverBlocks
<1>1. IInv => DrainNeverBlocks
  BY DEF IInv, WaitInv, SemaphoreInStep, DrainNeverBlocks, OnList
<1>. QED BY Invariance, <1>1, PTL
-----------------------------------------------------------------------------
(***************************************************************************)
(* The refinement of CondVar.  wait unlocks the recursive mutex once, so a *)
(* caller that holds it twice keeps it while it waits: what CondVar says of*)
(* the mutex holds as long as nobody starts a wait with nested locks.      *)
(***************************************************************************)
WaitsUnnested == \A t \in Threads : pc[t] = "enqueued" => depth = 1

OwnerInv == \A t \in Threads : owner = t => pc[t] \in {"run", "enqueued", "broadcast"}

\* In an unnested wait, the mutex is the thread's only until ReleaseMutex.
LEMMA NextOwnerInv ==
  IInv /\ OwnerInv /\ WaitsUnnested /\ [Next]_vars => OwnerInv'
<1>. SUFFICES ASSUME IInv, OwnerInv, WaitsUnnested, [Next]_vars PROVE OwnerInv'
  OBVIOUS
<1>1. CASE UNCHANGED vars
  BY <1>1 DEF OwnerInv, vars, mutex, call
<1>2. ASSUME NEW t \in Threads, Step(t) PROVE OwnerInv'
  <2>1. CASE Lock(t) \/ Unlock(t) \/ Signal(t) \/ BroadcastOne(t)
    BY <2>1, OmniAssumption DEF IInv, TypeOK, OwnerInv, Lock, Unlock, Signal, BroadcastOne,
                                Acquire, Release, mutex, call
  <2>2. ASSUME NEW b \in BOOLEAN, Enqueue(t, b) PROVE OwnerInv'
    BY <2>2 DEF IInv, TypeOK, OwnerInv, Enqueue, mutex
  <2>3. CASE ReleaseMutex(t)
    BY <2>3, OmniAssumption DEF IInv, TypeOK, OwnerInv, WaitsUnnested, ReleaseMutex, Release
  <2>4. CASE TakeSemaphore(t) \/ Expire(t) \/ Withdraw(t) \/ NoticeSignal(t)
    BY <2>4 DEF IInv, TypeOK, OwnerInv, TakeSemaphore, Expire, Withdraw, NoticeSignal, mutex
  <2>5. CASE Relock(t)
    BY <2>5 DEF IInv, TypeOK, OwnerInv, Relock, Acquire
  <2>6. CASE BroadcastBegin(t) \/ BroadcastEnd(t)
    BY <2>6 DEF IInv, TypeOK, OwnerInv, BroadcastBegin, BroadcastEnd, mutex
  <2>. QED BY <1>2, <2>1, <2>2, <2>3, <2>4, <2>5, <2>6 DEF Step
<1>. QED BY <1>1, <1>2 DEF Next

\* The queue of CondVar is the list, except while a broadcast empties it.
LEMMA QueueIs ==
  ASSUME TypeOK, NEW c, IsChain(c)
  PROVE  AbsQueue = IF crit = NULL THEN c ELSE << >>
  BY ChainIs DEF AbsQueue

\* ... and after a step it is still the sequence the pointers spell.
LEMMA ChainIsNext ==
  (\A c : TypeOK /\ IsChain(c) => Chain = c)'
  BY ChainIs, PTL

LEMMA QueueIsNext ==
  ASSUME TypeOK', NEW c, IsChain(c)'
  PROVE  AbsQueue' = IF crit' = NULL THEN c ELSE << >>
<1>1. Chain' = c
  BY ChainIsNext
<1>. QED BY <1>1 DEF AbsQueue

\* What leaves the list and its lock alone leaves the queue alone.
LEMMA SameQueue ==
  ASSUME IInv, IInv', UNCHANGED <<list, crit>>
  PROVE  AbsQueue' = AbsQueue
<1>1. PICK c : IsChain(c)
  BY DEF IInv, ChainInv
<1>2. IsChain(c)'
  BY <1>1, SameChain
<1>. QED BY <1>1, <1>2, QueueIs, QueueIsNext DEF IInv

\* Who waits, to CondVar: exactly the threads that are in wait or timedwait.
LEMMA InsideIs ==
  ASSUME IInv, NEW t \in Threads
  PROVE  t \in CV!Inside <=> InWait(t)
<1>1. PICK c : IsChain(c)
  BY DEF IInv, ChainInv
<1>2. AbsQueue = IF crit = NULL THEN c ELSE << >>
  BY <1>1, QueueIs DEF IInv
<1>3. t \in CV!Waiting <=> crit = NULL /\ cond_waiting[t]
  <2>1. CV!Waiting = {AbsQueue[i] : i \in DOMAIN AbsQueue}
    BY DEF CV!Waiting
  <2>2. CASE crit = NULL
    BY <1>1, <1>2, <2>1, <2>2 DEF IsChain
  <2>3. CASE crit # NULL
    <3>1. DOMAIN AbsQueue = {}
      BY <1>2, <2>3, EmptySeq
    <3>. QED BY <2>1, <2>3, <3>1
  <2>. QED BY <2>2, <2>3
<1>4. cond_waiting[t] => InWait(t)
  BY DEF IInv, WaitInv, OnList, InWait
<1>. QED BY <1>3, <1>4 DEF CV!Inside, AbsWoken, AbsExpired, InWait

\* The constructor's state is an initial state of CondVar.
LEMMA InitRefines == Init => CV!Init
<1>. SUFFICES ASSUME Init PROVE CV!Init
  OBVIOUS
<1>1. IInv
  BY InitIInv
<1>2. PICK c : IsChain(c)
  BY <1>1 DEF IInv, ChainInv
<1>3. c = << >>
  BY <1>2, ChainFacts, OmniAssumption DEF IsChain, Links, Init
<1>4. AbsQueue = << >>
  BY <1>1, <1>2, <1>3, QueueIs DEF IInv
<1>5. AbsOwner = NULL
  BY DEF Init, AbsOwner
<1>6. AbsWoken = {} /\ AbsExpired = {} /\ AbsTimed = {}
  BY DEF Init, AbsWoken, AbsExpired, AbsTimed, InWait
<1>. QED BY <1>4, <1>5, <1>6 DEF CV!Init

\* Lock and Unlock, when they are not nested, are those of CondVar.
LEMMA LockRefines ==
  ASSUME IInv, IInv', NEW t \in Threads, Lock(t) \/ Unlock(t)
  PROVE  [CV!Next]_(CV!cvars)
<1>1. /\ pc[t] = "run" /\ pc' = pc /\ UNCHANGED <<list, crit, ret, timed>>
  BY DEF Lock, Unlock, call
<1>2. UNCHANGED <<AbsQueue, AbsWoken, AbsExpired, AbsTimed>>
  <2>1. AbsQueue' = AbsQueue
    BY <1>1, SameQueue
  <2>2. UNCHANGED <<AbsWoken, AbsExpired, AbsTimed>>
    BY <1>1 DEF AbsWoken, AbsExpired, AbsTimed, InWait, list
  <2>. QED BY <2>1, <2>2
<1>3. t \notin CV!Inside
  BY <1>1, InsideIs DEF InWait
<1>4. CASE Lock(t)
  <2>1. AbsOwner' = t /\ AbsOwner \in {NULL, t}
    BY <1>1, <1>4, OmniAssumption DEF AbsOwner, Lock, Acquire
  <2>2. CASE AbsOwner = NULL
    BY <1>2, <1>3, <2>1, <2>2 DEF CV!Next, CV!Lock
  <2>3. CASE AbsOwner = t
    BY <1>2, <2>1, <2>3 DEF CV!cvars
  <2>. QED BY <2>1, <2>2, <2>3
<1>5. CASE Unlock(t)
  <2>1. AbsOwner = t /\ AbsOwner' \in {NULL, t}
    BY <1>1, <1>5, OmniAssumption DEF AbsOwner, Unlock, Release
  <2>2. CASE AbsOwner' = NULL
    BY <1>2, <1>3, <2>1, <2>2 DEF CV!Next, CV!Unlock
  <2>3. CASE AbsOwner' = t
    BY <1>2, <2>1, <2>3 DEF CV!cvars
  <2>. QED BY <2>1, <2>2, <2>3
<1>. QED BY <1>4, <1>5

\* Enqueue is the atomic "release the mutex and wait".
LEMMA EnqueueRefines ==
  ASSUME IInv, IInv', NEW t \in Threads, NEW b \in BOOLEAN, Enqueue(t, b)
  PROVE  CV!Wait(t, b)
<1>1. /\ pc[t] = "run" /\ owner = t /\ owner' = t /\ crit = NULL /\ crit' = NULL
      /\ ~cond_waiting[t]
  BY DEF IInv, WaitInv, OnList, Enqueue, mutex
<1>2. \A u \in Threads :
         /\ pc'[u] = IF u = t THEN "enqueued" ELSE pc[u]
         /\ timed'[u] = IF u = t THEN b ELSE timed[u]
         /\ u # t => ret'[u] = ret[u]
         /\ cond_waiting'[u] <=> (u = t \/ cond_waiting[u])
  BY DEF IInv, TypeOK, Enqueue
<1>3. t \notin CV!Inside
  BY <1>1, InsideIs DEF InWait
<1>4. AbsOwner = t /\ AbsOwner' = NULL
  BY <1>1, <1>2 DEF AbsOwner
<1>5. AbsQueue' = Append(AbsQueue, t)
  <2>1. PICK c : IsChain(c)
    BY DEF IInv, ChainInv
  <2>2. IsChain(Append(c, t))'
    BY <1>1, <2>1, EnqueueChain DEF IInv
  <2>. QED BY <1>1, <2>1, <2>2, QueueIs, QueueIsNext DEF IInv
<1>6. AbsExpired' = AbsExpired
  BY <1>1, <1>2 DEF AbsExpired
<1>7. AbsWoken' = AbsWoken
  BY <1>1, <1>2, <1>6 DEF AbsWoken, InWait
<1>8. AbsTimed' = IF b THEN AbsTimed \union {t} ELSE AbsTimed \ {t}
  BY <1>2 DEF AbsTimed
<1>. QED BY <1>3, <1>4, <1>5, <1>6, <1>7, <1>8 DEF CV!Wait

\* The steps inside a wait that CondVar does not see.
LEMMA WaitStutters ==
  ASSUME IInv, IInv', WaitsUnnested, NEW t \in Threads,
         ReleaseMutex(t) \/ TakeSemaphore(t) \/ Expire(t) \/ NoticeSignal(t)
  PROVE  UNCHANGED CV!cvars
<1>1. /\ UNCHANGED <<list, crit, timed>>
      /\ InWait(t) /\ InWait(t)'
      /\ pc[t] # "relock"
      /\ pc'[t] = "relock" => ret'[t] = "signalled" /\ ~cond_waiting[t]
      /\ \A u \in Threads \ {t} : pc'[u] = pc[u] /\ ret'[u] = ret[u]
  BY DEF IInv, TypeOK, SemaphoreInStep, InWait,
         ReleaseMutex, TakeSemaphore, Expire, NoticeSignal
<1>2. AbsQueue' = AbsQueue
  BY <1>1, SameQueue
<1>3. AbsExpired' = AbsExpired
  BY <1>1 DEF AbsExpired
<1>4. AbsWoken' = AbsWoken
  BY <1>1, <1>3 DEF AbsWoken, InWait, list
<1>5. AbsTimed' = AbsTimed
  BY <1>1 DEF AbsTimed
<1>6. AbsOwner' = AbsOwner
  <2>1. CASE ReleaseMutex(t)
    BY <2>1, OmniAssumption DEF AbsOwner, WaitsUnnested, ReleaseMutex, Release
  <2>2. CASE TakeSemaphore(t) \/ Expire(t) \/ NoticeSignal(t)
    BY <2>2 DEF IInv, TypeOK, Pointer, AbsOwner, TakeSemaphore, Expire, NoticeSignal, mutex
  <2>. QED BY <2>1, <2>2
<1>. QED BY <1>2, <1>3, <1>4, <1>5, <1>6 DEF CV!cvars

\* Taking a timed-out thread off the list is the timeout of CondVar.
LEMMA WithdrawRefines ==
  ASSUME IInv, IInv', NEW t \in Threads, Withdraw(t)
  PROVE  CV!Timeout(t)
<1>1. /\ crit = NULL /\ crit' = NULL /\ cond_waiting[t] /\ pc[t] = "timedout" /\ timed[t]
      /\ UNCHANGED <<owner, timed>>
      /\ \A u \in Threads :
            /\ pc'[u] = IF u = t THEN "relock" ELSE pc[u]
            /\ ret'[u] = IF u = t THEN "expired" ELSE ret[u]
            /\ cond_waiting'[u] <=> (u # t /\ cond_waiting[u])
  BY DEF IInv, TypeOK, PlaceInv, Withdraw, Unlink, mutex
<1>2. PICK c : IsChain(c)
  BY DEF IInv, ChainInv
<1>3. PICK k \in DOMAIN c : c[k] = t
  BY <1>1, <1>2 DEF IsChain
<1>4. IsChain(RemoveAt(c, k))'
  BY <1>2, <1>3, UnlinkChain DEF IInv, Withdraw
<1>5. AbsQueue = c /\ AbsQueue' = RemoveAt(c, k)
  BY <1>1, <1>2, <1>4, QueueIs, QueueIsNext DEF IInv
<1>6. t \in AbsTimed
  BY <1>1 DEF AbsTimed
<1>7. AbsExpired' = AbsExpired \union {t}
  BY <1>1 DEF AbsExpired
<1>8. AbsWoken' = AbsWoken
  BY <1>1 DEF AbsWoken, AbsExpired, InWait
<1>9. AbsTimed' = AbsTimed /\ AbsOwner' = AbsOwner
  BY <1>1 DEF IInv, TypeOK, Pointer, AbsTimed, AbsOwner
<1>. QED
  BY <1>3, <1>5, <1>6, <1>7, <1>8, <1>9 DEF CV!Timeout, CV!RemoveAt, RemoveAt

\* A wait that has the mutex again returns.
LEMMA RelockRefines ==
  ASSUME IInv, IInv', OwnerInv, NEW t \in Threads, Relock(t)
  PROVE  CV!Return(t)
<1>1. /\ owner = NULL /\ owner' = t /\ pc[t] = "relock" /\ ~cond_waiting[t]
      /\ UNCHANGED <<crit, list, ret, timed>>
      /\ \A u \in Threads : pc'[u] = IF u = t THEN "run" ELSE pc[u]
  BY DEF IInv, TypeOK, WaitInv, OnList, OwnerInv, Relock, Acquire
<1>2. t \in AbsWoken \union AbsExpired
  BY <1>1 DEF AbsWoken, AbsExpired, InWait
<1>3. AbsOwner = NULL /\ AbsOwner' = t
  BY <1>1, OmniAssumption DEF AbsOwner
<1>4. AbsExpired' = AbsExpired \ {t}
  BY <1>1 DEF AbsExpired
<1>5. AbsWoken' = AbsWoken \ {t}
  BY <1>1 DEF AbsWoken, AbsExpired, InWait, list
<1>6. AbsQueue' = AbsQueue /\ AbsTimed' = AbsTimed
  BY <1>1, SameQueue DEF AbsTimed
<1>. QED BY <1>2, <1>3, <1>4, <1>5, <1>6 DEF CV!Return

\* signal wakes the thread that has waited longest.
LEMMA SignalRefines ==
  ASSUME IInv, IInv', NEW t \in Threads, Signal(t)
  PROVE  CV!Signal
<1>1. crit = NULL /\ crit' = NULL /\ Pop /\ UNCHANGED <<owner, pc, ret, timed>>
  BY DEF Signal, mutex, call
<1>2. PICK c : IsChain(c)
  BY DEF IInv, ChainInv
<1>3. c # << >> /\ Head(c) = waiting_head /\ IsChain(Tail(c))'
  BY <1>1, <1>2, PopChain DEF IInv
<1>4. AbsQueue = c /\ AbsQueue' = Tail(c)
  BY <1>1, <1>2, <1>3, QueueIs, QueueIsNext DEF IInv
<1>5. waiting_head \in Threads /\ cond_waiting[waiting_head]
  <2>1. 1 \in DOMAIN c /\ c[1] = waiting_head /\ c[1] \in Threads
    BY <1>2, <1>3, ChainFacts
  <2>. QED BY <1>2, <2>1 DEF IsChain
<1>6. \A u \in Threads : cond_waiting'[u] <=> (u # waiting_head /\ cond_waiting[u])
  BY <1>1, <1>5 DEF IInv, TypeOK, Pop
<1>7. AbsExpired' = AbsExpired /\ AbsTimed' = AbsTimed /\ AbsOwner' = AbsOwner
  BY <1>1 DEF AbsExpired, AbsTimed, AbsOwner
<1>8. AbsWoken' = AbsWoken \union {waiting_head}
  <2>1. pc[waiting_head] \in OnList
    BY <1>5 DEF IInv, WaitInv
  <2>. QED BY <1>1, <1>5, <1>6, <2>1 DEF AbsWoken, AbsExpired, InWait, OnList
<1>. QED BY <1>3, <1>4, <1>7, <1>8 DEF CV!Signal

\* broadcast wakes all of them at its beginning, or finds nobody.
LEMMA BroadcastRefines ==
  ASSUME IInv, IInv', NEW t \in Threads, BroadcastBegin(t)
  PROVE  [CV!Next]_(CV!cvars)
<1>1. /\ crit = NULL /\ crit' = t /\ crit' # NULL
      /\ UNCHANGED <<owner, list, ret, timed>>
      /\ pc[t] = "run"
      /\ \A u \in Threads : pc'[u] = IF u = t THEN "broadcast" ELSE pc[u]
  BY OmniAssumption DEF IInv, TypeOK, BroadcastBegin, mutex
<1>2. PICK c : IsChain(c)
  BY DEF IInv, ChainInv
<1>3. AbsQueue = c /\ AbsQueue' = << >>
  <2>1. IsChain(c)'
    BY <1>1, <1>2, SameChain
  <2>. QED BY <1>1, <1>2, <2>1, QueueIs, QueueIsNext DEF IInv
<1>4. AbsExpired' = AbsExpired /\ AbsTimed' = AbsTimed /\ AbsOwner' = AbsOwner
  BY <1>1 DEF IInv, TypeOK, Pointer, AbsExpired, AbsTimed, AbsOwner
<1>5. CV!Waiting = {u \in Threads : cond_waiting[u]}
  <2>1. \A i \in DOMAIN c : c[i] \in Threads
    BY <1>2, ChainFacts
  <2>. QED BY <1>2, <1>3, <2>1 DEF CV!Waiting, IsChain
<1>6. AbsWoken' = AbsWoken \union {u \in Threads : cond_waiting[u]}
  <2>1. \A u \in Threads : cond_waiting[u] => pc[u] \in OnList
    BY DEF IInv, WaitInv
  <2>. QED BY <1>1, <2>1 DEF AbsWoken, AbsExpired, InWait, OnList, list
<1>7. CASE c = << >>
  <2>1. \A u \in Threads : ~cond_waiting[u]
    BY <1>2, <1>7, EmptySeq DEF IsChain
  <2>2. AbsWoken' = AbsWoken
    BY <1>6, <2>1
  <2>. QED BY <1>3, <1>4, <1>7, <2>2 DEF CV!cvars
<1>8. CASE c # << >>
  BY <1>3, <1>4, <1>5, <1>6, <1>8 DEF CV!Next, CV!Broadcast
<1>. QED BY <1>7, <1>8

\* The rest of broadcast kicks threads that CondVar has woken already.
LEMMA BroadcastStutters ==
  ASSUME IInv, IInv', NEW t \in Threads, BroadcastOne(t) \/ BroadcastEnd(t)
  PROVE  UNCHANGED CV!cvars
<1>1. crit # NULL
  BY OmniAssumption DEF IInv, PlaceInv, BroadcastOne, BroadcastEnd
<1>2. PICK c : IsChain(c)
  BY DEF IInv, ChainInv
<1>3. AbsQueue = << >>
  BY <1>1, <1>2, QueueIs DEF IInv
<1>4. CASE BroadcastOne(t)
  <2>1. UNCHANGED <<owner, crit, pc, ret, timed>>
    BY <1>4 DEF BroadcastOne, mutex, call
  <2>2. PICK d : IsChain(d)'
    BY DEF IInv, ChainInv
  <2>3. AbsQueue' = << >>
    BY <1>1, <2>1, <2>2, QueueIsNext DEF IInv
  <2>4. UNCHANGED <<AbsOwner, AbsWoken, AbsExpired, AbsTimed>>
    BY <1>1, <2>1 DEF AbsOwner, AbsWoken, AbsExpired, AbsTimed, InWait
  <2>. QED BY <1>3, <2>3, <2>4 DEF CV!cvars
<1>5. CASE BroadcastEnd(t)
  <2>1. /\ crit' = NULL /\ waiting_head = NULL /\ UNCHANGED <<owner, list, ret, timed>>
        /\ pc[t] = "broadcast"
        /\ \A u \in Threads : pc'[u] = IF u = t THEN "run" ELSE pc[u]
    BY <1>5 DEF IInv, TypeOK, BroadcastEnd, mutex
  <2>2. c = << >>
    <3>1. Links(c) /\ (c # << >> => 1 \in 1..Len(c))
      BY <1>2, ChainFacts DEF IsChain
    <3>2. c # << >> => c[1] # NULL
      BY <1>2, <3>1, ChainFacts
    <3>. QED BY <2>1, <3>1, <3>2 DEF Links
  <2>3. AbsQueue' = << >>
    <3>1. IsChain(c)'
      BY <1>2, <2>1, SameChain
    <3>. QED BY <2>1, <2>2, <3>1, QueueIsNext DEF IInv
  <2>4. \A u \in Threads : ~cond_waiting[u] /\ ~cond_waiting'[u]
    BY <1>2, <2>1, <2>2, EmptySeq DEF IsChain, list
  <2>5. AbsExpired' = AbsExpired /\ AbsTimed' = AbsTimed /\ AbsOwner' = AbsOwner
    BY <2>1 DEF IInv, TypeOK, Pointer, AbsExpired, AbsTimed, AbsOwner
  <2>6. AbsWoken' = AbsWoken
    BY <2>1, <2>4, <2>5 DEF AbsWoken, InWait
  <2>. QED BY <1>3, <2>3, <2>5, <2>6 DEF CV!cvars
<1>. QED BY <1>4, <1>5

\* Every step is a step of CondVar or one it does not see.
LEMMA StepRefines ==
  IInv /\ IInv' /\ OwnerInv /\ WaitsUnnested /\ [Next]_vars => [CV!Next]_(CV!cvars)
<1>. SUFFICES ASSUME IInv, IInv', OwnerInv, WaitsUnnested, [Next]_vars
              PROVE  [CV!Next]_(CV!cvars)
  OBVIOUS
<1>1. CASE UNCHANGED vars
  <2>1. UNCHANGED <<owner, crit, list, pc, ret, timed>>
    BY <1>1 DEF vars, mutex, call
  <2>2. AbsQueue' = AbsQueue
    BY <2>1, SameQueue
  <2>3. UNCHANGED <<AbsOwner, AbsWoken, AbsExpired, AbsTimed>>
    BY <2>1 DEF AbsOwner, AbsWoken, AbsExpired, AbsTimed, InWait, list
  <2>. QED BY <2>2, <2>3 DEF CV!cvars
<1>2. ASSUME NEW t \in Threads, Step(t) PROVE [CV!Next]_(CV!cvars)
  <2>1. CASE Lock(t) \/ Unlock(t)
    BY <2>1, LockRefines
  <2>2. ASSUME NEW b \in BOOLEAN, Enqueue(t, b) PROVE CV!Next
    BY <2>2, EnqueueRefines DEF CV!Next
  <2>3. CASE ReleaseMutex(t) \/ TakeSemaphore(t) \/ Expire(t) \/ NoticeSignal(t)
    BY <2>3, WaitStutters
  <2>4. CASE Withdraw(t)
    BY <2>4, WithdrawRefines DEF CV!Next
  <2>5. CASE Relock(t)
    BY <2>5, RelockRefines DEF CV!Next
  <2>6. CASE Signal(t)
    BY <2>6, SignalRefines DEF CV!Next
  <2>7. CASE BroadcastBegin(t)
    BY <2>7, BroadcastRefines
  <2>8. CASE BroadcastOne(t) \/ BroadcastEnd(t)
    BY <2>8, BroadcastStutters
  <2>. QED BY <1>2, <2>1, <2>2, <2>3, <2>4, <2>5, <2>6, <2>7, <2>8 DEF Step
<1>. QED BY <1>1, <1>2 DEF Next

\* As long as no wait is started under nested locks, the linked list and the
\* semaphores of omnithread behave as the condition variable its header
\* describes: wait lets go of the mutex and joins the waiters in one step,
\* signal wakes one of them and broadcast all, a timed wait withdraws, and
\* nobody comes back from a wait but with the mutex, woken or expired.
THEOREM Refinement == Spec /\ []WaitsUnnested => ImplementsCondVar
<1>1. Init => OwnerInv
  BY OmniAssumption DEF Init, OwnerInv
<1>. QED
  BY Invariance, InitRefines, <1>1, NextOwnerInv, StepRefines, PTL
  DEF Spec, ImplementsCondVar, CV!Spec

\* With a mutex that is never locked twice no wait is nested, and omnithread
\* is that condition variable outright.
THEOREM RefinementUnnested == ASSUME MaxDepth = 1 PROVE Spec => ImplementsCondVar
<1>1. IInv => WaitsUnnested
  BY OmniAssumption DEF IInv, TypeOK, LockInv, PlaceInv, WaitsUnnested
<1>. QED BY Invariance, Refinement, <1>1, PTL
=============================================================================
