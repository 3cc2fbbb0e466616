---------------------------- MODULE OmniCondition ----------------------------
(***************************************************************************)
(* The condition variable of omnithread on Windows NT (omnithread/nt.cpp): *)
(* a doubly linked list of waiting threads under a critical section of its *)
(* own (crit), one semaphore per thread, and the mutex of the caller, a    *)
(* recursive CRITICAL_SECTION.                                             *)
(*                                                                         *)
(* A block of code between EnterCriticalSection(&crit) and the matching    *)
(* LeaveCriticalSection is one action, for everything it touches is only   *)
(* touched under crit or by the thread itself; the loop of broadcast, which*)
(* wakes threads that can run before the loop ends, keeps crit over        *)
(* several actions.                                                        *)
(***************************************************************************)
EXTENDS Integers, SequencesExt

CONSTANTS Threads,   \* the threads that share the mutex and the condition
          NULL,      \* the null pointer, and "nobody" for locks
          MaxDepth   \* how often a thread may lock the recursive mutex

ASSUME OmniAssumption == /\ NULL \notin Threads
                         /\ MaxDepth \in Nat \ {0}

VARIABLES
    owner, depth,            \* the mutex: its holder and the recursion count
    crit,                    \* the thread that is inside the broadcast loop
    waiting_head, waiting_tail,
    cond_next, cond_prev,    \* the links of each thread
    cond_waiting,            \* each thread: TRUE while it is on the list
    cond_semaphore,          \* each thread: the count of its semaphore
    pc,                      \* where each thread is
    timed,                   \* each thread: is the wait a timedwait
    ret                      \* each thread: what the last (timed)wait returned

mutex == <<owner, depth>>
list  == <<waiting_head, waiting_tail, cond_next, cond_prev, cond_waiting>>
call  == <<pc, timed, ret>>
vars  == <<mutex, crit, list, cond_semaphore, call>>

Pointer == Threads \union {NULL}
PC == {"run", "enqueued", "blocked", "timedout", "drain", "relock", "broadcast"}

TypeOK ==
    /\ owner \in Pointer
    /\ depth \in 0..MaxDepth
    /\ crit \in Pointer
    /\ waiting_head \in Pointer /\ waiting_tail \in Pointer
    /\ cond_next \in [Threads -> Pointer]
    /\ cond_prev \in [Threads -> Pointer]
    /\ cond_waiting \in [Threads -> BOOLEAN]
    /\ cond_semaphore \in [Threads -> Nat]
    /\ pc \in [Threads -> PC]
    /\ timed \in [Threads -> BOOLEAN]
    /\ ret \in [Threads -> {"none", "signalled", "expired"}]

Init ==
    /\ owner = NULL /\ depth = 0
    /\ crit = NULL
    /\ waiting_head = NULL /\ waiting_tail = NULL
    /\ cond_next = [t \in Threads |-> NULL]
    /\ cond_prev = [t \in Threads |-> NULL]
    /\ cond_waiting = [t \in Threads |-> FALSE]
    /\ cond_semaphore = [t \in Threads |-> 0]
    /\ pc = [t \in Threads |-> "run"]
    /\ timed = [t \in Threads |-> FALSE]
    /\ ret = [t \in Threads |-> "none"]

(***************************************************************************)
(* The mutex.                                                              *)
(***************************************************************************)
Acquire(t) == /\ \/ owner = NULL
                 \/ owner = t /\ depth < MaxDepth
              /\ owner' = t
              /\ depth' = depth + 1

\* Slip: a thread may unlock what it has not locked.
Release_ByAnyone(t) == /\ depth' = depth - 1
                       /\ owner' = IF depth = 1 THEN NULL ELSE owner

Release(t) == /\ owner = t
              /\ depth' = depth - 1
              /\ owner' = IF depth = 1 THEN NULL ELSE t

Lock(t) == /\ pc[t] = "run"
           /\ Acquire(t)
           /\ UNCHANGED <<crit, list, cond_semaphore, call>>

Unlock(t) == /\ pc[t] = "run"
             /\ Release(t)
             /\ UNCHANGED <<crit, list, cond_semaphore, call>>

(***************************************************************************)
(* wait and timedwait.  The caller holds the mutex.                        *)
(***************************************************************************)
Enqueue(t, withTimeout) ==
    /\ pc[t] = "run" /\ owner = t
    /\ crit = NULL
    /\ waiting_tail' = t
    /\ waiting_head' = IF waiting_head = NULL THEN t ELSE waiting_head
    /\ cond_next' = [u \in Threads |->
                        CASE u = t -> NULL
                          [] u = waiting_tail /\ u # t /\ waiting_head # NULL -> t
                          [] OTHER -> cond_next[u]]
    /\ cond_prev' = [cond_prev EXCEPT ![t] = waiting_tail]
    /\ cond_waiting' = [cond_waiting EXCEPT ![t] = TRUE]
    /\ pc' = [pc EXCEPT ![t] = "enqueued"]
    /\ timed' = [timed EXCEPT ![t] = withTimeout]
    /\ ret' = [ret EXCEPT ![t] = "none"]
    /\ UNCHANGED <<mutex, crit, cond_semaphore>>

\* mutex->unlock(): one level of the recursive mutex.
ReleaseMutex(t) ==
    /\ pc[t] = "enqueued"
    /\ Release(t)
    /\ pc' = [pc EXCEPT ![t] = "blocked"]
    /\ UNCHANGED <<crit, list, cond_semaphore, timed, ret>>

\* WaitForSingleObject(me->cond_semaphore, ...) returns WAIT_OBJECT_0.
TakeSemaphore(t) ==
    /\ pc[t] \in {"blocked", "drain"}
    /\ cond_semaphore[t] > 0
    /\ cond_semaphore' = [cond_semaphore EXCEPT ![t] = @ - 1]
    /\ pc' = [pc EXCEPT ![t] = "relock"]
    /\ ret' = [ret EXCEPT ![t] = "signalled"]
    /\ UNCHANGED <<mutex, crit, list, timed>>

\* ... or, in timedwait, WAIT_TIMEOUT.
Expire(t) ==
    /\ pc[t] = "blocked" /\ timed[t]
    /\ cond_semaphore[t] = 0
    /\ pc' = [pc EXCEPT ![t] = "timedout"]
    /\ UNCHANGED <<mutex, crit, list, cond_semaphore, timed, ret>>

\* Take thread t, which may be anywhere on the list, off it.
Unlink(t) ==
    /\ cond_next' = [u \in Threads |->
                        IF u = cond_prev[t] THEN cond_next[t] ELSE cond_next[u]]
    /\ cond_prev' = [u \in Threads |->
                        IF u = cond_next[t] THEN cond_prev[t] ELSE cond_prev[u]]
    /\ waiting_head' = IF cond_prev[t] = NULL THEN cond_next[t] ELSE waiting_head
    /\ waiting_tail' = IF cond_next[t] = NULL THEN cond_prev[t] ELSE waiting_tail
    /\ cond_waiting' = [cond_waiting EXCEPT ![t] = FALSE]

Withdraw(t) ==
    /\ pc[t] = "timedout" /\ crit = NULL
    /\ cond_waiting[t]
    /\ Unlink(t)
    /\ pc' = [pc EXCEPT ![t] = "relock"]
    /\ ret' = [ret EXCEPT ![t] = "expired"]
    /\ UNCHANGED <<mutex, crit, cond_semaphore, timed>>

\* Slip: cond_waiting is not looked at before the second wait.
NoticeSignal_Unconditional(t) ==
    /\ pc[t] = "timedout" /\ crit = NULL
    /\ pc' = [pc EXCEPT ![t] = "drain"]
    /\ UNCHANGED <<mutex, crit, list, cond_semaphore, timed, ret>>

\* Slip: a timeout is a timeout, even when a signal came in between.
NoticeSignal_ReportsTimeout(t) ==
    /\ pc[t] = "timedout" /\ crit = NULL
    /\ ~cond_waiting[t]
    /\ pc' = [pc EXCEPT ![t] = "relock"]
    /\ ret' = [ret EXCEPT ![t] = "expired"]
    /\ UNCHANGED <<mutex, crit, list, cond_semaphore, timed>>

\* Timed out, but another thread got in first and signalled this one.
NoticeSignal(t) ==
    /\ pc[t] = "timedout" /\ crit = NULL
    /\ ~cond_waiting[t]
    /\ pc' = [pc EXCEPT ![t] = "drain"]
    /\ UNCHANGED <<mutex, crit, list, cond_semaphore, timed, ret>>

Relock(t) ==
    /\ pc[t] = "relock"
    /\ Acquire(t)
    /\ pc' = [pc EXCEPT ![t] = "run"]
    /\ UNCHANGED <<crit, list, cond_semaphore, timed, ret>>

(***************************************************************************)
(* signal and broadcast.  The caller need not hold the mutex.              *)
(***************************************************************************)
\* Slip: the tail still points to the last thread when the list is empty.
Pop_KeepsTail ==
    LET t == waiting_head IN
    /\ t # NULL
    /\ waiting_head' = cond_next[t]
    /\ cond_prev' = [u \in Threads |->
                        IF u = cond_next[t] THEN NULL ELSE cond_prev[u]]
    /\ cond_waiting' = [cond_waiting EXCEPT ![t] = FALSE]
    /\ cond_semaphore' = [cond_semaphore EXCEPT ![t] = @ + 1]
    /\ UNCHANGED <<waiting_tail, cond_next>>

\* Slip: ReleaseSemaphore is forgotten.
Pop_NoKick ==
    LET t == waiting_head IN
    /\ t # NULL
    /\ waiting_head' = cond_next[t]
    /\ waiting_tail' = IF cond_next[t] = NULL THEN NULL ELSE waiting_tail
    /\ cond_prev' = [u \in Threads |->
                        IF u = cond_next[t] THEN NULL ELSE cond_prev[u]]
    /\ cond_waiting' = [cond_waiting EXCEPT ![t] = FALSE]
    /\ UNCHANGED <<cond_next, cond_semaphore>>

\* Take the head off the list and kick its semaphore.
Pop ==
    LET t == waiting_head IN
    /\ t # NULL
    /\ waiting_head' = cond_next[t]
    /\ waiting_tail' = IF cond_next[t] = NULL THEN NULL ELSE waiting_tail
    /\ cond_prev' = [u \in Threads |->
                        IF u = cond_next[t] THEN NULL ELSE cond_prev[u]]
    /\ cond_waiting' = [cond_waiting EXCEPT ![t] = FALSE]
    /\ cond_semaphore' = [cond_semaphore EXCEPT ![t] = @ + 1]
    /\ UNCHANGED cond_next

Signal(t) ==
    /\ pc[t] = "run" /\ crit = NULL
    /\ Pop
    /\ UNCHANGED <<mutex, crit, call>>

BroadcastBegin(t) ==
    /\ pc[t] = "run" /\ crit = NULL
    /\ crit' = t
    /\ pc' = [pc EXCEPT ![t] = "broadcast"]
    /\ UNCHANGED <<mutex, list, cond_semaphore, timed, ret>>

BroadcastOne(t) ==
    /\ pc[t] = "broadcast"
    /\ Pop
    /\ UNCHANGED <<mutex, crit, call>>

BroadcastEnd(t) ==
    /\ pc[t] = "broadcast"
    /\ waiting_head = NULL
    /\ crit' = NULL
    /\ pc' = [pc EXCEPT ![t] = "run"]
    /\ UNCHANGED <<mutex, list, cond_semaphore, timed, ret>>

Step(t) == \/ Lock(t) \/ Unlock(t)
           \/ \E b \in BOOLEAN : Enqueue(t, b)
           \/ ReleaseMutex(t) \/ TakeSemaphore(t) \/ Expire(t)
           \/ Withdraw(t) \/ NoticeSignal(t) \/ Relock(t)
           \/ Signal(t)
           \/ BroadcastBegin(t) \/ BroadcastOne(t) \/ BroadcastEnd(t)

Next == \E t \in Threads : Step(t)

Spec == Init /\ [][Next]_vars

(***************************************************************************)
(* Fairness: a thread inside the library goes on, a thread that holds the  *)
(* mutex releases it, time passes, and a lock that is free again and again *)
(* is obtained in the end.  Nobody has to lock, wait or signal.            *)
(***************************************************************************)
Fairness ==
    \A t \in Threads :
        /\ SF_vars(Unlock(t))
        /\ WF_vars(ReleaseMutex(t))
        /\ WF_vars(TakeSemaphore(t))
        /\ WF_vars(Expire(t))
        /\ WF_vars(BroadcastOne(t))
        /\ WF_vars(BroadcastEnd(t))
        /\ SF_vars(Withdraw(t))
        /\ SF_vars(NoticeSignal(t))
        /\ SF_vars(Relock(t))

FairSpec == Spec /\ Fairness
-----------------------------------------------------------------------------
(***************************************************************************)
(* Properties.                                                             *)
(***************************************************************************)
InWait(t) == pc[t] \in {"enqueued", "blocked", "timedout", "drain", "relock"}

Waiters == {t \in Threads : cond_waiting[t]}

\* The pointers spell c: the two ends and the links both ways.
Links(c) ==
    /\ waiting_head = IF c = << >> THEN NULL ELSE c[1]
    /\ waiting_tail = IF c = << >> THEN NULL ELSE c[Len(c)]
    /\ \A i \in DOMAIN c :
          /\ cond_next[c[i]] = IF i = Len(c) THEN NULL ELSE c[i+1]
          /\ cond_prev[c[i]] = IF i = 1 THEN NULL ELSE c[i-1]

\* The linked list never loses or keeps a thread: the threads marked
\* cond_waiting stand in one order, each once, that waiting_head and cond_next
\* spell forwards and waiting_tail and cond_prev spell backwards, whatever the
\* order of waits, signals, broadcasts and withdrawals from the middle.
ListIntact == \E c \in SetToSeqs(Waiters) : Links(c)

\* The list as a sequence; OmniCondition_proofs proves there is only one.
Chain == CHOOSE c \in SetToSeqs(Waiters) : Links(c)

\* The comment on the design says the semaphore "actually only needs to be a
\* binary semaphore" and that a thread which times out while it is being
\* signalled must put it back in step.  So: a thread's semaphore is 1 exactly
\* while the thread has been taken off the list by a signal and has not yet
\* consumed it, and 0 at every other time; no wait starts with a left-over
\* signal and no count ever reaches 2.
SemaphoreInStep ==
    \A t \in Threads :
        cond_semaphore[t] = IF /\ pc[t] \in {"enqueued", "blocked", "timedout", "drain"}
                               /\ ~cond_waiting[t]
                            THEN 1 ELSE 0

\* "Wait for the semaphore (it _must_ have been signalled)": the second,
\* untimed WaitForSingleObject of timedwait never blocks.
DrainNeverBlocks == \A t \in Threads : pc[t] = "drain" => cond_semaphore[t] > 0

(***************************************************************************)
(* The abstract condition variable.  The atomic "release the mutex and     *)
(* wait" of CondVar is Enqueue: until ReleaseMutex the mutex is held by a  *)
(* thread that is already waiting.  Its atomic broadcast is BroadcastBegin:*)
(* nobody can join or leave the list until the loop has emptied it.        *)
(***************************************************************************)
AbsQueue == IF crit = NULL THEN Chain ELSE << >>
AbsOwner == IF owner # NULL /\ pc[owner] = "enqueued" THEN NULL ELSE owner

AbsExpired == {t \in Threads : pc[t] = "relock" /\ ret[t] = "expired"}
AbsWoken == {t \in Threads : /\ InWait(t)
                             /\ ~(crit = NULL /\ cond_waiting[t])
                             /\ t \notin AbsExpired}
AbsTimed == {t \in Threads : timed[t]}

CV == INSTANCE CondVar WITH
        None    <- NULL,
        owner   <- AbsOwner,
        queue   <- AbsQueue,
        woken   <- AbsWoken,
        expired <- AbsExpired,
        timed   <- AbsTimed

\* Every behaviour of the linked list and the semaphores is a behaviour of
\* the condition variable that omnithread.h describes.
ImplementsCondVar == CV!Spec

\* ... and every wait that was signalled, alone or by a broadcast, returns; so
\* does a timed wait that nobody signals.
ImplementsLiveCondVar == CV!LiveSpec
=============================================================================
