------------------------------- MODULE CondVar -------------------------------
(***************************************************************************)
(* What omnithread promises of a mutex and a condition variable linked to  *)
(* it: the abstract specification that OmniCondition implements.  The      *)
(* promise is the one the class comments of omni_condition make: wait      *)
(* releases the mutex and joins the waiting threads in one step, signal    *)
(* wakes a waiting thread, broadcast wakes all of them, a timed wait that  *)
(* expires withdraws, and every wait returns with the mutex locked again.  *)
(***************************************************************************)
EXTENDS Integers, SequencesExt

CONSTANTS Threads,  \* the threads that use the mutex and the condition
          None      \* no thread

VARIABLES owner,    \* the thread that holds the mutex, or None
          queue,    \* the threads that wait, the longest waiting first
          woken,    \* threads signalled, not yet back from their wait
          expired,  \* threads whose timed wait ran out, not yet back
          timed     \* the threads that are in a timed wait
cvars == <<owner, queue, woken, expired, timed>>

Waiting == {queue[i] : i \in DOMAIN queue}
Inside  == Waiting \union woken \union expired  \* threads in wait or timedwait

Init == /\ owner = None
        /\ queue = << >>
        /\ woken = {} /\ expired = {} /\ timed = {}

Lock(t) == /\ t \notin Inside
           /\ owner = None
           /\ owner' = t
           /\ UNCHANGED <<queue, woken, expired, timed>>

Unlock(t) == /\ t \notin Inside
             /\ owner = t
             /\ owner' = None
             /\ UNCHANGED <<queue, woken, expired, timed>>

\* Release the mutex and start to wait, in one step.
Wait(t, withTimeout) ==
    /\ t \notin Inside
    /\ owner = t
    /\ owner' = None
    /\ queue' = Append(queue, t)
    /\ timed' = IF withTimeout THEN timed \union {t} ELSE timed \ {t}
    /\ UNCHANGED <<woken, expired>>

Signal == /\ queue # << >>
          /\ queue' = Tail(queue)
          /\ woken' = woken \union {Head(queue)}
          /\ UNCHANGED <<owner, expired, timed>>

Broadcast == /\ queue # << >>
             /\ queue' = << >>
             /\ woken' = woken \union Waiting
             /\ UNCHANGED <<owner, expired, timed>>

Timeout(t) == /\ t \in timed
              /\ \E i \in DOMAIN queue : queue[i] = t /\ queue' = RemoveAt(queue, i)
              /\ expired' = expired \union {t}
              /\ UNCHANGED <<owner, woken, timed>>

\* The call returns: 1 to a thread of woken, 0 to a thread of expired.
Return(t) == /\ t \in woken \union expired
             /\ owner = None
             /\ owner' = t
             /\ woken' = woken \ {t}
             /\ expired' = expired \ {t}
             /\ UNCHANGED <<queue, timed>>

Next == \/ Signal
        \/ Broadcast
        \/ \E t \in Threads : \/ Lock(t) \/ Unlock(t) \/ Timeout(t) \/ Return(t)
                              \/ \E b \in BOOLEAN : Wait(t, b)

Spec == Init /\ [][Next]_cvars

(***************************************************************************)
(* With threads that release what they lock, a wait that has been          *)
(* signalled or has expired returns, and a timed wait that nobody signals  *)
(* expires.                                                                *)
(***************************************************************************)
LiveSpec == Spec /\ \A t \in Threads : SF_cvars(Return(t)) /\ WF_cvars(Timeout(t))
=============================================================================
