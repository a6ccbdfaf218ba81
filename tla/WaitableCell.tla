---------------------------- MODULE WaitableCell ----------------------------
(***************************************************************************)
(* The WaitableCell of sandbox/sync.rs: a OnceCell next to a Mutex<()> and *)
(* a Condvar.  The cell itself is not inside the mutex; it is declared     *)
(* Sync by hand ("this is safe because access to cell guarded by the       *)
(* mutex"), and `wait` ends in an unwrap_unchecked.  Both claims, and that *)
(* no wakeup is lost, depend on the interleavings explored here.           *)
(*                                                                         *)
(* A step of a thread is what it does between two points at which another  *)
(* thread can run: acquiring the mutex, writing the cell, notifying,       *)
(* releasing, blocking on the condition variable.                          *)
(***************************************************************************)

CONSTANTS Writers,  \* the threads whose clone of the cell is set or guarded
          Waiters,  \* the threads whose clone is waited on
          Values, NoVal, NoThread

Threads == Writers \cup Waiters

ASSUME CellAssumption == NoVal \notin Values /\ NoThread \notin Threads

VARIABLES mutex,    \* the holder of `mutex`, or NoThread
          waiters,  \* the threads blocked on `cvar`
          cell,     \* the contents of `cell`
          pc,       \* where each thread is
          op, arg,  \* the operation it is in, and the argument of a set
          late,     \* late[t]: the duration of its timed wait has run out
          ret, done \* what its last operation returned, and which one it was

vars == <<mutex, waiters, cell, pc, op, arg, late, ret, done>>

Readers == {"wait", "poll", "timed"}
PCs == {"idle", "lock", "held", "blocked", "notify", "unlock"}

\* A new cell, shared by idle threads.
Init ==
  /\ mutex = NoThread
  /\ waiters = {}
  /\ cell = NoVal
  /\ pc = [t \in Threads |-> "idle"]
  /\ op = [t \in Threads |-> "idle"]
  /\ arg = [t \in Threads |-> NoVal]
  /\ late = [t \in Threads |-> FALSE]
  /\ ret = [t \in Threads |-> NoVal]
  /\ done = [t \in Threads |-> "idle"]

Call(t, o, v) ==
  /\ pc[t] = "idle"
  /\ pc' = [pc EXCEPT ![t] = "lock"]
  /\ op' = [op EXCEPT ![t] = o]
  /\ arg' = [arg EXCEPT ![t] = v]
  /\ UNCHANGED <<mutex, waiters, cell, late, ret, done>>

\* set(val), and the drop of a guard, which is a set of f's result.
CallSet(t) == t \in Writers /\ \E v \in Values : Call(t, "set", v)

\* wait() is wait_timeout(None); "poll" is wait_timeout(ZERO); "timed" is
\* wait_timeout with a positive duration.
CallRead(t) == t \in Waiters /\ \E o \in Readers : Call(t, o, NoVal)

\* A poll that does not take the mutex.
Lock_not_poll(t) ==
  /\ pc[t] = "lock" /\ (op[t] = "poll" \/ mutex = NoThread)
  /\ mutex' = IF op[t] = "poll" THEN mutex ELSE t
  /\ pc' = [pc EXCEPT ![t] = "held"]
  /\ UNCHANGED <<waiters, cell, op, arg, late, ret, done>>

\* mutex.lock(), also the one with which a condvar wait ends.
Lock(t) ==
  /\ pc[t] = "lock" /\ mutex = NoThread
  /\ mutex' = t
  /\ pc' = [pc EXCEPT ![t] = "held"]
  /\ UNCHANGED <<waiters, cell, op, arg, late, ret, done>>

Return(t, r) ==
  /\ ret' = [ret EXCEPT ![t] = r]
  /\ done' = [done EXCEPT ![t] = op[t]]
  /\ op' = [op EXCEPT ![t] = "idle"]
  /\ late' = [late EXCEPT ![t] = FALSE]
  /\ UNCHANGED arg

(***************************************************************************)
(* set: cell.set, notify_all, and the release when _guard goes out of      *)
(* scope.  The result of cell.set is what set returns.                     *)
(***************************************************************************)
\* A set that overwrites.
SetCell_overwrites(t) ==
  /\ pc[t] = "held" /\ op[t] = "set"
  /\ cell' = arg[t]
  /\ pc' = [pc EXCEPT ![t] = "notify"]
  /\ Return(t, NoVal)
  /\ UNCHANGED <<mutex, waiters>>

SetCell(t) ==
  /\ pc[t] = "held" /\ op[t] = "set"
  /\ cell' = IF cell = NoVal THEN arg[t] ELSE cell
  /\ pc' = [pc EXCEPT ![t] = "notify"]
  /\ Return(t, IF cell = NoVal THEN NoVal ELSE arg[t])
  /\ UNCHANGED <<mutex, waiters>>

\* notify_one in place of notify_all.
NotifyOne(t) ==
  /\ pc[t] = "notify"
  /\ \/ /\ waiters = {}
        /\ pc' = [pc EXCEPT ![t] = "unlock"]
        /\ UNCHANGED waiters
     \/ \E u \in waiters :
          /\ waiters' = waiters \ {u}
          /\ pc' = [pc EXCEPT ![t] = "unlock", ![u] = "lock"]
  /\ UNCHANGED <<mutex, cell, op, arg, late, ret, done>>

NotifyAll(t) ==
  /\ pc[t] = "notify"
  /\ waiters' = {}
  /\ pc' = [u \in Threads |-> IF u = t THEN "unlock"
                              ELSE IF u \in waiters THEN "lock" ELSE pc[u]]
  /\ UNCHANGED <<mutex, cell, op, arg, late, ret, done>>

Unlock(t) ==
  /\ pc[t] = "unlock"
  /\ mutex' = NoThread
  /\ pc' = [pc EXCEPT ![t] = "idle"]
  /\ UNCHANGED <<waiters, cell, op, arg, late, ret, done>>

(***************************************************************************)
(* wait_timeout.  wait_while and wait_timeout_while test the condition     *)
(* with the mutex held, and release it and block in one step.              *)
(***************************************************************************)
Block(t) ==
  /\ pc[t] = "held" /\ op[t] \in {"wait", "timed"} /\ cell = NoVal /\ ~late[t]
  /\ mutex' = NoThread
  /\ waiters' = waiters \cup {t}
  /\ pc' = [pc EXCEPT ![t] = "blocked"]
  /\ UNCHANGED <<cell, op, arg, late, ret, done>>

Leave(t) ==
  /\ waiters' = waiters \ {t}
  /\ pc' = [pc EXCEPT ![t] = IF @ = "blocked" THEN "lock" ELSE @]

\* A blocked thread leaves the wait set without a notification: a spurious
\* wakeup, which Condvar allows.
SpuriousWakeup(t) ==
  /\ pc[t] = "blocked"
  /\ Leave(t)
  /\ UNCHANGED <<mutex, cell, op, arg, late, ret, done>>

\* The duration of a timed wait runs out, whether or not t is blocked.
Timeout(t) ==
  /\ op[t] = "timed" /\ ~late[t]
  /\ late' = [late EXCEPT ![t] = TRUE]
  /\ Leave(t)
  /\ UNCHANGED <<mutex, cell, op, arg, ret, done>>

\* A wait that tests the condition once instead of in a loop.
GetCell_no_loop(t) ==
  /\ pc[t] = "held" /\ op[t] \in Readers
  /\ Return(t, cell)
  /\ mutex' = NoThread
  /\ pc' = [pc EXCEPT ![t] = "idle"]
  /\ UNCHANGED <<waiters, cell>>

\* cell.get() and return, with the mutex held.  `wait` gets here only with a
\* full cell, a timed wait with a full cell or once its time is up, and a poll
\* at once.
GetCell(t) ==
  /\ pc[t] = "held" /\ op[t] \in Readers
  /\ cell # NoVal \/ op[t] = "poll" \/ late[t]
  /\ Return(t, cell)
  /\ mutex' = NoThread
  /\ pc' = [pc EXCEPT ![t] = "idle"]
  /\ UNCHANGED <<waiters, cell>>

Next ==
  \E t \in Threads :
    \/ CallSet(t) \/ CallRead(t)
    \/ Lock(t) \/ SetCell(t) \/ NotifyAll(t) \/ Unlock(t)
    \/ Block(t) \/ SpuriousWakeup(t) \/ Timeout(t) \/ GetCell(t)

SafeSpec == Init /\ [][Next]_vars

\* A thread that can run eventually does, time passes, and the mutex is not
\* withheld forever from a thread that wants it.  Nobody has to call anything,
\* and a spurious wakeup need never happen.
Fairness ==
  \A t \in Threads :
    /\ SF_vars(Lock(t))
    /\ WF_vars(SetCell(t)) /\ WF_vars(NotifyAll(t)) /\ WF_vars(Unlock(t))
    /\ WF_vars(Block(t) \/ GetCell(t)) /\ WF_vars(Timeout(t))

Spec == SafeSpec /\ Fairness

-----------------------------------------------------------------------------
TypeOK ==
  /\ mutex \in Threads \cup {NoThread}
  /\ waiters \subseteq Threads
  /\ cell \in Values \cup {NoVal}
  /\ pc \in [Threads -> PCs]
  /\ op \in [Threads -> Readers \cup {"set", "idle"}]
  /\ arg \in [Threads -> Values \cup {NoVal}]
  /\ late \in [Threads -> BOOLEAN]
  /\ ret \in [Threads -> Values \cup {NoVal}]
  /\ done \in [Threads -> Readers \cup {"set", "idle"}]

\* sync.rs:26, "access to cell guarded by the mutex": a thread that is about to
\* read or write the cell, or that returns a reference to its contents, is the
\* one holding the mutex; so no two threads ever touch the OnceCell together.
AccessGuarded ==
  \A t \in Threads : pc[t] \in {"held", "notify", "unlock"} => mutex = t

\* sync.rs:97-98: an untimed wait never returns without a value, so its
\* unwrap_unchecked is never applied to None, spurious wakeups included.
WaitReturnsValue ==
  \A t \in Threads : done[t] = "wait" => ret[t] # NoVal

\* Whoever saw a value saw the one value the cell has: a reader that returned
\* Some returned the contents of the cell, and a set that returned Ok is the
\* one whose argument the cell holds, also when a guard's set raced with it.
OneValue ==
  \A t \in Threads :
    /\ done[t] \in Readers /\ ret[t] # NoVal => ret[t] = cell
    /\ done[t] = "set" /\ ret[t] = NoVal /\ op[t] = "idle" => arg[t] = cell

\* sync.rs:56, "This method has no effect if the WaitableCell already has a
\* value": a full cell never changes again.
SetOnce == [][cell # NoVal => cell' = cell]_vars

\* No lost wakeup: once the cell has a value, a thread inside any operation
\* returns, those blocked on the condition variable included.
WaitersWake ==
  \A t \in Threads : (cell # NoVal /\ op[t] # "idle") ~> (op[t] = "idle")

-----------------------------------------------------------------------------
\* The operations of a WaitableCell are atomic: seen from outside, a set takes
\* effect at cell.set and a read when it reads the cell, whatever blocking,
\* waking and timing out happens in between.
Abstract ==
  INSTANCE AtomicCell WITH cell <- cell, op <- op, arg <- arg, ret <- ret, done <- done

\* WaitableCell implements AtomicCell, with its liveness.
ImplementsAtomicCell == Abstract!Spec

=============================================================================
