------------------------- MODULE WaitableCell_proofs -------------------------
(***************************************************************************)
(* The safety of WaitableCell, and that it implements AtomicCell, for any  *)
(* number of threads and any values.                                       *)
(***************************************************************************)
EXTENDS WaitableCell, TLAPS

USE CellAssumption DEF Threads, Readers

\* Where a thread is says whether it is inside an operation; who is in the wait
\* set is blocked; only a timed wait has a deadline; and a set has an argument, which stays after it returns.
Control(t) ==
  /\ op[t] = "idle" <=> pc[t] \in {"idle", "notify", "unlock"}
  /\ t \in waiters => pc[t] = "blocked"
  /\ late[t] => op[t] = "timed"
  /\ op[t] = "set" => arg[t] \in Values
  /\ op[t] = "idle" /\ done[t] = "set" => arg[t] \in Values

\* A set that returned Ok knows what the cell holds only while its argument is
\* still known, that is until its thread calls something else; WaitReturnsValue
\* and OneValue become inductive with Control.
Inv ==
  /\ TypeOK /\ AccessGuarded /\ (\A t \in Threads : Control(t))
  /\ WaitReturnsValue /\ OneValue

\* A call changes nothing that others can see.
LEMMA CallStep ==
  ASSUME Inv, NEW t \in Threads, CallSet(t) \/ CallRead(t)
  PROVE  Inv'
<1> USE DEF Inv, TypeOK, PCs, AccessGuarded, Control, WaitReturnsValue, OneValue
<1>1. CASE CallSet(t)
  BY <1>1 DEF CallSet, Call
<1>2. CASE CallRead(t)
  BY <1>2 DEF CallRead, Call
<1> QED
  BY <1>1, <1>2

\* Acquiring the mutex, notifying, releasing, blocking, waking and running out
\* of time change neither the cell nor any result.
LEMMA MutexStep ==
  ASSUME Inv, NEW t \in Threads,
         \/ Lock(t) \/ NotifyAll(t) \/ Unlock(t)
         \/ Block(t) \/ SpuriousWakeup(t) \/ Timeout(t)
  PROVE  Inv'
<1> USE DEF Inv, TypeOK, PCs, AccessGuarded, Control, WaitReturnsValue, OneValue
<1>1. CASE Lock(t)
  BY <1>1 DEF Lock
<1>2. CASE NotifyAll(t)
  BY <1>2 DEF NotifyAll
<1>3. CASE Unlock(t)
  BY <1>3 DEF Unlock
<1>4. CASE Block(t)
  BY <1>4 DEF Block
<1>5. CASE SpuriousWakeup(t)
  BY <1>5 DEF SpuriousWakeup, Leave
<1>6. CASE Timeout(t)
  BY <1>6 DEF Timeout, Leave
<1> QED
  BY <1>1, <1>2, <1>3, <1>4, <1>5, <1>6

\* Writing the cell, and returning what it holds.
LEMMA CellStep ==
  ASSUME Inv, NEW t \in Threads, SetCell(t) \/ GetCell(t)
  PROVE  Inv'
<1> USE DEF Inv, TypeOK, PCs, AccessGuarded, Control, WaitReturnsValue, OneValue
<1>1. CASE SetCell(t)
  BY <1>1 DEF SetCell, Return
<1>2. CASE GetCell(t)
  BY <1>2 DEF GetCell, Return
<1> QED
  BY <1>1, <1>2

\* The inductive invariant holds in every state.
LEMMA Invariance == SafeSpec => []Inv
<1>1. Init => Inv
  BY DEF Init, Inv, TypeOK, PCs, AccessGuarded, Control, WaitReturnsValue, OneValue
<1>2. Inv /\ [Next]_vars => Inv'
  <2>1. Inv /\ UNCHANGED vars => Inv'
    BY DEF vars, Inv, TypeOK, AccessGuarded, Control, WaitReturnsValue, OneValue
  <2> QED
    BY <2>1, CallStep, MutexStep, CellStep DEF Next
<1> QED
  BY <1>1, <1>2, PTL DEF SafeSpec

\* WaitableCell is type-correct.
THEOREM TypeCorrect == SafeSpec => []TypeOK
BY Invariance, PTL DEF Inv

\* sync.rs:26 is right: the cell is only ever touched under the mutex.
THEOREM CellGuarded == SafeSpec => []AccessGuarded
BY Invariance, PTL DEF Inv

\* sync.rs:97-98 is right: the unwrap_unchecked of wait never meets a None.
THEOREM WaitSafe == SafeSpec => []WaitReturnsValue
BY Invariance, PTL DEF Inv

\* Readers and the winning set agree on the value.
THEOREM OneValueForAll == SafeSpec => []OneValue
BY Invariance, PTL DEF Inv

\* A full cell never changes (sync.rs:56).
THEOREM FullCellFixed == SafeSpec => SetOnce
<1>1. [Next]_vars => [cell # NoVal => cell' = cell]_vars
  BY DEF Next, vars, CallSet, CallRead, Call, Lock, SetCell, NotifyAll, Unlock,
         Block, SpuriousWakeup, Timeout, GetCell
<1> QED
  BY <1>1, PTL DEF SafeSpec, SetOnce

\* Every operation is atomic: a step of WaitableCell is a step of AtomicCell or
\* changes nothing AtomicCell speaks of.
THEOREM ImplementsAtomic == SafeSpec => Abstract!SafeSpec
<1>1. Init => Abstract!Init
  BY DEF Init, Abstract!Init
<1>2. Inv /\ [Next]_vars => [Abstract!Next]_Abstract!avars
  <2> SUFFICES ASSUME Inv, [Next]_vars
               PROVE  Abstract!Next \/ UNCHANGED Abstract!avars
    OBVIOUS
  <2>1. ASSUME NEW t \in Threads, CallSet(t) PROVE Abstract!Next
    BY <2>1 DEF CallSet, Call, Abstract!Next, Abstract!Call, Inv, Control
  <2>2. ASSUME NEW t \in Threads, CallRead(t) PROVE Abstract!Next
    BY <2>2 DEF CallRead, Call, Abstract!Next, Abstract!Call, Abstract!Readers,
                Inv, Control
  <2>3. ASSUME NEW t \in Threads, SetCell(t) PROVE Abstract!Next
    BY <2>3 DEF SetCell, Return, Abstract!Next, Abstract!Set, Abstract!Answer
  <2>4. ASSUME NEW t \in Threads, GetCell(t) PROVE Abstract!Next
    BY <2>4 DEF GetCell, Return, Abstract!Next, Abstract!Read, Abstract!Answer,
                Abstract!Readers, Inv, Control
  <2>5. ASSUME NEW t \in Threads,
               \/ Lock(t) \/ NotifyAll(t) \/ Unlock(t)
               \/ Block(t) \/ SpuriousWakeup(t) \/ Timeout(t)
        PROVE  UNCHANGED Abstract!avars
    BY <2>5 DEF Lock, NotifyAll, Unlock, Block, SpuriousWakeup, Timeout, Abstract!avars
  <2>6. CASE UNCHANGED vars
    BY <2>6 DEF vars, Abstract!avars
  <2> QED
    BY <2>1, <2>2, <2>3, <2>4, <2>5, <2>6 DEF Next
<1> QED
  BY <1>1, <1>2, Invariance, PTL DEF SafeSpec, Abstract!SafeSpec

=============================================================================
