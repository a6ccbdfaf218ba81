------------------------- MODULE TaskService_proofs -------------------------
(***************************************************************************)
(* Proofs about TaskService for any sets of threads, ids and instances:    *)
(* its types, who holds an instance's lock, and who has read its exit code *)
(* (the first two layers of the inductive invariant of its safety).        *)
(***************************************************************************)
EXTENDS TaskService, TLAPS

\* The frame and control operators every action is written with.
USE Zenon DEF Goto, At, Stay, Mark, SetExit, SetExited,
        ReadCode, CanStart, CanKill, CanDelete, Started, Stop,
        service, data, inst, local, ghosts

-----------------------------------------------------------------------------
(* Type correctness.  A thread inside an RPC on an instance holds its Arc.  *)

HasObj ==
  \A t \in Threads : pc[t] \notin {"idle", "c_new", "x_signal"} => robj[t] \in Objs

\* Publishing an event keeps the type of the event logs.
LEMMA PublishType ==
  ASSUME TypeOK, NEW o, NEW e \in {"create", "start", "exit", "delete"},
         Publish(o, e)
  PROVE  events' \in [Objs -> Seq({"create", "start", "exit", "delete"})]
<1> DEFINE K == {"create", "start", "exit", "delete"}
<1> SUFFICES events' \in [Objs -> Seq(K)]
  OBVIOUS
<1>1. events \in [Objs -> Seq(K)] /\ e \in K
  BY DEF TypeOK
<1> HIDE DEF K
<1>2. \A p \in Objs : Append(events[p], e) \in Seq(K)
  BY <1>1, SMT
<1> QED
  BY <1>1, <1>2 DEF Publish

\* Reporting an exit code keeps the type of the reports.
LEMMA ReportType ==
  ASSUME TypeOK, NEW o, NEW c \in Codes \cup {NoCode}, Report(o, c)
  PROVE  reported' \in [Objs -> SUBSET Codes]
BY DEF TypeOK, Report

\* Returning from an RPC keeps the types of a thread's variables.
LEMMA ReturnType ==
  ASSUME TypeOK, NEW t \in Threads, Return(t)
  PROVE  /\ pc' \in [Threads -> PCs]
         /\ rid' \in [Threads -> Ids \cup {NoId}]
         /\ robj' \in [Threads -> Objs \cup {NoObj}]
         /\ rcode' \in [Threads -> Codes \cup {NoCode}]
         /\ rpid' \in [Threads -> BOOLEAN]
         /\ rseen' \in [Threads -> 0..2]
BY SMT DEF TypeOK, PCs, Return

\* A step of a handler thread keeps the types of all variables.
LEMMA ThreadTypes ==
  ASSUME TypeOK, HasObj, NEW t \in Threads, Arrive(t) \/ LockStep(t) \/ Step(t)
  PROVE  TypeOK'
<1> USE DEF TypeOK, HasObj, PCs
<1>1. CASE Arrive(t)
  <2>1. CASE \E i \in Ids : CreateCheck(t, i)
    BY <2>1, SMT DEF CreateCheck
  <2>2. ASSUME NEW r \in AllRpcs, NEW l \in PCs, get_instance(t, r, l)
        PROVE  TypeOK'
    BY <2>2, SMT DEF get_instance
  <2>3. CASE ShutdownCheck(t)
    BY <2>3 DEF ShutdownCheck
  <2> QED
    BY <1>1, <2>1, <2>2, <2>3
       DEF Arrive, StartGet, KillGet, DeleteGet, WaitGet, StateGet, AllRpcs, PCs
<1>2. CASE LockStep(t)
  <2>1. CASE StartLock(t)
    BY <2>1 DEF StartLock, TaskStates
  <2>2. CASE StartRefused(t)
    BY <2>2, ReturnType DEF StartRefused
  <2>3. CASE KillLock(t)
    BY <2>3 DEF KillLock
  <2>4. CASE KillRefused(t)
    BY <2>4, ReturnType DEF KillRefused
  <2>5. CASE DeleteLock(t)
    BY <2>5 DEF DeleteLock, TaskStates
  <2>6. CASE DeleteRefused(t)
    BY <2>6, ReturnType DEF DeleteRefused
  <2>7. CASE DeleteMark(t)
    BY <2>7 DEF DeleteMark, TaskStates
  <2>8. CASE WaitMark(t)
    <3>1. shown' \in [Objs -> 0..2]
      <4>1. shown \in [Objs -> 0..2] /\ 2 \in 0..2
        BY SMT
      <4> QED
        BY <2>8, <4>1 DEF WaitMark, TellStopped
    <3>2. reported' \in [Objs -> SUBSET Codes]
      BY <2>8, ReportType DEF WaitMark
    <3> QED
      BY <2>8, <3>1, <3>2, ReturnType DEF WaitMark, TaskStates, Marks
  <2>9. CASE StateMark(t)
    BY <2>9 DEF StateMark, TaskStates
  <2> QED
    BY <1>2, <2>1, <2>2, <2>3, <2>4, <2>5, <2>6, <2>7, <2>8, <2>9 DEF LockStep
<1>3. CASE Step(t)
  <2>1. CASE CreateFail(t)
    BY <2>1, ReturnType DEF CreateFail
  <2>2. CASE CreateNew(t)
    BY <2>2, SMT DEF CreateNew, TaskStates
  <2>3. CASE CreateInsert(t)
    BY <2>3 DEF CreateInsert
  <2>4. CASE CreateEvent(t)
    BY <2>4, PublishType DEF CreateEvent
  <2>5. CASE CreateHooks(t)
    BY <2>5, ReturnType DEF CreateHooks
  <2>6. CASE StartCallOk(t)
    BY <2>6 DEF StartCallOk, Marks
  <2>7. CASE StartCallErr(t)
    <3>1. exit' \in [Objs -> Codes \cup {NoCode}]
      <4>1. exit \in [Objs -> Codes \cup {NoCode}] /\ 137 \in Codes
        BY DEF Codes
      <4> HIDE DEF TypeOK, HasObj, PCs
      <4>2. SetExit(robj[t], 137)
        BY <2>7 DEF StartCallErr
      <4> QED
        BY <4>1, <4>2
    <3>2. hist' \in [Objs -> SUBSET Marks]
      <4>1. hist \in [Objs -> SUBSET Marks] /\ {"start", "lost"} \subseteq Marks
        BY DEF Marks
      <4> HIDE DEF TypeOK, HasObj, PCs
      <4>2. \E M \in {{"start"}, {"start", "lost"}} :
              hist' = [hist EXCEPT ![robj[t]] = @ \cup M]
        BY <2>7 DEF StartCallErr
      <4> QED
        BY <4>1, <4>2
    <3>3. proc' \in [Objs -> {"none", "created", "running", "dead", "gone"}]
      BY <2>7 DEF StartCallErr
    <3> QED
      BY <2>7, <3>1, <3>2, <3>3 DEF StartCallErr
  <2>8. CASE StartPid(t)
    BY <2>8 DEF StartPid
  <2>9. CASE StartDone(t)
    BY <2>9 DEF StartDone, TaskStates
  <2>10. CASE StartStop(t)
    BY <2>10, ReturnType DEF StartStop, TaskStates
  <2>11. CASE StartEvent(t)
    BY <2>11, PublishType DEF StartEvent
  <2>12. CASE StartSpawn(t)
    <3>1. waiter' \in [Objs -> {"none", "blocked", "mark", "send", "done"}]
      BY <2>12 DEF StartSpawn
    <3> QED
      BY <2>12, <3>1, ReturnType DEF StartSpawn
  <2>13. CASE KillCall(t)
    <3>1. proc \in [Objs -> {"none", "created", "running", "dead", "gone"}]
      OBVIOUS
    <3>2. proc' \in [Objs -> {"none", "created", "running", "dead", "gone"}]
      <4> HIDE DEF TypeOK, HasObj, PCs
      <4> QED BY <2>13, <3>1 DEF KillCall
    <3> QED
      BY <2>13, <3>2, ReturnType DEF KillCall
  <2>14. CASE DeleteCallOk(t)
    BY <2>14 DEF DeleteCallOk, Marks
  <2>15. CASE DeleteCallErr(t)
    <3>1. state' \in [Objs -> TaskStates \cup {"free"}]
      BY <2>15 DEF DeleteCallErr, TaskStates
    <3>2. hist' \in [Objs -> SUBSET Marks]
      BY <2>15 DEF DeleteCallErr, Marks
    <3>3. proc' \in [Objs -> {"none", "created", "running", "dead", "gone"}]
      BY <2>15 DEF DeleteCallErr
    <3> QED
      BY <2>15, <3>1, <3>2, <3>3, ReturnType DEF DeleteCallErr
  <2>16. CASE DeleteCode(t)
    BY <2>16 DEF DeleteCode
  <2>17. CASE DeleteRemove(t)
    BY <2>17 DEF DeleteRemove
  <2>18. CASE DeleteEvent(t)
    BY <2>18, PublishType, ReportType, ReturnType DEF DeleteEvent
  <2>19. CASE WaitWake(t)
    BY <2>19 DEF WaitWake
  <2>20. CASE StatePid(t)
    BY <2>20 DEF StatePid
  <2>21. CASE StateCode(t)
    BY <2>21 DEF StateCode
  <2>22. CASE StateReply(t)
    <3>1. Status(t) \in 0..2
      BY SMT DEF Status
    <3>2. shown' \in [Objs -> 0..2]
      BY <2>22, <3>1 DEF StateReply
    <3> QED
      BY <2>22, <3>2, ReportType, ReturnType DEF StateReply
  <2>23. CASE ShutdownSignal(t)
    BY <2>23, ReturnType DEF ShutdownSignal
  <2>24. CASE StartPanic(t)
    BY <2>24 DEF StartPanic, Marks
  <2> QED
    BY <1>3, <2>1, <2>2, <2>3, <2>4, <2>5, <2>6, <2>7, <2>8, <2>9, <2>10, <2>11, <2>12, <2>13, <2>14, <2>15, <2>16, <2>17, <2>18, <2>19, <2>20, <2>21, <2>22, <2>23, <2>24 DEF Step
<1> QED
  BY <1>1, <1>2, <1>3

\* A thread keeps its Arc until its RPC returns.
LEMMA ThreadHasObj ==
  ASSUME TypeOK, HasObj, NEW t \in Threads, Arrive(t) \/ LockStep(t) \/ Step(t)
  PROVE  HasObj'
<1> USE DEF TypeOK, HasObj, Return
<1>1. CASE Arrive(t)
  <2>1. CASE \E i \in Ids : CreateCheck(t, i)
    BY <2>1 DEF CreateCheck
  <2>2. ASSUME NEW r \in AllRpcs, NEW l \in PCs, get_instance(t, r, l)
        PROVE  HasObj'
    BY <2>2, SMT DEF get_instance
  <2>3. CASE ShutdownCheck(t)
    BY <2>3 DEF ShutdownCheck
  <2> QED
    BY <1>1, <2>1, <2>2, <2>3
       DEF Arrive, StartGet, KillGet, DeleteGet, WaitGet, StateGet, AllRpcs, PCs
<1>2. CASE LockStep(t)
  <2>1. CASE StartLock(t)
    BY <2>1 DEF StartLock
  <2>2. CASE StartRefused(t)
    BY <2>2 DEF StartRefused
  <2>3. CASE KillLock(t)
    BY <2>3 DEF KillLock
  <2>4. CASE KillRefused(t)
    BY <2>4 DEF KillRefused
  <2>5. CASE DeleteLock(t)
    BY <2>5 DEF DeleteLock
  <2>6. CASE DeleteRefused(t)
    BY <2>6 DEF DeleteRefused
  <2>7. CASE DeleteMark(t)
    BY <2>7 DEF DeleteMark
  <2>8. CASE WaitMark(t)
    BY <2>8 DEF WaitMark
  <2>9. CASE StateMark(t)
    BY <2>9 DEF StateMark
  <2> QED
    BY <1>2, <2>1, <2>2, <2>3, <2>4, <2>5, <2>6, <2>7, <2>8, <2>9 DEF LockStep
<1>3. CASE Step(t)
  <2>1. CASE CreateFail(t)
    BY <2>1 DEF CreateFail
  <2>2. CASE CreateNew(t)
    BY <2>2, SMT DEF CreateNew
  <2>3. CASE CreateInsert(t)
    BY <2>3 DEF CreateInsert
  <2>4. CASE CreateEvent(t)
    BY <2>4 DEF CreateEvent
  <2>5. CASE CreateHooks(t)
    BY <2>5 DEF CreateHooks
  <2>6. CASE StartCallOk(t)
    BY <2>6 DEF StartCallOk
  <2>7. CASE StartCallErr(t)
    BY <2>7 DEF StartCallErr
  <2>8. CASE StartPid(t)
    BY <2>8 DEF StartPid
  <2>9. CASE StartDone(t)
    BY <2>9 DEF StartDone
  <2>10. CASE StartStop(t)
    BY <2>10 DEF StartStop
  <2>11. CASE StartEvent(t)
    BY <2>11 DEF StartEvent
  <2>12. CASE StartSpawn(t)
    BY <2>12 DEF StartSpawn
  <2>13. CASE KillCall(t)
    BY <2>13 DEF KillCall
  <2>14. CASE DeleteCallOk(t)
    BY <2>14 DEF DeleteCallOk
  <2>15. CASE DeleteCallErr(t)
    BY <2>15 DEF DeleteCallErr
  <2>16. CASE DeleteCode(t)
    BY <2>16 DEF DeleteCode
  <2>17. CASE DeleteRemove(t)
    BY <2>17 DEF DeleteRemove
  <2>18. CASE DeleteEvent(t)
    BY <2>18 DEF DeleteEvent
  <2>19. CASE WaitWake(t)
    BY <2>19 DEF WaitWake
  <2>20. CASE StatePid(t)
    BY <2>20 DEF StatePid
  <2>21. CASE StateCode(t)
    BY <2>21 DEF StateCode
  <2>22. CASE StateReply(t)
    BY <2>22 DEF StateReply
  <2>23. CASE ShutdownSignal(t)
    BY <2>23 DEF ShutdownSignal
  <2>24. CASE StartPanic(t)
    BY <2>24 DEF StartPanic
  <2> QED
    BY <1>3, <2>1, <2>2, <2>3, <2>4, <2>5, <2>6, <2>7, <2>8, <2>9, <2>10, <2>11, <2>12, <2>13, <2>14, <2>15, <2>16, <2>17, <2>18, <2>19, <2>20, <2>21, <2>22, <2>23, <2>24 DEF Step
<1> QED
  BY <1>1, <1>2, <1>3

\* A step of the container process, the reaper or the wait thread keeps them.
LEMMA BackgroundTypes ==
  ASSUME TypeOK, HasObj, NEW o \in Objs,
         Background(o) \/ WaiterMark(o) \/ ReapError(o) \/ ProcExit(o)
  PROVE  TypeOK' /\ HasObj'
<1> USE DEF TypeOK, HasObj, PCs
<1>1. CASE Reap(o)
  <2>1. exit \in [Objs -> Codes \cup {NoCode}] /\ hist \in [Objs -> SUBSET Marks]
    OBVIOUS
  <2>2. PICK c \in Codes : SetExit(o, c)
    BY <1>1 DEF Reap, Codes
  <2>3. exit' \in [Objs -> Codes \cup {NoCode}]
    <3> HIDE DEF TypeOK, HasObj, PCs
    <3> QED BY <2>1, <2>2
  <2>4. hist' \in [Objs -> SUBSET Marks]
    <3> HIDE DEF TypeOK, HasObj, PCs
    <3> QED BY <1>1, <2>1, SMT DEF Reap, Marks
  <2> QED
    BY <1>1, <2>3, <2>4 DEF Reap
<1>2. CASE GuardDrop(o)
  BY <1>2 DEF GuardDrop, Codes
<1>3. CASE WaiterWake(o)
  BY <1>3 DEF WaiterWake
<1>4. CASE WaiterSend(o)
  <2>1. shown' \in [Objs -> 0..2]
    BY <1>4, SMT DEF WaiterSend, TellStopped
  <2> QED
    BY <1>4, <2>1, PublishType, ReportType DEF WaiterSend
<1>5. CASE WaiterMark(o)
  BY <1>5 DEF WaiterMark, TaskStates
<1>6. CASE ReapError(o)
  <2>1. exit' \in [Objs -> Codes \cup {NoCode}]
    BY <1>6 DEF ReapError, Codes
  <2>2. hist' \in [Objs -> SUBSET Marks]
    BY <1>6 DEF ReapError, Marks
  <2> QED
    BY <1>6, <2>1, <2>2 DEF ReapError
<1>7. CASE ProcExit(o)
  BY <1>7 DEF ProcExit
<1> QED
  BY <1>1, <1>2, <1>3, <1>4, <1>5, <1>6, <1>7 DEF Background

\* Both hold in every state.
LEMMA TypeAndObj == SafeSpec => [](TypeOK /\ HasObj)
<1>1. Init => TypeOK /\ HasObj
  BY SMT DEF Init, TypeOK, HasObj, PCs, Codes, Marks, TaskStates
<1>2. TypeOK /\ HasObj /\ [Next]_vars => (TypeOK /\ HasObj)'
  <2> SUFFICES ASSUME TypeOK, HasObj, [Next]_vars PROVE TypeOK' /\ HasObj'
    OBVIOUS
  <2>1. CASE ShimExit
    BY <2>1 DEF ShimExit, TypeOK, HasObj
  <2>2. CASE UNCHANGED vars
    BY <2>2 DEF vars, TypeOK, HasObj
  <2> QED
    BY <2>1, <2>2, ThreadTypes, ThreadHasObj, BackgroundTypes DEF Next
<1> QED
  BY <1>1, <1>2, PTL DEF SafeSpec

\* TaskService is type-correct whatever RPCs arrive.
THEOREM TypeCorrect == SafeSpec => []TypeOK
BY TypeAndObj, PTL

-----------------------------------------------------------------------------
(* The inductive invariant.  Three layers, each inductive given the ones     *)
(* before it: InnerTransitionsOk, what is known of the exit code by those    *)
(* who have read it, and what the state, the exit code, the process and the  *)
(* history of an instance say of each other.                                 *)

USE ServiceAssumption

\* A code somebody read is the exit code, and those who act on the exit code
\* being known do so when it is.
CodeRead(t) ==
  /\ pc[t] \in {"idle", "c_new", "x_signal"} => rcode[t] = NoCode
  /\ rcode[t] # NoCode => rcode[t] = exit[robj[t]]
  /\ pc[t] \in {"w_mark", "d_mark", "q_mark"} => rcode[t] # NoCode

CodeKnown(o) ==
  /\ waiter[o] \in {"mark", "send", "done"} => exit[o] # NoCode
  /\ reaper[o] \in {"guard", "done"} => exit[o] # NoCode
  /\ reported[o] \subseteq {exit[o]}

CodesAgree ==
  (\A t \in Threads : CodeRead(t)) /\ (\A o \in Objs : CodeKnown(o))

\* What a thread inside InstanceData::start knows of the instance.
StartingHistory(t) == LET o == robj[t] IN
  /\ pc[t] = "s_call" => hist[o] = {} /\ exit[o] = NoCode
  /\ pc[t] \in {"s_pid", "s_started"} => "up" \in hist[o] /\ "delete" \notin hist[o]
  /\ pc[t] = "s_started" => pid[o]
  /\ pc[t] = "s_stop" => exit[o] # NoCode

\* What the state of an instance says of its history, exit code and process.
StateHistory(o) == LET h == hist[o] IN
  /\ state[o] \in {"free", "Created"} => h = {} /\ exit[o] = NoCode
  /\ state[o] = "Started" => "up" \in h /\ "delete" \notin h
  /\ state[o] \in {"Exited", "Deleting"} /\ "start" \in h => exit[o] # NoCode
  /\ "waited" \in h => exit[o] # NoCode /\ state[o] \in {"Exited", "Deleting"}
  /\ "up" \in h => "start" \in h
  /\ "up" \notin h => reaper[o] = "none"
  /\ proc[o] = "running" => "up" \in h \/ "lost" \in h
  /\ "up" \in h /\ ~pid[o] =>
       lock[o] \in Threads /\ pc[lock[o]] = "s_pid" /\ robj[lock[o]] = o
  /\ proc[o] = "running" /\ exit[o] # NoCode => "lost" \in h
  /\ proc[o] = "gone" => "delete" \in h
  /\ reaper[o] = "waiting" => exit[o] = NoCode

History ==
  (\A t \in Threads : StartingHistory(t)) /\ (\A o \in Objs : StateHistory(o))

Starting == {"s_call", "s_pid", "s_started", "s_stop"}

\* The parts of TypeOK that the lemmas below need.
Shaped ==
  /\ pc \in [Threads -> PCs] /\ robj \in [Threads -> Objs \cup {NoObj}]
  /\ state \in [Objs -> TaskStates \cup {"free"}]
  /\ lock \in [Objs -> Threads \cup {NoThread}]
  /\ pid \in [Objs -> BOOLEAN]
  /\ exit \in [Objs -> Codes \cup {NoCode}]
  /\ proc \in [Objs -> {"none", "created", "running", "dead", "gone"}]
  /\ reaper \in [Objs -> {"none", "waiting", "guard", "done"}]
  /\ hist \in [Objs -> SUBSET Marks]

ShapedCodes ==
  /\ Shaped
  /\ rcode \in [Threads -> Codes \cup {NoCode}]
  /\ waiter \in [Objs -> {"none", "blocked", "mark", "send", "done"}]
  /\ reported \in [Objs -> SUBSET Codes]

\* Only the holder of an instance's lock changes what its handler relies on.
LEMMA ThreadInner ==
  ASSUME TypeOK, HasObj, InnerTransitionsOk, NEW t \in Threads,
         Arrive(t) \/ LockStep(t) \/ Step(t)
  PROVE  InnerTransitionsOk'
<1>0. Shaped
  BY DEF TypeOK, Shaped
<1> USE <1>0 DEF Shaped, HasObj, InnerTransitionsOk, InnerTransitionOk, Return
<1> SUFFICES ASSUME NEW u \in Threads PROVE InnerTransitionOk(u)'
  OBVIOUS
<1>1. CASE Arrive(t)
  <2>1. CASE \E i \in Ids : CreateCheck(t, i)
    BY <2>1, SMT DEF CreateCheck
  <2>2. ASSUME NEW r, NEW l \in {"s_lock", "k_lock", "d_lock", "w_wait", "q_pid"},
               get_instance(t, r, l)
        PROVE  InnerTransitionOk(u)'
    BY <2>2, SMT DEF get_instance
  <2>3. CASE ShutdownCheck(t)
    BY <2>3, SMT DEF ShutdownCheck
  <2> QED
    BY <1>1, <2>1, <2>2, <2>3
       DEF Arrive, StartGet, KillGet, DeleteGet, WaitGet, StateGet
<1>2. CASE LockStep(t)
  <2>1. CASE StartLock(t)
    <3>1. robj[t] \in Objs
      BY <2>1 DEF StartLock
    <3>2. CASE u = t
      <4> HIDE DEF HasObj, InnerTransitionsOk
      <4> QED BY <2>1, <3>1, <3>2 DEF StartLock
    <3>3. CASE u # t
      BY <2>1, <3>1, <3>3, SMT DEF StartLock
    <3> QED
      BY <3>2, <3>3
  <2>2. CASE StartRefused(t)
    BY <2>2 DEF StartRefused
  <2>3. CASE KillLock(t)
    <3>1. robj[t] \in Objs
      BY <2>3 DEF KillLock
    <3>2. CASE u = t
      <4> HIDE DEF HasObj, InnerTransitionsOk
      <4> QED BY <2>3, <3>1, <3>2 DEF KillLock
    <3>3. CASE u # t
      BY <2>3, <3>1, <3>3, SMT DEF KillLock
    <3> QED
      BY <3>2, <3>3
  <2>4. CASE KillRefused(t)
    BY <2>4, SMT DEF KillRefused
  <2>5. CASE DeleteLock(t)
    <3>1. robj[t] \in Objs
      BY <2>5 DEF DeleteLock
    <3>2. CASE u = t
      <4> HIDE DEF HasObj, InnerTransitionsOk
      <4> QED BY <2>5, <3>1, <3>2 DEF DeleteLock
    <3>3. CASE u # t
      BY <2>5, <3>1, <3>3, SMT DEF DeleteLock
    <3> QED
      BY <3>2, <3>3
  <2>6. CASE DeleteRefused(t)
    BY <2>6, SMT DEF DeleteRefused
  <2>7. CASE DeleteMark(t)
    BY <2>7, SMT DEF DeleteMark
  <2>8. CASE WaitMark(t)
    BY <2>8, SMT DEF WaitMark
  <2>9. CASE StateMark(t)
    BY <2>9, SMT DEF StateMark
  <2> QED
        BY <1>2, <2>1, <2>2, <2>3, <2>4, <2>5, <2>6, <2>7, <2>8, <2>9 DEF
       LockStep
<1>3. CASE Step(t)
  <2>1. CASE CreateFail(t)
    BY <2>1, SMT DEF CreateFail
  <2>2. CASE CreateNew(t)
    BY <2>2, SMT DEF CreateNew
  <2>3. CASE CreateInsert(t)
    BY <2>3, SMT DEF CreateInsert
  <2>4. CASE CreateEvent(t)
    BY <2>4, SMT DEF CreateEvent
  <2>5. CASE CreateHooks(t)
    BY <2>5, SMT DEF CreateHooks
  <2>6. CASE StartCallOk(t)
    BY <2>6, SMT DEF StartCallOk
  <2>7. CASE StartCallErr(t)
    BY <2>7, SMT DEF StartCallErr
  <2>8. CASE StartPid(t)
    BY <2>8, SMT DEF StartPid
  <2>9. CASE StartDone(t)
    BY <2>9, SMT DEF StartDone
  <2>10. CASE StartStop(t)
    BY <2>10, SMT DEF StartStop
  <2>11. CASE StartEvent(t)
    BY <2>11, SMT DEF StartEvent
  <2>12. CASE StartSpawn(t)
    BY <2>12, SMT DEF StartSpawn
  <2>13. CASE KillCall(t)
    BY <2>13, SMT DEF KillCall
  <2>14. CASE DeleteCallOk(t)
    BY <2>14, SMT DEF DeleteCallOk
  <2>15. CASE DeleteCallErr(t)
    BY <2>15, SMT DEF DeleteCallErr
  <2>16. CASE DeleteCode(t)
    BY <2>16, SMT DEF DeleteCode
  <2>17. CASE DeleteRemove(t)
    BY <2>17, SMT DEF DeleteRemove
  <2>18. CASE DeleteEvent(t)
    BY <2>18, SMT DEF DeleteEvent
  <2>19. CASE WaitWake(t)
    BY <2>19, SMT DEF WaitWake
  <2>20. CASE StatePid(t)
    BY <2>20, SMT DEF StatePid
  <2>21. CASE StateCode(t)
    BY <2>21, SMT DEF StateCode
  <2>22. CASE StateReply(t)
    BY <2>22, SMT DEF StateReply
  <2>23. CASE ShutdownSignal(t)
    BY <2>23, SMT DEF ShutdownSignal
  <2>24. CASE StartPanic(t)
    BY <2>24, SMT DEF StartPanic
  <2> QED
        BY <1>3, <2>1, <2>2, <2>3, <2>4, <2>5, <2>6, <2>7, <2>8, <2>9, <2>10,
       <2>11, <2>12, <2>13, <2>14, <2>15, <2>16, <2>17, <2>18, <2>19, <2>20,
       <2>21, <2>22, <2>23, <2>24 DEF Step
<1> QED
  BY <1>1, <1>2, <1>3

\* The wait thread changes a state only when nobody holds its lock.
LEMMA BackgroundInner ==
  ASSUME TypeOK, HasObj, InnerTransitionsOk, NEW o \in Objs,
         Background(o) \/ WaiterMark(o) \/ ReapError(o) \/ ProcExit(o)
  PROVE  InnerTransitionsOk'
<1>0. Shaped
  BY DEF TypeOK, Shaped
<1> USE <1>0 DEF Shaped, HasObj, InnerTransitionsOk, InnerTransitionOk
<1> SUFFICES ASSUME NEW u \in Threads PROVE InnerTransitionOk(u)'
  OBVIOUS
<1>1. CASE Reap(o)
  BY <1>1 DEF Reap
<1>2. CASE GuardDrop(o)
  BY <1>2 DEF GuardDrop
<1>3. CASE WaiterWake(o)
  BY <1>3 DEF WaiterWake
<1>4. CASE WaiterSend(o)
  BY <1>4 DEF WaiterSend
<1>5. CASE WaiterMark(o)
  BY <1>5, SMT DEF WaiterMark
<1>6. CASE ReapError(o)
  BY <1>6 DEF ReapError
<1>7. CASE ProcExit(o)
  BY <1>7 DEF ProcExit
<1> QED
  BY <1>1, <1>2, <1>3, <1>4, <1>5, <1>6, <1>7 DEF Background

\* Setting the exit code leaves it set, and agrees with whoever read it before.
LEMMA CodesKept ==
  ASSUME TypeOK, HasObj, CodesAgree, NEW o \in Objs, NEW c \in Codes, SetExit(o, c)
  PROVE  /\ exit'[o] # NoCode
         /\ \A p \in Objs : exit[p] # NoCode => exit'[p] # NoCode
         /\ \A p \in Objs : reported[p] \subseteq {exit'[p]}
         /\ \A u \in Threads : rcode[u] # NoCode => rcode[u] = exit'[robj[u]]
<1>1. NoCode \notin Codes
  BY 0 \in Nat, 137 \in Nat DEF Codes
<1>2. \A p \in Objs : exit[p] # NoCode => exit'[p] = exit[p]
  BY DEF TypeOK
<1>3. \A p \in Objs : exit[p] = NoCode => reported[p] = {}
  BY <1>1, SMT DEF TypeOK, CodesAgree, CodeKnown
<1>4. \A u \in Threads : rcode[u] # NoCode => robj[u] \in Objs /\ exit[robj[u]] # NoCode
  BY DEF TypeOK, HasObj, CodesAgree, CodeRead
<1>5. exit'[o] # NoCode
  BY <1>1 DEF TypeOK
<1> QED
  BY <1>2, <1>3, <1>4, <1>5 DEF TypeOK, CodesAgree, CodeRead, CodeKnown


\* A step of a handler thread keeps the exit codes in agreement.
LEMMA ThreadCodes ==
  ASSUME TypeOK, HasObj, CodesAgree, NEW t \in Threads,
         Arrive(t) \/ LockStep(t) \/ Step(t)
  PROVE  CodesAgree'
<1>0. ShapedCodes
  BY DEF TypeOK, Shaped, ShapedCodes
<1> USE <1>0 DEF Shaped, ShapedCodes, HasObj, CodesAgree, CodeRead, CodeKnown, Return, Report
<1>1. CASE Arrive(t)
  <2>1. CASE \E i \in Ids : CreateCheck(t, i)
    BY <2>1, SMT DEF CreateCheck
  <2>2. ASSUME NEW r, NEW l \in {"s_lock", "k_lock", "d_lock", "w_wait", "q_pid"},
               get_instance(t, r, l)
        PROVE  CodesAgree'
    BY <2>2 DEF get_instance
  <2>3. CASE ShutdownCheck(t)
    BY <2>3 DEF ShutdownCheck
  <2> QED
    BY <1>1, <2>1, <2>2, <2>3
       DEF Arrive, StartGet, KillGet, DeleteGet, WaitGet, StateGet
<1>2. CASE LockStep(t)
  <2>1. CASE StartLock(t)
    BY <2>1 DEF StartLock
  <2>2. CASE StartRefused(t)
    BY <2>2 DEF StartRefused
  <2>3. CASE KillLock(t)
    BY <2>3 DEF KillLock
  <2>4. CASE KillRefused(t)
    BY <2>4 DEF KillRefused
  <2>5. CASE DeleteLock(t)
    BY <2>5 DEF DeleteLock
  <2>6. CASE DeleteRefused(t)
    BY <2>6 DEF DeleteRefused
  <2>7. CASE DeleteMark(t)
    BY <2>7 DEF DeleteMark
  <2>8. CASE WaitMark(t)
    BY <2>8 DEF WaitMark
  <2>9. CASE StateMark(t)
    BY <2>9 DEF StateMark
  <2> QED
        BY <1>2, <2>1, <2>2, <2>3, <2>4, <2>5, <2>6, <2>7, <2>8, <2>9 DEF LockStep
<1>3. CASE Step(t)
  <2>1. CASE CreateFail(t)
    BY <2>1, SMT DEF CreateFail
  <2>2. CASE CreateNew(t)
    BY <2>2 DEF CreateNew
  <2>3. CASE CreateInsert(t)
    BY <2>3 DEF CreateInsert
  <2>4. CASE CreateEvent(t)
    BY <2>4 DEF CreateEvent
  <2>5. CASE CreateHooks(t)
    BY <2>5, SMT DEF CreateHooks
  <2>6. CASE StartCallOk(t)
    BY <2>6 DEF StartCallOk
  <2>7. CASE StartCallErr(t)
    <3>1. robj[t] \in Objs /\ 137 \in Codes /\ SetExit(robj[t], 137)
      BY <2>7 DEF StartCallErr, Codes
    <3> HIDE DEF SetExit
    <3> QED
      BY <2>7, <3>1, CodesKept, SMT DEF StartCallErr
  <2>8. CASE StartPid(t)
    BY <2>8 DEF StartPid
  <2>9. CASE StartDone(t)
    BY <2>9 DEF StartDone
  <2>10. CASE StartStop(t)
    BY <2>10 DEF StartStop
  <2>11. CASE StartEvent(t)
    BY <2>11 DEF StartEvent
  <2>12. CASE StartSpawn(t)
    BY <2>12, SMT DEF StartSpawn
  <2>13. CASE KillCall(t)
    BY <2>13 DEF KillCall
  <2>14. CASE DeleteCallOk(t)
    BY <2>14 DEF DeleteCallOk
  <2>15. CASE DeleteCallErr(t)
    BY <2>15, SMT DEF DeleteCallErr
  <2>16. CASE DeleteCode(t)
    BY <2>16 DEF DeleteCode
  <2>17. CASE DeleteRemove(t)
    BY <2>17 DEF DeleteRemove
  <2>18. CASE DeleteEvent(t)
    BY <2>18 DEF DeleteEvent
  <2>19. CASE WaitWake(t)
    BY <2>19, SMT DEF WaitWake
  <2>20. CASE StatePid(t)
    BY <2>20 DEF StatePid
  <2>21. CASE StateCode(t)
    BY <2>21, SMT DEF StateCode
  <2>22. CASE StateReply(t)
    BY <2>22, SMT DEF StateReply
  <2>23. CASE ShutdownSignal(t)
    BY <2>23 DEF ShutdownSignal
  <2>24. CASE StartPanic(t)
    BY <2>24 DEF StartPanic
  <2> QED
        BY <1>3, <2>1, <2>2, <2>3, <2>4, <2>5, <2>6, <2>7, <2>8, <2>9, <2>10,
       <2>11, <2>12, <2>13, <2>14, <2>15, <2>16, <2>17, <2>18, <2>19, <2>20,
       <2>21, <2>22, <2>23, <2>24 DEF Step
<1> QED
  BY <1>1, <1>2, <1>3

\* So does a step of the process, the reaper or the wait thread.
LEMMA BackgroundCodes ==
  ASSUME TypeOK, HasObj, CodesAgree, NEW o \in Objs,
         Background(o) \/ WaiterMark(o) \/ ReapError(o) \/ ProcExit(o)
  PROVE  CodesAgree'
<1>0. ShapedCodes
  BY DEF TypeOK, Shaped, ShapedCodes
<1> USE <1>0 DEF Shaped, ShapedCodes, HasObj, CodesAgree, CodeRead, CodeKnown, Report
<1>1. CASE Reap(o)
  <2>1. PICK c \in Codes : SetExit(o, c)
    BY <1>1 DEF Reap, Codes
  <2> HIDE DEF SetExit
  <2> QED
    BY <1>1, <2>1, CodesKept, SMT DEF Reap
<1>2. CASE GuardDrop(o)
  BY <1>2, SMT DEF GuardDrop
<1>3. CASE WaiterWake(o)
  BY <1>3 DEF WaiterWake
<1>4. CASE WaiterSend(o)
  BY <1>4 DEF WaiterSend
<1>5. CASE WaiterMark(o)
  BY <1>5 DEF WaiterMark
<1>6. CASE ReapError(o)
  <2>1. PICK c \in Codes : SetExit(o, c)
    BY <1>6 DEF ReapError, Codes
  <2> HIDE DEF SetExit
  <2> QED
    BY <1>6, <2>1, CodesKept, SMT DEF ReapError
<1>7. CASE ProcExit(o)
  BY <1>7 DEF ProcExit
<1> QED
  BY <1>1, <1>2, <1>3, <1>4, <1>5, <1>6, <1>7 DEF Background

=============================================================================
