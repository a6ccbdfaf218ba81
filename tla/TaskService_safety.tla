------------------------- MODULE TaskService_safety -------------------------
(***************************************************************************)
(* The safety properties of TaskService, for any sets of threads, ids and  *)
(* instances and whatever RPCs arrive, that the service implements         *)
(* TaskLifecycle, and that the status that it tells does not go back.  In  *)
(* its event stream an exit follows its start and each is told once, and a *)
(* deleted instance is not in its map.                                     *)
(***************************************************************************)
EXTENDS TaskService_proofs

USE ServiceAssumption, Zenon DEF Goto, At, Stay, Mark, SetExit, SetExited,
        ReadCode, CanStart, CanKill, CanDelete, Started, Stop,
        service, data, inst, local, ghosts

-----------------------------------------------------------------------------
(* What the state, the exit code, the process and the history of an        *)
(* instance say of each other is preserved by every step.                  *)

\* A step changes what History says of no instance but o, and of no thread but t.
Touches(o) ==
  \A p \in Objs \ {o} :
    /\ state'[p] = state[p] /\ lock'[p] = lock[p] /\ pid'[p] = pid[p]
    /\ exit'[p] = exit[p] /\ proc'[p] = proc[p] /\ reaper'[p] = reaper[p]
    /\ hist'[p] = hist[p]

Moves(t) == \A u \in Threads \ {t} : pc'[u] = pc[u] /\ robj'[u] = robj[u]

Quiet == UNCHANGED <<state, lock, pid, exit, proc, reaper, hist>>

\* Nobody but t is inside the start of o.
Alone(t, o) == \A u \in Threads \ {t} : pc[u] \in Starting => robj[u] # o

\* History follows from what it says of the thread and the instance of a step.
LEMMA ThreadFrame ==
  ASSUME History, HasObj, NEW t \in Threads, NEW o \in Objs,
         Touches(o), Moves(t), Alone(t, o), pc[t] = "s_pid" => robj[t] = o,
         StartingHistory(t)', StateHistory(o)'
  PROVE  History'
<1>1. ASSUME NEW u \in Threads \ {t} PROVE StartingHistory(u)'
  <2>1. StartingHistory(u) /\ (pc[u] \in Starting => robj[u] \in Objs \ {o})
    BY DEF History, HasObj, Alone, Starting
  <2>2. pc'[u] = pc[u] /\ robj'[u] = robj[u]
    BY DEF Moves
  <2>3. CASE pc[u] \in Starting
    <3>1. PICK p \in Objs \ {o} : p = robj[u]
      BY <2>1, <2>3
    <3>2. hist'[p] = hist[p] /\ exit'[p] = exit[p] /\ pid'[p] = pid[p]
      BY DEF Touches
    <3> QED
      BY <2>1, <2>2, <3>1, <3>2 DEF StartingHistory
  <2>4. CASE pc[u] \notin Starting
    BY <2>2, <2>4 DEF StartingHistory, Starting
  <2> QED
    BY <2>3, <2>4
<1>2. ASSUME NEW p \in Objs \ {o} PROVE StateHistory(p)'
  <2>1. StateHistory(p)
    BY DEF History
  <2> QED
    BY <2>1, SMT DEF StateHistory, Moves, Touches
<1> QED
  BY <1>1, <1>2 DEF History

\* The same for a step that no handler thread takes.
LEMMA BackFrame ==
  ASSUME History, HasObj, NEW o \in Objs, Touches(o), UNCHANGED <<pc, robj>>,
         \A u \in Threads : robj[u] = o => StartingHistory(u)', StateHistory(o)'
  PROVE  History'
<1>1. ASSUME NEW u \in Threads, robj[u] # o PROVE StartingHistory(u)'
  <2>1. StartingHistory(u) /\ (pc[u] \in Starting => robj[u] \in Objs \ {o})
    BY <1>1 DEF History, HasObj, Starting
  <2> QED
    BY <2>1 DEF StartingHistory, Touches, Starting
<1>2. ASSUME NEW p \in Objs \ {o} PROVE StateHistory(p)'
  <2>1. StateHistory(p)
    BY DEF History
  <2> QED
    BY <2>1 DEF StateHistory, Touches
<1> QED
  BY <1>1, <1>2 DEF History

\* A step outside start that changes no instance.
LEMMA QuietHistory ==
  ASSUME History, NEW t \in Threads, Quiet, Moves(t),
         pc[t] \notin Starting, pc'[t] \notin Starting
  PROVE  History'
<1>1. ASSUME NEW u \in Threads PROVE StartingHistory(u)'
  <2>1. StartingHistory(u)
    BY DEF History
  <2> QED
    BY <2>1 DEF StartingHistory, Moves, Quiet, Starting
<1>2. ASSUME NEW p \in Objs PROVE StateHistory(p)'
  <2>1. StateHistory(p)
    BY DEF History
  <2> QED
    BY <2>1 DEF StateHistory, Moves, Quiet, Starting
<1> QED
  BY <1>1, <1>2 DEF History

\* The exit code that a failed start sets.
LEMMA ErrCode == 137 # NoCode
  BY 0 \in Nat, 137 \in Nat DEF Codes

\* What the invariants say of a thread's instance.
LEMMA Local ==
  ASSUME HasObj, InnerTransitionsOk, History, NEW t \in Threads,
         pc[t] \notin {"idle", "c_new", "x_signal"}
  PROVE  /\ robj[t] \in Objs
         /\ StartingHistory(t) /\ StateHistory(robj[t]) /\ InnerTransitionOk(t)
         /\ lock[robj[t]] \in {t, NoThread} => Alone(t, robj[t])
<1>1. /\ robj[t] \in Objs
      /\ StartingHistory(t) /\ StateHistory(robj[t]) /\ InnerTransitionOk(t)
  BY DEF HasObj, History, InnerTransitionsOk
<1>2. \A u \in Threads : pc[u] \in Starting => lock[robj[u]] = u
  BY DEF InnerTransitionsOk, InnerTransitionOk, Starting
<1> QED
  BY <1>1, <1>2 DEF Alone

\* The unconditional Exited of a thread that knows the exit code.
LEMMA ExitedHistory ==
  ASSUME History, HasObj, InnerTransitionsOk, CodesAgree, Shaped, NEW t \in Threads,
         pc[t] \in {"w_mark", "d_mark", "q_mark"}, SetExited(robj[t]),
         UNCHANGED <<exit, proc, reaper>>,
         hist' = hist \/ Mark(robj[t], "waited"), Moves(t), pc'[t] \notin Starting
  PROVE  History'
<1>0. PICK o \in Objs : o = robj[t]
  BY DEF HasObj
<1>1. StateHistory(o) /\ Alone(t, o) /\ exit[o] # NoCode
  BY <1>0, Local DEF CodesAgree, CodeRead
<1>2. /\ state'[o] = "Exited" /\ lock[o] = NoThread
      /\ hist'[o] \in {hist[o], hist[o] \cup {"waited"}}
      /\ UNCHANGED <<lock, pid, exit, proc, reaper>>
  BY <1>0 DEF Shaped
<1>3. Touches(o)
  BY <1>0 DEF Touches, Shaped
<1>4. StateHistory(o)'
  BY <1>1, <1>2 DEF StateHistory
<1>5. StartingHistory(t)'
  BY DEF StartingHistory, Starting
<1> QED
  BY <1>1, <1>3, <1>4, <1>5, ThreadFrame

\* A step of a handler thread keeps state and history in agreement.
LEMMA ThreadHistory ==
  ASSUME TypeOK, HasObj, InnerTransitionsOk, CodesAgree, History, NEW t \in Threads,
         Arrive(t) \/ LockStep(t) \/ Step(t)
  PROVE  History'
<1>0. Shaped
  BY DEF TypeOK, Shaped
<1>1. CASE Arrive(t)
  <2>1. CASE \E i \in Ids : CreateCheck(t, i)
    BY <1>0, <2>1, QuietHistory DEF CreateCheck, Shaped, Quiet, Moves, Starting
  <2>2. ASSUME NEW r, NEW l \in {"s_lock", "k_lock", "d_lock", "w_wait", "q_pid"},
               get_instance(t, r, l)
        PROVE  History'
    BY <1>0, <2>2, QuietHistory DEF get_instance, Shaped, Quiet, Moves, Starting
  <2>3. CASE ShutdownCheck(t)
    BY <1>0, <2>3, QuietHistory DEF ShutdownCheck, Shaped, Quiet, Moves, Starting
  <2> QED
    BY <1>1, <2>1, <2>2, <2>3
       DEF Arrive, StartGet, KillGet, DeleteGet, WaitGet, StateGet
<1>2. CASE LockStep(t)
  <2>1. CASE StartLock(t)
    <3>0. PICK o \in Objs : o = robj[t]
      BY <2>1 DEF StartLock, HasObj
    <3>1. /\ StartingHistory(t) /\ StateHistory(o) /\ InnerTransitionOk(t)
          /\ lock[o] \in {t, NoThread} /\ Alone(t, o)
      BY <2>1, <3>0, Local DEF StartLock, InnerTransitionOk
    <3>2. Touches(o) /\ Moves(t)
      BY <1>0, <2>1, <3>0 DEF StartLock, Shaped, Touches, Moves
    <3>3. /\ state'[o] = "Starting" /\ lock'[o] = t
          /\ pc'[t] = "s_call" /\ robj' = robj
          /\ UNCHANGED <<pid, exit, proc, reaper, hist>>
      BY <1>0, <2>1, <3>0, <3>1 DEF StartLock, Shaped, StartingHistory, InnerTransitionOk
    <3>4. pc[t] = "s_lock" /\ lock[o] = NoThread /\ state[o] = "Created"
      BY <2>1, <3>0, <3>1 DEF StartLock, InnerTransitionOk, StartingHistory
    <3>5. StateHistory(o)'
      BY <3>0, <3>1, <3>3, <3>4 DEF StateHistory
    <3>6. StartingHistory(t)'
      BY <3>0, <3>1, <3>3, <3>4 DEF StartingHistory, StateHistory
    <3> QED
      BY <3>0, <3>1, <3>2, <3>5, <3>6, ThreadFrame
  <2>2. CASE StartRefused(t)
    BY <1>0, <2>2, QuietHistory DEF StartRefused, Return, Shaped, Quiet, Moves, Starting
  <2>3. CASE KillLock(t)
    <3>0. PICK o \in Objs : o = robj[t]
      BY <2>3 DEF KillLock, HasObj
    <3>1. /\ StartingHistory(t) /\ StateHistory(o) /\ InnerTransitionOk(t)
          /\ lock[o] \in {t, NoThread} /\ Alone(t, o)
      BY <2>3, <3>0, Local DEF KillLock, InnerTransitionOk
    <3>2. Touches(o) /\ Moves(t)
      BY <1>0, <2>3, <3>0 DEF KillLock, Shaped, Touches, Moves
    <3>3. /\ lock'[o] = t
          /\ pc'[t] = "k_call" /\ robj' = robj
          /\ UNCHANGED <<state, pid, exit, proc, reaper, hist>>
      BY <1>0, <2>3, <3>0, <3>1 DEF KillLock, Shaped, StartingHistory, InnerTransitionOk
    <3>4. pc[t] = "k_lock" /\ lock[o] = NoThread
      BY <2>3, <3>0, <3>1 DEF KillLock, InnerTransitionOk, StartingHistory
    <3>5. StateHistory(o)'
      BY <3>0, <3>1, <3>3, <3>4 DEF StateHistory
    <3>6. StartingHistory(t)'
      BY <3>0, <3>3, <3>4 DEF StartingHistory
    <3> QED
      BY <3>0, <3>1, <3>2, <3>5, <3>6, ThreadFrame
  <2>4. CASE KillRefused(t)
    BY <1>0, <2>4, QuietHistory DEF KillRefused, Return, Shaped, Quiet, Moves, Starting
  <2>5. CASE DeleteLock(t)
    <3>0. PICK o \in Objs : o = robj[t]
      BY <2>5 DEF DeleteLock, HasObj
    <3>1. /\ StartingHistory(t) /\ StateHistory(o) /\ InnerTransitionOk(t)
          /\ lock[o] \in {t, NoThread} /\ Alone(t, o)
      BY <2>5, <3>0, Local DEF DeleteLock, InnerTransitionOk
    <3>2. Touches(o) /\ Moves(t)
      BY <1>0, <2>5, <3>0 DEF DeleteLock, Shaped, Touches, Moves
    <3>3. /\ state'[o] = "Deleting" /\ lock'[o] = t
          /\ pc'[t] = "d_call" /\ robj' = robj
          /\ UNCHANGED <<pid, exit, proc, reaper, hist>>
      BY <1>0, <2>5, <3>0, <3>1 DEF DeleteLock, Shaped, StartingHistory, InnerTransitionOk
    <3>4. pc[t] = "d_lock" /\ lock[o] = NoThread /\ state[o] \in {"Created", "Exited"}
      BY <2>5, <3>0, <3>1 DEF DeleteLock, InnerTransitionOk, StartingHistory
    <3>5. StateHistory(o)'
      BY <3>0, <3>1, <3>3, <3>4 DEF StateHistory
    <3>6. StartingHistory(t)'
      BY <3>0, <3>3, <3>4 DEF StartingHistory
    <3> QED
      BY <3>0, <3>1, <3>2, <3>5, <3>6, ThreadFrame
  <2>6. CASE DeleteRefused(t)
    BY <1>0, <2>6, QuietHistory DEF DeleteRefused, Return, Shaped, Quiet, Moves, Starting
  <2>7. CASE DeleteMark(t)
    <3>1. /\ pc[t] \in {"w_mark", "d_mark", "q_mark"} /\ SetExited(robj[t])
          /\ UNCHANGED <<exit, proc, reaper>>
          /\ hist' = hist
      BY <2>7 DEF DeleteMark
    <3>2. Moves(t) /\ pc'[t] \notin Starting
      BY <1>0, <2>7 DEF DeleteMark, Return, Shaped, Moves, Starting
    <3> HIDE DEF SetExited, Mark
    <3> QED
      BY <1>0, <3>1, <3>2, ExitedHistory
  <2>8. CASE WaitMark(t)
    <3>1. /\ pc[t] \in {"w_mark", "d_mark", "q_mark"} /\ SetExited(robj[t])
          /\ UNCHANGED <<exit, proc, reaper>>
          /\ Mark(robj[t], "waited")
      BY <2>8 DEF WaitMark
    <3>2. Moves(t) /\ pc'[t] \notin Starting
      BY <1>0, <2>8 DEF WaitMark, Return, Shaped, Moves, Starting
    <3> HIDE DEF SetExited, Mark
    <3> QED
      BY <1>0, <3>1, <3>2, ExitedHistory
  <2>9. CASE StateMark(t)
    <3>1. /\ pc[t] \in {"w_mark", "d_mark", "q_mark"} /\ SetExited(robj[t])
          /\ UNCHANGED <<exit, proc, reaper>>
          /\ hist' = hist
      BY <2>9 DEF StateMark
    <3>2. Moves(t) /\ pc'[t] \notin Starting
      BY <1>0, <2>9 DEF StateMark, Return, Shaped, Moves, Starting
    <3> HIDE DEF SetExited, Mark
    <3> QED
      BY <1>0, <3>1, <3>2, ExitedHistory
  <2> QED
    BY <1>2, <2>1, <2>2, <2>3, <2>4, <2>5, <2>6, <2>7, <2>8, <2>9 DEF LockStep
<1>3. CASE Step(t)
  <2>1. CASE CreateFail(t)
    BY <1>0, <2>1, QuietHistory DEF CreateFail, Return, Shaped, Quiet, Moves, Starting
  <2>2. CASE CreateNew(t)
    <3>1. PICK o \in Objs : /\ state[o] = "free"
                            /\ state' = [state EXCEPT ![o] = "Created"]
                            /\ proc' = [proc EXCEPT ![o] = "created"]
                            /\ robj' = [robj EXCEPT ![t] = o]
      BY <2>2 DEF CreateNew
    <3>2. UNCHANGED <<lock, pid, exit, reaper, hist>> /\ Goto(t, "c_insert") /\ pc[t] = "c_new"
      BY <2>2 DEF CreateNew
    <3>3. Touches(o) /\ Moves(t) /\ state'[o] = "Created" /\ proc'[o] = "created"
          /\ pc'[t] = "c_insert"
      BY <1>0, <3>1, <3>2 DEF Shaped, Touches, Moves
    <3>4. Alone(t, o)
      BY <3>1 DEF InnerTransitionsOk, InnerTransitionOk, Alone, Starting
    <3>5. StateHistory(o)
      BY DEF History
    <3>6. StateHistory(o)'
      BY <3>1, <3>2, <3>3, <3>5 DEF StateHistory
    <3> QED
      BY <3>2, <3>3, <3>4, <3>6, ThreadFrame DEF StartingHistory
  <2>3. CASE CreateInsert(t)
    BY <1>0, <2>3, QuietHistory DEF CreateInsert, Return, Shaped, Quiet, Moves, Starting
  <2>4. CASE CreateEvent(t)
    BY <1>0, <2>4, QuietHistory DEF CreateEvent, Return, Shaped, Quiet, Moves, Starting
  <2>5. CASE CreateHooks(t)
    BY <1>0, <2>5, QuietHistory DEF CreateHooks, Return, Shaped, Quiet, Moves, Starting
  <2>6. CASE StartCallOk(t)
    <3>0. PICK o \in Objs : o = robj[t]
      BY <2>6 DEF StartCallOk, HasObj
    <3>1. /\ StartingHistory(t) /\ StateHistory(o) /\ InnerTransitionOk(t)
          /\ lock[o] \in {t, NoThread} /\ Alone(t, o)
      BY <2>6, <3>0, Local DEF StartCallOk, InnerTransitionOk
    <3>2. Touches(o) /\ Moves(t)
      BY <1>0, <2>6, <3>0 DEF StartCallOk, Shaped, Touches, Moves
    <3>3. /\ proc'[o] = "running" /\ reaper'[o] = "waiting" /\ hist'[o] = {"start", "up"}
          /\ pc'[t] = "s_pid" /\ robj' = robj
          /\ UNCHANGED <<state, lock, pid, exit>>
      BY <1>0, <2>6, <3>0, <3>1 DEF StartCallOk, Shaped, StartingHistory, InnerTransitionOk
    <3>4. /\ pc[t] = "s_call" /\ state[o] = "Starting" /\ lock[o] = t
          /\ hist[o] = {} /\ exit[o] = NoCode
      BY <2>6, <3>0, <3>1 DEF StartCallOk, InnerTransitionOk, StartingHistory
    <3>5. StateHistory(o)'
      BY <3>0, <3>1, <3>3, <3>4 DEF StateHistory
    <3>6. "up" \in hist'[o] /\ "delete" \notin hist'[o]
      BY <3>3
    <3>7. StartingHistory(t)'
      BY <3>0, <3>3, <3>6 DEF StartingHistory
    <3> QED
      BY <3>0, <3>1, <3>2, <3>5, <3>7, ThreadFrame
  <2>7. CASE StartCallErr(t)
    <3>0. PICK o \in Objs : o = robj[t]
      BY <2>7 DEF StartCallErr, HasObj
    <3>1. /\ StartingHistory(t) /\ StateHistory(o) /\ InnerTransitionOk(t)
          /\ lock[o] \in {t, NoThread} /\ Alone(t, o)
      BY <2>7, <3>0, Local DEF StartCallErr, InnerTransitionOk
    <3>2. Touches(o) /\ Moves(t)
      BY <1>0, <2>7, <3>0, SMT DEF StartCallErr, Shaped, Touches, Moves
    <3>3. /\ exit'[o] # NoCode
          /\ \/ hist'[o] = {"start"} /\ proc'[o] = proc[o]
             \/ hist'[o] = {"start", "lost"} /\ proc'[o] = "running"
          /\ pc'[t] = "s_stop" /\ robj' = robj
          /\ UNCHANGED <<state, lock, pid, reaper>>
      BY <1>0, <2>7, <3>0, <3>1, ErrCode DEF StartCallErr, Shaped, StartingHistory, InnerTransitionOk
    <3>4. /\ pc[t] = "s_call" /\ state[o] = "Starting" /\ lock[o] = t
          /\ hist[o] = {} /\ exit[o] = NoCode
      BY <2>7, <3>0, <3>1 DEF StartCallErr, InnerTransitionOk, StartingHistory
    <3>5. StateHistory(o)'
      BY <3>0, <3>1, <3>3, <3>4 DEF StateHistory
    <3>6. StartingHistory(t)'
      BY <3>0, <3>3, <3>4 DEF StartingHistory
    <3> QED
      BY <3>0, <3>1, <3>2, <3>5, <3>6, ThreadFrame
  <2>8. CASE StartPid(t)
    <3>0. PICK o \in Objs : o = robj[t]
      BY <2>8 DEF StartPid, HasObj
    <3>1. /\ StartingHistory(t) /\ StateHistory(o) /\ InnerTransitionOk(t)
          /\ lock[o] \in {t, NoThread} /\ Alone(t, o)
      BY <2>8, <3>0, Local DEF StartPid, InnerTransitionOk
    <3>2. Touches(o) /\ Moves(t)
      BY <1>0, <2>8, <3>0 DEF StartPid, Shaped, Touches, Moves
    <3>3. /\ pid'[o] = TRUE
          /\ pc'[t] = "s_started" /\ robj' = robj
          /\ UNCHANGED <<state, lock, exit, proc, reaper, hist>>
      BY <1>0, <2>8, <3>0, <3>1 DEF StartPid, Shaped, StartingHistory, InnerTransitionOk
    <3>4. /\ pc[t] = "s_pid" /\ state[o] = "Starting" /\ lock[o] = t
          /\ "up" \in hist[o] /\ "delete" \notin hist[o]
      BY <2>8, <3>0, <3>1 DEF StartPid, InnerTransitionOk, StartingHistory
    <3>5. StateHistory(o)'
      BY <3>0, <3>1, <3>3, <3>4 DEF StateHistory
    <3>6. StartingHistory(t)'
      BY <3>0, <3>3, <3>4 DEF StartingHistory
    <3> QED
      BY <3>0, <3>1, <3>2, <3>5, <3>6, ThreadFrame
  <2>9. CASE StartDone(t)
    <3>0. PICK o \in Objs : o = robj[t]
      BY <2>9 DEF StartDone, HasObj
    <3>1. /\ StartingHistory(t) /\ StateHistory(o) /\ InnerTransitionOk(t)
          /\ lock[o] \in {t, NoThread} /\ Alone(t, o)
      BY <2>9, <3>0, Local DEF StartDone, InnerTransitionOk
    <3>2. Touches(o) /\ Moves(t)
      BY <1>0, <2>9, <3>0 DEF StartDone, Shaped, Touches, Moves
    <3>3. /\ state'[o] = "Started" /\ lock'[o] = NoThread
          /\ pc'[t] = "s_event" /\ robj' = robj
          /\ UNCHANGED <<pid, exit, proc, reaper, hist>>
      BY <1>0, <2>9, <3>0, <3>1 DEF StartDone, Shaped, StartingHistory, InnerTransitionOk
    <3>4. /\ pc[t] = "s_started" /\ state[o] = "Starting" /\ lock[o] = t
          /\ "up" \in hist[o] /\ "delete" \notin hist[o] /\ pid[o]
      BY <2>9, <3>0, <3>1 DEF StartDone, InnerTransitionOk, StartingHistory
    <3>5. StateHistory(o)'
      BY <3>0, <3>1, <3>3, <3>4 DEF StateHistory
    <3>6. StartingHistory(t)'
      BY <3>0, <3>3, <3>4 DEF StartingHistory
    <3> QED
      BY <3>0, <3>1, <3>2, <3>5, <3>6, ThreadFrame
  <2>10. CASE StartStop(t)
    <3>0. PICK o \in Objs : o = robj[t]
      BY <2>10 DEF StartStop, HasObj
    <3>1. /\ StartingHistory(t) /\ StateHistory(o) /\ InnerTransitionOk(t)
          /\ lock[o] \in {t, NoThread} /\ Alone(t, o)
      BY <2>10, <3>0, Local DEF StartStop, InnerTransitionOk
    <3>2. Touches(o) /\ Moves(t)
      BY <1>0, <2>10, <3>0 DEF StartStop, Return, Shaped, Touches, Moves
    <3>3. /\ state'[o] = "Exited" /\ lock'[o] = NoThread
          /\ pc'[t] = "idle"
          /\ UNCHANGED <<pid, exit, proc, reaper, hist>>
      BY <1>0, <2>10, <3>0, <3>1 DEF StartStop, Return, Shaped, StartingHistory, InnerTransitionOk
    <3>4. /\ pc[t] = "s_stop" /\ state[o] = "Starting" /\ lock[o] = t
          /\ exit[o] # NoCode
      BY <2>10, <3>0, <3>1 DEF StartStop, InnerTransitionOk, StartingHistory
    <3>5. StateHistory(o)'
      BY <3>0, <3>1, <3>3, <3>4 DEF StateHistory
    <3>6. StartingHistory(t)'
      BY <3>0, <3>3, <3>4 DEF StartingHistory
    <3> QED
      BY <3>0, <3>1, <3>2, <3>5, <3>6, ThreadFrame
  <2>11. CASE StartEvent(t)
    BY <1>0, <2>11, QuietHistory DEF StartEvent, Return, Shaped, Quiet, Moves, Starting
  <2>12. CASE StartSpawn(t)
    BY <1>0, <2>12, QuietHistory DEF StartSpawn, Return, Shaped, Quiet, Moves, Starting
  <2>13. CASE KillCall(t)
    <3>0. PICK o \in Objs : o = robj[t]
      BY <2>13 DEF KillCall, HasObj
    <3>1. /\ StartingHistory(t) /\ StateHistory(o) /\ InnerTransitionOk(t)
          /\ lock[o] \in {t, NoThread} /\ Alone(t, o)
      BY <2>13, <3>0, Local DEF KillCall, InnerTransitionOk
    <3>2. Touches(o) /\ Moves(t)
      BY <1>0, <2>13, <3>0 DEF KillCall, Return, Shaped, Touches, Moves
    <3>3. /\ lock'[o] = NoThread /\ proc'[o] \in {"dead", proc[o]}
          /\ pc'[t] = "idle"
          /\ UNCHANGED <<state, pid, exit, reaper, hist>>
      BY <1>0, <2>13, <3>0, <3>1 DEF KillCall, Return, Shaped, StartingHistory, InnerTransitionOk
    <3>4. pc[t] = "k_call" /\ state[o] = "Started" /\ lock[o] = t
      BY <2>13, <3>0, <3>1 DEF KillCall, InnerTransitionOk, StartingHistory
    <3>5. StateHistory(o)'
      BY <3>0, <3>1, <3>3, <3>4 DEF StateHistory
    <3>6. StartingHistory(t)'
      BY <3>0, <3>3, <3>4 DEF StartingHistory
    <3> QED
      BY <3>0, <3>1, <3>2, <3>5, <3>6, ThreadFrame
  <2>14. CASE DeleteCallOk(t)
    <3>0. PICK o \in Objs : o = robj[t]
      BY <2>14 DEF DeleteCallOk, HasObj
    <3>1. /\ StartingHistory(t) /\ StateHistory(o) /\ InnerTransitionOk(t)
          /\ lock[o] \in {t, NoThread} /\ Alone(t, o)
      BY <2>14, <3>0, Local DEF DeleteCallOk, InnerTransitionOk
    <3>2. Touches(o) /\ Moves(t)
      BY <1>0, <2>14, <3>0 DEF DeleteCallOk, Shaped, Touches, Moves
    <3>3. /\ lock'[o] = NoThread /\ proc'[o] = "gone" /\ "delete" \in hist'[o]
          /\ \A m : m # "delete" => (m \in hist'[o]) = (m \in hist[o])
          /\ pc'[t] = "d_code" /\ robj' = robj
          /\ UNCHANGED <<state, pid, exit, reaper>>
      BY <1>0, <2>14, <3>0, <3>1, SMT DEF DeleteCallOk, Shaped, StartingHistory, InnerTransitionOk
    <3>4. pc[t] = "d_call" /\ state[o] = "Deleting" /\ lock[o] = t
      BY <2>14, <3>0, <3>1 DEF DeleteCallOk, InnerTransitionOk, StartingHistory
    <3>5. StateHistory(o)'
      BY <3>0, <3>1, <3>3, <3>4 DEF StateHistory
    <3>6. StartingHistory(t)'
      BY <3>0, <3>3, <3>4 DEF StartingHistory
    <3> QED
      BY <3>0, <3>1, <3>2, <3>5, <3>6, ThreadFrame
  <2>15. CASE DeleteCallErr(t)
    <3>0. PICK o \in Objs : o = robj[t]
      BY <2>15 DEF DeleteCallErr, HasObj
    <3>1. /\ StartingHistory(t) /\ StateHistory(o) /\ InnerTransitionOk(t)
          /\ lock[o] \in {t, NoThread} /\ Alone(t, o)
      BY <2>15, <3>0, Local DEF DeleteCallErr, InnerTransitionOk
    <3>2. Touches(o) /\ Moves(t)
      BY <1>0, <2>15, <3>0 DEF DeleteCallErr, Return, Shaped, Touches, Moves
    <3>3. /\ lock'[o] = NoThread /\ proc'[o] \in {"dead", proc[o]}
          /\ state'[o] = "Exited" /\ "delete" \in hist'[o]
          /\ \A m : m # "delete" => (m \in hist'[o]) = (m \in hist[o])
          /\ pc'[t] = "idle"
          /\ UNCHANGED <<pid, exit, reaper>>
      BY <1>0, <2>15, <3>0, <3>1, SMT DEF DeleteCallErr, Return, Shaped, StartingHistory, InnerTransitionOk
    <3>4. pc[t] = "d_call" /\ state[o] = "Deleting" /\ lock[o] = t
      BY <2>15, <3>0, <3>1 DEF DeleteCallErr, InnerTransitionOk, StartingHistory
    <3>5. StateHistory(o)'
      BY <3>0, <3>1, <3>3, <3>4 DEF StateHistory
    <3>6. StartingHistory(t)'
      BY <3>0, <3>3, <3>4 DEF StartingHistory
    <3> QED
      BY <3>0, <3>1, <3>2, <3>5, <3>6, ThreadFrame
  <2>16. CASE DeleteCode(t)
    BY <1>0, <2>16, QuietHistory DEF DeleteCode, Return, Shaped, Quiet, Moves, Starting
  <2>17. CASE DeleteRemove(t)
    BY <1>0, <2>17, QuietHistory DEF DeleteRemove, Return, Shaped, Quiet, Moves, Starting
  <2>18. CASE DeleteEvent(t)
    BY <1>0, <2>18, QuietHistory DEF DeleteEvent, Return, Shaped, Quiet, Moves, Starting
  <2>19. CASE WaitWake(t)
    BY <1>0, <2>19, QuietHistory DEF WaitWake, Return, Shaped, Quiet, Moves, Starting
  <2>20. CASE StatePid(t)
    BY <1>0, <2>20, QuietHistory DEF StatePid, Return, Shaped, Quiet, Moves, Starting
  <2>21. CASE StateCode(t)
    BY <1>0, <2>21, QuietHistory DEF StateCode, Return, Shaped, Quiet, Moves, Starting
  <2>22. CASE StateReply(t)
    BY <1>0, <2>22, QuietHistory DEF StateReply, Return, Shaped, Quiet, Moves, Starting
  <2>23. CASE ShutdownSignal(t)
    BY <1>0, <2>23, QuietHistory DEF ShutdownSignal, Return, Shaped, Quiet, Moves, Starting
  <2>24. CASE StartPanic(t)
    <3>0. PICK o \in Objs : o = robj[t]
      BY <2>24 DEF StartPanic, HasObj
    <3>1. /\ StartingHistory(t) /\ StateHistory(o) /\ InnerTransitionOk(t)
          /\ lock[o] \in {t, NoThread} /\ Alone(t, o)
      BY <2>24, <3>0, Local DEF StartPanic, InnerTransitionOk
    <3>2. Touches(o) /\ Moves(t)
      BY <1>0, <2>24, <3>0 DEF StartPanic, Shaped, Touches, Moves
    <3>3. /\ proc'[o] = "running" /\ hist'[o] = {"start", "lost"}
          /\ pc'[t] = "aborted" /\ robj' = robj
          /\ UNCHANGED <<state, lock, pid, exit, reaper>>
      BY <1>0, <2>24, <3>0, <3>1 DEF StartPanic, Shaped, StartingHistory
    <3>4. /\ pc[t] = "s_call" /\ state[o] = "Starting" /\ lock[o] = t
          /\ hist[o] = {} /\ exit[o] = NoCode
      BY <2>24, <3>0, <3>1 DEF StartPanic, InnerTransitionOk, StartingHistory
    <3>5. StateHistory(o)'
      BY <3>0, <3>1, <3>3, <3>4 DEF StateHistory
    <3>6. StartingHistory(t)'
      BY <3>3 DEF StartingHistory
    <3> QED
      BY <3>0, <3>1, <3>2, <3>5, <3>6, ThreadFrame
  <2> QED
    BY <1>3, <2>1, <2>2, <2>3, <2>4, <2>5, <2>6, <2>7, <2>8, <2>9, <2>10, <2>11,
       <2>12, <2>13, <2>14, <2>15, <2>16, <2>17, <2>18, <2>19, <2>20, <2>21,
       <2>22, <2>23, <2>24 DEF Step
<1> QED
  BY <1>1, <1>2, <1>3

\* So does a step of the process, the reaper or the wait thread.
LEMMA BackgroundHistory ==
  ASSUME TypeOK, HasObj, InnerTransitionsOk, CodesAgree, History, NEW o \in Objs,
         Background(o) \/ WaiterMark(o) \/ ReapError(o) \/ ProcExit(o)
  PROVE  History'
<1>0. /\ Shaped /\ StateHistory(o) /\ CodeKnown(o)
      /\ \A u \in Threads : StartingHistory(u)
  BY DEF TypeOK, Shaped, History, CodesAgree
<1>1. CASE Reap(o) \/ ReapError(o)
  <2>1. PICK c \in Codes : SetExit(o, c)
    BY <1>1 DEF Reap, ReapError, Codes
  <2>2. /\ exit'[o] # NoCode
        /\ \A p \in Objs \ {o} : exit'[p] = exit[p]
    <3>1. exit'[o] # NoCode
      <4> HIDE DEF SetExit
      <4> QED BY <2>1, CodesKept
    <3> QED
      BY <1>0, <2>1, <3>1 DEF Shaped
  <2>3. /\ \A m : m # "lost" => (m \in hist'[o]) = (m \in hist[o])
        /\ proc[o] = "running" => "lost" \in hist'[o]
        /\ reaper'[o] = "guard"
        /\ \A p \in Objs \ {o} : hist'[p] = hist[p] /\ reaper'[p] = reaper[p]
        /\ reaper[o] = "waiting"
        /\ UNCHANGED <<state, lock, pid, proc, pc, robj>>
    <3>1. CASE Reap(o)
      BY <1>0, <3>1, SMT DEF Reap, Shaped
    <3>2. CASE ReapError(o)
      BY <1>0, <3>2, SMT DEF ReapError, Shaped
    <3> QED
      BY <1>1, <3>1, <3>2
  <2>4. Touches(o)
    BY <2>2, <2>3 DEF Touches
  <2>5. "up" \in hist[o] /\ StateHistory(o)'
    BY <1>0, <2>2, <2>3 DEF StateHistory
  <2>6. ASSUME NEW u \in Threads, robj[u] = o PROVE StartingHistory(u)'
    <3>1. StartingHistory(u)
      BY <1>0
    <3> QED
      BY <2>2, <2>3, <2>5, <2>6, <3>1 DEF StartingHistory
  <2> QED
    BY <2>3, <2>4, <2>5, <2>6, BackFrame
<1>2. CASE GuardDrop(o)
  <2>1. /\ Touches(o) /\ reaper[o] = "guard" /\ reaper'[o] = "done" /\ exit'[o] = exit[o]
        /\ UNCHANGED <<state, lock, pid, proc, hist, pc, robj>>
    BY <1>0, <1>2 DEF GuardDrop, Shaped, Touches, CodeKnown
  <2>2. StateHistory(o)'
    BY <1>0, <2>1 DEF StateHistory
  <2>3. ASSUME NEW u \in Threads, robj[u] = o PROVE StartingHistory(u)'
    BY <1>0, <2>1, <2>3 DEF StartingHistory
  <2> QED
    BY <2>1, <2>2, <2>3, BackFrame
<1>3. CASE WaiterMark(o)
  <2>1. /\ Touches(o) /\ state'[o] = "Exited" /\ lock[o] = NoThread /\ exit[o] # NoCode
        /\ UNCHANGED <<lock, pid, exit, proc, reaper, hist, pc, robj>>
    BY <1>0, <1>3 DEF WaiterMark, Shaped, Touches, CodeKnown
  <2>2. StateHistory(o)'
    BY <1>0, <2>1 DEF StateHistory
  <2>3. ASSUME NEW u \in Threads PROVE StartingHistory(u)'
    BY <1>0, <2>1 DEF StartingHistory
  <2> QED
    BY <2>1, <2>2, <2>3, BackFrame
<1>4. CASE ProcExit(o)
  <2>1. /\ Touches(o) /\ proc'[o] = "dead"
        /\ UNCHANGED <<state, lock, pid, exit, reaper, hist, pc, robj>>
    BY <1>0, <1>4 DEF ProcExit, Shaped, Touches
  <2>2. StateHistory(o)'
    BY <1>0, <2>1 DEF StateHistory
  <2>3. ASSUME NEW u \in Threads PROVE StartingHistory(u)'
    BY <1>0, <2>1 DEF StartingHistory
  <2> QED
    BY <2>1, <2>2, <2>3, BackFrame
<1>5. CASE WaiterWake(o) \/ WaiterSend(o)
  <2>1. Quiet /\ UNCHANGED <<pc, robj>>
    BY <1>5 DEF WaiterWake, WaiterSend, Quiet
  <2> QED
    BY <2>1 DEF Quiet, History, StartingHistory, StateHistory
<1> QED
  BY <1>1, <1>2, <1>3, <1>4, <1>5 DEF Background

-----------------------------------------------------------------------------
Inv == TypeOK /\ HasObj /\ InnerTransitionsOk /\ CodesAgree /\ History

\* Every step keeps the inductive invariant.
LEMMA InvStep == Inv /\ [Next]_vars => Inv'
<1> SUFFICES ASSUME Inv, [Next]_vars PROVE Inv'
  OBVIOUS
<1> USE DEF Inv
<1>1. ASSUME NEW t \in Threads, Arrive(t) \/ LockStep(t) \/ Step(t) PROVE Inv'
  BY <1>1, ThreadTypes, ThreadHasObj, ThreadInner, ThreadCodes, ThreadHistory
<1>2. ASSUME NEW o \in Objs,
             Background(o) \/ WaiterMark(o) \/ ReapError(o) \/ ProcExit(o)
      PROVE  Inv'
  BY <1>2, BackgroundTypes, BackgroundInner, BackgroundCodes, BackgroundHistory
<1>3. CASE UNCHANGED <<instances, data, inst, waiter, local, ghosts>>
           /\ shim' \in {"serving", "signalled", "exited"}
  <2>1. TypeOK'
    BY <1>3 DEF TypeOK
  <2>2. HasObj' /\ InnerTransitionsOk'
    BY <1>3 DEF HasObj, InnerTransitionsOk, InnerTransitionOk
  <2>3. CodesAgree'
    BY <1>3 DEF CodesAgree, CodeRead, CodeKnown
  <2>4. History'
    BY <1>3 DEF History, StartingHistory, StateHistory
  <2> QED
    BY <2>1, <2>2, <2>3, <2>4
<1>4. CASE ShimExit
  BY <1>3, <1>4 DEF ShimExit
<1>5. CASE UNCHANGED vars
  BY <1>3, <1>5 DEF vars, TypeOK
<1> QED
  BY <1>1, <1>2, <1>4, <1>5 DEF Next

\* The inductive invariant holds in every state.
LEMMA Invariance == SafeSpec => []Inv
<1>1. Init => Inv
  <2> SUFFICES ASSUME Init PROVE Inv
    OBVIOUS
  <2>1. TypeOK
    BY SMT DEF Init, TypeOK, PCs, Codes, Marks, TaskStates
  <2>2. HasObj /\ InnerTransitionsOk
    BY DEF Init, HasObj, InnerTransitionsOk, InnerTransitionOk
  <2>3. CodesAgree
    BY DEF Init, CodesAgree, CodeRead, CodeKnown
  <2>4. History
    BY DEF Init, History, StartingHistory, StateHistory
  <2> QED
    BY <2>1, <2>2, <2>3, <2>4 DEF Inv
<1> QED
  BY <1>1, InvStep, PTL DEF SafeSpec

\* instance_data.rs:46-47 and 75 are right that the inner transitions are always
\* Ok: the state cannot change between the first and the last of them.
THEOREM InnerTransitionsSucceed == SafeSpec => []InnerTransitionsOk
BY Invariance, PTL DEF Inv

\* The Instance methods are only called in the order their implementation can
\* take, whatever the order of the RPCs.
THEOREM CallsDisciplined == SafeSpec => []CallDiscipline
<1>1. Inv => CallDiscipline
  <2> SUFFICES ASSUME Inv PROVE CallDiscipline
    OBVIOUS
  <2>1. \A t \in Threads : pc[t] \in {"s_call", "k_call", "d_call"} =>
          /\ StartingHistory(t) /\ StateHistory(robj[t]) /\ InnerTransitionOk(t)
    BY Local DEF Inv
  <2> QED
    BY <2>1 DEF CallDiscipline, StartingHistory, StateHistory, InnerTransitionOk
<1> QED
  BY <1>1, Invariance, PTL

\* No delete, which kills by force, reaches a container that is still running,
\* unless nobody watches it: waitid failed, or the start did, after the process was let go.
THEOREM RunningNotDeleted == SafeSpec => []NeverDeletesRunning
<1>1. Inv => NeverDeletesRunning
  <2> SUFFICES ASSUME Inv PROVE NeverDeletesRunning
    OBVIOUS
  <2>1. \A t \in Threads : pc[t] \in {"s_call", "k_call", "d_call"} =>
          /\ StartingHistory(t) /\ StateHistory(robj[t]) /\ InnerTransitionOk(t)
    BY Local DEF Inv
  <2> QED
    BY <2>1 DEF NeverDeletesRunning, StartingHistory, StateHistory, InnerTransitionOk
<1> QED
  BY <1>1, Invariance, PTL

\* Everybody who is told the exit code of an instance is told the same one.
THEOREM VerdictsAgree == SafeSpec => []OneVerdict
<1>1. Inv => OneVerdict
  BY DEF Inv, CodesAgree, CodeKnown, OneVerdict
<1> QED
  BY <1>1, Invariance, PTL

\* A stopped task is stopped for good, whatever RPCs race on it.
THEOREM StoppedForGood == SafeSpec => NoResurrection
<1>1. Inv /\ [Next]_vars => [StaysStopped]_vars
  <2> SUFFICES ASSUME Inv, Next PROVE StaysStopped
    BY DEF vars
  <2>0. Shaped /\ HasObj /\ InnerTransitionsOk
    BY DEF Inv, TypeOK, Shaped
  <2> USE <2>0 DEF Shaped, HasObj, InnerTransitionsOk, InnerTransitionOk, StaysStopped
  <2>1. CASE UNCHANGED state
    BY <2>1
  <2>2. ASSUME NEW o \in Objs, SetExited(o) PROVE StaysStopped
    BY <2>2, SMT
  <2>3. ASSUME NEW t \in Threads, StartLock(t) \/ DeleteLock(t) PROVE StaysStopped
    <3>1. CASE StartLock(t)
      BY <3>1, SMT DEF StartLock
    <3>2. CASE DeleteLock(t)
      BY <3>2, SMT DEF DeleteLock
    <3> QED
      BY <2>3, <3>1, <3>2
  <2>4. ASSUME NEW t \in Threads, StartDone(t) \/ StartStop(t) \/ DeleteCallErr(t)
        PROVE  StaysStopped
    <3>1. CASE StartDone(t)
      BY <3>1, SMT DEF StartDone
    <3>2. CASE StartStop(t)
      BY <3>2 DEF StartStop
    <3>3. CASE DeleteCallErr(t)
      BY <3>3, SMT DEF DeleteCallErr
    <3> QED
      BY <2>4, <3>1, <3>2, <3>3
  <2>5. ASSUME NEW t \in Threads, CreateNew(t) PROVE StaysStopped
    BY <2>5, SMT DEF CreateNew
  <2>6. ASSUME NEW t \in Threads, DeleteMark(t) \/ WaitMark(t) \/ StateMark(t)
        PROVE  StaysStopped
    BY <2>2, <2>6 DEF DeleteMark, WaitMark, StateMark
  <2>7. ASSUME NEW t \in Threads, Arrive(t) PROVE UNCHANGED state
    BY <2>7 DEF Arrive, CreateCheck, StartGet, KillGet, DeleteGet, WaitGet, StateGet,
                get_instance, ShutdownCheck
  <2>8. ASSUME NEW t \in Threads, LockStep(t) PROVE StaysStopped
    BY <2>1, <2>3, <2>6, <2>8 DEF LockStep, StartRefused, KillLock, KillRefused,
                                  DeleteRefused
  <2>9. ASSUME NEW t \in Threads, Step(t) PROVE StaysStopped
    BY <2>1, <2>4, <2>5, <2>9 DEF Step, CreateFail, CreateInsert, CreateEvent,
         CreateHooks, StartCallOk, StartCallErr, StartPid, StartEvent, StartSpawn,
         KillCall, DeleteCallOk, DeleteCode, DeleteRemove, DeleteEvent, WaitWake,
         StatePid, StateCode, StateReply, ShutdownSignal, StartPanic
  <2>10. ASSUME NEW o \in Objs,
                Background(o) \/ WaiterMark(o) \/ ReapError(o) \/ ProcExit(o)
         PROVE  StaysStopped
    BY <2>1, <2>2, <2>10 DEF Background, Reap, GuardDrop, WaiterWake, WaiterSend,
                             WaiterMark, ReapError, ProcExit
  <2> QED
    BY <2>1, <2>7, <2>8, <2>9, <2>10 DEF Next, ShimExit
<1> QED
  BY <1>1, Invariance, PTL DEF SafeSpec, NoResurrection

-----------------------------------------------------------------------------
(* The service implements TaskLifecycle: a step moves at most one instance,  *)
(* and as its life allows.                                                   *)

\* A step leaves the lives of all instances but o as they are.
OneLife(o) == \A p \in Objs \ {o} : Life(p)' = Life(p)

Allowed(from, to) ==
  \/ to = from
  \/ from = "none" /\ to = "created"
  \/ from = "created" /\ to \in {"running", "stopped", "deleted"}
  \/ from = "running" /\ to = "stopped"
  \/ from = "stopped" /\ to = "deleted"

\* If a single life moves, as it may, TaskLifecycle takes a step or stutters.
LEMMA LifeMoves ==
  ASSUME NEW o \in Objs, OneLife(o), Allowed(Life(o), Life(o)')
  PROVE  [Lifecycle!Next]_Lives
<1>1. Lives' = [Lives EXCEPT ![o] = Life(o)'] /\ Lives[o] = Life(o)
  BY DEF OneLife, Lives
<1>2. CASE Life(o)' = Life(o)
  BY <1>2 DEF OneLife, Lives
<1>3. CASE Life(o)' # Life(o)
  <2> HIDE DEF Life
  <2>1. Lifecycle!Create(o) \/ Lifecycle!Start(o) \/ Lifecycle!Fail(o)
          \/ Lifecycle!Exit(o) \/ Lifecycle!Delete(o)
    BY <1>1, <1>3 DEF Allowed, Lifecycle!Move, Lifecycle!Create, Lifecycle!Start,
                      Lifecycle!Fail, Lifecycle!Exit, Lifecycle!Delete
  <2> QED
    BY <2>1 DEF Lifecycle!Next
<1> QED
  BY <1>2, <1>3

\* What a life does not depend on.
LEMMA LifeStays ==
  ASSUME NEW p, exit'[p] = exit[p], reaper'[p] = reaper[p],
         proc'[p] = "gone" <=> proc[p] = "gone",
         state'[p] = "free" <=> state[p] = "free"
  PROVE  Life(p)' = Life(p)
BY DEF Life

\* A step of a handler thread.
LEMMA ThreadLives ==
  ASSUME Inv, NEW t \in Threads, Arrive(t) \/ LockStep(t) \/ Step(t)
  PROVE  [Lifecycle!Next]_Lives
<1>0. Shaped /\ (pc[t] \notin {"idle", "c_new", "x_signal"} => robj[t] \in Objs)
  BY DEF Inv, TypeOK, Shaped, HasObj
<1>1. CASE UNCHANGED <<state, exit, proc, reaper>>
  BY <1>1 DEF Lives, Life
<1>2. ASSUME NEW o \in Objs, NEW s \in TaskStates, state[o] # "free",
             state' = [state EXCEPT ![o] = s], UNCHANGED <<exit, proc, reaper>>
      PROVE  UNCHANGED Lives
  <2> SUFFICES ASSUME NEW p \in Objs PROVE Life(p)' = Life(p)
    BY DEF Lives
  <2>1. state'[p] = "free" <=> state[p] = "free"
    BY <1>0, <1>2 DEF Shaped, TaskStates
  <2> QED
    BY <1>2, <2>1, LifeStays
<1>3. CASE Arrive(t)
  BY <1>1, <1>3 DEF Arrive, CreateCheck, StartGet, KillGet, DeleteGet, WaitGet,
                  StateGet, get_instance, ShutdownCheck
<1>4. CASE StartLock(t) \/ DeleteLock(t)
  <2>1. robj[t] \in Objs /\ state[robj[t]] # "free"
    BY <1>0, <1>4 DEF StartLock, DeleteLock
  <2> QED
    BY <1>2, <1>4, <2>1 DEF StartLock, DeleteLock, TaskStates
<1>5. CASE StartDone(t) \/ StartStop(t)
  <2>1. robj[t] \in Objs /\ state[robj[t]] = "Starting"
    BY <1>0, <1>5 DEF StartDone, StartStop, Inv, InnerTransitionsOk, InnerTransitionOk
  <2>2. UNCHANGED <<exit, proc, reaper>> /\ \E s \in {"Started", "Exited"} :
          state' = [state EXCEPT ![robj[t]] = s]
    BY <1>0, <1>5, <2>1 DEF StartDone, StartStop, Shaped
  <2> QED
    BY <1>2, <2>1, <2>2 DEF TaskStates
<1>6. CASE CreateNew(t)
  <2>1. PICK o \in Objs : state[o] = "free" /\ state' = [state EXCEPT ![o] = "Created"]
                          /\ proc' = [proc EXCEPT ![o] = "created"]
    BY <1>6 DEF CreateNew
  <2>2. UNCHANGED <<exit, reaper>>
    BY <1>6 DEF CreateNew
  <2>3. OneLife(o)
    BY <1>0, <2>1, <2>2 DEF OneLife, Life, Shaped
  <2>4. reaper[o] = "none" /\ exit[o] = NoCode
    BY <2>1 DEF Inv, History, StateHistory
  <2>5. Life(o) = "none" /\ Life(o)' = "created"
    BY <1>0, <2>1, <2>2, <2>4 DEF Life, Shaped
  <2> QED
    BY <2>3, <2>5, LifeMoves DEF Allowed
<1>7. CASE StartCallOk(t) \/ StartCallErr(t) \/ StartPanic(t)
  <2>0. PICK o \in Objs : o = robj[t]
    BY <1>0, <1>7 DEF StartCallOk, StartCallErr, StartPanic
  <2>1. At(t, "s_call") /\ state[o] = "Starting"
    BY <1>7, <2>0 DEF StartCallOk, StartCallErr, StartPanic, Inv, InnerTransitionsOk,
                      InnerTransitionOk
  <2>2. hist[o] = {} /\ exit[o] = NoCode
    BY <2>0, <2>1 DEF Inv, History, StartingHistory
  <2>3. reaper[o] = "none" /\ proc[o] # "gone"
    BY <2>2 DEF Inv, History, StateHistory
  <2>4. Life(o) = "created"
    BY <2>1, <2>2, <2>3 DEF Life
  <2>5. /\ UNCHANGED state /\ proc'[o] # "gone"
        /\ \A p \in Objs \ {o} : /\ exit'[p] = exit[p] /\ reaper'[p] = reaper[p]
                                 /\ proc'[p] = proc[p]
    BY <1>0, <1>7, <2>0, <2>3 DEF StartCallOk, StartCallErr, StartPanic, Shaped
  <2>6. OneLife(o)
    BY <2>5, LifeStays DEF OneLife
  <2>7. Life(o)' \in {"created", "running", "stopped"}
    BY <2>1, <2>5 DEF Life
  <2> QED
    BY <2>4, <2>6, <2>7, LifeMoves DEF Allowed
<1>8. CASE DeleteCallOk(t) \/ DeleteCallErr(t)
  <2>0. PICK o \in Objs : o = robj[t]
    BY <1>0, <1>8 DEF DeleteCallOk, DeleteCallErr
  <2>1. state[o] = "Deleting"
    BY <1>8, <2>0 DEF DeleteCallOk, DeleteCallErr, Inv, InnerTransitionsOk,
                      InnerTransitionOk
  <2>2. /\ state'[o] \in {"Deleting", "Exited"} /\ UNCHANGED <<exit, reaper>>
        /\ \A p \in Objs \ {o} : state'[p] = state[p] /\ proc'[p] = proc[p]
    BY <1>0, <1>8, <2>0, <2>1 DEF DeleteCallOk, DeleteCallErr, Shaped
  <2>3. OneLife(o)
    BY <2>2, LifeStays DEF OneLife
  <2>4. CASE DeleteCallOk(t)
    <3>1. StateHistory(o)
      BY DEF Inv, History
    <3>2. reaper[o] # "waiting"
      BY <2>1, <3>1 DEF StateHistory
    <3>3. Life(o) \in {"created", "stopped", "deleted"}
      BY <2>1, <3>2 DEF Life
    <3>4. Life(o)' = "deleted"
      BY <1>0, <2>0, <2>2, <2>4 DEF DeleteCallOk, Life, Shaped
    <3> QED
      BY <2>3, <3>3, <3>4, LifeMoves DEF Allowed
  <2>5. CASE DeleteCallErr(t)
    <3>1. proc'[o] = "gone" <=> proc[o] = "gone"
      BY <1>0, <2>0, <2>5 DEF DeleteCallErr, Shaped
    <3>2. Life(o)' = Life(o)
      BY <2>1, <2>2, <3>1 DEF Life
    <3> QED
      BY <2>3, <3>2, LifeMoves DEF Allowed
  <2> QED
    BY <1>8, <2>4, <2>5
<1>9. CASE DeleteMark(t) \/ StateMark(t) \/ WaitMark(t)
  <2>0. PICK o \in Objs : o = robj[t]
    BY <1>0, <1>9 DEF DeleteMark, StateMark, WaitMark
  <2>1. exit[o] # NoCode
    BY <1>9, <2>0 DEF DeleteMark, StateMark, WaitMark, Inv, CodesAgree, CodeRead
  <2>2. state[o] # "free"
    BY <2>1 DEF Inv, History, StateHistory
  <2> QED
    BY <1>2, <1>9, <2>0, <2>2 DEF DeleteMark, StateMark, WaitMark, TaskStates
<1>10. CASE KillCall(t)
  <2>1. \A p \in Objs : proc'[p] = "gone" <=> proc[p] = "gone"
    BY <1>0, <1>10 DEF KillCall, Shaped
  <2> QED
    BY <1>10, <2>1, LifeStays DEF KillCall, Lives
<1>11. CASE LockStep(t)
  BY <1>1, <1>4, <1>9, <1>11 DEF LockStep, StartRefused, KillLock, KillRefused,
                                 DeleteRefused
<1>12. CASE Step(t)
  BY <1>1, <1>5, <1>6, <1>7, <1>8, <1>10, <1>12 DEF Step, CreateFail, CreateInsert,
       CreateEvent, CreateHooks, StartPid, StartEvent, StartSpawn,
       DeleteCode, DeleteRemove, DeleteEvent, WaitWake, StatePid, StateCode,
       StateReply, ShutdownSignal
<1> QED
  BY <1>3, <1>11, <1>12

\* A step of the container's process, of its reaper or of its wait thread.
LEMMA BackgroundLives ==
  ASSUME Inv, NEW o \in Objs,
         Background(o) \/ WaiterMark(o) \/ ReapError(o) \/ ProcExit(o)
  PROVE  [Lifecycle!Next]_Lives
<1>0. Shaped /\ StateHistory(o) /\ CodeKnown(o)
  BY DEF Inv, TypeOK, Shaped, History, CodesAgree
<1>1. CASE UNCHANGED <<state, exit, proc, reaper>>
  BY <1>1 DEF Lives, Life
<1>2. CASE Reap(o) \/ ReapError(o)
  <2>1. PICK c \in Codes : SetExit(o, c)
    BY <1>2 DEF Reap, ReapError, Codes
  <2>2. exit'[o] # NoCode
    <3> HIDE DEF SetExit
    <3> QED BY <2>1, CodesKept DEF Inv
  <2>3. /\ reaper[o] = "waiting" /\ reaper'[o] = "guard" /\ UNCHANGED <<state, proc>>
        /\ \A p \in Objs \ {o} : exit'[p] = exit[p] /\ reaper'[p] = reaper[p]
    BY <1>0, <1>2, <2>1 DEF Reap, ReapError, Shaped
  <2>4. OneLife(o)
    BY <2>3, LifeStays DEF OneLife
  <2>5. state[o] # "free"
    BY <1>0, <2>3 DEF StateHistory
  <2>6. Life(o) \in {"running", "deleted"}
    BY <2>3, <2>5 DEF Life
  <2>7. Life(o)' = IF Life(o) = "running" THEN "stopped" ELSE Life(o)
    BY <2>2, <2>3, <2>5 DEF Life
  <2> QED
    BY <2>4, <2>6, <2>7, LifeMoves DEF Allowed
<1>3. CASE GuardDrop(o)
  <2>1. /\ reaper[o] = "guard" /\ reaper'[o] = "done" /\ UNCHANGED <<state, exit, proc>>
        /\ \A p \in Objs \ {o} : reaper'[p] = reaper[p]
    BY <1>0, <1>3 DEF GuardDrop, Shaped, CodeKnown
  <2>2. \A p \in Objs : Life(p)' = Life(p)
    BY <2>1 DEF Life
  <2> QED
    BY <2>2 DEF Lives
<1>4. CASE WaiterMark(o)
  <2>1. exit[o] # NoCode
    BY <1>0, <1>4 DEF WaiterMark, CodeKnown
  <2>2. state[o] # "free"
    BY <1>0, <2>1 DEF StateHistory
  <2>3. \A p \in Objs : Life(p)' = Life(p)
    BY <1>0, <1>4, <2>2 DEF WaiterMark, Life, Shaped
  <2> QED
    BY <2>3 DEF Lives
<1>5. CASE ProcExit(o)
  <2>1. \A p \in Objs : proc'[p] = "gone" <=> proc[p] = "gone"
    BY <1>0, <1>5 DEF ProcExit, Shaped
  <2> QED
    BY <1>5, <2>1, LifeStays DEF ProcExit, Lives
<1> QED
  BY <1>1, <1>2, <1>3, <1>4, <1>5 DEF Background, WaiterWake, WaiterSend

\* Every instance lives as the Instance trait expects, for any number of concurrent
\* RPCs: InstanceData's states and locks keep container, reaper and exit code to the
\* steps of TaskLifecycle.
THEOREM Refinement == SafeSpec => ImplementsLifecycle
<1>1. Init => Lifecycle!Init
  BY SMT DEF Init, Lifecycle!Init, Lives, Life
<1>2. Inv /\ [Next]_vars => [Lifecycle!Next]_Lives
  <2> SUFFICES ASSUME Inv, [Next]_vars PROVE [Lifecycle!Next]_Lives
    OBVIOUS
  <2>1. CASE UNCHANGED <<state, exit, proc, reaper>>
    BY <2>1 DEF Lives, Life
  <2> QED
    BY <2>1, ThreadLives, BackgroundLives DEF Next, ShimExit, vars
<1> QED
  BY <1>1, <1>2, Invariance, PTL DEF SafeSpec, ImplementsLifecycle, Lifecycle!Spec

-----------------------------------------------------------------------------
(* The map of instances and the event stream: an instance is registered under *)
(* one id and by one thread; it is launched, and its exit published, at most  *)
(* once.                                                                      *)

Has(o, e) == \E k \in DOMAIN events[o] : events[o][k] = e

NoArc == {"idle", "c_new", "x_signal"}
Registering == {"c_insert", "c_event"}
Unannounced == Starting \cup {"s_event"}
Launching == Unannounced \cup {"s_spawn"}

\* ExitAfterStart, of one instance.
Order(o) == \A i \in DOMAIN events[o] :
  /\ events[o][i] # "delete" =>
       \A j \in DOMAIN events[o] : events[o][j] = events[o][i] => i = j
  /\ \A j \in DOMAIN events[o] : events[o][i] = "start" /\ events[o][j] = "exit" => i < j

\* What a thread knows of the instance that it registers, launches or deletes.
Duties(t) == LET o == robj[t] IN
  /\ pc[t] \notin NoArc => \A i \in Ids : instances[i] = o => i = rid[t]
  /\ pc[t] \in {"c_insert", "d_event"} => \A i \in Ids : instances[i] # o
  /\ pc[t] = "c_insert" => ~Has(o, "delete")
  /\ pc[t] \in Registering => ~Has(o, "create")
  /\ pc[t] \in Launching => waiter[o] = "none" /\ state[o] \notin {"free", "Created"}
  /\ pc[t] \in Unannounced => ~Has(o, "start")

\* Two threads do not register or launch one instance, and nobody else has it
\* before it is in the map.
Apart(t, u) == robj[t] = robj[u] /\ robj[t] \in Objs =>
  /\ pc[t] # "c_insert"
  /\ ~(pc[t] \in Registering /\ pc[u] \in Registering)
  /\ ~(pc[t] \in Launching /\ pc[u] \in Launching)

\* What the map, the state and the wait thread say of the events of an instance.
Entry(o) ==
  /\ state[o] = "free" => /\ \A i \in Ids : instances[i] # o
                          /\ \A t \in Threads : robj[t] # o
                          /\ ~Has(o, "create") /\ ~Has(o, "delete")
  /\ \A i, j \in Ids : instances[i] = o /\ instances[j] = o => i = j
  /\ Has(o, "delete") => \A i \in Ids : instances[i] # o
  /\ Has(o, "start") => state[o] \notin {"free", "Created"}
  /\ waiter[o] # "none" => state[o] \notin {"free", "Created"}
  /\ waiter[o] # "done" => ~Has(o, "exit")
  /\ Order(o)

Ledger ==
  /\ \A t \in Threads : Duties(t)
  /\ \A t \in Threads : \A u \in Threads \ {t} : Apart(t, u)
  /\ \A o \in Objs : Entry(o)

\* No step touches the handler of another thread.
OtherHandlers(t) == \A u \in Threads \ {t} :
  pc'[u] = pc[u] /\ rid'[u] = rid[u] /\ robj'[u] = robj[u]

\* No instance goes back before its creation or its start.
Onward == \A o \in Objs :
  /\ state'[o] = "free" => state[o] = "free"
  /\ state'[o] \in {"free", "Created"} => state[o] \in {"free", "Created"}

\* A thread leaves its RPC, begins one that has no instance yet, or goes on to a
\* place where it has no duties but those it had.
GoesOn(t) ==
  \/ pc'[t] = "idle" /\ robj'[t] = NoObj
  \/ pc'[t] \in NoArc /\ robj'[t] = robj[t]
  \/ /\ pc[t] \notin NoArc /\ robj'[t] = robj[t] /\ rid'[t] = rid[t]
     /\ pc'[t] \notin Registering \cup {"d_event", "s_spawn"}
     /\ pc'[t] \in Unannounced => pc[t] \in Unannounced

\* A step that leaves map, events and wait threads alone.
LEMMA CalmLedger ==
  ASSUME Ledger, HasObj, NEW t \in Threads, OtherHandlers(t), Onward, GoesOn(t),
         UNCHANGED <<instances, events, waiter>>
  PROVE  Ledger'
<1> USE DEF NoArc, Registering, Launching, Unannounced, Starting
<1>1. \A o, e : Has(o, e)' <=> Has(o, e)
  BY DEF Has
<1>2. \A o : Order(o)' <=> Order(o)
  BY DEF Order
<1>3. \A o \in Objs : Entry(o)'
  <2> SUFFICES ASSUME NEW o \in Objs PROVE Entry(o)'
    OBVIOUS
  <2>1. Entry(o)
    BY DEF Ledger
  <2>2. state'[o] = "free" => \A u \in Threads : robj'[u] # o
    BY <2>1, SMT DEF Entry, Onward, OtherHandlers, GoesOn
  <2> QED
    BY <1>1, <1>2, <2>1, <2>2 DEF Entry, Onward
<1>4. ASSUME NEW u \in Threads \ {t} PROVE Duties(u)'
  <2>1. Duties(u) /\ (pc[u] \in Launching => robj[u] \in Objs)
    BY DEF Ledger, HasObj
  <2> QED
    BY <1>1, <2>1 DEF Duties, OtherHandlers, Onward
<1>5. Duties(t)'
  <2>1. Duties(t) /\ (pc[t] \in Launching => robj[t] \in Objs)
    BY DEF Ledger, HasObj
  <2> QED
    BY <1>1, <2>1 DEF Duties, GoesOn, Onward
<1>6. ASSUME NEW u \in Threads, NEW v \in Threads \ {u} PROVE Apart(u, v)'
  <2>1. Apart(u, v) /\ Apart(v, u)
    BY DEF Ledger
  <2> QED
    BY <2>1 DEF Apart, OtherHandlers, GoesOn
<1> QED
  BY <1>3, <1>4, <1>5, <1>6 DEF Ledger

\* The parts of TypeOK that the lemmas below need.
Handlers ==
  /\ pc \in [Threads -> PCs] /\ rid \in [Threads -> Ids \cup {NoId}]
  /\ robj \in [Threads -> Objs \cup {NoObj}]

\* The steps of a thread that leave map, events and wait threads alone.
Calm(t) ==
  \/ \E i \in Ids : CreateCheck(t, i)
  \/ ShutdownCheck(t)
  \/ StartRefused(t) \/ KillLock(t) \/ KillRefused(t)
  \/ DeleteLock(t) \/ DeleteRefused(t) \/ DeleteMark(t)
  \/ WaitMark(t) \/ StateMark(t)
  \/ CreateFail(t) \/ CreateHooks(t)
  \/ StartCallOk(t) \/ StartCallErr(t) \/ StartPanic(t) \/ StartPid(t) \/ StartDone(t)
  \/ StartStop(t) \/ KillCall(t) \/ DeleteCallOk(t) \/ DeleteCallErr(t) \/ DeleteCode(t)
  \/ WaitWake(t) \/ StatePid(t) \/ StateCode(t) \/ StateReply(t)
  \/ ShutdownSignal(t)

Kept(t) == OtherHandlers(t) /\ Onward /\ GoesOn(t) /\ UNCHANGED <<instances, events, waiter>>

LEMMA CalmSteps ==
  ASSUME TypeOK, HasObj, NEW t \in Threads, Calm(t)
  PROVE  Kept(t)
<1>0. Handlers /\ state \in [Objs -> TaskStates \cup {"free"}]
  BY DEF TypeOK, Handlers
<1> USE <1>0 DEF Handlers, Return, Kept, OtherHandlers, Onward, GoesOn, NoArc,
                 Registering, Unannounced, Starting
<1>1. CASE \E i \in Ids : CreateCheck(t, i)
  BY <1>1 DEF CreateCheck
<1>2. CASE StartRefused(t)
  BY <1>2 DEF StartRefused
<1>3. CASE KillLock(t)
  BY <1>3 DEF KillLock
<1>4. CASE KillRefused(t)
  BY <1>4 DEF KillRefused
<1>5. CASE DeleteLock(t)
  BY <1>5 DEF DeleteLock
<1>6. CASE DeleteRefused(t)
  BY <1>6 DEF DeleteRefused
<1>7. CASE DeleteMark(t)
  BY <1>7 DEF DeleteMark
<1>8. CASE WaitMark(t)
  BY <1>8 DEF WaitMark
<1>9. CASE StateMark(t)
  BY <1>9 DEF StateMark
<1>10. CASE CreateFail(t)
  BY <1>10 DEF CreateFail
<1>11. CASE CreateHooks(t)
  BY <1>11 DEF CreateHooks
<1>12. CASE StartCallOk(t)
  BY <1>12 DEF StartCallOk
<1>13. CASE StartCallErr(t)
  BY <1>13 DEF StartCallErr
<1>14. CASE StartPid(t)
  BY <1>14 DEF StartPid
<1>15. CASE StartDone(t)
  BY <1>15 DEF StartDone
<1>16. CASE StartStop(t)
  BY <1>16 DEF StartStop
<1>17. CASE KillCall(t)
  BY <1>17 DEF KillCall
<1>18. CASE DeleteCallOk(t)
  BY <1>18 DEF DeleteCallOk
<1>19. CASE DeleteCallErr(t)
  BY <1>19 DEF DeleteCallErr
<1>20. CASE DeleteCode(t)
  BY <1>20 DEF DeleteCode
<1>21. CASE WaitWake(t)
  BY <1>21 DEF WaitWake
<1>22. CASE StatePid(t)
  BY <1>22 DEF StatePid
<1>23. CASE StateCode(t)
  BY <1>23 DEF StateCode
<1>24. CASE StateReply(t)
  BY <1>24 DEF StateReply
<1>25. CASE ShutdownSignal(t)
  BY <1>25 DEF ShutdownSignal
<1>26. CASE ShutdownCheck(t)
  BY <1>26 DEF ShutdownCheck
<1>27. CASE StartPanic(t)
  BY <1>27 DEF StartPanic
<1> QED
  BY <1>1, <1>2, <1>3, <1>4, <1>5, <1>6, <1>7, <1>8, <1>9, <1>10, <1>11,
     <1>12, <1>13, <1>14, <1>15, <1>16, <1>17, <1>18, <1>19, <1>20, <1>21,
     <1>22, <1>23, <1>24, <1>25, <1>26, <1>27 DEF Calm

\* At most the event e of instance o is new.
Adds(o, e) == \A p \in Objs : \A f :
  /\ Has(p, f) => Has(p, f)'
  /\ Has(p, f)' => Has(p, f) \/ (p = o /\ f = e)

\* What publishing, which may fail, does to the events of an instance.
LEMMA Published ==
  ASSUME TypeOK, NEW o \in Objs, NEW e \in {"create", "start", "exit", "delete"},
         Publish(o, e)
  PROVE  /\ Adds(o, e)
         /\ \A p \in Objs \ {o} : Order(p)' <=> Order(p)
         /\ (e # "delete" => ~Has(o, e)) /\ (e = "start" => ~Has(o, "exit")) /\ Order(o)
              => Order(o)'
<1> DEFINE K == {"create", "start", "exit", "delete"}
           s == events[o]
<1>0. CASE UNCHANGED events
  BY <1>0 DEF Adds, Has, Order
<1>1. events \in [Objs -> Seq(K)] /\ e \in K
  BY DEF TypeOK
<1>2. CASE events' = [events EXCEPT ![o] = Append(@, e)]
  <2>1. events'[o] = Append(s, e) /\ \A p \in Objs \ {o} : events'[p] = events[p]
    BY <1>1, <1>2
  <2> HIDE DEF K
  <2>2. s \in Seq(K)
    BY <1>1
  <2>3. /\ DOMAIN Append(s, e) = 1..(Len(s) + 1) /\ DOMAIN s = 1..Len(s) /\ Len(s) \in Nat
        /\ \A k \in 1..Len(s) : Append(s, e)[k] = s[k]
        /\ Append(s, e)[Len(s) + 1] = e
    BY <1>1, <2>2, SMT
  <2> HIDE DEF s
  <2>4. \A p \in Objs \ {o} : (\A f : Has(p, f)' <=> Has(p, f)) /\ (Order(p)' <=> Order(p))
    BY <2>1, SMT DEF Has, Order
  <2>5. \A f : Has(o, f)' <=> Has(o, f) \/ f = e
    BY <2>1, <2>3, SMT DEF Has, s
  <2>6. ASSUME e # "delete" => ~Has(o, e), e = "start" => ~Has(o, "exit"), Order(o)
        PROVE  Order(o)'
    <3> SUFFICES ASSUME NEW i \in DOMAIN events'[o], NEW j \in DOMAIN events'[o]
                 PROVE  /\ events'[o][i] # "delete" => (events'[o][j] = events'[o][i] => i = j)
                        /\ events'[o][i] = "start" /\ events'[o][j] = "exit" => i < j
      BY DEF Order
    <3>1. CASE i \in 1..Len(s)
      BY <2>1, <2>3, <2>6, <3>1, SMT DEF Order, Has, s
    <3>2. CASE i = Len(s) + 1
      BY <2>1, <2>3, <2>6, <3>2, SMT DEF Has, s
    <3> QED
      BY <2>1, <2>3, <3>1, <3>2, SMT
  <2> QED
    BY <2>4, <2>5, <2>6 DEF Adds
<1> QED
  BY <1>0, <1>2 DEF Publish

\* Ledger follows from what it says of the threads and instances a step touches.
LEMMA LedgerFrame ==
  ASSUME Ledger, NEW t \in Threads, OtherHandlers(t),
         \A u \in Threads : Duties(u)',
         \A u \in Threads \ {t} : Apart(t, u)' /\ Apart(u, t)',
         \A o \in Objs : Entry(o)'
  PROVE  Ledger'
<1>1. ASSUME NEW u \in Threads \ {t}, NEW v \in Threads \ {t}, u # v PROVE Apart(u, v)'
  BY <1>1 DEF Ledger, OtherHandlers, Apart
<1> QED
  BY <1>1, SMT DEF Ledger

\* Looking an instance up.
LEMMA GetLedger ==
  ASSUME TypeOK, Ledger, NEW t \in Threads, NEW r,
         NEW l \in {"s_lock", "k_lock", "d_lock", "w_wait", "q_pid"}, get_instance(t, r, l)
  PROVE  OtherHandlers(t) /\ Ledger'
<1> USE DEF NoArc, Registering, Launching, Unannounced, Starting
<1>1. PICK i \in Ids : /\ instances[i] # NoObj
                       /\ rid' = [rid EXCEPT ![t] = i]
                       /\ robj' = [robj EXCEPT ![t] = instances[i]]
  BY DEF get_instance
<1>2. PICK o \in Objs : o = instances[i]
  BY <1>1 DEF TypeOK
<1>3. OtherHandlers(t) /\ pc'[t] = l /\ rid'[t] = i /\ robj'[t] = o
      /\ UNCHANGED <<instances, events, waiter, state>>
  BY <1>1, <1>2 DEF get_instance, OtherHandlers, TypeOK
<1>4. \A p, e : Has(p, e)' <=> Has(p, e)
  BY <1>3 DEF Has
<1>5. \A p : Order(p)' <=> Order(p)
  BY <1>3 DEF Order
<1>6. ASSUME NEW p \in Objs PROVE Entry(p)'
  <2>1. Entry(p) /\ Entry(o)
    BY DEF Ledger
  <2>2. state[p] = "free" => p # o /\ \A u \in Threads : robj'[u] # p
    BY <1>2, <1>3, <2>1 DEF Entry, OtherHandlers
  <2> QED
    BY <1>3, <1>4, <1>5, <2>1, <2>2 DEF Entry
<1>7. ASSUME NEW u \in Threads PROVE Duties(u)'
  <2>1. CASE u = t
    BY <1>2, <1>3, <2>1, SMT DEF Ledger, Entry, Duties
  <2>2. CASE u # t
    BY <1>3, <1>4, <2>2, SMT DEF Ledger, OtherHandlers, Duties
  <2> QED
    BY <2>1, <2>2
<1>8. ASSUME NEW u \in Threads \ {t} PROVE Apart(t, u)' /\ Apart(u, t)'
  <2>1. pc[u] = "c_insert" => robj[u] # o
    BY <1>2 DEF Ledger, Duties
  <2> QED
    BY <1>3, <2>1 DEF Apart, OtherHandlers
<1> QED
  BY <1>3, <1>6, <1>7, <1>8, LedgerFrame

\* The first transition of start, and the creation of an instance.
LEMMA LockLedger ==
  ASSUME TypeOK, HasObj, Ledger, NEW t \in Threads, StartLock(t) \/ CreateNew(t)
  PROVE  OtherHandlers(t) /\ Onward /\ Ledger'
<1> USE DEF NoArc, Registering, Launching, Unannounced, Starting
<1>0. Handlers /\ state \in [Objs -> TaskStates \cup {"free"}]
  BY DEF TypeOK, Handlers
<1>1. OtherHandlers(t) /\ Onward /\ UNCHANGED <<instances, events, waiter>>
  BY <1>0 DEF Handlers, StartLock, CreateNew, OtherHandlers, Onward
<1>2. \A p, e : Has(p, e)' <=> Has(p, e)
  BY <1>1 DEF Has
<1>3. \A p : Order(p)' <=> Order(p)
  BY <1>1 DEF Order
<1>4. ASSUME NEW u \in Threads \ {t} PROVE Duties(u)'
  <2>1. Duties(u) /\ (pc[u] \in Launching => robj[u] \in Objs)
    BY DEF Ledger, HasObj
  <2> QED
    BY <1>1, <1>2, <2>1 DEF Duties, OtherHandlers, Onward
<1>5. CASE StartLock(t)
  <2>1. PICK o \in Objs : o = robj[t]
    BY <1>5 DEF StartLock, HasObj
  <2>2. /\ pc[t] = "s_lock" /\ state[o] = "Created"
        /\ pc'[t] = "s_call" /\ robj' = robj /\ rid' = rid /\ state'[o] = "Starting"
    BY <1>0, <1>5, <2>1 DEF StartLock, Handlers
  <2>3. ~Has(o, "start") /\ waiter[o] = "none"
    BY <2>2 DEF Ledger, Entry
  <2>4. Duties(t)'
    BY <1>1, <1>2, <2>1, <2>2, <2>3 DEF Ledger, Duties
  <2>5. ASSUME NEW u \in Threads \ {t} PROVE Apart(t, u)' /\ Apart(u, t)'
    <3>1. pc[u] \in Launching => robj[u] # o
      BY <2>2 DEF Ledger, Duties
    <3>2. Apart(u, t)
      BY DEF Ledger
    <3> QED
      BY <1>1, <2>1, <2>2, <3>1, <3>2 DEF Apart, OtherHandlers
  <2>6. ASSUME NEW p \in Objs PROVE Entry(p)'
    <3>1. Entry(p)
      BY DEF Ledger
    <3> QED
      BY <1>1, <1>2, <1>3, <2>2, <3>1 DEF Entry, Onward
  <2> QED
    BY <1>1, <1>4, <2>4, <2>5, <2>6, LedgerFrame
<1>6. CASE CreateNew(t)
  <2>1. PICK o \in Objs : state[o] = "free" /\ state' = [state EXCEPT ![o] = "Created"]
                          /\ robj' = [robj EXCEPT ![t] = o]
    BY <1>6 DEF CreateNew
  <2>2. pc'[t] = "c_insert" /\ robj'[t] = o /\ state'[o] = "Created"
    BY <1>0, <1>6, <2>1 DEF CreateNew, Handlers
  <2>3. /\ \A i \in Ids : instances[i] # o
        /\ \A u \in Threads : robj[u] # o
        /\ ~Has(o, "create") /\ ~Has(o, "delete")
    BY <2>1 DEF Ledger, Entry
  <2>4. Duties(t)'
    BY <1>1, <1>2, <2>2, <2>3 DEF Duties
  <2>5. ASSUME NEW u \in Threads \ {t} PROVE Apart(t, u)' /\ Apart(u, t)'
    BY <1>1, <2>2, <2>3 DEF Apart, OtherHandlers
  <2>6. ASSUME NEW p \in Objs PROVE Entry(p)'
    <3>1. Entry(p)
      BY DEF Ledger
    <3>2. state'[p] = "free" => p # o /\ state[p] = "free"
      BY <1>1, <2>2 DEF Onward
    <3>3. state'[p] = "free" => \A u \in Threads : robj'[u] # p
      BY <1>1, <2>2, <3>1, <3>2 DEF Entry, OtherHandlers
    <3> QED
      BY <1>1, <1>2, <1>3, <3>1, <3>2, <3>3 DEF Entry, Onward
  <2> QED
    BY <1>1, <1>4, <2>4, <2>5, <2>6, LedgerFrame
<1> QED
  BY <1>5, <1>6

\* The map changes: the insert of create, and the remove of delete.
LEMMA MapLedger ==
  ASSUME TypeOK, HasObj, Ledger, NEW t \in Threads, CreateInsert(t) \/ DeleteRemove(t)
  PROVE  OtherHandlers(t) /\ Ledger'
<1> USE DEF NoArc, Registering, Launching, Unannounced, Starting
<1>0. Handlers /\ instances \in [Ids -> Objs \cup {NoObj}]
  BY DEF TypeOK, Handlers
<1>1. PICK o \in Objs : o = robj[t]
  BY DEF CreateInsert, DeleteRemove, HasObj
<1>2. OtherHandlers(t) /\ robj' = robj /\ rid' = rid /\ UNCHANGED <<events, waiter, state>>
  BY <1>0 DEF Handlers, CreateInsert, DeleteRemove, OtherHandlers
<1>3. \A p, e : Has(p, e)' <=> Has(p, e)
  BY <1>2 DEF Has
<1>4. \A p : Order(p)' <=> Order(p)
  BY <1>2 DEF Order
<1>5. CASE CreateInsert(t)
  <2>1. /\ pc[t] = "c_insert" /\ pc'[t] = "c_event"
        /\ \A i \in Ids : instances'[i] = IF i = rid[t] THEN o ELSE instances[i]
    BY <1>0, <1>1, <1>5 DEF CreateInsert, Handlers
  <2>2. /\ \A i \in Ids : instances[i] # o
        /\ \A u \in Threads \ {t} : robj[u] # o
        /\ ~Has(o, "delete") /\ ~Has(o, "create")
    BY <1>1, <2>1 DEF Ledger, Duties, Apart
  <2>3. state[o] # "free"
    BY <1>1 DEF Ledger, Entry
  <2>4. ASSUME NEW p \in Objs PROVE Entry(p)'
    <3>1. Entry(p)
      BY DEF Ledger
    <3>2. p # o => \A i \in Ids : instances'[i] = p => instances[i] = p
      BY <2>1
    <3>3. p = o => \A i \in Ids : instances'[i] = p => i = rid[t]
      BY <2>1, <2>2
    <3> QED
      BY <1>2, <1>3, <1>4, <2>2, <2>3, <3>1, <3>2, <3>3 DEF Entry
  <2>5. ASSUME NEW u \in Threads PROVE Duties(u)'
    <3>1. Duties(u) /\ (pc[u] \notin NoArc => robj[u] \in Objs)
      BY DEF Ledger, HasObj
    <3>2. CASE u = t
      BY <1>1, <1>2, <1>3, <2>1, <2>2, <3>2 DEF Duties
    <3>3. CASE u # t
      <4>1. \A i \in Ids : instances'[i] = robj[u] => instances[i] = robj[u]
        BY <2>1, <2>2, <3>3
      <4> QED
        BY <1>2, <1>3, <3>1, <3>3, <4>1 DEF Duties, OtherHandlers
    <3> QED
      BY <3>2, <3>3
  <2>6. ASSUME NEW u \in Threads \ {t} PROVE Apart(t, u)' /\ Apart(u, t)'
    BY <1>1, <1>2, <2>2 DEF Apart
  <2> QED
    BY <1>2, <2>4, <2>5, <2>6, LedgerFrame
<1>6. CASE DeleteRemove(t)
  <2>1. /\ pc[t] = "d_remove" /\ pc'[t] = "d_event"
        /\ \A i \in Ids : instances'[i] = IF i = rid[t] THEN NoObj ELSE instances[i]
    BY <1>0, <1>6 DEF DeleteRemove, Handlers
  <2>2. \A i \in Ids : \A p \in Objs : instances'[i] = p => instances[i] = p
    BY <2>1
  <2>3. \A i \in Ids : instances'[i] # o
    BY <1>1, <2>1, SMT DEF Ledger, Duties
  <2>4. ASSUME NEW p \in Objs PROVE Entry(p)'
    <3>1. Entry(p)
      BY DEF Ledger
    <3> QED
      BY <1>2, <1>3, <1>4, <2>2, <3>1 DEF Entry
  <2>5. ASSUME NEW u \in Threads PROVE Duties(u)'
    <3>1. Duties(u) /\ (pc[u] \notin NoArc => robj[u] \in Objs)
      BY DEF Ledger, HasObj
    <3>2. CASE u = t
      BY <1>1, <1>2, <2>1, <2>3, <3>2 DEF Duties
    <3>3. CASE u # t
      BY <1>2, <1>3, <2>2, <3>1, <3>3 DEF Duties, OtherHandlers
    <3> QED
      BY <3>2, <3>3
  <2>6. ASSUME NEW u \in Threads \ {t} PROVE Apart(t, u)' /\ Apart(u, t)'
    <3>1. Apart(t, u) /\ Apart(u, t)
      BY DEF Ledger
    <3> QED
      BY <1>2, <2>1, <3>1 DEF Apart, OtherHandlers
  <2> QED
    BY <1>2, <2>4, <2>5, <2>6, LedgerFrame
<1> QED
  BY <1>5, <1>6

\* A thread publishes an event of its instance.
LEMMA EventLedger ==
  ASSUME TypeOK, HasObj, Ledger, NEW t \in Threads,
         CreateEvent(t) \/ StartEvent(t) \/ DeleteEvent(t)
  PROVE  OtherHandlers(t) /\ Ledger'
<1> USE DEF NoArc, Registering, Launching, Unannounced, Starting
<1>0. Handlers
  BY DEF TypeOK, Handlers
<1>1. PICK o \in Objs : o = robj[t]
  BY DEF CreateEvent, StartEvent, DeleteEvent, HasObj
<1>2. OtherHandlers(t) /\ UNCHANGED <<instances, waiter, state>>
  BY <1>0 DEF Handlers, CreateEvent, StartEvent, DeleteEvent, Return, OtherHandlers
<1>3. PICK e \in {"create", "start", "delete"} :
        /\ Publish(o, e)
        /\ e = "create" => pc[t] = "c_event" /\ pc'[t] = "c_hooks" /\ robj'[t] = o
                           /\ rid'[t] = rid[t]
        /\ e = "start" => pc[t] = "s_event" /\ pc'[t] = "s_spawn" /\ robj'[t] = o
                          /\ rid'[t] = rid[t]
        /\ e = "delete" => pc[t] = "d_event" /\ pc'[t] = "idle" /\ robj'[t] = NoObj
  BY <1>0, <1>1 DEF Handlers, CreateEvent, StartEvent, DeleteEvent, Return
<1>4. /\ Adds(o, e)
      /\ \A p \in Objs \ {o} : Order(p)' <=> Order(p)
      /\ (e # "delete" => ~Has(o, e)) /\ (e = "start" => ~Has(o, "exit")) /\ Order(o)
           => Order(o)'
  <2>1. e \in {"create", "start", "exit", "delete"}
    OBVIOUS
  <2>2. Publish(o, e)
    BY <1>3
  <2> QED
    BY <2>1, <2>2, Published, ZenonT(40)
<1>5. /\ e \in {"create", "start"} => ~Has(o, e)
      /\ e = "start" => state[o] \notin {"free", "Created"} /\ ~Has(o, "exit")
      /\ e = "delete" => \A i \in Ids : instances[i] # o
      /\ state[o] # "free"
  <2>1. Duties(t) /\ Entry(o) /\ (e = "create" => pc[t] = "c_event")
        /\ (e = "start" => pc[t] = "s_event") /\ (e = "delete" => pc[t] = "d_event")
    <3>1. e = "delete" => pc[t] = "d_event"
      BY <1>3
    <3> QED
      BY <1>3, <3>1 DEF Ledger
  <2> QED
    BY <1>1, <2>1 DEF Duties, Entry
<1>6. ASSUME NEW p \in Objs PROVE Entry(p)'
  <2>1. Entry(p)
    BY DEF Ledger
  <2>2. Order(p)'
    <3>1. Order(p)
      BY <2>1 DEF Entry
    <3>2. CASE p = o
      BY <1>3, <1>4, <1>5, <3>1, <3>2
    <3>3. CASE p # o
      BY <1>4, <3>1, <3>3
    <3> QED
      BY <3>2, <3>3
  <2>3. state[p] = "free" => \A u \in Threads : robj'[u] # p
    BY <1>2, <1>3, <1>5, <2>1 DEF Entry, OtherHandlers
  <2>4. /\ \A f : Has(p, f) => Has(p, f)'
        /\ Has(p, "exit")' => Has(p, "exit")
        /\ Has(p, "create")' => Has(p, "create") \/ p = o
        /\ Has(p, "start")' => Has(p, "start") \/ (p = o /\ e = "start")
        /\ Has(p, "delete")' => Has(p, "delete") \/ (p = o /\ e = "delete")
    <3>1. e # "exit"
      OBVIOUS
    <3> QED
      BY <1>4, <3>1, SMT DEF Adds
  <2> QED
    BY <1>2, <1>5, <2>1, <2>2, <2>3, <2>4 DEF Entry
<1>7. ASSUME NEW u \in Threads \ {t} PROVE Duties(u)' /\ Apart(t, u)' /\ Apart(u, t)'
  <2>1. Duties(u) /\ Apart(t, u) /\ Apart(u, t) /\ (pc[u] \notin NoArc => robj[u] \in Objs)
    BY DEF Ledger, HasObj
  <2>2. Apart(t, u)' /\ Apart(u, t)'
    BY <1>1, <1>2, <1>3, <2>1 DEF Apart, OtherHandlers
  <2>3. robj[u] = o => /\ pc[u] # "c_insert"
                       /\ e = "create" => pc[u] \notin Registering
                       /\ e = "start" => pc[u] \notin Launching
    BY <1>1, <1>3, <2>1 DEF Apart
  <2> QED
    BY <1>2, <1>4, <2>1, <2>2, <2>3 DEF Duties, OtherHandlers, Adds
<1>8. Duties(t)'
  BY <1>1, <1>2, <1>3, <1>4, <1>5 DEF Ledger, Duties, Adds
<1> QED
  BY <1>2, <1>6, <1>7, <1>8, LedgerFrame

\* The wait thread of an instance is spawned, wakes up and publishes the exit.
LEMMA WaiterLedger ==
  ASSUME TypeOK, HasObj, Ledger, NEW o \in Objs,
         UNCHANGED <<instances, pc, rid, robj>>,
         \A p \in Objs \ {o} : waiter'[p] = waiter[p] /\ state'[p] = state[p],
         state'[o] \in {state[o], "Exited"},
         waiter[o] # "none", waiter'[o] # "none",
         \/ waiter'[o] # "done" /\ waiter[o] # "done" /\ UNCHANGED events
         \/ waiter'[o] = "done" /\ waiter[o] # "done" /\ Publish(o, "exit")
  PROVE  Ledger'
<1> USE DEF NoArc, Registering, Launching, Unannounced, Starting
<1>1. state[o] \notin {"free", "Created"} /\ ~Has(o, "exit")
  BY DEF Ledger, Entry
<1>2. \A p \in Objs : \A f :
        /\ Has(p, f) => Has(p, f)'
        /\ Has(p, f)' => Has(p, f) \/ (p = o /\ f = "exit" /\ waiter'[o] = "done")
  <2>1. CASE waiter'[o] # "done" /\ UNCHANGED events
    BY <2>1 DEF Has
  <2>2. CASE waiter'[o] = "done" /\ Publish(o, "exit")
    <3>1. Adds(o, "exit")
      BY <2>2, Published
    <3> QED
      BY <2>2, <3>1 DEF Adds
  <2> QED
    BY <2>1, <2>2
<1>3. \A p \in Objs : Order(p) => Order(p)'
  <2>1. CASE UNCHANGED events
    BY <2>1 DEF Order
  <2> QED
    BY <1>1, <2>1, Published
<1>4. ASSUME NEW p \in Objs PROVE Entry(p)'
  BY <1>1, <1>2, <1>3, SMT DEF Ledger, Entry
<1>5. ASSUME NEW u \in Threads PROVE Duties(u)'
  <2>1. Duties(u) /\ (pc[u] \notin NoArc => robj[u] \in Objs)
    BY DEF Ledger, HasObj
  <2>2. pc[u] \in Launching => robj[u] # o
    BY <2>1 DEF Duties
  <2>3. CASE pc[u] \in NoArc
    BY <2>3 DEF Duties
  <2>4. CASE pc[u] \notin NoArc
    <3>1. /\ Has(robj[u], "create")' <=> Has(robj[u], "create")
          /\ Has(robj[u], "start")' <=> Has(robj[u], "start")
          /\ Has(robj[u], "delete")' <=> Has(robj[u], "delete")
      <4>1. robj[u] \in Objs
        BY <2>1, <2>4
      <4> QED
        BY <1>2, <4>1, SMT
    <3> QED
      BY <2>1, <2>2, <2>4, <3>1 DEF Duties
  <2> QED
    BY <2>3, <2>4
<1>6. ASSUME NEW u \in Threads, NEW v \in Threads \ {u} PROVE Apart(u, v)'
  BY DEF Ledger, Apart
<1> QED
  BY <1>4, <1>5, <1>6 DEF Ledger

\* The last step of start.
LEMMA SpawnLedger ==
  ASSUME TypeOK, HasObj, Ledger, NEW t \in Threads, StartSpawn(t)
  PROVE  OtherHandlers(t) /\ Ledger'
<1> USE DEF NoArc, Registering, Launching, Unannounced, Starting
<1>0. Handlers /\ waiter \in [Objs -> {"none", "blocked", "mark", "send", "done"}]
  BY DEF TypeOK, Handlers
<1>1. PICK o \in Objs : o = robj[t]
  BY DEF StartSpawn, HasObj
<1>2. /\ OtherHandlers(t) /\ pc[t] = "s_spawn" /\ pc'[t] = "idle" /\ robj'[t] = NoObj
      /\ UNCHANGED <<instances, events, state>>
      /\ waiter'[o] \in {"blocked", waiter[o]}
      /\ \A p \in Objs \ {o} : waiter'[p] = waiter[p]
  BY <1>0, <1>1 DEF Handlers, StartSpawn, Return, OtherHandlers
<1>3. \A p, e : Has(p, e)' <=> Has(p, e)
  BY <1>2 DEF Has
<1>4. \A p : Order(p)' <=> Order(p)
  BY <1>2 DEF Order
<1>5. waiter[o] = "none" /\ state[o] \notin {"free", "Created"}
  BY <1>1, <1>2 DEF Ledger, Duties
<1>6. ASSUME NEW p \in Objs PROVE Entry(p)'
  <2>1. Entry(p)
    BY DEF Ledger
  <2>2. state[p] = "free" => \A u \in Threads : robj'[u] # p
    BY <1>2, <2>1 DEF Entry, OtherHandlers
  <2> QED
    BY <1>2, <1>3, <1>4, <1>5, <2>1, <2>2 DEF Entry
<1>7. ASSUME NEW u \in Threads \ {t} PROVE Duties(u)'
  <2>1. Duties(u) /\ Apart(t, u) /\ (pc[u] \notin NoArc => robj[u] \in Objs)
    BY DEF Ledger, HasObj
  <2>2. pc[u] \in Launching => robj[u] # o
    BY <1>1, <1>2, <2>1 DEF Apart
  <2> QED
    BY <1>2, <1>3, <2>1, <2>2 DEF Duties, OtherHandlers
<1>8. Duties(t)' /\ \A u \in Threads \ {t} : Apart(t, u)' /\ Apart(u, t)'
  BY <1>2 DEF Duties, Apart
<1> QED
  BY <1>2, <1>6, <1>7, <1>8, LedgerFrame

LEMMA ThreadLedger ==
  ASSUME TypeOK, HasObj, Ledger, NEW t \in Threads, Arrive(t) \/ LockStep(t) \/ Step(t)
  PROVE  Ledger'
<1>1. CASE Calm(t)
  BY <1>1, CalmSteps, CalmLedger DEF Kept
<1>2. ASSUME NEW r, NEW l \in {"s_lock", "k_lock", "d_lock", "w_wait", "q_pid"},
             get_instance(t, r, l)
      PROVE  Ledger'
  BY <1>2, GetLedger
<1> QED
  BY <1>1, <1>2, LockLedger, MapLedger, EventLedger, SpawnLedger
     DEF Arrive, LockStep, Step, Calm, StartGet, KillGet, DeleteGet, WaitGet, StateGet

LEMMA BackgroundLedger ==
  ASSUME TypeOK, HasObj, Ledger, NEW o \in Objs,
         Background(o) \/ WaiterMark(o) \/ ReapError(o) \/ ProcExit(o)
  PROVE  Ledger'
<1>0. /\ state \in [Objs -> TaskStates \cup {"free"}]
      /\ waiter \in [Objs -> {"none", "blocked", "mark", "send", "done"}]
  BY DEF TypeOK
<1>1. CASE WaiterWake(o)
  BY <1>0, <1>1, WaiterLedger DEF WaiterWake
<1>2. CASE WaiterSend(o)
  BY <1>0, <1>2, WaiterLedger DEF WaiterSend
<1>3. CASE WaiterMark(o)
  BY <1>0, <1>3, WaiterLedger DEF WaiterMark
<1>4. CASE Reap(o) \/ GuardDrop(o) \/ ReapError(o) \/ ProcExit(o)
  <2>1. UNCHANGED <<instances, state, waiter, pc, rid, robj, events>>
    BY <1>4 DEF Reap, GuardDrop, ReapError, ProcExit
  <2>2. \A p, e : Has(p, e)' <=> Has(p, e)
    BY <2>1 DEF Has
  <2>3. \A p : Order(p)' <=> Order(p)
    BY <2>1 DEF Order
  <2> QED
    BY <2>1, <2>2, <2>3 DEF Ledger, Duties, Apart, Entry
<1> QED
  BY <1>1, <1>2, <1>3, <1>4 DEF Background

\* The ledger is kept by every step.
LEMMA LedgerKept == SafeSpec => []Ledger
<1>1. Init => Ledger
  <2> SUFFICES ASSUME Init PROVE Ledger
    OBVIOUS
  <2>1. \A o \in Objs : DOMAIN events[o] = {}
    BY SMT DEF Init
  <2>2. \A o \in Objs : Order(o) /\ \A e : ~Has(o, e)
    BY <2>1 DEF Order, Has
  <2> QED
    BY <2>2 DEF Init, Ledger, Duties, Apart, Entry, NoArc, Registering, Launching,
                Unannounced, Starting
<1>2. TypeOK /\ HasObj /\ Ledger /\ [Next]_vars => Ledger'
  <2> SUFFICES ASSUME TypeOK, HasObj, Ledger, [Next]_vars PROVE Ledger'
    OBVIOUS
  <2>1. CASE ShimExit \/ UNCHANGED vars
    <3>1. UNCHANGED <<instances, state, waiter, pc, rid, robj, events>>
      BY <2>1 DEF ShimExit, vars
    <3>2. \A p, e : Has(p, e)' <=> Has(p, e)
      BY <3>1 DEF Has
    <3>3. \A p : Order(p)' <=> Order(p)
      BY <3>1 DEF Order
    <3> QED
      BY <3>1, <3>2, <3>3 DEF Ledger, Duties, Apart, Entry
  <2> QED
    BY <2>1, ThreadLedger, BackgroundLedger DEF Next
<1> QED
  BY <1>1, <1>2, TypeAndObj, PTL DEF SafeSpec

\* local.rs, task_start and the wait thread: TaskCreate, TaskStart and TaskExit of an
\* instance each arrive at most once, and TaskStart never after TaskExit.
THEOREM EventsInOrder == SafeSpec => []ExitAfterStart
<1>1. Ledger => ExitAfterStart
  BY DEF Ledger, Entry, Order, ExitAfterStart
<1> QED
  BY <1>1, LedgerKept, PTL

\* local.rs, task_delete: the entry is removed before TaskDelete is sent, and no
\* create that overlaps puts it back.
THEOREM DeletedIsGone == SafeSpec => []DeletedUnregistered
<1>1. Ledger => DeletedUnregistered
  BY DEF Ledger, Entry, Has, DeletedUnregistered
<1> QED
  BY <1>1, LedgerKept, PTL

-----------------------------------------------------------------------------
(* The status that a state RPC tells: it reads the pid first, then the exit  *)
(* code, and neither is ever lost.                                           *)

Asking == {"q_pid", "q_code", "q_mark", "q_reply"}

StatusKept(o) == (shown[o] > 0 => pid[o]) /\ (shown[o] = 2 => exit[o] # NoCode)

StatusRead(t) == LET o == robj[t] IN
  /\ pc[t] \in Asking => /\ rseen[t] > 0 => pid[o]
                         /\ rseen[t] = 2 => exit[o] # NoCode
  /\ pc[t] \in Asking \ {"q_pid"} => /\ rpid[t] => pid[o]
                                     /\ rseen[t] > 0 => rpid[t]
  /\ pc[t] \in {"q_mark", "q_reply"} => (rseen[t] = 2 => rcode[t] # NoCode)

Seen == (\A t \in Threads : StatusRead(t)) /\ (\A o \in Objs : StatusKept(o))

\* The parts of TypeOK that the lemmas below need.
Threaded ==
  /\ pc \in [Threads -> PCs] /\ robj \in [Threads -> Objs \cup {NoObj}]
  /\ rcode \in [Threads -> Codes \cup {NoCode}]
  /\ rpid \in [Threads -> BOOLEAN] /\ rseen \in [Threads -> 0..2]

\* No step takes a pid or a code from an instance or anything from another thread.
Grows == \A o \in Objs : (pid[o] => pid'[o]) /\ (exit[o] # NoCode => exit'[o] # NoCode)
Others(t) == \A u \in Threads \ {t} :
  /\ pc'[u] = pc[u] /\ robj'[u] = robj[u] /\ rcode'[u] = rcode[u]
  /\ rpid'[u] = rpid[u] /\ rseen'[u] = rseen[u]

\* A step of a thread that keeps what the statuses rest on.
LEMMA SeenFrame ==
  ASSUME Seen, HasObj, NEW t \in Threads, Others(t), Grows, StatusRead(t)',
         \A o \in Objs : shown'[o] # shown[o] => StatusKept(o)'
  PROVE  Seen'
<1>1. ASSUME NEW u \in Threads \ {t} PROVE StatusRead(u)'
  <2>1. StatusRead(u) /\ (pc[u] \in Asking => robj[u] \in Objs)
    BY DEF Seen, HasObj, Asking
  <2>2. CASE pc[u] \in Asking
    <3>1. PICK p \in Objs : p = robj[u]
      BY <2>1, <2>2
    <3> QED
      BY <2>1, <2>2, <3>1 DEF StatusRead, Others, Grows
  <2>3. CASE pc[u] \notin Asking
    BY <2>3 DEF StatusRead, Others, Asking
  <2> QED
    BY <2>2, <2>3
<1>2. ASSUME NEW p \in Objs PROVE StatusKept(p)'
  BY DEF Seen, StatusKept, Grows
<1> QED
  BY <1>1, <1>2 DEF Seen

\* The steps of a thread, as far as the status is concerned.
LEMMA ThreadKeeps ==
  ASSUME TypeOK, HasObj, NEW t \in Threads, LockStep(t) \/ Step(t) \/ Arrive(t)
  PROVE  /\ Others(t) /\ Grows
         /\ \/ UNCHANGED shown /\ pc'[t] \notin Asking
            \/ StateGet(t) \/ StatePid(t) \/ StateCode(t) \/ StateMark(t) \/ StateReply(t)
            \/ WaitMark(t)
<1>0. Threaded
  BY DEF TypeOK, Threaded
<1> USE DEF Return
<1>1. CASE CreateFail(t) \/ CreateNew(t) \/ CreateInsert(t) \/ CreateEvent(t) \/ CreateHooks(t)
  BY <1>0, <1>1 DEF CreateFail, CreateNew, CreateInsert, CreateEvent, CreateHooks, Threaded,
                    Others, Grows, Asking
<1>2. CASE StartCallOk(t) \/ StartDone(t) \/ StartStop(t) \/ StartEvent(t) \/ StartSpawn(t)
  BY <1>0, <1>2 DEF StartCallOk, StartDone, StartStop, StartEvent, StartSpawn, Threaded,
                    Others, Grows, Asking
<1>3. CASE StartPid(t)
  <2>1. pid \in [Objs -> BOOLEAN] /\ robj[t] \in Objs
    BY <1>3 DEF TypeOK, HasObj, StartPid
  <2> QED
    BY <1>0, <1>3, <2>1 DEF StartPid, Threaded, Others, Grows, Asking
<1>4. CASE StartCallErr(t)
  <2>1. robj[t] \in Objs /\ exit \in [Objs -> Codes \cup {NoCode}]
    BY <1>4 DEF StartCallErr, HasObj, TypeOK
  <2>2. \A o \in Objs : exit[o] # NoCode => exit'[o] # NoCode
    BY <1>4, <2>1 DEF StartCallErr
  <2>3. Others(t) /\ pc'[t] \notin Asking
    BY <1>0, <1>4, SMT DEF StartCallErr, Threaded, Others, Asking
  <2> QED
    BY <1>4, <2>2, <2>3 DEF StartCallErr, Grows
<1>5. CASE \/ KillCall(t) \/ DeleteCallOk(t) \/ DeleteCallErr(t) \/ DeleteCode(t)
           \/ DeleteRemove(t) \/ DeleteEvent(t) \/ WaitWake(t) \/ ShutdownSignal(t)
  BY <1>0, <1>5 DEF KillCall, DeleteCallOk, DeleteCallErr, DeleteCode, DeleteRemove,
                    DeleteEvent, WaitWake, ShutdownSignal, Threaded, Others, Grows, Asking
<1>6. CASE \/ StartLock(t) \/ StartRefused(t) \/ KillLock(t) \/ KillRefused(t)
           \/ DeleteLock(t) \/ DeleteRefused(t) \/ DeleteMark(t) \/ StartPanic(t)
  BY <1>0, <1>6 DEF StartLock, StartRefused, KillLock, KillRefused, DeleteLock,
                    DeleteRefused, DeleteMark, StartPanic, Threaded, Others, Grows, Asking
<1>7. CASE (\E i \in Ids : CreateCheck(t, i)) \/ ShutdownCheck(t)
  BY <1>0, <1>7 DEF CreateCheck, ShutdownCheck, Threaded, Others, Grows, Asking
<1>8. ASSUME NEW r, NEW l, get_instance(t, r, l)
      PROVE  Others(t) /\ Grows /\ UNCHANGED shown /\ pc'[t] = l
  BY <1>0, <1>8 DEF get_instance, Threaded, Others, Grows
<1>9. CASE StartGet(t) \/ KillGet(t) \/ DeleteGet(t) \/ WaitGet(t) \/ StateGet(t)
  <2>1. CASE StateGet(t)
    BY <1>8, <2>1 DEF StateGet
  <2>2. CASE StartGet(t) \/ KillGet(t) \/ DeleteGet(t) \/ WaitGet(t)
    <3>1. Others(t) /\ Grows /\ UNCHANGED shown
          /\ pc'[t] \in {"s_lock", "k_lock", "d_lock", "w_wait"}
      BY <1>8, <2>2 DEF StartGet, KillGet, DeleteGet, WaitGet
    <3> QED
      BY <3>1 DEF Asking
  <2> QED
    BY <1>9, <2>1, <2>2
<1>10. CASE StatePid(t) \/ StateCode(t) \/ StateMark(t) \/ StateReply(t) \/ WaitMark(t)
  BY <1>0, <1>10 DEF StatePid, StateCode, StateMark, StateReply, WaitMark, Threaded, Others, Grows
<1> QED
  BY <1>1, <1>2, <1>3, <1>4, <1>5, <1>6, <1>7, <1>9, <1>10
     DEF Arrive, LockStep, Step

LEMMA ThreadSeen ==
  ASSUME Inv, Seen, NEW t \in Threads, Arrive(t) \/ LockStep(t) \/ Step(t)
  PROVE  Seen'
<1> USE DEF Inv
<1>0. Threaded /\ shown \in [Objs -> 0..2] /\ Others(t) /\ Grows
  BY ThreadKeeps DEF TypeOK, Threaded
<1>1. CASE UNCHANGED shown /\ pc'[t] \notin Asking
  <2>1. StatusRead(t)'
    BY <1>1 DEF StatusRead, Asking
  <2> QED
    BY <1>0, <1>1, <2>1, SeenFrame
<1>2. CASE StateGet(t)
  <2>1. PICK i \in Ids : /\ instances[i] # NoObj
                         /\ robj' = [robj EXCEPT ![t] = instances[i]]
                         /\ rseen' = [rseen EXCEPT ![t] = shown[instances[i]]]
    BY <1>2 DEF StateGet, get_instance
  <2>2. PICK o \in Objs : o = instances[i]
    BY <2>1 DEF TypeOK
  <2>3. pc'[t] = "q_pid" /\ robj'[t] = o /\ rseen'[t] = shown[o] /\ shown' = shown
    BY <1>0, <1>2, <2>1, <2>2 DEF StateGet, get_instance, Threaded
  <2>4. StatusRead(t)'
    BY <1>0, <2>3 DEF Seen, StatusKept, StatusRead, Grows
  <2> QED
    BY <1>0, <2>3, <2>4, SeenFrame
<1>3. CASE StatePid(t) \/ StateCode(t) \/ StateMark(t)
  <2>1. PICK o \in Objs : o = robj[t]
    BY <1>3 DEF StatePid, StateCode, StateMark, HasObj
  <2>2. /\ robj'[t] = o /\ rseen'[t] = rseen[t]
        /\ UNCHANGED <<shown, pid, exit>>
    BY <1>3, <2>1 DEF StatePid, StateCode, StateMark
  <2>3. \/ pc[t] = "q_pid" /\ pc'[t] = "q_code" /\ rpid'[t] = pid[o]
        \/ pc[t] = "q_code" /\ pc'[t] \in {"q_reply", "q_mark"} /\ rpid'[t] = rpid[t]
           /\ rcode'[t] = exit[o]
        \/ pc[t] = "q_mark" /\ pc'[t] = "q_reply" /\ rpid'[t] = rpid[t]
           /\ rcode'[t] = rcode[t]
    BY <1>0, <1>3, <2>1 DEF StatePid, StateCode, StateMark, Threaded
  <2>4. StatusRead(t)'
    BY <2>1, <2>2, <2>3 DEF Seen, StatusRead, Asking
  <2> QED
    BY <1>0, <2>2, <2>4, SeenFrame
<1>4. CASE StateReply(t)
  <2>1. PICK o \in Objs : o = robj[t]
    BY <1>4 DEF StateReply, HasObj
  <2>2. /\ pc[t] = "q_reply" /\ pc'[t] = "idle"
        /\ shown' = [shown EXCEPT ![o] = IF Status(t) > @ THEN Status(t) ELSE @]
        /\ UNCHANGED <<pid, exit>>
    BY <1>0, <1>4, <2>1 DEF StateReply, Return, Threaded
  <2>3. Status(t) \in 0..2 /\ (Status(t) > 0 => pid[o]) /\ (Status(t) = 2 => exit[o] # NoCode)
    BY <2>1, <2>2, SMT DEF Seen, StatusRead, Status, Asking, CodesAgree, CodeRead
  <2>4. ASSUME NEW p \in Objs PROVE StatusKept(p)'
    BY <1>0, <2>2, <2>3 DEF Seen, StatusKept
  <2>5. StatusRead(t)'
    BY <2>2, SMT DEF StatusRead, Asking
  <2> QED
    BY <1>0, <2>4, <2>5, SeenFrame
<1>5. CASE WaitMark(t)
  <2>1. PICK o \in Objs : o = robj[t]
    BY <1>5 DEF WaitMark, HasObj
  <2>2. /\ pc[t] = "w_mark" /\ pc'[t] = "idle" /\ lock[o] = NoThread
        /\ TellStopped(o) /\ UNCHANGED <<pid, exit>>
    BY <1>0, <1>5, <2>1 DEF WaitMark, Return, Threaded
  <2>3. exit[o] # NoCode /\ ("up" \in hist[o] => pid[o])
    BY <2>1, <2>2 DEF CodesAgree, CodeRead, History, StateHistory
  <2>4. ASSUME NEW p \in Objs PROVE StatusKept(p)'
    BY <1>0, <2>2, <2>3 DEF TellStopped, Seen, StatusKept
  <2>5. StatusRead(t)'
    BY <2>2, SMT DEF StatusRead, Asking
  <2> QED
    BY <1>0, <2>4, <2>5, SeenFrame
<1> QED
  BY <1>1, <1>2, <1>3, <1>4, <1>5, ThreadKeeps

LEMMA BackgroundSeen ==
  ASSUME Inv, Ledger, Seen, NEW o \in Objs,
         Background(o) \/ WaiterMark(o) \/ ReapError(o) \/ ProcExit(o)
  PROVE  Seen'
<1> USE DEF Inv
<1>1. UNCHANGED <<pid, pc, robj, rcode, rpid, rseen>>
  BY DEF Background, Reap, GuardDrop, WaiterWake, WaiterSend, WaiterMark, ReapError,
               ProcExit
<1>2. \A p \in Objs : exit[p] # NoCode => exit'[p] # NoCode
  <2>1. exit \in [Objs -> Codes \cup {NoCode}]
    BY DEF TypeOK
  <2>2. (\E c : SetExit(o, c)) \/ UNCHANGED exit
    BY DEF Background, Reap, GuardDrop, WaiterWake, WaiterSend, WaiterMark, ReapError,
           ProcExit
  <2> QED
    BY <2>1, <2>2
<1>3. \A u \in Threads : pc[u] \in Asking => robj[u] \in Objs
  BY DEF HasObj, Asking
<1>4. \A u \in Threads : StatusRead(u)'
  BY <1>1, <1>2, <1>3 DEF Seen, StatusRead, Asking
<1>5. CASE UNCHANGED shown
  BY <1>1, <1>2, <1>4, <1>5 DEF Seen, StatusKept
<1>6. CASE WaiterSend(o)
  <2>1. waiter[o] = "send" /\ TellStopped(o) /\ UNCHANGED exit
    BY <1>6 DEF WaiterSend
  <2>2. exit[o] # NoCode
    BY <2>1 DEF CodesAgree, CodeKnown
  <2>3. "up" \in hist[o] => pid[o]
    <3>1. StateHistory(o) /\ \A u \in Threads : Duties(u)
      BY DEF History, Ledger
    <3> QED
      BY <2>1, <3>1 DEF StateHistory, Duties, Launching, Unannounced, Starting
  <2>4. shown \in [Objs -> 0..2]
    BY DEF TypeOK
  <2>5. ASSUME NEW p \in Objs PROVE StatusKept(p)'
    BY <1>1, <2>1, <2>2, <2>3, <2>4 DEF TellStopped, Seen, StatusKept
  <2> QED
    BY <1>4, <2>5 DEF Seen
<1> QED
  BY <1>5, <1>6 DEF Background, Reap, GuardDrop, WaiterWake, WaiterMark, ReapError, ProcExit

\* local.rs, task_state: the status of an instance never goes back, though the pid and
\* the exit code are read at different moments.
THEOREM StatusNeverBack == SafeSpec => []StatusMonotone
<1>1. Init => Seen
  BY SMT DEF Init, Seen, StatusRead, StatusKept, Asking
<1>2. Inv /\ Ledger /\ Seen /\ [Next]_vars => Seen'
  <2> SUFFICES ASSUME Inv, Ledger, Seen, [Next]_vars PROVE Seen'
    OBVIOUS
  <2>1. CASE ShimExit \/ UNCHANGED vars
    <3>1. UNCHANGED <<data, inst, waiter, local, ghosts>>
      BY <2>1 DEF ShimExit, vars
    <3> QED
      BY <3>1 DEF Seen, StatusRead, StatusKept
  <2> QED
    BY <2>1, ThreadSeen, BackgroundSeen DEF Next
<1>3. TypeOK /\ Seen => StatusMonotone
  <2> SUFFICES ASSUME TypeOK, Seen, NEW t \in Threads, pc[t] = "q_reply"
               PROVE  Status(t) >= rseen[t]
    BY DEF StatusMonotone
  <2>1. /\ rseen[t] \in 0..2 /\ (rseen[t] > 0 => rpid[t])
        /\ rseen[t] = 2 => rcode[t] # NoCode
    BY DEF TypeOK, Seen, StatusRead, Asking
  <2>2. CASE rseen[t] = 2
    BY <2>1, <2>2, SMT DEF Status
  <2>3. CASE rseen[t] = 1
    BY <2>1, <2>3, SMT DEF Status
  <2>4. CASE rseen[t] = 0
    BY <2>4, SMT DEF Status
  <2>5. rseen[t] = 0 \/ rseen[t] = 1 \/ rseen[t] = 2
    BY <2>1, SMT
  <2> QED
    BY <2>2, <2>3, <2>4, <2>5
<1> QED
  BY <1>1, <1>2, <1>3, Invariance, LedgerKept, PTL DEF SafeSpec, Inv

-----------------------------------------------------------------------------
(* A stopped task that is being deleted has a thread that will let go of it. *)

Owner(t, o) == robj[t] = o /\ Deleting(t)

Owned(o) == state[o] = "Deleting" /\ exit[o] # NoCode => \E t \in Threads : Owner(t, o)

LEMMA ThreadOwned ==
  ASSUME Inv, \A o \in Objs : Owned(o), NEW t \in Threads,
         Arrive(t) \/ LockStep(t) \/ Step(t), NEW p \in Objs
  PROVE  Owned(p)'
<1>0. /\ Shaped /\ HasObj /\ InnerTransitionOk(t) /\ StateHistory(p) /\ Owned(p)
      /\ Others(t)
  BY ThreadKeeps DEF Inv, TypeOK, Shaped, InnerTransitionsOk, History
<1>1. ASSUME state'[p] = "Deleting" => state[p] = "Deleting" /\ exit'[p] = exit[p],
             ~Deleting(t)
      PROVE  Owned(p)'
  BY <1>0, <1>1 DEF Owned, Owner, Deleting, Others
<1>2. CASE DeleteLock(t)
  <2>1. /\ pc'[t] = "d_call" /\ robj' = robj /\ UNCHANGED exit /\ pc[t] = "d_lock"
        /\ state'[p] = "Deleting" => state[p] = "Deleting" \/ p = robj[t]
    BY <1>0, <1>2 DEF DeleteLock, Shaped
  <2> QED
    BY <1>0, <1>1, <2>1 DEF Owned, Owner, Deleting
<1>3. CASE DeleteCallOk(t) \/ DeleteCode(t)
  <2>1. /\ UNCHANGED <<state, exit, robj>> /\ Deleting(t)
        /\ pc'[t] \in {"d_code", "d_mark"} \/ exit[robj[t]] = NoCode
    BY <1>0, <1>3 DEF DeleteCallOk, DeleteCode, Deleting, Shaped
  <2> QED
    BY <1>0, <2>1 DEF Owned, Owner, Deleting, Others
<1>4. CASE DeleteCallErr(t) \/ DeleteMark(t)
  <2>1. robj[t] \in Objs
    BY <1>4, <1>0 DEF DeleteCallErr, DeleteMark, HasObj
  <2>2. /\ UNCHANGED exit /\ state'[robj[t]] = "Exited"
        /\ p # robj[t] => state'[p] = state[p]
    BY <1>0, <1>4, <2>1 DEF DeleteCallErr, DeleteMark, InnerTransitionOk, Shaped
  <2> QED
    BY <1>0, <2>2 DEF Owned, Owner, Deleting, Others
<1>5. CASE StartCallErr(t)
  <2>1. /\ UNCHANGED state /\ state[robj[t]] = "Starting" /\ ~Deleting(t)
        /\ p # robj[t] => exit'[p] = exit[p]
    BY <1>0, <1>5 DEF StartCallErr, InnerTransitionOk, Deleting, Shaped
  <2> QED
    BY <1>1, <2>1
<1>6. CASE StartLock(t) \/ StartDone(t) \/ StartStop(t) \/ CreateNew(t)
           \/ WaitMark(t) \/ StateMark(t)
  <2>1. /\ UNCHANGED exit /\ ~Deleting(t)
        /\ state'[p] = "Deleting" => state[p] = "Deleting"
    BY <1>0, <1>6 DEF StartLock, StartDone, StartStop, CreateNew, WaitMark, StateMark,
                      Deleting, Shaped
  <2> QED
    BY <1>1, <2>1
<1>7. CASE UNCHANGED <<state, exit>> /\ ~Deleting(t)
  BY <1>1, <1>7
<1>8. CASE Arrive(t)
  BY <1>7, <1>8 DEF Arrive, CreateCheck, StartGet, KillGet, DeleteGet, WaitGet, StateGet,
                    get_instance, ShutdownCheck, Deleting
<1>9. CASE LockStep(t)
  BY <1>2, <1>4, <1>6, <1>7, <1>9 DEF LockStep, StartRefused, KillLock, KillRefused,
                                      DeleteRefused, Deleting
<1>10. CASE Step(t)
  BY <1>3, <1>4, <1>5, <1>6, <1>7, <1>10 DEF Step, CreateFail, CreateInsert, CreateEvent,
       CreateHooks, StartCallOk, StartPanic, StartPid, StartEvent, StartSpawn, KillCall,
       DeleteRemove, DeleteEvent, WaitWake, StatePid, StateCode, StateReply,
       ShutdownSignal, Deleting
<1> QED
  BY <1>8, <1>9, <1>10

\* After a wait has answered the task is stopped for everyone, and can be deleted by the
\* next delete that no other one is ahead of.
THEOREM WaitedStopped == SafeSpec => []WaitedMeansStopped
<1> DEFINE AllOwned == \A o \in Objs : Owned(o)
<1>1. Init => AllOwned
  BY DEF Init, Owned
<1>2. Inv /\ AllOwned /\ [Next]_vars => AllOwned'
  <2> SUFFICES ASSUME Inv, AllOwned, [Next]_vars, NEW p \in Objs PROVE Owned(p)'
    OBVIOUS
  <2>0. Shaped /\ StateHistory(p) /\ CodeKnown(p) /\ Owned(p)
    BY DEF Inv, TypeOK, Shaped, History, CodesAgree
  <2>1. CASE UNCHANGED <<pc, robj>>
             /\ (state'[p] = "Deleting" /\ exit'[p] # NoCode =>
                   state[p] = "Deleting" /\ exit[p] # NoCode)
    BY <2>0, <2>1 DEF Owned, Owner, Deleting
  <2>2. ASSUME NEW o \in Objs, Reap(o) \/ ReapError(o) \/ GuardDrop(o) PROVE Owned(p)'
    <3>1. /\ UNCHANGED <<pc, robj, state>> /\ reaper[o] # "none"
          /\ p # o => exit'[p] = exit[p]
      BY <2>0, <2>2 DEF Reap, ReapError, GuardDrop, Shaped
    <3>2. p = o /\ state[p] = "Deleting" => exit[p] # NoCode
      BY <2>0, <3>1, SMT DEF StateHistory
    <3> QED
      BY <2>1, <3>1, <3>2
  <2>3. ASSUME NEW o \in Objs,
               WaiterWake(o) \/ WaiterSend(o) \/ WaiterMark(o) \/ ProcExit(o)
        PROVE  Owned(p)'
    BY <2>0, <2>1, <2>3 DEF WaiterWake, WaiterSend, WaiterMark, ProcExit, Shaped
  <2>4. CASE ShimExit \/ UNCHANGED vars
    BY <2>1, <2>4 DEF ShimExit, vars
  <2>5. ASSUME NEW t \in Threads, Arrive(t) \/ LockStep(t) \/ Step(t) PROVE Owned(p)'
    BY <2>5, ThreadOwned
  <2> QED
    BY <2>2, <2>3, <2>4, <2>5 DEF Next, Background
<1>3. Inv /\ AllOwned => WaitedMeansStopped
  BY DEF Inv, History, StateHistory, Owned, Owner, WaitedMeansStopped
<1> QED
  BY <1>1, <1>2, <1>3, Invariance, PTL DEF SafeSpec

=============================================================================
