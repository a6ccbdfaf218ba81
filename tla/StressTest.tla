----------------------------- MODULE StressTest -----------------------------
(***************************************************************************)
(* The stress test tool (crates/stress-test): a client that runs many      *)
(* tasks on one shim, either through containerd (src/containerd) or by     *)
(* talking to the shim itself (src/mocks).  The life of a task is a future *)
(* of run_stress_test; one tokio task polls them all, so a step here is    *)
(* what it does between two awaits.                                        *)
(*                                                                         *)
(* Dropping a Task deletes it, and blocks the one task that polls until    *)
(* the deletion is over.  The service behind the requests is external: it  *)
(* keeps tasks as module TaskLifecycle describes, and may fail.            *)
(***************************************************************************)
EXTENDS Naturals, FiniteSets

CONSTANTS Tasks,     \* the tasks to run: --count of them
          Pause,     \* the task that keeps the shim running
          Parallel,  \* --parallel
          Modes,     \* with or without --containerd
          MaxFaults, \* how often a request or umount fails or the shim dies (a bound)
          NoTask

Everyone == Tasks \cup {Pause}

ASSUME StressAssumption ==
  /\ IsFiniteSet(Tasks) /\ Tasks # {} /\ Pause \notin Tasks /\ NoTask \notin Everyone
  /\ Parallel \in Nat /\ MaxFaults \in Nat /\ Modes \subseteq {"containerd", "mocks"}

VARIABLES mode,
          main,       \* where main is
          lease,      \* the client has a lease, which keeps the tasks' snapshots
          arrived,    \* how many wait at the barrier, or have passed it
          setup_done, \* setup_done.is_terminated()
          free,       \* the permits of the semaphore
          pc,         \* pc[t]: where the future of t is
          req, ans,   \* the request that it awaits, and the answer
          deleted, cleaned, \* the RunOnce flags of t
          busy,       \* the task whose drop blocks the thread
          result,     \* result[t]: what the future returned
          status,     \* what main returns
          svc,        \* the tasks that the service has
          box,        \* their containers, or their mounts under rootfs
          unmount,    \* the thread that unmounts them, without containerd
          late,       \* the request of a dropped future that is on its way
          shim,       \* the shim that was started without containerd is running
          killed,     \* the tasks whose process reap_children has killed
          faults      \* the number of faults so far

tool == <<main, lease, arrived, setup_done, free, busy, result, status>>
future == <<pc, req, ans, deleted, cleaned>>
server == <<svc, box, unmount, late, shim, killed, faults>>
vars == <<mode, tool, future, server>>

Life == INSTANCE TaskLifecycle WITH Objs <- Everyone, task <- svc

Count == Cardinality(Tasks)
Permits == IF Parallel = 0 THEN Count ELSE Parallel

\* A barrier that forgets main.
BarrierSize_tasks == Count

\* A barrier that counts the pause task as well.
BarrierSize_pause == Count + 2

BarrierSize == Count + 1

Init ==
  /\ mode \in Modes
  /\ main = "connect" /\ lease = FALSE /\ arrived = 0 /\ setup_done = FALSE /\ free = Permits
  /\ pc = [t \in Everyone |-> "new"]
  /\ req = [t \in Everyone |-> "none"] /\ ans = [t \in Everyone |-> "none"]
  /\ deleted = [t \in Everyone |-> FALSE] /\ cleaned = [t \in Everyone |-> FALSE]
  /\ busy = NoTask /\ status = "none"
  /\ result = [t \in Everyone |-> "none"]
  /\ Life!Init /\ box = [t \in Everyone |-> "none"]
  /\ unmount = [t \in Everyone |-> "none"]
  /\ late = [t \in Everyone |-> "none"] /\ shim = FALSE
  /\ killed = {} /\ faults = 0

Send(t, r) == req' = [req EXCEPT ![t] = r] /\ ans' = [ans EXCEPT ![t] = "pending"]
Answered(t, a) == ans[t] = a
Goto(t, l) == pc' = [pc EXCEPT ![t] = l]
Return(t, r) == result' = [result EXCEPT ![t] = r]

\* The future of t can be polled.
Polled(t) ==
  busy = t \/ (busy = NoTask /\ main = IF t = Pause THEN "pause" ELSE "loop")

-----------------------------------------------------------------------------
(***************************************************************************)
(* The service: containerd, or the shim.                                   *)
(***************************************************************************)
Allowed(t, r) ==
  CASE r = "container" -> box[t] = "none"
    [] r = "create" -> svc[t] = "none"
    [] r = "start" -> svc[t] = "created"
    [] r = "wait" -> svc[t] # "none"
    [] r = "kill" -> svc[t] = "running"
    [] r = "delete" -> svc[t] \in {"created", "stopped"}
    [] r = "box" -> box[t] = "made"
    [] OTHER -> TRUE

\* What a request does.  Without containerd, the shim mounts the rootfs.
Effect(t, r) ==
  /\ CASE r = "create" -> Life!Create(t)
       [] r = "start" -> Life!Start(t)
       [] r = "delete" -> Life!Delete(t)
       [] r = "wait" -> svc[t] \in {"stopped", "deleted"} /\ UNCHANGED svc
       [] OTHER -> UNCHANGED svc
  /\ box' = CASE r = "container" \/ (r = "create" /\ mode = "mocks") ->
                   [box EXCEPT ![t] = "made"]
              [] r = "box" -> [box EXCEPT ![t] = "gone"]
              [] OTHER -> box

\* Without containerd, all requests but those of Task::new go to the shim.
Reachable(r) == mode = "containerd" \/ r \in {"image", "snapshot"} \/ shim

\* A request is carried out, is refused or fails; one that fails may have been
\* carried out, and a start that fails may leave a stopped task.
Serve(t) ==
  /\ Answered(t, "pending")
  /\ \/ /\ Reachable(req[t]) /\ Allowed(t, req[t]) /\ Effect(t, req[t])
        /\ ans' = [ans EXCEPT ![t] = "ok"] /\ UNCHANGED faults
     \/ /\ ~(Reachable(req[t]) /\ Allowed(t, req[t])) /\ UNCHANGED <<svc, box, faults>>
        /\ ans' = [ans EXCEPT ![t] = "err"]
     \/ /\ faults < MaxFaults /\ Reachable(req[t]) /\ Allowed(t, req[t])
        /\ \/ Effect(t, req[t])
           \/ req[t] = "start" /\ Life!Fail(t) /\ UNCHANGED box
           \/ UNCHANGED <<svc, box>>
        /\ ans' = [ans EXCEPT ![t] = "err"] /\ faults' = faults + 1
  /\ UNCHANGED <<mode, tool, pc, req, deleted, cleaned, unmount, late, shim, killed>>

\* A request whose future was dropped still reaches the service, or does not.
ServeLate(t) ==
  /\ late[t] # "none"
  /\ \/ Reachable(late[t]) /\ Allowed(t, late[t]) /\ Effect(t, late[t])
     \/ UNCHANGED <<svc, box>>
  /\ late' = [late EXCEPT ![t] = "none"]
  /\ UNCHANGED <<mode, tool, future, unmount, shim, killed, faults>>

TaskEnds(t) ==
  /\ Life!Exit(t)
  /\ UNCHANGED <<mode, tool, future, box, unmount, late, shim, killed, faults>>

ShimDies ==
  /\ faults < MaxFaults /\ faults' = faults + 1 /\ shim /\ main \in {"pause", "loop"}
  /\ shim' = FALSE
  /\ UNCHANGED <<mode, tool, future, svc, box, unmount, late, killed>>

-----------------------------------------------------------------------------
(***************************************************************************)
(* Task::delete, called by the future, by the drop of a future that has    *)
(* failed or is cancelled, and by the drop of pause.  Each half is tried   *)
(* until it has succeeded once.                                            *)
(***************************************************************************)
\* A RunOnce that is marked whatever came of its future.
Done_always(t) == TRUE

\* try_run: done, if its future has returned Ok.
Done(t) == Answered(t, "ok")

\* The first request of delete().
FirstUndone(t) ==
  IF deleted[t] THEN "box" ELSE IF mode = "containerd" THEN "kill" ELSE "delete"

\* A drop that leaves the task alone.
Drop_forgets(t) ==
  /\ Goto(t, "gone") /\ UNCHANGED <<req, ans, busy>>

Drop(t) ==
  /\ Goto(t, "drop") /\ busy' = t
  /\ Send(t, FirstUndone(t))

\* Only the first half counts.
Succeeds_first(t) == deleted'[t]

\* res1.and(res2).
Succeeds(t) == deleted'[t] /\ cleaned'[t]

\* delete() returns, to the future, which returns too and drops the task, or to
\* the drop.
Finish(t) ==
  IF pc[t] = "drop" THEN
    /\ Goto(t, "gone") /\ busy' = NoTask
    /\ UNCHANGED <<req, ans, result>>
  ELSE IF Succeeds(t) THEN
    /\ Goto(t, "gone") /\ Return(t, "ok")
    /\ UNCHANGED <<req, ans, busy>>
  ELSE
    /\ Goto(t, "drop") /\ busy' = t /\ Return(t, "err")
    /\ Send(t, IF deleted'[t] THEN "box" ELSE FirstUndone(t))

Deletes(t, r) ==
  /\ Polled(t) /\ pc[t] \in {"delete", "drop"} /\ req[t] = r
  /\ ans[t] \in {"ok", "err"}

\* The result of kill_task is ignored.
AfterKill(t) ==
  /\ Deletes(t, "kill")
  /\ Send(t, "delete")
  /\ UNCHANGED <<mode, tool, pc, deleted, cleaned, server>>

\* Without containerd, unmount_recursive only spawns the thread that unmounts.
AfterDelete(t) ==
  /\ Deletes(t, "delete")
  /\ deleted' = [deleted EXCEPT ![t] = Done(t)]
  /\ IF mode = "mocks" THEN
       /\ cleaned' = [cleaned EXCEPT ![t] = TRUE]
       /\ unmount' = [unmount EXCEPT ![t] = IF cleaned[t] THEN @ ELSE "spawned"]
       /\ Finish(t)
     ELSE
       /\ UNCHANGED <<cleaned, unmount>>
       /\ IF cleaned[t] THEN Finish(t)
          ELSE Send(t, "box") /\ UNCHANGED <<pc, busy, result>>
  /\ UNCHANGED <<mode, main, lease, arrived, setup_done, free, status, svc, box, late, shim, killed,
                 faults>>

AfterBox(t) ==
  /\ Deletes(t, "box")
  /\ cleaned' = [cleaned EXCEPT ![t] = Done(t)]
  /\ UNCHANGED deleted
  /\ Finish(t)
  /\ UNCHANGED <<mode, main, lease, arrived, setup_done, free, status, server>>

\* The thread of unmount_recursive unmounts what it finds below rootfs, or fails;
\* its result is dropped with its handle.
Unmount(t) ==
  /\ unmount[t] = "spawned"
  /\ \/ /\ unmount' = [unmount EXCEPT ![t] = "done"]
        /\ box' = [box EXCEPT ![t] = IF @ = "made" THEN "gone" ELSE @]
        /\ UNCHANGED faults
     \/ /\ faults < MaxFaults /\ faults' = faults + 1
        /\ unmount' = [unmount EXCEPT ![t] = "failed"]
        /\ UNCHANGED box
  /\ UNCHANGED <<mode, tool, future, svc, late, shim, killed>>

-----------------------------------------------------------------------------
(***************************************************************************)
(* The future of a task.                                                   *)
(***************************************************************************)
FirstCreate == IF mode = "containerd" THEN "container" ELSE "create"

\* entrypoint reads the image, get_mounts prepares a snapshot of it.
FirstSetup == IF mode = "containerd" THEN "image" ELSE "snapshot"
LastSetup == IF mode = "containerd" THEN "snapshot" ELSE "image"

\* The first of the two has succeeded.
HalfSetUp(t) ==
  /\ Polled(t) /\ pc[t] = "setup" /\ req[t] = FirstSetup /\ Answered(t, "ok")
  /\ Send(t, LastSetup)
  /\ UNCHANGED <<mode, tool, pc, deleted, cleaned, server>>

\* Task::new: the bundle of the task is made, or the future ends.
SetUp(t) ==
  /\ Polled(t) /\ t # Pause /\ pc[t] = "setup"
  /\ \/ /\ req[t] = LastSetup /\ Answered(t, "ok")
        /\ Goto(t, "barrier") /\ arrived' = arrived + 1
        /\ UNCHANGED result
     \/ /\ Answered(t, "err")
        /\ Goto(t, "gone") /\ Return(t, "err")
        /\ UNCHANGED arrived
  /\ UNCHANGED <<mode, main, lease, setup_done, free, busy, status, req, ans, deleted, cleaned,
                 server>>

PassBarrier(t) ==
  /\ Polled(t) /\ pc[t] = "barrier" /\ arrived >= BarrierSize
  /\ Goto(t, "slot")
  /\ UNCHANGED <<mode, tool, req, ans, deleted, cleaned, server>>

Acquire(t) ==
  /\ Polled(t) /\ pc[t] = "slot" /\ free > 0
  /\ free' = free - 1
  /\ Goto(t, "create") /\ Send(t, FirstCreate)
  /\ UNCHANGED <<mode, main, lease, arrived, setup_done, busy, result, status, deleted, cleaned,
                 server>>

\* create, start and wait, one after the other; the permit is dropped when the
\* task has been started.
Proceed(t, l, r, new, next) ==
  /\ Polled(t) /\ pc[t] = l /\ req[t] = r /\ Answered(t, "ok")
  /\ Goto(t, new) /\ Send(t, next)
  /\ UNCHANGED <<mode, main, lease, arrived, setup_done, busy, result, status, deleted, cleaned,
                 server>>

ContainerMade(t) == Proceed(t, "create", "container", "create", "create") /\ UNCHANGED free
Created(t) ==
  t # Pause /\ Proceed(t, "create", "create", "start", "start") /\ UNCHANGED free
Started(t) == Proceed(t, "start", "start", "wait", "wait") /\ free' = free + 1
Waited(t) == Proceed(t, "wait", "wait", "delete", FirstUndone(t)) /\ UNCHANGED free

\* A permit that is not given back.
Failed_keeps(t) ==
  /\ Polled(t) /\ t # Pause /\ pc[t] \in {"create", "start", "wait"} /\ Answered(t, "err")
  /\ Return(t, "err") /\ Drop(t)
  /\ UNCHANGED <<mode, main, lease, arrived, setup_done, free, status, deleted, cleaned, server>>

\* A request has failed: the future returns, and drops its permit, if it has one,
\* and the task.
Failed(t) ==
  /\ Polled(t) /\ t # Pause /\ pc[t] \in {"create", "start", "wait"} /\ Answered(t, "err")
  /\ Return(t, "err") /\ Drop(t)
  /\ free' = IF pc[t] = "wait" THEN free ELSE free + 1
  /\ UNCHANGED <<mode, main, lease, arrived, setup_done, status, deleted, cleaned, server>>

-----------------------------------------------------------------------------
(***************************************************************************)
(* run_stress_test and main.                                               *)
(***************************************************************************)
\* Containerd::new.
Connect ==
  /\ main = "connect"
  /\ \/ main' = "shim" /\ lease' = TRUE /\ UNCHANGED status
     \/ main' = "reap" /\ status' = "err" /\ UNCHANGED lease
  /\ UNCHANGED <<mode, arrived, setup_done, free, busy, result, future, server>>

\* start_shim.  When it fails the shim may be running.
StartShim ==
  /\ main = "shim"
  /\ \/ /\ main' = "pause" /\ shim' = (mode = "mocks")
        /\ Goto(Pause, "setup") /\ Send(Pause, FirstSetup)
        /\ UNCHANGED status
     \/ /\ main' = "client" /\ status' = "err"
        /\ shim' \in {FALSE, mode = "mocks"}
        /\ UNCHANGED <<pc, req, ans>>
  /\ UNCHANGED <<mode, lease, arrived, setup_done, free, busy, result, deleted, cleaned, svc, box,
                 unmount, late, killed, faults>>

PauseSetUp ==
  /\ Polled(Pause) /\ pc[Pause] = "setup"
  /\ \/ /\ req[Pause] = LastSetup /\ Answered(Pause, "ok")
        /\ Goto(Pause, "create") /\ Send(Pause, FirstCreate)
        /\ UNCHANGED <<main, status>>
     \/ /\ Answered(Pause, "err")
        /\ Goto(Pause, "gone") /\ main' = "end" /\ status' = "err"
        /\ UNCHANGED <<req, ans>>
  /\ UNCHANGED <<mode, lease, arrived, setup_done, free, busy, result, deleted, cleaned, server>>

\* The futures are pushed, and polled for the first time; main waits at the
\* barrier too.
PauseCreated ==
  /\ Polled(Pause) /\ pc[Pause] = "create"
  /\ \/ /\ req[Pause] = "create" /\ Answered(Pause, "ok")
        /\ main' = "loop" /\ arrived' = 1
        /\ pc' = [t \in Everyone |-> IF t = Pause THEN "held" ELSE "setup"]
        /\ req' = [t \in Everyone |-> IF t = Pause THEN "none" ELSE FirstSetup]
        /\ ans' = [t \in Everyone |-> IF t = Pause THEN "none" ELSE "pending"]
        /\ UNCHANGED <<busy, status>>
     \/ /\ Answered(Pause, "err")
        /\ main' = "pause_drop" /\ status' = "err"
        /\ Drop(Pause)
        /\ UNCHANGED arrived
  /\ UNCHANGED <<mode, lease, setup_done, free, result, deleted, cleaned, server>>

SetupDone ==
  /\ main = "loop" /\ busy = NoTask /\ ~setup_done /\ arrived >= BarrierSize
  /\ setup_done' = TRUE
  /\ UNCHANGED <<mode, main, lease, arrived, free, busy, result, status, future, server>>

\* The loop is left, and what main returns is known.
Break ==
  /\ main = "loop" /\ busy = NoTask
  /\ main' = "drop"
  /\ status' = IF \A t \in Tasks : result[t] = "ok" THEN "ok" ELSE "err"
  /\ UNCHANGED <<mode, lease, arrived, setup_done, free, busy, result, future, server>>

AllReturned == (\A t \in Tasks : pc[t] = "gone") /\ Break
Watchdog == setup_done /\ Break
CtrlC == Break

\* The tracker is dropped, and with it each future that has not returned.
DropFuture(t) ==
  /\ main = "drop" /\ busy = NoTask /\ pc[t] # "gone"
  /\ IF pc[t] = "setup" THEN Goto(t, "gone") /\ UNCHANGED <<req, ans, busy>> ELSE Drop(t)
  /\ late' = [late EXCEPT ![t] =
                IF Answered(t, "pending") /\ pc[t] # "setup" /\ req[t] # "wait"
                THEN req[t] ELSE "none"]
  /\ UNCHANGED <<mode, main, lease, arrived, setup_done, free, result, status, deleted, cleaned,
                 svc, box, unmount, shim, killed, faults>>

\* Locals dropped in the order of their declaration.
DropPause_first ==
  /\ main = "drop" /\ busy = NoTask /\ pc[Pause] = "held"
  /\ Drop(Pause)
  /\ UNCHANGED <<mode, main, lease, arrived, setup_done, free, result, status, deleted, cleaned,
                 server>>

DropPause ==
  /\ main = "drop" /\ busy = NoTask /\ \A t \in Tasks : pc[t] = "gone"
  /\ main' = "pause_drop" /\ Drop(Pause)
  /\ UNCHANGED <<mode, lease, arrived, setup_done, free, result, status, deleted, cleaned, server>>

PauseDropped ==
  /\ main = "pause_drop" /\ busy = NoTask
  /\ main' = "end"
  /\ UNCHANGED <<mode, lease, arrived, setup_done, free, busy, result, status, future, server>>

\* The drop of the shim asks it to shut down, which a shim that has tasks does
\* not do.
DropShim ==
  /\ main = "end"
  /\ main' = "client"
  /\ shim' = (shim /\ \E t \in Everyone : svc[t] \notin {"none", "deleted"})
  /\ UNCHANGED <<mode, lease, arrived, setup_done, free, busy, result, status, future, svc, box,
                 unmount, late, killed, faults>>

\* The last Client is dropped, and deletes its lease; the answer is ignored.
DropClient ==
  /\ main = "client"
  /\ main' = "reap" /\ lease' = FALSE
  /\ UNCHANGED <<mode, arrived, setup_done, free, busy, result, status, future, server>>

\* The processes of tasks are children of the shim while it runs.
Alive == {t \in Everyone : svc[t] \in {"created", "running"}} \ killed

\* A single look at the children.
Reap_once ==
  /\ main = "reap" /\ main' = "exit"
  /\ shim' = FALSE /\ killed' = IF mode = "mocks" /\ ~shim THEN killed \cup Alive ELSE killed
  /\ UNCHANGED <<mode, lease, arrived, setup_done, free, busy, result, status, future, svc, box,
                 unmount, late, faults>>

\* reap_children: a round of its loop, its return, or its error.
Reap ==
  /\ main = "reap"
  /\ \/ shim /\ shim' = FALSE /\ UNCHANGED <<main, status, killed>>
     \/ /\ mode = "mocks" /\ ~shim /\ Alive # {}
        /\ killed' = killed \cup Alive
        /\ UNCHANGED <<main, status, shim>>
     \/ /\ ~shim /\ (mode = "containerd" \/ Alive = {})
        /\ main' = "exit" /\ UNCHANGED <<status, shim, killed>>
     \/ main' = "failed" /\ status' = "err" /\ UNCHANGED <<shim, killed>>
  /\ UNCHANGED <<mode, lease, arrived, setup_done, free, busy, result, future, svc, box, unmount,
                 late, faults>>

-----------------------------------------------------------------------------
Future(t) ==
  \/ HalfSetUp(t) \/ SetUp(t) \/ PassBarrier(t) \/ Acquire(t)
  \/ ContainerMade(t) \/ Created(t) \/ Started(t) \/ Waited(t) \/ Failed(t)
  \/ AfterKill(t) \/ AfterDelete(t) \/ AfterBox(t)

Main ==
  \/ Connect \/ StartShim \/ PauseSetUp \/ PauseCreated
  \/ SetupDone \/ AllReturned \/ Watchdog
  \/ (\E t \in Tasks : DropFuture(t)) \/ DropPause \/ PauseDropped
  \/ DropShim \/ DropClient \/ Reap

Next ==
  \/ \E t \in Everyone : Future(t) \/ Serve(t) \/ ServeLate(t) \/ TaskEnds(t) \/ Unmount(t)
  \/ Main \/ CtrlC \/ ShimDies

SafeSpec == Init /\ [][Next]_vars

\* The tool runs, the timeout is not zero, and requests are answered.  Tasks need
\* not end, and nobody has to press Ctrl-C.
Spec ==
  /\ SafeSpec
  /\ WF_vars(Main \/ \E t \in Everyone : Future(t))
  /\ WF_vars(\E t \in Everyone : Serve(t))

-----------------------------------------------------------------------------
\* main.rs:49, "Number of tasks to create and start concurrently": so many at most
\* await a create or a start, and when none does all permits are there, also after
\* failures.
ParallelLimit ==
  LET starting == {t \in Tasks : pc[t] \in {"create", "start"}}
  IN  main = "loop" => /\ Cardinality(starting) <= Permits
                       /\ free = Permits - Cardinality(starting)

\* main.rs:134-139: the time is measured from the first create on, and by then
\* every bundle has been made.
SetupFirst ==
  \A t, u \in Tasks : svc[t] # "none" => pc[u] # "setup"

\* utils.rs:57-64: a half of delete() that is marked as done has been done, so what
\* failed or was cut off is tried again by the drop.  Without containerd the mark of
\* the second half says less: the thread that unmounts was spawned.  When that thread
\* has succeeded nothing of a deleted task is mounted; when it fails nobody knows.
DeleteHonest ==
  \A t \in Everyone :
    /\ deleted[t] => svc[t] = "deleted"
    /\ cleaned[t] /\ mode = "containerd" => box[t] = "gone"
    /\ cleaned[t] /\ mode = "mocks" =>
         /\ unmount[t] # "none"
         /\ deleted[t] /\ unmount[t] = "done" => box[t] # "made"

\* task.rs (both), impl Drop for Task: however the run ends, the last thing that was
\* asked of a task that the service still has is to delete it.
NothingForgotten ==
  main = "exit" => \A t \in Everyone :
    svc[t] \notin {"none", "deleted"} => req[t] \in {"delete", "box"}

\* main.rs:218-221: the tool only reports success when each task has run and has
\* been deleted.  A container of one is not left either; a mount can be, where the
\* thread that unmounts it has not run yet or has failed, which the report ignores.
SuccessIsClean ==
  status = "ok" => \A t \in Tasks :
    /\ svc[t] = "deleted"
    /\ box[t] = "made" => mode = "mocks" /\ unmount[t] \in {"spawned", "failed"}

\* main.rs:115, create a "pause" container to keep the shim running: the shim has a
\* task until the last of the others is gone, and while there are tasks there is the
\* lease that keeps their snapshots.
ShimKept ==
  /\ main \in {"loop", "drop"} => svc[Pause] = "created"
  /\ (\E t \in Everyone : pc[t] \notin {"new", "gone"}) => lease

\* utils.rs:21-40: without containerd, no process outlives the tool, be it that of
\* a shim that has tasks left, or that of a task whose shim is dead.
NoProcessLeft == main = "exit" /\ mode = "mocks" => ~shim /\ Alive = {}

\* The tool comes to its end, but for one case: the setup of a task has failed, so
\* that the barrier never opens, the watchdog is not armed and only Ctrl-C helps.
Ends ==
  \/ <>(main \in {"exit", "failed"})
  \/ <>[](main = "loop" /\ ~setup_done /\ \E t \in Tasks : pc[t] = "gone")

=============================================================================
