---------------------------- MODULE TaskService -----------------------------
(***************************************************************************)
(* The task service of the shim: Local (sandbox/shim/local.rs) answers     *)
(* containerd's RPCs, InstanceData (instance_data.rs) guards one instance  *)
(* with a TaskState (task_state.rs) under a lock, and Instance             *)
(* (sys/unix/container/instance.rs) runs the container and publishes its   *)
(* exit code in a WaitableCell, used here as module AtomicCell describes.  *)
(*                                                                         *)
(* RPCs run concurrently, one per handler thread.  A step of a thread is   *)
(* what it does between two accesses to state that others can change: the  *)
(* map of instances, the TaskState under its lock, the pid, the exit code, *)
(* the container, the event stream.  An RPC the code rejects before it     *)
(* looks at any of these (exec ids, checkpoints, terminals, unknown ids)   *)
(* changes nothing and is not a step.                                      *)
(***************************************************************************)
EXTENDS Naturals, Sequences, FiniteSets

CONSTANTS Threads,   \* handler threads of the ttrpc server
          Ids,       \* container ids
          Objs,      \* InstanceData objects that may be allocated (a bound)
          Statuses,  \* the exit statuses a container process may end with
          Rpcs,      \* the RPCs that clients send
          Losable,   \* the events whose publication may fail
          NoId, NoObj, NoThread, NoCode

ASSUME ServiceAssumption ==
  /\ NoId \notin Ids /\ NoObj \notin Objs /\ NoThread \notin Threads
  /\ Statuses \subseteq Nat /\ NoCode \notin Nat

VARIABLES
  instances,  \* Local.instances: the object registered under each id
  shim,       \* "serving", "signalled" (exit.signal()) or "exited"
  state,      \* InstanceData.state of each object; "free": not allocated
  lock,       \* the thread holding that state's write lock across a call
  pid,        \* pid[o]: InstanceData.pid is set
  exit,       \* Instance.exit_code of each object
  proc,       \* its container: none, created, running, dead, or gone (deleted)
  reaper,     \* the thread spawned by Instance::start
  waiter,     \* the thread spawned by task_start
  pc,         \* where each handler thread is
  rid, robj,  \* the id its request names, and the Arc it holds
  rcode,      \* the exit code it has read
  rpid, rseen,\* of a state RPC: the pid it read; what was known before it
  events,     \* events[o]: the events about o that containerd receives, in order
  hist,       \* hist[o]: what has happened to o, see Marks
  reported,   \* reported[o]: the exit codes told to anyone
  shown       \* shown[o]: the furthest status anyone has been told of

service == <<instances, shim>>
data    == <<state, lock, pid>>
inst    == <<exit, proc, reaper>>
local   == <<pc, rid, robj, rcode, rpid, rseen>>
ghosts  == <<events, hist, reported, shown>>
vars    == <<service, data, inst, waiter, local, ghosts>>

(* TaskState: in which states each of its methods succeeds, and the state it *)
(* then leaves.  In any other state it fails and changes nothing.            *)
TaskStates == {"Created", "Starting", "Started", "Exited", "Deleting"}

CanStart_again(s) == s \in {"Created", "Exited"}
CanStart(s) == s = "Created"

CanKill(s) == s = "Started"

CanDelete_any(s) == s # "Deleting"
CanDelete(s) == s \in {"Created", "Exited"}

Started(s) == IF s = "Starting" THEN "Started" ELSE s

Stop(s) == IF s \in {"Started", "Starting", "Deleting"} THEN "Exited" ELSE s

AllRpcs == {"create", "start", "kill", "delete", "wait", "state", "shutdown"}
Codes == Statuses \cup {0, 137}

\* hist[o] collects: instance.start was called, returned Ok; instance.delete was
\* called; a wait RPC was answered; a start or a waitid failed after the process
\* ran, so the exit code is not the process's.
Marks == {"start", "up", "delete", "waited", "lost"}

Init ==
  /\ instances = [i \in Ids |-> NoObj]
  /\ shim = "serving"
  /\ state = [o \in Objs |-> "free"]
  /\ lock = [o \in Objs |-> NoThread]
  /\ pid = [o \in Objs |-> FALSE]
  /\ exit = [o \in Objs |-> NoCode]
  /\ proc = [o \in Objs |-> "none"]
  /\ reaper = [o \in Objs |-> "none"]
  /\ waiter = [o \in Objs |-> "none"]
  /\ pc = [t \in Threads |-> "idle"]
  /\ rid = [t \in Threads |-> NoId]
  /\ robj = [t \in Threads |-> NoObj]
  /\ rcode = [t \in Threads |-> NoCode]
  /\ rpid = [t \in Threads |-> FALSE]
  /\ rseen = [t \in Threads |-> 0]
  /\ events = [o \in Objs |-> <<>>]
  /\ hist = [o \in Objs |-> {}]
  /\ reported = [o \in Objs |-> {}]
  /\ shown = [o \in Objs |-> 0]

-----------------------------------------------------------------------------
(* Control of a handler thread. *)

Goto(t, l) == pc' = [pc EXCEPT ![t] = l]

At(t, l) == pc[t] = l

\* The RPC returns, with or without an error; the thread drops what it holds.
Return(t) ==
  /\ Goto(t, "idle")
  /\ rid' = [rid EXCEPT ![t] = NoId]
  /\ robj' = [robj EXCEPT ![t] = NoObj]
  /\ rcode' = [rcode EXCEPT ![t] = NoCode]
  /\ rpid' = [rpid EXCEPT ![t] = FALSE]
  /\ rseen' = [rseen EXCEPT ![t] = 0]

Stay == UNCHANGED <<rid, robj, rcode, rpid, rseen>>

Mark(o, m) == hist' = [hist EXCEPT ![o] = @ \cup {m}]

\* An error of the publisher is logged, and the event is lost.
Publish(o, e) ==
  \/ events' = [events EXCEPT ![o] = Append(@, e)]
  \/ e \in Losable /\ UNCHANGED events

\* get_instance: the thread holds a clone of the Arc from here on, whatever
\* happens to the map.
get_instance(t, rpc, l) ==
  /\ At(t, "idle") /\ rpc \in Rpcs
  /\ \E i \in Ids :
       /\ instances[i] # NoObj
       /\ rid' = [rid EXCEPT ![t] = i]
       /\ robj' = [robj EXCEPT ![t] = instances[i]]
       /\ rseen' = [rseen EXCEPT
                      ![t] = IF rpc = "state" THEN shown[instances[i]] ELSE 0]
  /\ Goto(t, l)
  /\ UNCHANGED <<service, data, inst, waiter, rcode, rpid, ghosts>>

\* A cell in which the last value wins.
SetExit_last(o, c) == exit' = [exit EXCEPT ![o] = c]

\* WaitableCell::set on the exit code: the first value wins.
SetExit(o, c) == exit' = [exit EXCEPT ![o] = IF @ = NoCode THEN c ELSE @]

-----------------------------------------------------------------------------
(* create.  has_instance takes and releases the map's read lock; the insert *)
(* takes the write lock much later, after the container has been built.     *)

CreateCheck(t, i) ==
  /\ At(t, "idle") /\ "create" \in Rpcs
  /\ instances[i] = NoObj
  /\ rid' = [rid EXCEPT ![t] = i]
  /\ Goto(t, "c_new")
  /\ UNCHANGED <<service, data, inst, waiter, robj, rcode, rpid, rseen, ghosts>>

\* Loading the spec, mounting the rootfs or building the container fails.
CreateFail(t) ==
  /\ At(t, "c_new")
  /\ Return(t)
  /\ UNCHANGED <<service, data, inst, waiter, ghosts>>

\* InstanceData::new: a Created state, an empty exit code and a container whose
\* process waits for start.
CreateNew(t) ==
  /\ At(t, "c_new")
  /\ \E o \in Objs :
       /\ state[o] = "free"
       /\ state' = [state EXCEPT ![o] = "Created"]
       /\ proc' = [proc EXCEPT ![o] = "created"]
       /\ robj' = [robj EXCEPT ![t] = o]
  /\ Goto(t, "c_insert")
  /\ UNCHANGED <<service, lock, pid, exit, reaper, waiter, rid, rcode, rpid,
                 rseen, ghosts>>

CreateInsert(t) ==
  /\ At(t, "c_insert")
  /\ instances' = [instances EXCEPT ![rid[t]] = robj[t]]
  /\ Goto(t, "c_event")
  /\ Stay /\ UNCHANGED <<shim, data, inst, waiter, ghosts>>

CreateEvent(t) ==
  /\ At(t, "c_event")
  /\ Publish(robj[t], "create")
  /\ Goto(t, "c_hooks")
  /\ Stay /\ UNCHANGED <<service, data, inst, waiter, hist, reported, shown>>

\* The prestart hooks run after the task is registered and announced; when one
\* cannot be run, create answers with an error and the task stays.
CreateHooks(t) ==
  /\ At(t, "c_hooks")
  /\ Return(t)
  /\ UNCHANGED <<service, data, inst, waiter, ghosts>>

-----------------------------------------------------------------------------
(* start.  InstanceData::start holds the state's write lock from the check   *)
(* of the state, through instance.start(), to the next transition.           *)

StartGet(t) == get_instance(t, "start", "s_lock")

StartLock(t) ==
  LET o == robj[t] IN
  /\ At(t, "s_lock") /\ lock[o] = NoThread
  /\ CanStart(state[o])
  /\ state' = [state EXCEPT ![o] = "Starting"]
  /\ lock' = [lock EXCEPT ![o] = t]
  /\ Goto(t, "s_call")
  /\ Stay /\ UNCHANGED <<service, pid, inst, waiter, ghosts>>

StartRefused(t) ==
  /\ At(t, "s_lock") /\ lock[robj[t]] = NoThread
  /\ ~CanStart(state[robj[t]])
  /\ Return(t)
  /\ UNCHANGED <<service, data, inst, waiter, ghosts>>

\* instance.start() succeeds: the container runs and the reaper thread owns the
\* exit code guard.
StartCallOk(t) ==
  LET o == robj[t] IN
  /\ At(t, "s_call")
  /\ proc' = [proc EXCEPT ![o] = "running"]
  /\ reaper' = [reaper EXCEPT ![o] = "waiting"]
  /\ hist' = [hist EXCEPT ![o] = @ \cup {"start", "up"}]
  /\ Goto(t, "s_pid")
  /\ Stay /\ UNCHANGED <<service, data, exit, waiter, events, reported, shown>>

\* The container runs, but thread::spawn panics: a release build aborts (panic =
\* "abort", Cargo.toml), under the state's lock.
StartPanic(t) ==
  LET o == robj[t] IN
  /\ At(t, "s_call")
  /\ proc' = [proc EXCEPT ![o] = "running"]
  /\ hist' = [hist EXCEPT ![o] = @ \cup {"start", "lost"}]
  /\ shim' = "exited"
  /\ Goto(t, "aborted")
  /\ Stay /\ UNCHANGED <<instances, data, exit, reaper, waiter, events, reported, shown>>

\* container.pid() or container.start() fails: the guard is dropped on the way
\* out and sets the exit code.  The failure may come after the process was let
\* go (container.start() runs in the zygote process); then nobody waits for it.
StartCallErr_no_guard(t) ==
  /\ At(t, "s_call")
  /\ Mark(robj[t], "start")
  /\ Goto(t, "s_stop")
  /\ Stay /\ UNCHANGED <<service, data, inst, waiter, events, reported, shown>>

StartCallErr(t) ==
  /\ At(t, "s_call")
  /\ SetExit(robj[t], 137)
  /\ \/ Mark(robj[t], "start") /\ UNCHANGED proc
     \/ /\ hist' = [hist EXCEPT ![robj[t]] = @ \cup {"start", "lost"}]
        /\ proc' = [proc EXCEPT ![robj[t]] = "running"]
  /\ Goto(t, "s_stop")
  /\ Stay /\ UNCHANGED <<service, data, reaper, waiter, events, reported, shown>>

StartPid(t) ==
  /\ At(t, "s_pid")
  /\ pid' = [pid EXCEPT ![robj[t]] = TRUE]
  /\ Goto(t, "s_started")
  /\ Stay /\ UNCHANGED <<service, state, lock, inst, waiter, ghosts>>

\* The wait thread is spawned before TaskStart is published.
StartDone_spawns(t) ==
  LET o == robj[t] IN
  /\ At(t, "s_started")
  /\ state' = [state EXCEPT ![o] = Started(@)]
  /\ lock' = [lock EXCEPT ![o] = NoThread]
  /\ waiter' = [waiter EXCEPT ![o] = "blocked"]
  /\ Goto(t, "s_event")
  /\ Stay /\ UNCHANGED <<service, pid, inst, ghosts>>

\* s.started() and the release of the lock.
StartDone(t) ==
  LET o == robj[t] IN
  /\ At(t, "s_started")
  /\ state' = [state EXCEPT ![o] = Started(@)]
  /\ lock' = [lock EXCEPT ![o] = NoThread]
  /\ Goto(t, "s_event")
  /\ Stay /\ UNCHANGED <<service, pid, inst, waiter, ghosts>>

\* s.stop(), the release of the lock, and the error.
StartStop(t) ==
  LET o == robj[t] IN
  /\ At(t, "s_stop")
  /\ state' = [state EXCEPT ![o] = Stop(@)]
  /\ lock' = [lock EXCEPT ![o] = NoThread]
  /\ Return(t)
  /\ UNCHANGED <<service, pid, inst, waiter, ghosts>>

StartEvent(t) ==
  /\ At(t, "s_event")
  /\ Publish(robj[t], "start")
  /\ Goto(t, "s_spawn")
  /\ Stay /\ UNCHANGED <<service, data, inst, waiter, hist, reported, shown>>

\* Spawning the wait thread may fail; start then answers with an error though
\* the container runs, and nobody will publish its exit.
StartSpawn(t) ==
  /\ At(t, "s_spawn")
  /\ \/ waiter' = [waiter EXCEPT ![robj[t]] = "blocked"]
     \/ UNCHANGED waiter
  /\ Return(t)
  /\ UNCHANGED <<service, data, inst, ghosts>>

-----------------------------------------------------------------------------
(* kill.  InstanceData::kill holds the lock across instance.kill().          *)

KillGet(t) == get_instance(t, "kill", "k_lock")

KillLock(t) ==
  LET o == robj[t] IN
  /\ At(t, "k_lock") /\ lock[o] = NoThread
  /\ CanKill(state[o])
  /\ lock' = [lock EXCEPT ![o] = t]
  /\ Goto(t, "k_call")
  /\ Stay /\ UNCHANGED <<service, state, pid, inst, waiter, ghosts>>

KillRefused(t) ==
  /\ At(t, "k_lock") /\ lock[robj[t]] = NoThread
  /\ ~CanKill(state[robj[t]])
  /\ Return(t)
  /\ UNCHANGED <<service, data, inst, waiter, ghosts>>

\* The signal ends a running process, or does not, or cannot be sent.
KillCall(t) ==
  LET o == robj[t] IN
  /\ At(t, "k_call")
  /\ \/ proc[o] = "running" /\ proc' = [proc EXCEPT ![o] = "dead"]
     \/ UNCHANGED proc
  /\ lock' = [lock EXCEPT ![o] = NoThread]
  /\ Return(t)
  /\ UNCHANGED <<service, state, pid, exit, reaper, waiter, ghosts>>

-----------------------------------------------------------------------------
(* wait_timeout(ZERO) and wait.  The exit code is read without the lock;     *)
(* then, if there is one, the lock is taken for `*s = TaskState::Exited`,    *)
(* whatever the state has become.                                            *)

ReadCode(t, none, some) ==
  /\ rcode' = [rcode EXCEPT ![t] = exit[robj[t]]]
  /\ Goto(t, IF exit[robj[t]] = NoCode THEN none ELSE some)
  /\ UNCHANGED <<rid, robj, rpid, rseen>>

\* The assignment without the lock.
SetExited_unlocked(o) ==
  /\ state' = [state EXCEPT ![o] = "Exited"]
  /\ UNCHANGED <<lock, pid>>

\* A transition that only a Started task can take.
SetExited_from_started(o) ==
  /\ lock[o] = NoThread /\ state[o] = "Started"
  /\ state' = [state EXCEPT ![o] = "Exited"]
  /\ UNCHANGED <<lock, pid>>

SetExited(o) ==
  /\ lock[o] = NoThread
  /\ state' = [state EXCEPT ![o] = "Exited"]
  /\ UNCHANGED <<lock, pid>>

\* An exit code, if there is one, goes into a response or an event.
Report(o, c) == reported' = [reported EXCEPT ![o] = @ \cup ({c} \ {NoCode})]

\* A client that is told the exit code of a task whose start returned Ok knows
\* that it has stopped.
TellStopped(o) == shown' = IF "up" \in hist[o] THEN [shown EXCEPT ![o] = 2] ELSE shown

-----------------------------------------------------------------------------
(* delete.                                                                   *)

DeleteGet(t) == get_instance(t, "delete", "d_lock")

DeleteLock(t) ==
  LET o == robj[t] IN
  /\ At(t, "d_lock") /\ lock[o] = NoThread
  /\ CanDelete(state[o])
  /\ state' = [state EXCEPT ![o] = "Deleting"]
  /\ lock' = [lock EXCEPT ![o] = t]
  /\ Goto(t, "d_call")
  /\ Stay /\ UNCHANGED <<service, pid, inst, waiter, ghosts>>

DeleteRefused(t) ==
  /\ At(t, "d_lock") /\ lock[robj[t]] = NoThread
  /\ ~CanDelete(state[robj[t]])
  /\ Return(t)
  /\ UNCHANGED <<service, data, inst, waiter, ghosts>>

\* instance.delete() succeeds; deleting by force ends the container's process.
DeleteCallOk(t) ==
  LET o == robj[t] IN
  /\ At(t, "d_call")
  /\ proc' = [proc EXCEPT ![o] = "gone"]
  /\ Mark(o, "delete")
  /\ lock' = [lock EXCEPT ![o] = NoThread]
  /\ Goto(t, "d_code")
  /\ Stay /\ UNCHANGED <<service, state, pid, exit, reaper, waiter, events,
                         reported, shown>>

\* A failed delete that forgets s.stop().
DeleteCallErr_no_stop(t) ==
  /\ At(t, "d_call")
  /\ Mark(robj[t], "delete")
  /\ lock' = [lock EXCEPT ![robj[t]] = NoThread]
  /\ Return(t)
  /\ UNCHANGED <<service, state, pid, inst, waiter, events, reported, shown>>

\* instance.delete() fails, with the process killed or not: s.stop(), release,
\* error.
DeleteCallErr(t) ==
  LET o == robj[t] IN
  /\ At(t, "d_call")
  /\ \/ proc[o] # "gone" /\ proc' = [proc EXCEPT ![o] = "dead"]
     \/ UNCHANGED proc
  /\ state' = [state EXCEPT ![o] = Stop(@)]
  /\ Mark(o, "delete")
  /\ lock' = [lock EXCEPT ![o] = NoThread]
  /\ Return(t)
  /\ UNCHANGED <<service, pid, exit, reaper, waiter, events, reported, shown>>

DeleteCode(t) ==
  /\ At(t, "d_code")
  /\ ReadCode(t, "d_remove", "d_mark")
  /\ UNCHANGED <<service, data, inst, waiter, ghosts>>

DeleteMark(t) ==
  /\ At(t, "d_mark")
  /\ SetExited(robj[t])
  /\ Goto(t, "d_remove")
  /\ Stay /\ UNCHANGED <<service, inst, waiter, ghosts>>

\* Only a task that has an exit code is removed.
DeleteRemove_exited(t) ==
  /\ At(t, "d_remove")
  /\ instances' = IF rcode[t] = NoCode THEN instances
                  ELSE [instances EXCEPT ![rid[t]] = NoObj]
  /\ Goto(t, "d_event")
  /\ Stay /\ UNCHANGED <<shim, data, inst, waiter, ghosts>>

\* The entry is removed by id: it need not be the object that was deleted.
DeleteRemove(t) ==
  /\ At(t, "d_remove")
  /\ instances' = [instances EXCEPT ![rid[t]] = NoObj]
  /\ Goto(t, "d_event")
  /\ Stay /\ UNCHANGED <<shim, data, inst, waiter, ghosts>>

\* The TaskDelete event and the response carry the exit code, if there is one.
DeleteEvent(t) ==
  /\ At(t, "d_event")
  /\ Publish(robj[t], "delete")
  /\ Report(robj[t], rcode[t])
  /\ Return(t)
  /\ UNCHANGED <<service, data, inst, waiter, hist, shown>>

-----------------------------------------------------------------------------
(* wait and state.                                                           *)

WaitGet(t) == get_instance(t, "wait", "w_wait")

\* A wait that blocks with the state's lock held.
WaitWake_locked(t) ==
  LET o == robj[t] IN
  /\ At(t, "w_wait")
  /\ \/ /\ exit[o] = NoCode /\ lock[o] = NoThread
        /\ lock' = [lock EXCEPT ![o] = t]
        /\ UNCHANGED <<pc, rcode>>
     \/ /\ exit[o] # NoCode /\ lock[o] \in {t, NoThread}
        /\ lock' = [lock EXCEPT ![o] = NoThread]
        /\ rcode' = [rcode EXCEPT ![t] = exit[o]]
        /\ Goto(t, "w_mark")
  /\ UNCHANGED <<service, state, pid, inst, waiter, rid, robj, rpid, rseen,
                 ghosts>>

WaitWake(t) ==
  /\ At(t, "w_wait") /\ exit[robj[t]] # NoCode
  /\ ReadCode(t, "w_wait", "w_mark")
  /\ UNCHANGED <<service, data, inst, waiter, ghosts>>

WaitMark(t) ==
  /\ At(t, "w_mark")
  /\ SetExited(robj[t])
  /\ Report(robj[t], rcode[t])
  /\ Mark(robj[t], "waited")
  /\ TellStopped(robj[t])
  /\ Return(t)
  /\ UNCHANGED <<service, inst, waiter, events>>

StateGet(t) == get_instance(t, "state", "q_pid")

\* The pid of a process that has ended reads as none.
StatePid_alive(t) ==
  /\ At(t, "q_pid")
  /\ rpid' = [rpid EXCEPT ![t] = pid[robj[t]] /\ proc[robj[t]] = "running"]
  /\ Goto(t, "q_code")
  /\ UNCHANGED <<service, data, inst, waiter, rid, robj, rcode, rseen, ghosts>>

StatePid(t) ==
  /\ At(t, "q_pid")
  /\ rpid' = [rpid EXCEPT ![t] = pid[robj[t]]]
  /\ Goto(t, "q_code")
  /\ UNCHANGED <<service, data, inst, waiter, rid, robj, rcode, rseen, ghosts>>

StateCode(t) ==
  /\ At(t, "q_code")
  /\ ReadCode(t, "q_reply", "q_mark")
  /\ UNCHANGED <<service, data, inst, waiter, ghosts>>

StateMark(t) ==
  /\ At(t, "q_mark")
  /\ SetExited(robj[t])
  /\ Goto(t, "q_reply")
  /\ Stay /\ UNCHANGED <<service, inst, waiter, ghosts>>

\* CREATED, RUNNING and STOPPED are 0, 1 and 2.
Status(t) ==
  IF ~rpid[t] THEN 0 ELSE IF rcode[t] = NoCode THEN 1 ELSE 2

StateReply(t) ==
  LET o == robj[t] IN
  /\ At(t, "q_reply")
  /\ shown' = [shown EXCEPT ![o] = IF Status(t) > @ THEN Status(t) ELSE @]
  /\ Report(o, rcode[t])
  /\ Return(t)
  /\ UNCHANGED <<service, data, inst, waiter, events, hist>>

-----------------------------------------------------------------------------
(* shutdown.  is_empty releases the map before exit.signal() is called; the  *)
(* main thread then leaves its wait and the process ends.                    *)

ShutdownCheck(t) ==
  /\ At(t, "idle") /\ "shutdown" \in Rpcs
  /\ \A i \in Ids : instances[i] = NoObj
  /\ Goto(t, "x_signal")
  /\ Stay /\ UNCHANGED <<service, data, inst, waiter, ghosts>>

ShutdownSignal(t) ==
  /\ At(t, "x_signal")
  /\ shim' = "signalled"
  /\ Return(t)
  /\ UNCHANGED <<instances, data, inst, waiter, ghosts>>

ShimExit ==
  /\ shim = "signalled"
  /\ shim' = "exited"
  /\ UNCHANGED <<instances, data, inst, waiter, local, ghosts>>

-----------------------------------------------------------------------------
(* The container process, the reaper thread and the wait thread.             *)

ProcExit(o) ==
  /\ proc[o] = "running"
  /\ proc' = [proc EXCEPT ![o] = "dead"]
  /\ UNCHANGED <<service, data, exit, reaper, waiter, local, ghosts>>

\* waitid returns and the exit code is set: the status or the signal of the
\* process; 0 when some other wait in the shim has collected it (ECHILD).
Reap(o) ==
  /\ reaper[o] = "waiting" /\ proc[o] \in {"dead", "gone"}
  /\ \/ /\ \E c \in Statuses : SetExit(o, c)
        /\ UNCHANGED hist
     \/ SetExit(o, 0) /\ Mark(o, "lost")
  /\ reaper' = [reaper EXCEPT ![o] = "guard"]
  /\ UNCHANGED <<service, data, proc, waiter, local, events, reported, shown>>

\* waitid fails for another reason, whatever the process does.
ReapError(o) ==
  /\ reaper[o] = "waiting"
  /\ SetExit(o, 137) /\ Mark(o, "lost")
  /\ reaper' = [reaper EXCEPT ![o] = "guard"]
  /\ UNCHANGED <<service, data, proc, waiter, local, events, reported, shown>>

\* The guard moved into the reaper thread is dropped when the thread ends.
GuardDrop(o) ==
  /\ reaper[o] = "guard"
  /\ SetExit(o, 137)
  /\ reaper' = [reaper EXCEPT ![o] = "done"]
  /\ UNCHANGED <<service, data, proc, waiter, local, ghosts>>

WaiterWake(o) ==
  /\ waiter[o] = "blocked" /\ exit[o] # NoCode
  /\ waiter' = [waiter EXCEPT ![o] = "mark"]
  /\ UNCHANGED <<service, data, inst, local, ghosts>>

WaiterMark(o) ==
  /\ waiter[o] = "mark"
  /\ SetExited(o)
  /\ waiter' = [waiter EXCEPT ![o] = "send"]
  /\ UNCHANGED <<service, inst, local, ghosts>>

WaiterSend(o) ==
  /\ waiter[o] = "send"
  /\ Publish(o, "exit")
  /\ Report(o, exit[o])
  /\ TellStopped(o)
  /\ waiter' = [waiter EXCEPT ![o] = "done"]
  /\ UNCHANGED <<service, data, inst, local, hist>>

-----------------------------------------------------------------------------
Arrive(t) ==
  \/ \E i \in Ids : CreateCheck(t, i)
  \/ StartGet(t) \/ KillGet(t) \/ DeleteGet(t) \/ WaitGet(t) \/ StateGet(t)
  \/ ShutdownCheck(t)

\* The steps that wait for the lock of an instance's state.
LockStep(t) ==
  \/ StartLock(t) \/ StartRefused(t)
  \/ KillLock(t) \/ KillRefused(t)
  \/ DeleteLock(t) \/ DeleteRefused(t) \/ DeleteMark(t)
  \/ WaitMark(t) \/ StateMark(t)

Step(t) ==
  \/ CreateFail(t) \/ CreateNew(t) \/ CreateInsert(t) \/ CreateEvent(t)
  \/ CreateHooks(t)
  \/ StartCallOk(t) \/ StartCallErr(t) \/ StartPanic(t) \/ StartPid(t)
  \/ StartDone(t) \/ StartStop(t) \/ StartEvent(t) \/ StartSpawn(t)
  \/ KillCall(t)
  \/ DeleteCallOk(t) \/ DeleteCallErr(t) \/ DeleteCode(t) \/ DeleteRemove(t)
  \/ DeleteEvent(t)
  \/ WaitWake(t)
  \/ StatePid(t) \/ StateCode(t) \/ StateReply(t)
  \/ ShutdownSignal(t)

Background(o) ==
  Reap(o) \/ GuardDrop(o) \/ WaiterWake(o) \/ WaiterSend(o)

Next ==
  /\ shim # "exited"
  /\ \/ \E t \in Threads : Arrive(t) \/ LockStep(t) \/ Step(t)
     \/ \E o \in Objs : Background(o) \/ WaiterMark(o) \/ ReapError(o) \/ ProcExit(o)
     \/ ShimExit

SafeSpec == Init /\ [][Next]_vars

\* The threads of the shim keep running until it exits, and a lock that is free
\* again and again is not withheld from a thread that wants it.  Clients need
\* not call, and processes need not exit.
Fairness ==
  /\ \A t \in Threads : WF_vars(shim # "exited" /\ Step(t))
                     /\ SF_vars(shim # "exited" /\ LockStep(t))
  /\ \A o \in Objs : WF_vars(shim # "exited" /\ Background(o))
                  /\ SF_vars(shim # "exited" /\ WaiterMark(o))

Spec == SafeSpec /\ Fairness

-----------------------------------------------------------------------------
PCs == {"idle", "c_new", "c_insert", "c_event", "c_hooks",
        "s_lock", "s_call", "s_pid", "s_started", "s_stop", "s_event", "s_spawn",
        "aborted", "k_lock", "k_call",
        "d_lock", "d_call", "d_code", "d_mark", "d_remove", "d_event",
        "w_wait", "w_mark", "q_pid", "q_code", "q_mark", "q_reply", "x_signal"}

TypeOK ==
  /\ instances \in [Ids -> Objs \cup {NoObj}]
  /\ shim \in {"serving", "signalled", "exited"}
  /\ state \in [Objs -> TaskStates \cup {"free"}]
  /\ lock \in [Objs -> Threads \cup {NoThread}]
  /\ pid \in [Objs -> BOOLEAN]
  /\ exit \in [Objs -> Codes \cup {NoCode}]
  /\ proc \in [Objs -> {"none", "created", "running", "dead", "gone"}]
  /\ reaper \in [Objs -> {"none", "waiting", "guard", "done"}]
  /\ waiter \in [Objs -> {"none", "blocked", "mark", "send", "done"}]
  /\ pc \in [Threads -> PCs]
  /\ rid \in [Threads -> Ids \cup {NoId}]
  /\ robj \in [Threads -> Objs \cup {NoObj}]
  /\ rcode \in [Threads -> Codes \cup {NoCode}]
  /\ rpid \in [Threads -> BOOLEAN]
  /\ rseen \in [Threads -> 0..2]
  /\ events \in [Objs -> Seq({"create", "start", "exit", "delete"})]
  /\ hist \in [Objs -> SUBSET Marks]
  /\ reported \in [Objs -> SUBSET Codes]
  /\ shown \in [Objs -> 0..2]

\* A thread inside start, kill or delete has the lock and the state it set.
InnerTransitionOk(t) ==
  /\ pc[t] \in {"s_call", "s_pid", "s_started", "s_stop"} =>
       lock[robj[t]] = t /\ state[robj[t]] = "Starting"
  /\ pc[t] = "k_call" => lock[robj[t]] = t /\ state[robj[t]] = "Started"
  /\ pc[t] = "d_call" => lock[robj[t]] = t /\ state[robj[t]] = "Deleting"

\* instance_data.rs:46-47 and 75, "always `Ok(())` because we hold the lock":
\* from its first transition to its last, an RPC inside start, kill or delete
\* holds the lock and finds the state as it left it, so the transitions whose
\* results the code throws away do succeed.
InnerTransitionsOk == \A t \in Threads : InnerTransitionOk(t)

\* What the Instance methods may rely on, whatever order RPCs arrive in: start
\* is called at most once and never after delete; kill only on an instance that
\* started and on which delete was never called; delete, on an instance that
\* was started, only when its exit code is known.
CallDiscipline ==
  \A t \in Threads : LET h == hist[robj[t]] IN
    /\ pc[t] = "s_call" => h \cap {"start", "delete"} = {}
    /\ pc[t] = "k_call" => "up" \in h /\ "delete" \notin h
    /\ pc[t] = "d_call" => ("start" \in h => exit[robj[t]] # NoCode)

\* Container::delete kills by force (container.rs:55).  It is never applied to a
\* container that is still running, except when the exit code was made up
\* because waitid, or a start that had let the process go, failed.
NeverDeletesRunning ==
  \A t \in Threads :
    pc[t] = "d_call" => proc[robj[t]] # "running" \/ "lost" \in hist[robj[t]]

\* The thread is between the first transition of a delete and its last.
Deleting(t) == pc[t] \in {"d_call", "d_code", "d_mark"}

\* Once a wait has answered, every start and kill is refused, and a delete is refused
\* only while another one is under way, whose end (instance_data.rs:74-77 or 97-98)
\* lets it in: no failure on the way leaves a stopped task that cannot be deleted.
WaitedMeansStopped ==
  \A o \in Objs : "waited" \in hist[o] =>
    \/ state[o] = "Exited"
    \/ state[o] = "Deleting" /\ \E t \in Threads : robj[t] = o /\ Deleting(t)

\* wait, state and delete responses and the TaskExit event all tell the same
\* exit code of an instance, although the reaper's set, its guard and a failed
\* start all write it.
OneVerdict == \A o \in Objs : reported[o] \subseteq {exit[o]}

\* Of an instance, TaskCreate, TaskStart and TaskExit each arrive at most once, and
\* TaskStart never after TaskExit, however early the container ends and whichever
\* events are lost.
ExitAfterStart ==
  \A o \in Objs : \A i, j \in DOMAIN events[o] :
    /\ events[o][i] = events[o][j] /\ events[o][i] # "delete" => i = j
    /\ events[o][i] = "start" /\ events[o][j] = "exit" => i < j

\* After TaskDelete nobody can find the task any more (get_instance fails), also
\* when creates and deletes of the same id overlap.
DeletedUnregistered ==
  \A o \in Objs : (\E k \in DOMAIN events[o] : events[o][k] = "delete") =>
    \A i \in Ids : instances[i] # o

\* The status of an instance never goes back: a state RPC does not answer less than
\* what anyone had been told before it was sent, although it reads the pid and the
\* exit code at different moments.  It says STOPPED after a wait has answered or
\* TaskExit was sent, unless the start had failed: then there is no pid, and
\* local.rs:298 says CREATED for good.
StatusMonotone ==
  \A t \in Threads : pc[t] = "q_reply" => Status(t) >= rseen[t]

StaysStopped ==
  \A o \in Objs : state[o] \in {"Exited", "Deleting"} =>
                    state'[o] \in {"Exited", "Deleting"}

\* A task that has stopped, or is being deleted, never runs again: no order of
\* RPCs takes it back to Created, Starting or Started.
NoResurrection == [][StaysStopped]_vars

\* Once the process of a started container ends, the wait thread hands TaskExit to
\* the publisher, also when the task has been deleted or replaced meanwhile.
ExitAnnounced ==
  \A o \in Objs :
    (waiter[o] # "none" /\ proc[o] \in {"dead", "gone"}) ~>
      (waiter[o] = "done" \/ shim = "exited")

\* A wait on an instance whose start was called returns once the container is
\* not running: it ended, or it never started and the guard set its exit code.
WaitsReturn ==
  \A t \in Threads, o \in Objs :
    (pc[t] = "w_wait" /\ robj[t] = o /\ "start" \in hist[o] /\ proc[o] # "running")
      ~> (pc[t] = "idle" \/ shim = "exited")

\* Every other RPC returns, also while waits on the same instance are blocked:
\* a wait does not hold the state's lock while it waits.
RpcsReturn ==
  \A t \in Threads :
    (pc[t] \notin {"idle", "w_wait"}) ~> (pc[t] = "idle" \/ shim = "exited")

\* sandbox/shim/local/tests.rs:340-350: a create for an id that exists fails
\* with AlreadyExists.  So there are never more tasks that were announced by a
\* TaskCreate and never deleted than there are ids.
CreateExclusive ==
  Cardinality({o \in Objs : /\ \E k \in DOMAIN events[o] : events[o][k] = "create"
                            /\ "delete" \notin hist[o]}) <= Cardinality(Ids)

-----------------------------------------------------------------------------
(* Where an instance is in its life, by what there is of it: its container,  *)
(* the thread that watches the process, and the exit code.                   *)
Life(o) ==
  IF state[o] = "free" THEN "none"
  ELSE IF proc[o] = "gone" THEN "deleted"
  ELSE IF reaper[o] = "waiting" THEN "running"
  ELSE IF exit[o] = NoCode THEN "created"
  ELSE "stopped"

Lives == [o \in Objs |-> Life(o)]

Lifecycle == INSTANCE TaskLifecycle WITH task <- Lives

\* instance.rs:119-120, "This is called after the instance has exited": whatever
\* RPCs race, and whatever fails, each instance goes through the life that its
\* methods are written for.  No second start takes one that has stopped, or whose
\* container has been deleted, back to running, and no container is deleted while
\* its process is watched and its exit code not known.
ImplementsLifecycle == Lifecycle!Spec

=============================================================================
