--------------------------- MODULE TaskLifecycle ----------------------------
(***************************************************************************)
(* What the shim promises of each task: the life of an Instance (the trait *)
(* of sandbox/instance.rs), whose methods are called in this order.  There *)
(* are no threads, locks or RPCs here.  Module TaskService implements this *)
(* specification, and module StressTest is a client of it.                 *)
(***************************************************************************)

CONSTANT Objs  \* the instances

VARIABLE task  \* task[o]: where o is in its life

Init == task = [o \in Objs |-> "none"]

Move(o, from, to) == task[o] \in from /\ task' = [task EXCEPT ![o] = to]

Create(o) == Move(o, {"none"}, "created")
Start(o) == Move(o, {"created"}, "running")

\* A start that fails; there will be no other.
Fail(o) == Move(o, {"created"}, "stopped")

\* The exit code becomes known.
Exit(o) == Move(o, {"running"}, "stopped")

\* An instance is deleted after it has exited, or without having been started.
Delete(o) == Move(o, {"created", "stopped"}, "deleted")

Next == \E o \in Objs : Create(o) \/ Start(o) \/ Fail(o) \/ Exit(o) \/ Delete(o)

Spec == Init /\ [][Next]_task

=============================================================================
