----------------------------- MODULE AtomicCell -----------------------------
(***************************************************************************)
(* What a WaitableCell (sandbox/sync.rs) promises its users: a cell that   *)
(* is written at most once, whose operations each take effect in a single  *)
(* step between call and return.  There is no mutex and no condition       *)
(* variable here; module WaitableCell implements this specification, and   *)
(* module TaskService uses the exit code cell the way it is used here.     *)
(***************************************************************************)

CONSTANTS Threads,  \* the threads that share clones of the cell
          Values,   \* the values that may be set
          NoVal     \* None: the cell is empty

VARIABLES cell,     \* NoVal or the value of the cell
          op,       \* op[t]: the operation t has called, "idle" if none
          arg,      \* arg[t]: the value t last passed to set
          ret,      \* ret[t]: what the last operation of t returned
          done      \* done[t]: which operation that was

avars == <<cell, op, arg, ret, done>>

Readers == {"wait", "poll", "timed"}

Init ==
  /\ cell = NoVal
  /\ op = [t \in Threads |-> "idle"]
  /\ arg = [t \in Threads |-> NoVal]
  /\ ret = [t \in Threads |-> NoVal]
  /\ done = [t \in Threads |-> "idle"]

Call(t, o, v) ==
  /\ op[t] = "idle"
  /\ op' = [op EXCEPT ![t] = o]
  /\ arg' = [arg EXCEPT ![t] = v]
  /\ UNCHANGED <<cell, ret, done>>

Answer(t, r) ==
  /\ ret' = [ret EXCEPT ![t] = r]
  /\ done' = [done EXCEPT ![t] = op[t]]
  /\ op' = [op EXCEPT ![t] = "idle"]
  /\ UNCHANGED arg

\* A set fills an empty cell and answers Ok (NoVal); on a full cell it changes
\* nothing and hands its argument back.
Set(t) ==
  /\ op[t] = "set"
  /\ cell' = IF cell = NoVal THEN arg[t] ELSE cell
  /\ Answer(t, IF cell = NoVal THEN NoVal ELSE arg[t])

\* A wait answers only when the cell is full; the timed operations may also
\* answer None, but only while the cell is empty.
Read(t) ==
  /\ op[t] \in Readers
  /\ op[t] = "wait" => cell # NoVal
  /\ Answer(t, cell)
  /\ UNCHANGED cell

Next ==
  \E t \in Threads :
    \/ \E v \in Values : Call(t, "set", v)
    \/ \E o \in Readers : Call(t, o, NoVal)
    \/ Set(t)
    \/ Read(t)

Spec ==
  /\ Init /\ [][Next]_avars
  /\ \A t \in Threads : WF_avars(Set(t)) /\ WF_avars(Read(t))

SafeSpec == Init /\ [][Next]_avars

=============================================================================
