-------------------------- MODULE StressTest_proofs --------------------------
(***************************************************************************)
(* Proofs about StressTest, for any number of tasks, any --parallel, with  *)
(* and without containerd, and any number of faults.                       *)
(***************************************************************************)
EXTENDS StressTest, FiniteSetTheorems, TLAPS

USE StressAssumption, Zenon DEF Send, Answered, Goto, Return, Polled, tool, future, server

Places == {"new", "setup", "barrier", "slot", "create", "start", "wait", "delete", "drop",
           "gone", "held"}
Answers == {"none", "pending", "ok", "err"}
Lives == {"none", "created", "running", "stopped", "deleted"}
Kinds == {"image", "snapshot", "container", "create", "start", "wait", "kill", "delete", "box"}
Boxes == {"none", "made", "gone"}
Threads == {"none", "spawned", "done", "failed"}

Mains == {"connect", "shim", "pause", "loop", "drop", "pause_drop", "end", "client", "reap",
          "exit", "failed"}

Types ==
  /\ main \in Mains
  /\ mode \in {"containerd", "mocks"}
  /\ pc \in [Everyone -> Places]
  /\ req \in [Everyone -> Kinds \cup {"none"}] /\ ans \in [Everyone -> Answers]
  /\ deleted \in [Everyone -> BOOLEAN] /\ cleaned \in [Everyone -> BOOLEAN]
  /\ result \in [Everyone -> {"none", "ok", "err"}]
  /\ svc \in [Everyone -> Lives]
  /\ box \in [Everyone -> Boxes] /\ unmount \in [Everyone -> Threads]
  /\ late \in [Everyone -> Kinds \cup {"none"}]

\* Where the futures are while main is at a place, and who blocks the thread.
Phases ==
  /\ main \in {"connect", "shim"} => \A t \in Everyone : pc[t] = "new"
  /\ main = "pause" => pc[Pause] \in {"setup", "create"} /\ \A t \in Tasks : pc[t] = "new"
  /\ main \in {"loop", "drop"} =>
       pc[Pause] = "held" /\ \A t \in Tasks : pc[t] \notin {"new", "held"}
  /\ main = "pause_drop" =>
       pc[Pause] \in {"drop", "gone"} /\ \A t \in Tasks : pc[t] \in {"new", "gone"}
  /\ main \in {"end", "client", "reap", "exit", "failed"} =>
       \A t \in Everyone : pc[t] \in {"new", "gone"}
  /\ \A t \in Everyone : pc[t] = "drop" <=> busy = t
  /\ main \in {"shim", "pause", "loop", "drop", "pause_drop", "end", "client"} => lease

\* What the place of a future says of the task that the service has.
Fate(t) ==
  /\ pc[t] = "new" => req[t] = "none" /\ ans[t] = "none"
  /\ pc[t] \in {"setup", "barrier", "slot"} => req[t] \in {"image", "snapshot"}
  /\ pc[t] \in {"barrier", "slot"} => ans[t] = "ok"
  /\ pc[t] \in {"new", "setup", "barrier", "slot"} => svc[t] = "none"
  /\ pc[t] = "create" => req[t] \in {"container", "create"}
  /\ pc[t] = "create" /\ req[t] = "create" /\ ans[t] = "ok" => svc[t] = "created"
  /\ pc[t] = "held" => req[t] = "none" /\ ans[t] = "none" /\ svc[t] = "created"
  /\ pc[t] \in {"delete", "drop"} => req[t] \in {"kill", "delete", "box"}
  /\ pc[t] = "gone" => \/ req[t] \in {"delete", "box"}
                       \/ req[t] \in {"image", "snapshot"} /\ svc[t] = "none" /\ late[t] = "none"
  /\ pc[t] \notin {"drop", "gone"} => ~cleaned[t] /\ late[t] = "none"

\* What is known of a task once an answer has come.
Honest(t) ==
  /\ req[t] = "delete" /\ ans[t] = "ok" => svc[t] = "deleted"
  /\ req[t] = "box" /\ ans[t] = "ok" => box[t] = "gone"
  /\ deleted[t] => svc[t] = "deleted"
  /\ mode = "containerd" => (cleaned[t] => box[t] = "gone")
  /\ mode = "mocks" => /\ deleted[t] => pc[t] = "gone"
                       /\ req[t] \notin {"container", "box"}
                       /\ late[t] \notin {"container", "box"}
  /\ result[t] = "ok" => /\ pc[t] = "gone" /\ svc[t] = "deleted"
                         /\ cleaned[t] /\ late[t] = "none"

\* What is known of the mounts, without containerd: only a create that comes in after
\* the future was dropped and the thread has run can leave one, and then nothing is
\* asked any more for which the service would delete the task.
Mounts(t) ==
  /\ pc[t] = "gone" /\ req[t] \in {"delete", "box"} => ans[t] # "pending"
  /\ mode = "mocks" =>
       /\ cleaned[t] <=> unmount[t] # "none"
       /\ pc[t] = "drop" /\ cleaned[t] => late[t] = "none"
       /\ unmount[t] = "done" /\ box[t] = "made" =>
            pc[t] = "gone" /\ svc[t] # "deleted" /\ late[t] = "none"

Success == status = "ok" => \A t \in Tasks : result[t] = "ok"

\* Who has passed the barrier: until then there is no request to create the task.
Passed(t) ==
  pc[t] = "slot" \/ late[t] = "create" \/ req[t] \in {"container", "create"} \/ svc[t] # "none"

Arrived == {t \in Tasks : pc[t] # "setup"}

Barrier ==
  /\ arrived \in Nat
  /\ main = "loop" => arrived <= Cardinality(Arrived) + 1
  /\ \A t \in Tasks : Passed(t) => Arrived = Tasks

Holders == {t \in Tasks : pc[t] \in {"create", "start"}}

Slots ==
  /\ free \in Nat
  /\ main \in {"connect", "shim", "pause"} => free = Permits
  /\ main = "loop" => free + Cardinality(Holders) = Permits

Inv ==
  /\ Types /\ Phases /\ Success /\ Barrier /\ Slots
  /\ \A t \in Everyone : Fate(t) /\ Honest(t) /\ Mounts(t)

-----------------------------------------------------------------------------
(* The types, and who is changed by a step of the future of t.               *)

Alone(t) == \A u \in Everyone \ {t} :
  /\ pc'[u] = pc[u] /\ req'[u] = req[u] /\ ans'[u] = ans[u]
  /\ deleted'[u] = deleted[u] /\ cleaned'[u] = cleaned[u] /\ result'[u] = result[u]
  /\ svc'[u] = svc[u] /\ box'[u] = box[u] /\ late'[u] = late[u]
  /\ unmount'[u] = unmount[u]

\* What carrying out a request makes of a task and its container.
Goes(t, r, s, b) ==
  /\ \/ r = "create" /\ svc[t] = "none" /\ s = "created"
     \/ r = "start" /\ svc[t] = "created" /\ s = "running"
     \/ r = "delete" /\ svc[t] \in {"created", "stopped"} /\ s = "deleted"
     \/ r \notin {"create", "start", "delete"} /\ s = svc[t]
  /\ \/ r = "container" /\ box[t] = "none" /\ b = "made"
     \/ r = "create" /\ mode = "mocks" /\ b = "made"
     \/ r = "box" /\ b = "gone"
     \/ r \notin {"container", "box"} /\ (r = "create" => mode # "mocks") /\ b = box[t]

LEMMA EffectGoes ==
  ASSUME Types, NEW t \in Everyone, NEW r \in Kinds \cup {"none"}, Allowed(t, r), Effect(t, r)
  PROVE  \E s \in Lives,
            b \in Boxes :
           /\ svc' = [svc EXCEPT ![t] = s] /\ box' = [box EXCEPT ![t] = b]
           /\ Goes(t, r, s, b)
<1> DEFINE s == CASE r = "create" -> "created" [] r = "start" -> "running"
                  [] r = "delete" -> "deleted" [] OTHER -> svc[t]
           b == CASE r = "container" \/ (r = "create" /\ mode = "mocks") -> "made"
                  [] r = "box" -> "gone" [] OTHER -> box[t]
<1>1. svc' = [svc EXCEPT ![t] = s]
  BY SMT DEF Effect, Types, Kinds, Life!Create, Life!Start, Life!Delete, Life!Move
<1>2. box' = [box EXCEPT ![t] = b]
  <2>1. CASE r = "container" \/ (r = "create" /\ mode = "mocks")
    <3>1. b = "made"
      BY <2>1
    <3>2. box' = [box EXCEPT ![t] = "made"]
      BY <2>1 DEF Effect
    <3> QED
      BY <3>1, <3>2
  <2>2. CASE r = "box"
    BY <2>2, SMT DEF Effect
  <2>3. CASE r # "container" /\ ~(r = "create" /\ mode = "mocks") /\ r # "box"
    <3>1. box' = box /\ b = box[t]
      BY <2>3, SMT DEF Effect
    <3> QED
      BY <3>1 DEF Types
  <2> QED
    BY <2>1, <2>2, <2>3
<1>3. Goes(t, r, s, b)
  BY SMT DEF Effect, Allowed, Goes, Types, Kinds, Life!Create, Life!Start, Life!Delete, Life!Move
<1>4. s \in Lives
      /\ b \in Boxes
  BY SMT DEF Types, Lives, Boxes
<1> QED
  BY <1>1, <1>2, <1>3, <1>4

\* A request is answered.
LEMMA ServeGoes ==
  ASSUME Types, NEW t \in Everyone, Serve(t)
  PROVE  /\ ans[t] = "pending"
         /\ \E a \in {"ok", "err"},
               s \in Lives,
               b \in Boxes :
              /\ ans' = [ans EXCEPT ![t] = a]
              /\ svc' = [svc EXCEPT ![t] = s] /\ box' = [box EXCEPT ![t] = b]
              /\ \/ Goes(t, req[t], s, b)
                 \/ a = "err" /\ s = svc[t] /\ b = box[t]
                 \/ a = "err" /\ svc[t] = "created" /\ s = "stopped" /\ b = box[t]
<1>1. req[t] \in Kinds \cup {"none"} /\ ans[t] = "pending"
  BY DEF Types, Serve
<1>2. CASE Allowed(t, req[t]) /\ Effect(t, req[t]) /\ \E a \in {"ok", "err"} : ans' = [ans EXCEPT ![t] = a]
  <2>1. PICK a \in {"ok", "err"} : ans' = [ans EXCEPT ![t] = a]
    BY <1>2
  <2>2. PICK s \in Lives, b \in Boxes : /\ svc' = [svc EXCEPT ![t] = s]
                                       /\ box' = [box EXCEPT ![t] = b]
                                       /\ Goes(t, req[t], s, b)
    BY <1>1, <1>2, EffectGoes
  <2> QED
    BY <1>1, <2>1, <2>2
<1>3. CASE UNCHANGED <<svc, box>> /\ ans' = [ans EXCEPT ![t] = "err"]
  <2>1. svc' = [svc EXCEPT ![t] = svc[t]] /\ box' = [box EXCEPT ![t] = box[t]]
    BY <1>3 DEF Types
  <2>2. svc[t] \in Lives
        /\ box[t] \in Boxes
    BY DEF Types
  <2> QED
    BY <1>1, <1>3, <2>1, <2>2
<1>4. CASE Life!Fail(t) /\ UNCHANGED box /\ ans' = [ans EXCEPT ![t] = "err"]
  <2>1. svc[t] = "created" /\ svc' = [svc EXCEPT ![t] = "stopped"] /\ box' = [box EXCEPT ![t] = box[t]]
    BY <1>4 DEF Types, Lives, Life!Fail, Life!Move
  <2>2. box[t] \in Boxes
    BY DEF Types
  <2> QED
    <3>1. "stopped" \in Lives /\ "err" \in {"ok", "err"}
      BY DEF Lives
    <3> QED
      BY <1>1, <1>4, <2>1, <2>2, <3>1
<1> QED
  BY <1>2, <1>3, <1>4 DEF Serve

\* delete() returns to the drop, or to the future, which has succeeded or drops the task.
LEMMA FinishGoes ==
  ASSUME NEW t, Finish(t)
  PROVE  \/ /\ pc[t] = "drop" /\ pc' = [pc EXCEPT ![t] = "gone"] /\ busy' = NoTask
            /\ UNCHANGED <<req, ans, result>>
         \/ /\ pc[t] # "drop" /\ Succeeds(t) /\ pc' = [pc EXCEPT ![t] = "gone"]
            /\ result' = [result EXCEPT ![t] = "ok"] /\ UNCHANGED <<req, ans, busy>>
         \/ /\ pc[t] # "drop" /\ ~Succeeds(t) /\ pc' = [pc EXCEPT ![t] = "drop"] /\ busy' = t
            /\ result' = [result EXCEPT ![t] = "err"]
            /\ \E r \in {"kill", "delete", "box"} :
                 /\ r = "box" => deleted[t] \/ deleted'[t]
                 /\ req' = [req EXCEPT ![t] = r] /\ ans' = [ans EXCEPT ![t] = "pending"]
  BY DEF Finish, FirstUndone

LEMMA FinishTypes ==
  ASSUME Types, NEW t \in Everyone, Finish(t)
  PROVE  /\ pc' \in [Everyone -> Places] /\ result' \in [Everyone -> {"none", "ok", "err"}]
         /\ req' \in [Everyone -> Kinds \cup {"none"}] /\ ans' \in [Everyone -> Answers]
         /\ \A u \in Everyone \ {t} : /\ pc'[u] = pc[u] /\ req'[u] = req[u]
                                      /\ ans'[u] = ans[u] /\ result'[u] = result[u]
  BY FinishGoes, SMT DEF Types, Kinds, Places, Answers

\* A step of the future of t, or of the service on its behalf.
LEMMA FutureTypes ==
  ASSUME Types, NEW t \in Everyone,
         Future(t) \/ Serve(t) \/ ServeLate(t) \/ TaskEnds(t) \/ Unmount(t)
  PROVE  Types' /\ Alone(t)
<1> USE DEF Types, Alone, Kinds, Places, Answers, Lives, Boxes, Threads
<1>1. CASE HalfSetUp(t)
  BY <1>1 DEF HalfSetUp, LastSetup
<1>2. CASE SetUp(t)
  BY <1>2, SMT DEF SetUp
<1>3. CASE PassBarrier(t)
  BY <1>3, SMT DEF PassBarrier
<1>4. CASE Acquire(t)
  BY <1>4, SMT DEF Acquire, FirstCreate
<1>5. CASE ContainerMade(t)
  BY <1>5 DEF ContainerMade, Proceed
<1>6. CASE Created(t)
  BY <1>6 DEF Created, Proceed
<1>7. CASE Started(t)
  BY <1>7 DEF Started, Proceed
<1>8. CASE Waited(t)
  BY <1>8 DEF Waited, Proceed, FirstUndone
<1>9. CASE Failed(t)
  BY <1>9 DEF Failed, Drop, FirstUndone
<1>10. CASE AfterKill(t)
  BY <1>10, SMT DEF AfterKill
<1>11. CASE AfterDelete(t)
  <2>1. Finish(t) \/ (Send(t, "box") /\ UNCHANGED <<pc, busy, result>>)
    BY <1>11 DEF AfterDelete
  <2>2. /\ pc' \in [Everyone -> Places] /\ result' \in [Everyone -> {"none", "ok", "err"}]
        /\ req' \in [Everyone -> Kinds \cup {"none"}] /\ ans' \in [Everyone -> Answers]
        /\ \A u \in Everyone \ {t} : /\ pc'[u] = pc[u] /\ req'[u] = req[u]
                                     /\ ans'[u] = ans[u] /\ result'[u] = result[u]
    BY <2>1, FinishTypes, SMT
  <2>3. deleted' = [deleted EXCEPT ![t] = (ans[t] = "ok")] /\ UNCHANGED <<main, mode, svc, box, late>>
    BY <1>11 DEF AfterDelete, Done
  <2>4. \/ UNCHANGED <<cleaned, unmount>>
        \/ /\ cleaned' = [cleaned EXCEPT ![t] = TRUE]
           /\ \E w \in {"spawned", unmount[t]} : unmount' = [unmount EXCEPT ![t] = w]
    BY <1>11 DEF AfterDelete
  <2>5. /\ cleaned' \in [Everyone -> BOOLEAN] /\ unmount' \in [Everyone -> Threads]
        /\ \A u \in Everyone \ {t} : cleaned'[u] = cleaned[u] /\ unmount'[u] = unmount[u]
    <3>1. CASE UNCHANGED <<cleaned, unmount>>
      BY <3>1
    <3>2. ASSUME NEW w \in {"spawned", unmount[t]}, cleaned' = [cleaned EXCEPT ![t] = TRUE],
                 unmount' = [unmount EXCEPT ![t] = w]
          PROVE  /\ cleaned' \in [Everyone -> BOOLEAN] /\ unmount' \in [Everyone -> Threads]
                 /\ \A u \in Everyone \ {t} : cleaned'[u] = cleaned[u] /\ unmount'[u] = unmount[u]
      BY <3>2, SMT
    <3> QED
      BY <2>4, <3>1, <3>2
  <2>6. /\ deleted' \in [Everyone -> BOOLEAN]
        /\ \A u \in Everyone \ {t} : deleted'[u] = deleted[u]
    BY <2>3
  <2> QED
    BY <2>2, <2>3, <2>5, <2>6
<1>12. CASE AfterBox(t)
  <2>1. Finish(t) /\ cleaned' = [cleaned EXCEPT ![t] = (ans[t] = "ok")]
        /\ UNCHANGED <<main, mode, deleted, svc, box, unmount, late>>
    BY <1>12 DEF AfterBox, Done
  <2> QED
    BY <2>1, FinishTypes, SMT
<1>13. CASE Serve(t)
  <2>1. PICK a \in {"ok", "err"}, s \in Lives, b \in Boxes :
          /\ ans' = [ans EXCEPT ![t] = a]
          /\ svc' = [svc EXCEPT ![t] = s] /\ box' = [box EXCEPT ![t] = b]
    BY <1>13, ServeGoes
  <2>2. UNCHANGED <<main, mode, pc, req, deleted, cleaned, result, unmount, late>>
    BY <1>13 DEF Serve
  <2> QED
    BY <2>1, <2>2, SMT
<1>14. CASE ServeLate(t)
  <2>1. /\ \A u \in Everyone \ {t} : svc'[u] = svc[u] /\ box'[u] = box[u]
        /\ svc' \in [Everyone -> Lives] /\ box' \in [Everyone -> Boxes]
    <3>1. CASE UNCHANGED <<svc, box>>
      BY <3>1
    <3>2. CASE Allowed(t, late[t]) /\ Effect(t, late[t])
      <4>1. PICK s \in Lives, b \in Boxes :
              svc' = [svc EXCEPT ![t] = s] /\ box' = [box EXCEPT ![t] = b]
        BY <3>2, EffectGoes
      <4> QED
        BY <4>1, SMT
    <3> QED
      BY <1>14, <3>1, <3>2 DEF ServeLate
  <2> QED
    <3>1. UNCHANGED <<main, mode, pc, req, ans, deleted, cleaned, result, unmount>>
          /\ late' = [late EXCEPT ![t] = "none"]
      BY <1>14 DEF ServeLate
    <3> QED
      BY <2>1, <3>1, SMT
<1>15. CASE TaskEnds(t)
  BY <1>15, SMT DEF TaskEnds, Life!Exit, Life!Move
<1>16. CASE Unmount(t)
  <2>1. UNCHANGED <<main, mode, pc, req, ans, deleted, cleaned, result, svc, late>>
    BY <1>16 DEF Unmount
  <2>2. \/ /\ unmount' = [unmount EXCEPT ![t] = "done"]
           /\ box' = [box EXCEPT ![t] = IF @ = "made" THEN "gone" ELSE @]
        \/ unmount' = [unmount EXCEPT ![t] = "failed"] /\ box' = box
    BY <1>16 DEF Unmount
  <2> QED
    BY <2>1, <2>2, SMT
<1> QED
  BY <1>1, <1>2, <1>3, <1>4, <1>5, <1>6, <1>7, <1>8, <1>9, <1>10, <1>11, <1>12, <1>13,
     <1>14, <1>15, <1>16 DEF Future

-----------------------------------------------------------------------------
(* The fate of a task is known at every step of its future.                  *)

Same(t) ==
  /\ deleted'[t] = deleted[t] /\ cleaned'[t] = cleaned[t] /\ result'[t] = result[t]
  /\ svc'[t] = svc[t] /\ box'[t] = box[t] /\ late'[t] = late[t] /\ mode' = mode

\* The future goes on to its next request.
LEMMA AskFate ==
  ASSUME Types, NEW t \in Everyone, Fate(t), Honest(t), Phases,
         \/ HalfSetUp(t) \/ PassBarrier(t) \/ Acquire(t) \/ ContainerMade(t)
         \/ Created(t) \/ Started(t) \/ Waited(t) \/ AfterKill(t)
  PROVE  Fate(t)' /\ Honest(t)'
<1> USE DEF Types, Same
<1>1. CASE HalfSetUp(t)
  <2>1. /\ pc[t] = "setup" /\ pc'[t] = "setup" /\ req'[t] \in {"image", "snapshot"}
        /\ ans'[t] = "pending" /\ Same(t)
    BY <1>1 DEF HalfSetUp, LastSetup
  <2> QED
    BY <2>1 DEF Fate, Honest
<1>2. CASE PassBarrier(t)
  <2>1. /\ pc[t] = "barrier" /\ pc'[t] = "slot" /\ req'[t] = req[t]
        /\ ans'[t] = ans[t] /\ Same(t)
    BY <1>2 DEF PassBarrier
  <2> QED
    BY <2>1 DEF Fate, Honest
<1>3. CASE Acquire(t)
  <2>1. /\ pc[t] = "slot" /\ pc'[t] = "create" /\ req'[t] \in {"container", "create"}
        /\ ans'[t] = "pending" /\ (mode = "mocks" => req'[t] = "create") /\ Same(t)
    BY <1>3 DEF Acquire, FirstCreate
  <2> QED
    BY <2>1 DEF Fate, Honest
<1>4. CASE ContainerMade(t)
  <2>1. /\ pc[t] = "create" /\ pc'[t] = "create" /\ req'[t] = "create"
        /\ ans'[t] = "pending" /\ Same(t)
    BY <1>4 DEF ContainerMade, Proceed
  <2> QED
    BY <2>1 DEF Fate, Honest
<1>5. CASE Created(t)
  <2>1. /\ pc[t] = "create" /\ pc'[t] = "start" /\ req'[t] = "start"
        /\ ans'[t] = "pending" /\ Same(t)
    BY <1>5 DEF Created, Proceed
  <2> QED
    BY <2>1 DEF Fate, Honest
<1>6. CASE Started(t)
  <2>1. /\ pc[t] = "start" /\ pc'[t] = "wait" /\ req'[t] = "wait"
        /\ ans'[t] = "pending" /\ Same(t)
    BY <1>6 DEF Started, Proceed
  <2> QED
    BY <2>1 DEF Fate, Honest
<1>7. CASE Waited(t)
  <2>1. /\ pc[t] = "wait" /\ pc'[t] = "delete" /\ req'[t] \in {"kill", "delete", "box"}
        /\ ans'[t] = "pending" /\ (req'[t] = "box" => deleted[t]) /\ Same(t)
    BY <1>7 DEF Waited, Proceed, FirstUndone
  <2> QED
    BY <2>1 DEF Fate, Honest
<1>8. CASE AfterKill(t)
  <2>1. /\ pc[t] \in {"delete", "drop"} /\ pc'[t] = pc[t] /\ req'[t] = "delete"
        /\ ans'[t] = "pending" /\ Same(t)
    BY <1>8 DEF AfterKill, Deletes
  <2> QED
    BY <2>1 DEF Fate, Honest
<1> QED
  BY <1>1, <1>2, <1>3, <1>4, <1>5, <1>6, <1>7, <1>8

\* The future fails, or is dropped.
LEMMA DropFate ==
  ASSUME Types, NEW t \in Everyone, Fate(t), Honest(t), Phases,
         pc[t] \notin {"new", "setup", "drop", "gone"}, Drop(t), result'[t] # "ok",
         deleted'[t] = deleted[t] /\ cleaned'[t] = cleaned[t],
         svc'[t] = svc[t] /\ box'[t] = box[t] /\ mode' = mode,
         late'[t] \in {late[t], "none", req[t]}
  PROVE  Fate(t)' /\ Honest(t)'
<1>1. /\ pc'[t] = "drop" /\ req'[t] \in {"kill", "delete", "box"} /\ ans'[t] = "pending"
      /\ req'[t] = "box" => deleted[t]
  BY DEF Drop, FirstUndone, Types
<1> QED
  BY <1>1 DEF Fate, Honest

\* Task::new has succeeded or failed.
LEMMA SetUpFate ==
  ASSUME Types, NEW t \in Everyone, Fate(t), Honest(t), SetUp(t)
  PROVE  Fate(t)' /\ Honest(t)'
<1>1. /\ pc[t] = "setup" /\ req'[t] = req[t] /\ ans'[t] = ans[t]
      /\ deleted'[t] = deleted[t] /\ cleaned'[t] = cleaned[t]
      /\ svc'[t] = svc[t] /\ box'[t] = box[t] /\ late'[t] = late[t] /\ mode' = mode
      /\ \/ pc'[t] = "barrier" /\ ans[t] = "ok" /\ result'[t] = result[t]
         \/ pc'[t] = "gone" /\ result'[t] = "err"
  BY DEF SetUp, Types
<1> QED
  BY <1>1 DEF Fate, Honest

\* delete() returns.
LEMMA FinishFate ==
  ASSUME Types, NEW t \in Everyone, Fate(t), Honest(t), Finish(t),
         pc[t] \in {"delete", "drop"}, req[t] \in {"delete", "box"},
         deleted'[t] => svc[t] = "deleted", svc'[t] = svc[t], late'[t] = late[t], mode' = mode,
         box'[t] = box[t], mode = "containerd" => (cleaned'[t] => box[t] = "gone"),
         mode = "mocks" => cleaned'[t]
  PROVE  Fate(t)' /\ Honest(t)'
<1>1. mode \in {"containerd", "mocks"} /\ (pc[t] = "delete" => ~cleaned[t])
  BY DEF Types, Fate
<1>2. CASE /\ pc[t] = "drop" /\ pc' = [pc EXCEPT ![t] = "gone"]
           /\ UNCHANGED <<req, ans, result>>
  <2>1. pc'[t] = "gone" /\ req'[t] = req[t] /\ ans'[t] = ans[t] /\ result'[t] = result[t]
        /\ result[t] # "ok"
    BY <1>2 DEF Types, Honest
  <2> QED
    BY <1>1, <2>1 DEF Fate, Honest
<1>3. CASE /\ pc[t] # "drop" /\ Succeeds(t) /\ pc' = [pc EXCEPT ![t] = "gone"]
           /\ result' = [result EXCEPT ![t] = "ok"] /\ UNCHANGED <<req, ans>>
  <2>1. pc'[t] = "gone" /\ req'[t] = req[t] /\ ans'[t] = ans[t] /\ pc[t] = "delete"
        /\ deleted'[t] /\ cleaned'[t]
    BY <1>3 DEF Types, Succeeds
  <2>2. svc[t] = "deleted"
    BY <1>1, <2>1
  <2> QED
    BY <1>1, <2>1, <2>2 DEF Fate, Honest
<1>4. CASE /\ pc[t] # "drop" /\ ~Succeeds(t) /\ pc' = [pc EXCEPT ![t] = "drop"]
           /\ result' = [result EXCEPT ![t] = "err"]
           /\ \E r \in {"kill", "delete", "box"} :
                /\ r = "box" => deleted[t] \/ deleted'[t]
                /\ req' = [req EXCEPT ![t] = r] /\ ans' = [ans EXCEPT ![t] = "pending"]
  <2>1. pc'[t] = "drop" /\ req'[t] \in {"kill", "delete", "box"} /\ ans'[t] = "pending"
        /\ result'[t] = "err" /\ (req'[t] = "box" => deleted[t] \/ deleted'[t])
        /\ pc[t] = "delete" /\ ~(deleted'[t] /\ cleaned'[t])
    BY <1>4 DEF Types, Succeeds
  <2>2. mode = "mocks" => ~deleted[t] /\ ~deleted'[t]
    BY <2>1 DEF Honest
  <2> QED
    BY <1>1, <2>1, <2>2 DEF Fate, Honest
<1> QED
  BY <1>2, <1>3, <1>4, FinishGoes

\* A request is answered, and so is one whose future was dropped.
LEMMA ServeFate ==
  ASSUME Types, NEW t \in Everyone, Fate(t), Honest(t), Serve(t) \/ ServeLate(t)
  PROVE  Fate(t)' /\ Honest(t)'
<1>0. /\ pc'[t] = pc[t] /\ req'[t] = req[t] /\ deleted'[t] = deleted[t]
      /\ cleaned'[t] = cleaned[t] /\ result'[t] = result[t] /\ mode' = mode
  BY DEF Serve, ServeLate
<1>1. CASE Serve(t)
  <2>1. PICK a \in {"ok", "err"}, s \in Lives, b \in Boxes :
          /\ ans[t] = "pending" /\ ans' = [ans EXCEPT ![t] = a]
          /\ svc' = [svc EXCEPT ![t] = s] /\ box' = [box EXCEPT ![t] = b]
          /\ \/ Goes(t, req[t], s, b)
             \/ a = "err" /\ s = svc[t] /\ b = box[t]
             \/ a = "err" /\ svc[t] = "created" /\ s = "stopped" /\ b = box[t]
    BY <1>1, ServeGoes
  <2>2. ans[t] = "pending" /\ ans'[t] = a /\ svc'[t] = s /\ box'[t] = b /\ late'[t] = late[t]
    BY <1>1, <2>1 DEF Types, Serve
  <2>3. CASE Goes(t, req[t], s, b)
    <3>1. Fate(t)'
      BY <1>0, <2>2, <2>3 DEF Fate, Goes
    <3>2. Honest(t)'
      BY <1>0, <2>2, <2>3 DEF Fate, Honest, Goes
    <3> QED
      BY <3>1, <3>2
  <2>4. CASE a = "err" /\ s = svc[t] /\ b = box[t]
    <3>1. Fate(t)'
      BY <1>0, <2>2, <2>4 DEF Fate
    <3>2. Honest(t)'
      BY <1>0, <2>2, <2>4 DEF Honest
    <3> QED
      BY <3>1, <3>2
  <2>5. CASE a = "err" /\ svc[t] = "created" /\ s = "stopped" /\ b = box[t]
    BY <1>0, <2>2, <2>5 DEF Fate, Honest
  <2> QED
    BY <2>1, <2>3, <2>4, <2>5
<1>2. CASE ServeLate(t)
  <2>1. late[t] # "none" /\ late'[t] = "none" /\ ans'[t] = ans[t]
    BY <1>2 DEF Types, ServeLate
  <2>2. CASE UNCHANGED <<svc, box>>
    BY <1>0, <2>1, <2>2 DEF Fate, Honest
  <2>3. CASE Allowed(t, late[t]) /\ Effect(t, late[t])
    <3>1. PICK s \in Lives, b \in Boxes :
            /\ svc' = [svc EXCEPT ![t] = s] /\ box' = [box EXCEPT ![t] = b]
            /\ Goes(t, late[t], s, b)
      BY <2>3, EffectGoes DEF Types
    <3>2. svc'[t] = s /\ box'[t] = b
      BY <3>1 DEF Types
    <3>3. Fate(t)'
      BY <1>0, <2>1, <3>1, <3>2 DEF Fate, Goes
    <3>4. Honest(t)'
      BY <1>0, <2>1, <3>1, <3>2, SMT DEF Fate, Honest, Goes
    <3> QED
      BY <3>3, <3>4
  <2> QED
    BY <1>2, <2>2, <2>3 DEF ServeLate
<1> QED
  BY <1>1, <1>2

\* Every step of a future and of the service.
LEMMA FutureFate ==
  ASSUME Types, Phases, NEW t \in Everyone, Fate(t), Honest(t),
         Future(t) \/ Serve(t) \/ ServeLate(t) \/ TaskEnds(t) \/ Unmount(t)
  PROVE  Fate(t)' /\ Honest(t)'
<1>1. CASE Failed(t)
  <2>1. /\ pc[t] \in {"create", "start", "wait"} /\ Drop(t) /\ result'[t] = "err"
        /\ deleted'[t] = deleted[t] /\ cleaned'[t] = cleaned[t]
        /\ svc'[t] = svc[t] /\ box'[t] = box[t] /\ mode' = mode /\ late'[t] = late[t]
    BY <1>1 DEF Failed, Types
  <2> QED
    BY <2>1, DropFate
<1>2. CASE AfterDelete(t)
  <2>1. /\ pc[t] \in {"delete", "drop"} /\ req[t] = "delete" /\ mode' = mode
        /\ deleted'[t] <=> ans[t] = "ok"
        /\ svc'[t] = svc[t] /\ late'[t] = late[t] /\ box'[t] = box[t]
    BY <1>2 DEF AfterDelete, Deletes, Done, Types
  <2>2. deleted'[t] => svc[t] = "deleted"
    BY <2>1 DEF Honest
  <2>3. CASE mode = "mocks"
    <3>1. cleaned' = [cleaned EXCEPT ![t] = TRUE] /\ Finish(t)
      BY <1>2, <2>3 DEF AfterDelete
    <3>2. cleaned'[t]
      BY <3>1 DEF Types
    <3> QED
      BY <2>1, <2>2, <2>3, <3>1, <3>2, FinishFate
  <2>4. CASE mode = "containerd" /\ cleaned[t]
    <3>1. Finish(t) /\ cleaned' = cleaned
      BY <1>2, <2>4 DEF AfterDelete
    <3>2. cleaned'[t] => box[t] = "gone"
      BY <2>4 DEF Honest
    <3> QED
      BY <2>1, <2>2, <2>4, <3>1, <3>2, FinishFate
  <2>5. CASE mode = "containerd" /\ ~cleaned[t]
    <3>1. /\ req'[t] = "box" /\ ans'[t] = "pending" /\ pc'[t] = pc[t] /\ result'[t] = result[t]
          /\ cleaned'[t] = cleaned[t] /\ box'[t] = box[t]
      BY <1>2, <2>5 DEF AfterDelete, Types
    <3> QED
      BY <2>1, <2>2, <2>5, <3>1 DEF Fate, Honest
  <2> QED
    BY <2>3, <2>4, <2>5 DEF Types
<1>3. CASE AfterBox(t)
  <2>1. /\ pc[t] \in {"delete", "drop"} /\ req[t] = "box" /\ mode' = mode
        /\ cleaned'[t] <=> ans[t] = "ok"
        /\ deleted'[t] = deleted[t] /\ Finish(t)
        /\ svc'[t] = svc[t] /\ late'[t] = late[t] /\ box'[t] = box[t]
    BY <1>3 DEF AfterBox, Deletes, Done, Types
  <2>2. mode = "containerd" /\ (deleted'[t] => svc[t] = "deleted")
        /\ (cleaned'[t] => box[t] = "gone")
    BY <2>1 DEF Types, Honest
  <2> QED
    BY <2>1, <2>2, FinishFate
<1>4. CASE TaskEnds(t)
  <2>1. /\ svc[t] = "running" /\ svc'[t] = "stopped"
        /\ UNCHANGED <<mode, pc, req, ans, deleted, cleaned, result, box, late>>
    BY <1>4 DEF TaskEnds, Life!Exit, Life!Move, Types
  <2> QED
    BY <2>1 DEF Fate, Honest
<1>5. CASE Unmount(t)
  <2>1. /\ box'[t] = box[t] \/ box'[t] = "gone"
        /\ UNCHANGED <<mode, pc, req, ans, deleted, cleaned, result, svc, late>>
    BY <1>5 DEF Unmount, Types
  <2> QED
    BY <2>1 DEF Fate, Honest
<1> QED
  BY <1>1, <1>2, <1>3, <1>4, <1>5, AskFate, SetUpFate, ServeFate DEF Future

-----------------------------------------------------------------------------
(* The phases of main, the barrier and the permits.                        *)

\* How a future moves: only in the loop of main, or while its drop blocks the thread.
Moved(t) ==
  \/ pc'[t] = pc[t] /\ busy' = busy
  \/ /\ busy = NoTask /\ main = "loop" /\ t \in Tasks /\ pc[t] # "drop"
     /\ \/ pc'[t] \notin {"new", "held", "drop"} /\ busy' = NoTask
        \/ pc'[t] = "drop" /\ busy' = t
  \/ pc[t] = "drop" /\ pc'[t] = "gone" /\ busy' = NoTask

LEMMA FutureMoves ==
  ASSUME Types, Phases, NEW t \in Everyone,
         Future(t) \/ Serve(t) \/ ServeLate(t) \/ TaskEnds(t) \/ Unmount(t)
  PROVE  Moved(t) /\ UNCHANGED <<main, lease, status, mode>>
<1>1. /\ Polled(t) /\ pc[t] # "drop" => busy = NoTask /\ (t \in Tasks => main = "loop")
      /\ pc[Pause] \in {"new", "setup", "create", "held", "drop", "gone"}
      /\ pc[t] # "drop" => busy # t
  <2>1. pc[Pause] \in {"new", "setup", "create", "held", "drop", "gone"}
    BY DEF Types, Phases, Everyone, Mains
  <2> QED
    BY <2>1 DEF Phases, Everyone
<1>2. CASE SetUp(t) \/ PassBarrier(t) \/ Acquire(t)
  BY <1>1, <1>2 DEF SetUp, PassBarrier, Acquire, Types, Moved, Everyone
<1>3. CASE Created(t) \/ Started(t) \/ Waited(t)
  BY <1>1, <1>3 DEF Created, Started, Waited, Proceed, Types, Moved, Everyone
<1>4. CASE Failed(t)
  BY <1>1, <1>4 DEF Failed, Drop, Types, Moved, Everyone
<1>5. CASE AfterDelete(t) \/ AfterBox(t)
  <2>1. /\ Polled(t) /\ pc[t] \in {"delete", "drop"} /\ UNCHANGED <<main, lease, status, mode>>
        /\ Finish(t) \/ UNCHANGED <<pc, busy>>
    BY <1>5 DEF AfterDelete, AfterBox, Deletes
  <2>2. pc[t] = "delete" => t \in Tasks
    BY <1>1 DEF Everyone
  <2>3. CASE Finish(t)
    BY <1>1, <2>1, <2>2, <2>3, FinishGoes DEF Types, Moved
  <2> QED
    BY <2>1, <2>3 DEF Moved
<1>6. CASE HalfSetUp(t) \/ ContainerMade(t) \/ AfterKill(t)
  BY <1>6 DEF HalfSetUp, ContainerMade, Proceed, AfterKill, Types, Moved
<1>7. CASE Serve(t) \/ ServeLate(t) \/ TaskEnds(t) \/ Unmount(t)
  BY <1>7 DEF Serve, ServeLate, TaskEnds, Unmount, Moved
<1> QED
  BY <1>2, <1>3, <1>4, <1>5, <1>6, <1>7 DEF Future

LEMMA FuturePhases ==
  ASSUME Types, Phases, NEW t \in Everyone, Alone(t), Moved(t), UNCHANGED <<main, lease>>
  PROVE  Phases'
<1>1. /\ Pause \in Everyone /\ \A u \in Tasks : u \in Everyone /\ u # Pause
      /\ NoTask \notin Everyone
  BY DEF Everyone
<1>2. \A u \in Everyone : pc'[u] = "drop" <=> busy' = u
  BY <1>1, SMT DEF Phases, Alone, Moved
<1>3. main \in {"connect", "shim", "pause", "end", "client", "reap", "exit", "failed"}
        => pc'[t] = pc[t]
  BY <1>1 DEF Phases, Moved, Everyone
<1>4. CASE main \in {"connect", "shim", "pause", "end", "client", "reap", "exit", "failed"}
  BY <1>1, <1>2, <1>3, <1>4 DEF Phases, Alone
<1>5. CASE main \in {"loop", "drop"}
  BY <1>1, <1>2, <1>5 DEF Phases, Alone, Moved
<1>6. CASE main = "pause_drop"
  BY <1>1, <1>2, <1>6 DEF Phases, Alone, Moved
<1> QED
  BY <1>4, <1>5, <1>6 DEF Types, Mains

-----------------------------------------------------------------------------
(* The steps of main.                                                        *)

\* The steps of main that leave the tasks and their futures alone.
Idle == UNCHANGED <<mode, future, result, svc, box, unmount, late>>

\* The others are about pause, about all tasks at once, or about a future that is
\* dropped.
StartsShim == StartShim /\ main' = "pause"
PauseMade == PauseCreated /\ main' = "loop"
PauseFails == PauseCreated /\ main' = "pause_drop"

MainStep == Main \/ CtrlC \/ ShimDies

LEMMA MainCases ==
  ASSUME MainStep
  PROVE  \/ Idle /\ main' \in Mains \cup {main}
         \/ StartsShim \/ PauseSetUp \/ PauseMade \/ PauseFails \/ DropPause
         \/ \E t \in Tasks : DropFuture(t)
<1>1. CASE Connect \/ SetupDone \/ AllReturned \/ Watchdog \/ CtrlC
  BY <1>1 DEF Connect, SetupDone, AllReturned, Watchdog, CtrlC, Break, Idle, Mains
<1>2. CASE PauseDropped \/ DropShim \/ DropClient \/ Reap \/ ShimDies
  BY <1>2 DEF PauseDropped, DropShim, DropClient, Reap, ShimDies, Idle, Mains
<1>3. CASE StartShim
  BY <1>3 DEF StartShim, StartsShim, Idle, Mains
<1>4. CASE PauseCreated
  BY <1>4 DEF PauseCreated, PauseMade, PauseFails
<1> QED
  BY <1>1, <1>2, <1>3, <1>4 DEF MainStep, Main

\* What becomes of the task t when its place and its request are all that changes.
Kept(t) ==
  /\ deleted'[t] = deleted[t] /\ cleaned'[t] = cleaned[t] /\ result'[t] = result[t]
  /\ svc'[t] = svc[t] /\ box'[t] = box[t] /\ unmount'[t] = unmount[t] /\ mode' = mode

Stays(t) ==
  Kept(t) /\ pc'[t] = pc[t] /\ req'[t] = req[t] /\ ans'[t] = ans[t] /\ late'[t] = late[t]

LEMMA StaysFate ==
  ASSUME NEW t \in Everyone, Fate(t), Honest(t), Stays(t)
  PROVE  Fate(t)' /\ Honest(t)'
BY DEF Stays, Kept, Fate, Honest

LEMMA StaysMounts ==
  ASSUME NEW t \in Everyone, Mounts(t), Stays(t)
  PROVE  Mounts(t)'
BY DEF Stays, Kept, Mounts

LEMMA MainTypes ==
  ASSUME Types, MainStep
  PROVE  Types'
<1> USE DEF Types
<1>1. CASE Idle /\ main' \in Mains \cup {main}
  BY <1>1 DEF Idle
<1>2. CASE StartsShim
  BY <1>2, SMT DEF StartsShim, StartShim, FirstSetup, Kinds, Places, Answers, Mains, Everyone
<1>3. CASE PauseSetUp
  <2>1. main' \in Mains /\ UNCHANGED <<mode, deleted, cleaned, result, svc, box, unmount, late>>
    BY <1>3 DEF PauseSetUp, Mains
  <2>2. pc' \in [Everyone -> Places]
    BY <1>3, SMT DEF PauseSetUp, Places
  <2>3. req' \in [Everyone -> Kinds \cup {"none"}] /\ ans' \in [Everyone -> Answers]
    BY <1>3 DEF PauseSetUp, FirstCreate, Kinds, Answers
  <2> QED
    BY <2>1, <2>2, <2>3
<1>4. CASE PauseMade
  <2>1. main' \in Mains /\ UNCHANGED <<mode, deleted, cleaned, result, svc, box, unmount, late>>
    BY <1>4 DEF PauseMade, PauseCreated, Mains
  <2>2. /\ pc' = [t \in Everyone |-> IF t = Pause THEN "held" ELSE "setup"]
        /\ req' = [t \in Everyone |-> IF t = Pause THEN "none" ELSE FirstSetup]
        /\ ans' = [t \in Everyone |-> IF t = Pause THEN "none" ELSE "pending"]
    BY <1>4 DEF PauseMade, PauseCreated
  <2>3. pc' \in [Everyone -> Places] /\ ans' \in [Everyone -> Answers]
    BY <2>2 DEF Places, Answers
  <2>4. req' \in [Everyone -> Kinds \cup {"none"}]
    BY <2>2 DEF FirstSetup, Kinds
  <2> QED
    BY <2>1, <2>3, <2>4
<1>5. CASE PauseFails \/ DropPause
  <2>1. /\ main' \in Mains /\ UNCHANGED <<mode, deleted, cleaned, result, svc, box, unmount, late>>
        /\ Drop(Pause)
    BY <1>5 DEF PauseFails, PauseCreated, DropPause, Mains
  <2>2. /\ pc' \in [Everyone -> Places] /\ ans' \in [Everyone -> Answers]
        /\ req' \in [Everyone -> Kinds \cup {"none"}]
    BY <2>1 DEF Drop, FirstUndone, Kinds, Places, Answers
  <2> QED
    BY <2>1, <2>2
<1>6. CASE \E t \in Tasks : DropFuture(t)
  <2> PICK t \in Tasks : DropFuture(t)
    BY <1>6
  <2>1. UNCHANGED <<main, mode, deleted, cleaned, result, svc, box, unmount>>
    BY DEF DropFuture
  <2>2. /\ pc' \in [Everyone -> Places] /\ ans' \in [Everyone -> Answers]
        /\ req' \in [Everyone -> Kinds \cup {"none"}]
    BY SMT DEF DropFuture, Drop, FirstUndone, Kinds, Places, Answers
  <2>3. late' \in [Everyone -> Kinds \cup {"none"}]
    BY DEF DropFuture, Everyone
  <2> QED
    BY <2>1, <2>2, <2>3
<1> QED
  BY <1>1, <1>2, <1>3, <1>4, <1>5, <1>6, MainCases

LEMMA MainFate ==
  ASSUME Types, Phases, MainStep, NEW t \in Everyone, Fate(t), Honest(t)
  PROVE  Fate(t)' /\ Honest(t)'
<1> USE DEF Types
<1>1. CASE Idle
  BY <1>1, StaysFate DEF Idle, Stays, Kept
<1>2. CASE StartsShim
  <2>1. CASE t = Pause
    <3>1. /\ pc[t] = "new" /\ pc'[t] = "setup" /\ req'[t] \in {"image", "snapshot"}
          /\ ans'[t] = "pending" /\ late'[t] = late[t] /\ Kept(t)
      BY <1>2, <2>1 DEF StartsShim, StartShim, FirstSetup, Phases, Kept
    <3> QED
      BY <3>1 DEF Fate, Honest, Kept
  <2>2. CASE t # Pause
    BY <1>2, <2>2, StaysFate DEF StartsShim, StartShim, Stays, Kept
  <2> QED
    BY <2>1, <2>2
<1>3. CASE PauseSetUp
  <2>1. CASE t = Pause
    <3>1. /\ pc[t] = "setup" /\ late'[t] = late[t] /\ Kept(t)
      BY <1>3, <2>1 DEF PauseSetUp, Kept
    <3>2. \/ pc'[t] = "gone" /\ req'[t] = req[t] /\ ans'[t] = ans[t]
          \/ /\ pc'[t] = "create" /\ req'[t] \in {"container", "create"}
             /\ ans'[t] = "pending" /\ (mode = "mocks" => req'[t] = "create")
      BY <1>3, <2>1 DEF PauseSetUp, FirstCreate
    <3> QED
      BY <3>1, <3>2 DEF Fate, Honest, Kept
  <2>2. CASE t # Pause
    BY <1>3, <2>2, StaysFate DEF PauseSetUp, Stays, Kept
  <2> QED
    BY <2>1, <2>2
<1>4. CASE PauseMade
  <2>1. late'[t] = late[t] /\ Kept(t)
    BY <1>4 DEF PauseMade, PauseCreated, Kept
  <2>2. /\ pc' = [u \in Everyone |-> IF u = Pause THEN "held" ELSE "setup"]
        /\ req' = [u \in Everyone |-> IF u = Pause THEN "none" ELSE FirstSetup]
        /\ ans' = [u \in Everyone |-> IF u = Pause THEN "none" ELSE "pending"]
        /\ Polled(Pause) /\ pc[Pause] = "create" /\ req[Pause] = "create" /\ ans[Pause] = "ok"
    BY <1>4 DEF PauseMade, PauseCreated
  <2>3. CASE t = Pause
    <3>1. pc'[t] = "held" /\ req'[t] = "none" /\ ans'[t] = "none"
      BY <2>2, <2>3
    <3>2. svc[t] = "created" /\ pc[t] = "create"
      BY <2>2, <2>3 DEF Fate
    <3> QED
      BY <2>1, <3>1, <3>2 DEF Fate, Honest, Kept
  <2>4. CASE t # Pause
    <3>1. pc'[t] = "setup" /\ req'[t] \in {"image", "snapshot"} /\ ans'[t] = "pending"
      BY <2>2, <2>4 DEF FirstSetup
    <3>2. main = "pause"
      BY <2>2 DEF Phases, Everyone
    <3>3. pc[t] = "new"
      BY <2>4, <3>2 DEF Phases, Everyone
    <3> QED
      BY <2>1, <3>1, <3>3 DEF Fate, Honest, Kept
  <2> QED
    BY <2>3, <2>4
<1>5. CASE PauseFails \/ DropPause
  <2>1. /\ Drop(Pause) /\ pc[Pause] \in {"create", "held"}
        /\ UNCHANGED <<mode, deleted, cleaned, result, svc, box, unmount, late>>
    BY <1>5 DEF PauseFails, PauseCreated, DropPause, Phases
  <2>2. CASE t = Pause
    <3>1. result'[t] # "ok"
      BY <2>1, <2>2 DEF Honest
    <3> QED
      BY <2>1, <2>2, <3>1, DropFate
  <2>3. CASE t # Pause
    BY <2>1, <2>3, StaysFate DEF Drop, Stays, Kept
  <2> QED
    BY <2>2, <2>3
<1>6. CASE \E u \in Tasks : DropFuture(u)
  <2> PICK u \in Tasks : DropFuture(u)
    BY <1>6
  <2>1. CASE t # u
    BY <2>1, StaysFate DEF DropFuture, Drop, Stays, Kept
  <2>2. CASE t = u /\ pc[t] = "setup"
    <3>1. /\ pc'[t] = "gone" /\ req'[t] = req[t] /\ ans'[t] = ans[t] /\ late'[t] = "none"
          /\ Kept(t)
      BY <2>2 DEF DropFuture, Kept
    <3> QED
      BY <2>2, <3>1 DEF Fate, Honest, Kept
  <2>3. CASE t = u /\ pc[t] # "setup"
    <3>1. /\ Drop(t) /\ pc[t] \notin {"new", "setup", "drop", "gone"}
          /\ UNCHANGED <<mode, deleted, cleaned, result, svc, box>>
      BY <2>3 DEF DropFuture, Phases, Everyone
    <3>2. late'[t] \in {"none", req[t]}
      BY <2>3 DEF DropFuture
    <3>3. result'[t] # "ok"
      BY <3>1 DEF Honest
    <3> QED
      BY <3>1, <3>2, <3>3, DropFate
  <2> QED
    BY <2>1, <2>2, <2>3
<1> QED
  BY <1>1, <1>2, <1>3, <1>4, <1>5, <1>6, MainCases

LEMMA MainPhases ==
  ASSUME Types, Phases, MainStep
  PROVE  Phases'
<1> USE DEF Types
<1>1. /\ Pause \in Everyone /\ \A u \in Tasks : u \in Everyone /\ u # Pause
      /\ NoTask \notin Everyone /\ \A u \in Everyone : u = Pause \/ u \in Tasks
  BY DEF Everyone
<1>2. CASE Connect
  BY <1>2, <1>1 DEF Connect, Phases
<1>3. CASE StartShim
  <2>1. CASE main' = "pause"
    BY <1>3, <1>1, <2>1, SMT DEF StartShim, Phases
  <2>2. CASE main' # "pause"
    <3>1. main = "shim" /\ main' = "client" /\ UNCHANGED <<pc, busy, lease>>
      BY <1>3, <2>2 DEF StartShim
    <3> QED
      BY <3>1 DEF Phases
  <2> QED
    BY <2>1, <2>2
<1>4. CASE PauseSetUp
  <2>1. main = "pause" /\ busy' = busy /\ lease' = lease
    BY <1>4, <1>1 DEF PauseSetUp, Phases
  <2>2. /\ \A u \in Tasks : pc'[u] = pc[u]
        /\ \/ pc'[Pause] = "create" /\ main' = "pause"
           \/ pc'[Pause] = "gone" /\ main' = "end"
    BY <1>4, <1>1, <2>1 DEF PauseSetUp
  <2>3. pc[Pause] = "setup"
    BY <1>4 DEF PauseSetUp
  <2> QED
    BY <1>1, <2>1, <2>2, <2>3 DEF Phases
<1>5. CASE PauseMade
  <2>1. /\ main = "pause" /\ main' = "loop" /\ busy' = busy /\ lease' = lease
        /\ pc' = [u \in Everyone |-> IF u = Pause THEN "held" ELSE "setup"]
    BY <1>5, <1>1 DEF PauseMade, PauseCreated, Phases
  <2>2. pc'[Pause] = "held" /\ \A u \in Tasks : pc'[u] = "setup" /\ pc[u] = "new"
    BY <1>1, <2>1 DEF Phases
  <2>3. pc[Pause] = "create"
    BY <1>5 DEF PauseMade, PauseCreated
  <2> QED
    BY <1>1, <2>1, <2>2, <2>3 DEF Phases
<1>6. CASE PauseFails \/ DropPause
  <2>1. /\ main \in {"pause", "drop"} /\ main' = "pause_drop" /\ lease' = lease
        /\ Drop(Pause) /\ \A u \in Tasks : pc[u] \in {"new", "gone"}
    BY <1>6, <1>1 DEF PauseFails, PauseCreated, DropPause, Phases
  <2>2. pc'[Pause] = "drop" /\ busy' = Pause /\ \A u \in Tasks : pc'[u] = pc[u]
    BY <1>1, <2>1 DEF Drop
  <2> QED
    BY <1>1, <2>1, <2>2 DEF Phases
<1>7. CASE \E t \in Tasks : DropFuture(t)
  <2> PICK t \in Tasks : DropFuture(t)
    BY <1>7
  <2>1. /\ main = "drop" /\ main' = "drop" /\ lease' = lease /\ busy = NoTask
        /\ \A u \in Everyone \ {t} : pc'[u] = pc[u]
        /\ \/ pc'[t] = "gone" /\ busy' = busy
           \/ pc'[t] = "drop" /\ busy' = t
    BY <1>1 DEF DropFuture, Drop
  <2> QED
    BY <1>1, <2>1, SMT DEF Phases
<1>8. CASE SetupDone \/ AllReturned \/ Watchdog \/ CtrlC
  BY <1>8 DEF SetupDone, AllReturned, Watchdog, CtrlC, Break, Phases
<1>9. CASE PauseDropped
  <2>1. pc[Pause] # "drop"
    BY <1>1, <1>9 DEF PauseDropped, Phases
  <2> QED
    BY <1>1, <1>9, <2>1 DEF PauseDropped, Phases
<1>10. CASE DropShim \/ DropClient \/ Reap \/ ShimDies
  BY <1>10 DEF DropShim, DropClient, Reap, ShimDies, Phases
<1> QED
  BY <1>2, <1>3, <1>4, <1>5, <1>6, <1>7, <1>8, <1>9, <1>10
  DEF MainStep, Main, PauseMade, PauseFails, PauseCreated

-----------------------------------------------------------------------------
(* The mounts.                                                                *)

\* A step of the future before its task is deleted or dropped.
LEMMA EarlyMounts ==
  ASSUME Types, NEW t \in Everyone, Fate(t), Mounts(t),
         pc[t] \notin {"drop", "gone"}, cleaned'[t] = cleaned[t], unmount'[t] = unmount[t],
         mode' = mode, pc'[t] = "gone" => req'[t] \in {"image", "snapshot"}
  PROVE  Mounts(t)'
<1>1. ~cleaned[t] /\ (mode = "mocks" => unmount[t] = "none")
  BY DEF Fate, Mounts
<1> QED
  BY <1>1 DEF Mounts

\* delete() returns: the thread is there, and the answer to its last request.
LEMMA FinishMounts ==
  ASSUME Types, NEW t \in Everyone, Fate(t), Honest(t), Mounts(t), Finish(t),
         pc[t] \in {"delete", "drop"}, ans[t] # "pending",
         svc'[t] = svc[t], box'[t] = box[t], late'[t] = late[t], mode' = mode,
         mode = "mocks" => /\ cleaned'[t]
                           /\ unmount'[t] = IF cleaned[t] THEN unmount[t] ELSE "spawned"
  PROVE  Mounts(t)'
<1>1. /\ mode = "mocks" => /\ unmount'[t] # "none"
                           /\ unmount'[t] = "done" => unmount[t] = "done"
      /\ pc[t] = "delete" => late[t] = "none"
  BY DEF Mounts, Fate
<1>2. mode = "mocks" => ~(unmount'[t] = "done" /\ box'[t] = "made")
  BY <1>1 DEF Mounts
<1>3. \/ pc'[t] = "gone" /\ ans'[t] = ans[t]
      \/ pc'[t] = "drop" /\ pc[t] = "delete"
  BY FinishGoes, SMT DEF Types
<1> QED
  BY <1>1, <1>2, <1>3 DEF Mounts

\* Every step of a future and of the service.
LEMMA FutureMounts ==
  ASSUME Types, NEW t \in Everyone, Fate(t), Honest(t), Mounts(t),
         Future(t) \/ Serve(t) \/ ServeLate(t) \/ TaskEnds(t) \/ Unmount(t)
  PROVE  Mounts(t)'
<1> USE DEF Types
<1>1. CASE \/ HalfSetUp(t) \/ SetUp(t) \/ PassBarrier(t) \/ Acquire(t) \/ ContainerMade(t)
           \/ Created(t) \/ Started(t) \/ Waited(t) \/ Failed(t)
  <2>1. /\ pc[t] \notin {"drop", "gone"}
        /\ cleaned'[t] = cleaned[t] /\ unmount'[t] = unmount[t] /\ mode' = mode
    BY <1>1 DEF HalfSetUp, SetUp, PassBarrier, Acquire, ContainerMade, Created, Started, Waited,
                Proceed, Failed
  <2>2. CASE SetUp(t)
    <3>1. pc[t] = "setup" /\ req'[t] = req[t]
      BY <2>2 DEF SetUp
    <3> QED
      BY <2>1, <3>1, EarlyMounts DEF Fate
  <2>3. CASE \/ HalfSetUp(t) \/ PassBarrier(t) \/ Acquire(t) \/ ContainerMade(t)
             \/ Created(t) \/ Started(t) \/ Waited(t) \/ Failed(t)
    <3>1. pc'[t] # "gone"
      BY <2>1, <2>3 DEF HalfSetUp, PassBarrier, Acquire, ContainerMade, Created, Started, Waited,
                        Proceed, Failed, Drop
    <3> QED
      BY <2>1, <3>1, EarlyMounts
  <2> QED
    BY <1>1, <2>2, <2>3
<1>2. CASE AfterKill(t)
  <2>1. /\ pc[t] \in {"delete", "drop"} /\ pc'[t] = pc[t] /\ mode' = mode
        /\ cleaned'[t] = cleaned[t] /\ unmount'[t] = unmount[t] /\ late'[t] = late[t]
        /\ svc'[t] = svc[t] /\ box'[t] = box[t]
    BY <1>2 DEF AfterKill, Deletes
  <2> QED
    BY <2>1 DEF Mounts
<1>3. CASE AfterDelete(t)
  <2>1. /\ pc[t] \in {"delete", "drop"} /\ mode' = mode /\ ans[t] # "pending"
        /\ svc'[t] = svc[t] /\ late'[t] = late[t] /\ box'[t] = box[t]
    BY <1>3 DEF AfterDelete, Deletes
  <2>2. CASE mode = "mocks"
    <3>1. /\ cleaned' = [cleaned EXCEPT ![t] = TRUE] /\ Finish(t)
          /\ unmount' = [unmount EXCEPT ![t] = IF cleaned[t] THEN @ ELSE "spawned"]
      BY <1>3, <2>2 DEF AfterDelete
    <3>2. cleaned'[t] /\ unmount'[t] = IF cleaned[t] THEN unmount[t] ELSE "spawned"
      BY <3>1
    <3> QED
      BY <2>1, <3>1, <3>2, FinishMounts
  <2>3. CASE mode # "mocks" /\ Finish(t)
    BY <2>1, <2>3, FinishMounts
  <2>4. CASE mode # "mocks" /\ ~Finish(t)
    <3>1. pc'[t] = pc[t]
      BY <1>3, <2>4 DEF AfterDelete
    <3> QED
      BY <2>1, <2>4, <3>1 DEF Mounts
  <2> QED
    BY <2>2, <2>3, <2>4
<1>4. CASE AfterBox(t)
  <2>1. /\ pc[t] \in {"delete", "drop"} /\ mode' = mode /\ ans[t] # "pending" /\ req[t] = "box"
        /\ svc'[t] = svc[t] /\ late'[t] = late[t] /\ box'[t] = box[t] /\ Finish(t)
    BY <1>4 DEF AfterBox, Deletes
  <2>2. mode # "mocks"
    BY <2>1 DEF Honest
  <2> QED
    BY <2>1, <2>2, FinishMounts
<1>5. CASE Serve(t)
  <2>1. PICK a \in {"ok", "err"}, s \in Lives, b \in Boxes :
          /\ ans[t] = "pending" /\ ans' = [ans EXCEPT ![t] = a]
          /\ svc' = [svc EXCEPT ![t] = s] /\ box' = [box EXCEPT ![t] = b]
          /\ \/ Goes(t, req[t], s, b)
             \/ a = "err" /\ s = svc[t] /\ b = box[t]
             \/ a = "err" /\ svc[t] = "created" /\ s = "stopped" /\ b = box[t]
    BY <1>5, ServeGoes
  <2>2. /\ ans'[t] = a /\ svc'[t] = s /\ box'[t] = b /\ late'[t] = late[t] /\ pc'[t] = pc[t]
        /\ req'[t] = req[t] /\ cleaned'[t] = cleaned[t] /\ unmount'[t] = unmount[t] /\ mode' = mode
    BY <1>5, <2>1 DEF Serve
  <2>3. ASSUME mode = "mocks", unmount[t] = "done", b = "made"
        PROVE  pc[t] = "gone" /\ s # "deleted" /\ late[t] = "none"
    <3>1. cleaned[t] /\ pc[t] \in {"drop", "gone"}
      BY <2>3 DEF Mounts, Fate
    <3>2. req[t] \notin {"container", "create"}
      BY <3>1 DEF Fate
    <3>3. box[t] = "made"
      BY <2>1, <2>3, <3>2 DEF Goes
    <3>4. pc[t] = "gone" /\ svc[t] # "deleted" /\ late[t] = "none"
      BY <2>3, <3>3 DEF Mounts
    <3>5. req[t] \notin {"delete", "box"}
      BY <2>1, <3>4 DEF Mounts
    <3> QED
      BY <2>1, <3>4, <3>5 DEF Goes
  <2> QED
    BY <2>1, <2>2, <2>3 DEF Mounts
<1>6. CASE ServeLate(t)
  <2>1. /\ late[t] # "none" /\ late'[t] = "none" /\ ans'[t] = ans[t] /\ pc'[t] = pc[t]
        /\ req'[t] = req[t] /\ cleaned'[t] = cleaned[t] /\ unmount'[t] = unmount[t] /\ mode' = mode
    BY <1>6 DEF ServeLate
  <2>2. CASE UNCHANGED <<svc, box>>
    BY <2>1, <2>2 DEF Mounts
  <2>3. CASE Allowed(t, late[t]) /\ Effect(t, late[t])
    <3>1. PICK s \in Lives, b \in Boxes :
            /\ svc' = [svc EXCEPT ![t] = s] /\ box' = [box EXCEPT ![t] = b]
            /\ Goes(t, late[t], s, b)
      BY <2>3, EffectGoes
    <3>2. svc'[t] = s /\ box'[t] = b
      BY <3>1
    <3>3. ASSUME mode = "mocks", unmount[t] = "done", b = "made"
          PROVE  pc[t] = "gone" /\ s # "deleted"
      <4>1. cleaned[t] /\ pc[t] \in {"drop", "gone"}
        BY <3>3 DEF Mounts, Fate
      <4>2. pc[t] = "gone"
        BY <2>1, <3>3, <4>1 DEF Mounts
      <4>3. box[t] # "made"
        BY <2>1, <3>3 DEF Mounts
      <4>4. late[t] # "delete"
        BY <3>1, <3>3, <4>3 DEF Goes
      <4>5. late[t] = "create"
        BY <3>1, <3>3, <4>3 DEF Goes, Honest
      <4> QED
        BY <3>1, <4>2, <4>5 DEF Goes
    <3> QED
      BY <2>1, <3>2, <3>3 DEF Mounts
  <2> QED
    BY <1>6, <2>2, <2>3 DEF ServeLate
<1>7. CASE TaskEnds(t)
  <2>1. /\ svc'[t] = "stopped"
        /\ UNCHANGED <<mode, pc, req, ans, cleaned, box, unmount, late>>
    BY <1>7 DEF TaskEnds, Life!Exit, Life!Move
  <2> QED
    BY <2>1 DEF Mounts
<1>8. CASE Unmount(t)
  <2>1. /\ unmount[t] = "spawned" /\ unmount'[t] \in {"done", "failed"}
        /\ unmount'[t] = "done" => box'[t] # "made"
        /\ UNCHANGED <<mode, pc, req, ans, cleaned, svc, late>>
    BY <1>8 DEF Unmount
  <2> QED
    BY <2>1 DEF Mounts
<1> QED
  BY <1>1, <1>2, <1>3, <1>4, <1>5, <1>6, <1>7, <1>8 DEF Future

\* A task is dropped by main.
LEMMA DropMounts ==
  ASSUME Types, NEW t \in Everyone, Fate(t), Mounts(t), Drop(t),
         pc[t] \notin {"drop", "gone"}, cleaned'[t] = cleaned[t], unmount'[t] = unmount[t],
         mode' = mode
  PROVE  Mounts(t)'
<1>1. pc'[t] = "drop"
  BY DEF Drop, Types
<1> QED
  BY <1>1, EarlyMounts

LEMMA MainMounts ==
  ASSUME Types, Phases, MainStep, NEW t \in Everyone, Fate(t), Mounts(t)
  PROVE  Mounts(t)'
<1> USE DEF Types
<1>1. CASE Idle
  BY <1>1, StaysMounts DEF Idle, Stays, Kept
<1>2. CASE StartsShim
  <2>1. CASE t = Pause
    <3>1. /\ pc[t] = "new" /\ pc'[t] = "setup" /\ Kept(t)
      BY <1>2, <2>1 DEF StartsShim, StartShim, Phases, Kept
    <3> QED
      BY <3>1, EarlyMounts DEF Kept
  <2>2. CASE t # Pause
    BY <1>2, <2>2, StaysMounts DEF StartsShim, StartShim, Stays, Kept
  <2> QED
    BY <2>1, <2>2
<1>3. CASE PauseSetUp
  <2>1. CASE t = Pause
    <3>1. /\ pc[t] = "setup" /\ Kept(t)
      BY <1>3, <2>1 DEF PauseSetUp, Kept
    <3>2. pc'[t] = "gone" => req'[t] = req[t]
      BY <1>3, <2>1 DEF PauseSetUp
    <3> QED
      BY <3>1, <3>2, EarlyMounts DEF Kept, Fate
  <2>2. CASE t # Pause
    BY <1>3, <2>2, StaysMounts DEF PauseSetUp, Stays, Kept
  <2> QED
    BY <2>1, <2>2
<1>4. CASE PauseMade
  <2>1. Kept(t)
    BY <1>4 DEF PauseMade, PauseCreated, Kept
  <2>2. /\ pc' = [u \in Everyone |-> IF u = Pause THEN "held" ELSE "setup"]
        /\ Polled(Pause) /\ pc[Pause] = "create"
    BY <1>4 DEF PauseMade, PauseCreated
  <2>3. pc'[t] # "gone"
    BY <2>2
  <2>4. main = "pause"
    BY <2>2 DEF Phases, Everyone
  <2>5. pc[t] \notin {"drop", "gone"}
    BY <2>2, <2>4 DEF Phases, Everyone
  <2> QED
    BY <2>1, <2>3, <2>5, EarlyMounts DEF Kept
<1>5. CASE PauseFails \/ DropPause
  <2>1. /\ Drop(Pause) /\ pc[Pause] \in {"create", "held"}
        /\ UNCHANGED <<mode, deleted, cleaned, result, svc, box, unmount, late>>
    BY <1>5 DEF PauseFails, PauseCreated, DropPause, Phases
  <2>2. CASE t = Pause
    BY <2>1, <2>2, DropMounts
  <2>3. CASE t # Pause
    BY <2>1, <2>3, StaysMounts DEF Drop, Stays, Kept
  <2> QED
    BY <2>2, <2>3
<1>6. CASE \E u \in Tasks : DropFuture(u)
  <2> PICK u \in Tasks : DropFuture(u)
    BY <1>6
  <2>1. CASE t # u
    BY <2>1, StaysMounts DEF DropFuture, Drop, Stays, Kept
  <2>2. CASE t = u /\ pc[t] = "setup"
    <3>1. /\ req'[t] = req[t] /\ Kept(t)
      BY <2>2 DEF DropFuture, Kept
    <3> QED
      BY <2>2, <3>1, EarlyMounts DEF Fate, Kept
  <2>3. CASE t = u /\ pc[t] # "setup"
    <3>1. /\ Drop(t) /\ pc[t] \notin {"drop", "gone"}
          /\ UNCHANGED <<mode, cleaned, unmount>>
      BY <2>3 DEF DropFuture, Phases, Everyone
    <3> QED
      BY <3>1, DropMounts
  <2> QED
    BY <2>1, <2>2, <2>3
<1> QED
  BY <1>1, <1>2, <1>3, <1>4, <1>5, <1>6, MainCases

-----------------------------------------------------------------------------
(* Success, the barrier and the permits.                                      *)

FutureStep(t) == Future(t) \/ Serve(t) \/ ServeLate(t) \/ TaskEnds(t) \/ Unmount(t)

LEMMA FutureSuccess ==
  ASSUME Types, Success, NEW t \in Everyone, Honest(t), FutureStep(t), Alone(t),
         status' = status
  PROVE  Success'
<1>1. result[t] = "ok" => result'[t] = "ok"
  <2> SUFFICES ASSUME result[t] = "ok" PROVE result' = result
    OBVIOUS
  <2>1. pc[t] = "gone"
    BY DEF Honest
  <2>2. ~Future(t)
    BY <2>1 DEF Future, HalfSetUp, SetUp, PassBarrier, Acquire, ContainerMade, Created, Started,
                Waited, Proceed, Failed, AfterKill, AfterDelete, AfterBox, Deletes
  <2> QED
    BY <2>2 DEF FutureStep, Serve, ServeLate, TaskEnds, Unmount
<1> QED
  BY <1>1 DEF Success, Alone, Everyone

LEMMA MainSuccess ==
  ASSUME Success, MainStep
  PROVE  Success'
<1>1. CASE SetupDone \/ AllReturned \/ Watchdog \/ CtrlC
  BY <1>1 DEF SetupDone, AllReturned, Watchdog, CtrlC, Break, Success
<1>2. CASE Connect \/ StartShim \/ PauseSetUp \/ PauseCreated
  BY <1>2 DEF Connect, StartShim, PauseSetUp, PauseCreated, Success
<1>3. CASE \/ PauseDropped \/ DropShim \/ DropClient \/ Reap \/ ShimDies \/ DropPause
           \/ \E t \in Tasks : DropFuture(t)
  BY <1>3 DEF PauseDropped, DropShim, DropClient, Reap, ShimDies, DropPause, DropFuture, Success
<1> QED
  BY <1>1, <1>2, <1>3 DEF MainStep, Main

\* Nobody passes the barrier but by PassBarrier.
LEMMA PassedBefore ==
  ASSUME Types, NEW t \in Everyone, Fate(t), FutureStep(t), ~PassBarrier(t), Passed(t)'
  PROVE  Passed(t)
<1> USE DEF Types
<1>1. CASE HalfSetUp(t)
  BY <1>1 DEF HalfSetUp, LastSetup, Passed
<1>2. CASE SetUp(t)
  BY <1>2 DEF SetUp, Passed
<1>3. CASE Acquire(t)
  BY <1>3 DEF Acquire, Passed
<1>4. CASE ContainerMade(t)
  BY <1>4 DEF ContainerMade, Proceed, Passed
<1>5. CASE Created(t) \/ Started(t) \/ Waited(t)
  <2>1. pc'[t] \in {"start", "wait", "delete"} /\ late' = late /\ svc' = svc
    BY <1>5 DEF Created, Started, Waited, Proceed
  <2>2. req'[t] \in {"start", "wait", "kill", "delete", "box"}
    BY <1>5 DEF Created, Started, Waited, Proceed, FirstUndone
  <2> QED
    BY <2>1, <2>2 DEF Passed
<1>6. CASE Failed(t)
  BY <1>6 DEF Failed, Drop, FirstUndone, Passed
<1>7. CASE AfterKill(t)
  BY <1>7 DEF AfterKill, Deletes, Passed
<1>8. CASE AfterDelete(t) \/ AfterBox(t)
  <2>1. /\ pc[t] \in {"delete", "drop"} /\ late' = late /\ svc' = svc
        /\ Finish(t) \/ (Send(t, "box") /\ pc' = pc)
    BY <1>8 DEF AfterDelete, AfterBox, Deletes
  <2>2. pc'[t] # "slot" /\ (req'[t] = req[t] \/ req'[t] \in {"kill", "delete", "box"})
    BY <2>1 DEF Finish, FirstUndone
  <2> QED
    BY <2>1, <2>2 DEF Passed
<1>9. CASE Serve(t)
  <2>1. pc' = pc /\ req' = req /\ late' = late
    BY <1>9 DEF Serve
  <2>2. svc[t] = "none" /\ svc'[t] # "none" => req[t] = "create"
    BY <1>9, ServeGoes, SMT DEF Goes
  <2> QED
    BY <2>1, <2>2 DEF Passed
<1>10. CASE ServeLate(t)
  <2>1. pc' = pc /\ req' = req /\ late'[t] = "none"
    BY <1>10 DEF ServeLate
  <2>2. svc[t] = "none" /\ svc'[t] # "none" => late[t] = "create"
    BY <1>10, EffectGoes, SMT DEF Goes, ServeLate
  <2> QED
    BY <2>1, <2>2 DEF Passed
<1>11. CASE TaskEnds(t) \/ Unmount(t)
  BY <1>11 DEF TaskEnds, Unmount, Passed, Life!Exit, Life!Move
<1> QED
  BY <1>1, <1>2, <1>3, <1>4, <1>5, <1>6, <1>7, <1>8, <1>9, <1>10, <1>11 DEF FutureStep, Future

LEMMA FutureArrives ==
  ASSUME Types, Phases, NEW t \in Everyone, FutureStep(t)
  PROVE  /\ pc'[t] = "setup" => pc[t] = "setup"
         /\ \/ arrived' = arrived
            \/ /\ t \in Tasks /\ pc[t] = "setup" /\ pc'[t] # "setup"
               /\ arrived' = arrived + 1
<1> USE DEF Types
<1>1. CASE SetUp(t)
  BY <1>1 DEF SetUp, Everyone
<1>2. CASE HalfSetUp(t) \/ PassBarrier(t) \/ Acquire(t) \/ AfterKill(t)
  BY <1>2 DEF HalfSetUp, PassBarrier, Acquire, AfterKill
<1>3. CASE ContainerMade(t) \/ Created(t) \/ Started(t) \/ Waited(t)
  BY <1>3 DEF ContainerMade, Created, Started, Waited, Proceed
<1>4. CASE Failed(t)
  BY <1>4 DEF Failed, Drop
<1>5. CASE AfterDelete(t) \/ AfterBox(t)
  <2>1. arrived' = arrived /\ (Finish(t) \/ pc' = pc)
    BY <1>5 DEF AfterDelete, AfterBox
  <2> QED
    BY <2>1, SMT DEF Finish
<1>6. CASE Serve(t) \/ ServeLate(t) \/ TaskEnds(t) \/ Unmount(t)
  BY <1>6 DEF Serve, ServeLate, TaskEnds, Unmount
<1> QED
  BY <1>1, <1>2, <1>3, <1>4, <1>5, <1>6 DEF FutureStep, Future

LEMMA SubsetCards ==
  ASSUME NEW S \in SUBSET Tasks
  PROVE  IsFiniteSet(S) /\ Cardinality(S) \in Nat /\ Count \in Nat
         /\ (Cardinality(S) >= Count => S = Tasks)
<1>1. /\ IsFiniteSet(S) /\ Cardinality(S) <= Cardinality(Tasks)
      /\ (Cardinality(S) = Cardinality(Tasks) => S = Tasks)
  BY FS_Subset
<1>2. Cardinality(S) \in Nat /\ Cardinality(Tasks) \in Nat
  BY <1>1, FS_CardinalityType
<1> QED
  BY <1>1, <1>2, SMT DEF Count

LEMMA FutureBarrier ==
  ASSUME Types, Phases, Barrier, NEW t \in Everyone, Fate(t), FutureStep(t), Alone(t),
         main' = main
  PROVE  Barrier'
<1>1. Arrived \in SUBSET Tasks /\ Arrived' \in SUBSET Tasks
  BY DEF Arrived
<1>2. IsFiniteSet(Arrived) /\ Cardinality(Arrived) \in Nat /\ Count \in Nat
  BY <1>1, SubsetCards
<1>3. IsFiniteSet(Arrived') /\ Cardinality(Arrived') \in Nat
  BY <1>1, SubsetCards
<1>4. Arrived \subseteq Arrived'
  BY FutureArrives DEF Arrived, Alone, Everyone
<1>5. /\ arrived' \in Nat
      /\ main = "loop" => arrived' <= Cardinality(Arrived') + 1
  <2>1. CASE arrived' = arrived
    <3>1. Cardinality(Arrived) <= Cardinality(Arrived')
      BY <1>3, <1>4, FS_Subset
    <3>2. arrived \in Nat /\ (main = "loop" => arrived <= Cardinality(Arrived) + 1)
      BY DEF Barrier
    <3> QED
      BY <1>2, <1>3, <2>1, <3>1, <3>2, SMT
  <2>2. CASE t \in Tasks /\ pc[t] = "setup" /\ pc'[t] # "setup" /\ arrived' = arrived + 1
    <3>1. Arrived' = Arrived \cup {t} /\ t \notin Arrived
      BY <2>2 DEF Arrived, Alone, Everyone
    <3>2. Cardinality(Arrived') = Cardinality(Arrived) + 1
      BY <1>2, <3>1, FS_AddElement
    <3>3. arrived \in Nat /\ (main = "loop" => arrived <= Cardinality(Arrived) + 1)
      BY DEF Barrier
    <3> QED
      BY <1>2, <1>3, <2>2, <3>2, <3>3, SMT
  <2> QED
    BY <2>1, <2>2, FutureArrives
<1>6. ASSUME NEW u \in Tasks, Passed(u)'
      PROVE  Arrived = Tasks
  <2>1. CASE u # t \/ ~PassBarrier(t)
    <3>1. Passed(u)
      BY <1>6, <2>1, PassedBefore DEF Passed, Alone, Everyone
    <3> QED
      BY <3>1 DEF Barrier
  <2>2. CASE PassBarrier(t)
    <3>1. arrived >= Count + 1 /\ main = "loop"
      <4>1. busy # t
        BY <2>2 DEF PassBarrier, Phases
      <4>2. pc[Pause] # "barrier"
        BY DEF Phases, Types, Mains, Everyone
      <4>3. arrived >= Count + 1
        BY <2>2 DEF PassBarrier, BarrierSize
      <4> QED
        BY <2>2, <4>1, <4>2, <4>3 DEF PassBarrier
    <3>2. arrived \in Nat /\ arrived <= Cardinality(Arrived) + 1
      BY <3>1 DEF Barrier
    <3>3. Cardinality(Arrived) >= Count
      BY <1>2, <3>1, <3>2, SMT
    <3> QED
      BY <1>1, <3>3, SubsetCards
  <2> QED
    BY <2>1, <2>2
<1>7. \A u \in Tasks : Passed(u)' => Arrived' = Tasks
  BY <1>1, <1>4, <1>6
<1> QED
  BY <1>5, <1>7 DEF Barrier

LEMMA MainBarrier ==
  ASSUME Types, Phases, Barrier, \A t \in Tasks : Fate(t), MainStep
  PROVE  Barrier'
<1>1. CASE PauseMade
  <2>1. /\ arrived' = 1 /\ main = "pause" /\ late' = late /\ svc' = svc
        /\ pc' = [u \in Everyone |-> IF u = Pause THEN "held" ELSE "setup"]
        /\ req' = [u \in Everyone |-> IF u = Pause THEN "none" ELSE FirstSetup]
    BY <1>1 DEF PauseMade, PauseCreated, Phases, Everyone
  <2>2. ASSUME NEW u \in Tasks
        PROVE  ~Passed(u)'
    <3>1. pc'[u] = "setup" /\ req'[u] \in {"image", "snapshot"}
      BY <2>1 DEF FirstSetup, Everyone
    <3>2. pc[u] = "new"
      BY <2>1 DEF Phases
    <3>3. svc[u] = "none" /\ late[u] = "none"
      BY <3>2 DEF Fate
    <3> QED
      BY <2>1, <3>1, <3>3 DEF Passed
  <2>3. Arrived' \in SUBSET Tasks
    BY DEF Arrived
  <2>4. Cardinality(Arrived') \in Nat
    BY <2>3, SubsetCards
  <2>5. arrived' \in Nat /\ arrived' <= Cardinality(Arrived') + 1
    BY <2>1, <2>4, SMT
  <2> QED
    BY <2>2, <2>5 DEF Barrier
<1>2. CASE \E t \in Tasks : DropFuture(t)
  <2> PICK t \in Tasks : DropFuture(t)
    BY <1>2
  <2>1. /\ main' = "drop" /\ arrived' = arrived /\ svc' = svc
        /\ pc'[t] \in {"gone", "drop"} /\ late'[t] \in {"none", req[t]}
        /\ req'[t] \in {req[t], "kill", "delete", "box"}
        /\ \A u \in Tasks \ {t} : pc'[u] = pc[u] /\ req'[u] = req[u] /\ late'[u] = late[u]
    BY DEF DropFuture, Drop, FirstUndone, Types, Everyone
  <2>2. \A u \in Tasks : Passed(u)' => Passed(u)
    BY <2>1 DEF Passed
  <2>3. Arrived \subseteq Arrived' /\ Arrived' \subseteq Tasks
    BY <2>1 DEF Arrived
  <2> QED
    BY <2>1, <2>2, <2>3 DEF Barrier
<1>3. ASSUME arrived' = arrived, main' # "loop" \/ main' = main,
             \A u \in Tasks : pc'[u] = pc[u] /\ req'[u] = req[u],
             late' = late, svc' = svc
      PROVE  Barrier'
  <2>1. Arrived' = Arrived /\ \A u \in Tasks : Passed(u)' <=> Passed(u)
    BY <1>3 DEF Arrived, Passed
  <2> QED
    BY <1>3, <2>1 DEF Barrier
<1>4. CASE StartShim \/ PauseSetUp
  BY <1>3, <1>4 DEF StartShim, PauseSetUp, Types, Everyone
<1>5. CASE PauseFails \/ DropPause
  BY <1>3, <1>5 DEF PauseFails, PauseCreated, DropPause, Drop, Types, Everyone
<1>6. CASE Connect \/ SetupDone \/ AllReturned \/ Watchdog \/ CtrlC
  BY <1>3, <1>6 DEF Connect, SetupDone, AllReturned, Watchdog, CtrlC, Break
<1>7. CASE PauseDropped \/ DropShim \/ DropClient \/ Reap \/ ShimDies
  BY <1>3, <1>7 DEF PauseDropped, DropShim, DropClient, Reap, ShimDies
<1> QED
  BY <1>1, <1>2, <1>4, <1>5, <1>6, <1>7 DEF MainStep, Main, PauseMade, PauseFails, PauseCreated

LEMMA FutureSlots ==
  ASSUME Types, Phases, Slots, NEW t \in Everyone, FutureStep(t), Alone(t), main' = main
  PROVE  Slots'
<1> USE DEF Types
<1>1. IsFiniteSet(Holders) /\ Cardinality(Holders) \in Nat /\ Count \in Nat
  <2>1. Holders \in SUBSET Tasks
    BY DEF Holders
  <2> QED
    BY <2>1, SubsetCards
<1>2. free \in Nat /\ (main = "loop" => free + Cardinality(Holders) = Permits)
  BY DEF Slots
<1>3. Polled(t) /\ pc[t] \in {"slot", "create", "start", "wait"} /\ t # Pause
        => t \in Tasks /\ main = "loop"
  BY DEF Phases, Everyone
<1>4. pc[Pause] \notin {"slot", "start", "wait"}
  BY DEF Phases, Mains, Everyone
<1>5. CASE Acquire(t)
  <2>1. /\ t \in Tasks /\ main = "loop" /\ pc[t] = "slot" /\ pc'[t] = "create"
        /\ free > 0 /\ free' = free - 1
    BY <1>3, <1>4, <1>5 DEF Acquire
  <2>2. Holders' = Holders \cup {t} /\ t \notin Holders
    BY <2>1, SMT DEF Holders, Alone, Everyone
  <2>3. Cardinality(Holders') = Cardinality(Holders) + 1
    BY <1>1, <2>2, FS_AddElement
  <2>4. free' \in Nat /\ free' + Cardinality(Holders') = Permits
    BY <1>1, <1>2, <2>1, <2>3, SMT
  <2> QED
    BY <2>1, <2>4 DEF Slots, Permits, Count
<1>6. CASE Started(t) \/ (Failed(t) /\ pc[t] # "wait")
  <2>1. /\ t \in Tasks /\ main = "loop" /\ pc[t] \in {"create", "start"}
        /\ pc'[t] \in {"wait", "drop"} /\ free' = free + 1
    BY <1>3, <1>4, <1>6 DEF Started, Proceed, Failed, Drop
  <2>2. Holders' = Holders \ {t} /\ t \in Holders
    BY <2>1 DEF Holders, Alone, Everyone
  <2>3. Cardinality(Holders') = Cardinality(Holders) - 1
    BY <1>1, <2>2, FS_RemoveElement
  <2>4. free' \in Nat /\ free' + Cardinality(Holders') = Permits
    BY <1>1, <1>2, <2>1, <2>3, SMT
  <2> QED
    BY <2>1, <2>4 DEF Slots, Permits, Count
<1>7. ASSUME free' = free,
             pc'[t] \in {"create", "start"} <=> pc[t] \in {"create", "start"}
      PROVE  Slots'
  <2>1. Holders' = Holders
    BY <1>7 DEF Holders, Alone, Everyone
  <2> QED
    BY <1>7, <2>1 DEF Slots, Permits, Count
<1>8. CASE HalfSetUp(t) \/ SetUp(t) \/ PassBarrier(t)
  BY <1>7, <1>8 DEF HalfSetUp, SetUp, PassBarrier
<1>9. CASE ContainerMade(t) \/ Created(t) \/ Waited(t)
  BY <1>7, <1>9 DEF ContainerMade, Created, Waited, Proceed
<1>10. CASE Failed(t) /\ pc[t] = "wait"
  BY <1>7, <1>10 DEF Failed, Drop
<1>11. CASE AfterKill(t) \/ AfterDelete(t) \/ AfterBox(t)
  <2>1. /\ free' = free /\ pc[t] \in {"delete", "drop"}
        /\ Finish(t) \/ pc' = pc
    BY <1>11 DEF AfterKill, AfterDelete, AfterBox, Deletes
  <2>2. pc'[t] \in {"delete", "drop", "gone"}
    BY <2>1 DEF Finish
  <2> QED
    BY <1>7, <2>1, <2>2
<1>12. CASE Serve(t) \/ ServeLate(t) \/ TaskEnds(t) \/ Unmount(t)
  BY <1>7, <1>12 DEF Serve, ServeLate, TaskEnds, Unmount
<1> QED
  BY <1>5, <1>6, <1>8, <1>9, <1>10, <1>11, <1>12 DEF FutureStep, Future

LEMMA MainSlots ==
  ASSUME Types, Phases, Slots, MainStep
  PROVE  Slots'
<1>1. CASE PauseMade
  <2>1. /\ free' = free /\ main = "pause" /\ main' = "loop"
        /\ pc' = [u \in Everyone |-> IF u = Pause THEN "held" ELSE "setup"]
    BY <1>1 DEF PauseMade, PauseCreated, Phases, Everyone
  <2>2. Holders' = {}
    BY <2>1 DEF Holders, Everyone
  <2>3. Cardinality(Holders') = 0
    BY <2>2, FS_EmptySet
  <2>4. free = Permits /\ free \in Nat
    BY <2>1 DEF Slots
  <2>5. free' + Cardinality(Holders') = Permits
    BY <2>1, <2>3, <2>4, SMT
  <2> QED
    BY <2>1, <2>4, <2>5 DEF Slots, Permits, Count
<1>2. ASSUME free' = free,
             main' # "loop" \/ (main' = main /\ pc' = pc),
             main' \in {"connect", "shim", "pause"} => main \in {"connect", "shim", "pause"}
      PROVE  Slots'
  BY <1>2 DEF Slots, Holders, Permits, Count
<1>3. CASE StartShim \/ Connect \/ PauseFails \/ DropPause
  BY <1>2, <1>3 DEF StartShim, Connect, PauseFails, PauseCreated, DropPause
<1>4. CASE PauseSetUp
  <2>1. main = "pause"
    BY <1>4 DEF PauseSetUp, Phases, Everyone
  <2> QED
    BY <1>2, <1>4, <2>1 DEF PauseSetUp
<1>5. CASE SetupDone \/ AllReturned \/ Watchdog \/ CtrlC
  BY <1>2, <1>5 DEF SetupDone, AllReturned, Watchdog, CtrlC, Break
<1>6. CASE PauseDropped \/ DropShim \/ DropClient \/ Reap
  BY <1>2, <1>6 DEF PauseDropped, DropShim, DropClient, Reap
<1>7. CASE ShimDies \/ \E t \in Tasks : DropFuture(t)
  BY <1>2, <1>7 DEF ShimDies, DropFuture
<1> QED
  BY <1>1, <1>3, <1>4, <1>5, <1>6, <1>7 DEF MainStep, Main, PauseMade, PauseFails, PauseCreated

-----------------------------------------------------------------------------
LEMMA Invariance == SafeSpec => []Inv
<1>1. Init => Inv
  <2> SUFFICES ASSUME Init PROVE Inv
    OBVIOUS
  <2> USE DEF Init
  <2>1. svc = [t \in Everyone |-> "none"]
    BY DEF Life!Init
  <2>2. Types
    BY <2>1 DEF Types, Mains, Places, Answers, Lives, Boxes, Threads
  <2>3. Phases /\ Success
    BY DEF Phases, Success
  <2>4. Barrier
    <3>1. \A t \in Tasks : ~Passed(t)
      BY <2>1 DEF Passed, Everyone
    <3>2. arrived \in Nat
      BY SMT
    <3> QED
      BY <3>1, <3>2 DEF Barrier
  <2>5. Slots
    <3>1. Cardinality(Tasks) \in Nat
      BY FS_CardinalityType
    <3> QED
      BY <3>1 DEF Slots, Permits, Count
  <2>6. \A t \in Everyone : Fate(t) /\ Honest(t) /\ Mounts(t)
    BY <2>1 DEF Fate, Honest, Mounts
  <2> QED
    BY <2>2, <2>3, <2>4, <2>5, <2>6 DEF Inv
<1>2. Inv /\ [Next]_vars => Inv'
  <2> SUFFICES ASSUME Inv, [Next]_vars PROVE Inv'
    OBVIOUS
  <2>0. /\ Types /\ Phases /\ Success /\ Barrier /\ Slots
        /\ \A t \in Everyone : Fate(t) /\ Honest(t) /\ Mounts(t)
    BY DEF Inv
  <2>1. CASE \E t \in Everyone : FutureStep(t)
    <3> PICK t \in Everyone : FutureStep(t)
      BY <2>1
    <3>1. Types' /\ Alone(t)
      BY <2>0, FutureTypes DEF FutureStep
    <3>2. Moved(t) /\ UNCHANGED <<main, lease, status, mode>>
      BY <2>0, FutureMoves DEF FutureStep
    <3>3. Phases'
      BY <2>0, <3>1, <3>2, FuturePhases
    <3>4. Fate(t)' /\ Honest(t)' /\ Mounts(t)'
      BY <2>0, FutureFate, FutureMounts DEF FutureStep
    <3>5. \A u \in Everyone \ {t} : Fate(u)' /\ Honest(u)' /\ Mounts(u)'
      BY <2>0, <3>1, <3>2, StaysFate, StaysMounts DEF Alone, Stays, Kept
    <3>6. Success' /\ Barrier' /\ Slots'
      BY <2>0, <3>1, <3>2, FutureSuccess, FutureBarrier, FutureSlots
    <3> QED
      BY <3>1, <3>3, <3>4, <3>5, <3>6 DEF Inv
  <2>2. CASE MainStep
    <3>1. Types' /\ Phases' /\ Success' /\ Slots'
      BY <2>0, <2>2, MainTypes, MainPhases, MainSuccess, MainSlots
    <3>2. Barrier'
      BY <2>0, <2>2, MainBarrier DEF Everyone
    <3>3. \A t \in Everyone : Fate(t)' /\ Honest(t)' /\ Mounts(t)'
      BY <2>0, <2>2, MainFate, MainMounts
    <3> QED
      BY <3>1, <3>2, <3>3 DEF Inv
  <2>3. CASE UNCHANGED vars
    <3>1. /\ UNCHANGED <<mode, main, lease, arrived, free, busy, result, status>>
          /\ UNCHANGED <<pc, req, ans, deleted, cleaned, svc, box, unmount, late>>
      BY <2>3 DEF vars
    <3>2. Types' /\ Phases' /\ Success' /\ Barrier' /\ Slots'
      BY <2>0, <3>1, SMT DEF Types, Phases, Success, Barrier, Arrived, Passed, Slots, Holders, Permits,
                        Count
    <3>3. \A t \in Everyone : Fate(t)' /\ Honest(t)' /\ Mounts(t)'
      BY <2>0, <3>1, StaysFate, StaysMounts DEF Stays, Kept
    <3> QED
      BY <3>2, <3>3 DEF Inv
  <2> QED
    BY <2>1, <2>2, <2>3 DEF Next, FutureStep, MainStep
<1> QED
  BY <1>1, <1>2, PTL DEF SafeSpec

\* main.rs:49: whatever --parallel is and whatever fails, so many tasks at most await a
\* create or a start, and no permit is lost.
THEOREM StartsAreLimited == SafeSpec => []ParallelLimit
<1>1. Inv => ParallelLimit
  <2> SUFFICES ASSUME Inv, main = "loop"
               PROVE  /\ Cardinality(Holders) <= Permits
                      /\ free = Permits - Cardinality(Holders)
    BY DEF ParallelLimit, Holders
  <2>1. Holders \in SUBSET Tasks
    BY DEF Holders
  <2>2. Cardinality(Holders) \in Nat
    BY <2>1, SubsetCards
  <2>3. free \in Nat /\ free + Cardinality(Holders) = Permits
    BY DEF Inv, Slots
  <2> QED
    BY <2>2, <2>3, SMT
<1> QED
  BY <1>1, Invariance, PTL

\* main.rs:134-139: no task is created before the bundle of each has been made.
THEOREM NothingBeforeSetup == SafeSpec => []SetupFirst
<1>1. Inv => SetupFirst
  BY DEF Inv, Barrier, Passed, Arrived, SetupFirst
<1> QED
  BY <1>1, Invariance, PTL

\* utils.rs:57-64: each half of delete() that is marked has been done, also when a drop
\* or a late request interferes; where the second half is only the spawn of a thread,
\* that thread, if it succeeds, leaves nothing mounted of a task that was deleted.
THEOREM MarksAreTrue == SafeSpec => []DeleteHonest
<1>1. Inv => DeleteHonest
  <2> SUFFICES ASSUME Inv, NEW t \in Everyone
               PROVE  /\ deleted[t] => svc[t] = "deleted"
                      /\ cleaned[t] /\ mode = "containerd" => box[t] = "gone"
                      /\ cleaned[t] /\ mode = "mocks" =>
                           /\ unmount[t] # "none"
                           /\ deleted[t] /\ unmount[t] = "done" => box[t] # "made"
    BY DEF DeleteHonest
  <2>1. Honest(t) /\ Mounts(t)
    BY DEF Inv
  <2> QED
    BY <2>1 DEF Honest, Mounts
<1> QED
  BY <1>1, Invariance, PTL

\* impl Drop for Task: each task that the service still has at the exit has been asked
\* to go.
THEOREM EachIsDeleted == SafeSpec => []NothingForgotten
<1>1. Inv => NothingForgotten
  <2> SUFFICES ASSUME Inv, main = "exit", NEW t \in Everyone, svc[t] \notin {"none", "deleted"}
               PROVE  req[t] \in {"delete", "box"}
    BY DEF NothingForgotten
  <2>1. pc[t] \in {"new", "gone"} /\ Fate(t)
    BY DEF Inv, Phases
  <2> QED
    BY <2>1 DEF Fate
<1> QED
  BY <1>1, Invariance, PTL

\* main.rs:218-221: "ok" is only returned when every task is deleted and no container
\* of one is left; a mount is left only where the thread that unmounts it has not run
\* or has failed.
THEOREM SuccessMeansClean == SafeSpec => []SuccessIsClean
<1>1. Inv => SuccessIsClean
  <2> SUFFICES ASSUME Inv, status = "ok", NEW t \in Tasks
               PROVE  /\ svc[t] = "deleted"
                      /\ box[t] = "made" => mode = "mocks" /\ unmount[t] \in {"spawned", "failed"}
    BY DEF SuccessIsClean
  <2>1. /\ result[t] = "ok" /\ Honest(t) /\ Mounts(t)
        /\ mode \in {"containerd", "mocks"} /\ unmount[t] \in Threads
    BY DEF Inv, Success, Types, Everyone
  <2>2. svc[t] = "deleted" /\ cleaned[t]
    BY <2>1 DEF Honest
  <2>3. CASE mode = "containerd"
    BY <2>1, <2>2, <2>3 DEF Honest
  <2>4. CASE mode = "mocks"
    BY <2>1, <2>2, <2>4 DEF Mounts, Threads
  <2> QED
    BY <2>1, <2>3, <2>4
<1> QED
  BY <1>1, Invariance, PTL

\* main.rs:115: pause outlives the other tasks, and the lease outlives them all.
THEOREM PauseKeepsShim == SafeSpec => []ShimKept
<1>1. Inv => ShimKept
  <2> SUFFICES ASSUME Inv PROVE ShimKept
    OBVIOUS
  <2>1. main \in {"loop", "drop"} => svc[Pause] = "created"
    BY DEF Inv, Phases, Fate, Everyone
  <2>2. ASSUME NEW t \in Everyone, pc[t] \notin {"new", "gone"} PROVE lease
    BY <2>2 DEF Inv, Phases, Types, Mains
  <2> QED
    BY <2>1, <2>2 DEF ShimKept
<1> QED
  BY <1>1, Invariance, PTL

\* utils.rs:21-40: when reap_children has returned there is no process of a shim or of a
\* task, and none appears any more, not even from a request that is late.
THEOREM NoneOutlives == SafeSpec => []NoProcessLeft
<1>1. Init => NoProcessLeft
  BY DEF Init, NoProcessLeft
<1>2. Inv /\ NoProcessLeft /\ [Next]_vars => NoProcessLeft'
  <2> SUFFICES ASSUME Inv, NoProcessLeft, [Next]_vars, (main = "exit")', (mode = "mocks")'
               PROVE  (~shim /\ Alive = {})'
    BY DEF NoProcessLeft
  <2>1. CASE \E t \in Everyone : FutureStep(t)
    <3> PICK t \in Everyone : FutureStep(t)
      BY <2>1
    <3>1. Types /\ Phases
      BY DEF Inv
    <3>2. UNCHANGED <<main, mode, shim, killed>>
      <4>1. CASE Serve(t) \/ ServeLate(t) \/ TaskEnds(t) \/ Unmount(t)
        BY <4>1 DEF Serve, ServeLate, TaskEnds, Unmount
      <4>2. CASE Future(t)
        BY <4>2 DEF Future, HalfSetUp, SetUp, PassBarrier, Acquire, ContainerMade, Created, Started,
                    Waited, Proceed, Failed, AfterKill, AfterDelete, AfterBox
      <4> QED
        BY <4>1, <4>2 DEF FutureStep
    <3>3. ~shim /\ Alive = {} /\ mode = "mocks"
      BY <3>2 DEF NoProcessLeft
    <3>4. svc' = svc \/ \E s \in {"stopped", "deleted"} : svc' = [svc EXCEPT ![t] = s]
      <4>1. ASSUME NEW r, Reachable(r), Effect(t, r) PROVE svc' = svc
        BY <3>3, <4>1, SMT DEF Reachable, Effect
      <4>2. CASE Serve(t)
        <5>1. ~(req[t] = "start" /\ Reachable(req[t]))
          BY <3>3 DEF Reachable
        <5> QED
          BY <4>1, <4>2, <5>1 DEF Serve
      <4>3. CASE ServeLate(t)
        BY <4>1, <4>3 DEF ServeLate
      <4>4. CASE TaskEnds(t) \/ Unmount(t)
        BY <4>4 DEF TaskEnds, Unmount, Life!Exit, Life!Move
      <4>5. CASE Future(t)
        BY <4>5 DEF Future, HalfSetUp, SetUp, PassBarrier, Acquire, ContainerMade, Created, Started,
                    Waited, Proceed, Failed, AfterKill, AfterDelete, AfterBox
      <4> QED
        BY <4>2, <4>3, <4>4, <4>5 DEF FutureStep
    <3>5. Alive' \subseteq Alive
      BY <3>1, <3>2, <3>4 DEF Alive, Types
    <3> QED
      BY <3>2, <3>3, <3>5
  <2>2. CASE MainStep
    <3>1. main = "reap" /\ Reap
      BY <2>2 DEF MainStep, Main, CtrlC, ShimDies, Connect, StartShim, PauseSetUp, PauseCreated,
                  SetupDone, AllReturned, Watchdog, Break, DropFuture, DropPause, PauseDropped,
                  DropShim, DropClient, Reap, Inv, Phases, Everyone
    <3> QED
      BY <3>1, SMT DEF Reap, Alive
  <2>3. CASE UNCHANGED vars
    BY <2>3 DEF vars, NoProcessLeft, Alive
  <2> QED
    BY <2>1, <2>2, <2>3 DEF Next, FutureStep, MainStep
<1> QED
  BY <1>1, <1>2, Invariance, PTL DEF SafeSpec

=============================================================================
