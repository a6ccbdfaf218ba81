------------------------------ MODULE HttpProxy ------------------------------
(***************************************************************************)
(* A wasmtime container whose component exports wasi:http/incoming-handler *)
(* (http_proxy.rs, and execute_component and handle_signals of             *)
(* instance.rs): one task selects between the server and the signals,      *)
(* each accepted connection has a task, and so has each call of the guest. *)
(*                                                                         *)
(* A step is what a task does between two of its awaits.  The model begins *)
(* when the signal streams exist, and ends with the process.  Clients,     *)
(* guests, hyper and tokio are external.                                   *)
(***************************************************************************)
EXTENDS Integers, FiniteSets

CONSTANTS Conns,       \* client connections
          MaxRequests, \* the number of requests in this instance
          NoReq, Running

Reqs == 0..(MaxRequests - 1)

ASSUME ProxyAssumption ==
  MaxRequests \in Nat /\ NoReq \notin Reqs /\ Running \notin Nat /\ Conns \cap Nat = {}

VARIABLES status,   \* Running, or the exit code of the process
          srv,      \* where serve_conn is
          cancel,   \* the CancellationToken is cancelled
          closed,   \* the TaskTracker is closed
          tokens,   \* its tokens: the connections and requests whose tasks it counts
          handler,  \* the signal that handle_signals waits for
          queued,   \* the signals that its streams have received
          conn,     \* the state of each connection
          req,      \* req[c]: the request that its task handles
          next_id,  \* next_id of ProxyHandler
          guest,    \* guest[r]: the task that calls the guest for request r
          out       \* out[r]: what its response-outparam was used for

server == <<srv, closed>>
signals == <<cancel, handler, queued>>
requests == <<req, next_id, guest, out>>
vars == <<status, server, tokens, signals, conn, requests>>

Kinds == {"quit", "term", "int"}

\* What wait_for_signal makes of a signal: SIGQUIT counts as SIGINT.
SignalNumber(k) == IF k = "term" THEN 15 ELSE 2

Open == {"idle", "new", "waiting", "join"}

Init ==
  /\ status = Running /\ srv = "bind"
  /\ cancel = FALSE /\ closed = FALSE /\ tokens = {}
  /\ handler = "first" /\ queued = {}
  /\ conn = [c \in Conns |-> "none"]
  /\ req = [c \in Conns |-> NoReq]
  /\ next_id = 0
  /\ guest = [r \in Reqs |-> "none"]
  /\ out = [r \in Reqs |-> "unset"]

-----------------------------------------------------------------------------
(***************************************************************************)
(* Signals.  A stream only has the signals that came after it was created, *)
(* and those of one kind are one.                                          *)
(***************************************************************************)
Signal(k) ==
  /\ queued' = queued \cup {k}
  /\ UNCHANGED <<status, server, tokens, cancel, handler, conn, requests>>

\* A first signal that does not reach the server.
FirstSignal_not_told(k) ==
  /\ handler = "first" /\ k \in queued
  /\ handler' = "second" /\ queued' = {}
  /\ UNCHANGED <<status, cancel, server, tokens, conn, requests>>

\* handle_signals: SIGINT asks for a graceful shutdown, and wait_for_signal makes
\* new streams, with which whatever else the old ones had received is gone; SIGTERM
\* ends the process.
FirstSignal(k) ==
  /\ handler = "first" /\ k \in queued
  /\ \/ /\ SignalNumber(k) = 2
        /\ cancel' = TRUE /\ handler' = "second" /\ queued' = {}
        /\ UNCHANGED status
     \/ /\ SignalNumber(k) # 2
        /\ status' = 128 + SignalNumber(k)
        /\ UNCHANGED signals
  /\ UNCHANGED <<server, tokens, conn, requests>>

SecondSignal(k) ==
  /\ handler = "second" /\ k \in queued
  /\ status' = SignalNumber(k)
  /\ UNCHANGED <<server, tokens, signals, conn, requests>>

-----------------------------------------------------------------------------
(***************************************************************************)
(* serve_conn.                                                             *)
(***************************************************************************)
\* The listener is set up; or it cannot be, and Executor::exec exits with 137.
Bind ==
  /\ srv = "bind"
  /\ \/ srv' = "accept" /\ UNCHANGED status
     \/ status' = 137 /\ UNCHANGED srv
  /\ UNCHANGED <<closed, tokens, signals, conn, requests>>

\* tcp_accept: a connection, whose task is spawned on the tracker, or an error
\* after which the loop goes on.
Accept(c) ==
  /\ srv = "accept" /\ conn[c] = "pending"
  /\ \/ conn' = [conn EXCEPT ![c] = "idle"] /\ tokens' = tokens \cup {c}
     \/ conn' = [conn EXCEPT ![c] = "none"] /\ UNCHANGED tokens
  /\ UNCHANGED <<status, server, signals, requests>>

\* The loop ends but the tracker is not closed.
Stop_not_closed ==
  /\ srv = "accept" /\ cancel
  /\ srv' = "drain"
  /\ UNCHANGED <<status, closed, tokens, signals, conn, requests>>

\* cancelled(), and tracker.close().
Stop ==
  /\ srv = "accept" /\ cancel
  /\ srv' = "drain" /\ closed' = TRUE
  /\ UNCHANGED <<status, tokens, signals, conn, requests>>

\* tracker.wait(), and the return from run_wasi.
Drained ==
  /\ srv = "drain" /\ closed /\ tokens = {}
  /\ status' = 0
  /\ UNCHANGED <<server, tokens, signals, conn, requests>>

-----------------------------------------------------------------------------
(***************************************************************************)
(* Connections and requests.  handle_request runs in the connection's task *)
(* and awaits the guest's response through a oneshot channel.              *)
(***************************************************************************)
Connect(c) ==
  /\ conn[c] = "none" /\ srv # "bind"
  /\ conn' = [conn EXCEPT ![c] = "pending"]
  /\ UNCHANGED <<status, server, tokens, signals, requests>>

\* The connection's task is over, and drops its token.
CloseConn(c) ==
  /\ conn' = [conn EXCEPT ![c] = "none"]
  /\ req' = [req EXCEPT ![c] = NoReq]
  /\ tokens' = tokens \ {c}

\* The client goes, and with it the future of handle_request, wherever it is.  A
\* guest that was spawned goes on.
Disconnect(c) ==
  /\ conn[c] # "none"
  /\ CloseConn(c)
  /\ UNCHANGED <<status, server, signals, next_id, guest, out>>

\* A request arrives on a connection, which keep_alive keeps open for it.
Request(c) ==
  /\ conn[c] = "idle" /\ next_id < MaxRequests
  /\ conn' = [conn EXCEPT ![c] = "new"]
  /\ req' = [req EXCEPT ![c] = next_id]
  /\ next_id' = next_id + 1
  /\ UNCHANGED <<status, server, tokens, signals, guest, out>>

\* The guest's task is spawned on the runtime, not on the tracker.
Instantiate_untracked(c) ==
  /\ conn[c] = "new"
  /\ guest' = [guest EXCEPT ![req[c]] = "running"]
  /\ conn' = [conn EXCEPT ![c] = "waiting"]
  /\ UNCHANGED <<status, server, tokens, signals, req, next_id, out>>

\* instantiate_async, and the spawn of the guest's task on the tracker; or an error,
\* with which serve_connection ends.
Instantiate(c) ==
  /\ conn[c] = "new"
  /\ \/ /\ guest' = [guest EXCEPT ![req[c]] = "running"]
        /\ tokens' = tokens \cup {req[c]}
        /\ conn' = [conn EXCEPT ![c] = "waiting"]
        /\ UNCHANGED req
     \/ /\ CloseConn(c)
        /\ UNCHANGED guest
  /\ UNCHANGED <<status, server, signals, next_id, out>>

\* The guest sets the response, or an error, or drops the response-outparam.
GuestUses(r) ==
  /\ guest[r] = "running" /\ out[r] = "unset"
  /\ \E o \in {"response", "error", "dropped"} : out' = [out EXCEPT ![r] = o]
  /\ UNCHANGED <<status, server, tokens, signals, conn, req, next_id, guest>>

\* A sender that outlives the task.
GuestEnds_keeps_sender(r) ==
  /\ guest[r] = "running"
  /\ \E e \in {"ok", "trap"} : guest' = [guest EXCEPT ![r] = e]
  /\ tokens' = tokens \ {r}
  /\ UNCHANGED <<status, server, signals, conn, req, next_id, out>>

\* call_handle is over; the store with what is in it is dropped, and the token.
GuestEnds(r) ==
  /\ guest[r] = "running"
  /\ \E e \in {"ok", "trap"} : guest' = [guest EXCEPT ![r] = e]
  /\ tokens' = tokens \ {r}
  /\ out' = [out EXCEPT ![r] = IF @ = "unset" THEN "dropped" ELSE @]
  /\ UNCHANGED <<status, server, signals, conn, req, next_id>>

\* receiver.await.
Receive(c) ==
  /\ conn[c] = "waiting"
  /\ \/ /\ out[req[c]] = "response"
        /\ conn' = [conn EXCEPT ![c] = "idle"]
        /\ req' = [req EXCEPT ![c] = NoReq]
        /\ UNCHANGED tokens
     \/ /\ out[req[c]] = "error"
        /\ CloseConn(c)
     \/ /\ out[req[c]] = "dropped"
        /\ conn' = [conn EXCEPT ![c] = "join"]
        /\ UNCHANGED <<req, tokens>>
  /\ UNCHANGED <<status, server, signals, next_id, guest, out>>

\* task.await, for the reason of the error.  The connection's task ends with the
\* guest's error.  When there is none expect_err panics: that ends the task, or,
\* in a build whose panics abort, as those of the release profile do, the process.
Join(c) ==
  /\ conn[c] = "join"
  /\ \/ guest[req[c]] = "trap" /\ UNCHANGED status
     \/ guest[req[c]] = "ok" /\ status' \in {status, 6}
  /\ CloseConn(c)
  /\ UNCHANGED <<server, signals, next_id, guest, out>>

-----------------------------------------------------------------------------
OnSignal == \E k \in Kinds : FirstSignal(k) \/ SecondSignal(k)
Serve == Bind \/ Stop \/ Drained
Handle(c) == Instantiate(c) \/ Receive(c) \/ Join(c)

Next ==
  /\ status = Running
  /\ \/ \E k \in Kinds : Signal(k)
     \/ OnSignal \/ Serve
     \/ \E c \in Conns : Accept(c) \/ Connect(c) \/ Disconnect(c) \/ Request(c) \/ Handle(c)
     \/ \E r \in Reqs : GuestUses(r) \/ GuestEnds(r)

SafeSpec == Init /\ [][Next]_vars

\* The tasks of the process run.  No client and no guest has to do anything.
Spec ==
  /\ SafeSpec
  /\ WF_vars(OnSignal /\ status = Running)
  /\ WF_vars(Serve /\ status = Running)
  /\ \A c \in Conns : WF_vars(Handle(c) /\ status = Running)

-----------------------------------------------------------------------------
TypeOK ==
  /\ status \in {Running, 0, 2, 6, 15, 137, 143}
  /\ srv \in {"bind", "accept", "drain"}
  /\ cancel \in BOOLEAN /\ closed \in BOOLEAN
  /\ tokens \subseteq Conns \cup Reqs
  /\ handler \in {"first", "second"}
  /\ queued \subseteq Kinds
  /\ conn \in [Conns -> {"none", "pending"} \cup Open]
  /\ req \in [Conns -> Reqs \cup {NoReq}]
  /\ next_id \in 0..MaxRequests
  /\ guest \in [Reqs -> {"none", "running", "ok", "trap"}]
  /\ out \in [Reqs -> {"unset", "response", "error", "dropped"}]

\* Nothing goes on in the container: no connection is open and no guest runs.
Quiet ==
  /\ \A c \in Conns : conn[c] \notin Open
  /\ \A r \in Reqs : guest[r] # "running"

\* http_proxy.rs:138-139: a container exits with code 0 only when that was asked
\* for, and then it has cut off nothing: no connection is open and no guest runs,
\* those whose client went away before the answer included.  The code only waits
\* for the tracker's tokens.
GracefulExitDrained == status = 0 => cancel /\ Quiet

\* http_proxy.rs:214-234: once the guest is done, the request is too, whether or
\* not the guest ever used its response-outparam: the client is not left waiting.
RequestsFinish ==
  \A c \in Conns :
    (conn[c] \in {"waiting", "join"} /\ guest[req[c]] \in {"ok", "trap"})
      ~> (conn[c] \notin {"waiting", "join"} \/ status # Running)

\* instance.rs:329: a graceful shutdown that was asked for comes to its end,
\* provided that from some time on no connection is open and no guest runs: then
\* every token has been given back.  A client that keeps its connection open, idle
\* or not, holds the shutdown up.
GracefulEnds == (<>cancel /\ <>[]Quiet) => <>(status # Running)

\* instance.rs:326-340: when signals have come in, the handler answers one of them:
\* the first one that it takes starts the graceful shutdown or ends the process,
\* and any that comes in after that start ends the process.  Signals that come in
\* together count as one, whichever of them it takes.
SignalsHeeded ==
  /\ (queued # {}) ~> (cancel \/ status # Running)
  /\ (cancel /\ queued # {}) ~> (status # Running)

=============================================================================
