--------------------------- MODULE HttpProxy_proofs ---------------------------
(***************************************************************************)
(* Proofs about HttpProxy, for any number of connections and requests.     *)
(***************************************************************************)
EXTENDS HttpProxy, TLAPS

\* What TypeOK lacks to be inductive: a task inside handle_request has a request.
HasReq == \A c \in Conns : conn[c] \in {"new", "waiting", "join"} => req[c] \in Reqs

\* The tracker has a token for every task that has not ended, spawned for a
\* connection or for a guest.
TokensCount ==
  /\ \A c \in Conns : conn[c] \in Open => c \in tokens
  /\ \A r \in Reqs : guest[r] = "running" => r \in tokens

\* serve_conn leaves its loop only when it is cancelled.
StopAsked == srv = "drain" => cancel

Inv == TypeOK /\ HasReq /\ TokensCount /\ StopAsked /\ GracefulExitDrained

\* The initial state: no connection, no guest.
LEMMA InitInv == Init => Inv
<1> SUFFICES ASSUME Init PROVE Inv
  OBVIOUS
<1>1. TypeOK
  <2>1. cancel \in BOOLEAN /\ closed \in BOOLEAN
    BY Zenon DEF Init
  <2>2. next_id \in 0..MaxRequests /\ status \in {Running, 0, 2, 6, 15, 137, 143}
    BY ProxyAssumption DEF Init
  <2> QED
    BY <2>1, <2>2 DEF Init, TypeOK
<1>2. HasReq /\ TokensCount /\ StopAsked /\ GracefulExitDrained
  BY ProxyAssumption DEF Init, HasReq, TokensCount, StopAsked, GracefulExitDrained, Open
<1> QED
  BY <1>1, <1>2 DEF Inv

\* The steps of the signal handler and of serve_conn.
LEMMA ProcessInv ==
  ASSUME Inv, status = Running,
         (\E k \in Kinds : Signal(k)) \/ OnSignal \/ Serve
  PROVE  Inv'
<1> USE ProxyAssumption DEF Inv, TypeOK, HasReq, TokensCount, StopAsked, Open
<1>1. CASE \E k \in Kinds : Signal(k)
  BY <1>1 DEF Signal, server, requests, GracefulExitDrained
<1>2. ASSUME NEW k \in Kinds, FirstSignal(k) PROVE Inv'
  <2>1. cancel' \in BOOLEAN
    BY <1>2, Zenon DEF FirstSignal, signals
  <2>2. status' \in {Running, 143}
    BY <1>2 DEF FirstSignal, SignalNumber
  <2> QED
    BY <1>2, <2>1, <2>2 DEF FirstSignal, server, signals, requests, GracefulExitDrained
<1>3. ASSUME NEW k \in Kinds, SecondSignal(k) PROVE Inv'
  BY <1>3 DEF SecondSignal, SignalNumber, server, signals, requests, GracefulExitDrained
<1>4. CASE Bind
  BY <1>4 DEF Bind, signals, requests, GracefulExitDrained
<1>5. CASE Stop
  BY <1>5 DEF Stop, signals, requests, GracefulExitDrained
<1>6. CASE Drained
  <2>1. GracefulExitDrained'
    BY <1>6, Zenon DEF Drained, server, signals, requests, GracefulExitDrained, Quiet
  <2> QED
    BY <1>6, <2>1 DEF Drained, server, signals, requests
<1> QED
  BY <1>1, <1>2, <1>3, <1>4, <1>5, <1>6 DEF OnSignal, Serve

\* The steps of a client and of a connection's task.
LEMMA ConnInv ==
  ASSUME Inv, status = Running, NEW c \in Conns,
         Accept(c) \/ Connect(c) \/ Disconnect(c) \/ Request(c) \/ Handle(c)
  PROVE  Inv'
<1> USE ProxyAssumption DEF Inv, TypeOK, HasReq, TokensCount, StopAsked, Open,
                            GracefulExitDrained
<1> \A x \in Conns : x \notin Reqs
  BY DEF Reqs
<1>1. CASE Accept(c)
  BY <1>1 DEF Accept, server, signals, requests
<1>2. CASE Connect(c)
  BY <1>2 DEF Connect, server, signals, requests
<1>3. CASE Disconnect(c)
  BY <1>3 DEF Disconnect, CloseConn, server, signals
<1>4. CASE Request(c)
  BY <1>4 DEF Request, server, signals, Reqs
<1>5. CASE Instantiate(c)
  BY <1>5 DEF Instantiate, CloseConn, server, signals
<1>6. CASE Receive(c)
  BY <1>6 DEF Receive, CloseConn, server, signals
<1>7. CASE Join(c)
  BY <1>7 DEF Join, CloseConn, server, signals
<1> QED
  BY <1>1, <1>2, <1>3, <1>4, <1>5, <1>6, <1>7 DEF Handle

\* The steps of a guest.
LEMMA GuestInv ==
  ASSUME Inv, status = Running, NEW r \in Reqs, GuestUses(r) \/ GuestEnds(r)
  PROVE  Inv'
<1> USE ProxyAssumption DEF Inv, TypeOK, HasReq, TokensCount, StopAsked, Open,
                            GracefulExitDrained
<1> \A x \in Conns : x \notin Reqs
  BY DEF Reqs
<1>1. CASE GuestUses(r)
  BY <1>1 DEF GuestUses, server, signals
<1>2. CASE GuestEnds(r)
  BY <1>2 DEF GuestEnds, server, signals
<1> QED
  BY <1>1, <1>2

\* Every step keeps the invariant.
LEMMA NextInv == Inv /\ [Next]_vars => Inv'
<1> SUFFICES ASSUME Inv, [Next]_vars PROVE Inv'
  OBVIOUS
<1>1. CASE Next
  BY <1>1, ProcessInv, ConnInv, GuestInv DEF Next
<1>2. CASE UNCHANGED vars
  BY <1>2 DEF vars, server, signals, requests, Inv, TypeOK, HasReq,
              TokensCount, StopAsked, GracefulExitDrained, Quiet
<1> QED
  BY <1>1, <1>2

\* The invariant holds in every reachable state.
LEMMA InvHolds == SafeSpec => []Inv
  BY InitInv, NextInv, PTL DEF SafeSpec

\* The variables of the HTTP proxy keep their types.
THEOREM TypeCorrect == SafeSpec => []TypeOK
  BY InvHolds, PTL DEF Inv

\* A graceful exit of the proxy was asked for, leaves no connection open and cuts
\* off no guest: the tracker's tokens account for every task.
THEOREM GracefulExit == SafeSpec => []GracefulExitDrained
  BY InvHolds, PTL DEF Inv

=============================================================================
