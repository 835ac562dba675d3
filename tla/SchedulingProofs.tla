-------------------------- MODULE SchedulingProofs --------------------------
(***************************************************************************)
(* That the loop never waits with unflushed packets, for every size of the *)
(* channels, of the pool and of the tracker.  The inductive invariant says *)
(* the same of the time between two connections.                           *)
(***************************************************************************)
EXTENDS Scheduling, TLAPS

USE DEF environment, driverVars, serverVars, pingVars

\* All that was written is flushed, or gone with its connection.
FlushInv == pc \in {"select", "done"} => unflushed = 0 /\ pingreq # "written"

\* Client and server never wait for each other over a packet in the write buffer:
\* every way back to select goes through a flush (run_until_disconnect_inner).
THEOREM AlwaysFlushed == Spec => []FlushedWhileWaiting
<1>1. Init => FlushInv
  BY DEF Init, FlushInv
<1>2. FlushInv /\ [Next]_vars => FlushInv'
  <2> SUFFICES ASSUME FlushInv, [Next]_vars
               PROVE  FlushInv'
    OBVIOUS
  <2> USE DEF FlushInv
  <2>1. ASSUME NEW c \in Channels, request(c)
        PROVE  FlushInv'
    BY <2>1 DEF request
  <2>2. ASSUME NEW i \in DOMAIN tracker, acknowledge(i)
        PROVE  FlushInv'
    BY <2>2 DEF acknowledge
  <2>3. CASE server_acknowledges \/ server_pingresp \/ server_publishes
    BY <2>3 DEF server_acknowledges, server_pingresp, server_publishes
  <2>4. CASE pingreq_timer_elapses \/ pingresp_timer_elapses
    BY <2>4 DEF pingreq_timer_elapses, pingresp_timer_elapses
  <2>5. ASSUME NEW s \in Sources, outgoing(s)
        PROVE  FlushInv'
    BY <2>5 DEF outgoing, take
  <2>6. ASSUME NEW i \in DOMAIN tracker, route(i)
        PROVE  FlushInv'
    BY <2>6 DEF route
  <2>7. CASE write
    BY <2>7 DEF write, AfterWrite
  <2>8. CASE drained
    BY <2>8 DEF drained, Drained
  <2>9. CASE flush
    BY <2>9 DEF flush
  <2>10. CASE receive
    BY <2>10 DEF receive, receive_ack, receive_publish, receive_pingresp
  <2>11. CASE yield
    BY <2>11 DEF yield
  <2>12. CASE disconnected \/ ping_timeout \/ connection_lost
    BY <2>12 DEF disconnected, ping_timeout, connection_lost, Returned
  <2>13. CASE reconnect
    BY <2>13 DEF reconnect
  <2>14. CASE UNCHANGED vars
    BY <2>14 DEF vars
  <2> QED
    BY Zenon, <2>1, <2>2, <2>3, <2>4, <2>5, <2>6, <2>7, <2>8, <2>9, <2>10, <2>11, <2>12,
       <2>13, <2>14 DEF Next, Driver
<1>3. FlushInv => FlushedWhileWaiting
  BY DEF FlushInv, FlushedWhileWaiting
<1> QED
  BY <1>1, <1>2, <1>3, PTL DEF Spec
=============================================================================
