--------------------------- MODULE MCRemote_proofs ---------------------------
(***************************************************************************)
(* Proofs about tunnels, shells and journals, stated of the run MCRemote,  *)
(* about the components as it instantiates them: a step of the run is a    *)
(* step of one component, and leaves the variables of the others alone.    *)
(***************************************************************************)
EXTENDS MCRemote, FiniteSetTheorems, SequenceTheorems, WellFoundedInduction, TLAPS

-----------------------------------------------------------------------------
(* Tunnels *)

\* What the steps make of the records of tunnels.
LEMMA TunnelRecords ==
  ASSUME NEW r \in T!TunnelStates
  PROVE  /\ T!Serving(r) \in T!TunnelStates
         /\ \A i \in Tunnels \cup {None} :
               [r EXCEPT !.pc = "starting", !.id = i] \in T!TunnelStates
         /\ [r EXCEPT !.pc = "ended"] \in T!TunnelStates
         /\ [r EXCEPT !.status = "stopping"] \in T!TunnelStates
         /\ [r EXCEPT !.status = "stopped"] \in T!TunnelStates
         /\ [r EXCEPT !.stopped = TRUE, !.cur = FALSE] \in T!TunnelStates
         /\ [r EXCEPT !.pc = "closing", !.cur = FALSE] \in T!TunnelStates
         /\ [r EXCEPT !.pc = "waiting", !.live = FALSE] \in T!TunnelStates
         /\ [r EXCEPT !.pc = "backoff", !.status = "retrying"] \in T!TunnelStates
         /\ [r EXCEPT !.pc = "stopping"] \in T!TunnelStates
         /\ \A n \in Nat : [r EXCEPT !.pc = "opened", !.live = TRUE, !.gen = n] \in T!TunnelStates
         /\ [r EXCEPT !.pc = "stopping", !.live = FALSE] \in T!TunnelStates
         /\ [r EXCEPT !.pc = "check", !.cur = TRUE] \in T!TunnelStates
         /\ [r EXCEPT !.pc = "serving", !.status = "running", !.accept = "accepting"] \in T!TunnelStates
         /\ [r EXCEPT !.pc = "stopping", !.cur = FALSE, !.live = FALSE] \in T!TunnelStates
         /\ [r EXCEPT !.pc = "leaving", !.stopped = TRUE, !.cur = FALSE, !.cancelled = TRUE,
                      !.live = @ /\ ~r.cur] \in T!TunnelStates
         /\ [r EXCEPT !.pc = "ended", !.gen = 0] \in T!TunnelStates
         /\ \A a \in {"off", "accepting", "tracking"} :
               [r EXCEPT !.accept = a] \in T!TunnelStates
<1>1. T!Serving(r) \in T!TunnelStates
  BY DEF T!TunnelStates, T!Serving
<1>2. \A i \in Tunnels \cup {None} :
     [r EXCEPT !.pc = "starting", !.id = i] \in T!TunnelStates
  BY DEF T!TunnelStates, T!Serving
<1>3. [r EXCEPT !.pc = "ended"] \in T!TunnelStates
  BY DEF T!TunnelStates, T!Serving
<1>4. [r EXCEPT !.status = "stopping"] \in T!TunnelStates
  BY DEF T!TunnelStates, T!Serving
<1>5. [r EXCEPT !.status = "stopped"] \in T!TunnelStates
  BY DEF T!TunnelStates, T!Serving
<1>6. [r EXCEPT !.stopped = TRUE, !.cur = FALSE] \in T!TunnelStates
  BY DEF T!TunnelStates, T!Serving
<1>7. [r EXCEPT !.pc = "closing", !.cur = FALSE] \in T!TunnelStates
  BY DEF T!TunnelStates, T!Serving
<1>8. [r EXCEPT !.pc = "waiting", !.live = FALSE] \in T!TunnelStates
  BY DEF T!TunnelStates, T!Serving
<1>9. [r EXCEPT !.pc = "backoff", !.status = "retrying"] \in T!TunnelStates
  BY DEF T!TunnelStates, T!Serving
<1>10. [r EXCEPT !.pc = "stopping"] \in T!TunnelStates
  BY DEF T!TunnelStates, T!Serving
<1>11. \A n \in Nat : [r EXCEPT !.pc = "opened", !.live = TRUE, !.gen = n] \in T!TunnelStates
  BY DEF T!TunnelStates, T!Serving
<1>12. [r EXCEPT !.pc = "stopping", !.live = FALSE] \in T!TunnelStates
  BY DEF T!TunnelStates, T!Serving
<1>13. [r EXCEPT !.pc = "check", !.cur = TRUE] \in T!TunnelStates
  BY DEF T!TunnelStates, T!Serving
<1>14. [r EXCEPT !.pc = "serving", !.status = "running", !.accept = "accepting"] \in T!TunnelStates
  BY DEF T!TunnelStates, T!Serving
<1>15. [r EXCEPT !.pc = "stopping", !.cur = FALSE, !.live = FALSE] \in T!TunnelStates
  BY DEF T!TunnelStates, T!Serving
<1>16. [r EXCEPT !.pc = "leaving", !.stopped = TRUE, !.cur = FALSE, !.cancelled = TRUE,
     !.live = @ /\ ~r.cur] \in T!TunnelStates
  BY DEF T!TunnelStates, T!Serving
<1>17. [r EXCEPT !.pc = "ended", !.gen = 0] \in T!TunnelStates
  BY DEF T!TunnelStates, T!Serving
<1>18. \A a \in {"off", "accepting", "tracking"} :
     [r EXCEPT !.accept = a] \in T!TunnelStates
  BY DEF T!TunnelStates, T!Serving
<1> QED
  BY <1>1, <1>2, <1>3, <1>4, <1>5, <1>6, <1>7, <1>8, <1>9, <1>10, <1>11, <1>12, <1>13, <1>14,
     <1>15, <1>16, <1>17, <1>18, Zenon

\* What they make of the records of operators.
LEMMA OperatorRecords ==
  ASSUME NEW r \in T!OpStates
  PROVE  /\ T!Idle \in T!OpStates
         /\ \A p \in {"start", "remove", "delete", "close", "cancel"} :
               [r EXCEPT !.pc = p] \in T!OpStates
         /\ \A t \in Tunnels : [r EXCEPT !.pc = "opening", !.t = t] \in T!OpStates
         /\ \A t \in Tunnels : [r EXCEPT !.pc = "mark", !.t = t] \in T!OpStates
         /\ [r EXCEPT !.pc = "start", !.id = r.back, !.back = None] \in T!OpStates
         /\ [r EXCEPT !.pc = "start", !.id = None] \in T!OpStates
         /\ \A i \in Tunnels : [r EXCEPT !.pc = "find", !.id = i, !.back = i] \in T!OpStates
         /\ \A i \in Tunnels : \A t \in Tunnels :
               [r EXCEPT !.pc = "mark", !.id = i, !.t = t] \in T!OpStates
<1>1. T!Idle \in T!OpStates
  BY DEF T!OpStates, T!Idle
<1>2. \A p \in {"start", "remove", "delete", "close", "cancel"} :
     [r EXCEPT !.pc = p] \in T!OpStates
  BY DEF T!OpStates, T!Idle
<1>3. \A t \in Tunnels : [r EXCEPT !.pc = "opening", !.t = t] \in T!OpStates
  BY DEF T!OpStates, T!Idle
<1>4. \A t \in Tunnels : [r EXCEPT !.pc = "mark", !.t = t] \in T!OpStates
  BY DEF T!OpStates, T!Idle
<1>5. [r EXCEPT !.pc = "start", !.id = r.back, !.back = None] \in T!OpStates
  BY DEF T!OpStates, T!Idle
<1>6. [r EXCEPT !.pc = "start", !.id = None] \in T!OpStates
  BY DEF T!OpStates, T!Idle
<1>7. \A i \in Tunnels : [r EXCEPT !.pc = "find", !.id = i, !.back = i] \in T!OpStates
  BY DEF T!OpStates, T!Idle
<1>8. \A i \in Tunnels : \A t \in Tunnels :
     [r EXCEPT !.pc = "mark", !.id = i, !.t = t] \in T!OpStates
  BY DEF T!OpStates, T!Idle
<1> QED
  BY <1>1, <1>2, <1>3, <1>4, <1>5, <1>6, <1>7, <1>8, Zenon

\* What they make of the records of connections.
LEMMA ConnRecords ==
  ASSUME NEW r \in T!ConnStates
  PROVE  /\ T!Over \in T!ConnStates
         /\ [T!Over EXCEPT !.open = r.open \ {"out"}] \in T!ConnStates
         /\ \A t \in Tunnels : \A g \in Nat :
               [r EXCEPT !.pc = "accepted", !.t = t, !.gen = g, !.open = {"in"}] \in T!ConnStates
         /\ [r EXCEPT !.pc = "dialing", !.tracked = {"in"}] \in T!ConnStates
         /\ [r EXCEPT !.pc = "dialed", !.open = @ \cup {"out"}] \in T!ConnStates
         /\ [r EXCEPT !.pc = "relaying", !.tracked = {"in", "out"}] \in T!ConnStates
         /\ [r EXCEPT !.open = @ \ r.tracked] \in T!ConnStates
<1>1. T!Over \in T!ConnStates
  BY DEF T!ConnStates, T!Over, T!Free
<1>2. [T!Over EXCEPT !.open = r.open \ {"out"}] \in T!ConnStates
  BY DEF T!ConnStates, T!Over, T!Free
<1>3. \A t \in Tunnels : \A g \in Nat :
     [r EXCEPT !.pc = "accepted", !.t = t, !.gen = g, !.open = {"in"}] \in T!ConnStates
  BY DEF T!ConnStates, T!Over, T!Free
<1>4. [r EXCEPT !.pc = "dialing", !.tracked = {"in"}] \in T!ConnStates
  BY DEF T!ConnStates, T!Over, T!Free
<1>5. [r EXCEPT !.pc = "dialed", !.open = @ \cup {"out"}] \in T!ConnStates
  BY DEF T!ConnStates, T!Over, T!Free
<1>6. [r EXCEPT !.pc = "relaying", !.tracked = {"in", "out"}] \in T!ConnStates
  BY DEF T!ConnStates, T!Over, T!Free
<1>7. [r EXCEPT !.open = @ \ r.tracked] \in T!ConnStates
  BY DEF T!ConnStates, T!Over, T!Free
<1> QED
  BY <1>1, <1>2, <1>3, <1>4, <1>5, <1>6, <1>7, Zenon

\* Every step leaves the variables well typed.
LEMMA TunnelTyping ==
  ASSUME T!TypeOK, T!OpInv, T!ConnInv, T!Next \/ UNCHANGED tunnelVars
  PROVE  T!TypeOK'
<1> USE DEF T!Tun, T!Become, T!Answer, T!Request, T!Conn, T!TypeOK
<1>1. CASE UNCHANGED tunnelVars
  BY <1>1 DEF tunnelVars
<1>2. ASSUME NEW o \in Ops, T!BeginStart(o) PROVE T!TypeOK'
  <2>1. op' \in [Ops -> T!OpStates]
    BY <1>2, OperatorRecords, Zenon DEF T!BeginStart
  <2>2. tun' \in [Tunnels -> T!TunnelStates]
    BY <1>2, TunnelRecords, Zenon DEF T!BeginStart
  <2>3. conn' \in [Conns -> T!ConnStates]
    BY <1>2 DEF T!BeginStart
  <2>4. requests' \in Nat /\ losses' \in Nat /\ tunnels' \in [Tunnels -> Tunnels \cup {None}]
        /\ hostPresent' \in BOOLEAN /\ tunnelsClosed' \in BOOLEAN
    BY <1>2 DEF T!BeginStart, T!TunnelStates, T!OpStates
  <2> QED
    BY <2>1, <2>2, <2>3, <2>4
<1>3. ASSUME NEW o \in Ops, T!BeginDelete(o) PROVE T!TypeOK'
  <2>1. op' \in [Ops -> T!OpStates]
    BY <1>3, OperatorRecords, Zenon DEF T!BeginDelete
  <2>2. tun' \in [Tunnels -> T!TunnelStates]
    BY <1>3, TunnelRecords, Zenon DEF T!BeginDelete
  <2>3. conn' \in [Conns -> T!ConnStates]
    BY <1>3 DEF T!BeginDelete
  <2>4. requests' \in Nat /\ losses' \in Nat /\ tunnels' \in [Tunnels -> Tunnels \cup {None}]
        /\ hostPresent' \in BOOLEAN /\ tunnelsClosed' \in BOOLEAN
    BY <1>3 DEF T!BeginDelete, T!TunnelStates, T!OpStates
  <2> QED
    BY <2>1, <2>2, <2>3, <2>4
<1>4. ASSUME NEW o \in Ops, T!Open(o) PROVE T!TypeOK'
  <2>1. op' \in [Ops -> T!OpStates]
    <3>1. PICK t \in Tunnels : op' = [op EXCEPT ![o] = [op[o] EXCEPT !.pc = "opening", !.t = t]]
      BY <1>4, Zenon DEF T!Open, T!Unmade
    <3>2. [op[o] EXCEPT !.pc = "opening", !.t = t] \in T!OpStates
      BY OperatorRecords, Zenon
    <3> QED
      BY <3>1, <3>2
  <2>2. tun' \in [Tunnels -> T!TunnelStates]
    <3>1. PICK t \in Tunnels :
            tun' = [tun EXCEPT ![t] = [tun[t] EXCEPT !.pc = "starting",
                                                     !.id = IF op[o].id = None THEN t ELSE op[o].id]]
      BY <1>4, Zenon DEF T!Open, T!Unmade
    <3>2. (IF op[o].id = None THEN t ELSE op[o].id) \in Tunnels \cup {None}
      BY DEF T!OpStates
    <3>3. [tun[t] EXCEPT !.pc = "starting", !.id = IF op[o].id = None THEN t ELSE op[o].id]
            \in T!TunnelStates
      BY <3>2, TunnelRecords, Zenon
    <3> QED
      BY <3>1, <3>3
  <2>3. conn' \in [Conns -> T!ConnStates]
    BY <1>4 DEF T!Open, T!Unmade
  <2>4. requests' \in Nat /\ losses' \in Nat /\ tunnels' \in [Tunnels -> Tunnels \cup {None}]
        /\ hostPresent' \in BOOLEAN /\ tunnelsClosed' \in BOOLEAN
    BY <1>4 DEF T!Open, T!Unmade, T!TunnelStates, T!OpStates
  <2> QED
    BY <2>1, <2>2, <2>3, <2>4
<1>5. ASSUME NEW o \in Ops, T!StartFails(o) PROVE T!TypeOK'
  <2>1. op' \in [Ops -> T!OpStates]
    BY <1>5, OperatorRecords, Zenon DEF T!StartFails, T!Restore
  <2>2. tun' \in [Tunnels -> T!TunnelStates]
    <3>1. CASE op[o].pc = "opening"
      <4>1. op[o].t \in Tunnels /\ tun[op[o].t] \in T!TunnelStates
        BY <3>1 DEF T!OpInv
      <4>2. [tun[op[o].t] EXCEPT !.pc = "ended"] \in T!TunnelStates
        BY <4>1, TunnelRecords, Zenon
      <4> QED
        BY <1>5, <3>1, <4>1, <4>2 DEF T!StartFails
    <3>2. CASE op[o].pc # "opening"
      BY <1>5, <3>2 DEF T!StartFails
    <3> QED
      BY <3>1, <3>2
  <2>3. conn' \in [Conns -> T!ConnStates]
    BY <1>5 DEF T!StartFails, T!Restore
  <2>4. requests' \in Nat /\ losses' \in Nat /\ tunnels' \in [Tunnels -> Tunnels \cup {None}]
        /\ hostPresent' \in BOOLEAN /\ tunnelsClosed' \in BOOLEAN
    BY <1>5 DEF T!StartFails, T!Restore, T!TunnelStates, T!OpStates
  <2> QED
    BY <2>1, <2>2, <2>3, <2>4
<1>6. ASSUME NEW o \in Ops, T!Publish(o) PROVE T!TypeOK'
  <2>1. op' \in [Ops -> T!OpStates]
    BY <1>6, OperatorRecords, Zenon DEF T!Publish
  <2>2. tun' \in [Tunnels -> T!TunnelStates]
    <3>1. op[o].t \in Tunnels /\ tun[op[o].t] \in T!TunnelStates
      BY <1>6 DEF T!Publish, T!OpInv
    <3>2. T!Serving(tun[op[o].t]) \in T!TunnelStates
      BY <3>1, TunnelRecords, Zenon
    <3> QED
      BY <1>6, <3>1, <3>2 DEF T!Publish
  <2>3. conn' \in [Conns -> T!ConnStates]
    BY <1>6 DEF T!Publish
  <2>4. requests' \in Nat /\ losses' \in Nat /\ tunnels' \in [Tunnels -> Tunnels \cup {None}]
        /\ hostPresent' \in BOOLEAN /\ tunnelsClosed' \in BOOLEAN
    <3>1. op[o].t \in Tunnels
      BY <1>6 DEF T!Publish, T!OpInv
    <3> QED
      BY <1>6, <3>1 DEF T!Publish
  <2> QED
    BY <2>1, <2>2, <2>3, <2>4
<1>7. ASSUME NEW o \in Ops, T!StopForUpdate(o) PROVE T!TypeOK'
  <2>1. op' \in [Ops -> T!OpStates]
    <3>1. tunnels[op[o].id] \in Tunnels
      BY <1>7 DEF T!StopForUpdate, T!OpInv
    <3>2. [op[o] EXCEPT !.pc = "mark", !.t = tunnels[op[o].id]] \in T!OpStates
      BY <3>1, OperatorRecords, Zenon
    <3> QED
      BY <1>7, <3>2 DEF T!StopForUpdate, T!FindForStop
  <2>2. tun' \in [Tunnels -> T!TunnelStates]
    <3>1. tunnels[op[o].id] \in Tunnels /\ tun[tunnels[op[o].id]] \in T!TunnelStates
      BY <1>7 DEF T!StopForUpdate, T!OpInv
    <3>2. [tun[tunnels[op[o].id]] EXCEPT !.status = "stopping"] \in T!TunnelStates
      BY <3>1, TunnelRecords, Zenon
    <3> QED
      BY <1>7, <3>1, <3>2 DEF T!StopForUpdate, T!FindForStop
  <2>3. conn' \in [Conns -> T!ConnStates]
    BY <1>7 DEF T!StopForUpdate, T!FindForStop
  <2>4. requests' \in Nat /\ losses' \in Nat /\ tunnels' \in [Tunnels -> Tunnels \cup {None}]
        /\ hostPresent' \in BOOLEAN /\ tunnelsClosed' \in BOOLEAN
    BY <1>7 DEF T!StopForUpdate, T!FindForStop, T!TunnelStates, T!OpStates
  <2> QED
    BY <2>1, <2>2, <2>3, <2>4
<1>8. ASSUME NEW o \in Ops, T!UpdateTooLate(o) PROVE T!TypeOK'
  <2>1. op' \in [Ops -> T!OpStates]
    BY <1>8, OperatorRecords, Zenon DEF T!UpdateTooLate
  <2>2. tun' \in [Tunnels -> T!TunnelStates]
    BY <1>8, TunnelRecords, Zenon DEF T!UpdateTooLate
  <2>3. conn' \in [Conns -> T!ConnStates]
    BY <1>8 DEF T!UpdateTooLate
  <2>4. requests' \in Nat /\ losses' \in Nat /\ tunnels' \in [Tunnels -> Tunnels \cup {None}]
        /\ hostPresent' \in BOOLEAN /\ tunnelsClosed' \in BOOLEAN
    BY <1>8 DEF T!UpdateTooLate, T!TunnelStates, T!OpStates
  <2> QED
    BY <2>1, <2>2, <2>3, <2>4
<1>9. ASSUME NEW o \in Ops, T!MarkStopped(o) PROVE T!TypeOK'
  <2>1. op' \in [Ops -> T!OpStates]
    <3>1. (IF tun[op[o].t].cur THEN "close" ELSE "cancel") \in {"close", "cancel"}
      OBVIOUS
    <3>2. [op[o] EXCEPT !.pc = IF tun[op[o].t].cur THEN "close" ELSE "cancel"] \in T!OpStates
      BY <3>1, OperatorRecords, Zenon
    <3> QED
      BY <1>9, <3>2 DEF T!MarkStopped
  <2>2. tun' \in [Tunnels -> T!TunnelStates]
    <3>1. op[o].t \in Tunnels /\ tun[op[o].t] \in T!TunnelStates
      BY <1>9 DEF T!MarkStopped, T!OpInv, T!Made
    <3>2. [tun[op[o].t] EXCEPT !.stopped = TRUE, !.cur = FALSE] \in T!TunnelStates
      BY <3>1, TunnelRecords, Zenon
    <3> QED
      BY <1>9, <3>1, <3>2 DEF T!MarkStopped
  <2>3. conn' \in [Conns -> T!ConnStates]
    BY <1>9 DEF T!MarkStopped
  <2>4. requests' \in Nat /\ losses' \in Nat /\ tunnels' \in [Tunnels -> Tunnels \cup {None}]
        /\ hostPresent' \in BOOLEAN /\ tunnelsClosed' \in BOOLEAN
    BY <1>9 DEF T!MarkStopped, T!TunnelStates, T!OpStates
  <2> QED
    BY <2>1, <2>2, <2>3, <2>4
<1>10. ASSUME NEW o \in Ops, T!CloseStopped(o) PROVE T!TypeOK'
  <2>1. op' \in [Ops -> T!OpStates]
    BY <1>10, OperatorRecords, Zenon DEF T!CloseStopped, T!CloseConnections
  <2>2. tun' \in [Tunnels -> T!TunnelStates]
    <3>1. op[o].t \in Tunnels /\ tun[op[o].t] \in T!TunnelStates
      BY <1>10 DEF T!CloseStopped, T!OpInv, T!Made
    <3>2. [tun[op[o].t] EXCEPT !.cancelled = TRUE, !.live = @ /\ op[o].pc # "close"] \in T!TunnelStates
      BY <3>1, Zenon DEF T!TunnelStates
    <3> QED
      BY <1>10, <3>1, <3>2 DEF T!CloseStopped
  <2>3. conn' \in [Conns -> T!ConnStates]
    BY <1>10, ConnRecords, Zenon DEF T!CloseStopped, T!CloseConnections
  <2>4. requests' \in Nat /\ losses' \in Nat /\ tunnels' \in [Tunnels -> Tunnels \cup {None}]
        /\ hostPresent' \in BOOLEAN /\ tunnelsClosed' \in BOOLEAN
    BY <1>10 DEF T!CloseStopped, T!CloseConnections, T!TunnelStates, T!OpStates
  <2> QED
    BY <2>1, <2>2, <2>3, <2>4
<1>11. ASSUME NEW o \in Ops, T!Remove(o) PROVE T!TypeOK'
  <2>1. op' \in [Ops -> T!OpStates]
    BY <1>11, OperatorRecords, Zenon DEF T!Remove
  <2>2. tun' \in [Tunnels -> T!TunnelStates]
    <3>1. op[o].t \in Tunnels /\ tun[op[o].t] \in T!TunnelStates
      BY <1>11 DEF T!Remove, T!OpInv, T!Made
    <3>2. [tun[op[o].t] EXCEPT !.status = "stopped"] \in T!TunnelStates
      BY <3>1, TunnelRecords, Zenon
    <3> QED
      BY <1>11, <3>1, <3>2 DEF T!Remove
  <2>3. conn' \in [Conns -> T!ConnStates]
    BY <1>11 DEF T!Remove
  <2>4. requests' \in Nat /\ losses' \in Nat /\ tunnels' \in [Tunnels -> Tunnels \cup {None}]
        /\ hostPresent' \in BOOLEAN /\ tunnelsClosed' \in BOOLEAN
    BY <1>11, Zenon DEF T!Remove, T!TunnelStates, T!OpStates
  <2> QED
    BY <2>1, <2>2, <2>3, <2>4
<1>12. ASSUME NEW o \in Ops, T!DeleteRow(o) PROVE T!TypeOK'
  <2>1. op' \in [Ops -> T!OpStates]
    BY <1>12, OperatorRecords, Zenon DEF T!DeleteRow
  <2>2. tun' \in [Tunnels -> T!TunnelStates]
    BY <1>12, TunnelRecords, Zenon DEF T!DeleteRow
  <2>3. conn' \in [Conns -> T!ConnStates]
    BY <1>12 DEF T!DeleteRow
  <2>4. requests' \in Nat /\ losses' \in Nat /\ tunnels' \in [Tunnels -> Tunnels \cup {None}]
        /\ hostPresent' \in BOOLEAN /\ tunnelsClosed' \in BOOLEAN
    BY <1>12, Zenon DEF T!DeleteRow, T!TunnelStates, T!OpStates
  <2> QED
    BY <2>1, <2>2, <2>3, <2>4
<1>13. ASSUME NEW o \in Ops, NEW i \in Tunnels, T!BeginStop(o, i) PROVE T!TypeOK'
  <2>1. op' \in [Ops -> T!OpStates]
    BY <1>13, OperatorRecords, Zenon DEF T!BeginStop, T!FindForStop
  <2>2. tun' \in [Tunnels -> T!TunnelStates]
    <3>1. tunnels[i] \in Tunnels /\ tun[tunnels[i]] \in T!TunnelStates
      BY <1>13 DEF T!BeginStop
    <3>2. [tun[tunnels[i]] EXCEPT !.status = "stopping"] \in T!TunnelStates
      BY <3>1, TunnelRecords, Zenon
    <3> QED
      BY <1>13, <3>1, <3>2 DEF T!BeginStop, T!FindForStop
  <2>3. conn' \in [Conns -> T!ConnStates]
    BY <1>13 DEF T!BeginStop, T!FindForStop
  <2>4. requests' \in Nat /\ losses' \in Nat /\ tunnels' \in [Tunnels -> Tunnels \cup {None}]
        /\ hostPresent' \in BOOLEAN /\ tunnelsClosed' \in BOOLEAN
    BY <1>13 DEF T!BeginStop, T!FindForStop, T!TunnelStates, T!OpStates
  <2> QED
    BY <2>1, <2>2, <2>3, <2>4
<1>14. ASSUME NEW o \in Ops, NEW i \in Tunnels, T!BeginUpdate(o, i) PROVE T!TypeOK'
  <2>1. op' \in [Ops -> T!OpStates]
    BY <1>14, OperatorRecords, Zenon DEF T!BeginUpdate
  <2>2. tun' \in [Tunnels -> T!TunnelStates]
    BY <1>14, TunnelRecords, Zenon DEF T!BeginUpdate
  <2>3. conn' \in [Conns -> T!ConnStates]
    BY <1>14 DEF T!BeginUpdate
  <2>4. requests' \in Nat /\ losses' \in Nat /\ tunnels' \in [Tunnels -> Tunnels \cup {None}]
        /\ hostPresent' \in BOOLEAN /\ tunnelsClosed' \in BOOLEAN
    BY <1>14 DEF T!BeginUpdate, T!TunnelStates, T!OpStates
  <2> QED
    BY <2>1, <2>2, <2>3, <2>4
<1>15. ASSUME NEW t \in Tunnels, T!ServeEnds(t) PROVE T!TypeOK'
  <2>1. op' \in [Ops -> T!OpStates]
    BY <1>15 DEF T!ServeEnds
  <2>2. tun' \in [Tunnels -> T!TunnelStates]
    BY <1>15, TunnelRecords, Zenon DEF T!ServeEnds
  <2>3. conn' \in [Conns -> T!ConnStates]
    BY <1>15 DEF T!ServeEnds
  <2>4. requests' \in Nat /\ losses' \in Nat /\ tunnels' \in [Tunnels -> Tunnels \cup {None}]
        /\ hostPresent' \in BOOLEAN /\ tunnelsClosed' \in BOOLEAN
    BY <1>15 DEF T!ServeEnds, T!TunnelStates, T!OpStates
  <2> QED
    BY <2>1, <2>2, <2>3, <2>4
<1>16. ASSUME NEW t \in Tunnels, T!CloseRuntime(t) PROVE T!TypeOK'
  <2>1. op' \in [Ops -> T!OpStates]
    BY <1>16 DEF T!CloseRuntime, T!CloseConnections
  <2>2. tun' \in [Tunnels -> T!TunnelStates]
    BY <1>16, TunnelRecords, Zenon DEF T!CloseRuntime, T!CloseConnections
  <2>3. conn' \in [Conns -> T!ConnStates]
    BY <1>16, ConnRecords, Zenon DEF T!CloseRuntime, T!CloseConnections
  <2>4. requests' \in Nat /\ losses' \in Nat /\ tunnels' \in [Tunnels -> Tunnels \cup {None}]
        /\ hostPresent' \in BOOLEAN /\ tunnelsClosed' \in BOOLEAN
    BY <1>16 DEF T!CloseRuntime, T!CloseConnections, T!TunnelStates, T!OpStates
  <2> QED
    BY <2>1, <2>2, <2>3, <2>4
<1>17. ASSUME NEW t \in Tunnels, T!Retry(t) PROVE T!TypeOK'
  <2>1. op' \in [Ops -> T!OpStates]
    BY <1>17 DEF T!Retry, T!Handlers, T!ConnsOf
  <2>2. tun' \in [Tunnels -> T!TunnelStates]
    BY <1>17, TunnelRecords, Zenon DEF T!Retry, T!Handlers, T!ConnsOf
  <2>3. conn' \in [Conns -> T!ConnStates]
    BY <1>17 DEF T!Retry, T!Handlers, T!ConnsOf
  <2>4. requests' \in Nat /\ losses' \in Nat /\ tunnels' \in [Tunnels -> Tunnels \cup {None}]
        /\ hostPresent' \in BOOLEAN /\ tunnelsClosed' \in BOOLEAN
    BY <1>17 DEF T!Retry, T!Handlers, T!ConnsOf, T!TunnelStates, T!OpStates
  <2> QED
    BY <2>1, <2>2, <2>3, <2>4
<1>18. ASSUME NEW t \in Tunnels, T!GiveUp(t) PROVE T!TypeOK'
  <2>1. op' \in [Ops -> T!OpStates]
    BY <1>18 DEF T!GiveUp
  <2>2. tun' \in [Tunnels -> T!TunnelStates]
    BY <1>18, TunnelRecords, Zenon DEF T!GiveUp
  <2>3. conn' \in [Conns -> T!ConnStates]
    BY <1>18 DEF T!GiveUp
  <2>4. requests' \in Nat /\ losses' \in Nat /\ tunnels' \in [Tunnels -> Tunnels \cup {None}]
        /\ hostPresent' \in BOOLEAN /\ tunnelsClosed' \in BOOLEAN
    BY <1>18 DEF T!GiveUp, T!TunnelStates, T!OpStates
  <2> QED
    BY <2>1, <2>2, <2>3, <2>4
<1>19. ASSUME NEW t \in Tunnels, T!AttemptOpens(t) PROVE T!TypeOK'
  <2>1. op' \in [Ops -> T!OpStates]
    BY <1>19 DEF T!AttemptOpens
  <2>2. tun' \in [Tunnels -> T!TunnelStates]
    <3>1. tun[t].gen + 1 \in Nat
      BY DEF T!TunnelStates
    <3>2. [tun[t] EXCEPT !.pc = "opened", !.live = TRUE, !.gen = @ + 1] \in T!TunnelStates
      BY <3>1, TunnelRecords, Zenon
    <3> QED
      BY <1>19, <3>2 DEF T!AttemptOpens
  <2>3. conn' \in [Conns -> T!ConnStates]
    BY <1>19 DEF T!AttemptOpens
  <2>4. requests' \in Nat /\ losses' \in Nat /\ tunnels' \in [Tunnels -> Tunnels \cup {None}]
        /\ hostPresent' \in BOOLEAN /\ tunnelsClosed' \in BOOLEAN
    BY <1>19 DEF T!AttemptOpens, T!TunnelStates, T!OpStates
  <2> QED
    BY <2>1, <2>2, <2>3, <2>4
<1>20. ASSUME NEW t \in Tunnels, T!Install(t) PROVE T!TypeOK'
  <2>1. op' \in [Ops -> T!OpStates]
    BY <1>20 DEF T!Install
  <2>2. tun' \in [Tunnels -> T!TunnelStates]
    BY <1>20, TunnelRecords, Zenon DEF T!Install
  <2>3. conn' \in [Conns -> T!ConnStates]
    BY <1>20 DEF T!Install
  <2>4. requests' \in Nat /\ losses' \in Nat /\ tunnels' \in [Tunnels -> Tunnels \cup {None}]
        /\ hostPresent' \in BOOLEAN /\ tunnelsClosed' \in BOOLEAN
    BY <1>20 DEF T!Install, T!TunnelStates, T!OpStates
  <2> QED
    BY <2>1, <2>2, <2>3, <2>4
<1>21. ASSUME NEW t \in Tunnels, T!Reconnected(t) PROVE T!TypeOK'
  <2>1. op' \in [Ops -> T!OpStates]
    BY <1>21 DEF T!Reconnected
  <2>2. tun' \in [Tunnels -> T!TunnelStates]
    BY <1>21, TunnelRecords, Zenon DEF T!Reconnected
  <2>3. conn' \in [Conns -> T!ConnStates]
    BY <1>21 DEF T!Reconnected
  <2>4. requests' \in Nat /\ losses' \in Nat /\ tunnels' \in [Tunnels -> Tunnels \cup {None}]
        /\ hostPresent' \in BOOLEAN /\ tunnelsClosed' \in BOOLEAN
    BY <1>21 DEF T!Reconnected, T!TunnelStates, T!OpStates
  <2> QED
    BY <2>1, <2>2, <2>3, <2>4
<1>22. ASSUME NEW t \in Tunnels, T!WorkerStops(t) PROVE T!TypeOK'
  <2>1. op' \in [Ops -> T!OpStates]
    BY <1>22 DEF T!WorkerStops, T!CloseConnections
  <2>2. tun' \in [Tunnels -> T!TunnelStates]
    BY <1>22, TunnelRecords, Zenon DEF T!WorkerStops, T!CloseConnections
  <2>3. conn' \in [Conns -> T!ConnStates]
    BY <1>22, ConnRecords, Zenon DEF T!WorkerStops, T!CloseConnections
  <2>4. requests' \in Nat /\ losses' \in Nat /\ tunnels' \in [Tunnels -> Tunnels \cup {None}]
        /\ hostPresent' \in BOOLEAN /\ tunnelsClosed' \in BOOLEAN
    BY <1>22 DEF T!WorkerStops, T!CloseConnections, T!TunnelStates, T!OpStates
  <2> QED
    BY <2>1, <2>2, <2>3, <2>4
<1>23. ASSUME NEW t \in Tunnels, T!WorkerEnds(t) PROVE T!TypeOK'
  <2>1. op' \in [Ops -> T!OpStates]
    BY <1>23 DEF T!WorkerEnds, T!Forget, T!Current
  <2>2. tun' \in [Tunnels -> T!TunnelStates]
    BY <1>23, TunnelRecords, Zenon DEF T!WorkerEnds, T!Forget, T!Current
  <2>3. conn' \in [Conns -> T!ConnStates]
    BY <1>23 DEF T!WorkerEnds, T!Forget, T!Current
  <2>4. requests' \in Nat /\ losses' \in Nat /\ tunnels' \in [Tunnels -> Tunnels \cup {None}]
        /\ hostPresent' \in BOOLEAN /\ tunnelsClosed' \in BOOLEAN
    BY <1>23, Zenon DEF T!WorkerEnds, T!Forget, T!Current, T!TunnelStates, T!OpStates
  <2> QED
    BY <2>1, <2>2, <2>3, <2>4
<1>24. ASSUME NEW t \in Tunnels, T!AcceptEnds(t) PROVE T!TypeOK'
  <2>1. op' \in [Ops -> T!OpStates]
    BY <1>24 DEF T!AcceptEnds
  <2>2. tun' \in [Tunnels -> T!TunnelStates]
    BY <1>24, TunnelRecords, Zenon DEF T!AcceptEnds
  <2>3. conn' \in [Conns -> T!ConnStates]
    BY <1>24 DEF T!AcceptEnds
  <2>4. requests' \in Nat /\ losses' \in Nat /\ tunnels' \in [Tunnels -> Tunnels \cup {None}]
        /\ hostPresent' \in BOOLEAN /\ tunnelsClosed' \in BOOLEAN
    BY <1>24 DEF T!AcceptEnds, T!TunnelStates, T!OpStates
  <2> QED
    BY <2>1, <2>2, <2>3, <2>4
<1>25. ASSUME NEW t \in Tunnels, NEW c \in Conns, T!Accept(t, c) PROVE T!TypeOK'
  <2>1. op' \in [Ops -> T!OpStates]
    BY <1>25 DEF T!Accept
  <2>2. tun' \in [Tunnels -> T!TunnelStates]
    <3>1. [tun[t] EXCEPT !.accept = "tracking"] \in T!TunnelStates
      BY TunnelRecords, Zenon
    <3> QED
      BY <1>25, <3>1 DEF T!Accept
  <2>3. conn' \in [Conns -> T!ConnStates]
    <3>1. tun[t].gen \in Nat
      BY DEF T!TunnelStates
    <3>2. [conn[c] EXCEPT !.pc = "accepted", !.t = t, !.gen = tun[t].gen, !.open = {"in"}] \in T!ConnStates
      BY <3>1, ConnRecords, Zenon
    <3> QED
      BY <1>25, <3>2 DEF T!Accept
  <2>4. requests' \in Nat /\ losses' \in Nat /\ tunnels' \in [Tunnels -> Tunnels \cup {None}]
        /\ hostPresent' \in BOOLEAN /\ tunnelsClosed' \in BOOLEAN
    BY <1>25 DEF T!Accept, T!TunnelStates, T!OpStates
  <2> QED
    BY <2>1, <2>2, <2>3, <2>4
<1>26. ASSUME NEW c \in Conns, T!TrackInbound(c) PROVE T!TypeOK'
  <2>1. op' \in [Ops -> T!OpStates]
    BY <1>26 DEF T!TrackInbound, T!Active
  <2>2. tun' \in [Tunnels -> T!TunnelStates]
    <3>1. conn[c].t \in Tunnels /\ tun[conn[c].t] \in T!TunnelStates
      BY <1>26 DEF T!TrackInbound, T!ConnInv
    <3>2. (IF T!Active(c) THEN "accepting" ELSE "off") \in {"off", "accepting", "tracking"}
      OBVIOUS
    <3>3. [tun[conn[c].t] EXCEPT !.accept = IF T!Active(c) THEN "accepting" ELSE "off"] \in T!TunnelStates
      BY <3>1, <3>2, TunnelRecords, Zenon
    <3> QED
      BY <1>26, <3>1, <3>3 DEF T!TrackInbound
  <2>3. conn' \in [Conns -> T!ConnStates]
    BY <1>26, ConnRecords, Zenon DEF T!TrackInbound, T!Active
  <2>4. requests' \in Nat /\ losses' \in Nat /\ tunnels' \in [Tunnels -> Tunnels \cup {None}]
        /\ hostPresent' \in BOOLEAN /\ tunnelsClosed' \in BOOLEAN
    BY <1>26 DEF T!TrackInbound, T!Active, T!TunnelStates, T!OpStates
  <2> QED
    BY <2>1, <2>2, <2>3, <2>4
<1>27. ASSUME NEW c \in Conns, T!DialFails(c) PROVE T!TypeOK'
  <2>1. op' \in [Ops -> T!OpStates]
    BY <1>27 DEF T!DialFails
  <2>2. tun' \in [Tunnels -> T!TunnelStates]
    BY <1>27, TunnelRecords, Zenon DEF T!DialFails
  <2>3. conn' \in [Conns -> T!ConnStates]
    BY <1>27, ConnRecords, Zenon DEF T!DialFails
  <2>4. requests' \in Nat /\ losses' \in Nat /\ tunnels' \in [Tunnels -> Tunnels \cup {None}]
        /\ hostPresent' \in BOOLEAN /\ tunnelsClosed' \in BOOLEAN
    BY <1>27 DEF T!DialFails, T!TunnelStates, T!OpStates
  <2> QED
    BY <2>1, <2>2, <2>3, <2>4
<1>28. ASSUME NEW c \in Conns, T!Dialed(c) PROVE T!TypeOK'
  <2>1. op' \in [Ops -> T!OpStates]
    BY <1>28 DEF T!Dialed
  <2>2. tun' \in [Tunnels -> T!TunnelStates]
    BY <1>28, TunnelRecords, Zenon DEF T!Dialed
  <2>3. conn' \in [Conns -> T!ConnStates]
    BY <1>28, ConnRecords, Zenon DEF T!Dialed
  <2>4. requests' \in Nat /\ losses' \in Nat /\ tunnels' \in [Tunnels -> Tunnels \cup {None}]
        /\ hostPresent' \in BOOLEAN /\ tunnelsClosed' \in BOOLEAN
    BY <1>28 DEF T!Dialed, T!TunnelStates, T!OpStates
  <2> QED
    BY <2>1, <2>2, <2>3, <2>4
<1>29. ASSUME NEW c \in Conns, T!TrackTarget(c) PROVE T!TypeOK'
  <2>1. op' \in [Ops -> T!OpStates]
    BY <1>29 DEF T!TrackTarget, T!Active
  <2>2. tun' \in [Tunnels -> T!TunnelStates]
    BY <1>29, TunnelRecords, Zenon DEF T!TrackTarget, T!Active
  <2>3. conn' \in [Conns -> T!ConnStates]
    <3>1. [conn[c] EXCEPT !.pc = "relaying", !.tracked = {"in", "out"}] \in T!ConnStates
          /\ [T!Over EXCEPT !.open = conn[c].open \ {"out"}] \in T!ConnStates
      BY ConnRecords, Zenon
    <3> QED
      BY <1>29, <3>1 DEF T!TrackTarget
  <2>4. requests' \in Nat /\ losses' \in Nat /\ tunnels' \in [Tunnels -> Tunnels \cup {None}]
        /\ hostPresent' \in BOOLEAN /\ tunnelsClosed' \in BOOLEAN
    BY <1>29 DEF T!TrackTarget, T!Active, T!TunnelStates, T!OpStates
  <2> QED
    BY <2>1, <2>2, <2>3, <2>4
<1>30. ASSUME NEW c \in Conns, T!RelayEnds(c) PROVE T!TypeOK'
  <2>1. op' \in [Ops -> T!OpStates]
    BY <1>30 DEF T!RelayEnds
  <2>2. tun' \in [Tunnels -> T!TunnelStates]
    BY <1>30, TunnelRecords, Zenon DEF T!RelayEnds
  <2>3. conn' \in [Conns -> T!ConnStates]
    BY <1>30, ConnRecords, Zenon DEF T!RelayEnds
  <2>4. requests' \in Nat /\ losses' \in Nat /\ tunnels' \in [Tunnels -> Tunnels \cup {None}]
        /\ hostPresent' \in BOOLEAN /\ tunnelsClosed' \in BOOLEAN
    BY <1>30 DEF T!RelayEnds, T!TunnelStates, T!OpStates
  <2> QED
    BY <2>1, <2>2, <2>3, <2>4
<1>31. ASSUME NEW c \in Conns, T!PeerCloses(c) PROVE T!TypeOK'
  <2>1. op' \in [Ops -> T!OpStates]
    BY <1>31 DEF T!PeerCloses
  <2>2. tun' \in [Tunnels -> T!TunnelStates]
    BY <1>31, TunnelRecords, Zenon DEF T!PeerCloses
  <2>3. conn' \in [Conns -> T!ConnStates]
    BY <1>31, ConnRecords, Zenon DEF T!PeerCloses
  <2>4. requests' \in Nat /\ losses' \in Nat /\ tunnels' \in [Tunnels -> Tunnels \cup {None}]
        /\ hostPresent' \in BOOLEAN /\ tunnelsClosed' \in BOOLEAN
    BY <1>31 DEF T!PeerCloses, T!TunnelStates, T!OpStates
  <2> QED
    BY <2>1, <2>2, <2>3, <2>4
<1>32. CASE T!Shutdown
  BY <1>32 DEF T!Shutdown
<1> QED
  BY <1>1, <1>2, <1>3, <1>4, <1>5, <1>6, <1>7, <1>8, <1>9, <1>10, <1>11, <1>12, <1>13, <1>14,
     <1>15, <1>16, <1>17, <1>18, <1>19, <1>20, <1>21, <1>22, <1>23, <1>24, <1>25, <1>26,
     <1>27, <1>28, <1>29, <1>30, <1>31, <1>32
     DEF T!Next, T!Begin, T!OpStep, T!Worker, T!Handler

\* What an operator stops was published, and what it opens is its own.
LEMMA TunnelOwners ==
  ASSUME T!TypeOK, T!OpInv, T!WorkerInv, T!Next \/ UNCHANGED tunnelVars
  PROVE  T!OpInv'
<1> USE DEF T!Tun, T!Become, T!Answer, T!Request, T!Conn, T!Idle, T!Over, T!Free, T!TypeOK,
    T!OpStates, T!TunnelStates, T!OpInv, T!WorkerInv, T!Made
<1>1. CASE UNCHANGED tunnelVars
  BY <1>1 DEF tunnelVars
<1>2. ASSUME NEW o \in Ops, T!BeginStart(o) PROVE T!OpInv'
  BY <1>2 DEF T!BeginStart
<1>3. ASSUME NEW o \in Ops, T!BeginDelete(o) PROVE T!OpInv'
  BY <1>3 DEF T!BeginDelete
<1>4. ASSUME NEW o \in Ops, T!Open(o) PROVE T!OpInv'
  BY <1>4 DEF T!Open, T!Unmade
<1>5. ASSUME NEW o \in Ops, T!StartFails(o) PROVE T!OpInv'
  <2>1. /\ op'[o].pc \in {"start", "idle"}
        /\ \A p \in Ops : p # o => op'[p] = op[p]
    BY <1>5 DEF T!StartFails, T!Restore
  <2>2. tunnels' = tunnels
    BY <1>5 DEF T!StartFails
  <2>3. CASE op[o].pc = "opening"
    <3>1. /\ op[o].t \in Tunnels /\ tun[op[o].t].pc = "starting"
          /\ tun' = [tun EXCEPT ![op[o].t] = [tun[op[o].t] EXCEPT !.pc = "ended"]]
      BY <1>5, <2>3 DEF T!StartFails
    <3>2. \A t \in Tunnels : /\ tun[t].pc # "starting" => tun'[t] = tun[t]
                             /\ tun'[t].pc = IF t = op[o].t THEN "ended" ELSE tun[t].pc
      BY <3>1
    <3> QED
      BY <2>1, <2>2, <2>3, <3>1, <3>2
  <2>4. CASE op[o].pc # "opening"
    <3>1. tun' = tun
      BY <1>5, <2>4 DEF T!StartFails
    <3> QED
      BY <2>1, <2>2, <3>1
  <2> QED
    BY <2>3, <2>4
<1>6. ASSUME NEW o \in Ops, T!Publish(o) PROVE T!OpInv'
  BY <1>6 DEF T!Publish, T!Serving
<1>7. ASSUME NEW o \in Ops, T!StopForUpdate(o) PROVE T!OpInv'
  BY <1>7 DEF T!StopForUpdate, T!FindForStop
<1>8. ASSUME NEW o \in Ops, T!UpdateTooLate(o) PROVE T!OpInv'
  BY <1>8 DEF T!UpdateTooLate
<1>9. ASSUME NEW o \in Ops, T!MarkStopped(o) PROVE T!OpInv'
  BY <1>9 DEF T!MarkStopped
<1>10. ASSUME NEW o \in Ops, T!CloseStopped(o) PROVE T!OpInv'
  BY <1>10 DEF T!CloseStopped, T!CloseConnections
<1>11. ASSUME NEW o \in Ops, T!Remove(o) PROVE T!OpInv'
  BY <1>11 DEF T!Remove
<1>12. ASSUME NEW o \in Ops, T!DeleteRow(o) PROVE T!OpInv'
  BY <1>12 DEF T!DeleteRow
<1>13. ASSUME NEW o \in Ops, NEW i \in Tunnels, T!BeginStop(o, i) PROVE T!OpInv'
  BY <1>13 DEF T!BeginStop, T!FindForStop
<1>14. ASSUME NEW o \in Ops, NEW i \in Tunnels, T!BeginUpdate(o, i) PROVE T!OpInv'
  BY <1>14 DEF T!BeginUpdate
<1>15. ASSUME NEW t \in Tunnels, T!ServeEnds(t) PROVE T!OpInv'
  BY <1>15 DEF T!ServeEnds
<1>16. ASSUME NEW t \in Tunnels, T!CloseRuntime(t) PROVE T!OpInv'
  BY <1>16 DEF T!CloseRuntime, T!CloseConnections
<1>17. ASSUME NEW t \in Tunnels, T!Retry(t) PROVE T!OpInv'
  BY <1>17 DEF T!Retry, T!Handlers, T!ConnsOf
<1>18. ASSUME NEW t \in Tunnels, T!GiveUp(t) PROVE T!OpInv'
  BY <1>18 DEF T!GiveUp
<1>19. ASSUME NEW t \in Tunnels, T!AttemptOpens(t) PROVE T!OpInv'
  BY <1>19 DEF T!AttemptOpens
<1>20. ASSUME NEW t \in Tunnels, T!Install(t) PROVE T!OpInv'
  BY <1>20 DEF T!Install
<1>21. ASSUME NEW t \in Tunnels, T!Reconnected(t) PROVE T!OpInv'
  BY <1>21 DEF T!Reconnected
<1>22. ASSUME NEW t \in Tunnels, T!WorkerStops(t) PROVE T!OpInv'
  BY <1>22 DEF T!WorkerStops, T!CloseConnections
<1>23. ASSUME NEW t \in Tunnels, T!WorkerEnds(t) PROVE T!OpInv'
  BY <1>23 DEF T!WorkerEnds, T!Forget, T!Current
<1>24. ASSUME NEW t \in Tunnels, T!AcceptEnds(t) PROVE T!OpInv'
  BY <1>24 DEF T!AcceptEnds
<1>25. ASSUME NEW t \in Tunnels, NEW c \in Conns, T!Accept(t, c) PROVE T!OpInv'
  BY <1>25 DEF T!Accept
<1>26. ASSUME NEW c \in Conns, T!TrackInbound(c) PROVE T!OpInv'
  BY <1>26 DEF T!TrackInbound, T!Active
<1>27. ASSUME NEW c \in Conns, T!DialFails(c) PROVE T!OpInv'
  BY <1>27 DEF T!DialFails
<1>28. ASSUME NEW c \in Conns, T!Dialed(c) PROVE T!OpInv'
  BY <1>28 DEF T!Dialed
<1>29. ASSUME NEW c \in Conns, T!TrackTarget(c) PROVE T!OpInv'
  BY <1>29 DEF T!TrackTarget, T!Active
<1>30. ASSUME NEW c \in Conns, T!RelayEnds(c) PROVE T!OpInv'
  BY <1>30 DEF T!RelayEnds
<1>31. ASSUME NEW c \in Conns, T!PeerCloses(c) PROVE T!OpInv'
  BY <1>31 DEF T!PeerCloses
<1>32. CASE T!Shutdown
  BY <1>32 DEF T!Shutdown
<1> QED
  BY <1>1, <1>2, <1>3, <1>4, <1>5, <1>6, <1>7, <1>8, <1>9, <1>10, <1>11, <1>12, <1>13, <1>14,
     <1>15, <1>16, <1>17, <1>18, <1>19, <1>20, <1>21, <1>22, <1>23, <1>24, <1>25, <1>26,
     <1>27, <1>28, <1>29, <1>30, <1>31, <1>32, Zenon
     DEF T!Next, T!Begin, T!OpStep, T!Worker, T!Handler

\* A stopped tunnel gets no runtime, and what a worker leaves is closed.
LEMMA TunnelWorkers ==
  ASSUME T!TypeOK, T!OpInv, T!WorkerInv, T!ConnInv, T!Next \/ UNCHANGED tunnelVars
  PROVE  T!WorkerInv'
<1> USE DEF T!Tun, T!Become, T!Answer, T!Request, T!Conn, T!Idle, T!Over, T!Free, T!TypeOK,
    T!OpStates, T!TunnelStates, T!ConnStates, T!OpInv, T!WorkerInv, T!ConnInv, T!Made
<1>1. CASE UNCHANGED tunnelVars
  BY <1>1 DEF tunnelVars
<1>2. ASSUME NEW o \in Ops, T!BeginStart(o) PROVE T!WorkerInv'
  BY <1>2 DEF T!BeginStart
<1>3. ASSUME NEW o \in Ops, T!BeginDelete(o) PROVE T!WorkerInv'
  BY <1>3 DEF T!BeginDelete
<1>4. ASSUME NEW o \in Ops, T!Open(o) PROVE T!WorkerInv'
  BY <1>4 DEF T!Open, T!Unmade
<1>5. ASSUME NEW o \in Ops, T!StartFails(o) PROVE T!WorkerInv'
  <2>1. CASE op[o].pc = "opening"
    <3>1. /\ op[o].t \in Tunnels /\ tun[op[o].t].pc = "starting"
          /\ tun' = [tun EXCEPT ![op[o].t] = [tun[op[o].t] EXCEPT !.pc = "ended"]]
      BY <1>5, <2>1 DEF T!StartFails
    <3>2. \A u \in Tunnels : u # op[o].t => tun'[u] = tun[u]
      BY <3>1
    <3>3. LET r == tun'[op[o].t] IN
          /\ r.pc = "ended" /\ r.stopped = tun[op[o].t].stopped /\ r.cur = tun[op[o].t].cur
          /\ r.live = tun[op[o].t].live /\ r.accept = tun[op[o].t].accept
      BY <3>1
    <3>4. ~tun[op[o].t].stopped
      BY <3>1
    <3>5. ~tun[op[o].t].live
      <4>1. PICK t \in Tunnels : t = op[o].t
        BY <3>1
      <4>2. tun[t].live => tun[t].pc \in {"serving", "closing", "opened", "check"}
        BY DEF T!WorkerInv
      <4> QED
        BY <3>1, <4>1, <4>2
    <3>6. tun[op[o].t].accept = "off"
      <4>1. PICK t \in Tunnels : t = op[o].t
        BY <3>1
      <4>2. tun[t].accept # "off" => tun[t].pc \in {"serving", "closing", "waiting"}
        BY DEF T!WorkerInv
      <4> QED
        BY <3>1, <4>1, <4>2
    <3> QED
      BY <3>1, <3>2, <3>3, <3>4, <3>5, <3>6
  <2>2. CASE op[o].pc # "opening"
    BY <1>5, <2>2 DEF T!StartFails
  <2> QED
    BY <2>1, <2>2
<1>6. ASSUME NEW o \in Ops, T!Publish(o) PROVE T!WorkerInv'
  BY <1>6 DEF T!Publish, T!Serving
<1>7. ASSUME NEW o \in Ops, T!StopForUpdate(o) PROVE T!WorkerInv'
  BY <1>7 DEF T!StopForUpdate, T!FindForStop
<1>8. ASSUME NEW o \in Ops, T!UpdateTooLate(o) PROVE T!WorkerInv'
  BY <1>8 DEF T!UpdateTooLate
<1>9. ASSUME NEW o \in Ops, T!MarkStopped(o) PROVE T!WorkerInv'
  BY <1>9 DEF T!MarkStopped
<1>10. ASSUME NEW o \in Ops, T!CloseStopped(o) PROVE T!WorkerInv'
  BY <1>10 DEF T!CloseStopped, T!CloseConnections
<1>11. ASSUME NEW o \in Ops, T!Remove(o) PROVE T!WorkerInv'
  BY <1>11 DEF T!Remove
<1>12. ASSUME NEW o \in Ops, T!DeleteRow(o) PROVE T!WorkerInv'
  BY <1>12 DEF T!DeleteRow
<1>13. ASSUME NEW o \in Ops, NEW i \in Tunnels, T!BeginStop(o, i) PROVE T!WorkerInv'
  BY <1>13 DEF T!BeginStop, T!FindForStop
<1>14. ASSUME NEW o \in Ops, NEW i \in Tunnels, T!BeginUpdate(o, i) PROVE T!WorkerInv'
  BY <1>14 DEF T!BeginUpdate
<1>15. ASSUME NEW t \in Tunnels, T!ServeEnds(t) PROVE T!WorkerInv'
  BY <1>15 DEF T!ServeEnds
<1>16. ASSUME NEW t \in Tunnels, T!CloseRuntime(t) PROVE T!WorkerInv'
  BY <1>16 DEF T!CloseRuntime, T!CloseConnections
<1>17. ASSUME NEW t \in Tunnels, T!Retry(t) PROVE T!WorkerInv'
  BY <1>17 DEF T!Retry, T!Handlers, T!ConnsOf
<1>18. ASSUME NEW t \in Tunnels, T!GiveUp(t) PROVE T!WorkerInv'
  BY <1>18 DEF T!GiveUp
<1>19. ASSUME NEW t \in Tunnels, T!AttemptOpens(t) PROVE T!WorkerInv'
  BY <1>19 DEF T!AttemptOpens
<1>20. ASSUME NEW t \in Tunnels, T!Install(t) PROVE T!WorkerInv'
  BY <1>20 DEF T!Install
<1>21. ASSUME NEW t \in Tunnels, T!Reconnected(t) PROVE T!WorkerInv'
  BY <1>21 DEF T!Reconnected
<1>22. ASSUME NEW t \in Tunnels, T!WorkerStops(t) PROVE T!WorkerInv'
  BY <1>22 DEF T!WorkerStops, T!CloseConnections
<1>23. ASSUME NEW t \in Tunnels, T!WorkerEnds(t) PROVE T!WorkerInv'
  BY <1>23 DEF T!WorkerEnds, T!Forget, T!Current
<1>24. ASSUME NEW t \in Tunnels, T!AcceptEnds(t) PROVE T!WorkerInv'
  BY <1>24 DEF T!AcceptEnds
<1>25. ASSUME NEW t \in Tunnels, NEW c \in Conns, T!Accept(t, c) PROVE T!WorkerInv'
  BY <1>25 DEF T!Accept
<1>26. ASSUME NEW c \in Conns, T!TrackInbound(c) PROVE T!WorkerInv'
  BY <1>26 DEF T!TrackInbound, T!Active
<1>27. ASSUME NEW c \in Conns, T!DialFails(c) PROVE T!WorkerInv'
  BY <1>27 DEF T!DialFails
<1>28. ASSUME NEW c \in Conns, T!Dialed(c) PROVE T!WorkerInv'
  BY <1>28 DEF T!Dialed
<1>29. ASSUME NEW c \in Conns, T!TrackTarget(c) PROVE T!WorkerInv'
  BY <1>29 DEF T!TrackTarget, T!Active
<1>30. ASSUME NEW c \in Conns, T!RelayEnds(c) PROVE T!WorkerInv'
  BY <1>30 DEF T!RelayEnds
<1>31. ASSUME NEW c \in Conns, T!PeerCloses(c) PROVE T!WorkerInv'
  BY <1>31 DEF T!PeerCloses
<1>32. CASE T!Shutdown
  BY <1>32 DEF T!Shutdown
<1> QED
  BY <1>1, <1>2, <1>3, <1>4, <1>5, <1>6, <1>7, <1>8, <1>9, <1>10, <1>11, <1>12, <1>13, <1>14,
     <1>15, <1>16, <1>17, <1>18, <1>19, <1>20, <1>21, <1>22, <1>23, <1>24, <1>25, <1>26,
     <1>27, <1>28, <1>29, <1>30, <1>31, <1>32
     DEF T!Next, T!Begin, T!OpStep, T!Worker, T!Handler

\* Connections stay with the runtime that accepted them.
LEMMA TunnelConns ==
  ASSUME T!TypeOK, T!OpInv, T!WorkerInv, T!ConnInv, T!Next \/ UNCHANGED tunnelVars
  PROVE  T!ConnInv'
<1> USE DEF T!Tun, T!Become, T!Answer, T!Request, T!Conn, T!Idle, T!Over, T!Free, T!TypeOK,
    T!OpStates, T!TunnelStates, T!ConnStates, T!OpInv, T!WorkerInv, T!ConnInv, T!Made
<1>1. CASE UNCHANGED tunnelVars
  BY <1>1 DEF tunnelVars
<1>2. ASSUME NEW o \in Ops, T!BeginStart(o) PROVE T!ConnInv'
  BY <1>2 DEF T!BeginStart
<1>3. ASSUME NEW o \in Ops, T!BeginDelete(o) PROVE T!ConnInv'
  BY <1>3 DEF T!BeginDelete
<1>4. ASSUME NEW o \in Ops, T!Open(o) PROVE T!ConnInv'
  BY <1>4 DEF T!Open, T!Unmade
<1>5. ASSUME NEW o \in Ops, T!StartFails(o) PROVE T!ConnInv'
  <2>1. CASE op[o].pc = "opening"
    <3>1. /\ op[o].t \in Tunnels /\ tun[op[o].t].pc = "starting"
          /\ tun' = [tun EXCEPT ![op[o].t] = [tun[op[o].t] EXCEPT !.pc = "ended"]]
      BY <1>5, <2>1 DEF T!StartFails
    <3>2. conn' = conn /\ \A u \in Tunnels : u # op[o].t => tun'[u] = tun[u]
      BY <1>5, <3>1 DEF T!StartFails
    <3>3. \A c \in Conns : conn[c].pc \in {"accepted", "dialing", "dialed", "relaying"} =>
            /\ conn[c].t \in Tunnels
            /\ tun[conn[c].t].pc \in {"serving", "closing", "waiting"}
      BY DEF T!WorkerInv
    <3>4. \A c \in Conns : conn[c].pc \in {"accepted", "dialing", "dialed", "relaying"} =>
            tun'[conn[c].t] = tun[conn[c].t]
      BY <3>1, <3>2, <3>3
    <3> QED
      BY <3>2, <3>4
  <2>2. CASE op[o].pc # "opening"
    BY <1>5, <2>2 DEF T!StartFails
  <2> QED
    BY <2>1, <2>2
<1>6. ASSUME NEW o \in Ops, T!Publish(o) PROVE T!ConnInv'
  BY <1>6 DEF T!Publish, T!Serving
<1>7. ASSUME NEW o \in Ops, T!StopForUpdate(o) PROVE T!ConnInv'
  BY <1>7 DEF T!StopForUpdate, T!FindForStop
<1>8. ASSUME NEW o \in Ops, T!UpdateTooLate(o) PROVE T!ConnInv'
  BY <1>8 DEF T!UpdateTooLate
<1>9. ASSUME NEW o \in Ops, T!MarkStopped(o) PROVE T!ConnInv'
  BY <1>9 DEF T!MarkStopped
<1>10. ASSUME NEW o \in Ops, T!CloseStopped(o) PROVE T!ConnInv'
  BY <1>10 DEF T!CloseStopped, T!CloseConnections
<1>11. ASSUME NEW o \in Ops, T!Remove(o) PROVE T!ConnInv'
  BY <1>11 DEF T!Remove
<1>12. ASSUME NEW o \in Ops, T!DeleteRow(o) PROVE T!ConnInv'
  BY <1>12 DEF T!DeleteRow
<1>13. ASSUME NEW o \in Ops, NEW i \in Tunnels, T!BeginStop(o, i) PROVE T!ConnInv'
  BY <1>13 DEF T!BeginStop, T!FindForStop
<1>14. ASSUME NEW o \in Ops, NEW i \in Tunnels, T!BeginUpdate(o, i) PROVE T!ConnInv'
  BY <1>14 DEF T!BeginUpdate
<1>15. ASSUME NEW t \in Tunnels, T!ServeEnds(t) PROVE T!ConnInv'
  BY <1>15 DEF T!ServeEnds
<1>16. ASSUME NEW t \in Tunnels, T!CloseRuntime(t) PROVE T!ConnInv'
  BY <1>16 DEF T!CloseRuntime, T!CloseConnections
<1>17. ASSUME NEW t \in Tunnels, T!Retry(t) PROVE T!ConnInv'
  BY <1>17 DEF T!Retry, T!Handlers, T!ConnsOf
<1>18. ASSUME NEW t \in Tunnels, T!GiveUp(t) PROVE T!ConnInv'
  BY <1>18 DEF T!GiveUp
<1>19. ASSUME NEW t \in Tunnels, T!AttemptOpens(t) PROVE T!ConnInv'
  BY <1>19 DEF T!AttemptOpens
<1>20. ASSUME NEW t \in Tunnels, T!Install(t) PROVE T!ConnInv'
  BY <1>20 DEF T!Install
<1>21. ASSUME NEW t \in Tunnels, T!Reconnected(t) PROVE T!ConnInv'
  BY <1>21 DEF T!Reconnected
<1>22. ASSUME NEW t \in Tunnels, T!WorkerStops(t) PROVE T!ConnInv'
  BY <1>22 DEF T!WorkerStops, T!CloseConnections
<1>23. ASSUME NEW t \in Tunnels, T!WorkerEnds(t) PROVE T!ConnInv'
  BY <1>23 DEF T!WorkerEnds, T!Forget, T!Current
<1>24. ASSUME NEW t \in Tunnels, T!AcceptEnds(t) PROVE T!ConnInv'
  BY <1>24 DEF T!AcceptEnds
<1>25. ASSUME NEW t \in Tunnels, NEW c \in Conns, T!Accept(t, c) PROVE T!ConnInv'
  BY <1>25 DEF T!Accept
<1>26. ASSUME NEW c \in Conns, T!TrackInbound(c) PROVE T!ConnInv'
  <2>1. /\ conn[c].pc = "accepted" /\ conn[c].t \in Tunnels
        /\ tun[conn[c].t].pc \in {"serving", "closing", "waiting"}
    BY <1>26 DEF T!TrackInbound
  <2>2. /\ \A u \in Tunnels : tun'[u].pc = tun[u].pc /\ tun'[u].gen = tun[u].gen
        /\ \A u \in Tunnels : u # conn[c].t => tun'[u] = tun[u]
    BY <1>26, <2>1 DEF T!TrackInbound
  <2>3. \A d \in Conns : d # c => conn'[d] = conn[d]
    BY <1>26 DEF T!TrackInbound
  <2>4. \/ /\ conn'[c].pc = "dialing" /\ conn'[c].t = conn[c].t /\ conn'[c].gen = conn[c].gen
           /\ tun[conn[c].t].gen = conn[c].gen
        \/ conn'[c].pc = "over" /\ conn'[c].tracked = {}
    BY <1>26 DEF T!TrackInbound, T!Active
  <2>5. \A d \in Conns : conn[d].pc = "accepted" /\ d # c => conn[d].t # conn[c].t
    BY <2>1
  <2> HIDE DEF T!Tun, T!Conn, T!Over, T!Free, T!TypeOK, T!OpInv, T!WorkerInv
  <2> QED
    BY <2>1, <2>2, <2>3, <2>4, <2>5
<1>27. ASSUME NEW c \in Conns, T!DialFails(c) PROVE T!ConnInv'
  BY <1>27 DEF T!DialFails
<1>28. ASSUME NEW c \in Conns, T!Dialed(c) PROVE T!ConnInv'
  <2>1. /\ \A d \in Conns : d # c => conn'[d] = conn[d]
        /\ conn[c].pc = "dialing" /\ conn'[c].pc = "dialed" /\ conn'[c].t = conn[c].t
        /\ conn'[c].gen = conn[c].gen /\ tun' = tun
    BY <1>28 DEF T!Dialed
  <2> HIDE DEF T!Tun, T!Conn, T!Over, T!Free, T!TypeOK, T!OpInv, T!WorkerInv
  <2> QED
    BY <2>1
<1>29. ASSUME NEW c \in Conns, T!TrackTarget(c) PROVE T!ConnInv'
  <2>1. /\ \A d \in Conns : d # c => conn'[d] = conn[d]
        /\ conn[c].pc = "dialed" /\ tun' = tun
    BY <1>29 DEF T!TrackTarget
  <2>2. \/ /\ conn'[c].pc = "relaying" /\ conn'[c].t = conn[c].t /\ conn'[c].gen = conn[c].gen
        \/ conn'[c].pc = "over" /\ conn'[c].tracked = {}
    BY <1>29 DEF T!TrackTarget, T!Active
  <2> HIDE DEF T!Tun, T!Conn, T!Over, T!Free, T!TypeOK, T!OpInv, T!WorkerInv
  <2> QED
    BY <2>1, <2>2
<1>30. ASSUME NEW c \in Conns, T!RelayEnds(c) PROVE T!ConnInv'
  BY <1>30 DEF T!RelayEnds
<1>31. ASSUME NEW c \in Conns, T!PeerCloses(c) PROVE T!ConnInv'
  BY <1>31 DEF T!PeerCloses
<1>32. CASE T!Shutdown
  BY <1>32 DEF T!Shutdown
<1> HIDE DEF T!Tun, T!Become, T!Answer, T!Request, T!Conn, T!Idle, T!Over, T!Free, T!TypeOK,
    T!OpStates, T!TunnelStates, T!ConnStates, T!OpInv, T!WorkerInv, T!ConnInv, T!Made
<1> QED
  BY <1>1, <1>2, <1>3, <1>4, <1>5, <1>6, <1>7, <1>8, <1>9, <1>10, <1>11, <1>12, <1>13, <1>14,
     <1>15, <1>16, <1>17, <1>18, <1>19, <1>20, <1>21, <1>22, <1>23, <1>24, <1>25, <1>26,
     <1>27, <1>28, <1>29, <1>30, <1>31, <1>32, Zenon
     DEF T!Next, T!Begin, T!OpStep, T!Worker, T!Handler

\* Only the worker of a tunnel that runs or is retried makes it run.
LEMMA TunnelStays ==
  ASSUME T!TypeOK, T!OpInv, T!WorkerInv, T!Next \/ UNCHANGED tunnelVars
  PROVE  \A t \in Tunnels : tun[t].status \in {"stopping", "stopped"}
                             => tun'[t].status \in {"stopping", "stopped"}
<1> DEFINE Final == \A t \in Tunnels : tun[t].status \in {"stopping", "stopped"}
                                      => tun'[t].status \in {"stopping", "stopped"}
<1> USE DEF T!Tun, T!Become, T!Answer, T!Request, T!Conn, T!TypeOK, T!OpStates,
    T!TunnelStates, T!OpInv, T!WorkerInv, T!Made
<1>1. CASE UNCHANGED tunnelVars
  BY <1>1 DEF tunnelVars
<1>2. ASSUME NEW o \in Ops, T!BeginStart(o) PROVE Final
  BY <1>2 DEF T!BeginStart
<1>3. ASSUME NEW o \in Ops, T!BeginDelete(o) PROVE Final
  BY <1>3 DEF T!BeginDelete
<1>4. ASSUME NEW o \in Ops, T!Open(o) PROVE Final
  BY <1>4 DEF T!Open, T!Unmade
<1>5. ASSUME NEW o \in Ops, T!StartFails(o) PROVE Final
  <2>1. CASE op[o].pc = "opening"
    <3>1. /\ op[o].t \in Tunnels
          /\ tun' = [tun EXCEPT ![op[o].t] = [tun[op[o].t] EXCEPT !.pc = "ended"]]
      BY <1>5, <2>1 DEF T!StartFails
    <3> QED
      BY <3>1
  <2>2. CASE op[o].pc # "opening"
    BY <1>5, <2>2 DEF T!StartFails
  <2> QED
    BY <2>1, <2>2
<1>6. ASSUME NEW o \in Ops, T!Publish(o) PROVE Final
  BY <1>6 DEF T!Publish, T!Serving
<1>7. ASSUME NEW o \in Ops, T!StopForUpdate(o) PROVE Final
  BY <1>7 DEF T!StopForUpdate, T!FindForStop
<1>8. ASSUME NEW o \in Ops, T!UpdateTooLate(o) PROVE Final
  BY <1>8 DEF T!UpdateTooLate
<1>9. ASSUME NEW o \in Ops, T!MarkStopped(o) PROVE Final
  BY <1>9 DEF T!MarkStopped
<1>10. ASSUME NEW o \in Ops, T!CloseStopped(o) PROVE Final
  BY <1>10 DEF T!CloseStopped, T!CloseConnections
<1>11. ASSUME NEW o \in Ops, T!Remove(o) PROVE Final
  BY <1>11 DEF T!Remove
<1>12. ASSUME NEW o \in Ops, T!DeleteRow(o) PROVE Final
  BY <1>12 DEF T!DeleteRow
<1>13. ASSUME NEW o \in Ops, NEW i \in Tunnels, T!BeginStop(o, i) PROVE Final
  BY <1>13 DEF T!BeginStop, T!FindForStop
<1>14. ASSUME NEW o \in Ops, NEW i \in Tunnels, T!BeginUpdate(o, i) PROVE Final
  BY <1>14 DEF T!BeginUpdate
<1>15. ASSUME NEW t \in Tunnels, T!ServeEnds(t) PROVE Final
  BY <1>15 DEF T!ServeEnds
<1>16. ASSUME NEW t \in Tunnels, T!CloseRuntime(t) PROVE Final
  BY <1>16 DEF T!CloseRuntime, T!CloseConnections
<1>17. ASSUME NEW t \in Tunnels, T!Retry(t) PROVE Final
  BY <1>17 DEF T!Retry, T!Handlers, T!ConnsOf
<1>18. ASSUME NEW t \in Tunnels, T!GiveUp(t) PROVE Final
  BY <1>18 DEF T!GiveUp
<1>19. ASSUME NEW t \in Tunnels, T!AttemptOpens(t) PROVE Final
  BY <1>19 DEF T!AttemptOpens
<1>20. ASSUME NEW t \in Tunnels, T!Install(t) PROVE Final
  BY <1>20 DEF T!Install
<1>21. ASSUME NEW t \in Tunnels, T!Reconnected(t) PROVE Final
  BY <1>21 DEF T!Reconnected
<1>22. ASSUME NEW t \in Tunnels, T!WorkerStops(t) PROVE Final
  BY <1>22 DEF T!WorkerStops, T!CloseConnections
<1>23. ASSUME NEW t \in Tunnels, T!WorkerEnds(t) PROVE Final
  BY <1>23 DEF T!WorkerEnds, T!Forget, T!Current
<1>24. ASSUME NEW t \in Tunnels, T!AcceptEnds(t) PROVE Final
  BY <1>24 DEF T!AcceptEnds
<1>25. ASSUME NEW t \in Tunnels, NEW c \in Conns, T!Accept(t, c) PROVE Final
  BY <1>25 DEF T!Accept
<1>26. ASSUME NEW c \in Conns, T!TrackInbound(c) PROVE Final
  BY <1>26 DEF T!TrackInbound, T!Active
<1>27. ASSUME NEW c \in Conns, T!DialFails(c) PROVE Final
  BY <1>27 DEF T!DialFails
<1>28. ASSUME NEW c \in Conns, T!Dialed(c) PROVE Final
  BY <1>28 DEF T!Dialed
<1>29. ASSUME NEW c \in Conns, T!TrackTarget(c) PROVE Final
  BY <1>29 DEF T!TrackTarget, T!Active
<1>30. ASSUME NEW c \in Conns, T!RelayEnds(c) PROVE Final
  BY <1>30 DEF T!RelayEnds
<1>31. ASSUME NEW c \in Conns, T!PeerCloses(c) PROVE Final
  BY <1>31 DEF T!PeerCloses
<1>32. CASE T!Shutdown
  BY <1>32 DEF T!Shutdown
<1> QED
  BY <1>1, <1>2, <1>3, <1>4, <1>5, <1>6, <1>7, <1>8, <1>9, <1>10, <1>11, <1>12, <1>13, <1>14,
     <1>15, <1>16, <1>17, <1>18, <1>19, <1>20, <1>21, <1>22, <1>23, <1>24, <1>25, <1>26,
     <1>27, <1>28, <1>29, <1>30, <1>31, <1>32
     DEF T!Next, T!Begin, T!OpStep, T!Worker, T!Handler

\* The invariant of the tunnels holds in the beginning ...
LEMMA TunnelsStart == T!Init => T!IInv
<1> SUFFICES ASSUME T!Init PROVE T!IInv
  OBVIOUS
<1>1. /\ T!Unused \in T!TunnelStates
      /\ \A t \in Tunnels : T!Serving([T!Unused EXCEPT !.id = t]) \in T!TunnelStates
      /\ T!Idle \in T!OpStates /\ T!Free \in T!ConnStates
  <2>1. T!Unused \in T!TunnelStates
    BY DEF T!Unused, T!TunnelStates
  <2>2. \A t \in Tunnels : [T!Unused EXCEPT !.id = t] \in T!TunnelStates
    BY Zenon DEF T!Unused, T!TunnelStates
  <2>3. \A t \in Tunnels : T!Serving([T!Unused EXCEPT !.id = t]) \in T!TunnelStates
    BY <2>2, TunnelRecords, Zenon
  <2>4. T!Idle \in T!OpStates /\ T!Free \in T!ConnStates
    BY DEF T!Idle, T!OpStates, T!Free, T!ConnStates
  <2> QED
    BY <2>1, <2>3, <2>4
<1>2. T!TypeOK
  BY <1>1, TunnelBounds DEF T!Init, T!TypeOK
<1>3. T!OpInv
  BY TunnelBounds, Zenon DEF T!Init, T!OpInv, T!Made, T!Idle, T!Serving, T!Unused
<1>4. T!WorkerInv
  BY Zenon DEF T!Init, T!WorkerInv, T!Serving, T!Unused
<1>5. T!ConnInv
  BY DEF T!Init, T!ConnInv, T!Free
<1> QED
  BY <1>2, <1>3, <1>4, <1>5 DEF T!IInv

\* ... and every step keeps it.
LEMMA TunnelsStep == ASSUME T!IInv, T!Next \/ UNCHANGED tunnelVars PROVE T!IInv'
  BY TunnelTyping, TunnelOwners, TunnelWorkers, TunnelConns DEF T!IInv

\* What the invariant says of a tunnel whose worker has ended.
LEMMA TunnelsEnd == T!IInv => T!StoppedTunnelIsClosed /\ T!RuntimesDoNotOverlap
<1> SUFFICES ASSUME T!IInv PROVE T!StoppedTunnelIsClosed /\ T!RuntimesDoNotOverlap
  OBVIOUS
<1>1. T!RuntimesDoNotOverlap
  BY DEF T!IInv, T!ConnInv, T!RuntimesDoNotOverlap
<1>2. ASSUME NEW t \in Tunnels, tun[t].pc = "ended"
      PROVE  ~tun[t].live /\ tun[t].accept = "off" /\ \A c \in T!ConnsOf(t) : conn[c].tracked = {}
  <2>1. ~tun[t].live
    BY <1>2 DEF T!IInv, T!WorkerInv
  <2>2. tun[t].accept = "off"
    BY <1>2 DEF T!IInv, T!WorkerInv
  <2>3. \A c \in T!ConnsOf(t) : conn[c].tracked = {}
    BY <1>2 DEF T!IInv, T!ConnInv, T!ConnsOf
  <2> QED
    BY <2>1, <2>2, <2>3
<1>3. \A t \in Tunnels : tun[t].stopped => ~tun[t].cur
  BY DEF T!IInv, T!WorkerInv
<1> QED
  BY <1>1, <1>2, <1>3 DEF T!StoppedTunnelIsClosed

\* Whatever operators, workers, lost connections and a shutdown do to tunnels: one
\* that was stopped gets no runtime and never runs again, one whose worker ended has
\* nothing open, and no two runtimes serve its connections (tunnels.go).
THEOREM TunnelsKeepClosed == Spec => TunnelsSafe
<1>1. Init => T!IInv
  BY TunnelsStart DEF Init
<1>2. ASSUME Next \/ UNCHANGED vars PROVE T!Next \/ UNCHANGED tunnelVars
  BY <1>2 DEF Next, vars, MoveTunnels, MovePool, MoveShells, MoveJournal, MoveSSH
<1>3. T!IInv /\ [Next]_vars => T!IInv'
  BY <1>2, TunnelsStep
<1>4. T!IInv => T!StoppedTunnelIsClosed /\ T!RuntimesDoNotOverlap
  BY TunnelsEnd
<1>5. T!IInv /\ [Next]_vars =>
       [\A t \in Tunnels : tun[t].status \in {"stopping", "stopped"}
           => tun'[t].status \in {"stopping", "stopped"}]_(T!vars)
  BY <1>2, TunnelStays DEF T!IInv
<1> QED
  BY <1>1, <1>3, <1>4, <1>5, PTL DEF Spec, TunnelsSafe, T!StopIsFinal

-----------------------------------------------------------------------------
(* Shells *)

\* ShellLifecycle counts with the Cardinality of FiniteSets.
LEMMA ShellCount == ASSUME NEW X PROVE S!Cardinality(X) = Cardinality(X)
  BY DEF S!Cardinality, Cardinality

\* A shell that is neither started nor served any more gives its room back.
LEMMA ShellRoom ==
  ASSUME S!RoomInv, S!Held' \subseteq S!Held, \A s \in S!Held' : host'[s] = host[s]
  PROVE  S!RoomInv'
<1>1. IsFiniteSet(S!Held)
  BY ShellBounds, FS_Subset DEF S!Held
<1>2. Cardinality(S!Held') <= Cardinality(S!Held) /\ Cardinality(S!Held) \in Nat
      /\ Cardinality(S!Held') \in Nat
  BY <1>1, FS_Subset, FS_CardinalityType
<1>3. ASSUME NEW h \in Hosts
      PROVE  Cardinality({s \in S!Held' : host'[s] = h}) <= MaxPerHost
  <2> DEFINE before == {s \in S!Held : host[s] = h}
             after  == {s \in S!Held' : host'[s] = h}
  <2>1. IsFiniteSet(before) /\ after \subseteq before
    BY <1>1, FS_Subset
  <2>2. Cardinality(after) <= Cardinality(before) /\ Cardinality(before) \in Nat /\ Cardinality(after) \in Nat
    BY <2>1, FS_Subset, FS_CardinalityType
  <2>3. Cardinality(before) <= MaxPerHost
    BY ShellCount DEF S!RoomInv
  <2> QED
    BY <2>2, <2>3, ShellBounds
<1>4. Cardinality(S!Held') <= MaxActive
  <2>1. Cardinality(S!Held) <= MaxActive
    BY ShellCount DEF S!RoomInv
  <2> QED
    BY <1>2, <2>1, ShellBounds
<1>5. S!Cardinality(S!Held') <= MaxActive
  BY <1>4, ShellCount
<1>6. \A h \in Hosts : S!Cardinality({s \in S!Held' : host'[s] = h}) <= MaxPerHost
  BY <1>3, ShellCount
<1> QED
  BY <1>5, <1>6 DEF S!RoomInv

\* Every step leaves the variables well typed.
LEMMA ShellTyping ==
  ASSUME S!TypeOK, S!HeldInv, S!ClientInv, S!Next \/ UNCHANGED shellVars
  PROVE  S!TypeOK'
<1> USE DEF S!TypeOK, S!ClientInv, S!FinalStatus, S!Recover, S!Statuses, S!shell, S!Rest,
    S!Process, S!Goto, S!Client, S!Live, S!Active
<1>1. CASE UNCHANGED shellVars
  BY <1>1 DEF shellVars
<1>2. ASSUME NEW s \in Shells, S!Reserve(s) PROVE S!TypeOK'
  BY <1>2 DEF S!Reserve
<1>3. ASSUME NEW s \in Shells, S!CreateRow(s) PROVE S!TypeOK'
  BY <1>3 DEF S!CreateRow
<1>4. ASSUME NEW s \in Shells, S!CreateFails(s) PROVE S!TypeOK'
  BY <1>4 DEF S!CreateFails
<1>5. ASSUME NEW s \in Shells, S!OpenFails(s) PROVE S!TypeOK'
  BY <1>5 DEF S!OpenFails
<1>6. ASSUME NEW s \in Shells, S!Opened(s) PROVE S!TypeOK'
  BY <1>6 DEF S!Opened
<1>7. ASSUME NEW s \in Shells, S!RecordRunning(s) PROVE S!TypeOK'
  BY <1>7 DEF S!RecordRunning
<1>8. ASSUME NEW s \in Shells, S!RecordFails(s) PROVE S!TypeOK'
  BY <1>8 DEF S!RecordFails
<1>9. ASSUME NEW s \in Shells, S!FailStart(s) PROVE S!TypeOK'
  BY <1>9 DEF S!FailStart
<1>10. ASSUME NEW s \in Shells, S!SessionEnds(s) PROVE S!TypeOK'
  BY <1>10 DEF S!SessionEnds
<1>11. ASSUME NEW s \in Shells, S!Conclude(s) PROVE S!TypeOK'
  BY <1>11 DEF S!Conclude
<1>12. ASSUME NEW s \in Shells, S!RecordEnd(s) PROVE S!TypeOK'
  BY <1>12 DEF S!RecordEnd
<1>13. ASSUME NEW s \in Shells, S!Unregister(s) PROVE S!TypeOK'
  BY <1>13 DEF S!Unregister
<1>14. ASSUME NEW s \in Shells, S!RemoteExit(s) PROVE S!TypeOK'
  BY <1>14 DEF S!RemoteExit
<1>15. ASSUME NEW s \in Shells, S!AbortPersistence(s) PROVE S!TypeOK'
  BY <1>15 DEF S!AbortPersistence
<1>16. ASSUME NEW c \in Clients, S!MarkClosing(c) PROVE S!TypeOK'
  BY <1>16 DEF S!MarkClosing
<1>17. ASSUME NEW c \in Clients, S!WriteClosing(c) PROVE S!TypeOK'
  BY <1>17 DEF S!WriteClosing
<1>18. ASSUME NEW c \in Clients, S!CancelShell(c) PROVE S!TypeOK'
  BY <1>18 DEF S!CancelShell
<1>19. ASSUME NEW c \in Clients, S!WriteResized(c) PROVE S!TypeOK'
  BY <1>19 DEF S!WriteResized
<1>20. ASSUME NEW c \in Clients, NEW s \in Shells, S!BeginClose(c, s) PROVE S!TypeOK'
  BY <1>20 DEF S!BeginClose
<1>21. ASSUME NEW c \in Clients, NEW s \in Shells, S!Resize(c, s) PROVE S!TypeOK'
  BY <1>21 DEF S!Resize
<1>22. CASE S!Shutdown
  BY <1>22 DEF S!Shutdown
<1>23. CASE S!Restart
  BY <1>23 DEF S!Restart
<1> QED
  BY <1>1, <1>2, <1>3, <1>4, <1>5, <1>6, <1>7, <1>8, <1>9, <1>10, <1>11, <1>12, <1>13, <1>14,
     <1>15, <1>16, <1>17, <1>18, <1>19, <1>20, <1>21, <1>22, <1>23 DEF S!Next, S!Work,
     S!Serve

\* What is started or served stays in the registry with an active status.
LEMMA ShellHeld ==
  ASSUME S!TypeOK, S!HeldInv, S!ClientInv, S!Next \/ UNCHANGED shellVars
  PROVE  S!HeldInv'
<1> USE DEF S!TypeOK, S!HeldInv, S!Held, S!ClientInv, S!Statuses, S!shell, S!Rest, S!Process,
    S!Goto, S!Client, S!Live, S!Active
<1>1. CASE UNCHANGED shellVars
  BY <1>1 DEF shellVars
<1>2. ASSUME NEW s \in Shells, S!Reserve(s) PROVE S!HeldInv'
  BY <1>2 DEF S!Reserve
<1>3. ASSUME NEW s \in Shells, S!CreateRow(s) PROVE S!HeldInv'
  BY <1>3 DEF S!CreateRow
<1>4. ASSUME NEW s \in Shells, S!CreateFails(s) PROVE S!HeldInv'
  BY <1>4 DEF S!CreateFails
<1>5. ASSUME NEW s \in Shells, S!OpenFails(s) PROVE S!HeldInv'
  BY <1>5 DEF S!OpenFails
<1>6. ASSUME NEW s \in Shells, S!Opened(s) PROVE S!HeldInv'
  BY <1>6 DEF S!Opened
<1>7. ASSUME NEW s \in Shells, S!RecordRunning(s) PROVE S!HeldInv'
  BY <1>7 DEF S!RecordRunning
<1>8. ASSUME NEW s \in Shells, S!RecordFails(s) PROVE S!HeldInv'
  BY <1>8 DEF S!RecordFails
<1>9. ASSUME NEW s \in Shells, S!FailStart(s) PROVE S!HeldInv'
  BY <1>9 DEF S!FailStart
<1>10. ASSUME NEW s \in Shells, S!SessionEnds(s) PROVE S!HeldInv'
  BY <1>10 DEF S!SessionEnds
<1>11. ASSUME NEW s \in Shells, S!Conclude(s) PROVE S!HeldInv'
  BY <1>11 DEF S!Conclude
<1>12. ASSUME NEW s \in Shells, S!RecordEnd(s) PROVE S!HeldInv'
  BY <1>12 DEF S!RecordEnd
<1>13. ASSUME NEW s \in Shells, S!Unregister(s) PROVE S!HeldInv'
  BY <1>13 DEF S!Unregister
<1>14. ASSUME NEW s \in Shells, S!RemoteExit(s) PROVE S!HeldInv'
  BY <1>14 DEF S!RemoteExit
<1>15. ASSUME NEW s \in Shells, S!AbortPersistence(s) PROVE S!HeldInv'
  BY <1>15 DEF S!AbortPersistence
<1>16. ASSUME NEW c \in Clients, S!MarkClosing(c) PROVE S!HeldInv'
  BY <1>16 DEF S!MarkClosing
<1>17. ASSUME NEW c \in Clients, S!WriteClosing(c) PROVE S!HeldInv'
  BY <1>17 DEF S!WriteClosing
<1>18. ASSUME NEW c \in Clients, S!CancelShell(c) PROVE S!HeldInv'
  BY <1>18 DEF S!CancelShell
<1>19. ASSUME NEW c \in Clients, S!WriteResized(c) PROVE S!HeldInv'
  BY <1>19 DEF S!WriteResized
<1>20. ASSUME NEW c \in Clients, NEW s \in Shells, S!BeginClose(c, s) PROVE S!HeldInv'
  BY <1>20 DEF S!BeginClose
<1>21. ASSUME NEW c \in Clients, NEW s \in Shells, S!Resize(c, s) PROVE S!HeldInv'
  BY <1>21 DEF S!Resize
<1>22. CASE S!Shutdown
  BY <1>22 DEF S!Shutdown
<1>23. CASE S!Restart
  BY <1>23 DEF S!Restart
<1> QED
  BY <1>1, <1>2, <1>3, <1>4, <1>5, <1>6, <1>7, <1>8, <1>9, <1>10, <1>11, <1>12, <1>13, <1>14,
     <1>15, <1>16, <1>17, <1>18, <1>19, <1>20, <1>21, <1>22, <1>23 DEF S!Next, S!Work,
     S!Serve

\* No client works on a shell that its process does not have.
LEMMA ShellClients ==
  ASSUME S!TypeOK, S!HeldInv, S!ClientInv, S!Next \/ UNCHANGED shellVars
  PROVE  S!ClientInv'
<1> USE DEF S!TypeOK, S!HeldInv, S!ClientInv, S!Statuses, S!shell, S!Rest, S!Process, S!Goto,
    S!Client, S!Live, S!Active
<1>1. CASE UNCHANGED shellVars
  BY <1>1 DEF shellVars
<1>2. ASSUME NEW s \in Shells, S!Reserve(s) PROVE S!ClientInv'
  BY <1>2 DEF S!Reserve
<1>3. ASSUME NEW s \in Shells, S!CreateRow(s) PROVE S!ClientInv'
  BY <1>3 DEF S!CreateRow
<1>4. ASSUME NEW s \in Shells, S!CreateFails(s) PROVE S!ClientInv'
  BY <1>4 DEF S!CreateFails
<1>5. ASSUME NEW s \in Shells, S!OpenFails(s) PROVE S!ClientInv'
  BY <1>5 DEF S!OpenFails
<1>6. ASSUME NEW s \in Shells, S!Opened(s) PROVE S!ClientInv'
  BY <1>6 DEF S!Opened
<1>7. ASSUME NEW s \in Shells, S!RecordRunning(s) PROVE S!ClientInv'
  BY <1>7 DEF S!RecordRunning
<1>8. ASSUME NEW s \in Shells, S!RecordFails(s) PROVE S!ClientInv'
  BY <1>8 DEF S!RecordFails
<1>9. ASSUME NEW s \in Shells, S!FailStart(s) PROVE S!ClientInv'
  BY <1>9 DEF S!FailStart
<1>10. ASSUME NEW s \in Shells, S!SessionEnds(s) PROVE S!ClientInv'
  BY <1>10 DEF S!SessionEnds
<1>11. ASSUME NEW s \in Shells, S!Conclude(s) PROVE S!ClientInv'
  BY <1>11 DEF S!Conclude
<1>12. ASSUME NEW s \in Shells, S!RecordEnd(s) PROVE S!ClientInv'
  BY <1>12 DEF S!RecordEnd
<1>13. ASSUME NEW s \in Shells, S!Unregister(s) PROVE S!ClientInv'
  BY <1>13 DEF S!Unregister
<1>14. ASSUME NEW s \in Shells, S!RemoteExit(s) PROVE S!ClientInv'
  BY <1>14 DEF S!RemoteExit
<1>15. ASSUME NEW s \in Shells, S!AbortPersistence(s) PROVE S!ClientInv'
  BY <1>15 DEF S!AbortPersistence
<1>16. ASSUME NEW c \in Clients, S!MarkClosing(c) PROVE S!ClientInv'
  BY <1>16 DEF S!MarkClosing
<1>17. ASSUME NEW c \in Clients, S!WriteClosing(c) PROVE S!ClientInv'
  BY <1>17 DEF S!WriteClosing
<1>18. ASSUME NEW c \in Clients, S!CancelShell(c) PROVE S!ClientInv'
  BY <1>18 DEF S!CancelShell
<1>19. ASSUME NEW c \in Clients, S!WriteResized(c) PROVE S!ClientInv'
  BY <1>19 DEF S!WriteResized
<1>20. ASSUME NEW c \in Clients, NEW s \in Shells, S!BeginClose(c, s) PROVE S!ClientInv'
  BY <1>20 DEF S!BeginClose
<1>21. ASSUME NEW c \in Clients, NEW s \in Shells, S!Resize(c, s) PROVE S!ClientInv'
  BY <1>21 DEF S!Resize
<1>22. CASE S!Shutdown
  BY <1>22 DEF S!Shutdown
<1>23. CASE S!Restart
  BY <1>23 DEF S!Restart
<1> QED
  BY <1>1, <1>2, <1>3, <1>4, <1>5, <1>6, <1>7, <1>8, <1>9, <1>10, <1>11, <1>12, <1>13, <1>14,
     <1>15, <1>16, <1>17, <1>18, <1>19, <1>20, <1>21, <1>22, <1>23 DEF S!Next, S!Work,
     S!Serve

\* Nobody writes the row of a shell whose process is gone.
LEMMA ShellRows ==
  ASSUME S!TypeOK, S!ClientInv, S!NoRowOfLostShell, S!Next \/ UNCHANGED shellVars
  PROVE  S!NoRowOfLostShell'
<1> USE DEF S!TypeOK, S!NoRowOfLostShell, S!ClientInv, S!Recover, S!Statuses, S!shell,
    S!Rest, S!Process, S!Goto, S!Client, S!Live, S!Active
<1>1. CASE UNCHANGED shellVars
  BY <1>1 DEF shellVars
<1>2. ASSUME NEW s \in Shells, S!Reserve(s) PROVE S!NoRowOfLostShell'
  BY <1>2 DEF S!Reserve
<1>3. ASSUME NEW s \in Shells, S!CreateRow(s) PROVE S!NoRowOfLostShell'
  BY <1>3 DEF S!CreateRow
<1>4. ASSUME NEW s \in Shells, S!CreateFails(s) PROVE S!NoRowOfLostShell'
  BY <1>4 DEF S!CreateFails
<1>5. ASSUME NEW s \in Shells, S!OpenFails(s) PROVE S!NoRowOfLostShell'
  BY <1>5 DEF S!OpenFails
<1>6. ASSUME NEW s \in Shells, S!Opened(s) PROVE S!NoRowOfLostShell'
  BY <1>6 DEF S!Opened
<1>7. ASSUME NEW s \in Shells, S!RecordRunning(s) PROVE S!NoRowOfLostShell'
  BY <1>7 DEF S!RecordRunning
<1>8. ASSUME NEW s \in Shells, S!RecordFails(s) PROVE S!NoRowOfLostShell'
  BY <1>8 DEF S!RecordFails
<1>9. ASSUME NEW s \in Shells, S!FailStart(s) PROVE S!NoRowOfLostShell'
  BY <1>9 DEF S!FailStart
<1>10. ASSUME NEW s \in Shells, S!SessionEnds(s) PROVE S!NoRowOfLostShell'
  BY <1>10 DEF S!SessionEnds
<1>11. ASSUME NEW s \in Shells, S!Conclude(s) PROVE S!NoRowOfLostShell'
  BY <1>11 DEF S!Conclude
<1>12. ASSUME NEW s \in Shells, S!RecordEnd(s) PROVE S!NoRowOfLostShell'
  BY <1>12 DEF S!RecordEnd
<1>13. ASSUME NEW s \in Shells, S!Unregister(s) PROVE S!NoRowOfLostShell'
  BY <1>13 DEF S!Unregister
<1>14. ASSUME NEW s \in Shells, S!RemoteExit(s) PROVE S!NoRowOfLostShell'
  BY <1>14 DEF S!RemoteExit
<1>15. ASSUME NEW s \in Shells, S!AbortPersistence(s) PROVE S!NoRowOfLostShell'
  BY <1>15 DEF S!AbortPersistence
<1>16. ASSUME NEW c \in Clients, S!MarkClosing(c) PROVE S!NoRowOfLostShell'
  BY <1>16 DEF S!MarkClosing
<1>17. ASSUME NEW c \in Clients, S!WriteClosing(c) PROVE S!NoRowOfLostShell'
  BY <1>17 DEF S!WriteClosing
<1>18. ASSUME NEW c \in Clients, S!CancelShell(c) PROVE S!NoRowOfLostShell'
  BY <1>18 DEF S!CancelShell
<1>19. ASSUME NEW c \in Clients, S!WriteResized(c) PROVE S!NoRowOfLostShell'
  BY <1>19 DEF S!WriteResized
<1>20. ASSUME NEW c \in Clients, NEW s \in Shells, S!BeginClose(c, s) PROVE S!NoRowOfLostShell'
  BY <1>20 DEF S!BeginClose
<1>21. ASSUME NEW c \in Clients, NEW s \in Shells, S!Resize(c, s) PROVE S!NoRowOfLostShell'
  BY <1>21 DEF S!Resize
<1>22. CASE S!Shutdown
  BY <1>22 DEF S!Shutdown
<1>23. CASE S!Restart
  BY <1>23 DEF S!Restart
<1> QED
  BY <1>1, <1>2, <1>3, <1>4, <1>5, <1>6, <1>7, <1>8, <1>9, <1>10, <1>11, <1>12, <1>13, <1>14,
     <1>15, <1>16, <1>17, <1>18, <1>19, <1>20, <1>21, <1>22, <1>23 DEF S!Next, S!Work,
     S!Serve

\* No step but a start takes room.
LEMMA ShellsShrink ==
  ASSUME S!TypeOK, S!Next \/ UNCHANGED shellVars, ~ \E s \in Shells : S!Reserve(s)
  PROVE  S!Held' \subseteq S!Held /\ host' = host
<1> USE DEF S!TypeOK, S!Held, S!Statuses, S!shell, S!Rest, S!Process, S!Goto, S!Client,
    S!Live, S!Active
<1>1. CASE UNCHANGED shellVars
  BY <1>1 DEF shellVars
<1>2. ASSUME NEW s \in Shells, S!Reserve(s) PROVE S!Held' \subseteq S!Held /\ host' = host
  BY <1>2
<1>3. ASSUME NEW s \in Shells, S!CreateRow(s) PROVE S!Held' \subseteq S!Held /\ host' = host
  BY <1>3 DEF S!CreateRow
<1>4. ASSUME NEW s \in Shells, S!CreateFails(s) PROVE S!Held' \subseteq S!Held /\ host' = host
  BY <1>4 DEF S!CreateFails
<1>5. ASSUME NEW s \in Shells, S!OpenFails(s) PROVE S!Held' \subseteq S!Held /\ host' = host
  BY <1>5 DEF S!OpenFails
<1>6. ASSUME NEW s \in Shells, S!Opened(s) PROVE S!Held' \subseteq S!Held /\ host' = host
  BY <1>6 DEF S!Opened
<1>7. ASSUME NEW s \in Shells, S!RecordRunning(s)
      PROVE  S!Held' \subseteq S!Held /\ host' = host
  BY <1>7 DEF S!RecordRunning
<1>8. ASSUME NEW s \in Shells, S!RecordFails(s) PROVE S!Held' \subseteq S!Held /\ host' = host
  BY <1>8 DEF S!RecordFails
<1>9. ASSUME NEW s \in Shells, S!FailStart(s) PROVE S!Held' \subseteq S!Held /\ host' = host
  BY <1>9 DEF S!FailStart
<1>10. ASSUME NEW s \in Shells, S!SessionEnds(s) PROVE S!Held' \subseteq S!Held /\ host' = host
  BY <1>10 DEF S!SessionEnds
<1>11. ASSUME NEW s \in Shells, S!Conclude(s) PROVE S!Held' \subseteq S!Held /\ host' = host
  BY <1>11 DEF S!Conclude
<1>12. ASSUME NEW s \in Shells, S!RecordEnd(s) PROVE S!Held' \subseteq S!Held /\ host' = host
  BY <1>12 DEF S!RecordEnd
<1>13. ASSUME NEW s \in Shells, S!Unregister(s) PROVE S!Held' \subseteq S!Held /\ host' = host
  BY <1>13 DEF S!Unregister
<1>14. ASSUME NEW s \in Shells, S!RemoteExit(s) PROVE S!Held' \subseteq S!Held /\ host' = host
  BY <1>14 DEF S!RemoteExit
<1>15. ASSUME NEW s \in Shells, S!AbortPersistence(s)
      PROVE  S!Held' \subseteq S!Held /\ host' = host
  BY <1>15 DEF S!AbortPersistence
<1>16. ASSUME NEW c \in Clients, S!MarkClosing(c)
      PROVE  S!Held' \subseteq S!Held /\ host' = host
  BY <1>16 DEF S!MarkClosing
<1>17. ASSUME NEW c \in Clients, S!WriteClosing(c)
      PROVE  S!Held' \subseteq S!Held /\ host' = host
  BY <1>17 DEF S!WriteClosing
<1>18. ASSUME NEW c \in Clients, S!CancelShell(c)
      PROVE  S!Held' \subseteq S!Held /\ host' = host
  BY <1>18 DEF S!CancelShell
<1>19. ASSUME NEW c \in Clients, S!WriteResized(c)
      PROVE  S!Held' \subseteq S!Held /\ host' = host
  BY <1>19 DEF S!WriteResized
<1>20. ASSUME NEW c \in Clients, NEW s \in Shells, S!BeginClose(c, s)
      PROVE  S!Held' \subseteq S!Held /\ host' = host
  BY <1>20 DEF S!BeginClose
<1>21. ASSUME NEW c \in Clients, NEW s \in Shells, S!Resize(c, s)
      PROVE  S!Held' \subseteq S!Held /\ host' = host
  BY <1>21 DEF S!Resize
<1>22. CASE S!Shutdown
  BY <1>22 DEF S!Shutdown
<1>23. CASE S!Restart
  BY <1>23 DEF S!Restart
<1> QED
  BY <1>1, <1>2, <1>3, <1>4, <1>5, <1>6, <1>7, <1>8, <1>9, <1>10, <1>11, <1>12, <1>13, <1>14,
     <1>15, <1>16, <1>17, <1>18, <1>19, <1>20, <1>21, <1>22, <1>23 DEF S!Next, S!Work,
     S!Serve

\* A start finds room for one more, in all and on its host.
LEMMA ShellTakesRoom ==
  ASSUME S!TypeOK, S!HeldInv, S!RoomInv, NEW s \in Shells, S!Reserve(s)
  PROVE  S!RoomInv'
<1> DEFINE counted == S!Counted
           on(h)   == {t \in counted : host[t] = h}
<1>1. PICK h \in Hosts : S!Room(h) /\ host' = [host EXCEPT ![s] = h]
  BY DEF S!Reserve
<1>2. S!Held \subseteq counted /\ counted \subseteq Shells
  BY DEF S!HeldInv, S!Held, S!Counted, S!TypeOK
<1>3. S!Held' \subseteq S!Held \cup {s}
  BY DEF S!Reserve, S!Goto, S!Held, S!TypeOK
<1>4. \A t \in S!Held : t # s /\ host'[t] = host[t]
  BY <1>1 DEF S!Reserve, S!Goto, S!Held, S!TypeOK
<1>5. host'[s] = h
  BY <1>1 DEF S!TypeOK
<1>6. IsFiniteSet(counted) /\ \A g \in Hosts : IsFiniteSet(on(g))
  BY <1>2, ShellBounds, FS_Subset
<1>7. Cardinality(counted) < MaxActive /\ Cardinality(on(h)) < MaxPerHost
  BY <1>1, ShellCount DEF S!Room
<1>8. Cardinality(S!Held') <= MaxActive
  <2>1. S!Held' \subseteq counted \cup {s}
    BY <1>2, <1>3
  <2>2. IsFiniteSet(counted \cup {s}) /\ Cardinality(counted \cup {s}) <= Cardinality(counted) + 1
        /\ Cardinality(counted) \in Nat
    <3> DEFINE base == counted
    <3>1. IsFiniteSet(base)
      BY <1>6
    <3> HIDE DEF base
    <3>2. Cardinality(base) \in Nat /\ IsFiniteSet(base \cup {s})
      BY <3>1, FS_AddElement, FS_CardinalityType
    <3>3. Cardinality(base \cup {s}) = IF s \in base THEN Cardinality(base) ELSE Cardinality(base) + 1
      BY <3>1, FS_AddElement
    <3>4. Cardinality(base \cup {s}) <= Cardinality(base) + 1
      BY <3>2, <3>3
    <3> QED
      BY <3>2, <3>4 DEF base
  <2>3. Cardinality(S!Held') <= Cardinality(counted \cup {s})
        /\ Cardinality(S!Held') \in Nat /\ Cardinality(counted \cup {s}) \in Nat
    BY <2>1, <2>2, FS_Subset, FS_CardinalityType
  <2> QED
    BY <2>2, <2>3, <1>7, ShellBounds
<1>9. ASSUME NEW g \in Hosts
      PROVE  Cardinality({t \in S!Held' : host'[t] = g}) <= MaxPerHost
  <2> DEFINE after == {t \in S!Held' : host'[t] = g}
  <2>1. CASE g = h
    <3>1. after \subseteq on(h) \cup {s}
      BY <1>2, <1>3, <1>4, <2>1
    <3>2. IsFiniteSet(on(h) \cup {s}) /\ Cardinality(on(h) \cup {s}) <= Cardinality(on(h)) + 1
          /\ Cardinality(on(h)) \in Nat
      <4> DEFINE base == on(h)
      <4>1. IsFiniteSet(base)
        BY <1>6
      <4> HIDE DEF base
      <4>2. Cardinality(base) \in Nat /\ IsFiniteSet(base \cup {s})
        BY <4>1, FS_AddElement, FS_CardinalityType
      <4>3. Cardinality(base \cup {s}) = IF s \in base THEN Cardinality(base) ELSE Cardinality(base) + 1
        BY <4>1, FS_AddElement
      <4>4. Cardinality(base \cup {s}) <= Cardinality(base) + 1
        BY <4>2, <4>3
      <4> QED
        BY <4>2, <4>4 DEF base
    <3>3. Cardinality(after) <= Cardinality(on(h) \cup {s})
          /\ Cardinality(after) \in Nat /\ Cardinality(on(h) \cup {s}) \in Nat
      <4> HIDE DEF after, on
      <4> QED
        BY <3>1, <3>2, FS_Subset, FS_CardinalityType
    <3> HIDE DEF after, on
    <3>4. Cardinality(after) <= MaxPerHost
      BY <3>2, <3>3, <1>7, ShellBounds
    <3> QED
      BY <3>4 DEF after
  <2>2. CASE g # h
    <3> DEFINE before == {t \in S!Held : host[t] = g}
    <3>1. after \subseteq before
      BY <1>3, <1>4, <1>5, <2>2
    <3>2. IsFiniteSet(before)
      BY <1>2, <1>6, FS_Subset
    <3>3. Cardinality(before) <= MaxPerHost
      BY ShellCount DEF S!RoomInv
    <3>4. Cardinality(after) <= Cardinality(before)
          /\ Cardinality(after) \in Nat /\ Cardinality(before) \in Nat
      <4> HIDE DEF after, before
      <4> QED
        BY <3>1, <3>2, FS_Subset, FS_CardinalityType
    <3> HIDE DEF after, before
    <3>5. Cardinality(after) <= MaxPerHost
      BY <3>3, <3>4, ShellBounds
    <3> QED
      BY <3>5 DEF after
  <2> QED
    BY <2>1, <2>2
<1>10. S!Cardinality(S!Held') <= MaxActive
  BY <1>8, ShellCount
<1>11. \A g \in Hosts : S!Cardinality({t \in S!Held' : host'[t] = g}) <= MaxPerHost
  BY <1>9, ShellCount
<1> QED
  BY <1>10, <1>11 DEF S!RoomInv

\* The invariant of the shells holds in the beginning ...
LEMMA ShellsStart == S!Init => S!IInv
<1> SUFFICES ASSUME S!Init PROVE S!IInv
  OBVIOUS
<1>1. S!TypeOK /\ S!HeldInv /\ S!ClientInv /\ S!NoRowOfLostShell
  BY DEF S!Init, S!TypeOK, S!Statuses, S!Active, S!HeldInv, S!Held, S!ClientInv,
     S!NoRowOfLostShell
<1>2. S!Held = {} /\ \A h \in Hosts : {s \in S!Held : host[s] = h} = {}
  BY DEF S!Init, S!Held
<1>3. S!Cardinality({}) = 0
  BY ShellCount, FS_EmptySet
<1>4. S!RoomInv
  BY <1>2, <1>3, ShellBounds DEF S!RoomInv
<1> QED
  BY <1>1, <1>4 DEF S!IInv

\* ... and every step keeps it.
LEMMA ShellsStep == ASSUME S!IInv, S!Next \/ UNCHANGED shellVars PROVE S!IInv'
<1>1. S!TypeOK' /\ S!HeldInv' /\ S!ClientInv' /\ S!NoRowOfLostShell'
  BY ShellTyping, ShellHeld, ShellClients, ShellRows DEF S!IInv
<1>2. S!RoomInv'
  <2>1. CASE \E s \in Shells : S!Reserve(s)
    BY <2>1, ShellTakesRoom DEF S!IInv
  <2>2. CASE ~ \E s \in Shells : S!Reserve(s)
    BY <2>2, ShellsShrink, ShellRoom DEF S!IInv
  <2> QED
    BY <2>1, <2>2
<1> QED
  BY <1>1, <1>2 DEF S!IInv

\* Every open session counts, so that its limits are those of what is held.
LEMMA ShellLimits == S!IInv => S!LimitsHold
<1> SUFFICES ASSUME S!IInv PROVE S!LimitsHold
  OBVIOUS
<1> DEFINE opened == S!Open
           held == S!Held
<1>1. opened \subseteq held /\ opened \subseteq registry /\ held \subseteq Shells
  BY DEF S!IInv, S!HeldInv, S!Held, S!Open, S!TypeOK
<1>2. IsFiniteSet(held)
  BY <1>1, ShellBounds, FS_Subset
<1>3. Cardinality(held) <= MaxActive
  BY ShellCount DEF S!IInv, S!RoomInv
<1>4. Cardinality(opened) <= MaxActive
  <2>1. Cardinality(opened) <= Cardinality(held) /\ Cardinality(opened) \in Nat /\ Cardinality(held) \in Nat
    BY <1>1, <1>2, FS_Subset, FS_CardinalityType
  <2> QED
    BY <2>1, <1>3, ShellBounds
<1>5. ASSUME NEW h \in Hosts PROVE Cardinality({s \in opened : host[s] = h}) <= MaxPerHost
  <2> DEFINE openThere == {s \in opened : host[s] = h}
             heldThere == {s \in held : host[s] = h}
  <2>1. openThere \subseteq heldThere /\ IsFiniteSet(heldThere)
    BY <1>1, <1>2, FS_Subset
  <2>2. Cardinality(heldThere) <= MaxPerHost
    BY ShellCount DEF S!IInv, S!RoomInv
  <2>3. Cardinality(openThere) <= Cardinality(heldThere)
        /\ Cardinality(openThere) \in Nat /\ Cardinality(heldThere) \in Nat
    BY <2>1, FS_Subset, FS_CardinalityType
  <2> HIDE DEF openThere, heldThere
  <2>4. Cardinality(openThere) <= MaxPerHost
    BY <2>2, <2>3, ShellBounds
  <2> QED
    BY <2>4 DEF openThere
<1>6. S!Cardinality(S!Open) <= MaxActive
  BY <1>4, ShellCount
<1>7. \A h \in Hosts : S!Cardinality({s \in S!Open : host[s] = h}) <= MaxPerHost
  BY <1>5, ShellCount
<1> QED
  BY <1>1, <1>6, <1>7 DEF S!LimitsHold

\* Only the worker concludes, and it looks at its context.
LEMMA ShellReport ==
  ASSUME S!TypeOK, S!Next \/ UNCHANGED shellVars
  PROVE  \A s \in Shells : start[s] = "exited" /\ start'[s] = "leave" /\ shellsClosed /\ reason[s] = "none"
            => status'[s] = "interrupted"
<1> DEFINE Reported == \A t \in Shells :
                            start[t] = "exited" /\ start'[t] = "leave" /\ shellsClosed /\ reason[t] = "none"
                                            => status'[t] = "interrupted"
<1> USE DEF S!TypeOK, S!FinalStatus, S!Done, S!Statuses, S!shell, S!Rest, S!Process, S!Goto,
    S!Client, S!Live, S!Active
<1>1. CASE UNCHANGED shellVars
  BY <1>1 DEF shellVars
<1>2. ASSUME NEW s \in Shells, S!Reserve(s) PROVE Reported
  BY <1>2 DEF S!Reserve
<1>3. ASSUME NEW s \in Shells, S!CreateRow(s) PROVE Reported
  BY <1>3 DEF S!CreateRow
<1>4. ASSUME NEW s \in Shells, S!CreateFails(s) PROVE Reported
  BY <1>4 DEF S!CreateFails
<1>5. ASSUME NEW s \in Shells, S!OpenFails(s) PROVE Reported
  BY <1>5 DEF S!OpenFails
<1>6. ASSUME NEW s \in Shells, S!Opened(s) PROVE Reported
  BY <1>6 DEF S!Opened
<1>7. ASSUME NEW s \in Shells, S!RecordRunning(s) PROVE Reported
  BY <1>7 DEF S!RecordRunning
<1>8. ASSUME NEW s \in Shells, S!RecordFails(s) PROVE Reported
  BY <1>8 DEF S!RecordFails
<1>9. ASSUME NEW s \in Shells, S!FailStart(s) PROVE Reported
  BY <1>9 DEF S!FailStart
<1>10. ASSUME NEW s \in Shells, S!SessionEnds(s) PROVE Reported
  BY <1>10 DEF S!SessionEnds
<1>11. ASSUME NEW s \in Shells, S!Conclude(s) PROVE Reported
  BY <1>11 DEF S!Conclude
<1>12. ASSUME NEW s \in Shells, S!RecordEnd(s) PROVE Reported
  BY <1>12 DEF S!RecordEnd
<1>13. ASSUME NEW s \in Shells, S!Unregister(s) PROVE Reported
  BY <1>13 DEF S!Unregister
<1>14. ASSUME NEW s \in Shells, S!RemoteExit(s) PROVE Reported
  BY <1>14 DEF S!RemoteExit
<1>15. ASSUME NEW s \in Shells, S!AbortPersistence(s) PROVE Reported
  BY <1>15 DEF S!AbortPersistence
<1>16. ASSUME NEW c \in Clients, S!MarkClosing(c) PROVE Reported
  BY <1>16 DEF S!MarkClosing
<1>17. ASSUME NEW c \in Clients, S!WriteClosing(c) PROVE Reported
  BY <1>17 DEF S!WriteClosing
<1>18. ASSUME NEW c \in Clients, S!CancelShell(c) PROVE Reported
  BY <1>18 DEF S!CancelShell
<1>19. ASSUME NEW c \in Clients, S!WriteResized(c) PROVE Reported
  BY <1>19 DEF S!WriteResized
<1>20. ASSUME NEW c \in Clients, NEW s \in Shells, S!BeginClose(c, s) PROVE Reported
  BY <1>20 DEF S!BeginClose
<1>21. ASSUME NEW c \in Clients, NEW s \in Shells, S!Resize(c, s) PROVE Reported
  BY <1>21 DEF S!Resize
<1>22. CASE S!Shutdown
  BY <1>22 DEF S!Shutdown
<1>23. CASE S!Restart
  BY <1>23 DEF S!Restart
<1> QED
  BY <1>1, <1>2, <1>3, <1>4, <1>5, <1>6, <1>7, <1>8, <1>9, <1>10, <1>11, <1>12, <1>13, <1>14,
     <1>15, <1>16, <1>17, <1>18, <1>19, <1>20, <1>21, <1>22, <1>23 DEF S!Next, S!Work,
     S!Serve

\* Whatever clients, workers, a shutdown and a restart do to shells: the sessions that
\* are open keep to both limits and are in the registry, recovery leaves no row of a lost
\* shell active, and a shutdown is not reported as a shell's own end (shells.go).
THEOREM ShellsKeepLimits == Spec => ShellsSafe
<1>1. Init => S!IInv
  BY ShellsStart DEF Init
<1>2. ASSUME Next \/ UNCHANGED vars PROVE S!Next \/ UNCHANGED shellVars
  BY <1>2 DEF Next, vars, MoveTunnels, MovePool, MoveShells, MoveJournal, MoveSSH
<1>3. S!IInv /\ [Next]_vars => S!IInv'
  BY <1>2, ShellsStep
<1>4. S!IInv => S!LimitsHold /\ S!NoRowOfLostShell
  BY ShellLimits DEF S!IInv
<1>5. S!IInv /\ [Next]_vars =>
       [\A s \in Shells : start[s] = "exited" /\ start'[s] = "leave" /\ shellsClosed /\ reason[s] = "none"
           => status'[s] = "interrupted"]_(S!vars)
  BY <1>2, ShellReport DEF S!IInv
<1> QED
  BY <1>1, <1>3, <1>4, <1>5, PTL DEF Spec, ShellsSafe, S!ShutdownIsReported

-----------------------------------------------------------------------------
(* The journal of a shell *)

\* A new event goes behind those that wait ...
LEMMA EventWaits ==
  ASSUME NEW rows \in Seq(Nat), NEW waiting \in Seq(Nat), NEW n \in Nat, J!Numbered(rows, waiting, n)
  PROVE  /\ Append(waiting, n + 1) \in Seq(Nat)
         /\ J!Numbered(rows, Append(waiting, n + 1), n + 1)
<1> DEFINE longer == Append(waiting, n + 1)
<1>1. longer \in Seq(Nat) /\ Len(longer) = Len(waiting) + 1
      /\ longer[Len(waiting) + 1] = n + 1
      /\ \A i \in 1 .. Len(waiting) : longer[i] = waiting[i]
  OBVIOUS
<1> DEFINE k == Len(rows)
           m == Len(waiting)
<1>0. k \in Nat /\ m \in Nat /\ k + m = n /\ \A i \in 1 .. m : waiting[i] = k + i
  BY DEF J!Numbered
<1>2. Len(longer) = m + 1 /\ longer[m + 1] = n + 1 /\ \A i \in 1 .. m : longer[i] = waiting[i]
  BY <1>1
<1> HIDE DEF longer, k, m
<1>3. ASSUME NEW i \in 1 .. Len(longer) PROVE longer[i] = k + i
  <2>1. CASE i = m + 1
    BY <1>0, <1>2, <2>1
  <2>2. CASE i # m + 1
    BY <1>0, <1>2, <2>2
  <2> QED
    BY <2>1, <2>2
<1>4. k + Len(longer) = n + 1
  BY <1>0, <1>2
<1>5. J!Numbered(rows, longer, n + 1)
  BY <1>3, <1>4 DEF J!Numbered, k
<1> QED
  BY <1>1, <1>5 DEF longer

\* ... and a batch behind those that are stored.
LEMMA BatchIsStored ==
  ASSUME NEW rows \in Seq(Nat), NEW waiting \in Seq(Nat), NEW n \in Nat, J!Numbered(rows, waiting, n)
  PROVE  /\ rows \o waiting \in Seq(Nat) /\ Len(rows \o waiting) = n
         /\ J!Numbered(rows \o waiting, <<>>, n)
         /\ waiting # <<>> => J!Last(waiting) = n
<1> DEFINE all == rows \o waiting
           k == Len(rows)
           m == Len(waiting)
<1>1. all \in Seq(Nat) /\ Len(all) = k + m
      /\ (\A i \in 1 .. k : all[i] = rows[i])
      /\ \A i \in k + 1 .. k + m : all[i] = waiting[i - k]
  OBVIOUS
<1>2. Len(<<>>) = 0
  OBVIOUS
<1>7. k \in Nat /\ m \in Nat /\ k + m = n
      /\ (\A i \in 1 .. k : rows[i] = i) /\ \A i \in 1 .. m : waiting[i] = k + i
  BY DEF J!Numbered
<1> HIDE DEF all, k, m
<1>3. Len(all) = n
  BY <1>1, <1>7
<1>4. ASSUME NEW i \in 1 .. Len(all) PROVE all[i] = i
  <2>1. CASE i \in 1 .. k
    BY <1>1, <1>7, <2>1
  <2>2. CASE i \notin 1 .. k
    <3>1. i \in k + 1 .. k + m /\ i - k \in 1 .. m /\ k + (i - k) = i
      BY <1>1, <1>7, <2>2
    <3>2. waiting[i - k] = k + (i - k)
      BY <1>7, <3>1
    <3> QED
      BY <1>1, <3>1, <3>2
  <2> QED
    BY <2>1, <2>2
<1>5. J!Numbered(all, <<>>, n)
  BY <1>2, <1>3, <1>4 DEF J!Numbered
<1>6. waiting # <<>> => J!Last(waiting) = n
  <2>1. waiting # <<>> => Len(waiting) \in 1 .. Len(waiting)
    OBVIOUS
  <2> QED
    BY <2>1, <1>7 DEF J!Last, m
<1> QED
  BY <1>1, <1>3, <1>5, <1>6 DEF all

\* What the stores make of the journal, for a queue q of the first n events.
LEMMA StoreKeepsOrder ==
  ASSUME J!TypeOK, NEW q \in Seq(Nat), NEW n \in Nat, n <= MaxEvents + 1,
         J!Numbered(stored, q, n),
         J!Stored(q) \/ J!StoreFails(q, TRUE) \/ J!StoreFails(q, FALSE)
  PROVE  /\ J!Numbered(stored', queue', n)
         /\ queue' \in Seq(Nat) /\ stored' \in Seq(Nat) /\ last' \in 0 .. MaxEvents + 1
         /\ persistTimer' \in BOOLEAN /\ stopped' \in BOOLEAN /\ failures' \in 0 .. MaxFailures
         /\ Len(stored') >= Len(stored)
         /\ J!Stored(q) => Len(stored') = n
<1>1. CASE J!Stored(q)
  <2>1. J!Numbered(stored', queue', n) /\ queue' \in Seq(Nat) /\ stored' \in Seq(Nat)
        /\ Len(stored') = n /\ Len(stored) <= n
    <3>1. stored \in Seq(Nat) /\ Len(stored) <= n
      BY DEF J!TypeOK, J!Numbered
    <3>2. <<>> \in Seq(Nat)
      OBVIOUS
    <3> QED
      BY <1>1, <3>1, <3>2, BatchIsStored DEF J!Stored
  <2>2. last' \in 0 .. MaxEvents + 1
    <3>1. stored \in Seq(Nat) /\ last \in 0 .. MaxEvents + 1
      BY DEF J!TypeOK
    <3>2. q # <<>> => J!Last(q) = n
      BY <3>1, BatchIsStored
    <3> QED
      BY <1>1, <3>1, <3>2, JournalBounds DEF J!Stored
  <2>3. persistTimer' \in BOOLEAN /\ stopped' \in BOOLEAN /\ failures' \in 0 .. MaxFailures
    BY <1>1 DEF J!Stored, J!TypeOK
  <2> QED
    BY <2>1, <2>2, <2>3
<1>2. ASSUME NEW b \in BOOLEAN, J!StoreFails(q, b)
      PROVE  /\ queue' = q /\ stored' = stored /\ last' = last /\ failures' \in 0 .. MaxFailures
             /\ persistTimer' \in BOOLEAN /\ stopped' \in BOOLEAN
  BY <1>2, JournalBounds DEF J!StoreFails, J!TypeOK
<1>3. CASE ~J!Stored(q)
  <2>1. PICK b \in BOOLEAN : J!StoreFails(q, b)
    BY <1>3
  <2>2. queue' = q /\ stored' = stored /\ last' = last /\ failures' \in 0 .. MaxFailures
        /\ persistTimer' \in BOOLEAN /\ stopped' \in BOOLEAN
    BY <1>2, <2>1
  <2>3. J!Numbered(stored', queue', n)
    BY <2>2
  <2>4. Len(stored') >= Len(stored)
    BY <2>2 DEF J!TypeOK
  <2> QED
    BY <1>3, <2>2, <2>3, <2>4 DEF J!TypeOK
<1> QED
  BY <1>1, <1>3

\* The log only grows.
LEMMA LogGrows ==
  ASSUME J!TypeOK, NEW k \in J!Kinds, log' = Append(log, k)
  PROVE  /\ log' \in Seq(J!Kinds) /\ Len(log) \in Nat /\ Len(log') = Len(log) + 1
         /\ log'[Len(log) + 1] = k /\ \A e \in 1 .. Len(log) : log'[e] = log[e]
<1>1. log \in Seq(J!Kinds)
  BY DEF J!TypeOK
<1> QED
  BY <1>1

\* An event that is recorded is stored or waits.
LEMMA RecordKeepsOrder ==
  ASSUME J!TypeOK, J!OrderInv, Len(log) <= MaxEvents,
         NEW q, q = Append(queue, Len(log) + 1),
         J!Stored(q) \/ J!StoreFails(q, TRUE)
  PROVE  /\ J!Numbered(stored', queue', Len(log) + 1)
         /\ queue' \in Seq(Nat) /\ stored' \in Seq(Nat) /\ last' \in 0 .. MaxEvents + 1
         /\ persistTimer' \in BOOLEAN /\ stopped' \in BOOLEAN /\ failures' \in 0 .. MaxFailures
         /\ Len(stored') >= Len(stored)
<1>1. stored \in Seq(Nat) /\ queue \in Seq(Nat) /\ Len(log) \in Nat
      /\ J!Numbered(stored, queue, Len(log))
  BY DEF J!TypeOK, J!OrderInv, J!Sequence
<1>2. q \in Seq(Nat) /\ J!Numbered(stored, q, Len(log) + 1)
  BY <1>1, EventWaits
<1>3. Len(log) + 1 \in Nat /\ Len(log) + 1 <= MaxEvents + 1
  BY <1>1, JournalBounds
<1> DEFINE n == Len(log) + 1
<1>4. n \in Nat /\ n <= MaxEvents + 1 /\ J!Numbered(stored, q, n)
  BY <1>2, <1>3
<1> HIDE DEF n
<1>5. /\ J!Numbered(stored', queue', n)
      /\ queue' \in Seq(Nat) /\ stored' \in Seq(Nat) /\ last' \in 0 .. MaxEvents + 1
      /\ persistTimer' \in BOOLEAN /\ stopped' \in BOOLEAN /\ failures' \in 0 .. MaxFailures
      /\ Len(stored') >= Len(stored)
  BY <1>2, <1>4, StoreKeepsOrder
<1> QED
  BY <1>5 DEF n

\* The queue is stored or kept.
LEMMA FlushKeepsOrder ==
  ASSUME J!TypeOK, J!OrderInv, J!CountInv,
         J!Stored(queue) \/ J!StoreFails(queue, TRUE) \/ J!StoreFails(queue, FALSE)
  PROVE  /\ J!Numbered(stored', queue', Len(log))
         /\ queue' \in Seq(Nat) /\ stored' \in Seq(Nat) /\ last' \in 0 .. MaxEvents + 1
         /\ persistTimer' \in BOOLEAN /\ stopped' \in BOOLEAN /\ failures' \in 0 .. MaxFailures
         /\ Len(stored') >= Len(stored)
         /\ J!Stored(queue) => Len(stored') = Len(log)
<1>1. queue \in Seq(Nat) /\ Len(log) \in Nat /\ Len(log) <= MaxEvents + 1
      /\ J!Numbered(stored, queue, Len(log))
  BY DEF J!TypeOK, J!OrderInv, J!CountInv, J!Sequence
<1> DEFINE n == Len(log)
<1>2. n \in Nat /\ n <= MaxEvents + 1 /\ J!Numbered(stored, queue, n)
  BY <1>1
<1> HIDE DEF n
<1>3. /\ J!Numbered(stored', queue', n)
      /\ queue' \in Seq(Nat) /\ stored' \in Seq(Nat) /\ last' \in 0 .. MaxEvents + 1
      /\ persistTimer' \in BOOLEAN /\ stopped' \in BOOLEAN /\ failures' \in 0 .. MaxFailures
      /\ Len(stored') >= Len(stored)
      /\ J!Stored(queue) => Len(stored') = n
  BY <1>1, <1>2, StoreKeepsOrder
<1> QED
  BY <1>3 DEF n

\* Every step keeps the journal in order and adds at most one event.
LEMMA JournalGrows ==
  ASSUME J!TypeOK, J!OrderInv, J!CountInv, J!Next \/ UNCHANGED journalVars
  PROVE  /\ J!Numbered(stored', queue', Len(log')) /\ J!CountInv'
         /\ log' \in Seq(J!Kinds) /\ Len(log') >= Len(log)
         /\ \A e \in 1 .. Len(log) : log'[e] = log[e]
         /\ queue' \in Seq(Nat) /\ stored' \in Seq(Nat) /\ last' \in 0 .. MaxEvents + 1
         /\ persistTimer' \in BOOLEAN /\ stopped' \in BOOLEAN /\ failures' \in 0 .. MaxFailures
         /\ Len(stored') >= Len(stored)
         /\ worker' \in {"running", "aborted", "final", "record", "ended"}
         /\ worker = "ended" => worker' = "ended"
         /\ resize' \in -1 .. MaxEvents /\ reader' \in {"web", "agent"}
<1> DEFINE Rows ==
             /\ queue' \in Seq(Nat) /\ stored' \in Seq(Nat) /\ last' \in 0 .. MaxEvents + 1
             /\ persistTimer' \in BOOLEAN /\ stopped' \in BOOLEAN /\ failures' \in 0 .. MaxFailures
             /\ Len(stored') >= Len(stored)
           Order(n) == J!Numbered(stored', queue', n)
           Log ==
             /\ log' \in Seq(J!Kinds) /\ Len(log') >= Len(log)
             /\ \A e \in 1 .. Len(log) : log'[e] = log[e]
           Process ==
             /\ worker' \in {"running", "aborted", "final", "record", "ended"}
             /\ worker = "ended" => worker' = "ended"
             /\ resize' \in -1 .. MaxEvents
           Goal == Rows /\ Order(Len(log')) /\ Log /\ Process /\ J!CountInv'
<1>17. reader' \in {"web", "agent"}
  BY DEF J!TypeOK, J!Next, journalVars
<1> SUFFICES Goal
  BY <1>17
<1>1. /\ log \in Seq(J!Kinds) /\ Len(log) \in Nat /\ queue \in Seq(Nat) /\ stored \in Seq(Nat)
      /\ last \in 0 .. MaxEvents + 1 /\ persistTimer \in BOOLEAN /\ stopped \in BOOLEAN
      /\ failures \in 0 .. MaxFailures /\ Len(stored) \in Nat
      /\ worker \in {"running", "aborted", "final", "record", "ended"}
      /\ resize \in -1 .. MaxEvents /\ J!Numbered(stored, queue, Len(log))
      /\ Len(log) <= MaxEvents + 1
      /\ (worker \in {"running", "aborted", "final"} => Len(log) <= MaxEvents)
  BY DEF J!TypeOK, J!OrderInv, J!CountInv, J!Sequence
<1>2. ASSUME UNCHANGED <<log, queue, stored, last, persistTimer, stopped, failures>>, Process,
             worker' \in {"running", "aborted", "final"} => worker \in {"running", "aborted", "final"}
      PROVE  Goal
  BY <1>1, <1>2 DEF J!CountInv, J!Sequence
<1>3. ASSUME J!Stored(queue) \/ J!StoreFails(queue, TRUE) \/ J!StoreFails(queue, FALSE),
             UNCHANGED <<log, worker, resize>>
      PROVE  Goal
  <2>1. Rows /\ Order(Len(log))
    BY <1>3, FlushKeepsOrder
  <2>2. Log /\ Process /\ J!CountInv'
    BY <1>1, <1>3 DEF J!CountInv, J!Sequence
  <2>3. Order(Len(log'))
    BY <2>1, <1>3
  <2> QED
    BY <2>1, <2>2, <2>3
<1>4. ASSUME NEW k \in J!Kinds, log' = Append(log, k), Len(log) <= MaxEvents, Rows, Order(Len(log) + 1),
             Process, worker' \in {"running", "aborted", "final"} => Len(log) + 1 <= MaxEvents
      PROVE  Goal
  <2>1. Log /\ Len(log') = Len(log) + 1
    BY <1>4, LogGrows
  <2>2. Order(Len(log'))
    BY <2>1, <1>4
  <2> HIDE DEF Order, Rows, Process
  <2>3. J!CountInv'
    BY <1>1, <1>4, <2>1, JournalBounds DEF J!CountInv, J!Sequence
  <2> HIDE DEF Log
  <2> QED
    BY <1>4, <2>1, <2>2, <2>3
<1>5. ASSUME NEW k \in J!Kinds, J!Record(k), worker = "running", Len(log) < MaxEvents,
             UNCHANGED resize
      PROVE  Goal
  <2> DEFINE q == Append(queue, Len(log) + 1)
  <2>1. J!Stored(q) \/ J!StoreFails(q, TRUE)
    BY <1>5 DEF J!Record, J!Sequence
  <2>2. Rows /\ Order(Len(log) + 1)
    BY <2>1, <1>1, <1>5, JournalBounds, RecordKeepsOrder
  <2>3. Process /\ log' = Append(log, k)
    BY <1>1, <1>5 DEF J!Record, J!Live
  <2>4. Len(log) + 1 <= MaxEvents /\ Len(log) <= MaxEvents
    BY <1>1, <1>5, JournalBounds
  <2> HIDE DEF Order, Rows, Log, Process, q, Goal
  <2> QED
    BY <1>4, <2>2, <2>3, <2>4
<1>6. CASE J!Output
  <2> DEFINE q == Append(queue, Len(log) + 1)
  <2>1. Len(log) < MaxEvents /\ worker \in {"running", "aborted"} /\ log' = Append(log, "out")
        /\ UNCHANGED resize /\ worker' \in {worker, "aborted"}
    BY <1>6 DEF J!Output, J!Live, J!Sequence
  <2>2. \/ /\ queue' = q /\ persistTimer' = (persistTimer \/ ~J!Aborts(q))
           /\ stopped' = (stopped /\ ~persistTimer') /\ UNCHANGED <<stored, last, failures>>
        \/ J!Stored(q) \/ J!StoreFails(q, TRUE)
    BY <1>6 DEF J!Output, J!Sequence
  <2>3. Rows /\ Order(Len(log) + 1)
    <3>1. CASE /\ queue' = q /\ persistTimer' = (persistTimer \/ ~J!Aborts(q))
               /\ stopped' = (stopped /\ ~persistTimer') /\ UNCHANGED <<stored, last, failures>>
      <4>1. q \in Seq(Nat) /\ J!Numbered(stored, q, Len(log) + 1)
        BY <1>1, EventWaits
      <4>2. persistTimer' \in BOOLEAN
        BY <3>1
      <4>3. stopped' \in BOOLEAN
        BY <3>1
      <4> HIDE DEF q
      <4> QED
        BY <1>1, <3>1, <4>1, <4>2, <4>3
    <3>2. CASE J!Stored(q) \/ J!StoreFails(q, TRUE)
      BY <3>2, <2>1, <1>1, JournalBounds, RecordKeepsOrder
    <3> QED
      BY <2>2, <3>1, <3>2
  <2>4. Process
    BY <2>1, <1>1
  <2>5. Len(log) + 1 <= MaxEvents /\ Len(log) <= MaxEvents /\ "out" \in J!Kinds
    BY <1>1, <2>1, JournalBounds DEF J!Kinds
  <2> HIDE DEF Order, Rows, Log, Process, q, Goal
  <2> QED
    BY <1>4, <2>1, <2>3, <2>4, <2>5
<1>7. CASE J!OperatorInput
  <2>1. worker = "running" /\ Len(log) < MaxEvents /\ J!Record("input") /\ UNCHANGED resize
        /\ "input" \in J!Kinds
    BY <1>7 DEF J!OperatorInput, J!Sequence, J!Kinds
  <2> HIDE DEF Goal
  <2> QED
    BY <1>5, <2>1
<1>8. CASE J!AgentInput
  <2>1. worker = "running" /\ Len(log) < MaxEvents /\ J!Record("agent") /\ UNCHANGED resize
        /\ "agent" \in J!Kinds
    BY <1>8 DEF J!AgentInput, J!Sequence, J!Kinds
  <2> HIDE DEF Goal
  <2> QED
    BY <1>5, <2>1
<1>9. CASE J!FinalStatus
  <2> DEFINE q == Append(queue, Len(log) + 1)
  <2>1. worker = "final" /\ log' = Append(log, "status") /\ worker' = "record" /\ UNCHANGED resize
        /\ (J!Stored(q) \/ J!StoreFails(q, TRUE))
    BY <1>9 DEF J!FinalStatus, J!Sequence
  <2>2. Len(log) <= MaxEvents
    BY <1>1, <2>1
  <2>3. Rows /\ Order(Len(log) + 1)
    BY <2>1, <2>2, <1>1, RecordKeepsOrder
  <2>4. Process /\ "status" \in J!Kinds /\ worker' \notin {"running", "aborted", "final"}
    BY <2>1, <1>1 DEF J!Kinds
  <2> HIDE DEF Order, Rows, Log, Process, q, Goal
  <2> QED
    BY <1>4, <2>1, <2>2, <2>3, <2>4
<1>10. CASE J!TimerFires
  BY <1>3, <1>10 DEF J!TimerFires
<1>11. CASE J!WebFlush \/ J!AgentFlush
  <2>1. UNCHANGED <<log, worker, resize>>
    BY <1>11 DEF J!WebFlush, J!AgentFlush
  <2>2. \/ J!Stored(queue) \/ J!StoreFails(queue, FALSE)
        \/ UNCHANGED <<queue, stored, last, persistTimer, stopped, failures>>
    BY <1>11 DEF J!WebFlush, J!AgentFlush, J!ReaderFlush, J!ReaderFlushFails
  <2>3. Process
    BY <1>1, <2>1
  <2> HIDE DEF Goal, Process
  <2> QED
    BY <1>2, <1>3, <2>1, <2>2, <2>3
<1>12. CASE J!RecordEnd
  <2>1. Rows
    BY <1>1, <1>12, JournalBounds DEF J!RecordEnd, J!Sequence
  <2>2. Order(Len(log'))
    BY <1>1, <1>12 DEF J!RecordEnd
  <2>3. Log /\ Process /\ J!CountInv'
    BY <1>1, <1>12 DEF J!RecordEnd, J!CountInv, J!Sequence
  <2> QED
    BY <2>1, <2>2, <2>3
<1>13. CASE J!WriteResized
  <2>1. Rows
    BY <1>1, <1>13, JournalBounds DEF J!WriteResized
  <2>2. Order(Len(log'))
    BY <1>1, <1>13 DEF J!WriteResized
  <2>3. Log /\ Process /\ J!CountInv'
    BY <1>1, <1>13, JournalBounds DEF J!WriteResized, J!CountInv, J!Sequence
  <2> QED
    BY <2>1, <2>2, <2>3
<1>14. CASE J!CopyForResize
  <2>1. UNCHANGED <<log, queue, stored, last, persistTimer, stopped, failures, worker>>
    BY <1>14 DEF J!CopyForResize, J!journal
  <2>2. Process
    BY <1>1, <1>14, JournalBounds DEF J!CopyForResize, J!Sequence
  <2> HIDE DEF Goal, Process
  <2> QED
    BY <1>2, <2>1, <2>2
<1>15. CASE J!SessionEnds
  BY <1>1, <1>2, <1>15 DEF J!SessionEnds, J!journal, J!Live
<1>16. CASE J!Connect \/ J!WebRow \/ J!WebList \/ J!WebReceive \/ J!Disconnect \/ J!AgentQuery
            \/ J!AgentRow \/ J!AgentPage \/ UNCHANGED journalVars
  <2>1. UNCHANGED <<log, queue, stored, last, persistTimer, stopped, failures, worker, resize>>
    BY <1>16 DEF J!Connect, J!WebRow, J!WebList, J!WebReceive, J!Disconnect, J!AgentQuery,
       J!AgentRow, J!AgentPage, J!Reader, J!journal, journalVars
  <2>2. Process
    BY <1>1, <2>1
  <2> HIDE DEF Goal, Process
  <2> QED
    BY <1>2, <2>1, <2>2
<1> HIDE DEF Goal
<1> QED
  BY <1>6, <1>7, <1>8, <1>9, <1>10, <1>11, <1>12, <1>13, <1>14, <1>15, <1>16
     DEF J!Next, J!Step, J!Write, J!Web, J!Agent, J!Work

-----------------------------------------------------------------------------
(* The web terminal *)

\* What the type invariant says of it.
LEMMA WebTyped ==
  ASSUME J!TypeOK
  PROVE  /\ Len(log) \in Nat /\ Len(stored) \in Nat
         /\ web.pc \in {"off", "flush", "row", "list", "live", "over"}
         /\ web.after \in 0 .. Len(log) /\ web.overflow \in BOOLEAN
         /\ web.got \subseteq 1 .. Len(log)
         /\ web.channel \in Seq(1 .. Len(log)) /\ Len(web.channel) \in Nat
         /\ \A i \in 1 .. Len(web.channel) : web.channel[i] \in 1 .. Len(log)
<1>1. Len(log) \in Nat /\ Len(stored) \in Nat /\ web \in J!WebReader(Len(log))
  BY DEF J!TypeOK, J!Sequence
<1>2. web.channel \in Seq(1 .. Len(log))
  BY <1>1 DEF J!WebReader
<1>3. Len(web.channel) \in Nat /\ \A i \in 1 .. Len(web.channel) : web.channel[i] \in 1 .. Len(log)
  BY <1>2
<1> QED
  BY <1>1, <1>2, <1>3 DEF J!WebReader

\* A terminal that does not move keeps what holds of it in a journal that grew, if it
\* needs no new event: none was added, it is no output, or the terminal lost it.
LEMMA WebWaits ==
  ASSUME J!TypeOK, J!WebInv, NEW w \in {web, [web EXCEPT !.overflow = TRUE]}, web' = w,
         Len(log') \in Nat, Len(log') >= Len(log), Len(stored') \in Nat, Len(stored') >= Len(stored),
         \A e \in 1 .. Len(log) : log'[e] = log[e],
         worker = "ended" => worker' = "ended",
         \/ \A e \in 1 .. Len(log') : e > Len(log) => log'[e] # "out"
         \/ w.overflow
         \/ web.pc \notin {"flush", "row", "list", "live"}
  PROVE  web' \in J!WebReader(Len(log')) /\ J!WebInv'
<1>1. /\ web'.pc = web.pc /\ web'.after = web.after /\ web'.channel = web.channel /\ web'.got = web.got
      /\ web'.overflow \in BOOLEAN /\ (~web'.overflow => ~web.overflow)
      /\ web' = [pc |-> web.pc, after |-> web.after, channel |-> web.channel, overflow |-> web'.overflow,
                 got |-> web.got]
  BY DEF J!TypeOK, J!WebReader
<1>2. web' \in J!WebReader(Len(log'))
  <2>1. web.channel \in Seq(1 .. Len(log'))
    <3>1. 1 .. Len(log) \subseteq 1 .. Len(log')
      BY WebTyped
    <3> QED
      BY <3>1, WebTyped
  <2>2. web.after \in 0 .. Len(log') /\ web.got \subseteq 1 .. Len(log')
    BY WebTyped
  <2> QED
    BY <1>1, <2>1, <2>2, WebTyped DEF J!WebReader
<1>3. ASSUME NEW x \in Nat, NEW y \in Nat, y >= x, J!Follows(x), ~web'.overflow,
             web.pc \in {"flush", "row", "list", "live"}
      PROVE  J!Follows(y)'
  <2>1. ASSUME NEW e \in 1 .. Len(log'), e > y, log'[e] = "out" PROVE e \in J!ToSet(web.channel)
    <3>1. e \in 1 .. Len(log) /\ e > x
      BY <1>1, <1>3, <2>1, WebTyped
    <3> QED
      BY <1>3, <2>1, <3>1 DEF J!Follows, J!Sequence
  <2> QED
    BY <1>1, <2>1 DEF J!Follows, J!Sequence
<1>4. web'.pc \in {"row", "list"} /\ worker' # "ended" /\ ~web'.overflow => J!Follows(Len(stored))'
  BY <1>1, <1>3, WebTyped DEF J!WebInv
<1>5. web'.pc = "live" /\ ~web'.overflow => J!Follows(web.after)'
  BY <1>1, <1>3, WebTyped DEF J!WebInv
<1>6. J!TerminalHasNoGap'
  BY <1>1, WebTyped DEF J!WebInv, J!TerminalHasNoGap, J!Outputs
<1> QED
  BY <1>1, <1>2, <1>4, <1>5, <1>6 DEF J!WebInv

\* A subscriber that finds room gets the new event behind the others.
LEMMA WebHears ==
  ASSUME J!TypeOK, J!WebInv, NEW k \in J!Kinds, log' = Append(log, k),
         web' = [web EXCEPT !.channel = Append(@, Len(log) + 1)],
         Len(stored') \in Nat, Len(stored') >= Len(stored), worker = "ended" => worker' = "ended"
  PROVE  web' \in J!WebReader(Len(log')) /\ J!WebInv'
<1> DEFINE n == Len(log)
           c == web.channel
           m == Len(c)
           d == Append(c, n + 1)
<1>1. n \in Nat /\ Len(log') = n + 1 /\ \A e \in 1 .. n : log'[e] = log[e]
  BY LogGrows
<1>2. m \in Nat /\ \A i \in 1 .. m : c[i] \in 1 .. n
  BY WebTyped
<1>3. Len(d) = m + 1 /\ d[m + 1] = n + 1 /\ \A i \in 1 .. m : d[i] = c[i]
  BY WebTyped
<1>4. d \in Seq(1 .. n + 1)
  <2>1. 1 .. n \subseteq 1 .. n + 1 /\ n + 1 \in 1 .. n + 1
    BY <1>1
  <2>2. c \in Seq(1 .. n + 1)
    BY <2>1, WebTyped
  <2> QED
    BY <2>1, <2>2
<1>5. /\ web'.pc = web.pc /\ web'.after = web.after /\ web'.channel = d /\ web'.got = web.got
      /\ web'.overflow = web.overflow
      /\ web' = [pc |-> web.pc, after |-> web.after, channel |-> d, overflow |-> web.overflow,
                 got |-> web.got]
  BY DEF J!TypeOK, J!WebReader
<1>6. web' \in J!WebReader(Len(log'))
  <2>1. web.after \in 0 .. n + 1 /\ web.got \subseteq 1 .. n + 1
    BY WebTyped
  <2> HIDE DEF d, n
  <2> QED
    BY <1>1, <1>4, <1>5, <2>1, WebTyped DEF J!WebReader
<1>7. \A i \in DOMAIN c : c[i] \in J!ToSet(d)
  <2>1. DOMAIN c = 1 .. m /\ DOMAIN d = 1 .. m + 1
    BY <1>3, <1>4, WebTyped
  <2> HIDE DEF c, d, m
  <2> QED
    BY <1>2, <1>3, <2>1 DEF J!ToSet
<1>8. n + 1 \in J!ToSet(d)
  <2>1. DOMAIN d = 1 .. m + 1
    BY <1>3, <1>4
  <2> HIDE DEF c, d, m, n
  <2> QED
    BY <1>2, <1>3, <2>1 DEF J!ToSet
<1>9. J!ToSet(c) \subseteq J!ToSet(d)
  BY <1>7 DEF J!ToSet
<1>10. ASSUME NEW i \in 1 .. m + 1, NEW j \in 1 .. m + 1, i < j PROVE d[i] < d[j]
  <2>1. i \in 1 .. m /\ d[i] = c[i] /\ c[i] \in 1 .. n
    BY <1>2, <1>3, <1>10
  <2>2. CASE j = m + 1
    <3> HIDE DEF d, c, m, n
    <3> QED
      BY <1>1, <1>3, <2>1, <2>2
  <2>3. CASE j # m + 1
    <3>1. j \in 1 .. m /\ d[j] = c[j]
      BY <1>2, <1>3, <1>10, <2>3
    <3>2. c[i] < c[j]
      BY <1>10, <2>1, <3>1 DEF J!WebInv
    <3> QED
      BY <2>1, <3>1, <3>2
  <2> QED
    BY <2>2, <2>3
<1> HIDE DEF n, c, m, d
<1>11. ASSUME NEW x \in Nat, NEW y \in Nat, y >= x, J!Follows(x) PROVE J!Follows(y)'
  <2>1. ASSUME NEW e \in 1 .. n + 1, e > y, log'[e] = "out" PROVE e \in J!ToSet(d)
    <3>1. CASE e = n + 1
      BY <1>8, <3>1
    <3>2. CASE e # n + 1
      <4>1. e \in 1 .. n /\ e > x /\ log[e] = "out"
        BY <1>1, <1>11, <2>1, <3>2
      <4>2. e \in J!ToSet(c)
        BY <1>11, <4>1 DEF J!Follows, J!Sequence, c, n
      <4> QED
        BY <1>9, <4>2
    <3> QED
      BY <3>1, <3>2
  <2> QED
    BY <1>1, <1>5, <2>1 DEF J!Follows, J!Sequence
<1>12. \A i, j \in 1 .. Len(web'.channel) : i < j => web'.channel[i] < web'.channel[j]
  BY <1>3, <1>5, <1>10
<1>13. web'.pc \in {"row", "list"} /\ worker' # "ended" /\ ~web'.overflow => J!Follows(Len(stored))'
  BY <1>5, <1>11, WebTyped DEF J!WebInv
<1>14. web'.pc = "live" /\ ~web'.overflow => J!Follows(web.after)'
  BY <1>5, <1>11, WebTyped DEF J!WebInv
<1>15. J!TerminalHasNoGap'
  BY <1>1, <1>5, WebTyped DEF J!WebInv, J!TerminalHasNoGap, J!Outputs, n
<1> QED
  BY <1>6, <1>12, <1>13, <1>14, <1>15 DEF J!WebInv

\* The rows after n are those from the next number on.
LEMMA RowsAfter ==
  ASSUME J!TypeOK, J!OrderInv, NEW n \in Nat
  PROVE  /\ J!After(n) \in Seq(1 .. Len(stored))
         /\ Len(J!After(n)) = IF n < Len(stored) THEN Len(stored) - n ELSE 0
         /\ \A i \in 1 .. Len(J!After(n)) : J!After(n)[i] = n + i
<1> DEFINE k == Len(stored)
           from == {i \in 1 .. k + 1 : i <= k => stored[i] > n}
           f == IF n < k THEN n + 1 ELSE k + 1
<1>1. k \in Nat /\ stored \in Seq(Nat) /\ \A i \in 1 .. k : stored[i] = i
  BY DEF J!TypeOK, J!OrderInv, J!Numbered
<1>2. f \in 1 .. k + 1 /\ f \in from /\ \A i \in from : f <= i
  <2> HIDE DEF k
  <2>1. f \in 1 .. k + 1
    BY <1>1
  <2>2. ASSUME f <= k PROVE stored[f] > n
    <3>1. f = n + 1 /\ f \in 1 .. k
      BY <1>1, <2>2
    <3> HIDE DEF f
    <3>2. stored[f] = f
      BY <1>1, <3>1
    <3> QED
      BY <3>1, <3>2
  <2>3. ASSUME NEW i \in from PROVE f <= i
    <3>1. i \in 1 .. k + 1 /\ (i <= k => stored[i] > n)
      OBVIOUS
    <3>2. i = k + 1 \/ (i \in 1 .. k /\ i > n)
      <4>1. CASE i = k + 1
        BY <4>1
      <4>2. CASE i # k + 1
        <5>1. i \in 1 .. k
          BY <1>1, <3>1, <4>2
        <5> QED
          BY <1>1, <3>1, <5>1
      <4> QED
        BY <4>1, <4>2
    <3> QED
      BY <1>1, <3>1, <3>2
  <2> QED
    BY <2>1, <2>2, <2>3
<1>3. \A i \in from : i \in Nat
  BY <1>1
<1>4. J!Min(from) = f
  <2> HIDE DEF from, f
  <2>1. \A x \in from : (\A y \in from : x <= y) => x = f
    BY <1>2, <1>3
  <2> QED
    BY <1>2, <2>1 DEF J!Min
<1>5. J!After(n) = SubSeq(stored, f, k)
  BY <1>4 DEF J!After
<1>6. f \in 1 .. k + 1 /\ k - f + 1 = (IF n < k THEN k - n ELSE 0) /\ (n < k => f = n + 1)
  <2> HIDE DEF k
  <2>1. CASE n < k
    BY <1>1, <2>1
  <2>2. CASE ~(n < k)
    BY <1>1, <2>2
  <2> QED
    BY <2>1, <2>2
<1> DEFINE r == SubSeq(stored, f, k)
<1> HIDE DEF f
<1>7. r \in Seq(1 .. k) /\ Len(r) = k - f + 1 /\ \A i \in 1 .. Len(r) : r[i] = f + i - 1
  <2> HIDE DEF k
  <2>1. f \in Int /\ k \in Int
    BY <1>1, <1>6
  <2>2. \A i \in f .. k : stored[i] \in 1 .. k /\ stored[i] = i
    BY <1>1, <1>6
  <2>3. /\ r \in Seq(1 .. k)
        /\ Len(r) = IF f <= k THEN k - f + 1 ELSE 0
        /\ \A i \in 1 .. k - f + 1 : r[i] = stored[f + i - 1]
    BY <2>1, <2>2, SubSeqProperties
  <2>4. Len(r) = k - f + 1
    BY <1>1, <1>6, <2>3
  <2>5. \A i \in 1 .. k - f + 1 : f + i - 1 \in f .. k
    BY <1>1, <1>6
  <2> QED
    BY <2>2, <2>3, <2>4, <2>5
<1> HIDE DEF r, k
<1>8. ASSUME NEW i \in 1 .. Len(r) PROVE r[i] = n + i
  <2>1. n < k
    BY <1>1, <1>6, <1>7, <1>8
  <2>2. r[i] = f + i - 1 /\ f = n + 1
    BY <1>6, <1>7, <2>1
  <2> QED
    BY <2>2
<1>9. Len(r) = IF n < k THEN k - n ELSE 0
  BY <1>6, <1>7
<1> QED
  BY <1>5, <1>7, <1>8, <1>9 DEF k, r

\* Sending the events r, and going on with the channel d, leaves no gap.
Continues(r, p, d) ==
  /\ r \in Seq(1 .. Len(log)) /\ d \in Seq(1 .. Len(log)) /\ p \in {"live", "over"}
  /\ r # <<>> => r[Len(r)] >= web.after
  /\ \A e \in 1 .. Len(log) :
        log[e] = "out" /\ e > web.after /\ r # <<>> /\ e <= r[Len(r)] => \E i \in 1 .. Len(r) : r[i] = e
  /\ \A i, j \in 1 .. Len(d) : i < j => d[i] < d[j]
  /\ p = "live" /\ ~web.overflow =>
        \A e \in 1 .. Len(log) :
           log[e] = "out" /\ e > (IF r = <<>> THEN web.after ELSE r[Len(r)])
              => \E i \in 1 .. Len(d) : d[i] = e

\* What is sent is marked as seen, and the channel goes on from it.
LEMMA WebShows ==
  ASSUME J!TypeOK, J!OrderInv, J!WebInv, NEW r, NEW p, NEW d, Continues(r, p, d),
         web' = [J!Send(r, p) EXCEPT !.channel = d], UNCHANGED <<log, stored, worker>>
  PROVE  web' \in J!WebReader(Len(log')) /\ J!WebInv'
<1>0. r \in Seq(1 .. Len(log)) /\ d \in Seq(1 .. Len(log)) /\ p \in {"live", "over"}
  BY DEF Continues
<1> DEFINE a == IF r = <<>> THEN web.after ELSE r[Len(r)]
           g == web.got \cup J!ToSet(r)
<1>1. Len(r) \in Nat /\ DOMAIN r = 1 .. Len(r) /\ (r # <<>> => Len(r) \in 1 .. Len(r))
      /\ \A i \in 1 .. Len(r) : r[i] \in 1 .. Len(log)
  BY <1>0
<1>2. a \in 0 .. Len(log) /\ a >= web.after
  BY <1>1, WebTyped DEF Continues
<1>3. g \subseteq 1 .. Len(log) /\ \A i \in 1 .. Len(r) : r[i] \in g
  BY <1>1, WebTyped DEF J!ToSet
<1>4. /\ web'.pc = p /\ web'.after = a /\ web'.channel = d /\ web'.got = g
      /\ web'.overflow = web.overflow
      /\ web' = [pc |-> p, after |-> a, channel |-> d, overflow |-> web.overflow, got |-> g]
  BY DEF J!TypeOK, J!WebReader, J!Send, J!Last
<1>5. web' \in J!WebReader(Len(log'))
  <2> HIDE DEF a, g
  <2> QED
    BY <1>0, <1>2, <1>3, <1>4, WebTyped DEF J!WebReader
<1>6. ASSUME NEW e \in 1 .. a, log[e] = "out" PROVE e \in g
  <2>1. CASE e <= web.after
    BY <1>2, <1>6, <2>1, WebTyped DEF J!WebInv, J!TerminalHasNoGap, J!Outputs
  <2>2. CASE ~(e <= web.after)
    <3>1. r # <<>> /\ e \in 1 .. Len(log) /\ e > web.after /\ e <= r[Len(r)]
      BY <1>2, <1>6, <2>2, WebTyped
    <3>2. \E i \in 1 .. Len(r) : r[i] = e
      BY <1>6, <3>1 DEF Continues
    <3> QED
      BY <1>3, <3>2
  <2> QED
    BY <2>1, <2>2
<1>7. J!TerminalHasNoGap'
  <2> HIDE DEF a, g
  <2> QED
    BY <1>4, <1>6 DEF J!TerminalHasNoGap, J!Outputs
<1>8. ASSUME p = "live", ~web.overflow, NEW e \in 1 .. Len(log), log[e] = "out", e > a
      PROVE  e \in J!ToSet(d)
  <2>1. \E i \in 1 .. Len(d) : d[i] = e
    BY <1>8 DEF Continues
  <2>2. DOMAIN d = 1 .. Len(d)
    BY <1>0
  <2> QED
    BY <2>1, <2>2 DEF J!ToSet
<1>9. web'.pc = "live" /\ ~web'.overflow => J!Follows(web.after)'
  <2> HIDE DEF a, g
  <2> QED
    BY <1>4, <1>8 DEF J!Follows, J!Sequence
<1>10. \A i, j \in 1 .. Len(d) : i < j => d[i] < d[j]
  BY DEF Continues
<1> HIDE DEF a, g
<1> QED
  BY <1>0, <1>4, <1>5, <1>7, <1>9, <1>10 DEF J!WebInv

\* The steps of the terminal.
LEMMA WebMoves ==
  ASSUME J!IInv, J!Connect \/ J!WebFlush \/ J!WebRow \/ J!WebList \/ J!WebReceive \/ J!Disconnect
  PROVE  web' \in J!WebReader(Len(log')) /\ J!WebInv'
<1> USE DEF J!IInv
<1>1. /\ web.pc \in {"off", "flush", "row", "list", "live", "over"} /\ web.after \in 0 .. Len(log)
      /\ web.channel \in Seq(1 .. Len(log)) /\ web.overflow \in BOOLEAN /\ web.got \subseteq 1 .. Len(log)
      /\ web = [pc |-> web.pc, after |-> web.after, channel |-> web.channel,
                overflow |-> web.overflow, got |-> web.got]
  BY DEF J!TypeOK, J!WebReader, J!Sequence
<1>2. <<>> \in Seq(1 .. Len(log)) /\ Len(<<>>) = 0
  OBVIOUS
<1>3. ASSUME NEW p \in {"off", "flush", "row"}, NEW d \in {web.channel, <<>>}, NEW b \in BOOLEAN,
             web' = [web EXCEPT !.pc = p, !.channel = d, !.overflow = b],
             UNCHANGED log, p = "row" /\ worker' # "ended" => Len(stored') = Len(log)
      PROVE  web' \in J!WebReader(Len(log')) /\ J!WebInv'
  <2>1. /\ web'.pc = p /\ web'.after = web.after /\ web'.channel = d /\ web'.got = web.got
        /\ web' = [pc |-> p, after |-> web.after, channel |-> d, overflow |-> b, got |-> web.got]
    BY <1>1, <1>3
  <2>2. web' \in J!WebReader(Len(log'))
    BY <1>1, <1>2, <1>3, <2>1 DEF J!WebReader
  <2>3. \A i, j \in 1 .. Len(web'.channel) : i < j => web'.channel[i] < web'.channel[j]
    <3>1. CASE d = <<>>
      BY <1>2, <2>1, <3>1
    <3>2. CASE d = web.channel
      BY <2>1, <3>2 DEF J!WebInv
    <3> QED
      BY <3>1, <3>2
  <2>4. web'.pc = "row" /\ worker' # "ended" => J!Follows(Len(stored))'
    BY <1>3, <2>1, WebTyped DEF J!Follows, J!Sequence
  <2>5. J!TerminalHasNoGap'
    BY <1>3, <2>1 DEF J!WebInv, J!TerminalHasNoGap, J!Outputs
  <2> QED
    BY <2>1, <2>2, <2>3, <2>4, <2>5 DEF J!WebInv
<1>4. CASE J!Connect
  <2>1. web' = [web EXCEPT !.pc = "flush", !.channel = <<>>, !.overflow = FALSE] /\ UNCHANGED log
    BY <1>4 DEF J!Connect, J!Reader, J!journal
  <2> QED
    BY <1>3, <2>1
<1>5. CASE J!Disconnect
  <2>1. web' = [web EXCEPT !.pc = "off", !.channel = <<>>, !.overflow = web.overflow] /\ UNCHANGED log
    BY <1>1, <1>5 DEF J!Disconnect, J!Reader, J!journal
  <2> QED
    BY <1>1, <1>3, <2>1
<1>6. CASE J!WebFlush
  <2>1. UNCHANGED <<log, worker>>
    BY <1>6 DEF J!WebFlush
  <2>2. CASE J!ReaderFlush /\ web' = [web EXCEPT !.pc = "row"]
    <3>1. web' = [web EXCEPT !.pc = "row", !.channel = web.channel, !.overflow = web.overflow]
      BY <1>1, <2>2
    <3>2. worker # "ended" => J!Stored(queue)
      BY <2>2 DEF J!ReaderFlush
    <3>3. worker' # "ended" => Len(stored') = Len(log)
      BY <2>1, <3>2, FlushKeepsOrder
    <3> QED
      BY <1>1, <1>3, <2>1, <3>1, <3>3
  <2>3. CASE web' = [web EXCEPT !.pc = "off"]
    <3>1. web' = [web EXCEPT !.pc = "off", !.channel = web.channel, !.overflow = web.overflow]
      BY <1>1, <2>3
    <3> QED
      BY <1>1, <1>3, <2>1, <3>1
  <2> QED
    BY <1>6, <2>2, <2>3 DEF J!WebFlush
<1>7. CASE J!WebRow
  <2>1. UNCHANGED <<log, stored, worker>> /\ web.pc = "row"
    BY <1>7 DEF J!WebRow, J!Reader, J!journal
  <2>2. CASE web' = [web EXCEPT !.pc = "off"]
    <3>1. web' = [web EXCEPT !.pc = "off", !.channel = web.channel, !.overflow = web.overflow]
      BY <1>1, <2>2
    <3> QED
      BY <1>1, <1>3, <2>1, <3>1
  <2>3. CASE web' = [web EXCEPT !.pc = "list"]
    <3>1. /\ web'.pc = "list" /\ web'.after = web.after /\ web'.channel = web.channel
          /\ web'.got = web.got /\ web'.overflow = web.overflow /\ web' \in J!WebReader(Len(log'))
      BY <2>1, <2>3 DEF J!TypeOK, J!WebReader, J!Sequence
    <3>2. worker' # "ended" /\ ~web'.overflow => J!Follows(Len(stored))'
      BY <2>1, <3>1 DEF J!WebInv, J!Follows, J!Sequence
    <3>3. J!TerminalHasNoGap'
      BY <2>1, <3>1 DEF J!WebInv, J!TerminalHasNoGap, J!Outputs
    <3> QED
      BY <3>1, <3>2, <3>3 DEF J!WebInv
  <2> QED
    BY <1>7, <2>2, <2>3 DEF J!WebRow
<1>8. CASE J!WebList
  <2>1. PICK r : r = J!After(web.after)
    OBVIOUS
  <2>2. PICK p \in {"live", "over"} : p = IF worker = "ended" THEN "over" ELSE "live"
    OBVIOUS
  <2>3. UNCHANGED <<log, stored, worker>> /\ web.pc = "list" /\ web' = J!Send(r, p)
    BY <1>8, <2>1, <2>2 DEF J!WebList, J!Reader, J!journal
  <2>4. web' = [J!Send(r, p) EXCEPT !.channel = web.channel]
    BY <1>1, <2>3 DEF J!Send
  <2>5. PICK a : a = web.after
    OBVIOUS
  <2>6. PICK k : k = Len(stored)
    OBVIOUS
  <2>7. /\ r \in Seq(1 .. k) /\ Len(r) = (IF a < k THEN k - a ELSE 0)
        /\ \A i \in 1 .. Len(r) : r[i] = a + i
    BY <1>1, <2>1, <2>5, <2>6, RowsAfter
  <2>8. k \in Nat /\ a \in Nat /\ Len(log) \in Nat /\ 1 .. k \subseteq 1 .. Len(log)
    BY <2>5, <2>6, WebTyped DEF J!OrderInv, J!Numbered, J!Sequence, J!TypeOK
  <2>9. r \in Seq(1 .. Len(log))
    <3> DEFINE A == 1 .. k
               B == 1 .. Len(log)
    <3>1. r \in Seq(A) /\ A \subseteq B
      BY <2>7, <2>8
    <3> HIDE DEF A, B
    <3>2. r \in Seq(B)
      BY <3>1
    <3> QED
      BY <3>2 DEF B
  <2>14. r # <<>> => Len(r) \in 1 .. Len(r) /\ Len(r) # 0
    BY <2>9
  <2>15. r = <<>> => k <= a
    <3>1. r = <<>> => Len(r) = 0
      BY <1>2
    <3> QED
      BY <2>7, <2>8, <3>1
  <2>16. r # <<>> => a < k /\ Len(r) = k - a
    BY <2>7, <2>14
  <2>17. r # <<>> => r[Len(r)] = k
    BY <2>7, <2>8, <2>14, <2>16
  <2>10. ASSUME NEW e \in 1 .. Len(log), e > web.after, r # <<>>, e <= r[Len(r)]
         PROVE  \E i \in 1 .. Len(r) : r[i] = e
    <3>1. e \in Nat /\ e > a /\ e <= k
      BY <2>5, <2>8, <2>10, <2>17
    <3>2. e - a \in 1 .. Len(r) /\ a + (e - a) = e
      BY <2>8, <2>10, <2>16, <3>1
    <3>3. r[e - a] = e
      BY <2>7, <3>2
    <3> QED
      BY <3>2, <3>3
  <2>11. ASSUME p = "live", ~web.overflow, NEW e \in 1 .. Len(log), log[e] = "out",
                e > (IF r = <<>> THEN web.after ELSE r[Len(r)])
         PROVE  \E i \in 1 .. Len(web.channel) : web.channel[i] = e
    <3>1. e > Len(stored)
      <4>1. CASE r = <<>>
        BY <2>5, <2>6, <2>8, <2>11, <2>15, <4>1
      <4>2. CASE r # <<>>
        BY <2>6, <2>11, <2>17, <4>2
      <4> QED
        BY <4>1, <4>2
    <3>2. J!Follows(Len(stored))
      BY <2>2, <2>3, <2>11 DEF J!WebInv
    <3>3. e \in J!ToSet(web.channel)
      BY <2>11, <3>1, <3>2 DEF J!Follows, J!Sequence
    <3>4. DOMAIN web.channel = 1 .. Len(web.channel)
      BY <1>1
    <3> QED
      BY <3>3, <3>4 DEF J!ToSet
  <2>12. r # <<>> => r[Len(r)] >= web.after
    BY <2>5, <2>8, <2>16, <2>17
  <2>13. \A i, j \in 1 .. Len(web.channel) : i < j => web.channel[i] < web.channel[j]
    BY DEF J!WebInv
  <2> QED
    <3>1. Continues(r, p, web.channel)
      BY <1>1, <2>9, <2>10, <2>11, <2>12, <2>13 DEF Continues
    <3> QED
      BY <2>3, <2>4, <3>1, WebShows
<1>9. CASE J!WebReceive
  <2>1. PICK c : c = web.channel
    OBVIOUS
  <2>2. PICK n : n = Head(c)
    OBVIOUS
  <2>3. PICK d : d = Tail(c)
    OBVIOUS
  <2>4. UNCHANGED <<log, stored, worker>> /\ web.pc = "live" /\ c # <<>> /\ ~web.overflow
    BY <1>9, <2>1 DEF J!WebReceive, J!Reader, J!journal
  <2>5. /\ c \in Seq(1 .. Len(log)) /\ Len(c) \in Nat /\ Len(c) >= 1
        /\ n = c[1] /\ d \in Seq(1 .. Len(log)) /\ Len(d) = Len(c) - 1
        /\ \A i \in 1 .. Len(d) : d[i] = c[i + 1]
    BY <1>1, <2>1, <2>2, <2>3, <2>4
  <2>6. \A i, j \in 1 .. Len(c) : i < j => c[i] < c[j]
    BY <2>1 DEF J!WebInv
  <2>7. \A i, j \in 1 .. Len(d) : i < j => d[i] < d[j]
    <3> SUFFICES ASSUME NEW i \in 1 .. Len(d), NEW j \in 1 .. Len(d), i < j PROVE d[i] < d[j]
      OBVIOUS
    <3>1. i + 1 \in 1 .. Len(c) /\ j + 1 \in 1 .. Len(c) /\ i + 1 < j + 1
      BY <2>5
    <3>2. c[i + 1] < c[j + 1]
      BY <2>6, <3>1
    <3> QED
      BY <2>5, <3>2
  <2>8. n \in 1 .. Len(log) /\ Len(log) \in Nat /\ web.after \in 0 .. Len(log)
    <3>1. 1 \in 1 .. Len(c)
      BY <2>5
    <3> QED
      BY <1>1, <2>5, <3>1, WebTyped
  <2>9. ASSUME NEW e \in 1 .. Len(log), log[e] = "out", e > web.after
        PROVE  e = n \/ (e > n /\ \E i \in 1 .. Len(d) : d[i] = e)
    <3>1. e \in J!ToSet(c)
      BY <2>1, <2>4, <2>9 DEF J!WebInv, J!Follows, J!Sequence
    <3>2. PICK i \in 1 .. Len(c) : c[i] = e
      BY <2>5, <3>1 DEF J!ToSet
    <3>3. CASE i = 1
      BY <2>5, <3>2, <3>3
    <3>4. CASE i # 1
      <4>1. i - 1 \in 1 .. Len(d) /\ 1 \in 1 .. Len(c) /\ 1 < i /\ (i - 1) + 1 = i
        BY <2>5, <3>2, <3>4
      <4>2. d[i - 1] = e
        BY <2>5, <3>2, <4>1
      <4>3. c[1] < c[i]
        BY <2>6, <3>2, <4>1
      <4> QED
        BY <2>5, <2>8, <3>2, <4>1, <4>2, <4>3
    <3> QED
      BY <3>3, <3>4
  <2>10. CASE n <= web.after
    <3>1. web' = [web EXCEPT !.channel = d]
      BY <1>9, <2>1, <2>2, <2>3, <2>10 DEF J!WebReceive
    <3>2. web' = [J!Send(<<>>, "live") EXCEPT !.channel = d]
      <4>1. J!ToSet(<<>>) = {}
        BY DEF J!ToSet
      <4> QED
        BY <1>1, <2>4, <3>1, <4>1 DEF J!Send
    <3>3. \A e \in 1 .. Len(log) : log[e] = "out" /\ e > web.after => \E i \in 1 .. Len(d) : d[i] = e
      BY <2>8, <2>9, <2>10
    <3>4. <<>> \in Seq(1 .. Len(log))
      OBVIOUS
    <3>5. Continues(<<>>, "live", d)
      BY <2>5, <2>7, <3>3, <3>4 DEF Continues
    <3> QED
      BY <2>4, <3>2, <3>5, WebShows
  <2>11. CASE ~(n <= web.after)
    <3>1. PICK p \in {"live", "over"} : p = IF log[n] = "status" THEN "over" ELSE "live"
      OBVIOUS
    <3>2. web' = [J!Send(<<n>>, p) EXCEPT !.channel = d]
      BY <1>1, <1>9, <2>1, <2>2, <2>3, <2>11, <3>1 DEF J!WebReceive, J!Send
    <3>3. PICK r : r = <<n>>
      OBVIOUS
    <3>4. r \in Seq(1 .. Len(log)) /\ Len(r) = 1 /\ r[1] = n /\ r # <<>>
      BY <2>8, <3>3
    <3>5. r[Len(r)] >= web.after
      BY <2>8, <2>11, <3>4
    <3>6. ASSUME NEW e \in 1 .. Len(log), log[e] = "out", e > web.after, e <= r[Len(r)]
          PROVE  \E i \in 1 .. Len(r) : r[i] = e
      <4>1. e = n
        BY <2>8, <2>9, <3>4, <3>6
      <4> QED
        BY <3>4, <4>1
    <3>7. ASSUME NEW e \in 1 .. Len(log), log[e] = "out", e > r[Len(r)]
          PROVE  \E i \in 1 .. Len(d) : d[i] = e
      BY <2>8, <2>9, <2>11, <3>4, <3>7
    <3>8. Continues(r, p, d)
      BY <2>5, <2>7, <3>4, <3>5, <3>6, <3>7 DEF Continues
    <3> QED
      BY <2>4, <3>2, <3>3, <3>8, WebShows
  <2> QED
    BY <2>10, <2>11
<1> QED
  BY <1>4, <1>5, <1>6, <1>7, <1>8, <1>9

\* Whatever happens, the terminal stays without a gap.
LEMMA WebStep ==
  ASSUME J!IInv, J!Next \/ UNCHANGED journalVars
  PROVE  web' \in J!WebReader(Len(log')) /\ J!WebInv'
<1> USE DEF J!IInv
<1> DEFINE Goal == web' \in J!WebReader(Len(log')) /\ J!WebInv'
<1> SUFFICES Goal
  OBVIOUS
<1>1. /\ Len(log) \in Nat /\ Len(log') \in Nat /\ Len(log') >= Len(log)
      /\ \A e \in 1 .. Len(log) : log'[e] = log[e]
      /\ Len(stored') \in Nat /\ Len(stored') >= Len(stored)
      /\ worker = "ended" => worker' = "ended"
  <2>1. log \in Seq(J!Kinds) /\ log' \in Seq(J!Kinds) /\ stored' \in Seq(Nat)
    BY JournalGrows DEF J!TypeOK
  <2> QED
    BY <2>1, JournalGrows
<1>2. ASSUME web' = web, UNCHANGED log PROVE Goal
  BY <1>1, <1>2, WebWaits
<1>3. ASSUME web' = web, NEW k \in J!Kinds, log' = Append(log, k), k # "out" PROVE Goal
  <2>1. Len(log') = Len(log) + 1 /\ log'[Len(log) + 1] = k
    BY <1>3, LogGrows
  <2>2. \A e \in 1 .. Len(log') : e > Len(log) => log'[e] # "out"
    BY <1>1, <1>3, <2>1
  <2> QED
    BY <1>1, <1>3, <2>2, WebWaits
<1>4. ASSUME NEW k \in J!Kinds, log' = Append(log, k), J!Publish(Len(log) + 1) PROVE Goal
  <2>1. CASE web' = [web EXCEPT !.channel = Append(@, Len(log) + 1)]
    BY <1>1, <1>4, <2>1, WebHears
  <2>2. CASE web' = [web EXCEPT !.overflow = TRUE]
    <3>1. [web EXCEPT !.overflow = TRUE].overflow
      BY DEF J!TypeOK, J!WebReader
    <3> QED
      BY <1>1, <2>2, <3>1, WebWaits
  <2>3. CASE web' = web /\ web.pc \notin {"flush", "row", "list", "live"}
    BY <1>1, <2>3, WebWaits
  <2> QED
    BY <1>4, <2>1, <2>2, <2>3 DEF J!Publish, J!Subscribed
<1>5. ASSUME NEW k \in J!Kinds, k # "out", J!Record(k) PROVE Goal
  <2>1. log' = Append(log, k) /\ (J!Publish(Len(log) + 1) \/ web' = web)
    BY <1>5 DEF J!Record, J!Sequence
  <2> HIDE DEF Goal
  <2> QED
    BY <1>3, <1>4, <1>5, <2>1
<1>6. CASE J!Output
  <2>1. log' = Append(log, "out") /\ J!Publish(Len(log) + 1) /\ "out" \in J!Kinds
    BY <1>6 DEF J!Output, J!Sequence, J!Kinds
  <2> HIDE DEF Goal
  <2> QED
    BY <1>4, <2>1
<1>7. CASE J!OperatorInput \/ J!AgentInput
  <2>1. (J!Record("input") \/ J!Record("agent")) /\ {"input", "agent"} \subseteq J!Kinds
    BY <1>7 DEF J!OperatorInput, J!AgentInput, J!Kinds
  <2> HIDE DEF Goal
  <2> QED
    BY <1>5, <2>1
<1>8. CASE J!FinalStatus
  <2>1. /\ log' = Append(log, "status") /\ (J!Publish(Len(log) + 1) \/ web' = web)
        /\ "status" \in J!Kinds
    BY <1>8 DEF J!FinalStatus, J!Sequence, J!Kinds
  <2> HIDE DEF Goal
  <2> QED
    BY <1>3, <1>4, <2>1
<1>9. CASE J!TimerFires \/ J!SessionEnds \/ J!RecordEnd \/ J!WriteResized \/ J!CopyForResize
           \/ J!AgentQuery \/ J!AgentFlush \/ J!AgentRow \/ J!AgentPage \/ UNCHANGED journalVars
  <2>1. UNCHANGED <<log, web>>
    BY <1>9 DEF J!TimerFires, J!SessionEnds, J!RecordEnd, J!WriteResized, J!CopyForResize,
       J!AgentQuery, J!AgentFlush, J!AgentRow, J!AgentPage, J!Reader, J!journal, journalVars
  <2> QED
    BY <1>2, <2>1
<1>10. CASE J!Connect \/ J!WebFlush \/ J!WebRow \/ J!WebList \/ J!WebReceive \/ J!Disconnect
  BY <1>10, WebMoves
<1> HIDE DEF Goal
<1> QED
  BY <1>6, <1>7, <1>8, <1>9, <1>10 DEF J!Next, J!Step, J!Write, J!Web, J!Agent, J!Work

-----------------------------------------------------------------------------
(* The agent *)

\* A finite set of numbers has a largest one.
LEMMA LargestNumber ==
  ASSUME NEW n \in Nat, NEW M, M \subseteq 0 .. n, M # {}
  PROVE  J!Max(M) \in M /\ \A x \in M : J!Max(M) >= x
<1> DEFINE D == {n - x : x \in M}
<1>1. D \subseteq Nat /\ D # {}
  <2>1. \A x \in M : n - x \in Nat
    OBVIOUS
  <2>2. D \subseteq Nat
    BY <2>1
  <2>3. PICK x \in M : TRUE
    OBVIOUS
  <2>4. n - x \in D
    BY <2>3
  <2> QED
    BY <2>2, <2>4
<1>2. PICK d \in D : \A e \in D : d <= e
  <2> DEFINE Less == {p \in Nat \X Nat : p[1] < p[2]}
  <2>1. IsWellFoundedOn(Less, Nat)
    BY NatLessThanWellFounded DEF OpToRel
  <2> HIDE DEF D, Less
  <2>2. PICK d \in D : \A e \in D : ~ (<<e, d>> \in Less)
    BY <1>1, <2>1, WFMin
  <2>3. ASSUME NEW e \in D PROVE d <= e
    <3>1. d \in Nat /\ e \in Nat /\ <<e, d>> \in Nat \X Nat
      BY <1>1
    <3>2. ~ (<<e, d>> \in Less)
      BY <2>2
    <3>3. ~ (<<e, d>>[1] < <<e, d>>[2])
      BY <3>1, <3>2 DEF Less
    <3>4. ~ (e < d)
      BY <3>3
    <3> QED
      BY <3>1, <3>4
  <2> QED
    BY <2>3
<1>3. PICK m \in M : d = n - m
  BY <1>2
<1>4. \A x \in M : m >= x
  <2> SUFFICES ASSUME NEW x \in M PROVE m >= x
    OBVIOUS
  <2>1. n - x \in D
    OBVIOUS
  <2>2. d <= n - x
    BY <1>2, <2>1
  <2> QED
    BY <1>3, <2>2
<1> QED
  BY <1>4 DEF J!Max

\* Of two numbers it is the larger one.
LEMMA LargerNumber ==
  ASSUME NEW x \in Nat, NEW y \in Nat
  PROVE  J!Max({x, y}) \in {x, y} /\ J!Max({x, y}) >= x /\ J!Max({x, y}) >= y
<1>1. PICK n \in Nat : x <= n /\ y <= n
  <2>1. CASE x <= y
    BY <2>1
  <2>2. CASE ~(x <= y)
    BY <2>2
  <2> QED
    BY <2>1, <2>2
<1>2. {x, y} \subseteq 0 .. n /\ {x, y} # {}
  BY <1>1
<1> QED
  BY <1>2, LargestNumber

\* What the type invariant says of the agent.
LEMMA AgentTyped ==
  ASSUME J!TypeOK
  PROVE  /\ Len(log) \in Nat /\ agent.pc \in {"idle", "flush", "row", "list"}
         /\ agent.after \in 0 .. Len(log) /\ agent.cursor \in 0 .. Len(log)
         /\ agent.skipped \in 0 .. Len(log) /\ agent.got \subseteq 1 .. Len(log)
         /\ agent = [pc |-> agent.pc, after |-> agent.after, cursor |-> agent.cursor,
                     skipped |-> agent.skipped, got |-> agent.got]
  BY DEF J!TypeOK, J!AgentReader, J!Sequence

\* An agent that does not move keeps what holds of it, if its input is not added.
LEMMA AgentWaits ==
  ASSUME J!TypeOK, J!AgentInv, agent' = agent, Len(log') \in Nat, Len(log') >= Len(log),
         \A e \in 1 .. Len(log) : log'[e] = log[e],
         \A e \in 1 .. Len(log') : e > Len(log) => log'[e] # "agent"
  PROVE  agent' \in J!AgentReader(Len(log')) /\ J!AgentInv'
<1>1. agent' \in J!AgentReader(Len(log'))
  BY AgentTyped DEF J!AgentReader
<1>2. \A e \in 1 .. Len(log') : log'[e] = "agent" => e <= agent'.skipped + 1
  <2> SUFFICES ASSUME NEW e \in 1 .. Len(log'), log'[e] = "agent" PROVE e <= agent.skipped + 1
    OBVIOUS
  <2>1. e \in 1 .. Len(log) /\ log[e] = "agent"
    BY AgentTyped
  <2> QED
    BY <2>1 DEF J!AgentInv, J!Sequence
<1>3. agent'.pc # "idle" => J!Outputs(agent.skipped + 1, agent.after)' \subseteq agent'.got
  BY AgentTyped DEF J!AgentInv, J!Outputs
<1>4. J!AgentMissesNothing'
  BY AgentTyped DEF J!AgentInv, J!AgentMissesNothing, J!Outputs
<1> QED
  BY <1>1, <1>2, <1>3, <1>4 DEF J!AgentInv, J!Sequence, J!Outputs

\* Its own input makes it skip what came before.
LEMMA AgentAsks ==
  ASSUME J!TypeOK, J!AgentInv, J!AgentInput
  PROVE  agent' \in J!AgentReader(Len(log')) /\ J!AgentInv'
<1>1. log' = Append(log, "agent")
      /\ agent' = [agent EXCEPT !.pc = "flush", !.after = Len(log), !.skipped = Len(log)]
  BY DEF J!AgentInput, J!Record, J!Sequence
<1>2. Len(log) \in Nat /\ Len(log') = Len(log) + 1
  BY <1>1, LogGrows DEF J!Kinds
<1>3. /\ agent'.pc = "flush" /\ agent'.after = Len(log) /\ agent'.skipped = Len(log)
      /\ agent'.cursor = agent.cursor /\ agent'.got = agent.got
      /\ agent' = [pc |-> "flush", after |-> Len(log), cursor |-> agent.cursor,
                   skipped |-> Len(log), got |-> agent.got]
  BY <1>1, AgentTyped
<1>4. agent' \in J!AgentReader(Len(log'))
  <2>1. /\ Len(log) \in 0 .. Len(log') /\ agent.cursor \in 0 .. Len(log')
        /\ agent.got \subseteq 1 .. Len(log')
    BY <1>2, AgentTyped
  <2> QED
    BY <1>3, <2>1 DEF J!AgentReader
<1>5. \A e \in 1 .. Len(log') : e <= agent'.skipped + 1
  BY <1>2, <1>3
<1>6. J!Outputs(agent.skipped + 1, agent.after)' = {} /\ J!Outputs(agent.skipped + 1, agent.cursor)' = {}
  BY <1>2, <1>3, AgentTyped DEF J!Outputs
<1> QED
  BY <1>4, <1>5, <1>6 DEF J!AgentInv, J!AgentMissesNothing, J!Sequence, J!Outputs

\* A page starts after the last input that is stored, or after the last page.
LEMMA AgentStarts ==
  ASSUME J!TypeOK, J!OrderInv, J!AgentInv
  PROVE  LET a == J!Max({J!LastAgentInput, agent.cursor}) IN
         a \in 0 .. Len(log) /\ J!Outputs(agent.skipped + 1, a) \subseteq agent.got
<1> DEFINE M == {0} \cup {n \in J!ToSet(stored) : log[n] = "agent"}
<1>1. Len(stored) \in Nat /\ Len(stored) <= Len(log) /\ Len(log) \in Nat
      /\ stored \in Seq(Nat) /\ \A i \in 1 .. Len(stored) : stored[i] = i
  BY DEF J!TypeOK, J!OrderInv, J!Numbered, J!Sequence
<1>2. J!ToSet(stored) \subseteq 1 .. Len(log)
  <2>1. DOMAIN stored = 1 .. Len(stored)
    BY <1>1
  <2> QED
    BY <1>1, <2>1 DEF J!ToSet
<1>3. M \subseteq 0 .. Len(log) /\ M # {}
  BY <1>1, <1>2
<1>4. PICK m : m = J!LastAgentInput
  OBVIOUS
<1>5. m \in M
  BY <1>1, <1>3, <1>4, LargestNumber DEF J!LastAgentInput
<1>6. m \in 0 .. Len(log) /\ (m # 0 => log[m] = "agent" /\ m \in 1 .. Len(log))
  BY <1>2, <1>3, <1>5
<1>7. m # 0 => m <= agent.skipped + 1
  BY <1>6 DEF J!AgentInv, J!Sequence
<1>8. PICK a : a = J!Max({m, agent.cursor})
  OBVIOUS
<1>9. a \in {m, agent.cursor}
  <2>1. m \in Nat /\ agent.cursor \in Nat
    BY <1>6, AgentTyped
  <2> QED
    BY <1>8, <2>1, LargerNumber
<1>10. a \in 0 .. Len(log)
  BY <1>6, <1>9, AgentTyped
<1>11. J!Outputs(agent.skipped + 1, a) \subseteq agent.got
  <2>1. CASE a = agent.cursor
    BY <2>1 DEF J!AgentInv, J!AgentMissesNothing
  <2>2. CASE a = m
    <3> SUFFICES ASSUME NEW e \in agent.skipped + 1 .. m, log[e] = "out" PROVE FALSE
      BY <2>2 DEF J!Outputs
    <3>1. m # 0 /\ e = m
      BY <1>6, <1>7, AgentTyped
    <3> QED
      BY <1>6, <3>1
  <2> QED
    BY <1>9, <2>1, <2>2
<1> QED
  BY <1>4, <1>8, <1>10, <1>11

\* What a page shows goes on from where it starts.
LEMMA AgentReads ==
  ASSUME J!TypeOK, J!OrderInv, J!AgentInv, J!AgentPage
  PROVE  agent' \in J!AgentReader(Len(log')) /\ J!AgentInv'
<1>1. PICK rest : rest = J!After(agent.after)
  OBVIOUS
<1>2. PICK a : a = agent.after
  OBVIOUS
<1>3. PICK k : k = Len(stored)
  OBVIOUS
<1>4. /\ rest \in Seq(1 .. k) /\ Len(rest) = (IF a < k THEN k - a ELSE 0)
      /\ (\A i \in 1 .. Len(rest) : rest[i] = a + i) /\ a \in Nat /\ k \in Nat
  BY SMTT(30), <1>1, <1>2, <1>3, RowsAfter, AgentTyped DEF J!TypeOK
<1>5. PICK m : m = J!Min({PageSize, Len(rest)})
  OBVIOUS
<1>6. m \in Nat /\ m <= Len(rest)
  <2>1. PageSize \in Nat /\ Len(rest) \in Nat
    BY <1>4, JournalBounds
  <2>2. CASE PageSize <= Len(rest)
    <3>1. m = PageSize
      BY <1>5, <2>1, <2>2 DEF J!Min
    <3> QED
      BY <2>1, <2>2, <3>1
  <2>3. CASE ~(PageSize <= Len(rest))
    <3>1. m = Len(rest)
      BY <1>5, <2>1, <2>3 DEF J!Min
    <3> QED
      BY <2>1, <3>1
  <2> QED
    BY <2>2, <2>3
<1>7. PICK page : page = SubSeq(rest, 1, m)
  OBVIOUS
<1>8. Len(page) = m /\ DOMAIN page = 1 .. m /\ \A i \in 1 .. m : page[i] = a + i /\ page[i] \in 1 .. k
  <2>1. 1 \in Int /\ m \in Int /\ \A i \in 1 .. m : rest[i] \in 1 .. k /\ rest[i] = a + i
    BY <1>4, <1>6
  <2>2. /\ page \in Seq(1 .. k) /\ Len(page) = (IF 1 <= m THEN m - 1 + 1 ELSE 0)
        /\ \A i \in 1 .. m - 1 + 1 : page[i] = rest[1 + i - 1]
    BY <1>7, <2>1, SubSeqProperties
  <2>3. Len(page) = m
    BY <1>6, <2>2
  <2>4. DOMAIN page = 1 .. m
    BY <2>2, <2>3
  <2> QED
    BY <1>6, <2>1, <2>2, <2>3, <2>4
<1>9. J!ToSet(page) = {e \in 1 .. k : a < e /\ e <= a + m}
  <2>1. ASSUME NEW e \in J!ToSet(page) PROVE e \in 1 .. k /\ a < e /\ e <= a + m
    BY SMTT(30), <1>4, <1>6, <1>8, <2>1 DEF J!ToSet
  <2>2. ASSUME NEW e \in 1 .. k, a < e, e <= a + m PROVE e \in J!ToSet(page)
    <3>1. e - a \in 1 .. m /\ a + (e - a) = e
      BY <1>4, <1>6, <2>2
    <3>2. page[e - a] = e
      BY <1>8, <3>1
    <3> QED
      BY <1>8, <3>1, <3>2 DEF J!ToSet
  <2> QED
    BY <2>1, <2>2
<1>10. a + m <= Len(log) /\ k <= Len(log) /\ (m > 0 => a + m <= k)
  <2>1. k <= Len(log) /\ Len(log) \in Nat
    BY <1>3 DEF J!TypeOK, J!OrderInv, J!Numbered, J!Sequence
  <2>2. m > 0 => a + m <= k
    BY <1>4, <1>6
  <2>3. a <= Len(log)
    BY <1>2, AgentTyped
  <2> QED
    BY <1>4, <1>6, <2>1, <2>2, <2>3
<1>11. J!NextSequence(page) = a + m
  <2>1. CASE m = 0
    <3>1. page = <<>>
      BY <1>6, <1>7, <2>1
    <3> QED
      BY <1>2, <1>4, <2>1, <3>1 DEF J!NextSequence
  <2>2. CASE m # 0
    <3>1. page # <<>> /\ page[Len(page)] = a + m
      BY <1>6, <1>8, <2>2
    <3> QED
      BY <3>1 DEF J!NextSequence, J!Last
  <2> QED
    BY <2>1, <2>2
<1>12. PICK c : c = J!Max({agent.cursor, a + m})
  OBVIOUS
<1>13. c \in {agent.cursor, a + m} /\ c \in 0 .. Len(log)
  <2>1. agent.cursor \in Nat /\ a + m \in Nat
    BY <1>4, <1>6, AgentTyped
  <2>2. c \in {agent.cursor, a + m}
    BY <1>12, <2>1, LargerNumber
  <2> QED
    BY <1>10, <2>1, <2>2, AgentTyped
<1>14. UNCHANGED log /\ agent.pc = "list"
       /\ agent' = [agent EXCEPT !.pc = "idle", !.got = @ \cup J!ToSet(page), !.cursor = c]
  <2>1. agent' = [agent EXCEPT !.pc = "idle", !.got = @ \cup J!ToSet(page),
                               !.cursor = J!Max({@, J!NextSequence(page)})]
    BY <1>1, <1>5, <1>7 DEF J!AgentPage
  <2>2. UNCHANGED log /\ agent.pc = "list"
    BY DEF J!AgentPage, J!Reader, J!journal
  <2> QED
    BY <1>11, <1>12, <2>1, <2>2, AgentTyped
<1>15. PICK g : g = agent.got \cup J!ToSet(page)
  OBVIOUS
<1>16. /\ agent'.pc = "idle" /\ agent'.cursor = c /\ agent'.skipped = agent.skipped /\ agent'.got = g
       /\ agent' = [pc |-> "idle", after |-> a, cursor |-> c, skipped |-> agent.skipped, got |-> g]
  BY <1>2, <1>14, <1>15, AgentTyped
<1>17. g \subseteq 1 .. Len(log)
  BY <1>4, <1>9, <1>10, <1>15, AgentTyped
<1>18. agent' \in J!AgentReader(Len(log'))
  BY <1>2, <1>13, <1>14, <1>16, <1>17, AgentTyped DEF J!AgentReader
<1>19. ASSUME NEW e \in agent.skipped + 1 .. c, log[e] = "out" PROVE e \in g
  <2>1. CASE c = agent.cursor
    BY <1>15, <1>19, <2>1 DEF J!AgentInv, J!AgentMissesNothing, J!Outputs
  <2>2. CASE c = a + m /\ e <= a
    <3>1. e \in agent.skipped + 1 .. agent.after
      BY <1>2, <1>13, <1>19, <2>2, AgentTyped
    <3>2. e \in agent.got
      BY <1>14, <1>19, <3>1 DEF J!AgentInv, J!Outputs
    <3> QED
      BY <1>15, <3>2
  <2>3. CASE c = a + m /\ e > a
    <3>1. e \in Nat /\ e >= 1 /\ e <= a + m /\ m > 0
      BY <1>4, <1>6, <1>19, <2>3, AgentTyped
    <3>2. e \in 1 .. k
      BY <1>4, <1>6, <1>10, <3>1
    <3> QED
      BY <1>9, <1>15, <2>3, <3>1, <3>2
  <2>4. e \in Int /\ a \in Int
    BY <1>4, <1>13, <1>19, AgentTyped
  <2> QED
    BY <1>13, <2>1, <2>2, <2>3, <2>4
<1>20. J!AgentMissesNothing'
  BY <1>14, <1>16, <1>19 DEF J!AgentMissesNothing, J!Outputs
<1>21. \A e \in 1 .. Len(log') : log'[e] = "agent" => e <= agent'.skipped + 1
  BY <1>14, <1>16 DEF J!AgentInv, J!Sequence
<1> QED
  BY <1>16, <1>18, <1>20, <1>21 DEF J!AgentInv, J!Sequence

\* Whatever happens, the agent misses nothing.
LEMMA AgentStep ==
  ASSUME J!IInv, J!Next \/ UNCHANGED journalVars
  PROVE  agent' \in J!AgentReader(Len(log')) /\ J!AgentInv'
<1> USE DEF J!IInv
<1> DEFINE Goal == agent' \in J!AgentReader(Len(log')) /\ J!AgentInv'
<1> SUFFICES Goal
  OBVIOUS
<1>1. /\ Len(log) \in Nat /\ Len(log') \in Nat /\ Len(log') >= Len(log)
      /\ \A e \in 1 .. Len(log) : log'[e] = log[e]
  <2>1. log \in Seq(J!Kinds) /\ log' \in Seq(J!Kinds)
    BY JournalGrows DEF J!TypeOK
  <2> QED
    BY <2>1, JournalGrows
<1>2. ASSUME agent' = agent, UNCHANGED log PROVE Goal
  BY <1>1, <1>2, AgentWaits
<1>3. ASSUME agent' = agent, NEW k \in J!Kinds, log' = Append(log, k), k # "agent" PROVE Goal
  <2>1. Len(log') = Len(log) + 1 /\ log'[Len(log) + 1] = k
    BY <1>3, LogGrows
  <2>2. \A e \in 1 .. Len(log') : e > Len(log) => log'[e] # "agent"
    BY <1>1, <1>3, <2>1
  <2> QED
    BY <1>1, <1>3, <2>2, AgentWaits
<1>4. ASSUME UNCHANGED log, NEW p \in {"idle", "flush", "row", "list"}, NEW a \in 0 .. Len(log),
             agent' = [agent EXCEPT !.pc = p, !.after = a],
             p # "idle" => J!Outputs(agent.skipped + 1, a) \subseteq agent.got
      PROVE  Goal
  <2>1. /\ agent'.pc = p /\ agent'.after = a /\ agent'.cursor = agent.cursor
        /\ agent'.skipped = agent.skipped /\ agent'.got = agent.got
        /\ agent' = [pc |-> p, after |-> a, cursor |-> agent.cursor, skipped |-> agent.skipped,
                     got |-> agent.got]
    BY <1>4, AgentTyped
  <2>2. agent' \in J!AgentReader(Len(log'))
    BY <1>4, <2>1, AgentTyped DEF J!AgentReader
  <2>3. agent'.pc # "idle" => J!Outputs(agent.skipped + 1, agent.after)' \subseteq agent'.got
    BY <1>4, <2>1 DEF J!Outputs
  <2>4. J!AgentMissesNothing'
    BY <1>4, <2>1 DEF J!AgentInv, J!AgentMissesNothing, J!Outputs
  <2>5. \A e \in 1 .. Len(log') : log'[e] = "agent" => e <= agent'.skipped + 1
    BY <1>4, <2>1 DEF J!AgentInv, J!Sequence
  <2> QED
    BY <2>2, <2>3, <2>4, <2>5 DEF J!AgentInv, J!Sequence, J!Outputs
<1>5. ASSUME UNCHANGED log, NEW p \in {"idle", "row", "list"}, agent' = [agent EXCEPT !.pc = p],
             p # "idle" => agent.pc # "idle"
      PROVE  Goal
  <2>1. agent' = [agent EXCEPT !.pc = p, !.after = agent.after] /\ agent.after \in 0 .. Len(log)
    BY <1>5, AgentTyped
  <2>2. p # "idle" => J!Outputs(agent.skipped + 1, agent.after) \subseteq agent.got
    BY <1>5 DEF J!AgentInv
  <2> HIDE DEF Goal
  <2> QED
    BY <1>4, <1>5, <2>1, <2>2
<1>6. CASE J!Output \/ J!OperatorInput \/ J!FinalStatus
  <2>1. PICK k \in {"out", "input", "status"} : log' = Append(log, k)
    BY <1>6 DEF J!Output, J!OperatorInput, J!FinalStatus, J!Record
  <2>2. UNCHANGED agent /\ k \in J!Kinds
    BY <1>6 DEF J!Output, J!OperatorInput, J!FinalStatus, J!Kinds
  <2> HIDE DEF Goal
  <2> QED
    BY <1>3, <2>1, <2>2
<1>7. CASE J!TimerFires \/ J!SessionEnds \/ J!RecordEnd \/ J!WriteResized \/ J!CopyForResize
           \/ J!Connect \/ J!WebFlush \/ J!WebRow \/ J!WebList \/ J!WebReceive \/ J!Disconnect
           \/ UNCHANGED journalVars
  <2>1. UNCHANGED <<log, agent>>
    BY <1>7 DEF J!TimerFires, J!SessionEnds, J!RecordEnd, J!WriteResized, J!CopyForResize,
       J!Connect, J!WebFlush, J!WebRow, J!WebList, J!WebReceive, J!Disconnect, J!Reader,
       J!journal, journalVars
  <2> QED
    BY <1>2, <2>1
<1>8. CASE J!AgentInput
  BY <1>8, AgentAsks
<1>9. CASE J!AgentQuery
  <2>1. PICK a : a = J!Max({J!LastAgentInput, agent.cursor})
    OBVIOUS
  <2>2. a \in 0 .. Len(log) /\ J!Outputs(agent.skipped + 1, a) \subseteq agent.got
    BY <2>1, AgentStarts
  <2>3. agent' = [agent EXCEPT !.pc = "flush", !.after = a] /\ UNCHANGED log
    BY <1>9, <2>1 DEF J!AgentQuery, J!Reader, J!journal
  <2> HIDE DEF Goal
  <2> QED
    BY <1>4, <2>2, <2>3
<1>10. CASE J!AgentFlush \/ J!AgentRow
  <2>1. UNCHANGED log /\ agent.pc # "idle"
        /\ \E p \in {"idle", "row", "list"} : agent' = [agent EXCEPT !.pc = p]
    BY <1>10 DEF J!AgentFlush, J!AgentRow, J!Reader, J!journal
  <2> HIDE DEF Goal
  <2> QED
    BY <1>5, <2>1
<1>11. CASE J!AgentPage
  BY <1>11, AgentReads
<1> HIDE DEF Goal
<1> QED
  BY <1>6, <1>7, <1>8, <1>9, <1>10, <1>11 DEF J!Next, J!Step, J!Write, J!Web, J!Agent, J!Work

-----------------------------------------------------------------------------
(* The journal: its theorem *)

LEMMA JournalStarts == J!Init => J!IInv
<1> SUFFICES ASSUME J!Init PROVE J!IInv
  OBVIOUS
<1>1. Len(<<>>) = 0 /\ <<>> \in Seq(J!Kinds) /\ <<>> \in Seq(Nat) /\ \A n \in Nat : <<>> \in Seq(1 .. n)
  OBVIOUS
<1>2. log = <<>> /\ queue = <<>> /\ stored = <<>> /\ Len(log) = 0 /\ worker = "running"
  BY <1>1 DEF J!Init
<1>3. /\ web = [pc |-> "off", after |-> 0, channel |-> <<>>, overflow |-> FALSE, got |-> {}]
      /\ agent = [pc |-> "idle", after |-> 0, cursor |-> 0, skipped |-> 0, got |-> {}]
  BY DEF J!Init
<1>4. web \in J!WebReader(0) /\ agent \in J!AgentReader(0)
  BY <1>1, <1>3 DEF J!WebReader, J!AgentReader
<1>5. J!TypeOK
  <2>1. /\ log \in Seq(J!Kinds) /\ queue \in Seq(Nat) /\ stored \in Seq(Nat)
        /\ web \in J!WebReader(Len(log)) /\ agent \in J!AgentReader(Len(log))
    BY <1>1, <1>2, <1>4
  <2>2. /\ persistTimer \in BOOLEAN /\ stopped \in BOOLEAN /\ reader \in {"web", "agent"}
        /\ worker \in {"running", "aborted", "final", "record", "ended"}
    BY DEF J!Init
  <2>3. last \in 0 .. MaxEvents + 1 /\ failures \in 0 .. MaxFailures /\ resize \in -1 .. MaxEvents
    BY JournalBounds DEF J!Init
  <2> QED
    BY <2>1, <2>2, <2>3 DEF J!TypeOK, J!Sequence
<1>6. J!OrderInv /\ J!CountInv
  BY <1>1, <1>2, JournalBounds DEF J!OrderInv, J!Numbered, J!CountInv, J!Sequence
<1>7. J!WebInv
  BY <1>1, <1>2, <1>3 DEF J!WebInv, J!TerminalHasNoGap, J!Outputs
<1>8. J!AgentInv
  BY <1>1, <1>2, <1>3 DEF J!AgentInv, J!AgentMissesNothing, J!Outputs, J!Sequence
<1> QED
  BY <1>5, <1>6, <1>7, <1>8 DEF J!IInv

LEMMA JournalStep == ASSUME J!IInv, J!Next \/ UNCHANGED journalVars PROVE J!IInv'
<1>1. J!TypeOK /\ J!OrderInv /\ J!CountInv
  BY DEF J!IInv
<1>2. J!OrderInv' /\ J!CountInv' /\ J!WebInv' /\ J!AgentInv'
  BY <1>1, JournalGrows, WebStep, AgentStep DEF J!OrderInv, J!Sequence
<1>3. J!TypeOK'
  BY <1>1, JournalGrows, WebStep, AgentStep DEF J!TypeOK, J!Sequence
<1> QED
  BY <1>2, <1>3 DEF J!IInv

\* The numbers in order are the events, none lost and none twice.
LEMMA NothingIsLost == ASSUME J!TypeOK, J!OrderInv PROVE J!NoEventLost
<1> DEFINE all == stored \o queue
           n == Len(log)
           numbers == [i \in 1 .. n |-> i]
<1>1. stored \in Seq(Nat) /\ queue \in Seq(Nat) /\ n \in Nat /\ J!Numbered(stored, queue, n)
  BY DEF J!TypeOK, J!OrderInv, J!Sequence
<1>2. all \in Seq(Nat) /\ Len(all) = n /\ J!Numbered(all, <<>>, n)
  <2> HIDE DEF n
  <2> QED
    BY <1>1, BatchIsStored
<1>3. \A i \in 1 .. n : all[i] = i
  BY <1>2 DEF J!Numbered
<1>4. numbers \in Seq(Nat) /\ Len(numbers) = n /\ \A i \in 1 .. n : numbers[i] = i
  <2> HIDE DEF n
  <2>1. numbers \in [1 .. n -> Nat]
    BY <1>1
  <2> QED
    BY <1>1, <2>1
<1> HIDE DEF all, n, numbers
<1>5. all = numbers
  BY <1>2, <1>3, <1>4
<1> QED
  BY <1>5 DEF all, n, numbers, J!NoEventLost, J!Sequence

\* shells.go, server.go: the invariant of the journal and of its two readers.
THEOREM JournalInvariance == Spec => []J!IInv
<1>1. Init => J!IInv
  BY JournalStarts DEF Init
<1>2. ASSUME Next \/ UNCHANGED vars PROVE J!Next \/ UNCHANGED journalVars
  BY <1>2 DEF Next, vars, MoveTunnels, MovePool, MoveShells, MoveJournal, MoveSSH
<1>3. J!IInv /\ [Next]_vars => J!IInv'
  BY <1>2, JournalStep
<1> QED
  BY <1>1, <1>3, PTL DEF Spec

\* shells.go, server.go: batches, timers, failed writes, overflow, reconnects and pages
\* lose no event, leave no gap in a terminal and hide no output from the agent.
THEOREM ReadersStayInformed == Spec => []ReadersMissNothing
<1>1. J!IInv => ReadersMissNothing
  BY NothingIsLost DEF J!IInv, J!WebInv, J!AgentInv, ReadersMissNothing
<1> QED
  BY <1>1, JournalInvariance, PTL
=============================================================================
