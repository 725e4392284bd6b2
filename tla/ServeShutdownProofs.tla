-------------------------- MODULE ServeShutdownProofs --------------------------
(* The safety of amber-serve's start and end for any number of data          *)
(* endpoints and connections.                                                *)
EXTENDS ServeShutdown, FiniteSetTheorems, TLAPS

\* Data endpoints are numbered from 1, so the control endpoint is none of them.
LEMMA Numbering ==
  /\ Cardinality(DataEP) \in Nat
  /\ DataEP = 1..Cardinality(DataEP)
  /\ Control \notin DataEP
<1>1. Cardinality(DataEP) \in Nat
  BY ServeAssumption, FS_CardinalityType
<1> QED
  BY <1>1, ServeAssumption DEF Control

\* Every step keeps every variable in its range.
LEMMA TypeStep ==
  ASSUME TypeOK, [Next]_vars
  PROVE  TypeOK'
<1> USE Numbering DEF TypeOK, EP
<1>1. CASE BindData
  BY <1>1 DEF BindData
<1>2. CASE BindFails
  BY <1>2 DEF BindFails
<1>3. CASE SetDataPorts
  BY <1>3 DEF SetDataPorts
<1>4. CASE ServeControl
  BY <1>4 DEF ServeControl
<1>5. CASE WaitData
  BY <1>5 DEF WaitData
<1>6. CASE ShutDown
  BY <1>6 DEF ShutDown
<1>7. CASE CloseStores
  BY <1>7 DEF CloseStores
<1>8. CASE Signal
  BY <1>8 DEF Signal
<1>9. ASSUME NEW e \in EP, StopAccepting(e) PROVE TypeOK'
  BY <1>9 DEF StopAccepting
<1>10. ASSUME NEW e \in EP, Drained(e) PROVE TypeOK'
  BY <1>10 DEF Drained
<1>11. ASSUME NEW e \in EP, GraceElapses(e) PROVE TypeOK'
  BY <1>11 DEF GraceElapses
<1>12. ASSUME NEW c \in Conn, Accept(c) PROVE TypeOK'
  BY <1>12 DEF Accept
<1>13. ASSUME NEW c \in Conn, ConnEnds(c) PROVE TypeOK'
  BY <1>13 DEF ConnEnds
<1>14. ASSUME NEW c \in Conn, HandleStream(c) PROVE TypeOK'
  BY <1>14 DEF HandleStream
<1>15. ASSUME NEW c \in Conn, HandlerEnds(c) PROVE TypeOK'
  BY <1>15 DEF HandlerEnds
<1>16. ASSUME NEW c \in Conn, ServeConnReturns(c) PROVE TypeOK'
  BY <1>16 DEF ServeConnReturns
<1>17. CASE Exited \/ UNCHANGED vars
  BY <1>17 DEF Exited, vars
<1> QED
  BY <1>1, <1>2, <1>3, <1>4, <1>5, <1>6, <1>7, <1>8, <1>9, <1>10, <1>11, <1>12, <1>13,
     <1>14, <1>15, <1>16, <1>17 DEF Next

\* The order of main: no accept loop starts one, no connection ends one.
LEMMA MainOrderStep ==
  ASSUME TypeOK, MainOrder, [Next]_vars
  PROVE  MainOrder'
<1> USE Numbering DEF TypeOK, MainOrder, EP, Control
<1>1. CASE BindData
  BY <1>1 DEF BindData
<1>2. CASE BindFails
  BY <1>2 DEF BindFails
<1>3. CASE SetDataPorts
  BY <1>3 DEF SetDataPorts
<1>4. CASE ServeControl
  BY <1>4 DEF ServeControl
<1>5. CASE WaitData
  BY <1>5 DEF WaitData
<1>6. CASE ShutDown
  BY <1>6 DEF ShutDown
<1>7. CASE CloseStores
  BY <1>7 DEF CloseStores
<1>8. CASE Signal
  BY <1>8 DEF Signal
<1>9. ASSUME NEW e \in EP, StopAccepting(e) PROVE MainOrder'
  BY <1>9 DEF StopAccepting, Alive
<1>10. ASSUME NEW e \in EP, Drained(e) PROVE MainOrder'
  BY <1>10 DEF Drained, Alive
<1>11. ASSUME NEW e \in EP, GraceElapses(e) PROVE MainOrder'
  BY <1>11 DEF GraceElapses, Alive
<1>12. ASSUME NEW c \in Conn, Accept(c) PROVE MainOrder'
  BY <1>12 DEF Accept
<1>13. ASSUME NEW c \in Conn, ConnEnds(c) PROVE MainOrder'
  BY <1>13 DEF ConnEnds
<1>14. ASSUME NEW c \in Conn, HandleStream(c) PROVE MainOrder'
  BY <1>14 DEF HandleStream
<1>15. ASSUME NEW c \in Conn, HandlerEnds(c) PROVE MainOrder'
  BY <1>15 DEF HandlerEnds
<1>16. ASSUME NEW c \in Conn, ServeConnReturns(c) PROVE MainOrder'
  BY <1>16 DEF ServeConnReturns
<1>17. CASE Exited \/ UNCHANGED vars
  BY <1>17 DEF Exited, vars
<1> QED
  BY <1>1, <1>2, <1>3, <1>4, <1>5, <1>6, <1>7, <1>8, <1>9, <1>10, <1>11, <1>12, <1>13,
     <1>14, <1>15, <1>16, <1>17 DEF Next

\* A Serve returns over a live connection only when its grace runs out, and
\* serveConn from no running handler.
LEMMA AttendedStep ==
  ASSUME TypeOK, Attended, [Next]_vars
  PROVE  Attended'
<1> USE Numbering DEF TypeOK, Attended, EP, Control
<1>1. CASE BindData
  BY <1>1 DEF BindData
<1>2. CASE BindFails
  BY <1>2 DEF BindFails
<1>3. CASE SetDataPorts
  BY <1>3 DEF SetDataPorts
<1>4. CASE ServeControl
  BY <1>4 DEF ServeControl
<1>5. CASE WaitData
  BY <1>5 DEF WaitData
<1>6. CASE ShutDown
  BY <1>6 DEF ShutDown
<1>7. CASE CloseStores
  BY <1>7 DEF CloseStores
<1>8. CASE Signal
  BY <1>8 DEF Signal
<1>9. ASSUME NEW e \in EP, StopAccepting(e) PROVE Attended'
  BY <1>9 DEF StopAccepting
<1>10. ASSUME NEW e \in EP, Drained(e) PROVE Attended'
  BY <1>10 DEF Drained, Serving
<1>11. ASSUME NEW e \in EP, GraceElapses(e) PROVE Attended'
  BY <1>11 DEF GraceElapses
<1>12. ASSUME NEW c \in Conn, Accept(c) PROVE Attended'
  BY <1>12 DEF Accept
<1>13. ASSUME NEW c \in Conn, ConnEnds(c) PROVE Attended'
  BY <1>13 DEF ConnEnds
<1>14. ASSUME NEW c \in Conn, HandleStream(c) PROVE Attended'
  BY <1>14 DEF HandleStream
<1>15. ASSUME NEW c \in Conn, HandlerEnds(c) PROVE Attended'
  BY <1>15 DEF HandlerEnds
<1>16. ASSUME NEW c \in Conn, ServeConnReturns(c) PROVE Attended'
  BY <1>16 DEF ServeConnReturns
<1>17. CASE Exited \/ UNCHANGED vars
  BY <1>17 DEF Exited, vars
<1> QED
  BY <1>1, <1>2, <1>3, <1>4, <1>5, <1>6, <1>7, <1>8, <1>9, <1>10, <1>11, <1>12, <1>13,
     <1>14, <1>15, <1>16, <1>17 DEF Next

\* The control endpoint is served after SetDataPorts.
LEMMA PortsStep ==
  ASSUME TypeOK, MainOrder, Attended, ControlHasPorts, [Next]_vars
  PROVE  ControlHasPorts'
<1> USE Numbering DEF TypeOK, MainOrder, Attended, ControlHasPorts, EP, Control
<1>1. CASE BindData
  BY <1>1 DEF BindData
<1>2. CASE BindFails
  BY <1>2 DEF BindFails
<1>3. CASE SetDataPorts
  BY <1>3 DEF SetDataPorts
<1>4. CASE ServeControl
  BY <1>4 DEF ServeControl
<1>5. CASE WaitData
  BY <1>5 DEF WaitData
<1>6. CASE ShutDown
  BY <1>6 DEF ShutDown
<1>7. CASE CloseStores
  BY <1>7 DEF CloseStores
<1>8. CASE Signal
  BY <1>8 DEF Signal
<1>9. ASSUME NEW e \in EP, StopAccepting(e) PROVE ControlHasPorts'
  BY <1>9 DEF StopAccepting
<1>10. ASSUME NEW e \in EP, Drained(e) PROVE ControlHasPorts'
  BY <1>10 DEF Drained
<1>11. ASSUME NEW e \in EP, GraceElapses(e) PROVE ControlHasPorts'
  BY <1>11 DEF GraceElapses
<1>12. ASSUME NEW c \in Conn, Accept(c) PROVE ControlHasPorts'
  BY <1>12 DEF Accept
<1>13. ASSUME NEW c \in Conn, ConnEnds(c) PROVE ControlHasPorts'
  BY <1>13 DEF ConnEnds
<1>14. ASSUME NEW c \in Conn, HandleStream(c) PROVE ControlHasPorts'
  BY <1>14 DEF HandleStream
<1>15. ASSUME NEW c \in Conn, HandlerEnds(c) PROVE ControlHasPorts'
  BY <1>15 DEF HandlerEnds
<1>16. ASSUME NEW c \in Conn, ServeConnReturns(c) PROVE ControlHasPorts'
  BY <1>16 DEF ServeConnReturns
<1>17. CASE Exited \/ UNCHANGED vars
  BY <1>17 DEF Exited, vars
<1> QED
  BY <1>1, <1>2, <1>3, <1>4, <1>5, <1>6, <1>7, <1>8, <1>9, <1>10, <1>11, <1>12, <1>13,
     <1>14, <1>15, <1>16, <1>17 DEF Next

\* Closed stores mean that main has passed its wait, or returned early.
LEMMA Outlived ==
  ASSUME TypeOK, MainOrder, Attended
  PROVE  StoresOutliveHandlers
<1> SUFFICES ASSUME stores = "closed"
             PROVE  /\ \A e \in EP \ Stray : serve[e] = IF failed THEN "off" ELSE "returned"
                    /\ \A c \in Conn : handler[c] = "running" => at[c] \in expired \cup Stray
  BY DEF StoresOutliveHandlers
<1>1. \A e \in EP \ Stray : serve[e] = IF failed THEN "off" ELSE "returned"
  BY DEF MainOrder, Stray
<1>2. ASSUME NEW c \in Conn, handler[c] = "running", at[c] \notin Stray
      PROVE  at[c] \in expired
  <2>1. at[c] \in EP \ Stray
    BY <1>2 DEF TypeOK
  <2>2. serve[at[c]] # "off"
    BY <1>2 DEF Attended
  <2>3. serve[at[c]] = "returned"
    BY <1>1, <2>1, <2>2
  <2> QED
    BY <1>2, <2>3 DEF Attended
<1> QED
  BY <1>1, <1>2

\* The process starts with nothing served.
LEMMA InitIInv == Init => IInv
<1> SUFFICES ASSUME Init PROVE IInv
  OBVIOUS
<1>1. TypeOK
  <2>1. bound \in 0..Cardinality(DataEP)
    BY Numbering DEF Init
  <2> QED
    BY <2>1 DEF Init, TypeOK
<1>2. MainOrder /\ Attended /\ ControlHasPorts
  BY DEF Init, MainOrder, Attended, ControlHasPorts, Control, EP
<1> QED
  BY <1>1, <1>2, Outlived DEF IInv

\* The invariant of amber-serve, from any start, whatever its clients, its
\* handlers and its timers do.
THEOREM Inductive == Spec => []IInv
<1>1. ASSUME IInv, [Next]_vars PROVE IInv'
  <2>1. TypeOK' /\ MainOrder' /\ Attended' /\ ControlHasPorts'
    BY <1>1, TypeStep, MainOrderStep, AttendedStep, PortsStep DEF IInv
  <2>2. (TypeOK /\ MainOrder /\ Attended => StoresOutliveHandlers)'
    BY Outlived, PTL
  <2> QED
    BY <2>1, <2>2 DEF IInv
<1> QED
  BY InitIInv, <1>1, PTL DEF Spec

\* The stores are closed under a handler only when its grace ran out, or when a
\* failed bind made main return over earlier data endpoints.
THEOREM StoresOutlive == Spec => []StoresOutliveHandlers
<1>1. IInv => StoresOutliveHandlers
  BY DEF IInv
<1> QED
  BY Inductive, <1>1, PTL

\* No sharded transfer is offered on the control endpoint without the data ports.
THEOREM PortsBeforeOffers == Spec => []ControlHasPorts
<1>1. IInv => ControlHasPorts
  BY DEF IInv
<1> QED
  BY Inductive, <1>1, PTL
=============================================================================
