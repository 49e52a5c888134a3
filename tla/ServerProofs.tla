---------------------------- MODULE ServerProofs ----------------------------
(***************************************************************************)
(* Theorems about Server: the semaphore and the wait group count what is   *)
(* there, and the lock always has a holder who can give it back.           *)
(***************************************************************************)
EXTENDS Server, FiniteSetTheorems, TLAPS

\* Those who have a permit.
Permitted == Handlers \cup ({acceptor} \cap Conns)

\* A connection that is being registered has no handler yet.
CountInv ==
    /\ TypeOK
    /\ CountsAgree
    /\ acceptor \in Conns => conn[acceptor] = Away

\* A transaction has one holder: its connection, its statement, its request or
\* the map.
HolderInv ==
    /\ \A c \in Conns : conn[c].tx => conn[c].pc = "scan"
    /\ \A r \in Requests : request[r].tx # NoOne <=> request[r].pc \in {"store", "end"}
    /\ ~lost =>
        /\ \A c \in Conns : conn[c].pc = "running" => lock = c
        /\ \A c \in Conns : lock = c => conn[c].tx \/ conn[c].pc = "running"
        /\ \A r \in Requests : request[r].pc = "running" <=> lock = r
        /\ \A r \in Requests : request[r].tx # NoOne => lock = request[r].tx
        /\ \A r, q \in Requests : request[r].tx # NoOne /\ request[q].tx = request[r].tx => r = q
        /\ \A r \in Requests : request[r].tx \notin httpTxMap
        /\ \A i \in httpTxMap : lock = i
        /\ lock \in TxIds => lock \in httpTxMap \/ \E r \in Requests : request[r].tx = lock

-----------------------------------------------------------------------------
\* Adding and removing one element of a finite set.
LEMMA Counting ==
    ASSUME NEW S, IsFiniteSet(S), NEW c
    PROVE  /\ Cardinality(S) \in Nat
           /\ c \notin S => Cardinality(S \cup {c}) = Cardinality(S) + 1
           /\ c \in S => Cardinality(S \ {c}) = Cardinality(S) - 1 /\ Cardinality(S) >= 1
<1>1. Cardinality(S) \in Nat
  BY FS_CardinalityType
<1>2. c \notin S => Cardinality(S \cup {c}) = Cardinality(S) + 1
  BY FS_AddElement
<1>3. c \in S => Cardinality(S \ {c}) = Cardinality(S) - 1 /\ Cardinality(S) >= 1
  <2>1. SUFFICES ASSUME c \in S
                 PROVE  Cardinality(S \ {c}) = Cardinality(S) - 1 /\ Cardinality(S) >= 1
    OBVIOUS
  <2>2. Cardinality(S) # 0
    BY <2>1, FS_EmptySet
  <2>3. Cardinality(S \ {c}) = Cardinality(S) - 1
    BY <2>1, FS_RemoveElement
  <2>4. QED
    BY <1>1, <2>2, <2>3
<1>4. QED
  BY <1>1, <1>2, <1>3

\* The handlers, and those with a permit, are finitely many connections.
LEMMA HandlersAreFinite == IsFiniteSet(Handlers) /\ IsFiniteSet(Permitted)
BY ServerAssumption, FS_Subset DEF Handlers, Permitted

\* A step that leaves the handlers as they are keeps the counts.
LEMMA SameCounts ==
    ASSUME CountInv, TypeOK', UNCHANGED <<acceptor, permits, tcpWg>>,
           \A c \in Conns : conn'[c].pc = "away" <=> conn[c].pc = "away",
           \A c \in Conns : conn[c] = Away => conn'[c] = Away,
           closing' \in {"no", "signalled", "refusing"} =>
               closing \in {"no", "signalled", "refusing"} /\ UNCHANGED tcpConns
    PROVE  CountInv'
<1>1. Handlers' = Handlers
  BY DEF Handlers
<1>2. QED
  BY <1>1 DEF CountInv, CountsAgree
-----------------------------------------------------------------------------
LEMMA CountInit == Init => CountInv
<1>1. SUFFICES ASSUME Init PROVE CountInv
  OBVIOUS
<1>2. TypeOK
  <2>1. conn \in [Conns -> [pc : {"away", "scan", "begin", "auto", "running", "left"},
                           tx : BOOLEAN, open : BOOLEAN]]
    BY <1>1 DEF Init, Away
  <2>2. request \in [Requests -> [pc : {"idle", "begin", "store", "end", "auto", "running"},
                                 tx : TxIds \cup {NoOne}]]
    BY <1>1 DEF Init, Idle
  <2>3. permits \in 0 .. MaxConn /\ tcpWg \in Nat
    BY <1>1, ServerAssumption DEF Init
  <2>4. QED
    BY <1>1, <2>1, <2>2, <2>3 DEF Init, TypeOK
<1>3. Handlers = {} /\ {acceptor} \cap Conns = {}
  BY <1>1, ServerAssumption DEF Init, Handlers, Away
<1>4. CountsAgree
  BY <1>1, <1>3, FS_EmptySet DEF Init, CountsAgree
<1>5. QED
  BY <1>1, <1>2, <1>4, ServerAssumption DEF Init, CountInv

LEMMA CountStep == CountInv /\ HolderInv /\ [Next]_vars => CountInv'
<1> SUFFICES ASSUME CountInv, HolderInv, [Next]_vars PROVE CountInv'
  OBVIOUS
<1> USE DEF CountInv
<1>1. ASSUME NEW c \in Conns, Accept(c) PROVE CountInv'
  <2>1. TypeOK'
    BY <1>1, ServerAssumption DEF Accept, TypeOK, httpVars
  <2>2. c \notin Handlers /\ Handlers' = Handlers /\ {acceptor} \cap Conns = {}
    BY <1>1, ServerAssumption DEF Accept, Handlers, Away
  <2>3. Cardinality(Handlers \cup {c}) = Cardinality(Handlers) + 1
    BY <2>2, Counting, HandlersAreFinite
  <2>4. permits' = Cardinality(Handlers' \cup ({acceptor'} \cap Conns))
    <3>1. Handlers' \cup ({acceptor'} \cap Conns) = Handlers \cup {c}
      BY <1>1, <2>2 DEF Accept
    <3>2. permits = Cardinality(Handlers)
      BY <2>2 DEF CountsAgree
    <3>3. QED
      BY <1>1, <2>3, <3>1, <3>2 DEF Accept
  <2>5. QED
    BY <1>1, <2>1, <2>2, <2>4, ServerAssumption DEF Accept, CountsAgree, httpVars
<1>2. ASSUME NEW c \in Conns, Register(c) PROVE CountInv'
  <2>1. TypeOK'
    BY <1>2, ServerAssumption DEF Register, TypeOK, httpVars
  <2>2. c \notin Handlers /\ Handlers' = Handlers \cup {c}
    BY <1>2 DEF Register, Handlers, TypeOK, Away
  <2>3. Cardinality(Handlers') = Cardinality(Handlers) + 1
    BY <2>2, Counting, HandlersAreFinite
  <2>4. Handlers' \cup ({acceptor'} \cap Conns) = Handlers \cup ({acceptor} \cap Conns)
    BY <1>2, <2>2, ServerAssumption DEF Register
  <2>5. tcpWg' = Cardinality(Handlers') + 1 /\ acceptor' # "done"
    <3>1. tcpWg = Cardinality(Handlers) + 1
      BY <1>2, ServerAssumption DEF Register, CountsAgree
    <3>2. Cardinality(Handlers) \in Nat
      BY Counting, HandlersAreFinite
    <3>3. QED
      BY <1>2, <2>3, <3>1, <3>2 DEF Register
  <2>6. QED
    BY <1>2, <2>1, <2>2, <2>4, <2>5, ServerAssumption DEF Register, CountsAgree
<1>3. ASSUME AcceptEnds PROVE CountInv'
  <2>1. Handlers' = Handlers /\ Cardinality(Handlers) \in Nat
    BY <1>3, Counting, HandlersAreFinite DEF AcceptEnds, Handlers
  <2>2. tcpWg = Cardinality(Handlers) + 1
    BY <1>3 DEF AcceptEnds, CountsAgree
  <2>3. TypeOK'
    BY <1>3, <2>1, <2>2, ServerAssumption DEF AcceptEnds, TypeOK, httpVars
  <2>4. Handlers' \cup ({acceptor'} \cap Conns) = Handlers \cup ({acceptor} \cap Conns)
    BY <1>3, <2>1, ServerAssumption DEF AcceptEnds
  <2>5. tcpWg' = Cardinality(Handlers')
    BY <1>3, <2>1, <2>2 DEF AcceptEnds
  <2>6. QED
    <3>1. CountsAgree'
      <4>1. permits' = Cardinality(Handlers' \cup ({acceptor'} \cap Conns))
        BY <1>3, <2>1, <2>4 DEF AcceptEnds, CountsAgree
      <4>2. closing' \in {"no", "signalled", "refusing"} => tcpConns' = Handlers'
        BY <1>3, <2>1 DEF AcceptEnds, CountsAgree
      <4>3. QED
        <5>1. tcpWg' = Cardinality(Handlers') + (IF acceptor' = "done" THEN 0 ELSE 1)
          BY <1>3, <2>1, <2>5 DEF AcceptEnds
        <5>2. QED
          BY <4>1, <4>2, <5>1 DEF CountsAgree
    <3>2. QED
      BY <1>3, <2>3, <3>1, ServerAssumption DEF AcceptEnds
<1>4. ASSUME NEW c \in Conns, Depart(c) PROVE CountInv'
  <2>1. c \in Handlers /\ Handlers' = Handlers \ {c}
    BY <1>4 DEF Depart, Handlers, TypeOK, Away
  <2>2. acceptor # c
    BY <1>4 DEF Depart, Away
  <2>3. Handlers' \cup ({acceptor'} \cap Conns) = Permitted \ {c} /\ c \in Permitted
    BY <1>4, <2>1, <2>2 DEF Depart, Permitted
  <2>4. /\ Cardinality(Handlers') = Cardinality(Handlers) - 1
        /\ Cardinality(Handlers) \in Nat /\ Cardinality(Handlers) >= 1
    BY <2>1, Counting, HandlersAreFinite
  <2>5. /\ Cardinality(Permitted \ {c}) = Cardinality(Permitted) - 1
        /\ Cardinality(Permitted) \in Nat /\ Cardinality(Permitted) >= 1
    BY <2>3, Counting, HandlersAreFinite
  <2>6. permits = Cardinality(Permitted)
    BY DEF CountsAgree, Permitted
  <2>7. tcpWg = Cardinality(Handlers) + (IF acceptor = "done" THEN 0 ELSE 1)
    BY DEF CountsAgree
  <2>8. permits' \in 0 .. MaxConn /\ tcpWg' \in Nat
    BY <1>4, <2>4, <2>5, <2>6, <2>7, ServerAssumption DEF Depart, TypeOK
  <2>9. TypeOK'
    BY <1>4, <2>8, ServerAssumption DEF Depart, TypeOK, httpVars, Away
  <2>10. CountsAgree'
    <3>1. permits' = Cardinality(Handlers' \cup ({acceptor'} \cap Conns))
      BY <1>4, <2>3, <2>5, <2>6 DEF Depart
    <3>2. tcpWg' = Cardinality(Handlers') + (IF acceptor' = "done" THEN 0 ELSE 1)
      BY <1>4, <2>4, <2>7 DEF Depart
    <3>3. QED
      BY <1>4, <2>1, <3>1, <3>2 DEF Depart, CountsAgree
  <2>11. QED
    BY <1>4, <2>2, <2>9, <2>10 DEF Depart
<1>5. ASSUME NEW c \in Conns,
             \/ ReadRequest(c) \/ EndTx(c) \/ HangUp(c) \/ Locked(c) \/ AutoCommit(c) \/ Leave(c)
      PROVE  CountInv'
  <2> USE ServerAssumption DEF TypeOK
  <2>1. TypeOK'
    <3>1. CASE ReadRequest(c)
      BY <3>1 DEF ReadRequest, httpVars
    <3>2. CASE EndTx(c)
      <4>1. CASE conn' = [conn EXCEPT ![c].tx = FALSE]
        BY <3>2, <4>1, ZenonT(60) DEF EndTx, httpVars
      <4>2. CASE UNCHANGED conn
        BY <3>2, <4>2 DEF EndTx, httpVars
      <4>3. QED
        BY <3>2, <4>1, <4>2 DEF EndTx
    <3>3. CASE HangUp(c)
      BY <3>3, ZenonT(60) DEF HangUp, httpVars
    <3>4. CASE Locked(c)
      <4>1. CASE conn[c].pc = "begin"
        <5>1. conn' = [conn EXCEPT ![c] = [@ EXCEPT !.pc = "scan", !.tx = TRUE]]
          BY <3>4, <4>1 DEF Locked
        <5>2. conn' \in [Conns -> [pc : {"away", "scan", "begin", "auto", "running", "left"},
                                  tx : BOOLEAN, open : BOOLEAN]]
          BY <5>1, ZenonT(60)
        <5>3. QED
          BY <3>4, <5>2 DEF Locked, httpVars
      <4>2. CASE conn[c].pc = "auto"
        <5>1. conn' = [conn EXCEPT ![c] = [@ EXCEPT !.pc = "running"]]
          BY <3>4, <4>2 DEF Locked
        <5>2. QED
          BY <3>4, <5>1 DEF Locked, httpVars
      <4>3. QED
        BY <3>4, <4>1, <4>2 DEF Locked
    <3>5. CASE AutoCommit(c)
      BY <3>5, ZenonT(60) DEF AutoCommit, Release, httpVars
    <3>6. CASE Leave(c)
      BY <3>6, ZenonT(60) DEF Leave, Release, httpVars
    <3>7. QED
      BY <1>5, <3>1, <3>2, <3>3, <3>4, <3>5, <3>6
  <2>2. \A d \in Conns : conn'[d].pc = "away" <=> conn[d].pc = "away"
    <3>1. \A d \in Conns \ {c} : conn'[d] = conn[d]
      BY <1>5 DEF ReadRequest, EndTx, HangUp, Locked, AutoCommit, Leave
    <3>2. CASE ReadRequest(c) \/ AutoCommit(c) \/ Leave(c)
      BY <3>1, <3>2 DEF ReadRequest, AutoCommit, Leave
    <3>3. CASE EndTx(c) \/ HangUp(c)
      BY <3>1, <3>3 DEF EndTx, HangUp
    <3>4. CASE Locked(c)
      BY <3>1, <3>4 DEF Locked
    <3>5. QED
      BY <1>5, <3>2, <3>3, <3>4
  <2>3. \A d \in Conns : conn[d] = Away => conn'[d] = Away
    <3>1. conn[c] # Away
      BY <1>5 DEF ReadRequest, EndTx, HangUp, Locked, AutoCommit, Leave, Away
    <3>2. \A d \in Conns \ {c} : conn'[d] = conn[d]
      BY <1>5 DEF ReadRequest, EndTx, HangUp, Locked, AutoCommit, Leave
    <3>3. QED
      BY <3>1, <3>2
  <2>4. UNCHANGED <<acceptor, permits, tcpWg, tcpConns, closing>>
    BY <1>5 DEF ReadRequest, EndTx, HangUp, Locked, AutoCommit, Leave
  <2>5. QED
    BY <2>1, <2>2, <2>3, <2>4, SameCounts
<1>6. ASSUME UNCHANGED tcpVars, TypeOK',
             closing' \in {"no", "signalled", "refusing"} =>
                 closing \in {"no", "signalled", "refusing"}
      PROVE  CountInv'
  BY <1>6, SameCounts DEF tcpVars
<1>7. ASSUME NEW r \in Requests, HttpRequest(r) \/ HttpLocked(r) \/ HttpHandler(r)
      PROVE  CountInv'
  <2>1. TypeOK'
    <3> USE ServerAssumption DEF TypeOK, tcpVars
    <3>1. CASE HttpRequest(r)
      BY <3>1 DEF HttpRequest, Idle
    <3>2. CASE HttpLocked(r)
      BY <3>2 DEF HttpLocked
    <3>3. CASE HttpStore(r)
      BY <3>3 DEF HttpStore, Idle, HolderInv
    <3>4. CASE HttpAutoCommit(r) \/ HttpEnd(r)
      <4>1. request' = [request EXCEPT ![r] = Idle] /\ Release
        BY <3>4 DEF HttpAutoCommit, HttpEnd
      <4>2. lock' \in Conns \cup Requests \cup TxIds \cup {NoOne} /\ lost' \in BOOLEAN
        BY <4>1 DEF Release
      <4>3. QED
        BY <3>4, <4>1, <4>2 DEF HttpAutoCommit, HttpEnd, Idle
    <3>5. QED
      BY <1>7, <3>1, <3>2, <3>3, <3>4 DEF HttpHandler
  <2>2. QED
    BY <1>6, <1>7, <2>1 DEF HttpRequest, HttpLocked, HttpHandler, HttpStore, HttpAutoCommit, HttpEnd
<1>8. ASSUME NEW r \in Requests, NEW i \in TxIds, HttpTake(r, i) PROVE CountInv'
  BY <1>6, <1>8 DEF HttpTake, TypeOK, tcpVars, Idle
<1>9. ASSUME NEW i \in TxIds, HttpQuery(i) \/ Age(i) \/ Expire(i) PROVE CountInv'
  BY <1>6, <1>9, ServerAssumption DEF HttpQuery, Age, Expire, Release, TypeOK, tcpVars
<1>10. ASSUME LoopEnds \/ CloseStep \/ ShutdownReturns \/ CloseRollsBack PROVE CountInv'
  BY <1>6, <1>10, ServerAssumption
  DEF LoopEnds, CloseStep, ShutdownReturns, CloseRollsBack, Release, TypeOK, tcpVars, httpVars
<1>11. ASSUME CloseConns PROVE CountInv'
  <2>1. TypeOK'
    BY <1>11, ServerAssumption, ZenonT(60) DEF CloseConns, TypeOK, httpVars
  <2>2. QED
    <3>1. \A c \in Conns : conn'[c].pc = "away" <=> conn[c].pc = "away"
      BY <1>11 DEF CloseConns, TypeOK
    <3>2. \A c \in Conns : conn[c] = Away => conn'[c] = Away
      <4>1. SUFFICES ASSUME NEW c \in Conns, conn[c] = Away PROVE conn'[c] = Away
        OBVIOUS
      <4>2. c \notin tcpConns
        BY <1>11, <4>1 DEF CloseConns, CountsAgree, Handlers, Away
      <4>3. QED
        BY <1>11, <4>1, <4>2 DEF CloseConns
    <3>3. UNCHANGED <<acceptor, permits, tcpWg>> /\ closing' = "waiting"
      BY <1>11 DEF CloseConns
    <3>4. QED
      BY <2>1, <3>1, <3>2, <3>3, SameCounts
<1>12. CASE UNCHANGED vars
  BY <1>6, <1>12 DEF vars, tcpVars, httpVars, TypeOK
<1>13. QED
  BY <1>1, <1>2, <1>3, <1>4, <1>5, <1>7, <1>8, <1>9, <1>10, <1>11, <1>12 DEF Next, Handler

-----------------------------------------------------------------------------
LEMMA HolderInit == Init => HolderInv
BY ServerAssumption DEF Init, HolderInv, Away, Idle

LEMMA HolderStep == CountInv /\ HolderInv /\ [Next]_vars => HolderInv'
<1> SUFFICES ASSUME TypeOK, HolderInv, [Next]_vars, acceptor \in Conns => conn[acceptor] = Away
             PROVE  HolderInv'
  BY DEF CountInv
<1> USE ServerAssumption DEF HolderInv, TypeOK
<1>1. ASSUME NEW c \in Conns, Accept(c) \/ Register(c) \/ ReadRequest(c) \/ HangUp(c) \/ Depart(c)
      PROVE  HolderInv'
  <2>1. \A d \in Conns \ {c} : conn'[d] = conn[d]
    BY <1>1 DEF Accept, Register, ReadRequest, HangUp, Depart
  <2>2. ~conn[c].tx /\ conn[c].pc # "running" => ~conn'[c].tx /\ conn'[c].pc # "running"
    BY <1>1 DEF Accept, Register, ReadRequest, HangUp, Depart, Away
  <2>3. conn[c].tx => conn'[c].tx /\ conn'[c].pc = "scan"
    BY <1>1, SMTT(30) DEF Accept, Register, ReadRequest, HangUp, Depart, Away
  <2>4. conn[c].pc = "running" => conn'[c].pc = "running" /\ ~conn'[c].tx
    BY <1>1, SMTT(30) DEF Accept, Register, ReadRequest, HangUp, Depart, Away
  <2>5. UNCHANGED <<lock, lost, request, httpTxMap>>
    BY <1>1 DEF Accept, Register, ReadRequest, HangUp, Depart, httpVars
  <2>6. QED
    BY <2>1, <2>2, <2>3, <2>4, <2>5
<1>2. ASSUME NEW c \in Conns, Locked(c) PROVE HolderInv'
  BY <1>2 DEF Locked, httpVars
<1>3. ASSUME NEW c \in Conns, AutoCommit(c) \/ EndTx(c) \/ Leave(c) PROVE HolderInv'
  BY <1>3 DEF AutoCommit, EndTx, Leave, Release, httpVars
<1>4. ASSUME NEW r \in Requests, HttpRequest(r) PROVE HolderInv'
  BY <1>4 DEF HttpRequest, Idle, tcpVars
<1>5. ASSUME NEW r \in Requests, HttpLocked(r) PROVE HolderInv'
  BY <1>5 DEF HttpLocked, IsNew, tcpVars
<1>6. ASSUME NEW r \in Requests, HttpStore(r) PROVE HolderInv'
  BY <1>6 DEF HttpStore, Idle, tcpVars
<1>7. ASSUME NEW r \in Requests, HttpAutoCommit(r) \/ HttpEnd(r) PROVE HolderInv'
  BY <1>7 DEF HttpAutoCommit, HttpEnd, Release, Idle, tcpVars
<1>8. ASSUME NEW r \in Requests, NEW i \in TxIds, HttpTake(r, i) PROVE HolderInv'
  BY <1>8 DEF HttpTake, Idle, tcpVars
<1>9. ASSUME NEW i \in TxIds, HttpQuery(i) \/ Age(i) PROVE HolderInv'
  BY <1>9 DEF HttpQuery, Age, tcpVars
<1>10. ASSUME NEW i \in TxIds, Expire(i) PROVE HolderInv'
  BY <1>10 DEF Expire, Release, tcpVars
<1>11. ASSUME AcceptEnds \/ LoopEnds \/ CloseStep \/ ShutdownReturns PROVE HolderInv'
  BY <1>11 DEF AcceptEnds, LoopEnds, CloseStep, ShutdownReturns, tcpVars, httpVars
<1>12. ASSUME CloseConns PROVE HolderInv'
  BY <1>12 DEF CloseConns, httpVars
<1>13. ASSUME CloseRollsBack PROVE HolderInv'
  BY <1>13 DEF CloseRollsBack, Release, tcpVars
<1>14. CASE UNCHANGED vars
  BY <1>14 DEF vars, tcpVars, httpVars
<1>15. QED
  BY <1>1, <1>2, <1>3, <1>4, <1>5, <1>6, <1>7, <1>8, <1>9, <1>10, <1>11, <1>12, <1>13, <1>14
  DEF Next, Handler, HttpHandler

-----------------------------------------------------------------------------
LEMMA ServerInvariant == Spec => [](CountInv /\ HolderInv)
<1>1. Init => CountInv /\ HolderInv
  BY CountInit, HolderInit
<1>2. CountInv /\ HolderInv /\ [Next]_vars => (CountInv /\ HolderInv)'
  BY CountStep, HolderStep
<1>3. QED
  BY <1>1, <1>2, PTL DEF Spec

\* Every variable of the server keeps its type; in particular no permit is given
\* back twice and the wait group never falls below zero.
THEOREM ServerTypeCorrect == Spec => []TypeOK
<1>1. CountInv => TypeOK
  BY DEF CountInv
<1>2. QED
  BY <1>1, ServerInvariant, PTL

\* Semaphore and wait group count the handlers, for any number of clients.
THEOREM CountsStayRight == Spec => []CountsAgree
<1>1. CountInv => CountsAgree
  BY DEF CountInv
<1>2. QED
  BY <1>1, ServerInvariant, PTL

\* Unless a call has failed, the map of HTTP transactions holds none but the one
\* that has the lock.
THEOREM MapKeepsTheLock == Spec => []MapHoldsTheLock
<1>1. HolderInv => MapHoldsTheLock
  BY DEF HolderInv, MapHoldsTheLock
<1>2. QED
  BY <1>1, ServerInvariant, PTL

\* Unless a call has failed, the lock is never left with nobody.
THEOREM LockStaysReachable == Spec => []LockIsReachable
<1>1. CountInv /\ HolderInv => LockIsReachable
  BY ServerAssumption DEF CountInv, HolderInv, LockIsReachable, TypeOK
<1>2. QED
  BY <1>1, ServerInvariant, PTL
=============================================================================
