-------------------------------- MODULE Server --------------------------------
(***************************************************************************)
(* The goroutines of internal/network/server.go around the one lock that a *)
(* transaction holds from Begin to Commit or Rollback: a handler for each  *)
(* TCP connection, a handler for each HTTP request, whose transactions     *)
(* stay in a map between requests, the loop that expires those, and Close. *)
(*                                                                         *)
(*   lock      the transaction that holds globalLock: of a connection, of  *)
(*             an HTTP client (TxIds), or of one statement of a request    *)
(*   conn      of each TCP client: where its handler is, whether it is in  *)
(*             a transaction, and whether the connection is still open     *)
(*   acceptor  "accept", the connection that it registers, or "done"       *)
(*   permits   taken of the connection semaphore                           *)
(*   tcpWg     the count of the wait group                                 *)
(*   tcpConns  the connections that Close will close                       *)
(*   request   of each HTTP request, where its handler is and with which   *)
(*             transaction                                                 *)
(*   httpTxMap the HTTP transactions between requests                      *)
(*   stale     those that nobody has used for 15 seconds                   *)
(*   loop      whether the expiry loop runs                                *)
(*   closing   the step that Close has come to                             *)
(*   lost      whether a call that failed has left the lock with nobody    *)
(***************************************************************************)
EXTENDS Naturals, FiniteSets

CONSTANTS
    Conns,      \* TCP clients
    Requests,   \* HTTP requests that the server handles at a time
    TxIds,      \* ids of HTTP transactions; one is new when no one holds it
    MaxConn,    \* the connections the semaphore admits
    NoOne,      \* "the lock is free", "no transaction"
    CallsFail   \* whether Commit and Rollback may return an error

ASSUME ServerAssumption ==
    /\ IsFiniteSet(Conns)
    /\ Conns \cap Requests = {} /\ Conns \cap TxIds = {} /\ Requests \cap TxIds = {}
    /\ NoOne \notin Conns \cup Requests \cup TxIds
    /\ "accept" \notin Conns /\ "done" \notin Conns
    /\ MaxConn \in Nat \ {0}
    /\ CallsFail \in BOOLEAN

VARIABLES lock, conn, acceptor, permits, tcpWg, tcpConns,
          request, httpTxMap, stale, loop, closing, lost

tcpVars  == <<conn, acceptor, permits, tcpWg, tcpConns>>
httpVars == <<request, httpTxMap, stale>>
vars == <<lock, tcpVars, httpVars, loop, closing, lost>>

TypeOK ==
    /\ lock \in Conns \cup Requests \cup TxIds \cup {NoOne}
    /\ conn \in [Conns -> [pc : {"away", "scan", "begin", "auto", "running", "left"},
                           tx : BOOLEAN, open : BOOLEAN]]
    /\ acceptor \in Conns \cup {"accept", "done"}
    /\ permits \in 0 .. MaxConn
    /\ tcpWg \in Nat
    /\ tcpConns \in SUBSET Conns
    /\ request \in [Requests -> [pc : {"idle", "begin", "store", "end", "auto", "running"},
                                 tx : TxIds \cup {NoOne}]]
    /\ httpTxMap \in SUBSET TxIds /\ stale \in SUBSET httpTxMap
    /\ loop \in BOOLEAN /\ lost \in BOOLEAN
    /\ closing \in {"no", "signalled", "refusing", "waiting", "draining", "last", "done"}

Away == [pc |-> "away", tx |-> FALSE, open |-> FALSE]
Idle == [pc |-> "idle", tx |-> NoOne]

Init ==
    /\ lock = NoOne
    /\ conn = [c \in Conns |-> Away]
    /\ acceptor = "accept" /\ permits = 0 /\ tcpWg = 1 /\ tcpConns = {}
    /\ request = [r \in Requests |-> Idle]
    /\ httpTxMap = {} /\ stale = {}
    /\ loop = TRUE
    /\ closing = "no"
    /\ lost = FALSE

\* The end of a transaction by someone who forgets it, whatever the call returns:
\* TableManager's Commit, its Rollback, or its Rollback after a failing Commit.
\* The error leaves the transaction active.
Release ==
    \/ lock' = NoOne /\ UNCHANGED lost
    \/ CallsFail /\ lost' = TRUE /\ UNCHANGED lock

-----------------------------------------------------------------------------
(* TCP.                                                                    *)

\* Mutant: the semaphore is not asked.
AcceptAlways(c) ==
    /\ acceptor = "accept" /\ closing \in {"no", "signalled"} /\ conn[c] = Away
    /\ permits' = permits + 1
    /\ acceptor' = c
    /\ UNCHANGED <<lock, conn, tcpWg, tcpConns, httpVars, loop, closing, lost>>

\* acceptTCPConnections takes a connection and a permit.  (Without a permit it
\* closes the connection.)
Accept(c) ==
    /\ acceptor = "accept" /\ closing \in {"no", "signalled"} /\ conn[c] = Away
    /\ permits < MaxConn
    /\ permits' = permits + 1
    /\ acceptor' = c
    /\ UNCHANGED <<lock, conn, tcpWg, tcpConns, httpVars, loop, closing, lost>>

\* It registers the connection and starts its handler.
Register(c) ==
    /\ acceptor = c
    /\ acceptor' = "accept"
    /\ tcpConns' = tcpConns \cup {c}
    /\ tcpWg' = tcpWg + 1
    /\ conn' = [conn EXCEPT ![c] = [pc |-> "scan", tx |-> FALSE, open |-> TRUE]]
    /\ UNCHANGED <<lock, permits, httpVars, loop, closing, lost>>

\* Mutant: the goroutine ends without a word to the wait group.
AcceptEndsSilently ==
    /\ acceptor = "accept" /\ closing \notin {"no", "signalled"}
    /\ acceptor' = "done"
    /\ UNCHANGED <<lock, conn, permits, tcpWg, tcpConns, httpVars, loop, closing, lost>>

\* Accept fails: the listener is closed, and shutdownChan was before it.
AcceptEnds ==
    /\ acceptor = "accept" /\ closing \notin {"no", "signalled"}
    /\ acceptor' = "done"
    /\ tcpWg' = tcpWg - 1
    /\ UNCHANGED <<lock, conn, permits, tcpConns, httpVars, loop, closing, lost>>

\* handleTCPClient reads "begin", or a statement that TableManager runs in a
\* transaction of its own: either waits for the lock.
ReadRequest(c) ==
    /\ conn[c].pc = "scan" /\ conn[c].open /\ ~conn[c].tx
    /\ \E pc \in {"begin", "auto"} : conn' = [conn EXCEPT ![c].pc = pc]
    /\ UNCHANGED <<lock, acceptor, permits, tcpWg, tcpConns, httpVars, loop, closing, lost>>

\* Begin returns.
Locked(c) ==
    /\ conn[c].pc \in {"begin", "auto"} /\ lock = NoOne
    /\ lock' = c
    /\ conn' = [conn EXCEPT ![c] = IF @.pc = "begin" THEN [@ EXCEPT !.pc = "scan", !.tx = TRUE]
                                   ELSE [@ EXCEPT !.pc = "running"]]
    /\ UNCHANGED <<acceptor, permits, tcpWg, tcpConns, httpVars, loop, closing, lost>>

\* The statement ends.
AutoCommit(c) ==
    /\ conn[c].pc = "running"
    /\ conn' = [conn EXCEPT ![c].pc = "scan"]
    /\ Release
    /\ UNCHANGED <<acceptor, permits, tcpWg, tcpConns, httpVars, loop, closing>>

\* "commit" or "rollback".  If the call fails, the handler keeps the transaction;
\* that happens to a finished one when Rollback cannot reload the catalog.
EndTx(c) ==
    /\ conn[c].pc = "scan" /\ conn[c].open /\ lock = c
    /\ \/ conn' = [conn EXCEPT ![c].tx = FALSE]
       \/ CallsFail /\ UNCHANGED conn
    /\ lock' = NoOne
    /\ UNCHANGED <<acceptor, permits, tcpWg, tcpConns, httpVars, loop, closing, lost>>

\* The client goes, or has sent "close".
HangUp(c) ==
    /\ conn[c].open
    /\ conn' = [conn EXCEPT ![c].open = FALSE]
    /\ UNCHANGED <<lock, acceptor, permits, tcpWg, tcpConns, httpVars, loop, closing, lost>>

\* Mutant: nobody ends the transaction.
LeaveWithTx(c) ==
    /\ conn[c].pc = "scan" /\ ~conn[c].open
    /\ conn' = [conn EXCEPT ![c].pc = "left", ![c].tx = FALSE]
    /\ UNCHANGED <<lock, acceptor, permits, tcpWg, tcpConns, httpVars, loop, closing, lost>>

\* The scanner finds the connection closed: the deferred rollback ...
Leave(c) ==
    /\ conn[c].pc = "scan" /\ ~conn[c].open
    /\ conn' = [conn EXCEPT ![c].pc = "left", ![c].tx = FALSE]
    /\ IF lock = c THEN Release ELSE UNCHANGED <<lock, lost>>
    /\ UNCHANGED <<acceptor, permits, tcpWg, tcpConns, httpVars, loop, closing>>

\* Mutant: the permit is kept.
DepartWithPermit(c) ==
    /\ conn[c].pc = "left"
    /\ conn' = [conn EXCEPT ![c] = Away]
    /\ tcpConns' = tcpConns \ {c}
    /\ tcpWg' = tcpWg - 1
    /\ UNCHANGED <<lock, acceptor, permits, httpVars, loop, closing, lost>>

\* ... and the deferred cleanup of its handler.
Depart(c) ==
    /\ conn[c].pc = "left"
    /\ conn' = [conn EXCEPT ![c] = Away]
    /\ tcpConns' = tcpConns \ {c}
    /\ permits' = permits - 1
    /\ tcpWg' = tcpWg - 1
    /\ UNCHANGED <<lock, acceptor, httpVars, loop, closing, lost>>

-----------------------------------------------------------------------------
(* HTTP, until Shutdown closes its listener.                               *)

HttpIsUp == closing \notin {"draining", "last", "done"}
IsNew(i) == lock # i /\ \A r \in Requests : request[r].tx # i

\* /tx/begin, or /query with a statement in a transaction of its own.
HttpRequest(r) ==
    /\ HttpIsUp /\ request[r] = Idle
    /\ \E pc \in {"begin", "auto"} : request' = [request EXCEPT ![r].pc = pc]
    /\ UNCHANGED <<lock, tcpVars, httpTxMap, stale, loop, closing, lost>>

\* Begin returns.
HttpLocked(r) ==
    /\ lock = NoOne
    /\ \/ /\ request[r].pc = "begin"
          /\ \E i \in TxIds : /\ IsNew(i) /\ i \notin httpTxMap
                              /\ lock' = i
                              /\ request' = [request EXCEPT ![r] = [pc |-> "store", tx |-> i]]
       \/ /\ request[r].pc = "auto"
          /\ lock' = r
          /\ request' = [request EXCEPT ![r].pc = "running"]
    /\ UNCHANGED <<tcpVars, httpTxMap, stale, loop, closing, lost>>

\* handleHTTPTxBegin enters the transaction into the map and answers.
HttpStore(r) ==
    /\ request[r].pc = "store"
    /\ httpTxMap' = httpTxMap \cup {request[r].tx}
    /\ request' = [request EXCEPT ![r] = Idle]
    /\ UNCHANGED <<lock, tcpVars, stale, loop, closing, lost>>

HttpAutoCommit(r) ==
    /\ request[r].pc = "running"
    /\ request' = [request EXCEPT ![r] = Idle]
    /\ Release
    /\ UNCHANGED <<tcpVars, httpTxMap, stale, loop, closing>>

\* /query in a transaction.  (What it does there, while or after the loop
\* expires the transaction, TransactionManager models.)
HttpQuery(i) ==
    /\ HttpIsUp /\ i \in stale
    /\ stale' = stale \ {i}
    /\ UNCHANGED <<lock, tcpVars, request, httpTxMap, loop, closing, lost>>

\* /tx/commit or /tx/rollback takes the transaction out of the map ...
HttpTake(r, i) ==
    /\ HttpIsUp /\ request[r] = Idle /\ i \in httpTxMap
    /\ httpTxMap' = httpTxMap \ {i} /\ stale' = stale \ {i}
    /\ request' = [request EXCEPT ![r] = [pc |-> "end", tx |-> i]]
    /\ UNCHANGED <<lock, tcpVars, loop, closing, lost>>

\* ... and ends it.
HttpEnd(r) ==
    /\ request[r].pc = "end"
    /\ request' = [request EXCEPT ![r] = Idle]
    /\ Release
    /\ UNCHANGED <<tcpVars, httpTxMap, stale, loop, closing>>

\* 15 seconds pass since the last use of a transaction.
Age(i) ==
    /\ i \in httpTxMap \ stale
    /\ stale' = stale \cup {i}
    /\ UNCHANGED <<lock, tcpVars, request, httpTxMap, loop, closing, lost>>

\* Mutant: the transaction stays in the map.
ExpireKeeping(i) ==
    /\ loop /\ i \in stale
    /\ Release
    /\ stale' = stale \ {i} /\ UNCHANGED httpTxMap
    /\ UNCHANGED <<tcpVars, request, loop, closing>>

\* Mutant: the transaction is only taken out of the map.
ExpireOnlyFromMap(i) ==
    /\ loop /\ i \in stale
    /\ httpTxMap' = httpTxMap \ {i} /\ stale' = stale \ {i}
    /\ UNCHANGED <<lock, lost, tcpVars, request, loop, closing>>

\* httpTxCleanupLoop rolls a transaction back, under httpTxMu.
Expire(i) ==
    /\ loop /\ i \in stale
    /\ Release
    /\ httpTxMap' = httpTxMap \ {i} /\ stale' = stale \ {i}
    /\ UNCHANGED <<tcpVars, request, loop, closing>>

\* The loop finds shutdownChan closed.
LoopEnds ==
    /\ loop /\ closing # "no"
    /\ loop' = FALSE
    /\ UNCHANGED <<lock, tcpVars, httpVars, closing, lost>>

-----------------------------------------------------------------------------
(* Close.                                                                  *)

\* close(shutdownChan), tcpListener.Close, and, when tcpWg is zero, the closing
\* of the HTTP listener in Shutdown.
CloseStep ==
    /\ closing' = CASE closing = "no" -> "signalled"
                    [] closing = "signalled" -> "refusing"
                    [] closing = "waiting" -> "draining"
                    [] OTHER -> closing
    /\ closing \in {"no", "signalled"} \/ (closing = "waiting" /\ tcpWg = 0)
    /\ UNCHANGED <<lock, tcpVars, httpVars, loop, lost>>

\* "Force close all active client connections".
CloseConns ==
    /\ closing = "refusing"
    /\ closing' = "waiting"
    /\ conn' = [c \in Conns |-> IF c \in tcpConns THEN [conn[c] EXCEPT !.open = FALSE]
                                ELSE conn[c]]
    /\ tcpConns' = {}
    /\ UNCHANGED <<lock, acceptor, permits, tcpWg, httpVars, loop, lost>>

\* Shutdown returns when all requests have ended, or after two seconds.
ShutdownReturns ==
    /\ closing = "draining"
    /\ closing' = "last"
    /\ UNCHANGED <<lock, tcpVars, httpVars, loop, lost>>

\* "Rollback any active HTTP transactions".
CloseRollsBack ==
    /\ closing = "last"
    /\ closing' = "done"
    /\ IF httpTxMap # {} THEN Release ELSE UNCHANGED <<lock, lost>>
    /\ httpTxMap' = {} /\ stale' = {}
    /\ UNCHANGED <<tcpVars, request, loop>>

-----------------------------------------------------------------------------
Handler(c) == Register(c) \/ AutoCommit(c) \/ Leave(c) \/ Depart(c)
HttpHandler(r) == HttpStore(r) \/ HttpAutoCommit(r) \/ HttpEnd(r)
Closing == closing # "no" /\ (CloseStep \/ CloseConns \/ ShutdownReturns \/ CloseRollsBack)

Next ==
    \/ \E c \in Conns : \/ Accept(c) \/ ReadRequest(c) \/ EndTx(c) \/ HangUp(c)
                        \/ Locked(c) \/ Handler(c)
    \/ \E r \in Requests : \/ HttpRequest(r) \/ HttpLocked(r) \/ HttpHandler(r)
                           \/ \E i \in TxIds : HttpTake(r, i)
    \/ \E i \in TxIds : HttpQuery(i) \/ Age(i) \/ Expire(i)
    \/ AcceptEnds \/ LoopEnds
    \/ CloseStep \/ CloseConns \/ ShutdownReturns \/ CloseRollsBack

Spec == Init /\ [][Next]_vars

\* Goroutines run, time passes and the expiry loop ticks; a goroutine that waits
\* for the lock is not passed over for ever (sync.Mutex serves in turn those who
\* have waited for a millisecond).  No client has to do anything.
FairSpec ==
    /\ Spec
    /\ \A c \in Conns : WF_vars(Handler(c)) /\ SF_vars(Locked(c))
    /\ \A r \in Requests : WF_vars(HttpHandler(r)) /\ SF_vars(HttpLocked(r))
    /\ \A i \in TxIds : WF_vars(Age(i)) /\ WF_vars(Expire(i))
    /\ WF_vars(AcceptEnds) /\ WF_vars(LoopEnds) /\ WF_vars(Closing)

-----------------------------------------------------------------------------
(* Properties.                                                             *)

Handlers == {c \in Conns : conn[c].pc # "away"}

\* The semaphore and the wait group count the goroutines that are there, in all
\* interleavings of accepting, leaving and closing; and Close can find every
\* connection of a handler, until it has forgotten them.
CountsAgree ==
    /\ permits = Cardinality(Handlers \cup ({acceptor} \cap Conns))
    /\ tcpWg = Cardinality(Handlers) + (IF acceptor = "done" THEN 0 ELSE 1)
    /\ closing \in {"no", "signalled", "refusing"} => tcpConns = Handlers

\* The map holds at most one transaction, the one that has the lock: none in it
\* was ended by its client, by the loop or by Close.
MapHoldsTheLock == ~lost => \A i \in httpTxMap : lock = i

\* The lock is held by somebody who will give it back or can be asked to: an
\* open connection or a handler about to notice that it is closed, a statement,
\* a request, or the map.
LockIsReachable ==
    lock # NoOne /\ ~lost =>
        \/ \E c \in Conns : lock = c /\ (conn[c].tx \/ conn[c].pc = "running")
        \/ \E r \in Requests : lock = r /\ request[r].pc = "running"
        \/ \E r \in Requests : lock = request[r].tx
        \/ lock \in httpTxMap

\* An HTTP client that goes away does not keep the lock: every HTTP transaction
\* ends, unless it is used again and again, the server closes, or a call fails.
AbandonedTxEnds ==
    \A i \in TxIds :
        []<>(lock # i) \/ []<>(i \in httpTxMap \ stale) \/ <>(~loop) \/ <>lost

\* Close hangs in tcpWg.Wait only where a handler waits for a lock that an HTTP
\* transaction holds, or for a client whose connection was accepted too late to
\* be closed.
Overlooked == \E c \in Conns : conn[c].open
Blocked == lock \in TxIds /\ \E c \in Conns : conn[c].pc \in {"begin", "auto"}
CloseEndsOrHangs ==
    closing # "no" ~> (closing = "done" \/ lost \/ [](closing = "waiting" /\ (Overlooked \/ Blocked)))
=============================================================================
