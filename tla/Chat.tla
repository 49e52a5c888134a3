--------------------------------- MODULE Chat ---------------------------------
(***************************************************************************)
(* A chat with an AI model that may call tools: CallModel of               *)
(* internal/network/ai.go, the client of mcp_client.go with its goroutine  *)
(* readLoop, and the process it starts, which runs RunMCPServer of mcp.go  *)
(* on its standard input and output.  Requests and answers are lines in    *)
(* two pipes.                                                              *)
(*                                                                         *)
(* A line has the id and the method of the request it answers or makes;    *)
(* id None stands for null or for none.  What a tool does to the database  *)
(* is left to Query; the reload of the catalog at the end of a chat is     *)
(* ReloadCatalog of Catalog.                                               *)
(***************************************************************************)
EXTENDS Integers, Sequences, FiniteSets

CONSTANT
    MaxLoops    \* how often the model is asked; 5 in the code

ASSUME ChatAssumption == MaxLoops \in Nat

None == 0

VARIABLES
    step,       \* what the handler does
    method,     \* the request it makes or waits for
    lastId,     \* MCPClient.reqID
    pending,    \* the ids of MCPClient.pending
    answer,     \* what is in the channel of the request, as a sequence
    stdin, stdout,  \* the pipes
    reader,     \* whether readLoop runs
    child,      \* "none", "running", "loops" or "dead"
    loops,      \* how often the model was asked
    got         \* the answer that the handler took last

vars == <<step, method, lastId, pending, answer, stdin, stdout, reader, child, loops, got>>

Line(id, m, what) == [id |-> id, method |-> m, what |-> what]
Asks(id, m)       == Line(id, m, "request")

Ended == step \in {"replied", "failed"}

-----------------------------------------------------------------------------
(* The handler: CallModel, and the requests that it makes.                 *)

\* NewMCPClient starts the process, and readLoop; without it the chat has no
\* tools.
Start ==
    /\ step = "start"
    /\ \/ /\ child' = "running" /\ reader' = TRUE
          /\ step' = "send" /\ method' = "initialize"
       \/ /\ step' = "model" /\ UNCHANGED <<child, reader, method>>
    /\ UNCHANGED <<lastId, pending, answer, stdin, stdout, loops, got>>

\* What follows a request, answered or not: its errors are ignored or shown
\* to the model.  Only an initialization that worked is followed by the
\* notification, which has no id; if it cannot be written nothing is said.
After(m, worked) ==
    IF m = "initialize"
    THEN /\ step' = "send" /\ method' = "tools/list"
         /\ stdin' = IF worked /\ child # "dead"
                     THEN Append(stdin, Asks(None, "notifications/initialized")) ELSE stdin
    ELSE step' = "model" /\ UNCHANGED <<method, stdin>>

\* sendRequest: the request is pending before it is written.
Send ==
    /\ step = "send" /\ child # "dead"
    /\ lastId' = lastId + 1 /\ pending' = pending \cup {lastId'}
    /\ stdin' = Append(stdin, Asks(lastId', method))
    /\ step' = "wait" /\ answer' = <<>>
    /\ UNCHANGED <<method, stdout, reader, child, loops, got>>

\* The pipe has no reader any more; the request stays pending.
SendFails ==
    /\ step = "send" /\ child = "dead"
    /\ lastId' = lastId + 1 /\ pending' = pending \cup {lastId'}
    /\ After(method, FALSE)
    /\ UNCHANGED <<answer, stdout, reader, child, loops, got>>

Receive ==
    /\ step = "wait" /\ answer # <<>>
    /\ got' = answer[1] /\ answer' = <<>>
    /\ After(method, answer[1].what # "error")
    /\ UNCHANGED <<lastId, pending, stdout, reader, child, loops>>

\* callModelOnce has a timeout.  The model asks for a tool, or the chat ends:
\* with a reply, an error, or too many tools.
Model ==
    /\ step = "model"
    /\ \/ /\ loops < MaxLoops /\ loops' = loops + 1
          /\ IF child = "none" THEN UNCHANGED <<step, method>>
             ELSE step' = "send" /\ method' = "tools/call"
       \/ /\ loops < MaxLoops /\ step' = "replied" /\ UNCHANGED <<loops, method>>
       \/ step' = "failed" /\ UNCHANGED <<loops, method>>
    /\ UNCHANGED <<lastId, pending, answer, stdin, stdout, reader, child, got>>

\* MCPClient.Close, deferred by CallModel.
Close ==
    /\ Ended /\ child \in {"running", "loops"}
    /\ child' = "dead"
    /\ UNCHANGED <<step, method, lastId, pending, answer, stdin, stdout, reader, loops, got>>

-----------------------------------------------------------------------------
(* The process: RunMCPServer.                                              *)

\* The method of the notification is not the one that the switch knows, so
\* it is answered by an error without an id.
Known == {"initialize", "tools/list", "tools/call"}

Reply(line, what) ==
    stdout' = Append(stdout, Line(line.id, line.method, what))

\* handleMCPToolsCall: no such tool or bad arguments; what the tool says, its
\* own errors included; or rows that make a line longer than readLoop's buffer.
ToolAnswers == {"error", "result", "long"}

Answers(m) ==
    IF m \notin Known THEN {"error"} ELSE IF m = "tools/call" THEN ToolAnswers ELSE {"result"}

Serve ==
    LET line == Head(stdin) IN
    /\ child = "running" /\ stdin # <<>>
    /\ stdin' = Tail(stdin)
    /\ \E what \in Answers(line.method) : Reply(line, what)
    /\ UNCHANGED <<step, method, lastId, pending, answer, reader, child, loops, got>>

\* A query that the parser never finishes.
Loop ==
    /\ child = "running" /\ stdin # <<>> /\ Head(stdin).method = "tools/call"
    /\ stdin' = Tail(stdin) /\ child' = "loops"
    /\ UNCHANGED <<step, method, lastId, pending, answer, stdout, reader, loops, got>>

\* A panic, a database that it cannot open, or a kill.
Die ==
    /\ child \in {"running", "loops"} /\ child' = "dead"
    /\ UNCHANGED <<step, method, lastId, pending, answer, stdin, stdout, reader, loops, got>>

-----------------------------------------------------------------------------
(* readLoop.                                                               *)

\* Mutant: an error is nobody's answer.
NoError(line) == line.id \in pending /\ line.what # "error"

\* Mutant: whatever comes is handed to the request that waits.
AnyLine(line) == TRUE

\* Whether there is a request that the line answers.
Awaited(line) == line.id \in pending

ReadLine ==
    LET line == Head(stdout) IN
    /\ reader /\ stdout # <<>> /\ line.what # "long"
    /\ stdout' = Tail(stdout)
    /\ IF Awaited(line)
       THEN pending' = pending \ {line.id} /\ answer' = <<line>>
       ELSE UNCHANGED <<pending, answer>>
    /\ UNCHANGED <<step, method, lastId, stdin, reader, child, loops, got>>

\* The scanner ends at the end of the pipe, and at a line that is longer than
\* its buffer.
ReaderEnds ==
    /\ reader
    /\ IF stdout = <<>> THEN child = "dead" ELSE Head(stdout).what = "long"
    /\ reader' = FALSE
    /\ UNCHANGED <<step, method, lastId, pending, answer, stdin, stdout, child, loops, got>>

-----------------------------------------------------------------------------
Init ==
    /\ step = "start" /\ method = "initialize" /\ lastId = 0 /\ pending = {}
    /\ answer = <<>> /\ stdin = <<>> /\ stdout = <<>>
    /\ reader = FALSE /\ child = "none" /\ loops = 0 /\ got = Line(None, "", "")

Handler == Start \/ Send \/ SendFails \/ Receive \/ Model \/ Close
Reader  == ReadLine \/ ReaderEnds

Next == Handler \/ Serve \/ Loop \/ Die \/ Reader

\* The handler and readLoop are goroutines and the process is scheduled by
\* the system: each goes on when it can.  Nothing makes a process break.
Fairness == WF_vars(Handler) /\ WF_vars(Serve) /\ WF_vars(Reader)

Spec == Init /\ [][Next]_vars /\ Fairness

-----------------------------------------------------------------------------
(* Properties.                                                             *)

\* The answer that a request is given is its own, although the process also
\* answers the notification, which nobody waits for, and a request whose
\* answer never came stays pending.
AnswersMatch ==
    [][Receive => got'.id = lastId /\ got'.method = method]_vars

\* What leaves a request without an answer for ever: no answer will be
\* written, or nobody reads it.
Broken == child \in {"loops", "dead"} \/ ~reader

\* Every chat comes to an end, and then its process and readLoop do, unless
\* the process broke, or readLoop ended, while the chat waited for an answer:
\* there is no timeout, and nobody is told.
ChatEnds ==
    /\ step = "start" ~> Ended \/ (step = "wait" /\ Broken)
    /\ Ended ~> child \in {"none", "dead"} /\ ~reader
=============================================================================
