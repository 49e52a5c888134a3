-------------------------------- MODULE Query --------------------------------
(***************************************************************************)
(* A session that sends texts of SQL: ProcessQuery of                      *)
(* internal/network/server.go, from the text over the program and each     *)
(* statement's plan to its answer, in a transaction or without one, with   *)
(* crashes and restarts.  Parser, Planner and Executor define what each    *)
(* step does.  Other sessions are left to Catalog.                         *)
(***************************************************************************)
EXTENDS Executor
LOCAL INSTANCE SequencesExt

CONSTANTS
    LoneTexts,      \* the texts of which a session sends one and no other,
    Texts,          \* or those of which it sends several
    MaxTexts,       \* how many texts it sends
    Setup           \* the texts that made the tables it finds

ASSUME QueryAssumption == MaxTexts \in Nat

VARIABLES
    world,      \* what the database holds, as the session sees it
    before,     \* the world when its transaction began; NoTx without one
    status,     \* "idle", "parsing", "executing", "hangs" or "down"
    text,       \* the text that is processed
    at,         \* the index of the parser's current token
    program,    \* the statements parsed and not yet executed
    answers,    \* the results of those executed
    unkept,     \* the roots of indexes that an insertion passed over
    left        \* how many texts the session may still send

vars == <<world, before, status, text, at, program, answers, unkept, left>>

NoTx == <<>>
InTx == before # NoTx

-----------------------------------------------------------------------------
(* Parsing.  ParseProgram appends what ParseStatement gives, also a nil    *)
(* that is typed and so is not nil; a program with an error is dropped.    *)

Extended(statements, s) == IF s.node = Nothing THEN statements ELSE Append(statements, s.node)

RECURSIVE ParseProgram(_, _, _)
ParseProgram(ts, i, sofar) ==
    LET s == ParseStatement(ts, i) IN
    IF Is(ts, i, "EOF") THEN Parsed(sofar, i)
    ELSE IF Bad(s) THEN s
    ELSE ParseProgram(ts, s.at + 1, Extended(sofar, s))

\* The session waits for the next request.
Listen ==
    status' = "idle" /\ text' = <<>> /\ at' = 1 /\ program' = <<>> /\ answers' = <<>>

Submit(t, remaining) ==
    /\ status = "idle"
    /\ status' = "parsing" /\ text' = t /\ left' = remaining
    /\ UNCHANGED <<world, before, at, program, answers, unkept>>

ParseNext ==
    /\ status = "parsing" /\ ~Is(text, at, "EOF")
    /\ \E s \in {ParseStatement(text, at)} :
          /\ s.verdict = "ok"
          /\ at' = s.at + 1
          /\ program' = Extended(program, s)
    /\ UNCHANGED <<world, before, status, text, answers, unkept, left>>

\* A parsing error, or a text without a statement.
Refuse ==
    /\ status = "parsing"
    /\ IF Is(text, at, "EOF") THEN program = <<>>
       ELSE ParseStatement(text, at).verdict = "refused"
    /\ Listen
    /\ UNCHANGED <<world, before, unkept, left>>

Hang ==
    /\ status = "parsing" /\ ~Is(text, at, "EOF")
    /\ ParseStatement(text, at).verdict = "hangs"
    /\ status' = "hangs"
    /\ UNCHANGED <<world, before, text, at, program, answers, unkept, left>>

ParseEnds ==
    /\ status = "parsing" /\ Is(text, at, "EOF") /\ program # <<>>
    /\ status' = "executing"
    /\ UNCHANGED <<world, before, text, at, program, answers, unkept, left>>

-----------------------------------------------------------------------------
(* Execution.                                                              *)

\* The names of indexes: one of two on a column is written last.
IndexNames(w) == UNION {DOMAIN w.tables[t].idx : t \in DOMAIN w.tables}

RunStatement(w, s, inTx, last) == Execute(w, Optimize(Plan(s), w.tables), inTx, last)

\* The indexes of a table that an insertion passes over.
PassedOver(w, s) ==
    IF s.kind # "insert" \/ ~Exists(w, s.table) THEN {}
    ELSE LET meta == w.tables[s.table] IN
         {meta.idx[n].root : n \in {m \in DOMAIN meta.idx : ~HasColumn(meta.cols, m)}}

\* An error is an answer; the next statement is executed all the same.
ExecuteNext ==
    /\ status = "executing" /\ program # <<>> /\ Head(program) # Nil
    /\ \E last \in IndexNames(world) \cup {""} :
          \E r \in {RunStatement(world, Head(program), InTx, last)} :
             /\ world' = r.world
             /\ answers' = Append(answers, [ok |-> r.ok, rows |-> r.rows])
    /\ unkept' = unkept \cup PassedOver(world, Head(program))
    /\ program' = Tail(program)
    /\ UNCHANGED <<before, status, text, at, left>>

\* The planner reads a field of the typed nil: a panic in the goroutine of a
\* connection, which ends the process.
Panic ==
    /\ status = "executing" /\ program # <<>> /\ Head(program) = Nil
    /\ status' = "down"
    /\ UNCHANGED <<world, before, text, at, program, answers, unkept, left>>

Reply ==
    /\ status = "executing" /\ program = <<>>
    /\ Listen
    /\ UNCHANGED <<world, before, unkept, left>>

-----------------------------------------------------------------------------
(* Transactions and restarts.                                              *)

BeginTx ==
    /\ status = "idle" /\ ~InTx
    /\ before' = world
    /\ UNCHANGED <<world, status, text, at, program, answers, unkept, left>>

CommitTx ==
    /\ status = "idle" /\ InTx
    /\ world' = Committed(world) /\ before' = NoTx
    /\ UNCHANGED <<status, text, at, program, answers, unkept, left>>

RollbackTx ==
    /\ status = "idle" /\ InTx
    /\ world' = RolledBack(before, world) /\ before' = NoTx
    /\ UNCHANGED <<status, text, at, program, answers, unkept, left>>

\* What a start makes of the files: recovery redoes the page 0 of the log.
Restarted(w) ==
    LET page0 == IF w.logged = <<>> THEN w.page0 ELSE w.logged IN
    [w EXCEPT !.page0 = page0, !.tables = page0, !.logged = <<>>]

\* The process is killed, or has panicked, and starts again.
Restart ==
    /\ world' = Restarted(IF InTx THEN RolledBack(before, world) ELSE world)
    /\ before' = NoTx
    /\ Listen
    /\ UNCHANGED <<unkept, left>>

-----------------------------------------------------------------------------
\* The tables that are there: Setup was executed before the session.
RECURSIVE After(_, _)
After(w, statements) ==
    IF statements = <<>> THEN w
    ELSE After(RunStatement(w, Head(statements), FALSE, "").world, Tail(statements))

Init ==
    /\ world = After(EmptyWorld, FlattenSeq([i \in DOMAIN Setup |-> ParseProgram(Setup[i], 1, <<>>).node]))
    /\ before = NoTx /\ status = "idle"
    /\ text = <<>> /\ at = 1 /\ program = <<>> /\ answers = <<>>
    /\ unkept = {} /\ left = MaxTexts

Next ==
    \/ left > 0 /\ \E t \in Texts : Submit(t, left - 1)
    \/ left = MaxTexts /\ \E t \in LoneTexts : Submit(t, 0)
    \/ ParseNext \/ Refuse \/ Hang \/ ParseEnds
    \/ ExecuteNext \/ Panic \/ Reply
    \/ BeginTx \/ CommitTx \/ RollbackTx \/ Restart

Spec == Init /\ [][Next]_vars
=============================================================================
