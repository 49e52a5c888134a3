------------------------------ MODULE ChatProofs ------------------------------
(***************************************************************************)
(* The answer that a request is given is its own, however often the model  *)
(* is asked.                                                               *)
(***************************************************************************)
EXTENDS Chat, SequenceTheorems, TLAPS

-----------------------------------------------------------------------------
(* The inductive invariant.                                                *)

Methods == Known \cup {"notifications/initialized"}
Lines   == [id : Nat, method : Methods, what : {"request"} \cup ToolAnswers]

\* A line whose id is still pending is that of the request that waits: what
\* stays pending without an answer was never written.
Fits == {line \in Lines :
            /\ line.id \in 0..lastId
            /\ line.id \in pending =>
                  step = "wait" /\ answer = <<>> /\ line.id = lastId /\ line.method = method}

ChatInv ==
    /\ lastId \in Nat /\ pending \subseteq 1..lastId
    /\ method \in Known
    /\ stdin \in Seq(Fits) /\ stdout \in Seq(Fits)
    /\ answer # <<>> =>
          /\ step = "wait" /\ answer[1] \in Lines
          /\ answer[1].id = lastId /\ answer[1].method = method

-----------------------------------------------------------------------------
(* Steps of the handler.                                                   *)

\* A request or an end that writes nothing, at a step where nothing waits.
LEMMA PipesStay ==
    ASSUME ChatInv, UNCHANGED <<lastId, pending, answer, stdin, stdout>>, method' \in Known,
           UNCHANGED <<step, method>> \/ step # "wait"
    PROVE  ChatInv'
<1>1. Fits \subseteq Fits'
    BY DEF Fits
<1>2. stdin' \in Seq(Fits') /\ stdout' \in Seq(Fits')
    BY <1>1, SeqMonotonic DEF ChatInv
<1>. QED
    BY <1>2 DEF ChatInv

\* The notification has no id, and is answered by nothing that waits.
LEMMA AfterFits ==
    ASSUME ChatInv, NEW m \in Known, NEW worked, After(m, worked), m = method,
           Fits \subseteq Fits', 0 \in 0..lastId', 0 \notin pending'
    PROVE  stdin' \in Seq(Fits') /\ method' \in Known
<1>1. stdin \in Seq(Fits')
    BY SeqMonotonic DEF ChatInv
<1>2. Asks(None, "notifications/initialized") \in Fits'
    BY DEF Fits, Asks, Line, Lines, Methods, None
<1>3. Append(stdin, Asks(None, "notifications/initialized")) \in Seq(Fits')
    BY <1>1, <1>2, AppendProperties
<1>4. method' \in Known
    BY DEF After, Known
<1>. QED
    BY <1>1, <1>3, <1>4 DEF After

LEMMA SendKeeps == ASSUME ChatInv, Send PROVE ChatInv'
<1>1. /\ lastId \in Nat /\ lastId' = lastId + 1 /\ pending' = pending \cup {lastId'}
      /\ step = "send" /\ step' = "wait" /\ answer' = <<>> /\ method' = method /\ method \in Known
      /\ pending \subseteq 1..lastId
    BY DEF ChatInv, Send
<1>2. Fits \subseteq Fits'
    BY <1>1 DEF Fits
<1>3. Asks(lastId', method) \in Fits'
    BY <1>1 DEF Fits, Asks, Line, Lines, Methods
<1>4. stdin \in Seq(Fits') /\ stdout \in Seq(Fits')
    BY <1>2, SeqMonotonic DEF ChatInv
<1>5. stdin' \in Seq(Fits')
    BY <1>3, <1>4, AppendProperties DEF Send
<1>6. pending' \subseteq 1..lastId'
    BY <1>1
<1>. QED
    BY <1>1, <1>4, <1>5, <1>6 DEF ChatInv, Send

LEMMA SendFailsKeeps == ASSUME ChatInv, SendFails PROVE ChatInv'
<1>1. /\ lastId \in Nat /\ lastId' = lastId + 1 /\ pending' = pending \cup {lastId'}
      /\ step = "send" /\ method \in Known /\ answer' = answer /\ pending \subseteq 1..lastId
      /\ stdout' = stdout
    BY DEF ChatInv, SendFails
<1>2. Fits \subseteq Fits'
    BY <1>1 DEF Fits
<1>3. stdout' \in Seq(Fits')
    BY <1>1, <1>2, SeqMonotonic DEF ChatInv
<1>4. After(method, FALSE)
    BY DEF SendFails
<1>5. 0 \in 0..lastId' /\ 0 \notin pending'
    BY <1>1
<1>6. lastId' \in Nat /\ pending' \subseteq 1..lastId'
    BY <1>1
<1>7. stdin' \in Seq(Fits') /\ method' \in Known
    BY <1>1, <1>2, <1>4, <1>5, AfterFits
<1>. QED
    BY <1>1, <1>3, <1>6, <1>7 DEF ChatInv

LEMMA ReceiveKeeps == ASSUME ChatInv, Receive PROVE ChatInv'
<1>1. /\ lastId \in Nat /\ UNCHANGED <<lastId, pending, stdout>> /\ pending \subseteq 1..lastId
      /\ answer # <<>> /\ answer' = <<>> /\ method \in Known
    BY DEF ChatInv, Receive
<1>2. Fits \subseteq Fits'
    BY <1>1 DEF Fits
<1>3. stdout' \in Seq(Fits')
    BY <1>1, <1>2, SeqMonotonic DEF ChatInv
<1>4. stdin' \in Seq(Fits') /\ method' \in Known
    BY <1>1, <1>2, AfterFits DEF Receive
<1>. QED
    BY <1>1, <1>3, <1>4 DEF ChatInv

-----------------------------------------------------------------------------
(* Steps of the process and of readLoop.                                   *)

\* An answer has the id and the method of its request.
LEMMA ServeKeeps == ASSUME ChatInv, Serve PROVE ChatInv'
<1>1. UNCHANGED <<lastId, pending, answer, step, method>> /\ Fits' = Fits
    BY DEF Serve, Fits
<1>2. Head(stdin) \in Fits /\ stdin' \in Seq(Fits)
    BY HeadTailProperties DEF ChatInv, Serve
<1>3. PICK what \in Answers(Head(stdin).method) :
            stdout' = Append(stdout, Line(Head(stdin).id, Head(stdin).method, what))
    BY DEF Serve, Reply
<1>4. Line(Head(stdin).id, Head(stdin).method, what) \in Fits
    BY <1>2, <1>3 DEF Fits, Lines, Line, Answers, ToolAnswers
<1>5. stdout' \in Seq(Fits)
    BY <1>3, <1>4, AppendProperties DEF ChatInv
<1>. QED
    BY <1>1, <1>2, <1>5 DEF ChatInv

LEMMA LoopKeeps == ASSUME ChatInv, Loop PROVE ChatInv'
<1>1. UNCHANGED <<lastId, pending, answer, step, method, stdout>> /\ Fits' = Fits
    BY DEF Loop, Fits
<1>2. stdin' \in Seq(Fits)
    BY HeadTailProperties DEF ChatInv, Loop
<1>. QED
    BY <1>1, <1>2 DEF ChatInv

LEMMA ReadLineKeeps == ASSUME ChatInv, ReadLine PROVE ChatInv'
<1>. DEFINE line == Head(stdout)
<1>1. line \in Fits /\ stdout' \in Seq(Fits) /\ stdin' = stdin /\ stdin \in Seq(Fits)
    BY HeadTailProperties DEF ChatInv, ReadLine
<1>2. UNCHANGED <<lastId, step, method>>
    BY DEF ReadLine
<1>3. CASE UNCHANGED <<pending, answer>>
    <2>1. Fits' = Fits
        BY <1>2, <1>3 DEF Fits
    <2>. QED
        BY <1>1, <1>2, <1>3, <2>1 DEF ChatInv
<1>4. CASE line.id \in pending /\ pending' = pending \ {line.id} /\ answer' = <<line>>
    <2>1. step = "wait" /\ line \in Lines /\ line.id = lastId /\ line.method = method
        BY <1>1, <1>4 DEF Fits
    <2>2. Fits \subseteq Fits'
        BY <1>2, <1>4, <2>1 DEF Fits
    <2>3. stdin' \in Seq(Fits') /\ stdout' \in Seq(Fits')
        BY <1>1, <2>2, SeqMonotonic
    <2>4. pending' \subseteq 1..lastId
        BY <1>4 DEF ChatInv
    <2>5. answer'[1] = line
        BY <1>4
    <2>. HIDE DEF line
    <2>. QED
        BY <1>2, <2>1, <2>3, <2>4, <2>5 DEF ChatInv
<1>. QED
    BY <1>3, <1>4 DEF ReadLine, Awaited

-----------------------------------------------------------------------------
(* The invariant, and the property.                                        *)

LEMMA ChatInvInit == Init => ChatInv
<1>. SUFFICES ASSUME Init PROVE ChatInv
    OBVIOUS
<1>1. <<>> \in Seq(Fits)
    BY EmptySeq
<1>2. method \in Known
    BY DEF Init, Known
<1>3. lastId \in Nat /\ pending \subseteq 1..lastId
    BY DEF Init
<1>4. stdin = <<>> /\ stdout = <<>> /\ answer = <<>>
    BY DEF Init
<1>. QED
    BY <1>1, <1>2, <1>3, <1>4 DEF ChatInv

LEMMA ChatInvStep == ChatInv /\ [Next]_vars => ChatInv'
<1>. SUFFICES ASSUME ChatInv, [Next]_vars PROVE ChatInv'
    OBVIOUS
<1>1. CASE Start \/ Model \/ Close \/ Die \/ ReaderEnds \/ UNCHANGED vars
    <2>1. UNCHANGED <<lastId, pending, answer, stdin, stdout>>
        BY <1>1 DEF Start, Model, Close, Die, ReaderEnds, vars
    <2>2. method' \in Known /\ (UNCHANGED <<step, method>> \/ step # "wait")
        BY <1>1 DEF ChatInv, Known, Start, Model, Close, Die, ReaderEnds, vars
    <2>. QED
        BY <2>1, <2>2, PipesStay
<1>. QED
    BY <1>1, SendKeeps, SendFailsKeeps, ReceiveKeeps, ServeKeeps, LoopKeeps, ReadLineKeeps
    DEF Next, Handler, Reader

\* The answer that the handler takes is that of the request it made last,
\* although the process answers the notification too and requests that failed
\* stay pending.
THEOREM AnswersAreTheirOwn == Spec => AnswersMatch
<1>. DEFINE Own == Receive => got'.id = lastId /\ got'.method = method
<1>1. ChatInv /\ [Next]_vars => [Own]_vars
    BY DEF ChatInv, Receive
<1>. HIDE DEF Own
<1>2. Spec => [][Own]_vars
    BY <1>1, ChatInvInit, ChatInvStep, PTL DEF Spec
<1>. QED
    BY <1>2 DEF AnswersMatch, Own
=============================================================================
