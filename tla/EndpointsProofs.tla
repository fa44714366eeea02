--------------------------- MODULE EndpointsProofs ---------------------------
(***************************************************************************)
(* Answers, log lines and verdicts of Endpoints, for any number of         *)
(* connections.                                                            *)
(***************************************************************************)
EXTENDS Endpoints, FiniteSetTheorems, TLAPS

Writer(code, pieces) == [status |-> code, wroteHeader |-> TRUE, written |-> pieces]

\* A request's writers after the header r asks for, after the whole answer, and
\* after Recover wrote its own.
Headed(r)   == [l \in Wire .. AccessLogWriter |-> Writer(r.code, << >>)]
Answered(r) == [l \in Wire .. AccessLogWriter |-> Writer(r.code, <<r.piece>>)]
Recovered   == [l \in Wire .. AccessLogWriter |->
                   IF l <= RecoverWriter
                   THEN Writer(InternalServerError, <<"internalError">>)
                   ELSE newResponseWriter]

Untouched == {"idle", "handler", "read", "answer"} \cup Recording

\* The writers as the place of the handler tells them.
WritersFollow(c) ==
    /\ pc[c] \in Untouched => writers[c] = Chain
    /\ pc[c] = "body" => writers[c] = Headed(reply[c])
    /\ pc[c] = "return" => writers[c] = Answered(reply[c])
    /\ pc[c] = "panicked" => writers[c] \in {Chain, Headed(reply[c])}
    /\ pc[c] = "done" => writers[c] \in {Answered(reply[c]), Headed(reply[c]), Recovered}

\* A line is printed after a whole answer.
LineFollows(c) ==
    c \in DOMAIN line =>
        /\ pc[c] = "done"
        /\ writers[c] = Answered(reply[c])
        /\ line[c].status = reply[c].code
        /\ line[c].written = <<reply[c].piece>>

\* What is answered to a scheduling request: the worker that Schedule named, with
\* a slot or without, or an error, and then it holds no slot.
Honest(c) ==
    \/ outcome[c] = "named" /\ reply[c] = Reply(StatusOK, WorkerJSON)
    \/ c \notin reserved /\ reply[c].code # StatusOK

SlotFollows(c) ==
    /\ pc[c] \in {"idle", "handler"} => c \notin reserved
    /\ endpoint[c] = "schedule" =>
        /\ pc[c] # "read"
        /\ pc[c] \in Recording \cup {"answer", "body", "return"} => Honest(c)
        /\ pc[c] = "done" /\ writers[c] = Answered(reply[c]) => Honest(c)

WireOK(c) == WritersFollow(c) /\ LineFollows(c) /\ SlotFollows(c)
WireInv == \A c \in Conn : WireOK(c)

\* TypeOK, of the writers only that each connection has some.
Typed ==
    /\ counter \in [Field -> Nat]
    /\ pc \in [Conn -> PC]
    /\ endpoint \in [Conn -> Endpoint \cup {Nothing}]
    /\ outcome \in [Conn -> {"named", "failed", "heard", Nothing}]
    /\ reply \in [Conn -> [code : Status, piece : Piece]]
    /\ writers = [c \in Conn |-> writers[c]]
    /\ DOMAIN line \subseteq Conn
    /\ snap \in [Conn -> [Field -> Nat]]
    /\ next \in [Conn -> 1 .. Len(ReadOrder) + 1]
    /\ reserved \subseteq Conn
    /\ before \in [Conn -> SUBSET Conn]
    /\ midway \in [Conn -> Nat]

\* A step that leaves connection c alone.
Rests(c) ==
    /\ pc'[c] = pc[c] /\ endpoint'[c] = endpoint[c] /\ outcome'[c] = outcome[c]
    /\ reply'[c] = reply[c] /\ writers'[c] = writers[c]
    /\ c \in DOMAIN line' <=> c \in DOMAIN line
    /\ c \in DOMAIN line => line'[c] = line[c]
    /\ c \in reserved' <=> c \in reserved

\* There are three writers, 1 the outermost.
LEMMA WriterLevels ==
    /\ Wire .. AccessLogWriter = {1, 2, 3}
    /\ Wire .. AccessLogWriter = 1 .. 3
    /\ Wire = 1 /\ RecoverWriter = 2 /\ AccessLogWriter = 3
BY DEF Wire, AccessLogWriter, RecoverWriter

\* WriteHeader when no writer from l outwards has begun, and when writer l has.
LEMMA HeaderPasses ==
    ASSUME NEW c, DOMAIN c = 1 .. 3, NEW l \in 1 .. 3, NEW code,
           \A k \in 1 .. l : ~c[k].wroteHeader
    PROVE  WriteHeader(c, l, code) =
               [k \in 1 .. 3 |-> IF k <= l THEN Writer(code, c[k].written) ELSE c[k]]
<1>1. \A k \in 1 .. 3 : k <= l => \A j \in k .. l : ~c[j].wroteHeader
    OBVIOUS
<1> QED
    BY <1>1 DEF WriteHeader, Writer

\* A writer that has begun passes no header on.
LEMMA HeaderStops ==
    ASSUME NEW c, c = [k \in 1 .. 3 |-> c[k]], NEW l \in 1 .. 3, NEW code, c[l].wroteHeader
    PROVE  WriteHeader(c, l, code) = c
<1>1. \A k \in 1 .. 3 : k <= l => ~\A j \in k .. l : ~c[j].wroteHeader
    OBVIOUS
<1>2. DOMAIN c = 1 .. 3
    OBVIOUS
<1>3. WriteHeader(c, l, code) = [k \in 1 .. 3 |-> c[k]]
    BY <1>1, <1>2 DEF WriteHeader
<1> QED
    BY <1>3

\* A new writer has not begun and holds nothing.
LEMMA FreshWriter == newResponseWriter.written = << >> /\ ~newResponseWriter.wroteHeader
BY DEF newResponseWriter

\* What the fields of a begun writer are.
LEMMA BegunWriter ==
    ASSUME NEW code, NEW ps
    PROVE  /\ Writer(code, ps).status = code
           /\ Writer(code, ps).wroteHeader
           /\ Writer(code, ps).written = ps
BY DEF Writer

\* Write on writer l when its header is out.
LEMMA BodyPasses ==
    ASSUME NEW c, c = [k \in 1 .. 3 |-> c[k]], NEW l \in 1 .. 3, NEW code, NEW piece,
           \A k \in 1 .. l : c[k] = Writer(code, << >>),
           NEW d, d = [k \in 1 .. 3 |-> d[k]],
           \A k \in 1 .. 3 : d[k] = IF k <= l THEN Writer(code, <<piece>>) ELSE c[k]
    PROVE  Write(c, l, piece) = d
<1>1. DOMAIN c = 1 .. 3
    OBVIOUS
<1>2. c[l].wroteHeader
    <2>1. l \in 1 .. l
        OBVIOUS
    <2>2. c[l] = Writer(code, << >>)
        BY <2>1
    <2> QED
        BY <2>2 DEF Writer
<1>3. WriteHeader(c, l, StatusOK) = c
    BY <1>2, HeaderStops
<1>4. ASSUME NEW k \in 1 .. l
      PROVE  [status |-> c[k].status, wroteHeader |-> c[k].wroteHeader,
              written |-> Append(c[k].written, piece)] = Writer(code, <<piece>>)
    <2> DEFINE w == Writer(code, << >>)
    <2>1. Append(<< >>, piece) = <<piece>>
        OBVIOUS
    <2>2. w.status = code /\ w.wroteHeader = TRUE /\ w.written = << >>
        BY DEF Writer
    <2>3. [status |-> w.status, wroteHeader |-> w.wroteHeader,
           written |-> Append(w.written, piece)] = Writer(code, <<piece>>)
        <3> HIDE DEF w
        <3> QED
            BY <2>1, <2>2 DEF Writer
    <2>4. c[k] = w
        OBVIOUS
    <2> HIDE DEF w
    <2> QED
        BY <2>3, <2>4, Zenon
<1>5. Write(c, l, piece) =
         [k \in 1 .. 3 |->
             IF k <= l
             THEN [status |-> c[k].status, wroteHeader |-> c[k].wroteHeader,
                   written |-> Append(c[k].written, piece)]
             ELSE c[k]]
    BY <1>1, <1>3, Zenon DEF Write
<1>6. \A k \in 1 .. 3 : k <= l => k \in 1 .. l
    OBVIOUS
<1> QED
    BY <1>4, <1>5, <1>6

\* The header of an answer, on untouched writers.
LEMMA HeaderOnChain ==
    ASSUME NEW r
    PROVE  WriteHeader(Chain, AccessLogWriter, r.code) = Headed(r)
<1>1. /\ Chain = [k \in 1 .. 3 |-> newResponseWriter]
      /\ Headed(r) = [k \in 1 .. 3 |-> Writer(r.code, << >>)]
    BY WriterLevels DEF Chain, Headed
<1>2. \A k \in 1 .. 3 : ~Chain[k].wroteHeader /\ Chain[k].written = << >>
    <2>1. \A k \in 1 .. 3 : Chain[k] = newResponseWriter
        BY <1>1
    <2> QED
        BY <2>1, FreshWriter, Zenon
<1>3. WriteHeader(Chain, 3, r.code) =
         [k \in 1 .. 3 |-> IF k <= 3 THEN Writer(r.code, Chain[k].written) ELSE Chain[k]]
    <2>1. DOMAIN Chain = 1 .. 3
        BY <1>1
    <2> QED
        BY <1>2, <2>1, HeaderPasses
<1>4. [k \in 1 .. 3 |-> IF k <= 3 THEN Writer(r.code, Chain[k].written) ELSE Chain[k]]
        = [k \in 1 .. 3 |-> Writer(r.code, << >>)]
    BY <1>2
<1> QED
    BY <1>1, <1>3, <1>4, WriterLevels

\* Its body, on writers with that header.
LEMMA BodyOnHeaded ==
    ASSUME NEW r
    PROVE  Write(Headed(r), AccessLogWriter, r.piece) = Answered(r)
<1>1. /\ Headed(r) = [k \in 1 .. 3 |-> Headed(r)[k]]
      /\ \A k \in 1 .. 3 : Headed(r)[k] = Writer(r.code, << >>)
    BY WriterLevels DEF Headed
<1>2. /\ Answered(r) = [k \in 1 .. 3 |-> Answered(r)[k]]
      /\ \A k \in 1 .. 3 : Answered(r)[k] = IF k <= 3 THEN Writer(r.code, <<r.piece>>)
                                            ELSE Headed(r)[k]
    BY WriterLevels DEF Answered
<1>3. 3 \in 1 .. 3
    OBVIOUS
<1> QED
    BY <1>1, <1>2, <1>3, WriterLevels, BodyPasses

\* Recover, when nothing was written before the panic.
LEMMA RecoverOnChain == Recover(Chain, "internalError") = Recovered
<1> DEFINE begun == [k \in 1 .. 3 |-> IF k <= 2 THEN Writer(InternalServerError, << >>)
                                      ELSE newResponseWriter]
<1>1. /\ Chain = [k \in 1 .. 3 |-> newResponseWriter]
      /\ Recovered = [k \in 1 .. 3 |-> Recovered[k]]
      /\ \A k \in 1 .. 3 :
            Recovered[k] = IF k <= 2 THEN Writer(InternalServerError, <<"internalError">>)
                           ELSE newResponseWriter
    BY WriterLevels DEF Chain, Recovered
<1>2. \A k \in 1 .. 3 : ~Chain[k].wroteHeader /\ Chain[k].written = << >>
    <2>1. \A k \in 1 .. 3 : Chain[k] = newResponseWriter
        BY <1>1
    <2> QED
        BY <2>1, FreshWriter, Zenon
<1>3. WriteHeader(Chain, 2, InternalServerError) = begun
    <2>1. WriteHeader(Chain, 2, InternalServerError) =
             [k \in 1 .. 3 |-> IF k <= 2 THEN Writer(InternalServerError, Chain[k].written)
                               ELSE Chain[k]]
        <3>1. DOMAIN Chain = 1 .. 3
            BY <1>1
        <3> QED
            BY <1>2, <3>1, HeaderPasses
    <2>2. \A k \in 1 .. 3 : Chain[k] = newResponseWriter
        BY <1>1
    <2>3. \A k \in 1 .. 3 :
             (IF k <= 2 THEN Writer(InternalServerError, Chain[k].written) ELSE Chain[k])
                = IF k <= 2 THEN Writer(InternalServerError, << >>) ELSE newResponseWriter
        BY <1>2, <2>2, Zenon
    <2> QED
        BY <2>1, <2>3
<1>4. /\ begun = [k \in 1 .. 3 |-> begun[k]]
      /\ \A k \in 1 .. 2 : begun[k] = Writer(InternalServerError, << >>)
      /\ begun[3] = newResponseWriter
    OBVIOUS
<1>5. Write(begun, 2, "internalError") = Recovered
    <2> HIDE DEF begun
    <2>1. ASSUME NEW k \in 1 .. 3
          PROVE  Recovered[k] = IF k <= 2
                                THEN Writer(InternalServerError, <<"internalError">>)
                                ELSE begun[k]
        <3>1. CASE k <= 2
            BY <1>1, <3>1
        <3>2. CASE ~(k <= 2)
            <4>1. k = 3
                BY <3>2
            <4> QED
                BY <1>1, <1>4, <4>1
        <3> QED
            BY <3>1, <3>2
    <2>2. 2 \in 1 .. 3
        OBVIOUS
    <2> QED
        BY <1>1, <1>4, <2>1, <2>2, BodyPasses
<1>6. ~Chain[2].wroteHeader
    <2>1. 2 \in 1 .. 3
        OBVIOUS
    <2> QED
        BY <1>2, <2>1, Zenon
<1> HIDE DEF begun
<1> QED
    BY <1>3, <1>5, <1>6, WriterLevels, Zenon DEF Recover, Error

\* Recover, when the header was out before the panic.
LEMMA RecoverOnHeaded ==
    ASSUME NEW r
    PROVE  Recover(Headed(r), "internalError") = Headed(r)
BY WriterLevels DEF Recover, Headed, Writer

\* The three ends of a request are told apart by the innermost writer.
LEMMA EndsDiffer ==
    ASSUME NEW r
    PROVE  /\ Answered(r) # Recovered
           /\ Answered(r) # Headed(r)
<1>1. Answered(r)[3].wroteHeader /\ ~Recovered[3].wroteHeader
    BY WriterLevels DEF Answered, Recovered, Writer, newResponseWriter
<1>2. Answered(r)[3].written = <<r.piece>> /\ Headed(r)[3].written = << >>
    BY WriterLevels DEF Answered, Headed, Writer
<1>3. <<r.piece>> # << >>
    OBVIOUS
<1> QED
    BY <1>1, <1>2, <1>3

\* The program starts in the invariant.
LEMMA InitInv == Init => Typed /\ WireInv
<1> SUFFICES ASSUME Init PROVE Typed /\ WireInv
    OBVIOUS
<1>1. Typed
    <2>1. NewMetrics \in [Field -> Nat]
        BY DEF NewMetrics
    <2>2. NoReply \in [code : Status, piece : Piece]
        BY DEF NoReply, Reply, Status, Piece
    <2>3. DOMAIN line = {}
        BY DEF Init
    <2>4. Len(ReadOrder) = 5
        BY DEF ReadOrder
    <2>5. "idle" \in PC
        BY DEF PC
    <2> QED
        BY <2>1, <2>2, <2>3, <2>4, <2>5 DEF Init, Typed
<1>2. ASSUME NEW c \in Conn PROVE WireOK(c)
    <2>1. pc[c] = "idle" /\ writers[c] = Chain /\ c \notin reserved /\ endpoint[c] = Nothing
        BY DEF Init
    <2>2. c \notin DOMAIN line
        BY DEF Init
    <2>3. Nothing # "schedule"
        BY DEF Nothing
    <2> QED
        BY <2>1, <2>2, <2>3
        DEF WireOK, WritersFollow, LineFollows, SlotFollows, Untouched, Recording
<1> QED
    BY <1>1, <1>2 DEF WireInv

\* Every step keeps the types.
LEMMA TypedStep == Typed /\ [Next]_vars => Typed'
<1> SUFFICES ASSUME Typed, [Next]_vars PROVE Typed'
    OBVIOUS
<1> USE DEF Typed
<1>1. Len(ReadOrder) = 5 /\ \A i \in 1 .. 5 : ReadOrder[i] \in Field
    BY DEF ReadOrder, Field
<1>2. ASSUME NEW c \in Conn, NEW e \in Endpoint, Accept(c, e) PROVE Typed'
    BY <1>2 DEF Accept, Goto, PC, answerVars
<1>3. ASSUME NEW c \in Conn, RejectRole(c) PROVE Typed'
    BY <1>3 DEF RejectRole, Answering, Goto, PC, Reply, Status, Piece, answerVars, readVars
<1>4. ASSUME NEW c \in Conn, NEW code \in {BadRequest, MethodNotAllowed},
             RejectRequest(c, code)
      PROVE  Typed'
    BY <1>4 DEF RejectRequest, Answering, Goto, PC, Reply, Status, Piece, answerVars, readVars
<1>5. ASSUME NEW c \in Conn, NEW o \in {"named", "failed"}, ScheduleReturns(c, o)
      PROVE  Typed'
    <2>1. /\ Reply(StatusOK, WorkerJSON) \in [code : Status, piece : Piece]
          /\ Reply(ServiceUnavailable, ErrorJSON) \in [code : Status, piece : Piece]
        BY DEF Reply, Status, Piece
    <2>2. reply' \in [Conn -> [code : Status, piece : Piece]]
        BY <1>5, <2>1 DEF ScheduleReturns
    <2>3. reserved' \subseteq Conn
        BY <1>5 DEF ScheduleReturns, Reserving
    <2> QED
        BY <1>5, <2>2, <2>3 DEF ScheduleReturns, Goto, PC, Recording, answerVars, readVars
<1>6. ASSUME NEW c \in Conn, RecordRequest(c) \/ RecordOutcome(c) \/ RecordLatency(c)
      PROVE  Typed'
    <2>1. \E f \in Field : Add(f)
        BY <1>6 DEF RecordRequest, RecordOutcome, RecordLatency, AddRequest, AddOutcome,
                    AddLatency, Field
    <2>2. counter' \in [Field -> Nat]
        BY <2>1 DEF Add
    <2>3. pc' \in [Conn -> PC]
        BY <1>6 DEF RecordRequest, RecordOutcome, RecordLatency, Goto, PC, Recording
    <2> QED
        BY <1>6, <2>2, <2>3 DEF RecordRequest, RecordOutcome, RecordLatency, answerVars,
                                readVars
<1>7. ASSUME NEW c \in Conn, HandleHeartbeat(c) PROVE Typed'
    <2>1. counter' \in [Field -> Nat]
        BY <1>7 DEF HandleHeartbeat, RecordHeartbeat, Add, Field
    <2>2. /\ pc' \in [Conn -> PC]
          /\ reply' \in [Conn -> [code : Status, piece : Piece]]
        <3>1. Reply(StatusOK, "ok") \in [code : Status, piece : Piece]
            BY DEF Reply, Status, Piece
        <3> QED
            BY <1>7, <3>1 DEF HandleHeartbeat, Answering, Goto, PC
    <2>3. outcome' \in [Conn -> {"named", "failed", "heard", Nothing}]
        BY <1>7 DEF HandleHeartbeat
    <2>4. UNCHANGED <<endpoint, writers, line, snap, next, before, midway, reserved>>
        BY <1>7 DEF HandleHeartbeat, answerVars, readVars
    <2> QED
        BY <2>1, <2>2, <2>3, <2>4
<1>8. ASSUME NEW c \in Conn, HandleListWorkers(c) \/ HandleStats(c) \/ SnapshotTaken(c)
      PROVE  Typed'
    <2>1. Reply(StatusOK, "ok") \in [code : Status, piece : Piece]
        BY DEF Reply, Status, Piece
    <2>2. reply' \in [Conn -> [code : Status, piece : Piece]]
        BY <1>8, <2>1 DEF HandleListWorkers, HandleStats, SnapshotTaken, Answering
    <2> QED
        BY <1>8, <2>2 DEF HandleListWorkers, HandleStats, SnapshotTaken, Answering, Goto, PC,
                          answerVars, readVars
<1>9. ASSUME NEW c \in Conn, Load(c) PROVE Typed'
    <2>1. {d \in Conn : pc[d] = "outcome"} \subseteq Conn
        OBVIOUS
    <2>2. Cardinality({d \in Conn : pc[d] = "outcome"}) \in Nat
        BY <2>1, ConnAssumption, FS_Subset, FS_CardinalityType
    <2>3. PICK n \in Nat : n = Cardinality({d \in Conn : pc[d] = "outcome"})
        BY <2>2
    <2>4. midway' \in [Conn -> Nat]
        BY <1>9, <2>3 DEF Load
    <2>5. snap' \in [Conn -> [Field -> Nat]] /\ next' \in [Conn -> 1 .. Len(ReadOrder) + 1]
        BY <1>1, <1>9 DEF Load
    <2> QED
        BY <1>9, <2>4, <2>5 DEF Load, answerVars
<1>10. ASSUME NEW c \in Conn, AnswerHeader(c) \/ AnswerBody(c) \/ Return(c) \/ Unwind(c)
       PROVE  Typed'
    BY <1>10 DEF AnswerHeader, AnswerBody, Return, Unwind, Logged, Goto, PC, readVars
<1>11. ASSUME NEW c \in Conn, Panic(c) PROVE Typed'
    BY <1>11 DEF Panic, Goto, PC, answerVars, readVars
<1>12. CASE UNCHANGED vars
    BY <1>12 DEF vars
<1> QED
    BY <1>2, <1>3, <1>4, <1>5, <1>6, <1>7, <1>8, <1>9, <1>10, <1>11, <1>12
    DEF Next, HandlerStep

\* A connection that a step leaves alone keeps its invariant.
LEMMA RestKeeps ==
    ASSUME NEW c, WireOK(c), Rests(c)
    PROVE  WireOK(c)'
BY DEF WireOK, WritersFollow, LineFollows, SlotFollows, Honest, Rests

\* Every step concerns one connection.
LEMMA OthersRest ==
    ASSUME Typed, NEW c \in Conn, NEW d \in Conn, d # c,
           HandlerStep(c) \/ \E e \in Endpoint : Accept(c, e)
    PROVE  Rests(d)
<1> USE DEF Typed, Rests, Goto, answerVars, readVars
<1>1. CASE \/ RejectRole(c)
           \/ \E code \in {BadRequest, MethodNotAllowed} : RejectRequest(c, code)
    BY <1>1 DEF RejectRole, RejectRequest, Answering
<1>2. ASSUME NEW o \in {"named", "failed"}, ScheduleReturns(c, o) PROVE Rests(d)
    BY <1>2 DEF ScheduleReturns, Reserving
<1>3. CASE RecordRequest(c) \/ RecordOutcome(c) \/ RecordLatency(c)
    BY <1>3 DEF RecordRequest, RecordOutcome, RecordLatency
<1>4. CASE HandleHeartbeat(c)
    BY <1>4 DEF HandleHeartbeat, Answering
<1>5. CASE HandleListWorkers(c) \/ HandleStats(c) \/ Load(c) \/ SnapshotTaken(c)
    BY <1>5 DEF HandleListWorkers, HandleStats, Load, SnapshotTaken, Answering
<1>6. CASE AnswerHeader(c) \/ AnswerBody(c)
    BY <1>6 DEF AnswerHeader, AnswerBody
<1>7. CASE Return(c)
    BY <1>7 DEF Return, Logged
<1>8. CASE Panic(c)
    BY <1>8 DEF Panic
<1>9. CASE Unwind(c)
    BY <1>9 DEF Unwind
<1>10. ASSUME NEW e \in Endpoint, Accept(c, e) PROVE Rests(d)
    BY <1>10 DEF Accept
<1> QED
    BY <1>1, <1>2, <1>3, <1>4, <1>5, <1>6, <1>7, <1>8, <1>9, <1>10 DEF HandlerStep

\* The connection a step concerns.
LEMMA OwnStep ==
    ASSUME Typed, NEW c \in Conn, WireOK(c),
           HandlerStep(c) \/ \E e \in Endpoint : Accept(c, e)
    PROVE  WireOK(c)'
<1> USE DEF Typed, Goto
<1>0. WritersFollow(c) /\ LineFollows(c) /\ SlotFollows(c)
    BY DEF WireOK
<1> DEFINE Quiet == writers' = writers /\ line' = line
<1>1. ASSUME pc[c] \in Untouched, pc'[c] \in Untouched, Quiet
      PROVE  WritersFollow(c)' /\ LineFollows(c)'
    BY <1>0, <1>1 DEF WritersFollow, LineFollows, Untouched, Recording
<1>2. CASE \/ RejectRole(c)
           \/ \E code \in {BadRequest, MethodNotAllowed} : RejectRequest(c, code)
           \/ HandleHeartbeat(c)
           \/ RecordRequest(c) \/ RecordOutcome(c) \/ RecordLatency(c)
           \/ HandleListWorkers(c) \/ HandleStats(c) \/ Load(c) \/ SnapshotTaken(c)
           \/ \E o \in {"named", "failed"} : ScheduleReturns(c, o)
           \/ \E e \in Endpoint : Accept(c, e)
    <2>1. pc[c] \in Untouched /\ pc'[c] \in Untouched /\ Quiet
        BY <1>2 DEF RejectRole, RejectRequest, HandleHeartbeat, RecordRequest, RecordOutcome,
                    RecordLatency, HandleListWorkers, HandleStats, Load, SnapshotTaken,
                    ScheduleReturns, Accept, Answering, Untouched, Recording, answerVars
    <2>2. SlotFollows(c)'
        <3> USE <1>0 DEF SlotFollows, Honest, Recording
        <3>1. CASE \/ RejectRole(c)
                   \/ \E code \in {BadRequest, MethodNotAllowed} : RejectRequest(c, code)
            <4>1. reply'[c].code # StatusOK /\ c \notin reserved'
                BY <3>1 DEF RejectRole, RejectRequest, Answering, Reply, StatusOK, BadRequest,
                            MethodNotAllowed, ServiceUnavailable
            <4>2. pc'[c] = "answer"
                BY <3>1 DEF RejectRole, RejectRequest, Answering
            <4> QED
                BY <4>1, <4>2
        <3>2. ASSUME NEW o \in {"named", "failed"}, ScheduleReturns(c, o)
              PROVE  SlotFollows(c)'
            <4>1. pc'[c] = "record"
                BY <3>2 DEF ScheduleReturns
            <4>2. CASE o = "named"
                <5>1. outcome'[c] = "named" /\ reply'[c] = Reply(StatusOK, WorkerJSON)
                    BY <3>2, <4>2 DEF ScheduleReturns
                <5> QED
                    BY <4>1, <5>1
            <4>3. CASE o = "failed"
                <5>1. reply'[c].code # StatusOK /\ c \notin reserved'
                    BY <3>2, <4>3 DEF ScheduleReturns, Reserving, Reply, StatusOK,
                                      ServiceUnavailable
                <5> QED
                    BY <4>1, <5>1
            <4> QED
                BY <4>2, <4>3
        <3>3. CASE RecordRequest(c) \/ RecordOutcome(c) \/ RecordLatency(c)
            BY <3>3 DEF RecordRequest, RecordOutcome, RecordLatency
        <3>4. CASE HandleHeartbeat(c) \/ HandleListWorkers(c) \/ HandleStats(c)
            BY <3>4 DEF HandleHeartbeat, HandleListWorkers, HandleStats, Answering
        <3>5. CASE Load(c) \/ SnapshotTaken(c)
            BY <3>5 DEF Load, SnapshotTaken, Answering
        <3>6. ASSUME NEW e \in Endpoint, Accept(c, e) PROVE SlotFollows(c)'
            BY <3>6 DEF Accept
        <3> QED
            BY <1>2, <3>1, <3>2, <3>3, <3>4, <3>5, <3>6
    <2> QED
        BY <1>1, <2>1, <2>2 DEF WireOK
<1>3. CASE AnswerHeader(c)
    <2>1. writers'[c] = Headed(reply[c]) /\ reply' = reply /\ pc[c] = "answer" /\ pc'[c] = "body"
        BY <1>0, <1>3, HeaderOnChain DEF AnswerHeader, WritersFollow, Untouched
    <2> QED
        BY <1>0, <1>3, <2>1 DEF AnswerHeader, WireOK, WritersFollow, LineFollows, SlotFollows,
                                Honest, Untouched, Recording, readVars
<1>4. CASE AnswerBody(c)
    <2>1. writers'[c] = Answered(reply[c]) /\ reply' = reply /\ pc[c] = "body"
          /\ pc'[c] = "return"
        BY <1>0, <1>4, BodyOnHeaded DEF AnswerBody, WritersFollow
    <2> QED
        BY <1>0, <1>4, <2>1 DEF AnswerBody, WireOK, WritersFollow, LineFollows, SlotFollows,
                                Honest, Untouched, Recording, readVars
<1>5. CASE Return(c)
    <2>1. /\ pc[c] = "return" /\ pc'[c] = "done" /\ writers' = writers /\ reply' = reply
          /\ writers[c] = Answered(reply[c])
        BY <1>0, <1>5 DEF Return, WritersFollow
    <2>2. line'[c] = Line(writers[c])
        BY <1>5 DEF Return, Logged
    <2>3. Answered(reply[c])[AccessLogWriter] = Writer(reply[c].code, <<reply[c].piece>>)
        BY WriterLevels DEF Answered
    <2>4. line'[c].status = reply[c].code /\ line'[c].written = <<reply[c].piece>>
        BY <2>1, <2>2, <2>3, BegunWriter DEF Line
    <2> QED
        BY <1>0, <1>5, <2>1, <2>4 DEF Return, WireOK, WritersFollow, LineFollows, SlotFollows,
                                      Honest, Untouched, Recording, readVars
<1>6. CASE Panic(c)
    <2>1. /\ pc[c] \in {"handler", "answer", "body"} /\ pc'[c] = "panicked" /\ Quiet
          /\ reply' = reply
        BY <1>6 DEF Panic, answerVars
    <2>2. WritersFollow(c)' /\ LineFollows(c)'
        BY <1>0, <2>1 DEF WritersFollow, LineFollows, Untouched, Recording
    <2>3. SlotFollows(c)'
        BY <2>1 DEF SlotFollows, Recording
    <2> QED
        BY <2>2, <2>3 DEF WireOK
<1>7. CASE Unwind(c)
    <2>1. /\ pc[c] = "panicked" /\ pc'[c] = "done" /\ line' = line /\ reply' = reply
          /\ writers'[c] = Recover(writers[c], "internalError")
        BY <1>7 DEF Unwind
    <2>2. writers'[c] \in {Headed(reply[c]), Recovered}
        BY <1>0, <2>1, RecoverOnChain, RecoverOnHeaded DEF WritersFollow
    <2>3. writers'[c] # Answered(reply[c])
        BY <2>2, EndsDiffer
    <2>4. c \notin DOMAIN line
        BY <1>0, <2>1 DEF LineFollows
    <2> QED
        BY <2>1, <2>2, <2>3, <2>4 DEF WireOK, WritersFollow, LineFollows, SlotFollows, Untouched,
                                      Recording
<1> QED
    BY <1>2, <1>3, <1>4, <1>5, <1>6, <1>7 DEF HandlerStep

\* Every step keeps what the writers, lines and answers say.
LEMMA WireStep == Typed /\ WireInv /\ [Next]_vars => WireInv'
<1> SUFFICES ASSUME Typed, WireInv, [Next]_vars, NEW d \in Conn PROVE WireOK(d)'
    BY DEF WireInv
<1>0. WireOK(d)
    BY DEF WireInv
<1>1. ASSUME NEW c \in Conn, HandlerStep(c) \/ \E e \in Endpoint : Accept(c, e)
      PROVE  WireOK(d)'
    <2>1. CASE d = c
        BY <1>0, <1>1, <2>1, OwnStep
    <2>2. CASE d # c
        BY <1>0, <1>1, <2>2, OthersRest, RestKeeps
    <2> QED
        BY <2>1, <2>2
<1>2. CASE UNCHANGED vars
    <2>1. Rests(d)
        BY <1>2 DEF vars, Rests
    <2> QED
        BY <1>0, <2>1, RestKeeps
<1> QED
    BY <1>1, <1>2 DEF Next

\* The inductive invariant: the place of a handler tells what its writers hold,
\* whether its line is printed, and what was answered about its slot.
THEOREM WireFollows == Spec => [](Typed /\ WireInv)
BY InitInv, TypedStep, WireStep, PTL DEF Spec

\* Typed says of the writers only that they are there; what they are comes from
\* the place of the handler.
LEMMA WritersTyped ==
    ASSUME Typed, WireInv, NEW c \in Conn
    PROVE  writers[c] \in [Wire .. AccessLogWriter -> responseWriter(Piece)]
<1>1. reply[c].code \in Status /\ reply[c].piece \in Piece
    BY DEF Typed
<1>2. /\ newResponseWriter \in responseWriter(Piece)
      /\ \A code \in Status : /\ Writer(code, << >>) \in responseWriter(Piece)
                              /\ \A p \in Piece : Writer(code, <<p>>) \in responseWriter(Piece)
    BY DEF newResponseWriter, Writer, responseWriter, Status
<1>3. InternalServerError \in Status /\ "internalError" \in Piece
    BY DEF Status, Piece
<1>4. /\ Chain \in [Wire .. AccessLogWriter -> responseWriter(Piece)]
      /\ Headed(reply[c]) \in [Wire .. AccessLogWriter -> responseWriter(Piece)]
      /\ Answered(reply[c]) \in [Wire .. AccessLogWriter -> responseWriter(Piece)]
    BY <1>1, <1>2 DEF Chain, Headed, Answered
<1>5. Recovered \in [Wire .. AccessLogWriter -> responseWriter(Piece)]
    BY <1>2, <1>3 DEF Recovered
<1>6. writers[c] \in {Chain, Headed(reply[c]), Answered(reply[c]), Recovered}
    BY DEF Typed, WireInv, WireOK, WritersFollow, PC, Untouched, Recording
<1> QED
    BY <1>4, <1>5, <1>6

(***************************************************************************)
(* Counters, handlers, writers and snapshots keep their types.             *)
(***************************************************************************)
THEOREM TypeCorrect == Spec => []TypeOK
<1>1. ASSUME Typed, WireInv PROVE TypeOK
    <2>1. writers \in [Conn -> [Wire .. AccessLogWriter -> responseWriter(Piece)]]
        BY <1>1, WritersTyped DEF Typed
    <2> QED
        BY <1>1, <2>1 DEF Typed, TypeOK
<1> QED
    BY <1>1, WireFollows, PTL

(***************************************************************************)
(* Whatever panics where, the client gets the handler's answer, a prefix   *)
(* of it, or the 500 of Recover.                                           *)
(***************************************************************************)
THEOREM AnswersAreOne == Spec => []AnswerIsOne
<1>1. ASSUME Typed, WireInv PROVE AnswerIsOne
    <2> SUFFICES ASSUME NEW c \in Conn, pc[c] = "done", NEW w, w = writers[c][Wire]
                 PROVE  \/ /\ w.status = reply[c].code
                           /\ w.written \in {<<reply[c].piece>>, << >>}
                        \/ /\ w.status = InternalServerError
                           /\ w.written = <<"internalError">>
        BY DEF AnswerIsOne
    <2>1. writers[c] \in {Answered(reply[c]), Headed(reply[c]), Recovered}
        BY <1>1 DEF WireInv, WireOK, WritersFollow
    <2>2. /\ Answered(reply[c])[Wire] = Writer(reply[c].code, <<reply[c].piece>>)
          /\ Headed(reply[c])[Wire] = Writer(reply[c].code, << >>)
          /\ Recovered[Wire] = Writer(InternalServerError, <<"internalError">>)
        BY WriterLevels DEF Answered, Headed, Recovered
    <2>3. \/ w = Writer(reply[c].code, <<reply[c].piece>>)
          \/ w = Writer(reply[c].code, << >>)
          \/ w = Writer(InternalServerError, <<"internalError">>)
        BY <2>1, <2>2
    <2>4. /\ w = Writer(reply[c].code, <<reply[c].piece>>) =>
                w.status = reply[c].code /\ w.written = <<reply[c].piece>>
          /\ w = Writer(reply[c].code, << >>) =>
                w.status = reply[c].code /\ w.written = << >>
        BY DEF Writer
    <2>5. w = Writer(InternalServerError, <<"internalError">>) =>
             w.status = InternalServerError /\ w.written = <<"internalError">>
        BY DEF Writer
    <2> QED
        BY <2>3, <2>4, <2>5, Zenon
<1> QED
    BY <1>1, WireFollows, PTL

(***************************************************************************)
(* Every line of the access log has the status and the bytes that went     *)
(* out.                                                                    *)
(***************************************************************************)
THEOREM LogAlwaysMatches == Spec => []LogMatchesWire
<1>1. ASSUME Typed, WireInv PROVE LogMatchesWire
    <2> SUFFICES ASSUME NEW c \in DOMAIN line
                 PROVE  /\ line[c].status = writers[c][Wire].status
                        /\ line[c].written = writers[c][Wire].written
        BY DEF LogMatchesWire
    <2>1. LineFollows(c)
        BY <1>1 DEF Typed, WireInv, WireOK
    <2>2. Answered(reply[c])[Wire] = Writer(reply[c].code, <<reply[c].piece>>)
        BY WriterLevels DEF Answered
    <2> QED
        BY <2>1, <2>2, BegunWriter DEF LineFollows
<1> QED
    BY <1>1, WireFollows, PTL

(***************************************************************************)
(* A client told that scheduling failed holds no slot, one told a worker   *)
(* is told what Schedule returned, and whoever holds a slot and got a      *)
(* logged answer was told its worker, for any number of connections.       *)
(***************************************************************************)
THEOREM VerdictsTrue == Spec => []VerdictTrue
<1>1. ASSUME Typed, WireInv PROVE VerdictTrue
    <2> SUFFICES ASSUME NEW c \in Conn, pc[c] = "done", endpoint[c] = "schedule",
                        NEW w, w = writers[c][Wire]
                 PROVE  /\ Schedule(w.status, w.written) = "schedulingFailed" => c \notin reserved
                        /\ Schedule(w.status, w.written) = "worker" => outcome[c] = "named"
                        /\ c \in reserved /\ c \in DOMAIN line
                             => Schedule(w.status, w.written) = "worker"
        BY DEF VerdictTrue
    <2>1. /\ writers[c] \in {Answered(reply[c]), Headed(reply[c]), Recovered}
          /\ c \in DOMAIN line => writers[c] = Answered(reply[c])
        BY <1>1 DEF WireInv, WireOK, WritersFollow, LineFollows
    <2>2. CASE writers[c] = Answered(reply[c])
        <3>1. Honest(c)
            BY <1>1, <2>2 DEF WireInv, WireOK, SlotFollows
        <3>2. w.status = reply[c].code /\ w.written = <<reply[c].piece>>
            BY <2>2, WriterLevels, BegunWriter DEF Answered
        <3>3. CASE outcome[c] = "named" /\ reply[c] = Reply(StatusOK, WorkerJSON)
            <4>1. w.status = StatusOK /\ w.written = <<WorkerJSON>>
                BY <3>2, <3>3 DEF Reply
            <4>2. <<WorkerJSON>> # <<ErrorJSON>>
                BY DEF WorkerJSON, ErrorJSON
            <4>3. Schedule(w.status, w.written) = "worker"
                BY <4>1, <4>2 DEF Schedule, Decodes
            <4> QED
                BY <3>3, <4>3
        <3>4. CASE c \notin reserved /\ reply[c].code # StatusOK
            <4>1. Schedule(w.status, w.written) # "worker"
                BY <3>2, <3>4 DEF Schedule
            <4> QED
                BY <3>4, <4>1
        <3> QED
            BY <3>1, <3>3, <3>4 DEF Honest
    <2>3. CASE writers[c] = Headed(reply[c])
        <3>1. w.written = << >>
            BY <2>3, WriterLevels, BegunWriter DEF Headed
        <3>2. << >> # <<ErrorJSON>> /\ ~Decodes(<< >>)
            BY DEF Decodes
        <3>3. Schedule(w.status, << >>) = IF w.status # StatusOK THEN "invalidResponse"
                                          ELSE "decodeError"
            BY <3>2 DEF Schedule
        <3>4. c \notin DOMAIN line
            BY <2>1, <2>3, EndsDiffer
        <3> QED
            BY <3>1, <3>3, <3>4
    <2>4. CASE writers[c] = Recovered
        <3>1. w.status = InternalServerError /\ w.written = <<"internalError">>
            <4>1. w = Writer(InternalServerError, <<"internalError">>)
                BY <2>4, WriterLevels DEF Recovered
            <4> QED
                BY <4>1 DEF Writer
        <3>2. <<"internalError">> # <<ErrorJSON>>
            BY DEF ErrorJSON
        <3>3. InternalServerError # StatusOK
            BY DEF InternalServerError, StatusOK
        <3>4. c \notin DOMAIN line
            BY <2>1, <2>4, EndsDiffer
        <3> QED
            BY <3>1, <3>2, <3>3, <3>4 DEF Schedule
    <2> QED
        BY <2>1, <2>2, <2>3, <2>4
<1> QED
    BY <1>1, WireFollows, PTL
=============================================================================
