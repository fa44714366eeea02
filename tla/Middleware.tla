----------------------------- MODULE Middleware -----------------------------
(***************************************************************************)
(* pkg/middleware: the response writers that Recover and AccessLog wrap    *)
(* around the one of net/http.  RequestID and BodyLimit lie between them   *)
(* and the handler and pass the writer on.  A body is the list of pieces   *)
(* written to it.                                                          *)
(***************************************************************************)
EXTENDS Naturals, Sequences

StatusOK            == 200
BadRequest          == 400
MethodNotAllowed    == 405
InternalServerError == 500
ServiceUnavailable  == 503

Status == {StatusOK, BadRequest, MethodNotAllowed, InternalServerError, ServiceUnavailable}

\* The writers of one request: what net/http sends, then from the outermost
\* middleware inwards to the one the handler gets.
Wire            == 1
RecoverWriter   == 2
AccessLogWriter == 3

responseWriter(Piece) == [status : Status, wroteHeader : BOOLEAN, written : Seq(Piece)]

\* A writer without the default status that net/http implies.
newResponseWriterZero == [status |-> 0, wroteHeader |-> FALSE, written |-> << >>]

newResponseWriter == [status |-> StatusOK, wroteHeader |-> FALSE, written |-> << >>]

Chain == [l \in Wire .. AccessLogWriter |-> newResponseWriter]

\* WriteHeader on writer l of the chain c: each writer that has not written its
\* header takes the code and hands it down.
WriteHeader(c, l, code) ==
    [k \in DOMAIN c |->
        IF k <= l /\ \A j \in k .. l : ~c[j].wroteHeader
        THEN [status |-> code, wroteHeader |-> TRUE, written |-> c[k].written]
        ELSE c[k]]

\* Write on writer l: an implicit 200 if nothing was written, then the bytes.
Write(c, l, piece) ==
    LET begun == WriteHeader(c, l, StatusOK)
    IN  [k \in DOMAIN c |->
            IF k <= l
            THEN [status |-> begun[k].status, wroteHeader |-> begun[k].wroteHeader,
                  written |-> Append(begun[k].written, piece)]
            ELSE begun[k]]

\* http.Error
Error(c, l, code, text) == Write(WriteHeader(c, l, code), l, text)

\* A Recover that answers 500 whatever has been written.
RecoverAlways(c, text) == Error(c, RecoverWriter, InternalServerError, text)

\* The deferred function of Recover, after a panic.
Recover(c, text) ==
    IF c[RecoverWriter].wroteHeader THEN c
    ELSE Error(c, RecoverWriter, InternalServerError, text)

\* The line AccessLog prints.
Line(c) == [status |-> c[AccessLogWriter].status, written |-> c[AccessLogWriter].written]
=============================================================================
