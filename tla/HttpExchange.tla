----------------------------- MODULE HttpExchange -----------------------------
(***************************************************************************)
(* A client's connection from its bytes to the handler and back: what the  *)
(* httpd thread does for one connection (httpd.c:276-333), with the parser *)
(* and the request it fills, and with the response of raop.c.              *)
(***************************************************************************)
EXTENDS HttpParser, HttpResponse

CONSTANTS
    Messages,       \* Messages[i]: what a client may send as its i-th message,
                    \* [wire, means] records, where means is the request the
                    \* bytes stand for, or Malformed
    Malformed,
    MaxMessages,    \* bound: messages of a conversation
    BodySizes,      \* lengths of the bodies handlers answer with
    CSeqLengths,    \* lengths a CSeq may have, of which the wire shows a few
    Pipelines       \* the client may send before it has been answered

ASSUME ExchangeAssumption ==
    /\ MaxMessages \in Nat /\ Pipelines \in BOOLEAN
    /\ BodySizes \subseteq 0 .. LargestPiece
    /\ CSeqLengths \subseteq 1 .. LargestPiece

VARIABLES
    connected,      \* the connection is in httpd's table
    inRequest,      \* connection->request is not NULL
    sent,           \* the messages the client has sent, in order
    handled,        \* the requests conn_request was called with
    overrun         \* the lengths of the CSeqs whose responses were written
                    \* past their allocation

vars == <<execVars, connected, inRequest, sent, handled, overrun>>

Init ==
    /\ stream = "" /\ pc = "idle" /\ again = FALSE
    /\ parser = http_parser_init /\ mark = "none" /\ piece = ""
    /\ request = NewRequest
    /\ connected = TRUE /\ inRequest = FALSE
    /\ sent = <<>> /\ handled = <<>> /\ overrun = {}

(* The client sends its next message. *)
ClientSends ==
    /\ connected /\ pc = "idle" /\ Len(sent) < MaxMessages
    /\ Pipelines \/ Len(sent) = Len(handled)
    /\ \E m \in Messages[Len(sent) + 1] :
        sent' = Append(sent, m) /\ stream' = stream \o m.wire
    /\ UNCHANGED <<pc, again, parser, mark, piece, request,
                   connected, inRequest, handled, overrun>>

http_request_init == request' = NewRequest /\ parser' = http_parser_init

(* The thread finds bytes on the socket: a request is allocated unless     *)
(* there is one, and recv's bytes are given to its parser.                 *)
Recv ==
    /\ connected /\ pc = "idle" /\ stream # ""
    /\ IF inRequest THEN UNCHANGED <<request, parser>> ELSE http_request_init
    /\ inRequest' = TRUE
    /\ pc' = "entered" /\ again' = FALSE
    /\ mark' = MarkAtEntry(parser'.state) /\ piece' = ""
    /\ UNCHANGED <<stream, connected, sent, handled, overrun>>

Parse ==
    /\ NextByte \/ EndOfData
    /\ UNCHANGED <<connected, inRequest, sent, handled, overrun>>

(* A request the parser refuses costs the connection. *)
HasError ==
    /\ pc = "returned" /\ parser.errno # "OK"
    /\ pc' = "idle" /\ connected' = FALSE /\ inRequest' = FALSE
    /\ UNCHANGED <<stream, again, parser, mark, piece, request,
                   sent, handled, overrun>>

\* The headers of the handlers' answers: the type of a body (once for each of the
\* two streams a SETUP may have), OPTIONS, TEARDOWN and RECORD.
HandledBy(response) ==
    LET ContentType(r, value) == http_response_add_header(r, 12, value)
    IN {response,
        ContentType(response, 32), ContentType(response, 24), ContentType(response, 15),
        ContentType(ContentType(response, 32), 32),
        http_response_add_header(response, 6, 76),
        http_response_add_header(response, 10, 5),
        http_response_add_header(http_response_add_header(response, 13, 5), 17, 22)}

StatusLine == http_response_init(8, 2)

(* conn_request repeats the request's CSeq before what the handler adds.   *)
Responses(cseq, datalen) ==
    LET numbered == {http_response_add_header(StatusLine, 4, cseq)}
        begun    == {http_response_add_header(r, 6, 15) : r \in numbered}
        answered == UNION {HandledBy(r) : r \in begun}
    IN {http_response_finish(r, datalen) : r \in answered}

\* The parser handles values of a few characters; how long one is matters to the
\* response alone.
LengthsOf(cseq) == IF cseq = "" THEN {0} ELSE CSeqLengths

(* An empty piece fails an assertion and ends the process; a write past    *)
(* the allocation may end it, or go unnoticed.                             *)
Answer(n, response) ==
    /\ overrun' = IF response.overrun > 0 THEN overrun \union {n} ELSE overrun
    /\ \/ ~response.refused /\ pc' = "idle"
       \/ (response.refused \/ response.overrun > 0) /\ pc' = "aborted"

(* A complete request is handled, answered and freed; without a CSeq there *)
(* is no answer.                                                           *)
Complete ==
    /\ pc = "returned" /\ parser.errno = "OK" /\ request.complete
    /\ handled' = Append(handled, request)
    /\ LET cseq == http_request_get_header(request, "CSeq")
       IN \/ cseq = "NULL" /\ pc' = "idle" /\ UNCHANGED overrun
          \/ /\ cseq # "NULL"
             /\ \E n \in LengthsOf(cseq), datalen \in BodySizes :
                  \E response \in Responses(n, datalen) : Answer(n, response)
    /\ inRequest' = FALSE
    /\ UNCHANGED <<stream, again, parser, mark, piece, request, connected, sent>>

Incomplete ==
    /\ pc = "returned" /\ parser.errno = "OK" /\ ~request.complete
    /\ pc' = "idle"
    /\ UNCHANGED <<stream, again, parser, mark, piece, request,
                   connected, inRequest, sent, handled, overrun>>

ServerStep == Recv \/ Parse \/ HasError \/ Complete \/ Incomplete

Next == ClientSends \/ ServerStep

(* The httpd thread goes on as long as there is something to do. *)
Spec == Init /\ [][Next]_vars /\ WF_vars(ServerStep)

-----------------------------------------------------------------------------
(* Properties *)

(* However the bytes of a message are cut into recvs, the handler is given *)
(* the request that was sent, each message once and in order: method, url, *)
(* headers and body, put together from their pieces, with nothing of the   *)
(* requests before.  (on_url, on_header_field, on_header_value and on_body *)
(* of http_request.c, http_request_init for each request.)                 *)
HandledAsSent ==
    /\ Len(handled) <= Len(sent)
    /\ \A i \in 1 .. Len(handled) :
        LET r == handled[i]
        IN [method |-> r.method, url |-> r.url, headers |-> r.headers,
            data |-> r.data] = sent[i].means

(* The assertions of http_parser.c: the count starts anew before every     *)
(* chunk (1903), chunks are read under chunked encoding only (1904-2014),  *)
(* a body that is read has a length (1854, 1988) and a chunk that is over  *)
(* has none left (2007), no value is read while its name is still being    *)
(* told (1507), and a mark is never set while another element's is (2038). *)
ParserAssertionsHold ==
    In({parser.state}) =>
        LET s == parser.state
        IN /\ s = "s_chunk_size_start" => Counted = 1
           /\ s \in {"s_chunk_size_start", "s_chunk_size", "s_chunk_parameters",
                     "s_chunk_size_almost_done", "s_chunk_data",
                     "s_chunk_data_almost_done", "s_chunk_data_done"} =>
                "CHUNKED" \in parser.flags
           /\ s \in {"s_body_identity", "s_chunk_data"} =>
                parser.content_length \notin {0, NoLength, ULLONG_MAX}
           /\ s = "s_chunk_data_almost_done" => parser.content_length = 0
           /\ s = "s_header_value" =>
                parser.header_state \notin {"h_connection", "h_transfer_encoding"}
           /\ s \in {"s_req_spaces_before_url", "s_header_field_start",
                     "s_header_value_start", "s_header_value_discard_ws",
                     "s_chunk_size_start", "s_start_req"} => mark = "none"

\* What the longest headers of an answer leave of the initial size for the CSeq.
CSeqRoom == InitialSize - 176

(* http_response_add_data writes past what realloc has returned only when  *)
(* the client's own CSeq, which conn_request echoes whatever its length    *)
(* (raop.c:138), is longer than what is free of the initial size: nothing  *)
(* a handler adds can, although data_size stays what it was and the buffer *)
(* shrinks after a large piece.  Nor is a piece ever empty (line 40) unless *)
(* that CSeq is.                                                           *)
ResponseFits ==
    /\ \A n \in overrun : n > CSeqRoom
    /\ pc = "aborted" =>
         overrun # {} \/ http_request_get_header(request, "CSeq") = ""

(* A message that has arrived is handled, or costs the connection; the     *)
(* parser never waits for bytes that will not come.                        *)
EveryMessageHandled ==
    \A i \in 1 .. MaxMessages :
        (Len(sent) >= i) ~> (Len(handled) >= i \/ ~connected)

=============================================================================
