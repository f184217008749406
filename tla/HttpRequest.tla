----------------------------- MODULE HttpRequest -----------------------------
(***************************************************************************)
(* A request as http_request.c collects it from the parser's callbacks: a  *)
(* callback is handed a piece of the url, of a header's name or value, or  *)
(* of the body, and the pieces of one element are put together again.      *)
(***************************************************************************)
EXTENDS Integers, Sequences

\* http_request_init.
NewRequest ==
    [method |-> "", url |-> "", headers |-> <<>>, headers_index |-> 0,
     data |-> "", complete |-> FALSE]

on_url(request, at) == [request EXCEPT !.url = @ \o at]

(* headers holds names and values in turn; headers_index is the entry      *)
(* being written, so its parity tells a name from a value.  A name that    *)
(* follows a value begins a new pair, and so does the very first.          *)
FieldIndex(request) ==
    IF request.headers_index % 2 = 1 THEN request.headers_index + 1
                                     ELSE request.headers_index

on_header_field(request, at) ==
    LET i    == FieldIndex(request)
        room == IF i = Len(request.headers) THEN request.headers \o <<"", "">>
                                            ELSE request.headers
    IN [request EXCEPT !.headers_index = i,
                       !.headers = [room EXCEPT ![i + 1] = @ \o at]]

on_header_value(request, at) ==
    LET i == IF request.headers_index % 2 = 0 THEN request.headers_index + 1
                                              ELSE request.headers_index
    IN [request EXCEPT !.headers_index = i,
                       !.headers[i + 1] = @ \o at]

on_body(request, at) == [request EXCEPT !.data = @ \o at]

on_message_complete(request, method) ==
    [request EXCEPT !.method = method, !.complete = TRUE]

(* The first pair with that name, names compared as they are written. *)
http_request_get_header(request, name) ==
    LET Pairs == {i \in 1 .. Len(request.headers) :
                    i % 2 = 1 /\ request.headers[i] = name}
    IN IF Pairs = {} THEN "NULL"
       ELSE request.headers[1 + CHOOSE i \in Pairs : \A j \in Pairs : i <= j]
=============================================================================
