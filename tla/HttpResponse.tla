----------------------------- MODULE HttpResponse ----------------------------
(***************************************************************************)
(* A response as http_response.c puts it together: how much has been       *)
(* written, how many bytes of its pieces went past the allocation they     *)
(* were given, and whether the assertion that no piece is empty has        *)
(* failed.  The pieces are given by their lengths.                         *)
(***************************************************************************)
EXTENDS Integers

\* data_size, which is set once and never changed.
InitialSize == 1024

\* What an int can hold of its doublings.
Doublings ==
    {2048, 4096, 8192, 16384, 32768, 65536, 131072, 262144, 524288, 1048576,
     2097152, 4194304, 8388608, 16777216, 33554432, 67108864, 134217728,
     268435456, 536870912, 1073741824}

LargestPiece == 1073741824 - InitialSize

(* A broken form: the allocation never grows. *)
AllocatedOnce(datalen) == InitialSize

(* The allocation when a piece is written: data_size is doubled until it   *)
(* holds data_size and the piece (and so always grows); what has been      *)
(* written before is not looked at.                                        *)
Allocated(datalen) ==
    CHOOSE size \in Doublings :
        size \div 2 < InitialSize + datalen /\ InitialSize + datalen <= size

http_response_add_data(response, datalen) ==
    LET end  == response.data_length + datalen
        past == IF datalen > 0 /\ end > Allocated(datalen)
                THEN end - Allocated(datalen) ELSE 0
    IN [data_length |-> end, overrun |-> response.overrun + past,
        refused |-> response.refused \/ datalen = 0]

\* name, ": ", value, CRLF
http_response_add_header(response, name, value) ==
    http_response_add_data(http_response_add_data(http_response_add_data(
        http_response_add_data(response, name), 2), value), 2)

\* protocol, " ", the code, " ", the message, CRLF
http_response_init(protocol, message) ==
    LET empty == [data_length |-> 0, overrun |-> 0, refused |-> FALSE]
        first == http_response_add_data(http_response_add_data(
                     http_response_add_data(empty, protocol), 1), 3)
    IN http_response_add_data(http_response_add_data(
           http_response_add_data(first, 1), message), 2)

\* Decimal digits of a length, as snprintf writes it.
Digits(n) ==
    LET Power == <<10, 100, 1000, 10000, 100000, 1000000, 10000000,
                   100000000, 1000000000>>
    IN CHOOSE d \in 1 .. 10 :
        (d = 10 \/ n < Power[d]) /\ (d = 1 \/ Power[d - 1] <= n)

(* A body is announced by its Content-Length. *)
http_response_finish(response, datalen) ==
    IF datalen > 0
    THEN http_response_add_data(http_response_add_data(http_response_add_data(
             http_response_add_data(http_response_add_data(response, 14), 2),
             Digits(datalen)), 4), datalen)
    ELSE http_response_add_data(response, 2)
=============================================================================
