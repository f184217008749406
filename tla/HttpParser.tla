------------------------------ MODULE HttpParser ------------------------------
(***************************************************************************)
(* http_parser.c as the server uses it: http_parser_execute on the bytes   *)
(* of one recv, for requests, without strict checks, with the callbacks of *)
(* http_request.c.                                                         *)
(*                                                                         *)
(* A byte is a step.  The loops the parser runs over the rest of a buffer  *)
(* (a header's name and value, a body) do what as many steps do, so where  *)
(* the buffer ends is left open until it ends: EndOfData may come after    *)
(* any byte.  An element that has begun is marked; its callback gets the   *)
(* bytes since the mark, at its end and at the end of the buffer.          *)
(*                                                                         *)
(* nread, the count of header bytes, only tells none, one and more: the    *)
(* limit of 80 KiB on it is not reached.                                   *)
(***************************************************************************)
EXTENDS HttpRequest

CONSTANT ULLONG_MAX    \* the greatest content_length there is room for
ASSUME WidthAssumption == ULLONG_MAX \in Nat /\ ULLONG_MAX >= 16

VARIABLES
    stream,     \* bytes of the client that have not been parsed
    pc,         \* where the httpd thread is in http_parser_execute
    again,      \* REEXECUTE: the byte at hand is looked at a second time
    parser,     \* the http_parser
    mark,       \* the element that is marked
    piece,      \* the bytes since the mark
    request     \* the http_request_t the callbacks fill

execVars == <<stream, pc, again, parser, mark, piece, request>>

-----------------------------------------------------------------------------
(* Characters and tables *)

CharAt(s, i) == SubSeq(s, i, i)
Chars(s)     == {CharAt(s, i) : i \in 1 .. Len(s)}

SP == " "   HT == "\t"   CR == "\r"   LF == "\n"

Upper == "ABCDEFGHIJKLMNOPQRSTUVWXYZ"
Lower == "abcdefghijklmnopqrstuvwxyz"
Digit == "0123456789"

Alpha == Chars(Upper) \union Chars(Lower)
Num   == Chars(Digit)
UserinfoChars == Alpha \union Num \union Chars("-_.!~*'()%;:&=+$,")
\* A backquote and a delete, which cannot be written in a string here.
Backquote == "backquote"
Delete    == "delete"
\* normal_url_char without strict checks: what is printable, but for the query and
\* fragment marks, a tab and a form feed (and bytes from 128, which do not occur).
UrlChars == UserinfoChars \union Chars("/@[]{}|^<>\\\"\t\f") \union {Backquote}
StrictTokens == Alpha \union Num \union Chars("!#$%&'*+-.^_|~") \union {Backquote}
\* TOKEN without strict checks lets a space pass.
Tokens == StrictTokens \union {SP}

PositionIn(s) == [c \in Chars(s) |-> CHOOSE i \in 1 .. Len(s) : CharAt(s, i) = c]
LowerOf  == [c \in Chars(Upper) |-> CharAt(Lower, PositionIn(Upper)[c])]
\* What the table of tokens gives for a letter.
token(c) == IF c \in Chars(Upper) THEN LowerOf[c] ELSE c
\* LOWER sets a bit, which turns some that are no letters into others.
Bit5Unset == Upper \o "[\\]^"
Bit5Set   == Lower \o "{|}~"
LOWER(c) ==
    CASE c \in Chars(Bit5Unset) -> CharAt(Bit5Set, PositionIn(Bit5Unset)[c])
      [] c = "@" -> Backquote
      [] c = "_" -> Delete
      [] c = HT  -> ")"
      [] OTHER   -> c
DigitOf  == PositionIn(Digit)
Value(c) == DigitOf[c] - 1
HexOf    == PositionIn("0123456789abcdef")
\* What the tables give: digits have the values of digits, a space is no letter.
ASSUME TablesAssumption ==
    /\ \A c \in Num : DigitOf[c] \in 1 .. 10
    /\ \A c \in DOMAIN HexOf : HexOf[c] \in 1 .. 16
    /\ SP \notin Num
unhex(c) == IF token(c) \in DOMAIN HexOf THEN HexOf[token(c)] - 1 ELSE -1

(* A method is guessed from its first letter and corrected where another   *)
(* one that begins alike departs from it.                                  *)
FirstGuess ==
    [A |-> "ACL",  B |-> "BIND",   C |-> "CONNECT",  D |-> "DELETE",
     F |-> "FLUSH", G |-> "GET",   H |-> "HEAD",     L |-> "LOCK",
     M |-> "MKCOL", N |-> "NOTIFY", O |-> "OPTIONS", P |-> "POST",
     R |-> "REPORT", S |-> "SUBSCRIBE", T |-> "TRACE", U |-> "UNLOCK"]

Corrections ==
    {<<"ACL", 1, "N", "ANNOUNCE">>,      <<"DELETE", 2, "S", "DESCRIBE">>,
     <<"GET", 3, "_", "GET_PARAMETER">>, <<"POST", 1, "U", "PUT">>,
     <<"POST", 1, "A", "PATCH">>,        <<"POST", 1, "R", "PROPFIND">>,
     <<"POST", 1, "L", "PLAY">>,         <<"PUT", 2, "R", "PURGE">>,
     <<"PATCH", 2, "U", "PAUSE">>,       <<"CONNECT", 1, "H", "CHECKOUT">>,
     <<"CONNECT", 2, "P", "COPY">>,      <<"MKCOL", 1, "O", "MOVE">>,
     <<"MKCOL", 1, "E", "MERGE">>,       <<"MKCOL", 1, "-", "M-SEARCH">>,
     <<"MKCOL", 2, "A", "MKACTIVITY">>,  <<"MKCOL", 3, "A", "MKCALENDAR">>,
     <<"SUBSCRIBE", 1, "E", "SEARCH">>,  <<"SUBSCRIBE", 1, "O", "SOURCE">>,
     <<"SEARCH", 2, "T", "SETUP">>,      <<"SETUP", 3, "_", "SET_PARAMETER">>,
     <<"TRACE", 1, "E", "TEARDOWN">>,    <<"REPORT", 2, "B", "REBIND">>,
     <<"REPORT", 2, "C", "RECORD">>,     <<"REPORT", 2, "D", "REDIRECT">>,
     <<"PROPFIND", 4, "P", "PROPPATCH">>, <<"LOCK", 1, "I", "LINK">>,
     <<"UNLOCK", 2, "S", "UNSUBSCRIBE">>, <<"UNLOCK", 2, "B", "UNBIND">>,
     <<"UNLOCK", 3, "I", "UNLINK">>}

(* parse_url_char: the state after a character, s_dead for an error. *)
InServer(ch) ==
    CASE ch = "/" -> "s_req_path"
      [] ch = "?" -> "s_req_query_string_start"
      [] ch = "@" -> "s_req_server_with_at"
      [] ch \in UserinfoChars \union {"[", "]"} -> "s_req_server"
      [] OTHER -> "s_dead"

InQuery(ch) ==
    CASE ch \in UrlChars \union {"?"} -> "s_req_query_string"
      [] ch = "#" -> "s_req_fragment_start"
      [] OTHER -> "s_dead"

parse_url_char(s, ch) ==
    CASE ch \in {SP, CR, LF} -> "s_dead"
      [] s = "s_req_spaces_before_url" /\ ch \in {"/", "*"} -> "s_req_path"
      [] s \in {"s_req_spaces_before_url", "s_req_schema"} /\ ch \in Alpha ->
            "s_req_schema"
      [] s = "s_req_schema" /\ ch = ":" -> "s_req_schema_slash"
      [] s = "s_req_schema_slash" /\ ch = "/" -> "s_req_schema_slash_slash"
      [] s = "s_req_schema_slash_slash" /\ ch = "/" -> "s_req_server_start"
      [] s \in {"s_req_server_start", "s_req_server"} -> InServer(ch)
      [] s = "s_req_server_with_at" /\ ch # "@" -> InServer(ch)
      [] s = "s_req_path" /\ ch \in UrlChars -> s
      [] s = "s_req_path" /\ ch = "?" -> "s_req_query_string_start"
      [] s = "s_req_path" /\ ch = "#" -> "s_req_fragment_start"
      [] s \in {"s_req_query_string_start", "s_req_query_string"} -> InQuery(ch)
      [] s \in {"s_req_fragment_start", "s_req_fragment"}
            /\ ch \in UrlChars \union {"?", "#"} ->
            IF s = "s_req_fragment_start" /\ ch = "#" THEN s ELSE "s_req_fragment"
      [] OTHER -> "s_dead"

UrlPrefixStates == {"s_req_schema", "s_req_schema_slash",
                    "s_req_schema_slash_slash", "s_req_server_start"}
UrlRestStates   == {"s_req_server", "s_req_server_with_at", "s_req_path",
                    "s_req_query_string_start", "s_req_query_string",
                    "s_req_fragment_start", "s_req_fragment"}
BodyStates      == {"s_chunk_data", "s_chunk_data_almost_done",
                    "s_chunk_data_done", "s_body_identity", "s_message_done"}

-----------------------------------------------------------------------------
(* The frame of http_parser_execute *)

NoLength == -1      \* content_length's ULLONG_MAX: no length given

http_parser_init ==
    [state |-> "s_start_req", header_state |-> "h_general", index |-> 0,
     flags |-> {}, nread |-> 0, content_length |-> 0, method |-> "DELETE",
     upgrade |-> FALSE, errno |-> "OK"]

(* The mark a buffer begins with, when it begins inside an element. *)
MarkAtEntry(s) ==
    CASE s = "s_header_field" -> "header_field"
      [] s = "s_header_value" -> "header_value"
      [] s \in UrlPrefixStates \union UrlRestStates -> "url"
      [] OTHER -> "none"

In(states) == pc \in {"entered", "looping"} /\ parser.state \in states
byte == Head(stream)

(* A byte that has just been read counts while the header is parsed. *)
Counted ==
    IF ~again /\ parser.state \notin BodyStates /\ parser.nread < 2
    THEN parser.nread + 1 ELSE parser.nread
Now == [parser EXCEPT !.nread = Counted]

To(s) == [Now EXCEPT !.state = s]

Consume == stream' = Tail(stream) /\ again' = FALSE /\ pc' = "looping"

\* break out of the switch: on to the next byte.
Advance(p) ==
    /\ parser' = p /\ Consume
    /\ piece' = IF mark = "none" THEN piece ELSE piece \o byte
    /\ UNCHANGED <<mark, request>>

\* MARK(what), and the byte is its first.
Mark(what, p) ==
    /\ parser' = p /\ Consume
    /\ mark' = what /\ piece' = byte
    /\ UNCHANGED request

Callback(what, at) ==
    CASE what = "url"          -> on_url(request, at)
      [] what = "header_field" -> on_header_field(request, at)
      [] what = "header_value" -> on_header_value(request, at)
      [] what = "body"         -> on_body(request, at)
      [] OTHER                 -> request

Unmarked == mark' = "none" /\ piece' = ""

\* CALLBACK_DATA: the byte at hand ends the element and is consumed.
CallbackData(p) ==
    /\ parser' = p /\ Consume
    /\ request' = Callback(mark, piece) /\ Unmarked

\* REEXECUTE, alone and after CALLBACK_DATA_NOADVANCE.
Reexecute(p) ==
    /\ parser' = p /\ again' = TRUE
    /\ UNCHANGED <<stream, pc, mark, piece, request>>
CallbackReexecute(what, p) ==
    /\ parser' = p /\ again' = TRUE
    /\ request' = Callback(what, piece) /\ Unmarked
    /\ UNCHANGED <<stream, pc>>

Fail(error) ==
    /\ parser' = [Now EXCEPT !.errno = error]
    /\ pc' = "returned" /\ again' = FALSE /\ Unmarked
    /\ UNCHANGED <<stream, request>>

(* NEW_MESSAGE without strict checks, and the callback message_complete. *)
MessageComplete(p) ==
    /\ parser' = [p EXCEPT !.state = "s_start_req"] /\ Consume
    /\ request' = on_message_complete(request, parser.method)
    /\ Unmarked

(* After an upgrade the parser returns: what follows in the buffer is not  *)
(* HTTP, and nobody looks at it.                                           *)
UpgradeReturns(p) ==
    /\ parser' = [p EXCEPT !.state = "s_start_req"]
    /\ \E n \in 2 .. Len(stream) + 1 :
        stream' = SubSeq(stream, n, Len(stream))
    /\ request' = on_message_complete(request, parser.method)
    /\ pc' = "returned" /\ again' = FALSE /\ Unmarked

(* A broken form: the unfinished element is dropped. *)
EndOfDataDropsPiece ==
    /\ pc = "looping" /\ ~again
    /\ pc' = "returned" /\ Unmarked
    /\ UNCHANGED <<stream, again, parser, request>>

(* The buffer is used up: an element that is not at its end is handed over *)
(* as far as it goes.                                                      *)
EndOfData ==
    /\ pc = "looping" /\ ~again
    /\ request' = Callback(mark, piece) /\ Unmarked
    /\ pc' = "returned"
    /\ UNCHANGED <<stream, again, parser>>

-----------------------------------------------------------------------------
(* The request line *)

StartReq ==
    /\ In({"s_start_req"})
    /\ \/ byte \in {CR, LF} /\ Advance(Now)
       \/ /\ byte \in DOMAIN FirstGuess
          /\ Advance([To("s_req_method") EXCEPT
                !.flags = {}, !.content_length = NoLength,
                !.method = FirstGuess[byte], !.index = 1])
       \/ byte \notin {CR, LF} \union DOMAIN FirstGuess /\ Fail("INVALID_METHOD")

(* matcher[index] is the byte, or the method is corrected. *)
Corrected(method, i, c) ==
    IF i < Len(method) /\ CharAt(method, i + 1) = c THEN {method}
    ELSE {x[4] : x \in {y \in Corrections : <<y[1], y[2], y[3]>> = <<method, i, c>>}}

ReqMethod ==
    /\ In({"s_req_method"})
    /\ LET candidates == Corrected(parser.method, parser.index, byte)
           complete   == byte = SP /\ parser.index = Len(parser.method)
           next       == [Now EXCEPT !.index = @ + 1]
       IN \/ complete /\ Advance([next EXCEPT !.state = "s_req_spaces_before_url"])
          \/ \E m \in candidates : Advance([next EXCEPT !.method = m])
          \/ ~complete /\ candidates = {} /\ Fail("INVALID_METHOD")

(* The url begins; CONNECT's begins with the server. *)
SpacesBeforeUrl ==
    /\ In({"s_req_spaces_before_url"})
    /\ LET from == IF parser.method = "CONNECT" THEN "s_req_server_start"
                                                ELSE parser.state
           next == parse_url_char(from, byte)
       IN \/ byte = SP /\ Advance(Now)
          \/ byte # SP /\ next # "s_dead" /\ Mark("url", To(next))
          \/ byte # SP /\ next = "s_dead" /\ Fail("INVALID_URL")

(* In the url; after the scheme and its slashes a space may end it, and a  *)
(* line without a version too.                                             *)
Url ==
    /\ In(UrlPrefixStates \union UrlRestStates)
    /\ LET next == parse_url_char(parser.state, byte)
           ends == parser.state \in UrlRestStates
       IN \/ next # "s_dead" /\ Advance(To(next))
          \/ ends /\ byte = SP /\ CallbackData(To("s_req_http_start"))
          \/ ends /\ byte = CR /\ CallbackData(To("s_req_line_almost_done"))
          \/ ends /\ byte = LF /\ CallbackData(To("s_header_field_start"))
          \/ /\ next = "s_dead" /\ ~(ends /\ byte \in {SP, CR, LF})
             /\ Fail("INVALID_URL")

(* "HTTP/1.1" or "RTSP/1.0": without strict checks the first letter and    *)
(* the numbers are looked at, the letters between are not.                 *)
AnyLetter ==
    [s_req_http_H |-> "s_req_http_HT", s_req_http_HT |-> "s_req_http_HTT",
     s_req_http_HTT |-> "s_req_http_HTTP", s_req_http_HTTP |-> "s_req_http_major"]
VersionPart ==
    [s_req_http_major |-> <<Num, "s_req_http_dot">>,
     s_req_http_dot   |-> <<{"."}, "s_req_http_minor">>,
     s_req_http_minor |-> <<Num, "s_req_http_end">>]

HttpStart ==
    /\ In({"s_req_http_start"})
    /\ \/ byte \in {"H", "R"} /\ Advance(To("s_req_http_H"))
       \/ byte = SP /\ Advance(Now)
       \/ byte \notin {"H", "R", SP} /\ Fail("INVALID_CONSTANT")
Version ==
    \/ In(DOMAIN AnyLetter) /\ Advance(To(AnyLetter[parser.state]))
    \/ /\ In(DOMAIN VersionPart)
       /\ LET part == VersionPart[parser.state]
          IN IF byte \in part[1] THEN Advance(To(part[2]))
                                 ELSE Fail("INVALID_VERSION")

LineEnd ==
    \/ /\ In({"s_req_http_end"})
       /\ \/ byte = CR /\ Advance(To("s_req_line_almost_done"))
          \/ byte = LF /\ Advance(To("s_header_field_start"))
          \/ byte \notin {CR, LF} /\ Fail("INVALID_VERSION")
    \/ /\ In({"s_req_line_almost_done"})
       /\ IF byte = LF THEN Advance(To("s_header_field_start"))
                       ELSE Fail("LF_EXPECTED")

-----------------------------------------------------------------------------
(* Headers *)

\* The words the parser looks for while it reads a header's name ...
NameWord ==
    [h_matching_connection        |-> <<"connection", "h_connection">>,
     h_matching_proxy_connection  |-> <<"proxy-connection", "h_connection">>,
     h_matching_content_length    |-> <<"content-length", "h_content_length">>,
     h_matching_transfer_encoding |-> <<"transfer-encoding", "h_transfer_encoding">>,
     h_matching_upgrade           |-> <<"upgrade", "h_upgrade">>]
\* ... and while it reads a value; in a list, the next word may match.
ValueWord ==
    [h_matching_transfer_encoding_chunked |->
        <<"chunked", "h_transfer_encoding_chunked", "h_general">>,
     h_matching_connection_keep_alive |->
        <<"keep-alive", "h_connection_keep_alive", "h_matching_connection_token">>,
     h_matching_connection_close |->
        <<"close", "h_connection_close", "h_matching_connection_token">>,
     h_matching_connection_upgrade |->
        <<"upgrade", "h_connection_upgrade", "h_matching_connection_token">>]
ConnectionFlag ==
    [h_connection_keep_alive |-> "CONNECTION_KEEP_ALIVE",
     h_connection_close      |-> "CONNECTION_CLOSE",
     h_connection_upgrade    |-> "CONNECTION_UPGRADE"]

(* One more letter of a word: index moves on, and the state stays until    *)
(* the last letter, or the first that differs.                             *)
Match(p, word, whole, otherwise, c) ==
    LET i == p.index + 1
    IN [p EXCEPT !.index = i,
                 !.header_state =
                    IF i >= Len(word) \/ CharAt(word, i + 1) # c THEN otherwise
                    ELSE IF i = Len(word) - 1 THEN whole ELSE @]

(* The flags are set when the header is over. *)
WithFlags(p) ==
    IF p.header_state \in DOMAIN ConnectionFlag
    THEN [p EXCEPT !.flags = @ \union {ConnectionFlag[p.header_state]}]
    ELSE IF p.header_state = "h_transfer_encoding_chunked"
    THEN [p EXCEPT !.flags = @ \union {"CHUNKED"}]
    ELSE p

HeaderFieldStart ==
    /\ In({"s_header_field_start"})
    /\ LET first == CASE token(byte) = "c" -> "h_C"
                      [] token(byte) = "p" -> "h_matching_proxy_connection"
                      [] token(byte) = "t" -> "h_matching_transfer_encoding"
                      [] token(byte) = "u" -> "h_matching_upgrade"
                      [] OTHER -> "h_general"
       IN \/ byte = CR /\ Advance(To("s_headers_almost_done"))
          \/ byte = LF /\ Reexecute(To("s_headers_almost_done"))
          \/ /\ byte \in Tokens
             /\ Mark("header_field", [To("s_header_field") EXCEPT
                    !.index = 0, !.header_state = first])
          \/ byte \notin {CR, LF} \union Tokens /\ Fail("INVALID_HEADER_TOKEN")

NameLetter(p, c) ==
    LET s == p.header_state
        Else(word, state) == IF c = word THEN state ELSE "h_general"
        Next1(state) == [p EXCEPT !.index = @ + 1, !.header_state = state]
    IN CASE s = "h_C"   -> Next1(Else("o", "h_CO"))
         [] s = "h_CO"  -> Next1(Else("n", "h_CON"))
         [] s = "h_CON" -> Next1(IF c = "n" THEN "h_matching_connection"
                                 ELSE Else("t", "h_matching_content_length"))
         [] s \in DOMAIN NameWord ->
                Match(p, NameWord[s][1], NameWord[s][2], "h_general", c)
         [] s \in {"h_connection", "h_content_length",
                   "h_transfer_encoding", "h_upgrade"} /\ c # SP ->
                [p EXCEPT !.header_state = "h_general"]
         [] OTHER -> p

HeaderField ==
    /\ In({"s_header_field"})
    /\ \/ byte \in Tokens /\ Advance(NameLetter(Now, token(byte)))
       \/ byte = ":" /\ CallbackData(To("s_header_value_discard_ws"))
       \/ byte \notin Tokens \union {":"} /\ Fail("INVALID_HEADER_TOKEN")

(* The first byte of a value, or of a line that continues one. *)
ListWord(c) ==
    CASE c = "k" -> "h_matching_connection_keep_alive"
      [] c = "c" -> "h_matching_connection_close"
      [] c = "u" -> "h_matching_connection_upgrade"
      [] OTHER   -> "h_matching_connection_token"

ValueState(s, c) ==
    CASE s = "h_transfer_encoding" /\ c = "c" ->
            "h_matching_transfer_encoding_chunked"
      [] s = "h_content_length" -> "h_content_length_num"
      [] s = "h_connection" -> ListWord(c)
      [] s = "h_matching_connection_token_start" -> s
      [] OTHER -> "h_general"

ValueStart ==
    LET s == parser.header_state
        p == [To("s_header_value") EXCEPT
                !.index = 0, !.header_state = ValueState(s, LOWER(byte))]
        known == "CONTENTLENGTH" \in parser.flags
    IN \/ /\ s = "h_upgrade"
          /\ Mark("header_value", [p EXCEPT !.flags = @ \union {"UPGRADE"}])
       \/ s = "h_content_length" /\ byte \notin Num /\ Fail("INVALID_CONTENT_LENGTH")
       \/ /\ s = "h_content_length" /\ byte \in Num /\ known
          /\ Fail("UNEXPECTED_CONTENT_LENGTH")
       \/ /\ s = "h_content_length" /\ byte \in Num /\ ~known
          /\ Mark("header_value", [p EXCEPT
                !.flags = @ \union {"CONTENTLENGTH"}, !.content_length = Value(byte)])
       \/ s \notin {"h_upgrade", "h_content_length"} /\ Mark("header_value", p)

HeaderValueStart ==
    \/ In({"s_header_value_start"}) /\ ValueStart
    \/ /\ In({"s_header_value_discard_ws"})
       /\ \/ byte \in {SP, HT} /\ Advance(Now)
          \/ byte = CR /\ Advance(To("s_header_value_discard_ws_almost_done"))
          \/ byte = LF /\ Advance(To("s_header_value_discard_lws"))
          \/ byte \notin {SP, HT, CR, LF} /\ ValueStart

(* A byte of a value.  Control characters other than a tab, which are     *)
(* refused in values that are looked into, do not occur.  Words are        *)
(* compared with the lowered byte, the rest looks at the byte itself; but  *)
(* a word of a list begins with a token once it is lowered, which a tab    *)
(* and an underscore are not.                                              *)
InList(p, ch) ==
    LET s == p.header_state
        c == LOWER(ch)
    IN CASE s = "h_matching_connection_token_start" ->
                CASE c \in StrictTokens -> [p EXCEPT !.header_state = ListWord(c)]
                  [] c = SP -> p
                  [] OTHER -> [p EXCEPT !.header_state = "h_general"]
         [] s # "h_matching_connection_token_start" /\ ch = "," ->
                [WithFlags(p) EXCEPT !.index = 0,
                    !.header_state = "h_matching_connection_token_start"]
         [] s \notin {"h_matching_connection_token_start", "h_matching_connection_token"}
                /\ ch \notin {",", SP} ->
                [p EXCEPT !.header_state = "h_matching_connection_token"]
         [] OTHER -> p

LengthOverflows(length, base) ==
    (ULLONG_MAX - base) \div base < length

ValueLetter(p, ch) ==
    LET s == p.header_state
    IN CASE s \in DOMAIN ValueWord ->
                Match(p, ValueWord[s][1], ValueWord[s][2], ValueWord[s][3], LOWER(ch))
         [] s = "h_transfer_encoding_chunked" /\ ch # SP ->
                [p EXCEPT !.header_state = "h_general"]
         [] s \in DOMAIN ConnectionFlag \union
                {"h_matching_connection_token_start", "h_matching_connection_token"} ->
                InList(p, ch)
         [] s = "h_content_length_num" /\ ch = SP ->
                [p EXCEPT !.header_state = "h_content_length_ws"]
         [] s = "h_content_length_num" /\ ch \in Num ->
                [p EXCEPT !.content_length = @ * 10 + Value(ch)]
         [] OTHER -> p

BadLength ==
    \/ /\ parser.header_state = "h_content_length_num"
       /\ \/ byte \notin Num \union {SP}
          \/ byte \in Num /\ LengthOverflows(parser.content_length, 10)
    \/ parser.header_state = "h_content_length_ws" /\ byte # SP

HeaderValue ==
    /\ In({"s_header_value"})
    /\ \/ byte = CR /\ CallbackData(To("s_header_almost_done"))
       \/ byte = LF /\ CallbackReexecute(mark, To("s_header_almost_done"))
       \/ byte \notin {CR, LF} /\ BadLength /\ Fail("INVALID_CONTENT_LENGTH")
       \/ byte \notin {CR, LF} /\ ~BadLength /\ Advance(ValueLetter(Now, byte))

(* The end of a header's line; a line that begins with a space continues   *)
(* the value.                                                              *)
HeaderEnd ==
    \/ /\ In({"s_header_almost_done"})
       /\ IF byte = LF THEN Advance(To("s_header_value_lws")) ELSE Fail("LF_EXPECTED")
    \/ /\ In({"s_header_value_lws"})
       /\ IF byte \in {SP, HT}
          THEN Reexecute(To("s_header_value_start"))
          ELSE Reexecute([WithFlags(Now) EXCEPT !.state = "s_header_field_start"])

(* A value that is empty so far. *)
EmptyValue ==
    \/ /\ In({"s_header_value_discard_ws_almost_done"})
       /\ Advance(To("s_header_value_discard_lws"))
    \/ /\ In({"s_header_value_discard_lws"})
       /\ IF byte \in {SP, HT}
          THEN Advance(To("s_header_value_discard_ws"))
          ELSE CallbackReexecute("header_value",
                    [WithFlags(Now) EXCEPT !.state = "s_header_field_start"])

(* The empty line. *)
HeadersAlmostDone ==
    /\ In({"s_headers_almost_done"})
    /\ LET both == {"CHUNKED", "CONTENTLENGTH"} \subseteq parser.flags
           upgrade == \/ {"UPGRADE", "CONNECTION_UPGRADE"} \subseteq parser.flags
                      \/ parser.method = "CONNECT"
       IN \/ "TRAILING" \in parser.flags /\ Reexecute(To("s_message_done"))
          \/ "TRAILING" \notin parser.flags /\ both /\ Fail("UNEXPECTED_CONTENT_LENGTH")
          \/ /\ "TRAILING" \notin parser.flags /\ ~both
             /\ Reexecute([To("s_headers_done") EXCEPT !.upgrade = upgrade])

(* A broken form: nread is not reset. *)
HeadersOverKeepsCount == Now

(* What kind of body follows.  Without a length a request has none. *)
HeadersOver == [Now EXCEPT !.nread = 0]
HeadersDone ==
    /\ In({"s_headers_done"})
    /\ LET p       == HeadersOver
           chunked == "CHUNKED" \in parser.flags
           hasBody == chunked \/ parser.content_length \notin {0, NoLength}
           leaves  == parser.upgrade /\ (parser.method = "CONNECT" \/ ~hasBody)
       IN \/ leaves /\ UpgradeReturns(p)
          \/ ~leaves /\ chunked /\ Advance([p EXCEPT !.state = "s_chunk_size_start"])
          \/ ~leaves /\ ~hasBody /\ MessageComplete(p)
          \/ /\ ~leaves /\ hasBody /\ ~chunked
             /\ Advance([p EXCEPT !.state = "s_body_identity"])

-----------------------------------------------------------------------------
(* Bodies *)

BodyPiece == IF mark = "body" THEN piece \o byte ELSE byte

(* A broken form: the body ends one byte late. *)
BodyIdentityWantsOneMore ==
    /\ In({"s_body_identity"})
    /\ IF parser.content_length > 0
       THEN /\ parser' = [Now EXCEPT !.content_length = @ - 1] /\ Consume
            /\ mark' = "body" /\ piece' = BodyPiece
            /\ UNCHANGED request
       ELSE /\ parser' = To("s_message_done")
            /\ request' = on_body(request, BodyPiece) /\ Unmarked
            /\ again' = TRUE /\ UNCHANGED <<stream, pc>>

(* A body of known length; its last byte is looked at again. *)
BodyIdentity ==
    /\ In({"s_body_identity"})
    /\ LET p == [Now EXCEPT !.content_length = @ - 1]
       IN IF p.content_length > 0
          THEN /\ parser' = p /\ Consume
               /\ mark' = "body" /\ piece' = BodyPiece
               /\ UNCHANGED request
          ELSE /\ parser' = [p EXCEPT !.state = "s_message_done"]
               /\ request' = on_body(request, BodyPiece) /\ Unmarked
               /\ again' = TRUE /\ UNCHANGED <<stream, pc>>

MessageDone ==
    /\ In({"s_message_done"})
    /\ IF parser.upgrade THEN UpgradeReturns(Now) ELSE MessageComplete(Now)

(* The size of a chunk, in hexadecimal digits; what follows it on its line *)
(* is skipped.                                                             *)
ChunkSize ==
    LET v == unhex(byte)
    IN \/ /\ In({"s_chunk_size_start"})
          /\ IF v = -1 THEN Fail("INVALID_CHUNK_SIZE")
             ELSE Advance([To("s_chunk_size") EXCEPT !.content_length = v])
       \/ /\ In({"s_chunk_size"})
          /\ \/ byte = CR /\ Advance(To("s_chunk_size_almost_done"))
             \/ byte \in {";", SP} /\ Advance(To("s_chunk_parameters"))
             \/ v = -1 /\ byte \notin {CR, ";", SP} /\ Fail("INVALID_CHUNK_SIZE")
             \/ /\ v # -1 /\ LengthOverflows(parser.content_length, 16)
                /\ Fail("INVALID_CONTENT_LENGTH")
             \/ /\ v # -1 /\ ~LengthOverflows(parser.content_length, 16)
                /\ Advance([Now EXCEPT !.content_length = @ * 16 + v])
       \/ /\ In({"s_chunk_parameters"})
          /\ Advance(IF byte = CR THEN To("s_chunk_size_almost_done") ELSE Now)

(* A chunk of size 0 is the last one: trailing headers may follow. *)
ChunkSizeAlmostDone ==
    /\ In({"s_chunk_size_almost_done"})
    /\ IF parser.content_length = 0
       THEN Advance([To("s_header_field_start") EXCEPT
                        !.nread = 0, !.flags = @ \union {"TRAILING"}])
       ELSE Advance([To("s_chunk_data") EXCEPT !.nread = 0])

ChunkData ==
    /\ In({"s_chunk_data"})
    /\ LET length == parser.content_length - 1
       IN /\ parser' = [Now EXCEPT
                !.content_length = length,
                !.state = IF length = 0 THEN "s_chunk_data_almost_done" ELSE @]
          /\ Consume
          /\ mark' = "body" /\ piece' = BodyPiece
          /\ UNCHANGED request

ChunkDone ==
    \/ /\ In({"s_chunk_data_almost_done"})
       /\ CallbackData(To("s_chunk_data_done"))
    \/ /\ In({"s_chunk_data_done"})
       /\ Advance([To("s_chunk_size_start") EXCEPT !.nread = 0])

NextByte ==
    /\ stream # ""
    /\ \/ StartReq \/ ReqMethod \/ SpacesBeforeUrl \/ Url
       \/ HttpStart \/ Version \/ LineEnd
       \/ HeaderFieldStart \/ HeaderField \/ HeaderValueStart \/ HeaderValue
       \/ HeaderEnd \/ EmptyValue \/ HeadersAlmostDone \/ HeadersDone
       \/ BodyIdentity \/ MessageDone
       \/ ChunkSize \/ ChunkSizeAlmostDone \/ ChunkData \/ ChunkDone
=============================================================================
