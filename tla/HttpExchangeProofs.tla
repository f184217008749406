-------------------------- MODULE HttpExchangeProofs --------------------------
(***************************************************************************)
(* The assertions of http_parser.c hold whatever the bytes are, however    *)
(* they are cut into recvs and whatever the requests before were: what a   *)
(* message may say is a constant of HttpExchange that nothing is assumed   *)
(* of here.                                                                *)
(*                                                                         *)
(* The inductive invariant says, for the states of the parser, how its     *)
(* record fits them: what the chunk states know of the encoding and of     *)
(* the bytes that are left, which of the header states go with a value,    *)
(* where the count of header bytes starts anew and where an element is     *)
(* marked.  It holds as long as the parser has not refused the bytes; a    *)
(* parser that has is never run again.                                     *)
(*                                                                         *)
(* The last part is about the response: no handler's answer is written     *)
(* past its allocation.                                                    *)
(***************************************************************************)
EXTENDS HttpExchange, TLAPS

\* The record http_parser_init makes, whatever its fields are.
Fields == {"state", "header_state", "index", "flags", "nread",
           "content_length", "method", "upgrade", "errno"}
ParserFields(p) == p = [f \in Fields |-> p[f]]

SizeStates  == {"s_chunk_size", "s_chunk_parameters", "s_chunk_size_almost_done"}
DataStates  == {"s_chunk_data", "s_body_identity"}
ChunkStates == SizeStates \union {"s_chunk_size_start", "s_chunk_data",
                                  "s_chunk_data_almost_done", "s_chunk_data_done"}

\* The header states a value is read in.
ValueStates ==
  {"h_general", "h_content_length_num", "h_content_length_ws",
   "h_matching_transfer_encoding_chunked", "h_transfer_encoding_chunked",
   "h_matching_connection_keep_alive", "h_matching_connection_close",
   "h_matching_connection_upgrade", "h_matching_connection_token",
   "h_matching_connection_token_start", "h_connection_keep_alive",
   "h_connection_close", "h_connection_upgrade"}

\* The states of the parser in which an element may have begun.
MarkedStates ==
  UrlPrefixStates \union UrlRestStates \union
    {"s_header_field", "s_header_value", "s_body_identity",
     "s_chunk_data", "s_chunk_data_almost_done"}

Lengths == {NoLength} \union 0 .. (ULLONG_MAX - 1)

LengthInv(p) ==
  /\ p.content_length \in Lengths
  /\ p.state \in SizeStates => p.content_length >= 0
  /\ p.state \in DataStates => p.content_length >= 1
  /\ p.state = "s_chunk_data_almost_done" => p.content_length = 0
  /\ p.state = "s_header_value" /\ p.header_state = "h_content_length_num" =>
        p.content_length >= 0

StateInv(p) ==
  /\ p.state \in ChunkStates => "CHUNKED" \in p.flags
  /\ p.state = "s_header_value" => p.header_state \in ValueStates
  /\ p.state = "s_chunk_size_start" => p.nread = 0

\* The thread parses for a connection that is open, with a parser that goes on.
ThreadInv ==
  /\ connected \/ pc = "idle"
  /\ pc \in {"idle", "entered", "looping", "returned"}
  /\ parser.errno = "OK" \/ pc = "returned" \/ ~connected
  /\ again => pc \in {"entered", "looping"} /\ parser.state # "s_chunk_size_start"

MarkInv == mark = "none" \/ In(MarkedStates)

ParserInv(p) ==
  /\ ParserFields(p)
  /\ p.errno = "OK" => LengthInv(p) /\ StateInv(p)

IInv == ThreadInv /\ MarkInv /\ ParserInv(parser)

\* In http_parser_execute, in a step that leaves the connection open.
Parsing == IInv /\ pc \in {"entered", "looping"} /\ connected'

\* A record the parser may go on with, the element at hand still marked.
GoesOn(p) == ParserInv(p) /\ p.errno = "OK" /\ (mark = "none" \/ p.state \in MarkedStates)
-----------------------------------------------------------------------------
(* The frame of http_parser_execute *)

LEMMA ParsingGoesOn ==
  ASSUME Parsing
  PROVE  GoesOn(parser) /\ LengthInv(parser) /\ StateInv(parser)
  BY DEF Parsing, GoesOn, IInv, ThreadInv, MarkInv, ParserInv, In

LEMMA AdvanceKeeps == ASSUME Parsing, NEW p, GoesOn(p), Advance(p) PROVE IInv'
  BY DEF Parsing, GoesOn, IInv, ThreadInv, MarkInv, In, Advance, Consume

LEMMA MarkKeeps ==
  ASSUME Parsing, NEW p, NEW what, ParserInv(p), p.errno = "OK",
         p.state \in MarkedStates, Mark(what, p)
  PROVE  IInv'
  BY DEF Parsing, IInv, ThreadInv, MarkInv, In, Mark, Consume

LEMMA CallbackKeeps ==
  ASSUME Parsing, NEW p, ParserInv(p), p.errno = "OK", CallbackData(p)
  PROVE  IInv'
  BY DEF Parsing, IInv, ThreadInv, MarkInv, In, CallbackData, Consume, Unmarked

LEMMA ReexecuteKeeps ==
  ASSUME Parsing, NEW p, GoesOn(p), p.state # "s_chunk_size_start", Reexecute(p)
  PROVE  IInv'
  BY DEF Parsing, GoesOn, IInv, ThreadInv, MarkInv, In, Reexecute

LEMMA CallbackReexecuteKeeps ==
  ASSUME Parsing, NEW p, NEW what, ParserInv(p), p.errno = "OK",
         p.state # "s_chunk_size_start", CallbackReexecute(what, p)
  PROVE  IInv'
  BY DEF Parsing, IInv, ThreadInv, MarkInv, In, CallbackReexecute, Unmarked

LEMMA MessageCompleteKeeps ==
  ASSUME Parsing, NEW p, ParserInv(p), p.errno = "OK",
         MessageComplete(p) \/ UpgradeReturns(p)
  PROVE  IInv'
  <1> DEFINE q == [p EXCEPT !.state = "s_start_req"]
  <1>1. ParserInv(q) /\ q.errno = "OK"
    BY DEF ParserInv, ParserFields, Fields, LengthInv, StateInv, SizeStates, DataStates,
           ChunkStates
  <1>2. parser' = q /\ again' = FALSE /\ mark' = "none" /\ pc' \in {"looping", "returned"}
    BY DEF MessageComplete, UpgradeReturns, Consume, Unmarked
  <1> QED BY <1>1, <1>2 DEF Parsing, IInv, ThreadInv, MarkInv

LEMMA FailKeeps ==
  ASSUME Parsing, NEW error, error # "OK", Fail(error)
  PROVE  IInv'
  <1>1. ParserFields(parser') /\ parser'.errno = error
    BY DEF Parsing, IInv, ParserInv, Fail, ParserFields, Fields, Now
  <1> QED BY <1>1 DEF Parsing, IInv, ThreadInv, MarkInv, ParserInv, Fail, Unmarked
-----------------------------------------------------------------------------
(* What the states know of the record *)

PlainStates(s) ==
  s \notin ChunkStates \union DataStates \union {"s_header_value"}

LEMMA NowIs ==
  ASSUME Parsing
  PROVE  /\ ParserFields(Now) /\ Now.errno = "OK"
         /\ Now.state = parser.state /\ Now.header_state = parser.header_state
         /\ Now.flags = parser.flags /\ Now.nread = Counted
         /\ Now.content_length = parser.content_length
  BY DEF Now, Parsing, IInv, ThreadInv, ParserInv, ParserFields, Fields

LEMMA ToIs ==
  ASSUME Parsing, NEW s
  PROVE  /\ ParserFields(To(s)) /\ To(s).errno = "OK"
         /\ To(s).state = s /\ To(s).header_state = parser.header_state
         /\ To(s).flags = parser.flags /\ To(s).nread = Counted
         /\ To(s).content_length = parser.content_length
  BY NowIs DEF To, ParserFields, Fields

\* To a state the invariant asks nothing of.
LEMMA ToPlain ==
  ASSUME Parsing, NEW s, PlainStates(s)
  PROVE  ParserInv(To(s)) /\ To(s).errno = "OK" /\ To(s).state = s
  <1>1. parser.content_length \in Lengths
    BY ParsingGoesOn DEF LengthInv
  <1> QED BY <1>1, ToIs DEF ParserInv, ParserFields, Fields, LengthInv, StateInv,
        PlainStates, ChunkStates, SizeStates, DataStates

LEMMA NowGoesOn ==
  ASSUME Parsing, parser.state # "s_chunk_size_start"
  PROVE  GoesOn(Now)
  BY ParsingGoesOn, NowIs DEF GoesOn, ParserInv, LengthInv, StateInv

\* Where nothing is marked.
LEMMA NoMark ==
  ASSUME Parsing, parser.state \notin MarkedStates
  PROVE  mark = "none"
  BY DEF Parsing, IInv, MarkInv, In

LEMMA ToPlainGoesOn ==
  ASSUME Parsing, NEW s, PlainStates(s), s \in MarkedStates \/ parser.state \notin MarkedStates
  PROVE  GoesOn(To(s))
  BY ToPlain, NoMark DEF GoesOn
-----------------------------------------------------------------------------
(* The request line *)

LEMMA StartReqKeeps == ASSUME Parsing, StartReq PROVE IInv'
  <1>1. parser.state = "s_start_req" BY DEF StartReq, In
  <1>2. mark = "none"
    BY <1>1, NoMark DEF MarkedStates, UrlPrefixStates, UrlRestStates
  <1>3. CASE Advance(Now)
    BY <1>1, <1>3, NowGoesOn, AdvanceKeeps
  <1>4. CASE Fail("INVALID_METHOD")
    BY <1>4, FailKeeps
  <1>5. ASSUME Advance([To("s_req_method") EXCEPT
                !.flags = {}, !.content_length = NoLength,
                !.method = FirstGuess[byte], !.index = 1])
        PROVE  IInv'
    <2> DEFINE p == [To("s_req_method") EXCEPT
                !.flags = {}, !.content_length = NoLength,
                !.method = FirstGuess[byte], !.index = 1]
    <2>1. /\ ParserFields(p) /\ p.errno = "OK"
          /\ p.state = "s_req_method" /\ p.content_length = NoLength
      <3> DEFINE r == To("s_req_method")
                 m == FirstGuess[byte]
      <3>1. ParserFields(r) /\ r.errno = "OK" /\ r.state = "s_req_method"
        BY ToIs
      <3>2. p = [r EXCEPT !.flags = {}, !.content_length = NoLength,
                          !.method = m, !.index = 1]
        OBVIOUS
      <3> HIDE DEF p, r, m
      <3>3. /\ ParserFields(p) /\ p.errno = r.errno
            /\ p.state = r.state /\ p.content_length = NoLength
        BY <3>1, <3>2 DEF ParserFields, Fields
      <3> QED BY <3>1, <3>3
    <2>2. GoesOn(p)
      BY <1>2, <2>1 DEF GoesOn, ParserInv, LengthInv, StateInv, Lengths,
         ChunkStates, SizeStates, DataStates
    <2> QED BY <1>5, <2>2, AdvanceKeeps
  <1> QED BY <1>3, <1>4, <1>5 DEF StartReq

LEMMA ReqMethodKeeps == ASSUME Parsing, ReqMethod PROVE IInv'
  <1>1. parser.state = "s_req_method" BY DEF ReqMethod, In
  <1>2. mark = "none"
    BY <1>1, NoMark DEF MarkedStates, UrlPrefixStates, UrlRestStates
  <1> DEFINE next == [Now EXCEPT !.index = @ + 1]
  <1>3. CASE Advance([next EXCEPT !.state = "s_req_spaces_before_url"])
    <2> DEFINE p == [next EXCEPT !.state = "s_req_spaces_before_url"]
    <2>1. /\ ParserFields(p) /\ p.errno = "OK"
          /\ p.state = "s_req_spaces_before_url"
          /\ p.content_length = parser.content_length
      BY NowIs DEF ParserFields, Fields
    <2>2. GoesOn(p)
      BY <1>2, <2>1, ParsingGoesOn DEF GoesOn, ParserInv, LengthInv, StateInv,
         ChunkStates, SizeStates, DataStates
    <2> QED BY <1>3, <2>2, AdvanceKeeps
  <1>4. ASSUME NEW m, Advance([next EXCEPT !.method = m]) PROVE IInv'
    <2> DEFINE p == [next EXCEPT !.method = m]
    <2>1. /\ ParserFields(p) /\ p.errno = "OK" /\ p.state = "s_req_method"
          /\ p.content_length = parser.content_length
      BY <1>1, NowIs DEF ParserFields, Fields
    <2>2. GoesOn(p)
      BY <1>2, <2>1, ParsingGoesOn DEF GoesOn, ParserInv, LengthInv, StateInv,
         ChunkStates, SizeStates, DataStates
    <2> QED BY <1>4, <2>2, AdvanceKeeps
  <1>5. CASE Fail("INVALID_METHOD")
    BY <1>5, FailKeeps
  <1> QED BY <1>3, <1>4, <1>5 DEF ReqMethod

\* parse_url_char stays in the url, or is dead.
LEMMA UrlStates ==
  ASSUME NEW s, NEW ch, parse_url_char(s, ch) # "s_dead"
  PROVE  parse_url_char(s, ch) \in UrlPrefixStates \union UrlRestStates
  <1>1. InServer(ch) \in UrlRestStates \union {"s_dead"}
    BY DEF InServer, UrlRestStates
  <1>2. InQuery(ch) \in UrlRestStates \union {"s_dead"}
    BY DEF InQuery, UrlRestStates
  <1> QED BY <1>1, <1>2 DEF parse_url_char, UrlPrefixStates, UrlRestStates

LEMMA UrlPlain ==
  ASSUME NEW s \in UrlPrefixStates \union UrlRestStates
  PROVE  PlainStates(s) /\ s \in MarkedStates
  BY DEF UrlPrefixStates, UrlRestStates, PlainStates, MarkedStates, ChunkStates,
         SizeStates, DataStates

LEMMA SpacesBeforeUrlKeeps == ASSUME Parsing, SpacesBeforeUrl PROVE IInv'
  <1>1. parser.state = "s_req_spaces_before_url" BY DEF SpacesBeforeUrl, In
  <1>2. CASE Advance(Now) BY <1>1, <1>2, NowGoesOn, AdvanceKeeps
  <1>3. CASE Fail("INVALID_URL") BY <1>3, FailKeeps
  <1>4. ASSUME NEW from, parse_url_char(from, byte) # "s_dead",
               Mark("url", To(parse_url_char(from, byte)))
        PROVE  IInv'
    <2> DEFINE next == parse_url_char(from, byte)
    <2>1. PlainStates(next) /\ next \in MarkedStates BY <1>4, UrlStates, UrlPlain
    <2>2. ParserInv(To(next)) /\ To(next).errno = "OK" /\ To(next).state = next
      BY <2>1, ToPlain
    <2> QED BY <1>4, <2>1, <2>2, MarkKeeps
  <1> QED BY <1>2, <1>3, <1>4 DEF SpacesBeforeUrl

LEMMA UrlKeeps == ASSUME Parsing, Url PROVE IInv'
  <1> DEFINE next == parse_url_char(parser.state, byte)
  <1>1. CASE next # "s_dead" /\ Advance(To(next))
    BY <1>1, UrlStates, UrlPlain, ToPlainGoesOn, AdvanceKeeps
  <1>2. ASSUME NEW s \in {"s_req_http_start", "s_req_line_almost_done",
                          "s_header_field_start"}, CallbackData(To(s))
        PROVE  IInv'
    <2>1. PlainStates(s) BY DEF PlainStates, ChunkStates, SizeStates, DataStates
    <2> QED BY <1>2, <2>1, ToPlain, CallbackKeeps
  <1>3. CASE Fail("INVALID_URL") BY <1>3, FailKeeps
  <1> QED BY <1>1, <1>2, <1>3 DEF Url

\* A line of the header goes on, where nothing is marked.
LEMMA LineKeeps ==
  ASSUME Parsing, parser.state \notin MarkedStates,
         NEW s, PlainStates(s), Advance(To(s))
  PROVE  IInv'
  BY ToPlainGoesOn, AdvanceKeeps

LEMMA VersionKeeps == ASSUME Parsing, HttpStart \/ Version \/ LineEnd PROVE IInv'
  <1> USE DEF PlainStates, ChunkStates, SizeStates, DataStates, MarkedStates,
              UrlPrefixStates, UrlRestStates
  <1>1. CASE HttpStart
    <2>1. parser.state = "s_req_http_start" BY <1>1 DEF HttpStart, In
    <2>2. CASE Advance(To("s_req_http_H")) BY <2>1, <2>2, LineKeeps
    <2>3. CASE Advance(Now) BY <2>1, <2>3, NowGoesOn, AdvanceKeeps
    <2>4. CASE Fail("INVALID_CONSTANT") BY <2>4, FailKeeps
    <2> QED BY <1>1, <2>2, <2>3, <2>4 DEF HttpStart
  <1>2. CASE In(DOMAIN AnyLetter) /\ Advance(To(AnyLetter[parser.state]))
    <2>1. /\ parser.state \notin MarkedStates
          /\ PlainStates(AnyLetter[parser.state])
      BY <1>2 DEF In, AnyLetter
    <2> QED BY <1>2, <2>1, LineKeeps
  <1>3. CASE /\ In(DOMAIN VersionPart)
             /\ \/ Advance(To(VersionPart[parser.state][2]))
                \/ Fail("INVALID_VERSION")
    <2>1. /\ parser.state \notin MarkedStates
          /\ PlainStates(VersionPart[parser.state][2])
      BY <1>3 DEF In, VersionPart
    <2> QED BY <1>3, <2>1, LineKeeps, FailKeeps
  <1>4. CASE LineEnd
    <2>1. parser.state \in {"s_req_http_end", "s_req_line_almost_done"}
      BY <1>4 DEF LineEnd, In
    <2>2. CASE Advance(To("s_req_line_almost_done")) BY <2>1, <2>2, LineKeeps
    <2>3. CASE Advance(To("s_header_field_start")) BY <2>1, <2>3, LineKeeps
    <2>4. CASE Fail("INVALID_VERSION") \/ Fail("LF_EXPECTED") BY <2>4, FailKeeps
    <2> QED BY <1>4, <2>2, <2>3, <2>4 DEF LineEnd
  <1> QED BY <1>1, <1>2, <1>3, <1>4 DEF Version
-----------------------------------------------------------------------------
(* Headers *)

\* Another header state, and nothing else the invariant looks at.
SameBut(q, p) ==
  /\ ParserFields(q) /\ q.state = p.state /\ q.errno = p.errno
  /\ q.flags = p.flags /\ q.nread = p.nread /\ q.content_length = p.content_length

LEMMA HeaderStateKeeps ==
  ASSUME NEW p, ParserFields(p), NEW i, NEW h
  PROVE  /\ SameBut(p, p)
         /\ SameBut([p EXCEPT !.header_state = h], p)
         /\ SameBut([p EXCEPT !.index = i, !.header_state = h], p)
         /\ [p EXCEPT !.header_state = h].header_state = h
         /\ [p EXCEPT !.index = i, !.header_state = h].header_state = h
  BY DEF SameBut, ParserFields, Fields

LEMMA MatchKeeps ==
  ASSUME NEW p, ParserFields(p), NEW word, NEW whole, NEW otherwise, NEW c
  PROVE  /\ SameBut(Match(p, word, whole, otherwise, c), p)
         /\ Match(p, word, whole, otherwise, c).header_state
                \in {whole, otherwise, p.header_state}
  <1> DEFINE i == p.index + 1
             h == IF i >= Len(word) \/ CharAt(word, i + 1) # c THEN otherwise
                  ELSE IF i = Len(word) - 1 THEN whole ELSE p.header_state
  <1>1. Match(p, word, whole, otherwise, c) = [p EXCEPT !.index = i, !.header_state = h]
    BY DEF Match
  <1>2. h \in {whole, otherwise, p.header_state}
    OBVIOUS
  <1> DEFINE q == Match(p, word, whole, otherwise, c)
  <1> HIDE DEF h, i, q
  <1>3. SameBut(q, p) /\ q.header_state = h
    <2>1. q = [p EXCEPT !.index = i, !.header_state = h]
      BY <1>1 DEF q
    <2> QED BY <2>1 DEF SameBut, ParserFields, Fields
  <1> QED BY <1>2, <1>3, Zenon DEF q

LEMMA NameLetterKeeps ==
  ASSUME NEW p, ParserFields(p), NEW c
  PROVE  SameBut(NameLetter(p, c), p)
  <1> DEFINE s == p.header_state
  <1>1. CASE s \in {"h_C", "h_CO", "h_CON"}
    <2>1. PICK h : NameLetter(p, c) = [p EXCEPT !.index = p.index + 1, !.header_state = h]
      BY <1>1 DEF NameLetter, NameWord
    <2>2. SameBut([p EXCEPT !.index = p.index + 1, !.header_state = h], p)
      BY HeaderStateKeeps
    <2> QED BY <2>1, <2>2, Zenon
  <1>2. CASE s \in DOMAIN NameWord
    BY <1>2, MatchKeeps DEF NameLetter, NameWord
  <1>3. CASE s \notin {"h_C", "h_CO", "h_CON"} \union DOMAIN NameWord
    BY <1>3, HeaderStateKeeps DEF NameLetter
  <1> QED BY <1>1, <1>2, <1>3

LEMMA WithFlagsKeeps ==
  ASSUME NEW p, ParserFields(p), NEW s
  PROVE  LET q == [WithFlags(p) EXCEPT !.state = s]
         IN /\ ParserFields(q) /\ q.state = s /\ q.errno = p.errno
            /\ q.content_length = p.content_length
  BY DEF WithFlags, ParserFields, Fields

LEMMA ValueStateIs ==
  ASSUME NEW s, NEW c
  PROVE  /\ ValueState(s, c) \in ValueStates
         /\ ValueState(s, c) = "h_content_length_num" => s = "h_content_length"
  BY DEF ValueState, ListWord, ValueStates

LEMMA WordIs ==
  ASSUME NEW s \in DOMAIN ValueWord
  PROVE  /\ {ValueWord[s][2], ValueWord[s][3]} \subseteq ValueStates
         /\ "h_content_length_num" \notin {s, ValueWord[s][2], ValueWord[s][3]}
  BY DEF ValueWord, ValueStates

LEMMA InListKeeps ==
  ASSUME NEW p, ParserFields(p), NEW c, p.header_state \in ValueStates,
         p.header_state # "h_content_length_num"
  PROVE  LET q == InList(p, c)
         IN /\ ParserFields(q) /\ q.state = p.state /\ q.errno = p.errno
            /\ q.nread = p.nread /\ q.content_length = p.content_length
            /\ q.header_state \in ValueStates \ {"h_content_length_num"}
  <1> DEFINE s == p.header_state
             comma == [WithFlags(p) EXCEPT !.index = 0,
                          !.header_state = "h_matching_connection_token_start"]
  <1>1. ListWord(LOWER(c)) \in ValueStates \ {"h_content_length_num"}
    BY DEF ListWord, ValueStates
  <1>2. /\ "h_matching_connection_token" \in ValueStates
        /\ "h_matching_connection_token_start" \in ValueStates
        /\ "h_general" \in ValueStates
    BY DEF ValueStates
  <1>3. /\ ParserFields(comma) /\ comma.state = p.state /\ comma.errno = p.errno
        /\ comma.nread = p.nread /\ comma.content_length = p.content_length
        /\ comma.header_state = "h_matching_connection_token_start"
    BY DEF WithFlags, ParserFields, Fields
  <1> DEFINE q(h) == [p EXCEPT !.header_state = h]
  <1>4. \A h : SameBut(q(h), p) /\ q(h).header_state = h
    BY HeaderStateKeeps
  <1>5. CASE s = "h_matching_connection_token_start"
    <2>1. InList(p, c) \in {q(ListWord(LOWER(c))), q("h_general"), p}
      BY <1>5 DEF InList
    <2> HIDE DEF q
    <2> QED BY <1>1, <1>2, <1>4, <2>1 DEF SameBut
  <1>6. CASE s # "h_matching_connection_token_start"
    <2>1. InList(p, c) \in {q("h_matching_connection_token"), comma, p}
      BY <1>6 DEF InList
    <2> HIDE DEF q, comma
    <2> QED BY <1>2, <1>3, <1>4, <2>1 DEF SameBut
  <1> QED BY <1>5, <1>6

LEMMA ValueLetterKeeps ==
  ASSUME NEW p, ParserFields(p), NEW c, p.header_state \in ValueStates
  PROVE  LET q == ValueLetter(p, c)
         IN /\ ParserFields(q) /\ q.state = p.state /\ q.errno = p.errno
            /\ q.nread = p.nread /\ q.header_state \in ValueStates
            /\ \/ /\ q.content_length = p.content_length
                  /\ q.header_state = "h_content_length_num" =>
                        p.header_state = "h_content_length_num"
               \/ /\ p.header_state = "h_content_length_num" /\ c \in Num
                  /\ q.content_length = p.content_length * 10 + Value(c)
  <1> DEFINE s == p.header_state
             lists == DOMAIN ConnectionFlag \union
                {"h_matching_connection_token_start", "h_matching_connection_token"}
  <1>1. CASE s \in DOMAIN ValueWord
    <2> DEFINE w == ValueWord[s]
                 q == Match(p, w[1], w[2], w[3], LOWER(c))
    <2>1. ValueLetter(p, c) = q
      BY <1>1 DEF ValueLetter, ValueWord, ConnectionFlag
    <2>2. SameBut(q, p) /\ q.header_state \in {w[2], w[3], s}
      BY MatchKeeps, Zenon
    <2>3. {w[2], w[3]} \subseteq ValueStates /\ "h_content_length_num" \notin {s, w[2], w[3]}
      BY <1>1, WordIs, Zenon
    <2> HIDE DEF w, q
    <2> QED BY <2>1, <2>2, <2>3 DEF SameBut
  <1>2. CASE s \in lists
    BY <1>2, InListKeeps DEF ValueLetter, ValueWord, ConnectionFlag
  <1>3. CASE s \notin DOMAIN ValueWord \union lists
    BY <1>3, TablesAssumption DEF ValueLetter, ValueStates, ParserFields, Fields
  <1> QED BY <1>1, <1>2, <1>3

\* A digit more, where LengthOverflows allows it, leaves the greatest value free.
LEMMA LengthGrows ==
  ASSUME NEW base \in {10, 16}, NEW n \in Nat, NEW v \in 0 .. (base - 1),
         ~LengthOverflows(n, base)
  PROVE  n * base + v \in 0 .. (ULLONG_MAX - 1)
  <1>1. CASE base = 10
    BY <1>1, WidthAssumption DEF LengthOverflows
  <1>2. CASE base = 16
    BY <1>2, WidthAssumption DEF LengthOverflows
  <1> QED BY <1>1, <1>2

LEMMA HeaderFieldKeeps == ASSUME Parsing, HeaderFieldStart \/ HeaderField PROVE IInv'
  <1> USE DEF PlainStates, ChunkStates, SizeStates, DataStates, MarkedStates,
              UrlPrefixStates, UrlRestStates
  <1>1. CASE HeaderFieldStart
    <2>1. parser.state = "s_header_field_start" BY <1>1 DEF HeaderFieldStart, In
    <2>2. CASE Advance(To("s_headers_almost_done"))
      BY <2>1, <2>2, LineKeeps
    <2>3. CASE Reexecute(To("s_headers_almost_done"))
      BY <2>1, <2>3, ToPlainGoesOn, ToIs, ReexecuteKeeps
    <2>4. ASSUME NEW first, Mark("header_field", [To("s_header_field") EXCEPT
                    !.index = 0, !.header_state = first])
          PROVE  IInv'
      <3> DEFINE p == [To("s_header_field") EXCEPT !.index = 0, !.header_state = first]
      <3>1. /\ ParserFields(p) /\ p.errno = "OK" /\ p.state = "s_header_field"
            /\ p.content_length = parser.content_length
        BY ToIs DEF ParserFields, Fields
      <3>2. ParserInv(p)
        BY <3>1, ParsingGoesOn DEF ParserInv, LengthInv, StateInv
      <3> QED BY <2>4, <3>1, <3>2, MarkKeeps
    <2>5. CASE Fail("INVALID_HEADER_TOKEN") BY <2>5, FailKeeps
    <2> QED BY <1>1, <2>2, <2>3, <2>4, <2>5 DEF HeaderFieldStart
  <1>2. CASE HeaderField
    <2>1. parser.state = "s_header_field" BY <1>2 DEF HeaderField, In
    <2>2. ASSUME NEW c, Advance(NameLetter(Now, c)) PROVE IInv'
      <3> DEFINE p == NameLetter(Now, c)
      <3>1. SameBut(p, Now) BY NowIs, NameLetterKeeps
      <3>2. GoesOn(p)
        BY <2>1, <3>1, NowIs, ParsingGoesOn
           DEF SameBut, GoesOn, ParserInv, LengthInv, StateInv
      <3> QED BY <2>2, <3>2, AdvanceKeeps
    <2>3. CASE CallbackData(To("s_header_value_discard_ws"))
      BY <2>3, ToPlain, CallbackKeeps
    <2>4. CASE Fail("INVALID_HEADER_TOKEN") BY <2>4, FailKeeps
    <2> QED BY <1>2, <2>2, <2>3, <2>4 DEF HeaderField
  <1> QED BY <1>1, <1>2

\* The first byte of a value.
LEMMA ValueStartKeeps ==
  ASSUME Parsing, ValueStart
  PROVE  IInv'
  <1> DEFINE s == parser.header_state
             p == [To("s_header_value") EXCEPT
                    !.index = 0, !.header_state = ValueState(s, LOWER(byte))]
             upgrades == [p EXCEPT !.flags = @ \union {"UPGRADE"}]
             counts == [p EXCEPT !.flags = @ \union {"CONTENTLENGTH"},
                                 !.content_length = Value(byte)]
  <1>1. /\ ParserFields(p) /\ p.errno = "OK" /\ p.state = "s_header_value"
        /\ p.header_state = ValueState(s, LOWER(byte))
        /\ p.content_length = parser.content_length
    BY ToIs DEF ParserFields, Fields
  <1>2. "s_header_value" \in MarkedStates /\ "s_header_value" \notin
            ChunkStates \union SizeStates \union DataStates
    BY DEF MarkedStates, ChunkStates, SizeStates, DataStates
  <1>3. parser.content_length \in Lengths
    BY ParsingGoesOn DEF LengthInv
  <1> HIDE DEF p
  <1>4. ASSUME NEW q, ParserFields(q), q.errno = "OK", q.state = "s_header_value",
               q.header_state = ValueState(s, LOWER(byte)), q.content_length \in Lengths,
               s = "h_content_length" => q.content_length >= 0,
               Mark("header_value", q)
        PROVE  IInv'
    <2>1. ParserInv(q)
      BY <1>2, <1>4, ValueStateIs DEF ParserInv, LengthInv, StateInv
    <2> QED BY <1>2, <1>4, <2>1, MarkKeeps
  <1>5. CASE s = "h_upgrade" /\ Mark("header_value", upgrades)
    <2>1. /\ ParserFields(upgrades) /\ upgrades.errno = "OK"
          /\ upgrades.state = "s_header_value"
          /\ upgrades.header_state = p.header_state
          /\ upgrades.content_length = p.content_length
      BY <1>1 DEF ParserFields, Fields
    <2> QED BY <1>1, <1>3, <1>4, <1>5, <2>1
  <1>6. CASE byte \in Num /\ Mark("header_value", counts)
    <2>1. /\ ParserFields(counts) /\ counts.errno = "OK"
          /\ counts.state = "s_header_value"
          /\ counts.header_state = p.header_state
          /\ counts.content_length = Value(byte)
      BY <1>1 DEF ParserFields, Fields
    <2>2. Value(byte) \in Lengths /\ Value(byte) >= 0
      BY <1>6, TablesAssumption, WidthAssumption DEF Value, Lengths
    <2> QED BY <1>1, <1>4, <1>6, <2>1, <2>2
  <1>7. CASE s \notin {"h_upgrade", "h_content_length"} /\ Mark("header_value", p)
    BY <1>1, <1>3, <1>4, <1>7
  <1>8. CASE Fail("INVALID_CONTENT_LENGTH") \/ Fail("UNEXPECTED_CONTENT_LENGTH")
    BY <1>8, FailKeeps
  <1> QED BY <1>5, <1>6, <1>7, <1>8 DEF ValueStart, p

LEMMA HeaderValueStartKeeps == ASSUME Parsing, HeaderValueStart PROVE IInv'
  <1>1. parser.state \in {"s_header_value_start", "s_header_value_discard_ws"}
    BY DEF HeaderValueStart, In
  <1>2. parser.state \notin MarkedStates /\ parser.state # "s_chunk_size_start"
    BY <1>1 DEF MarkedStates, UrlPrefixStates, UrlRestStates
  <1>3. CASE ValueStart BY <1>3, ValueStartKeeps
  <1>4. CASE Advance(Now) BY <1>2, <1>4, NowGoesOn, AdvanceKeeps
  <1>5. ASSUME NEW s \in {"s_header_value_discard_ws_almost_done",
                          "s_header_value_discard_lws"}, Advance(To(s))
        PROVE  IInv'
    <2>1. PlainStates(s) BY DEF PlainStates, ChunkStates, SizeStates, DataStates
    <2> QED BY <1>2, <1>5, <2>1, LineKeeps
  <1> QED BY <1>3, <1>4, <1>5 DEF HeaderValueStart

LEMMA HeaderValueKeeps == ASSUME Parsing, HeaderValue PROVE IInv'
  <1>1. parser.state = "s_header_value" BY DEF HeaderValue, In
  <1>2. PlainStates("s_header_almost_done") /\ "s_header_value" \in MarkedStates
    BY DEF PlainStates, ChunkStates, SizeStates, DataStates, MarkedStates
  <1>3. CASE CallbackData(To("s_header_almost_done"))
    BY <1>2, <1>3, ToPlain, CallbackKeeps
  <1>4. CASE CallbackReexecute(mark, To("s_header_almost_done"))
    BY <1>2, <1>4, ToPlain, CallbackReexecuteKeeps
  <1>5. CASE Fail("INVALID_CONTENT_LENGTH") BY <1>5, FailKeeps
  <1>6. CASE ~BadLength /\ Advance(ValueLetter(Now, byte))
    <2> DEFINE c == byte
               q == ValueLetter(Now, c)
    <2>1. /\ parser.content_length \in Lengths
          /\ parser.header_state \in ValueStates
          /\ parser.header_state = "h_content_length_num" => parser.content_length \in Nat
      BY <1>1, ParsingGoesOn DEF LengthInv, StateInv, Lengths, NoLength
    <2>2. /\ ParserFields(q) /\ q.state = parser.state /\ q.errno = "OK"
          /\ q.header_state \in ValueStates
          /\ \/ /\ q.content_length = parser.content_length
                /\ q.header_state = "h_content_length_num" =>
                      parser.header_state = "h_content_length_num"
             \/ /\ parser.header_state = "h_content_length_num" /\ c \in Num
                /\ q.content_length = parser.content_length * 10 + Value(c)
      BY <2>1, NowIs, ValueLetterKeeps
    <2>3. ASSUME parser.header_state = "h_content_length_num", c \in Num
          PROVE  parser.content_length * 10 + Value(c) \in 0 .. (ULLONG_MAX - 1)
      <3>1. ~LengthOverflows(parser.content_length, 10)
        BY <1>6, <2>3 DEF BadLength
      <3>2. Value(c) \in 0 .. 9
        BY <2>3, TablesAssumption DEF Value
      <3> HIDE DEF c
      <3> QED BY <2>1, <2>3, <3>1, <3>2, LengthGrows
    <2>4. /\ q.content_length \in Lengths
          /\ q.header_state = "h_content_length_num" => q.content_length >= 0
      BY <2>1, <2>2, <2>3 DEF Lengths, NoLength
    <2>5. GoesOn(q)
      BY <1>1, <1>2, <2>2, <2>4 DEF GoesOn, ParserInv, LengthInv, StateInv,
         ChunkStates, SizeStates, DataStates
    <2> QED BY <1>6, <2>5, AdvanceKeeps
  <1> QED BY <1>3, <1>4, <1>5, <1>6 DEF HeaderValue

LEMMA HeaderEndKeeps == ASSUME Parsing, HeaderEnd \/ EmptyValue PROVE IInv'
  <1>1. parser.state \in {"s_header_almost_done", "s_header_value_lws",
                          "s_header_value_discard_ws_almost_done",
                          "s_header_value_discard_lws"}
    BY DEF HeaderEnd, EmptyValue, In
  <1>2. parser.state \notin MarkedStates
    BY <1>1 DEF MarkedStates, UrlPrefixStates, UrlRestStates
  <1>3. \A s \in {"s_header_value_lws", "s_header_value_discard_lws",
                  "s_header_value_discard_ws", "s_header_value_start"} : PlainStates(s)
    BY DEF PlainStates, ChunkStates, SizeStates, DataStates
  <1> DEFINE over == [WithFlags(Now) EXCEPT !.state = "s_header_field_start"]
  <1>4. GoesOn(over) /\ over.state = "s_header_field_start"
    <2>1. /\ ParserFields(over) /\ over.errno = "OK"
          /\ over.state = "s_header_field_start"
          /\ over.content_length = parser.content_length
      BY NowIs, WithFlagsKeeps
    <2> HIDE DEF over
    <2> QED BY <1>2, <2>1, NoMark, ParsingGoesOn DEF GoesOn, ParserInv, LengthInv,
          StateInv, ChunkStates, SizeStates, DataStates
  <1> HIDE DEF over
  <1>5. CASE Advance(To("s_header_value_lws"))
    BY <1>2, <1>3, <1>5, LineKeeps
  <1>6. CASE Fail("LF_EXPECTED") BY <1>6, FailKeeps
  <1>7. CASE Reexecute(To("s_header_value_start"))
    BY <1>2, <1>3, <1>7, ToPlainGoesOn, ToIs, ReexecuteKeeps
  <1>8. CASE Reexecute(over) BY <1>4, <1>8, ReexecuteKeeps
  <1>9. CASE Advance(To("s_header_value_discard_lws"))
    BY <1>2, <1>3, <1>9, LineKeeps
  <1>10. CASE Advance(To("s_header_value_discard_ws"))
    BY <1>2, <1>3, <1>10, LineKeeps
  <1>11. CASE CallbackReexecute("header_value", over)
    BY <1>4, <1>11, CallbackReexecuteKeeps DEF GoesOn
  <1> QED BY <1>5, <1>6, <1>7, <1>8, <1>9, <1>10, <1>11 DEF HeaderEnd, EmptyValue, over

LEMMA HeadersAlmostDoneKeeps == ASSUME Parsing, HeadersAlmostDone PROVE IInv'
  <1>1. parser.state = "s_headers_almost_done" BY DEF HeadersAlmostDone, In
  <1>2. parser.state \notin MarkedStates
    BY <1>1 DEF MarkedStates, UrlPrefixStates, UrlRestStates
  <1>3. CASE Reexecute(To("s_message_done"))
    <2>1. PlainStates("s_message_done")
      BY DEF PlainStates, ChunkStates, SizeStates, DataStates
    <2> QED BY <1>2, <1>3, <2>1, ToPlainGoesOn, ToIs, ReexecuteKeeps
  <1>4. CASE Fail("UNEXPECTED_CONTENT_LENGTH") BY <1>4, FailKeeps
  <1>5. ASSUME NEW upgrade, Reexecute([To("s_headers_done") EXCEPT !.upgrade = upgrade])
        PROVE  IInv'
    <2> DEFINE p == [To("s_headers_done") EXCEPT !.upgrade = upgrade]
    <2>1. /\ ParserFields(p) /\ p.errno = "OK" /\ p.state = "s_headers_done"
          /\ p.content_length = parser.content_length
      BY ToIs DEF ParserFields, Fields
    <2>2. GoesOn(p)
      BY <1>2, <2>1, NoMark, ParsingGoesOn DEF GoesOn, ParserInv, LengthInv, StateInv,
         ChunkStates, SizeStates, DataStates
    <2> QED BY <1>5, <2>1, <2>2, ReexecuteKeeps
  <1> QED BY <1>3, <1>4, <1>5 DEF HeadersAlmostDone

\* The count starts anew before a body, and a body that is read has a length.
LEMMA HeadersDoneKeeps == ASSUME Parsing, HeadersDone PROVE IInv'
  <1>1. parser.state = "s_headers_done" BY DEF HeadersDone, In
  <1>2. mark = "none"
    BY <1>1, NoMark DEF MarkedStates, UrlPrefixStates, UrlRestStates
  <1> DEFINE p == HeadersOver
  <1>3. /\ ParserFields(p) /\ p.errno = "OK" /\ p.state = "s_headers_done"
        /\ p.flags = parser.flags /\ p.nread = 0
        /\ p.content_length = parser.content_length
    BY <1>1, NowIs DEF HeadersOver, ParserFields, Fields
  <1>4. parser.content_length \in Lengths BY ParsingGoesOn DEF LengthInv
  <1> HIDE DEF p
  <1>5. CASE UpgradeReturns(p) \/ MessageComplete(p)
    <2>1. ParserInv(p)
      BY <1>3, <1>4 DEF ParserInv, LengthInv, StateInv, ChunkStates, SizeStates, DataStates
    <2> QED BY <1>3, <1>5, <2>1, MessageCompleteKeeps
  <1>6. ASSUME NEW s \in {"s_chunk_size_start", "s_body_identity"},
               s = "s_chunk_size_start" => "CHUNKED" \in parser.flags,
               s = "s_body_identity" => parser.content_length \notin {0, NoLength},
               Advance([p EXCEPT !.state = s])
        PROVE  IInv'
    <2> DEFINE q == [p EXCEPT !.state = s]
    <2>1. /\ ParserFields(q) /\ q.errno = "OK" /\ q.state = s
          /\ q.flags = parser.flags /\ q.nread = 0
          /\ q.content_length = parser.content_length
      BY <1>3 DEF ParserFields, Fields
    <2>2. s = "s_body_identity" => parser.content_length >= 1
      BY <1>4, <1>6 DEF Lengths, NoLength
    <2> HIDE DEF q
    <2>3. GoesOn(q)
      BY <1>2, <1>4, <1>6, <2>1, <2>2 DEF GoesOn, ParserInv, LengthInv, StateInv,
         ChunkStates, SizeStates, DataStates
    <2> QED BY <1>6, <2>3, AdvanceKeeps DEF q
  <1> QED BY <1>5, <1>6 DEF HeadersDone, p
-----------------------------------------------------------------------------
(* Bodies *)

LEMMA BodyKeeps == ASSUME Parsing, BodyIdentity \/ MessageDone PROVE IInv'
  <1>1. CASE BodyIdentity
    <2> DEFINE p == [Now EXCEPT !.content_length = @ - 1]
               q == [p EXCEPT !.state = "s_message_done"]
    <2>1. parser.state = "s_body_identity" BY <1>1 DEF BodyIdentity, In
    <2>2. /\ parser.content_length \in Lengths /\ parser.content_length >= 1
      BY <2>1, ParsingGoesOn DEF LengthInv, DataStates
    <2>3. parser.content_length - 1 \in Lengths
      BY <2>2, WidthAssumption DEF Lengths, NoLength
    <2>4. /\ ParserFields(p) /\ p.errno = "OK" /\ p.state = "s_body_identity"
          /\ p.content_length = parser.content_length - 1
      BY <2>1, NowIs DEF ParserFields, Fields
    <2>5. /\ ParserFields(q) /\ q.errno = "OK" /\ q.state = "s_message_done"
          /\ q.content_length = parser.content_length - 1
      BY <2>4 DEF ParserFields, Fields
    <2>6. \/ /\ p.content_length > 0 /\ parser' = p
             /\ again' = FALSE /\ pc' = "looping"
          \/ parser' = q /\ again' = TRUE /\ pc' = pc /\ mark' = "none"
      BY <1>1 DEF BodyIdentity, Consume, Unmarked
    <2> HIDE DEF p, q
    <2>7. CASE /\ p.content_length > 0 /\ parser' = p
               /\ again' = FALSE /\ pc' = "looping"
      <3>1. p.content_length >= 1 BY <2>2, <2>4, <2>7 DEF Lengths, NoLength
      <3>2. ParserInv(p)
        BY <2>3, <2>4, <3>1 DEF ParserInv, LengthInv, StateInv, ChunkStates,
           SizeStates, DataStates
      <3> QED BY <2>4, <2>7, <3>2 DEF Parsing, IInv, ThreadInv, MarkInv, In, MarkedStates
    <2>8. CASE parser' = q /\ again' = TRUE /\ pc' = pc /\ mark' = "none"
      <3>1. ParserInv(q)
        BY <2>3, <2>5 DEF ParserInv, LengthInv, StateInv, ChunkStates,
           SizeStates, DataStates
      <3> QED BY <2>5, <2>8, <3>1 DEF Parsing, IInv, ThreadInv, MarkInv
    <2> QED BY <2>6, <2>7, <2>8
  <1>2. CASE MessageDone
    <2>1. parser.state = "s_message_done" BY <1>2 DEF MessageDone, In
    <2>2. GoesOn(Now) BY <2>1, NowGoesOn
    <2> QED BY <1>2, <2>2, MessageCompleteKeeps DEF MessageDone, GoesOn
  <1> QED BY <1>1, <1>2

LEMMA Unhex ==
  ASSUME NEW c, unhex(c) # -1
  PROVE  unhex(c) \in 0 .. 15
  BY TablesAssumption DEF unhex

\* On with a chunk: the next state keeps what is known of it.
LEMMA ChunkGoesOn ==
  ASSUME Parsing, "CHUNKED" \in parser.flags, parser.state \notin MarkedStates,
         NEW q, ParserFields(q), q.errno = "OK", q.flags = parser.flags,
         q.state \in SizeStates, q.content_length \in Lengths, q.content_length >= 0,
         Advance(q)
  PROVE  IInv'
  <1>1. GoesOn(q)
    BY NoMark DEF GoesOn, ParserInv, LengthInv, StateInv, SizeStates, DataStates
  <1> QED BY <1>1, AdvanceKeeps

LEMMA ChunkSizeKeeps == ASSUME Parsing, ChunkSize PROVE IInv'
  <1> DEFINE v == unhex(byte)
  <1>1. parser.state \in {"s_chunk_size_start", "s_chunk_size", "s_chunk_parameters"}
    BY DEF ChunkSize, In
  <1>2. "CHUNKED" \in parser.flags /\ parser.state \notin MarkedStates
    BY <1>1, ParsingGoesOn DEF StateInv, ChunkStates, SizeStates, MarkedStates,
       UrlPrefixStates, UrlRestStates
  <1>3. CASE Fail("INVALID_CHUNK_SIZE") \/ Fail("INVALID_CONTENT_LENGTH")
    BY <1>3, FailKeeps
  <1>4. CASE v # -1 /\ Advance([To("s_chunk_size") EXCEPT !.content_length = v])
    <2> DEFINE q == [To("s_chunk_size") EXCEPT !.content_length = v]
    <2>1. /\ ParserFields(q) /\ q.errno = "OK" /\ q.flags = parser.flags
          /\ q.state = "s_chunk_size" /\ q.content_length = v
      BY ToIs DEF ParserFields, Fields
    <2>2. v \in Lengths /\ v >= 0
      BY <1>4, Unhex, WidthAssumption DEF Lengths
    <2> HIDE DEF v
    <2> QED BY <1>2, <1>4, <2>1, <2>2, ChunkGoesOn DEF SizeStates
  <1>5. ASSUME parser.state \in SizeStates PROVE
          parser.content_length \in Lengths /\ parser.content_length >= 0
    BY <1>5, ParsingGoesOn DEF LengthInv
  <1>6. ASSUME parser.state \in SizeStates, NEW s \in SizeStates, Advance(To(s)) PROVE IInv'
    BY <1>2, <1>5, <1>6, ToIs, ChunkGoesOn
  <1>7. CASE parser.state \in SizeStates /\ Advance(Now)
    BY <1>2, <1>5, <1>7, NowIs, ChunkGoesOn
  <1>8. CASE /\ parser.state = "s_chunk_size"
             /\ v # -1 /\ ~LengthOverflows(parser.content_length, 16)
             /\ Advance([Now EXCEPT !.content_length = @ * 16 + v])
    <2> DEFINE q == [Now EXCEPT !.content_length = @ * 16 + v]
    <2>1. /\ ParserFields(q) /\ q.errno = "OK" /\ q.flags = parser.flags
          /\ q.state = "s_chunk_size"
          /\ q.content_length = parser.content_length * 16 + v
      BY <1>8, NowIs DEF ParserFields, Fields
    <2>2. v \in 0 .. 15 BY <1>8, Unhex
    <2>3. parser.content_length \in Nat BY <1>5, <1>8 DEF SizeStates, Lengths, NoLength
    <2>4. parser.content_length * 16 + v \in 0 .. (ULLONG_MAX - 1)
      <3> HIDE DEF v
      <3> QED BY <1>8, <2>2, <2>3, LengthGrows
    <2>5. q.content_length \in Lengths /\ q.content_length >= 0
      BY <2>1, <2>4, WidthAssumption DEF Lengths
    <2> HIDE DEF v
    <2> QED BY <1>2, <1>8, <2>1, <2>5, ChunkGoesOn DEF SizeStates
  <1> QED BY <1>3, <1>4, <1>6, <1>7, <1>8 DEF ChunkSize, SizeStates, In

LEMMA ChunkDataKeeps ==
  ASSUME Parsing, ChunkSizeAlmostDone \/ ChunkData \/ ChunkDone PROVE IInv'
  <1>1. CASE ChunkSizeAlmostDone
    <2>1. parser.state = "s_chunk_size_almost_done" BY <1>1 DEF ChunkSizeAlmostDone, In
    <2>2. /\ "CHUNKED" \in parser.flags
          /\ parser.content_length \in Lengths /\ parser.content_length >= 0
      BY <2>1, ParsingGoesOn DEF LengthInv, StateInv, ChunkStates, SizeStates
    <2>3. mark = "none"
      BY <2>1, NoMark DEF MarkedStates, UrlPrefixStates, UrlRestStates
    <2> DEFINE last == [To("s_header_field_start") EXCEPT
                          !.nread = 0, !.flags = @ \union {"TRAILING"}]
               data == [To("s_chunk_data") EXCEPT !.nread = 0]
    <2>4. CASE Advance(last)
      <3>1. /\ ParserFields(last) /\ last.errno = "OK"
            /\ last.state = "s_header_field_start"
            /\ last.content_length = parser.content_length
        <4> DEFINE r == To("s_header_field_start")
        <4>1. /\ ParserFields(r) /\ r.errno = "OK" /\ r.state = "s_header_field_start"
              /\ r.content_length = parser.content_length
          BY ToIs
        <4>2. last = [r EXCEPT !.nread = 0, !.flags = @ \union {"TRAILING"}]
          OBVIOUS
        <4> HIDE DEF last, r
        <4> QED BY <4>1, <4>2 DEF ParserFields, Fields
      <3> HIDE DEF last
      <3>2. GoesOn(last)
        BY <2>2, <2>3, <3>1 DEF GoesOn, ParserInv, LengthInv, StateInv, ChunkStates,
           SizeStates, DataStates
      <3> QED BY <2>4, <3>2, AdvanceKeeps
    <2>5. CASE parser.content_length # 0 /\ Advance(data)
      <3>1. /\ ParserFields(data) /\ data.errno = "OK" /\ data.state = "s_chunk_data"
            /\ data.flags = parser.flags /\ data.content_length = parser.content_length
        BY ToIs DEF ParserFields, Fields
      <3>2. data.content_length >= 1
        BY <2>2, <2>5, <3>1 DEF Lengths, NoLength
      <3> HIDE DEF data
      <3>3. GoesOn(data)
        BY <2>2, <2>3, <3>1, <3>2 DEF GoesOn, ParserInv, LengthInv, StateInv, SizeStates
      <3> QED BY <2>5, <3>3, AdvanceKeeps
    <2> QED BY <1>1, <2>4, <2>5 DEF ChunkSizeAlmostDone
  <1>2. CASE ChunkData
    <2> DEFINE length == parser.content_length - 1
    <2>1. parser.state = "s_chunk_data" BY <1>2 DEF ChunkData, In
    <2>2. /\ "CHUNKED" \in parser.flags
          /\ parser.content_length \in Lengths /\ parser.content_length >= 1
      BY <2>1, ParsingGoesOn DEF LengthInv, StateInv, ChunkStates, DataStates
    <2>3. length \in Lengths /\ (length # 0 => length >= 1)
      BY <2>2, WidthAssumption DEF Lengths, NoLength
    <2>4. /\ ParserFields(parser') /\ parser'.errno = "OK"
          /\ parser'.flags = parser.flags /\ parser'.content_length = length
          /\ parser'.state = IF length = 0 THEN "s_chunk_data_almost_done"
                                           ELSE "s_chunk_data"
      BY <1>2, <2>1, NowIs DEF ChunkData, ParserFields, Fields
    <2>5. again' = FALSE /\ pc' = "looping" BY <1>2 DEF ChunkData, Consume
    <2> HIDE DEF length
    <2>6. ParserInv(parser')
      BY <2>2, <2>3, <2>4 DEF ParserInv, LengthInv, StateInv, SizeStates, DataStates
    <2> QED BY <2>4, <2>5, <2>6 DEF Parsing, IInv, ThreadInv, MarkInv, In, MarkedStates
  <1>3. CASE In({"s_chunk_data_almost_done"}) /\ CallbackData(To("s_chunk_data_done"))
    <2>1. "CHUNKED" \in parser.flags /\ parser.content_length \in Lengths
      BY <1>3, ParsingGoesOn DEF In, LengthInv, StateInv, ChunkStates
    <2>2. ParserInv(To("s_chunk_data_done"))
      BY <2>1, ToIs DEF ParserInv, LengthInv, StateInv, SizeStates, DataStates
    <2> QED BY <1>3, <2>2, ToIs, CallbackKeeps
  <1>4. CASE /\ In({"s_chunk_data_done"})
             /\ Advance([To("s_chunk_size_start") EXCEPT !.nread = 0])
    <2> DEFINE q == [To("s_chunk_size_start") EXCEPT !.nread = 0]
    <2>1. "CHUNKED" \in parser.flags /\ parser.content_length \in Lengths
      BY <1>4, ParsingGoesOn DEF In, LengthInv, StateInv, ChunkStates
    <2>2. mark = "none"
      BY <1>4, NoMark DEF In, MarkedStates, UrlPrefixStates, UrlRestStates
    <2>3. /\ ParserFields(q) /\ q.errno = "OK" /\ q.state = "s_chunk_size_start"
          /\ q.flags = parser.flags /\ q.nread = 0
          /\ q.content_length = parser.content_length
      BY ToIs DEF ParserFields, Fields
    <2> HIDE DEF q
    <2>4. GoesOn(q)
      BY <2>1, <2>2, <2>3 DEF GoesOn, ParserInv, LengthInv, StateInv, SizeStates, DataStates
    <2> QED BY <1>4, <2>4, AdvanceKeeps DEF q
  <1> QED BY <1>1, <1>2, <1>3, <1>4 DEF ChunkDone
-----------------------------------------------------------------------------
(* The inductive invariant *)

LEMMA Start == ParserInv(http_parser_init) /\ http_parser_init.errno = "OK"
  BY WidthAssumption DEF http_parser_init, ParserInv, ParserFields, Fields, LengthInv,
     StateInv, Lengths, NoLength, ChunkStates, SizeStates, DataStates

\* In MarkAtEntry as in MarkedStates.
LEMMA EntryMark ==
  ASSUME NEW s, MarkAtEntry(s) # "none"
  PROVE  s \in MarkedStates
  BY DEF MarkAtEntry, MarkedStates

LEMMA RecvKeeps == ASSUME IInv, Recv PROVE IInv'
  <1>1. connected /\ connected' = connected /\ parser.errno = "OK"
    BY DEF IInv, ThreadInv, Recv
  <1>2. ParserInv(parser') /\ parser'.errno = "OK"
    BY <1>1, Start DEF IInv, Recv, http_request_init
  <1>3. ThreadInv'
    <2>1. connected' = connected /\ connected /\ pc' = "entered" /\ again' = FALSE
      BY DEF Recv
    <2> QED BY <1>2, <2>1 DEF ThreadInv
  <1>4. MarkInv' BY EntryMark DEF MarkInv, Recv, In
  <1> QED BY <1>2, <1>3, <1>4 DEF IInv

LEMMA NextByteKeeps == ASSUME IInv, NextByte, connected' = connected PROVE IInv'
  <1>1. pc \in {"entered", "looping"}
    BY DEF NextByte, In, StartReq, ReqMethod, SpacesBeforeUrl, Url, HttpStart, Version,
       LineEnd, HeaderFieldStart, HeaderField, HeaderValueStart, HeaderValue, HeaderEnd,
       EmptyValue, HeadersAlmostDone, HeadersDone, BodyIdentity, MessageDone, ChunkSize,
       ChunkSizeAlmostDone, ChunkData, ChunkDone
  <1>2. Parsing BY <1>1 DEF Parsing, IInv, ThreadInv
  <1> QED
    BY <1>2, StartReqKeeps, ReqMethodKeeps, SpacesBeforeUrlKeeps, UrlKeeps, VersionKeeps,
       HeaderFieldKeeps, HeaderValueStartKeeps, HeaderValueKeeps, HeaderEndKeeps,
       HeadersAlmostDoneKeeps, HeadersDoneKeeps, BodyKeeps, ChunkSizeKeeps, ChunkDataKeeps
       DEF NextByte

\* The steps between two bytes, and those of the client, leave the parser alone.
LEMMA OthersKeep ==
  ASSUME IInv, \/ ClientSends \/ HasError \/ Incomplete
               \/ Complete /\ pc' = "idle"
               \/ EndOfData /\ connected' = connected
               \/ UNCHANGED vars
  PROVE  IInv'
  <1>1. CASE ClientSends \/ UNCHANGED vars
    BY <1>1 DEF ClientSends, vars, execVars, IInv, ThreadInv, MarkInv, In
  <1>2. CASE HasError \/ Incomplete \/ (Complete /\ pc' = "idle")
    <2>1. pc = "returned" /\ pc' = "idle" /\ parser' = parser /\ mark' = mark
          /\ again' = again
      BY <1>2 DEF HasError, Complete, Incomplete
    <2>2. \/ connected' = FALSE
          \/ connected' = connected /\ parser.errno = "OK"
      BY <1>2 DEF HasError, Complete, Incomplete
    <2> QED BY <2>1, <2>2 DEF IInv, ThreadInv, MarkInv, In
  <1>3. CASE EndOfData /\ connected' = connected
    BY <1>3 DEF EndOfData, Unmarked, IInv, ThreadInv, MarkInv, In
  <1> QED BY <1>1, <1>2, <1>3

\* A process that an assertion or a write past its allocation has ended.
Running == pc # "aborted" => IInv

LEMMA AbortedStays == ASSUME pc = "aborted", [Next]_vars PROVE UNCHANGED vars
  <1>1. \A states : ~In(states)
    BY DEF In
  <1>2. ~NextByte
    BY <1>1 DEF NextByte, StartReq, ReqMethod, SpacesBeforeUrl, Url, HttpStart, Version,
       LineEnd, HeaderFieldStart, HeaderField, HeaderValueStart, HeaderValue, HeaderEnd,
       EmptyValue, HeadersAlmostDone, HeadersDone, BodyIdentity, MessageDone, ChunkSize,
       ChunkSizeAlmostDone, ChunkData, ChunkDone
  <1> QED
    BY <1>2 DEF Next, ServerStep, ClientSends, Recv, Parse, EndOfData, HasError, Complete,
       Incomplete

LEMMA StepKeeps ==
  ASSUME IInv, [Next]_vars, Complete => pc' = "idle"
  PROVE  IInv'
  <1>1. CASE Recv BY <1>1, RecvKeeps
  <1>2. CASE Parse BY <1>2, NextByteKeeps, OthersKeep DEF Parse
  <1> QED BY <1>1, <1>2, OthersKeep DEF Next, ServerStep

LEMMA Invariance == Spec => []Running
  <1>1. Init => Running
    BY Start DEF Init, Running, IInv, ThreadInv, MarkInv
  <1>2. Running /\ [Next]_vars => Running'
    <2> SUFFICES ASSUME Running, [Next]_vars, pc' # "aborted" PROVE IInv'
      BY DEF Running
    <2>1. IInv
      BY AbortedStays DEF Running, vars, execVars
    <2>2. Complete => pc' = "idle"
      BY DEF Complete, Answer
    <2> QED BY <2>1, <2>2, StepKeeps
  <1> QED BY <1>1, <1>2, PTL DEF Spec

(* The assertions of http_parser.c hold, whatever the bytes: a chunk's     *)
(* count starts anew, chunks are read under chunked encoding only, a body  *)
(* that is read has bytes left and a chunk that is over has none, a value  *)
(* is never read with the header state of a name, and nothing is marked    *)
(* where a mark is set.                                                    *)
THEOREM AssertionsCorrect == Spec => []ParserAssertionsHold
  <1>1. Running => ParserAssertionsHold
    <2> SUFFICES ASSUME IInv, In({parser.state}) PROVE ParserAssertionsHold
      BY DEF ParserAssertionsHold, Running, In
    <2> DEFINE s == parser.state
    <2>1. LengthInv(parser) /\ StateInv(parser)
      BY DEF In, IInv, ThreadInv, ParserInv
    <2>2. s = "s_chunk_size_start" => Counted = 1
      BY <2>1 DEF StateInv, Counted, IInv, ThreadInv, BodyStates
    <2>3. s \in ChunkStates => "CHUNKED" \in parser.flags
      BY <2>1 DEF StateInv
    <2>4. s \in DataStates => parser.content_length \notin {0, NoLength, ULLONG_MAX}
      BY <2>1, WidthAssumption DEF LengthInv, Lengths, NoLength
    <2>5. s = "s_chunk_data_almost_done" => parser.content_length = 0
      BY <2>1 DEF LengthInv
    <2>6. s = "s_header_value" =>
            parser.header_state \notin {"h_connection", "h_transfer_encoding"}
      BY <2>1 DEF StateInv, ValueStates
    <2>7. s \in {"s_req_spaces_before_url", "s_header_field_start",
                "s_header_value_start", "s_header_value_discard_ws",
                "s_chunk_size_start", "s_start_req"} => mark = "none"
      BY DEF IInv, MarkInv, In, MarkedStates, UrlPrefixStates, UrlRestStates
    <2> QED
      BY <2>2, <2>3, <2>4, <2>5, <2>6, <2>7
         DEF ParserAssertionsHold, ChunkStates, SizeStates, DataStates
  <1> QED BY <1>1, Invariance, PTL

(* A connection whose bytes the parser has refused is closed before the    *)
(* parser is given another one, and as long as the parser goes on, the     *)
(* length that is left is below ULLONG_MAX, the value that stands for no   *)
(* length (the overflow checks of http_parser.c:1535 and 1945).            *)
THEOREM LengthCorrect ==
  Spec => [](In({parser.state}) =>
              /\ parser.errno = "OK"
              /\ parser.content_length \in {NoLength} \union 0 .. (ULLONG_MAX - 1))
  <1>1. Running => (In({parser.state}) =>
              /\ parser.errno = "OK"
              /\ parser.content_length \in {NoLength} \union 0 .. (ULLONG_MAX - 1))
    BY DEF Running, IInv, ThreadInv, In, ParserInv, LengthInv, Lengths
  <1> QED BY <1>1, Invariance, PTL

-----------------------------------------------------------------------------
(***************************************************************************)
(* What a response needs.  The allocation a piece is written into holds    *)
(* the initial size and the piece, and at least twice the initial size: a  *)
(* piece fits if no more than the initial size was written before it, or   *)
(* if the end is within twice that.                                        *)
(***************************************************************************)

LEMMA AllocatedHolds ==
  ASSUME NEW n \in Nat, 0 < n, n <= LargestPiece
  PROVE  Allocated(n) \in Int /\ Allocated(n) >= InitialSize + n /\ Allocated(n) >= 2048
  <1> DEFINE Holds(size) == size \div 2 < InitialSize + n /\ InitialSize + n <= size
  <1>1. \E size \in Doublings : Holds(size)
    BY DEF Doublings, InitialSize, LargestPiece
  <1>2. Allocated(n) = CHOOSE size \in Doublings : Holds(size)
    BY DEF Allocated
  <1>3. Allocated(n) \in Doublings /\ Holds(Allocated(n))
    <2> HIDE DEF Holds
    <2> QED BY <1>1, <1>2
  <1> QED BY <1>3 DEF Doublings, InitialSize

\* A response of n bytes, all of them inside their allocations.
Inside(r, n) == r.data_length = n /\ r.overrun = 0

LEMMA Fits ==
  ASSUME NEW r, NEW n \in Nat, Inside(r, n), NEW k \in Nat, k <= LargestPiece,
         n <= InitialSize \/ n + k <= 2048
  PROVE  Inside(http_response_add_data(r, k), n + k)
  <1>1. k > 0 => Allocated(k) \in Int /\ n + k <= Allocated(k)
    BY AllocatedHolds DEF InitialSize, LargestPiece
  <1> QED BY <1>1 DEF http_response_add_data, Inside

\* The headers of a response are short.
LEMMA HeaderFits ==
  ASSUME NEW r, NEW n \in Nat, Inside(r, n), NEW name \in Nat, NEW value \in Nat,
         name <= 100, value <= 900, n + name + value + 4 <= 2048
  PROVE  Inside(http_response_add_header(r, name, value), n + name + value + 4)
  <1> DEFINE r1 == http_response_add_data(r, name)
             r2 == http_response_add_data(r1, 2)
             r3 == http_response_add_data(r2, value)
             r4 == http_response_add_data(r3, 2)
  <1>1. /\ name <= LargestPiece /\ value <= LargestPiece /\ 2 <= LargestPiece
        /\ n + name \in Nat /\ n + name + 2 \in Nat /\ n + name + 2 + value \in Nat
        /\ n + name + 2 + value + 2 = n + name + value + 4
    BY DEF LargestPiece, InitialSize
  <1>0. r4 = http_response_add_header(r, name, value)
    BY DEF http_response_add_header
  <1>2. Inside(r1, n + name)
    BY <1>1, Fits
  <1> HIDE DEF r1
  <1>3. Inside(r2, n + name + 2)
    BY <1>1, <1>2, Fits
  <1> HIDE DEF r2
  <1>4. Inside(r3, n + name + 2 + value)
    BY <1>1, <1>3, Fits
  <1> HIDE DEF r3
  <1>5. Inside(r4, n + name + 2 + value + 2)
    BY <1>1, <1>4, Fits
  <1> QED BY <1>0, <1>1, <1>5

LEMMA StatusFits == Inside(StatusLine, 17)
  <1> DEFINE r0 == [data_length |-> 0, overrun |-> 0, refused |-> FALSE]
             r1 == http_response_add_data(r0, 8)
             r2 == http_response_add_data(r1, 1)
             r3 == http_response_add_data(r2, 3)
             r4 == http_response_add_data(r3, 1)
             r5 == http_response_add_data(r4, 2)
             r6 == http_response_add_data(r5, 2)
  <1>0. r6 = StatusLine
    BY DEF StatusLine, http_response_init
  <1>1. \A k \in {1, 2, 3, 8} : k <= LargestPiece
    BY DEF LargestPiece, InitialSize
  <1>2. Inside(r0, 0)  BY DEF Inside
  <1> HIDE DEF r0
  <1>3. Inside(r1, 8)  BY <1>1, <1>2, Fits
  <1> HIDE DEF r1
  <1>4. Inside(r2, 9)  BY <1>1, <1>3, Fits
  <1> HIDE DEF r2
  <1>5. Inside(r3, 12)  BY <1>1, <1>4, Fits
  <1> HIDE DEF r3
  <1>6. Inside(r4, 13)  BY <1>1, <1>5, Fits
  <1> HIDE DEF r4
  <1>7. Inside(r5, 15)  BY <1>1, <1>6, Fits
  <1> HIDE DEF r5
  <1>8. Inside(r6, 17)  BY <1>1, <1>7, Fits
  <1> QED BY <1>0, <1>8

\* A handler adds no more than 96 bytes of headers.
LEMMA HandlerFits ==
  ASSUME NEW begun, NEW n \in Nat, Inside(begun, n), n <= 1000, NEW r \in HandledBy(begun)
  PROVE  \E k \in 0 .. 96 : Inside(r, n + k)
  <1> DEFINE Typed(value) == http_response_add_header(begun, 12, value)
             Public == http_response_add_header(begun, 6, 76)
             Close  == http_response_add_header(begun, 10, 5)
             Latency == http_response_add_header(begun, 13, 5)
  <1>1. Inside(Typed(15), n + 31) /\ Inside(Typed(24), n + 40) /\ Inside(Typed(32), n + 48)
    BY HeaderFits
  <1>2. Inside(Public, n + 86) /\ Inside(Close, n + 19) /\ Inside(Latency, n + 22)
    BY HeaderFits
  <1>3. /\ n + 48 \in Nat /\ n + 48 + 12 + 32 + 4 = n + 96
        /\ n + 22 \in Nat /\ n + 22 + 17 + 22 + 4 = n + 65
    OBVIOUS
  <1>4. r \in {begun, Typed(32), Typed(24), Typed(15), Public, Close,
               http_response_add_header(Typed(32), 12, 32),
               http_response_add_header(Latency, 17, 22)}
    BY DEF HandledBy
  <1> HIDE DEF Typed, Public, Close, Latency
  <1>5. Inside(http_response_add_header(Typed(32), 12, 32), n + 48 + 12 + 32 + 4)
    BY <1>1, <1>3, HeaderFits
  <1>6. Inside(http_response_add_header(Latency, 17, 22), n + 22 + 17 + 22 + 4)
    BY <1>2, <1>3, HeaderFits
  <1>7. \E k \in {0, 48, 40, 31, 86, 19, 96, 65} : Inside(r, n + k)
    <2>1. n + 0 = n
      OBVIOUS
    <2> QED BY <1>1, <1>2, <1>3, <1>4, <1>5, <1>6, <2>1
  <1> QED BY <1>7

LEMMA DigitsType == ASSUME NEW n \in Nat PROVE Digits(n) \in 1 .. 10
  <1> DEFINE Power == <<10, 100, 1000, 10000, 100000, 1000000, 10000000,
                        100000000, 1000000000>>
             Fit(d) == (d = 10 \/ n < Power[d]) /\ (d = 1 \/ Power[d - 1] <= n)
  <1>1. \E d \in 1 .. 10 : Fit(d)
    <2>1. /\ Power[1] = 10 /\ Power[2] = 100 /\ Power[3] = 1000 /\ Power[4] = 10000
          /\ Power[5] = 100000 /\ Power[6] = 1000000 /\ Power[7] = 10000000
          /\ Power[8] = 100000000 /\ Power[9] = 1000000000
      OBVIOUS
    <2> HIDE DEF Power
    <2>2. Fit(1) \/ Fit(2) \/ Fit(3) \/ Fit(4) \/ Fit(5) \/ Fit(6) \/ Fit(7) \/ Fit(8)
            \/ Fit(9) \/ Fit(10)
      BY <2>1
    <2> HIDE DEF Fit
    <2> QED BY <2>2
  <1>2. Digits(n) = CHOOSE d \in 1 .. 10 : Fit(d)
    BY DEF Digits
  <1> HIDE DEF Fit
  <1> QED BY <1>1, <1>2

LEMMA FinishFits ==
  ASSUME NEW r, NEW n \in Nat, Inside(r, n), n <= 994,
         NEW datalen \in Nat, datalen <= LargestPiece
  PROVE  http_response_finish(r, datalen).overrun = 0
  <1>1. CASE datalen = 0
    <2>1. Inside(http_response_add_data(r, 2), n + 2)
      BY Fits DEF LargestPiece, InitialSize
    <2> QED BY <1>1, <2>1 DEF http_response_finish, Inside
  <1>2. CASE datalen > 0
    <2> DEFINE d == Digits(datalen)
               r1 == http_response_add_data(r, 14)
               r2 == http_response_add_data(r1, 2)
               r3 == http_response_add_data(r2, d)
               r4 == http_response_add_data(r3, 4)
               r5 == http_response_add_data(r4, datalen)
    <2>1. http_response_finish(r, datalen) = r5
      BY <1>2 DEF http_response_finish
    <2>2. d \in Nat /\ d <= 10
      BY DigitsType
    <2> HIDE DEF d
    <2>3. d <= LargestPiece /\ 14 <= LargestPiece /\ 4 <= LargestPiece /\ 2 <= LargestPiece
      BY <2>2 DEF LargestPiece, InitialSize
    <2>4. Inside(r1, n + 14)
      BY <2>3, Fits
    <2> HIDE DEF r1
    <2>5. Inside(r2, n + 14 + 2)
      BY <2>3, <2>4, Fits
    <2> HIDE DEF r2
    <2>6. Inside(r3, n + 14 + 2 + d)
      BY <2>2, <2>3, <2>5, Fits
    <2> HIDE DEF r3
    <2>7. Inside(r4, n + 14 + 2 + d + 4)
      BY <2>2, <2>3, <2>6, Fits
    <2> HIDE DEF r4
    <2>8. n + 14 + 2 + d + 4 \in Nat /\ n + 14 + 2 + d + 4 <= InitialSize
      BY <2>2 DEF InitialSize
    <2>9. Inside(r5, n + 14 + 2 + d + 4 + datalen)
      BY <2>7, <2>8, Fits
    <2> QED BY <2>1, <2>9 DEF Inside
  <1> QED BY <1>1, <1>2

\* What conn_request answers to a CSeq there is room for.
LEMMA ResponsesFit ==
  ASSUME NEW c \in Nat, c <= CSeqRoom, NEW datalen \in BodySizes,
         NEW response \in Responses(c, datalen)
  PROVE  response.overrun = 0
  <1> DEFINE numbered == http_response_add_header(StatusLine, 4, c)
             begun == http_response_add_header(numbered, 6, 15)
  <1>1. PICK r \in HandledBy(begun) : response = http_response_finish(r, datalen)
    BY DEF Responses
  <1>2. Inside(numbered, 17 + 4 + c + 4)
    BY StatusFits, HeaderFits DEF CSeqRoom, InitialSize
  <1> HIDE DEF numbered
  <1>3. Inside(begun, 17 + 4 + c + 4 + 6 + 15 + 4)
    BY <1>2, HeaderFits DEF CSeqRoom, InitialSize
  <1> HIDE DEF begun
  <1>4. c + 50 \in Nat /\ c + 50 <= 898 /\ 17 + 4 + c + 4 + 6 + 15 + 4 = c + 50
    BY DEF CSeqRoom, InitialSize
  <1>5. PICK k \in 0 .. 96 : Inside(r, c + 50 + k)
    BY <1>1, <1>3, <1>4, HandlerFits
  <1>6. datalen \in Nat /\ datalen <= LargestPiece
    <2>1. BodySizes \subseteq Nat /\ \A n \in BodySizes : n <= LargestPiece
      BY ExchangeAssumption
    <2> QED BY <2>1
  <1>7. c + 50 + k \in Nat /\ c + 50 + k <= 994
    BY <1>4
  <1> QED BY <1>1, <1>5, <1>6, <1>7, FinishFits

\* No piece has been empty.
Whole(r) == ~r.refused

LEMMA AddWhole ==
  ASSUME NEW r, Whole(r), NEW k, k # 0
  PROVE  Whole(http_response_add_data(r, k))
  <1>1. http_response_add_data(r, k).refused = (r.refused \/ k = 0)
    BY DEF http_response_add_data
  <1> QED BY <1>1, Zenon DEF Whole

LEMMA HeaderWhole ==
  ASSUME NEW r, Whole(r), NEW name, name # 0, NEW value, value # 0
  PROVE  Whole(http_response_add_header(r, name, value))
  <1>1. 2 # 0 OBVIOUS
  <1> QED BY <1>1, AddWhole DEF http_response_add_header

LEMMA StatusWhole == Whole(StatusLine)
  <1> DEFINE r0 == [data_length |-> 0, overrun |-> 0, refused |-> FALSE]
  <1>1. 8 # 0 /\ 1 # 0 /\ 3 # 0 /\ 2 # 0
    OBVIOUS
  <1>2. Whole(r0)
    BY DEF Whole
  <1>3. StatusLine = http_response_add_data(http_response_add_data(http_response_add_data(
           http_response_add_data(http_response_add_data(http_response_add_data(
              r0, 8), 1), 3), 1), 2), 2)
    BY DEF StatusLine, http_response_init
  <1> HIDE DEF r0
  <1> QED BY <1>1, <1>2, <1>3, AddWhole

LEMMA HandlerWhole ==
  ASSUME NEW begun, Whole(begun), NEW r \in HandledBy(begun)
  PROVE  Whole(r)
  <1>1. \A k \in {4, 5, 6, 10, 12, 13, 15, 17, 22, 24, 32, 76} : k # 0
    OBVIOUS
  <1> QED BY <1>1, HeaderWhole DEF HandledBy

LEMMA FinishWhole ==
  ASSUME NEW r, Whole(r), NEW datalen \in Nat
  PROVE  Whole(http_response_finish(r, datalen))
  <1>1. 14 # 0 /\ 2 # 0 /\ 4 # 0
    OBVIOUS
  <1>2. Digits(datalen) # 0
    BY DigitsType
  <1>3. CASE datalen > 0
    <2>1. datalen # 0
      BY <1>3
    <2> QED BY <1>1, <1>2, <1>3, <2>1, AddWhole DEF http_response_finish
  <1>4. CASE ~(datalen > 0)
    BY <1>1, <1>4, AddWhole DEF http_response_finish
  <1> QED BY <1>3, <1>4

\* What conn_request answers to a CSeq that is not empty has no empty piece.
LEMMA ResponsesWhole ==
  ASSUME NEW c, c # 0, NEW datalen \in BodySizes, NEW response \in Responses(c, datalen)
  PROVE  Whole(response)
  <1> DEFINE numbered == http_response_add_header(StatusLine, 4, c)
             begun == http_response_add_header(numbered, 6, 15)
  <1>1. PICK r \in HandledBy(begun) : response = http_response_finish(r, datalen)
    BY DEF Responses
  <1>2. 4 # 0 /\ 6 # 0 /\ 15 # 0
    OBVIOUS
  <1>3. Whole(numbered)
    BY <1>2, StatusWhole, HeaderWhole
  <1> HIDE DEF numbered
  <1>4. Whole(begun)
    BY <1>2, <1>3, HeaderWhole
  <1> HIDE DEF begun
  <1>5. Whole(r)
    BY <1>1, <1>4, HandlerWhole
  <1>6. datalen \in Nat
    BY ExchangeAssumption
  <1> QED BY <1>1, <1>5, <1>6, FinishWhole

\* An answer that overruns its allocation or ends the process is one to a CSeq too
\* long or empty.
LEMMA AnswerFits ==
  ASSUME Complete, ResponseFits, pc = "returned"
  PROVE  ResponseFits'
  <1> DEFINE cseq == http_request_get_header(request, "CSeq")
  <1>1. CASE cseq = "NULL"
    BY <1>1 DEF Complete, ResponseFits
  <1>2. CASE cseq # "NULL"
    <2>1. PICK n \in LengthsOf(cseq), datalen \in BodySizes :
             \E response \in Responses(n, datalen) : Answer(n, response)
      BY <1>2 DEF Complete
    <2>2. PICK response \in Responses(n, datalen) : Answer(n, response)
      BY <2>1
    <2>3. n \in Nat /\ (cseq # "" => n # 0)
      <3>1. CSeqLengths \subseteq Nat /\ 0 \notin CSeqLengths
        BY ExchangeAssumption
      <3>2. cseq = "" => n \in {0}
        BY Zenon DEF LengthsOf
      <3>3. cseq # "" => n \in CSeqLengths
        BY Zenon DEF LengthsOf
      <3>4. {0} \subseteq Nat
        OBVIOUS
      <3> HIDE DEF cseq
      <3> QED BY <3>1, <3>2, <3>3, <3>4, Zenon
    <2>4. response.overrun > 0 => n > CSeqRoom
      <3>1. n \in Nat
        BY <2>3
      <3>2. n > CSeqRoom \/ n <= CSeqRoom
        BY <3>1 DEF CSeqRoom, InitialSize
      <3>3. n <= CSeqRoom => response.overrun = 0
        BY <3>1, ResponsesFit
      <3> QED BY <3>2, <3>3
    <2>5. response.refused => cseq = ""
      BY <2>3, ResponsesWhole DEF Whole
    <2>6. \A m \in overrun' : m > CSeqRoom
      BY <2>2, <2>4 DEF Answer, ResponseFits
    <2>7. pc' = "aborted" => overrun' # {} \/ cseq = ""
      BY <2>2, <2>5 DEF Answer
    <2>8. request' = request
      BY DEF Complete
    <2> QED BY <2>6, <2>7, <2>8 DEF ResponseFits
  <1> QED BY <1>1, <1>2

(* Only the answer to a CSeq longer than what is free of the initial size  *)
(* is ever written past what realloc has returned, whatever the handler    *)
(* adds and however long its body is: http_response_add_data does not look *)
(* at what has been written before, but the initial size it never uses up  *)
(* makes up for it.  And nothing but such an answer, or one to an empty    *)
(* CSeq, ends the process.                                                 *)
THEOREM ResponsesCorrect == Spec => []ResponseFits
  <1>1. Init => ResponseFits
    BY DEF Init, ResponseFits
  <1>2. Running /\ ResponseFits /\ [Next]_vars => ResponseFits'
    <2> SUFFICES ASSUME Running, ResponseFits, [Next]_vars PROVE ResponseFits'
      OBVIOUS
    <2>1. CASE Complete
      BY <2>1, AnswerFits DEF Complete
    <2>2. CASE pc = "aborted"
      BY <2>2, AbortedStays DEF ResponseFits, vars, execVars
    <2>3. CASE ~Complete /\ pc # "aborted"
      <3>1. pc' # "aborted"
        <4>1. IInv'
          BY <2>3, StepKeeps DEF Running
        <4> QED BY <4>1 DEF IInv, ThreadInv
      <3>2. overrun' = overrun
        BY <2>3 DEF Next, ClientSends, ServerStep, Recv, Parse, HasError, Incomplete, vars
      <3> QED BY <3>1, <3>2 DEF ResponseFits
    <2> QED BY <2>1, <2>2, <2>3
  <1> QED BY <1>1, <1>2, Invariance, PTL DEF Spec
=============================================================================
