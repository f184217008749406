------------------------------- MODULE Xplist -------------------------------
(***************************************************************************)
(* Property lists as XML documents (src/lib/plist/xplist.c, bytearray.c):  *)
(* plist_to_xml writes the tree of a node, node_from_xml reads a text as   *)
(* the nodes to be made, one after the other.                              *)
(*                                                                         *)
(* A text is a sequence of bytes, a place in it counts from 1; the place 0 *)
(* is that of an error (ctx->err).                                         *)
(***************************************************************************)
EXTENDS XplistData

CONSTANT
    PAGE_SIZE   \* a buffer grows by multiples of it (4096)

ASSUME PageAssumption == PAGE_SIZE \in Nat \ {0}

XPLIST_KEY == Chars("key")
XPLIST_FALSE == Chars("false")
XPLIST_TRUE == Chars("true")
XPLIST_INT == Chars("integer")
XPLIST_REAL == Chars("real")
XPLIST_DATE == Chars("date")
XPLIST_DATA == Chars("data")
XPLIST_STRING == Chars("string")
XPLIST_ARRAY == Chars("array")
XPLIST_DICT == Chars("dict")
CF_UID == Chars("CF$UID")
PLIST == Chars("plist")
LESS == Chars("<")[1]
MORE == Chars(">")[1]
SLASH == Chars("/")[1]
QUOTE == Chars("\"")[1]
Line(s) == Append(s, NEWLINE)

XML_PLIST_PROLOG ==
    Line(Chars("<?xml version=\"1.0\" encoding=\"UTF-8\"?>"))
    \o Line(Chars("<!DOCTYPE plist PUBLIC \"-//Apple//DTD PLIST 1.0//EN\" \"http://www.apple.com/DTDs/PropertyList-1.0.dtd\">"))
    \o Line(Chars("<plist version=\"1.0\">"))
XML_PLIST_EPILOG == Line(Chars("</plist>"))

-----------------------------------------------------------------------------
(* The buffer: what is in it, how much it holds, and whether something was *)
(* written beyond that.                                                    *)

Pages(n) == IF n > PAGE_SIZE THEN ((n + PAGE_SIZE - 1) \div PAGE_SIZE) * PAGE_SIZE ELSE PAGE_SIZE
str_buf_new(n) == [data |-> <<>>, capacity |-> Pages(n), beyond |-> FALSE]
str_buf_grow(b, amount) == [b EXCEPT !.capacity = @ + Pages(amount)]

(* Several appends one after the other are one of all their bytes: each    *)
(* grows by as few pages as hold its bytes.                                *)
str_buf_append(b, s) ==
    LET lacking == Len(b.data) + Len(s) - b.capacity
        g == IF lacking > 0 THEN str_buf_grow(b, lacking) ELSE b
    IN  [g EXCEPT !.data = @ \o s]

(* Bytes that are written past its end, with a 0 after them. *)
WrittenAtEnd(b, s) ==
    [b EXCEPT !.data = @ \o s, !.beyond = @ \/ Len(b.data) + Len(s) >= b.capacity]

-----------------------------------------------------------------------------
(* Writing.  emptied says whether containers without children have had     *)
(* some: then they have a list, and two tags.                              *)

Tabs(n) == [i \in 1..n |-> TAB]
Open(tag) == <<LESS>> \o tag \o <<MORE>>
Empty(tag) == <<LESS>> \o tag \o <<SLASH, MORE>>
Close(tag) == <<LESS, SLASH>> \o tag \o <<MORE>>
Tagged(tag, s) == Open(tag) \o s \o Close(tag)

ContainerTag(type) == IF type = "dict" THEN XPLIST_DICT ELSE XPLIST_ARRAY
IsStruct(h, n, emptied) == h[n].type \in {"dict", "array"} /\ (h[n].count > 0 \/ emptied)
IntText(v) == IF Len(v) = 16 THEN Unsigned(Low(v, 8)) ELSE Signed(v)

(* The one line of a node that is no container with a list and no data.    *)
LineOf(h, n, depth) ==
    LET v == h[n].val
    IN  CASE h[n].type = "bool"   -> Empty(IF v THEN XPLIST_TRUE ELSE XPLIST_FALSE)
          [] h[n].type = "uint"   -> Tagged(XPLIST_INT, IntText(v))
          [] h[n].type = "real"   -> Tagged(XPLIST_REAL, dtostr(v))
          [] h[n].type = "string" -> Tagged(XPLIST_STRING, Escaped(v))
          [] h[n].type = "key"    -> Tagged(XPLIST_KEY, Escaped(v))
          [] h[n].type = "date"   ->
                Tagged(XPLIST_DATE, DateText(gmtime64_r(Truncated(v) + MAC_EPOCH)))
          [] h[n].type = "uid"    ->
                Line(Open(XPLIST_DICT))
                \o Tabs(depth + 1) \o Line(Tagged(XPLIST_KEY, CF_UID))
                \o Tabs(depth + 1) \o Line(Tagged(XPLIST_INT, IntText(v)))
                \o Tabs(depth) \o Close(XPLIST_DICT)
          [] OTHER                -> Empty(ContainerTag(h[n].type))

MAX_DATA_BYTES_PER_LINE(indent) == ((76 - 8 * indent) \div 4) * 3
Indent(depth) == Min({depth, 8})

(* The lines of data, from its j-th byte on; the encoder writes into the   *)
(* buffer itself.                                                          *)
RECURSIVE DataLines(_, _, _, _)
DataLines(b, v, j, indent) ==
    LET last == Min({Len(v), j + MAX_DATA_BYTES_PER_LINE(indent) - 1})
        line == WrittenAtEnd(str_buf_append(b, Tabs(indent)), base64encode(SubSeq(v, j, last)))
    IN  IF j > Len(v) THEN b
        ELSE DataLines(str_buf_append(line, <<NEWLINE>>), v, last + 1, indent)

(* A broken form: the room for the indents of the lines is left out. *)
DataWithoutRoomForTabs(b, v, depth) ==
    LET indent == Indent(depth)
        lines == Len(v) \div MAX_DATA_BYTES_PER_LINE(indent) + 1
        amount == (Len(v) \div 3) * 4 + 4 + lines
        opened == str_buf_append(b, Tabs(depth) \o Line(Open(XPLIST_DATA)))
        roomy == IF Len(v) > 0 /\ Len(opened.data) + amount > opened.capacity
                 THEN str_buf_grow(opened, amount) ELSE opened
    IN  str_buf_append(DataLines(roomy, v, 1, indent), Tabs(depth) \o Line(Close(XPLIST_DATA)))

(* Room for the lines is made before. *)
DataToXml(b, v, depth) ==
    LET indent == Indent(depth)
        lines == Len(v) \div MAX_DATA_BYTES_PER_LINE(indent) + 1
        amount == (Len(v) \div 3) * 4 + 4 + lines * (indent + 1)
        opened == str_buf_append(b, Tabs(depth) \o Line(Open(XPLIST_DATA)))
        roomy == IF Len(v) > 0 /\ Len(opened.data) + amount > opened.capacity
                 THEN str_buf_grow(opened, amount) ELSE opened
    IN  str_buf_append(DataLines(roomy, v, 1, indent), Tabs(depth) \o Line(Close(XPLIST_DATA)))

RECURSIVE node_to_xml(_, _, _, _, _)
node_to_xml(h, n, b, depth, emptied) ==
    LET tag == ContainerTag(h[n].type)
        Child(c, ch) == node_to_xml(h, ch, c, depth + 1, emptied)
    IN  CASE h[n].type = "data" -> DataToXml(b, h[n].val, depth)
          [] IsStruct(h, n, emptied) ->
                str_buf_append(
                    FoldLeft(Child, str_buf_append(b, Tabs(depth) \o Line(Open(tag))), Children(h, n)),
                    Tabs(depth) \o Line(Close(tag)))
          [] OTHER -> str_buf_append(b, Tabs(depth) \o Line(LineOf(h, n, depth)))

(* The bytes a node needs, about: data without its padding, dates of 20    *)
(* characters, an indent that stops at 8.                                  *)
RECURSIVE node_estimate_size(_, _, _, _)
node_estimate_size(h, n, depth, emptied) ==
    LET v == h[n].val
        indent == Indent(depth)
        children == Children(h, n)
        Size(ch) == node_estimate_size(h, ch, depth + 1, emptied)
        b64len == Len(v) + Len(v) \div 3
        Around(tag, more) == 2 * Len(tag) + more + indent
    IN  CASE IsStruct(h, n, emptied) ->
                FoldLeft(LAMBDA sum, ch : sum + Size(ch), 0, children)
                + 2 * Len(ContainerTag(h[n].type)) + 7 + 2 * depth
          [] h[n].type = "data" ->
                b64len + (b64len % 4) + Around(XPLIST_DATA, 6)
                + (indent + 1) * (Len(v) \div MAX_DATA_BYTES_PER_LINE(indent) + 2)
          [] h[n].type = "string" -> Len(v) + Around(XPLIST_STRING, 6)
          [] h[n].type = "key"  -> Len(v) + Around(XPLIST_KEY, 6)
          [] h[n].type = "uint" -> Len(IntText(v)) + Around(XPLIST_INT, 6)
          [] h[n].type = "real" ->
                Len(Padded(Reals[v].whole, 1)) + (IF Reals[v].negative /\ Reals[v].whole > 0 THEN 1 ELSE 0)
                + 7 + Around(XPLIST_REAL, 6)
          [] h[n].type = "date" -> 20 + Around(XPLIST_DATE, 6)
          [] h[n].type = "bool" -> Len(IF v THEN XPLIST_TRUE ELSE XPLIST_FALSE) + 4 + indent
          [] h[n].type = "uid"  ->
                Len(Signed(v)) + Around(XPLIST_DICT, 7) + indent + 2 * (indent + 1)
                + 18 + 2 * Len(XPLIST_INT) + 6
          [] OTHER -> Len(ContainerTag(h[n].type)) + 4 + indent

NoText == <<>>

(* The epilog is appended with the 0 after it, which is not counted.       *)
plist_to_xml(h, n, emptied) ==
    LET size == node_estimate_size(h, n, 0, emptied)
                + Len(XML_PLIST_PROLOG) + Len(XML_PLIST_EPILOG) + 1
        b == node_to_xml(h, n, str_buf_append(str_buf_new(size), XML_PLIST_PROLOG), 0, emptied)
    IN  IF b.beyond THEN NoText ELSE str_buf_append(b, XML_PLIST_EPILOG).data

-----------------------------------------------------------------------------
(* Reading: places in a text t.  A search that finds nothing ends after    *)
(* the text.                                                               *)

End(t) == Len(t) + 1
Looking(t, pos, str) ==
    pos + Len(str) <= End(t) /\ SubSeq(t, pos, pos + Len(str) - 1) = str

(* The first place from pos on with a byte of a set. *)
FirstOf(t, pos, bytes) ==
    CHOOSE i \in pos..End(t) :
        /\ i < End(t) => t[i] \in bytes
        /\ \A j \in pos..(i - 1) : t[j] \notin bytes

NonBlank == (0..255) \ Blank
parse_skip_ws(t, pos) == FirstOf(t, pos, NonBlank)
find_char(t, pos, c) == FirstOf(t, pos, {c})

(* skip_quotes passes over what is in double quotes. *)
RECURSIVE find_next(_, _, _, _), find_str(_, _, _, _)
find_next(t, pos, nextchars, skip_quotes) ==
    LET i == FirstOf(t, pos, IF skip_quotes THEN nextchars \cup {QUOTE} ELSE nextchars)
        close == find_char(t, i + 1, QUOTE)
    IN  IF i = End(t) \/ ~skip_quotes THEN i
        ELSE IF t[i] # QUOTE THEN i
        ELSE IF close = End(t) THEN close
        ELSE find_next(t, close + 1, nextchars, skip_quotes)

(* The last place at which str has room is not looked at: the callers do.  *)
find_str(t, pos, str, skip_quotes) ==
    LET i == FirstOf(t, pos, IF skip_quotes THEN {str[1], QUOTE} ELSE {str[1]})
        close == find_char(t, i + 1, QUOTE)
    IN  IF i + Len(str) >= End(t) THEN Max({pos, End(t) - Len(str)})
        ELSE IF Looking(t, i, str) THEN i
        ELSE IF ~skip_quotes \/ t[i] # QUOTE THEN find_str(t, i + 1, str, skip_quotes)
        ELSE IF close = End(t) THEN close
        ELSE find_str(t, close + 1, str, skip_quotes)

(* After the str that comes next, or the error. *)
After(t, pos, str, skip_quotes) ==
    LET i == find_str(t, pos, str, skip_quotes)
    IN  IF Looking(t, i, str) THEN i + Len(str) ELSE 0

-----------------------------------------------------------------------------
(* The text up to the closing tag, in parts: comments part it, and CDATA   *)
(* is a part in which entities are not replaced.                           *)

NoParts == [pos |-> 0, parts |-> <<>>]
Part(s, is_cdata) == [text |-> s, is_cdata |-> is_cdata]

(* The closing tag, whose slash is at the place before pos. *)
Closing(t, pos, tag) ==
    LET close == parse_skip_ws(t, pos + Len(tag))
    IN  IF pos + Len(tag) >= End(t) THEN 0
        ELSE IF Looking(t, pos, tag) /\ Looking(t, close, <<MORE>>) THEN close + 1
        ELSE 0

RECURSIVE get_text_parts(_, _, _, _), PartsAfter(_, _, _, _)
get_text_parts(t, pos, tag, parts) ==
    LET q == find_char(t, pos, LESS)
        text == SubSeq(t, pos, q - 1)
        texts == IF text = <<>> THEN parts ELSE Append(parts, Part(text, FALSE))
        cdata == find_str(t, q + 9, Chars("]]>"), FALSE)
    IN  CASE Looking(t, q, Chars("<!--")) ->
                PartsAfter(t, After(t, q + 4, Chars("-->"), FALSE), tag,
                           Append(parts, Part(text, FALSE)))
          [] Looking(t, q, Chars("<![CDATA[")) /\ q + 3 < End(t) - 8 /\ Looking(t, cdata, Chars("]]>")) ->
                get_text_parts(t, cdata + 3, tag, Append(texts, Part(SubSeq(t, q + 9, cdata - 1), TRUE)))
          [] Looking(t, q, Chars("</")) ->
                [pos |-> Closing(t, q + 2, tag), parts |-> texts]
          [] OTHER -> NoParts
PartsAfter(t, pos, tag, parts) ==
    IF pos = 0 THEN NoParts ELSE get_text_parts(t, pos, tag, parts)

text_parts_get_content(parts, unesc_entities) ==
    FlattenSeq([i \in DOMAIN parts |->
        IF unesc_entities /\ ~parts[i].is_cdata THEN unescape_entities(parts[i].text)
        ELSE parts[i].text])

-----------------------------------------------------------------------------
(* The value of an element whose opening tag ends before pos: its type and *)
(* value, and where it ends.                                               *)

Is(pos, type, val) == [pos |-> pos, type |-> type, val |-> val]

(* Of parts, none of them for an empty element. *)
ValueOf(tag, pos, parts) ==
    LET content == text_parts_get_content(parts, tag \in {XPLIST_STRING, XPLIST_KEY})
        first == IF parts = <<>> THEN 0 ELSE Len(parts[1].text)
    IN  CASE tag = XPLIST_INT -> Is(pos, "uint", IntegerOf(content))
          [] tag = XPLIST_REAL -> Is(pos, "real", IF parts = <<>> THEN Zeros(8) ELSE atof(content))
          [] tag = XPLIST_TRUE -> Is(pos, "bool", TRUE)
          [] tag = XPLIST_FALSE -> Is(pos, "bool", FALSE)
          [] tag \in {XPLIST_STRING, XPLIST_KEY} ->
                Is(IF Valid(content) THEN pos ELSE 0, "string", content)
          [] tag = XPLIST_DATA -> Is(pos, "data", base64decode(SubSeq(content, 1, first)))
          [] tag = XPLIST_DATE -> Is(pos, "date", DateOf(content, first))

ValueAt(t, tag, is_empty, pos) ==
    LET start == IF tag \in {XPLIST_STRING, XPLIST_KEY} THEN pos ELSE parse_skip_ws(t, pos)
        read == get_text_parts(t, start, tag, <<>>)
    IN  CASE tag = XPLIST_DICT  -> Is(pos, "dict", <<>>)
          [] tag = XPLIST_ARRAY -> Is(pos, "array", <<>>)
          [] tag = XPLIST_DATE /\ is_empty -> Is(pos, "date", Zeros(8))
          [] is_empty /\ tag \notin {XPLIST_DICT, XPLIST_ARRAY, XPLIST_DATE} -> ValueOf(tag, pos, <<>>)
          [] OTHER -> ValueOf(tag, read.pos, read.parts)

Valued == {XPLIST_DICT, XPLIST_ARRAY, XPLIST_INT, XPLIST_REAL, XPLIST_TRUE, XPLIST_FALSE,
           XPLIST_STRING, XPLIST_KEY, XPLIST_DATA, XPLIST_DATE}

-----------------------------------------------------------------------------
(* The parser: where it is, whether it is done, the open tags (path), the  *)
(* types of the nodes it is in (parents, the root first), the key that     *)
(* waits for its item (none or one), and the nodes made so far.  A node is *)
(* [key, type, val, inside]; with inside it is the parent of those after   *)
(* it, until an end.                                                       *)

NodeEnd == [type |-> "end"]
Begin == [pos |-> 1, done |-> FALSE, path |-> <<>>, parents |-> <<>>, keyname |-> <<>>,
          has_content |-> FALSE, nodes |-> <<>>]

Failed(x) == [x EXCEPT !.pos = 0]

(* A DOCTYPE from pos on, with or without an embedded DTD. *)
RECURSIVE AfterDoctype(_, _)
AfterDoctype(t, pos) ==
    LET i == find_next(t, pos, Blank \cup {Chars("[")[1], MORE}, TRUE)
    IN  IF pos = End(t) THEN pos
        ELSE IF i = End(t) THEN 0
        ELSE IF t[i] = Chars("[")[1] THEN After(t, i, Chars("]>"), TRUE)
        ELSE IF t[i] = MORE THEN i + 1
        ELSE AfterDoctype(t, parse_skip_ws(t, i))

(* What begins with <? or <! at pos. *)
AfterSpecial(t, pos) ==
    CASE Looking(t, pos, Chars("<?")) -> After(t, pos + 1, Chars("?>"), TRUE)
      [] Looking(t, pos, Chars("<!--")) /\ pos + 4 < End(t) -> After(t, pos + 4, Chars("-->"), FALSE)
      [] Looking(t, pos, Chars("<!DOCTYPE")) /\ pos + 9 < End(t) -> AfterDoctype(t, pos + 9)
      [] OTHER -> 0

(* A top-level <plist> after a tree is the end.                            *)
OpenPlist(x, is_empty, pos) ==
    CASE x.path = <<>> /\ x.nodes # <<>> -> [x EXCEPT !.done = TRUE]
      [] is_empty /\ (x.path # <<>> \/ x.nodes = <<>>) -> Failed(x)
      [] OTHER -> [x EXCEPT !.pos = pos, !.has_content = FALSE, !.path = Append(@, PLIST)]

(* A closing tag must be that of the last open one. *)
Matches(x, tag) == x.path # <<>> /\ Last(x.path) = Tail(tag)

ClosePlist(x, tag, pos) ==
    IF ~x.has_content \/ ~Matches(x, tag) THEN Failed(x)
    ELSE [x EXCEPT !.pos = pos, !.path = Front(@)]

(* The root is done when it is closed, whatever follows it. *)
CloseNode(x, tag, pos) ==
    IF ~Matches(x, tag) THEN Failed(x)
    ELSE [x EXCEPT !.pos = pos, !.path = Front(@), !.has_content = TRUE, !.keyname = <<>>,
                   !.parents = Front(@), !.done = Len(x.parents) = 1,
                   !.nodes = Append(@, NodeEnd)]

(* A node goes to its parent: with the key, into a dictionary.  The root   *)
(* is its own end when it is no container, and the parent of what comes    *)
(* when it is one, an empty one too.                                       *)
AddNode(x, tag, is_empty, v) ==
    LET container == v.type \in {"dict", "array"}
        root == x.nodes = <<>>
        node == [key |-> x.keyname, type |-> v.type, val |-> v.val,
                 inside |-> container /\ (root \/ ~is_empty)]
    IN  CASE v.pos = 0 -> Failed(x)
          [] v.pos # 0 /\ ~root /\ x.keyname = <<>> /\ Last(x.parents) = "dict" -> Failed(x)
          [] OTHER ->
                [x EXCEPT !.pos = v.pos, !.has_content = TRUE, !.keyname = <<>>,
                          !.nodes = Append(@, node), !.done = root /\ ~container,
                          !.parents = IF node.inside THEN Append(@, v.type) ELSE @,
                          !.path = IF container /\ ~is_empty THEN Append(@, tag) ELSE @]

(* The first <key> in a dictionary is the key of the next item. *)
IsKeyname(x, tag, is_empty) ==
    /\ tag = XPLIST_KEY /\ ~is_empty /\ x.keyname = <<>>
    /\ x.parents # <<>> /\ Last(x.parents) = "dict"

AddElement(x, tag, is_empty, v) ==
    IF IsKeyname(x, tag, is_empty) /\ v.pos # 0
    THEN [x EXCEPT !.pos = v.pos, !.has_content = TRUE, !.keyname = <<v.val>>]
    ELSE AddNode(x, tag, is_empty, v)

Element(t, x, tag, is_empty, pos) ==
    CASE tag = PLIST -> OpenPlist(x, is_empty, pos)
      [] tag = <<SLASH>> \o PLIST -> ClosePlist(x, tag, pos)
      [] tag \in Valued -> AddElement(x, tag, is_empty, ValueAt(t, tag, is_empty, pos))
      [] tag # <<SLASH>> \o PLIST /\ Looking(tag, 1, <<SLASH>>) -> CloseNode(x, tag, pos)
      [] OTHER -> Failed(x)

(* A tag whose name begins at p.  A slash before its end makes it empty.   *)
TagAt(t, x, p) ==
    LET e == find_next(t, p, Blank \cup {LESS, MORE}, FALSE)
        close == IF t[e] = MORE THEN e ELSE find_next(t, e, {LESS, MORE}, TRUE)
        is_empty == t[close - 1] = SLASH
        name == SubSeq(t, p, IF is_empty /\ close = e THEN e - 2 ELSE e - 1)
    IN  IF e = End(t) THEN Failed(x)
        ELSE IF ~Looking(t, close, <<MORE>>) THEN Failed(x)
        ELSE Element(t, x, name, is_empty, close + 1)

StepFrom(t, x, pos) ==
    IF pos = End(t) THEN [x EXCEPT !.pos = pos]
    ELSE IF t[pos] # LESS \/ pos + 1 = End(t) THEN Failed(x)
    ELSE IF t[pos + 1] \in Range(Chars("?!")) THEN [x EXCEPT !.pos = AfterSpecial(t, pos)]
    ELSE TagAt(t, x, pos + 1)

(* The loop of node_from_xml. *)
RECURSIVE Parse(_, _)
Parse(t, x) ==
    IF x.done \/ x.pos \in {0, End(t)} THEN x
    ELSE Parse(t, StepFrom(t, x, parse_skip_ws(t, x.pos)))

(* The nodes of the tree; none after an error, or if tags are still open   *)
(* at the end of the text.                                                 *)
NodesOf(x) == IF x.pos = 0 \/ (~x.done /\ x.path # <<>>) THEN <<>> ELSE x.nodes
node_from_xml(t) == NodesOf(Parse(t, Begin))

plist_from_xml(t) == IF t = NoText THEN <<>> ELSE node_from_xml(t)
=============================================================================
