------------------------------ MODULE MCPlist -------------------------------
(* Model values for the runs of Plist. *)
EXTENDS Plist

MCTrees == {"p", "q"}
MCKeys == {<<97>>, <<195, 169>>, <<98>>}               \* "a", "é", "b"

Value(type, val) == [type |-> type, val |-> val]
One == <<0, 0, 0, 0, 0, 0, 0, 1>>
MCItems == {Value("uint", One), Value("data", <<1>>), Value("dict", <<>>)}
MCIndexes == {0, 1}

(* The doubles 1.5 and -2, as floats; 0.1 is none. *)
MCFloats == (<<63, 248, 0, 0, 0, 0, 0, 0>> :> <<63, 192, 0, 0>>)
            @@ (<<192, 0, 0, 0, 0, 0, 0, 0>> :> <<192, 0, 0, 0>>)

(* Values at the borders of the sizes they are written in, text that needs *)
(* one to four bytes a character, and values that are equal.               *)
Sample == <<
    Value("bool", TRUE), Value("bool", FALSE), Value("uint", One),
    Value("uint", <<0, 0, 0, 0, 0, 0, 0, 255>>), Value("uint", <<0, 0, 0, 0, 0, 0, 1, 0>>),
    Value("uint", <<0, 0, 0, 0, 0, 1, 0, 0>>), Value("uint", <<0, 0, 0, 0, 1, 0, 0, 0>>),
    Value("uint", <<0, 0, 0, 1, 0, 0, 0, 0>>), Value("uint", <<255, 255, 255, 255, 255, 255, 255, 255>>),
    Value("uint", Zeros(15) \o <<7>>), Value("uid", One), Value("uid", <<0, 0, 0, 0, 0, 255, 255, 255>>),
    Value("uid", <<0, 0, 0, 0, 255, 255, 255, 255>>),
    Value("real", <<63, 248, 0, 0, 0, 0, 0, 0>>), Value("real", <<192, 0, 0, 0, 0, 0, 0, 0>>),
    Value("real", <<63, 185, 153, 153, 153, 153, 153, 154>>),
    Value("date", <<65, 184, 0, 0, 0, 0, 0, 1>>),
    Value("string", <<>>), Value("string", <<97>>), Value("string", [i \in 1..14 |-> 120]),
    Value("string", [i \in 1..15 |-> 120]), Value("string", <<195, 169>>),
    Value("string", <<226, 130, 172, 65, 240, 159, 142, 181>>),
    Value("data", <<>>), Value("data", <<0, 255>>), Value("data", <<0, 255>>),
    Value("uint", One), Value("string", <<97>>) >>

RECURSIVE Filled(_, _)
Filled(h, values) ==
    IF values = <<>> THEN h
    ELSE Filled(node_attach(node_create(h, values[1].type, values[1].val), 1, New(h)), Tail(values))

Array(values) == Filled(node_create(<<>>, "array", <<>>), values)
Dict(keys) ==
    Filled(node_create(<<>>, "dict", <<>>),
           [i \in 1..(2 * Len(keys)) |-> IF i % 2 = 1 THEN Value("key", keys[(i + 1) \div 2])
                                         ELSE Value("uint", <<0, 0, 0, 0, 0, 0, i \div 256, i % 256>>)])

(* The calls on trees, and lists of n of them. *)
OnTrees == {"dict_set", "dict_remove", "array_append", "array_set", "array_insert", "array_remove",
            "get", "set_val", "copy", "merge", "convert", "free"}
AnyOf(n) == [i \in 1..n |-> OnTrees]
Xml == <<{"convert_xml"}>>

Only(h, calls) ==
    [heap |-> h, roots |-> [t \in MCTrees |-> IF t = "p" THEN 1 ELSE NULL], left |-> calls]
OnlyP(h, n) == Only(h, AnyOf(n))

(* An array of 16 arrays of n numbers each, no two of them equal. *)
Grid(n) ==
    LET Node(type, val, parent, prev, next, begin, end, count) ==
            [type |-> type, val |-> val, hashed |-> FALSE, table |-> <<>>, parent |-> parent,
             next |-> next, prev |-> prev, begin |-> begin, end |-> end, count |-> count]
        Row(r) == 2 + (r - 1) * (n + 1)
        Cell(a) ==
            LET r == 1 + (a - 2) \div (n + 1)
                c == (a - 2) % (n + 1)
            IN  IF c = 0
                THEN Node("array", <<>>, 1, IF r = 1 THEN -1 ELSE Row(r - 1),
                          IF r = 16 THEN NULL ELSE Row(r + 1), a + 1, a + n, n)
                ELSE Node("uint", <<0, 0, 0, 0, 0, 0, r, c>>, Row(r),
                          IF c = 1 THEN -Row(r) ELSE a - 1, IF c = n THEN NULL ELSE a + 1,
                          NULL, -a, 0)
    IN  [a \in 1..(1 + 16 * (n + 1)) |->
            IF a = 1 THEN Node("array", <<>>, NULL, NULL, NULL, Row(1), Row(16), 16) ELSE Cell(a)]

(* XML: text that needs entities, data of several lines, times before and *)
(* after 1970 and 2008, numbers of both lengths, and reals.                *)
XmlSample == <<
    Value("string", Chars("<&\">;")), Value("data", [i \in 1..130 |-> i]),
    Value("date", Zeros(8)), Value("date", <<193, 205, 40, 140, 255, 192, 0, 0>>),
    Value("date", <<65, 180, 254, 243, 127, 128, 0, 0>>),
    Value("uint", Zeros(8) \o <<127, 255, 255, 255, 255, 255, 255, 255>>),
    Value("uint", Zeros(8) \o <<128, 0, 0, 0, 0, 0, 0, 0>>),
    Value("uint", <<128, 0, 0, 0, 0, 0, 0, 0>>), Value("real", Zeros(8)),
    Value("real", <<191, 224, 0, 0, 0, 0, 0, 0>>), Value("data", <<1>>), Value("dict", <<>>) >>

(* The doubles that documents hold, by their values. *)
Real(negative, whole, fraction) ==
    [negative |-> negative, whole |-> whole, fraction |-> fraction]
MCReals == (Zeros(8) :> Real(FALSE, 0, 0))
           @@ (<<63, 185, 153, 153, 153, 153, 153, 154>> :> Real(FALSE, 0, 1000000))
           @@ (<<63, 248, 0, 0, 0, 0, 0, 0>> :> Real(FALSE, 1, 5000000))
           @@ (<<192, 0, 0, 0, 0, 0, 0, 0>> :> Real(TRUE, 2, 0))
           @@ (<<191, 224, 0, 0, 0, 0, 0, 0>> :> Real(TRUE, 0, 5000000))

Document(text, means) == [text |-> text, means |-> means]
InPlist(s) == Chars("<plist>") \o s \o Chars("</plist>")
Text(s) == Value("string", Chars(s))
Number(n) == Value("uint", <<0, 0, 0, 0, 0, 0, 0, n>>)
Pairs(items) == [type |-> "dict", items |-> items]
Listed(items) == [type |-> "array", items |-> items]

(* Texts that are refused, each for another reason. *)
BadTexts == { Chars(s) : s \in {
    "<plist>", "<plist></plist>", "<plist/>     ", "       <", "plist    ", "<?xml version", "<!-- --   ",
    "<!DOCTYPE x", "<!DOCTYPE x [<!>", "<!ELEMENT x>", "<array   ", "<array <", "<array a=\"> ",
    "<plist><dict><true/></dict></plist>", "<array><true></array>", "<array><true/></dict>",
    "<array><x/></array>", "<array>text</array>", "<array><true/>", "</array>", "<plist></array>",
    "<array><string>a<b/></string></array>", "<array><string>a</key></array>",
    "<array><string>a<!-- </string>", "<array><string><![CDATA[a</string>",
    "<array><string>a<!x></string>", "<array><string>a</string b></array>",
    "<array><string>&bad;</string></array>", "<array><string>&lt</string></array>",
    "<array><string>&;a</string></array>", "<array><string>&#x;</string></array>",
    "<array><string>&#0;</string></array>", "<array><string>&#12a;</string></array>",
    "<array><string>&#x110000;</string></array>", "<array><string>&#00000065;</string></array>"} }

MCDocuments ==
    { Document(XML_PLIST_PROLOG
               \o Chars("<!-- <dict> --><dict><key>a</key><true/><!-- --><key>b</key>")
               \o Chars("<dict><key>a</key><array><key>a</key></array></dict><key>a</key><false></false>")
               \o Chars("<key>d</key><array></array></dict> <x>"),
               Pairs(<< <<Chars("a"), Value("bool", FALSE)>>,
                        <<Chars("b"), Pairs(<< <<Chars("a"), Listed(<<Text("a")>>)>> >>)>>,
                        <<Chars("d"), Listed(<<>>)>> >>)),
      Document(Chars("<!DOCTYPE plist SYSTEM \">\" [<!ENTITY x \"]>\">]><plist><array a=\">/\" >")
               \o Chars("<integer>0x1f</integer><integer>-1</integer><integer> +017 </integer><integer/>")
               \o Chars("<integer>9223372036854775808</integer><integer><!-- 2 -->3</integer>")
               \o Chars("<real>1.5</real><real>-2</real><real/><string/><data/></array >"),
               Listed(<<Number(31), Value("uint", [i \in 1..8 |-> 255]), Number(15), Number(0),
                        Value("uint", Zeros(8) \o <<128>> \o Zeros(7)), Number(3),
                        Value("real", <<63, 248, 0, 0, 0, 0, 0, 0>>),
                        Value("real", <<192, 0, 0, 0, 0, 0, 0, 0>>), Value("real", Zeros(8)),
                        Text(""), Value("data", <<>>)>>)),
      Document(InPlist(Chars("<array><plist><string>&lt;&gt;&amp;&apos;&quot;&#65;</string></plist><string> ")
               \o Chars("&#xE9;&#x20aC;&#x1F3B5;<![CDATA[&lt;]]>&<!-- & -->;</string></array>")),
               Listed(<<Text("<>&'\"A"),
                        Value("string", <<32, 195, 169, 226, 130, 172, 240, 159, 142, 181>>
                                        \o Chars("&lt;&;"))>>)),
      Document(InPlist(Chars("<array><data> AQID") \o <<NEWLINE, TAB>>
               \o Chars("B A*UG Bw== </data><data><![CDATA[/w==]]></data>")
               \o Chars("<date>2012-02-29T23:59:59Z</date><date> 1969-12-31T00:00:01Z</date>")
               \o Chars("<date/><date>2000-01-01T</date></array>")),
               Listed(<<Value("data", <<1, 2, 3, 4, 5, 6, 7>>), Value("data", <<255>>),
                        Value("date", <<65, 180, 254, 243, 127, 0, 0, 0>>),
                        Value("date", <<193, 205, 40, 140, 255, 128, 0, 0>>),
                        Value("date", Zeros(8)), Value("date", <<193, 126, 40, 80, 0, 0, 0, 0>>)>>)),
      Document(Chars("<string>a</string><dict>"), Text("a")) }
    \cup {Document(s, Absent) : s \in BadTexts}

(* Arrays in arrays, with a text of data in the innermost. *)
RECURSIVE Deep(_, _)
Deep(h, n) ==
    IF n = 0 THEN node_attach(node_create(h, "data", [i \in 1..20 |-> 7 * i]), Len(h), New(h))
    ELSE Deep(node_attach(node_create(h, "array", <<>>), Len(h), New(h)), n - 1)

(* A string that takes more room than was estimated, in every remainder of *)
(* a page, and data after it.                                              *)
Tight(n) == <<Value("string", [i \in 1..n |-> LESS]), Value("data", [i \in 1..(40 + n) |-> i])>>

(* A dictionary above the border of the table, one below it beside an      *)
(* empty one, arrays; the sample; containers of 14 items and of more,      *)
(* whose size is written otherwise, and 257 objects, whose references are  *)
(* longer.  XML for the samples, for trees that calls have changed and     *)
(* that calls will change; documents.                                      *)
MCInitial ==
    { OnlyP(node_create(<<>>, "dict", <<>>), 4),
      OnlyP(Array(<<Value("uint", One)>>), 3),
      [heap |-> node_create(Dict(<< <<97>>, <<98>> >>), "dict", <<>>),
       roots |-> [t \in MCTrees |-> IF t = "p" THEN 1 ELSE 6], left |-> AnyOf(3)],
      OnlyP(Array(Sample), 1), OnlyP(Array(SubSeq(Sample, 1, 14)), 2),
      OnlyP(Dict([i \in 1..14 |-> <<96 + i>>]), 2),
      OnlyP(Grid(15), 1),
      Only(Array(Sample), Xml), Only(Array(XmlSample), Xml),
      Only(Deep(node_create(<<>>, "array", <<>>), 9), Xml),
      Only(Dict(<< <<97>> >>), AnyOf(1) \o Xml \o AnyOf(1)),
      Only(Array(<<Value("dict", <<>>)>>), AnyOf(2) \o Xml),
      Only(node_create(<<>>, "array", <<>>), <<{"free"}, {"read"}>> \o AnyOf(1)) }
    \cup {Only(Array(Tight(n)), Xml) : n \in 8..23}
=============================================================================
