---- MODULE MCHttpExchange ----
EXTENDS HttpExchange

Crlf == "\r\n"
End  == " RTSP/1.0\r\n"

Message(w, m, u, h, d) ==
    [wire |-> w, means |-> [method |-> m, url |-> u, headers |-> h, data |-> d]]
Refused(w) == [wire |-> w, means |-> Malformed]

(* One message for every method of the table, and one of each kind the     *)
(* parser has states for.                                                  *)
Methods ==
    {FirstGuess[c] : c \in DOMAIN FirstGuess} \union {x[4] : x \in Corrections}

OfMethod(m) == Message(m \o " /a" \o End \o "CSeq: 1\r\n\r\n",
                       m, "/a", <<"CSeq", "1">>, "")
OfConnect == Message("CONNECT h:1" \o End \o "CSeq: 1\r\n\r\n",
                     "CONNECT", "h:1", <<"CSeq", "1">>, "")

Bodies ==
    {Message("POST /fp-setup" \o End \o "Content-Length: 12\r\nCSeq: 9\r\n\r\nab\r\n\r\nGET /x",
             "POST", "/fp-setup", <<"Content-Length", "12", "CSeq", "9">>,
             "ab\r\n\r\nGET /x"),
     Message("POST /feedback" \o End \o "CSeq:4\r\ncontent-length:  0 \r\n\r\n",
             "POST", "/feedback", <<"CSeq", "4", "content-length", "0 ">>, ""),
     Message("SETUP rtsp://h/1" \o End \o "Transfer-Encoding: Chunked\r\n\r\n"
             \o "3;x\r\nabc\r\nA\r\n0\r\n2345678\r\n0\r\nT: u\r\n\r\n",
             "SETUP", "rtsp://h/1", <<"Transfer-Encoding", "Chunked", "T", "u">>,
             "abc0\r\n2345678"),
     Message("\r\nPUT /" \o End \o "Connection: close, upgrade\r\nUpgrade: x\r\n"
             \o "Content-Length: 2\r\n\r\nyz",
             "PUT", "/", <<"Connection", "close, upgrade", "Upgrade", "x",
                           "Content-Length", "2">>, "yz")}

Headers ==
    {Message("GET rtsp://u@h/p?q?#f" \o "  HTTP/1.1\nA:\nB: c,\n d\n\n",
             "GET", "rtsp://u@h/p?q?#f", <<"A", "", "B", "c, d">>, ""),
     Message("OPTIONS *\r\n\r\n", "OPTIONS", "*", <<>>, ""),
     Message("GET /info" \o End \o "CSeq:\r\n\r\n", "GET", "/info", <<"CSeq", "">>, ""),
     Message("FLUSH //a" \o End \o "Connection: foo, keep-alive, \r\n kee, cx\r\nConnectio: \r\n \r\n\r\n",
             "FLUSH", "//a", <<"Connection", "foo, keep-alive,  kee, cx", "Connectio", "">>, ""),
     Message("PUT /a_[\t#\f" \o End \o "Upgrade: y\r\nConnection: _,\tupgrade\r\n"
             \o "a_^: ^\t\r\nContent-Length: 1\r\n\r\nb",
             "PUT", "/a_[\t#\f", <<"Upgrade", "y", "Connection", "_,\tupgrade", "a_^", "^\t",
                                 "Content-Length", "1">>, "b"),
     Message("GET h?a#b?" \o End \o "Upgrade: y\r\nConnection: Upgrade \r\nConn: z\r\n\r\n",
             "GET", "h?a#b?", <<"Upgrade", "y", "Connection", "Upgrade ", "Conn", "z">>, "")}

Errors ==
    {Refused("GETT / H"), Refused("<"), Refused("GET <"), Refused("GET a:b"), Refused("GET / X"),
     Refused("GET / HTTP/x"), Refused("GET / HTTP/1.1x"), Refused("GET /\rx"),
     Refused("GET /\n(:"), Refused("GET /\na("), Refused("GET /\na: b\rx"),
     Refused("GET /\nContent-Length: x"),
     Refused("GET /\nContent-Length: 1 2"),
     Refused("GET /\nContent-Length: 300"),
     Refused("GET /\nContent-Length: 1\nContent-Length: 1"),
     Refused("GET /\nContent-Length: 1\nTransfer-Encoding: chunked\n\nx"),
     Refused("GET /\nTransfer-Encoding: chunked\n\nx"),
     Refused("GET /\nTransfer-Encoding: chunked\n\n1x"),
     Refused("GET /\nTransfer-Encoding: chunked\n\n111")}

First == {OfMethod(m) : m \in Methods \ {"CONNECT"}} \union {OfConnect}
            \union Bodies \union Headers \union Errors
MCMessages == <<First, Bodies \union Headers>>
MCBodySizes == {0, 1, 32, 142, 800, 1024, 5000}
\* A usual number, the longest with room for everything, and one that does not fit
\* the allocation of the small piece after it.
MCCSeqLengths == {1, 848, 2100}
====
