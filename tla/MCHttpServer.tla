---------------------------- MODULE MCHttpServer ----------------------------
(* Requests for HttpServer: with and without parameters, headers and body, *)
(* both versions, an empty and a repeated header value.                    *)
EXTENDS HttpServer

Pair(k, v) == [key |-> <<k>>, val |-> v]
Connection(v) == Pair("Connection", v)
Length(v) == Pair("Content-Length", <<v>>)

Request(method, params, version, headers, body) ==
    [method |-> method, path |-> <<"/a">>, params |-> params,
     version |-> <<version>>, headers |-> headers, body |-> body]

GET == <<"GE", "T">>
POST == <<"PO", "ST">>

MCSymbols == Separators \cup Capitals \cup Capitalised \cup
    {"/a", "HTTP/2", "close", "k", "l", "v", "w", "b", "c", "0", "1", "2"}

MCRequests == {
    Request(GET, <<>>, "HTTP/1.1", <<>>, <<>>),
    Request(GET, <<Pair("k", <<"v">>)>>, "HTTP/1.0", <<>>, <<>>),
    Request(GET, <<Pair("k", <<"v">>), Pair("l", <<"v", "w">>), Pair("k", <<"w">>)>>,
            "HTTP/1.1", <<Connection(<<>>)>>, <<>>),
    Request(GET, <<>>, "HTTP/1.0", <<Connection(<<"Keep-Alive">>)>>, <<>>),
    Request(GET, <<>>, "HTTP/1.1", <<Connection(<<"close">>), Connection(<<"k">>)>>,
            <<>>),
    Request(POST, <<>>, "HTTP/1.0", <<>>, <<"b", "c">>),
    Request(POST, <<>>, "HTTP/1.1", <<Length("2"), Connection(<<"close">>)>>,
            <<"b", "c">>),
    Request(POST, <<>>, "HTTP/1.1", <<Connection(<<"k">>), Length("1")>>, <<"b">>),
    Request(POST, <<>>, "HTTP/2", <<Length("0")>>, <<>>)}
=============================================================================
