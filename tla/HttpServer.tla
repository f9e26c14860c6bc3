----------------------------- MODULE HttpServer -----------------------------
(***************************************************************************)
(* One connection of an HTTP server (net/HttpServer.cc, HttpResponse.cc)   *)
(* and its client.  The client sends requests, TCP delivers their bytes in *)
(* pieces of its own choosing, and the server gives every piece to a new   *)
(* parser, asks the application and sends one response per piece.          *)
(*                                                                         *)
(* Requests are what clients may ask; MaxRequests and MaxReads bound how   *)
(* many a client sends and how many pieces arrive.  asked and aligned are  *)
(* not in the code: what the client asked and has not been answered, and   *)
(* whether every piece so far was one whole request.                       *)
(***************************************************************************)
EXTENDS HttpRequest, SequencesExt

CONSTANTS
    Symbols,        \* that clients write
    Requests,
    MaxRequests,
    MaxReads

VARIABLES
    unread,     \* symbols sent and not read
    sent,       \* how many requests the client sent
    reads,
    m_state,    \* of the TcpConnection: no send() after shutdown()
    replies,    \* the responses sent, what each says of its end
    handled,    \* the last piece: what the parser made of it, and of which
                \* request it began with the line, the head or was the whole
    asked,
    aligned

vars == <<unread, sent, reads, m_state, replies, handled, asked, aligned>>

-----------------------------------------------------------------------------
(* A request as its client means it, and as the client writes it.          *)

EndOfLine == <<"CR", "LF">>

HeaderText(h) == h.key \o <<":", "SP">> \o h.val \o EndOfLine

(* "?k=v" and "&k=v" ... : the parameters, in their order.                 *)
ParamsText(params) ==
    FlattenSeq([i \in DOMAIN params |->
        <<IF i = 1 THEN "?" ELSE "&">> \o params[i].key \o <<"=">> \o params[i].val])

(* A request's first line, its head and all of it.                         *)
LineText(r) ==
    r.method \o <<"SP">> \o r.path \o ParamsText(r.params) \o <<"SP">>
        \o r.version

HeadText(r) ==
    LineText(r) \o EndOfLine
        \o FlattenSeq([i \in DOMAIN r.headers |-> HeaderText(r.headers[i])])
        \o EndOfLine

RequestText(r) == HeadText(r) \o r.body

(* The value a list of keys and values gives a key: its first.             *)
AsMap(pairs) ==
    [k \in {pairs[i].key : i \in DOMAIN pairs} |->
        pairs[CHOOSE i \in DOMAIN pairs :
                /\ pairs[i].key = k
                /\ \A j \in 1 .. i - 1 : pairs[j].key # k].val]

(* What a client may ask of this parser: a method of capitals, a path that *)
(* begins as the parser wants it, parameters that have values, no          *)
(* separator inside a text that it ends, and a Content-Length, if there is *)
(* one, that is the body's.                                                *)
Without(text, stops) == \A i \in DOMAIN text : text[i] \notin stops

Token(text, stops) ==
    text # <<>> /\ Without(text, Blanks \cup {"CR", "LF"} \cup stops)

Separators == Blanks \cup {"CR", "LF", "?", "&", "=", ":"}

Texts == Seq(Symbols)
Pairs == Seq([key : Texts, val : Texts])

WellFormed(r) ==
    /\ r \in [method : Seq(Capitals), path : Texts, params : Pairs,
              version : Texts, headers : Pairs, body : Texts]
    /\ r.method # <<>>
    /\ Token(r.path, {"?"}) /\ r.path[1] \in Paths
    /\ \A i \in DOMAIN r.params :
          Token(r.params[i].key, {"="}) /\ Token(r.params[i].val, {"&"})
    /\ Token(r.version, {})
    /\ \A i \in DOMAIN r.headers :
          LET val == r.headers[i].val
          IN /\ Token(r.headers[i].key, {":"})
             /\ Without(val, {"CR"})
             /\ val # <<>> => val[1] \notin Blanks
    /\ LET heads == AsMap(r.headers)
       IN <<"Content-Length">> \in DOMAIN heads
             => NumberOf(heads[<<"Content-Length">>]) = Len(r.body)

ASSUME HttpAssumption ==
    /\ Separators \cup Capitals \subseteq Symbols
    /\ \A r \in Requests : WellFormed(r)
    /\ MaxRequests \in Nat
    /\ MaxReads \in Nat

(* q is the request the client means by r, as far as its first line goes,  *)
(* its head and all of it.                                                 *)
LineIs(q, r) ==
    /\ q.m_method = MethodOf(r.method)
    /\ q.m_version = VersionOf(r.version)
    /\ q.m_path = r.path
    /\ q.m_params = AsMap(r.params)

HeadIs(q, r) == LineIs(q, r) /\ q.m_heads = AsMap(r.headers)

Understood(q, r) == HeadIs(q, r) /\ q.m_body = r.body

-----------------------------------------------------------------------------

Init ==
    /\ unread = <<>>
    /\ sent = 0
    /\ reads = 0
    /\ m_state = "kConnected"
    /\ replies = <<>>
    /\ handled = [request |-> Blank, line |-> {}, head |-> {}, whole |-> {}]
    /\ asked = <<>>
    /\ aligned = TRUE

(* A client may send a request before the last one is answered.            *)
SendRequest(r) ==
    /\ sent < MaxRequests
    /\ sent' = sent + 1
    /\ unread' = unread \o RequestText(r)
    /\ asked' = IF aligned THEN Append(asked, r) ELSE asked
    /\ UNCHANGED <<reads, m_state, replies, handled, aligned>>

(* HttpResponse::dump(): where the response ends, for its reader.          *)
dump(closeConnection) ==
    [length |-> ~closeConnection, close |-> closeConnection]

(* Mutant of Reply: send() does not look at the connection's state.        *)
Reply_Always(response) == replies' = Append(replies, response)

(* TcpConnection::send()                                                   *)
Reply(response) ==
    replies' = IF m_state = "kConnected" THEN Append(replies, response)
                                         ELSE replies

WantsClose(q, version) ==
    \/ getHeader(q, <<"Connection">>) = <<"close">>
    \/ version = "Http10" /\ getHeader(q, <<"Connection">>) # <<"Keep-Alive">>

(* onMessage() with the next n symbols.  version is what getVersion()      *)
(* returns: anything, when the parser did not set it.  The callback may    *)
(* have called setCloseConnection(), which close does not follow.          *)
OnMessage(n) ==
    LET request == parse(SubSeq(unread, 1, n)) IN
    /\ reads < MaxReads
    /\ reads' = reads + 1
    /\ unread' = SubSeq(unread, n + 1, Len(unread))
    /\ \E version \in IF request.m_version = Unset THEN {"Http10", "Http11"}
                       ELSE {request.m_version},
          app \in BOOLEAN :
          LET close == WantsClose(request, version)
              closeConnection == IF app THEN ~close ELSE close
          IN /\ Reply([byApp |-> app, end |-> dump(closeConnection)])
             /\ m_state' = IF close THEN "kDisconnecting" ELSE m_state
    /\ aligned' = (aligned /\ n = Len(RequestText(Head(asked))))
    /\ handled' = [request |-> request,
                   line |-> IF aligned /\ n > Len(LineText(Head(asked)))
                            THEN {Head(asked)} ELSE {},
                   head |-> IF aligned /\ n >= Len(HeadText(Head(asked)))
                            THEN {Head(asked)} ELSE {},
                   whole |-> IF aligned' THEN {Head(asked)} ELSE {}]
    /\ asked' = IF aligned' THEN Tail(asked) ELSE <<>>
    /\ UNCHANGED sent

Next ==
    \/ \E r \in Requests : SendRequest(r)
    \/ \E n \in 1 .. Len(unread) : OnMessage(n)

Spec == Init /\ [][Next]_vars

-----------------------------------------------------------------------------
(* Properties.                                                             *)

(* parse() against the grammar: as long as each message callback brings    *)
(* one whole request, the application is asked what the client meant.      *)
AlignedUnderstood ==
    \A r \in handled.whole : Understood(handled.request, r)

(* Wherever the piece ends: with the end of the request line in it, the    *)
(* method, the version, the path and the parameters are the client's, and  *)
(* with the blank line in it so are the headers, though the body may be    *)
(* missing, or the next request have begun behind it.  These are what      *)
(* `close` and the application's answer hang on.                           *)
HeadUnderstood ==
    /\ \A r \in handled.line : LineIs(handled.request, r)
    /\ \A r \in handled.head : HeadIs(handled.request, r)

(* Unless the application overrules the server, its client can tell where  *)
(* each response ends: it has a length and the connection stays, or it is  *)
(* the last and the connection is shut down behind it.                     *)
ResponsesDelimited ==
    \A k \in DOMAIN replies :
       replies[k].byApp
       \/ IF replies[k].end.length
             THEN k = Len(replies) => m_state = "kConnected"
             ELSE k = Len(replies) /\ m_state = "kDisconnecting"

=============================================================================
