---------------------------- MODULE HttpRequest -----------------------------
(***************************************************************************)
(* The HTTP request parser (net/HttpRequeset.h, net/HttpRequeset.cc).      *)
(*                                                                         *)
(* A message is a sequence of symbols: a separator, or a run of characters *)
(* that the parser treats alike ("GE" and "T" are two runs of capitals, so *)
(* that a method can be cut in two).  A text is a sequence of symbols; a   *)
(* symbol of a body counts as one byte.                                    *)
(***************************************************************************)
EXTENDS Integers, Sequences, TLC

Blanks == {"SP", "TAB"}
Capitals == {"GE", "T", "PO", "ST"}         \* only characters isupper() takes
Capitalised == {"HTTP/1.1", "HTTP/1.0", "Connection", "Content-Length",
                "Keep-Alive"}               \* begin with one, have others
Paths == {"/a", "/"}                        \* begin with a slash

Unset == "unset"        \* an enum member no constructor initialised
Garbage == "garbage"    \* a byte behind the end of the message

(* setMethod(), setVersion(): of the methods setMethod() knows, the two    *)
(* that the clients here use; no decision of the server looks at it.       *)
MethodOf(text) ==
    CASE text = <<"GE", "T">>  -> "GET"
      [] text = <<"PO", "ST">> -> "POST"
      [] OTHER                 -> "INVALID"

VersionOf(text) ==
    CASE text = <<"HTTP/1.1">> -> "Http11"
      [] text = <<"HTTP/1.0">> -> "Http10"
      [] OTHER                 -> "Unknown"

(* stoi(), for the numbers clients send.                                   *)
NumberOf(text) == CHOOSE n \in 0 .. 9 : text = <<ToString(n)>>

NoTexts == [k \in {} |-> <<>>]

(* insert() of an unordered_map: a key that is there keeps its value.      *)
Inserted(map, key, val) ==
    [k \in DOMAIN map \cup {key} |-> IF k \in DOMAIN map THEN map[k] ELSE val]

(* A request before parse(), and parse()'s local variables.                *)
Blank ==
    [m_state |-> "START", m_method |-> Unset, m_version |-> Unset,
     m_path |-> <<>>, m_params |-> NoTexts, m_heads |-> NoTexts,
     m_body |-> <<>>,
     begin |-> 1, key |-> <<>>, bodyLength |-> 0]

Final == {"INVALID", "INVALID_HEADER", "INVALID_METHOD", "INVALID_PATH",
          "INVALID_VERSION", "END"}

-----------------------------------------------------------------------------
(* One round of the loop, at symbol i of msg.                              *)

Goto(q, state) == [q EXCEPT !.m_state = state]
Mark(q, i, state) == [q EXCEPT !.m_state = state, !.begin = i]
Text(q, msg, i) == SubSeq(msg, q.begin, i - 1)

(* START to PARAM_VALUE                                                    *)
RequestLine(q, msg, i) ==
    LET c == msg[i]
        text == Text(q, msg, i)
        blank == c \in Blanks
    IN CASE q.m_state = "START" ->
              IF blank \/ c \in {"CR", "LF"} THEN q
              ELSE IF c \in Capitals THEN Mark(q, i, "METHOD")
              ELSE IF c \in Capitalised THEN Mark(q, i, "INVALID_METHOD")
              ELSE Goto(q, "INVALID")
         [] q.m_state = "METHOD" ->
              IF c \in Capitals THEN q
              ELSE IF blank
                   THEN Mark([q EXCEPT !.m_method = MethodOf(text)], i,
                             "BEFORE_PATH")
              ELSE Goto(q, "INVALID_METHOD")
         [] q.m_state = "BEFORE_PATH" ->
              IF blank THEN q
              ELSE IF c \in Paths THEN Mark(q, i, "PATH")
              ELSE Goto(q, "INVALID_PATH")
         [] q.m_state = "PATH" ->
              IF blank \/ c = "?"
              THEN Goto([q EXCEPT !.m_path = text],
                        IF blank THEN "BEFORE_VERSION" ELSE "BEFORE_PARAM_KEY")
              ELSE q
         [] q.m_state \in {"BEFORE_PARAM_KEY", "BEFORE_PARAM_VALUE"} ->
              IF blank \/ c \in {"CR", "LF"} THEN Goto(q, "INVALID_PATH")
              ELSE Mark(q, i, IF q.m_state = "BEFORE_PARAM_KEY"
                              THEN "PARAM_KEY" ELSE "PARAM_VALUE")
         [] q.m_state = "PARAM_KEY" ->
              IF c = "=" THEN Goto([q EXCEPT !.key = text], "BEFORE_PARAM_VALUE")
              ELSE IF blank THEN Goto(q, "INVALID_PATH")
              ELSE q
         [] q.m_state = "PARAM_VALUE" ->
              IF blank \/ c = "&"
              THEN Goto([q EXCEPT !.m_params = Inserted(@, q.key, text)],
                        IF blank THEN "BEFORE_VERSION" ELSE "BEFORE_PARAM_KEY")
              ELSE q

(* BEFORE_VERSION, VERSION                                                 *)
Version(q, msg, i) ==
    CASE q.m_state = "BEFORE_VERSION" ->
              IF msg[i] \in Blanks THEN q ELSE Mark(q, i, "VERSION")
      [] q.m_state = "VERSION" ->
              IF msg[i] = "CR"
              THEN Goto([q EXCEPT !.m_version = VersionOf(Text(q, msg, i))], "W_CR")
              ELSE q

(* Mutant of Headers: a break at the end of BEFORE_HEADER_VALUE.           *)
Headers_Break(q, msg, i) ==
    LET c == msg[i] IN
    CASE q.m_state = "HEADER_KEY" ->
              IF c = ":" THEN Goto([q EXCEPT !.key = Text(q, msg, i)],
                                   "BEFORE_HEADER_VALUE")
              ELSE q
      [] q.m_state = "BEFORE_HEADER_VALUE" ->
              IF c \in Blanks THEN q ELSE Mark(q, i, "HEADER_VALUE")
      [] q.m_state = "HEADER_VALUE" ->
              IF c = "CR"
              THEN Goto([q EXCEPT !.m_heads = Inserted(@, q.key, Text(q, msg, i))],
                        "W_CR")
              ELSE q

(* HEADER_KEY to HEADER_VALUE.  BEFORE_HEADER_VALUE has no break and goes  *)
(* on into the next case, which ends an empty value at once.               *)
Headers(q, msg, i) ==
    LET c == msg[i]
        r == IF q.m_state = "BEFORE_HEADER_VALUE" /\ c \notin Blanks
             THEN Mark(q, i, "HEADER_VALUE") ELSE q
    IN CASE q.m_state = "HEADER_KEY" ->
              IF c = ":" THEN Goto([q EXCEPT !.key = Text(q, msg, i)],
                                   "BEFORE_HEADER_VALUE")
              ELSE q
         [] q.m_state \in {"BEFORE_HEADER_VALUE", "HEADER_VALUE"} ->
              IF c = "CR"
              THEN Goto([r EXCEPT !.m_heads = Inserted(@, r.key, Text(r, msg, i))],
                        "W_CR")
              ELSE r

(* Mutant of LineEndsAndBody: behind a request without a body the parser   *)
(* starts again instead of ending.                                         *)
LineEndsAndBody_Again(q, msg, i) ==
    LET c == msg[i] IN
    CASE q.m_state = "W_CR" ->
              Goto(q, IF c = "LF" THEN "W_CR_LF" ELSE "INVALID")
      [] q.m_state = "W_CR_LF" ->
              IF c = "CR" THEN Goto(q, "W_CR_LF_CR")
              ELSE IF c \in Blanks THEN Goto(q, "INVALID")
              ELSE Mark(q, i, "HEADER_KEY")
      [] q.m_state = "W_CR_LF_CR" ->
              IF c # "LF" THEN q
              ELSE IF <<"Content-Length">> \in DOMAIN q.m_heads
                   THEN LET n == NumberOf(q.m_heads[<<"Content-Length">>]) IN
                        Goto([q EXCEPT !.bodyLength = n],
                             IF n > 0 THEN "BODY" ELSE "START")
                   ELSE Goto([q EXCEPT !.bodyLength = Len(msg) - i], "BODY")
      [] q.m_state = "BODY" ->
              Goto([q EXCEPT !.m_body = [j \in 1 .. q.bodyLength |->
                                            IF i + j - 1 <= Len(msg)
                                            THEN msg[i + j - 1] ELSE Garbage]],
                   "END")

(* W_CR to W_CR_LF_CR, and BODY, which takes bodyLength bytes from where   *)
(* it is, however many there are.                                          *)
LineEndsAndBody(q, msg, i) ==
    LET c == msg[i] IN
    CASE q.m_state = "W_CR" ->
              Goto(q, IF c = "LF" THEN "W_CR_LF" ELSE "INVALID")
      [] q.m_state = "W_CR_LF" ->
              IF c = "CR" THEN Goto(q, "W_CR_LF_CR")
              ELSE IF c \in Blanks THEN Goto(q, "INVALID")
              ELSE Mark(q, i, "HEADER_KEY")
      [] q.m_state = "W_CR_LF_CR" ->
              IF c # "LF" THEN q
              ELSE IF <<"Content-Length">> \in DOMAIN q.m_heads
                   THEN LET n == NumberOf(q.m_heads[<<"Content-Length">>]) IN
                        Goto([q EXCEPT !.bodyLength = n],
                             IF n > 0 THEN "BODY" ELSE "END")
                   ELSE Goto([q EXCEPT !.bodyLength = Len(msg) - i], "BODY")
      [] q.m_state = "BODY" ->
              Goto([q EXCEPT !.m_body = [j \in 1 .. q.bodyLength |->
                                            IF i + j - 1 <= Len(msg)
                                            THEN msg[i + j - 1] ELSE Garbage]],
                   "END")

Round(q, msg, i) ==
    CASE q.m_state \in Final -> q
      [] q.m_state \in {"START", "METHOD", "BEFORE_PATH", "PATH",
                        "BEFORE_PARAM_KEY", "PARAM_KEY", "BEFORE_PARAM_VALUE",
                        "PARAM_VALUE"} ->
              RequestLine(q, msg, i)
      [] q.m_state \in {"BEFORE_VERSION", "VERSION"} -> Version(q, msg, i)
      [] q.m_state \in {"HEADER_KEY", "BEFORE_HEADER_VALUE", "HEADER_VALUE"} ->
              Headers(q, msg, i)
      [] OTHER -> LineEndsAndBody(q, msg, i)

(* parse()                                                                 *)
parse(msg) ==
    LET after[i \in 0 .. Len(msg)] ==
            IF i = 0 THEN Blank ELSE Round(after[i - 1], msg, i)
    IN after[Len(msg)]

(* getHeader()                                                             *)
getHeader(q, key) == IF key \in DOMAIN q.m_heads THEN q.m_heads[key] ELSE <<>>

=============================================================================
