---------------------------- MODULE MCStreamPipe ----------------------------
(* Requests of up to three messages, answers of up to three frames. *)
EXTENDS StreamPipe

Roles == {"system", "user", "assistant"}
Both == {"streaming", "non_streaming"}

\* What a message may say; the number makes its pieces its own.
Say(n) == {<<0>>, <<10 * n>>, <<10 * n, 0, 10 * n + 1>>}

Talks ==
  {<<>>, <<[role |-> "developer", content |-> <<10>>]>>} \cup
  UNION {{[i \in 1..k |-> [role |-> r[i], content |-> c[i]]] :
            r \in [1..k -> Roles], c \in {f \in [1..k -> UNION {Say(i) : i \in 1..k}] :
                                            \A i \in 1..k : f[i] \in Say(i)}} : k \in 1..3}

Hello == <<[role |-> "user", content |-> <<10>>]>>

Req(p, forms, stream, key, msgs) ==
  [protocol |-> p, supports |-> forms, stream |-> stream, key |-> key, messages |-> msgs]

MCEntries ==
  {Req("gemini", Both, TRUE, "map", m) : m \in Talks}
  \cup {Req("gemini", Both, FALSE, k, Hello) : k \in {"map", "none"}}
  \cup {Req("anthropic", Both, s, k, Hello) : s \in BOOLEAN, k \in {"string", "map"}}
  \cup {Req("gemini", {f}, s, "map", Hello) : f \in Both, s \in BOOLEAN}

Usage(p, c, t) == <<[prompt |-> p, candidates |-> c, thoughts |-> t, total |-> p + c + t]>>
Frame(data, text, fin, block, usage) ==
  [data |-> data, text |-> text, finish |-> fin, block |-> block, usage |-> usage]
Silent(data) == Frame(data, <<>>, "none", FALSE, <<>>)

\* A piece of text in the middle, what a stream may end with, and a blocked one.
Pieces(i) == {Frame("json", <<i>>, "none", FALSE, u) : u \in {<<>>, Usage(3, 1, 0)}}
             \cup {Silent("json"), Silent("bad"), Silent("empty")}
Ends(i) == {Frame("json", t, f, FALSE, Usage(3, 2, 5)) : t \in {<<>>, <<i>>}, f \in {"none", "STOP", "MAX_TOKENS", "SAFETY"}}
Blocked == <<Frame("json", <<>>, "none", TRUE, Usage(3, 0, 0))>>

Streams == {<<>>, Blocked, <<Silent("json")>> \o Blocked}
           \cup {<<a, b, c>> : a \in Pieces(1), b \in Pieces(2), c \in Ends(3)}
           \cup {<<a, b>> : a \in Pieces(1), b \in Pieces(2)}

Ans(status, sse, typed, frames, broken, body) ==
  [status |-> status, sse |-> sse, typed |-> typed, frames |-> frames, broken |-> broken, body |-> body]
Json == [kind |-> "json", text |-> "none", type |-> "none", code |-> 0]
Err(kind, type, code) == [kind |-> kind, text |-> "words", type |-> type, code |-> code]

MCAnswers ==
  {Ans(200, TRUE, TRUE, s, Len(s) = 2, NoBody) : s \in Streams}
  \cup {Ans(200, FALSE, t, <<Frame("json", <<1>>, "STOP", FALSE, <<>>)>>, FALSE, b) : t \in BOOLEAN, b \in {Json, Err("other", "none", 0)}}
  \cup {Ans(429, s, TRUE, <<>>, FALSE, b) : s \in BOOLEAN, b \in {Err("error", "QUOTA", 8), Err("error", "none", 0), Err("other", "none", 0)}}
=============================================================================
