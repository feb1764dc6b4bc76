---------------------------- MODULE MCHttpParser ----------------------------
(* The requests TLC sends through HttpParser. *)
EXTENDS HttpParser

Request(how, path, query, version, hs, body) ==
  [method |-> how, path |-> path, query |-> query, version |-> version,
   headers |-> hs, body |-> body]

Host      == <<"host", "name">>
KeepAlive == <<"connection", "keep-alive">>
Length(n) == <<"content-length", n>>

Requests == {
  Request("GET", <<"api/health">>, TRUE, "1.1", <<Host, KeepAlive>>, <<>>),
  Request("HEAD", <<>>, FALSE, "1.0", <<Host>>, <<>>),
  Request("GET", <<>>, TRUE, "1.1", <<Host>>, <<>>),
  Request("POST", <<"api/chat">>, FALSE, "1.1", <<Length("2"), Host>>, <<"a", "b">>),
  Request("POST", <<"api/metrics">>, FALSE, "1.1", <<Host, Length("1"), KeepAlive>>, <<"a">>),
  Request("POST", <<"hello">>, FALSE, "1.1", <<Length("0")>>, <<>>),
  Request("GET", <<"hello">>, FALSE, "1.1", <<KeepAlive, <<"host", NoValue>>>>, <<>>),
  Request("GET", <<"favicon.ico">>, FALSE, "1.1", <<>>, <<>>) }
=============================================================================
