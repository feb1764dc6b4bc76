------------------------- MODULE MCHttpConnection --------------------------
(* The instances of HttpConnection that TLC checks. *)
EXTENDS HttpConnection

(* Every kind but /hello. *)
AllButHello == {"get", "missing", "post", "form", "nolength", "badline",
                "badheader"}

(* The kinds whose handling the liveness properties tell apart. *)
Answerable == {"get", "post"}

WithHello == {"get", "hello"}
============================================================================
