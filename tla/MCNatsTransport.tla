---------------------------- MODULE MCNatsTransport ----------------------------
(* Small instances of NatsTransport for TLC. *)
EXTENDS NatsTransport, TLC

CONSTANTS a, b, x, y, w1, w2, w3

\* Two messages, of two types.
TwoTypes == x :> a @@ y :> b

\* A deploy: the new version handles one type more; or the two versions each
\* handle their own. The third instance handles none.
Growing == w1 :> {a} @@ w2 :> {a, b}
ApartAndNone == w1 :> {a} @@ w2 :> {b} @@ w3 :> {}

===============================================================================
