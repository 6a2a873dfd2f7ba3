-------------------------- MODULE MCInMemoryTransport --------------------------
(* Small instances of InMemoryTransport for TLC. *)
EXTENDS InMemoryTransport, TLC

CONSTANTS a, b, m1, m2, e1, e2, s1, s2, s3

\* Two messages, of two types.
TwoTypes == m1 :> a @@ m2 :> b

\* Two streams share an endpoint; a third has one of its own.
SharedAndOne == s1 :> e1 @@ s2 :> e1 @@ s3 :> e2

\* Of the streams that share one the second has a type more; the third has none.
Growing == s1 :> {a} @@ s2 :> {a, b} @@ s3 :> {}

===============================================================================
