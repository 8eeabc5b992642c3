--------------------------- MODULE MCRedisPending ---------------------------
(* Small instances of RedisPending for TLC.  A tick is a fraction of the    *)
(* confirmation window: with Ttl = 2 an answer can come early, at the last  *)
(* moment or late, with Grace = 1 it can also come after the meta key died. *)
EXTENDS RedisPending, TLC

\* Owners, change ids and requests are interchangeable; the specification and
\* the properties mention none of them by name and choose nothing among them.
Symmetric == Permutations(Owners) \cup Permutations(Changes) \cup Permutations(Handlers)
=============================================================================
