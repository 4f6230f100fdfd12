---------------------------- MODULE MCRateLimit ----------------------------
(* Instances of RateLimit for TLC. *)
EXTENDS RateLimit

CONSTANTS ann, bea, proxy

\* Nothing, another client's address, a proxy's, and an empty item before it.
Chains == {<<>>, <<bea>>, <<proxy>>, <<ann, Blank>>}

\* At most one more proxy between the first and the server.
ShortHops == {<<>>, <<proxy>>}
=============================================================================
