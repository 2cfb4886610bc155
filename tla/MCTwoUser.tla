----------------------------- MODULE MCTwoUser -----------------------------
\* A symbol of four samples, two items each: a quarter of it is one sample, an item half of one.
\* The payload is longer than a preamble by more than three symbols: the second frame may begin
\* anywhere in the first, at its start, in its preamble, its payload, right behind it or later,
\* and its payload anywhere in the first's.
EXTENDS TwoUser
MCStarts == {<<s, s + d>> : s \in {0, 3}, d \in 0 .. 150}
MCOverlaps == {<<0, d>> : d \in 50 .. 129}
\* Stronger, weaker but accepted, refused.
MCPowers == {<<5, 6>>, <<5, 3>>, <<5, 1>>}
MCStronger == {<<5, 6>>}
=============================================================================
