--------------------------- MODULE MCAccessVerifier ---------------------------
(***************************************************************************)
(* Instances of AccessVerifier for TLC.                                    *)
(***************************************************************************)
EXTENDS AccessVerifier, TLC

CONSTANTS k1, k2, q1, q2, q3

TwoKeys == {k1, k2}
ThreeRequests == {q1, q2, q3}

Token(k, exp, nbf, sound, genuine) ==
  [kid |-> k, exp |-> exp, nbf |-> nbf, sound |-> sound, genuine |-> genuine]

\* Short-lived and long-lived tokens of both keys, one that is not valid yet, and
\* one of each kind that is refused for what it says or for its signature.
SomeTokens ==
  {Token(k1, 2, 0, TRUE, TRUE), Token(k1, 9, 0, TRUE, TRUE), Token(k2, 9, 3, TRUE, TRUE),
   Token(k2, 9, 0, TRUE, FALSE), Token(k1, 0, 0, TRUE, TRUE), Token(k1, 9, 0, FALSE, TRUE)}

\* Requests are interchangeable.
Symmetry == Permutations(Requests)

=============================================================================
