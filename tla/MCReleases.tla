----------------------------- MODULE MCReleases -----------------------------
(***************************************************************************)
(* Instances of Releases for TLC.                                          *)
(***************************************************************************)
EXTENDS Releases, TLC

CONSTANTS v1, v2, good, better, foreign, unparsed, adhoc, script, u1, u2, u3, h1

TwoVersions == {v1, v2}
ThreeUploads == {u1, u2, u3}
OneHost == {h1}

Root == [ca |-> TRUE, cn |-> "Root CA"]
Cert(cn) == [ca |-> FALSE, cn |-> cn]
Slice(signed, team, cms, certs) == [signed |-> signed, team |-> team, cms |-> cms, certs |-> certs]

Signed(cn) == Slice(TRUE, "T", "ok", <<Root, Cert(cn)>>)

\* Two binaries signed as required (a thin and a universal one), one signed by
\* someone else, one with a signature that cannot be parsed, one signed ad hoc, and no binary.
Forms ==
  (good :> <<Signed("Developer")>>) @@
  (better :> <<Signed("Developer"), Signed("Developer")>>) @@
  (foreign :> <<Signed("Other")>>) @@
  (unparsed :> <<Slice(TRUE, "T", "bad", <<>>)>>) @@
  (adhoc :> <<Slice(TRUE, "", "none", <<>>)>>) @@
  (script :> <<>>)

AllBinaries == {good, better, foreign, unparsed, adhoc, script}

\* Uploads are interchangeable, and so are versions.
Symmetry == Permutations(Uploads) \cup Permutations(Versions)

=============================================================================
