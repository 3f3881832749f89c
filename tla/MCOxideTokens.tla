--------------------------- MODULE MCOxideTokens ---------------------------
(* OxideTokens for TLC: two silos, one with two spellings in the manifest   *)
(* under different credentials and one that is not there, and durations on  *)
(* both sides of every limit.                                               *)
EXTENDS OxideTokens, TLC

MCUrls == {"a/", "A", "a:443", "b/", "B"}
MCCanonical == [url \in MCUrls |-> IF url \in {"b/", "B"} THEN "b/" ELSE "a/"]
MCManifest == ("A" :> "k1") @@ ("a:443" :> "k2")

Ask(silo, duration) == [silo |-> silo, duration |-> duration]
MCSiloRequests ==
  {Ask("A", 1), Ask("a/", 2), Ask("a:443", 0), Ask("a/", 3), Ask("B", 1)}

Symmetry == Permutations(Handlers) \cup Permutations(Codes)
============================================================================
