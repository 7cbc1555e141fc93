------------------------ MODULE MCCurrentVersionRead ------------------------
(* Instances of CurrentVersionRead for TLC.                                   *)
EXTENDS CurrentVersionRead, FiniteSets, TLC

Starts == {r \in Requests : req[r].op = "start"}
BoundTokens == {t \in Tokens : tokens[t] # NoTokenRow}
TokensInUse == BoundTokens \cup ({req[r].token : r \in Starts} \ {NoToken})
FingerprintsInUse == {tokens[t].fingerprint : t \in BoundTokens} \cup {req[r].fingerprint : r \in Starts}

\* Two requests at a time without readers, one token and one fingerprint in use; or one request at
\* a time with every token, fingerprint and reader.
InScope ==
  \/ /\ Cardinality(TokensInUse) <= 1 /\ Cardinality(FingerprintsInUse) <= 1
     /\ \A d \in Readers : read[d] = NoRead
  \/ Cardinality({r \in Requests : req[r] # Idle}) <= 1

Symmetry == Permutations(Versions) \cup Permutations(Requests)
            \cup Permutations(Tokens) \cup Permutations(Fingerprints)
=============================================================================
