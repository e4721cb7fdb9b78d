--------------------------- MODULE MCAssetManager ---------------------------
(* Constants of the run of AssetManager.                                   *)
EXTENDS AssetManager

CONSTANTS r1, r2

OneFile    == {"a"}
TwoReaders == {r1, r2}

NoReader == [r \in Readers |-> "none"]
OneCollects == [NoReader EXCEPT ![r1] = "collect"]
Both == [r \in Readers |-> IF r = r1 THEN "collect" ELSE "hash"]

\* A batch committed twice; a batch or a small file while an asset is read; two
\* readers beside a small file.
SmallPlans ==
  { [commits |-> 2, single |-> FALSE, readers |-> NoReader],
    [commits |-> 1, single |-> FALSE, readers |-> OneCollects],
    [commits |-> 0, single |-> TRUE,  readers |-> Both] }
=============================================================================
