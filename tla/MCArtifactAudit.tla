-------------------------- MODULE MCArtifactAudit ---------------------------
(***************************************************************************)
(* Small instances of ArtifactAudit for TLC.                               *)
(***************************************************************************)
EXTENDS ArtifactAudit, TLC

CONSTANTS x, y

ChunkSymmetry == Permutations({x, y})

OneTarget == {<<"result", "out">>}

TwoTargets == {<<"result", "out">>, <<"log", "err">>}

\* A file is removed, or replaced by one of the same size.
SwapContents == {None, <<x>>, <<y>>}
=============================================================================
