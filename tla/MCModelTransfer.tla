--------------------------- MODULE MCModelTransfer ---------------------------
(***************************************************************************)
(* Small instances of ModelTransfer: models of one, two and three chunks   *)
(* and an empty file.  Every model has a name of its own.                  *)
(***************************************************************************)
EXTENDS ModelTransfer, TLC

CONSTANTS d1, d2, empty, small, medium, large

OneDevice == {d1}
TwoDevices == {d1, d2}

SmallAndMedium == {small, medium}
EmptyMediumLarge == {empty, medium, large}

MCChunks ==
    [m \in Model |->
        (empty :> 0 @@ small :> 1 @@ medium :> 2 @@ large :> 3)[m]]

MCFilename == [m \in Model |-> m]
=============================================================================
