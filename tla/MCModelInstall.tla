--------------------------- MODULE MCModelInstall ----------------------------
(***************************************************************************)
(* Small instances of ModelInstall: the model of the factory, another good *)
(* one, and one that passes its hash and cannot be loaded.                 *)
(***************************************************************************)
EXTENDS ModelInstall

CONSTANTS factory, better, unusable

MCModel == {factory, better, unusable}
MCLoadable == {factory, better}
=============================================================================
