--------------------------- MODULE MCBananaServer ---------------------------
(***************************************************************************)
(* Instances of BananaServer for TLC.                                      *)
(***************************************************************************)
EXTENDS BananaServer

MCDescriptors == {4, 5}
=============================================================================
