--------------------------- MODULE MCClientServer ---------------------------
(***************************************************************************)
(* An instance of ClientServer for TLC.                                    *)
(***************************************************************************)
EXTENDS ClientServer, TLC

MCDescriptors == {4}
MCEventTypes == {5, 7}
MCFixedPartSize == (5 :> 3) @@ (7 :> 5)
=============================================================================
