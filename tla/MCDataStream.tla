---------------------------- MODULE MCDataStream ----------------------------
(***************************************************************************)
(* Instances of DataStream for TLC.                                        *)
(***************************************************************************)
EXTENDS DataStream

MCByte == {0, 1}
MCData == {<<>>, <<1>>, <<0, 1>>}
MCOthers == {[vch |-> <<1, 0>>, nReadPos |-> p] : p \in 0 .. 2}
=============================================================================
