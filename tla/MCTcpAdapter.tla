---------------------------- MODULE MCTcpAdapter ----------------------------
(***************************************************************************)
(* Instances of TcpAdapter for TLC.  Message sizes are scaled down: the    *)
(* ConnectServer response has one byte after its event type, the           *)
(* SampleRooms response the three bytes and rooms of the code.             *)
(***************************************************************************)
EXTENDS TcpAdapter, TLC

MCFixedPartSize == (EventType_ConnectServer :> 3) @@ (EventType_SampleRooms :> 5)

Connected(b) == <<0, 5, b>>
NoRooms      == <<0, 7, 0, 0, 0>>
OneRoom      == <<0, 7, 0, 1, 0, 9, 9, 9, 9>>

MCResponses  == {Connected(1), Connected(2), NoRooms, OneRoom, <<0, 8>>}
MCTwoReplies == {Connected(1), NoRooms}
MCOneReply   == {Connected(1)}
Production   == {"null"}
BothStreams  == {"null", "open"}
TestStream   == {"open"}

(* The comment in Receiving, "A new filler will be picked for the next     *)
(* message.": whenever one is picked it holds nothing yet but the event    *)
(* type it has just been given.                                            *)
FreshFiller ==
  [][filler = NoFiller /\ filler' # NoFiller
       => Len(fillers'[filler'].buffer) = 2]_vars

(* The test ReceivingNetworkMessage: a response that was received in full  *)
(* is what Receive returns, also when the stream then ends.                *)
ReceivedIsReturned ==
  [][\A c \in Callers :
       calls[c] = "receiveError" /\ calls'[c] = "idle" => receivingQueue = <<>>]_vars
=============================================================================
