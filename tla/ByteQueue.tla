----------------------------- MODULE ByteQueue -----------------------------
(***************************************************************************)
(* What CDataStream promises its users, call by call: a queue of bytes     *)
(* that are written at one end and read at the other.  content is what is  *)
(* still to be read; behind is what Rewind can bring back, the bytes that  *)
(* last left the front, unless they have been forgotten, which may happen  *)
(* in any call that takes bytes from the front.                            *)
(*                                                                         *)
(* call is the call just made: its name, its argument, how it ended and    *)
(* the bytes it returned.                                                  *)
(***************************************************************************)
EXTENDS Naturals, Sequences

VARIABLES content, behind, failed, exceptmask, call

vars == <<content, behind, failed, exceptmask, call>>

Init ==
  /\ content = call[2] /\ behind = <<>> /\ failed = FALSE /\ exceptmask = TRUE
  /\ call = <<"construct", call[2], "ok", <<>>>>

First(s, n) == SubSeq(s, 1, n)
After(s, n) == SubSeq(s, n + 1, Len(s))

Called(op)   == call'[1] = op
argument     == call'[2]
outcome      == call'[3]
returned     == call'[4]
StateKept    == UNCHANGED <<failed, exceptmask>>

(* n bytes leave the front of the queue. *)
TakesFront(n) ==
  /\ content' = After(content, n)
  /\ behind' \in {behind \o First(content, n), <<>>}

(* read and ignore of no more than there is; or of more: then the failbit  *)
(* is set, and either the call throws and takes nothing, or the rest is    *)
(* taken.  What is read is what was at the front, filled up with zeros.    *)
Zeros(n) == [i \in 1 .. n |-> 0]
Fewer(m, n) == IF m < n THEN m ELSE n

Take(op, n) ==
  /\ Called(op) /\ argument = n /\ UNCHANGED exceptmask
  /\ failed' = (failed \/ n > Len(content))
  /\ IF n > Len(content) /\ exceptmask
     THEN outcome = "throws" /\ UNCHANGED <<content, behind>>
     ELSE /\ outcome = "ok" /\ TakesFront(Fewer(n, Len(content)))
          /\ op = "read" => returned = First(content, Fewer(n, Len(content)))
                                          \o Zeros(n - Fewer(n, Len(content)))

(* Bytes put at the end: by write, by operator +=, or, as a wrong position *)
(* is no reason to lose them, by an insert that finds no room in front.    *)
Put(data) == content' = content \o data /\ behind' = behind /\ StateKept

InsertBytes(pos, n, b) ==
  /\ Called("insert") /\ argument = <<pos, n, b>> /\ StateKept
  /\ content' = First(content, pos) \o [i \in 1 .. n |-> b] \o After(content, pos)
  /\ behind' = behind

(* At the front a range may be written over bytes kept behind it. *)
InsertRange(pos, data) ==
  /\ Called("insertRange") /\ argument = <<pos, data>>
  /\ \/ Put(data)
     \/ /\ pos = 0 /\ Len(data) <= Len(behind) /\ StateKept
        /\ content' = data \o content
        /\ behind' = First(behind, Len(behind) - Len(data))

Erase(i, j) ==
  /\ Called("erase") /\ argument = <<i, j>> /\ StateKept
  /\ IF i = 0 THEN TakesFront(j)
     ELSE content' = First(content, i) \o After(content, j) /\ behind' = behind

Resize(n) ==
  /\ Called("resize") /\ argument = n /\ StateKept
  /\ content' = First(content, Fewer(n, Len(content)))
                  \o Zeros(n - Fewer(n, Len(content)))
  /\ behind' = behind

Clear == Called("clear") /\ content' = <<>> /\ behind' = <<>> /\ StateKept

Compact == Called("compact") /\ content' = content /\ behind' = <<>> /\ StateKept

Rewind(n) ==
  /\ Called("rewind") /\ argument = n /\ StateKept
  /\ \/ /\ outcome = "ok" /\ n <= Len(behind)
        /\ content' = After(behind, Len(behind) - n) \o content
        /\ behind' = First(behind, Len(behind) - n)
     \/ /\ outcome = "false" /\ n > Len(behind)
        /\ UNCHANGED <<content, behind>>

(* The two calls that set the stream's state.                              *)
SetState ==
  /\ UNCHANGED <<content, behind>>
  /\ \/ Called("clearState") /\ failed' = argument /\ UNCHANGED exceptmask
     \/ /\ Called("exceptions") /\ exceptmask' = argument /\ UNCHANGED failed
        /\ outcome = IF failed /\ exceptmask' THEN "throws" ELSE "ok"

Next ==
  \/ Called("write") /\ Put(argument)
  \/ Called("plus") /\ Put(After(argument.vch, argument.nReadPos))
  \/ Called("stream") /\ Put(argument.vch)
  \/ \E op \in {"read", "ignore"} : Take(op, argument)
  \/ InsertBytes(argument[1], argument[2], argument[3])
  \/ InsertRange(argument[1], argument[2])
  \/ Erase(argument[1], argument[2]) \/ Resize(argument)
  \/ Clear \/ Compact \/ Rewind(argument) \/ SetState

Spec == Init /\ [][Next]_vars
=============================================================================
