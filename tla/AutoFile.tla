------------------------------ MODULE AutoFile ------------------------------
(***************************************************************************)
(* CAutoFile of serialize.h: a wrapper that owns a FILE, closes it when it *)
(* goes out of scope, and is the stream that objects are written to and    *)
(* read from.  An object is two bytes long, which is enough for a transfer *)
(* to stop in the middle.  The files are those of the C library, modelled  *)
(* from how the wrapper uses them; their user opens them, hands them to    *)
(* wrappers, and takes them back.                                          *)
(***************************************************************************)
EXTENDS Integers, Sequences

CONSTANTS
  Wrappers,
  Files,      (* ordinary ones                                                *)
  Objects,
  NULL, Std,  (* the null pointer, and one of stdin, stdout and stderr        *)
  MaxOpens,   (* bound on the calls of fopen                                  *)
  MaxBytes    (* bound on the bytes of a file                                 *)

ASSUME FileAssumption ==
  NULL \notin Files /\ Std \notin Files /\ MaxOpens \in Nat /\ MaxBytes \in Nat

VARIABLES
  alive,      (* the wrappers that are constructed and not destroyed          *)
  file,       (* of each wrapper                                              *)
  failed,     (* ... and its failbit                                          *)
  bare,       (* the files their user has outside of any wrapper              *)
  mode,       (* of each file: "closed", "reading" or "writing"               *)
  bytes,      (* what is in it, the buffer of the C library included          *)
  at,         (* how far it is read                                           *)
  opens,
  (* what happened so far:                                                    *)
  undefined,  (* a FILE was used after it was closed                          *)
  copied,     (* a wrapper of an ordinary file was copied                     *)
  overwritten,(* a wrapper got another file while it had one                  *)
  heedless,   (* a file was used on after its wrapper had failed              *)
  lost,       (* the files that could not be written out when closed          *)
  put, got    (* the objects written to, and read from, each file             *)

wrappers == <<alive, file, failed>>
files    == <<bare, mode, bytes, at, opens>>
objects  == <<lost, put, got>>
history  == <<undefined, copied, overwritten, heedless>>
vars     == <<wrappers, files, objects, history>>

Init ==
  /\ alive = {} /\ file = [w \in Wrappers |-> NULL]
  /\ failed = [w \in Wrappers |-> FALSE]
  /\ bare = {} /\ mode = [f \in Files |-> "closed"]
  /\ bytes = [f \in Files |-> <<>>] /\ at = [f \in Files |-> 0] /\ opens = 0
  /\ undefined = FALSE /\ copied = FALSE /\ overwritten = FALSE /\ heedless = FALSE
  /\ lost = {} /\ put = [f \in Files |-> <<>>] /\ got = [f \in Files |-> <<>>]
-----------------------------------------------------------------------------
(***************************************************************************)
(* The C library.                                                          *)
(***************************************************************************)
(* fopen, whose result may well be a FILE that was closed before.          *)
Open(f, m) ==
  /\ mode[f] = "closed" /\ opens < MaxOpens /\ opens' = opens + 1
  /\ bare' = bare \cup {f} /\ mode' = [mode EXCEPT ![f] = m]
  /\ at' = [at EXCEPT ![f] = 0] /\ got' = [got EXCEPT ![f] = <<>>]
  /\ IF m = "writing"
     THEN /\ bytes' = [bytes EXCEPT ![f] = <<>>] /\ put' = [put EXCEPT ![f] = <<>>]
          /\ lost' = lost \ {f}
     ELSE UNCHANGED <<bytes, put, lost>>
  /\ UNCHANGED <<wrappers, history>>

(* ::fclose writes out what is buffered, which may fail.                   *)
Close(f) ==
  /\ undefined' = (mode[f] = "closed")
  /\ mode' = [mode EXCEPT ![f] = "closed"]
  /\ \E n \in (IF mode[f] = "writing" THEN 0 ELSE Len(bytes[f])) .. Len(bytes[f]) :
       /\ bytes' = [bytes EXCEPT ![f] = SubSeq(@, 1, n)]
       /\ lost' = IF n < Len(bytes[f]) THEN lost \cup {f} ELSE lost

(* The user closes a file of its own.                                      *)
CloseBare(f) ==
  /\ f \in bare /\ bare' = bare \ {f} /\ Close(f)
  /\ UNCHANGED <<wrappers, at, opens, put, got, copied, overwritten, heedless>>
-----------------------------------------------------------------------------
(***************************************************************************)
(* The life of a wrapper.                                                  *)
(***************************************************************************)
Given == bare \cup {NULL, Std}   (* what a user can hand over                *)
Holds(w) == w \in alive /\ file[w] \in Files

(* The constructor.                                                        *)
Construct(w, f) ==
  /\ w \notin alive /\ f \in Given
  /\ alive' = alive \cup {w} /\ file' = [file EXCEPT ![w] = f] /\ bare' = bare \ {f}
  /\ UNCHANGED <<failed, mode, bytes, at, opens, objects, history>>

(* The copy constructor and the copy assignment, which nobody has written  *)
(* or forbidden: they copy the members.                                    *)
Copy(w, v) ==
  /\ v \in alive /\ w # v
  /\ alive' = alive \cup {w} /\ file' = [file EXCEPT ![w] = file[v]]
  /\ failed' = [failed EXCEPT ![w] = failed[v]]
  /\ copied' = (copied \/ Holds(v)) /\ overwritten' = (overwritten \/ Holds(w))
  /\ UNCHANGED <<files, objects, undefined, heedless>>

(* operator= of a pointer closes nothing, and resets no state.             *)
Assign(w, f) ==
  /\ w \in alive /\ f \in Given
  /\ file' = [file EXCEPT ![w] = f] /\ bare' = bare \ {f}
  /\ overwritten' = (overwritten \/ Holds(w))
  /\ UNCHANGED <<alive, failed, mode, bytes, at, opens, objects, undefined, copied, heedless>>

(* release: the user has to close the file.                                *)
Release(w) ==
  /\ w \in alive
  /\ bare' = bare \cup ({file[w]} \cap Files) /\ file' = [file EXCEPT ![w] = NULL]
  /\ heedless' = (heedless \/ failed[w])
  /\ UNCHANGED <<alive, failed, mode, bytes, at, opens, objects,
                 undefined, copied, overwritten>>

(* Mutant: the wrapper goes on pointing to the file it closed. *)
CloseFileKept(w) ==
  /\ IF file[w] \in Files THEN Close(file[w]) ELSE UNCHANGED <<undefined, mode, bytes, lost>>
  /\ UNCHANGED file

(* Mutant: the pointer is dropped, and the file is not closed. *)
CloseFileDropped(w) ==
  file' = [file EXCEPT ![w] = NULL] /\ UNCHANGED <<undefined, mode, bytes, lost>>

(* fclose: not for a standard stream.  What ::fclose returns is ignored.   *)
CloseFile(w) ==
  /\ IF file[w] \in Files THEN Close(file[w]) ELSE UNCHANGED <<undefined, mode, bytes, lost>>
  /\ file' = [file EXCEPT ![w] = NULL]

FClose(w) ==
  /\ w \in alive /\ CloseFile(w)
  /\ UNCHANGED <<alive, failed, bare, at, opens, put, got, copied, overwritten, heedless>>

(* ~CAutoFile                                                              *)
Destroy(w) ==
  /\ w \in alive /\ CloseFile(w) /\ alive' = alive \ {w}
  /\ failed' = [failed EXCEPT ![w] = FALSE]   (* it is gone with the wrapper *)
  /\ UNCHANGED <<bare, at, opens, put, got, copied, overwritten, heedless>>
-----------------------------------------------------------------------------
(***************************************************************************)
(* The stream.                                                             *)
(***************************************************************************)
(* Mutant: a short count is taken as it is. *)
SetStateNever(w, short) == UNCHANGED failed

(* setstate(failbit), when less than all was transferred.  Whether it then *)
(* throws, which exceptmask tells and exceptions() sets, is the same to    *)
(* the wrapper and the file: the bit is set before it throws.              *)
SetState(w, short) == failed' = [failed EXCEPT ![w] = @ \/ short]

Bytes(o) == <<<<o, 1>>, <<o, 2>>>>
Used(w) == /\ heedless' = (heedless \/ failed[w])
           /\ undefined' = (file[w] \in Files /\ mode[file[w]] = "closed")

(* operator<< and write.  Without a file they throw and change nothing;    *)
(* they do not look at the state.  fwrite takes n bytes, none if the file  *)
(* is open for reading.                                                    *)
Write(w, o) ==
  /\ w \in alive /\ file[w] # NULL /\ Used(w)
  /\ \E n \in 0 .. 2 :
       /\ SetState(w, n < 2)
       /\ IF file[w] \in Files
          THEN LET f == file[w]
               IN  /\ mode[f] = "writing" \/ n = 0
                   /\ Len(bytes[f]) + n <= MaxBytes
                   /\ bytes' = [bytes EXCEPT ![f] = @ \o SubSeq(Bytes(o), 1, n)]
                   /\ put' = IF n = 2 THEN [put EXCEPT ![f] = Append(@, Bytes(o))] ELSE put
          ELSE UNCHANGED <<bytes, put>>
  /\ UNCHANGED <<alive, file, bare, mode, at, opens, lost, got, copied, overwritten>>

(* operator>> and read.  fread gets n bytes: no more than there are, and   *)
(* none if the file is open for writing.  After a short count the rest of  *)
(* the object is what it was before.                                       *)
ReadObject(w) ==
  /\ w \in alive /\ file[w] # NULL /\ Used(w)
  /\ \E n \in 0 .. 2 :
       /\ SetState(w, n < 2)
       /\ IF file[w] \in Files
          THEN LET f == file[w]
               IN  /\ mode[f] = "reading" \/ n = 0
                   /\ at[f] + n <= Len(bytes[f]) /\ at' = [at EXCEPT ![f] = @ + n]
                   /\ got' = IF n = 2
                             THEN [got EXCEPT ![f] = Append(@, SubSeq(bytes[f], at[f] + 1,
                                                                     at[f] + 2))]
                             ELSE got
          ELSE UNCHANGED <<at, got>>
  /\ UNCHANGED <<alive, file, bare, mode, bytes, opens, lost, put, copied, overwritten>>

(* clear()                                                                 *)
Clear(w) ==
  /\ w \in alive /\ failed' = [failed EXCEPT ![w] = FALSE]
  /\ heedless' = (heedless \/ failed[w])
  /\ UNCHANGED <<alive, file, files, objects, undefined, copied, overwritten>>

Next ==
  /\ ~ undefined
  /\ \/ \E f \in Files : CloseBare(f) \/ \E m \in {"reading", "writing"} : Open(f, m)
     \/ \E w \in Wrappers :
          \/ \E f \in Files \cup {NULL, Std} : Construct(w, f) \/ Assign(w, f)
          \/ \E v \in Wrappers : Copy(w, v)
          \/ Release(w) \/ FClose(w) \/ Destroy(w)
          \/ ReadObject(w) \/ \E o \in Objects : Write(w, o)
          \/ Clear(w)

Spec == Init /\ [][Next]_vars
-----------------------------------------------------------------------------
TypeOK ==
  /\ alive \subseteq Wrappers /\ file \in [Wrappers -> Files \cup {NULL, Std}]
  /\ failed \in [Wrappers -> BOOLEAN]
  /\ bare \subseteq Files /\ mode \in [Files -> {"closed", "reading", "writing"}]
  /\ at \in [Files -> Nat] /\ opens \in Nat
  /\ undefined \in BOOLEAN /\ copied \in BOOLEAN /\ overwritten \in BOOLEAN
  /\ heedless \in BOOLEAN /\ lost \subseteq Files

(* As long as no wrapper is copied, no file is used or closed after it was *)
(* closed: what a wrapper or the user has is open and nobody else's,       *)
(* through every hand-over (release, operator=, fclose, ~CAutoFile).       *)
OneOwner ==
  ~ copied =>
    /\ ~ undefined
    /\ \A f \in bare : mode[f] # "closed" /\ \A w \in alive : file[w] # f
    /\ \A w \in alive : file[w] \in Files => mode[file[w]] # "closed"
    /\ \A w, v \in alive : file[w] \in Files /\ file[w] = file[v] => w = v

(* A file stays open without an owner only after an assignment: neither    *)
(* operator= nor the copy assignment closes what the wrapper had.          *)
LeakNeedsOverwriting ==
  ~ overwritten =>
    \A f \in Files : mode[f] = "closed" \/ f \in bare \/ \E w \in alive : file[w] = f

(* Who stops at the first failure, thrown or seen in fail(), reads back    *)
(* the objects that were written, in order, up to where the file ends, and *)
(* the file ends early only if writing it out failed when it was closed,   *)
(* which nobody is told (setstate, read, write, fclose).                   *)
ReadBack ==
  ~ heedless /\ ~ copied =>
    \A f \in Files :
      /\ \A i \in DOMAIN got[f] : i \in DOMAIN put[f] /\ got[f][i] = put[f][i]
      /\ f \notin lost =>
           \A i \in DOMAIN put[f] : SubSeq(bytes[f], 2 * i - 1, 2 * i) = put[f][i]
=============================================================================
