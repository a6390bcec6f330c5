--------------------------- MODULE AutoFileProofs ---------------------------
(***************************************************************************)
(* Proofs about AutoFile, for any wrappers, files and ways to hand them    *)
(* over: who owns an open file, and what is read back from one.            *)
(***************************************************************************)
EXTENDS AutoFile, SequenceTheorems, TLAPS

Pointers == Files \cup {NULL, Std}

OwnTyped ==
  /\ alive \subseteq Wrappers /\ file \in [Wrappers -> Pointers]
  /\ bare \subseteq Files /\ mode \in [Files -> {"closed", "reading", "writing"}]

(* What the steps keep: the two properties are inductive with the types.   *)
OwnInv == OwnTyped /\ OneOwner /\ LeakNeedsOverwriting

(* A step that hands no file over and leaves every file as it is.          *)
LEMMA OwnersStay ==
  ASSUME OwnInv, UNCHANGED <<alive, file, bare, mode, copied, overwritten>>,
         ~ copied => ~ undefined'
  PROVE  OwnInv'
BY DEF OwnInv, OwnTyped, OneOwner, LeakNeedsOverwriting

(* Opening a file, which nobody has, keeps OwnInv. *)
LEMMA OpenOwns ==
  ASSUME OwnInv, NEW f \in Files, NEW m \in {"reading", "writing"}, Open(f, m)
  PROVE  OwnInv'
<1>1. /\ mode[f] = "closed" /\ bare' = bare \cup {f} /\ mode' = [mode EXCEPT ![f] = m]
      /\ UNCHANGED <<alive, file, undefined, copied, overwritten>>
  BY DEF Open, wrappers, history
<1>2. OwnTyped'
  BY <1>1 DEF OwnInv, OwnTyped
<1>3. OneOwner'
  BY <1>1 DEF OwnInv, OwnTyped, OneOwner
<1>4. LeakNeedsOverwriting'
  BY <1>1 DEF OwnInv, OwnTyped, LeakNeedsOverwriting
<1> QED
  BY <1>2, <1>3, <1>4 DEF OwnInv

(* So does closing a file that is in no wrapper. *)
LEMMA CloseBareOwns ==
  ASSUME OwnInv, NEW f \in Files, CloseBare(f)
  PROVE  OwnInv'
<1>1. /\ f \in bare /\ bare' = bare \ {f} /\ mode' = [mode EXCEPT ![f] = "closed"]
      /\ undefined' = (mode[f] = "closed")
      /\ UNCHANGED <<alive, file, copied, overwritten>>
  BY DEF CloseBare, Close, wrappers
<1>2. OwnTyped'
  BY <1>1 DEF OwnInv, OwnTyped
<1>3. OneOwner'
  BY <1>1 DEF OwnInv, OwnTyped, OneOwner
<1>4. LeakNeedsOverwriting'
  BY <1>1 DEF OwnInv, OwnTyped, LeakNeedsOverwriting
<1> QED
  BY <1>2, <1>3, <1>4 DEF OwnInv

(* The constructor and operator= take the file over from the user.         *)
LEMMA TakeOverOwns ==
  ASSUME OwnInv, ~ undefined, NEW w \in Wrappers, NEW f \in Pointers,
         Construct(w, f) \/ Assign(w, f)
  PROVE  OwnInv'
<1>1. /\ f \in bare \/ f \notin Files
      /\ bare' = bare \ {f} /\ file' = [file EXCEPT ![w] = f] /\ alive' = alive \cup {w}
      /\ UNCHANGED <<mode, undefined, copied>>
  BY FileAssumption DEF Construct, Assign, Given, history
<1>2. ~ overwritten' => ~ overwritten /\ (w \notin alive \/ file[w] \notin Files)
  BY DEF Construct, Assign, Holds, history
<1>3. OwnTyped'
  BY <1>1 DEF OwnInv, OwnTyped, Pointers
<1>4. OneOwner'
  BY <1>1 DEF OwnInv, OwnTyped, OneOwner
<1>5. LeakNeedsOverwriting'
  BY <1>1, <1>2 DEF OwnInv, OwnTyped, LeakNeedsOverwriting
<1> QED
  BY <1>3, <1>4, <1>5 DEF OwnInv

(* A copy gives an ordinary file a second owner, and copied says so. *)
LEMMA CopyOwns ==
  ASSUME OwnInv, ~ undefined, NEW w \in Wrappers, NEW v \in Wrappers, Copy(w, v)
  PROVE  OwnInv'
<1>1. /\ v \in alive /\ alive' = alive \cup {w} /\ file' = [file EXCEPT ![w] = file[v]]
      /\ UNCHANGED <<bare, mode, undefined>>
  BY DEF Copy, files
<1>2. /\ ~ copied' => ~ copied /\ file[v] \notin Files
      /\ ~ overwritten' => ~ overwritten /\ (w \notin alive \/ file[w] \notin Files)
  BY DEF Copy, Holds
<1>3. OwnTyped'
  BY <1>1 DEF OwnInv, OwnTyped
<1>4. OneOwner'
  BY <1>1, <1>2 DEF OwnInv, OwnTyped, OneOwner
<1>5. LeakNeedsOverwriting'
  BY <1>1, <1>2 DEF OwnInv, OwnTyped, LeakNeedsOverwriting
<1> QED
  BY <1>3, <1>4, <1>5 DEF OwnInv

(* What a wrapper releases passes to its user alone. *)
LEMMA ReleaseOwns ==
  ASSUME OwnInv, NEW w \in Wrappers, Release(w)
  PROVE  OwnInv'
<1>1. /\ w \in alive /\ bare' = bare \cup ({file[w]} \cap Files)
      /\ file' = [file EXCEPT ![w] = NULL]
      /\ UNCHANGED <<alive, mode, undefined, copied, overwritten>>
  BY DEF Release
<1>2. OwnTyped'
  BY <1>1 DEF OwnInv, OwnTyped, Pointers
<1>3. OneOwner'
  BY <1>1, FileAssumption DEF OwnInv, OwnTyped, OneOwner
<1>4. LeakNeedsOverwriting'
  BY <1>1 DEF OwnInv, OwnTyped, LeakNeedsOverwriting
<1> QED
  BY <1>2, <1>3, <1>4 DEF OwnInv

(* fclose and the destructor: what the wrapper had is nobody else's, and   *)
(* so it was open.                                                         *)
LEMMA CloseFileOwns ==
  ASSUME OwnInv, ~ undefined, NEW w \in Wrappers, FClose(w) \/ Destroy(w)
  PROVE  OwnInv'
<1>1. /\ w \in alive /\ file' = [file EXCEPT ![w] = NULL]
      /\ alive' = alive \/ alive' = alive \ {w}
      /\ UNCHANGED <<bare, copied, overwritten>>
  BY DEF FClose, Destroy, CloseFile
<1>2. \/ /\ file[w] \in Files /\ mode' = [mode EXCEPT ![file[w]] = "closed"]
         /\ undefined' = (mode[file[w]] = "closed")
      \/ file[w] \notin Files /\ UNCHANGED <<mode, undefined>>
  BY DEF FClose, Destroy, CloseFile, Close
<1>3. OwnTyped'
  BY <1>1, <1>2 DEF OwnInv, OwnTyped, Pointers
<1>4. OneOwner'
  BY <1>1, <1>2, FileAssumption DEF OwnInv, OwnTyped, OneOwner
<1>5. LeakNeedsOverwriting'
  BY <1>1, <1>2 DEF OwnInv, OwnTyped, LeakNeedsOverwriting
<1> QED
  BY <1>3, <1>4, <1>5 DEF OwnInv

(* Reading and writing use a file that is open.                            *)
LEMMA StreamOwns ==
  ASSUME OwnInv, ~ undefined, NEW w \in Wrappers,
         ReadObject(w) \/ (\E o \in Objects : Write(w, o)) \/ Clear(w)
  PROVE  OwnInv'
<1>1. w \in alive /\ UNCHANGED <<alive, file, bare, mode, copied, overwritten>>
  BY DEF ReadObject, Write, Clear, files
<1>2. undefined' = undefined \/ undefined' = (file[w] \in Files /\ mode[file[w]] = "closed")
  BY DEF ReadObject, Write, Clear, Used
<1>3. ~ copied => ~ undefined'
  BY <1>1, <1>2 DEF OwnInv, OneOwner
<1> QED
  BY <1>1, <1>3, OwnersStay

(* OwnInv holds in every reachable state. *)
LEMMA OwnInvAlways == Spec => []OwnInv
<1>1. Init => OwnInv
  BY FileAssumption
     DEF Init, OwnInv, OwnTyped, Pointers, OneOwner, LeakNeedsOverwriting
<1>2. OwnInv /\ Next => OwnInv'
  <2> SUFFICES ASSUME OwnInv, Next PROVE OwnInv'
    OBVIOUS
  <2>1. ~ undefined
    BY DEF Next
  <2>2. CASE \E f \in Files : CloseBare(f) \/ \E m \in {"reading", "writing"} : Open(f, m)
    BY <2>2, CloseBareOwns, OpenOwns
  <2>3. ASSUME NEW w \in Wrappers,
               \/ \E f \in Files \cup {NULL, Std} : Construct(w, f) \/ Assign(w, f)
               \/ \E v \in Wrappers : Copy(w, v)
               \/ Release(w) \/ FClose(w) \/ Destroy(w)
               \/ ReadObject(w) \/ (\E o \in Objects : Write(w, o)) \/ Clear(w)
        PROVE  OwnInv'
    BY <2>1, <2>3, TakeOverOwns, CopyOwns, ReleaseOwns, CloseFileOwns, StreamOwns
       DEF Pointers
  <2> QED
    BY <2>2, <2>3 DEF Next
<1>3. OwnInv /\ UNCHANGED vars => OwnInv'
  BY DEF OwnInv, OwnTyped, OneOwner, LeakNeedsOverwriting, vars, wrappers, files, history
<1> QED
  BY <1>1, <1>2, <1>3, PTL DEF Spec

(* Without a copy no file is used or closed twice, and each belongs to one *)
(* wrapper or to the user (fclose, release, operator=, ~CAutoFile).        *)
THEOREM OwnedOnce == Spec => []OneOwner
BY OwnInvAlways, PTL DEF OwnInv

(* Only an assignment over a file leaks it (operator=).                    *)
THEOREM LeaksAreOverwritten == Spec => []LeakNeedsOverwriting
BY OwnInvAlways, PTL DEF OwnInv
-----------------------------------------------------------------------------
(***************************************************************************)
(* What is read back.                                                      *)
(***************************************************************************)
Byte == Objects \X {1, 2}
ObjectAt(b, i) == SubSeq(b, 2 * i - 1, 2 * i)

StreamTyped ==
  /\ failed \in [Wrappers -> BOOLEAN] /\ lost \subseteq Files
  /\ at \in [Files -> Nat] /\ bytes \in [Files -> Seq(Byte)]
  /\ put \in [Files -> Seq(Seq(Byte))] /\ got \in [Files -> Seq(Seq(Byte))]

(* A file is in use while its user has it, or a wrapper that has not       *)
(* failed: after a failure nobody reads or writes it any more.             *)
InUse(f) == f \in bare \/ \E w \in alive : file[w] = f /\ ~ failed[w]

(* The file holds the objects written to it, with at most half of another  *)
(* one behind them, unless it was cut short when it was closed.            *)
Written(b, objs) ==
  /\ Len(b) <= 2 * Len(objs) + 1
  /\ \A i \in 1 .. Len(objs) : 2 * i <= Len(b) => ObjectAt(b, i) = objs[i]

Whole(f) ==
  /\ Written(bytes[f], put[f])
  /\ f \notin lost => 2 * Len(put[f]) <= Len(bytes[f])

(* What was read is what is there.                                         *)
ReadSoFar(f) ==
  /\ \A i \in 1 .. Len(got[f]) :
       2 * i <= Len(bytes[f]) /\ got[f][i] = ObjectAt(bytes[f], i)
  /\ mode[f] = "writing" => got[f] = <<>>

(* Whoever uses the file is between two objects.                           *)
InStep(f) ==
  InUse(f) => /\ mode[f] = "writing" => Len(bytes[f]) = 2 * Len(put[f])
              /\ at[f] = 2 * Len(got[f])

Good(f) == Whole(f) /\ ReadSoFar(f) /\ InStep(f)

(* The invariant: with the types, a good file for whoever heeds failures.  *)
Heeding == ~ heedless /\ ~ copied
ReadInv == StreamTyped /\ (Heeding => \A f \in Files : Good(f))
-----------------------------------------------------------------------------
(* An object is its two bytes.                                             *)
LEMMA ObjectBytes ==
  ASSUME NEW S, NEW b \in Seq(S), NEW i \in Nat \ {0}, 2 * i <= Len(b)
  PROVE  /\ ObjectAt(b, i) \in Seq(S) /\ Len(ObjectAt(b, i)) = 2
         /\ ObjectAt(b, i)[1] = b[2 * i - 1] /\ ObjectAt(b, i)[2] = b[2 * i]
<1>1. /\ 2 * i - 1 \in Int /\ 2 * i \in Int /\ Len(b) \in Nat
      /\ \A j \in 2 * i - 1 .. 2 * i : b[j] \in S
  BY LenProperties, ElementOfSeq
<1>2. /\ ObjectAt(b, i) \in Seq(S)
      /\ Len(ObjectAt(b, i)) = IF 2 * i - 1 <= 2 * i THEN 2 * i - (2 * i - 1) + 1 ELSE 0
      /\ \A j \in 1 .. 2 * i - (2 * i - 1) + 1 : ObjectAt(b, i)[j] = b[2 * i - 1 + j - 1]
  BY <1>1, SubSeqProperties DEF ObjectAt
<1>3. /\ 2 * i - (2 * i - 1) + 1 = 2 /\ 2 * i - 1 <= 2 * i
      /\ 2 * i - 1 + 1 - 1 = 2 * i - 1 /\ 2 * i - 1 + 2 - 1 = 2 * i
  OBVIOUS
<1>4. /\ Len(ObjectAt(b, i)) = 2
      /\ \A j \in 1 .. 2 : ObjectAt(b, i)[j] = b[2 * i - 1 + j - 1]
  BY <1>2, <1>3
<1> HIDE DEF ObjectAt
<1> QED
  BY <1>2, <1>3, <1>4

(* Two objects of the same bytes are the same. *)
LEMMA SameObject ==
  ASSUME NEW S, NEW b \in Seq(S), NEW c \in Seq(S), NEW i \in Nat \ {0}, NEW j \in Nat \ {0},
         2 * i <= Len(b), 2 * j <= Len(c),
         b[2 * i - 1] = c[2 * j - 1], b[2 * i] = c[2 * j]
  PROVE  ObjectAt(b, i) = ObjectAt(c, j)
<1> DEFINE x == ObjectAt(b, i)
           y == ObjectAt(c, j)
<1>1. /\ x \in Seq(S) /\ Len(x) = 2 /\ y \in Seq(S) /\ Len(y) = 2
      /\ x[1] = y[1] /\ x[2] = y[2]
  BY ObjectBytes
<1> HIDE DEF x, y
<1>2. \A k \in 1 .. Len(x) : x[k] = y[k]
  BY <1>1
<1>3. x = y
  BY <1>1, <1>2, SeqEqual
<1> QED
  BY <1>3 DEF x, y

(* The objects in front stay when bytes are added, or cut off behind them. *)
LEMMA ObjectsStay ==
  ASSUME NEW S, NEW b \in Seq(S), NEW t \in Seq(S), NEW i \in Nat \ {0}, 2 * i <= Len(b)
  PROVE  ObjectAt(b \o t, i) = ObjectAt(b, i)
<1> DEFINE c == b \o t
<1>1. /\ c \in Seq(S) /\ Len(c) >= Len(b)
      /\ c[2 * i - 1] = b[2 * i - 1] /\ c[2 * i] = b[2 * i]
  BY ConcatProperties
<1> HIDE DEF c
<1>2. ObjectAt(c, i) = ObjectAt(b, i)
  <2>1. 2 * i <= Len(c)
    BY <1>1
  <2> QED
    BY <1>1, <2>1, SameObject
<1> QED
  BY <1>2 DEF c

(* What is left of a file still holds the objects in front of the cut. *)
LEMMA ObjectsLeft ==
  ASSUME NEW S, NEW b \in Seq(S), NEW n \in 0 .. Len(b)
  PROVE  /\ SubSeq(b, 1, n) \in Seq(S) /\ Len(SubSeq(b, 1, n)) = n
         /\ \A i \in Nat \ {0} : 2 * i <= n => ObjectAt(SubSeq(b, 1, n), i) = ObjectAt(b, i)
<1> DEFINE c == SubSeq(b, 1, n)
<1>1. c \in Seq(S) /\ Len(c) = n /\ \A j \in 1 .. n : c[j] = b[j]
  BY SubSeqProperties, LenProperties, ElementOfSeq
<1> HIDE DEF c
<1>2. ASSUME NEW i \in Nat \ {0}, 2 * i <= n PROVE ObjectAt(c, i) = ObjectAt(b, i)
  <2>1. c[2 * i - 1] = b[2 * i - 1] /\ c[2 * i] = b[2 * i] /\ 2 * i <= Len(b)
    BY <1>1, <1>2
  <2> QED
    BY <1>1, <1>2, <2>1, SameObject
<1> QED
  BY <1>1, <1>2 DEF c

(* What Write puts behind the bytes of a file.                             *)
LEMMA BytesWritten ==
  ASSUME NEW o \in Objects, NEW n \in 0 .. 2
  PROVE  /\ SubSeq(Bytes(o), 1, n) \in Seq(Byte) /\ Len(SubSeq(Bytes(o), 1, n)) = n
         /\ SubSeq(Bytes(o), 1, 2) = Bytes(o) /\ Bytes(o) \in Seq(Byte)
<1>1. Bytes(o) \in Seq(Byte) /\ Len(Bytes(o)) = 2
  BY DEF Bytes, Byte
<1> QED
  BY <1>1, ObjectsLeft, SubSeqFull

(* The bytes of one more object, behind those of the others. *)
LEMMA ObjectAdded ==
  ASSUME NEW b \in Seq(Byte), NEW k \in Nat, Len(b) = 2 * k, NEW o \in Objects
  PROVE  ObjectAt(b \o Bytes(o), k + 1) = Bytes(o)
<1> DEFINE t == Bytes(o)
           c == b \o t
<1>1. t \in Seq(Byte) /\ Len(t) = 2
  BY DEF Bytes, Byte
<1> HIDE DEF t
<1>2. /\ c \in Seq(Byte) /\ Len(c) = 2 * k + 2
      /\ c[2 * k + 1] = t[1] /\ c[2 * k + 2] = t[2]
  <2>1. /\ c \in Seq(Byte) /\ Len(c) = Len(b) + Len(t)
        /\ \A i \in 1 .. Len(b) + Len(t) : c[i] = IF i <= Len(b) THEN b[i] ELSE t[i - Len(b)]
    BY <1>1, ConcatProperties
  <2>2. /\ 2 * k + 1 \in 1 .. 2 * k + 2 /\ ~ (2 * k + 1 <= 2 * k) /\ 2 * k + 1 - 2 * k = 1
        /\ 2 * k + 2 \in 1 .. 2 * k + 2 /\ ~ (2 * k + 2 <= 2 * k) /\ 2 * k + 2 - 2 * k = 2
    OBVIOUS
  <2> HIDE DEF c
  <2> QED
    BY <1>1, <2>1, <2>2
<1> HIDE DEF c
<1>3. ObjectAt(c, k + 1) = ObjectAt(t, 1)
  <2>1. /\ k + 1 \in Nat \ {0} /\ 2 * (k + 1) <= Len(c) /\ 1 \in Nat \ {0} /\ 2 * 1 <= Len(t)
        /\ c[2 * (k + 1) - 1] = t[2 * 1 - 1] /\ c[2 * (k + 1)] = t[2 * 1]
    BY <1>1, <1>2
  <2> QED
    BY <1>1, <1>2, <2>1, SameObject
<1>4. ObjectAt(t, 1) = t
  BY <1>1, SubSeqFull DEF ObjectAt
<1> QED
  BY <1>3, <1>4 DEF c, t
-----------------------------------------------------------------------------
(* A file that a step leaves as it is stays good, if nobody new uses it.   *)
LEMMA FileStays ==
  ASSUME NEW f \in Files, Good(f), InUse(f)' => InUse(f), f \in lost => f \in lost',
         bytes'[f] = bytes[f], put'[f] = put[f], got'[f] = got[f],
         at'[f] = at[f], mode'[f] = mode[f]
  PROVE  Good(f)'
<1>1. Whole(f)'
  BY DEF Good, Whole, Written
<1>2. ReadSoFar(f)'
  BY DEF Good, ReadSoFar
<1>3. InStep(f)'
  BY DEF Good, InStep
<1> QED
  BY <1>1, <1>2, <1>3 DEF Good

(* Files are handed over: who gets one has not failed with it.             *)
LEMMA HandedOver ==
  ASSUME OwnInv, ReadInv, NEW w \in Wrappers,
         \/ \E f \in Pointers : Construct(w, f) \/ Assign(w, f)
         \/ \E v \in Wrappers : Copy(w, v)
         \/ Release(w) \/ Clear(w)
  PROVE  ReadInv'
<1>1. /\ UNCHANGED <<mode, bytes, at, objects>>
      /\ failed' = failed \/ (\E b \in BOOLEAN : failed' = [failed EXCEPT ![w] = b])
  <2>1. CASE \E v \in Wrappers : Copy(w, v)
    <3>1. PICK v \in Wrappers : Copy(w, v)
      BY <2>1
    <3>2. failed[v] \in BOOLEAN
      BY DEF ReadInv, StreamTyped
    <3> QED
      BY <3>1, <3>2 DEF Copy, files
  <2>2. CASE \E f \in Pointers : Construct(w, f) \/ Assign(w, f)
    BY <2>2 DEF Construct, Assign
  <2>3. CASE Release(w) \/ Clear(w)
    BY <2>3 DEF Release, Clear, files
  <2> QED
    BY <2>1, <2>2, <2>3
<1>2. StreamTyped'
  BY <1>1 DEF ReadInv, StreamTyped, objects
<1>3. ASSUME Heeding', NEW f \in Files PROVE Heeding /\ (InUse(f)' => InUse(f))
  <2> USE DEF InUse, Heeding
  <2>1. ASSUME NEW p \in Pointers, Construct(w, p) \/ Assign(w, p)
        PROVE  Heeding /\ (InUse(f)' => InUse(f))
    <3>1. /\ bare' = bare \ {p} /\ alive' = alive \cup {w} /\ failed' = failed
          /\ file' = [file EXCEPT ![w] = p]
          /\ heedless' = heedless /\ copied' = copied
          /\ p \in Files => p \in bare
      BY <2>1, FileAssumption DEF Construct, Assign, Given, history
    <3>2. file'[w] = p /\ \A v \in alive : v # w => file'[v] = file[v]
      BY <3>1 DEF OwnInv, OwnTyped
    <3> QED
      BY <1>3, <3>1, <3>2
  <2>2. ASSUME NEW v \in Wrappers, Copy(w, v)
        PROVE  Heeding /\ (InUse(f)' => InUse(f))
    <3>1. /\ bare' = bare /\ alive' = alive \cup {w} /\ v \in alive
          /\ file' = [file EXCEPT ![w] = file[v]]
          /\ failed' = [failed EXCEPT ![w] = failed[v]]
          /\ heedless' = heedless /\ ~ copied /\ file[v] \notin Files
      BY <1>3, <2>2 DEF Copy, Holds, files
    <3>2. \A u \in alive \cup {w} : u # w => file'[u] = file[u] /\ failed'[u] = failed[u]
      BY <3>1 DEF OwnInv, OwnTyped, ReadInv, StreamTyped
    <3>3. file'[w] = file[v]
      BY <3>1 DEF OwnInv, OwnTyped
    <3> QED
      BY <1>3, <3>1, <3>2, <3>3
  <2>3. ASSUME Release(w)
        PROVE  Heeding /\ (InUse(f)' => InUse(f))
    <3>1. /\ w \in alive /\ bare' = bare \cup ({file[w]} \cap Files)
          /\ file' = [file EXCEPT ![w] = NULL] /\ alive' = alive /\ failed' = failed
          /\ heedless' = (heedless \/ failed[w]) /\ copied' = copied
      BY <2>3 DEF Release
    <3>2. ~ failed[w] /\ Heeding
      BY <1>3, <3>1
    <3>3. file'[w] = NULL /\ \A v \in alive : v # w => file'[v] = file[v]
      BY <3>1 DEF OwnInv, OwnTyped
    <3> QED
      BY <3>1, <3>2, <3>3, FileAssumption
  <2>4. ASSUME Clear(w)
        PROVE  Heeding /\ (InUse(f)' => InUse(f))
    <3>1. /\ failed' = [failed EXCEPT ![w] = FALSE]
          /\ heedless' = (heedless \/ failed[w])
          /\ UNCHANGED <<alive, file, bare, copied>>
      BY <2>4 DEF Clear, files
    <3>2. ~ failed[w] /\ Heeding
      BY <1>3, <3>1
    <3>3. \A v \in Wrappers : ~ failed'[v] => ~ failed[v]
      BY <3>1, <3>2 DEF ReadInv, StreamTyped
    <3> QED
      BY <3>1, <3>2, <3>3 DEF OwnInv, OwnTyped
  <2> QED
    BY <2>1, <2>2, <2>3, <2>4
<1>4. ASSUME Heeding', NEW f \in Files PROVE Good(f)'
  BY <1>1, <1>3, <1>4, FileStays DEF ReadInv, objects
<1> QED
  BY <1>2, <1>4 DEF ReadInv

(* Opening a file, to write or to read it, keeps ReadInv. *)
LEMMA OpenReads ==
  ASSUME OwnInv, ReadInv, NEW f \in Files, NEW m \in {"reading", "writing"}, Open(f, m)
  PROVE  ReadInv'
<1>1. /\ at' = [at EXCEPT ![f] = 0] /\ got' = [got EXCEPT ![f] = <<>>]
      /\ mode' = [mode EXCEPT ![f] = m] /\ bare' = bare \cup {f}
      /\ UNCHANGED <<alive, file, failed, heedless, copied>>
  BY DEF Open, wrappers, history
<1>2. \/ /\ m = "writing" /\ lost' = lost \ {f}
         /\ bytes' = [bytes EXCEPT ![f] = <<>>] /\ put' = [put EXCEPT ![f] = <<>>]
      \/ m = "reading" /\ UNCHANGED <<bytes, put, lost>>
  BY DEF Open
<1>3. <<>> \in Seq(Byte) /\ <<>> \in Seq(Seq(Byte)) /\ Len(<<>>) = 0 /\ 0 \in Nat
  OBVIOUS
<1>4. StreamTyped'
  BY <1>1, <1>2, <1>3 DEF ReadInv, StreamTyped
<1>5. ASSUME Heeding', NEW g \in Files, g # f PROVE Good(g)'
  <2>1. Heeding /\ (InUse(g)' => InUse(g)) /\ (g \in lost => g \in lost')
    BY <1>1, <1>2, <1>5 DEF Heeding, InUse
  <2>2. /\ bytes'[g] = bytes[g] /\ put'[g] = put[g] /\ got'[g] = got[g]
        /\ at'[g] = at[g] /\ mode'[g] = mode[g]
    BY <1>1, <1>2, <1>5 DEF ReadInv, StreamTyped, OwnInv, OwnTyped
  <2> QED
    BY <2>1, <2>2, FileStays DEF ReadInv
<1>6. ASSUME Heeding' PROVE Good(f)'
  <2>1. at'[f] = 0 /\ got'[f] = <<>> /\ mode'[f] = m
    BY <1>1 DEF ReadInv, StreamTyped, OwnInv, OwnTyped
  <2>2. Good(f)
    BY <1>1, <1>6 DEF Heeding, ReadInv
  <2>3. CASE m = "writing"
    <3>1. bytes'[f] = <<>> /\ put'[f] = <<>>
      BY <1>2, <2>3 DEF ReadInv, StreamTyped
    <3> QED
      BY <1>3, <2>1, <3>1 DEF Good, Whole, Written, ReadSoFar, InStep
  <2>4. CASE m = "reading"
    <3>1. UNCHANGED <<bytes, put, lost>>
      BY <1>2, <2>4
    <3>2. Whole(f)'
      BY <2>2, <3>1 DEF Good, Whole, Written
    <3> QED
      BY <1>3, <2>1, <2>4, <3>2 DEF Good, ReadSoFar, InStep
  <2> QED
    BY <2>3, <2>4
<1> QED
  BY <1>4, <1>5, <1>6 DEF ReadInv

(* A file that is cut short holds the objects that are left. *)
LEMMA WrittenCut ==
  ASSUME NEW c \in Seq(Byte), NEW objs \in Seq(Seq(Byte)), Written(c, objs),
         NEW n \in 0 .. Len(c)
  PROVE  Written(SubSeq(c, 1, n), objs)
<1> DEFINE cut == SubSeq(c, 1, n)
<1>1. /\ Len(cut) = n /\ Len(c) \in Nat /\ Len(objs) \in Nat
      /\ \A i \in Nat \ {0} : 2 * i <= n => ObjectAt(cut, i) = ObjectAt(c, i)
  BY ObjectsLeft, LenProperties
<1> HIDE DEF cut
<1>2. Len(cut) <= 2 * Len(objs) + 1
  BY <1>1 DEF Written
<1>3. ASSUME NEW i \in 1 .. Len(objs), 2 * i <= Len(cut) PROVE ObjectAt(cut, i) = objs[i]
  <2>1. i \in Nat \ {0} /\ 2 * i <= n /\ 2 * i <= Len(c)
    BY <1>1, <1>3
  <2> QED
    BY <1>1, <2>1 DEF Written
<1>4. Written(cut, objs)
  BY <1>2, <1>3 DEF Written
<1> QED
  BY <1>4 DEF cut

(* ::fclose cuts the file short, if anything, when it was written; then    *)
(* nobody has read it.                                                     *)
LEMMA CloseReads ==
  ASSUME OwnInv, ReadInv, NEW g \in Files, Close(g), UNCHANGED <<at, put, got>>,
         failed' \in [Wrappers -> BOOLEAN],
         Heeding' => Heeding /\ \A f \in Files : InUse(f)' => f # g /\ InUse(f)
  PROVE  ReadInv'
<1>1. PICK n \in 0 .. Len(bytes[g]) :
        /\ mode[g] # "writing" => n = Len(bytes[g])
        /\ bytes' = [bytes EXCEPT ![g] = SubSeq(bytes[g], 1, n)]
        /\ lost' = IF n < Len(bytes[g]) THEN lost \cup {g} ELSE lost
  <2>1. Len(bytes[g]) \in Nat
    BY DEF ReadInv, StreamTyped
  <2>2. CASE mode[g] = "writing"
    BY <2>1, <2>2, Zenon DEF Close
  <2>3. CASE mode[g] # "writing"
    <3>1. PICK n \in Len(bytes[g]) .. Len(bytes[g]) :
            /\ bytes' = [bytes EXCEPT ![g] = SubSeq(bytes[g], 1, n)]
            /\ lost' = IF n < Len(bytes[g]) THEN lost \cup {g} ELSE lost
      BY <2>3, Zenon DEF Close
    <3>2. n \in 0 .. Len(bytes[g]) /\ n = Len(bytes[g])
      BY <2>1
    <3> QED
      BY <3>1, <3>2
  <2> QED
    BY <2>2, <2>3
<1>2. mode' = [mode EXCEPT ![g] = "closed"]
  BY DEF Close
<1>3. bytes[g] \in Seq(Byte) /\ Len(bytes[g]) \in Nat
  BY DEF ReadInv, StreamTyped
<1> DEFINE b == SubSeq(bytes[g], 1, n)
<1>4. /\ b \in Seq(Byte) /\ Len(b) = n
      /\ \A i \in Nat \ {0} : 2 * i <= n => ObjectAt(b, i) = ObjectAt(bytes[g], i)
  BY <1>3, ObjectsLeft
<1>5. bytes' = [bytes EXCEPT ![g] = b]
  BY <1>1
<1> HIDE DEF b
<1>6. StreamTyped'
  BY <1>1, <1>4, <1>5 DEF ReadInv, StreamTyped
<1>7. ASSUME Heeding', NEW f \in Files, f # g PROVE Good(f)'
  <2>1. /\ Good(f) /\ (InUse(f)' => InUse(f)) /\ (f \in lost => f \in lost')
        /\ bytes'[f] = bytes[f] /\ mode'[f] = mode[f]
    BY <1>1, <1>2, <1>5, <1>7 DEF ReadInv, StreamTyped, OwnInv, OwnTyped
  <2> QED
    BY <2>1, FileStays
<1>8. ASSUME Heeding' PROVE Good(g)'
  <2>1. Good(g) /\ ~ InUse(g)'
    BY <1>8 DEF ReadInv
  <2>2. bytes'[g] = b /\ put'[g] = put[g] /\ got'[g] = got[g] /\ mode'[g] = "closed"
    BY <1>2, <1>5 DEF ReadInv, StreamTyped, OwnInv, OwnTyped
  <2>3. put[g] \in Seq(Seq(Byte)) /\ got[g] \in Seq(Seq(Byte))
    BY DEF ReadInv, StreamTyped
  <2>4. Len(put[g]) \in Nat /\ Len(got[g]) \in Nat
    BY <2>3
  <2>5. Whole(g)'
    <3>1. Written(b, put[g])
      BY <1>3, <2>1, <2>3, WrittenCut DEF Good, Whole, b
    <3>2. g \notin lost' => g \notin lost /\ n = Len(bytes[g])
      BY <1>1, <1>3
    <3> QED
      BY <1>4, <2>1, <2>2, <3>1, <3>2 DEF Good, Whole
  <2>6. ReadSoFar(g)'
    <3>1. CASE mode[g] = "writing"
      BY <2>1, <2>2, <3>1 DEF Good, ReadSoFar
    <3>2. CASE mode[g] # "writing"
      <4>1. n = Len(bytes[g])
        BY <1>1, <3>2
      <4>2. \A i \in 1 .. Len(got[g]) : 2 * i <= Len(b) /\ got[g][i] = ObjectAt(b, i)
        BY <1>3, <1>4, <2>1, <2>4, <4>1 DEF Good, ReadSoFar
      <4> QED
        BY <2>2, <4>2 DEF ReadSoFar
    <3> QED
      BY <3>1, <3>2
  <2> QED
    BY <2>1, <2>5, <2>6 DEF Good, InStep
<1> QED
  BY <1>6, <1>7, <1>8 DEF ReadInv

(* Closing a file that no wrapper has keeps ReadInv. *)
LEMMA CloseBareReads ==
  ASSUME OwnInv, ReadInv, NEW f \in Files, CloseBare(f)
  PROVE  ReadInv'
<1>1. /\ f \in bare /\ bare' = bare \ {f} /\ Close(f)
      /\ UNCHANGED <<alive, file, failed, at, put, got, copied, heedless>>
  BY DEF CloseBare, wrappers
<1>2. ASSUME Heeding', NEW g \in Files, InUse(g)' PROVE g # f /\ InUse(g)
  BY <1>1, <1>2 DEF Heeding, InUse, OwnInv, OneOwner
<1>3. Heeding' => Heeding
  BY <1>1 DEF Heeding
<1> QED
  BY <1>1, <1>2, <1>3, CloseReads DEF ReadInv, StreamTyped

(* Closing the file of a wrapper keeps ReadInv. *)
LEMMA CloseFileReads ==
  ASSUME OwnInv, ReadInv, NEW w \in Wrappers, FClose(w) \/ Destroy(w)
  PROVE  ReadInv'
<1>1. /\ w \in alive /\ file' = [file EXCEPT ![w] = NULL]
      /\ UNCHANGED <<bare, at, put, got, copied, heedless>>
      /\ \/ alive' = alive /\ failed' = failed
         \/ alive' = alive \ {w} /\ failed' = [failed EXCEPT ![w] = FALSE]
  BY DEF FClose, Destroy, CloseFile
<1>2. \/ file[w] \in Files /\ Close(file[w])
      \/ file[w] \notin Files /\ UNCHANGED <<mode, bytes, lost>>
  BY DEF FClose, Destroy, CloseFile
<1>3. Heeding' => Heeding
  BY <1>1 DEF Heeding
<1>4. failed' \in [Wrappers -> BOOLEAN]
  BY <1>1 DEF ReadInv, StreamTyped
<1>5. \A v \in alive' : file'[v] \in Files =>
        v # w /\ v \in alive /\ file'[v] = file[v] /\ failed'[v] = failed[v]
  BY <1>1, FileAssumption DEF OwnInv, OwnTyped, ReadInv, StreamTyped
<1>6. \A f \in Files : InUse(f)' => InUse(f)
  BY <1>1, <1>5 DEF InUse
<1>7. CASE file[w] \in Files /\ Close(file[w])
  <2>1. ASSUME Heeding', NEW f \in Files, InUse(f)' PROVE f # file[w]
    BY <1>1, <1>3, <1>5, <2>1 DEF InUse, Heeding, OwnInv, OneOwner
  <2> QED
    BY <1>1, <1>3, <1>4, <1>6, <1>7, <2>1, CloseReads
<1>8. CASE file[w] \notin Files /\ UNCHANGED <<mode, bytes, lost>>
  <2>1. StreamTyped'
    BY <1>1, <1>4, <1>8 DEF ReadInv, StreamTyped
  <2>2. ASSUME Heeding', NEW f \in Files PROVE Good(f)'
    BY <1>1, <1>3, <1>6, <1>8, <2>2, FileStays DEF ReadInv
  <2> QED
    BY <2>1, <2>2 DEF ReadInv
<1> QED
  BY <1>2, <1>7, <1>8
-----------------------------------------------------------------------------
(* Who transfers an object and does not heed a failure shows it, and who   *)
(* does heed it is the only user of the file.                              *)
LEMMA OneUser ==
  ASSUME OwnInv, ReadInv, NEW w \in Wrappers, w \in alive, NEW short \in BOOLEAN,
         SetState(w, short), Used(w), copied' = copied, Heeding',
         UNCHANGED <<alive, file, bare>>
  PROVE  /\ Heeding
         /\ \A f \in Files :
              /\ InUse(f)' => InUse(f)
              /\ f = file[w] => InUse(f) /\ (short => ~ InUse(f)')
<1>1. failed' = [failed EXCEPT ![w] = failed[w] \/ short]
  BY DEF SetState
<1>2. Heeding /\ ~ failed[w]
  BY DEF Used, Heeding
<1>3. \A v \in Wrappers : ~ failed'[v] => ~ failed[v]
  BY <1>1, <1>2 DEF ReadInv, StreamTyped
<1>4. \A f \in Files : InUse(f)' => InUse(f)
  BY <1>3 DEF InUse, OwnInv, OwnTyped
<1>5. ASSUME NEW f \in Files, f = file[w] PROVE InUse(f) /\ (short => ~ InUse(f)')
  <2>1. f \notin bare /\ \A v \in alive : file[v] = f => v = w
    BY <1>2, <1>5 DEF Heeding, OwnInv, OneOwner
  <2>2. short => failed'[w]
    BY <1>1 DEF ReadInv, StreamTyped
  <2> QED
    BY <1>2, <1>5, <2>1, <2>2 DEF InUse
<1> QED
  BY <1>2, <1>4, <1>5

(* Half an object may stand behind the others. *)
LEMMA WrittenHalf ==
  ASSUME NEW b \in Seq(Byte), NEW objs \in Seq(Seq(Byte)), Len(b) = 2 * Len(objs),
         Written(b, objs), NEW t \in Seq(Byte), Len(t) = 1
  PROVE  Written(b \o t, objs)
<1>1. Len(b \o t) = 2 * Len(objs) + 1 /\ Len(objs) \in Nat
  <2>1. Len(b \o t) = Len(b) + Len(t) /\ Len(objs) \in Nat
    BY ConcatProperties, LenProperties
  <2> QED
    BY <2>1
<1>2. ASSUME NEW i \in 1 .. Len(objs) PROVE ObjectAt(b \o t, i) = objs[i]
  <2>1. i \in Nat \ {0} /\ 2 * i <= Len(b)
    BY <1>1
  <2>2. ObjectAt(b \o t, i) = ObjectAt(b, i)
    BY <2>1, ObjectsStay
  <2> QED
    BY <2>1, <2>2 DEF Written
<1> QED
  BY <1>1, <1>2 DEF Written

(* A whole one is one more of them. *)
LEMMA WrittenWhole ==
  ASSUME NEW b \in Seq(Byte), NEW objs \in Seq(Seq(Byte)), Len(b) = 2 * Len(objs),
         Written(b, objs), NEW o \in Objects
  PROVE  /\ Written(b \o Bytes(o), Append(objs, Bytes(o)))
         /\ Len(b \o Bytes(o)) = 2 * Len(Append(objs, Bytes(o)))
<1> DEFINE t == Bytes(o)
           more == Append(objs, t)
           k == Len(objs)
<1>1. t \in Seq(Byte) /\ Len(t) = 2
  BY DEF Bytes, Byte
<1>2. ObjectAt(b \o t, k + 1) = t
  BY ObjectAdded
<1> HIDE DEF t
<1>3. /\ k \in Nat /\ Len(more) = k + 1 /\ more[k + 1] = t
      /\ \A i \in 1 .. k : more[i] = objs[i]
  BY <1>1, AppendProperties, LenProperties
<1>4. Len(b \o t) = 2 * k + 2
  <2>1. b \in Seq(Byte) /\ Len(b \o t) = Len(b) + Len(t)
    BY <1>1, ConcatProperties
  <2> QED
    BY <1>1, <2>1
<1> HIDE DEF more
<1>5. ASSUME NEW i \in 1 .. k PROVE ObjectAt(b \o t, i) = more[i]
  <2>1. i \in Nat \ {0} /\ 2 * i <= Len(b)
    BY <1>3
  <2>2. ObjectAt(b \o t, i) = ObjectAt(b, i)
    BY <1>1, <2>1, ObjectsStay
  <2> QED
    BY <1>3, <2>1, <2>2 DEF Written
<1> HIDE DEF k
<1>6. \A i \in 1 .. Len(more) : ObjectAt(b \o t, i) = more[i]
  BY <1>2, <1>3, <1>5
<1>7. Written(b \o t, more) /\ Len(b \o t) = 2 * Len(more)
  BY <1>3, <1>4, <1>6 DEF Written
<1> QED
  BY <1>7 DEF more, t

(* Writing an object, or failing to, keeps ReadInv. *)
LEMMA WriteReads ==
  ASSUME OwnInv, ReadInv, NEW w \in Wrappers, NEW o \in Objects, Write(w, o)
  PROVE  ReadInv'
<1>1. PICK n \in 0 .. 2 :
        /\ SetState(w, n < 2)
        /\ IF file[w] \in Files
           THEN /\ mode[file[w]] = "writing" \/ n = 0
                /\ bytes' = [bytes EXCEPT ![file[w]] = @ \o SubSeq(Bytes(o), 1, n)]
                /\ put' = IF n = 2 THEN [put EXCEPT ![file[w]] = Append(@, Bytes(o))]
                                   ELSE put
           ELSE UNCHANGED <<bytes, put>>
  BY Zenon DEF Write
<1>2. /\ w \in alive /\ Used(w)
      /\ UNCHANGED <<alive, file, bare, mode, at, lost, got, copied>>
  BY DEF Write
<1>3. failed' \in [Wrappers -> BOOLEAN]
  BY <1>1 DEF SetState, ReadInv, StreamTyped
<1>4. (n < 2) \in BOOLEAN
  OBVIOUS
<1>5. Heeding' =>
        /\ Heeding
        /\ \A f \in Files :
             /\ InUse(f)' => InUse(f)
             /\ f = file[w] => InUse(f) /\ (n < 2 => ~ InUse(f)')
  BY <1>1, <1>2, <1>4, OneUser
<1>6. CASE file[w] \notin Files
  <2>1. UNCHANGED <<bytes, put>>
    BY <1>1, <1>6
  <2>2. StreamTyped'
    BY <1>2, <1>3, <2>1 DEF ReadInv, StreamTyped
  <2>3. ASSUME Heeding', NEW f \in Files PROVE Good(f)'
    BY <1>2, <1>5, <2>1, <2>3, FileStays DEF ReadInv
  <2> QED
    BY <2>2, <2>3 DEF ReadInv
<1>7. CASE file[w] \in Files
  <2>0. PICK f \in Files : f = file[w]
    BY <1>7
  <2> DEFINE t == SubSeq(Bytes(o), 1, n)
  <2>1. /\ f \in Files /\ bytes[f] \in Seq(Byte) /\ put[f] \in Seq(Seq(Byte))
        /\ Bytes(o) \in Seq(Byte) /\ t \in Seq(Byte) /\ Len(t) = n
        /\ n = 2 => t = Bytes(o)
    BY <1>7, BytesWritten DEF ReadInv, StreamTyped
  <2>2. /\ mode[f] = "writing" \/ n = 0
        /\ bytes' = [bytes EXCEPT ![f] = bytes[f] \o t]
        /\ put' = IF n = 2 THEN [put EXCEPT ![f] = Append(put[f], Bytes(o))] ELSE put
    BY <1>1, <1>7, <2>0
  <2> HIDE DEF t
  <2>3. /\ bytes[f] \o t \in Seq(Byte) /\ Append(put[f], Bytes(o)) \in Seq(Seq(Byte))
    BY <2>1, ConcatProperties, AppendProperties
  <2>4. StreamTyped'
    BY <1>2, <1>3, <2>1, <2>2, <2>3 DEF ReadInv, StreamTyped
  <2>5. /\ bytes'[f] = bytes[f] \o t
        /\ put'[f] = IF n = 2 THEN Append(put[f], Bytes(o)) ELSE put[f]
        /\ \A g \in Files : g # f => bytes'[g] = bytes[g] /\ put'[g] = put[g]
    BY <2>1, <2>2 DEF ReadInv, StreamTyped
  <2>6. ASSUME Heeding', NEW g \in Files, g # f PROVE Good(g)'
    BY <1>2, <1>5, <2>5, <2>6, FileStays DEF ReadInv
  <2>7. ASSUME Heeding' PROVE Good(f)'
    <3>1. Good(f) /\ InUse(f) /\ (n < 2 => ~ InUse(f)')
      BY <1>5, <2>0, <2>7 DEF ReadInv
    <3>2. CASE n = 0
      <4>1. t = <<>>
        BY <2>1, <3>2
      <4>2. bytes'[f] = bytes[f] /\ put'[f] = put[f]
        BY <2>1, <2>5, <3>2, <4>1, ConcatEmptySeq
      <4>3. /\ f \in Files /\ Good(f) /\ (InUse(f)' => InUse(f)) /\ lost' = lost
            /\ got'[f] = got[f] /\ at'[f] = at[f] /\ mode'[f] = mode[f]
        BY <1>2, <2>1, <3>1
      <4> QED
        BY <4>2, <4>3, FileStays
    <3>3. CASE n # 0
      <4>1. mode[f] = "writing" /\ mode'[f] = "writing"
        BY <1>2, <2>2, <3>3
      <4>2. /\ Len(bytes[f]) = 2 * Len(put[f]) /\ at[f] = 2 * Len(got[f])
            /\ got[f] = <<>> /\ Written(bytes[f], put[f])
        BY <3>1, <4>1 DEF Good, Whole, ReadSoFar, InStep
      <4>3. ReadSoFar(f)'
        BY <1>2, <4>2 DEF ReadSoFar
      <4>4. CASE n = 1
        <5>1. Written(bytes[f] \o t, put[f])
          BY <2>1, <4>2, <4>4, WrittenHalf
        <5>2. Len(bytes[f] \o t) = 2 * Len(put[f]) + 1 /\ Len(put[f]) \in Nat
          <6>1. Len(bytes[f] \o t) = Len(bytes[f]) + Len(t) /\ Len(put[f]) \in Nat
            BY <2>1, ConcatProperties, LenProperties
          <6> QED
            BY <2>1, <4>2, <4>4, <6>1
        <5>3. Whole(f)'
          BY <2>5, <4>4, <5>1, <5>2 DEF Whole
        <5> QED
          BY <3>1, <4>3, <4>4, <5>3 DEF Good, InStep
      <4>5. CASE n = 2
        <5>1. bytes'[f] = bytes[f] \o Bytes(o) /\ put'[f] = Append(put[f], Bytes(o))
          BY <2>1, <2>5, <4>5
        <5>2. Written(bytes'[f], put'[f]) /\ Len(bytes'[f]) = 2 * Len(put'[f])
          BY <2>1, <4>2, <5>1, WrittenWhole
        <5>3. Len(put'[f]) \in Nat
          BY <2>1, <2>4 DEF StreamTyped
        <5>4. Whole(f)' /\ InStep(f)'
          BY <1>2, <4>2, <5>2, <5>3 DEF Whole, InStep
        <5> QED
          BY <4>3, <5>4 DEF Good
      <4> QED
        BY <3>3, <4>4, <4>5
    <3> QED
      BY <3>2, <3>3
  <2>8. ASSUME Heeding', NEW g \in Files PROVE Good(g)'
    <3>1. CASE g = f
      BY <2>7, <2>8, <3>1
    <3>2. CASE g # f
      BY <2>6, <2>8, <3>2
    <3> QED
      BY <3>1, <3>2
  <2> QED
    BY <2>4, <2>8 DEF ReadInv
<1> QED
  BY <1>6, <1>7

(* Reading an object, or failing to, keeps ReadInv. *)
LEMMA ObjectReads ==
  ASSUME OwnInv, ReadInv, NEW w \in Wrappers, ReadObject(w)
  PROVE  ReadInv'
<1>1. PICK n \in 0 .. 2 :
        /\ SetState(w, n < 2)
        /\ IF file[w] \in Files
           THEN /\ at[file[w]] + n <= Len(bytes[file[w]])
                /\ mode[file[w]] = "reading" \/ n = 0
                /\ at' = [at EXCEPT ![file[w]] = @ + n]
                /\ got' = IF n = 2
                          THEN [got EXCEPT ![file[w]] =
                                  Append(@, SubSeq(bytes[file[w]], at[file[w]] + 1,
                                                   at[file[w]] + 2))]
                          ELSE got
           ELSE UNCHANGED <<at, got>>
  BY Zenon DEF ReadObject
<1>2. /\ w \in alive /\ Used(w)
      /\ UNCHANGED <<alive, file, bare, mode, bytes, lost, put, copied>>
  BY DEF ReadObject
<1>3. failed' \in [Wrappers -> BOOLEAN]
  BY <1>1 DEF SetState, ReadInv, StreamTyped
<1>4. (n < 2) \in BOOLEAN
  OBVIOUS
<1>5. Heeding' =>
        /\ Heeding
        /\ \A f \in Files :
             /\ InUse(f)' => InUse(f)
             /\ f = file[w] => InUse(f) /\ (n < 2 => ~ InUse(f)')
  BY <1>1, <1>2, <1>4, OneUser
<1>6. CASE file[w] \notin Files
  <2>1. UNCHANGED <<at, got>>
    BY <1>1, <1>6
  <2>2. StreamTyped'
    BY <1>2, <1>3, <2>1 DEF ReadInv, StreamTyped
  <2>3. ASSUME Heeding', NEW f \in Files PROVE Good(f)'
    BY <1>2, <1>5, <2>1, <2>3, FileStays DEF ReadInv
  <2> QED
    BY <2>2, <2>3 DEF ReadInv
<1>7. CASE file[w] \in Files
  <2>1. PICK f \in Files : f = file[w]
    BY <1>7
  <2> DEFINE x == SubSeq(bytes[f], at[f] + 1, at[f] + 2)
  <2>2. /\ at[f] + n <= Len(bytes[f])
        /\ mode[f] = "reading" \/ n = 0
        /\ at' = [at EXCEPT ![f] = at[f] + n]
        /\ got' = IF n = 2 THEN [got EXCEPT ![f] = Append(got[f], x)] ELSE got
    BY <1>1, <1>7, <2>1
  <2>3. /\ at[f] \in Nat /\ bytes[f] \in Seq(Byte) /\ got[f] \in Seq(Seq(Byte))
        /\ Len(bytes[f]) \in Nat
    BY DEF ReadInv, StreamTyped
  <2>4. n = 2 => x \in Seq(Byte)
    <3>1. SUFFICES ASSUME n = 2 PROVE x \in Seq(Byte)
      OBVIOUS
    <3>2. /\ at[f] + 1 \in Int /\ at[f] + 2 \in Int
          /\ \A j \in at[f] + 1 .. at[f] + 2 : j \in 1 .. Len(bytes[f])
      BY <2>2, <2>3, <3>1
    <3>3. \A j \in at[f] + 1 .. at[f] + 2 : bytes[f][j] \in Byte
      BY <2>3, <3>2, ElementOfSeq
    <3> QED
      BY <3>2, <3>3, SubSeqProperties
  <2> HIDE DEF x
  <2>5. /\ at'[f] = at[f] + n
        /\ got'[f] = IF n = 2 THEN Append(got[f], x) ELSE got[f]
        /\ \A g \in Files : g # f => at'[g] = at[g] /\ got'[g] = got[g]
    BY <2>2, <2>3 DEF ReadInv, StreamTyped
  <2>6. StreamTyped'
    <3>1. n = 2 => Append(got[f], x) \in Seq(Seq(Byte))
      BY <2>3, <2>4, AppendProperties
    <3>2. at[f] + n \in Nat
      BY <2>3
    <3> QED
      BY <1>2, <1>3, <2>2, <3>1, <3>2 DEF ReadInv, StreamTyped
  <2>7. ASSUME Heeding', NEW g \in Files, g # f PROVE Good(g)'
    BY <1>2, <1>5, <2>5, <2>7, FileStays DEF ReadInv
  <2>8. ASSUME Heeding' PROVE Good(f)'
    <3>1. Good(f) /\ InUse(f) /\ (n < 2 => ~ InUse(f)')
      BY <1>5, <2>1, <2>8 DEF ReadInv
    <3>2. Whole(f)'
      BY <1>2, <3>1 DEF Good, Whole
    <3>3. CASE n < 2
      <4>1. n # 2
        BY <3>3
      <4>2. ReadSoFar(f)'
        BY <1>2, <2>5, <3>1, <4>1 DEF Good, ReadSoFar
      <4> QED
        BY <3>1, <3>2, <3>3, <4>2 DEF Good, InStep
    <3>4. CASE n = 2
      <4> DEFINE k == Len(got[f])
      <4>1. /\ at[f] = 2 * k /\ mode[f] # "writing" /\ mode'[f] = mode[f]
            /\ bytes'[f] = bytes[f] /\ k \in Nat
        BY <1>2, <2>2, <2>3, <3>1, <3>4 DEF Good, InStep
      <4>2. x = ObjectAt(bytes[f], k + 1) /\ 2 * (k + 1) <= Len(bytes[f])
        <5>1. at[f] + 1 = 2 * (k + 1) - 1 /\ at[f] + 2 = 2 * (k + 1)
          BY <4>1
        <5>2. 2 * (k + 1) <= Len(bytes[f])
          BY <2>2, <3>4, <5>1
        <5> QED
          BY <5>1, <5>2 DEF x, ObjectAt
      <4>3. /\ Len(got'[f]) = k + 1 /\ got'[f][k + 1] = x
            /\ \A i \in 1 .. k : got'[f][i] = got[f][i]
        BY <2>3, <2>4, <2>5, <3>4, AppendProperties
      <4>4. \A i \in 1 .. k :
              2 * i <= Len(bytes[f]) /\ got[f][i] = ObjectAt(bytes[f], i)
        BY <3>1 DEF Good, ReadSoFar
      <4> HIDE DEF k
      <4>5. ASSUME NEW i \in 1 .. k + 1
            PROVE  2 * i <= Len(bytes[f]) /\ got'[f][i] = ObjectAt(bytes[f], i)
        <5>1. CASE i = k + 1
          BY <4>2, <4>3, <5>1
        <5>2. CASE i # k + 1
          <6>1. i \in 1 .. k
            BY <4>1, <5>2
          <6> QED
            BY <4>3, <4>4, <6>1
        <5> QED
          BY <5>1, <5>2
      <4>6. ReadSoFar(f)'
        BY <4>1, <4>3, <4>5 DEF ReadSoFar
      <4>7. at'[f] = 2 * Len(got'[f])
        <5>1. at'[f] = at[f] + 2
          BY <2>5, <3>4
        <5> QED
          BY <4>1, <4>3, <5>1
      <4>8. InStep(f)'
        BY <4>1, <4>7 DEF InStep
      <4> QED
        BY <3>2, <4>6, <4>8 DEF Good
    <3> QED
      BY <3>3, <3>4
  <2>9. ASSUME Heeding', NEW g \in Files PROVE Good(g)'
    <3>1. CASE g = f
      BY <2>8, <2>9, <3>1
    <3>2. CASE g # f
      BY <2>7, <2>9, <3>2
    <3> QED
      BY <3>1, <3>2
  <2> QED
    BY <2>6, <2>9 DEF ReadInv
<1> QED
  BY <1>6, <1>7
-----------------------------------------------------------------------------
(* ReadInv holds in every reachable state. *)
LEMMA ReadInvAlways == Spec => []ReadInv
<1>1. Init => ReadInv
  <2> SUFFICES ASSUME Init PROVE ReadInv
    OBVIOUS
  <2>1. <<>> \in Seq(Byte) /\ <<>> \in Seq(Seq(Byte)) /\ Len(<<>>) = 0
    OBVIOUS
  <2>2. StreamTyped
    BY <2>1 DEF Init, StreamTyped
  <2>3. ASSUME NEW f \in Files PROVE Good(f)
    <3>1. /\ bytes[f] = <<>> /\ put[f] = <<>> /\ got[f] = <<>> /\ at[f] = 0
          /\ mode[f] = "closed"
      BY DEF Init
    <3> QED
      BY <2>1, <3>1 DEF Good, Whole, Written, ReadSoFar, InStep
  <2> QED
    BY <2>2, <2>3 DEF ReadInv
<1>2. OwnInv /\ ReadInv /\ Next => ReadInv'
  <2> SUFFICES ASSUME OwnInv, ReadInv, Next PROVE ReadInv'
    OBVIOUS
  <2>1. CASE \E f \in Files : CloseBare(f) \/ \E m \in {"reading", "writing"} : Open(f, m)
    BY <2>1, CloseBareReads, OpenReads
  <2>2. ASSUME NEW w \in Wrappers,
               \/ \E f \in Files \cup {NULL, Std} : Construct(w, f) \/ Assign(w, f)
               \/ \E v \in Wrappers : Copy(w, v)
               \/ Release(w) \/ FClose(w) \/ Destroy(w)
               \/ ReadObject(w) \/ (\E o \in Objects : Write(w, o)) \/ Clear(w)
        PROVE  ReadInv'
    BY <2>2, HandedOver, CloseFileReads, ObjectReads, WriteReads DEF Pointers
  <2> QED
    BY <2>1, <2>2 DEF Next
<1>3. OwnInv /\ ReadInv /\ UNCHANGED vars => ReadInv'
  <2> SUFFICES ASSUME ReadInv, UNCHANGED vars PROVE ReadInv'
    OBVIOUS
  <2>1. StreamTyped' /\ (Heeding' => Heeding) /\ \A f \in Files : InUse(f)' => InUse(f)
    BY DEF ReadInv, StreamTyped, Heeding, InUse, vars, wrappers, files, objects, history
  <2>2. ASSUME Heeding', NEW f \in Files PROVE Good(f)'
    BY <2>1, <2>2, FileStays DEF ReadInv, vars, files, objects
  <2> QED
    BY <2>1, <2>2 DEF ReadInv
<1> QED
  BY <1>1, <1>2, <1>3, OwnInvAlways, PTL DEF Spec

(* Who stops at the first failure and copies no wrapper reads back the     *)
(* objects that were written, in order and whole, up to where the file     *)
(* ends; and the file holds them all unless it was cut short when it was   *)
(* closed (read, write, setstate, fclose).                                 *)
THEOREM WhatIsWrittenIsRead == Spec => []ReadBack
<1>1. ReadInv => ReadBack
  <2> SUFFICES ASSUME ReadInv, Heeding, NEW f \in Files
               PROVE  /\ \A i \in DOMAIN got[f] : i \in DOMAIN put[f] /\ got[f][i] = put[f][i]
                      /\ f \notin lost =>
                           \A i \in DOMAIN put[f] :
                             SubSeq(bytes[f], 2 * i - 1, 2 * i) = put[f][i]
    BY DEF ReadBack, Heeding
  <2>1. /\ put[f] \in Seq(Seq(Byte)) /\ got[f] \in Seq(Seq(Byte)) /\ bytes[f] \in Seq(Byte)
    BY DEF ReadInv, StreamTyped
  <2>2. /\ DOMAIN put[f] = 1 .. Len(put[f]) /\ Len(put[f]) \in Nat
        /\ DOMAIN got[f] = 1 .. Len(got[f]) /\ Len(got[f]) \in Nat /\ Len(bytes[f]) \in Nat
    BY <2>1, LenProperties
  <2>3. /\ Len(bytes[f]) <= 2 * Len(put[f]) + 1
        /\ \A i \in 1 .. Len(put[f]) :
             2 * i <= Len(bytes[f]) => ObjectAt(bytes[f], i) = put[f][i]
        /\ f \notin lost => 2 * Len(put[f]) <= Len(bytes[f])
        /\ \A i \in 1 .. Len(got[f]) :
             2 * i <= Len(bytes[f]) /\ got[f][i] = ObjectAt(bytes[f], i)
    BY DEF ReadInv, Good, Whole, Written, ReadSoFar
  <2>4. \A i \in DOMAIN got[f] : i \in DOMAIN put[f] /\ got[f][i] = put[f][i]
    BY <2>2, <2>3
  <2>5. f \notin lost => \A i \in DOMAIN put[f] : ObjectAt(bytes[f], i) = put[f][i]
    BY <2>2, <2>3
  <2> QED
    BY <2>4, <2>5 DEF ObjectAt
<1> QED
  BY <1>1, ReadInvAlways, PTL
=============================================================================
