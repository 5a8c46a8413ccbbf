------------------------- MODULE StoredBoardsProofs -------------------------
(***************************************************************************)
(* The safety of the store, for every set of rooms and boards, every width *)
(* of the integers, and every order of save, prune, list, load, damage and *)
(* restart.                                                                *)
(*                                                                         *)
(* The first part is about the blob.  The conversions are recursive, so    *)
(* they are reasoned about by induction over their steps (UpTo, which is   *)
(* about a set of numbers): appendLE() and readLE() are inverse to each    *)
(* other on numbers that fit (ReadBack), and serializeStrokes() puts the   *)
(* strokes of a board one behind the other (Layout).  Tracks is what a     *)
(* load keeps while it reads: it is somewhere in that layout, and what it  *)
(* has read is the part of the board before.  It says this of every board  *)
(* whose bytes agree with the blob as far as both go, so that a blob which *)
(* lost its end or grew is covered: the load of it reaches the end of the  *)
(* board at another place than the end of the blob.                        *)
(*                                                                         *)
(* The other properties are about queries that read the table at different *)
(* times, so they need what the table keeps from one to the next: ids are  *)
(* handed out once (IdsOnce), what list() returned was saved (ListedSaved),*)
(* and an older row outlives a newer one only with a later reading of the  *)
(* clock (OutlivedByLater), which needs no premise about the clock.  The   *)
(* reader's bounds need the blob to be a finite sequence wherever it comes *)
(* from (BlobsOk, LoadOk).                                                 *)
(***************************************************************************)
EXTENDS StoredBoards, SequenceTheorems, FiniteSetTheorems, NaturalsInduction,
        WellFoundedInduction, TLAPS

(* The values of a blob.                                                   *)
Bytes == Seq(0 .. Base - 1)

-----------------------------------------------------------------------------
(* Induction up to a bound, for a set of numbers.                          *)
LEMMA UpTo ==
  ASSUME NEW n \in Nat, NEW S, 0 \in S, \A i \in 0 .. n - 1 : i \in S => i + 1 \in S
  PROVE  \A i \in 0 .. n : i \in S
<1> SUFFICES ASSUME \E i \in 0 .. n : i \notin S PROVE FALSE
  OBVIOUS
<1> DEFINE T == {i \in 0 .. n : i \notin S}
<1>1. T \subseteq Nat /\ T # {}
  OBVIOUS
<1>2. PICK R : R = {ss \in Nat \X Nat : ss[1] < ss[2]}
  OBVIOUS
<1>3. IsWellFoundedOn(R, Nat)
  BY <1>2, NatLessThanWellFounded, Zenon DEF OpToRel
<1>4. PICK m \in T : \A y \in T : ~(<<y, m>> \in R)
  <2> HIDE DEF T
  <2> QED
    BY <1>1, <1>3, WFMin
<1>5. m \in 0 .. n /\ m \notin S /\ m # 0
  OBVIOUS
<1>6. m - 1 \in 0 .. n - 1 /\ m - 1 \in Nat /\ m - 1 < m
  BY <1>5
<1>7. m - 1 \notin T
  <2>1. <<m - 1, m>> \in R
    BY <1>2, <1>5, <1>6
  <2> QED
    BY <1>4, <2>1
<1>8. m - 1 \in S
  BY <1>6, <1>7
<1>9. (m - 1) + 1 \in S
  BY <1>6, <1>8
<1> QED
  BY <1>5, <1>9

(* f starts with a and goes on as G says, k times.                         *)
Iterates(f, S, a, k, G) ==
  /\ f \in [0 .. k -> S] /\ f[0] = a
  /\ \A i \in 1 .. k : f[i] = G[<<f[i - 1], i>>]

(* There is a function with such values.                                   *)
LEMMA RecursionExists ==
  ASSUME NEW S, NEW a \in S, NEW k \in Nat, NEW G \in [S \X (1 .. k) -> S]
  PROVE  \E f : Iterates(f, S, a, k, G)
<1> DEFINE Upto(n, f) == f[0] = a /\ \A i \in 1 .. n : f[i] = G[<<f[i - 1], i>>]
           T == {n \in 0 .. k : \E f \in [0 .. n -> S] : Upto(n, f)}
<1>1. 0 \in T
  <2>1. PICK f : f = [i \in 0 .. 0 |-> a]
    OBVIOUS
  <2>2. f \in [0 .. 0 -> S] /\ f[0] = a /\ 1 .. 0 = {}
    BY <2>1
  <2>3. Upto(0, f) /\ 0 \in 0 .. k
    BY <2>2
  <2> QED
    BY <2>2, <2>3
<1>2. ASSUME NEW n \in 0 .. k - 1, n \in T PROVE n + 1 \in T
  <2>1. PICK f \in [0 .. n -> S] : Upto(n, f)
    BY <1>2
  <2>2. PICK v \in S : v = G[<<f[n], n + 1>>]
    <3>1. f[n] \in S /\ n + 1 \in 1 .. k
      OBVIOUS
    <3> QED
      BY <3>1
  <2>3. PICK g : g = [i \in 0 .. n + 1 |-> IF i = n + 1 THEN v ELSE f[i]]
    OBVIOUS
  <2>4. g \in [0 .. n + 1 -> S]
    BY <2>3
  <2>5. g[0] = a /\ g[n + 1] = v /\ \A i \in 0 .. n : g[i] = f[i]
    BY <2>1, <2>3
  <2>6. ASSUME NEW i \in 1 .. n + 1 PROVE g[i] = G[<<g[i - 1], i>>]
    <3>1. CASE i = n + 1
      BY <2>2, <2>5, <3>1
    <3>2. CASE i \in 1 .. n
      BY <2>1, <2>5, <3>2
    <3> QED
      BY <3>1, <3>2
  <2>7. Upto(n + 1, g)
    BY <2>5, <2>6
  <2>8. n + 1 \in 0 .. k
    OBVIOUS
  <2> QED
    BY <2>4, <2>7, <2>8
<1>3. k \in T
  <2> HIDE DEF T
  <2> QED
    BY <1>1, <1>2, UpTo
<1> QED
  BY <1>3 DEF Iterates

(* The byte that is written and the bytes that are left make up the number. *)
LEMMA Division ==
  ASSUME NEW n \in Nat
  PROVE  /\ n \div Base \in Nat /\ n % Base \in 0 .. Base - 1
         /\ n = (n \div Base) * Base + (n % Base)
BY StoredAssumption

(* So does whatever satisfies the recursion.                               *)
LEMMA Iterated ==
  ASSUME NEW S, NEW a \in S, NEW k \in Nat, NEW G \in [S \X (1 .. k) -> S],
         NEW h, h = [i \in 0 .. k |-> h[i]], h[0] = a,
         \A i \in 1 .. k : h[i - 1] \in S => h[i] = G[<<h[i - 1], i>>]
  PROVE  Iterates(h, S, a, k, G)
<1> DEFINE T == {i \in 0 .. k : h[i] \in S}
<1>1. \A i \in 0 .. k : i \in T
  <2>1. 0 \in T
    OBVIOUS
  <2>2. ASSUME NEW i \in 0 .. k - 1, i \in T PROVE i + 1 \in T
    <3>1. i + 1 \in 1 .. k /\ (i + 1) - 1 = i /\ i + 1 \in 0 .. k
      OBVIOUS
    <3>2. h[i] \in S
      BY <2>2
    <3>3. h[i + 1] = G[<<h[i], i + 1>>]
      BY <3>1, <3>2
    <3>4. G[<<h[i], i + 1>>] \in S
      BY <3>1, <3>2
    <3> QED
      BY <3>1, <3>3, <3>4
  <2> HIDE DEF T
  <2> QED
    BY <2>1, <2>2, UpTo
<1>2. h \in [0 .. k -> S]
  BY <1>1
<1>3. ASSUME NEW i \in 1 .. k PROVE h[i] = G[<<h[i - 1], i>>]
  <2>1. h[i - 1] \in S
    BY <1>2
  <2> QED
    BY <2>1
<1> QED
  BY <1>2, <1>3 DEF Iterates

(* What Shifted() computes, one byte after the other.                      *)
LEMMA ShiftedOk ==
  ASSUME NEW n \in Nat, NEW size \in Nat
  PROVE  /\ Shifted(n, size) \in [0 .. size -> Nat]
         /\ Shifted(n, size)[0] = n
         /\ \A i \in 1 .. size : Shifted(n, size)[i] = Shifted(n, size)[i - 1] \div Base
<1>1. PICK G : G = [z \in Nat \X (1 .. size) |-> z[1] \div Base]
  OBVIOUS
<1>2. G \in [Nat \X (1 .. size) -> Nat]
  <2>1. \A m \in Nat : m \div Base \in Nat
    BY Division
  <2>2. \A z \in Nat \X (1 .. size) : z[1] \in Nat
    OBVIOUS
  <2> QED
    BY <1>1, <2>1, <2>2
<1>3. \A m \in Nat, i \in 1 .. size : G[<<m, i>>] = m \div Base
  BY <1>1
<1>4. PICK f : Iterates(f, Nat, n, size, G)
  BY <1>2, RecursionExists
<1>5. f = [i \in 0 .. size |-> IF i = 0 THEN n ELSE f[i - 1] \div Base]
  <2>1. ASSUME NEW i \in 1 .. size PROVE f[i] = f[i - 1] \div Base
    <3>1. f[i - 1] \in Nat /\ f[i] = G[<<f[i - 1], i>>]
      BY <1>4 DEF Iterates
    <3> QED
      BY <1>3, <3>1
  <2> QED
    BY <1>4, <2>1 DEF Iterates
<1>6. PICK h : h = Shifted(n, size)
  OBVIOUS
<1>7. h = [i \in 0 .. size |-> IF i = 0 THEN n ELSE h[i - 1] \div Base]
  BY <1>5, <1>6, Zenon DEF Shifted
<1>8. /\ h[0] = n /\ \A i \in 1 .. size : h[i] = h[i - 1] \div Base
      /\ h = [i \in 0 .. size |-> h[i]]
  <2>1. h[0] = n
    BY <1>7
  <2>2. \A i \in 1 .. size : h[i] = h[i - 1] \div Base
    BY <1>7
  <2>3. h = [i \in 0 .. size |-> h[i]]
    BY <1>7
  <2> QED
    BY <2>1, <2>2, <2>3
<1>9. \A i \in 1 .. size : h[i - 1] \in Nat => h[i] = G[<<h[i - 1], i>>]
  BY <1>3, <1>8
<1>10. Iterates(h, Nat, n, size, G)
  BY <1>2, <1>8, <1>9, Iterated
<1> QED
  BY <1>6, <1>8, <1>10 DEF Iterates

(* 1 fits into any number of bytes.                                        *)
LEMMA OneFits ==
  ASSUME NEW size \in Nat \ {0}
  PROVE  0 \in Numbers(size) /\ 1 \in Numbers(size)
<1>1. ASSUME NEW n \in {0, 1} PROVE Shifted(n, size)[size] = 0
  <2>1. PICK h : h = Shifted(n, size)
    OBVIOUS
  <2>2. h[0] = n /\ \A i \in 1 .. size : h[i] = h[i - 1] \div Base
    <3>1. n \in Nat /\ size \in Nat
      OBVIOUS
    <3> QED
      BY <2>1, <3>1, ShiftedOk
  <2>3. h[1] = 0
    <3>1. h[1] = n \div Base
      BY <2>2
    <3> QED
      BY <3>1, StoredAssumption
  <2> DEFINE T == {i \in 0 .. size : i = 0 \/ h[i] = 0}
  <2>4. \A i \in 0 .. size : i \in T
    <3>1. 0 \in T
      OBVIOUS
    <3>2. ASSUME NEW i \in 0 .. size - 1, i \in T PROVE i + 1 \in T
      <4>1. i + 1 \in 1 .. size /\ (i + 1) - 1 = i
        OBVIOUS
      <4>2. h[i + 1] = h[i] \div Base
        BY <2>2, <4>1
      <4>3. 0 \div Base = 0
        BY StoredAssumption
      <4>4. h[i + 1] = 0
        BY <2>3, <3>2, <4>2, <4>3
      <4> QED
        BY <4>1, <4>4
    <3> HIDE DEF T
    <3> QED
      BY <3>1, <3>2, UpTo
  <2> QED
    BY <2>1, <2>4
<1> QED
  BY <1>1 DEF Numbers

-----------------------------------------------------------------------------
(* T goes on where S ends.                                                 *)
Extends(S, T) == Len(S) <= Len(T) /\ \A i \in 1 .. Len(S) : T[i] = S[i]

(* The bytes of S after the first o are those of n.                        *)
Holds(S, o, n, size) ==
  /\ o + size <= Len(S)
  /\ \A i \in 1 .. size : S[o + i] = Shifted(n, size)[i - 1] % Base

(* appendLE() leaves what is in the buffer and adds the bytes of n.        *)
LEMMA AppendLEOk ==
  ASSUME NEW buf \in Bytes, NEW n \in Nat, NEW size \in Nat
  PROVE  /\ AppendLE(buf, n, size) \in Bytes
         /\ Len(AppendLE(buf, n, size)) = Len(buf) + size
         /\ Extends(buf, AppendLE(buf, n, size))
         /\ Holds(AppendLE(buf, n, size), Len(buf), n, size)
<1>1. PICK h \in [0 .. size -> Nat] : h = Shifted(n, size)
  BY ShiftedOk
<1>2. PICK e : e = [i \in 1 .. size |-> h[i - 1] % Base]
  OBVIOUS
<1>3. PICK B : B = 0 .. Base - 1
  OBVIOUS
<1>4. e \in [1 .. size -> B]
  <2>1. \A i \in 1 .. size : h[i - 1] % Base \in B
    <3>1. \A m \in Nat : m % Base \in B
      BY <1>3, StoredAssumption
    <3>2. \A i \in 1 .. size : h[i - 1] \in Nat
      OBVIOUS
    <3> QED
      BY <3>1, <3>2
  <2> QED
    BY <1>2, <2>1
<1>5. e \in Seq(B) /\ Len(e) = size
  BY <1>4
<1>6. buf \in Seq(B) /\ Len(buf) \in Nat
  BY <1>3, LenProperties DEF Bytes
<1>7. AppendLE(buf, n, size) = buf \o e
  BY <1>1, <1>2 DEF AppendLE
<1>8. PICK out : out = buf \o e
  OBVIOUS
<1>9. /\ out \in Seq(B) /\ Len(out) = Len(buf) + size
      /\ \A i \in 1 .. Len(buf) + size :
           out[i] = IF i <= Len(buf) THEN buf[i] ELSE e[i - Len(buf)]
  BY <1>5, <1>6, <1>8, ConcatProperties
<1>10. Extends(buf, out)
  BY <1>6, <1>9 DEF Extends
<1>11. ASSUME NEW i \in 1 .. size PROVE out[Len(buf) + i] = Shifted(n, size)[i - 1] % Base
  <2>1. PICK m \in Nat : m = Len(buf)
    BY <1>6
  <2>2. m + i \in 1 .. m + size /\ ~(m + i <= m) /\ (m + i) - m = i
    OBVIOUS
  <2>3. out[m + i] = e[i]
    BY <1>9, <2>1, <2>2
  <2> QED
    BY <1>1, <1>2, <2>1, <2>3
<1>12. Holds(out, Len(buf), n, size)
  BY <1>6, <1>9, <1>11 DEF Holds
<1> QED
  BY <1>3, <1>7, <1>8, <1>9, <1>10, <1>12 DEF Bytes

(* What is in a buffer stays there while it grows.                         *)
LEMMA ExtendsLater ==
  ASSUME NEW S \in Bytes, NEW T \in Bytes, NEW U \in Bytes, Extends(S, T), Extends(T, U)
  PROVE  Extends(S, U)
<1>1. PICK l \in Nat, m \in Nat, n \in Nat : l = Len(S) /\ m = Len(T) /\ n = Len(U)
  BY LenProperties DEF Bytes
<1> QED
  BY <1>1 DEF Extends

(* A number that was written stays where it is.                            *)
LEMMA HoldsLater ==
  ASSUME NEW S \in Bytes, NEW T \in Bytes, Extends(S, T),
         NEW o \in Nat, NEW n, NEW size \in Nat, Holds(S, o, n, size)
  PROVE  Holds(T, o, n, size)
<1>1. PICK l \in Nat, m \in Nat : l = Len(S) /\ m = Len(T)
  BY LenProperties DEF Bytes
<1>2. l <= m /\ o + size <= l
  BY <1>1 DEF Extends, Holds
<1>3. ASSUME NEW i \in 1 .. size PROVE T[o + i] = Shifted(n, size)[i - 1] % Base
  <2>1. o + i \in 1 .. l
    BY <1>2
  <2>2. T[o + i] = S[o + i]
    BY <1>1, <2>1 DEF Extends
  <2> QED
    BY <2>2 DEF Holds
<1> QED
  BY <1>1, <1>2, <1>3 DEF Holds

-----------------------------------------------------------------------------
(* The bytes of a point and those of the members of a stroke before its    *)
(* points.                                                                 *)
PointAt(S, o, pt) == Holds(S, o, pt.x, SizeFloat) /\ Holds(S, o + SizeFloat, pt.y, SizeFloat)

HeadAt(S, o, s) ==
  /\ Holds(S, o, s.id, Size64)
  /\ Holds(S, o + Size64, s.author, Size64)
  /\ Holds(S, o + 2 * Size64, s.color, 1)
  /\ Holds(S, o + 2 * Size64 + 1, s.thickness, 1)
  /\ Holds(S, o + 2 * Size64 + 2, s.strokeOrder, Size64)
  /\ Holds(S, o + 3 * Size64 + 2, IF s.finished THEN 1 ELSE 0, 1)
  /\ Holds(S, o + 3 * Size64 + 3, Len(s.points), Size32)

(* Where the points of a stroke whose members end at o are.                *)
PointPos(o, j) == o + j * (2 * SizeFloat)

(* Points follow one another.                                              *)
LEMMA PointPosStep ==
  ASSUME NEW o \in Nat, NEW j \in Nat
  PROVE  /\ PointPos(o, 0) = o
         /\ PointPos(o, j) \in Nat
         /\ PointPos(o, j + 1) = PointPos(o, j) + 2 * SizeFloat
BY StoredAssumption DEF PointPos

(* A point is written as its two coordinates.                              *)
LEMMA AppendPointOk ==
  ASSUME NEW buf \in Bytes, NEW pt \in Point
  PROVE  /\ AppendPoint(buf, pt) \in Bytes
         /\ Len(AppendPoint(buf, pt)) = Len(buf) + 2 * SizeFloat
         /\ Extends(buf, AppendPoint(buf, pt))
         /\ PointAt(AppendPoint(buf, pt), Len(buf), pt)
<1>1. pt.x \in Nat /\ pt.y \in Nat /\ SizeFloat \in Nat /\ Len(buf) \in Nat
  BY StoredAssumption, LenProperties DEF Point, Numbers, Bytes
<1>2. PICK b1 : b1 = AppendLE(buf, pt.x, SizeFloat)
  OBVIOUS
<1>3. /\ b1 \in Bytes /\ Len(b1) = Len(buf) + SizeFloat
      /\ Extends(buf, b1) /\ Holds(b1, Len(buf), pt.x, SizeFloat)
  BY <1>1, <1>2, AppendLEOk
<1>4. PICK b2 : b2 = AppendLE(b1, pt.y, SizeFloat)
  OBVIOUS
<1>5. /\ b2 \in Bytes /\ Len(b2) = Len(b1) + SizeFloat
      /\ Extends(b1, b2) /\ Holds(b2, Len(b1), pt.y, SizeFloat)
  BY <1>1, <1>3, <1>4, AppendLEOk
<1>6. b2 = AppendPoint(buf, pt)
  BY <1>2, <1>4 DEF AppendPoint
<1>7. Extends(buf, b2)
  BY <1>3, <1>5, ExtendsLater
<1>8. Holds(b2, Len(buf), pt.x, SizeFloat)
  BY <1>1, <1>3, <1>5, HoldsLater
<1>9. Len(b2) = Len(buf) + 2 * SizeFloat
  BY <1>1, <1>3, <1>5
<1> QED
  BY <1>3, <1>5, <1>6, <1>7, <1>8, <1>9 DEF PointAt

(* A stroke is written as its numbers, one after the other, and its points. *)
LEMMA HeadOk ==
  ASSUME NEW buf \in Bytes, NEW s \in Stroke
  PROVE  \E hd \in Bytes :
           /\ AppendStroke(buf, s) = AppendPoints(hd, s.points)
           /\ Len(hd) = Len(buf) + StrokeSize
           /\ Extends(buf, hd) /\ HeadAt(hd, Len(buf), s)
<1>1. /\ s.id \in Nat /\ s.author \in Nat /\ s.color \in Nat /\ s.thickness \in Nat
      /\ s.strokeOrder \in Nat /\ Len(s.points) \in Nat
  <2>1. s.points \in Seq(Point)
    BY DEF Stroke
  <2>2. Len(s.points) \in Nat
    BY <2>1, LenProperties
  <2> QED
    BY <2>2 DEF Stroke, Numbers
<1>2. PICK f \in Nat : f = IF s.finished THEN 1 ELSE 0
  OBVIOUS
<1>3. Size32 \in Nat /\ Size64 \in Nat /\ 1 \in Nat
  BY StoredAssumption
<1>4. PICK o \in Nat : o = Len(buf)
  BY LenProperties DEF Bytes
<1>5. PICK o1 \in Nat, o2 \in Nat, o3 \in Nat, o4 \in Nat, o5 \in Nat, o6 \in Nat, o7 \in Nat :
         /\ o1 = o + Size64 /\ o2 = o + 2 * Size64 /\ o3 = o + 2 * Size64 + 1
         /\ o4 = o + 2 * Size64 + 2 /\ o5 = o + 3 * Size64 + 2 /\ o6 = o + 3 * Size64 + 3
         /\ o7 = o + StrokeSize
  BY <1>3 DEF StrokeSize
<1>6. /\ o1 = o + Size64 /\ o2 = o1 + Size64 /\ o3 = o2 + 1 /\ o4 = o3 + 1
       /\ o5 = o4 + Size64 /\ o6 = o5 + 1 /\ o7 = o6 + Size32
  BY <1>3, <1>5 DEF StrokeSize
<1>7. PICK b1 : b1 = AppendLE(buf, s.id, Size64)
  OBVIOUS
<1>8. b1 \in Bytes /\ Len(b1) = o1 /\ Extends(buf, b1) /\ Holds(b1, o, s.id, Size64)
  <2>1. /\ b1 \in Bytes /\ Len(b1) = Len(buf) + Size64 /\ Extends(buf, b1)
        /\ Holds(b1, Len(buf), s.id, Size64)
    BY <1>1, <1>3, <1>4, <1>7, AppendLEOk
  <2> QED
    BY <1>6, <1>4, <2>1
<1>9. PICK b2 : b2 = AppendLE(b1, s.author, Size64)
  OBVIOUS
<1>10. b2 \in Bytes /\ Len(b2) = o2 /\ Extends(b1, b2) /\ Holds(b2, o1, s.author, Size64)
  <2>1. /\ b2 \in Bytes /\ Len(b2) = Len(b1) + Size64 /\ Extends(b1, b2)
        /\ Holds(b2, Len(b1), s.author, Size64)
    BY <1>1, <1>3, <1>8, <1>9, AppendLEOk
  <2> QED
    BY <1>6, <1>8, <2>1
<1>11. PICK b3 : b3 = AppendLE(b2, s.color, 1)
  OBVIOUS
<1>12. b3 \in Bytes /\ Len(b3) = o3 /\ Extends(b2, b3) /\ Holds(b3, o2, s.color, 1)
  <2>1. /\ b3 \in Bytes /\ Len(b3) = Len(b2) + 1 /\ Extends(b2, b3)
        /\ Holds(b3, Len(b2), s.color, 1)
    BY <1>1, <1>3, <1>10, <1>11, AppendLEOk
  <2> QED
    BY <1>6, <1>10, <2>1
<1>13. PICK b4 : b4 = AppendLE(b3, s.thickness, 1)
  OBVIOUS
<1>14. b4 \in Bytes /\ Len(b4) = o4 /\ Extends(b3, b4) /\ Holds(b4, o3, s.thickness, 1)
  <2>1. /\ b4 \in Bytes /\ Len(b4) = Len(b3) + 1 /\ Extends(b3, b4)
        /\ Holds(b4, Len(b3), s.thickness, 1)
    BY <1>1, <1>3, <1>12, <1>13, AppendLEOk
  <2> QED
    BY <1>6, <1>12, <2>1
<1>15. PICK b5 : b5 = AppendLE(b4, s.strokeOrder, Size64)
  OBVIOUS
<1>16. b5 \in Bytes /\ Len(b5) = o5 /\ Extends(b4, b5) /\ Holds(b5, o4, s.strokeOrder, Size64)
  <2>1. /\ b5 \in Bytes /\ Len(b5) = Len(b4) + Size64 /\ Extends(b4, b5)
        /\ Holds(b5, Len(b4), s.strokeOrder, Size64)
    BY <1>1, <1>3, <1>14, <1>15, AppendLEOk
  <2> QED
    BY <1>6, <1>14, <2>1
<1>17. PICK b6 : b6 = AppendLE(b5, f, 1)
  OBVIOUS
<1>18. b6 \in Bytes /\ Len(b6) = o6 /\ Extends(b5, b6) /\ Holds(b6, o5, f, 1)
  <2>1. /\ b6 \in Bytes /\ Len(b6) = Len(b5) + 1 /\ Extends(b5, b6)
        /\ Holds(b6, Len(b5), f, 1)
    BY <1>1, <1>3, <1>16, <1>17, AppendLEOk
  <2> QED
    BY <1>6, <1>16, <2>1
<1>19. PICK b7 : b7 = AppendLE(b6, Len(s.points), Size32)
  OBVIOUS
<1>20. b7 \in Bytes /\ Len(b7) = o7 /\ Extends(b6, b7) /\ Holds(b7, o6, Len(s.points), Size32)
  <2>1. /\ b7 \in Bytes /\ Len(b7) = Len(b6) + Size32 /\ Extends(b6, b7)
        /\ Holds(b7, Len(b6), Len(s.points), Size32)
    BY <1>1, <1>3, <1>18, <1>19, AppendLEOk
  <2> QED
    BY <1>6, <1>18, <2>1
<1>21. AppendStroke(buf, s) = AppendPoints(b7, s.points)
  BY <1>2, <1>7, <1>9, <1>11, <1>13, <1>15, <1>17, <1>19 DEF AppendStroke
<1>22. /\ Extends(b5, b7) /\ Extends(b4, b7) /\ Extends(b3, b7) /\ Extends(b2, b7)
       /\ Extends(b1, b7) /\ Extends(buf, b7)
  <2>1. Extends(b5, b7)
    BY <1>16, <1>18, <1>20, ExtendsLater
  <2>2. Extends(b4, b7)
    BY <1>14, <1>16, <1>20, <2>1, ExtendsLater
  <2>3. Extends(b3, b7)
    BY <1>12, <1>14, <1>20, <2>2, ExtendsLater
  <2>4. Extends(b2, b7)
    BY <1>10, <1>12, <1>20, <2>3, ExtendsLater
  <2>5. Extends(b1, b7)
    BY <1>8, <1>10, <1>20, <2>4, ExtendsLater
  <2>6. Extends(buf, b7)
    BY <1>8, <1>20, <2>5, ExtendsLater
  <2> QED
    BY <2>1, <2>2, <2>3, <2>4, <2>5, <2>6
<1>23. /\ Holds(b7, o, s.id, Size64) /\ Holds(b7, o1, s.author, Size64)
       /\ Holds(b7, o2, s.color, 1)
  BY <1>3, <1>8, <1>10, <1>12, <1>20, <1>22, HoldsLater
<1>24. /\ Holds(b7, o3, s.thickness, 1) /\ Holds(b7, o4, s.strokeOrder, Size64)
       /\ Holds(b7, o5, f, 1)
  BY <1>3, <1>14, <1>16, <1>18, <1>20, <1>22, HoldsLater
<1>25. HeadAt(b7, o, s)
  BY <1>2, <1>20, <1>5, <1>23, <1>24 DEF HeadAt
<1> QED
  BY <1>4, <1>21, <1>5, <1>20, <1>22, <1>25

(* A point stays where it was written.                                     *)
LEMMA PointLater ==
  ASSUME NEW S \in Bytes, NEW T \in Bytes, Extends(S, T),
         NEW o \in Nat, NEW pt, PointAt(S, o, pt)
  PROVE  PointAt(T, o, pt)
<1>1. SizeFloat \in Nat /\ o + SizeFloat \in Nat
  BY StoredAssumption
<1> QED
  BY <1>1, HoldsLater DEF PointAt

(* All the points of a stroke are written, in their order.                 *)
LEMMA AppendPointsOk ==
  ASSUME NEW buf \in Bytes, NEW points \in Seq(Point)
  PROVE  \E out \in Bytes :
           /\ out = AppendPoints(buf, points)
           /\ Len(out) = PointPos(Len(buf), Len(points))
           /\ Extends(buf, out)
           /\ \A j \in 1 .. Len(points) : PointAt(out, PointPos(Len(buf), j - 1), points[j])
<1>1. PICK m \in Nat, o \in Nat : m = Len(points) /\ o = Len(buf)
  BY LenProperties DEF Bytes
<1>2. \A j \in 1 .. m : points[j] \in Point
  BY <1>1
<1>3. PICK G : G = [z \in Bytes \X (1 .. m) |-> AppendPoint(z[1], points[z[2]])]
  OBVIOUS
<1>4. G \in [Bytes \X (1 .. m) -> Bytes]
  <2>1. \A c \in Bytes, j \in 1 .. m : AppendPoint(c, points[j]) \in Bytes
    BY <1>2, AppendPointOk
  <2>2. \A z \in Bytes \X (1 .. m) : z[1] \in Bytes /\ z[2] \in 1 .. m
    OBVIOUS
  <2> QED
    BY <1>3, <2>1, <2>2
<1>5. \A c \in Bytes, j \in 1 .. m : G[<<c, j>>] = AppendPoint(c, points[j])
  BY <1>3
<1>6. PICK f : Iterates(f, Bytes, buf, m, G)
  BY <1>4, RecursionExists
<1>7. f = [j \in 0 .. m |-> IF j = 0 THEN buf ELSE AppendPoint(f[j - 1], points[j])]
  <2>1. ASSUME NEW j \in 1 .. m PROVE f[j] = AppendPoint(f[j - 1], points[j])
    <3>1. f[j - 1] \in Bytes /\ f[j] = G[<<f[j - 1], j>>]
      BY <1>6 DEF Iterates
    <3> QED
      BY <1>5, <3>1
  <2> QED
    BY <1>6, <2>1 DEF Iterates
<1>8. PICK h : /\ h = [j \in 0 .. m |->
                        IF j = 0 THEN buf ELSE AppendPoint(h[j - 1], points[j])]
               /\ AppendPoints(buf, points) = h[m]
  <2>1. PICK h : h = CHOOSE g : g = [j \in 0 .. m |-> IF j = 0 THEN buf
                                                    ELSE AppendPoint(g[j - 1], points[j])]
    OBVIOUS
  <2>2. h = [j \in 0 .. m |-> IF j = 0 THEN buf ELSE AppendPoint(h[j - 1], points[j])]
    BY <1>7, <2>1, Zenon
  <2>3. AppendPoints(buf, points) = h[m]
    BY <1>1, <2>1, Zenon DEF AppendPoints
  <2> QED
    BY <2>2, <2>3
<1>9. h[0] = buf
  BY <1>8
<1>10. \A j \in 1 .. m : h[j] = AppendPoint(h[j - 1], points[j])
  BY <1>8
<1> DEFINE T == {j \in 0 .. m : /\ h[j] \in Bytes /\ Extends(buf, h[j])
                                /\ Len(h[j]) = PointPos(o, j)
                                /\ \A l \in 1 .. j : PointAt(h[j], PointPos(o, l - 1), points[l])}
<1>11. 0 \in T
  <2>1. Extends(buf, buf)
    BY <1>1 DEF Extends
  <2>2. Len(buf) = PointPos(o, 0) /\ 0 \in 0 .. m /\ 1 .. 0 = {}
    BY <1>1, PointPosStep
  <2> QED
    BY <1>9, <2>1, <2>2
<1>12. ASSUME NEW j \in 0 .. m - 1, j \in T PROVE j + 1 \in T
  <2>1. PICK c \in Bytes : c = h[j]
    BY <1>12
  <2>2. /\ Extends(buf, c) /\ Len(c) = PointPos(o, j)
        /\ \A l \in 1 .. j : PointAt(c, PointPos(o, l - 1), points[l])
    BY <1>12, <2>1
  <2>3. j + 1 \in 1 .. m /\ (j + 1) - 1 = j /\ j \in Nat /\ j + 1 \in 0 .. m
    OBVIOUS
  <2>4. PICK pt \in Point : pt = points[j + 1]
    BY <1>2, <2>3
  <2>5. PICK d : d = AppendPoint(c, pt)
    OBVIOUS
  <2>6. /\ d \in Bytes /\ Len(d) = Len(c) + 2 * SizeFloat
        /\ Extends(c, d) /\ PointAt(d, Len(c), pt)
    BY <2>5, AppendPointOk
  <2>7. h[j + 1] = d
    BY <1>10, <2>1, <2>3, <2>4, <2>5
  <2>8. Extends(buf, d)
    BY <2>2, <2>6, ExtendsLater
  <2>9. Len(d) = PointPos(o, j + 1)
    BY <2>2, <2>3, <2>6, PointPosStep
  <2>10. ASSUME NEW l \in 1 .. j + 1 PROVE PointAt(d, PointPos(o, l - 1), points[l])
    <3>1. CASE l = j + 1
      BY <2>2, <2>3, <2>4, <2>6, <3>1
    <3>2. CASE l \in 1 .. j
      <4>1. l - 1 \in Nat
        BY <3>2
      <4>2. PointPos(o, l - 1) \in Nat
        BY <4>1, PointPosStep
      <4>3. PointAt(c, PointPos(o, l - 1), points[l])
        BY <2>2, <3>2
      <4> QED
        BY <2>6, <4>2, <4>3, PointLater
    <3> QED
      BY <2>3, <3>1, <3>2
  <2> QED
    BY <2>3, <2>6, <2>7, <2>8, <2>9, <2>10
<1>13. m \in T
  <2> HIDE DEF T
  <2>1. \A j \in 0 .. m : j \in T
    BY <1>11, <1>12, UpTo
  <2> QED
    BY <2>1
<1> QED
  BY <1>1, <1>8, <1>13

(* A stroke, from the end o of the one before.                             *)
StrokeAt(S, o, s) ==
  /\ HeadAt(S, o, s)
  /\ \A j \in 1 .. Len(s.points) : PointAt(S, PointPos(o + StrokeSize, j - 1), s.points[j])

(* Where that stroke ends.                                                 *)
StrokeEnd(o, s) == PointPos(o + StrokeSize, Len(s.points))

(* The size of what is in front of the points.                             *)
LEMMA StrokeSizeNat == StrokeSize \in Nat
BY StoredAssumption DEF StrokeSize

(* The members of a stroke stay where they were written.                   *)
LEMMA HeadLater ==
  ASSUME NEW S \in Bytes, NEW T \in Bytes, Extends(S, T),
         NEW o \in Nat, NEW s, HeadAt(S, o, s)
  PROVE  HeadAt(T, o, s)
<1>1. /\ Size64 \in Nat /\ Size32 \in Nat /\ 1 \in Nat
      /\ o + Size64 \in Nat /\ o + 2 * Size64 \in Nat /\ o + 2 * Size64 + 1 \in Nat
      /\ o + 2 * Size64 + 2 \in Nat /\ o + 3 * Size64 + 2 \in Nat /\ o + 3 * Size64 + 3 \in Nat
  BY StoredAssumption
<1> QED
  BY <1>1, HoldsLater, Zenon DEF HeadAt

(* So does the whole stroke.                                               *)
LEMMA StrokeLater ==
  ASSUME NEW S \in Bytes, NEW T \in Bytes, Extends(S, T),
         NEW o \in Nat, NEW s \in Stroke, StrokeAt(S, o, s)
  PROVE  StrokeAt(T, o, s)
<1>1. HeadAt(T, o, s)
  BY HeadLater DEF StrokeAt
<1>2. ASSUME NEW j \in 1 .. Len(s.points)
      PROVE  PointAt(T, PointPos(o + StrokeSize, j - 1), s.points[j])
  <2>1. s.points \in Seq(Point)
    BY DEF Stroke
  <2>2. Len(s.points) \in Nat
    BY <2>1, LenProperties
  <2>3. j - 1 \in Nat /\ o + StrokeSize \in Nat
    BY <2>2, StrokeSizeNat
  <2>4. PointPos(o + StrokeSize, j - 1) \in Nat
    BY <2>3, PointPosStep
  <2> QED
    BY <2>4, PointLater DEF StrokeAt
<1> QED
  BY <1>1, <1>2 DEF StrokeAt

(* A stroke is written behind what is in the buffer.                       *)
LEMMA AppendStrokeOk ==
  ASSUME NEW buf \in Bytes, NEW s \in Stroke
  PROVE  \E out \in Bytes :
           /\ out = AppendStroke(buf, s)
           /\ Len(out) = StrokeEnd(Len(buf), s)
           /\ Extends(buf, out)
           /\ StrokeAt(out, Len(buf), s)
<1>1. PICK hd \in Bytes : /\ AppendStroke(buf, s) = AppendPoints(hd, s.points)
                          /\ Len(hd) = Len(buf) + StrokeSize
                          /\ Extends(buf, hd) /\ HeadAt(hd, Len(buf), s)
  BY HeadOk
<1>2. s.points \in Seq(Point)
  BY DEF Stroke
<1>3. PICK out \in Bytes :
        /\ out = AppendPoints(hd, s.points)
        /\ Len(out) = PointPos(Len(hd), Len(s.points))
        /\ Extends(hd, out)
        /\ \A j \in 1 .. Len(s.points) : PointAt(out, PointPos(Len(hd), j - 1), s.points[j])
  BY <1>2, AppendPointsOk
<1>4. Len(buf) \in Nat
  BY LenProperties DEF Bytes
<1>5. Extends(buf, out) /\ HeadAt(out, Len(buf), s)
  BY <1>1, <1>3, <1>4, ExtendsLater, HeadLater
<1>6. StrokeAt(out, Len(buf), s)
  BY <1>1, <1>3, <1>5 DEF StrokeAt
<1>7. Len(out) = StrokeEnd(Len(buf), s)
  BY <1>1, <1>3 DEF StrokeEnd
<1> QED
  BY <1>1, <1>3, <1>5, <1>6, <1>7

(* Where the strokes of b are in S: stroke k from pos[k - 1] to pos[k].    *)
Layout(S, b, pos) ==
  /\ pos \in [0 .. Len(b) -> Nat]
  /\ pos[0] = 2 * Size32
  /\ \A k \in 1 .. Len(b) : /\ pos[k] = StrokeEnd(pos[k - 1], b[k])
                             /\ StrokeAt(S, pos[k - 1], b[k])
  /\ Len(S) = pos[Len(b)]
  /\ Holds(S, 0, 1, Size32) /\ Holds(S, Size32, Len(b), Size32)

(* serializeStrokes() writes bytes, and lays the board out like that.      *)
LEMMA SerializeOk ==
  ASSUME NEW b \in Seq(Stroke)
  PROVE  SerializeStrokes(b) \in Bytes /\ \E pos : Layout(SerializeStrokes(b), b, pos)
<1>1. PICK n \in Nat : n = Len(b)
  BY LenProperties
<1>2. \A k \in 1 .. n : b[k] \in Stroke
  BY <1>1
<1>3. PICK a : a = AppendLE(AppendLE(<<>>, 1, Size32), n, Size32)
  OBVIOUS
<1>4. /\ a \in Bytes /\ Len(a) = 2 * Size32
      /\ Holds(a, 0, 1, Size32) /\ Holds(a, Size32, n, Size32)
  <2>1. Size32 \in Nat /\ 1 \in Nat /\ 0 \in Nat
    BY StoredAssumption
  <2>2. PICK e : e = <<>>
    OBVIOUS
  <2>3. e \in Bytes /\ Len(e) = 0
    BY <2>2 DEF Bytes
  <2>4. PICK v : v = AppendLE(e, 1, Size32)
    OBVIOUS
  <2>5. v \in Bytes /\ Len(v) = Len(e) + Size32 /\ Holds(v, Len(e), 1, Size32)
    BY <2>1, <2>3, <2>4, AppendLEOk
  <2>6. a = AppendLE(v, n, Size32)
    BY <1>3, <2>2, <2>4
  <2>7. a \in Bytes /\ Len(a) = Len(v) + Size32 /\ Extends(v, a) /\ Holds(a, Len(v), n, Size32)
    BY <2>1, <2>5, <2>6, AppendLEOk
  <2>8. Len(v) = Size32 /\ Len(a) = 2 * Size32
    BY <2>1, <2>3, <2>5, <2>7
  <2>9. Holds(a, 0, 1, Size32)
    BY <2>1, <2>3, <2>5, <2>7, HoldsLater
  <2> QED
    BY <2>7, <2>8, <2>9
<1>5. PICK G : G = [z \in Bytes \X (1 .. n) |-> AppendStroke(z[1], b[z[2]])]
  OBVIOUS
<1>6. G \in [Bytes \X (1 .. n) -> Bytes]
  <2>1. \A c \in Bytes, k \in 1 .. n : AppendStroke(c, b[k]) \in Bytes
    BY <1>2, AppendStrokeOk
  <2>2. \A z \in Bytes \X (1 .. n) : z[1] \in Bytes /\ z[2] \in 1 .. n
    OBVIOUS
  <2> QED
    BY <1>5, <2>1, <2>2
<1>7. \A c \in Bytes, k \in 1 .. n : G[<<c, k>>] = AppendStroke(c, b[k])
  BY <1>5
<1>8. PICK f : Iterates(f, Bytes, a, n, G)
  BY <1>4, <1>6, RecursionExists
<1>9. f = [k \in 0 .. n |-> IF k = 0 THEN a ELSE AppendStroke(f[k - 1], b[k])]
  <2>1. ASSUME NEW k \in 1 .. n PROVE f[k] = AppendStroke(f[k - 1], b[k])
    <3>1. f[k - 1] \in Bytes /\ f[k] = G[<<f[k - 1], k>>]
      BY <1>8 DEF Iterates
    <3> QED
      BY <1>7, <3>1
  <2> QED
    BY <1>8, <2>1 DEF Iterates
<1>10. PICK h : /\ h = [k \in 0 .. n |-> IF k = 0 THEN a ELSE AppendStroke(h[k - 1], b[k])]
                /\ SerializeStrokes(b) = h[n]
  <2>1. PICK h : h = CHOOSE g : g = [k \in 0 .. n |-> IF k = 0 THEN a
                                                    ELSE AppendStroke(g[k - 1], b[k])]
    OBVIOUS
  <2>2. h = [k \in 0 .. n |-> IF k = 0 THEN a ELSE AppendStroke(h[k - 1], b[k])]
    BY <1>9, <2>1, Zenon
  <2>3. SerializeStrokes(b) = h[n]
    BY <1>1, <1>3, <2>1, Zenon DEF SerializeStrokes
  <2> QED
    BY <2>2, <2>3
<1>11. h[0] = a
  BY <1>10
<1>12. \A k \in 1 .. n : h[k] = AppendStroke(h[k - 1], b[k])
  BY <1>10
<1> DEFINE T == {k \in 0 .. n :
                   /\ h[k] \in Bytes /\ Extends(a, h[k])
                   /\ \A l \in 1 .. k : /\ Len(h[l]) = StrokeEnd(Len(h[l - 1]), b[l])
                                        /\ Len(h[l - 1]) \in Nat
                                        /\ StrokeAt(h[k], Len(h[l - 1]), b[l])}
<1>13. 0 \in T
  <2>1. Extends(a, a)
    <3>1. Len(a) \in Nat
      BY <1>4, LenProperties DEF Bytes
    <3> QED
      BY <3>1 DEF Extends
  <2>2. 1 .. 0 = {} /\ 0 \in 0 .. n
    OBVIOUS
  <2> QED
    BY <1>4, <1>11, <2>1, <2>2
<1>14. ASSUME NEW k \in 0 .. n - 1, k \in T PROVE k + 1 \in T
  <2>1. PICK c \in Bytes : c = h[k]
    BY <1>14
  <2>2. /\ Extends(a, c)
        /\ \A l \in 1 .. k : /\ Len(h[l]) = StrokeEnd(Len(h[l - 1]), b[l])
                             /\ Len(h[l - 1]) \in Nat
                             /\ StrokeAt(c, Len(h[l - 1]), b[l])
    BY <1>14, <2>1
  <2>3. k + 1 \in 1 .. n /\ (k + 1) - 1 = k /\ k \in Nat /\ k + 1 \in 0 .. n
    OBVIOUS
  <2>4. PICK s \in Stroke : s = b[k + 1]
    BY <1>2, <2>3
  <2>5. PICK d \in Bytes : /\ d = AppendStroke(c, s) /\ Len(d) = StrokeEnd(Len(c), s)
                           /\ Extends(c, d) /\ StrokeAt(d, Len(c), s)
    BY AppendStrokeOk
  <2>6. h[k + 1] = d
    BY <1>12, <2>1, <2>3, <2>4, <2>5
  <2>7. Extends(a, d)
    BY <1>4, <2>2, <2>5, ExtendsLater
  <2>8. ASSUME NEW l \in 1 .. k + 1
        PROVE  /\ Len(h[l]) = StrokeEnd(Len(h[l - 1]), b[l])
               /\ Len(h[l - 1]) \in Nat
               /\ StrokeAt(d, Len(h[l - 1]), b[l])
    <3>1. CASE l = k + 1
      <4>1. Len(c) \in Nat
        BY LenProperties DEF Bytes
      <4> QED
        BY <2>1, <2>3, <2>4, <2>5, <2>6, <3>1, <4>1
    <3>2. CASE l \in 1 .. k
      <4>1. l \in 1 .. n
        BY <3>2
      <4>2. b[l] \in Stroke
        BY <1>2, <4>1
      <4>3. StrokeAt(d, Len(h[l - 1]), b[l])
        BY <2>2, <2>5, <3>2, <4>2, StrokeLater
      <4> QED
        BY <2>2, <3>2, <4>3
    <3> QED
      BY <2>3, <3>1, <3>2
  <2> QED
    BY <2>3, <2>5, <2>6, <2>7, <2>8
<1>15. \A k \in 0 .. n : k \in T
  <2> HIDE DEF T
  <2> QED
    BY <1>13, <1>14, UpTo
<1>16. PICK S \in Bytes : S = h[n]
  BY <1>15
<1>17. PICK pos : pos = [k \in 0 .. n |-> Len(h[k])]
  OBVIOUS
<1>18. pos \in [0 .. n -> Nat]
  <2>1. \A k \in 0 .. n : Len(h[k]) \in Nat
    BY <1>15, LenProperties DEF Bytes
  <2> QED
    BY <1>17, <2>1
<1>19. Extends(a, S) /\ n \in T
  BY <1>15, <1>16
<1>20. ASSUME NEW k \in 1 .. n
       PROVE  pos[k] = StrokeEnd(pos[k - 1], b[k]) /\ StrokeAt(S, pos[k - 1], b[k])
  BY <1>16, <1>17, <1>19
<1>21. Holds(S, 0, 1, Size32) /\ Holds(S, Size32, n, Size32)
  <2>1. Size32 \in Nat /\ 0 \in Nat
    BY StoredAssumption
  <2> QED
    BY <1>4, <1>19, <2>1, HoldsLater
<1>22. pos[0] = 2 * Size32 /\ Len(S) = pos[n]
  BY <1>4, <1>11, <1>16, <1>17
<1>23. Layout(S, b, pos)
  BY <1>1, <1>18, <1>20, <1>21, <1>22 DEF Layout
<1> QED
  BY <1>10, <1>16, <1>23

-----------------------------------------------------------------------------
(* Up to the end of the shorter one, S and T are the same.                 *)
Agrees(S, T) == \A i \in Nat : 1 <= i /\ i <= Len(S) /\ i <= Len(T) => S[i] = T[i]

(* readLE() returns the number that appendLE() wrote.                      *)
LEMMA ReadBack ==
  ASSUME load.p \in Nat, load.blob \in Bytes, NEW S \in Bytes, Agrees(load.blob, S),
         NEW offset \in Nat, NEW size \in Nat, NEW n \in Numbers(size),
         Holds(S, load.p + offset, n, size), load.p + offset + size <= Len(load.blob)
  PROVE  ReadLE(offset, size) = n
<1>1. PICK h \in [0 .. size -> Nat] :
        /\ h = Shifted(n, size) /\ h[0] = n /\ h[size] = 0
        /\ \A i \in 1 .. size : h[i] = h[i - 1] \div Base
  BY ShiftedOk DEF Numbers
<1>2. PICK p \in Nat, l \in Nat : p = load.p /\ l = Len(load.blob)
  BY LenProperties DEF Bytes
<1>3. ASSUME NEW i \in 1 .. size PROVE Byte(p + offset + size + 1 - i) = h[size - i] % Base
  <2>1. PICK j \in 1 .. size : j = size + 1 - i
    OBVIOUS
  <2>2. p + offset + size + 1 - i = p + offset + j /\ size - i = j - 1
    BY <2>1
  <2>3. p + offset + j \in Nat /\ 1 <= p + offset + j /\ p + offset + j <= l
    <3>1. p + offset + size <= l
      BY <1>2
    <3> QED
      BY <3>1
  <2>4. PICK m \in Nat : m = Len(S)
    BY LenProperties DEF Bytes
  <2>5. p + offset + j <= m
    BY <1>2, <2>4 DEF Holds
  <2>6. Byte(p + offset + j) = S[p + offset + j]
    BY <1>2, <2>3, <2>4, <2>5 DEF Byte, Agrees
  <2>7. S[p + offset + j] = h[j - 1] % Base
    BY <1>1, <1>2 DEF Holds
  <2> QED
    BY <2>2, <2>6, <2>7
<1>4. PICK g : g = [i \in 0 .. size |-> h[size - i]]
  OBVIOUS
<1>5. ASSUME NEW i \in 1 .. size
      PROVE  g[i] = g[i - 1] * Base + Byte(p + offset + size + 1 - i)
  <2>1. PICK v \in Nat : v = h[size - i]
    OBVIOUS
  <2>2. /\ size - i + 1 \in 1 .. size /\ (size - i + 1) - 1 = size - i
        /\ size - (i - 1) = size - i + 1
    OBVIOUS
  <2>3. h[size - i + 1] = v \div Base
    BY <1>1, <2>1, <2>2
  <2>4. g[i] = v /\ g[i - 1] = v \div Base
    BY <1>4, <2>1, <2>2, <2>3
  <2>5. v = (v \div Base) * Base + (v % Base)
    BY Division
  <2> QED
    BY <1>3, <2>1, <2>4, <2>5
<1>6. g[0] = 0 /\ g[size] = n /\ g \in [0 .. size -> Nat]
  BY <1>1, <1>4
<1>7. g = [i \in 0 .. size |->
             IF i = 0 THEN 0 ELSE g[i - 1] * Base + Byte(p + offset + size + 1 - i)]
  BY <1>5, <1>6
<1>8. PICK k : /\ k = [i \in 0 .. size |->
                        IF i = 0 THEN 0 ELSE k[i - 1] * Base + Byte(p + offset + size + 1 - i)]
               /\ ReadLE(offset, size) = k[size]
  <2>1. PICK k : k = CHOOSE c : c = [i \in 0 .. size |-> IF i = 0 THEN 0
                                 ELSE c[i - 1] * Base + Byte(p + offset + size + 1 - i)]
    OBVIOUS
  <2>2. k = [i \in 0 .. size |-> IF i = 0 THEN 0
                                 ELSE k[i - 1] * Base + Byte(p + offset + size + 1 - i)]
    BY <1>7, <2>1, Zenon
  <2>3. ReadLE(offset, size) = k[size]
    BY <1>2, <2>1, Zenon DEF ReadLE
  <2> QED
    BY <2>2, <2>3
<1>9. k[0] = 0
  BY <1>8
<1>10. \A i \in 1 .. size : k[i] = k[i - 1] * Base + Byte(p + offset + size + 1 - i)
  BY <1>8
<1> DEFINE T == {i \in 0 .. size : k[i] = g[i]}
<1>11. \A i \in 0 .. size : i \in T
  <2>1. 0 \in T
    BY <1>6, <1>9
  <2>2. ASSUME NEW i \in 0 .. size - 1, i \in T PROVE i + 1 \in T
    <3>1. i + 1 \in 1 .. size /\ (i + 1) - 1 = i
      OBVIOUS
    <3>2. k[i] = g[i]
      BY <2>2
    <3>3. k[i + 1] = g[i + 1]
      BY <1>5, <1>10, <3>1, <3>2
    <3> QED
      BY <3>1, <3>3
  <2> HIDE DEF T
  <2> QED
    BY <2>1, <2>2, UpTo
<1> QED
  BY <1>6, <1>8, <1>11

-----------------------------------------------------------------------------
(* Reading a blob.                                                         *)

(* The members of the record of a load.                                    *)
LoadFields == {"at", "by", "row", "blob", "p", "strokesLeft", "pointsLeft", "strokes"}

(* A stroke whose first j points were read.                                *)
PartOf(s, j) == [s EXCEPT !.points = SubSeq(s.points, 1, j)]

(* The load has read the strokes of b before stroke k, and j points of it. *)
InStroke(b, pos, k, j) ==
  /\ k \in 1 .. Len(b) /\ j \in 0 .. Len(b[k].points)
  /\ load.strokes \in Seq(Stroke) /\ Len(load.strokes) = k
  /\ \A i \in 1 .. k - 1 : load.strokes[i] = b[i]
  /\ load.strokes[k] = PartOf(b[k], j)
  /\ load.strokesLeft = Len(b) - k
  /\ load.pointsLeft = Len(b[k].points) - j
  /\ load.p = PointPos(pos[k - 1] + StrokeSize, j)

(* Nothing but the header was read.                                        *)
BeforeStrokes(b, pos) ==
  /\ load.strokes = <<>> /\ load.strokesLeft = Len(b) /\ load.pointsLeft = 0
  /\ load.p = pos[0]

(* The load has read a part of b, and nothing else.                        *)
Reads(b) ==
  \/ load.at = "header" /\ load.p = 0 /\ load.strokes = <<>> /\ load.pointsLeft = 0
  \/ /\ load.at = "strokes"
     /\ \E pos : /\ Layout(SerializeStrokes(b), b, pos)
                 /\ BeforeStrokes(b, pos) \/ \E k, j : InStroke(b, pos, k, j)
  \/ load.at = "done" /\ load.strokes = b /\ Len(load.blob) = Len(SerializeStrokes(b))

(* What a load of a blob that agrees with b's has read is in b.            *)
Tracks ==
  load.at \in {"header", "strokes", "done"} =>
    \A b \in Drawn : Agrees(load.blob, SerializeStrokes(b)) => Reads(b)

(* A load in progress: p stays within the blob.                            *)
LoadTyped ==
  /\ DOMAIN load = LoadFields
  /\ load.blob \in Bytes
  /\ load.p \in 0 .. Len(load.blob)

(* The first points of a stroke.                                           *)
LEMMA PartOfStroke ==
  ASSUME NEW s \in Stroke, NEW j \in 0 .. Len(s.points)
  PROVE  /\ PartOf(s, j) \in Stroke
         /\ PartOf(s, Len(s.points)) = s
         /\ PartOf(s, 0) = [s EXCEPT !.points = <<>>]
         /\ j < Len(s.points) =>
              PartOf(s, j + 1) = [PartOf(s, j) EXCEPT !.points = Append(@, s.points[j + 1])]
<1>1. PICK P : P = Point
  OBVIOUS
<1>2. PICK q : q = s.points
  OBVIOUS
<1>3. q \in Seq(P)
  BY <1>1, <1>2 DEF Stroke
<1>4. PICK m \in Nat : m = Len(q)
  BY <1>3, LenProperties
<1>5. \A i \in 0 .. m : SubSeq(q, 1, i) \in Seq(P)
  BY <1>3, <1>4
<1>6. SubSeq(q, 1, m) = q
  BY <1>3, <1>4
<1>7. SubSeq(q, 1, 0) = <<>>
  BY <1>3, <1>4
<1>8. \A i \in 0 .. m - 1 : Append(SubSeq(q, 1, i), q[i + 1]) = SubSeq(q, 1, i + 1)
  BY <1>3, <1>4
<1>9. PartOf(s, j) \in Stroke
  BY <1>1, <1>2, <1>4, <1>5 DEF PartOf, Stroke
<1>10. PartOf(s, m) = s
  BY <1>2, <1>6 DEF PartOf, Stroke
<1>11. PartOf(s, 0) = [s EXCEPT !.points = <<>>]
  BY <1>2, <1>7 DEF PartOf
<1>12. ASSUME j < m
       PROVE  PartOf(s, j + 1) = [PartOf(s, j) EXCEPT !.points = Append(@, q[j + 1])]
  <2>1. PICK r : r = PartOf(s, j)
    OBVIOUS
  <2>2. r = [s EXCEPT !.points = SubSeq(q, 1, j)] /\ r.points = SubSeq(q, 1, j)
    BY <1>2, <2>1 DEF PartOf, Stroke
  <2>3. Append(r.points, q[j + 1]) = SubSeq(q, 1, j + 1)
    BY <1>2, <1>4, <1>8, <1>12, <2>2
  <2>4. [r EXCEPT !.points = Append(@, q[j + 1])] = [s EXCEPT !.points = SubSeq(q, 1, j + 1)]
    BY <2>2, <2>3
  <2> QED
    BY <1>2, <2>1, <2>4 DEF PartOf
<1> QED
  BY <1>2, <1>4, <1>9, <1>10, <1>11, <1>12

(* All the points of the strokes so far were read.                         *)
LEMMA WholeStrokes ==
  ASSUME NEW b \in Seq(Stroke), NEW S, NEW pos, Layout(S, b, pos), load.pointsLeft = 0,
         BeforeStrokes(b, pos) \/ \E k, j : InStroke(b, pos, k, j)
  PROVE  \E k \in 0 .. Len(b) :
           /\ load.strokes \in Seq(Stroke) /\ Len(load.strokes) = k
           /\ \A i \in 1 .. k : load.strokes[i] = b[i]
           /\ load.strokesLeft = Len(b) - k
           /\ load.p = pos[k]
<1>1. PICK n \in Nat : n = Len(b)
  BY LenProperties
<1>2. CASE BeforeStrokes(b, pos)
  <2>1. PICK e : e = <<>>
    OBVIOUS
  <2>2. e \in Seq(Stroke) /\ Len(e) = 0 /\ 1 .. 0 = {}
    BY <2>1
  <2>3. load.strokes = e /\ load.strokesLeft = n - 0 /\ load.p = pos[0] /\ 0 \in 0 .. n
    BY <1>1, <1>2, <2>1 DEF BeforeStrokes
  <2> QED
    BY <1>1, <2>2, <2>3
<1>3. ASSUME NEW k, NEW j, InStroke(b, pos, k, j)
      PROVE  /\ k \in 0 .. n /\ load.strokes \in Seq(Stroke) /\ Len(load.strokes) = k
             /\ \A i \in 1 .. k : load.strokes[i] = b[i]
             /\ load.strokesLeft = n - k
             /\ load.p = pos[k]
  <2>1. k \in 1 .. n /\ b[k] \in Stroke
    BY <1>1, <1>3 DEF InStroke
  <2>2. PICK m \in Nat : m = Len(b[k].points)
    <3>1. b[k].points \in Seq(Point)
      BY <2>1 DEF Stroke
    <3> QED
      BY <3>1, LenProperties
  <2>3. j = m
    BY <1>3, <2>2 DEF InStroke
  <2>4. load.strokes[k] = b[k]
    BY <1>3, <2>1, <2>2, <2>3, PartOfStroke DEF InStroke
  <2>5. load.p = pos[k]
    BY <1>1, <1>3, <2>1, <2>2, <2>3 DEF InStroke, Layout, StrokeEnd
  <2>6. ASSUME NEW i \in 1 .. k PROVE load.strokes[i] = b[i]
    <3>1. CASE i \in 1 .. k - 1
      BY <1>3, <3>1 DEF InStroke
    <3> QED
      BY <2>1, <2>4, <3>1
  <2> QED
    BY <1>1, <1>3, <2>1, <2>5, <2>6 DEF InStroke
<1> QED
  BY <1>1, <1>2, <1>3

(* The board, its bytes, and what a load that reads them has in hand.      *)
LEMMA DrawnBoard ==
  ASSUME NEW b \in Drawn
  PROVE  /\ b \in Seq(Stroke) /\ SerializeStrokes(b) \in Bytes
         /\ Len(b) \in Numbers(Size32)
         /\ \A k \in 1 .. Len(b) : b[k] \in Stroke /\ Len(b[k].points) \in Numbers(Size32)
         /\ \E pos : Layout(SerializeStrokes(b), b, pos)
<1>1. b \in Seq(Stroke) /\ Len(b) \in Numbers(Size32)
  BY DrawnAssumption
<1>2. PICK n \in Nat : n = Len(b) /\ DOMAIN b = 1 .. n
  BY <1>1, LenProperties
<1>3. \A k \in 1 .. n : b[k] \in Stroke /\ Len(b[k].points) \in Numbers(Size32)
  BY <1>1, <1>2, DrawnAssumption
<1> QED
  BY <1>1, <1>2, <1>3, SerializeOk

(* The number of strokes is read as it was written.                        *)
LEMMA HeaderTracks ==
  ASSUME LoadTyped, NEW b \in Drawn, Agrees(load.blob, SerializeStrokes(b)), Reads(b),
         ReadHeader, ~Throw
  PROVE  Reads(b)'
<1>1. PICK S \in Bytes : S = SerializeStrokes(b)
  BY DrawnBoard
<1>2. PICK pos : Layout(S, b, pos)
  BY <1>1, DrawnBoard
<1>3. /\ Fits(2 * Size32) /\ load.at = "header"
      /\ load' = [load EXCEPT !.at = "strokes", !.p = @ + 2 * Size32,
                              !.strokesLeft = ReadLE(Size32, Size32)]
  BY DEF ReadHeader
<1>4. load.p = 0 /\ load.strokes = <<>> /\ load.pointsLeft = 0
  BY <1>3 DEF Reads
<1>5. Size32 \in Nat /\ Len(b) \in Numbers(Size32) /\ Len(load.blob) \in Nat
  BY StoredAssumption, DrawnBoard, LenProperties DEF LoadTyped, Bytes
<1>6. ReadLE(Size32, Size32) = Len(b)
  <2>1. Holds(S, load.p + Size32, Len(b), Size32)
    <3>1. 0 + Size32 = Size32
      BY <1>5
    <3> QED
      BY <1>2, <1>4, <3>1 DEF Layout
  <2>2. load.p + Size32 + Size32 <= Len(load.blob)
    BY <1>3, <1>4, <1>5 DEF Fits
  <2> QED
    BY <1>1, <1>5, <2>1, <2>2, ReadBack DEF LoadTyped
<1>7. /\ load'.at = "strokes" /\ load'.p = 2 * Size32 /\ load'.strokesLeft = Len(b)
      /\ load'.strokes = <<>> /\ load'.pointsLeft = 0
  <2>1. 0 + 2 * Size32 = 2 * Size32
    BY <1>5
  <2> QED
    BY <1>3, <1>4, <1>6, <2>1 DEF LoadTyped, LoadFields
<1>8. BeforeStrokes(b, pos)'
  BY <1>2, <1>7 DEF BeforeStrokes, Layout
<1> QED
  BY <1>1, <1>2, <1>7, <1>8 DEF Reads

(* The numbers in front of the points are read as they were written.       *)
LEMMA HeadRead ==
  ASSUME LoadTyped, NEW S \in Bytes, Agrees(load.blob, S), NEW s \in Stroke,
         Len(s.points) \in Numbers(Size32), HeadAt(S, load.p, s), Fits(StrokeSize)
  PROVE  /\ ReadLE(3 * Size64 + 3, Size32) = Len(s.points)
         /\ [id |-> ReadLE(0, Size64), author |-> ReadLE(Size64, Size64),
             color |-> ReadLE(2 * Size64, 1), thickness |-> ReadLE(2 * Size64 + 1, 1),
             strokeOrder |-> ReadLE(2 * Size64 + 2, Size64),
             finished |-> ReadLE(3 * Size64 + 2, 1) # 0, points |-> <<>>] = PartOf(s, 0)
<1>1. /\ Size32 \in Nat /\ Size64 \in Nat /\ 1 \in Nat /\ load.p \in Nat /\ load.blob \in Bytes
      /\ Len(load.blob) \in Nat
  BY StoredAssumption, LenProperties DEF LoadTyped, Bytes
<1>2. load.p + (3 * Size64 + 3) + Size32 <= Len(load.blob)
  BY <1>1 DEF Fits, StrokeSize
<1>3. ASSUME NEW off \in Nat, NEW size \in Nat, off + size <= 3 * Size64 + 3 + Size32,
             NEW n \in Numbers(size), Holds(S, load.p + off, n, size)
      PROVE  ReadLE(off, size) = n
  <2>1. load.p + off + size <= Len(load.blob)
    BY <1>1, <1>2, <1>3
  <2> QED
    BY <1>1, <1>3, <2>1, ReadBack
<1>4. /\ s.id \in Numbers(Size64) /\ s.author \in Numbers(Size64) /\ s.color \in Numbers(1)
      /\ s.thickness \in Numbers(1) /\ s.strokeOrder \in Numbers(Size64)
      /\ s.finished \in BOOLEAN
  BY DEF Stroke
<1>5. ReadLE(0, Size64) = s.id
  <2>1. Holds(S, load.p + 0, s.id, Size64)
    BY <1>1 DEF HeadAt
  <2>2. 0 \in Nat /\ 0 + Size64 <= 3 * Size64 + 3 + Size32
    BY <1>1
  <2> QED
    BY <1>1, <1>3, <1>4, <2>1, <2>2
<1>6. ReadLE(Size64, Size64) = s.author
  BY <1>1, <1>3, <1>4 DEF HeadAt
<1>7. ReadLE(2 * Size64, 1) = s.color
  BY <1>1, <1>3, <1>4 DEF HeadAt
<1>8. ReadLE(2 * Size64 + 1, 1) = s.thickness
  <2>1. 2 * Size64 + 1 \in Nat /\ load.p + 2 * Size64 + 1 = load.p + (2 * Size64 + 1)
        /\ 2 * Size64 + 1 + 1 <= 3 * Size64 + 3 + Size32
    BY <1>1
  <2>2. Holds(S, load.p + (2 * Size64 + 1), s.thickness, 1)
    BY <2>1 DEF HeadAt
  <2> QED
    BY <1>1, <1>3, <1>4, <2>1, <2>2
<1>9. ReadLE(2 * Size64 + 2, Size64) = s.strokeOrder
  <2>1. 2 * Size64 + 2 \in Nat /\ load.p + 2 * Size64 + 2 = load.p + (2 * Size64 + 2)
        /\ 2 * Size64 + 2 + Size64 <= 3 * Size64 + 3 + Size32
    BY <1>1
  <2>2. Holds(S, load.p + (2 * Size64 + 2), s.strokeOrder, Size64)
    BY <2>1 DEF HeadAt
  <2> QED
    BY <1>1, <1>3, <1>4, <2>1, <2>2
<1>10. (ReadLE(3 * Size64 + 2, 1) # 0) = s.finished
  <2>1. 3 * Size64 + 2 \in Nat /\ load.p + 3 * Size64 + 2 = load.p + (3 * Size64 + 2)
        /\ 3 * Size64 + 2 + 1 <= 3 * Size64 + 3 + Size32
    BY <1>1
  <2>2. PICK f \in Numbers(1) : f = IF s.finished THEN 1 ELSE 0
    <3>1. 0 \in Numbers(1) /\ 1 \in Numbers(1)
      BY OneFits
    <3> QED
      BY <3>1
  <2>3. Holds(S, load.p + (3 * Size64 + 2), f, 1)
    BY <2>1, <2>2 DEF HeadAt
  <2>4. ReadLE(3 * Size64 + 2, 1) = f
    BY <1>1, <1>3, <2>1, <2>3
  <2> QED
    BY <1>4, <2>2, <2>4
<1>11. ReadLE(3 * Size64 + 3, Size32) = Len(s.points)
  <2>1. 3 * Size64 + 3 \in Nat /\ load.p + 3 * Size64 + 3 = load.p + (3 * Size64 + 3)
        /\ 3 * Size64 + 3 + Size32 <= 3 * Size64 + 3 + Size32
    BY <1>1
  <2>2. Holds(S, load.p + (3 * Size64 + 3), Len(s.points), Size32)
    BY <2>1 DEF HeadAt
  <2> QED
    BY <1>1, <1>3, <2>1, <2>2
<1>12. PartOf(s, 0) = [s EXCEPT !.points = <<>>]
  <2>1. s.points \in Seq(Point)
    BY DEF Stroke
  <2>2. 0 \in 0 .. Len(s.points)
    BY <2>1, LenProperties
  <2> QED
    BY <2>2, PartOfStroke
<1>13. [s EXCEPT !.points = <<>>] =
         [id |-> s.id, author |-> s.author, color |-> s.color, thickness |-> s.thickness,
          strokeOrder |-> s.strokeOrder, finished |-> s.finished, points |-> <<>>]
  BY DEF Stroke
<1> QED
  BY <1>5, <1>6, <1>7, <1>8, <1>9, <1>10, <1>11, <1>12, <1>13

(* The next stroke is the next stroke of the board, without its points.    *)
LEMMA StrokeTracks ==
  ASSUME LoadTyped, NEW b \in Drawn, Agrees(load.blob, SerializeStrokes(b)), Reads(b),
         ReadStroke, ~Throw
  PROVE  Reads(b)'
<1>1. PICK S \in Bytes : S = SerializeStrokes(b)
  BY DrawnBoard
<1>2. PICK new, count :
        /\ count = ReadLE(3 * Size64 + 3, Size32)
        /\ new = [id |-> ReadLE(0, Size64), author |-> ReadLE(Size64, Size64),
                  color |-> ReadLE(2 * Size64, 1), thickness |-> ReadLE(2 * Size64 + 1, 1),
                  strokeOrder |-> ReadLE(2 * Size64 + 2, Size64),
                  finished |-> ReadLE(3 * Size64 + 2, 1) # 0, points |-> <<>>]
  OBVIOUS
<1>3. /\ Fits(StrokeSize) /\ load.at = "strokes" /\ load.pointsLeft = 0 /\ load.strokesLeft > 0
      /\ load' = [load EXCEPT !.p = @ + StrokeSize, !.strokesLeft = @ - 1,
                              !.pointsLeft = count, !.strokes = Append(@, new)]
  BY <1>2, Zenon DEF ReadStroke
<1>4. PICK pos : /\ Layout(S, b, pos)
                 /\ BeforeStrokes(b, pos) \/ \E k, j : InStroke(b, pos, k, j)
  BY <1>1, <1>3 DEF Reads
<1>5. b \in Seq(Stroke)
  BY DrawnBoard
<1>6. PICK n \in Nat : n = Len(b)
  BY <1>5, LenProperties
<1>7. PICK k \in 0 .. n :
        /\ load.strokes \in Seq(Stroke) /\ Len(load.strokes) = k
        /\ \A i \in 1 .. k : load.strokes[i] = b[i]
        /\ load.strokesLeft = n - k /\ load.p = pos[k]
  BY <1>3, <1>4, <1>5, <1>6, WholeStrokes
<1>8. k + 1 \in 1 .. n /\ (k + 1) - 1 = k
  BY <1>3, <1>7
<1>9. PICK s \in Stroke : s = b[k + 1] /\ Len(s.points) \in Numbers(Size32)
  BY <1>6, <1>8, DrawnBoard
<1>10. StrokeAt(S, pos[k], s)
  BY <1>4, <1>6, <1>8, <1>9 DEF Layout
<1>11. count = Len(s.points) /\ new = PartOf(s, 0)
  BY <1>1, <1>2, <1>3, <1>7, <1>9, <1>10, HeadRead DEF StrokeAt
<1>12. PICK old \in Seq(Stroke) : old = load.strokes /\ Len(old) = k
  BY <1>7
<1>13. Len(s.points) \in Nat
  <2>1. s.points \in Seq(Point)
    BY DEF Stroke
  <2> QED
    BY <2>1, LenProperties
<1>14. PartOf(s, 0) \in Stroke
  <2>1. 0 \in 0 .. Len(s.points)
    BY <1>13
  <2> QED
    BY <2>1, PartOfStroke
<1>15. PICK grown : grown = Append(old, PartOf(s, 0))
  OBVIOUS
<1>16. /\ grown \in Seq(Stroke) /\ Len(grown) = k + 1 /\ grown[k + 1] = PartOf(s, 0)
       /\ \A i \in 1 .. k : grown[i] = old[i]
  BY <1>12, <1>14, <1>15, AppendProperties
<1>17. /\ load'.at = "strokes" /\ load'.p = pos[k] + StrokeSize
       /\ load'.strokesLeft = n - k - 1
       /\ load'.pointsLeft = Len(s.points) /\ load'.strokes = grown
  BY <1>3, <1>7, <1>11, <1>12, <1>15 DEF LoadTyped, LoadFields
<1>18. InStroke(b, pos, k + 1, 0)'
  <2>1. pos[k] + StrokeSize = PointPos(pos[k] + StrokeSize, 0)
    <3>1. pos \in [0 .. n -> Nat]
      BY <1>4, <1>6 DEF Layout
    <3>2. pos[k] + StrokeSize \in Nat
      BY <3>1, StrokeSizeNat
    <3> QED
      BY <3>2, PointPosStep
  <2>2. /\ 0 \in 0 .. Len(s.points) /\ Len(s.points) - 0 = Len(s.points)
        /\ n - k - 1 = n - (k + 1)
    BY <1>13
  <2>3. \A i \in 1 .. (k + 1) - 1 : load'.strokes[i] = b[i]
    BY <1>7, <1>8, <1>12, <1>16, <1>17
  <2> QED
    BY <1>6, <1>8, <1>9, <1>16, <1>17, <2>1, <2>2, <2>3 DEF InStroke
<1> QED
  BY <1>1, <1>4, <1>17, <1>18 DEF Reads

(* The next point is the next point of that stroke.                        *)
LEMMA PointTracks ==
  ASSUME LoadTyped, NEW b \in Drawn, Agrees(load.blob, SerializeStrokes(b)), Reads(b),
         ReadPoint, ~Throw
  PROVE  Reads(b)'
<1>1. PICK S \in Bytes : S = SerializeStrokes(b)
  BY DrawnBoard
<1>2. PICK x, y : x = ReadLE(0, SizeFloat) /\ y = ReadLE(SizeFloat, SizeFloat)
  OBVIOUS
<1>3. /\ Fits(2 * SizeFloat) /\ load.at = "strokes" /\ load.pointsLeft > 0
      /\ load' = [load EXCEPT !.p = @ + 2 * SizeFloat, !.pointsLeft = @ - 1,
            !.strokes[Len(load.strokes)].points = Append(@, [x |-> x, y |-> y])]
  BY <1>2, Zenon DEF ReadPoint
<1>4. PICK pos : /\ Layout(S, b, pos)
                 /\ BeforeStrokes(b, pos) \/ \E k, j : InStroke(b, pos, k, j)
  BY <1>1, <1>3 DEF Reads
<1>5. PICK k, j : InStroke(b, pos, k, j)
  BY <1>3, <1>4 DEF BeforeStrokes
<1>6. b \in Seq(Stroke)
  BY DrawnBoard
<1>7. PICK n \in Nat : n = Len(b)
  BY <1>6, LenProperties
<1>8. k \in 1 .. n
  BY <1>5, <1>7 DEF InStroke
<1>9. PICK s \in Stroke : s = b[k]
  BY <1>7, <1>8, DrawnBoard
<1>10. s.points \in Seq(Point)
  BY DEF Stroke
<1>11. PICK m \in Nat : m = Len(s.points)
  BY <1>10, LenProperties
<1>12. j \in 0 .. m /\ load.pointsLeft = m - j
  BY <1>5, <1>9, <1>11 DEF InStroke
<1>13. j + 1 \in 1 .. m /\ j \in Nat /\ (j + 1) - 1 = j /\ j < m /\ j + 1 \in 0 .. m
  BY <1>3, <1>12
<1>14. PICK o \in Nat : o = pos[k - 1] + StrokeSize
  <2>1. pos \in [0 .. n -> Nat]
    BY <1>4, <1>7 DEF Layout
  <2>2. k - 1 \in 0 .. n
    BY <1>8
  <2>3. pos[k - 1] \in Nat
    BY <2>1, <2>2
  <2> QED
    BY <2>3, StrokeSizeNat
<1>15. load.p = PointPos(o, j) /\ PointPos(o, j) \in Nat
  BY <1>5, <1>13, <1>14, PointPosStep DEF InStroke
<1>16. PICK pt \in Point : pt = s.points[j + 1]
  BY <1>10, <1>11, <1>13
<1>17. PointAt(S, load.p, pt)
  <2>1. StrokeAt(S, pos[k - 1], s)
    BY <1>4, <1>7, <1>8, <1>9 DEF Layout
  <2> QED
    BY <1>11, <1>13, <1>14, <1>15, <1>16, <2>1 DEF StrokeAt
<1>18. x = pt.x /\ y = pt.y
  <2>1. /\ SizeFloat \in Nat /\ load.p \in Nat /\ load.blob \in Bytes /\ Len(load.blob) \in Nat
        /\ pt.x \in Numbers(SizeFloat) /\ pt.y \in Numbers(SizeFloat)
    BY StoredAssumption, LenProperties DEF LoadTyped, Bytes, Point
  <2>2. /\ load.p + 0 + SizeFloat <= Len(load.blob)
        /\ load.p + SizeFloat + SizeFloat <= Len(load.blob)
    BY <1>3, <2>1 DEF Fits
  <2>3. Holds(S, load.p + 0, pt.x, SizeFloat) /\ Holds(S, load.p + SizeFloat, pt.y, SizeFloat)
    BY <1>17, <2>1 DEF PointAt
  <2> QED
    BY <1>1, <1>2, <2>1, <2>2, <2>3, ReadBack
<1>19. [x |-> x, y |-> y] = pt
  BY <1>18 DEF Point
<1>20. PICK old \in Seq(Stroke) :
         /\ old = load.strokes /\ Len(old) = k /\ old[k] = PartOf(s, j)
         /\ \A i \in 1 .. k - 1 : old[i] = b[i]
  BY <1>5, <1>9 DEF InStroke
<1>21. /\ PartOf(s, j + 1) = [old[k] EXCEPT !.points = Append(@, pt)]
       /\ PartOf(s, j + 1) \in Stroke
  <2>1. j \in 0 .. Len(s.points) /\ j + 1 \in 0 .. Len(s.points) /\ j < Len(s.points)
    BY <1>11, <1>12, <1>13
  <2>2. PartOf(s, j + 1) = [PartOf(s, j) EXCEPT !.points = Append(@, s.points[j + 1])]
    BY <2>1, PartOfStroke
  <2>3. PartOf(s, j + 1) \in Stroke
    BY <2>1, PartOfStroke
  <2> QED
    BY <1>16, <1>20, <2>2, <2>3
<1>22. PICK new : new = [old EXCEPT ![k] = PartOf(s, j + 1)]
  OBVIOUS
<1>23. /\ load'.at = "strokes" /\ load'.p = load.p + 2 * SizeFloat
       /\ load'.pointsLeft = load.pointsLeft - 1 /\ load'.strokesLeft = load.strokesLeft
       /\ load'.strokes = new
  <2>1. load'.strokes = [load.strokes EXCEPT ![Len(load.strokes)].points =
                                               Append(@, [x |-> x, y |-> y])]
    BY <1>3 DEF LoadTyped, LoadFields
  <2>2. load'.strokes = [old EXCEPT ![k].points = Append(@, pt)]
    BY <1>19, <1>20, <2>1
  <2>3. DOMAIN old = 1 .. k
    BY <1>20
  <2>4. [old EXCEPT ![k].points = Append(@, pt)] = [old EXCEPT ![k] = PartOf(s, j + 1)]
    BY <1>8, <1>21, <2>3
  <2> QED
    BY <1>3, <1>22, <2>2, <2>4 DEF LoadTyped, LoadFields
<1>24. /\ new \in Seq(Stroke) /\ Len(new) = k /\ new[k] = PartOf(s, j + 1)
       /\ \A i \in 1 .. k - 1 : new[i] = old[i]
  <2>1. k \in 1 .. Len(old)
    BY <1>8, <1>20
  <2>2. PICK T : T = Stroke
    OBVIOUS
  <2>3. old \in Seq(T) /\ PartOf(s, j + 1) \in T
    BY <1>21, <2>2
  <2>4. new \in Seq(T) /\ Len(new) = Len(old)
    BY <1>22, <2>1, <2>3, ExceptSeq
  <2>5. DOMAIN old = 1 .. k
    BY <1>20
  <2>6. new[k] = PartOf(s, j + 1) /\ \A i \in 1 .. k - 1 : new[i] = old[i]
    BY <1>8, <1>22, <2>5
  <2> QED
    BY <1>20, <2>2, <2>4, <2>6
<1>25. load'.p = PointPos(o, j + 1) /\ load'.pointsLeft = m - (j + 1)
  <2>1. PointPos(o, j + 1) = PointPos(o, j) + 2 * SizeFloat
    BY <1>13, PointPosStep
  <2> QED
    BY <1>12, <1>13, <1>15, <1>23, <2>1
<1>26. load'.strokesLeft = n - k
  BY <1>5, <1>7, <1>23 DEF InStroke
<1>27. InStroke(b, pos, k, j + 1)'
  BY <1>7, <1>8, <1>9, <1>11, <1>13, <1>14, <1>20, <1>23, <1>24, <1>25, <1>26 DEF InStroke
<1> QED
  BY <1>1, <1>4, <1>23, <1>27 DEF Reads

(* At the end all the strokes were read, and all the bytes of the board.   *)
LEMMA EndTracks ==
  ASSUME LoadTyped, NEW b \in Drawn, Agrees(load.blob, SerializeStrokes(b)), Reads(b),
         ReadEnd, ~Throw
  PROVE  Reads(b)'
<1>1. PICK S \in Bytes : S = SerializeStrokes(b)
  BY DrawnBoard
<1>2. /\ load.at = "strokes" /\ load.strokesLeft = 0 /\ load.pointsLeft = 0
      /\ load.p = Len(load.blob) /\ load' = [load EXCEPT !.at = "done"]
  BY DEF ReadEnd
<1>3. PICK pos : /\ Layout(S, b, pos)
                 /\ BeforeStrokes(b, pos) \/ \E k, j : InStroke(b, pos, k, j)
  BY <1>1, <1>2 DEF Reads
<1>4. b \in Seq(Stroke)
  BY DrawnBoard
<1>5. PICK n \in Nat : n = Len(b)
  BY <1>4, LenProperties
<1>6. PICK k \in 0 .. n :
        /\ load.strokes \in Seq(Stroke) /\ Len(load.strokes) = k
        /\ \A i \in 1 .. k : load.strokes[i] = b[i]
        /\ load.strokesLeft = n - k /\ load.p = pos[k]
  BY <1>2, <1>3, <1>4, <1>5, WholeStrokes
<1>7. k = n
  BY <1>2, <1>6
<1>8. load.strokes = b
  BY <1>4, <1>5, <1>6, <1>7
<1>9. Len(load.blob) = Len(S)
  BY <1>2, <1>3, <1>5, <1>6, <1>7 DEF Layout
<1>10. load'.at = "done" /\ load'.strokes = load.strokes /\ load'.blob = load.blob
  BY <1>2 DEF LoadTyped, LoadFields
<1> QED
  BY <1>1, <1>8, <1>9, <1>10 DEF Reads

-----------------------------------------------------------------------------
(* What is on disk, damaged or not.                                        *)
BlobsOk ==
  /\ drawn \in Seq(Drawn)
  /\ damage \in Seq([id : Nat, kind : {"cut", "grown", "changed"}, blob : Bytes])
  /\ \A x \in everSaved : x.snap.strokes \in Bytes

(* The cursor of deserializeStrokes() stays within the blob.               *)
LoadOk ==
  \/ load = NoLoad
  \/ /\ load.at \in {"header", "strokes", "thrown", "done"}
     /\ LoadTyped

(* AUTOINCREMENT: an id is handed out once.                                *)
IdsOnce ==
  /\ \A x \in everSaved : x.id < nextId
  /\ \A x, y \in everSaved : x.id = y.id => x = y

(* What list() returned was in the table.                                  *)
ListedSaved == \A m \in listed : \E x \in everSaved : m = Meta(x)

(* Rows are pruned from the end of ORDER BY saved_at_ms DESC.              *)
OutlivedByLater ==
  \A x \in everSaved \ rows, y \in rows :
    x.snap.room = y.snap.room /\ y.id < x.id => x.savedAt < y.savedAt

BoardsInv ==
  /\ StoredTypeOK
  /\ IsFiniteSet(rows)
  /\ BlobsOk /\ LoadOk /\ IdsOnce /\ ListedSaved /\ OutlivedByLater

-----------------------------------------------------------------------------
(* The invariant holds at first.                                           *)
LEMMA BoardsInitInv == BoardsInit => BoardsInv
<1> SUFFICES ASSUME BoardsInit PROVE BoardsInv
  OBVIOUS
<1>1. /\ rows = {} /\ nextId = 1 /\ everSaved = {} /\ db = "null"
      /\ table = FALSE /\ drawn = <<>> /\ damage = <<>> /\ listed = {} /\ load = NoLoad
  BY DEF BoardsInit, StoreInit
<1>2. StoredTypeOK
  <2>1. table \in BOOLEAN
    BY <1>1
  <2>2. load.at = "none"
    BY <1>1 DEF NoLoad
  <2>3. Len(drawn) = nextId - 1
    BY <1>1
  <2> QED
    BY <1>1, <2>1, <2>2, <2>3 DEF StoredTypeOK, StoreTypeOK
<1>3. IsFiniteSet(rows)
  BY <1>1, FS_EmptySet
<1> QED
  BY <1>1, <1>2, <1>3
  DEF BoardsInv, BlobsOk, LoadOk, LoadTyped, IdsOnce, ListedSaved, OutlivedByLater

(* A step that leaves the table, the blobs and the lists alone.            *)
LEMMA StoreStays ==
  ASSUME BoardsInv, UNCHANGED <<storeVars, drawn, damage>>, ListedSaved', LoadOk',
         db' \in {"null", "open", "failed"}, table' \in {table, TRUE}
  PROVE  BoardsInv'
<1>1. /\ rows' = rows /\ nextId' = nextId /\ everSaved' = everSaved
      /\ drawn' = drawn /\ damage' = damage
  BY DEF storeVars
<1>2. table' \in BOOLEAN /\ (rows # {} => table')
  BY DEF BoardsInv, StoredTypeOK
<1>3. /\ load'.at \in {"none", "header", "strokes", "thrown", "done"}
      /\ load'.at # "none" => load'.p \in 0 .. Len(load'.blob)
  BY DEF LoadOk, LoadTyped, NoLoad
<1>4. StoredTypeOK'
  <2>1. StoreTypeOK' /\ Len(drawn') = nextId' - 1
    BY <1>1 DEF BoardsInv, StoredTypeOK, StoreTypeOK
  <2> QED
    BY <1>1, <1>2, <1>3, <2>1 DEF StoredTypeOK
<1> QED
  BY <1>1, <1>4 DEF BoardsInv, BlobsOk, IdsOnce, OutlivedByLater

-----------------------------------------------------------------------------
(* The statements.                                                         *)

(* An INSERT: the row has the largest id, at whatever reading of the clock.*)
LEMMA SaveBoardInv ==
  ASSUME BoardsInv, NEW room \in Rooms, NEW strokes \in Drawn, SaveBoard(room, strokes)
  PROVE  BoardsInv'
<1>1. PICK s : s = [room |-> room, lastSeq |-> nextId, strokes |-> SerializeStrokes(strokes)]
  OBVIOUS
<1>2. PICK now \in NowMs :
        LET row == [id |-> nextId, savedAt |-> now, snap |-> s]
        IN  rows' = rows \cup {row} /\ everSaved' = everSaved \cup {row}
  BY <1>1 DEF SaveBoard, Save
<1>a. PICK row : row = [id |-> nextId, savedAt |-> now, snap |-> s]
  OBVIOUS
<1>3. /\ rows' = rows \cup {row} /\ everSaved' = everSaved \cup {row}
      /\ nextId' = nextId + 1
      /\ drawn' = Append(drawn, strokes) /\ damage' = damage /\ listed' = listed
      /\ load' = load /\ db' = "open" /\ table' = TRUE
  BY <1>2, <1>a DEF SaveBoard, Save, Ready
<1>4. /\ nextId \in Nat \ {0} /\ now \in Nat /\ everSaved \subseteq Row
      /\ rows \subseteq everSaved
      /\ \A x \in everSaved : x.id \in Nat /\ x.savedAt \in Nat /\ x.id < nextId
  BY StoreAssumption DEF BoardsInv, StoredTypeOK, StoreTypeOK, IdsOnce, Row, NowMs
<1>5. SerializeStrokes(strokes) \in Boards /\ SerializeStrokes(strokes) \in Bytes
  BY BlobAssumption, DrawnBoard
<1>6. s \in PersistedBoardSnapshot
  BY <1>1, <1>4, <1>5 DEF PersistedBoardSnapshot
<1>7. row \in Row /\ row.id = nextId /\ row.snap.strokes \in Bytes
  BY <1>1, <1>a, <1>4, <1>5, <1>6 DEF Row
<1>8. drawn' \in Seq(Drawn) /\ Len(drawn') = nextId' - 1
  <2>1. drawn \in Seq(Drawn) /\ Len(drawn) = nextId - 1
    BY DEF BoardsInv, BlobsOk, StoredTypeOK
  <2> QED
    BY <1>3, <1>4, <2>1, AppendProperties
<1>9. StoredTypeOK'
  <2>1. StoreTypeOK'
    BY <1>3, <1>4, <1>7 DEF StoreTypeOK
  <2>2. table' \in BOOLEAN
    BY <1>3
  <2>3. /\ load'.at \in {"none", "header", "strokes", "thrown", "done"}
        /\ load'.at # "none" => load'.p \in 0 .. Len(load'.blob)
    BY <1>3 DEF BoardsInv, StoredTypeOK
  <2> QED
    BY <1>3, <1>8, <2>1, <2>2, <2>3 DEF StoredTypeOK
<1>10. IsFiniteSet(rows')
  BY <1>3, FS_AddElement DEF BoardsInv
<1>11. BlobsOk' /\ LoadOk'
  BY <1>3, <1>7, <1>8 DEF BoardsInv, BlobsOk, LoadOk, LoadTyped
<1>12. IdsOnce'
  <2>1. \A x \in everSaved' : x.id < nextId'
    BY <1>3, <1>4, <1>7
  <2>2. \A x, y \in everSaved' : x.id = y.id => x = y
    BY <1>3, <1>4, <1>7 DEF BoardsInv, IdsOnce
  <2> QED
    BY <2>1, <2>2 DEF IdsOnce
<1>13. ListedSaved'
  BY <1>3 DEF BoardsInv, ListedSaved
<1>14. OutlivedByLater'
  <2>1. everSaved' \ rows' = everSaved \ rows
    BY <1>3, <1>4, <1>7
  <2> QED
    BY <1>3, <1>4, <1>7, <2>1 DEF BoardsInv, OutlivedByLater
<1> QED
  BY <1>9, <1>10, <1>11, <1>12, <1>13, <1>14 DEF BoardsInv

(* A DELETE: what goes comes after what stays.                             *)
LEMMA PruneInv ==
  ASSUME BoardsInv, NEW room \in Rooms, NEW keep \in Keeps, Prune(room, keep)
  PROVE  BoardsInv'
<1>1. PICK T \in Newest(RowsOf(room), keep) : rows' = (rows \ RowsOf(room)) \cup T
  BY DEF Prune, PruneKeepLatest
<1>2. /\ nextId' = nextId /\ everSaved' = everSaved
      /\ drawn' = drawn /\ damage' = damage /\ listed' = listed
      /\ load' = load /\ db' = "open" /\ table' = TRUE
  BY DEF Prune, PruneKeepLatest, Ready
<1>3. /\ T \subseteq RowsOf(room)
      /\ \A x \in T, y \in RowsOf(room) \ T : Precedes(x, y)
  BY DEF Newest
<1>4. rows' \subseteq rows
  BY <1>1, <1>3 DEF RowsOf
<1>5. rows \subseteq everSaved /\ \A x \in everSaved : x.savedAt \in Nat /\ x.id \in Nat
  BY DEF BoardsInv, StoredTypeOK, StoreTypeOK, Row
<1>6. StoredTypeOK'
  <2>1. StoreTypeOK'
    BY <1>2, <1>4 DEF BoardsInv, StoredTypeOK, StoreTypeOK
  <2>2. table' \in BOOLEAN
    BY <1>2
  <2>3. /\ Len(drawn') = nextId' - 1
        /\ load'.at \in {"none", "header", "strokes", "thrown", "done"}
        /\ load'.at # "none" => load'.p \in 0 .. Len(load'.blob)
    BY <1>2 DEF BoardsInv, StoredTypeOK
  <2> QED
    BY <1>2, <2>1, <2>2, <2>3 DEF StoredTypeOK
<1>7. IsFiniteSet(rows')
  BY <1>4, FS_Subset DEF BoardsInv
<1>8. BlobsOk' /\ LoadOk' /\ IdsOnce' /\ ListedSaved'
  BY <1>2 DEF BoardsInv, BlobsOk, LoadOk, LoadTyped, IdsOnce, ListedSaved
<1>9. OutlivedByLater'
  <2> SUFFICES ASSUME NEW x \in everSaved \ rows', NEW y \in rows',
                      x.snap.room = y.snap.room, y.id < x.id
               PROVE  x.savedAt < y.savedAt
    BY <1>2 DEF OutlivedByLater
  <2>1. CASE x \notin rows
    BY <1>4, <2>1 DEF BoardsInv, OutlivedByLater
  <2>2. CASE x \in rows
    <3>1. x \in RowsOf(room) \ T
      BY <1>1, <2>2 DEF RowsOf
    <3>2. y \in T
      BY <1>1, <1>4, <3>1 DEF RowsOf
    <3>3. Precedes(y, x) /\ y \in everSaved
      BY <1>3, <1>4, <1>5, <3>1, <3>2
    <3> QED
      BY <1>5, <3>3 DEF Precedes
  <2> QED
    BY <2>1, <2>2
<1> QED
  BY <1>6, <1>7, <1>8, <1>9 DEF BoardsInv

(* A SELECT of the columns.                                                *)
LEMMA ListInv ==
  ASSUME BoardsInv, NEW room \in Rooms, List(room)
  PROVE  BoardsInv'
<1>1. /\ UNCHANGED <<storeVars, drawn, damage>> /\ load' = load /\ db' = "open"
      /\ table' = TRUE /\ everSaved' = everSaved
      /\ listed' = listed \cup {Meta(x) : x \in RowsOf(room)}
  BY DEF List, Ready, storeVars
<1>2. RowsOf(room) \subseteq everSaved
  BY DEF RowsOf, BoardsInv, StoredTypeOK, StoreTypeOK
<1>3. ListedSaved'
  BY <1>1, <1>2 DEF BoardsInv, ListedSaved, Meta
<1>4. LoadOk'
  BY <1>1 DEF BoardsInv, LoadOk, LoadTyped
<1> QED
  BY <1>1, <1>3, <1>4, StoreStays

-----------------------------------------------------------------------------
(* Loading.                                                                *)

(* What is known of every damaged blob.                                    *)
LEMMA DamageTyped ==
  ASSUME BoardsInv, NEW d \in Range(damage)
  PROVE  d.blob \in Bytes /\ d.kind \in {"cut", "grown", "changed"}
<1>1. PICK D : D = [id : Nat, kind : {"cut", "grown", "changed"}, blob : Bytes]
  OBVIOUS
<1>2. damage \in Seq(D)
  BY <1>1 DEF BoardsInv, BlobsOk
<1>3. \A i \in DOMAIN damage : damage[i] \in D
  BY <1>2
<1>4. \A e \in D : e.blob \in Bytes /\ e.kind \in {"cut", "grown", "changed"}
  BY <1>1
<1> QED
  BY <1>3, <1>4 DEF Range

(* Whatever the disk holds for a row is a sequence of bytes.               *)
LEMMA BlobIsBytes ==
  ASSUME BoardsInv, NEW row \in rows
  PROVE  Blob(row) \in Bytes
<1>1. CASE \E d \in Range(damage) : d.id = row.id
  <2>1. PICK d : d = CHOOSE e \in Range(damage) : e.id = row.id
    OBVIOUS
  <2>2. d \in Range(damage)
    BY <1>1, <2>1
  <2>3. \A e \in Range(damage) : e.blob \in Bytes
    BY DamageTyped
  <2> QED
    BY <1>1, <2>1, <2>2, <2>3 DEF Blob
<1>2. CASE ~\E d \in Range(damage) : d.id = row.id
  <2>1. row \in everSaved
    BY DEF BoardsInv, StoredTypeOK, StoreTypeOK
  <2> QED
    BY <1>2, <2>1 DEF Blob, BoardsInv, BlobsOk
<1> QED
  BY <1>1, <1>2

(* A load starts at the first byte.                                        *)
LEMMA FoundOk ==
  ASSUME BoardsInv, NEW by, NEW row \in rows, Found(by, row)
  PROVE  LoadOk'
<1>1. PICK blob \in Bytes : blob = Blob(row)
  BY BlobIsBytes
<1>2. load' = [at |-> IF blob = <<>> THEN "thrown" ELSE "header", by |-> by,
               row |-> Meta(row), blob |-> blob, p |-> 0,
               strokesLeft |-> 0, pointsLeft |-> 0, strokes |-> <<>>]
  BY <1>1 DEF Found
<1>3. 0 \in 0 .. Len(blob)
  <2>1. Len(blob) \in Nat
    BY LenProperties DEF Bytes
  <2> QED
    BY <2>1
<1>4. /\ load'.at \in {"header", "thrown"} /\ DOMAIN load' = LoadFields
      /\ load'.blob = blob /\ load'.p = 0
  BY <1>2 DEF LoadFields
<1> QED
  BY <1>1, <1>3, <1>4 DEF LoadOk, LoadTyped

(* A SELECT finds a row of the table or none.                              *)
LEMMA SelectFinds ==
  ASSUME (\E id \in 1 .. MaxSaves : LoadById(id)) \/ \E r \in Rooms : LoadLatest(r)
  PROVE  load' = NoLoad \/ \E by : \E row \in rows : Found(by, row)
<1>1. ASSUME NEW id, LoadById(id)
      PROVE  load' = NoLoad \/ \E by : \E row \in rows : Found(by, row)
  BY <1>1 DEF LoadById
<1>2. ASSUME NEW r, LoadLatest(r)
      PROVE  load' = NoLoad \/ \E by : \E row \in rows : Found(by, row)
  <2>1. CASE load' # NoLoad
    <3>1. PICK T \in Newest(RowsOf(r), 1) : \E x \in T : Found("room", x)
      BY <1>2, <2>1 DEF LoadLatest
    <3>2. T \subseteq rows
      BY DEF Newest, RowsOf
    <3> QED
      BY <3>1, <3>2
  <2> QED
    BY <2>1
<1> QED
  BY <1>1, <1>2

(* The SELECTs of loadById() and loadLatest().                             *)
LEMMA SelectInv ==
  ASSUME BoardsInv, (\E id \in 1 .. MaxSaves : LoadById(id)) \/ \E r \in Rooms : LoadLatest(r)
  PROVE  BoardsInv'
<1>1. /\ UNCHANGED <<storeVars, drawn, damage>> /\ listed' = listed /\ everSaved' = everSaved
      /\ db' = "open" /\ table' = TRUE
  BY DEF LoadById, LoadLatest, Ready, storeVars
<1>2. load' = NoLoad \/ \E by : \E row \in rows : Found(by, row)
  BY SelectFinds
<1>3. LoadOk'
  <2>1. CASE load' = NoLoad
    BY <2>1 DEF LoadOk, LoadTyped
  <2> QED
    BY <1>2, <2>1, FoundOk
<1>4. ListedSaved'
  BY <1>1 DEF BoardsInv, ListedSaved
<1> QED
  BY <1>1, <1>3, <1>4, StoreStays

(* A readLE() that does not throw moves the cursor by what it checked.     *)
LEMMA ReadInv ==
  ASSUME BoardsInv, Read
  PROVE  BoardsInv'
<1>1. /\ UNCHANGED <<storeVars, drawn, damage>> /\ listed' = listed /\ everSaved' = everSaved
      /\ db' = db /\ table' = table
  BY DEF Read, storeVars
<1>2. /\ load.at \in {"header", "strokes"} /\ DOMAIN load = LoadFields
      /\ load.blob \in Bytes /\ load.p \in 0 .. Len(load.blob)
  BY
  DEF Read, ReadHeader, ReadStroke, ReadPoint, ReadEnd, BoardsInv, LoadOk, LoadTyped, NoLoad
<1>3. Len(load.blob) \in Nat
  BY <1>2, LenProperties DEF Bytes
<1>4. \/ Throw \/ load' = [load EXCEPT !.at = "done"]
      \/ \E size \in Nat :
           /\ Fits(size) /\ load'.p = load.p + size /\ load'.blob = load.blob
           /\ load'.at \in {"header", "strokes"} /\ DOMAIN load' = DOMAIN load
  <2>1. /\ 2 * Size32 \in Nat /\ StrokeSize \in Nat /\ 2 * SizeFloat \in Nat
    BY StoredAssumption DEF StrokeSize
  <2>2. CASE ReadHeader
    <3>1. \/ Throw
          \/ /\ Fits(2 * Size32)
             /\ \E n : load' = [load EXCEPT !.at = "strokes", !.p = @ + 2 * Size32,
                                            !.strokesLeft = n]
      BY <2>2, Zenon DEF ReadHeader
    <3>3. CASE ~Throw
      <4>1. PICK n : load' = [load EXCEPT !.at = "strokes", !.p = @ + 2 * Size32,
                                       !.strokesLeft = n]
        BY <3>1, <3>3
      <4>2. load'.p = load.p + 2 * Size32 /\ load'.blob = load.blob
        BY <1>2, <4>1
      <4>3. load'.at = "strokes" /\ DOMAIN load' = DOMAIN load
        BY <1>2, <4>1
      <4> QED
        BY <2>1, <3>1, <3>3, <4>2, <4>3
    <3> QED
      BY <3>3
  <2>3. CASE ReadStroke
    <3>1. \/ Throw
          \/ /\ Fits(StrokeSize)
             /\ \E strokes :
                  load' = [load EXCEPT !.p = @ + StrokeSize, !.strokesLeft = @ - 1,
                                       !.pointsLeft = ReadLE(3 * Size64 + 3, Size32),
                                       !.strokes = strokes]
      BY <2>3, Zenon DEF ReadStroke
    <3>2. load.at = "strokes"
      BY <2>3 DEF ReadStroke
    <3>3. CASE ~Throw
      <4>1. PICK n, strokes :
              load' = [load EXCEPT !.p = @ + StrokeSize, !.strokesLeft = @ - 1,
                                   !.pointsLeft = n, !.strokes = strokes]
        BY <3>1, <3>3, Zenon
      <4>2. load'.p = load.p + StrokeSize /\ load'.blob = load.blob
        BY <1>2, <4>1
      <4>3. load'.at = "strokes" /\ DOMAIN load' = DOMAIN load
        BY <1>2, <3>2, <4>1
      <4> QED
        BY <2>1, <3>1, <3>3, <4>2, <4>3
    <3> QED
      BY <3>3
  <2>4. CASE ReadPoint
    <3>1. \/ Throw
          \/ /\ Fits(2 * SizeFloat)
             /\ \E strokes :
                  load' = [load EXCEPT !.p = @ + 2 * SizeFloat, !.pointsLeft = @ - 1,
                                       !.strokes = strokes]
      BY <2>4, Zenon DEF ReadPoint
    <3>2. load.at = "strokes"
      BY <2>4 DEF ReadPoint
    <3>3. CASE ~Throw
      <4>1. PICK strokes :
              load' = [load EXCEPT !.p = @ + 2 * SizeFloat, !.pointsLeft = @ - 1,
                                   !.strokes = strokes]
        BY <3>1, <3>3
      <4>2. load'.p = load.p + 2 * SizeFloat /\ load'.blob = load.blob
        BY <1>2, <4>1
      <4>3. load'.at = "strokes" /\ DOMAIN load' = DOMAIN load
        BY <1>2, <3>2, <4>1
      <4> QED
        BY <2>1, <3>1, <3>3, <4>2, <4>3
    <3> QED
      BY <3>3
  <2>5. CASE ReadEnd
    BY <2>5 DEF ReadEnd
  <2> QED
    BY <2>2, <2>3, <2>4, <2>5 DEF Read
<1>5. LoadOk'
  <2>1. CASE Throw
    BY <1>2, <2>1 DEF Throw, LoadOk, LoadTyped
  <2>2. CASE load' = [load EXCEPT !.at = "done"]
    BY <1>2, <2>2 DEF LoadOk, LoadTyped
  <2>3. ASSUME NEW size \in Nat,
               Fits(size), load'.p = load.p + size, load'.blob = load.blob,
               load'.at \in {"header", "strokes"}, DOMAIN load' = DOMAIN load
        PROVE  LoadOk'
    <3>1. load'.p \in 0 .. Len(load.blob)
      BY <1>2, <1>3, <2>3 DEF Fits
    <3> QED
      BY <1>2, <2>3, <3>1 DEF LoadOk, LoadTyped
  <2> QED
    BY <1>4, <2>1, <2>2, <2>3
<1>6. ListedSaved' /\ db' \in {"null", "open", "failed"}
  BY <1>1 DEF BoardsInv, ListedSaved, StoredTypeOK
<1> QED
  BY <1>1, <1>5, <1>6, StoreStays

-----------------------------------------------------------------------------
(* The handle, and the disk.                                               *)

(* init() that throws, and a restart.                                      *)
LEMMA HandleInv ==
  ASSUME BoardsInv, InitFails \/ Reopen
  PROVE  BoardsInv'
<1>1. /\ UNCHANGED <<storeVars, drawn, damage>> /\ listed' = listed /\ everSaved' = everSaved
      /\ load' = load \/ load' = NoLoad
      /\ db' \in {"null", "open", "failed"} /\ table' \in {table, TRUE}
  BY DEF InitFails, Reopen, storeVars
<1>2. LoadOk' /\ ListedSaved'
  BY <1>1 DEF BoardsInv, LoadOk, LoadTyped, ListedSaved
<1> QED
  BY <1>1, <1>2, StoreStays

(* A damaged blob is a sequence of bytes again.                            *)
LEMMA DamagedBytes ==
  ASSUME NEW blob \in Bytes, NEW d \in Damaged(blob)
  PROVE  d.blob \in Bytes /\ d.kind \in {"cut", "grown", "changed"}
<1>1. PICK n \in Nat : n = Len(blob) /\ DOMAIN blob = 1 .. n
  BY LenProperties DEF Bytes
<1>2. ASSUME NEW k \in 0 .. Len(blob) - 1 PROVE SubSeq(blob, 1, k) \in Bytes
  <2>1. PICK S : S = 0 .. Base - 1
    OBVIOUS
  <2>2. blob \in Seq(S) /\ 1 \in 1 .. Len(blob) + 1 /\ k \in 1 - 1 .. Len(blob)
    BY <1>1, <2>1 DEF Bytes
  <2>3. SubSeq(blob, 1, k) \in Seq(S)
    BY <2>2, SubSeqProperties
  <2> QED
    BY <2>1, <2>3 DEF Bytes
<1>3. ASSUME NEW b \in 0 .. Base - 1 PROVE Append(blob, b) \in Bytes
  BY AppendProperties DEF Bytes
<1>4. ASSUME NEW i \in DOMAIN blob PROVE [blob EXCEPT ![i] = (@ + 1) % Base] \in Bytes
  <2>1. blob[i] \in 0 .. Base - 1 /\ i \in 1 .. n
    <3>1. PICK S : S = 0 .. Base - 1
      OBVIOUS
    <3>2. blob \in Seq(S)
      BY <3>1 DEF Bytes
    <3>3. blob[i] \in S
      BY <3>2
    <3> QED
      BY <1>1, <3>1, <3>3
  <2>2. (blob[i] + 1) % Base \in 0 .. Base - 1
    BY <2>1, StoredAssumption
  <2>3. [blob EXCEPT ![i] = (blob[i] + 1) % Base] \in Seq(0 .. Base - 1)
    BY <1>1, <2>1, <2>2, ExceptSeq DEF Bytes
  <2> QED
    BY <2>3 DEF Bytes
<1> QED
  BY <1>2, <1>3, <1>4 DEF Damaged

(* Damage changes a blob and nothing else.                                 *)
LEMMA DamageInv ==
  ASSUME BoardsInv, NEW row \in rows, Damage(row)
  PROVE  BoardsInv'
<1>1. PICK d \in Damaged(row.snap.strokes) :
        damage' = Append(damage, [id |-> row.id, kind |-> d.kind, blob |-> d.blob])
  BY DEF Damage
<1>2. /\ rows' = rows /\ nextId' = nextId /\ everSaved' = everSaved
      /\ db' = db /\ table' = table /\ drawn' = drawn /\ listed' = listed /\ load' = load
  BY DEF Damage, storeVars
<1>3. row.snap.strokes \in Bytes /\ row.id \in Nat
  BY DEF BoardsInv, StoredTypeOK, StoreTypeOK, BlobsOk, Row
<1>4. d.blob \in Bytes /\ d.kind \in {"cut", "grown", "changed"}
  BY <1>3, DamagedBytes
<1>5. damage' \in Seq([id : Nat, kind : {"cut", "grown", "changed"}, blob : Bytes])
  BY <1>1, <1>3, <1>4, AppendProperties DEF BoardsInv, BlobsOk
<1>6. BlobsOk'
  BY <1>2, <1>5 DEF BoardsInv, BlobsOk
<1> QED
  BY <1>2, <1>6

  DEF BoardsInv, StoredTypeOK, StoreTypeOK, LoadOk, LoadTyped, IdsOnce, ListedSaved, OutlivedByLater

-----------------------------------------------------------------------------
(* Every step keeps the invariant.                                         *)
LEMMA BoardsNextInv ==
  ASSUME BoardsInv, [BoardsNext]_boardVars
  PROVE  BoardsInv'
<1>1. CASE UNCHANGED boardVars
  <2>1. LoadOk' /\ ListedSaved' /\ db' \in {"null", "open", "failed"}
    BY <1>1
    DEF boardVars, storeVars, BoardsInv, LoadOk, LoadTyped, ListedSaved, StoredTypeOK
  <2> QED
    BY <1>1, <2>1, StoreStays DEF boardVars
<1> QED
  BY <1>1, SaveBoardInv, PruneInv, ListInv, SelectInv, ReadInv, HandleInv, DamageInv
  DEF BoardsNext

(* The inductive invariant holds in every reachable state of the store.    *)
THEOREM BoardsInvariant == BoardsSpec => []BoardsInv
<1>1. BoardsInit => BoardsInv
  BY BoardsInitInv
<1>2. BoardsInv /\ [BoardsNext]_boardVars => BoardsInv'
  BY BoardsNextInv
<1> QED
  BY <1>1, <1>2, PTL DEF BoardsSpec

(* In particular the cursor of deserializeStrokes() never passes the end   *)
(* of the blob, whatever bytes a damaged blob holds, and a table with rows *)
(* was created.                                                            *)
THEOREM StoredTypeCorrect == BoardsSpec => []StoredTypeOK
BY BoardsInvariant, PTL DEF BoardsInv

(* Under an id from list() is the row that was listed, or none, however    *)
(* many rows were pruned and saved in between.                             *)
THEOREM ListedIdsCorrect == BoardsSpec => []ListedIdsStable
<1>1. ASSUME BoardsInv PROVE ListedIdsStable
  <2> SUFFICES ASSUME NEW x \in rows, NEW m \in listed, x.id = m.id PROVE Meta(x) = m
    BY DEF ListedIdsStable
  <2>1. PICK y \in everSaved : m = Meta(y)
    BY <1>1 DEF BoardsInv, ListedSaved
  <2>2. y.id = m.id
    BY <2>1 DEF Meta
  <2>3. x \in everSaved
    BY <1>1 DEF BoardsInv, StoredTypeOK, StoreTypeOK
  <2> QED
    BY <1>1, <2>1, <2>2, <2>3 DEF BoardsInv, IdsOnce
<1>2. BoardsInv => ListedIdsStable
  BY <1>1
<1> QED
  BY <1>2, BoardsInvariant, PTL

(* loadLatest() returns the last snapshot that was saved for its room, for *)
(* every number of rows kept and every order of saves and prunes, however  *)
(* many saves a millisecond sees, unless the clock was set back.           *)
THEOREM LatestCorrect == BoardsSpec => LatestIsLastSaved
<1>1. ASSUME BoardsInv, [BoardsNext]_boardVars, ~Loading, load' # load,
             load'.by = "room", TimesInOrder(load'.row.room)
      PROVE  {x \in everSaved : x.snap.room = load'.row.room /\ x.id > load'.row.id} = {}
  <2>1. NoLoad.by = "none"
    BY DEF NoLoad
  <2>2. PICK room \in Rooms : \E T \in Newest(RowsOf(room), 1) : \E x \in T : Found("room", x)
    <3>1. ~Read
      BY <1>1 DEF Read, ReadHeader, ReadStroke, ReadPoint, ReadEnd, Loading
    <3>2. ASSUME NEW x PROVE ~Found("id", x)
      <4>1. Found("id", x) => load'.by = "id"
        BY DEF Found
      <4> QED
        BY <1>1, <4>1
    <3>3. ASSUME NEW id, LoadById(id) PROVE FALSE
      BY <1>1, <2>1, <3>2, <3>3 DEF LoadById
    <3>4. load' # NoLoad
      BY <1>1, <2>1
    <3>5. \E room \in Rooms : LoadLatest(room)
      BY <1>1, <3>1, <3>3, <3>4
      DEF BoardsNext, boardVars, InitFails, Reopen, SaveBoard, Prune, List, Damage
    <3> QED
      BY <3>4, <3>5 DEF LoadLatest
  <2>3. PICK T \in Newest(RowsOf(room), 1) : \E x \in T : Found("room", x)
    BY <2>2
  <2>4. PICK x \in T : Found("room", x)
    BY <2>3
  <2>5. load'.row = Meta(x)
    BY <2>4 DEF Found
  <2>6. /\ T \subseteq RowsOf(room)
        /\ Cardinality(T) = IF 1 <= Cardinality(RowsOf(room)) THEN 1
                            ELSE Cardinality(RowsOf(room))
        /\ \A a \in T, c \in RowsOf(room) \ T : Precedes(a, c)
    BY <2>3 DEF Newest
  <2>7. /\ x \in rows /\ x.snap.room = room /\ rows \subseteq everSaved
        /\ \A y \in everSaved : y.id \in Nat /\ y.savedAt \in Nat
    BY <1>1, <2>4, <2>6 DEF RowsOf, BoardsInv, StoredTypeOK, StoreTypeOK, Row
  <2>8. load'.row.id = x.id /\ load'.row.room = room
    BY <2>5, <2>7 DEF Meta
  <2>9. T = {x}
    <3>1. RowsOf(room) \subseteq rows
      BY DEF RowsOf
    <3>2. IsFiniteSet(RowsOf(room))
      BY <1>1, <3>1, FS_Subset DEF BoardsInv
    <3>3. IsFiniteSet(T) /\ {x} \in SUBSET T
      BY <2>4, <2>6, <3>2, FS_Subset
    <3>4. Cardinality({x}) = 1
      BY FS_Singleton
    <3>5. Cardinality({x}) <= Cardinality(T) /\ (Cardinality(T) = Cardinality({x}) => T = {x})
      BY <3>3, FS_Subset
    <3>6. PICK c \in Nat, e \in Nat : c = Cardinality(T) /\ e = Cardinality(RowsOf(room))
      BY <3>2, <3>3, FS_CardinalityType
    <3>7. c = 1
      BY <2>6, <3>4, <3>5, <3>6
    <3> QED
      BY <3>4, <3>5, <3>6, <3>7
  <2>10. ASSUME NEW y \in everSaved, y.snap.room = room, y.id > x.id PROVE FALSE
    <3>1. x.id < y.id /\ x \in everSaved
      BY <2>7, <2>10
    <3>2. x.savedAt <= y.savedAt
      BY <1>1, <2>7, <2>8, <2>10, <3>1 DEF TimesInOrder
    <3>3. y \in rows
      BY <1>1, <2>7, <2>10, <3>1, <3>2 DEF BoardsInv, OutlivedByLater
    <3>4. y \in RowsOf(room) \ T
      BY <2>7, <2>9, <2>10, <3>1, <3>3 DEF RowsOf
    <3>5. Precedes(x, y)
      BY <2>4, <2>6, <3>4
    <3> QED
      BY <2>7, <2>10, <3>1, <3>2, <3>5 DEF Precedes
  <2> QED
    BY <2>8, <2>10
<1>2. BoardsInv /\ [BoardsNext]_boardVars =>
        [LET newer(room) == {x \in everSaved : x.snap.room = room /\ x.id > load'.row.id}
         IN  /\ ~Loading /\ load' # load /\ load'.by = "room"
             /\ TimesInOrder(load'.row.room)
             => newer(load'.row.room) = {}]_boardVars
  BY <1>1
<1> QED
  BY <1>2, BoardsInvariant, PTL DEF BoardsSpec, LatestIsLastSaved

-----------------------------------------------------------------------------
(* What the blobs hold.                                                    *)

(* A row holds the bytes of the board that was saved under its id.         *)
SavedAs ==
  \A x \in everSaved :
    /\ x.id \in 1 .. Len(drawn)
    /\ x.snap.strokes = SerializeStrokes(drawn[x.id])

(* A blob that was cut or grew still begins like the one that was saved.   *)
DamageOf(d) ==
  /\ d.id \in 1 .. Len(drawn)
  /\ d.kind \in {"cut", "grown"} =>
       /\ Agrees(d.blob, SerializeStrokes(drawn[d.id]))
       /\ Len(d.blob) # Len(SerializeStrokes(drawn[d.id]))

DamageKnown == \A d \in Range(damage) : DamageOf(d)

(* The blob in hand is that of its row, or was changed in place.           *)
LoadOf ==
  load.at # "none" =>
    /\ load.row.id \in 1 .. Len(drawn)
    /\ \/ Agrees(load.blob, SerializeStrokes(drawn[load.row.id]))
       \/ \E d \in Range(damage) : d.id = load.row.id /\ d.kind = "changed"

ContentInv == SavedAs /\ DamageKnown /\ LoadOf /\ Tracks

(* Tracks is about the load alone.                                         *)
LEMMA TracksStays ==
  ASSUME Tracks, load' = load
  PROVE  Tracks'
<1>1. ASSUME NEW b, Reads(b) PROVE Reads(b)'
  <2>1. ASSUME NEW pos, NEW k, NEW j, InStroke(b, pos, k, j) PROVE InStroke(b, pos, k, j)'
    BY <2>1 DEF InStroke
  <2>2. ASSUME NEW pos, BeforeStrokes(b, pos) PROVE BeforeStrokes(b, pos)'
    BY <2>2 DEF BeforeStrokes
  <2>3. CASE load.at = "strokes"
    <3>1. PICK pos : /\ Layout(SerializeStrokes(b), b, pos)
                     /\ BeforeStrokes(b, pos) \/ \E k, j : InStroke(b, pos, k, j)
      BY <1>1, <2>3 DEF Reads
    <3>2. BeforeStrokes(b, pos)' \/ \E k, j : InStroke(b, pos, k, j)'
      BY <2>1, <2>2, <3>1
    <3> QED
      BY <2>3, <3>1, <3>2 DEF Reads
  <2>4. CASE load.at # "strokes"
    BY <1>1, <2>4 DEF Reads
  <2> QED
    BY <2>3, <2>4
<1> QED
  BY <1>1 DEF Tracks

(* It holds at first.                                                      *)
LEMMA ContentInitInv == BoardsInit => ContentInv
<1> SUFFICES ASSUME BoardsInit PROVE ContentInv
  OBVIOUS
<1>1. everSaved = {} /\ damage = <<>> /\ load.at = "none"
  BY DEF BoardsInit, StoreInit, NoLoad
<1>2. Range(damage) = {}
  BY <1>1 DEF Range
<1> QED
  BY <1>1, <1>2 DEF ContentInv, SavedAs, DamageKnown, LoadOf, Tracks

(* A save adds a board and leaves those that were saved before.            *)
LEMMA SaveContent ==
  ASSUME BoardsInv, ContentInv, NEW room \in Rooms, NEW strokes \in Drawn,
         SaveBoard(room, strokes)
  PROVE  ContentInv'
<1>a. PICK now \in NowMs :
        LET row == [id |-> nextId, savedAt |-> now,
                    snap |-> [room |-> room, lastSeq |-> nextId,
                              strokes |-> SerializeStrokes(strokes)]]
        IN  everSaved' = everSaved \cup {row}
  BY DEF SaveBoard, Save
<1>1. PICK row : row = [id |-> nextId, savedAt |-> now,
                        snap |-> [room |-> room, lastSeq |-> nextId,
                                  strokes |-> SerializeStrokes(strokes)]]
  OBVIOUS
<1>2. /\ everSaved' = everSaved \cup {row} /\ drawn' = Append(drawn, strokes)
      /\ damage' = damage /\ load' = load
  BY <1>a, <1>1 DEF SaveBoard
<1>3. row.id = nextId /\ row.snap.strokes = SerializeStrokes(strokes)
  BY <1>1
<1>4. drawn \in Seq(Drawn) /\ nextId \in Nat /\ Len(drawn) = nextId - 1
  BY DEF BoardsInv, BlobsOk, StoredTypeOK, StoreTypeOK
<1>5. PICK n \in Nat : n = Len(drawn)
  BY <1>4, LenProperties
<1>6. /\ Len(drawn') = n + 1 /\ drawn'[n + 1] = strokes /\ nextId = n + 1
      /\ \A i \in 1 .. n : drawn'[i] = drawn[i]
  BY <1>2, <1>4, <1>5, AppendProperties
<1>7. SavedAs'
  BY <1>2, <1>3, <1>5, <1>6 DEF ContentInv, SavedAs
<1>8. DamageKnown'
  BY <1>2, <1>5, <1>6 DEF ContentInv, DamageKnown, DamageOf
<1>9. LoadOf'
  BY <1>2, <1>5, <1>6 DEF ContentInv, LoadOf
<1>10. Tracks'
  <2>1. load' = load
    BY <1>2
  <2> QED
    BY <2>1, TracksStays DEF ContentInv
<1> QED
  BY <1>7, <1>8, <1>9, <1>10 DEF ContentInv

(* Steps that leave the blobs alone.                                       *)
LEMMA QuietContent ==
  ASSUME ContentInv, UNCHANGED <<everSaved, drawn, damage>>, load' = load \/ load' = NoLoad
  PROVE  ContentInv'
<1>1. everSaved' = everSaved /\ drawn' = drawn /\ damage' = damage
  OBVIOUS
<1>2. SavedAs' /\ DamageKnown'
  BY <1>1 DEF ContentInv, SavedAs, DamageKnown, DamageOf
<1>3. CASE load' = load
  BY <1>1, <1>2, <1>3, TracksStays DEF ContentInv, LoadOf
<1>4. CASE load' = NoLoad
  <2>1. load'.at = "none"
    BY <1>4 DEF NoLoad
  <2> QED
    BY <1>2, <2>1 DEF ContentInv, LoadOf, Tracks
<1> QED
  BY <1>3, <1>4

(* A load begins with the blob of its row.                                 *)
LEMMA FoundContent ==
  ASSUME BoardsInv, ContentInv, NEW by, NEW row \in rows, Found(by, row),
         UNCHANGED <<everSaved, drawn, damage>>
  PROVE  ContentInv'
<1>1. everSaved' = everSaved /\ drawn' = drawn /\ damage' = damage
  OBVIOUS
<1>2. PICK blob : blob = Blob(row)
  OBVIOUS
<1>3. /\ load'.at \in {"header", "thrown"} /\ load'.row = Meta(row) /\ load'.blob = blob
      /\ load'.p = 0 /\ load'.strokes = <<>> /\ load'.pointsLeft = 0
  BY <1>2 DEF Found
<1>4. load'.row.id = row.id /\ row \in everSaved
  BY <1>3 DEF Meta, BoardsInv, StoredTypeOK, StoreTypeOK
<1>5. /\ row.id \in 1 .. Len(drawn)
      /\ row.snap.strokes = SerializeStrokes(drawn[row.id])
  BY <1>4 DEF ContentInv, SavedAs
<1>6. \/ Agrees(blob, SerializeStrokes(drawn[row.id]))
      \/ \E d \in Range(damage) : d.id = row.id /\ d.kind = "changed"
  <2>1. CASE \E d \in Range(damage) : d.id = row.id
    <3>1. PICK d : d = CHOOSE e \in Range(damage) : e.id = row.id
      OBVIOUS
    <3>2. d \in Range(damage) /\ d.id = row.id
      BY <2>1, <3>1
    <3>3. blob = d.blob
      BY <1>2, <2>1, <3>1 DEF Blob
    <3>4. d.kind \in {"cut", "grown", "changed"}
      BY <3>2, DamageTyped
    <3> QED
      BY <3>2, <3>3, <3>4 DEF ContentInv, DamageKnown, DamageOf
  <2>2. CASE ~\E d \in Range(damage) : d.id = row.id
    <3>1. blob = row.snap.strokes
      BY <1>2, <2>2 DEF Blob
    <3> QED
      BY <1>5, <3>1 DEF Agrees
  <2> QED
    BY <2>1, <2>2
<1>7. SavedAs' /\ DamageKnown'
  BY <1>1 DEF ContentInv, SavedAs, DamageKnown, DamageOf
<1>8. LoadOf'
  BY <1>1, <1>3, <1>4, <1>5, <1>6 DEF LoadOf
<1>9. Tracks'
  BY <1>3 DEF Tracks, Reads
<1> QED
  BY <1>7, <1>8, <1>9 DEF ContentInv

(* Reading goes on in step with every board whose bytes are in the blob.   *)
LEMMA ReadContent ==
  ASSUME BoardsInv, ContentInv, Read
  PROVE  ContentInv'
<1>1. everSaved' = everSaved /\ drawn' = drawn /\ damage' = damage
  BY DEF Read, storeVars
<1>2. LoadTyped /\ load.at \in {"header", "strokes"}
  BY DEF Read, ReadHeader, ReadStroke, ReadPoint, ReadEnd, BoardsInv, LoadOk, LoadTyped, NoLoad
<1>3. load'.row = load.row /\ load'.blob = load.blob /\ (Throw => load'.at = "thrown")
  <2>1. CASE Throw
    BY <1>2, <2>1 DEF Throw, LoadTyped, LoadFields
  <2>2. CASE ReadHeader /\ ~Throw
    <3>1. \E n : load' = [load EXCEPT !.at = "strokes", !.p = @ + 2 * Size32,
                                      !.strokesLeft = n]
      BY <2>2, Zenon DEF ReadHeader
    <3> QED
      BY <1>2, <2>2, <3>1 DEF LoadTyped, LoadFields
  <2>3. CASE ReadStroke /\ ~Throw
    <3>1. \E strokes :
            load' = [load EXCEPT !.p = @ + StrokeSize, !.strokesLeft = @ - 1,
                                 !.pointsLeft = ReadLE(3 * Size64 + 3, Size32),
                                 !.strokes = strokes]
      BY <2>3, Zenon DEF ReadStroke
    <3> QED
      BY <1>2, <2>3, <3>1 DEF LoadTyped, LoadFields
  <2>4. CASE ReadPoint /\ ~Throw
    <3>1. \E strokes : load' = [load EXCEPT !.p = @ + 2 * SizeFloat, !.pointsLeft = @ - 1,
                                            !.strokes = strokes]
      BY <2>4, Zenon DEF ReadPoint
    <3> QED
      BY <1>2, <2>4, <3>1 DEF LoadTyped, LoadFields
  <2>5. CASE ReadEnd /\ ~Throw
    BY <1>2, <2>5 DEF ReadEnd, LoadTyped, LoadFields
  <2> QED
    BY <2>1, <2>2, <2>3, <2>4, <2>5 DEF Read
<1>4. SavedAs' /\ DamageKnown'
  BY <1>1 DEF ContentInv, SavedAs, DamageKnown, DamageOf
<1>5. LoadOf'
  BY <1>1, <1>2, <1>3 DEF ContentInv, LoadOf
<1>6. Tracks'
  <2> SUFFICES ASSUME load'.at # "thrown", NEW b \in Drawn,
                      Agrees(load'.blob, SerializeStrokes(b))
               PROVE  Reads(b)'
    BY DEF Tracks
  <2>1. ~Throw /\ Agrees(load.blob, SerializeStrokes(b))
    BY <1>3
  <2>2. Reads(b)
    BY <1>2, <2>1 DEF ContentInv, Tracks
  <2> QED
    BY <1>2, <2>1, <2>2, HeaderTracks, StrokeTracks, PointTracks, EndTracks DEF Read
<1> QED
  BY <1>4, <1>5, <1>6 DEF ContentInv

(* What is cut off or added is at the end.                                 *)
LEMMA DamagedAgrees ==
  ASSUME NEW blob \in Bytes, NEW d \in Damaged(blob), d.kind \in {"cut", "grown"}
  PROVE  Agrees(d.blob, blob) /\ Len(d.blob) # Len(blob)
<1>1. PICK n \in Nat : n = Len(blob)
  BY LenProperties DEF Bytes
<1>2. ASSUME NEW k \in 0 .. n - 1, d.blob = SubSeq(blob, 1, k)
      PROVE  Agrees(d.blob, blob) /\ Len(d.blob) # n
  <2>1. /\ Len(d.blob) = k /\ \A i \in 1 .. k : d.blob[i] = blob[i]
    BY <1>1, <1>2 DEF Bytes
  <2> QED
    BY <2>1 DEF Agrees
<1>3. ASSUME NEW c, d.blob = Append(blob, c)
      PROVE  Agrees(d.blob, blob) /\ Len(d.blob) # n
  <2>1. /\ Len(d.blob) = n + 1 /\ \A i \in 1 .. n : d.blob[i] = blob[i]
    BY <1>1, <1>3 DEF Bytes
  <2> QED
    BY <1>1, <2>1 DEF Agrees
<1>4. \/ \E k \in 0 .. n - 1 : d.blob = SubSeq(blob, 1, k)
      \/ \E c \in 0 .. Base - 1 : d.blob = Append(blob, c)
  BY <1>1 DEF Damaged
<1> QED
  BY <1>1, <1>2, <1>3, <1>4

(* Damage is done to the blob of a row.                                    *)
LEMMA DamageContent ==
  ASSUME BoardsInv, ContentInv, NEW row \in rows, Damage(row)
  PROVE  ContentInv'
<1>1. PICK d \in Damaged(row.snap.strokes) :
        damage' = Append(damage, [id |-> row.id, kind |-> d.kind, blob |-> d.blob])
  BY DEF Damage
<1>2. everSaved' = everSaved /\ drawn' = drawn /\ load' = load
  BY DEF Damage, storeVars
<1>3. row \in everSaved /\ row.snap.strokes \in Bytes
  BY DEF BoardsInv, StoredTypeOK, StoreTypeOK, BlobsOk
<1>4. row.id \in 1 .. Len(drawn) /\ row.snap.strokes = SerializeStrokes(drawn[row.id])
  BY <1>3 DEF ContentInv, SavedAs
<1>5. PICK e : e = [id |-> row.id, kind |-> d.kind, blob |-> d.blob]
  OBVIOUS
<1>6. DamageOf(e)
  <2>1. e.id = row.id /\ e.kind = d.kind /\ e.blob = d.blob
    BY <1>5
  <2>2. d.kind \in {"cut", "grown"} =>
          Agrees(d.blob, row.snap.strokes) /\ Len(d.blob) # Len(row.snap.strokes)
    BY <1>3, DamagedAgrees
  <2> QED
    BY <1>4, <2>1, <2>2 DEF DamageOf
<1>7. Range(damage') = Range(damage) \cup {e}
  <2>1. PICK D : damage \in Seq(D)
    BY DEF BoardsInv, BlobsOk
  <2>2. PICK n \in Nat : n = Len(damage) /\ DOMAIN damage = 1 .. n
    BY <2>1, LenProperties
  <2>3. /\ DOMAIN damage' = 1 .. n + 1 /\ damage'[n + 1] = e
        /\ \A i \in 1 .. n : damage'[i] = damage[i]
    BY <1>1, <1>5, <2>1, <2>2
  <2>4. ASSUME NEW x PROVE x \in Range(damage') <=> x \in Range(damage) \cup {e}
    BY <2>2, <2>3 DEF Range
  <2> QED
    BY <2>4
<1>8. DamageKnown'
  <2>1. \A x \in Range(damage) : DamageOf(x)
    BY DEF ContentInv, DamageKnown
  <2>2. \A x \in Range(damage') : DamageOf(x)
    BY <1>6, <1>7, <2>1
  <2> QED
    BY <1>2, <2>2 DEF DamageKnown, DamageOf
<1>9. SavedAs' /\ Tracks'
  BY <1>2, TracksStays DEF ContentInv, SavedAs
<1>10. LoadOf'
  BY <1>2, <1>7 DEF ContentInv, LoadOf
<1> QED
  BY <1>8, <1>9, <1>10 DEF ContentInv

(* Every step keeps it.                                                    *)
LEMMA ContentNextInv ==
  ASSUME BoardsInv, ContentInv, [BoardsNext]_boardVars
  PROVE  ContentInv'
<1>1. CASE UNCHANGED boardVars
  BY <1>1, QuietContent DEF boardVars, storeVars
<1>2. CASE InitFails \/ Reopen
  BY <1>2, QuietContent DEF InitFails, Reopen, storeVars
<1>3. ASSUME NEW room \in Rooms, List(room) PROVE ContentInv'
  BY <1>3, QuietContent DEF List, storeVars
<1>4. ASSUME NEW room \in Rooms, NEW keep \in Keeps, Prune(room, keep) PROVE ContentInv'
  BY <1>4, QuietContent DEF Prune, PruneKeepLatest
<1>5. CASE (\E id \in 1 .. MaxSaves : LoadById(id)) \/ \E r \in Rooms : LoadLatest(r)
  <2>1. UNCHANGED <<everSaved, drawn, damage>>
    BY <1>5 DEF LoadById, LoadLatest, storeVars
  <2>2. load' = NoLoad \/ \E by : \E row \in rows : Found(by, row)
    BY <1>5, SelectFinds
  <2> QED
    BY <2>1, <2>2, QuietContent, FoundContent
<1> QED
  BY <1>1, <1>2, <1>3, <1>4, <1>5, SaveContent, ReadContent, DamageContent DEF BoardsNext

(* So every load is in step with the boards that were saved.               *)
THEOREM ContentInvariant == BoardsSpec => []ContentInv
<1>1. BoardsInit => ContentInv
  BY ContentInitInv
<1>2. BoardsInv /\ ContentInv /\ [BoardsNext]_boardVars => ContentInv'
  BY ContentNextInv
<1> QED
  BY <1>1, <1>2, BoardsInvariant, PTL DEF BoardsSpec

(* deserializeStrokes() undoes serializeStrokes(), for every board and     *)
(* every width of the integers: what a load returns is what was saved      *)
(* under that id, unless a byte of the blob was changed.                   *)
THEOREM LoadReturnsSavedCorrect == BoardsSpec => []LoadReturnsSaved
<1>1. ASSUME BoardsInv, ContentInv, load.at = "done"
      PROVE  \/ load.strokes = drawn[load.row.id]
             \/ \E d \in Range(damage) : d.id = load.row.id /\ d.kind = "changed"
  <2>1. /\ load.row.id \in 1 .. Len(drawn)
        /\ \/ Agrees(load.blob, SerializeStrokes(drawn[load.row.id]))
           \/ \E d \in Range(damage) : d.id = load.row.id /\ d.kind = "changed"
    BY <1>1 DEF ContentInv, LoadOf
  <2>2. drawn[load.row.id] \in Drawn
    BY <1>1, <2>1 DEF BoardsInv, BlobsOk
  <2>3. ASSUME Agrees(load.blob, SerializeStrokes(drawn[load.row.id]))
        PROVE  load.strokes = drawn[load.row.id]
    BY <1>1, <2>2, <2>3 DEF ContentInv, Tracks, Reads
  <2> QED
    BY <2>1, <2>3
<1>2. BoardsInv /\ ContentInv => LoadReturnsSaved
  BY <1>1 DEF LoadReturnsSaved
<1> QED
  BY <1>2, BoardsInvariant, ContentInvariant, PTL

(* A blob that lost its end or grew never gets through: at whatever byte   *)
(* it was cut, some readLE() runs out of bytes or some are left over.      *)
THEOREM DamageRefusedCorrect == BoardsSpec => []DamageRefused
<1>1. ASSUME BoardsInv, ContentInv, load.at = "done",
             NEW d \in Range(damage), d.kind \in {"cut", "grown"}, d.blob = load.blob
      PROVE  FALSE
  <2>1. /\ d.id \in 1 .. Len(drawn)
        /\ Agrees(load.blob, SerializeStrokes(drawn[d.id]))
        /\ Len(load.blob) # Len(SerializeStrokes(drawn[d.id]))
    BY <1>1 DEF ContentInv, DamageKnown, DamageOf
  <2>2. drawn[d.id] \in Drawn
    BY <1>1, <2>1 DEF BoardsInv, BlobsOk
  <2> QED
    BY <1>1, <2>1, <2>2 DEF ContentInv, Tracks, Reads
<1>2. BoardsInv /\ ContentInv => DamageRefused
  BY <1>1 DEF DamageRefused
<1> QED
  BY <1>2, BoardsInvariant, ContentInvariant, PTL

=============================================================================
