-------------------------- MODULE RecordFileProofs --------------------------
(***************************************************************************)
(* Proofs about RecordFile for every stream: a reader of the record file   *)
(* gets back the tags that were handed on.                                 *)
(*                                                                         *)
(* TagsIn is a recursive function, so that two inductions over numbers are *)
(* needed.  Both are arguments about a least element of a set.             *)
(***************************************************************************)
EXTENDS RecordFile, FlvRecordProofs, WellFoundedInduction

-----------------------------------------------------------------------------
(* Induction. *)

\* Every set of natural numbers but the empty one has a least element.
LEMMA LeastElement ==
  ASSUME NEW T \in SUBSET Nat, T # {}
  PROVE  \E x \in T : \A y \in T : x <= y
<1> DEFINE R == OpToRel(<, Nat)
<1>1. IsWellFoundedOn(R, Nat)
  BY NatLessThanWellFounded, Zenon
<1> HIDE DEF R
<1>2. PICK x \in T : \A y \in T : ~(<<y, x>> \in R)
  BY <1>1, WFMin
<1>3. ASSUME NEW y \in T PROVE x <= y
  <2>1. ~(<<y, x>> \in R)
    BY <1>2
  <2>2. x \in Nat /\ y \in Nat
    OBVIOUS
  <2>3. ~(y < x)
    BY <2>1, <2>2 DEF R, OpToRel
  <2> QED BY <2>2, <2>3
<1> QED BY <1>3

\* A set with 0 and with the successor of each number in it has all numbers.
LEMMA Induction ==
  ASSUME NEW S, 0 \in S, \A n \in Nat : n \in S => n + 1 \in S
  PROVE  Nat \subseteq S
<1> SUFFICES ASSUME Nat \ S # {} PROVE FALSE
  OBVIOUS
<1>1. PICK x \in Nat \ S : \A y \in Nat \ S : x <= y
  BY LeastElement
<1>2. x # 0
  OBVIOUS
<1>3. x - 1 \in Nat /\ x - 1 \notin S
  BY <1>2
<1> QED BY <1>1, <1>3

-----------------------------------------------------------------------------
(* The reader. *)

\* What is in a file.
FileCells == Seq([part : Nat \X Nat, says : Nat])

\* The cells of a file are pairs of a part and a number.
LEMMA CellsType ==
  ASSUME NEW f \in FileCells
  PROVE  /\ Len(f) \in Nat
         /\ \A p \in 1 .. Len(f) : f[p].part \in Nat \X Nat /\ f[p].says \in Nat
<1>1. \A p \in 1 .. Len(f) : f[p] \in [part : Nat \X Nat, says : Nat]
  BY ElementOfSeq DEF FileCells
<1>2. Len(f) \in Nat
  <2> DEFINE S == [part : Nat \X Nat, says : Nat]
  <2>1. f \in Seq(S)
    BY DEF FileCells
  <2> HIDE DEF S
  <2> QED BY <2>1, LenProperties
<1>3. \A c \in [part : Nat \X Nat, says : Nat] :
         c.part \in Nat \X Nat /\ c.says \in Nat
  OBVIOUS
<1> QED BY <1>1, <1>2, <1>3, Zenon

\* The tag at cell p is complete, with the size behind it.
Complete(f, p) == p <= Len(f) /\ p + f[p].says <= Len(f)

\* One step of the reader, g the tags it finds from each later cell on.
ReadStep(f, g, p) ==
    IF Complete(f, p)
    THEN <<ReadTag(f, p).data>> \o g[ReadTag(f, p).after]
    ELSE <<>>

\* A function that follows the reader from each of the last cells on.
Follows(f, g, first) ==
    /\ g = [p \in 1 .. Len(f) + 1 |-> g[p]]
    /\ \A p \in 1 .. Len(f) + 1 : p >= first => g[p] = ReadStep(f, g, p)

\* A cell more for the reader to start at.
LEMMA FollowsOneMore ==
  ASSUME NEW f \in FileCells, NEW g, NEW q \in 1 .. Len(f) + 1,
         Follows(f, g, q + 1)
  PROVE  \E h : Follows(f, h, q)
<1> DEFINE h == [p \in 1 .. Len(f) + 1 |->
                    IF p = q THEN ReadStep(f, g, q) ELSE g[p]]
<1>1. Len(f) \in Nat /\ \A p \in 1 .. Len(f) : f[p].says \in Nat
  BY CellsType
<1>2. h = [p \in 1 .. Len(f) + 1 |-> h[p]]
  OBVIOUS
<1>3. \A p \in 1 .. Len(f) + 1 :
         p >= q => ReadStep(f, h, p) = ReadStep(f, g, p)
  <2> SUFFICES ASSUME NEW p \in 1 .. Len(f) + 1, p >= q
               PROVE  ReadStep(f, h, p) = ReadStep(f, g, p)
    OBVIOUS
  <2>1. CASE Complete(f, p)
    <3> DEFINE a == ReadTag(f, p).after
    <3>1. a \in 1 .. Len(f) + 1 /\ a # q
      BY <1>1, <2>1 DEF Complete, ReadTag
    <3>2. h[a] = g[a]
      BY <3>1
    <3> HIDE DEF h
    <3> QED BY <2>1, <3>2 DEF ReadStep
  <2>2. CASE ~Complete(f, p)
    BY <2>2 DEF ReadStep
  <2> QED BY <2>1, <2>2
<1>4. \A p \in 1 .. Len(f) + 1 : p >= q => h[p] = ReadStep(f, g, p)
  BY <1>1 DEF Follows
<1>5. Follows(f, h, q)
  <2> HIDE DEF h
  <2> QED BY <1>2, <1>3, <1>4 DEF Follows
<1> QED BY <1>5

\* The reader's loop is well defined: it only moves forward.
LEMMA ReaderExists ==
  ASSUME NEW f \in FileCells
  PROVE  \E g : g = [p \in 1 .. Len(f) + 1 |-> ReadStep(f, g, p)]
<1> DEFINE S == {k \in Nat : k <= Len(f) + 1 =>
                               \E g : Follows(f, g, Len(f) + 2 - k)}
<1>1. Len(f) \in Nat
  BY DEF FileCells
<1>2. 0 \in S
  <2> DEFINE g == [p \in 1 .. Len(f) + 1 |-> <<>>]
  <2>1. Follows(f, g, Len(f) + 2 - 0)
    BY <1>1 DEF Follows
  <2> QED BY <2>1
<1>3. ASSUME NEW k \in Nat, k \in S PROVE k + 1 \in S
  <2> SUFFICES ASSUME k + 1 <= Len(f) + 1
               PROVE  \E g : Follows(f, g, Len(f) + 2 - (k + 1))
    OBVIOUS
  <2> DEFINE q == Len(f) + 1 - k
  <2>1. q \in 1 .. Len(f) + 1 /\ q + 1 = Len(f) + 2 - k
        /\ q = Len(f) + 2 - (k + 1)
    BY <1>1
  <2>2. PICK g : Follows(f, g, q + 1)
    BY <1>1, <1>3, <2>1
  <2> HIDE DEF q
  <2> QED BY <2>1, <2>2, FollowsOneMore
<1>4. Len(f) + 1 \in S
  <2> HIDE DEF S
  <2> QED BY <1>1, <1>2, <1>3, Induction
<1>5. PICK g : Follows(f, g, Len(f) + 2 - (Len(f) + 1))
  BY <1>1, <1>4
<1>6. \A p \in 1 .. Len(f) + 1 : g[p] = ReadStep(f, g, p)
  BY <1>1, <1>5 DEF Follows
<1>7. g = [p \in 1 .. Len(f) + 1 |-> ReadStep(f, g, p)]
  BY <1>5, <1>6 DEF Follows
<1> QED BY <1>7

\* What TagsIn computes: one ReadTag after the other.
LEMMA TagsInFollows ==
  ASSUME NEW f \in FileCells
  PROVE  \E g : /\ TagsIn(f) = g[1]
                /\ \A p \in 1 .. Len(f) + 1 : g[p] = ReadStep(f, g, p)
<1> DEFINE g == CHOOSE from :
                   from = [p \in 1 .. Len(f) + 1 |-> ReadStep(f, from, p)]
<1>1. TagsIn(f) = g[1]
  BY DEF TagsIn, ReadStep, Complete
<1>2. g = [p \in 1 .. Len(f) + 1 |-> ReadStep(f, g, p)]
  BY ReaderExists
<1> HIDE DEF g
<1>3. \A p \in 1 .. Len(f) + 1 : g[p] = ReadStep(f, g, p)
  BY <1>2, Zenon
<1> QED BY <1>1, <1>3

-----------------------------------------------------------------------------
(* The layout of a file. *)

Tag == Seq(Nat \X Nat)

\* The cells of tag t lie in f from cell p on, the first with the length of t.
TagAt(f, t, p) ==
    /\ f[p].says = Len(t)
    /\ \A j \in 1 .. Len(t) : f[p + j - 1].part = t[j]

\* The first m tags of E lie in f behind one another, each with a size behind
\* it, tag i from cell pos[i] on.
Layout(f, E, m, pos) ==
    /\ pos[1] = 1
    /\ \A i \in 1 .. m + 1 : pos[i] \in 1 .. Len(f) + 1
    /\ \A i \in 1 .. m :
          TagAt(f, E[i], pos[i]) /\ pos[i + 1] = pos[i] + Len(E[i]) + 1

\* The cells of a tag with a size behind it are cells of the file.
LEMMA CellsInside ==
  ASSUME NEW N \in Nat, NEW n \in Nat, NEW p \in 1 .. N + 1,
         p + n + 1 \in 1 .. N + 1
  PROVE  /\ p \in 1 .. N /\ p + n <= N
         /\ \A j \in 1 .. n : p + j - 1 \in 1 .. N
OBVIOUS

\* A sequence of tags behind one tag.
LEMMA ConsTag ==
  ASSUME NEW t \in Tag, NEW E \in Seq(Tag), NEW k \in Nat, NEW m \in Nat,
         k < m, m <= Len(E), t = E[m - k]
  PROVE  <<t>> \o [i \in 1 .. k |-> E[m - k + i]]
            = [i \in 1 .. k + 1 |-> E[m - (k + 1) + i]]
<1> DEFINE s == [i \in 1 .. k |-> E[m - k + i]]
           u == [i \in 1 .. k + 1 |-> E[m - (k + 1) + i]]
<1>1. \A i \in 1 .. Len(E) : E[i] \in Tag
  BY ElementOfSeq
<1>2. s \in Seq(Tag) /\ Len(s) = k
  BY <1>1
<1>3. u \in Seq(Tag) /\ Len(u) = k + 1
  BY <1>1
<1>4. <<t>> \in Seq(Tag) /\ Len(<<t>>) = 1 /\ <<t>>[1] = t
  OBVIOUS
<1>5. /\ <<t>> \o s \in Seq(Tag)
      /\ Len(<<t>> \o s) = k + 1
      /\ \A i \in 1 .. k + 1 :
            (<<t>> \o s)[i] = IF i <= 1 THEN <<t>>[i] ELSE s[i - 1]
  <2> HIDE DEF s
  <2> QED BY <1>2, <1>4, ConcatProperties
<1>6. ASSUME NEW i \in 1 .. k + 1 PROVE (<<t>> \o s)[i] = u[i]
  <2>1. CASE i = 1
    <3>1. u[i] = E[m - (k + 1) + 1]
      BY <2>1
    <3>2. m - (k + 1) + 1 = m - k
      OBVIOUS
    <3>3. (<<t>> \o s)[i] = <<t>>[1]
      <4> HIDE DEF s
      <4> QED BY <1>5, <2>1
    <3> HIDE DEF s, u
    <3> QED BY <1>4, <3>1, <3>2, <3>3
  <2>2. CASE i # 1
    <3>1. i - 1 \in 1 .. k /\ m - k + (i - 1) = m - (k + 1) + i
      BY <2>2
    <3>2. s[i - 1] = E[m - k + (i - 1)] /\ u[i] = E[m - (k + 1) + i]
      BY <3>1
    <3>3. (<<t>> \o s)[i] = s[i - 1]
      <4> HIDE DEF s
      <4> QED BY <1>5, <2>2
    <3> HIDE DEF s, u
    <3> QED BY <3>1, <3>2, <3>3
  <2> QED BY <2>1, <2>2
<1> HIDE DEF s, u
<1>7. <<t>> \o s = u
  BY <1>3, <1>5, <1>6, SeqEqual
<1> QED BY <1>7 DEF s, u

\* ReadTag returns the tag that lies at p.
LEMMA ReadsTag ==
  ASSUME NEW f \in FileCells, NEW t \in Tag, NEW p \in 1 .. Len(f),
         TagAt(f, t, p)
  PROVE  ReadTag(f, p).data = t /\ ReadTag(f, p).after = p + Len(t) + 1
<1>1. f[p].says = Len(t) /\ \A j \in 1 .. Len(t) : f[p + j - 1].part = t[j]
  BY DEF TagAt
<1>2. ReadTag(f, p).data = [i \in 1 .. Len(t) |-> f[p + i - 1].part]
  BY <1>1 DEF ReadTag
<1>3. t = [i \in 1 .. Len(t) |-> t[i]]
  BY DEF Tag
<1>4. [i \in 1 .. Len(t) |-> f[p + i - 1].part] = [i \in 1 .. Len(t) |-> t[i]]
  BY <1>1
<1> QED BY <1>1, <1>2, <1>3, <1>4 DEF ReadTag

\* The reader gets exactly the tags of the layout when there is no complete
\* tag behind them.
LEMMA ReadsLayout ==
  ASSUME NEW f \in FileCells, NEW E \in Seq(Tag), NEW m \in Nat, m <= Len(E),
         NEW pos, Layout(f, E, m, pos), ~Complete(f, pos[m + 1])
  PROVE  TagsIn(f) = [i \in 1 .. m |-> E[i]]
<1>1. PICK g : /\ TagsIn(f) = g[1]
               /\ \A p \in 1 .. Len(f) + 1 : g[p] = ReadStep(f, g, p)
  BY TagsInFollows
<1>2. Len(f) \in Nat /\ \A i \in 1 .. Len(E) : E[i] \in Tag /\ Len(E[i]) \in Nat
  <2>1. \A i \in 1 .. Len(E) : E[i] \in Tag
    BY ElementOfSeq
  <2> QED BY <2>1, CellsType DEF Tag
<1> DEFINE Remaining(k) == [i \in 1 .. k |-> E[m - k + i]]
           S == {k \in Nat : k <= m => g[pos[m + 1 - k]] = Remaining(k)}
<1>3. 0 \in S
  <2>1. pos[m + 1] \in 1 .. Len(f) + 1
    BY DEF Layout
  <2>2. g[pos[m + 1]] = <<>>
    BY <1>1, <2>1 DEF ReadStep
  <2>3. Remaining(0) = <<>>
    OBVIOUS
  <2>4. m + 1 - 0 = m + 1
    OBVIOUS
  <2> HIDE DEF Remaining
  <2> QED BY <2>2, <2>3, <2>4
<1>4. ASSUME NEW k \in Nat, k \in S PROVE k + 1 \in S
  <2> SUFFICES ASSUME k + 1 <= m
               PROVE  g[pos[m + 1 - (k + 1)]] = Remaining(k + 1)
    OBVIOUS
  <2> DEFINE i == m - k
  <2>1. /\ i \in 1 .. m /\ i \in 1 .. Len(E) /\ i \in 1 .. m + 1
        /\ i + 1 \in 1 .. m + 1
        /\ m + 1 - k = i + 1 /\ m + 1 - (k + 1) = i
    BY <1>2
  <2>2. g[pos[i + 1]] = Remaining(k)
    <3>1. g[pos[m + 1 - k]] = Remaining(k)
      BY <1>4
    <3> HIDE DEF Remaining, i
    <3> QED BY <2>1, <3>1
  <2> HIDE DEF i
  <2>3. /\ pos[i] \in 1 .. Len(f) + 1
        /\ pos[i + 1] \in 1 .. Len(f) + 1
        /\ TagAt(f, E[i], pos[i])
        /\ pos[i + 1] = pos[i] + Len(E[i]) + 1
    BY <2>1 DEF Layout
  <2>4. pos[i] \in 1 .. Len(f) /\ Complete(f, pos[i])
    <3>1. Len(E[i]) \in Nat /\ f[pos[i]].says = Len(E[i])
      BY <1>2, <2>1, <2>3 DEF TagAt
    <3>2. pos[i] \in 1 .. Len(f) /\ pos[i] + Len(E[i]) <= Len(f)
      BY <1>2, <2>3, <3>1, CellsInside
    <3>3. pos[i] <= Len(f)
      BY <1>2, <3>2
    <3> QED BY <3>1, <3>2, <3>3 DEF Complete
  <2>5. ReadTag(f, pos[i]).data = E[i] /\ ReadTag(f, pos[i]).after = pos[i + 1]
    BY <1>2, <2>1, <2>3, <2>4, ReadsTag
  <2>6. g[pos[i]] = <<E[i]>> \o Remaining(k)
    <3> HIDE DEF Remaining
    <3>1. g[pos[i]] = ReadStep(f, g, pos[i])
      BY <1>1, <2>3
    <3> QED BY <2>2, <2>4, <2>5, <3>1 DEF ReadStep
  <2>7. <<E[i]>> \o Remaining(k) = Remaining(k + 1)
    <3>1. E[i] \in Tag /\ k < m /\ E[i] = E[m - k]
      BY <1>2, <2>1 DEF i
    <3> DEFINE t == E[i]
    <3> HIDE DEF S, Remaining, t
    <3>2. <<t>> \o [j \in 1 .. k |-> E[m - k + j]]
             = [j \in 1 .. k + 1 |-> E[m - (k + 1) + j]]
      BY <3>1, ConsTag DEF t
    <3> QED BY <3>2 DEF Remaining, t
  <2> HIDE DEF Remaining
  <2> QED BY <2>1, <2>6, <2>7
<1>5. m \in S
  <2> HIDE DEF S
  <2> QED BY <1>3, <1>4, Induction
<1>6. g[pos[m + 1 - m]] = Remaining(m)
  BY <1>5
<1>7. m + 1 - m = 1 /\ pos[1] = 1
  BY DEF Layout
<1>8. Remaining(m) = [i \in 1 .. m |-> E[i]]
  <2>1. \A i \in 1 .. m : m - m + i = i
    OBVIOUS
  <2> QED BY <2>1
<1> HIDE DEF Remaining
<1> QED BY <1>1, <1>6, <1>7, <1>8

\* What is written behind a layout, and tags that are handed on later, leave it
\* as it is.
LEMMA LayoutGrows ==
  ASSUME NEW f \in FileCells, NEW f2 \in FileCells, Len(f) <= Len(f2),
         \A p \in 1 .. Len(f) : f2[p] = f[p],
         NEW E \in Seq(Tag), NEW E2, NEW m \in Nat, m <= Len(E),
         \A i \in 1 .. m : E2[i] = E[i],
         NEW pos, Layout(f, E, m, pos)
  PROVE  Layout(f2, E2, m, pos)
<1>1. Len(f) \in Nat /\ Len(f2) \in Nat
  BY CellsType
<1>2. \A i \in 1 .. m + 1 : pos[i] \in 1 .. Len(f2) + 1
  BY <1>1 DEF Layout
<1>3. ASSUME NEW i \in 1 .. m
      PROVE  TagAt(f2, E2[i], pos[i]) /\ pos[i + 1] = pos[i] + Len(E2[i]) + 1
  <2>1. /\ pos[i] \in 1 .. Len(f) + 1 /\ pos[i + 1] \in 1 .. Len(f) + 1
        /\ TagAt(f, E[i], pos[i]) /\ pos[i + 1] = pos[i] + Len(E[i]) + 1
        /\ E2[i] = E[i]
    BY DEF Layout
  <2>2. E[i] \in Tag /\ Len(E[i]) \in Nat
    <3>1. E[i] \in Tag
      BY ElementOfSeq
    <3> QED BY <3>1 DEF Tag
  <2> DEFINE t == E[i]
             p == pos[i]
  <2>3. /\ p \in 1 .. Len(f)
        /\ \A j \in 1 .. Len(t) : p + j - 1 \in 1 .. Len(f)
    <3>1. p \in 1 .. Len(f) + 1 /\ p + Len(t) + 1 \in 1 .. Len(f) + 1
          /\ Len(t) \in Nat
      BY <2>1, <2>2, Zenon
    <3> HIDE DEF t, p
    <3> QED BY <1>1, <3>1, CellsInside
  <2>4. TagAt(f, t, p)
    BY <2>1
  <2> HIDE DEF t, p
  <2>5. f2[p] = f[p] /\ \A j \in 1 .. Len(t) : f2[p + j - 1] = f[p + j - 1]
    BY <2>3
  <2>6. TagAt(f2, t, p)
    BY <2>4, <2>5 DEF TagAt
  <2> QED BY <2>1, <2>6 DEF t, p
<1> QED BY <1>2, <1>3 DEF Layout

\* A tag with its size behind the layout belongs to it.
LEMMA LayoutOneMore ==
  ASSUME NEW f \in FileCells, NEW E \in Seq(Tag), NEW m \in Nat,
         m + 1 <= Len(E), NEW pos, Layout(f, E, m, pos),
         TagAt(f, E[m + 1], pos[m + 1]),
         Len(f) = pos[m + 1] + Len(E[m + 1])
  PROVE  \E pos2 : Layout(f, E, m + 1, pos2) /\ pos2[m + 2] = Len(f) + 1
<1> DEFINE pos2 == [i \in 1 .. m + 2 |->
                       IF i = m + 2 THEN Len(f) + 1 ELSE pos[i]]
<1>1. Len(f) \in Nat
  BY CellsType
<1>2. /\ \A i \in 1 .. m + 1 : pos2[i] = pos[i]
      /\ pos2[m + 2] = Len(f) + 1
      /\ m + 1 \in Nat /\ m + 1 + 1 = m + 2
  OBVIOUS
<1> HIDE DEF pos2
<1>3. pos2[1] = 1 /\ \A i \in 1 .. m + 1 + 1 : pos2[i] \in 1 .. Len(f) + 1
  <2>1. 1 \in 1 .. m + 1 /\ Len(f) + 1 \in 1 .. Len(f) + 1
    BY <1>1
  <2>2. pos2[1] = 1 /\ \A i \in 1 .. m + 1 : pos2[i] \in 1 .. Len(f) + 1
    BY <1>2, <2>1 DEF Layout
  <2>3. \A i \in 1 .. m + 1 + 1 : i \in 1 .. m + 1 \/ i = m + 2
    OBVIOUS
  <2> QED BY <1>2, <2>1, <2>2, <2>3
<1>4. ASSUME NEW i \in 1 .. m + 1
      PROVE  TagAt(f, E[i], pos2[i]) /\ pos2[i + 1] = pos2[i] + Len(E[i]) + 1
  <2>1. CASE i \in 1 .. m
    <3>1. i \in 1 .. m + 1 /\ i + 1 \in 1 .. m + 1
      BY <2>1
    <3>2. TagAt(f, E[i], pos[i]) /\ pos[i + 1] = pos[i] + Len(E[i]) + 1
      BY <2>1 DEF Layout
    <3> QED BY <1>2, <3>1, <3>2
  <2>2. CASE i = m + 1
    <3>1. pos2[i] = pos[m + 1] /\ pos2[i + 1] = Len(f) + 1
      BY <1>2, <2>2
    <3>2. pos[m + 1] \in Nat /\ Len(E[m + 1]) \in Nat
      <4>1. E[m + 1] \in Tag /\ pos[m + 1] \in 1 .. Len(f) + 1
        BY ElementOfSeq DEF Layout
      <4>2. \A t \in Tag : Len(t) \in Nat
        BY DEF Tag
      <4> QED BY <1>1, <4>1, <4>2
    <3>3. Len(f) + 1 = pos[m + 1] + Len(E[m + 1]) + 1
      BY <3>2
    <3> QED BY <2>2, <3>1, <3>3
  <2> QED BY <2>1, <2>2
<1> QED BY <1>2, <1>3, <1>4 DEF Layout

\* A tag of which the size is missing is no complete tag.
LEMMA NoSizeYet ==
  ASSUME NEW f \in FileCells, NEW t \in Tag, NEW p \in 1 .. Len(f),
         TagAt(f, t, p), Len(f) = p + Len(t) - 1
  PROVE  ~Complete(f, p)
BY CellsType DEF TagAt, Complete, Tag

-----------------------------------------------------------------------------
(* The bytes of a tag. *)

\* A function on 1 .. n is a sequence of length n.
LEMMA FcnIsSeq ==
  ASSUME NEW S, NEW n \in Nat, NEW g \in [1 .. n -> S]
  PROVE  g \in Seq(S) /\ Len(g) = n
OBVIOUS

\* Bytes fills a buffer of the size of the tag.
LEMMA BytesType ==
  ASSUME NEW e \in Entry
  PROVE  Bytes(e) \in Tag /\ Len(Bytes(e)) = e.size
<1>1. e.size \in Nat /\ e.parts \in Seq(Piece)
  BY DEF Entry
<1>2. \A i \in 1 .. Len(e.parts) : e.parts[i] \in Nat \X Nat
  BY <1>1, ElementOfSeq DEF Piece
<1>3. Rest \in Nat \X Nat
  BY DEF Rest
<1>4. Len(e.parts) \in Nat
  BY <1>1
<1>5. \A i \in 1 .. e.size :
         (IF i <= Len(e.parts) THEN e.parts[i] ELSE Rest) \in Nat \X Nat
  BY <1>1, <1>2, <1>3, <1>4
<1>6. Bytes(e) \in [1 .. e.size -> Nat \X Nat]
  BY <1>5 DEF Bytes
<1> QED BY <1>1, <1>6 DEF Tag

\* WriteTagDirect writes the bytes of the tag, the first with what they say.
LEMMA CellsOfTag ==
  ASSUME NEW e \in Entry, NEW n \in Nat
  PROVE  /\ Cells(e, n) \in FileCells
         /\ Len(Cells(e, n)) = e.size
         /\ \A i \in 1 .. e.size :
               Cells(e, n)[i].part = Bytes(e)[i] /\ Cells(e, n)[i].says = n
<1>1. e.size \in Nat /\ Bytes(e) \in Tag /\ Len(Bytes(e)) = e.size
  BY BytesType DEF Entry
<1>2. \A i \in 1 .. e.size : Bytes(e)[i] \in Nat \X Nat
  BY <1>1, ElementOfSeq DEF Tag
<1>3. \A i \in 1 .. e.size :
         Cell(Bytes(e)[i], n) \in [part : Nat \X Nat, says : Nat]
  BY <1>2 DEF Cell
<1>4. Cells(e, n) \in [1 .. e.size -> [part : Nat \X Nat, says : Nat]]
  BY <1>3 DEF Cells
<1>5. Cells(e, n) \in FileCells /\ Len(Cells(e, n)) = e.size
  BY <1>1, <1>4, FcnIsSeq DEF FileCells
<1> QED BY <1>5 DEF Cells, Cell

-----------------------------------------------------------------------------
(* What is in the file at each point of WriteTagDirect, for tags es that were
   handed on, a file f, a place w in WriteTagDirect and a handle h. *)

\* Expected, for the tags es.
TagsOf(es) == <<<<Script>>>> \o [i \in DOMAIN es |-> Bytes(es[i])]

NoLoneFragment(es) == \A i \in DOMAIN es : ~LoneFragment(es[i])

\* The first m tags are in the file, with their sizes.  They are all of them
\* when extractFlv is outside WriteTagDirect and the stream is recorded, and all
\* but the last when it is inside; of that one the bytes may be there.
InFile(f, es, w, h, m, pos) ==
    /\ m \in 1 .. Len(es) + 1
    /\ Layout(f, TagsOf(es), m, pos)
    /\ h # "none" => m >= Len(es)
    /\ h # "none" /\ w = "no" => m = Len(es) + 1
    /\ w \in {"tag", "size"} => m = Len(es)
    /\ w \in {"no", "tag"} => pos[m + 1] = Len(f) + 1
    /\ w = "size" => /\ pos[m + 1] <= Len(f)
                     /\ TagAt(f, TagsOf(es)[m + 1], pos[m + 1])
                     /\ Len(f) = pos[m + 1] + Len(TagsOf(es)[m + 1]) - 1
    /\ ~Complete(f, pos[m + 1])

\* The tags a reader should get.
LEMMA TagsOfType ==
  ASSUME NEW es \in Seq(Entry)
  PROVE  /\ Len(es) \in Nat
         /\ TagsOf(es) \in Seq(Tag)
         /\ Len(TagsOf(es)) = Len(es) + 1
         /\ TagsOf(es)[1] = <<Script>>
         /\ \A i \in 1 .. Len(es) : TagsOf(es)[i + 1] = Bytes(es[i])
<1> DEFINE s == [i \in DOMAIN es |-> Bytes(es[i])]
<1>1. Len(es) \in Nat /\ DOMAIN es = 1 .. Len(es)
  BY LenProperties
<1>2. \A i \in 1 .. Len(es) : es[i] \in Entry
  BY ElementOfSeq
<1>3. s \in Seq(Tag) /\ Len(s) = Len(es)
  <2>1. s \in [1 .. Len(es) -> Tag]
    BY <1>1, <1>2, BytesType
  <2> HIDE DEF s
  <2> QED BY <1>1, <2>1, FcnIsSeq
<1>4. \A i \in 1 .. Len(es) : s[i] = Bytes(es[i])
  BY <1>1
<1> HIDE DEF s
<1>5. <<Script>> \in Tag
  BY DEF Script, Tag
<1>6. <<<<Script>>>> \in Seq(Tag) /\ Len(<<<<Script>>>>) = 1
      /\ <<<<Script>>>>[1] = <<Script>>
  <2> DEFINE t == <<Script>>
  <2> HIDE DEF t
  <2>1. <<t>> \in Seq(Tag) /\ Len(<<t>>) = 1 /\ <<t>>[1] = t
    BY <1>5 DEF t
  <2> QED BY <2>1 DEF t
<1>7. TagsOf(es) = <<<<Script>>>> \o s
  BY DEF TagsOf, s
<1>8. /\ TagsOf(es) \in Seq(Tag)
      /\ Len(TagsOf(es)) = 1 + Len(es)
      /\ \A i \in 1 .. 1 + Len(es) :
            TagsOf(es)[i] = IF i <= 1 THEN <<<<Script>>>>[i] ELSE s[i - 1]
  BY <1>3, <1>6, <1>7, ConcatProperties
<1>9. TagsOf(es)[1] = <<Script>>
  BY <1>1, <1>6, <1>8
<1>10. ASSUME NEW i \in 1 .. Len(es) PROVE TagsOf(es)[i + 1] = Bytes(es[i])
  <2>1. i + 1 \in 1 .. 1 + Len(es) /\ ~(i + 1 <= 1) /\ i + 1 - 1 = i
    BY <1>1
  <2>2. TagsOf(es)[i + 1] = s[i + 1 - 1]
    BY <1>8, <2>1
  <2> QED BY <1>4, <2>1, <2>2
<1> QED BY <1>1, <1>8, <1>9, <1>10

\* A tag that is handed on is one more to read, behind the others.
LEMMA TagsOfAppend ==
  ASSUME NEW es \in Seq(Entry), NEW e \in Entry
  PROVE  \A i \in 1 .. Len(es) + 1 : TagsOf(Append(es, e))[i] = TagsOf(es)[i]
<1> DEFINE es2 == Append(es, e)
<1>1. /\ es2 \in Seq(Entry) /\ Len(es2) = Len(es) + 1 /\ Len(es) \in Nat
      /\ \A i \in 1 .. Len(es) : es2[i] = es[i]
  BY AppendProperties
<1> HIDE DEF es2
<1>2. ASSUME NEW i \in 1 .. Len(es) + 1 PROVE TagsOf(es2)[i] = TagsOf(es)[i]
  <2>1. CASE i = 1
    BY <1>1, <2>1, TagsOfType
  <2>2. CASE i # 1
    <3> DEFINE k == i - 1
    <3>1. k \in 1 .. Len(es) /\ k \in 1 .. Len(es2) /\ i = k + 1
      BY <1>1, <2>2
    <3> HIDE DEF k
    <3>2. TagsOf(es2)[k + 1] = Bytes(es2[k]) /\ TagsOf(es)[k + 1] = Bytes(es[k])
      BY <1>1, <3>1, TagsOfType
    <3> QED BY <1>1, <3>1, <3>2
  <2> QED BY <2>1, <2>2
<1> QED BY <1>2 DEF es2

\* extractFlv hands on a tag.
LEMMA InFileEmit ==
  ASSUME NEW f \in FileCells, NEW es \in Seq(Entry), NEW e \in Entry, NEW h,
         NEW m, NEW pos, InFile(f, es, "no", h, m, pos)
  PROVE  InFile(f, Append(es, e), IF h # "none" THEN "tag" ELSE "no", h, m, pos)
<1> DEFINE es2 == Append(es, e)
           w2 == IF h # "none" THEN "tag" ELSE "no"
<1>1. es2 \in Seq(Entry) /\ Len(es2) = Len(es) + 1 /\ Len(es) \in Nat
  BY AppendProperties
<1>2. /\ m \in 1 .. Len(es) + 1 /\ Layout(f, TagsOf(es), m, pos)
      /\ h # "none" => m = Len(es) + 1
      /\ pos[m + 1] = Len(f) + 1 /\ ~Complete(f, pos[m + 1])
  BY DEF InFile
<1>3. Layout(f, TagsOf(es2), m, pos)
  <2>1. /\ TagsOf(es) \in Seq(Tag) /\ m <= Len(TagsOf(es)) /\ m \in Nat
        /\ \A i \in 1 .. m : TagsOf(es2)[i] = TagsOf(es)[i]
    BY <1>1, <1>2, TagsOfType, TagsOfAppend
  <2>2. Len(f) <= Len(f)
    BY CellsType
  <2> HIDE DEF es2
  <2> QED BY <1>2, <2>1, <2>2, LayoutGrows
<1> HIDE DEF es2
<1>4. m \in 1 .. Len(es2) + 1 /\ (h # "none" => m = Len(es2))
  BY <1>1, <1>2
<1>5. InFile(f, es2, w2, h, m, pos)
  BY <1>1, <1>2, <1>3, <1>4 DEF InFile
<1> QED BY <1>5 DEF es2

\* A write puts its cells behind the others.
LEMMA WriteCells ==
  ASSUME NEW f \in FileCells, NEW c \in FileCells
  PROVE  /\ f \o c \in FileCells
         /\ Len(f \o c) = Len(f) + Len(c)
         /\ \A i \in 1 .. Len(f) : (f \o c)[i] = f[i]
         /\ \A j \in 1 .. Len(c) : (f \o c)[Len(f) + j] = c[j]
<1> DEFINE S == [part : Nat \X Nat, says : Nat]
           g == f \o c
<1> HIDE DEF S
<1>1. f \in Seq(S) /\ c \in Seq(S) /\ Len(f) \in Nat /\ Len(c) \in Nat
  BY CellsType DEF FileCells, S
<1>2. /\ g \in Seq(S) /\ Len(g) = Len(f) + Len(c)
      /\ \A i \in 1 .. Len(f) + Len(c) :
            g[i] = IF i <= Len(f) THEN f[i] ELSE c[i - Len(f)]
  BY <1>1, ConcatProperties
<1> HIDE DEF g
<1>3. \A i \in 1 .. Len(f) : g[i] = f[i]
  BY <1>1, <1>2
<1>4. ASSUME NEW j \in 1 .. Len(c) PROVE g[Len(f) + j] = c[j]
  <2>1. /\ Len(f) + j \in 1 .. Len(f) + Len(c)
        /\ ~(Len(f) + j <= Len(f)) /\ Len(f) + j - Len(f) = j
    BY <1>1
  <2> QED BY <1>2, <2>1
<1> QED BY <1>2, <1>3, <1>4 DEF g, S, FileCells

\* The first write of WriteTagDirect puts the bytes of the tag behind the rest.
LEMMA InFileWriteTag ==
  ASSUME NEW f \in FileCells, NEW es \in Seq(Entry), es # <<>>, NEW h,
         NEW e \in Entry, e = es[Len(es)], e.size >= 1,
         NEW m, NEW pos, InFile(f, es, "tag", h, m, pos)
  PROVE  InFile(f \o Cells(e, e.size), es, "size", h, m, pos)
<1> DEFINE c == Cells(e, e.size)
           f2 == f \o c
           E == TagsOf(es)
           p == Len(f) + 1
<1>1. /\ m \in 1 .. Len(es) + 1 /\ Layout(f, E, m, pos)
      /\ m = Len(es) /\ pos[m + 1] = p
  BY DEF InFile
<1>2. Len(es) \in Nat /\ e.size \in Nat /\ Len(f) \in Nat
  BY TagsOfType, CellsType DEF Entry
<1>3. /\ c \in FileCells /\ Len(c) = e.size
      /\ \A i \in 1 .. e.size : c[i].part = Bytes(e)[i] /\ c[i].says = e.size
  BY <1>2, CellsOfTag
<1> HIDE DEF c
<1>4. /\ f2 \in FileCells /\ Len(f2) = Len(f) + e.size
      /\ \A i \in 1 .. Len(f) : f2[i] = f[i]
      /\ \A j \in 1 .. e.size : f2[Len(f) + j] = c[j]
  <2>1. /\ f2 \in FileCells /\ Len(f2) = Len(f) + Len(c)
        /\ \A i \in 1 .. Len(f) : f2[i] = f[i]
        /\ \A j \in 1 .. Len(c) : f2[Len(f) + j] = c[j]
    BY <1>3, WriteCells, Zenon
  <2> HIDE DEF f2, E, p
  <2> QED BY <1>3, <2>1
<1> HIDE DEF f2
<1>5. /\ E \in Seq(Tag) /\ Len(E) = Len(es) + 1
      /\ E[m + 1] = Bytes(e) /\ Bytes(e) \in Tag /\ Len(Bytes(e)) = e.size
  <2>1. m \in 1 .. Len(es)
    BY <1>1, <1>2
  <2> QED BY <1>1, <2>1, TagsOfType, BytesType
<1> HIDE DEF E
<1>6. Layout(f2, E, m, pos)
  <2>1. Len(f) <= Len(f2) /\ \A i \in 1 .. Len(f) : f2[i] = f[i]
    BY <1>2, <1>4
  <2>2. m \in Nat /\ m <= Len(E)
    BY <1>1, <1>2, <1>5
  <2> QED BY <1>1, <1>4, <1>5, <2>1, <2>2, LayoutGrows
<1>7. \A j \in 1 .. e.size : f2[p + j - 1] = c[j]
  <2> SUFFICES ASSUME NEW j \in 1 .. e.size PROVE f2[p + j - 1] = c[j]
    OBVIOUS
  <2>1. p + j - 1 = Len(f) + j
    BY <1>2
  <2> HIDE DEF p
  <2> QED BY <1>4, <2>1
<1>8. TagAt(f2, Bytes(e), p)
  <2>1. 1 \in 1 .. e.size /\ p + 1 - 1 = p
    BY <1>2
  <2>2. f2[p] = c[1]
    <3> HIDE DEF p
    <3> QED BY <1>7, <2>1
  <2> HIDE DEF p
  <2> QED BY <1>3, <1>5, <1>7, <2>1, <2>2 DEF TagAt
<1>9. Len(f2) = p + Len(Bytes(e)) - 1 /\ p \in 1 .. Len(f2)
  <2> DEFINE n == e.size
             k == Len(f)
             k2 == Len(f2)
  <2>1. n \in Nat /\ n >= 1 /\ k \in Nat /\ k2 = k + n /\ Len(Bytes(e)) = n
    BY <1>2, <1>4, <1>5, Zenon
  <2> HIDE DEF n, k, k2
  <2>2. k2 = (k + 1) + n - 1 /\ k + 1 \in 1 .. k2
    BY <2>1
  <2> QED BY <2>1, <2>2 DEF n, k, k2
<1>10. ~Complete(f2, p)
  <2> HIDE DEF p
  <2> QED BY <1>4, <1>5, <1>8, <1>9, NoSizeYet
<1>11. p <= Len(f2)
  BY <1>9
<1> HIDE DEF p
<1>12. InFile(f2, es, "size", h, m, pos)
  BY <1>1, <1>2, <1>5, <1>6, <1>8, <1>9, <1>10, <1>11 DEF InFile, E
<1> QED BY <1>12 DEF f2, c

\* The second write puts the size behind it: the tag is complete.
LEMMA InFileWriteSize ==
  ASSUME NEW f \in FileCells, NEW es \in Seq(Entry), es # <<>>, NEW h,
         NEW m, NEW pos, InFile(f, es, "size", h, m, pos)
  PROVE  \E m2, pos2 :
            InFile(Append(f, Cell(TagLength, 0)), es, "no", h, m2, pos2)
<1> DEFINE f2 == Append(f, Cell(TagLength, 0))
           E == TagsOf(es)
           p == pos[m + 1]
<1>1. /\ m = Len(es) /\ Layout(f, E, m, pos)
      /\ TagAt(f, E[m + 1], p) /\ Len(f) = p + Len(E[m + 1]) - 1
      /\ p <= Len(f)
  BY DEF InFile
<1>2. /\ Len(es) \in Nat /\ Len(f) \in Nat
      /\ E \in Seq(Tag) /\ Len(E) = Len(es) + 1
  BY TagsOfType, CellsType
<1> HIDE DEF E
<1>3. m \in Nat /\ E[m + 1] \in Tag /\ Len(E[m + 1]) \in Nat /\ p \in 1 .. Len(f) + 1
  <2>1. m \in Nat /\ m + 1 \in 1 .. Len(E) /\ m + 1 \in 1 .. m + 1
    BY <1>1, <1>2
  <2>2. E[m + 1] \in Tag
    BY <1>2, <2>1, ElementOfSeq
  <2> QED BY <1>1, <2>1, <2>2 DEF Tag, Layout
<1> HIDE DEF p
<1>4. /\ f2 \in FileCells /\ Len(f2) = Len(f) + 1
      /\ \A i \in 1 .. Len(f) : f2[i] = f[i]
  <2>1. Cell(TagLength, 0) \in [part : Nat \X Nat, says : Nat]
    BY DEF Cell, TagLength
  <2> QED BY <2>1, AppendProperties DEF FileCells
<1> HIDE DEF f2
<1>5. Layout(f2, E, m, pos)
  <2>1. Len(f) <= Len(f2) /\ m <= Len(E)
    BY <1>1, <1>2, <1>4
  <2> QED BY <1>1, <1>2, <1>3, <1>4, <2>1, LayoutGrows
<1>6. TagAt(f2, E[m + 1], p)
  <2>1. p \in 1 .. Len(f)
    BY <1>1, <1>2, <1>3
  <2>2. \A j \in 1 .. Len(E[m + 1]) : p + j - 1 \in 1 .. Len(f)
    BY <1>1, <1>2, <1>3
  <2>3. f2[p] = f[p] /\ \A j \in 1 .. Len(E[m + 1]) : f2[p + j - 1] = f[p + j - 1]
    BY <1>4, <2>1, <2>2
  <2> QED BY <1>1, <2>3 DEF TagAt
<1>7. Len(f2) = p + Len(E[m + 1]) /\ m + 1 <= Len(E)
  BY <1>1, <1>2, <1>3, <1>4
<1>8. PICK pos2 : Layout(f2, E, m + 1, pos2) /\ pos2[m + 2] = Len(f2) + 1
  BY <1>2, <1>3, <1>4, <1>5, <1>6, <1>7, LayoutOneMore DEF p
<1>9. ~Complete(f2, Len(f2) + 1)
  BY <1>2, <1>4 DEF Complete
<1>10. m + 1 \in 1 .. Len(es) + 1 /\ m + 1 >= Len(es) /\ m + 1 = Len(es) + 1
       /\ m + 1 + 1 = m + 2
  BY <1>1, <1>2
<1>11. InFile(f2, es, "no", h, m + 1, pos2)
  BY <1>8, <1>9, <1>10 DEF InFile, E
<1> QED BY <1>11 DEF f2

\* A panic inside WriteTagDirect and a close leave the file as it is.
LEMMA InFileStops ==
  ASSUME NEW f, NEW es, NEW w \in {"no", "tag", "size", "panicked"},
         NEW h \in {"open", "closed"},
         NEW m, NEW pos, InFile(f, es, w, h, m, pos)
  PROVE  /\ InFile(f, es, "panicked", h, m, pos)
         /\ InFile(f, es, w, "closed", m, pos)
BY DEF InFile

\* In every such file a reader gets the tags in order and misses at most the
\* last one.
LEMMA InFileReadsBack ==
  ASSUME NEW f \in FileCells, NEW es \in Seq(Entry), NEW w, NEW h,
         NEW m, NEW pos, InFile(f, es, w, h, m, pos)
  PROVE  /\ IsPrefix(TagsIn(f), TagsOf(es))
         /\ h # "none" => Len(TagsIn(f)) >= Len(TagsOf(es)) - 1
<1> DEFINE E == TagsOf(es)
           T == [i \in 1 .. m |-> E[i]]
<1>1. E \in Seq(Tag) /\ Len(E) = Len(es) + 1 /\ Len(es) \in Nat
  BY TagsOfType
<1>2. /\ m \in 1 .. Len(es) + 1 /\ Layout(f, E, m, pos)
      /\ ~Complete(f, pos[m + 1])
      /\ h # "none" => m >= Len(es)
  BY DEF InFile
<1> HIDE DEF E
<1>3. m \in Nat /\ m <= Len(E)
  BY <1>1, <1>2
<1>4. TagsIn(f) = T
  BY <1>1, <1>2, <1>3, ReadsLayout
<1>5. \A i \in 1 .. m : E[i] \in Tag
  BY <1>1, <1>3, ElementOfSeq
<1>6. T \in Seq(Tag) /\ Len(T) = m /\ \A i \in 1 .. m : T[i] = E[i]
  BY <1>3, <1>5
<1> HIDE DEF T
<1>7. SubSeq(T, 1, m) = SubSeq(E, 1, m)
  <2>1. /\ SubSeq(T, 1, m) \in Seq(Tag) /\ SubSeq(E, 1, m) \in Seq(Tag)
        /\ Len(SubSeq(T, 1, m)) = m /\ Len(SubSeq(E, 1, m)) = m
        /\ \A i \in 1 .. m : SubSeq(T, 1, m)[i] = T[i] /\ SubSeq(E, 1, m)[i] = E[i]
    BY <1>1, <1>2, <1>3, <1>5, <1>6
  <2> QED BY <1>6, <2>1, SeqEqual
<1>8. IsPrefix(T, E)
  BY <1>3, <1>6, <1>7 DEF IsPrefix
<1>9. h # "none" => m >= Len(E) - 1
  BY <1>1, <1>2
<1> QED BY <1>4, <1>6, <1>8, <1>9 DEF E

-----------------------------------------------------------------------------
(* The invariant of the record file. *)

Handles == {"none", "open", "closed"}
Places == {"no", "tag", "size", "panicked"}

\* A file is written only when the stream is recorded and a tag was handed on;
\* the buffer of a tag is never empty.
FileTypeOK ==
    /\ handle \in Handles
    /\ writing \in Places
    /\ file \in FileCells
    /\ handle = "none" => writing = "no"
    /\ writing \in {"tag", "size"} => emitted # <<>>
    /\ \A i \in DOMAIN emitted : emitted[i].size >= 1

FileInv ==
    NoLoneFragment(emitted) =>
        \E m, pos : InFile(file, emitted, writing, handle, m, pos)

\* The record under the file behaves as FlvRecord says: whatever was proved of
\* its specification holds here.
THEOREM FileRefinesRecord == FileSpec => Spec
<1>1. FileInit => Init
  BY DEF FileInit
<1>2. [FileNext]_<<vars, fileVars>> => [Next]_vars
  BY DEF FileNext, ExtractFlv, WriteTag, WriteSize, CloseFile
<1> QED BY <1>1, <1>2, PTL DEF FileSpec, Spec

\* A call of extractFlv hands on at most one tag, in a buffer that is not empty.
LEMMA HandedOn ==
  ASSUME TypeOK, Next
  PROVE  \/ emitted' = emitted
         \/ \E e \in Entry : e.size >= 1 /\ emitted' = Append(emitted, e)
<1>1. flvTag \in Seq(Piece) /\ tagSize \in Nat /\ Len(flvTag) \in Nat
  BY DEF TypeOK, Piece
<1>2. Packet \in Piece
  BY AdvanceType DEF Next
<1>3. CASE LastFragment
  <2> DEFINE e == [parts |-> Append(flvTag, Packet), size |-> tagSize]
  <2>1. emitted' = Append(emitted, e) /\ tagSize >= 1
    BY <1>1, <1>3 DEF LastFragment, Emit, Fits
  <2>2. Append(flvTag, Packet) \in Seq(Piece)
    BY <1>1, <1>2, AppendProperties
  <2>3. e \in Entry /\ e.size = tagSize
    BY <1>1, <2>2 DEF Entry
  <2> HIDE DEF e
  <2> QED BY <2>1, <2>3
<1>4. CASE WholeTag
  <2> DEFINE e == [parts |-> <<Packet>>, size |-> 1]
  <2>1. emitted' = Append(emitted, e)
    BY <1>4 DEF WholeTag, Emit
  <2>2. <<Packet>> \in Seq(Piece)
    <3> DEFINE x == Packet
    <3> HIDE DEF x
    <3>1. x \in Piece
      BY <1>2 DEF x
    <3>2. <<x>> \in Seq(Piece)
      BY <3>1
    <3> QED BY <3>2 DEF x
  <2>3. e \in Entry /\ e.size = 1
    BY <2>2 DEF Entry
  <2>4. e.size >= 1
    BY <2>3
  <2> HIDE DEF e
  <2> QED BY <2>1, <2>3, <2>4
<1>5. CASE ~LastFragment /\ ~WholeTag
  BY <1>5 DEF Next, Deliver, Lost, Skip, FirstFragment, FirstFragmentPanics,
              MiddleFragment, Overflow
<1> QED BY <1>3, <1>4, <1>5

\* What is handed on stays so.
LEMMA NoLoneBefore ==
  ASSUME NEW es \in Seq(Entry), NEW e \in Entry, NoLoneFragment(Append(es, e))
  PROVE  NoLoneFragment(es) /\ ~LoneFragment(e)
<1> DEFINE es2 == Append(es, e)
<1>1. /\ es2 \in Seq(Entry) /\ Len(es2) = Len(es) + 1 /\ Len(es) \in Nat
      /\ \A i \in 1 .. Len(es) : es2[i] = es[i]
      /\ es2[Len(es) + 1] = e
  BY AppendProperties
<1> HIDE DEF es2
<1>2. DOMAIN es2 = 1 .. Len(es) + 1 /\ DOMAIN es = 1 .. Len(es)
  BY <1>1, LenProperties
<1>3. \A i \in DOMAIN es2 : ~LoneFragment(es2[i])
  BY DEF NoLoneFragment, es2
<1>4. \A i \in 1 .. Len(es) : i \in DOMAIN es2
  BY <1>1, <1>2
<1>5. Len(es) + 1 \in DOMAIN es2
  BY <1>1, <1>2
<1>6. \A i \in DOMAIN es : ~LoneFragment(es[i])
  BY <1>1, <1>2, <1>3, <1>4
<1> QED BY <1>1, <1>3, <1>5, <1>6 DEF NoLoneFragment

\* The file that CreateFile makes.
LEMMA HeaderInFile ==
  /\ Header \in FileCells
  /\ \A h : \E m, pos : InFile(Header, <<>>, "no", h, m, pos)
<1> DEFINE S == [part : Nat \X Nat, says : Nat]
           a == Cell(Script, 1)
           b == Cell(TagLength, 0)
           pos == [i \in 1 .. 2 |-> IF i = 1 THEN 1 ELSE 3]
           t == <<Script>>
<1>1. a \in S /\ b \in S /\ a.says = 1 /\ a.part = Script
  BY DEF Cell, Script, TagLength
<1>2. t \in Tag /\ Len(t) = 1 /\ t[1] = Script
  BY DEF Tag, Script
<1> HIDE DEF S, a, b, t
<1>3. /\ <<a, b>> \in Seq(S) /\ Len(<<a, b>>) = 2 /\ <<a, b>>[1] = a
  BY <1>1
<1>4. Header = <<a, b>>
  BY DEF Header, a, b
<1>5. Header \in FileCells /\ Len(Header) = 2 /\ Header[1] = a
  BY <1>3, <1>4 DEF FileCells, S
<1>6. <<>> \in Seq(Entry) /\ Len(<<>>) = 0 /\ TagsOf(<<>>)[1] = t
  BY EmptySeq, TagsOfType DEF t
<1>7. TagAt(Header, t, 1)
  <2>1. \A j \in 1 .. 1 : 1 + j - 1 = 1 /\ j = 1
    OBVIOUS
  <2> QED BY <1>1, <1>2, <1>5, <2>1 DEF TagAt
<1>8. pos[1] = 1 /\ pos[2] = 3 /\ 1 + 1 = 2
  OBVIOUS
<1> HIDE DEF pos
<1>9. Layout(Header, TagsOf(<<>>), 1, pos)
  <2>1. \A i \in 1 .. 1 + 1 : pos[i] \in 1 .. Len(Header) + 1
    <3>1. \A i \in 1 .. 1 + 1 : i = 1 \/ i = 2
      OBVIOUS
    <3> QED BY <1>5, <1>8, <3>1
  <2>2. \A i \in 1 .. 1 : i = 1
    OBVIOUS
  <2>3. pos[1 + 1] = pos[1] + Len(t) + 1
    BY <1>2, <1>8
  <2> QED BY <1>6, <1>7, <1>8, <2>1, <2>2, <2>3 DEF Layout
<1>10. ~Complete(Header, pos[1 + 1]) /\ pos[1 + 1] = Len(Header) + 1
  BY <1>5, <1>8 DEF Complete
<1>11. \A h : InFile(Header, <<>>, "no", h, 1, pos)
  <2>1. 1 \in 1 .. Len(<<>>) + 1 /\ 1 >= Len(<<>>) /\ 1 = Len(<<>>) + 1
    BY <1>6
  <2> QED BY <1>9, <1>10, <2>1 DEF InFile
<1> QED BY <1>5, <1>11

\* The tag at hand in WriteTagDirect.
LEMMA TagAtHand ==
  ASSUME TypeOK, FileTypeOK, emitted # <<>>
  PROVE  /\ emitted \in Seq(Entry)
         /\ Last(emitted) \in Entry
         /\ Last(emitted) = emitted[Len(emitted)]
         /\ Last(emitted).size >= 1
         /\ Len(emitted) \in DOMAIN emitted
<1>1. emitted \in Seq(Entry)
  BY DEF TypeOK, Entry, Piece
<1>2. Len(emitted) \in 1 .. Len(emitted) /\ DOMAIN emitted = 1 .. Len(emitted)
  BY <1>1, EmptySeq, LenProperties
<1>3. emitted[Len(emitted)] \in Entry
  BY <1>1, <1>2, ElementOfSeq
<1> QED BY <1>1, <1>2, <1>3 DEF Last, FileTypeOK

\* extractFlv keeps the invariant.
LEMMA ExtractFlvFile ==
  ASSUME TypeOK, FileTypeOK, FileInv, ExtractFlv
  PROVE  FileTypeOK' /\ FileInv'
<1>1. /\ writing = "no" /\ handle' = handle /\ file' = file
      /\ writing' = IF emitted' # emitted /\ handle # "none" THEN "tag" ELSE "no"
  BY DEF ExtractFlv
<1>2. emitted \in Seq(Entry)
  BY DEF TypeOK, Entry, Piece
<1>3. CASE emitted' = emitted
  <2>1. writing' = writing
    BY <1>1, <1>3
  <2> QED BY <1>1, <1>3, <2>1 DEF FileTypeOK, FileInv
<1>4. ASSUME NEW e \in Entry, e.size >= 1, emitted' = Append(emitted, e)
      PROVE  FileTypeOK' /\ FileInv'
  <2> DEFINE w2 == IF handle # "none" THEN "tag" ELSE "no"
  <2>1. /\ emitted' \in Seq(Entry) /\ Len(emitted') = Len(emitted) + 1
        /\ Len(emitted) \in Nat
        /\ \A i \in 1 .. Len(emitted) : emitted'[i] = emitted[i]
        /\ emitted'[Len(emitted) + 1] = e
        /\ emitted' # <<>>
    BY <1>2, <1>4, AppendProperties
  <2>2. emitted' # emitted
    BY <2>1
  <2>3. writing' = w2
    BY <1>1, <2>2
  <2>4. \A i \in DOMAIN emitted' : emitted'[i].size >= 1
    <3>1. DOMAIN emitted' = 1 .. Len(emitted) + 1 /\ DOMAIN emitted = 1 .. Len(emitted)
      BY <1>2, <2>1, LenProperties
    <3>2. \A i \in 1 .. Len(emitted) + 1 :
             i \in 1 .. Len(emitted) \/ i = Len(emitted) + 1
      BY <2>1
    <3>3. \A i \in 1 .. Len(emitted) : emitted[i].size >= 1
      BY <3>1 DEF FileTypeOK
    <3> QED BY <1>4, <2>1, <3>1, <3>2, <3>3
  <2>5. FileTypeOK'
    <3>1. /\ handle' \in Handles /\ file' \in FileCells /\ writing' \in Places
          /\ handle' = "none" => writing' = "no"
      BY <1>1, <2>3 DEF FileTypeOK, Places
    <3> QED BY <2>1, <2>4, <3>1 DEF FileTypeOK
  <2>6. ASSUME NoLoneFragment(emitted')
        PROVE  \E m, pos : InFile(file', emitted', writing', handle', m, pos)
    <3>1. NoLoneFragment(emitted)
      BY <1>2, <1>4, <2>6, NoLoneBefore
    <3>2. PICK m, pos : InFile(file, emitted, "no", handle, m, pos)
      BY <1>1, <3>1 DEF FileInv
    <3>3. InFile(file, Append(emitted, e), w2, handle, m, pos)
      BY <1>2, <3>2, InFileEmit DEF FileTypeOK
    <3> QED BY <1>1, <1>4, <2>3, <3>3
  <2>7. FileInv'
    BY <2>6 DEF FileInv
  <2> QED BY <2>5, <2>7
<1> QED BY <1>3, <1>4, HandedOn DEF ExtractFlv

\* The first write of WriteTagDirect keeps the invariant.
LEMMA WriteTagFile ==
  ASSUME TypeOK, FileTypeOK, FileInv, WriteTag
  PROVE  FileTypeOK' /\ FileInv'
<1>1. /\ writing = "tag" /\ handle' = handle /\ emitted' = emitted
      /\ emitted # <<>> /\ handle \in {"open", "closed"} /\ file \in FileCells
  BY DEF WriteTag, FileTypeOK, Handles, vars
<1>2. /\ emitted \in Seq(Entry) /\ Last(emitted) \in Entry
      /\ Last(emitted) = emitted[Len(emitted)] /\ Last(emitted).size >= 1
      /\ Len(emitted) \in DOMAIN emitted
  BY <1>1, TagAtHand
<1> DEFINE e == Last(emitted)
<1>3. PICK says \in IF LoneFragment(e) THEN 0 .. MaxDeclared ELSE {e.size} :
         IF handle = "open"
         THEN file' = file \o Cells(e, says) /\ writing' = "size"
         ELSE UNCHANGED file /\ writing' = "panicked"
  BY DEF WriteTag
<1>4. says \in Nat
  BY <1>2, <1>3, StreamAssumption DEF Entry
<1> HIDE DEF e
<1>5. file' \in FileCells /\ writing' \in {"size", "panicked"}
  <2>1. Cells(e, says) \in FileCells
    BY <1>2, <1>4, CellsOfTag DEF e
  <2>2. file \o Cells(e, says) \in FileCells
    BY <1>1, <2>1, WriteCells, Zenon
  <2> QED BY <1>1, <1>3, <2>2
<1>6. FileTypeOK'
  BY <1>1, <1>5 DEF FileTypeOK, Handles, Places
<1>7. ASSUME NoLoneFragment(emitted')
      PROVE  \E m, pos : InFile(file', emitted', writing', handle', m, pos)
  <2>1. PICK m, pos : InFile(file, emitted, "tag", handle, m, pos)
    BY <1>1, <1>7 DEF FileInv
  <2>2. CASE handle = "open"
    <3>1. ~LoneFragment(e)
      BY <1>1, <1>2, <1>7 DEF NoLoneFragment, e
    <3>2. says = e.size
      BY <1>3, <3>1
    <3>3. file' = file \o Cells(e, e.size) /\ writing' = "size"
      BY <1>3, <2>2, <3>2
    <3>4. InFile(file \o Cells(e, e.size), emitted, "size", handle, m, pos)
      BY <1>1, <1>2, <2>1, InFileWriteTag DEF e
    <3> QED BY <1>1, <3>3, <3>4
  <2>3. CASE handle # "open"
    <3>1. file' = file /\ writing' = "panicked"
      BY <1>3, <2>3
    <3>2. InFile(file, emitted, "panicked", handle, m, pos)
      BY <1>1, <2>1, InFileStops
    <3> QED BY <1>1, <3>1, <3>2
  <2> QED BY <2>2, <2>3
<1>8. FileInv'
  BY <1>7 DEF FileInv
<1> QED BY <1>6, <1>8

\* So does the second write.
LEMMA WriteSizeFile ==
  ASSUME TypeOK, FileTypeOK, FileInv, WriteSize
  PROVE  FileTypeOK' /\ FileInv'
<1>1. /\ writing = "size" /\ handle' = handle /\ emitted' = emitted
      /\ emitted # <<>> /\ handle \in {"open", "closed"} /\ file \in FileCells
  BY DEF WriteSize, FileTypeOK, Handles, vars
<1>2. IF handle = "open"
      THEN file' = Append(file, Cell(TagLength, 0)) /\ writing' = "no"
      ELSE UNCHANGED file /\ writing' = "panicked"
  BY DEF WriteSize
<1>3. emitted \in Seq(Entry)
  BY <1>1, TagAtHand
<1>4. file' \in FileCells /\ writing' \in {"no", "panicked"}
  <2>1. Cell(TagLength, 0) \in [part : Nat \X Nat, says : Nat]
    BY DEF Cell, TagLength
  <2>2. Append(file, Cell(TagLength, 0)) \in FileCells
    BY <1>1, <2>1, AppendProperties DEF FileCells
  <2> QED BY <1>1, <1>2, <2>2
<1>5. FileTypeOK'
  BY <1>1, <1>4 DEF FileTypeOK, Handles, Places
<1>6. ASSUME NoLoneFragment(emitted')
      PROVE  \E m, pos : InFile(file', emitted', writing', handle', m, pos)
  <2>1. PICK m, pos : InFile(file, emitted, "size", handle, m, pos)
    BY <1>1, <1>6 DEF FileInv
  <2>2. CASE handle = "open"
    <3>1. PICK m2, pos2 : InFile(Append(file, Cell(TagLength, 0)), emitted, "no",
                                 handle, m2, pos2)
      BY <1>1, <1>3, <2>1, InFileWriteSize
    <3> QED BY <1>1, <1>2, <2>2, <3>1
  <2>3. CASE handle # "open"
    <3>1. InFile(file, emitted, "panicked", handle, m, pos)
      BY <1>1, <2>1, InFileStops
    <3> QED BY <1>1, <1>2, <2>3, <3>1
  <2> QED BY <2>2, <2>3
<1>7. FileInv'
  BY <1>6 DEF FileInv
<1> QED BY <1>5, <1>7

\* A close leaves what is in the file.
LEMMA CloseFileFile ==
  ASSUME FileTypeOK, FileInv, CloseFile
  PROVE  FileTypeOK' /\ FileInv'
<1>1. /\ handle = "open" /\ handle' = "closed" /\ emitted' = emitted
      /\ file' = file /\ writing' = writing
  BY DEF CloseFile, vars
<1>2. FileTypeOK'
  BY <1>1 DEF FileTypeOK, Handles
<1>3. ASSUME NoLoneFragment(emitted)
      PROVE  \E m, pos : InFile(file, emitted, writing, "closed", m, pos)
  <2>1. PICK m, pos : InFile(file, emitted, writing, "open", m, pos)
    BY <1>1, <1>3 DEF FileInv
  <2>2. InFile(file, emitted, writing, "closed", m, pos)
    BY <2>1, InFileStops DEF FileTypeOK, Places
  <2> QED BY <2>2
<1>4. FileInv'
  BY <1>1, <1>3 DEF FileInv
<1> QED BY <1>2, <1>4

\* The invariant holds in every state.
LEMMA FileCorrect == FileSpec => [](FileTypeOK /\ FileInv)
<1>1. FileInit => FileTypeOK /\ FileInv
  <2> SUFFICES ASSUME FileInit PROVE FileTypeOK /\ FileInv
    OBVIOUS
  <2>1. /\ emitted = <<>> /\ handle \in {"none", "open"} /\ file = Header
        /\ writing = "no" /\ DOMAIN emitted = {}
    BY DEF FileInit, Init
  <2>2. FileTypeOK
    BY <2>1, HeaderInFile DEF FileTypeOK, Handles, Places
  <2>3. FileInv
    BY <2>1, HeaderInFile DEF FileInv
  <2> QED BY <2>2, <2>3
<1>2. /\ TypeOK /\ FileTypeOK /\ FileInv
      /\ [FileNext]_<<vars, fileVars>>
      => FileTypeOK' /\ FileInv'
  <2> SUFFICES ASSUME TypeOK, FileTypeOK, FileInv,
                      [FileNext]_<<vars, fileVars>>
               PROVE  FileTypeOK' /\ FileInv'
    OBVIOUS
  <2>1. CASE UNCHANGED <<vars, fileVars>>
    <3>1. /\ emitted' = emitted /\ handle' = handle /\ file' = file
          /\ writing' = writing
      BY <2>1 DEF vars, fileVars
    <3> QED BY <3>1 DEF FileTypeOK, FileInv
  <2> QED BY <2>1, ExtractFlvFile, WriteTagFile, WriteSizeFile, CloseFileFile
          DEF FileNext
<1> QED BY <1>1, <1>2, FileRefinesRecord, TypeCorrect, PTL DEF FileSpec

\* For every stream, every loss and every moment at which recording stops, the
\* reader of the record file gets the tags that were handed on, in order and
\* unchanged, and misses at most the one that was being written, unless a lone
\* fragment was handed on at the join.
THEOREM RecordFileReadsBack == FileSpec => []FileReadsBack
<1>1. TypeOK /\ FileTypeOK /\ FileInv => FileReadsBack
  <2> SUFFICES ASSUME TypeOK, FileTypeOK, FileInv,
                      \A i \in DOMAIN emitted : ~LoneFragment(emitted[i])
               PROVE  /\ IsPrefix(TagsIn(file), Expected)
                      /\ handle # "none" =>
                            Len(TagsIn(file)) >= Len(Expected) - 1
    BY DEF FileReadsBack
  <2>1. PICK m, pos : InFile(file, emitted, writing, handle, m, pos)
    BY DEF FileInv, NoLoneFragment
  <2>2. file \in FileCells /\ emitted \in Seq(Entry)
    BY DEF FileTypeOK, TypeOK, Entry, Piece
  <2>3. Expected = TagsOf(emitted)
    BY DEF Expected, TagsOf
  <2> QED BY <2>1, <2>2, <2>3, InFileReadsBack
<1> QED BY <1>1, FileCorrect, FileRefinesRecord, TypeCorrect, PTL

\* The recorded stream keeps what extractFlv guarantees of the tags it hands on.
THEOREM RecordedTagsAreSound ==
  FileSpec => [](WholeTags /\ TagsInOrder /\ ExactlyInSyncEmitted)
BY FileRefinesRecord, EmittedTagsAreWhole, EmittedTagsInOrder,
   ExactlyTheTagsInSync, PTL

=============================================================================
