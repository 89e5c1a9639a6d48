--------------------------- MODULE Transfer_proofs ---------------------------
(***************************************************************************)
(* Proofs about Transfer: that IInv (TransferInvariant) holds at each step *)
(* of each call, for data of any size, and what follows from it.           *)
(* One lemma for each action (...Step) or group of actions; Inductive puts *)
(* them together.                                                          *)
(***************************************************************************)
EXTENDS TransferInvariant, TLAPS

\* Sequences with the same elements are the same.
LEMMA SeqsEqual ==
  ASSUME NEW S, NEW a \in Seq(S), NEW b \in Seq(S), Len(a) = Len(b),
         \A k \in 1..Len(a) : a[k] = b[k]
  PROVE  a = b
OBVIOUS

\* A place inside a struct is the way to the struct and one step more.
LEMMA ElementFacts ==
  ASSUME NEW p \in Seq(Step), NEW T \in STRING, NEW n \in STRING, NEW i \in Int
  PROVE  /\ Element(p, T, n, i) \in Seq(Step)
         /\ Len(Element(p, T, n, i)) = Len(p) + 1
         /\ Element(p, T, n, i)[Len(p) + 1] = [struct |-> T, member |-> n, index |-> i]
         /\ \A k \in 1..Len(p) : Element(p, T, n, i)[k] = p[k]
<1> DEFINE s == [struct |-> T, member |-> n, index |-> i]
<1>1. s \in Step
  BY DEF Step
<1> HIDE DEF s
<1>2. /\ Append(p, s) \in Seq(Step) /\ Len(Append(p, s)) = Len(p) + 1
      /\ Append(p, s)[Len(p) + 1] = s
      /\ \A k \in 1..Len(p) : Append(p, s)[k] = p[k]
  BY <1>1
<1> QED BY <1>2 DEF Element, s

\* q is p and one step more.
Longer(q, p, T, n, i) ==
  /\ q \in Seq(Step) /\ Len(q) = Len(p) + 1
  /\ q[Len(p) + 1] = [struct |-> T, member |-> n, index |-> i]
  /\ \A k \in 1..Len(p) : q[k] = p[k]

\* ElementFacts, for places that are bound.
LEMMA ElementIsLonger ==
  \A p \in Seq(Step) : \A T, n \in STRING : \A i \in Int :
    Longer(Element(p, T, n, i), p, T, n, i)
<1> TAKE p \in Seq(Step)
<1> TAKE T, n \in STRING
<1> TAKE i \in Int
<1>1. /\ Element(p, T, n, i) \in Seq(Step)
      /\ Len(Element(p, T, n, i)) = Len(p) + 1
      /\ Element(p, T, n, i)[Len(p) + 1] = [struct |-> T, member |-> n, index |-> i]
      /\ \A k \in 1..Len(p) : Element(p, T, n, i)[k] = p[k]
  BY ElementFacts
<1> QED BY <1>1, Zenon DEF Longer

\* The first steps of a place.
LEMMA SubSeqFacts ==
  ASSUME NEW c \in Seq(Step), NEW k \in 1..(Len(c) + 1)
  PROVE  /\ SubSeq(c, 1, k - 1) \in Seq(Step)
         /\ Len(SubSeq(c, 1, k - 1)) = k - 1
         /\ \A j \in 1..(k - 1) : SubSeq(c, 1, k - 1)[j] = c[j]
OBVIOUS

\* The pointer and the count that a place goes through at step k are where it is
\* at that step, and have indices of their own.
LEMMA HangsOn ==
  ASSUME NEW c \in Seq(Step), NEW k \in 1..Len(c)
  PROVE  /\ PointerOf(c, k) \in Seq(Step) /\ CountOf(c, k) \in Seq(Step)
         /\ Len(PointerOf(c, k)) = k /\ Len(CountOf(c, k)) = k
         /\ \A j \in 1..(k - 1) : PointerOf(c, k)[j] = c[j] /\ CountOf(c, k)[j] = c[j]
         /\ PointerOf(c, k)[k] = [struct |-> c[k].struct, member |-> c[k].member, index |-> 0]
         /\ CountOf(c, k)[k] = [struct |-> c[k].struct, member |-> c[k].member, index |-> -1]
<1>0. c[k] \in Step
  OBVIOUS
<1>1. c[k].struct \in STRING /\ c[k].member \in STRING
  BY <1>0 DEF Step
<1> DEFINE p == SubSeq(c, 1, k - 1)
<1>2. p \in Seq(Step) /\ Len(p) = k - 1 /\ \A j \in 1..(k - 1) : p[j] = c[j]
  BY SubSeqFacts
<1> HIDE DEF p
<1> DEFINE T == c[k].struct n == c[k].member
<1>3. T \in STRING /\ n \in STRING
  BY <1>1
<1> HIDE DEF T, n
<1>4. /\ Element(p, T, n, 0) \in Seq(Step) /\ Element(p, T, n, -1) \in Seq(Step)
      /\ Len(Element(p, T, n, 0)) = Len(p) + 1 /\ Len(Element(p, T, n, -1)) = Len(p) + 1
      /\ Element(p, T, n, 0)[Len(p) + 1] = [struct |-> T, member |-> n, index |-> 0]
      /\ Element(p, T, n, -1)[Len(p) + 1] = [struct |-> T, member |-> n, index |-> -1]
      /\ \A j \in 1..Len(p) : Element(p, T, n, 0)[j] = p[j] /\ Element(p, T, n, -1)[j] = p[j]
  <2>1. \A i \in Int :
          /\ Element(p, T, n, i) \in Seq(Step)
          /\ Len(Element(p, T, n, i)) = Len(p) + 1
          /\ Element(p, T, n, i)[Len(p) + 1] = [struct |-> T, member |-> n, index |-> i]
          /\ \A j \in 1..Len(p) : Element(p, T, n, i)[j] = p[j]
    <3>1. \A i \in Int : Longer(Element(p, T, n, i), p, T, n, i)
      BY <1>2, <1>3, ElementIsLonger, Zenon
    <3> QED BY <3>1, Zenon DEF Longer
  <2>2. 0 \in Int /\ -1 \in Int
    OBVIOUS
  <2> QED BY <2>1, <2>2, Zenon
<1>5. PointerOf(c, k) = Element(p, T, n, 0) /\ CountOf(c, k) = Element(p, T, n, -1)
  BY DEF PointerOf, CountOf, Member, Count, p, T, n
<1> QED BY <1>2, <1>4, <1>5 DEF T, n

\* What is below a place begins as the place does.
LEMMA PrefixOf ==
  ASSUME NEW p \in Seq(Step), NEW c \in Seq(Step)
  PROVE  IsPrefix(p, c) <=> Len(p) <= Len(c) /\ \A k \in 1..Len(p) : p[k] = c[k]
<1>1. ASSUME IsPrefix(p, c)
      PROVE  Len(p) <= Len(c) /\ \A k \in 1..Len(p) : p[k] = c[k]
  BY <1>1 DEF IsPrefix
<1>2. ASSUME Len(p) <= Len(c), \A k \in 1..Len(p) : p[k] = c[k]
      PROVE  IsPrefix(p, c)
  <2>1. SubSeq(p, 1, Len(p)) = SubSeq(c, 1, Len(p))
    BY <1>2
  <2> QED BY <2>1, <1>2 DEF IsPrefix
<1> QED BY <1>1, <1>2

\* A step of the call does not change what the entry point is.
LEMMA EntryStays ==
  ASSUME op' = op, shape' = shape
  PROVE  E' = E /\ (\A T : Handled(T)' = Handled(T))
BY DEF E, Handled, AllRead, Readable

\* A type that a member may have, for data that there can be.
LEMMA TypeOfInner ==
  ASSUME NEW T, NEW n, IsShape(shape), Kind(T, n) \in {"struct", "array"}
  PROVE  TypeOf(MemberOf(T, n), shape) \in Inner(T, n)
<1>1. shape.kind \in Kinds /\ shape.point \in Points
  BY DEF IsShape
<1> QED BY <1>1, Zenon DEF TypeOf, Inner, TypesOf

\* Places that agree in n steps have the same first n steps.
LEMMA SubSeqsEqual ==
  ASSUME NEW p \in Seq(Step), NEW q \in Seq(Step), NEW n \in Nat,
         n <= Len(p), n <= Len(q), \A k \in 1..n : p[k] = q[k]
  PROVE  SubSeq(p, 1, n) = SubSeq(q, 1, n)
OBVIOUS

\* The first steps of a place below p are p.
LEMMA WholeSubSeq ==
  ASSUME NEW p \in Seq(Step), NEW q \in Seq(Step), Len(p) <= Len(q),
         \A k \in 1..Len(p) : q[k] = p[k]
  PROVE  SubSeq(q, 1, Len(p)) = p
OBVIOUS

\* How many elements an array has, has memory for, and gets filled.
LEMMA ItemsAreNumbers ==
  ASSUME NEW p \in Seq(Step), NEW T, IsShape(shape)
  PROVE  /\ Items(p, shape) \in Nat
         /\ Allocated(T, Items(p, shape)) \in Nat /\ Filled(T, Items(p, shape)) \in Nat
<1>1. shape.items \in Seq(Nat)
  BY DEF IsShape
<1>2. Items(p, shape) \in Nat
  BY <1>1 DEF Items
<1> QED BY <1>2 DEF Allocated, Filled

\* A step further.
LEMMA PathGrows ==
  ASSUME NEW p, NEW T \in STRING, NEW n \in STRING, NEW i \in Int, NEW U,
         Path(p, T), IsShape(shape), Leads([struct |-> T, member |-> n, index |-> i], U)
  PROVE  /\ Path(Element(p, T, n, i), U)
         /\ InBounds(p) /\ i <= Allocated(T, Items(p, shape)) =>
              InBounds(Element(p, T, n, i))
<1> DEFINE q == Element(p, T, n, i)
<1>1. p \in Seq(Step)
  BY DEF Path
<1>2. /\ q \in Seq(Step) /\ Len(q) = Len(p) + 1
      /\ q[Len(p) + 1] = [struct |-> T, member |-> n, index |-> i]
      /\ \A k \in 1..Len(p) : q[k] = p[k]
  BY <1>1, ElementFacts
<1> HIDE DEF q
<1>3. Path(q, U)
  <2>1. q /= <<>>
    BY <1>1, <1>2
  <2>2. q[1].struct = E.root
    <3>1. CASE p = <<>>
      BY <3>1, <1>2 DEF Path
    <3>2. CASE p /= <<>>
      <4>1. 1 \in 1..Len(p)
        BY <3>2, <1>1
      <4> QED BY <4>1, <3>2, <1>2 DEF Path
    <3> QED BY <3>1, <3>2
  <2>3. ASSUME NEW k \in 1..Len(q)
        PROVE  Leads(q[k], IF k = Len(q) THEN U ELSE q[k + 1].struct)
    <3>1. CASE k = Len(p) + 1
      BY <3>1, <1>2
    <3>2. CASE k = Len(p)
      BY <3>2, <1>1, <1>2 DEF Path
    <3>3. CASE k < Len(p)
      <4>1. k \in 1..Len(p) /\ k + 1 \in 1..Len(p) /\ k /= Len(p) /\ k /= Len(q)
        BY <3>3, <1>1, <1>2
      <4>2. q[k] = p[k] /\ q[k + 1] = p[k + 1]
        BY <4>1, <1>2
      <4> QED BY <4>1, <4>2 DEF Path
    <3> QED BY <3>1, <3>2, <3>3, <1>1, <1>2
  <2> QED BY <2>1, <2>2, <2>3, <1>2 DEF Path
<1>4. ASSUME InBounds(p), i <= Allocated(T, Items(p, shape))
      PROVE  InBounds(q)
  <2> SUFFICES ASSUME NEW k \in 1..Len(q)
               PROVE  q[k].index <= Allocated(q[k].struct, Items(SubSeq(q, 1, k - 1), shape))
    BY DEF InBounds
  <2>1. CASE k = Len(p) + 1
    <3>1. SubSeq(q, 1, k - 1) = p
      BY <2>1, <1>1, <1>2, WholeSubSeq
    <3>2. q[k].index = i /\ q[k].struct = T
      BY <2>1, <1>2
    <3> QED BY <3>1, <3>2, <1>4, Zenon
  <2>2. CASE k <= Len(p)
    <3>1. SubSeq(q, 1, k - 1) = SubSeq(p, 1, k - 1)
      BY <2>2, <1>1, <1>2, SubSeqsEqual
    <3>2. k \in 1..Len(p) /\ q[k] = p[k]
      BY <2>2, <1>1, <1>2
    <3> QED BY <3>1, <3>2, <1>4 DEF InBounds
  <2> QED BY <2>1, <2>2, <1>1, <1>2
<1> QED BY <1>3, <1>4 DEF q

\* What a struct at p has of its own.
LEMMA CellGrows ==
  ASSUME NEW p, NEW T \in STRING, NEW n \in STRING, NEW i \in {0, -1},
         Path(p, T), InBounds(p), IsShape(shape),
         IsMember([struct |-> T, member |-> n, index |-> i]),
         IF i = 0 THEN Kind(T, n) /= "struct" ELSE Kind(T, n) = "array"
  PROVE  Cell(Element(p, T, n, i)) /\ InBounds(Element(p, T, n, i))
<1> DEFINE q == Element(p, T, n, i)
<1>1. p \in Seq(Step) /\ i \in Int
  BY DEF Path
<1>2. /\ q \in Seq(Step) /\ Len(q) = Len(p) + 1
      /\ q[Len(p) + 1] = [struct |-> T, member |-> n, index |-> i]
      /\ \A k \in 1..Len(p) : q[k] = p[k]
  <2>1. Longer(q, p, T, n, i)
    BY <1>1, ElementIsLonger, Zenon
  <2> QED BY <2>1, Zenon DEF Longer
<1> HIDE DEF q
<1>3. Cell(q)
  <2>1. q /= <<>>
    BY <1>1, <1>2
  <2>2. q[1].struct = E.root
    <3>1. CASE p = <<>>
      BY <3>1, <1>2 DEF Path
    <3>2. CASE p /= <<>>
      <4>1. 1 \in 1..Len(p)
        BY <3>2, <1>1
      <4> QED BY <4>1, <3>2, <1>2 DEF Path
    <3> QED BY <3>1, <3>2
  <2>3. ASSUME NEW k \in 1..(Len(q) - 1)
        PROVE  Leads(q[k], q[k + 1].struct)
    <3>2. CASE k = Len(p)
      BY <3>2, <1>1, <1>2 DEF Path
    <3>3. CASE k < Len(p)
      <4>1. k \in 1..Len(p) /\ k + 1 \in 1..Len(p) /\ k /= Len(p) /\ k /= Len(q)
        BY <3>3, <1>1, <1>2
      <4>2. q[k] = p[k] /\ q[k + 1] = p[k + 1]
        BY <4>1, <1>2
      <4> QED BY <4>1, <4>2 DEF Path
    <3> QED BY <3>2, <3>3, <1>1, <1>2
  <2>4. /\ q[Len(q)].struct = T /\ q[Len(q)].member = n /\ q[Len(q)].index = i
        /\ IsMember(q[Len(q)])
    BY <1>2
  <2> QED BY <2>1, <2>2, <2>3, <2>4, <1>2 DEF Cell
<1>4. InBounds(q)
  <2> SUFFICES ASSUME NEW k \in 1..Len(q)
               PROVE  q[k].index <= Allocated(q[k].struct, Items(SubSeq(q, 1, k - 1), shape))
    BY DEF InBounds
  <2>1. CASE k = Len(p) + 1
    <3>1. SubSeq(q, 1, k - 1) = p
      BY <2>1, <1>1, <1>2, WholeSubSeq
    <3>2. q[k].index = i /\ q[k].struct = T
      BY <2>1, <1>2
    <3>3. i <= Allocated(T, Items(p, shape))
      <4>1. Allocated(T, Items(p, shape)) \in Nat
        BY <1>1, ItemsAreNumbers
      <4> QED BY <4>1
    <3> QED BY <3>1, <3>2, <3>3, Zenon
  <2>2. CASE k <= Len(p)
    <3>1. SubSeq(q, 1, k - 1) = SubSeq(p, 1, k - 1)
      BY <2>2, <1>1, <1>2, SubSeqsEqual
    <3>2. k \in 1..Len(p) /\ q[k] = p[k]
      BY <2>2, <1>1, <1>2
    <3> QED BY <3>1, <3>2 DEF InBounds
  <2> QED BY <2>1, <2>2, <1>1, <1>2
<1> QED BY <1>3, <1>4 DEF q

-----------------------------------------------------------------------------
(* What is allocated together.                                             *)

\* What LayoutAssumption says of a struct's member (otel_common.h).
LEMMA MemberFacts ==
  ASSUME NEW T \in DOMAIN Layout, NEW m \in Members(T), NEW i, IsShape(shape)
  PROVE  /\ T \in STRING /\ m.name \in STRING /\ MemberOf(T, m.name) = m
         /\ Kind(T, m.name) = m.kind
         /\ IsMember([struct |-> T, member |-> m.name, index |-> i])
         /\ m.kind \in {"struct", "array"} => TypeOf(m, shape) \in DOMAIN Layout
<1>1. T \in STRING /\ m.name \in STRING /\ MemberOf(T, m.name) = m
  BY LayoutAssumption
<1>2. Kind(T, m.name) = m.kind
  BY <1>1 DEF Kind
<1>3. IsMember([struct |-> T, member |-> m.name, index |-> i])
  BY DEF IsMember
<1>4. ASSUME m.kind \in {"struct", "array"}
      PROVE  TypeOf(m, shape) \in DOMAIN Layout
  <2>1. TypeOf(m, shape) \in Inner(T, m.name)
    BY <1>1, <1>2, <1>4, TypeOfInner
  <2> QED BY <2>1, LayoutAssumption
<1> QED BY <1>1, <1>2, <1>3, <1>4

\* f is a struct, with its type, that is in the struct T at p, or it itself.
IsIn(f, p, T) ==
  \E q, U :
    /\ f = <<q, U>> /\ U \in DOMAIN Layout
    /\ Path(q, U) /\ InBounds(q)
    /\ Len(p) <= Len(q) /\ \A k \in 1..Len(p) : q[k] = p[k]
    /\ \A k \in (Len(p) + 1)..Len(q) : q[k].index <= 0
    /\ IF Len(q) = Len(p) THEN U = T ELSE q[Len(p) + 1].struct = T

\* The structs inside of structs are where CellsOf() looks for them.
LEMMA NestedFits ==
  ASSUME NEW p \in Seq(Step), NEW T, NEW F, IsShape(shape), \A f \in F : IsIn(f, p, T)
  PROVE  \A g \in Nested(F, shape) : IsIn(g, p, T)
<1> SUFFICES ASSUME NEW f \in F, NEW m \in ToSet(Layout[f[2]]), m.kind = "struct"
             PROVE  IsIn(<<Member(f[1], f[2], m.name), TypeOf(m, shape)>>, p, T)
  BY DEF Nested
<1>1. PICK q, U : /\ f = <<q, U>> /\ U \in DOMAIN Layout
                  /\ Path(q, U) /\ InBounds(q)
                  /\ Len(p) <= Len(q) /\ \A k \in 1..Len(p) : q[k] = p[k]
                  /\ \A k \in (Len(p) + 1)..Len(q) : q[k].index <= 0
                  /\ IF Len(q) = Len(p) THEN U = T ELSE q[Len(p) + 1].struct = T
  BY DEF IsIn
<1>2. f[1] = q /\ f[2] = U
  BY <1>1
<1>3. q \in Seq(Step)
  BY <1>1 DEF Path
<1> DEFINE V == TypeOf(m, shape)
           r == Element(q, U, m.name, 0)
<1>4. /\ U \in STRING /\ m.name \in STRING /\ V \in DOMAIN Layout
      /\ MemberOf(U, m.name) = m /\ Kind(U, m.name) = "struct"
      /\ IsMember([struct |-> U, member |-> m.name, index |-> 0])
  BY <1>1, <1>2, MemberFacts DEF Members
<1>5. Leads([struct |-> U, member |-> m.name, index |-> 0], V)
  BY <1>4 DEF Leads
<1>6. 0 <= Allocated(U, Items(q, shape))
  <2>1. Allocated(U, Items(q, shape)) \in Nat
    BY <1>3, ItemsAreNumbers
  <2> QED BY <2>1
<1>z. 0 \in Int
  OBVIOUS
<1>7. Path(r, V) /\ InBounds(r)
  BY <1>1, <1>4, <1>5, <1>6, <1>z, PathGrows, Zenon
<1>8. /\ r \in Seq(Step) /\ Len(r) = Len(q) + 1
      /\ r[Len(q) + 1] = [struct |-> U, member |-> m.name, index |-> 0]
      /\ \A k \in 1..Len(q) : r[k] = q[k]
  <2>1. \A n \in STRING : \A i \in Int :
          /\ Element(q, U, n, i) \in Seq(Step) /\ Len(Element(q, U, n, i)) = Len(q) + 1
          /\ Element(q, U, n, i)[Len(q) + 1] = [struct |-> U, member |-> n, index |-> i]
          /\ \A k \in 1..Len(q) : Element(q, U, n, i)[k] = q[k]
    <3>1. U \in STRING
      BY <1>4
    <3> QED BY <1>3, <3>1, ElementFacts
  <2> QED BY <2>1, <1>4, <1>z, Zenon
<1> HIDE DEF r, V
<1>9. Len(p) <= Len(r) /\ \A k \in 1..Len(p) : r[k] = p[k]
  BY <1>1, <1>3, <1>8
<1>10. \A k \in (Len(p) + 1)..Len(r) : r[k].index <= 0
  <2> SUFFICES ASSUME NEW k \in (Len(p) + 1)..Len(r) PROVE r[k].index <= 0
    OBVIOUS
  <2>1. CASE k = Len(q) + 1
    BY <2>1, <1>8
  <2>2. CASE k <= Len(q)
    <3>1. k \in 1..Len(q) /\ k \in (Len(p) + 1)..Len(q)
      BY <2>2, <1>3
    <3> QED BY <3>1, <1>1, <1>8
  <2> QED BY <2>1, <2>2, <1>3, <1>8
<1>11. Len(r) /= Len(p) /\ r[Len(p) + 1].struct = T
  <2>1. CASE Len(q) = Len(p)
    BY <2>1, <1>1, <1>3, <1>8
  <2>2. CASE Len(q) /= Len(p)
    <3>1. Len(p) + 1 \in 1..Len(q)
      BY <2>2, <1>1, <1>3
    <3> QED BY <3>1, <2>2, <1>1, <1>3, <1>8
  <2> QED BY <2>1, <2>2
<1>12. IsIn(<<r, V>>, p, T)
  BY <1>4, <1>7, <1>9, <1>10, <1>11, Zenon DEF IsIn
<1> QED BY <1>12, <1>2 DEF r, V, Member

\* c is of the struct T at p, without passing through an array.
IsOf(c, p, T) ==
  /\ Cell(c) /\ InBounds(c)
  /\ Len(p) < Len(c) /\ \A k \in 1..Len(p) : c[k] = p[k]
  /\ \A k \in (Len(p) + 1)..Len(c) : c[k].index <= 0
  /\ c[Len(p) + 1].struct = T

\* The members of structs are their cells.
LEMMA OwnFits ==
  ASSUME NEW p \in Seq(Step), NEW T, NEW F, IsShape(shape), \A f \in F : IsIn(f, p, T)
  PROVE  \A c \in OwnCells(F) : IsOf(c, p, T)
<1> SUFFICES ASSUME NEW f \in F, NEW m \in ToSet(Layout[f[2]]), m.kind /= "struct",
                    NEW i \in {0, -1}, i = 0 \/ m.kind = "array"
             PROVE  IsOf(Element(f[1], f[2], m.name, i), p, T)
  BY DEF OwnCells, Member, Count
<1>1. PICK q, U : /\ f = <<q, U>> /\ U \in DOMAIN Layout
                  /\ Path(q, U) /\ InBounds(q)
                  /\ Len(p) <= Len(q) /\ \A k \in 1..Len(p) : q[k] = p[k]
                  /\ \A k \in (Len(p) + 1)..Len(q) : q[k].index <= 0
                  /\ IF Len(q) = Len(p) THEN U = T ELSE q[Len(p) + 1].struct = T
  BY DEF IsIn
<1>2. f[1] = q /\ f[2] = U
  BY <1>1
<1>3. q \in Seq(Step)
  BY <1>1 DEF Path
<1> DEFINE r == Element(q, U, m.name, i)
<1>4. /\ U \in STRING /\ m.name \in STRING
      /\ MemberOf(U, m.name) = m /\ Kind(U, m.name) = m.kind
      /\ IsMember([struct |-> U, member |-> m.name, index |-> i])
  BY <1>1, <1>2, MemberFacts DEF Members
<1>5. IF i = 0 THEN Kind(U, m.name) /= "struct" ELSE Kind(U, m.name) = "array"
  BY <1>4
<1>7. Cell(r) /\ InBounds(r)
  BY <1>1, <1>4, <1>5, CellGrows
<1>8. /\ r \in Seq(Step) /\ Len(r) = Len(q) + 1
      /\ r[Len(q) + 1] = [struct |-> U, member |-> m.name, index |-> i]
      /\ \A k \in 1..Len(q) : r[k] = q[k]
  <2>1. i \in Int
    OBVIOUS
  <2>2. Longer(r, q, U, m.name, i)
    BY <2>1, <1>3, <1>4, ElementIsLonger, Zenon
  <2> QED BY <2>2, Zenon DEF Longer
<1> HIDE DEF r
<1>9. Len(p) < Len(r) /\ \A k \in 1..Len(p) : r[k] = p[k]
  BY <1>1, <1>3, <1>8
<1>10. \A k \in (Len(p) + 1)..Len(r) : r[k].index <= 0
  <2> SUFFICES ASSUME NEW k \in (Len(p) + 1)..Len(r) PROVE r[k].index <= 0
    OBVIOUS
  <2>1. CASE k = Len(q) + 1
    BY <2>1, <1>8
  <2>2. CASE k <= Len(q)
    <3>1. k \in 1..Len(q) /\ k \in (Len(p) + 1)..Len(q)
      BY <2>2, <1>3
    <3> QED BY <3>1, <1>1, <1>8
  <2> QED BY <2>1, <2>2, <1>3, <1>8
<1>11. r[Len(p) + 1].struct = T
  <2>1. CASE Len(q) = Len(p)
    BY <2>1, <1>1, <1>3, <1>8
  <2>2. CASE Len(q) /= Len(p)
    <3>1. Len(p) + 1 \in 1..Len(q)
      BY <2>2, <1>1, <1>3
    <3> QED BY <3>1, <2>2, <1>1, <1>3, <1>8
  <2> QED BY <2>1, <2>2
<1>12. IsOf(r, p, T)
  BY <1>7, <1>9, <1>10, <1>11, Zenon DEF IsOf
<1> QED BY <1>12, <1>2 DEF r

\* An array has its count.
Counted(c, cells) ==
  Kind(c[Len(c)].struct, c[Len(c)].member) = "array" => CountOf(c, Len(c)) \in cells

\* Every array among them has its count among them.
LEMMA OwnCounted ==
  ASSUME NEW p \in Seq(Step), NEW T, NEW F, IsShape(shape), \A f \in F : IsIn(f, p, T)
  PROVE  \A c \in OwnCells(F) : Counted(c, OwnCells(F))
<1> SUFFICES ASSUME NEW c \in OwnCells(F)
             PROVE  Counted(c, OwnCells(F))
  OBVIOUS
<1>0. PICK f \in F : \E m \in ToSet(Layout[f[2]]) : \E i \in {0, -1} :
        /\ m.kind /= "struct" /\ (i = 0 \/ m.kind = "array")
        /\ c = Element(f[1], f[2], m.name, i)
  BY DEF OwnCells, Member, Count
<1>m. PICK m \in ToSet(Layout[f[2]]), i \in {0, -1} :
        /\ m.kind /= "struct" /\ (i = 0 \/ m.kind = "array")
        /\ c = Element(f[1], f[2], m.name, i)
  BY <1>0
<1>1. PICK q, U : f = <<q, U>> /\ U \in DOMAIN Layout /\ Path(q, U)
  BY DEF IsIn
<1>2. f[1] = q /\ f[2] = U
  BY <1>1
<1>3. q \in Seq(Step)
  BY <1>1 DEF Path
<1> DEFINE n == m.name r == Element(q, U, n, i)
<1>4. U \in STRING /\ m.name \in STRING /\ Kind(U, m.name) = m.kind
  BY <1>1, <1>2, MemberFacts DEF Members
<1>n. n \in STRING
  BY <1>4
<1> HIDE DEF n
<1>5. /\ r \in Seq(Step) /\ Len(r) = Len(q) + 1
      /\ r[Len(q) + 1] = [struct |-> U, member |-> n, index |-> i]
      /\ \A k \in 1..Len(q) : r[k] = q[k]
  <2>1. i \in Int
    OBVIOUS
  <2>2. Longer(r, q, U, n, i)
    BY <2>1, <1>3, <1>4, <1>n, ElementIsLonger, Zenon
  <2> QED BY <2>2, Zenon DEF Longer
<1> HIDE DEF r
<1>6. r[Len(r)].struct = U /\ r[Len(r)].member = n /\ Len(r) - 1 = Len(q)
  BY <1>3, <1>5
<1>7. SubSeq(r, 1, Len(r) - 1) = q
  BY <1>3, <1>5, <1>6, WholeSubSeq
<1>8. CountOf(r, Len(r)) = Count(f[1], f[2], n)
  BY <1>2, <1>6, <1>7 DEF CountOf
<1>9. m.kind = "array" => Count(f[1], f[2], n) \in OwnCells(F)
  BY <1>m DEF OwnCells, n
<1> QED BY <1>m, <1>2, <1>4, <1>6, <1>8, <1>9 DEF Counted, r, n

\* CellsOf() has places of the struct only, and the count of each array.
LEMMA CellsOfFit ==
  ASSUME NEW p, NEW T \in DOMAIN Layout, Path(p, T), InBounds(p), IsShape(shape)
  PROVE  \A c \in CellsOf(T, p, shape) :
           IsOf(c, p, T) /\ Counted(c, CellsOf(T, p, shape))
<1> DEFINE one == {<<p, T>>}
           two == Nested(one, shape)
           three == Nested(two, shape)
           four == Nested(three, shape)
<1>1. p \in Seq(Step)
  BY DEF Path
<1>2. \A f \in one : IsIn(f, p, T)
  <2>1. \A k \in (Len(p) + 1)..Len(p) : p[k].index <= 0
    BY <1>1
  <2>2. Len(p) <= Len(p)
    BY <1>1
  <2> QED BY <2>1, <2>2, Zenon DEF IsIn
<1> HIDE DEF one
<1>3. \A f \in two : IsIn(f, p, T)
  BY <1>1, <1>2, NestedFits
<1> HIDE DEF two
<1>4. \A f \in three : IsIn(f, p, T)
  BY <1>1, <1>3, NestedFits DEF three
<1> HIDE DEF three
<1>5. \A f \in four : IsIn(f, p, T)
  BY <1>1, <1>4, NestedFits DEF four
<1> HIDE DEF four
<1>6. CellsOf(T, p, shape) = OwnCells(one) \cup OwnCells(two) \cup OwnCells(three) \cup OwnCells(four)
  BY DEF CellsOf, one, two, three, four
<1>7. /\ \A c \in OwnCells(one) : IsOf(c, p, T)
      /\ \A c \in OwnCells(two) : IsOf(c, p, T)
      /\ \A c \in OwnCells(three) : IsOf(c, p, T)
      /\ \A c \in OwnCells(four) : IsOf(c, p, T)
  BY <1>1, <1>2, <1>3, <1>4, <1>5, OwnFits
<1>8. /\ \A c \in OwnCells(one) : Counted(c, OwnCells(one))
      /\ \A c \in OwnCells(two) : Counted(c, OwnCells(two))
      /\ \A c \in OwnCells(three) : Counted(c, OwnCells(three))
      /\ \A c \in OwnCells(four) : Counted(c, OwnCells(four))
  BY <1>1, <1>2, <1>3, <1>4, <1>5, OwnCounted
<1>9. \A S, R : \A c : S \subseteq R /\ Counted(c, S) => Counted(c, R)
  BY DEF Counted
<1>10. \A c \in CellsOf(T, p, shape) : Counted(c, CellsOf(T, p, shape))
  BY <1>6, <1>8, <1>9
<1> QED BY <1>6, <1>7, <1>10

-----------------------------------------------------------------------------
(* Tasks.                                                                  *)

\* The fields of a task have their types.
LEMMA TaskTyped ==
  ASSUME NEW t \in TaskTypes
  PROVE  /\ t.entry \in EntryTypes /\ t.struct \in STRING /\ t.at \in Seq(Step)
         /\ t.how \in STRING /\ t.catches \in Seq(STRING \X Seq(Step)) /\ t.next \in Nat
         /\ t.entry.name \in STRING /\ t.entry.part \in {"all", "array", "elements"}
         /\ t = [entry |-> t.entry, struct |-> t.struct, at |-> t.at, how |-> t.how,
                 catches |-> t.catches, next |-> t.next]
<1>1. /\ t.entry \in EntryTypes /\ t.struct \in STRING /\ t.at \in Seq(Step)
      /\ t.how \in STRING /\ t.catches \in Seq(STRING \X Seq(Step)) /\ t.next \in Nat
  BY DEF TaskTypes
<1>2. t.entry.name \in STRING /\ t.entry.part \in {"all", "array", "elements"}
  BY <1>1 DEF EntryTypes
<1>3. t = [entry |-> t.entry, struct |-> t.struct, at |-> t.at, how |-> t.how,
           catches |-> t.catches, next |-> t.next]
  BY DEF TaskTypes
<1> QED BY <1>1, <1>2, <1>3

\* What a task fills is one step below the struct that it fills a part of.
LEMMA TaskPlaces ==
  ASSUME NEW t \in TaskTypes
  PROVE  /\ \A i \in Int : Longer(ElementPlace(t, i), t.at, t.struct, t.entry.name, i)
         /\ Longer(Place(t), t.at, t.struct, t.entry.name, 0)
         /\ Longer(CountPlace(t), t.at, t.struct, t.entry.name, -1)
<1>1. t.struct \in STRING /\ t.at \in Seq(Step) /\ t.entry.name \in STRING
  BY TaskTyped
<1>2. \A i \in Int : Longer(Element(t.at, t.struct, t.entry.name, i), t.at, t.struct, t.entry.name, i)
  BY <1>1, ElementIsLonger, Zenon
<1>3. 0 \in Int /\ -1 \in Int
  OBVIOUS
<1> QED BY <1>2, <1>3, Zenon DEF ElementPlace, Place, CountPlace, Member, Count

\* What a member is, of a struct that somebody fills.
LEMMA FilledMember ==
  ASSUME NEW by \in Sides, NEW T \in DOMAIN FillOrder[by], NEW e \in Entries(by, T),
         IsShape(shape)
  PROVE  /\ T \in DOMAIN Layout /\ T \in STRING /\ e.name \in STRING /\ e \in EntryTypes
         /\ \A i : IsMember([struct |-> T, member |-> e.name, index |-> i])
         /\ Kind(T, e.name) \in {"block", "plain", "struct", "array"}
         /\ Kind(T, e.name) \in {"struct", "array"} =>
              /\ TypeOf(MemberOf(T, e.name), shape) \in Inner(T, e.name)
              /\ TypeOf(MemberOf(T, e.name), shape) \in DOMAIN FillOrder[by]
<1>1. T \in DOMAIN Layout /\ e \in EntryTypes
  BY FillAssumption, EntryTypeAssumption
<1>2. PICK m \in Members(T) : m.name = e.name
  BY FillAssumption
<1>3. /\ T \in STRING /\ e.name \in STRING
      /\ \A i : IsMember([struct |-> T, member |-> e.name, index |-> i])
      /\ Kind(T, e.name) = m.kind
  BY <1>1, <1>2, MemberFacts
<1>4. m.kind \in {"block", "plain", "struct", "array"}
  BY <1>1, LayoutAssumption
<1>5. ASSUME Kind(T, e.name) \in {"struct", "array"}
      PROVE  /\ TypeOf(MemberOf(T, e.name), shape) \in Inner(T, e.name)
             /\ TypeOf(MemberOf(T, e.name), shape) \in DOMAIN FillOrder[by]
  <2>1. TypeOf(MemberOf(T, e.name), shape) \in Inner(T, e.name)
    BY <1>5, TypeOfInner
  <2>2. Inner(T, e.name) \subseteq DOMAIN FillOrder[by]
    BY FillAssumption
  <2> QED BY <2>1, <2>2
<1> QED BY <1>1, <1>3, <1>4, <1>5

\* A task that fits fills a member that its struct has, with a struct that the
\* same side fills (FillAssumption).
LEMMA TaskFacts ==
  ASSUME NEW t \in TaskTypes, TaskFits(t), IsShape(shape), op \in DOMAIN Entry
  PROVE  /\ E.fill \in Sides /\ t.struct \in DOMAIN FillOrder[E.fill]
         /\ t.entry \in Entries(E.fill, t.struct)
         /\ t.struct \in DOMAIN Layout
         /\ \A i : IsMember([struct |-> t.struct, member |-> t.entry.name, index |-> i])
         /\ What(t).kind = Kind(t.struct, t.entry.name)
         /\ What(t).kind \in {"block", "plain", "struct", "array"}
         /\ What(t).kind \in {"struct", "array"} =>
              /\ TypeOf(What(t), shape) \in Inner(t.struct, t.entry.name)
              /\ TypeOf(What(t), shape) \in DOMAIN FillOrder[E.fill]
<1>1. /\ E.fill \in Sides /\ t.struct \in DOMAIN FillOrder[E.fill]
      /\ t.entry \in Entries(E.fill, t.struct)
  BY EntryAssumption DEF TaskFits, E
<1>2. What(t).kind = Kind(t.struct, t.entry.name)
  BY DEF What, Kind
<1>3. What(t) = MemberOf(t.struct, t.entry.name)
  BY DEF What
<1> QED BY <1>1, <1>2, <1>3, FilledMember

\* Two zones have a place in common only if one begins in the other.
LEMMA ApartMeans ==
  ASSUME NEW s \in TaskTypes, NEW t \in TaskTypes
  PROVE  Apart(s, t) <=> \A c \in Seq(Step) : ~(InZone(c, s) /\ InZone(c, t))
<1>1. ASSUME NEW u \in TaskTypes
      PROVE  /\ FirstPlace(u) \in Seq(Step) /\ InZone(FirstPlace(u), u)
             /\ Longer(FirstPlace(u), u.at, u.struct, u.entry.name, u.next)
  <2>1. u.next \in Int /\ u.at \in Seq(Step) /\ u.next \in Nat
    BY TaskTyped
  <2>2. Longer(FirstPlace(u), u.at, u.struct, u.entry.name, u.next)
    BY <2>1, TaskPlaces DEF FirstPlace
  <2> QED BY <2>1, <2>2 DEF Longer, InZone
<1>2. ASSUME NEW u \in TaskTypes, NEW v \in TaskTypes, NEW c \in Seq(Step),
             InZone(c, u), InZone(c, v), Len(u.at) <= Len(v.at)
      PROVE  InZone(FirstPlace(u), v) \/ InZone(FirstPlace(v), u)
  <2>1. /\ u.at \in Seq(Step) /\ v.at \in Seq(Step) /\ u.next \in Nat /\ v.next \in Nat
    BY TaskTyped
  <2>2. /\ Longer(FirstPlace(u), u.at, u.struct, u.entry.name, u.next)
        /\ Longer(FirstPlace(v), v.at, v.struct, v.entry.name, v.next)
    BY <1>1
  <2>3. CASE Len(u.at) < Len(v.at)
    <3> DEFINE q == FirstPlace(v) n == Len(u.at) + 1
    <3>1. Len(q) = Len(v.at) + 1 /\ \A k \in 1..Len(v.at) : q[k] = v.at[k]
      BY <2>2 DEF Longer
    <3>2. \A k \in 1..Len(v.at) : c[k] = v.at[k]
      BY <1>2 DEF InZone
    <3> HIDE DEF q
    <3>3. n \in 1..Len(v.at) /\ Len(u.at) < Len(q)
      BY <2>1, <2>3, <3>1
    <3>4. \A k \in 1..Len(u.at) : q[k] = c[k]
      BY <2>1, <2>3, <3>1, <3>2
    <3>5. q[n] = c[n]
      BY <3>1, <3>2, <3>3
    <3>6. InZone(q, u)
      BY <3>3, <3>4, <3>5, <1>2 DEF InZone
    <3> QED BY <3>6 DEF q
  <2>4. CASE Len(u.at) = Len(v.at)
    <3> DEFINE n == Len(v.at) + 1
    <3>1. /\ u.struct = v.struct /\ u.entry.name = v.entry.name
          /\ c[n].struct = u.struct /\ c[n].member = u.entry.name
      BY <2>4, <1>2 DEF InZone
    <3>2. \A k \in 1..Len(u.at) : u.at[k] = v.at[k]
      BY <2>4, <1>2 DEF InZone
    <3>3. CASE u.next <= v.next
      <4> DEFINE q == FirstPlace(v)
      <4>1. /\ Len(q) = n /\ q[n].struct = v.struct /\ q[n].member = v.entry.name
            /\ q[n].index = v.next
            /\ \A k \in 1..Len(v.at) : q[k] = v.at[k]
        BY <2>2 DEF Longer
      <4> HIDE DEF q
      <4>2. \A k \in 1..Len(u.at) : q[k] = u.at[k]
        BY <4>1, <3>2, <2>4
      <4>3. Len(u.at) < Len(q) /\ Len(u.at) + 1 = n
        BY <4>1, <2>1, <2>4
      <4>4. InZone(q, u)
        BY <4>1, <4>2, <4>3, <3>1, <3>3, <2>1 DEF InZone
      <4> QED BY <4>4 DEF q
    <3>4. CASE v.next <= u.next
      <4> DEFINE q == FirstPlace(u)
      <4>1. /\ Len(q) = Len(u.at) + 1 /\ q[Len(u.at) + 1].struct = u.struct
            /\ q[Len(u.at) + 1].member = u.entry.name /\ q[Len(u.at) + 1].index = u.next
            /\ \A k \in 1..Len(u.at) : q[k] = u.at[k]
        BY <2>2 DEF Longer
      <4> HIDE DEF q
      <4>2. \A k \in 1..Len(v.at) : q[k] = v.at[k]
        BY <4>1, <3>2, <2>4
      <4>3. Len(v.at) < Len(q) /\ Len(u.at) + 1 = n
        BY <4>1, <2>1, <2>4
      <4>4. InZone(q, v)
        BY <4>1, <4>2, <4>3, <3>1, <3>4, <2>1 DEF InZone
      <4> QED BY <4>4 DEF q
    <3>5. u.next <= v.next \/ v.next <= u.next
      BY <2>1
    <3> QED BY <3>3, <3>4, <3>5
  <2> QED BY <2>1, <2>3, <2>4, <1>2
<1>3. s.at \in Seq(Step) /\ t.at \in Seq(Step)
  BY TaskTyped
<1>4. Len(s.at) <= Len(t.at) \/ Len(t.at) <= Len(s.at)
  BY <1>3
<1> QED BY <1>1, <1>2, <1>4 DEF Apart

\* Options are inside of nothing, strings only in the headers of options.
LEMMA OuterFacts ==
  ASSUME NEW T \in DOMAIN Layout, NEW n, \E m \in Members(T) : m.name = n, NEW U \in Inner(T, n)
  PROVE  /\ U /= "otel_provider_http_options" /\ U /= "otel_bsp_options"
         /\ U = "otel_strings" => T = "otel_provider_http_options" /\ n = "http_headers"
<1>1. <<T, n>> \in Outer(U)
  BY DEF Outer
<1>2. U /= "otel_provider_http_options" /\ U /= "otel_bsp_options"
  BY <1>1, LayoutAssumption
<1>3. ASSUME U = "otel_strings"
      PROVE  T = "otel_provider_http_options" /\ n = "http_headers"
  BY <1>1, <1>3, LayoutAssumption
<1> QED BY <1>2, <1>3

\* Whoever reads or gives back a struct does so with what is in it.
LEMMA InnerHandled ==
  ASSUME NEW T, Handled(T), op \in DOMAIN Entry, T \in DOMAIN FillOrder[E.fill],
         NEW e \in Entries(E.fill, T), NEW U \in Inner(T, e.name)
  PROVE  Handled(U)
<1>1. E.fill \in Sides
  BY EntryAssumption DEF E
<1>2. ASSUME AllRead(op) PROVE U \in Readable(op)
  <2>1. T \in Readable(op) \cap DOMAIN FillOrder[E.fill]
    BY <1>2 DEF Handled
  <2>2. Complete(E.fill, ReadOrder[E.reads], Readable(op) \cap DOMAIN FillOrder[E.fill])
    BY ReadAssumption DEF E
  <2> QED BY <2>1, <2>2 DEF Complete
<1>3. ASSUME E.frees \/ E.catches /= <<>> PROVE U \in DOMAIN FreeOrder
  <2>1. T \in DOMAIN FreeOrder \cap DOMAIN FillOrder[E.fill]
    BY <1>3 DEF Handled
  <2>2. Complete(E.fill, FreeOrder, DOMAIN FreeOrder \cap DOMAIN FillOrder[E.fill])
    BY <1>1, FreeAssumption
  <2> QED BY <2>1, <2>2 DEF Complete
<1> QED BY <1>2, <1>3 DEF Handled

\* A step into what t fills.
LEMMA TaskGrows ==
  ASSUME NEW t \in TaskTypes, TaskFits(t), IsShape(shape), op \in DOMAIN Entry,
         NEW i \in Int,
         \/ i = 0 /\ What(t).kind = "struct"
         \/ i >= 1 /\ What(t).kind = "array" /\ i <= Allocated(t.struct, Items(t.at, shape))
  PROVE  LET q == ElementPlace(t, i) U == TypeOf(What(t), shape)
         IN /\ Path(q, U) /\ InBounds(q) /\ Followed(q)
            /\ U \in Inner(t.struct, t.entry.name) /\ U \in DOMAIN FillOrder[E.fill]
            /\ U \in DOMAIN Layout /\ U \in STRING /\ Handled(U)
<1> DEFINE q == ElementPlace(t, i) U == TypeOf(What(t), shape)
<1>1. /\ E.fill \in Sides /\ t.struct \in DOMAIN FillOrder[E.fill]
      /\ t.entry \in Entries(E.fill, t.struct) /\ t.struct \in DOMAIN Layout
      /\ IsMember([struct |-> t.struct, member |-> t.entry.name, index |-> i])
      /\ What(t).kind = Kind(t.struct, t.entry.name)
      /\ U \in Inner(t.struct, t.entry.name) /\ U \in DOMAIN FillOrder[E.fill]
  BY TaskFacts
<1>2. U \in DOMAIN Layout /\ U \in STRING
  BY <1>1, FillAssumption, LayoutAssumption
<1>3. Handled(U)
  BY <1>1, InnerHandled DEF TaskFits
<1>4. /\ t.struct \in STRING /\ t.entry.name \in STRING /\ t.at \in Seq(Step)
      /\ Path(t.at, t.struct) /\ InBounds(t.at) /\ Followed(t.at) /\ Handled(t.struct)
  BY TaskTyped DEF TaskFits
<1>5. Leads([struct |-> t.struct, member |-> t.entry.name, index |-> i], U)
  BY <1>1 DEF Leads, What
<1>6. i <= Allocated(t.struct, Items(t.at, shape))
  <2>1. Allocated(t.struct, Items(t.at, shape)) \in Nat
    BY <1>4, ItemsAreNumbers
  <2> QED BY <2>1
<1>7. Path(q, U) /\ InBounds(q)
  <2>1. q = Element(t.at, t.struct, t.entry.name, i)
    BY DEF ElementPlace
  <2> HIDE DEF q, U
  <2>2. Path(Element(t.at, t.struct, t.entry.name, i), U) /\ InBounds(Element(t.at, t.struct, t.entry.name, i))
    BY <1>4, <1>5, <1>6, PathGrows, Zenon
  <2> QED BY <2>1, <2>2
<1>8. Followed(q)
  <2>1. Longer(q, t.at, t.struct, t.entry.name, i)
    BY TaskPlaces
  <2> HIDE DEF q, U
  <2> SUFFICES ASSUME NEW k \in 1..Len(q)
               PROVE  /\ q[k].struct \in DOMAIN FillOrder[E.fill] /\ Handled(q[k].struct)
                      /\ \E e \in Entries(E.fill, q[k].struct) : e.name = q[k].member
    BY DEF Followed
  <2>2. CASE k = Len(t.at) + 1
    <3>1. q[k].struct = t.struct /\ q[k].member = t.entry.name
      BY <2>1, <2>2 DEF Longer
    <3> QED BY <3>1, <1>1, <1>4
  <2>3. CASE k <= Len(t.at)
    <3>1. k \in 1..Len(t.at) /\ q[k] = t.at[k]
      BY <2>1, <2>3, <1>4 DEF Longer
    <3> QED BY <3>1, <1>4 DEF Followed
  <2> QED BY <2>1, <2>2, <2>3, <1>4 DEF Longer
<1> QED BY <1>1, <1>2, <1>3, <1>7, <1>8

\* The tasks that a struct consists of.
LEMMA PartsFit ==
  ASSUME NEW t \in TaskTypes, TaskFits(t), IsShape(shape), op \in DOMAIN Entry,
         NEW i \in Int,
         \/ i = 0 /\ What(t).kind = "struct"
         \/ i >= 1 /\ What(t).kind = "array" /\ i <= Allocated(t.struct, Items(t.at, shape))
  PROVE  LET q == ElementPlace(t, i)
             U == TypeOf(What(t), shape)
             parts == Parts(t, q, E.fill, shape)
         IN /\ parts \in Seq(TaskTypes) /\ Len(parts) = Len(FillOrder[E.fill][U])
            /\ \A j \in 1..Len(parts) :
                 /\ parts[j].entry = FillOrder[E.fill][U][j]
                 /\ parts[j].struct = U /\ parts[j].at = q
                 /\ parts[j].next = IF parts[j].entry.part = "elements" THEN 1 ELSE 0
                 /\ TaskFits(parts[j])
<1> DEFINE q == ElementPlace(t, i)
           U == TypeOf(What(t), shape)
           order == FillOrder[E.fill][U]
           caught == IF t.entry.caught THEN <<<<U, q>>>> \o t.catches ELSE t.catches
           part(j) == Task(order[j], U, q, t.how, caught)
<1>1. /\ Path(q, U) /\ InBounds(q) /\ Followed(q)
      /\ U \in Inner(t.struct, t.entry.name) /\ U \in DOMAIN FillOrder[E.fill]
      /\ U \in DOMAIN Layout /\ U \in STRING /\ Handled(U)
  BY TaskGrows, Zenon
<1>2. /\ E.fill \in Sides /\ t.struct \in DOMAIN FillOrder[E.fill]
      /\ t.entry \in Entries(E.fill, t.struct) /\ t.struct \in DOMAIN Layout
      /\ What(t).kind = Kind(t.struct, t.entry.name)
      /\ \E m \in Members(t.struct) : m.name = t.entry.name
  BY TaskFacts, FillAssumption
<1>3. /\ t.at \in Seq(Step) /\ t.how \in STRING /\ t.catches \in Seq(STRING \X Seq(Step))
      /\ t.struct \in STRING /\ t.entry.name \in STRING
  BY TaskTyped
<1>4. Longer(q, t.at, t.struct, t.entry.name, i)
  BY TaskPlaces
<1>5. Parts(t, q, E.fill, shape) = [j \in DOMAIN order |-> part(j)]
  BY DEF Parts, Tasks
<1>6. order \in Seq(Entries(E.fill, U)) /\ Entries(E.fill, U) \subseteq EntryTypes
  BY <1>1, <1>2, FillAssumption, EntryTypeAssumption
<1>7. caught \in Seq(STRING \X Seq(Step)) /\ (HasRoot(t.catches) => HasRoot(caught))
      /\ Structs(caught)
  <2>1. <<U, q>> \in STRING \X Seq(Step)
    BY <1>1, <1>4 DEF Longer
  <2>5. Path(q, U)
    BY <1>1
  <2> HIDE DEF U, q
  <2>2. <<<<U, q>>>> \o t.catches \in Seq(STRING \X Seq(Step))
    BY <2>1, <1>3
  <2>3. ASSUME HasRoot(t.catches) PROVE HasRoot(<<<<U, q>>>> \o t.catches)
    <3>1. t.catches /= <<>> /\ t.catches[Len(t.catches)] = <<E.root, <<>>>>
      BY <2>3 DEF HasRoot
    <3> DEFINE cs == <<<<U, q>>>> \o t.catches r == <<E.root, <<>>>>
    <3> HIDE DEF r
    <3>2. Len(t.catches) > 0 /\ Len(cs) = Len(t.catches) + 1 /\ cs[Len(t.catches) + 1] = t.catches[Len(t.catches)]
      BY <3>1, <1>3, <2>1
    <3>3. cs /= <<>>
      BY <3>2, <1>3
    <3> QED BY <3>1, <3>2, <3>3, Zenon DEF HasRoot
  <2>4. Structs(<<<<U, q>>>> \o t.catches)
    <3> DEFINE cs == <<<<U, q>>>> \o t.catches
    <3>1. Structs(t.catches)
      BY DEF TaskFits
    <3>2. cs[1] = <<U, q>> /\ \A k \in DOMAIN cs : k /= 1 => k - 1 \in DOMAIN t.catches /\ cs[k] = t.catches[k - 1]
      BY <2>1, <1>3
    <3> HIDE DEF cs
    <3>3. ASSUME NEW k \in DOMAIN cs PROVE Path(cs[k][2], cs[k][1])
      <4>1. CASE k = 1
        BY <4>1, <3>2, <2>5
      <4>2. CASE k /= 1
        BY <4>2, <3>1, <3>2 DEF Structs
      <4> QED BY <4>1, <4>2
    <3> QED BY <3>3 DEF cs, Structs
  <2> QED BY <2>2, <2>3, <2>4, <1>3 DEF TaskFits
<1> HIDE DEF caught
<1>8. ASSUME NEW j \in DOMAIN order
      PROVE  /\ part(j) \in TaskTypes /\ part(j).entry = order[j]
             /\ part(j).struct = U /\ part(j).at = q /\ part(j).catches = caught
             /\ part(j).next = IF order[j].part = "elements" THEN 1 ELSE 0
             /\ part(j).how = IF order[j].how = "as called" THEN t.how ELSE order[j].how
             /\ order[j] \in EntryTypes /\ order[j] \in Entries(E.fill, U)
  <2>1. order[j] \in EntryTypes /\ order[j] \in Entries(E.fill, U)
    BY <1>6
  <2>2. q \in Seq(Step)
    BY <1>4 DEF Longer
  <2>3. order[j].how \in STRING
    BY <2>1 DEF EntryTypes
  <2> HIDE DEF order, U, q
  <2> QED BY <2>1, <2>2, <2>3, <1>1, <1>3, <1>7 DEF Task, TaskTypes
<1> HIDE DEF part
<1>9. ASSUME NEW j \in DOMAIN order PROVE HowFits(part(j))
  <2> DEFINE e == order[j] p == part(j)
  <2>1. /\ p.entry = e /\ p.struct = U /\ p.at = q /\ p.catches = caught
        /\ p.how = IF e.how = "as called" THEN t.how ELSE e.how
        /\ e \in Entries(E.fill, U)
    BY <1>8
  <2> HIDE DEF p, e, q, U
  <2>h. HowGoes(E.fill, U, e) /\ HowGoes(E.fill, t.struct, t.entry)
    BY <2>1, <1>1, <1>2, HowAssumption, Zenon
  <2>2. /\ e.how = "as called" => U = "otel_string"
        /\ e.how = "abandoning" => U = "otel_strings"
        /\ e.how \in {"borrowed", "R_alloc"} => E.fill = "R" /\ U \in Borrowers
        /\ E.fill = "R" => e.how /= "checked"
        /\ E.fill = "library" /\ U \in Uncaughts /\ e.how = "checked" => U = "otel_bsp_options"
    BY <2>h DEF HowGoes
  <2>3. HowFits(t) /\ (E.catches /= <<>> => HasRoot(t.catches))
        /\ (E.catches = <<>> /\ E.fill = "library" => t.struct \in Uncaughts)
    BY DEF TaskFits
  <2>4. p.how /= "as called" /\ (p.how /= p.entry.how => p.struct = "otel_string")
    BY <2>1, <2>2, <2>3 DEF HowFits
  <2>5. ASSUME p.how = "abandoning"
        PROVE  \/ p.struct = "otel_strings"
               \/ /\ p.struct = "otel_string" /\ p.at /= <<>>
                  /\ p.at[Len(p.at)].struct = "otel_strings" /\ p.at[Len(p.at)].index > 0
    <3>1. CASE e.how = "abandoning"
      BY <3>1, <2>1, <2>2
    <3>2. CASE e.how /= "abandoning"
      <4>1. U = "otel_string" /\ t.how = "abandoning"
        BY <3>2, <2>1, <2>2, <2>5
      <4>2. t.struct /= "otel_string"
        <5>1. \A m \in Members("otel_string") : m.kind = "block" /\ MemberOf("otel_string", m.name) = m
          <6>1. "otel_string" \in DOMAIN Layout
            BY <4>1, <1>1
          <6> QED BY <6>1, LayoutAssumption
        <5>2. Kind(t.struct, t.entry.name) \in {"struct", "array"}
          BY <1>2
        <5> QED BY <5>1, <5>2, <1>2 DEF Kind
      <4>3. t.struct = "otel_strings"
        BY <4>1, <4>2, <2>3 DEF HowFits
      <4>4. Kind(t.struct, t.entry.name) = "array"
        <5>1. \A m \in Members("otel_strings") : m.kind = "array" /\ MemberOf("otel_strings", m.name) = m
          BY <4>3, <1>2, LayoutAssumption
        <5> QED BY <5>1, <4>3, <1>2 DEF Kind
      <4>5. i > 0
        BY <4>4, <1>2
      <4>6. q /= <<>> /\ q[Len(q)].struct = "otel_strings" /\ q[Len(q)].index > 0
        BY <4>3, <4>5, <1>3, <1>4 DEF Longer
      <4> QED BY <4>1, <4>6, <2>1
    <3> QED BY <3>1, <3>2
  <2>6. ASSUME p.how \in {"borrowed", "R_alloc"}
        PROVE  E.fill = "R" /\ p.struct \in Borrowers
    <3>1. CASE e.how /= "as called"
      BY <3>1, <2>1, <2>2, <2>6
    <3>2. CASE e.how = "as called"
      <4>1. U = "otel_string" /\ t.how \in {"borrowed", "R_alloc"}
        BY <3>2, <2>1, <2>2, <2>6
      <4>2. E.fill = "R" /\ t.struct \in Borrowers
        BY <4>1, <2>3 DEF HowFits
      <4>3. "otel_string" \notin Inner(t.struct, t.entry.name)
        BY <4>2, <2>h DEF HowGoes
      <4> QED BY <4>1, <4>3, <1>1
    <3> QED BY <3>1, <3>2
  <2>7. ASSUME p.how = "checked"
        PROVE  E.catches /= <<>> \/ E.root \in Flat
    <3>2. CASE e.how = "as called"
      BY <3>2, <2>7, <2>1, <2>3 DEF HowFits
    <3>3. CASE E.catches = <<>> /\ e.how = "checked"
      <4>1. E.fill = "library" /\ t.struct \in Uncaughts
        BY <3>3, <2>2, <2>3, <1>2 DEF Sides
      <4>2. U \in Uncaughts
        BY <4>1, <1>1, <2>h DEF HowGoes
      <4>3. U = "otel_bsp_options"
        BY <4>1, <4>2, <3>3, <2>2
      <4> QED BY <4>3, <1>1, <1>2, OuterFacts
    <3> QED BY <3>2, <3>3, <2>1, <2>7
  <2> QED BY <2>4, <2>5, <2>6, <2>7 DEF HowFits, p
<1>10. ASSUME NEW j \in DOMAIN order PROVE TaskFits(part(j))
  <2> DEFINE e == order[j] p == part(j)
  <2>1. /\ p.entry = e /\ p.struct = U /\ p.at = q /\ p.catches = caught
        /\ p.next = IF e.part = "elements" THEN 1 ELSE 0
        /\ e \in Entries(E.fill, U) /\ e.part \in {"all", "array", "elements"}
    BY <1>8 DEF EntryTypes
  <2> HIDE DEF p, e, q
  <2>2. HowFits(p)
    BY <1>9 DEF p
  <2>h. HowGoes(E.fill, t.struct, t.entry)
    BY <1>2, HowAssumption, Zenon
  <2>3. /\ p.entry.part = "all" /\ p.next > 0 => What(p).kind = "array"
        /\ p.entry.part = "array" => p.next = 0
        /\ p.entry.part = "elements" => p.next > 0
    BY <2>1
  <2>4. Structs(p.catches) /\ (E.catches /= <<>> => HasRoot(p.catches))
    BY <2>1, <1>7 DEF TaskFits
  <2>5. E.catches = <<>> /\ E.fill = "library" => p.struct \in Uncaughts
    BY <2>1, <1>1, <2>h DEF TaskFits, HowGoes
  <2>6. E.parses => p.struct \in Decoded
    <3>1. E.parses => E.fill = "library"
      BY EntryAssumption DEF E
    <3> QED BY <3>1, <2>1, <1>1, <2>h DEF TaskFits, HowGoes
  <2>7. E.fill = "R" /\ p.struct \in Borrowers \ {"otel_links"} =>
          shape.kind \in {"k_boolean_array", "k_double_array"}
    <3> SUFFICES ASSUME E.fill = "R", U \in Borrowers \ {"otel_links"}
                 PROVE  shape.kind \in {"k_boolean_array", "k_double_array"}
      BY <2>1
    <3>1. /\ MemberOf(t.struct, t.entry.name).of = "by type"
          /\ \A k \in Kinds : ValueOf[k] = U => k \in {"k_boolean_array", "k_double_array"}
      BY <1>1, <2>h DEF HowGoes
    <3>2. U = ValueOf[shape.kind] /\ shape.kind \in Kinds
      BY <3>1 DEF TypeOf, What, IsShape
    <3> QED BY <3>1, <3>2
  <2> QED BY <2>1, <2>2, <2>3, <2>4, <2>5, <2>6, <2>7, <1>1 DEF TaskFits, p
<1>11. order \in Seq(EntryTypes)
  BY <1>6
<1>12. [j \in DOMAIN order |-> part(j)] \in Seq(TaskTypes)
       /\ Len([j \in DOMAIN order |-> part(j)]) = Len(order)
  <2>1. \A j \in DOMAIN order : part(j) \in TaskTypes
    BY <1>8
  <2> HIDE DEF order
  <2>2. DOMAIN order = 1..Len(order) /\ Len(order) \in Nat
    BY <1>11
  <2> QED BY <2>1, <2>2
<1>13. DOMAIN order = 1..Len(order)
  BY <1>11
<1> DEFINE parts == [j \in DOMAIN order |-> part(j)]
<1>14. \A j \in DOMAIN order : parts[j] = part(j)
  OBVIOUS
<1>15. parts = Parts(t, q, E.fill, shape) /\ parts \in Seq(TaskTypes)
       /\ Len(parts) = Len(order)
  BY <1>5, <1>12
<1> HIDE DEF parts, order, part, U, q
<1>16. ASSUME NEW j \in 1..Len(parts)
       PROVE  /\ parts[j].entry = order[j] /\ parts[j].struct = U /\ parts[j].at = q
              /\ parts[j].next = IF parts[j].entry.part = "elements" THEN 1 ELSE 0
              /\ TaskFits(parts[j])
  <2>1. j \in DOMAIN order
    BY <1>13, <1>15
  <2>2. /\ part(j).entry = order[j] /\ part(j).struct = U /\ part(j).at = q
        /\ part(j).next = (IF part(j).entry.part = "elements" THEN 1 ELSE 0)
        /\ TaskFits(part(j))
    BY <2>1, <1>8, <1>10
  <2> QED BY <2>1, <2>2, <1>14, Zenon
<1> QED BY <1>15, <1>16 DEF order, U, q

-----------------------------------------------------------------------------
(* The call and its data stay what they are.                               *)

\* While the entry point and the data stay, so does all that follows from them.
LEMMA DataStays ==
  ASSUME op' = op, shape' = shape
  PROVE  /\ E' = E
         /\ \A p, T : Path(p, T)' <=> Path(p, T)
         /\ \A c : (Cell(c)' <=> Cell(c)) /\ (InBounds(c)' <=> InBounds(c))
         /\ \A c : (Followed(c)' <=> Followed(c)) /\ (Ignored(c)' <=> Ignored(c))
         /\ \A cs : (HasRoot(cs)' <=> HasRoot(cs)) /\ (Structs(cs)' <=> Structs(cs))
         /\ \A t : TaskFits(t)' <=> TaskFits(t)
<1>1. E' = E /\ (\A T : Handled(T)' <=> Handled(T))
  BY EntryStays
<1>2. \A s, U : Leads(s, U)' <=> Leads(s, U)
  BY DEF Leads
<1>3. \A p, T : Path(p, T)' <=> Path(p, T)
  BY <1>1, <1>2 DEF Path
<1>4. \A c : (Cell(c)' <=> Cell(c)) /\ (InBounds(c)' <=> InBounds(c))
  <2>1. \A c : Cell(c)' <=> Cell(c)
    BY <1>1, <1>2 DEF Cell
  <2>2. \A c : InBounds(c)' <=> InBounds(c)
    BY DEF InBounds
  <2> QED BY <2>1, <2>2
<1>5. \A c : (Followed(c)' <=> Followed(c)) /\ (Ignored(c)' <=> Ignored(c))
  <2>1. \A c : Followed(c)' <=> Followed(c)
    BY <1>1 DEF Followed
  <2>2. \A c : Ignored(c)' <=> Ignored(c)
    BY <1>1 DEF Ignored
  <2> QED BY <2>1, <2>2
<1>6. \A cs : (HasRoot(cs)' <=> HasRoot(cs)) /\ (Structs(cs)' <=> Structs(cs))
  BY <1>1, <1>3 DEF HasRoot, Structs
<1>7. ASSUME NEW t PROVE TaskFits(t)' <=> TaskFits(t)
  <2>1. HowFits(t)' <=> HowFits(t)
    BY <1>1 DEF HowFits
  <2> QED BY <1>1, <1>3, <1>4, <1>5, <1>6, <2>1 DEF TaskFits
<1> QED BY <1>1, <1>3, <1>4, <1>5, <1>6, <1>7

\* Step k of a place.
StepFits(c, k) ==
  /\ c \in Seq(Step) /\ c[k] \in Step /\ IsMember(c[k])
  /\ c[k] = [struct |-> c[k].struct, member |-> c[k].member, index |-> c[k].index]
  /\ c[k].struct \in STRING /\ c[k].member \in STRING /\ c[k].index \in Int
  /\ c[k].index > 0 => k < Len(c) /\ Kind(c[k].struct, c[k].member) = "array"
  /\ k < Len(c) =>
       /\ c[k].index >= 0
       /\ IF c[k].index = 0 THEN Kind(c[k].struct, c[k].member) = "struct"
                            ELSE Kind(c[k].struct, c[k].member) = "array"
       /\ c[k + 1].struct = TypeOf(MemberOf(c[k].struct, c[k].member), shape)
       /\ c[k + 1].struct \in Inner(c[k].struct, c[k].member)
  /\ k = Len(c) =>
       \/ c[k].index = 0 /\ Kind(c[k].struct, c[k].member) /= "struct"
       \/ c[k].index = -1 /\ Kind(c[k].struct, c[k].member) = "array"

\* Each step of a place goes through a member of a struct that is there.
LEMMA CellSteps ==
  ASSUME NEW c, Cell(c), IsShape(shape), NEW k \in 1..Len(c)
  PROVE  StepFits(c, k)
<1>1. c \in Seq(Step) /\ c /= <<>>
  BY DEF Cell
<1>2. c[k] \in Step
  BY <1>1
<1>3. /\ c[k] = [struct |-> c[k].struct, member |-> c[k].member, index |-> c[k].index]
      /\ c[k].struct \in STRING /\ c[k].member \in STRING /\ c[k].index \in Int
  BY <1>2 DEF Step
<1>4. CASE k = Len(c)
  <2>1. /\ IsMember(c[k])
        /\ \/ c[k].index = 0 /\ Kind(c[k].struct, c[k].member) /= "struct"
           \/ c[k].index = -1 /\ Kind(c[k].struct, c[k].member) = "array"
    BY <1>4 DEF Cell
  <2> QED BY <2>1, <1>1, <1>2, <1>3, <1>4 DEF StepFits
<1>5. CASE k < Len(c)
  <2>1. k \in 1..(Len(c) - 1)
    BY <1>5, <1>1
  <2>2. Leads(c[k], c[k + 1].struct)
    BY <2>1 DEF Cell
  <2>3. /\ IsMember(c[k])
        /\ c[k + 1].struct = TypeOf(MemberOf(c[k].struct, c[k].member), shape)
        /\ \/ c[k].index = 0 /\ Kind(c[k].struct, c[k].member) = "struct"
           \/ c[k].index >= 1 /\ Kind(c[k].struct, c[k].member) = "array"
    BY <2>2 DEF Leads
  <2>4. c[k + 1].struct \in Inner(c[k].struct, c[k].member)
    BY <2>3, TypeOfInner
  <2> QED BY <2>3, <2>4, <1>1, <1>2, <1>3, <1>5 DEF StepFits
<1> QED BY <1>1, <1>4, <1>5

\* What is allocated of a member that is not filled yet.
LEMMA ClosedZone ==
  ASSUME NEW t \in TaskTypes, NEW c, Cell(c), IsShape(shape), InZone(c, t),
         \/ What(t).kind \in {"plain", "block"}
         \/ What(t).kind = "array" /\ c[Len(t.at) + 1].index <= 0
  PROVE  c = Place(t) \/ (What(t).kind = "array" /\ c = CountPlace(t))
<1> DEFINE n == Len(t.at) + 1
<1>1. t.at \in Seq(Step) /\ c \in Seq(Step)
  BY TaskTyped DEF Cell
<1>2. /\ Len(t.at) < Len(c) /\ \A k \in 1..Len(t.at) : c[k] = t.at[k]
      /\ c[n].struct = t.struct /\ c[n].member = t.entry.name
  BY DEF InZone
<1>3. n \in 1..Len(c)
  BY <1>1, <1>2
<1>4. Kind(c[n].struct, c[n].member) = What(t).kind
  BY <1>2 DEF Kind, What
<1> HIDE DEF n
<1>s. StepFits(c, n)
  BY <1>3, CellSteps, Zenon
<1>5. n = Len(c) /\ c[n].index \in {0, -1} /\ (c[n].index = -1 => What(t).kind = "array")
  <2>1. n < Len(c) \/ n = Len(c)
    BY <1>1, <1>3
  <2> QED BY <2>1, <1>3, <1>4, <1>s DEF n, StepFits
<1>6. c[n] = [struct |-> t.struct, member |-> t.entry.name, index |-> c[n].index]
  BY <1>2, <1>s DEF StepFits, n
<1>7. /\ Longer(Place(t), t.at, t.struct, t.entry.name, 0)
      /\ Longer(CountPlace(t), t.at, t.struct, t.entry.name, -1)
  BY TaskPlaces
<1>8. ASSUME NEW q, Longer(q, t.at, t.struct, t.entry.name, c[n].index)
      PROVE  c = q
  <2>1. q \in Seq(Step) /\ Len(q) = Len(c) /\ q[n] = c[n] /\ \A k \in 1..Len(t.at) : q[k] = c[k]
    BY <1>1, <1>2, <1>5, <1>6, <1>8 DEF Longer, n
  <2>2. \A k \in 1..Len(c) : c[k] = q[k]
    BY <2>1, <1>1, <1>5 DEF n
  <2> QED BY <2>1, <2>2, <1>1, SeqsEqual
<1> QED BY <1>5, <1>7, <1>8

\* What the invariant says of the variables, in the form the proofs need.
LEMMA CallFacts ==
  ASSUME IInv
  PROVE  /\ op \in DOMAIN Entry /\ IsShape(shape)
         /\ todo \in Seq(TaskTypes) /\ DOMAIN todo = 1..Len(todo) /\ Len(todo) \in Nat
         /\ \A i \in DOMAIN todo : todo[i] \in TaskTypes
         /\ catches \in Seq(STRING \X Seq(Step))
         /\ \A c \in DOMAIN mem : Cell(c) /\ InBounds(c) /\ c \in Seq(Step)
<1>1. op \in DOMAIN Entry /\ IsShape(shape) /\ todo \in Seq(TaskTypes)
      /\ catches \in Seq(STRING \X Seq(Step))
  BY DEF IInv, Typed
<1>2. \A c \in DOMAIN mem : Cell(c) /\ InBounds(c) /\ c \in Seq(Step)
  BY DEF IInv, CellsFit, Cell
<1> HIDE DEF IInv
<1>3. /\ DOMAIN todo = 1..Len(todo) /\ Len(todo) \in Nat
      /\ \A i \in DOMAIN todo : todo[i] \in TaskTypes
  BY <1>1
<1> QED BY <1>1, <1>2, <1>3

\* While there is something left to fill.
LEMMA TopFacts ==
  ASSUME IInv, phase = "filling", todo /= <<>>
  PROVE  /\ Top = todo[1] /\ Top \in TaskTypes /\ TaskFits(Top) /\ 1 \in DOMAIN todo
         /\ Tail(todo) \in Seq(TaskTypes) /\ Len(Tail(todo)) = Len(todo) - 1
         /\ \A i \in 1..(Len(todo) - 1) : Tail(todo)[i] = todo[i + 1]
         /\ Len(todo) >= 1 /\ TodoFits
<1>1. todo \in Seq(TaskTypes) /\ TodoFits
  BY DEF IInv, Typed
<1>2. /\ Top = todo[1] /\ 1 \in DOMAIN todo /\ todo[1] \in TaskTypes
      /\ Tail(todo) \in Seq(TaskTypes) /\ Len(Tail(todo)) = Len(todo) - 1
      /\ \A i \in 1..(Len(todo) - 1) : Tail(todo)[i] = todo[i + 1]
      /\ Len(todo) >= 1
  BY <1>1 DEF Top
<1>3. TaskFits(todo[1])
  BY <1>1, <1>2 DEF TodoFits
<1> QED BY <1>1, <1>2, <1>3

-----------------------------------------------------------------------------
(* The next tasks are done, or left.                                       *)

\* What is left to fill stays in order when its first n tasks are done, if all
\* they leave unwritten is ignored by the reader.
LEMMA PopFits ==
  ASSUME IInv, phase = "filling", op' = op, shape' = shape, phase' = "filling",
         NEW n \in 1..Len(todo), todo' \in Seq(TaskTypes), Len(todo') = Len(todo) - n,
         \A i \in 1..(Len(todo) - n) : todo'[i] = todo[i + n],
         DOMAIN mem' = DOMAIN mem,
         \A c \in DOMAIN mem : mem'[c] = "garbage" =>
           /\ mem[c] = "garbage"
           /\ \A i \in 1..n : InZone(c, todo[i]) => Ignored(c)
  PROVE  TodoFits'
<1>1. TodoFits
  BY DEF IInv
<1>2. DOMAIN todo = 1..Len(todo) /\ DOMAIN todo' = 1..(Len(todo) - n) /\ Len(todo) \in Nat
  BY CallFacts
<1>3. \A i \in DOMAIN todo' : i + n \in DOMAIN todo /\ todo'[i] = todo[i + n]
  BY <1>2
<1>4. \A i \in DOMAIN todo : i \in 1..n \/ (i - n \in DOMAIN todo' /\ todo'[i - n] = todo[i])
  BY <1>2
<1>5. \A i \in DOMAIN todo' : TaskFits(todo[i])'
  <2>1. \A t : TaskFits(t)' <=> TaskFits(t)
    BY DataStays
  <2> QED BY <2>1, <1>1, <1>3 DEF TodoFits
<1>6. AllApart'
  <2> SUFFICES ASSUME NEW i \in DOMAIN todo', NEW j \in DOMAIN todo', i < j
               PROVE  Partners(todo'[i], todo'[j]) \/ Apart(todo'[i], todo'[j])
    BY DEF AllApart
  <2>1. /\ i + n \in DOMAIN todo /\ todo'[i] = todo[i + n]
        /\ j + n \in DOMAIN todo /\ todo'[j] = todo[j + n]
        /\ i + n < j + n
    BY <1>2, <1>3
  <2> QED BY <2>1, <1>1 DEF TodoFits, AllApart
<1>7. Promised'
  <2> SUFFICES ASSUME NEW i \in DOMAIN todo', todo'[i].entry.part = "array"
               PROVE  \E j \in DOMAIN todo' : i < j /\ Partners(todo'[i], todo'[j])
    BY DEF Promised
  <2>1. i + n \in DOMAIN todo /\ todo[i + n].entry.part = "array"
    BY <1>3
  <2>2. PICK j \in DOMAIN todo : i + n < j /\ Partners(todo[i + n], todo[j])
    BY <2>1, <1>1 DEF TodoFits, Promised
  <2>3. j - n \in DOMAIN todo' /\ i < j - n /\ todo'[j - n] = todo[j]
    BY <2>2, <1>2, <1>4
  <2> QED BY <2>2, <2>3, <1>3
<1>8. Unopened'
  BY <1>1, <1>3 DEF TodoFits, Unopened
<1>9. CleanStays'
  BY <1>1, <1>3 DEF TodoFits, CleanStays
<1>10. Covered'
  <2> SUFFICES ASSUME NEW c \in DOMAIN mem, mem'[c] = "garbage", ~Ignored(c)
               PROVE  \E i \in DOMAIN todo' : InZone(c, todo'[i])
    BY DataStays DEF Covered
  <2>1. PICK i \in DOMAIN todo : InZone(c, todo[i])
    BY <1>1 DEF TodoFits, Covered
  <2>2. i \notin 1..n
    BY <2>1
  <2> QED BY <2>1, <2>2, <1>4
<1> QED BY <1>5, <1>6, <1>7, <1>8, <1>9, <1>10 DEF TodoFits

-----------------------------------------------------------------------------
(* A pointer or a number is written.                                       *)

\* The places that hang on elements are left alone by a write to a member
\* whose elements are not there.
LEMMA HeldStays ==
  ASSUME IInv, NEW t \in TaskTypes, t.next = 0,
         \A c \in DOMAIN mem : InZone(c, t) => c[Len(t.at) + 1].index <= 0,
         DOMAIN mem \subseteq DOMAIN mem',
         \A c \in DOMAIN mem : c \notin {Place(t), CountPlace(t)} => mem'[c] = mem[c],
         NEW c \in DOMAIN mem, Held(c)
  PROVE  Held(c)'
<1> SUFFICES ASSUME NEW k \in 1..Len(c), c[k].index > 0 PROVE HeldAt(c, k)'
  BY DEF Held
<1>1. HeldAt(c, k) /\ c \in Seq(Step) /\ t.at \in Seq(Step)
  BY CallFacts, TaskTyped DEF Held
<1>2. /\ Longer(Place(t), t.at, t.struct, t.entry.name, 0)
      /\ Longer(CountPlace(t), t.at, t.struct, t.entry.name, -1)
  BY TaskPlaces
<1> DEFINE p == PointerOf(c, k) q == CountOf(c, k)
<1>3. /\ p \in Seq(Step) /\ q \in Seq(Step) /\ Len(p) = k /\ Len(q) = k
      /\ \A j \in 1..(k - 1) : p[j] = c[j] /\ q[j] = c[j]
      /\ p[k] = [struct |-> c[k].struct, member |-> c[k].member, index |-> 0]
      /\ q[k] = [struct |-> c[k].struct, member |-> c[k].member, index |-> -1]
  BY <1>1, HangsOn
<1>4. p[k].struct = c[k].struct /\ p[k].member = c[k].member /\ p[k].index = 0
      /\ q[k].struct = c[k].struct /\ q[k].member = c[k].member /\ q[k].index = -1
  BY <1>3
<1> HIDE DEF p, q
<1>5. ASSUME NEW r \in {Place(t), CountPlace(t)} PROVE r /= p /\ r /= q
  <2>1. r \in Seq(Step) /\ Len(r) = Len(t.at) + 1 /\ \A j \in 1..Len(t.at) : r[j] = t.at[j]
    BY <1>2 DEF Longer
  <2>2. r[Len(t.at) + 1].struct = t.struct /\ r[Len(t.at) + 1].member = t.entry.name
    BY <1>2 DEF Longer
  <2>3. ASSUME NEW x \in {p, q}, r = x PROVE FALSE
    <3>1. k = Len(t.at) + 1
      BY <2>1, <2>3, <1>1, <1>3
    <3>2. \A j \in 1..Len(t.at) : c[j] = t.at[j]
      <4>1. \A j \in 1..(k - 1) : x[j] = c[j]
        BY <1>3
      <4>2. k - 1 = Len(t.at)
        BY <3>1, <1>1, <2>1
      <4> QED BY <4>1, <4>2, <2>1, <2>3
    <3>3. c[Len(t.at) + 1].struct = t.struct /\ c[Len(t.at) + 1].member = t.entry.name
      BY <3>1, <2>2, <2>3, <1>4
    <3>4. InZone(c, t)
      BY <3>1, <3>2, <3>3, <1>1 DEF InZone
    <3>5. c[k] \in Step
      BY <1>1
    <3>6. c[k].index \in Int
      BY <3>5 DEF Step
    <3> QED BY <3>1, <3>4, <3>6
  <2> QED BY <2>3
<1>6. /\ p \in DOMAIN mem /\ q \in DOMAIN mem
      /\ mem'[p] = mem[p] /\ mem'[q] = mem[q]
  BY <1>1, <1>5 DEF HeldAt, p, q
<1> QED BY <1>1, <1>6 DEF HeldAt, p, q

\* The place of the next task, when nothing is allocated below it.
LEMMA TopClosed ==
  ASSUME IInv, phase = "filling", todo /= <<>>,
         \/ What(Top).kind \in {"plain", "block"}
         \/ What(Top).kind = "array" /\ Top.next = 0
  PROVE  /\ Top.next = 0
         /\ \A c \in DOMAIN mem : InZone(c, Top) =>
              /\ c[Len(Top.at) + 1].index <= 0
              /\ c = Place(Top) \/ (What(Top).kind = "array" /\ c = CountPlace(Top))
<1>1. /\ Top = todo[1] /\ Top \in TaskTypes /\ TaskFits(Top) /\ 1 \in DOMAIN todo
      /\ TodoFits /\ IsShape(shape) /\ op \in DOMAIN Entry
      /\ \A c \in DOMAIN mem : Cell(c) /\ c \in Seq(Step)
  BY TopFacts, CallFacts
<1>2. Top.next = 0
  <2>1. CASE What(Top).kind \in {"plain", "block"}
    <3>1. /\ Top.entry.part = "all" /\ Top.next > 0 => What(Top).kind = "array"
          /\ Top.entry.part = "array" => Top.next = 0
      BY <1>1 DEF TaskFits
    <3>2. Top.entry.part \in {"all", "array", "elements"} /\ Top.next \in Nat
      BY <1>1, TaskTyped
    <3>3. Top.entry.part /= "all" => What(Top).kind = "array"
      BY <1>1, TaskFacts, FillAssumption
    <3> QED BY <3>1, <3>2, <3>3, <2>1
  <2> QED BY <2>1
<1> HIDE DEF Top
<1>3. ASSUME NEW c \in DOMAIN mem, InZone(c, Top)
      PROVE  c[Len(Top.at) + 1].index <= 0
  <2>1. CASE What(Top).kind = "array"
    BY <1>1, <1>2, <1>3 DEF TodoFits, Unopened
  <2>2. CASE What(Top).kind \in {"plain", "block"}
    <3> DEFINE n == Len(Top.at) + 1
    <3>1. n \in 1..Len(c) /\ c[n].struct = Top.struct /\ c[n].member = Top.entry.name
      BY <1>1, <1>3, TaskTyped DEF InZone
    <3>2. StepFits(c, n)
      BY <3>1, <1>1, CellSteps, Zenon
    <3> HIDE DEF n
    <3>3. Kind(c[n].struct, c[n].member) = What(Top).kind
      BY <3>1 DEF Kind, What
    <3>4. c[n].index <= 0
      BY <2>2, <3>2, <3>3 DEF StepFits
    <3> QED BY <3>4 DEF n
  <2> QED BY <2>1, <2>2
<1>4. ASSUME NEW c \in DOMAIN mem, InZone(c, Top)
      PROVE  c = Place(Top) \/ (What(Top).kind = "array" /\ c = CountPlace(Top))
  BY <1>1, <1>3, <1>4, ClosedZone
<1> QED BY <1>2, <1>3, <1>4

\* The pointer or number of a member, and the count of an array.
LEMMA PlaceFacts ==
  ASSUME NEW t \in TaskTypes, TaskFits(t), IsShape(shape), op \in DOMAIN Entry
  PROVE  /\ Place(t)[Len(Place(t))].struct = t.struct
         /\ IsNumber(Place(t)) <=> What(t).kind = "plain"
         /\ Followed(Place(t))
         /\ CountPlace(t)[Len(CountPlace(t))].struct = t.struct
         /\ CountPlace(t)[Len(CountPlace(t))].index = -1 /\ IsNumber(CountPlace(t))
         /\ Place(t)[Len(Place(t))].index = 0
         /\ CountPlace(t) = CountOf(Place(t), Len(Place(t)))
         /\ Kind(Place(t)[Len(Place(t))].struct, Place(t)[Len(Place(t))].member) = What(t).kind
         /\ t.next = 0 => InZone(Place(t), t) /\ InZone(CountPlace(t), t)
         /\ Len(Place(t)) = Len(t.at) + 1 /\ Place(t) \in Seq(Step)
<1> DEFINE p == Place(t) q == CountPlace(t)
<1>1. /\ Longer(p, t.at, t.struct, t.entry.name, 0)
      /\ Longer(q, t.at, t.struct, t.entry.name, -1)
  BY TaskPlaces
<1>2. t.at \in Seq(Step) /\ t.next \in Nat /\ What(t).kind = Kind(t.struct, t.entry.name)
  BY TaskFacts, TaskTyped
<1>3. q = Element(t.at, t.struct, t.entry.name, -1)
  BY DEF CountPlace, Count
<1> HIDE DEF p, q
<1>4. /\ p \in Seq(Step) /\ Len(p) = Len(t.at) + 1 /\ p[Len(p)].struct = t.struct
      /\ p[Len(p)].member = t.entry.name /\ p[Len(p)].index = 0
      /\ q \in Seq(Step) /\ Len(q) = Len(t.at) + 1 /\ q[Len(q)].struct = t.struct
      /\ q[Len(q)].member = t.entry.name /\ q[Len(q)].index = -1
  BY <1>1 DEF Longer
<1>5. Followed(p)
  <2> SUFFICES ASSUME NEW k \in 1..Len(p)
               PROVE  /\ p[k].struct \in DOMAIN FillOrder[E.fill] /\ Handled(p[k].struct)
                      /\ \E e \in Entries(E.fill, p[k].struct) : e.name = p[k].member
    BY DEF Followed
  <2>1. CASE k = Len(p)
    BY <2>1, <1>4 DEF TaskFits
  <2>2. CASE k /= Len(p)
    <3>1. k \in 1..Len(t.at) /\ p[k] = t.at[k]
      BY <2>2, <1>1, <1>2, <1>4 DEF Longer
    <3> QED BY <3>1 DEF TaskFits, Followed
  <2> QED BY <2>1, <2>2
<1>6. IsNumber(p) <=> What(t).kind = "plain"
  BY <1>2, <1>4 DEF IsNumber, Last, Kind
<1>7. IsNumber(q)
  BY <1>4 DEF IsNumber, Last
<1>8. CountOf(p, Len(p)) = q
  <2>1. SubSeq(p, 1, Len(p) - 1) = t.at
    <3>1. SubSeq(p, 1, Len(t.at)) = t.at
      BY <1>1, <1>2, WholeSubSeq DEF Longer
    <3>2. Len(p) - 1 = Len(t.at)
      BY <1>2, <1>4
    <3> QED BY <3>1, <3>2
  <2> QED BY <2>1, <1>3, <1>4 DEF CountOf, Count
<1>9. t.next = 0 => InZone(p, t) /\ InZone(q, t)
  BY <1>1, <1>2, <1>4 DEF InZone, Longer
<1>10. Kind(p[Len(p)].struct, p[Len(p)].member) = What(t).kind
  BY <1>2, <1>4
<1> QED BY <1>4, <1>5, <1>6, <1>7, <1>8, <1>9, <1>10 DEF p, q

\* What may be written for t.
Writes(c, t) ==
  \/ mem'[c] = "null"
  \/ c = Place(t) /\ What(t).kind = "plain" /\ mem'[c] = "set"
  \/ c = CountPlace(t) /\ t.struct /= "otel_strings" /\ mem'[c] = "set"
  \/ c = Place(t) /\ What(t).kind \in {"block", "array"} /\ mem'[c] = Ours(t.how)

\* Memory stays well typed when a task writes its own place, or new cells come
\* from malloc() or calloc().
LEMMA ValuesFit ==
  ASSUME IInv, op' = op, shape' = shape,
         NEW t \in TaskTypes, TaskFits(t),
         DOMAIN mem \subseteq DOMAIN mem',
         \A c \in DOMAIN mem : mem'[c] = mem[c] \/ Writes(c, t),
         \A c \in DOMAIN mem' \ DOMAIN mem :
           /\ Cell(c) /\ InBounds(c)
           /\ Kind(c[Len(c)].struct, c[Len(c)].member) = "array" =>
                CountOf(c, Len(c)) \in DOMAIN mem'
           /\ mem'[c] = "null" \/ (mem'[c] = "garbage" /\ ~E.parses)
  PROVE  CellsFit'
<1>0. CellsFit /\ op \in DOMAIN Entry /\ IsShape(shape)
  BY CallFacts DEF IInv
<1>1. /\ E' = E
      /\ \A c : (Cell(c)' <=> Cell(c)) /\ (InBounds(c)' <=> InBounds(c))
      /\ \A c : Followed(c)' <=> Followed(c)
  BY DataStays
<1>2. /\ Place(t)[Len(Place(t))].struct = t.struct
      /\ IsNumber(Place(t)) <=> What(t).kind = "plain"
      /\ Followed(Place(t))
      /\ CountPlace(t)[Len(CountPlace(t))].struct = t.struct
      /\ IsNumber(CountPlace(t)) /\ Place(t)[Len(Place(t))].index = 0
  BY <1>0, PlaceFacts
<1>3. /\ Ours(t.how) \in {"live", "borrowed"}
      /\ Ours(t.how) = "borrowed" =>
           /\ E.fill = "R" /\ t.struct \in Borrowers
           /\ t.struct = "otel_links" \/ shape.kind \in {"k_boolean_array", "k_double_array"}
  BY DEF Ours, TaskFits, HowFits
<1>4. \A c \in DOMAIN mem' : Cell(c)' /\ InBounds(c)'
  BY <1>0, <1>1 DEF CellsFit
<1>5. \A c \in DOMAIN mem' :
        Kind(c[Len(c)].struct, c[Len(c)].member) = "array" => CountOf(c, Len(c)) \in DOMAIN mem'
  BY <1>0 DEF CellsFit
<1>6. \A c \in DOMAIN mem' :
        mem'[c] \in IF IsNumber(c) THEN {"garbage", "null", "set"}
                    ELSE {"garbage", "null", "live", "borrowed"}
  <2> TAKE c \in DOMAIN mem'
  <2>1. CASE c \in DOMAIN mem
    <3>1. mem[c] \in IF IsNumber(c) THEN {"garbage", "null", "set"}
                     ELSE {"garbage", "null", "live", "borrowed"}
      BY <2>1, <1>0 DEF CellsFit
    <3> QED BY <3>1, <2>1, <1>2, <1>3 DEF Writes
  <2>2. CASE c \notin DOMAIN mem
    BY <2>2
  <2> QED BY <2>1, <2>2
<1>7. \A c \in DOMAIN mem' :
        c[Len(c)].struct = "otel_strings" /\ c[Len(c)].index = -1 => mem'[c] /= "set"
  <2> SUFFICES ASSUME NEW c \in DOMAIN mem', c[Len(c)].struct = "otel_strings",
                      c[Len(c)].index = -1, mem'[c] = "set"
               PROVE  FALSE
    OBVIOUS
  <2>1. c \in DOMAIN mem /\ mem[c] /= "set"
    BY <1>0 DEF CellsFit
  <2> QED BY <2>1, <1>2, <1>3 DEF Writes
<1>8. \A c \in DOMAIN mem' : mem'[c] = "borrowed" =>
        /\ E.fill = "R" /\ c[Len(c)].struct \in Borrowers
        /\ c[Len(c)].struct = "otel_links" \/ shape.kind \in {"k_boolean_array", "k_double_array"}
  <2> TAKE c \in DOMAIN mem'
  <2> SUFFICES ASSUME mem'[c] = "borrowed"
               PROVE  /\ E.fill = "R" /\ c[Len(c)].struct \in Borrowers
                      /\ \/ c[Len(c)].struct = "otel_links"
                         \/ shape.kind \in {"k_boolean_array", "k_double_array"}
    OBVIOUS
  <2>1. c \in DOMAIN mem
    OBVIOUS
  <2>2. CASE mem[c] = "borrowed"
    BY <2>1, <2>2, <1>0 DEF CellsFit
  <2>3. CASE mem[c] /= "borrowed"
    BY <2>1, <2>3, <1>2, <1>3 DEF Writes
  <2> QED BY <2>2, <2>3
<1>9. E.parses => \A c \in DOMAIN mem' : mem'[c] /= "garbage"
  BY <1>0, <1>3 DEF CellsFit, Writes
<1>10. \A c \in DOMAIN mem' : mem'[c] = "live" => Followed(c)
  BY <1>0, <1>2 DEF CellsFit, Live, Writes
<1> QED BY <1>1, <1>4, <1>5, <1>6, <1>7, <1>8, <1>9, <1>10 DEF CellsFit, Live

-----------------------------------------------------------------------------
(* Steps that leave the memory and the tasks alone.                        *)

\* What does not touch the memory leaves it in order.
LEMMA SameMemory ==
  ASSUME UNCHANGED <<op, shape, mem, todo, catches, met>>
  PROVE  /\ MetFits' <=> MetFits
         /\ CellsFit' <=> CellsFit
         /\ Live' = Live /\ UncountedHeaders' = UncountedHeaders
         /\ \A c : Held(c)' <=> Held(c)
         /\ TodoFits /\ phase' /= "called" => TodoFits'
<1>1. /\ E' = E
      /\ \A c : (Cell(c)' <=> Cell(c)) /\ (InBounds(c)' <=> InBounds(c))
      /\ \A c : (Followed(c)' <=> Followed(c)) /\ (Ignored(c)' <=> Ignored(c))
      /\ \A t : TaskFits(t)' <=> TaskFits(t)
  BY DataStays
<1>2. MetFits' <=> MetFits
  BY <1>1 DEF MetFits
<1>3. Live' = Live /\ UncountedHeaders' = UncountedHeaders
  BY <1>1 DEF Live, UncountedHeaders
<1>4. CellsFit' <=> CellsFit
  BY <1>1, <1>3 DEF CellsFit
<1>5. \A c : Held(c)' <=> Held(c)
  BY DEF Held, HeldAt
<1>6. ASSUME TodoFits, phase' /= "called" PROVE TodoFits'
  <2>1. AllApart' /\ Promised' /\ Unopened' /\ CleanStays' /\ Covered'
    BY <1>1, <1>6 DEF TodoFits, AllApart, Promised, Unopened, CleanStays, Covered
  <2> QED BY <2>1, <1>1, <1>6 DEF TodoFits
<1> QED BY <1>2, <1>3, <1>4, <1>5, <1>6

\* The steps that only go on to another phase.
LEMMA SameMemorySteps ==
  ASSUME IInv,
         \/ Malformed \/ Begin \/ NullWrite \/ AllCaught \/ FailUnchecked
         \/ FailThrowing \/ Read \/ ReadThrows \/ Keep
  PROVE  IInv'
<1>1. UNCHANGED <<op, shape, mem, todo, catches, met>>
  BY DEF Malformed, Begin, NullWrite, AllCaught, FailUnchecked, FailThrowing,
         Read, ReadThrows, Keep
<1>2. /\ MetFits' /\ CellsFit'
      /\ Live' = Live /\ UncountedHeaders' = UncountedHeaders
      /\ \A c : Held(c)' <=> Held(c)
      /\ TodoFits /\ phase' /= "called" => TodoFits'
  BY <1>1, SameMemory DEF IInv
<1>3. ASSUME phase' \in {"filling", "failed", "crashed", "wild", "jumped", "read", "kept"},
             phase' = "filling" => phase = "called",
             phase' = "read" => phase = "filling",
             phase' = "failed" => Live \subseteq UncountedHeaders
      PROVE  IInv'
  <2>1. Typed'
    BY <1>1, <1>3 DEF IInv, Typed
  <2>2. phase' = "filling" => TodoFits' /\ \A c \in DOMAIN mem' : Held(c)'
    BY <1>1, <1>2, <1>3 DEF IInv
  <2>3. phase' = "read" => \A c \in DOMAIN mem' : Held(c)'
    BY <1>1, <1>2, <1>3 DEF IInv
  <2>4. phase' = "failed" => (Live \subseteq UncountedHeaders)'
    BY <1>2, <1>3
  <2> QED BY <2>1, <2>2, <2>3, <2>4, <1>2, <1>3 DEF IInv
<1>4. CASE Malformed
  BY <1>3, <1>4 DEF Malformed, IInv, TodoFits
<1>5. CASE Begin
  BY <1>3, <1>5 DEF Begin
<1>6. CASE AllCaught
  <2>1. phase' = "failed" => Live \subseteq UncountedHeaders
    BY <1>6 DEF AllCaught, IInv, CatchesFit, HasRoot
  <2> QED BY <2>1, <1>3, <1>6 DEF AllCaught
<1>7. CASE NullWrite \/ FailUnchecked \/ FailThrowing \/ ReadThrows \/ Keep
  BY <1>3, <1>7 DEF NullWrite, FailUnchecked, FailThrowing, ReadThrows, Keep
<1>8. CASE Read
  BY <1>3, <1>8 DEF Read, IsFilled
<1> QED BY <1>4, <1>5, <1>6, <1>7, <1>8

-----------------------------------------------------------------------------
(* Steps that are done with a member.                                      *)

\* The steps that write one member and are done with it, or with n of them.
LEMMA PopStep ==
  ASSUME IInv, phase = "filling", todo /= <<>>,
         UNCHANGED <<op, shape, catches, phase, met>>,
         NEW n \in 1..Len(todo), todo' \in Seq(TaskTypes), Len(todo') = Len(todo) - n,
         \A i \in 1..(Len(todo) - n) : todo'[i] = todo[i + n],
         mem' = [c \in DOMAIN mem |-> mem'[c]],
         \/ mem' = mem
         \/ /\ \/ What(Top).kind \in {"plain", "block"}
               \/ What(Top).kind = "array" /\ Top.next = 0
            /\ \A c \in DOMAIN mem :
                 mem'[c] = mem[c] \/ (c \in {Place(Top), CountPlace(Top)} /\ Writes(c, Top)),
         \A c \in DOMAIN mem : mem'[c] = "garbage" =>
           \A i \in 1..n : InZone(c, todo[i]) => Ignored(c)
  PROVE  IInv'
<1>1. /\ Top \in TaskTypes /\ TaskFits(Top) /\ IsShape(shape) /\ op \in DOMAIN Entry
      /\ DOMAIN mem' = DOMAIN mem
  BY TopFacts, CallFacts
<1>2. \A c \in DOMAIN mem : mem'[c] = mem[c] \/ Writes(c, Top)
  OBVIOUS
<1>3. \A c \in DOMAIN mem : mem'[c] = "garbage" => mem[c] = "garbage"
  BY <1>2 DEF Writes, Ours
<1>4. CellsFit'
  BY <1>1, <1>2, ValuesFit
<1>5. TodoFits'
  BY <1>1, <1>3, PopFits
<1>6. \A c \in DOMAIN mem : Held(c)
  BY DEF IInv
<1>7. \A c \in DOMAIN mem' : Held(c)'
  <2>1. CASE mem' = mem
    BY <2>1, <1>6 DEF Held, HeldAt
  <2>2. CASE mem' /= mem
    <3>1. Top.next = 0 /\ \A c \in DOMAIN mem : InZone(c, Top) => c[Len(Top.at) + 1].index <= 0
      BY <2>2, TopClosed
    <3>2. \A c \in DOMAIN mem : c \notin {Place(Top), CountPlace(Top)} => mem'[c] = mem[c]
      OBVIOUS
    <3> HIDE DEF Top
    <3> QED BY <3>1, <3>2, <1>1, <1>6, HeldStays
  <2> QED BY <2>1, <2>2
<1>8. MetFits'
  <2>1. E' = E
    BY DataStays
  <2> QED BY <2>1 DEF IInv, MetFits
<1>9. Typed'
  BY <1>1 DEF IInv, Typed
<1> QED BY <1>4, <1>5, <1>7, <1>8, <1>9 DEF IInv

\* Clean memory stays clean until it is filled.
LEMMA TopClean ==
  ASSUME IInv, phase = "filling", todo /= <<>>, IsClean(Top),
         NEW c \in DOMAIN mem, InZone(c, Top)
  PROVE  mem[c] /= "garbage"
<1>1. TodoFits /\ 1 \in DOMAIN todo /\ Top = todo[1]
  BY TopFacts
<1> HIDE DEF Top
<1> QED BY <1>1 DEF TodoFits, CleanStays

\* What the tables say of the next task.
LEMMA TopTables ==
  ASSUME IInv, phase = "filling", todo /= <<>>
  PROVE  /\ HowGoes(E.fill, Top.struct, Top.entry) /\ CleanGoes(E.fill, Top.struct, Top.entry)
         /\ What(Top).kind = Kind(Top.struct, Top.entry.name)
         /\ What(Top).kind \in {"block", "plain", "struct", "array"}
         /\ What(Top).kind = "array" => Top.how = Top.entry.how
         /\ E.fill \in Sides
         /\ Top.entry.part = "all" \/ What(Top).kind = "array"
<1>1. Top \in TaskTypes /\ TaskFits(Top) /\ IsShape(shape) /\ op \in DOMAIN Entry
  BY TopFacts, CallFacts
<1>2. /\ E.fill \in Sides /\ Top.struct \in DOMAIN FillOrder[E.fill]
      /\ Top.entry \in Entries(E.fill, Top.struct)
      /\ Top.struct \in DOMAIN Layout
      /\ IsMember([struct |-> Top.struct, member |-> Top.entry.name, index |-> 0])
      /\ What(Top).kind = Kind(Top.struct, Top.entry.name)
      /\ What(Top).kind \in {"block", "plain", "struct", "array"}
  BY <1>1, TaskFacts
<1>3. HowGoes(E.fill, Top.struct, Top.entry) /\ CleanGoes(E.fill, Top.struct, Top.entry)
  BY <1>2, HowAssumption, CleanAssumption, Zenon
<1>4. Top.entry.part = "all" \/ What(Top).kind = "array"
  BY <1>2, FillAssumption
<1>5. ASSUME What(Top).kind = "array" PROVE Top.how = Top.entry.how
  <2>1. Top.struct /= "otel_string"
    <3>1. \A m \in Members(Top.struct) : MemberOf(Top.struct, m.name) = m
      BY <1>2, LayoutAssumption
    <3>2. \A m \in Members("otel_string") : m.kind = "block"
      BY LayoutAssumption
    <3>3. PICK m \in Members(Top.struct) : m.name = Top.entry.name
      BY <1>2 DEF IsMember
    <3> QED BY <3>1, <3>2, <3>3, <1>2, <1>5 DEF Kind
  <2> QED BY <2>1, <1>1 DEF TaskFits, HowFits
<1> QED BY <1>2, <1>3, <1>4, <1>5

\* The index of an array element is no larger than what was allocated.
LEMMA InBoundsOf ==
  ASSUME NEW t \in TaskTypes, NEW c \in Seq(Step), InBounds(c), InZone(c, t)
  PROVE  c[Len(t.at) + 1].index <= Allocated(t.struct, Items(t.at, shape))
<1>1. t.at \in Seq(Step)
  BY TaskTyped
<1>2. /\ Len(t.at) < Len(c) /\ \A k \in 1..Len(t.at) : c[k] = t.at[k]
      /\ c[Len(t.at) + 1].struct = t.struct
  BY DEF InZone
<1>3. SubSeq(c, 1, Len(t.at)) = t.at
  BY <1>1, <1>2, WholeSubSeq
<1>4. Len(t.at) + 1 \in 1..Len(c) /\ (Len(t.at) + 1) - 1 = Len(t.at)
  BY <1>1, <1>2
<1> QED BY <1>2, <1>3, <1>4 DEF InBounds

\* Top is done with.
LEMMA DoneStep ==
  ASSUME IInv, phase = "filling", todo /= <<>>, todo' = Tail(todo),
         UNCHANGED <<op, shape, catches, phase, met>>,
         mem' = [c \in DOMAIN mem |-> mem'[c]],
         \/ mem' = mem
         \/ /\ \/ What(Top).kind \in {"plain", "block"}
               \/ What(Top).kind = "array" /\ Top.next = 0
            /\ \A c \in DOMAIN mem :
                 mem'[c] = mem[c] \/ (c \in {Place(Top), CountPlace(Top)} /\ Writes(c, Top)),
         \A c \in DOMAIN mem : InZone(c, Top) => mem'[c] /= "garbage"
  PROVE  IInv'
<1>1. /\ Top = todo[1] /\ 1 \in 1..Len(todo) /\ todo' \in Seq(TaskTypes)
      /\ Len(todo') = Len(todo) - 1
      /\ \A i \in 1..(Len(todo) - 1) : todo'[i] = todo[i + 1]
  BY TopFacts, CallFacts
<1>2. \A c \in DOMAIN mem : mem'[c] = "garbage" =>
        \A i \in 1..1 : InZone(c, todo[i]) => Ignored(c)
  BY <1>1
<1> HIDE DEF Top
<1> QED BY <1>1, <1>2, PopStep

\* An option that is not given: its member is zeroed, for it is a Clean one.
LEMMA NotGivenStep ==
  ASSUME IInv, NotGiven
  PROVE  IInv'
<1>1. /\ phase = "filling" /\ todo /= <<>> /\ ~Given /\ mem' = mem /\ todo' = Tail(todo)
      /\ UNCHANGED <<op, shape, catches, phase, met>>
  BY DEF NotGiven, Done
<1>2. CleanGoes(E.fill, Top.struct, Top.entry) /\ What(Top).kind = Kind(Top.struct, Top.entry.name)
      /\ Top \in TaskTypes /\ TaskFits(Top)
  BY <1>1, TopFacts, TopTables
<1>3. IsClean(Top)
  <2>1. Top.entry.ifGiven
    BY <1>1 DEF Given
  <2>2. Top.entry.part = "all" /\ What(Top).kind = "struct" /\ Clean(Top.struct, Top.entry.name)
    BY <2>1, <1>2 DEF CleanGoes
  <2>3. Top.next = 0
    BY <2>2, <1>2, TaskTyped DEF TaskFits
  <2> QED BY <2>2, <2>3 DEF IsClean
<1>4. \A c \in DOMAIN mem : InZone(c, Top) => mem'[c] /= "garbage"
  BY <1>1, <1>3, TopClean
<1>5. mem' = [c \in DOMAIN mem |-> mem'[c]]
  BY <1>1 DEF IInv, Typed
<1> HIDE DEF Top
<1> QED BY <1>1, <1>4, <1>5, DoneStep

\* One write to a number, or a block.
LEMMA LeafStep ==
  ASSUME IInv, phase = "filling", todo /= <<>>, NEW v,
         \/ What(Top).kind = "plain" /\ v = "set"
         \/ What(Top).kind = "block" /\ v \in {Ours(Top.how), "null"},
         Done([mem EXCEPT ![Place(Top)] = v])
  PROVE  IInv'
<1>1. /\ mem' = [mem EXCEPT ![Place(Top)] = v] /\ todo' = Tail(todo)
      /\ UNCHANGED <<op, shape, catches, phase, met>>
  BY DEF Done
<1>2. \A c \in DOMAIN mem : mem'[c] = IF c = Place(Top) THEN v ELSE mem[c]
  BY <1>1
<1>3. mem' = [c \in DOMAIN mem |-> mem'[c]]
  BY <1>1
<1>4. \A c \in DOMAIN mem :
        mem'[c] = mem[c] \/ (c \in {Place(Top), CountPlace(Top)} /\ Writes(c, Top))
  BY <1>2 DEF Writes
<1>5. \A c \in DOMAIN mem : InZone(c, Top) => mem'[c] /= "garbage"
  <2>1. \A c \in DOMAIN mem : InZone(c, Top) => c = Place(Top)
    BY TopClosed
  <2> QED BY <2>1, <1>2 DEF Ours
<1> HIDE DEF Top
<1> QED BY <1>1, <1>3, <1>4, <1>5, DoneStep

\* An empty array of R is NULL and counted.
LEMMA FillEmptyStep ==
  ASSUME IInv, FillEmpty
  PROVE  IInv'
<1>1. /\ phase = "filling" /\ todo /= <<>> /\ What(Top).kind = "array" /\ Top.next = 0
      /\ E.fill = "R" /\ todo' = Tail(todo)
      /\ mem' = [mem EXCEPT ![Place(Top)] = "null", ![CountPlace(Top)] = "set"]
      /\ UNCHANGED <<op, shape, catches, phase, met>>
  BY DEF FillEmpty, ToAllocate, Filling, IsEmpty, Done
<1>2. \A c \in DOMAIN mem :
        mem'[c] = IF c = CountPlace(Top) THEN "set" ELSE IF c = Place(Top) THEN "null" ELSE mem[c]
  BY <1>1
<1>3. mem' = [c \in DOMAIN mem |-> mem'[c]]
  BY <1>1
<1>4. Top.struct /= "otel_strings"
  BY <1>1, TopTables DEF HowGoes
<1>5. \A c \in DOMAIN mem :
        mem'[c] = mem[c] \/ (c \in {Place(Top), CountPlace(Top)} /\ Writes(c, Top))
  BY <1>2, <1>4 DEF Writes
<1>6. \A c \in DOMAIN mem : InZone(c, Top) => mem'[c] /= "garbage"
  <2>1. \A c \in DOMAIN mem : InZone(c, Top) => c = Place(Top) \/ c = CountPlace(Top)
    BY <1>1, TopClosed
  <2> QED BY <2>1, <1>2
<1> HIDE DEF Top
<1> QED BY <1>1, <1>3, <1>5, <1>6, DoneStep

\* The pointer is NULL, nothing else is written.
LEMMA FailedWrites ==
  ASSUME IInv, phase = "filling", todo /= <<>>, CanFail, mem' = Failed
  PROVE  /\ mem' = [c \in DOMAIN mem |-> mem'[c]]
         /\ What(Top).kind = "block" \/ (What(Top).kind = "array" /\ Top.next = 0)
         /\ \A c \in DOMAIN mem : mem'[c] = IF c = Place(Top) THEN "null" ELSE mem[c]
         /\ \A c \in DOMAIN mem :
              mem'[c] = mem[c] \/ (c \in {Place(Top), CountPlace(Top)} /\ Writes(c, Top))
<1>1. mem' = [mem EXCEPT ![Place(Top)] = "null"]
  BY DEF Failed
<1>2. What(Top).kind = "block" \/ (What(Top).kind = "array" /\ Top.next = 0)
  BY DEF CanFail, ToAllocate, Filling
<1>3. mem' = [c \in DOMAIN mem |-> mem'[c]]
      /\ \A c \in DOMAIN mem : mem'[c] = IF c = Place(Top) THEN "null" ELSE mem[c]
  BY <1>1
<1> QED BY <1>2, <1>3 DEF Writes

\* A string that could not be allocated is NULL, and nobody minds.
LEMMA FailOptionalStep ==
  ASSUME IInv, FailOptional
  PROVE  IInv'
<1>1. /\ phase = "filling" /\ todo /= <<>> /\ CanFail /\ mem' = Failed /\ todo' = Tail(todo)
      /\ UNCHANGED <<op, shape, catches, phase, met>>
      /\ Top.how = "optional" \/ (Top.how = "unchecked" /\ Empty)
  BY DEF FailOptional, CanFail, ToAllocate, Filling, Done
<1>2. /\ mem' = [c \in DOMAIN mem |-> mem'[c]]
      /\ What(Top).kind = "block" \/ (What(Top).kind = "array" /\ Top.next = 0)
      /\ \A c \in DOMAIN mem : mem'[c] = IF c = Place(Top) THEN "null" ELSE mem[c]
      /\ \A c \in DOMAIN mem :
           mem'[c] = mem[c] \/ (c \in {Place(Top), CountPlace(Top)} /\ Writes(c, Top))
  BY <1>1, FailedWrites
<1>3. ASSUME NEW c \in DOMAIN mem, InZone(c, Top) PROVE mem'[c] /= "garbage"
  <2>1. CASE What(Top).kind = "block"
    <3>1. c = Place(Top)
      BY <2>1, <1>1, <1>3, TopClosed
    <3> QED BY <3>1, <1>2
  <2>2. CASE What(Top).kind = "array"
    <3>1. IsClean(Top)
      <4>1. /\ CleanGoes(E.fill, Top.struct, Top.entry) /\ Top.how = Top.entry.how
            /\ Kind(Top.struct, Top.entry.name) = "array" /\ E.fill \in Sides
        BY <1>1, <2>2, TopTables
      <4>2. Top.how = "unchecked" /\ Empty
        BY <4>1, <1>1 DEF CleanGoes
      <4>3. ~IsEmpty
        BY <1>1, <2>2 DEF CanFail, Filling
      <4>4. E.fill = "library"
        BY <4>1, <4>2, <4>3 DEF IsEmpty, Empty, Sides
      <4> QED BY <4>1, <4>2, <4>4, <1>2, <2>2 DEF CleanGoes, IsClean
    <3>2. mem[c] /= "garbage"
      BY <3>1, <1>1, <1>3, TopClean
    <3> QED BY <3>2, <1>2
  <2> QED BY <2>1, <2>2, <1>2
<1> HIDE DEF Top
<1> QED BY <1>1, <1>2, <1>3, DoneStep

\* An array without elements needs no filling.
LEMMA NoElementsStep ==
  ASSUME IInv, NoElements
  PROVE  IInv'
<1>1. /\ phase = "filling" /\ todo /= <<>> /\ Filled(Top.struct, Number) = 0 /\ Top.next = 1
      /\ mem' = mem /\ todo' = Tail(todo)
      /\ UNCHANGED <<op, shape, catches, phase, met>>
  BY DEF NoElements, Filling, Done
<1>2. Top \in TaskTypes /\ TaskFits(Top) /\ IsShape(shape)
      /\ \A c \in DOMAIN mem : Cell(c) /\ InBounds(c) /\ c \in Seq(Step)
  BY <1>1, TopFacts, CallFacts
<1>3. Allocated(Top.struct, Items(Top.at, shape)) = 0
  <2>1. Items(Top.at, shape) \in Nat
    BY <1>2, TaskTyped, ItemsAreNumbers
  <2>2. Number = Items(Top.at, shape)
    BY DEF Number
  <2> QED BY <2>1, <2>2, <1>1 DEF Filled, Allocated
<1> HIDE DEF Top
<1>4. ASSUME NEW c \in DOMAIN mem, InZone(c, Top) PROVE FALSE
  <2>1. c[Len(Top.at) + 1].index <= 0
    BY <1>2, <1>3, <1>4, InBoundsOf
  <2>2. c[Len(Top.at) + 1].index >= 1
    BY <1>1, <1>4 DEF InZone
  <2>3. Len(Top.at) + 1 \in 1..Len(c)
    BY <1>2, <1>4, TaskTyped DEF InZone
  <2>4. c[Len(Top.at) + 1].index \in Int
    BY <2>3, <1>2, CellSteps DEF StepFits
  <2> QED BY <2>1, <2>2, <2>4
<1>5. mem' = [c \in DOMAIN mem |-> mem'[c]]
  BY <1>1 DEF IInv, Typed
<1> QED BY <1>1, <1>4, <1>5, DoneStep

\* The rest of the headers is left out: nobody reads what is not counted.
LEMMA FailAbandoningStep ==
  ASSUME IInv, FailAbandoning
  PROVE  IInv'
<1>1. /\ phase = "filling" /\ todo /= <<>> /\ CanFail /\ mem' = Failed
      /\ UNCHANGED <<op, shape, catches, phase, met>>
  BY DEF FailAbandoning, CanFail, ToAllocate, Filling
<1>2. PICK n \in 1..Len(todo) : /\ \A i \in 1..n : todo[i].how = "abandoning"
                                /\ todo' = SubSeq(todo, n + 1, Len(todo))
  BY DEF FailAbandoning
<1>3. /\ mem' = [c \in DOMAIN mem |-> mem'[c]]
      /\ What(Top).kind = "block" \/ (What(Top).kind = "array" /\ Top.next = 0)
      /\ \A c \in DOMAIN mem : mem'[c] = IF c = Place(Top) THEN "null" ELSE mem[c]
      /\ \A c \in DOMAIN mem :
           mem'[c] = mem[c] \/ (c \in {Place(Top), CountPlace(Top)} /\ Writes(c, Top))
  BY <1>1, FailedWrites
<1>4. todo \in Seq(TaskTypes) /\ TodoFits /\ \A c \in DOMAIN mem : Cell(c) /\ c \in Seq(Step)
  BY <1>1, CallFacts, TopFacts
<1>5. /\ todo' \in Seq(TaskTypes) /\ Len(todo') = Len(todo) - n
      /\ \A i \in 1..(Len(todo) - n) : todo'[i] = todo[i + n]
  BY <1>2, <1>4
<1>6. ASSUME NEW c \in DOMAIN mem, mem'[c] = "garbage", NEW i \in 1..n, InZone(c, todo[i])
      PROVE  Ignored(c)
  <2> DEFINE t == todo[i]
  <2>1. i \in DOMAIN todo /\ t \in TaskTypes /\ t.how = "abandoning"
    BY <1>2, <1>4
  <2>2. TaskFits(t) /\ CleanStays
    BY <2>1, <1>4 DEF TodoFits
  <2>3. mem[c] = "garbage"
    BY <1>3, <1>6
  <2>4. ~IsClean(t)
    BY <2>1, <2>2, <2>3, <1>6 DEF CleanStays
  <2>5. InZone(c, t) /\ t.at \in Seq(Step) /\ t.next \in Nat
    BY <2>1, <1>6, TaskTyped
  <2> HIDE DEF t
  <2>6. CASE t.struct = "otel_strings"
    <3>1. t.next > 0
      BY <2>4, <2>5, <2>6 DEF IsClean, Clean, CleanTypes
    <3>2. Len(t.at) + 1 \in 1..Len(c) /\ c[Len(t.at) + 1].struct = "otel_strings"
          /\ c[Len(t.at) + 1].index >= t.next
      BY <3>1, <2>5, <2>6, <1>4 DEF InZone
    <3>3. c[Len(t.at) + 1].index \in Int
      BY <3>2, CallFacts, CellSteps DEF StepFits
    <3>4. c[Len(t.at) + 1].index > 0
      BY <3>1, <3>2, <3>3, <2>5
    <3> QED BY <3>2, <3>4 DEF Ignored
  <2>7. CASE t.struct /= "otel_strings"
    <3>1. /\ t.at /= <<>>
          /\ t.at[Len(t.at)].struct = "otel_strings" /\ t.at[Len(t.at)].index > 0
      BY <2>1, <2>2, <2>7 DEF TaskFits, HowFits
    <3>2. Len(t.at) \in 1..Len(c) /\ c[Len(t.at)] = t.at[Len(t.at)]
      BY <3>1, <2>5, <1>4 DEF InZone
    <3> QED BY <3>1, <3>2 DEF Ignored
  <2> QED BY <2>6, <2>7
<1> HIDE DEF Top
<1> QED BY <1>1, <1>3, <1>5, <1>6, PopStep

-----------------------------------------------------------------------------
(* The tasks that a struct consists of.                                    *)

\* parts are what a struct U at q consists of.
IsParts(parts, by, U, q) ==
  /\ parts \in Seq(TaskTypes) /\ Len(parts) = Len(FillOrder[by][U])
  /\ \A j \in 1..Len(parts) :
       /\ parts[j].entry = FillOrder[by][U][j] /\ parts[j].struct = U /\ parts[j].at = q
       /\ parts[j].next = IF parts[j].entry.part = "elements" THEN 1 ELSE 0

\* The parts of a struct are different places, and what is allocated first is
\* filled later (PartsAssumption).
LEMMA PartsApart ==
  ASSUME NEW by \in Sides, NEW U \in DOMAIN FillOrder[by], NEW q, NEW parts,
         IsParts(parts, by, U, q)
  PROVE  /\ \A i, j \in 1..Len(parts) :
              i < j => Partners(parts[i], parts[j]) \/ Apart(parts[i], parts[j])
         /\ \A i \in 1..Len(parts) : parts[i].entry.part = "array" =>
              \E j \in 1..Len(parts) : i < j /\ Partners(parts[i], parts[j])
<1> DEFINE order == FillOrder[by][U]
<1>1. /\ order \in Seq(Entries(by, U))
      /\ \A i, j \in DOMAIN order :
           i < j => order[i].name /= order[j].name
                    \/ (order[i].part = "array" /\ order[j].part = "elements")
  BY FillAssumption
<1>2. \A i \in DOMAIN order : order[i].part = "array" => Waits(by, U, i)
  BY PartsAssumption
<1> HIDE DEF order
<1>3. DOMAIN order = 1..Len(parts)
  BY <1>1 DEF IsParts, order
<1>4. \A j \in 1..Len(parts) :
        /\ parts[j] \in TaskTypes /\ parts[j].entry = order[j]
        /\ parts[j].struct = U /\ parts[j].at = q
        /\ parts[j].next = IF parts[j].entry.part = "elements" THEN 1 ELSE 0
  BY DEF IsParts, order
<1>5. ASSUME NEW i \in 1..Len(parts), NEW j \in 1..Len(parts), i < j
      PROVE  Partners(parts[i], parts[j]) \/ Apart(parts[i], parts[j])
  <2>1. CASE order[i].name /= order[j].name
    <3>1. \A c \in Seq(Step) : ~(InZone(c, parts[i]) /\ InZone(c, parts[j]))
      BY <2>1, <1>4 DEF InZone
    <3> QED BY <3>1, <1>4, ApartMeans
  <2>2. CASE order[i].name = order[j].name
    <3>1. order[i].part = "array" /\ order[j].part = "elements"
      BY <2>2, <1>1, <1>3, <1>5
    <3> QED BY <3>1, <2>2, <1>4 DEF Partners
  <2> QED BY <2>1, <2>2
<1>6. ASSUME NEW i \in 1..Len(parts), parts[i].entry.part = "array"
      PROVE  \E j \in 1..Len(parts) : i < j /\ Partners(parts[i], parts[j])
  <2>1. Waits(by, U, i)
    BY <1>2, <1>3, <1>4, <1>6
  <2>2. PICK j \in 1..Len(parts) : i < j /\ order[j].name = order[i].name
                                   /\ order[j].part = "elements"
    BY <2>1, <1>3 DEF Waits, order
  <2> QED BY <2>2, <1>4, <1>6 DEF Partners
<1> QED BY <1>5, <1>6

\* All that anybody reads of a struct is filled.
LEMMA PartsCover ==
  ASSUME op \in DOMAIN Entry, NEW U \in DOMAIN FillOrder[E.fill],
         NEW q \in Seq(Step), NEW parts, IsParts(parts, E.fill, U, q),
         NEW c \in Seq(Step), Len(q) < Len(c), \A k \in 1..Len(q) : c[k] = q[k],
         c[Len(q) + 1].struct = U
  PROVE  \/ Ignored(c)
         \/ \E j \in 1..Len(parts) : InZone(c, parts[j])
         \/ \E d \in Entries(E.fill, U) : Unallocated(E.fill, U, d)
<1> DEFINE s == c[Len(q) + 1] order == FillOrder[E.fill][U]
<1>1. Len(q) + 1 \in 1..Len(c)
  OBVIOUS
<1>2. order \in Seq(Entries(E.fill, U))
  <2>1. E.fill \in Sides
    BY EntryAssumption DEF E
  <2> QED BY <2>1, FillAssumption
<1>3. CASE \A e \in Entries(E.fill, U) : e.name /= s.member
  <2>1. U \notin DOMAIN ReadOrder[E.reads] \/ s.member \notin ToSet(ReadOrder[E.reads][U])
    BY <1>3, ReadAssumption DEF E
  <2> QED BY <2>1, <1>1 DEF Ignored
<1>4. ASSUME NEW d \in Entries(E.fill, U), d.name = s.member, d.part /= "elements"
      PROVE  \E j \in 1..Len(parts) : InZone(c, parts[j])
  <2>1. PICK j \in DOMAIN order : order[j] = d
    BY DEF Entries, ToSet
  <2>2. j \in 1..Len(parts)
    BY <1>2, <2>1 DEF IsParts
  <2>3. parts[j].entry = d /\ parts[j].struct = U /\ parts[j].at = q /\ parts[j].next = 0
    BY <2>1, <2>2, <1>4 DEF IsParts
  <2>4. InZone(c, parts[j])
    BY <2>3, <1>4 DEF InZone
  <2> QED BY <2>2, <2>4
<1>5. ASSUME NEW e \in Entries(E.fill, U), e.name = s.member,
             \A d \in Entries(E.fill, U) : d.name = s.member => d.part = "elements"
      PROVE  Unallocated(E.fill, U, e)
  BY <1>5 DEF Unallocated
<1> QED BY <1>3, <1>4, <1>5

\* All that s fills is filled by t.
Sub(s, t) == \A c \in Seq(Step) : InZone(c, s) => InZone(c, t)

\* A part of a task is apart from all that the task is apart from.
LEMMA SubApart ==
  ASSUME NEW s \in TaskTypes, NEW t \in TaskTypes, NEW u \in TaskTypes,
         Sub(s, t), Apart(t, u)
  PROVE  Apart(s, u)
BY ApartMeans DEF Sub

\* The parts of t.
LEMMA PartsOf ==
  ASSUME NEW t \in TaskTypes, TaskFits(t), IsShape(shape), op \in DOMAIN Entry,
         NEW i \in Int,
         \/ i = 0 /\ What(t).kind = "struct"
         \/ i >= 1 /\ What(t).kind = "array" /\ i <= Allocated(t.struct, Items(t.at, shape))
  PROVE  LET q == ElementPlace(t, i)
             U == TypeOf(What(t), shape)
             parts == Parts(t, q, E.fill, shape)
         IN /\ E.fill \in Sides /\ U \in DOMAIN FillOrder[E.fill]
            /\ U \in Inner(t.struct, t.entry.name)
            /\ IsParts(parts, E.fill, U, q)
            /\ \A j \in 1..Len(parts) : TaskFits(parts[j])
<1>1. E.fill \in Sides
  BY EntryAssumption DEF E
<1> QED BY <1>1, TaskGrows, PartsFit DEF IsParts

-----------------------------------------------------------------------------
(* The next task is replaced by others.                                    *)

\* Nothing is allocated yet below what t fills, and it is as clean as t needs it.
Shut(c, t) ==
  /\ t.next = 0 => c[Len(t.at) + 1].index <= 0
  /\ \A k \in (Len(t.at) + 2)..Len(c) : c[k].index <= 0
Ready(t, memory) ==
  \A c \in DOMAIN memory :
    InZone(c, t) => Shut(c, t) /\ (IsClean(t) => memory[c] /= "garbage")

\* What is where when front replaces the first of a list.
InFront(new, front, list) ==
  /\ new \in Seq(TaskTypes)
  /\ \A x \in DOMAIN new :
       \/ x \in 1..Len(front) /\ new[x] = front[x]
       \/ \E y \in 2..Len(list) : x = y + Len(front) - 1 /\ new[x] = list[y]
  /\ \A x \in 1..Len(front) : x \in DOMAIN new /\ new[x] = front[x]
  /\ \A y \in 2..Len(list) :
       y + Len(front) - 1 \in DOMAIN new /\ new[y + Len(front) - 1] = list[y]

\* Where the tasks are when others replace the first one.
LEMMA FrontOf ==
  \A front, list \in Seq(TaskTypes) :
    list /= <<>> => InFront(front \o Tail(list), front, list)
<1> SUFFICES ASSUME NEW front \in Seq(TaskTypes), NEW list \in Seq(TaskTypes), list /= <<>>,
                    NEW new, new = front \o Tail(list)
             PROVE  InFront(new, front, list)
  BY Zenon
<1> DEFINE rest == Tail(list)
<1>1. /\ rest \in Seq(TaskTypes) /\ Len(rest) = Len(list) - 1 /\ Len(list) \in Nat
      /\ \A y \in 1..(Len(list) - 1) : rest[y] = list[y + 1]
  OBVIOUS
<1>2. new = front \o rest
  OBVIOUS
<1> HIDE DEF rest
<1>3. /\ new \in Seq(TaskTypes) /\ Len(new) = Len(front) + Len(rest) /\ DOMAIN new = 1..Len(new)
      /\ Len(front) \in Nat
      /\ \A x \in 1..Len(new) :
           new[x] = IF x <= Len(front) THEN front[x] ELSE rest[x - Len(front)]
  BY <1>1, <1>2
<1>4. ASSUME NEW y \in 2..Len(list)
      PROVE  y + Len(front) - 1 \in DOMAIN new /\ new[y + Len(front) - 1] = list[y]
  <2> DEFINE x == y + Len(front) - 1
  <2>1. x \in 1..Len(new) /\ ~(x <= Len(front)) /\ x - Len(front) = y - 1
        /\ y - 1 \in 1..(Len(list) - 1) /\ (y - 1) + 1 = y
    BY <1>1, <1>3
  <2> HIDE DEF x
  <2>2. new[x] = rest[y - 1] /\ rest[y - 1] = list[y]
    BY <2>1, <1>1, <1>3
  <2> QED BY <2>1, <2>2, <1>3 DEF x
<1>5. ASSUME NEW x \in DOMAIN new
      PROVE  \/ x \in 1..Len(front) /\ new[x] = front[x]
             \/ \E y \in 2..Len(list) : x = y + Len(front) - 1 /\ new[x] = list[y]
  <2>1. CASE x <= Len(front)
    BY <2>1, <1>3
  <2>2. CASE x > Len(front)
    <3> DEFINE y == x - Len(front) + 1
    <3>1. y \in 2..Len(list) /\ x = y + Len(front) - 1
      BY <2>2, <1>1, <1>3
    <3> HIDE DEF y
    <3> QED BY <3>1, <1>4
  <2> QED BY <2>1, <2>2, <1>3
<1>6. ASSUME NEW x \in 1..Len(front)
      PROVE  x \in DOMAIN new /\ new[x] = front[x]
  BY <1>1, <1>3
<1> QED BY <1>3, <1>4, <1>5, <1>6 DEF InFront

\* What is left to fill stays in order when its first task is replaced by parts of
\* it that are apart from each other and cover it.
LEMMA ListFits ==
  ASSUME IInv, phase = "filling", todo /= <<>>,
         op' = op, shape' = shape, phase' = "filling",
         NEW front \in Seq(TaskTypes), todo' = front \o Tail(todo),
         \A i \in 1..Len(front) : TaskFits(front[i]) /\ Ready(front[i], mem'),
         \A i, j \in 1..Len(front) :
           i < j => Partners(front[i], front[j]) \/ Apart(front[i], front[j]),
         \A i \in 1..Len(front) : front[i].entry.part = "array" =>
           \E j \in 1..Len(front) : i < j /\ Partners(front[i], front[j]),
         \A i \in 1..Len(front) : \A j \in 2..Len(todo) : Apart(front[i], todo[j]),
         \A j \in 2..Len(todo) : Ready(todo[j], mem'),
         \A c \in DOMAIN mem' : mem'[c] = "garbage" =>
           \/ Ignored(c)
           \/ \E i \in 1..Len(front) : InZone(c, front[i])
           \/ \E j \in 2..Len(todo) : InZone(c, todo[j])
  PROVE  todo' \in Seq(TaskTypes) /\ TodoFits'
<1> DEFINE N == Len(front)
<1>1. TodoFits /\ todo \in Seq(TaskTypes) /\ DOMAIN todo = 1..Len(todo) /\ Len(todo) \in Nat
  BY CallFacts DEF IInv
<1>2. /\ todo' \in Seq(TaskTypes)
      /\ \A x \in DOMAIN todo' :
           \/ x \in 1..N /\ todo'[x] = front[x]
           \/ \E y \in 2..Len(todo) : x = y + N - 1 /\ todo'[x] = todo[y]
      /\ \A x \in 1..N : x \in DOMAIN todo' /\ todo'[x] = front[x]
      /\ \A y \in 2..Len(todo) : y + N - 1 \in DOMAIN todo' /\ todo'[y + N - 1] = todo[y]
  <2>1. InFront(front \o Tail(todo), front, todo)
    BY <1>1, FrontOf, Zenon
  <2> QED BY <2>1 DEF InFront
<1>3. N \in Nat
  OBVIOUS
<1> HIDE DEF N
<1>4. \A i \in DOMAIN todo' : TaskFits(todo[i])'
  <2>1. \A t : TaskFits(t)' <=> TaskFits(t)
    BY DataStays
  <2>0. 2..Len(todo) \subseteq DOMAIN todo /\ \A y \in DOMAIN todo : TaskFits(todo[y])
    BY <1>1 DEF TodoFits
  <2>2. \A y \in 2..Len(todo) : TaskFits(todo[y])
    BY <2>0
  <2>3. \A x \in 1..N : TaskFits(front[x])
    BY DEF N
  <2>4. \A x \in DOMAIN todo' : TaskFits(todo'[x])
    BY <2>2, <2>3, <1>2
  <2> QED BY <2>1, <2>4
<1>5. AllApart'
  <2> SUFFICES ASSUME NEW x \in DOMAIN todo', NEW y \in DOMAIN todo', x < y
               PROVE  Partners(todo'[x], todo'[y]) \/ Apart(todo'[x], todo'[y])
    BY DEF AllApart
  <2>1. CASE x \in 1..N /\ y \in 1..N
    BY <2>1, <1>2 DEF N
  <2>2. CASE x \in 1..N /\ y \notin 1..N
    BY <2>2, <1>2 DEF N
  <2>3. CASE x \notin 1..N
    <3>1. PICK a \in 2..Len(todo) : x = a + N - 1 /\ todo'[x] = todo[a]
      BY <2>3, <1>2
    <3>2. y \notin 1..N
      BY <2>3, <3>1, <1>1, <1>3
    <3>3. PICK b \in 2..Len(todo) : y = b + N - 1 /\ todo'[y] = todo[b]
      BY <3>2, <1>2
    <3>4. a < b /\ a \in DOMAIN todo /\ b \in DOMAIN todo
      BY <3>1, <3>3, <1>1, <1>3
    <3> QED BY <3>1, <3>3, <3>4, <1>1 DEF TodoFits, AllApart
  <2> QED BY <2>1, <2>2, <2>3
<1>6. Promised'
  <2> SUFFICES ASSUME NEW x \in DOMAIN todo', todo'[x].entry.part = "array"
               PROVE  \E y \in DOMAIN todo' : x < y /\ Partners(todo'[x], todo'[y])
    BY DEF Promised
  <2>1. CASE x \in 1..N
    <3>1. todo'[x] = front[x]
      BY <2>1, <1>2
    <3>2. PICK y \in 1..N : x < y /\ Partners(front[x], front[y])
      BY <2>1, <3>1 DEF N
    <3> QED BY <3>1, <3>2, <1>2
  <2>2. CASE x \notin 1..N
    <3>1. PICK a \in 2..Len(todo) : x = a + N - 1 /\ todo'[x] = todo[a]
      BY <2>2, <1>2
    <3>0. a \in DOMAIN todo /\ todo[a].entry.part = "array"
      BY <3>1, <1>1
    <3>2. PICK b \in DOMAIN todo : a < b /\ Partners(todo[a], todo[b])
      BY <3>0, <1>1 DEF TodoFits, Promised
    <3>3. b \in 2..Len(todo) /\ x < b + N - 1
      BY <3>1, <3>2, <1>1, <1>3
    <3> QED BY <3>1, <3>2, <3>3, <1>2
  <2> QED BY <2>1, <2>2
<1>7. Unopened' /\ CleanStays'
  <2>1. \A x \in 1..N : Ready(front[x], mem')
    BY DEF N
  <2>2. \A x \in DOMAIN todo' : Ready(todo'[x], mem')
    BY <2>1, <1>2
  <2> QED BY <2>2 DEF Unopened, CleanStays, Ready, Shut
<1>8. Covered'
  <2> SUFFICES ASSUME NEW c \in DOMAIN mem', mem'[c] = "garbage", ~Ignored(c)
               PROVE  \E x \in DOMAIN todo' : InZone(c, todo'[x])
    BY DataStays DEF Covered
  <2>1. CASE \E i \in 1..N : InZone(c, front[i])
    BY <2>1, <1>2
  <2>2. CASE \E j \in 2..Len(todo) : InZone(c, todo[j])
    BY <2>2, <1>2
  <2> QED BY <2>1, <2>2 DEF N
<1> QED BY <1>2, <1>4, <1>5, <1>6, <1>7, <1>8 DEF TodoFits

\* parts, and one more when it is there.
Extends(front, parts, more, later) ==
  /\ front \in Seq(TaskTypes)
  /\ \A x \in 1..Len(front) :
       \/ x \in 1..Len(parts) /\ front[x] = parts[x]
       \/ x = Len(parts) + 1 /\ more = <<later>> /\ front[x] = later
  /\ \A x \in 1..Len(parts) : x \in 1..Len(front) /\ front[x] = parts[x]
  /\ more = <<later>> => \E x \in 1..Len(front) : front[x] = later

\* The parts of an element, and the task for the next element if there is one.
LEMMA ExtendsParts ==
  \A parts \in Seq(TaskTypes) : \A later \in TaskTypes : \A more \in {<<>>, <<later>>} :
    Extends(parts \o more, parts, more, later)
<1> SUFFICES ASSUME NEW parts \in Seq(TaskTypes), NEW later \in TaskTypes,
                    NEW more \in {<<>>, <<later>>}, NEW front, front = parts \o more
             PROVE  Extends(front, parts, more, later)
  BY Zenon
<1>1. CASE more = <<>>
  <2>1. front = parts
    BY <1>1
  <2>2. <<>> /= <<later>>
    OBVIOUS
  <2> QED BY <2>1, <2>2, <1>1 DEF Extends
<1>2. CASE more = <<later>>
  <2>1. /\ front \in Seq(TaskTypes) /\ Len(front) = Len(parts) + 1 /\ Len(parts) \in Nat
        /\ \A x \in 1..Len(parts) : front[x] = parts[x]
        /\ front[Len(parts) + 1] = later
    BY <1>2
  <2>2. Len(parts) + 1 \in 1..Len(front)
    BY <2>1
  <2> QED BY <2>1, <2>2, <1>2 DEF Extends
<1> QED BY <1>1, <1>2

\* The parts of a struct, or of one element, fill a part of what t fills.
LEMMA PartZone ==
  ASSUME NEW t \in TaskTypes, NEW i \in Int, NEW U, NEW by, NEW parts,
         IsParts(parts, by, U, ElementPlace(t, i)), i = 0 => t.next = 0, i > 0 => i >= t.next,
         i >= 0, NEW j \in 1..Len(parts), NEW c \in Seq(Step), InZone(c, parts[j])
  PROVE  InZone(c, t) /\ c[Len(t.at) + 1].index = i /\ Len(c) > Len(t.at) + 1
<1> DEFINE q == ElementPlace(t, i) n == Len(t.at) + 1
<1>1. Longer(q, t.at, t.struct, t.entry.name, i)
  BY TaskPlaces
<1>2. t.at \in Seq(Step) /\ t.next \in Nat
  BY TaskTyped
<1>3. parts[j].at = q
  BY DEF IsParts
<1> HIDE DEF q, n
<1>4. q \in Seq(Step) /\ Len(q) = n /\ n \in 1..n /\ \A k \in 1..Len(t.at) : q[k] = t.at[k]
  BY <1>1, <1>2 DEF Longer, n
<1>5. q[n] = [struct |-> t.struct, member |-> t.entry.name, index |-> i]
  BY <1>1 DEF Longer, n
<1>6. Len(q) < Len(c) /\ \A k \in 1..Len(q) : c[k] = q[k]
  BY <1>3 DEF InZone
<1>7. c[n] = q[n]
  BY <1>4, <1>6
<1>8. c[n].struct = t.struct /\ c[n].member = t.entry.name /\ c[n].index = i
  BY <1>5, <1>7
<1>9. Len(t.at) < Len(c) /\ \A k \in 1..Len(t.at) : c[k] = t.at[k]
  <2>1. Len(t.at) \in Nat /\ n = Len(t.at) + 1 /\ Len(c) \in Nat
    BY <1>2 DEF n
  <2>2. Len(t.at) < Len(c)
    BY <2>1, <1>4, <1>6
  <2>3. 1..Len(t.at) \subseteq 1..Len(q)
    BY <2>1, <1>4
  <2> QED BY <2>2, <2>3, <1>4, <1>6
<1>10. t.next > 0 => i >= t.next
  BY <1>2
<1> QED BY <1>4, <1>6, <1>8, <1>9, <1>10 DEF InZone, n

\* u is t, but for the element that comes next.
NextIs(u, t, k) ==
  /\ u \in TaskTypes /\ u.next = k /\ u.at = t.at /\ u.struct = t.struct
  /\ u.entry = t.entry /\ u.how = t.how /\ u.catches = t.catches

\* The task for the next element differs in nothing else.
LEMMA NextChanges ==
  ASSUME NEW t \in TaskTypes, NEW k \in Nat, NEW u, u = [t EXCEPT !.next = k]
  PROVE  NextIs(u, t, k)
BY DEF TaskTypes, NextIs

\* The elements after the next one.
LEMMA LaterZone ==
  ASSUME NEW t \in TaskTypes, NEW later \in TaskTypes, later.at = t.at, later.struct = t.struct,
         later.entry = t.entry, later.next = t.next + 1, t.next >= 1, NEW c \in Seq(Step)
  PROVE  InZone(c, later) <=> InZone(c, t) /\ c[Len(t.at) + 1].index >= t.next + 1
<1>1. t.at \in Seq(Step) /\ t.next \in Nat
  BY TaskTyped
<1>2. ASSUME Len(t.at) < Len(c) PROVE c[Len(t.at) + 1].index \in Int
  <2>1. c[Len(t.at) + 1] \in Step
    BY <1>1, <1>2
  <2> QED BY <2>1 DEF Step
<1> QED BY <1>1, <1>2 DEF InZone

\* The next task is replaced by the tasks of its struct, or of one element
\* and those that follow it.
LEMMA ReplaceStep ==
  ASSUME IInv, phase = "filling", todo /= <<>>,
         UNCHANGED <<op, shape, mem, catches, phase, met>>,
         NEW i \in Int, NEW more,
         \/ i = 0 /\ What(Top).kind = "struct" /\ more = <<>>
         \/ /\ i = Top.next /\ i >= 1 /\ What(Top).kind = "array"
            /\ i <= Allocated(Top.struct, Items(Top.at, shape))
            /\ \/ more = <<[Top EXCEPT !.next = @ + 1]>>
               \/ /\ more = <<>>
                  /\ \A c \in DOMAIN mem :
                       InZone(c, Top) /\ c[Len(Top.at) + 1].index > i => Ignored(c),
         todo' = (Parts(Top, ElementPlace(Top, i), E.fill, shape) \o more) \o Tail(todo)
  PROVE  IInv'
<1> DEFINE t == Top
           q == ElementPlace(t, i)
           U == TypeOf(What(t), shape)
           parts == Parts(t, q, E.fill, shape)
           n == Len(t.at) + 1
           later == [t EXCEPT !.next = @ + 1]
           front == parts \o more
<1>1. /\ t = todo[1] /\ t \in TaskTypes /\ TaskFits(t) /\ 1 \in DOMAIN todo
      /\ TodoFits /\ IsShape(shape) /\ op \in DOMAIN Entry
      /\ todo \in Seq(TaskTypes) /\ DOMAIN todo = 1..Len(todo) /\ Len(todo) \in Nat
      /\ \A j \in DOMAIN todo : todo[j] \in TaskTypes
      /\ \A c \in DOMAIN mem : Cell(c) /\ InBounds(c) /\ c \in Seq(Step)
  BY TopFacts, CallFacts
<1>2. /\ CleanGoes(E.fill, t.struct, t.entry)
      /\ What(t).kind = Kind(t.struct, t.entry.name)
      /\ E.fill \in Sides /\ (t.entry.part = "all" \/ What(t).kind = "array")
  BY TopTables
<1>3. /\ t.at \in Seq(Step) /\ t.next \in Nat /\ t.struct \in STRING
      /\ t.entry.name \in STRING /\ t.entry.part \in {"all", "array", "elements"}
      /\ t = [entry |-> t.entry, struct |-> t.struct, at |-> t.at, how |-> t.how,
              catches |-> t.catches, next |-> t.next]
      /\ t.entry \in EntryTypes /\ t.how \in STRING /\ t.catches \in Seq(STRING \X Seq(Step))
  BY <1>1, TaskTyped
<1>4. /\ U \in DOMAIN FillOrder[E.fill] /\ U \in Inner(t.struct, t.entry.name)
      /\ IsParts(parts, E.fill, U, q) /\ \A j \in 1..Len(parts) : TaskFits(parts[j])
  BY <1>1, PartsOf
<1>5. Longer(q, t.at, t.struct, t.entry.name, i)
  BY <1>1, TaskPlaces
<1>6. \/ /\ i = 0 /\ What(t).kind = "struct" /\ more = <<>>
      \/ /\ i = t.next /\ i >= 1 /\ What(t).kind = "array"
         /\ \/ more = <<later>>
            \/ /\ more = <<>>
               /\ \A c \in DOMAIN mem : InZone(c, t) /\ c[n].index > i => Ignored(c)
  OBVIOUS
<1>7. todo' = front \o Tail(todo)
  OBVIOUS
<1>8. U = TypeOf(What(t), shape) /\ n = Len(t.at) + 1 /\ n \in Nat
  BY <1>3
<1>9. later = [t EXCEPT !.next = t.next + 1] /\ t.next + 1 \in Nat
  BY <1>3
<1>q. q = ElementPlace(t, i) /\ front = parts \o more
  OBVIOUS
<1> HIDE DEF q, U, parts, later, front, n, t
<1>10. /\ later \in TaskTypes /\ later.next = t.next + 1 /\ later.at = t.at
       /\ later.struct = t.struct /\ later.entry = t.entry /\ later.how = t.how
       /\ later.catches = t.catches
  <2>1. NextIs(later, t, t.next + 1)
    BY <1>1, <1>9, NextChanges
  <2> QED BY <2>1 DEF NextIs
<1>11. i = 0 => t.next = 0 /\ t.entry.part = "all" /\ What(t).kind = "struct" /\ more = <<>>
  <2>1. i = 0 => What(t).kind = "struct" /\ more = <<>>
    BY <1>6
  <2>2. What(t).kind = "struct" => t.next = 0 /\ t.entry.part = "all"
    BY <1>1, <1>2, <1>3 DEF TaskFits
  <2> QED BY <2>1, <2>2
<1>12. i /= 0 => i = t.next /\ i >= 1 /\ What(t).kind = "array" /\ t.entry.part /= "array"
  <2>1. i /= 0 => i = t.next /\ i >= 1 /\ What(t).kind = "array"
    BY <1>6
  <2>2. t.next > 0 => t.entry.part /= "array"
    BY <1>1 DEF TaskFits
  <2> QED BY <2>1, <2>2
<1>13. parts \in Seq(TaskTypes) /\ more \in {<<>>, <<later>>}
  BY <1>4, <1>6 DEF IsParts
<1>14. Extends(front, parts, more, later)
  BY <1>10, <1>13, <1>q, ExtendsParts, Zenon
<1>15. \A j \in 1..Len(parts) :
         /\ parts[j] \in TaskTypes /\ parts[j].struct = U /\ parts[j].at = q
         /\ parts[j].entry \in Entries(E.fill, U)
         /\ parts[j].next = IF parts[j].entry.part = "elements" THEN 1 ELSE 0
  <2>1. FillOrder[E.fill][U] \in Seq(Entries(E.fill, U))
    BY <1>2, <1>4, FillAssumption
  <2> QED BY <2>1, <1>4, <1>13 DEF IsParts
<1>16. \A j \in 1..Len(parts) : \A c \in Seq(Step) :
         InZone(c, parts[j]) => InZone(c, t) /\ c[n].index = i /\ Len(c) > n
  <2>1. /\ i = 0 => t.next = 0
        /\ i > 0 => i >= t.next
        /\ i >= 0
    BY <1>11, <1>12
  <2>2. IsParts(parts, E.fill, U, ElementPlace(t, i))
    BY <1>4, <1>q
  <2> QED BY <2>1, <2>2, <1>1, <1>8, PartZone
<1>17. more = <<later>> => t.next >= 1 /\ i = t.next /\ What(t).kind = "array"
  <2>1. <<>> /= <<later>>
    OBVIOUS
  <2> QED BY <2>1, <1>11, <1>12
<1>18. ASSUME more = <<later>>, NEW c \in Seq(Step)
       PROVE  InZone(c, later) <=> InZone(c, t) /\ c[n].index >= t.next + 1
  <2>1. t.next >= 1
    BY <1>17, <1>18
  <2> QED BY <2>1, <1>1, <1>8, <1>10, LaterZone
<1>19. \A x \in 1..Len(front) : TaskFits(front[x])
  <2>1. ASSUME more = <<later>> PROVE TaskFits(later)
    <3>1. What(t).kind = "array" /\ t.entry.part /= "array" /\ t.next > 0
      BY <1>12, <1>17, <2>1
    <3>2. What(later) = What(t) /\ (HowFits(t) => HowFits(later))
      BY <1>10 DEF What, HowFits
    <3>3. later.next > 0
      BY <3>1, <1>3, <1>10
    <3> QED BY <3>1, <3>2, <3>3, <1>1, <1>10 DEF TaskFits
  <2> QED BY <2>1, <1>4, <1>14 DEF Extends
<1>20. ASSUME NEW x \in 1..Len(front), NEW y \in 1..Len(front), x < y
       PROVE  Partners(front[x], front[y]) \/ Apart(front[x], front[y])
  <2>1. \A a, b \in 1..Len(parts) :
          a < b => Partners(parts[a], parts[b]) \/ Apart(parts[a], parts[b])
    BY <1>2, <1>4, PartsApart
  <2>2. CASE x \in 1..Len(parts) /\ front[x] = parts[x] /\ y \in 1..Len(parts) /\ front[y] = parts[y]
    BY <2>1, <2>2, <1>20
  <2>3. CASE x \in 1..Len(parts) /\ front[x] = parts[x] /\ more = <<later>> /\ front[y] = later
    <3>1. i = t.next /\ i \in Int
      BY <2>3, <1>17
    <3>2. ASSUME NEW c \in Seq(Step), InZone(c, parts[x]), InZone(c, later) PROVE FALSE
      <4>1. c[n].index = i
        BY <3>2, <2>3, <1>16
      <4>2. c[n].index >= t.next + 1
        BY <3>2, <2>3, <1>18
      <4> QED BY <4>1, <4>2, <3>1
    <3> QED BY <2>3, <3>2, <1>10, <1>15, ApartMeans
  <2>4. CASE x = Len(parts) + 1
    <3>1. Len(parts) \in Nat
      BY <1>13
    <3> QED BY <2>4, <3>1, <1>14, <1>20 DEF Extends
  <2> QED BY <2>2, <2>3, <2>4, <1>14 DEF Extends
<1>21. ASSUME NEW x \in 1..Len(front), front[x].entry.part = "array"
       PROVE  \E y \in 1..Len(front) : x < y /\ Partners(front[x], front[y])
  <2>1. CASE x \in 1..Len(parts) /\ front[x] = parts[x]
    <3>1. PICK y \in 1..Len(parts) : x < y /\ Partners(parts[x], parts[y])
      BY <2>1, <1>2, <1>4, <1>21, PartsApart
    <3> QED BY <2>1, <3>1, <1>14 DEF Extends
  <2>2. CASE more = <<later>> /\ front[x] = later
    BY <2>2, <1>10, <1>12, <1>17, <1>21
  <2> QED BY <2>1, <2>2, <1>14 DEF Extends
<1>22. ASSUME NEW x \in 1..Len(front)
       PROVE  front[x] \in TaskTypes /\ Sub(front[x], t)
  BY <1>10, <1>14, <1>15, <1>16, <1>18 DEF Sub, Extends
<1>23. ASSUME NEW x \in 1..Len(front), NEW j \in 2..Len(todo)
       PROVE  Apart(front[x], todo[j])
  <2>1. 1 \in DOMAIN todo /\ j \in DOMAIN todo /\ 1 < j
    BY <1>1
  <2>2. Partners(t, todo[j]) \/ Apart(t, todo[j])
    BY <2>1, <1>1 DEF TodoFits, AllApart
  <2>3. t.entry.part /= "array"
    BY <1>11, <1>12
  <2>4. Apart(t, todo[j])
    BY <2>2, <2>3 DEF Partners
  <2> QED BY <2>1, <2>4, <1>1, <1>22, SubApart
<1>24. \A j \in 1..Len(todo) : Ready(todo[j], mem)
  BY <1>1 DEF TodoFits, Unopened, CleanStays, Ready, Shut
<1>25. Ready(t, mem)
  <2>1. 1 \in 1..Len(todo)
    BY <1>1
  <2> QED BY <2>1, <1>1, <1>24
<1>26. \A j \in DOMAIN todo : Ready(todo[j], mem')
  BY <1>1, <1>24
<1>27. ASSUME NEW c \in DOMAIN mem, InZone(c, t)
       PROVE  /\ n \in 1..Len(c) /\ c[n].index \in Int /\ c \in Seq(Step)
              /\ t.next = 0 => c[n].index <= 0
              /\ t.next > 0 => c[n].index >= t.next
              /\ \A k \in (n + 1)..Len(c) : c[k].index <= 0
              /\ IsClean(t) => mem[c] /= "garbage"
  <2>1. c \in Seq(Step) /\ Len(t.at) < Len(c)
    BY <1>1, <1>27 DEF InZone
  <2>2. n \in 1..Len(c)
    BY <2>1, <1>3, <1>8
  <2>3. c[n].index \in Int
    BY <2>2, <1>1, CellSteps DEF StepFits
  <2>4. (t.next = 0 => c[n].index <= 0) /\ (IsClean(t) => mem[c] /= "garbage")
    BY <1>8, <1>25, <1>27 DEF Ready, Shut
  <2>5. \A k \in (Len(t.at) + 2)..Len(c) : c[k].index <= 0
    BY <1>25, <1>27 DEF Ready, Shut
  <2>6. Len(t.at) + 2 = n + 1
    BY <1>3, <1>8
  <2>7. t.next > 0 => c[n].index >= t.next
    BY <1>8, <1>27 DEF InZone
  <2> QED BY <2>1, <2>2, <2>3, <2>4, <2>5, <2>6, <2>7
<1>28. \A d \in Entries(E.fill, U) : Clean(U, d.name) => IsClean(t)
  <2> SUFFICES ASSUME NEW d \in Entries(E.fill, U), Clean(U, d.name) PROVE IsClean(t)
    OBVIOUS
  <2>1. IF Kind(t.struct, t.entry.name) = "struct" THEN Clean(t.struct, t.entry.name)
                                                   ELSE t.entry.zeroed
    BY <1>2, <1>4 DEF CleanGoes
  <2>2. CASE i = 0
    BY <2>1, <2>2, <1>2, <1>11 DEF IsClean
  <2>3. CASE i /= 0
    BY <2>1, <2>3, <1>2, <1>12 DEF IsClean
  <2> QED BY <2>2, <2>3
<1>29. ASSUME NEW x \in 1..Len(parts) PROVE Ready(parts[x], mem)
  <2> SUFFICES ASSUME NEW c \in DOMAIN mem, InZone(c, parts[x])
               PROVE  Shut(c, parts[x]) /\ (IsClean(parts[x]) => mem[c] /= "garbage")
    BY DEF Ready
  <2>1. c \in Seq(Step)
    BY <1>1
  <2>2. InZone(c, t) /\ Len(c) > n
    BY <2>1, <1>16
  <2>3. n \in 1..Len(c) /\ (\A k \in (n + 1)..Len(c) : c[k].index <= 0)
        /\ (IsClean(t) => mem[c] /= "garbage")
    BY <2>2, <1>27
  <2>4. parts[x].at = q /\ q \in Seq(Step) /\ Len(q) = n
    BY <1>5, <1>8, <1>15 DEF Longer
  <2>5. n + 1 \in (n + 1)..Len(c) /\ (Len(q) + 2)..Len(c) \subseteq (n + 1)..Len(c)
        /\ Len(q) + 1 = n + 1
    BY <2>1, <2>2, <2>4, <1>8
  <2>6. Shut(c, parts[x])
    BY <2>3, <2>4, <2>5 DEF Shut
  <2>7. c[n + 1].index <= 0
    BY <2>3, <2>5
  <2>8. c[n + 1].index \in Int
    <3>1. n + 1 \in 1..Len(c)
      BY <2>1, <2>2, <1>8
    <3> QED BY <3>1, <1>1, CellSteps DEF StepFits
  <2>9. parts[x].next = 0
    <3>1. parts[x].next > 0 => c[n + 1].index >= parts[x].next
      BY <2>4, <2>5 DEF InZone
    <3>2. parts[x].next \in {0, 1}
      BY <1>15
    <3> QED BY <3>1, <3>2, <2>7, <2>8
  <2>10. IsClean(parts[x]) => IsClean(t)
    BY <2>9, <1>15, <1>28 DEF IsClean
  <2> QED BY <2>3, <2>6, <2>10
<1>30. ASSUME more = <<later>> PROVE Ready(later, mem)
  <2> SUFFICES ASSUME NEW c \in DOMAIN mem, InZone(c, later)
               PROVE  Shut(c, later) /\ (IsClean(later) => mem[c] /= "garbage")
    BY DEF Ready
  <2>1. c \in Seq(Step)
    BY <1>1
  <2>2. InZone(c, t)
    BY <2>1, <1>18, <1>30
  <2>3. (\A k \in (n + 1)..Len(c) : c[k].index <= 0) /\ (IsClean(t) => mem[c] /= "garbage")
    BY <2>2, <1>27
  <2>4. t.next >= 1 /\ later.next /= 0 /\ t.next /= 0 /\ Len(t.at) + 2 = n + 1
    BY <1>3, <1>8, <1>10, <1>17, <1>30
  <2>5. Shut(c, later)
    BY <2>3, <2>4, <1>10 DEF Shut
  <2>6. IsClean(later) => IsClean(t)
    BY <2>4, <1>10 DEF IsClean
  <2> QED BY <2>3, <2>5, <2>6
<1>31. ASSUME NEW x \in 1..Len(front) PROVE Ready(front[x], mem')
  <2>1. Ready(front[x], mem)
    BY <1>14, <1>29, <1>30 DEF Extends
  <2> QED BY <2>1
<1>32. ASSUME NEW c \in DOMAIN mem, mem[c] = "garbage", InZone(c, t), ~Ignored(c)
       PROVE  \E x \in 1..Len(front) : InZone(c, front[x])
  <2>1. /\ n \in 1..Len(c) /\ c[n].index \in Int /\ c \in Seq(Step) /\ ~IsClean(t)
        /\ t.next > 0 => c[n].index >= t.next
    BY <1>27, <1>32
  <2>2. StepFits(c, n)
    BY <2>1, <1>1, CellSteps
  <2>3. c[n] = [struct |-> t.struct, member |-> t.entry.name, index |-> c[n].index]
        /\ Len(t.at) < Len(c) /\ \A k \in 1..Len(t.at) : c[k] = t.at[k]
    <3>1. c[n].struct = t.struct /\ c[n].member = t.entry.name
          /\ Len(t.at) < Len(c) /\ \A k \in 1..Len(t.at) : c[k] = t.at[k]
      BY <1>8, <1>32 DEF InZone
    <3> QED BY <3>1, <2>2 DEF StepFits
  <2>4. Kind(c[n].struct, c[n].member) = What(t).kind
        /\ TypeOf(MemberOf(c[n].struct, c[n].member), shape) = U
    BY <2>3, <1>2, <1>8 DEF What
  <2>5. n < Len(c) /\ c[n + 1].struct = U
    <3>1. n < Len(c)
      <4>1. CASE i = 0
        <5>1. What(t).kind = "struct"
          BY <4>1, <1>11
        <5> QED BY <5>1, <2>1, <2>2, <2>4, <1>8 DEF StepFits
      <4>2. CASE i /= 0
        <5>1. c[n].index > 0
          BY <4>2, <2>1, <1>3, <1>12
        <5> QED BY <5>1, <2>2 DEF StepFits
      <4> QED BY <4>1, <4>2
    <3> QED BY <3>1, <2>2, <2>4 DEF StepFits
  <2>6. CASE c[n].index = i
    <3>1. q \in Seq(Step) /\ Len(q) = n /\ q[n] = c[n] /\ \A k \in 1..Len(t.at) : q[k] = t.at[k]
      BY <2>3, <2>6, <1>5, <1>8 DEF Longer
    <3>2. Len(q) < Len(c) /\ c[Len(q) + 1].struct = U
      BY <2>5, <3>1
    <3>3. \A k \in 1..Len(q) : c[k] = q[k]
      <4>1. \A k \in 1..Len(q) : k \in 1..Len(t.at) \/ k = n
        BY <3>1, <1>3, <1>8
      <4> QED BY <4>1, <3>1, <2>3
    <3>4. \A d \in Entries(E.fill, U) : ~Unallocated(E.fill, U, d)
      <4> SUFFICES ASSUME NEW d \in Entries(E.fill, U), Unallocated(E.fill, U, d) PROVE FALSE
        OBVIOUS
      <4>1. Kind(t.struct, t.entry.name) = "struct" /\ Clean(t.struct, t.entry.name)
        BY <1>2, <1>4 DEF CleanGoes
      <4>2. t.next = 0
        BY <4>1, <1>2, <1>11, <1>12
      <4> QED BY <4>1, <4>2, <2>1 DEF IsClean
    <3>5. PICK j \in 1..Len(parts) : InZone(c, parts[j])
      BY <3>1, <3>2, <3>3, <3>4, <2>1, <1>1, <1>4, <1>32, PartsCover
    <3> QED BY <3>5, <1>14 DEF Extends
  <2>7. CASE c[n].index /= i
    <3>1. i /= 0
      <4>1. i = 0 => c[n].index >= 0 /\ What(t).kind = "struct"
        BY <2>2, <2>5, <1>11 DEF StepFits
      <4>2. What(t).kind = "struct" /\ c[n].index >= 0 => c[n].index = 0
        BY <2>1, <2>2, <2>4, <2>5 DEF StepFits
      <4> QED BY <4>1, <4>2, <2>7
    <3>2. i = t.next /\ c[n].index > i
      BY <3>1, <2>1, <2>7, <1>12
    <3>3. more = <<later>>
      BY <3>1, <3>2, <1>6, <1>32
    <3>4. InZone(c, later)
      BY <3>2, <3>3, <2>1, <1>18, <1>32
    <3> QED BY <3>3, <3>4, <1>14 DEF Extends
  <2> QED BY <2>6, <2>7
<1>33. ASSUME NEW c \in DOMAIN mem', mem'[c] = "garbage"
       PROVE  \/ Ignored(c)
              \/ \E x \in 1..Len(front) : InZone(c, front[x])
              \/ \E j \in 2..Len(todo) : InZone(c, todo[j])
  <2>1. Ignored(c) \/ \E j \in DOMAIN todo : InZone(c, todo[j])
    BY <1>1, <1>33 DEF TodoFits, Covered
  <2>2. \A j \in DOMAIN todo : j = 1 \/ j \in 2..Len(todo)
    BY <1>1
  <2> QED BY <2>1, <2>2, <1>1, <1>32, <1>33
<1>34. todo' \in Seq(TaskTypes) /\ TodoFits'
  <2>1. front \in Seq(TaskTypes) /\ \A j \in 2..Len(todo) : Ready(todo[j], mem')
    BY <1>1, <1>14, <1>26 DEF Extends
  <2> QED BY <2>1, <1>7, <1>19, <1>20, <1>21, <1>23, <1>31, <1>33, ListFits
<1>35. CellsFit' /\ MetFits' /\ \A c : Held(c)' <=> Held(c)
  <2>1. /\ E' = E
        /\ \A c : (Cell(c)' <=> Cell(c)) /\ (InBounds(c)' <=> InBounds(c))
        /\ \A c : Followed(c)' <=> Followed(c)
    BY DataStays
  <2>2. CellsFit'
    BY <2>1 DEF IInv, CellsFit, Live
  <2>3. MetFits'
    BY <2>1 DEF IInv, MetFits
  <2>4. \A c : Held(c)' <=> Held(c)
    BY DEF Held, HeldAt
  <2> QED BY <2>2, <2>3, <2>4
<1>36. Typed'
  BY <1>34 DEF IInv, Typed
<1> QED BY <1>34, <1>35, <1>36 DEF IInv

\* A struct is replaced by its members.
LEMMA FillStructStep ==
  ASSUME IInv, FillStruct
  PROVE  IInv'
<1> DEFINE parts == Parts(Top, ElementPlace(Top, 0), E.fill, shape)
<1>1. /\ phase = "filling" /\ todo /= <<>> /\ What(Top).kind = "struct"
      /\ todo' = Parts(Top, Place(Top), E.fill, shape) \o Tail(todo)
      /\ UNCHANGED <<op, shape, mem, catches, phase, met>>
  BY DEF FillStruct, Filling, Replace
<1>2. Place(Top) = ElementPlace(Top, 0)
  BY DEF Place, ElementPlace, Member
<1>3. Top \in TaskTypes /\ TaskFits(Top) /\ IsShape(shape) /\ op \in DOMAIN Entry
  BY <1>1, TopFacts, CallFacts
<1> HIDE DEF Top
<1>z. 0 \in Int
  OBVIOUS
<1>4. parts \in Seq(TaskTypes)
  <2>1. \A i \in Int : i = 0 =>
          IsParts(Parts(Top, ElementPlace(Top, i), E.fill, shape), E.fill,
                  TypeOf(What(Top), shape), ElementPlace(Top, i))
    BY <1>1, <1>3, PartsOf
  <2>2. IsParts(parts, E.fill, TypeOf(What(Top), shape), ElementPlace(Top, 0))
    BY <2>1, <1>z, Zenon
  <2> QED BY <2>2 DEF IsParts
<1>5. todo' = parts \o Tail(todo)
  BY <1>1, <1>2
<1> HIDE DEF parts
<1>6. parts \o <<>> = parts
  BY <1>4
<1>7. todo' = (parts \o <<>>) \o Tail(todo)
  BY <1>5, <1>6
<1>8. \A i \in Int : \A more :
        (i = 0 /\ more = <<>>
         /\ todo' = (Parts(Top, ElementPlace(Top, i), E.fill, shape) \o more) \o Tail(todo))
          => IInv'
  BY <1>1, ReplaceStep
<1> QED BY <1>7, <1>8, <1>z, Zenon DEF parts

\* An element is replaced by its members, the other elements come later.
LEMMA FillElementStep ==
  ASSUME IInv, FillElement
  PROVE  IInv'
<1> DEFINE i == Top.next N == Items(Top.at, shape)
           more == IF i = Filled(Top.struct, N) THEN <<>> ELSE <<[Top EXCEPT !.next = @ + 1]>>
<1>1. /\ phase = "filling" /\ todo /= <<>> /\ What(Top).kind = "array"
      /\ i \in 1..Filled(Top.struct, N)
      /\ todo' = (Parts(Top, ElementPlace(Top, i), E.fill, shape) \o more) \o Tail(todo)
      /\ UNCHANGED <<op, shape, mem, catches, phase, met>>
  BY DEF FillElement, Filling, Replace, Number
<1>2. /\ Top \in TaskTypes /\ TaskFits(Top) /\ IsShape(shape)
      /\ \A c \in DOMAIN mem : Cell(c) /\ InBounds(c) /\ c \in Seq(Step)
  BY <1>1, TopFacts, CallFacts
<1>3. N \in Nat /\ Top.at \in Seq(Step)
  BY <1>2, TaskTyped, ItemsAreNumbers
<1> HIDE DEF N, Top
<1>4. i \in Int /\ i >= 1 /\ i <= Allocated(Top.struct, N)
  <2>1. CASE Top.struct = "otel_strings"
    <3>1. Filled(Top.struct, N) = 2 * ((N + 1) \div 2) /\ Allocated(Top.struct, N) = 2 * N
      BY <2>1 DEF Filled, Allocated
    <3>2. \A k \in Nat : (k + 1) \div 2 >= 1 => 2 * ((k + 1) \div 2) <= 2 * k
      OBVIOUS
    <3> QED BY <3>1, <3>2, <1>1, <1>3
  <2>2. CASE Top.struct /= "otel_strings"
    BY <2>2, <1>1, <1>3 DEF Filled, Allocated
  <2> QED BY <2>1, <2>2
<1>5. ASSUME i = Filled(Top.struct, N), NEW c \in DOMAIN mem, InZone(c, Top),
             c[Len(Top.at) + 1].index > i
      PROVE  Ignored(c)
  <2>1. c[Len(Top.at) + 1].index <= Allocated(Top.struct, N)
    BY <1>2, <1>5, InBoundsOf DEF N
  <2>2. Len(Top.at) + 1 \in 1..Len(c)
    BY <1>2, <1>3, <1>5 DEF InZone
  <2>3. c[Len(Top.at) + 1].index \in Int
    BY <2>2, <1>2, CellSteps DEF StepFits
  <2>4. Top.struct = "otel_strings"
    <3>1. CASE Top.struct /= "otel_strings"
      BY <3>1, <2>1, <2>3, <1>3, <1>5 DEF Filled, Allocated
    <3> QED BY <3>1
  <2>5. c[Len(Top.at) + 1].struct = "otel_strings" /\ c[Len(Top.at) + 1].index > 0
    BY <2>3, <2>4, <1>4, <1>5 DEF InZone
  <2> QED BY <2>2, <2>5 DEF Ignored
<1>6. \/ more = <<[Top EXCEPT !.next = @ + 1]>>
      \/ /\ more = <<>>
         /\ \A c \in DOMAIN mem : InZone(c, Top) /\ c[Len(Top.at) + 1].index > i => Ignored(c)
  BY <1>5
<1>7. i <= Allocated(Top.struct, Items(Top.at, shape)) /\ i = Top.next
  BY <1>4 DEF N
<1> HIDE DEF more
<1> QED BY <1>1, <1>4, <1>6, <1>7, ReplaceStep

-----------------------------------------------------------------------------
(* An array is allocated.                                                  *)

\* c is in an element of the array that t allocates.
IsNew(c, t) ==
  /\ c \in Seq(Step) /\ Cell(c) /\ InBounds(c) /\ InZone(c, t)
  /\ Len(t.at) + 1 \in 1..Len(c) /\ c[Len(t.at) + 1].index >= 1
  /\ \A k \in (Len(t.at) + 2)..Len(c) : c[k].index <= 0

\* The cells of an element are below it, and not in an array of their own yet.
LEMMA ElementCells ==
  ASSUME NEW t \in TaskTypes, TaskFits(t), IsShape(shape), op \in DOMAIN Entry,
         What(t).kind = "array", t.next = 0,
         NEW i \in 1..Allocated(t.struct, Items(t.at, shape)),
         NEW c \in CellsOf(TypeOf(What(t), shape), ElementPlace(t, i), shape)
  PROVE  /\ IsNew(c, t)
         /\ Counted(c, CellsOf(TypeOf(What(t), shape), ElementPlace(t, i), shape))
<1> DEFINE q == ElementPlace(t, i) U == TypeOf(What(t), shape) n == Len(t.at) + 1
<1>1. t.at \in Seq(Step)
  BY TaskTyped
<1>2. i \in Int /\ i >= 1 /\ i <= Allocated(t.struct, Items(t.at, shape))
  BY <1>1, ItemsAreNumbers
<1>3. Path(q, U) /\ InBounds(q) /\ U \in DOMAIN Layout
  BY <1>2, TaskGrows
<1>4. Longer(q, t.at, t.struct, t.entry.name, i)
  BY <1>2, TaskPlaces
<1>5. n = Len(t.at) + 1
  OBVIOUS
<1>6. \A d \in CellsOf(U, q, shape) : IsOf(d, q, U) /\ Counted(d, CellsOf(U, q, shape))
  BY <1>3, CellsOfFit
<1>7. IsOf(c, q, U) /\ Counted(c, CellsOf(U, q, shape))
  BY <1>6
<1> HIDE DEF n
<1>8. /\ q \in Seq(Step) /\ Len(q) = n /\ n \in Nat
      /\ q[n] = [struct |-> t.struct, member |-> t.entry.name, index |-> i]
      /\ \A k \in 1..Len(t.at) : q[k] = t.at[k]
  BY <1>1, <1>4, <1>5 DEF Longer
<1> HIDE DEF q, U
<1>9. /\ Cell(c) /\ InBounds(c) /\ c \in Seq(Step) /\ n < Len(c)
      /\ \A k \in 1..n : c[k] = q[k]
      /\ \A k \in (n + 1)..Len(c) : c[k].index <= 0
  BY <1>7, <1>8 DEF IsOf, Cell
<1>10. n \in 1..Len(c) /\ n \in 1..n
  BY <1>1, <1>5, <1>9
<1>11. c[n] = q[n]
  BY <1>9, <1>10
<1>12. c[n].struct = t.struct /\ c[n].member = t.entry.name /\ c[n].index = i
  BY <1>8, <1>11
<1>13. Len(t.at) < Len(c) /\ 1..Len(t.at) \subseteq 1..n /\ Len(t.at) + 2 = n + 1
  BY <1>1, <1>5, <1>9
<1>14. \A k \in 1..Len(t.at) : c[k] = t.at[k]
  BY <1>8, <1>9, <1>13
<1>15. InZone(c, t)
  BY <1>5, <1>12, <1>13, <1>14 DEF InZone
<1> QED BY <1>2, <1>5, <1>7, <1>9, <1>10, <1>12, <1>13, <1>15 DEF IsNew, q, U

\* The cells of a new array are new, because nothing was allocated there.
LEMMA NewFacts ==
  ASSUME IInv, phase = "filling", todo /= <<>>, What(Top).kind = "array", Top.next = 0
  PROVE  \A c \in NewCells :
           /\ IsNew(c, Top) /\ Counted(c, NewCells)
           /\ c \notin DOMAIN mem /\ c \notin {Place(Top), CountPlace(Top)}
<1>1. /\ Top \in TaskTypes /\ TaskFits(Top) /\ IsShape(shape) /\ op \in DOMAIN Entry
  BY TopFacts, CallFacts
<1>2. \A c \in DOMAIN mem : InZone(c, Top) => c[Len(Top.at) + 1].index <= 0
  BY TopClosed
<1>3. /\ Longer(Place(Top), Top.at, Top.struct, Top.entry.name, 0)
      /\ Longer(CountPlace(Top), Top.at, Top.struct, Top.entry.name, -1)
  BY <1>1, TaskPlaces
<1>4. NewCells = UNION {CellsOf(TypeOf(What(Top), shape), ElementPlace(Top, i), shape) :
                          i \in 1..Allocated(Top.struct, Items(Top.at, shape))}
  BY DEF NewCells, Number
<1> HIDE DEF Top
<1> SUFFICES ASSUME NEW c \in NewCells
             PROVE  /\ IsNew(c, Top) /\ Counted(c, NewCells)
                    /\ c \notin DOMAIN mem /\ c \notin {Place(Top), CountPlace(Top)}
  OBVIOUS
<1>5. PICK i \in 1..Allocated(Top.struct, Items(Top.at, shape)) :
        c \in CellsOf(TypeOf(What(Top), shape), ElementPlace(Top, i), shape)
  BY <1>4
<1> DEFINE cells == CellsOf(TypeOf(What(Top), shape), ElementPlace(Top, i), shape)
<1>6. IsNew(c, Top) /\ Counted(c, cells)
  BY <1>1, <1>5, ElementCells
<1>7. cells \subseteq NewCells
  BY <1>4
<1> HIDE DEF cells
<1>8. Counted(c, NewCells)
  BY <1>6, <1>7 DEF Counted
<1>9. c[Len(Top.at) + 1].index >= 1 /\ InZone(c, Top) /\ c[Len(Top.at) + 1].index \in Int
  <2>1. Len(Top.at) + 1 \in 1..Len(c) /\ Cell(c)
    BY <1>6 DEF IsNew
  <2>2. c[Len(Top.at) + 1].index \in Int
    BY <2>1, <1>1, CellSteps DEF StepFits
  <2> QED BY <2>2, <1>6 DEF IsNew
<1>10. c \notin DOMAIN mem
  BY <1>2, <1>9
<1>11. /\ Place(Top)[Len(Top.at) + 1].index = 0
       /\ CountPlace(Top)[Len(Top.at) + 1].index = -1
  BY <1>3 DEF Longer
<1> QED BY <1>6, <1>8, <1>9, <1>10, <1>11

\* Places that agree up to step k hang on the same pointer and count.
LEMMA SameHangs ==
  ASSUME NEW c \in Seq(Step), NEW d \in Seq(Step), NEW k \in 1..Len(c), k <= Len(d),
         \A j \in 1..k : c[j] = d[j]
  PROVE  PointerOf(c, k) = PointerOf(d, k) /\ CountOf(c, k) = CountOf(d, k)
<1>1. SubSeq(c, 1, k - 1) = SubSeq(d, 1, k - 1)
  <2>1. k - 1 \in Nat /\ k - 1 <= Len(c) /\ k - 1 <= Len(d) /\ \A j \in 1..(k - 1) : c[j] = d[j]
    OBVIOUS
  <2> QED BY <2>1, SubSeqsEqual
<1>2. c[k] = d[k]
  OBVIOUS
<1> QED BY <1>1, <1>2 DEF PointerOf, CountOf

\* A cell of a new array hangs on that array, and on nothing new.
LEMMA NewHangs ==
  ASSUME NEW t \in TaskTypes, NEW c, IsNew(c, t)
  PROVE  /\ PointerOf(c, Len(t.at) + 1) = Place(t) /\ CountOf(c, Len(t.at) + 1) = CountPlace(t)
         /\ c[Len(t.at) + 1].struct = t.struct
<1>1. t.at \in Seq(Step) /\ c \in Seq(Step) /\ InZone(c, t)
  BY TaskTyped DEF IsNew
<1>2. /\ Len(t.at) < Len(c) /\ \A k \in 1..Len(t.at) : c[k] = t.at[k]
      /\ c[Len(t.at) + 1].struct = t.struct /\ c[Len(t.at) + 1].member = t.entry.name
  BY <1>1 DEF InZone
<1>3. SubSeq(c, 1, Len(t.at)) = t.at
  BY <1>1, <1>2, WholeSubSeq
<1>4. (Len(t.at) + 1) - 1 = Len(t.at)
  BY <1>1
<1> QED BY <1>2, <1>3, <1>4 DEF PointerOf, CountOf, Place, CountPlace

\* An array is allocated, with the cells of all its elements.
LEMMA FillArrayStep ==
  ASSUME IInv, FillArray
  PROVE  IInv'
<1> DEFINE t == Top
           n == Len(t.at) + 1
           later == [t EXCEPT !.next = 1]
           front == IF t.entry.part = "array" THEN <<>> ELSE <<later>>
           new == NewCells
<1>1. /\ phase = "filling" /\ todo /= <<>> /\ What(t).kind = "array" /\ t.next = 0
      /\ Place(t) \in DOMAIN mem
      /\ mem' = [c \in DOMAIN mem \cup new |->
                   IF c \in new THEN Fresh(t.entry)
                   ELSE IF c = Place(t) THEN Ours(t.how)
                   ELSE IF c = CountPlace(t) /\ Counts(t.how) THEN "set"
                   ELSE mem[c]]
      /\ todo' = IF t.entry.part = "array" THEN Tail(todo) ELSE [todo EXCEPT ![1].next = 1]
      /\ UNCHANGED <<op, shape, catches, phase, met>>
  BY DEF FillArray, ToAllocate, Filling
<1>2. /\ t = todo[1] /\ t \in TaskTypes /\ TaskFits(t) /\ 1 \in DOMAIN todo
      /\ Tail(todo) \in Seq(TaskTypes) /\ Len(Tail(todo)) = Len(todo) - 1
      /\ \A i \in 1..(Len(todo) - 1) : Tail(todo)[i] = todo[i + 1]
      /\ TodoFits /\ IsShape(shape) /\ op \in DOMAIN Entry
      /\ todo \in Seq(TaskTypes) /\ DOMAIN todo = 1..Len(todo) /\ Len(todo) \in Nat
      /\ \A j \in DOMAIN todo : todo[j] \in TaskTypes
      /\ \A c \in DOMAIN mem : Cell(c) /\ InBounds(c) /\ c \in Seq(Step)
  BY <1>1, TopFacts, CallFacts
<1>3. /\ HowGoes(E.fill, t.struct, t.entry) /\ t.how = t.entry.how
      /\ Kind(t.struct, t.entry.name) = "array" /\ E.fill \in Sides
  BY <1>1, TopTables
<1>4. \A c \in new : /\ IsNew(c, t) /\ Counted(c, new)
                     /\ c \notin DOMAIN mem /\ c \notin {Place(t), CountPlace(t)}
  BY <1>1, NewFacts
<1>5. \A c \in DOMAIN mem : InZone(c, t) =>
        c[Len(t.at) + 1].index <= 0 /\ c \in {Place(t), CountPlace(t)}
  BY <1>1, TopClosed
<1>6. /\ Longer(Place(t), t.at, t.struct, t.entry.name, 0)
      /\ Longer(CountPlace(t), t.at, t.struct, t.entry.name, -1)
  BY <1>2, TaskPlaces
<1>7. t.at \in Seq(Step) /\ n = Len(t.at) + 1 /\ n \in Nat
      /\ t.entry.part \in {"all", "array", "elements"}
  BY <1>2, TaskTyped
<1>8. t.entry.part /= "elements"
  BY <1>1, <1>2 DEF TaskFits
<1>9. NextIs(later, t, 1)
  <2>1. 1 \in Nat
    OBVIOUS
  <2> HIDE DEF t
  <2> QED BY <2>1, <1>2, NextChanges
<1>10. todo' = front \o Tail(todo)
  <2>1. CASE t.entry.part = "array"
    <3>1. todo' = Tail(todo) /\ front = <<>>
      BY <2>1, <1>1
    <3>2. <<>> \o Tail(todo) = Tail(todo)
      BY <1>2
    <3> HIDE DEF front
    <3> QED BY <3>1, <3>2
  <2>2. CASE t.entry.part /= "array"
    <3>1. todo' = [todo EXCEPT ![1] = later]
      BY <2>2, <1>1, <1>2
    <3>2. front = <<later>> /\ later \in TaskTypes
      BY <2>2, <1>9 DEF NextIs
    <3> HIDE DEF later, front, t
    <3>3. /\ todo' \in Seq(TaskTypes) /\ Len(todo') = Len(todo)
          /\ todo'[1] = later /\ \A i \in 2..Len(todo) : todo'[i] = todo[i]
      BY <3>1, <3>2, <1>2
    <3>4. /\ front \o Tail(todo) \in Seq(TaskTypes) /\ Len(front \o Tail(todo)) = Len(todo)
          /\ (front \o Tail(todo))[1] = later
          /\ \A i \in 2..Len(todo) : (front \o Tail(todo))[i] = todo[i]
      BY <3>2, <1>2
    <3>5. \A i \in 1..Len(todo) : i = 1 \/ i \in 2..Len(todo)
      BY <1>2
    <3> QED BY <3>3, <3>4, <3>5, SeqsEqual
  <2> QED BY <2>1, <2>2
<1>11. front = IF t.entry.part = "array" THEN <<>> ELSE <<later>>
  OBVIOUS
<1> HIDE DEF t, n, later, front, new
<1>12. /\ DOMAIN mem' = DOMAIN mem \cup new
       /\ \A c \in new : c \in DOMAIN mem' /\ mem'[c] = Fresh(t.entry)
       /\ \A c \in DOMAIN mem : c \in DOMAIN mem' /\ c \notin new
       /\ \A c \in DOMAIN mem' : c \in new \/ c \in DOMAIN mem
  BY <1>1, <1>4
<1>13. \A c \in DOMAIN mem :
         mem'[c] = IF c = Place(t) THEN Ours(t.how)
                   ELSE IF c = CountPlace(t) /\ Counts(t.how) THEN "set" ELSE mem[c]
  BY <1>1, <1>12
<1>14. Counts(t.how) <=> t.struct /= "otel_strings"
  BY <1>3 DEF Counts, HowGoes
<1>15. E.parses => t.entry.zeroed
  <2>1. E.parses => E.fill = "library"
    BY <1>2, EntryAssumption DEF E
  <2>2. E.parses => t.struct \in Decoded
    BY <1>2 DEF TaskFits
  <2> QED BY <2>1, <2>2, <1>3 DEF HowGoes
<1>16. CellsFit'
  <2>1. \A c \in DOMAIN mem : mem'[c] = mem[c] \/ Writes(c, t)
    BY <1>1, <1>13, <1>14 DEF Writes
  <2>2. ASSUME NEW c \in DOMAIN mem' \ DOMAIN mem
        PROVE  /\ Cell(c) /\ InBounds(c)
               /\ Kind(c[Len(c)].struct, c[Len(c)].member) = "array" =>
                    CountOf(c, Len(c)) \in DOMAIN mem'
               /\ mem'[c] = "null" \/ (mem'[c] = "garbage" /\ ~E.parses)
    <3>1. c \in new
      BY <1>12
    <3>2. IsNew(c, t) /\ Counted(c, new)
      BY <3>1, <1>4
    <3>3. mem'[c] = "null" \/ (mem'[c] = "garbage" /\ ~E.parses)
      BY <3>1, <1>12, <1>15 DEF Fresh
    <3> QED BY <3>2, <3>3, <1>12 DEF IsNew, Counted
  <2>3. op' = op /\ shape' = shape /\ DOMAIN mem \subseteq DOMAIN mem'
    BY <1>1, <1>12
  <2> QED BY <2>1, <2>2, <2>3, <1>2, ValuesFit
\* Nothing that was there becomes garbage.
<1>17. \A c \in DOMAIN mem : mem'[c] = "garbage" =>
         mem[c] = "garbage" /\ ~InZone(c, t)
  <2> SUFFICES ASSUME NEW c \in DOMAIN mem, mem'[c] = "garbage"
               PROVE  mem[c] = "garbage" /\ ~InZone(c, t)
    OBVIOUS
  <2>1. c /= Place(t) /\ (c /= CountPlace(t) \/ ~Counts(t.how)) /\ mem[c] = "garbage"
    BY <1>13 DEF Ours
  <2>2. ASSUME InZone(c, t) PROVE FALSE
    <3>1. t.struct = "otel_strings"
      BY <2>1, <2>2, <1>5, <1>14
    <3>2. IsClean(t)
      BY <3>1, <1>1 DEF IsClean, Clean, CleanTypes
    <3>3. mem[c] /= "garbage"
      BY <3>2, <2>2, <1>1, TopClean DEF t
    <3> QED BY <3>3, <2>1
  <2> QED BY <2>1, <2>2
<1>18. \A j \in 1..Len(todo) : Ready(todo[j], mem)
  BY <1>2 DEF TodoFits, Unopened, CleanStays, Ready, Shut
<1>19. ASSUME NEW j \in 2..Len(todo)
       PROVE  /\ j \in DOMAIN todo /\ todo[j] \in TaskTypes /\ TaskFits(todo[j])
              /\ Partners(t, todo[j]) \/ Apart(t, todo[j])
  <2>1. 1 \in DOMAIN todo /\ j \in DOMAIN todo /\ 1 < j
    BY <1>2
  <2>2. Partners(t, todo[j]) \/ Apart(t, todo[j])
    BY <2>1, <1>2 DEF TodoFits, AllApart
  <2> QED BY <2>1, <2>2, <1>2 DEF TodoFits
<1>20. ASSUME NEW j \in 2..Len(todo) PROVE Ready(todo[j], mem')
  <2> DEFINE u == todo[j]
  <2>1. /\ u \in TaskTypes /\ TaskFits(u) /\ Ready(u, mem)
        /\ Partners(t, u) \/ Apart(t, u)
    <3>1. j \in 1..Len(todo)
      BY <1>2
    <3> QED BY <3>1, <1>18, <1>19
  <2> HIDE DEF u
  <2> SUFFICES ASSUME NEW c \in DOMAIN mem', InZone(c, u)
               PROVE  Shut(c, u) /\ (IsClean(u) => mem'[c] /= "garbage")
    BY DEF Ready, u
  <2>2. CASE c \in DOMAIN mem
    BY <2>1, <2>2, <1>17 DEF Ready
  <2>3. CASE c \in new
    <3>1. IsNew(c, t)
      BY <2>3, <1>4
    <3>2. Partners(t, u)
      BY <3>1, <2>1, <1>2, ApartMeans DEF IsNew
    <3>3. u.at = t.at /\ u.next = 1 /\ u.entry.part = "elements" /\ u.struct = t.struct
      BY <3>2 DEF Partners
    <3>4. Shut(c, u)
      BY <3>1, <3>3 DEF Shut, IsNew
    <3>5. ~u.entry.zeroed
      <4>1. u.entry \in Entries(E.fill, u.struct) /\ u.struct \in DOMAIN FillOrder[E.fill]
        BY <2>1 DEF TaskFits
      <4> QED BY <4>1, <3>3, <1>3, PartsAssumption
    <3>6. ~IsClean(u)
      BY <3>3, <3>5 DEF IsClean
    <3> QED BY <3>4, <3>6
  <2> QED BY <2>2, <2>3, <1>12
<1>21. ASSUME NEW c \in Seq(Step) PROVE InZone(c, later) <=> InZone(c, t) /\ c[n].index >= 1
  <2>1. later.at = t.at /\ later.struct = t.struct /\ later.entry = t.entry /\ later.next = 1
    BY <1>9 DEF NextIs
  <2> QED BY <2>1, <1>1, <1>7 DEF InZone
<1>22. Ready(later, mem')
  <2> SUFFICES ASSUME NEW c \in DOMAIN mem', InZone(c, later)
               PROVE  Shut(c, later) /\ (IsClean(later) => mem'[c] /= "garbage")
    BY DEF Ready
  <2>1. c \in new
    <3>1. CASE c \in DOMAIN mem
      <4>1. InZone(c, t) /\ c[n].index >= 1 /\ c[n].index <= 0
        BY <3>1, <1>2, <1>5, <1>7, <1>21
      <4>2. n \in 1..Len(c)
        BY <3>1, <4>1, <1>2, <1>7 DEF InZone
      <4>3. c[n].index \in Int
        BY <3>1, <4>2, <1>2, CellSteps DEF StepFits
      <4> QED BY <4>1, <4>3
    <3> QED BY <3>1, <1>12
  <2>2. IsNew(c, t) /\ mem'[c] = Fresh(t.entry)
    BY <2>1, <1>4, <1>12
  <2>3. Shut(c, later)
    BY <2>2, <1>9 DEF IsNew, Shut, NextIs
  <2>4. IsClean(later) => mem'[c] /= "garbage"
    BY <2>2, <1>9 DEF IsClean, Fresh, NextIs
  <2> QED BY <2>3, <2>4
<1>23. ASSUME t.entry.part /= "array" PROVE TaskFits(later)
  <2>1. t.entry.part = "all" /\ later.next = 1
    BY <1>7, <1>8, <1>9, <1>23 DEF NextIs
  <2>2. /\ later.at = t.at /\ later.struct = t.struct /\ later.entry = t.entry
        /\ later.how = t.how /\ later.catches = t.catches
    BY <1>9 DEF NextIs
  <2>3. What(later) = What(t) /\ (HowFits(t) => HowFits(later))
    BY <2>2 DEF What, HowFits
  <2> QED BY <2>1, <2>2, <2>3, <1>1, <1>2 DEF TaskFits
<1>24. /\ front \in Seq(TaskTypes)
       /\ \A x \in 1..Len(front) : x = 1 /\ front[x] = later /\ t.entry.part /= "array"
       /\ t.entry.part /= "array" => 1 \in 1..Len(front) /\ front[1] = later
  <2>1. later \in TaskTypes
    BY <1>9 DEF NextIs
  <2>2. CASE t.entry.part = "array"
    <3>1. front = <<>>
      BY <2>2, <1>11
    <3> QED BY <3>1, <2>2
  <2>3. CASE t.entry.part /= "array"
    <3>1. front = <<later>>
      BY <2>3, <1>11
    <3>2. front \in Seq(TaskTypes) /\ Len(front) = 1 /\ front[1] = later
      BY <3>1, <2>1
    <3> QED BY <3>2, <2>3
  <2> QED BY <2>2, <2>3
<1>25. ASSUME NEW x \in 1..Len(front), NEW j \in 2..Len(todo) PROVE Apart(front[x], todo[j])
  <2>1. front[x] = later /\ later \in TaskTypes /\ t.entry.part /= "array"
    BY <1>9, <1>24 DEF NextIs
  <2>2. Sub(later, t)
    BY <1>21 DEF Sub
  <2>3. Apart(t, todo[j]) /\ todo[j] \in TaskTypes
    BY <2>1, <1>19 DEF Partners
  <2> QED BY <2>1, <2>2, <2>3, <1>2, SubApart
<1>26. ASSUME NEW c \in DOMAIN mem', mem'[c] = "garbage"
       PROVE  \/ Ignored(c)
              \/ \E x \in 1..Len(front) : InZone(c, front[x])
              \/ \E j \in 2..Len(todo) : InZone(c, todo[j])
  <2>1. CASE c \in DOMAIN mem
    <3>1. mem[c] = "garbage" /\ ~InZone(c, t)
      BY <2>1, <1>17, <1>26
    <3>2. Ignored(c) \/ \E j \in DOMAIN todo : InZone(c, todo[j])
      BY <2>1, <3>1, <1>2 DEF TodoFits, Covered
    <3>3. \A j \in DOMAIN todo : j = 1 \/ j \in 2..Len(todo)
      BY <1>2
    <3> QED BY <3>1, <3>2, <3>3, <1>2
  <2>2. CASE c \in new
    <3>1. IsNew(c, t)
      BY <2>2, <1>4
    <3>2. CASE t.entry.part = "array"
      <4>1. PICK j \in DOMAIN todo : 1 < j /\ Partners(t, todo[j])
        BY <3>2, <1>2 DEF TodoFits, Promised
      <4>2. j \in 2..Len(todo)
        BY <4>1, <1>2
      <4>3. /\ todo[j].at = t.at /\ todo[j].struct = t.struct
            /\ todo[j].entry.name = t.entry.name /\ todo[j].next = 1
        BY <4>1 DEF Partners
      <4>4. InZone(c, todo[j])
        BY <4>3, <3>1, <1>1 DEF IsNew, InZone
      <4> QED BY <4>2, <4>4
    <3>3. CASE t.entry.part /= "array"
      <4>1. InZone(c, later)
        BY <3>1, <1>7, <1>21 DEF IsNew
      <4> QED BY <4>1, <3>3, <1>24
    <3> QED BY <3>2, <3>3
  <2> QED BY <2>1, <2>2, <1>12
<1>27. todo' \in Seq(TaskTypes) /\ TodoFits'
  <2>1. \A x \in 1..Len(front) : TaskFits(front[x]) /\ Ready(front[x], mem')
    BY <1>22, <1>23, <1>24
  <2>2. \A x, y \in 1..Len(front) :
          x < y => Partners(front[x], front[y]) \/ Apart(front[x], front[y])
    <3>1. \A x, y \in 1..Len(front) : x = 1 /\ y = 1
      BY <1>24
    <3> QED BY <3>1
  <2>3. \A x \in 1..Len(front) : front[x].entry.part /= "array"
    BY <1>9, <1>24 DEF NextIs
  <2>4. phase = "filling" /\ todo /= <<>> /\ op' = op /\ shape' = shape /\ phase' = "filling"
    BY <1>1
  <2> QED BY <2>1, <2>2, <2>3, <2>4, <1>10, <1>20, <1>24, <1>25, <1>26, ListFits
\* The new places hang on the pointer and on the count.
<1>28. /\ mem'[Place(t)] \in {"live", "borrowed"} /\ CountPlace(t) \in DOMAIN mem
       /\ t.struct /= "otel_strings" => mem'[CountPlace(t)] = "set"
  <2>1. mem'[Place(t)] \in {"live", "borrowed"}
    BY <1>1, <1>13 DEF Ours
  <2>2. /\ CountPlace(t) = CountOf(Place(t), Len(Place(t)))
        /\ Kind(Place(t)[Len(Place(t))].struct, Place(t)[Len(Place(t))].member) = "array"
    BY <1>1, <1>2, PlaceFacts
  <2>3. CountPlace(t) \in DOMAIN mem
    BY <2>2, <1>1 DEF IInv, CellsFit
  <2>4. CountPlace(t) /= Place(t)
    <3>1. Place(t)[Len(t.at) + 1].index = 0 /\ CountPlace(t)[Len(t.at) + 1].index = -1
      BY <1>6 DEF Longer
    <3> QED BY <3>1
  <2> QED BY <2>1, <2>3, <2>4, <1>13, <1>14
<1>29. ASSUME NEW c \in DOMAIN mem PROVE Held(c)'
  <2>1. Held(c)
    BY <1>1 DEF IInv
  <2>2. \A d \in DOMAIN mem : d \notin {Place(t), CountPlace(t)} => mem'[d] = mem[d]
    BY <1>13
  <2>3. DOMAIN mem \subseteq DOMAIN mem'
    BY <1>12
  <2>4. \A d \in DOMAIN mem : InZone(d, t) => d[Len(t.at) + 1].index <= 0
    BY <1>5
  <2> QED BY <2>1, <2>2, <2>3, <2>4, <1>1, <1>2, HeldStays
<1>30. ASSUME NEW c \in new PROVE Held(c)'
  <2> SUFFICES ASSUME NEW k \in 1..Len(c), c[k].index > 0 PROVE HeldAt(c, k)'
    BY DEF Held
  <2>1. IsNew(c, t) /\ c \in Seq(Step) /\ Cell(c)
    BY <1>4 DEF IsNew
  <2>2. StepFits(c, k) /\ Len(t.at) \in Nat
    BY <2>1, <1>2, <1>7, CellSteps
  <2>3. k <= n
    <3>1. k \in Nat /\ c[k].index \in Int /\ n = Len(t.at) + 1
      BY <2>1, <2>2, <1>7 DEF StepFits
    <3>2. k \in (Len(t.at) + 2)..Len(c) => c[k].index <= 0
      BY <2>1 DEF IsNew
    <3> QED BY <3>1, <3>2, <2>2
  <2>4. CASE k = n
    <3>1. /\ PointerOf(c, n) = Place(t) /\ CountOf(c, n) = CountPlace(t)
          /\ c[n].struct = t.struct
      BY <2>1, <1>2, <1>7, NewHangs
    <3> QED BY <3>1, <2>4, <1>1, <1>12, <1>28 DEF HeldAt
  <2>5. CASE k < n
    <3> SUFFICES ASSUME NEW p, p = Place(t) PROVE HeldAt(c, k)'
      OBVIOUS
    <3>1. /\ p \in Seq(Step) /\ Len(p) = n /\ \A j \in 1..Len(t.at) : p[j] = t.at[j]
      BY <1>6, <1>7 DEF Longer
    <3>2. p \in DOMAIN mem
      BY <1>1
    <3>3. \A j \in 1..Len(t.at) : c[j] = t.at[j]
      BY <2>1 DEF IsNew, InZone
    <3>4. k \in 1..Len(p) /\ 1..k \subseteq 1..Len(t.at)
      BY <2>1, <2>5, <3>1, <1>7
    <3>5. \A j \in 1..k : c[j] = p[j]
      BY <3>1, <3>3, <3>4
    <3>6. PointerOf(c, k) = PointerOf(p, k) /\ CountOf(c, k) = CountOf(p, k)
      BY <2>1, <3>1, <3>4, <3>5, SameHangs
    <3>7. c[k] = p[k]
      BY <3>4, <3>5
    <3>8. HeldAt(p, k)'
      BY <3>2, <3>4, <3>7, <1>29 DEF Held
    <3> QED BY <3>6, <3>7, <3>8 DEF HeldAt
  <2> QED BY <2>1, <2>3, <2>4, <2>5, <1>7
<1>31. \A c \in DOMAIN mem' : Held(c)'
  BY <1>12, <1>29, <1>30
<1>32. MetFits'
  <2>1. E' = E
    BY <1>1, DataStays
  <2> QED BY <2>1, <1>1 DEF IInv, MetFits
<1>33. Typed'
  <2>1. mem' = [c \in DOMAIN mem' |-> mem'[c]]
    BY <1>1
  <2> QED BY <2>1, <1>1, <1>27 DEF IInv, Typed
<1> QED BY <1>1, <1>16, <1>27, <1>31, <1>32, <1>33 DEF IInv

-----------------------------------------------------------------------------
(* An allocation fails, and who has called looks at it.                    *)

\* A struct without structs and arrays.
LEMMA FlatMembers ==
  ASSUME NEW T \in Flat, NEW n, T \in DOMAIN Layout, \E m \in Members(T) : m.name = n
  PROVE  /\ Kind(T, n) \in {"block", "plain"}
         /\ \A s, U : s.struct = T /\ s.member = n => ~Leads(s, U)
         /\ Kind(T, n) = "block" => T = "otel_string"
         /\ T = "otel_string" =>
              \A m \in Members(T) : m.name = n
<1>1. PICK m \in Members(T) : m.name = n
  OBVIOUS
<1>2. MemberOf(T, n) = m /\ m.kind \in {"block", "plain"}
  BY <1>1, LayoutAssumption
<1>3. Kind(T, n) = m.kind
  BY <1>2 DEF Kind
<1>4. \A s, U : s.struct = T /\ s.member = n => ~Leads(s, U)
  BY <1>2, <1>3 DEF Leads
<1>5. T = "otel_bsp_options" => m.kind = "plain"
  BY LayoutAssumption
<1>6. T = "otel_string" => \A k \in Members(T) : k = m
  BY LayoutAssumption
<1> QED BY <1>1, <1>2, <1>3, <1>4, <1>5, <1>6 DEF Flat

\* Structs without memory of their own have no places but their members.
LEMMA FlatCell ==
  ASSUME E.root \in Flat, NEW c, Cell(c)
  PROVE  Len(c) = 1 /\ c \in Seq(Step) /\ c[1].struct = E.root
<1>1. c \in Seq(Step) /\ c /= <<>> /\ c[1].struct = E.root
  BY DEF Cell
<1>2. ASSUME Len(c) /= 1 PROVE FALSE
  <2>a. Len(c) \in Nat /\ Len(c) > 0
    BY <1>1
  <2>b. ASSUME NEW i \in Nat, i > 0, i /= 1 PROVE 1 \in 1..(i - 1)
    BY <2>b
  <2>1. 1 \in 1..(Len(c) - 1)
    BY <2>a, <2>b, <1>2
  <2>2. Leads(c[1], c[1 + 1].struct)
    BY <2>1 DEF Cell
  <2>3. IsMember(c[1])
    BY <2>2 DEF Leads
  <2>4. E.root \in DOMAIN Layout /\ \E m \in Members(E.root) : m.name = c[1].member
    BY <2>3, <1>1 DEF IsMember
  <2>5. \A s, U : s.struct = E.root /\ s.member = c[1].member => ~Leads(s, U)
    BY <2>4, FlatMembers
  <2> QED BY <2>2, <2>5, <1>1
<1> QED BY <1>1, <1>2

\* Nor any structs inside of them.
LEMMA FlatPath ==
  ASSUME E.root \in Flat, NEW p, NEW T, Path(p, T)
  PROVE  p = <<>> /\ T = E.root
<1>1. p \in Seq(Step) /\ (IF p = <<>> THEN T = E.root ELSE p[1].struct = E.root)
  BY DEF Path
<1>2. ASSUME p /= <<>> PROVE FALSE
  <2>1. 1 \in 1..Len(p)
    BY <1>1, <1>2
  <2>2. PICK U : Leads(p[1], U)
    BY <2>1 DEF Path
  <2>3. IsMember(p[1])
    BY <2>2 DEF Leads
  <2>4. E.root \in DOMAIN Layout /\ \E m \in Members(E.root) : m.name = p[1].member
    BY <2>3, <1>1, <1>2 DEF IsMember
  <2>5. \A s, V : s.struct = E.root /\ s.member = p[1].member => ~Leads(s, V)
    BY <2>4, FlatMembers
  <2> QED BY <2>2, <2>5, <1>1, <1>2
<1> QED BY <1>1, <1>2

\* What there is to give back when nobody gives anything back.
LEMMA FlatPlace ==
  ASSUME IInv, phase = "filling", todo /= <<>>, E.root \in Flat,
         What(Top).kind \in {"block", "array"}, NEW c \in DOMAIN mem, ~IsNumber(c)
  PROVE  c = Place(Top)
<1>1. /\ Top \in TaskTypes /\ TaskFits(Top) /\ IsShape(shape) /\ op \in DOMAIN Entry /\ Cell(c)
  BY TopFacts, CallFacts
<1>2. Top.at = <<>> /\ Top.struct = E.root
  BY <1>1, FlatPath DEF TaskFits
<1>3. Longer(Place(Top), Top.at, Top.struct, Top.entry.name, 0)
  BY <1>1, TaskPlaces
<1>4. /\ What(Top).kind = Kind(Top.struct, Top.entry.name)
      /\ IsMember([struct |-> Top.struct, member |-> Top.entry.name, index |-> 0])
  BY <1>1, TaskFacts
<1>5. Len(c) = 1 /\ c \in Seq(Step) /\ c[1].struct = E.root
  BY <1>1, FlatCell
<1> HIDE DEF Top
<1>6. StepFits(c, 1)
  <2>1. 1 \in 1..Len(c)
    BY <1>5
  <2> QED BY <2>1, <1>1, CellSteps
<1>7. E.root \in DOMAIN Layout /\ (\E m \in Members(E.root) : m.name = Top.entry.name)
      /\ (\E m \in Members(E.root) : m.name = c[1].member)
  BY <1>2, <1>4, <1>5, <1>6 DEF IsMember, StepFits
<1>8. E.root = "otel_string"
  <2>1. Kind(E.root, Top.entry.name) \in {"block", "plain"}
        /\ (Kind(E.root, Top.entry.name) = "block" => E.root = "otel_string")
    BY <1>7, FlatMembers
  <2> QED BY <2>1, <1>2, <1>4
<1>9. c[1].member = Top.entry.name
  <2>1. \A m \in Members(E.root) : m.name = Top.entry.name
    BY <1>7, <1>8, FlatMembers
  <2> QED BY <2>1, <1>7
<1>10. c[1].index = 0
  <2>1. Kind(c[1].struct, c[1].member) \in {"block", "plain"}
    BY <1>5, <1>7, FlatMembers
  <2> QED BY <2>1, <1>5, <1>6 DEF StepFits
<1>11. c[1] = [struct |-> Top.struct, member |-> Top.entry.name, index |-> 0]
  BY <1>2, <1>5, <1>6, <1>9, <1>10 DEF StepFits
<1>12. Place(Top) \in Seq(Step) /\ Len(Place(Top)) = 1 /\ Place(Top)[1] = c[1]
  BY <1>2, <1>3, <1>11 DEF Longer
<1>13. \A k \in 1..Len(c) : c[k] = Place(Top)[k]
  BY <1>5, <1>12
<1> QED BY <1>5, <1>12, <1>13, SeqsEqual

\* An allocation fails: all that is live is below a struct that somebody on the
\* way back gives back.
LEMMA FailCheckedStep ==
  ASSUME IInv, FailChecked
  PROVE  IInv'
<1>1. /\ phase = "filling" /\ todo /= <<>> /\ CanFail /\ mem' = Failed /\ Top.how = "checked"
      /\ catches' = Top.catches /\ phase' = "failing" /\ UNCHANGED <<op, shape, todo, met>>
  BY DEF FailChecked, CanFail, ToAllocate, Filling
<1>2. /\ mem' = [c \in DOMAIN mem |-> mem'[c]] /\ DOMAIN mem' = DOMAIN mem
      /\ What(Top).kind = "block" \/ (What(Top).kind = "array" /\ Top.next = 0)
      /\ \A c \in DOMAIN mem : mem'[c] = IF c = Place(Top) THEN "null" ELSE mem[c]
      /\ \A c \in DOMAIN mem :
           mem'[c] = mem[c] \/ (c \in {Place(Top), CountPlace(Top)} /\ Writes(c, Top))
  BY <1>1, FailedWrites
<1>3. /\ Top \in TaskTypes /\ TaskFits(Top) /\ IsShape(shape) /\ op \in DOMAIN Entry
      /\ \A c \in DOMAIN mem : Cell(c)
  BY <1>1, TopFacts, CallFacts
<1>4. Top.next = 0 /\ \A c \in DOMAIN mem : InZone(c, Top) => c[Len(Top.at) + 1].index <= 0
  BY <1>1, <1>2, TopClosed
<1>5. E.root \in Flat => \A c \in DOMAIN mem : ~IsNumber(c) => c = Place(Top)
  BY <1>1, <1>2, FlatPlace
<1>6. /\ Structs(Top.catches) /\ (E.catches /= <<>> => HasRoot(Top.catches))
      /\ E.catches /= <<>> \/ E.root \in Flat
      /\ Top.catches \in Seq(STRING \X Seq(Step))
  BY <1>1, <1>3, TaskTyped DEF TaskFits, HowFits
<1> HIDE DEF Top
<1>7. CellsFit'
  BY <1>1, <1>2, <1>3, ValuesFit
<1>8. \A c \in DOMAIN mem : Held(c)'
  <2>1. \A c \in DOMAIN mem : Held(c)
    BY <1>1 DEF IInv
  <2>2. \A c \in DOMAIN mem : c \notin {Place(Top), CountPlace(Top)} => mem'[c] = mem[c]
    BY <1>2
  <2> QED BY <2>1, <2>2, <1>2, <1>3, <1>4, HeldStays
<1>9. /\ E' = E
      /\ \A cs : (HasRoot(cs)' <=> HasRoot(cs)) /\ (Structs(cs)' <=> Structs(cs))
  BY <1>1, DataStays
<1>10. E.catches = <<>> => Live' = {}
  <2>1. \A c \in DOMAIN mem : IsNumber(c) => mem[c] /= "live"
    BY DEF IInv, CellsFit
  <2> QED BY <2>1, <1>2, <1>5, <1>6 DEF Live
<1>11. CatchesFit'
  <2>1. Structs(catches)'
    BY <1>1, <1>6, <1>9 DEF Structs, Path
  <2>2. E.catches /= <<>> => (E.catches /= <<>> /\ HasRoot(catches))'
    BY <1>1, <1>6, <1>9 DEF HasRoot
  <2>3. \A c \in Live' : Held(c)'
    BY <1>2, <1>8 DEF Live
  <2> QED BY <2>1, <2>2, <2>3, <1>10 DEF CatchesFit
<1>12. MetFits'
  BY <1>1, <1>9 DEF IInv, MetFits
<1>13. Typed'
  BY <1>1, <1>2, <1>6 DEF IInv, Typed
<1> QED BY <1>1, <1>7, <1>11, <1>12, <1>13 DEF IInv

-----------------------------------------------------------------------------
(* Giving back.                                                            *)

\* The headers of the environment are the only array that nobody counts.
LEMMA HeadersOnly ==
  ASSUME NEW c, Cell(c), IsShape(shape), op \in DOMAIN Entry,
         NEW k \in 1..Len(c), c[k].struct = "otel_strings"
  PROVE  /\ E.catches = <<>> /\ E.root = "otel_provider_http_options"
         /\ k = 2 /\ c[1].member = "http_headers"
<1>1. c \in Seq(Step) /\ c[1].struct = E.root
  BY DEF Cell
<1>2. E.root /= "otel_strings" /\ (E.root = "otel_provider_http_options" => E.catches = <<>>)
  BY EntryAssumption DEF E
<1>3. k /= 1
  BY <1>1, <1>2
<1> DEFINE i == k - 1
<1>4. i \in 1..Len(c) /\ i < Len(c) /\ k = i + 1
  BY <1>1, <1>3
<1> HIDE DEF i
<1>5. ASSUME NEW j \in 1..Len(c), j < Len(c)
      PROVE  /\ c[j].struct \in DOMAIN Layout /\ (\E m \in Members(c[j].struct) : m.name = c[j].member)
             /\ c[j + 1].struct \in Inner(c[j].struct, c[j].member)
  BY <1>5, CellSteps DEF StepFits, IsMember
<1>6. c[i].struct = "otel_provider_http_options" /\ c[i].member = "http_headers"
  BY <1>4, <1>5, OuterFacts
<1>7. i = 1
  <2>1. SUFFICES ASSUME i /= 1 PROVE FALSE
    OBVIOUS
  <2> DEFINE h == i - 1
  <2>2. h \in 1..Len(c) /\ h < Len(c) /\ i = h + 1
    BY <2>1, <1>1, <1>4
  <2> HIDE DEF h
  <2> QED BY <2>2, <1>5, <1>6, OuterFacts
<1> QED BY <1>1, <1>2, <1>4, <1>6, <1>7

\* A struct is no cell.
LEMMA StructsAreLonger ==
  ASSUME NEW p, NEW T, Path(p, T), NEW c, Cell(c), IsPrefix(p, c)
  PROVE  /\ p \in Seq(Step) /\ c \in Seq(Step) /\ Len(p) < Len(c)
         /\ \A k \in 1..Len(p) : p[k] = c[k]
<1>1. p \in Seq(Step) /\ c \in Seq(Step) /\ c /= <<>>
  BY DEF Path, Cell
<1>2. Len(p) <= Len(c) /\ \A k \in 1..Len(p) : p[k] = c[k]
  BY <1>1, PrefixOf
<1>3. ASSUME Len(p) = Len(c) PROVE FALSE
  <2>1. Len(c) \in 1..Len(p) /\ p[Len(c)] = c[Len(c)]
    BY <1>1, <1>2, <1>3
  <2>2. Leads(c[Len(c)], T)
    BY <2>1, <1>3 DEF Path
  <2> QED BY <2>2 DEF Leads, Cell
<1> QED BY <1>1, <1>2, <1>3

\* What is live is given back with the struct that it is in.
LEMMA LiveVisited ==
  ASSUME IInv, E.frees \/ E.catches /= <<>>, NEW p, NEW T, Path(p, T),
         NEW c \in Live, Held(c), IsPrefix(p, c),
         \A k \in 1..Len(c) : c[k].struct = "otel_strings" => c[k].index <= 0
  PROVE  c \in Visited(p, mem)
<1>1. /\ c \in DOMAIN mem /\ mem[c] = "live" /\ Cell(c) /\ IsShape(shape) /\ op \in DOMAIN Entry
      /\ c \in Seq(Step) /\ Followed(c) /\ ~IsNumber(c)
  BY CallFacts DEF Live, IInv, CellsFit
<1>2. Len(p) < Len(c) /\ Len(p) \in Nat /\ Len(c) \in Nat
  BY <1>1, StructsAreLonger
<1>3. E.fill \in Sides
  BY <1>1, EntryAssumption DEF E
<1>4. c[Len(c)].index /= -1 /\ Kind(c[Len(c)].struct, c[Len(c)].member) /= "plain"
  BY <1>1 DEF IsNumber, Last, Kind
<1>5. ASSUME NEW k \in 1..Len(c)
      PROVE  /\ c[k].struct \in DOMAIN FreeOrder
             /\ c[k].member \in ToSet(FreeOrder[c[k].struct])
  <2>1. /\ c[k].struct \in DOMAIN FillOrder[E.fill] /\ Handled(c[k].struct)
        /\ \E e \in Entries(E.fill, c[k].struct) : e.name = c[k].member
    BY <1>1 DEF Followed
  <2>2. c[k].struct \in DOMAIN FreeOrder
    BY <2>1 DEF Handled
  <2>3. PICK e \in Entries(E.fill, c[k].struct) : e.name = c[k].member
    BY <2>1
  <2>4. Kind(c[k].struct, c[k].member) /= "plain"
    <3>1. StepFits(c, k)
      BY <1>1, CellSteps
    <3> QED BY <3>1, <1>2, <1>4 DEF StepFits
  <2>5. Complete(E.fill, FreeOrder, DOMAIN FreeOrder \cap DOMAIN FillOrder[E.fill])
    BY <1>3, FreeAssumption
  <2> QED BY <2>1, <2>2, <2>3, <2>4, <2>5 DEF Complete
<1>6. ASSUME NEW k \in 1..Len(c), c[k].index > 0
      PROVE  mem[CountOf(c, k)] = "set" /\ mem[PointerOf(c, k)] \in {"live", "borrowed"}
  <2>1. HeldAt(c, k) /\ c[k] \in Step
    BY <1>1, <1>6 DEF Held
  <2>2. c[k].struct /= "otel_strings"
    BY <2>1, <1>6 DEF Step
  <2> QED BY <2>1, <2>2 DEF HeldAt
<1>7. \A k \in (Len(p) + 1)..Len(c) : k \in 1..Len(c)
  BY <1>2
<1>8. c \in Reached(FreeOrder, p, mem)
  BY <1>1, <1>5, <1>6, <1>7 DEF Reached
<1> QED BY <1>4, <1>6, <1>7, <1>8 DEF Visited, Last

\* What Free() does to the memory and to met.
LEMMA FreeFits ==
  ASSUME IInv, NEW p, NEW T, Path(p, T), Free(p), op' = op, shape' = shape
  PROVE  /\ mem' = [c \in DOMAIN mem |-> mem'[c]] /\ DOMAIN mem' = DOMAIN mem
         /\ \A c \in DOMAIN mem :
              IF c \in Visited(p, mem) THEN mem'[c] = Freed(mem, c) ELSE mem'[c] = mem[c]
         /\ Live' \subseteq Live \ Visited(p, mem)
         /\ CellsFit' /\ MetFits'
<1>1. /\ mem' = [c \in DOMAIN mem |-> mem'[c]] /\ DOMAIN mem' = DOMAIN mem
      /\ \A c \in DOMAIN mem :
           IF c \in Visited(p, mem) THEN mem'[c] = Freed(mem, c) ELSE mem'[c] = mem[c]
  BY DEF Free
<1>2. \A c \in DOMAIN mem : mem'[c] = mem[c] \/ (mem[c] /= "set" /\ mem'[c] = "null")
  BY <1>1 DEF Freed
<1>3. Live' \subseteq Live \ Visited(p, mem)
  BY <1>1, <1>2 DEF Live, Freed
<1>4. /\ E' = E
      /\ \A c : (Cell(c)' <=> Cell(c)) /\ (InBounds(c)' <=> InBounds(c))
      /\ \A c : (Followed(c)' <=> Followed(c))
  BY DataStays
<1>5. CellsFit
  BY DEF IInv
<1>6. CellsFit'
  <2>1. \A c \in DOMAIN mem' : Cell(c)' /\ InBounds(c)'
    BY <1>1, <1>4, <1>5 DEF CellsFit
  <2>2. \A c \in DOMAIN mem' : Kind(c[Len(c)].struct, c[Len(c)].member) = "array" =>
                               CountOf(c, Len(c)) \in DOMAIN mem'
    BY <1>1, <1>5 DEF CellsFit
  <2>3. \A c \in DOMAIN mem' :
           mem'[c] \in IF IsNumber(c) THEN {"garbage", "null", "set"}
                       ELSE {"garbage", "null", "live", "borrowed"}
    BY <1>1, <1>2, <1>5 DEF CellsFit
  <2>4. \A c \in DOMAIN mem' : c[Len(c)].struct = "otel_strings" /\ c[Len(c)].index = -1 =>
                               mem'[c] /= "set"
    BY <1>1, <1>2, <1>5 DEF CellsFit
  <2>5. \A c \in DOMAIN mem' : mem'[c] = "borrowed" =>
           /\ E.fill = "R" /\ c[Len(c)].struct \in Borrowers
           /\ c[Len(c)].struct = "otel_links" \/ shape.kind \in {"k_boolean_array", "k_double_array"}
    BY <1>1, <1>2, <1>5 DEF CellsFit
  <2>6. E.parses => \A c \in DOMAIN mem' : mem'[c] /= "garbage"
    BY <1>1, <1>2, <1>5 DEF CellsFit
  <2>7. \A c \in Live' : Followed(c)'
    BY <1>3, <1>4, <1>5 DEF CellsFit
  <2> QED BY <2>1, <2>2, <2>3, <2>4, <2>5, <2>6, <2>7, <1>4 DEF CellsFit
<1>7. ASSUME NEW c \in Visited(p, mem)
      PROVE  /\ c \in DOMAIN mem
             /\ mem[c] \in {"garbage", "null", "set", "live", "borrowed"}
             /\ mem'[c] \in {"null", "set"}
             /\ mem[c] = "borrowed" => shape.kind \in {"k_boolean_array", "k_double_array"}
  <2>1. /\ c \in DOMAIN mem /\ IsPrefix(p, c)
        /\ \A k \in (Len(p) + 1)..Len(c) : c[k].struct \in DOMAIN FreeOrder
    BY DEF Visited, Reached
  <2>2. /\ Cell(c)
        /\ mem[c] \in {"garbage", "null", "set", "live", "borrowed"}
        /\ mem[c] = "borrowed" =>
             c[Len(c)].struct = "otel_links" \/ shape.kind \in {"k_boolean_array", "k_double_array"}
    BY <2>1, <1>5 DEF CellsFit
  <2>3. p \in Seq(Step) /\ c \in Seq(Step) /\ Len(p) < Len(c)
    BY <2>1, <2>2, StructsAreLonger
  <2>4. Len(c) \in (Len(p) + 1)..Len(c)
    BY <2>3
  <2>5. c[Len(c)].struct /= "otel_links"
    BY <2>1, <2>4, FreeAssumption
  <2> QED BY <2>1, <2>2, <2>5, <1>1 DEF Freed
<1>8. MetFits'
  <2>1. met' = (met \cup {mem[c] : c \in Visited(p, mem)}
                    \cup {mem'[c] : c \in VisitedTwice(p, mem)}) \ {"null", "set", "live"}
    BY DEF Free
  <2>2. VisitedTwice(p, mem) \subseteq Visited(p, mem)
    BY DEF VisitedTwice
  <2>3. \A x \in met' : x \in met \/ \E c \in Visited(p, mem) : x = mem[c] /\ x \in {"garbage", "borrowed"}
    BY <2>1, <2>2, <1>7
  <2>4. MetFits
    BY DEF IInv
  <2>5. met' \subseteq {"garbage", "borrowed"}
    BY <2>3, <2>4 DEF MetFits
  <2>6. "borrowed" \in met' => shape.kind \in {"k_boolean_array", "k_double_array"}
    BY <2>3, <2>4, <1>7 DEF MetFits
  <2>7. E.parses => "garbage" \notin met'
    BY <2>3, <2>4, <1>5, <1>7 DEF MetFits, CellsFit
  <2> QED BY <2>5, <2>6, <2>7, <1>4 DEF MetFits
<1> QED BY <1>1, <1>3, <1>6, <1>8

\* What a live place hangs on stays as long as it does.
LEMMA HeldBack ==
  ASSUME IInv, E.frees \/ E.catches /= <<>>, NEW p, NEW T, Path(p, T), Free(p),
         op' = op, shape' = shape, NEW c \in Live', Held(c),
         \A k \in 1..Len(c) : c[k].struct = "otel_strings" => c[k].index <= 0
  PROVE  Held(c)'
<1>1. /\ DOMAIN mem' = DOMAIN mem
      /\ \A d \in DOMAIN mem :
           IF d \in Visited(p, mem) THEN mem'[d] = Freed(mem, d) ELSE mem'[d] = mem[d]
      /\ c \in Live /\ c \notin Visited(p, mem)
  BY FreeFits
<1>2. c \in DOMAIN mem /\ Cell(c) /\ c \in Seq(Step)
  BY <1>1, CallFacts DEF Live
<1>3. ~IsPrefix(p, c)
  BY <1>1, LiveVisited
<1> SUFFICES ASSUME NEW k \in 1..Len(c), c[k].index > 0 PROVE HeldAt(c, k)'
  BY DEF Held
<1>4. HeldAt(c, k)
  BY DEF Held
<1> DEFINE q == PointerOf(c, k) n == CountOf(c, k)
<1>5. /\ q \in Seq(Step) /\ Len(q) = k /\ \A j \in 1..(k - 1) : q[j] = c[j]
  BY <1>2, HangsOn
<1>6. /\ q \in DOMAIN mem /\ n \in DOMAIN mem /\ mem[q] \in {"live", "borrowed"}
      /\ c[k].struct /= "otel_strings" => mem[n] = "set"
  BY <1>4 DEF HeldAt
<1> HIDE DEF q, n
<1>7. q \notin Visited(p, mem)
  <2>1. SUFFICES ASSUME IsPrefix(p, q) PROVE FALSE
    BY DEF Visited, Reached
  <2>2. p \in Seq(Step) /\ Len(p) < Len(q) /\ \A j \in 1..Len(p) : p[j] = q[j]
    BY <2>1, <1>6, CallFacts, StructsAreLonger
  <2>a. Len(p) \in Nat /\ Len(p) < k /\ k <= Len(c) /\ Len(c) \in Nat
    BY <2>2, <1>2, <1>5
  <2>b. \A j \in 1..Len(p) : j \in 1..(k - 1)
    BY <2>a
  <2>3. Len(p) <= Len(c) /\ \A j \in 1..Len(p) : p[j] = c[j]
    BY <2>a, <2>b, <2>2, <1>5
  <2> QED BY <2>2, <2>3, <1>2, <1>3, PrefixOf
<1>8. mem'[q] = mem[q] /\ (mem[n] = "set" => mem'[n] = "set")
  BY <1>1, <1>6, <1>7 DEF Freed
<1> QED BY <1>1, <1>6, <1>8 DEF HeldAt, q, n

\* One of the functions on the way back gives its struct back.
LEMMA CatchStep ==
  ASSUME IInv, Catch
  PROVE  IInv'
<1>1. /\ phase = "failing" /\ catches /= <<>> /\ catches' = Tail(catches)
      /\ UNCHANGED <<op, shape, todo, phase>>
  BY DEF Catch
<1>2. /\ CatchesFit /\ catches \in Seq(STRING \X Seq(Step)) /\ IsShape(shape) /\ op \in DOMAIN Entry
  BY <1>1, CallFacts DEF IInv
<1> DEFINE p == catches[1][2] T == catches[1][1]
<1>3. /\ Free(p) /\ Path(p, T)
  <2>1. Free(catches[1][2])
    BY DEF Catch
  <2>2. 1 \in DOMAIN catches
    BY <1>1, <1>2
  <2> QED BY <2>1, <2>2, <1>2 DEF CatchesFit, Structs
<1> HIDE DEF T
<1>4. /\ mem' = [c \in DOMAIN mem |-> mem'[c]] /\ DOMAIN mem' = DOMAIN mem
      /\ Live' \subseteq Live \ Visited(p, mem)
      /\ CellsFit' /\ MetFits'
  BY <1>1, <1>3, FreeFits
<1>5. /\ Tail(catches) \in Seq(STRING \X Seq(Step)) /\ Len(Tail(catches)) = Len(catches) - 1
      /\ \A i \in DOMAIN Tail(catches) : i + 1 \in DOMAIN catches /\ Tail(catches)[i] = catches[i + 1]
      /\ Len(catches) \in Nat /\ Len(catches) >= 1
  BY <1>1, <1>2
<1>6. /\ E' = E
      /\ \A cs : (HasRoot(cs)' <=> HasRoot(cs)) /\ (Structs(cs)' <=> Structs(cs))
      /\ \A r, U : Path(r, U)' <=> Path(r, U)
  BY <1>1, DataStays
<1>7. Structs(catches)'
  <2>1. Structs(Tail(catches))
    BY <1>2, <1>5 DEF CatchesFit, Structs
  <2> QED BY <2>1, <1>1, <1>6 DEF Structs
<1>8. ASSUME Live /= {}
      PROVE  /\ E.catches /= <<>> /\ HasRoot(catches)
             /\ \A c \in Live : Held(c) /\ Cell(c) /\ c \in Seq(Step)
             /\ \A c \in Live : \A k \in 1..Len(c) : c[k].struct = "otel_strings" => c[k].index <= 0
  <2>1. E.catches /= <<>> /\ HasRoot(catches) /\ \A c \in Live : Held(c)
    BY <1>2, <1>8 DEF CatchesFit
  <2>2. \A c \in Live : Cell(c) /\ c \in Seq(Step)
    BY CallFacts DEF Live
  <2> QED BY <2>1, <2>2, <1>2, HeadersOnly
<1>9. Live' = {} \/ (E.catches /= <<>> /\ HasRoot(catches'))
  <2>1. SUFFICES ASSUME Live' /= {} PROVE E.catches /= <<>> /\ HasRoot(catches')
    OBVIOUS
  <2>2. PICK c : c \in Live'
    BY <2>1
  <2>3. c \in Live /\ c \notin Visited(p, mem)
    BY <2>2, <1>4
  <2>4. E.catches /= <<>> /\ HasRoot(catches) /\ c \in Seq(Step)
    BY <2>3, <1>8
  <2>5. ~IsPrefix(p, c)
    BY <2>3, <2>4, <1>3, <1>8, LiveVisited
  <2>6. p /= <<>>
    <3>1. <<>> \in Seq(Step) /\ Len(<<>>) = 0
      OBVIOUS
    <3>2. IsPrefix(<<>>, c)
      BY <2>4 DEF IsPrefix
    <3> QED BY <2>5, <3>2
  <2>7. Len(catches) /= 1
    BY <2>4, <2>6 DEF HasRoot
  <2>8. /\ Tail(catches) /= <<>>
        /\ Tail(catches)[Len(Tail(catches))] = catches[Len(catches)]
    <3> DEFINE cs == Tail(catches)
    <3>1. /\ cs \in Seq(STRING \X Seq(Step)) /\ Len(cs) = Len(catches) - 1
          /\ \A i \in DOMAIN cs : cs[i] = catches[i + 1]
          /\ Len(catches) \in Nat /\ Len(catches) > 1
      BY <2>7, <1>5
    <3> HIDE DEF cs
    <3>2. Len(cs) \in DOMAIN cs /\ Len(cs) + 1 = Len(catches) /\ cs /= <<>>
      BY <3>1
    <3>3. cs[Len(cs)] = catches[Len(catches)]
      BY <3>1, <3>2
    <3> QED BY <3>2, <3>3 DEF cs
  <2> QED BY <2>4, <2>8, <1>1 DEF HasRoot
<1>10. \A c \in Live' : Held(c)'
  <2> SUFFICES ASSUME NEW c \in Live' PROVE Held(c)'
    OBVIOUS
  <2>1. c \in Live
    BY <1>4
  <2>2. /\ E.catches /= <<>> /\ Held(c)
        /\ \A k \in 1..Len(c) : c[k].struct = "otel_strings" => c[k].index <= 0
    BY <2>1, <1>8
  <2> HIDE DEF p
  <2> QED BY <2>2, <1>1, <1>3, HeldBack
<1>11. CatchesFit'
  <2>1. Live' = {} \/ (E.catches /= <<>> /\ HasRoot(catches))'
    BY <1>6, <1>9 DEF HasRoot
  <2> QED BY <2>1, <1>7, <1>10 DEF CatchesFit
<1>12. Typed'
  BY <1>1, <1>4, <1>5 DEF IInv, Typed
<1> QED BY <1>1, <1>4, <1>11, <1>12 DEF IInv

\* The caller gives back all that the call filled.
LEMMA GiveBackStep ==
  ASSUME IInv, GiveBack
  PROVE  IInv'
<1>1. /\ phase = "read" /\ E.frees /\ Free(<<>>) /\ phase' \in {"done", "wild"}
      /\ UNCHANGED <<op, shape, todo, catches>>
  BY DEF GiveBack
<1>2. Path(<<>>, E.root)
  BY DEF Path
<1>3. /\ mem' = [c \in DOMAIN mem |-> mem'[c]] /\ DOMAIN mem' = DOMAIN mem
      /\ Live' \subseteq Live \ Visited(<<>>, mem)
      /\ CellsFit' /\ MetFits'
  BY <1>1, <1>2, FreeFits
<1>4. Live' \subseteq UncountedHeaders
  <2> SUFFICES ASSUME NEW c \in Live' PROVE c \in UncountedHeaders
    OBVIOUS
  <2>1. /\ c \in DOMAIN mem /\ Cell(c) /\ Held(c) /\ c \in Seq(Step) /\ IsShape(shape)
        /\ op \in DOMAIN Entry /\ c \in Live /\ c \notin Visited(<<>>, mem)
    BY <1>1, <1>3, CallFacts DEF Live, IInv
  <2>2. IsPrefix(<<>>, c)
    BY <2>1 DEF IsPrefix
  <2>3. PICK k \in 1..Len(c) : c[k].struct = "otel_strings" /\ ~(c[k].index <= 0)
    BY <2>1, <2>2, <1>1, <1>2, LiveVisited
  <2>4. k = 2 /\ E.root = "otel_provider_http_options" /\ c[1].member = "http_headers"
    BY <2>1, <2>3, HeadersOnly
  <2>5. k < Len(c)
    <3>1. StepFits(c, k) /\ c[k].index \in Int
      BY <2>1, CellSteps DEF StepFits
    <3> QED BY <3>1, <2>3 DEF StepFits
  <2> QED BY <2>1, <2>4, <2>5 DEF UncountedHeaders
<1>5. Live' \subseteq UncountedHeaders'
  <2>1. UncountedHeaders' = UncountedHeaders
    BY <1>1, <1>3 DEF UncountedHeaders, E
  <2> QED BY <2>1, <1>4
<1>6. Typed'
  BY <1>1, <1>3 DEF IInv, Typed
<1> QED BY <1>1, <1>3, <1>5, <1>6 DEF IInv

-----------------------------------------------------------------------------
(* The beginning of a call.                                                *)

\* t is what Task() makes of its arguments.
IsTask(t, e, T, p, how, caught) ==
  /\ t.entry = e /\ t.struct = T /\ t.at = p /\ t.catches = caught
  /\ t.how = IF e.how = "as called" THEN how ELSE e.how
  /\ t.next = IF t.entry.part = "elements" THEN 1 ELSE 0

\* The fields of a new task.
LEMMA TaskIs ==
  \A e, T, p, how, caught : IsTask(Task(e, T, p, how, caught), e, T, p, how, caught)
<1> SUFFICES ASSUME NEW e, NEW T, NEW p, NEW how, NEW caught
             PROVE  IsTask(Task(e, T, p, how, caught), e, T, p, how, caught)
  OBVIOUS
<1> DEFINE t == Task(e, T, p, how, caught)
<1> DEFINE g == IF e.how = "as called" THEN how ELSE e.how
           n == IF e.part = "elements" THEN 1 ELSE 0
<1>1. t = [entry |-> e, struct |-> T, at |-> p, how |-> g, catches |-> caught, next |-> n]
  BY DEF Task
<1> HIDE DEF g, n, t
<1>2. t.entry = e /\ t.struct = T /\ t.at = p /\ t.catches = caught /\ t.how = g /\ t.next = n
  BY <1>1
<1> QED BY <1>2 DEF g, n, t, IsTask

\* A call begins with its memory in order.
LEMMA InitStep ==
  ASSUME Init
  PROVE  IInv
<1> DEFINE parts == Tasks(E.fill, E.root, <<>>, E.how, E.catches)
           cells == CellsOf(E.root, <<>>, shape)
<1>1. /\ <<op, shape>> \in Inputs /\ op \in DOMAIN Entry /\ IsShape(shape)
      /\ mem = [c \in cells |-> IF c[1].member \in E.zeroed THEN "null" ELSE "garbage"]
      /\ todo = parts /\ catches = <<>> /\ phase = "called" /\ met = {}
  <2>1. PICK i \in Inputs : op = i[1] /\ shape = i[2]
    BY DEF Init
  <2>2. <<op, shape>> = i
    BY <2>1, TransferAssumption
  <2> QED BY <2>1, <2>2, TransferAssumption DEF Init
<1>2. /\ E.fill \in Sides /\ E.root \in DOMAIN FillOrder[E.fill] /\ E.root \in DOMAIN Layout
      /\ E.root \in STRING
  <2>1. E.fill \in Sides /\ E.root \in DOMAIN FillOrder[E.fill]
    BY <1>1, EntryAssumption DEF E
  <2>2. E.root \in DOMAIN Layout
    BY <2>1, FillAssumption
  <2> QED BY <2>1, <2>2, LayoutAssumption
<1>3. Path(<<>>, E.root) /\ InBounds(<<>>) /\ Followed(<<>>) /\ <<>> \in Seq(Step)
  BY DEF Path, InBounds, Followed
<1>4. ASSUME NEW c \in cells
      PROVE  /\ Cell(c) /\ InBounds(c) /\ c \in Seq(Step) /\ c /= <<>> /\ Len(c) \in Nat
             /\ \A k \in 1..Len(c) : c[k].index <= 0
             /\ c[1].struct = E.root /\ Counted(c, cells) /\ 1 \in 1..Len(c)
             /\ c[1].member \in MemberNames(E.root)
  <2>1. IsOf(c, <<>>, E.root) /\ Counted(c, cells)
    BY <1>1, <1>2, <1>3, CellsOfFit
  <2>2. Cell(c) /\ c \in Seq(Step) /\ c /= <<>> /\ c[1].struct = E.root
    BY <2>1 DEF IsOf, Cell
  <2>3. \A k \in 1..Len(c) : c[k].index <= 0
    <3>1. Len(<<>>) + 1 = 1
      OBVIOUS
    <3> QED BY <2>1, <3>1 DEF IsOf
  <2>4. 1 \in 1..Len(c) /\ Len(c) \in Nat
    BY <2>2
  <2>5. IsMember(c[1])
    BY <2>2, <2>4, <1>1, CellSteps DEF StepFits
  <2>6. c[1].member \in MemberNames(E.root)
    BY <2>2, <2>5 DEF IsMember, MemberNames, Members
  <2> QED BY <2>1, <2>2, <2>3, <2>4, <2>6 DEF IsOf
<1> HIDE DEF cells
<1>5. /\ DOMAIN mem = cells /\ mem = [c \in DOMAIN mem |-> mem[c]]
      /\ \A c \in cells : /\ mem[c] \in {"null", "garbage"}
                          /\ c[1].member \in E.zeroed => mem[c] = "null"
  BY <1>1
<1>6. Live = {}
  BY <1>5 DEF Live
<1>7. CellsFit
  <2>1. \A c \in DOMAIN mem : Kind(c[Len(c)].struct, c[Len(c)].member) = "array" =>
                              CountOf(c, Len(c)) \in DOMAIN mem
    BY <1>4, <1>5 DEF Counted
  <2>2. E.parses => \A c \in DOMAIN mem : mem[c] /= "garbage"
    <3>1. E.parses => MemberNames(E.root) \subseteq E.zeroed
      BY <1>1, EntryAssumption DEF E
    <3> QED BY <3>1, <1>4, <1>5
  <2>3. \A c \in DOMAIN mem : mem[c] \in {"null", "garbage"}
    BY <1>5
  <2>4. \A c \in DOMAIN mem : Cell(c) /\ InBounds(c)
    BY <1>4, <1>5
  <2> QED BY <2>1, <2>2, <2>3, <2>4, <1>6 DEF CellsFit
<1>8. \A c \in DOMAIN mem : Held(c)
  <2> SUFFICES ASSUME NEW c \in DOMAIN mem, NEW k \in 1..Len(c), c[k].index > 0 PROVE FALSE
    BY DEF Held
  <2>1. c[k].index <= 0 /\ StepFits(c, k)
    BY <1>1, <1>4, <1>5, CellSteps
  <2> QED BY <2>1 DEF StepFits
<1> DEFINE order == FillOrder[E.fill][E.root]
<1>9. /\ order \in Seq(Entries(E.fill, E.root))
      /\ \A e \in Entries(E.fill, E.root) :
           e \in EntryTypes /\ \E m \in Members(E.root) : m.name = e.name
  BY <1>2, FillAssumption, EntryTypeAssumption
<1>10. /\ E.how \in STRING \ {"as called", "abandoning", "borrowed", "R_alloc"}
       /\ E.catches \in {<<>>, <<<<E.root, <<>>>>>>}
       /\ E.catches = <<>> /\ E.fill = "library" =>
            E.root \in Uncaughts /\ (E.how = "checked" => E.root \in Flat)
       /\ E.catches = <<>> /\ E.fill = "R" => E.how /= "checked"
       /\ E.frees \/ E.catches /= <<>> => E.root \in DOMAIN FreeOrder
       /\ E.root \notin Borrowers /\ E.root /= "otel_strings"
       /\ E.parses => E.root \in Decoded
  BY <1>1, EntryAssumption DEF E
<1>11. /\ \A n \in MemberNames(E.root) : Clean(E.root, n) => n \in E.zeroed
       /\ \A e \in Entries(E.fill, E.root) : ~Unallocated(E.fill, E.root, e)
  BY <1>1, EntryAssumption DEF E
<1>12. Structs(E.catches) /\ (E.catches /= <<>> => HasRoot(E.catches))
       /\ E.catches \in Seq(STRING \X Seq(Step))
  <2>1. CASE E.catches = <<>>
    BY <2>1 DEF Structs
  <2>2. CASE E.catches = <<<<E.root, <<>>>>>>
    <3> DEFINE r == E.root
    <3>1. r \in STRING /\ Path(<<>>, r) /\ <<>> \in Seq(Step)
      BY <1>2, <1>3
    <3> HIDE DEF r
    <3>2. <<r, <<>>>> \in STRING \X Seq(Step) /\ <<r, <<>>>>[1] = r /\ <<r, <<>>>>[2] = <<>>
      BY <3>1
    <3> DEFINE b == <<r, <<>>>>
    <3>3. b \in STRING \X Seq(Step) /\ Path(b[2], b[1])
      BY <3>1, <3>2
    <3> HIDE DEF b
    <3>4. /\ <<b>> \in Seq(STRING \X Seq(Step)) /\ Len(<<b>>) = 1 /\ <<b>>[1] = b
          /\ <<b>> /= <<>> /\ DOMAIN <<b>> = {1}
      BY <3>3
    <3>5. E.catches = <<b>>
      BY <2>2 DEF b, r
    <3>6. Structs(E.catches)
      BY <3>3, <3>4, <3>5 DEF Structs
    <3>7. HasRoot(E.catches)
      BY <3>4, <3>5 DEF HasRoot, b, r
    <3> QED BY <3>4, <3>5, <3>6, <3>7
  <2> QED BY <2>1, <2>2, <1>10
<1>13. ASSUME NEW j \in DOMAIN order
       PROVE  /\ Task(order[j], E.root, <<>>, E.how, E.catches) \in TaskTypes
              /\ order[j] \in Entries(E.fill, E.root) /\ order[j] \in EntryTypes
  <2>1. order[j] \in Entries(E.fill, E.root) /\ order[j] \in EntryTypes
    BY <1>9
  <2> HIDE DEF order
  <2>2. order[j].how \in STRING
    BY <2>1 DEF EntryTypes
  <2>3. (IF order[j].how = "as called" THEN E.how ELSE order[j].how) \in STRING
        /\ (IF order[j].part = "elements" THEN 1 ELSE 0) \in Nat
    BY <2>2, <1>10
  <2> QED BY <2>1, <2>3, <1>2, <1>3, <1>12, Zenon DEF Task, TaskTypes
<1>14. /\ parts = [j \in DOMAIN order |-> Task(order[j], E.root, <<>>, E.how, E.catches)]
  BY DEF Tasks
<1> HIDE DEF order, parts
<1>15. /\ parts \in Seq(TaskTypes) /\ Len(parts) = Len(order) /\ DOMAIN parts = DOMAIN order
       /\ DOMAIN parts = 1..Len(parts)
       /\ \A j \in DOMAIN parts : parts[j] = Task(order[j], E.root, <<>>, E.how, E.catches)
  BY <1>9, <1>13, <1>14
<1>16. ASSUME NEW j \in DOMAIN parts
       PROVE  /\ parts[j] \in TaskTypes /\ parts[j].entry = order[j]
              /\ parts[j].entry \in Entries(E.fill, E.root)
              /\ parts[j].struct = E.root /\ parts[j].at = <<>> /\ parts[j].catches = E.catches
              /\ parts[j].how = IF order[j].how = "as called" THEN E.how ELSE order[j].how
              /\ parts[j].next = IF parts[j].entry.part = "elements" THEN 1 ELSE 0
  <2>1. /\ order[j] \in Entries(E.fill, E.root)
        /\ Task(order[j], E.root, <<>>, E.how, E.catches) \in TaskTypes
        /\ parts[j] = Task(order[j], E.root, <<>>, E.how, E.catches)
    BY <1>13, <1>15
  <2> DEFINE e == order[j] t == parts[j] T == E.root h == E.how cs == E.catches
  <2>2. e \in Entries(E.fill, T) /\ t \in TaskTypes /\ t = Task(e, T, <<>>, h, cs)
    BY <2>1
  <2> HIDE DEF e, t, T, h, cs
  <2>3. IsTask(t, e, T, <<>>, h, cs)
    BY <2>2, TaskIs, Zenon
  <2> QED BY <2>2, <2>3, Zenon DEF e, t, T, h, cs, IsTask
<1>17. IsParts(parts, E.fill, E.root, <<>>)
  BY <1>15, <1>16 DEF IsParts, order
<1>18. Handled(E.root)
  <2>1. AllRead(op) => E.root \in Readable(op)
    BY <1>1, ReadAssumption DEF E
  <2> QED BY <2>1, <1>10 DEF Handled
<1>19. ASSUME NEW j \in DOMAIN parts PROVE TaskFits(parts[j])
  <2> DEFINE t == parts[j]
  <2>1. /\ t.entry \in Entries(E.fill, E.root) /\ t.struct = E.root /\ t.at = <<>>
        /\ t.catches = E.catches
        /\ t.how = IF t.entry.how = "as called" THEN E.how ELSE t.entry.how
        /\ t.next = IF t.entry.part = "elements" THEN 1 ELSE 0
    BY <1>16
  <2> HIDE DEF t
  <2>2. HowGoes(E.fill, E.root, t.entry)
    BY <2>1, <1>2, HowAssumption
  <2>3. HowFits(t)
    <3>1. t.how /= "as called"
      BY <2>1, <1>10
    <3>2. t.how = "abandoning" => t.struct = "otel_strings"
      BY <2>1, <2>2, <1>10 DEF HowGoes
    <3>3. t.how \in {"borrowed", "R_alloc"} => E.fill = "R" /\ t.struct \in Borrowers
      BY <2>1, <2>2, <1>10 DEF HowGoes
    <3>4. t.how = "checked" => E.catches /= <<>> \/ E.root \in Flat
      <4>1. E.fill = "R" \/ E.fill = "library"
        BY <1>2 DEF Sides
      <4> QED BY <4>1, <2>1, <2>2, <1>10 DEF HowGoes, Flat
    <3>5. t.how /= t.entry.how => t.struct = "otel_string"
      BY <2>1, <2>2 DEF HowGoes
    <3> QED BY <3>1, <3>2, <3>3, <3>4, <3>5 DEF HowFits
  <2>4. /\ t.entry.part = "all" /\ t.next > 0 => What(t).kind = "array"
        /\ t.entry.part = "array" => t.next = 0
        /\ t.entry.part = "elements" => t.next > 0
    <3>1. t.entry.part = "elements" => t.next = 1
      BY <2>1
    <3>2. t.entry.part /= "elements" => t.next = 0
      BY <2>1
    <3> QED BY <3>1, <3>2
  <2>5. Path(t.at, t.struct) /\ Followed(t.at) /\ InBounds(t.at)
    BY <2>1, <1>3
  <2>6. Structs(t.catches) /\ (E.catches /= <<>> => HasRoot(t.catches))
    BY <2>1, <1>12
  <2>7. TaskFits(t)
    BY <2>1, <2>3, <2>4, <2>5, <2>6, <1>2, <1>10, <1>18 DEF TaskFits
  <2> QED BY <2>7 DEF t
<1>20. AllApart /\ Promised
  <2>1. /\ \A i, j \in 1..Len(parts) :
              i < j => Partners(parts[i], parts[j]) \/ Apart(parts[i], parts[j])
        /\ \A i \in 1..Len(parts) : parts[i].entry.part = "array" =>
              \E j \in 1..Len(parts) : i < j /\ Partners(parts[i], parts[j])
    BY <1>2, <1>17, PartsApart
  <2> QED BY <2>1, <1>1, <1>15 DEF AllApart, Promised
<1>21. Unopened
  <2> SUFFICES ASSUME NEW i \in DOMAIN parts, NEW c \in cells, InZone(c, parts[i])
               PROVE  /\ parts[i].next = 0 => c[Len(parts[i].at) + 1].index <= 0
                      /\ \A k \in (Len(parts[i].at) + 2)..Len(c) : c[k].index <= 0
    BY <1>1, <1>5 DEF Unopened
  <2>1. Len(parts[i].at) = 0
    <3>1. parts[i].at = <<>>
      BY <1>16
    <3> QED BY <3>1
  <2> QED BY <2>1, <1>4
<1>22. CleanStays
  <2> SUFFICES ASSUME NEW i \in DOMAIN parts, IsClean(parts[i]), NEW c \in cells, InZone(c, parts[i])
               PROVE  mem[c] /= "garbage"
    BY <1>1, <1>5 DEF CleanStays
  <2> DEFINE t == parts[i]
  <2>1. t.at = <<>> /\ t.struct = E.root /\ t.next \in {0, 1}
    BY <1>16
  <2>2. IsClean(t) /\ InZone(c, t)
    OBVIOUS
  <2> HIDE DEF t
  <2>3. Len(t.at) + 1 = 1
    <3>1. t.at = <<>>
      BY <2>1
    <3> QED BY <3>1
  <2>4. c[1].member = t.entry.name /\ (t.next > 0 => c[1].index >= t.next)
    BY <2>2, <2>3 DEF InZone
  <2>5. c[1].index <= 0 /\ c[1].index \in Int /\ c[1].member \in MemberNames(E.root)
    BY <1>1, <1>4, CellSteps DEF StepFits
  <2>6. t.next = 0
    BY <2>1, <2>4, <2>5
  <2>7. Clean(E.root, c[1].member)
    BY <2>1, <2>2, <2>4, <2>6 DEF IsClean
  <2> QED BY <2>5, <2>7, <1>5, <1>11
<1>23. Covered
  <2> SUFFICES ASSUME NEW c \in cells
               PROVE  Ignored(c) \/ \E i \in DOMAIN parts : InZone(c, parts[i])
    BY <1>1, <1>5 DEF Covered
  <2>1. Len(<<>>) = 0 /\ Len(<<>>) + 1 = 1 /\ \A k \in 1..Len(<<>>) : c[k] = <<>>[k]
    OBVIOUS
  <2>2. Len(<<>>) < Len(c) /\ c[Len(<<>>) + 1].struct = E.root /\ c \in Seq(Step)
    BY <2>1, <1>4
  <2>3. \/ Ignored(c)
        \/ \E j \in 1..Len(parts) : InZone(c, parts[j])
        \/ \E d \in Entries(E.fill, E.root) : Unallocated(E.fill, E.root, d)
    BY <2>1, <2>2, <1>1, <1>2, <1>3, <1>17, PartsCover
  <2> QED BY <2>3, <1>11, <1>15
<1>24. TodoFits
  <2>1. \A i \in DOMAIN todo : TaskFits(todo[i])
    BY <1>1, <1>19
  <2> QED BY <2>1, <1>6, <1>20, <1>21, <1>22, <1>23 DEF TodoFits
<1>25. Typed
  BY <1>1, <1>5, <1>15 DEF Typed
<1>26. MetFits
  BY <1>1 DEF MetFits
<1> QED BY <1>1, <1>7, <1>8, <1>24, <1>25, <1>26 DEF IInv

-----------------------------------------------------------------------------
(* The invariant holds.                                                    *)

\* Each step keeps it so.
LEMMA Inductive ==
  ASSUME IInv, [Next]_vars
  PROVE  IInv'
<1>1. CASE UNCHANGED vars
  <2>1. /\ UNCHANGED <<op, shape, mem, todo, catches, met>> /\ phase' = phase
    BY <1>1 DEF vars
  <2>2. /\ E' = E
        /\ \A c : (Cell(c)' <=> Cell(c)) /\ (InBounds(c)' <=> InBounds(c))
        /\ \A c : (Followed(c)' <=> Followed(c)) /\ (Ignored(c)' <=> Ignored(c))
        /\ \A cs : (HasRoot(cs)' <=> HasRoot(cs)) /\ (Structs(cs)' <=> Structs(cs))
        /\ \A t : TaskFits(t)' <=> TaskFits(t)
    BY <2>1, DataStays
  <2>3. /\ MetFits' /\ CellsFit' /\ Live' = Live /\ UncountedHeaders' = UncountedHeaders
        /\ \A c : Held(c)' <=> Held(c)
    BY <2>1, SameMemory DEF IInv
  <2>4. Typed'
    BY <2>1 DEF IInv, Typed
  <2>5. TodoFits => TodoFits'
    BY <2>1, <2>2, <2>3
       DEF TodoFits, AllApart, Promised, Unopened, CleanStays, Covered
  <2>6. CatchesFit => CatchesFit'
    BY <2>1, <2>2, <2>3 DEF CatchesFit, Structs, HasRoot, Path
  <2> QED BY <2>1, <2>3, <2>4, <2>5, <2>6 DEF IInv
<1>2. CASE \/ Malformed \/ Begin \/ NullWrite \/ AllCaught \/ FailUnchecked
           \/ FailThrowing \/ Read \/ ReadThrows \/ Keep
  BY <1>2, SameMemorySteps
<1>3. CASE NotGiven
  BY <1>3, NotGivenStep
<1>4. CASE FillNumber
  <2>1. /\ phase = "filling" /\ todo /= <<>> /\ What(Top).kind = "plain"
        /\ Done([mem EXCEPT ![Place(Top)] = "set"])
    BY <1>4 DEF FillNumber, Filling
  <2> QED BY <2>1, LeafStep
<1>5. CASE FillBlock
  <2>1. /\ phase = "filling" /\ todo /= <<>> /\ What(Top).kind = "block"
        /\ Done([mem EXCEPT ![Place(Top)] = Ours(Top.how)])
    BY <1>5 DEF FillBlock, Filling
  <2> QED BY <2>1, LeafStep
<1>6. CASE FillStruct
  BY <1>6, FillStructStep
<1>7. CASE FillEmpty
  BY <1>7, FillEmptyStep
<1>8. CASE FillArray
  BY <1>8, FillArrayStep
<1>9. CASE FillElement
  BY <1>9, FillElementStep
<1>10. CASE NoElements
  BY <1>10, NoElementsStep
<1>11. CASE FailChecked
  BY <1>11, FailCheckedStep
<1>12. CASE Catch
  BY <1>12, CatchStep
<1>13. CASE FailOptional
  BY <1>13, FailOptionalStep
<1>14. CASE FailAbandoning
  BY <1>14, FailAbandoningStep
<1>15. CASE GiveBack
  BY <1>15, GiveBackStep
<1> QED
  BY <1>1, <1>2, <1>3, <1>4, <1>5, <1>6, <1>7, <1>8, <1>9, <1>10, <1>11, <1>12,
     <1>13, <1>14, <1>15 DEF Next

\* The memory of a call is what the invariant says, at every step of every
\* entry point, for any data and whichever allocation fails.
THEOREM MemoryFits == Spec => []IInv
<1>1. Init => IInv
  BY InitStep
<1>2. IInv /\ [Next]_vars => IInv'
  BY Inductive
<1> QED
  BY <1>1, <1>2, PTL DEF Spec

-----------------------------------------------------------------------------
(* The properties.                                                         *)

\* A pointer is never taken for a number or a number for a pointer, in the
\* members of the structs (otel_common.h) that any entry point fills.
THEOREM TypeCorrect == Spec => []TypeOK
<1>1. IInv => TypeOK
  <2> SUFFICES ASSUME IInv PROVE TypeOK
    OBVIOUS
  <2>1. \A c \in DOMAIN mem :
          mem[c] \in IF IsNumber(c) THEN {"garbage", "null", "set"} ELSE States \ {"set"}
    BY DEF IInv, CellsFit, States
  <2>2. /\ <<op, shape>> \in Inputs
        /\ phase \in {"called", "filling", "failing", "read", "done", "failed", "crashed",
                      "jumped", "wild", "kept"}
        /\ met \subseteq {"garbage", "borrowed", "dangling"}
    BY DEF IInv, Typed, MetFits
  <2> QED BY <2>1, <2>2 DEF TypeOK
<1> QED
  BY <1>1, MemoryFits, PTL

\* No otel_*_free() (wrap-r.c) gives a block back that was given back before,
\* and only vectors of logicals and doubles are memory of R that it gives back.
THEOREM OwnMemoryFreed == Spec => []FreesOnlyItsOwn
<1>1. IInv => FreesOnlyItsOwn
  BY DEF IInv, MetFits, FreesOnlyItsOwn
<1> QED
  BY <1>1, MemoryFits, PTL

\* The decoders (collector.cc) clean up after themselves without giving back
\* a member that they have not filled, wherever they fail.
THEOREM DecodingSafe == Spec => []DecodersFailSafely
<1>1. IInv => DecodersFailSafely
  BY DEF IInv, MetFits, DecodersFailSafely
<1> QED
  BY <1>1, MemoryFits, PTL

\* The entry points that give nothing back are those of NeverFree.
LEMMA OthersFree ==
  ASSUME NEW o \in DOMAIN Entry, o \notin NeverFree
  PROVE  Entry[o].frees
<1>1. /\ otel_create_tracer_provider_stdstream.frees
      /\ otel_create_tracer_provider_http.frees
      /\ otel_create_tracer_provider_memory.frees
      /\ otel_create_tracer_provider_file.frees
      /\ otel_tracer_provider_file_options_defaults.frees
      /\ otel_get_tracer.frees
      /\ otel_tracer_provider_http_options.frees
      /\ otel_tracer_provider_memory_get_spans.frees
      /\ otel_bsp_defaults.frees
      /\ otel_span_set_attribute.frees
      /\ otel_span_set_attributes.frees
      /\ otel_span_add_event.frees
      /\ otel_span_add_link.frees
  BY DEF FromR, AtOnce, ToR, Decodes, Uncaught,
         otel_create_tracer_provider_stdstream,
         otel_create_tracer_provider_http,
         otel_create_tracer_provider_memory,
         otel_create_tracer_provider_file,
         otel_tracer_provider_file_options_defaults, otel_get_tracer,
         otel_tracer_provider_http_options,
         otel_tracer_provider_memory_get_spans, otel_bsp_defaults,
         otel_span_set_attribute, otel_span_set_attributes,
         otel_span_add_event, otel_span_add_link
<1>2. /\ otel_create_logger_provider_stdstream.frees
      /\ otel_create_logger_provider_http.frees
      /\ otel_create_logger_provider_file.frees
      /\ otel_logger_provider_file_options_defaults.frees
      /\ otel_create_logger_provider_memory.frees
      /\ otel_logger_provider_memory_get_logs.frees
      /\ otel_logger_get_name.frees
      /\ otel_log.frees
      /\ otel_logger_provider_http_options.frees
      /\ otel_blrp_defaults.frees
  BY DEF FromR, AtOnce, ToR, Decodes, Uncaught,
         otel_create_logger_provider_stdstream,
         otel_create_logger_provider_http,
         otel_create_logger_provider_file,
         otel_logger_provider_file_options_defaults,
         otel_create_logger_provider_memory,
         otel_logger_provider_memory_get_logs, otel_logger_get_name,
         otel_log, otel_logger_provider_http_options,
         otel_blrp_defaults
<1>3. /\ otel_create_meter_provider_stdstream.frees
      /\ otel_create_meter_provider_http.frees
      /\ otel_create_meter_provider_file.frees
      /\ otel_meter_provider_file_options_defaults.frees
      /\ otel_create_meter_provider_memory.frees
      /\ otel_meter_provider_memory_get_metrics.frees
      /\ otel_meter_provider_http_options.frees
      /\ otel_parse_log_record.frees
      /\ otel_parse_metrics_record.frees
      /\ otel_encode_response.frees
  BY DEF FromR, AtOnce, ToR, Decodes, Uncaught,
         otel_create_meter_provider_stdstream,
         otel_create_meter_provider_http,
         otel_create_meter_provider_file,
         otel_meter_provider_file_options_defaults,
         otel_create_meter_provider_memory,
         otel_meter_provider_memory_get_metrics,
         otel_meter_provider_http_options, otel_parse_log_record,
         otel_parse_metrics_record, otel_encode_response
<1> QED
  BY <1>1, <1>2, <1>3 DEF NeverFree, Entry

\* Only a function that never gives back keeps what it has.
LEMMA KeepStep ==
  (phase = "kept" => ~E.frees) /\ [Next]_vars => (phase = "kept" => ~E.frees)'
<1> SUFFICES ASSUME phase = "kept" => ~E.frees, [Next]_vars, phase' = "kept"
             PROVE  ~E'.frees
  OBVIOUS
<1>1. E' = E /\ (phase = "kept" \/ ~E.frees)
  BY EntryStays
     DEF Next, vars, Malformed, Begin, NotGiven, FillNumber, FillBlock, FillStruct,
         FillEmpty, FillArray, FillElement, NoElements, NullWrite, FailChecked,
         Catch, AllCaught, FailOptional, FailAbandoning, FailUnchecked,
         FailThrowing, Read, ReadThrows, GiveBack, Keep, Done, Replace, E
<1> QED
  BY <1>1

\* But for seven entry points, a call that ends, or fails where its functions
\* look, has given back all it allocated except the uncounted headers.
THEOREM AllGivenBack == Spec => []NothingLeaks
<1>1. Init => (phase = "kept" => ~E.frees)
  BY DEF Init
<1>2. IInv /\ (phase = "kept" => ~E.frees) => NothingLeaks
  <2> SUFFICES ASSUME IInv, phase = "kept" => ~E.frees, op \notin NeverFree,
                      phase \in {"done", "failed", "kept"}
               PROVE  Live \subseteq UncountedHeaders
    BY DEF NothingLeaks, Live
  <2>1. E.frees
    BY OthersFree DEF IInv, Typed, E
  <2> QED
    BY <2>1 DEF IInv
<1> QED
  BY <1>1, <1>2, KeepStep, MemoryFits, PTL DEF Spec

\* The side that reads a struct (c2r_*(), and the iterators over the
\* attributes of R) reads no member that the other side left as malloc()
\* gave it.
THEOREM FilledBeforeRead == Spec => []ReadsOnlyFilled
<1>1. IInv => ReadsOnlyFilled
  <2> SUFFICES ASSUME IInv, IsFilled, NEW c \in ToRead, mem[c] = "garbage" PROVE FALSE
    BY DEF ReadsOnlyFilled
  <2>1. phase = "filling" /\ DOMAIN todo = {} /\ TodoFits
    BY DEF IsFilled, IInv
  <2>2. /\ c \in DOMAIN mem
        /\ \A k \in (Len(<<>>) + 1)..Len(c) :
             /\ c[k].struct \in DOMAIN ReadOrder[E.reads]
             /\ c[k].member \in ToSet(ReadOrder[E.reads][c[k].struct])
             /\ c[k].index > 0 => mem[CountOf(c, k)] = "set"
    BY DEF ToRead, Reached
  <2>3. Ignored(c)
    BY <2>1, <2>2 DEF TodoFits, Covered
  <2>4. \A k \in 1..Len(c) : k \in (Len(<<>>) + 1)..Len(c)
    OBVIOUS
  <2>5. PICK k \in 1..Len(c) : c[k].struct = "otel_strings" /\ c[k].index > 0
    BY <2>2, <2>3, <2>4 DEF Ignored
  <2>6. mem[CountOf(c, k)] = "set"
    BY <2>2, <2>4, <2>5
  <2>7. CountOf(c, k) \in DOMAIN mem
    BY <2>1, <2>2, <2>5 DEF IInv, Held, HeldAt
  <2>8. CountOf(c, k)[Len(CountOf(c, k))].struct = "otel_strings"
        /\ CountOf(c, k)[Len(CountOf(c, k))].index = -1
    <3>1. /\ Len(CountOf(c, k)) = k
          /\ CountOf(c, k)[k] = [struct |-> c[k].struct, member |-> c[k].member, index |-> -1]
      BY <2>2, <2>5, CallFacts, HangsOn
    <3> QED BY <3>1, <2>5
  <2> QED BY <2>6, <2>7, <2>8 DEF IInv, CellsFit
<1> QED
  BY <1>1, MemoryFits, PTL

\* What a side allocates the other side reads, whatever the data is: but for
\* the uncounted headers, and the attributes of the stdout meter provider.
THEOREM AllArrives == Spec => []NothingLost
<1>1. IInv => NothingLost
  <2> SUFFICES ASSUME IInv, IsFilled, NEW c \in DOMAIN mem, mem[c] = "live",
                      c \notin UncountedHeaders, c \notin Unread
               PROVE  c \in ToRead
    BY DEF NothingLost
  <2>1. /\ phase = "filling" /\ op \in DOMAIN Entry /\ IsShape(shape) /\ Cell(c)
        /\ c \in Seq(Step) /\ c \in Live /\ Held(c) /\ Followed(c) /\ ~IsNumber(c)
    BY CallFacts DEF IsFilled, IInv, CellsFit, Live
  <2>2. AllRead(op)
    BY DEF AllRead, Unread, E
  <2>3. Complete(E.fill, ReadOrder[E.reads], Readable(op) \cap DOMAIN FillOrder[E.fill])
    BY <2>1, ReadAssumption DEF E
  <2>4. ASSUME NEW k \in 1..Len(c)
        PROVE  /\ c[k].struct \in DOMAIN ReadOrder[E.reads]
               /\ c[k].member \in ToSet(ReadOrder[E.reads][c[k].struct])
               /\ c[k].index > 0 => mem[CountOf(c, k)] = "set"
    <3>1. /\ c[k].struct \in DOMAIN FillOrder[E.fill] /\ Handled(c[k].struct)
          /\ \E e \in Entries(E.fill, c[k].struct) : e.name = c[k].member
      BY <2>1 DEF Followed
    <3>2. c[k].struct \in Readable(op)
      BY <3>1, <2>2 DEF Handled
    <3>3. c[k].struct \in DOMAIN ReadOrder[E.reads]
      BY <3>2 DEF Readable, E
    <3>4. StepFits(c, k)
      BY <2>1, CellSteps
    <3>5. Kind(c[k].struct, c[k].member) /= "plain"
      <4>1. k = Len(c) => Kind(c[k].struct, c[k].member) /= "plain"
        BY <2>1 DEF IsNumber, Last, Kind
      <4>2. k < Len(c) \/ k = Len(c)
        BY <2>1
      <4> QED BY <4>1, <4>2, <3>4 DEF StepFits
    <3>6. c[k].member \in ToSet(ReadOrder[E.reads][c[k].struct])
      BY <3>1, <3>2, <3>5, <2>3 DEF Complete
    <3>7. ASSUME c[k].index > 0 PROVE mem[CountOf(c, k)] = "set"
      <4>1. HeldAt(c, k)
        BY <3>7, <2>1 DEF Held
      <4>2. ASSUME c[k].struct = "otel_strings" PROVE FALSE
        <5>1. E.root = "otel_provider_http_options" /\ k = 2 /\ c[1].member = "http_headers"
          BY <4>2, <2>1, HeadersOnly
        <5>2. k < Len(c)
          BY <3>4, <3>7 DEF StepFits
        <5> QED BY <5>1, <5>2 DEF UncountedHeaders
      <4> QED BY <4>1, <4>2 DEF HeldAt
    <3> QED BY <3>3, <3>6, <3>7
  <2>5. \A k \in (Len(<<>>) + 1)..Len(c) : k \in 1..Len(c)
    OBVIOUS
  <2>6. IsPrefix(<<>>, c)
    BY <2>1 DEF IsPrefix
  <2> QED BY <2>4, <2>5, <2>6 DEF ToRead, Reached
<1> QED
  BY <1>1, MemoryFits, PTL
=============================================================================
