--------------------------- MODULE Ps2CodesProofs ---------------------------
(***************************************************************************)
(* What the proofs about keyboard3, keyboard4 and the decoder share: that  *)
(* the bytes of every code lead the driver back to its normal state, each  *)
(* with the event it means (Leads), what a stretch of bytes means (Meant), *)
(* and the induction that the latter needs. The library states induction   *)
(* for operators, which the provers cannot instantiate; here it is stated  *)
(* for sets and functions, and rests on the fact that strict inclusion of  *)
(* finite sets is well-founded.                                            *)
(***************************************************************************)
EXTENDS Ps2Codes, SequenceTheorems, FiniteSetTheorems, TLAPS

-----------------------------------------------------------------------------
(* A set of numbers has a least element: the sets of what is below each of  *)
(* them have a minimal one.                                                 *)
LEMMA Least ==
  ASSUME NEW T, T \subseteq Nat, T # {}
  PROVE  \E x \in T : \A y \in T : x <= y
<1> DEFINE Below(n) == 0 .. n - 1
           U == {Below(n) : n \in T}
<1>1. IsWellFoundedOn(StrictSubsetOrdering(Nat), FiniteSubsetsOf(Nat))
  BY FS_StrictSubsetOrderingWellFounded
<1>2. U \subseteq FiniteSubsetsOf(Nat) /\ U # {}
  <2>1. \A n \in T : Below(n) \in SUBSET Nat /\ IsFiniteSet(Below(n))
    BY FS_Interval
  <2> HIDE DEF Below
  <2> QED
    BY <2>1 DEF FiniteSubsetsOf
<1>3. PICK X \in U : \A Y \in U : <<Y, X>> \notin StrictSubsetOrdering(Nat)
  <2> HIDE DEF U
  <2> QED BY <1>1, <1>2, WFMin
<1>4. PICK x \in T : X = Below(x)
  OBVIOUS
<1>5. ASSUME NEW y \in T, y < x
      PROVE  FALSE
  <2>1. Below(y) \subseteq Below(x) /\ Below(x) \in SUBSET Nat /\ Below(y) \in SUBSET Nat
    BY <1>5
  <2>2. Below(y) # Below(x)
    <3>1. y \in Below(x) /\ y \notin Below(y)
      BY <1>5
    <3> QED BY <3>1
  <2>3. Below(y) \in U
    OBVIOUS
  <2> HIDE DEF Below, U
  <2>4. <<Below(y), Below(x)>> \in StrictSubsetOrdering(Nat)
    BY <2>1, <2>2 DEF StrictSubsetOrdering
  <2> QED
    BY <1>3, <1>4, <2>3, <2>4
<1> QED
  BY <1>5

(* Induction: a set that holds 0 and the successor of every number in it    *)
(* holds every number.                                                      *)
LEMMA Inductive ==
  ASSUME NEW S, 0 \in S, \A n \in Nat : n \in S => n + 1 \in S
  PROVE  Nat \subseteq S
<1> DEFINE T == Nat \ S
<1> SUFFICES ASSUME T # {} PROVE FALSE
  OBVIOUS
<1>1. PICK x \in T : \A y \in T : x <= y
  <2>1. T \subseteq Nat
    OBVIOUS
  <2> HIDE DEF T
  <2> QED BY <2>1, Least
<1>2. x # 0 /\ x - 1 \in Nat /\ x - 1 \notin T
  BY <1>1
<1> QED
  BY <1>2

(* A step for each of n indices defines a function.                         *)
Recursive(f, S, a, n, step) ==
  /\ f \in [0 .. n -> S]
  /\ f[0] = a
  /\ \A i \in 1 .. n : f[i] = step[i][f[i - 1]]

LEMMA RecursionExists ==
  ASSUME NEW S, NEW a \in S, NEW n \in Nat, NEW step \in [1 .. n -> [S -> S]]
  PROVE  \E f : Recursive(f, S, a, n, step)
<1> DEFINE Until(f, k) == Recursive(f, S, a, k, step)
           T == {k \in Nat : k <= n => \E f : Until(f, k)}
<1> USE DEF Recursive
<1>1. 0 \in T
  <2> DEFINE f == [i \in 0 .. 0 |-> a]
  <2>1. Until(f, 0)
    OBVIOUS
  <2> QED BY <2>1
<1>2. ASSUME NEW k \in Nat, k \in T
      PROVE  k + 1 \in T
  <2> SUFFICES ASSUME k + 1 <= n
               PROVE  \E f : Until(f, k + 1)
    OBVIOUS
  <2>1. PICK f : Until(f, k)
    BY <1>2
  <2> DEFINE next == step[k + 1][f[k]]
             g == [i \in 0 .. k + 1 |-> IF i = k + 1 THEN next ELSE f[i]]
  <2>2. next \in S
    BY <2>1
  <2> HIDE DEF next
  <2>3. g \in [0 .. k + 1 -> S] /\ g[0] = a /\ g[k + 1] = next /\ \A i \in 0 .. k : g[i] = f[i]
    BY <2>1, <2>2
  <2> HIDE DEF g
  <2>4. ASSUME NEW i \in 1 .. k + 1
        PROVE  g[i] = step[i][g[i - 1]]
    <3>1. i - 1 \in 0 .. k /\ g[i - 1] = f[i - 1]
      BY <2>3
    <3>2. CASE i = k + 1
      BY <2>3, <3>1, <3>2 DEF next
    <3>3. CASE i # k + 1
      BY <2>1, <2>3, <3>1, <3>3
    <3> QED BY <3>2, <3>3
  <2>5. Until(g, k + 1)
    BY <2>3, <2>4
  <2> QED BY <2>5
<1>3. n \in T
  <2> HIDE DEF T
  <2> QED BY <1>1, <1>2, Inductive
<1> QED BY <1>3

-----------------------------------------------------------------------------
(* What travels on the wire, and what is told of it.                        *)
Told == Event \union {NoEvent}
Item == [byte : Byte, says : Told]

(* m counts up the events that the bytes of w mean.                         *)
Counts(w, m) ==
  /\ m \in [0 .. Len(w) -> Seq(Event)]
  /\ m[0] = <<>>
  /\ \A i \in 1 .. Len(w) :
       m[i] = IF w[i].says = NoEvent THEN m[i - 1] ELSE Append(m[i - 1], w[i].says)

(* Meant is what its recursion says.                                        *)
LEMMA MeantCounts ==
  ASSUME NEW w \in Seq(Item)
  PROVE  \E m : Counts(w, m) /\ Meant(w) = m[Len(w)]
<1> DEFINE step == [i \in 1 .. Len(w) |-> [s \in Seq(Event) |->
                      IF w[i].says = NoEvent THEN s ELSE Append(s, w[i].says)]]
           Rec(m) == m = [i \in 0 .. Len(w) |->
                            IF i = 0 THEN <<>>
                            ELSE IF w[i].says = NoEvent THEN m[i - 1]
                                 ELSE Append(m[i - 1], w[i].says)]
<1>1. Len(w) \in Nat /\ \A i \in 1 .. Len(w) : w[i].says # NoEvent => w[i].says \in Event
  <2>1. Len(w) \in Nat /\ \A i \in 1 .. Len(w) : w[i] \in Item
    OBVIOUS
  <2> QED BY <2>1 DEF Item, Told
<1>2. step \in [1 .. Len(w) -> [Seq(Event) -> Seq(Event)]]
  <2>1. ASSUME NEW i \in 1 .. Len(w), NEW s \in Seq(Event)
        PROVE  (IF w[i].says = NoEvent THEN s ELSE Append(s, w[i].says)) \in Seq(Event)
    BY <1>1, AppendProperties
  <2> QED BY <2>1
<1>3. <<>> \in Seq(Event)
  OBVIOUS
<1>4. PICK f \in [0 .. Len(w) -> Seq(Event)] :
        f[0] = <<>> /\ \A i \in 1 .. Len(w) : f[i] = step[i][f[i - 1]]
  <2> DEFINE S == Seq(Event)
             n == Len(w)
  <2>1. step \in [1 .. n -> [S -> S]] /\ <<>> \in S /\ n \in Nat
    <3> HIDE DEF step
    <3> QED BY <1>1, <1>2, <1>3
  <2> HIDE DEF step, S, n
  <2>2. \E f : Recursive(f, S, <<>>, n, step)
    BY <2>1, RecursionExists
  <2> QED BY <2>2 DEF S, n, Recursive
<1>5. \A i \in 1 .. Len(w) :
        f[i] = IF w[i].says = NoEvent THEN f[i - 1] ELSE Append(f[i - 1], w[i].says)
  <2> TAKE i \in 1 .. Len(w)
  <2>1. f[i - 1] \in Seq(Event)
    BY <1>1
  <2> QED BY <1>4, <2>1
<1> HIDE DEF step
<1>6. Rec(f)
  <2> DEFINE r == [i \in 0 .. Len(w) |->
                     IF i = 0 THEN <<>>
                     ELSE IF w[i].says = NoEvent THEN f[i - 1] ELSE Append(f[i - 1], w[i].says)]
  <2>1. ASSUME NEW i \in 0 .. Len(w) PROVE f[i] = r[i]
    <3>1. CASE i = 0
      BY <1>4, <3>1
    <3>2. CASE i # 0
      <4>1. i \in 1 .. Len(w)
        BY <1>1, <3>2
      <4> QED BY <1>5, <3>2, <4>1, Zenon
    <3> QED BY <3>1, <3>2
  <2>2. f = [i \in 0 .. Len(w) |-> f[i]]
    BY <1>4
  <2>3. r = [i \in 0 .. Len(w) |-> r[i]]
    OBVIOUS
  <2> HIDE DEF r
  <2>4. f = r
    BY <2>1, <2>2, <2>3
  <2> QED BY <2>4 DEF r
<1> DEFINE m == CHOOSE m : Rec(m)
<1>7. Rec(m)
  <2> HIDE DEF Rec
  <2> QED BY <1>6
<1>8. Meant(w) = m[Len(w)]
  BY DEF Meant
<1> HIDE DEF m
<1>9. m[0] = <<>> /\ \A i \in 1 .. Len(w) :
        m[i] = IF w[i].says = NoEvent THEN m[i - 1] ELSE Append(m[i - 1], w[i].says)
  <2>1. ASSUME NEW i \in 0 .. Len(w)
        PROVE  m[i] = IF i = 0 THEN <<>>
                      ELSE IF w[i].says = NoEvent THEN m[i - 1] ELSE Append(m[i - 1], w[i].says)
    BY <1>7, Zenon
  <2>2. 0 \in 0 .. Len(w) /\ \A i \in 1 .. Len(w) : i \in 0 .. Len(w) /\ i # 0
    BY <1>1
  <2> QED BY <2>1, <2>2, Zenon
<1>10. \A i \in 0 .. Len(w) : m[i] \in Seq(Event)
  <2> DEFINE T == {k \in Nat : k <= Len(w) => m[k] \in Seq(Event)}
  <2>1. 0 \in T
    BY <1>3, <1>9
  <2>2. ASSUME NEW k \in Nat, k \in T PROVE k + 1 \in T
    <3> SUFFICES ASSUME k + 1 <= Len(w) PROVE m[k + 1] \in Seq(Event)
      OBVIOUS
    <3>1. m[k] \in Seq(Event) /\ k + 1 \in 1 .. Len(w) /\ (k + 1) - 1 = k
      BY <1>1, <2>2
    <3>2. m[k + 1] = IF w[k + 1].says = NoEvent THEN m[k] ELSE Append(m[k], w[k + 1].says)
      BY <1>9, <3>1
    <3>3. w[k + 1].says # NoEvent => w[k + 1].says \in Event
      BY <1>1, <3>1
    <3>4. CASE w[k + 1].says = NoEvent
      BY <3>1, <3>2, <3>4
    <3>5. CASE w[k + 1].says # NoEvent
      <4>1. Append(m[k], w[k + 1].says) \in Seq(Event)
        BY <3>1, <3>3, <3>5, AppendProperties
      <4> QED BY <3>2, <3>5, <4>1
    <3> QED BY <3>4, <3>5
  <2>3. Nat \subseteq T
    <3> HIDE DEF T
    <3> QED BY <2>1, <2>2, Inductive
  <2> QED BY <1>1, <2>3
<1>11. m \in [0 .. Len(w) -> Seq(Event)]
  <2>1. m = [i \in 0 .. Len(w) |-> m[i]]
    <3> DEFINE r(i) == IF i = 0 THEN <<>>
                       ELSE IF w[i].says = NoEvent THEN m[i - 1] ELSE Append(m[i - 1], w[i].says)
    <3>1. m = [i \in 0 .. Len(w) |-> r(i)]
      BY <1>7, Zenon
    <3> HIDE DEF r
    <3> QED BY <3>1
  <2> QED BY <1>10, <2>1
<1> QED BY <1>8, <1>9, <1>11 DEF Counts

(* Nothing, and one byte.                                                   *)
LEMMA MeantEmpty == Meant(<<>>) = <<>>
<1>1. <<>> \in Seq(Item) /\ Len(<<>>) = 0
  OBVIOUS
<1> QED BY <1>1, MeantCounts DEF Counts

LEMMA MeantOne ==
  ASSUME NEW a \in Item
  PROVE  Meant(<<a>>) = IF a.says = NoEvent THEN <<>> ELSE <<a.says>>
<1> DEFINE w == <<a>>
<1>1. w \in Seq(Item) /\ Len(w) = 1 /\ w[1] = a
  OBVIOUS
<1> HIDE DEF w
<1>2. PICK m : Counts(w, m) /\ Meant(w) = m[Len(w)]
  BY <1>1, MeantCounts
<1>3. m[0] = <<>> /\ m[1] = IF a.says = NoEvent THEN m[0] ELSE Append(m[0], a.says)
  BY <1>1, <1>2 DEF Counts
<1>4. Append(<<>>, a.says) = <<a.says>>
  OBVIOUS
<1> QED BY <1>1, <1>2, <1>3, <1>4 DEF w

(* What bytes mean is a sequence of events.                                 *)
LEMMA MeantType == ASSUME NEW w \in Seq(Item) PROVE Meant(w) \in Seq(Event)
<1>1. PICK m : Counts(w, m) /\ Meant(w) = m[Len(w)]
  BY MeantCounts
<1>2. Len(w) \in Nat
  OBVIOUS
<1> QED BY <1>1, <1>2 DEF Counts

(* Bytes that mean nothing.                                                 *)
LEMMA MeantNothing ==
  ASSUME NEW w \in Seq(Item), \A i \in 1 .. Len(w) : w[i].says = NoEvent
  PROVE  Meant(w) = <<>>
<1>1. PICK m : Counts(w, m) /\ Meant(w) = m[Len(w)]
  BY MeantCounts
<1>2. Len(w) \in Nat
  OBVIOUS
<1> DEFINE T == {k \in Nat : k <= Len(w) => m[k] = <<>>}
<1>3. 0 \in T
  BY <1>1 DEF Counts
<1>4. ASSUME NEW k \in Nat, k \in T PROVE k + 1 \in T
  BY <1>1, <1>2, <1>4 DEF Counts
<1>5. Nat \subseteq T
  <2> HIDE DEF T
  <2> QED BY <1>3, <1>4, Inductive
<1> QED BY <1>1, <1>2, <1>5

(* Appending to what stands behind.                                         *)
LEMMA ConcatAppend ==
  ASSUME NEW a \in Seq(Event), NEW b \in Seq(Event), NEW e \in Event
  PROVE  Append(a \o b, e) = a \o Append(b, e)
<1> DEFINE v == <<e>>
<1>1. v \in Seq(Event)
  OBVIOUS
<1>2. \A s \in Seq(Event) : Append(s, e) = s \o v
  BY AppendIsConcat
<1> HIDE DEF v
<1>3. (a \o b) \o v = a \o (b \o v) /\ a \o b \in Seq(Event)
  BY <1>1, ConcatAssociative, ConcatProperties
<1> QED BY <1>2, <1>3

(* What comes first is meant first.                                         *)
LEMMA MeantConcat ==
  ASSUME NEW w \in Seq(Item), NEW p \in Seq(Item)
  PROVE  Meant(w \o p) = Meant(w) \o Meant(p)
<1>1. /\ w \o p \in Seq(Item) /\ Len(w) \in Nat /\ Len(p) \in Nat
      /\ Len(w \o p) = Len(w) + Len(p)
      /\ \A i \in 1 .. Len(w) : (w \o p)[i] = w[i]
      /\ \A i \in 1 .. Len(p) : (w \o p)[Len(w) + i] = p[i]
  BY ConcatProperties
<1>2. PICK f : Counts(w, f) /\ Meant(w) = f[Len(w)]
  BY MeantCounts
<1>3. PICK g : Counts(p, g) /\ Meant(p) = g[Len(p)]
  BY MeantCounts
<1>4. PICK h : Counts(w \o p, h) /\ Meant(w \o p) = h[Len(w \o p)]
  BY <1>1, MeantCounts
<1> DEFINE m == Len(w)
           n == Len(p)
           wp == w \o p
<1>5. /\ m \in Nat /\ n \in Nat
      /\ \A k \in 1 .. m + n :
           h[k] = IF wp[k].says = NoEvent THEN h[k - 1] ELSE Append(h[k - 1], wp[k].says)
      /\ \A k \in 1 .. m :
           f[k] = IF wp[k].says = NoEvent THEN f[k - 1] ELSE Append(f[k - 1], wp[k].says)
      /\ \A k \in 1 .. n :
           g[k] = IF wp[m + k].says = NoEvent THEN g[k - 1] ELSE Append(g[k - 1], wp[m + k].says)
      /\ \A k \in 1 .. n : wp[m + k].says # NoEvent => wp[m + k].says \in Event
      /\ h[0] = <<>> /\ f[0] = <<>> /\ g[0] = <<>>
      /\ f \in [0 .. m -> Seq(Event)] /\ g \in [0 .. n -> Seq(Event)]
  <2>1. \A k \in 1 .. n : p[k] \in Item
    OBVIOUS
  <2>2. \A k \in 1 .. n : wp[m + k].says # NoEvent => wp[m + k].says \in Event
    BY <1>1, <2>1 DEF Item, Told
  <2> QED BY <1>1, <1>2, <1>3, <1>4, <2>2 DEF Counts
<1> HIDE DEF m, n, wp
<1>6. h[m] = f[m]
  <2> DEFINE T == {k \in Nat : k <= m => h[k] = f[k]}
  <2>1. 0 \in T
    BY <1>5
  <2>2. ASSUME NEW k \in Nat, k \in T PROVE k + 1 \in T
    <3> SUFFICES ASSUME k + 1 <= m PROVE h[k + 1] = f[k + 1]
      OBVIOUS
    <3>1. h[k] = f[k] /\ k + 1 \in 1 .. m /\ k + 1 \in 1 .. m + n /\ (k + 1) - 1 = k
      BY <1>5, <2>2
    <3> QED BY <1>5, <3>1
  <2>3. Nat \subseteq T
    <3> HIDE DEF T
    <3> QED BY <2>1, <2>2, Inductive
  <2> QED BY <1>5, <2>3
<1> DEFINE c == [k \in 0 .. n |-> h[m] \o g[k]]
<1>7. c[0] = h[m] /\ c[n] = h[m] \o g[n]
  <2>1. h[m] \in Seq(Event) /\ 0 \in 0 .. n /\ n \in 0 .. n
    BY <1>5, <1>6
  <2>2. h[m] \o <<>> = h[m]
    BY <2>1, ConcatEmptySeq
  <2> QED BY <1>5, <2>1, <2>2
<1>8. \A k \in 1 .. n :
        c[k] = IF wp[m + k].says = NoEvent THEN c[k - 1] ELSE Append(c[k - 1], wp[m + k].says)
  <2> TAKE k \in 1 .. n
  <2> DEFINE e == wp[m + k].says
             a == h[m]
             b == g[k - 1]
  <2>1. k \in 0 .. n /\ k - 1 \in 0 .. n /\ a \in Seq(Event) /\ b \in Seq(Event)
    BY <1>5, <1>6
  <2>2. c[k] = a \o g[k] /\ c[k - 1] = a \o b
    BY <2>1
  <2>3. g[k] = (IF e = NoEvent THEN b ELSE Append(b, e)) /\ (e # NoEvent => e \in Event)
    BY <1>5
  <2> HIDE DEF a, b, e, c
  <2>4. CASE e = NoEvent
    BY <2>2, <2>3, <2>4 DEF e
  <2>5. CASE e # NoEvent
    <3>1. e \in Event
      BY <2>3, <2>5
    <3>2. Append(a \o b, e) = a \o Append(b, e)
      BY <2>1, <3>1, ConcatAppend, Zenon
    <3> QED BY <2>2, <2>3, <2>5, <3>2 DEF e
  <2> QED BY <2>4, <2>5
<1> HIDE DEF c
<1>9. h[m + n] = c[n]
  <2> DEFINE T == {k \in Nat : k <= n => h[m + k] = c[k]}
  <2>1. 0 \in T
    BY <1>5, <1>7
  <2>2. ASSUME NEW k \in Nat, k \in T PROVE k + 1 \in T
    <3> SUFFICES ASSUME k + 1 <= n PROVE h[m + (k + 1)] = c[k + 1]
      OBVIOUS
    <3>1. /\ h[m + k] = c[k] /\ k + 1 \in 1 .. n /\ m + (k + 1) \in 1 .. m + n
          /\ (k + 1) - 1 = k /\ m + (k + 1) - 1 = m + k
      BY <1>5, <2>2
    <3>2. /\ h[m + (k + 1)] = IF wp[m + (k + 1)].says = NoEvent THEN h[m + k]
                                ELSE Append(h[m + k], wp[m + (k + 1)].says)
          /\ c[k + 1] = IF wp[m + (k + 1)].says = NoEvent THEN c[k]
                        ELSE Append(c[k], wp[m + (k + 1)].says)
      <4>1. \A j \in 1 .. m + n :
              h[j] = IF wp[j].says = NoEvent THEN h[j - 1] ELSE Append(h[j - 1], wp[j].says)
        BY <1>5
      <4> DEFINE j == m + (k + 1)
                 i == k + 1
      <4>2. j \in 1 .. m + n /\ j - 1 = m + k /\ i \in 1 .. n /\ i - 1 = k /\ m + i = j
        BY <1>5, <3>1
      <4> HIDE DEF j, i
      <4>3. h[j] = IF wp[j].says = NoEvent THEN h[m + k] ELSE Append(h[m + k], wp[j].says)
        BY <4>1, <4>2
      <4>4. c[i] = IF wp[j].says = NoEvent THEN c[k] ELSE Append(c[k], wp[j].says)
        BY <1>8, <4>2
      <4> QED BY <4>3, <4>4 DEF j, i
    <3> QED BY <3>1, <3>2
  <2>3. Nat \subseteq T
    <3> HIDE DEF T
    <3> QED BY <2>1, <2>2, Inductive
  <2> QED BY <1>5, <2>3
<1> QED BY <1>1, <1>2, <1>3, <1>4, <1>6, <1>7, <1>9 DEF m, n, wp

(* The first byte and the rest.                                             *)
LEMMA MeantTail ==
  ASSUME NEW w \in Seq(Item), w # <<>>
  PROVE  Meant(w) = IF Head(w).says = NoEvent THEN Meant(Tail(w))
                    ELSE <<Head(w).says>> \o Meant(Tail(w))
<1> DEFINE a == Head(w)
           t == Tail(w)
           v == <<a>>
<1>1. a \in Item /\ t \in Seq(Item) /\ v \in Seq(Item) /\ Len(v) = 1 /\ v[1] = a
  BY HeadTailProperties
<1>2. w = v \o t
  <2>1. /\ Len(w) \in Nat /\ Len(t) = Len(w) - 1 /\ w[1] = a /\ Len(w) > 0
        /\ \A i \in 1 .. Len(t) : t[i] = w[i + 1]
    BY HeadTailProperties, EmptySeq
  <2> HIDE DEF a, t, v
  <2>2. /\ v \o t \in Seq(Item) /\ Len(v \o t) = Len(w)
        /\ \A i \in 1 .. Len(w) : (v \o t)[i] = IF i <= 1 THEN v[i] ELSE t[i - 1]
    <3>1. /\ v \o t \in Seq(Item) /\ Len(v \o t) = Len(v) + Len(t)
          /\ \A i \in 1 .. Len(v) + Len(t) :
               (v \o t)[i] = IF i <= Len(v) THEN v[i] ELSE t[i - Len(v)]
      BY <1>1, ConcatProperties
    <3>2. Len(v) + Len(t) = Len(w)
      BY <1>1, <2>1
    <3> QED BY <1>1, <3>1, <3>2
  <2>3. \A i \in 1 .. Len(w) : (v \o t)[i] = w[i]
    BY <1>1, <2>1, <2>2
  <2> QED BY <2>2, <2>3, SeqEqual
<1>3. Meant(w) = Meant(v) \o Meant(t)
  <2> HIDE DEF a, t, v
  <2> QED BY <1>1, <1>2, MeantConcat
<1>4. Meant(v) = IF a.says = NoEvent THEN <<>> ELSE <<a.says>>
  <2> HIDE DEF a, t
  <2> QED BY <1>1, MeantOne
<1>5. <<>> \o Meant(t) = Meant(t)
  <2> HIDE DEF t
  <2> QED BY <1>1, MeantType, ConcatEmptySeq
<1> QED BY <1>3, <1>4, <1>5

-----------------------------------------------------------------------------
(* The types of what the keyboard sends and of what the decoder makes of it. *)

(* What a key's code means is an event or nothing.                          *)
LEMMA SaysIsTold ==
  ASSUME NEW k \in Keys, NEW p \in BOOLEAN
  PROVE  Says(k, p) \in Told
<1>1. k.means \in VKeys \union {NoKey}
  BY CodesAssumption
<1> QED
  BY <1>1 DEF Says, Event, Told

(* Bytes without a meaning of their own.                                    *)
LEMMA MuteIsItem == ASSUME NEW b \in Byte PROVE Mute(b) \in Item /\ Mute(b).byte = b /\ Mute(b).says = NoEvent
  BY DEF Mute, Item, Told

(* Every byte of the protocol is a byte.                                    *)
LEMMA CodesAreBytes ==
  /\ EXTENDED \in Byte /\ EXTENDED_PAUSE \in Byte /\ RELEASE \in Byte /\ ACK \in Byte
  /\ \A k \in Keys : k.code \in Byte /\ (ScanSet = 1 => k.code + 128 \in Byte)
  BY CodesAssumption DEF Byte, EXTENDED, EXTENDED_PAUSE, RELEASE, ACK

(* Packets are bytes, each with an event or nothing.                        *)
LEMMA Packet ==
  /\ \A k \in Keys : Make(k) \in Seq(Item) /\ Break(k) \in Seq(Item)
  /\ MakePause \in Seq(Item) /\ Answer \in Seq(Item)
<1>1. ASSUME NEW k \in Keys
      PROVE  Make(k) \in Seq(Item) /\ Break(k) \in Seq(Item)
  <2> DEFINE a == Mute(EXTENDED)
             r == Mute(RELEASE)
             m == [byte |-> k.code, says |-> Says(k, TRUE)]
             b == [byte |-> k.code, says |-> Says(k, FALSE)]
             c == [byte |-> k.code + 128, says |-> Says(k, FALSE)]
  <2>1. a \in Item /\ r \in Item
    BY MuteIsItem, CodesAreBytes
  <2>2. m \in Item /\ b \in Item /\ (ScanSet = 1 => c \in Item)
    BY SaysIsTold, CodesAreBytes DEF Item
  <2>3. Make(k) = Prefix(k) \o <<m>>
    BY DEF Make
  <2>4. /\ ScanSet = 2 => Break(k) = Prefix(k) \o <<r, b>>
        /\ ScanSet # 2 => Break(k) = Prefix(k) \o <<c>>
    BY DEF Break
  <2>5. Prefix(k) = <<a>> \/ Prefix(k) = <<>>
    BY DEF Prefix
  <2> HIDE DEF a, r, m, b, c
  <2>6. Prefix(k) \in Seq(Item)
    <3>1. <<a>> \in Seq(Item) /\ <<>> \in Seq(Item)
      BY <2>1
    <3> QED
      BY <2>5, <3>1
  <2>7. <<m>> \in Seq(Item) /\ <<r, b>> \in Seq(Item) /\ (ScanSet = 1 => <<c>> \in Seq(Item))
    BY <2>1, <2>2
  <2>8. \A s \in Seq(Item) : Prefix(k) \o s \in Seq(Item)
    BY <2>6, ConcatProperties
  <2>9. Make(k) \in Seq(Item)
    BY <2>3, <2>7, <2>8
  <2>10. CASE ScanSet = 2
    BY <2>4, <2>7, <2>8, <2>9, <2>10
  <2>11. CASE ScanSet = 1
    BY <2>4, <2>7, <2>8, <2>9, <2>11
  <2> QED
    BY <2>10, <2>11, CodesAssumption
<1>2. MakePause \in Seq(Item)
  <2> DEFINE a == [byte |-> EXTENDED_PAUSE, says |-> [vkey |-> Pause, pressed |-> TRUE]]
             r == [i \in 1 .. Len(PauseRest) |-> Mute(PauseRest[i])]
  <2>1. a \in Item
    <3>1. [vkey |-> Pause, pressed |-> TRUE] \in Told
      BY CodesAssumption DEF Event, Told
    <3> QED
      BY <3>1, CodesAreBytes DEF Item
  <2>2. /\ Len(PauseRest) \in Nat
        /\ \A i \in 1 .. Len(PauseRest) : PauseRest[i] \in Byte
    BY CodesAssumption DEF PauseRest, Byte
  <2>3. \A i \in 1 .. Len(PauseRest) : Mute(PauseRest[i]) \in Item
    BY <2>2, MuteIsItem
  <2>4. r \in Seq(Item)
    BY <2>2, <2>3
  <2>5. MakePause = <<a>> \o r
    BY DEF MakePause
  <2> HIDE DEF a, r
  <2>6. <<a>> \in Seq(Item)
    BY <2>1
  <2> QED
    BY <2>4, <2>5, <2>6, ConcatProperties
<1>3. Answer \in Seq(Item)
  <2>1. Mute(ACK) \in Item
    BY MuteIsItem, CodesAreBytes
  <2> QED
    BY <2>1 DEF Answer
<1> QED
  BY <1>1, <1>2, <1>3

(* The decoder, from any of its states.                                     *)
LEMMA PushTypes ==
  ASSUME NEW s \in State, NEW b \in Byte
  PROVE  Push(s, b).next \in State /\ Push(s, b).ev \in Told
<1>0. s.num_ignore \in 0 .. 7 /\ s.extended \in BOOLEAN /\ s.release \in BOOLEAN
  BY DEF State
<1>1. ASSUME NEW t \in State
      PROVE  Silent(t).next \in State /\ Silent(t).ev \in Told
  BY <1>1, Zenon DEF Silent, Told
<1>2. \A i \in 0 .. 7 : Ignoring(i) \in State
  BY Zenon DEF Ignoring, State
<1>3. \A x, y \in BOOLEAN : Flags(x, y) \in State
  <2>1. 0 \in 0 .. 7
    OBVIOUS
  <2> QED
    BY <2>1, Zenon DEF Flags, State
<1>4. CASE s.num_ignore > 0
  <2>1. Push(s, b) = Silent(Ignoring(s.num_ignore - 1))
    <3>1. s.num_ignore # 0
      BY <1>0, <1>4
    <3> QED
      BY <1>4, <3>1, Zenon DEF Push, Ignored
  <2>2. s.num_ignore - 1 \in 0 .. 7
    BY <1>0, <1>4
  <2> QED
    BY <1>1, <1>2, <2>1, <2>2
<1>5. CASE s.num_ignore = 0
  <2>1. CASE b = RELEASE /\ ScanSet = 2
    <3>1. Push(s, b) = Silent(Flags(s.extended, TRUE))
      BY <1>5, <2>1 DEF Push, RELEASE, EXTENDED, EXTENDED_PAUSE
    <3> QED
      BY <1>0, <1>1, <1>3, <3>1
  <2>2. CASE b = EXTENDED
    <3>1. Push(s, b) = Silent(Flags(TRUE, s.release))
      BY <1>5, <2>2 DEF Push, RELEASE, EXTENDED, EXTENDED_PAUSE
    <3> QED
      BY <1>0, <1>1, <1>3, <3>1
  <2>3. CASE b = EXTENDED_PAUSE
    <3>1. Push(s, b) = PauseKey
      BY <1>5, <2>3 DEF Push, RELEASE, EXTENDED, EXTENDED_PAUSE
    <3>2. PauseKey.next \in State
      BY <1>2 DEF PauseKey
    <3>3. PauseKey.ev \in Told
      BY CodesAssumption DEF PauseKey, Event, Told
    <3> QED
      BY <3>1, <3>2, <3>3
  <2>4. CASE /\ ~(b = RELEASE /\ ScanSet = 2) /\ b # EXTENDED /\ b # EXTENDED_PAUSE
    <3>1. Push(s, b) = KeyCode(s, b)
      <4>1. ~(s.num_ignore > 0)
        BY <1>5
      <4> QED
        BY <2>4, <4>1, Zenon DEF Push
    <3> DEFINE vkey == VKey[s.extended][CodeOf(b)]
    <3>2. vkey \in VKeys \union {NoKey}
      <4>1. CodeOf(b) \in Byte
        BY DEF CodeOf, Byte
      <4> QED
        BY <1>0, <4>1, CodesAssumption
    <3>3. CASE vkey = NoKey
      <4>1. KeyCode(s, b) = Silent(Normal)
        BY <3>3 DEF KeyCode
      <4> QED
        BY <1>1, <1>3, <3>1, <4>1 DEF Normal
    <3>4. CASE vkey # NoKey
      <4>1. Down(s, b) \in BOOLEAN
        <5>1. CASE ScanSet = 1
          <6>1. CASE b < 128
            BY <5>1, <6>1, Zenon DEF Down
          <6>2. CASE ~(b < 128)
            <7>1. (b < 128) = FALSE
              BY <6>2, SMT
            <7> QED
              BY <5>1, <7>1, Zenon DEF Down
          <6> QED
            BY <6>1, <6>2
        <5>2. CASE ScanSet # 1
          BY <5>2, Zenon DEF Down
        <5> QED
          BY <5>1, <5>2
      <4>2. KeyCode(s, b) = [next |-> Normal, ev |-> [vkey |-> vkey, pressed |-> Down(s, b)]]
        BY <3>4, Zenon DEF KeyCode
      <4>3. Normal \in State
        BY <1>3 DEF Normal
      <4>4. [vkey |-> vkey, pressed |-> Down(s, b)] \in Told
        BY <3>2, <3>4, <4>1 DEF Told, Event
      <4> HIDE DEF vkey
      <4> QED
        BY <3>1, <4>2, <4>3, <4>4
    <3> QED
      BY <3>3, <3>4
  <2> QED
    BY <2>1, <2>2, <2>3, <2>4
<1> QED
  BY <1>0, <1>4, <1>5

-----------------------------------------------------------------------------
(* f is the path of the driver from state s through the bytes of w to its   *)
(* normal state. An ACK only ever ends a code.                              *)
Path(s, w, f) ==
  /\ f \in [1 .. Len(w) + 1 -> State]
  /\ f[1] = s
  /\ f[Len(w) + 1] = Normal
  /\ \A i \in 1 .. Len(w) : Push(f[i], w[i].byte) = [next |-> f[i + 1], ev |-> w[i].says]
  /\ \A i \in 1 .. Len(w) : w[i].byte = ACK => f[i + 1] = Normal

Leads(s, w) == \E f : Path(s, w, f)

-----------------------------------------------------------------------------
(* The normal state is a state, and an event is reported or not.            *)
LEMMA NormalIsState == Normal \in State /\ NoEvent \in Told
BY DEF Normal, Flags, State, Told

(* A prefix byte sets the extended flag and reports nothing.                *)
LEMMA PrefixStep ==
  Push(Normal, EXTENDED) = [next |-> Flags(TRUE, FALSE), ev |-> NoEvent]
BY DEF Push, Normal, Flags, Silent, EXTENDED, EXTENDED_PAUSE, RELEASE

(* In set 2 a release byte sets the release flag and reports nothing.       *)
LEMMA ReleaseStep ==
  ASSUME ScanSet = 2, NEW e \in BOOLEAN
  PROVE  Push(Flags(e, FALSE), RELEASE) = [next |-> Flags(e, TRUE), ev |-> NoEvent]
BY DEF Push, Flags, Silent, EXTENDED, EXTENDED_PAUSE, RELEASE

(* An ignored byte only counts down.                                        *)
LEMMA IgnoredStep ==
  ASSUME NEW n \in Nat \ {0}, NEW b
  PROVE  Push(Ignoring(n), b) = Silent(Ignoring(n - 1))
<1>1. Ignoring(n).num_ignore = n
  BY DEF Ignoring
<1>2. Push(Ignoring(n), b) = Ignored(Ignoring(n))
  BY <1>1 DEF Push
<1> QED BY <1>1, <1>2 DEF Ignored

(* The code of a key, after its prefix, is reported as its press.           *)
LEMMA MakeStep ==
  ASSUME TableRight, NEW k \in Keys
  PROVE  Push(Flags(k.ext, FALSE), k.code) = [next |-> Normal, ev |-> Says(k, TRUE)]
<1>1. /\ k.ext \in BOOLEAN /\ k.code \in 0 .. 255 /\ VKey[k.ext][k.code] = k.means
      /\ ScanSet = 1 => k.code < 96 /\ k.code % 128 = k.code
      /\ ScanSet = 2 => k.code # 224 /\ k.code # 225 /\ k.code # 240
      /\ ScanSet \in {1, 2}
  BY CodesAssumption DEF TableRight, Byte, EXTENDED, EXTENDED_PAUSE, RELEASE
<1>2. Push(Flags(k.ext, FALSE), k.code) = KeyCode(Flags(k.ext, FALSE), k.code)
  BY <1>1 DEF Push, Flags, EXTENDED, EXTENDED_PAUSE, RELEASE
<1>3. /\ CodeOf(k.code) = k.code
      /\ Down(Flags(k.ext, FALSE), k.code) = TRUE
      /\ Flags(k.ext, FALSE).extended = k.ext
  BY <1>1 DEF CodeOf, Down, Flags
<1>4. KeyCode(Flags(k.ext, FALSE), k.code) = [next |-> Normal, ev |-> Says(k, TRUE)]
  BY <1>1, <1>3, ZenonT(60) DEF KeyCode, Silent, Says
<1> QED BY <1>2, <1>4

(* In set 2 the code of a key after a release byte is reported as its       *)
(* release.                                                                 *)
LEMMA BreakStep2 ==
  ASSUME TableRight, ScanSet = 2, NEW k \in Keys
  PROVE  Push(Flags(k.ext, TRUE), k.code) = [next |-> Normal, ev |-> Says(k, FALSE)]
<1>1. /\ k.ext \in BOOLEAN /\ k.code \in 0 .. 255 /\ VKey[k.ext][k.code] = k.means
      /\ k.code # 224 /\ k.code # 225 /\ k.code # 240
  BY CodesAssumption DEF TableRight, Byte, EXTENDED, EXTENDED_PAUSE, RELEASE
<1>2. Push(Flags(k.ext, TRUE), k.code) = KeyCode(Flags(k.ext, TRUE), k.code)
  BY <1>1 DEF Push, Flags, EXTENDED, EXTENDED_PAUSE, RELEASE
<1>3. /\ CodeOf(k.code) = k.code
      /\ Down(Flags(k.ext, TRUE), k.code) = FALSE
      /\ Flags(k.ext, TRUE).extended = k.ext
  BY <1>1 DEF CodeOf, Down, Flags
<1>4. KeyCode(Flags(k.ext, TRUE), k.code) = [next |-> Normal, ev |-> Says(k, FALSE)]
  BY <1>1, <1>3, ZenonT(60) DEF KeyCode, Silent, Says
<1> QED BY <1>2, <1>4

(* In set 1 the code of a key with its top bit is reported as its release.  *)
LEMMA BreakStep1 ==
  ASSUME TableRight, ScanSet = 1, NEW k \in Keys
  PROVE  Push(Flags(k.ext, FALSE), k.code + 128) = [next |-> Normal, ev |-> Says(k, FALSE)]
<1>1. /\ k.ext \in BOOLEAN /\ k.code \in 0 .. 95 /\ VKey[k.ext][k.code] = k.means
      /\ (k.code + 128) % 128 = k.code
  BY CodesAssumption DEF TableRight, Byte, EXTENDED
<1>2. Push(Flags(k.ext, FALSE), k.code + 128) = KeyCode(Flags(k.ext, FALSE), k.code + 128)
  BY <1>1 DEF Push, Flags, EXTENDED, EXTENDED_PAUSE, RELEASE
<1>3. /\ CodeOf(k.code + 128) = k.code
      /\ Down(Flags(k.ext, FALSE), k.code + 128) = FALSE
      /\ Flags(k.ext, FALSE).extended = k.ext
  BY <1>1 DEF CodeOf, Down, Flags
<1>4. KeyCode(Flags(k.ext, FALSE), k.code + 128) = [next |-> Normal, ev |-> Says(k, FALSE)]
  BY <1>1, <1>3, Zenon DEF KeyCode, Silent, Says
<1> QED BY <1>2, <1>4

-----------------------------------------------------------------------------
(* Packets of one, two and three bytes lead from the normal state back to   *)
(* it when each of their steps does what its byte means.                    *)
LEMMA OneByte ==
  ASSUME NEW a \in Item, Push(Normal, a.byte) = [next |-> Normal, ev |-> a.says]
  PROVE  Leads(Normal, <<a>>)
<1> DEFINE f == [i \in 1 .. 2 |-> Normal]
<1>1. Path(Normal, <<a>>, f)
  BY NormalIsState DEF Path
<1> QED BY <1>1 DEF Leads

(* Two bytes.                                                                *)
LEMMA TwoBytes ==
  ASSUME NEW a \in Item, NEW b \in Item, NEW s \in State,
         a.byte # ACK,
         Push(Normal, a.byte) = [next |-> s, ev |-> a.says],
         Push(s, b.byte) = [next |-> Normal, ev |-> b.says]
  PROVE  Leads(Normal, <<a, b>>)
<1> DEFINE f == [i \in 1 .. 3 |-> IF i = 2 THEN s ELSE Normal]
<1>1. Path(Normal, <<a, b>>, f)
  BY NormalIsState DEF Path
<1> QED BY <1>1 DEF Leads

(* Three bytes.                                                              *)
LEMMA ThreeBytes ==
  ASSUME NEW a \in Item, NEW b \in Item, NEW c \in Item, NEW s \in State, NEW t \in State,
         a.byte # ACK, b.byte # ACK,
         Push(Normal, a.byte) = [next |-> s, ev |-> a.says],
         Push(s, b.byte) = [next |-> t, ev |-> b.says],
         Push(t, c.byte) = [next |-> Normal, ev |-> c.says]
  PROVE  Leads(Normal, <<a, b, c>>)
<1> DEFINE f == [i \in 1 .. 4 |-> CASE i = 2 -> s [] i = 3 -> t [] OTHER -> Normal]
<1>1. Path(Normal, <<a, b, c>>, f)
  BY NormalIsState DEF Path
<1> QED BY <1>1 DEF Leads

-----------------------------------------------------------------------------
(* The packets.                                                             *)

(* A byte put before another.                                               *)
LEMMA PrefixOne ==
  ASSUME NEW S, NEW a \in S, NEW b \in S
  PROVE  <<a>> \o <<b>> = <<a, b>> /\ <<>> \o <<b>> = <<b>>
<1> DEFINE s == <<a>>
           t == <<b>>
           u == <<a, b>>
<1>1. /\ s \in Seq(S) /\ t \in Seq(S) /\ u \in Seq(S) /\ Len(s) = 1 /\ Len(t) = 1 /\ Len(u) = 2
      /\ s[1] = a /\ t[1] = b /\ u[1] = a /\ u[2] = b
  OBVIOUS
<1>2. <<>> \o t = t
  BY <1>1, ConcatEmptySeq
<1> HIDE DEF s, t, u
<1>3. /\ s \o t \in Seq(S) /\ Len(s \o t) = 2
      /\ \A i \in 1 .. 2 : (s \o t)[i] = IF i <= 1 THEN s[i] ELSE t[i - 1]
  BY <1>1, ConcatProperties
<1>4. \A i \in 1 .. 2 : (s \o t)[i] = u[i]
  BY <1>1, <1>3
<1>5. s \o t = u
  BY <1>1, <1>3, <1>4, SeqEqual
<1> QED BY <1>2, <1>5 DEF s, t, u

(* A byte put before two others.                                            *)
LEMMA PrefixTwo ==
  ASSUME NEW S, NEW a \in S, NEW b \in S, NEW c \in S
  PROVE  <<a>> \o <<b, c>> = <<a, b, c>> /\ <<>> \o <<b, c>> = <<b, c>>
<1> DEFINE s == <<a>>
           t == <<b, c>>
           u == <<a, b, c>>
<1>1. /\ s \in Seq(S) /\ t \in Seq(S) /\ u \in Seq(S) /\ Len(s) = 1 /\ Len(t) = 2 /\ Len(u) = 3
      /\ s[1] = a /\ t[1] = b /\ t[2] = c /\ u[1] = a /\ u[2] = b /\ u[3] = c
  OBVIOUS
<1>2. <<>> \o t = t
  BY <1>1, ConcatEmptySeq
<1> HIDE DEF s, t, u
<1>3. /\ s \o t \in Seq(S) /\ Len(s \o t) = 3
      /\ \A i \in 1 .. 3 : (s \o t)[i] = IF i <= 1 THEN s[i] ELSE t[i - 1]
  BY <1>1, ConcatProperties, SMTT(30)
<1>4. \A i \in 1 .. 3 : (s \o t)[i] = u[i]
  BY <1>1, <1>3
<1>5. s \o t = u
  BY <1>1, <1>3, <1>4, SeqEqual
<1> QED BY <1>2, <1>5 DEF s, t, u

(* A packet read from the normal state ends in the normal state, every byte *)
(* of it reported as what it means.                                         *)
Clean(p) == p \in Seq(Item) /\ Leads(Normal, p)

(* The press of a key.                                                      *)
LEMMA MakeIsClean == ASSUME TableRight, NEW k \in Keys PROVE Clean(Make(k))
<1> DEFINE a == Mute(EXTENDED)
           b == [byte |-> k.code, says |-> Says(k, TRUE)]
<1>1. a \in Item /\ b \in Item /\ b.byte = k.code /\ b.says = Says(k, TRUE) /\ a.byte # ACK
  <2>1. a \in Item /\ a.byte = EXTENDED
    BY MuteIsItem, CodesAreBytes
  <2>2. b \in Item /\ b.byte = k.code /\ b.says = Says(k, TRUE)
    BY SaysIsTold, CodesAreBytes DEF Item
  <2> QED BY <2>1, <2>2 DEF EXTENDED, ACK
<1>2. Push(Flags(k.ext, FALSE), b.byte) = [next |-> Normal, ev |-> b.says]
  BY MakeStep, <1>1
<1>3. CASE k.ext = TRUE
  <2>1. Make(k) = <<a, b>>
    BY <1>1, <1>3, PrefixOne DEF Make, Prefix
  <2>2. Push(Normal, a.byte) = [next |-> Flags(TRUE, FALSE), ev |-> a.says]
    BY PrefixStep, MuteIsItem, CodesAreBytes
  <2>3. Flags(TRUE, FALSE) \in State
    BY DEF Flags, State
  <2>4. Leads(Normal, <<a, b>>)
    BY <1>1, <1>2, <1>3, <2>2, <2>3, TwoBytes
  <2> QED BY <1>1, <2>1, <2>4 DEF Clean
<1>4. CASE k.ext = FALSE
  <2>1. Make(k) = <<b>>
    BY <1>1, <1>4, PrefixOne DEF Make, Prefix
  <2>2. Leads(Normal, <<b>>)
    BY <1>1, <1>2, <1>4, OneByte DEF Normal
  <2> QED BY <1>1, <2>1, <2>2 DEF Clean
<1>5. k.ext \in BOOLEAN
  BY CodesAssumption
<1> QED BY <1>3, <1>4, <1>5

(* The release of a key.                                                    *)
LEMMA BreakIsClean == ASSUME TableRight, NEW k \in Keys PROVE Clean(Break(k))
<1> DEFINE a == Mute(EXTENDED)
           r == Mute(RELEASE)
           b == [byte |-> k.code, says |-> Says(k, FALSE)]
           c == [byte |-> k.code + 128, says |-> Says(k, FALSE)]
<1>1. /\ a \in Item /\ r \in Item /\ b \in Item /\ b.byte = k.code /\ b.says = Says(k, FALSE)
      /\ a.byte # ACK /\ r.byte # ACK
  <2>1. a \in Item /\ a.byte = EXTENDED /\ r \in Item /\ r.byte = RELEASE
    BY MuteIsItem, CodesAreBytes
  <2>2. b \in Item /\ b.byte = k.code /\ b.says = Says(k, FALSE)
    BY SaysIsTold, CodesAreBytes DEF Item
  <2> QED BY <2>1, <2>2 DEF EXTENDED, RELEASE, ACK
<1>2. /\ Push(Normal, a.byte) = [next |-> Flags(TRUE, FALSE), ev |-> a.says]
      /\ k.ext \in BOOLEAN /\ Flags(TRUE, FALSE) \in State /\ Flags(k.ext, TRUE) \in State
  <2>1. Push(Normal, a.byte) = [next |-> Flags(TRUE, FALSE), ev |-> a.says]
    BY PrefixStep, MuteIsItem, CodesAreBytes
  <2>2. k.ext \in BOOLEAN
    BY CodesAssumption
  <2> QED BY <2>1, <2>2 DEF Flags, State
<1>3. CASE ScanSet = 2
  <2>1. /\ Push(Flags(k.ext, FALSE), r.byte) = [next |-> Flags(k.ext, TRUE), ev |-> r.says]
        /\ Push(Flags(k.ext, TRUE), b.byte) = [next |-> Normal, ev |-> b.says]
    BY <1>1, <1>2, <1>3, ReleaseStep, BreakStep2, MuteIsItem, CodesAreBytes
  <2>2. CASE k.ext = TRUE
    <3>1. Break(k) = <<a, r, b>>
      BY <1>1, <1>3, <2>2, PrefixTwo DEF Break, Prefix
    <3>2. Leads(Normal, <<a, r, b>>)
      BY <1>1, <1>2, <2>1, <2>2, ThreeBytes
    <3> QED BY <1>1, <3>1, <3>2 DEF Clean
  <2>3. CASE k.ext = FALSE
    <3>1. Break(k) = <<r, b>>
      BY <1>1, <1>3, <2>3, PrefixTwo DEF Break, Prefix
    <3>2. Leads(Normal, <<r, b>>)
      BY <1>1, <1>2, <2>1, <2>3, TwoBytes DEF Normal
    <3> QED BY <1>1, <3>1, <3>2 DEF Clean
  <2> QED BY <1>2, <2>2, <2>3
<1>4. CASE ScanSet = 1
  <2>1. c \in Item /\ c.byte = k.code + 128 /\ c.says = Says(k, FALSE)
    BY <1>4, SaysIsTold, CodesAreBytes DEF Item
  <2>2. Push(Flags(k.ext, FALSE), c.byte) = [next |-> Normal, ev |-> c.says]
    BY <1>4, <2>1, BreakStep1
  <2>0. Break(k) = Prefix(k) \o <<c>>
    BY <1>4 DEF Break
  <2>3. CASE k.ext = TRUE
    <3>0. Prefix(k) = <<a>>
      BY <2>3 DEF Prefix
    <3>1. Break(k) = <<a, c>>
      BY <1>1, <2>1, <2>0, <3>0, PrefixOne, ZenonT(60)
    <3>2. Leads(Normal, <<a, c>>)
      BY <1>1, <1>2, <2>1, <2>2, <2>3, TwoBytes, ZenonT(60)
    <3> QED BY <1>1, <2>1, <3>1, <3>2 DEF Clean
  <2>4. CASE k.ext = FALSE
    <3>0. Prefix(k) = <<>>
      BY <2>4 DEF Prefix
    <3>1. Break(k) = <<c>>
      BY <2>1, <2>0, <3>0, PrefixOne, Zenon
    <3>2. Leads(Normal, <<c>>)
      BY <2>1, <2>2, <2>4, OneByte DEF Normal
    <3> QED BY <2>1, <3>1, <3>2 DEF Clean
  <2> QED BY <1>2, <2>3, <2>4
<1> QED BY <1>3, <1>4, CodesAssumption

(* The pause key: its first byte is the event, the driver ignores the rest. *)
LEMMA PauseIsClean == Clean(MakePause)
<1> DEFINE n == Len(PauseRest)
           a == [byte |-> EXTENDED_PAUSE, says |-> [vkey |-> Pause, pressed |-> TRUE]]
           r == [i \in 1 .. n |-> Mute(PauseRest[i])]
           w == <<a>> \o r
           f == [i \in 1 .. n + 2 |-> IF i = 1 THEN Normal ELSE Ignoring(n + 2 - i)]
<1>1. /\ n = (IF ScanSet = 2 THEN 7 ELSE 5)
      /\ \A i \in 1 .. n : PauseRest[i] \in Byte /\ PauseRest[i] # ACK
  BY CodesAssumption DEF PauseRest, Byte, ACK
<1>2. a \in Item
  <2>1. [vkey |-> Pause, pressed |-> TRUE] \in Told
    BY CodesAssumption DEF Event, Told
  <2> QED BY <2>1, CodesAreBytes DEF Item
<1>3. n \in 5 .. 7
  BY <1>1
<1> HIDE DEF n
<1>4. r \in Seq(Item) /\ Len(r) = n /\ \A i \in 1 .. n : r[i].says = NoEvent /\ r[i].byte # ACK
  <2>1. \A i \in 1 .. n : /\ Mute(PauseRest[i]) \in Item /\ Mute(PauseRest[i]).says = NoEvent
                         /\ Mute(PauseRest[i]).byte # ACK
    BY <1>1, MuteIsItem
  <2>2. r \in [1 .. n -> Item] /\ \A i \in 1 .. n : r[i] = Mute(PauseRest[i])
    BY <2>1
  <2> HIDE DEF r
  <2> QED BY <1>3, <2>1, <2>2
<1>5. /\ w \in Seq(Item) /\ Len(w) = n + 1 /\ w[1] = a
      /\ \A i \in 2 .. n + 1 : w[i] = r[i - 1]
  <2> DEFINE v == <<a>>
  <2>1. v \in Seq(Item) /\ Len(v) = 1 /\ v[1] = a
    BY <1>2
  <2> HIDE DEF a, r, v
  <2>2. /\ v \o r \in Seq(Item) /\ Len(v \o r) = 1 + n
        /\ \A i \in 1 .. 1 + n : (v \o r)[i] = IF i <= 1 THEN v[i] ELSE r[i - 1]
    <3>1. /\ v \o r \in Seq(Item) /\ Len(v \o r) = Len(v) + Len(r)
          /\ \A i \in 1 .. Len(v) + Len(r) :
                (v \o r)[i] = IF i <= Len(v) THEN v[i] ELSE r[i - Len(v)]
      BY <1>4, <2>1, ConcatProperties
    <3>2. Len(v) = 1 /\ Len(r) = n
      BY <1>4, <2>1
    <3> QED BY <3>1, <3>2
  <2>3. (v \o r)[1] = a /\ \A i \in 2 .. n + 1 : (v \o r)[i] = r[i - 1]
    BY <1>3, <2>1, <2>2
  <2> QED BY <1>3, <2>2, <2>3 DEF v
<1>6. /\ f \in [1 .. n + 2 -> State]
      /\ f[1] = Normal
      /\ \A i \in 2 .. n + 2 : f[i] = Ignoring(n + 2 - i)
  <2>1. \A i \in 2 .. n + 2 : Ignoring(n + 2 - i) \in State
    BY <1>3 DEF Ignoring, State
  <2> QED BY <1>3, <2>1, NormalIsState
<1> HIDE DEF f, w, r
<1>7. f[n + 2] = Normal
  BY <1>3, <1>6 DEF Ignoring, Normal, Flags
<1>8. ASSUME NEW i \in 1 .. n + 1
      PROVE  Push(f[i], w[i].byte) = [next |-> f[i + 1], ev |-> w[i].says]
  <2>1. CASE i = 1
    <3>1. f[1] = Normal /\ f[2] = Ignoring(n) /\ w[1] = a
      BY <1>3, <1>5, <1>6
    <3>2. Push(Normal, EXTENDED_PAUSE) = PauseKey
      BY DEF Push, Normal, Flags, EXTENDED, EXTENDED_PAUSE, RELEASE
    <3>3. PauseKey = [next |-> Ignoring(n), ev |-> a.says]
      BY <1>1 DEF PauseKey
    <3>4. f[i] = Normal /\ f[i + 1] = Ignoring(n) /\ w[i] = a /\ a.byte = EXTENDED_PAUSE
      BY <2>1, <3>1
    <3> HIDE DEF a
    <3> QED BY <3>2, <3>3, <3>4
  <2>2. CASE i # 1
    <3>1. /\ f[i] = Ignoring(n + 2 - i) /\ f[i + 1] = Ignoring(n + 1 - i)
      <4>1. n + 2 - (i + 1) = n + 1 - i /\ i \in 2 .. n + 2 /\ i + 1 \in 2 .. n + 2
        BY <1>3, <2>2
      <4> QED BY <1>6, <4>1
    <3>2. w[i].says = NoEvent
      <4>1. i - 1 \in 1 .. n /\ i \in 2 .. n + 1
        BY <1>3, <2>2
      <4> QED BY <1>4, <1>5, <4>1
    <3>3. n + 2 - i > 0 /\ n + 2 - i - 1 = n + 1 - i
      BY <1>3, <2>2
    <3>4. Push(Ignoring(n + 2 - i), w[i].byte) = Silent(Ignoring(n + 1 - i))
      <4> DEFINE m == n + 2 - i
      <4>1. m \in Nat \ {0} /\ m - 1 = n + 1 - i
        BY <1>3, <3>3
      <4> HIDE DEF m
      <4>2. Push(Ignoring(m), w[i].byte) = Silent(Ignoring(m - 1))
        BY <4>1, IgnoredStep
      <4>3. Ignoring(m - 1) = Ignoring(n + 1 - i)
        BY <4>1
      <4> QED BY <4>2, <4>3 DEF m
    <3> QED BY <3>1, <3>2, <3>4, Zenon DEF Silent
  <2> QED BY <2>1, <2>2
<1>9. ASSUME NEW i \in 1 .. n + 1
      PROVE  w[i].byte # ACK
  <2>1. CASE i = 1
    BY <1>5, <2>1 DEF EXTENDED_PAUSE, ACK
  <2>2. CASE i # 1
    <3>1. i - 1 \in 1 .. n /\ i \in 2 .. n + 1
      BY <1>3, <2>2
    <3> QED BY <1>4, <1>5, <3>1
  <2> QED BY <2>1, <2>2
<1>10. Path(Normal, w, f)
  <2>1. Len(w) + 1 = n + 2
    BY <1>3, <1>5
  <2> QED BY <1>5, <1>6, <1>7, <1>8, <1>9, <2>1, Zenon DEF Path
<1>11. Leads(Normal, w)
  BY <1>10 DEF Leads
<1> QED BY <1>5, <1>11 DEF Clean, MakePause, w, r, n

(* An ACK is read as a key without a vkey.                                  *)
LEMMA AnswerIsClean == Clean(Answer)
<1> DEFINE a == Mute(ACK)
<1>1. a \in Item /\ a.byte = ACK /\ a.says = NoEvent
  BY MuteIsItem, CodesAreBytes
<1>2. Push(Normal, ACK) = KeyCode(Normal, ACK)
  BY DEF Push, Normal, Flags, EXTENDED, EXTENDED_PAUSE, RELEASE, ACK
<1>3. VKey[FALSE][CodeOf(ACK)] = NoKey /\ Normal.extended = FALSE
  <2>1. CodeOf(ACK) = ACK \/ CodeOf(ACK) = ACK - 128
    BY DEF CodeOf, ACK
  <2>2. Normal.extended = FALSE
    BY DEF Normal, Flags
  <2> QED BY <2>1, <2>2, CodesAssumption
<1>4. Push(Normal, a.byte) = [next |-> Normal, ev |-> a.says]
  BY <1>1, <1>2, <1>3, Zenon DEF KeyCode, Silent
<1> QED BY <1>1, <1>4, OneByte DEF Clean, Answer

(* Everything the keyboard sends is clean.                                  *)
LEMMA PacketsAreClean == ASSUME TableRight, NEW p \in Packets PROVE Clean(p)
BY MakeIsClean, BreakIsClean, PauseIsClean, AnswerIsClean DEF Packets

-----------------------------------------------------------------------------
(* A path continued by the path of a packet.                                *)
LEMMA PathGrows ==
  ASSUME NEW s, NEW w \in Seq(Item), NEW p \in Seq(Item), Leads(s, w), Leads(Normal, p)
  PROVE  Leads(s, w \o p)
<1>1. PICK f : Path(s, w, f)
  BY DEF Leads
<1>2. PICK g : Path(Normal, p, g)
  BY DEF Leads
<1> DEFINE m == Len(w)
           h == [i \in 1 .. Len(w \o p) + 1 |-> IF i <= m THEN f[i] ELSE g[i - m]]
<1>3. /\ m \in Nat /\ Len(p) \in Nat /\ w \o p \in Seq(Item) /\ Len(w \o p) = m + Len(p)
      /\ \A i \in 1 .. m : (w \o p)[i] = w[i]
      /\ \A i \in m + 1 .. m + Len(p) : (w \o p)[i] = p[i - m]
  BY ConcatProperties
<1>4. /\ f \in [1 .. m + 1 -> State] /\ f[1] = s /\ f[m + 1] = Normal
      /\ \A i \in 1 .. m : Push(f[i], w[i].byte) = [next |-> f[i + 1], ev |-> w[i].says]
      /\ \A i \in 1 .. m : w[i].byte = ACK => f[i + 1] = Normal
  BY <1>1 DEF Path
<1>5. /\ g \in [1 .. Len(p) + 1 -> State] /\ g[1] = Normal /\ g[Len(p) + 1] = Normal
      /\ \A i \in 1 .. Len(p) : Push(g[i], p[i].byte) = [next |-> g[i + 1], ev |-> p[i].says]
      /\ \A i \in 1 .. Len(p) : p[i].byte = ACK => g[i + 1] = Normal
  BY <1>2 DEF Path
<1>6. /\ h \in [1 .. Len(w \o p) + 1 -> State] /\ h[Len(w \o p) + 1] = Normal
      /\ \A i \in 1 .. m + Len(p) + 1 : h[i] = IF i <= m THEN f[i] ELSE g[i - m]
  BY <1>3, <1>4, <1>5
<1> HIDE DEF h, m
<1>7. \A i \in 1 .. m + 1 : h[i] = f[i]
  BY <1>3, <1>4, <1>5, <1>6
<1>8. ASSUME NEW i \in 1 .. Len(w \o p)
      PROVE  /\ Push(h[i], (w \o p)[i].byte) = [next |-> h[i + 1], ev |-> (w \o p)[i].says]
             /\ (w \o p)[i].byte = ACK => h[i + 1] = Normal
  <2>1. CASE i <= m
    <3>1. h[i] = f[i] /\ h[i + 1] = f[i + 1] /\ (w \o p)[i] = w[i] /\ i \in 1 .. m
      BY <1>3, <1>7, <2>1
    <3> QED BY <1>4, <3>1, Zenon
  <2>2. CASE i > m
    <3>1. /\ h[i] = g[i - m] /\ h[i + 1] = g[i - m + 1] /\ (w \o p)[i] = p[i - m]
          /\ i - m \in 1 .. Len(p)
      <4>1. i \in 1 .. m + Len(p) + 1 /\ i + 1 \in 1 .. m + Len(p) + 1 /\ i + 1 - m = i - m + 1
        BY <1>3, <2>2
      <4>2. ~ (i <= m) /\ ~ (i + 1 <= m) /\ i \in m + 1 .. m + Len(p) /\ i - m \in 1 .. Len(p)
        BY <1>3, <2>2
      <4>3. h[i] = g[i - m]
        BY <1>6, <4>1, <4>2
      <4>4. h[i + 1] = g[i - m + 1]
        <5>1. PICK j \in 1 .. m + Len(p) + 1 : j = i + 1
          BY <4>1
        <5>2. ~ (j <= m) /\ j - m = i - m + 1
          <6>1. m \in Nat /\ i \in Nat
            BY <1>3
          <6> QED BY <2>2, <5>1, <6>1
        <5>3. h[j] = g[j - m]
          BY <1>6, <5>2
        <5> QED BY <5>1, <5>2, <5>3
      <4>5. (w \o p)[i] = p[i - m]
        BY <1>3, <4>2
      <4> QED BY <4>1, <4>2, <4>3, <4>4, <4>5
    <3> QED BY <1>5, <3>1, Zenon
  <2> QED BY <1>3, <2>1, <2>2
<1>9. h[1] = s
  BY <1>3, <1>4, <1>7
<1> QED BY <1>6, <1>8, <1>9 DEF Leads, Path

(* A path after its first step.                                             *)
LEMMA PathShrinks ==
  ASSUME NEW s, NEW w \in Seq(Item), w # <<>>, Leads(s, w)
  PROVE  /\ Leads(Push(s, Head(w).byte).next, Tail(w))
         /\ Push(s, Head(w).byte).ev = Head(w).says
         /\ Push(s, Head(w).byte).next \in State
         /\ Head(w).byte = ACK => Push(s, Head(w).byte).next = Normal
<1>1. PICK f : Path(s, w, f)
  BY DEF Leads
<1>2. /\ Len(w) \in Nat \ {0} /\ Head(w) = w[1] /\ Tail(w) \in Seq(Item)
      /\ Len(Tail(w)) = Len(w) - 1
      /\ \A i \in 1 .. Len(Tail(w)) : Tail(w)[i] = w[i + 1]
  BY HeadTailProperties, EmptySeq
<1>3. /\ f \in [1 .. Len(w) + 1 -> State] /\ f[1] = s /\ f[Len(w) + 1] = Normal
      /\ \A i \in 1 .. Len(w) : Push(f[i], w[i].byte) = [next |-> f[i + 1], ev |-> w[i].says]
      /\ \A i \in 1 .. Len(w) : w[i].byte = ACK => f[i + 1] = Normal
  BY <1>1 DEF Path
<1>4. /\ Push(s, Head(w).byte) = [next |-> f[2], ev |-> Head(w).says] /\ f[2] \in State
      /\ Head(w).byte = ACK => f[2] = Normal
  BY <1>2, <1>3
<1> DEFINE g == [i \in 1 .. Len(Tail(w)) + 1 |-> f[i + 1]]
<1>5. g \in [1 .. Len(Tail(w)) + 1 -> State] /\ g[1] = f[2] /\ g[Len(Tail(w)) + 1] = Normal
  BY <1>2, <1>3
<1>6. ASSUME NEW i \in 1 .. Len(Tail(w))
      PROVE  /\ Push(g[i], Tail(w)[i].byte) = [next |-> g[i + 1], ev |-> Tail(w)[i].says]
             /\ Tail(w)[i].byte = ACK => g[i + 1] = Normal
  <2>1. g[i] = f[i + 1] /\ g[i + 1] = f[i + 1 + 1] /\ Tail(w)[i] = w[i + 1] /\ i + 1 \in 1 .. Len(w)
    BY <1>2
  <2> QED BY <1>3, <2>1, Zenon
<1> HIDE DEF g
<1>7. Path(f[2], Tail(w), g)
  BY <1>5, <1>6 DEF Path
<1> QED BY <1>4, <1>7 DEF Leads


(* The state behind the last byte is the normal one.                        *)
LEMMA PathEnds == \A s : Leads(s, <<>>) => s = Normal
<1> SUFFICES ASSUME NEW s, Leads(s, <<>>) PROVE s = Normal
  OBVIOUS
<1>1. PICK f : Path(s, <<>>, f)
  BY DEF Leads
<1>2. Len(<<>>) + 1 = 1
  BY EmptySeq
<1> QED BY <1>1, <1>2 DEF Path

(* With nothing to read the driver is where it should be.                   *)
LEMMA PathEmpty == Leads(Normal, <<>>)
<1> DEFINE f == [i \in 1 .. 1 |-> Normal]
<1>1. Path(Normal, <<>>, f)
  BY NormalIsState DEF Path
<1> QED BY <1>1 DEF Leads

(* An event leaves no prefix behind, and but for the pause key's it is the  *)
(* end of a code.                                                           *)
LEMMA EventEndsCode ==
  ASSUME NEW s \in State, NEW b \in Byte, Push(s, b).ev # NoEvent
  PROVE  /\ ~Push(s, b).next.extended /\ ~Push(s, b).next.release
         /\ Push(s, b).ev.vkey # Pause => Push(s, b).next = Normal
<1>1. \A t : Silent(t).ev = NoEvent
  BY DEF Silent
<1>2. Push(s, b) = PauseKey \/ Push(s, b) = KeyCode(s, b)
  <2>1. s.num_ignore \in 0 .. 7
    BY DEF State
  <2>2. CASE s.num_ignore > 0
    <3>1. Push(s, b) = Silent(Ignoring(s.num_ignore - 1))
      <4>1. s.num_ignore # 0
        BY <2>1, <2>2
      <4> QED BY <2>2, <4>1, Zenon DEF Push, Ignored
    <3> QED BY <1>1, <3>1
  <2>3. CASE s.num_ignore = 0 /\ b = RELEASE /\ ScanSet = 2
    <3>1. Push(s, b) = Silent(Flags(s.extended, TRUE))
      BY <2>3 DEF Push, RELEASE, EXTENDED, EXTENDED_PAUSE
    <3> QED BY <1>1, <3>1
  <2>4. CASE s.num_ignore = 0 /\ b = EXTENDED
    <3>1. Push(s, b) = Silent(Flags(TRUE, s.release))
      BY <2>4 DEF Push, RELEASE, EXTENDED, EXTENDED_PAUSE
    <3> QED BY <1>1, <3>1
  <2>5. CASE s.num_ignore = 0 /\ b = EXTENDED_PAUSE
    BY <2>5 DEF Push, RELEASE, EXTENDED, EXTENDED_PAUSE
  <2>6. CASE /\ s.num_ignore = 0 /\ ~(b = RELEASE /\ ScanSet = 2)
             /\ b # EXTENDED /\ b # EXTENDED_PAUSE
    <3>1. ~(s.num_ignore > 0)
      BY <2>6
    <3> QED BY <2>6, <3>1, Zenon DEF Push
  <2> QED BY <2>1, <2>2, <2>3, <2>4, <2>5, <2>6
<1>3. CASE Push(s, b) = PauseKey
  BY <1>3 DEF PauseKey, Ignoring
<1>4. CASE Push(s, b) = KeyCode(s, b)
  <2>1. KeyCode(s, b).next = Normal
    <3> DEFINE vkey == VKey[s.extended][CodeOf(b)]
    <3>1. CASE vkey = NoKey
      <4>1. KeyCode(s, b) = Silent(Normal)
        BY <3>1 DEF KeyCode
      <4> QED BY <4>1 DEF Silent
    <3>2. CASE vkey # NoKey
      <4>1. KeyCode(s, b) = [next |-> Normal, ev |-> [vkey |-> vkey, pressed |-> Down(s, b)]]
        BY <3>2, Zenon DEF KeyCode
      <4> DEFINE ev == [vkey |-> vkey, pressed |-> Down(s, b)]
      <4> HIDE DEF vkey, ev
      <4>2. KeyCode(s, b) = [next |-> Normal, ev |-> ev]
        BY <4>1 DEF ev
      <4> QED BY <4>2
    <3> QED BY <3>1, <3>2
  <2>2. ~Normal.extended /\ ~Normal.release
    BY DEF Normal, Flags
  <2> QED BY <1>4, <2>1, <2>2
<1> QED BY <1>2, <1>3, <1>4

-----------------------------------------------------------------------------
(* What the packets mean: at most one event each.                           *)
Once(ev) == IF ev = NoEvent THEN <<>> ELSE <<ev>>

(* Bytes in front that mean nothing.                                        *)
LEMMA MeantBehind ==
  ASSUME NEW u \in Seq(Item), NEW b \in Item, \A i \in 1 .. Len(u) : u[i].says = NoEvent
  PROVE  u \o <<b>> \in Seq(Item) /\ Meant(u \o <<b>>) = Once(b.says)
<1> DEFINE v == <<b>>
<1>1. v \in Seq(Item)
  OBVIOUS
<1>2. Meant(v) = Once(b.says) /\ Meant(v) \in Seq(Event)
  BY <1>1, MeantOne, MeantType DEF Once
<1>3. Meant(u) = <<>>
  BY MeantNothing
<1> HIDE DEF v
<1>4. u \o v \in Seq(Item) /\ Meant(u \o v) = Meant(u) \o Meant(v)
  BY <1>1, MeantConcat, ConcatProperties
<1>5. <<>> \o Meant(v) = Meant(v)
  BY <1>2, ConcatEmptySeq
<1> QED BY <1>2, <1>3, <1>4, <1>5 DEF v

(* The prefix means nothing.                                                *)
LEMMA PrefixIsMute ==
  ASSUME NEW k \in Keys
  PROVE  /\ Prefix(k) \in Seq(Item)
         /\ \A i \in 1 .. Len(Prefix(k)) : Prefix(k)[i].says = NoEvent
<1> DEFINE a == Mute(EXTENDED)
<1>1. a \in Item /\ a.says = NoEvent
  BY MuteIsItem, CodesAreBytes
<1>2. Prefix(k) = IF k.ext THEN <<a>> ELSE <<>>
  BY DEF Prefix
<1> HIDE DEF a
<1>3. CASE k.ext
  BY <1>1, <1>2, <1>3
<1>4. CASE ~k.ext
  BY <1>2, <1>4
<1> QED BY <1>3, <1>4

(* A press and a release.                                                   *)
LEMMA MakeMeans ==
  ASSUME NEW k \in Keys
  PROVE  Meant(Make(k)) = Once(Says(k, TRUE))
<1> DEFINE b == [byte |-> k.code, says |-> Says(k, TRUE)]
<1>1. b \in Item /\ b.says = Says(k, TRUE)
  BY SaysIsTold, CodesAreBytes DEF Item
<1>2. Make(k) = Prefix(k) \o <<b>>
  BY DEF Make
<1> HIDE DEF b
<1> QED BY <1>1, <1>2, PrefixIsMute, MeantBehind

LEMMA BreakMeans ==
  ASSUME NEW k \in Keys
  PROVE  Meant(Break(k)) = Once(Says(k, FALSE))
<1> DEFINE r == Mute(RELEASE)
           b == [byte |-> k.code, says |-> Says(k, FALSE)]
           c == [byte |-> k.code + 128, says |-> Says(k, FALSE)]
           u == <<r>>
           v == <<b>>
<1>1. /\ r \in Item /\ r.says = NoEvent
      /\ b \in Item /\ b.says = Says(k, FALSE)
      /\ ScanSet = 1 => c \in Item /\ c.says = Says(k, FALSE)
  <2>1. r \in Item /\ r.says = NoEvent
    BY MuteIsItem, CodesAreBytes
  <2>2. /\ b \in Item /\ b.says = Says(k, FALSE)
        /\ ScanSet = 1 => c \in Item /\ c.says = Says(k, FALSE)
    BY SaysIsTold, CodesAreBytes DEF Item
  <2> QED BY <2>1, <2>2
<1>2. CASE ScanSet = 2
  <2>1. Break(k) = Prefix(k) \o <<r, b>>
    BY <1>2 DEF Break
  <2>2. u \in Seq(Item) /\ Len(u) = 1 /\ u[1] = r /\ v \in Seq(Item)
    BY <1>1
  <2> HIDE DEF r, b
  <2>3. <<r, b>> = u \o v
    BY <1>1, PrefixOne, Zenon
  <2> HIDE DEF u, v
  <2> DEFINE p == Prefix(k)
  <2>4. p \in Seq(Item) /\ \A i \in 1 .. Len(p) : p[i].says = NoEvent
    BY PrefixIsMute
  <2> HIDE DEF p
  <2>5. p \o (u \o v) = (p \o u) \o v
    BY <2>2, <2>4, ConcatAssociative
  <2>6. p \o u \in Seq(Item) /\ \A i \in 1 .. Len(p \o u) : (p \o u)[i].says = NoEvent
    <3>1. /\ p \o u \in Seq(Item) /\ Len(p \o u) = Len(p) + 1 /\ Len(p) \in Nat
          /\ \A i \in 1 .. Len(p) + 1 : (p \o u)[i] = IF i <= Len(p) THEN p[i] ELSE u[i - Len(p)]
      <4>1. p \in Seq(Item) /\ u \in Seq(Item) /\ Len(p) \in Nat
        BY <2>2, <2>4
      <4>2. /\ p \o u \in Seq(Item) /\ Len(p \o u) = Len(p) + Len(u)
            /\ \A i \in 1 .. Len(p) + Len(u) :
                 (p \o u)[i] = IF i <= Len(p) THEN p[i] ELSE u[i - Len(p)]
        BY <4>1, ConcatProperties
      <4> QED BY <2>2, <4>1, <4>2
    <3>2. ASSUME NEW i \in 1 .. Len(p) + 1 PROVE (p \o u)[i].says = NoEvent
      <4>1. CASE i <= Len(p)
        BY <2>4, <3>1, <4>1
      <4>2. CASE i = Len(p) + 1
        BY <1>1, <2>2, <3>1, <4>2
      <4> QED BY <3>1, <4>1, <4>2
    <3> QED BY <3>1, <3>2
  <2>7. Break(k) = (p \o u) \o <<b>>
    BY <2>1, <2>3, <2>5 DEF p, v
  <2>8. Meant((p \o u) \o <<b>>) = Once(b.says)
    BY <1>1, <2>6, MeantBehind
  <2> QED BY <1>1, <2>7, <2>8
<1>3. CASE ScanSet = 1
  <2>1. Break(k) = Prefix(k) \o <<c>>
    BY <1>3 DEF Break
  <2> HIDE DEF c
  <2> QED BY <1>1, <1>3, <2>1, PrefixIsMute, MeantBehind
<1> QED BY <1>2, <1>3, CodesAssumption

(* The pause key, and an answer.                                            *)
PausePress == [vkey |-> Pause, pressed |-> TRUE]

LEMMA PauseMeans == PausePress \in Event /\ PausePress # NoEvent /\ Meant(MakePause) = <<PausePress>>
<1> DEFINE a == [byte |-> EXTENDED_PAUSE, says |-> PausePress]
           r == [i \in 1 .. Len(PauseRest) |-> Mute(PauseRest[i])]
           v == <<a>>
<1>0. PausePress \in Event /\ PausePress # NoEvent
  <2>1. PausePress \in Event /\ PausePress.vkey = Pause /\ NoEvent.vkey = NoKey /\ Pause # NoKey
    BY CodesAssumption DEF PausePress, Event, NoEvent
  <2> QED BY <2>1
<1>1. a \in Item /\ a.says = PausePress
  BY <1>0, CodesAreBytes DEF Item, Told
<1>2. r \in Seq(Item) /\ \A i \in 1 .. Len(r) : r[i].says = NoEvent
  <2>1. /\ Len(PauseRest) \in Nat
        /\ \A i \in 1 .. Len(PauseRest) : PauseRest[i] \in Byte
    BY CodesAssumption DEF PauseRest, Byte
  <2>2. \A i \in 1 .. Len(PauseRest) : /\ Mute(PauseRest[i]) \in Item
                                       /\ Mute(PauseRest[i]).says = NoEvent
    BY <2>1, MuteIsItem
  <2> QED BY <2>1, <2>2
<1>3. MakePause = v \o r
  BY DEF MakePause, PausePress
<1>4. v \in Seq(Item)
  BY <1>1
<1>5. Meant(v) = <<PausePress>>
  BY <1>0, <1>1, MeantOne
<1> HIDE DEF a, r, v
<1>6. Meant(MakePause) = <<PausePress>> \o <<>>
  BY <1>2, <1>3, <1>4, <1>5, MeantConcat, MeantNothing
<1>7. <<PausePress>> \o <<>> = <<PausePress>>
  BY <1>0, ConcatEmptySeq
<1> QED BY <1>0, <1>6, <1>7

LEMMA AnswerMeans == Meant(Answer) = <<>>
<1> DEFINE a == Mute(ACK)
<1>1. a \in Item /\ a.says = NoEvent
  BY MuteIsItem, CodesAreBytes
<1>2. Answer = <<a>>
  BY DEF Answer
<1> HIDE DEF a
<1> QED BY <1>1, <1>2, MeantOne

(* No packet means more than one event.                                     *)
LEMMA PacketMeans ==
  ASSUME NEW p \in Packets
  PROVE  Meant(p) = <<>> \/ \E e \in Event : Meant(p) = <<e>>
<1>1. \A e \in Told : Once(e) = <<>> \/ \E x \in Event : Once(e) = <<x>>
  BY DEF Once, Told
<1>2. CASE \E k \in Keys : p = Make(k)
  BY <1>1, <1>2, MakeMeans, SaysIsTold
<1>3. CASE \E k \in Keys : p = Break(k)
  BY <1>1, <1>3, BreakMeans, SaysIsTold
<1>4. CASE p = MakePause \/ p = Answer
  BY <1>4, PauseMeans, AnswerMeans
<1> QED BY <1>2, <1>3, <1>4 DEF Packets

(* What is taken from the front of a sequence.                              *)
LEMMA TakenFirst ==
  ASSUME NEW e \in Event, NEW q \in Seq(Event)
  PROVE  /\ <<e>> \o q # <<>> /\ Head(<<e>> \o q) = e /\ Tail(<<e>> \o q) = q
         /\ <<e>> \o q \in Seq(Event)
<1> DEFINE v == <<e>>
           w == v \o q
<1>1. v \in Seq(Event) /\ Len(v) = 1 /\ v[1] = e /\ Len(q) \in Nat
  OBVIOUS
<1> HIDE DEF v
<1>2. /\ w \in Seq(Event) /\ Len(w) = 1 + Len(q)
      /\ \A i \in 1 .. 1 + Len(q) : w[i] = IF i <= 1 THEN v[i] ELSE q[i - 1]
  <2>1. /\ w \in Seq(Event) /\ Len(w) = Len(v) + Len(q)
        /\ \A i \in 1 .. Len(v) + Len(q) : w[i] = IF i <= Len(v) THEN v[i] ELSE q[i - Len(v)]
    BY <1>1, ConcatProperties
  <2> QED BY <1>1, <2>1
<1> HIDE DEF w
<1>3. w # <<>> /\ Head(w) = e
  BY <1>1, <1>2, HeadTailProperties, EmptySeq
<1>4. /\ Tail(w) \in Seq(Event) /\ Len(Tail(w)) = Len(q)
      /\ \A i \in 1 .. Len(q) : Tail(w)[i] = q[i]
  <2>1. /\ Tail(w) \in Seq(Event) /\ Len(Tail(w)) = Len(w) - 1
        /\ \A i \in 1 .. Len(Tail(w)) : Tail(w)[i] = w[i + 1]
    BY <1>2, <1>3, HeadTailProperties
  <2>2. ASSUME NEW i \in 1 .. Len(q) PROVE Tail(w)[i] = q[i]
    <3>1. i + 1 \in 1 .. 1 + Len(q) /\ ~(i + 1 <= 1) /\ (i + 1) - 1 = i
      BY <1>1
    <3>2. w[i + 1] = q[i]
      BY <1>2, <3>1
    <3> QED BY <1>1, <1>2, <2>1, <3>2
  <2> QED BY <1>1, <1>2, <2>1, <2>2
<1>5. Tail(w) = q
  BY <1>4, SeqEqual
<1> QED BY <1>2, <1>3, <1>5 DEF w, v
=============================================================================
