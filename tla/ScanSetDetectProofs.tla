------------------------ MODULE ScanSetDetectProofs -------------------------
(***************************************************************************)
(* What keyboard_detect_scanset() finds, for any keyboard: type            *)
(* correctness and, if no key's code is mistaken for the release of        *)
(* another (Apart), that the set found is the keyboard's and that the      *)
(* decoder starts at the beginning of a code.                              *)
(***************************************************************************)
EXTENDS ScanSetDetect, SequenceTheorems, TLAPS

WireByte == [byte : 0 .. 255, last : BOOLEAN]

(* The last byte of a key's code: its press or, in set 1, its release.      *)
KeyByte(b) == \E k \in KeysOf[set] : b = k.code \/ (set = 1 /\ b = k.code + 128)

(* A byte that ends a code is a key's or an answer.                         *)
Ends(x) == x.byte = ACK \/ KeyByte(x.byte)

(* Every byte of the wire is the prefix E0, the prefix F0 of set 2, which   *)
(* is followed by the end of its code, or an end.                           *)
WellFormed(w) ==
  \A i \in 1 .. Len(w) :
    \/ w[i].byte = E0 /\ ~w[i].last
    \/ set = 2 /\ w[i].byte = F0 /\ ~w[i].last /\ i < Len(w) /\ w[i + 1].last
    \/ w[i].last /\ Ends(w[i])

(* The answers of bring-up are in front.                                    *)
AcksFirst(w) == \A i, j \in 1 .. Len(w) : (i < j /\ w[j].byte = ACK) => w[i].byte = ACK

NoAck(w) == \A i \in 1 .. Len(w) : w[i].byte # ACK

(* A byte that is no answer.                                                *)
CodeByte(b) == b = E0 \/ (set = 2 /\ b = F0) \/ KeyByte(b)

(* What the wire holds, and what the driver knows of it while it is in the  *)
(* middle of an attempt.                                                    *)
DetectInv ==
  /\ TypeOK
  /\ WellFormed(wire) /\ AcksFirst(wire)
  /\ pc = "c2" => NoAck(wire) /\ CodeByte(c1)
  /\ pc = "c3" => set = 2 /\ wire # <<>> /\ wire[1].last
  /\ pc = "done" => found = set /\ whole

-----------------------------------------------------------------------------
(* A code: a prefix or none, a release prefix or none, and a last byte.     *)
Parts(S, e, r, x, pre, rest) ==
  /\ pre \in Seq(S) /\ Len(pre) \in {0, 1} /\ (Len(pre) = 1 => pre[1] = e)
  /\ rest \in Seq(S) /\ Len(rest) \in {1, 2} /\ rest[Len(rest)] = x
  /\ Len(rest) = 2 => rest[1] = r

AllBytes(S) == \A a \in S : a.byte \in 0 .. 255

LEMMA CodeShape ==
  ASSUME NEW S, AllBytes(S), NEW e, NEW r, NEW x, NEW pre, NEW rest,
         Parts(S, e, r, x, pre, rest)
  PROVE  LET p == Coded(pre \o rest)
         IN  /\ p \in Seq(WireByte) /\ Len(p) \in Nat \ {0}
             /\ p[Len(p)].byte = x.byte /\ p[Len(p)].last
             /\ \A i \in 1 .. Len(p) : i # Len(p) =>
                  /\ ~p[i].last
                  /\ p[i].byte = e.byte \/ (p[i].byte = r.byte /\ Len(rest) = 2 /\ i + 1 = Len(p))
<1> DEFINE q == pre \o rest
           p == Coded(q)
<1>1. q \in Seq(S) /\ Len(q) = Len(pre) + Len(rest)
      /\ \A i \in 1 .. Len(pre) + Len(rest) : q[i] = IF i <= Len(pre) THEN pre[i] ELSE rest[i - Len(pre)]
  <2>1. pre \in Seq(S) /\ rest \in Seq(S)
    BY DEF Parts
  <2> QED
    BY <2>1, ConcatProperties
<1>2. Len(pre) \in {0, 1} /\ Len(rest) \in {1, 2} /\ Len(q) \in Nat \ {0}
  <2>1. Len(pre) \in {0, 1} /\ Len(rest) \in {1, 2}
    BY DEF Parts
  <2> HIDE DEF q
  <2> QED
    BY <1>1, <2>1
<1> HIDE DEF q
<1>3. q[Len(q)] = x
  BY <1>1, <1>2 DEF Parts
<1>4. ASSUME NEW i \in 1 .. Len(q), i # Len(q)
      PROVE  q[i] = e \/ (q[i] = r /\ Len(rest) = 2 /\ i + 1 = Len(q))
  <2>1. CASE i <= Len(pre)
    BY <1>1, <1>2, <2>1 DEF Parts
  <2>2. CASE i > Len(pre)
    <3>0. Len(q) = Len(pre) + Len(rest)
      BY <1>1
    <3>1. i - Len(pre) = 1 /\ Len(rest) = 2 /\ i + 1 = Len(q)
      <4>1. \A a \in {0, 1} : \A b \in {1, 2} : \A j \in 1 .. a + b :
              (j # a + b /\ j > a) => j - a = 1 /\ b = 2 /\ j + 1 = a + b
        OBVIOUS
      <4> QED
        BY <1>2, <1>4, <2>2, <3>0, <4>1
    <3>2. q[i] = rest[i - Len(pre)]
      BY <1>1, <1>2, <2>2
    <3> QED
      BY <3>1, <3>2 DEF Parts
  <2> QED
    BY <1>2, <2>1, <2>2
<1>5. /\ p \in Seq(WireByte) /\ Len(p) = Len(q)
      /\ \A i \in 1 .. Len(q) : p[i] = [byte |-> q[i].byte, last |-> i = Len(q)]
  <2>1. p = [i \in 1 .. Len(q) |-> [byte |-> q[i].byte, last |-> i = Len(q)]]
    BY DEF Coded
  <2>2. \A i \in 1 .. Len(q) : [byte |-> q[i].byte, last |-> i = Len(q)] \in WireByte
    <3>1. \A i \in 1 .. Len(q) : q[i].byte \in 0 .. 255
      BY <1>1, ElementOfSeq DEF AllBytes
    <3> QED
      BY <3>1 DEF WireByte
  <2> HIDE DEF p
  <2> QED
    BY <1>2, <2>1, <2>2
<1> HIDE DEF p
<1>6. \A i \in 1 .. Len(q) : p[i].byte = q[i].byte /\ (p[i].last <=> i = Len(q))
  <2> SUFFICES ASSUME NEW i \in 1 .. Len(q)
               PROVE  p[i].byte = q[i].byte /\ (p[i].last <=> i = Len(q))
    OBVIOUS
  <2>1. CASE i = Len(q)
    <3>1. p[i] = [byte |-> q[i].byte, last |-> TRUE]
      BY <1>5, <2>1
    <3> QED
      BY <2>1, <3>1
  <2>2. CASE i # Len(q)
    <3>1. p[i] = [byte |-> q[i].byte, last |-> FALSE]
      BY <1>5, <2>2
    <3> QED
      BY <2>2, <3>1
  <2> QED
    BY <2>1, <2>2
<1>7. p[Len(p)].byte = x.byte /\ p[Len(p)].last
  BY <1>2, <1>3, <1>5, <1>6
<1>8. ASSUME NEW i \in 1 .. Len(p), i # Len(p)
      PROVE  ~p[i].last /\ (p[i].byte = e.byte \/ (p[i].byte = r.byte /\ Len(rest) = 2 /\ i + 1 = Len(p)))
  BY <1>4, <1>5, <1>6, <1>8
<1> QED
  BY <1>2, <1>5, <1>7, <1>8 DEF p, q

(* What a key sends.                                                        *)
LEMMA PacketOfKey ==
  ASSUME TypeOK, NEW k \in KeysOf[set], NEW p,
         p = Coded(InSet(set)!Make(k)) \/ p = Coded(InSet(set)!Break(k))
  PROVE  p \in Seq(WireByte) /\ WellFormed(p) /\ NoAck(p)
<1>1. /\ set \in {1, 2} /\ k.code \in 0 .. 255
      /\ (set = 1 => k.code < 96)
      /\ (set = 2 => k.code \notin {E0, 225, F0, ACK})
  <2>1. set \in DOMAIN KeysOf /\ set \in {1, 2}
    BY ScanSetDetectAssumption DEF TypeOK
  <2>2. k \in [ext : BOOLEAN, code : 0 .. 255, means : {"none"}]
    BY <2>1, ScanSetDetectAssumption DEF Keys
  <2> QED
    BY <2>1, <2>2, ScanSetDetectAssumption
<1> DEFINE none  == InSet(set)!NoEvent
           e     == [byte |-> E0, says |-> none]
           r     == [byte |-> F0, says |-> none]
           up    == IF set = 2 THEN k.code ELSE k.code + 128
           x     == [byte |-> k.code, says |-> InSet(set)!Says(k, TRUE)]
           y     == [byte |-> up, says |-> InSet(set)!Says(k, FALSE)]
           pre   == IF k.ext THEN <<e>> ELSE <<>>
           after == IF set = 2 THEN <<r, y>> ELSE <<y>>
           S     == {e, r, x, y}
<1>2. AllBytes(S)
  <2>1. e.byte \in 0 .. 255 /\ r.byte \in 0 .. 255
    BY DEF E0, F0
  <2>2. up \in 0 .. 255
    BY <1>1
  <2>3. x.byte = k.code /\ y.byte = up
    OBVIOUS
  <2> HIDE DEF e, r, x, y, up
  <2> QED
    BY <1>1, <2>1, <2>2, <2>3 DEF AllBytes
<1>3. InSet(set)!Make(k) = pre \o <<x>>
  BY DEF InSet!Make, InSet!Prefix, InSet!Mute, InSet!EXTENDED, E0
<1>4. InSet(set)!Break(k) = pre \o after
  BY <1>1 DEF InSet!Break, InSet!Prefix, InSet!Mute, InSet!EXTENDED, InSet!RELEASE, E0, F0
<1>5. PICK last \in {x, y} :
        \/ p = Coded(pre \o <<last>>)
        \/ set = 2 /\ p = Coded(pre \o <<r, last>>)
  <2>1. CASE p = Coded(InSet(set)!Make(k))
    BY <1>3, <2>1
  <2>2. CASE p = Coded(InSet(set)!Break(k))
    BY <1>1, <1>4, <2>2
  <2> QED
    BY <2>1, <2>2
<1>6. /\ last.byte = k.code \/ (set = 1 /\ last.byte = k.code + 128)
      /\ last.byte # ACK /\ last \in S
  <2>1. x.byte = k.code /\ y.byte = up
    OBVIOUS
  <2> HIDE DEF x, y
  <2> QED
    BY <1>1, <2>1 DEF ACK
<1>7. /\ e \in S /\ r \in S /\ e.byte = E0 /\ r.byte = F0
      /\ pre \in Seq(S) /\ Len(pre) \in {0, 1} /\ (Len(pre) = 1 => pre[1] = e)
  <2>1. e \in S /\ r \in S /\ e.byte = E0 /\ r.byte = F0
    OBVIOUS
  <2> HIDE DEF S, e, r
  <2> QED
    BY <2>1
<1> HIDE DEF S, pre, e, r, x, y
<1>8. /\ p \in Seq(WireByte) /\ Len(p) \in Nat \ {0}
      /\ p[Len(p)].byte = last.byte /\ p[Len(p)].last
      /\ \A i \in 1 .. Len(p) : i # Len(p) =>
           /\ ~p[i].last
           /\ p[i].byte = E0 \/ (p[i].byte = F0 /\ set = 2 /\ i + 1 = Len(p))
  <2> DEFINE one == <<last>>
             two == <<r, last>>
             shape(n) == /\ p \in Seq(WireByte) /\ Len(p) \in Nat \ {0}
                         /\ p[Len(p)].byte = last.byte /\ p[Len(p)].last
                         /\ \A i \in 1 .. Len(p) : i # Len(p) =>
                              /\ ~p[i].last
                              /\ p[i].byte = e.byte \/ (p[i].byte = r.byte /\ n = 2 /\ i + 1 = Len(p))
  <2>1. /\ one \in Seq(S) /\ Len(one) = 1 /\ one[1] = last
        /\ two \in Seq(S) /\ Len(two) = 2 /\ two[1] = r /\ two[2] = last
    BY <1>6, <1>7
  <2>2. p = Coded(pre \o one) \/ (set = 2 /\ p = Coded(pre \o two))
    BY <1>5
  <2> HIDE DEF one, two
  <2>3. Parts(S, e, r, last, pre, one) /\ Parts(S, e, r, last, pre, two)
    BY <1>7, <2>1 DEF Parts
  <2>4. CASE p = Coded(pre \o one)
    <3>0. shape(Len(one))
      BY <1>2, <2>3, <2>4, CodeShape
    <3>1. shape(1)
      BY <2>1, <3>0
    <3> QED
      BY <1>7, <3>1
  <2>5. CASE set = 2 /\ p = Coded(pre \o two)
    <3>0. shape(Len(two))
      BY <1>2, <2>3, <2>5, CodeShape
    <3>1. shape(2)
      BY <2>1, <3>0
    <3> QED
      BY <1>7, <2>5, <3>1
  <2> QED
    BY <2>2, <2>4, <2>5
<1>9. WellFormed(p)
  BY <1>6, <1>8 DEF WellFormed, Ends, KeyByte
<1>10. NoAck(p)
  BY <1>6, <1>8 DEF NoAck, ACK, E0, F0
<1> QED
  BY <1>8, <1>9, <1>10

-----------------------------------------------------------------------------
(* Which bytes keys send.                                                   *)
LEMMA KeyBytes ==
  ASSUME TypeOK
  PROVE  /\ set \in {1, 2}
         /\ \A b : KeyByte(b) => /\ b \in 0 .. 255 /\ b \notin {E0, F0, ACK}
                                 /\ set = 1 => b # 96 /\ b < E0
         /\ (Apart /\ set = 2) =>
              \A a, b : KeyByte(a) /\ KeyByte(b) => 128 + a \notin {E0, F0} /\ b # 128 + a
<1>1. set \in DOMAIN KeysOf /\ set \in {1, 2}
  BY ScanSetDetectAssumption DEF TypeOK
<1>2. \A k \in KeysOf[set] : /\ k.code \in 0 .. 255
                             /\ (set = 1 => k.code < 96)
                             /\ (set = 2 => k.code \notin {E0, 225, F0, ACK})
  <2>1. \A k \in KeysOf[set] : k \in [ext : BOOLEAN, code : 0 .. 255, means : {"none"}]
    BY <1>1, ScanSetDetectAssumption DEF Keys
  <2> QED
    BY <1>1, <2>1, ScanSetDetectAssumption, ZenonT(60)
<1>3. ASSUME NEW b, KeyByte(b)
      PROVE  /\ b \in 0 .. 255 /\ b \notin {E0, F0, ACK}
             /\ (set = 1 => b # 96 /\ b < E0)
  BY <1>1, <1>2, <1>3 DEF KeyByte, E0, F0, ACK
<1>4. ASSUME Apart, set = 2, NEW a, NEW b, KeyByte(a), KeyByte(b)
      PROVE  128 + a \notin {E0, F0} /\ b # 128 + a
  BY <1>1, <1>4 DEF KeyByte, Apart
<1> QED
  BY <1>1, <1>3, <1>4

(* A key's code behind what is on the wire.                                 *)
LEMMA Sent ==
  ASSUME NEW w \in Seq(WireByte), NEW p \in Seq(WireByte),
         WellFormed(w), AcksFirst(w), WellFormed(p), NoAck(p)
  PROVE  /\ w \o p \in Seq(WireByte)
         /\ WellFormed(w \o p) /\ AcksFirst(w \o p)
         /\ NoAck(w) => NoAck(w \o p)
         /\ w # <<>> => (w \o p # <<>> /\ (w \o p)[1] = w[1])
<1>1. Len(w) \in Nat /\ Len(p) \in Nat /\ (w # <<>> => Len(w) # 0)
  BY LenProperties, EmptySeq
<1> DEFINE q == w \o p
<1>2. /\ q \in Seq(WireByte) /\ Len(q) = Len(w) + Len(p)
      /\ \A i \in 1 .. Len(w) + Len(p) : q[i] = IF i <= Len(w) THEN w[i] ELSE p[i - Len(w)]
  BY ConcatProperties
<1> HIDE DEF q
<1>3. \A i \in 1 .. Len(w) : q[i] = w[i]
  BY <1>1, <1>2
<1>4. \A i \in 1 .. Len(q) : i > Len(w) => i - Len(w) \in 1 .. Len(p) /\ q[i] = p[i - Len(w)]
  BY <1>1, <1>2
<1>5. WellFormed(q)
  <2> SUFFICES ASSUME NEW i \in 1 .. Len(q)
               PROVE  \/ q[i].byte = E0 /\ ~q[i].last
                      \/ set = 2 /\ q[i].byte = F0 /\ ~q[i].last /\ i < Len(q) /\ q[i + 1].last
                      \/ q[i].last /\ Ends(q[i])
    BY DEF WellFormed
  <2>1. CASE i <= Len(w)
    <3>1. i \in 1 .. Len(w) /\ q[i] = w[i]
      BY <1>1, <1>2, <1>3, <2>1
    <3>2. i < Len(w) => i < Len(q) /\ q[i + 1] = w[i + 1]
      BY <1>1, <1>2, <1>3, <3>1
    <3> QED
      BY <3>1, <3>2 DEF WellFormed
  <2>2. CASE i > Len(w)
    <3> DEFINE j == i - Len(w)
    <3>1. j \in 1 .. Len(p) /\ q[i] = p[j]
      BY <1>4, <2>2
    <3>2. j < Len(p) => i < Len(q) /\ q[i + 1] = p[j + 1]
      <4>1. ASSUME j < Len(p)
            PROVE  i + 1 \in 1 .. Len(q) /\ i + 1 > Len(w) /\ i < Len(q) /\ (i + 1) - Len(w) = j + 1
        BY <1>1, <1>2, <2>2, <4>1
      <4> QED
        BY <1>4, <4>1
    <3> HIDE DEF j
    <3> QED
      BY <3>1, <3>2 DEF WellFormed
  <2> QED
    BY <1>1, <2>1, <2>2
<1>6. AcksFirst(q)
  <2> SUFFICES ASSUME NEW i \in 1 .. Len(q), NEW j \in 1 .. Len(q), i < j, q[j].byte = ACK
               PROVE  q[i].byte = ACK
    BY DEF AcksFirst
  <2>1. j <= Len(w)
    BY <1>1, <1>4 DEF NoAck
  <2>2. i \in 1 .. Len(w) /\ j \in 1 .. Len(w)
    BY <1>1, <2>1
  <2> QED
    BY <1>3, <2>2 DEF AcksFirst
<1>7. NoAck(w) => NoAck(q)
  BY <1>1, <1>3, <1>4 DEF NoAck
<1>8. w # <<>> => (q # <<>> /\ q[1] = w[1])
  <2>1. w # <<>> => 1 \in 1 .. Len(w) /\ Len(q) # 0
    BY <1>1, <1>2
  <2> QED
    BY <1>2, <1>3, <2>1
<1> QED
  BY <1>2, <1>5, <1>6, <1>7, <1>8 DEF q

(* The first byte is read.                                                  *)
LEMMA FirstRead ==
  ASSUME NEW w \in Seq(WireByte), w # <<>>, WellFormed(w), AcksFirst(w)
  PROVE  /\ Tail(w) \in Seq(WireByte) /\ WellFormed(Tail(w)) /\ AcksFirst(Tail(w))
         /\ Head(w) = w[1] /\ w[1] \in WireByte /\ 1 \in 1 .. Len(w)
         /\ NoAck(w) => NoAck(Tail(w)) /\ w[1].byte # ACK
         /\ w[1].byte # ACK => NoAck(Tail(w))
         /\ Len(w) > 1 => Tail(w) # <<>> /\ Tail(w)[1] = w[2]
<1>1. Len(w) \in Nat /\ Len(w) # 0 /\ Head(w) = w[1] /\ 1 \in 1 .. Len(w)
  BY LenProperties, EmptySeq
<1> DEFINE t == Tail(w)
<1>2. t \in Seq(WireByte) /\ Len(t) = Len(w) - 1 /\ \A i \in 1 .. Len(t) : t[i] = w[i + 1]
  BY HeadTailProperties
<1> HIDE DEF t
<1>3. \A i \in 1 .. Len(t) : i + 1 \in 1 .. Len(w)
  BY <1>1, <1>2
<1>4. WellFormed(t)
  <2> SUFFICES ASSUME NEW i \in 1 .. Len(t)
               PROVE  \/ t[i].byte = E0 /\ ~t[i].last
                      \/ set = 2 /\ t[i].byte = F0 /\ ~t[i].last /\ i < Len(t) /\ t[i + 1].last
                      \/ t[i].last /\ Ends(t[i])
    BY DEF WellFormed
  <2> DEFINE j == i + 1
  <2>1. j \in 1 .. Len(w) /\ t[i] = w[j]
    BY <1>2, <1>3
  <2>2. j < Len(w) => i < Len(t) /\ t[i + 1] = w[j + 1]
    <3>1. j < Len(w) => i < Len(t) /\ i + 1 \in 1 .. Len(t)
      BY <1>1, <1>2
    <3> QED
      BY <1>2, <3>1
  <2> HIDE DEF j
  <2> QED
    BY <2>1, <2>2 DEF WellFormed
<1>5. AcksFirst(t)
  <2> SUFFICES ASSUME NEW i \in 1 .. Len(t), NEW j \in 1 .. Len(t), i < j, t[j].byte = ACK
               PROVE  t[i].byte = ACK
    BY DEF AcksFirst
  <2>1. t[i] = w[i + 1] /\ t[j] = w[j + 1] /\ i + 1 \in 1 .. Len(w) /\ j + 1 \in 1 .. Len(w) /\ i + 1 < j + 1
    BY <1>2, <1>3
  <2> QED
    BY <2>1 DEF AcksFirst
<1>6. NoAck(w) => NoAck(t) /\ w[1].byte # ACK
  BY <1>1, <1>2, <1>3 DEF NoAck
<1>7. w[1].byte # ACK => NoAck(t)
  <2> SUFFICES ASSUME w[1].byte # ACK, NEW i \in 1 .. Len(t)
               PROVE  t[i].byte # ACK
    BY DEF NoAck
  <2>1. i + 1 \in 1 .. Len(w) /\ 1 < i + 1 /\ t[i] = w[i + 1]
    BY <1>2, <1>3
  <2> QED
    BY <1>1, <2>1 DEF AcksFirst
<1>8. Len(w) > 1 => t # <<>> /\ t[1] = w[2]
  <2>1. Len(w) > 1 => 1 \in 1 .. Len(t) /\ Len(t) # 0
    BY <1>1, <1>2
  <2> QED
    BY <1>2, <2>1
<1>9. w[1] \in WireByte
  BY <1>1, ElementOfSeq
<1> QED
  BY <1>1, <1>2, <1>4, <1>5, <1>6, <1>7, <1>8, <1>9 DEF t

-----------------------------------------------------------------------------
LEMMA InitDetectInv == Init => DetectInv
<1> SUFFICES ASSUME Init
             PROVE  DetectInv
  OBVIOUS
<1>1. PICK acks \in 0 .. 2 : wire = [i \in 1 .. acks |-> [byte |-> ACK, last |-> TRUE]]
  BY DEF Init
<1>2. /\ wire \in Seq(WireByte) /\ Len(wire) = acks
      /\ \A i \in 1 .. acks : wire[i] = [byte |-> ACK, last |-> TRUE]
  <2>1. [byte |-> ACK, last |-> TRUE] \in WireByte
    BY DEF WireByte, ACK
  <2> DEFINE a == [byte |-> ACK, last |-> TRUE]
  <2> HIDE DEF a
  <2> QED
    BY <1>1, <2>1 DEF a
<1>3. WellFormed(wire) /\ AcksFirst(wire)
  BY <1>2 DEF WellFormed, AcksFirst, Ends
<1>4. TypeOK
  BY <1>2, ScanSetDetectAssumption DEF Init, TypeOK, WireByte
<1> QED
  BY <1>3, <1>4 DEF DetectInv, Init

(* The user types: codes arrive whole, behind what was sent before.         *)
LEMMA UserStep ==
  ASSUME DetectInv, NEW k \in KeysOf[set], Press(k) \/ Release(k)
  PROVE  DetectInv'
<1>1. PICK p : /\ p = Coded(InSet(set)!Make(k)) \/ p = Coded(InSet(set)!Break(k))
               /\ wire' = wire \o p
  BY DEF Press, Release, Type
<1>2. /\ typed' \in 0 .. Typing /\ held' \subseteq KeysOf[set]
      /\ UNCHANGED <<set, pc, c1, c2, found, whole>>
  BY ScanSetDetectAssumption DEF Press, Release, Type, DetectInv, TypeOK
<1>3. p \in Seq(WireByte) /\ WellFormed(p) /\ NoAck(p)
  BY <1>1, PacketOfKey DEF DetectInv
<1>4. wire \in Seq(WireByte) /\ WellFormed(wire) /\ AcksFirst(wire)
  BY DEF DetectInv, TypeOK, WireByte
<1>5. /\ wire' \in Seq(WireByte) /\ WellFormed(wire') /\ AcksFirst(wire')
      /\ NoAck(wire) => NoAck(wire')
      /\ wire # <<>> => wire' # <<>> /\ wire'[1] = wire[1]
  BY <1>1, <1>3, <1>4, Sent
<1>6. TypeOK'
  BY <1>2, <1>5 DEF DetectInv, TypeOK, WireByte
<1>7. WellFormed(wire)'
  BY <1>2, <1>5 DEF WellFormed, Ends, KeyByte
<1>8. \A b : CodeByte(b)' <=> CodeByte(b)
  BY <1>2 DEF CodeByte, KeyByte
<1>9. AcksFirst(wire)' /\ (NoAck(wire) => NoAck(wire)')
  BY <1>5 DEF AcksFirst, NoAck
<1> QED
  BY <1>2, <1>5, <1>6, <1>7, <1>8, <1>9 DEF DetectInv, CodeByte, KeyByte

(* Reading keeps the wire in order; what the driver has then is a byte of   *)
(* the wire's.                                                              *)
LEMMA ReadStep ==
  ASSUME DetectInv, Read, UNCHANGED <<set, held, typed>>,
         pc' \in {"c1", "c2", "c3", "flush", "done"},
         c1' \in 0 .. 255, c2' \in 0 .. 255, found' \in {-1, 0, 1, 2}
  PROVE  /\ TypeOK' /\ WellFormed(wire)' /\ AcksFirst(wire)'
         /\ wire # <<>> /\ Head(wire) = wire[1] /\ wire[1] \in WireByte /\ whole' = wire[1].last
         /\ \/ wire[1].byte = E0 /\ ~wire[1].last
            \/ set = 2 /\ wire[1].byte = F0 /\ wire' # <<>> /\ wire'[1].last
            \/ wire[1].last /\ Ends(wire[1])
         /\ NoAck(wire) => NoAck(wire)' /\ wire[1].byte # ACK
         /\ wire[1].byte # ACK => NoAck(wire)'
<1>1. wire \in Seq(WireByte) /\ wire # <<>> /\ WellFormed(wire) /\ AcksFirst(wire)
  BY DEF DetectInv, TypeOK, WireByte, Read
<1> DEFINE t == Tail(wire)
<1>2. /\ t \in Seq(WireByte) /\ WellFormed(t) /\ AcksFirst(t)
      /\ Head(wire) = wire[1] /\ wire[1] \in WireByte /\ 1 \in 1 .. Len(wire)
      /\ NoAck(wire) => NoAck(t) /\ wire[1].byte # ACK
      /\ wire[1].byte # ACK => NoAck(t)
      /\ Len(wire) > 1 => t # <<>> /\ t[1] = wire[2]
  BY <1>1, FirstRead
<1>3. wire' = t /\ whole' = Head(wire).last
  BY DEF Read
<1> HIDE DEF t
<1>4. wire[1].byte \in 0 .. 255 /\ wire[1].last \in BOOLEAN
  BY <1>2 DEF WireByte
<1>5. TypeOK'
  BY <1>2, <1>3, <1>4 DEF DetectInv, TypeOK, WireByte
<1>6. WellFormed(wire)' /\ AcksFirst(wire)' /\ (NoAck(t) => NoAck(wire)')
  BY <1>2, <1>3 DEF WellFormed, Ends, KeyByte, AcksFirst, NoAck
<1>7. \/ wire[1].byte = E0 /\ ~wire[1].last
      \/ set = 2 /\ wire[1].byte = F0 /\ wire' # <<>> /\ wire'[1].last
      \/ wire[1].last /\ Ends(wire[1])
  BY <1>1, <1>2, <1>3 DEF WellFormed
<1> QED
  BY <1>1, <1>2, <1>3, <1>4, <1>5, <1>6, <1>7

(* The driver's steps.                                                      *)
LEMMA DriverStep ==
  ASSUME Apart, DetectInv, Driver
  PROVE  DetectInv'
<1>0. TypeOK /\ set \in {1, 2} /\ c1 \in 0 .. 255 /\ c2 \in 0 .. 255 /\ found \in {-1, 0, 1, 2}
  BY KeyBytes DEF DetectInv, TypeOK
<1>1. set' = set
  BY DEF Driver, ReadC1, ReadC2, ReadC3, Flush
<1>2. \A b : CodeByte(b)' <=> CodeByte(b)
  BY <1>1 DEF CodeByte, KeyByte
<1>b. Read => wire[1].byte \in 0 .. 255 /\ Head(wire) = wire[1]
  <2>1. wire # <<>> /\ wire \in Seq(WireByte) => wire[1] \in WireByte /\ Head(wire) = wire[1]
    BY FirstRead, HeadTailProperties, LenProperties, EmptySeq, ElementOfSeq
  <2> QED
    BY <1>0, <2>1 DEF Read, TypeOK, WireByte
<1>3. CASE ReadC1
  <2>1. Read /\ UNCHANGED <<set, held, typed, c2, found>> /\ c1' = wire[1].byte
        /\ pc' = IF c1' \in Special THEN "c1" ELSE "c2"
    BY <1>3, <1>b DEF ReadC1
  <2>2. /\ TypeOK' /\ WellFormed(wire)' /\ AcksFirst(wire)'
        /\ \/ wire[1].byte = E0
           \/ set = 2 /\ wire[1].byte = F0
           \/ Ends(wire[1])
        /\ wire[1].byte # ACK => NoAck(wire)'
    BY <1>0, <1>b, <2>1, ReadStep
  <2>3. c1' \notin Special => CodeByte(c1')
    BY <2>1, <2>2 DEF Special, Ends, CodeByte
  <2>4. c1' \notin Special => NoAck(wire)'
    BY <2>1, <2>2 DEF Special
  <2> QED
    BY <1>1, <2>1, <2>2, <2>3, <2>4 DEF DetectInv, CodeByte, KeyByte
<1>4. CASE ReadC2
  <2>1. /\ Read /\ UNCHANGED <<set, held, typed, c1>> /\ c2' = wire[1].byte
        /\ pc = "c2" /\ NoAck(wire) /\ CodeByte(c1)
        /\ \/ c2' = F0 /\ ~Releases(c1, c2') /\ pc' = "c3" /\ UNCHANGED found
           \/ Releases(c1, c2') /\ pc' = "done" /\ found' = 1
           \/ pc' = "flush" /\ found' = -1
    BY <1>4, <1>b DEF ReadC2, Return, DetectInv
  <2>2. /\ TypeOK' /\ WellFormed(wire)' /\ AcksFirst(wire)' /\ wire[1].byte # ACK
        /\ whole' = wire[1].last
        /\ \/ wire[1].byte = E0 /\ ~wire[1].last
           \/ set = 2 /\ wire[1].byte = F0 /\ wire' # <<>> /\ wire'[1].last
           \/ wire[1].last /\ Ends(wire[1])
    BY <1>0, <1>b, <2>1, ReadStep
  <2>3. \/ wire[1].byte = E0 /\ ~wire[1].last
        \/ set = 2 /\ wire[1].byte = F0 /\ wire' # <<>> /\ wire'[1].last
        \/ wire[1].last /\ KeyByte(wire[1].byte)
    BY <2>2 DEF Ends
  <2>4. CASE c2' = F0 /\ pc' = "c3"
    <3>1. set = 2 /\ wire' # <<>> /\ wire'[1].last
      BY <1>0, <2>1, <2>3, <2>4, KeyBytes DEF E0, F0
    <3> QED
      BY <1>1, <2>2, <2>4, <3>1 DEF DetectInv
  <2>5. CASE Releases(c1, c2') /\ pc' = "done" /\ found' = 1
    <3>1. wire[1].byte = 128 + c1 /\ wire[1].byte \in 0 .. 255
      BY <1>b, <2>1, <2>5 DEF Releases
    <3>2. c1 < 128 /\ KeyByte(c1)
      BY <1>0, <2>1, <3>1 DEF CodeByte, E0, F0
    <3>3. set = 1
      BY <1>0, <2>3, <3>1, <3>2, KeyBytes
    <3>4. wire[1].last
      <4>1. wire[1].byte # E0
        BY <1>0, <3>1, <3>2, <3>3, KeyBytes DEF E0
      <4> QED
        BY <2>3, <3>3, <4>1
    <3> QED
      BY <1>1, <2>2, <2>5, <3>3, <3>4 DEF DetectInv
  <2>6. CASE pc' = "flush"
    BY <2>2, <2>6 DEF DetectInv
  <2> QED
    BY <2>1, <2>4, <2>5, <2>6
<1>5. CASE ReadC3
  <2>1. /\ Read /\ UNCHANGED <<set, held, typed, c1, c2>>
        /\ set = 2 /\ wire[1].last
        /\ \/ pc' = "done" /\ found' = 2
           \/ pc' = "flush" /\ found' = -1
    BY <1>5 DEF ReadC3, Return, DetectInv
  <2>2. TypeOK' /\ WellFormed(wire)' /\ AcksFirst(wire)' /\ whole' = wire[1].last
    BY <1>0, <1>b, <2>1, ReadStep
  <2> QED
    BY <1>1, <2>1, <2>2 DEF DetectInv
<1>6. CASE Flush
  <2>1. CASE Read /\ UNCHANGED pc
    <3>1. UNCHANGED <<set, held, typed, c1, c2, found>> /\ pc' = "flush"
      BY <1>6, <2>1 DEF Flush
    <3>2. TypeOK' /\ WellFormed(wire)' /\ AcksFirst(wire)'
      BY <1>0, <1>b, <2>1, <3>1, ReadStep
    <3> QED
      BY <3>1, <3>2 DEF DetectInv
  <2>2. CASE pc' = "c1" /\ UNCHANGED <<wire, whole>>
    <3>1. UNCHANGED <<set, held, typed, c1, c2, found>>
      BY <1>6 DEF Flush
    <3> QED
      BY <2>2, <3>1 DEF DetectInv, TypeOK, WellFormed, Ends, KeyByte, AcksFirst
  <2> QED
    BY <1>6, <2>1, <2>2 DEF Flush
<1> QED
  BY <1>3, <1>4, <1>5, <1>6 DEF Driver

LEMMA DetectAlways == Apart => (Spec => []DetectInv)
<1> SUFFICES ASSUME Apart
             PROVE  Spec => []DetectInv
  OBVIOUS
<1>1. Init => DetectInv
  BY InitDetectInv
<1>2. DetectInv /\ [Next]_vars => DetectInv'
  <2> SUFFICES ASSUME DetectInv, [Next]_vars
               PROVE  DetectInv'
    OBVIOUS
  <2>1. CASE UNCHANGED vars
    BY <2>1 DEF vars, DetectInv, TypeOK, WellFormed, Ends, KeyByte, AcksFirst, NoAck, CodeByte
  <2> QED
    BY <2>1, UserStep, DriverStep DEF Next
<1> QED
  BY <1>1, <1>2, PTL DEF Spec

(* The types do not depend on the codes.                                    *)
LEMMA TypesKept == TypeOK /\ [Next]_vars => TypeOK'
<1> SUFFICES ASSUME TypeOK, [Next]_vars
             PROVE  TypeOK'
  OBVIOUS
<1>1. CASE UNCHANGED vars
  BY <1>1 DEF vars, TypeOK
<1>2. ASSUME NEW k \in KeysOf[set], Press(k) \/ Release(k)
      PROVE  TypeOK'
  <2>1. PICK p : /\ p = Coded(InSet(set)!Make(k)) \/ p = Coded(InSet(set)!Break(k))
                 /\ wire' = wire \o p
    BY <1>2 DEF Press, Release, Type
  <2>2. wire' \in Seq(WireByte)
    BY <2>1, PacketOfKey, ConcatProperties DEF TypeOK, WireByte
  <2>3. /\ typed' \in 0 .. Typing /\ held' \subseteq KeysOf[set]
        /\ UNCHANGED <<set, pc, c1, c2, found, whole>>
    BY <1>2, ScanSetDetectAssumption DEF Press, Release, Type, TypeOK
  <2> QED BY <2>2, <2>3 DEF TypeOK, WireByte
<1>3. CASE Driver
  <2>0. wire \in Seq(WireByte)
    BY DEF TypeOK, WireByte
  <2>1. /\ UNCHANGED <<set, held, typed>> /\ (Read \/ UNCHANGED <<wire, whole>>)
        /\ c1' = c1 \/ (Read /\ c1' = Head(wire).byte)
        /\ c2' = c2 \/ (Read /\ c2' = Head(wire).byte)
        /\ found' \in {found, -1, 1, 2} /\ pc' \in {"c1", "c2", "c3", "flush", "done"}
    BY <1>3 DEF Driver, ReadC1, ReadC2, ReadC3, Flush, Return
  <2>2. Read => /\ wire' \in Seq(WireByte) /\ whole' \in BOOLEAN
                /\ Head(wire).byte \in 0 .. 255
    <3>1. Read => Head(wire) \in WireByte /\ Tail(wire) \in Seq(WireByte)
      BY <2>0, HeadTailProperties DEF Read
    <3> QED BY <3>1 DEF Read, WireByte
  <2>3. wire' \in Seq(WireByte) /\ whole' \in BOOLEAN /\ c1' \in 0 .. 255 /\ c2' \in 0 .. 255
    BY <2>0, <2>1, <2>2, ZenonT(60) DEF TypeOK
  <2> QED BY <2>1, <2>3 DEF TypeOK, WireByte
<1> QED BY <1>1, <1>2, <1>3 DEF Next

(* The detection's variables have their types with every keyboard: what it  *)
(* finds is never anything but a scan code set or an error.                 *)
THEOREM TypeCorrect == Spec => []TypeOK
<1>1. Init => TypeOK
  BY InitDetectInv DEF DetectInv
<1> QED BY <1>1, TypesKept, PTL DEF Spec

(* Whatever keys are typed, overlapping, repeating or cut by the flush, the *)
(* set that keyboard_detect_scanset() returns is the keyboard's, for every  *)
(* keyboard on which no key's code is mistaken for a release (Apart); the 0 *)
(* of the keypad is such a key in set 2.                                    *)
THEOREM TheSetIsFound == Apart => (Spec => []DetectsRight)
<1>1. DetectInv => DetectsRight
  BY DEF DetectInv, DetectsRight
<1> QED
  BY <1>1, DetectAlways, PTL

(* And the decoder's first byte is then the first byte of a code.           *)
THEOREM DecoderStartsAtACode == Apart => (Spec => []DecoderStartsAligned)
<1>1. DetectInv => DecoderStartsAligned
  BY DEF DetectInv, DecoderStartsAligned
<1> QED
  BY <1>1, DetectAlways, PTL
=============================================================================
