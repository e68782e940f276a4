--------------------------- MODULE NmeaRingProofs ---------------------------
(***************************************************************************)
(* The safety properties of NmeaRing for every size of the ring, of the    *)
(* saved part and of a sentence, and every stream of the receiver.         *)
(*                                                                         *)
(* The argument: the saved part and the unread bytes together are one      *)
(* stretch of the stream, without a gap, wherever the reads, the looks and *)
(* the end of the buffer cut it.  So a header in a look is the start of a  *)
(* sentence, and its first end mark is the end of the same sentence.       *)
(***************************************************************************)
EXTENDS NmeaRing, SequenceTheorems, WellFoundedInduction, TLAPS

(* A leaf is Zenon's unless it names other provers.                        *)
USE Zenon

\* w is the stretch of the stream s behind its first b bytes.
Stretch(w, s, b) ==
    /\ w \in Seq(Nat \X Nat) /\ b \in Nat /\ b + Len(w) <= Len(s)
    /\ \A i \in 1..Len(w) : w[i] = s[b + i]

\* The unread bytes, without the remainder; those up to the end of the buffer;
\* and how many bytes of the stream lie before the tail, and before the part.
Gap == IF tail <= head THEN head - tail ELSE head + BufLen - tail
Reach == IF tail <= head THEN head - tail ELSE BufLen - tail
Pos == sent - Gap
Base == Pos - Len(part)

Cell(k) == IF tail + k < BufLen THEN tail + k ELSE tail + k - BufLen

\* The ring holds the bytes of the stream behind the first Pos.
RingOK ==
    /\ \E y \in Layouts : stream = Stream(y)
    /\ sent \in Nat /\ sent <= Len(stream)
    /\ head \in 0..(BufLen - 1) /\ tail \in 0..(BufLen - 1)
    /\ buf \in [0..(BufLen - 1) -> Nat \X Nat]
    /\ Gap <= Lag /\ Gap <= sent
    /\ \A k \in 0..(Gap - 1) : buf[Cell(k)] = stream[Pos + k + 1]

\* The saved part is the stretch before them, and the start of a sentence.
PartOK ==
    /\ Stretch(part, stream, Base)
    /\ Len(part) <= PartLen
    /\ part # <<>> => 1 \in Headers(part) /\ Ends(part, 1) = {}

\* What came out lies before the part, in order.
OutOK ==
    /\ out \in Seq(Nat) /\ InOrder
    /\ \A a \in 1..Len(out) : \E q \in 1..Len(stream) : q <= Base /\ stream[q] = <<out[a], PacketLen>>

\* A header that was seen came out, or is still in the next look.
SeenOK ==
    /\ seen \subseteq 0..Len(stream)
    /\ \A p \in seen :
          \/ \E a \in 1..Len(out) : out[a] = p
          \/ \E q \in 1..Len(stream) : Base < q /\ q + HeadLen <= Pos + Reach + 1 /\ stream[q] = <<p, 1>>

RingInv == RingOK /\ PartOK /\ OutOK /\ SeenOK
-----------------------------------------------------------------------------
(* The lengths that the code fixes, one by one.                            *)
LEMMA Lengths ==
    /\ PacketLen \in Nat /\ HeadLen \in Nat /\ PartLen \in Nat /\ BufLen \in Nat /\ Lag \in Nat
    /\ 1 <= HeadLen /\ HeadLen < PacketLen /\ PacketLen <= PartLen + 1 /\ 1 <= Lag /\ Lag < BufLen
BY RingAssumption, SMTT(30), Z3T(30)

(* What LayoutAssumption says of one layout.                               *)
LEMMA LayoutFacts ==
    ASSUME NEW y \in Layouts
    PROVE  /\ y.len \in Nat /\ y.starts \in Seq(Nat \ {0})
           /\ \A p \in DOMAIN y.starts : y.starts[p] \in Nat /\ 1 <= y.starts[p] /\ p \in Nat /\ 1 <= p
           /\ \A p \in DOMAIN y.starts : y.starts[p] + PacketLen <= y.len + 1
           /\ \A p, q \in DOMAIN y.starts : p < q => y.starts[p] + PacketLen <= y.starts[q]
           /\ \A p, q \in DOMAIN y.starts : y.starts[p] < y.starts[q] => p < q
<1>1. /\ y.len \in Nat /\ y.starts \in Seq(Nat \ {0})
      /\ \A p \in DOMAIN y.starts : y.starts[p] + PacketLen - 1 <= y.len
      /\ \A p, q \in DOMAIN y.starts : p < q => y.starts[p] + PacketLen <= y.starts[q]
  BY LayoutAssumption
<1>2. \A p \in DOMAIN y.starts : y.starts[p] \in Nat /\ 1 <= y.starts[p] /\ p \in Nat /\ 1 <= p
  BY <1>1, SMTT(30), Z3T(30)
<1>3. \A p \in DOMAIN y.starts : y.starts[p] + PacketLen <= y.len + 1
  BY <1>1, <1>2, Lengths, SMTT(30), Z3T(30)
<1>4. ASSUME NEW p \in DOMAIN y.starts, NEW q \in DOMAIN y.starts, y.starts[p] < y.starts[q] PROVE p < q
  <2>1. q < p => y.starts[q] + PacketLen <= y.starts[p]
    BY <1>1
  <2> QED BY <1>2, <1>4, <2>1, Lengths, SMTT(30), Z3T(30)
<1> QED BY <1>1, <1>2, <1>3, <1>4

(* A set of numbers that holds 0, and n + 1 with n, holds all of them.     *)
LEMMA Induction ==
    ASSUME NEW S, 0 \in S, \A n \in Nat : n \in S => n + 1 \in S
    PROVE  \A n \in Nat : n \in S
<1> SUFFICES ASSUME NEW k \in Nat, k \notin S PROVE FALSE
  OBVIOUS
<1> DEFINE T == {n \in Nat : n \notin S}
<1>1. PICK x \in T : \A y \in T : ~ (<<y, x>> \in OpToRel(<, Nat))
  <2>1. T \subseteq Nat /\ T # {}
    OBVIOUS
  <2> QED BY <2>1, WFMin, NatLessThanWellFounded
<1>2. x # 0 /\ x \in Nat
  OBVIOUS
<1>3. x - 1 \in Nat /\ x - 1 \notin S
  <2>1. x - 1 \in Nat /\ x = (x - 1) + 1
    BY <1>2, SMTT(30), Z3T(30)
  <2> QED BY <2>1
<1>4. <<x - 1, x>> \in Nat \X Nat /\ <<x - 1, x>>[1] < <<x - 1, x>>[2]
  BY <1>2, <1>3, SMTT(30), Z3T(30)
<1>5. <<x - 1, x>> \in OpToRel(<, Nat)
  BY <1>4 DEF OpToRel
<1> QED BY <1>1, <1>3, <1>5

(* A layout has no more sentences than bytes.                              *)
LEMMA Numbering ==
    ASSUME NEW y \in Layouts
    PROVE  \A p \in DOMAIN y.starts : p \in 1..y.len
<1> DEFINE S == {n \in Nat : n \in DOMAIN y.starts => n <= y.starts[n]}
<1>1. 0 \in S
  BY LayoutFacts, SMTT(30), Z3T(30)
<1>2. ASSUME NEW n \in Nat, n \in S PROVE n + 1 \in S
  <2> SUFFICES ASSUME n + 1 \in DOMAIN y.starts PROVE n + 1 <= y.starts[n + 1]
    BY SMTT(30), Z3T(30)
  <2>1. CASE n = 0
    BY <2>1, LayoutFacts, SMTT(30), Z3T(30)
  <2>2. CASE n # 0
    <3>1. n \in DOMAIN y.starts
      BY <2>2, LayoutFacts, SMTT(30), Z3T(30)
    <3>2. n <= y.starts[n] /\ y.starts[n] + PacketLen <= y.starts[n + 1]
      BY <1>2, <3>1, LayoutFacts, SMTT(30), Z3T(30)
    <3> QED BY <3>1, <3>2, LayoutFacts, Lengths, SMTT(30), Z3T(30)
  <2> QED BY <2>1, <2>2
<1>3. \A n \in Nat : n \in S
  <2> HIDE DEF S
  <2> QED BY <1>1, <1>2, Induction
<1> QED BY <1>3, LayoutFacts, Lengths, SMTT(30), Z3T(30)

(* The least element that First chooses.                                   *)
LEMMA FirstIs ==
    ASSUME NEW S \in SUBSET Nat, S # {}
    PROVE  First(S) \in S /\ \A x \in S : First(S) <= x
<1>1. PICK m \in S : \A x \in S : ~ (<<x, m>> \in OpToRel(<, Nat))
  BY WFMin, NatLessThanWellFounded
<1>2. \A x \in S : m <= x
  <2> SUFFICES ASSUME NEW x \in S, x < m PROVE FALSE
    BY SMTT(30), Z3T(30)
  <2>1. <<x, m>> \in Nat \X Nat /\ <<x, m>>[1] < <<x, m>>[2]
    OBVIOUS
  <2> QED BY <1>1, <2>1 DEF OpToRel
<1> QED BY <1>2 DEF First

(* A known least element is the one that First chooses.                    *)
LEMMA FirstUnique ==
    ASSUME NEW S \in SUBSET Nat, NEW m \in S, \A x \in S : m <= x
    PROVE  First(S) = m
<1>1. First(S) \in S /\ First(S) <= m
  BY FirstIs
<1>2. First(S) \in Nat /\ m \in Nat /\ m <= First(S)
  BY <1>1
<1> QED BY <1>1, <1>2, SMTT(30), Z3T(30)
-----------------------------------------------------------------------------
(* Every byte of the stream is text between the sentences or a byte of one,*)
(* and every sentence is there as a whole.                                 *)
LEMMA StreamBytes ==
    ASSUME NEW y \in Layouts
    PROVE  /\ Stream(y) \in Seq(Nat \X Nat) /\ Len(Stream(y)) = y.len
           /\ \A i \in 1..y.len :
                 \/ Stream(y)[i] = Other
                 \/ \E p \in DOMAIN y.starts :
                       /\ y.starts[p] <= i /\ i < y.starts[p] + PacketLen
                       /\ Stream(y)[i] = <<p, i - y.starts[p] + 1>>
           /\ \A p \in DOMAIN y.starts : \A j \in 1..PacketLen :
                 /\ y.starts[p] + j - 1 \in 1..y.len
                 /\ Stream(y)[y.starts[p] + j - 1] = <<p, j>>
<1> DEFINE Chosen(i) == CHOOSE p \in DOMAIN y.starts : Covers(y, p, i)
<1>1. \A p \in DOMAIN y.starts : \A i \in Int :
          Covers(y, p, i) <=> y.starts[p] <= i /\ i < y.starts[p] + PacketLen
  BY LayoutFacts, Lengths, SMTT(30), Z3T(30) DEF Covers
<1>2. ASSUME NEW i \in 1..y.len, NEW p \in DOMAIN y.starts, Covers(y, p, i)
      PROVE  Stream(y)[i] = <<p, i - y.starts[p] + 1>>
  <2>1. Chosen(i) \in DOMAIN y.starts /\ Covers(y, Chosen(i), i)
    BY <1>2
  <2>2. Chosen(i) = p
    <3> HIDE DEF Chosen
    <3> DEFINE c == Chosen(i)
    <3>1. i \in Int /\ c \in Nat /\ p \in Nat /\ y.starts[c] \in Nat /\ y.starts[p] \in Nat
      BY <2>1, LayoutFacts, SMTT(30), Z3T(30)
    <3>2. y.starts[p] <= i /\ i < y.starts[p] + PacketLen /\ y.starts[c] <= i /\ i < y.starts[c] + PacketLen
      BY <1>1, <1>2, <2>1, <3>1
    <3>3. /\ c < p => y.starts[c] + PacketLen <= y.starts[p]
          /\ p < c => y.starts[p] + PacketLen <= y.starts[c]
      BY <2>1, LayoutFacts
    <3> HIDE DEF c
    <3>4. c = p
      BY <3>1, <3>2, <3>3, Lengths, SMTT(30), Z3T(30)
    <3> QED BY <3>4 DEF c
  <2>3. Byte(y, i) = Sentence(p)[i - y.starts[p] + 1]
    BY <1>2, <2>2 DEF Byte
  <2>4. i - y.starts[p] + 1 \in 1..PacketLen
    BY <1>1, <1>2, LayoutFacts, Lengths, SMTT(30), Z3T(30)
  <2> QED BY <2>3, <2>4, LayoutFacts DEF Stream, Sentence
<1>3. ASSUME NEW i \in 1..y.len
      PROVE  \/ Stream(y)[i] = Other
             \/ \E p \in DOMAIN y.starts :
                   /\ y.starts[p] <= i /\ i < y.starts[p] + PacketLen
                   /\ Stream(y)[i] = <<p, i - y.starts[p] + 1>>
  <2>1. CASE \E p \in DOMAIN y.starts : Covers(y, p, i)
    <3>1. i \in Int
      BY LayoutFacts, SMTT(30), Z3T(30)
    <3> QED BY <1>1, <1>2, <2>1, <3>1
  <2>2. CASE ~ \E p \in DOMAIN y.starts : Covers(y, p, i)
    BY <2>2 DEF Stream, Byte
  <2> QED BY <2>1, <2>2
<1>4. ASSUME NEW p \in DOMAIN y.starts, NEW j \in 1..PacketLen
      PROVE  /\ y.starts[p] + j - 1 \in 1..y.len
             /\ Stream(y)[y.starts[p] + j - 1] = <<p, j>>
  <2>1. /\ y.starts[p] + j - 1 \in 1..y.len /\ Covers(y, p, y.starts[p] + j - 1)
        /\ (y.starts[p] + j - 1) - y.starts[p] + 1 = j
    <3>1. y.starts[p] \in Nat /\ 1 <= y.starts[p] /\ y.starts[p] + PacketLen <= y.len + 1 /\ y.len \in Nat
      BY LayoutFacts
    <3> QED BY <3>1, Lengths, SMTT(30), Z3T(30) DEF Covers
  <2> QED BY <1>2, <2>1
<1>5. \A i \in 1..y.len : Stream(y)[i] \in Nat \X Nat
  <2> SUFFICES ASSUME NEW i \in 1..y.len PROVE Stream(y)[i] \in Nat \X Nat
    OBVIOUS
  <2>1. CASE Stream(y)[i] = Other
    BY <2>1, SMTT(30), Z3T(30) DEF Other
  <2>2. CASE \E p \in DOMAIN y.starts : y.starts[p] <= i /\ Stream(y)[i] = <<p, i - y.starts[p] + 1>>
    BY <2>2, LayoutFacts, SMTT(30), Z3T(30)
  <2> QED BY <1>3, <2>1, <2>2
<1>6. Stream(y) \in Seq(Nat \X Nat) /\ Len(Stream(y)) = y.len
  <2>1. Stream(y) = [i \in 1..y.len |-> Stream(y)[i]]
    BY DEF Stream
  <2> DEFINE s == Stream(y)
  <2>2. y.len \in Nat
    BY LayoutFacts
  <2> HIDE DEF s
  <2>3. s = [i \in 1..y.len |-> s[i]] /\ \A i \in 1..y.len : s[i] \in Nat \X Nat
    BY <1>5, <2>1 DEF s
  <2>4. s \in Seq(Nat \X Nat) /\ Len(s) = y.len
    <3>1. s \in [1..y.len -> Nat \X Nat]
      BY <2>3
    <3> QED BY <2>2, <3>1, SeqDef, LenProperties, SMTT(30), Z3T(30)
  <2> QED BY <2>4 DEF s
<1> QED BY <1>3, <1>4, <1>6
-----------------------------------------------------------------------------
(* The lengths of a stretch.                                               *)
LEMMA StretchSize ==
    ASSUME NEW y \in Layouts, NEW w, NEW b, Stretch(w, Stream(y), b)
    PROVE  b \in Nat /\ Len(w) \in Nat /\ y.len \in Nat /\ b + Len(w) <= y.len /\ w \in Seq(Nat \X Nat)
<1>1. w \in Seq(Nat \X Nat) /\ b \in Nat /\ b + Len(w) <= y.len /\ y.len \in Nat
  BY StreamBytes, LayoutFacts DEF Stretch
<1> QED BY <1>1, LenProperties

(* The bytes of a stretch.                                                 *)
LEMMA StretchByte ==
    ASSUME NEW y \in Layouts, NEW w, NEW b, Stretch(w, Stream(y), b), NEW i \in Nat, 1 <= i, i <= Len(w)
    PROVE  /\ w[i] = Stream(y)[b + i]
           /\ \/ w[i] = Other
              \/ \E p \in DOMAIN y.starts :
                    /\ y.starts[p] <= b + i /\ b + i < y.starts[p] + PacketLen
                    /\ w[i] = <<p, (b + i) - y.starts[p] + 1>>
<1>1. b \in Nat /\ Len(w) \in Nat /\ y.len \in Nat /\ b + Len(w) <= y.len
  BY StretchSize
<1>2. i \in 1..Len(w) /\ b + i \in 1..y.len
  BY <1>1, SMTT(30), Z3T(30)
<1>3. w[i] = Stream(y)[b + i]
  BY <1>2 DEF Stretch
<1>4. \/ Stream(y)[b + i] = Other
      \/ \E p \in DOMAIN y.starts :
            /\ y.starts[p] <= b + i /\ b + i < y.starts[p] + PacketLen
            /\ Stream(y)[b + i] = <<p, (b + i) - y.starts[p] + 1>>
  <2> DEFINE k == b + i
  <2>1. k \in 1..y.len
    BY <1>2
  <2> HIDE DEF k
  <2>2. \/ Stream(y)[k] = Other
        \/ \E p \in DOMAIN y.starts :
              /\ y.starts[p] <= k /\ k < y.starts[p] + PacketLen
              /\ Stream(y)[k] = <<p, k - y.starts[p] + 1>>
    BY <2>1, StreamBytes
  <2> QED BY <2>2 DEF k
<1> QED BY <1>3, <1>4

(* A header in a stretch of the stream is the start of a sentence.         *)
LEMMA HeaderIsStart ==
    ASSUME NEW y \in Layouts, NEW w, NEW b, Stretch(w, Stream(y), b), NEW o \in Headers(w)
    PROVE  /\ o \in Nat /\ 1 <= o /\ o + HeadLen <= Len(w) + 1
           /\ w[o][1] \in DOMAIN y.starts /\ y.starts[w[o][1]] = b + o
<1>1. b \in Nat /\ Len(w) \in Nat /\ y.len \in Nat /\ b + Len(w) <= y.len
  BY StretchSize
<1>2. o \in 1..(Len(w) - HeadLen + 1) /\ IsHeader(w, o)
  BY DEF Headers
<1>3. o \in Nat /\ 1 <= o /\ o + HeadLen <= Len(w) + 1
  BY <1>1, <1>2, Lengths, SMTT(30), Z3T(30)
<1>4. o <= Len(w)
  BY <1>1, <1>3, Lengths, SMTT(30), Z3T(30)
<1>5. w[o][2] = 1
  <2>1. 1 \in 1..HeadLen /\ o + 1 - 1 = o
    BY <1>3, Lengths, SMTT(30), Z3T(30)
  <2>2. w[o + 1 - 1][2] = 1
    BY <1>2, <2>1 DEF IsHeader
  <2> QED BY <2>1, <2>2
<1>6. w[o] # Other
  BY <1>5, SMTT(30), Z3T(30) DEF Other
<1>7. PICK p \in DOMAIN y.starts : w[o] = <<p, (b + o) - y.starts[p] + 1>>
  BY <1>3, <1>4, <1>6, StretchByte, SMTT(30), Z3T(30)
<1>8. y.starts[p] = b + o
  <2> DEFINE s == y.starts[p]
  <2>1. (b + o) - s + 1 = 1 /\ s \in Nat
    BY <1>5, <1>7, LayoutFacts, SMTT(30), Z3T(30)
  <2> HIDE DEF s
  <2>2. s = b + o
    BY <1>1, <1>3, <2>1, SMTT(30), Z3T(30)
  <2> QED BY <2>2 DEF s
<1> QED BY <1>3, <1>7, <1>8, SMTT(30), Z3T(30)

(* The start of a sentence, when its header is in the stretch, is found.   *)
LEMMA StartIsHeader ==
    ASSUME NEW y \in Layouts, NEW w, NEW b, Stretch(w, Stream(y), b),
           NEW p \in DOMAIN y.starts, b < y.starts[p], y.starts[p] + HeadLen <= b + Len(w) + 1
    PROVE  y.starts[p] - b \in Headers(w) /\ w[y.starts[p] - b][1] = p
<1> DEFINE o == y.starts[p] - b
<1>1. b \in Nat /\ Len(w) \in Nat
  BY StretchSize
<1>2. y.starts[p] \in Nat
  BY LayoutFacts
<1>3. o \in 1..(Len(w) - HeadLen + 1) /\ o \in Nat /\ b + o = y.starts[p]
  BY <1>1, <1>2, Lengths, SMT
<1> HIDE DEF o
<1>4. ASSUME NEW j \in 1..HeadLen PROVE w[o + j - 1] = <<p, j>>
  <2>1. /\ o + j - 1 \in Nat /\ 1 <= o + j - 1 /\ o + j - 1 <= Len(w)
        /\ b + (o + j - 1) = y.starts[p] + j - 1 /\ j \in 1..PacketLen
    <3>1. j \in Nat /\ 1 <= j /\ j <= HeadLen /\ 1 <= o /\ o + HeadLen <= Len(w) + 1
      BY <1>1, <1>3, Lengths, SMTT(30), Z3T(30)
    <3> DEFINE s == y.starts[p]
    <3>2. s \in Nat /\ b + o = s
      BY <1>2, <1>3
    <3> HIDE DEF s
    <3>3. /\ o + j - 1 \in Nat /\ 1 <= o + j - 1 /\ o + j - 1 <= Len(w)
          /\ b + (o + j - 1) = s + j - 1 /\ j \in 1..PacketLen
      BY <1>1, <1>3, <3>1, <3>2, Lengths, SMTT(30), Z3T(30)
    <3> QED BY <3>3 DEF s
  <2>2. w[o + j - 1] = Stream(y)[y.starts[p] + j - 1]
    BY <2>1, StretchByte, SMTT(30), Z3T(30)
  <2> QED BY <2>1, <2>2, StreamBytes
<1>5. IsHeader(w, o)
  BY <1>4, SMTT(30), Z3T(30) DEF IsHeader
<1>6. w[o] = <<p, 1>>
  <2>1. 1 \in 1..HeadLen /\ o + 1 - 1 = o
    BY <1>3, Lengths, SMTT(30), Z3T(30)
  <2>2. w[o + 1 - 1] = <<p, 1>>
    BY <1>4, <2>1
  <2> QED BY <2>1, <2>2
<1>7. o \in Headers(w) /\ w[o][1] = p
  BY <1>3, <1>5, <1>6, SMTT(30), Z3T(30) DEF Headers
<1> QED BY <1>7 DEF o

(* Between two headers there is a whole sentence.                          *)
LEMMA HeadersApart ==
    ASSUME NEW y \in Layouts, NEW w, NEW b, Stretch(w, Stream(y), b),
           NEW o \in Headers(w), NEW h \in Headers(w), o < h
    PROVE  o + PacketLen <= h
<1> DEFINE p == w[o][1]
           q == w[h][1]
<1>1. /\ o \in Nat /\ p \in DOMAIN y.starts /\ y.starts[p] = b + o
      /\ h \in Nat /\ q \in DOMAIN y.starts /\ y.starts[q] = b + h
  BY HeaderIsStart, SMTT(30), Z3T(30)
<1>2. b \in Nat
  BY DEF Stretch
<1> HIDE DEF p, q
<1>3. p < q
  <2>1. y.starts[p] < y.starts[q]
    BY <1>1, <1>2, SMTT(30), Z3T(30)
  <2> QED BY <1>1, <2>1, LayoutFacts
<1>4. y.starts[p] + PacketLen <= y.starts[q]
  BY <1>1, <1>3, LayoutFacts
<1> QED BY <1>1, <1>2, <1>4, Lengths, SMTT(30), Z3T(30)

(* The first end mark behind a header is the end of its sentence.          *)
LEMMA SentenceEnd ==
    ASSUME NEW y \in Layouts, NEW w, NEW b, Stretch(w, Stream(y), b), NEW o \in Headers(w)
    PROVE  /\ Ends(w, o) = {} <=> Len(w) + 1 < o + PacketLen
           /\ Ends(w, o) # {} => First(Ends(w, o)) = o + PacketLen - 1
           /\ Ends(w, o) # {} => SubSeq(w, o, o + PacketLen - 1) = Sentence(w[o][1])
<1> DEFINE p == w[o][1]
           e == o + PacketLen - 1
<1>1. b \in Nat /\ Len(w) \in Nat /\ y.len \in Nat /\ b + Len(w) <= y.len
  BY StretchSize
<1>2. /\ o \in Nat /\ 1 <= o /\ o + HeadLen <= Len(w) + 1
      /\ p \in DOMAIN y.starts /\ y.starts[p] = b + o
  BY HeaderIsStart, SMTT(30), Z3T(30)
<1> HIDE DEF p
<1>3. ASSUME NEW j \in 1..PacketLen, o + j - 1 <= Len(w) PROVE w[o + j - 1] = <<p, j>>
  <2>1. o + j - 1 \in Nat /\ 1 <= o + j - 1 /\ b + (o + j - 1) = y.starts[p] + j - 1
    BY <1>1, <1>2, Lengths, SMTT(30), Z3T(30)
  <2>2. w[o + j - 1] = Stream(y)[y.starts[p] + j - 1]
    BY <1>3, <2>1, StretchByte, SMTT(30), Z3T(30)
  <2> QED BY <1>2, <2>2, StreamBytes
<1>4. ASSUME e <= Len(w) PROVE e \in Ends(w, o)
  <2>1. PacketLen \in 1..PacketLen /\ e \in (o + HeadLen)..Len(w)
    BY <1>1, <1>2, <1>4, Lengths, SMTT(30), Z3T(30)
  <2>2. w[e] = <<p, PacketLen>>
    BY <1>3, <1>4, <2>1
  <2> QED BY <2>1, <2>2, SMTT(30), Z3T(30) DEF Ends
<1>5. ASSUME NEW k \in Ends(w, o) PROVE k \in Nat /\ e <= k /\ k <= Len(w)
  <2>1. k \in Nat /\ o + HeadLen <= k /\ k <= Len(w) /\ w[k][2] = PacketLen
    BY <1>1, <1>2, Lengths, SMTT(30), Z3T(30) DEF Ends
  <2>2. 1 <= k
    BY <1>2, <2>1, Lengths, SMTT(30), Z3T(30)
  <2>3. w[k] # Other
    BY <2>1, Lengths, SMTT(30), Z3T(30) DEF Other
  <2>4. PICK q \in DOMAIN y.starts : w[k] = <<q, (b + k) - y.starts[q] + 1>>
    BY <2>1, <2>2, <2>3, StretchByte, SMTT(30), Z3T(30)
  <2>5. y.starts[q] \in Nat /\ y.starts[q] + PacketLen = b + k + 1
    <3>1. (b + k) - y.starts[q] + 1 = PacketLen /\ y.starts[q] \in Nat
      BY <2>1, <2>4, LayoutFacts, SMTT(30), Z3T(30)
    <3> QED BY <1>1, <2>1, <3>1, Lengths, SMTT(30), Z3T(30)
  <2>6. ~(q < p)
    <3> SUFFICES ASSUME q < p PROVE FALSE
      OBVIOUS
    <3>1. y.starts[q] + PacketLen <= y.starts[p]
      BY <1>2, LayoutFacts
    <3> QED BY <1>1, <1>2, <2>1, <2>5, <3>1, Lengths, SMTT(30), Z3T(30)
  <2>7. q = p \/ p < q
    BY <1>2, <2>6, LayoutFacts, SMTT(30), Z3T(30)
  <2>8. y.starts[p] <= y.starts[q]
    <3>1. p < q => y.starts[p] + PacketLen <= y.starts[q]
      BY <1>2, LayoutFacts
    <3>2. y.starts[p] \in Nat
      BY <1>2, LayoutFacts
    <3> QED BY <2>5, <2>7, <3>1, <3>2, Lengths, SMTT(30), Z3T(30)
  <2> QED BY <1>1, <1>2, <2>1, <2>5, <2>8, Lengths, SMTT(30), Z3T(30)
<1>6. Ends(w, o) = {} <=> Len(w) + 1 < o + PacketLen
  <2>1. CASE e <= Len(w)
    BY <1>1, <1>2, <1>4, <2>1, Lengths, SMTT(30), Z3T(30)
  <2>2. CASE ~(e <= Len(w))
    <3>1. \A k \in Ends(w, o) : FALSE
      BY <1>1, <1>2, <1>5, <2>2, Lengths, SMTT(30), Z3T(30)
    <3> QED BY <1>1, <1>2, <2>2, <3>1, Lengths, SMTT(30), Z3T(30)
  <2> QED BY <2>1, <2>2
<1>7. ASSUME Ends(w, o) # {} PROVE First(Ends(w, o)) = e /\ SubSeq(w, o, e) = Sentence(p)
  <2>1. e \in Ends(w, o) /\ e <= Len(w) /\ e \in Nat
    BY <1>1, <1>2, <1>4, <1>6, <1>7, Lengths, SMTT(30), Z3T(30)
  <2>2. Ends(w, o) \in SUBSET Nat /\ \A k \in Ends(w, o) : e <= k
    BY <1>5
  <2>3. First(Ends(w, o)) = e
    BY <2>1, <2>2, FirstUnique
  <2>4. SubSeq(w, o, e) = [j \in 1..PacketLen |-> w[o + j - 1]]
    BY <1>1, <1>2, <2>1, Lengths, SMTT(30), Z3T(30)
  <2>5. \A j \in 1..PacketLen : w[o + j - 1] = <<p, j>>
    <3>1. \A j \in 1..PacketLen : o + j - 1 <= Len(w)
      BY <1>1, <1>2, <2>1, Lengths, SMTT(30), Z3T(30)
    <3> QED BY <1>3, <3>1
  <2> QED BY <2>3, <2>4, <2>5 DEF Sentence
<1> QED BY <1>6, <1>7 DEF p
-----------------------------------------------------------------------------
(* The number of unread bytes.                                             *)
LEMMA UnreadIsGap ==
    ASSUME head \in 0..(BufLen - 1), tail \in 0..(BufLen - 1)
    PROVE  Unread = Gap
<1>1. head \in Nat /\ tail \in Nat /\ head < BufLen /\ tail < BufLen
  BY Lengths, SMTT(30), Z3T(30)
<1>2. \A x, B \in Nat : x < B => x % B = x /\ (x - B < 0 => (x - B) % B = x)
  BY SMT
<1>3. CASE tail <= head
  <2>1. head - tail \in Nat /\ head - tail < BufLen
    BY <1>1, <1>3, Lengths, SMTT(30), Z3T(30)
  <2> QED BY <1>2, <1>3, <2>1, Lengths DEF Unread, Gap
<1>4. CASE ~(tail <= head)
  <2> DEFINE x == head + BufLen - tail
  <2>1. x \in Nat /\ x < BufLen /\ head - tail = x - BufLen
    BY <1>1, <1>4, Lengths, SMTT(30), Z3T(30)
  <2> HIDE DEF x
  <2>2. (head - tail) % BufLen = x
    BY <1>2, <2>1, Lengths, SMTT(30), Z3T(30)
  <2> QED BY <1>4, <2>2 DEF Unread, Gap, x
<1> QED BY <1>3, <1>4

(* The numbers of the ring.                                                *)
LEMMA RingNumbers ==
    ASSUME RingOK
    PROVE  /\ head \in Nat /\ tail \in Nat /\ head < BufLen /\ tail < BufLen
           /\ Gap \in Nat /\ Reach \in Nat /\ Pos \in Nat /\ sent \in Nat /\ sent = Pos + Gap
           /\ Reach <= Gap /\ Gap < BufLen /\ tail + Reach <= BufLen /\ Len(stream) \in Nat
           /\ Pos + Gap <= Len(stream)
<1>1. /\ head \in Nat /\ tail \in Nat /\ head < BufLen /\ tail < BufLen /\ sent \in Nat
      /\ Gap <= Lag /\ Gap <= sent /\ sent <= Len(stream)
  BY Lengths, SMTT(30), Z3T(30) DEF RingOK
<1>2. Len(stream) \in Nat
  BY StreamBytes, LayoutFacts, SMTT(30), Z3T(30) DEF RingOK
<1>3. Gap \in Nat /\ Reach \in Nat /\ Reach <= Gap /\ tail + Reach <= BufLen
  BY <1>1, Lengths, SMTT(30), Z3T(30) DEF Gap, Reach
<1> HIDE DEF Gap, Reach
<1>4. Pos \in Nat /\ sent = Pos + Gap
  BY <1>1, <1>3, SMTT(30), Z3T(30) DEF Pos
<1> QED BY <1>1, <1>2, <1>3, <1>4, Lengths, SMTT(30), Z3T(30)

(* The parse thread moves the tail over bytes it has looked at: nmea_parse_*)
(* packet's g_pRecvTail += ..., with the wrap at the end of the buffer.    *)
LEMMA Advance ==
    ASSUME RingOK, NEW m \in Nat, m <= Reach, tail' = Wrap(tail + m), UNCHANGED <<stream, sent, buf, head>>
    PROVE  RingOK' /\ Pos' = Pos + m /\ Pos + Reach <= Pos' + Reach' /\ Pos' + Reach' \in Nat
<1>1. /\ head \in Nat /\ tail \in Nat /\ head < BufLen /\ tail < BufLen
      /\ Gap \in Nat /\ Reach \in Nat /\ Pos \in Nat /\ sent \in Nat /\ sent = Pos + Gap
      /\ Reach <= Gap /\ Gap < BufLen /\ tail + Reach <= BufLen
  BY RingNumbers
<1>2. tail' \in Nat /\ tail' < BufLen /\ Gap' = Gap - m /\ Reach <= m + Reach' /\ Reach' \in Nat
  <2>1. CASE tail + m < BufLen
    <3>1. tail' = tail + m /\ head' = head
      BY <1>1, <2>1, Lengths, SMTT(30), Z3T(30) DEF Wrap
    <3>2. CASE tail <= head
      BY <1>1, <2>1, <3>1, <3>2, Lengths, SMTT(30), Z3T(30) DEF Gap, Reach
    <3>3. CASE ~(tail <= head)
      BY <1>1, <2>1, <3>1, <3>3, Lengths, SMTT(30), Z3T(30) DEF Gap, Reach
    <3> QED BY <3>2, <3>3
  <2>2. CASE ~(tail + m < BufLen)
    <3>1. tail' = 0 /\ tail + m = BufLen
      BY <1>1, <2>2, Lengths, SMTT(30), Z3T(30) DEF Wrap
    <3> QED BY <1>1, <3>1, Lengths, SMTT(30), Z3T(30) DEF Gap, Reach
  <2> QED BY <2>1, <2>2
<1>3. Pos' = Pos + m /\ Pos + Reach <= Pos' + Reach' /\ Pos' + Reach' \in Nat
  <2>1. Pos' = Pos + m
    BY <1>1, <1>2, SMTT(30), Z3T(30) DEF Pos
  <2>2. \A r, s \in Nat : r <= m + s => Pos + r <= Pos + m + s /\ Pos + m + s \in Nat
    BY <1>1, SMTT(30), Z3T(30)
  <2> QED BY <1>1, <1>2, <2>1, <2>2
<1>4. ASSUME NEW k \in 0..(Gap' - 1) PROVE buf'[Cell(k)'] = stream'[Pos' + k + 1]
  <2>1. k \in Nat /\ k + m \in 0..(Gap - 1)
    BY <1>1, <1>2, SMTT(30), Z3T(30)
  <2>2. Cell(k)' = Cell(k + m)
    <3>1. k + m < Gap
      BY <1>1, <2>1, SMTT(30), Z3T(30)
    <3>2. CASE tail + m < BufLen
      <4>1. tail' = tail + m
        BY <1>1, <3>2, Lengths, SMTT(30), Z3T(30) DEF Wrap
      <4> QED BY <1>1, <2>1, <4>1, Lengths, SMTT(30), Z3T(30) DEF Cell
    <3>3. CASE ~(tail + m < BufLen)
      <4>1. tail' = 0 /\ tail + m = BufLen
        BY <1>1, <3>3, Lengths, SMTT(30), Z3T(30) DEF Wrap
      <4> QED BY <1>1, <2>1, <3>1, <4>1, Lengths, SMTT(30), Z3T(30) DEF Cell
    <3> QED BY <3>2, <3>3
  <2>3. buf[Cell(k + m)] = stream[Pos + (k + m) + 1]
    BY <2>1 DEF RingOK
  <2>4. Pos' + k + 1 = Pos + (k + m) + 1
    BY <1>1, <1>3, <2>1, SMTT(30), Z3T(30)
  <2> QED BY <2>2, <2>3, <2>4
<1>5. /\ tail' \in 0..(BufLen - 1) /\ Gap' <= Lag /\ Gap' <= sent'
  <2>1. Gap <= Lag /\ Gap <= sent
    BY DEF RingOK
  <2> QED BY <1>1, <1>2, <2>1, Lengths, SMTT(30), Z3T(30)
<1> QED BY <1>3, <1>4, <1>5 DEF RingOK

(* The receive thread fills the ring behind the unread bytes, and takes    *)
(* none of those it could still be asked for.                              *)
LEMMA ReceiveRing ==
    ASSUME RingOK, NEW n \in 1..Lag, Receive(n)
    PROVE  RingOK' /\ Pos' = Pos /\ Reach <= Reach' /\ Reach' \in Nat
<1>1. /\ head \in Nat /\ tail \in Nat /\ head < BufLen /\ tail < BufLen
      /\ Gap \in Nat /\ Reach \in Nat /\ Pos \in Nat /\ sent \in Nat /\ sent = Pos + Gap
      /\ Gap < BufLen /\ Len(stream) \in Nat
  BY RingNumbers
<1>2. /\ n \in Nat /\ 1 <= n /\ n + sent <= Len(stream) /\ n + head <= BufLen /\ Gap + n <= Lag
  <2>1. n \in Nat /\ 1 <= n /\ n <= Len(stream) - sent /\ n <= BufLen - head /\ Unread + n <= Lag
    BY Lengths, SMTT(30), Z3T(30) DEF Receive
  <2>2. Unread = Gap
    BY UnreadIsGap DEF RingOK
  <2> QED BY <1>1, <2>1, <2>2, Lengths, SMTT(30), Z3T(30)
<1>3. /\ head' = (IF head + n < BufLen THEN head + n ELSE 0) /\ tail' = tail /\ sent' = sent + n
      /\ stream' = stream
  <2>1. head' = Wrap(head + n) /\ tail' = tail /\ sent' = sent + n /\ stream' = stream
    BY DEF Receive
  <2>2. Wrap(head + n) = IF head + n < BufLen THEN head + n ELSE 0
    BY <1>1, <1>2, Lengths, SMTT(30), Z3T(30) DEF Wrap
  <2> QED BY <2>1, <2>2
<1>4. /\ head' \in Nat /\ head' < BufLen /\ Gap' = Gap + n /\ Reach <= Reach' /\ Reach' \in Nat
  <2>1. CASE tail <= head
    BY <1>1, <1>2, <1>3, <2>1, Lengths, SMTT(30), Z3T(30) DEF Gap, Reach
  <2>2. CASE ~(tail <= head)
    BY <1>1, <1>2, <1>3, <2>2, Lengths, SMTT(30), Z3T(30) DEF Gap, Reach
  <2> QED BY <2>1, <2>2
<1>5. Pos' = Pos
  BY <1>1, <1>2, <1>3, <1>4, SMTT(30), Z3T(30) DEF Pos
<1>6. /\ buf' \in [0..(BufLen - 1) -> Nat \X Nat]
      /\ \A o \in 0..(BufLen - 1) : o < head \/ head + n <= o => buf'[o] = buf[o]
      /\ \A o \in 0..(BufLen - 1) : head <= o /\ o < head + n => buf'[o] = stream[sent + (o - head) + 1]
  <2>1. buf' = [o \in 0..(BufLen - 1) |->
                  IF o \in head..(head + n - 1) THEN stream[sent + o - head + 1] ELSE buf[o]]
    BY DEF Receive
  <2>2. \A o \in 0..(BufLen - 1) : o \in head..(head + n - 1) <=> head <= o /\ o < head + n
    BY <1>1, <1>2, Lengths, SMTT(30), Z3T(30)
  <2>3. \A o \in 0..(BufLen - 1) : head <= o /\ o < head + n =>
            sent + o - head + 1 = sent + (o - head) + 1 /\ sent + (o - head) + 1 \in 1..Len(stream)
    BY <1>1, <1>2, Lengths, SMTT(30), Z3T(30)
  <2>4. stream \in [1..Len(stream) -> Nat \X Nat]
    <3>1. stream \in Seq(Nat \X Nat)
      BY StreamBytes DEF RingOK
    <3> QED BY <3>1, LenProperties
  <2>5. buf \in [0..(BufLen - 1) -> Nat \X Nat]
    BY DEF RingOK
  <2>6. ASSUME NEW o \in 0..(BufLen - 1) PROVE buf'[o] \in Nat \X Nat
    <3>1. CASE head <= o /\ o < head + n
      <4>1. buf'[o] = stream[sent + (o - head) + 1] /\ sent + (o - head) + 1 \in 1..Len(stream)
        BY <2>1, <2>2, <2>3, <3>1
      <4> QED BY <2>4, <4>1
    <3>2. CASE ~(head <= o /\ o < head + n)
      <4>1. buf'[o] = buf[o]
        BY <2>1, <2>2, <3>2
      <4> QED BY <2>5, <4>1
    <3> QED BY <3>1, <3>2
  <2>7. ASSUME NEW o \in 0..(BufLen - 1), o < head \/ head + n <= o PROVE buf'[o] = buf[o]
    <3>1. ~(head <= o /\ o < head + n)
      BY <1>1, <1>2, <2>7, Lengths, SMTT(30), Z3T(30)
    <3> QED BY <2>1, <2>2, <3>1
  <2>8. ASSUME NEW o \in 0..(BufLen - 1), head <= o, o < head + n
        PROVE  buf'[o] = stream[sent + (o - head) + 1]
    BY <2>1, <2>2, <2>3, <2>8
  <2>9. buf' \in [0..(BufLen - 1) -> Nat \X Nat]
    BY <2>1, <2>6
  <2> QED BY <2>7, <2>8, <2>9
<1>7. ASSUME NEW k \in 0..(Gap' - 1) PROVE buf'[Cell(k)'] = stream'[Pos' + k + 1]
  <2>1. k \in Nat /\ k < Gap + n
    BY <1>1, <1>2, <1>4, SMTT(30), Z3T(30)
  <2>2. Cell(k)' = Cell(k)
    BY <1>3 DEF Cell
  <2>3. CASE k < Gap
    <3>1. Cell(k) \in 0..(BufLen - 1) /\ (Cell(k) < head \/ head + n <= Cell(k))
      <4>1. CASE tail <= head
        BY <1>1, <1>2, <2>1, <2>3, <4>1, Lengths, SMTT(30), Z3T(30) DEF Cell, Gap
      <4>2. CASE ~(tail <= head)
        BY <1>1, <1>2, <2>1, <2>3, <4>2, Lengths, SMTT(30), Z3T(30) DEF Cell, Gap
      <4> QED BY <4>1, <4>2
    <3>2. buf'[Cell(k)] = buf[Cell(k)]
      BY <1>6, <3>1
    <3>3. buf[Cell(k)] = stream[Pos + k + 1]
      <4>1. k \in 0..(Gap - 1)
        BY <1>1, <2>1, <2>3, SMTT(30), Z3T(30)
      <4> QED BY <4>1 DEF RingOK
    <3> QED BY <1>3, <1>5, <2>2, <3>2, <3>3
  <2>4. CASE ~(k < Gap)
    <3>1. Cell(k) = head + (k - Gap) /\ Cell(k) \in 0..(BufLen - 1) /\ head <= Cell(k) /\ Cell(k) < head + n
      <4>1. CASE tail <= head
        BY <1>1, <1>2, <2>1, <2>4, <4>1, Lengths, SMTT(30), Z3T(30) DEF Cell, Gap
      <4>2. CASE ~(tail <= head)
        BY <1>1, <1>2, <2>1, <2>4, <4>2, Lengths, SMTT(30), Z3T(30) DEF Cell, Gap
      <4> QED BY <4>1, <4>2
    <3>2. buf'[Cell(k)] = stream[sent + (Cell(k) - head) + 1]
      BY <1>6, <3>1
    <3>3. sent + (Cell(k) - head) + 1 = Pos + k + 1
      BY <1>1, <2>1, <3>1, SMTT(30), Z3T(30)
    <3> QED BY <1>3, <1>5, <2>2, <3>2, <3>3
  <2> QED BY <2>3, <2>4
<1>8. /\ head' \in 0..(BufLen - 1) /\ sent' \in Nat /\ sent' <= Len(stream') /\ Gap' <= Lag /\ Gap' <= sent'
  BY <1>1, <1>2, <1>3, <1>4, Lengths, SMTT(30), Z3T(30)
<1> QED BY <1>3, <1>4, <1>5, <1>6, <1>7, <1>8 DEF RingOK

(* What nmea_parse_packet looks at is a stretch of the stream: the saved   *)
(* part and, right behind it, the unread bytes up to the end of the buffer.*)
LEMMA Look ==
    ASSUME RingOK, PartOK, head # tail
    PROVE  /\ Stretch(Joined(Fresh), stream, Base)
           /\ Len(Fresh) = Reach /\ 1 <= Reach /\ Len(Joined(Fresh)) = Len(part) + Reach
           /\ \A i \in 1..Len(part) : Joined(Fresh)[i] = part[i]
<1>1. /\ head \in Nat /\ tail \in Nat /\ head < BufLen /\ tail < BufLen
      /\ Gap \in Nat /\ Reach \in Nat /\ Pos \in Nat /\ Reach <= Gap /\ tail + Reach <= BufLen
      /\ Len(stream) \in Nat /\ Pos + Gap <= Len(stream)
  BY RingNumbers
<1>2. Fresh = [j \in 1..Reach |-> buf[tail + j - 1]] /\ 1 <= Reach
  <2>1. 1 <= Reach
    BY <1>1, Lengths, SMTT(30), Z3T(30) DEF Reach
  <2>2. (IF head > tail THEN head ELSE BufLen) - tail = Reach
    BY <1>1, Lengths, SMTT(30), Z3T(30) DEF Reach
  <2> QED BY <2>1, <2>2 DEF Fresh
<1>3. ASSUME NEW j \in 1..Reach PROVE Fresh[j] = stream[Pos + j] /\ Fresh[j] \in Nat \X Nat
  <2>1. /\ j - 1 \in 0..(Gap - 1) /\ tail + j - 1 \in 0..(BufLen - 1) /\ Cell(j - 1) = tail + j - 1
        /\ Pos + (j - 1) + 1 = Pos + j
    BY <1>1, Lengths, SMTT(30), Z3T(30) DEF Cell
  <2>2. buf[tail + j - 1] = stream[Pos + j]
    BY <2>1 DEF RingOK
  <2>3. buf[tail + j - 1] \in Nat \X Nat
    BY <2>1 DEF RingOK
  <2> QED BY <1>2, <2>2, <2>3
<1>4. Fresh \in Seq(Nat \X Nat) /\ Len(Fresh) = Reach
  <2>1. Fresh \in [1..Reach -> Nat \X Nat]
    BY <1>2, <1>3
  <2> QED BY <1>1, <2>1, SeqDef, LenProperties, SMTT(30), Z3T(30)
<1>5. /\ part \in Seq(Nat \X Nat) /\ Len(part) \in Nat /\ Base \in Nat /\ Pos = Base + Len(part)
      /\ \A i \in 1..Len(part) : part[i] = stream[Base + i]
  <2>1. /\ part \in Seq(Nat \X Nat) /\ Base \in Nat
        /\ \A i \in 1..Len(part) : part[i] = stream[Base + i]
    BY DEF PartOK, Stretch
  <2>2. Len(part) \in Nat
    BY <2>1, SMTT(30), Z3T(30)
  <2>3. Pos = Base + Len(part)
    BY <1>1, <2>2, SMTT(30), Z3T(30) DEF Base
  <2> QED BY <2>1, <2>2, <2>3
<1> DEFINE w == Joined(Fresh)
<1>6. /\ w \in Seq(Nat \X Nat) /\ Len(w) = Len(part) + Reach
      /\ \A i \in 1..Len(w) : w[i] = IF i <= Len(part) THEN part[i] ELSE Fresh[i - Len(part)]
  <2>1. /\ part \o Fresh \in Seq(Nat \X Nat) /\ Len(part \o Fresh) = Len(part) + Len(Fresh)
        /\ \A i \in 1..(Len(part) + Len(Fresh)) :
              (part \o Fresh)[i] = IF i <= Len(part) THEN part[i] ELSE Fresh[i - Len(part)]
    BY <1>4, <1>5, ConcatProperties
  <2> QED BY <1>4, <2>1 DEF Joined
<1> HIDE DEF w
<1>7. ASSUME NEW i \in 1..Len(w) PROVE w[i] = stream[Base + i]
  <2>1. CASE i <= Len(part)
    <3>1. i \in 1..Len(part)
      BY <1>5, <2>1, SMTT(30), Z3T(30)
    <3> QED BY <1>5, <1>6, <2>1, <3>1
  <2>2. CASE ~(i <= Len(part))
    <3>1. i - Len(part) \in 1..Reach /\ Pos + (i - Len(part)) = Base + i
      BY <1>1, <1>5, <1>6, <2>2, SMTT(30), Z3T(30)
    <3>2. Fresh[i - Len(part)] = stream[Base + i]
      BY <1>3, <3>1
    <3> QED BY <1>6, <2>2, <3>2
  <2> QED BY <2>1, <2>2
<1>8. Base + Len(w) <= Len(stream)
  BY <1>1, <1>5, <1>6, SMTT(30), Z3T(30)
<1>9. ASSUME NEW i \in 1..Len(part) PROVE w[i] = part[i]
  <2>1. i <= Len(part) /\ i \in 1..(Len(part) + Reach)
    BY <1>1, <1>5, SMTT(30), Z3T(30)
  <2> QED BY <1>6, <2>1
<1>10. Stretch(w, stream, Base)
  BY <1>5, <1>6, <1>7, <1>8 DEF Stretch
<1> QED BY <1>2, <1>4, <1>6, <1>9, <1>10 DEF w

(* A byte of a sentence tells where the sentence starts.                   *)
LEMMA ByteAt ==
    ASSUME NEW y \in Layouts, NEW q \in 1..y.len, NEW p, NEW j \in Nat, j # 0, Stream(y)[q] = <<p, j>>
    PROVE  p \in DOMAIN y.starts /\ y.starts[p] + j = q + 1
<1>1. Stream(y)[q] # Other
  BY SMTT(30), Z3T(30) DEF Other
<1>2. PICK x \in DOMAIN y.starts : Stream(y)[q] = <<x, q - y.starts[x] + 1>>
  BY <1>1, StreamBytes
<1>3. x = p /\ q - y.starts[x] + 1 = j
  BY <1>2, SMTT(30), Z3T(30)
<1>4. y.starts[p] \in Nat /\ q \in Nat
  BY <1>3, LayoutFacts, SMTT(30), Z3T(30)
<1> QED BY <1>2, <1>3, <1>4, SMTT(30), Z3T(30)

(* A saved part is the start of the look, and ends inside its sentence.    *)
LEMMA PartLeads ==
    ASSUME RingOK, PartOK, head # tail, part # <<>>
    PROVE  /\ 1 \in Headers(Joined(Fresh)) /\ Len(part) \in Nat
           /\ HeadLen <= Len(part) /\ Len(part) < PacketLen
<1> DEFINE w == Joined(Fresh)
<1>1. PICK y \in Layouts : stream = Stream(y)
  BY DEF RingOK
<1>2. Stretch(part, Stream(y), Base) /\ 1 \in Headers(part) /\ Ends(part, 1) = {}
  BY <1>1 DEF PartOK
<1>3. Len(part) \in Nat /\ Len(part) + 1 < 1 + PacketLen /\ 1 + HeadLen <= Len(part) + 1
  BY <1>2, SentenceEnd, HeaderIsStart, StretchSize
<1>4. /\ Len(w) = Len(part) + Reach /\ Reach \in Nat
      /\ \A i \in 1..Len(part) : w[i] = part[i]
  BY Look, RingNumbers
<1> HIDE DEF w
<1>5. ASSUME NEW j \in 1..HeadLen PROVE w[1 + j - 1][2] = j
  <2>1. 1 + j - 1 \in 1..Len(part)
    BY <1>3, Lengths, SMTT(30), Z3T(30)
  <2>2. part[1 + j - 1][2] = j
    BY <1>2 DEF Headers, IsHeader
  <2> QED BY <1>4, <2>1, <2>2
<1>6. 1 \in 1..(Len(w) - HeadLen + 1)
  BY <1>3, <1>4, Lengths, SMTT(30), Z3T(30)
<1>7. 1 \in Headers(w)
  BY <1>5, <1>6 DEF Headers, IsHeader
<1> QED BY <1>3, <1>7, Lengths, SMTT(30), Z3T(30) DEF w

(* The three outcomes of nmea_parse_packet: no header, so bytes are        *)
(* skipped; a sentence that is not complete, so it is saved from its header*)
(* on, as a whole; or a complete sentence, handed on.                      *)
Nothing(w) ==
    /\ Headers(w) = {} /\ part = <<>> /\ part' = <<>> /\ out' = out
    /\ \E m \in Nat : m <= Reach /\ tail' = Wrap(tail + m)

Begun(w, o) ==
    /\ Len(w) + 1 < o + PacketLen
    /\ tail' = Wrap(tail + Reach) /\ part' = SubSeq(w, o, Len(w)) /\ out' = out

Complete(w, o) ==
    /\ o + PacketLen <= Len(w) + 1 /\ Len(part) < o + PacketLen - 1
    /\ tail' = Wrap(tail + (o + PacketLen - 1 - Len(part)))
    /\ part' = <<>> /\ out' = Append(out, w[o][1])

Leading(w, o) == o \in Headers(w) /\ \A h \in Headers(w) : o <= h

(* One look has one of these outcomes, for the first header in it.         *)
LEMMA ParseCases ==
    ASSUME RingOK, PartOK, Parse
    PROVE  LET w == Joined(Fresh)
           IN  Nothing(w) \/ \E o \in Nat : Leading(w, o) /\ (Begun(w, o) \/ Complete(w, o))
<1> DEFINE w == Joined(Fresh)
           o == First(Headers(w))
           e == First(Ends(w, o))
<1>1. head # tail
  BY DEF Parse
<1>2. /\ CASE Verdict(w) = "whole" ->
                 /\ tail' = Wrap(Past(e))
                 /\ out' = IF Accepted(SubSeq(w, o, e)) THEN Append(out, w[o][1]) ELSE out
                 /\ part' = <<>>
            [] Verdict(w) = "part" ->
                 /\ tail' = Wrap(tail + Len(Fresh))
                 /\ part' = Kept(w)
                 /\ out' = out
            [] OTHER ->
                 /\ tail' = Wrap(tail + Skip)
                 /\ part' = <<>>
                 /\ out' = out
  BY DEF Parse
<1>3. PICK y \in Layouts : stream = Stream(y)
  BY DEF RingOK
<1>4. /\ Stretch(w, Stream(y), Base) /\ Len(Fresh) = Reach /\ 1 <= Reach /\ Len(w) = Len(part) + Reach
      /\ Reach \in Nat /\ tail \in Nat
  BY <1>1, <1>3, Look, RingNumbers
<1>5. Len(part) \in Nat /\ Len(w) \in Nat /\ w \in Seq(Nat \X Nat)
  <2>1. Len(part) \in Nat
    BY SMTT(30), Z3T(30) DEF PartOK, Stretch
  <2> QED BY <1>4, <2>1, StretchSize
<1> HIDE DEF w
<1>6. CASE Headers(w) = {}
  <2>1. part = <<>>
    BY <1>1, <1>6, PartLeads DEF w
  <2>2. Skip \in Nat /\ Skip <= Reach
    BY <1>4, Lengths, SMTT(30), Z3T(30) DEF Skip
  <2>3. Kept(w) = <<>>
    BY <1>6 DEF Kept
  <2>4. Verdict(w) # "whole"
    BY <1>6 DEF Verdict
  <2>5. part' = <<>> /\ out' = out /\ (tail' = Wrap(tail + Reach) \/ tail' = Wrap(tail + Skip))
    BY <1>2, <1>4, <2>3, <2>4
  <2>6. Nothing(w)
    BY <1>4, <1>6, <2>1, <2>2, <2>5, SMTT(30), Z3T(30) DEF Nothing
  <2> QED BY <2>6 DEF w
<1>7. CASE Headers(w) # {}
  <2>1. Headers(w) \in SUBSET Nat
    BY <1>4, HeaderIsStart
  <2>2. o \in Headers(w) /\ \A h \in Headers(w) : o <= h
    BY <1>7, <2>1, FirstIs
  <2>3. o \in Nat /\ 1 <= o /\ o + HeadLen <= Len(w) + 1
    BY <1>4, <2>2, HeaderIsStart
  <2>4. w[o][1] \in DOMAIN y.starts
    BY <1>4, <2>2, HeaderIsStart
  <2> HIDE DEF o
  <2>5. Leading(w, o)
    BY <2>2 DEF Leading
  <2>6. ~(Len(w) < HeadLen)
    BY <1>5, <2>3, Lengths, SMTT(30), Z3T(30)
  <2>7. CASE Ends(w, o) = {}
    <3>1. Verdict(w) = "part"
      BY <1>7, <2>6, <2>7 DEF Verdict, o
    <3>2. Len(w) + 1 < o + PacketLen
      BY <1>4, <2>2, <2>7, SentenceEnd
    <3>3. Kept(w) = SubSeq(w, o, Len(w))
      <4>1. ~(Len(w) - o + 1 > PartLen)
        BY <1>5, <2>3, <3>2, Lengths, SMTT(30), Z3T(30)
      <4> QED BY <1>7, <4>1 DEF Kept, o
    <3>4. tail' = Wrap(tail + Len(Fresh)) /\ part' = Kept(w) /\ out' = out
      BY <1>2, <3>1
    <3>5. Begun(w, o)
      BY <1>4, <3>2, <3>3, <3>4 DEF Begun
    <3> QED BY <2>3, <2>5, <3>5 DEF w
  <2>8. CASE Ends(w, o) # {}
    <3>1. Verdict(w) = "whole"
      BY <1>7, <2>6, <2>8 DEF Verdict, o
    <3>2. /\ ~(Len(w) + 1 < o + PacketLen) /\ e = o + PacketLen - 1
          /\ SubSeq(w, o, o + PacketLen - 1) = Sentence(w[o][1])
      BY <1>4, <2>2, <2>8, SentenceEnd
    <3> HIDE DEF e
    <3>3. Accepted(SubSeq(w, o, e))
      <4>1. w[o][1] \in 1..Len(stream)
        BY <1>3, <2>4, Numbering, StreamBytes
      <4> QED BY <3>2, <4>1 DEF Accepted
    <3>4. tail' = Wrap(Past(e)) /\ out' = Append(out, w[o][1]) /\ part' = <<>>
      BY <1>2, <3>1, <3>3
    <3>5. o + PacketLen <= Len(w) + 1
      BY <1>5, <2>3, <3>2, Lengths, SMTT(30), Z3T(30)
    <3>6. Len(part) < o + PacketLen - 1
      <4>1. CASE part = <<>>
        BY <2>3, <4>1, Lengths, SMTT(30), Z3T(30)
      <4>2. CASE part # <<>>
        <5>1. Len(part) < PacketLen
          BY <1>1, <4>2, PartLeads
        <5> QED BY <1>5, <2>3, <5>1, Lengths, SMTT(30), Z3T(30)
      <4> QED BY <4>1, <4>2
    <3>7. Past(e) = tail + (o + PacketLen - 1 - Len(part))
      BY <1>4, <1>5, <2>3, <3>2, Lengths, SMTT(30), Z3T(30) DEF Past
    <3>8. Complete(w, o)
      BY <3>4, <3>5, <3>6, <3>7 DEF Complete
    <3> QED BY <2>3, <2>5, <3>8 DEF w
  <2> QED BY <2>7, <2>8
<1> QED BY <1>6, <1>7
-----------------------------------------------------------------------------
(* The receive and the parse thread start with an empty ring.              *)
LEMMA RingInit == Init => RingInv
<1> SUFFICES ASSUME Init PROVE RingInv
  OBVIOUS
<1>1. PICK y \in Layouts : stream = Stream(y)
  BY DEF Init
<1>2. /\ sent = 0 /\ head = 0 /\ tail = 0 /\ part = <<>> /\ out = <<>> /\ seen = {}
      /\ buf = [o \in 0..(BufLen - 1) |-> Other]
  BY DEF Init
<1>3. Gap = 0 /\ Len(stream) \in Nat
  BY <1>1, <1>2, StreamBytes, LayoutFacts, SMTT(30), Z3T(30) DEF Gap
<1>4. Pos = 0 /\ Base = 0 /\ Len(part) = 0
  <2>1. Pos = 0
    BY <1>2, <1>3, SMTT(30), Z3T(30) DEF Pos
  <2>2. Len(part) = 0
    BY <1>2
  <2> QED BY <2>1, <2>2, SMTT(30), Z3T(30) DEF Base
<1>5. RingOK
  <2>1. buf \in [0..(BufLen - 1) -> Nat \X Nat]
    BY <1>2 DEF Other
  <2>2. 0 \in 0..(BufLen - 1) /\ 0 <= Lag /\ 0 <= Len(stream) /\ \A k \in 0..(0 - 1) : FALSE
    BY <1>3, Lengths, SMTT(30), Z3T(30)
  <2> QED BY <1>1, <1>2, <1>3, <2>1, <2>2, SMTT(30), Z3T(30) DEF RingOK
<1>6. PartOK
  <2>1. <<>> \in Seq(Nat \X Nat) /\ 0 + 0 <= Len(stream) /\ 0 <= PartLen /\ \A i \in 1..0 : FALSE
    BY <1>3, Lengths, SMTT(30), Z3T(30)
  <2> QED BY <1>2, <1>4, <2>1 DEF PartOK, Stretch
<1>7. OutOK /\ SeenOK
  <2>1. <<>> \in Seq(Nat) /\ \A a \in 1..Len(<<>>) : FALSE
    BY SMTT(30), Z3T(30)
  <2> QED BY <1>2, <2>1 DEF OutOK, InOrder, SeenOK
<1> QED BY <1>5, <1>6, <1>7 DEF RingInv

(* Base, and the part behind it.                                           *)
LEMMA BaseFacts ==
    ASSUME RingOK, PartOK
    PROVE  /\ Base \in Nat /\ Len(part) \in Nat /\ Pos \in Nat /\ Pos = Base + Len(part)
           /\ Len(stream) \in Nat /\ Pos <= Len(stream)
<1>1. Base \in Nat /\ Len(part) \in Nat
  BY SMTT(30), Z3T(30) DEF PartOK, Stretch
<1>2. Pos \in Nat /\ Gap \in Nat /\ Len(stream) \in Nat /\ Pos + Gap <= Len(stream)
  BY RingNumbers
<1> QED BY <1>1, <1>2, SMTT(30), Z3T(30) DEF Base

(* A read by the receive thread keeps the invariant.                       *)
LEMMA ReceiveInv ==
    ASSUME RingInv, NEW n \in 1..Lag, Receive(n)
    PROVE  RingInv'
<1>1. RingOK' /\ Pos' = Pos /\ Reach <= Reach' /\ Reach' \in Nat
  BY ReceiveRing DEF RingInv
<1>2. part' = part /\ out' = out /\ seen' = seen /\ stream' = stream
  BY DEF Receive
<1>3. Base' = Base
  BY <1>1, <1>2 DEF Base
<1>4. PartOK'
  BY <1>2, <1>3 DEF RingInv, PartOK, Stretch, Headers, IsHeader, Ends
<1>5. OutOK'
  BY <1>2, <1>3 DEF RingInv, OutOK, InOrder
<1>6. SeenOK'
  <2>1. Pos \in Nat /\ Reach \in Nat
    BY RingNumbers DEF RingInv
  <2>2. \A q \in 1..Len(stream) : q + HeadLen <= Pos + Reach + 1 => q + HeadLen <= Pos' + Reach' + 1
    <3>1. Len(stream) \in Nat
      BY RingNumbers DEF RingInv
    <3>2. \A r, s, q \in Nat : r <= s /\ q + HeadLen <= Pos + r + 1 => q + HeadLen <= Pos + s + 1
      BY <2>1, Lengths, SMTT(30), Z3T(30)
    <3>3. \A q \in 1..Len(stream) : q \in Nat
      BY <3>1, SMTT(30), Z3T(30)
    <3> QED BY <1>1, <2>1, <3>2, <3>3
  <2> QED BY <1>2, <1>3, <2>2 DEF RingInv, SeenOK
<1> QED BY <1>1, <1>4, <1>5, <1>6 DEF RingInv

(* A look of the parse thread keeps the invariant.                         *)
LEMMA ParseInv ==
    ASSUME RingInv, Parse
    PROVE  RingInv'
<1> DEFINE w == Joined(Fresh)
<1>1. RingOK /\ PartOK /\ OutOK /\ SeenOK
  BY DEF RingInv
<1>2. /\ head # tail /\ UNCHANGED <<stream, sent, buf, head>>
      /\ seen' = seen \union {w[h][1] : h \in Headers(w)}
  BY DEF Parse
<1>3. PICK y \in Layouts : stream = Stream(y)
  BY <1>1 DEF RingOK
<1>4. Stretch(w, Stream(y), Base) /\ Len(w) = Len(part) + Reach
  BY <1>1, <1>2, <1>3, Look
<1>5. /\ Base \in Nat /\ Len(part) \in Nat /\ Pos \in Nat /\ Pos = Base + Len(part)
      /\ Len(stream) \in Nat /\ Reach \in Nat /\ Len(stream) = y.len
      /\ Pos + Reach <= Len(stream) /\ Len(w) \in Nat
  <2>1. Reach \in Nat /\ Gap \in Nat /\ Reach <= Gap /\ Pos + Gap <= Len(stream)
    BY <1>1, RingNumbers
  <2>2. Len(stream) = y.len /\ Len(w) \in Nat
    BY <1>3, <1>4, StreamBytes, StretchSize
  <2>3. /\ Base \in Nat /\ Len(part) \in Nat /\ Pos \in Nat /\ Pos = Base + Len(part)
        /\ Len(stream) \in Nat
    BY <1>1, BaseFacts
  <2> QED BY <2>1, <2>2, <2>3, SMTT(30), Z3T(30)
<1> HIDE DEF w
<1>6. ASSUME NEW h \in Headers(w)
      PROVE  /\ h \in Nat /\ 1 <= h /\ h + HeadLen <= Len(w) + 1
             /\ w[h][1] \in 1..Len(stream) /\ w[h][1] \in DOMAIN y.starts
             /\ Base + h \in 1..Len(stream) /\ stream[Base + h] = <<w[h][1], 1>>
  <2> DEFINE p == w[h][1]
  <2>1. /\ h \in Nat /\ 1 <= h /\ h + HeadLen <= Len(w) + 1
        /\ p \in DOMAIN y.starts /\ y.starts[p] = Base + h
    BY <1>4, HeaderIsStart, SMTT(30), Z3T(30)
  <2> HIDE DEF p
  <2>2. p \in 1..Len(stream)
    BY <1>5, <2>1, Numbering
  <2>3. 1 \in 1..PacketLen /\ (Base + h) + 1 - 1 = Base + h
    BY <1>5, <2>1, Lengths, SMTT(30), Z3T(30)
  <2>4. y.starts[p] + 1 - 1 \in 1..Len(stream) /\ stream[y.starts[p] + 1 - 1] = <<p, 1>>
    BY <1>3, <1>5, <2>1, <2>3, StreamBytes
  <2> QED BY <2>1, <2>2, <2>3, <2>4 DEF p
<1>7. seen' \subseteq 0..Len(stream')
  <2>1. seen \subseteq 0..Len(stream)
    BY <1>1 DEF SeenOK
  <2>2. \A h \in Headers(w) : w[h][1] \in 0..Len(stream)
    BY <1>5, <1>6, SMTT(30), Z3T(30)
  <2> QED BY <1>2, <2>1, <2>2
<1>8. ASSUME NEW p \in seen'
      PROVE  (\E a \in 1..Len(out) : out[a] = p) \/ \E h \in Headers(w) : w[h][1] = p
  <2>1. CASE p \in seen
    <3> SUFFICES ASSUME ~ \E a \in 1..Len(out) : out[a] = p PROVE \E h \in Headers(w) : w[h][1] = p
      OBVIOUS
    <3>1. PICK q \in 1..Len(stream) : Base < q /\ q + HeadLen <= Pos + Reach + 1 /\ stream[q] = <<p, 1>>
      BY <1>1, <2>1 DEF SeenOK
    <3>2. p \in DOMAIN y.starts /\ y.starts[p] + 1 = q + 1
      <4>1. 1 \in Nat /\ 1 # 0
        BY SMT
      <4>2. q \in 1..y.len /\ Stream(y)[q] = <<p, 1>>
        BY <1>3, <1>5, <3>1
      <4> QED BY <4>1, <4>2, ByteAt, ZenonT(60)
    <3>3. y.starts[p] = q
      <4>1. y.starts[p] \in Nat /\ q \in Nat
        BY <1>5, <3>2, LayoutFacts, SMTT(30), Z3T(30)
      <4> QED BY <3>2, <4>1, SMTT(30), Z3T(30)
    <3>4. q + HeadLen <= Base + Len(w) + 1
      BY <1>4, <1>5, <3>1, Lengths, SMTT(30), Z3T(30)
    <3> QED BY <1>4, <3>1, <3>2, <3>3, <3>4, StartIsHeader, SMTT(30), Z3T(30)
  <2>2. CASE p \notin seen
    BY <1>2, <2>2
  <2> QED BY <2>1, <2>2
<1>Stays. ASSUME out' = out, Base' \in Nat, Base <= Base' PROVE OutOK'
  <2>1. \A a \in 1..Len(out) : \E q \in 1..Len(stream) : q <= Base' /\ stream[q] = <<out[a], PacketLen>>
    <3>1. \A q \in 1..Len(stream) : q <= Base => q <= Base'
      BY <1>5, <1>Stays, SMTT(30), Z3T(30)
    <3> QED BY <1>1, <3>1 DEF OutOK
  <2> QED BY <1>1, <1>2, <1>Stays, <2>1 DEF OutOK, InOrder
<1>Empty. ASSUME NEW m \in Nat, m <= Reach, Pos' = Pos + m, part' = <<>>
          PROVE  PartOK' /\ Base' = Pos + m /\ Base' \in Nat
  <2>1. Pos + m \in Nat /\ Pos + m <= Len(stream) /\ stream' = stream
    BY <1>2, <1>5, <1>Empty, SMTT(30), Z3T(30)
  <2>2. Len(part') = 0 /\ part' \in Seq(Nat \X Nat)
    BY <1>Empty, SMTT(30), Z3T(30)
  <2>3. Base' = Pos + m /\ Base' \in Nat /\ Base' + Len(part') <= Len(stream')
    <3>1. Base' = (Pos + m) - 0
      BY <1>Empty, <2>2 DEF Base
    <3> QED BY <2>1, <2>2, <3>1, SMTT(30), Z3T(30)
  <2>4. \A i \in 1..Len(part') : FALSE
    BY <2>2, SMTT(30), Z3T(30)
  <2> QED BY <1>Empty, <2>2, <2>3, <2>4, Lengths, SMTT(30), Z3T(30) DEF PartOK, Stretch
<1>9. CASE Nothing(w)
  <2>1. PICK m \in Nat : m <= Reach /\ tail' = Wrap(tail + m)
    BY <1>9 DEF Nothing
  <2>2. Headers(w) = {} /\ part = <<>> /\ part' = <<>> /\ out' = out
    BY <1>9 DEF Nothing
  <2>3. RingOK' /\ Pos' = Pos + m
    BY <1>1, <1>2, <2>1, Advance
  <2>4. PartOK' /\ Base' = Pos + m /\ Base' \in Nat
    BY <2>1, <2>2, <2>3, <1>Empty
  <2>5. OutOK'
    <3>1. Base <= Base'
      BY <1>5, <2>4, SMTT(30), Z3T(30)
    <3> QED BY <2>2, <2>4, <3>1, <1>Stays
  <2>6. SeenOK'
    BY <1>7, <1>8, <2>2 DEF SeenOK
  <2> QED BY <2>3, <2>4, <2>5, <2>6 DEF RingInv
<1>10. ASSUME NEW o \in Nat, Leading(w, o), Begun(w, o) PROVE RingInv'
  <2>1. /\ o \in Headers(w) /\ \A h \in Headers(w) : o <= h
        /\ Len(w) + 1 < o + PacketLen /\ tail' = Wrap(tail + Reach)
        /\ part' = SubSeq(w, o, Len(w)) /\ out' = out
    BY <1>10 DEF Leading, Begun
  <2>2. 1 <= o /\ o + HeadLen <= Len(w) + 1 /\ Base + o \in 1..Len(stream) /\ stream[Base + o] = <<w[o][1], 1>>
    BY <1>6, <2>1
  <2>3. RingOK' /\ Pos' = Pos + Reach /\ Pos + Reach <= Pos' + Reach' /\ Pos' + Reach' \in Nat
    BY <1>1, <1>2, <1>5, <2>1, Advance, SMTT(30), Z3T(30)
  <2> DEFINE v == SubSeq(w, o, Len(w))
  <2>4. /\ v \in Seq(Nat \X Nat) /\ Len(v) = Len(w) - o + 1
        /\ \A i \in 1..Len(v) : v[i] = w[o + i - 1]
    <3>1. w \in Seq(Nat \X Nat)
      BY <1>4 DEF Stretch
    <3>2. o \in 1..Len(w) /\ Len(w) \in 1..Len(w)
      BY <1>5, <2>2, Lengths, SMTT(30), Z3T(30)
    <3> QED BY <3>1, <3>2, SubSeqProperties, SMTT(30), Z3T(30)
  <2> HIDE DEF v
  <2>5. part' = v /\ Len(v) \in Nat /\ Len(v) + o = Len(w) + 1
    <3>1. Len(v) = Len(w) - o + 1 /\ part' = v
      BY <2>1, <2>4 DEF v
    <3>2. o <= Len(w) /\ Len(w) \in Nat
      BY <1>5, <2>2, Lengths, SMTT(30), Z3T(30)
    <3>3. Len(w) - o + 1 \in Nat /\ (Len(w) - o + 1) + o = Len(w) + 1
      BY <3>2, SMTT(30), Z3T(30)
    <3> QED BY <3>1, <3>3
  <2>6. Base' = Base + o - 1 /\ Base' \in Nat
    <3>1. Base' = (Pos + Reach) - (Len(w) - o + 1)
      BY <2>3, <2>4, <2>5 DEF Base
    <3> QED BY <1>4, <1>5, <2>2, <3>1, SMTT(30), Z3T(30)
  <2>7. Stretch(v, stream, Base')
    <3>1. Base' + Len(v) <= Len(stream)
      <4>1. Base + Len(w) <= Len(stream)
        BY <1>4, <1>5, SMTT(30), Z3T(30)
      <4>2. \A x \in Nat : x + 1 = Base + o => x + Len(v) = Base + Len(w)
        BY <1>5, <2>5, SMTT(30), Z3T(30)
      <4>3. Base' + 1 = Base + o
        BY <1>5, <2>2, <2>6, SMTT(30), Z3T(30)
      <4> QED BY <2>6, <4>1, <4>2, <4>3
    <3>2. ASSUME NEW i \in 1..Len(v) PROVE v[i] = stream[Base' + i]
      <4>1. o + i - 1 \in 1..Len(w) /\ Base + (o + i - 1) = Base' + i
        <5>1. i \in Nat /\ 1 <= i /\ i <= Len(v)
          BY <2>5, SMTT(30), Z3T(30)
        <5>2. o + i - 1 \in 1..Len(w) /\ Base + (o + i - 1) = Base + o - 1 + i
          BY <1>5, <2>2, <2>5, <5>1, SMTT(30), Z3T(30)
        <5> QED BY <2>6, <5>2
      <4>2. w[o + i - 1] = stream[Base + (o + i - 1)]
        BY <1>3, <1>4, <4>1 DEF Stretch
      <4> QED BY <2>4, <4>1, <4>2
    <3> QED BY <2>4, <2>6, <3>1, <3>2 DEF Stretch
  <2>8. 1 \in Headers(v)
    <3>1. 1 \in 1..(Len(v) - HeadLen + 1)
      BY <1>5, <2>2, <2>4, Lengths, SMTT(30), Z3T(30)
    <3>2. ASSUME NEW j \in 1..HeadLen PROVE v[1 + j - 1][2] = j
      <4>1. 1 + j - 1 \in 1..Len(v) /\ o + (1 + j - 1) - 1 = o + j - 1
        BY <1>5, <2>2, <2>4, Lengths, SMTT(30), Z3T(30)
      <4>2. w[o + j - 1][2] = j
        BY <2>1 DEF Headers, IsHeader
      <4>3. v[1 + j - 1] = w[o + (1 + j - 1) - 1]
        BY <2>4, <4>1
      <4> QED BY <4>1, <4>2, <4>3
    <3> QED BY <3>1, <3>2 DEF Headers, IsHeader
  <2>9. Len(v) < PacketLen /\ Ends(v, 1) = {}
    <3>1. Len(v) + 1 < 1 + PacketLen /\ Len(v) \in Nat
      <4>1. Len(w) + 1 < o + PacketLen
        BY <2>1
      <4> QED BY <1>5, <2>5, <4>1, Lengths, SMTT(30), Z3T(30)
    <3>2. Ends(v, 1) = {}
      BY <1>3, <2>7, <2>8, <3>1, SentenceEnd
    <3> QED BY <3>1, <3>2, Lengths, SMTT(30), Z3T(30)
  <2>10. PartOK'
    <3>1. Len(v) <= PartLen
      BY <1>5, <2>2, <2>4, <2>9, Lengths, SMTT(30), Z3T(30)
    <3>2. stream' = stream
      BY <1>2
    <3> QED BY <2>5, <2>7, <2>8, <2>9, <3>1, <3>2 DEF PartOK, Stretch, Headers, IsHeader, Ends
  <2>11. OutOK'
    <3>1. Base <= Base'
      BY <1>5, <2>2, <2>6, SMTT(30), Z3T(30)
    <3> QED BY <2>1, <2>6, <3>1, <1>Stays
  <2>12. SeenOK'
    <3>1. ASSUME NEW h \in Headers(w) PROVE h = o
      <4>1. h \in Nat /\ h + HeadLen <= Len(w) + 1 /\ o <= h
        BY <1>6, <2>1
      <4>2. o < h => o + PacketLen <= h
        BY <1>4, <2>1, HeadersApart
      <4> QED BY <1>5, <2>1, <4>1, <4>2, Lengths, SMTT(30), Z3T(30)
    <3>2. Base' < Base + o /\ (Base + o) + HeadLen <= Pos' + Reach' + 1
      <4>1. Base' < Base + o /\ (Base + o) + HeadLen <= Pos + Reach + 1
        BY <1>4, <1>5, <2>2, <2>6, Lengths, SMTT(30), Z3T(30)
      <4>2. \A x : Pos + Reach <= x /\ x \in Nat => (Base + o) + HeadLen <= x + 1
        BY <1>5, <2>2, <4>1, Lengths, SMTT(30), Z3T(30)
      <4> QED BY <2>3, <4>1, <4>2
    <3> QED BY <1>2, <1>7, <1>8, <2>1, <2>2, <3>1, <3>2 DEF SeenOK
  <2> QED BY <2>3, <2>10, <2>11, <2>12 DEF RingInv
<1>11. ASSUME NEW o \in Nat, Leading(w, o), Complete(w, o) PROVE RingInv'
  <2> DEFINE p == w[o][1]
             e == o + PacketLen - 1
             m == e - Len(part)
  <2>1. /\ o \in Headers(w) /\ \A h \in Headers(w) : o <= h
        /\ o + PacketLen <= Len(w) + 1 /\ Len(part) < e
        /\ tail' = Wrap(tail + m) /\ part' = <<>> /\ out' = Append(out, p)
    <3>1. o + PacketLen - 1 - Len(part) = m
      BY <1>5, Lengths, SMTT(30), Z3T(30)
    <3>2. /\ o + PacketLen <= Len(w) + 1 /\ Len(part) < o + PacketLen - 1
          /\ tail' = Wrap(tail + (o + PacketLen - 1 - Len(part)))
          /\ part' = <<>> /\ out' = Append(out, w[o][1])
      BY <1>11 DEF Complete
    <3>3. o \in Headers(w) /\ \A h \in Headers(w) : o <= h
      BY <1>11 DEF Leading
    <3> QED BY ONLY <3>1, <3>2, <3>3, Zenon
  <2>2. 1 <= o /\ p \in 1..Len(stream) /\ p \in DOMAIN y.starts /\ y.starts[p] = Base + o
    BY <1>4, <1>6, <2>1, HeaderIsStart, SMTT(30), Z3T(30)
  <2>3. m \in Nat /\ m <= Reach /\ Pos + m = Base + e /\ e \in Nat /\ e <= Len(w)
    <3>1. o + PacketLen <= Len(w) + 1 /\ Len(part) < e
      BY <2>1
    <3> QED BY <1>4, <1>5, <3>1, Lengths, SMTT(30), Z3T(30)
  <2> HIDE DEF p, e, m
  <2>4. RingOK' /\ Pos' = Pos + m /\ Pos + Reach <= Pos' + Reach' /\ Pos' + Reach' \in Nat
    BY <1>1, <1>2, <2>1, <2>3, Advance
  <2>5. PartOK' /\ Base' = Base + e /\ Base' \in Nat
    BY <2>1, <2>3, <2>4, <1>Empty
  <2>6. Base + e \in 1..Len(stream) /\ stream[Base + e] = <<p, PacketLen>>
    <3>1. PacketLen \in 1..PacketLen /\ (Base + o) + PacketLen - 1 = Base + e
      BY <1>5, Lengths, SMTT(30), Z3T(30) DEF e
    <3>2. /\ y.starts[p] + PacketLen - 1 \in 1..y.len
          /\ Stream(y)[y.starts[p] + PacketLen - 1] = <<p, PacketLen>>
      BY <2>2, <3>1, StreamBytes
    <3> QED BY <1>3, <1>5, <2>2, <3>1, <3>2
  <2>7. /\ out \in Seq(Nat) /\ Len(out) \in Nat /\ \A a \in 1..Len(out) : out[a] \in Nat
        /\ \A a, c \in 1..Len(out) : a < c => out[a] < out[c]
        /\ \A a \in 1..Len(out) : \E q \in 1..Len(stream) : q <= Base /\ stream[q] = <<out[a], PacketLen>>
    <3>1. OutOK /\ InOrder /\ out \in Seq(Nat)
      BY <1>1 DEF OutOK
    <3>2. Len(out) \in Nat /\ \A a \in 1..Len(out) : out[a] \in Nat
      BY <3>1, SMTT(30), Z3T(30)
    <3> QED BY <3>1, <3>2 DEF OutOK, InOrder
  <2>8. /\ out' \in Seq(Nat) /\ Len(out') = Len(out) + 1 /\ out'[Len(out) + 1] = p
        /\ \A a \in 1..Len(out) : out'[a] = out[a]
    <3>1. p \in Nat
      BY <1>5, <2>2, SMTT(30), Z3T(30)
    <3> QED BY <2>1, <2>7, <3>1, AppendProperties, SMTT(30), Z3T(30)
  <2>9. ASSUME NEW a \in 1..Len(out) PROVE out[a] < p
    <3>1. PICK q \in 1..Len(stream) : q <= Base /\ stream[q] = <<out[a], PacketLen>>
      BY <2>7
    <3> DEFINE x == out[a]
    <3> HIDE DEF x
    <3>2. PacketLen \in Nat /\ PacketLen # 0 /\ q \in Nat
      BY <1>5, Lengths, SMTT(30), Z3T(30)
    <3>3. x \in DOMAIN y.starts /\ y.starts[x] + PacketLen = q + 1
      <4>1. stream[q] = <<x, PacketLen>> /\ q \in 1..y.len
        BY <1>5, <3>1 DEF x
      <4>2. Stream(y)[q] = <<x, PacketLen>>
        BY <1>3, <4>1
      <4> QED BY <3>2, <4>1, <4>2, ByteAt, ZenonT(60)
    <3>4. y.starts[x] < y.starts[p]
      <4>1. y.starts[x] \in Nat /\ q <= Base
        BY <3>1, <3>3, LayoutFacts
      <4> QED BY <1>5, <2>2, <3>2, <3>3, <4>1, Lengths, SMTT(30), Z3T(30)
    <3>5. x < p
      BY <2>2, <3>3, <3>4, LayoutFacts
    <3> QED BY <3>5 DEF x
  <2>10. OutOK'
    <3>1. InOrder'
      <4> SUFFICES ASSUME NEW a \in 1..Len(out'), NEW c \in 1..Len(out'), a < c PROVE out'[a] < out'[c]
        BY DEF InOrder
      <4>1. a \in 1..Len(out) /\ (c \in 1..Len(out) \/ c = Len(out) + 1)
        <5>1. a \in 1..(Len(out) + 1) /\ c \in 1..(Len(out) + 1) /\ a < c /\ Len(out) \in Nat
          BY <2>7, <2>8
        <5> QED BY <5>1, SMTT(30), Z3T(30)
      <4>2. CASE c \in 1..Len(out)
        BY <2>7, <2>8, <4>1, <4>2
      <4>3. CASE c = Len(out) + 1
        BY <2>8, <2>9, <4>1, <4>3
      <4> QED BY <4>1, <4>2, <4>3
    <3>2. ASSUME NEW a \in 1..Len(out')
          PROVE  \E q \in 1..Len(stream) : q <= Base' /\ stream[q] = <<out'[a], PacketLen>>
      <4>1. a \in 1..Len(out) \/ a = Len(out) + 1
        BY <2>7, <2>8, SMTT(30), Z3T(30)
      <4>2. CASE a \in 1..Len(out)
        <5>1. PICK q \in 1..Len(stream) : q <= Base /\ stream[q] = <<out[a], PacketLen>>
          BY <2>7, <4>2
        <5>2. q <= Base'
          <6>1. q \in Nat /\ q <= Base
            BY <1>5, <5>1, SMTT(30), Z3T(30)
          <6>2. q <= Base + e
            BY <1>5, <2>3, <6>1, SMTT(30), Z3T(30)
          <6> QED BY <2>5, <6>2
        <5> QED BY <2>8, <4>2, <5>1, <5>2
      <4>3. CASE a = Len(out) + 1
        <5>1. Base + e <= Base'
          BY <2>5, SMTT(30), Z3T(30)
        <5> QED BY <2>6, <2>8, <4>3, <5>1
      <4> QED BY <4>1, <4>2, <4>3
    <3> QED BY <1>2, <2>8, <3>1, <3>2 DEF OutOK
  <2>11. SeenOK'
    <3>1. ASSUME NEW x \in seen'
          PROVE  \/ \E a \in 1..Len(out') : out'[a] = x
                 \/ \E q \in 1..Len(stream) :
                       Base' < q /\ q + HeadLen <= Pos' + Reach' + 1 /\ stream[q] = <<x, 1>>
      <4>1. CASE \E a \in 1..Len(out) : out[a] = x
        <5>1. \A a \in 1..Len(out) : a \in 1..Len(out')
          BY <2>7, <2>8, SMTT(30), Z3T(30)
        <5> QED BY <2>8, <4>1, <5>1
      <4>2. ASSUME NEW h \in Headers(w), w[h][1] = x, h = o PROVE \E a \in 1..Len(out') : out'[a] = x
        <5>1. Len(out) + 1 \in 1..Len(out') /\ x = p
          BY <2>7, <2>8, <4>2, SMTT(30), Z3T(30) DEF p
        <5> QED BY <2>8, <5>1
      <4>3. ASSUME NEW h \in Headers(w), w[h][1] = x, h # o
            PROVE  \E q \in 1..Len(stream) :
                      Base' < q /\ q + HeadLen <= Pos' + Reach' + 1 /\ stream[q] = <<x, 1>>
        <5>1. /\ h \in Nat /\ h + HeadLen <= Len(w) + 1 /\ o <= h
              /\ Base + h \in 1..Len(stream) /\ stream[Base + h] = <<x, 1>>
          BY <1>6, <2>1, <4>3
        <5>2. o + PacketLen <= h
          <6>1. o < h
            BY <4>3, <5>1, SMTT(30), Z3T(30)
          <6> QED BY <1>4, <2>1, <6>1, HeadersApart
        <5>3. Base' < Base + h
          <6>1. Base + e < Base + h
            BY <1>5, <5>1, <5>2, Lengths, SMTT(30), Z3T(30) DEF e
          <6> QED BY <2>5, <6>1
        <5>4. (Base + h) + HeadLen <= Pos' + Reach' + 1
          <6>1. (Base + h) + HeadLen <= Pos + Reach + 1
            BY <1>4, <1>5, <5>1, Lengths, SMTT(30), Z3T(30)
          <6>2. \A z : Pos + Reach <= z /\ z \in Nat => (Base + h) + HeadLen <= z + 1
            BY <1>5, <5>1, <6>1, Lengths, SMTT(30), Z3T(30)
          <6> QED BY <2>4, <6>2
        <5> QED BY <5>1, <5>3, <5>4
      <4> QED BY <1>8, <4>1, <4>2, <4>3
    <3> QED BY <1>2, <1>7, <3>1 DEF SeenOK
  <2> QED BY <2>4, <2>5, <2>10, <2>11 DEF RingInv
<1>12. Nothing(w) \/ \E o \in Nat : Leading(w, o) /\ (Begun(w, o) \/ Complete(w, o))
  BY <1>1, ParseCases DEF w
<1> QED BY <1>9, <1>10, <1>11, <1>12

(* The inductive invariant.                                                *)
THEOREM Ring == Spec => []RingInv
<1>1. Init => RingInv
  BY RingInit
<1>2. RingInv /\ [Next]_vars => RingInv'
  <2> SUFFICES ASSUME RingInv, [Next]_vars PROVE RingInv'
    OBVIOUS
  <2>1. CASE Parse
    BY <2>1, ParseInv
  <2>2. CASE \E n \in 1..Lag : Receive(n)
    BY <2>2, ReceiveInv
  <2>3. CASE UNCHANGED vars
    BY <2>3, ZenonT(60) DEF vars, RingInv, RingOK, PartOK, OutOK, SeenOK, InOrder, Stretch, Headers, IsHeader, Ends, Gap, Reach,
                Pos, Base, Cell
  <2> QED BY <2>1, <2>2, <2>3 DEF Next
<1> QED BY <1>1, <1>2, PTL DEF Spec

(* A saved part is the start of a sentence: the branches of                *)
(* nmea_parse_packet for a saved part without a header are never taken, and*)
(* neither the pointers nor the part leave their arrays.                   *)
THEOREM PartStartsSentence == Spec => []PartIsHeader
<1>1. RingInv => PartIsHeader
  <2> SUFFICES ASSUME RingInv PROVE PartIsHeader
    OBVIOUS
  <2>1. RingOK /\ PartOK /\ SeenOK
    BY DEF RingInv
  <2>2. PICK y \in Layouts : stream = Stream(y)
    BY <2>1 DEF RingOK
  <2>3. TypeOK
    <3>1. Unread = Gap /\ Gap <= Lag
      BY <2>1, UnreadIsGap DEF RingOK
    <3>2. sent \in 0..Len(stream)
      BY <2>1, RingNumbers, SMTT(30), Z3T(30) DEF RingOK
    <3> QED BY <2>1, <3>1, <3>2 DEF TypeOK, RingOK, PartOK, SeenOK
  <2>4. ASSUME part # <<>> PROVE Len(part) >= HeadLen /\ IsHeader(part, 1) /\ Ends(part, 1) = {}
    <3>1. Stretch(part, Stream(y), Base) /\ 1 \in Headers(part) /\ Ends(part, 1) = {}
      BY <2>1, <2>2, <2>4 DEF PartOK
    <3>2. 1 + HeadLen <= Len(part) + 1 /\ Len(part) \in Nat
      BY <3>1, HeaderIsStart, StretchSize
    <3>3. Len(part) >= HeadLen
      BY <3>2, Lengths, SMTT(30), Z3T(30)
    <3> QED BY <3>1, <3>3 DEF Headers
  <2> QED BY <2>3, <2>4 DEF PartIsHeader
<1> QED BY <1>1, Ring, PTL

(* The sentences come out in the order the receiver sent them, none twice. *)
THEOREM SentencesInOrder == Spec => []InOrder
<1>1. RingInv => InOrder
  BY DEF RingInv, OutOK
<1> QED BY <1>1, Ring, PTL

(* Once all is read and parsed, every sentence whose header was in a look  *)
(* has come out.                                                           *)
THEOREM NoneLost == Spec => []SeenComesOut
<1>1. RingInv => SeenComesOut
  <2> SUFFICES ASSUME RingInv, sent = Len(stream), head = tail, NEW p \in seen,
                      ~ \E a \in 1..Len(out) : out[a] = p
               PROVE  FALSE
    BY DEF SeenComesOut
  <2>1. RingOK /\ PartOK /\ SeenOK
    BY DEF RingInv
  <2>2. PICK y \in Layouts : stream = Stream(y)
    BY <2>1 DEF RingOK
  <2>3. /\ Base \in Nat /\ Len(part) \in Nat /\ Len(stream) \in Nat /\ Len(stream) = Base + Len(part)
        /\ Len(stream) = y.len /\ Pos = Len(stream) /\ Reach = 0
    <3>1. head \in Nat /\ tail \in Nat /\ sent = Pos + Gap
      BY <2>1, RingNumbers
    <3>2. Gap = 0 /\ Reach = 0
      BY <3>1, SMTT(30), Z3T(30) DEF Gap, Reach
    <3>3. /\ Base \in Nat /\ Len(part) \in Nat /\ Len(stream) \in Nat /\ Pos \in Nat
          /\ Pos = Base + Len(part)
      BY <2>1, BaseFacts
    <3>4. Len(stream) = y.len
      BY <2>2, StreamBytes
    <3>5. Pos = Len(stream)
      BY <3>1, <3>2, <3>3, SMTT(30), Z3T(30)
    <3> QED BY <3>2, <3>3, <3>4, <3>5
  <2>4. PICK q \in 1..Len(stream) : Base < q /\ stream[q] = <<p, 1>>
    BY <2>1 DEF SeenOK
  <2>5. p \in DOMAIN y.starts /\ y.starts[p] + 1 = q + 1
    <3>1. 1 \in Nat /\ 1 # 0
      BY SMT
    <3>2. q \in 1..y.len /\ Stream(y)[q] = <<p, 1>>
      BY <2>2, <2>3, <2>4
    <3> QED BY <3>1, <3>2, ByteAt, ZenonT(60)
  <2>6. q \in Nat /\ y.starts[p] \in Nat /\ y.starts[p] + PacketLen <= Base + Len(part) + 1
    BY <2>3, <2>5, LayoutFacts, SMTT(30), Z3T(30)
  <2>7. q + PacketLen <= Base + Len(part) + 1 /\ Base < q
    <3>1. y.starts[p] = q /\ Base < q
      BY <2>4, <2>5, <2>6, SMTT(30), Z3T(30)
    <3> QED BY <2>6, <3>1
  <2>8. part # <<>>
    <3>1. Len(part) # 0
      BY <2>3, <2>6, <2>7, Lengths, SMTT(30), Z3T(30)
    <3> QED BY <3>1, SMTT(30), Z3T(30)
  <2>9. Stretch(part, Stream(y), Base) /\ 1 \in Headers(part) /\ Ends(part, 1) = {}
    BY <2>1, <2>2, <2>8 DEF PartOK
  <2>10. Len(part) + 1 < 1 + PacketLen
    BY <2>9, SentenceEnd
  <2> QED BY <2>3, <2>6, <2>7, <2>10, Lengths, SMTT(30), Z3T(30)
<1> QED BY <1>1, Ring, PTL
=============================================================================
