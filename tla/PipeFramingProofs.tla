-------------------------- MODULE PipeFramingProofs --------------------------
(* Proofs about PipeFraming, for any sizes of headers, pieces and messages:  *)
(* recv returns what was sent, and a pipe is a queue of messages.            *)
EXTENDS PipeFraming, SequenceTheorems, WellFoundedInduction, TLAPS

-----------------------------------------------------------------------------
(* Induction over the numbers, as a fact about sets.                         *)

LEMMA LeastElement ==
  ASSUME NEW T, T \subseteq Nat, T # {}
  PROVE  \E m \in T : \A n \in T : m <= n
<1> DEFINE R == {ss \in Nat \X Nat : ss[1] < ss[2]}
<1>1. IsWellFoundedOn(R, Nat)
  BY NatLessThanWellFounded DEF OpToRel
<1>2. \A x, y \in Nat : x < y => <<x, y>> \in R
  OBVIOUS
<1> HIDE DEF R
<1>3. \E x \in T : \A y \in T : <<y, x>> \notin R
  BY <1>1, WFMin
<1>4. PICK x \in T : \A y \in T : <<y, x>> \notin R
  BY <1>3
<1>5. ASSUME NEW n \in T PROVE x <= n
  <2>1. x \in Nat /\ n \in Nat
    OBVIOUS
  <2>2. ~(n < x)
    BY <1>2, <1>4, <2>1
  <2> QED BY <2>1, <2>2
<1> QED BY <1>5

LEMMA InductionOnNat ==
  ASSUME NEW S, 0 \in S, \A n \in Nat : n \in S => n + 1 \in S
  PROVE  Nat \subseteq S
<1>1. SUFFICES ASSUME Nat \ S # {} PROVE FALSE
  OBVIOUS
<1>2. PICK m \in Nat \ S : \A n \in Nat \ S : m <= n
  BY <1>1, LeastElement
<1>3. m # 0 /\ m - 1 \in Nat /\ m - 1 \in S
  BY <1>2
<1> QED BY <1>2, <1>3

-----------------------------------------------------------------------------
(* Decode is the function it is written as: a value depends on later         *)
(* positions only.                                                           *)

LEMMA FittingProps ==
  ASSUME NEW bytes, NEW p, NEW length \in Fitting(bytes, p)
  PROVE  /\ length \in 1 .. MaxLength
         /\ p + HeaderSize - 1 <= Len(bytes)
         /\ SubSeq(bytes, p, p + HeaderSize - 1) = Header(length)
         /\ MessageEnd(p, length) <= Len(bytes)
BY DEF Fitting, IsHeader

LEMMA LaterPositions ==
  ASSUME NEW bytes, Len(bytes) \in Nat, NEW p \in 1 .. Len(bytes) + 1, NEW f, NEW g,
         \A q \in p + 1 .. Len(bytes) + 1 : f[q] = g[q]
  PROVE  MessagesFrom(bytes, p, f) = MessagesFrom(bytes, p, g)
<1>1. CASE p > Len(bytes)
  BY <1>1 DEF MessagesFrom
<1>2. CASE ~(p > Len(bytes)) /\ Fitting(bytes, p) = {}
  BY <1>2 DEF MessagesFrom
<1>3. CASE ~(p > Len(bytes)) /\ Fitting(bytes, p) # {}
  <2> DEFINE length == CHOOSE length \in Fitting(bytes, p) : TRUE
             q == MessageEnd(p, length) + 1
  <2>1. length \in Fitting(bytes, p)
    BY <1>3
  <2> HIDE DEF length
  <2>2. length \in 1 .. MaxLength /\ MessageEnd(p, length) <= Len(bytes)
    BY <2>1, FittingProps
  <2>3. q \in p + 1 .. Len(bytes) + 1
    BY <2>2, SizesAssumption DEF MessageEnd
  <2>4. f[q] = g[q]
    BY <2>3
  <2> HIDE DEF q
  <2>5. MessagesFrom(bytes, p, f) =
          [messages |-> <<SubSeq(bytes, p + HeaderSize, MessageEnd(p, length))>> \o f[q].messages,
           ok |-> f[q].ok]
    BY <1>3 DEF MessagesFrom, length, q
  <2>6. MessagesFrom(bytes, p, g) =
          [messages |-> <<SubSeq(bytes, p + HeaderSize, MessageEnd(p, length))>> \o g[q].messages,
           ok |-> g[q].ok]
    BY <1>3 DEF MessagesFrom, length, q
  <2> QED
    BY <2>4, <2>5, <2>6
<1> QED
  BY <1>1, <1>2, <1>3

LEMMA RestExists ==
  ASSUME NEW bytes, Len(bytes) \in Nat
  PROVE  \E rest : rest = [p \in 1 .. Len(bytes) + 1 |-> MessagesFrom(bytes, p, rest)]
<1> DEFINE N == Len(bytes) + 1
           IsRest(g, q) == g = [p \in q .. N |-> MessagesFrom(bytes, p, g)]
           S == {n \in Nat : n < N => \E g : IsRest(g, N - n)}
<1>1. 0 \in S
  <2> DEFINE g == [p \in N .. N |-> [messages |-> <<>>, ok |-> TRUE]]
  <2>1. \A p \in N .. N : p > Len(bytes)
    OBVIOUS
  <2>2. \A p \in N .. N : MessagesFrom(bytes, p, g) = [messages |-> <<>>, ok |-> TRUE]
    BY <2>1 DEF MessagesFrom
  <2>3. g = [p \in N .. N |-> MessagesFrom(bytes, p, g)]
    BY <2>2
  <2>4. N - 0 = N
    OBVIOUS
  <2>5. IsRest(g, N - 0)
    BY <2>3, <2>4
  <2> QED
    BY <2>5
<1>2. ASSUME NEW n \in Nat, n \in S PROVE n + 1 \in S
  <2>1. SUFFICES ASSUME n + 1 < N PROVE \E g : IsRest(g, N - (n + 1))
    OBVIOUS
  <2>2. n < N
    BY <2>1
  <2>3. PICK f : IsRest(f, N - n)
    BY <1>2, <2>2
  <2> DEFINE q == N - (n + 1)
             g == [p \in q .. N |-> IF p = q THEN MessagesFrom(bytes, q, f) ELSE f[p]]
  <2>4. /\ q \in 1 .. N /\ N - n = q + 1 /\ q .. N = {q} \cup (q + 1 .. N)
        /\ q \notin q + 1 .. N /\ q \in Nat /\ N \in Nat
    BY <2>1
  <2>5. \A p \in q + 1 .. N : g[p] = f[p] /\ f[p] = MessagesFrom(bytes, p, f)
    BY <2>3, <2>4
  <2>6. g[q] = MessagesFrom(bytes, q, f)
    BY <2>4
  <2>7. \A p \in q .. N : g[p] = MessagesFrom(bytes, p, f)
    BY <2>4, <2>5, <2>6
  <2>8. ASSUME NEW p \in q .. N PROVE MessagesFrom(bytes, p, f) = MessagesFrom(bytes, p, g)
    <3>1. p \in 1 .. Len(bytes) + 1 /\ \A x \in p + 1 .. Len(bytes) + 1 : x \in q + 1 .. N
      BY <2>4
    <3>2. \A x \in p + 1 .. Len(bytes) + 1 : f[x] = g[x]
      BY <2>5, <3>1
    <3> HIDE DEF g, N
    <3> QED
      BY <3>1, <3>2, LaterPositions
  <2>9. g = [p \in q .. N |-> g[p]]
    OBVIOUS
  <2>10. IsRest(g, q)
    <3> HIDE DEF N, q
    <3>1. \A p \in q .. N : g[p] = MessagesFrom(bytes, p, g)
      BY <2>7, <2>8
    <3> HIDE DEF g
    <3> QED
      BY <2>9, <3>1
  <2> QED
    BY <2>10
<1> HIDE DEF IsRest
<1>3. Nat \subseteq S
  BY <1>1, <1>2, InductionOnNat
<1>4. N - 1 \in Nat /\ N - 1 < N /\ N - (N - 1) = 1
  OBVIOUS
<1>5. \E g : IsRest(g, 1)
  <2>1. N - 1 \in S
    BY <1>3, <1>4
  <2> QED
    BY <1>4, <2>1
<1> QED
  BY <1>5 DEF IsRest

LEMMA DecodeIsFunction ==
  ASSUME NEW bytes, Len(bytes) \in Nat
  PROVE  \E rest : /\ rest = [p \in 1 .. Len(bytes) + 1 |-> MessagesFrom(bytes, p, rest)]
                   /\ Decode(bytes) = rest[1]
<1> DEFINE IsRest(g) == g = [p \in 1 .. Len(bytes) + 1 |-> MessagesFrom(bytes, p, g)]
           R == CHOOSE g : IsRest(g)
<1>1. \E g : IsRest(g)
  BY RestExists
<1>2. Decode(bytes) = R[1]
  BY DEF Decode
<1> HIDE DEF IsRest
<1>3. IsRest(R)
  BY <1>1
<1> HIDE DEF R
<1> QED
  BY <1>2, <1>3 DEF IsRest

-----------------------------------------------------------------------------
(* The frames of messages in a sequence of bytes.                            *)

LEMMA HeaderProps ==
  ASSUME NEW length \in 1 .. MaxLength
  PROVE  /\ Header(length) \in Seq(Byte) /\ Len(Header(length)) = HeaderSize
         /\ \A j \in 1 .. HeaderSize : Header(length)[j] = [part |-> j, length |-> length]
<1>1. \A j \in 1 .. HeaderSize : [part |-> j, length |-> length] \in Byte
  BY DEF Byte
<1>2. Header(length) \in [1 .. HeaderSize -> Byte]
  BY <1>1 DEF Header
<1>3. Header(length) \in Seq(Byte) /\ Len(Header(length)) = HeaderSize
  BY <1>2, SizesAssumption
<1> QED
  BY <1>3 DEF Header

LEMMA MessageProps ==
  ASSUME NEW message \in Message
  PROVE  message \in Seq(Byte) /\ Len(message) \in 1 .. MaxLength
<1>1. PICK n \in 1 .. MaxMessages, length \in 1 .. MaxLength : message = Body(n, length)
  BY DEF Message
<1>2. \A j \in 1 .. length : [message |-> n, byte |-> j] \in Byte
  <2> TAKE j \in 1 .. length
  <2>1. j \in 1 .. MaxLength
    BY SizesAssumption
  <2> QED
    BY <2>1 DEF Byte
<1>3. message \in [1 .. length -> Byte]
  BY <1>1, <1>2 DEF Body
<1>4. length \in Nat
  OBVIOUS
<1> QED
  BY <1>3, <1>4

(* The messages of s follow each other in the bytes, each behind its header; *)
(* ends says where each one ends.                                            *)
Frames(ends, s, bytes) ==
  /\ ends \in [0 .. Len(s) -> Nat]
  /\ ends[0] = 0 /\ ends[Len(s)] = Len(bytes)
  /\ \A i, j \in 0 .. Len(s) : i < j => ends[i] < ends[j]
  /\ \A k \in 1 .. Len(s) :
       /\ ends[k] = ends[k - 1] + HeaderSize + Len(s[k])
       /\ \A j \in 1 .. HeaderSize :
            bytes[ends[k - 1] + j] = [part |-> j, length |-> Len(s[k])]
       /\ \A j \in 1 .. Len(s[k]) : bytes[ends[k - 1] + HeaderSize + j] = s[k][j]

(* A message that is there is found, and nothing else.                       *)
LEMMA MessageFits ==
  ASSUME NEW bytes \in Seq(Byte), NEW p \in Nat \ {0}, NEW message \in Message,
         MessageEnd(p, Len(message)) <= Len(bytes),
         \A j \in 1 .. HeaderSize : bytes[p + j - 1] = [part |-> j, length |-> Len(message)],
         \A j \in 1 .. Len(message) : bytes[p + HeaderSize + j - 1] = message[j]
  PROVE  /\ Fitting(bytes, p) = {Len(message)}
         /\ SubSeq(bytes, p + HeaderSize, MessageEnd(p, Len(message))) = message
<1> DEFINE L == Len(message)
<1>1. message \in Seq(Byte) /\ L \in 1 .. MaxLength /\ L \in Nat /\ HeaderSize \in Nat \ {0}
  BY MessageProps, SizesAssumption
<1>2. p + HeaderSize + L - 1 <= Len(bytes) /\ Len(bytes) \in Nat
  BY DEF MessageEnd
<1>3. ASSUME NEW length \in Fitting(bytes, p) PROVE length = L
  <2> DEFINE h == SubSeq(bytes, p, p + HeaderSize - 1)
  <2>1. length \in 1 .. MaxLength /\ h = Header(length)
    BY FittingProps
  <2>2. h[1] = bytes[p]
    <3>1. \A i \in p .. p + HeaderSize - 1 : bytes[i] \in Byte
      BY <1>1, <1>2
    <3>2. \A i \in 1 .. (p + HeaderSize - 1) - p + 1 : h[i] = bytes[p + i - 1]
      BY <1>1, <3>1, SubSeqProperties
    <3>3. 1 \in 1 .. (p + HeaderSize - 1) - p + 1 /\ p + 1 - 1 = p
      BY <1>1
    <3> HIDE DEF h
    <3> QED
      BY <3>2, <3>3
  <2> HIDE DEF h
  <2>3. 1 \in 1 .. HeaderSize /\ p + 1 - 1 = p
    BY <1>1
  <2>4. h[1] = [part |-> 1, length |-> length]
    BY <2>1, <2>3, HeaderProps
  <2>5. bytes[p] = [part |-> 1, length |-> L]
    BY <2>3
  <2>6. [part |-> 1, length |-> length].length = [part |-> 1, length |-> L].length
    BY <2>2, <2>4, <2>5
  <2> QED
    BY <2>6
<1>4. SubSeq(bytes, p, p + HeaderSize - 1) = Header(L)
  <2> DEFINE h == SubSeq(bytes, p, p + HeaderSize - 1)
  <2>1. \A i \in p .. p + HeaderSize - 1 : bytes[i] \in Byte
    BY <1>1, <1>2
  <2>2. /\ h \in Seq(Byte)
        /\ Len(h) = IF p <= p + HeaderSize - 1 THEN (p + HeaderSize - 1) - p + 1 ELSE 0
        /\ \A i \in 1 .. (p + HeaderSize - 1) - p + 1 : h[i] = bytes[p + i - 1]
    BY <1>1, <2>1, SubSeqProperties
  <2>3. p <= p + HeaderSize - 1 /\ (p + HeaderSize - 1) - p + 1 = HeaderSize
    BY <1>1
  <2>4. Header(L) \in Seq(Byte) /\ Len(Header(L)) = HeaderSize
        /\ \A j \in 1 .. HeaderSize : Header(L)[j] = [part |-> j, length |-> L]
    BY <1>1, HeaderProps
  <2> HIDE DEF h, L
  <2>5. Len(h) = HeaderSize /\ \A i \in 1 .. HeaderSize : h[i] = bytes[p + i - 1]
    BY <2>2, <2>3
  <2>6. \A i \in 1 .. HeaderSize : h[i] = Header(L)[i]
    BY <2>4, <2>5 DEF L
  <2>7. h = Header(L)
    BY <2>2, <2>4, <2>5, <2>6, SeqEqual
  <2> QED
    BY <2>7 DEF h
<1>5. L \in Fitting(bytes, p)
  BY <1>1, <1>2, <1>4 DEF Fitting, IsHeader, MessageEnd
<1>6. SubSeq(bytes, p + HeaderSize, p + HeaderSize + L - 1) = message
  <2> DEFINE m == SubSeq(bytes, p + HeaderSize, p + HeaderSize + L - 1)
  <2>1. \A i \in p + HeaderSize .. p + HeaderSize + L - 1 : bytes[i] \in Byte
    BY <1>1, <1>2
  <2>2. /\ m \in Seq(Byte)
        /\ Len(m) = IF p + HeaderSize <= p + HeaderSize + L - 1
                     THEN (p + HeaderSize + L - 1) - (p + HeaderSize) + 1 ELSE 0
        /\ \A i \in 1 .. (p + HeaderSize + L - 1) - (p + HeaderSize) + 1 :
             m[i] = bytes[p + HeaderSize + i - 1]
    BY <1>1, <2>1, SubSeqProperties
  <2>3. /\ p + HeaderSize <= p + HeaderSize + L - 1
        /\ (p + HeaderSize + L - 1) - (p + HeaderSize) + 1 = L
    BY <1>1
  <2> HIDE DEF m
  <2>4. Len(m) = L /\ \A i \in 1 .. L : m[i] = bytes[p + HeaderSize + i - 1]
    BY <2>2, <2>3
  <2>5. \A i \in 1 .. L : m[i] = message[i]
    BY <2>4
  <2>6. m = message
    BY <1>1, <2>2, <2>4, <2>5, SeqEqual
  <2> QED
    BY <2>6 DEF m
<1> QED
  BY <1>3, <1>5, <1>6 DEF MessageEnd

(* Two sequences of bytes behind each other.                                 *)
LEMMA BytesConcat ==
  ASSUME NEW p \in Seq(Byte), NEW q \in Seq(Byte)
  PROVE  /\ p \o q \in Seq(Byte)
         /\ Len(p) \in Nat /\ Len(q) \in Nat
         /\ Len(p \o q) = Len(p) + Len(q)
         /\ \A i \in 1 .. Len(p) : (p \o q)[i] = p[i]
         /\ \A i \in 1 .. Len(q) : (p \o q)[Len(p) + i] = q[i]
<1>1. /\ p \o q \in Seq(Byte)
      /\ Len(p \o q) = Len(p) + Len(q)
      /\ \A i \in 1 .. Len(p) + Len(q) :
           (p \o q)[i] = IF i <= Len(p) THEN p[i] ELSE q[i - Len(p)]
  BY ConcatProperties
<1>2. Len(p) \in Nat /\ Len(q) \in Nat
  BY LenProperties
<1>3. \A i \in 1 .. Len(p) : (p \o q)[i] = p[i]
  BY <1>1, <1>2
<1>4. \A i \in 1 .. Len(q) : (p \o q)[Len(p) + i] = q[i]
  <2> TAKE i \in 1 .. Len(q)
  <2>1. /\ Len(p) + i \in 1 .. Len(p) + Len(q)
        /\ ~(Len(p) + i <= Len(p)) /\ (Len(p) + i) - Len(p) = i
    BY <1>2
  <2>2. (p \o q)[Len(p) + i] =
          IF Len(p) + i <= Len(p) THEN (p \o q)[Len(p) + i] ELSE q[(Len(p) + i) - Len(p)]
    BY <1>1, <2>1
  <2> QED BY <2>1, <2>2
<1> QED
  BY <1>1, <1>2, <1>3, <1>4

(* The bytes n + 1 to m of a sequence.                                       *)
LEMMA Piece ==
  ASSUME NEW bytes \in Seq(Byte), NEW n \in Nat, NEW m \in n .. Len(bytes)
  PROVE  /\ SubSeq(bytes, n + 1, m) \in Seq(Byte)
         /\ Len(SubSeq(bytes, n + 1, m)) = m - n
         /\ \A i \in 1 .. m - n : SubSeq(bytes, n + 1, m)[i] = bytes[n + i]
<1> DEFINE b == SubSeq(bytes, n + 1, m)
<1>1. Len(bytes) \in Nat /\ m \in Nat /\ n <= m
  OBVIOUS
<1>2. \A i \in n + 1 .. m : bytes[i] \in Byte
  BY <1>1
<1>3. /\ b \in Seq(Byte)
      /\ Len(b) = IF n + 1 <= m THEN m - (n + 1) + 1 ELSE 0
      /\ \A i \in 1 .. m - (n + 1) + 1 : b[i] = bytes[(n + 1) + i - 1]
  BY <1>1, <1>2, SubSeqProperties
<1> HIDE DEF b
<1>4. Len(b) = m - n /\ m - (n + 1) + 1 = m - n
  BY <1>1, <1>3
<1>5. \A i \in 1 .. m - n : (n + 1) + i - 1 = n + i
  BY <1>1
<1>6. \A i \in 1 .. m - n : b[i] = bytes[n + i]
  BY <1>3, <1>4, <1>5
<1> QED
  BY <1>3, <1>4, <1>6 DEF b

(* A message that is not there to its end is not found.                      *)
LEMMA NothingFits ==
  ASSUME NEW bytes \in Seq(Byte), NEW p \in 1 .. Len(bytes), NEW L \in Nat,
         bytes[p] = [part |-> 1, length |-> L], MessageEnd(p, L) > Len(bytes)
  PROVE  Fitting(bytes, p) = {}
<1>1. SUFFICES ASSUME NEW length \in Fitting(bytes, p) PROVE FALSE
  OBVIOUS
<1> DEFINE h == SubSeq(bytes, p, p + HeaderSize - 1)
<1>2. /\ length \in 1 .. MaxLength /\ p + HeaderSize - 1 <= Len(bytes)
      /\ h = Header(length) /\ MessageEnd(p, length) <= Len(bytes)
  BY <1>1, FittingProps
<1>3. HeaderSize \in Nat \ {0} /\ Len(bytes) \in Nat
  BY SizesAssumption
<1>4. h[1] = bytes[p]
  <2> DEFINE n == p - 1
             m == p + HeaderSize - 1
  <2>1. /\ n \in Nat /\ n + 1 = p /\ m \in n .. Len(bytes)
        /\ 1 \in 1 .. m - n
    BY <1>2, <1>3
  <2> HIDE DEF n
  <2>2. \A i \in 1 .. m - n : SubSeq(bytes, n + 1, m)[i] = bytes[n + i]
    BY <2>1, Piece
  <2> QED
    BY <2>1, <2>2
<1> HIDE DEF h
<1>5. h[1] = [part |-> 1, length |-> length]
  BY <1>2, <1>3, HeaderProps
<1>6. [part |-> 1, length |-> length].length = [part |-> 1, length |-> L].length
  BY <1>4, <1>5
<1>7. length = L
  BY <1>6
<1> QED
  BY <1>2, <1>7, <1>3 DEF MessageEnd

(* recv cuts the bytes from the end of message r up to a place between the   *)
(* ends of m and of the next into the messages after r up to m; it gives up  *)
(* unless the place is the end of m.                                         *)
LEMMA FramesAreDecoded ==
  ASSUME NEW bytes \in Seq(Byte), NEW s \in Seq(Message), NEW ends, Frames(ends, s, bytes),
         NEW r \in 0 .. Len(s), NEW m \in r .. Len(s), NEW top \in 0 .. Len(bytes),
         ends[m] <= top, m < Len(s) => top < ends[m + 1]
  PROVE  Decode(SubSeq(bytes, ends[r] + 1, top)) =
           [messages |-> SubSeq(s, r + 1, m), ok |-> top = ends[m]]
<1> DEFINE part == SubSeq(bytes, ends[r] + 1, top)
           Place(k) == ends[k] - ends[r] + 1
<1>1. /\ Len(s) \in Nat /\ Len(bytes) \in Nat /\ r \in Nat /\ m \in Nat /\ top \in Nat
      /\ HeaderSize \in Nat \ {0}
  BY SizesAssumption
<1>2. \A k \in 0 .. Len(s) : ends[k] \in Nat
  BY DEF Frames
<1>3. \A k \in r .. m : k \in 0 .. Len(s) /\ ends[r] <= ends[k] /\ ends[k] <= ends[m]
  <2> TAKE k \in r .. m
  <2>1. k \in 0 .. Len(s) /\ r \in 0 .. Len(s) /\ m \in 0 .. Len(s)
    BY <1>1
  <2>2. (r < k => ends[r] < ends[k]) /\ (k < m => ends[k] < ends[m])
    BY <2>1 DEF Frames
  <2>3. ends[r] \in Nat /\ ends[k] \in Nat /\ ends[m] \in Nat
    BY <1>2, <2>1
  <2> QED
    BY <1>1, <2>1, <2>2, <2>3
<1>4. ends[r] \in Nat /\ ends[m] \in Nat /\ ends[r] <= ends[m] /\ ends[r] <= top
  BY <1>1, <1>2, <1>3
<1>5. /\ part \in Seq(Byte) /\ Len(part) = top - ends[r]
      /\ \A i \in 1 .. Len(part) : part[i] = bytes[ends[r] + i]
  <2>1. ends[r] \in Nat /\ top \in ends[r] .. Len(bytes)
    BY <1>1, <1>4
  <2> QED
    BY <2>1, Piece
<1> HIDE DEF part
<1>6. Len(part) = top - ends[r] /\ Len(part) \in Nat
  BY <1>1, <1>4, <1>5
<1>7. PICK rest : /\ rest = [p \in 1 .. Len(part) + 1 |-> MessagesFrom(part, p, rest)]
                  /\ Decode(part) = rest[1]
  <2>1. Len(part) \in Nat
    BY <1>1, <1>4, <1>5
  <2> QED
    BY <2>1, DecodeIsFunction
<1>8. \A k \in r .. m : /\ Place(k) \in 1 .. Len(part) + 1
                        /\ rest[Place(k)] = MessagesFrom(part, Place(k), rest)
  <2> TAKE k \in r .. m
  <2>1. ends[r] <= ends[k] /\ ends[k] <= top /\ ends[k] \in Nat
    BY <1>1, <1>2, <1>3, <1>4
  <2>2. Place(k) \in 1 .. Len(part) + 1
    <3> DEFINE a == ends[k]
               b == ends[r]
    <3>1. a \in Nat /\ b \in Nat /\ b <= a /\ a <= top /\ Len(part) = top - b
      BY <1>4, <1>6, <2>1
    <3> HIDE DEF a, b
    <3>2. a - b + 1 \in 1 .. Len(part) + 1
      BY <1>1, <3>1
    <3> QED
      BY <3>2 DEF a, b
  <2> HIDE DEF Place
  <2> QED
    BY <1>7, <2>2
<1> DEFINE Decoded(k) == rest[Place(k)] = [messages |-> SubSeq(s, k + 1, m), ok |-> top = ends[m]]
<1>9. Decoded(m)
  <2>1. SubSeq(s, m + 1, m) = <<>>
    BY <1>1, SubSeqEmpty
  <2>2. m \in r .. m
    BY <1>1
  <2>3. CASE top = ends[m]
    <3>1. Place(m) > Len(part)
      BY <1>4, <1>5, <2>3
    <3>2. rest[Place(m)] = [messages |-> <<>>, ok |-> TRUE]
      BY <1>8, <2>2, <3>1 DEF MessagesFrom
    <3> HIDE DEF Place
    <3> QED
      BY <2>1, <2>3, <3>2
  <2>4. CASE top # ends[m]
    <3>1. m < Len(s)
      BY <1>1, <1>4, <2>4 DEF Frames
    <3> DEFINE L == Len(s[m + 1])
    <3>2. m + 1 \in 1 .. Len(s) /\ (m + 1) - 1 = m /\ s[m + 1] \in Message
      BY <1>1, <3>1
    <3>3. L \in Nat
      BY <3>2, MessageProps
    <3> HIDE DEF L
    <3>4. /\ ends[m + 1] = ends[m] + HeaderSize + L
          /\ bytes[ends[m] + 1] = [part |-> 1, length |-> L]
      <4>1. 1 \in 1 .. HeaderSize
        BY <1>1
      <4> QED
        BY <3>2, <4>1 DEF Frames, L
    <3>5. top < ends[m + 1] /\ ends[m] < top
      BY <1>1, <1>4, <2>4, <3>1
    <3>6. Place(m) \in 1 .. Len(part)
      BY SMTT(30), <1>1, <1>4, <1>5, <3>5
    <3>7. part[Place(m)] = bytes[ends[m] + 1]
      <4>1. ends[r] + Place(m) = ends[m] + 1
        BY <1>4
      <4> HIDE DEF Place
      <4> QED
        BY <1>5, <3>6, <4>1
    <3>8. MessageEnd(Place(m), L) > Len(part)
      <4>1. MessageEnd(Place(m), L) = ends[m] - ends[r] + HeaderSize + L
        BY SMTT(30), <1>1, <1>4, <3>3 DEF MessageEnd
      <4>2. ends[m + 1] = ends[m] + HeaderSize + L /\ top < ends[m + 1]
        BY <3>4, <3>5
      <4>3. Len(part) = top - ends[r] /\ L \in Nat
        BY <1>5, <3>3
      <4> DEFINE x == ends[m]
      <4> DEFINE y == ends[r]
      <4> DEFINE z == ends[m + 1]
      <4> DEFINE e == MessageEnd(Place(m), L)
      <4> DEFINE w == Len(part)
      <4>4. /\ x \in Nat /\ y \in Nat /\ top \in Nat /\ HeaderSize \in Nat /\ L \in Nat
            /\ e = x - y + HeaderSize + L /\ z = x + HeaderSize + L /\ top < z /\ w = top - y
        BY <1>1, <1>4, <4>1, <4>2, <4>3
      <4> HIDE DEF x, y, z, e, w
      <4>5. e > w
        BY <4>4
      <4> QED
        BY <4>5 DEF e, w
    <3> HIDE DEF Place
    <3>9. Fitting(part, Place(m)) = {}
      BY <1>5, <3>3, <3>4, <3>6, <3>7, <3>8, NothingFits
    <3>10. ~(Place(m) > Len(part))
      BY <1>5, <3>6
    <3>11. rest[Place(m)] = [messages |-> <<>>, ok |-> FALSE]
      BY <1>8, <2>2, <3>9, <3>10 DEF MessagesFrom
    <3> QED
      BY <2>1, <2>4, <3>11
  <2> QED
    BY <2>3, <2>4
<1>10. ASSUME NEW k \in r .. m, k > r, Decoded(k) PROVE Decoded(k - 1)
  <2> DEFINE L == Len(s[k])
  <2>1. /\ k \in 1 .. Len(s) /\ k - 1 \in r .. m /\ s[k] \in Message /\ (k - 1) + 1 = k
        /\ k \in Nat /\ k <= m
    BY <1>1, <1>10
  <2>2. L \in Nat
    BY <2>1, MessageProps
  <2> HIDE DEF L
  <2>3. /\ ends[k] = ends[k - 1] + HeaderSize + L
        /\ \A j \in 1 .. HeaderSize : bytes[ends[k - 1] + j] = [part |-> j, length |-> L]
        /\ \A j \in 1 .. L : bytes[ends[k - 1] + HeaderSize + j] = s[k][j]
    BY <2>1 DEF Frames, L
  <2> DEFINE p == Place(k - 1)
  <2>4. /\ ends[k - 1] \in Nat /\ ends[k] \in Nat /\ ends[k] <= top /\ ends[r] <= ends[k - 1]
    BY <1>1, <1>2, <1>3, <1>4, <2>1
  <2>5. /\ p \in Nat \ {0} /\ p <= Len(part) /\ MessageEnd(p, L) + 1 = Place(k)
        /\ MessageEnd(p, L) <= Len(part)
        /\ \A j \in 1 .. HeaderSize :
             p + j - 1 \in 1 .. Len(part) /\ ends[r] + (p + j - 1) = ends[k - 1] + j
        /\ \A j \in 1 .. L :
             /\ p + HeaderSize + j - 1 \in 1 .. Len(part)
             /\ ends[r] + (p + HeaderSize + j - 1) = ends[k - 1] + HeaderSize + j
    <3> DEFINE a == ends[k - 1]
               b == ends[k]
               c == ends[r]
    <3>1. /\ a \in Nat /\ b \in Nat /\ c \in Nat /\ c <= a /\ b = a + HeaderSize + L
          /\ b <= top /\ Len(part) = top - c
      BY <1>4, <1>6, <2>3, <2>4
    <3> HIDE DEF a, b, c
    <3>2. b <= c + Len(part)
      BY <1>1, <3>1
    <3> QED
      <4>1. p = a - c + 1 /\ Place(k) = b - c + 1
        BY DEF a, b, c
      <4> HIDE DEF p, Place
      <4> QED
        <5> DEFINE h == HeaderSize
                   w == Len(part)
                   e == MessageEnd(p, L)
        <5>1. /\ a \in Nat /\ b \in Nat /\ c \in Nat /\ c <= a /\ h \in Nat \ {0} /\ L \in Nat
              /\ b = a + h + L /\ b <= c + w /\ w \in Nat /\ p = a - c + 1 /\ e = p + h + L - 1
          BY <1>1, <1>6, <2>2, <3>1, <3>2, <4>1 DEF MessageEnd
        <5> HIDE DEF h, w, e
        <5>2. p \in Nat \ {0} /\ p <= w /\ e + 1 = b - c + 1 /\ e <= w
          BY <5>1
        <5>3. \A j \in 1 .. h : p + j - 1 \in 1 .. w /\ c + (p + j - 1) = a + j
          BY <5>1
        <5>4. \A j \in 1 .. L : /\ p + h + j - 1 \in 1 .. w
                               /\ c + (p + h + j - 1) = a + h + j
          BY <5>1
        <5> QED
          BY <4>1, <5>2, <5>3, <5>4 DEF a, c, h, w, e
  <2>6. \A j \in 1 .. HeaderSize : part[p + j - 1] = [part |-> j, length |-> L]
    <3> HIDE DEF p, Place
    <3> TAKE j \in 1 .. HeaderSize
    <3>1. p + j - 1 \in 1 .. Len(part) /\ ends[r] + (p + j - 1) = ends[k - 1] + j
      BY <2>5
    <3>2. part[p + j - 1] = bytes[ends[r] + (p + j - 1)]
      BY <1>5, <3>1
    <3> QED
      BY <2>3, <3>1, <3>2
  <2>7. \A j \in 1 .. L : part[p + HeaderSize + j - 1] = s[k][j]
    <3> HIDE DEF p, Place
    <3> TAKE j \in 1 .. L
    <3>1. /\ p + HeaderSize + j - 1 \in 1 .. Len(part)
          /\ ends[r] + (p + HeaderSize + j - 1) = ends[k - 1] + HeaderSize + j
      BY <2>5
    <3>2. part[p + HeaderSize + j - 1] = bytes[ends[r] + (p + HeaderSize + j - 1)]
      BY <1>5, <3>1
    <3> QED
      BY <2>3, <3>1, <3>2
  <2>8. Fitting(part, p) = {L} /\ SubSeq(part, p + HeaderSize, MessageEnd(p, L)) = s[k]
    <3> HIDE DEF p, Place
    <3> QED
      BY <1>5, <2>1, <2>5, <2>6, <2>7, MessageFits DEF L
  <2>9. MessagesFrom(part, p, rest) =
          [messages |-> <<s[k]>> \o rest[Place(k)].messages, ok |-> rest[Place(k)].ok]
    <3> HIDE DEF p, Place
    <3>1. ~(p > Len(part))
      BY <1>1, <1>4, <1>5, <2>5
    <3>2. Fitting(part, p) # {} /\ (CHOOSE length \in Fitting(part, p) : TRUE) = L
      BY <2>8
    <3> QED
      BY <2>5, <2>8, <3>1, <3>2 DEF MessagesFrom
  <2>10. rest[Place(k - 1)] =
           [messages |-> <<s[k]>> \o SubSeq(s, k + 1, m), ok |-> top = ends[m]]
    <3> HIDE DEF Place
    <3> QED
      BY <1>8, <1>10, <2>1, <2>9
  <2>11. SubSeq(s, k, m) = <<s[k]>> \o SubSeq(s, k + 1, m)
    BY <1>1, <2>1, SubSeqRecursiveFirst
  <2> QED
    BY <2>1, <2>10, <2>11
<1> HIDE DEF Decoded
<1>11. \A n \in Nat : n <= m - r => Decoded(m - n)
  <2> DEFINE S == {n \in Nat : n <= m - r => Decoded(m - n)}
  <2>1. 0 \in S
    <3>1. m - 0 = m
      BY <1>1
    <3> QED
      BY <1>9, <3>1
  <2>2. ASSUME NEW n \in Nat, n \in S PROVE n + 1 \in S
    <3>1. SUFFICES ASSUME n + 1 <= m - r PROVE Decoded(m - (n + 1))
      OBVIOUS
    <3>2. n <= m - r /\ m - n \in r .. m /\ m - n > r /\ (m - n) - 1 = m - (n + 1)
      BY <1>1, <3>1
    <3>3. Decoded(m - n)
      BY <2>2, <3>2
    <3>4. Decoded((m - n) - 1)
      BY <1>10, <3>2, <3>3
    <3> QED
      BY <3>2, <3>4
  <2>3. Nat \subseteq S
    BY <2>1, <2>2, InductionOnNat
  <2> QED
    BY <2>3
<1>12. Decoded(r)
  <2>1. m - r \in Nat /\ m - r <= m - r /\ m - (m - r) = r
    BY <1>1
  <2> QED
    BY <1>11, <2>1
<1>13. Place(r) = 1
  BY <1>4
<1> QED
  BY <1>7, <1>12, <1>13 DEF Decoded, part

-----------------------------------------------------------------------------
(* The invariant.                                                            *)

Complete(s, p) == IF p = <<>> THEN Len(s) ELSE Len(s) - 1

(* The file and what is not visible yet are the frames of what was sent, of  *)
(* which the last may be in part visible; the handle is behind the message   *)
(* that was received last, by what recv_raw has in hand.                     *)
PipeHolds(ends) ==
  /\ Frames(ends, sent, file \o pending)
  /\ pending # <<>> => /\ Len(sent) > 0 /\ ends[Len(sent) - 1] <= Len(file)
                       /\ ends[Len(sent) - 1] < Len(file) => torn
  /\ ~malformed /\ ~reading => offset = ends[Len(received)]
  /\ reading => /\ offset = ends[Len(received)] + Len(output)
                /\ \A i \in 1 .. Len(output) : output[i] = file[ends[Len(received)] + i]

IInv ==
  /\ RecvInv
  /\ malformed => ~reading
  /\ \E ends : PipeHolds(ends)

(* What becomes visible moves from pending to the file.                      *)
LEMMA ShowKeepsBytes ==
  ASSUME NEW f \in Seq(Byte), NEW b \in Seq(Byte), NEW n \in 0 .. Len(b)
  PROVE  LET f2 == f \o SubSeq(b, 1, n)
             b2 == SubSeq(b, n + 1, Len(b))
         IN  /\ f2 \in Seq(Byte) /\ b2 \in Seq(Byte) /\ f2 \o b2 = f \o b
             /\ Len(f2) = Len(f) + n /\ Len(b2) = Len(b) - n
             /\ \A i \in 1 .. Len(f) : f2[i] = f[i]
<1> DEFINE x == SubSeq(b, 1, n)
           b2 == SubSeq(b, n + 1, Len(b))
<1>1. Len(b) \in Nat /\ n \in Nat /\ 0 \in Nat /\ 0 + 1 = 1 /\ n - 0 = n
  OBVIOUS
<1>2. x \in Seq(Byte) /\ Len(x) = n
  BY <1>1, Piece
<1>3. b2 \in Seq(Byte) /\ Len(b2) = Len(b) - n
  <2>1. Len(b) \in n .. Len(b)
    BY <1>1
  <2> QED
    BY <1>1, <2>1, Piece
<1>4. x \o b2 = b
  <2>1. 1 \in 1 .. Len(b) + 1 /\ n \in 1 - 1 .. Len(b) /\ Len(b) \in n .. Len(b)
    BY <1>1
  <2>2. SubSeq(b, 1, n) \o SubSeq(b, n + 1, Len(b)) = SubSeq(b, 1, Len(b))
    BY <2>1, ConcatAdjacentSubSeq
  <2> QED
    BY <2>2, SubSeqFull
<1> HIDE DEF x, b2
<1>5. (f \o x) \o b2 = f \o b
  <2>1. x \in Seq(Byte) /\ b2 \in Seq(Byte)
    BY <1>2, <1>3
  <2>2. (f \o x) \o b2 = f \o (x \o b2)
    BY SMTT(30), <2>1, ConcatAssociative
  <2> QED
    BY <1>4, <2>2
<1>6. f \o x \in Seq(Byte) /\ Len(f \o x) = Len(f) + n /\ \A i \in 1 .. Len(f) : (f \o x)[i] = f[i]
  BY <1>2, BytesConcat
<1> QED
  BY <1>3, <1>5, <1>6 DEF x, b2

(* One more message, and one more frame.                                     *)
LEMMA FramesGrow ==
  ASSUME NEW bytes \in Seq(Byte), NEW s \in Seq(Message), NEW ends, Frames(ends, s, bytes),
         NEW message \in Message
  PROVE  \E more :
           /\ Frames(more, Append(s, message), bytes \o (Header(Len(message)) \o message))
           /\ \A k \in 0 .. Len(s) : more[k] = ends[k]
<1> DEFINE n == Len(s)
           L == Len(message)
           N == Len(bytes)
           frame == Header(L) \o message
           all == bytes \o frame
           t == Append(s, message)
           more == [k \in 0 .. n + 1 |-> IF k = n + 1 THEN N + HeaderSize + L ELSE ends[k]]
<1>1. /\ n \in Nat /\ N \in Nat /\ L \in Nat /\ L \in 1 .. MaxLength /\ HeaderSize \in Nat \ {0}
      /\ message \in Seq(Byte)
  BY MessageProps, SizesAssumption
<1>2. Len(t) = n + 1 /\ t[n + 1] = message /\ \A k \in 1 .. n : t[k] = s[k]
  BY AppendProperties
<1>3. /\ Header(L) \in Seq(Byte) /\ Len(Header(L)) = HeaderSize
      /\ \A j \in 1 .. HeaderSize : Header(L)[j] = [part |-> j, length |-> L]
  BY <1>1, HeaderProps
<1> HIDE DEF L
<1>4. /\ frame \in Seq(Byte) /\ Len(frame) = HeaderSize + L
      /\ \A j \in 1 .. HeaderSize : frame[j] = [part |-> j, length |-> L]
      /\ \A j \in 1 .. L : frame[HeaderSize + j] = message[j]
  <2>1. /\ frame \in Seq(Byte) /\ Len(frame) = Len(Header(L)) + Len(message)
        /\ \A j \in 1 .. Len(Header(L)) : frame[j] = Header(L)[j]
        /\ \A j \in 1 .. Len(message) : frame[Len(Header(L)) + j] = message[j]
    BY <1>1, <1>3, BytesConcat
  <2> HIDE DEF frame
  <2> QED
    BY <1>3, <2>1 DEF L
<1> HIDE DEF frame
<1>5. /\ all \in Seq(Byte) /\ Len(all) = N + HeaderSize + L
      /\ \A i \in 1 .. N : all[i] = bytes[i]
      /\ \A j \in 1 .. HeaderSize : all[N + j] = [part |-> j, length |-> L]
      /\ \A j \in 1 .. L : all[N + HeaderSize + j] = message[j]
  <2>1. /\ all \in Seq(Byte) /\ Len(all) = N + Len(frame)
        /\ \A i \in 1 .. N : all[i] = bytes[i]
        /\ \A j \in 1 .. Len(frame) : all[N + j] = frame[j]
    BY <1>4, BytesConcat
  <2> HIDE DEF all, N
  <2>2. Len(all) = N + HeaderSize + L
    BY <1>1, <1>4, <2>1
  <2>3. \A j \in 1 .. HeaderSize : all[N + j] = [part |-> j, length |-> L]
    <3> TAKE j \in 1 .. HeaderSize
    <3>1. j \in 1 .. Len(frame)
      BY <1>1, <1>4
    <3> QED
      BY <1>4, <2>1, <3>1
  <2>4. \A j \in 1 .. L : all[N + HeaderSize + j] = message[j]
    <3> TAKE j \in 1 .. L
    <3>1. HeaderSize + j \in 1 .. Len(frame) /\ N + (HeaderSize + j) = N + HeaderSize + j
      BY <1>1, <1>4
    <3>2. all[N + (HeaderSize + j)] = frame[HeaderSize + j]
      BY <2>1, <3>1
    <3> QED
      BY <1>4, <3>1, <3>2
  <2> QED
    BY <2>1, <2>2, <2>3, <2>4
<1> HIDE DEF all, t
<1>6. /\ ends \in [0 .. n -> Nat] /\ ends[0] = 0 /\ ends[n] = N
      /\ \A i, j \in 0 .. n : i < j => ends[i] < ends[j]
  BY DEF Frames
<1>7. \A k \in 0 .. n : more[k] = ends[k] /\ ends[k] \in Nat /\ k \in 0 .. n + 1 /\ ends[k] <= N
  <2> TAKE k \in 0 .. n
  <2>1. k \in 0 .. n + 1 /\ k # n + 1 /\ n \in 0 .. n
    BY <1>1
  <2>2. ends[k] \in Nat /\ more[k] = ends[k]
    BY <1>6, <2>1
  <2>3. ends[k] <= N
    <3>1. k < n => ends[k] < N
      BY <1>6, <2>1
    <3>2. k < n \/ k = n
      BY <1>1
    <3> QED
      BY <1>1, <1>6, <2>2, <3>1, <3>2
  <2> QED
    BY <2>1, <2>2, <2>3
<1>8. more[n + 1] = N + HeaderSize + L /\ n + 1 \in 0 .. n + 1
  BY <1>1
<1>9. more \in [0 .. n + 1 -> Nat]
  <2>1. \A k \in 0 .. n + 1 : k # n + 1 => k \in 0 .. n
    BY <1>1
  <2>2. N + HeaderSize + L \in Nat
    BY <1>1
  <2> HIDE DEF N
  <2> QED
    BY <1>6, <2>1, <2>2
<1> HIDE DEF more
<1>10. \A i, j \in 0 .. n + 1 : i < j => more[i] < more[j]
  <2> TAKE i, j \in 0 .. n + 1
  <2> HAVE i < j
  <2>1. i \in 0 .. n
    BY <1>1
  <2>2. CASE j \in 0 .. n
    BY <1>6, <1>7, <2>1, <2>2
  <2>3. CASE j = n + 1
    <3> DEFINE a == ends[i]
    <3>1. a \in Nat /\ a <= N /\ more[i] = a
      BY <1>7, <2>1
    <3> HIDE DEF a, N
    <3>2. a < N + HeaderSize + L
      BY <1>1, <3>1
    <3> QED
      BY <1>8, <2>3, <3>1, <3>2
  <2> QED
    BY <1>1, <2>2, <2>3
<1>11. ASSUME NEW k \in 1 .. n + 1
       PROVE  /\ more[k] = more[k - 1] + HeaderSize + Len(t[k])
              /\ \A j \in 1 .. HeaderSize :
                   all[more[k - 1] + j] = [part |-> j, length |-> Len(t[k])]
              /\ \A j \in 1 .. Len(t[k]) : all[more[k - 1] + HeaderSize + j] = t[k][j]
  <2>1. CASE k = n + 1
    <3>1. more[k - 1] = N /\ t[k] = message /\ more[k] = N + HeaderSize + L
      <4>1. k - 1 = n /\ n \in 0 .. n
        BY <1>1, <2>1
      <4> QED
        BY <1>2, <1>6, <1>7, <1>8, <2>1, <4>1
    <3> QED
      BY <1>5, <3>1 DEF L
  <2>2. CASE k \in 1 .. n
    <3> DEFINE a == ends[k - 1]
               l == Len(s[k])
    <3>1. /\ k \in 0 .. n /\ k - 1 \in 0 .. n /\ s[k] \in Message /\ t[k] = s[k]
      BY <1>1, <1>2, <2>2
    <3>2. /\ ends[k] = a + HeaderSize + l
          /\ \A j \in 1 .. HeaderSize : bytes[a + j] = [part |-> j, length |-> l]
          /\ \A j \in 1 .. l : bytes[a + HeaderSize + j] = s[k][j]
      BY <2>2 DEF Frames
    <3>3. /\ more[k] = ends[k] /\ more[k - 1] = a /\ a \in Nat /\ ends[k] <= N /\ l \in Nat
      BY SMTT(30), <1>7, <3>1, MessageProps
    <3> HIDE DEF a, l, N
    <3>4. a + HeaderSize + l <= N
      BY <3>2, <3>3
    <3>5. \A j \in 1 .. HeaderSize : a + j \in 1 .. N
      BY <1>1, <3>3, <3>4
    <3>6. \A j \in 1 .. l : a + HeaderSize + j \in 1 .. N
      BY <1>1, <3>3, <3>4
    <3>7. \A j \in 1 .. HeaderSize : all[a + j] = [part |-> j, length |-> l]
      BY <1>5, <3>2, <3>5
    <3>8. \A j \in 1 .. l : all[a + HeaderSize + j] = s[k][j]
      BY <1>5, <3>2, <3>6
    <3> QED
      BY <3>1, <3>2, <3>3, <3>7, <3>8 DEF l
  <2>3. k = n + 1 \/ k \in 1 .. n
    BY <1>1
  <2> QED
    BY <2>1, <2>2, <2>3
<1>12. more[0] = 0 /\ more[n + 1] = Len(all)
  <2>1. 0 \in 0 .. n
    BY <1>1
  <2> QED
    BY <1>5, <1>6, <1>7, <1>8, <2>1
<1>13. Frames(more, t, all)
  BY <1>2, <1>9, <1>10, <1>11, <1>12 DEF Frames
<1> QED
  BY <1>7, <1>13 DEF t, all, frame, L

-----------------------------------------------------------------------------
(* The steps.                                                                *)

LEMMA Initially == Init => IInv
<1> SUFFICES ASSUME Init PROVE IInv
  OBVIOUS
<1>1. <<>> \in Seq(Message) /\ <<>> \in Seq(Byte) /\ Len(<<>>) = 0
  BY EmptySeq
<1>2. TypeOK
  <2>1. Len(file) = 0 /\ Len(output) = 0 /\ offset = 0
    BY <1>1 DEF Init
  <2>2. offset \in 0 .. Len(file) /\ Len(output) <= offset
    BY <2>1
  <2>3. /\ sent \in Seq(Message) /\ received \in Seq(Message)
        /\ file \in Seq(Byte) /\ pending \in Seq(Byte) /\ output \in Seq(Byte)
        /\ reading \in BOOLEAN /\ malformed \in BOOLEAN /\ torn \in BOOLEAN
    BY <1>1 DEF Init
  <2> QED
    BY <2>2, <2>3 DEF TypeOK
<1>3. ReceivedInOrder
  <2>1. SubSeq(<<>>, 1, 0) = <<>>
    BY SubSeqEmpty
  <2> QED
    BY <1>1, <2>1 DEF Init, ReceivedInOrder
<1>4. <<>> \o <<>> = <<>>
  BY <1>1, ConcatEmptySeq
<1> DEFINE ends == [k \in 0 .. 0 |-> 0]
<1>5. Frames(ends, <<>>, <<>>)
  <2>1. 0 .. 0 = {0} /\ 1 .. 0 = {}
    OBVIOUS
  <2> QED
    BY <1>1, <2>1 DEF Frames
<1>6. ends[0] = 0
  OBVIOUS
<1> HIDE DEF ends
<1>7. PipeHolds(ends)
  BY <1>1, <1>4, <1>5, <1>6 DEF Init, PipeHolds
<1> QED
  BY <1>2, <1>3, <1>7 DEF Init, IInv, RecvInv, MalformedOnlyWhenTorn

(* What is received is a beginning of what was sent, and what is sent later  *)
(* does not change it.                                                       *)
LEMMA BeginningStays ==
  ASSUME NEW s \in Seq(Message), NEW message \in Message, NEW n \in 0 .. Len(s)
  PROVE  SubSeq(Append(s, message), 1, n) = SubSeq(s, 1, n)
<1> DEFINE t == Append(s, message)
<1>1. /\ Len(s) \in Nat /\ n \in Nat /\ 1 \in Int /\ n \in Int
      /\ t \in Seq(Message) /\ Len(t) = Len(s) + 1 /\ \A i \in 1 .. Len(s) : t[i] = s[i]
  BY AppendProperties
<1> HIDE DEF t
<1>2. \A i \in 1 .. n : i \in 1 .. Len(s) /\ s[i] \in Message /\ t[i] \in Message
  BY <1>1
<1>3. /\ SubSeq(t, 1, n) \in Seq(Message)
      /\ Len(SubSeq(t, 1, n)) = IF 1 <= n THEN n - 1 + 1 ELSE 0
      /\ \A i \in 1 .. n - 1 + 1 : SubSeq(t, 1, n)[i] = t[1 + i - 1]
  BY <1>1, <1>2, SubSeqProperties
<1>4. /\ SubSeq(s, 1, n) \in Seq(Message)
      /\ Len(SubSeq(s, 1, n)) = IF 1 <= n THEN n - 1 + 1 ELSE 0
      /\ \A i \in 1 .. n - 1 + 1 : SubSeq(s, 1, n)[i] = s[1 + i - 1]
  BY <1>1, <1>2, SubSeqProperties
<1>5. Len(SubSeq(s, 1, n)) = n /\ n - 1 + 1 = n /\ \A i \in 1 .. n : 1 + i - 1 = i
  BY <1>1, <1>4
<1>6. \A i \in 1 .. Len(SubSeq(t, 1, n)) : SubSeq(t, 1, n)[i] = SubSeq(s, 1, n)[i]
  BY <1>1, <1>2, <1>3, <1>4, <1>5
<1>7. Len(SubSeq(t, 1, n)) = Len(SubSeq(s, 1, n))
  BY <1>3, <1>4
<1>8. SubSeq(t, 1, n) = SubSeq(s, 1, n)
  BY <1>3, <1>4, <1>6, <1>7, SeqEqual
<1> QED
  BY <1>8 DEF t

(* The messages that were received are among those that are complete.        *)
LEMMA ReceivedBefore ==
  ASSUME TypeOK, ReceivedInOrder, NEW ends, PipeHolds(ends)
  PROVE  /\ Len(received) \in 0 .. Len(sent) /\ ends[Len(received)] \in Nat
         /\ \A k \in 0 .. Len(sent) : ends[k] \in Nat
         /\ Len(file) \in Nat /\ Len(pending) \in Nat /\ Len(output) \in Nat /\ offset \in Nat
         /\ offset <= Len(file)
<1>1. Len(received) \in Nat /\ Len(sent) \in Nat /\ Len(file) \in Nat /\ Len(pending) \in Nat
      /\ Len(output) \in Nat
  BY DEF TypeOK
<1>2. Len(received) \in 0 .. Len(sent)
  BY <1>1 DEF ReceivedInOrder
<1>3. \A k \in 0 .. Len(sent) : ends[k] \in Nat
  BY DEF PipeHolds, Frames
<1> QED
  BY <1>1, <1>2, <1>3 DEF TypeOK

LEMMA SendKeeps ==
  ASSUME IInv, Send
  PROVE  IInv'
<1>1. TypeOK /\ ReceivedInOrder /\ MalformedOnlyWhenTorn /\ (malformed => ~reading)
  BY DEF IInv, RecvInv
<1>2. PICK ends : PipeHolds(ends)
  BY DEF IInv
<1>3. PICK length \in 1 .. MaxLength :
        LET body == Body(Len(sent) + 1, length)
            frame == Header(length) \o body
        IN  /\ sent' = Append(sent, body)
            /\ \E n \in 0 .. Len(frame) : Show(frame, n)
  BY DEF Send
<1> DEFINE body == Body(Len(sent) + 1, length)
           frame == Header(length) \o body
<1>4. PICK n \in 0 .. Len(frame) : Show(frame, n)
  BY <1>3
<1>5. /\ sent' = Append(sent, body) /\ pending = <<>> /\ Len(sent) < MaxMessages
      /\ UNCHANGED <<offset, reading, output, received, malformed>>
  BY <1>3 DEF Send
<1>6. /\ Len(received) \in 0 .. Len(sent) /\ ends[Len(received)] \in Nat
      /\ Len(file) \in Nat /\ Len(output) \in Nat /\ offset \in Nat
      /\ offset <= Len(file) /\ Len(sent) \in Nat
  BY <1>1, <1>2, ReceivedBefore DEF TypeOK
<1>7. body \in Message /\ Len(body) = length
  <2>1. Len(sent) + 1 \in 1 .. MaxMessages /\ length \in Nat
    BY <1>5, <1>6, SizesAssumption
  <2>2. body \in Message
    BY <2>1 DEF Message
  <2>3. body \in Seq(Byte) /\ DOMAIN body = 1 .. length
    BY <2>2, MessageProps DEF Body
  <2> HIDE DEF body
  <2>4. DOMAIN body = 1 .. Len(body) /\ Len(body) \in Nat
    BY <2>3, LenProperties
  <2> QED
    BY <2>1, <2>2, <2>3, <2>4
<1>8. frame = Header(Len(body)) \o body /\ frame \in Seq(Byte) /\ Len(frame) \in Nat
      /\ Len(frame) > 0
  <2>1. body \in Seq(Byte) /\ Len(body) \in 1 .. MaxLength /\ length \in 1 .. MaxLength
    BY <1>7, MessageProps
  <2>2. Header(length) \in Seq(Byte) /\ Len(Header(length)) = HeaderSize
    BY <2>1, HeaderProps
  <2> HIDE DEF body
  <2> QED
    BY <1>7, <2>1, <2>2, BytesConcat, SizesAssumption
<1> HIDE DEF body, frame
<1>9. /\ file' = file \o SubSeq(frame, 1, n)
      /\ pending' = SubSeq(frame, n + 1, Len(frame))
      /\ torn' = (torn \/ n \in 1 .. Len(frame) - 1)
  BY <1>4 DEF Show
<1>10. /\ file' \in Seq(Byte) /\ pending' \in Seq(Byte) /\ file' \o pending' = file \o frame
       /\ Len(file') = Len(file) + n /\ Len(pending') = Len(frame) - n
       /\ \A i \in 1 .. Len(file) : file'[i] = file[i]
  <2>1. file \in Seq(Byte) /\ frame \in Seq(Byte) /\ n \in 0 .. Len(frame)
    BY <1>1, <1>8 DEF TypeOK
  <2> DEFINE f2 == file \o SubSeq(frame, 1, n)
             b2 == SubSeq(frame, n + 1, Len(frame))
  <2>2. /\ f2 \in Seq(Byte) /\ b2 \in Seq(Byte) /\ f2 \o b2 = file \o frame
        /\ Len(f2) = Len(file) + n /\ Len(b2) = Len(frame) - n
        /\ \A i \in 1 .. Len(file) : f2[i] = file[i]
    BY <2>1, ShowKeepsBytes
  <2>3. file' = f2 /\ pending' = b2
    BY <1>9
  <2> HIDE DEF f2, b2
  <2> QED
    BY <2>2, <2>3
<1>11. file \o pending = file
  BY <1>1, <1>5, ConcatEmptySeq DEF TypeOK
<1>12. Frames(ends, sent, file)
  BY <1>2, <1>11 DEF PipeHolds
<1>13. PICK more : /\ Frames(more, sent', file \o frame)
                   /\ \A k \in 0 .. Len(sent) : more[k] = ends[k]
  <2>1. file \in Seq(Byte) /\ sent \in Seq(Message)
    BY <1>1 DEF TypeOK
  <2> QED
    BY <1>5, <1>7, <1>8, <1>12, <2>1, FramesGrow
<1>14. /\ sent' \in Seq(Message) /\ Len(sent') = Len(sent) + 1
  BY <1>1, <1>5, <1>7, AppendProperties DEF TypeOK
<1>15. TypeOK'
  <2>1. offset' \in 0 .. Len(file')
    BY <1>5, <1>6, <1>10
  <2> QED
    BY <1>1, <1>5, <1>9, <1>10, <1>14, <2>1 DEF TypeOK
<1>16. ReceivedInOrder'
  <2>1. SubSeq(sent', 1, Len(received)) = SubSeq(sent, 1, Len(received))
    BY <1>1, <1>5, <1>6, <1>7, BeginningStays DEF TypeOK
  <2>2. Len(received) <= Len(sent')
    BY <1>6, <1>14
  <2> QED
    BY <1>1, <1>5, <2>1, <2>2 DEF ReceivedInOrder
<1>17. MalformedOnlyWhenTorn'
  BY <1>1, <1>5, <1>9 DEF MalformedOnlyWhenTorn
<1>18. PipeHolds(more)'
  <2>1. Frames(more, sent', file' \o pending')
    BY <1>10, <1>13
  <2>2. Len(sent') - 1 = Len(sent) /\ Len(sent') > 0 /\ Len(sent) \in 0 .. Len(sent)
    BY <1>6, <1>14
  <2>3. more[Len(sent)] = Len(file)
    BY <1>12, <1>13, <2>2 DEF Frames
  <2>4. more[Len(sent') - 1] = Len(file) /\ Len(file) <= Len(file')
    <3> DEFINE a == Len(file)
    <3> DEFINE b == Len(file')
    <3>1. a \in Nat /\ n \in Nat /\ b = a + n
      BY <1>6, <1>8, <1>10
    <3>2. more[Len(sent') - 1] = a
      BY <2>2, <2>3
    <3> HIDE DEF a, b
    <3>3. a <= b
      BY <3>1
    <3> QED
      BY <3>2, <3>3 DEF a, b
  <2>5. ASSUME pending' # <<>>, Len(file) < Len(file') PROVE torn'
    <3>1. Len(pending') \in Nat \ {0}
      BY <1>10, <2>5, EmptySeq
    <3>2. n \in 1 .. Len(frame) - 1
      BY <1>6, <1>8, <1>10, <2>5, <3>1
    <3> QED
      BY <1>9, <3>2
  <2>6. more[Len(received')] = ends[Len(received)]
    BY <1>5, <1>6, <1>13
  <2>7. \A i \in 1 .. Len(output) : reading => file'[ends[Len(received)] + i] = file[ends[Len(received)] + i]
    <3> DEFINE e == ends[Len(received)]
    <3> TAKE i \in 1 .. Len(output)
    <3> HAVE reading
    <3>1. offset = e + Len(output)
      BY <1>2 DEF PipeHolds
    <3>2. e \in Nat
      BY <1>6
    <3> HIDE DEF e
    <3>3. e + i \in 1 .. Len(file)
      BY <1>6, <3>1, <3>2
    <3>4. file'[e + i] = file[e + i]
      BY <1>10, <3>3
    <3> QED
      BY <3>4 DEF e
  <2>8. reading' => /\ offset' = more[Len(received')] + Len(output')
                    /\ \A i \in 1 .. Len(output') : output'[i] = file'[more[Len(received')] + i]
    BY <1>2, <1>5, <2>6, <2>7 DEF PipeHolds
  <2>9. ~malformed' /\ ~reading' => offset' = more[Len(received')]
    BY <1>2, <1>5, <2>6 DEF PipeHolds
  <2> QED
    BY <2>1, <2>2, <2>4, <2>5, <2>8, <2>9 DEF PipeHolds
<1> QED
  BY <1>1, <1>5, <1>15, <1>16, <1>17, <1>18 DEF IInv, RecvInv

LEMMA AppearKeeps ==
  ASSUME IInv, Appear
  PROVE  IInv'
<1>1. TypeOK /\ ReceivedInOrder /\ MalformedOnlyWhenTorn /\ (malformed => ~reading)
  BY DEF IInv, RecvInv
<1>2. PICK ends : PipeHolds(ends)
  BY DEF IInv
<1>3. PICK n \in 1 .. Len(pending) : Show(pending, n)
  BY DEF Appear
<1>4. pending # <<>> /\ UNCHANGED <<sent, offset, reading, output, received, malformed>>
  BY DEF Appear
<1>5. /\ Len(received) \in 0 .. Len(sent) /\ ends[Len(received)] \in Nat
      /\ Len(file) \in Nat /\ Len(output) \in Nat /\ offset \in Nat
      /\ offset <= Len(file) /\ Len(sent) \in Nat /\ Len(pending) \in Nat
      /\ \A k \in 0 .. Len(sent) : ends[k] \in Nat
  BY <1>1, <1>2, ReceivedBefore DEF TypeOK
<1>6. /\ file' = file \o SubSeq(pending, 1, n)
      /\ pending' = SubSeq(pending, n + 1, Len(pending))
      /\ torn' = (torn \/ n \in 1 .. Len(pending) - 1)
  BY <1>3 DEF Show
<1>7. /\ file' \in Seq(Byte) /\ pending' \in Seq(Byte) /\ file' \o pending' = file \o pending
      /\ Len(file') = Len(file) + n /\ Len(pending') = Len(pending) - n
      /\ \A i \in 1 .. Len(file) : file'[i] = file[i]
  <2>1. n \in 0 .. Len(pending)
    BY <1>5
  <2> QED
    <3>1. file \in Seq(Byte) /\ pending \in Seq(Byte)
      BY <1>1 DEF TypeOK
    <3> QED
      BY ZenonT(30), <1>6, <2>1, <3>1, ShowKeepsBytes
<1>8. TypeOK'
  <2>1. offset' \in 0 .. Len(file')
    BY <1>4, <1>5, <1>7
  <2> QED
    BY <1>1, <1>4, <1>6, <1>7, <2>1 DEF TypeOK
<1>9. ReceivedInOrder'
  BY <1>1, <1>4 DEF ReceivedInOrder
<1>10. MalformedOnlyWhenTorn'
  BY <1>1, <1>4, <1>6 DEF MalformedOnlyWhenTorn
<1>11. PipeHolds(ends)'
  <2>1. Frames(ends, sent', file' \o pending')
    BY <1>2, <1>4, <1>7 DEF PipeHolds
  <2>2. pending' # <<>> => torn'
    <3>1. ASSUME pending' # <<>> PROVE torn'
      <4>1. Len(pending') \in Nat \ {0}
        BY <1>7, <3>1, EmptySeq
      <4>2. n \in 1 .. Len(pending) - 1
        BY <1>5, <1>7, <4>1
      <4> QED
        BY <1>6, <4>2
    <3> QED
      BY <3>1
  <2>3. Len(sent) > 0 /\ ends[Len(sent) - 1] <= Len(file')
    <3>1. Len(sent) > 0 /\ ends[Len(sent) - 1] <= Len(file)
      BY <1>2, <1>4 DEF PipeHolds
    <3>2. Len(sent) - 1 \in 0 .. Len(sent)
      BY <1>5, <3>1
    <3>3. ends[Len(sent) - 1] \in Nat
      BY <1>5, <3>2
    <3> QED
      BY <1>5, <1>7, <3>1, <3>3
  <2>4. \A i \in 1 .. Len(output) : reading => file'[ends[Len(received)] + i] = file[ends[Len(received)] + i]
    <3> DEFINE e == ends[Len(received)]
    <3> TAKE i \in 1 .. Len(output)
    <3> HAVE reading
    <3>1. offset = e + Len(output)
      BY <1>2 DEF PipeHolds
    <3>2. e \in Nat
      BY <1>5
    <3> HIDE DEF e
    <3>3. e + i \in 1 .. Len(file)
      BY <1>5, <3>1, <3>2
    <3>4. file'[e + i] = file[e + i]
      BY <1>7, <3>3
    <3> QED
      BY <3>4 DEF e
  <2>5. reading' => /\ offset' = ends[Len(received')] + Len(output')
                    /\ \A i \in 1 .. Len(output') : output'[i] = file'[ends[Len(received')] + i]
    BY <1>2, <1>4, <2>4 DEF PipeHolds
  <2>6. ~malformed' /\ ~reading' => offset' = ends[Len(received')]
    BY <1>2, <1>4 DEF PipeHolds
  <2> QED
    BY <1>4, <2>1, <2>2, <2>3, <2>5, <2>6 DEF PipeHolds
<1> QED
  BY <1>1, <1>4, <1>8, <1>9, <1>10, <1>11 DEF IInv, RecvInv

LEMMA BeginRecvKeeps ==
  ASSUME IInv, BeginRecv
  PROVE  IInv'
<1>1. TypeOK /\ ReceivedInOrder /\ MalformedOnlyWhenTorn /\ (malformed => ~reading)
  BY DEF IInv, RecvInv
<1>2. PICK ends : PipeHolds(ends)
  BY DEF IInv
<1>3. /\ ~reading /\ ~malformed /\ reading' = TRUE /\ output' = <<>>
      /\ UNCHANGED <<sent, file, pending, offset, received, malformed, torn>>
  BY DEF BeginRecv
<1>4. <<>> \in Seq(Byte) /\ Len(<<>>) = 0
  BY EmptySeq
<1>5. offset \in Nat /\ ends[Len(received)] \in Nat
  BY <1>1, <1>2, ReceivedBefore
<1>6. TypeOK'
  <2>1. Len(output') <= offset'
    BY <1>3, <1>4, <1>5
  <2> QED
    BY <1>1, <1>3, <1>4, <2>1 DEF TypeOK
<1>7. PipeHolds(ends)'
  <2>1. offset' = ends[Len(received')] + Len(output')
    BY <1>2, <1>3, <1>4, <1>5 DEF PipeHolds
  <2>2. 1 .. Len(output') = {}
    BY <1>3, <1>4
  <2> QED
    BY <1>2, <1>3, <2>1, <2>2 DEF PipeHolds
<1>8. ReceivedInOrder' /\ MalformedOnlyWhenTorn'
  BY <1>1, <1>3 DEF ReceivedInOrder, MalformedOnlyWhenTorn
<1> QED
  BY <1>3, <1>6, <1>7, <1>8 DEF IInv, RecvInv

LEMMA ReadKeeps ==
  ASSUME IInv, Read
  PROVE  IInv'
<1>1. TypeOK /\ ReceivedInOrder /\ MalformedOnlyWhenTorn /\ (malformed => ~reading)
  BY DEF IInv, RecvInv
<1>2. PICK ends : PipeHolds(ends)
  BY DEF IInv
<1>3. /\ reading /\ offset < Len(file) /\ offset' = Smaller(Len(file), offset + ScratchSize)
      /\ output' = output \o SubSeq(file, offset + 1, offset')
      /\ UNCHANGED <<sent, file, pending, reading, received, malformed, torn>>
  BY DEF Read
<1>4. /\ ends[Len(received)] \in Nat /\ Len(file) \in Nat /\ Len(output) \in Nat
      /\ offset \in Nat /\ offset <= Len(file)
  BY <1>1, <1>2, ReceivedBefore
<1>5. offset' \in offset .. Len(file) /\ offset' \in Nat /\ offset' >= offset
  BY <1>3, <1>4, SizesAssumption DEF Smaller
<1> DEFINE piece == SubSeq(file, offset + 1, offset')
           e == ends[Len(received)]
<1>6. /\ piece \in Seq(Byte) /\ Len(piece) = offset' - offset
      /\ \A i \in 1 .. offset' - offset : piece[i] = file[offset + i]
  BY <1>1, <1>4, <1>5, Piece DEF TypeOK
<1> HIDE DEF piece
<1>7. /\ output' \in Seq(Byte) /\ Len(output') = Len(output) + Len(piece)
      /\ \A i \in 1 .. Len(output) : output'[i] = output[i]
      /\ \A i \in 1 .. Len(piece) : output'[Len(output) + i] = piece[i]
  <2>1. output' = output \o piece /\ output \in Seq(Byte)
    BY <1>1, <1>3 DEF piece, TypeOK
  <2> QED
    BY <1>6, <2>1, BytesConcat
<1>8. e \in Nat /\ offset = e + Len(output)
      /\ \A i \in 1 .. Len(output) : output[i] = file[e + i]
  BY <1>2, <1>3, <1>4 DEF PipeHolds
<1> HIDE DEF e
<1>9. offset' = e + Len(output') /\ Len(output') \in Nat
  BY SMTT(30), <1>4, <1>5, <1>6, <1>7, <1>8
<1>10. \A i \in 1 .. Len(output') : output'[i] = file[e + i]
  <2> TAKE i \in 1 .. Len(output')
  <2>1. CASE i \in 1 .. Len(output)
    BY <1>7, <1>8, <2>1
  <2>2. CASE i \notin 1 .. Len(output)
    <3> DEFINE j == i - Len(output)
    <3>1. j \in 1 .. Len(piece) /\ Len(output) + j = i /\ offset + j = e + i
      <4> DEFINE a == Len(output)
      <4> DEFINE b == Len(piece)
      <4>1. a \in Nat /\ b \in Nat /\ i \in 1 .. a + b /\ i \notin 1 .. a
        BY <1>4, <1>6, <1>7, <2>2
      <4>2. offset = e + a /\ e \in Nat /\ j = i - a
        BY <1>8
      <4> HIDE DEF a, b, j
      <4>3. j \in 1 .. b /\ a + j = i /\ offset + j = e + i
        BY <4>1, <4>2
      <4> QED
        BY <4>3 DEF a, b
    <3> HIDE DEF j
    <3>2. output'[Len(output) + j] = piece[j] /\ piece[j] = file[offset + j]
      BY <1>6, <1>7, <3>1
    <3> QED
      BY <3>1, <3>2
  <2> QED
    BY <2>1, <2>2
<1>11. TypeOK'
  <2>1. Len(output') <= offset' /\ offset' \in 0 .. Len(file')
    BY <1>3, <1>4, <1>5, <1>8, <1>9
  <2> QED
    BY <1>1, <1>3, <1>7, <2>1 DEF TypeOK
<1>12. PipeHolds(ends)'
  BY <1>2, <1>3, <1>9, <1>10 DEF PipeHolds, e
<1>13. ReceivedInOrder' /\ MalformedOnlyWhenTorn'
  BY <1>1, <1>3 DEF ReceivedInOrder, MalformedOnlyWhenTorn
<1> QED
  BY <1>1, <1>3, <1>11, <1>12, <1>13 DEF IInv, RecvInv

(* recv returns the complete messages that were not received before, or      *)
(* gives up in the middle of a message.                                      *)
LEMMA EndRecvResult ==
  ASSUME IInv, EndRecv, NEW ends, PipeHolds(ends)
  PROVE  LET m == Complete(sent, pending)
         IN  /\ m \in Len(received) .. Len(sent) /\ ~malformed
             /\ \/ /\ received' = SubSeq(sent, 1, m) /\ UNCHANGED malformed
                   /\ Len(file) = ends[m]
                \/ /\ malformed' = TRUE /\ UNCHANGED received /\ torn
<1> DEFINE r == Len(received)
           m == Complete(sent, pending)
           bytes == file \o pending
           top == Len(file)
           S == Len(sent)
<1>1. TypeOK /\ ReceivedInOrder /\ (malformed => ~reading)
  BY DEF IInv, RecvInv
<1>2. /\ r \in 0 .. S /\ \A k \in 0 .. S : ends[k] \in Nat
      /\ top \in Nat /\ Len(pending) \in Nat /\ Len(output) \in Nat /\ offset \in Nat
      /\ ends[r] \in Nat
  BY <1>1, ReceivedBefore
<1>3. /\ reading /\ offset = top
      /\ LET decoded == Decode(output)
         IN  IF decoded.ok
               THEN received' = received \o decoded.messages /\ UNCHANGED malformed
               ELSE malformed' = TRUE /\ UNCHANGED received
  BY DEF EndRecv
<1>4. /\ Frames(ends, sent, bytes)
      /\ pending # <<>> => /\ S > 0 /\ ends[S - 1] <= top
                           /\ ends[S - 1] < top => torn
      /\ offset = ends[r] + Len(output)
      /\ \A i \in 1 .. Len(output) : output[i] = file[ends[r] + i]
  BY <1>3 DEF PipeHolds
<1>5. /\ bytes \in Seq(Byte) /\ Len(bytes) = top + Len(pending)
      /\ \A i \in 1 .. top : bytes[i] = file[i]
  BY <1>1, BytesConcat DEF TypeOK
<1>6. sent \in Seq(Message) /\ received \in Seq(Message) /\ output \in Seq(Byte) /\ S \in Nat
      /\ pending \in Seq(Byte)
  BY <1>1 DEF TypeOK
<1> HIDE DEF bytes
<1>7. ends[S] = top + Len(pending) /\ \A i, j \in 0 .. S : i < j => ends[i] < ends[j]
  BY <1>4, <1>5 DEF Frames
<1>8. /\ m \in 0 .. S /\ ends[m] <= top /\ (m < S => top < ends[m + 1] /\ m = S - 1 /\ pending # <<>>)
  <2>1. CASE pending = <<>>
    <3>1. m = S /\ Len(pending) = 0
      BY <2>1 DEF Complete
    <3>2. ends[S] = top
      BY <1>2, <1>7, <3>1
    <3> QED
      BY <1>2, <1>6, <3>1, <3>2
  <2>2. CASE pending # <<>>
    <3>1. m = S - 1 /\ S > 0 /\ ends[S - 1] <= top /\ m + 1 = S
      BY <1>4, <1>6, <2>2 DEF Complete
    <3>2. Len(pending) \in Nat \ {0}
      BY <1>6, <2>2, EmptySeq
    <3>3. top < ends[S]
      BY <1>2, <1>7, <3>2
    <3> QED
      BY <1>6, <2>2, <3>1, <3>3
  <2> QED
    BY <2>1, <2>2
<1> HIDE DEF m
<1>9. r <= m
  <2> SUFFICES ASSUME m < r PROVE FALSE
    BY <1>2, <1>6, <1>8
  <2>1. m < S /\ m = S - 1 /\ r = S /\ m + 1 = S
    BY <1>2, <1>6, <1>8
  <2>2. top < ends[r] /\ ends[r] <= top
    BY <1>2, <1>3, <1>4, <1>8, <2>1
  <2> QED
    BY <1>2, <2>2
<1>10. m \in r .. S /\ r \in 0 .. S /\ top \in 0 .. Len(bytes)
  BY <1>2, <1>5, <1>6, <1>8, <1>9
<1>11. output = SubSeq(bytes, ends[r] + 1, top)
  <2> DEFINE e == ends[r]
             part == SubSeq(bytes, e + 1, top)
  <2>1. e \in Nat /\ top = e + Len(output) /\ top \in e .. Len(bytes)
    <3>1. e \in Nat /\ top = e + Len(output)
      BY <1>2, <1>3, <1>4
    <3> HIDE DEF e
    <3> QED
      BY <1>2, <1>5, <3>1
  <2>2. /\ part \in Seq(Byte) /\ Len(part) = top - e
        /\ \A i \in 1 .. top - e : part[i] = bytes[e + i]
    <3> HIDE DEF e
    <3> QED
      BY <1>5, <2>1, Piece
  <2>3. \A i \in 1 .. Len(output) : output[i] = file[e + i]
    BY <1>4
  <2> HIDE DEF e, part
  <2>4. top - e = Len(output)
    BY <1>2, <2>1
  <2>5. \A i \in 1 .. Len(output) : e + i \in 1 .. top
    BY <1>2, <2>1
  <2>6. \A i \in 1 .. Len(output) : output[i] = part[i]
    BY <1>5, <2>2, <2>3, <2>4, <2>5
  <2>7. output = part
    BY <1>6, <2>2, <2>4, <2>6, SeqEqual
  <2> QED
    BY <2>7 DEF part, e
<1>12. Decode(output) = [messages |-> SubSeq(sent, r + 1, m), ok |-> top = ends[m]]
  <2>1. m < Len(sent) => top < ends[m + 1]
    BY <1>8
  <2>2. bytes \in Seq(Byte) /\ Frames(ends, sent, bytes) /\ ends[m] <= top
    BY <1>4, <1>5, <1>8
  <2> HIDE DEF r, top
  <2>3. Decode(SubSeq(bytes, ends[r] + 1, top)) =
          [messages |-> SubSeq(sent, r + 1, m), ok |-> top = ends[m]]
    BY <1>6, <1>10, <2>1, <2>2, FramesAreDecoded
  <2> QED
    BY <1>11, <2>3
<1>13. IF top = ends[m] THEN received' = received \o SubSeq(sent, r + 1, m) /\ UNCHANGED malformed
                        ELSE malformed' = TRUE /\ UNCHANGED received
  <2> DEFINE d == Decode(output)
             cut == SubSeq(sent, r + 1, m)
  <2>1. IF d.ok THEN received' = received \o d.messages /\ UNCHANGED malformed
               ELSE malformed' = TRUE /\ UNCHANGED received
    BY <1>3
  <2> HIDE DEF d, cut
  <2>2. d = [messages |-> cut, ok |-> top = ends[m]]
    BY <1>12 DEF d, cut
  <2>3. d.ok = (top = ends[m]) /\ d.messages = cut
    BY <2>2
  <2> QED
    BY <2>1, <2>3 DEF cut
<1>14. CASE top = ends[m]
  <2>1. received' = received \o SubSeq(sent, r + 1, m) /\ UNCHANGED malformed
    BY <1>14, <1>13
  <2>2. received = SubSeq(sent, 1, r)
    BY <1>1 DEF ReceivedInOrder
  <2>3. 1 \in 1 .. S + 1 /\ r \in 1 - 1 .. S /\ m \in r .. S
    BY <1>6, <1>10
  <2>4. SubSeq(sent, 1, r) \o SubSeq(sent, r + 1, m) = SubSeq(sent, 1, m)
    BY <1>6, <2>3, ConcatAdjacentSubSeq
  <2>5. received' = SubSeq(sent, 1, m)
    BY <2>1, <2>2, <2>4
  <2> QED
    BY <1>1, <1>3, <1>10, <1>14, <2>1, <2>5 DEF m
<1>15. CASE top # ends[m]
  <2>1. malformed' = TRUE /\ UNCHANGED received
    BY <1>15, <1>13
  <2>2. m < S
    <3> SUFFICES ASSUME m = S PROVE FALSE
      BY <1>6, <1>10
    <3>1. pending # <<>>
      <4> SUFFICES ASSUME pending = <<>> PROVE FALSE
        OBVIOUS
      <4>1. Len(pending) = 0
        OBVIOUS
      <4> QED
        BY <1>2, <1>7, <1>15, <4>1
    <3>2. m = S - 1
      BY <3>1 DEF m, Complete
    <3> QED
      BY <1>6, <3>2
  <2>3. ends[S - 1] < top
    <3>1. m = S - 1 /\ ends[m] <= top /\ ends[m] \in Nat
      BY <1>2, <1>8, <2>2
    <3> QED
      BY <1>2, <1>15, <3>1
  <2> QED
    BY <1>1, <1>3, <1>4, <1>8, <1>10, <2>1, <2>2, <2>3 DEF m
<1> QED
  BY <1>14, <1>15

LEMMA EndRecvKeeps ==
  ASSUME IInv, EndRecv
  PROVE  IInv'
<1>1. TypeOK /\ ReceivedInOrder /\ MalformedOnlyWhenTorn /\ (malformed => ~reading)
  BY DEF IInv, RecvInv
<1>2. PICK ends : PipeHolds(ends)
  BY DEF IInv
<1>3. /\ reading /\ offset = Len(file) /\ reading' = FALSE
      /\ UNCHANGED <<sent, file, pending, offset, output, torn>>
  BY DEF EndRecv
<1> DEFINE m == Complete(sent, pending)
<1>4. /\ m \in Len(received) .. Len(sent) /\ ~malformed
      /\ \/ /\ received' = SubSeq(sent, 1, m) /\ UNCHANGED malformed
            /\ Len(file) = ends[m]
         \/ /\ malformed' = TRUE /\ UNCHANGED received /\ torn
  BY <1>2, EndRecvResult
<1> HIDE DEF m
<1>5. Len(received) \in Nat /\ Len(sent) \in Nat /\ sent \in Seq(Message)
  BY <1>1 DEF TypeOK
<1>6. CASE received' = SubSeq(sent, 1, m) /\ UNCHANGED malformed /\ Len(file) = ends[m]
  <2>1. m \in 0 .. Len(sent) /\ m \in Nat /\ 1 \in Int /\ m \in Int
    BY <1>4, <1>5
  <2>2. \A i \in 1 .. m : sent[i] \in Message
    BY <1>5, <2>1
  <2>3. received' \in Seq(Message) /\ Len(received') = IF 1 <= m THEN m - 1 + 1 ELSE 0
    BY <1>6, <2>1, <2>2, SubSeqProperties
  <2>4. Len(received') = m
    BY <2>1, <2>3
  <2>5. TypeOK'
    BY <1>1, <1>3, <1>6, <2>3 DEF TypeOK
  <2>6. ReceivedInOrder'
    BY <1>3, <1>6, <2>1, <2>4 DEF ReceivedInOrder
  <2>7. PipeHolds(ends)'
    BY <1>2, <1>3, <1>6, <2>4 DEF PipeHolds
  <2>8. MalformedOnlyWhenTorn' /\ ~reading'
    BY <1>1, <1>3, <1>6 DEF MalformedOnlyWhenTorn
  <2> QED
    BY <2>5, <2>6, <2>7, <2>8 DEF IInv, RecvInv
<1>7. CASE malformed' = TRUE /\ UNCHANGED received /\ torn
  <2>1. TypeOK' /\ ReceivedInOrder' /\ MalformedOnlyWhenTorn' /\ ~reading'
    BY <1>1, <1>3, <1>7 DEF TypeOK, ReceivedInOrder, MalformedOnlyWhenTorn
  <2>2. PipeHolds(ends)'
    BY <1>2, <1>3, <1>7 DEF PipeHolds
  <2> QED
    BY <2>1, <2>2 DEF IInv, RecvInv
<1> QED
  BY <1>4, <1>6, <1>7

LEMMA Invariance == Spec => []IInv
<1>1. Init => IInv
  BY Initially
<1>2. IInv /\ [Next]_vars => IInv'
  <2> SUFFICES ASSUME IInv, [Next]_vars PROVE IInv'
    OBVIOUS
  <2>1. CASE Send
    BY <2>1, SendKeeps
  <2>2. CASE Appear
    BY <2>2, AppearKeeps
  <2>3. CASE BeginRecv
    BY <2>3, BeginRecvKeeps
  <2>4. CASE Read
    BY <2>4, ReadKeeps
  <2>5. CASE EndRecv
    BY <2>5, EndRecvKeeps
  <2>6. CASE UNCHANGED vars
    <3>1. RecvInv'
      BY <2>6 DEF vars, IInv, RecvInv, TypeOK, ReceivedInOrder, MalformedOnlyWhenTorn
    <3>2. PICK ends : PipeHolds(ends)
      BY DEF IInv
    <3>3. PipeHolds(ends)'
      BY <2>6, <3>2 DEF vars, PipeHolds
    <3> QED
      BY <2>6, <3>1, <3>3 DEF vars, IInv
  <2> QED
    BY <2>1, <2>2, <2>3, <2>4, <2>5, <2>6 DEF Next
<1> QED
  BY <1>1, <1>2, PTL DEF Spec

(* However writes become visible and wherever reads cut them, recv returns   *)
(* the messages that were sent, in order and once, and gives up only where a *)
(* part of a write was seen before the rest.                                 *)
THEOREM ReceivesWhatIsSent == Spec => []RecvInv
<1>1. IInv => RecvInv
  BY DEF IInv
<1> QED
  BY <1>1, Invariance, PTL

(* A step of the pipe is a step of the queue, or one it does not see: a      *)
(* message is sent when its last byte can be seen.                           *)
LEMMA StepsOfQueue ==
  ASSUME IInv, [Next]_vars
  PROVE  [Queue!Next]_(Queue!vars)
<1> DEFINE seen == IF pending = <<>> THEN sent ELSE SubSeq(sent, 1, Len(sent) - 1)
           seen2 == IF pending' = <<>> THEN sent' ELSE SubSeq(sent', 1, Len(sent') - 1)
<1>1. TypeOK /\ ReceivedInOrder
  BY DEF IInv, RecvInv
<1>2. PICK ends : PipeHolds(ends)
  BY DEF IInv
<1>3. SUFFICES \/ /\ \E message \in Message : seen2 = Append(seen, message)
                  /\ received' = received
               \/ /\ received # seen /\ received' = seen /\ seen2 = seen
               \/ seen2 = seen /\ received' = received
  BY DEF Queue!Next, Queue!Send, Queue!Receive, Queue!vars
<1>4. sent \in Seq(Message) /\ Len(sent) \in Nat
  BY <1>1 DEF TypeOK
<1>5. CASE Send
  <2>1. PICK length \in 1 .. MaxLength : sent' = Append(sent, Body(Len(sent) + 1, length))
    BY <1>5 DEF Send
  <2> DEFINE body == Body(Len(sent) + 1, length)
  <2>2. body \in Message
    <3>1. Len(sent) + 1 \in 1 .. MaxMessages
      BY <1>4, <1>5, SizesAssumption DEF Send
    <3> QED
      BY <3>1 DEF Message
  <2>3. pending = <<>> /\ received' = received
    BY <1>5 DEF Send
  <2> HIDE DEF body
  <2>4. SubSeq(sent', 1, Len(sent') - 1) = sent
    <3>1. Len(sent') = Len(sent) + 1 /\ sent' = Append(sent, body)
      BY <1>4, <2>1, <2>2, AppendProperties DEF body
    <3>2. Len(sent') - 1 = Len(sent) /\ Len(sent) \in 0 .. Len(sent)
      BY <1>4, <3>1
    <3>3. SubSeq(Append(sent, body), 1, Len(sent)) = SubSeq(sent, 1, Len(sent))
      BY <1>4, <2>2, <3>2, BeginningStays
    <3>4. SubSeq(sent, 1, Len(sent)) = sent
      BY <1>4, SubSeqFull
    <3> QED
      BY <3>1, <3>2, <3>3, <3>4
  <2>5. CASE pending' = <<>>
    BY <2>1, <2>2, <2>3, <2>5 DEF body
  <2>6. CASE pending' # <<>>
    BY <2>3, <2>4, <2>6
  <2> QED
    BY <2>5, <2>6
<1>6. CASE Appear
  <2>1. pending # <<>> /\ sent' = sent /\ received' = received
    BY <1>6 DEF Appear
  <2>2. Len(sent) > 0
    BY <1>2, <2>1 DEF PipeHolds
  <2> DEFINE most == SubSeq(sent, 1, Len(sent) - 1)
             last == sent[Len(sent)]
  <2>3. last \in Message
    BY <1>4, <2>2
  <2>4. sent = Append(most, last)
    <3>1. Len(sent) \in 1 .. Len(sent) /\ 1 \in 1 .. Len(sent)
      BY <1>4, <2>2
    <3>2. SubSeq(sent, 1, Len(sent)) = most \o <<last>> /\ SubSeq(sent, 1, Len(sent)) = sent
      BY <1>4, <3>1, SubSeqRecursiveSecond, SubSeqFull
    <3>3. most \in Seq(Message)
      <4>1. \A i \in 1 .. Len(sent) - 1 : sent[i] \in Message
        BY <1>4
      <4>2. 1 \in Int /\ Len(sent) - 1 \in Int
        BY <1>4
      <4> QED
        BY <4>1, <4>2, SubSeqProperties
    <3> HIDE DEF most, last
    <3>4. Append(most, last) = most \o <<last>>
      BY <2>3, <3>3, AppendIsConcat
    <3> QED
      BY <3>2, <3>4
  <2> HIDE DEF most, last
  <2>5. CASE pending' = <<>>
    BY <2>1, <2>3, <2>4, <2>5 DEF most
  <2>6. CASE pending' # <<>>
    BY <2>1, <2>6
  <2> QED
    BY <2>5, <2>6
<1>7. CASE BeginRecv
  BY <1>7 DEF BeginRecv
<1>8. CASE Read
  BY <1>8 DEF Read
<1>9. CASE EndRecv
  <2>1. sent' = sent /\ pending' = pending
    BY <1>9 DEF EndRecv
  <2>2. \/ received' = SubSeq(sent, 1, Complete(sent, pending))
        \/ received' = received
    BY <1>2, <1>9, EndRecvResult
  <2>3. SubSeq(sent, 1, Complete(sent, pending)) = seen
    BY <1>4, SubSeqFull DEF Complete
  <2> QED
    BY <2>1, <2>2, <2>3
<1>10. CASE UNCHANGED vars
  BY <1>10 DEF vars
<1> QED
  BY <1>5, <1>6, <1>7, <1>8, <1>9, <1>10 DEF Next

(* The pipe is the queue of messages that the rest of the system takes it    *)
(* for.                                                                      *)
THEOREM QueueImplemented == Spec => ImplementsMessageQueue
<1>1. Init => Queue!Init
  BY DEF Init, Queue!Init
<1>2. IInv /\ [Next]_vars => [Queue!Next]_(Queue!vars)
  BY StepsOfQueue
<1> QED
  BY <1>1, <1>2, Invariance, PTL DEF Spec, ImplementsMessageQueue, Queue!Spec
=============================================================================
