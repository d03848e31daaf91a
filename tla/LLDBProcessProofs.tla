-------------------------- MODULE LLDBProcessProofs --------------------------
(* Proofs about LLDBProcess, for any number of launches and cells, any       *)
(* stack, and any texts and names of C.                                      *)
EXTENDS LLDBProcess, SequenceTheorems, TLAPS

Byte == Unwritten .. 255

-----------------------------------------------------------------------------
(* Blocks of memory: what is written is what is read.                        *)

LEMMA AlignedProps ==
  ASSUME NEW n \in Nat
  PROVE  Aligned(n) \in Nat /\ n <= Aligned(n)
BY DEF Aligned

LEMMA BytesOfNumber ==
  ASSUME NEW n \in Nat
  PROVE  /\ High(n) \in Nat
         /\ n % 256 \in 0 .. 255
         /\ n = (n % 256) + 256 * High(n)
BY DEF High

LEMMA WordBytes ==
  ASSUME NEW n \in UInt32
  PROVE  /\ Word(n) \in Seq(Byte) /\ Len(Word(n)) = 4
         /\ Word(n)[1] + 256 * (Word(n)[2] + 256 * (Word(n)[3] + 256 * Word(n)[4])) = n
<1> DEFINE h == High(n)
           hh == High(h)
           hhh == High(hh)
<1>1. n \in Nat /\ hhh < 256
  BY DEF UInt32
<1>2. n % 256 \in 0 .. 255 /\ h \in Nat /\ n = (n % 256) + 256 * h
  BY <1>1, BytesOfNumber
<1>3. h % 256 \in 0 .. 255 /\ hh \in Nat /\ h = (h % 256) + 256 * hh
  <2>1. h \in Nat
    BY <1>2
  <2> HIDE DEF h
  <2> QED BY ZenonT(30), <2>1, BytesOfNumber
<1>4. hh % 256 \in 0 .. 255 /\ hhh \in Nat /\ hh = (hh % 256) + 256 * hhh
  <2>1. hh \in Nat
    BY <1>3
  <2> HIDE DEF hh
  <2> QED BY ZenonT(30), <2>1, BytesOfNumber
<1>5. Word(n) = <<n % 256, h % 256, hh % 256, hhh>>
  BY DEF Word
<1> HIDE DEF h, hh, hhh
<1>6. 0 .. 255 \subseteq Byte
  BY DEF Byte, Unwritten
<1>7. hhh \in 0 .. 255
  BY <1>1, <1>4
<1>8. Word(n) \in Seq(Byte) /\ Len(Word(n)) = 4
  BY <1>2, <1>3, <1>4, <1>5, <1>6, <1>7
<1>9. /\ Word(n)[1] = n % 256 /\ Word(n)[2] = h % 256
      /\ Word(n)[3] = hh % 256 /\ Word(n)[4] = hhh
  BY <1>5
<1>10. n % 256 \in Int /\ h % 256 \in Int /\ hh % 256 \in Int
  BY <1>2, <1>3, <1>4
<1>11. Word(n)[3] + 256 * Word(n)[4] = hh
  BY <1>4, <1>9
<1>12. Word(n)[2] + 256 * hh = h
  BY <1>3, <1>9
<1>13. Word(n)[1] + 256 * h = n
  BY <1>2, <1>9
<1> QED
  BY <1>8, <1>11, <1>12, <1>13

LEMMA BytesConcat ==
  ASSUME NEW p \in Seq(Byte), NEW q \in Seq(Byte)
  PROVE  /\ p \o q \in Seq(Byte)
         /\ Len(p) \in Nat /\ Len(q) \in Nat
         /\ Len(p \o q) = Len(p) + Len(q)
         /\ \A i \in 1 .. Len(p) : (p \o q)[i] = p[i]
         /\ \A i \in 1 .. Len(q) : (p \o q)[Len(p) + i] = q[i]
<1>1. /\ p \o q \in Seq(Byte)
      /\ Len(p \o q) = Len(p) + Len(q)
      /\ \A i \in 1 .. Len(p) + Len(q) :
           (p \o q)[i] = IF i <= Len(p) THEN p[i] ELSE q[i - Len(p)]
  BY ConcatProperties
<1>2. Len(p) \in Nat /\ Len(q) \in Nat
  BY LenProperties
<1>3. \A i \in 1 .. Len(p) : (p \o q)[i] = p[i]
  BY <1>1, <1>2
<1>4. \A i \in 1 .. Len(q) : (p \o q)[Len(p) + i] = q[i]
  <2> TAKE i \in 1 .. Len(q)
  <2>1. /\ Len(p) + i \in 1 .. Len(p) + Len(q)
        /\ ~(Len(p) + i <= Len(p)) /\ (Len(p) + i) - Len(p) = i
    BY <1>2
  <2>2. (p \o q)[Len(p) + i] =
          IF Len(p) + i <= Len(p) THEN (p \o q)[Len(p) + i] ELSE q[(Len(p) + i) - Len(p)]
    BY <1>1, <2>1
  <2> QED BY <2>1, <2>2
<1> QED
  BY <1>1, <1>2, <1>3, <1>4

LEMMA BytesAssociative ==
  ASSUME NEW p \in Seq(Byte), NEW q \in Seq(Byte), NEW r \in Seq(Byte)
  PROVE  (p \o q) \o r = p \o (q \o r)
BY SMTT(30), ConcatAssociative

(* An int that was written after some bytes is read from behind them.        *)
LEMMA WordIsRead ==
  ASSUME NEW p \in Seq(Byte), NEW n \in UInt32, NEW q \in Seq(Byte)
  PROVE  WordAt((p \o Word(n)) \o q, Len(p) + 1) = n
<1> DEFINE w == Word(n)
           pw == p \o w
           b == pw \o q
<1>1. /\ w \in Seq(Byte) /\ Len(w) = 4
      /\ w[1] + 256 * (w[2] + 256 * (w[3] + 256 * w[4])) = n
  BY WordBytes
<1> HIDE DEF w
<1>2. /\ pw \in Seq(Byte) /\ Len(p) \in Nat /\ Len(pw) = Len(p) + 4
      /\ \A i \in 1 .. 4 : pw[Len(p) + i] = w[i]
  <2>1. /\ pw \in Seq(Byte) /\ Len(p) \in Nat /\ Len(pw) = Len(p) + Len(w)
        /\ \A i \in 1 .. Len(w) : pw[Len(p) + i] = w[i]
    BY <1>1, BytesConcat
  <2> QED BY <1>1, <2>1
<1> HIDE DEF pw
<1>3. \A i \in 1 .. Len(pw) : b[i] = pw[i]
  BY <1>2, BytesConcat
<1> HIDE DEF b
<1>4. \A i \in 1 .. 4 : b[Len(p) + i] = w[i]
  <2> TAKE i \in 1 .. 4
  <2>1. Len(p) + i \in 1 .. Len(pw)
    BY <1>2
  <2> QED BY <1>2, <1>3, <2>1
<1>5. /\ b[Len(p) + 1] = w[1] /\ b[Len(p) + 2] = w[2]
      /\ b[Len(p) + 3] = w[3] /\ b[Len(p) + 4] = w[4]
  BY <1>4
<1>6. /\ (Len(p) + 1) + 1 = Len(p) + 2 /\ (Len(p) + 1) + 2 = Len(p) + 3
      /\ (Len(p) + 1) + 3 = Len(p) + 4
  BY <1>2
<1>7. WordAt(b, Len(p) + 1) = w[1] + 256 * (w[2] + 256 * (w[3] + 256 * w[4]))
  BY <1>5, <1>6 DEF WordAt
<1>8. WordAt(b, Len(p) + 1) = n
  BY <1>1, <1>7
<1> QED
  BY <1>8 DEF b, pw, w

LEMMA ComponentProps ==
  ASSUME NEW s \in Name
  PROVE  /\ Len(s) \in Nat /\ Len(s) \in UInt32 /\ s \in Seq(Byte)
         /\ [k \in 1 .. Aligned(Len(s)) - Len(s) |-> Unwritten] \in Seq(Byte)
         /\ Len([k \in 1 .. Aligned(Len(s)) - Len(s) |-> Unwritten])
              = Aligned(Len(s)) - Len(s)
         /\ Component(s) \in Seq(Byte)
         /\ Len(Component(s)) = 4 + Aligned(Len(s))
<1>1. s \in Seq(Char) /\ Len(s) \in Nat /\ High(High(High(Len(s)))) < 128
  BY DEF Name
<1>2. Len(s) \in UInt32
  <2>1. High(High(High(Len(s)))) \in Nat
    BY <1>1, BytesOfNumber
  <2> QED BY <1>1, <2>1 DEF UInt32
<1>3. s \in Seq(Byte)
  <2>1. Char \subseteq Byte
    BY DEF Char, Byte, Unwritten
  <2> QED BY <1>1, <2>1, SeqMonotonic
<1> DEFINE gap == [k \in 1 .. Aligned(Len(s)) - Len(s) |-> Unwritten]
<1>4. Aligned(Len(s)) - Len(s) \in Nat
  BY SMTT(30), <1>1, AlignedProps
<1>5. Unwritten \in Byte
  BY DEF Byte, Unwritten
<1>6. gap \in Seq(Byte) /\ Len(gap) = Aligned(Len(s)) - Len(s)
  BY <1>4, <1>5
<1> DEFINE w == Word(Len(s))
           ws == w \o s
<1>7. w \in Seq(Byte) /\ Len(w) = 4
  BY <1>2, WordBytes
<1> HIDE DEF w
<1>12. ws \in Seq(Byte) /\ Len(ws) = 4 + Len(s)
  <2>1. ws \in Seq(Byte) /\ Len(ws) = Len(w) + Len(s)
    BY <1>3, <1>7, BytesConcat
  <2> QED BY <1>7, <2>1
<1> HIDE DEF ws
<1> HIDE DEF gap
<1>8. /\ ws \o gap \in Seq(Byte)
      /\ Len(ws \o gap) = (4 + Len(s)) + (Aligned(Len(s)) - Len(s))
  BY <1>6, <1>12, BytesConcat
<1>9. Component(s) = ws \o gap
  BY DEF Component, gap, ws, w
<1>10. (4 + Len(s)) + (Aligned(Len(s)) - Len(s)) = 4 + Aligned(Len(s))
  BY <1>1, AlignedProps
<1>11. Component(s) \in Seq(Byte) /\ Len(Component(s)) = 4 + Aligned(Len(s))
  BY <1>8, <1>9, <1>10
<1> QED
  BY <1>1, <1>2, <1>3, <1>6, <1>11 DEF gap

(* So is a string with its length, and the offset behind it is the writer's. *)
LEMMA ComponentIsRead ==
  ASSUME NEW p \in Seq(Byte), NEW s \in Name, NEW q \in Seq(Byte)
  PROVE  LET b == (p \o Component(s)) \o q
         IN  /\ ComponentAt(b, Len(p) + 1) = s
             /\ After(b, Len(p) + 1) = Len(p \o Component(s)) + 1
<1> DEFINE b == (p \o Component(s)) \o q
           w == Word(Len(s))
           gap == [k \in 1 .. Aligned(Len(s)) - Len(s) |-> Unwritten]
           c == Component(s)
           t == gap \o q
<1>1. /\ Len(s) \in Nat /\ Len(s) \in UInt32 /\ s \in Seq(Byte)
      /\ gap \in Seq(Byte) /\ c \in Seq(Byte) /\ Len(c) = 4 + Aligned(Len(s))
  BY ComponentProps
<1>2. w \in Seq(Byte) /\ Len(w) = 4
  BY <1>1, WordBytes
<1>3. c = (w \o s) \o gap
  BY DEF Component
<1> HIDE DEF w, gap, c
<1> DEFINE pw == p \o w
           st == s \o t
           sg == s \o gap
           pc == p \o c
<1>4. t \in Seq(Byte)
  BY <1>1, BytesConcat
<1>12. sg \in Seq(Byte) /\ pw \in Seq(Byte) /\ pc \in Seq(Byte)
  BY <1>1, <1>2, BytesConcat
<1>13. st = sg \o q
  BY ZenonT(30), <1>1, BytesAssociative
<1>14. c = w \o sg
  BY ZenonT(30), <1>1, <1>2, <1>3, BytesAssociative
<1> HIDE DEF t, sg
<1>15. pc = pw \o sg
  BY SMTT(30), <1>2, <1>12, <1>14, BytesAssociative
<1>16. st \in Seq(Byte)
  BY <1>1, <1>4, BytesConcat
<1> HIDE DEF st, pw, pc
<1>5. b = pw \o st
  <2>1. (pw \o sg) \o q = pw \o (sg \o q)
    BY ZenonT(30), <1>12, BytesAssociative
  <2>2. b = pc \o q
    BY DEF b, pc, c
  <2> QED BY <1>13, <1>15, <2>1, <2>2
<1>6. WordAt(b, Len(p) + 1) = Len(s)
  BY <1>1, <1>5, <1>16, WordIsRead DEF pw, w
<1> HIDE DEF b
<1>7. Len(pc) = Len(p) + 4 + Aligned(Len(s)) /\ Len(p) \in Nat
  <2>1. Len(pc) = Len(p) + Len(c) /\ Len(p) \in Nat
    BY <1>1, BytesConcat DEF pc
  <2> QED BY SMTT(30), <1>1, <2>1, AlignedProps
<1>8. After(b, Len(p) + 1) = Len(pc) + 1
  <2>1. After(b, Len(p) + 1) = Len(p) + 1 + 4 + Aligned(Len(s))
    BY <1>6 DEF After
  <2>2. Aligned(Len(s)) \in Nat
    BY <1>1, AlignedProps
  <2> QED BY <1>7, <2>1, <2>2
<1>9. Len(pw) = Len(p) + 4
  <2>1. Len(pw) = Len(p) + Len(w)
    BY <1>2, BytesConcat DEF pw
  <2> QED BY <1>2, <2>1
<1>10. \A i \in 1 .. Len(s) : b[Len(p) + 4 + i] = s[i]
  <2> TAKE i \in 1 .. Len(s)
  <2>1. Len(st) = Len(s) + Len(t) /\ st[i] = s[i] /\ Len(t) \in Nat
    BY <1>1, <1>4, BytesConcat DEF st
  <2>2. i \in 1 .. Len(st)
    BY <1>1, <2>1
  <2>3. b[Len(pw) + i] = st[i]
    BY <1>5, <1>12, <1>16, <2>2, BytesConcat
  <2> QED BY <1>9, <2>1, <2>3
<1>11. ComponentAt(b, Len(p) + 1) = s
  <2>1. ComponentAt(b, Len(p) + 1) = SubSeq(b, Len(p) + 5, Len(p) + 4 + Len(s))
    <3>1. (Len(p) + 1) + 4 = Len(p) + 5 /\ (Len(p) + 1) + 3 + Len(s) = Len(p) + 4 + Len(s)
      BY <1>1, <1>7
    <3> QED BY <1>6, <3>1 DEF ComponentAt
  <2> DEFINE u == SubSeq(b, Len(p) + 5, Len(p) + 4 + Len(s))
  <2>2. \A i \in Len(p) + 5 .. Len(p) + 4 + Len(s) : b[i] \in Byte
    <3> TAKE i \in Len(p) + 5 .. Len(p) + 4 + Len(s)
    <3>1. i - (Len(p) + 4) \in 1 .. Len(s) /\ Len(p) + 4 + (i - (Len(p) + 4)) = i
      BY <1>1, <1>7
    <3>2. b[i] = s[i - (Len(p) + 4)]
      BY <1>10, <3>1
    <3> QED BY <1>1, <3>1, <3>2, ElementOfSeq
  <2>3. Len(p) + 5 \in Int /\ Len(p) + 4 + Len(s) \in Int
    BY <1>1, <1>7
  <2>4. /\ u \in Seq(Byte)
        /\ Len(u) = IF Len(p) + 5 <= Len(p) + 4 + Len(s)
                      THEN (Len(p) + 4 + Len(s)) - (Len(p) + 5) + 1 ELSE 0
        /\ \A i \in 1 .. (Len(p) + 4 + Len(s)) - (Len(p) + 5) + 1 :
             u[i] = b[(Len(p) + 5) + i - 1]
    BY <2>2, <2>3, SubSeqProperties
  <2> HIDE DEF u
  <2>5. Len(u) = Len(s)
    BY <1>1, <1>7, <2>4
  <2>6. \A i \in 1 .. Len(s) : u[i] = s[i]
    <3> TAKE i \in 1 .. Len(s)
    <3>1. i \in 1 .. (Len(p) + 4 + Len(s)) - (Len(p) + 5) + 1
      BY <1>1, <1>7
    <3>2. (Len(p) + 5) + i - 1 = Len(p) + 4 + i
      BY <1>1, <1>7
    <3> QED BY <1>10, <2>4, <3>1, <3>2
  <2>7. u = s
    BY <1>1, <2>4, <2>5, <2>6, SeqEqual
  <2> QED BY <2>1, <2>7 DEF u
<1> QED
  BY <1>8, <1>11 DEF b, pc, c

(* One round of the loop of prettyPrintStackTrace.                           *)
ReadLine(b, id) ==
  LET toFile == After(b, 9)
      toDirectory == After(b, toFile)
  IN  [id |-> id, function |-> ComponentAt(b, 9),
       path |-> Path(ComponentAt(b, toDirectory), ComponentAt(b, toFile)),
       line |-> WordAt(b, 1), column |-> WordAt(b, 5)]

(* The block of a frame fills what malloc was asked for, and Swift reads all *)
(* of the frame out of it.                                                   *)
LEMMA FrameIsRead ==
  ASSUME NEW f \in Frame, NEW id
  PROVE  /\ FrameBlock(f) \in Memory
         /\ Len(FrameBlock(f).bytes) = FrameBlock(f).size
         /\ ReadLine(FrameBlock(f).bytes, id) = LineOf(f, id)
<1>1. /\ f.function \in Name /\ f.file \in Name /\ f.directory \in Name
      /\ f.line \in UInt32 /\ f.column \in UInt32
  BY ConstantsAssumption
<1>2. Directory(f) \in Name
  <2>1. <<>> \in Name
    BY DEF Name, High
  <2> QED BY <1>1, <2>1 DEF Directory
<1> DEFINE w1 == Word(f.line)
           w2 == Word(f.column)
           c1 == Component(f.function)
           c2 == Component(f.file)
           c3 == Component(Directory(f))
           d  == Directory(f)
<1>3. w1 \in Seq(Byte) /\ Len(w1) = 4 /\ w2 \in Seq(Byte) /\ Len(w2) = 4
  BY <1>1, WordBytes
<1>4. /\ c1 \in Seq(Byte) /\ Len(c1) = 4 + Aligned(Len(f.function))
      /\ c2 \in Seq(Byte) /\ Len(c2) = 4 + Aligned(Len(f.file))
      /\ c3 \in Seq(Byte) /\ Len(c3) = 4 + Aligned(Len(d))
  BY <1>1, <1>2, ComponentProps
<1>5. /\ Aligned(Len(f.function)) \in Nat /\ Aligned(Len(f.file)) \in Nat
      /\ Aligned(Len(d)) \in Nat
  <2>1. Len(f.function) \in Nat /\ Len(f.file) \in Nat /\ Len(d) \in Nat
    BY <1>1, <1>2, ComponentProps
  <2> QED BY <2>1, AlignedProps
<1> DEFINE p2 == w1 \o w2
           p3 == p2 \o c1
           p4 == p3 \o c2
           b  == p4 \o c3
<1>6. FrameBlock(f) = [size |-> BlockSize(f), bytes |-> b]
  BY DEF FrameBlock
<1> HIDE DEF w1, w2, c1, c2, c3, d
<1>7. p2 \in Seq(Byte) /\ Len(p2) = Len(w1) + Len(w2)
  BY <1>3, BytesConcat
<1> DEFINE q3 == c2 \o c3
           q2 == c1 \o q3
           q1 == w2 \o q2
<1>8. q3 \in Seq(Byte)
  BY <1>4, BytesConcat
<1> HIDE DEF p2
<1>9. p3 \in Seq(Byte) /\ Len(p3) = Len(p2) + Len(c1)
  BY <1>4, <1>7, BytesConcat
<1> HIDE DEF p3
<1>10. p4 \in Seq(Byte) /\ Len(p4) = Len(p3) + Len(c2)
  BY <1>4, <1>9, BytesConcat
<1> HIDE DEF p4
<1>11. b \in Seq(Byte) /\ Len(b) = Len(p4) + Len(c3)
  BY <1>4, <1>10, BytesConcat
<1> HIDE DEF q3
<1>12. q2 \in Seq(Byte)
  BY <1>4, <1>8, BytesConcat
<1> HIDE DEF q2
<1>13. q1 \in Seq(Byte)
  BY <1>3, <1>12, BytesConcat
<1> HIDE DEF b
<1>14. b = p3 \o q3
  BY <1>4, <1>9, BytesAssociative DEF b, p4, q3
<1>15. b = p2 \o q2
  BY ZenonT(30), <1>4, <1>7, <1>8, <1>14, BytesAssociative DEF p3, q2
<1>16. b = w1 \o q1
  BY <1>3, <1>12, <1>15, BytesAssociative DEF p2
<1>17. b = b \o <<>> /\ <<>> \in Seq(Byte) /\ w1 = <<>> \o w1 /\ Len(<<>>) = 0
  BY <1>3, <1>11, ConcatEmptySeq, EmptySeq
<1>18. WordAt(b, 1) = f.line
  <2> DEFINE z == Len(<<>>) + 1
  <2>1. WordAt((<<>> \o w1) \o q1, z) = f.line
    BY <1>1, <1>13, <1>17, WordIsRead DEF w1
  <2>2. (<<>> \o w1) \o q1 = b
    BY <1>16, <1>17
  <2>3. z = 1
    OBVIOUS
  <2> HIDE DEF z
  <2> QED BY <2>1, <2>2, <2>3
<1>19. WordAt(b, 5) = f.column
  <2>1. WordAt((w1 \o w2) \o q2, Len(w1) + 1) = f.column
    BY <1>1, <1>3, <1>12, WordIsRead DEF w2
  <2>2. (w1 \o w2) \o q2 = b /\ Len(w1) + 1 = 5
    BY <1>3, <1>15 DEF p2
  <2> QED BY <2>1, <2>2
<1>20. ComponentAt(b, 9) = f.function /\ After(b, 9) = Len(p3) + 1
  <2>1. /\ ComponentAt((p2 \o c1) \o q3, Len(p2) + 1) = f.function
        /\ After((p2 \o c1) \o q3, Len(p2) + 1) = Len(p2 \o c1) + 1
    BY <1>1, <1>7, <1>8, ComponentIsRead DEF c1
  <2>2. Len(p2) + 1 = 9
    BY <1>3, <1>7
  <2>3. p2 \o c1 = p3
    BY DEF p3
  <2>4. /\ ComponentAt(p3 \o q3, 9) = f.function
        /\ After(p3 \o q3, 9) = Len(p3) + 1
    BY <2>1, <2>2, <2>3
  <2> QED BY <1>14, <2>4
<1>21. ComponentAt(b, Len(p3) + 1) = f.file /\ After(b, Len(p3) + 1) = Len(p4) + 1
  <2>1. /\ ComponentAt((p3 \o c2) \o c3, Len(p3) + 1) = f.file
        /\ After((p3 \o c2) \o c3, Len(p3) + 1) = Len(p3 \o c2) + 1
    BY <1>1, <1>4, <1>9, ComponentIsRead DEF c2
  <2>2. (p3 \o c2) \o c3 = b /\ p3 \o c2 = p4
    BY DEF b, p4
  <2> QED BY <2>1, <2>2
<1>22. ComponentAt(b, Len(p4) + 1) = d
  <2>1. ComponentAt((p4 \o c3) \o <<>>, Len(p4) + 1) = d
    BY <1>2, <1>10, <1>17, ComponentIsRead DEF c3, d
  <2>2. (p4 \o c3) \o <<>> = b
    BY <1>17 DEF b
  <2> QED BY <2>1, <2>2
<1>23. ReadLine(b, id) = LineOf(f, id)
  BY <1>18, <1>19, <1>20, <1>21, <1>22 DEF ReadLine, LineOf, d
<1>24. BlockSize(f) = Len(b) /\ BlockSize(f) \in Nat
  <2>1. BlockSize(f) = 4 + 4 + Len(c1) + Len(c2) + Len(c3)
    BY <1>4, <1>5 DEF BlockSize, d
  <2>2. Len(b) = 4 + 4 + Len(c1) + Len(c2) + Len(c3)
    BY <1>3, <1>4, <1>5, <1>7, <1>9, <1>10, <1>11
  <2> QED BY <1>4, <1>5, <2>1, <2>2
<1>25. FrameBlock(f) \in Memory
  BY <1>6, <1>11, <1>24 DEF Memory, Byte
<1> QED
  BY <1>6, <1>23, <1>24, <1>25

(* The description Swift takes out of its block is the text of LLDB, without *)
(* the line break at the end of an error.                                    *)
LEMMA DescriptionIsRead ==
  ASSUME NEW error \in ErrorType, NEW text \in Text
  PROVE  LET d == OwnedDescription(error, text)
             size == DescriptionSize(error, text)
         IN  /\ d \in Memory /\ d # NoBlock
             /\ Len(d.bytes) = d.size /\ d.size = size + 1
             /\ size \in 0 .. Len(text)
             /\ d.bytes[size + 1] = NUL
             /\ CString(d) = SubSeq(text, 1, size)
             /\ CString(d) # NoText
<1> DEFINE size == DescriptionSize(error, text)
           ended == text \o <<NUL>>
           copy == SubSeq(ended, 1, size + 1)
           bytes == IF EndsInBreak(error, text) THEN [copy EXCEPT ![size + 1] = NUL] ELSE copy
           d == OwnedDescription(error, text)
<1>1. text \in Seq(Char) /\ Len(text) \in Nat /\ \A k \in 1 .. Len(text) : text[k] \in Char
  <2>1. text \in Seq(Char)
    BY ConstantsAssumption
  <2> QED BY <2>1, LenProperties, ElementOfSeq
<1>2. text \in Seq(Byte) /\ <<NUL>> \in Seq(Byte) /\ Len(<<NUL>>) = 1 /\ <<NUL>>[1] = NUL
  <2>1. Char \subseteq Byte /\ NUL \in Byte
    BY DEF Char, Byte, Unwritten, NUL
  <2> QED BY <1>1, <2>1, SeqMonotonic
<1>3. /\ size \in 0 .. Len(text)
      /\ ~EndsInBreak(error, text) => size = Len(text)
      /\ EndsInBreak(error, text) => size = Len(text) - 1
  BY <1>1 DEF DescriptionSize, EndsInBreak
<1>4. d = [size |-> size + 1, bytes |-> bytes]
  BY DEF OwnedDescription
<1>5. /\ ended \in Seq(Byte) /\ Len(ended) = Len(text) + 1
      /\ \A k \in 1 .. Len(text) : ended[k] = text[k]
      /\ ended[Len(text) + 1] = NUL
  <2>1. /\ ended \in Seq(Byte) /\ Len(ended) = Len(text) + Len(<<NUL>>)
        /\ \A k \in 1 .. Len(text) : ended[k] = text[k]
        /\ \A k \in 1 .. Len(<<NUL>>) : ended[Len(text) + k] = <<NUL>>[k]
    BY <1>2, BytesConcat
  <2>2. 1 \in 1 .. Len(<<NUL>>)
    BY <1>2
  <2>3. ended[Len(text) + 1] = NUL
    BY <1>2, <2>1, <2>2
  <2> QED BY <1>2, <2>1, <2>3
<1> HIDE DEF size, ended
<1>6. /\ copy \in Seq(Byte) /\ Len(copy) = size + 1
      /\ \A k \in 1 .. size + 1 : copy[k] = ended[k]
  <2>1. \A k \in 1 .. size + 1 : ended[k] \in Byte
    BY <1>1, <1>3, <1>5, ElementOfSeq
  <2>2. size + 1 \in Int /\ size \in Nat /\ 1 <= size + 1
    BY <1>1, <1>3
  <2>3. /\ copy \in Seq(Byte)
        /\ Len(copy) = IF 1 <= size + 1 THEN (size + 1) - 1 + 1 ELSE 0
        /\ \A k \in 1 .. (size + 1) - 1 + 1 : copy[k] = ended[1 + k - 1]
    BY <2>1, <2>2, SubSeqProperties
  <2>4. Len(copy) = size + 1
    BY <2>2, <2>3
  <2>5. \A k \in 1 .. size + 1 : copy[k] = ended[k]
    BY <2>2, <2>3
  <2> QED BY <2>3, <2>4, <2>5
<1> HIDE DEF copy
<1>7. /\ bytes \in Seq(Byte) /\ Len(bytes) = size + 1 /\ bytes[size + 1] = NUL
      /\ \A k \in 1 .. size : bytes[k] = text[k]
  <2>1. size + 1 \in 1 .. Len(copy) /\ size \in Nat
    BY <1>1, <1>3, <1>6
  <2>2. NUL \in Byte
    BY DEF NUL, Byte, Unwritten
  <2>3. CASE EndsInBreak(error, text)
    <3> DEFINE e == [copy EXCEPT ![size + 1] = NUL]
    <3>1. /\ e \in Seq(Byte) /\ Len(e) = Len(copy)
          /\ \A j \in 1 .. Len(copy) : e[j] = IF j = size + 1 THEN NUL ELSE copy[j]
      BY <1>6, <2>1, <2>2, ExceptSeq
    <3>2. bytes = e
      BY <2>3
    <3> HIDE DEF bytes, e
    <3>3. \A k \in 1 .. size : e[k] = text[k]
      BY <1>1, <1>3, <1>5, <1>6, <2>1, <3>1
    <3> QED BY <1>6, <2>1, <3>1, <3>2, <3>3
  <2>4. CASE ~EndsInBreak(error, text)
    <3>1. bytes = copy /\ size = Len(text)
      BY <1>3, <2>4
    <3> HIDE DEF bytes
    <3>2. copy[size + 1] = NUL
      BY <1>5, <1>6, <2>1, <3>1
    <3>3. \A k \in 1 .. size : copy[k] = text[k]
      BY <1>5, <1>6, <2>1, <3>1
    <3> QED BY <1>6, <3>1, <3>2, <3>3
  <2> QED BY <2>3, <2>4
<1> HIDE DEF bytes
<1>8. \A k \in 1 .. size : bytes[k] # NUL
  <2> TAKE k \in 1 .. size
  <2>1. k \in 1 .. Len(text) /\ bytes[k] = text[k]
    BY <1>1, <1>3, <1>7
  <2>2. text[k] \in Char
    BY <1>1, <2>1
  <2>3. text[k] # NUL
    BY <2>2 DEF Char, NUL
  <2> QED BY <2>1, <2>3
<1>9. d \in Memory /\ d # NoBlock /\ d.bytes = bytes /\ d.size = size + 1
  <2>1. size + 1 \in Nat /\ size + 1 # 0
    BY <1>1, <1>3
  <2> QED BY <1>4, <1>7, <2>1 DEF Memory, NoBlock, Byte
<1>10. CString(d) = SubSeq(bytes, 1, size)
  <2> DEFINE End(k) == k \in 1 .. Len(bytes) /\ bytes[k] = NUL
                         /\ \A j \in 1 .. k - 1 : bytes[j] # NUL
             end == CHOOSE k \in 1 .. Len(d.bytes) :
                      /\ d.bytes[k] = NUL
                      /\ \A j \in 1 .. k - 1 : d.bytes[j] # NUL
  <2>1. size \in Nat
    BY <1>1, <1>3
  <2>2. End(size + 1)
    BY <1>7, <1>8, <2>1
  <2>3. \A k : End(k) => k = size + 1
    <3> SUFFICES ASSUME NEW k, End(k) PROVE k = size + 1
      OBVIOUS
    <3>1. k \in 1 .. size + 1 /\ bytes[k] = NUL
      BY <1>7
    <3>2. k \notin 1 .. size
      BY <1>8, <3>1
    <3> QED BY <2>1, <3>1, <3>2
  <2>4. end = size + 1
    <3>1. end = CHOOSE k \in 1 .. Len(bytes) :
                  bytes[k] = NUL /\ \A j \in 1 .. k - 1 : bytes[j] # NUL
      BY <1>9
    <3>2. \A k \in 1 .. Len(bytes) :
            (bytes[k] = NUL /\ \A j \in 1 .. k - 1 : bytes[j] # NUL) <=> k = size + 1
      BY <2>2, <2>3
    <3>3. size + 1 \in 1 .. Len(bytes)
      BY <2>2
    <3> QED BY <3>1, <3>2, <3>3
  <2>5. CString(d) = SubSeq(d.bytes, 1, end - 1)
    BY DEF CString
  <2> HIDE DEF end
  <2>6. end - 1 = size
    BY <2>1, <2>4
  <2> QED BY <1>9, <2>5, <2>6
<1>11. /\ SubSeq(bytes, 1, size) = SubSeq(text, 1, size)
       /\ SubSeq(text, 1, size) \in Seq(Char)
  <2>1. size \in Nat /\ size \in Int
    BY <1>1, <1>3
  <2>2. \A k \in 1 .. size : bytes[k] = text[k] /\ text[k] \in Char /\ bytes[k] \in Char
    BY <1>1, <1>3, <1>7
  <2> DEFINE s1 == SubSeq(bytes, 1, size)
             s2 == SubSeq(text, 1, size)
  <2>3. /\ s1 \in Seq(Char) /\ Len(s1) = IF 1 <= size THEN size - 1 + 1 ELSE 0
        /\ \A i \in 1 .. size - 1 + 1 : s1[i] = bytes[1 + i - 1]
    BY <2>1, <2>2, SubSeqProperties
  <2>4. /\ s2 \in Seq(Char) /\ Len(s2) = IF 1 <= size THEN size - 1 + 1 ELSE 0
        /\ \A i \in 1 .. size - 1 + 1 : s2[i] = text[1 + i - 1]
    BY <2>1, <2>2, SubSeqProperties
  <2> HIDE DEF s1, s2
  <2>5. Len(s1) = size /\ Len(s2) = size
    BY <2>1, <2>3, <2>4
  <2>6. \A i \in 1 .. size : s1[i] = s2[i]
    BY <2>1, <2>2, <2>3, <2>4
  <2>7. s1 = s2
    BY <2>3, <2>4, <2>5, <2>6, SeqEqual
  <2> QED BY <2>4, <2>7 DEF s1, s2
<1>12. CString(d) # NoText
  <2>1. CString(d) \in Seq(Char)
    BY <1>10, <1>11
  <2>2. NoText \notin Seq(Char)
    <3> SUFFICES ASSUME NoText \in Seq(Char) PROVE FALSE
      OBVIOUS
    <3>1. Len(NoText) = 1 /\ NoText[1] = Unwritten
      BY DEF NoText
    <3>2. NoText[1] \in Char
      BY <3>1, ElementOfSeq
    <3> QED BY <3>1, <3>2 DEF Char, Unwritten
  <2> QED BY <2>1, <2>2
<1> QED
  BY <1>3, <1>7, <1>9, <1>10, <1>11, <1>12 DEF size

-----------------------------------------------------------------------------
(* The inductive invariant.                                                  *)

(* Cells begin after a launch that succeeded, and a report begins with       *)
(* nothing of an earlier one.                                                *)
Started ==
  /\ cell = 0 => phase \in {"down", "ready"} /\ errorStreamEnd = 0
  /\ phase = "down" => cell = 0
  /\ phase \in {"cell", "returned", "report", "trace"} =>
       next = 1 /\ frames = <<>> /\ lines = <<>>

(* What execute has returned and Swift has not taken over yet.               *)
Evaluated ==
  /\ phase # "returned" => description = NoBlock
  /\ phase = "returned" =>
       IF code = 1 THEN description = NoBlock
       ELSE /\ result.text \in Text
            /\ \E error \in ErrorType :
                 /\ (code = 0) <=> (error = "Invalid")
                 /\ description = OwnedDescription(error, result.text)

(* The blocks that are allocated, exactly.                                   *)
FrameBlocks(S) == {<<"frames">>} \cup {<<"frame", k>> : k \in S}
Allocated ==
  /\ phase = "returned" => live \subseteq {<<"description">>}
  /\ phase = "serialise" => live = FrameBlocks(1 .. Len(frames))
  /\ phase = "print" => live = FrameBlocks(next .. Len(frames))
  /\ phase \notin {"returned", "serialise", "print"} => live = {}

(* The trace so far: which frame of the stack each block was made from, and  *)
(* each line that is printed.                                                *)
Line == {LineOf(f, k) : f \in Frame, k \in Nat}
Looked == IF phase = "serialise" THEN next - 1 ELSE Len(stack)
Traces(place, blocks, trace, frame, looked) ==
  /\ \A k, l \in DOMAIN blocks : k < l => place[k] < place[l]
  /\ {place[k] : k \in DOMAIN blocks} = {p \in 1 .. looked : IsShown(frame[p])}
  /\ \A k \in DOMAIN blocks : blocks[k] = FrameBlock(frame[place[k]])
  /\ \A k \in DOMAIN trace : trace[k] = LineOf(frame[place[k]], k)
Traced ==
  /\ stack \in Seq(Frame) /\ lines \in Seq(Line)
  /\ phase = "serialise" => lines = <<>> /\ Len(frames) < next
  /\ phase = "print" => Len(lines) = next - 1 /\ next <= Len(frames) + 1
  /\ phase \in {"serialise", "print"} =>
       \E place \in [DOMAIN frames -> DOMAIN stack] :
         Traces(place, frames, lines, stack, Looked)

(* What is in the file after errorStreamEnd was written by this cell.        *)
WrittenByCell ==
  /\ err \in Seq((0 .. MaxCells) \X Seq(Char))
  /\ phase \in {"cell", "returned", "report"} =>
       \A k \in errorStreamEnd + 1 .. Len(err) : err[k][1] = cell

IInv ==
  /\ TypeOK /\ OneLaunch /\ InBounds /\ DescriptionArrives /\ StderrIsTheCells
  /\ Started /\ Evaluated /\ Allocated /\ Traced /\ WrittenByCell

-----------------------------------------------------------------------------
(* What a call of execute returns and leaves behind.                         *)
ErrLine == (0 .. MaxCells) \X Seq(Char)

LEMMA WrittenProps ==
  ASSUME TypeOK, NEW written \in Written
  PROVE  written \in Seq(ErrLine) /\ \A k \in 1 .. Len(written) : written[k][1] = cell
<1>1. cell \in 0 .. MaxCells /\ ErrorLine \subseteq Seq(Char) /\ StackTrace \in Seq(Char)
  BY ConstantsAssumption DEF TypeOK, StackTrace, Char
<1>2. \A l \in ErrorLine : <<cell, l>> \in ErrLine
  BY <1>1 DEF ErrLine
<1>3. <<cell, StackTrace>> \in ErrLine
  BY <1>1 DEF ErrLine
<1>4. CASE written = <<>>
  BY <1>4
<1>5. ASSUME NEW l \in ErrorLine, written = <<<<cell, l>>>>
      PROVE  written \in Seq(ErrLine) /\ \A k \in 1 .. Len(written) : written[k][1] = cell
  BY <1>2, <1>5
<1>6. ASSUME NEW l \in ErrorLine, written = <<<<cell, l>>, <<cell, StackTrace>>>>
      PROVE  written \in Seq(ErrLine) /\ \A k \in 1 .. Len(written) : written[k][1] = cell
  <2>1. written \in Seq(ErrLine)
    BY <1>2, <1>3, <1>6
  <2>2. Len(written) = 2 /\ written[1] = <<cell, l>> /\ written[2] = <<cell, StackTrace>>
    BY <1>6
  <2> QED BY <2>1, <2>2
<1> QED
  BY <1>4, <1>5, <1>6 DEF Written

LEMMA ExecuteProps ==
  ASSUME IInv, Execute
  PROVE  /\ result'.error \in ErrorType /\ code' \in 0 .. 2 /\ state' \in StateType
         /\ description' = NoBlock \/ description' \in Memory
         /\ Evaluated'
         /\ live' \subseteq {<<"description">>}
         /\ WrittenByCell' /\ Len(err) <= Len(err')
         /\ stack' \in Seq(Frame)
<1>1. PICK r \in Outcome, written \in Written :
       LET error == IF r.error = "Invalid" /\ r.text = NoText THEN "Generic" ELSE r.error
       IN  /\ result' = r
           /\ code' = IF error = "Invalid" THEN 0 ELSE IF error = "Generic" THEN 1 ELSE 2
           /\ IF error = "Generic"
                THEN description' = NoBlock /\ UNCHANGED live
                ELSE /\ description' = OwnedDescription(error, r.text)
                     /\ live' = live \cup {<<"description">>}
           /\ err' = err \o written
           /\ state' \in IF error = "Expression" THEN StateType ELSE {"Stopped"}
           /\ IF error = "Expression" /\ state' = "Stopped"
                THEN stack' \in Stacks ELSE stack' = <<>>
  BY DEF Execute
<1> DEFINE error == IF r.error = "Invalid" /\ r.text = NoText THEN "Generic" ELSE r.error
<1>2. phase = "cell" /\ phase' = "returned" /\ cell' = cell /\ errorStreamEnd' = errorStreamEnd
  BY DEF Execute
<1>3. /\ r.error \in ErrorType /\ error \in ErrorType
      /\ error # "Generic" => r.text \in Text
  BY DEF Outcome, ErrorType
<1>4. live = {}
  BY <1>2 DEF IInv, Allocated
<1>5. live' \subseteq {<<"description">>}
  BY <1>1, <1>4
<1>6. state' \in StateType
  BY <1>1 DEF StateType
<1>7. code' \in 0 .. 2 /\ ((code' = 1) <=> (error = "Generic")) /\ ((code' = 0) <=> (error = "Invalid"))
  BY <1>1
<1>8. error # "Generic" => description' = OwnedDescription(error, r.text)
  BY <1>1
<1>9. error = "Generic" => description' = NoBlock
  BY <1>1
<1>10. result' = r
  BY <1>1
<1> HIDE DEF error
<1>11. Evaluated'
  BY <1>2, <1>3, <1>7, <1>8, <1>9, <1>10 DEF Evaluated
<1>12. description' = NoBlock \/ description' \in Memory
  BY <1>3, <1>8, <1>9, DescriptionIsRead
<1>13. WrittenByCell' /\ Len(err) <= Len(err')
  <2>1. written \in Seq(ErrLine) /\ \A k \in 1 .. Len(written) : written[k][1] = cell
    BY WrittenProps DEF IInv
  <2>2. /\ err \in Seq(ErrLine)
        /\ \A k \in errorStreamEnd + 1 .. Len(err) : err[k][1] = cell
    BY <1>2 DEF IInv, WrittenByCell, ErrLine
  <2>3. err' = err \o written
    BY <1>1
  <2>4. /\ err' \in Seq(ErrLine) /\ Len(err') = Len(err) + Len(written)
        /\ \A i \in 1 .. Len(err) + Len(written) :
             err'[i] = IF i <= Len(err) THEN err[i] ELSE written[i - Len(err)]
    BY <2>1, <2>2, <2>3, ConcatProperties
  <2>5. Len(err) \in Nat /\ Len(written) \in Nat /\ errorStreamEnd \in Nat
    BY <2>1, <2>2 DEF IInv, TypeOK
  <2>6. \A k \in errorStreamEnd + 1 .. Len(err') : err'[k][1] = cell
    <3> TAKE k \in errorStreamEnd + 1 .. Len(err')
    <3>1. CASE k <= Len(err)
      BY <2>2, <2>4, <2>5, <3>1
    <3>2. CASE k > Len(err)
      <4>1. k - Len(err) \in 1 .. Len(written) /\ err'[k] = written[k - Len(err)]
        BY <2>4, <2>5, <3>2
      <4> QED BY <2>1, <4>1
    <3> QED BY <2>5, <3>1, <3>2
  <2> QED BY SMTT(30), <1>2, <2>4, <2>5, <2>6 DEF WrittenByCell, ErrLine
<1>14. stack' \in Seq(Frame)
  <2>1. Stacks \subseteq Seq(Frame)
    BY ConstantsAssumption DEF Stacks
  <2>2. stack' \in Stacks \/ stack' = <<>>
    BY <1>1
  <2>3. <<>> \in Seq(Frame)
    BY EmptySeq
  <2>4. CASE stack' \in Stacks
    BY <2>1, <2>4
  <2>5. CASE stack' = <<>>
    BY <2>3, <2>5
  <2> QED BY <2>2, <2>4, <2>5
<1> QED
  BY <1>3, <1>5, <1>6, <1>7, <1>10, <1>11, <1>12, <1>13, <1>14

(* A round of the loop that fills the blocks.                                *)
LEMMA SerialiseProps ==
  ASSUME IInv, SerialiseFrame
  PROVE  /\ next \in 1 .. Len(stack) /\ stack[next] \in Frame /\ Len(frames) \in Nat
         /\ frames \in Seq(Memory)
         /\ ~IsShown(stack[next]) => frames' = frames /\ live' = live
         /\ IsShown(stack[next]) =>
              /\ frames' \in Seq(Memory) /\ Len(frames') = Len(frames) + 1
              /\ \A k \in 1 .. Len(frames) : frames'[k] = frames[k]
              /\ frames'[Len(frames')] = FrameBlock(stack[next])
              /\ live' = live \cup {<<"frame", Len(frames')>>}
<1>1. next \in 1 .. Len(stack) /\ stack \in Seq(Frame) /\ frames \in Seq(Memory)
  BY DEF IInv, TypeOK, Traced, SerialiseFrame
<1>2. stack[next] \in Frame /\ Len(frames) \in Nat
  BY <1>1, ElementOfSeq
<1>3. FrameBlock(stack[next]) \in Memory
  BY <1>2, FrameIsRead
<1>4. ~IsShown(stack[next]) => frames' = frames /\ live' = live
  BY DEF SerialiseFrame, IsShown
<1>5. ASSUME IsShown(stack[next])
      PROVE  /\ frames' = Append(frames, FrameBlock(stack[next]))
             /\ live' = live \cup {<<"frame", Len(frames')>>}
  BY <1>5 DEF SerialiseFrame, IsShown
<1>6. ASSUME IsShown(stack[next])
      PROVE  /\ frames' \in Seq(Memory) /\ Len(frames') = Len(frames) + 1
             /\ \A k \in 1 .. Len(frames) : frames'[k] = frames[k]
             /\ frames'[Len(frames')] = FrameBlock(stack[next])
  <2> DEFINE e == FrameBlock(stack[next])
  <2>1. frames' = Append(frames, e)
    BY <1>5, <1>6
  <2> HIDE DEF e
  <2>2. e \in Memory
    BY <1>3 DEF e
  <2> QED BY <1>1, <2>1, <2>2, AppendProperties DEF e
<1> QED
  BY <1>1, <1>2, <1>4, <1>5, <1>6

(* A round of the loop that prints a line and frees a block.                 *)
LEMMA PrintProps ==
  ASSUME IInv, PrintFrame
  PROVE  /\ next \in 1 .. Len(frames) /\ Len(lines) = next - 1
         /\ lines' = Append(lines, ReadLine(frames[next].bytes, next))
<1>1. lines' = Append(lines, ReadLine(frames[next].bytes, next))
  BY DEF PrintFrame, ReadLine
<1>2. next \in 1 .. Len(frames) /\ Len(lines) = next - 1
  BY DEF IInv, TypeOK, Traced, PrintFrame
<1> QED
  BY <1>1, <1>2

-----------------------------------------------------------------------------
(* Each part of the invariant is kept.                                       *)
LEMMA Initially == Init => IInv
<1> SUFFICES ASSUME Init PROVE IInv
  OBVIOUS
<1>1. TypeOK
  BY ConstantsAssumption DEF Init, TypeOK, Global, StateType, ErrorType
<1>2. OneLaunch /\ InBounds /\ DescriptionArrives /\ StderrIsTheCells
  BY DEF Init, OneLaunch, InBounds, DescriptionArrives, StderrIsTheCells
<1>3. Started /\ Evaluated /\ Allocated /\ Traced /\ WrittenByCell
  BY ConstantsAssumption DEF Init, Started, Evaluated, Allocated, Traced, WrittenByCell
<1> QED
  BY <1>1, <1>2, <1>3 DEF IInv

LEMMA TypesKept ==
  ASSUME IInv, [Next]_vars
  PROVE  TypeOK'
<1>1. TypeOK /\ Started /\ Traced
  BY DEF IInv
<1> USE DEF TypeOK, callVars, traceVars, errVars
<1>2. CASE Launch
  <2>1. cell = 0 /\ errorStreamEnd = 0
    BY <1>1, <1>2 DEF Launch, Started
  <2>2. launches' \in 0 .. MaxLaunches
    BY <1>1, <1>2, ConstantsAssumption DEF Launch
  <2>3. globals' \in [Global -> 0 .. MaxLaunches]
    <3>1. PICK failed \in 0 .. 4 :
            globals' = [g \in Global |->
              IF failed = 0 \/ Order[g] < failed THEN launches'
              ELSE IF Order[g] = failed THEN 0 ELSE globals[g]]
      BY <1>2 DEF Launch
    <3>2. 0 \in 0 .. MaxLaunches
      BY ConstantsAssumption
    <3> QED BY <1>1, <2>2, <3>1, <3>2
  <2>4. phase' \in {phase, "ready"} /\ state' \in StateType /\ err' \in {<<>>, err}
    BY <1>1, <1>2 DEF Launch, StateType
  <2>5. errorStreamEnd' \in 0 .. Len(err')
    BY <1>1, <1>2, <2>1, <2>4 DEF Launch
  <2> QED BY <1>1, <1>2, <2>2, <2>3, <2>4, <2>5 DEF Launch
<1>3. CASE InitFails
  BY <1>1, <1>3 DEF InitFails
<1>4. CASE BeginCell
  <2>1. err \in Seq((0 .. MaxCells) \X Seq(Char))
    BY DEF IInv, WrittenByCell
  <2>2. Len(err) \in 0 .. Len(err)
    BY <2>1
  <2> QED BY <1>1, <1>4, <2>2, ConstantsAssumption DEF BeginCell, ErrorType
<1>5. CASE Execute
  <2>1. next' = 1 /\ frames' = <<>> /\ Len(frames') = 0
    BY <1>1, <1>5 DEF Execute, Started
  <2>2. stack' \in Seq(Frame) /\ Len(err) <= Len(err') /\ err' \in Seq(ErrLine)
    BY <1>5, ExecuteProps DEF WrittenByCell, ErrLine
  <2>3. next' \in 1 .. Len(stack') + 1 /\ Len(frames') <= Len(stack')
    BY <2>1, <2>2
  <2>4. errorStreamEnd' \in 0 .. Len(err')
    BY <1>1, <1>5, <2>2 DEF Execute
  <2> QED BY <1>1, <1>5, <2>1, <2>3, <2>4, ExecuteProps DEF Execute
<1>6. CASE TakeDescription
  BY <1>1, <1>6 DEF TakeDescription
<1>7. CASE FetchStderr
  <2>1. err \in Seq((0 .. MaxCells) \X Seq(Char))
    BY DEF IInv, WrittenByCell
  <2>2. Len(err) \in 0 .. Len(err)
    BY <2>1
  <2>3. phase' \in {"trace", "ready", "trapped"} /\ errorStreamEnd' = Len(err)
    BY <1>7 DEF FetchStderr
  <2> QED BY <1>1, <1>7, <2>2, <2>3 DEF FetchStderr
<1>8. CASE BeginTrace
  BY <1>1, <1>8 DEF BeginTrace
<1>9. CASE SerialiseFrame
  <2>1. Len(frames) < next
    BY <1>1, <1>9 DEF SerialiseFrame, Traced
  <2>2. Len(frames') <= Len(stack) /\ frames' \in Seq(Memory)
    BY <1>9, <2>1, SerialiseProps
  <2>3. next' \in 1 .. Len(stack) + 1 /\ stack' = stack
    BY <1>9, SerialiseProps DEF SerialiseFrame
  <2> QED BY <1>1, <1>9, <2>2, <2>3 DEF SerialiseFrame
<1>10. CASE EndSerialise
  BY <1>1, <1>10 DEF EndSerialise
<1>11. CASE PrintFrame
  <2>1. next' \in 1 .. Len(stack) + 1 /\ stack' = stack /\ frames' = frames
    BY <1>1, <1>11, PrintProps DEF PrintFrame, Traced
  <2> QED BY <1>1, <1>11, <2>1 DEF PrintFrame
<1>12. CASE EndPrint
  BY <1>1, <1>12 DEF EndPrint
<1>13. CASE UNCHANGED vars
  BY <1>1, <1>13 DEF vars
<1> QED
  BY <1>2, <1>3, <1>4, <1>5, <1>6, <1>7, <1>8, <1>9, <1>10, <1>11, <1>12, <1>13 DEF Next

LEMMA OneLaunchKept ==
  ASSUME IInv, [Next]_vars
  PROVE  OneLaunch' /\ Started'
<1>1. OneLaunch /\ Started /\ TypeOK
  BY DEF IInv
<1> USE DEF OneLaunch, Started, callVars, traceVars, errVars
<1>2. CASE Launch
  <2>1. PICK failed \in 0 .. 4 :
          /\ globals' = [g \in Global |->
               IF failed = 0 \/ Order[g] < failed THEN launches'
               ELSE IF Order[g] = failed THEN 0 ELSE globals[g]]
          /\ IF failed = 0 THEN phase' = "ready" /\ state' = "Stopped"
                           ELSE UNCHANGED <<phase, state>>
    BY <1>2 DEF Launch
  <2>2. phase = "down" /\ cell' = cell /\ errorStreamEnd' = errorStreamEnd
    BY <1>2 DEF Launch
  <2>3. CASE failed = 0
    BY <1>1, <2>1, <2>2, <2>3
  <2>4. CASE failed # 0
    BY <1>1, <2>1, <2>2, <2>4
  <2> QED BY <2>3, <2>4
<1>3. CASE InitFails
  BY <1>1, <1>3 DEF InitFails
<1>4. CASE BeginCell
  <2>1. cell' # 0 /\ phase' = "cell"
    BY <1>1, <1>4 DEF BeginCell, TypeOK
  <2> QED BY <1>1, <1>4, <2>1 DEF BeginCell
<1>5. CASE Execute
  BY <1>1, <1>5 DEF Execute
<1>6. CASE TakeDescription
  <2>1. phase' \in {"ready", "stopping", "report"}
    BY <1>6 DEF TakeDescription
  <2> QED BY <1>1, <1>6, <2>1 DEF TakeDescription
<1>7. CASE FetchStderr
  <2>1. phase' \in {"trace", "ready", "trapped"}
    BY <1>7 DEF FetchStderr
  <2> QED BY <1>1, <1>7, <2>1 DEF FetchStderr
<1>8. CASE BeginTrace
  BY <1>1, <1>8 DEF BeginTrace
<1>9. CASE SerialiseFrame
  BY <1>1, <1>9 DEF SerialiseFrame
<1>10. CASE EndSerialise
  BY <1>1, <1>10 DEF EndSerialise
<1>11. CASE PrintFrame
  BY <1>1, <1>11 DEF PrintFrame
<1>12. CASE EndPrint
  BY <1>1, <1>12 DEF EndPrint
<1>13. CASE UNCHANGED vars
  BY <1>1, <1>13 DEF vars
<1> QED
  BY <1>2, <1>3, <1>4, <1>5, <1>6, <1>7, <1>8, <1>9, <1>10, <1>11, <1>12, <1>13 DEF Next

LEMMA InBoundsKept ==
  ASSUME IInv, [Next]_vars
  PROVE  InBounds'
<1>1. InBounds /\ Evaluated /\ TypeOK
  BY DEF IInv
<1> USE DEF InBounds, callVars, traceVars, errVars
<1>2. ASSUME description' \in {description, NoBlock}, frames' \in {frames, <<>>}
      PROVE  InBounds'
  BY <1>1, <1>2
<1>3. CASE Execute
  <2>1. Evaluated' /\ phase' = "returned" /\ frames' = frames
    BY <1>3, ExecuteProps DEF Execute
  <2>2. CASE description' = NoBlock
    BY <1>1, <2>1, <2>2
  <2>3. CASE description' # NoBlock
    <3>1. PICK error \in ErrorType : description' = OwnedDescription(error, result'.text)
      BY <2>1, <2>3 DEF Evaluated
    <3>2. result'.text \in Text
      BY <2>1, <2>3 DEF Evaluated
    <3>3. /\ Len(description'.bytes) = description'.size
          /\ description'.size = DescriptionSize(error, result'.text) + 1
          /\ description'.bytes[DescriptionSize(error, result'.text) + 1] = NUL
          /\ DescriptionSize(error, result'.text) \in Nat /\ description' \in Memory
      <4>1. DescriptionSize(error, result'.text) \in 0 .. Len(result'.text)
        BY <3>2, DescriptionIsRead
      <4> QED BY <3>1, <3>2, <4>1, DescriptionIsRead
    <3>4. description'.bytes \in Seq(Unwritten .. 255)
      BY <3>3 DEF Memory
    <3>5. DescriptionSize(error, result'.text) + 1 \in DOMAIN description'.bytes
      BY <3>3, <3>4
    <3>6. Len(description'.bytes) <= description'.size
      BY <3>3
    <3> QED BY <1>1, <2>1, <3>3, <3>5, <3>6
  <2> QED BY <2>2, <2>3
<1>4. CASE SerialiseFrame
  <2>1. description' = description
    BY <1>4 DEF SerialiseFrame
  <2>2. CASE ~IsShown(stack[next])
    BY <1>2, <1>4, <2>1, <2>2, SerialiseProps
  <2>3. CASE IsShown(stack[next])
    <3>1. /\ frames' \in Seq(Memory) /\ Len(frames') = Len(frames) + 1
          /\ \A k \in 1 .. Len(frames) : frames'[k] = frames[k]
          /\ frames'[Len(frames')] = FrameBlock(stack[next])
          /\ Len(frames) \in Nat /\ frames \in Seq(Memory)
      BY <1>4, <2>3, SerialiseProps
    <3>2. FrameBlock(stack[next]) \in Memory /\
          Len(FrameBlock(stack[next]).bytes) = FrameBlock(stack[next]).size
      BY <1>4, FrameIsRead, SerialiseProps
    <3>3. \A k \in 1 .. Len(frames') : Len(frames'[k].bytes) <= frames'[k].size
      <4> TAKE k \in 1 .. Len(frames')
      <4>1. CASE k = Len(frames')
        <5>1. FrameBlock(stack[next]).size <= FrameBlock(stack[next]).size
          BY <3>2 DEF Memory
        <5> QED BY <3>1, <3>2, <4>1, <5>1
      <4>2. CASE k # Len(frames')
        <5>1. k \in 1 .. Len(frames)
          BY <3>1, <4>2
        <5> QED BY <1>1, <3>1, <5>1
      <4> QED BY <4>1, <4>2
    <3> QED BY <1>1, <2>1, <3>1, <3>3
  <2> QED BY <2>2, <2>3
<1>5. CASE Launch \/ InitFails
  BY <1>2, <1>5 DEF Launch, InitFails
<1>6. CASE BeginCell \/ TakeDescription
  BY <1>2, <1>6 DEF BeginCell, TakeDescription
<1>7. CASE FetchStderr \/ BeginTrace
  BY <1>2, <1>7 DEF FetchStderr, BeginTrace
<1>8. CASE EndSerialise \/ PrintFrame \/ EndPrint
  BY <1>2, <1>8 DEF EndSerialise, PrintFrame, EndPrint
<1>9. CASE UNCHANGED vars
  BY <1>2, <1>9 DEF vars
<1> QED
  BY <1>3, <1>4, <1>5, <1>6, <1>7, <1>8, <1>9 DEF Next

(* What Swift takes out of the block is what LLDB said.                      *)
LEMMA TakenIsTold ==
  ASSUME IInv, TakeDescription
  PROVE  DescriptionArrives'
<1> DEFINE text == result.text
<1>1. phase = "returned" /\ Evaluated /\ code \in 0 .. 2
  BY DEF IInv, TypeOK, TakeDescription
<1>2. result' = result /\ code' = code
  BY DEF TakeDescription, callVars
<1>3. told' = IF description = NoBlock THEN NoText ELSE CString(description)
  BY DEF TakeDescription
<1>4. CASE code = 1
  <2>1. told' = NoText
    BY <1>1, <1>3, <1>4 DEF Evaluated
  <2> QED BY <1>2, <1>4, <2>1 DEF DescriptionArrives
<1>5. CASE code # 1
  <2>1. PICK error \in ErrorType :
          /\ (code = 0) <=> (error = "Invalid")
          /\ description = OwnedDescription(error, text)
    BY <1>1, <1>5 DEF Evaluated
  <2>2. text \in Text
    BY <1>1, <1>5 DEF Evaluated
  <2> DEFINE size == DescriptionSize(error, text)
  <2>3. /\ description # NoBlock
        /\ CString(description) = SubSeq(text, 1, size)
        /\ CString(description) # NoText
    BY <2>1, <2>2, DescriptionIsRead
  <2>4. told' = SubSeq(text, 1, size) /\ told' # NoText
    BY <1>3, <2>3
  <2>5. text \in Seq(Char) /\ Len(text) \in Nat
    BY <2>2, ConstantsAssumption
  <2>6. CASE EndsInBreak(error, text)
    <3>1. code = 2 /\ size = Len(text) - 1 /\ text # <<>> /\ text[Len(text)] \in {LF, CR}
      BY <1>1, <1>5, <2>1, <2>6 DEF EndsInBreak, DescriptionSize
    <3>2. Len(text) \in 1 .. Len(text)
      BY <2>5, <3>1, EmptySeq
    <3>3. text = SubSeq(text, 1, Len(text) - 1) \o <<text[Len(text)]>>
      <4>1. SubSeq(text, 1, Len(text)) = SubSeq(text, 1, Len(text) - 1) \o <<text[Len(text)]>>
        <5>1. Len(text) \in 1 .. Len(text) /\ 1 \in 1 .. Len(text)
          BY <2>5, <3>2
        <5> QED BY <2>5, <5>1, SubSeqRecursiveSecond
      <4> QED BY <2>5, <4>1, SubSeqFull
    <3>4. text \in {told' \o <<LF>>, told' \o <<CR>>}
      BY <2>4, <3>1, <3>3
    <3>5. told' # text
      <4>1. told' = SubSeq(text, 1, Len(text) - 1)
        BY <2>4, <3>1
      <4>2. \A i \in 1 .. Len(text) - 1 : text[i] \in Char
        BY <2>5, ElementOfSeq
      <4>3. Len(told') = IF 1 <= Len(text) - 1 THEN (Len(text) - 1) - 1 + 1 ELSE 0
        <5>1. 1 \in Int /\ Len(text) - 1 \in Int
          BY <2>5
        <5> QED BY <4>1, <4>2, <5>1, SubSeqProperties
      <4>4. Len(told') # Len(text)
        BY <2>5, <3>2, <4>3
      <4> QED BY <4>4
    <3> QED BY <1>2, <2>4, <3>1, <3>4, <3>5 DEF DescriptionArrives
  <2>7. CASE ~EndsInBreak(error, text)
    <3>1. told' = text
      <4>1. size = Len(text)
        BY <2>7 DEF DescriptionSize
      <4> QED BY <2>4, <2>5, <4>1, SubSeqFull
    <3>2. code = 2 => (text = <<>> \/ text[Len(text)] \notin {LF, CR})
      BY <2>1, <2>7 DEF EndsInBreak
    <3> QED BY <1>2, <1>5, <2>4, <3>1, <3>2 DEF DescriptionArrives
  <2> QED BY <2>6, <2>7
<1> QED
  BY <1>4, <1>5

LEMMA DescriptionArrivesKept ==
  ASSUME IInv, [Next]_vars
  PROVE  DescriptionArrives'
<1>1. DescriptionArrives /\ Started
  BY DEF IInv
<1> USE DEF callVars, traceVars, errVars
<1>2. ASSUME UNCHANGED callVars, cell' = cell,
             phase \notin {"down", "cell", "returned"} \/ cell = 0
      PROVE  DescriptionArrives'
  BY SMTT(30), <1>1, <1>2, ConstantsAssumption DEF DescriptionArrives, IInv, TypeOK
<1>3. CASE Launch \/ InitFails
  BY <1>1, <1>2, <1>3 DEF Launch, InitFails, Started
<1>4. CASE BeginCell \/ Execute
  <2>1. phase' \in {"cell", "returned"}
    BY <1>4 DEF BeginCell, Execute
  <2> QED BY <2>1 DEF DescriptionArrives
<1>5. CASE TakeDescription
  BY <1>5, TakenIsTold
<1>6. CASE FetchStderr \/ BeginTrace
  BY <1>2, <1>6 DEF FetchStderr, BeginTrace
<1>7. CASE SerialiseFrame \/ EndSerialise
  BY <1>2, <1>7 DEF SerialiseFrame, EndSerialise
<1>8. CASE PrintFrame \/ EndPrint
  BY <1>2, <1>8 DEF PrintFrame, EndPrint
<1>9. CASE UNCHANGED vars
  BY <1>1, <1>9 DEF DescriptionArrives, vars
<1> QED
  BY <1>3, <1>4, <1>5, <1>6, <1>7, <1>8, <1>9 DEF Next

LEMMA EvaluatedKept ==
  ASSUME IInv, [Next]_vars
  PROVE  Evaluated'
<1>1. Evaluated
  BY DEF IInv
<1> USE DEF Evaluated, callVars, traceVars, errVars
<1>2. CASE Execute
  BY <1>2, ExecuteProps
<1>3. CASE BeginCell \/ TakeDescription
  <2>1. description' = NoBlock /\ phase' # "returned"
    BY <1>3 DEF BeginCell, TakeDescription
  <2> QED BY <2>1
<1>4. ASSUME phase # "returned", phase' # "returned", description' = description
      PROVE  Evaluated'
  BY <1>1, <1>4
<1>5. CASE Launch \/ InitFails
  BY <1>4, <1>5 DEF Launch, InitFails
<1>6. CASE FetchStderr \/ BeginTrace
  <2>1. phase' \in {"trace", "ready", "trapped", "serialise"}
    BY <1>6 DEF FetchStderr, BeginTrace
  <2> QED BY <1>4, <1>6, <2>1 DEF FetchStderr, BeginTrace
<1>7. CASE SerialiseFrame \/ EndSerialise
  BY <1>4, <1>7 DEF SerialiseFrame, EndSerialise
<1>8. CASE PrintFrame \/ EndPrint
  BY <1>4, <1>8 DEF PrintFrame, EndPrint
<1>9. CASE UNCHANGED vars
  BY <1>1, <1>9 DEF vars
<1> QED
  BY <1>2, <1>3, <1>5, <1>6, <1>7, <1>8, <1>9 DEF Next

LEMMA BlocksDiffer ==
  /\ \A k : <<"frame", k>> # <<"frames">>
  /\ \A k, l : <<"frame", k>> = <<"frame", l>> => k = l
<1>1. ASSUME NEW k PROVE <<"frame", k>> # <<"frames">>
  <2>1. Len(<<"frame", k>>) = 2 /\ Len(<<"frames">>) = 1
    OBVIOUS
  <2> QED BY <2>1
<1>2. ASSUME NEW k, NEW l, <<"frame", k>> = <<"frame", l>> PROVE k = l
  BY <1>2
<1> QED
  BY <1>1, <1>2

(* Blocks are allocated and freed in step with the loops, and the array last. *)
LEMMA AllocatedKept ==
  ASSUME IInv, [Next]_vars
  PROVE  Allocated'
<1>1. Allocated /\ Started /\ TypeOK
  BY DEF IInv
<1> USE DEF callVars, traceVars, errVars
<1>2. ASSUME phase \notin {"returned", "serialise", "print"},
             phase' \notin {"returned", "serialise", "print"}, live' = live
      PROVE  Allocated'
  BY <1>1, <1>2 DEF Allocated
<1>3. CASE Launch \/ InitFails
  <2>1. phase \in {"down", "ready"} /\ phase' \in {"down", "ready"} /\ live' = live
    BY <1>3 DEF Launch, InitFails
  <2> QED BY <1>2, <2>1
<1>4. CASE BeginCell
  BY <1>2, <1>4 DEF BeginCell
<1>5. CASE Execute
  <2>1. phase' = "returned" /\ live' \subseteq {<<"description">>}
    BY <1>5, ExecuteProps DEF Execute
  <2> QED BY <2>1 DEF Allocated
<1>6. CASE TakeDescription
  <2>1. live \subseteq {<<"description">>} /\ live' = live \ {<<"description">>}
    BY <1>1, <1>6 DEF TakeDescription, Allocated
  <2>2. live' = {} /\ phase' \in {"ready", "stopping", "report"}
    BY <1>6, <2>1 DEF TakeDescription
  <2> QED BY <2>2 DEF Allocated
<1>7. CASE FetchStderr
  <2>1. phase' \in {"trace", "ready", "trapped"}
    BY <1>7 DEF FetchStderr
  <2> QED BY <1>2, <1>7, <2>1 DEF FetchStderr
<1>8. CASE BeginTrace
  <2>1. live = {} /\ frames' = <<>> /\ phase' = "serialise" /\ live' = live \cup {<<"frames">>}
    BY <1>1, <1>8 DEF BeginTrace, Allocated
  <2>2. live' = FrameBlocks(1 .. Len(frames'))
    <3>1. 1 .. Len(frames') = {}
      BY <2>1
    <3> QED BY <2>1, <3>1 DEF FrameBlocks
  <2> QED BY <2>1, <2>2 DEF Allocated
<1>9. CASE SerialiseFrame
  <2>1. phase = "serialise" /\ phase' = "serialise" /\ live = FrameBlocks(1 .. Len(frames))
    BY <1>1, <1>9 DEF SerialiseFrame, Allocated
  <2>2. live' = FrameBlocks(1 .. Len(frames'))
    <3>1. CASE ~IsShown(stack[next])
      BY <1>9, <2>1, <3>1, SerialiseProps
    <3>2. CASE IsShown(stack[next])
      <4>1. Len(frames') = Len(frames) + 1 /\ Len(frames) \in Nat
            /\ live' = live \cup {<<"frame", Len(frames')>>}
        BY <1>9, <3>2, SerialiseProps
      <4>2. 1 .. Len(frames') = (1 .. Len(frames)) \cup {Len(frames')}
        BY <4>1
      <4> QED BY <2>1, <4>1, <4>2 DEF FrameBlocks
    <3> QED BY <3>1, <3>2
  <2> QED BY <2>1, <2>2 DEF Allocated
<1>10. CASE EndSerialise
  <2>1. /\ phase' = "print" /\ next' = 1 /\ frames' = frames /\ live' = live
        /\ live = FrameBlocks(1 .. Len(frames))
    BY <1>1, <1>10 DEF EndSerialise, Allocated
  <2> QED BY <2>1 DEF Allocated
<1>11. CASE PrintFrame
  <2>1. /\ phase' = "print" /\ next' = next + 1 /\ frames' = frames
        /\ live = FrameBlocks(next .. Len(frames)) /\ live' = live \ {<<"frame", next>>}
    BY <1>1, <1>11 DEF PrintFrame, Allocated
  <2>2. next \in 1 .. Len(frames) /\ Len(frames) \in Nat
    <3>1. frames \in Seq(Memory)
      BY <1>1 DEF TypeOK
    <3> QED BY <1>11, <3>1, PrintProps
  <2>3. next .. Len(frames) = {next} \cup (next + 1 .. Len(frames)) /\ next \notin next + 1 .. Len(frames)
    BY <2>2
  <2>4. live' = FrameBlocks(next + 1 .. Len(frames))
    <3> DEFINE rest == next + 1 .. Len(frames)
    <3> HIDE DEF rest
    <3>1. live = {<<"frames">>} \cup {<<"frame", k>> : k \in {next} \cup rest} /\ next \notin rest
      BY <2>1, <2>3 DEF FrameBlocks, rest
    <3>2. {<<"frame", k>> : k \in {next} \cup rest} = {<<"frame", next>>} \cup {<<"frame", k>> : k \in rest}
      OBVIOUS
    <3>3. <<"frame", next>> \notin {<<"frame", k>> : k \in rest}
      BY <3>1, BlocksDiffer
    <3>4. <<"frame", next>> # <<"frames">>
      BY BlocksDiffer
    <3>5. live' = {<<"frames">>} \cup {<<"frame", k>> : k \in rest}
      BY <2>1, <3>1, <3>2, <3>3, <3>4
    <3> QED BY <3>5 DEF FrameBlocks, rest
  <2> QED BY <2>1, <2>4 DEF Allocated
<1>12. CASE EndPrint
  <2>1. /\ phase' = "ready" /\ next > Len(frames) /\ live' = live \ {<<"frames">>}
        /\ live = FrameBlocks(next .. Len(frames))
    BY <1>1, <1>12 DEF EndPrint, Allocated
  <2>2. next .. Len(frames) = {}
    <3>1. frames \in Seq(Memory) /\ next \in Nat
      BY <1>1 DEF TypeOK
    <3> QED BY <2>1, <3>1
  <2>3. live' = {}
    BY <2>1, <2>2 DEF FrameBlocks
  <2> QED BY <2>1, <2>3 DEF Allocated
<1>13. CASE UNCHANGED vars
  BY <1>1, <1>13 DEF Allocated, vars
<1> QED
  BY <1>2, <1>3, <1>4, <1>5, <1>6, <1>7, <1>8, <1>9, <1>10, <1>11, <1>12, <1>13 DEF Next

LEMMA WrittenByCellKept ==
  ASSUME IInv, [Next]_vars
  PROVE  WrittenByCell'
<1>1. WrittenByCell /\ TypeOK /\ Started
  BY DEF IInv
<1> USE DEF callVars, traceVars, errVars
<1>2. CASE Launch
  <2>1. err' \in {<<>>, err} /\ phase' \in {"down", "ready"}
    BY <1>2 DEF Launch
  <2>2. err' \in Seq(ErrLine)
    BY <1>1, <2>1, EmptySeq DEF WrittenByCell, ErrLine
  <2> QED BY <2>1, <2>2 DEF WrittenByCell, ErrLine
<1>3. CASE BeginCell
  <2>1. err' = err /\ errorStreamEnd' = Len(err)
    BY <1>3 DEF BeginCell
  <2>2. errorStreamEnd' + 1 .. Len(err') = {}
    <3>1. Len(err) \in Nat
      BY <1>1 DEF WrittenByCell
    <3> QED BY <2>1, <3>1
  <2> QED BY <1>1, <2>1, <2>2 DEF WrittenByCell
<1>4. CASE Execute
  BY <1>4, ExecuteProps
<1>5. CASE TakeDescription
  BY <1>1, <1>5 DEF WrittenByCell, TakeDescription
<1>6. ASSUME err' = err, phase' \notin {"cell", "returned", "report"}
      PROVE  WrittenByCell'
  BY <1>1, <1>6 DEF WrittenByCell
<1>7. CASE FetchStderr
  <2>1. phase' \in {"trace", "ready", "trapped"}
    BY <1>7 DEF FetchStderr
  <2> QED BY <1>6, <1>7, <2>1 DEF FetchStderr
<1>8. CASE InitFails \/ BeginTrace
  BY <1>6, <1>8 DEF InitFails, BeginTrace
<1>9. CASE SerialiseFrame \/ EndSerialise
  BY <1>6, <1>9 DEF SerialiseFrame, EndSerialise
<1>10. CASE PrintFrame \/ EndPrint
  BY <1>6, <1>10 DEF PrintFrame, EndPrint
<1>11. CASE UNCHANGED vars
  BY <1>1, <1>11 DEF WrittenByCell, vars
<1> QED
  BY <1>2, <1>3, <1>4, <1>5, <1>7, <1>8, <1>9, <1>10, <1>11 DEF Next

LEMMA StderrKept ==
  ASSUME IInv, [Next]_vars
  PROVE  StderrIsTheCells'
<1>1. StderrIsTheCells /\ TypeOK /\ WrittenByCell
  BY DEF IInv
<1> USE DEF callVars, traceVars, errVars
<1>2. CASE FetchStderr
  <2> DEFINE new == SubSeq(err, errorStreamEnd + 1, Len(err))
             trapped == \E k \in DOMAIN new : new[k][2] = StackTrace
             first == Located(new[1][2])
  <2>1. phase = "report" /\ cell' = cell
    BY <1>2 DEF FetchStderr
  <2>2. shown' = IF trapped
                   THEN [lines |-> <<<<new[1][1], first.line>>>>, source |-> first.source]
                   ELSE [lines |-> new, source |-> NoSource]
    BY <1>2 DEF FetchStderr
  <2>3. /\ err \in Seq(ErrLine) /\ Len(err) \in Nat /\ errorStreamEnd \in Nat
        /\ \A k \in errorStreamEnd + 1 .. Len(err) : err[k][1] = cell
    BY <1>1, <2>1 DEF WrittenByCell, TypeOK, ErrLine
  <2>4. new \in Seq(ErrLine) /\ \A k \in 1 .. Len(new) : new[k][1] = cell
    <3>1. \A k \in errorStreamEnd + 1 .. Len(err) : err[k] \in ErrLine
      BY <2>3, ElementOfSeq
    <3>2. /\ new \in Seq(ErrLine)
          /\ Len(new) = IF errorStreamEnd + 1 <= Len(err)
                          THEN Len(err) - (errorStreamEnd + 1) + 1 ELSE 0
          /\ \A i \in 1 .. Len(err) - (errorStreamEnd + 1) + 1 :
               new[i] = err[(errorStreamEnd + 1) + i - 1]
      <4>1. errorStreamEnd + 1 \in Int /\ Len(err) \in Int
        BY <2>3
      <4> HIDE DEF new
      <4>2. new = SubSeq(err, errorStreamEnd + 1, Len(err))
        BY DEF new
      <4> QED BY <3>1, <4>1, <4>2, SubSeqProperties
    <3> HIDE DEF new
    <3>3. ASSUME NEW k \in 1 .. Len(new) PROVE new[k][1] = cell
      <4>1. /\ k \in 1 .. Len(err) - (errorStreamEnd + 1) + 1
            /\ (errorStreamEnd + 1) + k - 1 \in errorStreamEnd + 1 .. Len(err)
        BY <2>3, <3>2
      <4> QED BY <2>3, <3>2, <4>1
    <3> QED BY <3>2, <3>3
  <2>5. CASE trapped
    <3>1. 1 \in 1 .. Len(new)
      <4> HIDE DEF new
      <4>1. DOMAIN new = 1 .. Len(new) /\ Len(new) \in Nat
        BY <2>4
      <4> QED BY <2>5, <4>1
    <3>2. new[1][1] = cell
      BY <2>4, <3>1
    <3> HIDE DEF new, first
    <3>3. shown'.lines = <<<<new[1][1], first.line>>>>
      BY <2>2, <2>5
    <3>4. \A k \in DOMAIN shown'.lines : shown'.lines[k][1] = cell
      BY <3>2, <3>3
    <3> QED BY <2>1, <3>4 DEF StderrIsTheCells
  <2>6. CASE ~trapped
    <3> HIDE DEF first
    <3>1. shown'.lines = new
      BY <2>2, <2>6
    <3> HIDE DEF new
    <3>2. \A k \in DOMAIN shown'.lines : shown'.lines[k][1] = cell
      BY <2>4, <3>1
    <3> QED BY <2>1, <3>2 DEF StderrIsTheCells
  <2> QED BY <2>5, <2>6
<1>3. ASSUME phase' \notin {"trace", "serialise", "print"}
      PROVE  StderrIsTheCells'
  BY <1>3 DEF StderrIsTheCells
<1>4. CASE Launch \/ InitFails
  <2>1. phase' \in {"down", "ready"}
    BY <1>4 DEF Launch, InitFails
  <2> QED BY <1>3, <2>1
<1>5. CASE BeginCell \/ Execute \/ TakeDescription \/ EndPrint
  <2>1. phase' \in {"cell", "returned", "ready", "stopping", "report"}
    BY <1>5 DEF BeginCell, Execute, TakeDescription, EndPrint
  <2> QED BY <1>3, <2>1
<1>6. ASSUME phase \in {"trace", "serialise", "print"}, UNCHANGED <<shown, cell>>
      PROVE  StderrIsTheCells'
  BY <1>1, <1>6 DEF StderrIsTheCells
<1>7. CASE BeginTrace \/ SerialiseFrame
  BY <1>6, <1>7 DEF BeginTrace, SerialiseFrame
<1>8. CASE EndSerialise \/ PrintFrame
  BY <1>6, <1>8 DEF EndSerialise, PrintFrame
<1>9. CASE UNCHANGED vars
  BY <1>1, <1>9 DEF StderrIsTheCells, vars
<1> QED
  BY <1>2, <1>4, <1>5, <1>7, <1>8, <1>9 DEF Next

LEMMA TracedKept ==
  ASSUME IInv, [Next]_vars
  PROVE  Traced'
<1>1. Traced /\ TypeOK /\ Started
  BY DEF IInv
<1>2. /\ stack \in Seq(Frame) /\ lines \in Seq(Line) /\ frames \in Seq(Memory)
      /\ Len(stack) \in Nat /\ Len(frames) \in Nat /\ Len(lines) \in Nat
      /\ DOMAIN stack = 1 .. Len(stack) /\ DOMAIN frames = 1 .. Len(frames)
      /\ DOMAIN lines = 1 .. Len(lines)
  BY <1>1, LenProperties DEF Traced, TypeOK
<1> USE DEF callVars, traceVars, errVars
<1>3. ASSUME stack' \in Seq(Frame), lines' \in Seq(Line), phase' \notin {"serialise", "print"}
      PROVE  Traced'
  BY <1>3 DEF Traced
<1>4. CASE Launch \/ InitFails
  <2>1. phase' \in {"down", "ready"} /\ stack' = stack /\ lines' = lines
    BY <1>4 DEF Launch, InitFails
  <2> QED BY <1>2, <1>3, <2>1
<1>5. CASE BeginCell
  <2>1. phase' = "cell" /\ stack' = <<>> /\ lines' = <<>>
    BY <1>5 DEF BeginCell
  <2> QED BY <1>3, <2>1, EmptySeq
<1>6. CASE Execute
  <2>1. phase' = "returned" /\ lines' = lines /\ stack' \in Seq(Frame)
    BY <1>6, ExecuteProps DEF Execute
  <2> QED BY <1>2, <1>3, <2>1
<1>7. CASE TakeDescription \/ FetchStderr
  <2>1. phase' \in {"ready", "stopping", "report", "trace", "trapped"}
        /\ stack' = stack /\ lines' = lines
    BY <1>7 DEF TakeDescription, FetchStderr
  <2> QED BY <1>2, <1>3, <2>1
<1>8. CASE BeginTrace
  <2>1. /\ phase' = "serialise" /\ next' = 1 /\ frames' = <<>> /\ lines' = <<>>
        /\ stack' = stack
    BY <1>8 DEF BeginTrace
  <2>2. lines' \in Seq(Line) /\ Len(frames') = 0 /\ DOMAIN frames' = {} /\ DOMAIN lines' = {}
    BY <2>1, EmptySeq
  <2>3. Looked' = 0
    BY <2>1 DEF Looked
  <2> DEFINE none == [k \in DOMAIN frames' |-> 1]
  <2>4. none \in [DOMAIN frames' -> DOMAIN stack']
    BY <2>2
  <2>5. Traces(none, frames', lines', stack', Looked')
    BY <2>2, <2>3 DEF Traces
  <2> HIDE DEF none
  <2>6. \E place \in [DOMAIN frames' -> DOMAIN stack'] :
          Traces(place, frames', lines', stack', Looked')
    BY <2>4, <2>5
  <2>7. Len(frames') < next'
    BY <2>1, <2>2
  <2> QED BY <1>2, <2>1, <2>2, <2>6, <2>7 DEF Traced
<1>9. CASE SerialiseFrame
  <2>1. /\ phase = "serialise" /\ phase' = "serialise" /\ next' = next + 1
        /\ stack' = stack /\ lines' = lines
    BY <1>9 DEF SerialiseFrame
  <2>2. lines = <<>> /\ Len(frames) < next /\ DOMAIN lines' = {}
    BY <1>1, <2>1 DEF Traced
  <2>3. next \in 1 .. Len(stack)
    BY <1>9, SerialiseProps
  <2>4. Looked = next - 1 /\ Looked' = next
    BY <2>1, <2>3 DEF Looked
  <2>5. PICK place \in [DOMAIN frames -> DOMAIN stack] : Traces(place, frames, lines, stack, Looked)
    BY <1>1, <2>1 DEF Traced
  <2>6. /\ \A k, l \in 1 .. Len(frames) : k < l => place[k] < place[l]
        /\ {place[k] : k \in 1 .. Len(frames)} = {p \in 1 .. next - 1 : IsShown(stack[p])}
        /\ \A k \in 1 .. Len(frames) : frames[k] = FrameBlock(stack[place[k]])
    BY <1>2, <2>4, <2>5 DEF Traces
  <2>7. CASE ~IsShown(stack[next])
    <3>1. frames' = frames
      BY <1>9, <2>7, SerialiseProps
    <3>2. {p \in 1 .. next : IsShown(stack[p])} = {p \in 1 .. next - 1 : IsShown(stack[p])}
      BY <2>3, <2>7
    <3>3. Traces(place, frames', lines', stack', Looked')
      BY <1>2, <2>1, <2>2, <2>4, <2>6, <3>1, <3>2 DEF Traces
    <3> QED BY <1>2, <2>1, <2>2, <2>3, <2>5, <3>1, <3>3 DEF Traced
  <2>8. CASE IsShown(stack[next])
    <3>1. /\ frames' \in Seq(Memory) /\ Len(frames') = Len(frames) + 1
          /\ \A k \in 1 .. Len(frames) : frames'[k] = frames[k]
          /\ frames'[Len(frames')] = FrameBlock(stack[next])
      BY <1>9, <2>8, SerialiseProps
    <3> DEFINE n == Len(frames) + 1
               more == [k \in 1 .. n |-> IF k = n THEN next ELSE place[k]]
    <3>2. DOMAIN frames' = 1 .. n
      BY <3>1
    <3>3. \A k \in 1 .. Len(frames) : place[k] \in 1 .. next - 1
      BY <2>6
    <3>4. /\ more \in [DOMAIN frames' -> DOMAIN stack'] /\ more[n] = next
          /\ \A k \in 1 .. Len(frames) : more[k] = place[k]
      BY <1>2, <2>1, <2>3, <2>5, <3>2
    <3> HIDE DEF more
    <3>5. \A k, l \in 1 .. n : k < l => more[k] < more[l]
      <4> TAKE k, l \in 1 .. n
      <4> HAVE k < l
      <4>1. k \in 1 .. Len(frames) /\ more[k] = place[k]
        BY <1>2, <3>4
      <4>2. CASE l = n
        BY <2>3, <3>3, <3>4, <4>1, <4>2
      <4>3. CASE l # n
        <5>1. l \in 1 .. Len(frames)
          <6>1. Len(frames) \in Nat /\ l \in 1 .. Len(frames) + 1 /\ l # Len(frames) + 1
            BY <1>2, <4>3
          <6> QED BY <6>1
        <5>2. more[l] = place[l]
          BY <3>4, <5>1
        <5> QED BY <2>6, <4>1, <5>1, <5>2
      <4> QED BY <4>2, <4>3
    <3>6. {more[k] : k \in 1 .. n} = {p \in 1 .. next : IsShown(stack[p])}
      <4>1. 1 .. n = (1 .. Len(frames)) \cup {n}
        BY <1>2
      <4>2. {more[k] : k \in 1 .. n} = {place[k] : k \in 1 .. Len(frames)} \cup {next}
        BY <3>4, <4>1
      <4>3. {p \in 1 .. next : IsShown(stack[p])}
              = {p \in 1 .. next - 1 : IsShown(stack[p])} \cup {next}
        BY <2>3, <2>8
      <4> QED BY <2>6, <4>2, <4>3
    <3>7. \A k \in 1 .. n : frames'[k] = FrameBlock(stack[more[k]])
      <4> TAKE k \in 1 .. n
      <4>1. CASE k = n
        BY <3>1, <3>4, <4>1
      <4>2. CASE k # n
        <5>1. k \in 1 .. Len(frames)
          BY <1>2, <4>2
        <5> QED BY <2>6, <3>1, <3>4, <5>1
      <4> QED BY <4>1, <4>2
    <3>8. Traces(more, frames', lines', stack', Looked')
      BY <2>1, <2>2, <2>4, <3>2, <3>5, <3>6, <3>7 DEF Traces
    <3>9. Len(frames') < next'
      BY <1>2, <2>1, <2>2, <2>3, <3>1
    <3> QED BY <1>2, <2>1, <2>2, <3>4, <3>8, <3>9 DEF Traced
  <2> QED BY <2>7, <2>8
<1>10. CASE EndSerialise
  <2>1. /\ phase = "serialise" /\ phase' = "print" /\ next' = 1 /\ next > Len(stack)
        /\ stack' = stack /\ lines' = lines /\ frames' = frames
    BY <1>10 DEF EndSerialise
  <2>2. lines = <<>> /\ next = Len(stack) + 1
    BY <1>1, <1>2, <2>1 DEF Traced, TypeOK
  <2>3. Looked' = Looked
    BY <1>2, <2>1, <2>2 DEF Looked
  <2>4. PICK place \in [DOMAIN frames -> DOMAIN stack] : Traces(place, frames, lines, stack, Looked)
    BY <1>1, <2>1 DEF Traced
  <2>5. Traces(place, frames', lines', stack', Looked')
    BY <2>1, <2>3, <2>4 DEF Traces
  <2>6. Len(lines') = next' - 1 /\ next' <= Len(frames') + 1
    BY <1>2, <2>1, <2>2
  <2> QED BY <1>2, <2>1, <2>4, <2>5, <2>6 DEF Traced
<1>11. CASE PrintFrame
  <2>1. /\ phase = "print" /\ phase' = "print" /\ next' = next + 1
        /\ stack' = stack /\ frames' = frames
    BY <1>11 DEF PrintFrame
  <2>2. /\ next \in 1 .. Len(frames) /\ Len(lines) = next - 1
        /\ lines' = Append(lines, ReadLine(frames[next].bytes, next))
    BY <1>11, PrintProps
  <2>3. PICK place \in [DOMAIN frames -> DOMAIN stack] : Traces(place, frames, lines, stack, Looked)
    BY <1>1, <2>1 DEF Traced
  <2>4. /\ place[next] \in 1 .. Len(stack)
        /\ frames[next] = FrameBlock(stack[place[next]])
        /\ \A k \in 1 .. Len(lines) : lines[k] = LineOf(stack[place[k]], k)
    BY <1>2, <2>2, <2>3 DEF Traces
  <2>5. stack[place[next]] \in Frame
    BY <1>2, <2>4, ElementOfSeq
  <2> DEFINE l == LineOf(stack[place[next]], next)
  <2>6. ReadLine(frames[next].bytes, next) = l
    BY <2>4, <2>5, FrameIsRead
  <2>7. l \in Line
    BY <2>2, <2>5 DEF Line
  <2> HIDE DEF l
  <2>8. /\ lines' \in Seq(Line) /\ Len(lines') = Len(lines) + 1
        /\ \A k \in 1 .. Len(lines) : lines'[k] = lines[k]
        /\ lines'[Len(lines) + 1] = l
    <3>1. lines' = Append(lines, l)
      BY <2>2, <2>6
    <3> QED BY <1>2, <2>7, <3>1, AppendProperties
  <2>9. DOMAIN lines' = 1 .. next /\ Len(lines') = next' - 1 /\ next' <= Len(frames) + 1
    BY <1>2, <2>1, <2>2, <2>8
  <2>10. \A k \in 1 .. next : lines'[k] = LineOf(stack[place[k]], k)
    <3> TAKE k \in 1 .. next
    <3>1. CASE k = next
      <4>1. Len(lines) + 1 = next
        BY <2>2
      <4> QED BY <2>8, <3>1, <4>1 DEF l
    <3>2. CASE k # next
      <4>1. k \in 1 .. Len(lines)
        BY <2>2, <3>2
      <4> QED BY <2>4, <2>8, <4>1
    <3> QED BY <3>1, <3>2
  <2>11. Looked' = Looked
    BY <2>1 DEF Looked
  <2>12. Traces(place, frames', lines', stack', Looked')
    BY <2>1, <2>3, <2>9, <2>10, <2>11 DEF Traces
  <2> QED BY <1>2, <2>1, <2>3, <2>8, <2>9, <2>12 DEF Traced
<1>12. CASE EndPrint
  <2>1. phase' = "ready" /\ stack' = stack /\ lines' = lines
    BY <1>12 DEF EndPrint
  <2> QED BY <1>2, <1>3, <2>1
<1>13. CASE UNCHANGED vars
  <2>1. UNCHANGED <<stack, next, frames, lines, phase>>
    BY <1>13 DEF vars
  <2> QED BY <1>1, <2>1 DEF Traced, Traces, Looked
<1> QED
  BY <1>4, <1>5, <1>6, <1>7, <1>8, <1>9, <1>10, <1>11, <1>12, <1>13 DEF Next

-----------------------------------------------------------------------------
(* The theorems.                                                             *)
LEMMA Invariance == Spec => []IInv
<1>1. IInv /\ [Next]_vars => IInv'
  BY TypesKept, OneLaunchKept, InBoundsKept, DescriptionArrivesKept, StderrKept,
     EvaluatedKept, AllocatedKept, TracedKept, WrittenByCellKept DEF IInv
<1> QED
  BY Initially, <1>1, PTL DEF Spec

(* Whatever launches failed and whatever cells reported before: one process  *)
(* answers, no byte is written or read outside a block, the description is   *)
(* what LLDB said, and no block is left allocated or freed twice.            *)
THEOREM BindingsAreSound == Spec => []BindingsInv
<1>1. IInv => BindingsInv
  <2> SUFFICES ASSUME IInv PROVE BindingsInv
    OBVIOUS
  <2>1. NothingLeaked
    BY DEF IInv, Allocated, NothingLeaked
  <2> QED BY <2>1 DEF IInv, BindingsInv
<1> QED
  BY Invariance, <1>1, PTL

(* The trace that is printed is the stack, for names of every length and     *)
(* numbers of 32 bits.                                                       *)
THEOREM TraceIsComplete == Spec => []TraceIsTheStack
<1>1. IInv => TraceIsTheStack
  <2> SUFFICES ASSUME IInv, phase = "print", next > Len(frames)
               PROVE  \E place \in [DOMAIN lines -> DOMAIN stack] :
                        /\ \A k, l \in DOMAIN lines : k < l => place[k] < place[l]
                        /\ {place[k] : k \in DOMAIN lines} = {p \in DOMAIN stack : IsShown(stack[p])}
                        /\ \A k \in DOMAIN lines : lines[k] = LineOf(stack[place[k]], k)
    BY DEF TraceIsTheStack
  <2>1. PICK place \in [DOMAIN frames -> DOMAIN stack] :
          Traces(place, frames, lines, stack, Looked)
    BY DEF IInv, Traced
  <2>2. /\ Len(lines) = next - 1 /\ next <= Len(frames) + 1 /\ next \in Nat
        /\ lines \in Seq(Line) /\ frames \in Seq(Memory) /\ stack \in Seq(Frame)
    BY DEF IInv, Traced, TypeOK
  <2>3. DOMAIN lines = DOMAIN frames
    <3>1. Len(lines) = Len(frames)
      BY <2>2
    <3> QED BY <2>2, <3>1
  <2>4. Looked = Len(stack) /\ DOMAIN stack = 1 .. Len(stack)
    BY <2>2 DEF Looked
  <2> QED BY <2>1, <2>3, <2>4 DEF Traces
<1> QED
  BY Invariance, <1>1, PTL

(* No line of an earlier cell is shown as what this cell wrote to stderr.    *)
THEOREM StderrIsOfTheCell == Spec => []StderrIsTheCells
<1>1. IInv => StderrIsTheCells
  BY DEF IInv
<1> QED
  BY Invariance, <1>1, PTL
=============================================================================
