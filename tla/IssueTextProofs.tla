--------------------------- MODULE IssueTextProofs ---------------------------
(* What IssueText promises, proved for texts of every length and for all   *)
(* widths that meet TextAssumption.                                        *)
(*                                                                         *)
(* Flattening and reading are recursive functions, so the facts about them *)
(* are shown by induction.  The induction is the minimal counterexample of *)
(* WFMin, over a set instead of a predicate: NatSetInduction for numbers,  *)
(* TextInduction for texts.                                                *)
EXTENDS IssueText, WellFoundedInduction, SequenceTheorems, TLAPS

-----------------------------------------------------------------------------
(* Induction *)

(* A set with 0 and with the successor of each of its numbers holds all    *)
(* numbers: the least number outside would have a predecessor inside.      *)
LEMMA NatSetInduction ==
    ASSUME NEW S, 0 \in S, \A n \in Nat : n \in S => n + 1 \in S
    PROVE  Nat \subseteq S
<1> SUFFICES ASSUME Nat \ S # {} PROVE FALSE
    OBVIOUS
<1> DEFINE T == Nat \ S
<1>1. PICK m \in T : \A k \in T : <<k, m>> \notin OpToRel(<, Nat)
    BY WFMin, NatLessThanWellFounded, Zenon
<1>2. \A k \in T : ~ (k < m)
    BY <1>1, Zenon DEF OpToRel
<1>3. m # 0 /\ m - 1 \in Nat /\ m - 1 \notin T /\ m = (m - 1) + 1
    BY <1>2
<1> QED
    BY <1>3

(* A set with the empty text, and with every text that has one more        *)
(* character in front than one of its texts, holds all texts.              *)
LEMMA TextInduction ==
    ASSUME NEW T, NEW S, <<>> \in S,
           \A c \in T, t \in Seq(T) : t \in S => <<c>> \o t \in S
    PROVE  Seq(T) \subseteq S
<1> DEFINE L == {n \in Nat : \A t \in Seq(T) : Len(t) = n => t \in S}
<1>1. 0 \in L
    BY EmptySeq
<1>2. ASSUME NEW n \in Nat, n \in L PROVE n + 1 \in L
    <2> SUFFICES ASSUME NEW t \in Seq(T), Len(t) = n + 1 PROVE t \in S
        OBVIOUS
    <2>1. t # <<>> /\ 1 \in 1 .. Len(t) /\ Len(t) \in 1 .. Len(t)
        BY EmptySeq
    <2>2. t[1] \in T /\ SubSeq(t, 2, Len(t)) \in Seq(T)
          /\ Len(SubSeq(t, 2, Len(t))) = n
        BY <2>1, HeadTailProperties, TailIsSubSeq, ElementOfSeq
    <2>3. t = <<t[1]>> \o SubSeq(t, 2, Len(t))
        BY <2>1, SubSeqRecursiveFirst, SubSeqFull
    <2> QED
        BY <1>2, <2>2, <2>3
<1> HIDE DEF L
<1>3. Nat \subseteq L
    BY <1>1, <1>2, NatSetInduction
<1> QED
    BY <1>3, LenProperties DEF L

-----------------------------------------------------------------------------
(* Putting pieces together *)

(* FlattenSeq is computed from left to right: there is a function whose    *)
(* values are the pieces put together so far.                              *)
LEMMA FlattenSteps ==
    ASSUME NEW T, NEW ss \in Seq(Seq(T)), Len(ss) # 0
    PROVE  \E F \in [1 .. Len(ss) -> Seq(T)] :
              /\ F[1] = ss[1]
              /\ \A i \in 2 .. Len(ss) : F[i] = F[i - 1] \o ss[i]
              /\ FlattenSeq(ss) = F[Len(ss)]
<1> DEFINE N == Len(ss)
           Part(g, i) == IF i = 1 THEN ss[i] ELSE g[i - 1] \o ss[i]
           f == CHOOSE g : g = [i \in 1 .. N |-> Part(g, i)]
<1>1. FlattenSeq(ss) = f[N]
    BY Zenon DEF FlattenSeq
<1>2. /\ N \in Nat
      /\ N # 0
      /\ \A i \in 1 .. N : ss[i] \in Seq(T)
    BY LenProperties, ElementOfSeq
<1>3. \A g : Part(g, 1) = ss[1]
    BY Zenon
<1>4. ASSUME NEW g, NEW i \in 2 .. N PROVE Part(g, i) = g[i - 1] \o ss[i]
    <2>1. i # 1
        OBVIOUS
    <2> QED
        BY <2>1, Zenon
<1>5. ASSUME NEW g, NEW i \in 1 .. N, i # 1 => g[i - 1] \in Seq(T)
      PROVE  Part(g, i) \in Seq(T)
    <2>1. CASE i = 1
        BY <2>1, <1>2
    <2>2. CASE i # 1
        BY <2>2, <1>2, <1>5, ConcatProperties, Zenon
    <2> QED
        BY <2>1, <2>2
<1>6. ASSUME NEW g, NEW h, NEW i \in 1 .. N, i # 1 => g[i - 1] = h[i - 1]
      PROVE  Part(g, i) = Part(h, i)
    BY <1>6, Zenon
<1> HIDE DEF N, Part
<1>7. \E g : g = [i \in 1 .. N |-> Part(g, i)]
    <2> DEFINE S == {n \in Nat : \E g \in [1 .. N -> Seq(T)] :
                        \A i \in 1 .. N : i <= n => g[i] = Part(g, i)}
    <2>1. 0 \in S
        <3> DEFINE none == [i \in 1 .. N |-> <<>>]
        <3>1. none \in [1 .. N -> Seq(T)]
            BY EmptySeq
        <3> HIDE DEF none
        <3>2. \A i \in 1 .. N : i <= 0 => none[i] = Part(none, i)
            BY <1>2
        <3> QED
            BY <3>1, <3>2, Zenon
    <2>2. ASSUME NEW n \in Nat, n \in S PROVE n + 1 \in S
        <3>1. PICK g \in [1 .. N -> Seq(T)] :
                 \A i \in 1 .. N : i <= n => g[i] = Part(g, i)
            BY <2>2
        <3> DEFINE h == [i \in 1 .. N |-> IF i = n + 1 THEN Part(g, i)
                                          ELSE g[i]]
        <3>2. h \in [1 .. N -> Seq(T)]
            BY <1>5, <1>2
        <3>3. ASSUME NEW i \in 1 .. N, i <= n + 1 PROVE h[i] = Part(h, i)
            <4>1. i # 1 => h[i - 1] = g[i - 1]
                BY <3>3, <1>2
            <4>2. Part(h, i) = Part(g, i)
                BY <4>1, <1>6
            <4> QED
                BY <4>2, <3>1, <3>3, <1>2
        <3> HIDE DEF h
        <3>4. n + 1 \in Nat
            OBVIOUS
        <3> QED
            BY <3>2, <3>3, <3>4, Zenon
    <2> HIDE DEF S
    <2>3. N \in S
        BY <2>1, <2>2, <1>2, NatSetInduction
    <2>4. PICK g \in [1 .. N -> Seq(T)] :
             \A i \in 1 .. N : i <= N => g[i] = Part(g, i)
        BY <2>3 DEF S
    <2>5. g = [i \in 1 .. N |-> Part(g, i)]
        BY <2>4, <1>2
    <2> QED
        BY <2>5, Zenon
<1>8. f = [i \in 1 .. N |-> Part(f, i)]
    BY <1>7, Zenon
<1> HIDE DEF f
<1>9. \A i \in 1 .. N : f[i] = Part(f, i)
    BY <1>8, Zenon
<1>10. f \in [1 .. N -> Seq(T)]
    <2> DEFINE S == {n \in Nat : \A i \in 1 .. N : i <= n => f[i] \in Seq(T)}
    <2>1. 0 \in S
        BY <1>2
    <2>2. ASSUME NEW n \in Nat, n \in S PROVE n + 1 \in S
        BY <2>2, <1>5, <1>9, <1>2
    <2> HIDE DEF S
    <2>3. N \in S
        BY <2>1, <2>2, <1>2, NatSetInduction
    <2>4. \A i \in 1 .. N : f[i] \in Seq(T)
        BY <2>3, <1>2 DEF S
    <2> QED
        BY <2>4, <1>8
<1>11. f[1] = ss[1]
    <2>1. 1 \in 1 .. N
        BY <1>2
    <2> QED
        BY <2>1, <1>3, <1>9, Zenon
<1>12. ASSUME NEW i \in 2 .. N PROVE f[i] = f[i - 1] \o ss[i]
    <2>1. i \in 1 .. N
        BY <1>2
    <2> QED
        BY <2>1, <1>4, <1>9, Zenon
<1> QED
    BY <1>1, <1>10, <1>11, <1>12 DEF N

(* Pieces put together are a text.                                         *)
LEMMA FlattenTyped ==
    ASSUME NEW T, NEW ss \in Seq(Seq(T))
    PROVE  FlattenSeq(ss) \in Seq(T)
<1>1. CASE Len(ss) = 0
    <2>1. ss = <<>>
        BY <1>1, EmptySeq
    <2>2. FlattenSeq(ss) = ss
        BY <1>1, Zenon DEF FlattenSeq
    <2> QED
        BY <2>1, <2>2, EmptySeq
<1>2. CASE Len(ss) # 0
    <2>1. PICK F \in [1 .. Len(ss) -> Seq(T)] : FlattenSeq(ss) = F[Len(ss)]
        BY <1>2, FlattenSteps, Zenon
    <2>2. Len(ss) \in 1 .. Len(ss)
        BY <1>2, LenProperties
    <2> QED
        BY <2>1, <2>2, Zenon
<1> QED
    BY <1>1, <1>2

(* A piece more in front is put in front.                                  *)
LEMMA FlattenCons ==
    ASSUME NEW T, NEW x \in Seq(T), NEW ss \in Seq(Seq(T))
    PROVE  FlattenSeq(<<x>> \o ss) = x \o FlattenSeq(ss)
<1> DEFINE z == <<x>> \o ss
<1>1. /\ z \in Seq(Seq(T))
      /\ Len(ss) \in Nat
      /\ Len(z) = Len(ss) + 1
      /\ z[1] = x
      /\ \A i \in 1 .. Len(ss) : z[i + 1] = ss[i] /\ ss[i] \in Seq(T)
    <2>1. <<x>> \in Seq(Seq(T)) /\ Len(<<x>>) = 1 /\ <<x>>[1] = x
        OBVIOUS
    <2> QED
        BY <2>1, ConcatProperties, LenProperties, ElementOfSeq
<1> HIDE DEF z
<1>2. PICK G \in [1 .. Len(z) -> Seq(T)] :
              /\ G[1] = z[1]
              /\ \A i \in 2 .. Len(z) : G[i] = G[i - 1] \o z[i]
              /\ FlattenSeq(z) = G[Len(z)]
    <2>1. Len(z) # 0
        BY <1>1
    <2> QED
        BY <2>1, <1>1, FlattenSteps, Zenon
<1>3. CASE Len(ss) = 0
    <2>1. ss = <<>>
        BY <1>3, EmptySeq
    <2>2. FlattenSeq(ss) = <<>>
        BY <1>3, <2>1, Zenon DEF FlattenSeq
    <2>3. FlattenSeq(z) = x
        BY <1>1, <1>2, <1>3
    <2> QED
        BY <2>2, <2>3, ConcatEmptySeq DEF z
<1>4. CASE Len(ss) # 0
    <2>1. PICK F \in [1 .. Len(ss) -> Seq(T)] :
              /\ F[1] = ss[1]
              /\ \A i \in 2 .. Len(ss) : F[i] = F[i - 1] \o ss[i]
              /\ FlattenSeq(ss) = F[Len(ss)]
        BY <1>4, FlattenSteps
    <2> DEFINE S == {n \in Nat : n \in 1 .. Len(ss) => G[n + 1] = x \o F[n]}
    <2>2. 0 \in S
        OBVIOUS
    <2>3. ASSUME NEW n \in Nat, n \in S PROVE n + 1 \in S
        <3> SUFFICES ASSUME n + 1 \in 1 .. Len(ss)
                     PROVE  G[n + 2] = x \o F[n + 1]
            OBVIOUS
        <3>1. /\ n + 2 \in 2 .. Len(z)
              /\ (n + 2) - 1 = n + 1
              /\ (n + 1) + 1 = n + 2
            BY <1>1
        <3>2. G[n + 2] = G[n + 1] \o ss[n + 1]
            BY <3>1, <1>1, <1>2
        <3>3. CASE n = 0
            <4>1. n + 2 = 2 /\ n + 1 = 1
                BY <3>3
            <4> QED
                BY <3>2, <4>1, <1>1, <1>2, <2>1, Zenon
        <3>4. CASE n # 0
            <4>1. n \in 1 .. Len(ss) /\ n + 1 \in 2 .. Len(ss)
                  /\ (n + 1) - 1 = n
                BY <3>4
            <4>2. F[n + 1] = F[n] \o ss[n + 1] /\ F[n] \in Seq(T)
                BY <4>1, <2>1
            <4>3. G[n + 2] = (x \o F[n]) \o ss[n + 1]
                BY <3>2, <4>1, <2>3
            <4>4. PICK y \in Seq(T) : y = F[n]
                BY <4>2
            <4>5. PICK w \in Seq(T) : w = ss[n + 1]
                BY <1>1
            <4>6. (x \o y) \o w = x \o (y \o w)
                OBVIOUS
            <4>7. F[n + 1] = y \o w
                BY <4>2, <4>4, <4>5
            <4>8. G[n + 2] = (x \o y) \o w
                BY <4>3, <4>4, <4>5
            <4> QED
                BY <4>6, <4>7, <4>8
        <3> QED
            BY <3>3, <3>4
    <2> HIDE DEF S
    <2>4. Len(ss) \in S
        BY <2>2, <2>3, <1>1, NatSetInduction
    <2>5. G[Len(ss) + 1] = x \o F[Len(ss)]
        BY <2>4, <1>1, <1>4 DEF S
    <2> QED
        BY <2>5, <2>1, <1>1, <1>2 DEF z
<1> QED
    BY <1>3, <1>4

-----------------------------------------------------------------------------
(* Reading what was escaped *)

(* Reading from position k. *)
ReadAt(s, from, k) ==
    IF k > Len(s) THEN <<>>
    ELSE IF EscapeAt(s, k) THEN Then(Meaning[s[k + 1]], from[k + 2])
    ELSE IF s[k] \notin {"quote", "enter", "bslash"}
         THEN Then(s[k], from[k + 1])
    ELSE Broken

(* from has, at every position, what can be read of s from there.          *)
Reads(from, s) ==
    \A k \in 1 .. Len(s) + 1 : from[k] = ReadAt(s, from, k)

(* Reading from k looks only at what was read from later positions.        *)
LEMMA ReadAtIsLocal ==
    ASSUME NEW s \in Seq(Symbols), NEW g, NEW h, NEW k \in 1 .. Len(s) + 1,
           \A j \in 1 .. Len(s) + 1 : j > k => g[j] = h[j]
    PROVE  ReadAt(s, g, k) = ReadAt(s, h, k)
<1>1. Len(s) \in Nat
    BY LenProperties
<1>2. k <= Len(s) => g[k + 1] = h[k + 1]
    BY <1>1
<1>3. k < Len(s) => g[k + 2] = h[k + 2]
    BY <1>1
<1>4. CASE k > Len(s)
    BY <1>4, Zenon DEF ReadAt
<1>5. CASE ~ (k > Len(s)) /\ EscapeAt(s, k)
    <2>1. g[k + 2] = h[k + 2]
        BY <1>5, <1>3 DEF EscapeAt
    <2> QED
        BY <2>1, <1>5, Zenon DEF ReadAt
<1>6. CASE ~ (k > Len(s)) /\ ~ EscapeAt(s, k)
    <2>1. g[k + 1] = h[k + 1]
        BY <1>6, <1>2, <1>1
    <2> QED
        BY <2>1, <1>6, Zenon DEF ReadAt
<1> QED
    BY <1>4, <1>5, <1>6

(* What is read of s is the value, at 1, of a function that has at each    *)
(* position what can be read from there.                                   *)
LEMMA DecodedSteps ==
    ASSUME NEW s \in Seq(Symbols)
    PROVE  \E D : Reads(D, s) /\ Decoded(s) = D[1]
<1> DEFINE N == Len(s) + 1
           f == CHOOSE g : g = [k \in 1 .. N |-> ReadAt(s, g, k)]
<1>1. Decoded(s) = f[1]
    BY Zenon DEF Decoded, ReadAt
<1>2. N \in Nat /\ N # 0
    BY LenProperties
<1>3. ASSUME NEW g, NEW h, NEW k \in 1 .. N,
             \A j \in 1 .. N : j > k => g[j] = h[j]
      PROVE  ReadAt(s, g, k) = ReadAt(s, h, k)
    BY <1>3, ReadAtIsLocal
<1> HIDE DEF N
<1>4. \E g : g = [k \in 1 .. N |-> ReadAt(s, g, k)]
    <2> DEFINE Upto(g, n) == /\ g = [k \in 1 .. N |-> g[k]]
                             /\ \A k \in 1 .. N : k + n > N =>
                                   g[k] = ReadAt(s, g, k)
               S == {n \in Nat : \E g : Upto(g, n)}
    <2>1. 0 \in S
        <3> DEFINE none == [k \in 1 .. N |-> <<>>]
        <3>1. Upto(none, 0)
            BY <1>2
        <3> QED
            BY <3>1, Zenon
    <2>2. ASSUME NEW n \in Nat, n \in S PROVE n + 1 \in S
        <3>1. PICK g : Upto(g, n)
            BY <2>2, Zenon
        <3> DEFINE h == [k \in 1 .. N |-> IF k + n = N THEN ReadAt(s, g, k)
                                          ELSE g[k]]
        <3>2. h = [k \in 1 .. N |-> h[k]]
            OBVIOUS
        <3>3. ASSUME NEW k \in 1 .. N, k + (n + 1) > N
              PROVE  h[k] = ReadAt(s, h, k)
            <4>1. \A j \in 1 .. N : j > k => g[j] = h[j]
                BY <3>3, <1>2
            <4>2. ReadAt(s, g, k) = ReadAt(s, h, k)
                BY <4>1, <1>3
            <4>3. h[k] = ReadAt(s, g, k)
                <5>1. CASE k + n = N
                    BY <5>1
                <5>2. CASE k + n # N
                    <6>1. k + n > N
                        BY <3>3, <5>2, <1>2
                    <6>2. g[k] = ReadAt(s, g, k)
                        BY <3>1, <6>1, Zenon
                    <6> QED
                        BY <5>2, <6>2
                <5> QED
                    BY <5>1, <5>2
            <4> QED
                BY <4>2, <4>3
        <3> HIDE DEF h
        <3>4. n + 1 \in Nat
            OBVIOUS
        <3> QED
            BY <3>2, <3>3, <3>4, Zenon
    <2> HIDE DEF S
    <2>3. N \in S
        BY <2>1, <2>2, <1>2, NatSetInduction
    <2>4. PICK g : Upto(g, N)
        BY <2>3, Zenon DEF S
    <2>5. \A k \in 1 .. N : g[k] = ReadAt(s, g, k)
        BY <2>4, <1>2
    <2>6. g = [k \in 1 .. N |-> ReadAt(s, g, k)]
        BY <2>4, <2>5, Zenon
    <2> QED
        BY <2>6, Zenon
<1>5. f = [k \in 1 .. N |-> ReadAt(s, f, k)]
    BY <1>4, Zenon
<1> HIDE DEF f
<1>6. \A k \in 1 .. N : f[k] = ReadAt(s, f, k)
    BY <1>5, Zenon
<1> QED
    BY <1>1, <1>6, Zenon DEF Reads, N

(* A text in front of s does not change how s is read. *)
LEMMA DecodedSuffix ==
    ASSUME NEW p \in Seq(Symbols), NEW s \in Seq(Symbols),
           NEW D, Reads(D, p \o s)
    PROVE  D[Len(p) + 1] = Decoded(s)
<1> DEFINE z == p \o s
           N == Len(s) + 1
<1>1. PICK G : Reads(G, s) /\ Decoded(s) = G[1]
    BY DecodedSteps
<1>2. /\ Len(p) \in Nat /\ Len(s) \in Nat
      /\ z \in Seq(Symbols)
      /\ Len(z) = Len(p) + Len(s)
      /\ \A k \in 1 .. Len(s) : z[Len(p) + k] = s[k]
    BY ConcatProperties, LenProperties
<1>3. \A k \in 1 .. Len(z) + 1 : D[k] = ReadAt(z, D, k)
    BY DEF Reads
<1>4. \A k \in 1 .. N : G[k] = ReadAt(s, G, k)
    BY <1>1 DEF Reads
<1> HIDE DEF z
<1> DEFINE S == {n \in Nat : \A k \in 1 .. N : k + n > N =>
                                D[Len(p) + k] = G[k]}
<1>5. 0 \in S
    BY <1>2
<1>6. ASSUME NEW n \in Nat, n \in S PROVE n + 1 \in S
    <2> SUFFICES ASSUME NEW k \in 1 .. N, k + (n + 1) > N
                 PROVE  D[Len(p) + k] = G[k]
        OBVIOUS
    <2> DEFINE q == Len(p) + k
    <2>1. /\ q \in 1 .. Len(z) + 1
          /\ q > Len(z) <=> k > Len(s)
          /\ k <= Len(s) => z[q] = s[k] /\ D[q + 1] = G[k + 1]
          /\ k < Len(s) => z[q + 1] = s[k + 1] /\ D[q + 2] = G[k + 2]
          /\ k < Len(s) <=> q < Len(z)
          /\ ~ (k > Len(s)) => k <= Len(s)
        <3>0. \A j \in 1 .. N : j + n > N => D[Len(p) + j] = G[j]
            BY <1>6
        <3>1. k <= Len(s) => D[Len(p) + (k + 1)] = G[k + 1]
            <4>1. k <= Len(s) => k + 1 \in 1 .. N /\ (k + 1) + n > N
                BY <1>2
            <4> QED
                BY <4>1, <3>0, Zenon
        <3>2. k < Len(s) => D[Len(p) + (k + 2)] = G[k + 2]
            <4>1. k < Len(s) => k + 2 \in 1 .. N /\ (k + 2) + n > N
                BY <1>2
            <4> QED
                BY <4>1, <3>0, Zenon
        <3>3. k < Len(s) => z[Len(p) + (k + 1)] = s[k + 1]
            BY <1>2
        <3>4. /\ Len(p) + (k + 1) = q + 1
              /\ Len(p) + (k + 2) = q + 2
            BY <1>2
        <3> HIDE DEF S
        <3> QED
            BY <3>1, <3>2, <3>3, <3>4, <1>2
    <2> HIDE DEF q
    <2>2. EscapeAt(z, q) <=> EscapeAt(s, k)
        BY <2>1 DEF EscapeAt
    <2>3. ReadAt(z, D, q) = ReadAt(s, G, k)
        <3>1. CASE k > Len(s)
            BY <3>1, <2>1, Zenon DEF ReadAt
        <3>2. CASE ~ (k > Len(s)) /\ EscapeAt(s, k)
            <4>1. k < Len(s)
                BY <3>2, Zenon DEF EscapeAt
            <4> QED
                BY <4>1, <3>2, <2>1, <2>2, Zenon DEF ReadAt
        <3>3. CASE ~ (k > Len(s)) /\ ~ EscapeAt(s, k)
            BY <3>3, <2>1, <2>2, Zenon DEF ReadAt
        <3> QED
            BY <3>1, <3>2, <3>3
    <2>4. D[q] = G[k]
        BY <1>3, <1>4, <2>1, <2>3, Zenon
    <2> QED
        BY <2>4, Zenon DEF q
<1> HIDE DEF S
<1>7. N \in S
    BY <1>5, <1>6, <1>2, NatSetInduction
<1>8. D[Len(p) + 1] = G[1]
    BY <1>7, <1>2 DEF S
<1> QED
    BY <1>1, <1>8

(* An escaped character is a backslash and a character that means it, or   *)
(* the character itself.                                                   *)
LEMMA EscapedCharForms ==
    ASSUME NEW c \in Symbols
    PROVE  \/ /\ c \in {"quote", "bslash", "enter"}
              /\ \E d \in DOMAIN Meaning :
                    EscapedChar(c) = <<"bslash", d>> /\ Meaning[d] = c
           \/ /\ c \notin {"quote", "bslash", "enter"}
              /\ EscapedChar(c) = <<c>>
<1>1. CASE c = "quote"
    <2>1. EscapedChar(c) = <<"bslash", "quote">>
        BY <1>1 DEF EscapedChar
    <2> QED
        BY <2>1, <1>1 DEF Meaning
<1>2. CASE c = "bslash"
    <2>1. EscapedChar(c) = <<"bslash", "bslash">>
        BY <1>2 DEF EscapedChar
    <2> QED
        BY <2>1, <1>2 DEF Meaning
<1>3. CASE c = "enter"
    <2>1. EscapedChar(c) = <<"bslash", "n">>
        BY <1>3 DEF EscapedChar
    <2> QED
        BY <2>1, <1>3 DEF Meaning
<1>4. CASE c \notin {"quote", "bslash", "enter"}
    <2>1. EscapedChar(c) = <<c>>
        BY <1>4 DEF EscapedChar
    <2> QED
        BY <2>1, <1>4
<1> QED
    BY <1>1, <1>2, <1>3, <1>4

(* An escaped character is a text.                                         *)
LEMMA EscapedCharTyped ==
    ASSUME NEW c \in Symbols
    PROVE  EscapedChar(c) \in Seq(Symbols)
<1>1. "bslash" \in Symbols /\ DOMAIN Meaning \subseteq Symbols
    BY DEF Symbols, Chars, Meaning
<1>2. ASSUME NEW d \in Symbols PROVE <<"bslash", d>> \in Seq(Symbols)
    BY <1>1
<1>3. <<c>> \in Seq(Symbols)
    OBVIOUS
<1> QED
    BY <1>1, <1>2, <1>3, EscapedCharForms, Zenon

(* An escaped character in front of a text is read as the character. *)
LEMMA DecodedCons ==
    ASSUME NEW c \in Symbols, NEW s \in Seq(Symbols),
           Decoded(s) \in Seq(Symbols)
    PROVE  Decoded(EscapedChar(c) \o s) = <<c>> \o Decoded(s)
<1> DEFINE p == EscapedChar(c)
           z == p \o s
<1>1. /\ p \in Seq(Symbols)
      /\ Len(p) \in {1, 2}
      /\ Len(p) = 1 => /\ p[1] = c
                       /\ c \notin {"quote", "enter", "bslash"}
      /\ Len(p) = 2 => /\ p[1] = "bslash"
                       /\ p[2] \in DOMAIN Meaning
                       /\ Meaning[p[2]] = c
    <2>1. p \in Seq(Symbols)
        BY EscapedCharTyped
    <2> QED
        BY <2>1, EscapedCharForms
<1> HIDE DEF p
<1>2. /\ z \in Seq(Symbols)
      /\ Len(s) \in Nat
      /\ Len(z) = Len(p) + Len(s)
      /\ z[1] = p[1]
      /\ Len(p) = 2 => z[2] = p[2]
    BY <1>1, ConcatProperties, LenProperties
<1>3. PICK D : Reads(D, z) /\ Decoded(z) = D[1]
    BY <1>2, DecodedSteps
<1>4. D[Len(p) + 1] = Decoded(s)
    BY <1>1, <1>3, DecodedSuffix
<1> HIDE DEF z
<1>5. D[1] = ReadAt(z, D, 1)
    BY <1>1, <1>2, <1>3 DEF Reads
<1>6. ~ (1 > Len(z))
    BY <1>1, <1>2
<1>7. Decoded(s) # Broken
    BY TextAssumption
<1>8. CASE Len(p) = 1
    <2>1. ~ EscapeAt(z, 1) /\ z[1] = c
        BY <1>8, <1>1, <1>2 DEF EscapeAt
    <2>2. ReadAt(z, D, 1) = Then(c, D[1 + 1])
        BY <2>1, <1>6, <1>8, <1>1, Zenon DEF ReadAt
    <2> QED
        BY <2>2, <1>8, <1>3, <1>4, <1>5, <1>7, Zenon DEF Then, z, p
<1>9. CASE Len(p) = 2
    <2>1. 1 < Len(z) /\ 1 + 1 = 2 /\ 1 + 2 = 2 + 1
        BY <1>9, <1>2
    <2>2. EscapeAt(z, 1) /\ Meaning[z[1 + 1]] = c
        BY <2>1, <1>9, <1>1, <1>2, Zenon DEF EscapeAt
    <2>3. ReadAt(z, D, 1) = Then(c, D[2 + 1])
        BY <2>1, <2>2, <1>6, Zenon DEF ReadAt
    <2> QED
        BY <2>3, <1>9, <1>3, <1>4, <1>5, <1>7, Zenon DEF Then, z, p
<1> QED
    BY <1>1, <1>8, <1>9

(* Every character c of t replaced by the text h[c]. *)
-----------------------------------------------------------------------------
(* Replacing characters by texts *)

(* The replacements of characters by texts.                                *)
Maps(T) == [T -> Seq(T)]
Mapped(h, t) == FlattenSeq([k \in DOMAIN t |-> h[t[k]]])

(* The replacements are pieces, and what becomes of t is a text.           *)
LEMMA MappedTyped ==
    ASSUME NEW T, NEW h \in Maps(T), NEW t \in Seq(T)
    PROVE  /\ [k \in DOMAIN t |-> h[t[k]]] \in Seq(Seq(T))
           /\ Mapped(h, t) \in Seq(T)
           /\ Mapped(h, <<>>) = <<>>
<1>1. [k \in DOMAIN t |-> h[t[k]]] \in Seq(Seq(T))
    <2>1. DOMAIN t = 1 .. Len(t) /\ Len(t) \in Nat
        BY LenProperties
    <2>2. \A k \in 1 .. Len(t) : t[k] \in T /\ h[t[k]] \in Seq(T)
        BY ElementOfSeq DEF Maps
    <2>3. [k \in 1 .. Len(t) |-> h[t[k]]] \in [1 .. Len(t) -> Seq(T)]
        BY <2>2
    <2> QED
        BY <2>1, <2>3, SeqDef
<1>2. Mapped(h, t) \in Seq(T)
    BY <1>1, FlattenTyped, Zenon DEF Mapped
<1>3. Mapped(h, <<>>) = <<>>
    <2> DEFINE e == [k \in DOMAIN <<>> |-> h[<<>>[k]]]
    <2>1. e = <<>>
        OBVIOUS
    <2>2. Len(<<>>) = 0
        OBVIOUS
    <2>3. Mapped(h, <<>>) = FlattenSeq(e)
        BY Zenon DEF Mapped
    <2> HIDE DEF e
    <2> QED
        BY <2>1, <2>2, <2>3, Zenon DEF FlattenSeq
<1> QED
    BY <1>1, <1>2, <1>3

(* The replacement of the first character is put in front.                 *)
LEMMA MappedCons ==
    ASSUME NEW T, NEW h \in Maps(T), NEW c \in T, NEW t \in Seq(T)
    PROVE  Mapped(h, <<c>> \o t) = h[c] \o Mapped(h, t)
<1> DEFINE z == <<c>> \o t
           pieces == [k \in DOMAIN t |-> h[t[k]]]
           whole == [k \in DOMAIN z |-> h[z[k]]]
<1>1. /\ z \in Seq(T)
      /\ Len(t) \in Nat
      /\ Len(z) = Len(t) + 1
      /\ DOMAIN z = 1 .. Len(z)
      /\ DOMAIN t = 1 .. Len(t)
      /\ z[1] = c
      /\ \A k \in 1 .. Len(t) : z[k + 1] = t[k]
    <2>1. <<c>> \in Seq(T) /\ Len(<<c>>) = 1 /\ <<c>>[1] = c
        OBVIOUS
    <2> QED
        BY <2>1, ConcatProperties, LenProperties
<1>2. Mapped(h, z) = FlattenSeq(whole) /\ Mapped(h, t) = FlattenSeq(pieces)
    BY Zenon DEF Mapped
<1> HIDE DEF z
<1>3. pieces \in Seq(Seq(T)) /\ whole \in Seq(Seq(T)) /\ h[c] \in Seq(T)
    BY <1>1, MappedTyped DEF Maps
<1>4. /\ Len(pieces) = Len(t)
      /\ Len(whole) = Len(t) + 1
      /\ \A k \in 1 .. Len(t) : pieces[k] = h[t[k]]
      /\ \A k \in 1 .. Len(t) + 1 : whole[k] = h[z[k]]
    BY <1>1, <1>3, LenProperties
<1> HIDE DEF pieces, whole
<1>5. <<h[c]>> \o pieces = whole
    <2> DEFINE w == <<h[c]>> \o pieces
    <2>1. /\ <<h[c]>> \in Seq(Seq(T))
          /\ Len(<<h[c]>>) = 1
          /\ <<h[c]>>[1] = h[c]
        BY <1>3
    <2>2. /\ w \in Seq(Seq(T))
          /\ Len(w) = Len(t) + 1
          /\ \A k \in 1 .. Len(t) + 1 :
                w[k] = IF k <= 1 THEN h[c] ELSE pieces[k - 1]
        BY <2>1, <1>1, <1>3, <1>4, ConcatProperties
    <2> HIDE DEF w
    <2>3. ASSUME NEW k \in 1 .. Len(t) + 1 PROVE w[k] = whole[k]
        <3>1. CASE k = 1
            BY <3>1, <2>2, <1>1, <1>4
        <3>2. CASE k # 1
            <4>1. k - 1 \in 1 .. Len(t) /\ (k - 1) + 1 = k /\ ~ (k <= 1)
                BY <3>2, <1>1
            <4>2. w[k] = h[t[k - 1]]
                BY <4>1, <2>2, <1>4
            <4>3. whole[k] = h[z[k]] /\ z[k] = t[k - 1]
                BY <4>1, <1>1, <1>4
            <4> QED
                BY <4>2, <4>3
        <3> QED
            BY <3>1, <3>2
    <2>4. w = whole
        BY <2>2, <2>3, <1>3, <1>4, SeqEqual
    <2> QED
        BY <2>4 DEF w
<1>6. FlattenSeq(<<h[c]>> \o pieces) = h[c] \o FlattenSeq(pieces)
    BY <1>3, FlattenCons
<1> QED
    BY <1>2, <1>5, <1>6, Zenon DEF z

(* Two texts may be replaced one by one.                                   *)
LEMMA MappedConcat ==
    ASSUME NEW T, NEW h \in Maps(T),
           NEW p \in Seq(T), NEW t \in Seq(T)
    PROVE  Mapped(h, p \o t) = Mapped(h, p) \o Mapped(h, t)
<1>0. ASSUME NEW a \in Seq(T), NEW b \in Seq(T), NEW d \in Seq(T)
      PROVE  a \o b \in Seq(T) /\ (a \o b) \o d = a \o (b \o d)
    OBVIOUS
<1> DEFINE S == {q \in Seq(T) : Mapped(h, q \o t) = Mapped(h, q) \o Mapped(h, t)}
<1>1. <<>> \in S
    <2>1. <<>> \o t = t /\ <<>> \in Seq(T)
        OBVIOUS
    <2>2. PICK m \in Seq(T) : m = Mapped(h, t)
        BY MappedTyped
    <2>3. Mapped(h, <<>>) = <<>>
        BY MappedTyped
    <2>4. <<>> \o m = m
        OBVIOUS
    <2> QED
        BY <2>1, <2>2, <2>3, <2>4
<1>2. ASSUME NEW c \in T, NEW q \in Seq(T), q \in S PROVE <<c>> \o q \in S
    <2> DEFINE r == q \o t
               v == <<c>> \o q
    <2>1. <<c>> \in Seq(T)
        OBVIOUS
    <2>2. r \in Seq(T) /\ v \in Seq(T)
        BY <2>1, <1>0, Zenon
    <2>3. v \o t = <<c>> \o r
        BY <2>1, <1>0, Zenon
    <2>4. h[c] \in Seq(T)
        BY DEF Maps
    <2>5. Mapped(h, q) \in Seq(T) /\ Mapped(h, t) \in Seq(T)
        BY MappedTyped, Zenon
    <2>6. Mapped(h, r) = Mapped(h, q) \o Mapped(h, t)
        BY <1>2, Zenon
    <2>7. Mapped(h, v) = h[c] \o Mapped(h, q)
        BY MappedCons, Zenon
    <2> HIDE DEF r
    <2>8. Mapped(h, <<c>> \o r) = h[c] \o Mapped(h, r)
        BY <2>2, MappedCons, Zenon
    <2> HIDE DEF v
    <2>9. Mapped(h, <<c>> \o r) = Mapped(h, v) \o Mapped(h, t)
        <3>1. (h[c] \o Mapped(h, q)) \o Mapped(h, t)
                 = h[c] \o (Mapped(h, q) \o Mapped(h, t))
            BY <2>4, <2>5, <1>0, Zenon
        <3> QED
            BY <2>6, <2>7, <2>8, <3>1, Zenon
    <2>10. Mapped(h, v \o t) = Mapped(h, v) \o Mapped(h, t)
        BY <2>3, <2>9, Zenon
    <2> QED
        BY <2>2, <2>10, Zenon DEF v
<1> HIDE DEF S
<1>3. Seq(T) \subseteq S
    BY <1>1, <1>2, TextInduction
<1> QED
    BY <1>3 DEF S

(* escape_json_entire_text, create_new_card and handle_small_talk as       *)
(* replacements.                                                           *)
EscapeMap == [c \in Symbols |-> EscapedChar(c)]
BraceMap == [c \in Symbols |->
               IF c = "brace" THEN <<"bslash", "bslash", "brace">> ELSE <<c>>]
WithoutMap(d) == [c \in Symbols |-> IF c = d THEN <<>> ELSE <<c>>]

(* What the card shows: a backslash before every brace. *)
SlashMap == [c \in Symbols |->
               IF c = "brace" THEN <<"bslash", "brace">> ELSE <<c>>]
Slashed(t) == Mapped(SlashMap, t)

(* Each of the replacements gives a text for every character.              *)
LEMMA TheMaps ==
    /\ EscapeMap \in Maps(Symbols)
    /\ BraceMap \in Maps(Symbols)
    /\ SlashMap \in Maps(Symbols)
    /\ \A d : WithoutMap(d) \in Maps(Symbols)
<1>1. \A c \in Symbols : EscapedChar(c) \in Seq(Symbols)
    BY EscapedCharTyped
<1>2. /\ <<"bslash", "bslash", "brace">> \in Seq(Symbols)
      /\ <<"bslash", "brace">> \in Seq(Symbols)
      /\ <<>> \in Seq(Symbols)
      /\ \A c \in Symbols : <<c>> \in Seq(Symbols)
    BY DEF Symbols, Chars
<1>3. EscapeMap \in Maps(Symbols)
    BY <1>1, Zenon DEF EscapeMap, Maps
<1>4. BraceMap \in Maps(Symbols) /\ SlashMap \in Maps(Symbols)
    BY <1>2, Zenon DEF BraceMap, SlashMap, Maps
<1>5. ASSUME NEW d PROVE WithoutMap(d) \in Maps(Symbols)
    BY <1>2, Zenon DEF WithoutMap, Maps
<1> QED
    BY <1>3, <1>4, <1>5

(* The functions of support.cpp and trelloapi.cpp as such replacements.    *)
LEMMA AsMapped ==
    ASSUME NEW t \in Seq(Symbols)
    PROVE  /\ Escaped(t) = Mapped(EscapeMap, t)
           /\ Braced(t) = Mapped(BraceMap, t)
           /\ \A d : Without(t, d) = Mapped(WithoutMap(d), t)
<1>1. \A k \in DOMAIN t : t[k] \in Symbols
    BY ElementOfSeq, LenProperties
<1>2. \A k \in DOMAIN t : EscapeMap[t[k]] = EscapedChar(t[k])
    BY <1>1, Zenon DEF EscapeMap
<1>3. \A k \in DOMAIN t : BraceMap[t[k]] =
          IF t[k] = "brace" THEN <<"bslash", "bslash", "brace">> ELSE <<t[k]>>
    BY <1>1, Zenon DEF BraceMap
<1>4. \A d : \A k \in DOMAIN t :
          WithoutMap(d)[t[k]] = IF t[k] = d THEN <<>> ELSE <<t[k]>>
    BY <1>1, Zenon DEF WithoutMap
<1>5. [k \in DOMAIN t |-> EscapedChar(t[k])]
         = [k \in DOMAIN t |-> EscapeMap[t[k]]]
    BY <1>2, Zenon
<1>6. [k \in DOMAIN t |-> IF t[k] = "brace"
                          THEN <<"bslash", "bslash", "brace">> ELSE <<t[k]>>]
         = [k \in DOMAIN t |-> BraceMap[t[k]]]
    BY <1>3, Zenon
<1>7. ASSUME NEW d
      PROVE  [k \in DOMAIN t |-> IF t[k] = d THEN <<>> ELSE <<t[k]>>]
                = [k \in DOMAIN t |-> WithoutMap(d)[t[k]]]
    BY <1>4, Zenon
<1>8. Escaped(t) = Mapped(EscapeMap, t)
    BY <1>5, Zenon DEF Escaped, Mapped
<1>9. Braced(t) = Mapped(BraceMap, t)
    BY <1>6, Zenon DEF Braced, Mapped
<1>10. ASSUME NEW d PROVE Without(t, d) = Mapped(WithoutMap(d), t)
    BY <1>7, Zenon DEF Without, Mapped
<1> QED
    BY <1>8, <1>9, <1>10, Zenon

(* They all make a text of a text.                                         *)
LEMMA TextsTyped ==
    ASSUME NEW t \in Seq(Symbols)
    PROVE  /\ Escaped(t) \in Seq(Symbols)
           /\ Braced(t) \in Seq(Symbols)
           /\ Slashed(t) \in Seq(Symbols)
           /\ \A d : Without(t, d) \in Seq(Symbols)
<1>1. \A h \in Maps(Symbols) : Mapped(h, t) \in Seq(Symbols)
    BY MappedTyped, Zenon
<1> QED
    BY <1>1, AsMapped, TheMaps, Zenon DEF Slashed

(* Trello, Jira and a reader of the row get every text back that was       *)
(* escaped once (escape_json_entire_text, support.cpp:71).                 *)
THEOREM EscapedReadsBack ==
    ASSUME NEW t \in Seq(Symbols)
    PROVE  Decoded(Escaped(t)) = t
<1> DEFINE S == {s \in Seq(Symbols) : Decoded(Escaped(s)) = s}
<1>1. <<>> \in S
    <2>1. <<>> \in Seq(Symbols) /\ Len(<<>>) = 0
        OBVIOUS
    <2>2. Escaped(<<>>) = <<>>
        BY <2>1, AsMapped, TheMaps, MappedTyped, Zenon
    <2>3. PICK D : Reads(D, <<>>) /\ Decoded(<<>>) = D[1]
        BY <2>1, DecodedSteps
    <2>4. D[1] = ReadAt(<<>>, D, 1)
        BY <2>1, <2>3 DEF Reads
    <2>5. ReadAt(<<>>, D, 1) = <<>>
        BY DEF ReadAt
    <2> QED
        BY <2>1, <2>2, <2>3, <2>4, <2>5, Zenon
<1>2. ASSUME NEW c \in Symbols, NEW s \in Seq(Symbols), s \in S
      PROVE  <<c>> \o s \in S
    <2>1. <<c>> \o s \in Seq(Symbols)
        OBVIOUS
    <2>2. Mapped(EscapeMap, <<c>> \o s) = EscapeMap[c] \o Mapped(EscapeMap, s)
        BY TheMaps, MappedCons, Zenon
    <2>3. EscapeMap[c] = EscapedChar(c)
        BY Zenon DEF EscapeMap
    <2>4. Escaped(<<c>> \o s) = EscapedChar(c) \o Escaped(s)
        BY <2>1, <2>2, <2>3, AsMapped, Zenon
    <2>5. Decoded(Escaped(s)) = s /\ Escaped(s) \in Seq(Symbols)
        BY <1>2, TextsTyped, Zenon
    <2>6. Decoded(EscapedChar(c) \o Escaped(s)) = <<c>> \o s
        BY <2>5, DecodedCons
    <2> QED
        BY <2>1, <2>4, <2>6, Zenon
<1> HIDE DEF S
<1>3. Seq(Symbols) \subseteq S
    BY <1>1, <1>2, TextInduction
<1> QED
    BY <1>3 DEF S

(* Texts of one, two and three characters.                                 *)
LEMMA ShortTexts ==
    ASSUME NEW T, NEW a \in T, NEW b \in T, NEW c \in T
    PROVE  /\ <<a>> \o <<>> = <<a>>
           /\ <<a>> \o <<b>> = <<a, b>>
           /\ <<a, b>> \o <<c>> = <<a, b, c>>
<1>1. <<a>> \in Seq(T) /\ Len(<<a>>) = 1 /\ <<a>>[1] = a
    OBVIOUS
<1>2. <<b>> \in Seq(T) /\ Len(<<b>>) = 1 /\ <<b>>[1] = b
    OBVIOUS
<1>3. <<c>> \in Seq(T) /\ Len(<<c>>) = 1 /\ <<c>>[1] = c
    OBVIOUS
<1>4. /\ <<a, b>> \in Seq(T)
      /\ Len(<<a, b>>) = 2
      /\ <<a, b>>[1] = a
      /\ <<a, b>>[2] = b
    OBVIOUS
<1>5. /\ <<a, b, c>> \in Seq(T)
      /\ Len(<<a, b, c>>) = 3
      /\ <<a, b, c>>[1] = a
      /\ <<a, b, c>>[2] = b
      /\ <<a, b, c>>[3] = c
    OBVIOUS
<1>6. <<a>> \o <<b>> = <<a, b>>
    <2> DEFINE w == <<a>> \o <<b>>
    <2>1. w \in Seq(T) /\ Len(w) = 2 /\ w[1] = a /\ w[2] = b
        BY <1>1, <1>2, ConcatProperties
    <2> HIDE DEF w
    <2>2. w = <<a, b>>
        BY <2>1, <1>4, SeqEqual
    <2> QED
        BY <2>2 DEF w
<1>7. <<a, b>> \o <<c>> = <<a, b, c>>
    <2> DEFINE w == <<a, b>> \o <<c>>
    <2>1. /\ w \in Seq(T)
          /\ Len(w) = 3
          /\ w[1] = a
          /\ w[2] = b
          /\ w[3] = c
        BY <1>4, <1>3, ConcatProperties
    <2> HIDE DEF w
    <2>2. w = <<a, b, c>>
        BY <2>1, <1>5, SeqEqual
    <2> QED
        BY <2>2 DEF w
<1>8. <<a>> \o <<>> = <<a>>
    BY <1>1, ConcatEmptySeq
<1> QED
    BY <1>6, <1>7, <1>8

(* What becomes of one and of two characters.                              *)
LEMMA MappedSingle ==
    ASSUME NEW h \in Maps(Symbols), NEW c \in Symbols, NEW d \in Symbols
    PROVE  /\ Mapped(h, <<c>>) = h[c]
           /\ Mapped(h, <<c, d>>) = h[c] \o h[d]
<1>1. /\ <<>> \in Seq(Symbols) /\ <<d>> \in Seq(Symbols)
      /\ <<c>> \o <<>> = <<c>> /\ <<d>> \o <<>> = <<d>>
      /\ <<c>> \o <<d>> = <<c, d>>
    <2>1. <<>> \in Seq(Symbols) /\ <<d>> \in Seq(Symbols)
        OBVIOUS
    <2> QED
        BY <2>1, ShortTexts, Zenon
<1>2. h[c] \in Seq(Symbols) /\ h[d] \in Seq(Symbols)
    BY DEF Maps
<1>3. h[c] \o <<>> = h[c] /\ h[d] \o <<>> = h[d]
    BY <1>2, ConcatEmptySeq
<1>4. Mapped(h, <<>>) = <<>>
    BY <1>1, MappedTyped, Zenon
<1>5. /\ Mapped(h, <<c>> \o <<>>) = h[c] \o Mapped(h, <<>>)
      /\ Mapped(h, <<d>> \o <<>>) = h[d] \o Mapped(h, <<>>)
      /\ Mapped(h, <<c>> \o <<d>>) = h[c] \o Mapped(h, <<d>>)
    BY <1>1, MappedCons, Zenon
<1> QED
    BY <1>1, <1>3, <1>4, <1>5

(* Replacing the braces of an escaped character is escaping what the card  *)
(* shows of it.                                                            *)
LEMMA BracedChar ==
    ASSUME NEW c \in Symbols
    PROVE  Mapped(BraceMap, EscapedChar(c)) = Mapped(EscapeMap, SlashMap[c])
<1>1. {"quote", "bslash", "enter", "brace", "n"} \subseteq Symbols
    BY DEF Symbols, Chars
<1>2. CASE c \in {"quote", "bslash", "enter"}
    <2>1. PICK d \in DOMAIN Meaning :
             EscapedChar(c) = <<"bslash", d>> /\ Meaning[d] = c
        BY <1>2, EscapedCharForms
    <2>2. d \in Symbols /\ d # "brace"
        BY <1>1 DEF Meaning
    <2>3. Mapped(BraceMap, EscapedChar(c)) = BraceMap["bslash"] \o BraceMap[d]
        <3>1. "bslash" \in Symbols
            BY <1>1
        <3>2. Mapped(BraceMap, <<"bslash", d>>)
                 = BraceMap["bslash"] \o BraceMap[d]
            BY <3>1, <2>2, MappedSingle, TheMaps, Zenon
        <3> QED
            BY <2>1, <3>2
    <2>4. BraceMap["bslash"] = <<"bslash">> /\ BraceMap[d] = <<d>>
        BY <1>1, <2>2 DEF BraceMap
    <2>5. <<"bslash">> \o <<d>> = <<"bslash", d>>
        <3>1. "bslash" \in Symbols
            BY <1>1
        <3> QED
            BY <3>1, <2>2, ShortTexts, Zenon
    <2>6. SlashMap[c] = <<c>>
        BY <1>2 DEF SlashMap
    <2>7. Mapped(EscapeMap, <<c>>) = EscapeMap[c]
        BY MappedSingle, TheMaps
    <2>8. EscapeMap[c] = EscapedChar(c)
        BY Zenon DEF EscapeMap
    <2> QED
        BY <2>1, <2>3, <2>4, <2>5, <2>6, <2>7, <2>8
<1>3. CASE c = "brace"
    <2>1. EscapedChar(c) = <<"brace">> /\ EscapedChar("bslash") = <<"bslash", "bslash">>
        BY <1>3 DEF EscapedChar
    <2>2. Mapped(BraceMap, <<"brace">>) = BraceMap["brace"]
        BY <1>1, MappedSingle, TheMaps
    <2>3. BraceMap["brace"] = <<"bslash", "bslash", "brace">>
        BY <1>1 DEF BraceMap
    <2>4. SlashMap[c] = <<"bslash", "brace">>
        BY <1>3 DEF SlashMap
    <2>5. Mapped(EscapeMap, <<"bslash", "brace">>)
             = EscapeMap["bslash"] \o EscapeMap["brace"]
        BY <1>1, MappedSingle, TheMaps
    <2>6. EscapeMap["bslash"] = <<"bslash", "bslash">>
          /\ EscapeMap["brace"] = <<"brace">>
        BY <1>1, <1>3, <2>1 DEF EscapeMap
    <2>7. <<"bslash", "bslash">> \o <<"brace">> = <<"bslash", "bslash", "brace">>
        <3>1. "bslash" \in Symbols /\ "brace" \in Symbols
            BY <1>1
        <3> QED
            BY <3>1, ShortTexts, Zenon
    <2> QED
        BY <2>1, <2>2, <2>3, <2>4, <2>5, <2>6, <2>7
<1>4. CASE c \notin {"quote", "bslash", "enter", "brace"}
    <2>1. EscapedChar(c) = <<c>>
        BY <1>4, EscapedCharForms
    <2>2. BraceMap[c] = <<c>> /\ SlashMap[c] = <<c>> /\ EscapeMap[c] = <<c>>
        BY <1>4, <2>1 DEF BraceMap, SlashMap, EscapeMap
    <2>3. Mapped(BraceMap, <<c>>) = BraceMap[c]
          /\ Mapped(EscapeMap, <<c>>) = EscapeMap[c]
        BY MappedSingle, TheMaps
    <2> QED
        BY <2>1, <2>2, <2>3
<1> QED
    BY <1>2, <1>3, <1>4

(* The same of a whole text: the braces are replaced after the escaping    *)
(* (trelloapi.cpp:350), and that is as if a backslash had been typed       *)
(* before each of them.                                                    *)
LEMMA CardForm ==
    ASSUME NEW t \in Seq(Symbols)
    PROVE  Braced(Escaped(t)) = Escaped(Slashed(t))
<1> DEFINE S == {s \in Seq(Symbols) : Mapped(BraceMap, Mapped(EscapeMap, s))
                                       = Mapped(EscapeMap, Mapped(SlashMap, s))}
<1>1. <<>> \in S
    <2>1. <<>> \in Seq(Symbols)
        OBVIOUS
    <2>2. \A h \in Maps(Symbols) : Mapped(h, <<>>) = <<>>
        BY <2>1, MappedTyped, Zenon
    <2> QED
        BY <2>1, <2>2, TheMaps, Zenon
<1>2. ASSUME NEW c \in Symbols, NEW s \in Seq(Symbols), s \in S
      PROVE  <<c>> \o s \in S
    <2>1. <<c>> \o s \in Seq(Symbols)
        OBVIOUS
    <2>2. /\ Mapped(EscapeMap, s) \in Seq(Symbols)
          /\ Mapped(SlashMap, s) \in Seq(Symbols)
          /\ EscapedChar(c) \in Seq(Symbols)
          /\ SlashMap[c] \in Seq(Symbols)
        <3>1. SlashMap[c] \in Seq(Symbols)
            BY TheMaps DEF Maps
        <3> QED
            BY <3>1, EscapedCharTyped, MappedTyped, TheMaps, Zenon
    <2>3. EscapeMap[c] = EscapedChar(c)
        BY Zenon DEF EscapeMap
    <2>4. /\ Mapped(EscapeMap, <<c>> \o s) = EscapeMap[c] \o Mapped(EscapeMap, s)
          /\ Mapped(SlashMap, <<c>> \o s) = SlashMap[c] \o Mapped(SlashMap, s)
        BY TheMaps, MappedCons, Zenon
    <2>5. Mapped(BraceMap, EscapedChar(c) \o Mapped(EscapeMap, s))
             = Mapped(BraceMap, EscapedChar(c))
                  \o Mapped(BraceMap, Mapped(EscapeMap, s))
        BY <2>2, TheMaps, MappedConcat, Zenon
    <2>6. Mapped(EscapeMap, SlashMap[c] \o Mapped(SlashMap, s))
             = Mapped(EscapeMap, SlashMap[c])
                  \o Mapped(EscapeMap, Mapped(SlashMap, s))
        BY <2>2, TheMaps, MappedConcat, Zenon
    <2>7. Mapped(BraceMap, EscapedChar(c)) = Mapped(EscapeMap, SlashMap[c])
        BY BracedChar
    <2>8. Mapped(BraceMap, Mapped(EscapeMap, s))
             = Mapped(EscapeMap, Mapped(SlashMap, s))
        BY <1>2, Zenon
    <2> QED
        BY <2>1, <2>3, <2>4, <2>5, <2>6, <2>7, <2>8, Zenon
<1> HIDE DEF S
<1>3. Seq(Symbols) \subseteq S
    BY <1>1, <1>2, TextInduction
<1>4. Mapped(BraceMap, Mapped(EscapeMap, t)) = Mapped(EscapeMap, Mapped(SlashMap, t))
    BY <1>3 DEF S
<1> QED
    BY <1>4, AsMapped, TextsTyped, Zenon DEF Slashed

(* Whatever create_new_card is given, the card can be read, and shows the  *)
(* text with a backslash before each brace.                                *)
THEOREM CardReadsBack ==
    ASSUME NEW t \in Seq(Symbols)
    PROVE  Decoded(Braced(Escaped(t))) = Slashed(t)
BY CardForm, EscapedReadsBack, TextsTyped

(* Leaving a character out makes no text longer.                           *)
LEMMA WithoutShortens ==
    ASSUME NEW t \in Seq(Symbols), NEW d
    PROVE  Len(Without(t, d)) <= Len(t)
<1> DEFINE h == WithoutMap(d)
           S == {s \in Seq(Symbols) : Len(Mapped(h, s)) <= Len(s)}
<1>0. h \in Maps(Symbols)
    BY TheMaps
<1>1. <<>> \in S
    <2>1. Mapped(h, <<>>) = <<>>
        BY <1>0, MappedTyped, EmptySeq, Zenon
    <2> QED
        BY <2>1
<1>2. ASSUME NEW c \in Symbols, NEW s \in Seq(Symbols), s \in S
      PROVE  <<c>> \o s \in S
    <2>1. h[c] \in Seq(Symbols) /\ Len(h[c]) <= 1
        BY DEF WithoutMap
    <2> HIDE DEF h
    <2>2. Mapped(h, s) \in Seq(Symbols)
        BY <1>0, MappedTyped, Zenon
    <2>3. Mapped(h, <<c>> \o s) = h[c] \o Mapped(h, s)
        BY <1>0, MappedCons, Zenon
    <2>4. Len(h[c] \o Mapped(h, s)) = Len(h[c]) + Len(Mapped(h, s))
        BY <2>1, <2>2, ConcatProperties
    <2>5. /\ <<c>> \o s \in Seq(Symbols)
          /\ Len(<<c>> \o s) = 1 + Len(s)
        OBVIOUS
    <2>6. /\ Len(s) \in Nat
          /\ Len(h[c]) \in Nat
          /\ Len(Mapped(h, s)) \in Nat
          /\ Len(Mapped(h, s)) <= Len(s)
        BY <1>2, <2>1, <2>2, LenProperties
    <2>7. Len(Mapped(h, <<c>> \o s)) <= Len(<<c>> \o s)
        BY <2>1, <2>3, <2>4, <2>5, <2>6
    <2> QED
        BY <2>5, <2>7
<1> HIDE DEF S
<1>3. t \in S
    BY <1>1, <1>2, TextInduction
<1> QED
    BY <1>3, AsMapped DEF S

-----------------------------------------------------------------------------
(* Widths *)

(* A cut text has the width and three dots at most; one that fits stays.   *)
LEMMA TruncatedFits ==
    ASSUME NEW t \in Seq(Symbols), NEW w \in Nat
    PROVE  /\ Truncated(t, w) \in Seq(Symbols)
           /\ Len(Truncated(t, w)) <= w + Len(Dots)
           /\ Len(t) <= w => Truncated(t, w) = t
<1>1. Len(t) \in Nat /\ t \in [1 .. Len(t) -> Symbols]
    BY LenProperties
<1>2. Dots \in Seq(Symbols) /\ Len(Dots) = 3
    BY DEF Dots, Symbols
<1>3. CASE Len(t) > w
    <2> DEFINE b == SubSeq(t, 1, w)
    <2>1. b \in Seq(Symbols) /\ Len(b) = w
        <3>1. \A i \in 1 .. w : t[i] \in Symbols
            BY <1>1, <1>3
        <3> QED
            BY <3>1, SubSeqProperties
    <2>2. Truncated(t, w) = b \o Dots
        BY <1>3 DEF Truncated
    <2> HIDE DEF b
    <2>3. b \o Dots \in Seq(Symbols) /\ Len(b \o Dots) = Len(b) + Len(Dots)
        BY <1>2, <2>1, ConcatProperties, Zenon
    <2>4. ~ (Len(t) <= w)
        BY <1>1, <1>3
    <2> QED
        BY <1>2, <2>1, <2>2, <2>3, <2>4
<1>4. CASE ~ (Len(t) > w)
    <2>1. Truncated(t, w) = t
        BY <1>4, Zenon DEF Truncated
    <2> QED
        BY <2>1, <1>1, <1>2, <1>4
<1> QED
    BY <1>3, <1>4

(* What the proofs use of the widths.                                      *)
LEMMA WidthsTyped ==
    /\ ShortWidth \in Nat /\ LongWidth \in Nat /\ ShortWidth <= LongWidth
    /\ SummaryWidth \in Nat /\ SummaryShare \in Nat
    /\ CaptionWidth \in Nat /\ CaptionLimit \in Nat
    /\ MessageLimit \in Nat /\ Labels \in Nat
    /\ MaxTyped \in Nat
    /\ Len(Dots) = 3
BY TextAssumption DEF Dots

(* What a step of the dialogue accepts is no longer than the field may be. *)
LEMMA AcceptedFits ==
    ASSUME NEW f, NEW t \in Texts
    PROVE  /\ Accepted(f, t) \in Seq(Symbols)
           /\ Len(Accepted(f, t)) \in Nat
           /\ Len(Accepted(f, t)) <=
                (IF f = "description" THEN LongWidth ELSE ShortWidth) + Len(Dots)
           /\ Len(Accepted(f, t)) <= LongWidth + Len(Dots)
<1>1. t \in Seq(Symbols)
    <2>1. PICK k \in 0 .. MaxTyped : t \in [1 .. k -> Chars]
        BY DEF Texts
    <2>2. t \in [1 .. k -> Symbols] /\ k \in Nat
        BY <2>1, WidthsTyped DEF Symbols
    <2> QED
        BY <2>2, SeqDef
<1> DEFINE s == IF f \in OneLine THEN Without(t, "enter") ELSE t
           w == IF f = "description" THEN LongWidth ELSE ShortWidth
<1>2. s \in Seq(Symbols)
    BY <1>1, TextsTyped
<1>3. w \in Nat /\ w <= LongWidth
    BY WidthsTyped
<1>4. Accepted(f, t) = Truncated(s, w)
    BY Zenon DEF Accepted
<1> HIDE DEF s
<1>5. Accepted(f, t) \in Seq(Symbols) /\ Len(Truncated(s, w)) <= w + Len(Dots)
    BY <1>2, <1>3, <1>4, TruncatedFits, Zenon
<1>6. Len(Accepted(f, t)) \in Nat
    BY <1>5, LenProperties
<1> QED
    BY <1>3, <1>4, <1>5, <1>6, WidthsTyped

(* Nor is what the user meant.                                             *)
LEMMA MeantFits ==
    ASSUME typed \in Texts
    PROVE  /\ Meant \in Seq(Symbols)
           /\ Len(Meant) \in Nat
           /\ Len(Meant) <= LongWidth + Len(Dots)
<1> DEFINE t == Accepted(field, typed)
<1>1. t \in Seq(Symbols) /\ Len(t) <= LongWidth + Len(Dots)
    BY AcceptedFits
<1>2. Meant = IF field = "section" THEN Without(t, "space") ELSE t
    BY Zenon DEF Meant
<1> HIDE DEF t
<1>3. Meant \in Seq(Symbols)
    BY <1>1, <1>2, TextsTyped
<1>4. Len(Meant) <= Len(t)
    <2>1. CASE field = "section"
        BY <2>1, <1>1, <1>2, WithoutShortens
    <2>2. CASE field # "section"
        BY <2>2, <1>1, <1>2, LenProperties
    <2> QED
        BY <2>1, <2>2
<1>5. Len(Meant) \in Nat /\ Len(t) \in Nat
    BY <1>1, <1>3, LenProperties
<1> QED
    BY <1>1, <1>3, <1>4, <1>5, WidthsTyped

-----------------------------------------------------------------------------
(* The invariant and what follows from it *)

(* Where the field is at each stage: accepted, escaped once, then in card, *)
(* row, task and list.                                                     *)
Staged ==
    /\ field \in Fields
    /\ typed \in Texts
    /\ stage = "accepted" => jira_task = Accepted(field, typed)
    /\ stage \in {"escaped", "carded", "written"} =>
          prepared = Accepted(field, typed) /\ jira_task = Escaped(Meant)
    /\ card # None =>
          \E part \in {Accepted(field, typed), Escaped(Meant)} :
             card = Braced(Escaped(part))
    /\ row # None => row = Escaped(Meant)
    /\ task # None => task = JiraPart(field, Escaped(Meant))
    /\ listed # None =>
          /\ row = Escaped(Meant)
          /\ \E photo \in BOOLEAN, o \in Others :
                /\ o.accepted <= OtherWidth
                /\ listed =
                     [photo    |-> photo,
                      length   |-> ListedLength(Labels + Len(row) + o.stored,
                                                photo),
                      accepted |-> Len(Accepted(field, typed)) + o.accepted,
                      stored   |-> Len(row) + o.stored]

(* Staged is an invariant, and inductive.                                  *)
THEOREM StagedAlways == Spec => []Staged
<1>1. Init => Staged
    BY DEF Init, Staged
<1>2. Staged /\ [Next]_vars => Staged'
    <2> SUFFICES ASSUME Staged, [Next]_vars PROVE Staged'
        OBVIOUS
    <2>1. CASE SmallTalk
        BY <2>1, Zenon DEF Staged, SmallTalk, Meant, OtherWidth
    <2>2. CASE EscapeAll
        BY <2>2, Zenon DEF Staged, EscapeAll, Meant, OtherWidth, EscapedField
    <2>3. CASE CreateNewCard
        BY <2>3, Zenon DEF Staged, CreateNewCard, Meant, OtherWidth, CardPart
    <2>4. CASE WriteIssueToDb
        BY <2>4, Zenon DEF Staged, WriteIssueToDb, Meant, OtherWidth
    <2>5. CASE CreateTask
        BY <2>5, Zenon DEF Staged, CreateTask, Meant, OtherWidth
    <2>6. CASE GetMyIssues
        BY <2>6, Zenon DEF Staged, GetMyIssues, Meant, OtherWidth
    <2>7. CASE UNCHANGED vars
        BY <2>7, Zenon DEF Staged, vars, Meant, OtherWidth
    <2> QED
        BY <2>1, <2>2, <2>3, <2>4, <2>5, <2>6, <2>7 DEF Next
<1> QED
    BY <1>1, <1>2, PTL DEF Spec

(* What Trello reads of a card is the accepted text, or the escaped one,   *)
(* with a backslash before each brace.                                     *)
CardShowsTheText ==
    card # None =>
       \E part \in {Accepted(field, typed), Escaped(Meant)} :
          Decoded(card) = Slashed(part)

THEOREM CardShowsTheTextAlways == Spec => []CardShowsTheText
<1>1. Staged => CardShowsTheText
    <2> SUFFICES ASSUME Staged, card # None
                 PROVE  \E part \in {Accepted(field, typed), Escaped(Meant)} :
                           Decoded(card) = Slashed(part)
        BY DEF CardShowsTheText
    <2>1. PICK part \in {Accepted(field, typed), Escaped(Meant)} :
             card = Braced(Escaped(part))
        BY DEF Staged
    <2>2. part \in Seq(Symbols)
        BY AcceptedFits, MeantFits, TextsTyped DEF Staged
    <2> QED
        BY <2>1, <2>2, CardReadsBack, Zenon
<1> QED
    BY <1>1, StagedAlways, PTL

(* Trello can read every card.                                             *)
THEOREM CardParsesAlways == Spec => []CardParses
<1>1. Staged /\ CardShowsTheText => CardParses
    <2> SUFFICES ASSUME Staged, CardShowsTheText, card # None
                 PROVE  Decoded(card) # Broken
        BY DEF CardParses
    <2>1. PICK part \in {Accepted(field, typed), Escaped(Meant)} :
             Decoded(card) = Slashed(part)
        BY DEF CardShowsTheText
    <2>2. Slashed(part) \in Seq(Symbols)
        BY AcceptedFits, MeantFits, TextsTyped DEF Staged
    <2> QED
        BY <2>1, <2>2, TextAssumption
<1> QED
    BY <1>1, StagedAlways, CardShowsTheTextAlways, PTL

(* The row holds the whole accepted text, escaped once.                    *)
THEOREM RowKeepsTheTextAlways == Spec => []RowKeepsTheText
<1>1. Staged => RowKeepsTheText
    BY MeantFits, EscapedReadsBack DEF Staged, RowKeepsTheText
<1> QED
    BY <1>1, StagedAlways, PTL

(* A field that create_task does not cut reaches Jira as it was meant.     *)
THEOREM UncutFieldReachesJiraAlways == Spec => []UncutFieldReachesJira
<1>1. Staged => UncutFieldReachesJira
    <2> SUFFICES ASSUME Staged, task # None,
                        ~ (field \in Summary
                             /\ Len(Escaped(Meant)) > SummaryWidth)
                 PROVE  Decoded(task) = Meant
        BY DEF UncutFieldReachesJira
    <2>1. Meant \in Seq(Symbols) /\ Escaped(Meant) \in Seq(Symbols)
        BY MeantFits, TextsTyped DEF Staged
    <2>2. task = JiraPart(field, Escaped(Meant))
        BY DEF Staged
    <2>3. JiraPart(field, Escaped(Meant)) = Escaped(Meant)
        BY Zenon DEF JiraPart, Truncated
    <2> QED
        BY <2>1, <2>2, <2>3, EscapedReadsBack
<1> QED
    BY <1>1, StagedAlways, PTL

(* A summary never has more characters than Jira takes.                    *)
THEOREM SummaryFitsAlways == Spec => []SummaryFits
<1>1. Staged => SummaryFits
    <2> SUFFICES ASSUME Staged, task # None, field \in Summary
                 PROVE  Len(task) <= SummaryShare
        BY DEF SummaryFits
    <2>1. Escaped(Meant) \in Seq(Symbols)
        BY MeantFits, TextsTyped DEF Staged
    <2>2. task = Truncated(Escaped(Meant), SummaryWidth)
        BY DEF Staged, JiraPart
    <2>3. task \in Seq(Symbols) /\ Len(task) <= SummaryWidth + Len(Dots)
        BY <2>1, <2>2, TruncatedFits, WidthsTyped
    <2>4. Len(task) \in Nat
        BY <2>3, LenProperties
    <2> QED
        BY <2>3, <2>4, WidthsTyped, TextAssumption
<1> QED
    BY <1>1, StagedAlways, PTL

(* The followed field and the others of a listing, as they were accepted,  *)
(* are a description and four short fields at most.                        *)
LEMMA AcceptedFieldsFit ==
    ASSUME typed \in Texts, NEW n \in Nat, n <= OtherWidth
    PROVE  Labels + Len(Accepted(field, typed)) + n <= MessageLimit
<1> DEFINE a == Len(Accepted(field, typed))
<1>1. /\ a \in Nat
      /\ a <= (IF field = "description" THEN LongWidth ELSE ShortWidth)
                + Len(Dots)
    BY AcceptedFits
<1> HIDE DEF a
<1>2. a + n <= (LongWidth + Len(Dots)) + 4 * (ShortWidth + Len(Dots))
    BY <1>1, WidthsTyped DEF OtherWidth
<1>3. Labels + a + n <= MessageLimit
    BY <1>1, <1>2, WidthsTyped, TextAssumption
<1> QED
    BY <1>3 DEF a

(* A caption always fits; a message of the list does unless the escaping   *)
(* made what is stored of the fields listed, all together, longer than     *)
(* what was accepted for them.                                             *)
THEOREM ListingFitsAlways == Spec => []ListingFits
<1>1. Staged => ListingFits
    <2> SUFFICES ASSUME Staged, listed # None
                 PROVE  IF listed.photo THEN listed.length <= CaptionLimit
                        ELSE listed.length > MessageLimit
                                => listed.stored > listed.accepted
        BY DEF ListingFits
    <2> DEFINE r == Len(row)
               a == Len(Accepted(field, typed))
    <2>1. PICK photo \in BOOLEAN, o \in Others :
             /\ o.accepted <= OtherWidth
             /\ listed = [photo    |-> photo,
                          length   |-> ListedLength(Labels + r + o.stored, photo),
                          accepted |-> a + o.accepted,
                          stored   |-> r + o.stored]
        BY DEF Staged
    <2>2. r \in Nat /\ a \in Nat
        BY MeantFits, TextsTyped, AcceptedFits, LenProperties DEF Staged
    <2>3. o.accepted \in Nat /\ o.stored \in Nat
        BY TextAssumption
    <2>4. Labels + a + o.accepted <= MessageLimit
        BY <2>1, <2>3, AcceptedFieldsFit DEF Staged
    <2> HIDE DEF r, a
    <2>5. CASE photo
        <3>1. /\ listed.photo
              /\ listed.length = ListedLength(Labels + r + o.stored, TRUE)
            BY <2>1, <2>5
        <3>2. ListedLength(Labels + r + o.stored, TRUE) <= CaptionLimit
            BY <2>2, <2>3, WidthsTyped, TextAssumption DEF ListedLength
        <3> QED
            BY <3>1, <3>2
    <2>6. CASE ~ photo
        <3>1. /\ ~ listed.photo
              /\ listed.length = Labels + r + o.stored
              /\ listed.stored = r + o.stored
              /\ listed.accepted = a + o.accepted
            BY <2>1, <2>6 DEF ListedLength
        <3>2. Labels + r + o.stored > MessageLimit => r + o.stored > a + o.accepted
            BY <2>2, <2>3, <2>4, WidthsTyped
        <3> QED
            BY <3>1, <3>2
    <2> QED
        BY <2>5, <2>6
<1> QED
    BY <1>1, StagedAlways, PTL
=============================================================================
