------------------------------ MODULE SiteProofs ------------------------------
(***************************************************************************)
(* Proofs about Site for every domain, set of hosts, set of URIs and every *)
(* configuration: percent-decoding does what it should for every path, a   *)
(* file is found under its names, and the answer comes from the site that  *)
(* was asked for.  What a loop computes is proved by descent: a set of     *)
(* positions that holds the end, and with a position the one before it,    *)
(* holds the beginning.                                                    *)
(***************************************************************************)
EXTENDS Site, TLAPS, SequenceTheorems, NaturalsInduction, WellFoundedInduction

------------------------------------------------------------------------------
\* Positions.

\* A set of numbers that is not empty has a least one.
LEMMA LeastNat ==
  ASSUME NEW S \in SUBSET Nat, S # {}
  PROVE  \E m \in S : \A k \in S : m <= k
<1>1. PICK x \in S : \A y \in S : ~(<<y, x>> \in OpToRel(<, Nat))
  BY NatLessThanWellFounded, WFMin
<1>2. ASSUME NEW y \in S, y < x
      PROVE  <<y, x>> \in OpToRel(<, Nat)
  BY <1>2 DEF OpToRel
<1>3. \A y \in S : x <= y
  <2> TAKE y \in S
  <2>1. ~(y < x)
    BY <1>1, <1>2
  <2> QED
    BY <2>1
<1> QED
  BY <1>3

\* Descent from the end to the beginning.
LEMMA Descent ==
  ASSUME NEW n \in Nat, NEW K \in SUBSET (1 .. n), n \in K,
         \A k \in K : k > 1 => k - 1 \in K
  PROVE  1 \in K
<1> K \in SUBSET Nat /\ K # {}
  OBVIOUS
<1>1. PICK m \in K : \A k \in K : m <= k
  BY LeastNat
<1>2. ~(m > 1)
  BY <1>1
<1> QED
  BY <1>2

\* A loop that appends a piece at each position and goes on further behind has a value
\* at every position.
LEMMA LoopDefined ==
  ASSUME NEW n \in Nat, NEW piece \in [1 .. n -> Seq(Token)],
         NEW next \in [1 .. n -> 1 .. n + 1], \A i \in 1 .. n : next[i] > i
  PROVE  \E f \in [1 .. n + 1 -> Seq(Token)] :
           /\ f[n + 1] = <<>>
           /\ \A i \in 1 .. n : f[i] = piece[i] \o f[next[i]]
<1> DEFINE F == [1 .. n + 1 -> Seq(Token)]
           Good(f, k) == f[n + 1] = <<>> /\ \A i \in k .. n : f[i] = piece[i] \o f[next[i]]
           K == {k \in 1 .. n + 1 : \E f \in F : Good(f, k)}
<1>1. n + 1 \in K
  <2> DEFINE z == [i \in 1 .. n + 1 |-> <<>>]
  <2>1. z \in F /\ z[n + 1] = <<>>
    OBVIOUS
  <2>2. n + 1 \in 1 .. n + 1 /\ \A i \in n + 1 .. n : FALSE
    OBVIOUS
  <2> HIDE DEF z, F
  <2> QED
    BY <2>1, <2>2
<1>2. ASSUME NEW k \in K, k > 1
      PROVE  k - 1 \in K
  <2>1. PICK f \in F : Good(f, k)
    OBVIOUS
  <2>2. k - 1 \in 1 .. n /\ \A i \in k - 1 .. n : next[i] \in k .. n + 1
    BY <1>2
  <2> DEFINE new == piece[k - 1] \o f[next[k - 1]]
             g == [f EXCEPT ![k - 1] = new]
  <2>3. new \in Seq(Token)
    <3>1. piece[k - 1] \in Seq(Token) /\ f[next[k - 1]] \in Seq(Token)
      BY <2>2
    <3> QED
      BY <3>1, ConcatProperties
  <2> HIDE DEF new
  <2>4. g \in F /\ g[k - 1] = new /\ \A i \in k .. n + 1 : g[i] = f[i]
    BY <2>2, <2>3
  <2> HIDE DEF g
  <2>5. ASSUME NEW i \in k - 1 .. n
        PROVE  g[i] = piece[i] \o g[next[i]]
    <3>1. g[next[i]] = f[next[i]]
      BY <2>2, <2>4
    <3>2. CASE i = k - 1
      BY <3>1, <3>2, <2>4 DEF new
    <3>3. CASE i # k - 1
      <4>1. i \in k .. n /\ i \in k .. n + 1
        BY <3>3
      <4> QED
        BY <4>1, <3>1, <2>1, <2>4
    <3> QED
      BY <3>2, <3>3
  <2>6. g[n + 1] = <<>>
    BY <2>1, <2>2, <2>4
  <2>7. Good(g, k - 1)
    BY <2>5, <2>6
  <2>8. k - 1 \in 1 .. n + 1
    BY <2>2
  <2> HIDE DEF F, Good
  <2> QED
    BY <2>4, <2>7, <2>8
<1>3. 1 \in K
  <2> HIDE DEF K
  <2>1. K \in SUBSET (1 .. n + 1)
    BY DEF K
  <2>2. n + 1 \in Nat /\ \A k \in K : k > 1 => k - 1 \in K
    BY <1>2
  <2> QED
    BY <1>1, <2>1, <2>2, Descent
<1> QED
  BY <1>3

------------------------------------------------------------------------------
\* Percent-decoding.

\* A decoded character is a token.
LEMMA ChrType ==
  ASSUME NEW hi, NEW lo
  PROVE  Chr(hi, lo) \in Token
<1>1. /\ "." \in Token /\ "/" \in Token /\ "a" \in Token /\ "f" \in Token
      /\ "other" \in Token
  BY TokenType
<1> QED
  BY <1>1 DEF Chr

\* A token alone.
LEMMA OneToken ==
  ASSUME NEW c \in Token
  PROVE  /\ <<c>> \in Seq(Token) /\ Len(<<c>>) = 1 /\ <<c>>[1] = c
OBVIOUS

\* What stands for one position of a path is a sequence of tokens.
LEMMA AtType ==
  ASSUME NEW s \in Seq(Token), NEW i \in 1 .. Len(s)
  PROVE  At(s, i) \in Seq(Token)
<1>1. s[i] \in Token
  OBVIOUS
<1> DEFINE c == Chr(ChrToHex(s[i + 1]), ChrToHex(s[i + 2]))
<1>2. c \in Token
  BY ChrType
<1> HIDE DEF c
<1>3. <<c>> \in Seq(Token) /\ <<s[i]>> \in Seq(Token) /\ <<>> \in Seq(Token)
  BY <1>1, <1>2, OneToken
<1> QED
  BY <1>3 DEF At, c

\* The loop of _raw_path_build as an equation.
LEMMA DecodedLoop ==
  ASSUME NEW s \in Seq(Token)
  PROVE  \E g : /\ Decoded(s) = g[1]
                /\ g = [i \in 1 .. Len(s) + 1 |->
                         IF i > Len(s) THEN <<>>
                         ELSE IF s[i] # "%" THEN <<s[i]>> \o g[i + 1]
                         ELSE IF i + 2 > Len(s) THEN SubSeq(s, i, Len(s))
                         ELSE IF ChrToHex(s[i + 1]) < 0 \/ ChrToHex(s[i + 2]) < 0
                              THEN <<s[i]>> \o g[i + 1]
                         ELSE <<Chr(ChrToHex(s[i + 1]), ChrToHex(s[i + 2]))>> \o g[i + 3]]
<1> DEFINE n == Len(s)
           Cut(i) == s[i] = "%" /\ i + 2 > n
           Copy(i) == s[i] # "%" \/ ChrToHex(s[i + 1]) < 0 \/ ChrToHex(s[i + 2]) < 0
           Char(i) == <<Chr(ChrToHex(s[i + 1]), ChrToHex(s[i + 2]))>>
           piece == [i \in 1 .. n |-> IF Cut(i) THEN SubSeq(s, i, n)
                                      ELSE IF Copy(i) THEN <<s[i]>> ELSE Char(i)]
           next == [i \in 1 .. n |-> IF Cut(i) THEN n + 1
                                     ELSE IF Copy(i) THEN i + 1 ELSE i + 3]
           Body(g, i) == IF i > n THEN <<>>
                         ELSE IF s[i] # "%" THEN <<s[i]>> \o g[i + 1]
                         ELSE IF i + 2 > n THEN SubSeq(s, i, n)
                         ELSE IF ChrToHex(s[i + 1]) < 0 \/ ChrToHex(s[i + 2]) < 0
                              THEN <<s[i]>> \o g[i + 1]
                         ELSE Char(i) \o g[i + 3]
<1>1. n \in Nat
  OBVIOUS
<1>2. \A i \in 1 .. n : Copy(i) \/ Cut(i) \/ i + 3 <= n + 1
  <2> HIDE DEF n
  <2> QED
    BY <1>1
<1>3. next \in [1 .. n -> 1 .. n + 1] /\ \A i \in 1 .. n : next[i] > i
  <2> HIDE DEF n, Cut, Copy
  <2> QED
    BY <1>1, <1>2
<1>4. piece \in [1 .. n -> Seq(Token)]
  <2> SUFFICES ASSUME NEW i \in 1 .. n PROVE piece[i] \in Seq(Token)
    OBVIOUS
  <2>1. SubSeq(s, i, n) \in Seq(Token)
    BY SubSeqProperties
  <2>2. s[i] \in Token /\ Chr(ChrToHex(s[i + 1]), ChrToHex(s[i + 2])) \in Token
    BY ChrType
  <2>3. <<s[i]>> \in Seq(Token) /\ Char(i) \in Seq(Token)
    BY <2>2
  <2> HIDE DEF Cut, Copy, Char
  <2> QED
    BY <2>1, <2>3
<1>5. PICK f \in [1 .. n + 1 -> Seq(Token)] :
            f[n + 1] = <<>> /\ \A i \in 1 .. n : f[i] = piece[i] \o f[next[i]]
  <2> HIDE DEF n, next, piece
  <2> QED
    BY <1>1, <1>3, <1>4, LoopDefined
<1>6. ASSUME NEW i \in 1 .. n + 1
      PROVE  f[i] = Body(f, i)
  <2>1. CASE i = n + 1
    <3> HIDE DEF n
    <3> QED
      BY <2>1, <1>1, <1>5
  <2>2. CASE i # n + 1
    <3>1. i \in 1 .. n /\ i <= n /\ ~(i > n)
      BY <2>2, <1>1
    <3>2. f[i] = piece[i] \o f[next[i]]
      <4> HIDE DEF n, next, piece
      <4> QED
        BY <3>1, <1>5
    <3>3. CASE Cut(i)
      <4>1. f[i] = SubSeq(s, i, n) \o <<>>
        <5> HIDE DEF n, Cut, Copy
        <5> QED
          BY <3>1, <3>2, <3>3, <1>5
      <4>2. SubSeq(s, i, n) \in Seq(Token)
        BY <3>1, SubSeqProperties
      <4>3. f[i] = SubSeq(s, i, n)
        BY <4>1, <4>2, ConcatEmptySeq
      <4> HIDE DEF n
      <4> QED
        BY <4>3, <3>1, <3>3
    <3>4. CASE ~Cut(i) /\ Copy(i)
      <4>1. f[i] = <<s[i]>> \o f[i + 1]
        <5> HIDE DEF n, Cut, Copy
        <5> QED
          BY <3>1, <3>2, <3>4
      <4> HIDE DEF n
      <4> QED
        BY <4>1, <3>1, <3>4
    <3>5. CASE ~Cut(i) /\ ~Copy(i)
      <4>1. f[i] = Char(i) \o f[i + 3]
        <5> HIDE DEF n, Cut, Copy, Char
        <5> QED
          BY <3>1, <3>2, <3>5
      <4> HIDE DEF n, Char
      <4> QED
        BY <4>1, <3>1, <3>5
    <3> QED
      BY <3>3, <3>4, <3>5
  <2> QED
    BY <2>1, <2>2
<1>7. f = [i \in 1 .. n + 1 |-> Body(f, i)]
  <2> HIDE DEF n, Body
  <2> QED
    BY <1>5, <1>6
<1> QED
  BY <1>7 DEF Decoded

\* The reference as an equation.
LEMMA RefLoop ==
  ASSUME NEW s \in Seq(Token)
  PROVE  \E g : /\ DecodedRef(s) = g[1]
                /\ g = [i \in 1 .. Len(s) + 1 |->
                         IF i > Len(s) THEN <<>> ELSE At(s, i) \o g[i + 1]]
<1> DEFINE n == Len(s)
           piece == [i \in 1 .. n |-> At(s, i)]
           next == [i \in 1 .. n |-> i + 1]
<1>1. n \in Nat
  OBVIOUS
<1>2. next \in [1 .. n -> 1 .. n + 1] /\ \A i \in 1 .. n : next[i] > i
  <2> HIDE DEF n
  <2> QED
    BY <1>1
<1>3. piece \in [1 .. n -> Seq(Token)]
  BY AtType
<1>4. PICK f \in [1 .. n + 1 -> Seq(Token)] :
            f[n + 1] = <<>> /\ \A i \in 1 .. n : f[i] = piece[i] \o f[next[i]]
  <2> HIDE DEF n, next, piece
  <2> QED
    BY <1>1, <1>2, <1>3, LoopDefined
<1>5. f = [i \in 1 .. n + 1 |-> IF i > n THEN <<>> ELSE At(s, i) \o f[i + 1]]
  <2> HIDE DEF n
  <2>1. \A i \in 1 .. n : piece[i] = At(s, i) /\ next[i] = i + 1
    BY <1>1
  <2> HIDE DEF piece, next
  <2>2. \A i \in 1 .. n : f[i] = At(s, i) \o f[i + 1]
    BY <1>4, <2>1
  <2>3. ASSUME NEW i \in 1 .. n + 1
        PROVE  f[i] = IF i > n THEN <<>> ELSE At(s, i) \o f[i + 1]
    <3>1. CASE i = n + 1
      BY <3>1, <1>1, <1>4
    <3>2. CASE i # n + 1
      <4>1. i \in 1 .. n /\ ~(i > n)
        BY <3>2, <1>1
      <4> QED
        BY <4>1, <2>2
    <3> QED
      BY <3>1, <3>2
  <2> QED
    BY <1>4, <2>3
<1> QED
  BY <1>5 DEF DecodedRef

\* Escapes do not overlap: a '%' is no hexadecimal digit.
LEMMA EscapesApart ==
  ASSUME NEW s, NEW i \in Int, Escape(s, i)
  PROVE  ~Escape(s, i + 1) /\ ~Escape(s, i + 2)
<1>1. ChrToHex("%") = -1
  BY DEF ChrToHex
<1>2. s[i + 1] # "%" /\ s[i + 2] # "%"
  BY <1>1 DEF Escape
<1> QED
  BY <1>2 DEF Escape

\* The last one or two tokens of a path.
LEMMA LastTokens ==
  ASSUME NEW s \in Seq(Token), NEW i \in 1 .. Len(s), i + 2 > Len(s)
  PROVE  SubSeq(s, i, Len(s)) = <<s[i]>> \o (IF i = Len(s) THEN <<>> ELSE <<s[i + 1]>> \o <<>>)
<1> DEFINE n == Len(s)
           t == SubSeq(s, i, n)
<1>1. n \in Nat /\ s[i] \in Token /\ i \in 1 .. n /\ i + 2 > n
  OBVIOUS
<1>2. t \in Seq(Token) /\ Len(t) = n - i + 1 /\ \A j \in 1 .. n - i + 1 : t[j] = s[i + j - 1]
  BY <1>1, SubSeqProperties
<1>3. CASE i = n
  <2>1. Len(t) = 1 /\ t[1] = s[i]
    <3> HIDE DEF t, n
    <3> QED
      BY <1>1, <1>2, <1>3
  <2>2. <<s[i]>> \o <<>> = <<s[i]>>
    BY <1>1, OneToken, ConcatEmptySeq
  <2>3. t = <<s[i]>>
    <3> HIDE DEF t, n
    <3> QED
      BY <1>1, <1>2, <2>1
  <2> QED
    BY <1>3, <2>2, <2>3
<1>4. CASE i # n
  <2>1. i + 1 \in 1 .. n /\ i + 1 = n
    <3> HIDE DEF n, t
    <3> QED
      BY <1>1, <1>4
  <2>2. Len(t) = 2 /\ t[1] = s[i] /\ t[2] = s[i + 1] /\ s[i + 1] \in Token
    <3>1. s[i + 1] \in Token
      BY <2>1
    <3> HIDE DEF t, n
    <3> QED
      BY <1>1, <1>2, <2>1, <3>1
  <2>3. <<s[i + 1]>> \o <<>> = <<s[i + 1]>>
    BY <2>2, OneToken, ConcatEmptySeq
  <2>4. ASSUME NEW a \in Token, NEW b \in Token
        PROVE  <<a>> \o <<b>> = <<a, b>>
    <3>1. /\ <<a>> \in Seq(Token) /\ <<b>> \in Seq(Token) /\ Len(<<a>>) = 1
          /\ Len(<<b>>) = 1
      BY OneToken
    <3> DEFINE c == <<a>> \o <<b>>
    <3>2. c \in Seq(Token) /\ Len(c) = 2 /\ c[1] = <<a>>[1] /\ c[2] = <<b>>[1]
      BY <3>1, ConcatProperties
    <3> HIDE DEF c
    <3>3. c = <<a, b>>
      BY <3>2
    <3> QED
      BY <3>3 DEF c
  <2>5. t = <<s[i], s[i + 1]>>
    <3> HIDE DEF t, n
    <3> QED
      BY <1>1, <1>2, <2>2
  <2> QED
    BY <1>1, <1>4, <2>2, <2>3, <2>4, <2>5
<1> QED
  BY <1>3, <1>4

\* _raw_path_build decodes every path as it should.
LEMMA DecodedIsRef ==
  ASSUME NEW s \in Seq(Token)
  PROVE  Decoded(s) = DecodedRef(s) /\ Decoded(s) \in Seq(Token)
<1> DEFINE n == Len(s)
           Char(i) == <<Chr(ChrToHex(s[i + 1]), ChrToHex(s[i + 2]))>>
<1>1. PICK g : /\ Decoded(s) = g[1]
               /\ g = [i \in 1 .. n + 1 |->
                        IF i > n THEN <<>>
                        ELSE IF s[i] # "%" THEN <<s[i]>> \o g[i + 1]
                        ELSE IF i + 2 > n THEN SubSeq(s, i, n)
                        ELSE IF ChrToHex(s[i + 1]) < 0 \/ ChrToHex(s[i + 2]) < 0
                             THEN <<s[i]>> \o g[i + 1]
                        ELSE Char(i) \o g[i + 3]]
  BY DecodedLoop
<1>2. PICK r : /\ DecodedRef(s) = r[1]
               /\ r = [i \in 1 .. n + 1 |-> IF i > n THEN <<>> ELSE At(s, i) \o r[i + 1]]
  BY RefLoop
<1>3. n \in Nat
  OBVIOUS
<1>4. /\ g[n + 1] = <<>> /\ r[n + 1] = <<>>
      /\ \A i \in 1 .. n : r[i] = At(s, i) \o r[i + 1]
  <2>1. n + 1 \in 1 .. n + 1 /\ n + 1 > n /\ \A i \in 1 .. n : i \in 1 .. n + 1 /\ ~(i > n)
    BY <1>3
  <2> HIDE DEF n, Char
  <2>2. g[n + 1] = <<>>
    BY <1>1, <2>1
  <2> QED
    BY <1>2, <2>1, <2>2
<1>5. ASSUME NEW i \in 1 .. n
      PROVE  g[i] = IF s[i] # "%" THEN <<s[i]>> \o g[i + 1]
                    ELSE IF i + 2 > n THEN SubSeq(s, i, n)
                    ELSE IF Escape(s, i) THEN Char(i) \o g[i + 3] ELSE <<s[i]>> \o g[i + 1]
  <2>1. \A c : ChrToHex(c) \in Int
    BY DEF ChrToHex
  <2>2. i \in 1 .. n + 1 /\ ~(i > n)
    BY <1>3
  <2>3. s[i] = "%" /\ ~(i + 2 > n) =>
          (Escape(s, i) <=> ~(ChrToHex(s[i + 1]) < 0 \/ ChrToHex(s[i + 2]) < 0))
    BY <2>1, <1>3 DEF Escape
  <2> HIDE DEF n, Char
  <2> QED
    BY <1>1, <2>2, <2>3
<1> DEFINE Same(i) == r[i] \in Seq(Token) /\ (~Inside(s, i) => g[i] = r[i])
           K == {k \in 1 .. n + 1 : \A i \in k .. n + 1 : Same(i)}
<1>6. n + 1 \in K
  <2> HIDE DEF n
  <2>1. \A i \in n + 1 .. n + 1 : i = n + 1
    BY <1>3
  <2>2. Same(n + 1)
    <3>1. <<>> \in Seq(Token)
      OBVIOUS
    <3> QED
      BY <1>4, <3>1
  <2> HIDE DEF Same
  <2> QED
    BY <1>3, <2>1, <2>2
<1>7. ASSUME NEW k \in K, k > 1
      PROVE  k - 1 \in K
  <2> DEFINE j == k - 1
  <2>1. j \in 1 .. n /\ k = j + 1 /\ \A i \in j + 1 .. n + 1 : Same(i)
    <3> HIDE DEF Same, n
    <3> QED
      BY <1>3, <1>7
  <2> HIDE DEF j, n
  <2>2. r[j] \in Seq(Token)
    <3>1. At(s, j) \in Seq(Token)
      BY <2>1, AtType DEF n
    <3>2. r[j + 1] \in Seq(Token)
      BY <1>3, <2>1
    <3>3. r[j] = At(s, j) \o r[j + 1]
      BY <1>4, <2>1
    <3> QED
      BY <3>1, <3>2, <3>3, ConcatProperties
  <2>3. ASSUME ~Inside(s, j)
        PROVE  g[j] = r[j]
    <3>1. CASE ~Escape(s, j)
      <4>1. ~Inside(s, j + 1)
        <5>1. (j + 1) - 1 = j /\ (j + 1) - 2 = j - 1
          BY <2>1
        <5> QED
          BY <3>1, <2>3, <5>1 DEF Inside
      <4>2. At(s, j) = <<s[j]>> /\ g[j + 1] = r[j + 1] /\ r[j] = <<s[j]>> \o r[j + 1]
        <5>1. At(s, j) = <<s[j]>>
          BY <3>1, <2>3 DEF At
        <5>2. r[j] = At(s, j) \o r[j + 1]
          BY <1>4, <2>1
        <5>3. j + 1 \in j + 1 .. n + 1
          BY <1>3, <2>1
        <5> QED
          BY <4>1, <5>1, <5>2, <5>3, <2>1
      <4>3. CASE s[j] = "%" /\ j + 2 > n
        <5>1. CASE j = n
          <6>1. SubSeq(s, j, n) = <<s[j]>> \o <<>>
            BY <5>1, <2>1, <4>3, LastTokens DEF n
          <6> QED
            BY <6>1, <5>1, <4>2, <4>3, <1>4, <1>5, <2>1
        <5>2. CASE j # n
          <6>1. j + 1 = n /\ j + 1 \in 1 .. n
            BY <5>2, <4>3, <2>1, <1>3
          <6>2. ~Escape(s, j + 1)
            BY <6>1 DEF Escape, n
          <6>3. r[j + 1] = <<s[j + 1]>> \o <<>>
            BY <6>1, <6>2, <4>1, <1>4 DEF At
          <6>4. SubSeq(s, j, n) = <<s[j]>> \o (<<s[j + 1]>> \o <<>>)
            BY <5>2, <2>1, <4>3, LastTokens DEF n
          <6> QED
            BY <6>3, <6>4, <4>2, <4>3, <1>5, <2>1
        <5> QED
          BY <5>1, <5>2
      <4>4. CASE ~(s[j] = "%" /\ j + 2 > n)
        BY <4>2, <4>4, <3>1, <1>5, <2>1
      <4> QED
        BY <4>3, <4>4
    <3>2. CASE Escape(s, j)
      <4>1. s[j] = "%" /\ j + 2 <= n /\ ~(j + 2 > n)
        BY <3>2, <2>1, <1>3 DEF Escape, n
      <4>2. j + 1 \in 1 .. n /\ j + 2 \in 1 .. n /\ j + 3 \in j + 1 .. n + 1
        BY <4>1, <2>1, <1>3
      <4>3. ~Escape(s, j + 1) /\ ~Escape(s, j + 2)
        BY <3>2, <2>1, EscapesApart
      <4>4. /\ (j + 1) - 1 = j /\ (j + 2) - 2 = j /\ (j + 2) + 1 = j + 3
            /\ (j + 1) + 1 = j + 2
            /\ (j + 3) - 1 = j + 2 /\ (j + 3) - 2 = j + 1
        BY <2>1
      <4>5. Inside(s, j + 1) /\ Inside(s, j + 2) /\ ~Inside(s, j + 3)
        BY <3>2, <4>3, <4>4 DEF Inside
      <4>6. At(s, j + 1) = <<>> /\ At(s, j + 2) = <<>> /\ At(s, j) = Char(j)
        BY <3>2, <4>3, <4>5 DEF At
      <4>7. r[j + 3] \in Seq(Token) /\ g[j + 3] = r[j + 3]
        BY <2>1, <4>2, <4>5
      <4>8. <<>> \o r[j + 3] = r[j + 3]
        BY <4>7, ConcatEmptySeq
      <4>9. r[j + 1] = r[j + 3]
        <5>1. /\ r[j + 2] = At(s, j + 2) \o r[(j + 2) + 1]
              /\ r[j + 1] = At(s, j + 1) \o r[(j + 1) + 1]
          BY <4>2, <1>4
        <5>2. r[j + 2] = <<>> \o r[j + 3] /\ r[j + 1] = <<>> \o r[j + 2]
          BY <5>1, <4>4, <4>6
        <5> QED
          BY <5>2, <4>8
      <4> HIDE DEF Char
      <4>10. r[j] = Char(j) \o r[j + 3]
        BY <4>6, <4>9, <1>4, <2>1
      <4>11. g[j] = Char(j) \o g[j + 3]
        BY <4>1, <3>2, <1>5, <2>1
      <4> QED
        BY <4>7, <4>10, <4>11
    <3> QED
      BY <3>1, <3>2
  <2>4. Same(j)
    BY <2>2, <2>3
  <2>5. j \in 1 .. n + 1 /\ \A i \in j .. n + 1 : i = j \/ i \in j + 1 .. n + 1
    BY <1>3, <2>1
  <2>6. j \in K
    <3> HIDE DEF Same
    <3> QED
      BY <2>1, <2>4, <2>5
  <2> QED
    BY <2>6 DEF j
<1>8. 1 \in K
  <2> HIDE DEF K, n
  <2>1. K \in SUBSET (1 .. n + 1)
    BY DEF K
  <2>2. n + 1 \in Nat /\ \A k \in K : k > 1 => k - 1 \in K
    BY <1>3, <1>7
  <2> QED
    BY <1>6, <2>1, <2>2, Descent
<1>9. Same(1)
  <2> HIDE DEF Same, n
  <2> QED
    BY <1>3, <1>8
<1>10. ~Inside(s, 1)
  BY DEF Inside, Escape
<1> QED
  BY <1>1, <1>2, <1>9, <1>10

------------------------------------------------------------------------------
\* Paths and their parts.

\* The last member of a set of positions.
LEMMA LastPosition ==
  ASSUME NEW n \in Nat, NEW S \in SUBSET (1 .. n), S # {}
  PROVE  Max(S) \in S /\ \A i \in S : i <= Max(S)
<1> DEFINE U == {k \in Nat : \A i \in S : i <= k}
<1>1. U \in SUBSET Nat /\ n \in U
  OBVIOUS
<1>2. PICK m \in U : \A k \in U : m <= k
  <2> HIDE DEF U
  <2> QED
    BY <1>1, LeastNat
<1>3. m \in S
  <2>1. PICK x \in S : TRUE
    OBVIOUS
  <2>2. m \in Nat /\ \A i \in S : i <= m /\ i \in Nat
    BY <1>2
  <2>3. SUFFICES ASSUME m \notin S PROVE FALSE
    OBVIOUS
  <2>4. \A i \in S : i <= m - 1
    BY <2>2, <2>3
  <2>5. x \in 1 .. n /\ x <= m - 1
    BY <2>4
  <2>6. m - 1 \in U
    BY <2>2, <2>4, <2>5
  <2> QED
    BY <1>2, <2>2, <2>6
<1>4. \E x \in S : \A y \in S : x >= y
  BY <1>2, <1>3
<1>5. Max(S) \in S /\ \A y \in S : Max(S) >= y
  BY <1>4 DEF Max
<1> QED
  BY <1>5

\* The first member of a set of positions.
LEMMA FirstPosition ==
  ASSUME NEW n \in Nat, NEW S \in SUBSET (1 .. n), S # {}
  PROVE  Min(S) \in S /\ \A i \in S : Min(S) <= i
<1>1. S \in SUBSET Nat
  OBVIOUS
<1>2. \E x \in S : \A y \in S : x =< y
  BY <1>1, LeastNat
<1> QED
  BY <1>2 DEF Min

\* The beginning of a sequence of tokens.
LEMMA FrontPart ==
  ASSUME NEW s \in Seq(Token), NEW m \in 0 .. Len(s)
  PROVE  /\ SubSeq(s, 1, m) \in Seq(Token) /\ Len(SubSeq(s, 1, m)) = m
         /\ \A i \in 1 .. m : SubSeq(s, 1, m)[i] = s[i]
<1>1. Len(s) \in Nat /\ m \in Int /\ \A i \in 1 .. m : s[i] \in Token
  OBVIOUS
<1>2. /\ SubSeq(s, 1, m) \in Seq(Token)
      /\ Len(SubSeq(s, 1, m)) = IF 1 <= m THEN m - 1 + 1 ELSE 0
      /\ \A i \in 1 .. m - 1 + 1 : SubSeq(s, 1, m)[i] = s[1 + i - 1]
  BY <1>1, SubSeqProperties
<1> QED
  BY <1>1, <1>2

\* _uri_parse: the path begins as the URI does and has no '?'.
LEMMA PathOfUri ==
  ASSUME NEW u \in Seq(Token), u # <<>>, u[1] = "/"
  PROVE  /\ PathOf(u) \in Seq(Token) /\ PathOf(u) # <<>> /\ PathOf(u)[1] = "/"
         /\ Len(PathOf(u)) <= Len(u)
         /\ \A i \in 1 .. Len(PathOf(u)) : PathOf(u)[i] # "?"
<1> DEFINE I == {i \in 1 .. Len(u) : u[i] = "?"}
<1>1. Len(u) \in Nat /\ Len(u) >= 1 /\ I \in SUBSET (1 .. Len(u))
  BY EmptySeq
<1>2. CASE I = {}
  <2>1. PathOf(u) = u
    BY <1>2 DEF PathOf, SelectInSeq
  <2> QED
    BY <1>1, <1>2, <2>1
<1>3. CASE I # {}
  <2> DEFINE q == Min(I)
  <2>1. q \in I /\ \A i \in I : q <= i
    <3> HIDE DEF I
    <3> QED
      BY <1>1, <1>3, FirstPosition
  <2>2. PathOf(u) = SubSeq(u, 1, q - 1)
    <3>1. q # 0
      BY <2>1
    <3> QED
      BY <1>3, <3>1 DEF PathOf, SelectInSeq
  <2> HIDE DEF q
  <2>3. q \in 2 .. Len(u) /\ \A i \in 1 .. q - 1 : i \in 1 .. Len(u) /\ u[i] # "?"
    BY <1>1, <2>1
  <2>4. q - 1 \in 0 .. Len(u) /\ q - 1 >= 1
    BY <2>3, <1>1
  <2>5. /\ PathOf(u) \in Seq(Token) /\ Len(PathOf(u)) = q - 1
        /\ \A i \in 1 .. q - 1 : PathOf(u)[i] = u[i]
    BY <2>2, <2>4, FrontPart
  <2>6. PathOf(u) # <<>>
    BY <2>4, <2>5, EmptySeq
  <2> HIDE DEF I
  <2> QED
    BY <1>1, <2>3, <2>4, <2>5, <2>6
<1> QED
  BY <1>2, <1>3

\* A URI without a query is its own path.
LEMMA PathOfPath ==
  ASSUME NEW u \in Seq(Token), \A i \in 1 .. Len(u) : u[i] # "?"
  PROVE  PathOf(u) = u
<1>1. {i \in 1 .. Len(u) : u[i] = "?"} = {}
  OBVIOUS
<1> QED
  BY <1>1 DEF PathOf, SelectInSeq

\* A path that begins with '/' is its directory, up to the last '/', and a last name.
LEMMA Split ==
  ASSUME NEW p \in Seq(Token), p # <<>>, p[1] = "/"
  PROVE  /\ DirPart(p) \in Seq(Token) /\ LastName(p) \in Seq(Token)
         /\ Len(DirPart(p)) \in 1 .. Len(p)
         /\ DirPart(p)[1] = "/" /\ DirPart(p)[Len(DirPart(p))] = "/"
         /\ \A i \in 1 .. Len(LastName(p)) : LastName(p)[i] # "/"
         /\ p = DirPart(p) \o LastName(p)
<1> DEFINE n == Len(p)
           I == {i \in 1 .. n : p[i] = "/"}
           m == Max(I)
<1>1. n \in Nat /\ n >= 1 /\ I \in SUBSET (1 .. n) /\ 1 \in I
  BY EmptySeq
<1>2. m \in I /\ \A i \in I : i <= m
  <2> HIDE DEF I, n
  <2> QED
    BY <1>1, LastPosition
<1>3. m \in 1 .. n /\ p[m] = "/" /\ \A i \in m + 1 .. n : p[i] # "/"
  <2> HIDE DEF m
  <2> QED
    BY <1>1, <1>2
<1>4. DirPart(p) = SubSeq(p, 1, m)
  BY <1>1 DEF DirPart, SelectLastInSeq
<1> HIDE DEF m, I
<1>5. /\ DirPart(p) \in Seq(Token) /\ Len(DirPart(p)) = m
      /\ \A i \in 1 .. m : DirPart(p)[i] = p[i]
  BY <1>3, <1>4, FrontPart
<1>6. LastName(p) = SubSeq(p, m + 1, n)
  BY <1>5 DEF LastName
<1>7. /\ LastName(p) \in Seq(Token)
      /\ Len(LastName(p)) = IF m + 1 <= n THEN n - (m + 1) + 1 ELSE 0
      /\ \A i \in 1 .. n - (m + 1) + 1 : LastName(p)[i] = p[m + 1 + i - 1]
  <2>1. m + 1 \in Int /\ n \in Int /\ \A i \in m + 1 .. n : p[i] \in Token
    BY <1>3
  <2> HIDE DEF n
  <2> QED
    BY <1>6, <2>1, SubSeqProperties
<1>8. \A i \in 1 .. Len(LastName(p)) : LastName(p)[i] # "/"
  <2> HIDE DEF n
  <2> TAKE i \in 1 .. Len(LastName(p))
  <2>1. i \in 1 .. n - (m + 1) + 1 /\ m + 1 + i - 1 \in m + 1 .. n
    BY <1>1, <1>3, <1>7
  <2> QED
    BY <1>3, <1>7, <2>1
<1>9. p = DirPart(p) \o LastName(p)
  <2>1. 1 \in 1 .. Len(p) + 1 /\ m \in 1 - 1 .. Len(p) /\ n \in m .. Len(p)
    BY <1>1, <1>3
  <2>2. SubSeq(p, 1, m) \o SubSeq(p, m + 1, n) = SubSeq(p, 1, n)
    BY <2>1, ConcatAdjacentSubSeq
  <2>3. SubSeq(p, 1, n) = p
    BY SubSeqFull
  <2> QED
    BY <2>2, <2>3, <1>4, <1>6
<1> QED
  <2> HIDE DEF n
  <2>1. DirPart(p)[1] = "/" /\ DirPart(p)[m] = "/" /\ Len(DirPart(p)) \in 1 .. n
    BY <1>1, <1>3, <1>5
  <2> QED
    BY <1>5, <1>7, <1>8, <1>9, <2>1 DEF n

\* There is only one way to split it.
LEMMA SplitAt ==
  ASSUME NEW d \in Seq(Token), NEW w \in Seq(Token), d # <<>>, d[Len(d)] = "/",
         \A i \in 1 .. Len(w) : w[i] # "/"
  PROVE  DirPart(d \o w) = d /\ LastName(d \o w) = w
<1> DEFINE p == d \o w
           n == Len(p)
           m == Len(d)
           I == {i \in 1 .. n : p[i] = "/"}
<1>1. /\ p \in Seq(Token) /\ m \in Nat /\ m >= 1 /\ Len(w) \in Nat /\ n = m + Len(w)
      /\ \A i \in 1 .. m : p[i] = d[i]
      /\ \A i \in m + 1 .. n : p[i] = w[i - m]
  <2>1. m \in Nat /\ m >= 1 /\ Len(w) \in Nat
    BY EmptySeq
  <2>2. /\ p \in Seq(Token) /\ n = m + Len(w)
        /\ \A i \in 1 .. m + Len(w) : p[i] = IF i <= m THEN d[i] ELSE w[i - m]
    BY ConcatProperties
  <2> HIDE DEF p, m, n
  <2>3. /\ \A i \in 1 .. m : i \in 1 .. m + Len(w) /\ i <= m
        /\ \A i \in m + 1 .. n : i \in 1 .. m + Len(w) /\ ~(i <= m)
    BY <2>1, <2>2
  <2> QED
    BY <2>1, <2>2, <2>3
<1>2. p[m] = "/" /\ \A i \in m + 1 .. n : p[i] # "/"
  <2>1. d[m] = "/"
    OBVIOUS
  <2>2. \A i \in m + 1 .. n : i - m \in 1 .. Len(w)
    <3> HIDE DEF p, m, n
    <3> QED
      BY <1>1
  <2>3. m \in 1 .. m
    BY <1>1
  <2>4. p[m] = d[m] /\ \A i \in m + 1 .. n : p[i] = w[i - m]
    BY <1>1, <2>3
  <2> HIDE DEF p, m, n
  <2> QED
    BY <2>1, <2>2, <2>4
<1>3. I \in SUBSET (1 .. n) /\ m \in I /\ n \in Nat /\ \A i \in I : i <= m
  <2> HIDE DEF p, m, n
  <2> QED
    BY <1>1, <1>2
<1>4. Max(I) = m
  <2>1. Max(I) \in I /\ \A i \in I : i <= Max(I)
    <3> HIDE DEF I, n, m
    <3> QED
      BY <1>3, LastPosition
  <2> HIDE DEF I, n, m
  <2>2. Max(I) \in 1 .. n /\ Max(I) <= m /\ m <= Max(I) /\ m \in 1 .. n
    BY <1>3, <2>1
  <2> QED
    BY <2>2, <1>3
<1>5. DirPart(p) = SubSeq(p, 1, m)
  <2>1. I # {}
    BY <1>3
  <2> HIDE DEF m, p
  <2> QED
    BY <2>1, <1>4 DEF DirPart, SelectLastInSeq
<1>6. SubSeq(p, 1, m) = d
  <2>1. 1 \in 1 .. Len(d) /\ m \in 1 .. Len(d)
    BY <1>1
  <2>2. SubSeq(p, 1, m) = SubSeq(d, 1, m)
    BY <2>1, SubSeqOfConcat1
  <2>3. SubSeq(d, 1, m) = d
    BY SubSeqFull
  <2> QED
    BY <2>2, <2>3
<1>7. LastName(p) = SubSeq(p, m + 1, n)
  BY <1>5, <1>6 DEF LastName
<1>8. SubSeq(p, m + 1, n) = w
  <2> HIDE DEF p, n, m, I
  <2>1. m + 1 \in Int /\ n \in Int /\ \A i \in m + 1 .. n : p[i] \in Token
    BY <1>1 DEF n
  <2>2. /\ SubSeq(p, m + 1, n) \in Seq(Token)
        /\ Len(SubSeq(p, m + 1, n)) = IF m + 1 <= n THEN n - (m + 1) + 1 ELSE 0
        /\ \A i \in 1 .. n - (m + 1) + 1 : SubSeq(p, m + 1, n)[i] = p[m + 1 + i - 1]
    BY <2>1, SubSeqProperties
  <2>3. Len(SubSeq(p, m + 1, n)) = Len(w)
    BY <2>2, <1>1
  <2>4. ASSUME NEW i \in 1 .. Len(w)
        PROVE  SubSeq(p, m + 1, n)[i] = w[i]
    <3>1. /\ i \in 1 .. n - (m + 1) + 1 /\ m + 1 + i - 1 = m + i /\ m + i \in m + 1 .. n
          /\ (m + i) - m = i
      BY <1>1
    <3> QED
      BY <3>1, <2>2, <1>1
  <2> QED
    BY <2>2, <2>3, <2>4, SeqEqual
<1> QED
  BY <1>5, <1>6, <1>7, <1>8

\* The words of the module as sequences.
LEMMA Words ==
  /\ html_ext \in Seq(Token) /\ Len(html_ext) = 2
  /\ html_ext[1] = "." /\ html_ext[2] = "html"
  /\ index_html \in Seq(Token) /\ Len(index_html) = 3
  /\ index_html[1] = "index" /\ index_html[2] = "." /\ index_html[3] = "html"
  /\ <<"index">> \in Seq(Token) /\ Len(<<"index">>) = 1 /\ <<"index">>[1] = "index"
  /\ <<"/">> \in Seq(Token) /\ Len(<<"/">>) = 1 /\ <<"/">>[1] = "/"
<1>1. "index" \in Token /\ "." \in Token /\ "html" \in Token /\ "/" \in Token
  BY TokenType
<1>2. \A a, b \in Token : <<a, b>> \in Seq(Token)
  OBVIOUS
<1>3. \A a, b, c \in Token : <<a, b, c>> \in Seq(Token)
  OBVIOUS
<1>4. html_ext \in Seq(Token) /\ index_html \in Seq(Token)
  BY <1>1, <1>2, <1>3 DEF html_ext, index_html
<1>5. <<"index">> \in Seq(Token) /\ <<"/">> \in Seq(Token)
  BY <1>1, OneToken
<1> QED
  BY <1>4, <1>5 DEF html_ext, index_html

\* A reversed sequence of tokens.
LEMMA Reversed ==
  ASSUME NEW s \in Seq(Token)
  PROVE  /\ Reverse(s) \in Seq(Token) /\ Len(Reverse(s)) = Len(s)
         /\ \A i \in 1 .. Len(s) : Reverse(s)[i] = s[Len(s) - i + 1]
<1> DEFINE n == Len(s)
<1>1. n \in Nat /\ \A i \in 1 .. n : n - i + 1 \in 1 .. n
  OBVIOUS
<1>2. \A i \in 1 .. n : s[n - i + 1] \in Token
  BY <1>1
<1> HIDE DEF n
<1>3. Reverse(s) = [i \in 1 .. n |-> s[n - i + 1]]
  BY DEF Reverse, n
<1>4. Reverse(s) \in Seq(Token) /\ Len(Reverse(s)) = n
  BY <1>1, <1>2, <1>3
<1> QED
  BY <1>3, <1>4 DEF n

\* What it is to end in .html.
LEMMA HtmlSuffix ==
  ASSUME NEW p \in Seq(Token)
  PROVE  IsSuffix(html_ext, p) <=>
           Len(p) >= 2 /\ p[Len(p) - 1] = "." /\ p[Len(p)] = "html"
<1> DEFINE n == Len(p)
           h == Reverse(html_ext)
           r == Reverse(p)
<1>1. /\ h \in Seq(Token) /\ Len(h) = 2 /\ h[1] = "html" /\ h[2] = "."
  <2>1. html_ext \in Seq(Token) /\ Len(html_ext) = 2
    BY Words
  <2>2. h \in Seq(Token) /\ Len(h) = 2 /\ \A i \in 1 .. 2 : h[i] = html_ext[2 - i + 1]
    BY <2>1, Reversed
  <2> HIDE DEF h
  <2>3. h[1] = html_ext[2] /\ h[2] = html_ext[1]
    BY <2>2
  <2> QED
    BY <2>2, <2>3, Words
<1>2. /\ n \in Nat /\ r \in Seq(Token) /\ Len(r) = n
      /\ \A i \in 1 .. n : r[i] = p[n - i + 1]
  BY Reversed
<1>3. IsSuffix(html_ext, p) <=> 2 <= n /\ SubSeq(h, 1, 2) = SubSeq(r, 1, 2)
  BY <1>1, <1>2 DEF IsSuffix, IsPrefix
<1>4. CASE 2 <= n
  <2> HIDE DEF n, h, r
  <2>1. SubSeq(h, 1, 2) = h
    BY <1>1, SubSeqFull
  <2>2. r[1] = p[n] /\ r[2] = p[n - 1]
    <3>1. 1 \in 1 .. n /\ 2 \in 1 .. n /\ n - 1 + 1 = n /\ n - 2 + 1 = n - 1
      BY <1>2, <1>4
    <3> QED
      BY <3>1, <1>2
  <2> DEFINE t == SubSeq(r, 1, 2)
  <2>3. t \in Seq(Token) /\ Len(t) = 2 /\ t[1] = r[1] /\ t[2] = r[2]
    <3>1. 2 \in 0 .. Len(r)
      BY <1>2, <1>4
    <3>2. t \in Seq(Token) /\ Len(t) = 2 /\ \A i \in 1 .. 2 : t[i] = r[i]
      BY <1>2, <3>1, FrontPart
    <3> QED
      BY <3>2
  <2> HIDE DEF t
  <2>4. h = t <=> h[1] = t[1] /\ h[2] = t[2]
    <3>1. ASSUME h[1] = t[1], h[2] = t[2]
          PROVE  h = t
      <4>1. \A i \in 1 .. Len(h) : h[i] = t[i]
        BY <1>1, <3>1
      <4> QED
        BY <1>1, <2>3, <4>1, SeqEqual
    <3> QED
      BY <3>1
  <2> QED
    BY <1>1, <1>3, <1>4, <2>1, <2>2, <2>3, <2>4 DEF n, t
<1>5. CASE ~(2 <= n)
  BY <1>2, <1>3, <1>5
<1> QED
  BY <1>4, <1>5

\* Taking .html off.
LEMMA CutHtml ==
  ASSUME NEW p \in Seq(Token), IsSuffix(html_ext, p)
  PROVE  /\ Len(p) >= 2 /\ SubSeq(p, 1, Len(p) - 2) \in Seq(Token)
         /\ Len(SubSeq(p, 1, Len(p) - 2)) = Len(p) - 2
         /\ \A i \in 1 .. Len(p) - 2 : SubSeq(p, 1, Len(p) - 2)[i] = p[i]
         /\ p = SubSeq(p, 1, Len(p) - 2) \o html_ext
<1> DEFINE n == Len(p)
           q == SubSeq(p, 1, n - 2)
<1>1. n \in Nat /\ n >= 2 /\ p[n - 1] = "." /\ p[n] = "html"
  BY HtmlSuffix
<1>2. n - 2 \in 0 .. Len(p)
  BY <1>1
<1>3. q \in Seq(Token) /\ Len(q) = n - 2 /\ \A i \in 1 .. n - 2 : q[i] = p[i]
  BY <1>2, FrontPart
<1> HIDE DEF q, n
<1> DEFINE c == q \o html_ext
<1>4. /\ c \in Seq(Token) /\ Len(c) = n - 2 + 2
      /\ \A i \in 1 .. n - 2 + 2 : c[i] = IF i <= n - 2 THEN q[i] ELSE html_ext[i - (n - 2)]
  <2>1. html_ext \in Seq(Token) /\ Len(html_ext) = 2
    BY Words
  <2>2. /\ c \in Seq(Token) /\ Len(c) = Len(q) + Len(html_ext)
        /\ \A i \in 1 .. Len(q) + Len(html_ext) :
             c[i] = IF i <= Len(q) THEN q[i] ELSE html_ext[i - Len(q)]
    BY <1>3, <2>1, ConcatProperties
  <2> HIDE DEF c
  <2> QED
    BY <1>3, <2>1, <2>2
<1> HIDE DEF c
<1>5. ASSUME NEW i \in 1 .. n
      PROVE  p[i] = c[i]
  <2>1. CASE i <= n - 2
    <3>1. i \in 1 .. n - 2 /\ i \in 1 .. n - 2 + 2
      BY <1>1, <2>1
    <3> QED
      BY <2>1, <3>1, <1>3, <1>4
  <2>2. CASE i = n - 1
    <3>1. i \in 1 .. n - 2 + 2 /\ ~(i <= n - 2) /\ i - (n - 2) = 1
      BY <1>1, <2>2
    <3> QED
      BY <1>1, <2>2, <3>1, <1>4, Words
  <2>3. CASE i = n
    <3>1. i \in 1 .. n - 2 + 2 /\ ~(i <= n - 2) /\ i - (n - 2) = 2
      BY <1>1, <2>3
    <3> QED
      BY <1>1, <2>3, <3>1, <1>4, Words
  <2> QED
    BY <1>1, <2>1, <2>2, <2>3
<1>6. p = c
  <2>1. Len(p) = Len(c)
    BY <1>1, <1>4 DEF n
  <2> QED
    BY <1>4, <1>5, <2>1, SeqEqual DEF n
<1> QED
  BY <1>1, <1>3, <1>6 DEF q, c, n

\* Putting .html on.
LEMMA AddHtml ==
  ASSUME NEW q \in Seq(Token)
  PROVE  /\ q \o html_ext \in Seq(Token) /\ IsSuffix(html_ext, q \o html_ext)
         /\ Len(q \o html_ext) = Len(q) + 2
         /\ SubSeq(q \o html_ext, 1, Len(q \o html_ext) - 2) = q
<1> DEFINE p == q \o html_ext
           n == Len(q)
<1>1. /\ p \in Seq(Token) /\ n \in Nat /\ Len(p) = n + 2
      /\ \A i \in 1 .. n + 2 : p[i] = IF i <= n THEN q[i] ELSE html_ext[i - n]
  <2>1. html_ext \in Seq(Token) /\ Len(html_ext) = 2
    BY Words
  <2>2. /\ p \in Seq(Token) /\ Len(p) = n + Len(html_ext)
        /\ \A i \in 1 .. n + Len(html_ext) : p[i] = IF i <= n THEN q[i] ELSE html_ext[i - n]
    BY <2>1, ConcatProperties
  <2>3. n \in Nat
    OBVIOUS
  <2> HIDE DEF p, n
  <2> QED
    BY <2>1, <2>2, <2>3
<1>2. p[n + 1] = "." /\ p[n + 2] = "html"
  <2> HIDE DEF p, n
  <2>1. /\ n + 1 \in 1 .. n + 2 /\ ~(n + 1 <= n) /\ (n + 1) - n = 1
        /\ n + 2 \in 1 .. n + 2 /\ ~(n + 2 <= n) /\ (n + 2) - n = 2
    BY <1>1
  <2> QED
    BY <1>1, <2>1, Words
<1> HIDE DEF n
<1>3. IsSuffix(html_ext, p)
  <2> HIDE DEF p
  <2>1. Len(p) >= 2 /\ Len(p) - 1 = n + 1
    BY <1>1
  <2> QED
    BY <1>1, <1>2, <2>1, HtmlSuffix
<1>4. SubSeq(p, 1, Len(p) - 2) = q
  <2> DEFINE t == SubSeq(p, 1, Len(p) - 2)
  <2> HIDE DEF p
  <2>1. Len(p) - 2 \in 0 .. Len(p) /\ Len(p) - 2 = n
    BY <1>1
  <2>2. t \in Seq(Token) /\ Len(t) = n /\ \A i \in 1 .. n : t[i] = p[i]
    BY <1>1, <2>1, FrontPart
  <2> HIDE DEF t
  <2>3. \A i \in 1 .. n : p[i] = q[i]
    <3>1. \A i \in 1 .. n : i \in 1 .. n + 2 /\ i <= n
      BY <1>1
    <3> QED
      BY <1>1, <3>1
  <2>4. t = q
    BY <2>2, <2>3, SeqEqual DEF n
  <2> QED
    BY <2>4 DEF t
<1> QED
  BY <1>1, <1>3, <1>4 DEF n

\* The three outcomes of _uri_path_build.
LEMMA UriPathBuildCodes ==
  ASSUME NEW p
  PROVE  /\ UriPathBuild(p).code \in {0, 1, 301}
         /\ UriPathBuild(p).code = 1 <=> Last(p) = "/"
         /\ UriPathBuild(p).code = 301 <=>
              /\ Last(p) # "/"
              /\ LastName(p) \in {<<"index">>, index_html} \/ IsSuffix(html_ext, p)
         /\ UriPathBuild(p).code = 301 /\ LastName(p) \in {<<"index">>, index_html} =>
              UriPathBuild(p).path = DirPart(p)
         /\ UriPathBuild(p).code = 301 /\ LastName(p) \notin {<<"index">>, index_html} =>
              IsSuffix(html_ext, p) /\ UriPathBuild(p).path = SubSeq(p, 1, Len(p) - 2)
<1>1. CASE Last(p) = "/"
  <2>1. UriPathBuild(p).code = 1
    BY <1>1 DEF UriPathBuild, NoRedirect
  <2> QED
    BY <1>1, <2>1
<1>2. CASE Last(p) # "/" /\ LastName(p) \in {<<"index">>, index_html}
  <2>1. UriPathBuild(p).code = 301 /\ UriPathBuild(p).path = DirPart(p)
    BY <1>2 DEF UriPathBuild, Redirect
  <2> QED
    BY <1>2, <2>1
<1>3. CASE /\ Last(p) # "/" /\ LastName(p) \notin {<<"index">>, index_html}
           /\ IsSuffix(html_ext, p)
  <2>1. UriPathBuild(p).code = 301 /\ UriPathBuild(p).path = SubSeq(p, 1, Len(p) - 2)
    BY <1>3 DEF UriPathBuild, Redirect
  <2> QED
    BY <1>3, <2>1
<1>4. CASE /\ Last(p) # "/" /\ LastName(p) \notin {<<"index">>, index_html}
           /\ ~IsSuffix(html_ext, p)
  <2>1. UriPathBuild(p).code = 0
    BY <1>4 DEF UriPathBuild, NoRedirect
  <2> QED
    BY <1>4, <2>1
<1> QED
  BY <1>1, <1>2, <1>3, <1>4

\* A redirect to a clean URL leads to a shorter path, and that one begins with '/', too.
LEMMA RedirectShorter ==
  ASSUME NEW p \in Seq(Token), p # <<>>, p[1] = "/", UriPathBuild(p).code = 301
  PROVE  LET t == UriPathBuild(p).path
         IN /\ t \in Seq(Token) /\ t # <<>> /\ t[1] = "/" /\ Len(t) < Len(p)
            /\ \A i \in 1 .. Len(t) : t[i] = p[i]
<1>1. CASE LastName(p) \in {<<"index">>, index_html}
  <2> DEFINE d == DirPart(p)
             w == LastName(p)
  <2>1. UriPathBuild(p).path = d
    BY <1>1, UriPathBuildCodes
  <2>2. /\ d \in Seq(Token) /\ w \in Seq(Token) /\ Len(d) \in 1 .. Len(p) /\ d[1] = "/"
        /\ p = d \o w
    BY Split
  <2>3. Len(w) \in Nat /\ Len(w) >= 1
    <3>1. CASE w = <<"index">>
      BY <3>1
    <3>2. CASE w = index_html
      BY <3>2, Words
    <3> QED
      BY <1>1, <3>1, <3>2
  <2> HIDE DEF d, w
  <2>4. /\ Len(p) = Len(d) + Len(w)
        /\ \A i \in 1 .. Len(d) + Len(w) : p[i] = IF i <= Len(d) THEN d[i] ELSE w[i - Len(d)]
    BY <2>2, ConcatProperties
  <2>5. Len(d) \in Nat /\ Len(d) < Len(p) /\ d # <<>>
    BY <2>2, <2>3, <2>4, EmptySeq
  <2>6. \A i \in 1 .. Len(d) : d[i] = p[i]
    BY <2>3, <2>4, <2>5
  <2> QED
    BY <2>1, <2>2, <2>5, <2>6
<1>2. CASE LastName(p) \notin {<<"index">>, index_html}
  <2> DEFINE t == SubSeq(p, 1, Len(p) - 2)
  <2>1. IsSuffix(html_ext, p) /\ UriPathBuild(p).path = t
    BY <1>2, UriPathBuildCodes
  <2>2. /\ Len(p) >= 2 /\ Len(p) \in Nat /\ t \in Seq(Token) /\ Len(t) = Len(p) - 2
        /\ \A i \in 1 .. Len(p) - 2 : t[i] = p[i]
    BY <2>1, CutHtml
  <2>3. Len(p) # 2
    <3>1. p[Len(p) - 1] = "."
      BY <2>1, HtmlSuffix
    <3>2. Len(p) = 2 => Len(p) - 1 = 1
      OBVIOUS
    <3> QED
      BY <3>1, <3>2
  <2> HIDE DEF t
  <2>4. Len(t) >= 1 /\ t[1] = "/" /\ Len(t) < Len(p) /\ t # <<>>
    BY <2>2, <2>3, EmptySeq
  <2> QED
    BY <2>1, <2>2, <2>4
<1> QED
  BY <1>1, <1>2

------------------------------------------------------------------------------
\* Hosts.

\* A host in lower case.
LEMMA LowerHost ==
  ASSUME NEW h \in Seq(Token)
  PROVE  /\ Lower(h) \in Seq(Token) /\ Len(Lower(h)) = Len(h)
         /\ \A i \in 1 .. Len(h) :
              Lower(h)[i] # "Example" /\ (h[i] # "Example" => Lower(h)[i] = h[i])
<1> DEFINE n == Len(h)
<1>1. n \in Nat /\ \A i \in 1 .. n : h[i] \in Token
  OBVIOUS
<1>2. Lower(h) = [i \in 1 .. n |-> IF h[i] = "Example" THEN "example" ELSE h[i]]
  BY DEF Lower
<1> HIDE DEF n
<1>3. \A i \in 1 .. n : (IF h[i] = "Example" THEN "example" ELSE h[i]) \in Token
  BY <1>1, TokenType
<1>4. Lower(h) \in Seq(Token) /\ Len(Lower(h)) = n
  BY <1>1, <1>2, <1>3
<1> QED
  BY <1>2, <1>4 DEF n

\* The address net_host_build makes of a label.
LEMMA BuiltHost ==
  ASSUME NEW sub \in Token
  PROVE  /\ net_host_build(sub) \in Seq(Token)
         /\ Len(net_host_build(sub)) = Len(domain) + 1 /\ net_host_build(sub)[1] = sub
         /\ \A i \in 2 .. Len(domain) + 1 : net_host_build(sub)[i] = domain[i - 1]
<1> DEFINE b == net_host_build(sub)
           n == Len(domain)
<1>1. /\ <<sub>> \in Seq(Token) /\ Len(<<sub>>) = 1 /\ <<sub>>[1] = sub
      /\ domain \in Seq(Token)
  BY OneToken, ConstantsType
<1>2. /\ b \in Seq(Token) /\ Len(b) = Len(<<sub>>) + n
      /\ \A i \in 1 .. Len(<<sub>>) + n :
           b[i] = IF i <= Len(<<sub>>) THEN <<sub>>[i] ELSE domain[i - Len(<<sub>>)]
  BY <1>1, ConcatProperties DEF net_host_build
<1>3. n \in Nat
  BY <1>1
<1> HIDE DEF b, n
<1>4. /\ Len(b) = n + 1
      /\ \A i \in 1 .. n + 1 : b[i] = IF i <= 1 THEN <<sub>>[i] ELSE domain[i - 1]
  BY <1>1, <1>2, <1>3
<1>5. b[1] = sub /\ \A i \in 2 .. n + 1 : b[i] = domain[i - 1]
  BY <1>1, <1>3, <1>4
<1> QED
  BY <1>2, <1>4, <1>5 DEF b, n

\* A label in front of the domain is the site of the address made of it: were the
\* address to begin with the domain, the label would be the first of the domain.
LEMMA BuiltSite ==
  ASSUME DomainApart, NEW sub \in Token, sub # "Example"
  PROVE  Subdomain(Lower(net_host_build(sub))) = sub
<1> DEFINE b == net_host_build(sub)
           l == Lower(b)
           n == Len(domain)
<1>1. /\ b \in Seq(Token) /\ Len(b) = n + 1 /\ b[1] = sub
      /\ \A i \in 2 .. n + 1 : b[i] = domain[i - 1]
  BY BuiltHost
<1>2. n \in Nat /\ n >= 2
  BY ConstantsType
<1>3. /\ l \in Seq(Token) /\ Len(l) = n + 1
      /\ \A i \in 1 .. n + 1 : l[i] # "Example" /\ (b[i] # "Example" => l[i] = b[i])
  <2> HIDE DEF b
  <2> QED
    BY <1>1, LowerHost
<1>4. l[1] = sub
  <2> HIDE DEF b, l, n
  <2> QED
    BY <1>1, <1>2, <1>3
<1>5. ~Begins(l)
  <2> SUFFICES ASSUME Begins(l) PROVE FALSE
    OBVIOUS
  <2>1. /\ \A i \in 1 .. (n - 1) : l[i] = domain[i]
        /\ l[n] = domain[n] \/ <<domain[n], l[n]>> \in LabelPrefixes
    BY DEF Begins
  <2> HIDE DEF b, l, n
  <2>2. \A i \in 1 .. n : l[i] = b[i]
    <3> SUFFICES ASSUME NEW i \in 1 .. n PROVE l[i] = b[i]
      OBVIOUS
    <3>1. CASE i = 1
      BY <3>1, <1>1, <1>4
    <3>2. CASE i # 1
      <4>1. i \in 2 .. n + 1 /\ i \in 1 .. n + 1 /\ i - 1 \in 1 .. (n - 1)
            /\ i - 1 \in 1 .. n + 1
        BY <3>2, <1>2
      <4>2. b[i] # "Example"
        BY <4>1, <1>1, <1>3, <2>1
      <4> QED
        BY <4>1, <4>2, <1>3
    <3> QED
      BY <3>1, <3>2
  <2>3. sub = domain[1]
    BY <1>2, <1>4, <2>1
  <2>4. Begins(b)
    <3>1. /\ Len(b) >= n
          /\ \A i \in 1 .. (n - 1) : b[i] = domain[i]
          /\ b[n] = domain[n] \/ <<domain[n], b[n]>> \in LabelPrefixes
      BY <1>1, <1>2, <2>1, <2>2
    <3> QED
      BY <3>1 DEF Begins, n
  <2> QED
    BY <2>3, <2>4 DEF DomainApart, b
<1> QED
  BY <1>4, <1>5 DEF Subdomain

\* The site a host asks for: www for the domain, its first label otherwise.
AskedSite(h) == IF Begins(Lower(h)) THEN "www" ELSE Lower(h)[1]

\* A host that a client may name has the site it asks for.
LEMMA HostSite ==
  ASSUME NEW h \in Hosts
  PROVE  /\ Subdomain(Lower(h)) = AskedSite(h)
         /\ AskedSite(h) \in Token /\ AskedSite(h) # "Example"
<1>1. h \in Seq(Token) /\ Len(h) >= 2 /\ Len(h) \in Nat
  BY ConstantsType
<1>2. /\ Lower(h) \in Seq(Token) /\ Len(Lower(h)) = Len(h)
      /\ \A i \in 1 .. Len(h) : Lower(h)[i] # "Example"
  BY <1>1, LowerHost
<1>3. Lower(h)[1] \in Token /\ Lower(h)[1] # "Example"
  BY <1>1, <1>2
<1>4. "www" \in Token
  BY TokenType
<1> QED
  BY <1>3, <1>4 DEF Subdomain, AskedSite

------------------------------------------------------------------------------
\* What a request is at every moment.

\* The hosts a request may name, and what else its type rests on: URIs are sequences of
\* tokens, also after a redirect, and the configuration does not change.
HostSet == Hosts \cup {net_host_build(h[1]) : h \in Hosts \cup {<<"www">>}}
IsUri(u) == u \in Seq(Token) /\ u # <<>> /\ u[1] = "/"
TypeInv == TypeOK /\ setup \in Setups /\ IsUri(uri) /\ IsUri(first.uri)

\* Every first label is a token.
LEMMA FirstLabel ==
  ASSUME NEW h \in Hosts \cup {<<"www">>}
  PROVE  h[1] \in Token
<1>1. CASE h \in Hosts
  <2>1. h \in Seq(Token) /\ Len(h) >= 2
    BY <1>1, ConstantsType
  <2> QED
    BY <2>1
<1>2. CASE h = <<"www">>
  BY <1>2, TokenType
<1> QED
  BY <1>1, <1>2

\* The label a host stands for, in lower case or not, is the first label of some host
\* of this server, or www; so is the next host's.
LEMMA SubOfHost ==
  ASSUME NEW h \in HostSet
  PROVE  /\ h \in Seq(Token)
         /\ net_host_build(Subdomain(h)) \in HostSet
         /\ net_host_build(Subdomain(Lower(h))) \in HostSet
<1> DEFINE Labels == {g[1] : g \in Hosts \cup {<<"www">>}}
<1>1. "www" \in Labels
  <2>1. <<"www">>[1] = "www"
    OBVIOUS
  <2> QED
    BY <2>1
<1>2. h \in Seq(Token) /\ h[1] \in Labels /\ Lower(h)[1] \in Labels
  <2>1. CASE h \in Hosts
    <3>1. Lower(h) \in Hosts /\ h \in Seq(Token)
      BY <2>1, HostsLower, ConstantsType
    <3> QED
      BY <2>1, <3>1
  <2>2. ASSUME NEW g \in Hosts \cup {<<"www">>}, h = net_host_build(g[1])
        PROVE  h \in Seq(Token) /\ h[1] \in Labels /\ Lower(h)[1] \in Labels
    <3>1. g[1] \in Token /\ "www" \in Token
      BY FirstLabel, TokenType
    <3>2. h \in Seq(Token) /\ h[1] = g[1] /\ Len(h) = Len(domain) + 1
      BY <2>2, <3>1, BuiltHost
    <3>3. 1 \in 1 .. Len(h)
      BY <3>2, ConstantsType
    <3>4. Lower(h)[1] = IF g[1] = "Example" THEN "example" ELSE g[1]
      BY <3>2, <3>3 DEF Lower
    <3>5. CASE g \in Hosts
      <4>1. Lower(g) \in Hosts /\ g \in Seq(Token) /\ Len(g) >= 2
        BY <3>5, HostsLower, ConstantsType
      <4>2. 1 \in DOMAIN g
        BY <4>1
      <4>3. Lower(g)[1] = Lower(h)[1]
        BY <3>4, <4>2 DEF Lower
      <4>4. Lower(g)[1] \in Labels
        BY <4>1
      <4> HIDE DEF Labels
      <4>5. g[1] \in Labels
        BY DEF Labels
      <4> QED
        BY <3>2, <4>3, <4>4, <4>5
    <3>6. CASE g = <<"www">>
      <4>1. g[1] = "www" /\ Lower(h)[1] = "www"
        BY <3>4, <3>6
      <4> HIDE DEF Labels
      <4> QED
        BY <1>1, <3>2, <4>1
    <3> QED
      BY <3>5, <3>6
  <2> QED
    BY <2>1, <2>2 DEF HostSet
<1>3. \A x \in Labels : net_host_build(x) \in HostSet
  BY DEF HostSet
<1> HIDE DEF Labels
<1> QED
  BY <1>1, <1>2, <1>3 DEF Subdomain

\* Initially the request that stands for none has its type.
LEMMA TypeInit == Init => TypeInv
<1> SUFFICES ASSUME Init PROVE TypeInv
  OBVIOUS
<1>1. IsUri(<<"/">>)
  BY Words DEF IsUri
<1>2. domain \in Hosts
  BY ConstantsType
<1> QED
  BY <1>1, <1>2 DEF Init, NoRequest, NoAnswer, TypeInv, TypeOK, Port, IsUri

\* Every step keeps the types.
LEMMA TypeStep == TypeInv /\ [Next]_vars => TypeInv'
<1> SUFFICES ASSUME TypeInv, [Next]_vars PROVE TypeInv'
  OBVIOUS
<1> USE DEF TypeInv, TypeOK
<1>1. CASE ConfRead
  BY <1>1 DEF ConfRead
<1>2. CASE Ask
  <2>1. \A u \in Uris : IsUri(u)
    <3>1. \A u \in Uris : u \in Seq(Token) /\ u # <<>> /\ Head(u) = "/"
      BY ConstantsType
    <3> QED
      BY <3>1 DEF IsUri
  <2>2. \A u : IsUri(u) => u # <<>> /\ u[1] = "/"
    BY DEF IsUri
  <2>3. /\ port' \in Port /\ host' \in Hosts /\ IsUri(uri') /\ pc' = "asked"
        /\ first'.port = port' /\ first'.host = host' /\ first'.uri = uri'
        /\ setup' = setup /\ answer' = answer
    BY <1>2, <2>1 DEF Ask
  <2> QED
    BY <2>2, <2>3
<1>3. CASE Redir80
  <2>1. host \in HostSet
    BY DEF HostSet
  <2>2. host' \in HostSet /\ port' = "https" /\ uri' = uri
    BY <1>3, <2>1, SubOfHost DEF Redir80, Follow
  <2>3. UNCHANGED <<setup, pc, first, answer>>
    BY <1>3 DEF Redir80, Follow
  <2> QED
    BY <2>2, <2>3 DEF HostSet, Port
<1>4. CASE PathRedir
  <2> DEFINE p == PathOf(uri)
             t == UriPathBuild(p).path
  <2>1. host \in HostSet
    BY DEF HostSet
  <2>2. /\ host' \in HostSet /\ port' = "https" /\ uri' = t
        /\ UriPathBuild(p).code = 301
        /\ UNCHANGED <<setup, pc, first, answer>>
    BY <1>4, <2>1, SubOfHost DEF PathRedir, Follow
  <2>3. p \in Seq(Token) /\ p # <<>> /\ p[1] = "/"
    BY PathOfUri DEF IsUri
  <2>4. t \in Seq(Token) /\ t # <<>> /\ t[1] = "/"
    <3> HIDE DEF p
    <3> QED
      BY <2>2, <2>3, RedirectShorter
  <2> HIDE DEF p, t
  <2> QED
    BY <2>2, <2>4 DEF HostSet, Port, IsUri
<1>5. CASE Answer
  <2>1. UNCHANGED <<setup, port, host, uri, first>> /\ pc' = "done"
    BY <1>5 DEF Answer
  <2>2. answer'.type # <<>> => answer'.file # <<>>
    BY <1>5 DEF Answer
  <2> QED
    BY <2>1, <2>2
<1>6. CASE Leave
  <2>1. IsUri(<<"/">>) /\ domain \in Hosts
    BY Words, ConstantsType DEF IsUri
  <2>2. /\ pc' = "idle" /\ port' = "https" /\ host' = domain /\ uri' = <<"/">>
        /\ first' = NoRequest /\ answer' = NoAnswer /\ setup' = setup
    BY <1>6 DEF Leave, NoRequest
  <2> QED
    BY <2>1, <2>2 DEF NoRequest, NoAnswer, Port, IsUri
<1>7. CASE UNCHANGED vars
  BY <1>7 DEF vars
<1> QED
  BY <1>1, <1>2, <1>3, <1>4, <1>5, <1>6, <1>7 DEF Next, Serve

\* Also after redirects a request names a host of this server and a path that begins
\* with '/'.
THEOREM TypeCorrect == Spec => []TypeOK
<1>1. Spec => []TypeInv
  BY TypeInit, TypeStep, PTL DEF Spec
<1>2. TypeInv => TypeOK
  BY DEF TypeInv
<1> QED
  BY <1>1, <1>2, PTL

\* _raw_path_build decodes the path of every request as it should, wherever the path
\* breaks off.
THEOREM PathsDecoded == Spec => []DecodeRight
<1>1. Spec => []TypeInv
  BY TypeInit, TypeStep, PTL DEF Spec
<1>2. TypeInv => DecodeRight
  BY PathOfUri, DecodedIsRef DEF TypeInv, IsUri, DecodeRight
<1> QED
  BY <1>1, <1>2, PTL

------------------------------------------------------------------------------
\* The site.

\* Until the first redirect the request is the one the client began with; from then on
\* its host names the site that was asked for.
Spelled == first.port = "https" \/ first.host = Lower(first.host)
SiteInv ==
  pc \in {"asked", "done"} /\ Spelled =>
    /\ port = "http" => host = first.host /\ first.port = "http"
    /\ port = "https" => Subdomain(Lower(host)) = AskedSite(first.host)
    /\ pc = "done" => answer.site = AskedSite(first.host)

\* Every step keeps the site.
LEMMA SiteStep ==
  ASSUME DomainApart
  PROVE  TypeInv /\ SiteInv /\ [Next]_vars => SiteInv'
<1> SUFFICES ASSUME TypeInv, SiteInv, [Next]_vars PROVE SiteInv'
  OBVIOUS
<1>0. first.host \in Hosts /\ port \in Port
  BY DEF TypeInv, TypeOK
<1>1. CASE ConfRead
  BY <1>1 DEF ConfRead, SiteInv
<1>2. CASE Ask
  <2>1. /\ host' \in Hosts /\ pc' = "asked" /\ first'.port = port'
        /\ first'.host = host'
    BY <1>2 DEF Ask
  <2>2. Subdomain(Lower(host')) = AskedSite(host')
    BY <2>1, HostSite
  <2> QED
    BY <2>1, <2>2 DEF SiteInv
<1>3. CASE Redir80
  <2>1. /\ pc = "asked" /\ port = "http" /\ port' = "https" /\ pc' = "asked"
        /\ host' = net_host_build(Subdomain(host)) /\ first' = first
    BY <1>3 DEF Redir80, Follow
  <2>2. ASSUME Spelled
        PROVE  Subdomain(Lower(host')) = AskedSite(first.host)
    <3>1. host = first.host /\ first.port = "http"
      BY <2>1, <2>2 DEF SiteInv
    <3>2. Subdomain(host) = AskedSite(first.host)
      BY <1>0, <2>2, <3>1, HostSite DEF Spelled
    <3> QED
      BY <1>0, <2>1, <3>2, HostSite, BuiltSite
  <2>3. Spelled' = Spelled
    BY <2>1 DEF Spelled
  <2> QED
    BY <2>1, <2>2, <2>3 DEF SiteInv
<1>4. CASE PathRedir
  <2>1. /\ pc = "asked" /\ port = "https" /\ port' = "https" /\ pc' = "asked"
        /\ host' = net_host_build(Subdomain(Lower(host))) /\ first' = first
    BY <1>4 DEF PathRedir, Follow
  <2>2. ASSUME Spelled
        PROVE  Subdomain(Lower(host')) = AskedSite(first.host)
    BY <1>0, <2>1, <2>2, HostSite, BuiltSite DEF SiteInv
  <2>3. Spelled' = Spelled
    BY <2>1 DEF Spelled
  <2> QED
    BY <2>1, <2>2, <2>3 DEF SiteInv
<1>5. CASE Answer
  <2>1. /\ pc = "asked" /\ port = "https" /\ answer'.site = Subdomain(Lower(host))
        /\ UNCHANGED <<port, host, first>>
    BY <1>5 DEF Answer
  <2>2. Spelled' = Spelled
    BY <2>1 DEF Spelled
  <2> QED
    BY <2>1, <2>2 DEF SiteInv
<1>6. CASE Leave
  BY <1>6 DEF Leave, SiteInv
<1>7. CASE UNCHANGED vars
  BY <1>7 DEF vars, SiteInv, Spelled
<1> QED
  BY <1>1, <1>2, <1>3, <1>4, <1>5, <1>6, <1>7 DEF Next, Serve

\* Unless the domain is one that a site below it begins with, the answer comes from
\* the web root of the host that was asked for, through every chain of redirects of
\* both ports.
THEOREM SameSite ==
  ASSUME DomainApart
  PROVE  Spec => []SiteKept
<1>1. Init => SiteInv
  BY DEF Init, SiteInv
<1>2. TypeInv /\ SiteInv => SiteKept
  <2> SUFFICES ASSUME TypeInv, SiteInv, pc = "done", Spelled
               PROVE  answer.site = AskedSite(first.host)
    BY DEF SiteKept, Spelled, AskedSite
  <2> QED
    BY DEF SiteInv
<1>3. TypeInv /\ SiteInv /\ [Next]_vars => SiteInv'
  BY SiteStep
<1> QED
  BY <1>1, <1>2, <1>3, TypeInit, TypeStep, PTL DEF Spec

\* A step that redirects makes the way shorter.
LEMMA HopTaken ==
  ASSUME TypeInv, Redir80 \/ PathRedir
  PROVE  HopsLeft \in Nat /\ HopsLeft' \in Nat /\ HopsLeft' < HopsLeft
<1>1. uri \in Seq(Token) /\ uri # <<>> /\ uri[1] = "/" /\ Len(uri) \in Nat
  BY DEF TypeInv, IsUri
<1>2. CASE Redir80
  <2>1. port = "http" /\ port' = "https" /\ uri' = uri
    BY <1>2 DEF Redir80, Follow
  <2> QED
    BY <1>1, <2>1 DEF HopsLeft
<1>3. CASE PathRedir
  <2> DEFINE p == PathOf(uri)
  <2>1. /\ port = "https" /\ port' = "https" /\ UriPathBuild(p).code = 301
        /\ uri' = UriPathBuild(p).path
    BY <1>3 DEF PathRedir, Follow
  <2>2. p \in Seq(Token) /\ p # <<>> /\ p[1] = "/" /\ Len(p) <= Len(uri)
    BY <1>1, PathOfUri
  <2> HIDE DEF p
  <2>3. uri' \in Seq(Token) /\ Len(uri') < Len(p)
    BY <2>1, <2>2, RedirectShorter
  <2>4. Len(uri') \in Nat /\ Len(p) \in Nat
    BY <2>2, <2>3
  <2> QED
    BY <1>1, <2>1, <2>2, <2>3, <2>4 DEF HopsLeft
<1> QED
  BY <1>2, <1>3

\* No visitor is sent round in a circle by the redirects of the two ports.
THEOREM NoRedirectLoop == Spec => RedirectsShorten
<1>1. TypeInv /\ [Next]_vars => [Redir80 \/ PathRedir => HopsLeft' < HopsLeft]_vars
  BY HopTaken
<1> QED
  BY <1>1, TypeInit, TypeStep, PTL DEF Spec, RedirectsShorten

------------------------------------------------------------------------------
\* Decoding a path in parts.

\* The reference position by position.
LEMMA RefTyped ==
  ASSUME NEW s \in Seq(Token)
  PROVE  \E r \in [1 .. Len(s) + 1 -> Seq(Token)] :
           /\ DecodedRef(s) = r[1] /\ r[Len(s) + 1] = <<>>
           /\ \A i \in 1 .. Len(s) : r[i] = At(s, i) \o r[i + 1]
<1> DEFINE n == Len(s)
<1>1. n \in Nat
  OBVIOUS
<1>2. PICK r : /\ DecodedRef(s) = r[1]
               /\ r = [i \in 1 .. n + 1 |-> IF i > n THEN <<>> ELSE At(s, i) \o r[i + 1]]
  BY RefLoop
<1>3. r[n + 1] = <<>> /\ \A i \in 1 .. n : r[i] = At(s, i) \o r[i + 1]
  <2>1. n + 1 \in 1 .. n + 1 /\ n + 1 > n /\ \A i \in 1 .. n : i \in 1 .. n + 1 /\ ~(i > n)
    BY <1>1
  <2> HIDE DEF n
  <2> QED
    BY <1>2, <2>1
<1>4. \A i \in 1 .. n : At(s, i) \in Seq(Token)
  BY AtType
<1> HIDE DEF n
<1> DEFINE K == {k \in 1 .. n + 1 : \A i \in k .. n + 1 : r[i] \in Seq(Token)}
<1>5. n + 1 \in K
  <2>1. <<>> \in Seq(Token) /\ \A i \in n + 1 .. n + 1 : i = n + 1
    BY <1>1
  <2>2. r[n + 1] \in Seq(Token)
    BY <1>3, <2>1
  <2>3. \A i \in n + 1 .. n + 1 : r[i] \in Seq(Token)
    BY <2>1, <2>2
  <2> QED
    BY <1>1, <2>3
<1>6. ASSUME NEW k \in K, k > 1
      PROVE  k - 1 \in K
  <2>1. /\ k - 1 \in 1 .. n /\ (k - 1) + 1 = k /\ k \in k .. n + 1
        /\ \A i \in k - 1 .. n + 1 : i = k - 1 \/ i \in k .. n + 1
    BY <1>1, <1>6
  <2>2. /\ r[k] \in Seq(Token) /\ At(s, k - 1) \in Seq(Token)
        /\ r[k - 1] = At(s, k - 1) \o r[k]
    BY <1>3, <1>4, <2>1
  <2>3. r[k - 1] \in Seq(Token)
    BY <2>2, ConcatProperties
  <2> QED
    BY <1>1, <2>1, <2>3
<1>7. 1 \in K
  <2> HIDE DEF K
  <2>1. K \in SUBSET (1 .. n + 1)
    BY DEF K
  <2>2. n + 1 \in Nat /\ \A k \in K : k > 1 => k - 1 \in K
    BY <1>1, <1>6
  <2> QED
    BY <1>5, <2>1, <2>2, Descent
<1>8. r \in [1 .. n + 1 -> Seq(Token)]
  <2>1. \A i \in 1 .. n + 1 : r[i] \in Seq(Token)
    BY <1>7
  <2>2. r = [i \in 1 .. n + 1 |-> r[i]]
    BY <1>2
  <2> QED
    BY <2>1, <2>2
<1> QED
  BY <1>2, <1>3, <1>8 DEF n

\* No escape reaches over a seam behind which no hexadecimal digit stands.
LEMMA EscapeConcat ==
  ASSUME NEW a \in Seq(Token), NEW b \in Seq(Token), b # <<>>, ChrToHex(b[1]) < 0,
         NEW i \in Int
  PROVE  /\ i <= Len(a) => (Escape(a \o b, i) <=> Escape(a, i))
         /\ i > Len(a) => (Escape(a \o b, i) <=> Escape(b, i - Len(a)))
<1> DEFINE s == a \o b
           m == Len(a)
           n == Len(b)
<1>1. m \in Nat /\ n \in Nat /\ n >= 1
  BY EmptySeq
<1>2. /\ Len(s) = m + n
      /\ \A j \in 1 .. m + n : s[j] = IF j <= m THEN a[j] ELSE b[j - m]
  BY ConcatProperties
<1>3. \A c : ChrToHex(c) \in Int
  BY DEF ChrToHex
<1> HIDE DEF s
<1>4. ASSUME i <= m, i >= 1, i + 2 <= m
      PROVE  Escape(s, i) <=> Escape(a, i)
  <2>1. s[i] = a[i] /\ s[i + 1] = a[i + 1] /\ s[i + 2] = a[i + 2]
    <3>1. /\ i \in 1 .. m + n /\ i + 1 \in 1 .. m + n /\ i + 2 \in 1 .. m + n
          /\ i <= m /\ i + 1 <= m /\ i + 2 <= m
      BY <1>1, <1>4
    <3> HIDE DEF m, n
    <3> QED
      BY <1>2, <3>1
  <2>2. i + 2 <= Len(s) /\ i + 2 <= Len(a)
    BY <1>1, <1>2, <1>4
  <2> HIDE DEF m, n
  <2> QED
    BY <2>1, <2>2 DEF Escape
<1>5. ASSUME i <= m, i >= 1, ~(i + 2 <= m)
      PROVE  ~Escape(s, i) /\ ~Escape(a, i)
  <2>1. ~Escape(a, i)
    BY <1>5 DEF Escape
  <2>2. s[m + 1] = b[1]
    <3>1. m + 1 \in 1 .. m + n /\ ~(m + 1 <= m) /\ (m + 1) - m = 1
      BY <1>1
    <3> HIDE DEF m, n
    <3> QED
      BY <1>2, <3>1
  <2>3. m + 1 = i + 1 \/ m + 1 = i + 2
    <3> HIDE DEF m, n
    <3> QED
      BY <1>1, <1>5
  <2>4. ~(ChrToHex(s[m + 1]) >= 0)
    BY <2>2, <1>3
  <2>5. ~Escape(s, i)
    <3> HIDE DEF m, n
    <3> QED
      BY <2>3, <2>4 DEF Escape
  <2> QED
    BY <2>1, <2>5
<1>6. ASSUME ~(i >= 1)
      PROVE  ~Escape(s, i) /\ ~Escape(a, i)
  BY <1>6 DEF Escape
<1>7. ASSUME i > m
      PROVE  Escape(s, i) <=> Escape(b, i - m)
  <2> HIDE DEF m, n
  <2>1. i >= 1 /\ i - m >= 1 /\ (i + 2 <= Len(s) <=> (i - m) + 2 <= n)
    BY <1>1, <1>2, <1>7
  <2>2. CASE i + 2 <= Len(s)
    <3>1. /\ i \in 1 .. m + n /\ i + 1 \in 1 .. m + n /\ i + 2 \in 1 .. m + n
          /\ ~(i <= m) /\ ~(i + 1 <= m) /\ ~(i + 2 <= m)
          /\ (i + 1) - m = (i - m) + 1 /\ (i + 2) - m = (i - m) + 2
      BY <1>1, <1>2, <1>7, <2>2
    <3>2. s[i] = b[i - m] /\ s[i + 1] = b[(i - m) + 1] /\ s[i + 2] = b[(i - m) + 2]
      <4>1. s[i + 1] = b[(i + 1) - m] /\ s[i + 2] = b[(i + 2) - m] /\ s[i] = b[i - m]
        BY <1>2, <3>1
      <4> QED
        BY <4>1, <3>1
    <3> QED
      BY <2>1, <2>2, <3>2 DEF Escape, n
  <2>3. CASE ~(i + 2 <= Len(s))
    BY <2>1, <2>3 DEF Escape, n
  <2> QED
    BY <2>2, <2>3
<1> QED
  BY <1>4, <1>5, <1>6, <1>7 DEF s

\* So every position of the whole stands for what it stands for in its part.
LEMMA AtConcat ==
  ASSUME NEW a \in Seq(Token), NEW b \in Seq(Token), b # <<>>, ChrToHex(b[1]) < 0
  PROVE  /\ \A i \in 1 .. Len(a) : At(a \o b, i) = At(a, i)
         /\ \A i \in 1 .. Len(b) : At(a \o b, Len(a) + i) = At(b, i)
<1> DEFINE s == a \o b
           m == Len(a)
           n == Len(b)
<1>1. m \in Nat /\ n \in Nat
  OBVIOUS
<1>2. /\ Len(s) = m + n
      /\ \A j \in 1 .. m + n : s[j] = IF j <= m THEN a[j] ELSE b[j - m]
  BY ConcatProperties
<1>3. \A i \in Int : /\ i <= m => (Escape(s, i) <=> Escape(a, i))
                     /\ i > m => (Escape(s, i) <=> Escape(b, i - m))
  BY EscapeConcat
<1> HIDE DEF s, m, n
<1>4. ASSUME NEW i \in 1 .. m
      PROVE  At(s, i) = At(a, i)
  <2>1. /\ i \in Int /\ i - 1 \in Int /\ i - 2 \in Int /\ i <= m /\ i - 1 <= m
        /\ i - 2 <= m
        /\ i \in 1 .. m + n
    BY <1>1
  <2>2. Escape(s, i) <=> Escape(a, i)
    BY <1>3, <2>1
  <2>3. Inside(s, i) <=> Inside(a, i)
    BY <1>3, <2>1 DEF Inside
  <2>4. s[i] = a[i]
    BY <1>2, <2>1
  <2>5. Escape(a, i) => s[i + 1] = a[i + 1] /\ s[i + 2] = a[i + 2]
    <3> SUFFICES ASSUME Escape(a, i)
                 PROVE  s[i + 1] = a[i + 1] /\ s[i + 2] = a[i + 2]
      OBVIOUS
    <3>1. i + 2 <= m
      BY DEF Escape, m
    <3>2. i + 1 \in 1 .. m + n /\ i + 1 <= m /\ i + 2 \in 1 .. m + n
      BY <1>1, <3>1
    <3> QED
      BY <1>2, <3>1, <3>2
  <2> QED
    BY <2>2, <2>3, <2>4, <2>5 DEF At
<1>5. ASSUME NEW i \in 1 .. n
      PROVE  At(s, m + i) = At(b, i)
  <2> DEFINE j == m + i
  <2>1. /\ j \in Int /\ j > m /\ j - m = i /\ j \in 1 .. m + n /\ ~(j <= m)
        /\ j - 1 \in Int /\ j - 2 \in Int
    BY <1>1
  <2> HIDE DEF j
  <2>2. Escape(s, j) <=> Escape(b, i)
    BY <1>3, <2>1
  <2>3. \A k \in {1, 2} : Escape(s, j - k) <=> Escape(b, i - k)
    <3> TAKE k \in {1, 2}
    <3>1. j - k \in Int /\ (j - k) - m = i - k
      BY <1>1, <2>1
    <3>2. CASE j - k > m
      BY <1>3, <3>1, <3>2
    <3>3. CASE ~(j - k > m)
      <4>1. j - k <= m /\ ~(i - k >= 1) /\ (j - k) + 2 > m
        BY <1>1, <2>1, <3>1, <3>3
      <4>2. ~Escape(a, j - k) /\ ~Escape(b, i - k)
        <5>1. ~Escape(b, i - k)
          BY <4>1 DEF Escape
        <5>2. ~((j - k) + 2 <= m)
          BY <4>1, <3>1, <1>1
        <5> QED
          BY <5>1, <5>2 DEF Escape, m
      <4> QED
        BY <1>3, <3>1, <4>1, <4>2
    <3> QED
      BY <3>2, <3>3
  <2>4. Inside(s, j) <=> Inside(b, i)
    BY <2>3 DEF Inside
  <2>5. s[j] = b[i]
    BY <1>2, <2>1
  <2>6. Escape(b, i) => s[j + 1] = b[i + 1] /\ s[j + 2] = b[i + 2]
    <3> SUFFICES ASSUME Escape(b, i)
                 PROVE  s[j + 1] = b[i + 1] /\ s[j + 2] = b[i + 2]
      OBVIOUS
    <3>1. i + 2 <= n
      BY DEF Escape, n
    <3>2. /\ j + 1 \in 1 .. m + n /\ j + 2 \in 1 .. m + n /\ ~(j + 1 <= m)
          /\ ~(j + 2 <= m)
          /\ (j + 1) - m = i + 1 /\ (j + 2) - m = i + 2
      BY <1>1, <2>1, <3>1
    <3>3. s[j + 1] = b[(j + 1) - m] /\ s[j + 2] = b[(j + 2) - m]
      BY <1>2, <3>2
    <3> QED
      BY <3>2, <3>3
  <2>7. At(s, j) = At(b, i)
    BY <2>2, <2>4, <2>5, <2>6 DEF At
  <2> QED
    BY <2>7 DEF j
<1> QED
  BY <1>4, <1>5 DEF s, m, n

\* Concatenation groups either way.
LEMMA Regroup ==
  ASSUME NEW x \in Seq(Token), NEW y \in Seq(Token), NEW z \in Seq(Token)
  PROVE  (x \o y) \o z = x \o (y \o z)
BY ConcatAssociative

\* Decoding goes part by part: what follows in the path does not change what is before
\* it, if no hexadecimal digit stands behind the seam.
LEMMA DecodedConcat ==
  ASSUME NEW a \in Seq(Token), NEW b \in Seq(Token), b # <<>>, ChrToHex(b[1]) < 0
  PROVE  Decoded(a \o b) = Decoded(a) \o Decoded(b)
<1> DEFINE s == a \o b
           m == Len(a)
           n == Len(b)
<1>1. m \in Nat /\ n \in Nat /\ s \in Seq(Token) /\ Len(s) = m + n
  BY ConcatProperties
<1>2. PICK ra \in [1 .. m + 1 -> Seq(Token)] :
        /\ DecodedRef(a) = ra[1] /\ ra[m + 1] = <<>>
        /\ \A i \in 1 .. m : ra[i] = At(a, i) \o ra[i + 1]
  BY RefTyped
<1>3. PICK rb \in [1 .. n + 1 -> Seq(Token)] :
        /\ DecodedRef(b) = rb[1] /\ rb[n + 1] = <<>>
        /\ \A i \in 1 .. n : rb[i] = At(b, i) \o rb[i + 1]
  BY RefTyped
<1>4. PICK rs \in [1 .. Len(s) + 1 -> Seq(Token)] :
        /\ DecodedRef(s) = rs[1] /\ rs[Len(s) + 1] = <<>>
        /\ \A i \in 1 .. Len(s) : rs[i] = At(s, i) \o rs[i + 1]
  <2> HIDE DEF s
  <2> QED
    BY <1>1, RefTyped
<1>5. /\ \A i \in 1 .. m : At(s, i) = At(a, i) /\ At(a, i) \in Seq(Token)
      /\ \A i \in 1 .. n : At(s, m + i) = At(b, i)
  BY AtConcat, AtType
<1>6. /\ rs[m + n + 1] = <<>>
      /\ \A i \in 1 .. m + n : rs[i] = At(s, i) \o rs[i + 1]
  BY <1>1, <1>4
<1> HIDE DEF s, m, n
<1> DEFINE L == {k \in 1 .. n + 1 : rs[m + k] = rb[k]}
<1>7. n + 1 \in L
  <2>1. m + (n + 1) = m + n + 1 /\ n + 1 \in 1 .. n + 1
    BY <1>1
  <2> QED
    BY <1>3, <1>6, <2>1
<1>8. ASSUME NEW k \in L, k > 1
      PROVE  k - 1 \in L
  <2> DEFINE j == k - 1
  <2>1. /\ j \in 1 .. n /\ j \in 1 .. n + 1 /\ j + 1 = k
        /\ m + j \in 1 .. m + n /\ (m + j) + 1 = m + k
    BY <1>1, <1>8
  <2> HIDE DEF j
  <2>2. rb[j] = At(b, j) \o rb[k] /\ rs[m + j] = At(s, m + j) \o rs[m + k]
    BY <1>3, <1>6, <2>1
  <2>3. rs[m + j] = rb[j]
    BY <1>5, <2>1, <2>2
  <2> QED
    BY <2>1, <2>3 DEF j
<1>9. rs[m + 1] = rb[1]
  <2> HIDE DEF L
  <2>1. L \in SUBSET (1 .. n + 1) /\ n + 1 \in Nat /\ \A k \in L : k > 1 => k - 1 \in L
    BY <1>1, <1>8 DEF L
  <2>2. 1 \in L
    BY <1>7, <2>1, Descent
  <2> QED
    BY <2>2 DEF L
<1>10. rb[1] \in Seq(Token)
  BY <1>1, <1>3
<1> DEFINE Joined(k) == rs[k] = ra[k] \o rb[1]
           K == {k \in 1 .. m + 1 : Joined(k)}
<1>11. m + 1 \in K
  <2>1. ra[m + 1] \o rb[1] = rb[1]
    BY <1>2, <1>10, ConcatEmptySeq
  <2>2. Joined(m + 1)
    BY <1>9, <2>1
  <2> HIDE DEF Joined
  <2> QED
    BY <1>1, <2>2
<1>12. ASSUME NEW k \in K, k > 1
       PROVE  k - 1 \in K
  <2> DEFINE j == k - 1
  <2>1. /\ j \in 1 .. m /\ j \in 1 .. m + 1 /\ j + 1 = k /\ j \in 1 .. m + n
        /\ k \in 1 .. m + 1
    BY <1>1, <1>12
  <2> HIDE DEF j
  <2>2. /\ ra[j] = At(a, j) \o ra[k] /\ rs[j] = At(s, j) \o rs[k]
        /\ rs[k] = ra[k] \o rb[1] /\ At(s, j) = At(a, j)
    BY <1>2, <1>5, <1>6, <2>1
  <2> HIDE DEF K
  <2>3. At(a, j) \in Seq(Token) /\ ra[k] \in Seq(Token)
    BY <1>2, <1>5, <2>1
  <2>4. (At(a, j) \o ra[k]) \o rb[1] = At(a, j) \o (ra[k] \o rb[1])
    <3> DEFINE x == At(a, j)
               y == ra[k]
               z == rb[1]
    <3>1. x \in Seq(Token) /\ y \in Seq(Token) /\ z \in Seq(Token)
      BY <1>10, <2>3
    <3> HIDE DEF x, y, z
    <3>2. (x \o y) \o z = x \o (y \o z)
      BY ONLY <3>1, Regroup, Zenon
    <3> QED
      BY <3>2 DEF x, y, z
  <2>5. Joined(j)
    BY <2>2, <2>4
  <2> HIDE DEF Joined
  <2> QED
    BY <2>1, <2>5 DEF j, K
<1>13. rs[1] = ra[1] \o rb[1]
  <2> HIDE DEF K, Joined
  <2>1. K \in SUBSET (1 .. m + 1) /\ m + 1 \in Nat /\ \A k \in K : k > 1 => k - 1 \in K
    BY <1>1, <1>12 DEF K
  <2>2. 1 \in K
    BY <1>11, <2>1, Descent
  <2> QED
    BY <2>2 DEF K, Joined
<1>14. /\ Decoded(a) = DecodedRef(a) /\ Decoded(b) = DecodedRef(b)
       /\ Decoded(s) = DecodedRef(s)
  BY <1>1, DecodedIsRef
<1> QED
  BY <1>2, <1>3, <1>4, <1>13, <1>14 DEF s

\* A path without a '%' is its own decoding.
LEMMA DecodedPlain ==
  ASSUME NEW s \in Seq(Token), \A i \in 1 .. Len(s) : s[i] # "%"
  PROVE  Decoded(s) = s
<1> DEFINE n == Len(s)
<1>1. n \in Nat
  OBVIOUS
<1>2. PICK r \in [1 .. n + 1 -> Seq(Token)] :
        /\ DecodedRef(s) = r[1] /\ r[n + 1] = <<>>
        /\ \A i \in 1 .. n : r[i] = At(s, i) \o r[i + 1]
  BY RefTyped
<1>3. ASSUME NEW i \in 1 .. n
      PROVE  At(s, i) = <<s[i]>>
  <2>1. \A k \in Int : ~Escape(s, k)
    <3> TAKE k \in Int
    <3>1. CASE k \in 1 .. n
      BY <3>1 DEF Escape
    <3>2. CASE k \notin 1 .. n
      BY <1>1, <3>2 DEF Escape
    <3> QED
      BY <3>1, <3>2
  <2>2. i \in Int /\ i - 1 \in Int /\ i - 2 \in Int
    BY <1>1
  <2> QED
    BY <2>1, <2>2 DEF At, Inside
<1> DEFINE K == {k \in 1 .. n + 1 : r[k] = SubSeq(s, k, n)}
<1>4. n + 1 \in K
  <2>1. SubSeq(s, n + 1, n) = <<>>
    <3>1. n + 1 \in Int /\ n \in Int /\ n < n + 1
      BY <1>1
    <3> HIDE DEF n
    <3> QED
      BY <3>1, SubSeqEmpty
  <2> HIDE DEF n
  <2> QED
    BY <1>1, <1>2, <2>1
<1>5. ASSUME NEW k \in K, k > 1
      PROVE  k - 1 \in K
  <2> DEFINE j == k - 1
  <2>1. j \in 1 .. n /\ j \in 1 .. n + 1 /\ j + 1 = k /\ n \in j .. n
    BY <1>1, <1>5
  <2>2. SubSeq(s, j, n) = <<s[j]>> \o SubSeq(s, j + 1, n)
    <3> HIDE DEF j
    <3> QED
      BY <2>1, SubSeqRecursiveFirst
  <2> HIDE DEF j, n
  <2>3. r[j] = <<s[j]>> \o r[k] /\ r[k] = SubSeq(s, k, n)
    BY <1>2, <1>3, <2>1
  <2>4. r[j] = SubSeq(s, j, n)
    BY <2>1, <2>2, <2>3
  <2> QED
    BY <2>1, <2>4 DEF j
<1>6. r[1] = SubSeq(s, 1, n)
  <2> HIDE DEF K, n
  <2>1. K \in SUBSET (1 .. n + 1) /\ n + 1 \in Nat /\ \A k \in K : k > 1 => k - 1 \in K
    BY <1>1, <1>5 DEF K
  <2>2. 1 \in K
    BY <1>4, <2>1, Descent
  <2> QED
    BY <2>2 DEF K
<1>7. SubSeq(s, 1, n) = s
  BY SubSeqFull
<1> QED
  BY <1>2, <1>6, <1>7, DecodedIsRef

\* Words that are not changed by decoding may be taken off a path before or after it.
LEMMA DecodedWord ==
  ASSUME NEW a \in Seq(Token), NEW w \in {<<"/">>, <<"index">>, index_html, html_ext}
  PROVE  w \in Seq(Token) /\ Decoded(a \o w) = Decoded(a) \o w
<1>1. w \in Seq(Token) /\ w # <<>> /\ Len(w) >= 1
  <2>1. CASE w = <<"/">>
    BY <2>1, Words
  <2>2. CASE w = <<"index">>
    BY <2>2, Words
  <2>3. CASE w = index_html
    BY <2>3, Words DEF index_html
  <2>4. CASE w = html_ext
    BY <2>4, Words DEF html_ext
  <2> QED
    BY <2>1, <2>2, <2>3, <2>4
<1>2. \A i \in 1 .. Len(w) : w[i] \in {"/", "index", ".", "html"}
  <2>1. CASE w = <<"/">>
    BY <2>1
  <2>2. CASE w = <<"index">>
    BY <2>2
  <2>3. CASE w = index_html
    BY <2>3 DEF index_html
  <2>4. CASE w = html_ext
    BY <2>4 DEF html_ext
  <2> QED
    BY <2>1, <2>2, <2>3, <2>4
<1>3. 1 \in 1 .. Len(w)
  BY <1>1
<1>4. ChrToHex(w[1]) < 0
  <2>1. \A c \in {"/", "index", ".", "html"} : ChrToHex(c) = -1
    BY DEF ChrToHex
  <2> QED
    BY <1>2, <1>3, <2>1
<1>5. Decoded(w) = w
  BY <1>1, <1>2, DecodedPlain
<1> QED
  BY <1>1, <1>4, <1>5, DecodedConcat

------------------------------------------------------------------------------
\* Clean URLs.

\* Decoding keeps a '/' at the end.
LEMMA DecodedSlash ==
  ASSUME NEW d \in Seq(Token), d # <<>>, d[Len(d)] = "/"
  PROVE  /\ Decoded(d) \in Seq(Token) /\ Decoded(d) # <<>>
         /\ Decoded(d)[Len(Decoded(d))] = "/" /\ Last(Decoded(d)) = "/"
<1> DEFINE n == Len(d)
           c == SubSeq(d, 1, n - 1)
<1>1. n \in Nat /\ n >= 1
  BY EmptySeq
<1>2. c \in Seq(Token) /\ d = c \o <<"/">>
  <2>1. 1 \in 1 .. n /\ n \in 1 .. n
    BY <1>1
  <2>2. SubSeq(d, 1, n) = c \o <<d[n]>>
    BY <2>1, SubSeqRecursiveSecond
  <2>3. SubSeq(d, 1, n) = d
    BY SubSeqFull
  <2>4. n - 1 \in 0 .. Len(d)
    BY <1>1
  <2>5. c \in Seq(Token)
    BY <2>4, FrontPart
  <2> QED
    BY <2>2, <2>3, <2>5
<1> HIDE DEF c
<1>3. Decoded(d) = Decoded(c) \o <<"/">>
  BY <1>2, DecodedWord
<1>4. Decoded(c) \in Seq(Token) /\ Decoded(d) \in Seq(Token)
  BY <1>2, DecodedIsRef
<1> DEFINE e == Decoded(c)
           r == e \o <<"/">>
<1>5. /\ Len(r) = Len(e) + 1 /\ Len(e) \in Nat
      /\ \A i \in 1 .. Len(e) + 1 : r[i] = IF i <= Len(e) THEN e[i] ELSE <<"/">>[i - Len(e)]
  <2>1. <<"/">> \in Seq(Token) /\ Len(<<"/">>) = 1
    BY Words
  <2>2. /\ Len(r) = Len(e) + Len(<<"/">>) /\ Len(e) \in Nat
        /\ \A i \in 1 .. Len(e) + Len(<<"/">>) :
             r[i] = IF i <= Len(e) THEN e[i] ELSE <<"/">>[i - Len(e)]
    BY <1>4, <2>1, ConcatProperties
  <2> QED
    BY <2>1, <2>2
<1> HIDE DEF e, r
<1>6. r[Len(r)] = "/" /\ Len(r) >= 1
  <2>1. /\ Len(e) + 1 \in 1 .. Len(e) + 1 /\ ~(Len(e) + 1 <= Len(e))
        /\ (Len(e) + 1) - Len(e) = 1
    BY <1>5
  <2>2. r[Len(r)] = <<"/">>[1]
    BY <1>5, <2>1
  <2> QED
    BY <1>5, <2>2
<1>7. Decoded(d) = r
  BY <1>3 DEF r, e
<1> QED
  BY <1>4, <1>6, <1>7, EmptySeq DEF Last

\* The end of a path that has a word appended to it.
LEMMA LastOfConcat ==
  ASSUME NEW a \in Seq(Token), NEW w \in Seq(Token), w # <<>>
  PROVE  Last(a \o w) = w[Len(w)] /\ a \o w # <<>>
<1> DEFINE s == a \o w
           m == Len(a)
           n == Len(w)
<1>1. m \in Nat /\ n \in Nat /\ n >= 1
  BY EmptySeq
<1>2. /\ s \in Seq(Token) /\ Len(s) = m + n
      /\ \A i \in 1 .. m + n : s[i] = IF i <= m THEN a[i] ELSE w[i - m]
  BY ConcatProperties
<1> HIDE DEF s, m, n
<1>3. m + n \in 1 .. m + n /\ ~(m + n <= m) /\ (m + n) - m = n
  BY <1>1
<1>4. s[Len(s)] = w[n] /\ s # <<>>
  BY <1>1, <1>2, <1>3, EmptySeq
<1> QED
  BY <1>4 DEF s, n, Last

\* The last tokens of the words, none of which is or contains a '/'.
LEMMA WordEnds ==
  /\ <<"index">> # <<>> /\ <<"index">>[Len(<<"index">>)] = "index"
  /\ html_ext # <<>> /\ html_ext[Len(html_ext)] = "html"
  /\ index_html # <<>> /\ index_html[Len(index_html)] = "html"
  /\ \A i \in 1 .. Len(<<"index">>) : <<"index">>[i] # "/"
  /\ \A i \in 1 .. Len(index_html) : index_html[i] # "/"
  /\ index_html = <<"index">> \o html_ext /\ index_html # <<"index">>
<1>1. \A i \in 1 .. 3 : i = 1 \/ i = 2 \/ i = 3
  OBVIOUS
<1>2. \A i \in 1 .. Len(index_html) : index_html[i] # "/"
  BY <1>1, Words
<1>3. <<"index">> \o html_ext = index_html
  <2> DEFINE c == <<"index">> \o html_ext
  <2>1. /\ <<"index">> \in Seq(Token) /\ Len(<<"index">>) = 1
        /\ <<"index">>[1] = "index"
        /\ html_ext \in Seq(Token) /\ Len(html_ext) = 2
    BY Words
  <2> DEFINE w == <<"index">>
  <2> HIDE DEF w
  <2>2. /\ c \in Seq(Token) /\ Len(c) = 1 + 2
        /\ \A i \in 1 .. 1 + 2 : c[i] = IF i <= 1 THEN <<"index">>[i] ELSE html_ext[i - 1]
    <3>1. /\ w \o html_ext \in Seq(Token) /\ Len(w \o html_ext) = Len(w) + Len(html_ext)
          /\ \A i \in 1 .. Len(w) + Len(html_ext) :
               (w \o html_ext)[i] = IF i <= Len(w) THEN w[i] ELSE html_ext[i - Len(w)]
      BY <2>1, ConcatProperties DEF w
    <3>2. Len(w) = 1 /\ c = w \o html_ext /\ w = <<"index">>
      BY DEF w
    <3> HIDE DEF c
    <3> QED
      BY <2>1, <3>1, <3>2
  <2> HIDE DEF c
  <2>3. Len(c) = 3 /\ c[1] = "index" /\ c[2] = html_ext[1] /\ c[3] = html_ext[2]
    BY <2>1, <2>2
  <2>4. \A i \in 1 .. Len(c) : c[i] = index_html[i]
    BY <1>1, <2>3, Words
  <2>5. c = index_html
    BY <2>2, <2>3, <2>4, Words, SeqEqual
  <2> QED
    BY <2>5 DEF c
<1>4. index_html # <<"index">>
  BY Words
<1> QED
  BY <1>2, <1>3, <1>4, Words DEF html_ext, index_html

\* A path ends in '/' exactly if nothing is behind its last '/'.
LEMMA NoLastName ==
  ASSUME NEW p \in Seq(Token), p # <<>>
  PROVE  /\ Last(p) = "/" => LastName(p) = <<>>
         /\ p[1] = "/" /\ LastName(p) = <<>> => Last(p) = "/"
<1>1. ASSUME Last(p) = "/"
      PROVE  LastName(p) = <<>>
  <2>1. <<>> \in Seq(Token) /\ \A i \in 1 .. Len(<<>>) : <<>>[i] # "/"
    OBVIOUS
  <2>2. p \o <<>> = p /\ p[Len(p)] = "/"
    BY <1>1, ConcatEmptySeq DEF Last
  <2>3. LastName(p \o <<>>) = <<>>
    BY <2>1, <2>2, SplitAt
  <2> QED
    BY <2>2, <2>3
<1>2. ASSUME p[1] = "/", LastName(p) = <<>>
      PROVE  Last(p) = "/"
  <2>1. /\ DirPart(p) \in Seq(Token) /\ DirPart(p)[Len(DirPart(p))] = "/"
        /\ p = DirPart(p) \o <<>>
    BY <1>2, Split
  <2>2. p = DirPart(p)
    BY <2>1, ConcatEmptySeq
  <2> QED
    BY <2>1, <2>2 DEF Last
<1> QED
  BY <1>1, <1>2

\* A path whose last name is index.html ends in .html.
LEMMA IndexHtmlEnds ==
  ASSUME NEW p \in Seq(Token), p # <<>>, p[1] = "/", LastName(p) = index_html
  PROVE  /\ DirPart(p) \o <<"index">> \in Seq(Token)
         /\ p = (DirPart(p) \o <<"index">>) \o html_ext /\ IsSuffix(html_ext, p)
<1>1. DirPart(p) \in Seq(Token) /\ p = DirPart(p) \o index_html
  BY Split
<1>2. /\ <<"index">> \in Seq(Token) /\ html_ext \in Seq(Token)
      /\ index_html = <<"index">> \o html_ext
  BY Words, WordEnds
<1>3. DirPart(p) \o <<"index">> \in Seq(Token)
  BY <1>1, <1>2, ConcatProperties
<1>4. p = (DirPart(p) \o <<"index">>) \o html_ext
  <2> DEFINE w == <<"index">>
             d == DirPart(p)
  <2>1. d \in Seq(Token) /\ w \in Seq(Token) /\ html_ext \in Seq(Token)
    BY <1>1, <1>2
  <2>2. p = d \o index_html /\ index_html = w \o html_ext
    BY <1>1, <1>2
  <2> HIDE DEF w, d
  <2>3. (d \o w) \o html_ext = d \o (w \o html_ext)
    BY <2>1, Regroup
  <2>4. p = (d \o w) \o html_ext
    BY <2>2, <2>3
  <2> QED
    BY <2>4 DEF w, d
<1> QED
  BY <1>3, <1>4, AddHtml

\* The last name of a directory's index.
LEMMA SplitIndex ==
  ASSUME NEW d \in Seq(Token), d # <<>>, d[Len(d)] = "/"
  PROVE  LastName(d \o <<"index">>) = <<"index">>
<1> DEFINE w == <<"index">>
<1>1. w \in Seq(Token) /\ \A i \in 1 .. Len(w) : w[i] # "/"
  BY Words, WordEnds
<1> HIDE DEF w
<1>2. LastName(d \o w) = w
  BY <1>1, SplitAt
<1> QED
  BY <1>2 DEF w

\* A file of a web root.
IsFile(f, root) ==
  /\ f \in root.files /\ f \in Seq(Token) /\ f # <<>> /\ f[1] = "/" /\ Last(f) # "/"
  /\ Front(DirPart(f)) \in root.dirs

\* The paths that lead to a file: its own name in some encoding; its directory, for an
\* index.html; its name without .html, which nothing else has.
Reaches(p, f, root) ==
  \/ Decoded(p) = f /\ ~Hidden(f, root, p)
  \/ Last(p) = "/" /\ LastName(f) = index_html /\ Decoded(p) = DirPart(f)
  \/ /\ UriPathBuild(p).code = 0 /\ f = Decoded(p) \o html_ext
     /\ Last(Decoded(p)) # "/" /\ Decoded(p) \notin root.files \cup root.dirs

\* A path that ends neither in '/' nor in .html and is not an index is not redirected.
LEMMA NotRedirected ==
  ASSUME NEW p \in Seq(Token), p # <<>>, p[1] = "/", Last(p) # "/",
         LastName(p) # <<"index">>, ~IsSuffix(html_ext, p)
  PROVE  UriPathBuild(p).code = 0
<1>1. LastName(p) # index_html
  BY IndexHtmlEnds
<1> QED
  BY <1>1, UriPathBuildCodes

\* The names of a file lead to it.
LEMMA NamesReach ==
  ASSUME NEW p, IsUri(p), NEW f, NEW root, IsFile(f, root), Names(p, f), ~Hidden(f, root, p)
  PROVE  Reaches(p, f, root)
<1>1. CASE Decoded(p) = f
  BY <1>1 DEF Reaches
<1>2. CASE p = Clean(f) /\ Decoded(p) = p
  <2>1. CASE LastName(f) = index_html
    <3>1. p = DirPart(f)
      BY <1>2, <2>1 DEF Clean
    <3>2. DirPart(f)[Len(DirPart(f))] = "/"
      BY Split DEF IsFile
    <3> QED
      BY <1>2, <2>1, <3>1, <3>2 DEF Reaches, Last
  <2>2. CASE LastName(f) # index_html /\ IsSuffix(html_ext, f)
    <3>1. p = SubSeq(f, 1, Len(f) - 2)
      BY <1>2, <2>2 DEF Clean
    <3>2. f \in Seq(Token)
      BY DEF IsFile
    <3>3. f = p \o html_ext /\ Len(p) = Len(f) - 2 /\ Len(f) \in Nat
      BY <2>2, <3>1, <3>2, CutHtml
    <3>4. p # f
      BY <3>3
    <3>5. /\ p \notin root.files \cup root.dirs
          /\ LastName(p) # <<>> /\ LastName(p) # <<"index">> /\ ~IsSuffix(html_ext, p)
      BY <1>2, <2>2, <3>4 DEF Hidden
    <3>6. Last(p) # "/"
      BY <3>5, NoLastName DEF IsUri
    <3>7. UriPathBuild(p).code = 0
      BY <3>5, <3>6, NotRedirected DEF IsUri
    <3> QED
      BY <1>2, <3>3, <3>5, <3>6, <3>7 DEF Reaches
  <2>3. CASE LastName(f) # index_html /\ ~IsSuffix(html_ext, f)
    <3>1. Decoded(p) = f
      BY <1>2, <2>3 DEF Clean
    <3> QED
      BY <3>1 DEF Reaches
  <2> QED
    BY <2>1, <2>2, <2>3
<1> QED
  BY <1>1, <1>2 DEF Names

\* A redirect to a clean URL leads on to the file.
LEMMA RedirectReaches ==
  ASSUME NEW p, IsUri(p), NEW f, NEW root, IsFile(f, root), Reaches(p, f, root),
         UriPathBuild(p).code = 301
  PROVE  Reaches(UriPathBuild(p).path, f, root)
<1> DEFINE d == DirPart(p)
           q == UriPathBuild(p).path
<1>1. /\ p \in Seq(Token) /\ p # <<>> /\ p[1] = "/" /\ f \in Seq(Token) /\ f # <<>>
      /\ f[1] = "/"
  BY DEF IsUri, IsFile
<1>2. Last(p) # "/"
  BY UriPathBuildCodes
<1>3. Decoded(p) = f /\ ~Hidden(f, root, p)
  BY <1>2 DEF Reaches
<1>4. d \in Seq(Token) /\ d # <<>> /\ d[Len(d)] = "/" /\ p = d \o LastName(p)
  <2>1. /\ d \in Seq(Token) /\ Len(d) \in 1 .. Len(p) /\ d[Len(d)] = "/"
        /\ p = d \o LastName(p)
    BY <1>1, Split
  <2>2. d # <<>>
    BY <2>1, EmptySeq
  <2> QED
    BY <2>1, <2>2
<1>5. /\ Decoded(d) \in Seq(Token) /\ Decoded(d) # <<>>
      /\ Decoded(d)[Len(Decoded(d))] = "/"
  BY <1>4, DecodedSlash
<1> HIDE DEF d
<1>6. LastName(p) # <<"index">>
  <2> SUFFICES ASSUME LastName(p) = <<"index">> PROVE FALSE
    OBVIOUS
  <2>1. f = Decoded(d) \o <<"index">> /\ <<"index">> \in Seq(Token)
    BY <1>3, <1>4, DecodedWord
  <2>2. LastName(f) = <<"index">>
    BY <1>5, <2>1, SplitIndex
  <2>3. Last(f) = "index"
    BY <1>5, <2>1, LastOfConcat, WordEnds
  <2>4. ~IsSuffix(html_ext, f)
    BY <1>1, <2>3, HtmlSuffix DEF Last
  <2>5. LastName(f) # index_html
    BY <2>2, WordEnds
  <2>6. Clean(f) = f
    BY <2>4, <2>5 DEF Clean
  <2> QED
    BY <1>3, <2>2, <2>5, <2>6 DEF Hidden
<1>7. CASE LastName(p) = index_html
  <2>1. q = d
    BY <1>7, UriPathBuildCodes DEF d
  <2>2. f = Decoded(d) \o index_html /\ index_html \in Seq(Token)
    BY <1>3, <1>4, <1>7, DecodedWord
  <2>3. \A i \in 1 .. Len(index_html) : index_html[i] # "/"
    BY WordEnds
  <2>4. LastName(f) = index_html /\ DirPart(f) = Decoded(d)
    BY <1>5, <2>2, <2>3, SplitAt
  <2> QED
    BY <1>4, <2>1, <2>4 DEF Reaches, Last
<1>8. CASE LastName(p) # index_html
  <2> DEFINE g == Decoded(q)
  <2>1. IsSuffix(html_ext, p) /\ q = SubSeq(p, 1, Len(p) - 2)
    BY <1>6, <1>8, UriPathBuildCodes
  <2>2. q \in Seq(Token) /\ p = q \o html_ext
    BY <1>1, <2>1, CutHtml
  <2>3. q # <<>> /\ q[1] = "/"
    BY <1>1, RedirectShorter
  <2> HIDE DEF q
  <2>4. f = g \o html_ext /\ g \in Seq(Token)
    BY <1>3, <2>2, DecodedWord, DecodedIsRef
  <2> DEFINE qd == DirPart(q)
  <2>5. qd \in Seq(Token) /\ qd # <<>> /\ qd[Len(qd)] = "/" /\ q = qd \o LastName(q)
    <3>1. /\ qd \in Seq(Token) /\ Len(qd) \in 1 .. Len(q) /\ qd[Len(qd)] = "/"
          /\ q = qd \o LastName(q)
      BY <2>2, <2>3, Split
    <3>2. qd # <<>>
      BY <3>1, EmptySeq
    <3> QED
      BY <3>1, <3>2
  <2>6. Last(q) = "/" => Last(g) = "/"
    BY <2>2, <2>3, DecodedSlash DEF Last
  <2>7. IsSuffix(html_ext, q) => IsSuffix(html_ext, g) /\ Last(g) = "html"
    <3> SUFFICES ASSUME IsSuffix(html_ext, q)
                 PROVE  IsSuffix(html_ext, g) /\ Last(g) = "html"
      OBVIOUS
    <3> DEFINE r == SubSeq(q, 1, Len(q) - 2)
    <3>1. r \in Seq(Token) /\ q = r \o html_ext
      BY <2>2, CutHtml
    <3> HIDE DEF r
    <3>2. g = Decoded(r) \o html_ext /\ Decoded(r) \in Seq(Token)
      BY <3>1, DecodedWord, DecodedIsRef
    <3>3. html_ext \in Seq(Token) /\ html_ext # <<>> /\ html_ext[Len(html_ext)] = "html"
      BY Words, WordEnds
    <3> HIDE DEF g
    <3> QED
      BY <3>2, <3>3, AddHtml, LastOfConcat
  <2> HIDE DEF g, qd
  <2>8. CASE LastName(f) = index_html
    <3>1. LastName(p) # <<>>
      BY <1>1, <1>2, NoLastName
    <3>2. DirPart(f) \o <<"index">> \notin root.files \cup root.dirs
      BY <1>3, <1>8, <2>8, <3>1 DEF Hidden
    <3> DEFINE e == DirPart(f) \o <<"index">>
    <3>3. e \in Seq(Token) /\ f = e \o html_ext
      BY <1>1, <2>8, IndexHtmlEnds
    <3>4. g = e
      <4> HIDE DEF e
      <4>1. SubSeq(f, 1, Len(f) - 2) = e
        BY <3>3, AddHtml
      <4>2. SubSeq(f, 1, Len(f) - 2) = g
        BY <2>4, AddHtml
      <4> QED
        BY <4>1, <4>2
    <3>5. Last(g) = "index"
      <4>1. DirPart(f) \in Seq(Token) /\ <<"index">> \in Seq(Token)
        BY <1>1, Split, Words
      <4> QED
        BY <3>4, <4>1, LastOfConcat, WordEnds
    <3>6. Last(q) # "/" /\ ~IsSuffix(html_ext, q)
      BY <2>6, <2>7, <3>5
    <3>7. LastName(q) # <<"index">>
      <4> SUFFICES ASSUME LastName(q) = <<"index">> PROVE FALSE
        OBVIOUS
      <4>1. <<"index">> \in Seq(Token) /\ html_ext \in Seq(Token)
        BY Words
      <4>2. p = (qd \o <<"index">>) \o html_ext
        BY <2>2, <2>5
      <4>3. (qd \o <<"index">>) \o html_ext = qd \o (<<"index">> \o html_ext)
        <5>1. \A x, y, z \in Seq(Token) : (x \o y) \o z = x \o (y \o z)
          BY Regroup
        <5> QED
          BY <2>5, <4>1, <5>1
      <4>4. p = qd \o index_html
        BY <4>2, <4>3, WordEnds
      <4>5. index_html \in Seq(Token) /\ \A i \in 1 .. Len(index_html) : index_html[i] # "/"
        BY Words, WordEnds
      <4>6. LastName(p) = index_html
        BY <2>5, <4>4, <4>5, SplitAt
      <4> QED
        BY <1>8, <4>6
    <3>8. UriPathBuild(q).code = 0
      BY <2>2, <2>3, <3>6, <3>7, NotRedirected
    <3>9. Last(g) # "/" /\ g \notin root.files \cup root.dirs
      BY <3>2, <3>4, <3>5
    <3> QED
      BY <2>4, <3>8, <3>9 DEF Reaches, g, q
  <2>9. CASE LastName(f) # index_html
    <3>1. Clean(f) = g
      <4>1. IsSuffix(html_ext, f) /\ SubSeq(f, 1, Len(f) - 2) = g
        BY <2>4, AddHtml
      <4> QED
        BY <2>9, <4>1 DEF Clean
    <3>2. g # f
      <4>1. Len(f) = Len(g) + 2 /\ Len(g) \in Nat
        BY <2>4, AddHtml
      <4> QED
        BY <4>1
    <3>3. /\ g \notin root.files \cup root.dirs
          /\ LastName(g) # <<>> /\ LastName(g) # <<"index">> /\ ~IsSuffix(html_ext, g)
      BY <1>3, <2>9, <3>1, <3>2 DEF Hidden
    <3>4. g # <<>>
      <4> SUFFICES ASSUME g = <<>> PROVE FALSE
        OBVIOUS
      <4>1. html_ext \in Seq(Token) /\ html_ext[1] = "."
        BY Words
      <4>2. f = html_ext
        BY <2>4, <4>1, ConcatEmptySeq
      <4> QED
        BY <1>1, <4>1, <4>2
    <3>5. Last(g) # "/"
      BY <2>4, <3>3, <3>4, NoLastName
    <3>6. Last(q) # "/" /\ ~IsSuffix(html_ext, q)
      BY <2>6, <2>7, <3>3, <3>5
    <3>7. LastName(q) # <<"index">>
      <4> SUFFICES ASSUME LastName(q) = <<"index">> PROVE FALSE
        OBVIOUS
      <4>1. g = Decoded(qd) \o <<"index">>
        BY <2>5, DecodedWord DEF g
      <4>2. /\ Decoded(qd) \in Seq(Token) /\ Decoded(qd) # <<>>
            /\ Decoded(qd)[Len(Decoded(qd))] = "/"
        BY <2>5, DecodedSlash
      <4>3. LastName(g) = <<"index">>
        BY <4>1, <4>2, SplitIndex
      <4> QED
        BY <3>3, <4>3
    <3>8. UriPathBuild(q).code = 0
      BY <2>2, <2>3, <3>6, <3>7, NotRedirected
    <3> QED
      BY <2>4, <3>3, <3>5, <3>8 DEF Reaches, g, q
  <2> QED
    BY <2>8, <2>9
<1> QED
  BY <1>7, <1>8

\* stat() of a file.
LEMMA StatFile ==
  ASSUME NEW f, NEW root, IsFile(f, root)
  PROVE  Stat(root, f)
BY DEF IsFile, Stat

\* _path_build takes the first of two candidates that is there, or the only one.
LEMMA FirstOfTwo ==
  ASSUME NEW root, NEW p
  PROVE  /\ Stat(root, p) => PathBuild(root, p, FALSE) = p
         /\ ~Stat(root, p) /\ Stat(root, p \o html_ext) =>
              PathBuild(root, p, FALSE) = p \o html_ext
<1> DEFINE c == <<p, p \o html_ext>>
           I == {i \in 1 .. Len(c) : Stat(root, c[i])}
           found == IF I # {} THEN Min(I) ELSE 0
           served == PathBuild(root, p, FALSE)
<1>1. Len(c) = 2 /\ c[1] = p /\ c[2] = p \o html_ext
  OBVIOUS
<1>2. served = IF found = 0 THEN <<>> ELSE c[found]
  BY DEF PathBuild, SelectInSeq
<1> HIDE DEF c, served
<1>3. /\ I \in SUBSET (1 .. 2)
      /\ (1 \in I <=> Stat(root, p)) /\ (2 \in I <=> Stat(root, p \o html_ext))
  <2>1. I \in SUBSET (1 .. 2) /\ \A i \in 1 .. 2 : i \in I <=> Stat(root, c[i])
    BY <1>1
  <2>2. 1 \in 1 .. 2 /\ 2 \in 1 .. 2
    OBVIOUS
  <2> HIDE DEF I
  <2> QED
    BY <1>1, <2>1, <2>2
<1> HIDE DEF I
<1>4. I # {} => Min(I) \in I /\ \A i \in I : Min(I) <= i
  BY <1>3, FirstPosition
<1>5. ASSUME Stat(root, p)
      PROVE  served = p
  <2>1. found = 1
    <3>1. 1 \in I /\ Min(I) \in 1 .. 2 /\ Min(I) <= 1
      BY <1>3, <1>4, <1>5
    <3> QED
      BY <3>1
  <2> HIDE DEF found
  <2> QED
    BY <1>1, <1>2, <2>1
<1>6. ASSUME ~Stat(root, p), Stat(root, p \o html_ext)
      PROVE  served = p \o html_ext
  <2>1. found = 2
    <3>1. 2 \in I /\ 1 \notin I /\ Min(I) \in I /\ Min(I) \in 1 .. 2
      BY <1>3, <1>4, <1>6
    <3> QED
      BY <3>1
  <2> HIDE DEF found
  <2> QED
    BY <1>1, <1>2, <2>1
<1> QED
  BY <1>5, <1>6 DEF served

\* In a directory _path_build takes its index.html.
LEMMA IndexOfDirectory ==
  ASSUME NEW root, NEW p, NEW code, code = 1, Stat(root, p), Stat(root, p \o index_html)
  PROVE  PathBuild(root, p, code = 1) = p \o index_html
<1> DEFINE c == <<p \o index_html>>
           I == {i \in 1 .. Len(c) : Stat(root, c[i])}
<1>1. Len(c) = 1 /\ c[1] = p \o index_html
  OBVIOUS
<1>2. PathBuild(root, p, code = 1) =
        IF (IF I # {} THEN Min(I) ELSE 0) = 0 THEN <<>> ELSE c[IF I # {} THEN Min(I) ELSE 0]
  BY DEF PathBuild, SelectInSeq
<1> HIDE DEF c
<1>3. I \in SUBSET (1 .. 1) /\ 1 \in I
  <2>1. I \in SUBSET (1 .. 1) /\ \A i \in 1 .. 1 : i \in I <=> Stat(root, c[i])
    BY <1>1
  <2>2. 1 \in 1 .. 1
    OBVIOUS
  <2> HIDE DEF I
  <2> QED
    BY <1>1, <2>1, <2>2
<1> HIDE DEF I
<1>4. Min(I) \in I
  BY <1>3, FirstPosition
<1>5. I # {} /\ Min(I) = 1
  <2>1. Min(I) \in 1 .. 1
    BY <1>3, <1>4
  <2> QED
    BY <1>3, <2>1
<1> QED
  BY <1>1, <1>2, <1>5

\* A path that leads to a file and is not redirected is answered with it.
LEMMA ReachedServed ==
  ASSUME NEW p, IsUri(p), NEW f, NEW root, IsFile(f, root), Reaches(p, f, root),
         NEW code, code = UriPathBuild(p).code, code # 301
  PROVE  PathBuild(root, Decoded(p), code = 1) = f
<1>1. code \in {0, 1} /\ (code = 1 <=> Last(p) = "/")
  BY UriPathBuildCodes
<1>2. /\ p \in Seq(Token) /\ p # <<>> /\ f \in Seq(Token) /\ f # <<>> /\ f[1] = "/"
      /\ Last(f) # "/" /\ Stat(root, f)
  BY StatFile DEF IsUri, IsFile
<1>3. CASE Decoded(p) = f /\ ~Hidden(f, root, p)
  <2>1. code # 1
    BY <1>1, <1>2, <1>3, DecodedSlash DEF Last
  <2>2. PathBuild(root, Decoded(p), code = 1) = PathBuild(root, Decoded(p), FALSE)
    BY <2>1
  <2> QED
    BY <1>2, <1>3, <2>2, FirstOfTwo
<1>4. CASE Last(p) = "/" /\ LastName(f) = index_html /\ Decoded(p) = DirPart(f)
  <2> DEFINE d == DirPart(f)
  <2>1. f = d \o index_html /\ d[Len(d)] = "/"
    BY <1>2, <1>4, Split
  <2>2. Front(d) \in root.dirs
    BY DEF IsFile
  <2> HIDE DEF d
  <2>3. Stat(root, d)
    BY <2>1, <2>2 DEF Stat, Last
  <2>4. PathBuild(root, d, code = 1) = d \o index_html
    BY <1>1, <1>2, <1>4, <2>1, <2>3, IndexOfDirectory
  <2> QED
    BY <1>4, <2>1, <2>4 DEF d
<1>5. CASE /\ UriPathBuild(p).code = 0 /\ f = Decoded(p) \o html_ext
           /\ Last(Decoded(p)) # "/" /\ Decoded(p) \notin root.files \cup root.dirs
  <2>1. ~Stat(root, Decoded(p))
    BY <1>5 DEF Stat
  <2>2. PathBuild(root, Decoded(p), code = 1) = PathBuild(root, Decoded(p), FALSE)
    <3>1. code # 1
      BY <1>5
    <3> QED
      BY <3>1
  <2>3. Stat(root, Decoded(p) \o html_ext)
    BY <1>2, <1>5
  <2>4. PathBuild(root, Decoded(p), code = 1) = Decoded(p) \o html_ext
    BY <2>1, <2>2, <2>3, FirstOfTwo
  <2> QED
    BY <1>5, <2>4
<1> QED
  BY <1>3, <1>4, <1>5 DEF Reaches

\* While a request is under way its path leads to every file that the URL the client
\* began with names; once it is answered, the answer is that file.
CleanInv ==
  /\ pc = "asked" =>
       \A sub \in DOMAIN setup.fs : \A f \in setup.fs[sub].files :
         Names(PathOf(first.uri), f) /\ ~Hidden(f, setup.fs[sub], PathOf(first.uri)) =>
           Reaches(PathOf(uri), f, setup.fs[sub])
  /\ CleanUrls

\* The web root of a site that exists has files, that of another none.
LEMMA RootFiles ==
  ASSUME TypeInv, NEW sub
  PROVE  /\ sub \in DOMAIN setup.fs =>
              /\ WebRoot(sub) = setup.fs[sub]
              /\ \A f \in setup.fs[sub].files : IsFile(f, setup.fs[sub])
         /\ sub \notin DOMAIN setup.fs => WebRoot(sub).files = {}
<1>1. setup \in Setups
  BY DEF TypeInv
<1> QED
  BY <1>1, SetupsType DEF WebRoot, IsFile

\* Every step keeps to the file.
LEMMA CleanStep == TypeInv /\ CleanInv /\ [Next]_vars => CleanInv'
<1> SUFFICES ASSUME TypeInv, CleanInv, [Next]_vars PROVE CleanInv'
  OBVIOUS
<1>0. IsUri(PathOf(uri)) /\ \A i \in 1 .. Len(PathOf(uri)) : PathOf(uri)[i] # "?"
  BY PathOfUri DEF TypeInv, IsUri
<1>1. CASE ConfRead
  BY <1>1 DEF ConfRead, CleanInv, CleanUrls
<1>2. CASE Ask
  <2>1. pc' = "asked" /\ first'.uri = uri' /\ uri' \in Uris /\ setup' = setup
    BY <1>2 DEF Ask
  <2>2. IsUri(PathOf(uri'))
    <3>1. uri' \in Seq(Token) /\ uri' # <<>> /\ Head(uri') = "/"
      BY <2>1, ConstantsType
    <3>2. uri'[1] = "/"
      BY <3>1
    <3> QED
      BY <3>1, <3>2, PathOfUri DEF IsUri
  <2>3. \A sub \in DOMAIN setup.fs : \A f \in setup.fs[sub].files : IsFile(f, setup.fs[sub])
    BY RootFiles
  <2>4. \A sub \in DOMAIN setup.fs : \A f \in setup.fs[sub].files :
          Names(PathOf(uri'), f) /\ ~Hidden(f, setup.fs[sub], PathOf(uri')) =>
            Reaches(PathOf(uri'), f, setup.fs[sub])
    BY <2>2, <2>3, NamesReach
  <2> QED
    BY <2>1, <2>4 DEF CleanInv, CleanUrls
<1>3. CASE Redir80
  BY <1>3 DEF Redir80, Follow, CleanInv, CleanUrls
<1>4. CASE PathRedir
  <2> DEFINE p == PathOf(uri)
             t == UriPathBuild(p).path
  <2>1. /\ pc = "asked" /\ pc' = "asked" /\ uri' = t /\ UriPathBuild(p).code = 301
        /\ first' = first /\ setup' = setup
    BY <1>4 DEF PathRedir, Follow
  <2>2. PathOf(t) = t
    <3>1. t \in Seq(Token) /\ Len(t) < Len(p) /\ \A i \in 1 .. Len(t) : t[i] = p[i]
      BY <1>0, <2>1, RedirectShorter DEF IsUri
    <3>2. \A i \in 1 .. Len(t) : i \in 1 .. Len(p)
      BY <1>0, <3>1 DEF IsUri
    <3> HIDE DEF p, t
    <3>3. \A i \in 1 .. Len(t) : t[i] # "?"
      BY <1>0, <3>1, <3>2 DEF p
    <3> QED
      BY <3>1, <3>3, PathOfPath
  <2>3. \A sub \in DOMAIN setup.fs : \A f \in setup.fs[sub].files : IsFile(f, setup.fs[sub])
    BY RootFiles
  <2>4. \A sub \in DOMAIN setup.fs : \A f \in setup.fs[sub].files :
          Reaches(p, f, setup.fs[sub]) => Reaches(t, f, setup.fs[sub])
    BY <1>0, <2>1, <2>3, RedirectReaches
  <2> HIDE DEF t
  <2> QED
    BY <2>1, <2>2, <2>4 DEF CleanInv, CleanUrls
<1>5. CASE Answer
  <2> DEFINE p == PathOf(uri)
             site == Subdomain(Lower(host))
             code == UriPathBuild(p).code
  <2>1. /\ pc = "asked" /\ pc' = "done" /\ first' = first /\ setup' = setup
        /\ code # 301
        /\ answer'.site = site
        /\ answer'.file = PathBuild(WebRoot(site), Decoded(p), code = 1)
    BY <1>5 DEF Answer
  <2>2. WebRoot(answer.site)' = WebRoot(site)
    BY <2>1 DEF WebRoot
  <2>3. ASSUME NEW f \in WebRoot(site).files,
               Names(PathOf(first.uri), f), ~Hidden(f, WebRoot(site), PathOf(first.uri))
        PROVE  answer'.file = f
    <3>1. /\ site \in DOMAIN setup.fs /\ WebRoot(site) = setup.fs[site]
          /\ IsFile(f, WebRoot(site))
      BY RootFiles
    <3>2. Reaches(p, f, WebRoot(site))
      BY <2>1, <2>3, <3>1 DEF CleanInv
    <3> HIDE DEF p, site
    <3>3. PathBuild(WebRoot(site), Decoded(p), code = 1) = f
      BY <1>0, <2>1, <3>1, <3>2, ReachedServed DEF p
    <3> QED
      BY <2>1, <3>3
  <2> HIDE DEF p, site, code
  <2> QED
    BY <2>1, <2>2, <2>3 DEF CleanInv, CleanUrls
<1>6. CASE Leave
  BY <1>6 DEF Leave, CleanInv, CleanUrls
<1>7. CASE UNCHANGED vars
  BY <1>7 DEF vars, CleanInv, CleanUrls, WebRoot
<1> QED
  BY <1>1, <1>2, <1>3, <1>4, <1>5, <1>6, <1>7 DEF Next, Serve

\* A file is found under its own name, in any encoding, and under its clean name, on
\* either port and through every redirect, unless the clean URLs take that name away.
THEOREM FilesFound == Spec => []CleanUrls
<1>1. Init => CleanInv
  BY DEF Init, CleanInv, CleanUrls
<1>2. CleanInv => CleanUrls
  BY DEF CleanInv
<1> QED
  BY <1>1, <1>2, TypeInit, TypeStep, CleanStep, PTL DEF Spec

==============================================================================
