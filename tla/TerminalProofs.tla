---------------------------- MODULE TerminalProofs ----------------------------
(***************************************************************************)
(* What a terminal does with the bytes of a host, proved for any bytes, any *)
(* number of them and any limits: the printer is given every byte but the   *)
(* exit sequence (PrinterMode), the account of the memory that Kitty images *)
(* take is right (KittyStore), UTF-8 is decoded as RFC 3629 has it (Utf8),  *)
(* nothing is used that was freed, whatever allocation fails (Lifecycle),   *)
(* and hosts are answered in order and not left paused (Responses).  The    *)
(* components share no variable: each has its own invariant and its own     *)
(* proof, one after the other.                                              *)
(***************************************************************************)
EXTENDS PrinterMode, KittyStore, Utf8, Lifecycle, Responses, SequenceTheorems,
        FiniteSetTheorems, WellFoundedInduction, TLAPS

-------------------------------------------------------------------------------
(* The printer: PrinterMode *)

\* What a host can send, the bytes of the exit sequences included.
Symbols == Bytes \union {"ESC", "[", "4", "i", "CSI"}
Strings == Seq(Symbols)

\* Beginnings of an exit sequence, and those that are not yet one.
Begun == {x \in Strings : \E e \in Exits : IsPrefix(x, e)}
Open == Begun \ Exits

\* While the mode is on, the window holds the longest end of the input that may
\* still become an exit sequence, and the printer has what came before it.
PrinterInvariant ==
    /\ enabled \in BOOLEAN
    /\ {printed, buffer, received} \subseteq Strings
    /\ enabled =>
          /\ buffer \in Open /\ printed \o buffer = received
          /\ \A x \in Open : IsSuffix(x, received) => Len(x) <= Len(buffer)
          /\ \A e \in Exits : ~IsSuffix(e, received)
    /\ ~enabled =>
          /\ buffer = << >>
          /\ received = << >> \/ \E e \in Exits : received = printed \o e

-------------------------------------------------------------------------------
(* Strings *)

LEMMA SameString ==
    ASSUME NEW x \in Strings, NEW y \in Strings, Len(x) = Len(y),
           \A i \in 1 .. Len(x) : x[i] = y[i]
    PROVE  x = y
BY DEF Strings

LEMMA PrefixFacts ==
    ASSUME NEW x \in Strings, NEW y \in Strings
    PROVE  IsPrefix(x, y) <=> Len(x) <= Len(y) /\ \A i \in 1 .. Len(x) : x[i] = y[i]
<1>1. ASSUME IsPrefix(x, y)
      PROVE  Len(x) <= Len(y) /\ \A i \in 1 .. Len(x) : x[i] = y[i]
  <2>1. Len(x) <= Len(y) /\ SubSeq(x, 1, Len(x)) = SubSeq(y, 1, Len(x))
    BY <1>1 DEF IsPrefix
  <2>2. ASSUME NEW i \in 1 .. Len(x) PROVE x[i] = y[i]
    <3>1. SubSeq(x, 1, Len(x))[i] = x[i] /\ SubSeq(y, 1, Len(x))[i] = y[i]
      BY <2>1 DEF Strings
    <3> QED  BY <2>1, <3>1
  <2> QED  BY <2>1, <2>2
<1>2. ASSUME Len(x) <= Len(y), \A i \in 1 .. Len(x) : x[i] = y[i]
      PROVE  IsPrefix(x, y)
  <2>1. SubSeq(x, 1, Len(x)) \in Strings /\ SubSeq(y, 1, Len(x)) \in Strings
    BY <1>2 DEF Strings
  <2>2. /\ Len(SubSeq(x, 1, Len(x))) = Len(x) /\ Len(SubSeq(y, 1, Len(x))) = Len(x)
        /\ \A i \in 1 .. Len(x) :
              SubSeq(x, 1, Len(x))[i] = x[i] /\ SubSeq(y, 1, Len(x))[i] = y[i]
    BY <1>2 DEF Strings
  <2> QED  BY <1>2, <2>1, <2>2, SameString DEF IsPrefix
<1> QED  BY <1>1, <1>2

\* An end of a string, byte by byte.
LEMMA SuffixFacts ==
    ASSUME NEW x \in Strings, NEW y \in Strings
    PROVE  IsSuffix(x, y) <=>
              /\ Len(x) <= Len(y)
              /\ \A i \in 0 .. Len(x) - 1 : x[Len(x) - i] = y[Len(y) - i]
<1> DEFINE r == Reverse(x)
           s == Reverse(y)
<1>1. Len(x) \in Nat /\ Len(y) \in Nat
  BY DEF Strings
<1>2. /\ r \in Strings /\ Len(r) = Len(x) /\ s \in Strings /\ Len(s) = Len(y)
      /\ \A i \in 1 .. Len(x) : r[i] = x[(Len(x) - i) + 1]
      /\ \A i \in 1 .. Len(y) : s[i] = y[(Len(y) - i) + 1]
  BY DEF Strings, Reverse
<1> HIDE DEF r, s
<1>3. IsPrefix(r, s) <=> Len(x) <= Len(y) /\ \A i \in 1 .. Len(x) : r[i] = s[i]
  BY <1>2, PrefixFacts
<1>4. ASSUME Len(x) <= Len(y)
      PROVE  (\A i \in 1 .. Len(x) : r[i] = s[i])
                <=> \A i \in 0 .. Len(x) - 1 : x[Len(x) - i] = y[Len(y) - i]
  <2>1. ASSUME \A i \in 1 .. Len(x) : r[i] = s[i], NEW i \in 0 .. Len(x) - 1
        PROVE  x[Len(x) - i] = y[Len(y) - i]
    <3>1. /\ i + 1 \in 1 .. Len(x) /\ i + 1 \in 1 .. Len(y)
          /\ (Len(x) - (i + 1)) + 1 = Len(x) - i /\ (Len(y) - (i + 1)) + 1 = Len(y) - i
      BY <1>1, <1>4
    <3>2. r[i + 1] = s[i + 1]
      BY <2>1, <3>1
    <3> QED  BY <1>2, <3>1, <3>2
  <2>2. ASSUME \A i \in 0 .. Len(x) - 1 : x[Len(x) - i] = y[Len(y) - i],
               NEW i \in 1 .. Len(x)
        PROVE  r[i] = s[i]
    <3>1. /\ i - 1 \in 0 .. Len(x) - 1 /\ i \in 1 .. Len(y)
          /\ (Len(x) - i) + 1 = Len(x) - (i - 1) /\ (Len(y) - i) + 1 = Len(y) - (i - 1)
      BY <1>1, <1>4
    <3>2. x[Len(x) - (i - 1)] = y[Len(y) - (i - 1)]
      BY <2>2, <3>1
    <3> QED  BY <1>2, <3>1, <3>2
  <2> QED  BY <2>1, <2>2
<1> QED  BY <1>3, <1>4 DEF IsSuffix, r, s

\* Of two ends of a string the shorter is an end of the longer.
LEMMA SuffixesNest ==
    ASSUME NEW x \in Strings, NEW y \in Strings, NEW z \in Strings,
           IsSuffix(x, z), IsSuffix(y, z), Len(x) <= Len(y)
    PROVE  IsSuffix(x, y)
<1>1. Len(x) \in Nat /\ Len(y) \in Nat /\ Len(z) \in Nat
  BY DEF Strings
<1>2. /\ \A i \in 0 .. Len(x) - 1 : x[Len(x) - i] = z[Len(z) - i]
      /\ \A i \in 0 .. Len(y) - 1 : y[Len(y) - i] = z[Len(z) - i]
  BY SuffixFacts
<1>3. \A i \in 0 .. Len(x) - 1 : i \in 0 .. Len(y) - 1
  BY <1>1
<1> QED  BY <1>2, <1>3, SuffixFacts

\* Two strings in a row.
LEMMA JoinFacts ==
    ASSUME NEW x \in Strings, NEW y \in Strings
    PROVE  /\ x \o y \in Strings /\ Len(x) \in Nat /\ Len(y) \in Nat
           /\ Len(x \o y) = Len(x) + Len(y)
           /\ \A i \in 1 .. Len(x) : (x \o y)[i] = x[i]
           /\ \A i \in 1 .. Len(y) : (x \o y)[Len(x) + i] = y[i]
<1>1. x \o y \in Strings /\ Len(x) \in Nat /\ Len(y) \in Nat
  BY DEF Strings
<1>2. Len(x \o y) = Len(x) + Len(y)
  BY DEF Strings
<1>3. \A i \in 1 .. Len(x) : (x \o y)[i] = x[i]
  BY DEF Strings
<1>4. \A i \in 1 .. Len(y) : (x \o y)[Len(x) + i] = y[i]
  BY DEF Strings
<1> QED  BY <1>1, <1>2, <1>3, <1>4

LEMMA JoinsGroup ==
    ASSUME NEW x \in Strings, NEW y \in Strings, NEW z \in Strings
    PROVE  (x \o y) \o z = x \o (y \o z)
<1> DEFINE l == (x \o y) \o z
           r == x \o (y \o z)
           a == Len(x)
           b == Len(y)
           d == Len(z)
<1>1. /\ x \o y \in Strings /\ y \o z \in Strings
      /\ Len(x \o y) = a + b /\ Len(y \o z) = b + d
      /\ a \in Nat /\ b \in Nat /\ d \in Nat
  BY JoinFacts
<1>2. /\ l \in Strings /\ Len(l) = (a + b) + d
      /\ \A i \in 1 .. a + b : l[i] = (x \o y)[i]
      /\ \A i \in 1 .. d : l[(a + b) + i] = z[i]
  <2>1. ASSUME NEW w \in Strings, Len(w) = a + b
        PROVE  /\ w \o z \in Strings /\ Len(w \o z) = (a + b) + d
               /\ \A i \in 1 .. a + b : (w \o z)[i] = w[i]
               /\ \A i \in 1 .. d : (w \o z)[(a + b) + i] = z[i]
    <3>1. /\ w \o z \in Strings /\ Len(w \o z) = Len(w) + d
          /\ \A i \in 1 .. Len(w) : (w \o z)[i] = w[i]
          /\ \A i \in 1 .. d : (w \o z)[Len(w) + i] = z[i]
      BY JoinFacts
    <3> HIDE DEF a, b, d
    <3> QED  BY ONLY <2>1, <3>1, Zenon
  <2> QED  BY <1>1, <2>1, Zenon
<1>3. /\ r \in Strings /\ Len(r) = a + (b + d)
      /\ \A i \in 1 .. a : r[i] = x[i]
      /\ \A i \in 1 .. b + d : r[a + i] = (y \o z)[i]
  <2>1. ASSUME NEW w \in Strings, Len(w) = b + d
        PROVE  /\ x \o w \in Strings /\ Len(x \o w) = a + (b + d)
               /\ \A i \in 1 .. a : (x \o w)[i] = x[i]
               /\ \A i \in 1 .. b + d : (x \o w)[a + i] = w[i]
    <3>1. /\ x \o w \in Strings /\ Len(x \o w) = a + Len(w)
          /\ \A i \in 1 .. a : (x \o w)[i] = x[i]
          /\ \A i \in 1 .. Len(w) : (x \o w)[a + i] = w[i]
      BY JoinFacts
    <3> HIDE DEF a, b, d
    <3> QED  BY ONLY <2>1, <3>1, Zenon
  <2> QED  BY <1>1, <2>1, Zenon
<1>4. /\ \A i \in 1 .. a : (x \o y)[i] = x[i]
      /\ \A i \in 1 .. b : (x \o y)[a + i] = y[i]
      /\ \A i \in 1 .. b : (y \o z)[i] = y[i]
      /\ \A i \in 1 .. d : (y \o z)[b + i] = z[i]
  BY JoinFacts
<1> HIDE DEF l, r, a, b, d
<1>5. ASSUME NEW i \in 1 .. (a + b) + d PROVE l[i] = r[i]
  <2>1. CASE i <= a
    <3>1. i \in 1 .. a /\ i \in 1 .. a + b
      BY <1>1, <2>1
    <3> QED  BY <1>2, <1>3, <1>4, <3>1
  <2>2. CASE a < i /\ i <= a + b
    <3>1. PICK j \in 1 .. b : i = a + j
      <4>1. i - a \in 1 .. b /\ i = a + (i - a)
        BY <1>1, <2>2
      <4> QED  BY <4>1
    <3>2. i \in 1 .. a + b /\ j \in 1 .. b + d
      BY <1>1, <2>2, <3>1
    <3>3. l[i] = (x \o y)[i] /\ r[a + j] = (y \o z)[j]
      BY <1>2, <1>3, <3>2
    <3>4. (x \o y)[a + j] = y[j] /\ (y \o z)[j] = y[j]
      BY <1>4
    <3> QED  BY ONLY <3>1, <3>3, <3>4, Zenon
  <2>3. CASE a + b < i
    <3>1. PICK j \in 1 .. d : i = (a + b) + j
      <4>1. i - (a + b) \in 1 .. d /\ i = (a + b) + (i - (a + b))
        BY <1>1, <2>3
      <4> QED  BY <4>1
    <3>2. b + j \in 1 .. b + d /\ i = a + (b + j)
      BY <1>1, <3>1
    <3>3. l[(a + b) + j] = z[j] /\ r[a + (b + j)] = (y \o z)[b + j]
      BY <1>2, <1>3, <3>2
    <3>4. (y \o z)[b + j] = z[j]
      BY <1>4
    <3> QED  BY ONLY <3>1, <3>2, <3>3, <3>4, Zenon
  <2> QED  BY <1>1, <2>1, <2>2, <2>3
<1>6. (a + b) + d = a + (b + d)
  BY <1>1
<1>7. l = r
  BY <1>2, <1>3, <1>5, <1>6, SameString
<1> QED  BY <1>7 DEF l, r

\* The second of two strings is an end of both together.
LEMMA JoinSuffix ==
    ASSUME NEW x \in Strings, NEW y \in Strings
    PROVE  IsSuffix(y, x \o y)
<1> DEFINE z == x \o y
<1>1. /\ Len(x) \in Nat /\ Len(y) \in Nat /\ z \in Strings
      /\ Len(z) = Len(x) + Len(y) /\ \A i \in 1 .. Len(y) : z[Len(x) + i] = y[i]
  BY JoinFacts
<1> HIDE DEF z
<1>2. ASSUME NEW i \in 0 .. Len(y) - 1 PROVE y[Len(y) - i] = z[Len(z) - i]
  <2>1. Len(y) - i \in 1 .. Len(y) /\ Len(x) + (Len(y) - i) = Len(z) - i
    BY <1>1
  <2> QED  BY <1>1, <2>1
<1>3. Len(y) <= Len(z)
  BY <1>1
<1> QED  BY <1>1, <1>2, <1>3, SuffixFacts DEF z

\* One more byte.
LEMMA AppendFacts ==
    ASSUME NEW y \in Strings, NEW c \in Symbols
    PROVE  /\ Append(y, c) \in Strings /\ Len(Append(y, c)) = Len(y) + 1
           /\ Append(y, c)[Len(y) + 1] = c
           /\ \A i \in 1 .. Len(y) : Append(y, c)[i] = y[i]
BY DEF Strings

LEMMA FrontFacts ==
    ASSUME NEW x \in Strings, x # << >>
    PROVE  /\ Front(x) \in Strings /\ Len(Front(x)) = Len(x) - 1 /\ Len(x) \in Nat \ {0}
           /\ \A i \in 1 .. Len(x) - 1 : Front(x)[i] = x[i]
<1>1. Len(x) \in Nat \ {0}
  BY DEF Strings
<1> DEFINE n == Len(x) - 1
<1>2. n \in Nat /\ n <= Len(x)
  BY <1>1
<1> HIDE DEF n
<1>3. /\ SubSeq(x, 1, n) \in Strings /\ Len(SubSeq(x, 1, n)) = n
      /\ \A i \in 1 .. n : SubSeq(x, 1, n)[i] = x[i]
  BY <1>2 DEF Strings
<1> QED  BY <1>1, <1>3 DEF Front, n

\* The ends of a string with one more byte are the ends of the string with that
\* byte.
LEMMA AppendSuffix ==
    ASSUME NEW x \in Strings, x # << >>, NEW y \in Strings, NEW c \in Symbols
    PROVE  IsSuffix(x, Append(y, c)) <=> IsSuffix(Front(x), y) /\ x[Len(x)] = c
<1> DEFINE f == Front(x)
           z == Append(y, c)
           k == Len(x)
           l == Len(y)
<1>1. /\ f \in Strings /\ Len(f) = k - 1 /\ k \in Nat \ {0}
      /\ \A i \in 1 .. k - 1 : f[i] = x[i]
  BY FrontFacts
<1>2. /\ z \in Strings /\ Len(z) = l + 1 /\ z[l + 1] = c
      /\ \A i \in 1 .. l : z[i] = y[i]
  BY AppendFacts
<1>3. l \in Nat
  BY DEF Strings
<1>4. IsSuffix(x, z) <=> k <= Len(z) /\ \A i \in 0 .. k - 1 : x[k - i] = z[Len(z) - i]
  BY <1>2, SuffixFacts
<1>5. IsSuffix(f, y) <=> Len(f) <= l /\ \A i \in 0 .. Len(f) - 1 : f[Len(f) - i] = y[l - i]
  BY <1>1, SuffixFacts
<1> HIDE DEF f, z, k, l
<1>6. ASSUME IsSuffix(x, z) PROVE IsSuffix(f, y) /\ x[k] = c
  <2>1. k <= l + 1 /\ \A i \in 0 .. k - 1 : x[k - i] = z[(l + 1) - i]
    BY <1>2, <1>4, <1>6
  <2>2. 0 \in 0 .. k - 1 /\ k - 0 = k /\ (l + 1) - 0 = l + 1
    BY <1>1, <1>3
  <2>3. x[k] = c
    BY <1>2, <2>1, <2>2
  <2>4. ASSUME NEW i \in 0 .. Len(f) - 1 PROVE f[Len(f) - i] = y[l - i]
    <3>1. /\ i + 1 \in 0 .. k - 1 /\ k - (i + 1) = Len(f) - i
          /\ (l + 1) - (i + 1) = l - i /\ l - i \in 1 .. l /\ Len(f) - i \in 1 .. k - 1
      BY <1>1, <1>3, <2>1
    <3>2. x[k - (i + 1)] = z[(l + 1) - (i + 1)]
      BY <2>1, <3>1
    <3> QED  BY <1>1, <1>2, <3>1, <3>2
  <2>5. Len(f) <= l
    BY <1>1, <1>3, <2>1
  <2> QED  BY <1>5, <2>3, <2>4, <2>5
<1>7. ASSUME IsSuffix(f, y), x[k] = c PROVE IsSuffix(x, z)
  <2>1. Len(f) <= l /\ \A i \in 0 .. Len(f) - 1 : f[Len(f) - i] = y[l - i]
    BY <1>5, <1>7
  <2>2. ASSUME NEW i \in 0 .. k - 1 PROVE x[k - i] = z[Len(z) - i]
    <3>1. CASE i = 0
      <4>1. k - i = k /\ Len(z) - i = l + 1
        BY <1>1, <1>2, <1>3, <3>1
      <4> QED  BY <1>2, <1>7, <4>1
    <3>2. CASE i # 0
      <4>1. /\ i - 1 \in 0 .. Len(f) - 1 /\ Len(f) - (i - 1) = k - i
            /\ l - (i - 1) = Len(z) - i /\ l - (i - 1) \in 1 .. l /\ k - i \in 1 .. k - 1
        BY <1>1, <1>2, <1>3, <2>1, <3>2
      <4>2. f[Len(f) - (i - 1)] = y[l - (i - 1)]
        BY <2>1, <4>1
      <4> QED  BY <1>1, <1>2, <4>1, <4>2
    <3> QED  BY <3>1, <3>2
  <2>3. k <= Len(z)
    BY <1>1, <1>2, <1>3, <2>1
  <2> QED  BY <1>4, <2>2, <2>3
<1> QED  BY <1>6, <1>7 DEF f, z, k

-------------------------------------------------------------------------------
(* Exit sequences *)

LEMMA ExitFacts ==
    ASSUME NEW e \in Exits
    PROVE  /\ e \in Strings /\ (Len(e) = 3 \/ Len(e) = 4)
           /\ Len(e) = 4 => e = <<"ESC", "[", "4", "i">> /\ e[1] = "ESC" /\ e[2] = "["
           /\ Len(e) = 3 => e = <<"CSI", "4", "i">> /\ e[1] = "CSI"
<1>1. CASE e = <<"ESC", "[", "4", "i">>
  BY <1>1 DEF Strings, Symbols
<1>2. CASE e = <<"CSI", "4", "i">>
  BY <1>2 DEF Strings, Symbols
<1> QED  BY <1>1, <1>2 DEF Exits

\* What is not yet an exit sequence has no room for one.
LEMMA OpenShort ==
    ASSUME NEW x \in Open
    PROVE  x \in Strings /\ Len(x) \in 0 .. 3
<1>1. PICK e \in Exits : IsPrefix(x, e)
  BY DEF Open, Begun
<1>2. x \in Strings /\ e \in Strings /\ (Len(e) = 3 \/ Len(e) = 4) /\ x # e /\ Len(x) \in Nat
  BY ExitFacts DEF Open, Begun, Strings
<1>3. Len(x) <= Len(e) /\ \A i \in 1 .. Len(x) : x[i] = e[i]
  BY <1>1, <1>2, PrefixFacts
<1>4. Len(x) # Len(e)
  BY <1>2, <1>3, SameString
<1> DEFINE k == Len(x)
           l == Len(e)
<1>5. k \in Nat /\ (l = 3 \/ l = 4) /\ k <= l /\ k # l
  BY <1>2, <1>3, <1>4
<1> HIDE DEF k, l
<1>6. k \in 0 .. 3
  BY ONLY <1>5
<1> QED  BY <1>2, <1>6 DEF k

\* A byte less, and it is not an exit sequence.
LEMMA BegunFront ==
    ASSUME NEW x \in Begun, x # << >>
    PROVE  Front(x) \in Open
<1>1. PICK e \in Exits : IsPrefix(x, e)
  BY DEF Begun
<1> DEFINE f == Front(x)
<1>2. /\ x \in Strings /\ e \in Strings /\ f \in Strings
      /\ Len(f) = Len(x) - 1 /\ Len(x) \in Nat \ {0} /\ (Len(e) = 3 \/ Len(e) = 4)
      /\ \A i \in 1 .. Len(x) - 1 : f[i] = x[i]
  BY FrontFacts, ExitFacts DEF Begun
<1>3. Len(x) <= Len(e) /\ \A i \in 1 .. Len(x) : x[i] = e[i]
  BY <1>1, <1>2, PrefixFacts
<1> HIDE DEF f
<1>4. Len(f) < Len(e) /\ \A i \in 1 .. Len(f) : f[i] = e[i]
  BY <1>2, <1>3
<1>5. IsPrefix(f, e)
  BY <1>2, <1>4, PrefixFacts
<1>6. f \notin Exits
  <2> SUFFICES ASSUME f \in Exits PROVE FALSE
    OBVIOUS
  <2>1. Len(f) = 3 /\ Len(e) = 4
    BY <1>2, <1>4, ExitFacts
  <2>2. f[1] = "CSI" /\ e[1] = "ESC"
    BY <2>1, ExitFacts
  <2>3. 1 \in 1 .. Len(f)
    BY <2>1
  <2> QED  BY <1>4, <2>2, <2>3
<1> QED  BY <1>2, <1>5, <1>6 DEF Open, Begun, f

\* No exit sequence ends in another.
LEMMA ExitInside ==
    ASSUME NEW x \in Begun, NEW e \in Exits, IsSuffix(e, x)
    PROVE  x = e
<1>1. PICK d \in Exits : IsPrefix(x, d)
  BY DEF Begun
<1>2. /\ x \in Strings /\ d \in Strings /\ e \in Strings /\ Len(x) \in Nat
      /\ (Len(d) = 3 \/ Len(d) = 4) /\ (Len(e) = 3 \/ Len(e) = 4)
  BY ExitFacts DEF Begun, Strings
<1>3. Len(x) <= Len(d) /\ \A i \in 1 .. Len(x) : x[i] = d[i]
  BY <1>1, <1>2, PrefixFacts
<1>4. Len(e) <= Len(x) /\ \A i \in 0 .. Len(e) - 1 : e[Len(e) - i] = x[Len(x) - i]
  BY <1>2, SuffixFacts
<1>5. CASE Len(e) = Len(x)
  <2>1. ASSUME NEW i \in 1 .. Len(e) PROVE e[i] = x[i]
    <3>0. Len(x) - (Len(e) - i) = i
      BY <1>2, <1>5
    <3>1. Len(e) - i \in 0 .. Len(e) - 1 /\ Len(e) - (Len(e) - i) = i
      BY <1>2
    <3> QED  BY <1>4, <3>0, <3>1
  <2>2. e = x
    BY ONLY <1>2, <1>5, <2>1, SameString
  <2> QED  BY <2>2
<1>6. CASE Len(e) # Len(x)
  <2>1. Len(e) = 3 /\ Len(x) = 4 /\ Len(d) = 4
    <3> DEFINE k == Len(x)
               l == Len(e)
               m == Len(d)
    <3>1. /\ k \in Nat /\ (l = 3 \/ l = 4) /\ (m = 3 \/ m = 4)
          /\ k <= m /\ l <= k /\ l # k
      BY <1>2, <1>3, <1>4, <1>6
    <3> HIDE DEF k, l, m
    <3>2. l = 3 /\ k = 4 /\ m = 4
      BY ONLY <3>1
    <3> QED  BY <3>2 DEF k, l, m
  <2>2. e[1] = "CSI" /\ d[2] = "["
    BY <2>1, ExitFacts
  <2>3. e[1] = x[2]
    <3>1. 2 \in 0 .. Len(e) - 1 /\ Len(e) - 2 = 1 /\ Len(x) - 2 = 2
      BY <2>1
    <3> QED  BY <1>4, <3>1
  <2>4. x[2] = d[2]
    BY <1>3, <2>1
  <2> QED  BY <2>2, <2>3, <2>4
<1> QED  BY <1>5, <1>6

-------------------------------------------------------------------------------
(* The window *)

\* The end of a string that starts at place k.
From(w, k) == SubSeq(w, k, Len(w))

LEMMA FromFacts ==
    ASSUME NEW w \in Strings, NEW k \in 1 .. Len(w) + 1
    PROVE  /\ From(w, k) \in Strings /\ Len(From(w, k)) = (Len(w) - k) + 1
           /\ \A i \in 0 .. Len(From(w, k)) - 1 :
                 From(w, k)[Len(From(w, k)) - i] = w[Len(w) - i]
           /\ IsSuffix(From(w, k), w)
           /\ SubSeq(w, 1, k - 1) \in Strings
           /\ SubSeq(w, 1, k - 1) \o From(w, k) = w
<1> DEFINE r == From(w, k)
           h == SubSeq(w, 1, k - 1)
           n == Len(w)
<1>1. n \in Nat /\ k \in Nat \ {0} /\ k <= n + 1
  BY DEF Strings
<1>2. /\ r \in Strings /\ Len(r) = (n - k) + 1
      /\ \A i \in 1 .. (n - k) + 1 : r[i] = w[(k - 1) + i]
  BY <1>1 DEF Strings, From
<1>3. /\ h \in Strings /\ Len(h) = k - 1 /\ \A i \in 1 .. k - 1 : h[i] = w[i]
  BY <1>1 DEF Strings
<1> HIDE DEF r, h, n
<1>4. ASSUME NEW i \in 0 .. Len(r) - 1 PROVE r[Len(r) - i] = w[n - i]
  <2>1. Len(r) - i \in 1 .. (n - k) + 1 /\ (k - 1) + (Len(r) - i) = n - i
    BY <1>1, <1>2
  <2> QED  BY <1>2, <2>1
<1>5. IsSuffix(r, w)
  <2>1. Len(r) <= n
    BY <1>1, <1>2
  <2> QED  BY <1>2, <1>4, <2>1, SuffixFacts DEF n
<1>6. h \o r = w
  <2> DEFINE z == h \o r
  <2>1. /\ z \in Strings /\ Len(z) = Len(h) + Len(r)
        /\ \A i \in 1 .. Len(h) : z[i] = h[i]
        /\ \A i \in 1 .. Len(r) : z[Len(h) + i] = r[i]
    BY <1>2, <1>3, JoinFacts
  <2> HIDE DEF z
  <2>2. Len(z) = n
    BY <1>1, <1>2, <1>3, <2>1
  <2>3. ASSUME NEW i \in 1 .. n PROVE z[i] = w[i]
    <3>1. CASE i <= k - 1
      <4>1. i \in 1 .. k - 1
        BY <1>1, <3>1
      <4> QED  BY <1>3, <2>1, <4>1
    <3>2. CASE i > k - 1
      <4> DEFINE j == i - (k - 1)
      <4>1. j \in 1 .. (n - k) + 1 /\ (k - 1) + j = i
        BY <1>1, <3>2
      <4> HIDE DEF j
      <4> QED  BY <1>2, <1>3, <2>1, <4>1
    <3>3. i <= k - 1 \/ i > k - 1
      BY <1>1
    <3> QED  BY ONLY <3>1, <3>2, <3>3
  <2>4. z = w
    BY <2>1, <2>2, <2>3, SameString DEF n
  <2> QED  BY <2>4 DEF z
<1> QED  BY <1>2, <1>3, <1>4, <1>5, <1>6 DEF r, h, n

\* An end of a string is the string from some place on.
LEMMA SuffixFrom ==
    ASSUME NEW w \in Strings, NEW x \in Strings, IsSuffix(x, w)
    PROVE  \E k \in 1 .. Len(w) + 1 : x = From(w, k) /\ Len(x) = (Len(w) - k) + 1
<1> DEFINE n == Len(w)
           l == Len(x)
           k == (n - l) + 1
<1>1. n \in Nat /\ l \in Nat /\ l <= n
  BY SuffixFacts DEF Strings
<1>2. k \in 1 .. n + 1 /\ l = (n - k) + 1
  BY <1>1
<1>3. \A i \in 0 .. l - 1 : x[l - i] = w[n - i]
  BY SuffixFacts
<1> HIDE DEF k, n, l
<1>4. /\ From(w, k) \in Strings /\ Len(From(w, k)) = l
      /\ \A i \in 0 .. l - 1 : From(w, k)[l - i] = w[n - i]
  BY <1>2, FromFacts DEF n
<1>5. ASSUME NEW i \in 1 .. l PROVE x[i] = From(w, k)[i]
  <2>1. l - i \in 0 .. l - 1 /\ l - (l - i) = i
    BY <1>1
  <2> QED  BY <1>3, <1>4, <2>1
<1>6. x = From(w, k)
  BY <1>4, <1>5, SameString DEF l
<1> QED  BY <1>2, <1>6 DEF n, l

\* What the window keeps of w is the longest end of it that begins an exit
\* sequence.
LEMMA KeptFacts ==
    ASSUME NEW w \in Strings
    PROVE  /\ Kept(w) \in Begun /\ IsSuffix(Kept(w), w)
           /\ SubSeq(w, 1, Len(w) - Len(Kept(w))) \in Strings
           /\ SubSeq(w, 1, Len(w) - Len(Kept(w))) \o Kept(w) = w
           /\ \A x \in Begun : IsSuffix(x, w) => Len(x) <= Len(Kept(w))
<1> DEFINE n == Len(w)
           K == {k \in 1 .. n + 1 : \E e \in Exits : IsPrefix(From(w, k), e)}
           Longest(k) == /\ \E e \in Exits : IsPrefix(From(w, k), e)
                         /\ \A j \in 1 .. k - 1 :
                               \A e \in Exits : ~IsPrefix(From(w, j), e)
           R == {ss \in Nat \X Nat : ss[1] < ss[2]}
<1>1. n \in Nat /\ 1 .. n + 1 \subseteq Nat
  BY DEF Strings
<1> HIDE DEF n
<1>2. n + 1 \in K
  <2>1. n + 1 \in 1 .. n + 1 /\ (n - (n + 1)) + 1 = 0
    BY <1>1
  <2>2. From(w, n + 1) \in Strings /\ Len(From(w, n + 1)) = 0
    BY <2>1, FromFacts DEF n
  <2>3. <<"CSI", "4", "i">> \in Exits
    BY DEF Exits
  <2>4. <<"CSI", "4", "i">> \in Strings /\ Len(<<"CSI", "4", "i">>) = 3
    BY DEF Strings, Symbols
  <2>5. IsPrefix(From(w, n + 1), <<"CSI", "4", "i">>)
    BY <2>2, <2>4, PrefixFacts
  <2> QED  BY <2>1, <2>3, <2>5
<1>3. \E k \in 1 .. n + 1 : Longest(k)
  <2>1. IsWellFoundedOn(R, Nat)
    <3>1. R = OpToRel(<, Nat)
      BY DEF OpToRel
    <3> QED  BY <3>1, NatLessThanWellFounded
  <2>2. K \subseteq Nat /\ K # {}
    BY <1>1, <1>2
  <2>3. PICK k \in K : \A j \in K : ~(<<j, k>> \in R)
    <3> HIDE DEF R, K
    <3> QED  BY <2>1, <2>2, WFMin
  <2>4. k \in 1 .. n + 1 /\ k \in Nat
    BY <1>1
  <2>5. ASSUME NEW j \in 1 .. k - 1, NEW e \in Exits PROVE ~IsPrefix(From(w, j), e)
    <3>1. j \in 1 .. n + 1 /\ j \in Nat /\ j < k
      BY <1>1, <2>4
    <3>2. j \notin K
      BY <2>3, <2>4, <3>1
    <3> QED  BY <3>1, <3>2
  <2> QED  BY <2>4, <2>5
<1> HIDE DEF K, R
<1> DEFINE from == CHOOSE k \in 1 .. n + 1 : Longest(k)
<1>4. from \in 1 .. n + 1 /\ Longest(from)
  BY <1>3
<1>5. Kept(w) = From(w, from)
  BY DEF Kept, From, n
<1> HIDE DEF from
<1>6. /\ Kept(w) \in Strings /\ Len(Kept(w)) = (n - from) + 1 /\ IsSuffix(Kept(w), w)
      /\ SubSeq(w, 1, from - 1) \in Strings
      /\ SubSeq(w, 1, from - 1) \o Kept(w) = w
  BY <1>4, <1>5, FromFacts DEF n
<1>7. n - Len(Kept(w)) = from - 1
  BY <1>1, <1>4, <1>6
<1>8. ASSUME NEW x \in Begun, IsSuffix(x, w) PROVE Len(x) <= Len(Kept(w))
  <2>1. PICK k \in 1 .. n + 1 : x = From(w, k) /\ Len(x) = (n - k) + 1
    BY <1>8, SuffixFrom DEF Begun, n
  <2>2. PICK e \in Exits : IsPrefix(From(w, k), e)
    BY <2>1 DEF Begun
  <2>3. k \notin 1 .. from - 1
    BY <1>4, <2>2
  <2> QED  BY <1>1, <1>4, <1>6, <2>1, <2>3
<1> QED  BY <1>4, <1>5, <1>6, <1>7, <1>8 DEF Begun, n

-------------------------------------------------------------------------------
(* Every step *)

LEMMA InitEstablishes == PrinterInit => PrinterInvariant
<1>1. << >> \in Strings
  BY DEF Strings
<1> QED  BY <1>1 DEF PrinterInit, PrinterInvariant

\* CSI 5 i
LEMMA EnableStep ==
    ASSUME PrinterInvariant, Enable
    PROVE  PrinterInvariant'
<1>1. /\ << >> \in Strings /\ Len(<< >>) = 0 /\ << >> \o << >> = << >>
  BY DEF Strings
<1>2. /\ enabled' = TRUE /\ printed' = << >> /\ received' = << >> /\ buffer' = << >>
  BY DEF Enable, PrinterInvariant
<1>3. << >> \in Open
  <2>1. /\ <<"CSI", "4", "i">> \in Exits /\ <<"CSI", "4", "i">> \in Strings
        /\ Len(<<"CSI", "4", "i">>) = 3
    BY DEF Exits, Strings, Symbols
  <2>2. IsPrefix(<< >>, <<"CSI", "4", "i">>)
    BY <1>1, <2>1, PrefixFacts
  <2>3. << >> \notin Exits
    BY <1>1, ExitFacts
  <2> QED  BY <1>1, <2>1, <2>2, <2>3 DEF Open, Begun
<1>4. \A x \in Open : IsSuffix(x, << >>) => Len(x) <= 0
  BY <1>1, SuffixFacts DEF Open, Begun
<1>5. \A e \in Exits : ~IsSuffix(e, << >>)
  BY <1>1, SuffixFacts, ExitFacts
<1> QED  BY <1>1, <1>2, <1>3, <1>4, <1>5 DEF PrinterInvariant

\* KTerm_ProcessPrinterControllerChar.  The window never overflows.
LEMMA ControllerCharStep ==
    ASSUME WINDOW \in Nat, WINDOW > 3, PrinterInvariant, ControllerChar
    PROVE  PrinterInvariant'
<1>1. /\ enabled /\ buffer \in Open /\ printed \o buffer = received
      /\ {printed, buffer, received} \subseteq Strings
      /\ \A x \in Open : IsSuffix(x, received) => Len(x) <= Len(buffer)
  BY DEF PrinterInvariant, ControllerChar
<1>2. ~(Len(buffer) >= WINDOW)
  BY <1>1, OpenShort
<1>3. PICK c \in Bytes :
        LET window == Append(buffer, c)
            kept == Kept(window)
        IN  /\ received' = Append(received, c)
            /\ printed' = printed \o (<< >> \o SubSeq(window, 1, Len(window) - Len(kept)))
            /\ enabled' = (kept \notin Exits)
            /\ buffer' = IF kept \in Exits THEN << >> ELSE kept
  BY <1>2 DEF ControllerChar
<1> DEFINE window == Append(buffer, c)
           kept == Kept(window)
           out == SubSeq(window, 1, Len(window) - Len(kept))
<1>4. window \in Strings /\ c \in Symbols /\ Append(received, c) \in Strings
  BY <1>1, AppendFacts DEF Symbols
<1> HIDE DEF window
<1>5. /\ kept \in Begun /\ IsSuffix(kept, window)
      /\ out \in Strings /\ out \o kept = window
      /\ \A x \in Begun : IsSuffix(x, window) => Len(x) <= Len(kept)
  BY <1>4, KeptFacts
<1>6. << >> \o out = out
  BY <1>5 DEF Strings
<1>7. /\ received' = Append(received, c) /\ printed' = printed \o out
      /\ enabled' = (kept \notin Exits)
      /\ buffer' = IF kept \in Exits THEN << >> ELSE kept
  BY <1>3, <1>6 DEF window
<1> HIDE DEF kept, out
<1>8. printed' \in Strings /\ kept \in Strings /\ received' \in Strings
  BY <1>1, <1>4, <1>5, <1>7, JoinFacts DEF Begun
<1>9. printed' \o kept = received'
  <2>1. (printed \o out) \o kept = printed \o (out \o kept)
    <3>1. printed \in Strings /\ out \in Strings /\ kept \in Strings
      BY <1>1, <1>5, <1>8
    <3> QED  BY <3>1, JoinsGroup
  <2>2. printed \o window = Append(printed \o buffer, c)
    BY <1>1, <1>4 DEF Strings, window
  <2> QED  BY <1>1, <1>5, <1>7, <2>1, <2>2
<1>10. ASSUME NEW x \in Begun, IsSuffix(x, received') PROVE Len(x) <= Len(kept)
  <2>1. x \in Strings /\ Len(x) \in Nat /\ Len(kept) \in Nat
    BY <1>8 DEF Begun, Strings
  <2>2. CASE x = << >>
    <3>1. Len(x) = 0
      BY <2>2
    <3> QED  BY <2>1, <3>1
  <2>3. CASE x # << >>
    <3>1. IsSuffix(Front(x), received) /\ x[Len(x)] = c
      BY <1>1, <1>4, <1>7, <1>10, <2>1, <2>3, AppendSuffix
    <3>2. Front(x) \in Open
      BY <2>3, BegunFront
    <3>3. Len(Front(x)) <= Len(buffer) /\ Front(x) \in Strings
      BY <1>1, <3>1, <3>2, OpenShort
    <3>4. IsSuffix(buffer, received)
      BY <1>1, JoinSuffix
    <3>5. IsSuffix(Front(x), buffer)
      BY <1>1, <3>1, <3>3, <3>4, SuffixesNest
    <3>6. IsSuffix(x, window)
      BY <1>1, <1>4, <2>1, <2>3, <3>1, <3>5, AppendSuffix DEF window
    <3> QED  BY <1>5, <3>6
  <2> QED  BY <2>2, <2>3
<1>11. CASE kept \in Exits
  <2>1. << >> \in Strings
    BY DEF Strings
  <2> QED  BY <1>7, <1>8, <1>9, <1>11, <2>1 DEF PrinterInvariant
<1>12. CASE kept \notin Exits
  <2>1. kept \in Open
    BY <1>5, <1>12 DEF Open
  <2>2. ASSUME NEW e \in Exits PROVE ~IsSuffix(e, received')
    <3> SUFFICES ASSUME IsSuffix(e, received') PROVE FALSE
      OBVIOUS
    <3>1. e \in Strings /\ IsPrefix(e, e)
      BY ExitFacts, PrefixFacts DEF Strings
    <3>2. e \in Begun
      BY <3>1 DEF Begun
    <3>3. Len(e) <= Len(kept)
      BY <1>10, <3>2
    <3>4. IsSuffix(kept, received')
      BY <1>8, <1>9, JoinSuffix
    <3>5. IsSuffix(e, kept)
      BY <1>8, <3>1, <3>3, <3>4, SuffixesNest
    <3>6. kept = e
      BY <1>5, <3>5, ExitInside
    <3> QED  BY <1>12, <3>6
  <2>3. \A x \in Open : IsSuffix(x, received') => Len(x) <= Len(kept)
    BY <1>10 DEF Open
  <2> QED  BY <1>7, <1>8, <1>9, <1>12, <2>1, <2>2, <2>3 DEF PrinterInvariant
<1> QED  BY <1>11, <1>12

\* The window always holds what may still become an exit sequence.
THEOREM Invariance ==
    ASSUME WINDOW \in Nat, WINDOW > 3
    PROVE  PrinterSpec => []PrinterInvariant
<1>1. PrinterInvariant /\ [PrinterNext]_print => PrinterInvariant'
  <2> SUFFICES ASSUME PrinterInvariant, [PrinterNext]_print PROVE PrinterInvariant'
    OBVIOUS
  <2>1. CASE Enable
    BY <2>1, EnableStep
  <2>2. CASE ControllerChar
    BY <2>2, ControllerCharStep
  <2>3. CASE UNCHANGED print
    BY <2>3 DEF PrinterInvariant, print
  <2> QED  BY <2>1, <2>2, <2>3 DEF PrinterNext
<1> QED  BY InitEstablishes, <1>1, PTL DEF PrinterSpec

\* Whatever the host sends, the printer is given every byte once and in order but
\* for the exit sequence, and the first exit sequence ends the mode.
THEOREM PrinterGetsAllTheorem ==
    ASSUME WINDOW \in Nat, WINDOW > 3
    PROVE  PrinterSpec => []PrinterGetsAll
<1>1. PrinterInvariant => PrinterGetsAll
  BY DEF PrinterInvariant, PrinterGetsAll
<1> QED  BY Invariance, <1>1, PTL

-------------------------------------------------------------------------------
(* The memory of Kitty images: KittyStore *)

\* The limit is a number of bytes, as is the length of a payload.
Limits == LIMIT \in Nat /\ MaxBlocks \in Nat /\ Oom \in BOOLEAN

-------------------------------------------------------------------------------
(* The inductive invariant *)

Frame == [capacity : Nat, size : Nat]
Image == [id : Ids \cup {0}, frames : Seq(Frame), complete : BOOLEAN]
Store == [images : Seq(Image), active : Nat, continuing : BOOLEAN, usage : Nat]

Total(images) == FoldLeft(LAMBDA sum, img : sum + Capacity(img.frames), 0, images)

\* The image that is uploaded has a frame with memory.
Uploading(k) ==
    k.active # 0 =>
        /\ k.active \in 1 .. Len(k.images)
        /\ k.images[k.active].frames # << >>
        /\ Last(k.images[k.active].frames).capacity > 0

\* A store whose account is right.
Sound(k) ==
    k \in Store /\ k.usage = Total(k.images) /\ k.usage <= LIMIT /\ Uploading(k)

\* The application and the terminal agree on the upload.  After KTerm_InitKitty in
\* the middle of one, further chunks make an image of their own, number 0.
Agreed ==
    /\ upload \in [id : Ids \cup {0}, sent : Nat, open : BOOLEAN]
    /\ ~upload.open => upload.sent = 0
    /\ kitty.continuing => upload.open
    /\ kitty.active # 0 /\ kitty.continuing =>
          LET img == kitty.images[kitty.active]
          IN  img.id # 0 => img.id = upload.id /\ Last(img.frames).size = upload.sent
                            /\ ~img.complete

KittyInvariant == Sound(kitty) /\ Agreed

-------------------------------------------------------------------------------
(* Sums *)

\* Induction, on a set of numbers.
LEMMA Upward ==
    ASSUME NEW S, 0 \in S, \A n \in Nat : n \in S => n + 1 \in S
    PROVE  Nat \subseteq S
<1> DEFINE R == {ss \in Nat \X Nat : ss[1] < ss[2]}
           T == Nat \ S
<1>1. IsWellFoundedOn(R, Nat)
  <2>1. R = OpToRel(<, Nat)
    BY DEF OpToRel
  <2> QED  BY <2>1, NatLessThanWellFounded
<1>2. ASSUME T # {} PROVE FALSE
  <2>1. PICK n \in T : \A m \in T : ~(<<m, n>> \in R)
    <3>1. T \subseteq Nat
      OBVIOUS
    <3> HIDE DEF R, T
    <3> QED  BY <1>1, <1>2, <3>1, WFMin
  <2>2. n \in Nat /\ n # 0 /\ n \notin S
    BY <2>1
  <2>3. n - 1 \in Nat /\ n - 1 < n /\ (n - 1) + 1 = n
    BY <2>2
  <2>4. <<n - 1, n>> \in R
    BY <2>2, <2>3
  <2>5. n - 1 \notin T
    BY <2>1, <2>4
  <2> QED  BY <2>2, <2>3, <2>5
<1> QED  BY <1>2

\* A set of the numbers up to n has a largest one.
LEMMA LargestIn ==
    ASSUME NEW n \in Nat, NEW S \in SUBSET (1 .. n), S # {}
    PROVE  \E x \in S : \A z \in S : x >= z
<1> DEFINE K == {m \in Nat : \A T \in SUBSET (1 .. m) : T # {} => \E x \in T : \A z \in T : x >= z}
<1>1. 0 \in K
  <2>1. \A T \in SUBSET (1 .. 0) : T = {}
    OBVIOUS
  <2> QED  BY <2>1
<1>2. ASSUME NEW m \in Nat, m \in K PROVE m + 1 \in K
  <2> SUFFICES ASSUME NEW T \in SUBSET (1 .. m + 1), T # {}
               PROVE  \E x \in T : \A z \in T : x >= z
    OBVIOUS
  <2>1. CASE m + 1 \in T
    BY <2>1
  <2>2. CASE m + 1 \notin T
    <3>1. T \in SUBSET (1 .. m)
      BY <2>2
    <3> QED  BY <1>2, <3>1
  <2> QED  BY <2>1, <2>2
<1> HIDE DEF K
<1>3. n \in K
  BY <1>1, <1>2, Upward
<1> QED  BY <1>3 DEF K

\* A set of such numbers has a smallest one.
LEMMA SmallestIn ==
    ASSUME NEW n \in Nat, NEW S \in SUBSET (1 .. n), S # {}
    PROVE  \E x \in S : \A z \in S : x <= z
<1> DEFINE K == {m \in Nat : \A T \in SUBSET (1 .. m) : T # {} => \E x \in T : \A z \in T : x <= z}
<1>1. 0 \in K
  <2>1. \A T \in SUBSET (1 .. 0) : T = {}
    OBVIOUS
  <2> QED  BY <2>1
<1>2. ASSUME NEW m \in Nat, m \in K PROVE m + 1 \in K
  <2> SUFFICES ASSUME NEW T \in SUBSET (1 .. m + 1), T # {}
               PROVE  \E x \in T : \A z \in T : x <= z
    OBVIOUS
  <2> DEFINE below == T \ {m + 1}
  <2>1. below \in SUBSET (1 .. m)
    OBVIOUS
  <2>2. CASE below = {}
    <3>1. \A z \in T : z = m + 1
      BY <2>2
    <3>2. PICK z : z \in T
      OBVIOUS
    <3>3. m + 1 \in T /\ m + 1 <= m + 1
      BY <3>1, <3>2
    <3> QED  BY <3>1, <3>3
  <2>3. CASE below # {}
    <3>1. PICK x \in below : \A z \in below : x <= z
      BY <1>2, <2>1, <2>3
    <3>2. x \in T /\ x <= m + 1 /\ \A z \in T : z = m + 1 \/ z \in below
      BY <2>1, <3>1
    <3> QED  BY <3>1, <3>2
  <2> QED  BY <2>2, <2>3
<1> HIDE DEF K
<1>3. n \in K
  BY <1>1, <1>2, Upward
<1> QED  BY <1>3 DEF K

\* The recursion by which FoldLeft adds n numbers.
Adds(F, a, n) ==
    F = [S \in SUBSET (1 .. n) |->
            IF S = {} THEN 0
            ELSE LET k == CHOOSE x \in S : \A z \in S : x >= z
                 IN  F[S \ {k}] + a[k]]

\* t[k] is the sum of the first k of n numbers.
Running(t, a, n) ==
    /\ n \in Nat /\ \A k \in 1 .. n : a[k] \in Nat
    /\ t[0] = 0 /\ \A k \in 1 .. n : t[k] = t[k - 1] + a[k]

\* That recursion has a solution for any number of numbers.
LEMMA AddsExists ==
    ASSUME NEW a, NEW n \in Nat
    PROVE  \E F : Adds(F, a, n)
<1> DEFINE K == {m \in Nat : \E F : Adds(F, a, m)}
           Largest(S) == CHOOSE x \in S : \A z \in S : x >= z
<1>1. 0 \in K
  <2> DEFINE F == [S \in SUBSET (1 .. 0) |-> 0]
  <2>1. \A S \in SUBSET (1 .. 0) : S = {}
    OBVIOUS
  <2>2. Adds(F, a, 0)
    BY <2>1 DEF Adds
  <2> QED  BY <2>2
<1>2. ASSUME NEW m \in Nat, m \in K PROVE m + 1 \in K
  <2>1. PICK F : Adds(F, a, m)
    BY <1>2
  <2> DEFINE G == [S \in SUBSET (1 .. m + 1) |->
                     IF m + 1 \in S THEN F[S \ {m + 1}] + a[m + 1] ELSE F[S]]
  <2>2. ASSUME NEW S \in SUBSET (1 .. m + 1)
        PROVE  G[S] = IF S = {} THEN 0 ELSE G[S \ {Largest(S)}] + a[Largest(S)]
    <3>1. CASE m + 1 \in S
      <4>1. Largest(S) = m + 1 /\ S # {}
        <5>1. \A x \in S : x \in Int /\ m + 1 >= x
          OBVIOUS
        <5>2. \A x \in S : (\A z \in S : x >= z) => x = m + 1
          BY <3>1, <5>1
        <5> QED  BY <3>1, <5>1, <5>2
      <4>2. m + 1 \notin S \ {m + 1} /\ S \ {m + 1} \in SUBSET (1 .. m + 1)
        OBVIOUS
      <4>3. G[S \ {m + 1}] = F[S \ {m + 1}]
        BY <4>2
      <4> QED  BY <3>1, <4>1, <4>3
    <3>2. CASE m + 1 \notin S
      <4>1. S \in SUBSET (1 .. m)
        BY <3>2
      <4>2. F[S] = IF S = {} THEN 0 ELSE F[S \ {Largest(S)}] + a[Largest(S)]
        BY <2>1, <4>1 DEF Adds
      <4>3. G[S] = F[S]
        BY <3>2
      <4>4. m + 1 \notin S \ {Largest(S)} /\ S \ {Largest(S)} \in SUBSET (1 .. m + 1)
        BY <3>2
      <4>5. G[S \ {Largest(S)}] = F[S \ {Largest(S)}]
        BY <4>4
      <4> QED  BY <4>2, <4>3, <4>5
    <3> QED  BY <3>1, <3>2
  <2>3. Adds(G, a, m + 1)
    <3>1. G = [S \in SUBSET (1 .. m + 1) |-> G[S]]
      OBVIOUS
    <3> HIDE DEF G
    <3> QED  BY <2>2, <3>1 DEF Adds
  <2> HIDE DEF G
  <2> QED  BY <2>3
<1> HIDE DEF K
<1>3. n \in K
  BY <1>1, <1>2, Upward
<1> QED  BY <1>3 DEF K

\* What it adds up to.
LEMMA AddsRunning ==
    ASSUME NEW a, NEW n \in Nat, \A k \in 1 .. n : a[k] \in Nat, NEW F, Adds(F, a, n)
    PROVE  \E t : Running(t, a, n) /\ F[1 .. n] = t[n]
<1> DEFINE t == [k \in 0 .. n |-> F[1 .. k]]
<1>1. t[0] = 0
  <2>1. t[0] = F[1 .. 0] /\ 1 .. 0 = {} /\ 1 .. 0 \in SUBSET (1 .. n)
    OBVIOUS
  <2> QED  BY <2>1 DEF Adds
<1>2. ASSUME NEW k \in 1 .. n PROVE t[k] = t[k - 1] + a[k]
  <2> DEFINE S == 1 .. k
             last == CHOOSE x \in S : \A z \in S : x >= z
  <2>1. S \in SUBSET (1 .. n) /\ k \in S /\ \A z \in S : z \in Int /\ k >= z
    OBVIOUS
  <2>2. \A x \in S : (\A z \in S : x >= z) => x = k
    BY <2>1
  <2>3. last = k /\ S # {}
    BY <2>1, <2>2
  <2>4. S \ {k} = 1 .. k - 1
    OBVIOUS
  <2> HIDE DEF S
  <2>5. F[S] = F[S \ {k}] + a[k]
    BY <2>1, <2>3 DEF Adds
  <2>6. t[k] = F[S] /\ t[k - 1] = F[1 .. k - 1]
    BY DEF S
  <2> QED  BY <2>4, <2>5, <2>6
<1>3. t[n] = F[1 .. n]
  OBVIOUS
<1> HIDE DEF t
<1>4. Running(t, a, n)
  BY <1>1, <1>2 DEF Running
<1> QED  BY <1>3, <1>4

LEMMA RunningNat ==
    ASSUME NEW t, NEW a, NEW n, Running(t, a, n), NEW q \in 0 .. n
    PROVE  t[q] \in Nat
<1> DEFINE S == {k \in Nat : k <= n => t[k] \in Nat}
<1>1. 0 \in S
  BY DEF Running
<1>2. ASSUME NEW k \in Nat, k \in S PROVE k + 1 \in S
  <2>1. k + 1 <= n => k + 1 \in 1 .. n /\ (k + 1) - 1 = k /\ k <= n
    BY DEF Running
  <2> QED  BY <1>2, <2>1 DEF Running
<1> HIDE DEF S
<1>3. q \in S
  BY <1>1, <1>2, Upward DEF Running
<1> QED  BY <1>3 DEF S, Running

\* What two rows of numbers have in common, from i and from j on, adds as much to
\* the one sum as to the other.
LEMMA Alike ==
    ASSUME NEW t, NEW a, NEW n, Running(t, a, n), NEW u, NEW b, NEW m, Running(u, b, m),
           NEW i \in 0 .. n, NEW j \in 0 .. m, NEW l \in Nat, NEW p \in 0 .. n, NEW q \in 0 .. m,
           p = i + l, q = j + l, \A k \in 1 .. l : a[i + k] = b[j + k]
    PROVE  t[p] \in Nat /\ u[q] \in Nat /\ t[p] + u[j] = u[q] + t[i]
<1>2. n \in Nat /\ m \in Nat /\ i + l \in 0 .. n /\ j + l \in 0 .. m
  BY DEF Running
<1> DEFINE S == {k \in Nat : k <= l => t[i + k] + u[j] = u[j + k] + t[i]}
<1>3. 0 \in S
  BY <1>2, RunningNat
<1>4. ASSUME NEW k \in Nat, k \in S PROVE k + 1 \in S
  <2> SUFFICES ASSUME k + 1 <= l PROVE t[i + (k + 1)] + u[j] = u[j + (k + 1)] + t[i]
    OBVIOUS
  <2>1. /\ i + (k + 1) \in 1 .. n /\ (i + (k + 1)) - 1 = i + k /\ i + k \in 0 .. n
        /\ j + (k + 1) \in 1 .. m /\ (j + (k + 1)) - 1 = j + k /\ j + k \in 0 .. m
        /\ k + 1 \in 1 .. l
    BY <1>2
  <2>2. t[i + (k + 1)] = t[i + k] + a[i + (k + 1)] /\ u[j + (k + 1)] = u[j + k] + b[j + (k + 1)]
    BY <2>1 DEF Running
  <2>3. a[i + (k + 1)] = b[j + (k + 1)] /\ a[i + (k + 1)] \in Nat
    BY <2>1 DEF Running
  <2>4. t[i + k] \in Nat /\ u[j + k] \in Nat /\ t[i] \in Nat /\ u[j] \in Nat
    BY <2>1, RunningNat
  <2>5. t[i + k] + u[j] = u[j + k] + t[i]
    BY <1>4
  <2> QED  BY <2>2, <2>3, <2>4, <2>5
<1> HIDE DEF S
<1>5. l \in S
  BY <1>3, <1>4, Upward
<1>6. t[p] \in Nat /\ u[q] \in Nat
  BY RunningNat
<1> QED  BY <1>5, <1>6 DEF S

\* The common start of two rows of numbers.
LEMMA AlikeFront ==
    ASSUME NEW t, NEW a, NEW n, Running(t, a, n), NEW u, NEW b, NEW m, Running(u, b, m),
           NEW l \in Nat, l <= n, l <= m, \A k \in 1 .. l : a[k] = b[k]
    PROVE  t[l] = u[l]
<1>1. n \in Nat /\ m \in Nat /\ t[0] = 0 /\ u[0] = 0
  BY DEF Running
<1> DEFINE o == 0
<1>2. /\ o \in 0 .. n /\ o \in 0 .. m /\ l = o + l /\ l \in 0 .. n /\ l \in 0 .. m
      /\ \A k \in 1 .. l : o + k = k
  BY <1>1
<1>3. \A k \in 1 .. l : a[o + k] = b[o + k]
  BY <1>2
<1>5. t[o] = 0 /\ u[o] = 0
  BY <1>1
<1> HIDE DEF o
<1>6. t[l] \in Nat /\ u[l] \in Nat /\ t[l] + u[o] = u[l] + t[o]
  BY <1>2, <1>3, Alike
<1> QED  BY <1>5, <1>6

LEMMA SumAppend ==
    ASSUME NEW t, NEW a, NEW n, Running(t, a, n), NEW u, NEW b, NEW m, Running(u, b, m),
           m = n + 1, \A k \in 1 .. n : a[k] = b[k]
    PROVE  u[m] = t[n] + b[m]
<1>1. n \in Nat /\ m \in 1 .. m /\ m - 1 = n /\ n <= m /\ n <= n
  BY DEF Running
<1>2. u[m] = u[m - 1] + b[m]
  BY <1>1 DEF Running
<1>3. t[n] = u[n]
  BY <1>1, AlikeFront
<1> QED  BY <1>1, <1>2, <1>3

LEMMA SumChange ==
    ASSUME NEW t, NEW a, NEW n, Running(t, a, n), NEW u, NEW b, Running(u, b, n),
           NEW i \in 1 .. n, \A k \in 1 .. n : k # i => a[k] = b[k]
    PROVE  u[n] + a[i] = t[n] + b[i]
<1> DEFINE h == i - 1
           l == n - i
<1>1. n \in Nat /\ a[i] \in Nat /\ b[i] \in Nat
  BY DEF Running
<1>2. t[i] = t[h] + a[i] /\ u[i] = u[h] + b[i]
  BY <1>1 DEF Running
<1>3. /\ h \in Nat /\ h <= n /\ \A k \in 1 .. h : a[k] = b[k]
      /\ h \in 0 .. n /\ i \in 0 .. n /\ n \in 0 .. n
      /\ l \in Nat /\ n = i + l /\ \A k \in 1 .. l : a[i + k] = b[i + k]
  BY <1>1
<1> HIDE DEF h, l
<1>4. t[h] = u[h]
  BY <1>3, AlikeFront
<1>5. t[h] \in Nat
  BY <1>3, RunningNat
<1>6. t[n] \in Nat /\ u[n] \in Nat /\ t[n] + u[i] = u[n] + t[i]
  BY <1>3, Alike
<1> QED  BY <1>1, <1>2, <1>3, <1>4, <1>5, <1>6

LEMMA SumRemove ==
    ASSUME NEW t, NEW a, NEW n, Running(t, a, n), NEW u, NEW b, NEW m, Running(u, b, m),
           n = m + 1, NEW i \in 1 .. n, \A k \in 1 .. i - 1 : a[k] = b[k],
           \A k \in i .. m : a[k + 1] = b[k]
    PROVE  t[n] = u[m] + a[i]
<1> DEFINE h == i - 1
           l == n - i
<1>1. n \in Nat /\ m \in Nat /\ a[i] \in Nat
  BY DEF Running
<1>2. t[i] = t[h] + a[i]
  BY <1>1 DEF Running
<1>3. /\ h \in Nat /\ h <= n /\ h <= m /\ \A k \in 1 .. h : a[k] = b[k]
      /\ h \in 0 .. n /\ h \in 0 .. m /\ i \in 0 .. n
      /\ l \in Nat /\ i + l = n /\ h + l = m /\ i + l <= n /\ h + l <= m
  BY <1>1
<1>4. ASSUME NEW k \in 1 .. l PROVE a[i + k] = b[h + k]
  <2>1. h + k \in i .. m /\ (h + k) + 1 = i + k
    BY <1>1
  <2> QED  BY <2>1
<1> HIDE DEF h, l
<1>5. t[h] = u[h]
  BY <1>3, AlikeFront
<1>6. t[h] \in Nat
  BY <1>3, RunningNat
<1>7. \A k \in 1 .. l : a[i + k] = b[h + k]
  BY <1>4
<1>8. /\ i \in 0 .. n /\ h \in 0 .. m /\ l \in Nat /\ n \in 0 .. n /\ m \in 0 .. m
      /\ n = i + l /\ m = h + l
  BY <1>1, <1>3
<1>9. t[n] + u[h] = u[m] + t[i] /\ t[n] \in Nat /\ u[m] \in Nat
  BY <1>7, <1>8, Alike
<1> QED  BY <1>1, <1>2, <1>5, <1>6, <1>9

\* FoldLeft adds the capacities of the frames.
LEMMA CapacityRunning ==
    ASSUME NEW frames \in Seq(Frame)
    PROVE  \E t : /\ Running(t, [i \in 1 .. Len(frames) |-> frames[i].capacity], Len(frames))
                  /\ Capacity(frames) = t[Len(frames)]
<1> DEFINE n == Len(frames)
           a == [i \in 1 .. n |-> frames[i].capacity]
           Sum(f) == f = [S \in SUBSET (1 .. n) |->
                            IF S = {} THEN 0
                            ELSE LET k == CHOOSE x \in S : \A z \in S : x >= z
                                 IN  f[S \ {k}] + frames[k].capacity]
           F == CHOOSE f : Sum(f)
<1>1. n \in Nat /\ DOMAIN frames = 1 .. n /\ \A i \in 1 .. n : frames[i] \in Frame
  OBVIOUS
<1>2. Capacity(frames) = F[1 .. n]
  BY <1>1 DEF Capacity, FoldLeft, MapThenFoldSet, Max
<1>3. \A f : Sum(f) <=> Adds(f, a, n)
  <2>1. ASSUME NEW S \in SUBSET (1 .. n), S # {}
        PROVE  LET k == CHOOSE x \in S : \A z \in S : x >= z IN a[k] = frames[k].capacity
    <3>1. \E x \in S : \A z \in S : x >= z
      BY <1>1, <2>1, LargestIn
    <3> QED  BY <2>1, <3>1
  <2> HIDE DEF a
  <2>2. ASSUME NEW f, Sum(f) PROVE Adds(f, a, n)
    BY <2>1, <2>2 DEF Adds
  <2>3. ASSUME NEW f, Adds(f, a, n) PROVE Sum(f)
    BY <2>1, <2>3 DEF Adds
  <2> QED  BY <2>2, <2>3
<1>4. \A i \in 1 .. n : a[i] \in Nat
  BY <1>1 DEF Frame
<1>5. Adds(F, a, n)
  <2>1. PICK f : Adds(f, a, n)
    BY <1>1, AddsExists
  <2>2. Sum(f)
    BY <1>3, <2>1
  <2> HIDE DEF Sum
  <2>3. Sum(F)
    BY <2>2
  <2> QED  BY <1>3, <2>3
<1> HIDE DEF F, a
<1>6. \E t : Running(t, a, n) /\ F[1 .. n] = t[n]
  BY <1>1, <1>4, <1>5, AddsRunning
<1> QED  BY <1>2, <1>6 DEF a

\* FoldLeft adds the capacities of the images.
LEMMA TotalRunning ==
    ASSUME NEW images \in Seq(Image)
    PROVE  \E t : /\ Running(t, [i \in 1 .. Len(images) |-> Capacity(images[i].frames)],
                             Len(images))
                  /\ Total(images) = t[Len(images)]
<1> DEFINE n == Len(images)
           a == [i \in 1 .. n |-> Capacity(images[i].frames)]
           Sum(f) == f = [S \in SUBSET (1 .. n) |->
                            IF S = {} THEN 0
                            ELSE LET k == CHOOSE x \in S : \A z \in S : x >= z
                                 IN  f[S \ {k}] + Capacity(images[k].frames)]
           F == CHOOSE f : Sum(f)
<1>1. n \in Nat /\ DOMAIN images = 1 .. n /\ \A i \in 1 .. n : images[i].frames \in Seq(Frame)
  <2>1. n \in Nat /\ DOMAIN images = 1 .. n /\ \A i \in 1 .. n : images[i] \in Image
    OBVIOUS
  <2> QED  BY <2>1 DEF Image
<1>2. Total(images) = F[1 .. n]
  BY <1>1 DEF Total, FoldLeft, MapThenFoldSet, Max
<1>3. \A f : Sum(f) <=> Adds(f, a, n)
  <2>1. ASSUME NEW S \in SUBSET (1 .. n), S # {}
        PROVE  LET k == CHOOSE x \in S : \A z \in S : x >= z IN a[k] = Capacity(images[k].frames)
    <3>1. \E x \in S : \A z \in S : x >= z
      BY <1>1, <2>1, LargestIn
    <3> QED  BY <2>1, <3>1
  <2> HIDE DEF a
  <2>2. ASSUME NEW f, Sum(f) PROVE Adds(f, a, n)
    BY <2>1, <2>2 DEF Adds
  <2>3. ASSUME NEW f, Adds(f, a, n) PROVE Sum(f)
    BY <2>1, <2>3 DEF Adds
  <2> QED  BY <2>2, <2>3
<1>4. \A i \in 1 .. n : a[i] \in Nat
  <2> SUFFICES ASSUME NEW i \in 1 .. n PROVE Capacity(images[i].frames) \in Nat
    OBVIOUS
  <2> DEFINE frames == images[i].frames
             c == [j \in 1 .. Len(frames) |-> frames[j].capacity]
  <2>1. PICK t : Running(t, c, Len(frames)) /\ Capacity(frames) = t[Len(frames)]
    BY <1>1, CapacityRunning
  <2> HIDE DEF c
  <2>2. Len(frames) \in 0 .. Len(frames)
    BY <1>1
  <2>3. t[Len(frames)] \in Nat
    BY <2>1, <2>2, RunningNat
  <2> QED  BY <2>1, <2>2, <2>3
<1>5. Adds(F, a, n)
  <2>1. PICK f : Adds(f, a, n)
    BY <1>1, AddsExists
  <2>2. Sum(f)
    BY <1>3, <2>1
  <2> HIDE DEF Sum
  <2>3. Sum(F)
    BY <2>2
  <2> QED  BY <1>3, <2>3
<1> HIDE DEF F, a
<1>6. \E t : Running(t, a, n) /\ F[1 .. n] = t[n]
  BY <1>1, <1>4, <1>5, AddsRunning
<1> QED  BY <1>2, <1>6 DEF a

-------------------------------------------------------------------------------
(* What changes the account *)

LEMMA CapacityFacts ==
    ASSUME NEW frames \in Seq(Frame)
    PROVE  /\ Capacity(frames) \in Nat
           /\ frames = << >> => Capacity(frames) = 0
           /\ \A f \in Frame : Capacity(Append(frames, f)) = Capacity(frames) + f.capacity
           /\ \A i \in 1 .. Len(frames), f \in Frame :
                 Capacity([frames EXCEPT ![i] = f]) + frames[i].capacity
                     = Capacity(frames) + f.capacity
<1> DEFINE n == Len(frames)
           a == [i \in 1 .. n |-> frames[i].capacity]
<1>1. n \in Nat /\ DOMAIN frames = 1 .. n
  OBVIOUS
<1>2. PICK t : Running(t, a, n) /\ Capacity(frames) = t[n]
  BY CapacityRunning
<1>3. Capacity(frames) \in Nat
  <2>1. n \in 0 .. n
    BY <1>1
  <2> HIDE DEF a, n
  <2> QED  BY <1>2, <2>1, RunningNat
<1>4. frames = << >> => Capacity(frames) = 0
  BY <1>2 DEF Running
<1>5. ASSUME NEW f \in Frame
      PROVE  Capacity(Append(frames, f)) = Capacity(frames) + f.capacity
  <2> DEFINE more == Append(frames, f)
             b == [i \in 1 .. Len(more) |-> more[i].capacity]
  <2>1. more \in Seq(Frame) /\ Len(more) = n + 1 /\ more[n + 1] = f
        /\ \A k \in 1 .. n : more[k] = frames[k]
    OBVIOUS
  <2>2. PICK u : Running(u, b, Len(more)) /\ Capacity(more) = u[Len(more)]
    BY <2>1, CapacityRunning
  <2>3. (\A k \in 1 .. n : a[k] = b[k]) /\ b[n + 1] = f.capacity
    BY <1>1, <2>1
  <2> HIDE DEF a, b, n, more
  <2>4. u[Len(more)] = t[n] + b[Len(more)]
    BY <1>2, <2>1, <2>2, <2>3, SumAppend
  <2> QED  BY <1>2, <2>1, <2>2, <2>3, <2>4 DEF more
<1>6. ASSUME NEW i \in 1 .. n, NEW f \in Frame
      PROVE  Capacity([frames EXCEPT ![i] = f]) + frames[i].capacity
                 = Capacity(frames) + f.capacity
  <2> DEFINE other == [frames EXCEPT ![i] = f]
             b == [k \in 1 .. Len(other) |-> other[k].capacity]
  <2>1. other \in Seq(Frame) /\ Len(other) = n /\ other[i] = f
        /\ \A k \in 1 .. n : k # i => other[k] = frames[k]
    BY <1>1
  <2>2. PICK u : Running(u, b, Len(other)) /\ Capacity(other) = u[Len(other)]
    BY <2>1, CapacityRunning
  <2>3. (\A k \in 1 .. n : k # i => a[k] = b[k]) /\ b[i] = f.capacity
        /\ a[i] = frames[i].capacity
    BY <1>1, <2>1
  <2> HIDE DEF a, b, n, other
  <2>4. u[n] + a[i] = t[n] + b[i]
    BY <1>2, <2>1, <2>2, <2>3, SumChange
  <2> QED  BY <1>2, <2>1, <2>2, <2>3, <2>4 DEF other
<1> QED  BY <1>3, <1>4, <1>5, <1>6

LEMMA TotalFacts ==
    ASSUME NEW images \in Seq(Image)
    PROVE  /\ Total(images) \in Nat
           /\ images = << >> => Total(images) = 0
           /\ \A img \in Image :
                 Total(Append(images, img)) = Total(images) + Capacity(img.frames)
           /\ \A i \in 1 .. Len(images), img \in Image :
                 Total([images EXCEPT ![i] = img]) + Capacity(images[i].frames)
                     = Total(images) + Capacity(img.frames)
           /\ \A i \in 1 .. Len(images) :
                 /\ RemoveAt(images, i) \in Seq(Image)
                 /\ Total(images) = Total(RemoveAt(images, i)) + Capacity(images[i].frames)
<1> DEFINE n == Len(images)
           a == [i \in 1 .. n |-> Capacity(images[i].frames)]
<1>1. n \in Nat /\ DOMAIN images = 1 .. n
  OBVIOUS
<1>2. PICK t : Running(t, a, n) /\ Total(images) = t[n]
  BY TotalRunning
<1>3. Total(images) \in Nat
  <2>1. n \in 0 .. n
    BY <1>1
  <2> HIDE DEF a, n
  <2> QED  BY <1>2, <2>1, RunningNat
<1>4. images = << >> => Total(images) = 0
  BY <1>2 DEF Running
<1>5. ASSUME NEW img \in Image
      PROVE  Total(Append(images, img)) = Total(images) + Capacity(img.frames)
  <2> DEFINE more == Append(images, img)
             b == [i \in 1 .. Len(more) |-> Capacity(more[i].frames)]
  <2>1. more \in Seq(Image) /\ Len(more) = n + 1 /\ more[n + 1] = img
        /\ \A k \in 1 .. n : more[k] = images[k]
    OBVIOUS
  <2>2. PICK u : Running(u, b, Len(more)) /\ Total(more) = u[Len(more)]
    BY <2>1, TotalRunning
  <2>3. (\A k \in 1 .. n : a[k] = b[k]) /\ b[n + 1] = Capacity(img.frames)
    BY <1>1, <2>1
  <2> HIDE DEF a, b, n, more
  <2>4. u[Len(more)] = t[n] + b[Len(more)]
    BY <1>2, <2>1, <2>2, <2>3, SumAppend
  <2> QED  BY <1>2, <2>1, <2>2, <2>3, <2>4 DEF more
<1>6. ASSUME NEW i \in 1 .. n, NEW img \in Image
      PROVE  Total([images EXCEPT ![i] = img]) + Capacity(images[i].frames)
                 = Total(images) + Capacity(img.frames)
  <2> DEFINE other == [images EXCEPT ![i] = img]
             b == [k \in 1 .. Len(other) |-> Capacity(other[k].frames)]
  <2>1. other \in Seq(Image) /\ Len(other) = n /\ other[i] = img
        /\ \A k \in 1 .. n : k # i => other[k] = images[k]
    BY <1>1
  <2>2. PICK u : Running(u, b, Len(other)) /\ Total(other) = u[Len(other)]
    BY <2>1, TotalRunning
  <2>3. (\A k \in 1 .. n : k # i => a[k] = b[k]) /\ b[i] = Capacity(img.frames)
        /\ a[i] = Capacity(images[i].frames)
    BY <1>1, <2>1
  <2> HIDE DEF a, b, n, other
  <2>4. u[n] + a[i] = t[n] + b[i]
    BY <1>2, <2>1, <2>2, <2>3, SumChange
  <2> QED  BY <1>2, <2>1, <2>2, <2>3, <2>4 DEF other
<1>7. ASSUME NEW i \in 1 .. n
      PROVE  /\ RemoveAt(images, i) \in Seq(Image)
             /\ Total(images) = Total(RemoveAt(images, i)) + Capacity(images[i].frames)
  <2> DEFINE fewer == RemoveAt(images, i)
             b == [k \in 1 .. Len(fewer) |-> Capacity(fewer[k].frames)]
             before == SubSeq(images, 1, i - 1)
             behind == SubSeq(images, i + 1, n)
  <2>0. \A k \in 1 .. n : images[k] \in Image
    OBVIOUS
  <2>1. /\ before \in Seq(Image) /\ Len(before) = i - 1
        /\ \A k \in 1 .. i - 1 : before[k] = images[k]
    <3>1. before = [k \in 1 .. i - 1 |-> images[k]]
      BY <1>1
    <3>2. i - 1 \in Nat /\ \A k \in 1 .. i - 1 : images[k] \in Image
      BY <1>1, <2>0
    <3> HIDE DEF before, n, a
    <3> QED  BY <3>1, <3>2
  <2>2. /\ behind \in Seq(Image) /\ Len(behind) = n - i
        /\ \A k \in 1 .. n - i : behind[k] = images[i + k]
    <3>1. behind = [k \in 1 .. n - i |-> images[(i + 1) + k - 1]]
      BY <1>1
    <3>2. n - i \in Nat /\ \A k \in 1 .. n - i : (i + 1) + k - 1 = i + k /\ images[i + k] \in Image
      BY <1>1, <2>0
    <3> HIDE DEF behind, n, a
    <3> QED  BY <3>1, <3>2
  <2>3. fewer = before \o behind
    BY DEF RemoveAt
  <2>4. /\ fewer \in Seq(Image) /\ Len(fewer) = n - 1
        /\ \A k \in 1 .. i - 1 : fewer[k] = images[k]
        /\ \A k \in i .. n - 1 : fewer[k] = images[k + 1]
    <3> HIDE DEF before, behind, fewer, a, n
    <3>1. fewer \in Seq(Image) /\ Len(fewer) = Len(before) + Len(behind)
      BY ONLY <2>1, <2>2, <2>3, ConcatProperties
    <3>1a. Len(fewer) = n - 1
      BY <1>1, <2>1, <2>2, <3>1
    <3>2. ASSUME NEW k \in 1 .. i - 1 PROVE fewer[k] = images[k]
      BY <1>1, <2>1, <2>2, <2>3
    <3>3. ASSUME NEW k \in i .. n - 1 PROVE fewer[k] = images[k + 1]
      <4>1. k - (i - 1) \in 1 .. n - i /\ i + (k - (i - 1)) = k + 1
        BY <1>1
      <4>2. fewer[k] = behind[k - (i - 1)]
        BY <1>1, <2>1, <2>2, <2>3
      <4> QED  BY <2>2, <4>1, <4>2
    <3> QED  BY <3>1, <3>1a, <3>2, <3>3
  <2>5. PICK u : Running(u, b, Len(fewer)) /\ Total(fewer) = u[Len(fewer)]
    BY <2>4, TotalRunning
  <2>6. /\ \A k \in 1 .. i - 1 : a[k] = b[k]
        /\ \A k \in i .. n - 1 : a[k + 1] = b[k]
        /\ a[i] = Capacity(images[i].frames)
    <3> HIDE DEF fewer
    <3> QED  BY <1>1, <2>4
  <2> HIDE DEF a, b, n, fewer
  <2>7. t[n] = u[Len(fewer)] + a[i]
    <3>1. n = Len(fewer) + 1 /\ n - 1 = Len(fewer)
      BY <1>1, <2>4
    <3>2. \A k \in i .. Len(fewer) : a[k + 1] = b[k]
      BY <2>6, <3>1
    <3> DEFINE m == Len(fewer)
    <3>3. /\ Running(t, a, n) /\ Running(u, b, m) /\ n = m + 1 /\ i \in 1 .. n
          /\ \A k \in 1 .. i - 1 : a[k] = b[k]
          /\ \A k \in i .. m : a[k + 1] = b[k]
      BY <1>2, <2>5, <2>6, <3>1, <3>2
    <3> HIDE DEF m
    <3>4. t[n] = u[m] + a[i]
      BY <3>3, SumRemove
    <3> QED  BY <3>4 DEF m
  <2> QED  BY <1>2, <2>4, <2>5, <2>6, <2>7 DEF fewer
<1> QED  BY <1>3, <1>4, <1>5, <1>6, <1>7

\* An image is found where its number is.
LEMMA FindFacts ==
    ASSUME NEW k \in Store, NEW id
    PROVE  Find(k, id) = 0 \/ (Find(k, id) \in 1 .. Len(k.images) /\ k.images[Find(k, id)].id = id)
<1> DEFINE I == {i \in 1 .. Len(k.images) : k.images[i].id = id}
<1>1. Len(k.images) \in Nat
  BY DEF Store
<1>2. Find(k, id) = IF I # {} THEN CHOOSE x \in I : \A y \in I : x <= y ELSE 0
  BY DEF Find, SelectInSeq, Min
<1>3. ASSUME I # {} PROVE \E x \in I : \A y \in I : x <= y
  <2>1. I \in SUBSET (1 .. Len(k.images))
    OBVIOUS
  <2> HIDE DEF I
  <2>2. \E x \in I : \A y \in I : x <= y
    BY <1>1, <1>3, <2>1, SmallestIn
  <2> QED  BY <2>2
<1>4. I # {} => Find(k, id) \in I
  <2> HIDE DEF I
  <2> QED  BY <1>2, <1>3
<1> QED  BY <1>2, <1>4

\* One image put in the place of another.
Put(k, at, img) == [k.images EXCEPT ![at] = img]

LEMMA PutFacts ==
    ASSUME NEW k \in Store, NEW at \in 1 .. Len(k.images), NEW img \in Image
    PROVE  /\ Put(k, at, img) \in Seq(Image)
           /\ Len(Put(k, at, img)) = Len(k.images)
           /\ Put(k, at, img)[at] = img
           /\ k.images[at] \in Image
           /\ Total(k.images) \in Nat /\ Total(Put(k, at, img)) \in Nat
           /\ Capacity(k.images[at].frames) \in Nat /\ Capacity(img.frames) \in Nat
           /\ Total(Put(k, at, img)) + Capacity(k.images[at].frames)
                  = Total(k.images) + Capacity(img.frames)
<1>1. k.images \in Seq(Image)
  BY DEF Store
<1>2. /\ Put(k, at, img) \in Seq(Image) /\ Len(Put(k, at, img)) = Len(k.images)
      /\ Put(k, at, img)[at] = img /\ k.images[at] \in Image
  BY <1>1 DEF Put
<1>3. Total(k.images) \in Nat /\ Total(Put(k, at, img)) \in Nat
  BY <1>1, <1>2, TotalFacts
<1>4. k.images[at].frames \in Seq(Frame) /\ img.frames \in Seq(Frame)
  BY <1>2 DEF Image
<1>5. Capacity(k.images[at].frames) \in Nat /\ Capacity(img.frames) \in Nat
  BY <1>4, CapacityFacts
<1>6. Total([k.images EXCEPT ![at] = img]) + Capacity(k.images[at].frames)
          = Total(k.images) + Capacity(img.frames)
  BY <1>1, TotalFacts
<1> QED  BY <1>2, <1>3, <1>5, <1>6 DEF Put

-------------------------------------------------------------------------------
(* Uploads *)

\* A new image is there for the upload; the account is that of the images.
LEMMA PlaceFacts ==
    ASSUME Limits, NEW k, Sound(k), NEW c, c.id \in Ids \cup {0}
    PROVE  LET p == Place(k, c)
           IN  /\ p[2] \in Store /\ p[1] \in 1 .. Len(p[2].images)
               /\ p[2].usage = Total(p[2].images) /\ p[2].usage <= LIMIT
               /\ p[2].images[p[1]] = NewImage(c.id)
               /\ p[2].active = k.active /\ p[2].continuing = k.continuing
<1> DEFINE img == NewImage(c.id)
           at == Find(k, c.id)
<1>1. k \in Store /\ k.images \in Seq(Image) /\ Len(k.images) \in Nat /\ k.usage = Total(k.images)
      /\ k.usage <= LIMIT /\ k.usage \in Nat
  BY DEF Sound, Store
<1>2. img \in Image /\ img.frames = << >> /\ << >> \in Seq(Frame)
  BY DEF NewImage, Image
<1>3. Capacity(img.frames) = 0
  BY <1>2, CapacityFacts
<1> HIDE DEF img
<1> DEFINE p == Place(k, c)
<1> SUFFICES /\ p[2] \in Store /\ p[1] \in 1 .. Len(p[2].images)
             /\ p[2].usage = Total(p[2].images) /\ p[2].usage <= LIMIT
             /\ p[2].images[p[1]] = img
             /\ p[2].active = k.active /\ p[2].continuing = k.continuing
  BY DEF img
<1>4. CASE at = 0
  <2> DEFINE more == Append(k.images, img)
  <2>1. p[1] = Len(k.images) + 1 /\ p[2] = [k EXCEPT !.images = more]
    BY <1>4 DEF Place, img
  <2>2. more \in Seq(Image) /\ Len(more) = Len(k.images) + 1 /\ more[Len(k.images) + 1] = img
    BY <1>1, <1>2
  <2>3. Total(more) = k.usage
    BY <1>1, <1>2, <1>3, TotalFacts
  <2> HIDE DEF more, p
  <2>4. /\ p[2] \in Store /\ p[2].images = more /\ p[2].usage = k.usage
        /\ p[2].active = k.active /\ p[2].continuing = k.continuing
    BY <1>1, <2>1, <2>2 DEF Store
  <2> QED  BY <1>1, <2>1, <2>2, <2>3, <2>4
<1>5. CASE at # 0
  <2>1. at \in 1 .. Len(k.images)
    BY <1>1, <1>5, FindFacts
  <2> DEFINE put == Put(k, at, img)
  <2>2. p[1] = at /\ p[2] = [k EXCEPT !.images = put,
                                     !.usage = Without(k.usage, k.images[at].frames)]
    BY <1>1, <1>5 DEF Place, img, Put, Store
  <2> HIDE DEF at, p
  <2>3. /\ put \in Seq(Image) /\ Len(put) = Len(k.images)
        /\ put[at] = img /\ Total(put) \in Nat /\ Total(k.images) \in Nat
        /\ Capacity(k.images[at].frames) \in Nat
        /\ Total(put) + Capacity(k.images[at].frames) = Total(k.images) + Capacity(img.frames)
    BY <1>1, <1>2, <2>1, PutFacts
  <2> HIDE DEF put
  <2>4. Without(k.usage, k.images[at].frames) = Total(put) /\ Total(put) <= LIMIT
    BY <1>1, <1>3, <2>3 DEF Without, Limits
  <2>5. /\ p[2] \in Store /\ p[2].images = put /\ p[2].usage = Total(put)
        /\ p[2].active = k.active /\ p[2].continuing = k.continuing
    BY <1>1, <2>2, <2>3, <2>4 DEF Store
  <2> QED  BY <2>1, <2>2, <2>3, <2>4, <2>5
<1> QED  BY <1>4, <1>5

\* The upload has a frame of its own, with memory and still empty, or there is none.
LEMMA AddFrameFacts ==
    ASSUME Limits, NEW k \in Store, k.usage = Total(k.images), k.usage <= LIMIT,
           NEW at \in 1 .. Len(k.images), NEW ok \in BOOLEAN
    PROVE  LET x == AddFrame(k, at, ok)
           IN  /\ Sound(x) /\ x.continuing = k.continuing
               /\ x.active # 0 => /\ x.active = at
                                  /\ x.images[at].id = k.images[at].id
                                  /\ Last(x.images[at].frames).size = 0
<1> DEFINE old == k.images[at]
           frame(n) == [capacity |-> n, size |-> 0]
           img(n) == [old EXCEPT !.frames = Append(old.frames, frame(n))]
<1>1. k.images \in Seq(Image) /\ k.usage \in Nat /\ old \in Image /\ old.frames \in Seq(Frame)
      /\ Capacity(old.frames) \in Nat
  <2>1. k.images \in Seq(Image) /\ k.usage \in Nat /\ old \in Image
    BY DEF Store
  <2>2. old.frames \in Seq(Frame)
    BY <2>1 DEF Image
  <2> QED  BY <2>1, <2>2, CapacityFacts
<1>2. ASSUME NEW n \in {0, 1}
      PROVE  LET y == [k EXCEPT !.images[at].frames = Append(@, frame(n))]
             IN  /\ y = [k EXCEPT !.images = Put(k, at, img(n))]
                 /\ Put(k, at, img(n)) \in Seq(Image)
                 /\ Len(Put(k, at, img(n))) = Len(k.images)
                 /\ Put(k, at, img(n))[at] = img(n)
                 /\ Total(Put(k, at, img(n))) = k.usage + n
                 /\ img(n).id = old.id /\ Last(img(n).frames) = frame(n) /\ img(n).frames # << >>
  <2> DEFINE more == Append(old.frames, frame(n))
             new == img(n)
  <2>1. frame(n) \in Frame /\ frame(n).capacity = n
    BY DEF Frame
  <2>2. Capacity(more) = Capacity(old.frames) + n
    BY <1>1, <2>1, CapacityFacts
  <2>3. more \in Seq(Frame) /\ Len(more) = Len(old.frames) + 1 /\ Len(old.frames) \in Nat
        /\ more[Len(old.frames) + 1] = frame(n)
    BY <1>1, <2>1
  <2>4. more # << >> /\ Last(more) = frame(n)
    BY <2>3 DEF Last
  <2>5. [k EXCEPT !.images[at].frames = Append(@, frame(n))] = [k EXCEPT !.images = Put(k, at, new)]
    BY <1>1 DEF Put, Store, Image
  <2>6. new \in Image /\ new.frames = more /\ new.id = old.id
    BY <1>1, <2>3 DEF Image
  <2> HIDE DEF new, more
  <2>7. /\ Put(k, at, new) \in Seq(Image) /\ Len(Put(k, at, new)) = Len(k.images)
        /\ Put(k, at, new)[at] = new /\ Total(Put(k, at, new)) \in Nat
        /\ Total(Put(k, at, new)) + Capacity(old.frames) = k.usage + Capacity(new.frames)
    <3>1. new \in Image
      BY <2>6
    <3> QED  BY <3>1, PutFacts
  <2>8. Total(Put(k, at, new)) = k.usage + n
    BY <1>1, <2>2, <2>6, <2>7
  <2> QED  BY <2>4, <2>5, <2>6, <2>7, <2>8 DEF new
<1> DEFINE x == AddFrame(k, at, ok)
<1> SUFFICES /\ Sound(x) /\ x.continuing = k.continuing
             /\ x.active # 0 => /\ x.active = at
                                /\ x.images[at].id = old.id
                                /\ Last(x.images[at].frames).size = 0
  OBVIOUS
<1>3. CASE k.usage + 1 > LIMIT
  <2> DEFINE put == Put(k, at, img(0))
  <2>1. x = [[k EXCEPT !.images[at].frames = Append(@, frame(0))] EXCEPT !.active = 0]
    BY <1>1, <1>3 DEF AddFrame, Limits
  <2>2. /\ [k EXCEPT !.images[at].frames = Append(@, frame(0))] = [k EXCEPT !.images = put]
        /\ put \in Seq(Image) /\ Total(put) = k.usage
    BY <1>1, <1>2
  <2> HIDE DEF put, x, old, frame, img
  <2>3. /\ x \in Store /\ x.images = put /\ x.usage = k.usage /\ x.active = 0
        /\ x.continuing = k.continuing
    BY <2>1, <2>2 DEF Store
  <2> QED  BY <2>2, <2>3 DEF Sound, Uploading
<1>4. CASE k.usage + 1 <= LIMIT /\ ok
  <2> DEFINE new == img(1)
             put == Put(k, at, new)
  <2>1. x = [[k EXCEPT !.images[at].frames = Append(@, frame(1))]
                EXCEPT !.usage = @ + 1, !.active = at]
    BY <1>1, <1>4 DEF AddFrame, Limits
  <2>2. /\ [k EXCEPT !.images[at].frames = Append(@, frame(1))] = [k EXCEPT !.images = put]
        /\ put \in Seq(Image) /\ Len(put) = Len(k.images)
        /\ put[at] = new /\ Total(put) = k.usage + 1
        /\ new.id = old.id /\ new.frames # << >> /\ Last(new.frames) = frame(1)
    BY <1>2
  <2>3. frame(1).capacity = 1 /\ frame(1).size = 0 /\ at \in Nat
    BY <1>1 DEF Store
  <2> HIDE DEF new, put, x, old, frame, img
  <2>4. x = [k EXCEPT !.images = put, !.usage = k.usage + 1, !.active = at]
    BY <2>1, <2>2 DEF Store
  <2>5. k.usage + 1 \in Nat
    BY <1>1
  <2>6. /\ x \in Store /\ x.images = put /\ x.usage = k.usage + 1 /\ x.active = at
        /\ x.continuing = k.continuing
    BY <2>2, <2>3, <2>4, <2>5 DEF Store
  <2> QED  BY <1>4, <2>2, <2>3, <2>6 DEF Sound, Uploading
<1>5. CASE k.usage + 1 <= LIMIT /\ ~ok
  <2>1. x = [k EXCEPT !.active = 0]
    BY <1>1, <1>5 DEF AddFrame, Limits
  <2> HIDE DEF x
  <2>2. /\ x \in Store /\ x.images = k.images /\ x.usage = k.usage /\ x.active = 0
        /\ x.continuing = k.continuing
    BY <2>1 DEF Store
  <2> QED  BY <2>2 DEF Sound, Uploading
<1>6. k.usage + 1 > LIMIT \/ k.usage + 1 <= LIMIT
  BY <1>1 DEF Limits
<1> QED  BY <1>3, <1>4, <1>5, <1>6

\* What an upload goes on from: image, number and bytes are those it had, and some
\* more of them; or it is given up.
Further(k, x, n) ==
    /\ Sound(x) /\ x.continuing = k.continuing
    /\ x.active # 0 => /\ x.active = k.active
                       /\ x.images[x.active].id = k.images[k.active].id
                       /\ Last(x.images[x.active].frames).size
                              = Last(k.images[k.active].frames).size + n

\* What is left of a command that is not followed, or of one without memory.
LEMMA PrepareFacts ==
    ASSUME Limits, NEW k, Sound(k), k.active # 0 => k.continuing,
           NEW c \in Fresh \cup Chunk, NEW ok \in BOOLEAN
    PROVE  LET x == Prepare(k, c, ok)
           IN  /\ k.active # 0 => x = k
               /\ k.active = 0 => /\ Sound(x) /\ x.continuing = k.continuing
                                  /\ x.active # 0 => /\ x.images[x.active].id = c.id
                                                     /\ Last(x.images[x.active].frames).size = 0
<1> DEFINE x == Prepare(k, c, ok)
<1>1. k \in Store /\ c.id \in Ids \cup {0}
  BY DEF Sound, Fresh, Chunk
<1>2. CASE k.active # 0
  BY <1>2 DEF Prepare
<1>3. CASE k.active = 0
  <2>1. CASE c.big \/ c.action \notin {"t", "f"}
    BY <1>3, <2>1 DEF Prepare
  <2>2. CASE ~(c.big \/ c.action \notin {"t", "f"}) /\ c.action = "f"
    <3>1. x = IF Find(k, c.id) = 0 THEN k ELSE AddFrame(k, Find(k, c.id), ok)
      BY <1>3, <2>2 DEF Prepare
    <3>2. CASE Find(k, c.id) = 0
      BY <1>3, <3>1, <3>2
    <3>3. CASE Find(k, c.id) # 0
      <4> DEFINE at == Find(k, c.id)
      <4>1. at \in 1 .. Len(k.images) /\ k.images[at].id = c.id /\ x = AddFrame(k, at, ok)
        BY <1>1, <3>1, <3>3, FindFacts
      <4> HIDE DEF at, x
      <4> QED  BY <1>1, <1>3, <4>1, AddFrameFacts DEF Sound, x
    <3> QED  BY <3>2, <3>3
  <2>3. CASE ~(c.big \/ c.action \notin {"t", "f"}) /\ c.action # "f"
    <3> DEFINE p == Place(k, c)
    <3>1. x = AddFrame(p[2], p[1], ok)
      BY <1>3, <2>3 DEF Prepare
    <3>2. /\ p[2] \in Store /\ p[1] \in 1 .. Len(p[2].images)
          /\ p[2].usage = Total(p[2].images) /\ p[2].usage <= LIMIT
          /\ p[2].images[p[1]] = NewImage(c.id)
          /\ p[2].active = k.active /\ p[2].continuing = k.continuing
      BY <1>1, PlaceFacts
    <3>3. NewImage(c.id).id = c.id
      BY DEF NewImage
    <3> HIDE DEF p, x
    <3>4. /\ Sound(x) /\ x.continuing = k.continuing
          /\ x.active # 0 => /\ x.active = p[1]
                             /\ x.images[p[1]].id = p[2].images[p[1]].id
                             /\ Last(x.images[p[1]].frames).size = 0
      BY <3>1, <3>2, AddFrameFacts
    <3> QED  BY <1>3, <3>2, <3>3, <3>4 DEF x
  <2> QED  BY <2>1, <2>2, <2>3
<1> QED  BY <1>2, <1>3

\* A block more is stored, or the upload is given up.
LEMMA StoreBlockFacts ==
    ASSUME Limits, NEW k, Sound(k), NEW ok \in BOOLEAN
    PROVE  Further(k, StoreBlock(k, ok), 1)
<1>1. CASE k.active = 0
  BY <1>1 DEF StoreBlock, Further
<1>2. CASE k.active # 0
  <2> DEFINE at == k.active
             img == k.images[at]
             last == Len(img.frames)
             frame == img.frames[last]
             g == Grow(k, ok)
             x == StoreBlock(k, ok)
             with(f) == [img EXCEPT !.frames = [@ EXCEPT ![last] = f]]
  <2>1. /\ k \in Store /\ at \in 1 .. Len(k.images) /\ img.frames # << >> /\ at \in Nat
        /\ k.usage = Total(k.images) /\ k.usage <= LIMIT /\ k.usage \in Nat
        /\ k.images \in Seq(Image)
    BY <1>2 DEF Sound, Uploading, Store
  <2>2. img \in Image /\ img.frames \in Seq(Frame) /\ last \in 1 .. Len(img.frames)
        /\ last \in Nat
    <3>1. img \in Image
      BY <2>1
    <3>2. img.frames \in Seq(Frame)
      BY <3>1 DEF Image
    <3> QED  BY <2>1, <3>1, <3>2
  <2>3. frame \in Frame /\ frame.capacity \in Nat /\ frame.size \in Nat /\ frame.capacity > 0
        /\ Last(img.frames) = frame
    <3>1. frame \in Frame /\ Last(img.frames) = frame
      BY <2>2 DEF Last
    <3> QED  BY <1>2, <3>1 DEF Frame, Sound, Uploading
  <2>4. ASSUME NEW f \in Frame
        PROVE  LET put == Put(k, at, with(f))
               IN  /\ put \in Seq(Image) /\ Len(put) = Len(k.images) /\ put[at] = with(f)
                   /\ with(f).id = img.id /\ with(f).frames # << >>
                   /\ Last(with(f).frames) = f /\ Len(with(f).frames) = last
                   /\ with(f).frames = [img.frames EXCEPT ![last] = f]
                   /\ Total(put) \in Nat
                   /\ Total(put) + frame.capacity = k.usage + f.capacity
    <3> DEFINE frames == [img.frames EXCEPT ![last] = f]
               new == with(f)
               put == Put(k, at, new)
    <3>1. frames \in Seq(Frame) /\ Len(frames) = last /\ frames[last] = f /\ frames # << >>
      BY <2>2
    <3>2. Capacity(frames) + frame.capacity = Capacity(img.frames) + f.capacity
          /\ Capacity(frames) \in Nat /\ Capacity(img.frames) \in Nat
      BY <2>2, <3>1, CapacityFacts
    <3>3. new \in Image /\ new.frames = frames /\ new.id = img.id
      BY <2>2, <3>1 DEF Image
    <3>4. Last(frames) = f
      BY <3>1 DEF Last
    <3> HIDE DEF frames, new
    <3>5. /\ put \in Seq(Image) /\ Len(put) = Len(k.images) /\ put[at] = new
          /\ Total(put) \in Nat
          /\ Total(put) + Capacity(img.frames) = Total(k.images) + Capacity(new.frames)
      BY <2>1, <3>3, PutFacts
    <3>6. Total(put) + frame.capacity = k.usage + f.capacity
      <4> HIDE DEF put, img, frame
      <4>1. f.capacity \in Nat
        BY DEF Frame
      <4>2. \A a, b, c, d, e, u \in Nat : a + c = u + d /\ d + e = c + b => a + e = u + b
        OBVIOUS
      <4>3. Total(put) + Capacity(img.frames) = k.usage + Capacity(frames)
        BY <2>1, <3>3, <3>5
      <4>4. /\ Total(put) \in Nat /\ Capacity(img.frames) \in Nat /\ k.usage \in Nat
            /\ Capacity(frames) \in Nat /\ frame.capacity \in Nat
        BY <2>1, <2>3, <3>2, <3>5
      <4> QED  BY ONLY <3>2, <4>1, <4>2, <4>3, <4>4
    <3> QED  BY <3>1, <3>3, <3>4, <3>5, <3>6 DEF new, frames
  <2>5. ASSUME NEW f \in Frame, NEW u \in Nat, f.capacity > 0, f.size = frame.size + 1,
               u + frame.capacity = k.usage + f.capacity, u <= LIMIT,
               x = [k EXCEPT !.images = Put(k, at, with(f)), !.usage = u]
        PROVE  Further(k, x, 1)
    <3> DEFINE new == with(f)
               put == Put(k, at, new)
    <3>1. /\ put \in Seq(Image) /\ Len(put) = Len(k.images) /\ put[at] = new
          /\ new.id = img.id /\ new.frames # << >> /\ Last(new.frames) = f
          /\ Total(put) \in Nat /\ Total(put) + frame.capacity = k.usage + f.capacity
      BY <2>4, <2>5
    <3>2. Total(put) = u
      <4> HIDE DEF put, frame
      <4> QED  BY <2>1, <2>3, <2>5, <3>1
    <3>3. x = [k EXCEPT !.images = put, !.usage = u]
      BY <2>5
    <3>4. Last(k.images[k.active].frames).size = frame.size
      BY <2>3
    <3> HIDE DEF new, put, frame, x, g
    <3>5. /\ x \in Store /\ x.images = put /\ x.usage = u /\ x.active = k.active
          /\ x.continuing = k.continuing
      BY <2>1, <2>5, <3>1, <3>3 DEF Store
    <3>6. Sound(x)
      BY <2>1, <2>5, <3>1, <3>2, <3>5 DEF Sound, Uploading
    <3> QED  BY <2>5, <3>1, <3>4, <3>5, <3>6 DEF Further
  <2>6. CASE frame.size < frame.capacity
    <3> DEFINE f == [frame EXCEPT !.size = @ + 1]
    <3>1. f \in Frame /\ f.capacity = frame.capacity /\ f.size = frame.size + 1
      BY <2>3 DEF Frame
    <3>2. g = k
      BY <2>3, <2>6 DEF Grow
    <3>3. x = [k EXCEPT !.images[at].frames[last].size = @ + 1]
      BY <1>2, <2>1, <3>2 DEF StoreBlock
    <3>4. x = [k EXCEPT !.images = Put(k, at, with(f)), !.usage = k.usage]
      BY <2>1, <2>2, <2>3, <3>3 DEF Put, Store, Image, Frame
    <3> HIDE DEF f, x, g
    <3> QED  BY <2>1, <2>3, <2>5, <3>1, <3>4 DEF x
  <2>7. CASE ~(frame.size < frame.capacity) /\ ok /\ k.usage + frame.capacity <= LIMIT
    <3> DEFINE f == [capacity |-> 2 * frame.capacity, size |-> frame.size + 1]
    <3> DEFINE h == [frame EXCEPT !.capacity = 2 * @]
    <3>1. f \in Frame /\ f.capacity = 2 * frame.capacity /\ f.size = frame.size + 1
          /\ f.capacity > 0 /\ h \in Frame /\ f = [h EXCEPT !.size = @ + 1]
      <4> HIDE DEF frame
      <4>1. 2 * frame.capacity \in Nat /\ 2 * frame.capacity > 0 /\ frame.size + 1 \in Nat
        BY <2>3
      <4>2. frame = [capacity |-> frame.capacity, size |-> frame.size]
        BY <2>3 DEF Frame
      <4>3. h = [capacity |-> 2 * frame.capacity, size |-> frame.size]
        BY <4>2
      <4>4. f \in Frame /\ f.capacity = 2 * frame.capacity /\ f.size = frame.size + 1
        BY <4>1 DEF Frame
      <4>5. h \in Frame /\ f = [h EXCEPT !.size = @ + 1]
        <5> HIDE DEF h
        <5>1. h.size = frame.size /\ h \in Frame
          BY <2>3, <4>1, <4>3 DEF Frame
        <5> QED  BY <4>3, <5>1
      <4> QED  BY <4>1, <4>4, <4>5
    <3>2. g = [k EXCEPT !.images[at].frames[last].capacity = 2 * @, !.usage = @ + frame.capacity]
      BY <2>3, <2>7 DEF Grow
    <3> DEFINE put == Put(k, at, with(h))
    <3>3. g = [k EXCEPT !.images = put, !.usage = k.usage + frame.capacity]
      <4> HIDE DEF g
      <4> QED  BY <3>2 DEF Put
    <3>4. /\ put[at] = with(h) /\ with(h).frames = [img.frames EXCEPT ![last] = h]
          /\ Len(with(h).frames) = last /\ with(h).frames # << >> /\ Len(put) = Len(k.images)
          /\ put \in Seq(Image)
      BY <2>4, <3>1
    <3>5. g.active = at /\ g.images = put
      BY <2>1, <3>3 DEF Store
    <3>5a. x = [g EXCEPT !.images[at].frames[last].size = @ + 1]
      BY <1>2, <2>1, <3>4, <3>5 DEF StoreBlock
    <3>5e. with(h).frames[last] = h /\ [with(h).frames EXCEPT ![last] = f] = with(f).frames
      <4>1. with(f).frames = [img.frames EXCEPT ![last] = f]
        BY <2>4, <3>1
      <4> HIDE DEF h, f, frame, with
      <4> QED  BY <2>2, <3>4, <4>1
    <3>5b. x = [g EXCEPT !.images = [put EXCEPT ![at] = [with(h) EXCEPT !.frames =
                   [with(h).frames EXCEPT ![last] = f]]]]
      <4>1. f = [h EXCEPT !.size = @ + 1]
        BY <3>1
      <4> HIDE DEF x, h, put, g, f, with
      <4> QED  BY <3>4, <3>5, <3>5a, <3>5e, <4>1
    <3>5c. [with(h).frames EXCEPT ![last] = f] = with(f).frames
      BY <3>5e
    <3>5d. [with(h) EXCEPT !.frames = with(f).frames] = with(f)
      BY <2>2 DEF Image
    <3>6. x = [k EXCEPT !.images = Put(k, at, with(f)), !.usage = k.usage + frame.capacity]
      <4>1. [put EXCEPT ![at] = with(f)] = Put(k, at, with(f))
        <5> HIDE DEF f, h
        <5> QED  BY <2>1 DEF Put
      <4> HIDE DEF x, h, put, g, f, frame
      <4>2. x = [g EXCEPT !.images = [put EXCEPT ![at] = with(f)]]
        BY <3>5b, <3>5c, <3>5d
      <4> QED  BY <2>1, <3>3, <4>1, <4>2 DEF Store
    <3>7. k.usage + frame.capacity \in Nat
          /\ (k.usage + frame.capacity) + frame.capacity = k.usage + f.capacity
      <4> HIDE DEF frame, f
      <4> QED  BY <2>1, <2>3, <3>1
    <3> HIDE DEF f, x, g
    <3> QED  BY <2>5, <2>7, <3>1, <3>6, <3>7 DEF x
  <2>8. CASE ~(frame.size < frame.capacity) /\ ~(ok /\ k.usage + frame.capacity <= LIMIT)
    <3>1. g = [k EXCEPT !.active = 0]
      BY <2>3, <2>8 DEF Grow
    <3>2. x = g
      BY <1>2, <2>1, <3>1 DEF StoreBlock, Store
    <3> HIDE DEF x, g
    <3>3. /\ x \in Store /\ x.images = k.images /\ x.usage = k.usage /\ x.active = 0
          /\ x.continuing = k.continuing
      BY <2>1, <3>1, <3>2 DEF Store
    <3> QED  BY <2>1, <3>3 DEF Further, Sound, Uploading, x
  <2> QED  BY <2>6, <2>7, <2>8
<1> QED  BY <1>1, <1>2

\* The recursion by which FoldLeft stores n blocks.
Stores(F, k, ok, n) ==
    F = [S \in SUBSET (1 .. n) |->
            IF S = {} THEN k
            ELSE LET b == CHOOSE x \in S : \A z \in S : x >= z
                 IN  StoreBlock(F[S \ {b}], ok)]

\* It has a solution for any number of blocks.
LEMMA StoresExists ==
    ASSUME NEW k, NEW ok, NEW n \in Nat
    PROVE  \E F : Stores(F, k, ok, n)
<1> DEFINE K == {m \in Nat : \E F : Stores(F, k, ok, m)}
           Largest(S) == CHOOSE x \in S : \A z \in S : x >= z
<1>1. 0 \in K
  <2> DEFINE F == [S \in SUBSET (1 .. 0) |-> k]
  <2>1. \A S \in SUBSET (1 .. 0) : S = {}
    OBVIOUS
  <2>2. Stores(F, k, ok, 0)
    BY <2>1 DEF Stores
  <2> QED  BY <2>2
<1>2. ASSUME NEW m \in Nat, m \in K PROVE m + 1 \in K
  <2>1. PICK F : Stores(F, k, ok, m)
    BY <1>2
  <2> DEFINE G == [S \in SUBSET (1 .. m + 1) |->
                     IF m + 1 \in S THEN StoreBlock(F[S \ {m + 1}], ok) ELSE F[S]]
  <2>2. ASSUME NEW S \in SUBSET (1 .. m + 1)
        PROVE  G[S] = IF S = {} THEN k ELSE StoreBlock(G[S \ {Largest(S)}], ok)
    <3>1. CASE m + 1 \in S
      <4>1. Largest(S) = m + 1 /\ S # {}
        <5>1. \A x \in S : x \in Int /\ m + 1 >= x
          OBVIOUS
        <5>2. \A x \in S : (\A z \in S : x >= z) => x = m + 1
          BY <3>1, <5>1
        <5> QED  BY <3>1, <5>1, <5>2
      <4>2. m + 1 \notin S \ {m + 1} /\ S \ {m + 1} \in SUBSET (1 .. m + 1)
        OBVIOUS
      <4>3. G[S \ {m + 1}] = F[S \ {m + 1}]
        BY <4>2
      <4> QED  BY <3>1, <4>1, <4>3
    <3>2. CASE m + 1 \notin S
      <4>1. S \in SUBSET (1 .. m)
        BY <3>2
      <4>2. F[S] = IF S = {} THEN k ELSE StoreBlock(F[S \ {Largest(S)}], ok)
        BY <2>1, <4>1 DEF Stores
      <4>3. G[S] = F[S]
        BY <3>2
      <4>4. m + 1 \notin S \ {Largest(S)} /\ S \ {Largest(S)} \in SUBSET (1 .. m + 1)
        BY <3>2
      <4>5. G[S \ {Largest(S)}] = F[S \ {Largest(S)}]
        BY <4>4
      <4> QED  BY <4>2, <4>3, <4>5
    <3> QED  BY <3>1, <3>2
  <2>3. Stores(G, k, ok, m + 1)
    <3>1. G = [S \in SUBSET (1 .. m + 1) |-> G[S]]
      OBVIOUS
    <3> HIDE DEF G
    <3> QED  BY <2>2, <3>1 DEF Stores
  <2> HIDE DEF G
  <2> QED  BY <2>3
<1> HIDE DEF K
<1>3. n \in K
  BY <1>1, <1>2, Upward
<1> QED  BY <1>3 DEF K

\* One block after the other.
LEMMA PayloadTrail ==
    ASSUME NEW k, NEW ok, NEW n \in Nat
    PROVE  \E tr : /\ tr[0] = k /\ tr[n] = Payload(k, n, ok)
                   /\ \A i \in 1 .. n : tr[i] = StoreBlock(tr[i - 1], ok)
<1> DEFINE Solves(F) == F = [S \in SUBSET (1 .. n) |->
                               IF S = {} THEN k
                               ELSE LET b == CHOOSE x \in S : \A z \in S : x >= z
                                    IN  StoreBlock(F[S \ {b}], ok)]
           F == CHOOSE f : Solves(f)
           tr == [i \in 0 .. n |-> F[1 .. i]]
<1>1. Payload(k, n, ok) = F[1 .. n]
  BY DEF Payload, FoldLeft, MapThenFoldSet, Max
<1>2. Stores(F, k, ok, n)
  <2>1. PICK f : Stores(f, k, ok, n)
    BY StoresExists
  <2>2. Solves(f)
    BY <2>1 DEF Stores
  <2> HIDE DEF Solves
  <2>3. Solves(F)
    BY <2>2
  <2> QED  BY <2>3 DEF Solves, Stores
<1> HIDE DEF F
<1>3. tr[0] = k
  <2>1. tr[0] = F[1 .. 0] /\ 1 .. 0 = {} /\ 1 .. 0 \in SUBSET (1 .. n)
    OBVIOUS
  <2> QED  BY <1>2, <2>1 DEF Stores
<1>4. ASSUME NEW i \in 1 .. n PROVE tr[i] = StoreBlock(tr[i - 1], ok)
  <2> DEFINE S == 1 .. i
             last == CHOOSE x \in S : \A z \in S : x >= z
  <2>1. S \in SUBSET (1 .. n) /\ i \in S /\ \A z \in S : z \in Int /\ i >= z
    OBVIOUS
  <2>2. \A x \in S : (\A z \in S : x >= z) => x = i
    BY <2>1
  <2>3. last = i /\ S # {}
    BY <2>1, <2>2
  <2>4. S \ {i} = 1 .. i - 1
    OBVIOUS
  <2> HIDE DEF S
  <2>5. F[S] = StoreBlock(F[S \ {i}], ok)
    BY <1>2, <2>1, <2>3 DEF Stores
  <2>6. tr[i] = F[S] /\ tr[i - 1] = F[1 .. i - 1]
    BY DEF S
  <2> QED  BY <2>4, <2>5, <2>6
<1>5. tr[n] = F[1 .. n]
  OBVIOUS
<1> HIDE DEF tr
<1> QED  BY <1>1, <1>3, <1>4, <1>5

\* All blocks of a payload are stored, or the upload is given up.
LEMMA PayloadFacts ==
    ASSUME Limits, NEW k, Sound(k), NEW ok \in BOOLEAN, NEW n \in Nat
    PROVE  Further(k, Payload(k, n, ok), n)
<1>1. PICK tr : /\ tr[0] = k /\ tr[n] = Payload(k, n, ok)
                /\ \A i \in 1 .. n : tr[i] = StoreBlock(tr[i - 1], ok)
  BY PayloadTrail
<1> DEFINE Reached == {i \in Nat : i <= n => Further(k, tr[i], i)}
<1>2. 0 \in Reached
  <2>1. k.active # 0 => Last(k.images[k.active].frames).size \in Nat
    <3> SUFFICES ASSUME k.active # 0 PROVE Last(k.images[k.active].frames).size \in Nat
      OBVIOUS
    <3> DEFINE frames == k.images[k.active].frames
    <3>1. k.images[k.active] \in Image /\ frames # << >>
      BY DEF Sound, Store, Uploading
    <3>2. frames \in Seq(Frame) /\ frames # << >>
      BY <3>1 DEF Image
    <3> HIDE DEF frames
    <3>3. Last(frames) \in Frame
      BY <3>2 DEF Last
    <3> QED  BY <3>3 DEF Frame, frames
  <2> QED  BY <1>1, <2>1 DEF Further
<1>3. ASSUME NEW i \in Nat, i \in Reached PROVE i + 1 \in Reached
  <2> SUFFICES ASSUME i + 1 <= n PROVE Further(k, tr[i + 1], i + 1)
    OBVIOUS
  <2> DEFINE y == tr[i]
             x == tr[i + 1]
  <2>1. Further(k, y, i)
    BY <1>3
  <2>2. x = StoreBlock(y, ok)
    <3>1. i + 1 \in 1 .. n /\ (i + 1) - 1 = i
      OBVIOUS
    <3> QED  BY <1>1, <3>1
  <2> HIDE DEF x, y
  <2>3. Further(y, x, 1)
    BY <2>1, <2>2, StoreBlockFacts DEF Further
  <2>4. x.active # 0 => Last(k.images[k.active].frames).size \in Nat
    <3> SUFFICES ASSUME x.active # 0 PROVE Last(k.images[k.active].frames).size \in Nat
      OBVIOUS
    <3> DEFINE frames == k.images[k.active].frames
    <3>1. k.active # 0
      BY <2>1, <2>3 DEF Further
    <3>2. k.images[k.active] \in Image /\ frames # << >>
      BY <3>1 DEF Sound, Store, Uploading
    <3>3. frames \in Seq(Frame) /\ frames # << >>
      BY <3>2 DEF Image
    <3> HIDE DEF frames
    <3>4. Last(frames) \in Frame
      BY <3>3 DEF Last
    <3> QED  BY <3>4 DEF Frame, frames
  <2>5. Further(k, x, i + 1)
    BY <2>1, <2>3, <2>4 DEF Further
  <2> QED  BY <2>5 DEF x
<1> HIDE DEF Reached
<1>4. n \in Reached
  BY <1>2, <1>3, Upward
<1> QED  BY <1>1, <1>4 DEF Reached

\* A deletion outside an upload leaves the account right.
LEMMA DeleteFacts ==
    ASSUME Limits, NEW k, Sound(k), k.active = 0, NEW c
    PROVE  LET x == Delete(k, c)
           IN  Sound(x) /\ x.continuing = k.continuing /\ x.active = 0
<1> DEFINE x == Delete(k, c)
           at == Find(k, c.id)
<1>1. /\ k \in Store /\ k.images \in Seq(Image) /\ k.usage = Total(k.images) /\ k.usage <= LIMIT
      /\ k.usage \in Nat
  BY DEF Sound, Store
<1>2. CASE c.del = "a" /\ k.images # << >>
  <2>1. << >> \in Seq(Image)
    OBVIOUS
  <2>2. Total(<< >>) = 0
    BY <2>1, TotalFacts
  <2>3. x = [Empty EXCEPT !.continuing = k.continuing]
    BY <1>2 DEF Delete
  <2> HIDE DEF x
  <2>4. x = [images |-> << >>, active |-> 0, continuing |-> k.continuing, usage |-> 0]
    BY <2>3 DEF Empty
  <2>5. x \in Store
    BY <1>1, <2>1, <2>4 DEF Store
  <2> QED  BY <2>2, <2>4, <2>5 DEF Sound, Uploading, Limits, x
<1>3. CASE ~(c.del = "a" /\ k.images # << >>) /\ c.del = "i" /\ at # 0
  <2> DEFINE fewer == RemoveAt(k.images, at)
             freed == k.images[at].frames
  <2>1. at \in 1 .. Len(k.images)
    BY <1>1, <1>3, FindFacts
  <2>2. x = [k EXCEPT !.images = fewer, !.usage = Without(k.usage, freed)]
    BY <1>1, <1>3 DEF Delete, Store
  <2>3. fewer \in Seq(Image) /\ Total(k.images) = Total(fewer) + Capacity(freed)
    BY <1>1, <2>1, TotalFacts
  <2>4. Total(fewer) \in Nat
    BY <2>3, TotalFacts
  <2>5. Capacity(freed) \in Nat
    <3>1. k.images[at] \in Image
      BY <1>1, <2>1
    <3>2. freed \in Seq(Frame)
      BY <3>1 DEF Image
    <3> QED  BY <3>2, CapacityFacts
  <2> HIDE DEF fewer, freed, x, at
  <2>6. Without(k.usage, freed) = Total(fewer) /\ Total(fewer) <= LIMIT
    BY <1>1, <2>3, <2>4, <2>5 DEF Without, Limits
  <2>7. /\ x \in Store /\ x.images = fewer /\ x.usage = Total(fewer) /\ x.active = 0
        /\ x.continuing = k.continuing
    BY <1>1, <2>2, <2>3, <2>4, <2>6 DEF Store
  <2> QED  BY <2>6, <2>7 DEF Sound, Uploading, x
<1>4. CASE ~(c.del = "a" /\ k.images # << >>) /\ ~(c.del = "i" /\ at # 0)
  BY <1>4 DEF Delete
<1> QED  BY <1>2, <1>3, <1>4

\* The end of a command: the image is whole unless more of it follows.
LEMMA ExecuteFacts ==
    ASSUME Limits, NEW k, Sound(k), NEW c \in Fresh \cup Chunk, c.action = "d" => k.active = 0
    PROVE  LET x == Execute(k, c)
           IN  /\ Sound(x) /\ x.continuing = c.more
               /\ x.active # 0 =>
                     /\ x.active = k.active
                     /\ x.images[x.active].id = k.images[k.active].id
                     /\ x.images[x.active].complete = ~c.more
                     /\ Last(x.images[x.active].frames) = Last(k.images[k.active].frames)
<1> DEFINE done == IF k.active = 0 THEN k ELSE [k EXCEPT !.images[k.active].complete = ~c.more]
           kept == [done EXCEPT !.continuing = c.more]
           x == Execute(k, c)
<1>1. k \in Store /\ c.more \in BOOLEAN
  BY DEF Sound, Fresh, Chunk
<1>2. CASE k.active = 0
  <2>1. kept = [k EXCEPT !.continuing = c.more]
    BY <1>2
  <2> HIDE DEF kept
  <2>2. /\ kept \in Store /\ kept.images = k.images /\ kept.usage = k.usage /\ kept.active = 0
        /\ kept.continuing = c.more
    BY <1>1, <1>2, <2>1 DEF Store
  <2>3. Sound(kept)
    BY <2>2 DEF Sound, Uploading
  <2>4. x = IF c.action = "d" THEN Delete(kept, c) ELSE kept
    BY DEF Execute, kept
  <2> HIDE DEF x
  <2>5. Sound(x) /\ x.continuing = c.more /\ x.active = 0
    BY <2>2, <2>3, <2>4, DeleteFacts
  <2> QED  BY <2>5 DEF x
<1>3. CASE k.active # 0
  <2> DEFINE at == k.active
             old == k.images[at]
             new == [old EXCEPT !.complete = ~c.more]
             put == Put(k, at, new)
  <2>1. /\ at \in 1 .. Len(k.images) /\ old.frames # << >> /\ at \in Nat
        /\ Last(old.frames).capacity > 0 /\ k.images \in Seq(Image)
        /\ k.usage = Total(k.images) /\ k.usage <= LIMIT /\ k.usage \in Nat
    BY <1>1, <1>3 DEF Sound, Uploading, Store
  <2>2. old \in Image
    BY <2>1
  <2>3. /\ new \in Image /\ new.frames = old.frames /\ new.id = old.id
        /\ new.complete = ~c.more
    BY <1>1, <2>2 DEF Image
  <2>4. x = [[k EXCEPT !.images[at].complete = ~c.more] EXCEPT !.continuing = c.more]
    BY <1>3 DEF Execute
  <2>5. x = [k EXCEPT !.images = put, !.continuing = c.more]
    <3> HIDE DEF x
    <3> QED  BY <2>4 DEF Put
  <2> HIDE DEF new, x
  <2>6. /\ put \in Seq(Image) /\ Len(put) = Len(k.images) /\ put[at] = new
        /\ Total(put) \in Nat /\ Total(k.images) \in Nat /\ Capacity(old.frames) \in Nat
        /\ Total(put) + Capacity(old.frames) = Total(k.images) + Capacity(new.frames)
    BY <1>1, <2>1, <2>3, PutFacts
  <2>7. Total(put) = k.usage
    <3> HIDE DEF put, old
    <3> QED  BY <2>1, <2>3, <2>6
  <2> HIDE DEF put, old
  <2>8. /\ x \in Store /\ x.images = put /\ x.usage = k.usage /\ x.active = at
        /\ x.continuing = c.more
    BY <1>1, <2>1, <2>5, <2>6 DEF Store
  <2>9. Sound(x)
    BY <2>1, <2>3, <2>6, <2>7, <2>8 DEF Sound, Uploading
  <2> QED  BY <2>3, <2>6, <2>8, <2>9 DEF x, old
<1> QED  BY <1>2, <1>3

-------------------------------------------------------------------------------
(* The invariant *)

\* A command keeps what the application and the terminal agree on.
LEMMA CommandKeeps ==
    ASSUME Limits, KittyInvariant, NEW c \in Fresh \cup Chunk, NEW ok \in BOOLEAN, Command(c, ok),
           ~upload.open => c \in Fresh, upload.open => c \in Chunk
    PROVE  KittyInvariant'
<1> DEFINE b == BeginCommand(kitty)
           k == IF c.blocks = 0 THEN b ELSE Prepare(b, c, ok)
           p == Payload(k, c.blocks, ok)
           x == Execute(p, c)
<1>1. /\ Sound(kitty) /\ upload \in [id : Ids \cup {0}, sent : Nat, open : BOOLEAN]
      /\ c.id \in Ids \cup {0} /\ c.blocks \in Nat /\ c.more \in BOOLEAN
      /\ c.action \in {"t", "f", "d"} /\ (c.action = "d" => c.blocks = 0)
      /\ (~upload.open => upload.sent = 0)
  <2>1. \A n \in Blocks : n \in Nat
    BY DEF Blocks, Limits
  <2> QED  BY <2>1 DEF KittyInvariant, Agreed, Fresh, Chunk
<1>2. /\ Sound(b) /\ b.continuing = kitty.continuing
      /\ b.active # 0 => b = kitty /\ kitty.continuing
      /\ ~upload.open => b.active = 0
  <2>1. CASE kitty.continuing
    <3>1. b = kitty /\ upload.open
      BY <2>1 DEF BeginCommand, KittyInvariant, Agreed
    <3> QED  BY <1>1, <2>1, <3>1
  <2>2. CASE ~kitty.continuing
    <3>1. b = [kitty EXCEPT !.active = 0]
      BY <2>2 DEF BeginCommand
    <3> HIDE DEF b
    <3>2. /\ b \in Store /\ b.images = kitty.images /\ b.usage = kitty.usage /\ b.active = 0
          /\ b.continuing = kitty.continuing
      BY <1>1, <3>1 DEF Sound, Store
    <3> QED  BY <1>1, <3>2 DEF Sound, Uploading
  <2> QED  BY <2>1, <2>2
<1> HIDE DEF b
<1>3. /\ Sound(k) /\ k.continuing = kitty.continuing
      /\ b.active # 0 => k = kitty
      /\ b.active = 0 /\ k.active # 0 => /\ k.images[k.active].id = c.id
                                         /\ Last(k.images[k.active].frames).size = 0
      /\ c.action = "d" => k = b
  <2>1. CASE c.blocks = 0
    BY <1>2, <2>1
  <2>2. CASE c.blocks # 0
    <3>1. k = Prepare(b, c, ok) /\ c.action # "d"
      BY <1>1, <2>2
    <3>2. b.active # 0 => b.continuing
      BY <1>2
    <3> HIDE DEF k
    <3> QED  BY <1>2, <3>1, <3>2, PrepareFacts
  <2> QED  BY <2>1, <2>2
<1> HIDE DEF k
<1>4. Further(k, p, c.blocks)
  BY <1>1, <1>3, PayloadFacts
<1>5. c.action = "d" => p.active = 0
  <2> SUFFICES ASSUME c.action = "d" PROVE p.active = 0
    OBVIOUS
  <2>1. c \in Fresh
    BY DEF Chunk
  <2>2. ~upload.open
    BY <2>1 DEF Fresh, Chunk
  <2>3. k.active = 0
    BY <1>2, <1>3, <2>2
  <2> QED  BY <1>4, <2>3 DEF Further
<1> HIDE DEF p
<1>6. /\ Sound(x) /\ x.continuing = c.more
      /\ x.active # 0 => /\ x.active = p.active
                         /\ x.images[x.active].id = p.images[p.active].id
                         /\ x.images[x.active].complete = ~c.more
                         /\ Last(x.images[x.active].frames) = Last(p.images[p.active].frames)
  BY <1>4, <1>5, ExecuteFacts DEF Further
<1>7. kitty' = x
  BY DEF Command, b, k, p
<1> HIDE DEF x
<1>8. x.active # 0 => /\ x.active = k.active /\ k.active # 0
                      /\ x.images[x.active].id = k.images[k.active].id
                      /\ Last(x.images[x.active].frames).size
                             = Last(k.images[k.active].frames).size + c.blocks
  BY <1>4, <1>6 DEF Further
<1>9. upload' = IF ~c.more THEN NoUpload
                ELSE [id |-> IF upload.open THEN upload.id ELSE c.id, open |-> TRUE,
                      sent |-> upload.sent + c.blocks]
  BY DEF Command
<1>10. CASE ~c.more
  <2>1. upload' = [id |-> 0, sent |-> 0, open |-> FALSE]
    BY <1>9, <1>10 DEF NoUpload
  <2>2. upload' \in [id : Ids \cup {0}, sent : Nat, open : BOOLEAN]
    BY <2>1
  <2>3. Agreed'
    BY <1>6, <1>7, <1>10, <2>1, <2>2 DEF Agreed
  <2> QED  BY <1>6, <1>7, <2>3 DEF KittyInvariant, Sound, Uploading
<1>11. CASE c.more
  <2>1. /\ upload'.open /\ upload'.sent = upload.sent + c.blocks
        /\ upload'.id = IF upload.open THEN upload.id ELSE c.id
        /\ upload' \in [id : Ids \cup {0}, sent : Nat, open : BOOLEAN]
    BY <1>1, <1>9, <1>11
  <2>2. ASSUME x.active # 0, x.images[x.active].id # 0
        PROVE  /\ x.images[x.active].id = upload'.id
               /\ Last(x.images[x.active].frames).size = upload'.sent
    <3>1. CASE b.active # 0
      <4>1. k = kitty /\ kitty.continuing /\ upload.open /\ kitty.active # 0
        BY <1>2, <1>3, <3>1
      <4>2. /\ k.images[k.active].id = upload.id
            /\ Last(k.images[k.active].frames).size = upload.sent
        BY <1>8, <2>2, <4>1 DEF KittyInvariant, Agreed
      <4> QED  BY <1>8, <2>1, <2>2, <4>1, <4>2
    <3>2. CASE b.active = 0
      <4>1. /\ k.images[k.active].id = c.id /\ Last(k.images[k.active].frames).size = 0
        BY <1>3, <1>8, <2>2, <3>2
      <4>2. c.id # 0
        BY <1>8, <2>2, <4>1
      <4>3. ~upload.open
        BY <4>2 DEF Chunk
      <4> QED  BY <1>1, <1>8, <2>1, <2>2, <4>1, <4>3
    <3> QED  BY <3>1, <3>2
  <2>3. Agreed'
    BY <1>6, <1>7, <1>11, <2>1, <2>2 DEF Agreed
  <2> QED  BY <1>6, <1>7, <2>3 DEF KittyInvariant, Sound, Uploading
<1> QED  BY <1>1, <1>10, <1>11

LEMMA EmptySound ==
    ASSUME Limits PROVE Sound(Empty)
<1>1. << >> \in Seq(Image)
  OBVIOUS
<1>2. Total(<< >>) = 0
  BY <1>1, TotalFacts
<1> QED  BY <1>1, <1>2 DEF Sound, Empty, Store, Uploading, Limits

LEMMA InitKeeps ==
    ASSUME Limits, KittyInit PROVE KittyInvariant
BY EmptySound DEF KittyInit, KittyInvariant, Agreed, Empty, NoUpload

LEMMA NextKeeps ==
    ASSUME Limits, KittyInvariant, [KittyNext]_image PROVE KittyInvariant'
<1>1. ASSUME NEW ok \in {TRUE, ~Oom} PROVE ok \in BOOLEAN
  BY <1>1 DEF Limits
<1>2. CASE Upload
  <2>1. PICK c \in Fresh, ok \in {TRUE, ~Oom} : ~upload.open /\ Command(c, ok)
    BY <1>2 DEF Upload
  <2> QED  BY <1>1, <2>1, CommandKeeps
<1>3. CASE Continue
  <2>1. PICK c \in Chunk, ok \in {TRUE, ~Oom} : upload.open /\ Command(c, ok)
    BY <1>3 DEF Continue
  <2> QED  BY <1>1, <2>1, CommandKeeps
<1>4. CASE Reset
  <2>1. kitty' = Empty /\ upload' = upload
    BY <1>4 DEF Reset
  <2>2. Sound(Empty)
    BY EmptySound
  <2>3. Sound(kitty)'
    BY <2>1, <2>2 DEF Sound, Uploading
  <2>4. Agreed'
    BY <2>1 DEF Agreed, KittyInvariant, Empty
  <2> QED  BY <2>3, <2>4 DEF KittyInvariant
<1>5. CASE UNCHANGED image
  BY <1>5 DEF image, KittyInvariant, Agreed, Sound, Uploading
<1> QED  BY <1>2, <1>3, <1>4, <1>5 DEF KittyNext

\* The account is what the frames take, within the limit, and an upload in progress
\* has a frame with memory that holds all that was sent of it: for any limit, any
\* images, payloads of any length, cut into chunks in any way, refused at the limit
\* or out of memory half way, and with KTerm_InitKitty at any point.
THEOREM KittyTheorem == Limits => (KittySpec => []KittyAccounted)
<1> SUFFICES ASSUME Limits PROVE KittySpec => []KittyAccounted
  OBVIOUS
<1>1. KittyInit => KittyInvariant
  BY InitKeeps
<1>2. KittyInvariant /\ [KittyNext]_image => KittyInvariant'
  BY NextKeeps
<1>3. KittyInvariant => KittyAccounted
  <2> SUFFICES ASSUME KittyInvariant PROVE KittyAccounted
    OBVIOUS
  <2>1. /\ kitty.usage <= LIMIT
        /\ kitty.usage = FoldLeft(LAMBDA sum, img : sum + Capacity(img.frames), 0, kitty.images)
    BY DEF KittyInvariant, Sound, Total
  <2>2. kitty.active # 0 => Last(kitty.images[kitty.active].frames).capacity > 0
    BY DEF KittyInvariant, Sound, Uploading
  <2> QED  BY <2>1, <2>2 DEF KittyAccounted, KittyInvariant, Agreed
<1> QED  BY <1>1, <1>2, <1>3, PTL DEF KittySpec

-------------------------------------------------------------------------------
(* The UTF-8 decoder: Utf8 *)

\* The host sends bytes.
Octets == HostBytes \subseteq 0 .. 255

Two == 194 .. 223
Three == 224 .. 239
Four == 240 .. 244
More == 128 .. 191

TwoTails == 4096
ThreeTails == 262144
Wide == 65536

-------------------------------------------------------------------------------
(* Arithmetic: bytes put together and taken apart *)

LEMMA Apart ==
    ASSUME NEW q \in Nat, NEW b \in More
    PROVE  /\ SixMore(q, b) \in Nat /\ SixMore(q, b) \div 64 = q /\ Following(SixMore(q, b)) = b
           /\ SixMore(q, b) = q * 64 + (b - 128)
<1>1. b % 64 = b - 128 /\ b - 128 \in 0 .. 63
  BY DEF More
<1>2. ASSUME NEW r \in 0 .. 63
      PROVE  (q * 64 + r) \div 64 = q /\ (q * 64 + r) % 64 = r
  OBVIOUS
<1>3. (q * 64 + (b - 128)) \div 64 = q /\ (q * 64 + (b - 128)) % 64 = b - 128
  BY <1>1, <1>2
<1> QED  BY <1>1, <1>3, SMT DEF SixMore, Following, More

LEMMA Apart2 ==
    ASSUME NEW q \in Nat, NEW b \in More, NEW d \in More
    PROVE  LET c == SixMore(SixMore(q, b), d)
           IN  /\ c \in Nat /\ c \div TwoTails = q
               /\ Following(c \div 64) = b /\ Following(c) = d
               /\ q * TwoTails <= c /\ c < q * TwoTails + TwoTails
<1> DEFINE x == SixMore(q, b)
           c == SixMore(x, d)
<1>1. x \in Nat /\ Following(x) = b /\ x = q * 64 + (b - 128)
  BY Apart
<1> HIDE DEF x
<1>2. c \in Nat /\ c \div 64 = x /\ Following(c) = d /\ c = x * 64 + (d - 128)
  BY <1>1, Apart
<1> HIDE DEF c
<1>3. q * TwoTails <= c /\ c < q * TwoTails + TwoTails
  BY <1>1, <1>2, SMT DEF TwoTails, More
<1>4. c \div TwoTails = q
  BY <1>2, <1>3, SMT DEF TwoTails
<1> QED  BY <1>1, <1>2, <1>3, <1>4 DEF c, x

LEMMA Apart3 ==
    ASSUME NEW q \in Nat, NEW b \in More, NEW d \in More, NEW e \in More
    PROVE  LET c == SixMore(SixMore(SixMore(q, b), d), e)
           IN  /\ c \in Nat /\ c \div ThreeTails = q
               /\ Following(c \div TwoTails) = b
               /\ Following(c \div 64) = d /\ Following(c) = e
<1> DEFINE x == SixMore(q, b)
           y == SixMore(x, d)
           c == SixMore(y, e)
<1>1. x \in Nat /\ Following(x) = b /\ x = q * 64 + (b - 128)
  BY Apart
<1> HIDE DEF x
<1>2. /\ c \in Nat /\ c \div TwoTails = x /\ Following(c \div 64) = d /\ Following(c) = e
      /\ x * TwoTails <= c /\ c < x * TwoTails + TwoTails
  BY <1>1, Apart2
<1> HIDE DEF y, c
<1>3. q * ThreeTails <= c /\ c < q * ThreeTails + ThreeTails
  BY <1>1, <1>2, SMT DEF TwoTails, ThreeTails, More
<1>4. c \div ThreeTails = q
  BY <1>2, <1>3, SMT DEF ThreeTails
<1> QED  BY <1>1, <1>2, <1>4 DEF c, y, x

-------------------------------------------------------------------------------
(* Which bytes are an encoding *)

LEMMA EncodingOf ==
    ASSUME NEW c \in Nat
    PROVE  /\ c < 128 => Encoding(c) = <<c>>
           /\ c >= 128 /\ c < 2048 => Encoding(c) = <<192 + (c \div 64), Following(c)>>
           /\ c >= 2048 /\ c < Wide =>
                 Encoding(c) = <<224 + (c \div TwoTails), Following(c \div 64), Following(c)>>
           /\ c >= Wide =>
                 Encoding(c) = <<240 + (c \div ThreeTails), Following(c \div TwoTails),
                                 Following(c \div 64), Following(c)>>
BY SMT DEF Encoding, Wide, TwoTails, ThreeTails

LEMMA DecodedOf ==
    /\ \A a : Decoded(<<a>>) = a % 128
    /\ \A a, b : Decoded(<<a, b>>) = SixMore(a % 32, b)
    /\ \A a, b, d : Decoded(<<a, b, d>>) = SixMore(SixMore(a % 16, b), d)
    /\ \A a, b, d, e : Decoded(<<a, b, d, e>>) = SixMore(SixMore(SixMore(a % 8, b), d), e)
BY SMT DEF Decoded

LEMMA OneByte ==
    /\ \A b \in 0 .. 127 : WellFormed(<<b>>) /\ Decoded(<<b>>) = b
    /\ \A b \in 128 .. 255 : ~WellFormed(<<b>>)
<1>1. ASSUME NEW b \in 0 .. 127 PROVE WellFormed(<<b>>) /\ Decoded(<<b>>) = b
  <2>1. Decoded(<<b>>) = b
    BY DecodedOf, SMT
  <2>2. Encoding(b) = <<b>>
    BY EncodingOf
  <2>3. IsScalar(b)
    BY SMT DEF IsScalar, Surrogate
  <2> QED  BY <2>1, <2>2, <2>3 DEF WellFormed
<1>2. ASSUME NEW b \in 128 .. 255 PROVE ~WellFormed(<<b>>)
  <2>1. Decoded(<<b>>) = b - 128
    BY DecodedOf, SMT
  <2>2. Encoding(b - 128) = <<b - 128>>
    BY EncodingOf
  <2>3. <<b - 128>> # <<b>>
    BY SMT
  <2> QED  BY <2>1, <2>2, <2>3 DEF WellFormed
<1> QED  BY <1>1, <1>2

\* Two: all that begin with C2 to DF, and none of those that announce more.
LEMMA TwoBytes ==
    ASSUME NEW a \in 194 .. 244, NEW b \in More
    PROVE  /\ a \in Two => WellFormed(<<a, b>>) /\ Valid(SixMore(a % 32, b), 128)
           /\ a \notin Two => ~WellFormed(<<a, b>>)
<1> DEFINE q == a % 32
           c == SixMore(q, b)
<1>1. Decoded(<<a, b>>) = c
  BY DecodedOf
<1>2. q \in Nat /\ q < 32 /\ (a \in Two => q = a - 192) /\ (a \notin Two => q = a - 224)
  BY SMT DEF Two
<1> HIDE DEF q
<1>3. /\ c \in Nat /\ c \div 64 = q /\ Following(c) = b
      /\ c = q * 64 + (b - 128)
  BY <1>2, Apart
<1> HIDE DEF c
<1>4. c < 2048 /\ (a \in Two => c >= 128)
  BY <1>2, <1>3, SMT DEF More, Two
<1>5. c >= 128 => Encoding(c) = <<192 + q, b>>
  BY <1>3, <1>4, EncodingOf
<1>6. CASE a \in Two
  <2>1. 192 + q = a
    BY <1>2, <1>6, SMT DEF Two
  <2>2. IsScalar(c) /\ Valid(c, 128)
    BY <1>3, <1>4, <1>6, SMT DEF IsScalar, Surrogate, Valid
  <2> QED  BY <1>1, <1>4, <1>5, <1>6, <2>1, <2>2 DEF WellFormed, c, q
<1>7. CASE a \notin Two
  <2>1. Encoding(c) # <<a, b>>
    <3>1. CASE c >= 128
      <4>1. <<192 + q, b>> # <<a, b>>
        BY <1>2, <1>7, SMT
      <4> QED  BY <1>5, <3>1, <4>1
    <3>2. CASE c < 128
      <4>1. Encoding(c) = <<c>>
        BY <1>3, <3>2, EncodingOf
      <4>2. <<c>> # <<a, b>>
        BY SMT
      <4> QED  BY <4>1, <4>2
    <3> QED  BY <1>3, <3>1, <3>2, SMT
  <2> QED  BY <1>1, <1>7, <2>1 DEF WellFormed
<1> QED  BY <1>6, <1>7

\* Three: those that are not shorter than they look and no surrogates, and none of
\* those that announce four.
LEMMA ThreeBytes ==
    ASSUME NEW a \in 224 .. 244, NEW b \in More, NEW d \in More
    PROVE  /\ a \in Three => (WellFormed(<<a, b, d>>) <=> Valid(SixMore(SixMore(a % 16, b), d), 2048))
           /\ a \notin Three => ~WellFormed(<<a, b, d>>)
<1> DEFINE q == a % 16
           c == SixMore(SixMore(q, b), d)
<1>1. Decoded(<<a, b, d>>) = c
  BY DecodedOf
<1>2. q \in Nat /\ q < 16 /\ (a \in Three => q = a - 224) /\ (a \notin Three => q = a - 240)
  BY SMT DEF Three
<1> HIDE DEF q
<1>3. /\ c \in Nat /\ c \div TwoTails = q /\ Following(c \div 64) = b /\ Following(c) = d
      /\ c < q * TwoTails + TwoTails
  BY <1>2, Apart2
<1> HIDE DEF c
<1>4. c < Wide
  BY <1>2, <1>3, SMT DEF TwoTails, Wide
<1>5. c >= 2048 => Encoding(c) = <<224 + q, b, d>>
  BY <1>3, <1>4, EncodingOf
<1>6. c < 2048 => Encoding(c) # <<a, b, d>>
  <2>1. CASE c >= 128 /\ c < 2048
    <3>1. Encoding(c) = <<192 + (c \div 64), Following(c)>>
      BY <1>3, <2>1, EncodingOf
    <3>2. <<192 + (c \div 64), Following(c)>> # <<a, b, d>>
      BY SMT
    <3> QED  BY <3>1, <3>2
  <2>2. CASE c < 128
    <3>1. Encoding(c) = <<c>>
      BY <1>3, <2>2, EncodingOf
    <3>2. <<c>> # <<a, b, d>>
      BY SMT
    <3> QED  BY <3>1, <3>2
  <2> QED  BY <1>3, <2>1, <2>2, SMT
<1>7. c >= 2048 => (IsScalar(c) <=> Valid(c, 2048))
  BY <1>3, <1>4, SMT DEF IsScalar, Valid, Wide
<1>8. Valid(c, 2048) => c >= 2048
  BY DEF Valid
<1>9. CASE a \in Three
  <2>1. 224 + q = a
    BY <1>2, <1>9, SMT
  <2>2. WellFormed(<<a, b, d>>) <=> IsScalar(c) /\ Encoding(c) = <<a, b, d>>
    BY <1>1 DEF WellFormed
  <2>3. CASE c >= 2048
    BY <1>5, <1>7, <1>9, <2>1, <2>2, <2>3 DEF c, q
  <2>4. CASE ~(c >= 2048)
    <3>1. c < 2048
      BY <1>3, <2>4, SMT
    <3> QED  BY <1>6, <1>8, <1>9, <2>2, <2>4, <3>1 DEF c, q
  <2> QED  BY <2>3, <2>4
<1>10. CASE a \notin Three
  <2>1. Encoding(c) # <<a, b, d>>
    <3>1. <<224 + q, b, d>> # <<a, b, d>>
      BY <1>2, <1>10, SMT
    <3>2. c >= 2048 \/ c < 2048
      BY <1>3, SMT
    <3> QED  BY <1>5, <1>6, <3>1, <3>2
  <2> QED  BY <1>1, <1>10, <2>1 DEF WellFormed
<1> QED  BY <1>9, <1>10

\* Four: those that are not shorter than they look and within the last code point.
LEMMA FourBytes ==
    ASSUME NEW a \in Four, NEW b \in More, NEW d \in More, NEW e \in More
    PROVE  WellFormed(<<a, b, d, e>>) <=> Valid(SixMore(SixMore(SixMore(a % 8, b), d), e), Wide)
<1> DEFINE q == a % 8
           c == SixMore(SixMore(SixMore(q, b), d), e)
<1>1. Decoded(<<a, b, d, e>>) = c
  BY DecodedOf
<1>2. q \in Nat /\ 240 + q = a
  BY SMT DEF Four
<1> HIDE DEF q
<1>3. /\ c \in Nat /\ c \div ThreeTails = q /\ Following(c \div TwoTails) = b
      /\ Following(c \div 64) = d /\ Following(c) = e
  BY <1>2, Apart3
<1> HIDE DEF c
<1>4. c >= Wide => Encoding(c) = <<a, b, d, e>>
  BY <1>2, <1>3, EncodingOf
<1>5. c < Wide => Encoding(c) # <<a, b, d, e>>
  <2>1. CASE c >= 2048 /\ c < Wide
    <3>1. Encoding(c) = <<224 + (c \div TwoTails), Following(c \div 64), Following(c)>>
      BY <1>3, <2>1, EncodingOf
    <3>2. <<224 + (c \div TwoTails), Following(c \div 64), Following(c)>> # <<a, b, d, e>>
      BY SMT
    <3> QED  BY <3>1, <3>2
  <2>2. CASE c >= 128 /\ c < 2048
    <3>1. Encoding(c) = <<192 + (c \div 64), Following(c)>>
      BY <1>3, <2>2, EncodingOf
    <3>2. <<192 + (c \div 64), Following(c)>> # <<a, b, d, e>>
      BY SMT
    <3> QED  BY <3>1, <3>2
  <2>3. CASE c < 128
    <3>1. Encoding(c) = <<c>>
      BY <1>3, <2>3, EncodingOf
    <3>2. <<c>> # <<a, b, d, e>>
      BY SMT
    <3> QED  BY <3>1, <3>2
  <2> QED  BY <1>3, <2>1, <2>2, <2>3, SMT
<1>6. c >= Wide => (IsScalar(c) <=> Valid(c, Wide))
  BY <1>3, SMT DEF IsScalar, Valid, Wide
<1>7. Valid(c, Wide) => c >= Wide
  BY DEF Valid
<1>8. c >= Wide \/ c < Wide
  BY <1>3, SMT DEF Wide
<1>9. WellFormed(<<a, b, d, e>>) <=> IsScalar(c) /\ Encoding(c) = <<a, b, d, e>>
  BY <1>1 DEF WellFormed
<1> QED  BY <1>4, <1>5, <1>6, <1>7, <1>8, <1>9 DEF c, q

-------------------------------------------------------------------------------
(* The inductive invariant *)

State(left, codepoint, min) == [left |-> left, codepoint |-> codepoint, min |-> min]

\* What the decoder keeps is what the bytes of the character so far say: a character
\* of two bytes, of three and of four.
Keeps2(u, bytes) == \E a \in Two : bytes = <<a>> /\ u = State(1, a % 32, 128)
Keeps3(u, bytes) ==
    \/ \E a \in Three : bytes = <<a>> /\ u = State(2, a % 16, 2048)
    \/ \E a \in Three, b \in More : bytes = <<a, b>> /\ u = State(1, SixMore(a % 16, b), 2048)
Keeps4(u, bytes) ==
    \/ \E a \in Four : bytes = <<a>> /\ u = State(3, a % 8, Wide)
    \/ \E a \in Four, b \in More : bytes = <<a, b>> /\ u = State(2, SixMore(a % 8, b), Wide)
    \/ \E a \in Four, b, d \in More :
          bytes = <<a, b, d>> /\ u = State(1, SixMore(SixMore(a % 8, b), d), Wide)
Holds(u, bytes) ==
    \/ bytes = << >> /\ u.left = 0
    \/ Keeps2(u, bytes)
    \/ Keeps3(u, bytes)
    \/ Keeps4(u, bytes)

\* A character that is shown as it should be.
Right(p) ==
    IF WellFormed(p.bytes) THEN p.char = Decoded(p.bytes)
    ELSE /\ p.char = Replacement
         /\ \A i \in 2 .. Len(p.bytes) : IsContinuation(p.bytes[i])
         /\ \A i \in 1 .. Len(p.bytes) : ~WellFormed(SubSeq(p.bytes, 1, i))

RightPieces(ps) == \A k \in 1 .. Len(ps) : Right(ps[k])

Utf8Invariant ==
    /\ Holds(utf8, pending)
    /\ utf8 \in [left : Nat, codepoint : Nat, min : Nat]
    /\ RightPieces(pieces)

\* What comes out, if anything does, is one character or two.
LEMMA Shows ==
    /\ RightPieces(<< >>)
    /\ \A p : Right(p) => RightPieces(<<p>>)
    /\ \A p, q : Right(p) /\ Right(q) => RightPieces(<<p, q>>)
<1>1. ASSUME NEW p, Right(p) PROVE RightPieces(<<p>>)
  BY <1>1 DEF RightPieces
<1>2. ASSUME NEW p, NEW q, Right(p), Right(q) PROVE RightPieces(<<p, q>>)
  <2>1. ASSUME NEW k \in 1 .. Len(<<p, q>>) PROVE Right(<<p, q>>[k])
    <3>1. k = 1 \/ k = 2
      OBVIOUS
    <3>2. <<p, q>>[1] = p /\ <<p, q>>[2] = q
      OBVIOUS
    <3> QED  BY <1>2, <3>1, <3>2
  <2> QED  BY <2>1 DEF RightPieces
<1>3. RightPieces(<< >>)
  BY DEF RightPieces
<1> QED  BY <1>1, <1>2, <1>3

LEMMA Pieces ==
    ASSUME NEW c, NEW bytes
    PROVE  Piece(c, bytes).char = c /\ Piece(c, bytes).bytes = bytes
BY DEF Piece

LEMMA Beginning ==
    ASSUME NEW s \in Seq(Nat), NEW n \in 1 .. Len(s)
    PROVE  /\ SubSeq(s, 1, n) \in Seq(Nat) /\ Len(SubSeq(s, 1, n)) = n
           /\ \A i \in 1 .. n : SubSeq(s, 1, n)[i] = s[i]
<1>1. \A i \in 1 .. n : s[i] \in Nat
  OBVIOUS
<1>3. 1 \in Int /\ n \in Int
  OBVIOUS
<1>2. /\ SubSeq(s, 1, n) \in Seq(Nat)
      /\ Len(SubSeq(s, 1, n)) = IF 1 <= n THEN n - 1 + 1 ELSE 0
      /\ \A i \in 1 .. n - 1 + 1 : SubSeq(s, 1, n)[i] = s[1 + i - 1]
  BY <1>1, <1>3, SubSeqProperties
<1> QED  BY <1>2, SMT

LEMMA Tuples ==
    /\ \A s \in Seq(Nat) : Len(s) = 1 => s = <<s[1]>>
    /\ \A s \in Seq(Nat) : Len(s) = 2 => s = <<s[1], s[2]>>
    /\ \A s \in Seq(Nat) : Len(s) = 3 => s = <<s[1], s[2], s[3]>>
    /\ \A s \in Seq(Nat) : Len(s) = 4 => s = <<s[1], s[2], s[3], s[4]>>
OBVIOUS

LEMMA UpToFour ==
    \A n \in 1 .. 4 : \A i \in 1 .. n : i = 1 \/ i = 2 \/ i = 3 \/ i = 4
OBVIOUS

\* Bytes that are no character and of which no beginning is one show as a replacement.
LEMMA Replaced ==
    ASSUME NEW s \in Seq(Nat), Len(s) \in 1 .. 4,
           \A i \in 2 .. Len(s) : s[i] \in More,
           ~WellFormed(<<s[1]>>),
           Len(s) >= 2 => ~WellFormed(<<s[1], s[2]>>),
           Len(s) >= 3 => ~WellFormed(<<s[1], s[2], s[3]>>),
           Len(s) >= 4 => ~WellFormed(<<s[1], s[2], s[3], s[4]>>)
    PROVE  Right(Piece(Replacement, s))
<1>1. ASSUME NEW i \in 1 .. Len(s) PROVE ~WellFormed(SubSeq(s, 1, i))
  <2> DEFINE t == SubSeq(s, 1, i)
  <2>1. t \in Seq(Nat) /\ Len(t) = i /\ \A k \in 1 .. i : t[k] = s[k]
    BY Beginning
  <2> HIDE DEF t
  <2>2. CASE i = 1
    <3>1. t = <<s[1]>>
      BY <2>1, <2>2, Tuples
    <3> QED  BY <3>1 DEF t
  <2>3. CASE i = 2
    <3>1. t = <<s[1], s[2]>>
      BY <2>1, <2>3, Tuples
    <3>2. Len(s) >= 2
      BY <2>3
    <3> QED  BY <3>1, <3>2 DEF t
  <2>4. CASE i = 3
    <3>1. t = <<s[1], s[2], s[3]>>
      BY <2>1, <2>4, Tuples
    <3>2. Len(s) >= 3
      BY <2>4
    <3> QED  BY <3>1, <3>2 DEF t
  <2>5. CASE i = 4
    <3>1. t = <<s[1], s[2], s[3], s[4]>>
      BY <2>1, <2>5, Tuples
    <3>2. Len(s) >= 4
      BY <2>5
    <3> QED  BY <3>1, <3>2 DEF t
  <2>6. i = 1 \/ i = 2 \/ i = 3 \/ i = 4
    BY UpToFour
  <2> QED  BY <2>2, <2>3, <2>4, <2>5, <2>6
<1>2. ~WellFormed(s)
  <2>1. Len(s) \in 1 .. Len(s)
    OBVIOUS
  <2>2. SubSeq(s, 1, Len(s)) = s
    BY SubSeqFull
  <2> QED  BY <1>1, <2>1, <2>2
<1>3. \A i \in 2 .. Len(s) : IsContinuation(s[i])
  BY DEF IsContinuation, More
<1> QED  BY <1>1, <1>2, <1>3, Pieces DEF Right

LEMMA Replaced1 ==
    ASSUME NEW a \in Nat, ~WellFormed(<<a>>)
    PROVE  Right(Piece(Replacement, <<a>>))
<1> DEFINE s == <<a>>
<1>1. s \in Seq(Nat) /\ Len(s) = 1 /\ s[1] = a
  OBVIOUS
<1> HIDE DEF s
<1>3. \A i \in 2 .. Len(s) : s[i] \in More
  BY <1>1, SMT
<1>4. /\ ~WellFormed(<<s[1]>>)
      /\ (Len(s) >= 2 => ~WellFormed(<<s[1], s[2]>>))
      /\ (Len(s) >= 3 => ~WellFormed(<<s[1], s[2], s[3]>>))
      /\ (Len(s) >= 4 => ~WellFormed(<<s[1], s[2], s[3], s[4]>>))
  <2>1. ~(Len(s) >= 2) /\ ~(Len(s) >= 3) /\ ~(Len(s) >= 4)
    BY <1>1, SMT
  <2> QED  BY <1>1, <2>1
<1>5. Len(s) \in 1 .. 4
  BY <1>1, SMT
<1>2. Right(Piece(Replacement, s))
  BY <1>1, <1>3, <1>4, <1>5, Replaced
<1> QED  BY <1>2 DEF s

LEMMA Replaced2 ==
    ASSUME NEW a \in Nat, NEW b \in More, ~WellFormed(<<a>>), ~WellFormed(<<a, b>>)
    PROVE  Right(Piece(Replacement, <<a, b>>))
<1> DEFINE s == <<a, b>>
<1>1. s \in Seq(Nat) /\ Len(s) = 2 /\ s[1] = a /\ s[2] = b
  BY DEF More
<1> HIDE DEF s
<1>3. \A i \in 2 .. Len(s) : s[i] \in More
  BY <1>1, SMT
<1>4. /\ ~WellFormed(<<s[1]>>)
      /\ (Len(s) >= 2 => ~WellFormed(<<s[1], s[2]>>))
      /\ (Len(s) >= 3 => ~WellFormed(<<s[1], s[2], s[3]>>))
      /\ (Len(s) >= 4 => ~WellFormed(<<s[1], s[2], s[3], s[4]>>))
  <2>1. ~(Len(s) >= 3) /\ ~(Len(s) >= 4)
    BY <1>1, SMT
  <2> QED  BY <1>1, <2>1
<1>5. Len(s) \in 1 .. 4
  BY <1>1, SMT
<1>2. Right(Piece(Replacement, s))
  BY <1>1, <1>3, <1>4, <1>5, Replaced
<1> QED  BY <1>2 DEF s

LEMMA Replaced3 ==
    ASSUME NEW a \in Nat, NEW b \in More, NEW d \in More,
           ~WellFormed(<<a>>), ~WellFormed(<<a, b>>), ~WellFormed(<<a, b, d>>)
    PROVE  Right(Piece(Replacement, <<a, b, d>>))
<1> DEFINE s == <<a, b, d>>
<1>1. s \in Seq(Nat) /\ Len(s) = 3 /\ s[1] = a /\ s[2] = b /\ s[3] = d
  BY DEF More
<1> HIDE DEF s
<1>3. \A i \in 2 .. Len(s) : s[i] \in More
  BY <1>1, SMT
<1>4. /\ ~WellFormed(<<s[1]>>)
      /\ (Len(s) >= 2 => ~WellFormed(<<s[1], s[2]>>))
      /\ (Len(s) >= 3 => ~WellFormed(<<s[1], s[2], s[3]>>))
      /\ (Len(s) >= 4 => ~WellFormed(<<s[1], s[2], s[3], s[4]>>))
  <2>1. ~(Len(s) >= 4)
    BY <1>1, SMT
  <2> QED  BY <1>1, <2>1
<1>5. Len(s) \in 1 .. 4
  BY <1>1, SMT
<1>2. Right(Piece(Replacement, s))
  BY <1>1, <1>3, <1>4, <1>5, Replaced
<1> QED  BY <1>2 DEF s

LEMMA Replaced4 ==
    ASSUME NEW a \in Nat, NEW b \in More, NEW d \in More, NEW e \in More,
           ~WellFormed(<<a>>), ~WellFormed(<<a, b>>), ~WellFormed(<<a, b, d>>),
           ~WellFormed(<<a, b, d, e>>)
    PROVE  Right(Piece(Replacement, <<a, b, d, e>>))
<1> DEFINE s == <<a, b, d, e>>
<1>1. s \in Seq(Nat) /\ Len(s) = 4 /\ s[1] = a /\ s[2] = b /\ s[3] = d /\ s[4] = e
  BY DEF More
<1> HIDE DEF s
<1>3. \A i \in 2 .. Len(s) : s[i] \in More
  BY <1>1, SMT
<1>4. /\ ~WellFormed(<<s[1]>>)
      /\ (Len(s) >= 2 => ~WellFormed(<<s[1], s[2]>>))
      /\ (Len(s) >= 3 => ~WellFormed(<<s[1], s[2], s[3]>>))
      /\ (Len(s) >= 4 => ~WellFormed(<<s[1], s[2], s[3], s[4]>>))
  BY <1>1
<1>5. Len(s) \in 1 .. 4
  BY <1>1, SMT
<1>2. Right(Piece(Replacement, s))
  BY <1>1, <1>3, <1>4, <1>5, Replaced
<1> QED  BY <1>2 DEF s

\* A character that is complete is the one it encodes, or none.
LEMMA Completed ==
    /\ \A a \in Two, b \in More :
          LET n == SixMore(a % 32, b)
          IN  Right(Piece(IF Valid(n, 128) THEN n ELSE Replacement, <<a, b>>))
    /\ \A a \in Three, b, d \in More :
          LET n == SixMore(SixMore(a % 16, b), d)
          IN  Right(Piece(IF Valid(n, 2048) THEN n ELSE Replacement, <<a, b, d>>))
    /\ \A a \in Four, b, d, e \in More :
          LET n == SixMore(SixMore(SixMore(a % 8, b), d), e)
          IN  Right(Piece(IF Valid(n, Wide) THEN n ELSE Replacement, <<a, b, d, e>>))
<1>1. ASSUME NEW a \in Two, NEW b \in More
      PROVE  LET n == SixMore(a % 32, b)
             IN  Right(Piece(IF Valid(n, 128) THEN n ELSE Replacement, <<a, b>>))
  <2>2. a \in 194 .. 244
    BY DEF Two
  <2>1. WellFormed(<<a, b>>) /\ Valid(SixMore(a % 32, b), 128)
    BY <2>2, TwoBytes
  <2> QED  BY <2>1, DecodedOf, Pieces DEF Right
<1>2. ASSUME NEW a \in Three, NEW b \in More, NEW d \in More
      PROVE  LET n == SixMore(SixMore(a % 16, b), d)
             IN  Right(Piece(IF Valid(n, 2048) THEN n ELSE Replacement, <<a, b, d>>))
  <2> DEFINE n == SixMore(SixMore(a % 16, b), d)
  <2>5. a \in 128 .. 255 /\ a \in 194 .. 244 /\ a \in 224 .. 244 /\ a \in Nat /\ a \notin Two
    BY DEF Two, Three
  <2>1. WellFormed(<<a, b, d>>) <=> Valid(n, 2048)
    BY <2>5, ThreeBytes
  <2>2. ~WellFormed(<<a>>) /\ ~WellFormed(<<a, b>>) /\ a \in Nat
    BY <2>5, OneByte, TwoBytes
  <2>3. ~WellFormed(<<a, b, d>>) => Right(Piece(Replacement, <<a, b, d>>))
    BY <2>2, Replaced3
  <2>4. WellFormed(<<a, b, d>>) => Right(Piece(n, <<a, b, d>>))
    BY DecodedOf, Pieces DEF Right
  <2> QED  BY <2>1, <2>3, <2>4
<1>3. ASSUME NEW a \in Four, NEW b \in More, NEW d \in More, NEW e \in More
      PROVE  LET n == SixMore(SixMore(SixMore(a % 8, b), d), e)
             IN  Right(Piece(IF Valid(n, Wide) THEN n ELSE Replacement, <<a, b, d, e>>))
  <2> DEFINE n == SixMore(SixMore(SixMore(a % 8, b), d), e)
  <2>1. WellFormed(<<a, b, d, e>>) <=> Valid(n, Wide)
    BY FourBytes
  <2>2. ~WellFormed(<<a>>) /\ ~WellFormed(<<a, b>>) /\ ~WellFormed(<<a, b, d>>) /\ a \in Nat
    <3>1. /\ a \in 128 .. 255 /\ a \in 194 .. 244 /\ a \in 224 .. 244 /\ a \in Nat
          /\ a \notin Two /\ a \notin Three
      BY DEF Two, Three, Four
    <3>2. ~WellFormed(<<a>>)
      BY <3>1, OneByte
    <3>3. ~WellFormed(<<a, b>>)
      BY <3>1, TwoBytes
    <3>4. ~WellFormed(<<a, b, d>>)
      BY <3>1, ThreeBytes
    <3> QED  BY <3>1, <3>2, <3>3, <3>4
  <2>3. ~WellFormed(<<a, b, d, e>>) => Right(Piece(Replacement, <<a, b, d, e>>))
    BY <2>2, Replaced4
  <2>4. WellFormed(<<a, b, d, e>>) => Right(Piece(n, <<a, b, d, e>>))
    BY DecodedOf, Pieces DEF Right
  <2> QED  BY <2>1, <2>3, <2>4
<1> QED  BY <1>1, <1>2, <1>3

-------------------------------------------------------------------------------
(* The steps *)

Kept8 == [left : Nat, codepoint : Nat, min : Nat]

\* What becomes of a byte is as it should be.
Good(step) == Holds(step.utf8, step.rest) /\ step.utf8 \in Kept8 /\ RightPieces(step.out)

LEMMA States ==
    ASSUME NEW left \in Nat, NEW codepoint \in Nat, NEW min \in Nat
    PROVE  LET u == State(left, codepoint, min)
           IN  u \in Kept8 /\ u.left = left /\ u.codepoint = codepoint /\ u.min = min
BY DEF State, Kept8

\* A byte outside a character begins one or shows by itself.
LEMMA Starts ==
    ASSUME NEW b \in 0 .. 255
    PROVE  /\ Start(b) # None => Holds(Start(b), <<b>>) /\ Start(b) \in Kept8
           /\ Start(b) = None => b \notin Two /\ b \notin Three /\ b \notin Four
<1>1. b \in Two => Start(b) = State(1, b % 32, 128)
  BY SMT DEF Start, State, Two
<1>2. b \in Three => Start(b) = State(2, b % 16, 2048)
  BY SMT DEF Start, State, Three
<1>3. b \in Four => Start(b) = State(3, b % 8, Wide)
  BY SMT DEF Start, State, Four, Wide
<1>4. b \notin Two /\ b \notin Three /\ b \notin Four => Start(b) = None
  BY SMT DEF Start, Two, Three, Four
<1>5. /\ b % 32 \in Nat /\ b % 16 \in Nat /\ b % 8 \in Nat /\ 1 \in Nat /\ 2 \in Nat /\ 3 \in Nat
      /\ 128 \in Nat /\ 2048 \in Nat /\ Wide \in Nat
  BY SMT DEF Wide
<1>6. CASE b \in Two
  <2>1. Keeps2(Start(b), <<b>>)
    BY <1>1, <1>6 DEF Keeps2
  <2>2. Start(b).left = 1 /\ Start(b) \in Kept8
    BY <1>1, <1>5, <1>6, States
  <2>3. Start(b) # None
    BY <2>2 DEF None
  <2> QED  BY <2>1, <2>2, <2>3 DEF Holds
<1>7. CASE b \in Three
  <2>1. Keeps3(Start(b), <<b>>)
    BY <1>2, <1>7 DEF Keeps3
  <2>2. Start(b).left = 2 /\ Start(b) \in Kept8
    BY <1>2, <1>5, <1>7, States
  <2>3. Start(b) # None
    BY <2>2 DEF None
  <2> QED  BY <2>1, <2>2, <2>3 DEF Holds
<1>8. CASE b \in Four
  <2>1. Keeps4(Start(b), <<b>>)
    BY <1>3, <1>8 DEF Keeps4
  <2>2. Start(b).left = 3 /\ Start(b) \in Kept8
    BY <1>3, <1>5, <1>8, States
  <2>3. Start(b) # None
    BY <2>2 DEF None
  <2> QED  BY <2>1, <2>2, <2>3 DEF Holds
<1> QED  BY <1>4, <1>6, <1>7, <1>8

LEMMA Alone ==
    ASSUME NEW b \in 0 .. 255
    PROVE  Right(Piece(IF b < 128 THEN b ELSE Replacement, <<b>>))
<1>1. CASE b < 128
  <2>1. b \in 0 .. 127
    BY <1>1
  <2>2. WellFormed(<<b>>) /\ Decoded(<<b>>) = b
    BY <2>1, OneByte
  <2> QED  BY <1>1, <2>2, Pieces DEF Right
<1>2. CASE ~(b < 128)
  <2>1. b \in 128 .. 255
    BY <1>2
  <2>2. ~WellFormed(<<b>>)
    BY <2>1, OneByte
  <2> QED  BY <1>2, <2>2, Replaced1
<1> QED  BY <1>1, <1>2

LEMMA FirstGood ==
    ASSUME Utf8Invariant, utf8.left = 0, NEW b \in 0 .. 255
    PROVE  Good(FirstByte(b))
<1>1. CASE Start(b) # None
  BY <1>1, Starts, Shows DEF FirstByte, Good
<1>2. CASE Start(b) = None
  <2> DEFINE own == Piece(IF b < 128 THEN b ELSE Replacement, <<b>>)
  <2>1. Right(own)
    BY Alone
  <2>2. FirstByte(b) = [utf8 |-> utf8, rest |-> << >>, out |-> <<own>>]
    BY <1>2 DEF FirstByte
  <2> HIDE DEF own
  <2>3. RightPieces(<<own>>)
    BY <2>1, Shows
  <2> QED  BY <2>2, <2>3 DEF Good, Utf8Invariant, Kept8, Holds
<1> QED  BY <1>1, <1>2

\* The beginning of a character shows as a replacement.
LEMMA PendingReplaced ==
    ASSUME Utf8Invariant, utf8.left > 0
    PROVE  Right(Piece(Replacement, pending)) /\ pending # << >>
<1>1. utf8.left # 0
  BY SMT DEF Utf8Invariant
<1>2. CASE \E a \in Two \cup Three \cup Four : pending = <<a>>
  <2>1. PICK a \in Two \cup Three \cup Four : pending = <<a>>
    BY <1>2
  <2>2. a \in 128 .. 255 /\ a \in Nat
    BY DEF Two, Three, Four
  <2>3. ~WellFormed(<<a>>)
    BY <2>2, OneByte
  <2> QED  BY <2>1, <2>2, <2>3, Replaced1
<1>3. CASE \E a \in Three \cup Four, b \in More : pending = <<a, b>>
  <2>1. PICK a \in Three \cup Four, b \in More : pending = <<a, b>>
    BY <1>3
  <2>2. a \in 128 .. 255 /\ a \in Nat /\ a \in 194 .. 244 /\ a \notin Two
    BY DEF Two, Three, Four
  <2>3. ~WellFormed(<<a>>)
    BY <2>2, OneByte
  <2>4. ~WellFormed(<<a, b>>)
    BY <2>2, TwoBytes
  <2> QED  BY <2>1, <2>2, <2>3, <2>4, Replaced2
<1>4. CASE \E a \in Four, b, d \in More : pending = <<a, b, d>>
  <2>1. PICK a \in Four, b \in More, d \in More : pending = <<a, b, d>>
    BY <1>4
  <2>2. /\ a \in 128 .. 255 /\ a \in Nat /\ a \in 194 .. 244 /\ a \in 224 .. 244
        /\ a \notin Two /\ a \notin Three
    BY DEF Two, Three, Four
  <2>3. ~WellFormed(<<a>>)
    BY <2>2, OneByte
  <2>4. ~WellFormed(<<a, b>>)
    BY <2>2, TwoBytes
  <2>5. ~WellFormed(<<a, b, d>>)
    BY <2>2, ThreeBytes
  <2> QED  BY <2>1, <2>2, <2>3, <2>4, <2>5, Replaced3
<1> QED  BY <1>1, <1>2, <1>3, <1>4 DEF Utf8Invariant, Holds, Keeps2, Keeps3, Keeps4

LEMMA Both ==
    ASSUME NEW p, NEW q
    PROVE  <<p>> \o << >> = <<p>> /\ <<p>> \o <<q>> = <<p, q>>
<1> DEFINE S == {p, q}
<1>1. /\ << >> \in Seq(S) /\ <<p>> \in Seq(S) /\ <<q>> \in Seq(S)
      /\ Len(<< >>) = 0 /\ Len(<<p>>) = 1 /\ Len(<<q>>) = 1
  OBVIOUS
<1>2. <<p>>[1] = p /\ <<q>>[1] = q
  OBVIOUS
<1> HIDE DEF S
<1>3. <<p>> \o << >> = <<p>>
  BY <1>1, ConcatEmptySeq
<1>4. /\ <<p>> \o <<q>> \in Seq(S) /\ Len(<<p>> \o <<q>>) = 2
      /\ (<<p>> \o <<q>>)[1] = p /\ (<<p>> \o <<q>>)[2] = q
  BY <1>1, <1>2, ConcatProperties
<1>5. \A s \in Seq(S) : Len(s) = 2 => s = <<s[1], s[2]>>
  OBVIOUS
<1>6. <<p>> \o <<q>> = <<p, q>>
  BY <1>4, <1>5
<1> QED  BY <1>3, <1>6

\* Two fields of a record at once.
LEMMA Redone ==
    ASSUME NEW u, NEW o, NEW r, NEW p, NEW v
    PROVE  [[utf8 |-> u, out |-> o, rest |-> r] EXCEPT !.out = p, !.utf8 = v] =
               [utf8 |-> v, out |-> p, rest |-> r]
<1> DEFINE Kinds == [utf8 : {u, v}, out : {o, p}, rest : {r}]
           f == [utf8 |-> u, out |-> o, rest |-> r]
           x == [f EXCEPT !.out = p, !.utf8 = v]
<1>1. f \in Kinds /\ f.rest = r
  OBVIOUS
<1> HIDE DEF f
<1>2. x \in Kinds /\ x.utf8 = v /\ x.out = p /\ x.rest = r
  BY <1>1
<1> HIDE DEF x
<1>3. x = [utf8 |-> x.utf8, out |-> x.out, rest |-> x.rest]
  BY <1>2
<1> QED  BY <1>2, <1>3 DEF x, f

LEMMA Shifted ==
    ASSUME NEW u \in Kept8, NEW n \in Nat, NEW k \in Nat
    PROVE  [u EXCEPT !.codepoint = n, !.left = k] = State(k, n, u.min)
<1> DEFINE x == [u EXCEPT !.codepoint = n, !.left = k]
<1>1. x \in Kept8 /\ x.left = k /\ x.codepoint = n /\ x.min = u.min
  BY DEF Kept8
<1> HIDE DEF x
<1>2. x = [left |-> x.left, codepoint |-> x.codepoint, min |-> x.min]
  BY <1>1 DEF Kept8
<1> QED  BY <1>1, <1>2 DEF x, State

LEMMA InterruptGood ==
    ASSUME Utf8Invariant, utf8.left > 0, NEW b \in 0 .. 255
    PROVE  Good(Interrupt(b))
<1> DEFINE gone == Piece(Replacement, pending)
<1>1. Right(gone)
  BY PendingReplaced
<1> HIDE DEF gone
<1>2. CASE Start(b) # None
  <2>1. FirstByte(b) = [utf8 |-> Start(b), out |-> << >>, rest |-> <<b>>]
    BY <1>2 DEF FirstByte
  <2>2. Interrupt(b) = [FirstByte(b) EXCEPT !.out = <<gone>> \o FirstByte(b).out,
                                            !.utf8 = FirstByte(b).utf8]
    BY <1>2 DEF Interrupt, gone
  <2>3. <<gone>> \o FirstByte(b).out = <<gone>>
    BY <2>1, Both
  <2>4. Interrupt(b) = [utf8 |-> Start(b), out |-> <<gone>>, rest |-> <<b>>]
    <3>1. Interrupt(b) = [[utf8 |-> Start(b), out |-> << >>, rest |-> <<b>>]
                            EXCEPT !.out = <<gone>>, !.utf8 = Start(b)]
      BY <2>1, <2>2, <2>3
    <3> QED  BY <3>1, Redone, Zenon
  <2>5. RightPieces(<<gone>>)
    BY <1>1, Shows
  <2>6. Holds(Start(b), <<b>>) /\ Start(b) \in Kept8
    BY <1>2, Starts
  <2> QED  BY <2>4, <2>5, <2>6 DEF Good
<1>3. CASE Start(b) = None
  <2> DEFINE own == Piece(IF b < 128 THEN b ELSE Replacement, <<b>>)
             rest == [utf8 EXCEPT !.left = 0, !.codepoint = 0]
  <2>1. Right(own)
    BY Alone
  <2>2. FirstByte(b) = [utf8 |-> utf8, out |-> <<own>>, rest |-> << >>]
    BY <1>3 DEF FirstByte
  <2> HIDE DEF own
  <2>3. Interrupt(b) = [FirstByte(b) EXCEPT !.out = <<gone>> \o FirstByte(b).out, !.utf8 = rest]
    BY <1>3 DEF Interrupt, gone
  <2>4. rest \in Kept8 /\ rest.left = 0
    BY DEF Utf8Invariant, Kept8
  <2> HIDE DEF rest
  <2>5. <<gone>> \o FirstByte(b).out = <<gone, own>>
    BY <2>2, Both
  <2>6. Interrupt(b) = [utf8 |-> rest, out |-> <<gone, own>>, rest |-> << >>]
    <3>1. Interrupt(b) = [[utf8 |-> utf8, out |-> <<own>>, rest |-> << >>]
                            EXCEPT !.out = <<gone, own>>, !.utf8 = rest]
      BY <2>2, <2>3, <2>5
    <3> QED  BY <3>1, Redone, Zenon
  <2>7. RightPieces(<<gone, own>>)
    BY <1>1, <2>1, Shows
  <2> QED  BY <2>4, <2>6, <2>7 DEF Good, Holds
<1> QED  BY <1>2, <1>3

LEMMA Numbers ==
    /\ \A a \in Nat : a % 32 \in Nat /\ a % 16 \in Nat /\ a % 8 \in Nat
    /\ \A c \in Nat, b \in More : SixMore(c, b) \in Nat
    /\ 128 \in Nat /\ 2048 \in Nat /\ Wide \in Nat
    /\ \A a \in Two \cup Three \cup Four \cup More : a \in Nat
<1>1. \A c \in Nat, b \in More : SixMore(c, b) \in Nat
  BY Apart
<1>2. \A a \in Nat : a % 32 \in Nat /\ a % 16 \in Nat /\ a % 8 \in Nat
  BY SMT
<1>3. 128 \in Nat /\ 2048 \in Nat /\ Wide \in Nat
  BY SMT DEF Wide
<1>4. \A a \in Two \cup Three \cup Four \cup More : a \in Nat
  BY SMT DEF Two, Three, Four, More
<1> QED  BY <1>1, <1>2, <1>3, <1>4

LEMMA ContinueOf ==
    ASSUME NEW left \in 1 .. 3, NEW codepoint \in Nat, NEW min \in Nat,
           utf8 = State(left, codepoint, min), NEW b \in More
    PROVE  LET n == SixMore(codepoint, b)
           IN  /\ left > 1 => ContinueChar(b) =
                     [utf8 |-> State(left - 1, n, min), out |-> << >>, rest |-> Append(pending, b)]
               /\ left = 1 => ContinueChar(b) =
                     [utf8 |-> State(0, n, min), rest |-> << >>,
                      out |-> <<Piece(IF Valid(n, min) THEN n ELSE Replacement,
                                      Append(pending, b))>>]
<1> DEFINE n == SixMore(codepoint, b)
<1>1. utf8.left = left /\ utf8.codepoint = codepoint /\ utf8.min = min
  BY DEF State
<1> HIDE DEF n
<1>2. [utf8 EXCEPT !.codepoint = n, !.left = @ - 1] = State(left - 1, n, min)
  <2>1. utf8 \in Kept8 /\ left - 1 \in Nat
    BY States
  <2>2. n \in Nat
    BY Numbers DEF n
  <2>3. [utf8 EXCEPT !.codepoint = n, !.left = left - 1] = State(left - 1, n, utf8.min)
    BY <2>1, <2>2, Shifted
  <2> QED  BY <1>1, <2>3
<1>3. left = 1 => left - 1 = 0
  OBVIOUS
<1>4. left > 1 => ContinueChar(b) =
         [utf8 |-> State(left - 1, n, min), out |-> << >>, rest |-> Append(pending, b)]
  BY <1>1, <1>2 DEF ContinueChar, n
<1>5. left = 1 => ContinueChar(b) =
         [utf8 |-> State(0, n, min), rest |-> << >>,
          out |-> <<Piece(IF Valid(n, min) THEN n ELSE Replacement, Append(pending, b))>>]
  <2>1. SUFFICES ASSUME left = 1
        PROVE  ContinueChar(b) =
                  [utf8 |-> State(0, n, min), rest |-> << >>,
                   out |-> <<Piece(IF Valid(n, min) THEN n ELSE Replacement, Append(pending, b))>>]
    OBVIOUS
  <2>2. ~(utf8.left > 1)
    BY <1>1, <2>1
  <2> QED  BY <1>1, <1>2, <1>3, <2>1, <2>2 DEF ContinueChar, n
<1> QED  BY <1>4, <1>5 DEF n

\* One more byte, and the character is not complete.
LEMMA MoreToCome ==
    ASSUME NEW left \in 2 .. 3, NEW codepoint \in Nat, NEW min \in Nat,
           utf8 = State(left, codepoint, min), NEW b \in More,
           Holds(State(left - 1, SixMore(codepoint, b), min), Append(pending, b))
    PROVE  Good(ContinueChar(b))
<1>1. left \in 1 .. 3 /\ left > 1 /\ left - 1 \in Nat /\ SixMore(codepoint, b) \in Nat
  BY Numbers
<1>2. ContinueChar(b) = [utf8 |-> State(left - 1, SixMore(codepoint, b), min),
                         out |-> << >>, rest |-> Append(pending, b)]
  BY <1>1, ContinueOf
<1>3. State(left - 1, SixMore(codepoint, b), min) \in Kept8
  BY <1>1, States
<1> QED  BY <1>2, <1>3, Shows DEF Good

\* The last byte of a character.
LEMMA LastByte ==
    ASSUME NEW codepoint \in Nat, NEW min \in Nat,
           utf8 = State(1, codepoint, min), NEW b \in More,
           Right(Piece(IF Valid(SixMore(codepoint, b), min) THEN SixMore(codepoint, b)
                       ELSE Replacement, Append(pending, b)))
    PROVE  Good(ContinueChar(b))
<1>1. 1 \in 1 .. 3 /\ SixMore(codepoint, b) \in Nat /\ 0 \in Nat
  BY Numbers
<1>2. ContinueChar(b) =
         [utf8 |-> State(0, SixMore(codepoint, b), min), rest |-> << >>,
          out |-> <<Piece(IF Valid(SixMore(codepoint, b), min) THEN SixMore(codepoint, b)
                          ELSE Replacement, Append(pending, b))>>]
  BY <1>1, ContinueOf
<1>3. State(0, SixMore(codepoint, b), min) \in Kept8 /\ State(0, SixMore(codepoint, b), min).left = 0
  BY <1>1, States
<1> QED  BY <1>2, <1>3, Shows DEF Good, Holds

LEMMA Appended ==
    /\ \A a, b \in Nat : Append(<<a>>, b) = <<a, b>>
    /\ \A a, b, d \in Nat : Append(<<a, b>>, d) = <<a, b, d>>
    /\ \A a, b, d, e \in Nat : Append(<<a, b, d>>, e) = <<a, b, d, e>>
<1>1. ASSUME NEW a \in Nat, NEW b \in Nat PROVE Append(<<a>>, b) = <<a, b>>
  <2> DEFINE s == Append(<<a>>, b)
  <2>1. s \in Seq(Nat) /\ Len(s) = 2 /\ s[1] = a /\ s[2] = b
    OBVIOUS
  <2> HIDE DEF s
  <2>2. s = <<a, b>>
    BY <2>1, Tuples
  <2> QED  BY <2>2 DEF s
<1>2. ASSUME NEW a \in Nat, NEW b \in Nat, NEW d \in Nat PROVE Append(<<a, b>>, d) = <<a, b, d>>
  <2> DEFINE s == Append(<<a, b>>, d)
  <2>1. s \in Seq(Nat) /\ Len(s) = 3 /\ s[1] = a /\ s[2] = b /\ s[3] = d
    OBVIOUS
  <2> HIDE DEF s
  <2>2. s = <<a, b, d>>
    BY <2>1, Tuples
  <2> QED  BY <2>2 DEF s
<1>3. ASSUME NEW a \in Nat, NEW b \in Nat, NEW d \in Nat, NEW e \in Nat
      PROVE  Append(<<a, b, d>>, e) = <<a, b, d, e>>
  <2> DEFINE s == Append(<<a, b, d>>, e)
  <2>1. s \in Seq(Nat) /\ Len(s) = 4 /\ s[1] = a /\ s[2] = b /\ s[3] = d /\ s[4] = e
    OBVIOUS
  <2> HIDE DEF s
  <2>2. s = <<a, b, d, e>>
    BY <2>1, Tuples
  <2> QED  BY <2>2 DEF s
<1> QED  BY <1>1, <1>2, <1>3

LEMMA ContinueGood ==
    ASSUME Utf8Invariant, utf8.left > 0, NEW b \in More
    PROVE  Good(ContinueChar(b))
<1>1. utf8.left # 0
  BY SMT DEF Utf8Invariant
<1>2. CASE Keeps2(utf8, pending)
  <2>1. PICK a \in Two : pending = <<a>> /\ utf8 = State(1, a % 32, 128)
    BY <1>2 DEF Keeps2
  <2>2. Append(pending, b) = <<a, b>> /\ a % 32 \in Nat /\ 128 \in Nat
    BY <2>1, Appended, Numbers
  <2>3. Right(Piece(IF Valid(SixMore(a % 32, b), 128) THEN SixMore(a % 32, b)
                    ELSE Replacement, Append(pending, b)))
    BY <2>2, Completed
  <2> QED  BY <2>1, <2>2, <2>3, LastByte
<1>3. CASE Keeps3(utf8, pending)
  <2>1. CASE \E a \in Three : pending = <<a>> /\ utf8 = State(2, a % 16, 2048)
    <3>1. PICK a \in Three : pending = <<a>> /\ utf8 = State(2, a % 16, 2048)
      BY <2>1
    <3>2. /\ Append(pending, b) = <<a, b>> /\ a % 16 \in Nat /\ 2048 \in Nat /\ 2 - 1 = 1
          /\ 2 \in 2 .. 3
      BY <3>1, Appended, Numbers
    <3>3. Holds(State(1, SixMore(a % 16, b), 2048), <<a, b>>)
      BY DEF Holds, Keeps3
    <3>4. Holds(State(2 - 1, SixMore(a % 16, b), 2048), Append(pending, b))
      BY <3>2, <3>3
    <3> QED  BY <3>1, <3>2, <3>4, MoreToCome
  <2>2. CASE \E a \in Three, d \in More :
                pending = <<a, d>> /\ utf8 = State(1, SixMore(a % 16, d), 2048)
    <3>1. PICK a \in Three, d \in More :
             pending = <<a, d>> /\ utf8 = State(1, SixMore(a % 16, d), 2048)
      BY <2>2
    <3>0. a \in Nat /\ d \in Nat /\ b \in Nat
      BY Numbers
    <3>2. Append(pending, b) = <<a, d, b>> /\ SixMore(a % 16, d) \in Nat /\ 2048 \in Nat
      BY <3>0, <3>1, Appended, Numbers
    <3> DEFINE n == SixMore(SixMore(a % 16, d), b)
    <3>3. Right(Piece(IF Valid(n, 2048) THEN n ELSE Replacement, Append(pending, b)))
      BY <3>2, Completed
    <3> QED  BY <3>1, <3>2, <3>3, LastByte
  <2> QED  BY <1>3, <2>1, <2>2 DEF Keeps3
<1>4. CASE Keeps4(utf8, pending)
  <2>1. CASE \E a \in Four : pending = <<a>> /\ utf8 = State(3, a % 8, Wide)
    <3>1. PICK a \in Four : pending = <<a>> /\ utf8 = State(3, a % 8, Wide)
      BY <2>1
    <3>2. /\ Append(pending, b) = <<a, b>> /\ a % 8 \in Nat /\ Wide \in Nat /\ 3 - 1 = 2
          /\ 3 \in 2 .. 3
      BY <3>1, Appended, Numbers
    <3>3. Holds(State(2, SixMore(a % 8, b), Wide), <<a, b>>)
      BY DEF Holds, Keeps4
    <3>4. Holds(State(3 - 1, SixMore(a % 8, b), Wide), Append(pending, b))
      BY <3>2, <3>3
    <3> QED  BY <3>1, <3>2, <3>4, MoreToCome
  <2>2. CASE \E a \in Four, d \in More :
                pending = <<a, d>> /\ utf8 = State(2, SixMore(a % 8, d), Wide)
    <3>1. PICK a \in Four, d \in More :
             pending = <<a, d>> /\ utf8 = State(2, SixMore(a % 8, d), Wide)
      BY <2>2
    <3>2. /\ Append(pending, b) = <<a, d, b>> /\ SixMore(a % 8, d) \in Nat /\ Wide \in Nat
          /\ 2 - 1 = 1 /\ 2 \in 2 .. 3
      BY <3>1, Appended, Numbers
    <3>3. Holds(State(1, SixMore(SixMore(a % 8, d), b), Wide), <<a, d, b>>)
      BY DEF Holds, Keeps4
    <3>4. Holds(State(2 - 1, SixMore(SixMore(a % 8, d), b), Wide), Append(pending, b))
      BY <3>2, <3>3
    <3> QED  BY <3>1, <3>2, <3>4, MoreToCome
  <2>3. CASE \E a \in Four, d, e \in More :
                pending = <<a, d, e>> /\ utf8 = State(1, SixMore(SixMore(a % 8, d), e), Wide)
    <3>1. PICK a \in Four, d \in More, e \in More :
             pending = <<a, d, e>> /\ utf8 = State(1, SixMore(SixMore(a % 8, d), e), Wide)
      BY <2>3
    <3>0. a \in Nat /\ d \in Nat /\ e \in Nat /\ b \in Nat
      BY Numbers
    <3>2. /\ Append(pending, b) = <<a, d, e, b>> /\ Wide \in Nat
          /\ SixMore(SixMore(a % 8, d), e) \in Nat
      <4>1. Append(pending, b) = <<a, d, e, b>>
        BY <3>0, <3>1, Appended
      <4>2. SixMore(a % 8, d) \in Nat
        BY <3>0, Numbers
      <4>3. SixMore(SixMore(a % 8, d), e) \in Nat
        BY <4>2, Numbers
      <4>4. Wide \in Nat
        BY Numbers
      <4> QED  BY <4>1, <4>3, <4>4
    <3> DEFINE n == SixMore(SixMore(SixMore(a % 8, d), e), b)
    <3>3. Right(Piece(IF Valid(n, Wide) THEN n ELSE Replacement, Append(pending, b)))
      BY <3>2, Completed
    <3> QED  BY <3>1, <3>2, <3>3, LastByte
  <2> QED  BY <1>4, <2>1, <2>2, <2>3 DEF Keeps4
<1> QED  BY <1>1, <1>2, <1>3, <1>4 DEF Utf8Invariant, Holds

-------------------------------------------------------------------------------
LEMMA Utf8Initial == Utf8Init => Utf8Invariant
BY Shows DEF Utf8Init, Utf8Invariant, None, Holds, Kept8

LEMMA Utf8Step ==
    ASSUME Octets, Utf8Invariant, [Utf8Next]_decode
    PROVE  Utf8Invariant'
<1>1. CASE NormalChar
  <2>1. PICK b \in HostBytes :
           utf8' = Step(b).utf8 /\ pieces' = Step(b).out /\ pending' = Step(b).rest
    BY <1>1 DEF NormalChar
  <2>2. b \in 0 .. 255 /\ utf8.left \in Nat
    BY DEF Octets, Utf8Invariant
  <2>3. Good(Step(b))
    <3>1. CASE utf8.left = 0
      <4>1. Step(b) = FirstByte(b)
        BY <3>1 DEF Step
      <4> QED  BY <2>2, <3>1, <4>1, FirstGood
    <3>2. CASE utf8.left > 0 /\ IsContinuation(b)
      <4>1. Step(b) = ContinueChar(b) /\ b \in More
        BY <3>2 DEF Step, IsContinuation, More
      <4> QED  BY <3>2, <4>1, ContinueGood
    <3>3. CASE utf8.left > 0 /\ ~IsContinuation(b)
      <4>1. Step(b) = Interrupt(b)
        BY <3>3 DEF Step
      <4> QED  BY <2>2, <3>3, <4>1, InterruptGood
    <3>4. utf8.left = 0 \/ utf8.left > 0
      BY <2>2
    <3> QED  BY <3>1, <3>2, <3>3, <3>4
  <2> QED  BY <2>1, <2>3 DEF Good, Utf8Invariant, Holds, Keeps2, Keeps3, Keeps4, RightPieces, Right, Kept8
<1>2. CASE ControlChar
  <2>1. Right(Piece(10, <<10>>))
    <3>1. WellFormed(<<10>>) /\ Decoded(<<10>>) = 10
      BY OneByte
    <3> QED  BY <3>1, Pieces DEF Right
  <2>2. RightPieces(pieces')
    BY <1>2, <2>1, Shows DEF ControlChar
  <2> QED  BY <1>2, <2>2 DEF ControlChar, Utf8Invariant, Holds, Keeps2, Keeps3, Keeps4, RightPieces, Right
<1>3. CASE UNCHANGED decode
  BY <1>3 DEF decode, Utf8Invariant, Holds, Keeps2, Keeps3, Keeps4, RightPieces, Right
<1> QED  BY <1>1, <1>2, <1>3 DEF Utf8Next

LEMMA Utf8Implied == Utf8Invariant => DecodesUtf8
<1> SUFFICES ASSUME Utf8Invariant PROVE DecodesUtf8
  OBVIOUS
<1>1. (pending # << >>) <=> (utf8.left > 0)
  <2>1. CASE utf8.left > 0
    BY <2>1, PendingReplaced
  <2>2. CASE ~(utf8.left > 0)
    <3>1. ~Keeps2(utf8, pending) /\ ~Keeps3(utf8, pending) /\ ~Keeps4(utf8, pending)
      BY <2>2 DEF Keeps2, Keeps3, Keeps4, State
    <3> QED  BY <2>2, <3>1 DEF Utf8Invariant, Holds
  <2> QED  BY <2>1, <2>2
<1> QED  BY <1>1 DEF DecodesUtf8, Utf8Invariant, RightPieces, Right

\* Whatever bytes the host sends, and wherever control characters come in between, every
\* byte shows in one character, as RFC 3629 has it (KTerm_ProcessNormalChar).
THEOREM Utf8Theorem == Octets => (Utf8Spec => []DecodesUtf8)
<1> SUFFICES ASSUME Octets PROVE Utf8Spec => []DecodesUtf8
  OBVIOUS
<1>1. Utf8Init => Utf8Invariant
  BY Utf8Initial
<1>2. Utf8Invariant /\ [Utf8Next]_decode => Utf8Invariant'
  BY Utf8Step
<1>3. Utf8Invariant => DecodesUtf8
  BY Utf8Implied
<1> QED  BY <1>1, <1>2, <1>3, PTL DEF Utf8Spec

-------------------------------------------------------------------------------
(* What the terminal owns: Lifecycle *)

\* Sessions are numbered, and there is one.
Sessions == \E n \in Nat \ {0} : Session = 1 .. n

\* Sizes are numbers of cells.
Cells == Sizes \subseteq Nat

Memory ==
    [own : SUBSET Block, gone : SUBSET Block, lost : SUBSET Block, twice : BOOLEAN, ok : BOOLEAN,
     cells : [Session -> [Buffers -> Nat]]]

\* No pointer to what was freed, and nothing freed twice.
Tidy(m) == m.gone = {} /\ ~m.twice

\* The blocks B after an allocation of b, which fails if b is in oom.
Given(B, b, oom) == IF b \in oom THEN B \ {b} ELSE B \cup {b}

-------------------------------------------------------------------------------
LEMMA FreeFacts ==
    ASSUME NEW m \in Memory, NEW B \in SUBSET Block
    PROVE  LET y == FreeBlocks(m, B)
           IN  /\ y \in Memory /\ y.own = m.own \ B /\ y.gone = m.gone \cup (B \cap m.own)
               /\ y.lost = m.lost /\ y.ok = m.ok /\ y.cells = m.cells
               /\ y.twice = (m.twice \/ B \cap m.gone # {})
BY DEF FreeBlocks, Memory

LEMMA ForgetFacts ==
    ASSUME NEW m \in Memory, NEW B \in SUBSET Block
    PROVE  LET y == ForgetBlocks(m, B)
           IN  /\ y \in Memory /\ y.own = m.own \ B /\ y.gone = m.gone \ B
               /\ y.lost = m.lost \cup (B \cap m.own) /\ y.ok = m.ok /\ y.cells = m.cells
               /\ y.twice = m.twice
BY DEF ForgetBlocks, Memory

LEMMA ReleaseFacts ==
    ASSUME NEW m \in Memory, NEW B \in SUBSET Block
    PROVE  LET y == ReleaseBlocks(m, B)
           IN  /\ y \in Memory /\ y.own = m.own \ B /\ y.lost = m.lost /\ y.ok = m.ok
               /\ y.cells = m.cells /\ (Tidy(m) => Tidy(y))
<1> DEFINE x == FreeBlocks(m, B)
           y == ForgetBlocks(x, B)
<1>1. /\ x \in Memory /\ x.own = m.own \ B /\ x.gone = m.gone \cup (B \cap m.own)
      /\ x.lost = m.lost /\ x.ok = m.ok /\ x.cells = m.cells
      /\ x.twice = (m.twice \/ B \cap m.gone # {})
  BY FreeFacts
<1> HIDE DEF x
<1>2. /\ y \in Memory /\ y.own = x.own \ B /\ y.gone = x.gone \ B
      /\ y.lost = x.lost \cup (B \cap x.own) /\ y.ok = x.ok /\ y.cells = x.cells
      /\ y.twice = x.twice
  BY <1>1, ForgetFacts
<1> HIDE DEF y
<1>3. y.own = m.own \ B /\ y.lost = m.lost
  BY <1>1, <1>2
<1>4. Tidy(m) => Tidy(y)
  BY <1>1, <1>2 DEF Tidy
<1>5. y = ReleaseBlocks(m, B)
  BY DEF ReleaseBlocks, x, y
<1> QED  BY <1>1, <1>2, <1>3, <1>4, <1>5

LEMMA AllocFacts ==
    ASSUME NEW m \in Memory, NEW b \in Block, NEW oom
    PROVE  LET y == Alloc(m, b, oom)
           IN  /\ y \in Memory /\ y.own = Given(m.own, b, oom)
               /\ y.gone = m.gone \ {b} /\ y.lost = m.lost \cup ({b} \cap m.own)
               /\ y.ok = m.ok /\ y.cells = m.cells /\ y.twice = m.twice
<1> DEFINE x == ForgetBlocks(m, {b})
           z == [x EXCEPT !.own = @ \cup {b}]
           y == Alloc(m, b, oom)
<1>1. /\ x \in Memory /\ x.own = m.own \ {b} /\ x.gone = m.gone \ {b}
      /\ x.lost = m.lost \cup ({b} \cap m.own) /\ x.ok = m.ok /\ x.cells = m.cells
      /\ x.twice = m.twice
  BY ForgetFacts
<1>2. y = IF b \in oom THEN x ELSE z
  BY DEF Alloc, Assign
<1> HIDE DEF x, y
<1>3. /\ z \in Memory /\ z.own = x.own \cup {b} /\ z.gone = x.gone /\ z.lost = x.lost
      /\ z.ok = x.ok /\ z.cells = x.cells /\ z.twice = x.twice
  BY <1>1 DEF Memory
<1>4. z.own = m.own \cup {b}
  BY <1>1, <1>3
<1> HIDE DEF z
<1> QED  BY <1>1, <1>2, <1>3, <1>4 DEF y, Given

LEMMA RenewFacts ==
    ASSUME NEW m \in Memory, NEW b \in Block, NEW oom
    PROVE  LET y == Renew(m, b, oom)
           IN  /\ y \in Memory /\ y.own = Given(m.own, b, oom)
               /\ y.lost = m.lost /\ y.ok = m.ok /\ y.cells = m.cells /\ (Tidy(m) => Tidy(y))
<1> DEFINE x == FreeBlocks(m, {b})
           y == Alloc(x, b, oom)
<1>1. /\ x \in Memory /\ x.own = m.own \ {b} /\ x.gone = m.gone \cup ({b} \cap m.own)
      /\ x.lost = m.lost /\ x.ok = m.ok /\ x.cells = m.cells
      /\ x.twice = (m.twice \/ {b} \cap m.gone # {})
  BY FreeFacts
<1> HIDE DEF x
<1>2. /\ y \in Memory /\ y.own = Given(x.own, b, oom)
      /\ y.gone = x.gone \ {b} /\ y.lost = x.lost \cup ({b} \cap x.own)
      /\ y.ok = x.ok /\ y.cells = x.cells /\ y.twice = x.twice
  <2>1. x \in Memory
    BY <1>1
  <2> QED  BY ONLY <2>1, b \in Block, AllocFacts
<1> HIDE DEF y
<1>3. y.own = Given(m.own, b, oom) /\ y.lost = m.lost
  <2>1. Given(m.own \ {b}, b, oom) = Given(m.own, b, oom)
    BY DEF Given
  <2>2. y.lost = m.lost
    BY <1>1, <1>2
  <2> QED  BY <1>1, <1>2, <2>1, <2>2
<1>4. Tidy(m) => Tidy(y)
  BY <1>1, <1>2 DEF Tidy
<1>5. y = Renew(m, b, oom)
  BY DEF Renew, x, y
<1> QED  BY <1>1, <1>2, <1>3, <1>4, <1>5

-------------------------------------------------------------------------------
(* A session *)

OfOne(x) == {x} \X OfSession
News == {<<x, Anew[f]>> : x \in Session, f \in Buffers}

\* The buffers a session needs, of the size it believes to have.
SetUp(m, x, n) ==
    /\ \A f \in Needed : <<x, f>> \in m.own
    /\ \A f \in Buffers : m.cells[x][f] = n

\* The memory y that a call leaves where it found m, if it is about session x.
About(m, y, x) ==
    /\ y \in Memory /\ Tidy(y)
    /\ y.own \ OfOne(x) = m.own \ OfOne(x)
    /\ y.own \cap News \subseteq m.own
    /\ y.lost \subseteq m.lost \cup (m.own \cap {<<x, "input">>, <<x, "sequences">>})
    /\ \A z \in Session \ {x} : y.cells[z] = m.cells[z]

LEMMA SessionBlocks ==
    ASSUME NEW x \in Session, NEW f \in OfSession
    PROVE  <<x, f>> \in Block /\ <<x, f>> \in OfOne(x)
BY DEF Block, OfOne

LEMMA BufferFacts ==
    ASSUME NEW m \in Memory, NEW x \in Session, NEW f \in Buffers, NEW n \in Nat, NEW oom
    PROVE  LET y == NewBuffer(m, x, f, n, oom)
           IN  /\ y \in Memory
               /\ y.own = Given(m.own, <<x, f>>, oom)
               /\ y.lost = m.lost /\ y.ok = m.ok /\ (Tidy(m) => Tidy(y))
               /\ y.cells = [m.cells EXCEPT ![x][f] = n]
<1> DEFINE z == Renew(m, <<x, f>>, oom)
           y == [z EXCEPT !.cells[x][f] = n]
<1>1. <<x, f>> \in Block
  BY SessionBlocks DEF OfSession
<1>2. /\ z \in Memory
      /\ z.own = Given(m.own, <<x, f>>, oom)
      /\ z.lost = m.lost /\ z.ok = m.ok /\ z.cells = m.cells /\ (Tidy(m) => Tidy(z))
  BY <1>1, RenewFacts
<1> HIDE DEF z
<1>3. /\ y.own = z.own /\ y.gone = z.gone /\ y.lost = z.lost /\ y.twice = z.twice /\ y.ok = z.ok
      /\ y.cells = [z.cells EXCEPT ![x][f] = n]
  BY <1>2 DEF Memory
<1>4. y \in Memory
  BY <1>2 DEF Memory
<1>5. y = NewBuffer(m, x, f, n, oom)
  BY DEF NewBuffer, z
<1> HIDE DEF y
<1> QED  BY <1>2, <1>3, <1>4, <1>5 DEF Tidy

LEMMA FailFacts ==
    ASSUME NEW m \in Memory
    PROVE  LET y == FailInit(m)
           IN  /\ y \in Memory /\ y.own = m.own /\ y.gone = m.gone /\ y.lost = m.lost
               /\ y.twice = m.twice /\ y.cells = m.cells /\ ~y.ok
BY DEF FailInit, Memory

\* KTerm_InitSession before it is done: y is what it made of m so far.
Partial(m, y, x) ==
    /\ y \in Memory /\ Tidy(y) /\ y.ok = m.ok
    /\ y.own \ OfOne(x) = m.own \ OfOne(x) /\ y.own \subseteq m.own \cup ({x} \X Needed)
    /\ y.lost \subseteq m.lost \cup (m.own \cap {<<x, "input">>})
    /\ \A z \in Session \ {x} : y.cells[z] = m.cells[z]

LEMMA NeededBlocks ==
    ASSUME NEW x \in Session
    PROVE  /\ {x} \X Needed \subseteq OfOne(x) \cap Block
           /\ ({x} \X Needed) \cap News = {}
<1>1. Needed \subseteq OfSession
  BY DEF Needed, OfSession
<1>2. \A f \in Needed : <<x, f>> \in Block /\ <<x, f>> \in OfOne(x)
  BY <1>1, SessionBlocks
<1>3. \A g \in Buffers : Anew[g] \notin Needed
  <2>1. Anew["screen"] \notin Needed
    BY DEF Buffers, Needed, Anew
  <2>2. Anew["alt"] \notin Needed
    BY DEF Buffers, Needed, Anew
  <2>3. Anew["row_dirty"] \notin Needed
    BY DEF Buffers, Needed, Anew
  <2> QED  BY <2>1, <2>2, <2>3 DEF Buffers
<1> QED  BY <1>2, <1>3 DEF News

LEMMA MoreBuffers ==
    ASSUME NEW m, NEW y, NEW x \in Session, NEW f \in Buffers, NEW n \in Nat, NEW oom, Partial(m, y, x)
    PROVE  LET z == NewBuffer(y, x, f, n, oom)
           IN  /\ Partial(m, z, x) /\ z.own = Given(y.own, <<x, f>>, oom)
               /\ z.cells = [y.cells EXCEPT ![x][f] = n]
<1> DEFINE b == <<x, f>>
           z == NewBuffer(y, x, f, n, oom)
<1>1. y \in Memory
  BY DEF Partial
<1>2. /\ z \in Memory /\ z.own = Given(y.own, b, oom)
      /\ z.lost = y.lost /\ z.ok = y.ok /\ (Tidy(y) => Tidy(z))
      /\ z.cells = [y.cells EXCEPT ![x][f] = n]
  BY <1>1, BufferFacts
<1>3. b \in OfOne(x) /\ b \in {x} \X Needed
  BY SessionBlocks DEF Needed, OfSession
<1>4. \A z2 \in Session \ {x} : z.cells[z2] = y.cells[z2]
  BY <1>1, <1>2 DEF Memory
<1> HIDE DEF b, z
<1>5. z.own \ OfOne(x) = y.own \ OfOne(x)
  BY <1>2, <1>3 DEF Given
<1>6. z.own \subseteq y.own \cup ({x} \X Needed)
  BY <1>2, <1>3 DEF Given
<1>7. Partial(m, z, x)
  BY <1>2, <1>4, <1>5, <1>6 DEF Partial
<1> QED  BY <1>2, <1>7 DEF z, b

LEMMA FewerBlocks ==
    ASSUME NEW m, NEW y, NEW x \in Session, NEW B \in SUBSET ({x} \X Needed), Partial(m, y, x)
    PROVE  Partial(m, ReleaseBlocks(y, B), x)
<1> DEFINE z == ReleaseBlocks(y, B)
<1>1. y \in Memory /\ B \subseteq Block /\ B \subseteq OfOne(x)
  BY NeededBlocks DEF Partial
<1>2. /\ z \in Memory /\ z.own = y.own \ B /\ z.lost = y.lost /\ z.ok = y.ok
      /\ z.cells = y.cells /\ (Tidy(y) => Tidy(z))
  BY <1>1, ReleaseFacts
<1> HIDE DEF z
<1> QED  BY <1>1, <1>2 DEF Partial, z

LEMMA BegunIsAbout ==
    ASSUME NEW m, NEW y, NEW x \in Session, Partial(m, y, x)
    PROVE  About(m, y, x)
BY NeededBlocks DEF Partial, About

LEMMA AboutFails ==
    ASSUME NEW m, NEW y, NEW x \in Session, Partial(m, y, x)
    PROVE  About(m, FailInit(y), x) /\ ~FailInit(y).ok
<1>1. About(m, y, x) /\ y \in Memory
  BY BegunIsAbout DEF Partial
<1> QED  BY <1>1, FailFacts DEF About, Tidy

\* What KTerm_InitSession does: the session is set up, or an allocation it needs
\* failed.
LEMMA InitSessionFacts ==
    ASSUME NEW m \in Memory, Tidy(m), m.ok, NEW x \in Session, NEW n \in Nat, NEW oom
    PROVE  LET y == InitSession(m, x, n, oom)
           IN  /\ About(m, y, x)
               /\ y.ok => SetUp(y, x, n)
               /\ ~y.ok => \E f \in Needed : <<x, f>> \in oom
<1> DEFINE b(f) == <<x, f>>
           m0 == ResetGraphics(m, x)
           m1 == Alloc(m0, b("input"), oom)
           m2 == NewBuffer(m1, x, "screen", n, oom)
           m3 == NewBuffer(m2, x, "alt", n, oom)
           m4 == NewBuffer(m3, x, "row_dirty", n, oom)
           y == InitSession(m, x, n, oom)
<1>1. y = IF b("input") \in oom THEN FailInit(m1)
          ELSE IF b("screen") \in oom THEN FailInit(m2)
          ELSE IF b("alt") \in oom THEN FailInit(ReleaseBlocks(m3, {b("screen")}))
          ELSE IF b("row_dirty") \in oom
               THEN FailInit(ReleaseBlocks(m4, {x} \X {"screen", "alt"}))
          ELSE ForgetBlocks(m4, {b("sequences")})
  BY DEF InitSession
<1>2. m0 \in Memory /\ Tidy(m0) /\ m0.own = m.own \ ({x} \X Graphics) /\ m0.lost = m.lost
      /\ m0.ok = m.ok /\ m0.cells = m.cells
  <2>1. {x} \X Graphics \in SUBSET Block
    <3>1. Graphics \subseteq OfSession
      BY DEF OfSession
    <3>2. \A f \in Graphics : <<x, f>> \in Block
      BY <3>1, SessionBlocks
    <3> QED  BY <3>2
  <2> QED  BY <2>1, ReleaseFacts DEF ResetGraphics
<1> HIDE DEF m0
<1>3. b("input") \in Block /\ b("input") \in {x} \X Needed /\ b("input") \in OfOne(x)
  BY SessionBlocks DEF Needed, OfSession
<1>4. {x} \X Graphics \subseteq OfOne(x)
  BY DEF OfOne, OfSession
<1>5. /\ m1 \in Memory /\ m1.own = Given(m0.own, b("input"), oom)
      /\ m1.gone = m0.gone \ {b("input")} /\ m1.lost = m0.lost \cup ({b("input")} \cap m0.own)
      /\ m1.ok = m0.ok /\ m1.cells = m0.cells /\ m1.twice = m0.twice
  <2>1. m0 \in Memory
    BY <1>2
  <2> HIDE DEF b
  <2> QED  BY ONLY <1>3, <2>1, AllocFacts DEF m1
<1> HIDE DEF m1, y, b
<1>6. Partial(m, m1, x)
  <2>1. m1.own \ OfOne(x) = m.own \ OfOne(x)
    BY <1>2, <1>3, <1>4, <1>5 DEF Given
  <2>2. m1.own \subseteq m.own \cup ({x} \X Needed)
    BY <1>2, <1>3, <1>5 DEF Given
  <2>3. m1.lost \subseteq m.lost \cup (m.own \cap {b("input")})
    BY <1>2, <1>5
  <2>4. Tidy(m1)
    BY <1>2, <1>5 DEF Tidy
  <2> QED  BY <1>2, <1>5, <2>1, <2>2, <2>3, <2>4 DEF Partial, b
<1>7. /\ Partial(m, m2, x) /\ m2.own = Given(m1.own, b("screen"), oom)
      /\ m2.cells = [m1.cells EXCEPT ![x]["screen"] = n]
  <2>1. "screen" \in Buffers
    BY DEF Buffers
  <2>2. Partial(m, m1, x)
    BY <1>6
  <2> QED  BY ONLY <2>1, <2>2, n \in Nat, x \in Session, MoreBuffers DEF m2, b
<1> HIDE DEF m2
<1>8. /\ Partial(m, m3, x) /\ m3.own = Given(m2.own, b("alt"), oom)
      /\ m3.cells = [m2.cells EXCEPT ![x]["alt"] = n]
  <2>1. "alt" \in Buffers
    BY DEF Buffers
  <2>2. Partial(m, m2, x)
    BY <1>7
  <2> QED  BY ONLY <2>1, <2>2, n \in Nat, x \in Session, MoreBuffers DEF m3, b
<1> HIDE DEF m3
<1>9. /\ Partial(m, m4, x) /\ m4.own = Given(m3.own, b("row_dirty"), oom)
      /\ m4.cells = [m3.cells EXCEPT ![x]["row_dirty"] = n]
  <2>1. "row_dirty" \in Buffers
    BY DEF Buffers
  <2>2. Partial(m, m3, x)
    BY <1>8
  <2> QED  BY ONLY <2>1, <2>2, n \in Nat, x \in Session, MoreBuffers DEF m4, b
<1> HIDE DEF m4
<1>10. ASSUME \E f \in Needed : b(f) \in oom, NEW z, Partial(m, z, x), y = FailInit(z)
       PROVE  About(m, y, x) /\ ~y.ok /\ \E f \in Needed : <<x, f>> \in oom
  BY <1>10, AboutFails DEF b
<1>11. {"input", "screen", "alt", "row_dirty"} = Needed
  BY DEF Needed, Buffers
<1>12. CASE b("input") \in oom
  BY <1>1, <1>6, <1>10, <1>11, <1>12 DEF y
<1>13. CASE b("input") \notin oom /\ b("screen") \in oom
  BY <1>1, <1>7, <1>10, <1>11, <1>13 DEF y
<1>14. CASE b("input") \notin oom /\ b("screen") \notin oom /\ b("alt") \in oom
  <2>1. {b("screen")} \in SUBSET ({x} \X Needed)
    BY <1>11 DEF b
  <2>2. Partial(m, ReleaseBlocks(m3, {b("screen")}), x)
    BY <1>8, <2>1, FewerBlocks
  <2> QED  BY <1>1, <1>10, <1>11, <1>14, <2>2 DEF y
<1>15. CASE /\ b("input") \notin oom /\ b("screen") \notin oom /\ b("alt") \notin oom
            /\ b("row_dirty") \in oom
  <2>1. {x} \X {"screen", "alt"} \in SUBSET ({x} \X Needed)
    BY <1>11
  <2>2. Partial(m, ReleaseBlocks(m4, {x} \X {"screen", "alt"}), x)
    BY <1>9, <2>1, FewerBlocks
  <2> QED  BY <1>1, <1>10, <1>11, <1>15, <2>2 DEF y
<1>16. CASE /\ b("input") \notin oom /\ b("screen") \notin oom /\ b("alt") \notin oom
            /\ b("row_dirty") \notin oom
  <2>1. y = ForgetBlocks(m4, {b("sequences")})
    BY <1>1, <1>16
  <2>2. m4 \in Memory /\ b("sequences") \in Block /\ b("sequences") \in OfOne(x)
    BY <1>9, SessionBlocks DEF Partial, OfSession, b
  <2>3. /\ y \in Memory /\ y.own = m4.own \ {b("sequences")} /\ y.gone = m4.gone \ {b("sequences")}
        /\ y.lost = m4.lost \cup ({b("sequences")} \cap m4.own) /\ y.ok = m4.ok
        /\ y.cells = m4.cells /\ y.twice = m4.twice
    BY <2>1, <2>2, ForgetFacts
  <2>4. b("sequences") \notin {x} \X Needed
    BY <1>11 DEF b
  <2>5. About(m, y, x)
    <3>1. About(m, m4, x)
      BY <1>9, BegunIsAbout
    <3>2. y.own \ OfOne(x) = m4.own \ OfOne(x) /\ y.own \subseteq m4.own
      BY <2>2, <2>3
    <3>3. {b("sequences")} \cap m4.own \subseteq m.own
      BY <1>9, <2>4 DEF Partial
    <3>4. m4.lost \subseteq m.lost \cup (m.own \cap {b("input")})
      BY <1>9 DEF Partial, b
    <3>5. y.lost \subseteq m.lost \cup (m.own \cap {b("input"), b("sequences")})
      BY <2>3, <3>3, <3>4
    <3>6. Tidy(y)
      BY <1>9, <2>3 DEF Partial, Tidy
    <3> QED  BY <2>3, <3>1, <3>2, <3>5, <3>6 DEF About, b
  <2>6. y.ok
    BY <1>9, <2>3 DEF Partial
  <2>7. SetUp(y, x, n)
    <3>1. b("input") \in m1.own
      BY <1>5, <1>16 DEF Given
    <3>2. \A f \in Needed : b(f) \in m4.own
      BY <1>7, <1>8, <1>9, <1>11, <1>16, <3>1 DEF Given
    <3>3. \A f \in Needed : b(f) \in y.own
      BY <2>3, <2>4, <3>2 DEF b
    <3>4. \A f \in Buffers : y.cells[x][f] = n
      <4>1. m1.cells \in [Session -> [Buffers -> Nat]]
        BY <1>5 DEF Memory
      <4>2. m2.cells \in [Session -> [Buffers -> Nat]] /\ m2.cells[x] = [m1.cells[x] EXCEPT !["screen"] = n]
        BY <1>7, <4>1 DEF Partial, Memory
      <4>4. m3.cells \in [Session -> [Buffers -> Nat]] /\ m3.cells[x] = [m2.cells[x] EXCEPT !["alt"] = n]
        BY <1>8, <4>2 DEF Partial, Memory
      <4>5. m4.cells[x] = [m3.cells[x] EXCEPT !["row_dirty"] = n]
        BY <1>9, <4>4
      <4>3. m1.cells[x] \in [Buffers -> Nat] /\ Buffers = {"screen", "alt", "row_dirty"}
        BY <4>1 DEF Buffers
      <4> QED  BY <2>3, <4>2, <4>3, <4>4, <4>5
    <3> QED  BY <3>3, <3>4 DEF SetUp, b
  <2> QED  BY <2>5, <2>6, <2>7 DEF y
<1> QED  BY <1>12, <1>13, <1>14, <1>15, <1>16

-------------------------------------------------------------------------------
(* All sessions, and the stages of KTerm_Init *)

LEMMA LastNumber ==
    ASSUME NEW n \in Nat, NEW k \in 1 .. n
    PROVE  /\ 1 .. k \in SUBSET (1 .. n) /\ 1 .. k # {} /\ Max(1 .. k) = k
           /\ (1 .. k) \ {k} = 1 .. k - 1 /\ 1 .. k - 1 \in SUBSET (1 .. n)
<1>1. k \in 1 .. k /\ \A z \in 1 .. k : z \in Int /\ k >= z
  OBVIOUS
<1>2. \A x \in 1 .. k : (\A z \in 1 .. k : x >= z) => x = k
  BY <1>1
<1>3. Max(1 .. k) = k
  BY <1>1, <1>2 DEF Max
<1> QED  BY <1>3

\* The recursion by which FoldLeft takes n steps from m.
Solves(F, X, m, step, n) ==
    /\ F \in [SUBSET (1 .. n) -> X]
    /\ \A S \in SUBSET (1 .. n) : F[S] = IF S = {} THEN m ELSE step[<<F[S \ {Max(S)}], Max(S)>>]

\* It has a solution.
LEMMA Recursion ==
    ASSUME NEW X, NEW m \in X, NEW n \in Nat, NEW step \in [X \X (1 .. n) -> X]
    PROVE  \E F : Solves(F, X, m, step, n)
<1> DEFINE K == {i \in Nat : i <= n => \E F : Solves(F, X, m, step, i)}
<1>1. 0 \in K
  <2> DEFINE F == [S \in SUBSET (1 .. 0) |-> m]
  <2>1. \A S \in SUBSET (1 .. 0) : S = {}
    OBVIOUS
  <2>2. Solves(F, X, m, step, 0)
    BY <2>1 DEF Solves
  <2> QED  BY <2>2
<1>2. ASSUME NEW i \in Nat, i \in K PROVE i + 1 \in K
  <2> SUFFICES ASSUME i + 1 <= n PROVE \E F : Solves(F, X, m, step, i + 1)
    OBVIOUS
  <2>1. PICK F : Solves(F, X, m, step, i)
    BY <1>2
  <2> DEFINE G == [S \in SUBSET (1 .. i + 1) |->
                     IF i + 1 \in S THEN step[<<F[S \ {i + 1}], i + 1>>] ELSE F[S]]
  <2>2. ASSUME NEW S \in SUBSET (1 .. i + 1)
        PROVE  /\ G[S] = IF S = {} THEN m ELSE step[<<G[S \ {Max(S)}], Max(S)>>]
               /\ G[S] \in X
    <3>1. CASE i + 1 \in S
      <4>1. Max(S) = i + 1 /\ S # {}
        <5>1. \A x \in S : x \in Int /\ i + 1 >= x
          OBVIOUS
        <5>2. \A x \in S : (\A z \in S : x >= z) => x = i + 1
          BY <3>1, <5>1
        <5> QED  BY <3>1, <5>1, <5>2 DEF Max
      <4>2. i + 1 \notin S \ {i + 1} /\ S \ {i + 1} \in SUBSET (1 .. i + 1)
            /\ S \ {i + 1} \in SUBSET (1 .. i)
        OBVIOUS
      <4>3. G[S \ {i + 1}] = F[S \ {i + 1}] /\ F[S \ {i + 1}] \in X
        BY <2>1, <4>2 DEF Solves
      <4>4. G[S] = step[<<F[S \ {i + 1}], i + 1>>]
        BY <3>1
      <4>5. <<F[S \ {i + 1}], i + 1>> \in X \X (1 .. n)
        BY <4>3
      <4> HIDE DEF G
      <4> QED  BY <4>1, <4>3, <4>4, <4>5
    <3>2. CASE i + 1 \notin S
      <4>1. S \in SUBSET (1 .. i)
        BY <3>2
      <4>2. F[S] = (IF S = {} THEN m ELSE step[<<F[S \ {Max(S)}], Max(S)>>]) /\ F[S] \in X
        BY <2>1, <4>1 DEF Solves
      <4>3. G[S] = F[S]
        BY <3>2
      <4>4. i + 1 \notin S \ {Max(S)} /\ S \ {Max(S)} \in SUBSET (1 .. i + 1)
        BY <3>2
      <4>5. G[S \ {Max(S)}] = F[S \ {Max(S)}]
        BY <4>4
      <4> HIDE DEF G
      <4> QED  BY <4>2, <4>3, <4>5
    <3> QED  BY <3>1, <3>2
  <2>3. G \in [SUBSET (1 .. i + 1) -> X]
    <3>1. G = [S \in SUBSET (1 .. i + 1) |-> G[S]]
      OBVIOUS
    <3> HIDE DEF G
    <3> QED  BY <2>2, <3>1
  <2> HIDE DEF G
  <2>4. Solves(G, X, m, step, i + 1)
    BY <2>2, <2>3 DEF Solves
  <2> QED  BY <2>4
<1> HIDE DEF K
<1>3. n \in K
  BY <1>1, <1>2, Upward
<1> QED  BY <1>3 DEF K

\* tr[k] is what the first k sessions make of m.
SessionTrail(tr, m, n, oom, c) ==
    tr[0] = m /\ \A k \in 1 .. c : tr[k] = StartSession(tr[k - 1], k, n, oom)
StartAll(m, n, oom) == FoldLeft(LAMBDA m0, x : StartSession(m0, x, n, oom), m, Numbered)

TidyMemory == {m \in Memory : Tidy(m)}

LEMMA StartTyped ==
    ASSUME NEW m \in TidyMemory, NEW x \in Session, NEW n \in [Session -> Nat], NEW oom
    PROVE  /\ StartSession(m, x, n, oom) \in TidyMemory
           /\ ~m.ok => StartSession(m, x, n, oom) = m
           /\ m.ok => LET y == StartSession(m, x, n, oom)
                      IN  /\ About(m, y, x)
                          /\ y.ok => SetUp(y, x, n[x])
                          /\ ~y.ok => \E f \in Needed : <<x, f>> \in oom
<1> DEFINE y == StartSession(m, x, n, oom)
           m1 == InitSession(m, x, n[x], oom)
<1>1. y = IF ~m.ok THEN m ELSE IF m1.ok THEN InitTabStops(m1, x) ELSE m1
  BY DEF StartSession
<1>2. CASE ~m.ok
  BY <1>1, <1>2
<1>3. CASE m.ok
  <2>1. /\ About(m, m1, x) /\ (m1.ok => SetUp(m1, x, n[x]))
        /\ (~m1.ok => \E f \in Needed : <<x, f>> \in oom)
    <3>1. m \in Memory /\ Tidy(m) /\ n[x] \in Nat
      BY DEF TidyMemory
    <3> QED  BY ONLY <1>3, <3>1, x \in Session, InitSessionFacts
  <2> HIDE DEF m1
  <2>2. CASE ~m1.ok
    BY <1>1, <1>3, <2>1, <2>2 DEF About, TidyMemory
  <2>3. CASE m1.ok
    <3> DEFINE t == <<x, "tabs">>
    <3>1. t \in Block /\ t \in OfOne(x) /\ t \notin News /\ \A f \in Needed : <<x, f>> # t
      <4>1. "tabs" \in OfSession
        BY DEF OfSession
      <4>2. \A g \in Buffers : Anew[g] # "tabs"
        <5>1. Anew["screen"] # "tabs"
          BY DEF Buffers, Anew
        <5>2. Anew["alt"] # "tabs"
          BY DEF Buffers, Anew
        <5>3. Anew["row_dirty"] # "tabs"
          BY DEF Buffers, Anew
        <5> QED  BY <5>1, <5>2, <5>3 DEF Buffers
      <4>3. "tabs" \notin Needed
        BY DEF Needed, Buffers
      <4> QED  BY <4>1, <4>2, <4>3, SessionBlocks DEF News
    <3>2. m1 \in Memory
      BY <2>1 DEF About
    <3>3. y = Renew(m1, t, {})
      BY <1>1, <1>3, <2>3 DEF InitTabStops
    <3> HIDE DEF y, t
    <3>4. /\ y \in Memory /\ y.own = Given(m1.own, t, {}) /\ y.lost = m1.lost /\ y.ok = m1.ok
          /\ y.cells = m1.cells /\ (Tidy(m1) => Tidy(y))
      BY ONLY <3>1, <3>2, <3>3, RenewFacts
    <3>5. y.own = m1.own \cup {t}
      BY <3>4 DEF Given
    <3>6. About(m, y, x)
      BY <2>1, <3>1, <3>4, <3>5 DEF About
    <3>7. SetUp(y, x, n[x])
      BY <2>1, <2>3, <3>4, <3>5 DEF SetUp
    <3> QED  BY <1>3, <2>3, <3>4, <3>6, <3>7 DEF About, TidyMemory, y
  <2> QED  BY <2>2, <2>3
<1> QED  BY <1>2, <1>3

LEMMA SessionsTrail ==
    ASSUME NEW m \in TidyMemory, NEW n \in [Session -> Nat], NEW oom, NEW c \in Nat, Session = 1 .. c
    PROVE  \E tr : /\ SessionTrail(tr, m, n, oom, c)
                   /\ StartAll(m, n, oom) = tr[c]
<1> DEFINE step == [p \in TidyMemory \X (1 .. c) |-> StartSession(p[1], p[2], n, oom)]
           Is(F) == F = [S \in SUBSET (1 .. c) |->
                           IF S = {} THEN m ELSE LET k == CHOOSE x \in S : \A z \in S : x >= z
                                                 IN  StartSession(F[S \ {k}], Numbered[k], n, oom)]
           G == CHOOSE F : Is(F)
           tr == [k \in 0 .. c |-> G[1 .. k]]
<1>1. Numbered = [x \in 1 .. c |-> x] /\ DOMAIN Numbered = 1 .. c
  <2>1. Cardinality(1 .. c) = c
    BY FS_Interval
  <2> QED  BY <2>1 DEF Numbered
<1>2. StartAll(m, n, oom) = G[1 .. c]
  BY <1>1 DEF StartAll, FoldLeft, MapThenFoldSet, Max
<1>3. step \in [TidyMemory \X (1 .. c) -> TidyMemory]
  BY StartTyped
<1>4. PICK F : Solves(F, TidyMemory, m, step, c)
  <2> HIDE DEF step
  <2> QED  BY <1>3, Recursion
<1>5. Is(F)
  <2>1. ASSUME NEW S \in SUBSET (1 .. c), S # {}
        PROVE  F[S] = StartSession(F[S \ {Max(S)}], Max(S), n, oom)
    <3>1. Max(S) \in S
      <4>1. PICK k \in S : \A z \in S : k >= z
        BY <2>1, LargestIn
      <4> QED  BY <4>1 DEF Max
    <3>2. F[S \ {Max(S)}] \in TidyMemory
      BY <1>4 DEF Solves
    <3>3. F[S] = step[<<F[S \ {Max(S)}], Max(S)>>]
      BY <1>4, <2>1 DEF Solves
    <3> QED  BY <3>1, <3>2, <3>3
  <2>2. /\ F = [S \in SUBSET (1 .. c) |-> F[S]]
        /\ \A S \in SUBSET (1 .. c) : S = {} => F[S] = m
    BY <1>4 DEF Solves
  <2>3. \A S \in SUBSET (1 .. c) : S # {} => Numbered[Max(S)] = Max(S)
    BY <1>1, LargestIn DEF Max
  <2> HIDE DEF step
  <2> QED  BY <2>1, <2>2, <2>3 DEF Max
<1>6. Is(G)
  BY <1>5
<1> HIDE DEF G
<1>7. tr[0] = m
  <2>1. tr[0] = G[1 .. 0] /\ 1 .. 0 = {} /\ 1 .. 0 \in SUBSET (1 .. c)
    OBVIOUS
  <2> QED  BY <1>6, <2>1
<1>8. ASSUME NEW k \in 1 .. c PROVE tr[k] = StartSession(tr[k - 1], k, n, oom)
  <2>1. /\ 1 .. k \in SUBSET (1 .. c) /\ 1 .. k # {} /\ Max(1 .. k) = k
        /\ (1 .. k) \ {k} = 1 .. k - 1
    BY LastNumber
  <2>2. G[1 .. k] = StartSession(G[1 .. k - 1], Numbered[k], n, oom)
    BY <1>6, <2>1 DEF Max
  <2> QED  BY <1>1, <2>2
<1>9. tr[c] = G[1 .. c]
  OBVIOUS
<1> HIDE DEF tr
<1>10. SessionTrail(tr, m, n, oom, c)
  BY <1>7, <1>8 DEF SessionTrail
<1> QED  BY <1>2, <1>9, <1>10

\* The sessions whose initialization the allocations oom make fail.
Failed(oom) == {y \in Session : \E f \in Needed : <<y, f>> \in oom}

\* What KTerm_Init has made of m after k sessions.
Started(m, y, n, oom, k) ==
    /\ y \in TidyMemory
    /\ \A x \in Session :
          (y.ok /\ x <= k) \/ (x \notin Failed(oom) /\ SetUp(m, x, n[x])) => SetUp(y, x, n[x])
    /\ y.own \cap News \subseteq m.own
    /\ y.lost \subseteq m.lost \cup (Session \X {"input", "sequences"})
    /\ m.own = {} => y.lost \subseteq m.lost /\ y.own \subseteq (1 .. k) \X OfSession

LEMMA StartOne ==
    ASSUME NEW m \in TidyMemory, NEW n \in [Session -> Nat], NEW oom, NEW c \in Nat, Session = 1 .. c,
           NEW k \in 1 .. c, NEW y, Started(m, y, n, oom, k - 1)
    PROVE  Started(m, StartSession(y, k, n, oom), n, oom, k)
<1> DEFINE z == StartSession(y, k, n, oom)
<1>1. y \in TidyMemory /\ k \in Session
  BY DEF Started
<1>2. /\ z \in TidyMemory /\ (~y.ok => z = y)
      /\ y.ok => /\ About(y, z, k) /\ (z.ok => SetUp(z, k, n[k]))
                 /\ ~z.ok => \E f \in Needed : <<k, f>> \in oom
  BY ONLY <1>1, n \in [Session -> Nat], StartTyped
<1> HIDE DEF z
<1>3. 1 .. k - 1 \subseteq 1 .. k
  OBVIOUS
<1>4. CASE ~y.ok
  <2>1. (1 .. k - 1) \X OfSession \subseteq (1 .. k) \X OfSession
    BY <1>3
  <2> QED  BY <1>2, <1>4, <2>1 DEF Started, z
<1>5. CASE y.ok
  <2>1. /\ About(y, z, k) /\ (z.ok => SetUp(z, k, n[k])) /\ (~z.ok => k \in Failed(oom))
    BY <1>1, <1>2, <1>5 DEF Failed
  <2>2. ASSUME NEW x \in Session, (z.ok /\ x <= k) \/ (x \notin Failed(oom) /\ SetUp(m, x, n[x]))
        PROVE  SetUp(z, x, n[x])
    <3>1. CASE x = k
      BY <2>1, <2>2, <3>1
    <3>2. CASE x # k
      <4>1. (y.ok /\ x <= k - 1) \/ (x \notin Failed(oom) /\ SetUp(m, x, n[x]))
        BY <1>5, <2>2, <3>2
      <4>2. SetUp(y, x, n[x])
        BY <4>1 DEF Started
      <4>3. \A f \in Needed : <<x, f>> \notin OfOne(k)
        BY <3>2 DEF OfOne
      <4>4. z.cells[x] = y.cells[x] /\ z.own \ OfOne(k) = y.own \ OfOne(k)
        BY <2>1, <3>2 DEF About
      <4> QED  BY <4>2, <4>3, <4>4 DEF SetUp
    <3> QED  BY <3>1, <3>2
  <2>3. z.own \cap News \subseteq m.own
    BY <2>1 DEF About, Started
  <2>4. z.lost \subseteq y.lost \cup (y.own \cap {<<k, "input">>, <<k, "sequences">>})
    BY <2>1 DEF About
  <2>5. z.lost \subseteq m.lost \cup (Session \X {"input", "sequences"})
    BY <1>1, <2>4 DEF Started
  <2>6. ASSUME m.own = {}
        PROVE  z.lost \subseteq m.lost /\ z.own \subseteq (1 .. k) \X OfSession
    <3>1. y.own \subseteq (1 .. k - 1) \X OfSession /\ y.lost \subseteq m.lost
      BY <2>6 DEF Started
    <3>2. <<k, "input">> \notin y.own /\ <<k, "sequences">> \notin y.own
      BY <3>1
    <3>3. z.own \subseteq y.own \cup OfOne(k)
      BY <2>1 DEF About
    <3>4. OfOne(k) \subseteq (1 .. k) \X OfSession
      BY DEF OfOne
    <3>5. (1 .. k - 1) \X OfSession \subseteq (1 .. k) \X OfSession
      BY <1>3
    <3> QED  BY <2>4, <3>1, <3>2, <3>3, <3>4, <3>5
  <2> QED  BY <1>2, <2>2, <2>3, <2>5, <2>6 DEF Started, z
<1> QED  BY <1>4, <1>5

LEMMA SessionsFacts ==
    ASSUME NEW m \in TidyMemory, NEW n \in [Session -> Nat], NEW oom, NEW c \in Nat, Session = 1 .. c
    PROVE  Started(m, StartAll(m, n, oom), n, oom, c)
<1>1. PICK tr : SessionTrail(tr, m, n, oom, c) /\ StartAll(m, n, oom) = tr[c]
  BY SessionsTrail
<1> DEFINE K == {k \in Nat : k <= c => Started(m, tr[k], n, oom, k)}
<1>2. 0 \in K
  <2>1. tr[0] = m /\ \A x \in Session : ~(x <= 0)
    BY <1>1 DEF SessionTrail
  <2> QED  BY <2>1 DEF Started
<1>3. ASSUME NEW k \in Nat, k \in K PROVE k + 1 \in K
  <2> SUFFICES ASSUME k + 1 <= c PROVE Started(m, tr[k + 1], n, oom, k + 1)
    OBVIOUS
  <2>1. k + 1 \in 1 .. c /\ (k + 1) - 1 = k /\ Started(m, tr[k], n, oom, k)
    BY <1>3
  <2>2. tr[k + 1] = StartSession(tr[k], k + 1, n, oom)
    BY <1>1, <2>1 DEF SessionTrail
  <2>3. Started(m, StartSession(tr[k], k + 1, n, oom), n, oom, k + 1)
    BY <2>1, StartOne
  <2> QED  BY <2>2, <2>3
<1> HIDE DEF K
<1>4. c \in K
  BY <1>2, <1>3, Upward
<1> QED  BY <1>1, <1>4 DEF K

-------------------------------------------------------------------------------
\* Each stage allocates a block of the terminal; those which do not look at what
\* they have, and those which do without.
Resets == {0} \X {"layout", "glyph_last_used", "atlas_to_codepoint", "render buffers"}
Spared == {<<0, "font_atlas">>, <<0, "extensions">>}
Computed == {<<0, "compute">>, <<0, "sixel pipeline">>}
OfTerminal == {0} \X OfTerm

LEMMA StageKinds ==
    ASSUME NEW k \in 1 .. 9
    PROVE  /\ Stages[k].block \in OfTerminal
           /\ Stages[k].how \notin {"once", "freed"} => Stages[k].block \in Resets
           /\ ~Stages[k].must => Stages[k].block \in Spared \cup Computed
<1>1. k = 1 \/ k = 2 \/ k = 3 \/ k = 4 \/ k = 5 \/ k = 6 \/ k = 7 \/ k = 8 \/ k = 9
  OBVIOUS
<1> DEFINE Fits(stage) ==
              /\ stage.block \in OfTerminal
              /\ stage.how \notin {"once", "freed"} => stage.block \in Resets
              /\ ~stage.must => stage.block \in Spared \cup Computed
<1>2. Fits(CreateLayout)
  BY DEF CreateLayout, Stage, OfTerminal, OfTerm, Resets
<1>3. Fits(GlyphMap)
  BY DEF GlyphMap, Stage, OfTerminal, OfTerm, Resets
<1>4. Fits(GlyphLastUsed)
  BY DEF GlyphLastUsed, Stage, OfTerminal, OfTerm, Resets
<1>5. Fits(AtlasToCodepoint)
  BY DEF AtlasToCodepoint, Stage, OfTerminal, OfTerm, Resets
<1>6. Fits(CreateFontTexture)
  BY DEF CreateFontTexture, Stage, OfTerminal, OfTerm, Spared
<1>7. Fits(InitCompositor)
  BY DEF InitCompositor, Stage, OfTerminal, OfTerm, Resets
<1>8. Fits(InitCompute)
  BY DEF InitCompute, Stage, OfTerminal, OfTerm, Computed
<1>9. Fits(InitSixelEngine)
  BY DEF InitSixelEngine, Stage, OfTerminal, OfTerm, Computed
<1>10. Fits(RegisterExtensions)
  BY DEF RegisterExtensions, Stage, OfTerminal, OfTerm, Spared
<1> HIDE DEF Fits
<1>11. Fits(Stages[k])
  BY <1>1, <1>2, <1>3, <1>4, <1>5, <1>6, <1>7, <1>8, <1>9, <1>10 DEF Stages
<1> QED  BY <1>11 DEF Fits

\* No two stages allocate the same block, and every block has its stage.
LEMMA StageBlocks ==
    /\ \A k \in 1 .. 9, j \in 1 .. 9 : Stages[k].block = Stages[j].block => k = j
    /\ \A b \in OfTerminal : \E k \in 1 .. 9 : Stages[k].block = b
<1> DEFINE At(s) == IF s = "render buffers" THEN 6 ELSE IF s = "sixel pipeline" THEN 8
                    ELSE IF s = "compute" THEN 7 ELSE IF s = "extensions" THEN 9
                    ELSE IF s = "layout" THEN 1 ELSE IF s = "glyph_map" THEN 2
                    ELSE IF s = "glyph_last_used" THEN 3 ELSE IF s = "atlas_to_codepoint" THEN 4
                    ELSE 5
<1>1. \A k \in 1 .. 9 : k = 1 \/ k = 2 \/ k = 3 \/ k = 4 \/ k = 5 \/ k = 6 \/ k = 7 \/ k = 8 \/ k = 9
  OBVIOUS
<1>2. /\ At("layout") = 1
      /\ At("glyph_map") = 2
      /\ At("glyph_last_used") = 3
      /\ At("atlas_to_codepoint") = 4
      /\ At("font_atlas") = 5
      /\ At("render buffers") = 6
      /\ At("compute") = 7
      /\ At("sixel pipeline") = 8
      /\ At("extensions") = 9
  OBVIOUS
<1> HIDE DEF At
<1>3. /\ Stages[1].block = <<0, "layout">>
      /\ Stages[2].block = <<0, "glyph_map">>
      /\ Stages[3].block = <<0, "glyph_last_used">>
      /\ Stages[4].block = <<0, "atlas_to_codepoint">>
      /\ Stages[5].block = <<0, "font_atlas">>
      /\ Stages[6].block = <<0, "render buffers">>
      /\ Stages[7].block = <<0, "compute">>
      /\ Stages[8].block = <<0, "sixel pipeline">>
      /\ Stages[9].block = <<0, "extensions">>
  <2>1. /\ Stages[1] = CreateLayout /\ Stages[2] = GlyphMap /\ Stages[3] = GlyphLastUsed
        /\ Stages[4] = AtlasToCodepoint /\ Stages[5] = CreateFontTexture
        /\ Stages[6] = InitCompositor /\ Stages[7] = InitCompute
        /\ Stages[8] = InitSixelEngine /\ Stages[9] = RegisterExtensions
    BY DEF Stages
  <2>2. /\ CreateLayout.block = <<0, "layout">>
        /\ GlyphMap.block = <<0, "glyph_map">>
        /\ GlyphLastUsed.block = <<0, "glyph_last_used">>
        /\ AtlasToCodepoint.block = <<0, "atlas_to_codepoint">>
        /\ CreateFontTexture.block = <<0, "font_atlas">>
        /\ InitCompositor.block = <<0, "render buffers">>
        /\ InitCompute.block = <<0, "compute">>
        /\ InitSixelEngine.block = <<0, "sixel pipeline">>
        /\ RegisterExtensions.block = <<0, "extensions">>
    BY DEF CreateLayout, GlyphMap, GlyphLastUsed, AtlasToCodepoint, CreateFontTexture,
           InitCompositor, InitCompute, InitSixelEngine, RegisterExtensions, Stage
  <2> QED  BY <2>1, <2>2
<1>4. ASSUME NEW k \in 1 .. 9 PROVE At(Stages[k].block[2]) = k
  <2>1. CASE k = 1
    <3>1. Stages[k].block = <<0, "layout">> /\ <<0, "layout">>[2] = "layout"
      BY <1>3, <2>1
    <3> QED  BY <1>2, <2>1, <3>1
  <2>2. CASE k = 2
    <3>1. Stages[k].block = <<0, "glyph_map">> /\ <<0, "glyph_map">>[2] = "glyph_map"
      BY <1>3, <2>2
    <3> QED  BY <1>2, <2>2, <3>1
  <2>3. CASE k = 3
    <3>1. Stages[k].block = <<0, "glyph_last_used">> /\ <<0, "glyph_last_used">>[2] = "glyph_last_used"
      BY <1>3, <2>3
    <3> QED  BY <1>2, <2>3, <3>1
  <2>4. CASE k = 4
    <3>1. Stages[k].block = <<0, "atlas_to_codepoint">> /\ <<0, "atlas_to_codepoint">>[2] = "atlas_to_codepoint"
      BY <1>3, <2>4
    <3> QED  BY <1>2, <2>4, <3>1
  <2>5. CASE k = 5
    <3>1. Stages[k].block = <<0, "font_atlas">> /\ <<0, "font_atlas">>[2] = "font_atlas"
      BY <1>3, <2>5
    <3> QED  BY <1>2, <2>5, <3>1
  <2>6. CASE k = 6
    <3>1. Stages[k].block = <<0, "render buffers">> /\ <<0, "render buffers">>[2] = "render buffers"
      BY <1>3, <2>6
    <3> QED  BY <1>2, <2>6, <3>1
  <2>7. CASE k = 7
    <3>1. Stages[k].block = <<0, "compute">> /\ <<0, "compute">>[2] = "compute"
      BY <1>3, <2>7
    <3> QED  BY <1>2, <2>7, <3>1
  <2>8. CASE k = 8
    <3>1. Stages[k].block = <<0, "sixel pipeline">> /\ <<0, "sixel pipeline">>[2] = "sixel pipeline"
      BY <1>3, <2>8
    <3> QED  BY <1>2, <2>8, <3>1
  <2>9. CASE k = 9
    <3>1. Stages[k].block = <<0, "extensions">> /\ <<0, "extensions">>[2] = "extensions"
      BY <1>3, <2>9
    <3> QED  BY <1>2, <2>9, <3>1
  <2> QED  BY <1>1, <2>1, <2>2, <2>3, <2>4, <2>5, <2>6, <2>7, <2>8, <2>9
<1>5. ASSUME NEW k \in 1 .. 9, NEW j \in 1 .. 9, Stages[k].block = Stages[j].block PROVE k = j
  BY <1>4, <1>5
<1>6. ASSUME NEW b \in OfTerminal PROVE \E k \in 1 .. 9 : Stages[k].block = b
  <2>1. PICK s \in OfTerm : b = <<0, s>>
    BY DEF OfTerminal
  <2>2. s = "layout" \/ s = "glyph_map" \/ s = "glyph_last_used" \/ s = "atlas_to_codepoint"
        \/ s = "font_atlas" \/ s = "render buffers" \/ s = "compute" \/ s = "sixel pipeline" \/ s = "extensions"
    BY DEF OfTerm
  <2>3. 1 \in 1 .. 9 /\ 2 \in 1 .. 9 /\ 3 \in 1 .. 9 /\ 4 \in 1 .. 9 /\ 5 \in 1 .. 9 /\ 6 \in 1 .. 9
        /\ 7 \in 1 .. 9 /\ 8 \in 1 .. 9 /\ 9 \in 1 .. 9
    OBVIOUS
  <2>4. CASE s = "layout"
    BY <1>3, <2>1, <2>3, <2>4
  <2>5. CASE s = "glyph_map"
    BY <1>3, <2>1, <2>3, <2>5
  <2>6. CASE s = "glyph_last_used"
    BY <1>3, <2>1, <2>3, <2>6
  <2>7. CASE s = "atlas_to_codepoint"
    BY <1>3, <2>1, <2>3, <2>7
  <2>8. CASE s = "font_atlas"
    BY <1>3, <2>1, <2>3, <2>8
  <2>9. CASE s = "render buffers"
    BY <1>3, <2>1, <2>3, <2>9
  <2>10. CASE s = "compute"
    BY <1>3, <2>1, <2>3, <2>10
  <2>11. CASE s = "sixel pipeline"
    BY <1>3, <2>1, <2>3, <2>11
  <2>12. CASE s = "extensions"
    BY <1>3, <2>1, <2>3, <2>12
  <2> QED  BY <2>2, <2>4, <2>5, <2>6, <2>7, <2>8, <2>9, <2>10, <2>11, <2>12
<1> QED  BY <1>5, <1>6

\* What a stage does to the memory.
LEMMA StartBlockFacts ==
    ASSUME NEW m \in TidyMemory, NEW k \in 1 .. 9, NEW oom, oom \cap Computed = {}
    PROVE  LET y == StartBlock(m, Stages[k], oom)
               b == Stages[k].block
           IN  /\ y \in TidyMemory /\ (~m.ok => y = m)
               /\ y.own \ {b} = m.own \ {b} /\ y.cells = m.cells
               /\ y.lost \subseteq m.lost \cup ({b} \cap m.own \cap Resets)
               /\ y.ok => m.ok /\ b \in y.own \cup Spared
<1> DEFINE stage == Stages[k]
           b == stage.block
           z == IF stage.how = "once" /\ b \in m.own THEN m
                ELSE IF stage.how = "freed" THEN Renew(m, b, oom)
                ELSE Alloc(m, b, oom)
           y == StartBlock(m, stage, oom)
<1>1. /\ b \in OfTerminal /\ (stage.how \notin {"once", "freed"} => b \in Resets)
      /\ ~stage.must => b \in Spared \cup Computed
  BY StageKinds
<1>2. y = IF ~m.ok THEN m ELSE IF stage.must /\ b \in oom THEN FailInit(z) ELSE z
  BY DEF StartBlock, Owns
<1> HIDE DEF y, b, stage
<1>3. m \in Memory /\ Tidy(m) /\ b \in Block
  BY <1>1 DEF TidyMemory, OfTerminal, Block
<1>4. /\ z \in Memory /\ Tidy(z) /\ z.own \ {b} = m.own \ {b} /\ z.cells = m.cells /\ z.ok = m.ok
      /\ z.lost \subseteq m.lost \cup ({b} \cap m.own \cap Resets) /\ (b \notin oom => b \in z.own)
  <2>1. CASE stage.how = "once" /\ b \in m.own
    BY <1>3, <2>1
  <2>2. CASE stage.how = "freed"
    <3> DEFINE r == Renew(m, b, oom)
    <3>1. /\ r \in Memory /\ r.own = Given(m.own, b, oom) /\ r.lost = m.lost /\ r.ok = m.ok
          /\ r.cells = m.cells /\ (Tidy(m) => Tidy(r))
      BY ONLY <1>3, RenewFacts
    <3>2. z = r
      BY <2>2
    <3> HIDE DEF r, z
    <3> QED  BY <1>3, <3>1, <3>2 DEF Given
  <2>3. CASE stage.how # "freed" /\ ~(stage.how = "once" /\ b \in m.own)
    <3> DEFINE r == Alloc(m, b, oom)
    <3>1. /\ r \in Memory /\ r.own = Given(m.own, b, oom)
          /\ r.gone = m.gone \ {b} /\ r.lost = m.lost \cup ({b} \cap m.own)
          /\ r.ok = m.ok /\ r.cells = m.cells /\ r.twice = m.twice
      BY ONLY <1>3, AllocFacts
    <3>2. z = r
      BY <2>3
    <3> HIDE DEF r, z
    <3>3. Tidy(z)
      BY <1>3, <3>1, <3>2 DEF Tidy
    <3>4. z.lost \subseteq m.lost \cup ({b} \cap m.own \cap Resets)
      BY <1>1, <2>3, <3>1, <3>2
    <3> QED  BY <3>1, <3>2, <3>3, <3>4 DEF Given
  <2> QED  BY <2>1, <2>2, <2>3
<1> HIDE DEF z
<1>5. y \in TidyMemory /\ y.own \ {b} = m.own \ {b} /\ y.cells = m.cells
      /\ y.lost \subseteq m.lost \cup ({b} \cap m.own \cap Resets)
  <2>1. /\ FailInit(z) \in TidyMemory /\ FailInit(z).own = z.own /\ FailInit(z).lost = z.lost
        /\ FailInit(z).cells = z.cells
    BY <1>4, FailFacts DEF TidyMemory, Tidy
  <2>2. z \in TidyMemory /\ m \in TidyMemory
    BY <1>4 DEF TidyMemory
  <2> QED  BY <1>2, <1>4, <2>1, <2>2
<1>6. ASSUME y.ok PROVE m.ok /\ b \in y.own \cup Spared
  <2>1. ~FailInit(z).ok
    BY <1>4, FailFacts
  <2>2. m.ok /\ y = z /\ ~(stage.must /\ b \in oom)
    BY <1>2, <1>6, <2>1
  <2>3. b \in oom => b \in Spared
    BY <1>1, <2>2
  <2> QED  BY <1>4, <2>2, <2>3
<1>7. ~m.ok => y = m
  BY <1>2
<1> QED  BY <1>5, <1>6, <1>7 DEF y, b, stage

\* What k stages make of m.
Staged(m, y, k) ==
    /\ y \in TidyMemory /\ y.cells = m.cells /\ y.own \ OfTerminal = m.own \ OfTerminal
    /\ y.ok => m.ok /\ \A j \in 1 .. k : Stages[j].block \in y.own \cup Spared
    /\ y.lost \subseteq m.lost \cup Resets
    /\ m.own \cap OfTerminal = {} =>
          y.lost \subseteq m.lost /\ y.own \cap OfTerminal \subseteq {Stages[j].block : j \in 1 .. k}

LEMMA StageOne ==
    ASSUME NEW m, NEW oom, oom \cap Computed = {}, NEW k \in 1 .. 9, NEW y, Staged(m, y, k - 1)
    PROVE  Staged(m, StartBlock(y, Stages[k], oom), k)
<1> DEFINE z == StartBlock(y, Stages[k], oom)
           b == Stages[k].block
<1>1. y \in TidyMemory
  BY DEF Staged
<1>2. /\ z \in TidyMemory
      /\ z.own \ {b} = y.own \ {b} /\ z.cells = y.cells
      /\ z.lost \subseteq y.lost \cup ({b} \cap y.own \cap Resets)
      /\ z.ok => y.ok /\ b \in z.own \cup Spared
  BY <1>1, StartBlockFacts
<1>3. b \in OfTerminal
  BY StageKinds
<1>4. \A j \in 1 .. k : j = k \/ j \in 1 .. k - 1
  OBVIOUS
<1>5. \A j \in 1 .. k - 1 : Stages[j].block # b
  <2>1. \A j \in 1 .. k - 1 : j \in 1 .. 9 /\ j # k
    OBVIOUS
  <2> QED  BY <2>1, StageBlocks
<1> HIDE DEF z
<1>6. z.own \ OfTerminal = m.own \ OfTerminal
  <2>1. z.own \ OfTerminal = y.own \ OfTerminal
    BY <1>2, <1>3
  <2> QED  BY <2>1 DEF Staged
<1>7. ASSUME z.ok PROVE m.ok /\ \A j \in 1 .. k : Stages[j].block \in z.own \cup Spared
  <2>1. m.ok /\ \A j \in 1 .. k - 1 : Stages[j].block \in y.own \cup Spared
    BY <1>2, <1>7 DEF Staged
  <2>2. \A j \in 1 .. k - 1 : Stages[j].block \in z.own \cup Spared
    BY <1>2, <1>5, <2>1
  <2> QED  BY <1>2, <1>4, <1>7, <2>1, <2>2
<1>8. z.lost \subseteq m.lost \cup Resets
  BY <1>2 DEF Staged
<1>9. ASSUME m.own \cap OfTerminal = {}
      PROVE  z.lost \subseteq m.lost /\ z.own \cap OfTerminal \subseteq {Stages[j].block : j \in 1 .. k}
  <2>1. y.lost \subseteq m.lost /\ y.own \cap OfTerminal \subseteq {Stages[j].block : j \in 1 .. k - 1}
    BY <1>9 DEF Staged
  <2>2. b \notin y.own
    BY <1>3, <1>5, <2>1
  <2>3. {Stages[j].block : j \in 1 .. k - 1} \cup {b} \subseteq {Stages[j].block : j \in 1 .. k}
    <3>1. 1 .. k - 1 \subseteq 1 .. k /\ k \in 1 .. k
      OBVIOUS
    <3> QED  BY <3>1
  <2>4. z.own \subseteq y.own \cup {b}
    BY <1>2
  <2> QED  BY <1>2, <2>1, <2>2, <2>3, <2>4
<1>10. z.cells = m.cells
  BY <1>2 DEF Staged
<1> QED  BY <1>2, <1>6, <1>7, <1>8, <1>9, <1>10 DEF Staged, z

AllStages(m, oom) == FoldLeft(LAMBDA m0, stage : StartBlock(m0, stage, oom), m, Stages)

\* tr[k] is what the first k stages make of m.
StageTrail(tr, m, oom) == tr[0] = m /\ \A k \in 1 .. 9 : tr[k] = StartBlock(tr[k - 1], Stages[k], oom)

LEMMA StagesTrail ==
    ASSUME NEW m \in TidyMemory, NEW oom, oom \cap Computed = {}
    PROVE  \E tr : StageTrail(tr, m, oom) /\ AllStages(m, oom) = tr[9]
<1> DEFINE step == [p \in TidyMemory \X (1 .. 9) |-> StartBlock(p[1], Stages[p[2]], oom)]
           Is(F) == F = [S \in SUBSET (1 .. 9) |->
                           IF S = {} THEN m ELSE LET k == CHOOSE x \in S : \A z \in S : x >= z
                                                 IN  StartBlock(F[S \ {k}], Stages[k], oom)]
           G == CHOOSE F : Is(F)
           tr == [k \in 0 .. 9 |-> G[1 .. k]]
<1>1. DOMAIN Stages = 1 .. 9
  BY DEF Stages
<1>2. AllStages(m, oom) = G[1 .. 9]
  BY <1>1 DEF AllStages, FoldLeft, MapThenFoldSet, Max
<1>3. step \in [TidyMemory \X (1 .. 9) -> TidyMemory]
  BY StartBlockFacts
<1>4. PICK F : Solves(F, TidyMemory, m, step, 9)
  <2> HIDE DEF step
  <2> QED  BY <1>3, Recursion
<1>5. Is(F)
  <2>1. ASSUME NEW S \in SUBSET (1 .. 9), S # {}
        PROVE  F[S] = StartBlock(F[S \ {Max(S)}], Stages[Max(S)], oom)
    <3>1. Max(S) \in S
      <4>1. PICK k \in S : \A z \in S : k >= z
        BY <2>1, LargestIn
      <4> QED  BY <4>1 DEF Max
    <3>2. F[S \ {Max(S)}] \in TidyMemory
      BY <1>4 DEF Solves
    <3>3. F[S] = step[<<F[S \ {Max(S)}], Max(S)>>]
      BY <1>4, <2>1 DEF Solves
    <3> QED  BY <3>1, <3>2, <3>3
  <2>2. /\ F = [S \in SUBSET (1 .. 9) |-> F[S]]
        /\ \A S \in SUBSET (1 .. 9) : S = {} => F[S] = m
    BY <1>4 DEF Solves
  <2> HIDE DEF step
  <2> QED  BY <2>1, <2>2 DEF Max
<1>6. Is(G)
  BY <1>5
<1> HIDE DEF G
<1>7. tr[0] = m
  <2>1. tr[0] = G[1 .. 0] /\ 1 .. 0 = {} /\ 1 .. 0 \in SUBSET (1 .. 9)
    OBVIOUS
  <2> QED  BY <1>6, <2>1
<1>8. ASSUME NEW k \in 1 .. 9 PROVE tr[k] = StartBlock(tr[k - 1], Stages[k], oom)
  <2>1. /\ 1 .. k \in SUBSET (1 .. 9) /\ 1 .. k # {} /\ Max(1 .. k) = k
        /\ (1 .. k) \ {k} = 1 .. k - 1
    BY LastNumber
  <2>2. G[1 .. k] = StartBlock(G[1 .. k - 1], Stages[k], oom)
    BY <1>6, <2>1 DEF Max
  <2> QED  BY <2>2
<1>9. tr[9] = G[1 .. 9]
  OBVIOUS
<1> HIDE DEF tr
<1>10. StageTrail(tr, m, oom)
  BY <1>7, <1>8 DEF StageTrail
<1> QED  BY <1>2, <1>9, <1>10

LEMMA StagesFacts ==
    ASSUME NEW m \in TidyMemory, NEW oom, oom \cap Computed = {}
    PROVE  Staged(m, AllStages(m, oom), 9)
<1>1. PICK tr : StageTrail(tr, m, oom) /\ AllStages(m, oom) = tr[9]
  BY StagesTrail
<1> DEFINE K == {k \in Nat : k <= 9 => Staged(m, tr[k], k)}
<1>2. 0 \in K
  <2>1. tr[0] = m
    BY <1>1 DEF StageTrail
  <2> QED  BY <2>1 DEF Staged
<1>3. ASSUME NEW k \in Nat, k \in K PROVE k + 1 \in K
  <2> SUFFICES ASSUME k + 1 <= 9 PROVE Staged(m, tr[k + 1], k + 1)
    OBVIOUS
  <2>1. k + 1 \in 1 .. 9 /\ (k + 1) - 1 = k /\ Staged(m, tr[k], k)
    BY <1>3
  <2>2. tr[k + 1] = StartBlock(tr[k], Stages[k + 1], oom)
    BY <1>1, <2>1 DEF StageTrail
  <2>3. Staged(m, StartBlock(tr[k], Stages[k + 1], oom), k + 1)
    BY <2>1, StageOne
  <2> QED  BY <2>2, <2>3
<1> HIDE DEF K
<1>4. 9 \in K
  BY <1>2, <1>3, Upward
<1> QED  BY <1>1, <1>4 DEF K

\* What KTerm_Init does: when it says that all went well, all is set up; what was
\* set up and does not fail stays so in any case; and what is lost is known.
InitTermMakes(m, y, n, oom) ==
    /\ y \in TidyMemory
    /\ \A x \in Session : y.ok \/ (x \notin Failed(oom) /\ SetUp(m, x, n[x])) => SetUp(y, x, n[x])
    /\ y.ok => OfTerminal \subseteq y.own \cup Spared
    /\ y.own \cap News \subseteq m.own
    /\ y.lost \subseteq m.lost \cup (Session \X {"input", "sequences"}) \cup Resets
    /\ m.own = {} => y.lost \subseteq m.lost

LEMMA InitTermFacts ==
    ASSUME Sessions, NEW m \in TidyMemory, NEW n \in [Session -> Nat], NEW oom, oom \cap Computed = {}
    PROVE  InitTermMakes(m, InitTerm(m, n, oom), n, oom)
<1> DEFINE s == StartAll(m, n, oom)
           y == AllStages(s, oom)
<1>1. PICK c \in Nat \ {0} : Session = 1 .. c
  BY DEF Sessions
<1>2. Started(m, s, n, oom, c)
  BY <1>1, SessionsFacts
<1>3. InitTerm(m, n, oom) = y
  BY DEF InitTerm, StartAll, AllStages
<1> HIDE DEF s
<1>4. s \in TidyMemory /\ \A x \in Session : x <= c
  BY <1>1, <1>2 DEF Started
<1>5. Staged(s, y, 9)
  BY <1>4, StagesFacts
<1> HIDE DEF y
<1>6. \A x \in Session : \A f : <<x, f>> \notin OfTerminal
  BY <1>1 DEF OfTerminal
<1>7. y.ok => s.ok
  BY <1>5 DEF Staged
<1>8. ASSUME NEW x \in Session, SetUp(s, x, n[x]) PROVE SetUp(y, x, n[x])
  BY <1>5, <1>6, <1>8 DEF SetUp, Staged
<1>9. \A x \in Session : y.ok \/ (x \notin Failed(oom) /\ SetUp(m, x, n[x])) => SetUp(y, x, n[x])
  BY <1>2, <1>4, <1>7, <1>8 DEF Started
<1>10. y.ok => OfTerminal \subseteq y.own \cup Spared
  <2> SUFFICES ASSUME y.ok, NEW b \in OfTerminal PROVE b \in y.own \cup Spared
    OBVIOUS
  <2>1. PICK k \in 1 .. 9 : Stages[k].block = b
    BY StageBlocks
  <2> QED  BY <1>5, <2>1 DEF Staged
<1>11. News \cap OfTerminal = {}
  BY <1>6 DEF News
<1>12. y.own \cap News \subseteq m.own
  BY <1>2, <1>5, <1>11 DEF Started, Staged
<1>13. y.lost \subseteq m.lost \cup (Session \X {"input", "sequences"}) \cup Resets
  BY <1>2, <1>5 DEF Started, Staged
<1>14. ASSUME m.own = {} PROVE y.lost \subseteq m.lost
  <2>1. s.lost \subseteq m.lost /\ s.own \subseteq (1 .. c) \X OfSession
    BY <1>2, <1>14 DEF Started
  <2>2. s.own \cap OfTerminal = {}
    BY <1>1, <1>6, <2>1
  <2> QED  BY <1>5, <2>1, <2>2 DEF Staged
<1>15. y \in TidyMemory
  BY <1>5 DEF Staged
<1> QED  BY <1>3, <1>9, <1>10, <1>12, <1>13, <1>14, <1>15 DEF InitTermMakes

\* What KTerm_Cleanup does: nothing is owned, and it loses the strips of sixel images
\* and their pipeline.
LEMMA CleanupFacts ==
    ASSUME NEW m \in TidyMemory
    PROVE  LET y == Cleanup(m)
           IN  /\ y \in TidyMemory /\ y.own = {} /\ y.ok = m.ok
               /\ y.lost \subseteq m.lost \cup (Session \X {"strips"}) \cup {<<0, "sixel pipeline">>}
<1> DEFINE B == {0} \X (OfTerm \ {"sixel pipeline"})
           C == Session \X (OfSession \ {"strips"})
           t == ReleaseBlocks(m, B)
           s == ReleaseBlocks(t, C)
           y == ForgetBlocks(s, Block)
<1>1. B \in SUBSET Block /\ C \in SUBSET Block /\ Block \in SUBSET Block
  BY DEF Block
<1>2. m \in Memory /\ Tidy(m)
  BY DEF TidyMemory
<1> HIDE DEF B, C
<1>3. t \in Memory /\ t.own = m.own \ B /\ t.lost = m.lost /\ t.ok = m.ok /\ Tidy(t)
  BY ONLY <1>1, <1>2, ReleaseFacts
<1> HIDE DEF t
<1>4. s \in Memory /\ s.own = t.own \ C /\ s.lost = t.lost /\ s.ok = t.ok /\ Tidy(s)
  BY ONLY <1>1, <1>3, ReleaseFacts
<1> HIDE DEF s
<1>5. /\ y \in Memory /\ y.own = s.own \ Block /\ y.gone = s.gone \ Block
      /\ y.lost = s.lost \cup (Block \cap s.own) /\ y.ok = s.ok /\ y.twice = s.twice
  BY ONLY <1>1, <1>4, ForgetFacts
<1>6. y = Cleanup(m)
  BY DEF Cleanup, CleanupSession, s, t, B, C
<1> HIDE DEF y
<1>7. Tidy(y)
  BY <1>4, <1>5 DEF Tidy
<1>8. y.own = {}
  BY <1>4, <1>5 DEF Memory
<1>9. s.own \subseteq (Session \X {"strips"}) \cup {<<0, "sixel pipeline">>}
  <2>1. s.own \subseteq Block \ (B \cup C)
    BY <1>2, <1>3, <1>4 DEF Memory
  <2>2. Block \ (B \cup C) \subseteq (Session \X {"strips"}) \cup {<<0, "sixel pipeline">>}
    <3> SUFFICES ASSUME NEW b \in Block \ (B \cup C)
                 PROVE  b \in (Session \X {"strips"}) \cup {<<0, "sixel pipeline">>}
      OBVIOUS
    <3>1. CASE b \in Session \X OfSession
      <4>1. PICK x \in Session, f \in OfSession : b = <<x, f>>
        BY <3>1
      <4> QED  BY <4>1 DEF C
    <3>2. CASE b \in {0} \X OfTerm
      <4>1. PICK f \in OfTerm : b = <<0, f>>
        BY <3>2
      <4> QED  BY <4>1 DEF B
    <3> QED  BY <3>1, <3>2 DEF Block
  <2> QED  BY <2>1, <2>2
<1> QED  BY <1>3, <1>4, <1>5, <1>6, <1>7, <1>8, <1>9 DEF TidyMemory

-------------------------------------------------------------------------------
(* The invariant *)

\* A session whose initialization did not fail is set up; a terminal that was not
\* torn by a RIS has all its blocks; the buffers of a resize last no longer than it.
LifeInvariant ==
    /\ mem \in TidyMemory /\ mem.ok /\ ready \in BOOLEAN
    /\ open \subseteq Session /\ size \in [Session -> Nat]
    /\ mem.own \cap News = {} /\ mem.lost \subseteq Abandoned
    /\ ~ready => mem.own = {}
    /\ ready => \A x \in Session \ torn : SetUp(mem, x, size[x])
    /\ ready /\ 0 \notin torn => OfTerminal \subseteq mem.own \cup Spared

LEMMA NoComputed ==
    ASSUME NEW oom \in Ooms
    PROVE  oom \cap Computed = {}
<1>1. ASSUME NEW b \in Session \X Needed PROVE b \notin Computed
  <2>1. PICK x \in Session, f \in Needed : b = <<x, f>>
    OBVIOUS
  <2>2. "compute" \notin Needed /\ "sixel pipeline" \notin Needed
    BY DEF Needed, Buffers
  <2> QED  BY <2>1, <2>2 DEF Computed
<1>2. ASSUME NEW b \in {0} \X (OfTerm \ {"compute", "sixel pipeline"}) PROVE b \notin Computed
  <2> DEFINE T == OfTerm \ {"compute", "sixel pipeline"}
  <2>1. b \in {0} \X T /\ "compute" \notin T /\ "sixel pipeline" \notin T
    OBVIOUS
  <2> HIDE DEF T
  <2>2. <<0, "compute">> \notin {0} \X T /\ <<0, "sixel pipeline">> \notin {0} \X T
    BY ONLY <2>1
  <2> QED  BY <2>1, <2>2 DEF Computed
<1> DEFINE B == (Session \X Needed) \cup ({0} \X (OfTerm \ {"compute", "sixel pipeline"}))
<1>3. \A b \in B : b \notin Computed
  BY <1>1, <1>2
<1>4. oom = {} \/ \E b \in B : oom = {b}
  BY DEF Ooms, FailOne
<1> HIDE DEF B
<1> QED  BY <1>3, <1>4

\* Nobody looks at what KTerm_Init and KTerm_InitSession return.
LEMMA Unheard ==
    ASSUME NEW m \in TidyMemory
    PROVE  LET y == [m EXCEPT !.ok = TRUE]
           IN  y \in TidyMemory /\ y.ok /\ y.own = m.own /\ y.lost = m.lost /\ y.cells = m.cells
BY DEF TidyMemory, Memory, Tidy

LEMMA InvariantCreate ==
    ASSUME Sessions, LifeInvariant, Create
    PROVE  LifeInvariant'
<1>1. PICK oom \in Ooms :
          LET m == InitTerm(mem, size, oom)
          IN  IF m.ok THEN mem' = m /\ ready' = TRUE /\ open' = {1}
              ELSE mem' = [Cleanup(m) EXCEPT !.ok = TRUE] /\ UNCHANGED <<ready, open>>
  BY DEF Create
<1> DEFINE m == InitTerm(mem, size, oom)
<1>2. /\ mem \in TidyMemory /\ size \in [Session -> Nat] /\ mem.own = {} /\ mem.lost = {} /\ ~ready
      /\ UNCHANGED <<size, reset, torn>> /\ open \subseteq Session
  BY DEF LifeInvariant, Create
<1>3. InitTermMakes(mem, m, size, oom)
  BY <1>2, NoComputed, InitTermFacts
<1>4. m \in TidyMemory /\ m.lost = {} /\ m.own \cap News = {}
  BY <1>2, <1>3 DEF InitTermMakes
<1>5. CASE m.ok
  <2>1. mem' = m /\ ready' = TRUE /\ open' = {1}
    BY <1>1, <1>5
  <2>2. 1 \in Session
    BY DEF Sessions
  <2> HIDE DEF m
  <2>3. \A x \in Session : SetUp(m, x, size[x])
    BY <1>3, <1>5 DEF InitTermMakes
  <2>4. OfTerminal \subseteq m.own \cup Spared
    BY <1>3, <1>5 DEF InitTermMakes
  <2> QED  BY <1>2, <1>4, <1>5, <2>1, <2>2, <2>3, <2>4 DEF LifeInvariant, SetUp
<1>6. CASE ~m.ok
  <2>1. mem' = [Cleanup(m) EXCEPT !.ok = TRUE] /\ UNCHANGED <<ready, open>>
    BY <1>1, <1>6
  <2> HIDE DEF m
  <2>2. /\ Cleanup(m) \in TidyMemory /\ Cleanup(m).own = {}
        /\ Cleanup(m).lost \subseteq (Session \X {"strips"}) \cup {<<0, "sixel pipeline">>}
    BY <1>4, CleanupFacts
  <2>3. /\ mem' \in TidyMemory /\ mem'.ok /\ mem'.own = {}
        /\ mem'.lost \subseteq (Session \X {"strips"}) \cup {<<0, "sixel pipeline">>}
    BY <2>1, <2>2, Unheard
  <2>4. mem'.lost \subseteq Abandoned'
    BY <1>2, <2>1, <2>3 DEF Abandoned
  <2> QED  BY <1>2, <2>1, <2>3, <2>4 DEF LifeInvariant
<1> QED  BY <1>5, <1>6

LEMMA InvariantDestroy ==
    ASSUME LifeInvariant, Destroy
    PROVE  LifeInvariant'
<1>1. /\ mem \in TidyMemory /\ mem.ok /\ ready /\ ready' = FALSE /\ open' = {}
      /\ mem' = Cleanup(mem) /\ UNCHANGED <<size, reset, torn>> /\ size \in [Session -> Nat]
  BY DEF LifeInvariant, Destroy
<1>2. /\ mem' \in TidyMemory /\ mem'.own = {} /\ mem'.ok
      /\ mem'.lost \subseteq mem.lost \cup (Session \X {"strips"}) \cup {<<0, "sixel pipeline">>}
  BY <1>1, CleanupFacts
<1>3. mem'.lost \subseteq Abandoned'
  BY <1>1, <1>2 DEF LifeInvariant, Abandoned
<1> QED  BY <1>1, <1>2, <1>3 DEF LifeInvariant

LEMMA InvariantRIS ==
    ASSUME Sessions, LifeInvariant, ready, NEW x \in Session, RIS(x)
    PROVE  LifeInvariant'
<1> DEFINE m0 == ResetGraphics(mem, x)
<1>1. PICK oom \in Ooms :
          /\ mem' = [InitTerm(m0, size, oom) EXCEPT !.ok = TRUE]
          /\ open' = {y \in Session : (y = 1 /\ 1 \notin Failed(oom))
                                  \/ (y \in open /\ \E z \in Failed(oom) : y >= z)}
          /\ torn' = torn \cup Failed(oom) \cup IF InitTerm(m0, size, oom).ok THEN {} ELSE {0}
  BY DEF RIS, Failed
<1> DEFINE m == InitTerm(m0, size, oom)
<1>2. /\ mem \in TidyMemory /\ size \in [Session -> Nat] /\ open' \subseteq Session
      /\ reset' = reset \cup Session \cup {0} /\ UNCHANGED <<ready, size>>
      /\ mem.own \cap News = {}
  BY <1>1 DEF LifeInvariant, RIS
<1>3. /\ m0 \in TidyMemory /\ m0.own = mem.own \ ({x} \X Graphics) /\ m0.lost = mem.lost
      /\ m0.cells = mem.cells
  <2>1. Graphics \subseteq OfSession
    BY DEF OfSession
  <2>2. {x} \X Graphics \in SUBSET Block
    BY <2>1 DEF Block
  <2> QED  BY <1>2, <2>2, ReleaseFacts DEF ResetGraphics, TidyMemory
<1> HIDE DEF m0
<1>4. InitTermMakes(m0, m, size, oom)
  BY <1>2, <1>3, NoComputed, InitTermFacts
<1> HIDE DEF m
<1>5. m \in TidyMemory /\ mem' = [m EXCEPT !.ok = TRUE]
  BY <1>1, <1>4 DEF InitTermMakes, m
<1>6. mem' \in TidyMemory /\ mem'.ok /\ mem'.own = m.own /\ mem'.lost = m.lost /\ mem'.cells = m.cells
  BY <1>5, Unheard
<1>7. mem'.own \cap News = {}
  BY <1>2, <1>3, <1>4, <1>6 DEF InitTermMakes
<1>8. mem'.lost \subseteq Abandoned'
  <2>1. mem.lost \subseteq Abandoned /\ Abandoned \subseteq Abandoned'
    BY <1>2 DEF LifeInvariant, Abandoned
  <2>2. Session \X {"input", "sequences"} \subseteq Abandoned'
    <3>1. Session \subseteq reset' \ {0}
      BY <1>2 DEF Sessions
    <3> QED  BY <3>1 DEF Abandoned
  <2>3. Resets \subseteq Abandoned'
    BY <1>2 DEF Resets, Abandoned
  <2> QED  BY <1>3, <1>4, <1>6, <2>1, <2>2, <2>3 DEF InitTermMakes
<1>9. ASSUME NEW y \in Session \ torn' PROVE SetUp(mem', y, size'[y])
  <2>1. y \notin Failed(oom) /\ y \notin torn
    BY <1>1, <1>9
  <2>2. SetUp(mem, y, size[y])
    BY <2>1 DEF LifeInvariant
  <2>3. Needed \cap Graphics = {}
    BY DEF Needed, Buffers, Graphics
  <2>4. SetUp(m0, y, size[y])
    BY <1>3, <2>2, <2>3 DEF SetUp
  <2>5. SetUp(m, y, size[y])
    BY <1>4, <2>1, <2>4 DEF InitTermMakes
  <2> QED  BY <1>2, <1>6, <2>5 DEF SetUp
<1>10. 0 \notin torn' => OfTerminal \subseteq mem'.own \cup Spared
  <2>1. 0 \notin torn' => m.ok
    BY <1>1 DEF m
  <2> QED  BY <1>4, <1>6, <2>1 DEF InitTermMakes
<1> QED  BY <1>2, <1>6, <1>7, <1>8, <1>9, <1>10 DEF LifeInvariant

LEMMA InvariantSplitPane ==
    ASSUME Sessions, LifeInvariant, ready, SplitPane
    PROVE  LifeInvariant'
<1> DEFINE x == CHOOSE y \in Session \ open : \A z \in Session \ open : y <= z
<1>1. PICK oom \in FailOne({x} \X Needed) :
          /\ mem' = [InitSession(mem, x, size[x], oom) EXCEPT !.ok = TRUE]
          /\ IF InitSession(mem, x, size[x], oom).ok THEN open' = open \cup {x} /\ UNCHANGED torn
             ELSE torn' = torn \cup {x} /\ UNCHANGED open
          /\ reset' = reset \cup {x}
  BY DEF SplitPane
<1>2. x \in Session
  <2>1. PICK c \in Nat \ {0} : Session = 1 .. c
    BY DEF Sessions
  <2>2. Session \ open \in SUBSET (1 .. c) /\ Session \ open # {}
    BY <2>1 DEF SplitPane, LifeInvariant
  <2>3. \E y \in Session \ open : \A z \in Session \ open : y <= z
    BY <2>1, <2>2, SmallestIn
  <2> QED  BY <2>3
<1> HIDE DEF x
<1> DEFINE m == InitSession(mem, x, size[x], oom)
<1>3. /\ mem \in TidyMemory /\ mem \in Memory /\ Tidy(mem) /\ mem.ok
      /\ size \in [Session -> Nat] /\ size[x] \in Nat /\ UNCHANGED <<ready, size>>
  BY <1>2 DEF LifeInvariant, SplitPane, TidyMemory
<1>4. About(mem, m, x) /\ (m.ok => SetUp(m, x, size[x]))
  BY ONLY <1>2, <1>3, InitSessionFacts
<1> HIDE DEF m
<1>5. m \in TidyMemory /\ mem' = [m EXCEPT !.ok = TRUE]
  BY <1>1, <1>4 DEF About, TidyMemory, m
<1>6. mem' \in TidyMemory /\ mem'.ok /\ mem'.own = m.own /\ mem'.lost = m.lost /\ mem'.cells = m.cells
  BY <1>5, Unheard
<1>7. IF m.ok THEN open' = open \cup {x} /\ UNCHANGED torn ELSE torn' = torn \cup {x} /\ UNCHANGED open
  BY <1>1 DEF m
<1>8. open' \subseteq Session /\ torn \subseteq torn' /\ (0 \in torn' => 0 \in torn)
  <2>1. x # 0
    BY <1>2 DEF Sessions
  <2> QED  BY <1>2, <1>7, <2>1 DEF LifeInvariant
<1>9. mem'.own \cap News = {}
  BY <1>4, <1>6 DEF LifeInvariant, About
<1>10. mem'.lost \subseteq Abandoned'
  <2>1. mem.lost \subseteq Abandoned /\ Abandoned \subseteq Abandoned'
    BY <1>1, <1>3 DEF LifeInvariant, Abandoned
  <2>2. x \in reset' \ {0}
    BY <1>1, <1>2 DEF Sessions
  <2>3. {<<x, "input">>, <<x, "sequences">>} \subseteq Abandoned'
    <3>1. <<x, "input">> \in (reset' \ {0}) \X {"input", "sequences"}
      BY <2>2
    <3>2. <<x, "sequences">> \in (reset' \ {0}) \X {"input", "sequences"}
      BY <2>2
    <3>3. (reset' \ {0}) \X {"input", "sequences"} \subseteq Abandoned'
      BY DEF Abandoned
    <3> QED  BY <3>1, <3>2, <3>3
  <2> QED  BY <1>4, <1>6, <2>1, <2>3 DEF About
<1>11. ASSUME NEW y \in Session \ torn' PROVE SetUp(mem', y, size'[y])
  <2>1. CASE y = x
    <3>1. m.ok
      BY <1>7, <1>11, <2>1
    <3> QED  BY <1>3, <1>4, <1>6, <2>1, <3>1 DEF SetUp
  <2>2. CASE y # x
    <3>1. SetUp(mem, y, size[y])
      BY <1>8, <1>11 DEF LifeInvariant
    <3>2. \A f \in Needed : <<y, f>> \notin OfOne(x)
      BY <2>2 DEF OfOne
    <3>3. mem'.cells[y] = mem.cells[y] /\ mem'.own \ OfOne(x) = mem.own \ OfOne(x)
      BY <1>4, <1>6, <2>2 DEF About
    <3> QED  BY <1>3, <3>1, <3>2, <3>3 DEF SetUp
  <2> QED  BY <2>1, <2>2
<1>12. 0 \notin torn' => OfTerminal \subseteq mem'.own \cup Spared
  <2>1. OfTerminal \cap OfOne(x) = {}
    <3>1. x # 0
      BY <1>2 DEF Sessions
    <3> QED  BY <3>1 DEF OfTerminal, OfOne
  <2>2. mem'.own \ OfOne(x) = mem.own \ OfOne(x)
    BY <1>4, <1>6 DEF About
  <2> QED  BY <1>8, <2>1, <2>2 DEF LifeInvariant
<1> QED  BY <1>3, <1>6, <1>8, <1>9, <1>10, <1>11, <1>12 DEF LifeInvariant

LEMMA InvariantHostStores ==
    ASSUME Sessions, LifeInvariant, ready, NEW x \in Session, HostStores(x)
    PROVE  LifeInvariant'
<1>1. PICK F \in {{"sixel"}, {"strips"}, {"sixel", "strips"}, {"regis"}, {"kitty"}, {"keys"},
                  {"keys", "sequences"}, {"macros"}} :
          mem' = [mem EXCEPT !.own = @ \cup ({x} \X F)]
  BY DEF HostStores
<1>2. UNCHANGED <<ready, open, size, reset, torn>> /\ mem \in TidyMemory
  BY DEF HostStores, LifeInvariant
<1> DEFINE H == {"sixel", "strips", "regis", "kitty", "keys", "sequences", "macros"}
<1>3. F \subseteq H /\ H \subseteq OfSession
  BY DEF OfSession, Graphics
<1>4. {x} \X F \subseteq Block
  BY <1>3 DEF Block
<1>5. ({x} \X F) \cap News = {}
  <2>1. Anew["screen"] \notin H /\ Anew["alt"] \notin H /\ Anew["row_dirty"] \notin H
    BY DEF Anew, Buffers
  <2>2. \A f \in Buffers : Anew[f] \notin F
    BY <1>3, <2>1 DEF Buffers
  <2> QED  BY <2>2 DEF News
<1> HIDE DEF H
<1>6. /\ mem' \in TidyMemory /\ mem'.own = mem.own \cup ({x} \X F) /\ mem'.lost = mem.lost
      /\ mem'.cells = mem.cells /\ mem'.ok = mem.ok
  BY <1>1, <1>2, <1>4 DEF TidyMemory, Memory, Tidy
<1>7. mem'.lost \subseteq Abandoned'
  BY <1>2, <1>6 DEF LifeInvariant, Abandoned
<1>8. mem'.own \cap News = {}
  BY <1>5, <1>6 DEF LifeInvariant
<1>9. ASSUME NEW y \in Session \ torn' PROVE SetUp(mem', y, size'[y])
  BY <1>2, <1>6, <1>9 DEF LifeInvariant, SetUp
<1>10. 0 \notin torn' => OfTerminal \subseteq mem'.own \cup Spared
  BY <1>2, <1>6 DEF LifeInvariant
<1> QED  BY <1>2, <1>6, <1>7, <1>8, <1>9, <1>10 DEF LifeInvariant

\* A buffer that was allocated anew takes the place of the one it replaces.
LEMMA ReplaceFacts ==
    ASSUME NEW m \in TidyMemory, NEW x \in Session, NEW f \in Buffers, NEW n \in Nat
    PROVE  LET y == Replace(m, x, f, n)
           IN  /\ y \in TidyMemory /\ y.own = (m.own \cup {<<x, f>>}) \ {Grown(x, f)}
               /\ y.lost = m.lost /\ y.ok = m.ok /\ y.cells = [m.cells EXCEPT ![x][f] = n]
<1> DEFINE b == <<x, f>>
           g == Grown(x, f)
           z == Renew(m, b, {})
           r == [z EXCEPT !.own = @ \ {g}]
           y == [r EXCEPT !.cells[x][f] = n]
<1>1. m \in Memory /\ Tidy(m) /\ b \in Block
  BY SessionBlocks DEF OfSession, TidyMemory
<1>2. /\ z \in Memory /\ z.own = Given(m.own, b, {}) /\ z.lost = m.lost /\ z.ok = m.ok
      /\ z.cells = m.cells /\ (Tidy(m) => Tidy(z))
  BY ONLY <1>1, RenewFacts
<1>3. Replace(m, x, f, n) = y
  BY <1>2 DEF Replace, Memory
<1> HIDE DEF z
<1>4. /\ r \in Memory /\ r.own = z.own \ {g} /\ r.gone = z.gone /\ r.lost = z.lost
      /\ r.twice = z.twice /\ r.ok = z.ok /\ r.cells = z.cells
  BY <1>2 DEF Memory
<1> HIDE DEF r
<1>5. /\ y.own = r.own /\ y.gone = r.gone /\ y.lost = r.lost /\ y.twice = r.twice /\ y.ok = r.ok
      /\ y.cells = [r.cells EXCEPT ![x][f] = n]
  BY <1>4 DEF Memory
<1>6. y \in Memory
  BY <1>4 DEF Memory
<1> HIDE DEF y
<1>7. y \in TidyMemory
  BY <1>1, <1>2, <1>4, <1>5, <1>6 DEF TidyMemory, Tidy
<1>8. y.own = (m.own \cup {b}) \ {g}
  BY <1>2, <1>4, <1>5 DEF Given
<1> QED  BY <1>2, <1>3, <1>4, <1>5, <1>7, <1>8 DEF b, g

LEMMA GrownBlock ==
    ASSUME NEW x \in Session, NEW f \in Buffers
    PROVE  Grown(x, f) \in Block
<1>1. Anew["screen"] \in OfSession /\ Anew["alt"] \in OfSession /\ Anew["row_dirty"] \in OfSession
  BY DEF Anew, OfSession
<1>2. Anew[f] \in OfSession
  BY <1>1 DEF Buffers
<1> QED  BY <1>2, SessionBlocks DEF Grown

\* A buffer allocated anew, for a session that has none such.
LEMMA GrownFacts ==
    ASSUME NEW m \in TidyMemory, NEW x \in Session, NEW f \in Buffers, Grown(x, f) \notin m.own, NEW oom
    PROVE  LET y == Alloc(m, Grown(x, f), oom)
           IN  /\ y \in TidyMemory /\ y.own \ {Grown(x, f)} = m.own /\ y.lost = m.lost
               /\ y.ok = m.ok /\ y.cells = m.cells
<1> DEFINE b == Grown(x, f)
           y == Alloc(m, b, oom)
<1>1. m \in Memory /\ Tidy(m)
  BY DEF TidyMemory
<1>2. b \in Block
  BY GrownBlock
<1>3. b \notin m.own
  OBVIOUS
<1> HIDE DEF b
<1>4. /\ y \in Memory /\ y.own = Given(m.own, b, oom)
      /\ y.gone = m.gone \ {b} /\ y.lost = m.lost \cup ({b} \cap m.own)
      /\ y.ok = m.ok /\ y.cells = m.cells /\ y.twice = m.twice
  BY ONLY <1>1, <1>2, AllocFacts
<1> HIDE DEF y
<1>5. y.own \ {b} = m.own
  BY <1>3, <1>4 DEF Given
<1>6. y \in TidyMemory
  BY <1>1, <1>4 DEF TidyMemory, Tidy
<1> QED  BY <1>3, <1>4, <1>5, <1>6 DEF b, y

LEMMA InvariantApplyResize ==
    ASSUME Sessions, Cells, LifeInvariant, ready, NEW x \in Session, ApplyResize(x)
    PROVE  LifeInvariant'
<1> DEFINE s == Grown(x, "screen")
           d == Grown(x, "row_dirty")
           a == Grown(x, "alt")
<1>1. PICK n \in Sizes \ {size[x]}, oom \in FailOne({Grown(x, f) : f \in Buffers}) :
        LET m1 == Alloc(mem, s, oom)
            m2 == Alloc(m1, d, oom)
            m3 == Alloc(m2, a, oom)
            m4 == Replace(Replace(Replace(m3, x, "screen", n), x, "row_dirty", n), x, "alt", n)
        IN  /\ mem' = IF s \in oom THEN m1
                      ELSE IF d \in oom THEN ReleaseBlocks(m2, {s})
                      ELSE IF a \in oom THEN ReleaseBlocks(m3, {s, d})
                      ELSE m4
            /\ size' = IF oom = {} THEN [size EXCEPT ![x] = n] ELSE size
            /\ UNCHANGED <<ready, open, reset, torn>>
  BY DEF ApplyResize
<1> DEFINE m1 == Alloc(mem, s, oom)
           m2 == Alloc(m1, d, oom)
           m3 == Alloc(m2, a, oom)
           r1 == Replace(m3, x, "screen", n)
           r2 == Replace(r1, x, "row_dirty", n)
           m4 == Replace(r2, x, "alt", n)
<1>2. /\ mem \in TidyMemory /\ mem.ok /\ size \in [Session -> Nat] /\ n \in Nat /\ mem.own \cap News = {}
      /\ UNCHANGED <<ready, open, reset, torn>> /\ open \subseteq Session
  BY <1>1 DEF LifeInvariant, Cells
<1>3. /\ s \in News /\ d \in News /\ a \in News /\ s # d /\ s # a /\ d # a
      /\ {Grown(x, f) : f \in Buffers} = {s, d, a} /\ {s, d, a} \in SUBSET Block
  <2>1. s = <<x, "new screen">> /\ d = <<x, "new row_dirty">> /\ a = <<x, "new alt">>
    BY DEF Grown, Anew
  <2>2. {Grown(x, f) : f \in Buffers} = {s, d, a}
    BY DEF Buffers
  <2>3. s \in News /\ d \in News /\ a \in News
    BY DEF News, Grown, Buffers
  <2>4. s \in Block /\ d \in Block /\ a \in Block
    BY GrownBlock DEF Buffers
  <2>5. s # d /\ s # a /\ d # a
    <3> HIDE DEF s, d, a
    <3>1. s[2] = "new screen" /\ d[2] = "new row_dirty" /\ a[2] = "new alt"
      BY <2>1
    <3> QED  BY <3>1
  <2> HIDE DEF s, d, a
  <2> QED  BY <2>2, <2>3, <2>4, <2>5
<1>4. "screen" \in Buffers /\ "alt" \in Buffers /\ "row_dirty" \in Buffers
  BY DEF Buffers
<1>5. /\ mem' = IF s \in oom THEN m1
                ELSE IF d \in oom THEN ReleaseBlocks(m2, {s})
                ELSE IF a \in oom THEN ReleaseBlocks(m3, {s, d})
                ELSE m4
      /\ size' = IF oom = {} THEN [size EXCEPT ![x] = n] ELSE size
  BY <1>1
<1>6. oom = {} \/ s \in oom \/ d \in oom \/ a \in oom
  BY <1>3 DEF FailOne
<1> HIDE DEF s, d, a
<1>7. /\ m1 \in TidyMemory /\ m1.own \ {s} = mem.own /\ m1.lost = mem.lost
      /\ m1.ok = mem.ok /\ m1.cells = mem.cells
  <2>1. s \notin mem.own
    BY <1>2, <1>3
  <2> QED  BY ONLY <1>2, <1>4, <2>1, x \in Session, GrownFacts DEF s
<1> HIDE DEF m1
<1>8. /\ m2 \in TidyMemory /\ m2.own \ {d} = m1.own /\ m2.lost = m1.lost
      /\ m2.ok = m1.ok /\ m2.cells = m1.cells
  <2>1. d \notin m1.own
    BY <1>2, <1>3, <1>7
  <2> QED  BY ONLY <1>4, <1>7, <2>1, x \in Session, GrownFacts DEF d
<1> HIDE DEF m2
<1>9. /\ m3 \in TidyMemory /\ m3.own \ {a} = m2.own /\ m3.lost = m2.lost
      /\ m3.ok = m2.ok /\ m3.cells = m2.cells
  <2>1. a \notin m2.own
    BY <1>2, <1>3, <1>7, <1>8
  <2> QED  BY ONLY <1>4, <1>8, <2>1, x \in Session, GrownFacts DEF a
<1> HIDE DEF m3
<1>10. /\ r1 \in TidyMemory /\ r1.own = (m3.own \cup {<<x, "screen">>}) \ {s}
       /\ r1.lost = m3.lost /\ r1.ok = m3.ok /\ r1.cells = [m3.cells EXCEPT ![x]["screen"] = n]
  <2>1. m3 \in TidyMemory /\ "screen" \in Buffers /\ n \in Nat
    BY <1>2, <1>4, <1>9
  <2> QED  BY ONLY <2>1, x \in Session, ReplaceFacts DEF s, r1
<1> HIDE DEF r1
<1>11. /\ r2 \in TidyMemory /\ r2.own = (r1.own \cup {<<x, "row_dirty">>}) \ {d}
       /\ r2.lost = r1.lost /\ r2.ok = r1.ok /\ r2.cells = [r1.cells EXCEPT ![x]["row_dirty"] = n]
  <2>1. r1 \in TidyMemory /\ "row_dirty" \in Buffers /\ n \in Nat
    BY <1>2, <1>4, <1>10
  <2> QED  BY ONLY <2>1, x \in Session, ReplaceFacts DEF d, r2
<1> HIDE DEF r2
<1>12. /\ m4 \in TidyMemory /\ m4.own = (r2.own \cup {<<x, "alt">>}) \ {a}
       /\ m4.lost = r2.lost /\ m4.ok = r2.ok /\ m4.cells = [r2.cells EXCEPT ![x]["alt"] = n]
  <2>1. r2 \in TidyMemory /\ "alt" \in Buffers /\ n \in Nat
    BY <1>2, <1>4, <1>11
  <2> QED  BY ONLY <2>1, x \in Session, ReplaceFacts DEF a, m4
<1> HIDE DEF m4
\* A resize that fails leaves everything as it was.
<1>13. ASSUME oom # {}
       PROVE  /\ mem' \in TidyMemory /\ mem'.own = mem.own /\ mem'.lost = mem.lost /\ mem'.ok
              /\ mem'.cells = mem.cells /\ size' = size
  <2>1. size' = size
    BY <1>5, <1>13
  <2>2. CASE s \in oom
    <3>1. mem' = m1
      BY <1>5, <2>2
    <3>2. s \notin m1.own
      <4>1. m1.own = Given(mem.own, s, oom)
        <5>1. mem \in Memory /\ s \in Block
          BY <1>2, <1>3 DEF TidyMemory
        <5> QED  BY ONLY <5>1, AllocFacts DEF m1
      <4> QED  BY <2>2, <4>1 DEF Given
    <3> QED  BY <1>2, <1>7, <2>1, <3>1, <3>2
  <2>3. CASE s \notin oom /\ d \in oom
    <3>1. mem' = ReleaseBlocks(m2, {s})
      BY <1>5, <2>3
    <3>2. m2 \in Memory /\ Tidy(m2) /\ {s} \in SUBSET Block
      BY <1>3, <1>8 DEF TidyMemory
    <3>3. /\ mem' \in Memory /\ mem'.own = m2.own \ {s} /\ mem'.lost = m2.lost /\ mem'.ok = m2.ok
          /\ mem'.cells = m2.cells /\ Tidy(mem')
      BY ONLY <3>1, <3>2, ReleaseFacts
    <3>4. d \notin m2.own
      <4>1. m2.own = Given(m1.own, d, oom)
        <5>1. m1 \in Memory /\ d \in Block
          BY <1>3, <1>7 DEF TidyMemory
        <5> QED  BY ONLY <5>1, AllocFacts DEF m2
      <4> QED  BY <2>3, <4>1 DEF Given
    <3>5. mem'.own = mem.own
      BY <1>7, <1>8, <3>3, <3>4
    <3> QED  BY <1>2, <1>7, <1>8, <2>1, <3>3, <3>5 DEF TidyMemory
  <2>4. CASE s \notin oom /\ d \notin oom /\ a \in oom
    <3>1. mem' = ReleaseBlocks(m3, {s, d})
      BY <1>5, <2>4
    <3>2. m3 \in Memory /\ Tidy(m3) /\ {s, d} \in SUBSET Block
      BY <1>3, <1>9 DEF TidyMemory
    <3>3. /\ mem' \in Memory /\ mem'.own = m3.own \ {s, d} /\ mem'.lost = m3.lost /\ mem'.ok = m3.ok
          /\ mem'.cells = m3.cells /\ Tidy(mem')
      BY ONLY <3>1, <3>2, ReleaseFacts
    <3>4. a \notin m3.own
      <4>1. m3.own = Given(m2.own, a, oom)
        <5>1. m2 \in Memory /\ a \in Block
          BY <1>3, <1>8 DEF TidyMemory
        <5> QED  BY ONLY <5>1, AllocFacts DEF m3
      <4> QED  BY <2>4, <4>1 DEF Given
    <3>5. mem'.own = mem.own
      BY <1>7, <1>8, <1>9, <3>3, <3>4
    <3> QED  BY <1>2, <1>7, <1>8, <1>9, <2>1, <3>3, <3>5 DEF TidyMemory
  <2> QED  BY <1>6, <1>13, <2>2, <2>3, <2>4
\* One that does not exchanges the three buffers.
<1>14. ASSUME oom = {}
       PROVE  /\ mem' \in TidyMemory /\ mem'.own = mem.own \cup ({x} \X Buffers) /\ mem'.lost = mem.lost
              /\ mem'.ok /\ size' = [size EXCEPT ![x] = n]
              /\ \A f \in Buffers : mem'.cells[x][f] = n
              /\ \A y \in Session \ {x} : mem'.cells[y] = mem.cells[y]
  <2>1. mem' = m4 /\ size' = [size EXCEPT ![x] = n]
    BY <1>5, <1>14
  <2>2. {x} \X Buffers = {<<x, "screen">>, <<x, "row_dirty">>, <<x, "alt">>}
    BY DEF Buffers
  <2>3. ({x} \X Buffers) \cap {s, d, a} = {}
    <3>1. Buffers \subseteq Needed
      BY DEF Needed
    <3> QED  BY <1>3, <3>1, NeededBlocks
  <2>4. m4.own = mem.own \cup ({x} \X Buffers)
    BY <1>2, <1>3, <1>7, <1>8, <1>9, <1>10, <1>11, <1>12, <2>2, <2>3
  <2>5. m3.cells \in [Session -> [Buffers -> Nat]] /\ m3.cells = mem.cells
    BY <1>7, <1>8, <1>9 DEF TidyMemory, Memory
  <2>6. /\ r1.cells \in [Session -> [Buffers -> Nat]] /\ r1.cells[x]["screen"] = n
        /\ \A y \in Session \ {x} : r1.cells[y] = mem.cells[y]
    BY <1>2, <1>4, <1>10, <2>5
  <2>7. /\ r2.cells \in [Session -> [Buffers -> Nat]] /\ r2.cells[x]["screen"] = n
        /\ r2.cells[x]["row_dirty"] = n
        /\ \A y \in Session \ {x} : r2.cells[y] = mem.cells[y]
    BY <1>2, <1>4, <1>11, <2>6
  <2>8. /\ m4.cells[x]["screen"] = n /\ m4.cells[x]["row_dirty"] = n /\ m4.cells[x]["alt"] = n
        /\ \A y \in Session \ {x} : m4.cells[y] = mem.cells[y]
    BY <1>2, <1>4, <1>12, <2>7
  <2>9. m4.ok /\ m4.lost = mem.lost
    BY <1>2, <1>7, <1>8, <1>9, <1>10, <1>11, <1>12
  <2> QED  BY <1>12, <2>1, <2>4, <2>8, <2>9 DEF Buffers
<1>15. CASE oom # {}
  <2>1. mem'.lost \subseteq Abandoned'
    BY <1>2, <1>13, <1>15 DEF LifeInvariant, Abandoned
  <2> QED  BY <1>2, <1>13, <1>15, <2>1 DEF LifeInvariant, SetUp
<1>16. CASE oom = {}
  <2>1. mem'.lost \subseteq Abandoned'
    BY <1>2, <1>14, <1>16 DEF LifeInvariant, Abandoned
  <2>2. ({x} \X Buffers) \cap News = {}
    <3>1. Buffers \subseteq Needed
      BY DEF Needed
    <3> QED  BY <3>1, NeededBlocks
  <2>3. mem'.own \cap News = {}
    BY <1>2, <1>14, <1>16, <2>2
  <2>4. ASSUME NEW y \in Session \ torn' PROVE SetUp(mem', y, size'[y])
    <3>1. SetUp(mem, y, size[y])
      BY <1>2, <2>4 DEF LifeInvariant
    <3> QED  BY <1>2, <1>14, <1>16, <3>1 DEF SetUp
  <2>5. 0 \notin torn' => OfTerminal \subseteq mem'.own \cup Spared
    BY <1>2, <1>14, <1>16 DEF LifeInvariant
  <2>6. size' \in [Session -> Nat]
    BY <1>2, <1>14, <1>16
  <2> QED  BY <1>2, <1>14, <1>16, <2>1, <2>3, <2>4, <2>5, <2>6 DEF LifeInvariant
<1> QED  BY <1>15, <1>16

LEMMA LifeStep ==
    ASSUME Sessions, Cells, LifeInvariant, [LifeNext]_life
    PROVE  LifeInvariant'
<1>1. CASE Create
  BY <1>1, InvariantCreate
<1>2. CASE Destroy
  BY <1>2, InvariantDestroy
<1>3. CASE Alive /\ SplitPane
  BY <1>3, InvariantSplitPane DEF Alive
<1>4. ASSUME NEW x \in open, ClosePane(x) PROVE LifeInvariant'
  BY <1>4 DEF ClosePane, LifeInvariant, Abandoned, SetUp
<1>5. ASSUME NEW x \in Session, Alive, RIS(x) PROVE LifeInvariant'
  BY <1>5, InvariantRIS DEF Alive
<1>6. ASSUME NEW x \in Session, Alive, ApplyResize(x) PROVE LifeInvariant'
  BY <1>6, InvariantApplyResize DEF Alive
<1>7. ASSUME NEW x \in Session, Alive, HostStores(x) PROVE LifeInvariant'
  BY <1>7, InvariantHostStores DEF Alive
<1>8. CASE UNCHANGED life
  BY <1>8 DEF life, LifeInvariant, Abandoned, SetUp
<1> QED  BY <1>1, <1>2, <1>3, <1>4, <1>5, <1>6, <1>7, <1>8 DEF LifeNext

\* Every session that was not torn has its buffers, of the size it believes to have,
\* nothing is freed twice or held after it was freed, and what is lost is known:
\* for any number of sessions, any sizes and any allocation that fails.
THEOREM LifeTheorem == Sessions /\ Cells => (LifeSpec => []OwnsWhatItUses)
<1> SUFFICES ASSUME Sessions, Cells PROVE LifeSpec => []OwnsWhatItUses
  OBVIOUS
<1>1. LifeInit => LifeInvariant
  <2> SUFFICES ASSUME LifeInit PROVE LifeInvariant
    OBVIOUS
  <2>1. mem.own = {} /\ mem.lost = {} /\ mem.ok
    BY DEF LifeInit
  <2>2. mem \in TidyMemory
    <3> DEFINE none == [x \in Session |-> [f \in Buffers |-> 0]]
    <3>1. none \in [Session -> [Buffers -> Nat]]
      OBVIOUS
    <3>2. mem = [own |-> {}, gone |-> {}, lost |-> {}, twice |-> FALSE, ok |-> TRUE, cells |-> none]
      BY DEF LifeInit
    <3> HIDE DEF none
    <3> QED  BY <3>1, <3>2 DEF TidyMemory, Memory, Tidy
  <2>3. ready = FALSE /\ open = {} /\ size \in [Session -> Nat]
    BY DEF LifeInit
  <2> QED  BY <2>1, <2>2, <2>3 DEF LifeInvariant
<1>2. LifeInvariant /\ [LifeNext]_life => LifeInvariant'
  BY LifeStep
<1>3. LifeInvariant => OwnsWhatItUses
  <2> SUFFICES ASSUME LifeInvariant PROVE OwnsWhatItUses
    OBVIOUS
  <2>1. mem.gone = {} /\ ~mem.twice
    BY DEF LifeInvariant, TidyMemory, Tidy
  <2>2. ready /\ 0 \notin torn => \A f \in OfTerm \ {"font_atlas", "extensions"} : <<0, f>> \in mem.own
    BY DEF LifeInvariant, OfTerminal, Spared
  <2> QED  BY <2>1, <2>2 DEF LifeInvariant, OwnsWhatItUses, Owns, SetUp, Needed
<1> QED  BY <1>1, <1>2, <1>3, PTL DEF LifeSpec

-------------------------------------------------------------------------------
(* What a session answers: Responses *)

\* The rings have room.
Room == OUTPUT_SIZE \in Nat \ {0}

\* No frame takes so much that a queue is empty before XON was due.
Rates ==
    /\ INPUT_SIZE \in Nat \ {0} /\ CHARS \in Nat /\ BURST \in Nat
    /\ \A n \in Nat : Usage(n) >= 25 => Quota(n) < n

\* So it is: KTerm_ResetSessionDefaults sets 200 and 8192, and the queue is one megabyte.
LEMMA RatesOfTheCode ==
    ASSUME INPUT_SIZE = 1048576, CHARS = 200, BURST = 8192
    PROVE  Rates
BY DEF Rates, Usage, Quota

\* Sessions are numbered.  Only the one in the foreground is paused and asked for its
\* answerback: what the terminal writes for another goes to the foreground's host.
Conversation ==
    /\ \E n \in Nat \ {0} : Hosts = 1 .. n
    /\ Foreground \in Hosts /\ Limited \subseteq {Foreground}
    /\ \A s \in Hosts : Asks[s] \subseteq IF s = Foreground THEN {"text", "dsr", "enq"} ELSE {"text", "dsr"}

Symbol == {"none", "ESC [", "0 n", "XOFF", "XON", "wrong"}
Slot == 0 .. OUTPUT_SIZE - 1
RingBuffer == [data : [Slot -> Symbol], head : Slot, tail : Slot, overflow : BOOLEAN]

LEMMA Wrapped ==
    ASSUME Room, NEW x \in 0 .. 2 * OUTPUT_SIZE - 1
    PROVE  x % OUTPUT_SIZE = IF x < OUTPUT_SIZE THEN x ELSE x - OUTPUT_SIZE
<1>1. OUTPUT_SIZE \in Nat /\ OUTPUT_SIZE > 0
  BY DEF Room
<1>2. CASE x < OUTPUT_SIZE
  BY <1>1, <1>2
<1>3. CASE x >= OUTPUT_SIZE
  <2>1. x - OUTPUT_SIZE \in 0 .. OUTPUT_SIZE - 1
    BY <1>1, <1>3
  <2> QED  BY <1>1, <1>3, <2>1
<1> QED  BY <1>1, <1>2, <1>3

\* Where the k-th of what a ring holds lies.
Lies(h, k) == IF h + k - 1 < OUTPUT_SIZE THEN h + k - 1 ELSE h + k - 1 - OUTPUT_SIZE
Filled(h, t) == IF h <= t THEN t - h ELSE OUTPUT_SIZE - h + t
Straight(t, len) == IF len > OUTPUT_SIZE - t THEN OUTPUT_SIZE - t ELSE len

LEMMA Filling ==
    ASSUME Room, NEW h \in Slot, NEW t \in Slot
    PROVE  /\ Filled(h, t) \in 0 .. OUTPUT_SIZE - 1
           /\ OUTPUT_SIZE - 1 - Filled(h, t) = IF h <= t THEN OUTPUT_SIZE - 1 - (t - h) ELSE h - t - 1
           /\ \A k \in 1 .. Filled(h, t) : Lies(h, k) \in Slot /\ (h + k - 1) % OUTPUT_SIZE = Lies(h, k)
<1>1. OUTPUT_SIZE \in Nat \ {0} /\ h \in 0 .. OUTPUT_SIZE - 1 /\ t \in 0 .. OUTPUT_SIZE - 1
  BY DEF Room, Slot
<1>2. Filled(h, t) \in 0 .. OUTPUT_SIZE - 1
  BY <1>1 DEF Filled
<1>3. ASSUME NEW k \in 1 .. Filled(h, t)
      PROVE  Lies(h, k) \in Slot /\ (h + k - 1) % OUTPUT_SIZE = Lies(h, k)
  <2> DEFINE x == h + k - 1
  <2>1. x \in 0 .. 2 * OUTPUT_SIZE - 1
    BY <1>1, <1>2
  <2> HIDE DEF x
  <2>2. x % OUTPUT_SIZE = IF x < OUTPUT_SIZE THEN x ELSE x - OUTPUT_SIZE
    BY <2>1, Wrapped
  <2>3. (IF x < OUTPUT_SIZE THEN x ELSE x - OUTPUT_SIZE) \in Slot
    BY <1>1, <2>1 DEF Slot
  <2>4. Lies(h, k) = IF x < OUTPUT_SIZE THEN x ELSE x - OUTPUT_SIZE
    BY <1>1, <1>2 DEF x, Lies
  <2>5. Lies(h, k) \in Slot /\ x % OUTPUT_SIZE = Lies(h, k)
    BY <2>2, <2>3, <2>4
  <2> QED  BY <2>5 DEF x
<1> QED  BY <1>1, <1>2, <1>3 DEF Filled

\* What a write of len bytes changes.
LEMMA Writing ==
    ASSUME Room, NEW h \in Slot, NEW t \in Slot, NEW len \in Nat, len <= OUTPUT_SIZE - 1 - Filled(h, t)
    PROVE  LET c == Straight(t, len)
               u == (t + len) % OUTPUT_SIZE
           IN  /\ u \in Slot /\ c \in 0 .. len /\ t + c <= OUTPUT_SIZE /\ len - c <= t
               /\ Filled(h, u) = Filled(h, t) + len
               /\ \A k \in 1 .. Filled(h, t) : Lies(h, k) \notin t .. t + c - 1 /\ ~(Lies(h, k) < len - c)
               /\ \A k \in 1 .. c : Lies(h, Filled(h, t) + k) = t + k - 1
               /\ \A k \in c + 1 .. len : Lies(h, Filled(h, t) + k) = k - c - 1
                                          /\ k - c - 1 \notin t .. t + c - 1
<1> DEFINE N == OUTPUT_SIZE
           c == Straight(t, len)
           u == IF t + len < N THEN t + len ELSE t + len - N
           f == Filled(h, t)
           x == t + len
<1>1. N \in Nat \ {0} /\ h \in 0 .. N - 1 /\ t \in 0 .. N - 1 /\ f = IF h <= t THEN t - h ELSE N - h + t
  BY DEF Room, Slot, Filled
<1>2. f \in 0 .. N - 1 /\ len <= N - 1 - f
  BY Filling
<1>3. c = IF len > N - t THEN N - t ELSE len
  BY DEF Straight
<1>4. x % N = u
  <2>1. x \in 0 .. 2 * N - 1
    BY <1>1, <1>2
  <2> HIDE DEF x
  <2>2. x % N = IF x < N THEN x ELSE x - N
    BY <2>1, Wrapped
  <2>3. u = IF x < N THEN x ELSE x - N
    BY <1>1 DEF x, u
  <2> QED  BY <2>2, <2>3
<1>5. \A k \in Int : Lies(h, k) = IF h + k - 1 < N THEN h + k - 1 ELSE h + k - 1 - N
  BY DEF Lies
<1>6. Filled(h, u) = IF h <= u THEN u - h ELSE N - h + u
  BY DEF Filled
<1> HIDE DEF c, f, u
<1>7. u = IF t + len < N THEN t + len ELSE t + len - N
  BY DEF u
<1>8. u \in 0 .. N - 1 /\ c \in 0 .. len /\ t + c <= N /\ len - c <= t
  BY <1>1, <1>2, <1>3, <1>7
<1>9. Filled(h, u) = f + len
  BY <1>1, <1>2, <1>6, <1>7
<1>10. ASSUME NEW k \in 1 .. f PROVE Lies(h, k) \notin t .. t + c - 1 /\ ~(Lies(h, k) < len - c)
  BY <1>1, <1>2, <1>3, <1>5, <1>8
<1>11. ASSUME NEW k \in 1 .. c PROVE Lies(h, f + k) = t + k - 1
  BY <1>1, <1>2, <1>3, <1>5, <1>8
<1>12. ASSUME NEW k \in c + 1 .. len
       PROVE  Lies(h, f + k) = k - c - 1 /\ k - c - 1 \notin t .. t + c - 1
  BY <1>1, <1>2, <1>3, <1>5, <1>8
<1> QED  BY <1>4, <1>8, <1>9, <1>10, <1>11, <1>12 DEF c, f, Slot, x

LEMMA RingFacts ==
    ASSUME Room, NEW r \in RingBuffer
    PROVE  /\ r.head \in Slot /\ r.tail \in Slot /\ r.data \in [Slot -> Symbol] /\ r.overflow \in BOOLEAN
           /\ FreeSpace(r) = OUTPUT_SIZE - 1 - Filled(r.head, r.tail)
           /\ Contents(r) \in Seq(Symbol) /\ Len(Contents(r)) = Filled(r.head, r.tail)
           /\ \A k \in 1 .. Filled(r.head, r.tail) : Contents(r)[k] = r.data[Lies(r.head, k)]
<1>1. r.head \in Slot /\ r.tail \in Slot /\ r.data \in [Slot -> Symbol] /\ r.overflow \in BOOLEAN
  BY DEF RingBuffer
<1> DEFINE f == Filled(r.head, r.tail)
<1>2. /\ f \in 0 .. OUTPUT_SIZE - 1
      /\ OUTPUT_SIZE - 1 - f = IF r.head <= r.tail THEN OUTPUT_SIZE - 1 - (r.tail - r.head)
                               ELSE r.head - r.tail - 1
      /\ \A k \in 1 .. f : Lies(r.head, k) \in Slot /\ (r.head + k - 1) % OUTPUT_SIZE = Lies(r.head, k)
  BY <1>1, Filling
<1>3. Contents(r) = [k \in 1 .. f |-> r.data[(r.head + k - 1) % OUTPUT_SIZE]]
  BY DEF Contents, Filled
<1>4. FreeSpace(r) = OUTPUT_SIZE - 1 - f
  BY <1>2 DEF FreeSpace
<1> HIDE DEF f
<1>5. /\ Contents(r) = [k \in 1 .. f |-> r.data[Lies(r.head, k)]]
  BY <1>2, <1>3
<1>6. f \in Nat /\ \A k \in 1 .. f : r.data[Lies(r.head, k)] \in Symbol
  BY <1>1, <1>2, Room DEF Room
<1>7. Contents(r) \in Seq(Symbol) /\ Len(Contents(r)) = f
  BY <1>5, <1>6
<1> QED  BY <1>1, <1>4, <1>5, <1>7 DEF f

LEMMA StuffedFacts ==
    ASSUME Room, NEW r \in RingBuffer, NEW bytes \in Seq(Symbol)
    PROVE  /\ Stuffed(r, bytes) \in RingBuffer
           /\ r.overflow => Stuffed(r, bytes).overflow
           /\ ~Stuffed(r, bytes).overflow => Contents(Stuffed(r, bytes)) = Contents(r) \o bytes
<1> DEFINE len == IF Len(bytes) > FreeSpace(r) THEN FreeSpace(r) ELSE Len(bytes)
           data == SubSeq(bytes, 1, len)
           z == Stuffed(r, bytes)
           h == r.head
           t == r.tail
           f == Filled(h, t)
           c == Straight(t, len)
           u == (t + len) % OUTPUT_SIZE
<1>1. /\ h \in Slot /\ t \in Slot /\ r.data \in [Slot -> Symbol] /\ r.overflow \in BOOLEAN
      /\ FreeSpace(r) = OUTPUT_SIZE - 1 - f
      /\ Contents(r) \in Seq(Symbol) /\ Len(Contents(r)) = f
      /\ \A k \in 1 .. f : Contents(r)[k] = r.data[Lies(h, k)]
  BY RingFacts
<1>2. OUTPUT_SIZE \in Nat \ {0} /\ f \in 0 .. OUTPUT_SIZE - 1
  BY <1>1, Filling DEF Room
<1>3. len \in Nat /\ len <= OUTPUT_SIZE - 1 - f /\ len <= Len(bytes)
  <2>1. Len(bytes) \in Nat
    OBVIOUS
  <2> HIDE DEF f
  <2> QED  BY <1>1, <1>2, <2>1
<1> HIDE DEF f, len
<1>4. data \in Seq(Symbol) /\ Len(data) = len /\ \A k \in 1 .. len : data[k] = bytes[k]
  BY <1>3
<1>5. z = [data |-> Stored(r, data), head |-> h, tail |-> u, overflow |-> r.overflow \/ len < Len(bytes)]
  BY DEF Stuffed, len
<1>5a. z.overflow = (r.overflow \/ len < Len(bytes))
  <2> DEFINE o == r.overflow \/ len < Len(bytes)
  <2>1. z = [data |-> Stored(r, data), head |-> h, tail |-> u, overflow |-> o]
    BY <1>5
  <2> HIDE DEF o, z
  <2>2. z.overflow = o
    BY <2>1
  <2> QED  BY <2>2 DEF o, z
<1> HIDE DEF data
<1>6. /\ u \in Slot /\ c \in 0 .. len /\ t + c <= OUTPUT_SIZE /\ len - c <= t
      /\ Filled(h, u) = f + len
      /\ \A k \in 1 .. f : Lies(h, k) \notin t .. t + c - 1 /\ ~(Lies(h, k) < len - c)
      /\ \A k \in 1 .. c : Lies(h, f + k) = t + k - 1
      /\ \A k \in c + 1 .. len : Lies(h, f + k) = k - c - 1 /\ k - c - 1 \notin t .. t + c - 1
  BY <1>1, <1>3, Writing DEF f
<1>7. Stored(r, data) = [k \in Slot |-> CASE k \in t .. t + c - 1 -> data[k - t + 1]
                                          [] k < len - c -> data[c + k + 1]
                                          [] OTHER -> r.data[k]]
  BY <1>4 DEF Stored, Slot, Straight
<1> HIDE DEF u, c, h, t
<1>9. h \in 0 .. OUTPUT_SIZE - 1 /\ t \in 0 .. OUTPUT_SIZE - 1 /\ Slot = 0 .. OUTPUT_SIZE - 1
  BY <1>1 DEF Slot
<1>8. /\ \A k \in Slot : k \in t .. t + c - 1 => Stored(r, data)[k] = data[k - t + 1]
      /\ \A k \in Slot : k \notin t .. t + c - 1 /\ k < len - c => Stored(r, data)[k] = data[c + k + 1]
      /\ \A k \in Slot : k \notin t .. t + c - 1 /\ ~(k < len - c) => Stored(r, data)[k] = r.data[k]
  <2>1. ASSUME NEW k \in Slot
        PROVE  Stored(r, data)[k] = CASE k \in t .. t + c - 1 -> data[k - t + 1]
                                      [] k < len - c -> data[c + k + 1]
                                      [] OTHER -> r.data[k]
    BY <1>7
  <2>2. ASSUME NEW k \in Slot, k \in t .. t + c - 1 PROVE ~(k < len - c)
    BY <1>2, <1>3, <1>6, <1>9, <2>2
  <2> QED  BY <2>1, <2>2
<1>10. \A k \in Slot : Stored(r, data)[k] \in Symbol
  <2> TAKE k \in Slot
  <2>1. CASE k \in t .. t + c - 1
    <3>1. k - t + 1 \in 1 .. len
      BY <1>3, <1>6, <1>9, <2>1
    <3> QED  BY <1>4, <1>8, <2>1, <3>1
  <2>2. CASE k \notin t .. t + c - 1 /\ k < len - c
    <3>1. c + k + 1 \in 1 .. len
      BY <1>3, <1>6, <1>9, <2>2
    <3> QED  BY <1>4, <1>8, <2>2, <3>1
  <2>3. CASE k \notin t .. t + c - 1 /\ ~(k < len - c)
    <3>1. Stored(r, data)[k] = r.data[k]
      BY <1>8, <2>3
    <3> QED  BY <1>1, <3>1
  <2> QED  BY <2>1, <2>2, <2>3
<1>11. z \in RingBuffer
  <2>1. Stored(r, data) \in [Slot -> Symbol]
    BY <1>7, <1>10
  <2> QED  BY <1>1, <1>5, <1>6, <2>1 DEF RingBuffer, h
<1>12. ASSUME ~z.overflow PROVE Contents(z) = Contents(r) \o bytes
  <2> HIDE DEF z
  <2>1. len = Len(bytes)
    <3>1. ~(len < Len(bytes))
      BY <1>5a, <1>12
    <3>2. Len(bytes) \in Nat
      OBVIOUS
    <3> QED  BY <1>3, <3>1, <3>2
  <2>2. z.head = h /\ z.tail = u /\ z.data = Stored(r, data)
    BY <1>5
  <2>3. /\ Contents(z) \in Seq(Symbol) /\ Len(Contents(z)) = f + len
        /\ \A k \in 1 .. f + len : Contents(z)[k] = z.data[Lies(h, k)]
    BY <1>6, <1>11, <2>2, RingFacts
  <2>4. ASSUME NEW k \in 1 .. f PROVE z.data[Lies(h, k)] = r.data[Lies(h, k)]
    <3>1. Lies(h, k) \in Slot
      BY <1>1, Filling DEF f
    <3> QED  BY <1>6, <1>8, <2>2, <3>1
  <2>5. ASSUME NEW k \in 1 .. len PROVE z.data[Lies(h, f + k)] = bytes[k]
    <3>1. CASE k <= c
      <4>0. c \in Int /\ k \in Int
        BY <1>3, <1>6
      <4>1. k \in 1 .. c /\ t + k - 1 \in Slot /\ t + k - 1 \in t .. t + c - 1 /\ (t + k - 1) - t + 1 = k
        BY ONLY <1>2, <1>6, <1>9, <3>1, <4>0, k \in 1 .. len
      <4>2. z.data[t + k - 1] = data[(t + k - 1) - t + 1]
        BY <1>8, <2>2, <4>1
      <4> QED  BY <1>4, <1>6, <4>1, <4>2
    <3>2. CASE k > c
      <4>1. /\ k \in c + 1 .. len /\ k - c - 1 \in Slot /\ k - c - 1 < len - c
            /\ c + (k - c - 1) + 1 = k
        BY <1>2, <1>3, <1>6, <1>9, <3>2
      <4>2. k - c - 1 \notin t .. t + c - 1
        BY <1>6, <4>1
      <4>3. z.data[k - c - 1] = data[c + (k - c - 1) + 1]
        BY <1>8, <2>2, <4>1, <4>2
      <4> QED  BY <1>4, <1>6, <4>1, <4>3
    <3> QED  BY <1>6, <3>1, <3>2
  <2>6. Contents(r) \o bytes \in Seq(Symbol) /\ Len(Contents(r) \o bytes) = f + len
    BY <1>1, <2>1
  <2>7. ASSUME NEW k \in 1 .. f + len PROVE Contents(z)[k] = (Contents(r) \o bytes)[k]
    <3>1. CASE k <= f
      <4>1. k \in 1 .. f /\ (Contents(r) \o bytes)[k] = Contents(r)[k]
        BY <1>1, <1>2, <3>1
      <4> QED  BY <1>1, <2>3, <2>4, <4>1
    <3>2. CASE k > f
      <4>1. k - f \in 1 .. len /\ f + (k - f) = k
        BY <1>2, <1>3, <3>2
      <4>2. (Contents(r) \o bytes)[k] = bytes[k - f]
        <5>1. Contents(r) \in Seq(Symbol) /\ bytes \in Seq(Symbol) /\ Len(Contents(r)) = f /\ Len(bytes) = len
          BY <1>1, <2>1
        <5> QED  BY ONLY <1>2, <1>3, <3>2, <4>1, <5>1
      <4>3. z.data[Lies(h, f + (k - f))] = bytes[k - f]
        BY <2>5, <4>1
      <4> QED  BY <2>3, <4>1, <4>2, <4>3
    <3>3. k <= f \/ k > f
      BY <1>2, <1>3
    <3> QED  BY <3>1, <3>2, <3>3
  <2> QED  BY <1>2, <1>3, <2>3, <2>6, <2>7
<1>13. r.overflow => z.overflow
  BY <1>5a
<1> QED  BY <1>11, <1>12, <1>13

\* Reading one piece after the other pauses the host like reading all of it.
LEMMA PausesInPieces ==
    ASSUME NEW p \in BOOLEAN, NEW o \in Seq(Symbol), NEW i \in 0 .. Len(o)
    PROVE  Pauses(Pauses(p, SubSeq(o, 1, i)), SubSeq(o, i + 1, Len(o))) <=> Pauses(p, o)
<1> DEFINE n == Len(o)
           a == SubSeq(o, 1, i)
           b == SubSeq(o, i + 1, n)
<1>1. n \in Nat /\ DOMAIN o = 1 .. n
  OBVIOUS
<1>2. /\ DOMAIN a = 1 .. i /\ Len(a) = i /\ \A k \in 1 .. i : a[k] = o[k]
      /\ DOMAIN b = 1 .. n - i /\ Len(b) = n - i /\ \A k \in 1 .. n - i : b[k] = o[i + k]
  <2>1. \A k \in 1 .. i : o[k] \in Symbol
    BY <1>1
  <2>2. \A k \in i + 1 .. n : o[k] \in Symbol
    BY <1>1
  <2>3. /\ a \in Seq(Symbol) /\ Len(a) = (IF 1 <= i THEN i - 1 + 1 ELSE 0)
        /\ \A k \in 1 .. i - 1 + 1 : a[k] = o[1 + k - 1]
    BY <1>1, <2>1, SubSeqProperties
  <2>4. /\ b \in Seq(Symbol) /\ Len(b) = (IF i + 1 <= n THEN n - (i + 1) + 1 ELSE 0)
        /\ \A k \in 1 .. n - (i + 1) + 1 : b[k] = o[i + 1 + k - 1]
    <3>1. i + 1 \in Int /\ n \in Int
      BY <1>1
    <3> HIDE DEF n
    <3> QED  BY <2>2, <3>1, SubSeqProperties
  <2> HIDE DEF n, a, b
  <2>5. DOMAIN a = 1 .. Len(a) /\ DOMAIN b = 1 .. Len(b)
    BY <2>3, <2>4
  <2>6. i - 1 + 1 = i /\ n - (i + 1) + 1 = n - i /\ i \in 0 .. n
    BY <1>1 DEF n
  <2>7. \A k \in 1 .. n - i : i + 1 + k - 1 = i + k
    BY <1>1, <2>6
  <2>8. \A k \in 1 .. i : 1 + k - 1 = k
    BY <2>6
  <2>9. Len(a) = i /\ Len(b) = n - i
    BY <1>1, <2>3, <2>4, <2>6
  <2> QED  BY <2>3, <2>4, <2>5, <2>6, <2>7, <2>8, <2>9
<1> HIDE DEF n, a, b
<1>3. \A k \in i + 1 .. n : b[k - i] = o[k] /\ k - i \in 1 .. n - i
  <2> TAKE k \in i + 1 .. n
  <2>1. k - i \in 1 .. n - i /\ i + (k - i) = k
    BY <1>1
  <2> QED  BY <1>2, <2>1
<1>4. \A k \in 1 .. n - i : i + k \in i + 1 .. n
  BY <1>1
<1> DEFINE Stop(x, y) == \E k \in x .. y : o[k] = "XOFF" /\ \A j \in k + 1 .. y : o[j] # "XON"
           Never(x, y) == \A k \in x .. y : o[k] # "XON"
<1>5. Pauses(p, a) <=> Stop(1, i) \/ (p /\ Never(1, i))
  BY <1>2 DEF Pauses
<1>6. (\A k \in DOMAIN b : b[k] # "XON") <=> Never(i + 1, n)
  BY <1>2, <1>3, <1>4
<1>7. (\E k \in DOMAIN b : b[k] = "XOFF" /\ \A j \in k + 1 .. Len(b) : b[j] # "XON") <=> Stop(i + 1, n)
  <2>1. ASSUME NEW k \in DOMAIN b, b[k] = "XOFF", \A j \in k + 1 .. Len(b) : b[j] # "XON"
        PROVE  Stop(i + 1, n)
    <3>1. k \in 1 .. n - i /\ i + k \in i + 1 .. n /\ o[i + k] = "XOFF"
      BY <1>2, <1>4, <2>1
    <3>2. ASSUME NEW j \in (i + k) + 1 .. n PROVE o[j] # "XON"
      <4>1. j \in i + 1 .. n /\ j - i \in k + 1 .. Len(b)
        BY <1>1, <1>2, <3>1
      <4> QED  BY <1>3, <2>1, <4>1
    <3> QED  BY <3>1, <3>2
  <2>2. ASSUME NEW k \in i + 1 .. n, o[k] = "XOFF", \A j \in k + 1 .. n : o[j] # "XON"
        PROVE  \E l \in DOMAIN b : b[l] = "XOFF" /\ \A j \in l + 1 .. Len(b) : b[j] # "XON"
    <3>1. k - i \in DOMAIN b /\ b[k - i] = "XOFF"
      BY <1>2, <1>3, <2>2
    <3>2. ASSUME NEW j \in (k - i) + 1 .. Len(b) PROVE b[j] # "XON"
      <4>1. j \in 1 .. n - i /\ i + j \in k + 1 .. n
        BY <1>1, <1>2, <3>1
      <4> QED  BY <1>2, <2>2, <4>1
    <3> QED  BY <3>1, <3>2
  <2> QED  BY <2>1, <2>2
<1>8. Pauses(Pauses(p, a), b) <=> Stop(i + 1, n) \/ (Pauses(p, a) /\ Never(i + 1, n))
  <2>1. \A q \in BOOLEAN : Pauses(q, b) <=> Stop(i + 1, n) \/ (q /\ Never(i + 1, n))
    BY ONLY <1>6, <1>7, Zenon DEF Pauses
  <2>2. Pauses(p, a) \in BOOLEAN
    BY Zenon DEF Pauses
  <2> QED  BY ONLY <2>1, <2>2, Zenon
<1>9. Pauses(p, o) <=> Stop(1, n) \/ (p /\ Never(1, n))
  BY <1>1 DEF Pauses, n
<1>10. Never(1, n) <=> Never(1, i) /\ Never(i + 1, n)
  BY <1>1
<1>11. Stop(1, n) <=> Stop(i + 1, n) \/ (Stop(1, i) /\ Never(i + 1, n))
  <2>1. ASSUME Stop(1, n) PROVE Stop(i + 1, n) \/ (Stop(1, i) /\ Never(i + 1, n))
    <3>1. PICK k \in 1 .. n : o[k] = "XOFF" /\ \A j \in k + 1 .. n : o[j] # "XON"
      BY <2>1
    <3>2. CASE k > i
      BY <1>1, <3>1, <3>2
    <3>3. CASE k <= i
      BY <1>1, <3>1, <3>3
    <3> QED  BY <1>1, <3>1, <3>2, <3>3
  <2>2. ASSUME Stop(i + 1, n) PROVE Stop(1, n)
    BY <1>1, <2>2
  <2>3. ASSUME Stop(1, i), Never(i + 1, n) PROVE Stop(1, n)
    <3>1. PICK k \in 1 .. i : o[k] = "XOFF" /\ \A j \in k + 1 .. i : o[j] # "XON"
      BY <2>3
    <3>2. k \in 1 .. n /\ \A j \in k + 1 .. n : j \in k + 1 .. i \/ j \in i + 1 .. n
      BY <1>1
    <3> QED  BY <2>3, <3>1, <3>2
  <2> QED  BY <2>1, <2>2, <2>3
<1> HIDE DEF Stop, Never
<1>12. Pauses(Pauses(p, a), b) <=> Pauses(p, o)
  BY ONLY <1>5, <1>8, <1>9, <1>10, <1>11, Zenon
<1> QED  BY ONLY <1>12, Zenon DEF a, b, n

LEMMA OneAndTwo ==
    ASSUME NEW S, NEW a \in S, NEW b \in S
    PROVE  <<a>> \in Seq(S) /\ <<a, b>> \in Seq(S)
OBVIOUS

LEMMA AnswerFacts ==
    /\ Answer \in Seq(Symbol) /\ Len(Answer) = 2 /\ Answer[1] = "ESC [" /\ Answer[2] = "0 n"
    /\ <<"XOFF">> \in Seq(Symbol) /\ <<"XON">> \in Seq(Symbol)
<1>1. "ESC [" \in Symbol /\ "0 n" \in Symbol /\ "XOFF" \in Symbol /\ "XON" \in Symbol
  BY DEF Symbol
<1>2. Answer = <<"ESC [", "0 n">>
  BY DEF Answer
<1>3. Answer \in Seq(Symbol)
  BY <1>1, <1>2, OneAndTwo
<1>4. Len(Answer) = 2 /\ Answer[1] = "ESC [" /\ Answer[2] = "0 n"
  BY <1>2
<1>5. <<"XOFF">> \in Seq(Symbol) /\ <<"XON">> \in Seq(Symbol)
  BY <1>1, OneAndTwo
<1> QED  BY <1>3, <1>4, <1>5

\* Marks behind what is under way, and answers, which are no marks.
LEMMA PausesMore ==
    ASSUME NEW p \in BOOLEAN, NEW o \in Seq(Symbol)
    PROVE  /\ Pauses(p, << >>) <=> p
           /\ Pauses(p, o \o <<"XOFF">>) /\ ~Pauses(p, o \o <<"XON">>)
           /\ Pauses(p, o \o Answer) <=> Pauses(p, o)
<1> DEFINE n == Len(o)
<1>1. n \in Nat /\ DOMAIN o = 1 .. n
  OBVIOUS
<1>2. Pauses(p, << >>) <=> p
  BY DEF Pauses
<1>3. ASSUME NEW c \in Symbol
      PROVE  LET z == o \o <<c>> IN DOMAIN z = 1 .. n + 1 /\ Len(z) = n + 1 /\ z[n + 1] = c
  BY <1>1
<1>4. Pauses(p, o \o <<"XOFF">>)
  <2> DEFINE z == o \o <<"XOFF">>
  <2>1. DOMAIN z = 1 .. n + 1 /\ Len(z) = n + 1 /\ z[n + 1] = "XOFF"
    BY <1>3 DEF Symbol
  <2> HIDE DEF z, n
  <2>2. n + 1 \in DOMAIN z /\ \A j \in (n + 1) + 1 .. Len(z) : z[j] # "XON"
    BY <1>1, <2>1
  <2> QED  BY <2>1, <2>2 DEF Pauses, z
<1>5. ~Pauses(p, o \o <<"XON">>)
  <2> DEFINE z == o \o <<"XON">>
  <2>1. DOMAIN z = 1 .. n + 1 /\ Len(z) = n + 1 /\ z[n + 1] = "XON"
    BY <1>3 DEF Symbol
  <2> HIDE DEF z, n
  <2>2. ASSUME NEW k \in DOMAIN z, z[k] = "XOFF" PROVE n + 1 \in k + 1 .. Len(z)
    BY <1>1, <2>1, <2>2
  <2>3. n + 1 \in DOMAIN z
    BY <1>1, <2>1
  <2> QED  BY <2>1, <2>2, <2>3 DEF Pauses, z
<1>6. Pauses(p, o \o Answer) <=> Pauses(p, o)
  <2> DEFINE z == o \o Answer
  <2>1. z \in Seq(Symbol) /\ Len(z) = n + 2 /\ \A k \in 1 .. n : z[k] = o[k]
    <3>1. /\ z \in Seq(Symbol) /\ Len(z) = Len(o) + Len(Answer)
          /\ \A k \in 1 .. Len(o) + Len(Answer) : z[k] = IF k <= Len(o) THEN o[k] ELSE Answer[k - Len(o)]
      BY AnswerFacts, ConcatProperties
    <3> HIDE DEF z
    <3>2. Len(Answer) = 2
      BY AnswerFacts
    <3> QED  BY <1>1, <3>1, <3>2
  <2>2. z[n + 1] = "ESC [" /\ z[n + 2] = "0 n"
    <3>1. \A k \in 1 .. Len(o) + Len(Answer) : z[k] = IF k <= Len(o) THEN o[k] ELSE Answer[k - Len(o)]
      BY AnswerFacts, ConcatProperties
    <3> HIDE DEF z
    <3>2. Len(Answer) = 2 /\ Answer[1] = "ESC [" /\ Answer[2] = "0 n"
      BY AnswerFacts
    <3>3. (n + 1) - n = 1 /\ (n + 2) - n = 2 /\ ~(n + 1 <= n) /\ ~(n + 2 <= n)
      BY <1>1
    <3>4. n + 1 \in 1 .. n + 2 /\ n + 2 \in 1 .. n + 2
      BY <1>1
    <3>5. z[n + 1] = Answer[(n + 1) - n] /\ z[n + 2] = Answer[(n + 2) - n]
      BY <3>1, <3>2, <3>3, <3>4
    <3> QED  BY <3>2, <3>3, <3>5
  <2>3. SubSeq(z, 1, n) \in Seq(Symbol) /\ Len(SubSeq(z, 1, n)) = n
        /\ \A k \in 1 .. n : SubSeq(z, 1, n)[k] = z[k]
    <3> HIDE DEF z, n
    <3> QED  BY <1>1, <2>1
  <2>4. SubSeq(z, 1, n) = o
    <3> HIDE DEF z
    <3> QED  BY <1>1, <2>1, <2>3
  <2> DEFINE b == SubSeq(z, n + 1, Len(z))
  <2>5. DOMAIN b = 1 .. 2 /\ b[1] = "ESC [" /\ b[2] = "0 n"
    <3> HIDE DEF z, n
    <3>1. n + 1 \in Int /\ Len(z) \in Int /\ \A k \in n + 1 .. Len(z) : z[k] \in Symbol
      BY <1>1, <2>1
    <3>2. /\ b \in Seq(Symbol) /\ Len(b) = (IF n + 1 <= Len(z) THEN Len(z) - (n + 1) + 1 ELSE 0)
          /\ \A k \in 1 .. Len(z) - (n + 1) + 1 : b[k] = z[n + 1 + k - 1]
      BY <3>1, SubSeqProperties
    <3> HIDE DEF b
    <3>3. Len(z) - (n + 1) + 1 = 2 /\ n + 1 <= Len(z) /\ n + 1 + 1 - 1 = n + 1 /\ n + 1 + 2 - 1 = n + 2
      BY <1>1, <2>1
    <3>4. Len(b) = 2 /\ b[1] = z[n + 1] /\ b[2] = z[n + 2]
      BY <3>2, <3>3
    <3>5. DOMAIN b = 1 .. Len(b)
      BY <3>2, LenProperties
    <3> QED  BY <2>2, <3>4, <3>5
  <2>6. \A k \in DOMAIN b : b[k] # "XON" /\ b[k] # "XOFF"
    <3> HIDE DEF b
    <3>1. \A k \in 1 .. 2 : k = 1 \/ k = 2
      OBVIOUS
    <3>2. "ESC [" # "XON" /\ "ESC [" # "XOFF" /\ "0 n" # "XON" /\ "0 n" # "XOFF"
      OBVIOUS
    <3> QED  BY ONLY <2>5, <3>1, <3>2
  <2>7. Pauses(Pauses(p, o), b) <=> Pauses(p, z)
    <3>1. n \in 0 .. Len(z)
      BY <1>1, <2>1
    <3> HIDE DEF z, n
    <3> QED  BY <2>1, <2>4, <3>1, PausesInPieces
  <2>8. Pauses(p, o) \in BOOLEAN
    BY Zenon DEF Pauses
  <2> HIDE DEF b
  <2>9. \A q \in BOOLEAN : Pauses(q, b) <=> q
    BY ONLY <2>6, Zenon DEF Pauses
  <2> QED  BY ONLY <2>7, <2>8, <2>9, Zenon
<1> QED  BY <1>2, <1>4, <1>5, <1>6

-------------------------------------------------------------------------------
(* What is done to one session *)

Words == {"text", "dsr", "enq"}
Worlds ==
    [ring : [Hosts -> RingBuffer], queue : [Hosts -> Seq(Words)], xoff : [Hosts -> BOOLEAN],
     paused : [Hosts -> BOOLEAN], owed : [Hosts -> Seq(Symbol)], missed : SUBSET Hosts]

\* The part of the invariant that is about one host.
Lossless(w, s) == ~w.ring[s].overflow /\ s \notin w.missed
Meets(w, s) ==
    /\ s \notin Limited => ~w.xoff[s]
    /\ s # Foreground => \A k \in DOMAIN w.queue[s] : w.queue[s][k] # "enq"
    /\ Lossless(w, s) => /\ Contents(w.ring[s]) = w.owed[s]
                         /\ Pauses(w.paused[s], w.owed[s]) => w.xoff[s] /\ w.queue[s] # << >>

\* What is done to one session leaves the others alone.
Keeps(w, z, s) ==
    /\ z \in Worlds
    /\ \A t \in Hosts \ {s} :
          /\ z.ring[t] = w.ring[t] /\ z.queue[t] = w.queue[t] /\ z.xoff[t] = w.xoff[t]
          /\ z.paused[t] = w.paused[t] /\ z.owed[t] = w.owed[t] /\ (t \in z.missed <=> t \in w.missed)

LEMMA Elsewhere ==
    ASSUME NEW w, NEW z, NEW s, Keeps(w, z, s), NEW t \in Hosts \ {s}, Meets(w, t)
    PROVE  Meets(z, t)
BY DEF Keeps, Meets, Lossless

LEMMA KeepsOn ==
    ASSUME NEW w, NEW y, NEW z, NEW s, Keeps(w, y, s), Keeps(y, z, s)
    PROVE  Keeps(w, z, s)
BY DEF Keeps

LEMMA WorldFacts ==
    ASSUME NEW w \in Worlds, NEW s \in Hosts
    PROVE  /\ w.ring[s] \in RingBuffer /\ w.queue[s] \in Seq(Words) /\ w.xoff[s] \in BOOLEAN
           /\ w.paused[s] \in BOOLEAN /\ w.owed[s] \in Seq(Symbol) /\ w.missed \subseteq Hosts
           /\ Keeps(w, w, s)
BY DEF Worlds, Keeps

LEMMA WriteFacts ==
    ASSUME Room, NEW w \in Worlds, NEW s \in Hosts, NEW bytes \in Seq(Symbol)
    PROVE  LET z == Write(w, s, s, bytes)
           IN  /\ Keeps(w, z, s)
               /\ z.queue = w.queue /\ z.xoff = w.xoff /\ z.paused = w.paused
               /\ z.owed[s] = w.owed[s] \o bytes
               /\ Lossless(z, s) => Lossless(w, s)
               /\ Lossless(z, s) /\ Contents(w.ring[s]) = w.owed[s] => Contents(z.ring[s]) = z.owed[s]
<1> DEFINE z == Write(w, s, s, bytes)
           r == w.ring[s]
           q == Stuffed(r, bytes)
<1>1. r \in RingBuffer /\ w.owed[s] \in Seq(Symbol)
  BY WorldFacts
<1>2. /\ q \in RingBuffer /\ (r.overflow => q.overflow)
      /\ ~q.overflow => Contents(q) = Contents(r) \o bytes
  BY <1>1, StuffedFacts
<1>3. w.owed[s] \o bytes \in Seq(Symbol)
  BY <1>1, ConcatProperties
<1> HIDE DEF q
<1>4. z = [w EXCEPT !.ring[s] = q, !.owed[s] = @ \o bytes]
  BY DEF Write, q
<1>5. z \in Worlds
  <2> DEFINE rings == [w.ring EXCEPT ![s] = q]
             debts == [w.owed EXCEPT ![s] = @ \o bytes]
  <2>1. rings \in [Hosts -> RingBuffer] /\ debts \in [Hosts -> Seq(Symbol)]
    BY <1>2, <1>3 DEF Worlds
  <2>2. z = [w EXCEPT !.ring = rings, !.owed = debts]
    BY <1>4
  <2> HIDE DEF rings, debts, z
  <2> QED  BY <2>1, <2>2 DEF Worlds
<1>6. /\ z.queue = w.queue /\ z.xoff = w.xoff /\ z.paused = w.paused /\ z.missed = w.missed
      /\ z.ring[s] = q /\ z.owed[s] = w.owed[s] \o bytes
      /\ \A t \in Hosts \ {s} : z.ring[t] = w.ring[t] /\ z.owed[t] = w.owed[t]
  BY <1>4 DEF Worlds
<1> HIDE DEF z
<1>7. Keeps(w, z, s)
  BY <1>5, <1>6 DEF Keeps
<1>8. Lossless(z, s) => Lossless(w, s)
  BY <1>2, <1>6 DEF Lossless
<1>9. Lossless(z, s) /\ Contents(w.ring[s]) = w.owed[s] => Contents(z.ring[s]) = z.owed[s]
  BY <1>2, <1>6 DEF Lossless
<1> QED  BY <1>6, <1>7, <1>8, <1>9 DEF z

LEMMA DeliverFacts ==
    ASSUME NEW w \in Worlds, NEW s \in Hosts, NEW bytes \in Seq(Symbol)
    PROVE  LET z == Deliver(w, s, bytes)
           IN  /\ Keeps(w, z, s)
               /\ z.ring = w.ring /\ z.queue = w.queue /\ z.xoff = w.xoff /\ z.missed = w.missed
               /\ z.paused[s] = Pauses(w.paused[s], bytes)
               /\ z.owed[s] = IF IsPrefix(bytes, w.owed[s])
                              THEN SubSeq(w.owed[s], Len(bytes) + 1, Len(w.owed[s])) ELSE <<"wrong">>
<1> DEFINE z == Deliver(w, s, bytes)
           o == w.owed[s]
           rest == IF IsPrefix(bytes, o) THEN SubSeq(o, Len(bytes) + 1, Len(o)) ELSE <<"wrong">>
           p == Pauses(w.paused[s], bytes)
<1>1. o \in Seq(Symbol)
  BY WorldFacts
<1>2. rest \in Seq(Symbol)
  <2>1. "wrong" \in Symbol
    BY Zenon DEF Symbol
  <2>2. <<"wrong">> \in Seq(Symbol)
    BY <2>1, OneAndTwo
  <2>3. SubSeq(o, Len(bytes) + 1, Len(o)) \in Seq(Symbol)
    <3>1. Len(bytes) \in Nat /\ Len(o) \in Nat /\ \A k \in 1 .. Len(o) : o[k] \in Symbol
      BY <1>1
    <3> HIDE DEF o
    <3>2. \A k \in Len(bytes) + 1 .. Len(o) : o[k] \in Symbol
      BY <3>1
    <3>3. Len(bytes) + 1 \in Int
      BY <3>1
    <3> QED  BY <3>1, <3>2, <3>3, SubSeqProperties
  <2> QED  BY <2>2, <2>3
<1>3. p \in BOOLEAN
  BY Zenon DEF Pauses
<1> HIDE DEF rest, p
<1>4. z = [w EXCEPT !.paused[s] = p, !.owed[s] = rest]
  BY DEF Deliver, rest, p
<1>5. z \in Worlds
  <2> DEFINE told == [w.paused EXCEPT ![s] = p]
             debts == [w.owed EXCEPT ![s] = rest]
  <2>1. told \in [Hosts -> BOOLEAN] /\ debts \in [Hosts -> Seq(Symbol)]
    BY <1>2, <1>3 DEF Worlds
  <2>2. z = [w EXCEPT !.paused = told, !.owed = debts]
    BY <1>4
  <2> HIDE DEF told, debts, z
  <2> QED  BY <2>1, <2>2 DEF Worlds
<1>6. /\ z.ring = w.ring /\ z.queue = w.queue /\ z.xoff = w.xoff /\ z.missed = w.missed
      /\ z.paused[s] = p /\ z.owed[s] = rest
      /\ \A t \in Hosts \ {s} : z.paused[t] = w.paused[t] /\ z.owed[t] = w.owed[t]
  BY <1>4 DEF Worlds
<1> HIDE DEF z
<1>7. Keeps(w, z, s)
  BY <1>5, <1>6 DEF Keeps
<1> QED  BY <1>6, <1>7 DEF z, rest, p

\* The two pieces of what a ring holds.
LEMMA TwoPieces ==
    ASSUME Room, NEW r \in RingBuffer, r.head # r.tail
    PROVE  LET end == IF r.tail > r.head THEN r.tail ELSE OUTPUT_SIZE
               first == [k \in 1 .. end - r.head |-> r.data[r.head + k - 1]]
               second == IF r.tail > r.head THEN << >> ELSE [k \in 1 .. r.tail - 0 |-> r.data[0 + k - 1]]
               o == Contents(r)
           IN  /\ first \in Seq(Symbol) /\ second \in Seq(Symbol)
               /\ Len(first) \in 0 .. Len(o) /\ Len(second) = Len(o) - Len(first)
               /\ \A k \in 1 .. Len(first) : first[k] = o[k]
               /\ \A k \in 1 .. Len(second) : second[k] = o[Len(first) + k]
<1> DEFINE h == r.head
           t == r.tail
           end == IF t > h THEN t ELSE OUTPUT_SIZE
           first == [k \in 1 .. end - h |-> r.data[h + k - 1]]
           second == IF t > h THEN << >> ELSE [k \in 1 .. t - 0 |-> r.data[0 + k - 1]]
           o == Contents(r)
           f == Filled(h, t)
<1>1. /\ h \in Slot /\ t \in Slot /\ r.data \in [Slot -> Symbol]
      /\ o \in Seq(Symbol) /\ Len(o) = f /\ \A k \in 1 .. f : o[k] = r.data[Lies(h, k)]
  BY RingFacts
<1>2. /\ OUTPUT_SIZE \in Nat \ {0} /\ Slot = 0 .. OUTPUT_SIZE - 1
      /\ f = IF h <= t THEN t - h ELSE OUTPUT_SIZE - h + t
  BY DEF Room, Slot, Filled
<1> HIDE DEF f, o
<1>3. /\ end - h \in Nat /\ end - h <= f
      /\ \A k \in 1 .. end - h : h + k - 1 \in Slot /\ Lies(h, k) = h + k - 1 /\ k \in 1 .. f
  <2>1. h \in 0 .. OUTPUT_SIZE - 1 /\ t \in 0 .. OUTPUT_SIZE - 1
    BY <1>1, <1>2
  <2>2. \A k \in Int : Lies(h, k) = IF h + k - 1 < OUTPUT_SIZE THEN h + k - 1 ELSE h + k - 1 - OUTPUT_SIZE
    BY DEF Lies
  <2>3. /\ end \in 0 .. OUTPUT_SIZE /\ h < end /\ end - h <= f /\ f \in Int
    BY ONLY <1>2, <2>1, r.head # r.tail
  <2> HIDE DEF h, t, end
  <2> QED  BY ONLY <1>2, <2>1, <2>2, <2>3
<1>4. first \in Seq(Symbol) /\ Len(first) = end - h /\ \A k \in 1 .. end - h : first[k] = o[k]
  <2>1. \A k \in 1 .. end - h : r.data[h + k - 1] \in Symbol
    BY <1>1, <1>3
  <2>2. first \in Seq(Symbol) /\ Len(first) = end - h
    <3> DEFINE m == end - h
    <3>1. m \in Nat /\ \A k \in 1 .. m : r.data[h + k - 1] \in Symbol
      BY <1>3, <2>1
    <3> HIDE DEF m
    <3>2. LET q == [k \in 1 .. m |-> r.data[h + k - 1]] IN q \in Seq(Symbol) /\ Len(q) = m
      BY ONLY <3>1
    <3> QED  BY <3>2 DEF m
  <2>3. \A k \in 1 .. end - h : first[k] = r.data[h + k - 1]
    OBVIOUS
  <2> HIDE DEF first, end
  <2> QED  BY <1>1, <1>3, <2>2, <2>3
<1>5. /\ second \in Seq(Symbol) /\ Len(second) = f - (end - h)
      /\ \A k \in 1 .. f - (end - h) : second[k] = o[(end - h) + k]
  <2>1. CASE t > h
    <3>1. second = << >> /\ f - (end - h) = 0
      BY <1>1, <1>2, <2>1
    <3>2. << >> \in Seq(Symbol) /\ Len(<< >>) = 0
      BY EmptySeq
    <3>3. 1 .. 0 = {}
      OBVIOUS
    <3> HIDE DEF second, f, end
    <3> QED  BY <3>1, <3>2, <3>3
  <2>2. CASE ~(t > h)
    <3>1. t < h /\ f - (end - h) = t /\ t - 0 = t
      BY <1>1, <1>2, <2>2
    <3>2. second = [k \in 1 .. t |-> r.data[0 + k - 1]]
      BY <2>2, <3>1
    <3>3. \A k \in 1 .. t : /\ 0 + k - 1 \in Slot /\ (end - h) + k \in 1 .. f
                            /\ Lies(h, (end - h) + k) = 0 + k - 1
      <4>1. end = OUTPUT_SIZE
        BY <2>2
      <4> HIDE DEF end
      <4>2. h \in Int /\ t \in Int /\ OUTPUT_SIZE \in Int
        BY <1>2, <1>1
      <4> TAKE k \in 1 .. t
      <4>3. 0 + k - 1 \in Slot
        BY <1>1, <1>2, <4>2
      <4>4. (end - h) + k \in 1 .. f
        BY <1>1, <1>2, <3>1, <4>1, <4>2
      <4>5. h + ((end - h) + k) - 1 = OUTPUT_SIZE + k - 1 /\ ~(OUTPUT_SIZE + k - 1 < OUTPUT_SIZE)
            /\ OUTPUT_SIZE + k - 1 - OUTPUT_SIZE = 0 + k - 1
        BY <4>1, <4>2
      <4>6. Lies(h, (end - h) + k) = 0 + k - 1
        BY <4>1, <4>2, <4>4, <4>5 DEF Lies
      <4> QED  BY <4>3, <4>4, <4>6
    <3>4. t \in Nat /\ \A k \in 1 .. t : r.data[0 + k - 1] \in Symbol
      <4>1. t \in Nat
        BY <1>1, <1>2
      <4> QED  BY <1>1, <3>3, <4>1
    <3> HIDE DEF second, end
    <3>5. second \in Seq(Symbol) /\ Len(second) = t
      BY <3>2, <3>4
    <3>6. \A k \in 1 .. t : second[k] = r.data[0 + k - 1]
      BY <3>2
    <3>7. \A k \in 1 .. t : second[k] = o[(end - h) + k]
      BY <1>1, <3>3, <3>6
    <3> QED  BY <3>1, <3>5, <3>7
  <2> QED  BY <2>1, <2>2
<1> HIDE DEF first, second, end
<1>6. /\ first \in Seq(Symbol) /\ second \in Seq(Symbol)
      /\ Len(first) \in 0 .. Len(o) /\ Len(second) = Len(o) - Len(first)
      /\ \A k \in 1 .. Len(first) : first[k] = o[k]
      /\ \A k \in 1 .. Len(second) : second[k] = o[Len(first) + k]
  BY <1>1, <1>2, <1>3, <1>4, <1>5
<1> QED  BY <1>6 DEF first, second, end, o, h, t

LEMMA FlushFacts ==
    ASSUME Room, NEW w \in Worlds, NEW s \in Hosts, NEW taken \in BOOLEAN, Meets(w, s)
    PROVE  Keeps(w, Flush(w, s, taken), s) /\ Meets(Flush(w, s, taken), s)
<1> DEFINE r == w.ring[s]
           o == w.owed[s]
           p == w.paused[s]
           cells(from, to) == [k \in 1 .. to - from |-> r.data[from + k - 1]]
           end == IF r.tail > r.head THEN r.tail ELSE OUTPUT_SIZE
           first == cells(r.head, end)
           second == IF r.tail > r.head THEN << >> ELSE cells(0, r.tail)
           y1 == Deliver(w, s, first)
           y2 == Deliver(y1, s, second)
           told == IF taken THEN y2 ELSE [w EXCEPT !.missed = @ \cup {s}]
           z == Flush(w, s, taken)
           i == Len(first)
           n == Len(o)
<1>1. /\ r \in RingBuffer /\ r.head \in Slot /\ r.tail \in Slot /\ o \in Seq(Symbol) /\ p \in BOOLEAN
      /\ Keeps(w, w, s)
  BY WorldFacts, RingFacts
<1>2. z = IF r.head = r.tail THEN w ELSE [told EXCEPT !.ring[s].head = r.tail]
  BY DEF Flush
<1>3. CASE r.head = r.tail
  BY <1>1, <1>2, <1>3
<1>4. CASE r.head # r.tail /\ ~taken
  <2>1. z = [w EXCEPT !.missed = @ \cup {s}, !.ring[s].head = r.tail]
    BY <1>2, <1>4
  <2> DEFINE q == [r EXCEPT !.head = r.tail]
             rings == [w.ring EXCEPT ![s] = q]
  <2>2. q \in RingBuffer
    BY <1>1 DEF RingBuffer
  <2> HIDE DEF q
  <2>3. rings \in [Hosts -> RingBuffer] /\ \A t \in Hosts \ {s} : rings[t] = w.ring[t]
    BY <2>2 DEF Worlds
  <2>4. z = [w EXCEPT !.missed = @ \cup {s}, !.ring = rings]
    BY <2>1 DEF q
  <2> HIDE DEF z, rings
  <2>5. /\ z.ring = rings /\ z.queue = w.queue /\ z.xoff = w.xoff /\ z.paused = w.paused
        /\ z.owed = w.owed /\ z.missed = w.missed \cup {s} /\ z \in Worlds
    BY <2>3, <2>4 DEF Worlds
  <2>6. Keeps(w, z, s)
    BY <2>3, <2>5 DEF Keeps
  <2>7. Meets(z, s)
    BY <2>5 DEF Meets, Lossless
  <2> QED  BY <2>6, <2>7 DEF z
<1>5. CASE r.head # r.tail /\ taken
  <2>1. LET c == Contents(r)
        IN  /\ first \in Seq(Symbol) /\ second \in Seq(Symbol)
            /\ i \in 0 .. Len(c) /\ Len(second) = Len(c) - i
            /\ \A k \in 1 .. i : first[k] = c[k]
            /\ \A k \in 1 .. Len(second) : second[k] = c[i + k]
    BY <1>1, <1>5, TwoPieces
  <2> HIDE DEF first, second
  <2>2. /\ Keeps(w, y1, s)
        /\ y1.ring = w.ring /\ y1.queue = w.queue /\ y1.xoff = w.xoff /\ y1.missed = w.missed
        /\ y1.paused[s] = Pauses(p, first)
        /\ y1.owed[s] = IF IsPrefix(first, o) THEN SubSeq(o, i + 1, n) ELSE <<"wrong">>
    BY <2>1, DeliverFacts
  <2> HIDE DEF y1
  <2>3. /\ Keeps(y1, y2, s)
        /\ y2.ring = w.ring /\ y2.queue = w.queue /\ y2.xoff = w.xoff /\ y2.missed = w.missed
        /\ y2.paused[s] = Pauses(y1.paused[s], second)
        /\ y2.owed[s] = IF IsPrefix(second, y1.owed[s])
                        THEN SubSeq(y1.owed[s], Len(second) + 1, Len(y1.owed[s])) ELSE <<"wrong">>
    <3>1. y1 \in Worlds
      BY <2>2 DEF Keeps
    <3> QED  BY ONLY <2>1, <2>2, <3>1, s \in Hosts, DeliverFacts
  <2> HIDE DEF y2
  <2>4. Keeps(w, y2, s) /\ y2 \in Worlds
    BY <2>2, <2>3, KeepsOn DEF Keeps
  <2> DEFINE q == [r EXCEPT !.head = r.tail]
             rings == [w.ring EXCEPT ![s] = q]
  <2>5. z = [y2 EXCEPT !.ring[s].head = r.tail]
    BY <1>2, <1>5
  <2>6. q \in RingBuffer /\ q.head = q.tail /\ q.overflow = r.overflow
    BY <1>1 DEF RingBuffer
  <2>7. z = [y2 EXCEPT !.ring = rings]
    BY <2>3, <2>5
  <2> HIDE DEF q
  <2>8. rings \in [Hosts -> RingBuffer] /\ rings[s] = q /\ \A t \in Hosts \ {s} : rings[t] = w.ring[t]
    BY <2>6 DEF Worlds
  <2> HIDE DEF z, rings
  <2>9. /\ z.ring = rings /\ z.queue = w.queue /\ z.xoff = w.xoff /\ z.paused = y2.paused
        /\ z.owed = y2.owed /\ z.missed = w.missed /\ z \in Worlds
    BY <2>3, <2>4, <2>7, <2>8 DEF Worlds
  <2>10. Keeps(w, z, s)
    BY <2>4, <2>8, <2>9 DEF Keeps
  <2>11. Contents(q) = << >>
    <3>1. Len(Contents(q)) = Filled(q.head, q.tail) /\ Contents(q) \in Seq(Symbol) /\ q.head \in Slot
      BY <2>6, RingFacts
    <3>2. Filled(q.head, q.tail) = 0
      BY <2>6, <3>1 DEF Filled, Slot
    <3> QED  BY <3>1, <3>2, EmptySeq
  <2>12. ASSUME Lossless(z, s)
         PROVE  /\ Contents(z.ring[s]) = z.owed[s]
                /\ Pauses(z.paused[s], z.owed[s]) => z.xoff[s] /\ z.queue[s] # << >>
    <3>1. Lossless(w, s)
      BY <2>6, <2>8, <2>9, <2>12 DEF Lossless
    <3>2. Contents(r) = o /\ (Pauses(p, o) => w.xoff[s] /\ w.queue[s] # << >>)
      BY <3>1 DEF Meets
    <3>3. n \in Nat /\ i \in 0 .. n /\ Len(second) = n - i
      BY <1>1, <2>1, <3>2
    <3>4. \A k \in 1 .. n : o[k] \in Symbol
      BY <1>1
    <3> DEFINE front == SubSeq(o, 1, i)
               back == SubSeq(o, i + 1, n)
    <3>5. /\ front \in Seq(Symbol) /\ Len(front) = i /\ \A k \in 1 .. i : front[k] = o[k]
          /\ back \in Seq(Symbol) /\ Len(back) = n - i /\ \A k \in 1 .. n - i : back[k] = o[i + k]
      <4> HIDE DEF o, n, i
      <4>1. \A k \in 1 .. i : o[k] \in Symbol
        BY <3>3, <3>4
      <4>2. \A k \in i + 1 .. n : o[k] \in Symbol
        BY <3>3, <3>4
      <4>3. /\ front \in Seq(Symbol) /\ Len(front) = (IF 1 <= i THEN i - 1 + 1 ELSE 0)
            /\ \A k \in 1 .. i - 1 + 1 : front[k] = o[1 + k - 1]
        BY <3>3, <4>1, SubSeqProperties
      <4>4. /\ back \in Seq(Symbol) /\ Len(back) = (IF i + 1 <= n THEN n - (i + 1) + 1 ELSE 0)
            /\ \A k \in 1 .. n - (i + 1) + 1 : back[k] = o[i + 1 + k - 1]
        BY <3>3, <4>2, SubSeqProperties
      <4> HIDE DEF front, back
      <4>5. i - 1 + 1 = i /\ n - (i + 1) + 1 = n - i
        BY <3>3
      <4>6. \A k \in 1 .. n - i : i + 1 + k - 1 = i + k
        BY <3>3
      <4>7. \A k \in 1 .. i : 1 + k - 1 = k
        BY <3>3
      <4>8. Len(front) = i /\ Len(back) = n - i
        BY <3>3, <4>3, <4>4
      <4> QED  BY <4>3, <4>4, <4>5, <4>6, <4>7, <4>8
    <3> HIDE DEF front, back
    <3>6. first = front /\ second = back
      <4>1. \A k \in 1 .. i : first[k] = o[k]
        BY <2>1, <3>2
      <4>2. \A k \in 1 .. n - i : second[k] = o[i + k]
        BY <2>1, <3>2, <3>3
      <4>3. first \in Seq(Symbol) /\ second \in Seq(Symbol)
        BY <2>1
      <4>4. first = front
        <5> HIDE DEF o
        <5>1. Len(first) = Len(front) /\ \A k \in 1 .. Len(first) : first[k] = front[k]
          BY ONLY <3>5, <4>1
        <5> QED  BY ONLY <3>5, <4>3, <5>1, SeqEqual
      <4>5. second = back
        <5> HIDE DEF o, n, i
        <5>1. Len(second) = Len(back) /\ \A k \in 1 .. Len(second) : second[k] = back[k]
          BY ONLY <3>3, <3>5, <4>2
        <5> QED  BY ONLY <3>5, <4>3, <5>1, SeqEqual
      <4> QED  BY <4>4, <4>5
    <3>7. IsPrefix(first, o)
      <4>1. SubSeq(front, 1, Len(front)) = front
        BY <3>5, <3>3
      <4>2. i <= n
        BY <3>3
      <4> QED  BY <3>5, <3>6, <4>1, <4>2 DEF IsPrefix, front
    <3>8. y1.owed[s] = second
      BY <2>2, <3>6, <3>7 DEF back
    <3>9. y2.owed[s] = << >>
      <4>1. IsPrefix(second, second)
        BY <3>3 DEF IsPrefix
      <4>2. SubSeq(second, Len(second) + 1, Len(second)) = << >>
        BY <3>3, SubSeqEmpty
      <4> QED  BY <2>3, <3>8, <4>1, <4>2
    <3>10. y2.paused[s] <=> Pauses(p, o)
      <4>1. Pauses(Pauses(p, front), back) <=> Pauses(p, o)
        BY <1>1, <3>3, PausesInPieces DEF front, back
      <4> QED  BY <2>2, <2>3, <3>6, <4>1
    <3>11. y2.paused[s] \in BOOLEAN
      BY <2>4, WorldFacts
    <3>12. Pauses(y2.paused[s], << >>) <=> y2.paused[s]
      BY ONLY <3>11, EmptySeq, PausesMore
    <3> QED  BY <2>8, <2>9, <2>11, <3>2, <3>9, <3>10, <3>12
  <2>13. Meets(z, s)
    BY <2>9, <2>12 DEF Meets
  <2> QED  BY <2>10, <2>13 DEF z
<1> QED  BY <1>3, <1>4, <1>5

-------------------------------------------------------------------------------
(* What a frame does *)

LEMMA FlowFacts ==
    ASSUME Room, Rates, Conversation, NEW w \in Worlds, NEW s \in Hosts, Meets(w, s), w.queue[s] # << >>
    PROVE  LET z == FlowControl(w, s)
           IN  /\ Keeps(w, z, s) /\ Meets(z, s) /\ z.queue = w.queue
               /\ Lossless(z, s) /\ Pauses(z.paused[s], z.owed[s])
                    => ~(Usage(Len(w.queue[s])) < 25)
<1> DEFINE u == Usage(Len(w.queue[s]))
           off == Write(w, s, s, <<"XOFF">>)
           on == Write(w, s, s, <<"XON">>)
           z == FlowControl(w, s)
<1>1. /\ w.ring[s] \in RingBuffer /\ w.paused[s] \in BOOLEAN /\ w.owed[s] \in Seq(Symbol)
      /\ w.xoff[s] \in BOOLEAN /\ Keeps(w, w, s)
  BY WorldFacts
<1>2. ASSUME NEW c \in {"XOFF", "XON"}, NEW v \in BOOLEAN, s \in Limited
      PROVE  LET y == Write(w, s, s, <<c>>)
                 x == [y EXCEPT !.xoff[s] = v]
             IN  /\ Keeps(w, x, s) /\ x.queue = w.queue /\ x.xoff[s] = v
                 /\ x.paused = w.paused /\ x.owed[s] = w.owed[s] \o <<c>>
                 /\ Lossless(x, s) => Lossless(w, s) /\ Contents(x.ring[s]) = x.owed[s]
  <2> DEFINE y == Write(w, s, s, <<c>>)
             x == [y EXCEPT !.xoff[s] = v]
             offs == [w.xoff EXCEPT ![s] = v]
  <2>0. <<c>> \in Seq(Symbol)
    BY <1>2, AnswerFacts, Zenon
  <2>1. /\ Keeps(w, y, s)
        /\ y.queue = w.queue /\ y.xoff = w.xoff /\ y.paused = w.paused
        /\ y.owed[s] = w.owed[s] \o <<c>>
        /\ Lossless(y, s) => Lossless(w, s)
        /\ Lossless(y, s) /\ Contents(w.ring[s]) = w.owed[s] => Contents(y.ring[s]) = y.owed[s]
    BY <2>0, WriteFacts
  <2> HIDE DEF y
  <2>2. y \in Worlds
    BY <2>1 DEF Keeps
  <2>3. x = [y EXCEPT !.xoff = offs]
    BY <2>1
  <2>4. offs \in [Hosts -> BOOLEAN] /\ offs[s] = v /\ \A t \in Hosts \ {s} : offs[t] = w.xoff[t]
    BY DEF Worlds
  <2> HIDE DEF offs, x
  <2>5. /\ x.ring = y.ring /\ x.queue = y.queue /\ x.xoff = offs /\ x.paused = y.paused
        /\ x.owed = y.owed /\ x.missed = y.missed /\ x \in Worlds
    BY <2>2, <2>3, <2>4 DEF Worlds
  <2>6. Keeps(w, x, s)
    BY <2>1, <2>4, <2>5 DEF Keeps
  <2>7. Lossless(x, s) => Lossless(w, s) /\ Contents(x.ring[s]) = x.owed[s]
    BY <2>1, <2>5 DEF Lossless, Meets
  <2> QED  BY <2>1, <2>4, <2>5, <2>6, <2>7 DEF x, y
<1>3. s \in Limited => s = Foreground
  BY DEF Conversation
<1>4. CASE s \notin Limited
  <2>1. z = w
    BY <1>4 DEF FlowControl
  <2>2. ~w.xoff[s]
    BY <1>4 DEF Meets
  <2> QED  BY <1>1, <2>1, <2>2 DEF Meets
<1>5. CASE s \in Limited /\ u > 75 /\ ~w.xoff[s]
  <2>1. z = [off EXCEPT !.xoff[s] = TRUE]
    BY <1>3, <1>5 DEF FlowControl
  <2>2. /\ Keeps(w, z, s) /\ z.queue = w.queue /\ z.xoff[s] = TRUE
        /\ Lossless(z, s) => Contents(z.ring[s]) = z.owed[s]
    BY <1>2, <1>5, <2>1
  <2>3. Meets(z, s)
    BY <1>5, <2>2 DEF Meets
  <2>4. ~(u < 25)
    <3>1. Len(w.queue[s]) \in Nat /\ INPUT_SIZE \in Nat \ {0}
      <4>1. w.queue[s] \in Seq(Words)
        BY WorldFacts
      <4> QED  BY <4>1, LenProperties DEF Rates
    <3>2. u \in Int
      BY <3>1 DEF Usage
    <3> HIDE DEF u
    <3> QED  BY <1>5, <3>2
  <2> HIDE DEF z, u
  <2> QED  BY <2>2, <2>3, <2>4 DEF z, u
<1>6. CASE s \in Limited /\ ~(u > 75 /\ ~w.xoff[s]) /\ u < 25 /\ w.xoff[s]
  <2>1. z = [on EXCEPT !.xoff[s] = FALSE]
    BY <1>3, <1>6 DEF FlowControl
  <2>2. /\ Keeps(w, z, s) /\ z.queue = w.queue /\ z.paused = w.paused /\ z.owed[s] = w.owed[s] \o <<"XON">>
        /\ Lossless(z, s) => Contents(z.ring[s]) = z.owed[s]
    BY <1>2, <1>6, <2>1
  <2> HIDE DEF z, u
  <2>3. ~Pauses(z.paused[s], z.owed[s])
    BY <1>1, <2>2, PausesMore
  <2>4. Meets(z, s)
    BY <1>6, <2>2, <2>3 DEF Meets
  <2> QED  BY <2>2, <2>3, <2>4 DEF z, u
<1>7. CASE s \in Limited /\ ~(u > 75 /\ ~w.xoff[s]) /\ ~(u < 25 /\ w.xoff[s])
  <2>1. z = w
    BY <1>7 DEF FlowControl
  <2>2. Lossless(w, s) /\ Pauses(w.paused[s], w.owed[s]) => ~(u < 25)
    BY <1>7 DEF Meets
  <2> QED  BY <1>1, <2>1, <2>2
<1> QED  BY <1>4, <1>5, <1>6, <1>7

\* The bytes of a frame leave the queue, but not all of them while the host is paused.
LEMMA PopFacts ==
    ASSUME Rates, NEW w \in Worlds, NEW s \in Hosts, Meets(w, s), w.queue[s] # << >>,
           Lossless(w, s) /\ Pauses(w.paused[s], w.owed[s]) => ~(Usage(Len(w.queue[s])) < 25)
    PROVE  LET n == Quota(Len(w.queue[s]))
               z == [w EXCEPT !.queue[s] = SubSeq(@, n + 1, Len(@))]
           IN  /\ Keeps(w, z, s) /\ Meets(z, s) /\ n \in Nat
               /\ SubSeq(w.queue[s], 1, n) \in Seq(Words)
               /\ s # Foreground => \A k \in 1 .. Len(SubSeq(w.queue[s], 1, n)) :
                                       SubSeq(w.queue[s], 1, n)[k] # "enq"
<1> DEFINE q == w.queue[s]
           len == Len(q)
           n == Quota(len)
           rest == SubSeq(q, n + 1, len)
           front == SubSeq(q, 1, n)
           z == [w EXCEPT !.queue[s] = SubSeq(@, n + 1, Len(@))]
<1>1. q \in Seq(Words) /\ len \in Nat \ {0} /\ \A k \in 1 .. len : q[k] \in Words
  BY WorldFacts, EmptySeq
<1>2. n \in 0 .. len
  <2>1. CHARS \in Nat /\ BURST \in Nat
    BY DEF Rates
  <2> HIDE DEF len
  <2> QED  BY <1>1, <2>1 DEF Quota
<1>3. Usage(len) \in Int
  <2>1. INPUT_SIZE \in Nat \ {0}
    BY DEF Rates
  <2> HIDE DEF len
  <2> QED  BY <1>1, <2>1 DEF Usage
<1>4. ~(Usage(len) < 25) => n < len
  <2>1. \A m \in Nat : Usage(m) >= 25 => Quota(m) < m
    BY DEF Rates
  <2> HIDE DEF len
  <2> QED  BY <1>1, <1>3, <2>1
<1> HIDE DEF n
<1>5. /\ rest \in Seq(Words) /\ Len(rest) = len - n
      /\ \A k \in 1 .. len - n : rest[k] = q[n + k]
  <2> HIDE DEF q, len
  <2>1. \A k \in n + 1 .. len : q[k] \in Words
    BY <1>1, <1>2
  <2>2. /\ rest \in Seq(Words) /\ Len(rest) = (IF n + 1 <= len THEN len - (n + 1) + 1 ELSE 0)
        /\ \A k \in 1 .. len - (n + 1) + 1 : rest[k] = q[n + 1 + k - 1]
    BY <1>1, <1>2, <2>1, SubSeqProperties
  <2> HIDE DEF rest
  <2>3. len - (n + 1) + 1 = len - n /\ \A k \in 1 .. len - n : n + 1 + k - 1 = n + k
    BY <1>1, <1>2
  <2>4. Len(rest) = len - n
    BY <1>1, <1>2, <2>2
  <2> QED  BY <2>2, <2>3, <2>4
<1>6. /\ front \in Seq(Words) /\ Len(front) = n
      /\ \A k \in 1 .. n : front[k] = q[k]
  <2> HIDE DEF q, len
  <2>1. \A k \in 1 .. n : q[k] \in Words
    BY <1>1, <1>2
  <2>2. /\ front \in Seq(Words) /\ Len(front) = (IF 1 <= n THEN n - 1 + 1 ELSE 0)
        /\ \A k \in 1 .. n - 1 + 1 : front[k] = q[1 + k - 1]
    BY <1>1, <1>2, <2>1, SubSeqProperties
  <2> HIDE DEF front
  <2>3. n - 1 + 1 = n /\ \A k \in 1 .. n : 1 + k - 1 = k
    BY <1>1, <1>2
  <2>4. Len(front) = n
    BY <1>1, <1>2, <2>2
  <2> QED  BY <2>2, <2>3, <2>4
<1> HIDE DEF rest, front
<1> DEFINE queues == [w.queue EXCEPT ![s] = rest]
<1>7. queues \in [Hosts -> Seq(Words)] /\ queues[s] = rest /\ \A t \in Hosts \ {s} : queues[t] = w.queue[t]
  BY <1>5 DEF Worlds
<1>8. z = [w EXCEPT !.queue = queues]
  BY DEF rest
<1> HIDE DEF queues, z
<1>9. /\ z.ring = w.ring /\ z.queue = queues /\ z.xoff = w.xoff /\ z.paused = w.paused
      /\ z.owed = w.owed /\ z.missed = w.missed /\ z \in Worlds
  BY <1>7, <1>8 DEF Worlds
<1>10. Keeps(w, z, s)
  BY <1>7, <1>9 DEF Keeps
<1>11. s # Foreground => \A k \in 1 .. len : q[k] # "enq"
  BY <1>1, LenProperties DEF Meets
<1>12. s # Foreground => \A k \in DOMAIN rest : rest[k] # "enq"
  <2>1. DOMAIN rest = 1 .. len - n /\ \A k \in 1 .. len - n : n + k \in 1 .. len
    <3> HIDE DEF len
    <3> QED  BY <1>1, <1>2, <1>5
  <2> QED  BY <1>5, <1>11, <2>1
<1>13. s # Foreground => \A k \in 1 .. Len(front) : front[k] # "enq"
  <2>1. \A k \in 1 .. n : k \in 1 .. len
    <3> HIDE DEF len
    <3> QED  BY <1>1, <1>2
  <2> QED  BY <1>6, <1>11, <2>1
<1>14. n < len => rest # << >>
  <2>1. Len(rest) = len - n
    BY <1>5
  <2> HIDE DEF len
  <2>2. n < len => Len(rest) # 0
    BY <1>1, <1>2, <2>1
  <2> QED  BY <2>2, EmptySeq
<1>15. Meets(z, s)
  BY <1>4, <1>7, <1>9, <1>12, <1>14 DEF Meets, Lossless
<1> QED  BY <1>2, <1>6, <1>10, <1>13, <1>15 DEF n, z, front

\* An answer is as much as the host is owed.
LEMMA ProcessFacts ==
    ASSUME Room, NEW w \in Worlds, NEW s \in Hosts, Meets(w, s), NEW c \in Words,
           s # Foreground => c # "enq"
    PROVE  Keeps(w, Process(w, s, c), s) /\ Meets(Process(w, s, c), s)
<1>1. /\ w.paused[s] \in BOOLEAN /\ w.owed[s] \in Seq(Symbol) /\ Keeps(w, w, s)
  BY WorldFacts
<1>2. CASE c = "text"
  BY <1>1, <1>2 DEF Process
<1>3. CASE c # "text"
  <2> DEFINE z == Write(w, s, s, Answer)
  <2>1. Process(w, s, c) = z
    BY <1>3 DEF Process, Words
  <2>2. /\ Keeps(w, z, s)
        /\ z.queue = w.queue /\ z.xoff = w.xoff /\ z.paused = w.paused
        /\ z.owed[s] = w.owed[s] \o Answer
        /\ Lossless(z, s) => Lossless(w, s)
        /\ Lossless(z, s) /\ Contents(w.ring[s]) = w.owed[s] => Contents(z.ring[s]) = z.owed[s]
    <3>1. Answer \in Seq(Symbol)
      BY AnswerFacts, Zenon
    <3> QED  BY ONLY Room, w \in Worlds, s \in Hosts, <3>1, WriteFacts
  <2> HIDE DEF z
  <2>3. Pauses(z.paused[s], z.owed[s]) <=> Pauses(w.paused[s], w.owed[s])
    BY <1>1, <2>2, PausesMore
  <2>4. Meets(z, s)
    BY <2>2, <2>3 DEF Meets
  <2> QED  BY <2>1, <2>2, <2>4
<1> QED  BY <1>2, <1>3

Answered(y, s, bytes) == FoldLeft(LAMBDA x, c : Process(x, s, c), y, bytes)

\* Byte after byte: the recursion of FoldLeft, as in SessionsTrail.
LEMMA AnsweringFacts ==
    ASSUME Room, NEW y \in Worlds, NEW s \in Hosts, Meets(y, s), NEW bytes \in Seq(Words),
           s # Foreground => \A k \in 1 .. Len(bytes) : bytes[k] # "enq"
    PROVE  Keeps(y, Answered(y, s, bytes), s) /\ Meets(Answered(y, s, bytes), s)
<1> DEFINE X == {x \in Worlds : Keeps(y, x, s) /\ Meets(x, s)}
           n == Len(bytes)
           step == [p \in X \X (1 .. n) |-> Process(p[1], s, bytes[p[2]])]
           Is(F) == F = [S \in SUBSET (1 .. n) |->
                           IF S = {} THEN y ELSE LET k == CHOOSE x \in S : \A z \in S : x >= z
                                                 IN  Process(F[S \ {k}], s, bytes[k])]
           G == CHOOSE F : Is(F)
           z == Answered(y, s, bytes)
<1>1. n \in Nat /\ DOMAIN bytes = 1 .. n /\ \A k \in 1 .. n : bytes[k] \in Words
  BY LenProperties
<1>2. z = G[1 .. n]
  BY <1>1 DEF Answered, FoldLeft, MapThenFoldSet, Max
<1> HIDE DEF z, n
<1>3. y \in X
  BY WorldFacts
<1>4. ASSUME NEW x \in X, NEW k \in 1 .. n PROVE Process(x, s, bytes[k]) \in X
  <2>1. x \in Worlds /\ Meets(x, s) /\ Keeps(y, x, s)
    OBVIOUS
  <2>2. bytes[k] \in Words /\ (s # Foreground => bytes[k] # "enq")
    BY <1>1 DEF n
  <2>3. Keeps(x, Process(x, s, bytes[k]), s) /\ Meets(Process(x, s, bytes[k]), s)
    BY ONLY Room, s \in Hosts, <2>1, <2>2, ProcessFacts
  <2>4. Keeps(y, Process(x, s, bytes[k]), s)
    BY ONLY <2>1, <2>3, KeepsOn
  <2>5. Process(x, s, bytes[k]) \in Worlds
    BY <2>4 DEF Keeps
  <2> QED  BY <2>3, <2>4, <2>5
<1> HIDE DEF X
<1>5. step \in [X \X (1 .. n) -> X]
  BY <1>4
<1>6. PICK F : Solves(F, X, y, step, n)
  <2> HIDE DEF step
  <2> QED  BY <1>1, <1>3, <1>5, Recursion
<1>7. Is(F)
  <2>1. ASSUME NEW S \in SUBSET (1 .. n), S # {}
        PROVE  F[S] = Process(F[S \ {Max(S)}], s, bytes[Max(S)])
    <3>1. Max(S) \in S
      <4>1. PICK k \in S : \A x \in S : k >= x
        BY <1>1, <2>1, LargestIn
      <4> QED  BY <4>1 DEF Max
    <3>2. F[S \ {Max(S)}] \in X
      BY <1>6 DEF Solves
    <3>3. F[S] = step[<<F[S \ {Max(S)}], Max(S)>>]
      BY <1>6, <2>1 DEF Solves
    <3> QED  BY <3>1, <3>2, <3>3
  <2>2. /\ F = [S \in SUBSET (1 .. n) |-> F[S]]
        /\ \A S \in SUBSET (1 .. n) : S = {} => F[S] = y
    BY <1>6 DEF Solves
  <2> HIDE DEF step
  <2> QED  BY <2>1, <2>2 DEF Max
<1>8. Is(G)
  BY <1>7
<1> HIDE DEF G
<1> DEFINE K == {k \in Nat : k <= n => G[1 .. k] \in X}
<1>9. 0 \in K
  <2>1. 1 .. 0 = {} /\ 1 .. 0 \in SUBSET (1 .. n)
    OBVIOUS
  <2>2. G[1 .. 0] = y
    BY <1>8, <2>1
  <2> QED  BY <1>3, <2>2
<1>10. ASSUME NEW k \in Nat, k \in K PROVE k + 1 \in K
  <2> SUFFICES ASSUME k + 1 <= n PROVE G[1 .. k + 1] \in X
    OBVIOUS
  <2>1. k + 1 \in 1 .. n /\ (k + 1) - 1 = k /\ k <= n
    BY <1>1
  <2>2. /\ 1 .. k + 1 \in SUBSET (1 .. n) /\ 1 .. k + 1 # {} /\ Max(1 .. k + 1) = k + 1
        /\ (1 .. k + 1) \ {k + 1} = 1 .. k
    BY <1>1, <2>1, LastNumber
  <2>3. G[1 .. k + 1] = Process(G[1 .. k], s, bytes[k + 1])
    BY <1>8, <2>2 DEF Max
  <2>4. G[1 .. k] \in X
    BY <1>10, <2>1
  <2> QED  BY <1>4, <2>1, <2>3, <2>4
<1> HIDE DEF K
<1>11. n \in K
  BY <1>1, <1>9, <1>10, Upward
<1>12. z \in X
  BY <1>2, <1>11 DEF K
<1> QED  BY <1>12 DEF X, z

LEMMA ProcessEventsFacts ==
    ASSUME Room, Rates, Conversation, NEW w \in Worlds, NEW s \in Hosts, Meets(w, s), NEW busy
    PROVE  Keeps(w, ProcessEvents(w, s, busy), s) /\ Meets(ProcessEvents(w, s, busy), s)
<1> DEFINE len == Len(w.queue[s])
           flow == FlowControl(w, s)
           n == Quota(len)
           y == [flow EXCEPT !.queue[s] = SubSeq(@, n + 1, Len(@))]
           bytes == SubSeq(flow.queue[s], 1, n)
           z == Answered(y, s, bytes)
           done == ProcessEvents(w, s, busy)
<1>1. done = IF len = 0 THEN w ELSE IF busy THEN flow ELSE z
  BY DEF ProcessEvents, ProcessMany, Answered
<1>2. w.queue[s] \in Seq(Words) /\ Keeps(w, w, s)
  BY WorldFacts
<1>3. CASE len = 0
  BY <1>1, <1>2, <1>3
<1>4. CASE len # 0
  <2>1. w.queue[s] # << >>
    BY <1>4, EmptySeq
  <2>2. /\ Keeps(w, flow, s) /\ Meets(flow, s) /\ flow.queue = w.queue
        /\ Lossless(flow, s) /\ Pauses(flow.paused[s], flow.owed[s]) => ~(Usage(len) < 25)
    BY <2>1, FlowFacts
  <2>3. flow \in Worlds
    BY <2>2 DEF Keeps
  <2> HIDE DEF flow
  <2>4. /\ Keeps(flow, y, s) /\ Meets(y, s)
        /\ bytes \in Seq(Words)
        /\ s # Foreground => \A k \in 1 .. Len(bytes) : bytes[k] # "enq"
    BY <2>1, <2>2, <2>3, PopFacts
  <2> HIDE DEF y, bytes
  <2>5. y \in Worlds
    BY <2>4 DEF Keeps
  <2>6. Keeps(y, z, s) /\ Meets(z, s)
    BY <2>4, <2>5, AnsweringFacts
  <2> HIDE DEF z
  <2>7. Keeps(w, z, s)
    BY <2>2, <2>4, <2>6, KeepsOn
  <2> HIDE DEF done
  <2>8. done = flow \/ done = z
    BY <1>1, <1>4
  <2> QED  BY <2>2, <2>6, <2>7, <2>8 DEF done
<1> QED  BY <1>3, <1>4

LEMMA UpdateSessionFacts ==
    ASSUME Room, Rates, Conversation, NEW w \in Worlds, NEW s \in Hosts, \A t \in Hosts : Meets(w, t),
           NEW busy, NEW taken \in BOOLEAN
    PROVE  LET z == UpdateSession(w, s, busy, taken)
           IN  z \in Worlds /\ \A t \in Hosts : Meets(z, t)
<1> DEFINE b == s \in busy
           done == ProcessEvents(w, s, b)
           z == UpdateSession(w, s, busy, taken)
<1>1. Keeps(w, done, s) /\ Meets(done, s)
  BY ProcessEventsFacts
<1>2. z = IF taken THEN Flush(done, s, TRUE) ELSE done
  BY DEF UpdateSession
<1> HIDE DEF done, z
<1>3. done \in Worlds
  BY <1>1 DEF Keeps
<1>4. Keeps(done, Flush(done, s, TRUE), s) /\ Meets(Flush(done, s, TRUE), s)
  BY <1>1, <1>3, FlushFacts
<1>5. Keeps(w, z, s) /\ Meets(z, s)
  <2>1. Keeps(w, Flush(done, s, TRUE), s)
    BY <1>1, <1>4, KeepsOn
  <2> QED  BY <1>1, <1>2, <1>4, <2>1
<1>6. z \in Worlds
  BY <1>5 DEF Keeps
<1>7. \A t \in Hosts \ {s} : Meets(z, t)
  BY <1>5, Elsewhere
<1> QED  BY <1>5, <1>6, <1>7 DEF z

-------------------------------------------------------------------------------
(* Session after session *)

AllMeet == {w \in Worlds : \A t \in Hosts : Meets(w, t)}

\* Session after session.
LEMMA UpdateSessionsFacts ==
    ASSUME Room, Rates, Conversation, NEW w \in AllMeet, NEW busy, NEW taken \in BOOLEAN
    PROVE  UpdateSessions(w, busy, taken) \in AllMeet
<1>1. PICK n \in Nat \ {0} : Hosts = 1 .. n
  BY DEF Conversation
<1> DEFINE Turn(x, s) == UpdateSession(x, s, busy, taken)
           step == [p \in AllMeet \X (1 .. n) |-> Turn(p[1], p[2])]
           Is(F) == F = [S \in SUBSET (1 .. n) |->
                           IF S = {} THEN w ELSE LET k == CHOOSE x \in S : \A z \in S : x >= z
                                                 IN  Turn(F[S \ {k}], InOrder[k])]
           G == CHOOSE F : Is(F)
<1>2. InOrder = [s \in 1 .. n |-> s] /\ DOMAIN InOrder = 1 .. n /\ \A k \in 1 .. n : InOrder[k] = k
  <2>1. Cardinality(1 .. n) = n
    BY FS_Interval
  <2> QED  BY <1>1, <2>1 DEF InOrder
<1>3. UpdateSessions(w, busy, taken) = G[1 .. n]
  BY <1>2 DEF UpdateSessions, FoldLeft, MapThenFoldSet, Max
<1>4. ASSUME NEW x \in AllMeet, NEW k \in 1 .. n PROVE Turn(x, k) \in AllMeet
  <2>1. x \in Worlds /\ k \in Hosts /\ \A t \in Hosts : Meets(x, t)
    BY <1>1 DEF AllMeet
  <2> QED  BY <2>1, UpdateSessionFacts DEF AllMeet
<1> HIDE DEF Turn
<1>5. step \in [AllMeet \X (1 .. n) -> AllMeet]
  BY <1>4
<1>6. PICK F : Solves(F, AllMeet, w, step, n)
  <2> HIDE DEF step
  <2> QED  BY <1>5, Recursion
<1>7. Is(F)
  <2>1. ASSUME NEW S \in SUBSET (1 .. n), S # {}
        PROVE  F[S] = Turn(F[S \ {Max(S)}], Max(S)) /\ InOrder[Max(S)] = Max(S)
    <3>1. Max(S) \in S
      <4>1. PICK k \in S : \A x \in S : k >= x
        BY <2>1, LargestIn
      <4> QED  BY <4>1 DEF Max
    <3>2. F[S \ {Max(S)}] \in AllMeet
      BY <1>6 DEF Solves
    <3>3. F[S] = step[<<F[S \ {Max(S)}], Max(S)>>]
      BY <1>6, <2>1 DEF Solves
    <3> QED  BY <1>2, <3>1, <3>2, <3>3
  <2>2. /\ F = [S \in SUBSET (1 .. n) |-> F[S]]
        /\ \A S \in SUBSET (1 .. n) : S = {} => F[S] = w
    BY <1>6 DEF Solves
  <2> HIDE DEF step
  <2> QED  BY <2>1, <2>2 DEF Max
<1>8. Is(G)
  BY <1>7
<1> HIDE DEF G
<1> DEFINE K == {k \in Nat : k <= n => G[1 .. k] \in AllMeet}
<1>9. 0 \in K
  <2>1. 1 .. 0 = {} /\ 1 .. 0 \in SUBSET (1 .. n)
    OBVIOUS
  <2>2. G[1 .. 0] = w
    BY <1>8, <2>1
  <2> QED  BY <2>2
<1>10. ASSUME NEW k \in Nat, k \in K PROVE k + 1 \in K
  <2> SUFFICES ASSUME k + 1 <= n PROVE G[1 .. k + 1] \in AllMeet
    OBVIOUS
  <2>1. k + 1 \in 1 .. n /\ (k + 1) - 1 = k /\ k <= n
    OBVIOUS
  <2>2. /\ 1 .. k + 1 \in SUBSET (1 .. n) /\ 1 .. k + 1 # {} /\ Max(1 .. k + 1) = k + 1
        /\ (1 .. k + 1) \ {k + 1} = 1 .. k
    BY <2>1, LastNumber
  <2>3. G[1 .. k + 1] = Turn(G[1 .. k], InOrder[k + 1])
    BY <1>8, <2>2 DEF Max
  <2>4. G[1 .. k] \in AllMeet
    BY <1>10, <2>1
  <2> QED  BY <1>2, <1>4, <2>1, <2>3, <2>4
<1> HIDE DEF K
<1>11. n \in K
  BY <1>9, <1>10, Upward
<1> QED  BY <1>3, <1>11 DEF K

\* For every session: what is in the ring is what its host is owed, and a host that
\* what it is owed leaves paused is one that the queue will make the terminal let go.
AnswerInvariant == World \in AllMeet /\ sink \in BOOLEAN /\ callback \in BOOLEAN

LEMMA AnswerInitially ==
    ASSUME Room, Conversation, AnswerInit
    PROVE  AnswerInvariant
<1> DEFINE empty == [data |-> [k \in Slot |-> "none"], head |-> 0, tail |-> 0, overflow |-> FALSE]
<1>1. 0 \in Slot /\ "none" \in Symbol
  BY DEF Room, Slot, Symbol
<1>2. empty \in RingBuffer
  BY <1>1, Zenon DEF RingBuffer
<1>3. ring = [s \in Hosts |-> empty]
  BY DEF AnswerInit, Slot
<1>4. ~empty.overflow /\ empty.head = 0 /\ empty.tail = 0
  OBVIOUS
<1> HIDE DEF empty
<1>5. World \in Worlds
  <2>1. << >> \in Seq(Words) /\ << >> \in Seq(Symbol)
    BY EmptySeq
  <2>2. /\ ring \in [Hosts -> RingBuffer] /\ queue \in [Hosts -> Seq(Words)] /\ xoff \in [Hosts -> BOOLEAN]
        /\ paused \in [Hosts -> BOOLEAN] /\ owed \in [Hosts -> Seq(Symbol)] /\ missed \in SUBSET Hosts
    BY <1>2, <1>3, <2>1 DEF AnswerInit
  <2> QED  BY <2>2 DEF World, Worlds
<1>6. Contents(empty) = << >>
  <2>1. Len(Contents(empty)) = Filled(0, 0) /\ Contents(empty) \in Seq(Symbol)
    BY <1>2, <1>4, RingFacts
  <2>2. Filled(0, 0) = 0
    BY DEF Filled
  <2> QED  BY <2>1, <2>2, EmptySeq
<1>7. ASSUME NEW s \in Hosts PROVE Meets(World, s)
  <2>1. /\ World.ring[s] = empty /\ World.queue[s] = << >> /\ World.xoff[s] = FALSE
        /\ World.paused[s] = FALSE /\ World.owed[s] = << >>
    BY <1>3 DEF World, AnswerInit
  <2>2. ~Pauses(FALSE, << >>)
    BY EmptySeq, PausesMore
  <2>3. DOMAIN World.queue[s] = {}
    BY <2>1
  <2>4. Contents(World.ring[s]) = World.owed[s]
    BY <1>6, <2>1
  <2>5. ~Pauses(World.paused[s], World.owed[s])
    BY <2>1, <2>2
  <2>6. s # Foreground => \A k \in DOMAIN World.queue[s] : World.queue[s][k] # "enq"
    BY <2>3
  <2> QED  BY <2>1, <2>4, <2>5, <2>6 DEF Meets
<1> QED  BY <1>5, <1>7 DEF AnswerInvariant, AllMeet, AnswerInit

\* A host that is not paused.
LEMMA AnswerHostSends ==
    ASSUME Conversation, AnswerInvariant, NEW s \in Hosts, HostSends(s)
    PROVE  AnswerInvariant'
<1>1. PICK c \in Asks[s] : queue' = [queue EXCEPT ![s] = Append(@, c)]
  BY DEF HostSends
<1>2. c \in Words /\ (s # Foreground => c # "enq")
  BY DEF Conversation, Words
<1>3. World \in Worlds /\ World = [World EXCEPT !.queue = queue] /\ \A t \in Hosts : Meets(World, t)
  BY DEF AnswerInvariant, AllMeet, World
<1>4. /\ ring \in [Hosts -> RingBuffer] /\ queue \in [Hosts -> Seq(Words)] /\ xoff \in [Hosts -> BOOLEAN]
      /\ paused \in [Hosts -> BOOLEAN] /\ owed \in [Hosts -> Seq(Symbol)] /\ missed \in SUBSET Hosts
  BY <1>3 DEF World, Worlds
<1>5. queue[s] \in Seq(Words) /\ Append(queue[s], c) \in Seq(Words)
  BY <1>2, <1>4
<1>6. /\ queue' \in [Hosts -> Seq(Words)] /\ queue'[s] = Append(queue[s], c)
      /\ \A t \in Hosts \ {s} : queue'[t] = queue[t]
  BY <1>1, <1>4, <1>5
<1>7. UNCHANGED <<ring, xoff, sink, callback, paused, owed, missed>>
  BY DEF HostSends
<1>8. World' \in Worlds
  BY <1>4, <1>6, <1>7 DEF World, Worlds
<1>9. ASSUME NEW t \in Hosts PROVE Meets(World', t)
  <2>1. World'.queue[t] # << >> \/ World.queue[t] = World'.queue[t]
    BY <1>5, <1>6 DEF World
  <2>2. t # Foreground => \A k \in DOMAIN World'.queue[t] : World'.queue[t][k] # "enq"
    <3>1. CASE t = s
      <4> DEFINE q == queue[s]
                 z == Append(q, c)
      <4>1. Len(q) \in Nat /\ DOMAIN q = 1 .. Len(q) /\ DOMAIN z = 1 .. Len(q) + 1
            /\ \A k \in 1 .. Len(q) + 1 : z[k] = IF k <= Len(q) THEN q[k] ELSE c
        BY <1>2, <1>5
      <4>2. s # Foreground => \A k \in DOMAIN q : q[k] # "enq"
        BY <1>3 DEF Meets, World
      <4> HIDE DEF z, q
      <4>3. s # Foreground => \A k \in DOMAIN z : z[k] # "enq"
        BY <1>2, <4>1, <4>2
      <4> QED  BY <1>6, <3>1, <4>3 DEF World, z, q
    <3>2. CASE t # s
      BY <1>3, <1>6, <3>2 DEF Meets, World
    <3> QED  BY <3>1, <3>2
  <2>3. Meets(World, t)
    BY <1>3
  <2>4. /\ World'.ring = World.ring /\ World'.xoff = World.xoff /\ World'.paused = World.paused
        /\ World'.owed = World.owed /\ World'.missed = World.missed
    BY <1>7 DEF World
  <2> QED  BY <2>1, <2>2, <2>3, <2>4 DEF Meets, Lossless
<1> QED  BY <1>7, <1>8, <1>9 DEF AnswerInvariant, AllMeet

LEMMA Becomes ==
    ASSUME NEW w \in AllMeet, Become(w)
    PROVE  World' \in AllMeet
<1>1. World' = w
  BY DEF Become, World, AllMeet, Worlds
<1> QED  BY <1>1

LEMMA AnswerUpdate ==
    ASSUME Room, Rates, Conversation, AnswerInvariant, Update
    PROVE  AnswerInvariant'
<1>1. PICK busy \in SUBSET Hosts : Become(UpdateSessions(World, busy, sink \/ callback))
  BY DEF Update
<1>2. (sink \/ callback) \in BOOLEAN
  OBVIOUS
<1>3. UpdateSessions(World, busy, sink \/ callback) \in AllMeet
  BY <1>2, UpdateSessionsFacts DEF AnswerInvariant
<1>4. World' \in AllMeet
  BY <1>1, <1>3, Becomes
<1> QED  BY <1>4 DEF AnswerInvariant, Update

LEMMA AnswerSetOutputSink ==
    ASSUME Room, Conversation, AnswerInvariant, NEW new \in BOOLEAN, SetOutputSink(new)
    PROVE  AnswerInvariant'
<1> DEFINE taken == new \/ sink \/ callback
           z == Flush(World, Foreground, taken)
<1>1. World \in Worlds /\ Foreground \in Hosts /\ \A t \in Hosts : Meets(World, t)
  BY DEF AnswerInvariant, AllMeet, Conversation
<1>2. taken \in BOOLEAN
  OBVIOUS
<1>3. Become(z) /\ sink' = new /\ callback' = callback
  BY DEF SetOutputSink
<1> HIDE DEF taken
<1>4. Keeps(World, z, Foreground) /\ Meets(z, Foreground)
  BY <1>1, <1>2, FlushFacts
<1> HIDE DEF z
<1>5. \A t \in Hosts \ {Foreground} : Meets(z, t)
  BY <1>1, <1>4, Elsewhere
<1>6. z \in AllMeet
  BY <1>4, <1>5 DEF AllMeet, Keeps
<1> QED  BY <1>3, <1>6, Becomes DEF AnswerInvariant

LEMMA AnswerStep ==
    ASSUME Room, Rates, Conversation, AnswerInvariant, [AnswerNext]_answers
    PROVE  AnswerInvariant'
<1>1. ASSUME NEW s \in Hosts, HostSends(s) PROVE AnswerInvariant'
  BY <1>1, AnswerHostSends
<1>2. ASSUME Update PROVE AnswerInvariant'
  BY <1>2, AnswerUpdate
<1>3. ASSUME NEW new \in BOOLEAN, SetOutputSink(new) PROVE AnswerInvariant'
  BY <1>3, AnswerSetOutputSink
<1>4. ASSUME NEW new \in BOOLEAN, SetResponseCallback(new) PROVE AnswerInvariant'
  BY <1>4 DEF SetResponseCallback, AnswerInvariant, World
<1>5. ASSUME UNCHANGED answers PROVE AnswerInvariant'
  BY <1>5 DEF answers, AnswerInvariant, World
<1> QED  BY <1>1, <1>2, <1>3, <1>4, <1>5 DEF AnswerNext

LEMMA AnswerServes ==
    ASSUME AnswerInvariant
    PROVE  HostServed
<1> SUFFICES ASSUME NEW s \in Hosts, Whole(s)
             PROVE  /\ Contents(ring[s]) = owed[s]
                    /\ paused[s] => "XON" \in ToSet(owed[s]) \/ (xoff[s] /\ queue[s] # << >>)
  BY DEF HostServed
<1>1. Meets(World, s) /\ World \in Worlds
  BY DEF AnswerInvariant, AllMeet
<1>2. Lossless(World, s)
  BY DEF Lossless, World, Whole
<1>3. Contents(ring[s]) = owed[s] /\ (Pauses(paused[s], owed[s]) => xoff[s] /\ queue[s] # << >>)
  BY <1>1, <1>2 DEF Meets, World
<1>4. ASSUME paused[s], "XON" \notin ToSet(owed[s]) PROVE Pauses(paused[s], owed[s])
  BY <1>4 DEF ToSet, Pauses
<1> QED  BY <1>3, <1>4

\* For every number of sessions, size of ring and queue, and rate: every host gets what
\* it is owed, in order and whole, and a paused one is let go on; as long as only the
\* session in the foreground is paused or asked for its answerback.
THEOREM AnswerTheorem ==
    ASSUME Room, Rates, Conversation
    PROVE  AnswerSpec => []HostServed
<1>1. AnswerInit => AnswerInvariant
  BY AnswerInitially
<1>2. AnswerInvariant /\ [AnswerNext]_answers => AnswerInvariant'
  BY AnswerStep
<1>3. AnswerInvariant => HostServed
  BY AnswerServes
<1> QED  BY <1>1, <1>2, <1>3, PTL DEF AnswerSpec
===============================================================================
