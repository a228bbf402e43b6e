--------------------------- MODULE MultiplexerProofs ---------------------------
(***************************************************************************)
(* The panes are always a tree and the focus always moves together with the *)
(* active session; as long as the last pane is not closed, no two panes     *)
(* show one session, the panes tile the window and each session has the     *)
(* size of its pane: for every number of sessions, every window and every   *)
(* split ratio.                                                             *)
(***************************************************************************)
EXTENDS Multiplexer, WellFoundedInduction, FiniteSetTheorems, TLAPS

\* The name of a pane is the way to it.
Names == Seq({"a", "b"})

TypeOK ==
    /\ DOMAIN leaf \subseteq Names /\ leaf \in [DOMAIN leaf -> Sessions]
    /\ DOMAIN split \subseteq Names /\ split = [s \in DOMAIN split |-> split[s]]
    /\ open \in [Sessions -> BOOLEAN]

\* The panes are the nodes of a tree: no pane is a leaf and a split, and every
\* pane on the way to a pane is a split.
Tree ==
    /\ DOMAIN leaf \cap DOMAIN split = {}
    /\ \A p \in DOMAIN leaf \union DOMAIN split :
          \A n \in 0 .. Len(p) - 1 : SubSeq(p, 1, n) \in DOMAIN split

\* KTerm_SplitPane opens a session that is closed, so it must not be shown.
ShownIsOpen == \A p \in DOMAIN leaf : open[leaf[p]]

\* What every step keeps, and what every step but the closing of the last pane
\* keeps.
Shape == TypeOK /\ Tree
Shown == ShownIsOpen /\ OneSessionPerPane
IInv == Shape /\ Shown

-------------------------------------------------------------------------------
(* Names *)

\* Two names are one if they agree at every turn.
LEMMA SameName ==
    ASSUME NEW p \in Names, NEW q \in Names, Len(p) = Len(q),
           \A i \in 1 .. Len(p) : p[i] = q[i]
    PROVE  p = q
BY DEF Names

\* A prefix, turn by turn.
LEMMA PrefixFacts ==
    ASSUME NEW p \in Names, NEW q \in Names
    PROVE  IsPrefix(p, q) <=> Len(p) <= Len(q) /\ \A i \in 1 .. Len(p) : p[i] = q[i]
<1>1. ASSUME IsPrefix(p, q)
      PROVE  Len(p) <= Len(q) /\ \A i \in 1 .. Len(p) : p[i] = q[i]
  <2>1. Len(p) <= Len(q) /\ SubSeq(p, 1, Len(p)) = SubSeq(q, 1, Len(p))
    BY <1>1 DEF IsPrefix
  <2>2. ASSUME NEW i \in 1 .. Len(p) PROVE p[i] = q[i]
    <3>1. SubSeq(p, 1, Len(p))[i] = p[i] /\ SubSeq(q, 1, Len(p))[i] = q[i]
      BY <2>1 DEF Names
    <3> QED  BY <2>1, <3>1
  <2> QED  BY <2>1, <2>2
<1>2. ASSUME Len(p) <= Len(q), \A i \in 1 .. Len(p) : p[i] = q[i]
      PROVE  IsPrefix(p, q)
  <2>1. SubSeq(p, 1, Len(p)) \in Names /\ SubSeq(q, 1, Len(p)) \in Names
    BY <1>2 DEF Names
  <2>2. /\ Len(SubSeq(p, 1, Len(p))) = Len(p) /\ Len(SubSeq(q, 1, Len(p))) = Len(p)
        /\ \A i \in 1 .. Len(p) :
              SubSeq(p, 1, Len(p))[i] = p[i] /\ SubSeq(q, 1, Len(p))[i] = q[i]
    BY <1>2 DEF Names
  <2> QED  BY <1>2, <2>1, <2>2, SameName DEF IsPrefix
<1> QED  BY <1>1, <1>2

\* Two names in a row, turn by turn.
LEMMA JoinFacts ==
    ASSUME NEW p \in Names, NEW q \in Names
    PROVE  /\ p \o q \in Names /\ Len(p) \in Nat /\ Len(q) \in Nat
           /\ Len(p \o q) = Len(p) + Len(q)
           /\ \A i \in 1 .. Len(p) : (p \o q)[i] = p[i]
           /\ \A i \in 1 .. Len(q) : (p \o q)[Len(p) + i] = q[i]
<1>1. p \o q \in Names /\ Len(p) \in Nat /\ Len(q) \in Nat
  BY DEF Names
<1>2. Len(p \o q) = Len(p) + Len(q)
  BY DEF Names
<1>3. \A i \in 1 .. Len(p) : (p \o q)[i] = p[i]
  BY DEF Names
<1>4. \A i \in 1 .. Len(q) : (p \o q)[Len(p) + i] = q[i]
  BY DEF Names
<1> QED  BY <1>1, <1>2, <1>3, <1>4

\* What is left of a name behind a prefix.
LEMMA RestFacts ==
    ASSUME NEW p \in Names, NEW q \in Names
    PROVE  /\ p \o q \in Names /\ Len(p \o q) = Len(p) + Len(q)
           /\ IsPrefix(p, p \o q) /\ Rest(p, p \o q) = q
           /\ IsPrefix(p, q) => Rest(p, q) \in Names /\ q = p \o Rest(p, q)
<1>1. p \o q \in Names /\ Len(p \o q) = Len(p) + Len(q)
  BY DEF Names
<1>2. IsPrefix(p, p \o q)
  <2>1. Len(p) <= Len(p \o q) /\ \A i \in 1 .. Len(p) : p[i] = (p \o q)[i]
    BY DEF Names
  <2> QED  BY <1>1, <2>1, PrefixFacts
<1>3. Rest(p, p \o q) = q
  <2>1. /\ Rest(p, p \o q) \in Names /\ Len(Rest(p, p \o q)) = Len(q)
        /\ \A i \in 1 .. Len(q) : Rest(p, p \o q)[i] = q[i]
    BY <1>1 DEF Names, Rest
  <2> QED  BY <2>1, SameName
<1>4. ASSUME IsPrefix(p, q) PROVE Rest(p, q) \in Names /\ q = p \o Rest(p, q)
  <2>1. Len(p) <= Len(q) /\ \A i \in 1 .. Len(p) : p[i] = q[i]
    BY <1>4, PrefixFacts
  <2>2. /\ Rest(p, q) \in Names /\ Len(Rest(p, q)) = Len(q) - Len(p)
        /\ \A i \in 1 .. Len(q) - Len(p) : Rest(p, q)[i] = q[Len(p) + i]
    BY <2>1 DEF Names, Rest
  <2> DEFINE r == Rest(p, q)
  <2> HIDE DEF r
  <2>3. p \o r \in Names /\ Len(p \o r) = Len(q)
    BY <2>1, <2>2 DEF Names, r
  <2>4. ASSUME NEW i \in 1 .. Len(q) PROVE (p \o r)[i] = q[i]
    <3>1. CASE i <= Len(p)
      <4>1. i \in 1 .. Len(p)
        BY <3>1 DEF Names
      <4>2. (p \o r)[i] = p[i]
        BY <2>2, <4>1 DEF Names, r
      <4> QED  BY <2>1, <4>1, <4>2
    <3>2. CASE i > Len(p)
      <4>1. i - Len(p) \in 1 .. Len(q) - Len(p) /\ Len(p) + (i - Len(p)) = i
        BY <3>2 DEF Names
      <4>2. (p \o r)[i] = r[i - Len(p)]
        BY <2>2, <3>2, <4>1 DEF Names, r
      <4> QED  BY <2>2, <4>1, <4>2 DEF r
    <3>3. i <= Len(p) \/ i > Len(p)
      BY DEF Names
    <3> QED  BY ONLY <3>1, <3>2, <3>3
  <2> QED  BY <2>2, <2>3, <2>4, SameName DEF r
<1> QED  BY <1>1, <1>2, <1>3, <1>4

\* Every name but the root's ends in one of two turns.
LEMMA FrontFacts ==
    ASSUME NEW p \in Names, p # Root
    PROVE  /\ Front(p) \in Names /\ Len(Front(p)) = Len(p) - 1 /\ Len(p) > 0
           /\ p = Front(p) \o <<Last(p)>> /\ Last(p) \in {"a", "b"}
           /\ Sibling(p) \in Names /\ Len(Sibling(p)) = Len(p)
           /\ IsPrefix(Front(p), Sibling(p))
           /\ Sibling(p)[Len(p)] # p[Len(p)] /\ Sibling(p)[Len(p)] \in {"a", "b"}
           /\ \A i \in 1 .. Len(p) - 1 : Sibling(p)[i] = p[i] /\ Front(p)[i] = p[i]
<1>1. Len(p) \in Nat /\ Len(p) > 0 /\ Last(p) \in {"a", "b"}
  BY DEF Names, Root, Last
<1>2. /\ Front(p) \in Names /\ Len(Front(p)) = Len(p) - 1
      /\ \A i \in 1 .. Len(p) - 1 : Front(p)[i] = p[i]
  <2> DEFINE n == Len(p) - 1
  <2>1. n \in Nat /\ n <= Len(p)
    BY <1>1
  <2> HIDE DEF n
  <2>2. /\ SubSeq(p, 1, n) \in Names /\ Len(SubSeq(p, 1, n)) = n
        /\ \A i \in 1 .. n : SubSeq(p, 1, n)[i] = p[i]
    BY <2>1 DEF Names
  <2> QED  BY <2>2 DEF Front, n
<1> DEFINE f == Front(p)
           c == IF Last(p) = "a" THEN "b" ELSE "a"
<1>3. Sibling(p) = f \o <<c>> /\ c \in {"a", "b"} /\ c # Last(p)
  BY <1>1 DEF Sibling
<1> HIDE DEF f, c
<1>4. /\ f \o <<c>> \in Names /\ Len(f \o <<c>>) = Len(p) /\ (f \o <<c>>)[Len(p)] = c
      /\ \A i \in 1 .. Len(p) - 1 : (f \o <<c>>)[i] = f[i]
  BY <1>1, <1>2, <1>3 DEF Names, f
<1>5. p = f \o <<Last(p)>>
  <2>1. /\ f \o <<Last(p)>> \in Names /\ Len(f \o <<Last(p)>>) = Len(p)
        /\ (f \o <<Last(p)>>)[Len(p)] = Last(p)
        /\ \A i \in 1 .. Len(p) - 1 : (f \o <<Last(p)>>)[i] = f[i]
    BY <1>1, <1>2 DEF Names, f
  <2>2. \A i \in 1 .. Len(p) : (f \o <<Last(p)>>)[i] = p[i]
    BY <1>1, <1>2, <2>1 DEF f, Last
  <2> QED  BY <2>1, <2>2, SameName
<1>6. IsPrefix(f, Sibling(p))
  <2>1. f \in Names /\ f \o <<c>> \in Names
    BY <1>2, <1>4 DEF f
  <2>2. Len(f) <= Len(f \o <<c>>)
    BY <1>1, <1>2, <1>4 DEF f
  <2>3. \A i \in 1 .. Len(f) : f[i] = (f \o <<c>>)[i]
    BY <1>1, <1>2, <1>4 DEF f
  <2> QED  BY <1>3, <2>1, <2>2, <2>3, PrefixFacts
<1>7. Sibling(p)[Len(p)] # p[Len(p)]
  BY <1>3, <1>4 DEF Last
<1> QED  BY <1>1, <1>2, <1>3, <1>4, <1>5, <1>6, <1>7 DEF f

-------------------------------------------------------------------------------
(* The session that KTerm_SplitPane opens *)

\* The search for a closed session finds one if there is one.
LEMMA NewSessionFacts ==
    ASSUME ClosedSessions # {}
    PROVE  NewSession \in Sessions /\ ~open[NewSession]
<1> DEFINE R == {ss \in Nat \X Nat : ss[1] < ss[2]}
<1>1. IsWellFoundedOn(R, Nat)
  <2>1. R = OpToRel(<, Nat)
    BY DEF OpToRel
  <2> QED  BY <2>1, NatLessThanWellFounded
<1>2. ClosedSessions \subseteq Nat /\ ClosedSessions \subseteq Sessions
  BY SessionsAssumption DEF ClosedSessions, Sessions
<1>3. PICK s \in ClosedSessions : \A t \in ClosedSessions : ~(<<t, s>> \in R)
  <2> HIDE DEF R
  <2> QED  BY <1>1, <1>2, WFMin
<1>4. \A t \in ClosedSessions : s <= t
  <2> SUFFICES ASSUME NEW t \in ClosedSessions, ~(s <= t) PROVE FALSE
    OBVIOUS
  <2>1. s \in Nat /\ t \in Nat /\ t < s
    BY <1>2
  <2>2. <<t, s>> \in R
    BY <2>1
  <2> QED  BY <1>3, <2>2
<1>5. NewSession \in ClosedSessions
  BY <1>4 DEF NewSession
<1> QED  BY <1>5 DEF ClosedSessions

-------------------------------------------------------------------------------
(* Names before and after a pane is closed *)

\* A name that does not pass through the parent, or passes through the sibling,
\* is moved and found again.
LEMMA DownUp ==
    ASSUME NEW p \in Names, p # Root, NEW r \in Names,
           IsPrefix(Front(p), r) => IsPrefix(Sibling(p), r)
    PROVE  Up(p, r) \in Names /\ Down(p, Up(p, r)) = r
<1> DEFINE f == Front(p)
           s == Sibling(p)
<1>1. f \in Names /\ s \in Names
  BY FrontFacts
<1> HIDE DEF f, s
<1>2. CASE IsPrefix(s, r)
  <2> DEFINE w == Rest(s, r)
  <2>1. w \in Names /\ r = s \o w
    BY <1>1, <1>2, RestFacts
  <2> HIDE DEF w
  <2>2. f \o w \in Names /\ IsPrefix(f, f \o w) /\ Rest(f, f \o w) = w
    BY <1>1, <2>1, RestFacts
  <2>3. Up(p, r) = f \o w
    BY <1>2 DEF Up, f, s, w
  <2> QED  BY <2>1, <2>2, <2>3 DEF Down, f, s
<1>3. CASE ~IsPrefix(s, r)
  <2>1. Up(p, r) = r
    BY <1>3 DEF Up, s
  <2>2. ~IsPrefix(f, r)
    BY <1>3 DEF f, s
  <2> QED  BY <2>1, <2>2 DEF Down, f
<1> QED  BY <1>2, <1>3

\* In a tree, only the closed leaf and its parent pass through the parent and
\* not through the sibling.
LEMMA OthersMove ==
    ASSUME Shape, NEW p \in DOMAIN leaf, p # Root,
           NEW r \in DOMAIN leaf \union DOMAIN split, r # p, r # Front(p)
    PROVE  IsPrefix(Front(p), r) => IsPrefix(Sibling(p), r)
<1> SUFFICES ASSUME IsPrefix(Front(p), r)
             PROVE  IsPrefix(Sibling(p), r)
  OBVIOUS
<1> DEFINE f == Front(p)
           s == Sibling(p)
           n == Len(p)
<1>1. p \in Names /\ r \in Names /\ n \in Nat /\ Len(r) \in Nat
  BY DEF Shape, TypeOK, Names
<1>2. /\ f \in Names /\ s \in Names /\ Len(f) = n - 1 /\ n > 0 /\ Len(s) = n
      /\ s[n] # p[n] /\ s[n] \in {"a", "b"} /\ p[n] \in {"a", "b"}
      /\ \A i \in 1 .. n - 1 : s[i] = p[i] /\ f[i] = p[i]
  <2>1. /\ f \in Names /\ s \in Names /\ Len(f) = n - 1 /\ n > 0 /\ Len(s) = n
        /\ s[n] # p[n] /\ s[n] \in {"a", "b"}
        /\ \A i \in 1 .. n - 1 : s[i] = p[i] /\ f[i] = p[i]
    BY <1>1, FrontFacts
  <2> HIDE DEF n, f, s
  <2>2. n \in 1 .. n
    BY <1>1, <2>1
  <2>3. p[n] \in {"a", "b"}
    BY <1>1, <2>2 DEF Names, n
  <2> QED  BY <2>1, <2>3
<1> HIDE DEF f, s, n
<1>3. n - 1 <= Len(r) /\ \A i \in 1 .. n - 1 : r[i] = p[i]
  <2>1. Len(f) <= Len(r) /\ \A i \in 1 .. Len(f) : f[i] = r[i]
    BY <1>1, <1>2, PrefixFacts DEF f
  <2> QED  BY <1>2, <2>1
<1>4. Len(r) # n - 1
  <2> SUFFICES ASSUME Len(r) = n - 1 PROVE FALSE
    OBVIOUS
  <2>1. r = f
    BY ONLY <1>1, <1>2, <1>3, SameName, Len(r) = n - 1
  <2> QED  BY <2>1 DEF f
<1>5. Len(r) >= n /\ r[n] \in {"a", "b"}
  BY <1>1, <1>2, <1>3, <1>4 DEF Names
<1>6. r[n] # p[n]
  <2> SUFFICES ASSUME r[n] = p[n] PROVE FALSE
    OBVIOUS
  <2>1. \A i \in 1 .. n : r[i] = p[i]
    BY <1>1, <1>3
  <2>2. CASE Len(r) = n
    <3>1. r = p
      BY <1>1, <2>1, <2>2, SameName DEF n
    <3> QED  BY <3>1
  <2>3. CASE Len(r) > n
    <3>1. n \in 0 .. Len(r) - 1
      BY <1>1, <2>3
    <3>2. SubSeq(r, 1, n) \in DOMAIN split
      BY <3>1 DEF Shape, Tree
    <3>3. /\ SubSeq(r, 1, n) \in Names /\ Len(SubSeq(r, 1, n)) = n
          /\ \A i \in 1 .. n : SubSeq(r, 1, n)[i] = r[i]
      BY <1>1, <2>3 DEF Names
    <3>4. SubSeq(r, 1, n) = p
      BY <1>1, <2>1, <3>3, SameName DEF n
    <3> QED  BY <3>2, <3>4 DEF Shape, Tree
  <2> QED  BY <1>1, <1>5, <2>2, <2>3
<1>7. s[n] = r[n]
  BY <1>2, <1>5, <1>6
<1>8. \A i \in 1 .. n : s[i] = r[i]
  BY <1>1, <1>2, <1>3, <1>7
<1>9. IsPrefix(s, r)
  BY <1>1, <1>2, <1>5, <1>8, PrefixFacts
<1> QED  BY <1>9 DEF s

\* So a pane that stays is moved to a name under which it is found, and no two
\* panes to one name.
LEMMA MovedOnce ==
    ASSUME Shape, NEW p \in DOMAIN leaf, p # Root
    PROVE  \A r \in (DOMAIN leaf \union DOMAIN split) \ {p, Front(p)} :
              Up(p, r) \in Names /\ Down(p, Up(p, r)) = r
<1> SUFFICES ASSUME NEW r \in (DOMAIN leaf \union DOMAIN split) \ {p, Front(p)}
             PROVE  Up(p, r) \in Names /\ Down(p, Up(p, r)) = r
  OBVIOUS
<1>1. p \in Names /\ r \in Names
  BY DEF Shape, TypeOK
<1>2. IsPrefix(Front(p), r) => IsPrefix(Sibling(p), r)
  BY OthersMove
<1> QED  BY <1>1, <1>2, DownUp

\* The parent of a leaf is a split.
LEMMA ParentIsSplit ==
    ASSUME Shape, NEW p \in DOMAIN leaf, p # Root
    PROVE  Front(p) \in DOMAIN split /\ Front(p) \notin DOMAIN leaf
           /\ p \notin DOMAIN split
<1>1. p \in Names
  BY DEF Shape, TypeOK
<1>2. Len(p) > 0
  BY <1>1, FrontFacts
<1>3. Len(p) - 1 \in 0 .. Len(p) - 1
  BY <1>1, <1>2 DEF Names
<1>4. SubSeq(p, 1, Len(p) - 1) \in DOMAIN split
  BY <1>3 DEF Shape, Tree
<1> QED  BY <1>4 DEF Shape, Tree, Front

\* The way to a moved pane consists of moved splits.
LEMMA MovedWay ==
    ASSUME Shape, NEW p \in DOMAIN leaf, p # Root,
           NEW r \in (DOMAIN leaf \union DOMAIN split) \ {p, Front(p)},
           NEW n \in 0 .. Len(Up(p, r)) - 1
    PROVE  \E u \in DOMAIN split \ {Front(p)} : SubSeq(Up(p, r), 1, n) = Up(p, u)
<1> DEFINE f == Front(p)
           s == Sibling(p)
           k == Len(p)
           v == Up(p, r)
<1>1. p \in Names /\ r \in Names /\ v \in Names /\ n \in Nat /\ k \in Nat
      /\ Len(r) \in Nat /\ Len(v) \in Nat /\ n < Len(v)
  <2>1. p \in Names /\ r \in Names /\ v \in Names
    BY MovedOnce DEF Shape, TypeOK
  <2> HIDE DEF v
  <2> QED  BY <2>1 DEF Names, v
<1>2. /\ f \in Names /\ s \in Names /\ Len(f) = k - 1 /\ Len(s) = k /\ k > 0
      /\ \A i \in 1 .. k - 1 : s[i] = p[i] /\ f[i] = p[i]
  BY <1>1, FrontFacts
<1> HIDE DEF k
<1>3. \A m \in 0 .. Len(r) - 1 :
          /\ SubSeq(r, 1, m) \in DOMAIN split
          /\ SubSeq(r, 1, m) \in Names /\ Len(SubSeq(r, 1, m)) = m
          /\ \A i \in 1 .. m : SubSeq(r, 1, m)[i] = r[i]
  BY <1>1 DEF Shape, Tree, Names
<1>4. /\ SubSeq(v, 1, n) \in Names /\ Len(SubSeq(v, 1, n)) = n
      /\ \A i \in 1 .. n : SubSeq(v, 1, n)[i] = v[i]
  <2> HIDE DEF v
  <2> QED  BY <1>1 DEF Names
<1>5. ASSUME NEW u \in Names, Len(u) < k
      PROVE  Up(p, u) = u
  <2>1. Len(u) \in Nat
    BY DEF Names
  <2>2. ~IsPrefix(s, u)
    BY <1>1, <1>2, <1>5, <2>1, PrefixFacts
  <2> QED  BY <2>2 DEF Up
<1>6. CASE ~IsPrefix(s, r)
  <2>1. v = r
    BY <1>6 DEF Up
  <2> DEFINE u == SubSeq(r, 1, n)
  <2>2. n \in 0 .. Len(r) - 1
    BY <1>1, <2>1
  <2>3. /\ u \in DOMAIN split /\ u \in Names /\ Len(u) = n /\ n <= Len(r)
        /\ \A i \in 1 .. n : u[i] = r[i]
    BY <1>1, <1>3, <2>2
  <2> HIDE DEF u
  <2>4. IsPrefix(u, r)
    BY <1>1, <2>3, PrefixFacts
  <2>5. u # f
    <3>1. ~IsPrefix(f, r)
      BY <1>6, OthersMove
    <3> QED  BY <2>4, <3>1
  <2>6. ~IsPrefix(s, u)
    <3> SUFFICES ASSUME IsPrefix(s, u) PROVE FALSE
      OBVIOUS
    <3>1. k <= n /\ \A i \in 1 .. k : s[i] = u[i]
      BY <1>2, <2>3, PrefixFacts
    <3>2. k <= Len(r) /\ \A i \in 1 .. k : s[i] = r[i]
      BY <1>1, <2>3, <3>1
    <3> QED  BY <1>1, <1>2, <1>6, <3>2, PrefixFacts
  <2>7. Up(p, u) = u
    BY <2>6 DEF Up
  <2> QED  BY <2>1, <2>3, <2>5, <2>7 DEF u
<1>7. CASE IsPrefix(s, r)
  <2> DEFINE w == Rest(s, r)
  <2>1. w \in Names /\ r = s \o w /\ Len(w) \in Nat
    <3>1. w \in Names /\ r = s \o w
      BY <1>1, <1>2, <1>7, RestFacts
    <3> QED  BY <3>1 DEF Names
  <2>2. v = f \o w
    BY <1>7 DEF Up
  <2> HIDE DEF w, v, f, s
  <2>3. /\ Len(r) = k + Len(w) /\ Len(v) = (k - 1) + Len(w)
        /\ \A i \in 1 .. Len(w) : r[k + i] = w[i] /\ v[(k - 1) + i] = w[i]
        /\ \A i \in 1 .. k : r[i] = s[i]
        /\ \A i \in 1 .. k - 1 : v[i] = f[i]
    <3>1. /\ Len(r) = Len(s) + Len(w)
          /\ \A i \in 1 .. Len(s) : r[i] = s[i]
          /\ \A i \in 1 .. Len(w) : r[Len(s) + i] = w[i]
      BY <1>2, <2>1, JoinFacts
    <3>2. /\ Len(v) = Len(f) + Len(w)
          /\ \A i \in 1 .. Len(f) : v[i] = f[i]
          /\ \A i \in 1 .. Len(w) : v[Len(f) + i] = w[i]
      BY <1>2, <2>1, <2>2, JoinFacts
    <3> QED  BY <1>2, <3>1, <3>2
  <2>4. CASE n < k - 1
    <3> DEFINE u == SubSeq(r, 1, n)
    <3>1. n \in 0 .. Len(r) - 1
      BY <1>1, <2>1, <2>3, <2>4
    <3>2. /\ u \in DOMAIN split /\ u \in Names /\ Len(u) = n
          /\ \A i \in 1 .. n : u[i] = r[i]
      BY <1>3, <3>1
    <3> HIDE DEF u
    <3>3. u # f /\ Up(p, u) = u
      BY <1>1, <1>2, <1>5, <2>4, <3>2
    <3>4. ASSUME NEW i \in 1 .. n PROVE u[i] = v[i]
      <4>1. i \in 1 .. k - 1 /\ i \in 1 .. k
        BY <1>1, <2>4
      <4>2. r[i] = p[i] /\ v[i] = p[i]
        BY <1>2, <2>3, <4>1
      <4> QED  BY <3>2, <4>2
    <3>5. u = SubSeq(v, 1, n)
      BY <1>4, <3>2, <3>4, SameName
    <3> QED  BY <3>2, <3>3, <3>5 DEF v, f
  <2>5. CASE n >= k - 1
    <3> DEFINE u == SubSeq(r, 1, n + 1)
    <3>1. n + 1 \in 0 .. Len(r) - 1 /\ n + 1 >= k
      BY <1>1, <2>1, <2>3, <2>5
    <3>2. /\ u \in DOMAIN split /\ u \in Names /\ Len(u) = n + 1
          /\ \A i \in 1 .. n + 1 : u[i] = r[i]
      BY <1>3, <3>1
    <3> HIDE DEF u
    <3>3. u # f
      BY <1>1, <1>2, <3>1, <3>2
    <3>4. IsPrefix(s, u)
      BY <1>1, <1>2, <2>3, <3>1, <3>2, PrefixFacts
    <3> DEFINE x == Rest(s, u)
    <3>5. x \in Names /\ u = s \o x
      BY <1>2, <3>2, <3>4, RestFacts
    <3>6. Up(p, u) = f \o x
      BY <3>4 DEF Up, f, s
    <3> HIDE DEF x
    <3>7. /\ Len(x) = (n + 1) - k /\ f \o x \in Names /\ Len(f \o x) = n
          /\ \A i \in 1 .. Len(x) : u[k + i] = x[i] /\ (f \o x)[(k - 1) + i] = x[i]
          /\ \A i \in 1 .. k - 1 : (f \o x)[i] = f[i]
      <4>1. /\ Len(x) \in Nat /\ Len(u) = Len(s) + Len(x)
            /\ \A i \in 1 .. Len(x) : u[Len(s) + i] = x[i]
        BY <1>2, <3>5, JoinFacts
      <4>2. /\ f \o x \in Names /\ Len(f \o x) = Len(f) + Len(x)
            /\ \A i \in 1 .. Len(f) : (f \o x)[i] = f[i]
            /\ \A i \in 1 .. Len(x) : (f \o x)[Len(f) + i] = x[i]
        BY <1>2, <3>5, JoinFacts
      <4>3. Len(x) = (n + 1) - k
        BY <1>1, <1>2, <3>2, <4>1
      <4> QED  BY <1>1, <1>2, <4>1, <4>2, <4>3
    <3>8. ASSUME NEW i \in 1 .. n PROVE (f \o x)[i] = v[i]
      <4>1. CASE i <= k - 1
        BY <1>1, <2>3, <3>7, <4>1
      <4>2. CASE i > k - 1
        <5> DEFINE j == i - (k - 1)
        <5>1. j \in 1 .. Len(x) /\ (k - 1) + j = i /\ j \in 1 .. Len(w)
              /\ k + j \in 1 .. n + 1
          BY <1>1, <2>1, <2>3, <3>1, <3>7, <4>2
        <5> HIDE DEF j
        <5>2. (f \o x)[i] = x[j] /\ v[i] = w[j]
          BY <2>3, <3>7, <5>1
        <5>3. x[j] = u[k + j] /\ w[j] = r[k + j]
          BY <2>3, <3>7, <5>1
        <5>4. u[k + j] = r[k + j]
          BY <3>2, <5>1
        <5> QED  BY <5>2, <5>3, <5>4
      <4>3. i <= k - 1 \/ i > k - 1
        BY <1>1
      <4> QED  BY ONLY <4>1, <4>2, <4>3
    <3>9. f \o x = SubSeq(v, 1, n)
      BY <1>4, <3>7, <3>8, SameName
    <3> QED  BY <3>2, <3>3, <3>6, <3>9 DEF v, f
  <2> QED  BY <1>1, <2>4, <2>5
<1> QED  BY <1>6, <1>7

-------------------------------------------------------------------------------
(* Splitting and closing a pane *)

\* The children of a leaf are new panes, reached over splits and the leaf.
LEMMA ChildFacts ==
    ASSUME Shape, NEW p \in DOMAIN leaf, NEW c \in {"a", "b"}
    PROVE  /\ p \o <<c>> \in Names /\ Len(p \o <<c>>) = Len(p) + 1
           /\ (p \o <<c>>)[Len(p) + 1] = c
           /\ p \o <<c>> \notin DOMAIN leaf \union DOMAIN split \union {p}
           /\ \A n \in 0 .. Len(p \o <<c>>) - 1 :
                 SubSeq(p \o <<c>>, 1, n) \in DOMAIN split \union {p}
<1> DEFINE q == p \o <<c>>
<1>1. p \in Names /\ Len(p) \in Nat
  BY DEF Shape, TypeOK, Names
<1>2. /\ q \in Names /\ Len(q) = Len(p) + 1 /\ q[Len(p) + 1] = c
      /\ \A i \in 1 .. Len(p) : q[i] = p[i]
  BY <1>1 DEF Names
<1> HIDE DEF q
<1>3. \A n \in 0 .. Len(p) :
          /\ SubSeq(q, 1, n) \in Names /\ Len(SubSeq(q, 1, n)) = n
          /\ \A i \in 1 .. n : SubSeq(q, 1, n)[i] = q[i]
  BY <1>1, <1>2 DEF Names
<1>4. \A n \in 0 .. Len(p) - 1 :
          /\ SubSeq(p, 1, n) \in Names /\ Len(SubSeq(p, 1, n)) = n
          /\ \A i \in 1 .. n : SubSeq(p, 1, n)[i] = p[i]
          /\ SubSeq(p, 1, n) \in DOMAIN split
  BY <1>1 DEF Names, Shape, Tree
<1>5. SubSeq(q, 1, Len(p)) = p
  <2>1. Len(p) \in 0 .. Len(p)
    BY <1>1
  <2>2. /\ SubSeq(q, 1, Len(p)) \in Names /\ Len(SubSeq(q, 1, Len(p))) = Len(p)
        /\ \A i \in 1 .. Len(p) : SubSeq(q, 1, Len(p))[i] = p[i]
    BY <1>2, <1>3, <2>1
  <2> QED  BY <1>1, <2>2, SameName
<1>6. ASSUME NEW n \in 0 .. Len(q) - 1
      PROVE  SubSeq(q, 1, n) \in DOMAIN split \union {p}
  <2>1. CASE n = Len(p)
    BY <1>5, <2>1
  <2>2. CASE n # Len(p)
    <3>1. n \in 0 .. Len(p) - 1 /\ n \in 0 .. Len(p)
      BY <1>1, <1>2, <2>2
    <3>2. \A i \in 1 .. n : i \in 1 .. Len(p)
      BY <1>1, <3>1
    <3>3. SubSeq(q, 1, n) = SubSeq(p, 1, n)
      BY <1>2, <1>3, <1>4, <3>1, <3>2, SameName
    <3> QED  BY <1>4, <3>1, <3>3
  <2> QED  BY <2>1, <2>2
<1>7. q \notin DOMAIN leaf \union DOMAIN split \union {p}
  <2>1. Len(p) \in 0 .. Len(q) - 1 /\ Len(q) # Len(p)
    BY <1>1, <1>2
  <2>2. q \in DOMAIN leaf \union DOMAIN split => p \in DOMAIN split
    BY <1>5, <2>1 DEF Shape, Tree
  <2>3. q # p
    BY <2>1
  <2> QED  BY <2>2, <2>3 DEF Shape, Tree
<1> QED  BY <1>2, <1>6, <1>7 DEF q

\* KTerm_SplitPane on a leaf.
LEMMA SplitStep ==
    ASSUME Shape, NEW p \in DOMAIN leaf, NEW type, NEW ratio,
           SplitPane(p, type, ratio)
    PROVE  /\ Shape' /\ (Shown => Shown')
           /\ ClosedSessions # {} => /\ p \o <<"b">> \in DOMAIN leaf'
                                     /\ leaf'[p \o <<"b">>] = NewSession
<1>1. CASE ClosedSessions = {}
  BY <1>1 DEF SplitPane, Shape, Shown, TypeOK, Tree, ShownIsOpen, OneSessionPerPane
<1>2. CASE ClosedSessions # {}
  <2> DEFINE a == p \o <<"a">>
             b == p \o <<"b">>
             s == NewSession
  <2>1. s \in Sessions /\ ~open[s]
    BY <1>2, NewSessionFacts
  <2>2. /\ a \in Names /\ b \in Names
        /\ a \notin DOMAIN leaf \union DOMAIN split \union {p}
        /\ b \notin DOMAIN leaf \union DOMAIN split \union {p}
    BY ChildFacts
  <2>3. a # b
    <3>1. a[Len(p) + 1] = "a" /\ b[Len(p) + 1] = "b"
      BY ChildFacts
    <3> QED  BY <3>1
  <2>4. /\ \A n \in 0 .. Len(a) - 1 : SubSeq(a, 1, n) \in DOMAIN split \union {p}
        /\ \A n \in 0 .. Len(b) - 1 : SubSeq(b, 1, n) \in DOMAIN split \union {p}
    BY ChildFacts
  <2>5. /\ leaf' = [q \in (DOMAIN leaf \ {p}) \union {a, b} |->
                        IF q = a THEN leaf[p] ELSE IF q = b THEN s ELSE leaf[q]]
        /\ split' = [q \in DOMAIN split \union {p} |->
                         IF q = p THEN [type |-> type, ratio |-> ratio] ELSE split[q]]
        /\ open' = [open EXCEPT ![s] = TRUE]
    BY <1>2 DEF SplitPane, SplitLeaf
  <2> HIDE DEF a, b, s
  <2>6. /\ DOMAIN leaf' = (DOMAIN leaf \ {p}) \union {a, b}
        /\ DOMAIN split' = DOMAIN split \union {p}
        /\ leaf'[a] = leaf[p] /\ leaf'[b] = s
        /\ \A q \in DOMAIN leaf \ {p} : leaf'[q] = leaf[q]
    BY <2>2, <2>3, <2>5
  <2>7. TypeOK'
    <3>1. p \in Names /\ \A q \in DOMAIN leaf : leaf[q] \in Sessions
      BY DEF Shape, TypeOK
    <3>2. leaf' \in [DOMAIN leaf' -> Sessions]
      BY <2>1, <2>5, <2>6, <3>1
    <3>3. split' = [q \in DOMAIN split' |-> split'[q]]
      BY <2>5, <2>6
    <3>4. open' \in [Sessions -> BOOLEAN]
      BY <2>1, <2>5 DEF Shape, TypeOK
    <3> QED  BY <2>2, <2>6, <3>1, <3>2, <3>3, <3>4 DEF Shape, TypeOK
  <2>8. Tree'
    <3>1. DOMAIN leaf' \cap DOMAIN split' = {}
      BY <2>2, <2>6 DEF Shape, Tree
    <3>2. ASSUME NEW q \in DOMAIN leaf' \union DOMAIN split', NEW n \in 0 .. Len(q) - 1
          PROVE  SubSeq(q, 1, n) \in DOMAIN split'
      <4>1. CASE q \in {a, b}
        BY <2>4, <2>6, <4>1
      <4>2. CASE q \notin {a, b}
        BY <2>6, <4>2 DEF Shape, Tree
      <4> QED  BY <4>1, <4>2
    <3> QED  BY <3>1, <3>2 DEF Tree
  <2>9. ASSUME Shown PROVE ShownIsOpen'
    <3>1. \A q \in DOMAIN leaf : open[leaf[q]] /\ leaf[q] \in Sessions
      BY <2>9 DEF Shown, ShownIsOpen, Shape, TypeOK
    <3>2. ASSUME NEW q \in DOMAIN leaf'
          PROVE  leaf'[q] \in Sessions /\ (leaf'[q] = s \/ open[leaf'[q]])
      BY <2>1, <2>6, <3>1
    <3>3. ASSUME NEW q \in DOMAIN leaf' PROVE open'[leaf'[q]]
      BY <2>1, <2>5, <3>2 DEF Shape, TypeOK
    <3> QED  BY <3>3 DEF ShownIsOpen
  <2>10. ASSUME Shown PROVE OneSessionPerPane'
    <3>1. \A q \in DOMAIN leaf : leaf[q] # s
      BY <2>1, <2>10 DEF Shown, ShownIsOpen
    <3>2. \A q, r \in DOMAIN leaf : leaf[q] = leaf[r] => q = r
      BY <2>10 DEF Shown, OneSessionPerPane
    <3> QED  BY <2>6, <3>1, <3>2 DEF OneSessionPerPane
  <2> QED  BY <2>6, <2>7, <2>8, <2>9, <2>10 DEF Shape, Shown, b, s
<1> QED  BY <1>1, <1>2

\* KTerm_ClosePane on a leaf that is not the last pane.
LEMMA CloseStep ==
    ASSUME Shape, NEW p \in DOMAIN leaf, p # Root, CloseLeaf(p),
           open' = [open EXCEPT ![leaf[p]] = FALSE]
    PROVE  Shape' /\ (Shown => Shown')
<1> DEFINE L == DOMAIN leaf \ {p}
           S == DOMAIN split \ {Front(p)}
<1>1. /\ \A r \in L \union S : Up(p, r) \in Names /\ Down(p, Up(p, r)) = r
      /\ L \subseteq DOMAIN leaf /\ S \subseteq DOMAIN split
      /\ \A r \in L \union S :
            r \in (DOMAIN leaf \union DOMAIN split) \ {p, Front(p)}
  <2>1. \A r \in L \union S : r \in (DOMAIN leaf \union DOMAIN split) \ {p, Front(p)}
    BY ParentIsSplit
  <2> QED  BY <2>1, MovedOnce
<1>2. /\ leaf' = [q \in {Up(p, r) : r \in L} |-> leaf[Down(p, q)]]
      /\ split' = [q \in {Up(p, r) : r \in S} |-> split[Down(p, q)]]
  BY DEF CloseLeaf
<1>3. \A r \in L \union S, u \in L \union S : Up(p, r) = Up(p, u) => r = u
  BY <1>1
<1> HIDE DEF L, S
<1>4. /\ DOMAIN leaf' = {Up(p, r) : r \in L}
      /\ DOMAIN split' = {Up(p, r) : r \in S}
      /\ \A r \in L : leaf'[Up(p, r)] = leaf[r]
  BY <1>1, <1>2
<1>5. /\ \A r \in DOMAIN leaf : leaf[r] \in Sessions
      /\ open \in [Sessions -> BOOLEAN]
      /\ Shown => /\ \A r \in DOMAIN leaf : open[leaf[r]]
                  /\ \A q, r \in DOMAIN leaf : leaf[q] = leaf[r] => q = r
  BY DEF Shape, TypeOK, Shown, ShownIsOpen, OneSessionPerPane
<1>6. TypeOK'
  <2>1. DOMAIN leaf' \subseteq Names /\ DOMAIN split' \subseteq Names
    BY <1>1, <1>4
  <2>2. \A q \in DOMAIN leaf' : leaf'[q] \in Sessions
    BY <1>1, <1>4, <1>5
  <2>3. leaf' \in [DOMAIN leaf' -> Sessions]
    BY <1>2, <2>2
  <2>4. split' = [q \in DOMAIN split' |-> split'[q]]
    BY <1>2, <1>4
  <2>5. open' \in [Sessions -> BOOLEAN]
    BY <1>5
  <2> QED  BY <2>1, <2>3, <2>4, <2>5 DEF TypeOK
<1>7. Tree'
  <2>1. DOMAIN leaf' \cap DOMAIN split' = {}
    <3> SUFFICES ASSUME NEW r \in L, NEW u \in S, Up(p, r) = Up(p, u) PROVE FALSE
      BY <1>4
    <3>1. r = u
      BY <1>3
    <3> QED  BY <1>1, <3>1 DEF Shape, Tree
  <2>2. ASSUME NEW q \in DOMAIN leaf' \union DOMAIN split', NEW n \in 0 .. Len(q) - 1
        PROVE  SubSeq(q, 1, n) \in DOMAIN split'
    <3>1. PICK r \in L \union S : q = Up(p, r)
      BY <1>4
    <3>2. /\ r \in (DOMAIN leaf \union DOMAIN split) \ {p, Front(p)}
          /\ n \in 0 .. Len(Up(p, r)) - 1
      BY <1>1, <3>1
    <3>3. PICK u \in DOMAIN split \ {Front(p)} : SubSeq(Up(p, r), 1, n) = Up(p, u)
      BY <3>2, MovedWay
    <3> QED  BY <1>4, <3>1, <3>3 DEF S
  <2> QED  BY <2>1, <2>2 DEF Tree
<1>8. ASSUME Shown PROVE ShownIsOpen'
  <2>1. ASSUME NEW r \in L PROVE open'[leaf[r]]
    <3>1. r \in DOMAIN leaf /\ r # p
      BY DEF L
    <3>2. leaf[r] # leaf[p] /\ leaf[r] \in Sessions /\ open[leaf[r]]
      BY <1>5, <1>8, <3>1
    <3> QED  BY <1>5, <3>2
  <2> QED  BY <1>4, <2>1 DEF ShownIsOpen
<1>9. ASSUME Shown PROVE OneSessionPerPane'
  BY <1>1, <1>4, <1>5, <1>9 DEF OneSessionPerPane
<1> QED  BY <1>6, <1>7, <1>8, <1>9 DEF Shape, Shown

\* KTerm_ClosePane on any pane, and on none.
LEMMA ClosePaneStep ==
    ASSUME Shape, NEW p, ClosePane(p)
    PROVE  Shape' /\ (Shown /\ CanClose(p) /\ CloseLast = FALSE => Shown')
<1>1. CASE p \in DOMAIN leaf /\ p # Root
  <2>1. CloseLeaf(p) /\ open' = [open EXCEPT ![leaf[p]] = FALSE]
    BY <1>1 DEF ClosePane
  <2> QED  BY <1>1, <2>1, CloseStep
<1>2. CASE p \in DOMAIN leaf /\ p = Root
  <2>1. UNCHANGED <<leaf, split>> /\ open' = [open EXCEPT ![leaf[p]] = FALSE]
    BY <1>2 DEF ClosePane
  <2>2. ~(CanClose(p) /\ CloseLast = FALSE)
    BY <1>2 DEF CanClose, Shape, Tree
  <2>3. open' \in [Sessions -> BOOLEAN]
    BY <2>1 DEF Shape, TypeOK
  <2> QED  BY <2>1, <2>2, <2>3 DEF Shape, TypeOK, Tree
<1>3. CASE p \notin DOMAIN leaf
  <2>1. UNCHANGED <<leaf, split, open>>
    BY <1>3 DEF ClosePane
  <2> QED  BY <2>1 DEF Shape, Shown, TypeOK, Tree, ShownIsOpen, OneSessionPerPane
<1> QED  BY <1>1, <1>2, <1>3

-------------------------------------------------------------------------------
(* Every step *)

LEMMA InitEstablishes == Init => IInv
<1> SUFFICES ASSUME Init PROVE IInv
  OBVIOUS
<1>1. /\ DOMAIN leaf = {Root} /\ leaf[Root] = 0 /\ leaf = [p \in {Root} |-> 0]
      /\ DOMAIN split = {} /\ split = [s \in DOMAIN split |-> split[s]]
      /\ open = [s \in Sessions |-> s = 0]
  BY DEF Init
<1>2. 0 \in Sessions
  BY SessionsAssumption DEF Sessions
<1>3. Root \in Names /\ Len(Root) = 0
  BY DEF Root, Names
<1>4. TypeOK
  BY <1>1, <1>2, <1>3 DEF TypeOK
<1>5. Tree
  <2>1. \A p \in DOMAIN leaf \union DOMAIN split : 0 .. Len(p) - 1 = {}
    BY <1>1, <1>3
  <2> QED  BY <1>1, <2>1 DEF Tree
<1>6. ShownIsOpen /\ OneSessionPerPane
  BY <1>1, <1>2 DEF ShownIsOpen, OneSessionPerPane
<1> QED  BY <1>4, <1>5, <1>6 DEF IInv, Shape, Shown

LEMMA NextPreserves ==
    ASSUME Shape, [Next]_vars
    PROVE  Shape' /\ (Shown /\ CloseLast = FALSE => Shown')
<1> DEFINE Kept == Shape' /\ (Shown /\ CloseLast = FALSE => Shown')
<1> HIDE DEF Kept
<1>1. ASSUME UNCHANGED <<leaf, split, open>> PROVE Kept
  BY <1>1 DEF Kept, Shape, Shown, TypeOK, Tree, ShownIsOpen, OneSessionPerPane
<1>2. ASSUME Keyboard PROVE Kept
  <2>1. CASE OrdinaryKey \/ PrefixKey \/ PrefixAgain \/ UnknownCommand
    BY <1>1, <2>1
       DEF OrdinaryKey, PrefixKey, PrefixAgain, UnknownCommand, Deliver, layout
  <2>2. ASSUME NEW type \in Types, SplitCommand(type) PROVE Kept
    <3>1. focused \in DOMAIN leaf /\ SplitPane(focused, type, 2)
      BY <2>2 DEF SplitCommand
    <3> QED  BY <3>1, SplitStep DEF Kept
  <2>3. CASE CloseCommand
    <3>1. CanClose(focused) /\ ClosePane(focused)
      BY <2>3 DEF CloseCommand
    <3> QED  BY <3>1, ClosePaneStep DEF Kept
  <2>4. CASE NextCommand
    BY <1>1, <2>4 DEF NextCommand
  <2> QED  BY <1>2, <2>1, <2>2, <2>3, <2>4 DEF Keyboard, Command
<1>3. ASSUME Host PROVE Kept
  <2>1. ASSUME NEW p \in DOMAIN leaf, NEW type \in Types, NEW ratio \in Ratios,
               HostSplit(p, type, ratio)
        PROVE  Kept
    <3>1. SplitPane(p, type, ratio)
      BY <2>1 DEF HostSplit
    <3> QED  BY <3>1, SplitStep DEF Kept
  <2>2. CASE HostSplitFails
    <3>1. /\ open' = [open EXCEPT ![NewSession] = TRUE] /\ UNCHANGED <<leaf, split>>
          /\ ClosedSessions # {}
      BY <2>2 DEF HostSplitFails, SplitPaneFails
    <3>2. NewSession \in Sessions
      BY <3>1, NewSessionFacts
    <3> QED  BY <3>1, <3>2
             DEF Kept, Shape, Shown, TypeOK, Tree, ShownIsOpen, OneSessionPerPane
  <2>3. ASSUME NEW p \in DOMAIN leaf \union DOMAIN split, HostClose(p) PROVE Kept
    <3>1. CanClose(p) /\ ClosePane(p)
      BY <2>3 DEF HostClose
    <3> QED  BY <3>1, ClosePaneStep DEF Kept
  <2>4. ASSUME NEW s \in Sessions, SetActiveSession(s) PROVE Kept
    BY <1>1, <2>4 DEF SetActiveSession, layout
  <2>5. ASSUME NEW win \in Windows, Resize(win) PROVE Kept
    BY <1>1, <2>5 DEF Resize
  <2> QED  BY <1>3, <2>1, <2>2, <2>3, <2>4, <2>5 DEF Host
<1>4. ASSUME Update PROVE Kept
  BY <1>1, <1>4 DEF Update, layout
<1>5. ASSUME UNCHANGED vars PROVE Kept
  BY <1>1, <1>5 DEF vars, layout
<1> QED  BY <1>2, <1>3, <1>4, <1>5 DEF Next, Kept

\* The panes stay a tree.
THEOREM ShapeTheorem == Spec => []Shape
<1>1. Init => Shape
  BY InitEstablishes DEF IInv
<1>2. Shape /\ [Next]_vars => Shape'
  BY NextPreserves
<1> QED  BY <1>1, <1>2, PTL DEF Spec

\* As long as the last pane is not closed, every session a pane shows is open.
THEOREM Invariance == ASSUME CloseLast = FALSE PROVE Spec => []IInv
<1>1. IInv /\ [Next]_vars => IInv'
  BY NextPreserves DEF IInv
<1> QED  BY InitEstablishes, <1>1, PTL DEF Spec

\* No two panes show the same session, however many sessions there are and
\* however panes are split and closed, as long as KTerm_ClosePane does not meet
\* the last pane.
THEOREM OneSessionPerPaneTheorem ==
    ASSUME CloseLast = FALSE PROVE Spec => []OneSessionPerPane
<1>1. IInv => OneSessionPerPane
  BY DEF IInv, Shown
<1> QED  BY Invariance, <1>1, PTL

-------------------------------------------------------------------------------
(* Focus and active session *)

\* A step that moves the focus makes the session of the new focus active.
LEMMA FocusStep ==
    ASSUME Shape, Next, focused' # focused
    PROVE  Target' = active'
<1>1. ASSUME NEW type \in Types, SplitCommand(type) PROVE Target' = active'
  <2>1. /\ focused \in DOMAIN leaf /\ SplitPane(focused, type, 2)
        /\ ClosedSessions # {}
        /\ focused' = focused \o <<"b">> /\ active' = NewSession
    BY <1>1 DEF SplitCommand
  <2>2. focused' \in DOMAIN leaf' /\ leaf'[focused'] = NewSession
    BY <2>1, SplitStep
  <2> QED  BY <2>1, <2>2 DEF Target
<1>2. ASSUME NEW p, ClosePane(p) PROVE Target' = active'
  <2>1. active' = IF focused' \in DOMAIN leaf' THEN leaf'[focused'] ELSE active
    BY <1>2 DEF ClosePane
  <2> QED  BY <2>1 DEF Target
<1>3. CASE NextCommand
  <2>1. active' = leaf'[focused']
    BY <1>3 DEF NextCommand
  <2> QED  BY <2>1 DEF Target
<1>4. ASSUME focused' = focused PROVE FALSE
  BY <1>4
<1>5. CASE Keyboard
  <2>1. CASE OrdinaryKey \/ PrefixKey \/ PrefixAgain \/ UnknownCommand
    BY <1>4, <2>1
       DEF OrdinaryKey, PrefixKey, PrefixAgain, UnknownCommand, Deliver, layout
  <2>2. CASE CloseCommand
    BY <1>2, <2>2 DEF CloseCommand
  <2> QED  BY <1>1, <1>3, <1>5, <2>1, <2>2 DEF Keyboard, Command
<1>6. CASE Host
  <2>1. ASSUME NEW p \in DOMAIN leaf \union DOMAIN split, HostClose(p)
        PROVE  Target' = active'
    BY <1>2, <2>1 DEF HostClose
  <2> QED  BY <1>4, <1>6, <2>1
           DEF Host, HostSplit, HostSplitFails, SetActiveSession, Resize, layout
<1>7. CASE Update
  BY <1>4, <1>7 DEF Update, layout
<1> QED  BY <1>5, <1>6, <1>7 DEF Next

\* Whatever moves the focus makes the session that gets the keys from now on
\* the one whose keys KTerm_Update sends.
THEOREM FocusActivatesTheorem == Spec => FocusActivates
<1>1. Shape /\ [Next]_vars => [focused' # focused => Target' = active']_vars
  BY FocusStep
<1> QED  BY ShapeTheorem, <1>1, PTL DEF Spec, FocusActivates

-------------------------------------------------------------------------------
\* Induction on a set of numbers.
LEMMA Upward ==
    ASSUME NEW S, 0 \in S, \A n \in Nat : n \in S => n + 1 \in S
    PROVE  Nat \subseteq S
<1> DEFINE R == {ss \in Nat \X Nat : ss[1] < ss[2]}
           T == Nat \ S
<1>1. IsWellFoundedOn(R, Nat)
  <2>1. R = OpToRel(<, Nat)
    BY DEF OpToRel
  <2> QED  BY <2>1, NatLessThanWellFounded
<1>2. ASSUME T # {} PROVE FALSE
  <2>1. PICK n \in T : \A m \in T : ~(<<m, n>> \in R)
    <3>1. T \subseteq Nat
      OBVIOUS
    <3> HIDE DEF R, T
    <3> QED  BY <1>1, <1>2, <3>1, WFMin
  <2>2. n \in Nat /\ n # 0 /\ n \notin S
    BY <2>1
  <2>3. n - 1 \in Nat /\ n - 1 < n /\ (n - 1) + 1 = n
    BY <2>2
  <2>4. <<n - 1, n>> \in R
    BY <2>2, <2>3
  <2>5. n - 1 \notin T
    BY <2>1, <2>4
  <2> QED  BY <2>2, <2>3, <2>5
<1> QED  BY <1>2

-------------------------------------------------------------------------------
(* Rectangles *)

\* What Rect computes for the first n turns of a pane.
Window(win) == [x |-> 0, y |-> 0, w |-> win.w, h |-> win.h]
Areas(f, win, sp, p, m) ==
    f = [n \in 0 .. m |-> IF n = 0 THEN Window(win)
                          ELSE Child(f[n - 1], sp[SubSeq(p, 1, n - 1)], p[n])]

LEMMA AreasExist ==
    ASSUME NEW win, NEW sp, NEW p
    PROVE  \A m \in Nat : \E f : Areas(f, win, sp, p, m)
<1> DEFINE S == {m \in Nat : \E f : Areas(f, win, sp, p, m)}
           Turn(r, n) == Child(r, sp[SubSeq(p, 1, n - 1)], p[n])
<1>1. 0 \in S
  <2> DEFINE f == [n \in 0 .. 0 |-> Window(win)]
  <2>1. Areas(f, win, sp, p, 0)
    <3>1. \A n \in 0 .. 0 : n = 0
      OBVIOUS
    <3> QED  BY <3>1 DEF Areas
  <2> QED  BY <2>1
<1>2. ASSUME NEW m \in Nat, m \in S PROVE m + 1 \in S
  <2>1. PICK f : Areas(f, win, sp, p, m)
    BY <1>2
  <2>2. f = [n \in 0 .. m |-> IF n = 0 THEN Window(win) ELSE Turn(f[n - 1], n)]
    BY <2>1 DEF Areas
  <2> HIDE DEF Turn
  <2> DEFINE g == [n \in 0 .. m + 1 |-> IF n = m + 1 THEN Turn(f[m], m + 1) ELSE f[n]]
  <2>3. \A n \in 0 .. m + 1 :
            g[n] = IF n = 0 THEN Window(win) ELSE Turn(g[n - 1], n)
    <3> SUFFICES ASSUME NEW n \in 0 .. m + 1
                 PROVE  g[n] = IF n = 0 THEN Window(win) ELSE Turn(g[n - 1], n)
      OBVIOUS
    <3>1. CASE n = m + 1
      <4>1. n # 0 /\ n - 1 = m /\ m \in 0 .. m + 1 /\ m # m + 1
        BY <3>1
      <4>2. g[n - 1] = f[m]
        BY <4>1
      <4> QED  BY <3>1, <4>1, <4>2
    <3>2. CASE n # m + 1 /\ n # 0
      <4>1. n \in 0 .. m /\ n - 1 \in 0 .. m + 1 /\ n - 1 # m + 1
        BY <3>2
      <4>2. g[n] = f[n] /\ g[n - 1] = f[n - 1]
        BY <3>2, <4>1
      <4>3. f[n] = Turn(f[n - 1], n)
        BY <2>2, <3>2, <4>1
      <4> QED  BY <3>2, <4>2, <4>3
    <3>3. CASE n = 0
      <4>1. 0 \in 0 .. m /\ n # m + 1
        BY <3>3
      <4> QED  BY <2>2, <3>3, <4>1
    <3> QED  BY <3>1, <3>2, <3>3
  <2>4. g = [n \in 0 .. m + 1 |-> IF n = 0 THEN Window(win) ELSE Turn(g[n - 1], n)]
    <3> HIDE DEF g
    <3>1. g = [n \in 0 .. m + 1 |-> g[n]]
      BY DEF g
    <3> QED  BY <2>3, <3>1
  <2> HIDE DEF g
  <2>5. Areas(g, win, sp, p, m + 1)
    BY <2>4 DEF Areas, Turn
  <2> QED  BY <2>5
<1> HIDE DEF S
<1>3. Nat \subseteq S
  BY <1>1, <1>2, Upward
<1> QED  BY <1>3 DEF S

\* On the way to a pane, the areas are those of the panes on the way.
LEMMA AreasAgree ==
    ASSUME NEW win, NEW sp, NEW p \in Names, NEW q \in Names, NEW f, NEW g,
           Areas(f, win, sp, p, Len(p)), Areas(g, win, sp, q, Len(q)),
           IsPrefix(p, q)
    PROVE  f[Len(p)] = g[Len(p)]
<1> DEFINE S == {n \in Nat : n <= Len(p) => f[n] = g[n]}
<1>1. /\ Len(p) \in Nat /\ Len(q) \in Nat /\ Len(p) <= Len(q)
      /\ \A i \in 1 .. Len(p) : p[i] = q[i]
  BY PrefixFacts DEF Names
<1>2. 0 \in S
  <2>1. 0 \in 0 .. Len(p) /\ 0 \in 0 .. Len(q)
    BY <1>1
  <2> QED  BY <2>1 DEF Areas
<1>3. ASSUME NEW n \in Nat, n \in S PROVE n + 1 \in S
  <2> SUFFICES ASSUME n + 1 <= Len(p) PROVE f[n + 1] = g[n + 1]
    OBVIOUS
  <2>1. n + 1 \in 0 .. Len(p) /\ n + 1 \in 0 .. Len(q) /\ n + 1 # 0 /\ (n + 1) - 1 = n
    BY <1>1
  <2>2. /\ f[n + 1] = Child(f[n], sp[SubSeq(p, 1, n)], p[n + 1])
        /\ g[n + 1] = Child(g[n], sp[SubSeq(q, 1, n)], q[n + 1])
    BY <2>1 DEF Areas
  <2>3. SubSeq(p, 1, n) = SubSeq(q, 1, n)
    <3>1. /\ SubSeq(p, 1, n) \in Names /\ Len(SubSeq(p, 1, n)) = n
          /\ \A i \in 1 .. n : SubSeq(p, 1, n)[i] = p[i]
      BY <1>1 DEF Names
    <3>2. /\ SubSeq(q, 1, n) \in Names /\ Len(SubSeq(q, 1, n)) = n
          /\ \A i \in 1 .. n : SubSeq(q, 1, n)[i] = q[i]
      BY <1>1 DEF Names
    <3>3. \A i \in 1 .. n : p[i] = q[i]
      BY <1>1
    <3> QED  BY <3>1, <3>2, <3>3, SameName
  <2>4. f[n] = g[n] /\ p[n + 1] = q[n + 1]
    BY <1>1, <1>3
  <2> QED  BY <2>2, <2>3, <2>4
<1> HIDE DEF S
<1>4. Nat \subseteq S
  BY <1>2, <1>3, Upward
<1> QED  BY <1>1, <1>4 DEF S

\* Rect is the last of them.
LEMMA RectIsArea ==
    ASSUME NEW win, NEW sp, NEW p \in Names
    PROVE  \E f : Areas(f, win, sp, p, Len(p)) /\ Rect(win, sp, p) = f[Len(p)]
<1>1. Len(p) \in Nat
  BY DEF Names
<1>2. \E f : Areas(f, win, sp, p, Len(p))
  BY <1>1, AreasExist
<1> DEFINE f == CHOOSE f : Areas(f, win, sp, p, Len(p))
<1>3. Areas(f, win, sp, p, Len(p))
  BY <1>2
<1>4. Rect(win, sp, p) = f[Len(p)]
  BY DEF Rect, Areas, Window
<1> QED  BY <1>3, <1>4

\* The root covers the window, and a child what its parent's split gives it.
LEMMA RectFacts ==
    ASSUME NEW win, NEW sp
    PROVE  /\ Rect(win, sp, Root) = Window(win)
           /\ \A p \in Names, c \in {"a", "b"} :
                 Rect(win, sp, p \o <<c>>) = Child(Rect(win, sp, p), sp[p], c)
<1>1. Rect(win, sp, Root) = Window(win)
  <2>1. Root \in Names /\ Len(Root) = 0
    BY DEF Root, Names
  <2>2. PICK f : Areas(f, win, sp, Root, 0) /\ Rect(win, sp, Root) = f[0]
    BY <2>1, RectIsArea
  <2>3. 0 \in 0 .. 0
    OBVIOUS
  <2> QED  BY <2>2, <2>3 DEF Areas
<1>2. ASSUME NEW p \in Names, NEW c \in {"a", "b"}
      PROVE  Rect(win, sp, p \o <<c>>) = Child(Rect(win, sp, p), sp[p], c)
  <2> DEFINE q == p \o <<c>>
             n == Len(p)
  <2>1. /\ q \in Names /\ n \in Nat /\ Len(q) = n + 1 /\ q[n + 1] = c
        /\ \A i \in 1 .. n : p[i] = q[i]
    BY DEF Names
  <2> HIDE DEF q
  <2>2. SubSeq(q, 1, n) = p
    <3>1. /\ SubSeq(q, 1, n) \in Names /\ Len(SubSeq(q, 1, n)) = n
          /\ \A i \in 1 .. n : SubSeq(q, 1, n)[i] = q[i]
      BY <2>1 DEF Names
    <3> QED  BY <2>1, <3>1, SameName
  <2>3. PICK f : Areas(f, win, sp, p, n) /\ Rect(win, sp, p) = f[n]
    BY RectIsArea
  <2>4. PICK g : Areas(g, win, sp, q, n + 1) /\ Rect(win, sp, q) = g[n + 1]
    BY <2>1, RectIsArea
  <2>5. f[n] = g[n]
    <3>1. Areas(f, win, sp, p, Len(p)) /\ Areas(g, win, sp, q, Len(q))
      BY <2>1, <2>3, <2>4
    <3>2. IsPrefix(p, q)
      BY <2>1, PrefixFacts
    <3>3. q \in Names
      BY <2>1
    <3> QED  BY <3>1, <3>2, <3>3, AreasAgree
  <2>6. n + 1 \in 0 .. n + 1 /\ n + 1 # 0 /\ (n + 1) - 1 = n
    BY <2>1
  <2>7. g[n + 1] = Child(g[n], sp[SubSeq(q, 1, n)], q[n + 1])
    BY <2>4, <2>6 DEF Areas
  <2> QED  BY <2>1, <2>2, <2>3, <2>4, <2>5, <2>7 DEF q
<1> QED  BY <1>1, <1>2

-------------------------------------------------------------------------------
(* A tree of splits tiles the window *)

Rects == [x : Int, y : Int, w : Nat, h : Nat]

\* A split has both children, its ratio is one of its quarters, the tree has a
\* root and an end.
Panes == DOMAIN leaf \union DOMAIN split
Children == Root \in Panes /\ \A s \in DOMAIN split : s \o <<"a">> \in Panes /\ s \o <<"b">> \in Panes
Cuts == \A s \in DOMAIN split : split[s].ratio \in 0 .. 4
Shallow == \E n \in Nat : \A s \in DOMAIN split : Len(s) <= n
Whole == Children /\ Cuts /\ Shallow /\ window \in Windows

\* Does the rectangle have the cell?
Has(r, x, y) == x \in r.x .. r.x + r.w - 1 /\ y \in r.y .. r.y + r.h - 1

\* A share of a length.
LEMMA Share ==
    ASSUME NEW n \in Nat, NEW ratio \in 0 .. 4
    PROVE  (n * ratio) \div 4 \in 0 .. n
<1>1. ratio = 0 \/ ratio = 1 \/ ratio = 2 \/ ratio = 3 \/ ratio = 4
  OBVIOUS
<1>2. CASE ratio = 0
  BY <1>2
<1>3. CASE ratio = 1
  BY <1>3
<1>4. CASE ratio = 2
  BY <1>4
<1>5. CASE ratio = 3
  BY <1>5
<1>6. CASE ratio = 4
  BY <1>6
<1> QED  BY <1>1, <1>2, <1>3, <1>4, <1>5, <1>6

\* Every cell of a split is one of either child.
LEMMA ChildTiles ==
    ASSUME NEW r \in Rects, NEW s, s.ratio \in 0 .. 4
    PROVE  /\ Child(r, s, "a") \in Rects /\ Child(r, s, "b") \in Rects
           /\ \A x, y \in Int :
                 /\ Has(r, x, y) <=> Has(Child(r, s, "a"), x, y) \/ Has(Child(r, s, "b"), x, y)
                 /\ ~(Has(Child(r, s, "a"), x, y) /\ Has(Child(r, s, "b"), x, y))
<1>0. r.x \in Int /\ r.y \in Int /\ r.w \in Nat /\ r.h \in Nat
  BY DEF Rects
<1>1. CASE s.type = "horizontal"
  <2> DEFINE k == (r.w * s.ratio) \div 4
  <2>1. k \in 0 .. r.w
    BY <1>0, Share
  <2>2. /\ Child(r, s, "a") = [r EXCEPT !.w = k]
        /\ Child(r, s, "b") = [r EXCEPT !.x = @ + k, !.w = @ - k]
    BY <1>1 DEF Child
  <2> HIDE DEF k
  <2>3. /\ Child(r, s, "a") = [x |-> r.x, y |-> r.y, w |-> k, h |-> r.h]
        /\ Child(r, s, "b") = [x |-> r.x + k, y |-> r.y, w |-> r.w - k, h |-> r.h]
    BY <2>2 DEF Rects
  <2> QED  BY <1>0, <2>1, <2>3 DEF Rects, Has
<1>2. CASE s.type # "horizontal"
  <2> DEFINE k == (r.h * s.ratio) \div 4
  <2>1. k \in 0 .. r.h
    BY <1>0, Share
  <2>2. /\ Child(r, s, "a") = [r EXCEPT !.h = k]
        /\ Child(r, s, "b") = [r EXCEPT !.y = @ + k, !.h = @ - k]
    BY <1>2 DEF Child
  <2> HIDE DEF k
  <2>3. /\ Child(r, s, "a") = [x |-> r.x, y |-> r.y, w |-> r.w, h |-> k]
        /\ Child(r, s, "b") = [x |-> r.x, y |-> r.y + k, w |-> r.w, h |-> r.h - k]
    BY <2>2 DEF Rects
  <2> QED  BY <1>0, <2>1, <2>3 DEF Rects, Has
<1> QED  BY <1>1, <1>2

\* The way from a pane to its parent.
LEMMA Parent ==
    ASSUME Shape, NEW p \in Panes, p # Root
    PROVE  /\ p \in Names /\ Front(p) \in DOMAIN split /\ Front(p) \in Names
           /\ Len(p) \in Nat /\ Len(p) > 0 /\ Len(Front(p)) = Len(p) - 1
           /\ Last(p) \in {"a", "b"} /\ p = Front(p) \o <<Last(p)>>
           /\ \A i \in 1 .. Len(p) - 1 : Front(p)[i] = p[i]
<1>1. p \in Names /\ Len(p) \in Nat
  BY DEF Shape, TypeOK, Panes, Names
<1>2. /\ Front(p) \in Names /\ Len(p) > 0 /\ Len(Front(p)) = Len(p) - 1
      /\ Last(p) \in {"a", "b"} /\ p = Front(p) \o <<Last(p)>>
      /\ \A i \in 1 .. Len(p) - 1 : Front(p)[i] = p[i]
  BY <1>1, FrontFacts
<1>3. Len(p) - 1 \in 0 .. Len(p) - 1
  BY <1>1, <1>2
<1>4. SubSeq(p, 1, Len(p) - 1) \in DOMAIN split
  BY <1>3 DEF Shape, Tree, Panes
<1> QED  BY <1>1, <1>2, <1>4 DEF Front

\* The rectangle of pane p now.
Area(p) == Rect(window, split, p)

LEMMA AreaFacts ==
    ASSUME Shape, Whole
    PROVE  /\ Area(Root) = Window(window)
           /\ \A p \in Names, c \in {"a", "b"} :
                 Area(p \o <<c>>) = Child(Area(p), split[p], c)
           /\ \A p \in Panes : Area(p) \in Rects
<1>1. Area(Root) = Window(window)
  BY RectFacts DEF Area
<1>2. \A p \in Names, c \in {"a", "b"} : Area(p \o <<c>>) = Child(Area(p), split[p], c)
  BY RectFacts DEF Area
<1> DEFINE S == {n \in Nat : \A p \in Panes : Len(p) = n => Area(p) \in Rects}
<1>3. 0 \in S
  <2>1. ASSUME NEW p \in Panes, Len(p) = 0 PROVE p = Root
    <3> SUFFICES ASSUME p # Root PROVE FALSE
      OBVIOUS
    <3>1. Len(p) \in Nat /\ Len(p) > 0
      BY Parent
    <3> QED  BY <2>1, <3>1
  <2>2. Window(window) \in Rects
    BY WindowsAssumption DEF Whole, Window, Rects
  <2> QED  BY <1>1, <2>1, <2>2
<1>4. ASSUME NEW n \in Nat, n \in S PROVE n + 1 \in S
  <2> SUFFICES ASSUME NEW p \in Panes, Len(p) = n + 1 PROVE Area(p) \in Rects
    OBVIOUS
  <2>1. p # Root
    BY DEF Root
  <2>2. /\ Front(p) \in DOMAIN split /\ Front(p) \in Names /\ Len(Front(p)) = n
        /\ Last(p) \in {"a", "b"} /\ p = Front(p) \o <<Last(p)>>
    BY <2>1, Parent
  <2>3. Area(Front(p)) \in Rects
    BY <1>4, <2>2 DEF Panes
  <2>4. split[Front(p)].ratio \in 0 .. 4
    BY <2>2 DEF Whole, Cuts
  <2>5. Child(Area(Front(p)), split[Front(p)], Last(p)) \in Rects
    BY <2>2, <2>3, <2>4, ChildTiles
  <2> QED  BY <1>2, <2>2, <2>5
<1> HIDE DEF S
<1>5. Nat \subseteq S
  BY <1>3, <1>4, Upward
<1>6. \A p \in Panes : Len(p) \in Nat
  BY DEF Shape, TypeOK, Panes, Names
<1> QED  BY <1>1, <1>2, <1>5, <1>6 DEF S

\* Every cell of a split is one of either child.
LEMMA SplitTiles ==
    ASSUME Shape, Whole, NEW s \in DOMAIN split, NEW x \in Int, NEW y \in Int
    PROVE  LET a == Has(Area(s \o <<"a">>), x, y)
               b == Has(Area(s \o <<"b">>), x, y)
           IN  (Has(Area(s), x, y) <=> a \/ b) /\ ~(a /\ b)
<1>1. s \in Names /\ s \in Panes
  BY DEF Shape, TypeOK, Panes
<1>2. Area(s) \in Rects /\ split[s].ratio \in 0 .. 4
  BY <1>1, AreaFacts DEF Whole, Cuts
<1>3. /\ Area(s \o <<"a">>) = Child(Area(s), split[s], "a")
      /\ Area(s \o <<"b">>) = Child(Area(s), split[s], "b")
  BY <1>1, AreaFacts
<1> QED  BY <1>2, <1>3, ChildTiles

\* A cell of a pane is one of every pane on the way to it.
LEMMA AllTheWay ==
    ASSUME Shape, Whole, NEW x \in Int, NEW y \in Int
    PROVE  \A q \in Panes : Has(Area(q), x, y) =>
               \A n \in 0 .. Len(q) : Has(Area(SubSeq(q, 1, n)), x, y)
<1> DEFINE S == {m \in Nat : \A q \in Panes : Len(q) = m /\ Has(Area(q), x, y) =>
                    \A n \in 0 .. m : Has(Area(SubSeq(q, 1, n)), x, y)}
<1>0. \A q \in Panes : q \in Names /\ Len(q) \in Nat /\ SubSeq(q, 1, Len(q)) = q
  BY DEF Shape, TypeOK, Panes, Names
<1>1. 0 \in S
  <2>1. \A n \in 0 .. 0 : n = 0
    OBVIOUS
  <2> QED  BY <1>0, <2>1
<1>2. ASSUME NEW m \in Nat, m \in S PROVE m + 1 \in S
  <2> SUFFICES ASSUME NEW q \in Panes, Len(q) = m + 1, Has(Area(q), x, y),
                      NEW n \in 0 .. m + 1
               PROVE  Has(Area(SubSeq(q, 1, n)), x, y)
    OBVIOUS
  <2>1. q # Root
    BY DEF Root
  <2>2. /\ Front(q) \in DOMAIN split /\ Front(q) \in Names /\ Len(Front(q)) = m
        /\ Last(q) \in {"a", "b"} /\ q = Front(q) \o <<Last(q)>>
        /\ Front(q) \in Panes /\ q \in Names
        /\ \A i \in 1 .. m : Front(q)[i] = q[i]
    BY <2>1, Parent DEF Panes
  <2>3. Has(Area(Front(q)), x, y)
    BY <2>2, SplitTiles
  <2>4. CASE n = m + 1
    BY <1>0, <2>4
  <2>5. CASE n # m + 1
    <3>1. n \in 0 .. m
      BY <2>5
    <3>2. Has(Area(SubSeq(Front(q), 1, n)), x, y)
      BY <1>2, <2>2, <2>3, <3>1
    <3>3. /\ SubSeq(Front(q), 1, n) \in Names /\ Len(SubSeq(Front(q), 1, n)) = n
          /\ \A i \in 1 .. n : SubSeq(Front(q), 1, n)[i] = Front(q)[i]
      BY <2>2, <3>1 DEF Names
    <3>4. /\ SubSeq(q, 1, n) \in Names /\ Len(SubSeq(q, 1, n)) = n
          /\ \A i \in 1 .. n : SubSeq(q, 1, n)[i] = q[i]
      BY <2>2, <3>1 DEF Names
    <3>5. \A i \in 1 .. n : i \in 1 .. m
      BY <3>1
    <3>6. SubSeq(Front(q), 1, n) = SubSeq(q, 1, n)
      BY <2>2, <3>3, <3>4, <3>5, SameName
    <3> QED  BY <3>2, <3>6
  <2> QED  BY <2>4, <2>5
<1> HIDE DEF S
<1>3. Nat \subseteq S
  BY <1>1, <1>2, Upward
<1> QED  BY <1>0, <1>3 DEF S

\* Panes of one depth have no cell in common.
LEMMA DepthsApart ==
    ASSUME Shape, Whole, NEW x \in Int, NEW y \in Int
    PROVE  \A p, q \in Panes :
               Len(p) = Len(q) /\ Has(Area(p), x, y) /\ Has(Area(q), x, y) => p = q
<1> DEFINE S == {n \in Nat : \A p, q \in Panes :
                    Len(p) = n /\ Len(q) = n /\ Has(Area(p), x, y) /\ Has(Area(q), x, y) => p = q}
<1>0. \A q \in Panes : Len(q) \in Nat
  BY DEF Shape, TypeOK, Panes, Names
<1>1. 0 \in S
  <2>1. ASSUME NEW p \in Panes, Len(p) = 0 PROVE p = Root
    <3> SUFFICES ASSUME p # Root PROVE FALSE
      OBVIOUS
    <3>1. Len(p) \in Nat /\ Len(p) > 0
      BY Parent
    <3> QED  BY <2>1, <3>1
  <2> QED  BY <2>1
<1>2. ASSUME NEW n \in Nat, n \in S PROVE n + 1 \in S
  <2> SUFFICES ASSUME NEW p \in Panes, NEW q \in Panes, Len(p) = n + 1, Len(q) = n + 1,
                      Has(Area(p), x, y), Has(Area(q), x, y)
               PROVE  p = q
    OBVIOUS
  <2>1. p # Root /\ q # Root
    BY DEF Root
  <2>2. /\ Front(p) \in DOMAIN split /\ Len(Front(p)) = n /\ Front(p) \in Panes
        /\ Last(p) \in {"a", "b"} /\ p = Front(p) \o <<Last(p)>>
    BY <2>1, Parent DEF Panes
  <2>3. /\ Front(q) \in DOMAIN split /\ Len(Front(q)) = n /\ Front(q) \in Panes
        /\ Last(q) \in {"a", "b"} /\ q = Front(q) \o <<Last(q)>>
    BY <2>1, Parent DEF Panes
  <2>4. Has(Area(Front(p)), x, y) /\ Has(Area(Front(q)), x, y)
    BY <2>2, <2>3, SplitTiles
  <2>5. Front(p) = Front(q)
    BY <1>2, <2>2, <2>3, <2>4
  <2>6. Last(p) = Last(q)
    <3> DEFINE s == Front(p)
               In(c) == Has(Area(s \o <<c>>), x, y)
    <3>1. ~(In("a") /\ In("b"))
      BY <2>2, SplitTiles
    <3>2. p = s \o <<Last(p)>> /\ q = s \o <<Last(q)>>
      BY <2>2, <2>3, <2>5
    <3> HIDE DEF s
    <3>3. In(Last(p)) /\ In(Last(q))
      BY <3>2
    <3> HIDE DEF In
    <3> QED  BY <2>2, <2>3, <3>1, <3>3
  <2> QED  BY <2>2, <2>3, <2>5, <2>6
<1> HIDE DEF S
<1>3. Nat \subseteq S
  BY <1>1, <1>2, Upward
<1> QED  BY <1>0, <1>3 DEF S

\* A cell of the window is in some leaf: it is in a split of every depth unless
\* it is in a leaf, and the tree has an end.
LEMMA SomeLeaf ==
    ASSUME Shape, Whole, NEW x \in 0 .. window.w - 1, NEW y \in 0 .. window.h - 1
    PROVE  \E p \in DOMAIN leaf : Has(Area(p), x, y)
<1> SUFFICES ASSUME \A p \in DOMAIN leaf : ~Has(Area(p), x, y)
             PROVE  FALSE
  OBVIOUS
<1> DEFINE S == {n \in Nat : \E s \in DOMAIN split : Len(s) = n /\ Has(Area(s), x, y)}
<1>0. window.w \in Nat /\ window.h \in Nat /\ x \in Int /\ y \in Int
  BY WindowsAssumption DEF Whole
<1>1. 0 \in S
  <2>1. Root \in Panes /\ Len(Root) = 0
    BY DEF Whole, Children, Root
  <2>2. Has(Area(Root), x, y)
    BY <1>0, AreaFacts DEF Window, Has
  <2> QED  BY <2>1, <2>2 DEF Panes
<1>2. ASSUME NEW n \in Nat, n \in S PROVE n + 1 \in S
  <2>1. PICK s \in DOMAIN split : Len(s) = n /\ Has(Area(s), x, y)
    BY <1>2
  <2>2. s \in Names
    BY DEF Shape, TypeOK
  <2>3. PICK c \in {"a", "b"} : Has(Area(s \o <<c>>), x, y)
    BY <1>0, <2>1, SplitTiles
  <2>4. s \o <<c>> \in Panes
    BY DEF Whole, Children
  <2>5. Len(s \o <<c>>) = n + 1
    BY <2>1, <2>2 DEF Names
  <2> DEFINE t == s \o <<c>>
  <2>6. t \in DOMAIN split
    BY <2>3, <2>4 DEF Panes
  <2>7. Len(t) = n + 1 /\ Has(Area(t), x, y)
    BY <2>3, <2>5
  <2> HIDE DEF t
  <2> QED  BY <2>6, <2>7
<1> HIDE DEF S
<1>3. Nat \subseteq S
  BY <1>1, <1>2, Upward
<1>4. PICK n \in Nat : \A s \in DOMAIN split : Len(s) <= n
  BY DEF Whole, Shallow
<1>5. n + 1 \in S
  BY <1>3
<1> QED  BY <1>4, <1>5 DEF S

\* No cell is in two leaves: the shorter name would be that of a split.
LEMMA OneLeaf ==
    ASSUME Shape, Whole, NEW x \in Int, NEW y \in Int,
           NEW p \in DOMAIN leaf, NEW q \in DOMAIN leaf,
           Has(Area(p), x, y), Has(Area(q), x, y), Len(p) <= Len(q)
    PROVE  p = q
<1>1. p \in Names /\ q \in Names /\ Len(p) \in Nat /\ Len(q) \in Nat
      /\ p \in Panes /\ q \in Panes
  BY DEF Shape, TypeOK, Names, Panes
<1>2. CASE Len(p) = Len(q)
  BY <1>1, <1>2, DepthsApart
<1>3. CASE Len(p) < Len(q)
  <2> DEFINE s == SubSeq(q, 1, Len(p))
  <2>1. Len(p) \in 0 .. Len(q) - 1 /\ Len(p) \in 0 .. Len(q)
    BY <1>1, <1>3
  <2>2. s \in DOMAIN split
    BY <1>1, <2>1 DEF Shape, Tree, Panes
  <2>3. Len(s) = Len(p)
    BY <1>1, <2>1 DEF Names
  <2>4. Has(Area(s), x, y)
    BY <1>1, <2>1, AllTheWay
  <2>5. s = p
    BY <1>1, <2>2, <2>3, <2>4, DepthsApart DEF Panes
  <2> QED  BY <2>2, <2>5 DEF Shape, Tree
<1> QED  BY <1>1, <1>2, <1>3

LEMMA TreeTiles ==
    ASSUME Shape, Whole
    PROVE  PanesTile
<1> SUFFICES ASSUME NEW x \in 0 .. window.w - 1, NEW y \in 0 .. window.h - 1
             PROVE  Cardinality({p \in DOMAIN leaf : Has(Area(p), x, y)}) = 1
  BY DEF PanesTile, Has, Area
<1>1. x \in Int /\ y \in Int
  BY WindowsAssumption DEF Whole
<1>2. PICK p \in DOMAIN leaf : Has(Area(p), x, y)
  BY SomeLeaf
<1>3. ASSUME NEW q \in DOMAIN leaf, Has(Area(q), x, y) PROVE q = p
  <2>1. Len(p) \in Nat /\ Len(q) \in Nat
    BY DEF Shape, TypeOK, Names
  <2> QED  BY <1>1, <1>2, <1>3, <2>1, OneLeaf
<1>4. {q \in DOMAIN leaf : Has(Area(q), x, y)} = {p}
  BY <1>2, <1>3
<1> QED  BY <1>4, FS_Singleton

-------------------------------------------------------------------------------
(* What the sessions are told *)

\* Each session that is shown has been told the size of its pane.
Told == \A p \in DOMAIN leaf : dims[leaf[p]] = <<Area(p).w, Area(p).h>>

\* The resize callbacks tell a session that one pane shows the size of that pane.
LEMMA ResizedFits ==
    ASSUME NEW win, NEW l, NEW sp, NEW p \in DOMAIN l, l[p] \in Sessions,
           \A q \in DOMAIN l : l[q] = l[p] => q = p
    PROVE  Resized(win, l, sp)[l[p]] = <<Rect(win, sp, p).w, Rect(win, sp, p).h>>
<1> DEFINE s == l[p]
           panes == {q \in DOMAIN l : l[q] = s}
           last == CHOOSE q \in panes : \A r \in panes \ {q} : Before(r, q)
<1>1. panes = {p}
  OBVIOUS
<1>2. Resized(win, l, sp)[s] =
          IF panes = {} THEN dims[s] ELSE <<Rect(win, sp, last).w, Rect(win, sp, last).h>>
  BY DEF Resized
<1> HIDE DEF panes
<1>3. last = p
  BY <1>1
<1> QED  BY <1>1, <1>2, <1>3

\* So Told holds after every step that calculates the layout anew.
LEMMA ToldAnew ==
    ASSUME IInv', dims' = Resized(window', leaf', split')
    PROVE  Told'
<1> SUFFICES ASSUME NEW p \in DOMAIN leaf'
             PROVE  dims'[leaf'[p]] = <<Rect(window', split', p).w, Rect(window', split', p).h>>
  BY DEF Told, Area
<1>1. leaf'[p] \in Sessions
  BY DEF IInv, Shape, TypeOK
<1>2. \A q \in DOMAIN leaf' : leaf'[q] = leaf'[p] => q = p
  BY DEF IInv, Shown, OneSessionPerPane
<1> QED  BY <1>1, <1>2, ResizedFits

-------------------------------------------------------------------------------
(* The steps keep the tree whole *)

\* A leaf becomes a split with two children.
LEMMA SplitKeepsWhole ==
    ASSUME Shape, Whole, NEW p \in DOMAIN leaf, NEW type, NEW ratio \in 0 .. 4,
           SplitPane(p, type, ratio), window' = window
    PROVE  Whole'
<1>1. CASE ClosedSessions = {}
  <2>1. UNCHANGED <<leaf, split, window>>
    BY <1>1 DEF SplitPane
  <2> QED  BY <2>1 DEF Whole, Children, Cuts, Shallow, Panes
<1>2. CASE ClosedSessions # {}
  <2> DEFINE a == p \o <<"a">>
             b == p \o <<"b">>
  <2>1. /\ DOMAIN leaf' = (DOMAIN leaf \ {p}) \union {a, b}
        /\ split' = [q \in DOMAIN split \union {p} |->
                         IF q = p THEN [type |-> type, ratio |-> ratio] ELSE split[q]]
    BY <1>2 DEF SplitPane, SplitLeaf
  <2>2. DOMAIN split' = DOMAIN split \union {p}
    BY <2>1
  <2>3. Panes' = Panes \union {a, b}
    BY <2>1, <2>2 DEF Panes
  <2>4. Children'
    BY <2>2, <2>3 DEF Whole, Children
  <2>5. Cuts'
    BY <2>1, <2>2 DEF Whole, Cuts
  <2>6. Shallow'
    <3>1. PICK n \in Nat : \A s \in DOMAIN split : Len(s) <= n
      BY DEF Whole, Shallow
    <3>2. \A s \in DOMAIN split \union {p} : Len(s) \in Nat
      BY DEF Shape, TypeOK, Names
    <3>3. n + Len(p) \in Nat /\ \A s \in DOMAIN split' : Len(s) <= n + Len(p)
      BY <2>2, <3>1, <3>2
    <3> QED  BY <3>3 DEF Shallow
  <2> QED  BY <2>4, <2>5, <2>6 DEF Whole
<1> QED  BY <1>1, <1>2

\* A child of a split that stays moves with it.
LEMMA MovedChild ==
    ASSUME NEW p \in Names, p # Root, NEW u \in Names, u # Front(p), NEW c \in {"a", "b"}
    PROVE  Up(p, u \o <<c>>) = Up(p, u) \o <<c>>
<1> DEFINE f == Front(p)
           s == Sibling(p)
           v == u \o <<c>>
<1>1. /\ f \in Names /\ s \in Names /\ Len(s) = Len(p) /\ Len(f) = Len(p) - 1
      /\ Len(p) > 0 /\ Len(p) \in Nat
      /\ \A i \in 1 .. Len(p) - 1 : s[i] = p[i] /\ f[i] = p[i]
  <2>1. Len(p) \in Nat
    BY DEF Names
  <2> QED  BY <2>1, FrontFacts
<1>2. /\ v \in Names /\ Len(u) \in Nat /\ Len(v) = Len(u) + 1
      /\ \A i \in 1 .. Len(u) : v[i] = u[i]
  BY DEF Names
<1> HIDE DEF f, s, v
<1>3. CASE IsPrefix(s, u)
  <2> DEFINE w == Rest(s, u)
  <2>1. w \in Names /\ u = s \o w
    BY <1>1, <1>3, RestFacts
  <2>2. Up(p, u) = f \o w
    BY <1>3 DEF Up, f, s
  <2> HIDE DEF w
  <2>3. v = s \o (w \o <<c>>) /\ w \o <<c>> \in Names
    BY <1>1, <2>1 DEF v, Names
  <2>4. IsPrefix(s, v) /\ Rest(s, v) = w \o <<c>>
    BY <1>1, <2>3, RestFacts
  <2>5. Up(p, v) = f \o (w \o <<c>>)
    BY <2>4 DEF Up, f, s
  <2>6. f \o (w \o <<c>>) = (f \o w) \o <<c>>
    BY <1>1, <2>1 DEF Names
  <2> QED  BY <2>2, <2>5, <2>6 DEF v
<1>4. CASE ~IsPrefix(s, u)
  <2>1. ~IsPrefix(s, v)
    <3> SUFFICES ASSUME IsPrefix(s, v) PROVE FALSE
      OBVIOUS
    <3>1. Len(s) <= Len(v) /\ \A i \in 1 .. Len(s) : s[i] = v[i]
      BY <1>1, <1>2, PrefixFacts
    <3>2. CASE Len(s) <= Len(u)
      <4>1. \A i \in 1 .. Len(s) : s[i] = u[i]
        BY <1>1, <1>2, <3>1, <3>2
      <4> QED  BY <1>1, <1>4, <3>2, <4>1, PrefixFacts
    <3>3. CASE Len(s) = Len(u) + 1
      <4>1. Len(u) = Len(f) /\ \A i \in 1 .. Len(u) : u[i] = f[i]
        BY <1>1, <1>2, <3>1, <3>3
      <4>2. u = f
        BY <1>1, <4>1, SameName
      <4> QED  BY <4>2 DEF f
    <3> QED  BY <1>1, <1>2, <3>1, <3>2, <3>3
  <2> QED  BY <1>4, <2>1 DEF Up, s, v
<1> QED  BY <1>3, <1>4

\* A leaf goes with its parent, and its sibling takes the parent's place.
LEMMA CloseKeepsWhole ==
    ASSUME Shape, Whole, NEW p \in DOMAIN leaf, p # Root, CloseLeaf(p), window' = window
    PROVE  Whole'
<1> DEFINE L == DOMAIN leaf \ {p}
           S == DOMAIN split \ {Front(p)}
<1>1. /\ leaf' = [q \in {Up(p, r) : r \in L} |-> leaf[Down(p, q)]]
      /\ split' = [q \in {Up(p, r) : r \in S} |-> split[Down(p, q)]]
  BY DEF CloseLeaf
<1>2. /\ p \in Names /\ Front(p) \in DOMAIN split /\ Front(p) \notin DOMAIN leaf
      /\ p \notin DOMAIN split /\ Front(p) \in Names
      /\ Sibling(p) \in Names /\ Len(Sibling(p)) = Len(p) /\ Len(p) \in Nat /\ Len(p) > 0
      /\ Len(Front(p)) = Len(p) - 1 /\ p = Front(p) \o <<Last(p)>>
      /\ Sibling(p) = Front(p) \o (IF Last(p) = "a" THEN <<"b">> ELSE <<"a">>)
      /\ Last(p) \in {"a", "b"} /\ Sibling(p) # p
  <2>1. p \in Names
    BY DEF Shape, TypeOK
  <2>2. Sibling(p)[Len(p)] # p[Len(p)]
    BY <2>1, FrontFacts
  <2> QED  BY <2>1, <2>2, FrontFacts, ParentIsSplit DEF Sibling, Names
<1>3. /\ DOMAIN leaf' = {Up(p, r) : r \in L}
      /\ DOMAIN split' = {Up(p, r) : r \in S}
      /\ Panes' = {Up(p, r) : r \in L \union S}
      /\ L \union S = Panes \ {p, Front(p)}
  BY <1>1, <1>2 DEF Panes
<1>4. ASSUME NEW u \in S
      PROVE  u \in Names /\ u \in DOMAIN split /\ u # Front(p) /\ Down(p, Up(p, u)) = u
  <2>1. u \in (DOMAIN leaf \union DOMAIN split) \ {p, Front(p)}
    BY <1>2
  <2> QED  BY <2>1, MovedOnce DEF Shape, TypeOK
<1> HIDE DEF L, S
<1>5. Front(p) \in Panes'
  <2>1. Sibling(p) \in Panes
    BY <1>2 DEF Whole, Children
  <2>2. Sibling(p) # Front(p)
    <3>1. Len(Sibling(p)) # Len(Front(p))
      BY <1>2
    <3> QED  BY <3>1
  <2>3. Sibling(p) \in L \union S
    BY <1>2, <1>3, <2>1, <2>2
  <2>4. Up(p, Sibling(p)) = Front(p)
    <3>1. /\ Sibling(p) \o <<>> = Sibling(p) /\ Front(p) \o <<>> = Front(p)
          /\ <<>> \in Names
      BY <1>2 DEF Names
    <3>2. IsPrefix(Sibling(p), Sibling(p)) /\ Rest(Sibling(p), Sibling(p)) = <<>>
      BY <1>2, <3>1, RestFacts
    <3> QED  BY <3>1, <3>2 DEF Up
  <2> QED  BY <1>3, <2>3, <2>4
<1>6. Root \in Panes'
  <2>1. CASE Front(p) = Root
    BY <1>5, <2>1
  <2>2. CASE Front(p) # Root
    <3>1. Root \in L \union S
      BY <1>3, <2>2 DEF Whole, Children
    <3>2. Root \in Names /\ Len(Root) = 0
      BY DEF Root, Names
    <3>3. ~IsPrefix(Sibling(p), Root)
      <4> SUFFICES ASSUME IsPrefix(Sibling(p), Root) PROVE FALSE
        OBVIOUS
      <4>1. Len(Sibling(p)) <= Len(Root)
        BY <1>2, <3>2, PrefixFacts
      <4> QED  BY <1>2, <3>2, <4>1
    <3>4. Up(p, Root) = Root
      BY <3>3 DEF Up
    <3> QED  BY <1>3, <3>1, <3>4
  <2> QED  BY <2>1, <2>2
<1>7. ASSUME NEW s \in DOMAIN split', NEW c \in {"a", "b"}
      PROVE  s \o <<c>> \in Panes'
  <2>1. PICK u \in S : s = Up(p, u)
    BY <1>3
  <2>2. u \o <<c>> \in Panes
    BY <1>4 DEF Whole, Children
  <2>3. s \o <<c>> = Up(p, u \o <<c>>)
    BY <1>2, <1>4, <2>1, MovedChild
  <2> DEFINE v == u \o <<c>>
  <2>4. v # p
    <3> SUFFICES ASSUME v = p PROVE FALSE
      OBVIOUS
    <3>1. Front(v) = u
      BY <1>4 DEF Front, Names
    <3> QED  BY <1>4, <3>1
  <2> HIDE DEF v
  <2>5. CASE v = Front(p)
    <3>1. ~IsPrefix(Sibling(p), v)
      <4> SUFFICES ASSUME IsPrefix(Sibling(p), Front(p)) PROVE FALSE
        BY <2>5
      <4>1. Len(Sibling(p)) <= Len(Front(p))
        BY <1>2, PrefixFacts
      <4> QED  BY <1>2, <4>1
    <3>2. Up(p, v) = Front(p)
      BY <2>5, <3>1 DEF Up
    <3> QED  BY <1>5, <2>3, <3>2 DEF v
  <2>6. CASE v # Front(p)
    <3>1. v \in L \union S
      BY <1>3, <2>2, <2>4, <2>6 DEF v
    <3> QED  BY <1>3, <2>3, <3>1 DEF v
  <2> QED  BY <2>5, <2>6
<1>8. Children'
  BY <1>6, <1>7 DEF Children
<1>9. Cuts'
  BY <1>1, <1>3, <1>4 DEF Whole, Cuts
<1>10. Shallow'
  <2>1. PICK n \in Nat : \A s \in DOMAIN split : Len(s) <= n
    BY DEF Whole, Shallow
  <2>2. ASSUME NEW u \in S PROVE Len(Up(p, u)) <= n
    <3>1. Len(u) \in Nat /\ Len(u) <= n
      BY <1>4, <2>1 DEF Names
    <3>2. CASE IsPrefix(Sibling(p), u)
      <4> DEFINE w == Rest(Sibling(p), u)
      <4>1. w \in Names /\ u = Sibling(p) \o w
        BY <1>2, <1>4, <3>2, RestFacts
      <4>2. Up(p, u) = Front(p) \o w
        BY <3>2 DEF Up
      <4> HIDE DEF w
      <4>3. Len(u) = Len(Sibling(p)) + Len(w) /\ Len(w) \in Nat
        BY <1>2, <4>1, JoinFacts
      <4>4. Len(Up(p, u)) = Len(Front(p)) + Len(w)
        BY <1>2, <4>1, <4>2, JoinFacts
      <4> QED  BY <1>2, <3>1, <4>3, <4>4
    <3>3. CASE ~IsPrefix(Sibling(p), u)
      BY <3>1, <3>3 DEF Up
    <3> QED  BY <3>2, <3>3
  <2> QED  BY <1>3, <2>1, <2>2 DEF Shallow
<1> QED  BY <1>8, <1>9, <1>10 DEF Whole

\* KTerm_ClosePane on any pane.
LEMMA ClosePaneKeepsWhole ==
    ASSUME Shape, Whole, NEW p, ClosePane(p), window' = window
    PROVE  Whole'
<1>1. CASE p \in DOMAIN leaf /\ p # Root
  <2>1. CloseLeaf(p)
    BY <1>1 DEF ClosePane
  <2> QED  BY <1>1, <2>1, CloseKeepsWhole
<1>2. CASE ~(p \in DOMAIN leaf /\ p # Root)
  <2>1. UNCHANGED <<leaf, split, window>>
    BY <1>2 DEF ClosePane
  <2> QED  BY <2>1 DEF Whole, Children, Cuts, Shallow, Panes
<1> QED  BY <1>1, <1>2

\* What PanesFit follows from, and is not by itself inductive about.
Fit == IInv /\ Whole /\ Told

LEMMA FitAtFirst == Init => Fit
<1> SUFFICES ASSUME Init PROVE Fit
  OBVIOUS
<1>1. /\ DOMAIN leaf = {Root} /\ leaf[Root] = 0 /\ DOMAIN split = {} /\ window \in Windows
      /\ dims = [s \in Sessions |-> <<window.w, window.h>>]
  BY DEF Init
<1>2. Whole
  BY <1>1 DEF Whole, Children, Cuts, Shallow, Panes
<1>3. Told
  <2>1. Area(Root) = Window(window)
    BY RectFacts DEF Area
  <2>2. 0 \in Sessions
    BY SessionsAssumption DEF Sessions
  <2> QED  BY <1>1, <2>1, <2>2 DEF Told, Window
<1> QED  BY <1>2, <1>3, InitEstablishes DEF Fit

LEMMA FitKept ==
    ASSUME CloseLast = FALSE, Fit, [Next]_vars
    PROVE  Fit'
<1>0. IInv' /\ Shape /\ Whole /\ Told
  BY NextPreserves DEF Fit, IInv
<1> DEFINE Kept == Whole' /\ Told'
<1> HIDE DEF Kept
<1>1. ASSUME UNCHANGED <<leaf, split, window, dims>> PROVE Kept
  BY <1>0, <1>1 DEF Kept, Whole, Children, Cuts, Shallow, Panes, Told, Area
<1>2. ASSUME NEW p \in DOMAIN leaf, NEW type, NEW ratio \in 0 .. 4,
             SplitPane(p, type, ratio), window' = window
      PROVE  Kept
  <2>1. Whole'
    BY <1>0, <1>2, SplitKeepsWhole
  <2>2. CASE ClosedSessions = {}
    BY <1>1, <1>2, <2>2 DEF SplitPane
  <2>3. CASE ClosedSessions # {}
    <3>1. dims' = Resized(window', leaf', split')
      BY <1>2, <2>3 DEF SplitPane, SplitLeaf
    <3> QED  BY <1>0, <2>1, <3>1, ToldAnew DEF Kept
  <2> QED  BY <2>2, <2>3
<1>3. ASSUME NEW p, ClosePane(p), window' = window PROVE Kept
  <2>1. Whole'
    BY <1>0, <1>3, ClosePaneKeepsWhole
  <2>2. CASE p \in DOMAIN leaf /\ p # Root
    <3>1. dims' = Resized(window', leaf', split')
      BY <1>3, <2>2 DEF ClosePane, CloseLeaf
    <3> QED  BY <1>0, <2>1, <3>1, ToldAnew DEF Kept
  <2>3. CASE ~(p \in DOMAIN leaf /\ p # Root)
    BY <1>1, <1>3, <2>3 DEF ClosePane
  <2> QED  BY <2>2, <2>3
<1>4. ASSUME Keyboard PROVE Kept
  <2>1. CASE OrdinaryKey \/ PrefixKey \/ PrefixAgain \/ UnknownCommand
    BY <1>1, <2>1
       DEF OrdinaryKey, PrefixKey, PrefixAgain, UnknownCommand, Deliver, layout
  <2>2. ASSUME NEW type \in Types, SplitCommand(type) PROVE Kept
    BY <1>2, <2>2 DEF SplitCommand
  <2>3. CASE CloseCommand
    BY <1>3, <2>3 DEF CloseCommand
  <2>4. CASE NextCommand
    BY <1>1, <2>4 DEF NextCommand
  <2> QED  BY <1>4, <2>1, <2>2, <2>3, <2>4 DEF Keyboard, Command
<1>5. ASSUME Host PROVE Kept
  <2>1. ASSUME NEW p \in DOMAIN leaf, NEW type \in Types, NEW ratio \in Ratios,
               HostSplit(p, type, ratio)
        PROVE  Kept
    <3>1. ratio \in 0 .. 4 /\ SplitPane(p, type, ratio) /\ window' = window
      BY <2>1, RatiosAssumption DEF HostSplit
    <3> QED  BY <1>2, <3>1
  <2>2. CASE HostSplitFails
    BY <1>1, <2>2 DEF HostSplitFails, SplitPaneFails
  <2>3. ASSUME NEW p \in DOMAIN leaf \union DOMAIN split, HostClose(p) PROVE Kept
    BY <1>3, <2>3 DEF HostClose
  <2>4. ASSUME NEW s \in Sessions, SetActiveSession(s) PROVE Kept
    BY <1>1, <2>4 DEF SetActiveSession, layout
  <2>5. ASSUME NEW win \in Windows, Resize(win) PROVE Kept
    <3>1. /\ UNCHANGED <<leaf, split>> /\ window' \in Windows
          /\ dims' = Resized(window', leaf', split')
      BY <2>5 DEF Resize
    <3>2. Whole'
      BY <1>0, <3>1 DEF Whole, Children, Cuts, Shallow, Panes
    <3> QED  BY <1>0, <3>1, <3>2, ToldAnew DEF Kept
  <2> QED  BY <1>5, <2>1, <2>2, <2>3, <2>4, <2>5 DEF Host
<1>6. ASSUME Update PROVE Kept
  BY <1>1, <1>6 DEF Update, layout
<1>7. ASSUME UNCHANGED vars PROVE Kept
  BY <1>1, <1>7 DEF vars, layout
<1>8. Kept
  BY <1>4, <1>5, <1>6, <1>7 DEF Next
<1> QED  BY <1>0, <1>8 DEF Fit, Kept

\* However the window and the panes are cut, the panes cover the window without
\* overlap and each session has been told the size of its pane, as long as
\* KTerm_ClosePane does not meet the last pane.
THEOREM PanesFitTheorem ==
    ASSUME CloseLast = FALSE PROVE Spec => []PanesFit
<1>1. Fit => PanesFit
  <2> SUFFICES ASSUME Fit PROVE PanesFit
    OBVIOUS
  <2>1. PanesTile
    BY TreeTiles DEF Fit, IInv
  <2>2. SessionFitsPane
    BY DEF Fit, IInv, Shown, ShownIsOpen, Told, Area, SessionFitsPane
  <2> QED  BY <2>1, <2>2 DEF PanesFit
<1>2. Fit /\ [Next]_vars => Fit'
  BY FitKept
<1> QED  BY FitAtFirst, <1>1, <1>2, PTL DEF Spec

===============================================================================
