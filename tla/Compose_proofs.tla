---------------------------- MODULE Compose_proofs ----------------------------
(* Proofs about Compose, for any messages, trees, files, fields and sittings: *)
(* what the conversions of Markup do to every text, that no row shown makes   *)
(* anything live but a link to the web, that an answer is to the message that *)
(* was opened, and that an edit lands on its row.                             *)
EXTENDS Compose, WellFoundedInduction, SequenceTheorems, FiniteSetTheorems, TLAPS

(* ------------------------------------------------------------- induction *)

(* A set of numbers has a least one. *)
LEMMA Least ==
    ASSUME NEW T \in SUBSET Nat, T # {}
    PROVE  \E m \in T : \A k \in T : m <= k
<1>1. PICK m \in T : \A k \in T : ~(<<k, m>> \in OpToRel(<, Nat))
  BY WFMin, NatLessThanWellFounded, Zenon
<1>2. \A k \in T : <<k, m>> \in OpToRel(<, Nat) <=> k < m
  BY DEF OpToRel
<1>3. \A k \in T : m <= k
  <2> SUFFICES ASSUME NEW k \in T
               PROVE  m <= k
    OBVIOUS
  <2>1. ~(k < m)
    BY <1>1, <1>2, Zenon
  <2> QED
    BY <2>1
<1> QED
  BY <1>3

LEMMA MinOf ==
    ASSUME NEW T \in SUBSET Nat, T # {}
    PROVE  Min(T) \in T /\ \A k \in T : Min(T) <= k
BY Least DEF Min

(* Induction over numbers and over sequences, the property given as the set  *)
(* of what has it.                                                           *)
LEMMA NatInductionOnSet ==
    ASSUME NEW G, 0 \in G, \A n \in Nat : n \in G => n + 1 \in G
    PROVE  \A n \in Nat : n \in G
<1> DEFINE T == {n \in Nat : n \notin G}
<1> SUFFICES ASSUME T # {} PROVE FALSE
  OBVIOUS
<1>1. PICK m \in T : \A k \in T : m <= k
  BY Least
<1>2. m # 0 /\ m \in Nat
  OBVIOUS
<1>3. m - 1 \in Nat /\ m - 1 \notin T
  BY <1>1, <1>2
<1>4. (m - 1) + 1 \in G
  BY <1>3
<1> QED
  BY <1>2, <1>4

LEMMA SeqInductionOnSet ==
    ASSUME NEW S, NEW G, <<>> \in G,
           \A t \in Seq(S) : t \in G => \A c \in S : Append(t, c) \in G
    PROVE  \A t \in Seq(S) : t \in G
<1> DEFINE N == {n \in Nat : \A t \in Seq(S) : Len(t) = n => t \in G}
<1>1. 0 \in N
  BY EmptySeq
<1>2. ASSUME NEW n \in Nat, n \in N
      PROVE  n + 1 \in N
  <2> SUFFICES ASSUME NEW t \in Seq(S), Len(t) = n + 1
               PROVE  t \in G
    OBVIOUS
  <2>1. t # <<>>
    BY EmptySeq
  <2>2. PICK u \in Seq(S), c \in S : t = Append(u, c)
    BY <2>1, SequenceEmptyOrAppend
  <2>3. Len(u) = n
    BY <2>2, AppendProperties, LenProperties
  <2> QED
    BY <1>2, <2>2, <2>3
<1> HIDE DEF N
<1>3. \A n \in Nat : n \in N
  BY <1>1, <1>2, NatInductionOnSet
<1> QED
  BY <1>3, LenProperties DEF N

(* ----------------------------------------------------- flattened sequences *)

FlatOf(ss, n, f) == f = [i \in 1..n |-> IF i = 1 THEN ss[i] ELSE f[i - 1] \o ss[i]]

LEMMA FlatAt ==
    ASSUME NEW ss, NEW n \in Nat, NEW f, FlatOf(ss, n, f), NEW i \in 1..n
    PROVE  f[i] = IF i = 1 THEN ss[i] ELSE f[i - 1] \o ss[i]
<1>1. f = [j \in 1..n |-> IF j = 1 THEN ss[j] ELSE f[j - 1] \o ss[j]]
  BY DEF FlatOf
<1> QED
  BY <1>1

(* The recursive function FlattenSeq is defined with exists. *)
LEMMA FlatExists ==
    ASSUME NEW ss, NEW n \in Nat
    PROVE  \E f : FlatOf(ss, n, f)
<1> DEFINE G == {m \in Nat : \E f : FlatOf(ss, m, f)}
<1>1. 0 \in G
  <2>1. FlatOf(ss, 0, [i \in 1..0 |-> 0])
    BY DEF FlatOf
  <2> QED
    BY <2>1
<1>2. ASSUME NEW m \in Nat, m \in G
      PROVE  m + 1 \in G
  <2>1. PICK f : FlatOf(ss, m, f)
    BY <1>2
  <2> DEFINE h(i) == IF i = 1 THEN ss[i] ELSE f[i - 1] \o ss[i]
             g == [i \in 1..(m + 1) |-> h(i)]
  <2>2. \A i \in 1..m : f[i] = h(i)
    BY <2>1, FlatAt
  <2>3. \A i \in 1..(m + 1) : g[i] = IF i = 1 THEN ss[i] ELSE g[i - 1] \o ss[i]
    <3> SUFFICES ASSUME NEW i \in 1..(m + 1), i # 1
                 PROVE  g[i] = g[i - 1] \o ss[i]
      OBVIOUS
    <3>1. i - 1 \in 1..m /\ i - 1 \in 1..(m + 1)
      OBVIOUS
    <3>2. g[i - 1] = f[i - 1]
      BY <2>2, <3>1
    <3> QED
      BY <3>2
  <2>4. g = [i \in 1..(m + 1) |-> IF i = 1 THEN ss[i] ELSE g[i - 1] \o ss[i]]
    BY <2>3, Zenon
  <2>5. FlatOf(ss, m + 1, g)
    BY <2>4 DEF FlatOf
  <2> QED
    BY <2>5
<1> HIDE DEF G
<1>3. \A m \in Nat : m \in G
  BY <1>1, <1>2, NatInductionOnSet
<1> QED
  BY <1>3 DEF G

LEMMA FlatDef ==
    ASSUME NEW ss, Len(ss) \in Nat, Len(ss) # 0
    PROVE  \E f : FlatOf(ss, Len(ss), f) /\ FlattenSeq(ss) = f[Len(ss)]
<1> DEFINE F == CHOOSE f : FlatOf(ss, Len(ss), f)
<1>1. FlatOf(ss, Len(ss), F)
  BY FlatExists
<1>2. FlattenSeq(ss) = F[Len(ss)]
  BY DEF FlattenSeq, FlatOf
<1> QED
  BY <1>1, <1>2

LEMMA FlatUnique ==
    ASSUME NEW ss, NEW tt, NEW n \in Nat, NEW m \in Nat, NEW f, NEW g,
           FlatOf(ss, n, f), FlatOf(tt, m, g), n <= m, \A i \in 1..n : ss[i] = tt[i]
    PROVE  \A i \in 1..n : f[i] = g[i]
<1> DEFINE G == {k \in Nat : k \in 1..n => f[k] = g[k]}
<1>1. 0 \in G
  OBVIOUS
<1>2. ASSUME NEW k \in Nat, k \in G
      PROVE  k + 1 \in G
  <2> SUFFICES ASSUME k + 1 \in 1..n
               PROVE  f[k + 1] = g[k + 1]
    OBVIOUS
  <2>0. k + 1 \in 1..m
    OBVIOUS
  <2>1. f[k + 1] = IF k + 1 = 1 THEN ss[k + 1] ELSE f[(k + 1) - 1] \o ss[k + 1]
    BY DEF FlatOf
  <2>2. g[k + 1] = IF k + 1 = 1 THEN tt[k + 1] ELSE g[(k + 1) - 1] \o tt[k + 1]
    BY <2>0 DEF FlatOf
  <2>3. CASE k = 0
    BY <2>1, <2>2, <2>3
  <2>4. CASE k # 0
    <3>1. k \in 1..n /\ (k + 1) - 1 = k /\ k + 1 # 1
      BY <2>4
    <3>2. f[k] = g[k]
      BY <1>2, <3>1
    <3> QED
      BY <2>1, <2>2, <3>1, <3>2
  <2> QED
    BY <2>3, <2>4
<1> HIDE DEF G
<1>3. \A k \in Nat : k \in G
  BY <1>1, <1>2, NatInductionOnSet
<1> QED
  BY <1>3 DEF G

LEMMA FlatPrefix ==
    ASSUME NEW ss, NEW tt, NEW n \in Nat, NEW f, NEW g,
           FlatOf(ss, n, f), FlatOf(tt, n + 1, g), \A i \in 1..n : ss[i] = tt[i]
    PROVE  \A i \in 1..n : f[i] = g[i]
BY FlatUnique

(* One more sequence at the end goes to the end of the flattened one. *)
LEMMA FlattenEmpty == FlattenSeq(<<>>) = <<>>
BY DEF FlattenSeq

LEMMA FlattenLonger ==
    ASSUME NEW ss, NEW tt, NEW n \in Nat, Len(ss) = n, Len(tt) = n + 1,
           \A i \in 1..n : ss[i] = tt[i]
    PROVE  FlattenSeq(tt) = IF n = 0 THEN tt[1] ELSE FlattenSeq(ss) \o tt[n + 1]
<1>1. PICK g : FlatOf(tt, n + 1, g) /\ FlattenSeq(tt) = g[n + 1]
  BY FlatDef
<1>2. g[n + 1] = IF n + 1 = 1 THEN tt[n + 1] ELSE g[(n + 1) - 1] \o tt[n + 1]
  <2>1. FlatOf(tt, n + 1, g) /\ n + 1 \in Nat /\ n + 1 \in 1..(n + 1)
    BY <1>1
  <2> QED
    BY <2>1, FlatAt
<1>3. CASE n = 0
  BY <1>1, <1>2, <1>3
<1>4. CASE n # 0
  <2>1. PICK f : FlatOf(ss, n, f) /\ FlattenSeq(ss) = f[n]
    BY <1>4, FlatDef
  <2>2. \A i \in 1..n : f[i] = g[i]
    <3>1. FlatOf(ss, n, f)
      BY <2>1
    <3>2. FlatOf(tt, n + 1, g)
      BY <1>1
    <3> QED
      BY <3>1, <3>2, FlatPrefix
  <2>3. f[n] = g[n] /\ (n + 1) - 1 = n /\ n + 1 # 1
    BY <1>4, <2>2
  <2> QED
    BY <1>1, <1>2, <1>4, <2>1, <2>3
<1> QED
  BY <1>3, <1>4

LEMMA FlattenAppend ==
    ASSUME NEW S, NEW ss \in Seq(Seq(S)), NEW s \in Seq(S)
    PROVE  FlattenSeq(Append(ss, s)) = FlattenSeq(ss) \o s
<1>1. PICK n \in Nat : n = Len(ss)
  BY LenProperties
<1>2. PICK tt : tt = Append(ss, s)
  OBVIOUS
<1>3. Len(tt) = n + 1 /\ tt[n + 1] = s /\ \A i \in 1..n : ss[i] = tt[i]
  BY <1>1, <1>2, AppendProperties
<1>4. FlattenSeq(tt) = IF n = 0 THEN tt[1] ELSE FlattenSeq(ss) \o tt[n + 1]
  BY <1>1, <1>3, FlattenLonger
<1>5. CASE n = 0
  <2>1. ss = <<>>
    BY <1>1, <1>5, EmptySeq
  <2> QED
    BY <1>2, <1>3, <1>4, <1>5, <2>1, FlattenEmpty, ConcatEmptySeq
<1>6. CASE n # 0
  BY <1>2, <1>3, <1>4, <1>6
<1> QED
  BY <1>5, <1>6

LEMMA FlattenType ==
    ASSUME NEW S
    PROVE  \A ss \in Seq(Seq(S)) : FlattenSeq(ss) \in Seq(S)
<1> DEFINE G == {ss \in Seq(Seq(S)) : FlattenSeq(ss) \in Seq(S)}
<1>1. <<>> \in G
  BY FlattenEmpty, EmptySeq
<1>2. ASSUME NEW ss \in Seq(Seq(S)), ss \in G, NEW s \in Seq(S)
      PROVE  Append(ss, s) \in G
  BY <1>2, FlattenAppend, ConcatProperties, AppendProperties
<1> HIDE DEF G
<1>3. \A ss \in Seq(Seq(S)) : ss \in G
  BY <1>1, <1>2, SeqInductionOnSet
<1> QED
  BY <1>3 DEF G

LEMMA FlattenConcat ==
    ASSUME NEW S, NEW ss \in Seq(Seq(S))
    PROVE  \A tt \in Seq(Seq(S)) : FlattenSeq(ss \o tt) = FlattenSeq(ss) \o FlattenSeq(tt)
<1> DEFINE G == {tt \in Seq(Seq(S)) : FlattenSeq(ss \o tt) = FlattenSeq(ss) \o FlattenSeq(tt)}
<1>0. FlattenSeq(ss) \in Seq(S)
  BY FlattenType
<1>1. <<>> \in G
  BY <1>0, FlattenEmpty, EmptySeq, ConcatEmptySeq
<1>2. ASSUME NEW tt \in Seq(Seq(S)), tt \in G, NEW s \in Seq(S)
      PROVE  Append(tt, s) \in G
  <2>1. PICK l : l = FlattenSeq(ss)
    OBVIOUS
  <2>2. PICK r : r = FlattenSeq(tt)
    OBVIOUS
  <2>3. l \in Seq(S) /\ r \in Seq(S)
    BY <1>0, <2>1, <2>2, FlattenType
  <2>4. ss \o Append(tt, s) = Append(ss \o tt, s)
    <3>1. ss \o Append(tt, s) \in Seq(Seq(S)) /\ Append(ss \o tt, s) \in Seq(Seq(S))
      BY AppendProperties, ConcatProperties
    <3>2. Append(tt, s) = tt \o <<s>> /\ Append(ss \o tt, s) = (ss \o tt) \o <<s>>
      BY AppendIsConcat, ConcatProperties
    <3>3. <<s>> \in Seq(Seq(S))
      OBVIOUS
    <3> QED
      BY <3>2, <3>3, ConcatAssociative
  <2>5. FlattenSeq(Append(ss \o tt, s)) = FlattenSeq(ss \o tt) \o s
    BY FlattenAppend, ConcatProperties
  <2>6. FlattenSeq(ss \o tt) = l \o r
    BY <1>2, <2>1, <2>2
  <2>7. FlattenSeq(Append(tt, s)) = r \o s
    BY <2>2, FlattenAppend
  <2>8. (l \o r) \o s = l \o (r \o s)
    BY <2>3, ConcatAssociative
  <2>9. Append(tt, s) \in Seq(Seq(S))
    BY AppendProperties
  <2> QED
    BY <2>1, <2>4, <2>5, <2>6, <2>7, <2>8, <2>9
<1> HIDE DEF G
<1>3. \A tt \in Seq(Seq(S)) : tt \in G
  BY <1>1, <1>2, SeqInductionOnSet
<1> QED
  BY <1>3 DEF G

LEMMA FlattenOne ==
    ASSUME NEW S, NEW s \in Seq(S)
    PROVE  FlattenSeq(<<s>>) = s
<1>1. <<s>> = Append(<<>>, s) /\ <<>> \in Seq(Seq(S))
  OBVIOUS
<1>2. FlattenSeq(Append(<<>>, s)) = FlattenSeq(<<>>) \o s
  BY <1>1, FlattenAppend
<1> QED
  BY <1>1, <1>2, FlattenEmpty, ConcatEmptySeq

LEMMA FlattenTwo ==
    ASSUME NEW S, NEW s \in Seq(S), NEW t \in Seq(S)
    PROVE  FlattenSeq(<<s, t>>) = s \o t
<1>1. <<s, t>> = Append(<<s>>, t) /\ <<s>> \in Seq(Seq(S))
  OBVIOUS
<1> QED
  BY <1>1, FlattenAppend, FlattenOne

(* ------------------------------------------------ symbol by symbol images *)

(* The sequences h gives for the symbols of t, one after the other. *)
Image(h, t) == [i \in DOMAIN t |-> h[t[i]]]

LEMMA ImageType ==
    ASSUME NEW S, NEW T, NEW h \in [S -> T], NEW t \in Seq(S)
    PROVE  Image(h, t) \in Seq(T) /\ Len(Image(h, t)) = Len(t)
<1>1. PICK n \in Nat : n = Len(t) /\ DOMAIN t = 1..n /\ \A i \in 1..n : t[i] \in S
  BY LenProperties, ElementOfSeq
<1>2. Image(h, t) = [i \in 1..n |-> h[t[i]]]
  BY <1>1 DEF Image
<1>3. \A i \in 1..n : h[t[i]] \in T
  BY <1>1
<1>4. [i \in 1..n |-> h[t[i]]] \in Seq(T)
  BY <1>3, IsASeq
<1>5. Len([i \in 1..n |-> h[t[i]]]) = n
  OBVIOUS
<1> QED
  BY <1>1, <1>2, <1>4, <1>5

LEMMA ImageAppend ==
    ASSUME NEW S, NEW T, NEW h \in [S -> T], NEW t \in Seq(S), NEW c \in S
    PROVE  Image(h, Append(t, c)) = Append(Image(h, t), h[c])
<1>1. PICK n \in Nat : n = Len(t)
  BY LenProperties
<1>2. PICK u \in Seq(S) : u = Append(t, c)
  BY AppendProperties
<1>3. Len(u) = n + 1 /\ u[n + 1] = c /\ \A i \in 1..n : u[i] = t[i]
  BY <1>1, <1>2, AppendProperties
<1>4. PICK v \in Seq(T) : v = Image(h, t)
  BY ImageType
<1>5. PICK a \in Seq(T) : a = Image(h, u)
  BY ImageType
<1>6. PICK d \in T : d = h[c]
  OBVIOUS
<1>7. Len(a) = n + 1 /\ Len(v) = n
  BY <1>1, <1>3, <1>4, <1>5, ImageType
<1>8. PICK b \in Seq(T) : b = Append(v, d)
  BY AppendProperties
<1>8b. Len(b) = n + 1 /\ b[n + 1] = d /\ \A i \in 1..n : b[i] = v[i]
  BY <1>7, <1>8, AppendProperties
<1>9. DOMAIN t = 1..n /\ DOMAIN u = 1..(n + 1)
  BY <1>1, <1>3, LenProperties
<1>10. ASSUME NEW i \in 1..(n + 1)
       PROVE  a[i] = b[i]
  <2>1. a[i] = h[u[i]]
    BY <1>5, <1>9 DEF Image
  <2>2. CASE i = n + 1
    <3>1. u[i] = c /\ b[i] = h[c]
      BY <1>3, <1>6, <1>8b, <2>2
    <3> QED
      BY <2>1, <3>1
  <2>3. CASE i # n + 1
    <3>1. i \in 1..n
      BY <2>3
    <3>2. b[i] = h[t[i]]
      BY <1>4, <1>8b, <1>9, <3>1 DEF Image
    <3>3. u[i] = t[i]
      BY <1>3, <3>1
    <3> QED
      BY <2>1, <3>2, <3>3
  <2> QED
    BY <2>2, <2>3
<1>11. a = b
  BY <1>7, <1>8b, <1>10, SeqEqual
<1> QED
  BY <1>2, <1>4, <1>5, <1>6, <1>8, <1>11

LEMMA FlatImageType ==
    ASSUME NEW S, NEW T, NEW h \in [S -> Seq(T)], NEW t \in Seq(S)
    PROVE  FlattenSeq(Image(h, t)) \in Seq(T)
BY ImageType, FlattenType

LEMMA FlatImageEmpty ==
    ASSUME NEW h
    PROVE  FlattenSeq(Image(h, <<>>)) = <<>>
<1>1. Image(h, <<>>) = <<>>
  BY DEF Image
<1> QED
  BY <1>1, FlattenEmpty

LEMMA FlatImageAppend ==
    ASSUME NEW S, NEW T, NEW h \in [S -> Seq(T)], NEW t \in Seq(S), NEW c \in S
    PROVE  FlattenSeq(Image(h, Append(t, c))) = FlattenSeq(Image(h, t)) \o h[c]
<1>1. Image(h, Append(t, c)) = Append(Image(h, t), h[c])
  BY ImageAppend
<1>2. Image(h, t) \in Seq(Seq(T)) /\ h[c] \in Seq(T)
  BY ImageType
<1> QED
  BY <1>1, <1>2, FlattenAppend

(* Nothing is lost or added when each symbol gives itself. *)
LEMMA FlattenSymbols ==
    ASSUME NEW S
    PROVE  \A t \in Seq(S) : FlattenSeq([i \in DOMAIN t |-> <<t[i]>>]) = t
<1> DEFINE h == [c \in S |-> <<c>>]
           G == {t \in Seq(S) : FlattenSeq(Image(h, t)) = t}
<1>0. h \in [S -> Seq(S)]
  OBVIOUS
<1>1. <<>> \in G
  BY FlatImageEmpty, EmptySeq
<1>2. ASSUME NEW t \in Seq(S), t \in G, NEW c \in S
      PROVE  Append(t, c) \in G
  <2>1. FlattenSeq(Image(h, Append(t, c))) = FlattenSeq(Image(h, t)) \o h[c]
    BY <1>0, FlatImageAppend
  <2>2. t \o <<c>> = Append(t, c) /\ Append(t, c) \in Seq(S)
    BY AppendIsConcat, AppendProperties
  <2> QED
    BY <1>2, <2>1, <2>2
<1> HIDE DEF G
<1>3. \A t \in Seq(S) : t \in G
  BY <1>1, <1>2, SeqInductionOnSet
<1>4. ASSUME NEW t \in Seq(S)
      PROVE  Image(h, t) = [i \in DOMAIN t |-> <<t[i]>>]
  <2>1. \A i \in DOMAIN t : t[i] \in S
    BY LenProperties, ElementOfSeq
  <2> QED
    BY <2>1 DEF Image
<1> QED
  BY <1>3, <1>4 DEF G

(* ------------------------------------------------------------ escaped texts *)

Escaped(c) == IF c \in Tags THEN <<Backslash, c>> ELSE <<c>>
EscapedSymbols == [c \in Symbols |-> Escaped(c)]

LEMMA SymbolTypes == Tags \subseteq Symbols /\ Backslash \in Symbols /\ Backslash \notin Tags
BY SymbolsAssumption DEF Tags, Backslash, LinkOpen, LinkClose

LEMMA EscapedType ==
    /\ EscapedSymbols \in [Symbols -> Texts]
    /\ \A c \in Symbols : Escaped(c) \in Texts
BY SymbolTypes DEF EscapedSymbols, Escaped, Texts

LEMMA EscapeIsImage ==
    ASSUME NEW t \in Texts
    PROVE  Escape(t) = FlattenSeq(Image(EscapedSymbols, t))
<1>1. \A i \in DOMAIN t : t[i] \in Symbols
  BY LenProperties, ElementOfSeq DEF Texts
<1>2. Image(EscapedSymbols, t)
        = [i \in DOMAIN t |-> IF t[i] \in Tags THEN <<Backslash, t[i]>> ELSE <<t[i]>>]
  BY <1>1 DEF Image, EscapedSymbols, Escaped
<1> QED
  BY <1>2 DEF Escape

LEMMA EscapeType ==
    ASSUME NEW t \in Texts
    PROVE  Escape(t) \in Texts
BY EscapeIsImage, EscapedType, FlatImageType DEF Texts

LEMMA EscapeEmpty == Escape(<<>>) = <<>>
<1>1. <<>> \in Texts
  BY DEF Texts
<1> QED
  BY <1>1, EscapeIsImage, FlatImageEmpty

LEMMA EscapeAppend ==
    ASSUME NEW t \in Texts, NEW c \in Symbols
    PROVE  Escape(Append(t, c)) = Escape(t) \o Escaped(c)
<1>1. PICK u \in Texts : u = Append(t, c)
  BY AppendProperties DEF Texts
<1>2. FlattenSeq(Image(EscapedSymbols, Append(t, c)))
        = FlattenSeq(Image(EscapedSymbols, t)) \o EscapedSymbols[c]
  BY EscapedType, FlatImageAppend DEF Texts
<1>3. EscapedSymbols[c] = Escaped(c)
  BY DEF EscapedSymbols
<1> QED
  BY <1>1, <1>2, <1>3, EscapeIsImage

(* No tag of an escaped text is live. *)
LEMMA EscapeHidesTags ==
    ASSUME NEW t \in Texts
    PROVE  \A i \in DOMAIN Escape(t) : ~IsLive(Escape(t), i)
<1> DEFINE Hidden(u) == \A i \in 1..Len(u) : u[i] \in Tags => i > 1 /\ u[i - 1] = Backslash
           G == {u \in Texts : Hidden(Escape(u))}
<1>1. <<>> \in G
  BY EscapeEmpty DEF Texts
<1>2. ASSUME NEW u \in Texts, u \in G, NEW c \in Symbols
      PROVE  Append(u, c) \in G
  <2>1. PICK e \in Texts : e = Escape(u)
    BY EscapeType
  <2>2. PICK d \in Texts : d = Escaped(c)
    BY EscapedType
  <2>3. PICK r \in Texts : r = e \o d
    BY ConcatProperties DEF Texts
  <2>4. Len(r) = Len(e) + Len(d) /\ Len(e) \in Nat /\ Len(d) \in Nat
    BY <2>3, ConcatProperties, LenProperties DEF Texts
  <2>5. \A i \in 1..Len(r) : r[i] = IF i <= Len(e) THEN e[i] ELSE d[i - Len(e)]
    BY <2>3, <2>4, ConcatProperties DEF Texts
  <2>6. Hidden(e)
    BY <1>2, <2>1
  <2>7. \A i \in 1..Len(d) : d[i] \in Tags => i > 1 /\ d[i - 1] = Backslash
    BY <2>2, SymbolTypes DEF Escaped
  <2>8. ASSUME NEW i \in 1..Len(r), r[i] \in Tags
        PROVE  i > 1 /\ r[i - 1] = Backslash
    <3>1. CASE i <= Len(e)
      <4>1. e[i] \in Tags /\ i \in 1..Len(e)
        BY <2>4, <2>5, <2>8, <3>1
      <4>2. i > 1 /\ e[i - 1] = Backslash
        BY <2>6, <4>1
      <4>3. i - 1 \in 1..Len(r) /\ i - 1 <= Len(e)
        BY <2>4, <3>1, <4>2
      <4> QED
        BY <2>5, <4>2, <4>3
    <3>2. CASE i > Len(e)
      <4>1. PICK j \in 1..Len(d) : j = i - Len(e)
        BY <2>4, <3>2
      <4>2. d[j] \in Tags
        BY <2>4, <2>5, <2>8, <3>2, <4>1
      <4>3. j > 1 /\ d[j - 1] = Backslash
        BY <2>7, <4>2
      <4>4. i - 1 \in 1..Len(r) /\ i - 1 > Len(e) /\ (i - 1) - Len(e) = j - 1
        BY <2>4, <4>1, <4>3
      <4> QED
        BY <2>4, <2>5, <4>3, <4>4
    <3> QED
      BY <2>4, <3>1, <3>2
  <2>9. Escape(Append(u, c)) = r /\ Append(u, c) \in Texts
    BY <2>1, <2>2, <2>3, EscapeAppend, AppendProperties DEF Texts
  <2> QED
    BY <2>8, <2>9
<1> HIDE DEF G
<1>3. \A u \in Texts : u \in G
  BY <1>1, <1>2, SeqInductionOnSet DEF Texts
<1>4. PICK e \in Texts : e = Escape(t)
  BY EscapeType
<1>5. \A i \in 1..Len(e) : e[i] \in Tags => i > 1 /\ e[i - 1] = Backslash
  BY <1>3, <1>4 DEF G
<1>6. DOMAIN e = 1..Len(e)
  BY LenProperties DEF Texts
<1> QED
  BY <1>4, <1>5, <1>6 DEF IsLive

LEMMA EscapeInert ==
    ASSUME NEW t \in Texts
    PROVE  IsInert(Escape(t))
BY EscapeHidesTags DEF IsInert

(* ---------------------------------------------------------- unescaped texts *)

Kept(t, i) == IF t[i] = Backslash /\ i < Len(t) /\ t[i + 1] \in Tags THEN <<>> ELSE <<t[i]>>
KeptOf(t) == [i \in DOMAIN t |-> Kept(t, i)]

LEMMA KeptType ==
    ASSUME NEW t \in Texts
    PROVE  KeptOf(t) \in Seq(Texts) /\ Len(KeptOf(t)) = Len(t)
           /\ \A i \in 1..Len(t) : KeptOf(t)[i] = Kept(t, i)
<1>1. PICK n \in Nat : n = Len(t) /\ DOMAIN t = 1..n /\ \A i \in 1..n : t[i] \in Symbols
  BY LenProperties, ElementOfSeq DEF Texts
<1>2. \A i \in 1..n : Kept(t, i) \in Texts
  BY <1>1 DEF Kept, Texts
<1>3. [i \in 1..n |-> Kept(t, i)] \in Seq(Texts)
  BY <1>2, IsASeq
<1>4. KeptOf(t) = [i \in 1..n |-> Kept(t, i)]
  BY <1>1 DEF KeptOf
<1>5. Len([i \in 1..n |-> Kept(t, i)]) = n
  OBVIOUS
<1> QED
  BY <1>1, <1>3, <1>4, <1>5

LEMMA UnescapeIsKept ==
    ASSUME NEW t
    PROVE  Unescape(t) = FlattenSeq(KeptOf(t))
BY DEF Unescape, KeptOf, Kept

LEMMA UnescapeType ==
    ASSUME NEW t \in Texts
    PROVE  Unescape(t) \in Texts
BY UnescapeIsKept, KeptType, FlattenType DEF Texts

LEMMA UnescapeEmpty == Unescape(<<>>) = <<>>
<1>1. KeptOf(<<>>) = <<>>
  BY DEF KeptOf
<1> QED
  BY <1>1, UnescapeIsKept, FlattenEmpty

(* Texts side by side are unescaped each on its own, unless a bracket begins *)
(* the second one.                                                           *)
LEMMA UnescapeConcat ==
    ASSUME NEW u \in Texts, NEW v \in Texts, v # <<>> => v[1] \notin Tags
    PROVE  Unescape(u \o v) = Unescape(u) \o Unescape(v)
<1>1. PICK w \in Texts : w = u \o v
  BY ConcatProperties DEF Texts
<1>2. PICK n \in Nat : n = Len(u)
  BY LenProperties DEF Texts
<1>3. PICK m \in Nat : m = Len(v)
  BY LenProperties DEF Texts
<1>4. Len(w) = n + m /\ \A i \in 1..(n + m) : w[i] = IF i <= n THEN u[i] ELSE v[i - n]
  BY <1>1, <1>2, <1>3, ConcatProperties DEF Texts
<1>5. PICK a \in Seq(Texts) : a = KeptOf(u)
  BY KeptType
<1>6. PICK b \in Seq(Texts) : b = KeptOf(v)
  BY KeptType
<1>7. PICK c \in Seq(Texts) : c = KeptOf(w)
  BY KeptType
<1>8. PICK d \in Seq(Texts) : d = a \o b
  BY ConcatProperties
<1>9. Len(a) = n /\ \A i \in 1..n : a[i] = Kept(u, i)
  BY <1>2, <1>5, KeptType
<1>10. Len(b) = m /\ \A i \in 1..m : b[i] = Kept(v, i)
  BY <1>3, <1>6, KeptType
<1>11. Len(c) = n + m /\ \A i \in 1..(n + m) : c[i] = Kept(w, i)
  BY <1>4, <1>7, KeptType
<1>12. Len(d) = n + m /\ \A i \in 1..(n + m) : d[i] = IF i <= n THEN a[i] ELSE b[i - n]
  BY <1>8, <1>9, <1>10, ConcatProperties
<1>13. ASSUME NEW i \in 1..(n + m)
       PROVE  c[i] = d[i]
  <2>1. CASE i > n
    <3>1. PICK j \in 1..m : j = i - n
      BY <2>1
    <3>2. w[i] = v[j]
      BY <1>4, <2>1, <3>1
    <3>3. i < n + m <=> j < m
      BY <3>1
    <3>4. i < n + m => w[i + 1] = v[j + 1]
      <4> SUFFICES ASSUME i < n + m
                   PROVE  w[i + 1] = v[j + 1]
        OBVIOUS
      <4>1. i + 1 \in 1..(n + m) /\ ~(i + 1 <= n) /\ (i + 1) - n = j + 1
        BY <2>1, <3>1
      <4> QED
        BY <1>4, <4>1
    <3>5. Kept(w, i) = Kept(v, j)
      BY <1>3, <1>4, <3>2, <3>3, <3>4 DEF Kept
    <3>6. d[i] = b[j]
      BY <1>12, <2>1, <3>1
    <3> QED
      BY <1>10, <1>11, <3>5, <3>6
  <2>2. CASE i < n
    <3>1. i \in 1..n /\ i + 1 \in 1..(n + m) /\ i + 1 <= n /\ i < n + m
      BY <2>2
    <3>2. w[i] = u[i] /\ w[i + 1] = u[i + 1]
      BY <1>4, <2>2, <3>1
    <3>3. Kept(w, i) = Kept(u, i)
      BY <1>2, <1>4, <2>2, <3>1, <3>2 DEF Kept
    <3>4. d[i] = a[i]
      BY <1>12, <2>2
    <3> QED
      BY <1>9, <1>11, <3>1, <3>3, <3>4
  <2>3. CASE i = n
    <3>1. i \in 1..n /\ w[i] = u[i]
      BY <1>4, <2>3
    <3>2. Kept(u, i) = <<u[i]>>
      BY <1>2, <2>3 DEF Kept
    <3>3. i < n + m => w[i + 1] \notin Tags
      <4> SUFFICES ASSUME i < n + m
                   PROVE  w[i + 1] \notin Tags
        OBVIOUS
      <4>1. i + 1 \in 1..(n + m) /\ ~(i + 1 <= n) /\ (i + 1) - n = 1
        BY <2>3
      <4>2. w[i + 1] = v[1]
        BY <1>4, <4>1
      <4>3. v # <<>>
        BY <1>3, <2>3, EmptySeq
      <4> QED
        BY <4>2, <4>3
    <3>4. Kept(w, i) = <<w[i]>>
      BY <1>4, <3>3 DEF Kept
    <3>5. d[i] = a[i]
      BY <1>12, <2>3
    <3> QED
      BY <1>9, <1>11, <3>1, <3>2, <3>4, <3>5
  <2> QED
    BY <2>1, <2>2, <2>3
<1>14. c = d
  BY <1>11, <1>12, <1>13, SeqEqual
<1>15. FlattenSeq(a \o b) = FlattenSeq(a) \o FlattenSeq(b)
  BY FlattenConcat DEF Texts
<1> QED
  BY <1>1, <1>5, <1>6, <1>7, <1>8, <1>14, <1>15, UnescapeIsKept

(* A symbol that is escaped is itself again. *)
LEMMA UnescapeSymbol ==
    ASSUME NEW c \in Symbols
    PROVE  Unescape(Escaped(c)) = <<c>>
<1>0. <<c>> \in Texts /\ <<>> \in Texts
  BY DEF Texts
<1>1. CASE c \notin Tags
  <2>1. PICK t \in Texts : t = <<c>>
    BY <1>0
  <2>2. Escaped(c) = t
    BY <1>1, <2>1 DEF Escaped
  <2>3. KeptOf(t) = <<<<c>>>>
    <3>1. Len(t) = 1 /\ t[1] = c /\ DOMAIN t = 1..1
      BY <2>1
    <3>2. Kept(t, 1) = <<c>>
      BY <3>1 DEF Kept
    <3> QED
      BY <3>1, <3>2 DEF KeptOf
  <2>4. FlattenSeq(<<<<c>>>>) = <<c>>
    BY <1>0, FlattenOne DEF Texts
  <2> QED
    BY <2>2, <2>3, <2>4, UnescapeIsKept
<1>2. CASE c \in Tags
  <2>1. PICK t \in Texts : t = <<Backslash, c>>
    <3>1. Backslash \in Symbols
      BY SymbolTypes
    <3>2. <<Backslash, c>> \in Texts
      BY <3>1 DEF Texts
    <3> QED
      BY <3>2
  <2>2. Escaped(c) = t
    BY <1>2, <2>1 DEF Escaped
  <2>3. KeptOf(t) = <<<<>>, <<c>>>>
    <3>1. Len(t) = 2 /\ t[1] = Backslash /\ t[2] = c /\ DOMAIN t = 1..2
      BY <2>1
    <3>2. Kept(t, 1) = <<>>
      BY <1>2, <3>1 DEF Kept
    <3>3. Kept(t, 2) = <<c>>
      BY <3>1 DEF Kept
    <3> QED
      BY <3>1, <3>2, <3>3 DEF KeptOf
  <2>4. FlattenSeq(<<<<>>, <<c>>>>) = <<>> \o <<c>>
    BY <1>0, FlattenTwo DEF Texts
  <2>5. <<>> \o <<c>> = <<c>>
    BY <1>0, ConcatEmptySeq DEF Texts
  <2> QED
    BY <2>2, <2>3, <2>4, <2>5, UnescapeIsKept
<1> QED
  BY <1>1, <1>2

(* What a row shows of a text reads as the text. *)
LEMMA UnescapeEscape == \A t \in Texts : Unescape(Escape(t)) = t
<1> DEFINE G == {t \in Texts : Unescape(Escape(t)) = t}
<1>1. <<>> \in G
  BY EscapeEmpty, UnescapeEmpty DEF Texts
<1>2. ASSUME NEW t \in Texts, t \in G, NEW c \in Symbols
      PROVE  Append(t, c) \in G
  <2>1. PICK e \in Texts : e = Escape(t)
    BY EscapeType
  <2>2. PICK d \in Texts : d = Escaped(c)
    BY EscapedType
  <2>3. d # <<>> => d[1] \notin Tags
    BY <2>2, SymbolTypes DEF Escaped
  <2>4. Unescape(e \o d) = Unescape(e) \o Unescape(d)
    BY <2>3, UnescapeConcat
  <2>5. Unescape(e) = t /\ Unescape(d) = <<c>>
    BY <1>2, <2>1, <2>2, UnescapeSymbol
  <2>6. Escape(Append(t, c)) = e \o d
    BY <2>1, <2>2, EscapeAppend
  <2>7. t \o <<c>> = Append(t, c) /\ Append(t, c) \in Texts
    BY AppendIsConcat, AppendProperties DEF Texts
  <2> QED
    BY <2>4, <2>5, <2>6, <2>7
<1> HIDE DEF G
<1>3. \A t \in Texts : t \in G
  BY <1>1, <1>2, SeqInductionOnSet DEF Texts
<1> QED
  BY <1>3 DEF G

(* So does what is left of it when the live tags are dropped: there is none. *)
LEMMA StripDisplayEscape ==
    ASSUME NEW t \in Texts
    PROVE  StripDisplay(Escape(t)) = t
<1>1. PICK e \in Texts : e = Escape(t)
  BY EscapeType
<1>2. \A i \in DOMAIN e : ~IsLive(e, i)
  BY <1>1, EscapeHidesTags
<1>3. [i \in DOMAIN e |-> IF IsLive(e, i) THEN <<>> ELSE <<e[i]>>]
        = [i \in DOMAIN e |-> <<e[i]>>]
  BY <1>2
<1>4. FlattenSeq([i \in DOMAIN e |-> <<e[i]>>]) = e
  BY FlattenSymbols DEF Texts
<1> QED
  BY <1>1, <1>3, <1>4, UnescapeEscape DEF StripDisplay

(* What a row shows reads as what it holds, both when a field is committed as *)
(* it was and when a row is looked up by its text: no text anyone writes is   *)
(* changed by being shown (tags::escape with unescape and strip_display).     *)
THEOREM EscapesReadBack ==
    \A t \in Texts : Unescape(Escape(t)) = t /\ StripDisplay(Escape(t)) = t
BY UnescapeEscape, StripDisplayEscape

LEMMA StripDisplayType ==
    ASSUME NEW t \in Texts
    PROVE  StripDisplay(t) \in Texts
<1> DEFINE a == [i \in DOMAIN t |-> IF IsLive(t, i) THEN <<>> ELSE <<t[i]>>]
<1>1. PICK n \in Nat : DOMAIN t = 1..n /\ \A i \in 1..n : t[i] \in Symbols
  BY LenProperties, ElementOfSeq DEF Texts
<1>2. \A i \in 1..n : (IF IsLive(t, i) THEN <<>> ELSE <<t[i]>>) \in Texts
  BY <1>1 DEF Texts
<1>3. [i \in 1..n |-> IF IsLive(t, i) THEN <<>> ELSE <<t[i]>>] \in Seq(Texts)
  BY <1>2, IsASeq
<1>4. a \in Seq(Texts)
  BY <1>1, <1>3
<1>5. FlattenSeq(a) \in Texts
  BY <1>4, FlattenType DEF Texts
<1> QED
  BY <1>5, UnescapeType DEF StripDisplay

LEMMA OmitType ==
    ASSUME NEW t \in Texts, NEW X
    PROVE  Omit(t, X) \in Texts
<1> DEFINE h == [c \in Symbols |-> IF c \in X THEN <<>> ELSE <<c>>]
<1>1. h \in [Symbols -> Texts]
  BY DEF Texts
<1>2. \A i \in DOMAIN t : t[i] \in Symbols
  BY LenProperties, ElementOfSeq DEF Texts
<1>3. Image(h, t) = [i \in DOMAIN t |-> IF t[i] \in X THEN <<>> ELSE <<t[i]>>]
  BY <1>2 DEF Image
<1>4. FlattenSeq(Image(h, t)) \in Texts
  <2> HIDE DEF h
  <2> QED
    BY <1>1, FlatImageType DEF Texts
<1> QED
  BY <1>3, <1>4 DEF Omit

LEMMA TypedValueType ==
    ASSUME NEW old, NEW new \in Texts
    PROVE  TypedValue(old, new) \in Texts
BY UnescapeType DEF TypedValue

(* ---------------------------------------------------------------- inert rows *)

LEMMA SubSeqType ==
    ASSUME NEW t \in Texts, NEW m \in Nat, NEW n \in Int, m >= 1, n <= Len(t)
    PROVE  SubSeq(t, m, n) \in Texts
<1>1. \A i \in m..n : t[i] \in Symbols
  BY LenProperties, ElementOfSeq DEF Texts
<1> QED
  BY <1>1, SubSeqProperties DEF Texts

(* Rows side by side make nothing else live. *)
LEMMA ConcatInert ==
    ASSUME NEW a \in Texts, NEW b \in Texts, IsInert(a), IsInert(b)
    PROVE  a \o b \in Texts /\ IsInert(a \o b)
<1>1. PICK w \in Texts : w = a \o b
  BY ConcatProperties DEF Texts
<1>2. PICK n \in Nat : n = Len(a)
  BY LenProperties DEF Texts
<1>3. PICK m \in Nat : m = Len(b)
  BY LenProperties DEF Texts
<1>4. Len(w) = n + m
  BY <1>1, <1>2, <1>3, ConcatProperties DEF Texts
<1>5. \A i \in 1..n : w[i] = a[i]
  BY <1>1, <1>2, <1>3, ConcatProperties DEF Texts
<1>6. \A k \in 1..m : w[n + k] = b[k]
  <2> SUFFICES ASSUME NEW k \in 1..m
               PROVE  w[n + k] = b[k]
    OBVIOUS
  <2>1. n + k \in 1..(n + m) /\ ~(n + k <= n) /\ (n + k) - n = k
    OBVIOUS
  <2> QED
    BY <1>1, <1>2, <1>3, <2>1, ConcatProperties DEF Texts
<1>7. DOMAIN a = 1..n /\ DOMAIN b = 1..m /\ DOMAIN w = 1..(n + m)
  BY <1>2, <1>3, <1>4, LenProperties DEF Texts
<1>8. ASSUME NEW i \in 1..n, IsLive(w, i)
      PROVE  \/ w[i] = LinkOpen /\ \E j \in (i + 2)..Len(w) :
                   w[j] = LinkClose /\ IsFollowable(SubSeq(w, i + 1, j - 1))
             \/ w[i] = LinkClose /\ \E j \in 1..(i - 2) :
                   w[j] = LinkOpen /\ IsFollowable(SubSeq(w, j + 1, i - 1))
  <2>1. IsLive(a, i)
    <3>1. i > 1 => w[i - 1] = a[i - 1]
      BY <1>5
    <3> QED
      BY <1>5, <1>8, <3>1 DEF IsLive
  <2>2. \/ a[i] = LinkOpen /\ \E j \in (i + 2)..n :
                 a[j] = LinkClose /\ IsFollowable(SubSeq(a, i + 1, j - 1))
        \/ a[i] = LinkClose /\ \E j \in 1..(i - 2) :
                 a[j] = LinkOpen /\ IsFollowable(SubSeq(a, j + 1, i - 1))
    BY <1>2, <1>7, <2>1 DEF IsInert
  <2>3. \A j \in 1..n, k \in 1..n : SubSeq(w, j, k) = SubSeq(a, j, k)
    BY <1>1, <1>2, SubSeqOfConcat1 DEF Texts
  <2>4. CASE a[i] = LinkOpen /\ \E j \in (i + 2)..n :
                 a[j] = LinkClose /\ IsFollowable(SubSeq(a, i + 1, j - 1))
    <3>1. PICK j \in (i + 2)..n : a[j] = LinkClose /\ IsFollowable(SubSeq(a, i + 1, j - 1))
      BY <2>4
    <3>2. j \in (i + 2)..Len(w) /\ j \in 1..n /\ i + 1 \in 1..n /\ j - 1 \in 1..n
      BY <1>4
    <3>3. w[j] = LinkClose /\ IsFollowable(SubSeq(w, i + 1, j - 1)) /\ w[i] = LinkOpen
      BY <1>5, <2>3, <2>4, <3>1, <3>2
    <3> QED
      BY <3>2, <3>3
  <2>5. CASE a[i] = LinkClose /\ \E j \in 1..(i - 2) :
                 a[j] = LinkOpen /\ IsFollowable(SubSeq(a, j + 1, i - 1))
    <3>1. PICK j \in 1..(i - 2) : a[j] = LinkOpen /\ IsFollowable(SubSeq(a, j + 1, i - 1))
      BY <2>5
    <3>2. j \in 1..n /\ j + 1 \in 1..n /\ i - 1 \in 1..n
      OBVIOUS
    <3>3. w[j] = LinkOpen /\ IsFollowable(SubSeq(w, j + 1, i - 1)) /\ w[i] = LinkClose
      BY <1>5, <2>3, <2>5, <3>1, <3>2
    <3> QED
      BY <3>3
  <2> QED
    BY <2>2, <2>4, <2>5
<1>9. ASSUME NEW k \in 1..m, IsLive(w, n + k)
      PROVE  \/ w[n + k] = LinkOpen /\ \E j \in (n + k + 2)..Len(w) :
                   w[j] = LinkClose /\ IsFollowable(SubSeq(w, n + k + 1, j - 1))
             \/ w[n + k] = LinkClose /\ \E j \in 1..(n + k - 2) :
                   w[j] = LinkOpen /\ IsFollowable(SubSeq(w, j + 1, n + k - 1))
  <2>1. IsLive(b, k)
    <3>1. k > 1 => w[(n + k) - 1] = b[k - 1]
      <4> SUFFICES ASSUME k > 1
                   PROVE  w[(n + k) - 1] = b[k - 1]
        OBVIOUS
      <4>1. k - 1 \in 1..m /\ n + (k - 1) = (n + k) - 1
        OBVIOUS
      <4> QED
        BY <1>6, <4>1
    <3>2. w[n + k] = b[k]
      BY <1>6
    <3>3. k > 1 => n + k > 1
      OBVIOUS
    <3> QED
      BY <1>9, <3>1, <3>2, <3>3 DEF IsLive
  <2>2. \/ b[k] = LinkOpen /\ \E j \in (k + 2)..m :
                 b[j] = LinkClose /\ IsFollowable(SubSeq(b, k + 1, j - 1))
        \/ b[k] = LinkClose /\ \E j \in 1..(k - 2) :
                 b[j] = LinkOpen /\ IsFollowable(SubSeq(b, j + 1, k - 1))
    BY <1>3, <1>7, <2>1 DEF IsInert
  <2>3. \A j \in 1..m, l \in 1..m : SubSeq(w, n + j, n + l) = SubSeq(b, j, l)
    <3> SUFFICES ASSUME NEW j \in 1..m, NEW l \in 1..m
                 PROVE  SubSeq(w, n + j, n + l) = SubSeq(b, j, l)
      OBVIOUS
    <3>1. n + j \in n+1..n+m /\ n + l \in n+1..n+m /\ (n + j) - n = j /\ (n + l) - n = l
      OBVIOUS
    <3> QED
      BY <1>1, <1>2, <1>3, <3>1, SubSeqOfConcat2 DEF Texts
  <2>4. CASE b[k] = LinkOpen /\ \E j \in (k + 2)..m :
                 b[j] = LinkClose /\ IsFollowable(SubSeq(b, k + 1, j - 1))
    <3>1. PICK j \in (k + 2)..m : b[j] = LinkClose /\ IsFollowable(SubSeq(b, k + 1, j - 1))
      BY <2>4
    <3>2. n + j \in (n + k + 2)..Len(w) /\ j \in 1..m /\ k + 1 \in 1..m /\ j - 1 \in 1..m
          /\ n + (k + 1) = n + k + 1 /\ n + (j - 1) = (n + j) - 1
      BY <1>4
    <3>3. SubSeq(w, n + (k + 1), n + (j - 1)) = SubSeq(b, k + 1, j - 1)
      BY <2>3, <3>2
    <3>4. w[n + j] = LinkClose /\ w[n + k] = LinkOpen
      BY <1>6, <2>4, <3>1, <3>2
    <3>5. IsFollowable(SubSeq(w, n + k + 1, (n + j) - 1))
      BY <3>1, <3>2, <3>3
    <3> QED
      BY <3>2, <3>4, <3>5
  <2>5. CASE b[k] = LinkClose /\ \E j \in 1..(k - 2) :
                 b[j] = LinkOpen /\ IsFollowable(SubSeq(b, j + 1, k - 1))
    <3>1. PICK j \in 1..(k - 2) : b[j] = LinkOpen /\ IsFollowable(SubSeq(b, j + 1, k - 1))
      BY <2>5
    <3>2. n + j \in 1..(n + k - 2) /\ j \in 1..m /\ j + 1 \in 1..m /\ k - 1 \in 1..m
          /\ n + (j + 1) = (n + j) + 1 /\ n + (k - 1) = n + k - 1
      OBVIOUS
    <3>3. SubSeq(w, n + (j + 1), n + (k - 1)) = SubSeq(b, j + 1, k - 1)
      BY <2>3, <3>2
    <3>4. w[n + j] = LinkOpen /\ w[n + k] = LinkClose
      BY <1>6, <2>5, <3>1, <3>2
    <3>5. IsFollowable(SubSeq(w, (n + j) + 1, n + k - 1))
      BY <3>1, <3>2, <3>3
    <3> QED
      BY <3>2, <3>4, <3>5
  <2> QED
    BY <2>2, <2>4, <2>5
<1>10. IsInert(w)
  <2> SUFFICES ASSUME NEW i \in 1..(n + m), IsLive(w, i)
               PROVE  \/ w[i] = LinkOpen /\ \E j \in (i + 2)..Len(w) :
                            w[j] = LinkClose /\ IsFollowable(SubSeq(w, i + 1, j - 1))
                      \/ w[i] = LinkClose /\ \E j \in 1..(i - 2) :
                            w[j] = LinkOpen /\ IsFollowable(SubSeq(w, j + 1, i - 1))
    BY <1>7 DEF IsInert
  <2>1. CASE i <= n
    <3>1. i \in 1..n
      BY <2>1
    <3> QED
      BY <1>8, <3>1
  <2>2. CASE i > n
    <3>1. PICK k \in 1..m : i = n + k
      <4>1. i - n \in 1..m /\ i = n + (i - n)
        BY <2>2
      <4> QED
        BY <4>1
    <3>2. IsLive(w, n + k)
      BY <3>1
    <3>3. \/ w[n + k] = LinkOpen /\ \E j \in (n + k + 2)..Len(w) :
                w[j] = LinkClose /\ IsFollowable(SubSeq(w, n + k + 1, j - 1))
          \/ w[n + k] = LinkClose /\ \E j \in 1..(n + k - 2) :
                w[j] = LinkOpen /\ IsFollowable(SubSeq(w, j + 1, n + k - 1))
      BY <1>9, <3>2
    <3> QED
      BY <3>1, <3>3
  <2> QED
    BY <2>1, <2>2
<1> QED
  BY <1>1, <1>10

(* A link around a web address is inert. *)
LEMMA EscapePlain ==
    ASSUME NEW t \in Texts, \A i \in DOMAIN t : t[i] \notin Tags
    PROVE  Escape(t) = t
<1>1. [i \in DOMAIN t |-> IF t[i] \in Tags THEN <<Backslash, t[i]>> ELSE <<t[i]>>]
        = [i \in DOMAIN t |-> <<t[i]>>]
  OBVIOUS
<1>2. FlattenSeq([i \in DOMAIN t |-> <<t[i]>>]) = t
  BY FlattenSymbols DEF Texts
<1> QED
  BY <1>1, <1>2 DEF Escape

LinkTo(url) ==
    IF IsFollowable(url) THEN <<LinkOpen>> \o Escape(url) \o <<LinkClose>> ELSE Escape(url)

LEMMA LinkInert ==
    ASSUME NEW url \in Texts
    PROVE  LinkTo(url) \in Texts /\ IsInert(LinkTo(url))
<1>1. CASE ~IsFollowable(url)
  BY <1>1, EscapeType, EscapeInert DEF LinkTo
<1>2. CASE IsFollowable(url)
  <2>1. PICK n \in Nat : n = Len(url)
    BY LenProperties DEF Texts
  <2>2. n # 0 /\ \A i \in 1..n : url[i] \notin Tags
    <3>1. url # <<>> /\ ToSet(url) \cap (Tags \cup {Backslash}) = {}
      BY <1>2 DEF IsFollowable
    <3>2. DOMAIN url = 1..n
      BY <2>1, LenProperties DEF Texts
    <3>3. ASSUME NEW i \in 1..n
          PROVE  url[i] \notin Tags
      <4>1. url[i] \in ToSet(url)
        BY <3>2 DEF ToSet
      <4> QED
        BY <3>1, <4>1
    <3> QED
      BY <2>1, <3>1, <3>3, EmptySeq DEF Texts
  <2>3. Escape(url) = url
    <3>1. DOMAIN url = 1..n
      BY <2>1, LenProperties DEF Texts
    <3> QED
      BY <2>2, <3>1, EscapePlain
  <2>4. <<LinkOpen>> \in Texts /\ <<LinkClose>> \in Texts
    <3>1. LinkOpen \in Symbols /\ LinkClose \in Symbols
      BY SymbolTypes DEF Tags
    <3> QED
      BY <3>1 DEF Texts
  <2>5. PICK v \in Texts : v = <<LinkOpen>> \o url
    BY <2>4, ConcatProperties DEF Texts
  <2>6. PICK w \in Texts : w = v \o <<LinkClose>>
    BY <2>4, ConcatProperties DEF Texts
  <2>7. Len(v) = n + 1 /\ v[1] = LinkOpen /\ \A i \in 1..n : v[i + 1] = url[i]
    BY <2>1, <2>4, <2>5, ConcatProperties DEF Texts
  <2>8. Len(w) = n + 2 /\ w[n + 2] = LinkClose /\ \A i \in 1..(n + 1) : w[i] = v[i]
    BY <2>4, <2>6, <2>7, ConcatProperties DEF Texts
  <2>9. w[1] = LinkOpen /\ \A i \in 2..(n + 1) : w[i] \notin Tags
    <3>1. w[1] = LinkOpen
      BY <2>7, <2>8
    <3>2. ASSUME NEW i \in 2..(n + 1)
          PROVE  w[i] \notin Tags
      <4>1. PICK j \in 1..n : i = j + 1
        <5>1. i - 1 \in 1..n /\ i = (i - 1) + 1
          OBVIOUS
        <5> QED
          BY <5>1
      <4>2. w[i] = url[j]
        BY <2>7, <2>8, <4>1
      <4> QED
        BY <2>2, <4>2
    <3> QED
      BY <3>1, <3>2
  <2>10. SubSeq(w, 2, n + 1) = url
    <3>1. \A i \in 2..(n + 1) : w[i] \in Symbols
      BY <2>8, LenProperties, ElementOfSeq DEF Texts
    <3>0. 2 \in Nat /\ n + 1 \in Int /\ 2 >= 1 /\ n + 1 <= Len(w)
      BY <2>8
    <3>2. PICK u \in Texts : u = SubSeq(w, 2, n + 1)
      <4>1. SubSeq(w, 2, n + 1) \in Texts
        BY <3>0, SubSeqType
      <4> QED
        BY <4>1
    <3>3. Len(u) = n /\ \A i \in 1..n : u[i] = w[2 + i - 1]
      BY <2>2, <3>1, <3>2, SubSeqProperties
    <3>4. ASSUME NEW i \in 1..n
          PROVE  u[i] = url[i]
      <4>1. 2 + i - 1 = i + 1 /\ i + 1 \in 1..(n + 1)
        OBVIOUS
      <4> QED
        BY <2>7, <2>8, <3>3, <4>1
    <3> QED
      BY <2>1, <3>2, <3>3, <3>4, SeqEqual DEF Texts
  <2>11. DOMAIN w = 1..(n + 2)
    BY <2>8, LenProperties DEF Texts
  <2>12. IsInert(w)
    <3> SUFFICES ASSUME NEW i \in 1..(n + 2), IsLive(w, i)
                 PROVE  \/ w[i] = LinkOpen /\ \E j \in (i + 2)..Len(w) :
                              w[j] = LinkClose /\ IsFollowable(SubSeq(w, i + 1, j - 1))
                        \/ w[i] = LinkClose /\ \E j \in 1..(i - 2) :
                              w[j] = LinkOpen /\ IsFollowable(SubSeq(w, j + 1, i - 1))
      BY <2>11 DEF IsInert
    <3>1. i = 1 \/ i = n + 2
      BY <2>9 DEF IsLive
    <3>2. CASE i = 1
      <4>1. n + 2 \in (i + 2)..Len(w) /\ (n + 2) - 1 = n + 1 /\ i + 1 = 2
        BY <2>2, <2>8, <3>2
      <4>2. IsFollowable(SubSeq(w, i + 1, (n + 2) - 1))
        BY <1>2, <2>10, <4>1
      <4> QED
        BY <2>8, <2>9, <3>2, <4>1, <4>2
    <3>3. CASE i = n + 2
      <4>1. 1 \in 1..(i - 2) /\ i - 1 = n + 1 /\ 1 + 1 = 2
        BY <2>2, <3>3
      <4>2. IsFollowable(SubSeq(w, 1 + 1, i - 1))
        BY <1>2, <2>10, <4>1
      <4> QED
        BY <2>8, <2>9, <3>3, <4>1, <4>2
    <3> QED
      BY <3>1, <3>2, <3>3
  <2> QED
    BY <1>2, <2>3, <2>5, <2>6, <2>12 DEF LinkTo
<1> QED
  BY <1>1, <1>2

(* ------------------------------------------------- the row of a text body *)

Inert == {t \in Texts : IsInert(t)}

OpenAt(t, from) == NextOf(t, from, MarkOpen)
CloseAt(t, from) == IF OpenAt(t, from) = 0 THEN 0 ELSE NextOf(t, OpenAt(t, from) + 1, MarkClose)

(* The row from a position on, rest being the row after the first marked link. *)
RowFrom(t, from, rest) ==
    IF CloseAt(t, from) = 0 THEN Escape(StripMarks(SubSeq(t, from, Len(t))))
    ELSE Escape(StripMarks(SubSeq(t, from, OpenAt(t, from) - 1))) \o
         LinkTo(SubSeq(t, OpenAt(t, from) + 1, CloseAt(t, from) - 1)) \o rest

RowsOf(t, f) == f = [from \in 1..(Len(t) + 1) |-> RowFrom(t, from, f[CloseAt(t, from) + 1])]

LEMMA NextOfBounds ==
    ASSUME NEW t \in Texts, NEW i \in Nat, i >= 1, NEW c
    PROVE  NextOf(t, i, c) = 0 \/ NextOf(t, i, c) \in i..Len(t)
<1> DEFINE T == {j \in i..Len(t) : t[j] = c}
<1>1. NextOf(t, i, c) = IF T = {} THEN 0 ELSE Min(T)
  BY DEF NextOf, FirstOf
<1>2. T \in SUBSET Nat /\ T \subseteq i..Len(t)
  OBVIOUS
<1> HIDE DEF T
<1> QED
  BY <1>1, <1>2, MinOf

LEMMA CloseBounds ==
    ASSUME NEW t \in Texts, NEW from \in Nat, from >= 1, CloseAt(t, from) # 0
    PROVE  /\ OpenAt(t, from) \in from..Len(t)
           /\ CloseAt(t, from) \in (OpenAt(t, from) + 1)..Len(t)
<1>1. OpenAt(t, from) # 0
  BY DEF CloseAt
<1>2. OpenAt(t, from) \in from..Len(t)
  BY <1>1, NextOfBounds DEF OpenAt
<1>3. PICK o \in Nat : o = OpenAt(t, from) /\ o >= 1
  BY <1>2
<1>4. o + 1 \in Nat /\ o + 1 >= 1
  BY <1>3
<1>5. NextOf(t, o + 1, MarkClose) = 0 \/ NextOf(t, o + 1, MarkClose) \in (o + 1)..Len(t)
  BY <1>4, NextOfBounds
<1>6. CloseAt(t, from) = NextOf(t, o + 1, MarkClose)
  BY <1>1, <1>3 DEF CloseAt
<1> QED
  BY <1>2, <1>3, <1>5, <1>6

(* The rows right from a position on. *)
RowsUntil(t, k, f) ==
    /\ f = [from \in 1..(Len(t) + 1) |-> f[from]]
    /\ \A from \in 1..(Len(t) + 1) : from >= Len(t) + 2 - k =>
          f[from] = RowFrom(t, from, f[CloseAt(t, from) + 1])

(* The recursive function of TextRow exists: a row depends on what is after it. *)
LEMMA RowsExist ==
    ASSUME NEW t \in Texts
    PROVE  \E f : RowsOf(t, f)
<1>1. PICK n \in Nat : n = Len(t)
  BY LenProperties DEF Texts
<1> DEFINE G == {k \in Nat : \E f : RowsUntil(t, k, f)}
<1>2. 0 \in G
  <2>1. PICK f : f = [from \in 1..(n + 1) |-> 0]
    OBVIOUS
  <2>2. RowsUntil(t, 0, f)
    BY <1>1, <2>1 DEF RowsUntil
  <2> QED
    BY <2>2
<1>3. ASSUME NEW k \in Nat, k \in G
      PROVE  k + 1 \in G
  <2>2. PICK f : RowsUntil(t, k, f)
    BY <1>3
  <2>3. PICK m \in Int : m = n + 1 - k
    OBVIOUS
  <2>4. PICK g : g = [from \in 1..(n + 1) |->
                        IF from = m THEN RowFrom(t, m, f[CloseAt(t, m) + 1]) ELSE f[from]]
    OBVIOUS
  <2>5. g = [from \in 1..(n + 1) |-> g[from]]
    BY <2>4
  <2>6. ASSUME NEW from \in 1..(n + 1), from >= n + 2 - (k + 1)
        PROVE  g[from] = RowFrom(t, from, g[CloseAt(t, from) + 1])
    <3>1. from >= m /\ from \in Nat /\ from >= 1
      BY <2>3, <2>6
    <3>2. CloseAt(t, from) # 0 => g[CloseAt(t, from) + 1] = f[CloseAt(t, from) + 1]
      <4> SUFFICES ASSUME CloseAt(t, from) # 0
                   PROVE  g[CloseAt(t, from) + 1] = f[CloseAt(t, from) + 1]
        OBVIOUS
      <4>1. OpenAt(t, from) \in from..Len(t)
        BY <3>1, CloseBounds
      <4>2. CloseAt(t, from) \in (OpenAt(t, from) + 1)..Len(t)
        BY <3>1, CloseBounds
      <4>3. PICK c \in 1..n : c = CloseAt(t, from) /\ c > from
        BY <1>1, <3>1, <4>1, <4>2
      <4>4. c + 1 \in 1..(n + 1) /\ c + 1 # m
        BY <2>3, <3>1, <4>3
      <4> QED
        BY <2>4, <4>3, <4>4
    <3>3. \/ CloseAt(t, from) = 0
          \/ g[CloseAt(t, from) + 1] = f[CloseAt(t, from) + 1]
      BY <3>2
    <3>4. RowFrom(t, from, g[CloseAt(t, from) + 1]) = RowFrom(t, from, f[CloseAt(t, from) + 1])
      BY <3>3 DEF RowFrom
    <3>5. CASE from = m
      BY <2>4, <3>4, <3>5
    <3>6. CASE from # m
      <4>1. from >= n + 2 - k
        BY <2>3, <3>1, <3>6
      <4>2. f[from] = RowFrom(t, from, f[CloseAt(t, from) + 1])
        BY <1>1, <2>2, <4>1 DEF RowsUntil
      <4> QED
        BY <2>4, <3>4, <3>6, <4>2
    <3> QED
      BY <3>5, <3>6
  <2>7. RowsUntil(t, k + 1, g)
    BY <1>1, <2>5, <2>6 DEF RowsUntil
  <2> QED
    BY <2>7
<1> HIDE DEF G
<1>4. n + 1 \in G
  BY <1>2, <1>3, NatInductionOnSet
<1>6. PICK g : RowsUntil(t, n + 1, g)
  BY <1>4 DEF G
<1>7. \A from \in 1..(n + 1) : g[from] = RowFrom(t, from, g[CloseAt(t, from) + 1])
  <2>1. \A from \in 1..(n + 1) : from >= n + 2 - (n + 1)
    OBVIOUS
  <2> QED
    BY <1>1, <1>6, <2>1 DEF RowsUntil
<1>8. g = [from \in 1..(n + 1) |-> g[from]]
  BY <1>1, <1>6 DEF RowsUntil
<1>9. g = [from \in 1..(n + 1) |-> RowFrom(t, from, g[CloseAt(t, from) + 1])]
  BY <1>7, <1>8, Zenon
<1> QED
  BY <1>1, <1>9 DEF RowsOf

LEMMA TextRowIs ==
    ASSUME NEW t \in Texts
    PROVE  \E f : RowsOf(t, f) /\ TextRow(t) = f[1]
<1>1. TextRow(t) = (CHOOSE f : RowsOf(t, f))[1]
  BY Zenon DEF TextRow, RowsOf, RowFrom, OpenAt, CloseAt, LinkTo
<1>2. RowsOf(t, CHOOSE f : RowsOf(t, f))
  BY RowsExist
<1> QED
  BY <1>1, <1>2

(* The row of a text body makes nothing live but the links it marks. *)
LEMMA TextRowInert ==
    ASSUME NEW t \in Texts
    PROVE  TextRow(t) \in Inert
<1>1. PICK n \in Nat : n = Len(t)
  BY LenProperties DEF Texts
<1>2. PICK f : RowsOf(t, f) /\ TextRow(t) = f[1]
  BY TextRowIs
<1> DEFINE G == {k \in Nat : \A from \in 1..(n + 1) : from >= n + 2 - k => f[from] \in Inert}
<1>3. 0 \in G
  OBVIOUS
<1>4. ASSUME NEW k \in Nat, k \in G
      PROVE  k + 1 \in G
  <2> SUFFICES ASSUME NEW from \in 1..(n + 1), from >= n + 2 - (k + 1)
               PROVE  f[from] \in Inert
    OBVIOUS
  <2>1. f[from] = RowFrom(t, from, f[CloseAt(t, from) + 1])
    BY <1>1, <1>2 DEF RowsOf
  <2>2. from \in Nat /\ from >= 1
    OBVIOUS
  <2>3. CASE CloseAt(t, from) = 0
    <3>1. from \in Nat /\ n \in Int /\ from >= 1 /\ n <= Len(t)
      BY <1>1
    <3>2. SubSeq(t, from, n) \in Texts
      BY <3>1, SubSeqType
    <3>3. PICK u \in Texts : u = StripMarks(SubSeq(t, from, n))
      BY <3>2, OmitType DEF StripMarks
    <3>4. f[from] = Escape(u)
      BY <1>1, <2>1, <2>3, <3>3 DEF RowFrom
    <3> QED
      BY <3>4, EscapeType, EscapeInert DEF Inert
  <2>4. CASE CloseAt(t, from) # 0
    <3>1. OpenAt(t, from) \in from..Len(t)
      BY <2>2, <2>4, CloseBounds
    <3>2. CloseAt(t, from) \in (OpenAt(t, from) + 1)..Len(t)
      BY <2>2, <2>4, CloseBounds
    <3>3. PICK o \in 1..n : o = OpenAt(t, from) /\ o >= from
      BY <1>1, <2>2, <3>1
    <3>4. PICK c \in 1..n : c = CloseAt(t, from) /\ c > o
      BY <1>1, <3>2, <3>3
    <3>5. PICK u \in Texts : u = SubSeq(t, from, o - 1)
      <4>1. from \in Nat /\ o - 1 \in Int /\ from >= 1 /\ o - 1 <= Len(t)
        BY <1>1, <3>3
      <4>2. SubSeq(t, from, o - 1) \in Texts
        BY <4>1, SubSeqType
      <4> QED
        BY <4>2
    <3>6. PICK v \in Texts : v = StripMarks(u)
      BY <3>5, OmitType DEF StripMarks
    <3>7. PICK url \in Texts : url = SubSeq(t, o + 1, c - 1)
      <4>1. o + 1 \in Nat /\ c - 1 \in Int /\ o + 1 >= 1 /\ c - 1 <= Len(t)
        BY <1>1, <3>3, <3>4
      <4>2. SubSeq(t, o + 1, c - 1) \in Texts
        BY <4>1, SubSeqType
      <4> QED
        BY <4>2
    <3>8. PICK rest \in Inert : rest = f[c + 1]
      <4>1. c + 1 \in 1..(n + 1) /\ c + 1 >= n + 2 - k
        BY <3>3, <3>4
      <4> QED
        BY <1>4, <4>1
    <3>9. f[from] = Escape(v) \o LinkTo(url) \o rest
      BY <2>1, <2>4, <3>3, <3>4, <3>5, <3>6, <3>7, <3>8 DEF RowFrom
    <3>10. PICK a \in Inert : a = Escape(v)
      BY EscapeType, EscapeInert DEF Inert
    <3>11. PICK b \in Inert : b = LinkTo(url)
      BY LinkInert DEF Inert
    <3>12. PICK d \in Inert : d = a \o b
      BY ConcatInert DEF Inert
    <3>13. d \o rest \in Inert
      BY ConcatInert DEF Inert
    <3> QED
      BY <3>9, <3>10, <3>11, <3>12, <3>13
  <2> QED
    BY <2>3, <2>4
<1>5. n + 1 \in G
  <2> HIDE DEF G
  <2> QED
    BY <1>3, <1>4, NatInductionOnSet
<1> QED
  BY <1>2, <1>5

(* ------------------------------------------------------ the invariant *)

(* Every row of a draft is inert, and what a draft holds is typed. *)
RowsInert(es) == IsTreeOfRows(es) /\ \A p \in DOMAIN es : es[p].text \in Inert

BodyInert(body) == IsBody(body) /\ RowsInert(body.rows)

DraftInv(draft) ==
    /\ draft = [header |-> draft.header, attachments |-> draft.attachments, body |-> draft.body]
    /\ draft.header \in [Fields -> Texts]
    /\ draft.attachments \in Seq(Texts) /\ Len(draft.attachments) <= MaxFiles
    /\ BodyInert(draft.body)

FormInv(f) ==
    /\ f = [mode |-> f.mode, uid |-> f.uid, prefilled |-> f.prefilled, draft |-> f.draft]
    /\ f.mode \in FormRoots /\ f.uid \in DOMAIN Mails \cup {None}
    /\ f.uid # None => f.mode \in Answers
    /\ DraftInv(f.draft)

Headers == [uid : DOMAIN Mails, seen : BOOLEAN, flagged : BOOLEAN]

(* What no step undoes, wherever the user is. *)
DraftsInv ==
    /\ world \in Worlds
    /\ cache \in Seq(Headers)
    /\ FormInv(form)

PathsInv ==
    /\ path \in Seq(Texts \ {<<>>})
    /\ open \in DOMAIN Mails \cup {None}
    /\ viewed \in BOOLEAN /\ sent \in BOOLEAN

(* While a message is open its row is on the path as it was, only an answer  *)
(* to it goes further, and what the form remembers is the message.           *)
TagsOf(seen, flagged) ==
    (IF seen THEN <<"[read]">> ELSE <<"[unread]">>) \o (IF flagged THEN <<"[star]">> ELSE <<>>)

OpenInv == open # None /\ IsPlainLabel(open) =>
    /\ Len(path) >= 2 /\ path[1] = Folder
    /\ \E seen \in BOOLEAN, flagged \in BOOLEAN :
          path[2] = TagsOf(seen, flagged) \o Mails[open].base
    /\ \E i \in DOMAIN cache : cache[i].uid = open
    /\ Len(path) >= 3 =>
          /\ path[3] \in Answers
          /\ form.mode \in Answers /\ Alone(open) => form.uid = open

(* --------------------------------------------------------------- positions *)

Numbers == Nat \ {0}

LEMMA FrontLast ==
    ASSUME NEW S, NEW q \in Seq(S), NEW k \in S
    PROVE  /\ q \o <<k>> \in Seq(S) /\ q \o <<k>> # <<>>
           /\ Len(q \o <<k>>) = Len(q) + 1
           /\ Front(q \o <<k>>) = q /\ Last(q \o <<k>>) = k
<1>1. PICK p \in Seq(S) : p = q \o <<k>>
  BY AppendProperties, AppendIsConcat
<1>2. PICK n \in Nat : n = Len(q)
  BY LenProperties
<1>3. p = Append(q, k)
  BY <1>1, AppendIsConcat
<1>4. p # <<>> /\ Len(p) = n + 1 /\ p[n + 1] = k /\ \A i \in 1..n : p[i] = q[i]
  BY <1>2, <1>3, AppendProperties
<1>5. Front(p) = q
  <2>1. \A i \in 1..n : p[i] \in S
    BY <1>4, LenProperties, ElementOfSeq
  <2>2. PICK u : u = SubSeq(p, 1, n)
    OBVIOUS
  <2>3. u \in Seq(S)
    BY <2>1, <2>2, SubSeqProperties
  <2>4. Len(u) = n
    BY <2>1, <2>2, SubSeqProperties
  <2>5. \A i \in 1..n : u[i] = p[i]
    <3>1. \A i \in 1..(n - 1 + 1) : u[i] = p[1 + i - 1]
      BY <2>1, <2>2, SubSeqProperties
    <3> QED
      BY <3>1
  <2>6. u = q
    BY <1>2, <1>4, <2>3, <2>4, <2>5, SeqEqual
  <2> QED
    BY <1>4, <2>2, <2>6 DEF Front
<1> QED
  BY <1>1, <1>2, <1>4, <1>5 DEF Last

LEMMA FrontLastOf ==
    ASSUME NEW S, NEW p \in Seq(S), p # <<>>
    PROVE  Front(p) \in Seq(S) /\ Last(p) \in S /\ p = Front(p) \o <<Last(p)>>
<1>1. PICK q \in Seq(S), k \in S : p = Append(q, k)
  BY SequenceEmptyOrAppend
<1>2. p = q \o <<k>>
  BY <1>1, AppendIsConcat
<1>3. Front(p) = q /\ Last(p) = k
  BY <1>2, FrontLast
<1> QED
  BY <1>2, <1>3

LEMMA KidPlace ==
    ASSUME NEW es, DOMAIN es \subseteq Positions, NEW q, NEW k \in Kids(es, q)
    PROVE  q \in Seq(Numbers) /\ k \in Numbers /\ q \o <<k>> \in DOMAIN es
<1>1. PICK p \in DOMAIN es : p # <<>> /\ Front(p) = q /\ Last(p) = k
  BY DEF Kids
<1>2. p \in Seq(Numbers)
  BY DEF Positions, Numbers
<1> QED
  BY <1>1, <1>2, FrontLastOf

LEMMA KidOfPlace ==
    ASSUME NEW es, NEW q \in Seq(Numbers), NEW k \in Numbers, q \o <<k>> \in DOMAIN es
    PROVE  k \in Kids(es, q)
<1>1. PICK p \in DOMAIN es : p = q \o <<k>>
  OBVIOUS
<1>2. p # <<>> /\ Front(p) = q /\ Last(p) = k
  BY <1>1, FrontLast
<1> QED
  BY <1>2 DEF Kids

LEMMA MaxOf ==
    ASSUME NEW n \in Nat, NEW T \in SUBSET (0..n), T # {}
    PROVE  Max(T) \in T /\ \A k \in T : k <= Max(T)
<1>1. PICK U : U = {n - k : k \in T}
  OBVIOUS
<1>2. U \in SUBSET Nat /\ U # {}
  <2>1. \A k \in T : n - k \in Nat
    <3> SUFFICES ASSUME NEW k \in T
                 PROVE  n - k \in Nat
      OBVIOUS
    <3>1. k \in 0..n
      OBVIOUS
    <3> QED
      BY <3>1
  <2> QED
    BY <1>1, <2>1
<1>3. PICK m \in U : \A k \in U : m <= k
  BY <1>2, Least
<1>4. PICK j \in T : m = n - j
  BY <1>1
<1>5. \A k \in T : j >= k
  BY <1>1, <1>3, <1>4
<1> QED
  BY <1>5 DEF Max

(* A finite set of numbers has a bound, and the number behind it is a new one. *)
LEMMA FiniteBound ==
    ASSUME NEW T \in SUBSET Nat, IsFiniteSet(T)
    PROVE  \E b \in Nat : T \subseteq 0..b
<1> DEFINE Bounded(S) == \E b \in Nat : S \subseteq 0..b
           G == {n \in Nat : \A S \in SUBSET Nat :
                    IsFiniteSet(S) /\ Cardinality(S) = n => Bounded(S)}
<1>1. 0 \in G
  <2> SUFFICES ASSUME NEW S \in SUBSET Nat, IsFiniteSet(S), Cardinality(S) = 0
               PROVE  Bounded(S)
    OBVIOUS
  <2>1. S = {}
    BY FS_EmptySet
  <2> QED
    BY <2>1
<1>2. ASSUME NEW n \in Nat, n \in G
      PROVE  n + 1 \in G
  <2> SUFFICES ASSUME NEW S \in SUBSET Nat, IsFiniteSet(S), Cardinality(S) = n + 1
               PROVE  Bounded(S)
    OBVIOUS
  <2>1. S # {}
    BY FS_EmptySet
  <2>2. PICK x \in S : TRUE
    BY <2>1
  <2>3. PICK R \in SUBSET Nat : R = S \ {x}
    OBVIOUS
  <2>4. IsFiniteSet(R) /\ Cardinality(R) = n
    <3>1. Cardinality(R) = Cardinality(S) - 1
      BY <2>2, <2>3, FS_RemoveElement
    <3>2. IsFiniteSet(R)
      BY <2>3, FS_Subset
    <3> QED
      BY <3>1, <3>2
  <2>5. PICK b \in Nat : R \subseteq 0..b
    BY <1>2, <2>4
  <2>6. PICK c \in Nat : c = IF x > b THEN x ELSE b
    BY <2>2, <2>5
  <2>7. S \subseteq 0..c
    BY <2>2, <2>3, <2>5, <2>6
  <2> QED
    BY <2>7
<1>3. \A n \in Nat : n \in G
  <2> HIDE DEF G
  <2> QED
    BY <1>1, <1>2, NatInductionOnSet
<1>4. Cardinality(T) \in Nat
  BY FS_CardinalityType
<1> QED
  BY <1>3, <1>4

LEMMA BehindType ==
    ASSUME NEW K \in SUBSET Numbers, IsFiniteSet(K)
    PROVE  Behind(K) \in Numbers /\ \A k \in K : k < Behind(K)
<1>1. PICK T : T = K \cup {0}
  OBVIOUS
<1>2. T \in SUBSET Nat /\ T # {} /\ IsFiniteSet(T)
  BY <1>1, FS_AddElement DEF Numbers
<1>3. PICK b \in Nat : T \subseteq 0..b
  BY <1>2, FiniteBound
<1>4. Max(T) \in T /\ \A k \in T : k <= Max(T)
  BY <1>2, <1>3, MaxOf
<1>5. Behind(K) = Max(T) + 1
  BY <1>1 DEF Behind
<1>6. PICK m \in Nat : m = Max(T) /\ \A k \in T : k <= m
  BY <1>2, <1>4
<1>7. \A k \in K : k \in Nat /\ k \in T
  BY <1>1 DEF Numbers
<1> QED
  BY <1>5, <1>6, <1>7 DEF Numbers

LEMMA ImageFinite ==
    ASSUME NEW S, IsFiniteSet(S), NEW h
    PROVE  IsFiniteSet({h[x] : x \in S})
<1>1. PICK T : T = {h[x] : x \in S}
  OBVIOUS
<1>2. PICK f : f = [x \in S |-> h[x]]
  OBVIOUS
<1>3. f \in Surjection(S, T)
  BY <1>1, <1>2 DEF Surjection
<1> QED
  BY <1>1, <1>3, FS_Surjection

LEMMA KidsFinite ==
    ASSUME NEW es, IsFiniteSet(DOMAIN es), NEW q
    PROVE  IsFiniteSet(Kids(es, q))
<1>1. PICK D : D = {p \in DOMAIN es : p # <<>> /\ Front(p) = q}
  OBVIOUS
<1>2. IsFiniteSet(D)
  BY <1>1, FS_Subset
<1>3. PICK h : h = [p \in D |-> Last(p)]
  OBVIOUS
<1>4. IsFiniteSet({h[p] : p \in D})
  BY <1>2, ImageFinite
<1>5. {h[p] : p \in D} = Kids(es, q)
  BY <1>1, <1>3 DEF Kids
<1> QED
  BY <1>4, <1>5

(* ----------------------------------------------------------------- rows *)

(* A tree whose rows are inert stays one when a row is put into it. *)
LEMMA RowInert ==
    ASSUME NEW es, RowsInert(es), NEW p \in DOMAIN es
    PROVE  /\ p \in Positions /\ es[p] \in Row /\ es[p].text \in Inert
           /\ es[p].text \in Texts /\ es[p].obj \in BOOLEAN
           /\ es[p].kind \in {"input", "plain", "hint"}
           /\ es[p].kind = "hint" => es[p].text = <<>>
BY DEF RowsInert, IsTreeOfRows, Row, Inert

LEMMA LineType ==
    ASSUME NEW kind \in {"input", "plain"}, NEW text \in Texts
    PROVE  /\ Line(kind, text) \in Row /\ Line(kind, text).kind # "hint"
           /\ Object(kind, text) \in Row /\ Object(kind, text).kind # "hint"
           /\ Line(kind, text).text = text /\ Object(kind, text).text = text
           /\ ~Line(kind, text).obj /\ Object(kind, text).obj
BY DEF Line, Object, Row

LEMMA EmptyInert == <<>> \in Inert
BY EmptySeq DEF Inert, IsInert, Texts

LEMMA HintType == Hint \in Row /\ Hint.kind = "hint" /\ Hint.text = <<>> /\ ~Hint.obj
BY EmptySeq DEF Hint, Line, Row, Texts

(* What a row of a draft has to be. *)
GoodRow(row) == row \in Row /\ row.text \in Inert /\ (row.kind = "hint" => row.text = <<>>)

LEMMA HintGood == GoodRow(Hint)
BY HintType, EmptyInert DEF GoodRow

LEMMA RowsGood ==
    ASSUME NEW es
    PROVE  RowsInert(es) <=> /\ IsFiniteSet(DOMAIN es) /\ DOMAIN es \subseteq Positions
                             /\ \A p \in DOMAIN es : GoodRow(es[p])
BY DEF RowsInert, IsTreeOfRows, GoodRow

LEMMA PutRowInert ==
    ASSUME NEW es, RowsInert(es), NEW p \in Positions, NEW row, GoodRow(row)
    PROVE  RowsInert(PutRow(es, p, row))
<1>1. PICK D : D = DOMAIN es \cup {p} \cup (IF row.obj THEN {p \o <<1>>} ELSE {})
  OBVIOUS
<1>2. PICK t : t = [q \in D |-> IF q = p THEN row ELSE IF q \in DOMAIN es THEN es[q] ELSE Hint]
  OBVIOUS
<1>3. t = PutRow(es, p, row)
  BY <1>1, <1>2 DEF PutRow
<1>4. p \o <<1>> \in Positions
  BY FrontLast DEF Positions
<1>5. D \subseteq Positions
  BY <1>1, <1>4, RowsGood
<1>6. IsFiniteSet(D)
  <2>1. IsFiniteSet(DOMAIN es \cup {p})
    BY RowsGood, FS_AddElement
  <2>2. IsFiniteSet((DOMAIN es \cup {p}) \cup {p \o <<1>>})
    BY <2>1, FS_AddElement
  <2> QED
    BY <1>1, <2>1, <2>2
<1>7. \A q \in D : GoodRow(t[q])
  BY <1>2, RowsGood, HintGood
<1> QED
  BY <1>2, <1>3, <1>5, <1>6, <1>7, RowsGood

LEMMA KidsBehind ==
    ASSUME NEW es, RowsInert(es), NEW q
    PROVE  /\ Behind(Kids(es, q)) \in Numbers
           /\ \A k \in Kids(es, q) : k < Behind(Kids(es, q))
<1>1. IsFiniteSet(Kids(es, q))
  BY KidsFinite, RowsGood
<1>2. Kids(es, q) \in SUBSET Numbers
  BY KidPlace, RowsGood
<1> QED
  BY <1>1, <1>2, BehindType

LEMMA AddedInert ==
    ASSUME NEW es, RowsInert(es), NEW q \in Seq(Numbers), NEW row, GoodRow(row)
    PROVE  RowsInert(Added(es, q, row))
<1>1. PICK k \in Numbers : k = Behind(Kids(es, q))
  BY KidsBehind
<1>2. q \o <<k>> \in Positions
  BY FrontLast DEF Positions, Numbers
<1>3. PICK p \in Positions : p = q \o <<k>>
  BY <1>2
<1> QED
  BY <1>1, <1>3, PutRowInert DEF Added

LEMMA JoinedInert ==
    ASSUME NEW rows, NEW n \in Nat \ {0}, DOMAIN rows = 1..n, Len(rows) = n,
           \A i \in 1..n : GoodRow(rows[i]), NEW es, RowsInert(es)
    PROVE  RowsInert(Joined(rows, es))
<1>1. PICK h : h = [q \in DOMAIN es |-> [q EXCEPT ![1] = @ + n]]
  OBVIOUS
<1>2. PICK C : C = {h[q] : q \in DOMAIN es}
  OBVIOUS
<1>3. PICK g : g = [i \in 1..n |-> <<i>>]
  OBVIOUS
<1>4. PICK B : B = {g[i] : i \in 1..n}
  OBVIOUS
<1>5. PICK t : t = [p \in B \cup C |->
                      IF p[1] <= n THEN rows[p[1]] ELSE es[[p EXCEPT ![1] = @ - n]]]
  OBVIOUS
<1>6. t = Joined(rows, es)
  <2>1. B = {<<i>> : i \in DOMAIN rows}
    BY <1>3, <1>4
  <2>2. C = {[q EXCEPT ![1] = @ + n] : q \in DOMAIN es}
    BY <1>1, <1>2
  <2>3. t = [p \in {<<i>> : i \in DOMAIN rows} \cup {[q EXCEPT ![1] = @ + n] : q \in DOMAIN es} |->
               IF p[1] <= n THEN rows[p[1]] ELSE es[[p EXCEPT ![1] = @ - n]]]
    BY <1>5, <2>1, <2>2, Zenon
  <2> QED
    BY <2>3 DEF Joined
<1>7. IsFiniteSet(B \cup C)
  <2>1. IsFiniteSet(1..n)
    BY FS_Interval
  <2>2. IsFiniteSet(B)
    BY <1>4, <2>1, ImageFinite
  <2>3. IsFiniteSet(C)
    BY <1>2, RowsGood, ImageFinite
  <2> QED
    BY <2>2, <2>3, FS_Union
<1>8. ASSUME NEW p \in B
      PROVE  p \in Positions /\ GoodRow(t[p])
  <2>1. PICK i \in 1..n : p = <<i>>
    BY <1>3, <1>4
  <2>2. p \in Positions /\ p[1] = i
    BY <2>1 DEF Positions
  <2> QED
    BY <1>5, <2>2
<1>9. ASSUME NEW p \in C
      PROVE  p \in Positions /\ GoodRow(t[p])
  <2>1. PICK q \in DOMAIN es : p = [q EXCEPT ![1] = @ + n]
    BY <1>1, <1>2
  <2>2. q \in Positions
    BY RowsGood
  <2>3. PICK m \in Nat \ {0} : m = Len(q)
    BY <2>2, EmptySeq DEF Positions
  <2>4. q \in [1..m -> Nat \ {0}]
    BY <2>2, <2>3, LenProperties DEF Positions
  <2>5. p \in [1..m -> Nat \ {0}] /\ p[1] = q[1] + n
    BY <2>1, <2>4
  <2>6. p \in Positions
    <3>1. p \in Seq(Nat \ {0})
      BY <2>5, IsASeq
    <3>2. p # <<>>
      BY <2>5
    <3> QED
      BY <3>1, <3>2 DEF Positions
  <2>7. [p EXCEPT ![1] = @ - n] = q
    <3>1. PICK r : r = [p EXCEPT ![1] = @ - n]
      OBVIOUS
    <3>2. r = [i \in 1..m |-> r[i]] /\ r[1] = q[1] /\ \A i \in 1..m : i # 1 => r[i] = q[i]
      BY <2>1, <2>4, <2>5, <3>1
    <3>3. \A i \in 1..m : r[i] = q[i]
      BY <3>2
    <3>4. q = [i \in 1..m |-> q[i]]
      BY <2>4
    <3>5. r = q
      BY <3>2, <3>3, <3>4
    <3> QED
      BY <3>1, <3>5
  <2>8. ~(p[1] <= n)
    BY <2>4, <2>5
  <2>9. t[p] = es[q]
    BY <1>5, <2>7, <2>8
  <2> QED
    BY <2>6, <2>9, RowsGood
<1>10. DOMAIN t = B \cup C
  BY <1>5
<1>11. RowsInert(t)
  BY <1>7, <1>8, <1>9, <1>10, RowsGood
<1> QED
  BY <1>6, <1>11

LEMMA NoRows == RowsInert(<<>>)
<1>1. DOMAIN <<>> = {}
  BY EmptySeq, LenProperties
<1> QED
  BY <1>1, FS_EmptySet, RowsGood

LEMMA LinesInert ==
    /\ RowsInert(Lines(<<>>))
    /\ \A r : GoodRow(r) => RowsInert(Lines(<<r>>))
    /\ \A r, s : GoodRow(r) /\ GoodRow(s) => RowsInert(Lines(<<r, s>>))
<1>1. RowsInert(Lines(<<>>))
  <2>1. PICK C : C = {<<i>> : i \in DOMAIN <<>>} \cup {[q EXCEPT ![1] = @ + Len(<<>>)] : q \in DOMAIN <<>>}
    OBVIOUS
  <2>2. DOMAIN <<>> = {}
    BY EmptySeq, LenProperties
  <2>3. C = {}
    BY <2>1, <2>2
  <2>4. DOMAIN Lines(<<>>) = C
    BY <2>1 DEF Lines, Joined
  <2> QED
    BY <2>3, <2>4, FS_EmptySet, RowsGood
<1>2. ASSUME NEW r, GoodRow(r)
      PROVE  RowsInert(Lines(<<r>>))
  <2>1. PICK rows : rows = <<r>>
    OBVIOUS
  <2>2. DOMAIN rows = 1..1 /\ Len(rows) = 1 /\ \A i \in 1..1 : GoodRow(rows[i])
    BY <1>2, <2>1
  <2> QED
    BY <2>1, <2>2, NoRows, JoinedInert DEF Lines
<1>3. ASSUME NEW r, NEW s, GoodRow(r), GoodRow(s)
      PROVE  RowsInert(Lines(<<r, s>>))
  <2>1. PICK rows : rows = <<r, s>>
    OBVIOUS
  <2>2. DOMAIN rows = 1..2 /\ Len(rows) = 2 /\ \A i \in 1..2 : GoodRow(rows[i])
    BY <1>3, <2>1
  <2>3. PICK n \in Nat \ {0} : n = 2
    OBVIOUS
  <2>4. RowsInert(Joined(rows, <<>>))
    BY <2>2, <2>3, NoRows, JoinedInert
  <2> QED
    BY <2>1, <2>4 DEF Lines
<1> QED
  BY <1>1, <1>2, <1>3

(* A tree without one of its rows. *)
LEMMA RemovedInert ==
    ASSUME NEW es, RowsInert(es), NEW i \in Numbers
    PROVE  RowsInert(Removed(es, i))
<1>1. PICK D : D = {q \in DOMAIN es : q[1] # i}
  OBVIOUS
<1>2. PICK h : h = [q \in D |-> [q EXCEPT ![1] = IF @ > i THEN @ - 1 ELSE @]]
  OBVIOUS
<1>3. PICK C : C = {h[q] : q \in D}
  OBVIOUS
<1>4. PICK t : t = [p \in C |-> es[[p EXCEPT ![1] = IF @ >= i THEN @ + 1 ELSE @]]]
  OBVIOUS
<1>5. t = Removed(es, i)
  <2>1. C = {[q EXCEPT ![1] = IF @ > i THEN @ - 1 ELSE @] : q \in {q \in DOMAIN es : q[1] # i}}
    BY <1>1, <1>2, <1>3
  <2> QED
    BY <1>4, <2>1 DEF Removed
<1>6. IsFiniteSet(C)
  <2>1. IsFiniteSet(D)
    BY <1>1, RowsGood, FS_Subset
  <2> QED
    BY <1>3, <2>1, ImageFinite
<1>7. ASSUME NEW p \in C
      PROVE  p \in Positions /\ GoodRow(t[p])
  <2>1. PICK q \in D : p = [q EXCEPT ![1] = IF @ > i THEN @ - 1 ELSE @]
    BY <1>2, <1>3
  <2>2. q \in Positions /\ q[1] # i /\ q \in DOMAIN es
    BY <1>1, RowsGood
  <2>3. PICK m \in Nat \ {0} : m = Len(q)
    BY <2>2, EmptySeq DEF Positions
  <2>4. q \in [1..m -> Nat \ {0}]
    BY <2>2, <2>3, LenProperties DEF Positions
  <2>5. p = [n \in 1..m |-> p[n]] /\ p[1] = (IF q[1] > i THEN q[1] - 1 ELSE q[1])
        /\ \A n \in 1..m : n # 1 => p[n] = q[n]
    <3>1. PICK a : a = (IF q[1] > i THEN q[1] - 1 ELSE q[1])
      OBVIOUS
    <3>2. p = [q EXCEPT ![1] = a]
      BY <2>1, <3>1
    <3>3. p = [n \in 1..m |-> IF n = 1 THEN a ELSE q[n]]
      BY <2>4, <3>2
    <3> QED
      BY <3>1, <3>3
  <2>6. p \in [1..m -> Nat \ {0}]
    <3>1. p[1] \in Nat \ {0}
      BY <2>4, <2>5 DEF Numbers
    <3>2. \A n \in 1..m : p[n] \in Nat \ {0}
      BY <2>4, <2>5, <3>1
    <3> QED
      BY <2>5, <3>2
  <2>7. p \in Positions
    <3>1. p \in Seq(Nat \ {0})
      BY <2>6, IsASeq
    <3>2. p # <<>>
      BY <2>6
    <3> QED
      BY <3>1, <3>2 DEF Positions
  <2>8. [p EXCEPT ![1] = IF @ >= i THEN @ + 1 ELSE @] = q
    <3>1. PICK r : r = [p EXCEPT ![1] = IF @ >= i THEN @ + 1 ELSE @]
      OBVIOUS
    <3>2. r = [n \in 1..m |-> r[n]] /\ r[1] = (IF p[1] >= i THEN p[1] + 1 ELSE p[1])
          /\ \A n \in 1..m : n # 1 => r[n] = q[n]
      <4>1. PICK a : a = (IF p[1] >= i THEN p[1] + 1 ELSE p[1])
        OBVIOUS
      <4>2. r = [p EXCEPT ![1] = a]
        BY <3>1, <4>1
      <4>3. r = [n \in 1..m |-> IF n = 1 THEN a ELSE p[n]]
        BY <2>6, <4>2
      <4> QED
        BY <2>5, <4>1, <4>3
    <3>3. r[1] = q[1]
      BY <2>2, <2>4, <2>5, <3>2 DEF Numbers
    <3>4. \A n \in 1..m : r[n] = q[n]
      BY <3>2, <3>3
    <3>5. q = [n \in 1..m |-> q[n]]
      BY <2>4
    <3>6. r = q
      BY <3>2, <3>4, <3>5
    <3> QED
      BY <3>1, <3>6
  <2>9. t[p] = es[q]
    BY <1>4, <2>8
  <2> QED
    BY <2>2, <2>7, <2>9, RowsGood
<1>8. DOMAIN t = C
  BY <1>4
<1> QED
  BY <1>5, <1>6, <1>7, <1>8, RowsGood

LEMMA SeededInert ==
    ASSUME NEW es, RowsInert(es)
    PROVE  RowsInert(Seeded(es))
<1>1. PICK bare : bare = Unhinted(es)
  OBVIOUS
<1>2. bare \subseteq DOMAIN es
  BY <1>1 DEF Unhinted
<1>3. PICK h : h = [p \in DOMAIN es |->
        [n \in DOMAIN p |-> IF SubSeq(p, 1, n - 1) \in bare THEN p[n] + 1 ELSE p[n]]]
  OBVIOUS
<1>4. PICK g : g = [p \in bare |-> h[p] \o <<1>>]
  OBVIOUS
<1>5. PICK H : H = {g[p] : p \in bare}
  OBVIOUS
<1>6. PICK M : M = {h[p] : p \in DOMAIN es}
  OBVIOUS
<1>7. PICK t : t = [q \in M \cup H |->
        IF q \in H THEN Hint ELSE es[CHOOSE p \in DOMAIN es : h[p] = q]]
  OBVIOUS
<1>8. t = Seeded(es)
  <2> DEFINE moved(p) == [n \in DOMAIN p |->
                            IF SubSeq(p, 1, n - 1) \in bare THEN p[n] + 1 ELSE p[n]]
  <2>1. \A p \in DOMAIN es : h[p] = moved(p)
    BY <1>3
  <2> HIDE DEF moved
  <2>2. M = {moved(p) : p \in DOMAIN es}
    BY <1>6, <2>1
  <2>3. \A p \in bare : g[p] = moved(p) \o <<1>>
    BY <1>2, <1>4, <2>1
  <2>4. H = {moved(p) \o <<1>> : p \in bare}
    BY <1>5, <2>3
  <2>5. \A q : (CHOOSE p \in DOMAIN es : h[p] = q) = (CHOOSE p \in DOMAIN es : moved(p) = q)
    BY <2>1
  <2>6. Seeded(es) =
          [q \in {moved(p) : p \in DOMAIN es} \cup {moved(p) \o <<1>> : p \in bare} |->
              IF q \in {moved(p) \o <<1>> : p \in bare} THEN Hint
              ELSE es[CHOOSE p \in DOMAIN es : moved(p) = q]]
    BY <1>1 DEF Seeded, moved
  <2>7. Seeded(es) = [q \in M \cup H |->
                        IF q \in H THEN Hint ELSE es[CHOOSE p \in DOMAIN es : moved(p) = q]]
    BY <2>2, <2>4, <2>6
  <2> QED
    BY <1>7, <2>5, <2>7
<1>9. ASSUME NEW p \in DOMAIN es
      PROVE  h[p] \in Positions
  <2>1. p \in Positions
    BY RowsGood
  <2>2. PICK m \in Nat \ {0} : m = Len(p)
    BY <2>1, EmptySeq DEF Positions
  <2>3. p \in [1..m -> Nat \ {0}]
    BY <2>1, <2>2, LenProperties DEF Positions
  <2>4. h[p] = [n \in DOMAIN p |-> IF SubSeq(p, 1, n - 1) \in bare THEN p[n] + 1 ELSE p[n]]
    BY <1>3
  <2>5. h[p] \in [1..m -> Nat \ {0}]
    BY <2>3, <2>4
  <2>6. h[p] \in Seq(Nat \ {0})
    BY <2>5, IsASeq
  <2>7. h[p] # <<>>
    BY <2>5
  <2> QED
    BY <2>6, <2>7 DEF Positions
<1>10. ASSUME NEW q \in H
       PROVE  q \in Positions
  <2>1. PICK p \in bare : q = h[p] \o <<1>>
    BY <1>4, <1>5
  <2>2. h[p] \in Seq(Nat \ {0})
    BY <1>2, <1>9 DEF Positions
  <2> QED
    BY <2>1, <2>2, FrontLast DEF Positions
<1>11. ASSUME NEW q \in M, q \notin H
       PROVE  q \in Positions /\ GoodRow(t[q])
  <2>1. PICK p \in DOMAIN es : h[p] = q
    BY <1>6
  <2>2. PICK r \in DOMAIN es : r = CHOOSE s \in DOMAIN es : h[s] = q
    BY <2>1
  <2>3. t[q] = es[r]
    BY <1>7, <1>11, <2>2
  <2> QED
    BY <1>9, <2>1, <2>3, RowsGood
<1>12. ASSUME NEW q \in H
       PROVE  GoodRow(t[q])
  BY <1>7, HintGood
<1>13. IsFiniteSet(M \cup H)
  <2>1. IsFiniteSet(M)
    BY <1>6, RowsGood, ImageFinite
  <2>2. IsFiniteSet(bare)
    BY <1>2, RowsGood, FS_Subset
  <2>3. IsFiniteSet(H)
    BY <1>5, <2>2, ImageFinite
  <2> QED
    BY <2>1, <2>3, FS_Union
<1>14. DOMAIN t = M \cup H
  BY <1>7
<1>15. RowsInert(t)
  BY <1>10, <1>11, <1>12, <1>13, <1>14, RowsGood
<1> QED
  BY <1>8, <1>15

(* The rows of a tree as the rows of a draft. *)
LEMMA ComposeRowsInert ==
    ASSUME NEW es, IsTreeOfRows(es)
    PROVE  RowsInert(ComposeRows(es))
<1>1. PICK t : t = [p \in DOMAIN es |-> RowAs("compose", es[p])]
  OBVIOUS
<1>2. t = ComposeRows(es)
  BY <1>1 DEF ComposeRows, MapTree
<1>3. ASSUME NEW p \in DOMAIN es
      PROVE  GoodRow(t[p])
  <2>1. PICK row \in Row : row = es[p] /\ (row.kind = "hint" => row.text = <<>>)
    BY DEF IsTreeOfRows
  <2>2. CASE row.kind = "hint"
    <3>1. t[p] = row
      BY <1>1, <2>1, <2>2 DEF RowAs
    <3> QED
      BY <2>1, <2>2, <3>1, EmptyInert DEF GoodRow
  <2>3. CASE row.kind # "hint"
    <3>1. t[p] = [row EXCEPT !.text = Escape(@)]
      BY <1>1, <2>1, <2>3 DEF RowAs
    <3>2. row = [obj |-> row.obj, kind |-> row.kind, text |-> row.text]
          /\ row.obj \in BOOLEAN /\ row.kind \in {"input", "plain", "hint"} /\ row.text \in Texts
      BY DEF Row
    <3>3. PICK u \in Inert : u = Escape(row.text)
      BY <3>2, EscapeType, EscapeInert DEF Inert
    <3>4. t[p] = [obj |-> row.obj, kind |-> row.kind, text |-> u]
      BY <3>1, <3>2, <3>3
    <3> QED
      BY <2>3, <3>2, <3>4 DEF GoodRow, Row, Inert
  <2> QED
    BY <2>2, <2>3
<1> QED
  BY <1>1, <1>2, <1>3, RowsGood DEF IsTreeOfRows

(* The rows of a tree as the rows of a message being read. *)
LEMMA ReceivedRowsInert ==
    ASSUME NEW es, IsTreeOfRows(es), NEW t \in TextsOf(ReceivedRows(es))
    PROVE  t \in Inert
<1>1. PICK p \in DOMAIN es : t = RowAs("received", es[p]).text
  BY DEF TextsOf, ReceivedRows, MapTree
<1>2. PICK row \in Row : row = es[p] /\ (row.kind = "hint" => row.text = <<>>)
  BY DEF IsTreeOfRows
<1>3. CASE row.kind = "hint"
  BY <1>1, <1>2, <1>3, EmptyInert DEF RowAs
<1>4. CASE row.kind # "hint"
  <2>1. t = [row EXCEPT !.kind = "plain", !.text = Escape(@)].text
    BY <1>1, <1>2, <1>4 DEF RowAs
  <2>2. t = Escape(row.text) /\ row.text \in Texts
    BY <2>1 DEF Row
  <2> QED
    BY <2>2, EscapeType, EscapeInert DEF Inert
<1> QED
  BY <1>3, <1>4

(* ---------------------------------------------------------------- bodies *)

LEMMA ObjKeyType ==
    ASSUME NEW t \in Texts
    PROVE  ObjKey(t) \in Texts
<1>1. CASE t = <<>> \/ Last(t) # Colon
  BY <1>1, EmptySeq DEF ObjKey, Texts
<1>2. CASE ~(t = <<>> \/ Last(t) # Colon)
  <2>1. PICK n \in Nat : n = Len(t)
    BY LenProperties DEF Texts
  <2>2. PICK T \in SUBSET (1..n) : T = {i \in 1..n : t[i] # Colon}
    OBVIOUS
  <2>3. PICK k : k = IF T # {} THEN Max(T) ELSE 0
    OBVIOUS
  <2>4. k \in 0..n
    <3>1. ASSUME T # {}
          PROVE  Max(T) \in T
      <4>1. T \in SUBSET (0..n)
        BY <2>2
      <4> QED
        BY <3>1, <4>1, MaxOf
    <3>2. CASE T = {}
      BY <2>3, <3>2
    <3>3. CASE T # {}
      <4>1. PICK m \in 1..n : m = Max(T)
        BY <3>1, <3>3
      <4> QED
        BY <2>3, <3>3, <4>1
    <3> QED
      BY <3>2, <3>3
  <2>5. ObjKey(t) = SubSeq(t, 1, k)
    BY <1>2, <2>1, <2>2, <2>3 DEF ObjKey, SelectLastInSeq
  <2>6. 1 \in Nat /\ k \in Int /\ 1 >= 1 /\ k <= Len(t)
    BY <2>1, <2>4
  <2>7. SubSeq(t, 1, k) \in Texts
    BY <2>6, SubSeqType
  <2> QED
    BY <2>5, <2>7
<1> QED
  BY <1>1, <1>2

LEMMA TextLeafGood ==
    ASSUME NEW t \in Texts
    PROVE  GoodRow(TextLeaf(t)) /\ GoodRow(NewObject(t))
<1>1. PICK u \in Inert : u = Escape(t)
  BY EscapeType, EscapeInert DEF Inert
<1>2. u \in Texts
  BY DEF Inert
<1>3. "input" \in {"input", "plain"}
  OBVIOUS
<1>4. Line("input", u) \in Row /\ Line("input", u).kind # "hint" /\ Line("input", u).text = u
  BY <1>2, <1>3, LineType
<1>5. Object("input", u) \in Row /\ Object("input", u).kind # "hint" /\ Object("input", u).text = u
  BY <1>2, <1>3, LineType
<1> QED
  BY <1>1, <1>4, <1>5 DEF TextLeaf, NewObject, GoodRow

LEMMA EditedRowGood ==
    ASSUME NEW new \in Texts
    PROVE  GoodRow(EditedRow(new))
<1>1. PICK key \in Texts : key = ObjKey(new)
  BY ObjKeyType
<1> QED
  BY <1>1, TextLeafGood DEF EditedRow

LEMMA TextBody ==
    ASSUME NEW t \in Texts
    PROVE  BodyInert(Text(t))
BY NoRows, RowsGood DEF BodyInert, IsBody, Text, RowsInert

LEMMA FfonBody ==
    ASSUME NEW es, RowsInert(es)
    PROVE  BodyInert(Ffon(es))
BY EmptySeq DEF BodyInert, IsBody, Ffon, RowsInert, Texts

LEMMA BodyParts ==
    ASSUME NEW body, BodyInert(body)
    PROVE  /\ body.kind \in {"text", "ffon"} /\ body.text \in Texts /\ RowsInert(body.rows)
           /\ body = [kind |-> body.kind, text |-> body.text, rows |-> body.rows]
BY DEF BodyInert, IsBody

LEMMA ChildrenInert ==
    ASSUME NEW body, BodyInert(body)
    PROVE  RowsInert(BodyToComposeChildren(body))
<1>1. PICK row : row = TextLeaf(body.text) /\ GoodRow(row)
  BY BodyParts, TextLeafGood
<1> QED
  BY <1>1, BodyParts, LinesInert DEF BodyToComposeChildren

LEMMA RowHoldingKid ==
    ASSUME NEW es, RowsInert(es), NEW q, NEW old, RowHolding(es, q, old) # 0
    PROVE  /\ RowHolding(es, q, old) \in Kids(es, q)
           /\ ~es[q \o <<RowHolding(es, q, old)>>].obj
           /\ es[q \o <<RowHolding(es, q, old)>>].text = old
<1>1. PICK T : T = {k \in Kids(es, q) : ~es[q \o <<k>>].obj /\ es[q \o <<k>>].text = old}
  OBVIOUS
<1>2. RowHolding(es, q, old) = IF T = {} THEN 0 ELSE Min(T)
  BY <1>1 DEF RowHolding, FirstOf
<1>3. T \in SUBSET Nat
  BY <1>1, KidPlace, RowsGood DEF Numbers
<1>4. T # {} => Min(T) \in T
  BY <1>3, MinOf
<1>5. RowHolding(es, q, old) \in T
  BY <1>2, <1>4
<1> QED
  BY <1>1, <1>5

LEMMA UpdateBodyElemsInert ==
    ASSUME NEW es, RowsInert(es), NEW q \in Seq(Numbers), NEW old, NEW new \in Texts
    PROVE  RowsInert(UpdateBodyElems(es, q, old, new))
<1>1. PICK row : row = EditedRow(new) /\ GoodRow(row)
  BY EditedRowGood
<1>2. CASE RowHolding(es, q, old) = 0
  BY <1>1, <1>2, AddedInert DEF UpdateBodyElems
<1>3. CASE RowHolding(es, q, old) # 0
  <2>1. PICK k \in Kids(es, q) : k = RowHolding(es, q, old)
    BY <1>3, RowHoldingKid
  <2>2. q \o <<k>> \in DOMAIN es
    BY KidPlace, RowsGood
  <2>3. PICK p \in Positions : p = q \o <<k>>
    BY <2>2, RowsGood
  <2>4. RowsInert(PutRow(es, p, row))
    BY <1>1, PutRowInert
  <2> QED
    BY <1>1, <1>3, <2>1, <2>3, <2>4 DEF UpdateBodyElems
<1> QED
  BY <1>2, <1>3

LEMMA PlaceIs ==
    ASSUME NEW es, RowsInert(es), NEW sub, PlacesAt(es, sub) # {}
    PROVE  PlaceAt(es, sub) \in PlacesAt(es, sub) /\ PlaceAt(es, sub) \in Seq(Numbers)
<1>1. PlaceAt(es, sub) \in PlacesAt(es, sub)
  BY DEF PlaceAt
<1>2. PlacesAt(es, sub) \subseteq DOMAIN es \cup {<<>>}
  BY DEF PlacesAt
<1>3. DOMAIN es \subseteq Seq(Numbers) /\ <<>> \in Seq(Numbers)
  BY RowsGood, EmptySeq DEF Positions, Numbers
<1> QED
  BY <1>1, <1>2, <1>3

LEMMA UpdatedAtInert ==
    ASSUME NEW es, RowsInert(es), NEW sub, NEW old, NEW new \in Texts
    PROVE  RowsInert(UpdatedAt(es, sub, old, new))
<1>1. CASE PlacesAt(es, sub) = {}
  BY <1>1 DEF UpdatedAt
<1>2. CASE PlacesAt(es, sub) # {}
  <2>1. PICK q \in Seq(Numbers) : q = PlaceAt(es, sub)
    BY <1>2, PlaceIs
  <2> QED
    BY <1>2, <2>1, UpdateBodyElemsInert DEF UpdatedAt
<1> QED
  BY <1>1, <1>2

(* A row that is at a sub-path is a row of the tree. *)
LEMMA ElemsAtRow ==
    ASSUME NEW es, RowsInert(es), NEW sub, NEW i \in DOMAIN ElemsAt(es, sub)
    PROVE  /\ PlacesAt(es, sub) # {} /\ i \in Kids(es, PlaceAt(es, sub)) /\ i \in Numbers
           /\ PlaceAt(es, sub) \o <<i>> \in DOMAIN es
           /\ ElemsAt(es, sub)[i] = es[PlaceAt(es, sub) \o <<i>>]
           /\ GoodRow(ElemsAt(es, sub)[i])
<1>1. PlacesAt(es, sub) # {}
  <2>1. DOMAIN <<>> = {}
    BY EmptySeq, LenProperties
  <2> QED
    BY <2>1 DEF ElemsAt
<1>2. PICK q : q = PlaceAt(es, sub)
  OBVIOUS
<1>3. ElemsAt(es, sub) = [k \in Kids(es, q) |-> es[q \o <<k>>]]
  BY <1>1, <1>2 DEF ElemsAt, RowsUnder
<1>4. i \in Kids(es, q) /\ ElemsAt(es, sub)[i] = es[q \o <<i>>]
  BY <1>3
<1>5. i \in Numbers /\ q \o <<i>> \in DOMAIN es
  BY <1>4, KidPlace, RowsGood
<1> QED
  BY <1>1, <1>2, <1>4, <1>5, RowsGood

LEMMA UpdateBodyLeafInert ==
    ASSUME NEW body, BodyInert(body), NEW old, NEW new \in Texts
    PROVE  BodyInert(UpdateBodyLeaf(body, old, new))
<1>1. <<>> \in Seq(Numbers)
  BY EmptySeq
<1>2. CASE body.kind = "ffon"
  <2>1. RowsInert(UpdateBodyElems(body.rows, <<>>, old, new))
    BY <1>1, BodyParts, UpdateBodyElemsInert
  <2> QED
    BY <1>2, <2>1, FfonBody DEF UpdateBodyLeaf
<1>3. CASE body.kind = "text" /\ (ObjKey(new) # <<>> \/ (old = <<>> /\ body.text # <<>>))
  <2>1. PICK row : row = EditedRow(new) /\ GoodRow(row)
    BY EditedRowGood
  <2>2. RowsInert(Added(BodyToComposeChildren(body), <<>>, row))
    BY <1>1, <2>1, ChildrenInert, AddedInert
  <2> QED
    BY <1>3, <2>1, <2>2, FfonBody DEF UpdateBodyLeaf
<1>4. CASE body.kind # "ffon" /\
           ~(body.kind = "text" /\ (ObjKey(new) # <<>> \/ (old = <<>> /\ body.text # <<>>)))
  BY <1>4, TextBody DEF UpdateBodyLeaf
<1> QED
  BY <1>2, <1>3, <1>4

LEMMA DetectInert ==
    ASSUME NEW body, BodyInert(body)
    PROVE  BodyInert(DetectBodyFormatLive(body))
<1>1. CASE body.kind = "text" /\ IsTree(body.text)
  <2>1. IsTreeOfRows(Trees[body.text])
    BY <1>1, TreesAssumption DEF IsTree
  <2>2. RowsInert(ComposeRows(Trees[body.text]))
    BY <2>1, ComposeRowsInert
  <2> QED
    BY <1>1, <2>2, FfonBody DEF DetectBodyFormatLive
<1> QED
  BY <1>1 DEF DetectBodyFormatLive

LEMMA RenormalizeInert ==
    ASSUME NEW body, BodyInert(body)
    PROVE  BodyInert(RenormalizeBodyVariant(body))
<1>1. CASE IsOneLine(body.rows)
  <2>1. <<1>> \in DOMAIN body.rows
    BY <1>1 DEF IsOneLine
  <2>2. body.rows[<<1>>].text \in Texts
    BY <2>1, BodyParts, RowInert
  <2>3. BodyInert(Text(Unescape(body.rows[<<1>>].text)))
    BY <2>2, UnescapeType, TextBody
  <2> QED
    BY <2>3 DEF RenormalizeBodyVariant
<1> QED
  BY <1>1 DEF RenormalizeBodyVariant

LEMMA BodyAddInert ==
    ASSUME NEW body, BodyInert(body)
    PROVE  BodyInert(BodyAddElement(body))
<1>1. PICK blank : blank = TextLeaf(<<>>) /\ GoodRow(blank)
  <2>1. <<>> \in Texts
    BY EmptySeq DEF Texts
  <2> QED
    BY <2>1, TextLeafGood
<1>2. PICK row : row = TextLeaf(body.text) /\ GoodRow(row)
  BY BodyParts, TextLeafGood
<1>3. <<>> \in Seq(Numbers)
  BY EmptySeq
<1>4. RowsInert(Added(body.rows, <<>>, blank))
  BY <1>1, <1>3, BodyParts, AddedInert
<1>5. RowsInert(Lines(<<row, blank>>))
  BY <1>1, <1>2, LinesInert
<1> QED
  BY <1>1, <1>2, <1>4, <1>5, FfonBody DEF BodyAddElement

LEMMA FromChildrenInert ==
    ASSUME NEW es, RowsInert(es)
    PROVE  BodyInert(BodyFromFfonChildren(es))
<1>1. <<>> \in Texts
  BY EmptySeq DEF Texts
<1>2. CASE DOMAIN es = {}
  BY <1>1, <1>2, TextBody DEF BodyFromFfonChildren, IsOneLine
<1>3. CASE DOMAIN es # {} /\ IsOneLine(es)
  <2>1. <<1>> \in DOMAIN es
    BY <1>3 DEF IsOneLine
  <2>2. es[<<1>>].text \in Texts
    BY <2>1, RowInert
  <2>3. BodyInert(Text(Unescape(es[<<1>>].text)))
    BY <2>2, UnescapeType, TextBody
  <2> QED
    BY <1>3, <2>3, FfonBody DEF BodyFromFfonChildren
<1>4. CASE DOMAIN es # {} /\ ~IsOneLine(es)
  BY <1>4, FfonBody DEF BodyFromFfonChildren
<1> QED
  BY <1>2, <1>3, <1>4

LEMMA ReplyBodyInert ==
    ASSUME NEW body, IsBody(body)
    PROVE  BodyInert(ReplyBody(body))
<1>1. Attribution \in Texts
  <2>1. "wrote" \in Symbols /\ "<" \in Symbols
    BY SymbolTypes, WordsAssumption DEF Words, Tags
  <2> QED
    BY <2>1 DEF Attribution, Texts
<1>2. body.kind \in {"text", "ffon"} /\ body.text \in Texts /\ IsTreeOfRows(body.rows)
  BY DEF IsBody
<1>3. CASE body.kind = "text"
  <2>1. PICK u \in Texts : u = StripMarks(body.text)
    BY <1>2, OmitType DEF StripMarks
  <2>2. Attribution \o u \in Texts
    BY <1>1, ConcatProperties DEF Texts
  <2> QED
    BY <1>3, <2>1, <2>2, TextBody DEF ReplyBody
<1>4. CASE body.kind # "text"
  <2>1. PICK row : row = TextLeaf(Attribution) /\ GoodRow(row)
    BY <1>1, TextLeafGood
  <2>2. PICK es : es = Seeded(ComposeRows(body.rows)) /\ RowsInert(es)
    BY <1>2, ComposeRowsInert, SeededInert
  <2>3. PICK rows : rows = <<Hint, row>>
    OBVIOUS
  <2>4. DOMAIN rows = 1..2 /\ Len(rows) = 2 /\ \A i \in 1..2 : GoodRow(rows[i])
    BY <2>1, <2>3, HintGood
  <2>5. PICK n \in Nat \ {0} : n = 2
    OBVIOUS
  <2>6. RowsInert(Joined(rows, es))
    BY <2>2, <2>4, <2>5, JoinedInert
  <2>7. ReplyBody(body) = Ffon(Joined(rows, es))
    BY <1>4, <2>1, <2>2, <2>3 DEF ReplyBody
  <2> QED
    BY <2>6, <2>7, FfonBody
<1> QED
  BY <1>3, <1>4

LEMMA WordTypes ==
    /\ BracketedTags \subseteq Symbols
    /\ {"INBOX", "compose", "reply", "reply all", "forward", "Attachments:", "Body:", "[text]",
        "[ffon]", "wrote", "Re:", "Fwd:"} \subseteq Symbols
    /\ Fields \subseteq Symbols
BY WordsAssumption, FormAssumption DEF Words

LEMMA PrefillInv ==
    ASSUME NEW draft, DraftInv(draft), NEW m, IsMessage(m), NEW mode \in Answers
    PROVE  DraftInv(PrefillCompose(draft, m, mode))
<1>1. m.from \in Texts /\ m.to \in Texts /\ m.subject \in Texts /\ IsBody(m.body)
  BY DEF IsMessage
<1>2. PICK to \in Texts : to = AnswerTo(mode, m)
  <2>1. CASE mode = <<"reply">>
    BY <1>1, <2>1 DEF AnswerTo
  <2>2. CASE mode = <<"reply all">>
    <3>1. PICK u \in Texts : u = Omit(m.to, {Username})
      BY <1>1, OmitType
    <3>2. m.from \o u \in Texts
      BY <1>1, ConcatProperties DEF Texts
    <3>3. AnswerTo(mode, m) = m.from \o u
      BY <2>2, <3>1 DEF AnswerTo
    <3> QED
      BY <3>2, <3>3
  <2>3. CASE mode = <<"forward">>
    <3>1. AnswerTo(mode, m) = <<>>
      BY <2>3 DEF AnswerTo
    <3> QED
      BY <3>1, EmptySeq DEF Texts
  <2> QED
    BY <2>1, <2>2, <2>3 DEF Answers, FormRoots
<1>3. PICK prefix \in Symbols : prefix = IF mode = <<"forward">> THEN "Fwd:" ELSE "Re:"
  BY WordTypes
<1>4. PICK subject \in Texts : subject = Prefixed(prefix, m.subject)
  <2>1. <<prefix>> \in Texts
    BY DEF Texts
  <2>2. <<prefix>> \o m.subject \in Texts
    BY <1>1, <2>1, ConcatProperties DEF Texts
  <2> QED
    BY <1>1, <2>2 DEF Prefixed
<1>5. PICK body : body = ReplyBody(m.body) /\ BodyInert(body)
  BY <1>1, ReplyBodyInert
<1>6. PICK header : header = [f \in Fields |->
        CASE f = "To" -> to [] f = "Subject" -> subject [] OTHER -> draft.header[f]]
  OBVIOUS
<1>7. header \in [Fields -> Texts]
  <2>1. ASSUME NEW f \in Fields
        PROVE  header[f] \in Texts
    <3>1. draft.header[f] \in Texts
      BY DEF DraftInv
    <3>2. CASE f = "To"
      BY <1>6, <3>2
    <3>3. CASE f = "Subject"
      BY <1>6, <3>3
    <3>4. CASE f # "To" /\ f # "Subject"
      BY <1>6, <3>1, <3>4
    <3> QED
      BY <3>2, <3>3, <3>4
  <2> QED
    BY <1>6, <2>1
<1>8. PrefillCompose(draft, m, mode) =
        [header |-> header, attachments |-> draft.attachments, body |-> body]
  <2>1. draft = [header |-> draft.header, attachments |-> draft.attachments, body |-> draft.body]
    BY DEF DraftInv
  <2>2. PrefillCompose(draft, m, mode) = [draft EXCEPT !.header = header, !.body = body]
    BY <1>2, <1>3, <1>4, <1>5, <1>6 DEF PrefillCompose
  <2> QED
    BY <2>1, <2>2
<1> QED
  BY <1>5, <1>7, <1>8 DEF DraftInv

LEMMA EditedBodyInert ==
    ASSUME BodyInert(Body), NEW old, NEW new \in Texts
    PROVE  BodyInert(EditedBody(old, new))
<1>1. CASE SubPath = <<>>
  BY <1>1, UpdateBodyLeafInert, DetectInert, RenormalizeInert DEF EditedBody
<1>2. CASE SubPath # <<>> /\ Body.kind = "text"
  BY <1>2 DEF EditedBody
<1>3. CASE SubPath # <<>> /\ Body.kind # "text"
  <2>1. RowsInert(UpdatedAt(Body.rows, SubPath, old, new))
    BY BodyParts, UpdatedAtInert
  <2> QED
    BY <1>3, <2>1, FfonBody DEF EditedBody
<1> QED
  BY <1>1, <1>2, <1>3

(* ------------------------------------------------- no step undoes a draft *)

LEMMA EmptyDraftInv == DraftInv(EmptyDraft)
<1>1. <<>> \in Texts /\ <<>> \in Seq(Texts) /\ Len(<<>>) = 0
  BY EmptySeq DEF Texts
<1>2. BodyInert(Text(<<>>))
  BY <1>1, TextBody
<1>3. [f \in Fields |-> <<>>] \in [Fields -> Texts]
  BY <1>1
<1> QED
  BY <1>1, <1>2, <1>3, FormAssumption DEF EmptyDraft, DraftInv

LEMMA NewFormInv == FormInv(NewForm)
BY EmptyDraftInv DEF NewForm, FormInv, FormRoots

(* A draft put into a form leaves the rest of the form. *)
LEMMA SetDraftInv ==
    ASSUME FormInv(form), NEW draft, DraftInv(draft), SetDraft(draft)
    PROVE  FormInv(form') /\ UNCHANGED <<cache, open, viewed, sent>>
           /\ form'.mode = form.mode /\ form'.uid = form.uid
<1>1. form = [mode |-> form.mode, uid |-> form.uid, prefilled |-> form.prefilled,
              draft |-> form.draft]
  BY DEF FormInv
<1>2. form' = [form EXCEPT !.draft = draft] /\ UNCHANGED <<cache, open, viewed, sent>>
  BY DEF SetDraft
<1>3. form' = [mode |-> form.mode, uid |-> form.uid, prefilled |-> form.prefilled,
               draft |-> draft]
  BY <1>1, <1>2
<1> QED
  BY <1>2, <1>3 DEF FormInv

(* ------------------------------------------------------------- the list *)

LEMMA HeaderType ==
    ASSUME NEW uid \in DOMAIN Mails
    PROVE  NewHeader(uid) \in Headers /\ NewHeader(uid).uid = uid
BY DEF NewHeader, Headers

LEMMA CacheIs ==
    ASSUME cache \in Seq(Headers)
    PROVE  /\ Len(cache) \in Nat /\ DOMAIN cache = 1..Len(cache)
           /\ \A i \in DOMAIN cache : cache[i] \in Headers /\ cache[i].uid \in DOMAIN Mails
<1>1. Len(cache) \in Nat /\ DOMAIN cache = 1..Len(cache)
  BY LenProperties
<1>2. \A i \in DOMAIN cache : cache[i] \in Headers
  BY <1>1, ElementOfSeq
<1>3. \A h \in Headers : h.uid \in DOMAIN Mails
  BY DEF Headers
<1> QED
  BY <1>1, <1>2, <1>3

(* The message behind a label has the label, or else the subject and sender in it. *)
LEMMA LookupUidIs ==
    ASSUME cache \in Seq(Headers), NEW label
    PROVE  \/ \E i \in DOMAIN cache : /\ MessageLabel(cache[i]) = label
                                      /\ LookupUid(label) = cache[i].uid
           \/ /\ \A i \in DOMAIN cache : MessageLabel(cache[i]) # label
              /\ \E i \in DOMAIN cache : /\ Base(cache[i]) = StripMessageTags(label)
                                         /\ LookupUid(label) = cache[i].uid
           \/ /\ \A i \in DOMAIN cache : Base(cache[i]) # StripMessageTags(label)
              /\ LookupUid(label) = None
<1>1. PICK n \in Nat : n = Len(cache) /\ DOMAIN cache = 1..n
  BY CacheIs
<1>2. PICK T \in SUBSET (1..n) : T = {i \in 1..n : MessageLabel(cache[i]) = label}
  OBVIOUS
<1>3. PICK U \in SUBSET (1..n) : U = {i \in 1..n : Base(cache[i]) = StripMessageTags(label)}
  OBVIOUS
<1>4. PICK exact : exact = IF T # {} THEN Min(T) ELSE 0
  OBVIOUS
<1>5. PICK bare : bare = IF U # {} THEN Min(U) ELSE 0
  OBVIOUS
<1>6. SelectInSeq(cache, LAMBDA h : MessageLabel(h) = label) = exact
  BY <1>1, <1>2, <1>4 DEF SelectInSeq
<1>7. SelectInSeq(cache, LAMBDA h : Base(h) = StripMessageTags(label)) = bare
  BY <1>1, <1>3, <1>5 DEF SelectInSeq
<1>8. LookupUid(label) = IF exact # 0 THEN cache[exact].uid
                         ELSE IF bare # 0 THEN cache[bare].uid ELSE None
  BY <1>6, <1>7 DEF LookupUid
<1>9. T # {} => exact \in T
  <2> SUFFICES ASSUME T # {}
               PROVE  Min(T) \in T
    BY <1>4
  <2>1. T \in SUBSET Nat
    BY <1>2
  <2> QED
    BY <2>1, MinOf
<1>10. U # {} => bare \in U
  <2> SUFFICES ASSUME U # {}
               PROVE  Min(U) \in U
    BY <1>5
  <2>1. U \in SUBSET Nat
    BY <1>3
  <2> QED
    BY <2>1, MinOf
<1>11. CASE T # {}
  <2>1. PICK i \in 1..n : i = exact /\ MessageLabel(cache[i]) = label
    BY <1>2, <1>9, <1>11
  <2>2. LookupUid(label) = cache[i].uid
    BY <1>8, <2>1
  <2> QED
    BY <1>1, <2>1, <2>2
<1>12. CASE T = {} /\ U # {}
  <2>1. PICK i \in 1..n : i = bare /\ Base(cache[i]) = StripMessageTags(label)
    BY <1>3, <1>10, <1>12
  <2>2. LookupUid(label) = cache[i].uid
    BY <1>4, <1>8, <1>12, <2>1
  <2> QED
    BY <1>1, <1>2, <1>12, <2>1, <2>2
<1>13. CASE T = {} /\ U = {}
  <2>1. LookupUid(label) = None
    BY <1>4, <1>5, <1>8, <1>13
  <2> QED
    BY <1>1, <1>3, <1>13, <2>1
<1> QED
  BY <1>11, <1>12, <1>13

LEMMA LookupUidType ==
    ASSUME cache \in Seq(Headers), NEW label
    PROVE  LookupUid(label) \in DOMAIN Mails \cup {None}
<1>1. \A i \in DOMAIN cache : cache[i].uid \in DOMAIN Mails
  BY CacheIs
<1>2. LookupUid(label) = None \/ \E i \in DOMAIN cache : LookupUid(label) = cache[i].uid
  BY LookupUidIs
<1> QED
  BY <1>1, <1>2

(* A form that is begun is one, empty, whatever segment begins it. *)
LEMMA BegunInv ==
    ASSUME cache \in Seq(Headers), NEW mode \in FormRoots
    PROVE  FormInv(Begun(mode)) /\ Begun(mode).mode = mode
<1>1. CASE mode = <<"compose">>
  <2>1. Begun(mode) = NewForm
    BY <1>1 DEF Begun
  <2>2. NewForm.mode = mode
    BY <1>1 DEF NewForm
  <2> QED
    BY <2>1, <2>2, NewFormInv
<1>2. CASE mode # <<"compose">>
  <2>1. PICK uid : uid = LookupUid(path[2]) /\ uid \in DOMAIN Mails \cup {None}
    BY LookupUidType
  <2>2. Begun(mode) = [NewForm EXCEPT !.mode = mode, !.uid = uid]
    BY <1>2, <2>1 DEF Begun
  <2>3. Begun(mode) = [mode |-> mode, uid |-> uid, prefilled |-> FALSE, draft |-> EmptyDraft]
    BY <2>2 DEF NewForm
  <2>4. mode \in Answers
    BY <1>2 DEF Answers
  <2>5. FormInv(Begun(mode))
    BY <2>1, <2>3, <2>4, EmptyDraftInv DEF FormInv, Answers
  <2> QED
    BY <2>3, <2>5
<1> QED
  BY <1>1, <1>2

LEMMA InitDrafts ==
    ASSUME Init
    PROVE  DraftsInv
<1>1. world \in Worlds /\ form = NewForm
      /\ cache = [i \in DOMAIN world.listed |-> NewHeader(world.listed[i])]
  BY DEF Init
<1>2. PICK n \in Nat : n = Len(world.listed) /\ world.listed \in [1..n -> DOMAIN Mails]
  BY <1>1, WorldsAssumption, LenProperties
<1>3. cache \in [1..n -> Headers]
  BY <1>1, <1>2, HeaderType
<1>4. cache \in Seq(Headers)
  BY <1>3, IsASeq
<1> QED
  BY <1>1, <1>4, NewFormInv DEF DraftsInv

(* The list after a step. *)
LEMMA ShowMessageCache ==
    ASSUME cache \in Seq(Headers), ShowMessage
    PROVE  /\ cache' \in Seq(Headers) /\ DOMAIN cache' = DOMAIN cache
           /\ \A i \in DOMAIN cache : cache'[i].uid = cache[i].uid
<1>1. PICK n \in Nat : n = Len(cache) /\ DOMAIN cache = 1..n
                       /\ \A i \in 1..n : cache[i] \in Headers
  BY CacheIs
<1>2. PICK uid : uid = LookupUid(path[2])
  OBVIOUS
<1>3. cache' = [i \in 1..n |-> [cache[i] EXCEPT !.seen = @ \/ cache[i].uid = uid]]
  BY <1>1, <1>2 DEF ShowMessage
<1>4. ASSUME NEW i \in 1..n
      PROVE  cache'[i] \in Headers /\ cache'[i].uid = cache[i].uid
  <2>1. PICK h \in Headers : h = cache[i]
    BY <1>1
  <2>2. PICK seen \in BOOLEAN : seen = (h.seen \/ h.uid = uid)
    BY DEF Headers
  <2>3. cache'[i] = [h EXCEPT !.seen = seen]
    BY <1>3, <2>1, <2>2
  <2> QED
    BY <2>1, <2>3 DEF Headers
<1>5. cache' \in [1..n -> Headers]
  BY <1>3, <1>4
<1>6. cache' \in Seq(Headers)
  BY <1>5, IsASeq
<1> QED
  BY <1>1, <1>3, <1>4, <1>6

LEMMA RelabelCache ==
    ASSUME cache \in Seq(Headers), world \in Worlds, NEW k \in DOMAIN cache, Relabel(k)
    PROVE  /\ cache' \in Seq(Headers) /\ DOMAIN cache' = DOMAIN cache
           /\ \A i \in DOMAIN cache : cache'[i].uid = cache[i].uid
<1>1. PICK n \in Nat : n = Len(cache) /\ DOMAIN cache = 1..n
                       /\ \A i \in 1..n : cache[i] \in Headers
  BY CacheIs
<1>2. PICK seen \in BOOLEAN, flagged \in world.stars :
         cache' = [cache EXCEPT ![k] = [uid |-> @.uid, seen |-> seen, flagged |-> flagged]]
  BY DEF Relabel
<1>3. flagged \in BOOLEAN
  BY WorldsAssumption
<1>4. PICK g : g = [uid |-> cache[k].uid, seen |-> seen, flagged |-> flagged]
  OBVIOUS
<1>5. g \in Headers /\ g.uid = cache[k].uid
  BY <1>3, <1>4, CacheIs DEF Headers
<1>6. cache \in [1..n -> Headers]
  BY <1>1, LenProperties
<1>7. cache' = [cache EXCEPT ![k] = g]
  BY <1>2, <1>4
<1>8. cache' \in [1..n -> Headers]
  BY <1>5, <1>6, <1>7
<1>9. cache' \in Seq(Headers)
  BY <1>8, IsASeq
<1>10. \A i \in 1..n : cache'[i].uid = cache[i].uid
  BY <1>1, <1>5, <1>6, <1>7
<1> QED
  BY <1>1, <1>8, <1>9, <1>10

LEMMA NewMailCache ==
    ASSUME cache \in Seq(Headers), world \in Worlds, NEW uid \in world.coming, NewMail(uid)
    PROVE  /\ cache' \in Seq(Headers)
           /\ \A i \in DOMAIN cache : \E j \in DOMAIN cache' : cache'[j].uid = cache[i].uid
<1>1. uid \in DOMAIN Mails
  BY WorldsAssumption
<1>2. PICK h \in Headers : h = NewHeader(uid)
  BY <1>1, HeaderType
<1>3. <<h>> \in Seq(Headers) /\ Len(<<h>>) = 1
  OBVIOUS
<1>4. cache' = <<h>> \o cache
  BY <1>2 DEF NewMail
<1>5. cache' \in Seq(Headers)
  BY <1>3, <1>4, ConcatProperties
<1>6. PICK n \in Nat : n = Len(cache) /\ DOMAIN cache = 1..n
  BY CacheIs
<1>7. Len(cache') = 1 + n
  BY <1>3, <1>4, <1>6, ConcatProperties
<1>8. ASSUME NEW i \in 1..n
      PROVE  i + 1 \in DOMAIN cache' /\ cache'[i + 1] = cache[i]
  <2>1. i + 1 \in 1..(1 + n) /\ ~(i + 1 <= 1) /\ (i + 1) - 1 = i
    OBVIOUS
  <2>2. cache'[i + 1] = cache[(i + 1) - 1]
    BY <1>3, <1>4, <1>6, <2>1, ConcatProperties
  <2>3. DOMAIN cache' = 1..(1 + n)
    BY <1>5, <1>7, LenProperties
  <2> QED
    BY <2>1, <2>2, <2>3
<1>9. ASSUME NEW i \in DOMAIN cache
      PROVE  \E j \in DOMAIN cache' : cache'[j].uid = cache[i].uid
  BY <1>6, <1>8
<1> QED
  BY <1>5, <1>9

(* The draft after a step that edits it. *)
LEMMA DraftParts ==
    ASSUME FormInv(form)
    PROVE  /\ Draft = [header |-> Draft.header, attachments |-> Draft.attachments, body |-> Body]
           /\ Draft.header \in [Fields -> Texts]
           /\ Draft.attachments \in Seq(Texts) /\ Len(Draft.attachments) <= MaxFiles
           /\ BodyInert(Body)
BY DEF FormInv, DraftInv, Draft, Body

LEMMA BodySet ==
    ASSUME FormInv(form), NEW body, BodyInert(body)
    PROVE  DraftInv([Draft EXCEPT !.body = body])
<1>1. [Draft EXCEPT !.body = body] =
        [header |-> Draft.header, attachments |-> Draft.attachments, body |-> body]
  BY DraftParts
<1> QED
  BY <1>1, DraftParts DEF DraftInv

LEMMA LineHere ==
    ASSUME FormInv(form), NEW i \in DOMAIN RowsHere
    PROVE  i \in Numbers /\ GoodRow(RowsHere[i]) /\ RowsHere[i].text \in Texts
<1>1. PICK es : es = BodyToComposeChildren(Body) /\ RowsInert(es)
  BY DraftParts, ChildrenInert
<1>2. i \in Numbers /\ GoodRow(RowsHere[i])
  BY <1>1, ElemsAtRow DEF RowsHere
<1> QED
  BY <1>2 DEF GoodRow, Inert

LEMMA EditFieldDraft ==
    ASSUME FormInv(form), world \in Worlds, EditField
    PROVE  \E draft : DraftInv(draft) /\ SetDraft(draft) /\ UNCHANGED path
<1>0. PICK f \in DOMAIN world.words :
         \E new \in world.words[f] \cup {Escape(Draft.header[f])} :
            CommitField(f, Escape(Draft.header[f]), new)
  BY DEF EditField
<1>1. PICK new \in world.words[f] \cup {Escape(Draft.header[f])} :
         CommitField(f, Escape(Draft.header[f]), new)
  BY <1>0
<1>2. f \in Fields /\ world.words[f] \subseteq Texts
  BY WorldsAssumption
<1>3. PICK field \in Texts : field = Draft.header[f]
  BY <1>2, DraftParts
<1>4. new \in Texts
  BY <1>1, <1>2, <1>3, EscapeType
<1>5. PICK t \in Texts : t = TypedValue(Escape(Draft.header[f]), new)
  BY <1>4, TypedValueType
<1>6. SetDraft([Draft EXCEPT !.header[f] = t]) /\ UNCHANGED path
  BY <1>1, <1>5 DEF CommitField
<1>7. PICK header \in [Fields -> Texts] : header = [Draft.header EXCEPT ![f] = t]
  BY <1>2, DraftParts
<1>8. [Draft EXCEPT !.header[f] = t] =
        [header |-> header, attachments |-> Draft.attachments, body |-> Body]
  BY <1>7, DraftParts
<1>9. DraftInv([Draft EXCEPT !.header[f] = t])
  BY <1>8, DraftParts DEF DraftInv
<1> QED
  BY <1>6, <1>9

LEMMA AttachDraft ==
    ASSUME FormInv(form), world \in Worlds, Attach
    PROVE  \E draft : DraftInv(draft) /\ SetDraft(draft) /\ UNCHANGED path
<1>1. PICK new \in world.paths : CommitAttachment(new)
  BY DEF Attach
<1>2. new \in Texts
  BY WorldsAssumption
<1>3. /\ Len(Draft.attachments) < MaxFiles
      /\ SetDraft([Draft EXCEPT !.attachments = Append(@, new)]) /\ UNCHANGED path
  BY <1>1 DEF CommitAttachment
<1>4. PICK files : files = Append(Draft.attachments, new)
  OBVIOUS
<1>5. files \in Seq(Texts) /\ Len(files) = Len(Draft.attachments) + 1
  BY <1>2, <1>4, DraftParts, AppendProperties
<1>6. Len(files) <= MaxFiles
  BY <1>3, <1>5, DraftParts, LenProperties, FormAssumption
<1>7. [Draft EXCEPT !.attachments = Append(@, new)] =
        [header |-> Draft.header, attachments |-> files, body |-> Body]
  <2>1. PICK d : d = Draft
    OBVIOUS
  <2>2. d = [header |-> d.header, attachments |-> d.attachments, body |-> d.body]
    BY <2>1, DraftParts DEF Body, Draft
  <2>3. [d EXCEPT !.attachments = files] =
          [header |-> d.header, attachments |-> files, body |-> d.body]
    BY <2>2
  <2>4. [d EXCEPT !.attachments = Append(@, new)] = [d EXCEPT !.attachments = files]
    BY <1>4, <2>1
  <2> QED
    BY <2>1, <2>3, <2>4 DEF Body, Draft
<1>8. DraftInv([Draft EXCEPT !.attachments = Append(@, new)])
  BY <1>5, <1>6, <1>7, DraftParts DEF DraftInv
<1> QED
  BY <1>3, <1>8

(* An edit of the body ends the path with the label of the body, or leaves it. *)
BodyEdit(body) ==
    /\ BodyInert(body) /\ SetDraft([Draft EXCEPT !.body = body])
    /\ \/ UNCHANGED path
       \/ /\ InForm /\ BodyPos # 0 /\ SubPath = <<>>
          /\ SyncBodyPathLabel(body)

LEMMA EditLineBody ==
    ASSUME FormInv(form), world \in Worlds, EditLine
    PROVE  \E body : BodyEdit(body)
<1>0. PICK old \in {RowsHere[i].text : i \in EditableHere} \cup {<<>>} :
         \E typed \in world.typed \cup {old} : CommitLine(old, TypedValue(old, typed))
  BY DEF EditLine
<1>1. PICK typed \in world.typed \cup {old} :
         InForm /\ BodyPos # 0 /\ CommitLine(old, TypedValue(old, typed))
  BY <1>0 DEF EditLine
<1>2. old \in Texts
  BY <1>1, LineHere, EmptySeq DEF EditableHere, Texts
<1>3. typed \in Texts
  BY <1>1, <1>2, WorldsAssumption
<1>4. PICK new \in Texts : new = TypedValue(old, typed)
  BY <1>3, TypedValueType
<1>5. PICK body : body = EditedBody(old, new) /\ BodyInert(body)
  BY <1>4, DraftParts, EditedBodyInert
<1>6. /\ SetDraft([Draft EXCEPT !.body = body])
      /\ IF SubPath = <<>> THEN SyncBodyPathLabel(body) ELSE UNCHANGED path
  BY <1>1, <1>4, <1>5 DEF CommitLine
<1> QED
  BY <1>1, <1>5, <1>6 DEF BodyEdit

(* A path at the body ends with the body's segment. *)
LEMMA BodyPosIs ==
    ASSUME path \in Seq(Texts \ {<<>>})
    PROVE  /\ Len(path) \in Nat /\ DOMAIN path = 1..Len(path)
           /\ BodyPos # 0 => /\ BodyPos \in DOMAIN path /\ IsBodySegment(path[BodyPos])
                             /\ \A i \in DOMAIN path : IsBodySegment(path[i]) => BodyPos <= i
           /\ BodyPos = 0 => \A i \in DOMAIN path : ~IsBodySegment(path[i])
<1>1. PICK n \in Nat : n = Len(path) /\ DOMAIN path = 1..n
  BY LenProperties
<1>2. PICK T \in SUBSET (1..n) : T = {i \in 1..n : IsBodySegment(path[i])}
  OBVIOUS
<1>3. BodyPos = IF T # {} THEN Min(T) ELSE 0
  BY <1>1, <1>2 DEF BodyPos, SelectInSeq
<1>4. CASE T # {}
  <2>1. T \in SUBSET Nat
    BY <1>2
  <2>2. Min(T) \in T /\ \A k \in T : Min(T) <= k
    BY <1>4, <2>1, MinOf
  <2> QED
    BY <1>1, <1>2, <1>3, <1>4, <2>2
<1>5. CASE T = {}
  BY <1>1, <1>2, <1>3, <1>5
<1> QED
  BY <1>4, <1>5

LEMMA AtBodyPos ==
    ASSUME path \in Seq(Texts \ {<<>>}), AtBody
    PROVE  InForm /\ BodyPos # 0
<1>1. InForm /\ path # <<>> /\ IsBodySegment(Last(path))
  BY DEF AtBody
<1>2. Len(path) \in DOMAIN path
  BY <1>1, EmptySeq, LenProperties
<1> QED
  BY <1>1, <1>2, BodyPosIs DEF Last

LEMMA AddLineBody ==
    ASSUME FormInv(form), path \in Seq(Texts \ {<<>>}), AddLine
    PROVE  \E body : BodyEdit(body)
<1>1. PICK body : body = RenormalizeBodyVariant(BodyAddElement(Body))
  OBVIOUS
<1>2. BodyInert(body)
  BY <1>1, DraftParts, BodyAddInert, RenormalizeInert
<1>3. /\ SetDraft([Draft EXCEPT !.body = body])
      /\ SyncBodyPathLabel(body) /\ SubPath = <<>> /\ AtBody
  BY <1>1 DEF AddLine
<1> QED
  BY <1>2, <1>3, AtBodyPos DEF BodyEdit

LEMMA DeleteLineBody ==
    ASSUME FormInv(form), path \in Seq(Texts \ {<<>>}), DeleteLine
    PROVE  \E body : BodyEdit(body)
<1>1. PICK i \in DOMAIN RowsHere : \E body :
        /\ body = RenormalizeBodyVariant(BodyFromFfonChildren(Removed(BodyToComposeChildren(Body), i)))
        /\ SetDraft([Draft EXCEPT !.body = body]) /\ SyncBodyPathLabel(body)
  BY DEF DeleteLine
<1>7. PICK body :
        /\ body = RenormalizeBodyVariant(BodyFromFfonChildren(Removed(BodyToComposeChildren(Body), i)))
        /\ SetDraft([Draft EXCEPT !.body = body]) /\ SyncBodyPathLabel(body)
  BY <1>1
<1>2. i \in Numbers
  BY LineHere
<1>3. PICK es : es = BodyToComposeChildren(Body) /\ RowsInert(es)
  BY DraftParts, ChildrenInert
<1>4. RowsInert(Removed(es, i))
  BY <1>2, <1>3, RemovedInert
<1>5. BodyInert(body)
  BY <1>7, <1>3, <1>4, FromChildrenInert, RenormalizeInert
<1>6. AtBody /\ SubPath = <<>>
  BY DEF DeleteLine
<1> QED
  BY <1>7, <1>5, <1>6, AtBodyPos DEF BodyEdit

LEMMA DraftsStep ==
    ASSUME DraftsInv, path \in Seq(Texts \ {<<>>}), [Next]_vars
    PROVE  DraftsInv'
<1>1. FormInv(form) /\ world \in Worlds /\ cache \in Seq(Headers)
  BY DEF DraftsInv
<1>2. CASE UNCHANGED vars
  BY <1>2 DEF vars, DraftsInv
<1>3. CASE Next
  <2>1. world' \in Worlds
    BY <1>1, <1>3 DEF Next
  <2>2. CASE \/ OpenFolder \/ OpenField \/ PopPath
             \/ \E i \in DOMAIN cache : OpenMessage(cache[i])
    <3>1. UNCHANGED <<cache, form>>
      BY <2>2 DEF OpenFolder, OpenField, PopPath, OpenMessage
    <3> QED
      BY <1>1, <2>1, <3>1 DEF DraftsInv
  <2>3. CASE ShowMessage
    <3>1. UNCHANGED form
      BY <2>3 DEF ShowMessage
    <3> QED
      BY <1>1, <2>1, <2>3, <3>1, ShowMessageCache DEF DraftsInv
  <2>4. ASSUME NEW i \in DOMAIN cache, Relabel(i)
        PROVE  DraftsInv'
    <3>1. UNCHANGED form
      BY <2>4 DEF Relabel
    <3> QED
      BY <1>1, <2>1, <2>4, <3>1, RelabelCache DEF DraftsInv
  <2>5. ASSUME NEW uid \in world.coming, NewMail(uid)
        PROVE  DraftsInv'
    <3>1. UNCHANGED form
      BY <2>5 DEF NewMail
    <3> QED
      BY <1>1, <2>1, <2>5, <3>1, NewMailCache DEF DraftsInv
  <2>6. CASE PushCompose \/ PressSend
    <3>1. form' = NewForm /\ UNCHANGED cache
      BY <2>6 DEF PushCompose, PressSend, Begun
    <3> QED
      BY <1>1, <2>1, <3>1, NewFormInv DEF DraftsInv
  <2>7. ASSUME NEW mode \in Answers, PushAnswer(mode)
        PROVE  DraftsInv'
    <3>1. form' = Begun(mode) /\ UNCHANGED cache
      BY <2>7 DEF PushAnswer
    <3>2. FormInv(Begun(mode))
      BY <1>1, <2>7, BegunInv DEF Answers
    <3> QED
      BY <1>1, <2>1, <3>1, <3>2 DEF DraftsInv
  <2>8. CASE ShowForm
    <3>1. UNCHANGED cache /\ form.uid # None
          /\ \/ form' = [form EXCEPT !.prefilled = TRUE,
                            !.draft = PrefillCompose(@, Message(form.uid), form.mode)]
             \/ form' = [form EXCEPT !.prefilled = TRUE]
      BY <2>8 DEF ShowForm
    <3>2. form = [mode |-> form.mode, uid |-> form.uid, prefilled |-> form.prefilled,
                  draft |-> form.draft]
      BY <1>1 DEF FormInv
    <3>3. IsMessage(Message(form.uid)) /\ form.mode \in Answers /\ DraftInv(form.draft)
      BY <1>1, <3>1, MailsAssumption DEF FormInv
    <3>4. PICK draft : draft = PrefillCompose(form.draft, Message(form.uid), form.mode)
                       /\ DraftInv(draft)
      BY <3>3, PrefillInv
    <3>5. \/ form' = [mode |-> form.mode, uid |-> form.uid, prefilled |-> TRUE, draft |-> draft]
          \/ form' = [mode |-> form.mode, uid |-> form.uid, prefilled |-> TRUE,
                      draft |-> form.draft]
      <4>1. CASE form' = [form EXCEPT !.prefilled = TRUE]
        BY <3>2, <4>1
      <4>2. CASE form' = [form EXCEPT !.prefilled = TRUE,
                            !.draft = PrefillCompose(@, Message(form.uid), form.mode)]
        <5>1. form' = [form EXCEPT !.prefilled = TRUE, !.draft = draft]
          BY <3>4, <4>2
        <5> QED
          BY <3>2, <5>1
      <4> QED
        BY <3>1, <4>1, <4>2
    <3>6. FormInv(form')
      BY <1>1, <3>3, <3>4, <3>5 DEF FormInv
    <3> QED
      BY <1>1, <2>1, <3>1, <3>6 DEF DraftsInv
  <2>9. CASE EditField \/ Attach
    <3>1. PICK draft : DraftInv(draft) /\ SetDraft(draft)
      BY <1>1, <2>9, EditFieldDraft, AttachDraft
    <3> QED
      BY <1>1, <2>1, <3>1, SetDraftInv DEF DraftsInv
  <2>10. CASE EditLine \/ AddLine \/ DeleteLine
    <3>1. PICK body : BodyEdit(body)
      BY <1>1, <2>10, EditLineBody, AddLineBody, DeleteLineBody
    <3>2. PICK draft : draft = [Draft EXCEPT !.body = body] /\ DraftInv(draft) /\ SetDraft(draft)
      BY <1>1, <3>1, BodySet DEF BodyEdit
    <3> QED
      BY <1>1, <2>1, <3>2, SetDraftInv DEF DraftsInv
  <2>11. CASE OpenObject
    <3>1. PICK key : /\ Begins(key) => form' = Begun(key)
                     /\ ~Begins(key) => UNCHANGED form
                     /\ UNCHANGED cache
      BY <2>11 DEF OpenObject
    <3>2. FormInv(form')
      <4>1. CASE Begins(key)
        <5>1. key \in FormRoots
          BY <4>1 DEF Begins, Answers, FormRoots
        <5>2. FormInv(Begun(key))
          BY <1>1, <5>1, BegunInv
        <5> QED
          BY <3>1, <4>1, <5>2
      <4>2. CASE ~Begins(key)
        BY <1>1, <3>1, <4>2
      <4> QED
        BY <4>1, <4>2
    <3> QED
      BY <1>1, <2>1, <3>1, <3>2 DEF DraftsInv
  <2> QED
    BY <1>3, <2>2, <2>3, <2>4, <2>5, <2>6, <2>7, <2>8, <2>9, <2>10, <2>11 DEF Next, Step
<1> QED
  BY <1>2, <1>3

(* -------------------------------------------------------------- segments *)

Segments == Texts \ {<<>>}

(* Where a piece that starts at a position ends. *)
PieceEnds(t, i) == {j \in i..Len(t) : j = Len(t) \/ t[j + 1] = "/"}

LEMMA PieceEnd ==
    ASSUME NEW t \in Texts, NEW i \in 1..Len(t)
    PROVE  /\ Min(PieceEnds(t, i)) \in i..Len(t)
           /\ SubSeq(t, i, Min(PieceEnds(t, i))) \in Segments
<1>1. PICK n \in Nat : n = Len(t) /\ i \in 1..n
  BY LenProperties DEF Texts
<1>2. PieceEnds(t, i) \in SUBSET Nat /\ PieceEnds(t, i) # {} /\ PieceEnds(t, i) \subseteq i..n
  <2>1. n \in PieceEnds(t, i)
    BY <1>1 DEF PieceEnds
  <2> QED
    BY <1>1, <2>1 DEF PieceEnds
<1>3. Min(PieceEnds(t, i)) \in PieceEnds(t, i)
  BY <1>2, MinOf
<1>4. PICK j \in i..n : j = Min(PieceEnds(t, i))
  BY <1>2, <1>3
<1>5. \A k \in i..j : t[k] \in Symbols
  <2> SUFFICES ASSUME NEW k \in i..j
               PROVE  t[k] \in Symbols
    OBVIOUS
  <2>1. k \in 1..Len(t)
    BY <1>1, <1>4
  <2> QED
    BY <2>1, ElementOfSeq DEF Texts
<1>6. i \in Int /\ j \in Int /\ i <= j
  BY <1>1, <1>4
<1>7. SubSeq(t, i, j) \in Texts
  BY <1>5, <1>6, SubSeqProperties DEF Texts
<1>8. Len(SubSeq(t, i, j)) = j - i + 1
  BY <1>5, <1>6, SubSeqProperties
<1>9. SubSeq(t, i, j) # <<>>
  BY <1>6, <1>8, EmptySeq
<1> QED
  BY <1>1, <1>4, <1>7, <1>9 DEF Segments

LEMMA PiecesType ==
    ASSUME NEW t \in Texts
    PROVE  Pieces(t) \in Seq(Segments)
<1>1. PICK n \in Nat : n = Len(t) /\ DOMAIN t = 1..n
  BY LenProperties DEF Texts
<1>2. PICK ss : ss = [i \in 1..n |-> IF t[i] # "/" /\ (i = 1 \/ t[i - 1] = "/")
                                     THEN <<SubSeq(t, i, Min(PieceEnds(t, i)))>> ELSE <<>>]
  OBVIOUS
<1>3. Pieces(t) = FlattenSeq(ss)
  BY <1>1, <1>2 DEF Pieces, PieceEnds
<1>4. ASSUME NEW i \in 1..n
      PROVE  ss[i] \in Seq(Segments)
  <2>1. PICK s \in Segments : s = SubSeq(t, i, Min(PieceEnds(t, i)))
    BY <1>1, PieceEnd
  <2>2. <<s>> \in Seq(Segments) /\ <<>> \in Seq(Segments)
    BY EmptySeq
  <2> QED
    BY <1>2, <2>1, <2>2
<1>5. ss \in [1..n -> Seq(Segments)]
  BY <1>2, <1>4
<1>6. ss \in Seq(Seq(Segments))
  BY <1>5, IsASeq
<1> QED
  BY <1>3, <1>6, FlattenType

(* A sequence with nothing after it. *)
LEMMA FlattenFirst ==
    ASSUME NEW S, NEW s \in Seq(S)
    PROVE  \A n \in Nat : FlattenSeq([i \in 1..(n + 1) |-> IF i = 1 THEN s ELSE <<>>]) = s
<1> DEFINE row(n) == [i \in 1..(n + 1) |-> IF i = 1 THEN s ELSE <<>>]
           G == {n \in Nat : FlattenSeq(row(n)) = s}
<1>1. 0 \in G
  <2>1. PICK t : t = row(0)
    OBVIOUS
  <2>2. t = <<s>>
    BY <2>1
  <2> QED
    BY <2>1, <2>2, FlattenOne
<1>2. ASSUME NEW n \in Nat, n \in G
      PROVE  n + 1 \in G
  <2>1. PICK ss : ss = row(n)
    OBVIOUS
  <2>2. PICK tt : tt = row(n + 1)
    OBVIOUS
  <2>3. PICK m \in Nat : m = n + 1
    OBVIOUS
  <2>4. Len(ss) = m /\ Len(tt) = m + 1 /\ tt[m + 1] = <<>> /\ \A i \in 1..m : ss[i] = tt[i]
    <3>1. ss = [i \in 1..m |-> IF i = 1 THEN s ELSE <<>>]
      BY <2>1, <2>3
    <3>2. tt = [i \in 1..(m + 1) |-> IF i = 1 THEN s ELSE <<>>]
      BY <2>2, <2>3
    <3>3. m # 0
      BY <2>3
    <3> QED
      BY <3>1, <3>2, <3>3
  <2>5. FlattenSeq(tt) = FlattenSeq(ss) \o <<>>
    <3>1. Len(ss) = m /\ Len(tt) = m + 1
      BY <2>4
    <3>2. \A i \in 1..m : ss[i] = tt[i]
      BY <2>4
    <3>3. FlattenSeq(tt) = IF m = 0 THEN tt[1] ELSE FlattenSeq(ss) \o tt[m + 1]
      BY <3>1, <3>2, FlattenLonger
    <3>4. m # 0
      BY <2>3
    <3> QED
      BY <2>4, <3>3, <3>4
  <2>6. FlattenSeq(tt) = s
    BY <1>2, <2>1, <2>5, ConcatEmptySeq
  <2> QED
    BY <2>2, <2>6
<1> HIDE DEF G
<1>3. \A n \in Nat : n \in G
  BY <1>1, <1>2, NatInductionOnSet
<1> QED
  BY <1>3 DEF G

(* A text without a slash is one segment. *)
LEMMA PiecesOne ==
    ASSUME NEW t \in Segments, \A i \in DOMAIN t : t[i] # "/"
    PROVE  Pieces(t) = <<t>>
<1>1. PICK n \in Nat \ {0} : n = Len(t) /\ DOMAIN t = 1..n
  BY LenProperties, EmptySeq DEF Segments, Texts
<1>2. PieceEnds(t, 1) = {n}
  BY <1>1 DEF PieceEnds
<1>3. Min({n}) = n
  <2>1. {n} \in SUBSET Nat /\ {n} # {}
    OBVIOUS
  <2>2. Min({n}) \in {n}
    BY <2>1, MinOf
  <2> QED
    BY <2>2
<1>4. SubSeq(t, 1, n) = t
  BY <1>1, SubSeqFull DEF Segments, Texts
<1>5. PICK ss : ss = [i \in 1..n |-> IF t[i] # "/" /\ (i = 1 \/ t[i - 1] = "/")
                                     THEN <<SubSeq(t, i, Min(PieceEnds(t, i)))>> ELSE <<>>]
  OBVIOUS
<1>6. Pieces(t) = FlattenSeq(ss)
  BY <1>1, <1>5 DEF Pieces, PieceEnds
<1>7. PICK m \in Nat : n = m + 1
  <2>1. n - 1 \in Nat /\ n = (n - 1) + 1
    OBVIOUS
  <2> QED
    BY <2>1
<1>8. ASSUME NEW i \in 1..n
      PROVE  ss[i] = IF i = 1 THEN <<t>> ELSE <<>>
  <2>1. CASE i = 1
    BY <1>1, <1>2, <1>3, <1>4, <1>5, <2>1
  <2>2. CASE i # 1
    <3>1. i - 1 \in DOMAIN t
      BY <1>1, <2>2
    <3> QED
      BY <1>5, <2>2, <3>1
  <2> QED
    BY <2>1, <2>2
<1>9. ss = [i \in 1..(m + 1) |-> IF i = 1 THEN <<t>> ELSE <<>>]
  BY <1>5, <1>7, <1>8
<1>10. <<t>> \in Seq(Segments)
  OBVIOUS
<1> QED
  BY <1>6, <1>9, <1>10, FlattenFirst

LEMMA MessageLabelType ==
    ASSUME NEW h \in Headers
    PROVE  /\ MessageLabel(h) \in Segments
           /\ MessageLabel(h) = TagsOf(h.seen, h.flagged) \o Base(h)
           /\ Base(h) \in Segments
<1>1. Base(h) \in Segments
  BY MailsAssumption DEF Base, Headers, Segments
<1>2. PICK a \in Texts : a = IF h.seen THEN <<"[read]">> ELSE <<"[unread]">>
  <2>1. "[read]" \in Symbols /\ "[unread]" \in Symbols
    BY WordTypes DEF BracketedTags
  <2>2. <<"[read]">> \in Texts /\ <<"[unread]">> \in Texts
    BY <2>1 DEF Texts
  <2> QED
    BY <2>2
<1>3. PICK b \in Texts : b = IF h.flagged THEN <<"[star]">> ELSE <<>>
  <2>1. "[star]" \in Symbols
    BY WordTypes DEF BracketedTags
  <2>2. <<"[star]">> \in Texts /\ <<>> \in Texts
    BY <2>1, EmptySeq DEF Texts
  <2> QED
    BY <2>2
<1>4. PICK base \in Segments : base = Base(h)
  BY <1>1
<1>5. PICK ab \in Texts : ab = a \o b
  BY ConcatProperties DEF Texts
<1>6. PICK t \in Texts : t = ab \o base
  BY ConcatProperties DEF Texts, Segments
<1>7. t # <<>>
  BY <1>6, ConcatEqualIffEmpty DEF Texts, Segments
<1>8. TagsOf(h.seen, h.flagged) = ab
  BY <1>2, <1>3, <1>5 DEF TagsOf
<1>9. MessageLabel(h) = t
  <2>1. MessageLabel(h) = a \o b \o base
    BY <1>2, <1>3, <1>4 DEF MessageLabel
  <2>2. a \o b \o base = ab \o base
    <3>1. (a \o b) \o base = a \o (b \o base)
      BY ConcatAssociative DEF Texts, Segments
    <3> QED
      BY <1>5, <3>1
  <2> QED
    BY <1>6, <2>1, <2>2
<1> QED
  BY <1>1, <1>4, <1>6, <1>7, <1>8, <1>9 DEF Segments

LEMMA SegmentTypes ==
    /\ Folder \in Segments /\ FormRoots \subseteq Segments /\ AttachmentsKey \in Segments
    /\ \A f \in Fields : <<f>> \in Segments
    /\ \A body : BodyFormatLabel(body) \in Segments
<1>1. \A c \in Symbols : <<c>> \in Segments
  BY DEF Segments, Texts
<1>2. \A c \in Symbols, d \in Symbols : <<c, d>> \in Segments
  BY DEF Segments, Texts
<1>3. \A body : BodyFormatLabel(body) \in Segments
  BY <1>2, WordTypes DEF BodyFormatLabel
<1> QED
  BY <1>1, <1>3, WordTypes DEF Folder, FormRoots, AttachmentsKey

(* A path goes on with segments, or loses its last one. *)
LEMMA PathGoesOn ==
    ASSUME path \in Seq(Segments), NEW rest \in Seq(Segments)
    PROVE  path \o rest \in Seq(Segments)
BY ConcatProperties

LEMMA FrontType ==
    ASSUME NEW S, NEW s \in Seq(S), s # <<>>
    PROVE  /\ Front(s) \in Seq(S) /\ Len(Front(s)) = Len(s) - 1
           /\ \A i \in 1..(Len(s) - 1) : Front(s)[i] = s[i]
<1>1. PICK q \in Seq(S), k \in S : s = Append(q, k)
  BY SequenceEmptyOrAppend
<1>2. s = q \o <<k>>
  BY <1>1, AppendIsConcat
<1>3. Front(s) = q /\ Len(s) = Len(q) + 1
  BY <1>2, FrontLast
<1>4. \A i \in 1..Len(q) : s[i] = q[i]
  BY <1>1, AppendProperties
<1>5. Len(q) \in Nat
  BY LenProperties
<1> QED
  BY <1>3, <1>4, <1>5

LEMMA BodyEditPath ==
    ASSUME path \in Seq(Segments), NEW body, BodyEdit(body)
    PROVE  path' \in Seq(Segments)
<1>1. CASE UNCHANGED path
  BY <1>1
<1>2. CASE BodyPos # 0 /\ path' = Append(Front(path), BodyFormatLabel(body))
  <2>1. path # <<>>
    <3>1. BodyPos \in 1..Len(path)
      BY <1>2, BodyPosIs DEF Segments
    <3> QED
      BY <3>1, EmptySeq
  <2>2. Front(path) \in Seq(Segments)
    BY <2>1, FrontType
  <2> QED
    BY <1>2, <2>2, SegmentTypes, AppendProperties
<1> QED
  BY <1>1, <1>2 DEF BodyEdit, SyncBodyPathLabel

LEMMA InitPaths ==
    ASSUME Init
    PROVE  PathsInv
BY EmptySeq DEF Init, PathsInv

LEMMA PathsStep ==
    ASSUME DraftsInv, PathsInv, [Next]_vars
    PROVE  PathsInv'
<1>1. FormInv(form) /\ world \in Worlds /\ cache \in Seq(Headers)
  BY DEF DraftsInv
<1>2. /\ path \in Seq(Segments) /\ open \in DOMAIN Mails \cup {None}
      /\ viewed \in BOOLEAN /\ sent \in BOOLEAN
  BY DEF PathsInv, Segments
<1>3. ASSUME /\ path' \in Seq(Segments) /\ open' \in DOMAIN Mails \cup {None}
             /\ viewed' \in BOOLEAN /\ sent' \in BOOLEAN
      PROVE  PathsInv'
  BY <1>3 DEF PathsInv, Segments
<1>4. CASE UNCHANGED vars
  BY <1>2, <1>3, <1>4 DEF vars
<1>5. CASE Next
  <2>1. CASE OpenFolder
    BY <1>2, <1>3, <2>1, SegmentTypes DEF OpenFolder
  <2>2. ASSUME NEW i \in DOMAIN cache, OpenMessage(cache[i])
        PROVE  PathsInv'
    <3>1. PICK h \in Headers : h = cache[i] /\ h.uid \in DOMAIN Mails
      BY <1>1, CacheIs
    <3>2. Pieces(MessageLabel(h)) \in Seq(Segments)
      BY MessageLabelType, PiecesType DEF Segments
    <3>3. path' = path \o Pieces(MessageLabel(h)) /\ open' = h.uid /\ UNCHANGED <<viewed, sent>>
      BY <2>2, <3>1 DEF OpenMessage
    <3> QED
      BY <1>2, <1>3, <3>1, <3>2, <3>3, PathGoesOn
  <2>3. CASE ShowMessage \/ (\E i \in DOMAIN cache : Relabel(i))
             \/ (\E uid \in world.coming : NewMail(uid)) \/ ShowForm
    BY <1>2, <1>3, <2>3 DEF ShowMessage, Relabel, NewMail, ShowForm
  <2>4. CASE PressSend
    BY <1>2, <1>3, <2>4 DEF PressSend
  <2>5. ASSUME NEW mode \in Answers, PushAnswer(mode)
        PROVE  PathsInv'
    <3>1. mode \in Segments
      BY SegmentTypes DEF Answers
    <3>2. path' = Append(path, mode) /\ sent' = FALSE /\ UNCHANGED <<open, viewed>>
      BY <2>5 DEF PushAnswer
    <3> QED
      BY <1>2, <1>3, <3>1, <3>2, AppendProperties
  <2>6. CASE PushCompose
    <3>1. path' = <<<<"compose">>>> /\ sent' = FALSE /\ open' = None /\ viewed' = FALSE
      BY <2>6 DEF PushCompose
    <3>2. PICK mode \in Segments : mode = <<"compose">>
      BY SegmentTypes DEF FormRoots
    <3>3. path' \in Seq(Segments)
      BY <3>1, <3>2
    <3>4. open' \in DOMAIN Mails \cup {None} /\ viewed' \in BOOLEAN /\ sent' \in BOOLEAN
      BY <3>1
    <3> QED
      BY <1>3, <3>3, <3>4
  <2>7. CASE OpenField
    <3>1. PICK key \in {<<f>> : f \in Fields} \cup {AttachmentsKey, BodyFormatLabel(Body)} :
             path' = Append(path, key)
      BY <2>7 DEF OpenField
    <3>2. key \in Segments
      BY SegmentTypes
    <3>3. UNCHANGED <<open, viewed, sent>>
      BY <2>7 DEF OpenField
    <3> QED
      BY <1>2, <1>3, <3>1, <3>2, <3>3, AppendProperties
  <2>8. CASE OpenObject
    <3>1. PICK i \in DOMAIN RowsHere : path' = path \o Pieces(StripDisplay(RowsHere[i].text))
      BY <2>8 DEF OpenObject
    <3>2. PICK t \in Texts : t = StripDisplay(RowsHere[i].text)
      BY <1>1, LineHere, StripDisplayType
    <3>3. Pieces(t) \in Seq(Segments)
      BY PiecesType
    <3>4. UNCHANGED <<open, viewed>> /\ sent' \in {FALSE, sent}
      BY <2>8 DEF OpenObject
    <3> QED
      BY <1>2, <1>3, <3>1, <3>2, <3>3, <3>4, PathGoesOn
  <2>9. CASE EditField \/ Attach
    <3>1. PICK draft : DraftInv(draft) /\ SetDraft(draft) /\ UNCHANGED path
      BY <1>1, <2>9, EditFieldDraft, AttachDraft
    <3> QED
      BY <1>1, <1>2, <1>3, <3>1, SetDraftInv
  <2>10. CASE EditLine \/ AddLine \/ DeleteLine
    <3>1. PICK body : BodyEdit(body)
      BY <1>1, <1>2, <2>10, EditLineBody, AddLineBody, DeleteLineBody DEF Segments
    <3>2. PICK draft : DraftInv(draft) /\ SetDraft(draft)
      BY <1>1, <3>1, BodySet DEF BodyEdit
    <3>3. path' \in Seq(Segments)
      BY <1>2, <3>1, BodyEditPath
    <3> QED
      BY <1>1, <1>2, <1>3, <3>2, <3>3, SetDraftInv
  <2>11. CASE PopPath
    <3>1. path # <<>> /\ path' = Front(path) /\ viewed' = FALSE /\ sent' \in {FALSE, sent}
          /\ open' \in {None, open}
      BY <2>11 DEF PopPath
    <3> QED
      BY <1>2, <1>3, <3>1, FrontType
  <2> QED
    BY <1>5, <2>1, <2>2, <2>3, <2>4, <2>5, <2>6, <2>7, <2>8, <2>9, <2>10, <2>11 DEF Next, Step
<1> QED
  BY <1>4, <1>5

(* The paths, the list and the drafts are of the shapes declared for them,   *)
(* and no draft grows past its bound (ComposeState, current_path).           *)
THEOREM TypesHold == Spec => [](DraftsInv /\ PathsInv /\ TypeOK)
<1>1. Init => DraftsInv /\ PathsInv
  BY InitDrafts, InitPaths
<1>2. DraftsInv /\ PathsInv /\ [Next]_vars => (DraftsInv /\ PathsInv)'
  BY DraftsStep, PathsStep DEF PathsInv
<1>3. DraftsInv /\ PathsInv => TypeOK
  <2> SUFFICES ASSUME DraftsInv, PathsInv
               PROVE  TypeOK
    OBVIOUS
  <2>1. FormInv(form) /\ cache \in Seq(Headers)
    BY DEF DraftsInv
  <2>2. \A i \in DOMAIN path : path[i] # <<>>
    <3>1. \A i \in DOMAIN path : path[i] \in Segments
      BY LenProperties, ElementOfSeq DEF PathsInv, Segments
    <3> QED
      BY <3>1 DEF Segments
  <2>3. \A i \in DOMAIN cache : cache[i].uid \in DOMAIN Mails
    BY <2>1, CacheIs
  <2>4. form.mode \in FormRoots /\ form.uid \in DOMAIN Mails \cup {None}
    BY <2>1 DEF FormInv
  <2>5. DOMAIN Draft.header = Fields /\ Len(Draft.attachments) <= MaxFiles
        /\ Body.kind \in {"text", "ffon"}
    BY <2>1, DraftParts, BodyParts
  <2> QED
    BY <2>2, <2>3, <2>4, <2>5 DEF TypeOK, PathsInv
<1> QED
  BY <1>1, <1>2, <1>3, PTL DEF Spec

(* ---------------------------------------------------- nothing is made live *)

LEMMA EscapedInert ==
    ASSUME NEW t \in Texts
    PROVE  IsInert(Escape(t))
BY EscapeInert

LEMMA MessageRowsInert ==
    ASSUME NEW m, IsMessage(m), NEW t \in MessageRows(m)
    PROVE  IsInert(t)
<1>1. /\ m.from \in Texts /\ m.to \in Texts /\ m.subject \in Texts /\ IsBody(m.body)
      /\ \A i \in DOMAIN m.attachments : m.attachments[i].name \in Texts
  BY DEF IsMessage
<1>2. CASE t \in {Escape(m.from), Escape(m.to), Escape(m.subject)}
  BY <1>1, <1>2, EscapedInert
<1>3. CASE t \in {Escape(m.attachments[i].name) : i \in DOMAIN m.attachments}
  BY <1>1, <1>3, EscapedInert
<1>4. CASE m.body.kind = "text" /\ t = TextRow(m.body.text)
  <2>1. m.body.text \in Texts
    BY <1>1 DEF IsBody
  <2>2. t \in Inert
    BY <1>4, <2>1, TextRowInert
  <2> QED
    BY <2>2 DEF Inert
<1>5. CASE t \in TextsOf(ReceivedRows(m.body.rows))
  <2>1. IsTreeOfRows(m.body.rows)
    BY <1>1 DEF IsBody
  <2>2. t \in Inert
    BY <1>5, <2>1, ReceivedRowsInert
  <2> QED
    BY <2>2 DEF Inert
<1> QED
  BY <1>2, <1>3, <1>4, <1>5 DEF MessageRows

LEMMA FormRowsInert ==
    ASSUME FormInv(form), NEW t \in FormRows
    PROVE  IsInert(t)
<1>1. CASE t \in {Escape(Draft.header[f]) : f \in Fields}
  BY <1>1, DraftParts, EscapedInert
<1>2. CASE t \in {Escape(Draft.attachments[i]) : i \in DOMAIN Draft.attachments}
  <2>1. \A i \in DOMAIN Draft.attachments : Draft.attachments[i] \in Texts
    BY DraftParts, LenProperties, ElementOfSeq
  <2> QED
    BY <1>2, <2>1, EscapedInert
<1>3. CASE t \in TextsOf(BodyToComposeChildren(Body))
  <2>1. PICK es : es = BodyToComposeChildren(Body) /\ RowsInert(es)
    BY DraftParts, ChildrenInert
  <2>2. t \in Inert
    BY <1>3, <2>1 DEF TextsOf, RowsInert
  <2> QED
    BY <2>2 DEF Inert
<1> QED
  BY <1>1, <1>2, <1>3 DEF FormRows

LEMMA DraftsNothingLive ==
    ASSUME DraftsInv
    PROVE  NothingLive
<1>1. FormInv(form) /\ cache \in Seq(Headers)
  BY DEF DraftsInv
<1> SUFFICES ASSUME NEW t \in ShownTexts
             PROVE  IsInert(t)
  BY DEF NothingLive
<1>2. CASE path = <<Folder>>
  <2>1. PICK i \in DOMAIN cache : t = Escape(MessageLabel(cache[i]))
    <3>1. Len(path) # 2 /\ DOMAIN path = {1} /\ path[1] = Folder
      BY <1>2
    <3>2. Folder \notin FormRoots
      BY DEF Folder, FormRoots
    <3>3. ~InForm
      BY <3>1, <3>2 DEF InForm
    <3>4. ShownTexts = {Escape(MessageLabel(cache[i])) : i \in DOMAIN cache}
      BY <1>2, <3>1, <3>3 DEF ShownTexts
    <3> QED
      BY <3>4
  <2>2. PICK h \in Headers : h = cache[i]
    BY <1>1, CacheIs
  <2>3. PICK label \in Segments : label = MessageLabel(h)
    BY MessageLabelType
  <2> QED
    BY <2>1, <2>2, <2>3, EscapedInert DEF Segments
<1>3. CASE viewed /\ Len(path) = 2 /\ ~InForm /\ LookupUid(path[2]) # None /\ path # <<Folder>>
  <2>1. PICK uid : uid = LookupUid(path[2]) /\ uid \in DOMAIN Mails
    BY <1>1, <1>3, LookupUidType
  <2>2. IsMessage(Message(uid))
    BY <2>1, MailsAssumption
  <2>3. ShownTexts = MessageRows(Message(uid))
    BY <1>3, <2>1 DEF ShownTexts
  <2> QED
    BY <2>2, <2>3, MessageRowsInert
<1>4. CASE InForm /\ FormShown /\ path # <<Folder>>
  <2>1. ShownTexts = FormRows
    BY <1>4 DEF ShownTexts
  <2> QED
    BY <1>1, <2>1, FormRowsInert
<1>5. CASE /\ path # <<Folder>> /\ ~(InForm /\ FormShown)
           /\ ~(viewed /\ Len(path) = 2 /\ ~InForm /\ LookupUid(path[2]) # None)
  BY <1>5 DEF ShownTexts
<1> QED
  BY <1>2, <1>3, <1>4, <1>5

(* No tag anyone wrote is live on a row, but a link around a web address:    *)
(* in the list, in a message being read, in a form and after every edit of   *)
(* it (tags::escape, ffon_to_compose_children, text_row, update_body_leaf).  *)
THEOREM NothingIsLive == Spec => []NothingLive
<1>1. DraftsInv => NothingLive
  BY DraftsNothingLive
<1> QED
  BY <1>1, TypesHold, PTL

(* --------------------------------------------- an answer to what was opened *)

LEMMA SingleSeq ==
    ASSUME NEW S, NEW c \in S
    PROVE  <<c>> \in Seq(S) /\ Len(<<c>>) = 1 /\ <<c>>[1] = c
OBVIOUS

LEMMA ConsEqual ==
    ASSUME NEW S, NEW c \in S, NEW d \in S, NEW u \in Seq(S), NEW v \in Seq(S),
           <<c>> \o u = <<d>> \o v
    PROVE  c = d /\ u = v
<1>1. PICK s \in Seq(S) : s = <<c>> /\ Len(s) = 1 /\ s[1] = c
  BY SingleSeq
<1>2. PICK t \in Seq(S) : t = <<d>> /\ Len(t) = 1 /\ t[1] = d
  BY SingleSeq
<1>3. (s \o u)[1] = c
  <2>1. 1 \in 1..(Len(s) + Len(u)) /\ 1 <= Len(s)
    BY <1>1, LenProperties
  <2> QED
    BY <1>1, <2>1, ConcatProperties
<1>4. (t \o v)[1] = d
  <2>1. 1 \in 1..(Len(t) + Len(v)) /\ 1 <= Len(t)
    BY <1>2, LenProperties
  <2> QED
    BY <1>2, <2>1, ConcatProperties
<1>5. c = d
  BY <1>1, <1>2, <1>3, <1>4
<1>6. s \o u = s \o v
  BY <1>1, <1>2, <1>5
<1>7. u = v
  BY <1>6, ConcatSimplifications
<1> QED
  BY <1>5, <1>7

SeenTag(seen) == IF seen THEN "[read]" ELSE "[unread]"
StarTag(flagged) == IF flagged THEN <<"[star]">> ELSE <<>>

LEMMA TagTypes ==
    ASSUME NEW seen, NEW flagged
    PROVE  /\ SeenTag(seen) \in Symbols /\ SeenTag(seen) \in BracketedTags
           /\ StarTag(flagged) \in Texts /\ "[star]" \in Symbols /\ "[star]" \in BracketedTags
           /\ TagsOf(seen, flagged) = <<SeenTag(seen)>> \o StarTag(flagged)
           /\ TagsOf(seen, flagged) \in Texts
<1>1. SeenTag(seen) \in BracketedTags /\ "[star]" \in BracketedTags
  BY DEF SeenTag, BracketedTags
<1>2. SeenTag(seen) \in Symbols /\ "[star]" \in Symbols
  BY <1>1, WordTypes
<1>3. <<SeenTag(seen)>> \in Texts /\ <<"[star]">> \in Texts /\ <<>> \in Texts
  BY <1>2, EmptySeq DEF Texts
<1>4. StarTag(flagged) \in Texts
  BY <1>3 DEF StarTag
<1>5. TagsOf(seen, flagged) = <<SeenTag(seen)>> \o StarTag(flagged)
  BY DEF TagsOf, SeenTag, StarTag
<1>6. <<SeenTag(seen)>> \o StarTag(flagged) \in Texts
  BY <1>3, <1>4, ConcatProperties DEF Texts
<1> QED
  BY <1>1, <1>2, <1>4, <1>5, <1>6

(* A label that reads the same has the same subject, or it after a star. *)
LEMMA SameLabel ==
    ASSUME NEW a \in Segments, NEW b \in Segments, b[1] \notin BracketedTags,
           NEW seen1, NEW flagged1, NEW seen2, NEW flagged2,
           TagsOf(seen1, flagged1) \o a = TagsOf(seen2, flagged2) \o b
    PROVE  a \in {b, <<"[star]">> \o b}
<1>1. PICK c \in Symbols : c = SeenTag(seen1)
  BY TagTypes
<1>2. PICK d \in Symbols : d = SeenTag(seen2)
  BY TagTypes
<1>3. PICK s \in Texts : s = StarTag(flagged1)
  BY TagTypes
<1>4. PICK t \in Texts : t = StarTag(flagged2)
  BY TagTypes
<1>5. <<c>> \in Texts /\ <<d>> \in Texts /\ a \in Texts /\ b \in Texts
  BY DEF Texts, Segments
<1>6. TagsOf(seen1, flagged1) \o a = <<c>> \o (s \o a)
  <2>1. (<<c>> \o s) \o a = <<c>> \o (s \o a)
    BY <1>5, ConcatAssociative DEF Texts
  <2> QED
    BY <1>1, <1>3, <2>1, TagTypes
<1>7. TagsOf(seen2, flagged2) \o b = <<d>> \o (t \o b)
  <2>1. (<<d>> \o t) \o b = <<d>> \o (t \o b)
    BY <1>5, ConcatAssociative DEF Texts
  <2> QED
    BY <1>2, <1>4, <2>1, TagTypes
<1>8. PICK u \in Texts : u = s \o a
  BY <1>5, ConcatProperties DEF Texts
<1>9. PICK v \in Texts : v = t \o b
  BY <1>5, ConcatProperties DEF Texts
<1>10. <<c>> \o u = <<d>> \o v
  BY <1>6, <1>7, <1>8, <1>9
<1>11. u = v
  <2>1. u \in Seq(Symbols) /\ v \in Seq(Symbols)
    BY DEF Texts
  <2> QED
    BY <1>10, <2>1, ConsEqual
<1>12. <<>> \o a = a /\ <<>> \o b = b
  BY <1>5, ConcatEmptySeq DEF Texts
<1>13. PICK star \in Symbols : star = "[star]" /\ star \in BracketedTags
  BY TagTypes
<1>14. CASE flagged1 /\ flagged2
  <2>1. <<star>> \o a = <<star>> \o b
    BY <1>3, <1>4, <1>8, <1>9, <1>11, <1>13, <1>14 DEF StarTag
  <2>2. a = b
    BY <1>5, <2>1, ConsEqual DEF Texts
  <2> QED
    BY <2>2
<1>15. CASE ~flagged1 /\ ~flagged2
  BY <1>3, <1>4, <1>8, <1>9, <1>11, <1>12, <1>15 DEF StarTag
<1>16. CASE ~flagged1 /\ flagged2
  BY <1>3, <1>4, <1>8, <1>9, <1>11, <1>12, <1>16 DEF StarTag
<1>17. CASE flagged1 /\ ~flagged2
  <2>1. <<star>> \o a = b
    BY <1>3, <1>4, <1>8, <1>9, <1>11, <1>12, <1>13, <1>17 DEF StarTag
  <2>2. PICK e \in Texts : e = <<star>> /\ Len(e) = 1 /\ e[1] = star
    BY SingleSeq DEF Texts
  <2>3. (e \o a)[1] = star
    <3>1. 1 \in 1..(Len(e) + Len(a)) /\ 1 <= Len(e)
      BY <1>5, <2>2, LenProperties DEF Texts
    <3> QED
      BY <1>5, <2>2, <3>1, ConcatProperties DEF Texts
  <2>4. b[1] = star
    BY <2>1, <2>2, <2>3
  <2> QED
    BY <1>13, <2>4
<1> QED
  BY <1>14, <1>15, <1>16, <1>17

(* The tags of a label are tags, and there is one at least. *)
LEMMA TagsAre ==
    ASSUME NEW seen, NEW flagged, NEW tags \in Texts, tags = TagsOf(seen, flagged)
    PROVE  \E k \in Nat : /\ k = Len(tags) /\ k >= 1
                          /\ \A i \in 1..k : tags[i] \in BracketedTags
<1>1. PICK c \in Symbols : c = SeenTag(seen) /\ c \in BracketedTags
  BY TagTypes
<1>2. PICK a \in Texts : a = <<c>> /\ Len(a) = 1 /\ a[1] = c
  BY SingleSeq DEF Texts
<1>3. PICK st \in Texts : st = StarTag(flagged)
  BY TagTypes
<1>4. Len(st) \in Nat /\ \A i \in 1..Len(st) : st[i] \in BracketedTags
  <2>1. CASE flagged
    <3>1. PICK star \in Symbols : star = "[star]" /\ star \in BracketedTags
      BY TagTypes
    <3>2. st = <<star>>
      BY <1>3, <2>1, <3>1 DEF StarTag
    <3>3. Len(st) = 1 /\ st[1] = star
      BY <3>2, SingleSeq
    <3> QED
      BY <3>1, <3>3
  <2>2. CASE ~flagged
    <3>1. st = <<>>
      BY <1>3, <2>2 DEF StarTag
    <3> QED
      BY <3>1, EmptySeq
  <2> QED
    BY <2>1, <2>2
<1>5. tags = a \o st
  BY <1>1, <1>2, <1>3, TagTypes
<1>6. PICK m \in Nat : m = Len(st)
  BY <1>4
<1>7. Len(tags) = 1 + m
  BY <1>2, <1>5, <1>6, ConcatProperties DEF Texts
<1>8. ASSUME NEW i \in 1..(1 + m)
      PROVE  tags[i] \in BracketedTags
  <2>1. tags[i] = IF i <= 1 THEN a[i] ELSE st[i - 1]
    BY <1>2, <1>5, <1>6, ConcatProperties DEF Texts
  <2>2. CASE i = 1
    BY <1>1, <1>2, <2>1, <2>2
  <2>3. CASE i # 1
    <3>1. i - 1 \in 1..m /\ ~(i <= 1)
      BY <2>3
    <3> QED
      BY <1>4, <1>6, <2>1, <3>1
  <2> QED
    BY <2>2, <2>3
<1> QED
  BY <1>7, <1>8

(* What is left of a label without its tags is the subject and sender. *)
LEMMA StripTags ==
    ASSUME NEW b \in Segments, b[1] \notin BracketedTags, NEW seen, NEW flagged
    PROVE  StripMessageTags(TagsOf(seen, flagged) \o b) = b
<1>1. PICK tags \in Texts : tags = TagsOf(seen, flagged)
  BY TagTypes
<1>2. PICK k \in Nat : /\ k = Len(tags) /\ k >= 1
                       /\ \A i \in 1..k : tags[i] \in BracketedTags
  BY <1>1, TagsAre
<1>3. PICK n \in Nat \ {0} : n = Len(b)
  BY LenProperties, EmptySeq DEF Segments, Texts
<1>4. PICK label \in Texts : label = tags \o b
  BY ConcatProperties DEF Segments, Texts
<1>5. Len(label) = k + n
  BY <1>2, <1>3, <1>4, ConcatProperties DEF Segments, Texts
<1>6. \A i \in 1..(k + n) : label[i] = IF i <= k THEN tags[i] ELSE b[i - k]
  BY <1>2, <1>3, <1>4, ConcatProperties DEF Segments, Texts
<1>7. PICK T \in SUBSET (1..(k + n)) : T = {i \in 1..(k + n) : label[i] \notin BracketedTags}
  OBVIOUS
<1>8. k + 1 \in T
  <2>1. k + 1 \in 1..(k + n) /\ ~(k + 1 <= k) /\ (k + 1) - k = 1
    BY <1>3
  <2>2. label[k + 1] = b[1]
    BY <1>6, <2>1
  <2> QED
    BY <1>7, <2>1, <2>2
<1>9. \A i \in T : k + 1 <= i
  <2> SUFFICES ASSUME NEW i \in T, i <= k
               PROVE  FALSE
    OBVIOUS
  <2>1. i \in 1..k /\ i \in 1..(k + n)
    OBVIOUS
  <2>2. label[i] = tags[i]
    BY <1>6, <2>1
  <2> QED
    BY <1>2, <1>7, <2>1, <2>2
<1>10. Min(T) = k + 1
  <2>1. T \in SUBSET Nat /\ T # {}
    BY <1>8
  <2>2. Min(T) \in T /\ \A i \in T : Min(T) <= i
    BY <2>1, MinOf
  <2>3. Min(T) <= k + 1 /\ k + 1 <= Min(T) /\ Min(T) \in 1..(k + n)
    BY <1>8, <1>9, <2>2
  <2> QED
    BY <2>3
<1>12. StripMessageTags(label) = SubSeq(label, k + 1, k + n)
  <2>1. T # {} /\ k + 1 # 0
    BY <1>8
  <2>2. StripMessageTags(label) =
          LET body == IF T # {} THEN Min(T) ELSE 0 IN
          IF body = 0 THEN <<>> ELSE SubSeq(label, body, k + n)
    BY <1>5, <1>7 DEF StripMessageTags, SelectInSeq
  <2> QED
    BY <1>10, <2>1, <2>2
<1>13. SubSeq(label, k + 1, k + n) = SubSeq(b, 1, n)
  <2>1. k + 1 \in (k + 1)..(k + n) /\ k + n \in (k + 1)..(k + n)
        /\ (k + 1) - k = 1 /\ (k + n) - k = n
    BY <1>3
  <2>2. tags \in Seq(Symbols) /\ b \in Seq(Symbols)
    BY DEF Segments, Texts
  <2>3. SubSeq(tags \o b, k + 1, k + n) = SubSeq(b, (k + 1) - k, (k + n) - k)
    BY <1>2, <1>3, <2>1, <2>2, SubSeqOfConcat2
  <2> QED
    BY <1>4, <2>1, <2>3
<1>14. SubSeq(b, 1, n) = b
  BY <1>3, SubSeqFull DEF Segments, Texts
<1> QED
  BY <1>1, <1>4, <1>12, <1>13, <1>14

(* The label a message had when it was opened still leads to it. *)
LEMMA LookupOpen ==
    ASSUME cache \in Seq(Headers), NEW uid \in DOMAIN Mails, IsPlainLabel(uid), Alone(uid),
           \E i \in DOMAIN cache : cache[i].uid = uid, NEW seen, NEW flagged
    PROVE  LookupUid(TagsOf(seen, flagged) \o Mails[uid].base) = uid
<1>1. PICK b \in Segments : b = Mails[uid].base /\ b[1] \notin BracketedTags
  BY MailsAssumption DEF IsPlainLabel, Segments
<1>2. PICK label : label = TagsOf(seen, flagged) \o b
  OBVIOUS
<1>3. PICK i \in DOMAIN cache : cache[i].uid = uid
  OBVIOUS
<1>4. Base(cache[i]) = b
  BY <1>1, <1>3 DEF Base
<1>5. StripMessageTags(label) = b
  BY <1>1, <1>2, StripTags
<1>6. ASSUME NEW j \in DOMAIN cache, MessageLabel(cache[j]) = label
      PROVE  cache[j].uid = uid
  <2>1. PICK h \in Headers : h = cache[j]
    BY CacheIs
  <2>2. PICK a \in Segments : a = Base(h)
    BY MessageLabelType
  <2>3. MessageLabel(h) = TagsOf(h.seen, h.flagged) \o a
    BY <2>2, MessageLabelType
  <2>4. TagsOf(h.seen, h.flagged) \o a = TagsOf(seen, flagged) \o b
    BY <1>2, <1>6, <2>1, <2>3
  <2>5. a \in {b, <<"[star]">> \o b}
    <3>1. b[1] \notin BracketedTags
      BY <1>1
    <3>2. PICK seen1, flagged1 : seen1 = h.seen /\ flagged1 = h.flagged
      OBVIOUS
    <3>3. TagsOf(seen1, flagged1) \o a = TagsOf(seen, flagged) \o b
      BY <2>4, <3>2
    <3>4. \A w, x, y, z : TagsOf(w, x) \o a = TagsOf(y, z) \o b => a \in {b, <<"[star]">> \o b}
      BY <3>1, SameLabel
    <3> QED
      BY <3>3, <3>4
  <2> QED
    BY <1>1, <2>1, <2>2, <2>5 DEF Alone
<1>7. ASSUME NEW j \in DOMAIN cache, Base(cache[j]) = StripMessageTags(label)
      PROVE  cache[j].uid = uid
  BY <1>1, <1>5, <1>7 DEF Alone
<1>8. LookupUid(label) = uid
  BY <1>3, <1>4, <1>5, <1>6, <1>7, LookupUidIs
<1> QED
  BY <1>1, <1>2, <1>8

(* A form's segment is one word, none of those of a label, a body or a folder. *)
LEMMA RootWords ==
    ASSUME NEW s \in FormRoots
    PROVE  s[1] \in {"compose", "reply", "reply all", "forward"}
<1>1. CASE s = <<"compose">>
  BY <1>1
<1>2. CASE s = <<"reply">>
  BY <1>2
<1>3. CASE s = <<"reply all">>
  BY <1>3
<1>4. CASE s = <<"forward">>
  BY <1>4
<1> QED
  BY <1>1, <1>2, <1>3, <1>4 DEF FormRoots

(* Where the user is while a message with a plain label is open. *)
LEMMA OpenPath ==
    ASSUME PathsInv, OpenInv, open # None, IsPlainLabel(open)
    PROVE  /\ Len(path) \in Nat /\ DOMAIN path = 1..Len(path) /\ Len(path) >= 2
           /\ InForm <=> Len(path) >= 3
           /\ BodyPos # 0 => BodyPos \in 4..Len(path)
<1>1. path \in Seq(Segments) /\ Len(path) \in Nat /\ DOMAIN path = 1..Len(path)
  BY LenProperties DEF PathsInv, Segments
<1>2. Len(path) >= 2 /\ path[1] = Folder /\ (Len(path) >= 3 => path[3] \in Answers)
  BY DEF OpenInv
<1>3. PICK seen \in BOOLEAN, flagged \in BOOLEAN :
        path[2] = TagsOf(seen, flagged) \o Mails[open].base
  BY DEF OpenInv
<1>4. path[2][1] \in {"[read]", "[unread]"}
  <2>1. PICK b \in Texts : b = Mails[open].base
    BY MailsAssumption DEF PathsInv
  <2>2. PICK c \in Symbols : c = SeenTag(seen)
    BY TagTypes
  <2>3. PICK a \in Texts : a = <<c>> /\ Len(a) = 1 /\ a[1] = c
    BY SingleSeq DEF Texts
  <2>4. PICK st \in Texts : st = StarTag(flagged)
    BY TagTypes
  <2>5. PICK t \in Texts : t = a \o st /\ Len(t) = 1 + Len(st) /\ t[1] = c
    <3>1. 1 \in 1..(Len(a) + Len(st)) /\ 1 <= Len(a)
      BY <2>3, LenProperties DEF Texts
    <3>2. a \in Seq(Symbols) /\ st \in Seq(Symbols) /\ a \o st \in Texts
      BY <2>3, ConcatProperties DEF Texts
    <3>3. Len(a \o st) = Len(a) + Len(st)
      BY <3>2, ConcatProperties
    <3>4. (a \o st)[1] = a[1]
      BY <3>1, <3>2, ConcatProperties
    <3> QED
      BY <2>3, <3>2, <3>3, <3>4
  <2>6. TagsOf(seen, flagged) = t
    BY <2>2, <2>3, <2>4, <2>5, TagTypes
  <2>7. (t \o b)[1] = t[1]
    <3>1. 1 \in 1..(Len(t) + Len(b)) /\ 1 <= Len(t)
      BY <2>5, LenProperties DEF Texts
    <3> QED
      BY <3>1, ConcatProperties DEF Texts
  <2> QED
    BY <1>3, <2>1, <2>2, <2>5, <2>6, <2>7 DEF SeenTag
<1>5. path[1] \notin FormRoots /\ path[2] \notin FormRoots
  <2>1. Folder \notin FormRoots
    BY RootWords DEF Folder
  <2>2. \A s \in FormRoots : s[1] \notin {"[read]", "[unread]"}
    BY RootWords
  <2> QED
    BY <1>2, <1>4, <2>1, <2>2
<1>6. InForm <=> Len(path) >= 3
  <2>1. ASSUME Len(path) >= 3
        PROVE  InForm
    <3>1. 3 \in DOMAIN path /\ path[3] \in FormRoots
      BY <1>1, <1>2, <2>1 DEF Answers
    <3> QED
      BY <3>1 DEF InForm
  <2>2. ASSUME InForm
        PROVE  Len(path) >= 3
    <3>1. PICK i \in DOMAIN path : path[i] \in FormRoots
      BY <2>2 DEF InForm
    <3>2. i # 1 /\ i # 2
      BY <1>5, <3>1
    <3> QED
      BY <1>1, <3>1, <3>2
  <2> QED
    BY <2>1, <2>2
<1>7. ASSUME BodyPos # 0
      PROVE  BodyPos \in 4..Len(path)
  <2>1. BodyPos \in 1..Len(path) /\ path[BodyPos][1] = "Body:"
    BY <1>1, <1>7, BodyPosIs DEF Segments, IsBodySegment
  <2>2. BodyPos # 1
    BY <1>2, <2>1 DEF Folder
  <2>3. BodyPos # 2
    BY <1>4, <2>1
  <2>4. BodyPos # 3
    <3>1. \A s \in FormRoots : s[1] # "Body:"
      BY RootWords
    <3>2. path[3] \in FormRoots \/ BodyPos # 3
      BY <1>1, <1>2, <2>1 DEF Answers
    <3> QED
      BY <2>1, <3>1, <3>2
  <2> QED
    BY <1>1, <2>1, <2>2, <2>3, <2>4
<1> QED
  BY <1>1, <1>2, <1>6, <1>7

(* What keeps the row on the path, the message in the list and the form's    *)
(* message keeps the invariant.                                              *)
LEMMA OpenKept ==
    ASSUME OpenInv, UNCHANGED <<open, cache>>,
           open # None /\ IsPlainLabel(open) /\ form'.mode \in Answers
              => form'.mode = form.mode /\ form'.uid = form.uid,
           open # None /\ IsPlainLabel(open) =>
              /\ Len(path') >= 2 /\ path'[1] = path[1] /\ path'[2] = path[2]
              /\ Len(path') >= 3 => Len(path) >= 3 /\ path'[3] = path[3]
    PROVE  OpenInv'
<1> SUFFICES ASSUME open # None, IsPlainLabel(open)
             PROVE  /\ Len(path') >= 2 /\ path'[1] = Folder
                    /\ \E seen \in BOOLEAN, flagged \in BOOLEAN :
                          path'[2] = TagsOf(seen, flagged) \o Mails[open].base
                    /\ \E i \in DOMAIN cache : cache[i].uid = open
                    /\ Len(path') >= 3 =>
                          /\ path'[3] \in Answers
                          /\ form'.mode \in Answers /\ Alone(open) => form'.uid = open
  BY DEF OpenInv, Alone, Base
<1> QED
  BY DEF OpenInv

(* A step that goes further from the form, or back to it. *)
LEMMA OpenFurther ==
    ASSUME PathsInv, OpenInv, UNCHANGED <<open, cache>>,
           open # None /\ IsPlainLabel(open) /\ form'.mode \in Answers
              => form'.mode = form.mode /\ form'.uid = form.uid,
           open # None /\ IsPlainLabel(open) => Len(path) >= 3,
           NEW rest \in Seq(Segments), path' = path \o rest
    PROVE  OpenInv'
<1>1. ASSUME open # None, IsPlainLabel(open)
      PROVE  /\ Len(path') >= 2 /\ path'[1] = path[1] /\ path'[2] = path[2]
             /\ Len(path') >= 3 => Len(path) >= 3 /\ path'[3] = path[3]
  <2>1. path \in Seq(Segments)
    BY DEF PathsInv, Segments
  <2>2. PICK n \in Nat : n = Len(path) /\ n >= 3
    BY <1>1, <2>1, LenProperties
  <2>3. PICK m \in Nat : m = Len(rest)
    BY LenProperties
  <2>4. Len(path') = n + m
    BY <2>1, <2>2, <2>3, ConcatProperties
  <2>5. \A i \in 1..(n + m) : path'[i] = IF i <= n THEN path[i] ELSE rest[i - n]
    BY <2>1, <2>2, <2>3, ConcatProperties
  <2>6. path'[1] = path[1] /\ path'[2] = path[2] /\ path'[3] = path[3]
    BY <2>2, <2>3, <2>5
  <2> QED
    BY <2>2, <2>3, <2>4, <2>6
<1>2. open # None /\ IsPlainLabel(open) =>
        /\ Len(path') >= 2 /\ path'[1] = path[1] /\ path'[2] = path[2]
        /\ Len(path') >= 3 => Len(path) >= 3 /\ path'[3] = path[3]
  BY <1>1
<1> QED
  BY <1>2, OpenKept

LEMMA OpenBodyEdit ==
    ASSUME PathsInv, OpenInv, DraftsInv, NEW body, BodyEdit(body)
    PROVE  OpenInv'
<1>1. /\ UNCHANGED <<open, cache>> /\ form'.mode = form.mode /\ form'.uid = form.uid
  <2>1. FormInv(form)
    BY DEF DraftsInv
  <2>2. PICK draft : draft = [Draft EXCEPT !.body = body] /\ DraftInv(draft) /\ SetDraft(draft)
    BY <2>1, BodySet DEF BodyEdit
  <2> QED
    BY <2>1, <2>2, SetDraftInv
<1>2. ASSUME open # None, IsPlainLabel(open)
      PROVE  /\ Len(path') >= 2 /\ path'[1] = path[1] /\ path'[2] = path[2]
             /\ Len(path') >= 3 => Len(path) >= 3 /\ path'[3] = path[3]
  <2>1. PICK n \in Nat : n = Len(path) /\ n >= 2 /\ (BodyPos # 0 => BodyPos \in 4..n)
    BY <1>2, OpenPath
  <2>2. CASE UNCHANGED path
    BY <2>1, <2>2
  <2>3. CASE BodyPos # 0 /\ path' = Append(Front(path), BodyFormatLabel(body))
    <3>1. n >= 4 /\ path \in Seq(Segments) /\ path # <<>>
      <4>1. n >= 4
        BY <2>1, <2>3
      <4>2. path \in Seq(Segments)
        BY DEF PathsInv, Segments
      <4> QED
        BY <2>1, <4>1, <4>2, EmptySeq
    <3>2. PICK q \in Seq(Segments) : q = Front(path)
      BY <3>1, FrontType
    <3>3. Len(q) = n - 1
      BY <2>1, <3>1, <3>2, FrontType
    <3>4. \A i \in 1..(n - 1) : q[i] = path[i]
      BY <2>1, <3>1, <3>2, FrontType
    <3>5. PICK label \in Segments : label = BodyFormatLabel(body)
      BY SegmentTypes
    <3>6. path' = Append(q, label)
      BY <2>3, <3>2, <3>5
    <3>7. Len(path') = (n - 1) + 1 /\ \A i \in 1..(n - 1) : path'[i] = q[i]
      BY <3>3, <3>6, AppendProperties
    <3>8. 1 \in 1..(n - 1) /\ 2 \in 1..(n - 1) /\ 3 \in 1..(n - 1)
      BY <3>1
    <3>9. path'[1] = path[1] /\ path'[2] = path[2] /\ path'[3] = path[3]
      BY <3>4, <3>7, <3>8
    <3> QED
      BY <2>1, <3>1, <3>7, <3>9
  <2> QED
    BY <2>2, <2>3 DEF BodyEdit, SyncBodyPathLabel
<1>3. open # None /\ IsPlainLabel(open) =>
        /\ Len(path') >= 2 /\ path'[1] = path[1] /\ path'[2] = path[2]
        /\ Len(path') >= 3 => Len(path) >= 3 /\ path'[3] = path[3]
  BY <1>2
<1> QED
  BY <1>1, <1>3, OpenKept

(* The label of an opened row is one segment if the message's label is plain. *)
LEMMA OpenLabel ==
    ASSUME NEW h \in Headers, IsPlainLabel(h.uid)
    PROVE  Pieces(MessageLabel(h)) = <<MessageLabel(h)>>
<1>1. PICK t \in Segments : t = MessageLabel(h) /\ t = TagsOf(h.seen, h.flagged) \o Base(h)
  BY MessageLabelType
<1>2. PICK b \in Segments : b = Base(h)
  BY MessageLabelType
<1>3. PICK seen, flagged : seen = h.seen /\ flagged = h.flagged
  OBVIOUS
<1>4. PICK tags \in Texts : tags = TagsOf(seen, flagged)
  BY TagTypes
<1>9. PICK k \in Nat : k = Len(tags) /\ \A i \in 1..k : tags[i] \in BracketedTags
  BY <1>4, TagsAre
<1>5. b = Mails[h.uid].base /\ "/" \notin ToSet(b)
  BY <1>2 DEF Base, IsPlainLabel
<1>6. \A i \in DOMAIN b : b[i] # "/"
  BY <1>5 DEF ToSet
<1>7. "/" \notin BracketedTags
  BY DEF BracketedTags
<1>8. ASSUME NEW i \in DOMAIN t
      PROVE  t[i] # "/"
  <2>1. PICK n \in Nat : n = Len(b) /\ DOMAIN b = 1..n
    BY LenProperties DEF Texts, Segments
  <2>2. t = tags \o b
    BY <1>1, <1>2, <1>3, <1>4
  <2>3. Len(t) = k + n /\ \A j \in 1..(k + n) : t[j] = IF j <= k THEN tags[j] ELSE b[j - k]
    BY <1>9, <2>1, <2>2, ConcatProperties DEF Texts, Segments
  <2>4. i \in 1..(k + n)
    BY <2>3, LenProperties DEF Texts, Segments
  <2>5. CASE i <= k
    <3>1. i \in 1..k /\ t[i] = tags[i]
      BY <1>9, <2>3, <2>4, <2>5
    <3> QED
      BY <1>7, <1>9, <3>1
  <2>6. CASE ~(i <= k)
    <3>1. i - k \in DOMAIN b
      BY <1>9, <2>1, <2>4, <2>6
    <3> QED
      BY <1>6, <2>3, <2>4, <2>6, <3>1
  <2> QED
    BY <2>5, <2>6
<1> QED
  BY <1>1, <1>8, PiecesOne

LEMMA OpenMessageOpen ==
    ASSUME NEW h \in Headers, \E i \in DOMAIN cache : cache[i] = h, OpenMessage(h)
    PROVE  OpenInv'
<1>1. path = <<Folder>> /\ path' = path \o Pieces(MessageLabel(h)) /\ open' = h.uid
      /\ UNCHANGED cache
  BY DEF OpenMessage
<1>2. SUFFICES ASSUME IsPlainLabel(h.uid)
               PROVE  /\ Len(path') = 2 /\ path'[1] = Folder
                      /\ \E seen \in BOOLEAN, flagged \in BOOLEAN :
                            path'[2] = TagsOf(seen, flagged) \o Mails[h.uid].base
                      /\ \E i \in DOMAIN cache : cache[i].uid = h.uid
  BY <1>1 DEF OpenInv
<1>3. PICK t \in Segments : t = MessageLabel(h) /\ t = TagsOf(h.seen, h.flagged) \o Base(h)
  BY MessageLabelType
<1>4. path' = <<Folder>> \o <<t>>
  BY <1>1, <1>2, <1>3, OpenLabel
<1>5. Len(path') = 2 /\ path'[1] = Folder /\ path'[2] = t
  <2>1. PICK f \in Segments : f = Folder
    BY SegmentTypes
  <2>2. PICK a \in Seq(Segments) : a = <<f>> /\ Len(a) = 1 /\ a[1] = f
    BY SingleSeq
  <2>3. PICK b \in Seq(Segments) : b = <<t>> /\ Len(b) = 1 /\ b[1] = t
    BY SingleSeq
  <2>4. path' = a \o b
    BY <1>4, <2>1, <2>2, <2>3
  <2>5. Len(path') = 2 /\ \A i \in 1..2 : path'[i] = IF i <= 1 THEN a[i] ELSE b[i - 1]
    BY <2>2, <2>3, <2>4, ConcatProperties
  <2>6. path'[1] = a[1] /\ path'[2] = b[1]
    BY <2>5
  <2> QED
    BY <2>1, <2>2, <2>3, <2>5, <2>6
<1>6. h.seen \in BOOLEAN /\ h.flagged \in BOOLEAN /\ t = TagsOf(h.seen, h.flagged) \o Mails[h.uid].base
  BY <1>3 DEF Headers, Base
<1> QED
  BY <1>5, <1>6

LEMMA PushAnswerOpen ==
    ASSUME DraftsInv, PathsInv, OpenInv, NEW mode \in Answers, PushAnswer(mode)
    PROVE  OpenInv'
<1>1. /\ Len(path) = 2 /\ path' = Append(path, mode)
      /\ form' = [NewForm EXCEPT !.mode = mode, !.uid = LookupUid(path[2])]
      /\ UNCHANGED <<cache, open, viewed>>
  BY DEF PushAnswer, Begun, Answers
<1>2. SUFFICES ASSUME open # None, IsPlainLabel(open)
               PROVE  /\ Len(path') >= 2 /\ path'[1] = Folder
                      /\ \E seen \in BOOLEAN, flagged \in BOOLEAN :
                            path'[2] = TagsOf(seen, flagged) \o Mails[open].base
                      /\ \E i \in DOMAIN cache : cache[i].uid = open
                      /\ path'[3] \in Answers
                      /\ Alone(open) => form'.uid = open
  BY <1>1 DEF OpenInv, Alone, Base
<1>3. path \in Seq(Segments) /\ mode \in Segments
  BY SegmentTypes DEF PathsInv, Segments, Answers
<1>4. Len(path') = 3 /\ path'[3] = mode /\ path'[1] = path[1] /\ path'[2] = path[2]
  <2>1. PICK q \in Seq(Segments) : q = path
    BY <1>3
  <2>2. PICK m \in Segments : m = mode
    BY <1>3
  <2>3. PICK n \in Nat : n = Len(q)
    BY LenProperties
  <2>4. path' = Append(q, m)
    BY <1>1, <2>1, <2>2
  <2>5. Len(path') = n + 1
    BY <2>3, <2>4, AppendProperties
  <2>6. path'[n + 1] = m
    BY <2>3, <2>4, AppendProperties
  <2>7. \A i \in 1..n : path'[i] = q[i]
    BY <2>3, <2>4, AppendProperties
  <2>8. n = 2
    BY <1>1, <2>1, <2>3
  <2> QED
    BY <2>1, <2>2, <2>5, <2>6, <2>7, <2>8
<1>5. PICK seen \in BOOLEAN, flagged \in BOOLEAN :
        path[2] = TagsOf(seen, flagged) \o Mails[open].base
  BY <1>2 DEF OpenInv
<1>6. path[1] = Folder /\ \E i \in DOMAIN cache : cache[i].uid = open
  BY <1>2 DEF OpenInv
<1>7. open \in DOMAIN Mails
  BY <1>2 DEF PathsInv
<1>8. ASSUME Alone(open)
      PROVE  form'.uid = open
  <2>1. LookupUid(path[2]) = open
    BY <1>2, <1>5, <1>6, <1>7, <1>8, LookupOpen DEF DraftsInv
  <2> QED
    BY <1>1, <2>1 DEF NewForm
<1>9. \E seen2 \in BOOLEAN, flagged2 \in BOOLEAN :
        path'[2] = TagsOf(seen2, flagged2) \o Mails[open].base
  BY <1>4, <1>5
<1>10. Len(path') >= 2 /\ path'[1] = Folder /\ path'[3] \in Answers
  BY <1>4, <1>6
<1> QED
  BY <1>6, <1>8, <1>9, <1>10

(* The list is fetched again, or a message in it is read: the open one stays in it. *)
LEMMA OpenListed ==
    ASSUME PathsInv, OpenInv, ~InForm, UNCHANGED <<path, open, form>>,
           \A i \in DOMAIN cache : \E j \in DOMAIN cache' : cache'[j].uid = cache[i].uid
    PROVE  OpenInv'
<1> SUFFICES ASSUME open # None, IsPlainLabel(open)
             PROVE  /\ Len(path) >= 2 /\ path[1] = Folder /\ ~(Len(path) >= 3)
                    /\ \E seen \in BOOLEAN, flagged \in BOOLEAN :
                          path[2] = TagsOf(seen, flagged) \o Mails[open].base
                    /\ \E i \in DOMAIN cache' : cache'[i].uid = open
  BY DEF OpenInv
<1>1. ~(Len(path) >= 3)
  BY OpenPath
<1>2. \E i \in DOMAIN cache : cache[i].uid = open
  BY DEF OpenInv
<1> QED
  BY <1>1, <1>2 DEF OpenInv

LEMMA PopPathOpen ==
    ASSUME PathsInv, OpenInv, PopPath
    PROVE  OpenInv'
<1>1. /\ path # <<>> /\ path' = Front(path) /\ UNCHANGED <<cache, form>>
      /\ open' = IF Len(path) <= 2 THEN None ELSE open
  BY DEF PopPath
<1>2. PICK n \in Nat : n = Len(path)
  BY LenProperties DEF PathsInv
<1>3. CASE n <= 2
  BY <1>1, <1>2, <1>3 DEF OpenInv
<1>4. CASE n >= 3
  <2>1. path \in Seq(Segments)
    BY DEF PathsInv, Segments
  <2>2. Len(path') = n - 1 /\ \A i \in 1..(n - 1) : path'[i] = path[i]
    BY <1>1, <1>2, <2>1, FrontType
  <2>3. path'[1] = path[1] /\ path'[2] = path[2] /\ (n - 1 >= 3 => path'[3] = path[3])
    BY <1>4, <2>2
  <2>4. UNCHANGED <<open, cache, form>>
    BY <1>1, <1>2, <1>4
  <2>5. /\ Len(path') >= 2 /\ path'[1] = path[1] /\ path'[2] = path[2]
        /\ Len(path') >= 3 => Len(path) >= 3 /\ path'[3] = path[3]
    BY <1>2, <1>4, <2>2, <2>3
  <2> QED
    BY <2>4, <2>5, OpenKept
<1> QED
  BY <1>2, <1>3, <1>4

LEMMA InitOpen ==
    ASSUME Init
    PROVE  OpenInv
BY DEF Init, OpenInv

LEMMA OpenStep ==
    ASSUME DraftsInv, PathsInv, OpenInv, [Next]_vars
    PROVE  OpenInv'
<1>1. FormInv(form) /\ world \in Worlds /\ cache \in Seq(Headers) /\ path \in Seq(Segments)
  BY DEF DraftsInv, PathsInv, Segments
<1>2. CASE UNCHANGED vars
  <2>1. UNCHANGED <<path, open, cache, form>>
    BY <1>2 DEF vars
  <2> QED
    BY <2>1 DEF OpenInv, Alone, Base
<1>3. CASE Next
  <2>1. CASE OpenFolder
    <3>1. UNCHANGED <<open, cache, form>> /\ path = <<>>
      BY <2>1 DEF OpenFolder
    <3>2. ASSUME open # None, IsPlainLabel(open)
          PROVE  FALSE
      BY <3>1, <3>2, EmptySeq DEF OpenInv
    <3> QED
      BY <3>1, <3>2 DEF OpenInv
  <2>2. ASSUME NEW i \in DOMAIN cache, OpenMessage(cache[i])
        PROVE  OpenInv'
    <3>1. PICK h \in Headers : h = cache[i]
      BY <1>1, CacheIs
    <3>2. OpenMessage(h)
      BY <2>2, <3>1
    <3> QED
      BY <3>1, <3>2, OpenMessageOpen
  <2>3. CASE ShowMessage
    <3>1. ~InForm /\ UNCHANGED <<path, open, form>>
      BY <2>3 DEF ShowMessage
    <3>2. \A i \in DOMAIN cache : \E j \in DOMAIN cache' : cache'[j].uid = cache[i].uid
      BY <1>1, <2>3, ShowMessageCache
    <3> QED
      BY <3>1, <3>2, OpenListed
  <2>4. ASSUME NEW k \in DOMAIN cache, Relabel(k)
        PROVE  OpenInv'
    <3>1. ~InForm /\ UNCHANGED <<path, open, form>>
      BY <2>4 DEF Relabel
    <3>2. \A i \in DOMAIN cache : \E j \in DOMAIN cache' : cache'[j].uid = cache[i].uid
      BY <1>1, <2>4, RelabelCache
    <3> QED
      BY <3>1, <3>2, OpenListed
  <2>5. ASSUME NEW uid \in world.coming, NewMail(uid)
        PROVE  OpenInv'
    <3>1. ~InForm /\ UNCHANGED <<path, open, form>>
      BY <2>5 DEF NewMail
    <3>2. \A i \in DOMAIN cache : \E j \in DOMAIN cache' : cache'[j].uid = cache[i].uid
      BY <1>1, <2>5, NewMailCache
    <3> QED
      BY <3>1, <3>2, OpenListed
  <2>6. CASE PushCompose
    <3>1. open' = None
      BY <2>6 DEF PushCompose
    <3> QED
      BY <3>1 DEF OpenInv
  <2>7. CASE PressSend
    <3>1. UNCHANGED <<path, open, cache>> /\ form' = NewForm
      BY <2>7 DEF PressSend
    <3>2. form'.mode \notin Answers
      BY <3>1 DEF NewForm, Answers
    <3> QED
      BY <3>1, <3>2, OpenKept DEF OpenInv
  <2>8. ASSUME NEW mode \in Answers, PushAnswer(mode)
        PROVE  OpenInv'
    BY <2>8, PushAnswerOpen
  <2>9. CASE ShowForm
    <3>1. UNCHANGED <<path, open, cache>> /\ form'.mode = form.mode /\ form'.uid = form.uid
      <4>1. PICK m, u, p, d : form = [mode |-> m, uid |-> u, prefilled |-> p, draft |-> d]
        BY <1>1 DEF FormInv
      <4> QED
        BY <2>9, <4>1 DEF ShowForm
    <3> QED
      BY <3>1, OpenKept DEF OpenInv
  <2>10. CASE EditField \/ Attach
    <3>1. PICK draft : DraftInv(draft) /\ SetDraft(draft) /\ UNCHANGED path
      BY <1>1, <2>10, EditFieldDraft, AttachDraft
    <3>2. UNCHANGED <<cache, open>> /\ form'.mode = form.mode /\ form'.uid = form.uid
      BY <1>1, <3>1, SetDraftInv
    <3> QED
      BY <3>1, <3>2, OpenKept DEF OpenInv
  <2>11. CASE EditLine \/ AddLine \/ DeleteLine
    <3>1. PICK body : BodyEdit(body)
      BY <1>1, <2>11, EditLineBody, AddLineBody, DeleteLineBody DEF Segments
    <3> QED
      BY <3>1, OpenBodyEdit
  <2>12. CASE OpenField
    <3>1. PICK key \in {<<f>> : f \in Fields} \cup {AttachmentsKey, BodyFormatLabel(Body)} :
             path' = Append(path, key)
      BY <2>12 DEF OpenField
    <3>2. AtForm /\ UNCHANGED <<cache, open, form>>
      BY <2>12 DEF OpenField
    <3>3. PICK rest \in Seq(Segments) : path' = path \o rest
      <4>1. PICK k \in Segments : k = key
        BY SegmentTypes
      <4>2. path' = path \o <<k>>
        BY <1>1, <3>1, <4>1, AppendIsConcat
      <4> QED
        BY <4>2, SingleSeq
    <3>4. InForm
      <4>1. path # <<>> /\ path[Len(path)] \in FormRoots
        BY <3>2 DEF AtForm, Last
      <4>2. Len(path) \in DOMAIN path
        BY <1>1, <4>1, EmptySeq, LenProperties
      <4> QED
        BY <4>1, <4>2 DEF InForm
    <3>5. open # None /\ IsPlainLabel(open) => Len(path) >= 3
      BY <3>4, OpenPath
    <3> QED
      BY <3>2, <3>3, <3>5, OpenFurther
  <2>13. CASE OpenObject
    <3>1. PICK i \in DOMAIN RowsHere :
            LET key == StripDisplay(RowsHere[i].text) IN
            /\ path' = path \o Pieces(key)
            /\ IF Begins(key) THEN form' = Begun(key) ELSE UNCHANGED form
      BY <2>13 DEF OpenObject
    <3>2. InForm /\ UNCHANGED <<cache, open>>
      BY <2>13 DEF OpenObject
    <3>3. PICK t \in Texts : t = StripDisplay(RowsHere[i].text)
      BY <1>1, LineHere, StripDisplayType
    <3>4. PICK rest \in Seq(Segments) : rest = Pieces(t)
      BY PiecesType
    <3>5. open # None /\ IsPlainLabel(open) => Len(path) >= 3
      BY <3>2, OpenPath
    <3>6. ASSUME open # None, IsPlainLabel(open), form'.mode \in Answers
          PROVE  UNCHANGED form
      <4>1. Len(path) # 2
        <5>1. PICK n \in Nat : n = Len(path)
          BY <1>1, LenProperties
        <5> QED
          BY <3>5, <3>6, <5>1
      <4>2. ASSUME Begins(t)
            PROVE  FALSE
        <5>1. t = <<"compose">>
          BY <4>1, <4>2 DEF Begins
        <5>2. form' = NewForm
          BY <3>1, <3>3, <4>2, <5>1 DEF Begun
        <5> QED
          BY <3>6, <5>2 DEF NewForm, Answers
      <4> QED
        BY <3>1, <3>3, <4>2
    <3> QED
      BY <3>1, <3>2, <3>3, <3>4, <3>5, <3>6, OpenFurther
  <2>14. CASE PopPath
    BY <2>14, PopPathOpen
  <2> QED
    BY <1>3, <2>1, <2>2, <2>3, <2>4, <2>5, <2>6, <2>7, <2>8, <2>9, <2>10, <2>11, <2>12, <2>13,
       <2>14 DEF Next, Step
<1> QED
  BY <1>2, <1>3

(* An answer is to the message that was opened: what lookup_uid finds behind *)
(* the label on the path is it, though the label has changed since, and no   *)
(* step in the form, however deep, has it name another (push_path).          *)
THEOREM AnswersAreToOpen == Spec => []AnswersOpenMessage
<1>1. Init => DraftsInv /\ PathsInv /\ OpenInv
  BY InitDrafts, InitPaths, InitOpen
<1>2. DraftsInv /\ PathsInv /\ OpenInv /\ [Next]_vars => (DraftsInv /\ PathsInv /\ OpenInv)'
  BY DraftsStep, PathsStep, OpenStep DEF PathsInv
<1>3. PathsInv /\ OpenInv => AnswersOpenMessage
  <2> SUFFICES ASSUME PathsInv, OpenInv, Answering, Alone(open), IsPlainLabel(open)
               PROVE  form.uid = open
    BY DEF AnswersOpenMessage
  <2>1. InForm /\ form.mode \in Answers /\ open # None
    BY DEF Answering
  <2>2. Len(path) >= 3
    BY <2>1, OpenPath
  <2> QED
    BY <2>1, <2>2 DEF OpenInv
<1> QED
  BY <1>1, <1>2, <1>3, PTL DEF Spec

(* ---------------------------------------------- an edit lands on its row *)

(* A tree after one of its rows is replaced: the rows before it on its way,  *)
(* and those beside it, are the ones they were.                              *)
Replaced(es, es2, q, at, row) ==
    /\ RowsInert(es) /\ q \in Seq(Numbers)
    /\ at \in Positions /\ Len(at) = Len(q) + 1
    /\ GoodRow(row) /\ es2 = PutRow(es, at, row)

LEMMA ReplacedRows ==
    ASSUME NEW es, NEW es2, NEW q, NEW at, NEW row, Replaced(es, es2, q, at, row)
    PROVE  /\ RowsInert(es2) /\ DOMAIN es \subseteq DOMAIN es2
           /\ \A r \in DOMAIN es2 : Len(r) # Len(q) + 2 => r \in DOMAIN es \cup {at}
<1>1. /\ RowsInert(es) /\ q \in Seq(Numbers) /\ GoodRow(row)
      /\ at \in Positions /\ Len(at) = Len(q) + 1 /\ es2 = PutRow(es, at, row)
  BY DEF Replaced
<1>2. at \in Seq(Numbers)
  BY <1>1 DEF Positions, Numbers
<1>3. RowsInert(es2)
  BY <1>1, <1>2, PutRowInert
<1>4. PICK below \in Seq(Numbers) : below = at \o <<1>> /\ Len(below) = Len(at) + 1
  <2>1. 1 \in Numbers
    BY DEF Numbers
  <2> QED
    BY <1>2, <2>1, FrontLast
<1>5. PICK D : D = DOMAIN es \cup {at} \cup (IF row.obj THEN {below} ELSE {})
  OBVIOUS
<1>6. DOMAIN es2 = D
  BY <1>1, <1>4, <1>5 DEF PutRow
<1>7. Len(below) = Len(q) + 2
  BY <1>1, <1>4, LenProperties
<1> QED
  BY <1>1, <1>3, <1>5, <1>6, <1>7

LEMMA ReplacedRow ==
    ASSUME NEW es, NEW es2, NEW q, NEW at, NEW row, Replaced(es, es2, q, at, row)
    PROVE  at \in DOMAIN es2 /\ es2[at] = row
BY DEF Replaced, PutRow

LEMMA ReplacedOther ==
    ASSUME NEW es, NEW es2, NEW q, NEW at, NEW row, Replaced(es, es2, q, at, row),
           NEW r \in DOMAIN es, r # at
    PROVE  es2[r] = es[r]
BY DEF Replaced, PutRow

LEMMA ReplacedKids ==
    ASSUME NEW es, NEW es2, NEW q, NEW at, NEW row, Replaced(es, es2, q, at, row),
           NEW r \in Seq(Numbers), Len(r) < Len(q)
    PROVE  Kids(es2, r) = Kids(es, r)
<1>1. /\ RowsInert(es) /\ q \in Seq(Numbers) /\ RowsInert(es2)
      /\ DOMAIN es \subseteq DOMAIN es2
  BY ReplacedRows DEF Replaced
<1>2. PICK n \in Nat, m \in Nat : n = Len(q) /\ m = Len(r) /\ m < n
  BY <1>1, LenProperties
<1>3. ASSUME NEW k \in Kids(es2, r)
      PROVE  k \in Kids(es, r)
  <2>1. k \in Numbers /\ r \o <<k>> \in DOMAIN es2
    BY <1>1, KidPlace, RowsGood
  <2>2. Len(r \o <<k>>) = m + 1
    BY <1>2, <2>1, FrontLast
  <2>3. r \o <<k>> \in DOMAIN es
    <3>1. Len(r \o <<k>>) # Len(q) + 2 /\ Len(r \o <<k>>) # Len(q) + 1
      BY <1>2, <2>2
    <3>2. PICK p \in DOMAIN es2 : p = r \o <<k>>
      BY <2>1
    <3>3. p \in DOMAIN es \cup {at}
      BY <3>1, <3>2, ReplacedRows
    <3>4. p # at
      BY <3>1, <3>2 DEF Replaced
    <3> QED
      BY <3>2, <3>3, <3>4
  <2> QED
    BY <2>1, <2>3, KidOfPlace
<1>4. ASSUME NEW k \in Kids(es, r)
      PROVE  k \in Kids(es2, r)
  <2>1. k \in Numbers /\ r \o <<k>> \in DOMAIN es
    BY <1>1, KidPlace, RowsGood
  <2>2. r \o <<k>> \in DOMAIN es2
    BY <1>1, <2>1
  <2> QED
    BY <2>1, <2>2, KidOfPlace
<1> QED
  BY <1>3, <1>4

(* Of those beside it, the row replaced or added is one. *)
LEMMA ReplacedBeside ==
    ASSUME NEW es, NEW es2, NEW at, NEW row, Replaced(es, es2, Front(at), at, row)
    PROVE  Kids(es2, Front(at)) = Kids(es, Front(at)) \cup {Last(at)}
<1>1. PICK q : q = Front(at)
  OBVIOUS
<1>2. PICK i : i = Last(at)
  OBVIOUS
<1>3. /\ RowsInert(es) /\ q \in Seq(Numbers) /\ RowsInert(es2)
      /\ DOMAIN es \subseteq DOMAIN es2 /\ at \in DOMAIN es2
  BY <1>1, ReplacedRows, ReplacedRow DEF Replaced
<1>4. PICK n \in Nat : n = Len(q)
  BY <1>3, LenProperties
<1>5. at = q \o <<i>> /\ i \in Numbers
  <2>1. at \in Seq(Numbers) /\ at # <<>>
    BY DEF Replaced, Positions, Numbers
  <2> QED
    BY <1>1, <1>2, <2>1, FrontLastOf
<1>6. ASSUME NEW k \in Kids(es2, q)
      PROVE  k \in Kids(es, q) \cup {i}
  <2>1. k \in Numbers /\ q \o <<k>> \in DOMAIN es2
    BY <1>3, KidPlace, RowsGood
  <2>2. Len(q \o <<k>>) = n + 1 /\ Last(q \o <<k>>) = k
    BY <1>3, <1>4, <2>1, FrontLast
  <2>3. PICK p \in DOMAIN es2 : p = q \o <<k>>
    BY <2>1
  <2>4. Len(p) # Len(q) + 2
    BY <1>4, <2>2, <2>3
  <2>5. p \in DOMAIN es \cup {at}
    BY <1>1, <2>4, ReplacedRows
  <2>6. CASE p = at
    BY <1>2, <2>2, <2>3, <2>6
  <2>7. CASE p \in DOMAIN es
    <3>1. q \o <<k>> \in DOMAIN es
      BY <2>3, <2>7
    <3> QED
      BY <1>3, <2>1, <3>1, KidOfPlace
  <2> QED
    BY <2>5, <2>6, <2>7
<1>7. ASSUME NEW k \in Kids(es, q)
      PROVE  k \in Kids(es2, q)
  <2>1. k \in Numbers /\ q \o <<k>> \in DOMAIN es
    BY <1>3, KidPlace, RowsGood
  <2>2. q \o <<k>> \in DOMAIN es2
    BY <1>3, <2>1
  <2> QED
    BY <1>3, <2>1, <2>2, KidOfPlace
<1>8. i \in Kids(es2, q)
  <2>1. q \o <<i>> \in DOMAIN es2
    BY <1>3, <1>5
  <2> QED
    BY <1>3, <1>5, <2>1, KidOfPlace
<1> QED
  BY <1>1, <1>2, <1>6, <1>7, <1>8

LEMMA ReplacedObject ==
    ASSUME NEW es, NEW es2, NEW q, NEW at, NEW row, Replaced(es, es2, q, at, row),
           NEW r \in Seq(Numbers), Len(r) < Len(q), NEW segment
    PROVE  ObjectAt(es2, r, segment) = ObjectAt(es, r, segment)
<1>1. /\ RowsInert(es) /\ q \in Seq(Numbers) /\ Len(at) = Len(q) + 1
  BY DEF Replaced
<1>2. PICK n \in Nat, m \in Nat : n = Len(q) /\ m = Len(r) /\ m < n
  BY <1>1, LenProperties
<1>3. Kids(es2, r) = Kids(es, r)
  BY <1>2, ReplacedKids
<1>4. ASSUME NEW k \in Kids(es, r)
      PROVE  es2[r \o <<k>>] = es[r \o <<k>>]
  <2>1. k \in Numbers /\ r \o <<k>> \in DOMAIN es
    BY <1>1, KidPlace, RowsGood
  <2>2. Len(r \o <<k>>) = m + 1
    BY <1>2, <2>1, FrontLast
  <2>4. r \o <<k>> # at
    BY <1>1, <1>2, <2>2
  <2>5. PICK p \in DOMAIN es : p = r \o <<k>>
    BY <2>1
  <2>6. p # at
    BY <2>4, <2>5
  <2>7. es2[p] = es[p]
    BY <2>6, ReplacedOther
  <2> QED
    BY <2>5, <2>7
<1>5. PICK T : T = {k \in Kids(es, r) :
                      es[r \o <<k>>].obj /\ StripDisplay(es[r \o <<k>>].text) = segment}
  OBVIOUS
<1>6. T = {k \in Kids(es2, r) :
             es2[r \o <<k>>].obj /\ StripDisplay(es2[r \o <<k>>].text) = segment}
  BY <1>3, <1>4, <1>5
<1> QED
  BY <1>5, <1>6 DEF ObjectAt

(* What is at a position, as a sub-path leads to it. *)
LeadsTo(es, p, sub) == \A n \in DOMAIN p : p[n] = ObjectAt(es, SubSeq(p, 1, n - 1), sub[n])

LEMMA ReplacedPlaces ==
    ASSUME NEW es, NEW es2, NEW q, NEW at, NEW row, Replaced(es, es2, q, at, row),
           NEW sub, q \in PlacesAt(es, sub)
    PROVE  PlacesAt(es2, sub) = PlacesAt(es, sub)
<1>1. /\ RowsInert(es) /\ q \in Seq(Numbers) /\ RowsInert(es2)
      /\ DOMAIN es \subseteq DOMAIN es2
  BY ReplacedRows DEF Replaced
<1>2. PICK n \in Nat : n = Len(q) /\ n = Len(sub)
  BY <1>1, LenProperties DEF PlacesAt
<1>3. ASSUME NEW p \in Seq(Numbers), Len(p) = n
      PROVE  LeadsTo(es2, p, sub) <=> LeadsTo(es, p, sub)
  <2>1. ASSUME NEW k \in DOMAIN p
        PROVE  ObjectAt(es2, SubSeq(p, 1, k - 1), sub[k])
                 = ObjectAt(es, SubSeq(p, 1, k - 1), sub[k])
    <3>1. k \in 1..n /\ DOMAIN p = 1..n
      BY <1>3, <2>1, LenProperties
    <3>2. \A j \in 1..(k - 1) : p[j] \in Numbers
      BY <1>3, <3>1, ElementOfSeq
    <3>3. PICK r : r = SubSeq(p, 1, k - 1)
      OBVIOUS
    <3>4. r \in Seq(Numbers)
      BY <3>1, <3>2, <3>3, SubSeqProperties
    <3>5. Len(r) = k - 1
      BY <3>1, <3>2, <3>3, SubSeqProperties
    <3>6. Len(r) < Len(q)
      BY <1>2, <3>1, <3>5
    <3>7. \A segment : ObjectAt(es2, r, segment) = ObjectAt(es, r, segment)
      BY <3>4, <3>6, ReplacedObject
    <3> QED
      BY <3>3, <3>7
  <2> QED
    BY <2>1 DEF LeadsTo
<1>4. \A p \in DOMAIN es2 \cup {<<>>} : p \in Seq(Numbers)
  BY <1>1, RowsGood, EmptySeq DEF Positions, Numbers
<1>5. ASSUME NEW p \in DOMAIN es2 \cup {<<>>}, Len(p) = n
      PROVE  p \in DOMAIN es \cup {<<>>}
  <2>1. Len(p) # Len(q) + 2 /\ Len(p) # Len(q) + 1
    BY <1>2, <1>5
  <2>2. p # at
    BY <2>1 DEF Replaced
  <2> QED
    BY <1>5, <2>1, <2>2, ReplacedRows
<1>6. \A p : p \in PlacesAt(es2, sub) <=>
               p \in DOMAIN es2 \cup {<<>>} /\ Len(p) = n /\ LeadsTo(es2, p, sub)
  BY <1>2 DEF PlacesAt, LeadsTo
<1>7. \A p : p \in PlacesAt(es, sub) <=>
               p \in DOMAIN es \cup {<<>>} /\ Len(p) = n /\ LeadsTo(es, p, sub)
  BY <1>2 DEF PlacesAt, LeadsTo
<1>8. \A p : p \in PlacesAt(es2, sub) <=> p \in PlacesAt(es, sub)
  BY <1>1, <1>3, <1>4, <1>5, <1>6, <1>7
<1> QED
  BY <1>8

(* Rows with one of them changed, or with one more. *)
Changed(rows, i, row) == [k \in DOMAIN rows \cup {i} |-> IF k = i THEN row ELSE rows[k]]

LEMMA ReplacedElems ==
    ASSUME NEW es, NEW es2, NEW q, NEW at, NEW row, Replaced(es, es2, q, at, row),
           NEW sub, PlacesAt(es, sub) # {}, q = PlaceAt(es, sub),
           NEW i, i = Last(at), q = Front(at)
    PROVE  ElemsAt(es2, sub) = Changed(ElemsAt(es, sub), i, row)
<1>1. /\ RowsInert(es) /\ q \in Seq(Numbers)
  BY DEF Replaced
<1>2. q \in PlacesAt(es, sub)
  BY <1>1, PlaceIs
<1>3. PlacesAt(es2, sub) = PlacesAt(es, sub)
  BY <1>2, ReplacedPlaces
<1>4. PlaceAt(es2, sub) = q
  BY <1>3 DEF PlaceAt
<1>5. Kids(es2, q) = Kids(es, q) \cup {i}
  BY ReplacedBeside
<1>6. ElemsAt(es, sub) = [k \in Kids(es, q) |-> es[q \o <<k>>]]
  BY DEF ElemsAt, RowsUnder
<1>7. ElemsAt(es2, sub) = [k \in Kids(es, q) \cup {i} |-> es2[q \o <<k>>]]
  BY <1>3, <1>4, <1>5 DEF ElemsAt, RowsUnder
<1>8. ASSUME NEW k \in Kids(es, q) \cup {i}
      PROVE  es2[q \o <<k>>] = IF k = i THEN row ELSE es[q \o <<k>>]
  <2>1. CASE k = i
    <3>1. at \in Seq(Numbers) /\ at # <<>>
      BY DEF Replaced, Positions, Numbers
    <3>2. at = q \o <<i>>
      BY <3>1, FrontLastOf
    <3>3. es2[at] = row
      BY ReplacedRow
    <3> QED
      BY <2>1, <3>2, <3>3
  <2>2. CASE k # i
    <3>1. k \in Numbers /\ q \o <<k>> \in DOMAIN es
      BY <1>1, <2>2, KidPlace, RowsGood
    <3>2. Last(q \o <<k>>) = k
      BY <1>1, <3>1, FrontLast
    <3>3. q \o <<k>> # at
      BY <2>2, <3>2
    <3>4. PICK p \in DOMAIN es : p = q \o <<k>>
      BY <3>1
    <3>5. p # at
      BY <3>3, <3>4
    <3>6. es2[p] = es[p]
      BY <3>5, ReplacedOther
    <3> QED
      BY <2>2, <3>4, <3>6
  <2> QED
    BY <2>1, <2>2
<1>10. PICK before : before = ElemsAt(es, sub)
  OBVIOUS
<1>11. before = [k \in Kids(es, q) |-> es[q \o <<k>>]]
  BY <1>6, <1>10
<1>12. ElemsAt(es2, sub) = [k \in Kids(es, q) \cup {i} |-> IF k = i THEN row ELSE es[q \o <<k>>]]
  BY <1>7, <1>8
<1>13. Changed(before, i, row) =
         [k \in Kids(es, q) \cup {i} |-> IF k = i THEN row ELSE es[q \o <<k>>]]
  BY <1>11 DEF Changed
<1> QED
  BY <1>10, <1>12, <1>13

(* The row an edit names by what is on it is found if it is like no other, and *)
(* an object is not looked for.                                                *)
IsOnlyKid(es, q, i, old) ==
    /\ i \in Kids(es, q) /\ es[q \o <<i>>].text = old
    /\ \A j \in Kids(es, q) : es[q \o <<j>>].text = old => j = i

LEMMA RowHoldingIs ==
    ASSUME NEW es, RowsInert(es), NEW q, NEW i, NEW old, IsOnlyKid(es, q, i, old)
    PROVE  /\ RowHolding(es, q, old) = IF es[q \o <<i>>].obj THEN 0 ELSE i
           /\ i # 0
<1>1. PICK T : T = {k \in Kids(es, q) : ~es[q \o <<k>>].obj /\ es[q \o <<k>>].text = old}
  OBVIOUS
<1>2. i \in Numbers
  BY KidPlace, RowsGood DEF IsOnlyKid
<1>3. RowHolding(es, q, old) = IF T = {} THEN 0 ELSE Min(T)
  BY <1>1 DEF RowHolding, FirstOf
<1>4. CASE es[q \o <<i>>].obj
  <2>1. T = {}
    BY <1>1, <1>4 DEF IsOnlyKid
  <2> QED
    BY <1>2, <1>3, <1>4, <2>1 DEF Numbers
<1>5. CASE ~es[q \o <<i>>].obj
  <2>1. T = {i}
    BY <1>1, <1>5 DEF IsOnlyKid
  <2>2. T \in SUBSET Nat /\ T # {}
    BY <1>2, <2>1 DEF Numbers
  <2>3. Min(T) = i
    BY <2>1, <2>2, MinOf
  <2> QED
    BY <1>2, <1>3, <1>5, <2>2, <2>3 DEF Numbers
<1> QED
  BY <1>4, <1>5

LEMMA ReplacedHere ==
    ASSUME NEW es, NEW es2, NEW at, NEW row, NEW sub,
           Replaced(es, es2, PlaceAt(es, sub), at, row),
           PlacesAt(es, sub) # {}, Front(at) = PlaceAt(es, sub)
    PROVE  ElemsAt(es2, sub) = Changed(ElemsAt(es, sub), Last(at), row)
<1>1. PICK q : q = PlaceAt(es, sub)
  OBVIOUS
<1>2. PICK i : i = Last(at)
  OBVIOUS
<1>3. Replaced(es, es2, q, at, row) /\ q = Front(at)
  BY <1>1
<1> QED
  BY <1>1, <1>2, <1>3, ReplacedElems

LEMMA EditedElems ==
    ASSUME NEW es, RowsInert(es), NEW sub, PlacesAt(es, sub) # {},
           NEW i \in Numbers, NEW row, GoodRow(row)
    PROVE  ElemsAt(PutRow(es, PlaceAt(es, sub) \o <<i>>, row), sub)
              = Changed(ElemsAt(es, sub), i, row)
<1>1. PICK q \in Seq(Numbers) : q = PlaceAt(es, sub)
  BY PlaceIs
<1>2. q \o <<i>> \in Positions
  BY FrontLast DEF Positions, Numbers
<1>3. PICK at : at = q \o <<i>>
  OBVIOUS
<1>4. Len(at) = Len(q) + 1 /\ Last(at) = i /\ Front(at) = q /\ at \in Positions
  BY <1>2, <1>3, FrontLast
<1>5. PICK es2 : es2 = PutRow(es, at, row)
  OBVIOUS
<1>6. Replaced(es, es2, PlaceAt(es, sub), at, row)
  BY <1>1, <1>3, <1>4, <1>5 DEF Replaced
<1>7. Front(at) = PlaceAt(es, sub)
  BY <1>1, <1>4
<1>8. ElemsAt(es2, sub) = Changed(ElemsAt(es, sub), Last(at), row)
  BY <1>6, <1>7, ReplacedHere
<1> QED
  BY <1>1, <1>3, <1>4, <1>5, <1>8

(* Only the row i of those at a sub-path has this on it. *)
IsAlone(es, sub, i, old) ==
    /\ i \in DOMAIN ElemsAt(es, sub) /\ ElemsAt(es, sub)[i].text = old
    /\ \A j \in DOMAIN ElemsAt(es, sub) : ElemsAt(es, sub)[j].text = old => j = i

(* Where what is typed for the row i goes: in its place, or behind the rows. *)
Place(rows, i) == IF rows[i].obj THEN Behind(DOMAIN rows) ELSE i

LEMMA EditedRows ==
    ASSUME NEW es, RowsInert(es), NEW sub, NEW i, NEW old, IsAlone(es, sub, i, old),
           NEW new \in Texts
    PROVE  /\ Place(ElemsAt(es, sub), i) \in Numbers
           /\ ElemsAt(es, sub)[i].obj => Place(ElemsAt(es, sub), i) # i
           /\ UpdatedAt(es, sub, old, new)
                 = PutRow(es, PlaceAt(es, sub) \o <<Place(ElemsAt(es, sub), i)>>, EditedRow(new))
<1>1. PlacesAt(es, sub) # {}
  BY ElemsAtRow DEF IsAlone
<1>2. PICK q \in Seq(Numbers) : q = PlaceAt(es, sub)
  BY <1>1, PlaceIs
<1>3. PICK rows : rows = ElemsAt(es, sub)
  OBVIOUS
<1>4. rows = [k \in Kids(es, q) |-> es[q \o <<k>>]]
  BY <1>1, <1>2, <1>3 DEF ElemsAt, RowsUnder
<1>5. IsOnlyKid(es, q, i, old) /\ rows[i] = es[q \o <<i>>] /\ DOMAIN rows = Kids(es, q)
  BY <1>3, <1>4 DEF IsAlone, IsOnlyKid
<1>6. RowHolding(es, q, old) = (IF rows[i].obj THEN 0 ELSE i) /\ i # 0
  BY <1>5, RowHoldingIs
<1>7. i \in Kids(es, q) /\ i \in Numbers
  BY <1>5, KidPlace, RowsGood DEF IsOnlyKid
<1>8. PICK row : row = EditedRow(new)
  OBVIOUS
<1>9. UpdatedAt(es, sub, old, new) = UpdateBodyElems(es, q, old, new)
  BY <1>1, <1>2 DEF UpdatedAt
<1>10. CASE rows[i].obj
  <2>1. PICK place : place = Behind(Kids(es, q)) /\ place \in Numbers /\ i < place
    BY <1>7, KidsBehind
  <2>2. Place(rows, i) = place
    BY <1>5, <1>10, <2>1 DEF Place
  <2>3. UpdateBodyElems(es, q, old, new) = Added(es, q, row)
    BY <1>6, <1>8, <1>10 DEF UpdateBodyElems
  <2>4. Added(es, q, row) = PutRow(es, q \o <<place>>, row)
    BY <2>1 DEF Added
  <2>5. place # i
    BY <1>7, <2>1 DEF Numbers
  <2> QED
    BY <1>2, <1>3, <1>8, <1>9, <2>1, <2>2, <2>3, <2>4, <2>5
<1>11. CASE ~rows[i].obj
  <2>1. Place(rows, i) = i
    BY <1>11 DEF Place
  <2>2. UpdateBodyElems(es, q, old, new) = PutRow(es, q \o <<i>>, row)
    BY <1>6, <1>8, <1>11 DEF UpdateBodyElems
  <2> QED
    BY <1>2, <1>3, <1>7, <1>8, <1>9, <1>11, <2>1, <2>2
<1> QED
  BY <1>10, <1>11

(* What is typed is what is on the row. *)
LEMMA EditedText ==
    ASSUME NEW new \in Texts
    PROVE  Unescape(EditedRow(new).text) = IF ObjKey(new) # <<>> THEN ObjKey(new) ELSE new
<1>1. PICK key \in Texts : key = ObjKey(new)
  BY ObjKeyType
<1>2. Unescape(Escape(key)) = key /\ Unescape(Escape(new)) = new
  BY UnescapeEscape
<1>3. CASE key # <<>>
  BY <1>1, <1>2, <1>3 DEF EditedRow, NewObject, Object
<1>4. CASE key = <<>>
  BY <1>1, <1>2, <1>4 DEF EditedRow, TextLeaf, Line
<1> QED
  BY <1>1, <1>3, <1>4

PlainOf(rows) == [k \in DOMAIN rows |-> Unescape(rows[k].text)]

LEMMA PlainIs ==
    ASSUME NEW sub, NEW body
    PROVE  PlainTextsAt(sub, body) = PlainOf(ElemsAt(BodyToComposeChildren(body), sub))
BY DEF PlainTextsAt, PlainOf

LEMMA PlainEdited ==
    ASSUME NEW rows, NEW i, NEW row
    PROVE  PlainOf(Changed(rows, i, row)) = Changed(PlainOf(rows), i, Unescape(row.text))
<1>1. PICK D : D = DOMAIN rows
  OBVIOUS
<1>2. PICK after : after = Changed(rows, i, row)
  OBVIOUS
<1>3. after = [k \in D \cup {i} |-> IF k = i THEN row ELSE rows[k]]
  BY <1>1, <1>2 DEF Changed
<1>4. PlainOf(after) =
        [k \in D \cup {i} |-> IF k = i THEN Unescape(row.text) ELSE Unescape(rows[k].text)]
  BY <1>3 DEF PlainOf
<1>5. PlainOf(rows) = [k \in D |-> Unescape(rows[k].text)]
  BY <1>1 DEF PlainOf
<1>6. Changed(PlainOf(rows), i, Unescape(row.text)) =
        [k \in D \cup {i} |-> IF k = i THEN Unescape(row.text) ELSE Unescape(rows[k].text)]
  BY <1>5 DEF Changed
<1> QED
  BY <1>2, <1>4, <1>6

(* The top of a tree. *)
LEMMA TopPlace ==
    ASSUME NEW es, RowsInert(es)
    PROVE  PlacesAt(es, <<>>) = {<<>>} /\ PlaceAt(es, <<>>) = <<>>
           /\ ElemsAt(es, <<>>) = RowsUnder(es, <<>>)
<1>1. <<>> \in Seq(Numbers) /\ DOMAIN <<>> = {} /\ Len(<<>>) = 0
  BY EmptySeq, LenProperties
<1>2. <<>> \in PlacesAt(es, <<>>)
  BY <1>1 DEF PlacesAt
<1>3. ASSUME NEW p \in PlacesAt(es, <<>>)
      PROVE  p = <<>>
  <2>1. p \in Seq(Numbers) /\ Len(p) = 0
    BY <1>1, RowsGood DEF PlacesAt, Positions, Numbers
  <2> QED
    BY <2>1, EmptySeq
<1>4. PlacesAt(es, <<>>) = {<<>>}
  BY <1>2, <1>3
<1> QED
  BY <1>4 DEF PlaceAt, ElemsAt

(* One line is the tree of that line, and no line that of none. *)
LEMMA OneLine ==
    ASSUME NEW row, GoodRow(row)
    PROVE  /\ RowsInert(Lines(<<row>>)) /\ DOMAIN Lines(<<row>>) = {<<1>>}
           /\ Lines(<<row>>)[<<1>>] = row
<1>0. PICK rows : rows = <<row>>
  OBVIOUS
<1>1. rows = <<row>> /\ DOMAIN rows = {1} /\ rows[1] = row /\ Len(rows) = 1
  BY <1>0
<1>2. PICK D : D = {<<i>> : i \in DOMAIN rows} \cup {[q EXCEPT ![1] = @ + 1] : q \in DOMAIN <<>>}
  OBVIOUS
<1>7. PICK one : one = <<1>>
  OBVIOUS
<1>3. one = <<1>> /\ one[1] = 1
  BY <1>7
<1>4. D = {one}
  <2>1. DOMAIN <<>> = {}
    BY EmptySeq, LenProperties
  <2> QED
    BY <1>1, <1>2, <1>3, <2>1
<1>5. Lines(rows) = [p \in D |-> IF p[1] <= 1 THEN rows[p[1]]
                                 ELSE <<>>[[p EXCEPT ![1] = @ - 1]]]
  BY <1>1, <1>2 DEF Lines, Joined
<1>6. DOMAIN Lines(rows) = {one} /\ Lines(rows)[one] = row
  BY <1>1, <1>3, <1>4, <1>5
<1> QED
  BY <1>1, <1>3, <1>6, LinesInert

LEMMA NoLine == RowsInert(Lines(<<>>)) /\ DOMAIN Lines(<<>>) = {}
<1>1. PICK C : C = {<<i>> : i \in DOMAIN <<>>} \cup {[q EXCEPT ![1] = @ + Len(<<>>)] : q \in DOMAIN <<>>}
  OBVIOUS
<1>2. DOMAIN <<>> = {}
  BY EmptySeq, LenProperties
<1>3. C = {}
  BY <1>1, <1>2
<1>4. DOMAIN Lines(<<>>) = C
  BY <1>1 DEF Lines, Joined
<1> QED
  BY <1>3, <1>4, LinesInert

HasOneRow(es) == DOMAIN es = {<<1>>}

LEMMA OneLineKids ==
    ASSUME NEW es, RowsInert(es), HasOneRow(es)
    PROVE  Kids(es, <<>>) = {1} /\ ElemsAt(es, <<>>) = [k \in {1} |-> es[<<1>>]]
<1>0. DOMAIN es = {<<1>>}
  BY DEF HasOneRow
<1>4. 1 \in Numbers
  BY DEF Numbers
<1>1. PICK one \in Seq(Numbers) : one = <<1>>
  BY <1>4, SingleSeq
<1>2. PICK none \in Seq(Numbers) : none = <<>>
  BY EmptySeq
<1>3. none \o <<1>> = one
  BY <1>1, <1>2, ConcatEmptySeq
<1>5. 1 \in Kids(es, none)
  BY <1>0, <1>1, <1>3, <1>4, KidOfPlace
<1>6. ASSUME NEW k \in Kids(es, none)
      PROVE  k = 1
  <2>1. k \in Numbers /\ none \o <<k>> \in DOMAIN es
    BY <1>6, KidPlace, RowsGood
  <2>2. none \o <<k>> = none \o <<1>>
    BY <1>0, <1>1, <1>3, <2>1
  <2>3. Last(none \o <<k>>) = k /\ Last(none \o <<1>>) = 1
    BY <1>4, <2>1, FrontLast
  <2> QED
    BY <2>2, <2>3
<1>7. Kids(es, none) = {1}
  BY <1>5, <1>6
<1>8. RowsUnder(es, none) = [k \in {1} |-> es[one]]
  BY <1>3, <1>7 DEF RowsUnder
<1> QED
  BY <1>1, <1>2, <1>7, <1>8, TopPlace

(* What is on the rows of a body that is a text. *)
LEMMA TextRows ==
    ASSUME NEW t \in Texts
    PROVE  PlainTextsAt(<<>>, Text(t)) = IF t = <<>> THEN <<>> ELSE [k \in {1} |-> t]
<1>1. CASE t = <<>>
  <2>1. PICK es : es = Lines(<<>>) /\ RowsInert(es) /\ DOMAIN es = {}
    BY NoLine
  <2>2. BodyToComposeChildren(Text(t)) = es
    BY <1>1, <2>1 DEF BodyToComposeChildren, Text
  <2>3. Kids(es, <<>>) = {}
    BY <2>1 DEF Kids
  <2>4. DOMAIN ElemsAt(es, <<>>) = {}
    BY <2>1, <2>3, TopPlace DEF RowsUnder
  <2>5. PlainTextsAt(<<>>, Text(t)) = [k \in {} |-> Unescape(ElemsAt(es, <<>>)[k].text)]
    BY <2>2, <2>4 DEF PlainTextsAt
  <2> QED
    BY <1>1, <2>5
<1>2. CASE t # <<>>
  <2>1. PICK row : row = TextLeaf(t) /\ GoodRow(row)
    BY TextLeafGood
  <2>2. PICK es : es = Lines(<<row>>) /\ RowsInert(es) /\ DOMAIN es = {<<1>>} /\ es[<<1>>] = row
    BY <2>1, OneLine
  <2>3. BodyToComposeChildren(Text(t)) = es
    BY <1>2, <2>1, <2>2 DEF BodyToComposeChildren, Text
  <2>4. ElemsAt(es, <<>>) = [k \in {1} |-> row]
    BY <2>2, OneLineKids DEF HasOneRow
  <2>5. PlainTextsAt(<<>>, Text(t)) = [k \in {1} |-> Unescape(row.text)]
    BY <2>3, <2>4 DEF PlainTextsAt
  <2>6. Unescape(row.text) = t
    BY <2>1, UnescapeEscape DEF TextLeaf, Line
  <2> QED
    BY <1>2, <2>5, <2>6
<1> QED
  BY <1>1, <1>2

Typed(new) == IF ObjKey(new) # <<>> THEN ObjKey(new) ELSE new

LEMMA PutRowAt ==
    ASSUME NEW es, NEW p, NEW row
    PROVE  /\ DOMAIN es \subseteq DOMAIN PutRow(es, p, row) /\ p \in DOMAIN PutRow(es, p, row)
           /\ PutRow(es, p, row)[p] = row
BY DEF PutRow

(* Under a line of text there is nothing. *)
LEMMA NoPlaceUnderLine ==
    ASSUME NEW es, RowsInert(es), IsOneLine(es),
           NEW sub, Len(sub) \in Nat, Len(sub) # 0
    PROVE  PlacesAt(es, sub) = {}
<1> SUFFICES ASSUME NEW p \in PlacesAt(es, sub)
             PROVE  FALSE
  OBVIOUS
<1>1. PICK one : one = <<1>>
  OBVIOUS
<1>2. one[1] = 1 /\ DOMAIN one = {1} /\ Len(one) = 1
  BY <1>1
<1>9. DOMAIN es = {one} /\ ~es[one].obj
  BY <1>1 DEF IsOneLine
<1>3. p = one
  <2>1. p \in {one, <<>>} /\ Len(p) = Len(sub)
    BY <1>9 DEF PlacesAt
  <2>2. Len(<<>>) = 0
    BY EmptySeq, LenProperties
  <2> QED
    BY <2>1, <2>2
<1>4. p[1] = ObjectAt(es, SubSeq(p, 1, 1 - 1), sub[1])
  BY <1>2, <1>3 DEF PlacesAt
<1>5. PICK q : q = SubSeq(p, 1, 1 - 1)
  OBVIOUS
<1>6. PICK T : T = {k \in Kids(es, q) :
                      es[q \o <<k>>].obj /\ StripDisplay(es[q \o <<k>>].text) = sub[1]}
  OBVIOUS
<1>7. T = {}
  <2>1. ASSUME NEW k \in Kids(es, q)
        PROVE  ~es[q \o <<k>>].obj
    <3>1. q \o <<k>> \in DOMAIN es
      BY KidPlace, RowsGood
    <3>2. q \o <<k>> = one
      BY <1>9, <3>1
    <3> QED
      BY <1>9, <3>2
  <2> QED
    BY <1>6, <2>1
<1>8. ObjectAt(es, q, sub[1]) = 0
  BY <1>6, <1>7 DEF ObjectAt, FirstOf
<1> QED
  BY <1>2, <1>3, <1>4, <1>5, <1>8

(* The rows after an edit that leaves them a tree. *)
LEMMA PlainAfter ==
    ASSUME NEW es, RowsInert(es), NEW sub, NEW i, NEW old, IsAlone(es, sub, i, old),
           NEW new \in Texts
    PROVE  PlainOf(ElemsAt(UpdatedAt(es, sub, old, new), sub))
              = Changed(PlainOf(ElemsAt(es, sub)), Place(ElemsAt(es, sub), i), Typed(new))
<1>1. PICK rows : rows = ElemsAt(es, sub)
  OBVIOUS
<1>2. PlacesAt(es, sub) # {}
  BY ElemsAtRow DEF IsAlone
<1>3. PICK place \in Numbers : place = Place(rows, i)
  BY <1>1, EditedRows
<1>4. PICK row : row = EditedRow(new)
  OBVIOUS
<1>5. ElemsAt(UpdatedAt(es, sub, old, new), sub) = Changed(rows, place, row)
  <2>1. PICK es2 : es2 = UpdatedAt(es, sub, old, new)
    OBVIOUS
  <2>2. es2 = PutRow(es, PlaceAt(es, sub) \o <<place>>, row)
    BY <1>1, <1>3, <1>4, <2>1, EditedRows
  <2>3. GoodRow(row)
    BY <1>4, EditedRowGood
  <2>4. ElemsAt(es2, sub) = Changed(ElemsAt(es, sub), place, row)
    BY <1>2, <2>2, <2>3, EditedElems
  <2> QED
    BY <1>1, <2>1, <2>4
<1>6. PlainOf(Changed(rows, place, row)) = Changed(PlainOf(rows), place, Unescape(row.text))
  BY PlainEdited
<1>7. Unescape(row.text) = Typed(new)
  BY <1>4, EditedText DEF Typed
<1> QED
  BY <1>1, <1>3, <1>5, <1>6, <1>7

(* The rows after an edit that leaves one line, which is a text again. *)
LEMMA PlainAfterLine ==
    ASSUME NEW es, RowsInert(es), NEW i, NEW old, IsAlone(es, <<>>, i, old),
           NEW new \in Texts, IsOneLine(UpdatedAt(es, <<>>, old, new))
    PROVE  /\ Unescape(UpdatedAt(es, <<>>, old, new)[<<1>>].text) = new
           /\ DOMAIN ElemsAt(es, <<>>) = {i} /\ ~ElemsAt(es, <<>>)[i].obj
           /\ \/ PlainTextsAt(<<>>, Text(new)) = Changed(PlainOf(ElemsAt(es, <<>>)), i, Typed(new))
              \/ PlainTextsAt(<<>>, Text(new)) = <<>> /\ new = <<>>
<1>1. PICK es2 : es2 = UpdatedAt(es, <<>>, old, new)
  OBVIOUS
<1>2. PICK row : row = EditedRow(new)
  OBVIOUS
<1>3. PICK one : one = <<1>>
  OBVIOUS
<1>4. one[1] = 1
  BY <1>3
<1>5. DOMAIN es2 = {one} /\ ~es2[one].obj
  BY <1>1, <1>3 DEF IsOneLine
<1>6. PICK place \in Numbers :
        /\ place = Place(ElemsAt(es, <<>>), i)
        /\ ElemsAt(es, <<>>)[i].obj => place # i
  <2>1. PICK rows, none : rows = ElemsAt(es, none) /\ none = <<>>
    OBVIOUS
  <2>2. IsAlone(es, none, i, old)
    BY <2>1
  <2>3. Place(rows, i) \in Numbers
    BY <2>1, <2>2, EditedRows
  <2>4. rows[i].obj => Place(rows, i) # i
    BY <2>1, <2>2, EditedRows
  <2> QED
    BY <2>1, <2>3, <2>4
<1>7. PICK q \in Seq(Numbers) : q = PlaceAt(es, <<>>)
  BY TopPlace, EmptySeq
<1>8. es2 = PutRow(es, q \o <<place>>, row)
  BY <1>1, <1>2, <1>6, <1>7, EditedRows
<1>9. DOMAIN es \subseteq {one} /\ q \o <<place>> = one /\ es2[one] = row
  BY <1>5, <1>8, PutRowAt
<1>10. i \in DOMAIN ElemsAt(es, <<>>)
  BY DEF IsAlone
<1>11. q \o <<i>> \in DOMAIN es /\ i \in Numbers
  BY <1>7, <1>10, ElemsAtRow
<1>12. DOMAIN es = {<<1>>}
  BY <1>3, <1>9, <1>11
<1>13. place = i /\ ~ElemsAt(es, <<>>)[i].obj
  <2>1. q \o <<i>> = one
    BY <1>9, <1>11
  <2>2. Last(q \o <<i>>) = i /\ Last(q \o <<place>>) = place
    BY <1>11, FrontLast
  <2> QED
    BY <1>6, <1>9, <2>1, <2>2
<1>14. ElemsAt(es, <<>>) = [k \in {1} |-> es[<<1>>]]
  BY <1>12, OneLineKids DEF HasOneRow
<1>15. i = 1 /\ DOMAIN ElemsAt(es, <<>>) = {1}
  BY <1>10, <1>14
<1>16. ~row.obj
  BY <1>5, <1>9
<1>17. ObjKey(new) = <<>>
  BY <1>2, <1>16 DEF EditedRow, NewObject, Object
<1>18. Unescape(row.text) = new /\ Typed(new) = new
  BY <1>2, <1>17, EditedText DEF Typed
<1>19. PlainOf(ElemsAt(es, <<>>)) = [k \in {1} |-> Unescape(es[<<1>>].text)]
  BY <1>14 DEF PlainOf
<1>20. Changed(PlainOf(ElemsAt(es, <<>>)), 1, new) = [k \in {1} |-> new]
  BY <1>19 DEF Changed
<1>21. PlainTextsAt(<<>>, Text(new)) = IF new = <<>> THEN <<>> ELSE [k \in {1} |-> new]
  BY TextRows
<1>22. \/ PlainTextsAt(<<>>, Text(new)) = Changed(PlainOf(ElemsAt(es, <<>>)), i, Typed(new))
       \/ PlainTextsAt(<<>>, Text(new)) = <<>> /\ new = <<>>
  BY <1>15, <1>18, <1>20, <1>21
<1> QED
  BY <1>1, <1>3, <1>9, <1>13, <1>15, <1>18, <1>22

(* The body and its rows after an edit. *)
Lands(rows, after, i, new) ==
    \/ after = Changed(PlainOf(rows), Place(rows, i), Typed(new))
    \/ after = <<>> /\ new = <<>> /\ DOMAIN rows = {i} /\ ~rows[i].obj

(* The same as the property says it. *)
LandsFrom(rows, before, after, i, new) ==
    \/ after = [k \in DOMAIN rows \cup {IF rows[i].obj THEN Behind(DOMAIN rows) ELSE i} |->
                   IF k = IF rows[i].obj THEN Behind(DOMAIN rows) ELSE i
                   THEN IF ObjKey(new) # <<>> THEN ObjKey(new) ELSE new
                   ELSE before[k]]
    \/ after = <<>> /\ new = <<>> /\ DOMAIN rows = {i} /\ ~rows[i].obj

LEMMA LandsPlain ==
    ASSUME NEW rows, NEW after, NEW i, NEW new, Lands(rows, after, i, new)
    PROVE  LandsFrom(rows, PlainOf(rows), after, i, new)
<1>1. PICK place, words, before :
        place = Place(rows, i) /\ words = Typed(new) /\ before = PlainOf(rows)
  OBVIOUS
<1>2. DOMAIN before = DOMAIN rows
  BY <1>1 DEF PlainOf
<1>3. Changed(before, place, words)
        = [k \in DOMAIN rows \cup {place} |-> IF k = place THEN words ELSE before[k]]
  BY <1>2 DEF Changed
<1> QED
  BY <1>1, <1>3 DEF Lands, LandsFrom, Place, Typed

LEMMA LandsInTree ==
    ASSUME BodyInert(Body), Body.kind = "ffon", NEW i, NEW old,
           IsAlone(Body.rows, SubPath, i, old), NEW new \in Texts
    PROVE  Lands(ElemsAt(Body.rows, SubPath), PlainTextsAt(SubPath, EditedBody(old, new)), i, new)
<1>1. PICK es : es = Body.rows
  OBVIOUS
<1>2. RowsInert(es)
  BY <1>1, BodyParts
<1>3. PICK sub : sub = SubPath
  OBVIOUS
<1>4. IsAlone(es, sub, i, old)
  BY <1>1, <1>3
<1>5. PICK es2 : es2 = UpdatedAt(es, sub, old, new)
  OBVIOUS
<1>6. PlainOf(ElemsAt(es2, sub))
        = Changed(PlainOf(ElemsAt(es, sub)), Place(ElemsAt(es, sub), i), Typed(new))
  BY <1>2, <1>4, <1>5, PlainAfter
<1>7. PlainTextsAt(sub, Ffon(es2)) = PlainOf(ElemsAt(es2, sub))
  <2>1. BodyToComposeChildren(Ffon(es2)) = es2
    BY DEF BodyToComposeChildren, Ffon
  <2> QED
    BY <2>1, PlainIs
<1>8. CASE sub # <<>>
  <2>1. EditedBody(old, new) = Ffon(es2)
    BY <1>1, <1>3, <1>5, <1>8 DEF EditedBody
  <2> QED
    BY <1>1, <1>3, <1>6, <1>7, <2>1 DEF Lands
<1>9. CASE sub = <<>>
  <2>1. es2 = UpdateBodyElems(es, <<>>, old, new)
    BY <1>2, <1>5, <1>9, TopPlace DEF UpdatedAt
  <2>2. UpdateBodyLeaf(Body, old, new) = Ffon(es2)
    BY <1>1, <2>1 DEF UpdateBodyLeaf
  <2>3. DetectBodyFormatLive(Ffon(es2)) = Ffon(es2)
    BY DEF DetectBodyFormatLive, Ffon
  <2>4. EditedBody(old, new) = RenormalizeBodyVariant(Ffon(es2))
    BY <1>3, <1>9, <2>2, <2>3 DEF EditedBody
  <2>5. CASE RenormalizeBodyVariant(Ffon(es2)) = Ffon(es2)
    BY <1>1, <1>3, <1>6, <1>7, <2>4, <2>5 DEF Lands
  <2>6. CASE RenormalizeBodyVariant(Ffon(es2)) # Ffon(es2)
    <3>1. IsOneLine(es2) /\ RenormalizeBodyVariant(Ffon(es2)) = Text(Unescape(es2[<<1>>].text))
      BY <2>6 DEF RenormalizeBodyVariant, Ffon
    <3>2. IsAlone(es, <<>>, i, old) /\ es2 = UpdatedAt(es, <<>>, old, new)
      BY <1>4, <1>5, <1>9
    <3>3. /\ Unescape(es2[<<1>>].text) = new
          /\ DOMAIN ElemsAt(es, <<>>) = {i} /\ ~ElemsAt(es, <<>>)[i].obj
          /\ \/ PlainTextsAt(<<>>, Text(new)) = Changed(PlainOf(ElemsAt(es, <<>>)), i, Typed(new))
             \/ PlainTextsAt(<<>>, Text(new)) = <<>> /\ new = <<>>
      BY <1>2, <3>1, <3>2, PlainAfterLine
    <3>4. EditedBody(old, new) = Text(new)
      BY <2>4, <3>1, <3>3
    <3> QED
      BY <1>1, <1>3, <1>9, <3>3, <3>4 DEF Lands, Place
  <2> QED
    BY <2>5, <2>6
<1> QED
  BY <1>8, <1>9

LEMMA LandsInText ==
    ASSUME BodyInert(Body), Body.kind = "text", Len(SubPath) \in Nat,
           SubPath # <<>> => Len(SubPath) # 0, NEW i, NEW old, old # <<>>,
           IsAlone(BodyToComposeChildren(Body), SubPath, i, old),
           NEW new \in Texts, ObjKey(new) = <<>>, ~IsTree(new)
    PROVE  Lands(ElemsAt(BodyToComposeChildren(Body), SubPath),
                 PlainTextsAt(SubPath, EditedBody(old, new)), i, new)
<1>1. PICK t \in Texts : t = Body.text
  BY BodyParts
<1>2. PICK es : es = BodyToComposeChildren(Body)
  OBVIOUS
<1>3. i \in DOMAIN ElemsAt(es, SubPath)
  BY <1>2 DEF IsAlone
<1>4. RowsInert(es)
  BY <1>2, ChildrenInert
<1>5. PlacesAt(es, SubPath) # {} /\ PlaceAt(es, SubPath) \o <<i>> \in DOMAIN es
  BY <1>3, <1>4, ElemsAtRow
<1>6. t # <<>>
  <2> SUFFICES ASSUME t = <<>>
               PROVE  FALSE
    OBVIOUS
  <2>1. es = Lines(<<>>)
    BY <1>1, <1>2 DEF BodyToComposeChildren
  <2> QED
    BY <1>5, <2>1, NoLine
<1>7. PICK row : row = TextLeaf(t) /\ GoodRow(row)
  BY TextLeafGood
<1>8. DOMAIN es = {<<1>>} /\ es[<<1>>] = row
  <2>1. es = Lines(<<row>>)
    BY <1>1, <1>2, <1>6, <1>7 DEF BodyToComposeChildren
  <2> QED
    BY <1>7, <2>1, OneLine
<1>9. SubPath = <<>>
  <2>1. ~es[<<1>>].obj
    BY <1>7, <1>8 DEF TextLeaf, Line
  <2> QED
    BY <1>4, <1>5, <1>8, <2>1, NoPlaceUnderLine DEF IsOneLine
<1>10. EditedBody(old, new) = Text(new)
  <2>1. UpdateBodyLeaf(Body, old, new) = Text(new)
    BY DEF UpdateBodyLeaf
  <2>2. DetectBodyFormatLive(Text(new)) = Text(new)
    BY DEF DetectBodyFormatLive, Text
  <2>3. RenormalizeBodyVariant(Text(new)) = Text(new)
    BY DEF RenormalizeBodyVariant, Text
  <2> QED
    BY <1>9, <2>1, <2>2, <2>3 DEF EditedBody
<1>11. ElemsAt(es, <<>>) = [k \in {1} |-> es[<<1>>]]
  BY <1>4, <1>8, OneLineKids DEF HasOneRow
<1>12. i = 1 /\ DOMAIN ElemsAt(es, <<>>) = {1} /\ ~ElemsAt(es, <<>>)[1].obj
  <2>1. ~es[<<1>>].obj
    BY <1>7, <1>8 DEF TextLeaf, Line
  <2> QED
    BY <1>3, <1>9, <1>11, <2>1
<1>13. PlainOf(ElemsAt(es, <<>>)) = [k \in {1} |-> Unescape(es[<<1>>].text)]
  BY <1>11 DEF PlainOf
<1>14. Changed(PlainOf(ElemsAt(es, <<>>)), 1, new) = [k \in {1} |-> new]
  BY <1>13 DEF Changed
<1>15. PlainTextsAt(<<>>, Text(new)) = IF new = <<>> THEN <<>> ELSE [k \in {1} |-> new]
  BY TextRows
<1>16. Typed(new) = new
  BY DEF Typed
<1> QED
  BY <1>2, <1>9, <1>10, <1>12, <1>14, <1>15, <1>16 DEF Lands, Place

LEMMA EditLands ==
    ASSUME DraftsInv, PathsInv
    PROVE  EditLandsOnRow
<1>1. FormInv(form) /\ world \in Worlds /\ BodyInert(Body)
  BY DraftParts DEF DraftsInv
<1>2. PICK es : es = BodyToComposeChildren(Body) /\ RowsInert(es)
  BY <1>1, ChildrenInert
<1>3. RowsHere = ElemsAt(es, SubPath)
  BY <1>2 DEF RowsHere
<1>4. PlainTextsAt(SubPath, Body) = PlainOf(RowsHere)
  BY <1>2, <1>3, PlainIs
<1>5. ASSUME BodyPos # 0
      PROVE  Len(SubPath) \in Nat /\ (SubPath # <<>> => Len(SubPath) # 0)
  <2>1. path \in Seq(Segments)
    BY DEF PathsInv, Segments
  <2>2. BodyPos \in 1..Len(path) /\ Len(path) \in Nat
    BY <1>5, <2>1, BodyPosIs DEF Segments
  <2>6. PICK n \in Nat : n = Len(path)
    BY <2>2
  <2>7. PICK m \in Nat : m = BodyPos + 1 /\ m >= 1
    BY <2>2
  <2>3. \A i \in m..n : path[i] \in Segments
    BY <2>1, <2>6, <2>7, ElementOfSeq
  <2>4. SubSeq(path, m, n) \in Seq(Segments)
    BY <2>3, SubSeqProperties
  <2>5. SubPath \in Seq(Segments)
    BY <2>4, <2>6, <2>7 DEF SubPath
  <2> QED
    BY <2>5, EmptySeq, LenProperties
<1>6. ASSUME BodyPos # 0, NEW i \in DOMAIN RowsHere, RowsHere[i].text # <<>>,
             NEW typed \in world.typed \cup {RowsHere[i].text}, NEW new, new = TypedValue(RowsHere[i].text, typed),
             \A j \in DOMAIN RowsHere : RowsHere[j].text = RowsHere[i].text => j = i,
             Body.kind = "ffon" \/ (ObjKey(new) = <<>> /\ ~IsTree(new))
      PROVE  Lands(RowsHere, PlainTextsAt(SubPath, EditedBody(RowsHere[i].text, new)), i, new)
  <2>1. PICK old \in Texts : old = RowsHere[i].text
    BY <1>1, LineHere
  <2>2. new \in Texts
    <3>1. typed \in Texts
      BY <1>1, <2>1, WorldsAssumption
    <3> QED
      BY <1>6, <2>1, <3>1, TypedValueType
  <2>3. IsAlone(es, SubPath, i, old)
    BY <1>3, <1>6, <2>1 DEF IsAlone
  <2>4. CASE Body.kind = "ffon"
    <3>1. es = Body.rows
      BY <1>2, <2>4 DEF BodyToComposeChildren
    <3>2. Lands(ElemsAt(es, SubPath), PlainTextsAt(SubPath, EditedBody(old, new)), i, new)
      BY <1>1, <2>2, <2>3, <2>4, <3>1, LandsInTree
    <3> QED
      BY <1>3, <2>1, <3>2
  <2>5. CASE Body.kind # "ffon"
    <3>1. Body.kind = "text"
      BY <1>1, <2>5, BodyParts
    <3>2. IsAlone(BodyToComposeChildren(Body), SubPath, i, old) /\ old # <<>>
      BY <1>2, <1>6, <2>1, <2>3
    <3>3. Lands(ElemsAt(BodyToComposeChildren(Body), SubPath),
                PlainTextsAt(SubPath, EditedBody(old, new)), i, new)
      BY <1>1, <1>5, <1>6, <2>2, <2>5, <3>1, <3>2, LandsInText
    <3> QED
      BY <1>2, <1>3, <2>1, <3>3
  <2> QED
    BY <2>4, <2>5
<1>7. ASSUME BodyPos # 0, NEW i \in {j \in EditableHere : RowsHere[j].text # <<>>},
             NEW typed \in world.typed \cup {RowsHere[i].text},
             /\ \A j \in DOMAIN RowsHere : RowsHere[j].text = RowsHere[i].text => j = i
             /\ \/ Body.kind = "ffon"
                \/ /\ ObjKey(TypedValue(RowsHere[i].text, typed)) = <<>>
                   /\ ~IsTree(TypedValue(RowsHere[i].text, typed))
      PROVE  LandsFrom(RowsHere, PlainTextsAt(SubPath, Body),
                PlainTextsAt(SubPath, EditedBody(RowsHere[i].text, TypedValue(RowsHere[i].text, typed))),
                i, TypedValue(RowsHere[i].text, typed))
  <2>1. PICK new : new = TypedValue(RowsHere[i].text, typed)
    OBVIOUS
  <2>2. PICK after : after = PlainTextsAt(SubPath, EditedBody(RowsHere[i].text, new))
    OBVIOUS
  <2>3. Lands(RowsHere, after, i, new)
    BY <1>6, <1>7, <2>1, <2>2 DEF EditableHere
  <2>4. LandsFrom(RowsHere, PlainOf(RowsHere), after, i, new)
    BY <2>3, LandsPlain
  <2> QED
    BY <1>4, <2>1, <2>2, <2>4
<1> QED
  BY <1>7, Zenon DEF EditLandsOnRow, LandsFrom

(* An edit of a line changes that line to what was typed, an edit of an       *)
(* object's key adds what was typed behind the rows and leaves the object as  *)
(* it is, and neither changes another row, in any body, at any depth: the     *)
(* path the edit is found by leads where it led, and what was typed comes     *)
(* back from its row as it was (commit_edit, update_body_elems).              *)
THEOREM EditsLandOnRow == Spec => []EditLandsOnRow
<1>1. Init => DraftsInv /\ PathsInv
  BY InitDrafts, InitPaths
<1>2. DraftsInv /\ PathsInv /\ [Next]_vars => (DraftsInv /\ PathsInv)'
  BY DraftsStep, PathsStep DEF PathsInv
<1>3. DraftsInv /\ PathsInv => EditLandsOnRow
  BY EditLands
<1> QED
  BY <1>1, <1>2, <1>3, PTL DEF Spec

===============================================================================
