------------------------ MODULE ConfigurationProofs ------------------------
(***************************************************************************)
(* Proofs about Configuration, for any environment and command line: the   *)
(* types, that the operator starts with the documented settings up to the  *)
(* two known exceptions, and that what it derives comes from the settings  *)
(* of one moment.                                                          *)
(***************************************************************************)
EXTENDS Configuration, SequenceTheorems, NaturalsInduction, WellFoundedInduction, TLAPS

Parts == Texts \ {""}
WordParts == Words \ {""}

\* A set of naturals that is not empty has a least element.
LEMMA LeastNatural ==
  ASSUME NEW T \in SUBSET Nat, T # {}
  PROVE  \E n \in T : \A m \in T : n <= m
<1>1. IsWellFoundedOn(OpToRel(<, Nat), Nat)
  BY NatLessThanWellFounded
<1>2. PICK n \in T : \A m \in T : ~(<<m, n>> \in OpToRel(<, Nat))
  BY <1>1, WFMin
<1>3. \A m \in T : ~(m < n)
  BY <1>2 DEF OpToRel
<1> QED
  BY <1>3

-----------------------------------------------------------------------------
(***************************************************************************)
(* Putting sequences together, as strings.Join and the loop of             *)
(* splitCommaList do.  What holds of the first sequence and is kept by     *)
(* every round holds in the end: by the least round at which it fails.     *)
(***************************************************************************)

\* f[i] is the result of the first i sequences of s.
Rounds(f, s, m) ==
  /\ f = [i \in 1 .. m |-> f[i]]
  /\ f[1] = s[1]
  /\ \A i \in 2 .. m : f[i] = f[i - 1] \o s[i]

LEMMA RoundsExist ==
  ASSUME NEW s, Len(s) \in Nat \ {0}
  PROVE  \E f : Rounds(f, s, Len(s))
<1> DEFINE T == {m \in 1 .. Len(s) : ~\E f : Rounds(f, s, m)}
<1>1. ASSUME T # {} PROVE FALSE
  <2>1. PICK m \in T : \A n \in T : m <= n
    <3>1. T \in SUBSET Nat
      OBVIOUS
    <3> QED
      BY <1>1, <3>1, LeastNatural
  <2>2. m # 1
    <3> DEFINE f == [i \in 1 .. 1 |-> s[1]]
    <3>1. Rounds(f, s, 1)
      BY DEF Rounds
    <3> QED
      BY <2>1, <3>1
  <2>3. m - 1 \in 1 .. Len(s) /\ m - 1 \notin T /\ m \in Nat /\ 1 \in 1 .. m - 1
    BY <2>1, <2>2
  <2>4. PICK f : Rounds(f, s, m - 1)
    BY <2>3
  <2> DEFINE g == [i \in 1 .. m |-> IF i = m THEN f[m - 1] \o s[m] ELSE f[i]]
  <2>5. g = [i \in 1 .. m |-> g[i]] /\ g[1] = s[1]
    BY <2>2, <2>3, <2>4 DEF Rounds
  <2>6. ASSUME NEW i \in 2 .. m PROVE g[i] = g[i - 1] \o s[i]
    <3>1. i \in 1 .. m /\ i - 1 \in 1 .. m /\ i - 1 # m
      BY <2>3
    <3>2. g[i - 1] = f[i - 1]
      BY <3>1
    <3>3. CASE i = m
      BY <3>1, <3>2, <3>3
    <3>4. CASE i # m
      <4>1. i \in 2 .. m - 1
        BY <2>3, <3>4
      <4> QED
        BY <2>4, <3>1, <3>2, <3>4, <4>1 DEF Rounds
    <3> QED
      BY <3>3, <3>4
  <2> HIDE DEF g
  <2>7. Rounds(g, s, m)
    BY <2>5, <2>6 DEF Rounds
  <2> QED
    BY <2>1, <2>7
<1>2. Len(s) \in 1 .. Len(s)
  OBVIOUS
<1> QED
  BY <1>1, <1>2

\* The result is that of the last round.
LEMMA FlattenIs ==
  ASSUME NEW s, Len(s) \in Nat \ {0}
  PROVE  \E f : Rounds(f, s, Len(s)) /\ FlattenSeq(s) = f[Len(s)]
<1> DEFINE n == Len(s)
           Is(f) == f = [i \in 1 .. n |-> IF i = 1 THEN s[i] ELSE f[i - 1] \o s[i]]
           out == CHOOSE f : Is(f)
<1>1. FlattenSeq(s) = out[n]
  BY DEF FlattenSeq
<1>2. PICK f : Rounds(f, s, n)
  BY RoundsExist
<1> DEFINE After(g, i) == IF i = 1 THEN s[i] ELSE g[i - 1] \o s[i]
<1>3. \A g : Is(g) <=> g = [i \in 1 .. n |-> After(g, i)]
  OBVIOUS
<1>4. \A g : After(g, 1) = s[1] /\ \A i \in 2 .. n : After(g, i) = g[i - 1] \o s[i]
  <2>1. \A i \in 2 .. n : i # 1
    OBVIOUS
  <2> QED
    BY <2>1, Zenon
<1>5. n \in Nat \ {0}
  OBVIOUS
<1> HIDE DEF After, Is, n, out
<1>6. \A g : Is(g) <=> Rounds(g, s, n)
  <2> SUFFICES ASSUME NEW g PROVE (g = [i \in 1 .. n |-> After(g, i)]) <=> Rounds(g, s, n)
    BY <1>3
  <2>1. ASSUME g = [i \in 1 .. n |-> After(g, i)] PROVE Rounds(g, s, n)
    <3>1. 1 \in 1 .. n /\ \A i \in 2 .. n : i \in 1 .. n
      BY <1>5
    <3>2. \A i \in 1 .. n : g[i] = After(g, i)
      BY <2>1, Zenon
    <3>3. g = [i \in 1 .. n |-> g[i]]
      BY <2>1, <3>2, Zenon
    <3> QED
      BY <1>4, <3>1, <3>2, <3>3, Zenon DEF Rounds
  <2>2. ASSUME Rounds(g, s, n) PROVE g = [i \in 1 .. n |-> After(g, i)]
    <3>1. \A i \in 1 .. n : i = 1 \/ i \in 2 .. n
      BY <1>5
    <3>2. \A i \in 1 .. n : g[i] = After(g, i)
      BY <1>4, <2>2, <3>1, Zenon DEF Rounds
    <3> QED
      BY <2>2, <3>2, Zenon DEF Rounds
  <2> QED
    BY <2>1, <2>2
<1>7. Rounds(out, s, n)
  <2>1. Is(out)
    BY <1>2, <1>6, Zenon DEF out
  <2> QED
    BY <1>6, <2>1, Zenon
<1> QED
  BY <1>1, <1>7 DEF n

\* The elements come from the sequences put together.
LEMMA FlattenType ==
  ASSUME NEW A, NEW s \in Seq(Seq(A))
  PROVE  FlattenSeq(s) \in Seq(A)
<1>1. CASE Len(s) = 0
  <2>1. s = <<>> /\ <<>> \in Seq(A)
    BY <1>1, EmptySeq
  <2> QED
    BY <1>1, <2>1, Zenon DEF FlattenSeq
<1>2. CASE Len(s) # 0
  <2> DEFINE n == Len(s)
  <2>1. n \in Nat \ {0} /\ \A i \in 1 .. n : s[i] \in Seq(A)
    BY <1>2, LenProperties, ElementOfSeq
  <2>2. PICK f : Rounds(f, s, n) /\ FlattenSeq(s) = f[n]
    BY <2>1, FlattenIs
  <2> DEFINE T == {i \in 1 .. n : f[i] \notin Seq(A)}
  <2> HIDE DEF n
  <2>3. ASSUME T # {} PROVE FALSE
    <3>1. T \in SUBSET Nat
      BY <2>1
    <3>2. PICK i \in T : \A m \in T : i <= m
      BY <2>3, <3>1, LeastNatural
    <3>3. i # 1
      BY <2>1, <2>2, <3>2 DEF Rounds
    <3>4. i \in 1 .. n /\ i \in 2 .. n /\ i - 1 \in 1 .. n /\ ~(i <= i - 1)
      BY <2>1, <3>2, <3>3
    <3>5. f[i - 1] \in Seq(A) /\ s[i] \in Seq(A)
      BY <2>1, <3>2, <3>4
    <3>6. f[i] = f[i - 1] \o s[i]
      BY <2>2, <3>4 DEF Rounds
    <3>7. f[i - 1] \o s[i] \in Seq(A)
      <4> DEFINE a == f[i - 1]
                 b == s[i]
      <4>1. a \in Seq(A) /\ b \in Seq(A)
        BY <3>5
      <4> HIDE DEF a, b
      <4>2. a \o b \in Seq(A)
        BY <4>1, ConcatProperties
      <4> QED
        BY <4>2 DEF a, b
    <3> QED
      BY <3>2, <3>6, <3>7
  <2>4. n \in 1 .. n
    BY <2>1
  <2> QED
    BY <2>2, <2>3, <2>4
<1> QED
  BY <1>1, <1>2

\* Sequences of one element each give the sequence of these elements.
LEMMA FlattenSingles ==
  ASSUME NEW A, NEW v \in Seq(A), NEW s \in Seq(Seq(A)), Len(s) = Len(v),
         \A i \in 1 .. Len(v) : s[i] = <<v[i]>>
  PROVE  FlattenSeq(s) = v
<1> DEFINE n == Len(v)
           Same(t, i) == t \in Seq(A) /\ Len(t) = i /\ \A j \in 1 .. i : t[j] = v[j]
<1>1. n \in Nat /\ \A i \in 1 .. n : v[i] \in A
  BY LenProperties, ElementOfSeq
<1>2. CASE n = 0
  <2>1. s = v
    BY <1>2, EmptySeq
  <2> QED
    BY <1>2, <2>1, Zenon DEF FlattenSeq
<1>3. CASE n # 0
  <2>1. n \in Nat \ {0} /\ Len(s) = n
    BY <1>1, <1>3
  <2>2. PICK f : Rounds(f, s, n) /\ FlattenSeq(s) = f[n]
    BY <2>1, FlattenIs
  <2>3. \A i \in 1 .. n : s[i] = <<v[i]>>
    OBVIOUS
  <2> DEFINE T == {i \in 1 .. n : ~Same(f[i], i)}
  <2> HIDE DEF n
  <2>4. ASSUME T # {} PROVE FALSE
    <3>1. T \in SUBSET Nat
      BY <2>1
    <3>2. PICK i \in T : \A m \in T : i <= m
      BY <2>4, <3>1, LeastNatural
    <3>3. i # 1
      <4> DEFINE e == v[1]
      <4>1. 1 \in 1 .. n
        BY <2>1
      <4>2. f[1] = <<e>> /\ e \in A
        BY <1>1, <2>2, <2>3, <4>1 DEF Rounds
      <4> HIDE DEF e
      <4>3. <<e>> \in Seq(A) /\ Len(<<e>>) = 1 /\ <<e>>[1] = e
        BY <4>2
      <4>4. \A j \in 1 .. 1 : j = 1
        OBVIOUS
      <4>5. Same(<<e>>, 1)
        BY <4>3, <4>4 DEF e
      <4> QED
        BY <3>2, <4>2, <4>5
    <3>4. i \in 1 .. n /\ i \in 2 .. n /\ i - 1 \in 1 .. n /\ i - 1 \in Nat /\ ~(i <= i - 1)
      BY <2>1, <3>2, <3>3
    <3>5. Same(f[i - 1], i - 1)
      BY <3>2, <3>4
    <3> DEFINE t == f[i - 1]
               e == v[i]
               a == t \o <<e>>
    <3>6. t \in Seq(A) /\ Len(t) = i - 1 /\ (\A j \in 1 .. i - 1 : t[j] = v[j]) /\ e \in A
      BY <1>1, <3>4, <3>5
    <3>7. f[i] = a
      BY <2>2, <2>3, <3>4 DEF Rounds
    <3>8. e = v[i]
      OBVIOUS
    <3> HIDE DEF t, e
    <3>9. <<e>> \in Seq(A) /\ Len(<<e>>) = 1 /\ <<e>>[1] = e
      BY <3>6
    <3>10. a \in Seq(A) /\ Len(a) = Len(t) + 1
           /\ (\A j \in 1 .. Len(t) + 1 : a[j] = IF j <= Len(t) THEN t[j] ELSE <<e>>[j - Len(t)])
      BY <3>6, <3>9, ConcatProperties
    <3> HIDE DEF a
    <3>11. Len(a) = i
      BY <3>4, <3>6, <3>10
    <3>12. ASSUME NEW j \in 1 .. i PROVE a[j] = v[j]
      <4>1. CASE j = i
        <5>1. a[j] = <<e>>[1]
          <6>1. j \in 1 .. Len(t) + 1 /\ ~(j <= Len(t)) /\ j - Len(t) = 1
            BY <3>4, <3>6, <4>1
          <6> QED
            BY <3>10, <6>1
        <5> QED
          BY <3>8, <3>9, <4>1, <5>1
      <4>2. CASE j # i
        <5>1. j \in 1 .. Len(t) + 1 /\ j <= Len(t) /\ j \in 1 .. i - 1
          BY <3>4, <3>6, <4>2
        <5> QED
          BY <3>6, <3>10, <5>1
      <4> QED
        BY <4>1, <4>2
    <3>13. Same(a, i)
      BY <3>10, <3>11, <3>12
    <3> QED
      BY <3>2, <3>7, <3>13
  <2>5. n \in 1 .. n
    BY <2>1
  <2>6. Same(f[n], n)
    BY <2>4, <2>5
  <2> DEFINE w == f[n]
  <2>7. w \in Seq(A) /\ Len(w) = Len(v) /\ \A j \in 1 .. Len(v) : w[j] = v[j]
    BY <2>6 DEF n
  <2> HIDE DEF w
  <2>8. w = v
    BY <2>7, SeqEqual
  <2> QED
    BY <2>2, <2>8 DEF w
<1> QED
  BY <1>2, <1>3

\* The same for a function on the indices.
LEMMA SinglesOf ==
  ASSUME NEW A, NEW v \in Seq(A), NEW s, s = [i \in 1 .. Len(v) |-> s[i]],
         \A i \in 1 .. Len(v) : s[i] = <<v[i]>>
  PROVE  FlattenSeq(s) = v
<1> DEFINE n == Len(v)
<1>1. n \in Nat /\ \A i \in 1 .. n : v[i] \in A
  BY LenProperties, ElementOfSeq
<1>2. ASSUME NEW i \in 1 .. n PROVE s[i] \in Seq(A)
  <2> DEFINE e == v[i]
  <2>1. e \in A /\ s[i] = <<e>>
    BY <1>1
  <2> HIDE DEF e
  <2>2. <<e>> \in Seq(A)
    BY <2>1
  <2> QED
    BY <2>1, <2>2
<1>3. s \in [1 .. n -> Seq(A)]
  BY <1>2, Zenon
<1>4. s \in Seq(Seq(A)) /\ Len(s) = n
  <2>1. s \in Seq(Seq(A))
    BY <1>1, <1>3
  <2>2. DOMAIN s = 1 .. n
    BY <1>3
  <2>3. DOMAIN s = 1 .. Len(s) /\ Len(s) \in Nat
    BY <2>1, LenProperties
  <2> HIDE DEF n
  <2> QED
    BY <1>1, <2>1, <2>2, <2>3
<1> QED
  BY <1>4, FlattenSingles

-----------------------------------------------------------------------------
(***************************************************************************)
(* Join and splitCommaList.                                                *)
(***************************************************************************)
\* The non-blank parts of a list.
LEMMA NonBlankType ==
  ASSUME NEW A, NEW v \in Seq(A)
  PROVE  NonBlank(v) \in Seq(A \ {""})
<1> DEFINE n == Len(v)
           B == A \ {""}
           s == [i \in DOMAIN v |-> IF v[i] = "" THEN <<>> ELSE <<v[i]>>]
<1>1. n \in Nat /\ DOMAIN v = 1 .. n /\ \A i \in 1 .. n : v[i] \in A
  BY LenProperties, ElementOfSeq
<1>2. ASSUME NEW i \in 1 .. n PROVE (IF v[i] = "" THEN <<>> ELSE <<v[i]>>) \in Seq(B)
  <2> DEFINE e == v[i]
  <2>1. e \in A
    BY <1>1
  <2> HIDE DEF e
  <2>2. CASE e = ""
    <3>1. <<>> \in Seq(B)
      OBVIOUS
    <3> QED
      BY <2>2, <3>1, Zenon DEF e
  <2>3. CASE e # ""
    <3>1. e \in B
      BY <2>1, <2>3
    <3> HIDE DEF s, B
    <3>2. <<e>> \in Seq(B)
      BY <3>1
    <3> QED
      BY <2>3, <3>2, Zenon DEF e
  <2> QED
    BY <2>2, <2>3
<1>3. s \in [1 .. n -> Seq(B)]
  BY <1>1, <1>2, Zenon
<1>4. NonBlank(v) = FlattenSeq(s)
  BY Zenon DEF NonBlank
<1> HIDE DEF s, B, n
<1>5. s \in Seq(Seq(B))
  BY <1>1, <1>3
<1> QED
  BY <1>4, <1>5, FlattenType DEF B

\* A list without blank parts loses none.
LEMMA NonBlankKeeps ==
  ASSUME NEW A, "" \notin A, NEW v \in Seq(A)
  PROVE  NonBlank(v) = v
<1> DEFINE n == Len(v)
           s == [i \in DOMAIN v |-> IF v[i] = "" THEN <<>> ELSE <<v[i]>>]
<1>1. n \in Nat /\ DOMAIN v = 1 .. n /\ \A i \in 1 .. n : v[i] \in A
  BY LenProperties, ElementOfSeq
<1>2. \A i \in 1 .. n : v[i] # ""
  BY <1>1
<1>3. DOMAIN s = 1 .. n /\ \A i \in 1 .. n : s[i] = <<v[i]>>
  BY <1>1, <1>2, Zenon
<1>4. NonBlank(v) = FlattenSeq(s) /\ s = [i \in 1 .. n |-> s[i]]
  BY <1>1, Zenon DEF NonBlank
<1> HIDE DEF s
<1>5. FlattenSeq(s) = v
  BY <1>1, <1>3, <1>4, SinglesOf
<1> QED
  BY <1>4, <1>5

\* The pieces of a joined list are words; words stay as they are.
LEMMA JoinType ==
  ASSUME NEW list \in Seq(Texts)
  PROVE  Join(list) \in Seq(Words)
<1> DEFINE n == Len(list)
           s == [i \in DOMAIN list |-> Pieces[list[i]]]
<1>1. n \in Nat /\ DOMAIN list = 1 .. n /\ \A i \in 1 .. n : list[i] \in Texts
  BY LenProperties, ElementOfSeq
<1>2. \A i \in 1 .. n : Pieces[list[i]] \in Seq(Words)
  BY <1>1, ConfigurationAssumption
<1>3. s \in [1 .. n -> Seq(Words)]
  BY <1>1, <1>2, Zenon
<1>4. Join(list) = FlattenSeq(s)
  BY Zenon DEF Join
<1> HIDE DEF s, n
<1>5. s \in Seq(Seq(Words))
  BY <1>1, <1>3
<1> QED
  BY <1>4, <1>5, FlattenType

LEMMA JoinKeeps ==
  ASSUME NEW list \in Seq(Words)
  PROVE  Join(list) = list
<1> DEFINE n == Len(list)
           s == [i \in DOMAIN list |-> Pieces[list[i]]]
<1>1. n \in Nat /\ DOMAIN list = 1 .. n /\ \A i \in 1 .. n : list[i] \in Words
  BY LenProperties, ElementOfSeq
<1>2. \A i \in 1 .. n : Pieces[list[i]] = <<list[i]>>
  BY <1>1 DEF Words
<1>3. DOMAIN s = 1 .. n /\ \A i \in 1 .. n : s[i] = <<list[i]>>
  BY <1>1, <1>2, Zenon
<1>4. Join(list) = FlattenSeq(s) /\ s = [i \in 1 .. n |-> s[i]]
  BY <1>1, Zenon DEF Join
<1> HIDE DEF s
<1>5. FlattenSeq(s) = list
  BY <1>1, <1>3, <1>4, SinglesOf
<1> QED
  BY <1>4, <1>5

-----------------------------------------------------------------------------
(***************************************************************************)
(* Settings.                                                               *)
(***************************************************************************)
ConfigOK(c) ==
  /\ c = [f \in Settings |-> c[f]]
  /\ \A f \in Bools : c[f] \in BOOLEAN
  /\ \A f \in Strings : c[f] \in Texts
  /\ \A f \in Lists : c[f] \in Seq(Parts)

LEMMA SettingNames ==
  /\ Settings = {"dryRun", "enableFreeRadius", "dnsmasqNamespace", "domainName", "deviceSuffix",
                 "loadBalancerSuffix", "freeRadiusNamespace", "domainSearch", "watchNamespaces"}
  /\ DomainSettings \subseteq Strings
  /\ Bools \intersect Lists = {} /\ Bools \intersect Strings = {} /\ Strings \intersect Lists = {}
BY DEF Settings, Bools, Strings, Lists, DomainSettings

LEMMA SeqMono ==
  ASSUME NEW A, NEW B, A \subseteq B, NEW v \in Seq(A)
  PROVE  v \in Seq(B)
<1>1. Len(v) \in Nat /\ v \in [1 .. Len(v) -> A]
  OBVIOUS
<1>2. v \in [1 .. Len(v) -> B]
  BY <1>1
<1> QED
  BY <1>1, <1>2

\* Lists of words or parts are lists of strings, and none of them is Nil.
LEMMA PartLists ==
  /\ \A v \in Seq(WordParts) : v \in Seq(Words) /\ v \in Seq(Parts)
  /\ \A v \in Seq(Words) : v \in Seq(Texts) /\ v # Nil
  /\ \A v \in Seq(Parts) : v \in Seq(Texts)
  /\ \A v \in Seq(Parts) : v \in Seq(Words) => v \in Seq(WordParts)
<1>1. WordParts \subseteq Words /\ WordParts \subseteq Parts /\ Words \subseteq Texts /\ Parts \subseteq Texts
  BY DEF WordParts, Words, Parts
<1>2. \A v \in Seq(WordParts) : v \in Seq(Words) /\ v \in Seq(Parts)
  BY <1>1, SeqMono
<1>3. \A v \in Seq(Words) : v \in Seq(Texts) /\ v # Nil
  <2> SUFFICES ASSUME NEW v \in Seq(Words) PROVE v \in Seq(Texts) /\ v # Nil
    OBVIOUS
  <2>1. v \in Seq(Texts)
    BY <1>1, SeqMono
  <2> QED
    BY <2>1, ConfigurationAssumption, Zenon
<1>4. \A v \in Seq(Parts) : v \in Seq(Texts)
  BY <1>1, SeqMono
<1>5. ASSUME NEW v \in Seq(Parts), v \in Seq(Words) PROVE v \in Seq(WordParts)
  <2>1. Len(v) \in Nat /\ v \in [1 .. Len(v) -> Parts] /\ v \in [1 .. Len(v) -> Words]
    BY <1>5
  <2>2. v \in [1 .. Len(v) -> WordParts]
    BY <2>1 DEF Parts, WordParts
  <2> QED
    BY <2>1, <2>2
<1> QED
  BY <1>2, <1>3, <1>4, <1>5, Zenon

LEMMA SplitParts ==
  ASSUME NEW v, v # Nil => v \in Seq(Words)
  PROVE  SplitCommaList(v) \in Seq(WordParts)
<1>1. CASE v = Nil
  <2>1. <<>> \in Seq(WordParts)
    OBVIOUS
  <2> QED
    BY <1>1, <2>1, Zenon DEF SplitCommaList
<1>2. CASE v # Nil
  BY <1>2, NonBlankType, Zenon DEF SplitCommaList, WordParts
<1> QED
  BY <1>1, <1>2

\* What comes back from the flags is a list of words without blanks, and such
\* a list comes back unchanged.
LEMMA RejoinType ==
  ASSUME NEW list \in Seq(Parts)
  PROVE  Rejoined(list) \in Seq(WordParts)
<1>1. Join(list) \in Seq(Words)
  BY PartLists, JoinType, Zenon
<1> QED
  BY <1>1, SplitParts, Zenon DEF Rejoined

LEMMA RejoinKeeps ==
  ASSUME NEW list \in Seq(WordParts)
  PROVE  Rejoined(list) = list
<1>1. list \in Seq(Words) /\ list # Nil
  BY PartLists, Zenon
<1>2. Join(list) = list
  BY <1>1, JoinKeeps, Zenon
<1>3. NonBlank(list) = list
  <2>1. "" \notin WordParts
    BY DEF WordParts
  <2> QED
    BY <2>1, NonBlankKeeps, Zenon
<1> QED
  BY <1>1, <1>2, <1>3, Zenon DEF Rejoined, SplitCommaList

LEMMA AddParts ==
  ASSUME NEW out \in Seq(Parts), NEW raw \in Texts
  PROVE  Add(out, raw) \in Seq(Parts)
<1> DEFINE d == Domain[raw]
<1>1. d \in Texts
  BY ConfigurationAssumption
<1> HIDE DEF d
<1>2. CASE d \in {""} \union ToSet(out)
  BY <1>2, Zenon DEF Add, d
<1>3. CASE d \notin {""} \union ToSet(out)
  <2>1. Append(out, d) \in Seq(Parts)
    BY <1>1, <1>3, AppendProperties DEF Parts
  <2> QED
    BY <1>3, <2>1, Zenon DEF Add, d
<1> QED
  BY <1>2, <1>3

LEMMA FromEnvOK ==
  ASSUME NEW e \in Environments
  PROVE  ConfigOK(FromEnv(e)) /\ \A f \in Lists : FromEnv(e)[f] \in Seq(WordParts)
<1> DEFINE c == FromEnv(e)
<1>1. c = [f \in Settings |-> c[f]]
  <2> DEFINE Value(f) == CASE f \in Bools -> EnvBool(f, e[f])
                         [] f \in Strings -> Getenv(f, e[f])
                         [] f \in Lists -> SplitCommaList(e[f])
  <2>1. c = [f \in Settings |-> Value(f)]
    BY DEF FromEnv
  <2> HIDE DEF c, Value
  <2> QED
    BY <2>1
<1>2. Typed(e, Texts)
  BY ConfigurationAssumption
<1>3. ASSUME NEW f \in Bools PROVE c[f] \in BOOLEAN
  <2>1. c[f] = EnvBool(f, e[f])
    BY <1>3, SettingNames DEF FromEnv, Settings
  <2>2. DefaultOf(f) = FALSE
    <3>1. f # "dnsmasqNamespace" /\ f \notin Lists
      BY <1>3 DEF Bools, Lists
    <3> QED
      BY <1>3, <3>1, Zenon DEF DefaultOf
  <2> QED
    BY <2>1, <2>2 DEF EnvBool
<1>4. ASSUME NEW f \in Strings PROVE c[f] = Getenv(f, e[f])
  BY <1>4, SettingNames DEF FromEnv, Settings
<1>5. ASSUME NEW f \in Lists PROVE c[f] = SplitCommaList(e[f])
  BY <1>5, SettingNames DEF FromEnv, Settings
<1>6. ASSUME NEW f \in Strings PROVE c[f] \in Texts
  <2>1. e[f] # Nil => e[f] \in Texts
    BY <1>2, SettingNames DEF Typed, Settings
  <2>2. DefaultOf(f) \in Texts
    <3>1. f \notin Bools /\ f \notin Lists
      BY SettingNames
    <3>2. DefaultOf(f) = "default" \/ DefaultOf(f) = ""
      BY <3>1, Zenon DEF DefaultOf
    <3> QED
      BY <3>2, ConfigurationAssumption
  <2> QED
    BY <1>4, <2>1, <2>2 DEF Getenv
<1>7. ASSUME NEW f \in Lists PROVE c[f] \in Seq(WordParts) /\ c[f] \in Seq(Parts)
  <2>1. e[f] # Nil => e[f] \in Seq(Words)
    BY <1>2, SettingNames DEF Typed, Settings
  <2>2. c[f] \in Seq(WordParts)
    BY <1>5, <2>1, SplitParts, Zenon
  <2> QED
    BY <2>2, PartLists, Zenon
<1> QED
  BY <1>1, <1>3, <1>6, <1>7, Zenon DEF ConfigOK

Derived == {"freeRadiusNamespace", "domainSearch"}

LEMMA FinalizeIs ==
  ASSUME NEW c, ConfigOK(c)
  PROVE  /\ ConfigOK(Finalize(c))
         /\ Finalize(c)["freeRadiusNamespace"] = DeriveNamespace(c)
         /\ Finalize(c)["domainSearch"] = DeriveDomainSearch(c)
         /\ \A f \in Settings \ Derived : Finalize(c)[f] = c[f]
<1> DEFINE ns == DeriveNamespace(c)
           ds == DeriveDomainSearch(c)
<1>1. ns \in Texts
  BY DEF ConfigOK, DeriveNamespace, Strings
<1>2. ds \in Seq(Parts)
  <2>1. c["domainSearch"] \in Seq(Parts)
    BY DEF ConfigOK, Lists
  <2>2. /\ c["domainName"] \in Texts /\ c["deviceSuffix"] \in Texts
        /\ c["loadBalancerSuffix"] \in Texts
    BY DEF ConfigOK, Strings
  <2>3. <<>> \in Seq(Parts)
    OBVIOUS
  <2>4. DerivedSearch(c) \in Seq(Parts)
    BY <2>2, <2>3, AddParts, Zenon DEF DerivedSearch
  <2> QED
    BY <2>1, <2>4, Zenon DEF DeriveDomainSearch
<1>3. Finalize(c) = [c EXCEPT !["freeRadiusNamespace"] = ns, !["domainSearch"] = ds]
  BY DEF Finalize
<1>4. c = [f \in Settings |-> c[f]]
  BY DEF ConfigOK
<1> HIDE DEF ns, ds
<1>5. /\ Finalize(c) = [f \in Settings |-> Finalize(c)[f]]
      /\ Finalize(c)["freeRadiusNamespace"] = ns /\ Finalize(c)["domainSearch"] = ds
      /\ \A f \in Settings \ Derived : Finalize(c)[f] = c[f]
  BY <1>3, <1>4, SettingNames DEF Derived
<1>6. \A f \in Bools : Finalize(c)[f] \in BOOLEAN
  BY <1>5 DEF ConfigOK, Bools, Settings, Derived
<1>7. \A f \in Strings : Finalize(c)[f] \in Texts
  BY <1>1, <1>5 DEF ConfigOK, Strings, Settings, Derived
<1>8. \A f \in Lists : Finalize(c)[f] \in Seq(Parts)
  BY <1>2, <1>5 DEF ConfigOK, Lists, Settings, Derived
<1> QED
  BY <1>5, <1>6, <1>7, <1>8 DEF ConfigOK, ns, ds

-----------------------------------------------------------------------------
(***************************************************************************)
(* The states of main.                                                     *)
(***************************************************************************)
Read == FromEnv(env)
Loaded == Finalize(Read)
Parsed == [f \in Settings |-> IF f \notin Lists /\ Given(f) THEN args[f] ELSE Loaded[f]]
Merged == [f \in Settings |-> IF f \in Lists THEN Rejoined(Loaded[f]) ELSE Parsed[f]]

StartInv ==
  /\ env \in Environments /\ args \in CommandLines
  /\ pc \in {"load", "bind", "parse", "apply", "run"}
  /\ bound \in [Lists -> Seq(Words)] /\ csvFlags \in [Lists -> Seq(Words)]
  /\ pc = "load" => cfg = [f \in Settings |-> DefaultOf(f)]
  /\ pc \in {"bind", "parse"} => cfg = Loaded
  /\ pc \in {"parse", "apply"} => csvFlags = [f \in Lists |-> Join(Loaded[f])]
  /\ pc = "apply" => cfg = Parsed
  /\ pc = "run" => cfg = Finalize(Merged)

LEMMA LoadedOK ==
  ASSUME env \in Environments
  PROVE  /\ ConfigOK(Read) /\ \A f \in Lists : Read[f] \in Seq(WordParts)
         /\ ConfigOK(Loaded) /\ \A f \in Lists : Join(Loaded[f]) \in Seq(Words)
<1>1. ConfigOK(Read) /\ \A f \in Lists : Read[f] \in Seq(WordParts)
  BY FromEnvOK, Zenon DEF Read
<1>2. ConfigOK(Loaded)
  BY <1>1, FinalizeIs, Zenon DEF Loaded
<1>3. \A f \in Lists : Loaded[f] \in Seq(Texts)
  BY <1>2, PartLists, Zenon DEF ConfigOK
<1>4. \A f \in Lists : Join(Loaded[f]) \in Seq(Words)
  BY <1>3, JoinType, Zenon
<1> QED
  BY <1>1, <1>2, <1>4

LEMMA StartStep == StartInv /\ [Next]_vars => StartInv'
<1> SUFFICES ASSUME StartInv, [Next]_vars PROVE StartInv'
  OBVIOUS
<1>0. ASSUME UNCHANGED <<env, args>>
      PROVE  Read' = Read /\ Loaded' = Loaded /\ Parsed' = Parsed /\ Merged' = Merged
  BY <1>0 DEF Read, Loaded, Parsed, Merged, Given
<1>1. CASE Load
  <2>1. UNCHANGED <<env, args, bound, csvFlags>> /\ cfg' = Loaded /\ pc' = "bind"
    BY <1>1 DEF Load, Loaded, Read
  <2> QED
    BY <1>0, <2>1 DEF StartInv
<1>2. CASE BindFlags
  <2> DEFINE joined == [f \in Lists |-> Join(Loaded[f])]
  <2>1. UNCHANGED <<env, args, cfg>> /\ pc = "bind" /\ pc' = "parse" /\ cfg = Loaded
    BY <1>2 DEF BindFlags, StartInv
  <2>2. bound' = joined /\ csvFlags' = joined
    BY <1>2, <2>1 DEF BindFlags
  <2>3. joined \in [Lists -> Seq(Words)]
    BY LoadedOK, Zenon DEF StartInv
  <2>4. csvFlags' = [f \in Lists |-> Join(Loaded[f])]
    BY <2>2
  <2> HIDE DEF joined
  <2>5. csvFlags' = [f \in Lists |-> Join(Loaded'[f])]
    BY <1>0, <2>1, <2>4
  <2> QED
    BY <1>0, <2>1, <2>2, <2>3, <2>5 DEF StartInv
<1>3. CASE Parse
  <2>1. /\ UNCHANGED <<env, args, csvFlags>> /\ pc = "parse" /\ pc' = "apply"
        /\ cfg' = [f \in Settings |-> IF f \notin Lists /\ Given(f) THEN args[f] ELSE cfg[f]]
        /\ bound' = [f \in Lists |-> IF Given(f) THEN args[f] ELSE bound[f]]
    BY <1>3 DEF Parse
  <2>2. cfg' = Parsed
    BY <2>1 DEF StartInv, Parsed
  <2>3. bound' \in [Lists -> Seq(Words)]
    <3>1. Typed(args, BOOLEAN)
      BY ConfigurationAssumption DEF StartInv
    <3>2. \A f \in Lists : f \in Settings /\ f \notin Bools /\ f \notin Strings
      BY SettingNames DEF Settings
    <3>3. \A f \in Lists : Given(f) => args[f] \in Seq(Words)
      BY <3>1, <3>2, Zenon DEF Typed, Given
    <3>4. \A f \in Lists : bound[f] \in Seq(Words)
      BY DEF StartInv
    <3> QED
      BY <2>1, <3>3, <3>4, Zenon
  <2>4. csvFlags' = [f \in Lists |-> Join(Loaded'[f])]
    BY <1>0, <2>1 DEF StartInv
  <2> QED
    BY <1>0, <2>1, <2>2, <2>3, <2>4 DEF StartInv
<1>4. CASE ApplyCSVFlags
  <2> DEFINE merged == [f \in Settings |-> IF f \in Lists THEN SplitCommaList(csvFlags[f]) ELSE cfg[f]]
  <2>1. UNCHANGED <<env, args, bound, csvFlags>> /\ pc = "apply" /\ pc' = "run" /\ cfg' = Finalize(merged)
    BY <1>4 DEF ApplyCSVFlags
  <2>2. csvFlags = [f \in Lists |-> Join(Loaded[f])] /\ cfg = Parsed
    BY <2>1 DEF StartInv
  <2>3. \A f \in Lists : csvFlags[f] = Join(Loaded[f])
    BY <2>2, Zenon
  <2>4. merged = Merged
    BY <2>2, <2>3, Zenon DEF Merged, Rejoined
  <2> QED
    BY <1>0, <2>1, <2>4 DEF StartInv
<1>5. CASE UNCHANGED vars
  <2>1. UNCHANGED <<pc, env, args, cfg, bound, csvFlags>>
    BY <1>5 DEF vars
  <2>2. [f \in Lists |-> Join(Loaded'[f])] = [f \in Lists |-> Join(Loaded[f])]
    BY <1>0, <2>1
  <2> QED
    BY <1>0, <2>1, <2>2 DEF StartInv
<1> QED
  BY <1>1, <1>2, <1>3, <1>4, <1>5 DEF Next

LEMMA StartInit == Init => StartInv
<1>1. <<>> \in Seq(Words)
  OBVIOUS
<1> QED
  BY <1>1 DEF Init, StartInv, NoLists

\* What the operator starts with, setting by setting.
LEMMA MergedIs ==
  ASSUME StartInv
  PROVE  /\ ConfigOK(Read) /\ ConfigOK(Loaded) /\ ConfigOK(Parsed) /\ ConfigOK(Merged)
         /\ \A f \in Lists : Merged[f] = Rejoined(Loaded[f]) /\ Parsed[f] = Loaded[f]
         /\ \A f \in Lists : Merged[f] \in Seq(WordParts) /\ Read[f] \in Seq(WordParts)
         /\ \A f \in Settings \ Lists : Merged[f] = IF Given(f) THEN args[f] ELSE Loaded[f]
<1>1. ConfigOK(Read) /\ ConfigOK(Loaded) /\ \A f \in Lists : Read[f] \in Seq(WordParts)
  BY LoadedOK DEF StartInv
<1>2. \A f \in Lists : f \in Settings /\ Loaded[f] \in Seq(Parts)
  BY <1>1 DEF ConfigOK, Settings
<1>3. \A f \in Lists : Parsed[f] = Loaded[f] /\ Merged[f] = Rejoined(Loaded[f])
  BY <1>2, Zenon DEF Parsed, Merged
<1>4. \A f \in Lists : Merged[f] \in Seq(WordParts) /\ Merged[f] \in Seq(Parts)
  BY <1>2, <1>3, RejoinType, PartLists, Zenon
<1>5. \A f \in Settings \ Lists : Parsed[f] = (IF Given(f) THEN args[f] ELSE Loaded[f]) /\ Merged[f] = Parsed[f]
  BY DEF Parsed, Merged
<1>6. Typed(args, BOOLEAN)
  BY ConfigurationAssumption DEF StartInv
<1>7. ASSUME NEW f \in Bools PROVE Parsed[f] \in BOOLEAN /\ Merged[f] = Parsed[f]
  <2>1. f \in Settings /\ f \notin Lists /\ f \notin Strings
    BY SettingNames DEF Settings
  <2>2. Given(f) => args[f] \in BOOLEAN
    BY <1>6, <2>1 DEF Typed, Given
  <2>3. Loaded[f] \in BOOLEAN
    BY <1>1 DEF ConfigOK
  <2> QED
    BY <1>5, <2>1, <2>2, <2>3, Zenon
<1>8. ASSUME NEW f \in Strings PROVE Parsed[f] \in Texts /\ Merged[f] = Parsed[f]
  <2>1. f \in Settings /\ f \notin Lists /\ f \notin Bools
    BY SettingNames DEF Settings
  <2>2. Given(f) => args[f] \in Texts
    BY <1>6, <2>1 DEF Typed, Given
  <2>3. Loaded[f] \in Texts
    BY <1>1 DEF ConfigOK
  <2> QED
    BY <1>5, <2>1, <2>2, <2>3, Zenon
<1>9. Parsed = [f \in Settings |-> Parsed[f]] /\ Merged = [f \in Settings |-> Merged[f]]
  BY Zenon DEF Parsed, Merged
<1>10. ConfigOK(Parsed)
  BY <1>2, <1>3, <1>7, <1>8, <1>9, Zenon DEF ConfigOK
<1>11. ConfigOK(Merged)
  BY <1>2, <1>4, <1>7, <1>8, <1>9, Zenon DEF ConfigOK
<1> QED
  BY <1>1, <1>3, <1>4, <1>5, <1>10, <1>11, Zenon

\* Through all of main the settings and the flags' targets keep their types,
\* and no list has a blank part, on whichever way it was set or derived.
THEOREM TypeCorrect == Spec => []TypeOK
<1>1. StartInv => TypeOK
  <2> SUFFICES ASSUME StartInv PROVE TypeOK
    OBVIOUS
  <2>1. Typed(env, Texts) /\ Typed(args, BOOLEAN)
    BY ConfigurationAssumption DEF StartInv
  <2>2. ConfigOK(cfg)
    <3>1. CASE pc = "load"
      <4>1. cfg = [f \in Settings |-> DefaultOf(f)]
        BY <3>1 DEF StartInv
      <4>2. \A f \in Bools : f # "dnsmasqNamespace" /\ f \notin Lists
        BY DEF Bools, Lists
      <4>3. \A f \in Bools : DefaultOf(f) = FALSE
        BY <4>2, Zenon DEF DefaultOf
      <4>4. \A f \in Strings : f \notin Bools /\ f \notin Lists
        BY SettingNames
      <4>5. \A f \in Strings : DefaultOf(f) = "default" \/ DefaultOf(f) = ""
        BY <4>4, Zenon DEF DefaultOf
      <4>6. \A f \in Strings : DefaultOf(f) \in Texts
        BY <4>5, ConfigurationAssumption
      <4>7. \A f \in Lists : f # "dnsmasqNamespace" /\ f \notin Bools
        BY DEF Bools, Lists
      <4>8. \A f \in Lists : DefaultOf(f) = <<>>
        BY <4>7, Zenon DEF DefaultOf
      <4>9. <<>> \in Seq(Parts)
        OBVIOUS
      <4>10. Bools \subseteq Settings /\ Strings \subseteq Settings /\ Lists \subseteq Settings
        BY DEF Settings
      <4>11. cfg = [f \in Settings |-> cfg[f]] /\ \A f \in Settings : cfg[f] = DefaultOf(f)
        BY <4>1, Zenon
      <4>12. \A f \in Bools : cfg[f] \in BOOLEAN
        BY <4>3, <4>10, <4>11
      <4> QED
        BY <4>6, <4>8, <4>9, <4>10, <4>11, <4>12, Zenon DEF ConfigOK
    <3>2. CASE pc \in {"bind", "parse"}
      BY <3>2, MergedIs, Zenon DEF StartInv
    <3>3. CASE pc = "apply"
      BY <3>3, MergedIs, Zenon DEF StartInv
    <3>4. CASE pc = "run"
      BY <3>4, MergedIs, FinalizeIs, Zenon DEF StartInv
    <3> QED
      BY <3>1, <3>2, <3>3, <3>4 DEF StartInv
  <2>3. /\ DOMAIN cfg = Settings
        /\ \A f \in Bools : cfg[f] \in BOOLEAN
        /\ \A f \in Strings : cfg[f] \in Texts
        /\ \A f \in Lists : cfg[f] \in Seq(Texts \ {""})
    <3>1. DOMAIN cfg = Settings
      BY <2>2, Zenon DEF ConfigOK
    <3> QED
      BY <2>2, <3>1, Zenon DEF ConfigOK, Parts
  <2> QED
    BY <2>1, <2>3 DEF TypeOK, StartInv
<1> QED
  BY <1>1, StartInit, StartStep, PTL DEF Spec

-----------------------------------------------------------------------------
(***************************************************************************)
(* The settings at the start.                                              *)
(***************************************************************************)
\* The settings that flags and environment give, before finalize.
Wanted ==
  [f \in Settings |->
     IF ~Given(f) THEN FromEnv(env)[f]
     ELSE IF f \in Lists THEN SplitCommaList(args[f]) ELSE args[f]]

LEMMA WantedIs ==
  ASSUME StartInv
  PROVE  /\ ConfigOK(Wanted) /\ Documented = Finalize(Wanted)
         /\ \A f \in Settings : ~Given(f) => Wanted[f] = Read[f]
         /\ \A f \in Settings \ Lists : Given(f) => Wanted[f] = args[f]
<1>1. Documented = Finalize(Wanted)
  BY Zenon DEF Documented, Wanted
<1>2. Wanted = [f \in Settings |-> Wanted[f]]
  BY Zenon DEF Wanted
<1>3. \A f \in Settings : ~Given(f) => Wanted[f] = Read[f]
  BY Zenon DEF Wanted, Read
<1>4. \A f \in Settings \ Lists : Given(f) => Wanted[f] = args[f]
  BY Zenon DEF Wanted
<1>5. \A f \in Settings \intersect Lists : Given(f) => Wanted[f] = SplitCommaList(args[f])
  BY Zenon DEF Wanted
<1>6. Typed(args, BOOLEAN) /\ ConfigOK(Read)
  BY MergedIs, ConfigurationAssumption DEF StartInv
<1>7. ASSUME NEW f \in Bools PROVE Wanted[f] \in BOOLEAN
  <2>1. f \in Settings /\ f \notin Lists /\ f \notin Strings
    BY SettingNames DEF Settings
  <2>2. Given(f) => args[f] \in BOOLEAN
    BY <1>6, <2>1 DEF Typed, Given
  <2> QED
    BY <1>3, <1>4, <1>6, <2>1, <2>2, Zenon DEF ConfigOK
<1>8. ASSUME NEW f \in Strings PROVE Wanted[f] \in Texts
  <2>1. f \in Settings /\ f \notin Lists /\ f \notin Bools
    BY SettingNames DEF Settings
  <2>2. Given(f) => args[f] \in Texts
    BY <1>6, <2>1 DEF Typed, Given
  <2> QED
    BY <1>3, <1>4, <1>6, <2>1, <2>2, Zenon DEF ConfigOK
<1>9. ASSUME NEW f \in Lists PROVE Wanted[f] \in Seq(Parts)
  <2>1. f \in Settings /\ f \notin Strings /\ f \notin Bools
    BY SettingNames DEF Settings
  <2>2. args[f] # Nil => args[f] \in Seq(Words)
    BY <1>6, <2>1 DEF Typed
  <2>3. SplitCommaList(args[f]) \in Seq(Parts)
    BY <2>2, SplitParts, PartLists, Zenon
  <2> QED
    BY <1>3, <1>5, <1>6, <2>1, <2>3, Zenon DEF ConfigOK
<1> QED
  BY <1>1, <1>2, <1>3, <1>4, <1>7, <1>8, <1>9, Zenon DEF ConfigOK

\* The derived settings depend on few others.
LEMMA DeriveFrom ==
  ASSUME NEW c, NEW d
  PROVE  /\ (/\ c["domainSearch"] = d["domainSearch"] /\ c["domainName"] = d["domainName"]
             /\ c["deviceSuffix"] = d["deviceSuffix"] /\ c["loadBalancerSuffix"] = d["loadBalancerSuffix"])
            => DeriveDomainSearch(c) = DeriveDomainSearch(d)
         /\ (/\ c["enableFreeRadius"] = d["enableFreeRadius"] /\ c["dnsmasqNamespace"] = d["dnsmasqNamespace"]
             /\ c["freeRadiusNamespace"] = d["freeRadiusNamespace"])
            => DeriveNamespace(c) = DeriveNamespace(d)
<1>1. (/\ c["domainSearch"] = d["domainSearch"] /\ c["domainName"] = d["domainName"]
       /\ c["deviceSuffix"] = d["deviceSuffix"] /\ c["loadBalancerSuffix"] = d["loadBalancerSuffix"])
      => DeriveDomainSearch(c) = DeriveDomainSearch(d)
  BY Zenon DEF DeriveDomainSearch, DerivedSearch
<1>2. (/\ c["enableFreeRadius"] = d["enableFreeRadius"] /\ c["dnsmasqNamespace"] = d["dnsmasqNamespace"]
       /\ c["freeRadiusNamespace"] = d["freeRadiusNamespace"])
      => DeriveNamespace(c) = DeriveNamespace(d)
  BY Zenon DEF DeriveNamespace
<1> QED
  BY <1>1, <1>2

\* Deriving twice, before and after the flags, gives the documented settings,
\* except for list flags and for a default that the first pass derived from
\* what a flag then changed (README.md:25-42; Load, BindFlags, ApplyCSVFlags).
\* Joining and splitting the lists in between changes no list of words, and of
\* another only where its parts are cut.
THEOREM DocumentedStart == Spec => []StartsAsDocumented
<1>1. ASSUME StartInv, pc = "run" PROVE StartsAsDocumented
  <2> DEFINE ds == "domainSearch"
             fr == "freeRadiusNamespace"
             wn == "watchNamespaces"
             Other == Settings \ {ds, wn, fr}
  <2>1. cfg = Finalize(Merged) /\ Documented = Finalize(Wanted)
    BY <1>1, WantedIs DEF StartInv
  <2>2. /\ ds \in Lists /\ wn \in Lists /\ fr \in Settings \ Lists
        /\ ds \in Settings /\ wn \in Settings \ Derived
        /\ Other \subseteq Settings \ Lists /\ Other \subseteq Settings \ Derived
        /\ "domainName" \in Other /\ "deviceSuffix" \in Other /\ "loadBalancerSuffix" \in Other
        /\ "dnsmasqNamespace" \in Other /\ "enableFreeRadius" \in Other
    BY SettingNames DEF Lists, Derived
  <2>3. \A f \in Settings \ Derived : Loaded[f] = Read[f]
    BY <1>1, MergedIs, FinalizeIs, Zenon DEF Loaded
  <2>4. /\ \A f \in Settings \ Derived : cfg[f] = Merged[f] /\ Documented[f] = Wanted[f]
        /\ cfg[ds] = DeriveDomainSearch(Merged) /\ Documented[ds] = DeriveDomainSearch(Wanted)
        /\ cfg[fr] = DeriveNamespace(Merged) /\ Documented[fr] = DeriveNamespace(Wanted)
        /\ Loaded[ds] = DeriveDomainSearch(Read) /\ Loaded[fr] = DeriveNamespace(Read)
    BY <1>1, <2>1, MergedIs, WantedIs, FinalizeIs, Zenon DEF Loaded
  <2>5. \A f \in Other : Merged[f] = Wanted[f]
    BY <1>1, <2>2, <2>3, MergedIs, WantedIs, Zenon
  <2> HIDE DEF ds, fr, wn, Other
  <2>6. \A f \in Other : cfg[f] = Documented[f]
    BY <2>2, <2>4, <2>5, Zenon
  <2>7. ~Given(wn) => cfg[wn] = Documented[wn]
    <3>1. Merged[wn] = Rejoined(Read[wn]) /\ Read[wn] \in Seq(WordParts)
      BY <1>1, <2>2, <2>3, MergedIs, Zenon
    <3>2. Merged[wn] = Read[wn]
      BY <3>1, RejoinKeeps, Zenon
    <3> QED
      BY <1>1, <2>2, <2>4, <3>2, WantedIs, Zenon
  <2>8. ASSUME ~Given(ds), ~StaleSearch
        PROVE  /\ Rejoined(cfg[ds]) = Rejoined(Documented[ds])
               /\ Documented[ds] \in Seq(Words) => cfg[ds] = Documented[ds]
    <3>1. /\ Wanted[ds] = Read[ds] /\ Merged[ds] = Rejoined(Loaded[ds])
          /\ Read[ds] \in Seq(WordParts) /\ Merged[ds] \in Seq(WordParts)
          /\ Loaded[ds] \in Seq(Parts)
      BY <1>1, <2>2, <2>8, MergedIs, WantedIs, Zenon DEF ConfigOK
    <3>2. /\ Merged["domainName"] = Wanted["domainName"] /\ Merged["deviceSuffix"] = Wanted["deviceSuffix"]
          /\ Merged["loadBalancerSuffix"] = Wanted["loadBalancerSuffix"]
      BY <2>2, <2>5, Zenon
    <3>3. ASSUME Merged[ds] = Wanted[ds] PROVE cfg[ds] = Documented[ds]
      <4>1. DeriveDomainSearch(Merged) = DeriveDomainSearch(Wanted)
        BY <3>2, <3>3, DeriveFrom, Zenon DEF ds
      <4> QED
        BY <2>4, <4>1, Zenon
    <3>4. CASE Loaded[ds] = Read[ds]
      <4>1. Merged[ds] = Wanted[ds]
        BY <3>1, <3>4, RejoinKeeps, Zenon
      <4> QED
        BY <3>3, <4>1, Zenon
    <3>5. CASE Loaded[ds] # Read[ds]
      <4>1. Read[ds] = <<>> /\ Loaded[ds] # <<>>
        <5>1. Read[ds] = <<>>
          BY <2>4, <3>5, Zenon DEF DeriveDomainSearch, ds
        <5> QED
          BY <3>5, <5>1, Zenon
      <4>2. ~Given("domainName") /\ ~Given("deviceSuffix") /\ ~Given("loadBalancerSuffix")
        BY <2>8, <4>1, Zenon DEF StaleSearch, Read, Loaded, ds, DomainSettings
      <4>3. /\ Wanted["domainName"] = Read["domainName"] /\ Wanted["deviceSuffix"] = Read["deviceSuffix"]
            /\ Wanted["loadBalancerSuffix"] = Read["loadBalancerSuffix"]
        BY <1>1, <2>2, <4>2, WantedIs, Zenon
      <4>4. Documented[ds] = Loaded[ds]
        BY <2>4, <3>1, <4>3, DeriveFrom, Zenon DEF ds
      <4>5. CASE Merged[ds] = <<>>
        BY <3>1, <3>3, <4>1, <4>5, Zenon
      <4>6. CASE Merged[ds] # <<>>
        <5>1. cfg[ds] = Rejoined(Documented[ds])
          BY <2>4, <3>1, <4>4, <4>6, Zenon DEF DeriveDomainSearch, ds
        <5>2. Rejoined(cfg[ds]) = cfg[ds]
          BY <3>1, <4>4, <5>1, RejoinKeeps, Zenon
        <5>3. ASSUME Documented[ds] \in Seq(Words) PROVE Rejoined(Documented[ds]) = Documented[ds]
          BY <3>1, <4>4, <5>3, PartLists, RejoinKeeps, Zenon
        <5> QED
          BY <5>1, <5>2, <5>3, Zenon
      <4> QED
        BY <4>5, <4>6, Zenon
    <3> QED
      BY <3>4, <3>5, Zenon
  <2>9. ASSUME ~StaleNamespace PROVE cfg[fr] = Documented[fr]
    <3>1. /\ Merged["dnsmasqNamespace"] = Wanted["dnsmasqNamespace"]
          /\ Merged["enableFreeRadius"] = Wanted["enableFreeRadius"]
      BY <2>2, <2>5
    <3>2. CASE Merged[fr] = Wanted[fr]
      BY <2>4, <3>1, <3>2, DeriveFrom, Zenon DEF fr
    <3>3. CASE Merged[fr] # Wanted[fr]
      <4>1. Merged[fr] = Loaded[fr] /\ Wanted[fr] = Read[fr]
        BY <1>1, <2>2, <3>3, MergedIs, WantedIs, Zenon
      <4>2. Read[fr] = "" /\ Loaded[fr] # ""
        <5>1. Read[fr] = ""
          BY <2>4, <3>3, <4>1, Zenon DEF DeriveNamespace, fr
        <5> QED
          BY <3>3, <4>1, <5>1, Zenon
      <4>3. ~Given("dnsmasqNamespace") /\ ~Given("enableFreeRadius")
        BY <2>9, <4>2, Zenon DEF StaleNamespace, Read, Loaded, fr
      <4>4. /\ Wanted["dnsmasqNamespace"] = Read["dnsmasqNamespace"]
            /\ Wanted["enableFreeRadius"] = Read["enableFreeRadius"]
        BY <1>1, <2>2, <4>3, WantedIs, Zenon
      <4>5. Documented[fr] = Loaded[fr]
        BY <2>4, <4>1, <4>4, DeriveFrom, Zenon DEF fr
      <4>6. cfg[fr] = Merged[fr]
        BY <2>4, <4>1, <4>2, Zenon DEF DeriveNamespace, fr
      <4> QED
        BY <4>1, <4>5, <4>6, Zenon
    <3> QED
      BY <3>2, <3>3
  <2> QED
    BY <2>6, <2>7, <2>8, <2>9 DEF StartsAsDocumented, ds, fr, wn, Other
<1>2. StartInv => StartsAsDocumented
  BY <1>1 DEF StartsAsDocumented
<1> QED
  BY <1>2, StartInit, StartStep, PTL DEF Spec

\* With a derived setting left out, deriving depends on the other settings.
LEMMA DeriveAfresh ==
  ASSUME NEW c, ConfigOK(c)
  PROVE  /\ c["domainSearch"] = <<>> =>
              DeriveDomainSearch([c EXCEPT !["domainSearch"] = <<>>]) = DeriveDomainSearch(c)
         /\ c["freeRadiusNamespace"] = "" =>
              DeriveNamespace([c EXCEPT !["freeRadiusNamespace"] = ""]) = DeriveNamespace(c)
<1> DEFINE s == [c EXCEPT !["domainSearch"] = <<>>]
           n == [c EXCEPT !["freeRadiusNamespace"] = ""]
<1>1. c = [f \in Settings |-> c[f]]
  BY DEF ConfigOK
<1>2. /\ s["domainSearch"] = <<>> /\ n["freeRadiusNamespace"] = ""
      /\ \A f \in DomainSettings : s[f] = c[f]
      /\ n["enableFreeRadius"] = c["enableFreeRadius"] /\ n["dnsmasqNamespace"] = c["dnsmasqNamespace"]
  BY <1>1, SettingNames DEF DomainSettings
<1> HIDE DEF s, n
<1>3. /\ s["domainName"] = c["domainName"] /\ s["deviceSuffix"] = c["deviceSuffix"]
      /\ s["loadBalancerSuffix"] = c["loadBalancerSuffix"]
  BY <1>2 DEF DomainSettings
<1>4. c["domainSearch"] = <<>> => DeriveDomainSearch(s) = DeriveDomainSearch(c)
  BY <1>2, <1>3, DeriveFrom, Zenon
<1>5. c["freeRadiusNamespace"] = "" => DeriveNamespace(n) = DeriveNamespace(c)
  BY <1>2, DeriveFrom, Zenon
<1> QED
  BY <1>4, <1>5 DEF s, n

\* finalize runs before and after flag.Parse, yet no derived setting mixes the
\* environment with the flags: what the first pass derives is kept whole, up to
\* where its parts are cut, and the second derives only what is still empty.
THEOREM DerivedOnce == Spec => []DerivedFromOneSide
<1>1. ASSUME StartInv, pc = "run" PROVE DerivedFromOneSide
  <2> DEFINE ds == "domainSearch"
             fr == "freeRadiusNamespace"
  <2>1. cfg = Finalize(Merged) /\ ds \in Lists /\ fr \in Settings \ Lists
    BY <1>1, SettingNames DEF StartInv, Lists
  <2>2. /\ cfg[ds] = DeriveDomainSearch(Merged) /\ cfg[fr] = DeriveNamespace(Merged)
        /\ Loaded[ds] = DeriveDomainSearch(Read) /\ Loaded[fr] = DeriveNamespace(Read)
        /\ \A f \in Settings \ Derived : cfg[f] = Merged[f]
        /\ ConfigOK(Read) /\ ConfigOK(Merged) /\ ConfigOK(cfg)
    BY <1>1, <2>1, MergedIs, FinalizeIs, Zenon DEF Loaded
  <2>3. /\ cfg["domainName"] = Merged["domainName"] /\ cfg["deviceSuffix"] = Merged["deviceSuffix"]
        /\ cfg["loadBalancerSuffix"] = Merged["loadBalancerSuffix"]
        /\ cfg["enableFreeRadius"] = Merged["enableFreeRadius"]
        /\ cfg["dnsmasqNamespace"] = Merged["dnsmasqNamespace"]
    <3>1. {"domainName", "deviceSuffix", "loadBalancerSuffix", "enableFreeRadius", "dnsmasqNamespace"}
            \subseteq Settings \ Derived
      BY SettingNames DEF Derived
    <3> QED
      BY <2>2, <3>1
  <2> HIDE DEF ds, fr
  <2>4. ASSUME SearchUnset PROVE SearchDerivedFrom(FromEnv(env)) \/ SearchDerivedFrom(cfg)
    <3>1. /\ Read[ds] = <<>> /\ Merged[ds] = Rejoined(Loaded[ds])
          /\ Merged[ds] \in Seq(WordParts)
      BY <1>1, <2>1, <2>4, MergedIs, Zenon DEF SearchUnset, Read, ds
    <3>2. CASE Merged[ds] # <<>>
      <4>1. cfg[ds] = Rejoined(Loaded[ds])
        BY <2>2, <3>1, <3>2, Zenon DEF DeriveDomainSearch, ds
      <4>2. Rejoined(cfg[ds]) = Rejoined(Loaded[ds])
        BY <3>1, <4>1, RejoinKeeps, Zenon
      <4>3. Loaded[ds] = DeriveDomainSearch([Read EXCEPT ![ds] = <<>>])
        BY <2>2, <3>1, DeriveAfresh, Zenon DEF ds
      <4> QED
        BY <4>2, <4>3, Zenon DEF SearchDerivedFrom, Read, ds
    <3>3. CASE Merged[ds] = <<>>
      <4> DEFINE c == [cfg EXCEPT ![ds] = <<>>]
      <4>1. /\ c[ds] = <<>> /\ c["domainName"] = cfg["domainName"] /\ c["deviceSuffix"] = cfg["deviceSuffix"]
            /\ c["loadBalancerSuffix"] = cfg["loadBalancerSuffix"]
        BY <2>2, SettingNames DEF ConfigOK, ds
      <4> HIDE DEF c
      <4>2. DeriveDomainSearch(c) = DeriveDomainSearch(Merged)
        BY <2>3, <3>3, <4>1, DeriveFrom, Zenon DEF ds
      <4> QED
        BY <2>2, <4>2, Zenon DEF SearchDerivedFrom, c, ds
    <3> QED
      BY <3>2, <3>3
  <2>5. ASSUME NamespaceUnset PROVE NamespaceDerivedFrom(FromEnv(env)) \/ NamespaceDerivedFrom(cfg)
    <3>1. Read[fr] = "" /\ Merged[fr] = Loaded[fr]
      BY <1>1, <2>1, <2>5, MergedIs, Zenon DEF NamespaceUnset, Read, fr
    <3>2. CASE Merged[fr] # ""
      <4>1. cfg[fr] = Loaded[fr]
        BY <2>2, <3>1, <3>2, Zenon DEF DeriveNamespace, fr
      <4>2. Loaded[fr] = DeriveNamespace([Read EXCEPT ![fr] = ""])
        BY <2>2, <3>1, DeriveAfresh, Zenon DEF fr
      <4> QED
        BY <4>1, <4>2, Zenon DEF NamespaceDerivedFrom, Read, fr
    <3>3. CASE Merged[fr] = ""
      <4> DEFINE c == [cfg EXCEPT ![fr] = ""]
      <4>1. /\ c[fr] = "" /\ c["enableFreeRadius"] = cfg["enableFreeRadius"]
            /\ c["dnsmasqNamespace"] = cfg["dnsmasqNamespace"]
        BY <2>2, SettingNames DEF ConfigOK, fr
      <4> HIDE DEF c
      <4>2. DeriveNamespace(c) = DeriveNamespace(Merged)
        BY <2>3, <3>3, <4>1, DeriveFrom, Zenon DEF fr
      <4> QED
        BY <2>2, <4>2, Zenon DEF NamespaceDerivedFrom, c, fr
    <3> QED
      BY <3>2, <3>3
  <2> QED
    BY <2>4, <2>5 DEF DerivedFromOneSide
<1>2. StartInv => DerivedFromOneSide
  BY <1>1 DEF DerivedFromOneSide
<1> QED
  BY <1>2, StartInit, StartStep, PTL DEF Spec

=============================================================================
