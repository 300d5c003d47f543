------------------------------- MODULE ListaLemas -------------------------------
(***************************************************************************)
(* Facts about the lists of the commons library, as the models write them: *)
(* list_remove and list_remove_element on sequences.                       *)
(***************************************************************************)
EXTENDS Integers, SequencesExt, SequenceTheorems, WellFoundedInduction, TLAPS

\* A non-empty set of naturals has a least element.
LEMMA MinimoNat ==
  ASSUME NEW I \in SUBSET Nat, I # {}
  PROVE  \E m \in I : \A n \in I : m <= n
<1>1. \E m \in I : \A n \in I : ~ (<<n, m>> \in OpToRel(<, Nat))
  BY NatLessThanWellFounded, WFMin
<1>2. ASSUME NEW m \in I, NEW n \in I, ~ (<<n, m>> \in OpToRel(<, Nat))
      PROVE  m <= n
  BY <1>2 DEF OpToRel
<1>. QED
  BY <1>1, <1>2

\* Removing the first occurrence of an element removes one of its positions.
LEMMA QuitarPrimera ==
  ASSUME NEW S, NEW s \in Seq(S), NEW e, Contains(s, e)
  PROVE  \E k \in 1 .. Len(s) : s[k] = e /\ RemoveFirst(s, e) = RemoveAt(s, k)
<1>. DEFINE I == {k \in 1 .. Len(s) : s[k] = e}
<1>1. I \in SUBSET Nat /\ I # {}
  BY DEF Contains
<1>2. PICK m \in I : \A n \in I : m <= n
  BY <1>1, MinimoNat
<1>3. Min(I) \in I
  BY <1>2 DEF Min
<1>4. RemoveFirst(s, e) = RemoveAt(s, Min(I))
  BY <1>1 DEF RemoveFirst, SelectInSeq
<1>. QED
  BY <1>3, <1>4

\* RemoveAt drops position k and keeps the others in order.
LEMMA QuitarPosicion ==
  ASSUME NEW S, NEW s \in Seq(S), NEW k \in 1 .. Len(s)
  PROVE  /\ RemoveAt(s, k) \in Seq(S)
         /\ Len(RemoveAt(s, k)) = Len(s) - 1
         /\ \A j \in 1 .. Len(s) - 1 :
              RemoveAt(s, k)[j] = IF j < k THEN s[j] ELSE s[j + 1]
<1>. DEFINE a == SubSeq(s, 1, k - 1)
            b == SubSeq(s, k + 1, Len(s))
<1>1. /\ a \in Seq(S) /\ Len(a) = k - 1
      /\ \A j \in 1 .. k - 1 : a[j] = s[j]
  BY SubSeqProperties, LenProperties
<1>2. /\ b \in Seq(S) /\ Len(b) = Len(s) - k
      /\ \A j \in 1 .. Len(s) - k : b[j] = s[k + j]
  BY SubSeqProperties, LenProperties
<1>3. RemoveAt(s, k) = a \o b
  BY DEF RemoveAt
<1>. HIDE DEF a, b
<1>4. /\ a \o b \in Seq(S)
      /\ Len(a \o b) = Len(a) + Len(b)
      /\ \A j \in 1 .. Len(a) + Len(b) :
           (a \o b)[j] = IF j <= Len(a) THEN a[j] ELSE b[j - Len(a)]
  BY <1>1, <1>2, ConcatProperties
<1>. QED
  BY <1>1, <1>2, <1>3, <1>4, LenProperties
\* Appending a new element keeps the elements of a sequence distinct.
LEMMA AgregarDistinto ==
  ASSUME NEW S, NEW s \in Seq(S), NEW e \in S, e \notin ToSet(s),
         IsInjective(s)
  PROVE  /\ ToSet(Append(s, e)) = ToSet(s) \cup {e}
         /\ IsInjective(Append(s, e))
<1>. DEFINE t == Append(s, e)
<1>1. /\ t \in Seq(S) /\ Len(t) = Len(s) + 1 /\ t[Len(s) + 1] = e
      /\ \A j \in 1 .. Len(s) : t[j] = s[j]
  BY AppendProperties
<1>. HIDE DEF t
<1>2. /\ DOMAIN t = 1 .. Len(s) + 1 /\ DOMAIN s = 1 .. Len(s)
      /\ Len(s) \in Nat
  BY <1>1, LenProperties
<1>3. \A j \in 1 .. Len(s) : s[j] # e
  BY <1>2 DEF ToSet
<1>4. ToSet(t) = ToSet(s) \cup {e}
  BY <1>1, <1>2 DEF ToSet
<1>5. IsInjective(t)
  BY <1>1, <1>2, <1>3 DEF IsInjective
<1>. QED
  BY <1>4, <1>5 DEF t

\* Removing an element of a list without repetitions removes it and no other.
LEMMA QuitarDistinto ==
  ASSUME NEW S, NEW s \in Seq(S), NEW e, e \in ToSet(s), IsInjective(s)
  PROVE  /\ RemoveFirst(s, e) \in Seq(S)
         /\ ToSet(RemoveFirst(s, e)) = ToSet(s) \ {e}
         /\ IsInjective(RemoveFirst(s, e))
<1>. DEFINE r == RemoveFirst(s, e)
<1>1. DOMAIN s = 1 .. Len(s) /\ Len(s) \in Nat
  BY LenProperties
<1>2. Contains(s, e)
  BY <1>1 DEF ToSet, Contains
<1>3. PICK k \in 1 .. Len(s) : s[k] = e /\ r = RemoveAt(s, k)
  BY <1>2, QuitarPrimera
<1>4. /\ r \in Seq(S) /\ Len(r) = Len(s) - 1
      /\ \A j \in 1 .. Len(s) - 1 : r[j] = IF j < k THEN s[j] ELSE s[j + 1]
  BY <1>3, QuitarPosicion
<1>. HIDE DEF r
<1>5. DOMAIN r = 1 .. Len(s) - 1
  BY <1>4, LenProperties
<1>. DEFINE pos(j) == IF j < k THEN j ELSE j + 1
<1>6. \A j \in 1 .. Len(s) - 1 :
        pos(j) \in 1 .. Len(s) /\ pos(j) # k /\ r[j] = s[pos(j)]
  BY <1>1, <1>4
<1>7. \A i, j \in 1 .. Len(s) - 1 : pos(i) = pos(j) => i = j
  BY <1>1
<1>8. \A j \in 1 .. Len(s) : j # k => \E i \in 1 .. Len(s) - 1 : pos(i) = j
  <2>. SUFFICES ASSUME NEW j \in 1 .. Len(s), j # k
                PROVE  \E i \in 1 .. Len(s) - 1 : pos(i) = j
    OBVIOUS
  <2>1. CASE j < k
    <3>1. j \in 1 .. Len(s) - 1 /\ pos(j) = j
      BY <1>1, <2>1
    <3>. QED BY <3>1
  <2>2. CASE j > k
    <3>1. j - 1 \in 1 .. Len(s) - 1 /\ pos(j - 1) = j
      BY <1>1, <2>2
    <3>. QED BY <3>1
  <2>. QED BY <1>1, <2>1, <2>2
<1>. HIDE DEF pos
<1>9. IsInjective(r)
  BY <1>1, <1>5, <1>6, <1>7 DEF IsInjective
<1>10. ToSet(r) \subseteq ToSet(s) \ {e}
  <2>1. \A j \in 1 .. Len(s) : j # k => s[j] # e
    BY <1>1, <1>3 DEF IsInjective
  <2>. QED
    BY <1>1, <1>5, <1>6, <2>1 DEF ToSet
<1>11. ToSet(s) \ {e} \subseteq ToSet(r)
  <2>. SUFFICES ASSUME NEW j \in 1 .. Len(s), s[j] # e PROVE s[j] \in ToSet(r)
    BY <1>1 DEF ToSet
  <2>1. PICK i \in 1 .. Len(s) - 1 : pos(i) = j
    BY <1>3, <1>8
  <2>2. r[i] = s[j]
    BY <1>6, <2>1
  <2>. QED
    BY <1>5, <2>1, <2>2 DEF ToSet
<1>. QED
  BY <1>4, <1>9, <1>10, <1>11 DEF r
=============================================================================
