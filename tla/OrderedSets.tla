------------------------------ MODULE OrderedSets ------------------------------
(***************************************************************************)
(* Sequences that stand for ordered sets: mount sets, plugin chains, the   *)
(* occupants a detach has still to release.  What the operations on them   *)
(* do to the set of their elements.                                        *)
(***************************************************************************)
EXTENDS Sequences, Integers, SequencesExt, WellFoundedInduction, TLAPS

(* Of any numbers one is the least. *)
LEMMA LeastNumber ==
  ASSUME NEW T, T \subseteq Nat, T # {}
  PROVE  \E x \in T : \A y \in T : x <= y
  <1>1. PICK x \in T : \A y \in T : ~ (<<y, x>> \in OpToRel(<, Nat))
    BY NatLessThanWellFounded, WFMin
  <1>2. \A y \in T : ~(y < x)
    BY <1>1 DEF OpToRel
  <1> QED
    BY <1>2

(* Taking out the element in place i (splice). *)
LEMMA RemoveAtFacts ==
  ASSUME NEW S, NEW s \in Seq(S), IsInjective(s), NEW i \in 1 .. Len(s)
  PROVE  /\ RemoveAt(s, i) \in Seq(S) /\ IsInjective(RemoveAt(s, i))
         /\ ToSet(RemoveAt(s, i)) = ToSet(s) \ {s[i]}
  <1> DEFINE r == SubSeq(s, 1, i - 1) \o SubSeq(s, i + 1, Len(s))
  <1>1. /\ r \in Seq(S) /\ Len(r) = Len(s) - 1
        /\ \A j \in 1 .. Len(s) - 1 : r[j] = IF j < i THEN s[j] ELSE s[j + 1]
    <2>1. PICK t : t = SubSeq(s, 1, i - 1)
      OBVIOUS
    <2>2. PICK u : u = SubSeq(s, i + 1, Len(s))
      OBVIOUS
    <2>3. t \in Seq(S) /\ Len(t) = i - 1 /\ \A j \in 1 .. i - 1 : t[j] = s[j]
      BY <2>1
    <2>4. u \in Seq(S) /\ Len(u) = Len(s) - i /\ \A j \in 1 .. Len(s) - i : u[j] = s[i + j]
      BY <2>2
    <2>5. t \o u \in Seq(S) /\ Len(t \o u) = Len(s) - 1
      BY <2>3, <2>4
    <2>6. ASSUME NEW j \in 1 .. Len(s) - 1
          PROVE  (t \o u)[j] = IF j < i THEN s[j] ELSE s[j + 1]
      <3>1. CASE j < i
        <4>1. j \in 1 .. Len(t)
          BY <2>3, <3>1
        <4>2. (t \o u)[j] = t[j]
          BY <2>3, <2>4, <4>1
        <4> QED
          BY <2>3, <3>1, <4>1, <4>2
      <3>2. CASE ~(j < i)
        <4>1. j - (i - 1) \in 1 .. Len(s) - i /\ i + (j - (i - 1)) = j + 1
          BY <3>2
        <4>2. (t \o u)[j] = u[j - (i - 1)]
          BY <2>3, <2>4, <3>2
        <4> QED
          BY <2>4, <3>2, <4>1, <4>2
      <3> QED
        BY <3>1, <3>2
    <2> QED
      BY <2>1, <2>2, <2>5, <2>6
  <1> HIDE DEF r
  <1>2. IsInjective(r)
    <2>1. /\ Len(s) \in Nat /\ DOMAIN s = 1 .. Len(s) /\ DOMAIN r = 1 .. Len(s) - 1
          /\ i \in 1 .. Len(s)
      BY <1>1
    <2>2. ASSUME NEW a \in 1 .. Len(s) - 1, NEW b \in 1 .. Len(s) - 1, r[a] = r[b]
          PROVE  a = b
      <3>1. PICK c \in 1 .. Len(s) : c = (IF a < i THEN a ELSE a + 1) /\ r[a] = s[c]
        BY <1>1, <2>1
      <3>2. PICK d \in 1 .. Len(s) : d = (IF b < i THEN b ELSE b + 1) /\ r[b] = s[d]
        BY <1>1, <2>1
      <3>3. c = d
        BY <2>1, <2>2, <3>1, <3>2 DEF IsInjective
      <3> QED
        BY <2>1, <3>1, <3>2, <3>3
    <2> QED
      BY <2>1, <2>2 DEF IsInjective
  <1>3. ToSet(r) = ToSet(s) \ {s[i]}
    <2>1. ASSUME NEW j \in 1 .. Len(s), j # i  PROVE s[j] \in ToSet(r)
      <3>1. CASE j < i
        BY <1>1, <3>1 DEF ToSet
      <3>2. CASE j > i
        <4>1. j - 1 \in 1 .. Len(s) - 1 /\ r[j - 1] = s[j]
          BY <1>1, <3>2
        <4> QED
          BY <1>1, <4>1 DEF ToSet
      <3> QED
        BY <2>1, <3>1, <3>2
    <2>2. ASSUME NEW j \in 1 .. Len(r)  PROVE r[j] \in ToSet(s) \ {s[i]}
      <3>1. PICK k \in 1 .. Len(s) : r[j] = s[k] /\ k # i
        <4>1. CASE j < i
          BY <1>1, <4>1
        <4>2. CASE ~(j < i)
          <5>1. j + 1 \in 1 .. Len(s) /\ j + 1 # i /\ r[j] = s[j + 1]
            BY <1>1, <4>2
          <5> QED
            BY <5>1
        <4> QED
          BY <4>1, <4>2
      <3> QED
        BY <3>1 DEF IsInjective, ToSet
    <2>3. DOMAIN s = 1 .. Len(s) /\ DOMAIN r = 1 .. Len(r)
      BY <1>1
    <2>4. ASSUME NEW y \in ToSet(r)  PROVE y \in ToSet(s) \ {s[i]}
      <3>1. PICK j \in 1 .. Len(r) : y = r[j]
        BY <2>3 DEF ToSet
      <3> QED
        BY <2>2, <3>1
    <2>5. ASSUME NEW y \in ToSet(s) \ {s[i]}  PROVE y \in ToSet(r)
      <3>1. PICK j \in 1 .. Len(s) : y = s[j]
        BY <2>3 DEF ToSet
      <3> QED
        BY <2>1, <2>5, <3>1
    <2> QED
      BY <2>4, <2>5
  <1> QED
    BY <1>1, <1>2, <1>3 DEF r, RemoveAt

(* Taking the one occurrence of x out (indexOf and splice). *)
LEMMA RemoveFirstFacts ==
  ASSUME NEW S, NEW s \in Seq(S), IsInjective(s), NEW x
  PROVE  /\ RemoveFirst(s, x) \in Seq(S) /\ IsInjective(RemoveFirst(s, x))
         /\ ToSet(RemoveFirst(s, x)) = ToSet(s) \ {x}
  <1>1. CASE x \notin ToSet(s)
    <2>1. RemoveFirst(s, x) = s
      BY <1>1 DEF RemoveFirst, ToSet
    <2> QED
      BY <1>1, <2>1
  <1>2. CASE x \in ToSet(s)
    <2>1. PICK i \in 1 .. Len(s) : s[i] = x
      BY <1>2 DEF ToSet
    <2>2. SelectInSeq(s, LAMBDA v : v = x) = i
      <3>1. {j \in 1 .. Len(s) : s[j] = x} = {i}
        BY <2>1 DEF IsInjective
      <3>2. Min({i}) = i
        BY DEF Min
      <3> QED
        BY <3>1, <3>2 DEF SelectInSeq
    <2>3. RemoveFirst(s, x) = RemoveAt(s, i)
      BY <2>1, <2>2 DEF RemoveFirst
    <2> QED
      BY <2>1, <2>3, RemoveAtFacts
  <1> QED
    BY <1>1, <1>2

(* Adding x at the end (push). *)
LEMMA AppendFacts ==
  ASSUME NEW S, NEW s \in Seq(S), NEW x \in S
  PROVE  /\ Append(s, x) \in Seq(S) /\ ToSet(Append(s, x)) = ToSet(s) \cup {x}
         /\ IsInjective(s) /\ x \notin ToSet(s) => IsInjective(Append(s, x))
  <1>1. /\ Append(s, x) \in Seq(S) /\ DOMAIN Append(s, x) = 1 .. Len(s) + 1
        /\ DOMAIN s = 1 .. Len(s) /\ Len(s) \in Nat
        /\ \A i \in 1 .. Len(s) : Append(s, x)[i] = s[i]
        /\ Append(s, x)[Len(s) + 1] = x
    OBVIOUS
  <1>2. 1 .. Len(s) + 1 = (1 .. Len(s)) \cup {Len(s) + 1}
    BY <1>1
  <1>3. ToSet(Append(s, x)) = ToSet(s) \cup {x}
    BY <1>1, <1>2 DEF ToSet
  <1>4. IsInjective(s) /\ x \notin ToSet(s) => IsInjective(Append(s, x))
    BY <1>1, <1>2 DEF ToSet, IsInjective
  <1> QED
    BY <1>1, <1>3, <1>4

(* Taking the first element (shift). *)
LEMMA TailFacts ==
  ASSUME NEW S, NEW s \in Seq(S), s # <<>>
  PROVE  /\ Head(s) \in S /\ Tail(s) \in Seq(S)
         /\ ToSet(s) = ToSet(Tail(s)) \cup {Head(s)}
  <1>1. /\ Len(s) \in Nat /\ Len(s) # 0 /\ DOMAIN s = 1 .. Len(s)
        /\ Head(s) = s[1] /\ Tail(s) \in Seq(S) /\ DOMAIN Tail(s) = 1 .. Len(s) - 1
        /\ \A i \in 1 .. Len(s) - 1 : Tail(s)[i] = s[i + 1]
    OBVIOUS
  <1>2. ASSUME NEW i \in 1 .. Len(s)  PROVE s[i] \in ToSet(Tail(s)) \cup {Head(s)}
    <2>1. CASE i = 1
      BY <1>1, <2>1
    <2>2. CASE i # 1
      <3>1. i - 1 \in 1 .. Len(s) - 1 /\ Tail(s)[i - 1] = s[i]
        BY <1>1, <2>2
      <3> QED
        BY <1>1, <3>1 DEF ToSet
    <2> QED
      BY <2>1, <2>2
  <1>3. ASSUME NEW i \in 1 .. Len(s) - 1  PROVE Tail(s)[i] \in ToSet(s)
    BY <1>1 DEF ToSet
  <1>4. Head(s) \in ToSet(s)
    BY <1>1 DEF ToSet
  <1> QED
    BY <1>1, <1>2, <1>3, <1>4 DEF ToSet

(* A sequence over S is one over every larger set. *)
LEMMA SeqWidens ==
  ASSUME NEW S, NEW T, S \subseteq T, NEW s \in Seq(S)  PROVE s \in Seq(T)
  <1>1. PICK n \in Nat : n = Len(s) /\ s \in [1 .. n -> S]
    OBVIOUS
  <1>2. s \in [1 .. n -> T]
    BY <1>1
  <1> QED
    BY <1>2

(* Elements of a sequence over S are in S. *)
LEMMA ElementsTyped ==
  ASSUME NEW S, NEW s \in Seq(S)
  PROVE  ToSet(s) \subseteq S /\ (s = <<>> <=> ToSet(s) = {})
  BY DEF ToSet

(* Running through a chain backwards reaches everyone (reverse). *)
LEMMA ReverseFacts ==
  ASSUME NEW S, NEW s \in Seq(S)
  PROVE  Reverse(s) \in Seq(S) /\ ToSet(Reverse(s)) = ToSet(s)
  <1>1. /\ Len(s) \in Nat /\ DOMAIN s = 1 .. Len(s)
        /\ DOMAIN Reverse(s) = 1 .. Len(s)
        /\ \A i \in 1 .. Len(s) : Reverse(s)[i] = s[(Len(s) - i) + 1]
    BY DEF Reverse
  <1>2. Reverse(s) \in Seq(S)
    BY DEF Reverse
  <1>3. ASSUME NEW i \in 1 .. Len(s)  PROVE s[i] \in ToSet(Reverse(s)) /\ Reverse(s)[i] \in ToSet(s)
    <2>1. (Len(s) - i) + 1 \in 1 .. Len(s) /\ Reverse(s)[(Len(s) - i) + 1] = s[i]
      BY <1>1
    <2> QED
      BY <1>1, <2>1 DEF ToSet
  <1> QED
    BY <1>1, <1>2, <1>3 DEF ToSet

(* One chain after the other. *)
LEMMA ConcatFacts ==
  ASSUME NEW S, NEW s \in Seq(S), NEW t \in Seq(S)
  PROVE  s \o t \in Seq(S) /\ ToSet(s \o t) = ToSet(s) \cup ToSet(t)
  <1>1. /\ s \o t \in Seq(S) /\ DOMAIN (s \o t) = 1 .. Len(s) + Len(t)
        /\ DOMAIN s = 1 .. Len(s) /\ DOMAIN t = 1 .. Len(t)
        /\ Len(s) \in Nat /\ Len(t) \in Nat
        /\ \A i \in 1 .. Len(s) : (s \o t)[i] = s[i]
        /\ \A i \in 1 .. Len(t) : (s \o t)[Len(s) + i] = t[i]
    OBVIOUS
  <1>2. ASSUME NEW i \in 1 .. Len(s) + Len(t)  PROVE (s \o t)[i] \in ToSet(s) \cup ToSet(t)
    <2>1. CASE i \in 1 .. Len(s)
      BY <1>1, <2>1 DEF ToSet
    <2>2. CASE i \notin 1 .. Len(s)
      <3>1. i - Len(s) \in 1 .. Len(t) /\ Len(s) + (i - Len(s)) = i
        BY <1>1, <2>2
      <3>2. (s \o t)[i] = t[i - Len(s)]
        BY <1>1, <3>1
      <3> QED
        BY <1>1, <3>1, <3>2 DEF ToSet
    <2> QED
      BY <2>1, <2>2
  <1>3. ASSUME NEW i \in 1 .. Len(t)  PROVE t[i] \in ToSet(s \o t)
    <2>1. Len(s) + i \in 1 .. Len(s) + Len(t)
      BY <1>1
    <2> QED
      BY <1>1, <2>1 DEF ToSet
  <1>4. ASSUME NEW i \in 1 .. Len(s)  PROVE s[i] \in ToSet(s \o t)
    <2>1. i \in 1 .. Len(s) + Len(t)
      BY <1>1
    <2> QED
      BY <1>1, <2>1 DEF ToSet
  <1>5. ToSet(s \o t) \subseteq ToSet(s) \cup ToSet(t)
    BY <1>1, <1>2 DEF ToSet
  <1>6. ToSet(s) \cup ToSet(t) \subseteq ToSet(s \o t)
    BY <1>1, <1>3, <1>4 DEF ToSet
  <1> QED
    BY <1>1, <1>5, <1>6

(* An ordered set is as long as it has elements, as far as one goes. *)
LEMMA SingleFacts ==
  ASSUME NEW S, NEW s \in Seq(S), IsInjective(s)
  PROVE  Len(s) <= 1 <=> \A x, y \in ToSet(s) : x = y
  <1>1. DOMAIN s = 1 .. Len(s) /\ Len(s) \in Nat
    OBVIOUS
  <1>2. CASE Len(s) <= 1
    BY <1>1, <1>2 DEF ToSet
  <1>3. CASE Len(s) > 1
    <2>1. 1 \in DOMAIN s /\ 2 \in DOMAIN s
      BY <1>1, <1>3
    <2>2. s[1] # s[2]
      BY <2>1 DEF IsInjective
    <2> QED
      BY <1>3, <2>1, <2>2 DEF ToSet
  <1> QED
    BY <1>1, <1>2, <1>3

(* A list of one element at most. *)
LEMMA OneOrNone ==
  ASSUME NEW S, NEW s \in Seq(S), Len(s) <= 1
  PROVE  s = <<>> \/ \E x \in S : s = <<x>> /\ ToSet(s) = {x}
  <1>1. PICK n \in Nat : n = Len(s) /\ s \in [1 .. n -> S]
    OBVIOUS
  <1>2. CASE n = 0
    BY <1>1, <1>2
  <1>3. CASE n = 1
    <2>1. s[1] \in S /\ DOMAIN s = {1}
      BY <1>1, <1>3
    <2>2. s = <<s[1]>>
      BY <1>1, <1>3, <2>1
    <2>3. ToSet(s) = {s[1]}
      BY <2>1 DEF ToSet
    <2> QED
      BY <2>1, <2>2, <2>3
  <1> QED
    BY <1>1, <1>2, <1>3

=============================================================================
