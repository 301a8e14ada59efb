---------------------------- MODULE AgentInvariant ----------------------------
(***************************************************************************)
(* What the proofs about Agent rest on: lemmas about its data (what Kept   *)
(* keeps of a sequence, the sequences SetToSeq and SetToSeqs make of a     *)
(* finite set, the records of frames, requests, clients and callbacks),    *)
(* its inductive invariant, and what its larger actions do, said without   *)
(* the sequences and records they do it with.                              *)
(***************************************************************************)
EXTENDS Agent, SequenceTheorems, FiniteSetTheorems, WellFoundedInduction, TLAPS

-----------------------------------------------------------------------------
(* Sequences.                                                              *)

\* A set of numbers that is not empty has a least element.
LEMMA NatMin ==
    ASSUME NEW S \in SUBSET Nat, S # {}
    PROVE  \E i \in S : \A j \in S : i <= j
<1> DEFINE R == {ss \in Nat \X Nat : ss[1] < ss[2]}
<1>1. IsWellFoundedOn(R, Nat)
  BY NatLessThanWellFounded, Zenon DEF OpToRel
<1>2. PICK x \in S : \A y \in S : ~(<<y, x>> \in R)
  <2> HIDE DEF R
  <2> QED  BY <1>1, WFMin
<1>3. \A y \in S : ~(y < x)
  BY <1>2
<1> QED  BY <1>3

\* The recursion of Kept has a solution.
LEMMA KeptDef ==
    ASSUME NEW s, NEW places, Len(s) \in Nat
    PROVE  \E k : /\ k = [n \in 0..Len(s) |->
                        IF n = 0 THEN <<>>
                        ELSE IF n \in places THEN Append(k[n - 1], s[n]) ELSE k[n - 1]]
                  /\ Kept(s, places) = k[Len(s)]
<1> DEFINE Solves(k, m) == k = [n \in 0..m |-> IF n = 0 THEN <<>> ELSE IF n \in places THEN Append(k[n - 1], s[n]) ELSE k[n - 1]]
           Bad == {m \in Nat : ~\E k : Solves(k, m)}
<1>1. Bad = {}
  <2> SUFFICES ASSUME Bad # {} PROVE FALSE
    OBVIOUS
  <2>1. PICK m \in Bad : \A j \in Bad : m <= j
    <3> HIDE DEF Bad
    <3>1. Bad \in SUBSET Nat
      BY DEF Bad
    <3> QED  BY <3>1, NatMin
  <2>2. CASE m = 0
    <3> DEFINE k == [n \in 0..0 |-> <<>>]
    <3>1. \A n \in 0..0 : n = 0
      OBVIOUS
    <3>2. Solves(k, 0)
      BY <3>1
    <3> QED  BY <2>1, <2>2, <3>2
  <2>3. CASE m # 0
    <3>1. m \in Nat \ {0} /\ m - 1 \in Nat /\ m - 1 \notin Bad
      <4>1. m \in Nat
        BY <2>1
      <4> HIDE DEF Bad
      <4> QED  BY <2>1, <2>3, <4>1
    <3>2. PICK k : Solves(k, m - 1)
      <4> HIDE DEF Solves
      <4> QED  BY <3>1
    <3> DEFINE l == [n \in 0..m |-> IF n = m THEN IF m \in places THEN Append(k[m - 1], s[m]) ELSE k[m - 1] ELSE k[n]]
    <3>3. Solves(l, m)
      <4> SUFFICES ASSUME NEW n \in 0..m
                   PROVE  l[n] = IF n = 0 THEN <<>> ELSE IF n \in places THEN Append(l[n - 1], s[n]) ELSE l[n - 1]
        OBVIOUS
      <4>1. CASE n = m
        BY <2>3, <3>1, <4>1
      <4>2. CASE n # m
        <5>1. n \in 0..(m - 1) /\ (n # 0 => n - 1 \in 0..(m - 1))
          BY <4>2
        <5>2. l[n] = k[n] /\ (n # 0 => l[n - 1] = k[n - 1])
          BY <5>1
        <5> QED  BY <3>2, <5>1, <5>2
      <4> QED  BY <4>1, <4>2
    <3> QED  BY <2>1, <3>3
  <2> QED  BY <2>2, <2>3
<1> DEFINE kept == CHOOSE k : Solves(k, Len(s))
<1>2. Kept(s, places) = kept[Len(s)]
  BY Zenon DEF Kept
<1>3. Solves(kept, Len(s))
  <2>1. \E k : Solves(k, Len(s))
    BY <1>1
  <2> HIDE DEF Solves
  <2> QED  BY <2>1
<1> QED  BY <1>2, <1>3

\* Kept takes the elements one after the other.
LEMMA KeptSteps ==
    ASSUME NEW S, NEW s \in Seq(S), NEW places
    PROVE  \E k : /\ k[0] = <<>> /\ Kept(s, places) = k[Len(s)]
                  /\ \A n \in 1..Len(s) :
                        k[n] = IF n \in places THEN Append(k[n - 1], s[n]) ELSE k[n - 1]
<1>1. PICK k : /\ k = [n \in 0..Len(s) |->
                        IF n = 0 THEN <<>>
                        ELSE IF n \in places THEN Append(k[n - 1], s[n]) ELSE k[n - 1]]
               /\ Kept(s, places) = k[Len(s)]
  <2>1. Len(s) \in Nat
    OBVIOUS
  <2> QED  BY <2>1, KeptDef
<1>2. 0 \in 0..Len(s) /\ \A n \in 1..Len(s) : n \in 0..Len(s) /\ n # 0
  OBVIOUS
<1>3. k[0] = <<>>
  BY <1>1, <1>2
<1>4. ASSUME NEW n \in 1..Len(s)
      PROVE  k[n] = IF n \in places THEN Append(k[n - 1], s[n]) ELSE k[n - 1]
  BY <1>1, <1>2
<1> QED  BY <1>1, <1>3, <1>4

\* What Kept keeps: the elements at the places, and no others.
LEMMA KeptElements ==
    ASSUME NEW S, NEW s \in Seq(S), NEW places
    PROVE  /\ Kept(s, places) \in Seq(S)
           /\ \A i \in 1..Len(Kept(s, places)) :
                \E j \in 1..Len(s) : j \in places /\ s[j] = Kept(s, places)[i]
           /\ \A j \in 1..Len(s) : j \in places =>
                \E i \in 1..Len(Kept(s, places)) : Kept(s, places)[i] = s[j]
<1>1. PICK k : /\ k[0] = <<>> /\ Kept(s, places) = k[Len(s)]
               /\ \A n \in 1..Len(s) :
                    k[n] = IF n \in places THEN Append(k[n - 1], s[n]) ELSE k[n - 1]
  BY KeptSteps
<1> DEFINE Good(n) == /\ k[n] \in Seq(S)
                      /\ \A x : (\E i \in 1..Len(k[n]) : k[n][i] = x)
                                    <=> (\E j \in 1..n : j \in places /\ s[j] = x)
           Bad == {n \in 0..Len(s) : ~Good(n)}
<1>2. Bad = {}
  <2>1. SUFFICES ASSUME Bad # {} PROVE FALSE
    OBVIOUS
  <2>2. PICK n \in 0..Len(s) : ~Good(n) /\ \A j \in 0..Len(s) : ~Good(j) => n <= j
    <3> HIDE DEF Good
    <3>1. Bad \in SUBSET Nat
      OBVIOUS
    <3> QED  BY <2>1, <3>1, NatMin
  <2>3. Good(0)
    BY <1>1
  <2>4. n \in 1..Len(s) /\ n - 1 \in 0..Len(s) /\ Good(n - 1)
    <3> HIDE DEF Good
    <3> QED  BY <2>2, <2>3
  <2>5. s[n] \in S
    BY <2>4
  <2>6. \A j \in 1..n : j = n \/ j \in 1..(n - 1)
    BY <2>4
  <2>7. \A j \in 1..(n - 1) : j \in 1..n
    BY <2>4
  <2>8. n \in 1..n
    BY <2>4
  <2>9. CASE n \in places
    <3>1. k[n] = Append(k[n - 1], s[n])
      BY <1>1, <2>4, <2>9
    <3>2. /\ k[n] \in Seq(S) /\ Len(k[n]) = Len(k[n - 1]) + 1 /\ k[n][Len(k[n])] = s[n]
          /\ \A i \in 1..Len(k[n - 1]) : k[n][i] = k[n - 1][i]
          /\ Len(k[n - 1]) \in Nat
      BY <2>4, <2>5, <3>1
    <3>3. ASSUME NEW x
          PROVE  (\E i \in 1..Len(k[n]) : k[n][i] = x) <=> x = s[n] \/ (\E i \in 1..Len(k[n - 1]) : k[n - 1][i] = x)
      <4>1. \A i : i \in 1..Len(k[n]) <=> i = Len(k[n]) \/ i \in 1..Len(k[n - 1])
        BY <3>2
      <4> QED  BY <3>2, <4>1
    <3>4. ASSUME NEW x
          PROVE  (\E j \in 1..n : j \in places /\ s[j] = x)
                    <=> x = s[n] \/ (\E j \in 1..(n - 1) : j \in places /\ s[j] = x)
      <4>1. \A j : j \in 1..n <=> j = n \/ j \in 1..(n - 1)
        BY <2>6, <2>7, <2>8
      <4> QED  BY <2>9, <4>1
    <3>5. \A x : (\E i \in 1..Len(k[n - 1]) : k[n - 1][i] = x)
                    <=> (\E j \in 1..(n - 1) : j \in places /\ s[j] = x)
      BY <2>4
    <3>6. \A x : (\E i \in 1..Len(k[n]) : k[n][i] = x) <=> (\E j \in 1..n : j \in places /\ s[j] = x)
      BY <3>3, <3>4, <3>5
    <3> QED  BY <2>2, <3>2, <3>6
  <2>10. CASE n \notin places
    <3>1. k[n] = k[n - 1]
      BY <1>1, <2>4, <2>10
    <3> QED  BY <2>2, <2>4, <2>6, <2>7, <2>10, <3>1
  <2> QED  BY <2>9, <2>10
<1>3. Good(Len(s))
  <2> HIDE DEF Good
  <2> QED  BY <1>2
<1>4. /\ k[Len(s)] \in Seq(S)
      /\ \A i \in 1..Len(k[Len(s)]) : \E j \in 1..Len(s) : j \in places /\ s[j] = k[Len(s)][i]
      /\ \A j \in 1..Len(s) : j \in places => \E i \in 1..Len(k[Len(s)]) : k[Len(s)][i] = s[j]
  BY <1>3
<1> QED  BY <1>1, <1>4

\* Elements behind the last place are left out.
LEMMA KeptPrefix ==
    ASSUME NEW S, NEW s \in Seq(S), NEW t \in Seq(S), NEW P, NEW Q, Len(s) <= Len(t),
           \A i \in 1..Len(s) : s[i] = t[i] /\ (i \in P <=> i \in Q),
           \A i \in (Len(s) + 1)..Len(t) : i \notin Q
    PROVE  Kept(t, Q) = Kept(s, P)
<1>1. PICK k : /\ k[0] = <<>> /\ Kept(s, P) = k[Len(s)]
               /\ \A n \in 1..Len(s) :
                    k[n] = IF n \in P THEN Append(k[n - 1], s[n]) ELSE k[n - 1]
  BY KeptSteps
<1>2. PICK l : /\ l[0] = <<>> /\ Kept(t, Q) = l[Len(t)]
               /\ \A n \in 1..Len(t) :
                    l[n] = IF n \in Q THEN Append(l[n - 1], t[n]) ELSE l[n - 1]
  BY KeptSteps
<1> DEFINE Bad == {n \in 0..Len(t) : l[n] # k[IF n <= Len(s) THEN n ELSE Len(s)]}
<1>3. Bad = {}
  <2>1. SUFFICES ASSUME Bad # {} PROVE FALSE
    OBVIOUS
  <2>2. PICK n \in Bad : \A j \in Bad : n <= j
    <3>1. Bad \in SUBSET Nat
      OBVIOUS
    <3> HIDE DEF Bad
    <3> QED  BY <2>1, <3>1, NatMin
  <2>3. Len(s) \in Nat /\ Len(t) \in Nat
    OBVIOUS
  <2>4. n \in 1..Len(t) /\ n - 1 \in 0..Len(t) /\ n - 1 \notin Bad
    <3>1. 0 \notin Bad
      BY <1>1, <1>2, <2>3
    <3>2. n \in 0..Len(t)
      OBVIOUS
    <3> HIDE DEF Bad
    <3> QED  BY <2>2, <2>3, <3>1, <3>2
  <2>5. CASE n <= Len(s)
    <3>1. n \in 1..Len(s) /\ n - 1 <= Len(s)
      BY <2>3, <2>4, <2>5
    <3>2. l[n - 1] = k[n - 1] /\ l[n] # k[n]
      BY <2>4, <2>5, <3>1
    <3> QED  BY <1>1, <1>2, <2>4, <3>1, <3>2
  <2>6. CASE ~(n <= Len(s))
    <3>1. n \in (Len(s) + 1)..Len(t)
      BY <2>3, <2>4, <2>6
    <3>2. l[n - 1] = k[Len(s)] /\ l[n] # k[Len(s)]
      BY <2>3, <2>4, <2>6
    <3> QED  BY <1>2, <2>4, <3>1, <3>2
  <2> QED  BY <2>5, <2>6
<1>4. Len(s) \in Nat /\ Len(t) \in Nat /\ Len(t) \notin Bad
  <2> HIDE DEF Bad
  <2> QED  BY <1>3
<1>5. l[Len(t)] = k[Len(s)]
  BY <1>4
<1> QED  BY <1>1, <1>2, <1>5

\* An element at a place, behind all others, comes last.
LEMMA KeptLast ==
    ASSUME NEW S, NEW s \in Seq(S), NEW x \in S, NEW P, NEW Q,
           \A i \in 1..Len(s) : i \in P <=> i \in Q, Len(s) + 1 \in Q
    PROVE  Kept(Append(s, x), Q) = Append(Kept(s, P), x)
<1> DEFINE t == Append(s, x)
<1>1. /\ t \in Seq(S) /\ Len(t) = Len(s) + 1 /\ t[Len(t)] = x /\ Len(s) \in Nat
      /\ \A i \in 1..Len(s) : t[i] = s[i]
  OBVIOUS
<1> HIDE DEF t
<1>2. PICK l : /\ l[0] = <<>> /\ Kept(t, Q) = l[Len(t)]
               /\ \A n \in 1..Len(t) :
                    l[n] = IF n \in Q THEN Append(l[n - 1], t[n]) ELSE l[n - 1]
  BY <1>1, KeptSteps
<1>3. Kept(t, Q) = Append(l[Len(s)], x)
  <2>1. Len(t) \in 1..Len(t) /\ Len(t) - 1 = Len(s)
    BY <1>1
  <2> QED  BY <1>1, <1>2, <2>1
<1>4. PICK k : /\ k[0] = <<>> /\ Kept(s, P) = k[Len(s)]
               /\ \A n \in 1..Len(s) :
                    k[n] = IF n \in P THEN Append(k[n - 1], s[n]) ELSE k[n - 1]
  BY KeptSteps
<1> DEFINE Bad == {n \in 0..Len(s) : l[n] # k[n]}
<1>5. Bad = {}
  <2>1. SUFFICES ASSUME Bad # {} PROVE FALSE
    OBVIOUS
  <2>2. PICK n \in Bad : \A j \in Bad : n <= j
    <3>1. Bad \in SUBSET Nat
      OBVIOUS
    <3> HIDE DEF Bad
    <3> QED  BY <2>1, <3>1, NatMin
  <2>3. n \in 1..Len(s) /\ n \in 1..Len(t) /\ n - 1 \in 0..Len(s) /\ n - 1 \notin Bad
    <3>1. 0 \notin Bad
      BY <1>2, <1>4
    <3>2. n \in 0..Len(s)
      OBVIOUS
    <3> HIDE DEF Bad
    <3> QED  BY <1>1, <2>2, <3>1, <3>2
  <2>4. l[n - 1] = k[n - 1] /\ l[n] # k[n]
    BY <2>3
  <2> QED  BY <1>1, <1>2, <1>4, <2>3, <2>4
<1>6. Len(s) \notin Bad
  <2> HIDE DEF Bad
  <2> QED  BY <1>5
<1>7. l[Len(s)] = k[Len(s)]
  BY <1>1, <1>6
<1> QED  BY <1>3, <1>4, <1>7 DEF t

\* The first element comes first, if its place is one of them.
LEMMA KeptFirst ==
    ASSUME NEW S, NEW s \in Seq(S), s # <<>>, NEW P, NEW Q,
           \A i \in 1..(Len(s) - 1) : i \in Q <=> i + 1 \in P
    PROVE  Kept(s, P) = IF 1 \in P THEN <<Head(s)>> \o Kept(Tail(s), Q) ELSE Kept(Tail(s), Q)
<1> DEFINE t == Tail(s)
<1>1. /\ t \in Seq(S) /\ Len(t) = Len(s) - 1 /\ Len(s) \in Nat \ {0} /\ Head(s) = s[1] /\ s[1] \in S
      /\ \A i \in 1..Len(t) : t[i] = s[i + 1]
  OBVIOUS
<1> HIDE DEF t
<1>2. PICK k : /\ k[0] = <<>> /\ Kept(s, P) = k[Len(s)]
               /\ \A n \in 1..Len(s) :
                    k[n] = IF n \in P THEN Append(k[n - 1], s[n]) ELSE k[n - 1]
  BY KeptSteps
<1>3. PICK l : /\ l[0] = <<>> /\ Kept(t, Q) = l[Len(t)]
               /\ \A n \in 1..Len(t) :
                    l[n] = IF n \in Q THEN Append(l[n - 1], t[n]) ELSE l[n - 1]
  BY <1>1, KeptSteps
<1>4. PICK first \in Seq(S) : first = IF 1 \in P THEN <<s[1]>> ELSE <<>>
  <2>1. <<s[1]>> \in Seq(S) /\ <<>> \in Seq(S)
    BY <1>1
  <2> QED  BY <2>1
<1>5. k[1] = first
  <2>1. 1 \in 1..Len(s) /\ 1 - 1 = 0
    BY <1>1
  <2>2. k[1] = IF 1 \in P THEN Append(<<>>, s[1]) ELSE <<>>
    BY <1>2, <2>1
  <2> QED  BY <1>4, <2>2
<1> DEFINE Good(n) == l[n] \in Seq(S) /\ k[n + 1] = first \o l[n]
           Bad == {n \in 0..Len(t) : ~Good(n)}
<1>6. Bad = {}
  <2>1. SUFFICES ASSUME Bad # {} PROVE FALSE
    OBVIOUS
  <2>2. PICK n \in 0..Len(t) : ~Good(n) /\ \A j \in 0..Len(t) : ~Good(j) => n <= j
    <3> HIDE DEF Good
    <3>1. Bad \in SUBSET Nat
      BY <1>1
    <3> QED  BY <2>1, <3>1, NatMin
  <2>3. Good(0)
    BY <1>3, <1>4, <1>5
  <2>4. n \in 1..Len(t) /\ n - 1 \in 0..Len(t) /\ Good(n - 1) /\ n \in Nat /\ n + 1 \in 1..Len(s)
    <3> HIDE DEF Good
    <3> QED  BY <1>1, <2>2, <2>3
  <2>5. /\ l[n - 1] \in Seq(S) /\ k[n] = first \o l[n - 1] /\ s[n + 1] = t[n] /\ t[n] \in S
        /\ (n + 1) - 1 = n /\ (n - 1) + 1 = n
    BY <1>1, <2>4
  <2>6. l[n] = IF n \in Q THEN Append(l[n - 1], t[n]) ELSE l[n - 1]
    BY <1>3, <2>4
  <2>7. k[n + 1] = IF n \in Q THEN Append(first \o l[n - 1], t[n]) ELSE first \o l[n - 1]
    <3>1. n \in Q <=> n + 1 \in P
      BY <1>1, <2>4
    <3> QED  BY <1>2, <2>4, <2>5, <3>1
  <2>8. Append(first \o l[n - 1], t[n]) = first \o Append(l[n - 1], t[n])
    <3>1. ASSUME NEW q \in Seq(S), NEW x \in S
          PROVE  Append(first \o q, x) = first \o Append(q, x)
      <4>1. <<x>> \in Seq(S) /\ first \o q \in Seq(S)
        OBVIOUS
      <4>2. Append(q, x) = q \o <<x>> /\ Append(first \o q, x) = (first \o q) \o <<x>>
        BY <4>1, AppendIsConcat
      <4> QED  BY <4>1, <4>2, ConcatAssociative, SMTT(20)
    <3>2. l[n - 1] \in Seq(S) /\ t[n] \in S
      BY <2>5
    <3> QED  BY <3>1, <3>2
  <2>9. l[n] \in Seq(S) /\ k[n + 1] = first \o l[n]
    <3>1. Append(l[n - 1], t[n]) \in Seq(S)
      BY <2>5, AppendProperties
    <3> QED  BY <2>5, <2>6, <2>7, <2>8, <3>1, Zenon
  <2> QED  BY <2>2, <2>9
<1>7. k[Len(s)] = first \o l[Len(t)] /\ l[Len(t)] \in Seq(S)
  <2>1. Good(Len(t)) /\ Len(t) + 1 = Len(s)
    <3> HIDE DEF Good
    <3> QED  BY <1>1, <1>6
  <2> QED  BY <2>1
<1>8. Kept(s, P) = first \o Kept(t, Q) /\ Kept(t, Q) \in Seq(S)
  BY <1>2, <1>3, <1>7
<1>9. <<>> \o Kept(t, Q) = Kept(t, Q)
  BY <1>8, ConcatEmptySeq
<1> QED  BY <1>1, <1>4, <1>8, <1>9 DEF t

\* An injection from the first numbers into a finite set of as many elements is
\* a sequence of all its elements.
LEMMA InjectiveSeq ==
    ASSUME NEW S, IsFiniteSet(S), NEW f \in [1..Cardinality(S) -> S], IsInjective(f)
    PROVE  f \in Seq(S) /\ Len(f) = Cardinality(S) /\ \A x \in S : \E i \in 1..Len(f) : f[i] = x
<1>1. Cardinality(S) \in Nat
  BY FS_CardinalityType
<1>2. IsFiniteSet(1..Cardinality(S)) /\ Cardinality(1..Cardinality(S)) = Cardinality(S)
  BY <1>1, FS_Interval
<1>3. f \in Injection(1..Cardinality(S), S)
  BY DEF Injection, IsInjective
<1>4. f \in Surjection(1..Cardinality(S), S)
  BY <1>2, <1>3, FS_Injection
<1>5. f \in Seq(S) /\ Len(f) = Cardinality(S)
  BY <1>1
<1> QED  BY <1>4, <1>5 DEF Surjection

\* SetToSeq of a finite set is a sequence of its elements.
LEMMA SetToSeqElements ==
    ASSUME NEW S, IsFiniteSet(S)
    PROVE  /\ SetToSeq(S) \in Seq(S) /\ Len(SetToSeq(S)) = Cardinality(S)
           /\ \A x \in S : \E i \in 1..Len(SetToSeq(S)) : SetToSeq(S)[i] = x
<1>1. \E f : f \in Injection(1..Cardinality(S), S)
  <2>1. Cardinality(S) \in Nat
    BY FS_CardinalityType
  <2>2. IsFiniteSet(1..Cardinality(S)) /\ Cardinality(1..Cardinality(S)) = Cardinality(S)
    BY <2>1, FS_Interval
  <2>3. ExistsBijection(1..Cardinality(S), S)
    BY <2>2, FS_SameCardinalityBij
  <2> QED  BY <2>3 DEF ExistsBijection, Bijection
<1>2. \E f \in [1..Cardinality(S) -> S] : IsInjective(f)
  BY <1>1 DEF Injection
<1>3. SetToSeq(S) \in [1..Cardinality(S) -> S] /\ IsInjective(SetToSeq(S))
  BY <1>2 DEF SetToSeq
<1> QED  BY <1>3, InjectiveSeq

\* So are those of SetToSeqs.
LEMMA SetToSeqsElements ==
    ASSUME NEW S, IsFiniteSet(S), NEW f \in SetToSeqs(S)
    PROVE  f \in Seq(S) /\ Len(f) = Cardinality(S) /\ \A x \in S : \E i \in 1..Len(f) : f[i] = x
<1>1. f \in [1..Cardinality(S) -> S] /\ IsInjective(f)
  BY DEF SetToSeqs, IsInjective
<1> QED  BY <1>1, InjectiveSeq

\* A function with one value replaced.
LEMMA UpdateAt ==
    ASSUME NEW A, NEW B, NEW f \in [A -> B], NEW a \in A, NEW b \in B
    PROVE  /\ [f EXCEPT ![a] = b] \in [A -> B]
           /\ \A x \in A : [f EXCEPT ![a] = b][x] = IF x = a THEN b ELSE f[x]
OBVIOUS

\* An element added at the end, the first one taken, and two sequences joined.
LEMMA AppendElements ==
    ASSUME NEW S, NEW s \in Seq(S), NEW x \in S
    PROVE  /\ Append(s, x) \in Seq(S) /\ Len(s) \in Nat /\ Len(Append(s, x)) = Len(s) + 1
           /\ \A i \in 1..Len(s) : Append(s, x)[i] = s[i]
           /\ Append(s, x)[Len(s) + 1] = x
OBVIOUS
LEMMA TailElements ==
    ASSUME NEW S, NEW s \in Seq(S), s # <<>>
    PROVE  /\ Tail(s) \in Seq(S) /\ Len(s) \in Nat \ {0} /\ Len(Tail(s)) = Len(s) - 1
           /\ Head(s) = s[1] /\ s[1] \in S
           /\ \A i \in 1..Len(Tail(s)) : i + 1 \in 1..Len(s) /\ Tail(s)[i] = s[i + 1]
           /\ \A i \in 1..Len(s) : i = 1 \/ (i - 1 \in 1..Len(Tail(s)) /\ Tail(s)[i - 1] = s[i])
<1>1. /\ Tail(s) \in Seq(S) /\ Len(s) \in Nat \ {0} /\ Len(Tail(s)) = Len(s) - 1
      /\ Head(s) = s[1] /\ s[1] \in S
      /\ \A i \in 1..Len(Tail(s)) : Tail(s)[i] = s[i + 1]
  OBVIOUS
<1> DEFINE t == Tail(s)
<1> HIDE DEF t
<1>2. \A i \in 1..Len(t) : i + 1 \in 1..Len(s)
  BY <1>1 DEF t
<1>3. \A i \in 1..Len(s) : i = 1 \/ (i - 1 \in 1..Len(t) /\ t[i - 1] = s[i])
  <2> SUFFICES ASSUME NEW i \in 1..Len(s), i # 1 PROVE i - 1 \in 1..Len(t) /\ t[i - 1] = s[i]
    OBVIOUS
  <2>1. i - 1 \in 1..Len(t) /\ (i - 1) + 1 = i
    BY <1>1 DEF t
  <2>2. \A k \in 1..Len(t) : t[k] = s[k + 1]
    BY <1>1 DEF t
  <2> QED  BY <2>1, <2>2
<1> QED  BY <1>1, <1>2, <1>3 DEF t
LEMMA ConcatElements ==
    ASSUME NEW S, NEW s \in Seq(S), NEW t \in Seq(S)
    PROVE  /\ s \o t \in Seq(S) /\ Len(s \o t) = Len(s) + Len(t) /\ Len(s) \in Nat /\ Len(t) \in Nat
           /\ \A i \in 1..Len(s) : i \in 1..Len(s \o t) /\ (s \o t)[i] = s[i]
           /\ \A i \in 1..Len(t) : Len(s) + i \in 1..Len(s \o t) /\ (s \o t)[Len(s) + i] = t[i]
           /\ \A i \in 1..Len(s \o t) : i \in 1..Len(s) \/ i - Len(s) \in 1..Len(t)
<1>1. /\ s \o t \in Seq(S) /\ Len(s \o t) = Len(s) + Len(t) /\ Len(s) \in Nat /\ Len(t) \in Nat
  OBVIOUS
<1>2. /\ \A i \in 1..Len(s) : i \in 1..Len(s \o t) /\ (s \o t)[i] = s[i]
  OBVIOUS
<1>3. /\ \A i \in 1..Len(t) : Len(s) + i \in 1..Len(s \o t) /\ (s \o t)[Len(s) + i] = t[i]
  OBVIOUS
<1>4. /\ \A i \in 1..Len(s \o t) : i \in 1..Len(s) \/ i - Len(s) \in 1..Len(t)
  BY <1>1
<1> QED  BY <1>1, <1>2, <1>3, <1>4

-----------------------------------------------------------------------------
(* Records: the values the variables take.                                 *)

Efsws == [key : Keys, efswId : Nat]
Changes == Paths \X Nat
Events == [efsw : Efsws, change : Changes]
RawEvents == [efsw : Efsws, change : Changes \cup {Missed}]
Pushes == [pc : {"push"}, efsw : Efsws, change : Changes \cup {Missed}, id : Ids]
Opened == [kind : {"watch"}, id : Ids, key : Keys, efswId : Nat]
Refused == [kind : {"watch"}, id : Ids, path : Paths]
Unwatches == [kind : {"unwatch"}, id : Ids, efsw : Efsws \cup {None}]
Clients == {NotUsed} \cup [state : {"asked", "watching", "leaving"}, path : Paths]
Frames ==
    [type : {"PONG", "ERROR"}]
        \cup [type : {"WATCH_OK", "WATCH_ERROR", "MISSED_EVENTS"}, id : Ids]
        \cup [type : {"UNWATCH_OK"}, id : Ids, efsw : Efsws \cup {None}]
        \cup [type : {"EVENT_BATCH"}, id : Ids, events : Seq(Events)]

\* No efsw watch is None, no change is Missed.
LEMMA NoneFacts == None \notin Efsws /\ Missed \notin Changes
BY DEF None, Efsws, Missed, Changes

\* The fields of a frame, by its type.
LEMMA FrameFields ==
    ASSUME NEW f \in Frames
    PROVE  /\ f.type \in {"PONG", "ERROR", "WATCH_OK", "WATCH_ERROR", "MISSED_EVENTS", "UNWATCH_OK",
                          "EVENT_BATCH"}
           /\ f.type \notin {"PONG", "ERROR"} => f.id \in Ids
           /\ f.type = "UNWATCH_OK" => f.efsw \in Efsws \cup {None}
           /\ f.type = "EVENT_BATCH" => f.events \in Seq(Events)
BY DEF Frames

\* The frames that are sent.
LEMMA FramesMade ==
    /\ [type |-> "PONG"] \in Frames /\ [type |-> "ERROR"] \in Frames
    /\ \A id \in Ids :
        /\ [type |-> "WATCH_OK", id |-> id] \in Frames
        /\ [type |-> "WATCH_ERROR", id |-> id] \in Frames
        /\ [type |-> "MISSED_EVENTS", id |-> id] \in Frames
        /\ \A x \in Efsws \cup {None} : [type |-> "UNWATCH_OK", id |-> id, efsw |-> x] \in Frames
        /\ \A s \in Seq(Events) : [type |-> "EVENT_BATCH", id |-> id, events |-> s] \in Frames
BY DEF Frames

\* The client's state of an id, and the directory it has one for.
LEMMA ClientFields ==
    ASSUME NEW c \in Clients
    PROVE  /\ c = NotUsed <=> c.state = "none"
           /\ c.state \in {"none", "asked", "watching", "leaving"}
           /\ c # NotUsed => c.path \in Paths
           /\ \A s \in {"asked", "watching", "leaving"} : c # NotUsed =>
                /\ [c EXCEPT !.state = s] \in Clients
                /\ [c EXCEPT !.state = s].state = s /\ [c EXCEPT !.state = s].path = c.path
BY DEF Clients, NotUsed
LEMMA ClientMade ==
    ASSUME NEW p \in Paths, NEW s \in {"asked", "watching", "leaving"}
    PROVE  [state |-> s, path |-> p] \in Clients
BY DEF Clients

\* What a callback is about.
LEMMA CallbackFields ==
    ASSUME NEW cb \in {Idle} \cup Pushes
    PROVE  /\ cb # Idle <=> cb.pc = "push"
           /\ cb # Idle => /\ cb.efsw \in Efsws /\ cb.id \in Ids
                           /\ cb.change \in Changes \cup {Missed}
BY DEF Idle, Pushes

\* The steps of handle() are about requests of their own kind.
LEMMA RequestFields ==
    /\ \A r \in Refused : r.kind = "watch" /\ r.id \in Ids /\ r.path \in Paths /\ r # NoRequest
    /\ \A r \in Opened :
        /\ r.kind = "watch" /\ r.id \in Ids /\ r.key \in Keys /\ r.efswId \in Nat /\ r # NoRequest
        /\ Efsw(r) \in Efsws /\ Efsw(r).key = r.key /\ Efsw(r).efswId = r.efswId
    /\ \A r \in Unwatches : r.kind = "unwatch" /\ r.id \in Ids /\ r.efsw \in Efsws \cup {None} /\ r # NoRequest
<1>1. \A r \in Refused : r.kind = "watch" /\ r.id \in Ids /\ r.path \in Paths /\ r # NoRequest
  BY DEF Refused, NoRequest
<1>2. \A r \in Opened :
        /\ r.kind = "watch" /\ r.id \in Ids /\ r.key \in Keys /\ r.efswId \in Nat /\ r # NoRequest
        /\ Efsw(r) \in Efsws /\ Efsw(r).key = r.key /\ Efsw(r).efswId = r.efswId
  BY DEF Opened, NoRequest, Efsw, Efsws
<1>3. \A r \in Unwatches : r.kind = "unwatch" /\ r.id \in Ids /\ r.efsw \in Efsws \cup {None} /\ r # NoRequest
  BY DEF Unwatches, NoRequest
<1> QED  BY <1>1, <1>2, <1>3
LEMMA RequestsMade ==
    /\ \A id \in Ids, path \in Paths : [kind |-> "watch", id |-> id, path |-> path] \in Refused
    /\ \A id \in Ids, key \in Keys, n \in Nat :
        [kind |-> "watch", id |-> id, key |-> key, efswId |-> n] \in Opened
    /\ \A id \in Ids, x \in Efsws \cup {None} : [kind |-> "unwatch", id |-> id, efsw |-> x] \in Unwatches
BY DEF Refused, Opened, Unwatches

\* The efsw watch of a watch of a FileWatcher.
LEMMA EfswFields ==
    ASSUME NEW w \in [key : Keys, efswId : Nat, path : Paths]
    PROVE  /\ w.key \in Keys /\ w.efswId \in Nat /\ w.path \in Paths
           /\ Efsw(w) \in Efsws /\ Efsw(w).key = w.key /\ Efsw(w).efswId = w.efswId
BY DEF Efsw, Efsws

-----------------------------------------------------------------------------
(* The inductive invariant.                                                *)

WorldTypes == changes \in [Paths -> Nat] /\ losses \in Nat
BackendTypes ==
    /\ active \in SUBSET [key : Keys, efswId : Nat, path : Paths] /\ IsFiniteSet(active)
    /\ issued \in [Keys -> Nat]
    /\ raw \in [Keys -> Seq(RawEvents)] /\ callback \in [Keys -> {Idle} \cup Pushes]
    /\ watchers \in SUBSET Keys /\ closing \in SUBSET Keys
MainTypes ==
    /\ mpc \in {"read", "fallback", "error", "register", "watchOk", "removeWatch", "discard",
                "unwatchOk", "close", "join", "exited"}
    /\ handled \in Nat /\ code \in Nat
    /\ mWatches \in [Ids -> Efsws \cup {None}]
OutboxTypes ==
    /\ mOutgoing \in Seq(Frames)
    /\ mPendingEvents \in [Ids -> Seq(Events)] /\ mPendingMissed \in Seq(Ids)
    /\ mStop \in BOOLEAN
WriterTypes ==
    /\ wpc \in {"check", "waiting", "write", "done"}
    /\ flush \in Seq(Frames) /\ out \in Seq(Frames)
    /\ replied \in Nat /\ ended \in SUBSET Efsws
PeerTypes ==
    /\ client \in [Ids -> Clients] /\ known \in [Ids -> SUBSET Changes]
    /\ gone \in BOOLEAN

TypeOK == WorldTypes /\ BackendTypes /\ MainTypes /\ OutboxTypes /\ WriterTypes /\ PeerTypes

\* What handle() has of its request, at each of its steps.
RequestInv ==
    /\ mpc \in {"read", "close", "join"} => req = NoRequest
    /\ mpc \in {"fallback", "error"} => req \in Refused
    /\ mpc \in {"register", "watchOk"} => req \in Opened
    /\ mpc \in {"removeWatch", "discard", "unwatchOk"} => req \in Unwatches
    /\ mpc = "removeWatch" => req.efsw # None
    /\ mpc = "exited" => req = NoRequest \/ gone

Watching == mpc \in {"fallback", "error", "register", "watchOk"}
Unwatching == mpc \in {"removeWatch", "discard", "unwatchOk"}

\* The writer has frames exactly while it writes; what handle() sends is replies;
\* nothing is sent to a client that is gone.
WriterInv ==
    /\ Running => (wpc = "write" <=> flush # <<>>)
    /\ ~Running => wpc = "check"
    /\ \A i \in 1..Len(mOutgoing) : mOutgoing[i].type \notin {"EVENT_BATCH", "MISSED_EVENTS"}
    /\ gone => out = <<>>

\* The two maps are one relation, of one id for each watch.
MapInv ==
    /\ mByEfsw = {<<mWatches[id], id>> : id \in {i \in Ids : mWatches[i] # None}}
    /\ \A i, j \in Ids : mWatches[i] = mWatches[j] /\ mWatches[i] # None => i = j
    /\ \A id \in Ids : mWatches[id] # None =>
        /\ client[id].state \in {"asked", "watching"}
        /\ mWatches[id].efswId <= issued[mWatches[id].key]

\* The request that is about to change them.
PendingMapInv ==
    /\ Watching => client[req.id].state = "asked"
    /\ mpc \in {"fallback", "error", "register"} => mWatches[req.id] = None
    /\ mpc \in {"fallback", "error"} => req.path = client[req.id].path
    /\ mpc = "register" => req.efswId <= issued[req.key] /\ \A id \in Ids : mWatches[id] # Efsw(req)
    /\ mpc = "watchOk" => mWatches[req.id] = Efsw(req)
    /\ Unwatching => client[req.id].state = "leaving"
    /\ Unwatching /\ req.efsw # None =>
        req.efsw.efswId <= issued[req.efsw.key] /\ \A id \in Ids : mWatches[id] # req.efsw

\* The watches of the FileWatchers are those of the maps, but for the request.
ActiveInv ==
    mpc \notin {"close", "join", "exited"} =>
        /\ \A w \in active :
            \/ \E id \in Ids : mWatches[id] = Efsw(w)
            \/ mpc = "register" /\ Efsw(req) = Efsw(w)
            \/ mpc = "removeWatch" /\ req.efsw = Efsw(w)
        /\ \A id \in Ids : mWatches[id] # None => \E w \in active : Efsw(w) = mWatches[id]
        /\ mpc = "register" => \E w \in active : Efsw(w) = Efsw(req)

\* They watch the directory the client wants watched.
PathInv ==
    \A w \in active :
        /\ w.efswId <= issued[w.key]
        /\ \A id \in Ids : mWatches[id] = Efsw(w) => client[id].path = w.path
        /\ mpc = "register" /\ Efsw(req) = Efsw(w) => client[req.id].path = w.path

\* The native events are changes of those directories.
RawInv ==
    \A key \in Keys : \A i \in 1..Len(raw[key]) :
        /\ raw[key][i].efsw.key = key
        /\ raw[key][i].efsw.efswId <= issued[key]
        /\ raw[key][i].change # Missed =>
            /\ raw[key][i].change \in Made(raw[key][i].change[1])
            /\ \A id \in Ids : mWatches[id] = raw[key][i].efsw =>
                    raw[key][i].change[1] = client[id].path
            /\ mpc = "register" /\ Efsw(req) = raw[key][i].efsw =>
                    raw[key][i].change[1] = client[req.id].path

\* A callback is about a registered watch, or about the one that removeWatch waits
\* to remove.
CallbackInv ==
    \A key \in Keys : callback[key] # Idle =>
        /\ callback[key].efsw.key = key
        /\ \/ mWatches[callback[key].id] = callback[key].efsw
           \/ mpc = "removeWatch" /\ req.id = callback[key].id /\ req.efsw = callback[key].efsw
        /\ mWatches[callback[key].id] = callback[key].efsw /\ callback[key].change # Missed =>
            callback[key].change \in Made(client[callback[key].id].path)

\* What is pending is about a registered watch, or about one to be discarded.
PendingInv ==
    \A id \in Ids : \A i \in 1..Len(mPendingEvents[id]) :
        /\ \/ mWatches[id] = mPendingEvents[id][i].efsw
           \/ mpc \in {"removeWatch", "discard"} /\ req.id = id /\ req.efsw = mPendingEvents[id][i].efsw
        /\ mWatches[id] = mPendingEvents[id][i].efsw =>
            mPendingEvents[id][i].change \in Made(client[id].path)

\* What was sent and has not reached the client, oldest first.
Sent == (out \o flush) \o mOutgoing

\* The reply to a WATCH is the only one on its way about its id.
ReplyInv ==
    ~gone => \A i \in 1..Len(Sent) : Sent[i].type \in {"WATCH_OK", "WATCH_ERROR"} =>
        /\ client[Sent[i].id].state \in {"asked", "leaving"}
        /\ Watching => req.id # Sent[i].id
        /\ \A j \in 1..Len(Sent) :
            Sent[j].type \in {"WATCH_OK", "WATCH_ERROR"} /\ Sent[j].id = Sent[i].id => i = j

\* WATCH_OK is about a registered watch, unless that was removed since.
OkInv ==
    ~gone => \A i \in 1..Len(Sent) : Sent[i].type = "WATCH_OK" =>
        /\ Serving /\ client[Sent[i].id].state = "asked" => mWatches[Sent[i].id] # None
        /\ known[Sent[i].id] = {}

\* WATCH_ERROR is about none, and no event is on its way for its id.
ErrorInv ==
    ~gone => \A i \in 1..Len(Sent) :
        Sent[i].type = "WATCH_ERROR" /\ client[Sent[i].id].state = "asked" =>
            /\ mWatches[Sent[i].id] = None
            /\ \A j \in 1..Len(Sent) : Sent[j].type = "EVENT_BATCH" => Sent[j].id # Sent[i].id

\* UNWATCH_OK is the last thing sent about its id.
LeavingInv ==
    ~gone => \A i \in 1..Len(Sent) : Sent[i].type = "UNWATCH_OK" =>
        /\ client[Sent[i].id].state = "leaving"
        /\ Unwatching => req.id # Sent[i].id
        /\ \A j \in 1..Len(Sent) :
            /\ Sent[j].type \in {"WATCH_OK", "WATCH_ERROR", "UNWATCH_OK", "EVENT_BATCH"}
            /\ Sent[j].id = Sent[i].id
            => j <= i

\* A batch tells of the directory of the watch.
BatchInv ==
    ~gone => \A i \in 1..Len(Sent) : Sent[i].type = "EVENT_BATCH" =>
        /\ client[Sent[i].id] # NotUsed
        /\ Running /\ client[Sent[i].id].state = "asked" => mWatches[Sent[i].id] # None
        /\ client[Sent[i].id].state \in {"asked", "watching"} =>
            \A k \in 1..Len(Sent[i].events) :
                Sent[i].events[k].change \in Made(client[Sent[i].id].path)

\* What the client knows is of the directory of the watch.
KnownInv ==
    \A id \in Ids :
        /\ client[id] = NotUsed \/ client[id].state = "asked" => known[id] = {}
        /\ client[id].state = "watching" => known[id] \subseteq Made(client[id].path)
        /\ client[id].state = "watching" /\ Serving => mWatches[id] # None

\* The end of the watch x is told, or about to be.
Unwatched(x) ==
    \/ x \in ended
    \/ \E i \in 1..Len(flush) : flush[i].type = "UNWATCH_OK" /\ flush[i].efsw = x
    \/ \E i \in 1..Len(mOutgoing) : mOutgoing[i].type = "UNWATCH_OK" /\ mOutgoing[i].efsw = x
    \/ mpc = "unwatchOk" /\ req.efsw = x

\* It is not used again ...
EndedInv ==
    Running => \A x \in Efsws : Unwatched(x) =>
        /\ x.efswId <= issued[x.key] /\ \A id \in Ids : mWatches[id] # x
        /\ mpc = "register" => Efsw(req) # x
        /\ mpc \in {"removeWatch", "discard"} => req.efsw # x

\* ... and what the writer has of its events comes before.
TakenInv ==
    Running => \A j \in 1..Len(flush) : flush[j].type = "EVENT_BATCH" =>
        \A k \in 1..Len(flush[j].events) :
            /\ flush[j].events[k].efsw \notin ended
            /\ \A i \in 1..Len(flush) : i < j /\ flush[i].type = "UNWATCH_OK" =>
                flush[i].efsw # flush[j].events[k].efsw

\* A change, or in place of many a missed event, is on its way to the client.
Coming(id, c) ==
    \/ \E key \in Keys : \E i \in 1..Len(raw[key]) :
        raw[key][i].efsw = mWatches[id] /\ raw[key][i].change = c
    \/ \E key \in Keys : callback[key] # Idle /\ callback[key].id = id /\ callback[key].change = c
    \/ \E i \in 1..Len(mPendingEvents[id]) : mPendingEvents[id][i].change = c
    \/ c = Missed /\ \E i \in 1..Len(mPendingMissed) : mPendingMissed[i] = id
    \/ \E i \in 1..Len(Sent) :
        /\ Sent[i].type = "EVENT_BATCH" /\ Sent[i].id = id
        /\ \E k \in 1..Len(Sent[i].events) : Sent[i].events[k].change = c
    \/ c = Missed /\ \E i \in 1..Len(Sent) : Sent[i].type = "MISSED_EVENTS" /\ Sent[i].id = id

ComingInv ==
    ~gone /\ Serving => \A id \in Ids : client[id].state = "watching" =>
        \A c \in Made(client[id].path) : c \in known[id] \/ Coming(id, c) \/ Coming(id, Missed)

IInv ==
    /\ WorldTypes /\ BackendTypes /\ MainTypes /\ OutboxTypes /\ WriterTypes /\ PeerTypes
    /\ RequestInv /\ WriterInv /\ MapInv /\ PendingMapInv /\ ActiveInv /\ PathInv
    /\ RawInv /\ CallbackInv /\ PendingInv
    /\ ReplyInv /\ OkInv /\ ErrorInv /\ LeavingInv /\ BatchInv
    /\ KnownInv /\ EndedInv /\ TakenInv /\ ComingInv

-----------------------------------------------------------------------------
(* What is sent, and how it moves.                                         *)

LEMMA SentType == ASSUME OutboxTypes, WriterTypes PROVE Sent \in Seq(Frames) /\ Len(Sent) \in Nat
BY DEF OutboxTypes, WriterTypes, Sent

\* A frame that handle() sends goes to the end.
LEMMA SentSend ==
    ASSUME OutboxTypes, WriterTypes, NEW f \in Frames,
           mOutgoing' = Append(mOutgoing, f), flush' = flush, out' = out
    PROVE  /\ Len(Sent)' = Len(Sent) + 1 /\ Len(Sent) \in Nat
           /\ \A i \in 1..Len(Sent) : Sent[i]' = Sent[i]
           /\ (Sent')[Len(Sent) + 1] = f
BY DEF OutboxTypes, WriterTypes, Sent

\* What the writer takes stays where it is, with what was pending behind it.
LEMMA SentTake ==
    ASSUME OutboxTypes, WriterTypes, NEW M \in Seq(Frames), flush = <<>>,
           flush' = mOutgoing \o M, mOutgoing' = <<>>, out' = out
    PROVE  Sent' = Sent \o M
<1>1. mOutgoing \in Seq(Frames) /\ out \in Seq(Frames)
  BY DEF OutboxTypes, WriterTypes
<1>2. Sent = out \o mOutgoing
  BY <1>1, ConcatEmptySeq DEF Sent
<1>3. Sent' = out \o (mOutgoing \o M)
  <2>1. mOutgoing \o M \in Seq(Frames) /\ out \o (mOutgoing \o M) \in Seq(Frames)
    BY <1>1, ConcatProperties
  <2>2. Sent' = (out \o (mOutgoing \o M)) \o <<>>
    BY DEF Sent
  <2> QED  BY <2>1, <2>2, ConcatEmptySeq
<1>4. out \o (mOutgoing \o M) = (out \o mOutgoing) \o M
  BY <1>1, ConcatAssociative, SMTT(30)
<1> QED  BY <1>2, <1>3, <1>4, Zenon

\* It stays there when it is written.
LEMMA SentWrite ==
    ASSUME OutboxTypes, WriterTypes, flush # <<>>,
           out' = Append(out, Head(flush)), flush' = Tail(flush), mOutgoing' = mOutgoing
    PROVE  Sent' = Sent
<1>1. out \in Seq(Frames) /\ flush \in Seq(Frames) /\ mOutgoing \in Seq(Frames)
  BY DEF OutboxTypes, WriterTypes
<1>2. Head(flush) \in Frames /\ Tail(flush) \in Seq(Frames) /\ flush = <<Head(flush)>> \o Tail(flush)
      /\ <<Head(flush)>> \in Seq(Frames)
  BY <1>1
<1>3. Append(out, Head(flush)) = out \o <<Head(flush)>>
  BY <1>1, <1>2, AppendIsConcat
<1>4. (out \o <<Head(flush)>>) \o Tail(flush) = out \o flush
  BY <1>1, <1>2, ConcatAssociative
<1> QED  BY <1>3, <1>4 DEF Sent

\* The client reads the first frame.
LEMMA SentReceive ==
    ASSUME OutboxTypes, WriterTypes, out # <<>>,
           out' = Tail(out), flush' = flush, mOutgoing' = mOutgoing
    PROVE  /\ Len(Sent) \in Nat \ {0} /\ Len(Sent)' = Len(Sent) - 1
           /\ Head(out) = Sent[1] /\ Head(out) \in Frames /\ Sent[1] \in Frames
           /\ \A i \in 1..Len(Sent)' : i + 1 \in 1..Len(Sent) /\ Sent[i]' = Sent[i + 1]
           /\ \A i \in 1..Len(Sent) : i = 1 \/ (i - 1 \in 1..Len(Sent)' /\ (Sent')[i - 1] = Sent[i])
           /\ Sent' = Tail(Sent) /\ Sent # <<>>
<1> DEFINE rest == flush \o mOutgoing
<1>1. out \in Seq(Frames) /\ flush \in Seq(Frames) /\ mOutgoing \in Seq(Frames)
      /\ rest \in Seq(Frames)
  BY DEF OutboxTypes, WriterTypes
<1>2. Tail(out) \in Seq(Frames)
  BY <1>1
<1>3. Sent = out \o rest
  BY <1>1, ConcatAssociative DEF Sent
<1>4. Sent' = Tail(out) \o rest
  BY <1>1, <1>2, ConcatAssociative, SMTT(30) DEF Sent
<1> HIDE DEF rest
<1>5. Sent # <<>> /\ Head(Sent) = Head(out) /\ Tail(Sent) = Tail(out) \o rest
  BY <1>1, <1>3
<1>6. Sent \in Seq(Frames)
  BY <1>1, <1>3
<1> DEFINE s == Sent
           t == Sent'
<1>7. t = Tail(s) /\ s \in Seq(Frames) /\ s # <<>> /\ Head(out) = Head(s)
  BY <1>4, <1>5, <1>6
<1> HIDE DEF s, t
<1>8. /\ t \in Seq(Frames) /\ Len(s) \in Nat \ {0} /\ Len(t) = Len(s) - 1
      /\ Head(s) = s[1] /\ s[1] \in Frames
      /\ \A i \in 1..Len(t) : i + 1 \in 1..Len(s) /\ t[i] = s[i + 1]
      /\ \A i \in 1..Len(s) : i = 1 \/ (i - 1 \in 1..Len(t) /\ t[i - 1] = s[i])
  BY <1>7, TailElements
<1> QED  BY <1>7, <1>8, Zenon DEF s, t

-----------------------------------------------------------------------------
(* What the types say of the elements.                                     *)

LEMMA ActiveFacts ==
    ASSUME BackendTypes
    PROVE  \A w \in active : /\ Efsw(w) \in Efsws /\ Efsw(w).key = w.key /\ Efsw(w).efswId = w.efswId
                             /\ w.key \in Keys /\ w.efswId \in Nat /\ w.path \in Paths
BY EfswFields DEF BackendTypes

LEMMA RawFacts ==
    ASSUME BackendTypes
    PROVE  \A key \in Keys : /\ raw[key] \in Seq(RawEvents) /\ Len(raw[key]) \in Nat
                             /\ \A i \in 1..Len(raw[key]) : /\ raw[key][i].efsw \in Efsws
                                                            /\ raw[key][i].change \in Changes \cup {Missed}
<1> SUFFICES ASSUME NEW key \in Keys
             PROVE  /\ raw[key] \in Seq(RawEvents) /\ Len(raw[key]) \in Nat
                    /\ \A i \in 1..Len(raw[key]) : /\ raw[key][i].efsw \in Efsws
                                                   /\ raw[key][i].change \in Changes \cup {Missed}
  OBVIOUS
<1> DEFINE s == raw[key]
<1>1. s \in Seq(RawEvents)
  BY DEF BackendTypes
<1> HIDE DEF s
<1>2. Len(s) \in Nat /\ \A i \in 1..Len(s) : s[i] \in RawEvents
  BY <1>1
<1>3. \A i \in 1..Len(s) : s[i].efsw \in Efsws /\ s[i].change \in Changes \cup {Missed}
  BY <1>2 DEF RawEvents
<1> QED  BY <1>1, <1>2, <1>3 DEF s

LEMMA CallbackFacts ==
    ASSUME BackendTypes
    PROVE  \A key \in Keys : callback[key] # Idle =>
                /\ callback[key].efsw \in Efsws /\ callback[key].id \in Ids
                /\ callback[key].change \in Changes \cup {Missed}
BY CallbackFields DEF BackendTypes

LEMMA PendingFacts ==
    ASSUME OutboxTypes
    PROVE  \A id \in Ids :
                /\ mPendingEvents[id] \in Seq(Events) /\ Len(mPendingEvents[id]) \in Nat
                /\ \A i \in 1..Len(mPendingEvents[id]) : /\ mPendingEvents[id][i].efsw \in Efsws
                                                         /\ mPendingEvents[id][i].change \in Changes
                /\ mPendingEvents[id] # <<>> => 1 \in 1..Len(mPendingEvents[id])
<1> SUFFICES ASSUME NEW id \in Ids
             PROVE  /\ mPendingEvents[id] \in Seq(Events) /\ Len(mPendingEvents[id]) \in Nat
                    /\ \A i \in 1..Len(mPendingEvents[id]) : /\ mPendingEvents[id][i].efsw \in Efsws
                                                             /\ mPendingEvents[id][i].change \in Changes
                    /\ mPendingEvents[id] # <<>> => 1 \in 1..Len(mPendingEvents[id])
  OBVIOUS
<1> DEFINE s == mPendingEvents[id]
<1>1. s \in Seq(Events)
  BY DEF OutboxTypes
<1> HIDE DEF s
<1>2. Len(s) \in Nat /\ (s # <<>> => 1 \in 1..Len(s)) /\ \A i \in 1..Len(s) : s[i] \in Events
  BY <1>1
<1>3. \A i \in 1..Len(s) : s[i].efsw \in Efsws /\ s[i].change \in Changes
  BY <1>2 DEF Events
<1> QED  BY <1>1, <1>2, <1>3 DEF s

LEMMA ClientFacts ==
    ASSUME PeerTypes
    PROVE  \A id \in Ids :
                /\ client[id] \in Clients
                /\ client[id].state \in {"none", "asked", "watching", "leaving"}
                /\ (client[id] = NotUsed) <=> client[id].state = "none"
                /\ client[id] # NotUsed => client[id].path \in Paths
BY ClientFields DEF PeerTypes

LEMMA SentFacts ==
    ASSUME OutboxTypes, WriterTypes
    PROVE  /\ Len(Sent) \in Nat
           /\ \A i \in 1..Len(Sent) :
                /\ Sent[i] \in Frames /\ (Sent[i].type \notin {"PONG", "ERROR"} => Sent[i].id \in Ids)
                /\ Sent[i].type = "EVENT_BATCH" => Sent[i].events \in Seq(Events)
BY SentType, ElementOfSeq, FrameFields

-----------------------------------------------------------------------------
(* What the larger actions do.                                             *)

\* addWatch of a FileWatcher: a new watch, with an id not given out before, or none.
LEMMA AddWatchCases ==
    ASSUME BackendTypes, NEW id \in Ids, NEW path \in Paths, NEW key \in Keys,
           fileWatcherAddWatch(id, path, key)
    PROVE  /\ callback[key] = Idle /\ watchers' \in SUBSET Keys
           /\ \/ /\ mpc' = "register" /\ req' \in Opened
                 /\ req'.id = id /\ req'.key = key /\ req'.efswId = issued[key] + 1
                 /\ issued' = [issued EXCEPT ![key] = issued[key] + 1]
                 /\ \E w \in [key : Keys, efswId : Nat, path : Paths] :
                        /\ w.key = key /\ w.efswId = issued[key] + 1 /\ w.path = path
                        /\ Efsw(w) = Efsw(req)' /\ active' = active \cup {w} /\ IsFiniteSet(active')
              \/ /\ mpc' = IF key = Native THEN "fallback" ELSE "error"
                 /\ req' \in Refused /\ req'.id = id /\ req'.path = path
                 /\ active' = active /\ issued' = issued
<1>1. callback[key] = Idle /\ watchers' \in SUBSET Keys
  BY DEF BackendTypes, fileWatcherAddWatch
<1>2. CASE /\ issued' = [issued EXCEPT ![key] = issued[key] + 1]
           /\ active' = active \cup {[key |-> key, efswId |-> issued[key] + 1, path |-> path]}
           /\ req' = [kind |-> "watch", id |-> id, key |-> key, efswId |-> issued[key] + 1]
           /\ mpc' = "register"
  <2> DEFINE w == [key |-> key, efswId |-> issued[key] + 1, path |-> path]
  <2>1. issued[key] + 1 \in Nat
    BY DEF BackendTypes
  <2>2. w \in [key : Keys, efswId : Nat, path : Paths]
    BY <2>1
  <2>3. Efsw(w) = Efsw(req)'
    BY <1>2 DEF Efsw
  <2>4. IsFiniteSet(active')
    BY <1>2, FS_AddElement DEF BackendTypes
  <2>5. req' \in Opened
    BY <1>2, <2>1, RequestsMade
  <2>6. w.key = key /\ w.efswId = issued[key] + 1 /\ w.path = path
    OBVIOUS
  <2>7. req'.id = id /\ req'.key = key /\ req'.efswId = issued[key] + 1
    BY <1>2
  <2>8. active' = active \cup {w}
    BY <1>2
  <2> HIDE DEF w
  <2> QED  BY <1>1, <1>2, <2>2, <2>3, <2>4, <2>5, <2>6, <2>7, <2>8
<1>3. CASE /\ active' = active /\ issued' = issued
           /\ req' = [kind |-> "watch", id |-> id, path |-> path]
           /\ mpc' = IF key = Native THEN "fallback" ELSE "error"
  <2>1. req' \in Refused /\ req'.id = id /\ req'.path = path
    BY <1>3, RequestsMade
  <2> QED  BY <1>1, <1>3, <2>1
<1> QED  BY <1>2, <1>3 DEF fileWatcherAddWatch

\* A native event, taken from the front, becomes a callback if its watch is registered.
LEMMA StartCases ==
    ASSUME BackendTypes, MainTypes, MapInv, NEW key \in Keys, startCallback(key)
    PROVE  /\ callback[key] = Idle /\ raw[key] # <<>>
           /\ raw' = [raw EXCEPT ![key] = Tail(raw[key])]
           /\ raw[key] \in Seq(RawEvents) /\ Tail(raw[key]) \in Seq(RawEvents)
           /\ 1 \in 1..Len(raw[key]) /\ raw[key][1] \in RawEvents
           /\ raw[key][1].efsw \in Efsws /\ raw[key][1].change \in Changes \cup {Missed}
           /\ \A i \in 1..Len(Tail(raw[key])) :
                i + 1 \in 1..Len(raw[key]) /\ Tail(raw[key])[i] = raw[key][i + 1]
           /\ \A i \in 1..Len(raw[key]) :
                i = 1 \/ (i - 1 \in 1..Len(Tail(raw[key])) /\ Tail(raw[key])[i - 1] = raw[key][i])
           /\ \/ /\ \A id \in Ids : mWatches[id] # raw[key][1].efsw
                 /\ callback' = callback
              \/ \E cb \in Pushes :
                    /\ cb # Idle /\ cb.efsw = raw[key][1].efsw /\ cb.change = raw[key][1].change
                    /\ cb.id \in Ids /\ mWatches[cb.id] = cb.efsw
                    /\ callback' = [callback EXCEPT ![key] = cb]
<1> DEFINE s == raw[key]
           e == raw[key][1]
<1>1. callback[key] = Idle /\ s # <<>> /\ s \in Seq(RawEvents)
      /\ raw' = [raw EXCEPT ![key] = Tail(s)]
  BY DEF BackendTypes, startCallback
<1>2. /\ Tail(s) \in Seq(RawEvents) /\ Len(s) \in Nat \ {0} /\ Head(s) = s[1] /\ s[1] \in RawEvents
      /\ \A i \in 1..Len(Tail(s)) : i + 1 \in 1..Len(s) /\ Tail(s)[i] = s[i + 1]
      /\ \A i \in 1..Len(s) : i = 1 \/ (i - 1 \in 1..Len(Tail(s)) /\ Tail(s)[i - 1] = s[i])
  <2> HIDE DEF s
  <2> QED  BY <1>1, TailElements
<1>3. e.efsw \in Efsws /\ e.change \in Changes \cup {Missed} /\ Head(s) = e
  BY <1>2 DEF RawEvents
<1>4. \A id : id \in lookup(e.efsw) <=> id \in Ids /\ mWatches[id] = e.efsw
  <2> DEFINE x == e.efsw
  <2>1. x \in Efsws /\ x # None
    BY <1>3, NoneFacts
  <2> HIDE DEF x
  <2>2. ASSUME NEW id
        PROVE  (\E p \in mByEfsw : p[1] = x /\ p[2] = id) <=> id \in Ids /\ mWatches[id] = x
    <3>1. ASSUME NEW p \in mByEfsw, p[1] = x, p[2] = id PROVE id \in Ids /\ mWatches[id] = x
      <4>1. PICK i \in Ids : mWatches[i] # None /\ p = <<mWatches[i], i>>
        BY DEF MapInv
      <4>2. p[1] = mWatches[i] /\ p[2] = i
        BY <4>1
      <4> QED  BY <3>1, <4>2
    <3>2. ASSUME id \in Ids, mWatches[id] = x PROVE \E p \in mByEfsw : p[1] = x /\ p[2] = id
      <4>1. <<x, id>> \in mByEfsw
        BY <2>1, <3>2 DEF MapInv
      <4>2. <<x, id>>[1] = x /\ <<x, id>>[2] = id
        OBVIOUS
      <4> QED  BY <4>1, <4>2
    <3> QED  BY <3>1, <3>2
  <2>3. ASSUME NEW id
        PROVE  id \in lookup(x) <=> \E p \in mByEfsw : p[1] = x /\ p[2] = id
    BY DEF lookup
  <2>4. \A id : id \in lookup(x) <=> id \in Ids /\ mWatches[id] = x
    BY <2>2, <2>3
  <2> QED  BY <2>4 DEF x
<1>5. \/ lookup(e.efsw) = {} /\ callback' = callback
      \/ \E id \in lookup(e.efsw) : callback' = [callback EXCEPT ![key] =
            [pc |-> "push", efsw |-> e.efsw, change |-> e.change, id |-> id]]
  BY <1>3 DEF startCallback
<1>6. \/ /\ \A id \in Ids : mWatches[id] # e.efsw
         /\ callback' = callback
      \/ \E c \in Pushes :
            /\ c # Idle /\ c.efsw = e.efsw /\ c.change = e.change
            /\ c.id \in Ids /\ mWatches[c.id] = c.efsw
            /\ callback' = [callback EXCEPT ![key] = c]
  <2>1. CASE lookup(e.efsw) = {} /\ callback' = callback
    BY <1>4, <2>1
  <2>2. CASE \E id \in lookup(e.efsw) : callback' = [callback EXCEPT ![key] =
            [pc |-> "push", efsw |-> e.efsw, change |-> e.change, id |-> id]]
    <3>1. PICK id \in lookup(e.efsw) : callback' = [callback EXCEPT ![key] =
              [pc |-> "push", efsw |-> e.efsw, change |-> e.change, id |-> id]]
      BY <2>2
    <3> DEFINE cb == [pc |-> "push", efsw |-> e.efsw, change |-> e.change, id |-> id]
    <3>2. id \in Ids /\ mWatches[id] = e.efsw
      BY <1>4, <3>1
    <3>3. cb \in Pushes /\ cb # Idle /\ cb.efsw = e.efsw /\ cb.change = e.change /\ cb.id = id
      BY <1>3, <3>2 DEF Pushes, Idle
    <3>4. callback' = [callback EXCEPT ![key] = cb]
      BY <3>1
    <3>5. mWatches[cb.id] = cb.efsw /\ cb.id \in Ids
      BY <3>2, <3>3
    <3> HIDE DEF cb
    <3>6. \E c \in Pushes :
              /\ c # Idle /\ c.efsw = e.efsw /\ c.change = e.change
              /\ c.id \in Ids /\ mWatches[c.id] = c.efsw
              /\ callback' = [callback EXCEPT ![key] = c]
      BY <3>3, <3>4, <3>5
    <3> QED  BY <3>6
  <2> QED  BY <1>5, <2>1, <2>2
<1> QED  BY <1>1, <1>2, <1>3, <1>6

\* The callback leaves its event pending, or one missed event in place of all.
LEMMA PushCases ==
    ASSUME BackendTypes, OutboxTypes, NEW key \in Keys, push(key)
    PROVE  /\ callback[key] # Idle /\ callback[key].efsw \in Efsws /\ callback[key].id \in Ids
           /\ callback' = [callback EXCEPT ![key] = Idle]
           /\ \/ /\ callback[key].change = Missed
                 /\ mPendingEvents' = [mPendingEvents EXCEPT ![callback[key].id] = <<>>]
                 /\ mPendingMissed' \in Seq(Ids) /\ Len(mPendingMissed) \in Nat
                 /\ Len(mPendingMissed') = Len(mPendingMissed) + 1
                 /\ \A i \in 1..Len(mPendingMissed) : mPendingMissed'[i] = mPendingMissed[i]
                 /\ mPendingMissed'[Len(mPendingMissed) + 1] = callback[key].id
              \/ /\ callback[key].change \in Changes /\ callback[key].change # Missed
                 /\ mPendingMissed' = mPendingMissed
                 /\ \E s \in Seq(Events) : \E n \in Nat :
                        /\ mPendingEvents' = [mPendingEvents EXCEPT ![callback[key].id] = s]
                        /\ n = Len(mPendingEvents[callback[key].id]) /\ Len(s) = n + 1
                        /\ \A i \in 1..n : s[i] = mPendingEvents[callback[key].id][i]
                        /\ s[n + 1].efsw = callback[key].efsw /\ s[n + 1].change = callback[key].change
<1> DEFINE cb == callback[key]
<1>1. cb \in {Idle} \cup Pushes /\ cb.pc = "push" /\ callback' = [callback EXCEPT ![key] = Idle]
  BY DEF BackendTypes, push
<1>2. cb # Idle /\ cb.efsw \in Efsws /\ cb.id \in Ids /\ cb.change \in Changes \cup {Missed}
  <2> HIDE DEF cb
  <2> QED  BY <1>1, CallbackFields
<1>3. CASE cb.change = Missed
  <2>1. /\ mPendingEvents' = [mPendingEvents EXCEPT ![cb.id] = <<>>]
        /\ mPendingMissed' = Append(mPendingMissed, cb.id)
    BY <1>3 DEF push
  <2>2. mPendingMissed \in Seq(Ids)
    BY DEF OutboxTypes
  <2>3. /\ Append(mPendingMissed, cb.id) \in Seq(Ids) /\ Len(mPendingMissed) \in Nat
        /\ Len(Append(mPendingMissed, cb.id)) = Len(mPendingMissed) + 1
        /\ \A i \in 1..Len(mPendingMissed) : Append(mPendingMissed, cb.id)[i] = mPendingMissed[i]
        /\ Append(mPendingMissed, cb.id)[Len(mPendingMissed) + 1] = cb.id
    BY <1>2, <2>2, AppendElements
  <2> QED  BY <1>1, <1>2, <1>3, <2>1, <2>3
<1>4. CASE cb.change # Missed
  <2> DEFINE x == [efsw |-> cb.efsw, change |-> cb.change]
             s == Append(mPendingEvents[cb.id], x)
             n == Len(mPendingEvents[cb.id])
  <2>1. /\ mPendingEvents' = [mPendingEvents EXCEPT ![cb.id] = s]
        /\ mPendingMissed' = mPendingMissed
    BY <1>4 DEF push
  <2>2. x \in Events /\ x.efsw = cb.efsw /\ x.change = cb.change /\ mPendingEvents[cb.id] \in Seq(Events)
    BY <1>2, <1>4 DEF OutboxTypes, Events
  <2>3. /\ s \in Seq(Events) /\ n \in Nat /\ Len(s) = n + 1
        /\ \A i \in 1..n : s[i] = mPendingEvents[cb.id][i]
        /\ s[n + 1] = x
    <3> HIDE DEF x
    <3> QED  BY <2>2, AppendElements
  <2> HIDE DEF x, s
  <2> QED  BY <1>1, <1>2, <1>4, <2>1, <2>2, <2>3
<1> QED  BY <1>3, <1>4

\* A watch that loses events keeps none: one missed event stands for them.
LEMMA LoseCases ==
    ASSUME BackendTypes, NEW w \in active, lose(w)
    PROVE  /\ w.key \in Keys /\ Efsw(w) \in Efsws /\ Efsw(w).key = w.key
           /\ w.efswId = Efsw(w).efswId
           /\ raw[w.key] \in Seq(RawEvents)
           /\ \E s \in Seq(RawEvents) :
                /\ raw' = [raw EXCEPT ![w.key] = s]
                /\ \A i \in 1..Len(s) :
                    \/ s[i].efsw = Efsw(w) /\ s[i].change = Missed
                    \/ \E j \in 1..Len(raw[w.key]) : s[i] = raw[w.key][j]
                /\ \A j \in 1..Len(raw[w.key]) : raw[w.key][j].efsw # Efsw(w) =>
                    \E i \in 1..Len(s) : s[i] = raw[w.key][j]
                /\ \E i \in 1..Len(s) : s[i].efsw = Efsw(w) /\ s[i].change = Missed
<1> DEFINE q == raw[w.key]
           places == {i \in DOMAIN q : q[i].efsw # Efsw(w)}
           k == Kept(q, places)
           e == [efsw |-> Efsw(w), change |-> Missed]
           s == Append(k, e)
<1>1. w.key \in Keys /\ Efsw(w) \in Efsws /\ Efsw(w).key = w.key /\ Efsw(w).efswId = w.efswId
  BY EfswFields DEF BackendTypes
<1>2. q \in Seq(RawEvents) /\ e \in RawEvents /\ e.efsw = Efsw(w) /\ e.change = Missed
  BY <1>1 DEF BackendTypes, RawEvents
<1>3. raw' = [raw EXCEPT ![w.key] = s]
  BY DEF lose
<1>4. \A j \in 1..Len(q) : j \in places <=> q[j].efsw # Efsw(w)
  BY <1>2
<1> HIDE DEF q, places, e
<1>5. /\ k \in Seq(RawEvents)
      /\ \A i \in 1..Len(k) : \E j \in 1..Len(q) : j \in places /\ q[j] = k[i]
      /\ \A j \in 1..Len(q) : j \in places => \E i \in 1..Len(k) : k[i] = q[j]
  <2>1. q \in Seq(RawEvents)
    BY <1>2
  <2> QED  BY <2>1, KeptElements
<1> HIDE DEF k
<1>6. /\ s \in Seq(RawEvents) /\ Len(s) = Len(k) + 1 /\ Len(k) \in Nat
      /\ \A i \in 1..Len(k) : s[i] = k[i]
      /\ s[Len(k) + 1] = e
  BY <1>2, <1>5, AppendElements
<1> HIDE DEF s
<1>7. ASSUME NEW i \in 1..Len(s)
      PROVE  s[i] = e \/ \E j \in 1..Len(q) : s[i] = q[j]
  <2>1. i = Len(k) + 1 \/ i \in 1..Len(k)
    BY <1>6
  <2>2. CASE i \in 1..Len(k)
    <3>1. s[i] = k[i]
      BY <1>6, <2>2
    <3>2. \E j \in 1..Len(q) : j \in places /\ q[j] = k[i]
      BY <1>5, <2>2
    <3> QED  BY <3>1, <3>2
  <2> QED  BY <1>6, <2>1, <2>2
<1>8. ASSUME NEW j \in 1..Len(q), q[j].efsw # Efsw(w)
      PROVE  \E i \in 1..Len(s) : s[i] = q[j]
  <2>1. PICK i \in 1..Len(k) : k[i] = q[j]
    BY <1>4, <1>5, <1>8
  <2>2. i \in 1..Len(s) /\ s[i] = k[i]
    BY <1>6
  <2> QED  BY <2>1, <2>2
<1>9. Len(k) + 1 \in 1..Len(s)
  BY <1>6
<1>10. \E i \in 1..Len(s) : s[i].efsw = Efsw(w) /\ s[i].change = Missed
  BY <1>2, <1>6, <1>9
<1>11. \A i \in 1..Len(s) :
            \/ s[i].efsw = Efsw(w) /\ s[i].change = Missed
            \/ \E j \in 1..Len(q) : s[i] = q[j]
  BY <1>2, <1>7
<1> QED  BY <1>1, <1>2, <1>3, <1>6, <1>8, <1>10, <1>11 DEF q

\* Every watch of the directory gets the change, behind what it has.
LEMMA ChangeCases ==
    ASSUME WorldTypes, BackendTypes, NEW path \in Paths, change(path)
    PROVE  /\ changes[path] + 1 \in Nat /\ <<path, changes[path] + 1>> \in Changes
           /\ raw' \in [Keys -> Seq(RawEvents)]
           /\ \A key \in Keys :
                /\ \A i \in 1..Len(raw'[key]) :
                    \/ \E j \in 1..Len(raw[key]) : raw'[key][i] = raw[key][j]
                    \/ \E w \in active : /\ w.key = key /\ w.path = path /\ raw'[key][i].efsw = Efsw(w)
                                         /\ raw'[key][i].change = <<path, changes[path] + 1>>
                /\ \A j \in 1..Len(raw[key]) : \E i \in 1..Len(raw'[key]) : raw'[key][i] = raw[key][j]
                /\ \A w \in active : w.key = key /\ w.path = path =>
                    \E i \in 1..Len(raw'[key]) :
                        raw'[key][i].efsw = Efsw(w) /\ raw'[key][i].change = <<path, changes[path] + 1>>
<1> DEFINE c == <<path, changes[path] + 1>>
           W(key) == {w \in active : w.key = key /\ w.path = path}
           New(key) == {[efsw |-> Efsw(w), change |-> c] : w \in W(key)}
           Value(key) == raw[key] \o SetToSeq(New(key))
<1>1. changes[path] + 1 \in Nat /\ c \in Changes
  BY DEF WorldTypes, Changes
<1>2. raw' = [key \in Keys |-> Value(key)]
  BY DEF change
<1> HIDE DEF c
<1>3. ASSUME NEW key \in Keys
      PROVE  /\ Value(key) \in Seq(RawEvents)
             /\ \A i \in 1..Len(Value(key)) :
                    \/ \E j \in 1..Len(raw[key]) : Value(key)[i] = raw[key][j]
                    \/ \E w \in active : /\ w.key = key /\ w.path = path /\ Value(key)[i].efsw = Efsw(w)
                                         /\ Value(key)[i].change = c
             /\ \A j \in 1..Len(raw[key]) : \E i \in 1..Len(Value(key)) : Value(key)[i] = raw[key][j]
             /\ \A w \in active : w.key = key /\ w.path = path =>
                    \E i \in 1..Len(Value(key)) : Value(key)[i].efsw = Efsw(w) /\ Value(key)[i].change = c
  <2> DEFINE q == raw[key]
             n == SetToSeq(New(key))
  <2>1. q \in Seq(RawEvents)
    BY DEF BackendTypes
  <2>2. IsFiniteSet(New(key))
    <3>1. IsFiniteSet(W(key))
      BY FS_Subset DEF BackendTypes
    <3> DEFINE f == [w \in W(key) |-> [efsw |-> Efsw(w), change |-> c]]
    <3>2. f \in Surjection(W(key), New(key))
      BY DEF Surjection
    <3> HIDE DEF W, f, New
    <3> QED  BY <3>1, <3>2, FS_Surjection
  <2>3. New(key) \subseteq RawEvents
    <3>1. \A w \in W(key) : Efsw(w) \in Efsws
      BY EfswFields DEF BackendTypes
    <3> QED  BY <1>1, <3>1 DEF RawEvents
  <2>4. \A x \in New(key) : \E w \in active :
            w.key = key /\ w.path = path /\ x.efsw = Efsw(w) /\ x.change = c
    OBVIOUS
  <2>5. \A w \in active : w.key = key /\ w.path = path =>
            \E x \in New(key) : x.efsw = Efsw(w) /\ x.change = c
    <3> SUFFICES ASSUME NEW w \in active, w.key = key, w.path = path
                 PROVE  \E x \in New(key) : x.efsw = Efsw(w) /\ x.change = c
      OBVIOUS
    <3>1. [efsw |-> Efsw(w), change |-> c] \in New(key)
      OBVIOUS
    <3> QED  BY <3>1
  <2>6. n \in Seq(New(key)) /\ \A x \in New(key) : \E i \in 1..Len(n) : n[i] = x
    <3> HIDE DEF New
    <3> QED  BY <2>2, SetToSeqElements
  <2> DEFINE S == New(key)
  <2> HIDE DEF New, n, q, S
  <2>7. \A i \in 1..Len(n) : n[i] \in S
    BY <2>6, ElementOfSeq DEF S
  <2>8. n \in Seq(RawEvents)
    <3>1. n \in Seq(S) /\ S \subseteq RawEvents
      BY <2>3, <2>6 DEF S
    <3> QED  BY <3>1
  <2>9. /\ q \o n \in Seq(RawEvents) /\ Len(q \o n) = Len(q) + Len(n)
        /\ \A i \in 1..Len(q) : i \in 1..Len(q \o n) /\ (q \o n)[i] = q[i]
        /\ \A i \in 1..Len(n) : Len(q) + i \in 1..Len(q \o n) /\ (q \o n)[Len(q) + i] = n[i]
        /\ \A i \in 1..Len(q \o n) : i \in 1..Len(q) \/ i - Len(q) \in 1..Len(n)
        /\ Len(q) \in Nat
    BY <2>1, <2>8, ConcatElements
  <2> DEFINE v == q \o n
  <2> HIDE DEF v
  <2>10. \A i \in 1..Len(v) : (\E j \in 1..Len(q) : v[i] = q[j]) \/ v[i] \in S
    <3> SUFFICES ASSUME NEW i \in 1..Len(v), i \notin 1..Len(q) PROVE v[i] \in S
      BY <2>9 DEF v
    <3>1. i - Len(q) \in 1..Len(n) /\ Len(q) + (i - Len(q)) = i
      BY <2>9 DEF v
    <3> QED  BY <2>7, <2>9, <3>1 DEF v
  <2>11. \A x \in S : \E i \in 1..Len(v) : v[i] = x
    <3> SUFFICES ASSUME NEW x \in S PROVE \E i \in 1..Len(v) : v[i] = x
      OBVIOUS
    <3>1. PICK i \in 1..Len(n) : n[i] = x
      BY <2>6 DEF S
    <3> QED  BY <2>9, <3>1 DEF v
  <2>12. Value(key) = v
    BY DEF v, q, n
  <2>13. /\ \A x \in S : \E w \in active :
                w.key = key /\ w.path = path /\ x.efsw = Efsw(w) /\ x.change = c
         /\ \A w \in active : w.key = key /\ w.path = path =>
                \E x \in S : x.efsw = Efsw(w) /\ x.change = c
    BY <2>4, <2>5 DEF S
  <2>14. \A j \in 1..Len(q) : \E i \in 1..Len(v) : v[i] = q[j]
    BY <2>9 DEF v
  <2>15. v \in Seq(RawEvents)
    BY <2>9 DEF v
  <2> HIDE DEF Value
  <2>16. \A i \in 1..Len(v) :
                    \/ \E j \in 1..Len(q) : v[i] = q[j]
                    \/ \E w \in active : /\ w.key = key /\ w.path = path /\ v[i].efsw = Efsw(w)
                                         /\ v[i].change = c
    BY <2>10, <2>13
  <2>17. \A w \in active : w.key = key /\ w.path = path =>
                    \E i \in 1..Len(v) : v[i].efsw = Efsw(w) /\ v[i].change = c
    BY <2>11, <2>13
  <2> QED  BY <2>12, <2>14, <2>15, <2>16, <2>17 DEF q
<1> HIDE DEF Value
<1>4. \A key \in Keys : raw'[key] = Value(key)
  BY <1>2
<1>5. raw' \in [Keys -> Seq(RawEvents)]
  BY <1>2, <1>3
<1>6. ASSUME NEW key \in Keys
      PROVE  /\ \A i \in 1..Len(raw'[key]) :
                    \/ \E j \in 1..Len(raw[key]) : raw'[key][i] = raw[key][j]
                    \/ \E w \in active : /\ w.key = key /\ w.path = path /\ raw'[key][i].efsw = Efsw(w)
                                         /\ raw'[key][i].change = c
             /\ \A j \in 1..Len(raw[key]) : \E i \in 1..Len(raw'[key]) : raw'[key][i] = raw[key][j]
             /\ \A w \in active : w.key = key /\ w.path = path =>
                    \E i \in 1..Len(raw'[key]) : raw'[key][i].efsw = Efsw(w) /\ raw'[key][i].change = c
  <2> DEFINE r == raw'[key]
  <2>1. r = Value(key)
    BY <1>4
  <2> HIDE DEF r
  <2>2. /\ \A i \in 1..Len(r) :
                \/ \E j \in 1..Len(raw[key]) : r[i] = raw[key][j]
                \/ \E w \in active : /\ w.key = key /\ w.path = path /\ r[i].efsw = Efsw(w) /\ r[i].change = c
        /\ \A j \in 1..Len(raw[key]) : \E i \in 1..Len(r) : r[i] = raw[key][j]
        /\ \A w \in active : w.key = key /\ w.path = path =>
                \E i \in 1..Len(r) : r[i].efsw = Efsw(w) /\ r[i].change = c
    BY <1>3, <2>1, ZenonT(30)
  <2> QED  BY <2>2 DEF r
<1> QED  BY <1>1, <1>5, <1>6 DEF c

\* The frames the writer makes of what is pending.
LEMMA TakeCases ==
    ASSUME AgentAssumption, OutboxTypes, WriterTypes, takeOutput
    PROVE  /\ wpc' = "write" /\ mOutgoing' = <<>> /\ mPendingMissed' = <<>>
           /\ mPendingEvents' = [id \in Ids |-> <<>>]
           /\ \E M \in Seq(Frames) :
                /\ flush' = mOutgoing \o M
                /\ \A i \in 1..Len(M) :
                    /\ M[i].type \in {"MISSED_EVENTS", "EVENT_BATCH"} /\ M[i].id \in Ids
                    /\ M[i].type = "EVENT_BATCH" =>
                        M[i].events = mPendingEvents[M[i].id] /\ mPendingEvents[M[i].id] # <<>>
                /\ \A k \in 1..Len(mPendingMissed) :
                    \E i \in 1..Len(M) : M[i].type = "MISSED_EVENTS" /\ M[i].id = mPendingMissed[k]
                /\ \A id \in Ids : mPendingEvents[id] # <<>> =>
                    \E i \in 1..Len(M) :
                        M[i].type = "EVENT_BATCH" /\ M[i].id = id /\ M[i].events = mPendingEvents[id]
<1> DEFINE I == {id \in Ids : mPendingEvents[id] # <<>>}
           A == [i \in DOMAIN mPendingMissed |-> [type |-> "MISSED_EVENTS", id |-> mPendingMissed[i]]]
           B(ids) == [i \in DOMAIN ids |-> [type |-> "EVENT_BATCH", id |-> ids[i],
                                            events |-> mPendingEvents[ids[i]]]]
<1>1. PICK ids \in SetToSeqs(I) : flush' = mOutgoing \o A \o B(ids)
  BY DEF takeOutput
<1>2. ids \in Seq(I) /\ \A x \in I : \E i \in 1..Len(ids) : ids[i] = x
  <2>1. IsFiniteSet(I)
    BY AgentAssumption, FS_Subset DEF AgentAssumption
  <2> HIDE DEF I
  <2> QED  BY <2>1, SetToSeqsElements
<1>3. mPendingMissed \in Seq(Ids) /\ mPendingEvents \in [Ids -> Seq(Events)] /\ mOutgoing \in Seq(Frames)
  BY DEF OutboxTypes
<1>4. /\ A \in Seq(Frames) /\ Len(A) = Len(mPendingMissed) /\ Len(A) \in Nat
      /\ \A i \in 1..Len(A) :
            A[i].type = "MISSED_EVENTS" /\ A[i].id = mPendingMissed[i] /\ A[i].id \in Ids
  <2>1. A = [i \in 1..Len(mPendingMissed) |-> [type |-> "MISSED_EVENTS", id |-> mPendingMissed[i]]]
    BY <1>3
  <2>2. \A i \in 1..Len(mPendingMissed) :
            [type |-> "MISSED_EVENTS", id |-> mPendingMissed[i]] \in Frames /\ mPendingMissed[i] \in Ids
    <3> SUFFICES ASSUME NEW i \in 1..Len(mPendingMissed)
                 PROVE  [type |-> "MISSED_EVENTS", id |-> mPendingMissed[i]] \in Frames
                        /\ mPendingMissed[i] \in Ids
      OBVIOUS
    <3>1. mPendingMissed[i] \in Ids
      BY <1>3, ElementOfSeq
    <3> QED  BY <3>1, FramesMade
  <2> QED  BY <1>3, <2>1, <2>2
<1>5. /\ B(ids) \in Seq(Frames) /\ Len(B(ids)) = Len(ids) /\ Len(ids) \in Nat
      /\ \A i \in 1..Len(B(ids)) :
            /\ B(ids)[i].type = "EVENT_BATCH" /\ B(ids)[i].id = ids[i]
            /\ B(ids)[i].events = mPendingEvents[ids[i]] /\ ids[i] \in I
  <2> DEFINE J == I
  <2> HIDE DEF J
  <2>1. ids \in Seq(J) /\ J \subseteq Ids
    BY <1>2 DEF J
  <2>2. B(ids) = [i \in 1..Len(ids) |-> [type |-> "EVENT_BATCH", id |-> ids[i],
                                        events |-> mPendingEvents[ids[i]]]]
    BY <2>1
  <2>3. \A i \in 1..Len(ids) : ids[i] \in J /\ ids[i] \in Ids
    BY <2>1, ElementOfSeq
  <2>4. \A i \in 1..Len(ids) :
            [type |-> "EVENT_BATCH", id |-> ids[i], events |-> mPendingEvents[ids[i]]] \in Frames
    BY <1>3, <2>3, FramesMade
  <2> QED  BY <2>1, <2>2, <2>3, <2>4 DEF J
<1> DEFINE b == B(ids)
           a == A
           M == a \o b
<1> HIDE DEF a, b
<1>6. /\ M \in Seq(Frames) /\ Len(M) = Len(a) + Len(b)
      /\ \A i \in 1..Len(a) : i \in 1..Len(M) /\ M[i] = a[i]
      /\ \A i \in 1..Len(b) : Len(a) + i \in 1..Len(M) /\ M[Len(a) + i] = b[i]
      /\ \A i \in 1..Len(M) : i \in 1..Len(a) \/ i - Len(a) \in 1..Len(b)
      /\ Len(a) \in Nat /\ Len(b) \in Nat
  BY <1>4, <1>5, ConcatElements, SMTT(30) DEF a, b
<1>7. flush' = mOutgoing \o M
  <2>1. flush' = (mOutgoing \o a) \o b
    BY <1>1 DEF a, b
  <2>2. a \in Seq(Frames) /\ b \in Seq(Frames)
    BY <1>4, <1>5 DEF a, b
  <2>3. (mOutgoing \o a) \o b = mOutgoing \o (a \o b)
    BY <1>3, <2>2, ConcatAssociative, SMTT(20)
  <2> QED  BY <2>1, <2>3, Zenon
<1> HIDE DEF M
<1>8. ASSUME NEW i \in 1..Len(M)
      PROVE  /\ M[i].type \in {"MISSED_EVENTS", "EVENT_BATCH"} /\ M[i].id \in Ids
             /\ M[i].type = "EVENT_BATCH" =>
                    M[i].events = mPendingEvents[M[i].id] /\ mPendingEvents[M[i].id] # <<>>
  <2>1. CASE i \in 1..Len(a)
    <3>1. M[i] = a[i] /\ a[i].type = "MISSED_EVENTS" /\ a[i].id \in Ids
      BY <1>4, <1>6, <2>1 DEF a
    <3> QED  BY <3>1
  <2>2. CASE i - Len(a) \in 1..Len(b)
    <3>1. Len(a) + (i - Len(a)) = i
      BY <1>6
    <3>2. M[i] = b[i - Len(a)]
      BY <1>6, <2>2, <3>1
    <3>3. /\ b[i - Len(a)].type = "EVENT_BATCH" /\ b[i - Len(a)].id \in I
          /\ b[i - Len(a)].events = mPendingEvents[b[i - Len(a)].id]
      BY <1>5, <2>2 DEF b
    <3> QED  BY <3>2, <3>3
  <2> QED  BY <1>6, <2>1, <2>2
<1>9. ASSUME NEW k \in 1..Len(mPendingMissed)
      PROVE  \E i \in 1..Len(M) : M[i].type = "MISSED_EVENTS" /\ M[i].id = mPendingMissed[k]
  <2>1. k \in 1..Len(a) /\ a[k].type = "MISSED_EVENTS" /\ a[k].id = mPendingMissed[k]
    BY <1>4 DEF a
  <2> QED  BY <1>6, <2>1
<1>10. ASSUME NEW id \in Ids, mPendingEvents[id] # <<>>
       PROVE  \E i \in 1..Len(M) :
                M[i].type = "EVENT_BATCH" /\ M[i].id = id /\ M[i].events = mPendingEvents[id]
  <2>1. PICK k \in 1..Len(ids) : ids[k] = id
    BY <1>2, <1>10
  <2>2. k \in 1..Len(b) /\ b[k].type = "EVENT_BATCH" /\ b[k].id = id /\ b[k].events = mPendingEvents[id]
    BY <1>5, <2>1 DEF b
  <2> QED  BY <1>6, <2>2
<1>11. wpc' = "write" /\ mOutgoing' = <<>> /\ mPendingMissed' = <<>>
       /\ mPendingEvents' = [id \in Ids |-> <<>>]
  BY DEF takeOutput
<1> QED  BY <1>6, <1>7, <1>8, <1>9, <1>10, <1>11

\* What the client does with a frame, of those that can arrive.
LEMMA ReceiveCases ==
    ASSUME IInv, receive
    PROVE  /\ ~gone /\ out # <<>> /\ out' = Tail(out) /\ gone' = gone
           /\ Head(out).type \notin {"PONG", "ERROR"} => Head(out).id \in Ids
           /\ \/ /\ client' = client /\ known' = known
                 /\ Head(out).type \notin {"WATCH_ERROR", "UNWATCH_OK"}
                 /\ Head(out).type = "WATCH_OK" => client[Head(out).id].state = "leaving"
                 /\ Head(out).type \in {"MISSED_EVENTS", "EVENT_BATCH"} =>
                        client[Head(out).id].state # "watching"
              \/ /\ Head(out).type = "WATCH_OK" /\ client[Head(out).id].state = "asked"
                 /\ \E c \in Clients :
                        /\ c.state = "watching" /\ c.path = client[Head(out).id].path
                        /\ client' = [client EXCEPT ![Head(out).id] = c]
                 /\ known' = [known EXCEPT ![Head(out).id] = Made(client[Head(out).id].path)]
              \/ /\ Head(out).type = "WATCH_ERROR" /\ client[Head(out).id].state = "asked"
                 /\ client' = [client EXCEPT ![Head(out).id] = NotUsed] /\ known' = known
              \/ /\ Head(out).type = "WATCH_ERROR" /\ client[Head(out).id].state = "leaving"
                 /\ client' = client /\ known' = known
              \/ /\ Head(out).type = "UNWATCH_OK" /\ client[Head(out).id].state = "leaving"
                 /\ client' = [client EXCEPT ![Head(out).id] = NotUsed]
                 /\ known' = [known EXCEPT ![Head(out).id] = {}]
              \/ /\ Head(out).type = "MISSED_EVENTS" /\ client[Head(out).id].state = "watching"
                 /\ client' = client
                 /\ known' = [known EXCEPT ![Head(out).id] = Made(client[Head(out).id].path)]
              \/ /\ Head(out).type = "EVENT_BATCH" /\ client[Head(out).id].state = "watching"
                 /\ client' = client
                 /\ known' = [known EXCEPT ![Head(out).id] =
                        @ \cup {e.change : e \in ToSet(Head(out).events)}]
<1> DEFINE f == Head(out)
           id == f.id
           c == client[id]
<1>1. ~gone /\ out # <<>> /\ out' = Tail(out) /\ gone' = gone /\ flush' = flush /\ mOutgoing' = mOutgoing
  BY DEF IInv, WriterInv, PeerTypes, receive, outbox, writer
<1>2. f \in Frames /\ f = Sent[1] /\ 1 \in 1..Len(Sent)
  BY <1>1, SentReceive DEF IInv
<1>3. /\ f.type \in {"PONG", "ERROR", "WATCH_OK", "WATCH_ERROR", "MISSED_EVENTS", "UNWATCH_OK",
                     "EVENT_BATCH"}
      /\ f.type \notin {"PONG", "ERROR"} => id \in Ids
  BY <1>2, FrameFields
<1>4. CASE f.type \in {"PONG", "ERROR"}
  <2>1. client' = client /\ known' = known
    BY <1>4 DEF receive, peer
  <2> QED  BY <1>1, <1>4, <2>1
<1>5. CASE f.type \notin {"PONG", "ERROR"}
  <2>1. /\ client' = [client EXCEPT ![id] =
                CASE f.type = "WATCH_OK" /\ c.state = "asked" -> [c EXCEPT !.state = "watching"]
                  [] f.type = "WATCH_ERROR" /\ c.state = "asked" -> NotUsed
                  [] f.type = "UNWATCH_OK" -> NotUsed
                  [] OTHER -> c]
        /\ known' = [known EXCEPT ![id] =
                CASE f.type = "WATCH_OK" ->
                        IF c.state \in {"asked", "watching"} THEN Made(c.path) ELSE {}
                  [] f.type = "MISSED_EVENTS" /\ c.state = "watching" ->
                        IF c.state \in {"asked", "watching"} THEN Made(c.path) ELSE {}
                  [] f.type = "EVENT_BATCH" /\ c.state = "watching" ->
                        known[id] \cup {e.change : e \in ToSet(f.events)}
                  [] f.type = "UNWATCH_OK" -> {}
                  [] OTHER -> known[id]]
    BY <1>5 DEF receive
  <2>2. c \in Clients /\ c.state \in {"none", "asked", "watching", "leaving"} /\ id \in Ids
        /\ (c = NotUsed <=> c.state = "none")
    <3>1. c \in Clients /\ id \in Ids
      BY <1>3, <1>5 DEF IInv, PeerTypes
    <3> HIDE DEF c
    <3> QED  BY <3>1, ClientFields
  <2>3. client \in [Ids -> Clients] /\ known \in [Ids -> SUBSET Changes]
    BY DEF IInv, PeerTypes
  <2>4. [client EXCEPT ![id] = c] = client /\ [known EXCEPT ![id] = known[id]] = known
    BY <2>2, <2>3
  <2>5. f.type \in {"WATCH_OK", "WATCH_ERROR"} => c.state \in {"asked", "leaving"}
    BY <1>1, <1>2 DEF IInv, ReplyInv
  <2>6. f.type = "WATCH_OK" => known[id] = {}
    BY <1>1, <1>2 DEF IInv, OkInv
  <2>7. f.type = "UNWATCH_OK" => c.state = "leaving"
    BY <1>1, <1>2 DEF IInv, LeavingInv
  <2> HIDE DEF f, id, c
  <2>8. CASE f.type = "WATCH_OK" /\ c.state = "asked"
    <3> DEFINE w == [c EXCEPT !.state = "watching"]
    <3>2. client' = [client EXCEPT ![id] = w] /\ known' = [known EXCEPT ![id] = Made(c.path)]
      BY <2>1, <2>8
    <3>3. w \in Clients /\ w.state = "watching" /\ w.path = c.path
      BY <2>2, <2>8, ClientFields
    <3> HIDE DEF w
    <3>1. /\ \E x \in Clients : /\ x.state = "watching" /\ x.path = c.path
                                /\ client' = [client EXCEPT ![id] = x]
          /\ known' = [known EXCEPT ![id] = Made(c.path)]
      BY <3>2, <3>3
    <3> QED  BY <1>1, <1>3, <2>8, <3>1 DEF f, id, c
  <2>9. CASE f.type = "WATCH_OK" /\ c.state # "asked"
    <3>1. client' = client /\ known' = known /\ c.state = "leaving"
      BY <2>1, <2>4, <2>5, <2>6, <2>9
    <3> QED  BY <1>1, <1>3, <2>9, <3>1 DEF f, id, c
  <2>10. CASE f.type = "WATCH_ERROR" /\ c.state = "asked"
    <3>1. client' = [client EXCEPT ![id] = NotUsed] /\ known' = known
      BY <2>1, <2>4, <2>10
    <3> QED  BY <1>1, <1>3, <2>10, <3>1 DEF f, id, c
  <2>11. CASE f.type = "WATCH_ERROR" /\ c.state # "asked"
    <3>1. client' = client /\ known' = known /\ c.state = "leaving"
      BY <2>1, <2>4, <2>5, <2>11
    <3> QED  BY <1>1, <1>3, <2>11, <3>1 DEF f, id, c
  <2>12. CASE f.type = "UNWATCH_OK"
    <3>1. client' = [client EXCEPT ![id] = NotUsed] /\ known' = [known EXCEPT ![id] = {}]
      BY <2>1, <2>12
    <3> QED  BY <1>1, <1>3, <2>7, <2>12, <3>1 DEF f, id, c
  <2>13. CASE f.type = "MISSED_EVENTS" /\ c.state = "watching"
    <3>1. client' = client /\ known' = [known EXCEPT ![id] = Made(c.path)]
      BY <2>1, <2>4, <2>13
    <3> QED  BY <1>1, <1>3, <2>13, <3>1 DEF f, id, c
  <2>14. CASE f.type = "EVENT_BATCH" /\ c.state = "watching"
    <3>1. client' = client /\ known' = [known EXCEPT ![id] = known[id] \cup {e.change : e \in ToSet(f.events)}]
      BY <2>1, <2>4, <2>14
    <3> QED  BY <1>1, <1>3, <2>14, <3>1 DEF f, id, c
  <2>15. CASE f.type \in {"MISSED_EVENTS", "EVENT_BATCH"} /\ c.state # "watching"
    <3>1. client' = client /\ known' = known
      BY <2>1, <2>4, <2>15
    <3> QED  BY <1>1, <1>3, <2>15, <3>1 DEF f, id, c
  <2> QED  BY <1>3, <1>5, <2>8, <2>9, <2>10, <2>11, <2>12, <2>13, <2>14, <2>15 DEF f
<1> QED  BY <1>4, <1>5

\* ... id by id.
LEMMA ReceiveEffect ==
    ASSUME IInv, receive
    PROVE  /\ client' \in [Ids -> Clients] /\ known' \in [Ids -> SUBSET Changes]
           /\ \A id \in Ids :
              \/ client'[id] = client[id] /\ known'[id] = known[id]
              \/ /\ id = Head(out).id /\ Head(out).type = "WATCH_OK" /\ client[id].state = "asked"
                 /\ client'[id].state = "watching" /\ client'[id].path = client[id].path
                 /\ known'[id] = Made(client[id].path)
              \/ /\ id = Head(out).id /\ Head(out).type = "WATCH_ERROR" /\ client[id].state = "asked"
                 /\ client'[id] = NotUsed /\ known'[id] = known[id]
              \/ /\ id = Head(out).id /\ Head(out).type = "UNWATCH_OK" /\ client[id].state = "leaving"
                 /\ client'[id] = NotUsed /\ known'[id] = {}
              \/ /\ id = Head(out).id /\ Head(out).type = "MISSED_EVENTS"
                 /\ client[id].state = "watching" /\ client'[id] = client[id]
                 /\ known'[id] = Made(client[id].path)
              \/ /\ id = Head(out).id /\ Head(out).type = "EVENT_BATCH"
                 /\ client[id].state = "watching" /\ client'[id] = client[id]
                 /\ known'[id] = known[id] \cup {e.change : e \in ToSet(Head(out).events)}
<1> DEFINE f == Head(out)
           i == f.id
<1>1. client \in [Ids -> Clients] /\ known \in [Ids -> SUBSET Changes] /\ changes \in [Paths -> Nat]
  BY DEF IInv, PeerTypes, WorldTypes
<1>2. NotUsed \in Clients /\ NotUsed.state = "none" /\ {} \in SUBSET Changes
  BY DEF Clients, NotUsed
<1>3. f \in Frames
  <2>1. out \in Seq(Frames) /\ out # <<>>
    BY DEF IInv, WriterTypes, receive
  <2> QED  BY <2>1
<1>4. \A id \in Ids : client[id] # NotUsed => Made(client[id].path) \in SUBSET Changes
  <2> SUFFICES ASSUME NEW id \in Ids, client[id] # NotUsed
               PROVE  Made(client[id].path) \in SUBSET Changes
    OBVIOUS
  <2>1. client[id].path \in Paths
    <3>1. client[id] \in Clients
      BY <1>1
    <3> QED  BY <3>1, ClientFields
  <2> DEFINE q == client[id].path
  <2> HIDE DEF q
  <2>2. changes[q] \in Nat /\ q \in Paths
    BY <1>1, <2>1 DEF q
  <2>3. Made(q) \in SUBSET Changes
    BY <2>2 DEF Made, Changes
  <2> QED  BY <2>3 DEF q
<1>5. \A id \in Ids : client[id].state = "watching" \/ client[id].state = "asked" => client[id] # NotUsed
  BY <1>2
<1>6. f.type = "EVENT_BATCH" => {e.change : e \in ToSet(f.events)} \subseteq Changes
  <2> SUFFICES ASSUME f.type = "EVENT_BATCH", NEW e \in ToSet(f.events) PROVE e.change \in Changes
    OBVIOUS
  <2>1. f.events \in Seq(Events)
    BY <1>3, FrameFields
  <2> DEFINE s == f.events
  <2> HIDE DEF s
  <2>2. s \in Seq(Events) /\ e \in ToSet(s)
    BY <2>1 DEF s
  <2>3. e \in Events
    BY <2>2 DEF ToSet
  <2> QED  BY <2>3 DEF Events
<1>7. f.type \notin {"PONG", "ERROR"} => i \in Ids
  BY <1>3, FrameFields
<1> HIDE DEF f, i
<1> DEFINE Result ==
              /\ client' \in [Ids -> Clients] /\ known' \in [Ids -> SUBSET Changes]
              /\ \A id \in Ids :
                 \/ client'[id] = client[id] /\ known'[id] = known[id]
                 \/ /\ id = i /\ f.type = "WATCH_OK" /\ client[id].state = "asked"
                    /\ client'[id].state = "watching" /\ client'[id].path = client[id].path
                    /\ known'[id] = Made(client[id].path)
                 \/ /\ id = i /\ f.type = "WATCH_ERROR" /\ client[id].state = "asked"
                    /\ client'[id] = NotUsed /\ known'[id] = known[id]
                 \/ /\ id = i /\ f.type = "UNWATCH_OK" /\ client[id].state = "leaving"
                    /\ client'[id] = NotUsed /\ known'[id] = {}
                 \/ /\ id = i /\ f.type = "MISSED_EVENTS"
                    /\ client[id].state = "watching" /\ client'[id] = client[id]
                    /\ known'[id] = Made(client[id].path)
                 \/ /\ id = i /\ f.type = "EVENT_BATCH"
                    /\ client[id].state = "watching" /\ client'[id] = client[id]
                    /\ known'[id] = known[id] \cup {e.change : e \in ToSet(f.events)}
<1> HIDE DEF Result
<1>8. ASSUME client' = client, known' = known PROVE Result
  BY <1>1, <1>8 DEF Result
<1>9. ASSUME f.type = "WATCH_OK", client[i].state = "asked", NEW c \in Clients, c.state = "watching",
             c.path = client[i].path, client' = [client EXCEPT ![i] = c],
             known' = [known EXCEPT ![i] = Made(client[i].path)]
      PROVE  Result
  <2>1. i \in Ids /\ Made(client[i].path) \in SUBSET Changes
    BY <1>4, <1>5, <1>7, <1>9
  <2>2. /\ client' \in [Ids -> Clients] /\ known' \in [Ids -> SUBSET Changes]
        /\ \A id \in Ids : /\ client'[id] = IF id = i THEN c ELSE client[id]
                           /\ known'[id] = IF id = i THEN Made(client[i].path) ELSE known[id]
    BY <1>1, <1>9, <2>1, UpdateAt
  <2> QED  BY <1>9, <2>1, <2>2 DEF Result
<1>10. ASSUME f.type = "WATCH_ERROR", client[i].state = "asked",
              client' = [client EXCEPT ![i] = NotUsed], known' = known
       PROVE  Result
  <2>1. i \in Ids
    BY <1>7, <1>10
  <2>2. /\ client' \in [Ids -> Clients] /\ known' \in [Ids -> SUBSET Changes]
        /\ \A id \in Ids : /\ client'[id] = IF id = i THEN NotUsed ELSE client[id]
                           /\ known'[id] = known[id]
    BY <1>1, <1>2, <1>10, <2>1, UpdateAt
  <2> QED  BY <1>10, <2>1, <2>2 DEF Result
<1>11. ASSUME f.type = "UNWATCH_OK", client[i].state = "leaving",
              client' = [client EXCEPT ![i] = NotUsed], known' = [known EXCEPT ![i] = {}]
       PROVE  Result
  <2>1. i \in Ids
    BY <1>7, <1>11
  <2>2. /\ client' \in [Ids -> Clients] /\ known' \in [Ids -> SUBSET Changes]
        /\ \A id \in Ids : /\ client'[id] = IF id = i THEN NotUsed ELSE client[id]
                           /\ known'[id] = IF id = i THEN {} ELSE known[id]
    BY <1>1, <1>2, <1>11, <2>1, UpdateAt
  <2> QED  BY <1>11, <2>1, <2>2 DEF Result
<1>12. ASSUME f.type = "MISSED_EVENTS", client[i].state = "watching",
              client' = client, known' = [known EXCEPT ![i] = Made(client[i].path)]
       PROVE  Result
  <2>1. i \in Ids /\ Made(client[i].path) \in SUBSET Changes
    BY <1>4, <1>5, <1>7, <1>12
  <2>2. /\ client' \in [Ids -> Clients] /\ known' \in [Ids -> SUBSET Changes]
        /\ \A id \in Ids : /\ client'[id] = client[id]
                           /\ known'[id] = IF id = i THEN Made(client[i].path) ELSE known[id]
    BY <1>1, <1>12, <2>1, UpdateAt
  <2> QED  BY <1>12, <2>1, <2>2 DEF Result
<1>13. ASSUME f.type = "EVENT_BATCH", client[i].state = "watching", client' = client,
              known' = [known EXCEPT ![i] = known[i] \cup {e.change : e \in ToSet(f.events)}]
       PROVE  Result
  <2> DEFINE more == {e.change : e \in ToSet(f.events)}
  <2>1. i \in Ids /\ more \subseteq Changes /\ known[i] \cup more \in SUBSET Changes
    BY <1>1, <1>6, <1>7, <1>13
  <2> HIDE DEF more
  <2>2. /\ client' \in [Ids -> Clients] /\ known' \in [Ids -> SUBSET Changes]
        /\ \A id \in Ids : /\ client'[id] = client[id]
                           /\ known'[id] = IF id = i THEN known[i] \cup more ELSE known[id]
    <3> DEFINE all == known[i] \cup more
    <3> HIDE DEF all
    <3>1. known' = [known EXCEPT ![i] = all] /\ all \in SUBSET Changes
      BY <1>13, <2>1 DEF more, all
    <3>2. /\ known' \in [Ids -> SUBSET Changes]
          /\ \A id \in Ids : known'[id] = IF id = i THEN all ELSE known[id]
      BY <1>1, <2>1, <3>1, UpdateAt
    <3> QED  BY <1>1, <1>13, <3>2 DEF all
  <2>3. f.type = "EVENT_BATCH" /\ client[i].state = "watching"
    BY <1>13
  <2>4. \A id \in Ids :
            \/ client'[id] = client[id] /\ known'[id] = known[id]
            \/ /\ id = i /\ f.type = "EVENT_BATCH"
               /\ client[id].state = "watching" /\ client'[id] = client[id]
               /\ known'[id] = known[id] \cup more
    BY <2>2, <2>3
  <2> QED  BY <2>2, <2>4 DEF Result, more
<1> DEFINE Opens == /\ f.type = "WATCH_OK" /\ client[i].state = "asked"
                    /\ \E c \in Clients : /\ c.state = "watching" /\ c.path = client[i].path
                                          /\ client' = [client EXCEPT ![i] = c]
                    /\ known' = [known EXCEPT ![i] = Made(client[i].path)]
           Refuses == /\ f.type = "WATCH_ERROR" /\ client[i].state = "asked"
                      /\ client' = [client EXCEPT ![i] = NotUsed] /\ known' = known
           Leaves == /\ f.type = "UNWATCH_OK" /\ client[i].state = "leaving"
                     /\ client' = [client EXCEPT ![i] = NotUsed] /\ known' = [known EXCEPT ![i] = {}]
           Lists == /\ f.type = "MISSED_EVENTS" /\ client[i].state = "watching"
                    /\ client' = client /\ known' = [known EXCEPT ![i] = Made(client[i].path)]
           Learns == /\ f.type = "EVENT_BATCH" /\ client[i].state = "watching" /\ client' = client
                     /\ known' = [known EXCEPT ![i] = known[i] \cup {e.change : e \in ToSet(f.events)}]
           Stays == client' = client /\ known' = known
<1>14. Stays \/ Opens \/ Refuses \/ Leaves \/ Lists \/ Learns
  BY ReceiveCases DEF f, i
<1>15. Result
  <2>1. Opens => Result
    <3> SUFFICES ASSUME Opens PROVE Result
      OBVIOUS
    <3>1. PICK c \in Clients : /\ c.state = "watching" /\ c.path = client[i].path
                              /\ client' = [client EXCEPT ![i] = c]
      OBVIOUS
    <3> QED  BY <1>9, <3>1
  <2>2. Refuses => Result
    BY <1>10
  <2>3. Leaves => Result
    BY <1>11
  <2>4. Lists => Result
    BY <1>12
  <2>5. Learns => Result
    BY <1>13
  <2>6. Stays => Result
    BY <1>8
  <2> HIDE DEF Opens, Refuses, Leaves, Lists, Learns, Stays
  <2> QED  BY <1>14, <2>1, <2>2, <2>3, <2>4, <2>5, <2>6
<1> QED  BY <1>15 DEF f, i, Result

\* The same, without the cases: a new watch is the request's, and newer than all.
LEMMA AddWatchEffect ==
    ASSUME BackendTypes, NEW id \in Ids, NEW path \in Paths, NEW key \in Keys,
           fileWatcherAddWatch(id, path, key)
    PROVE  /\ mpc' \in {"register", "fallback", "error"} /\ req'.id = id
           /\ mpc' \in {"fallback", "error"} => req'.path = path
           /\ \A k \in Keys : issued'[k] \in Nat /\ issued[k] <= issued'[k]
           /\ active \subseteq active'
           /\ \A w \in active' : w \in active \/
                (mpc' = "register" /\ Efsw(w) = Efsw(req)' /\ w.path = path /\ w.efswId <= issued'[w.key])
           /\ mpc' = "register" =>
                /\ \E w \in active' : Efsw(w) = Efsw(req)'
                /\ Efsw(req)' \in Efsws /\ req'.efswId <= issued'[req'.key]
                /\ \A x \in Efsws : x.efswId <= issued[x.key] => x # Efsw(req)'
<1> DEFINE n == issued[key] + 1
<1>1. n \in Nat /\ issued \in [Keys -> Nat]
  BY DEF BackendTypes
<1>2. CASE /\ mpc' = "register" /\ req' \in Opened
           /\ req'.id = id /\ req'.key = key /\ req'.efswId = issued[key] + 1
           /\ issued' = [issued EXCEPT ![key] = issued[key] + 1]
           /\ \E w \in [key : Keys, efswId : Nat, path : Paths] :
                /\ w.key = key /\ w.efswId = issued[key] + 1 /\ w.path = path
                /\ Efsw(w) = Efsw(req)' /\ active' = active \cup {w} /\ IsFiniteSet(active')
  <2>1. PICK w \in [key : Keys, efswId : Nat, path : Paths] :
            /\ w.key = key /\ w.efswId = issued[key] + 1 /\ w.path = path
            /\ Efsw(w) = Efsw(req)' /\ active' = active \cup {w}
    BY <1>2
  <2>2. Efsw(req)' \in Efsws /\ (Efsw(req)').key = key /\ (Efsw(req)').efswId = n
    BY <1>2, RequestFields
  <2>3. issued'[key] = n /\ \A k \in Keys : issued'[k] \in Nat /\ issued[k] <= issued'[k]
    BY <1>1, <1>2
  <2>4. \A x \in Efsws : x.efswId <= issued[x.key] => x # Efsw(req)'
    BY <1>1, <2>2
  <2> HIDE DEF n
  <2> QED  BY <1>1, <1>2, <2>1, <2>2, <2>3, <2>4 DEF n
<1>3. CASE /\ mpc' = IF key = Native THEN "fallback" ELSE "error"
           /\ req' \in Refused /\ req'.id = id /\ req'.path = path
           /\ active' = active /\ issued' = issued
  BY <1>1, <1>3
<1> QED  BY <1>2, <1>3, AddWatchCases

\* What is coming to a client is not lost by a step that only sends.
LEMMA ComingSent ==
    ASSUME raw' = raw, callback' = callback, mWatches' = mWatches,
           mPendingEvents' = mPendingEvents, mPendingMissed' = mPendingMissed,
           \A i \in 1..Len(Sent) : i \in 1..Len(Sent') /\ (Sent')[i] = Sent[i],
           NEW id, NEW c, Coming(id, c)
    PROVE  Coming(id, c)'
<1>1. CASE \E i \in 1..Len(Sent) :
                /\ Sent[i].type = "EVENT_BATCH" /\ Sent[i].id = id
                /\ \E k \in 1..Len(Sent[i].events) : Sent[i].events[k].change = c
  <2>1. \E i \in 1..Len(Sent') :
            /\ (Sent')[i].type = "EVENT_BATCH" /\ (Sent')[i].id = id
            /\ \E k \in 1..Len((Sent')[i].events) : (Sent')[i].events[k].change = c
    BY <1>1
  <2> QED  BY <2>1 DEF Coming
<1>2. CASE c = Missed /\ \E i \in 1..Len(Sent) : Sent[i].type = "MISSED_EVENTS" /\ Sent[i].id = id
  <2>1. c = Missed /\ \E i \in 1..Len(Sent') : (Sent')[i].type = "MISSED_EVENTS" /\ (Sent')[i].id = id
    BY <1>2
  <2> QED  BY <2>1 DEF Coming
<1>3. CASE \/ \E key \in Keys : \E i \in 1..Len(raw[key]) :
                raw[key][i].efsw = mWatches[id] /\ raw[key][i].change = c
           \/ \E key \in Keys : callback[key] # Idle /\ callback[key].id = id /\ callback[key].change = c
           \/ \E i \in 1..Len(mPendingEvents[id]) : mPendingEvents[id][i].change = c
           \/ c = Missed /\ \E i \in 1..Len(mPendingMissed) : mPendingMissed[i] = id
  BY <1>3 DEF Coming
<1> QED  BY <1>1, <1>2, <1>3 DEF Coming

\* No change is lost by a step that keeps what is coming to the client.
LEMMA ComingKept ==
    ASSUME ComingInv, ~gone' => ~gone, Serving' => Serving, changes' = changes,
           \A id \in Ids : client'[id].state = "watching" =>
                /\ client[id].state = "watching" /\ client'[id].path = client[id].path
                /\ known[id] \subseteq known'[id],
           \A id \in Ids : \A c : client'[id].state = "watching" /\ ~gone' /\ Serving' /\ Coming(id, c) =>
                Coming(id, c)' \/ Coming(id, Missed)'
    PROVE  ComingInv'
<1> SUFFICES ASSUME ~gone', Serving', NEW id \in Ids, client'[id].state = "watching",
                    NEW c \in Made(client[id].path)'
             PROVE  c \in known'[id] \/ Coming(id, c)' \/ Coming(id, Missed)'
  BY DEF ComingInv
<1>1. client[id].state = "watching" /\ known[id] \subseteq known'[id] /\ ~gone /\ Serving
  OBVIOUS
<1>2. c \in Made(client[id].path)
  BY DEF Made
<1>3. c \in known[id] \/ Coming(id, c) \/ Coming(id, Missed)
  BY <1>1, <1>2 DEF ComingInv
<1> QED  BY <1>1, <1>3

\* What a client that watches learns of a batch, and of a missed event.
LEMMA ReceiveLearns ==
    ASSUME IInv, receive, Head(out).type \in {"EVENT_BATCH", "MISSED_EVENTS"},
           Head(out).id \in Ids, client[Head(out).id].state = "watching"
    PROVE  known'[Head(out).id] =
                IF Head(out).type = "MISSED_EVENTS" THEN Made(client[Head(out).id].path)
                ELSE known[Head(out).id] \cup {e.change : e \in ToSet(Head(out).events)}
<1> DEFINE f == Head(out)
           i == f.id
           more == {e.change : e \in ToSet(f.events)}
           P == Made(client[i].path)
<1>1. known' = [known EXCEPT ![i] =
            CASE f.type = "WATCH_OK" -> IF client[i].state \in {"asked", "watching"} THEN P ELSE {}
              [] f.type = "MISSED_EVENTS" /\ client[i].state = "watching" -> P
              [] f.type = "EVENT_BATCH" /\ client[i].state = "watching" -> known[i] \cup more
              [] f.type = "UNWATCH_OK" -> {}
              [] OTHER -> known[i]]
  BY DEF receive
<1>2. known \in [Ids -> SUBSET Changes] /\ i \in Ids /\ client[i].state = "watching"
      /\ f.type \in {"EVENT_BATCH", "MISSED_EVENTS"}
  BY DEF IInv, PeerTypes
<1> HIDE DEF f, i, more, P
<1>3. known'[i] = IF f.type = "MISSED_EVENTS" THEN P ELSE known[i] \cup more
  <2>1. CASE f.type = "MISSED_EVENTS"
    BY <1>1, <1>2, <2>1
  <2>2. CASE f.type = "EVENT_BATCH"
    BY <1>1, <1>2, <2>2
  <2> QED  BY <1>2, <2>1, <2>2
<1> QED  BY <1>3 DEF f, i, more, P
=============================================================================
