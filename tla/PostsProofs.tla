---------------------------- MODULE PostsProofs ----------------------------
(***************************************************************************)
(* What the operators of Posts compute, for posts of any shape: which      *)
(* members redaction lets through, which references come out of a list,    *)
(* and what sorting by id does.                                            *)
(***************************************************************************)
EXTENDS Posts, FiniteSetTheorems, SequenceTheorems, TLAPS

-----------------------------------------------------------------------------
(* Ranks.  If each element of a finite set has a set of elements that come   *)
(* no later, itself included, and these sets form a chain, then the number   *)
(* of elements in them runs through 1, 2, ... without gap or repetition.     *)
Chain(S, B) ==
  /\ B \in [S -> SUBSET S]
  /\ \A i \in S : i \in B[i]
  /\ \A i, j \in S : i # j => \/ B[i] \subseteq B[j] /\ j \notin B[i]
                              \/ B[j] \subseteq B[i] /\ i \notin B[j]

Ranks(S, B) ==
  /\ \A i \in S : Cardinality(B[i]) \in 1..Cardinality(S)
  /\ \A i, j \in S : i # j => Cardinality(B[i]) # Cardinality(B[j])
  /\ \A n \in 1..Cardinality(S) : \E i \in S : Cardinality(B[i]) = n

(* In a finite chain of sets each rank from one to the number of elements is *)
(* taken by exactly one of them.                                             *)
LEMMA ChainRanks ==
  ASSUME NEW S, IsFiniteSet(S), NEW B, Chain(S, B)
  PROVE  Ranks(S, B)
<1>0. /\ B \in [S -> SUBSET S]
      /\ \A i \in S : i \in B[i]
      /\ \A i, j \in S : i # j => \/ B[i] \subseteq B[j] /\ j \notin B[i]
                                  \/ B[j] \subseteq B[i] /\ i \notin B[j]
  BY DEF Chain
<1> DEFINE N == Cardinality(S)
<1>1. N \in Nat
  BY FS_CardinalityType
<1>2. ASSUME NEW i \in S
      PROVE  IsFiniteSet(B[i]) /\ Cardinality(B[i]) \in 1..N
  <2>1. B[i] \in SUBSET S /\ i \in B[i]
    BY <1>0
  <2>2. IsFiniteSet(B[i]) /\ Cardinality(B[i]) <= N
    BY <2>1, FS_Subset
  <2>3. Cardinality(B[i]) \in Nat
    BY <2>2, FS_CardinalityType
  <2>4. Cardinality(B[i]) # 0
    BY <2>1, <2>2, FS_EmptySet
  <2> QED
    BY <1>1, <2>2, <2>3, <2>4
<1>3. ASSUME NEW i \in S, NEW j \in S, B[i] \subseteq B[j]
      PROVE  /\ Cardinality(B[i]) <= Cardinality(B[j])
             /\ Cardinality(B[j]) = Cardinality(B[i]) => B[j] = B[i]
  BY <1>2, <1>3, FS_Subset
<1>4. ASSUME NEW i \in S, NEW j \in S, i # j
      PROVE  Cardinality(B[i]) # Cardinality(B[j])
  <2>1. CASE B[i] \subseteq B[j] /\ j \notin B[i]
    BY <1>0, <1>3, <2>1
  <2>2. CASE B[j] \subseteq B[i] /\ i \notin B[j]
    BY <1>0, <1>3, <2>2
  <2> QED
    BY <1>0, <1>4, <2>1, <2>2
<1> DEFINE rank == [i \in S |-> Cardinality(B[i])]
<1>5. rank \in Injection(S, 1..N)
  BY <1>2, <1>4 DEF Injection, IsInjective
<1>6. IsFiniteSet(1..N) /\ Cardinality(1..N) = N
  BY <1>1, FS_Interval
<1> HIDE DEF rank
<1>7. rank \in Surjection(S, 1..N)
  BY <1>5, <1>6, FS_Injection
<1>8. ASSUME NEW n \in 1..N PROVE \E i \in S : Cardinality(B[i]) = n
  <2>1. PICK i \in S : rank[i] = n
    BY <1>7 DEF Surjection
  <2> QED
    BY <2>1 DEF rank
<1> QED
  BY <1>2, <1>4, <1>8 DEF Ranks

(* The n-th position is one of the positions, and every position is some     *)
(* n-th.                                                                     *)
LEMMA NthPosition ==
  ASSUME NEW S \in SUBSET Int, IsFiniteSet(S)
  PROVE  /\ \A n \in 1..Cardinality(S) : Nth(S, n) \in S
         /\ \A i \in S : \E n \in 1..Cardinality(S) : Nth(S, n) = i
<1> DEFINE B == [i \in S |-> {j \in S : j <= i}]
<1>1. B \in [S -> SUBSET S]
  OBVIOUS
<1>2. \A i \in S : B[i] = {j \in S : j <= i}
  OBVIOUS
<1>0. \A i \in S : \A k : k \in B[i] <=> k \in S /\ k <= i
  OBVIOUS
<1> HIDE DEF B
<1>3. ASSUME NEW i \in S, NEW j \in S, i < j
      PROVE  B[i] \subseteq B[j] /\ j \notin B[i]
  <2>1. i \in Int /\ j \in Int /\ ~(j <= i)
    BY <1>3
  <2>2. ASSUME NEW k \in B[i] PROVE k \in B[j]
    <3>1. k \in S /\ k <= i /\ k \in Int
      BY <1>0, <2>2
    <3>2. k <= j
      BY <1>3, <2>1, <3>1
    <3> QED
      BY <1>0, <3>1, <3>2
  <2> QED
    BY <1>0, <2>1, <2>2
<1>4. Chain(S, B)
  <2>1. \A i \in S : i \in B[i]
    <3> SUFFICES ASSUME NEW i \in S PROVE i \in B[i]
      OBVIOUS
    <3>1. i <= i
      OBVIOUS
    <3> QED
      BY <1>0, <3>1
  <2>2. \A i, j \in S : i # j => i < j \/ j < i
    OBVIOUS
  <2> QED
    BY <1>1, <1>3, <2>1, <2>2 DEF Chain
<1>5. Ranks(S, B)
  BY <1>4, ChainRanks
<1>6. \A n : Nth(S, n) = CHOOSE i \in S : Cardinality({j \in S : j <= i}) = n
  BY DEF Nth
<1>7. ASSUME NEW n \in 1..Cardinality(S)
      PROVE  Nth(S, n) \in S /\ Cardinality(B[Nth(S, n)]) = n
  <2>1. \E i \in S : Cardinality({j \in S : j <= i}) = n
    BY <1>2, <1>5 DEF Ranks
  <2>2. Nth(S, n) \in S /\ Cardinality({j \in S : j <= Nth(S, n)}) = n
    BY <1>6, <2>1
  <2> QED
    BY <1>2, <2>2
<1>8. ASSUME NEW i \in S PROVE \E n \in 1..Cardinality(S) : Nth(S, n) = i
  <2>1. Cardinality(B[i]) \in 1..Cardinality(S)
    BY <1>5 DEF Ranks
  <2>2. Nth(S, Cardinality(B[i])) = i
    BY <1>5, <1>7, <2>1 DEF Ranks
  <2> QED
    BY <2>1, <2>2
<1> QED
  BY <1>7, <1>8

(* The references that come out of a list are those of its usable entries.   *)
RefsOf(quotes, m, b, t) ==
  {post_ref(quotes[i], b, t) : i \in {k \in 1..m : Usable(quotes[k])}}

(* post_refs returns the references of the usable entries of its list, and   *)
(* nothing else.                                                             *)
LEMMA RefsOfList ==
  ASSUME NEW m \in Nat, NEW quotes, DOMAIN quotes = 1..m, NEW b, NEW t
  PROVE  /\ post_refs(quotes, b, t) \in Seq(RefsOf(quotes, m, b, t))
         /\ Range(post_refs(quotes, b, t)) = RefsOf(quotes, m, b, t)
<1> DEFINE usable == {i \in DOMAIN quotes : Usable(quotes[i])}
           U == {k \in 1..m : Usable(quotes[k])}
           refs == {post_ref(quotes[i], b, t) : i \in U}
           N == Cardinality(U)
           out == post_refs(quotes, b, t)
<1>1. usable = U
  OBVIOUS
<1>2. out = [n \in 1..N |-> post_ref(quotes[Nth(U, n)], b, t)]
  BY <1>1 DEF post_refs
<1>3. U \in SUBSET (1..m) /\ U \in SUBSET Int
  OBVIOUS
<1> HIDE DEF U, out
<1>4. IsFiniteSet(U) /\ N \in Nat
  <2>1. IsFiniteSet(1..m)
    BY FS_Interval
  <2>2. IsFiniteSet(U)
    BY <1>3, <2>1, FS_Subset
  <2> QED
    BY <2>2, FS_CardinalityType
<1>5. /\ \A n \in 1..N : Nth(U, n) \in U
      /\ \A i \in U : \E n \in 1..N : Nth(U, n) = i
  BY <1>3, <1>4, NthPosition
<1>6. DOMAIN out = 1..N /\ \A n \in 1..N : out[n] = post_ref(quotes[Nth(U, n)], b, t)
  BY <1>2
<1>7. \A n \in 1..N : out[n] \in refs
  BY <1>5, <1>6
<1>8. \A r \in refs : \E n \in 1..N : out[n] = r
  BY <1>5, <1>6
<1>9. out \in [1..N -> refs]
  BY <1>2, <1>6, <1>7
<1>10. out \in Seq(refs)
  <2> HIDE DEF refs
  <2> QED
    BY <1>4, <1>9
<1>11. Range(out) = refs
  BY <1>6, <1>7, <1>8 DEF Range
<1> QED
  BY <1>10, <1>11 DEF U, out, RefsOf

(* How many of the posts of S are numbered no higher than p.                 *)
RankIn(S, p) == Cardinality({q \in S : q.id <= p.id})

(* If no two posts share a number, their ranks run from one to how many they *)
(* are and follow the numbers, and what is not ranked up to p is newer.      *)
LEMMA RankFacts ==
  ASSUME NEW S, IsFiniteSet(S), \A p \in S : p.id \in Int,
         \A p, q \in S : p.id = q.id => p = q
  PROVE  /\ Cardinality(S) \in Nat
         /\ \A p \in S : RankIn(S, p) \in 1..Cardinality(S)
         /\ \A p, q \in S : RankIn(S, p) < RankIn(S, q) <=> p.id < q.id
         /\ \A p, q \in S : RankIn(S, p) = RankIn(S, q) => p = q
         /\ \A n \in 1..Cardinality(S) : \E p \in S : RankIn(S, p) = n
         /\ \A p \in S : Cardinality({q \in S : q.id > p.id}) = Cardinality(S) - RankIn(S, p)
<1> DEFINE B == [p \in S |-> {q \in S : q.id <= p.id}]
           N == Cardinality(S)
<1>0. \A p \in S : B[p] = {q \in S : q.id <= p.id} /\ RankIn(S, p) = Cardinality(B[p])
  BY DEF RankIn
<1>1. B \in [S -> SUBSET S] /\ \A p \in S : \A q : q \in B[p] <=> q \in S /\ q.id <= p.id
  OBVIOUS
<1> HIDE DEF B
<1>2. ASSUME NEW p \in S, NEW q \in S, p.id < q.id
      PROVE  B[p] \subseteq B[q] /\ q \notin B[p] /\ q \in B[q]
  <2>1. ASSUME NEW r \in S, r.id <= p.id PROVE r.id <= q.id
    <3>1. r.id \in Int /\ p.id \in Int /\ q.id \in Int
      OBVIOUS
    <3> QED
      BY <1>2, <2>1, <3>1
  <2>2. ~(q.id <= p.id) /\ q.id <= q.id
    <3>1. p.id \in Int /\ q.id \in Int
      OBVIOUS
    <3> QED
      BY <1>2, <3>1
  <2> QED
    BY <1>1, <2>1, <2>2
<1>3. \A p, q \in S : p # q => p.id < q.id \/ q.id < p.id
  <2> SUFFICES ASSUME NEW p \in S, NEW q \in S, p # q PROVE p.id < q.id \/ q.id < p.id
    OBVIOUS
  <2>1. p.id \in Int /\ q.id \in Int /\ p.id # q.id
    OBVIOUS
  <2> QED
    BY <2>1
<1>4. Ranks(S, B)
  <2>1. \A p \in S : p \in B[p]
    <3> SUFFICES ASSUME NEW p \in S PROVE p \in B[p]
      OBVIOUS
    <3>1. p.id <= p.id
      <4>1. p.id \in Int
        OBVIOUS
      <4> QED
        BY <4>1
    <3> QED
      BY <1>1, <3>1
  <2>2. Chain(S, B)
    BY <1>1, <1>2, <1>3, <2>1 DEF Chain
  <2> QED
    BY <2>2, ChainRanks
<1>5. N \in Nat
  BY FS_CardinalityType
<1>6. \A p \in S : RankIn(S, p) \in 1..N
  BY <1>0, <1>4 DEF Ranks
<1>7. \A p, q \in S : RankIn(S, p) = RankIn(S, q) => p = q
  BY <1>0, <1>4 DEF Ranks
<1>8. \A n \in 1..N : \E p \in S : RankIn(S, p) = n
  BY <1>0, <1>4 DEF Ranks
<1>9. ASSUME NEW p \in S, NEW q \in S, p.id < q.id PROVE RankIn(S, p) < RankIn(S, q)
  <2>1. B[p] \subseteq B[q] /\ p # q
    BY <1>2, <1>9
  <2>2. IsFiniteSet(B[q])
    BY <1>1, FS_Subset
  <2>3. Cardinality(B[p]) <= Cardinality(B[q])
    BY <2>1, <2>2, FS_Subset
  <2>4. RankIn(S, p) <= RankIn(S, q) /\ RankIn(S, p) # RankIn(S, q)
    BY <1>0, <1>7, <2>1, <2>3
  <2> QED
    BY <1>5, <1>6, <2>4
<1>10. ASSUME NEW p \in S, NEW q \in S, RankIn(S, p) < RankIn(S, q) PROVE p.id < q.id
  <2>1. RankIn(S, p) \in Nat /\ RankIn(S, q) \in Nat
    BY <1>5, <1>6
  <2>2. p # q /\ ~(RankIn(S, q) < RankIn(S, p))
    BY <1>10, <2>1
  <2> QED
    BY <1>3, <1>9, <2>2
<1>11. ASSUME NEW p \in S
       PROVE  Cardinality({q \in S : q.id > p.id}) = N - RankIn(S, p)
  <2> DEFINE newer == {q \in S : q.id > p.id}
  <2>1. newer = S \ B[p]
    <3>1. ASSUME NEW q \in S PROVE q.id > p.id <=> ~(q.id <= p.id)
      <4>1. q.id \in Int /\ p.id \in Int
        OBVIOUS
      <4> QED
        BY <4>1
    <3> QED
      BY <1>1, <3>1
  <2>2. B[p] \subseteq S /\ S \cap B[p] = B[p]
    BY <1>1
  <2>3. Cardinality(S \ B[p]) = Cardinality(S) - Cardinality(S \cap B[p])
    BY FS_Difference
  <2> QED
    BY <1>0, <2>1, <2>2, <2>3
<1>12. \A p, q \in S : RankIn(S, p) < RankIn(S, q) <=> p.id < q.id
  BY <1>9, <1>10
<1> QED
  BY <1>5, <1>6, <1>7, <1>8, <1>11, <1>12

(* The entries of s stand for the N posts of S, one for each.                *)
EachOnce(s, place, S, N) ==
  /\ IsFiniteSet(S) /\ N = Cardinality(S) /\ N \in Nat
  /\ \A p \in S : p.id \in Int
  /\ \A p, q \in S : p.id = q.id => p = q
  /\ DOMAIN s = 1..N /\ place \in [1..N -> S]
  /\ \A i, j \in 1..N : place[i] = place[j] => i = j
  /\ \A p \in S : \E i \in 1..N : place[i] = p
  /\ \A i \in 1..N : s[i].id = place[i].id

(* In sorted the entries of s stand in the order of the ranks.                *)
Sorts(sorted, s, place, S, N) ==
  /\ sorted \in [1..N -> Range(s)]
  /\ \A n \in 1..N : \E i \in 1..N : RankIn(S, place[i]) = n /\ sorted[n] = s[i]

(* Sorted by id, the entry of the post of rank n is in place n.              *)
LEMMA SortRanked ==
  ASSUME NEW s, NEW place, NEW S, NEW N, EachOnce(s, place, S, N)
  PROVE  Sorts(sort_by_id(s), s, place, S, N)
<1> USE DEF EachOnce
<1> SUFFICES /\ sort_by_id(s) \in [1..N -> Range(s)]
             /\ \A n \in 1..N : \E i \in 1..N :
                  RankIn(S, place[i]) = n /\ sort_by_id(s)[n] = s[i]
  BY DEF Sorts
<1> DEFINE Upto(i) == {j \in DOMAIN s : \/ s[j].id < s[i].id
                                        \/ s[j].id = s[i].id /\ j <= i}
<1>1. sort_by_id(s) = [n \in 1..N |-> s[CHOOSE i \in 1..N : Cardinality(Upto(i)) = n]]
  BY DEF sort_by_id
<1>2. \A i \in 1..N : place[i] \in S /\ s[i].id \in Int /\ s[i].id = place[i].id
  OBVIOUS
<1>3. ASSUME NEW i \in 1..N PROVE Cardinality(Upto(i)) = RankIn(S, place[i])
  <2> DEFINE U == Upto(i)
             V == {q \in S : q.id <= place[i].id}
             f == [j \in U |-> place[j]]
  <2>1. \A j : j \in U <=> j \in 1..N /\ place[j].id <= place[i].id
    <3> SUFFICES ASSUME NEW j \in 1..N PROVE j \in U <=> place[j].id <= place[i].id
      OBVIOUS
    <3>1. /\ s[j].id = place[j].id /\ s[i].id = place[i].id
          /\ place[j].id \in Int /\ place[i].id \in Int
      BY <1>2
    <3>2. place[j].id = place[i].id => j = i
      BY <1>2
    <3> QED
      BY <3>1, <3>2
  <2> HIDE DEF U
  <2>2. f \in [U -> V] /\ \A j \in U : f[j] = place[j]
    BY <1>2, <2>1
  <2>3. f \in Injection(U, V)
    BY <2>1, <2>2 DEF Injection, IsInjective
  <2>4. f \in Surjection(U, V)
    <3>1. ASSUME NEW q \in V PROVE \E j \in U : f[j] = q
      <4>1. PICK j \in 1..N : place[j] = q
        OBVIOUS
      <4> QED
        BY <2>1, <2>2, <4>1
    <3> QED
      BY <2>2, <3>1 DEF Surjection
  <2>5. ExistsBijection(U, V)
    BY <2>3, <2>4 DEF ExistsBijection, Bijection
  <2>6. IsFiniteSet(U)
    <3>1. IsFiniteSet(1..N) /\ U \subseteq 1..N
      BY <2>1, FS_Interval
    <3> QED
      BY <3>1, FS_Subset
  <2>7. Cardinality(V) = Cardinality(U)
    BY <2>5, <2>6, FS_Bijection
  <2> QED
    BY <2>7 DEF U, RankIn
<1> HIDE DEF Upto
<1>4. \A n \in 1..N : \E i \in 1..N : RankIn(S, place[i]) = n
  <2> SUFFICES ASSUME NEW n \in 1..N PROVE \E i \in 1..N : RankIn(S, place[i]) = n
    OBVIOUS
  <2>1. PICK p \in S : RankIn(S, p) = n
    <3>1. n \in 1..Cardinality(S)
      OBVIOUS
    <3> QED
      BY <3>1, RankFacts
  <2>2. PICK i \in 1..N : place[i] = p
    OBVIOUS
  <2> QED
    BY <2>1, <2>2
<1>5. ASSUME NEW n \in 1..N
      PROVE  \E i \in 1..N : RankIn(S, place[i]) = n /\ sort_by_id(s)[n] = s[i]
  <2>1. \E i \in 1..N : Cardinality(Upto(i)) = n
    BY <1>3, <1>4
  <2> DEFINE k == CHOOSE i \in 1..N : Cardinality(Upto(i)) = n
  <2>2. k \in 1..N /\ Cardinality(Upto(k)) = n
    BY <2>1
  <2>3. sort_by_id(s)[n] = s[k]
    BY <1>1
  <2> HIDE DEF k
  <2> QED
    BY <1>3, <2>2, <2>3
<1>6. sort_by_id(s) \in [1..N -> Range(s)]
  <2>1. ASSUME NEW n \in 1..N PROVE sort_by_id(s)[n] \in Range(s)
    <3>1. PICK i \in 1..N : sort_by_id(s)[n] = s[i]
      BY <1>5
    <3>2. s[i] \in Range(s)
      BY DEF Range
    <3> QED
      BY <3>1, <3>2
  <2> QED
    BY <1>1, <2>1
<1> QED
  BY <1>5, <1>6

(* Every sequence made of a finite set runs through the set once.            *)
LEMMA SequencesOfSet ==
  ASSUME NEW S, IsFiniteSet(S), NEW f \in SetToSeqs(S)
  PROVE  /\ Cardinality(S) \in Nat /\ f \in [1..Cardinality(S) -> S]
         /\ \A i, j \in 1..Cardinality(S) : f[i] = f[j] => i = j
         /\ \A x \in S : \E i \in 1..Cardinality(S) : f[i] = x
<1> DEFINE N == Cardinality(S)
<1>1. N \in Nat
  BY FS_CardinalityType
<1>2. f \in [1..N -> S] /\ \A i, j \in 1..N : i # j => f[i] # f[j]
  BY DEF SetToSeqs
<1>3. f \in Injection(1..N, S)
  BY <1>2 DEF Injection, IsInjective
<1>4. Cardinality(1..N) = N
  BY <1>1, FS_Interval
<1>5. f \in Surjection(1..N, S)
  BY <1>3, <1>4, FS_Injection
<1> QED
  BY <1>1, <1>2, <1>5 DEF Surjection

(* SetToSeq lists every element of a finite set once.                        *)
LEMMA SequenceOfSet ==
  ASSUME NEW S, IsFiniteSet(S)
  PROVE  /\ Cardinality(S) \in Nat /\ SetToSeq(S) \in [1..Cardinality(S) -> S]
         /\ SetToSeq(S) \in Seq(S)
         /\ \A x \in S : \E i \in 1..Cardinality(S) : SetToSeq(S)[i] = x
<1> DEFINE N == Cardinality(S)
<1>1. N \in Nat /\ ExistsBijection(1..N, S)
  BY FS_CardinalityType
<1>2. PICK g : g \in Bijection(1..N, S)
  BY <1>1 DEF ExistsBijection
<1>3. g \in [1..N -> S] /\ IsInjective(g)
  BY <1>2 DEF Bijection, Injection
<1>4. SetToSeq(S) \in [1..N -> S] /\ IsInjective(SetToSeq(S))
  BY <1>3 DEF SetToSeq
<1>5. SetToSeq(S) \in SetToSeqs(S)
  BY <1>4 DEF SetToSeqs, IsInjective
<1>6. SetToSeq(S) \in Seq(S)
  BY <1>1, <1>4
<1> QED
  BY <1>1, <1>4, <1>5, <1>6, SequencesOfSet

(* A list with one more element in front.                                    *)
LEMMA Prepended ==
  ASSUME NEW x, NEW M \in Nat, NEW T, NEW f \in [1..M -> T]
  PROVE  /\ DOMAIN (<<x>> \o f) = 1..(M + 1)
         /\ (<<x>> \o f)[1] = x
         /\ \A i \in 2..(M + 1) : (<<x>> \o f)[i] = f[i - 1]
<1> DEFINE S == T \cup {x}
           s == <<x>> \o f
<1>1. f \in Seq(S) /\ Len(f) = M
  <2>1. f \in [1..M -> S]
    OBVIOUS
  <2> HIDE DEF S
  <2> QED
    BY <2>1
<1>2. <<x>> \in Seq(S) /\ Len(<<x>>) = 1 /\ <<x>>[1] = x
  OBVIOUS
<1> HIDE DEF S
<1>3. PICK g : g = <<x>>
  OBVIOUS
<1>4. g \in Seq(S) /\ Len(g) = 1 /\ g[1] = x
  BY <1>2, <1>3
<1>5. /\ g \o f \in Seq(S)
      /\ Len(g \o f) = Len(g) + Len(f)
      /\ \A i \in 1..Len(g) + Len(f) :
           (g \o f)[i] = IF i <= Len(g) THEN g[i] ELSE f[i - Len(g)]
  <2>1. g \in Seq(S) /\ f \in Seq(S)
    BY <1>1, <1>4
  <2> QED
    BY <2>1, ConcatProperties
<1>6. s = g \o f
  BY <1>3
<1> HIDE DEF s
<1>7. /\ DOMAIN s = 1..(M + 1) /\ s[1] = x
      /\ \A i \in 2..(M + 1) : s[i] = f[i - 1]
  <2>1. Len(s) = M + 1 /\ DOMAIN s = 1..Len(s)
    BY <1>1, <1>4, <1>5, <1>6, LenProperties
  <2>2. \A i \in 1..(M + 1) : s[i] = IF i <= 1 THEN g[i] ELSE f[i - 1]
    BY <1>1, <1>4, <1>5, <1>6
  <2> QED
    BY <1>4, <2>1, <2>2
<1> QED
  BY <1>7 DEF s

-----------------------------------------------------------------------------
(* Redaction.  Once the envelopes are dropped nothing sensitive is left just *)
(* in case every sensitive key lies below a member "ip".                     *)
LEMMA RedactionIsExact ==
  ASSUME NEW members \in SUBSET Seq(STRING),
         \A path \in members : \A n \in 1..Len(path) : SubSeq(path, 1, n) \in members
  PROVE  (\A path \in {q \in members : ~Occurs({"ip"}, q)} : ~Occurs(SensitiveKeys, path))
         <=> \A path \in members : \A i \in DOMAIN path :
               path[i] \in SensitiveKeys => \E j \in 1..(i - 1) : path[j] = "ip"
<1>1. ASSUME \A path \in members : \A i \in DOMAIN path :
               path[i] \in SensitiveKeys => \E j \in 1..(i - 1) : path[j] = "ip",
             NEW path \in members, ~Occurs({"ip"}, path), Occurs(SensitiveKeys, path)
      PROVE  FALSE
  <2>1. PICK i \in DOMAIN path : path[i] \in SensitiveKeys
    BY <1>1 DEF Occurs
  <2>2. PICK j \in 1..(i - 1) : path[j] = "ip"
    BY <1>1, <2>1
  <2>3. DOMAIN path = 1..Len(path) /\ Len(path) \in Nat
    BY LenProperties
  <2>4. j \in DOMAIN path
    BY <2>2, <2>3
  <2> QED
    BY <1>1, <2>2, <2>4 DEF Occurs
<1>2. ASSUME \A path \in members : ~Occurs({"ip"}, path) => ~Occurs(SensitiveKeys, path),
             NEW path \in members, NEW i \in DOMAIN path, path[i] \in SensitiveKeys,
             \A j \in 1..(i - 1) : path[j] # "ip"
      PROVE  FALSE
  <2>1. DOMAIN path = 1..Len(path) /\ Len(path) \in Nat /\ path \in [1..Len(path) -> STRING]
    BY LenProperties
  <2>2. i \in 1..Len(path) /\ i \in Nat /\ i >= 1
    BY <2>1
  <2> DEFINE q == SubSeq(path, 1, i)
  <2>3. q \in members
    BY <2>2
  <2>4. \A k \in 1..i : path[k] \in STRING
    BY <2>1, <2>2
  <2>5. /\ Len(q) = i /\ q \in Seq(STRING)
        /\ \A k \in 1..i : q[k] = path[k]
    BY <2>2, <2>4, SubSeqProperties
  <2> HIDE DEF q
  <2>6. DOMAIN q = 1..i
    BY <2>5, LenProperties
  <2>7. \A k \in 1..i : q[k] # "ip"
    <3> SUFFICES ASSUME NEW k \in 1..i PROVE q[k] # "ip"
      OBVIOUS
    <3>1. CASE k = i
      BY <1>2, <2>5, <3>1 DEF SensitiveKeys
    <3>2. CASE k # i
      BY <1>2, <2>2, <2>5, <3>2
    <3> QED
      BY <3>1, <3>2
  <2>8. ~Occurs({"ip"}, q)
    BY <2>6, <2>7 DEF Occurs
  <2>9. Occurs(SensitiveKeys, q)
    BY <1>2, <2>2, <2>5, <2>6 DEF Occurs
  <2> QED
    BY <1>2, <2>3, <2>8, <2>9
<1> QED
  BY <1>1, <1>2

\* The newest posts of an ordered thread, as many as there are and the limit
\* allows.
Newest(s, c) == IF Len(s) > c THEN split_off(s, c) ELSE s
Fewer(N, c) == IF N > c THEN c ELSE N

KeepsNewest(s, N, c) ==
  /\ Len(s) = N
  /\ DOMAIN Newest(s, c) = 1..Fewer(N, c)
  /\ \A n \in 1..Fewer(N, c) : /\ N - Fewer(N, c) + n \in 1..N
                               /\ Newest(s, c)[n] = s[N - Fewer(N, c) + n]

(* Cutting a list to c keeps its last c elements in their order.             *)
LEMMA NewestKept ==
  ASSUME NEW N \in Nat, NEW T, NEW s \in [1..N -> T], NEW c \in Nat \ {0}
  PROVE  KeepsNewest(s, N, c)
<1> DEFINE out == Newest(s, c)
           k == Fewer(N, c)
<1>1. s \in Seq(T) /\ Len(s) = N
  BY SeqDef
<1>2. CASE N > c
  <2>1. out = SubSeq(s, N - c + 1, N) /\ k = c
    BY <1>1, <1>2 DEF split_off, Newest, Fewer
  <2>2. N - c + 1 \in 1..(Len(s) + 1) /\ N - c + 1 <= N /\ N \in (N - c + 1)..Len(s)
    BY <1>1, <1>2
  <2>3. /\ Len(SubSeq(s, N - c + 1, N)) = N - (N - c + 1) + 1
        /\ \A i \in 1..(N - (N - c + 1) + 1) :
             SubSeq(s, N - c + 1, N)[i] = s[(N - c + 1) + i - 1]
        /\ SubSeq(s, N - c + 1, N) \in Seq(T)
    <3>1. PICK m : m = N - c + 1
      OBVIOUS
    <3>2. m \in 1..(Len(s) + 1) /\ N \in (m - 1)..Len(s) /\ m <= N
      BY <1>1, <2>2, <3>1
    <3>3. /\ SubSeq(s, m, N) \in Seq(T) /\ Len(SubSeq(s, m, N)) = N - m + 1
          /\ \A i \in 1..(N - m + 1) : SubSeq(s, m, N)[i] = s[m + i - 1]
      BY <1>1, <3>2, SubSeqProperties
    <3> QED
      BY <3>1, <3>3
  <2>4. N - (N - c + 1) + 1 = c /\ \A i \in 1..c : (N - c + 1) + i - 1 = N - c + i
    OBVIOUS
  <2>5. Len(out) = c /\ out \in Seq(T)
    BY <2>1, <2>3, <2>4
  <2>6. DOMAIN out = 1..c
    BY <2>5, LenProperties
  <2> HIDE DEF out, k
  <2>7. \A i \in 1..c : N - c + i \in 1..N
    BY <1>2
  <2>8. \A n \in 1..k : N - k + n \in 1..N /\ out[n] = s[N - k + n]
    BY <2>1, <2>3, <2>4, <2>7
  <2> QED
    BY <1>1, <2>1, <2>6, <2>8 DEF out, k, KeepsNewest
<1>3. CASE ~(N > c)
  <2>1. out = s /\ k = N
    BY <1>1, <1>3 DEF Newest, Fewer
  <2> HIDE DEF out, k
  <2>2. \A i \in 1..N : N - N + i = i
    OBVIOUS
  <2>3. \A n \in 1..k : N - k + n \in 1..N /\ out[n] = s[N - k + n]
    BY <2>1, <2>2
  <2> QED
    BY <1>1, <2>1, <2>3 DEF out, k, KeepsNewest
<1> QED
  BY <1>2, <1>3

(* The parts of a sequence around a separator.                               *)
LEMMA AroundSeparator ==
  ASSUME NEW S, NEW z, NEW x \in Seq(S), NEW y \in Seq(S), NEW u, u = x \o <<z>> \o y
  PROVE  /\ Len(u) = Len(x) + 1 + Len(y)
         /\ \A i \in 1..Len(x) : u[i] = x[i]
         /\ u[Len(x) + 1] = z
         /\ \A i \in 1..Len(y) : u[Len(x) + 1 + i] = y[i]
<1> DEFINE T == S \cup {z}
<1>0. x \in Seq(T) /\ y \in Seq(T) /\ z \in T
  OBVIOUS
<1> HIDE DEF T
<1>1. <<z>> \in Seq(T) /\ Len(<<z>>) = 1 /\ <<z>>[1] = z
  BY <1>0
<1>2. PICK o : o = <<z>>
  OBVIOUS
<1>3. o \in Seq(T) /\ Len(o) = 1 /\ o[1] = z
  BY <1>1, <1>2
<1>4. PICK h : h = x \o o
  OBVIOUS
<1>5. /\ h \in Seq(T) /\ Len(h) = Len(x) + 1
      /\ \A i \in 1..(Len(x) + 1) : h[i] = IF i <= Len(x) THEN x[i] ELSE o[i - Len(x)]
  <2>1. /\ h \in Seq(T) /\ Len(h) = Len(x) + Len(o)
        /\ \A i \in 1..(Len(x) + Len(o)) : h[i] = IF i <= Len(x) THEN x[i] ELSE o[i - Len(x)]
    BY <1>0, <1>3, <1>4, ConcatProperties
  <2> QED
    BY <1>3, <2>1
<1>6. u = h \o y
  BY <1>2, <1>4
<1>7. /\ Len(u) = Len(h) + Len(y)
      /\ \A i \in 1..(Len(h) + Len(y)) : u[i] = IF i <= Len(h) THEN h[i] ELSE y[i - Len(h)]
  BY <1>0, <1>5, <1>6, ConcatProperties
<1>8. Len(x) \in Nat /\ Len(y) \in Nat
  OBVIOUS
<1>9. \A i \in 1..Len(x) : u[i] = x[i]
  BY <1>5, <1>7, <1>8
<1>10. u[Len(x) + 1] = z
  <2>1. h[Len(x) + 1] = o[1]
    BY <1>5, <1>8
  <2> QED
    BY <1>3, <1>5, <1>7, <1>8, <2>1
<1>11. \A i \in 1..Len(y) : u[Len(x) + 1 + i] = y[i]
  <2> SUFFICES ASSUME NEW i \in 1..Len(y) PROVE u[Len(x) + 1 + i] = y[i]
    OBVIOUS
  <2>1. PICK k : k = Len(x) + 1 + i
    OBVIOUS
  <2>2. k \in 1..(Len(h) + Len(y)) /\ ~(k <= Len(h)) /\ k - Len(h) = i
    BY <1>5, <1>8, <2>1
  <2> QED
    BY <1>7, <2>1, <2>2
<1> QED
  BY <1>5, <1>7, <1>9, <1>10, <1>11

Joined(scope, z, source) == scope \o <<z>> \o source

(* A separator keeps scope and identity apart, if no scope contains it.      *)
LEMMA ScopesSeparated ==
  ASSUME NEW S, NEW z, NEW v \in Seq(S), NEW w \in Seq(S), NEW c \in Seq(S), NEW d \in Seq(S),
         \A i \in 1..Len(v) : v[i] # z, \A i \in 1..Len(w) : w[i] # z,
         Joined(v, z, c) = Joined(w, z, d)
  PROVE  v = w /\ c = d
<1>0. v \in Seq(S) /\ w \in Seq(S) /\ c \in Seq(S) /\ d \in Seq(S)
  OBVIOUS
<1>1. PICK s : s = v \o <<z>> \o c /\ s = w \o <<z>> \o d
  BY DEF Joined
<1>2. /\ Len(s) = Len(v) + 1 + Len(c) /\ \A i \in 1..Len(v) : s[i] = v[i]
      /\ s[Len(v) + 1] = z /\ \A i \in 1..Len(c) : s[Len(v) + 1 + i] = c[i]
  <2>1. s = v \o <<z>> \o c
    BY <1>1
  <2> QED
    BY ONLY <1>0, <2>1, AroundSeparator
<1>3. /\ Len(s) = Len(w) + 1 + Len(d) /\ \A i \in 1..Len(w) : s[i] = w[i]
      /\ s[Len(w) + 1] = z /\ \A i \in 1..Len(d) : s[Len(w) + 1 + i] = d[i]
  <2>1. s = w \o <<z>> \o d
    BY <1>1
  <2> QED
    BY ONLY <1>0, <2>1, AroundSeparator
<1>4. Len(v) \in Nat /\ Len(w) \in Nat /\ Len(c) \in Nat /\ Len(d) \in Nat
  OBVIOUS
<1>5. Len(v) = Len(w)
  <2>1. ASSUME Len(v) < Len(w) PROVE FALSE
    <3>1. Len(v) + 1 \in 1..Len(w)
      BY <1>4, <2>1
    <3> QED
      BY <1>2, <1>3, <3>1
  <2>2. ASSUME Len(w) < Len(v) PROVE FALSE
    <3>1. Len(w) + 1 \in 1..Len(v)
      BY <1>4, <2>2
    <3> QED
      BY <1>2, <1>3, <3>1
  <2> QED
    BY <1>4, <2>1, <2>2
<1>6. Len(c) = Len(d)
  BY <1>2, <1>3, <1>4, <1>5
<1>7. \A i \in 1..Len(v) : v[i] = w[i]
  BY <1>2, <1>3, <1>5
<1>8. \A i \in 1..Len(c) : c[i] = d[i]
  BY <1>2, <1>3, <1>5, <1>6
<1> QED
  BY <1>5, <1>6, <1>7, <1>8, SeqEqual
=============================================================================
