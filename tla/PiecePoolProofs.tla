-------------------------- MODULE PiecePoolProofs --------------------------
(***************************************************************************)
(* Proofs about PiecePool for any sets of threads and pieces and any       *)
(* BASE_CACHE_COUNT, MAX_DELETE_ONCE >= 2.  The accounting of using_count_ *)
(* is needed for the type of del_array (the cache is not empty when        *)
(* deletePiece() pops it), the cache bound for the bound of del_array, and *)
(* the accounting itself needs that a piece is in one place only; so the   *)
(* invariants are proved together.                                         *)
(***************************************************************************)
EXTENDS PiecePool, FiniteSetTheorems, SequenceTheorems, TLAPS

(* The elements of a sequence without repetitions, under the operations of *)
(* the cache: push() at the end ...                                        *)
LEMMA AppendElements ==
  ASSUME NEW S, NEW s \in Seq(S), NEW e \in S
  PROVE  /\ Range(Append(s, e)) = Range(s) \cup {e}
         /\ IsInjective(s) /\ e \notin Range(s) => IsInjective(Append(s, e))
<1>1. /\ DOMAIN s = 1..Len(s) /\ Len(s) \in Nat
      /\ DOMAIN Append(s, e) = 1..(Len(s) + 1)
      /\ \A i \in 1..Len(s) : Append(s, e)[i] = s[i]
      /\ Append(s, e)[Len(s) + 1] = e
  BY AppendProperties, LenProperties
<1>2. QED
  BY <1>1 DEF Range, IsInjective

(* ... pop() of the first one ... *)
LEMMA TailElements ==
  ASSUME NEW S, NEW s \in Seq(S), s # << >>, IsInjective(s)
  PROVE  /\ Head(s) \in Range(s)
         /\ Range(Tail(s)) = Range(s) \ {Head(s)}
         /\ IsInjective(Tail(s))
<1>1. /\ DOMAIN s = 1..Len(s) /\ Len(s) \in Nat \ {0}
      /\ DOMAIN Tail(s) = 1..(Len(s) - 1)
      /\ \A i \in 1..(Len(s) - 1) : Tail(s)[i] = s[i + 1]
      /\ Head(s) = s[1]
  BY HeadTailProperties, LenProperties, EmptySeq
<1>2. \A i \in DOMAIN s : i = 1 \/ (i - 1 \in DOMAIN Tail(s) /\ Tail(s)[i - 1] = s[i])
  BY <1>1
<1>3. \A i \in DOMAIN Tail(s) : i + 1 \in DOMAIN s /\ i + 1 # 1 /\ Tail(s)[i] = s[i + 1]
  BY <1>1
<1>4. IsInjective(Tail(s))
  BY <1>1, <1>3 DEF IsInjective
<1>5. Range(Tail(s)) = Range(s) \ {Head(s)}
  <2>1. ASSUME NEW x \in Range(Tail(s)) PROVE x \in Range(s) \ {Head(s)}
    BY <1>1, <1>3 DEF Range, IsInjective
  <2>2. ASSUME NEW x \in Range(s), x # Head(s) PROVE x \in Range(Tail(s))
    <3>1. PICK i \in DOMAIN s : x = s[i]
      BY DEF Range
    <3>2. i - 1 \in DOMAIN Tail(s) /\ Tail(s)[i - 1] = x
      BY <1>1, <1>2, <2>2, <3>1
    <3>3. QED
      BY <3>2 DEF Range
  <2>3. QED
    BY <2>1, <2>2
<1>6. Head(s) \in Range(s)
  <2>1. 1 \in DOMAIN s /\ s[1] = Head(s)
    BY <1>1
  <2>2. QED
    BY <2>1 DEF Range
<1>7. QED
  BY <1>4, <1>5, <1>6

(* ... where what is left of del_array stays within its two entries, and   *)
(* is empty exactly after the last one ...                                 *)
LEMMA TailLength ==
  ASSUME NEW S, NEW s \in Seq(S), s # << >>, Len(s) <= 2
  PROVE  /\ Head(s) \in S /\ Tail(s) \in Seq(S) /\ Len(Tail(s)) <= 2
         /\ Tail(s) = << >> <=> Len(s) = 1
<1>1. Len(s) \in Nat \ {0} /\ Tail(s) \in Seq(S) /\ Head(s) \in S /\ Len(Tail(s)) = Len(s) - 1
  BY EmptySeq, HeadTailProperties
<1>2. Tail(s) = << >> <=> Len(Tail(s)) = 0
  BY SMTT(30), <1>1, EmptySeq
<1>3. QED
  BY <1>1, <1>2

(* ... and pop() of the first k - 1. *)
LEMMA SplitElements ==
  ASSUME NEW S, NEW s \in Seq(S), IsInjective(s), NEW k \in 1..(Len(s) + 1)
  PROVE  /\ SubSeq(s, 1, k - 1) \in Seq(S) /\ SubSeq(s, k, Len(s)) \in Seq(S)
         /\ Len(SubSeq(s, 1, k - 1)) = k - 1
         /\ Len(SubSeq(s, k, Len(s))) = Len(s) - k + 1
         /\ Range(SubSeq(s, 1, k - 1)) \cup Range(SubSeq(s, k, Len(s))) = Range(s)
         /\ Range(SubSeq(s, 1, k - 1)) \cap Range(SubSeq(s, k, Len(s))) = {}
         /\ IsInjective(SubSeq(s, 1, k - 1)) /\ IsInjective(SubSeq(s, k, Len(s)))
<1> DEFINE a == SubSeq(s, 1, k - 1)
           b == SubSeq(s, k, Len(s))
<1>1. DOMAIN s = 1..Len(s) /\ Len(s) \in Nat /\ \A i \in 1..Len(s) : s[i] \in S
  BY LenProperties, ElementOfSeq
<1>2. /\ a \in Seq(S) /\ Len(a) = k - 1 /\ DOMAIN a = 1..(k - 1)
      /\ \A i \in 1..(k - 1) : a[i] = s[i]
  <2>1. \A i \in 1..(k - 1) : s[i] \in S
    BY <1>1
  <2>2. /\ a \in Seq(S) /\ Len(a) = IF 1 <= k - 1 THEN k - 1 ELSE 0
        /\ \A i \in 1..(k - 1) : a[i] = s[i]
    BY <2>1, <1>1, SubSeqProperties
  <2>3. QED
    BY <2>2, <1>1, LenProperties
<1>3. /\ b \in Seq(S) /\ Len(b) = Len(s) - k + 1 /\ DOMAIN b = 1..(Len(s) - k + 1)
      /\ \A i \in 1..(Len(s) - k + 1) : b[i] = s[k + i - 1]
  <2>1. \A i \in k..Len(s) : s[i] \in S
    BY <1>1
  <2>2. /\ b \in Seq(S) /\ Len(b) = IF k <= Len(s) THEN Len(s) - k + 1 ELSE 0
        /\ \A i \in 1..(Len(s) - k + 1) : b[i] = s[k + i - 1]
    BY <2>1, <1>1, SubSeqProperties
  <2>3. QED
    BY <2>2, <1>1, LenProperties
<1> HIDE DEF a, b
<1>4. ASSUME NEW i \in DOMAIN s
      PROVE  (i \in DOMAIN a /\ a[i] = s[i]) \/ (\E j \in DOMAIN b : b[j] = s[i])
  <2>1. CASE i < k
    BY <1>1, <1>2, <2>1
  <2>2. CASE i >= k
    <3>1. i - k + 1 \in 1..(Len(s) - k + 1) /\ k + (i - k + 1) - 1 = i
      BY <1>1, <2>2
    <3>2. b[i - k + 1] = s[k + (i - k + 1) - 1]
      BY <1>3, <3>1
    <3>3. QED
      BY <1>3, <3>1, <3>2
  <2>3. QED
    BY <1>1, <2>1, <2>2
<1>5. /\ \A i \in DOMAIN a : i \in DOMAIN s /\ a[i] = s[i]
      /\ \A i \in DOMAIN b : k + i - 1 \in DOMAIN s /\ b[i] = s[k + i - 1]
      /\ \A i \in DOMAIN a, j \in DOMAIN b : i # k + j - 1
  <2>1. ASSUME NEW i \in DOMAIN a PROVE i \in DOMAIN s /\ a[i] = s[i] /\ i < k
    BY <1>1, <1>2
  <2>2. ASSUME NEW i \in DOMAIN b
        PROVE  k + i - 1 \in DOMAIN s /\ b[i] = s[k + i - 1] /\ i \in Nat \ {0}
    <3>1. i \in 1..(Len(s) - k + 1)
      BY <1>3
    <3>2. QED
      BY <1>1, <1>3, <3>1
  <2>3. \A i \in DOMAIN a, j \in DOMAIN b : i # k + j - 1
    BY <1>1, <2>1, <2>2
  <2>4. QED
    BY <2>1, <2>2, <2>3
<1>6. Range(a) \cup Range(b) = Range(s)
  <2>1. ASSUME NEW x \in Range(s) PROVE x \in Range(a) \cup Range(b)
    BY <1>4 DEF Range
  <2>2. ASSUME NEW x \in Range(a) \cup Range(b) PROVE x \in Range(s)
    BY <1>5 DEF Range
  <2>3. QED
    BY <2>1, <2>2
<1>7. Range(a) \cap Range(b) = {}
  <2>1. SUFFICES ASSUME NEW i \in DOMAIN a, NEW j \in DOMAIN b, a[i] = b[j] PROVE FALSE
    BY DEF Range
  <2>2. QED
    BY <1>5, <2>1 DEF IsInjective
<1>8. IsInjective(a)
  BY <1>5 DEF IsInjective
<1>9. IsInjective(b)
  BY SMTT(30), <1>1, <1>3, <1>5 DEF IsInjective
<1>10. QED
  BY <1>2, <1>3, <1>6, <1>7, <1>8, <1>9 DEF a, b

(* The entries of del_array: the returned piece, then those popped. *)
LEMMA ConsElements ==
  ASSUME NEW S, NEW s \in Seq(S), NEW e \in S
  PROVE  /\ <<e>> \o s \in Seq(S) /\ Len(<<e>> \o s) = Len(s) + 1
         /\ <<e>> \o s # << >>
         /\ Range(<<e>> \o s) = {e} \cup Range(s)
         /\ IsInjective(s) /\ e \notin Range(s) => IsInjective(<<e>> \o s)
<1> DEFINE c == <<e>> \o s
<1>1. <<e>> \in Seq(S) /\ Len(<<e>>) = 1 /\ <<e>>[1] = e
  OBVIOUS
<1>2. Len(s) \in Nat /\ DOMAIN s = 1..Len(s)
  BY LenProperties
<1>3. /\ c \in Seq(S) /\ Len(c) = Len(s) + 1
      /\ \A i \in 1..(Len(s) + 1) : c[i] = IF i <= 1 THEN <<e>>[i] ELSE s[i - 1]
  BY <1>1, <1>2, ConcatProperties
<1>4. DOMAIN c = 1..(Len(s) + 1) /\ c # << >>
  BY <1>2, <1>3, LenProperties, EmptySeq
<1>5. c[1] = e /\ \A i \in 1..Len(s) : i + 1 \in DOMAIN c /\ c[i + 1] = s[i]
  BY <1>1, <1>2, <1>3, <1>4
<1>6. \A i \in DOMAIN c : i = 1 \/ (i - 1 \in DOMAIN s /\ c[i] = s[i - 1])
  BY <1>2, <1>3, <1>4
<1> HIDE DEF c
<1>7. Range(c) = {e} \cup Range(s)
  <2>1. 1 \in DOMAIN c
    BY <1>2, <1>4
  <2>2. e \in Range(c)
    BY <1>5, <2>1 DEF Range
  <2>3. ASSUME NEW x \in Range(s) PROVE x \in Range(c)
    <3>1. PICK i \in DOMAIN s : x = s[i]
      BY DEF Range
    <3>2. i + 1 \in DOMAIN c /\ c[i + 1] = x
      BY <1>2, <1>5, <3>1
    <3>3. QED
      BY <3>2 DEF Range
  <2>4. ASSUME NEW x \in Range(c) PROVE x = e \/ x \in Range(s)
    <3>1. PICK i \in DOMAIN c : x = c[i]
      BY DEF Range
    <3>2. x = e \/ (i - 1 \in DOMAIN s /\ x = s[i - 1])
      BY <1>5, <1>6, <3>1
    <3>3. QED
      BY <3>2 DEF Range
  <2>5. QED
    BY <2>2, <2>3, <2>4
<1>8. IsInjective(s) /\ e \notin Range(s) => IsInjective(c)
  <2>1. SUFFICES ASSUME IsInjective(s), e \notin Range(s),
                        NEW i \in DOMAIN c, NEW j \in DOMAIN c, c[i] = c[j]
                 PROVE  i = j
    BY DEF IsInjective
  <2>2. CASE i = 1 \/ j = 1
    BY <1>5, <1>6, <2>1, <2>2 DEF Range
  <2>3. CASE i # 1 /\ j # 1
    BY <1>2, <1>4, <1>6, <2>1, <2>3 DEF IsInjective
  <2>4. QED
    BY <2>2, <2>3
<1>9. QED
  BY <1>3, <1>4, <1>7, <1>8 DEF c

Allocating == {t \in Thread : pc[t] = "new"}

IInv ==
    /\ TypeOK /\ UsingCountExact /\ CacheBounded /\ DelArrayBounded
    /\ NoAlias /\ HeapExact

(* The two sets using_count_ counts are finite. *)
LEMMA FiniteCounts ==
  ASSUME TypeOK
  PROVE  /\ IsFiniteSet(held) /\ Cardinality(held) \in Nat
         /\ IsFiniteSet(Allocating) /\ Cardinality(Allocating) \in Nat
<1>1. IsFiniteSet(held)
  BY ConstAssumption, FS_Subset DEF TypeOK
<1>2. IsFiniteSet(Allocating)
  BY ConstAssumption, FS_Subset DEF Allocating
<1>3. QED
  BY <1>1, <1>2, FS_CardinalityType

(* The accounting in terms of the set of allocating threads. *)
LEMMA UsingCountAlt ==
  /\ UsingCountExact <=> using_count = Cardinality(held) + cleared + Cardinality(Allocating)
  /\ UsingCountExact' <=> using_count' = Cardinality(held') + cleared' + Cardinality(Allocating')
BY DEF UsingCountExact, Allocating

(* What deletePiece() computes when the cache is full: it frees one or two *)
(* pieces, pops no more than the cache has, and leaves it at its limit.    *)
LEMMA DelCountFacts ==
  ASSUME IInv, NEW item \in held, NEW limit,
         limit = using_count - 1 + BASE_CACHE_COUNT, Len(queue) >= limit
  PROVE  /\ DelCount(limit) \in 1..2
         /\ DelCount(limit) - 1 <= Len(queue)
         /\ Len(queue) - DelCount(limit) + 1 <= limit
<1>1. Cardinality(held) \in Nat /\ Cardinality(Allocating) \in Nat /\ IsFiniteSet(held)
  BY FiniteCounts DEF IInv
<1>2. Cardinality(held) # 0
  BY <1>1, FS_EmptySet
<1>3. using_count >= 1
  BY <1>1, <1>2 DEF IInv, UsingCountExact, TypeOK, Allocating
<1>4. Len(queue) \in Nat
  BY DEF IInv, TypeOK
<1>5. limit \in Nat /\ Len(queue) <= limit + 1
  BY <1>3, <1>4, ConstAssumption DEF IInv, TypeOK, CacheBounded
<1>6. DelCount(limit) = Len(queue) - limit + 1
  BY <1>4, <1>5, ConstAssumption DEF DelCount
<1>7. QED
  BY <1>4, <1>5, <1>6

(* The type invariant and the three counting invariants hold initially. *)
LEMMA InitIInv == Init => IInv
<1> SUFFICES ASSUME Init PROVE IInv
  OBVIOUS
<1>1. TypeOK
  BY ConstAssumption DEF Init, TypeOK
<1>2. UsingCountExact
  <2>1. {t \in Thread : pc[t] = "new"} = {}
    BY DEF Init
  <2>2. QED
    BY <2>1, FS_EmptySet DEF Init, UsingCountExact
<1>3. CacheBounded /\ DelArrayBounded
  BY ConstAssumption DEF Init, CacheBounded, DelArrayBounded
<1>4. NoAlias
  BY DEF Init, NoAlias, IsInjective, Range
<1>5. HeapExact
  <2>1. UNION {Range(del_array[t]) : t \in Thread} = {} /\ Range(queue) = {}
    BY DEF Init, Range
  <2>2. QED
    BY <2>1 DEF Init, HeapExact
<1>6. QED
  BY <1>1, <1>2, <1>3, <1>4, <1>5 DEF IInv

(* Every step keeps them. *)
LEMMA NextIInv == IInv /\ [Next]_vars => IInv'
<1> SUFFICES ASSUME IInv, [Next]_vars PROVE IInv'
  OBVIOUS
<1> USE DEF IInv
<1>0. /\ IsFiniteSet(held) /\ Cardinality(held) \in Nat
      /\ IsFiniteSet(Allocating) /\ Cardinality(Allocating) \in Nat
  BY FiniteCounts
<1>1. ASSUME NEW t \in Thread, NewPiece(t)
      PROVE  IInv'
  <2>1. CASE queue # << >>
    <3> DEFINE h == Head(queue)
    <3>0. /\ queue' = Tail(queue) /\ held' = held \cup {h} /\ using_count' = using_count + 1
          /\ UNCHANGED <<heap, pc, del_array, cleared, alive>>
      BY <1>1, <2>1 DEF NewPiece
    <3>1. /\ h \in Piece /\ Tail(queue) \in Seq(Piece) /\ Len(Tail(queue)) = Len(queue) - 1
          /\ Len(queue) \in Nat
      BY <2>1, HeadTailProperties, LenProperties DEF TypeOK
    <3>2. /\ h \in Range(queue) /\ Range(Tail(queue)) = Range(queue) \ {h}
          /\ IsInjective(Tail(queue))
      BY <2>1, TailElements DEF TypeOK, NoAlias
    <3> HIDE DEF h
    <3>3. TypeOK'
      BY <3>0, <3>1 DEF TypeOK
    <3>4. UsingCountExact'
      <4>1. h \notin held
        BY <3>2 DEF NoAlias
      <4>2. Cardinality(held \cup {h}) = Cardinality(held) + 1
        BY ZenonT(60), <1>0, <4>1, FS_AddElement
      <4>3. QED
        BY <1>0, <3>0, <4>2 DEF UsingCountExact, TypeOK, Allocating
    <3>5. CacheBounded'
      BY <3>0, <3>1, ConstAssumption DEF CacheBounded, TypeOK
    <3>6. DelArrayBounded'
      BY <3>0 DEF DelArrayBounded
    <3>7. NoAlias'
      BY ZenonT(30), <3>0, <3>2 DEF NoAlias
    <3>8. HeapExact'
      BY <3>0, <3>2 DEF HeapExact
    <3>9. QED
      BY <3>3, <3>4, <3>5, <3>6, <3>7, <3>8
  <2>2. CASE queue = << >>
    <3> USE <1>1 DEF NewPiece
    <3>1. TypeOK'
      BY <2>2 DEF TypeOK
    <3>2. UsingCountExact'
      <4>1. t \notin Allocating /\ Allocating' = Allocating \cup {t}
        BY <2>2 DEF Allocating, TypeOK
      <4>2. Cardinality(Allocating') = Cardinality(Allocating) + 1
        BY ZenonT(60), <1>0, <4>1, FS_AddElement
      <4>3. QED
        BY <1>0, <2>2, <4>2 DEF UsingCountExact, TypeOK, Allocating
    <3>3. CacheBounded'
      BY <2>2, ConstAssumption DEF CacheBounded, TypeOK
    <3>4. DelArrayBounded'
      BY <2>2 DEF DelArrayBounded, TypeOK
    <3>5. NoAlias' /\ HeapExact'
      BY ZenonT(60), <2>2 DEF NoAlias, HeapExact
    <3>6. QED
      BY <3>1, <3>2, <3>3, <3>4, <3>5
  <2>3. QED
    BY <2>1, <2>2
<1>2. ASSUME NEW t \in Thread, Allocate(t)
      PROVE  IInv'
  <2> USE <1>2 DEF Allocate
  <2>1. PICK p \in Piece \ heap : heap' = heap \cup {p} /\ held' = held \cup {p}
    OBVIOUS
  <2>2. TypeOK'
    BY <2>1 DEF TypeOK
  <2>3. UsingCountExact'
    <3>1. p \notin held
      BY <2>1 DEF HeapExact
    <3>2. Cardinality(held') = Cardinality(held) + 1
      BY ZenonT(60), <1>0, <2>1, <3>1, FS_AddElement
    <3>3. t \in Allocating /\ Allocating' = Allocating \ {t}
      BY DEF Allocating, TypeOK
    <3>4. Cardinality(Allocating') = Cardinality(Allocating) - 1
      BY ZenonT(60), <1>0, <3>3, FS_RemoveElement
    <3>5. QED
      BY <1>0, <3>2, <3>4 DEF UsingCountExact, TypeOK, Allocating
  <2>4. CacheBounded'
    BY DEF CacheBounded
  <2>5. DelArrayBounded'
    BY DEF DelArrayBounded, TypeOK
  <2>6. NoAlias'
    <3>1. p \notin Range(queue) /\ \A u \in Thread : p \notin Range(del_array[u])
      BY <2>1 DEF HeapExact
    <3>2. QED
      BY <2>1, <3>1 DEF NoAlias
  <2>7. HeapExact'
    BY <2>1 DEF HeapExact
  <2>8. QED
    BY <2>2, <2>3, <2>4, <2>5, <2>6, <2>7
<1>3. ASSUME NEW t \in Thread, NEW p \in Piece, DeletePiece(t, p)
      PROVE  IInv'
  <2> DEFINE limit == using_count - 1 + BASE_CACHE_COUNT
  <2>0. /\ p \in held /\ held' = held \ {p} /\ pc[t] = "idle"
        /\ using_count' = using_count - 1 /\ UNCHANGED <<heap, cleared, alive>>
        /\ Len(queue) \in Nat
    BY <1>3, LenProperties DEF DeletePiece, TypeOK
  <2>1. p \notin Range(queue) /\ \A u \in Thread : p \notin Range(del_array[u])
    BY <2>0 DEF NoAlias
  <2>2. Cardinality(held') = Cardinality(held) - 1
    BY ZenonT(60), <1>0, <2>0, FS_RemoveElement
  <2>3. CASE Len(queue) < limit
    <3>0. queue' = Append(queue, p) /\ UNCHANGED <<pc, del_array>>
      BY <1>3, <2>0, <2>3 DEF DeletePiece
    <3>1. /\ queue' \in Seq(Piece) /\ Len(queue') = Len(queue) + 1
          /\ Range(queue') = Range(queue) \cup {p} /\ IsInjective(queue')
      BY <2>1, <3>0, AppendProperties, AppendElements DEF TypeOK, NoAlias
    <3>2. TypeOK'
      BY <2>0, <3>0, <3>1 DEF TypeOK
    <3>3. UsingCountExact'
      BY <1>0, <2>0, <2>2, <3>0 DEF UsingCountExact, TypeOK, Allocating
    <3>4. CacheBounded'
      BY <2>0, <2>3, <3>1, ConstAssumption DEF CacheBounded, TypeOK
    <3>5. DelArrayBounded'
      BY <3>0 DEF DelArrayBounded
    <3>6. NoAlias'
      BY ZenonT(60), <2>0, <2>1, <3>0, <3>1 DEF NoAlias
    <3>7. HeapExact'
      BY <2>0, <3>0, <3>1 DEF HeapExact
    <3>8. QED
      BY <3>2, <3>3, <3>4, <3>5, <3>6, <3>7
  <2>4. CASE ~(Len(queue) < limit)
    <3> DEFINE k == DelCount(limit)
               a == SubSeq(queue, 1, k - 1)
               b == SubSeq(queue, k, Len(queue))
    <3>0. /\ del_array' = [del_array EXCEPT ![t] = <<p>> \o a]
          /\ queue' = b /\ pc' = [pc EXCEPT ![t] = "delete"]
      BY ZenonT(60), <1>3, <2>0, <2>4 DEF DeletePiece
    <3>1. /\ k \in 1..2 /\ k - 1 <= Len(queue) /\ Len(queue) - k + 1 <= limit
          /\ limit \in Int
      <4>1. limit \in Int /\ Len(queue) >= limit
        BY <2>0, <2>4, ConstAssumption DEF TypeOK
      <4>2. QED
        BY <2>0, <4>1, DelCountFacts
    <3> HIDE DEF k, limit
    <3>2. k \in 1..(Len(queue) + 1)
      BY <2>0, <3>1
    <3>3. /\ a \in Seq(Piece) /\ b \in Seq(Piece)
          /\ Len(a) = k - 1 /\ Len(b) = Len(queue) - k + 1
          /\ Range(a) \cup Range(b) = Range(queue) /\ Range(a) \cap Range(b) = {}
          /\ IsInjective(a) /\ IsInjective(b)
      BY <3>2, SplitElements DEF TypeOK, NoAlias
    <3> HIDE DEF a, b
    <3>4. /\ <<p>> \o a \in Seq(Piece) /\ Len(<<p>> \o a) = k
          /\ <<p>> \o a # << >> /\ Range(<<p>> \o a) = {p} \cup Range(a)
          /\ IsInjective(<<p>> \o a)
      BY <2>1, <3>1, <3>3, ConsElements
    <3> DEFINE c == <<p>> \o a
    <3> HIDE DEF c
    <3>5. /\ c \in Seq(Piece) /\ Len(c) = k /\ c # << >> /\ IsInjective(c)
          /\ Range(c) = {p} \cup Range(a)
          /\ del_array' = [del_array EXCEPT ![t] = c]
      BY <3>0, <3>4 DEF c
    <3>5a. del_array'[t] = c /\ \A u \in Thread \ {t} : del_array'[u] = del_array[u]
      BY <3>5 DEF TypeOK
    <3>5b. Range(del_array[t]) = {}
      <4>1. del_array[t] = << >>
        BY <2>0 DEF DelArrayBounded
      <4>2. QED
        BY <4>1 DEF Range
    <3>6. TypeOK'
      <4>1. del_array' \in [Thread -> Seq(Piece)]
        BY <3>5 DEF TypeOK
      <4>2. QED
        BY <2>0, <3>0, <3>3, <4>1 DEF TypeOK
    <3>7. UsingCountExact'
      <4>1. Allocating' = Allocating
        BY <2>0, <3>0 DEF Allocating, TypeOK
      <4>2. QED
        BY <1>0, <2>0, <2>2, <4>1, UsingCountAlt, ConstAssumption DEF TypeOK
    <3>8. CacheBounded'
      BY <2>0, <3>0, <3>1, <3>3, ConstAssumption DEF CacheBounded, TypeOK, limit
    <3>9. DelArrayBounded'
      BY <3>0, <3>1, <3>5, <3>5a DEF DelArrayBounded, TypeOK
    <3>10. NoAlias'
      <4>1. Range(queue') \cap held' = {} /\ IsInjective(queue')
        BY <2>0, <3>0, <3>3 DEF NoAlias
      <4>2. ASSUME NEW u \in Thread
            PROVE  IsInjective(del_array'[u]) /\ Range(del_array'[u]) \cap (held' \cup Range(queue')) = {}
        <5>1. CASE u = t
          <6>1. ({p} \cup Range(a)) \cap (held' \cup Range(b)) = {}
            BY <2>0, <2>1, <3>3 DEF NoAlias
          <6>2. QED
            BY ZenonT(60), <3>0, <3>5, <3>5a, <5>1, <6>1
        <5>2. CASE u # t
          BY <2>0, <3>0, <3>3, <3>5a, <5>2 DEF NoAlias
        <5>3. QED
          BY <5>1, <5>2
      <4>3. ASSUME NEW u \in Thread, NEW v \in Thread \ {u}
            PROVE  Range(del_array'[u]) \cap Range(del_array'[v]) = {}
        <5>1. CASE u # t /\ v # t
          BY <3>5a, <5>1 DEF NoAlias
        <5>2. \A w \in Thread \ {t} : Range(c) \cap Range(del_array[w]) = {}
          BY <2>1, <3>3, <3>5 DEF NoAlias
        <5>3. CASE u = t
          BY <3>5a, <5>2, <5>3
        <5>4. CASE v = t
          BY <3>5a, <5>2, <5>4
        <5>5. QED
          BY <5>1, <5>3, <5>4
      <4>4. QED
        BY <4>1, <4>2, <4>3 DEF NoAlias
    <3>11. HeapExact'
      <4>1. UNION {Range(del_array'[u]) : u \in Thread}
              = {p} \cup Range(a) \cup UNION {Range(del_array[u]) : u \in Thread}
        BY <3>5, <3>5a, <3>5b
      <4>2. QED
        BY SMTT(30), <2>0, <3>0, <3>3, <4>1 DEF HeapExact
    <3>12. QED
      BY <3>6, <3>7, <3>8, <3>9, <3>10, <3>11
  <2>5. QED
    BY <2>3, <2>4
<1>4. ASSUME NEW t \in Thread, DeleteNext(t)
      PROVE  IInv'
  <2> DEFINE d == del_array[t]
  <2>0. /\ pc[t] = "delete" /\ heap' = heap \ {Head(d)}
        /\ del_array' = [del_array EXCEPT ![t] = Tail(d)]
        /\ pc' = [pc EXCEPT ![t] = IF Len(d) = 1 THEN "idle" ELSE "delete"]
        /\ UNCHANGED <<queue, using_count, held, cleared, alive>>
    BY <1>4 DEF DeleteNext, TypeOK
  <2>0a. d \in Seq(Piece) /\ d # << >> /\ Len(d) <= 2 /\ IsInjective(d)
    BY <2>0 DEF TypeOK, DelArrayBounded, NoAlias
  <2>0b. /\ \A u \in Thread \ {t} : del_array'[u] = del_array[u] /\ pc'[u] = pc[u]
         /\ del_array'[t] = Tail(d)
         /\ pc'[t] = IF Len(d) = 1 THEN "idle" ELSE "delete"
    BY <2>0 DEF TypeOK
  <2>0c. d = del_array[t]
    OBVIOUS
  <2> HIDE DEF d, IInv
  <2>2. /\ Head(d) \in Piece /\ Tail(d) \in Seq(Piece) /\ Len(Tail(d)) <= 2
        /\ Tail(d) = << >> <=> Len(d) = 1
        /\ Head(d) \in Range(d) /\ Range(Tail(d)) = Range(d) \ {Head(d)}
        /\ IsInjective(Tail(d))
    BY <2>0a, TailElements, TailLength
  <2>4. /\ \A u \in Thread \ {t} : del_array'[u] = del_array[u] /\ pc'[u] = pc[u]
        /\ del_array'[t] = Tail(d)
        /\ pc'[t] = IF Len(d) = 1 THEN "idle" ELSE "delete"
    BY <2>0b
  <2> USE DEF IInv
  <2>5. Range(d) \cap (held \cup Range(queue)) = {}
    BY <2>0c DEF NoAlias
  <2>6. \A u \in Thread \ {t} : Range(d) \cap Range(del_array[u]) = {}
    BY <2>0c DEF NoAlias
  <2>7. TypeOK'
    <3>1. del_array' \in [Thread -> Seq(Piece)] /\ pc' \in [Thread -> {"idle", "new", "delete"}]
      BY <2>0, <2>2 DEF TypeOK
    <3>2. QED
      BY <2>0, <3>1 DEF TypeOK
  <2>8. UsingCountExact'
    <3>1. Allocating' = Allocating
      BY <2>0, <2>4 DEF Allocating
    <3>2. QED
      BY <2>0, <3>1, UsingCountAlt
  <2>9. CacheBounded'
    BY <2>0 DEF CacheBounded
  <2>10. DelArrayBounded'
    <3>1. ASSUME NEW u \in Thread
          PROVE  Len(del_array'[u]) <= 2 /\ (pc'[u] = "delete" <=> del_array'[u] # << >>)
      <4>1. CASE u = t
        BY <2>2, <2>4, <4>1
      <4>2. CASE u # t
        BY <2>4, <4>2 DEF DelArrayBounded
      <4>3. QED
        BY <4>1, <4>2
    <3>2. QED
      BY <3>1 DEF DelArrayBounded
  <2>11. NoAlias'
    <3>1. ASSUME NEW u \in Thread
          PROVE  IsInjective(del_array'[u]) /\ Range(del_array'[u]) \subseteq Range(del_array[u])
      <4>1. CASE u = t
        BY <2>0c, <2>2, <2>4, <4>1
      <4>2. CASE u # t
        BY <2>4, <4>2 DEF NoAlias
      <4>3. QED
        BY <4>1, <4>2
    <3>2. QED
      BY ZenonT(60), <2>0, <3>1 DEF NoAlias
  <2>12. HeapExact'
    <3> DEFINE D == UNION {Range(del_array[u]) : u \in Thread}
               E == UNION {Range(del_array'[u]) : u \in Thread}
    <3>1. ASSUME NEW u \in Thread
          PROVE  Range(del_array'[u]) = Range(del_array[u]) \ {Head(d)}
      <4>1. CASE u = t
        BY <2>0c, <2>2, <2>4, <4>1
      <4>2. CASE u # t
        BY <2>2, <2>4, <2>6, <4>2
      <4>3. QED
        BY <4>1, <4>2
    <3>2. ASSUME NEW x PROVE x \in E <=> x \in D /\ x # Head(d)
      BY <3>1
    <3>3. Head(d) \notin held \cup Range(queue)
      BY <2>2, <2>5
    <3>4. heap = held \cup Range(queue) \cup D
      BY DEF HeapExact
    <3>5. HeapExact' <=> heap' = held \cup Range(queue) \cup E
      BY <2>0 DEF HeapExact
    <3> HIDE DEF D, E
    <3>6. QED
      BY <2>0, <3>2, <3>3, <3>4, <3>5
  <2>13. QED
    BY <2>7, <2>8, <2>9, <2>10, <2>11, <2>12
<1>5. ASSUME NEW p \in Piece, BufferClear(p)
      PROVE  IInv'
  <2> USE <1>5 DEF BufferClear
  <2>1. TypeOK'
    BY ConstAssumption DEF TypeOK
  <2>2. UsingCountExact'
    <3>1. Cardinality(held') = Cardinality(held) - 1
      BY ZenonT(60), <1>0, FS_RemoveElement
    <3>2. Allocating' = Allocating
      BY DEF Allocating
    <3>3. QED
      BY <1>0, <3>1, <3>2, UsingCountAlt, ConstAssumption DEF TypeOK
  <2>3. CacheBounded' /\ DelArrayBounded'
    BY DEF CacheBounded, DelArrayBounded
  <2>4. NoAlias'
    BY DEF NoAlias
  <2>5. HeapExact'
    <3>1. p \notin Range(queue) /\ \A u \in Thread : p \notin Range(del_array[u])
      BY DEF NoAlias
    <3>2. QED
      BY <3>1 DEF HeapExact
  <2>6. QED
    BY <2>1, <2>2, <2>3, <2>4, <2>5
<1>6. CASE Clear
  <2> USE <1>6 DEF Clear
  <2>1. \A t \in Thread : Range(del_array[t]) = {}
    <3>1. \A t \in Thread : del_array[t] = << >>
      BY DEF DelArrayBounded
    <3>2. QED
      BY <3>1 DEF Range
  <2>2. Range(queue') = {} /\ IsInjective(queue') /\ Len(queue') = 0
    BY DEF Range, IsInjective
  <2>3. TypeOK'
    <3>1. queue' \in Seq(Piece)
      OBVIOUS
    <3>2. heap' \subseteq Piece
      BY DEF TypeOK
    <3>3. alive' \in BOOLEAN
      BY ZenonT(60)
    <3>4. QED
      BY <3>1, <3>2, <3>3 DEF TypeOK
  <2>4. UsingCountExact'
    BY DEF UsingCountExact
  <2>5. CacheBounded'
    <3>1. using_count >= 0
      BY <1>0, UsingCountAlt, ConstAssumption DEF TypeOK
    <3>2. QED
      BY <2>2, <3>1, ConstAssumption DEF CacheBounded, TypeOK
  <2>6. DelArrayBounded'
    BY DEF DelArrayBounded
  <2>7. NoAlias'
    BY <2>2 DEF NoAlias
  <2>8. HeapExact'
    <3>1. UNION {Range(del_array[t]) : t \in Thread} = {}
      BY <2>1
    <3>2. Range(queue) \cap held = {}
      BY DEF NoAlias
    <3>3. QED
      BY <2>2, <3>1, <3>2 DEF HeapExact
  <2>9. QED
    BY <2>3, <2>4, <2>5, <2>6, <2>7, <2>8
<1>7. CASE UNCHANGED vars
  BY <1>7 DEF vars, TypeOK, UsingCountExact, CacheBounded, DelArrayBounded,
              NoAlias, HeapExact
<1>8. QED
  BY <1>1, <1>2, <1>3, <1>4, <1>5, <1>6, <1>7 DEF Next

(* The inductive invariant holds in every reachable state. *)
LEMMA SpecIInv == Spec => []IInv
<1>1. Init => IInv
  BY InitIInv
<1>2. IInv /\ [Next]_vars => IInv'
  BY NextIInv
<1>3. QED
  BY <1>1, <1>2, PTL DEF Spec

(* Every variable of the pool keeps its type; in particular no entry of    *)
(* del_array is ever the null that pop() returns on an empty cache.        *)
THEOREM TypeCorrect == Spec => []TypeOK
<1>1. IInv => TypeOK
  BY DEF IInv
<1>2. QED
  BY <1>1, SpecIInv, PTL

(* using_count_ is exact, hence never decremented below zero. *)
THEOREM UsingCountCorrect == Spec => []UsingCountExact
<1>1. IInv => UsingCountExact
  BY DEF IInv
<1>2. QED
  BY <1>1, SpecIInv, PTL

(* The cache of newPiece() and deletePiece() never exceeds its moving      *)
(* limit.                                                                  *)
THEOREM CacheNeverOverLimit == Spec => []CacheBounded
<1>1. IInv => CacheBounded
  BY DEF IInv
<1>2. QED
  BY <1>1, SpecIInv, PTL

(* deletePiece() frees at most two pieces in one call. *)
THEOREM DelArrayNeverOverflows == Spec => []DelArrayBounded
<1>1. IInv => DelArrayBounded
  BY DEF IInv
<1>2. QED
  BY <1>1, SpecIInv, PTL

(* The pool never hands out a piece twice, nor deletes one in use. *)
THEOREM PiecesNeverShared == Spec => []NoAlias
<1>1. IInv => NoAlias
  BY DEF IInv
<1>2. QED
  BY <1>1, SpecIInv, PTL

(* The pool neither leaks a piece nor keeps a deleted one. *)
THEOREM HeapCorrect == Spec => []HeapExact
<1>1. IInv => HeapExact
  BY DEF IInv
<1>2. QED
  BY <1>1, SpecIInv, PTL
=============================================================================
