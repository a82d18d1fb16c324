------------------------ MODULE UsbRequestPoolProofs ------------------------
(***************************************************************************)
(* Proofs of the safety properties of UsbRequestPool for every pool size,  *)
(* every allocation size and every finite set of threads.                  *)
(***************************************************************************)
EXTENDS UsbRequestPool, FiniteSetTheorems, TLAPS

\* What a thread holds in each stage; only callers wait for permits.
StageOK ==
  \A t \in Threads :
    /\ stage[t] = "out" => permits[t] = 0 /\ want[t] = 0
    /\ stage[t] = "alloc" =>
         /\ t \in Callers
         /\ want[t] \in 1..MaxAlloc
         /\ permits[t] <= want[t]
    /\ stage[t] = "free" => want[t] = 0 /\ permits[t] \in 1..MaxAlloc

\* A pool that does not exist is empty and nobody is in it.
OffIsQuiescent == Count = 0 => FreeIndexEnd = 0 /\ Quiescent

\* The inductive invariant.  The partition bounds a push, the count of permits
\* bounds a pop and a release, and neither is inductive without the stages.
IInv ==
  /\ TypeOK
  /\ StageOK
  /\ OffIsQuiescent
  /\ IndicesPartitioned
  /\ PermitsBackedByIndices

-----------------------------------------------------------------------------
(* Counting. *)

\* Threads hold finitely many permits.
LEMMA TokensFinite ==
  ASSUME NEW p \in [Threads -> 0..N]
  PROVE  IsFiniteSet(TokensOf(p)) /\ Cardinality(TokensOf(p)) \in Nat
<1>1. IsFiniteSet(1..N)
  BY PoolAssumption, FS_Interval, SMT
<1>2. IsFiniteSet(Threads \X (1..N))
  BY <1>1, PoolAssumption, FS_Product
<1>3. TokensOf(p) \in SUBSET (Threads \X (1..N))
  BY DEF TokensOf
<1> QED  BY <1>2, <1>3, FS_Subset, FS_CardinalityType

\* Giving thread t more permits adds that many tokens and no others.
LEMMA TokensGrow ==
  ASSUME NEW p \in [Threads -> 0..N], NEW q \in [Threads -> 0..N],
         NEW t \in Threads,
         \A u \in Threads \ {t} : q[u] = p[u],
         p[t] <= q[t]
  PROVE  Cardinality(TokensOf(q)) = Cardinality(TokensOf(p)) + (q[t] - p[t])
<1> DEFINE R == (p[t] + 1)..q[t]
           D == {t} \X R
<1>0. p[t] \in 0..N /\ q[t] \in 0..N
  OBVIOUS
<1>1. IsFiniteSet(R) /\ Cardinality(R) = q[t] - p[t]
  <2>1. p[t] + 1 \in Int /\ q[t] \in Int /\ p[t] \in Int
    BY <1>0
  <2>2. /\ IsFiniteSet(R)
        /\ Cardinality(R) = IF p[t] + 1 > q[t] THEN 0 ELSE q[t] - (p[t] + 1) + 1
    BY <2>1, FS_Interval
  <2> QED  BY <2>1, <2>2, SMT
<1>2. IsFiniteSet(D) /\ Cardinality(D) = q[t] - p[t]
  <2>1. IsFiniteSet({t}) /\ Cardinality({t}) = 1
    BY FS_Singleton
  <2>2. IsFiniteSet(D) /\ Cardinality(D) = 1 * (q[t] - p[t])
    BY <2>1, <1>1, FS_Product
  <2> QED  BY <2>2, <1>0, SMT
<1>3. TokensOf(q) = TokensOf(p) \cup D
  <2>1. ASSUME NEW c \in TokensOf(q)
        PROVE  c \in TokensOf(p) \cup D
    <3>1. CASE c[1] = t
      <4>1. c = <<t, c[2]>> /\ c[2] \in 1..N /\ c[2] <= q[t]
        BY <2>1, <3>1 DEF TokensOf
      <4>2. CASE c[2] <= p[t]
        BY <2>1, <3>1, <4>2 DEF TokensOf
      <4>3. CASE ~(c[2] <= p[t])
        <5>1. c[2] \in R
          BY <1>0, <4>1, <4>3, PoolAssumption, SMT
        <5> QED  BY <4>1, <5>1
      <4> QED  BY <4>2, <4>3
    <3>2. CASE c[1] # t
      BY <2>1, <3>2 DEF TokensOf
    <3> QED  BY <3>1, <3>2
  <2>2. ASSUME NEW c \in TokensOf(p)
        PROVE  c \in TokensOf(q)
    <3>1. CASE c[1] = t
      BY <1>0, <2>2, <3>1, PoolAssumption, SMT DEF TokensOf
    <3>2. CASE c[1] # t
      BY <2>2, <3>2 DEF TokensOf
    <3> QED  BY <3>1, <3>2
  <2>3. ASSUME NEW c \in D
        PROVE  c \in TokensOf(q)
    <3>1. c = <<t, c[2]>> /\ c[1] = t /\ c[2] \in R
      BY <2>3
    <3>2. c[2] \in 1..N /\ c[2] <= q[t]
      BY <1>0, <3>1, PoolAssumption, SMT
    <3> QED  BY <3>1, <3>2 DEF TokensOf
  <2> QED  BY <2>1, <2>2, <2>3
<1>4. TokensOf(p) \cap D = {}
  <2>1. ASSUME NEW c \in TokensOf(p), c \in D
        PROVE  FALSE
    <3>1. c[1] = t /\ c[2] \in R
      BY <2>1
    <3>2. c[2] <= p[t]
      BY <2>1, <3>1 DEF TokensOf
    <3> QED  BY <1>0, <3>1, <3>2, SMT
  <2> QED  BY <2>1
<1>5. Cardinality(TokensOf(p) \cap D) = 0
  BY <1>4, FS_EmptySet
<1>6. IsFiniteSet(TokensOf(p)) /\ Cardinality(TokensOf(p)) \in Nat
  BY TokensFinite
<1>7. Cardinality(TokensOf(p) \cup D)
        = Cardinality(TokensOf(p)) + Cardinality(D) - Cardinality(TokensOf(p) \cap D)
  BY <1>2, <1>6, FS_Union
<1> QED  BY <1>0, <1>2, <1>3, <1>5, <1>6, <1>7, SMT

\* A permit in a thread's hands is a free index that nobody else may pop.
LEMMA PermitsBound ==
  ASSUME TypeOK, PermitsBackedByIndices, Count = N, NEW t \in Threads
  PROVE  Availabe + permits[t] <= FreeIndexEnd
<1> DEFINE none == [u \in Threads |-> IF u = t THEN 0 ELSE permits[u]]
<1>1. permits \in [Threads -> 0..N]
  BY PoolAssumption, SMT DEF TypeOK
<1>2. none \in [Threads -> 0..N]
  BY <1>1, PoolAssumption, SMT
<1>3. none[t] = 0 /\ \A u \in Threads \ {t} : permits[u] = none[u]
  OBVIOUS
<1>4. permits[t] \in 0..N
  BY <1>1
<1> HIDE DEF none
<1>5. Cardinality(TokensOf(permits)) = Cardinality(TokensOf(none)) + (permits[t] - none[t])
  BY <1>1, <1>2, <1>3, <1>4, TokensGrow, SMT
<1>6. Cardinality(TokensOf(none)) \in Nat
  BY <1>2, TokensFinite
<1>7. FreeIndexEnd = Availabe + Cardinality(TokensOf(permits))
  BY DEF PermitsBackedByIndices, Tokens
<1>8. Availabe \in 0..N /\ FreeIndexEnd \in 0..N
  BY DEF TypeOK
<1> QED  BY <1>3, <1>4, <1>5, <1>6, <1>7, <1>8, PoolAssumption, SMT

\* The free and the handed out indices add up to all of them.
LEMMA IndicesAddUp ==
  ASSUME TypeOK, IndicesPartitioned, Count = N
  PROVE  /\ IsFiniteSet(outstanding)
         /\ Cardinality(outstanding) = N - FreeIndexEnd
<1> DEFINE K == 0..(FreeIndexEnd - 1)
           f == [k \in K |-> FreeIndices[k]]
<1>1. FreeIndexEnd \in 0..N /\ N \in Nat
  BY PoolAssumption DEF TypeOK
<1>2. IsFiniteSet(K) /\ Cardinality(K) = FreeIndexEnd
  <2>1. 0 \in Int /\ FreeIndexEnd - 1 \in Int /\ FreeIndexEnd \in Nat
    BY <1>1, SMT
  <2>2. /\ IsFiniteSet(K)
        /\ Cardinality(K) = IF 0 > FreeIndexEnd - 1 THEN 0 ELSE FreeIndexEnd - 1 - 0 + 1
    BY <2>1, FS_Interval
  <2> QED  BY <2>1, <2>2, SMT
<1>3. f \in Bijection(K, FreeSet)
  <2>1. f \in [K -> FreeSet]
    BY DEF FreeSet
  <2>2. \A i, j \in K : f[i] = f[j] => i = j
    BY DEF IndicesPartitioned
  <2>3. \A x \in FreeSet : \E k \in K : f[k] = x
    BY DEF FreeSet
  <2> QED  BY <2>1, <2>2, <2>3 DEF Bijection, Injection, Surjection, IsInjective
<1>4. IsFiniteSet(FreeSet) /\ Cardinality(FreeSet) = FreeIndexEnd
  BY <1>2, <1>3, FS_Bijection DEF ExistsBijection
<1>5. IsFiniteSet(Indices) /\ Cardinality(Indices) = N
  <2>1. 0 \in Int /\ N - 1 \in Int
    BY <1>1, SMT
  <2>2. /\ IsFiniteSet(Indices)
        /\ Cardinality(Indices) = IF 0 > N - 1 THEN 0 ELSE N - 1 - 0 + 1
    BY <2>1, FS_Interval DEF Indices
  <2> QED  BY <1>1, <2>1, <2>2, PoolAssumption, SMT
<1>6. outstanding = Indices \ FreeSet /\ Indices \cap FreeSet = FreeSet
  BY DEF IndicesPartitioned
<1>7. /\ IsFiniteSet(outstanding)
      /\ Cardinality(outstanding) = Cardinality(Indices) - Cardinality(Indices \cap FreeSet)
  BY <1>5, <1>6, FS_Difference
<1> QED  BY <1>4, <1>5, <1>6, <1>7

\* n different indices that are out fit back on the stack.
LEMMA PushFits ==
  ASSUME TypeOK, IndicesPartitioned, Count = N,
         NEW n \in Nat, NEW idx \in Returnable(n)
  PROVE  FreeIndexEnd + n <= N
<1>1. idx \in Injection(1..n, outstanding)
  BY DEF Returnable, Injection, IsInjective
<1>2. Cardinality(1..n) <= Cardinality(outstanding)
  BY <1>1, IndicesAddUp, FS_Injection
<1>3. Cardinality(1..n) = n
  <2>1. Cardinality(1..n) = IF 1 > n THEN 0 ELSE n - 1 + 1
    BY FS_Interval
  <2> QED  BY <2>1, SMT
<1>4. FreeIndexEnd \in 0..N /\ N \in Nat
  BY PoolAssumption DEF TypeOK
<1> QED  BY <1>2, <1>3, <1>4, IndicesAddUp, SMT

-----------------------------------------------------------------------------
(* The invariant is inductive. *)

\* A pool that does not exist satisfies the invariant.
LEMMA InitIInv == Init => IInv
<1> SUFFICES ASSUME Init PROVE IInv
  OBVIOUS
<1> USE DEF Init
<1>1. N \in Nat \ {0} /\ 0 \in Indices
  BY PoolAssumption, SMT DEF Indices
<1>2. TypeOK
  BY <1>1, PoolAssumption, SMT DEF TypeOK
<1>3. StageOK /\ OffIsQuiescent
  BY DEF StageOK, OffIsQuiescent, Quiescent
<1>4. IndicesPartitioned /\ PermitsBackedByIndices
  BY <1>1 DEF IndicesPartitioned, PermitsBackedByIndices
<1> QED  BY <1>2, <1>3, <1>4 DEF IInv

\* When nobody is in the pool nobody holds a permit.
LEMMA QuiescentNoTokens ==
  ASSUME TypeOK, StageOK, Quiescent
  PROVE  Cardinality(TokensOf(permits)) = 0
<1>1. \A t \in Threads : permits[t] = 0
  BY DEF StageOK, Quiescent
<1>2. TokensOf(permits) = {}
  BY <1>1, PoolAssumption, SMT DEF TokensOf
<1> QED  BY <1>2, FS_EmptySet

\* Creating the requests.
LEMMA PoolInitKeeps ==
  ASSUME IInv, Quiescent, PoolInit
  PROVE  IInv'
<1> USE DEF PoolInit
<1>1. N \in Nat \ {0}
  BY PoolAssumption
<1>2. TypeOK'
  BY <1>1, PoolAssumption, SMT DEF IInv, TypeOK, Indices
<1>3. StageOK' /\ OffIsQuiescent'
  BY <1>1 DEF IInv, StageOK, OffIsQuiescent, Quiescent
<1>4. IndicesPartitioned'
  <2>1. 0..(FreeIndexEnd' - 1) = Indices
    BY DEF Indices
  <2>2. \A k \in Indices : FreeIndices'[k] = k
    BY DEF Indices
  <2>3. FreeSet' = Indices
    BY <2>1, <2>2 DEF FreeSet
  <2>4. outstanding' = {}
    BY DEF Quiescent
  <2> QED  BY <2>1, <2>2, <2>3, <2>4 DEF IndicesPartitioned
<1>5. PermitsBackedByIndices'
  <2>1. Cardinality(TokensOf(permits)) = 0
    BY QuiescentNoTokens DEF IInv
  <2> QED  BY <1>1, <2>1, SMT DEF PermitsBackedByIndices, Tokens, TokensOf
<1> QED  BY <1>2, <1>3, <1>4, <1>5 DEF IInv

\* Creating them in vain.
LEMMA PoolInitFailsKeeps ==
  ASSUME IInv, Quiescent, NEW i \in Indices, PoolInitFails(i)
  PROVE  IInv'
<1> USE DEF PoolInitFails
<1>1. N \in Nat \ {0}
  BY PoolAssumption
<1>2. TypeOK'
  BY <1>1, PoolAssumption, SMT DEF IInv, TypeOK, Indices
<1>3. StageOK' /\ OffIsQuiescent'
  BY <1>1 DEF IInv, StageOK, OffIsQuiescent, Quiescent
<1>4. IndicesPartitioned' /\ PermitsBackedByIndices'
  BY <1>1 DEF IndicesPartitioned, PermitsBackedByIndices
<1> QED  BY <1>2, <1>3, <1>4 DEF IInv

\* Deleting them.
LEMMA PoolUninitKeeps ==
  ASSUME IInv, Quiescent, PoolUninit
  PROVE  IInv'
<1> USE DEF PoolUninit
<1>1. N \in Nat \ {0}
  BY PoolAssumption
<1>2. TypeOK'
  BY <1>1, PoolAssumption, SMT DEF IInv, TypeOK, Indices
<1>3. StageOK' /\ OffIsQuiescent'
  BY <1>1 DEF IInv, StageOK, OffIsQuiescent, Quiescent
<1>4. IndicesPartitioned' /\ PermitsBackedByIndices'
  BY <1>1 DEF IndicesPartitioned, PermitsBackedByIndices
<1> QED  BY <1>2, <1>3, <1>4 DEF IInv

\* A caller asks for n requests.
LEMMA AllocBeginKeeps ==
  ASSUME IInv, NEW t \in Callers, NEW n \in 1..MaxAlloc, AllocBegin(t, n)
  PROVE  IInv'
<1> USE DEF AllocBegin
<1>1. N \in Nat \ {0} /\ MaxAlloc \in 1..N /\ t \in Threads
  BY PoolAssumption
<1>2. Count # 0
  BY <1>1, SMT DEF IInv, TypeOK
<1>3. TypeOK'
  BY <1>1, SMT DEF IInv, TypeOK
<1>4. StageOK'
  BY <1>1, SMT DEF IInv, StageOK, TypeOK
<1>5. OffIsQuiescent'
  BY <1>2 DEF OffIsQuiescent
<1>6. IndicesPartitioned'
  BY DEF IInv, IndicesPartitioned, FreeSet
<1>7. PermitsBackedByIndices'
  BY DEF IInv, PermitsBackedByIndices, Tokens, TokensOf
<1> QED  BY <1>3, <1>4, <1>5, <1>6, <1>7 DEF IInv

\* It has one more permit.
LEMMA AllocWaitKeeps ==
  ASSUME IInv, NEW t \in Callers, AllocWait(t)
  PROVE  IInv'
<1> USE DEF AllocWait
<1>1. N \in Nat \ {0} /\ MaxAlloc \in 1..N /\ t \in Threads
  BY PoolAssumption
<1>2. permits[t] \in 0..MaxAlloc /\ want[t] \in 1..MaxAlloc
  BY <1>1 DEF IInv, TypeOK, StageOK
<1>3. permits'[t] = permits[t] + 1 /\ \A u \in Threads \ {t} : permits'[u] = permits[u]
  BY <1>1 DEF IInv, TypeOK
<1>4. TypeOK'
  BY <1>1, <1>2, SMT DEF IInv, TypeOK
<1>5. StageOK'
  <2> SUFFICES ASSUME NEW u \in Threads
               PROVE  (/\ stage[u] = "out" => permits[u] = 0 /\ want[u] = 0
                       /\ stage[u] = "alloc" =>
                            /\ u \in Callers
                            /\ want[u] \in 1..MaxAlloc
                            /\ permits[u] <= want[u]
                       /\ stage[u] = "free" => want[u] = 0 /\ permits[u] \in 1..MaxAlloc)'
    BY DEF StageOK
  <2>1. CASE u = t
    BY <1>1, <1>2, <1>3, <2>1, SMT
  <2>2. CASE u # t
    BY <1>3, <2>2 DEF IInv, StageOK
  <2> QED  BY <2>1, <2>2
<1>6. OffIsQuiescent'
  BY <1>1 DEF IInv, OffIsQuiescent, Quiescent
<1>7. IndicesPartitioned'
  BY DEF IInv, IndicesPartitioned, FreeSet
<1>8. PermitsBackedByIndices'
  <2>1. permits \in [Threads -> 0..N] /\ permits' \in [Threads -> 0..N]
    BY <1>1, <1>4, SMT DEF IInv, TypeOK
  <2>2. Cardinality(TokensOf(permits')) = Cardinality(TokensOf(permits)) + 1
    <3>1. permits[t] <= permits'[t] /\ permits'[t] - permits[t] = 1
      BY <1>2, <1>3, SMT
    <3>2. Cardinality(TokensOf(permits'))
            = Cardinality(TokensOf(permits)) + (permits'[t] - permits[t])
      <4> HIDE DEF AllocWait
      <4> QED  BY <1>1, <1>3, <2>1, <3>1, TokensGrow
    <3> QED  BY <3>1, <3>2
  <2>3. Cardinality(TokensOf(permits)) \in Nat
    BY <2>1, TokensFinite
  <2>4. Availabe \in Nat
    BY SMT DEF IInv, TypeOK
  <2> HIDE DEF AllocWait
  <2>5. Count' = Count /\ FreeIndexEnd' = FreeIndexEnd /\ Availabe' = Availabe - 1
    BY DEF AllocWait
  <2>6. Count = N => FreeIndexEnd = Availabe + Cardinality(TokensOf(permits))
    BY DEF IInv, PermitsBackedByIndices, Tokens
  <2>7. Count' = N => FreeIndexEnd' = Availabe' + Cardinality(TokensOf(permits'))
    BY <2>2, <2>3, <2>4, <2>5, <2>6, SMT
  <2> QED  BY <2>7 DEF PermitsBackedByIndices, Tokens, TokensOf
<1> QED  BY <1>4, <1>5, <1>6, <1>7, <1>8 DEF IInv

\* When a thread that holds permits gives them all up, as many tokens go.
LEMMA TokensGone ==
  ASSUME NEW p \in [Threads -> 0..N], NEW t \in Threads
  PROVE  LET q == [p EXCEPT ![t] = 0] IN
         Cardinality(TokensOf(p)) = Cardinality(TokensOf(q)) + p[t]
<1> DEFINE q == [p EXCEPT ![t] = 0]
<1>1. q \in [Threads -> 0..N]
  BY PoolAssumption, SMT
<1>2. q[t] = 0 /\ \A u \in Threads \ {t} : p[u] = q[u]
  OBVIOUS
<1>3. p[t] \in 0..N
  OBVIOUS
<1> HIDE DEF q
<1>4. q[t] <= p[t] /\ p[t] - q[t] = p[t]
  BY <1>2, <1>3, SMT
<1>5. Cardinality(TokensOf(p)) = Cardinality(TokensOf(q)) + (p[t] - q[t])
  BY <1>1, <1>2, <1>4, TokensGrow
<1> QED  BY <1>4, <1>5 DEF q

\* It takes the indices its permits stand for.
LEMMA AllocPopKeeps ==
  ASSUME IInv, NEW t \in Callers, AllocPop(t)
  PROVE  IInv'
<1>1. N \in Nat \ {0} /\ MaxAlloc \in 1..N /\ t \in Threads
  BY PoolAssumption
<1> DEFINE w == want[t]
           top == FreeIndexEnd - w
<1>2. permits[t] = w /\ w \in 1..MaxAlloc /\ w \in 1..N
  BY <1>1, SMT DEF IInv, TypeOK, StageOK, AllocPop
<1>3. Count = N
  BY <1>1 DEF IInv, TypeOK, OffIsQuiescent, Quiescent, AllocPop
<1>4. w <= FreeIndexEnd
  <2>1. Availabe + permits[t] <= FreeIndexEnd
    BY <1>1, <1>3, PermitsBound DEF IInv
  <2>2. Availabe \in 0..N /\ FreeIndexEnd \in 0..N
    BY DEF IInv, TypeOK
  <2> QED  BY <1>1, <1>2, <2>1, <2>2, SMT
<1>5. FreeIndexEnd \in 0..N /\ top \in 0..N /\ FreeIndices \in [Indices -> Indices]
  BY <1>1, <1>2, <1>4, SMT DEF IInv, TypeOK
<1>6. {Popped(w)[k] : k \in 1..w} = {FreeIndices[k] : k \in top..(FreeIndexEnd - 1)}
  <2>1. ASSUME NEW k \in 1..w
        PROVE  /\ top + k - 1 \in top..(FreeIndexEnd - 1)
               /\ Popped(w)[k] = FreeIndices[top + k - 1]
    BY <1>2, <1>5, SMT DEF Popped
  <2>2. ASSUME NEW j \in top..(FreeIndexEnd - 1)
        PROVE  j - top + 1 \in 1..w /\ top + (j - top + 1) - 1 = j
    BY <1>2, <1>5, SMT
  <2>3. ASSUME NEW j \in top..(FreeIndexEnd - 1)
        PROVE  Popped(w)[j - top + 1] = FreeIndices[j]
    <3>1. Popped(w)[j - top + 1] = FreeIndices[top + (j - top + 1) - 1]
      BY <2>1, <2>2
    <3> QED  BY <2>2, <3>1
  <2> HIDE DEF w, top
  <2>4. \A x \in {Popped(w)[k] : k \in 1..w} :
           x \in {FreeIndices[k] : k \in top..(FreeIndexEnd - 1)}
    BY <2>1
  <2>5. \A x \in {FreeIndices[k] : k \in top..(FreeIndexEnd - 1)} :
           x \in {Popped(w)[k] : k \in 1..w}
    BY <2>2, <2>3
  <2> QED  BY <2>4, <2>5
<1>7. outstanding' = outstanding \cup {FreeIndices[k] : k \in top..(FreeIndexEnd - 1)}
  BY <1>6 DEF AllocPop
<1>8. FreeIndexEnd' = top /\ UNCHANGED <<FreeIndices, Count, Availabe>>
  BY DEF AllocPop
<1>9. \A k \in 0..(FreeIndexEnd - 1) : k \in Indices
  BY <1>1, <1>5, SMT DEF Indices
<1>10. TypeOK'
  <2>1. outstanding' \subseteq Indices
    <3>1. \A k \in top..(FreeIndexEnd - 1) : k \in 0..(FreeIndexEnd - 1)
      BY <1>5, SMT
    <3> QED  BY <1>5, <1>7, <1>9, <3>1 DEF IInv, TypeOK
  <2>2. /\ stage' \in [Threads -> {"out", "alloc", "free"}]
        /\ want' \in [Threads -> 0..MaxAlloc]
        /\ permits' \in [Threads -> 0..MaxAlloc]
    BY <1>1, SMT DEF IInv, TypeOK, AllocPop
  <2> QED  BY <1>5, <1>8, <2>1, <2>2 DEF IInv, TypeOK
<1>11. StageOK'
  BY <1>1 DEF IInv, TypeOK, StageOK, AllocPop
<1>12. OffIsQuiescent'
  BY <1>1, <1>3, <1>8 DEF OffIsQuiescent
<1>13. IndicesPartitioned'
  <2>1. \A k : k \in 0..(FreeIndexEnd - 1)
                <=> k \in 0..(top - 1) \/ k \in top..(FreeIndexEnd - 1)
    BY <1>2, <1>5, SMT
  <2>2. \A i \in 0..(top - 1), j \in top..(FreeIndexEnd - 1) : i # j
    BY <1>5, SMT
  <2>3. /\ \A i, j \in 0..(FreeIndexEnd - 1) : FreeIndices[i] = FreeIndices[j] => i = j
        /\ FreeSet \cap outstanding = {}
        /\ FreeSet \cup outstanding = Indices
    BY <1>3 DEF IInv, IndicesPartitioned
  <2> DEFINE high == {FreeIndices[k] : k \in top..(FreeIndexEnd - 1)}
             low  == {FreeIndices[k] : k \in 0..(top - 1)}
  <2>4. FreeSet' = low /\ outstanding' = outstanding \cup high
    BY <1>7, <1>8 DEF FreeSet
  <2> HIDE DEF top
  <2>5. FreeSet = low \cup high
    BY <2>1 DEF FreeSet
  <2>6. low \cap high = {}
    BY <2>1, <2>2, <2>3
  <2>7. \A i, j \in 0..(top - 1) : FreeIndices[i] = FreeIndices[j] => i = j
    BY <2>1, <2>3
  <2> HIDE DEF low, high
  <2>8. FreeSet' \cap outstanding' = {} /\ FreeSet' \cup outstanding' = Indices
    BY <2>3, <2>4, <2>5, <2>6
  <2>9. \A i, j \in 0..(FreeIndexEnd' - 1) : FreeIndices'[i] = FreeIndices'[j] => i = j
    BY <1>8, <2>7
  <2> QED  BY <2>8, <2>9 DEF IndicesPartitioned, Indices
<1>14. PermitsBackedByIndices'
  <2>1. permits \in [Threads -> 0..N]
    BY <1>1, SMT DEF IInv, TypeOK
  <2>2. permits' = [permits EXCEPT ![t] = 0]
    BY DEF AllocPop
  <2>3. Cardinality(TokensOf(permits)) = Cardinality(TokensOf(permits')) + w
    BY <1>1, <1>2, <2>1, <2>2, TokensGone
  <2>4. FreeIndexEnd = Availabe + Cardinality(TokensOf(permits))
    BY <1>3 DEF IInv, PermitsBackedByIndices, Tokens
  <2>5. permits' \in [Threads -> 0..N]
    BY <1>1, <1>10, SMT DEF TypeOK
  <2>6. Cardinality(TokensOf(permits')) \in Nat /\ Availabe \in Nat
    BY <2>5, TokensFinite, SMT DEF IInv, TypeOK
  <2>7. FreeIndexEnd' = Availabe' + Cardinality(TokensOf(permits'))
    BY <1>2, <1>5, <1>8, <2>3, <2>4, <2>6, SMT
  <2> QED  BY <2>7 DEF PermitsBackedByIndices, Tokens, TokensOf
<1> QED  BY <1>10, <1>11, <1>12, <1>13, <1>14 DEF IInv

\* The permits go back to the semaphore.
LEMMA FreeReleaseKeeps ==
  ASSUME IInv, NEW t \in Threads, FreeRelease(t)
  PROVE  IInv'
<1>1. N \in Nat \ {0} /\ MaxAlloc \in 1..N
  BY PoolAssumption
<1>2. permits[t] \in 1..MaxAlloc /\ Availabe \in 0..N /\ FreeIndexEnd \in 0..N
  BY DEF IInv, TypeOK, StageOK, FreeRelease
<1>3. Count = N
  BY <1>1 DEF IInv, TypeOK, OffIsQuiescent, Quiescent, FreeRelease
<1>4. Availabe + permits[t] <= FreeIndexEnd
  BY <1>3, PermitsBound DEF IInv
<1>5. Availabe' \in 0..N
  BY <1>1, <1>2, <1>4, SMT DEF FreeRelease
<1>6. TypeOK'
  BY <1>1, <1>5, SMT DEF IInv, TypeOK, FreeRelease
<1>7. StageOK'
  BY <1>1 DEF IInv, TypeOK, StageOK, FreeRelease
<1>8. OffIsQuiescent'
  BY <1>1, <1>3 DEF OffIsQuiescent, FreeRelease
<1>9. IndicesPartitioned'
  BY DEF IInv, IndicesPartitioned, FreeSet, FreeRelease
<1>10. PermitsBackedByIndices'
  <2>1. permits \in [Threads -> 0..N] /\ permits' \in [Threads -> 0..N]
    BY <1>1, <1>6, SMT DEF IInv, TypeOK
  <2>2. permits' = [permits EXCEPT ![t] = 0]
    BY DEF FreeRelease
  <2>3. Cardinality(TokensOf(permits)) = Cardinality(TokensOf(permits')) + permits[t]
    BY <2>1, <2>2, TokensGone
  <2>4. FreeIndexEnd = Availabe + Cardinality(TokensOf(permits))
    BY <1>3 DEF IInv, PermitsBackedByIndices, Tokens
  <2>5. Cardinality(TokensOf(permits')) \in Nat
    BY <2>1, TokensFinite
  <2>6. FreeIndexEnd' = FreeIndexEnd /\ Availabe' = Availabe + permits[t]
    BY DEF FreeRelease
  <2>7. FreeIndexEnd' = Availabe' + Cardinality(TokensOf(permits'))
    BY <1>1, <1>2, <2>3, <2>4, <2>5, <2>6, SMT
  <2> QED  BY <2>7 DEF PermitsBackedByIndices, Tokens, TokensOf
<1> QED  BY <1>6, <1>7, <1>8, <1>9, <1>10 DEF IInv

\* Indices go back on the stack.
LEMMA FreePushKeeps ==
  ASSUME IInv, NEW t \in Threads, NEW n \in 1..MaxAlloc,
         NEW idx \in Returnable(n), FreePush(t, n, idx)
  PROVE  IInv'
<1> DEFINE end == FreeIndexEnd
           low == 0..(end - 1)
           high == end..(end + n - 1)
           back == {idx[k] : k \in 1..n}
<1>1. N \in Nat \ {0} /\ MaxAlloc \in 1..N /\ n \in Nat \ {0} /\ n \in 1..N
  BY PoolAssumption, SMT
<1>2. idx \in [1..n -> outstanding] /\ \A i, j \in 1..n : idx[i] = idx[j] => i = j
  BY DEF Returnable
<1>3. Count = N
  <2>1. 1 \in 1..n
    BY <1>1
  <2>2. outstanding # {}
    BY <1>2, <2>1
  <2> QED  BY <2>2 DEF IInv, TypeOK, OffIsQuiescent, Quiescent
<1>4. end + n <= N
  BY <1>1, <1>3, PushFits DEF IInv
<1>5. end \in 0..N /\ end + n \in 0..N /\ FreeIndices \in [Indices -> Indices]
  BY <1>1, <1>4, SMT DEF IInv, TypeOK
<1>6. /\ FreeIndexEnd' = end + n
      /\ outstanding' = outstanding \ back
      /\ UNCHANGED <<Count, Availabe, want>>
  BY DEF FreePush
<1>7. \A k : k \in 0..(end + n - 1) <=> k \in low \/ k \in high
  BY <1>1, <1>5, SMT
<1>8. /\ \A k \in low : k \in Indices /\ k \notin high
      /\ \A k \in high : k \in Indices /\ k - end + 1 \in 1..n
  BY <1>1, <1>5, SMT DEF Indices
<1>9. /\ \A k \in low : FreeIndices'[k] = FreeIndices[k]
      /\ \A k \in high : FreeIndices'[k] = idx[k - end + 1]
  BY <1>8 DEF FreePush
<1>10. back \subseteq outstanding /\ outstanding \subseteq Indices
  BY <1>2 DEF IInv, TypeOK
<1>11. TypeOK'
  <2>1. FreeIndices' \in [Indices -> Indices]
    <3>1. \A k \in Indices : k \in high => idx[k - end + 1] \in Indices
      BY <1>2, <1>8, <1>10
    <3> QED  BY <1>5, <3>1 DEF FreePush
  <2>2. /\ stage' \in [Threads -> {"out", "alloc", "free"}]
        /\ permits' \in [Threads -> 0..MaxAlloc]
    BY <1>1, SMT DEF IInv, TypeOK, FreePush
  <2> QED  BY <1>5, <1>6, <1>10, <2>1, <2>2 DEF IInv, TypeOK
<1>12. StageOK'
  BY <1>1 DEF IInv, TypeOK, StageOK, FreePush
<1>13. OffIsQuiescent'
  BY <1>1, <1>3, <1>6 DEF OffIsQuiescent
<1>14. IndicesPartitioned'
  <2> DEFINE all == 0..(end + n - 1)
  <2>0. 0..(FreeIndexEnd' - 1) = all
    BY <1>1, <1>5, <1>6, SMT
  <2>1. /\ \A i, j \in low : FreeIndices[i] = FreeIndices[j] => i = j
        /\ FreeSet \cap outstanding = {}
        /\ FreeSet \cup outstanding = Indices
    BY <1>3 DEF IInv, IndicesPartitioned
  <2>2. {FreeIndices'[k] : k \in high} = back
    <3>1. \A j \in 1..n : j + end - 1 \in high /\ (j + end - 1) - end + 1 = j
      BY <1>1, <1>5, SMT
    <3>2. \A j \in 1..n : FreeIndices'[j + end - 1] = idx[j]
      BY <1>9, <3>1
    <3> HIDE DEF high, end
    <3>3. \A x \in back : x \in {FreeIndices'[k] : k \in high}
      BY <3>1, <3>2
    <3>4. \A x \in {FreeIndices'[k] : k \in high} : x \in back
      BY <1>8, <1>9
    <3> QED  BY <3>3, <3>4
  <2>3. {FreeIndices'[k] : k \in low} = FreeSet
    BY <1>9 DEF FreeSet
  <2>4. FreeSet' = FreeSet \cup back
    <3>1. \A k : k \in all <=> k \in low \/ k \in high
      BY <1>7
    <3> HIDE DEF all, low, high, back
    <3>2. FreeSet' = {FreeIndices'[k] : k \in all}
      BY <2>0 DEF FreeSet
    <3> QED  BY <2>2, <2>3, <3>1, <3>2
  <2>5. FreeSet' \cap outstanding' = {} /\ FreeSet' \cup outstanding' = Indices
    BY <1>6, <1>10, <2>1, <2>4
  <2>6. ASSUME NEW i \in all, NEW j \in all,
               FreeIndices'[i] = FreeIndices'[j]
        PROVE  i = j
    <3>1. CASE i \in low /\ j \in low
      BY <1>9, <2>1, <2>6, <3>1
    <3>2. CASE i \in high /\ j \in high
      <4>1. idx[i - end + 1] = idx[j - end + 1]
        BY <1>9, <2>6, <3>2
      <4>2. i - end + 1 = j - end + 1
        BY <1>2, <1>8, <3>2, <4>1
      <4> QED  BY <1>1, <1>5, <4>2, SMT
    <3>3. ASSUME NEW a \in low, NEW b \in high, FreeIndices'[a] = FreeIndices'[b]
          PROVE  FALSE
      <4>1. FreeIndices'[a] \in FreeSet
        BY <1>9, <3>3 DEF FreeSet
      <4>2. FreeIndices'[b] \in outstanding
        BY <1>2, <1>8, <1>9, <3>3
      <4> QED  BY <2>1, <3>3, <4>1, <4>2
    <3>4. (i \in low \/ i \in high) /\ (j \in low \/ j \in high)
      BY <1>7
    <3> HIDE DEF all, low, high
    <3> QED  BY <2>6, <3>1, <3>2, <3>3, <3>4
  <2> HIDE DEF all
  <2>7. \A i, j \in 0..(FreeIndexEnd' - 1) : FreeIndices'[i] = FreeIndices'[j] => i = j
    BY <2>0, <2>6
  <2> QED  BY <2>5, <2>7 DEF IndicesPartitioned, Indices
<1>15. PermitsBackedByIndices'
  <2>1. permits \in [Threads -> 0..N] /\ permits' \in [Threads -> 0..N]
    BY <1>1, <1>11, SMT DEF IInv, TypeOK
  <2>2. permits[t] = 0 /\ permits'[t] = n /\ \A u \in Threads \ {t} : permits'[u] = permits[u]
    BY DEF IInv, TypeOK, StageOK, FreePush
  <2>3. permits[t] <= permits'[t] /\ permits'[t] - permits[t] = n
    BY <1>1, <2>2, SMT
  <2>4. Cardinality(TokensOf(permits'))
          = Cardinality(TokensOf(permits)) + (permits'[t] - permits[t])
    BY <2>1, <2>2, <2>3, TokensGrow
  <2>5. end = Availabe + Cardinality(TokensOf(permits))
    BY <1>3 DEF IInv, PermitsBackedByIndices, Tokens
  <2>6. Cardinality(TokensOf(permits)) \in Nat /\ Availabe \in Nat
    BY <2>1, TokensFinite, SMT DEF IInv, TypeOK
  <2>7. FreeIndexEnd' = Availabe' + Cardinality(TokensOf(permits'))
    BY <1>1, <1>6, <2>3, <2>4, <2>5, <2>6, SMT
  <2> QED  BY <2>7 DEF PermitsBackedByIndices, Tokens, TokensOf
<1> QED  BY <1>11, <1>12, <1>13, <1>14, <1>15 DEF IInv

\* Every step keeps the invariant.
LEMMA NextKeepsIInv == IInv /\ [Next]_poolVars => IInv'
<1> SUFFICES ASSUME IInv, [Next]_poolVars PROVE IInv'
  OBVIOUS
<1>1. CASE Quiescent /\ PoolInit
  BY <1>1, PoolInitKeeps
<1>2. ASSUME Quiescent, NEW i \in Indices, PoolInitFails(i) PROVE IInv'
  BY <1>2, PoolInitFailsKeeps
<1>3. CASE Quiescent /\ PoolUninit
  BY <1>3, PoolUninitKeeps
<1>4. ASSUME NEW t \in Callers, NEW n \in 1..MaxAlloc, AllocBegin(t, n) PROVE IInv'
  BY <1>4, AllocBeginKeeps
<1>5. ASSUME NEW t \in Callers, AllocWait(t) PROVE IInv'
  BY <1>5, AllocWaitKeeps
<1>6. ASSUME NEW t \in Callers, AllocPop(t) PROVE IInv'
  BY <1>6, AllocPopKeeps
<1>7. ASSUME NEW t \in Threads, NEW n \in 1..MaxAlloc, NEW idx \in Returnable(n),
             FreePush(t, n, idx)
      PROVE  IInv'
  BY <1>7, FreePushKeeps
<1>8. ASSUME NEW t \in Threads, FreeRelease(t) PROVE IInv'
  BY <1>8, FreeReleaseKeeps
<1>9. ASSUME \/ UNCHANGED poolVars
             \/ \E t \in Callers, n \in 1..MaxAlloc : AllocRefused(t, n)
      PROVE  IInv'
  <2>0. UNCHANGED poolVars
    BY <1>9 DEF AllocRefused
  <2> USE <2>0 DEF poolVars
  <2>1. TypeOK' /\ StageOK' /\ OffIsQuiescent'
    BY DEF IInv, TypeOK, StageOK, OffIsQuiescent, Quiescent
  <2>2. IndicesPartitioned' /\ PermitsBackedByIndices'
    BY DEF IInv, IndicesPartitioned, FreeSet, PermitsBackedByIndices, Tokens, TokensOf
  <2> QED  BY <2>1, <2>2 DEF IInv
<1> QED  BY <1>1, <1>2, <1>3, <1>4, <1>5, <1>6, <1>7, <1>8, <1>9 DEF Next

-----------------------------------------------------------------------------
(* The theorems. *)

\* The invariant holds in every reachable state.
THEOREM PoolInvariant == PoolSpec => []IInv
BY InitIInv, NextKeepsIInv, PTL DEF PoolSpec

\* Every variable keeps its type: in particular FreeIndexEnd never leaves the
\* array, whatever the callers' order.
THEOREM PoolTypeCorrect == PoolSpec => []TypeOK
<1>1. IInv => TypeOK
  BY DEF IInv
<1> QED  BY <1>1, PoolInvariant, PTL

\* No index is handed out twice, kept twice or lost.
THEOREM PoolIndicesPartitioned == PoolSpec => []IndicesPartitioned
<1>1. IInv => IndicesPartitioned
  BY DEF IInv
<1> QED  BY <1>1, PoolInvariant, PTL

\* Permits and free indices agree at every step between a caller's two halves.
THEOREM PoolPermitsBacked == PoolSpec => []PermitsBackedByIndices
<1>1. IInv => PermitsBackedByIndices
  BY DEF IInv
<1> QED  BY <1>1, PoolInvariant, PTL

\* A caller that has all its permits never pops below the stack's bottom: the
\* assertion Count <= FreeIndexEnd of McbaUsbRequestsAlloc.
THEOREM PoolPopWithinStack == PoolSpec => []PopWithinStack
<1>1. IInv => PopWithinStack
  <2> SUFFICES ASSUME IInv, NEW t \in Threads,
                      stage[t] = "alloc", permits[t] = want[t]
               PROVE  want[t] <= FreeIndexEnd
    BY DEF PopWithinStack
  <2>1. Count = N
    BY DEF IInv, TypeOK, OffIsQuiescent, Quiescent
  <2>2. Availabe + permits[t] <= FreeIndexEnd
    BY <2>1, PermitsBound DEF IInv
  <2>3. Availabe \in 0..N /\ FreeIndexEnd \in 0..N /\ want[t] \in 1..MaxAlloc
    BY DEF IInv, TypeOK, StageOK
  <2> QED  BY <2>2, <2>3, PoolAssumption, SMT
<1> QED  BY <1>1, PoolInvariant, PTL

\* A release never takes the semaphore over its limit.
THEOREM PoolReleaseWithinLimit == PoolSpec => []ReleaseWithinLimit
<1>1. IInv => ReleaseWithinLimit
  <2> SUFFICES ASSUME IInv, NEW t \in Threads, stage[t] = "free"
               PROVE  Availabe + permits[t] <= N
    BY DEF ReleaseWithinLimit
  <2>1. Count = N
    BY DEF IInv, TypeOK, OffIsQuiescent, Quiescent
  <2>2. Availabe + permits[t] <= FreeIndexEnd
    BY <2>1, PermitsBound DEF IInv
  <2>3. Availabe \in 0..N /\ FreeIndexEnd \in 0..N /\ permits[t] \in 1..MaxAlloc
    BY DEF IInv, TypeOK, StageOK
  <2> QED  BY <2>2, <2>3, PoolAssumption, SMT
<1> QED  BY <1>1, PoolInvariant, PTL

\* Callers that wait for each other hold the whole pool between them, and each of
\* them one permit less than it asked for: the permits in their hands are all
\* within the demand.
LEMMA DeadlockHoldsAll == IInv => DeadlockNeedsDemand
<1> SUFFICES ASSUME IInv, HoldAndWait PROVE Cardinality(Demand) >= N
  BY DEF DeadlockNeedsDemand
<1>1. Count = N
  BY PoolAssumption DEF IInv, TypeOK, OffIsQuiescent, Quiescent, HoldAndWait
<1>2. FreeIndexEnd = N
  <2>1. Cardinality(outstanding) = N - FreeIndexEnd
    BY <1>1, IndicesAddUp DEF IInv
  <2>2. Cardinality(outstanding) = 0
    BY FS_EmptySet DEF HoldAndWait
  <2>3. FreeIndexEnd \in 0..N /\ N \in Nat
    BY PoolAssumption DEF IInv, TypeOK
  <2> QED  BY <2>1, <2>2, <2>3, SMT
<1>3. Cardinality(Tokens) = N
  <2>1. permits \in [Threads -> 0..N]
    BY PoolAssumption, SMT DEF IInv, TypeOK
  <2>2. Cardinality(Tokens) \in Nat
    BY <2>1, TokensFinite DEF Tokens
  <2>3. FreeIndexEnd = 0 + Cardinality(Tokens)
    BY <1>1 DEF IInv, PermitsBackedByIndices, HoldAndWait
  <2> QED  BY <1>2, <2>2, <2>3, SMT
<1>4. Tokens \in SUBSET Demand
  <2> SUFFICES ASSUME NEW c \in Tokens PROVE c \in Demand
    OBVIOUS
  <2>1. /\ c = <<c[1], c[2]>> /\ c[1] \in Threads /\ c[2] \in 1..N
        /\ c[2] <= permits[c[1]]
    BY DEF Tokens, TokensOf
  <2>2. CASE stage[c[1]] = "out"
    <3>1. permits[c[1]] = 0
      BY <2>1, <2>2 DEF IInv, StageOK
    <3> QED  BY <2>1, <3>1, SMT
  <2>3. CASE stage[c[1]] = "alloc"
    <3>1. c[1] \in Callers /\ want[c[1]] \in 1..MaxAlloc /\ permits[c[1]] < want[c[1]]
      BY <2>1, <2>3 DEF IInv, StageOK, HoldAndWait
    <3>2. permits[c[1]] \in 0..MaxAlloc /\ MaxAlloc \in 1..N /\ N \in Nat
      BY <2>1, PoolAssumption DEF IInv, TypeOK
    <3>3. c[2] \in 1..MaxAlloc /\ c[2] < want[c[1]]
      BY <2>1, <3>1, <3>2, SMT
    <3>4. c \in Callers \X (1..MaxAlloc)
      BY <2>1, <3>1, <3>3
    <3> QED  BY <2>3, <3>3, <3>4 DEF Demand
  <2> QED  BY <2>1, <2>2, <2>3 DEF IInv, TypeOK, HoldAndWait
<1>5. IsFiniteSet(Demand)
  <2>1. IsFiniteSet(Callers) /\ IsFiniteSet(1..MaxAlloc)
    BY PoolAssumption, FS_Subset, FS_Interval, SMT
  <2>2. IsFiniteSet(Callers \X (1..MaxAlloc))
    BY <2>1, FS_Product
  <2>3. Demand \in SUBSET (Callers \X (1..MaxAlloc))
    BY DEF Demand
  <2> QED  BY <2>2, <2>3, FS_Subset
<1>6. Cardinality(Tokens) <= Cardinality(Demand)
  BY <1>4, <1>5, FS_Subset
<1>7. Cardinality(Demand) \in Nat
  BY <1>5, FS_CardinalityType
<1> QED  BY <1>3, <1>6, <1>7, PoolAssumption, SMT

\* Whatever the sizes of the pool and of the allocations: callers that wait for
\* each other ask together for at least as many requests as the pool has and one
\* more for each of them.
THEOREM PoolDeadlockNeedsDemand == PoolSpec => []DeadlockNeedsDemand
BY DeadlockHoldsAll, PoolInvariant, PTL
=============================================================================
