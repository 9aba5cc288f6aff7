------------------------- MODULE CommandQueueProofs -------------------------
(***************************************************************************)
(* Proofs about CommandQueue for any structs, queues and threads: the      *)
(* linked lists are sequences, and implement CommandLists.                 *)
(***************************************************************************)
EXTENDS CommandQueue, FiniteSetTheorems, SequenceTheorems,
        WellFoundedInduction, TLAPS

-----------------------------------------------------------------------------
(* A linked list, with ends f and e and links nx, that holds the sequence s. *)

Linked(f, e, nx, s) ==
    /\ f = IF s = <<>> THEN Null ELSE s[1]
    /\ e = IF s = <<>> THEN Null ELSE s[Len(s)]
    /\ \A k \in 1..Len(s) : nx[s[k]] = IF k = Len(s) THEN Null ELSE s[k + 1]
    /\ \A j, k \in 1..Len(s) : s[j] = s[k] => j = k

LEMMA SeqFacts ==
    ASSUME NEW T, NEW s \in Seq(T)
    PROVE  /\ Len(s) \in Nat /\ DOMAIN s = 1..Len(s)
           /\ \A k \in 1..Len(s) : s[k] \in T
           /\ s = <<>> <=> Len(s) = 0
           /\ s # <<>> => 1 \in 1..Len(s) /\ Len(s) \in 1..Len(s)
OBVIOUS

LEMMA TailFacts ==
    ASSUME NEW T, NEW s \in Seq(T), s # <<>>
    PROVE  /\ Tail(s) \in Seq(T) /\ Head(s) = s[1]
           /\ Len(Tail(s)) = Len(s) - 1
           /\ \A k \in 1..Len(Tail(s)) : Tail(s)[k] = s[k + 1]
OBVIOUS

LEMMA AppendFacts ==
    ASSUME NEW T, NEW s \in Seq(T), NEW n \in T
    PROVE  /\ Append(s, n) \in Seq(T) /\ Append(s, n) # <<>>
           /\ Len(Append(s, n)) = Len(s) + 1
           /\ \A k \in 1..Len(s) : Append(s, n)[k] = s[k]
           /\ Append(s, n)[Len(s) + 1] = n
OBVIOUS

\* getCommand: what is left is linked.
LEMMA LinkedTail ==
    ASSUME NEW f, NEW e, NEW nx, NEW s \in Seq(Nodes), s # <<>>, Linked(f, e, nx, s)
    PROVE  /\ f \in Nodes /\ f = s[1]
           /\ Linked(nx[f], IF nx[f] = Null THEN Null ELSE e, nx, Tail(s))
<1> DEFINE r == Tail(s)
           n == Len(s)
<1>1. /\ n \in Nat /\ n > 0 /\ r \in Seq(Nodes) /\ Len(r) = n - 1 /\ Len(r) \in Nat
      /\ \A k \in 1..n : s[k] \in Nodes
      /\ \A k \in 1..Len(r) : r[k] = s[k + 1]
      /\ r = <<>> <=> n = 1
      /\ n = Len(s)
    <2>1. n \in Nat /\ n > 0 /\ \A k \in 1..n : s[k] \in Nodes
        BY SeqFacts
    <2>2. /\ r \in Seq(Nodes) /\ Len(r) = n - 1
          /\ \A k \in 1..Len(r) : r[k] = s[k + 1]
        BY TailFacts
    <2>3. r = <<>> <=> Len(r) = 0
        BY <2>2, SeqFacts
    <2> QED
        BY <2>1, <2>2, <2>3
<1> HIDE DEF r, n
<1>2. f = s[1] /\ e = s[n] /\ 1 \in 1..n
    BY <1>1 DEF Linked
<1>3. nx[f] = IF n = 1 THEN Null ELSE s[2]
    BY <1>1, <1>2 DEF Linked
<1>4. n # 1 => s[2] \in Nodes /\ s[2] # Null
    <2>1. n # 1 => 2 \in 1..n
        BY <1>1
    <2> QED
        BY <1>1, <2>1, QueueAssumption
<1>5. nx[f] = IF r = <<>> THEN Null ELSE r[1]
    <2>1. n # 1 => r[1] = s[2]
        BY <1>1
    <2> QED
        BY <1>1, <1>3, <2>1
<1>6. (IF nx[f] = Null THEN Null ELSE e) = IF r = <<>> THEN Null ELSE r[Len(r)]
    <2>1. n # 1 => r[Len(r)] = s[n]
        BY <1>1
    <2> QED
        BY <1>1, <1>2, <1>3, <1>4, <2>1
<1>7. \A k \in 1..Len(r) : nx[r[k]] = IF k = Len(r) THEN Null ELSE r[k + 1]
    <2> SUFFICES ASSUME NEW k \in 1..Len(r)
                 PROVE  nx[r[k]] = IF k = Len(r) THEN Null ELSE r[k + 1]
        OBVIOUS
    <2>1. r[k] = s[k + 1] /\ k + 1 \in 1..n /\ (k = Len(r) <=> k + 1 = n)
        BY <1>1
    <2>2. nx[s[k + 1]] = IF k + 1 = n THEN Null ELSE s[k + 1 + 1]
        BY <1>1, <2>1 DEF Linked
    <2>3. k # Len(r) => r[k + 1] = s[k + 1 + 1]
        BY <1>1
    <2> QED
        BY <2>1, <2>2, <2>3
<1>8. \A j, k \in 1..Len(r) : r[j] = r[k] => j = k
    <2> SUFFICES ASSUME NEW j \in 1..Len(r), NEW k \in 1..Len(r), r[j] = r[k]
                 PROVE  j = k
        OBVIOUS
    <2>1. s[j + 1] = s[k + 1] /\ j + 1 \in 1..n /\ k + 1 \in 1..n
        BY <1>1
    <2>2. j + 1 = k + 1
        BY <1>1, <2>1 DEF Linked
    <2> QED
        BY <2>2
<1> QED
    BY <1>1, <1>2, <1>5, <1>6, <1>7, <1>8 DEF Linked, r

\* Links of other structs do not matter.
LEMMA LinkedElsewhere ==
    ASSUME NEW f, NEW e, NEW nx, NEW my, NEW s \in Seq(Nodes), Linked(f, e, nx, s),
           \A k \in 1..Len(s) : my[s[k]] = nx[s[k]]
    PROVE  Linked(f, e, my, s)
BY DEF Linked

Links == [Nodes -> Nodes \union {Null}]

\* The links when n is linked behind the list with the ends f and e.
Behind(nx, f, e, n) ==
    IF f = Null THEN [nx EXCEPT ![n] = Null]
    ELSE [nx EXCEPT ![n] = Null, ![e] = n]

LEMMA LinkedLast ==
    ASSUME NEW f, NEW e, NEW nx, NEW s \in Seq(Nodes), Linked(f, e, nx, s), f # Null
    PROVE  e \in Nodes /\ \E k \in 1..Len(s) : e = s[k]
<1>1. s # <<>>
    BY DEF Linked
<1> QED
    BY <1>1, SeqFacts DEF Linked

\* putCommand: n is the last struct.
LEMMA LinkedAppend ==
    ASSUME NEW f, NEW e, NEW nx \in Links,
           NEW s \in Seq(Nodes), Linked(f, e, nx, s),
           NEW n \in Nodes, \A k \in 1..Len(s) : s[k] # n
    PROVE  Linked(IF f = Null THEN n ELSE f, n, Behind(nx, f, e, n), Append(s, n))
<1> DEFINE my == Behind(nx, f, e, n)
           a == Append(s, n)
           l == Len(s)
<1>1. /\ l \in Nat /\ \A k \in 1..l : s[k] \in Nodes /\ s[k] # Null
      /\ s = <<>> <=> l = 0
      /\ a \in Seq(Nodes) /\ a # <<>> /\ Len(a) = l + 1
      /\ \A k \in 1..l : a[k] = s[k]
      /\ a[l + 1] = n
    BY SeqFacts, AppendFacts, QueueAssumption
<1>2. /\ s = <<>> => f = Null
      /\ s # <<>> => f = s[1] /\ f # Null /\ e = s[l] /\ e \in Nodes /\ l \in 1..l
    BY <1>1 DEF Linked
<1>3. /\ my[n] = Null
      /\ f # Null => my[e] = n
      /\ \A m \in Nodes : m # n /\ (f # Null => m # e) => my[m] = nx[m]
    BY <1>1, <1>2 DEF Behind, Links
<1> HIDE DEF my, a
<1>4. (IF f = Null THEN n ELSE f) = a[1]
    BY <1>1, <1>2
<1>5. \A k \in 1..(l + 1) : my[a[k]] = IF k = l + 1 THEN Null ELSE a[k + 1]
    <2> SUFFICES ASSUME NEW k \in 1..(l + 1)
                 PROVE  my[a[k]] = IF k = l + 1 THEN Null ELSE a[k + 1]
        OBVIOUS
    <2>1. CASE k = l + 1
        BY <1>1, <1>3, <2>1
    <2>2. CASE k = l
        <3>1. s # <<>> /\ a[k] = e /\ a[k + 1] = n
            BY <1>1, <1>2, <2>2
        <3> QED
            BY <1>1, <1>2, <1>3, <2>2, <3>1
    <2>3. CASE k # l /\ k # l + 1
        <3>1. k \in 1..l /\ k + 1 \in 1..l /\ l \in 1..l /\ s # <<>>
            BY <1>1, <2>3
        <3>2. s[k] # e
            BY <1>2, <2>3, <3>1 DEF Linked
        <3>3. my[s[k]] = nx[s[k]]
            BY <1>1, <1>3, <3>1, <3>2
        <3>4. nx[s[k]] = s[k + 1]
            BY <2>3, <3>1 DEF Linked
        <3> QED
            BY <1>1, <2>3, <3>1, <3>3, <3>4
    <2> QED
        BY <2>1, <2>2, <2>3
<1>6. \A j, k \in 1..(l + 1) : a[j] = a[k] => j = k
    <2> SUFFICES ASSUME NEW j \in 1..(l + 1), NEW k \in 1..(l + 1), a[j] = a[k]
                 PROVE  j = k
        OBVIOUS
    <2>1. CASE j \in 1..l /\ k \in 1..l
        BY <1>1, <2>1 DEF Linked
    <2>2. CASE j \notin 1..l \/ k \notin 1..l
        <3>1. (j \in 1..l \/ j = l + 1) /\ (k \in 1..l \/ k = l + 1)
            BY <1>1
        <3> QED
            BY <1>1, <2>2, <3>1
    <2> QED
        BY <2>1, <2>2
<1>7. Linked(IF f = Null THEN n ELSE f, n, my, a)
    BY <1>1, <1>4, <1>5, <1>6 DEF Linked
<1> QED
    BY <1>7 DEF my, a

-----------------------------------------------------------------------------
(* Chain finds the sequence a linked list holds.                           *)

LEMMA LeastNat ==
    ASSUME NEW S, S \subseteq Nat, S # {}
    PROVE  \E x \in S : \A y \in S : x <= y
<1>1. PICK x \in S : \A y \in S : <<y, x>> \notin OpToRel(<, Nat)
    BY NatLessThanWellFounded, WFMin
<1>2. \A y \in S : ~(y < x)
    BY <1>1 DEF OpToRel
<1>3. \A y \in S : x <= y
    BY <1>2
<1> QED
    BY <1>3

\* The first m structs of a list.
Pre(s, m) == SubSeq(s, 1, m)

LEMMA PreFacts ==
    ASSUME NEW T, NEW s \in Seq(T)
    PROVE  /\ Pre(s, 0) = <<>> /\ Pre(s, Len(s)) = s
           /\ s # <<>> => Pre(s, 1) = <<s[1]>>
           /\ \A m \in 0..Len(s) : /\ Pre(s, m) \in Seq(T) /\ Len(Pre(s, m)) = m
                                   /\ \A j \in 1..m : Pre(s, m)[j] = s[j]
           /\ \A m \in 0..Len(s) :
                 m < Len(s) => Append(Pre(s, m), s[m + 1]) = Pre(s, m + 1)
<1>1. Len(s) \in Nat
    OBVIOUS
<1>2. ASSUME NEW m \in 0..Len(s)
      PROVE  /\ Pre(s, m) \in Seq(T) /\ Len(Pre(s, m)) = m
             /\ \A j \in 1..m : Pre(s, m)[j] = s[j]
    BY DEF Pre
<1>3. ASSUME NEW m \in 0..Len(s), m < Len(s)
      PROVE  Append(Pre(s, m), s[m + 1]) = Pre(s, m + 1)
    <2> DEFINE a == Append(Pre(s, m), s[m + 1])
               b == Pre(s, m + 1)
    <2>0. m + 1 \in 0..Len(s) /\ m \in Nat /\ s[m + 1] \in T
        BY <1>1, <1>3
    <2>1. a \in Seq(T) /\ Len(a) = m + 1 /\ (\A j \in 1..m : a[j] = s[j]) /\ a[m + 1] = s[m + 1]
        BY <1>2, <2>0, AppendFacts
    <2>2. b \in Seq(T) /\ Len(b) = m + 1 /\ \A j \in 1..(m + 1) : b[j] = s[j]
        BY <1>2, <2>0
    <2> HIDE DEF a, b
    <2>3. \A j \in 1..Len(a) : a[j] = b[j]
        BY <2>0, <2>1, <2>2
    <2>4. a = b
        BY <2>1, <2>2, <2>3, SeqEqual
    <2> QED
        BY <2>4 DEF a, b
<1>4. Pre(s, 0) = <<>> /\ Pre(s, Len(s)) = s
    BY DEF Pre
<1>5. ASSUME s # <<>> PROVE Pre(s, 1) = <<s[1]>>
    <2> DEFINE b == Pre(s, 1)
               c == <<s[1]>>
    <2>0. 1 \in 1..Len(s)
        BY <1>5, SeqFacts
    <2>1. 1 \in 0..Len(s) /\ s[1] \in T
        BY <1>1, <2>0
    <2>2. b \in Seq(T) /\ Len(b) = 1 /\ b[1] = s[1]
        <3>1. b \in Seq(T) /\ Len(b) = 1 /\ \A j \in 1..1 : b[j] = s[j]
            BY <1>2, <2>1
        <3> HIDE DEF b
        <3> QED
            BY <3>1
    <2>3. c \in Seq(T) /\ Len(c) = 1 /\ c[1] = s[1]
        BY <2>1
    <2> HIDE DEF b, c
    <2>4. b = c
        BY <2>2, <2>3, SeqEqual
    <2> QED
        BY <2>4 DEF b, c
<1> QED
    BY <1>2, <1>3, <1>4, <1>5

\* A list of distinct structs is no longer than there are structs.
LEMMA LengthBound ==
    ASSUME NEW s \in Seq(Nodes), \A j, k \in 1..Len(s) : s[j] = s[k] => j = k
    PROVE  Len(s) \in Nat /\ Cardinality(Nodes) \in Nat /\ Len(s) <= Cardinality(Nodes)
<1>1. Len(s) \in Nat /\ s \in [1..Len(s) -> Nodes]
    OBVIOUS
<1>2. s \in Injection(1..Len(s), Nodes)
    BY <1>1 DEF Injection, IsInjective
<1>3. Cardinality(1..Len(s)) = Len(s)
    BY <1>1, FS_Interval
<1>4. Cardinality(1..Len(s)) <= Cardinality(Nodes)
    BY <1>2, FS_Injection, QueueAssumption
<1>5. Cardinality(Nodes) \in Nat
    BY FS_CardinalityType, QueueAssumption
<1> QED
    BY <1>1, <1>3, <1>4, <1>5

\* The walk along a list with the first struct f and the links nx.
Further(f, nx, before, k) ==
    IF k = 0 THEN IF f = Null THEN <<>> ELSE <<f>>
    ELSE IF Len(before) < k \/ nx[before[k]] = Null THEN before
         ELSE Append(before, nx[before[k]])

Walk(f, nx) ==
    LET walk[k \in 0..Cardinality(Nodes)] ==
           IF k = 0 THEN IF f = Null THEN <<>> ELSE <<f>>
           ELSE LET before == walk[k - 1] IN
                IF Len(before) < k \/ nx[before[k]] = Null THEN before
                ELSE Append(before, nx[before[k]])
    IN  walk[Cardinality(Nodes)]

LEMMA WalkFinds ==
    ASSUME NEW f, NEW e, NEW nx, NEW s \in Seq(Nodes), Linked(f, e, nx, s)
    PROVE  Walk(f, nx) = s
<1> DEFINE N == Cardinality(Nodes)
           Reach(k) == IF k < Len(s) THEN Pre(s, k + 1) ELSE s
           Is(w) == w = [k \in 0..N |-> Further(f, nx, w[k - 1], k)]
           g == [k \in 0..N |-> Reach(k)]
<1>1. Len(s) \in Nat /\ N \in Nat /\ Len(s) <= N
    BY LengthBound DEF Linked
<1>2. s = <<>> <=> Len(s) = 0
    BY SeqFacts
<1>3. Further(f, nx, g[-1], 0) = Reach(0)
    <2>1. CASE s = <<>>
        BY <1>1, <1>2, <2>1 DEF Further, Linked
    <2>2. CASE s # <<>>
        <3>1. f = s[1] /\ f # Null
            BY <2>2, SeqFacts, QueueAssumption DEF Linked
        <3>2. Reach(0) = Pre(s, 1)
            BY <1>1, <1>2, <2>2
        <3> QED
            BY <2>2, <3>1, <3>2, PreFacts DEF Further
    <2> QED
        BY <2>1, <2>2
<1>4. ASSUME NEW k \in 0..N, k # 0
      PROVE  Further(f, nx, Reach(k - 1), k) = Reach(k)
    <2>0. k \in Nat /\ k >= 1
        BY <1>1, <1>4
    <2>1. CASE k > Len(s)
        <3>1. Reach(k - 1) = s /\ Reach(k) = s
            BY <1>1, <2>0, <2>1
        <3> QED
            BY <1>1, <2>0, <2>1, <3>1 DEF Further
    <2>2. CASE k = Len(s)
        <3>1. Reach(k - 1) = s /\ Reach(k) = s
            BY <1>1, <2>0, <2>2, PreFacts
        <3>2. nx[s[k]] = Null
            BY <2>0, <2>2 DEF Linked
        <3> QED
            BY <2>0, <3>1, <3>2 DEF Further
    <2>3. CASE k < Len(s)
        <3> DEFINE b == Pre(s, k)
        <3>1. Reach(k - 1) = b /\ Reach(k) = Pre(s, k + 1)
            BY <1>1, <2>0, <2>3
        <3>2. k \in 0..Len(s) /\ k \in 1..k /\ k \in 1..Len(s) /\ k + 1 \in 1..Len(s)
            BY <1>1, <2>0, <2>3
        <3>3. Len(b) = k /\ b[k] = s[k] /\ Append(b, s[k + 1]) = Pre(s, k + 1)
            BY <2>3, <3>2, PreFacts
        <3>4. nx[s[k]] = s[k + 1] /\ s[k + 1] # Null
            BY <2>3, <3>2, SeqFacts, QueueAssumption DEF Linked
        <3> HIDE DEF b, Reach
        <3>5. ~(Len(b) < k) /\ nx[b[k]] = s[k + 1]
            BY <2>0, <3>3, <3>4
        <3>6. Further(f, nx, b, k) = Append(b, s[k + 1])
            BY <2>0, <3>4, <3>5 DEF Further
        <3> QED
            BY <3>1, <3>3, <3>6
    <2> QED
        BY <1>1, <2>0, <2>1, <2>2, <2>3
<1>5. Is(g)
    <2>1. \A k \in 0..N : Further(f, nx, g[k - 1], k) = Reach(k)
        <3> SUFFICES ASSUME NEW k \in 0..N PROVE Further(f, nx, g[k - 1], k) = Reach(k)
            OBVIOUS
        <3>1. CASE k = 0
            BY <1>3, <3>1 DEF Further
        <3>2. CASE k # 0
            <4>1. k - 1 \in 0..N
                BY <1>1, <3>2
            <4>2. g[k - 1] = Reach(k - 1)
                BY <4>1
            <4> QED
                BY <1>4, <3>2, <4>2
        <3> QED
            BY <3>1, <3>2
    <2> QED
        BY <2>1
<1> HIDE DEF Reach
<1>6. ASSUME NEW w, Is(w) PROVE w = g
    <2> DEFINE D == {k \in 0..N : w[k] # g[k]}
    <2>1. D = {}
        <3> SUFFICES ASSUME D # {} PROVE FALSE
            OBVIOUS
        <3>1. D \subseteq Nat
            BY <1>1
        <3>2. PICK k \in D : \A y \in D : k <= y
            <4> HIDE DEF D
            <4> QED
                BY <3>1, LeastNat
        <3>3. /\ k \in 0..N /\ w[k] # g[k] /\ w[k] = Further(f, nx, w[k - 1], k)
              /\ g[k] = Further(f, nx, g[k - 1], k)
            BY <1>5, <1>6, <3>2
        <3>4. CASE k = 0
            BY <3>3, <3>4 DEF Further
        <3>5. CASE k # 0
            <4>1. k - 1 \in 0..N /\ ~(k <= k - 1)
                BY <1>1, <3>3, <3>5
            <4>2. k - 1 \notin D
                BY <3>2, <4>1
            <4>3. w[k - 1] = g[k - 1]
                BY <4>1, <4>2
            <4> QED
                BY <3>3, <4>3
        <3> QED
            BY <3>4, <3>5
    <2>2. w = [k \in 0..N |-> w[k]] /\ g = [k \in 0..N |-> g[k]]
        BY <1>6
    <2> QED
        BY <2>1, <2>2
<1>7. g[N] = s
    BY <1>1 DEF Reach
<1>8. Walk(f, nx) = (CHOOSE w : Is(w))[N]
    BY DEF Walk, Further
<1> HIDE DEF g, Is
<1>9. (CHOOSE w : Is(w)) = g
    BY <1>5, <1>6
<1> QED
    BY <1>7, <1>8, <1>9

LEMMA ChainWalks ==
    \A l \in Lists : Chain(l) = Walk(first[l], next) /\ Chain(l)' = Walk(first'[l], next')
BY DEF Chain, Walk

-----------------------------------------------------------------------------
(* Types, and the place of a thread.                                       *)

\* What a thread's place in the code says of its lists and of its got.
PlaceInv ==
    \A t \in Threads :
       /\ pc[t] \in {"create", "take", "put"} => To[t] # NoList
       /\ pc[t] \in {"drain", "recycle"} => From[t] # NoList
       /\ got[t] # Null <=>
             From[t] # NoList /\ pc[t] \in {"create", "take", "put", "recycle"}

\* The lists of a thread are lists.
LEMMA ThreadLists ==
    ASSUME NEW t \in Threads
    PROVE  /\ Null \notin Nodes /\ Null # t /\ Pool \in Lists
           /\ From[t] # NoList => From[t] \in Queues /\ From[t] \in Lists
           /\ To[t] # NoList => To[t] \in Queues /\ To[t] \in Lists
           /\ From[t] # NoList \/ To[t] # NoList
BY QueueAssumption DEF Lists

\* Unlink and Link keep the types of what they write.
LEMMA UnlinkTypes ==
    ASSUME TypeOK, NEW l \in Lists, first[l] # Null, Unlink(l)
    PROVE  /\ first' \in [Lists -> Nodes \union {Null}]
           /\ last' \in [Lists -> Nodes \union {Null}]
           /\ next' \in [Nodes -> Nodes \union {Null}]
<1>1. next[first[l]] \in Nodes \union {Null}
    BY DEF TypeOK
<1> QED
    BY <1>1 DEF TypeOK, Unlink

LEMMA LinkTypes ==
    ASSUME TypeOK, NEW l \in Lists, NEW n \in Nodes, Link(n, l)
    PROVE  /\ first' \in [Lists -> Nodes \union {Null}]
           /\ last' \in [Lists -> Nodes \union {Null}]
           /\ next' \in [Nodes -> Nodes \union {Null}]
BY DEF TypeOK, Link

LEMMA TypeInit == Init => TypeOK /\ PlaceInv
BY ZenonT(60), QueueAssumption DEF Init, TypeOK, PlaceInv

LEMMA TypeStep ==
    ASSUME TypeOK, PlaceInv, NEW t \in Threads, Step(t)
    PROVE  TypeOK' /\ PlaceInv'
<1>0. /\ Null \notin Nodes /\ Null # t /\ Pool \in Lists
      /\ From[t] # NoList => From[t] \in Queues /\ From[t] \in Lists
      /\ To[t] # NoList => To[t] \in Queues /\ To[t] \in Lists
      /\ From[t] # NoList \/ To[t] # NoList
    BY ThreadLists
<1>1. CASE Begin(t)
    BY <1>0, <1>1 DEF Begin, listVars, TypeOK, PlaceInv
<1>2. CASE Malloc(t)
    <2>1. PICK n \in fresh, link \in Nodes \union {Null} :
             /\ made' = [made EXCEPT ![t] = n]
             /\ next' = [next EXCEPT ![n] = link]
             /\ fresh' = fresh \ {n}
        BY <1>2 DEF Malloc
    <2>2. n \in Nodes /\ n # Null
        BY <1>0 DEF TypeOK
    <2> QED
        BY <1>0, <1>2, <2>1, <2>2 DEF Malloc, TypeOK, PlaceInv
<1>3. CASE SeePool(t)
    BY <1>0, <1>3 DEF SeePool, listVars, TypeOK, PlaceInv
<1>4. CASE Take(t)
    <2>1. /\ first' \in [Lists -> Nodes \union {Null}]
          /\ last' \in [Lists -> Nodes \union {Null}]
          /\ next' \in [Nodes -> Nodes \union {Null}]
        BY <1>0, <1>4, UnlinkTypes DEF Take
    <2>2. first[Pool] \in Nodes \union {Null}
        BY <1>0 DEF TypeOK
    <2> QED
        BY <1>0, <1>4, <2>1, <2>2 DEF Take, TypeOK, PlaceInv
<1>5. CASE TakeNull(t)
    BY <1>5 DEF TakeNull, listVars, threadVars, TypeOK, PlaceInv
<1>6. CASE Put(t)
    <2>1. made[t] \in Nodes /\ To[t] \in Lists
        BY <1>0, <1>6 DEF Put, TypeOK, PlaceInv
    <2>2. /\ first' \in [Lists -> Nodes \union {Null}]
          /\ last' \in [Lists -> Nodes \union {Null}]
          /\ next' \in [Nodes -> Nodes \union {Null}]
        BY <1>6, <2>1, LinkTypes DEF Put
    <2> QED
        BY <1>0, <1>6, <2>1, <2>2 DEF Put, TypeOK, PlaceInv
<1>7. CASE Lock(t)
    <2>1. From[t] \in Queues
        BY <1>0, <1>7 DEF Lock
    <2>2. \A u \in Threads : u # t /\ From[u] = From[t] => pc[u] = "idle"
        BY <1>7, ThreadLists DEF Lock, TypeOK
    <2> QED
        BY <1>0, <1>7, <2>1, <2>2, ThreadLists DEF Lock, listVars, TypeOK, PlaceInv
<1>8. CASE Get(t)
    <2>1. From[t] \in Lists
        BY <1>0, <1>8 DEF Get, PlaceInv
    <2>2. /\ first' \in [Lists -> Nodes \union {Null}]
          /\ last' \in [Lists -> Nodes \union {Null}]
          /\ next' \in [Nodes -> Nodes \union {Null}]
        BY <1>8, <2>1, UnlinkTypes DEF Get
    <2>3. first[From[t]] \in Nodes \union {Null}
        BY <2>1 DEF TypeOK
    <2> QED
        BY <1>0, <1>8, <2>1, <2>2, <2>3 DEF Get, TypeOK, PlaceInv
<1>9. CASE Unlock(t)
    <2>1. From[t] \in Queues /\ lock[From[t]] = t
        BY <1>0, <1>9 DEF Unlock, TypeOK, PlaceInv
    <2> QED
        BY <1>0, <1>9, <2>1, ThreadLists DEF Unlock, listVars, TypeOK, PlaceInv
<1>10. CASE Recycle(t)
    <2>1. got[t] \in Nodes
        BY <1>0, <1>10 DEF Recycle, TypeOK, PlaceInv
    <2>2. /\ first' \in [Lists -> Nodes \union {Null}]
          /\ last' \in [Lists -> Nodes \union {Null}]
          /\ next' \in [Nodes -> Nodes \union {Null}]
        BY <1>0, <1>10, <2>1, LinkTypes DEF Recycle
    <2> QED
        BY <1>0, <1>10, <2>1, <2>2 DEF Recycle, TypeOK, PlaceInv
<1> QED
    BY <1>1, <1>2, <1>3, <1>4, <1>5, <1>6, <1>7, <1>8, <1>9, <1>10 DEF Step

LEMMA TypeNext == TypeOK /\ PlaceInv /\ [Next]_vars => TypeOK' /\ PlaceInv'
<1> SUFFICES ASSUME TypeOK, PlaceInv, [Next]_vars PROVE TypeOK' /\ PlaceInv'
    OBVIOUS
<1>1. CASE Next
    BY <1>1, TypeStep DEF Next
<1>2. CASE UNCHANGED vars
    BY <1>2 DEF vars, listVars, threadVars, TypeOK, PlaceInv
<1> QED
    BY <1>1, <1>2

\* Every variable has its type, a thread holds a created struct exactly where it
\* is about to put it, and a queue's mutex belongs to the thread that drains it
\* (CommandQueue.c and its callers).
THEOREM QueueTypeCorrect == Spec => []TypeOK
<1>1. Spec => [](TypeOK /\ PlaceInv)
    BY TypeInit, TypeNext, PTL DEF Spec
<1> QED
    BY <1>1, PTL

-----------------------------------------------------------------------------
(* Where the structs are: the inductive invariant of the lists.            *)

\* The lists with ends fi, la and links nx hold the sequences c; what the hands
\* hd hold and the structs fr, which malloc has not returned, are elsewhere, and
\* no two hands hold the same struct.
Arrangement(c, fi, la, nx, hd, fr) ==
    /\ c \in [Lists -> Seq(Nodes)]
    /\ \A l \in Lists : Linked(fi[l], la[l], nx, c[l])
    /\ \A l, m \in Lists : l # m =>
          \A j \in 1..Len(c[l]), k \in 1..Len(c[m]) : c[l][j] # c[m][k]
    /\ \A l \in Lists : \A k \in 1..Len(c[l]) :
          c[l][k] \notin fr /\ \A h \in HandNames : c[l][k] # hd[h]
    /\ \A h \in HandNames : hd[h] \notin fr
    /\ \A g, h \in HandNames : hd[g] # Null /\ hd[g] = hd[h] => g = h

Held == [h \in HandNames |-> Hand(h)]

Arranged(c) == Arrangement(c, first, last, next, Held, fresh)

LEMMA HeldType == TypeOK => Held \in [HandNames -> Nodes \union {Null}]
BY DEF TypeOK, Held, Hand, HandNames

LEMMA ArrangedFirst ==
    ASSUME NEW fi, NEW la, NEW nx, NEW hd, NEW fr,
           NEW c, Arrangement(c, fi, la, nx, hd, fr), NEW l \in Lists
    PROVE  /\ c[l] \in Seq(Nodes)
           /\ fi[l] = Null <=> c[l] = <<>>
           /\ fi[l] # Null => fi[l] = c[l][1] /\ fi[l] = Head(c[l]) /\ fi[l] \in Nodes
<1> DEFINE s == c[l]
<1>1. s \in Seq(Nodes) /\ Linked(fi[l], la[l], nx, s)
    BY DEF Arrangement
<1> HIDE DEF s
<1>2. s = <<>> => fi[l] = Null
    BY <1>1 DEF Linked
<1>3. s # <<>> => fi[l] = s[1] /\ s[1] \in Nodes /\ Head(s) = s[1]
    BY <1>1, SeqFacts, TailFacts DEF Linked
<1> QED
    BY <1>1, <1>2, <1>3, QueueAssumption DEF s

\* getCommand: the first struct of l goes from the list to the empty hand h.
LEMMA ArrangedGet ==
    ASSUME NEW fi \in [Lists -> Nodes \union {Null}],
           NEW la \in [Lists -> Nodes \union {Null}],
           NEW nx \in [Nodes -> Nodes \union {Null}],
           NEW hd \in [HandNames -> Nodes \union {Null}], NEW fr \in SUBSET Nodes,
           NEW c, Arrangement(c, fi, la, nx, hd, fr),
           NEW l \in Lists, fi[l] # Null, NEW h \in HandNames, hd[h] = Null
    PROVE  Arrangement([c EXCEPT ![l] = Tail(@)],
                       [fi EXCEPT ![l] = nx[fi[l]]],
                       IF nx[fi[l]] = Null THEN [la EXCEPT ![l] = Null] ELSE la,
                       nx, [hd EXCEPT ![h] = fi[l]], fr)
<1> DEFINE n == fi[l]
           s == c[l]
           r == Tail(s)
           d == [c EXCEPT ![l] = r]
           fj == [fi EXCEPT ![l] = nx[n]]
           lb == IF nx[n] = Null THEN [la EXCEPT ![l] = Null] ELSE la
           he == [hd EXCEPT ![h] = n]
<1>1. /\ s \in Seq(Nodes) /\ s # <<>> /\ n = s[1] /\ n \in Nodes
      /\ Linked(n, la[l], nx, s)
    <2>1. s \in Seq(Nodes) /\ s # <<>> /\ n = s[1] /\ n \in Nodes
        BY ArrangedFirst
    <2>2. Linked(n, la[l], nx, s)
        BY DEF Arrangement
    <2> QED
        BY <2>1, <2>2
<1>2. /\ r \in Seq(Nodes) /\ Len(r) = Len(s) - 1
      /\ \A k \in 1..Len(r) : r[k] = s[k + 1]
    BY <1>1, TailFacts
<1>3. Linked(nx[n], IF nx[n] = Null THEN Null ELSE la[l], nx, r)
    BY <1>1, LinkedTail
<1>4. Len(s) \in Nat /\ Len(r) \in Nat /\ 1 \in 1..Len(s)
    BY <1>1, <1>2, SeqFacts
<1>5. \A k \in 1..Len(r) : k + 1 \in 1..Len(s) /\ r[k] = s[k + 1] /\ r[k] # n
    <2> SUFFICES ASSUME NEW k \in 1..Len(r)
                 PROVE  k + 1 \in 1..Len(s) /\ r[k] = s[k + 1] /\ r[k] # n
        OBVIOUS
    <2> DEFINE a == Len(s)
               b == Len(r)
    <2>1. a \in Nat /\ b \in Nat /\ b = a - 1 /\ k \in 1..b
        BY <1>2, <1>4
    <2> HIDE DEF a, b
    <2>2. k + 1 \in 1..a /\ k + 1 # 1
        BY <2>1
    <2>3. s[k + 1] # s[1]
        BY <1>1, <1>4, <2>2 DEF Linked, a
    <2> QED
        BY <1>1, <1>2, <2>2, <2>3 DEF a
<1>6. /\ d \in [Lists -> Seq(Nodes)] /\ d[l] = r
      /\ \A m \in Lists : m # l => d[m] = c[m] /\ fj[m] = fi[m] /\ lb[m] = la[m]
      /\ fj[l] = nx[n] /\ lb[l] = IF nx[n] = Null THEN Null ELSE la[l]
      /\ he[h] = n /\ \A g \in HandNames : g # h => he[g] = hd[g]
    BY <1>2 DEF Arrangement
<1>7. \A m \in Lists : Linked(fi[m], la[m], nx, c[m])
    BY DEF Arrangement
<1>8. \A m \in Lists : \A k \in 1..Len(d[m]) :
         \E j \in 1..Len(c[m]) : d[m][k] = c[m][j] /\ c[m][j] # n
    <2> SUFFICES ASSUME NEW m \in Lists, NEW k \in 1..Len(d[m])
                 PROVE  \E j \in 1..Len(c[m]) : d[m][k] = c[m][j] /\ c[m][j] # n
        OBVIOUS
    <2>1. CASE m = l
        BY <1>5, <1>6, <2>1
    <2>2. CASE m # l
        <3>1. d[m] = c[m] /\ c[m][k] # c[l][1]
            BY <1>4, <1>6, <2>2 DEF Arrangement
        <3> QED
            BY <1>1, <3>1
    <2> QED
        BY <2>1, <2>2
<1>9. n \notin fr /\ \A g \in HandNames : hd[g] # n
    BY <1>1, <1>4 DEF Arrangement
<1> HIDE DEF d, fj, lb, he, r
<1>10. \A m \in Lists : Linked(fj[m], lb[m], nx, d[m])
    <2> SUFFICES ASSUME NEW m \in Lists PROVE Linked(fj[m], lb[m], nx, d[m])
        OBVIOUS
    <2>1. CASE m = l
        BY <1>3, <1>6, <2>1
    <2>2. CASE m # l
        BY <1>6, <1>7, <2>2
    <2> QED
        BY <2>1, <2>2
<1>11. \A i, m \in Lists : i # m =>
          \A j \in 1..Len(d[i]), k \in 1..Len(d[m]) : d[i][j] # d[m][k]
    <2> SUFFICES ASSUME NEW i \in Lists, NEW m \in Lists, i # m,
                        NEW j \in 1..Len(d[i]), NEW k \in 1..Len(d[m])
                 PROVE  d[i][j] # d[m][k]
        OBVIOUS
    <2>1. PICK a \in 1..Len(c[i]) : d[i][j] = c[i][a]
        BY <1>8
    <2>2. PICK b \in 1..Len(c[m]) : d[m][k] = c[m][b]
        BY <1>8
    <2> QED
        BY <2>1, <2>2 DEF Arrangement
<1>12. \A m \in Lists : \A k \in 1..Len(d[m]) :
          d[m][k] \notin fr /\ \A g \in HandNames : d[m][k] # he[g]
    <2> SUFFICES ASSUME NEW m \in Lists, NEW k \in 1..Len(d[m])
                 PROVE  d[m][k] \notin fr /\ \A g \in HandNames : d[m][k] # he[g]
        OBVIOUS
    <2>1. PICK a \in 1..Len(c[m]) : d[m][k] = c[m][a] /\ c[m][a] # n
        BY <1>8
    <2>2. c[m][a] \notin fr /\ \A g \in HandNames : c[m][a] # hd[g]
        BY DEF Arrangement
    <2> QED
        BY <1>6, <2>1, <2>2
<1>13. \A g \in HandNames : he[g] \notin fr
    BY <1>6, <1>9 DEF Arrangement
<1>14. \A g, i \in HandNames : he[g] # Null /\ he[g] = he[i] => g = i
    <2> SUFFICES ASSUME NEW g \in HandNames, NEW i \in HandNames,
                        he[g] # Null, he[g] = he[i]
                 PROVE  g = i
        OBVIOUS
    <2>1. CASE g # h /\ i # h
        BY <1>6, <2>1 DEF Arrangement
    <2>2. CASE g = h \/ i = h
        BY <1>6, <1>9, <2>2
    <2> QED
        BY <2>1, <2>2
<1>15. d \in [Lists -> Seq(Nodes)]
    BY <1>6
<1>16. Arrangement(d, fj, lb, nx, he, fr)
    BY <1>10, <1>11, <1>12, <1>13, <1>14, <1>15 DEF Arrangement
<1> QED
    BY <1>16 DEF d, fj, lb, he, r

\* The first structs when n is linked behind the list l.
Starts(fi, l, n) == IF fi[l] = Null THEN [fi EXCEPT ![l] = n] ELSE fi

\* putCommand: the struct in the hand h goes to the end of l.
LEMMA ArrangedPut ==
    ASSUME NEW fi \in [Lists -> Nodes \union {Null}],
           NEW la \in [Lists -> Nodes \union {Null}],
           NEW nx \in [Nodes -> Nodes \union {Null}],
           NEW hd \in [HandNames -> Nodes \union {Null}], NEW fr \in SUBSET Nodes,
           NEW c, Arrangement(c, fi, la, nx, hd, fr),
           NEW l \in Lists, NEW h \in HandNames, NEW n \in Nodes, hd[h] = n
    PROVE  Arrangement([c EXCEPT ![l] = Append(@, n)],
                       Starts(fi, l, n), [la EXCEPT ![l] = n],
                       Behind(nx, fi[l], la[l], n),
                       [hd EXCEPT ![h] = Null], fr)
<1> DEFINE s == c[l]
           a == Append(s, n)
           d == [c EXCEPT ![l] = a]
           fj == Starts(fi, l, n)
           lb == [la EXCEPT ![l] = n]
           my == Behind(nx, fi[l], la[l], n)
           he == [hd EXCEPT ![h] = Null]
<1>1. /\ c \in [Lists -> Seq(Nodes)]
      /\ \A m \in Lists : c[m] \in Seq(Nodes) /\ Linked(fi[m], la[m], nx, c[m])
    BY DEF Arrangement
<1>2. \A m \in Lists : \A k \in 1..Len(c[m]) : c[m][k] # n
    BY DEF Arrangement
<1>3. /\ \A m \in Nodes : m # n /\ (fi[l] # Null => m # la[l]) => my[m] = nx[m]
      /\ fi[l] # Null => la[l] \in Nodes /\ \E k \in 1..Len(s) : la[l] = s[k]
      /\ Linked(IF fi[l] = Null THEN n ELSE fi[l], n, my, a)
    <2>1. s \in Seq(Nodes) /\ Linked(fi[l], la[l], nx, s) /\ \A k \in 1..Len(s) : s[k] # n
        BY <1>1, <1>2
    <2> HIDE DEF s
    <2>2. nx \in Links
        BY DEF Links
    <2>3. Linked(IF fi[l] = Null THEN n ELSE fi[l], n, my, a)
        BY <2>1, <2>2, LinkedAppend
    <2>4. fi[l] # Null => la[l] \in Nodes /\ \E k \in 1..Len(s) : la[l] = s[k]
        BY <2>1, LinkedLast
    <2>5. \A m \in Nodes : m # n /\ (fi[l] # Null => m # la[l]) => my[m] = nx[m]
        BY <2>4 DEF Behind
    <2> QED
        BY <2>3, <2>4, <2>5
<1>4. /\ a \in Seq(Nodes) /\ Len(a) = Len(s) + 1
      /\ \A k \in 1..Len(s) : a[k] = s[k]
      /\ a[Len(s) + 1] = n
    BY <1>1, AppendFacts
<1>5. Len(s) \in Nat
    BY <1>1
<1>6. /\ d \in [Lists -> Seq(Nodes)] /\ d[l] = a
      /\ \A m \in Lists : m # l => d[m] = c[m] /\ fj[m] = fi[m] /\ lb[m] = la[m]
      /\ fj[l] = (IF fi[l] = Null THEN n ELSE fi[l]) /\ lb[l] = n
      /\ he[h] = Null /\ \A g \in HandNames : g # h => he[g] = hd[g]
    BY <1>1, <1>4 DEF Starts
<1>7. Null # n /\ n \notin fr /\ Null \notin fr /\ \A g \in HandNames : g # h => hd[g] # n
    BY QueueAssumption DEF Arrangement
\* What is in a list now was in it before, or is n.
<1>8. \A m \in Lists : \A k \in 1..Len(d[m]) :
         \/ m = l /\ d[m][k] = n
         \/ \E j \in 1..Len(c[m]) : d[m][k] = c[m][j]
    <2> SUFFICES ASSUME NEW m \in Lists, NEW k \in 1..Len(d[m]), m = l
                 PROVE  d[m][k] = n \/ \E j \in 1..Len(c[m]) : d[m][k] = c[m][j]
        BY <1>6
    <2> DEFINE x == Len(s)
    <2>1. x \in Nat /\ k \in 1..(x + 1)
        BY <1>4, <1>5, <1>6
    <2>2. \A j \in 1..x : a[j] = s[j]
        BY <1>4
    <2>3. a[x + 1] = n
        BY <1>4
    <2> HIDE DEF x, a, d
    <2>4. k \in 1..x \/ k = x + 1
        BY <2>1
    <2> QED
        BY <1>6, <2>2, <2>3, <2>4 DEF x
<1>9. \A m \in Lists : m # l => \A k \in 1..Len(c[m]) : my[c[m][k]] = nx[c[m][k]]
    <2> SUFFICES ASSUME NEW m \in Lists, m # l, NEW k \in 1..Len(c[m])
                 PROVE  my[c[m][k]] = nx[c[m][k]]
        OBVIOUS
    <2>1. c[m][k] \in Nodes /\ c[m][k] # n
        BY <1>1, <1>2
    <2>2. fi[l] # Null => c[m][k] # la[l]
        BY <1>3 DEF Arrangement
    <2> HIDE DEF my
    <2> QED
        BY <1>3, <2>1, <2>2
<1> HIDE DEF d, fj, lb, my, he, a
<1>10. \A m \in Lists : Linked(fj[m], lb[m], my, d[m])
    <2> SUFFICES ASSUME NEW m \in Lists PROVE Linked(fj[m], lb[m], my, d[m])
        OBVIOUS
    <2>1. CASE m = l
        BY <1>3, <1>6, <2>1
    <2>2. CASE m # l
        <3>1. Linked(fi[m], la[m], my, c[m])
            BY <1>1, <1>9, <2>2, LinkedElsewhere
        <3> QED
            BY <1>6, <2>2, <3>1
    <2> QED
        BY <2>1, <2>2
<1>11. \A i, m \in Lists : i # m =>
          \A j \in 1..Len(d[i]), k \in 1..Len(d[m]) : d[i][j] # d[m][k]
    <2> SUFFICES ASSUME NEW i \in Lists, NEW m \in Lists, i # m,
                        NEW j \in 1..Len(d[i]), NEW k \in 1..Len(d[m]),
                        d[i][j] = d[m][k]
                 PROVE  FALSE
        OBVIOUS
    <2>1. /\ (i = l /\ d[i][j] = n) \/ \E x \in 1..Len(c[i]) : d[i][j] = c[i][x]
          /\ (m = l /\ d[m][k] = n) \/ \E x \in 1..Len(c[m]) : d[m][k] = c[m][x]
        BY <1>8
    <2>2. \A x \in 1..Len(c[i]), y \in 1..Len(c[m]) : c[i][x] # c[m][y]
        BY DEF Arrangement
    <2> QED
        BY <1>2, <2>1, <2>2
<1>12. \A m \in Lists : \A k \in 1..Len(d[m]) :
          d[m][k] \notin fr /\ \A g \in HandNames : d[m][k] # he[g]
    <2> SUFFICES ASSUME NEW m \in Lists, NEW k \in 1..Len(d[m])
                 PROVE  d[m][k] \notin fr /\ \A g \in HandNames : d[m][k] # he[g]
        OBVIOUS
    <2>1. CASE d[m][k] = n
        BY <1>6, <1>7, <2>1
    <2>2. ASSUME NEW x \in 1..Len(c[m]), d[m][k] = c[m][x]
          PROVE  d[m][k] \notin fr /\ \A g \in HandNames : d[m][k] # he[g]
        <3>1. c[m][x] \notin fr /\ \A g \in HandNames : c[m][x] # hd[g]
            BY DEF Arrangement
        <3>2. c[m][x] \in Nodes
            BY <1>1
        <3>3. c[m][x] # Null
            BY <3>2, QueueAssumption
        <3> QED
            BY <1>6, <2>2, <3>1, <3>3
    <2> QED
        BY <1>8, <2>1, <2>2
<1>13. \A g \in HandNames : he[g] \notin fr
    BY <1>6, <1>7 DEF Arrangement
<1>14. \A g, i \in HandNames : he[g] # Null /\ he[g] = he[i] => g = i
    <2> SUFFICES ASSUME NEW g \in HandNames, NEW i \in HandNames,
                        he[g] # Null, he[g] = he[i]
                 PROVE  g = i
        OBVIOUS
    <2>1. g # h /\ i # h
        BY <1>6
    <2> QED
        BY <1>6, <2>1 DEF Arrangement
<1>15. Arrangement(d, fj, lb, my, he, fr)
    BY <1>6, <1>10, <1>11, <1>12, <1>13, <1>14 DEF Arrangement
<1> QED
    BY <1>15 DEF d, fj, lb, my, he, a

\* malloc: the struct n, whose link may be anything, goes to the empty hand h.
LEMMA ArrangedMalloc ==
    ASSUME NEW fi \in [Lists -> Nodes \union {Null}],
           NEW la \in [Lists -> Nodes \union {Null}],
           NEW nx \in [Nodes -> Nodes \union {Null}],
           NEW hd \in [HandNames -> Nodes \union {Null}], NEW fr \in SUBSET Nodes,
           NEW c, Arrangement(c, fi, la, nx, hd, fr),
           NEW h \in HandNames, hd[h] = Null,
           NEW n \in fr, NEW link \in Nodes \union {Null}
    PROVE  Arrangement(c, fi, la, [nx EXCEPT ![n] = link],
                       [hd EXCEPT ![h] = n], fr \ {n})
<1> DEFINE my == [nx EXCEPT ![n] = link]
           he == [hd EXCEPT ![h] = n]
<1>1. /\ c \in [Lists -> Seq(Nodes)]
      /\ \A m \in Lists : c[m] \in Seq(Nodes) /\ Linked(fi[m], la[m], nx, c[m])
      /\ \A m \in Lists : \A k \in 1..Len(c[m]) : c[m][k] \in Nodes /\ c[m][k] # n
    BY DEF Arrangement
<1>2. /\ \A m \in Nodes : m # n => my[m] = nx[m]
      /\ he[h] = n /\ \A g \in HandNames : g # h => he[g] = hd[g]
      /\ \A g \in HandNames : hd[g] # n
    BY DEF Arrangement
<1> HIDE DEF my, he
<1>3. \A m \in Lists : Linked(fi[m], la[m], my, c[m])
    <2> SUFFICES ASSUME NEW m \in Lists PROVE Linked(fi[m], la[m], my, c[m])
        OBVIOUS
    <2>1. \A k \in 1..Len(c[m]) : my[c[m][k]] = nx[c[m][k]]
        BY <1>1, <1>2
    <2> QED
        BY <1>1, <2>1, LinkedElsewhere
<1>4. \A g, i \in HandNames : he[g] # Null /\ he[g] = he[i] => g = i
    <2> SUFFICES ASSUME NEW g \in HandNames, NEW i \in HandNames,
                        he[g] # Null, he[g] = he[i]
                 PROVE  g = i
        OBVIOUS
    <2>1. CASE g # h /\ i # h
        BY <1>2, <2>1 DEF Arrangement
    <2>2. CASE g = h \/ i = h
        BY <1>2, <2>2
    <2> QED
        BY <2>1, <2>2
<1>5. \A m \in Lists : \A k \in 1..Len(c[m]) :
         c[m][k] \notin fr \ {n} /\ \A g \in HandNames : c[m][k] # he[g]
    BY <1>1, <1>2 DEF Arrangement
<1>6. \A g \in HandNames : he[g] \notin fr \ {n}
    BY <1>2 DEF Arrangement
<1>7. Arrangement(c, fi, la, my, he, fr \ {n})
    BY <1>3, <1>4, <1>5, <1>6 DEF Arrangement
<1> QED
    BY <1>7 DEF my, he

-----------------------------------------------------------------------------
(* Every step keeps an arrangement, and is a step of the sequences.        *)

\* The structs in the hands hd.
Holding(hd) == {hd[h] : h \in HandNames} \ {Null}

LEMMA HoldingMore ==
    ASSUME NEW hd \in [HandNames -> Nodes \union {Null}],
           NEW h \in HandNames, hd[h] = Null, NEW n \in Nodes
    PROVE  Holding([hd EXCEPT ![h] = n]) = Holding(hd) \union {n}
<1> DEFINE he == [hd EXCEPT ![h] = n]
<1>1. he[h] = n /\ (\A g \in HandNames : g # h => he[g] = hd[g]) /\ n # Null
    BY QueueAssumption
<1> HIDE DEF he
<1>2. Holding(he) = Holding(hd) \union {n}
    BY <1>1 DEF Holding
<1> QED
    BY <1>2 DEF he

LEMMA HoldingLess ==
    ASSUME NEW hd \in [HandNames -> Nodes \union {Null}],
           \A g, h \in HandNames : hd[g] # Null /\ hd[g] = hd[h] => g = h,
           NEW h \in HandNames, hd[h] # Null
    PROVE  /\ Holding([hd EXCEPT ![h] = Null]) = Holding(hd) \ {hd[h]}
           /\ hd[h] \in Holding(hd)
<1> DEFINE he == [hd EXCEPT ![h] = Null]
<1>1. he[h] = Null /\ \A g \in HandNames : g # h => he[g] = hd[g] /\ hd[g] # hd[h]
    OBVIOUS
<1> HIDE DEF he
<1>2. Holding(he) = Holding(hd) \ {hd[h]}
    BY <1>1 DEF Holding
<1>3. hd[h] \in Holding(hd)
    BY DEF Holding
<1> QED
    BY <1>2, <1>3 DEF he

\* A step of the lists from c to d, of the hands from hs to ht, of the structs
\* malloc has left from fr to fs.
Moves(c, d, hs, ht, fr, fs) ==
    \/ d = c /\ ht = hs /\ fs = fr
    \/ \E n \in fr : d = c /\ ht = hs \union {n} /\ fs = fr \ {n}
    \/ \E l \in Lists : /\ c[l] # <<>> /\ ht = hs \union {Head(c[l])}
                        /\ d = [c EXCEPT ![l] = Tail(@)] /\ fs = fr
    \/ \E n \in hs, l \in Lists : /\ ht = hs \ {n}
                                  /\ d = [c EXCEPT ![l] = Append(@, n)] /\ fs = fr

Advances(c, d) ==
    Arranged(d)' /\ Moves(c, d, Holding(Held), Holding(Held)', fresh, fresh')

LEMMA HandFacts ==
    ASSUME TypeOK, NEW t \in Threads
    PROVE  /\ <<"made", t>> \in HandNames /\ <<"got", t>> \in HandNames
           /\ Held[<<"made", t>>] = made[t] /\ Held[<<"got", t>>] = got[t]
BY DEF Held, Hand, HandNames

\* What Held becomes when one hand changes.
LEMMA HeldMade ==
    ASSUME TypeOK, NEW t \in Threads, NEW n,
           made' = [made EXCEPT ![t] = n], got' = got
    PROVE  Held' = [Held EXCEPT ![<<"made", t>>] = n]
<1>1. \A u \in Threads : made'[u] = (IF u = t THEN n ELSE made[u])
    BY DEF TypeOK
<1>2. Held' = [h \in HandNames |->
                  IF h[1] = "made" THEN made'[h[2]] ELSE got[h[2]]]
    BY DEF Held, Hand
<1>3. [Held EXCEPT ![<<"made", t>>] = n] =
          [h \in HandNames |-> IF h = <<"made", t>> THEN n ELSE Held[h]]
    BY DEF Held
<1>4. ASSUME NEW h \in HandNames
      PROVE  (IF h[1] = "made" THEN made'[h[2]] ELSE got[h[2]]) =
                (IF h = <<"made", t>> THEN n ELSE Held[h])
    <2>1. PICK x \in {"made", "got"}, u \in Threads : h = <<x, u>>
        BY DEF HandNames
    <2>2. Held[h] = IF x = "made" THEN made[u] ELSE got[u]
        BY <2>1 DEF Held, Hand
    <2> QED
        BY <1>1, <2>1, <2>2
<1> QED
    BY <1>2, <1>3, <1>4

LEMMA HeldGot ==
    ASSUME TypeOK, NEW t \in Threads, NEW n,
           got' = [got EXCEPT ![t] = n], made' = made
    PROVE  Held' = [Held EXCEPT ![<<"got", t>>] = n]
<1>1. \A u \in Threads : got'[u] = (IF u = t THEN n ELSE got[u])
    BY DEF TypeOK
<1>2. Held' = [h \in HandNames |->
                  IF h[1] = "made" THEN made[h[2]] ELSE got'[h[2]]]
    BY DEF Held, Hand
<1>3. [Held EXCEPT ![<<"got", t>>] = n] =
          [h \in HandNames |-> IF h = <<"got", t>> THEN n ELSE Held[h]]
    BY DEF Held
<1>4. ASSUME NEW h \in HandNames
      PROVE  (IF h[1] = "made" THEN made[h[2]] ELSE got'[h[2]]) =
                (IF h = <<"got", t>> THEN n ELSE Held[h])
    <2>1. PICK x \in {"made", "got"}, u \in Threads : h = <<x, u>>
        BY DEF HandNames
    <2>2. Held[h] = IF x = "made" THEN made[u] ELSE got[u]
        BY <2>1 DEF Held, Hand
    <2> QED
        BY <1>1, <2>1, <2>2
<1> QED
    BY <1>2, <1>3, <1>4

\* Steps that move no struct.
LEMMA StayStep ==
    ASSUME NEW c, Arranged(c), UNCHANGED <<first, last, next, fresh, made, got>>
    PROVE  Advances(c, c)
BY DEF Arranged, Advances, Moves, Held, Hand

\* A hand h that holds nothing gets the first struct of l.
LEMMA UnlinkStep ==
    ASSUME TypeOK, NEW c, Arranged(c), NEW l \in Lists, first[l] # Null, Unlink(l),
           NEW h \in HandNames, Held[h] = Null,
           Held' = [Held EXCEPT ![h] = first[l]], fresh' = fresh
    PROVE  Advances(c, [c EXCEPT ![l] = Tail(@)])
<1> DEFINE d == [c EXCEPT ![l] = Tail(@)]
<1>1. /\ first \in [Lists -> Nodes \union {Null}]
      /\ last \in [Lists -> Nodes \union {Null}]
      /\ next \in [Nodes -> Nodes \union {Null}]
      /\ Held \in [HandNames -> Nodes \union {Null}] /\ fresh \in SUBSET Nodes
    BY HeldType DEF TypeOK
<1>2. Arrangement(d, first', last', next', Held', fresh')
    <2>1. Arrangement(c, first, last, next, Held, fresh)
        BY DEF Arranged
    <2>2. Arrangement(d, [first EXCEPT ![l] = next[first[l]]],
                      IF next[first[l]] = Null THEN [last EXCEPT ![l] = Null] ELSE last,
                      next, [Held EXCEPT ![h] = first[l]], fresh)
        BY <1>1, <2>1, ArrangedGet
    <2> HIDE DEF d
    <2> QED
        BY <2>2 DEF Unlink
<1>3. c[l] # <<>> /\ first[l] = Head(c[l]) /\ first[l] \in Nodes
    BY ArrangedFirst DEF Arranged
<1>4. Holding(Held') = Holding(Held) \union {first[l]}
    BY ZenonT(60), <1>1, <1>3, HoldingMore
<1> QED
    BY <1>2, <1>3, <1>4 DEF Advances, Arranged, Moves, Holding

\* The struct n in the hand h is put on l.
LEMMA LinkStep ==
    ASSUME TypeOK, NEW c, Arranged(c), NEW l \in Lists, NEW n \in Nodes, Link(n, l),
           NEW h \in HandNames, Held[h] = n,
           Held' = [Held EXCEPT ![h] = Null], fresh' = fresh
    PROVE  Advances(c, [c EXCEPT ![l] = Append(@, n)])
<1> DEFINE d == [c EXCEPT ![l] = Append(@, n)]
<1>1. /\ first \in [Lists -> Nodes \union {Null}]
      /\ last \in [Lists -> Nodes \union {Null}]
      /\ next \in [Nodes -> Nodes \union {Null}]
      /\ Held \in [HandNames -> Nodes \union {Null}] /\ fresh \in SUBSET Nodes
    BY HeldType DEF TypeOK
<1>2. Arrangement(d, first', last', next', Held', fresh')
    <2>1. Arrangement(c, first, last, next, Held, fresh)
        BY DEF Arranged
    <2>2. Arrangement(d, Starts(first, l, n), [last EXCEPT ![l] = n], Behind(next, first[l], last[l], n),
                      [Held EXCEPT ![h] = Null], fresh)
        BY <1>1, <2>1, ArrangedPut
    <2> HIDE DEF d
    <2> QED
        BY <2>2 DEF Link, Behind, Starts
<1>3. \A g, i \in HandNames : Held[g] # Null /\ Held[g] = Held[i] => g = i
    BY DEF Arranged, Arrangement
<1>4. Holding(Held') = Holding(Held) \ {n} /\ n \in Holding(Held)
    BY <1>1, <1>3, HoldingLess, QueueAssumption
<1> QED
    BY <1>2, <1>4 DEF Advances, Arranged, Moves, Holding

LEMMA ArrangedStep ==
    ASSUME TypeOK, PlaceInv, NEW c, Arranged(c), NEW t \in Threads, Step(t)
    PROVE  \E d : Advances(c, d)
<1>0. /\ <<"made", t>> \in HandNames /\ <<"got", t>> \in HandNames
      /\ Held[<<"made", t>>] = made[t] /\ Held[<<"got", t>>] = got[t]
    BY HandFacts
<1>1. /\ Null \notin Nodes /\ Null # t /\ Pool \in Lists
      /\ From[t] # NoList => From[t] \in Queues /\ From[t] \in Lists
      /\ To[t] # NoList => To[t] \in Queues /\ To[t] \in Lists
    BY ThreadLists
<1>2. CASE Begin(t) \/ SeePool(t) \/ TakeNull(t) \/ Lock(t) \/ Unlock(t)
    <2>1. UNCHANGED <<first, last, next, fresh, made, got>>
        BY <1>2 DEF Begin, SeePool, TakeNull, Lock, Unlock, listVars, threadVars
    <2> QED
        BY <2>1, StayStep
<1>3. CASE Malloc(t)
    <2>1. PICK n \in fresh, link \in Nodes \union {Null} :
             /\ made' = [made EXCEPT ![t] = n]
             /\ next' = [next EXCEPT ![n] = link]
             /\ fresh' = fresh \ {n}
        BY <1>3 DEF Malloc
    <2>2. /\ first' = first /\ last' = last /\ got' = got
          /\ made[t] = Null /\ n \in Nodes
        BY <1>3 DEF Malloc, TypeOK
    <2>3. Held' = [Held EXCEPT ![<<"made", t>>] = n]
        BY <2>1, <2>2, HeldMade
    <2>4. /\ first \in [Lists -> Nodes \union {Null}]
          /\ last \in [Lists -> Nodes \union {Null}]
          /\ next \in [Nodes -> Nodes \union {Null}]
          /\ Held \in [HandNames -> Nodes \union {Null}] /\ fresh \in SUBSET Nodes
        BY HeldType DEF TypeOK
    <2>5. Arrangement(c, first', last', next', Held', fresh')
        <3>1. Arrangement(c, first, last, next, Held, fresh)
            BY DEF Arranged
        <3>2. Arrangement(c, first, last, [next EXCEPT ![n] = link],
                          [Held EXCEPT ![<<"made", t>>] = n], fresh \ {n})
            BY <1>0, <2>2, <2>4, <3>1, ArrangedMalloc
        <3> QED
            BY <2>1, <2>2, <2>3, <3>2
    <2>6. Holding(Held') = Holding(Held) \union {n}
        BY <1>0, <2>2, <2>3, <2>4, HoldingMore
    <2>7. Advances(c, c)
        BY <2>1, <2>5, <2>6 DEF Advances, Arranged, Moves, Holding
    <2> QED
        BY <2>7
<1>4. CASE Take(t)
    <2>1. /\ first[Pool] # Null /\ Unlink(Pool) /\ fresh' = fresh /\ got' = got
          /\ made' = [made EXCEPT ![t] = first[Pool]] /\ made[t] = Null
        BY <1>4 DEF Take, TypeOK
    <2>2. Held' = [Held EXCEPT ![<<"made", t>>] = first[Pool]]
        BY <2>1, HeldMade
    <2>3. Advances(c, [c EXCEPT ![Pool] = Tail(@)])
        BY <1>0, <1>1, <2>1, <2>2, UnlinkStep
    <2> QED
        BY <2>3
<1>5. CASE Get(t)
    <2>1. /\ From[t] \in Lists /\ first[From[t]] # Null /\ Unlink(From[t])
          /\ fresh' = fresh /\ made' = made
          /\ got' = [got EXCEPT ![t] = first[From[t]]] /\ got[t] = Null
        BY <1>1, <1>5 DEF Get, PlaceInv
    <2>2. Held' = [Held EXCEPT ![<<"got", t>>] = first[From[t]]]
        BY <2>1, HeldGot
    <2>3. Advances(c, [c EXCEPT ![From[t]] = Tail(@)])
        BY <1>0, <2>1, <2>2, UnlinkStep
    <2> QED
        BY <2>3
<1>6. CASE Put(t)
    <2>1. /\ To[t] \in Lists /\ made[t] \in Nodes /\ Link(made[t], To[t])
          /\ fresh' = fresh /\ got' = got /\ made' = [made EXCEPT ![t] = Null]
        BY <1>1, <1>6 DEF Put, PlaceInv, TypeOK
    <2>2. Held' = [Held EXCEPT ![<<"made", t>>] = Null]
        BY <2>1, HeldMade
    <2>3. Advances(c, [c EXCEPT ![To[t]] = Append(@, made[t])])
        BY <1>0, <2>1, <2>2, LinkStep
    <2> QED
        BY <2>3
<1>7. CASE Recycle(t)
    <2>1. /\ got[t] \in Nodes /\ Link(got[t], Pool)
          /\ fresh' = fresh /\ made' = made /\ got' = [got EXCEPT ![t] = Null]
        BY <1>1, <1>7 DEF Recycle, PlaceInv, TypeOK
    <2>2. Held' = [Held EXCEPT ![<<"got", t>>] = Null]
        BY <2>1, HeldGot
    <2>3. Advances(c, [c EXCEPT ![Pool] = Append(@, got[t])])
        BY <1>0, <1>1, <2>1, <2>2, LinkStep
    <2> QED
        BY <2>3
<1> QED
    BY <1>2, <1>3, <1>4, <1>5, <1>6, <1>7 DEF Step

LEMMA ArrangedInit == Init => Arranged([l \in Lists |-> <<>>])
<1> SUFFICES ASSUME Init PROVE Arranged([l \in Lists |-> <<>>])
    OBVIOUS
<1> DEFINE c == [l \in Lists |-> <<>>]
<1>1. c \in [Lists -> Seq(Nodes)] /\ \A l \in Lists : c[l] = <<>> /\ Len(c[l]) = 0
    OBVIOUS
<1>2. \A h \in HandNames : Held[h] = Null
    BY DEF Held, Hand, HandNames, Init
<1>3. \A l \in Lists : first[l] = Null /\ last[l] = Null
    BY DEF Init
<1> HIDE DEF c
<1>4. \A l \in Lists : Linked(first[l], last[l], next, c[l])
    BY <1>1, <1>3 DEF Linked
<1>5. Null \notin fresh
    BY QueueAssumption DEF Init
<1>6. Arranged(c)
    BY <1>1, <1>2, <1>4, <1>5 DEF Arranged, Arrangement
<1> QED
    BY <1>6 DEF c

ListInv == \E c : Arranged(c)

LEMMA ArrangedNext ==
    ASSUME TypeOK, PlaceInv, NEW c, Arranged(c), [Next]_vars
    PROVE  \E d : Advances(c, d)
<1>1. CASE Next
    BY <1>1, ArrangedStep DEF Next
<1>2. CASE UNCHANGED vars
    <2>1. UNCHANGED <<first, last, next, fresh, made, got>>
        BY <1>2 DEF vars, listVars, threadVars
    <2> QED
        BY <2>1, StayStep
<1> QED
    BY <1>1, <1>2

QueueInv == TypeOK /\ PlaceInv /\ ListInv

LEMMA QueueInvariant == Spec => []QueueInv
<1>1. Init => QueueInv
    BY TypeInit, ArrangedInit DEF QueueInv, ListInv
<1>2. QueueInv /\ [Next]_vars => QueueInv'
    <2> SUFFICES ASSUME QueueInv, [Next]_vars PROVE QueueInv'
        OBVIOUS
    <2>1. TypeOK' /\ PlaceInv'
        BY TypeNext DEF QueueInv
    <2>2. PICK c : Arranged(c)
        BY DEF QueueInv, ListInv
    <2>3. PICK d : Advances(c, d)
        BY <2>2, ArrangedNext DEF QueueInv
    <2>4. ListInv'
        BY <2>3 DEF Advances, ListInv
    <2> QED
        BY <2>1, <2>4 DEF QueueInv
<1> QED
    BY <1>1, <1>2, PTL DEF Spec

-----------------------------------------------------------------------------
(* What the arrangement says of Chain.                                     *)

LEMMA ChainIs ==
    ASSUME NEW c, Arranged(c), NEW l \in Lists
    PROVE  Chain(l) = c[l] /\ c[l] \in Seq(Nodes)
<1>1. c[l] \in Seq(Nodes) /\ Linked(first[l], last[l], next, c[l])
    BY DEF Arranged, Arrangement
<1>2. Walk(first[l], next) = c[l]
    BY <1>1, WalkFinds
<1> QED
    BY <1>1, <1>2, ChainWalks

LEMMA ListsEndHere == QueueInv => ListsEnd
<1> SUFFICES ASSUME NEW c, Arranged(c), NEW l \in Lists
             PROVE  /\ first[l] = Null <=> last[l] = Null
                    /\ first[l] # Null => /\ Len(Chain(l)) <= Cardinality(Nodes)
                                          /\ last[l] = Chain(l)[Len(Chain(l))]
    BY DEF QueueInv, ListInv, ListsEnd
<1> DEFINE s == c[l]
<1>1. Chain(l) = s /\ s \in Seq(Nodes) /\ Linked(first[l], last[l], next, s)
    BY ChainIs DEF Arranged, Arrangement
<1> HIDE DEF s
<1>2. Len(s) <= Cardinality(Nodes)
    BY <1>1, LengthBound DEF Linked
<1>3. s # <<>> => s[1] \in Nodes /\ s[Len(s)] \in Nodes
    BY <1>1, SeqFacts
<1> QED
    BY <1>1, <1>2, <1>3, QueueAssumption DEF Linked

LEMMA OnePlaceHere == QueueInv => OnePlaceEach
<1> SUFFICES ASSUME NEW c, Arranged(c) PROVE OnePlaceEach
    BY DEF QueueInv, ListInv
<1>1. \A l \in Lists : Members(l) = {c[l][k] : k \in 1..Len(c[l])}
    <2> SUFFICES ASSUME NEW l \in Lists
                 PROVE  Members(l) = {c[l][k] : k \in 1..Len(c[l])}
        OBVIOUS
    <2>1. Chain(l) = c[l] /\ DOMAIN c[l] = 1..Len(c[l])
        BY ChainIs
    <2> QED
        BY <2>1 DEF Members
<1>2. \A h \in HandNames : Held[h] = Hand(h)
    BY DEF Held
<1> QED
    BY <1>1, <1>2 DEF Arranged, Arrangement, OnePlaceEach

\* Every list ends where last says, whatever links its structs had in other
\* lists (CommandQueue.c:42-45, 63-67, 80-87).
THEOREM QueueListsEnd == Spec => []ListsEnd
BY QueueInvariant, ListsEndHere, PTL

\* No Command struct is ever in two lists, in two hands, or in a list and a
\* hand: no thread fills a struct another thread reads (CommandQueue.c:31-94).
THEOREM QueueOnePlaceEach == Spec => []OnePlaceEach
BY QueueInvariant, OnePlaceHere, PTL

-----------------------------------------------------------------------------
(* The refinement.                                                         *)

LEMMA ListIs ==
    ASSUME NEW c, Arranged(c)
    PROVE  [l \in Lists |-> Chain(l)] = c
<1>1. c = [l \in Lists |-> c[l]]
    BY DEF Arranged, Arrangement
<1>2. \A l \in Lists : Chain(l) = c[l]
    BY ChainIs
<1> QED
    BY <1>1, <1>2

LEMMA SequentialInit == Init => Sequential!Init
<1> SUFFICES ASSUME Init PROVE Sequential!Init
    OBVIOUS
<1>1. [l \in Lists |-> Chain(l)] = [l \in Lists |-> <<>>]
    BY ArrangedInit, ListIs
<1>2. {Hand(h) : h \in HandNames} \ {Null} = {}
    BY DEF Hand, HandNames, Init
<1> QED
    BY <1>1, <1>2 DEF Sequential!Init, Init

LEMMA SequentialNext == QueueInv /\ [Next]_vars => [Sequential!Next]_Sequential!vars
<1> SUFFICES ASSUME QueueInv, [Next]_vars
             PROVE  [Sequential!Next]_Sequential!vars
    OBVIOUS
<1> DEFINE list == [l \in Lists |-> Chain(l)]
           hands == {Hand(h) : h \in HandNames} \ {Null}
<1>1. PICK c : Arranged(c)
    BY DEF QueueInv, ListInv
<1>2. PICK d : Advances(c, d)
    BY <1>1, ArrangedNext DEF QueueInv
<1>3. list = c /\ list' = d
    <2>1. list = c
        BY <1>1, ListIs
    <2>2. list' = d
        <3>1. Arrangement(d, first', last', next', Held', fresh')
            BY <1>2 DEF Advances, Arranged
        <3>2. d = [l \in Lists |-> d[l]]
            BY <3>1 DEF Arrangement
        <3>3. \A l \in Lists : d[l] = Walk(first'[l], next')
            BY <3>1, WalkFinds DEF Arrangement
        <3>4. \A l \in Lists : Chain(l)' = d[l]
            BY <3>3, ChainWalks
        <3>5. list' = [l \in Lists |-> Chain(l)']
            OBVIOUS
        <3> HIDE DEF list
        <3> QED
            BY <3>2, <3>4, <3>5
    <2> QED
        BY <2>1, <2>2
<1>4. /\ hands = Holding(Held) /\ hands' = Holding(Held)'
      /\ hands \subseteq Nodes /\ fresh \subseteq Nodes
    <2>1. Held \in [HandNames -> Nodes \union {Null}] /\ fresh \subseteq Nodes
        BY HeldType DEF QueueInv, TypeOK
    <2>2. hands = Holding(Held) /\ hands' = Holding(Held)'
        BY DEF Holding, Held
    <2> QED
        BY <2>1, <2>2 DEF Holding
<1> HIDE DEF list, hands
<1>5. Moves(list, list', hands, hands', fresh, fresh')
    BY <1>2, <1>3, <1>4 DEF Advances
<1>6. CASE list' = list /\ hands' = hands /\ fresh' = fresh
    BY <1>6 DEF Sequential!vars, list, hands
<1>7. ASSUME NEW n \in fresh,
             list' = list /\ hands' = hands \union {n} /\ fresh' = fresh \ {n}
      PROVE  Sequential!Next
    <2>1. Sequential!Malloc(n)
        BY <1>7 DEF Sequential!Malloc, list, hands
    <2> QED
        BY <1>4, <2>1 DEF Sequential!Next
<1>8. ASSUME NEW l \in Lists, list[l] # <<>>, hands' = hands \union {Head(list[l])},
             list' = [list EXCEPT ![l] = Tail(@)], fresh' = fresh
      PROVE  Sequential!Next
    <2>1. Sequential!Get(l)
        BY <1>8 DEF Sequential!Get, list, hands
    <2> QED
        BY <2>1 DEF Sequential!Next
<1>9. ASSUME NEW n \in hands, NEW l \in Lists, hands' = hands \ {n},
             list' = [list EXCEPT ![l] = Append(@, n)], fresh' = fresh
      PROVE  Sequential!Next
    <2>1. Sequential!Put(n, l)
        BY <1>9 DEF Sequential!Put, list, hands
    <2> QED
        BY <1>4, <2>1 DEF Sequential!Next
<1> QED
    BY <1>5, <1>6, <1>7, <1>8, <1>9 DEF Moves

\* The linked lists are sequences: every step of a thread is a step of
\* CommandLists, so structs leave a list in the order in which they were put,
\* though getCommandCreate looks at the pool without its mutex
\* (CommandQueue.c:18-94).
THEOREM ImplementsLists == Spec => ListsSpec
<1>1. QueueInv /\ [Next]_vars => [Sequential!Next]_Sequential!vars
    BY SequentialNext
<1>2. Init => Sequential!Init
    BY SequentialInit
<1> QED
    BY <1>1, <1>2, QueueInvariant, PTL DEF Spec, ListsSpec, Sequential!Spec
=============================================================================
