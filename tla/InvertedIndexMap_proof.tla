----------------------- MODULE InvertedIndexMap_proof -----------------------
(***************************************************************************)
(* For every number of threads, terms, buckets and stripes: the chains of  *)
(* the inverted index stay well formed under concurrent add and lookup.    *)
(***************************************************************************)
EXTENDS InvertedIndexMap, SequenceTheorems, TLAPS

LEMMA AddUncheckedType ==
  ASSUME NEW list \in List, NEW doc \in DocId, NEW amount \in Amount
  PROVE  AddUnchecked(list, doc, amount) \in List
<1>1. amount \in Nat
  BY AmountAssumption
<1>2. CASE EndsWith(list, doc)
  <2>1. Len(list) \in 1 .. Len(list)
    BY <1>2, EmptySeq DEF EndsWith, EmptyList, List
  <2>2. list[Len(list)] \in [doc : DocId, freq : Nat]
    BY <2>1, ElementOfSeq DEF List
  <2>3. Posting(doc, list[Len(list)].freq + amount) \in [doc : DocId, freq : Nat]
    BY <1>1, <2>2 DEF Posting
  <2>4. QED
    BY <1>2, <2>1, <2>3, ExceptSeq DEF AddUnchecked, List
<1>3. CASE ~EndsWith(list, doc)
  BY <1>1, <1>3 DEF AddUnchecked, List, Posting
<1>4. QED
  BY <1>2, <1>3

LEMMA EmptyListType == EmptyList \in List
BY DEF EmptyList, List

LEMMA IdxType ==
  ASSUME TypeOK, NEW t \in Thread, pc[t] # "idle"
  PROVE  /\ req[t] \in Call
         /\ req[t].key \in Key
         /\ Idx(t) \in Bucket
         /\ LockIdx(t) \in Stripe
<1>1. req[t] \in Call
  BY DEF TypeOK
<1>2. req[t].key \in Key
  BY <1>1 DEF Call, AddCall, LookupCall
<1>3. Idx(t) \in Bucket
  BY <1>2, HashAssumption DEF Idx
<1>4. Idx(t) \in Nat /\ NUM_LOCKS \in Nat \ {0}
  BY <1>3, SizesAssumption DEF Bucket
<1>5. LockIdx(t) \in Stripe
  BY <1>4 DEF LockIdx, Stripe
<1>6. QED
  BY <1>1, <1>2, <1>3, <1>5

LEMMA InitIInv == Init => IInv
<1> SUFFICES ASSUME Init PROVE IInv
  OBVIOUS
<1>1. \A b \in Bucket : chain[b] = <<>>
  BY DEF Init
<1>2. TypeOK
  BY EmptyListType, SizesAssumption DEF Init, TypeOK, Inside, NoCall, List
<1>3. LockHeld /\ WalkSound
  BY DEF Init, LockHeld, WalkSound, Inside
<1>4. OneNodePerKey
  BY <1>1 DEF OneNodePerKey
<1>5. QED
  BY <1>2, <1>3, <1>4 DEF IInv

\* A chain as the code sees it: indexable from its oldest node to its head.
LEMMA ChainType ==
  ASSUME TypeOK, NEW b \in Bucket
  PROVE  /\ chain[b] \in Seq(Node)
         /\ Len(chain[b]) \in Nat
         /\ DOMAIN chain[b] = 1 .. Len(chain[b])
         /\ \A i \in DOMAIN chain[b] : chain[b][i] \in Node
<1>1. chain[b] \in Seq(Node)
  BY DEF TypeOK
<1>2. QED
  BY <1>1, LenProperties, ElementOfSeq

LEMMA BeginStep ==
  ASSUME IInv, NEW t \in Thread, Begin(t)
  PROVE  IInv'
<1> USE DEF IInv
<1>1. PICK c \in Call : req' = [req EXCEPT ![t] = c]
  BY DEF Begin
<1>2. c # NoCall
  BY DEF Call, AddCall, LookupCall, NoCall
<1>3. \A u \in Thread : Inside(u)' => Inside(u) /\ u # t /\ Idx(u)' = Idx(u)
  BY <1>1 DEF Begin, TypeOK, Inside, Idx
<1>4. TypeOK'
  BY <1>1, <1>2, <1>3, SizesAssumption DEF Begin, TypeOK, Inside
<1>5. LockHeld'
  BY <1>3 DEF Begin, LockHeld, LockIdx
<1>6. WalkSound'
  BY <1>1, <1>3 DEF Begin, TypeOK, WalkSound, Inside
<1>7. OneNodePerKey'
  BY DEF Begin, OneNodePerKey
<1>8. QED
  BY <1>4, <1>5, <1>6, <1>7

LEMMA AcquireStep ==
  ASSUME IInv, NEW t \in Thread, Acquire(t)
  PROVE  IInv'
<1> USE DEF IInv
<1>1. /\ Idx(t) \in Bucket
      /\ LockIdx(t) \in Stripe
      /\ Len(chain[Idx(t)]) \in Nat
      /\ DOMAIN chain[Idx(t)] = 1 .. Len(chain[Idx(t)])
  BY IdxType, ChainType DEF Acquire
<1>2. \A u \in Thread : Idx(u)' = Idx(u) /\ LockIdx(u)' = LockIdx(u)
  BY DEF Acquire, Idx, LockIdx
<1>3. TypeOK'
  BY <1>1, <1>2 DEF Acquire, TypeOK, Inside
<1>4. LockHeld'
  BY <1>1, <1>2, NoThreadAssumption DEF Acquire, TypeOK, LockHeld, Inside
<1>5. WalkSound'
  BY <1>1, <1>2 DEF Acquire, TypeOK, WalkSound
<1>6. OneNodePerKey'
  BY DEF Acquire, OneNodePerKey
<1>7. QED
  BY <1>3, <1>4, <1>5, <1>6

LEMMA AdvanceStep ==
  ASSUME IInv, NEW t \in Thread, Advance(t)
  PROVE  IInv'
<1> USE DEF IInv
<1>1. /\ Idx(t) \in Bucket
      /\ Len(chain[Idx(t)]) \in Nat
      /\ DOMAIN chain[Idx(t)] = 1 .. Len(chain[Idx(t)])
      /\ curr[t] \in 1 .. Len(chain[Idx(t)])
  BY IdxType, ChainType DEF Advance, TypeOK, Inside
<1>2. \A u \in Thread : Idx(u)' = Idx(u) /\ LockIdx(u)' = LockIdx(u)
  BY DEF Advance, Idx, LockIdx
<1>3. TypeOK'
  BY <1>1, <1>2 DEF Advance, TypeOK, Inside
<1>4. LockHeld'
  BY <1>2 DEF Advance, LockHeld, Inside
<1>5. WalkSound'
  BY <1>1, <1>2 DEF Advance, TypeOK, WalkSound, AtKey
<1>6. OneNodePerKey'
  BY DEF Advance, OneNodePerKey
<1>7. QED
  BY <1>3, <1>4, <1>5, <1>6

LEMMA AddAbsentStep ==
  ASSUME IInv, NEW t \in Thread, AddAbsent(t)
  PROVE  IInv'
<1> USE DEF IInv
<1>1. /\ Idx(t) \in Bucket
      /\ Len(chain[Idx(t)]) \in Nat
      /\ DOMAIN chain[Idx(t)] = 1 .. Len(chain[Idx(t)])
  BY IdxType, ChainType DEF AddAbsent, TypeOK
<1>2. \A u \in Thread : Idx(u)' = Idx(u) /\ LockIdx(u)' = LockIdx(u)
  BY DEF AddAbsent, Idx, LockIdx
<1>3. TypeOK'
  BY <1>1, <1>2 DEF AddAbsent, TypeOK, Inside
<1>4. LockHeld'
  BY <1>2 DEF AddAbsent, TypeOK, LockHeld, Inside
<1>5. WalkSound'
  BY <1>1, <1>2 DEF AddAbsent, TypeOK, WalkSound
<1>6. OneNodePerKey'
  BY DEF AddAbsent, OneNodePerKey
<1>7. QED
  BY <1>3, <1>4, <1>5, <1>6

LEMMA LookupStep ==
  ASSUME IInv, NEW t \in Thread, LookupFound(t) \/ LookupAbsent(t)
  PROVE  IInv'
<1> USE DEF IInv
<1>1. ret' \in [Thread -> List]
  <2>1. CASE LookupFound(t)
    <3>1. curr[t] \in 1 .. Len(chain[Idx(t)])
      BY <2>1, IdxType, ChainType DEF LookupFound, AtKey, TypeOK, Inside
    <3>2. chain[Idx(t)][curr[t]].value \in List
      BY <2>1, <3>1, IdxType, ChainType DEF LookupFound, Node
    <3>3. QED
      BY <2>1, <3>2 DEF LookupFound, TypeOK
  <2>2. CASE LookupAbsent(t)
    BY <2>2, EmptyListType DEF LookupAbsent, TypeOK
  <2>3. QED
    BY <2>1, <2>2
<1>2. /\ pc[t] = "walk"
      /\ pc' = [pc EXCEPT ![t] = "release"]
      /\ UNCHANGED <<chain, lock, req, calls, curr>>
  BY DEF LookupFound, LookupAbsent
<1>3. \A u \in Thread : Idx(u)' = Idx(u) /\ LockIdx(u)' = LockIdx(u)
  BY <1>2 DEF Idx, LockIdx
<1>4. TypeOK'
  BY <1>1, <1>2, <1>3 DEF TypeOK, Inside
<1>5. LockHeld'
  BY <1>2, <1>3 DEF TypeOK, LockHeld, Inside
<1>6. WalkSound'
  BY <1>2, <1>3 DEF TypeOK, WalkSound
<1>7. OneNodePerKey'
  BY <1>2 DEF OneNodePerKey
<1>8. QED
  BY <1>4, <1>5, <1>6, <1>7

LEMMA ReleaseStep ==
  ASSUME IInv, NEW t \in Thread, Release(t)
  PROVE  IInv'
<1> USE DEF IInv
<1>1. LockIdx(t) \in Stripe
  BY IdxType DEF Release
<1>2. \A u \in Thread : u # t => /\ Idx(u)' = Idx(u)
                                 /\ LockIdx(u)' = LockIdx(u)
                                 /\ pc'[u] = pc[u]
                                 /\ curr'[u] = curr[u]
                                 /\ req'[u] = req[u]
  BY DEF Release, Idx, LockIdx, TypeOK
<1>3. pc'[t] = "idle" /\ req'[t] = NoCall
  BY DEF Release, TypeOK
<1>4. TypeOK'
  BY <1>2, <1>3 DEF Release, TypeOK, Inside
<1>5. LockHeld'
  <2> SUFFICES ASSUME NEW u \in Thread, Inside(u)'
               PROVE  (lock[LockIdx(u)] = u)'
    BY DEF LockHeld
  <2>1. u # t /\ Inside(u)
    BY <1>2, <1>3 DEF Inside
  <2>2. lock[LockIdx(u)] = u /\ lock[LockIdx(t)] = t
    BY <2>1 DEF LockHeld, Release, Inside
  <2>3. QED
    BY <1>1, <1>2, <2>1, <2>2 DEF Release, TypeOK
<1>6. WalkSound'
  BY <1>2, <1>3 DEF Release, TypeOK, WalkSound
<1>7. OneNodePerKey'
  BY DEF Release, OneNodePerKey
<1>8. QED
  BY <1>4, <1>5, <1>6, <1>7

\* What linking or merging leaves of a chain c: the keys it had, in place, and
\* at most one node more.
LEMMA AddFoundChain ==
  ASSUME IInv, NEW t \in Thread, AddFound(t)
  PROVE  /\ Idx(t) \in Bucket
         /\ curr[t] \in DOMAIN chain[Idx(t)]
         /\ chain'[Idx(t)] \in Seq(Node)
         /\ DOMAIN chain'[Idx(t)] = DOMAIN chain[Idx(t)]
         /\ Len(chain'[Idx(t)]) = Len(chain[Idx(t)])
         /\ \A i \in DOMAIN chain[Idx(t)] :
              /\ chain'[Idx(t)][i].key = chain[Idx(t)][i].key
              /\ i # curr[t] => chain'[Idx(t)][i] = chain[Idx(t)][i]
         /\ chain'[Idx(t)][curr[t]].value =
              AddUnchecked(chain[Idx(t)][curr[t]].value, req[t].doc, req[t].amount)
         /\ \A b \in Bucket : b # Idx(t) => chain'[b] = chain[b]
         /\ DOMAIN chain' = Bucket
<1> DEFINE b == Idx(t)
           c == chain[b]
           n == [c[curr[t]] EXCEPT !.value =
                   AddUnchecked(@, req[t].doc, req[t].amount)]
<1>1. /\ b \in Bucket /\ c \in Seq(Node) /\ Len(c) \in Nat
      /\ DOMAIN c = 1 .. Len(c)
      /\ curr[t] \in 1 .. Len(c)
      /\ c[curr[t]] \in Node
      /\ req[t] \in AddCall
  BY IdxType, ChainType
     DEF AddFound, AtKey, IInv, TypeOK, Inside, Call, AddCall, LookupCall
<1>2. AddUnchecked(c[curr[t]].value, req[t].doc, req[t].amount) \in List
  BY <1>1, AddUncheckedType DEF AddCall, Node
<1>3. n \in Node /\ n.key = c[curr[t]].key
      /\ n.value = AddUnchecked(c[curr[t]].value, req[t].doc, req[t].amount)
  BY <1>1, <1>2 DEF Node
<1>4. chain' = [chain EXCEPT ![b] = [c EXCEPT ![curr[t]] = n]]
  BY DEF AddFound
<1>5. chain'[b] = [c EXCEPT ![curr[t]] = n]
  BY <1>1, <1>4 DEF IInv, TypeOK
<1>6. /\ chain'[b] \in Seq(Node) /\ Len(chain'[b]) = Len(c)
      /\ \A i \in 1 .. Len(c) : chain'[b][i] = IF i = curr[t] THEN n ELSE c[i]
  BY <1>1, <1>3, <1>5, ExceptSeq
<1>7. DOMAIN chain'[b] = DOMAIN c
  BY <1>1, <1>6, LenProperties
<1>8. QED
  BY <1>1, <1>3, <1>4, <1>6, <1>7 DEF IInv, TypeOK

LEMMA LinkChain ==
  ASSUME IInv, NEW t \in Thread, Link(t)
  PROVE  /\ Idx(t) \in Bucket
         /\ NewNode(t) \in Node
         /\ chain'[Idx(t)] \in Seq(Node)
         /\ Len(chain'[Idx(t)]) = Len(chain[Idx(t)]) + 1
         /\ DOMAIN chain'[Idx(t)] = 1 .. Len(chain[Idx(t)]) + 1
         /\ \A i \in DOMAIN chain[Idx(t)] : chain'[Idx(t)][i] = chain[Idx(t)][i]
         /\ chain'[Idx(t)][Len(chain[Idx(t)]) + 1] = NewNode(t)
         /\ \A b \in Bucket : b # Idx(t) => chain'[b] = chain[b]
         /\ DOMAIN chain' = Bucket
<1> DEFINE b == Idx(t)
           c == chain[b]
<1>1. /\ b \in Bucket /\ c \in Seq(Node) /\ Len(c) \in Nat
      /\ DOMAIN c = 1 .. Len(c)
      /\ req[t] \in AddCall /\ req[t].key \in Key
      /\ curr[t] = Len(c)
  BY IdxType, ChainType
     DEF Link, IInv, TypeOK, WalkSound, Call, AddCall, LookupCall
<1>2. NewNode(t) \in Node
  BY <1>1, AddUncheckedType, EmptyListType DEF NewNode, Node, AddCall
<1>3. SubSeq(c, 1, curr[t]) = c
  BY <1>1, SubSeqFull
<1>4. chain' = [chain EXCEPT ![b] = Append(c, NewNode(t))]
  BY <1>3 DEF Link
<1>5. chain'[b] = Append(c, NewNode(t))
  BY <1>1, <1>4 DEF IInv, TypeOK
<1>6. /\ chain'[b] \in Seq(Node) /\ Len(chain'[b]) = Len(c) + 1
      /\ \A i \in 1 .. Len(c) : chain'[b][i] = c[i]
      /\ chain'[b][Len(c) + 1] = NewNode(t)
  BY <1>1, <1>2, <1>5, AppendProperties
<1>7. DOMAIN chain'[b] = 1 .. Len(c) + 1
  BY <1>6, LenProperties
<1>8. QED
  BY <1>1, <1>2, <1>4, <1>6, <1>7 DEF IInv, TypeOK

\* Whoever else is inside a chain is inside another one.
LEMMA Exclusive ==
  ASSUME LockHeld, NEW t \in Thread, NEW u \in Thread,
         Inside(t), Inside(u), Idx(t) = Idx(u)
  PROVE  t = u
BY DEF LockHeld, LockIdx

LEMMA AddFoundStep ==
  ASSUME IInv, NEW t \in Thread, AddFound(t)
  PROVE  IInv'
<1>1. \A u \in Thread : Idx(u)' = Idx(u) /\ LockIdx(u)' = LockIdx(u)
  BY DEF AddFound, Idx, LockIdx
<1>2. \A u \in Thread : Inside(u)' <=> Inside(u)
  BY DEF AddFound, IInv, TypeOK, Inside
<1>3. \A b \in Bucket :
        /\ chain'[b] \in Seq(Node)
        /\ DOMAIN chain'[b] = DOMAIN chain[b]
        /\ Len(chain'[b]) = Len(chain[b])
        /\ \A i \in DOMAIN chain[b] : chain'[b][i].key = chain[b][i].key
  BY AddFoundChain DEF IInv, TypeOK
<1>4. TypeOK'
  <2>1. chain' \in [Bucket -> Seq(Node)]
    BY <1>3 DEF AddFound, IInv, TypeOK
  <2>2. \A u \in Thread : Inside(u)' => (curr[u] <= Len(chain[Idx(u)]))'
    BY <1>1, <1>2, <1>3, IdxType DEF AddFound, IInv, TypeOK, Inside
  <2>3. QED
    BY <2>1, <2>2 DEF AddFound, IInv, TypeOK
<1>5. LockHeld'
  BY <1>1, <1>2 DEF AddFound, IInv, LockHeld
<1>6. WalkSound'
  <2> SUFFICES ASSUME NEW u \in Thread, pc'[u] \in {"walk", "link"}
               PROVE  /\ Idx(u) \in Bucket /\ Idx(u)' = Idx(u)
                      /\ pc'[u] = pc[u] /\ curr'[u] = curr[u]
                      /\ req'[u] = req[u]
    BY <1>3 DEF IInv, WalkSound
  <2>1. QED
    BY <1>1, IdxType DEF AddFound, IInv, TypeOK
<1>7. OneNodePerKey'
  BY <1>3 DEF IInv, OneNodePerKey
<1>8. QED
  BY <1>4, <1>5, <1>6, <1>7 DEF IInv

LEMMA LinkStep ==
  ASSUME IInv, NEW t \in Thread, Link(t)
  PROVE  IInv'
<1>1. \A u \in Thread : Idx(u)' = Idx(u) /\ LockIdx(u)' = LockIdx(u)
  BY DEF Link, Idx, LockIdx
<1>2. \A u \in Thread : Inside(u)' <=> Inside(u)
  BY DEF Link, IInv, TypeOK, Inside
<1>3. TypeOK'
  <2>1. \A b \in Bucket : chain'[b] \in Seq(Node) /\ Len(chain[b]) <= Len(chain'[b])
    BY LinkChain, ChainType DEF IInv
  <2>2. chain' \in [Bucket -> Seq(Node)]
    BY <2>1 DEF Link, IInv, TypeOK
  <2>3. \A u \in Thread : Inside(u)' => (curr[u] <= Len(chain[Idx(u)]))'
    <3> SUFFICES ASSUME NEW u \in Thread, Inside(u)
                 PROVE  curr[u] <= Len(chain'[Idx(u)])
      BY <1>1, <1>2 DEF Link
    <3>1. Idx(u) \in Bucket /\ curr[u] <= Len(chain[Idx(u)]) /\ curr[u] \in Nat
      BY IdxType DEF IInv, TypeOK, Inside
    <3>2. Len(chain[Idx(u)]) \in Nat /\ Len(chain'[Idx(u)]) \in Nat
      BY <2>1, <3>1, LenProperties, ChainType DEF IInv
    <3>3. QED
      BY <2>1, <3>1, <3>2
  <2>4. QED
    BY <2>2, <2>3 DEF Link, IInv, TypeOK
<1>4. LockHeld'
  BY <1>1, <1>2 DEF Link, IInv, LockHeld
<1>5. WalkSound'
  <2> SUFFICES ASSUME NEW u \in Thread, pc'[u] \in {"walk", "link"}
               PROVE  /\ Idx(u) \in Bucket /\ Idx(u)' = Idx(u)
                      /\ chain'[Idx(u)] = chain[Idx(u)]
                      /\ pc'[u] = pc[u] /\ curr'[u] = curr[u]
                      /\ req'[u] = req[u]
    BY DEF IInv, WalkSound
  <2>1. u # t /\ Inside(u) /\ Inside(t)
    BY DEF Link, IInv, TypeOK, Inside
  <2>2. Idx(u) # Idx(t)
    BY <2>1, Exclusive DEF IInv
  <2>3. Idx(u) \in Bucket
    BY <2>1, IdxType DEF IInv, Inside
  <2>4. QED
    BY <1>1, <2>1, <2>2, <2>3, LinkChain DEF Link, IInv, TypeOK
<1>6. OneNodePerKey'
  <2>1. \A i \in DOMAIN chain[Idx(t)] : chain[Idx(t)][i].key # req[t].key
    BY DEF Link, IInv, WalkSound
  <2>2. NewNode(t).key = req[t].key /\ hash[req[t].key] = Idx(t)
    BY DEF NewNode, Idx
  <2> SUFFICES ASSUME NEW b \in Bucket,
                      NEW i \in DOMAIN chain'[b], NEW j \in DOMAIN chain'[b]
               PROVE  /\ hash[chain'[b][i].key] = b
                      /\ chain'[b][i].key = chain'[b][j].key => i = j
    BY DEF Link, OneNodePerKey
  <2>3. CASE b # Idx(t)
    BY <2>3, LinkChain DEF IInv, OneNodePerKey
  <2>4. CASE b = Idx(t)
    <3> DEFINE n == Len(chain[b])
    <3>1. /\ n \in Nat /\ DOMAIN chain[b] = 1 .. n /\ DOMAIN chain'[b] = 1 .. n + 1
          /\ \A h \in 1 .. n : chain'[b][h] = chain[b][h]
          /\ chain'[b][n + 1] = NewNode(t)
      BY <2>4, LinkChain, ChainType DEF IInv
    <3>2. \A h \in 1 .. n : /\ hash[chain[b][h].key] = b
                            /\ chain[b][h].key # NewNode(t).key
      <4>1. TAKE h \in 1 .. n
      <4>2. h \in DOMAIN chain[b]
        BY <3>1
      <4>3. hash[chain[b][h].key] = b
        BY <4>2 DEF IInv, OneNodePerKey
      <4>4. chain[b][h].key # req[t].key
        BY <2>1, <2>4, <4>2
      <4>5. QED
        BY <2>2, <4>3, <4>4
    <3>3. \A h, l \in 1 .. n : chain[b][h].key = chain[b][l].key => h = l
      BY <2>4, <3>1, LinkChain DEF IInv, OneNodePerKey
    <3>4. i \in 1 .. n \/ i = n + 1
      BY <3>1
    <3>5. j \in 1 .. n \/ j = n + 1
      BY <3>1
    <3> HIDE DEF n
    <3>6. hash[NewNode(t).key] = b
      BY <2>2, <2>4
    <3>7. CASE i = n + 1
      <4>1. chain'[b][i] = NewNode(t)
        BY <3>1, <3>7
      <4>2. j \in 1 .. n => chain'[b][j].key # NewNode(t).key
        BY <3>1, <3>2
      <4>3. QED
        BY <3>5, <3>6, <3>7, <4>1, <4>2
    <3>8. CASE i \in 1 .. n
      <4>1. chain'[b][i] = chain[b][i]
        BY <3>1, <3>8
      <4>2. CASE j = n + 1
        BY <3>1, <3>2, <3>8, <4>1, <4>2
      <4>3. CASE j \in 1 .. n
        BY <3>1, <3>2, <3>3, <3>8, <4>1, <4>3
      <4>4. QED
        BY <3>5, <4>2, <4>3
    <3>9. QED
      BY <3>4, <3>7, <3>8
  <2>5. QED
    BY <2>3, <2>4
<1>7. QED
  BY <1>3, <1>4, <1>5, <1>6 DEF IInv

LEMMA StutterStep == IInv /\ UNCHANGED vars => IInv'
BY DEF IInv, vars, TypeOK, LockHeld, WalkSound, OneNodePerKey, Inside, Idx, LockIdx

LEMMA NextIInv == IInv /\ [Next]_vars => IInv'
BY BeginStep, AcquireStep, AdvanceStep, AddFoundStep, AddAbsentStep, LinkStep,
   LookupStep, ReleaseStep, StutterStep
   DEF Next, Step

\* The invariant holds in every reachable state (InvertedIndexMap.cpp:31-68).
THEOREM Invariance == Spec => []IInv
<1>1. QED
  BY InitIInv, NextIInv, PTL DEF Spec

\* Every variable keeps its type; no node pointer leaves its chain.
THEOREM TypeCorrect == Spec => []TypeOK
<1>1. IInv => TypeOK
  BY DEF IInv
<1>2. QED
  BY <1>1, Invariance, PTL

\* The striped mutexes keep any two threads out of one chain.
THEOREM Exclusion == Spec => []ChainExclusive
<1>1. IInv => ChainExclusive
  BY Exclusive DEF IInv, ChainExclusive
<1>2. QED
  BY <1>1, Invariance, PTL

\* A term never gets a second node, however adds of it interleave.
THEOREM UniqueNodes == Spec => []OneNodePerKey
<1>1. IInv => OneNodePerKey
  BY DEF IInv
<1>2. QED
  BY <1>1, Invariance, PTL

\* With one node per key, the list found for a key is the list of any node that
\* carries it.
LEMMA ListInUnique ==
  ASSUME NEW c, NEW i \in DOMAIN c,
         \A j \in DOMAIN c : c[j].key = c[i].key => j = i
  PROVE  ListIn(c, c[i].key) = c[i].value
<1>1. (CHOOSE j \in DOMAIN c : c[j].key = c[i].key) = i
  OBVIOUS
<1>2. QED
  BY <1>1 DEF ListIn

LEMMA ListInAbsent ==
  ASSUME NEW c, NEW k, \A j \in DOMAIN c : c[j].key # k
  PROVE  ListIn(c, k) = EmptyList
BY DEF ListIn

\* Two chains with the same keys at the same places, and the same list for k.
LEMMA ListInSame ==
  ASSUME NEW c, NEW d, NEW k,
         DOMAIN d = DOMAIN c,
         \A j \in DOMAIN c : d[j].key = c[j].key,
         \A j \in DOMAIN c : c[j].key = k => d[j] = c[j]
  PROVE  ListIn(d, k) = ListIn(c, k)
<1>1. CASE \E j \in DOMAIN c : c[j].key = k
  <2>1. (CHOOSE j \in DOMAIN d : d[j].key = k) = (CHOOSE j \in DOMAIN c : c[j].key = k)
    <3>1. \A j : (j \in DOMAIN d /\ d[j].key = k) <=> (j \in DOMAIN c /\ c[j].key = k)
      OBVIOUS
    <3>2. QED
      BY <3>1
  <2>2. LET h == CHOOSE j \in DOMAIN c : c[j].key = k
        IN  h \in DOMAIN c /\ c[h].key = k
    BY <1>1
  <2>3. QED
    BY <1>1, <2>1, <2>2 DEF ListIn
<1>2. CASE ~ \E j \in DOMAIN c : c[j].key = k
  BY <1>2 DEF ListIn
<1>3. QED
  BY <1>1, <1>2

\* A walk that stands at its key stands at the key's posting list.
LEMMA FoundIsPosting ==
  ASSUME IInv, NEW t \in Thread, pc[t] = "walk", AtKey(t)
  PROVE  PostingsOf(req[t].key) = chain[Idx(t)][curr[t]].value
<1>1. Idx(t) \in Bucket /\ curr[t] \in DOMAIN chain[Idx(t)]
  BY IdxType, ChainType DEF IInv, AtKey, TypeOK, Inside
<1>2. chain[Idx(t)][curr[t]].key = req[t].key
  BY DEF AtKey
<1>3. QED
  BY <1>1, <1>2, ListInUnique DEF IInv, OneNodePerKey, PostingsOf, Idx

\* A walk that has reached nullptr has not passed its key.
LEMMA AbsentIsEmpty ==
  ASSUME IInv, NEW t \in Thread,
         (pc[t] = "walk" /\ curr[t] = 0) \/ pc[t] = "link"
  PROVE  PostingsOf(req[t].key) = EmptyList
<1>1. \A i \in DOMAIN chain[Idx(t)] : chain[Idx(t)][i].key # req[t].key
  BY IdxType, ChainType DEF IInv, WalkSound
<1>2. QED
  BY <1>1, ListInAbsent DEF PostingsOf, Idx

\* Adds leave every other term's list alone and extend their own.
LEMMA AddFoundPostings ==
  ASSUME IInv, NEW t \in Thread, AddFound(t), NEW k \in Key
  PROVE  PostingsOf(k)' = IF k = req[t].key
                            THEN AddUnchecked(PostingsOf(k), req[t].doc, req[t].amount)
                            ELSE PostingsOf(k)
<1>1. hash[k] \in Bucket
  BY HashAssumption
<1>2. chain[Idx(t)][curr[t]].key = req[t].key
  BY DEF AddFound, AtKey
<1>3. CASE k = req[t].key
  <2>1. chain'[Idx(t)][curr[t]].key = k
    BY <1>2, <1>3, AddFoundChain
  <2>2. \A j \in DOMAIN chain'[Idx(t)] :
          chain'[Idx(t)][j].key = k => j = curr[t]
    BY <1>2, <1>3, AddFoundChain DEF IInv, OneNodePerKey
  <2>3. PostingsOf(k)' = chain'[Idx(t)][curr[t]].value
    <3>1. curr[t] \in DOMAIN chain'[Idx(t)]
      BY AddFoundChain
    <3>2. ListIn(chain'[Idx(t)], k) = chain'[Idx(t)][curr[t]].value
      BY <2>1, <2>2, <3>1, ListInUnique
    <3>3. QED
      BY <1>3, <3>2 DEF PostingsOf, Idx
  <2>4. PostingsOf(k) = chain[Idx(t)][curr[t]].value
    BY <1>3, FoundIsPosting DEF AddFound
  <2>5. QED
    BY <1>3, <2>3, <2>4, AddFoundChain
<1>4. CASE k # req[t].key /\ hash[k] = Idx(t)
  <2>1. \A j \in DOMAIN chain[Idx(t)] :
          chain[Idx(t)][j].key = k => chain'[Idx(t)][j] = chain[Idx(t)][j]
    BY <1>2, <1>4, AddFoundChain
  <2>2. ListIn(chain'[Idx(t)], k) = ListIn(chain[Idx(t)], k)
    BY <2>1, AddFoundChain, ListInSame
  <2>3. QED
    BY <1>4, <2>2 DEF PostingsOf
<1>5. CASE k # req[t].key /\ hash[k] # Idx(t)
  BY <1>1, <1>5, AddFoundChain DEF PostingsOf
<1>6. QED
  BY <1>3, <1>4, <1>5

LEMMA LinkPostings ==
  ASSUME IInv, NEW t \in Thread, Link(t), NEW k \in Key
  PROVE  PostingsOf(k)' = IF k = req[t].key
                            THEN AddUnchecked(PostingsOf(k), req[t].doc, req[t].amount)
                            ELSE PostingsOf(k)
<1> DEFINE b == Idx(t)
           c == chain[b]
           d == chain'[b]
           n == Len(c)
<1>1. /\ b \in Bucket /\ n \in Nat
      /\ DOMAIN c = 1 .. n /\ DOMAIN d = 1 .. n + 1
      /\ \A i \in 1 .. n : d[i] = c[i]
      /\ d[n + 1] = NewNode(t)
      /\ \A e \in Bucket : e # b => chain'[e] = chain[e]
  BY LinkChain, ChainType DEF IInv
<1>2. /\ NewNode(t).key = req[t].key
      /\ NewNode(t).value = AddUnchecked(EmptyList, req[t].doc, req[t].amount)
  BY DEF NewNode
<1>3. hash[k] \in Bucket
  BY HashAssumption
<1>4. \A i \in 1 .. n : c[i].key # req[t].key
  BY <1>1 DEF Link, IInv, WalkSound
<1> HIDE DEF n
<1>5. CASE k = req[t].key
  <2>1. \A j \in DOMAIN d : d[j].key = d[n + 1].key => j = n + 1
    BY <1>1, <1>2, <1>4
  <2>2. ListIn(d, k) = NewNode(t).value
    <3>1. n + 1 \in DOMAIN d
      BY <1>1
    <3>2. ListIn(d, d[n + 1].key) = d[n + 1].value
      BY <2>1, <3>1, ListInUnique
    <3>3. QED
      BY <1>1, <1>2, <1>5, <3>2
  <2>3. PostingsOf(k) = EmptyList
    BY <1>5, AbsentIsEmpty DEF Link
  <2>4. QED
    BY <1>2, <1>5, <2>2, <2>3 DEF PostingsOf, Idx
<1>6. CASE k # req[t].key /\ hash[k] = b
  <2>1. ListIn(d, k) = ListIn(c, k)
    <3>1. CASE \E i \in 1 .. n : c[i].key = k
      <4>1. PICK i \in 1 .. n : c[i].key = k
        BY <3>1
      <4>2. \A j \in 1 .. n : c[j].key = c[i].key => j = i
        BY <1>1 DEF IInv, OneNodePerKey
      <4>3. \A j \in DOMAIN d : d[j].key = d[i].key => j = i
        <5>1. d[i] = c[i] /\ d[n + 1].key # k
          BY <1>1, <1>2, <1>6, <4>1
        <5>2. TAKE j \in DOMAIN d
        <5>3. j \in 1 .. n \/ j = n + 1
          BY <1>1
        <5>4. QED
          BY <1>1, <4>1, <4>2, <5>1, <5>3
      <4>4. ListIn(c, k) = c[i].value
        BY <1>1, <4>1, <4>2, ListInUnique
      <4>5. i \in DOMAIN d /\ d[i] = c[i]
        BY <1>1, <4>1
      <4>6. ListIn(d, k) = c[i].value
        BY <4>1, <4>3, <4>5, ListInUnique
      <4>7. QED
        BY <4>4, <4>6
    <3>2. CASE ~ \E i \in 1 .. n : c[i].key = k
      <4>1. \A j \in DOMAIN c : c[j].key # k
        BY <1>1, <3>2
      <4>2. \A j \in DOMAIN d : d[j].key # k
        BY <1>1, <1>2, <1>6, <3>2
      <4>3. QED
        BY <4>1, <4>2, ListInAbsent
    <3>3. QED
      BY <3>1, <3>2
  <2>2. QED
    BY <1>6, <2>1 DEF PostingsOf
<1>7. CASE k # req[t].key /\ hash[k] # b
  BY <1>1, <1>3, <1>7 DEF PostingsOf
<1>8. QED
  BY <1>5, <1>6, <1>7

\* Every step of the table is a step of the abstract index, or none.
LEMMA StepSimulation ==
  ASSUME IInv, [Next]_vars
  PROVE  [Abstract!Next]_(Abstract!vars)
<1> DEFINE P == [k \in Key |-> PostingsOf(k)]
           F == [t \in Thread |-> Phase(t)]
<1> USE DEF IInv
<1>1. UNCHANGED chain => UNCHANGED P
  BY DEF PostingsOf
<1>2. ASSUME NEW t \in Thread, Begin(t)
      PROVE  Abstract!Begin(t)
  <2>1. F' = [F EXCEPT ![t] = "called"] /\ F[t] = "idle"
    BY <1>2 DEF Begin, Phase, TypeOK
  <2>2. QED
    BY <1>1, <1>2, <2>1
       DEF Begin, Abstract!Begin, Abstract!Call, Abstract!AddCall,
           Abstract!LookupCall, Call, AddCall, LookupCall
<1>3. ASSUME NEW t \in Thread, Acquire(t) \/ Advance(t) \/ AddAbsent(t)
      PROVE  UNCHANGED Abstract!vars
  <2>1. UNCHANGED F
    BY <1>3 DEF Acquire, Advance, AddAbsent, Phase, TypeOK
  <2>2. QED
    BY <1>1, <1>3, <2>1 DEF Acquire, Advance, AddAbsent, Abstract!vars
<1>4. ASSUME NEW t \in Thread, AddFound(t) \/ Link(t)
      PROVE  Abstract!AddEffect(t)
  <2>1. F' = [F EXCEPT ![t] = "done"] /\ F[t] = "called"
    <3>1. pc[t] \in {"walk", "link"} /\ pc' = [pc EXCEPT ![t] = "release"]
      BY <1>4 DEF AddFound, Link
    <3>2. QED
      BY <3>1 DEF Phase, TypeOK
  <2>2. req[t].op = "add" /\ req[t].key \in Key
    BY <1>4, IdxType DEF AddFound, Link, TypeOK
  <2>3. \A k \in Key : PostingsOf(k)' =
          IF k = req[t].key
            THEN AddUnchecked(PostingsOf(k), req[t].doc, req[t].amount)
            ELSE PostingsOf(k)
    BY <1>4, AddFoundPostings, LinkPostings
  <2>4. P' = [P EXCEPT ![req[t].key] =
                AddUnchecked(P[req[t].key], req[t].doc, req[t].amount)]
    BY <2>2, <2>3
  <2>5. \A l, doc, a : Abstract!AddUnchecked(l, doc, a) = AddUnchecked(l, doc, a)
    BY DEF AddUnchecked, Abstract!AddUnchecked, EndsWith, Abstract!EndsWith,
           Posting, Abstract!Posting, EmptyList, Abstract!EmptyList
  <2>6. UNCHANGED <<req, ret, calls>>
    BY <1>4 DEF AddFound, Link
  <2>7. QED
    BY <2>1, <2>2, <2>4, <2>5, <2>6 DEF Abstract!AddEffect
<1>5. ASSUME NEW t \in Thread, LookupFound(t) \/ LookupAbsent(t)
      PROVE  Abstract!LookupEffect(t)
  <2>1. F' = [F EXCEPT ![t] = "done"] /\ F[t] = "called"
    <3>1. pc[t] = "walk" /\ pc' = [pc EXCEPT ![t] = "release"]
      BY <1>5 DEF LookupFound, LookupAbsent
    <3>2. QED
      BY <3>1 DEF Phase, TypeOK
  <2>2. req[t].op = "lookup" /\ req[t].key \in Key
    BY <1>5, IdxType DEF LookupFound, LookupAbsent, TypeOK
  <2>3. ret' = [ret EXCEPT ![t] = PostingsOf(req[t].key)]
    BY <1>5, FoundIsPosting, AbsentIsEmpty DEF LookupFound, LookupAbsent
  <2>4. UNCHANGED <<chain, req, calls>>
    BY <1>5 DEF LookupFound, LookupAbsent
  <2>5. QED
    BY <1>1, <2>1, <2>2, <2>3, <2>4 DEF Abstract!LookupEffect
<1>6. ASSUME NEW t \in Thread, Release(t)
      PROVE  Abstract!End(t)
  <2>1. F' = [F EXCEPT ![t] = "idle"] /\ F[t] = "done"
    BY <1>6 DEF Release, Phase, TypeOK
  <2>2. QED
    BY <1>1, <1>6, <2>1 DEF Release, Abstract!End, NoCall, Abstract!NoCall
<1>7. UNCHANGED vars => UNCHANGED Abstract!vars
  BY <1>1 DEF vars, Abstract!vars, Phase
<1>8. QED
  BY <1>2, <1>3, <1>4, <1>5, <1>6, <1>7 DEF Next, Step, Abstract!Next

\* The striped hash table implements the abstract index: every add and lookup
\* takes effect at one instant of its call (InvertedIndexMap.cpp:31-68).
THEOREM Refinement == Spec => Linearizable
<1>1. Init => Abstract!Init
  <2> SUFFICES ASSUME Init PROVE Abstract!Init
    OBVIOUS
  <2>1. \A k \in Key : PostingsOf(k) = EmptyList
    BY HashAssumption DEF Init, PostingsOf, ListIn
  <2>2. \A t \in Thread : Phase(t) = "idle"
    BY DEF Init, Phase
  <2>3. QED
    BY <2>1, <2>2 DEF Init, Abstract!Init, EmptyList, Abstract!EmptyList,
                      NoCall, Abstract!NoCall
<1>2. IInv /\ [Next]_vars => [Abstract!Next]_(Abstract!vars)
  BY StepSimulation
<1>3. QED
  BY <1>1, <1>2, Invariance, PTL DEF Spec, Linearizable, Abstract!Spec
=============================================================================
