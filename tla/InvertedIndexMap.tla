-------------------------- MODULE InvertedIndexMap --------------------------
(***************************************************************************)
(* InvertedIndexMap.cpp: the hash table behind every IndexStore.  Each     *)
(* bucket is a chain of nodes; NUM_LOCKS mutexes are striped over the      *)
(* buckets.  add and lookup are modelled step by step (lock, walk the      *)
(* chain, update or copy, unlock), so that threads interleave between any  *)
(* two reads or writes of shared memory.                                   *)
(*                                                                         *)
(* A chain is written oldest node first: the node at position i has the    *)
(* node at i - 1 as its next, position Len is the head buckets[idx] and    *)
(* position 0 is nullptr.  A node that the head no longer reaches has      *)
(* left the sequence.                                                      *)
(***************************************************************************)
EXTENDS DocFreqList

CONSTANTS Thread, Key, DocId, Amount,
          bucketCount, NUM_LOCKS,
          hash,      \* the djb2 hash, reduced modulo bucketCount
          MaxCalls,  \* bound on the calls made, all threads together
          NoThread   \* not a thread: the owner of a free mutex

Bucket == 0 .. bucketCount - 1
Stripe == 0 .. NUM_LOCKS - 1

ASSUME SizesAssumption ==
  /\ bucketCount \in Nat \ {0}
  /\ NUM_LOCKS \in Nat \ {0}
  /\ MaxCalls \in Nat
ASSUME HashAssumption == hash \in [Key -> Bucket]
ASSUME AmountAssumption == Amount \subseteq Nat
ASSUME NoThreadAssumption == NoThread \notin Thread

VARIABLES chain,  \* bucket -> its nodes, oldest first
          lock,   \* stripe -> the thread that holds it
          pc, req, calls,
          curr,   \* thread -> position of its node pointer in the chain
          ret     \* thread -> the copy its last lookup returned

vars == <<chain, lock, pc, req, calls, curr, ret>>

NoCall == [op |-> "none"]
AddCall == [op : {"add"}, key : Key, doc : DocId, amount : Amount]
LookupCall == [op : {"lookup"}, key : Key]
Call == AddCall \union LookupCall

List == Seq([doc : DocId, freq : Nat])
Node == [key : Key, value : List]

Idx(t) == hash[req[t].key]
LockIdx(t) == Idx(t) % NUM_LOCKS

Init == /\ chain = [b \in Bucket |-> <<>>]
        /\ lock = [s \in Stripe |-> NoThread]
        /\ pc = [t \in Thread |-> "idle"]
        /\ req = [t \in Thread |-> NoCall]
        /\ calls = 0
        /\ curr = [t \in Thread |-> 0]
        /\ ret = [t \in Thread |-> EmptyList]

Begin(t) == /\ pc[t] = "idle"
            /\ calls < MaxCalls
            /\ \E c \in Call : req' = [req EXCEPT ![t] = c]
            /\ pc' = [pc EXCEPT ![t] = "acquire"]
            /\ calls' = calls + 1
            /\ UNCHANGED <<chain, lock, curr, ret>>

\* Mutant of Acquire: no lock_guard.
AcquireUnlocked(t) == /\ pc[t] = "acquire"
                      /\ curr' = [curr EXCEPT ![t] = Len(chain[Idx(t)])]
                      /\ pc' = [pc EXCEPT ![t] = "walk"]
                      /\ UNCHANGED <<chain, lock, req, calls, ret>>

\* lock_guard, then curr = buckets[idx].
Acquire(t) == /\ pc[t] = "acquire"
              /\ lock[LockIdx(t)] = NoThread
              /\ lock' = [lock EXCEPT ![LockIdx(t)] = t]
              /\ curr' = [curr EXCEPT ![t] = Len(chain[Idx(t)])]
              /\ pc' = [pc EXCEPT ![t] = "walk"]
              /\ UNCHANGED <<chain, req, calls, ret>>

\* Mutant of AtKey: only the head of the chain is compared with the key.
AtKeyHeadOnly(t) == /\ curr[t] # 0
                    /\ curr[t] = Len(chain[Idx(t)])
                    /\ chain[Idx(t)][curr[t]].key = req[t].key

AtKey(t) == curr[t] # 0 /\ chain[Idx(t)][curr[t]].key = req[t].key

\* curr = curr->next.
Advance(t) == /\ pc[t] = "walk"
              /\ curr[t] # 0
              /\ ~AtKey(t)
              /\ curr' = [curr EXCEPT ![t] = @ - 1]
              /\ UNCHANGED <<chain, lock, pc, req, calls, ret>>

\* add: curr->value.addUnchecked(docId, amount).
AddFound(t) ==
  /\ pc[t] = "walk"
  /\ req[t].op = "add"
  /\ AtKey(t)
  /\ chain' = [chain EXCEPT ![Idx(t)][curr[t]].value =
                 AddUnchecked(@, req[t].doc, req[t].amount)]
  /\ pc' = [pc EXCEPT ![t] = "release"]
  /\ UNCHANGED <<lock, req, calls, curr, ret>>

\* add: the key is not in the chain; curr now holds newNode->next.
AddAbsent(t) ==
  /\ pc[t] = "walk"
  /\ req[t].op = "add"
  /\ curr[t] = 0
  /\ curr' = [curr EXCEPT ![t] = Len(chain[Idx(t)])]
  /\ pc' = [pc EXCEPT ![t] = "link"]
  /\ UNCHANGED <<chain, lock, req, calls, ret>>

NewNode(t) == [key |-> req[t].key,
               value |-> AddUnchecked(EmptyList, req[t].doc, req[t].amount)]

\* Mutant of Link: newNode->next = nullptr, which drops the chain.
LinkDropsChain(t) ==
  /\ pc[t] = "link"
  /\ chain' = [chain EXCEPT ![Idx(t)] = <<NewNode(t)>>]
  /\ pc' = [pc EXCEPT ![t] = "release"]
  /\ UNCHANGED <<lock, req, calls, curr, ret>>

\* buckets[idx] = newNode.
Link(t) ==
  /\ pc[t] = "link"
  /\ chain' = [chain EXCEPT
                 ![Idx(t)] = Append(SubSeq(@, 1, curr[t]), NewNode(t))]
  /\ pc' = [pc EXCEPT ![t] = "release"]
  /\ UNCHANGED <<lock, req, calls, curr, ret>>

\* lookup: return curr->value, by copy.
LookupFound(t) ==
  /\ pc[t] = "walk"
  /\ req[t].op = "lookup"
  /\ AtKey(t)
  /\ ret' = [ret EXCEPT ![t] = chain[Idx(t)][curr[t]].value]
  /\ pc' = [pc EXCEPT ![t] = "release"]
  /\ UNCHANGED <<chain, lock, req, calls, curr>>

LookupAbsent(t) ==
  /\ pc[t] = "walk"
  /\ req[t].op = "lookup"
  /\ curr[t] = 0
  /\ ret' = [ret EXCEPT ![t] = EmptyList]
  /\ pc' = [pc EXCEPT ![t] = "release"]
  /\ UNCHANGED <<chain, lock, req, calls, curr>>

\* Mutant of Release: a return path that leaves the mutex locked.
ReleaseLeaks(t) == /\ pc[t] = "release"
                   /\ pc' = [pc EXCEPT ![t] = "idle"]
                   /\ req' = [req EXCEPT ![t] = NoCall]
                   /\ curr' = [curr EXCEPT ![t] = 0]
                   /\ UNCHANGED <<chain, lock, calls, ret>>

\* The lock_guard goes out of scope.
Release(t) == /\ pc[t] = "release"
              /\ lock' = [lock EXCEPT ![LockIdx(t)] = NoThread]
              /\ pc' = [pc EXCEPT ![t] = "idle"]
              /\ req' = [req EXCEPT ![t] = NoCall]
              /\ curr' = [curr EXCEPT ![t] = 0]
              /\ UNCHANGED <<chain, calls, ret>>

Step(t) == \/ Acquire(t) \/ Advance(t)
           \/ AddFound(t) \/ AddAbsent(t) \/ Link(t)
           \/ LookupFound(t) \/ LookupAbsent(t)
           \/ Release(t)

Next == \E t \in Thread : Begin(t) \/ Step(t)

Spec == Init /\ [][Next]_vars

\* A running thread is scheduled: each pending step is eventually taken.
\* std::mutex promises no more than this (a waiter can be overtaken for ever).
FairSpec == Spec /\ \A t \in Thread : WF_vars(Step(t))
-----------------------------------------------------------------------------
Inside(t) == pc[t] \in {"walk", "link", "release"}

\* Every variable has its type; a thread that walks holds a pointer into its
\* own chain (add and lookup, InvertedIndexMap.cpp:31-68).
TypeOK ==
  /\ chain \in [Bucket -> Seq(Node)]
  /\ lock \in [Stripe -> Thread \union {NoThread}]
  /\ pc \in [Thread -> {"idle", "acquire", "walk", "link", "release"}]
  /\ req \in [Thread -> Call \union {NoCall}]
  /\ calls \in Nat
  /\ curr \in [Thread -> Nat]
  /\ ret \in [Thread -> List]
  /\ \A t \in Thread : /\ pc[t] = "idle" <=> req[t] = NoCall
                       /\ pc[t] = "link" => req[t].op = "add"
                       /\ Inside(t) => curr[t] <= Len(chain[Idx(t)])

\* No two threads are ever inside the same chain, although a stripe covers
\* many buckets and a bucket is reached by many keys.
ChainExclusive ==
  \A t, u \in Thread : Inside(t) /\ Inside(u) /\ Idx(t) = Idx(u) => t = u

\* A term has at most one node, in the bucket its hash names: two clients that
\* index a new word at the same time do not create it twice.
OneNodePerKey ==
  \A b \in Bucket : \A i, j \in DOMAIN chain[b] :
    /\ hash[chain[b][i].key] = b
    /\ chain[b][i].key = chain[b][j].key => i = j

\* A thread inside its chain owns the mutex of its stripe.
LockHeld == \A t \in Thread : Inside(t) => lock[LockIdx(t)] = t

\* The walk skips nothing: the nodes above the pointer do not hold the key, and
\* a thread about to link its new node still sees the head it read and a chain
\* without its key.
WalkSound ==
  \A t \in Thread :
    /\ pc[t] = "walk" => \A i \in DOMAIN chain[Idx(t)] :
         i > curr[t] => chain[Idx(t)][i].key # req[t].key
    /\ pc[t] = "link" =>
         /\ curr[t] = Len(chain[Idx(t)])
         /\ \A i \in DOMAIN chain[Idx(t)] : chain[Idx(t)][i].key # req[t].key

\* The inductive invariant behind the theorems about this module: mutexes are
\* held where the code relies on them, no walk has missed its key, and so no
\* key gets a second node.
IInv == TypeOK /\ LockHeld /\ WalkSound /\ OneNodePerKey

\* The posting list of k in the chain c, as a walk would find it.
ListIn(c, k) ==
  IF \E i \in DOMAIN c : c[i].key = k
    THEN c[CHOOSE i \in DOMAIN c : c[i].key = k].value
    ELSE EmptyList

PostingsOf(k) == ListIn(chain[hash[k]], k)

Phase(t) == CASE pc[t] = "idle" -> "idle"
              [] pc[t] = "release" -> "done"
              [] OTHER -> "called"

Abstract == INSTANCE PostingIndex WITH
  postings <- [k \in Key |-> PostingsOf(k)],
  phase <- [t \in Thread |-> Phase(t)]

\* The striped table is linearizable: no add is lost or counted twice, and a
\* lookup returns exactly the postings added before some instant of the call.
Linearizable == Abstract!Spec

\* No thread is left waiting: with finitely many calls, every add and every
\* lookup returns, so no path keeps its mutex.
EveryCallReturns == \A t \in Thread : pc[t] # "idle" ~> pc[t] = "idle"
=============================================================================
