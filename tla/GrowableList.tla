------------------------------ MODULE GrowableList ------------------------------
(***************************************************************************)
(* DocFreqList.cpp, StringList.cpp and ResultList.cpp: the three growable  *)
(* arrays of the system, on a heap of blocks.  They share one              *)
(* representation, a block from new[], its capacity and a count (the two   *)
(* arrays of a DocFreqList, always allocated and freed together, are one   *)
(* block of postings), and one set of constructors; the operations that    *)
(* only one of them has are all here.  A list is used by one thread at a   *)
(* time: a stripe, the document mutex or its being local sees to that.     *)
(***************************************************************************)
EXTENDS DocFreqList, Integers, FiniteSets

CONSTANTS Name, DocId, Amount,
          MaxCount, MaxFreq,  \* bounds on a list's length and on a frequency
          Address,          \* where new[] may put a block
          InitialCapacity,  \* 10
          Uninit            \* what new[] leaves in a cell

ASSUME CapacityAssumption == InitialCapacity \in Nat \ {0} /\ MaxCount \in Nat

ASSUME CellAssumption == Uninit \notin [doc : DocId, freq : Nat]

ASSUME AmountAssumption == Amount \subseteq Nat

Null == 0

ASSUME AddressAssumption == Null \notin Address

VARIABLES heap,      \* address of an allocated block -> its cells, from 0
          live,      \* the lists that are constructed
          data, capacity, count,   \* the members of each list
          returned   \* what the last call returned, if it was get or pop_back

vars == <<heap, live, data, capacity, count, returned>>

NoEntry == [doc |-> 0, freq |-> 0]

Init == /\ heap = [b \in {} |-> <<>>]
        /\ live = {}
        /\ data = [x \in Name |-> Null]
        /\ capacity = [x \in Name |-> 0]
        /\ count = [x \in Name |-> 0]
        /\ returned = NoEntry

Without(b) == [c \in DOMAIN heap \ {b} |-> heap[c]]

\* new[] of n cells that starts as the first m cells of another block.
Block(n, cells, m) == [i \in 0 .. n - 1 |-> IF i < m THEN cells[i] ELSE Uninit]

With(h, b, cells) == [c \in DOMAIN h \union {b} |-> IF c = b THEN cells ELSE h[c]]

Members(x, b, cap, n) == /\ data' = [data EXCEPT ![x] = b]
                         /\ capacity' = [capacity EXCEPT ![x] = cap]
                         /\ count' = [count EXCEPT ![x] = n]

\* The default constructor.
Construct(x) ==
  /\ x \notin live /\ live' = live \union {x}
  /\ \E b \in Address \ DOMAIN heap :
       /\ heap' = With(heap, b, Block(InitialCapacity, <<>>, 0))
       /\ Members(x, b, InitialCapacity, 0)
  /\ returned' = NoEntry

Destroy(x) ==
  /\ x \in live /\ live' = live \ {x}
  /\ heap' = Without(data[x])
  /\ Members(x, Null, 0, 0)
  /\ returned' = NoEntry

\* The copy constructor.
Copy(x, y) ==
  /\ x \notin live /\ y \in live /\ live' = live \union {x}
  /\ \E b \in Address \ DOMAIN heap :
       /\ heap' = With(heap, b, Block(capacity[y], heap[data[y]], count[y]))
       /\ Members(x, b, capacity[y], count[y])
  /\ returned' = NoEntry

\* Mutant of Assign: the old block is not deleted.
AssignLeaks(x, y) ==
  /\ x \in live /\ y \in live
  /\ IF x = y
       THEN UNCHANGED <<heap, data, capacity, count>>
       ELSE \E b \in Address \ DOMAIN heap :
              /\ heap' = With(heap, b, Block(capacity[y], heap[data[y]], count[y]))
              /\ Members(x, b, capacity[y], count[y])
  /\ UNCHANGED live /\ returned' = NoEntry

\* operator=: delete the old block, then copy; nothing for x = x.
Assign(x, y) ==
  /\ x \in live /\ y \in live
  /\ IF x = y
       THEN UNCHANGED <<heap, data, capacity, count>>
       ELSE \E b \in Address \ (DOMAIN heap \ {data[x]}) :
              /\ heap' = With(Without(data[x]), b,
                              Block(capacity[y], heap[data[y]], count[y]))
              /\ Members(x, b, capacity[y], count[y])
  /\ UNCHANGED live /\ returned' = NoEntry

\* add: resize doubles a full array (a new block, copied, the old one deleted).
AddEntry(x, p) ==
  /\ count[x] < MaxCount
  /\ \/ /\ count[x] # capacity[x]
        /\ heap' = [heap EXCEPT ![data[x]][count[x]] = p]
        /\ Members(x, data[x], capacity[x], count[x] + 1)
     \/ /\ count[x] = capacity[x]
        /\ \E b \in Address \ DOMAIN heap :
             /\ heap' = With(Without(data[x]), b,
                             [Block(2 * capacity[x], heap[data[x]], count[x])
                                EXCEPT ![count[x]] = p])
             /\ Members(x, b, 2 * capacity[x], count[x] + 1)

Add(x, d, a) == x \in live /\ AddEntry(x, Posting(d, a)) /\ UNCHANGED live /\ returned' = NoEntry

Cells(x) == heap[data[x]]

Raise(x, i, a) ==
  /\ Cells(x)[i].freq + a <= MaxFreq
  /\ heap' = [heap EXCEPT ![data[x]][i] = Posting(@.doc, @.freq + a)]
  /\ UNCHANGED <<data, capacity, count>>

LastIs(x, d) == count[x] > 0 /\ Cells(x)[count[x] - 1].doc = d

\* The indices the loop of addFrequency looks at, and those that have the document.
Matches(x, d) == {i \in 0 .. count[x] - 2 : Cells(x)[i].doc = d}

\* Mutant of AddFrequency: the loop alone, which stops before the last entry.
AddFrequencyUnhurried(x, d, a) ==
  /\ x \in live
  /\ \/ \E i \in Matches(x, d) : /\ \A j \in Matches(x, d) : i <= j
                                 /\ Raise(x, i, a)
     \/ Matches(x, d) = {} /\ AddEntry(x, Posting(d, a))
  /\ UNCHANGED live /\ returned' = NoEntry

\* addFrequency: the last entry, the first of the others, or a new one.
AddFrequency(x, d, a) ==
  /\ x \in live
  /\ \/ LastIs(x, d) /\ Raise(x, count[x] - 1, a)
     \/ /\ ~LastIs(x, d)
        /\ \E i \in Matches(x, d) : /\ \A j \in Matches(x, d) : i <= j
                                    /\ Raise(x, i, a)
     \/ ~LastIs(x, d) /\ Matches(x, d) = {} /\ AddEntry(x, Posting(d, a))
  /\ UNCHANGED live /\ returned' = NoEntry

\* addUnchecked: the last entry or a new one.
AddToLast(x, d, a) ==
  /\ x \in live
  /\ \/ LastIs(x, d) /\ Raise(x, count[x] - 1, a)
     \/ ~LastIs(x, d) /\ AddEntry(x, Posting(d, a))
  /\ UNCHANGED live /\ returned' = NoEntry

\* pop_back: of an empty list, an empty string.
PopBack(x) ==
  /\ x \in live
  /\ \/ /\ count[x] > 0
        /\ count' = [count EXCEPT ![x] = @ - 1]
        /\ returned' = Cells(x)[count[x] - 1]
     \/ count[x] <= 0 /\ returned' = NoEntry /\ UNCHANGED count
  /\ UNCHANGED <<heap, live, data, capacity>>

\* truncate, and clear, which is truncate to 0.
Truncate(x, n) ==
  /\ x \in live
  /\ count' = [count EXCEPT ![x] = IF n < @ THEN n ELSE @]
  /\ UNCHANGED <<heap, live, data, capacity>> /\ returned' = NoEntry

Clear(x) == /\ x \in live
            /\ count' = [count EXCEPT ![x] = 0]
            /\ UNCHANGED <<heap, live, data, capacity>> /\ returned' = NoEntry

\* get: outside the list, an empty entry.
Get(x, i) ==
  /\ x \in live
  /\ returned' = IF i < 0 \/ i >= count[x] THEN NoEntry ELSE Cells(x)[i]
  /\ UNCHANGED <<heap, live, data, capacity, count>>

Next ==
  \/ \E x \in Name : Construct(x) \/ Destroy(x) \/ PopBack(x) \/ Clear(x)
  \/ \E x, y \in Name : Copy(x, y) \/ Assign(x, y)
  \/ \E x \in Name, d \in DocId, a \in Amount :
       Add(x, d, a) \/ AddFrequency(x, d, a) \/ AddToLast(x, d, a)
  \/ \E x \in Name, n \in 0 .. MaxCount : Truncate(x, n) \/ Get(x, n - 1)

Spec == Init /\ [][Next]_vars
-----------------------------------------------------------------------------
\* Every variable has its type; the cells of a block are as many as its capacity
\* says, and those below count hold entries that were put there.
TypeOK ==
  /\ live \subseteq Name
  /\ DOMAIN heap \subseteq Address
  /\ returned \in [doc : DocId \union {0}, freq : Nat]
  /\ data \in [Name -> Address \union {Null}]
  /\ capacity \in [Name -> Nat]
  /\ count \in [Name -> Nat]
  /\ \A x \in live :
       /\ capacity[x] > 0 /\ count[x] <= capacity[x]
       /\ data[x] \in DOMAIN heap
       /\ heap[data[x]] \in [0 .. capacity[x] - 1 -> [doc : DocId, freq : Nat] \union {Uninit}]
       /\ \A i \in 0 .. count[x] - 1 : heap[data[x]][i] # Uninit

\* Every block belongs to exactly one list: none is freed twice or used after it was
\* freed, none leaks, and no write to one list reaches another (the copy constructor
\* and operator= of DocFreqList.cpp:15-41).
BlocksOwned ==
  /\ \A b \in DOMAIN heap : \E x \in live : data[x] = b
  /\ \A x, y \in live : data[x] = data[y] => x = y

\* The arrays keep the promise of ListValues.
Value(x) == [i \in 1 .. count[x] |-> heap[data[x]][i - 1]]
Values == INSTANCE ListValues
            WITH value <- [x \in Name |-> IF x \in live THEN Value(x) ELSE EmptyList]
ListsAreValues == Values!ValuesSpec
=============================================================================
