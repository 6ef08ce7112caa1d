------------------------- MODULE GrowableList_proof -------------------------
(***************************************************************************)
(* For any number of lists, addresses and entries: the growable arrays     *)
(* never share, leak or lose a block, and they implement lists as values.  *)
(***************************************************************************)
EXTENDS GrowableList, SequenceTheorems, TLAPS

Cell == [doc : DocId, freq : Nat] \union {Uninit}

\* What TypeOK says of a block whose first n cells are in use.
Good(cells, cap, n) == /\ cap \in Nat /\ cap > 0 /\ n \in Nat /\ n <= cap
                       /\ cells \in [0 .. cap - 1 -> Cell]
                       /\ \A i \in 0 .. n - 1 : cells[i] # Uninit

IInv == TypeOK /\ BlocksOwned

Entries == [doc : DocId, freq : Nat]

\* The entries of the first n cells.
Read(cells, n) == [i \in 1 .. n |-> cells[i - 1]]

\* What a step does to the values: list x is now s, the others are what they were.
Became(x, s) == /\ Value(x)' = s
                /\ \A y \in live \ {x} : Value(y)' = Value(y)

LEMMA InitIInv == Init => IInv
BY DEF Init, IInv, TypeOK, BlocksOwned, NoEntry, Null

\* A list gets a block of its own in place of the one it had, if it had one.
LEMMA NewBlock ==
  ASSUME IInv, NEW x \in Name, NEW b \in Address, NEW cells, NEW cap, NEW n,
         Good(cells, cap, n),
         b \notin DOMAIN heap \/ (x \in live /\ b = data[x]),
         heap' = With(IF x \in live THEN Without(data[x]) ELSE heap, b, cells),
         Members(x, b, cap, n),
         live' = live \union {x},
         returned' = NoEntry
  PROVE  IInv' /\ Became(x, Read(cells, n))
<1> USE DEF IInv
<1>1. /\ data' = [data EXCEPT ![x] = b] /\ data' \in [Name -> Address \union {Null}]
      /\ capacity' = [capacity EXCEPT ![x] = cap] /\ capacity' \in [Name -> Nat]
      /\ count' = [count EXCEPT ![x] = n] /\ count' \in [Name -> Nat]
  BY DEF Members, TypeOK, Good
<1>2. DOMAIN heap' = (IF x \in live THEN DOMAIN heap \ {data[x]} ELSE DOMAIN heap) \union {b}
  BY DEF With, Without
<1>3. heap'[b] = cells
  BY DEF With
<1>4. \A y \in live \ {x} : /\ data[y] \in DOMAIN heap /\ data[y] # b
                            /\ x \in live => data[y] # data[x]
  BY DEF TypeOK, BlocksOwned
<1>5. \A y \in live \ {x} : data[y] \in DOMAIN heap' /\ heap'[data[y]] = heap[data[y]]
  BY <1>2, <1>4 DEF With, Without
<1>6. \A y \in live \ {x} : data'[y] = data[y] /\ capacity'[y] = capacity[y] /\ count'[y] = count[y]
  BY <1>1 DEF TypeOK
<1>7. data'[x] = b /\ capacity'[x] = cap /\ count'[x] = n
  BY <1>1 DEF TypeOK
<1>8. TypeOK'
  <2>1. ASSUME NEW y \in live'
        PROVE  /\ capacity'[y] > 0 /\ count'[y] <= capacity'[y]
               /\ data'[y] \in DOMAIN heap'
               /\ heap'[data'[y]] \in [0 .. capacity'[y] - 1 -> [doc : DocId, freq : Nat] \union {Uninit}]
               /\ \A i \in 0 .. count'[y] - 1 : heap'[data'[y]][i] # Uninit
    <3>1. CASE y = x
      BY <3>1, <1>2, <1>3, <1>7 DEF Good, Cell
    <3>2. CASE y # x
      <4>1. y \in live \ {x}
        BY <3>2
      <4>2. QED
        BY <4>1, <1>5, <1>6 DEF TypeOK
    <3>3. QED
      BY <3>1, <3>2
  <2>2. DOMAIN heap' \subseteq Address /\ live' \subseteq Name
    BY <1>2 DEF TypeOK
  <2>3. returned' \in [doc : DocId \union {0}, freq : Nat]
    BY DEF NoEntry
  <2>4. QED
    BY <1>1, <2>1, <2>2, <2>3 DEF TypeOK
<1>9. BlocksOwned'
  <2>1. ASSUME NEW c \in DOMAIN heap' PROVE \E y \in live' : data'[y] = c
    <3>1. CASE c = b
      BY <3>1, <1>7
    <3>2. CASE c # b
      <4>1. PICK y \in live : data[y] = c
        BY <3>2, <1>2 DEF BlocksOwned
      <4>2. y # x
        BY <4>1, <3>2, <1>2
      <4>3. QED
        BY <4>1, <4>2, <1>6
    <3>3. QED
      BY <3>1, <3>2
  <2>2. ASSUME NEW y \in live', NEW z \in live', data'[y] = data'[z] PROVE y = z
    BY <2>2, <1>4, <1>6, <1>7 DEF BlocksOwned
  <2>3. QED
    BY <2>1, <2>2 DEF BlocksOwned
<1>10. Became(x, Read(cells, n))
  BY <1>3, <1>5, <1>6, <1>7 DEF Became, Value, Read
<1>11. QED
  BY <1>8, <1>9, <1>10

\* A block stays where it is, its cells and the count of its list change.
LEMMA SameBlock ==
  ASSUME IInv, NEW x \in live, NEW cells, NEW n,
         Good(cells, capacity[x], n),
         heap' = [heap EXCEPT ![data[x]] = cells],
         Members(x, data[x], capacity[x], n),
         UNCHANGED live,
         returned' \in [doc : DocId \union {0}, freq : Nat]
  PROVE  IInv' /\ Became(x, Read(cells, n))
<1> USE DEF IInv
<1>1. x \in Name /\ data[x] \in DOMAIN heap
  BY DEF TypeOK
<1>2. /\ data' = data /\ capacity' = capacity
      /\ count' = [count EXCEPT ![x] = n] /\ count' \in [Name -> Nat]
  BY <1>1 DEF Members, TypeOK, Good
<1>3. DOMAIN heap' = DOMAIN heap /\ heap'[data[x]] = cells
  BY <1>1
<1>4. \A y \in live \ {x} : heap'[data[y]] = heap[data[y]] /\ count'[y] = count[y]
  <2>1. \A y \in live \ {x} : data[y] \in DOMAIN heap /\ data[y] # data[x] /\ y \in Name
    BY DEF TypeOK, BlocksOwned
  <2>2. QED
    BY <1>2, <2>1 DEF TypeOK
<1>5. count'[x] = n
  BY <1>1, <1>2 DEF TypeOK
<1>6. TypeOK'
  <2>1. ASSUME NEW y \in live
        PROVE  /\ capacity[y] > 0 /\ count'[y] <= capacity[y]
               /\ data[y] \in DOMAIN heap
               /\ heap'[data[y]] \in [0 .. capacity[y] - 1 -> [doc : DocId, freq : Nat] \union {Uninit}]
               /\ \A i \in 0 .. count'[y] - 1 : heap'[data[y]][i] # Uninit
    <3>1. CASE y = x
      BY <3>1, <1>1, <1>3, <1>5 DEF Good, Cell
    <3>2. CASE y # x
      BY <3>2, <1>4 DEF TypeOK
    <3>3. QED
      BY <3>1, <3>2
  <2>2. QED
    BY <1>2, <1>3, <2>1 DEF TypeOK
<1>7. BlocksOwned'
  BY <1>2, <1>3 DEF BlocksOwned
<1>8. Became(x, Read(cells, n))
  BY <1>2, <1>3, <1>4, <1>5 DEF Became, Value, Read
<1>9. QED
  BY <1>6, <1>7, <1>8

\* The first cells of a block that is copied are those of a list.
LEMMA BlockGood ==
  ASSUME TypeOK, NEW y \in live, NEW cap \in Nat, cap >= capacity[y]
  PROVE  Good(Block(cap, heap[data[y]], count[y]), cap, count[y])
<1>1. capacity[y] \in Nat /\ capacity[y] > 0 /\ count[y] \in Nat /\ count[y] <= capacity[y]
  BY DEF TypeOK
<1>2. \A i \in 0 .. count[y] - 1 : heap[data[y]][i] \in Cell \ {Uninit}
  <2>1. ASSUME NEW i \in 0 .. count[y] - 1 PROVE i \in 0 .. capacity[y] - 1
    BY <1>1
  <2>2. heap[data[y]] \in [0 .. capacity[y] - 1 -> Cell]
    BY DEF TypeOK, Cell
  <2>3. \A i \in 0 .. count[y] - 1 : heap[data[y]][i] # Uninit
    BY DEF TypeOK
  <2>4. QED
    BY <2>1, <2>2, <2>3
<1>3. Block(cap, heap[data[y]], count[y]) \in [0 .. cap - 1 -> Cell]
  BY <1>1, <1>2 DEF Block, Cell
<1>4. \A i \in 0 .. count[y] - 1 : Block(cap, heap[data[y]], count[y])[i] # Uninit
  BY <1>1, <1>2 DEF Block
<1>5. QED
  BY <1>1, <1>3, <1>4 DEF Good

\* An entry added behind the last one keeps the block good.
LEMMA PutGood ==
  ASSUME NEW cells, NEW cap, NEW n, Good(cells, cap, n), n < cap, Uninit \notin [doc : DocId, freq : Nat],
         NEW p \in [doc : DocId, freq : Nat]
  PROVE  Good([cells EXCEPT ![n] = p], cap, n + 1)
BY DEF Good, Cell

\* The used cells of a good block are a sequence of entries.
LEMMA ReadSeq ==
  ASSUME NEW cells, NEW cap, NEW n, Good(cells, cap, n)
  PROVE  /\ Read(cells, n) \in Seq(Entries)
         /\ Len(Read(cells, n)) = n
         /\ DOMAIN Read(cells, n) = 1 .. n
         /\ \A i \in 1 .. n : Read(cells, n)[i] = cells[i - 1]
<1>1. \A i \in 1 .. n : cells[i - 1] \in Entries
  <2>1. ASSUME NEW i \in 1 .. n PROVE cells[i - 1] \in Entries
    <3>1. i - 1 \in 0 .. cap - 1 /\ i - 1 \in 0 .. n - 1
      BY DEF Good
    <3>2. cells[i - 1] \in Cell /\ cells[i - 1] # Uninit
      BY <3>1 DEF Good
    <3>3. QED
      BY <3>2 DEF Cell, Entries
  <2>2. QED
    BY <2>1
<1>2. Read(cells, n) \in [1 .. n -> Entries]
  BY <1>1 DEF Read
<1>3. n \in Nat
  BY DEF Good
<1>4. Read(cells, n) \in Seq(Entries)
  BY <1>2, <1>3, SeqDef
<1>5. Len(Read(cells, n)) = n
  BY <1>2, <1>3, <1>4, LenProperties
<1>6. QED
  BY <1>2, <1>4, <1>5 DEF Read

LEMMA ListGood == ASSUME TypeOK, NEW x \in live PROVE Good(heap[data[x]], capacity[x], count[x])
BY DEF TypeOK, Good, Cell

LEMMA ValueSeq ==
  ASSUME TypeOK, NEW x \in live
  PROVE  /\ Value(x) \in Seq(Entries)
         /\ Len(Value(x)) = count[x] /\ count[x] \in Nat
         /\ DOMAIN Value(x) = 1 .. count[x]
         /\ \A i \in 1 .. count[x] : Value(x)[i] = heap[data[x]][i - 1]
<1>1. Value(x) = Read(heap[data[x]], count[x])
  BY DEF Value, Read
<1>2. QED
  BY <1>1, ListGood, ReadSeq DEF Good

LEMMA ReadBlock ==
  ASSUME TypeOK, NEW y \in live, NEW cap \in Nat, cap >= capacity[y]
  PROVE  Read(Block(cap, heap[data[y]], count[y]), count[y]) = Value(y)
<1>1. count[y] \in Nat /\ capacity[y] \in Nat /\ count[y] <= capacity[y]
  BY DEF TypeOK
<1>2. \A i \in 1 .. count[y] :
        Block(cap, heap[data[y]], count[y])[i - 1] = heap[data[y]][i - 1]
  BY <1>1 DEF Block
<1>3. QED
  BY <1>2 DEF Read, Value

LEMMA ReadPut ==
  ASSUME NEW cells, NEW cap, NEW n, Good(cells, cap, n), n < cap, NEW p \in Entries
  PROVE  Read([cells EXCEPT ![n] = p], n + 1) = Append(Read(cells, n), p)
<1> DEFINE c == [cells EXCEPT ![n] = p]
           s == Read(cells, n)
<1>1. /\ n \in Nat /\ cap \in Nat /\ n \in 0 .. cap - 1
      /\ \A j \in 0 .. cap - 1 : c[j] = IF j = n THEN p ELSE cells[j]
  <2>1. n \in Nat /\ cap \in Nat /\ cells \in [0 .. cap - 1 -> Cell]
    BY DEF Good
  <2>2. n \in 0 .. cap - 1
    BY <2>1
  <2>3. QED
    BY <2>1, <2>2
<1>2. s \in Seq(Entries) /\ Len(s) = n /\ \A i \in 1 .. n : s[i] = cells[i - 1]
  BY ReadSeq
<1>3. Good(c, cap, n + 1)
  BY PutGood, CellAssumption DEF Entries
<1>4. /\ Read(c, n + 1) \in Seq(Entries) /\ Len(Read(c, n + 1)) = n + 1
      /\ \A i \in 1 .. n + 1 : Read(c, n + 1)[i] = c[i - 1]
  <2> HIDE DEF c, s
  <2>1. QED
    BY <1>3, ReadSeq
<1>5. /\ Append(s, p) \in Seq(Entries) /\ Len(Append(s, p)) = n + 1
      /\ \A i \in 1 .. n : Append(s, p)[i] = s[i]
      /\ Append(s, p)[n + 1] = p
  BY <1>2, AppendProperties
<1>6. ASSUME NEW i \in 1 .. n + 1 PROVE Read(c, n + 1)[i] = Append(s, p)[i]
  <2>1. CASE i = n + 1
    <3>1. i - 1 = n /\ c[n] = p
      BY <1>1, <2>1
    <3>2. Read(c, n + 1)[i] = c[n]
      BY <1>4, <3>1
    <3>3. QED
      BY <1>5, <2>1, <3>1, <3>2
  <2>2. CASE i # n + 1
    <3>1. i \in 1 .. n /\ i - 1 \in 0 .. cap - 1 /\ i - 1 # n
      BY <1>1, <2>2
    <3>2. c[i - 1] = cells[i - 1]
      BY <1>1, <3>1
    <3>3. QED
      BY <1>2, <1>4, <1>5, <3>1, <3>2
  <2>3. QED
    BY <2>1, <2>2
<1> HIDE DEF c, s
<1>7. Read(c, n + 1) = Append(s, p)
  BY <1>4, <1>5, <1>6, SeqEqual
<1>8. QED
  BY <1>7 DEF c, s

LEMMA ConstructStep ==
  ASSUME IInv, NEW x \in Name, Construct(x)
  PROVE  IInv' /\ Became(x, EmptyList)
<1>1. PICK b \in Address \ DOMAIN heap :
        /\ heap' = With(heap, b, Block(InitialCapacity, <<>>, 0))
        /\ Members(x, b, InitialCapacity, 0)
  BY DEF Construct
<1>2. Good(Block(InitialCapacity, <<>>, 0), InitialCapacity, 0)
  BY CapacityAssumption DEF Good, Block, Cell
<1>3. /\ x \notin live /\ live' = live \union {x} /\ returned' = NoEntry
      /\ heap' = With(IF x \in live THEN Without(data[x]) ELSE heap, b,
                      Block(InitialCapacity, <<>>, 0))
  BY <1>1 DEF Construct
<1>4. Read(Block(InitialCapacity, <<>>, 0), 0) = EmptyList
  BY DEF Read, EmptyList
<1>5. QED
  BY <1>1, <1>2, <1>3, <1>4, NewBlock

LEMMA CopyStep ==
  ASSUME IInv, NEW x \in Name, NEW y \in Name, Copy(x, y)
  PROVE  IInv' /\ Became(x, Value(y))
<1>1. PICK b \in Address \ DOMAIN heap :
        /\ heap' = With(heap, b, Block(capacity[y], heap[data[y]], count[y]))
        /\ Members(x, b, capacity[y], count[y])
  BY DEF Copy
<1>2. Good(Block(capacity[y], heap[data[y]], count[y]), capacity[y], count[y])
  BY BlockGood DEF Copy, IInv, TypeOK
<1>3. /\ x \notin live /\ live' = live \union {x} /\ returned' = NoEntry
      /\ heap' = With(IF x \in live THEN Without(data[x]) ELSE heap, b,
                      Block(capacity[y], heap[data[y]], count[y]))
  BY <1>1 DEF Copy
<1>4. Read(Block(capacity[y], heap[data[y]], count[y]), count[y]) = Value(y)
  BY ReadBlock DEF Copy, IInv, TypeOK
<1>5. QED
  BY <1>1, <1>2, <1>3, <1>4, NewBlock

LEMMA AssignStep ==
  ASSUME IInv, NEW x \in Name, NEW y \in Name, Assign(x, y)
  PROVE  IInv' /\ Became(x, Value(y))
<1>1. CASE x = y
  <2>1. UNCHANGED <<heap, live, data, capacity, count>> /\ returned' = NoEntry
    BY <1>1 DEF Assign
  <2>2. QED
    BY <1>1, <2>1 DEF IInv, TypeOK, BlocksOwned, NoEntry, Became, Value
<1>2. CASE x # y
  <2>1. PICK b \in Address \ (DOMAIN heap \ {data[x]}) :
          /\ heap' = With(Without(data[x]), b, Block(capacity[y], heap[data[y]], count[y]))
          /\ Members(x, b, capacity[y], count[y])
    BY <1>2 DEF Assign
  <2>2. Good(Block(capacity[y], heap[data[y]], count[y]), capacity[y], count[y])
    BY BlockGood DEF Assign, IInv, TypeOK
  <2>3. /\ x \in live /\ live' = live \union {x} /\ returned' = NoEntry
        /\ b \notin DOMAIN heap \/ (x \in live /\ b = data[x])
        /\ heap' = With(IF x \in live THEN Without(data[x]) ELSE heap, b,
                        Block(capacity[y], heap[data[y]], count[y]))
    BY <2>1 DEF Assign
  <2>4. Read(Block(capacity[y], heap[data[y]], count[y]), count[y]) = Value(y)
    BY ReadBlock DEF Assign, IInv, TypeOK
  <2>5. QED
    BY <2>1, <2>2, <2>3, <2>4, NewBlock
<1>3. QED
  BY <1>1, <1>2

LEMMA DestroyStep ==
  ASSUME IInv, NEW x \in Name, Destroy(x)
  PROVE  IInv' /\ \A y \in live \ {x} : Value(y)' = Value(y)
<1> USE DEF IInv
<1>1. \A y \in live' : y \in live /\ y # x /\ data[y] # data[x] /\ data[y] \in DOMAIN heap
  BY DEF Destroy, TypeOK, BlocksOwned
<1>2. \A y \in live' : /\ data'[y] = data[y] /\ capacity'[y] = capacity[y] /\ count'[y] = count[y]
                       /\ data[y] \in DOMAIN heap' /\ heap'[data[y]] = heap[data[y]]
  BY <1>1 DEF Destroy, Members, TypeOK, Without
<1>3. TypeOK'
  BY <1>1, <1>2 DEF Destroy, Members, TypeOK, Without, NoEntry, Null
<1>4. BlocksOwned'
  <2>1. DOMAIN heap' = DOMAIN heap \ {data[x]}
    BY DEF Destroy, Without
  <2>2. ASSUME NEW c \in DOMAIN heap' PROVE \E y \in live' : data'[y] = c
    <3>1. PICK y \in live : data[y] = c
      BY <2>1 DEF BlocksOwned
    <3>2. QED
      BY <3>1, <2>1, <1>2 DEF Destroy
  <2>3. QED
    BY <1>1, <1>2, <2>2 DEF BlocksOwned
<1>5. \A y \in live \ {x} : Value(y)' = Value(y)
  BY <1>2 DEF Destroy, Value
<1>6. QED
  BY <1>3, <1>4, <1>5

LEMMA AddEntryStep ==
  ASSUME IInv, NEW x \in live, NEW p \in [doc : DocId, freq : Nat],
         AddEntry(x, p), UNCHANGED live, returned' = NoEntry
  PROVE  IInv' /\ Became(x, Append(Value(x), p))
<1> USE DEF IInv
<1>1. /\ x \in Name /\ data[x] \in DOMAIN heap
      /\ capacity[x] \in Nat /\ capacity[x] > 0 /\ count[x] \in Nat /\ count[x] <= capacity[x]
  BY DEF TypeOK
<1>2. Good(heap[data[x]], capacity[x], count[x])
  BY <1>1 DEF TypeOK, Good, Cell
<1>3. NoEntry \in [doc : DocId \union {0}, freq : Nat]
  BY DEF NoEntry
<1>7. Value(x) = Read(heap[data[x]], count[x])
  BY DEF Value, Read
<1>4. CASE /\ count[x] # capacity[x]
           /\ heap' = [heap EXCEPT ![data[x]][count[x]] = p]
           /\ Members(x, data[x], capacity[x], count[x] + 1)
  <2>1. Good([heap[data[x]] EXCEPT ![count[x]] = p], capacity[x], count[x] + 1)
    BY <1>1, <1>2, <1>4, PutGood, CellAssumption
  <2>2. heap' = [heap EXCEPT ![data[x]] = [heap[data[x]] EXCEPT ![count[x]] = p]]
    BY <1>1, <1>4
  <2>3. Read([heap[data[x]] EXCEPT ![count[x]] = p], count[x] + 1) = Append(Value(x), p)
    <3>1. count[x] < capacity[x] /\ p \in Entries
      BY <1>1, <1>4 DEF Entries
    <3>2. QED
      BY <1>2, <1>7, <3>1, ReadPut
  <2>4. IInv' /\ Became(x, Read([heap[data[x]] EXCEPT ![count[x]] = p], count[x] + 1))
    BY <1>3, <1>4, <2>1, <2>2, SameBlock
  <2>5. QED
    BY <2>3, <2>4 DEF Became
<1>5. ASSUME count[x] = capacity[x],
             NEW b \in Address \ DOMAIN heap,
             heap' = With(Without(data[x]), b,
                          [Block(2 * capacity[x], heap[data[x]], count[x]) EXCEPT ![count[x]] = p]),
             Members(x, b, 2 * capacity[x], count[x] + 1)
      PROVE  IInv' /\ Became(x, Append(Value(x), p))
  <2>1. Good(Block(2 * capacity[x], heap[data[x]], count[x]), 2 * capacity[x], count[x])
    BY <1>1, BlockGood
  <2>2. Good([Block(2 * capacity[x], heap[data[x]], count[x]) EXCEPT ![count[x]] = p],
             2 * capacity[x], count[x] + 1)
    BY <1>1, <1>5, <2>1, PutGood, CellAssumption
  <2>3. /\ live' = live \union {x}
        /\ heap' = With(IF x \in live THEN Without(data[x]) ELSE heap, b,
                        [Block(2 * capacity[x], heap[data[x]], count[x]) EXCEPT ![count[x]] = p])
    BY <1>5
  <2>4. Read(Block(2 * capacity[x], heap[data[x]], count[x]), count[x]) = Value(x)
    BY <1>1, ReadBlock
  <2>5. Read([Block(2 * capacity[x], heap[data[x]], count[x]) EXCEPT ![count[x]] = p],
             count[x] + 1) = Append(Value(x), p)
    <3>1. count[x] < 2 * capacity[x] /\ p \in Entries
      BY <1>1, <1>5 DEF Entries
    <3>2. QED
      BY <2>1, <2>4, <3>1, ReadPut
  <2> DEFINE cells == [Block(2 * capacity[x], heap[data[x]], count[x]) EXCEPT ![count[x]] = p]
  <2>6. IInv' /\ Became(x, Read(cells, count[x] + 1))
    <3>1. 2 * capacity[x] \in Nat /\ count[x] + 1 \in Nat /\ b \notin DOMAIN heap /\ b \in Address
      BY <1>1
    <3>2. Good(cells, 2 * capacity[x], count[x] + 1)
      BY <2>2
    <3>3. /\ heap' = With(IF x \in live THEN Without(data[x]) ELSE heap, b, cells)
          /\ live' = live \union {x} /\ returned' = NoEntry /\ x \in Name
      BY <1>1, <2>3
    <3>4. Members(x, b, 2 * capacity[x], count[x] + 1)
      BY <1>5
    <3> HIDE DEF cells
    <3>5. QED
      BY <3>1, <3>2, <3>3, <3>4, NewBlock
  <2>7. QED
    BY <2>5, <2>6 DEF Became
<1>6. QED
  BY <1>4, <1>5 DEF AddEntry

LEMMA RaiseStep ==
  ASSUME IInv, NEW x \in live, NEW i \in 0 .. count[x] - 1, NEW a \in Amount,
         Raise(x, i, a), UNCHANGED live, returned' = NoEntry
  PROVE  /\ IInv'
         /\ Became(x, [Value(x) EXCEPT ![i + 1] = Posting(@.doc, @.freq + a)])
<1> USE DEF IInv
<1>1. /\ x \in Name /\ data[x] \in DOMAIN heap
      /\ capacity[x] \in Nat /\ capacity[x] > 0 /\ count[x] \in Nat /\ count[x] <= capacity[x]
  BY DEF TypeOK
<1>2. Good(heap[data[x]], capacity[x], count[x])
  BY <1>1 DEF TypeOK, Good, Cell
<1> DEFINE old == heap[data[x]][i]
           cells == [heap[data[x]] EXCEPT ![i] = Posting(old.doc, old.freq + a)]
<1>3. old \in [doc : DocId, freq : Nat]
  <2>1. i \in 0 .. capacity[x] - 1
    BY <1>1
  <2>2. old \in Cell /\ old # Uninit
    BY <1>2, <2>1 DEF Good
  <2>3. QED
    BY <2>2 DEF Cell
<1>4. Posting(old.doc, old.freq + a) \in [doc : DocId, freq : Nat]
  BY <1>3, AmountAssumption DEF Posting
<1>5. Good(cells, capacity[x], count[x])
  BY <1>1, <1>2, <1>4, CellAssumption DEF Good, Cell
<1>6. heap' = [heap EXCEPT ![data[x]] = cells]
  BY <1>1 DEF Raise
<1>7. Members(x, data[x], capacity[x], count[x])
  BY <1>1 DEF Raise, Members, TypeOK
<1>8. NoEntry \in [doc : DocId \union {0}, freq : Nat]
  BY DEF NoEntry
<1>9. IInv' /\ Became(x, Read(cells, count[x]))
  BY <1>5, <1>6, <1>7, <1>8, SameBlock
<1>10. Read(cells, count[x]) = [Value(x) EXCEPT ![i + 1] = Posting(@.doc, @.freq + a)]
  <2>1. /\ Value(x) = [j \in 1 .. count[x] |-> heap[data[x]][j - 1]]
        /\ Value(x)[i + 1] = old /\ i + 1 \in 1 .. count[x]
    BY <1>1 DEF Value
  <2>2. \A j \in 1 .. count[x] : cells[j - 1] =
          IF j = i + 1 THEN Posting(old.doc, old.freq + a) ELSE heap[data[x]][j - 1]
    <3>1. ASSUME NEW j \in 1 .. count[x]
          PROVE  j - 1 \in 0 .. capacity[x] - 1 /\ (j = i + 1 <=> j - 1 = i)
      BY <1>1
    <3>2. heap[data[x]] \in [0 .. capacity[x] - 1 -> Cell]
      BY <1>2 DEF Good
    <3>3. QED
      BY <3>1, <3>2
  <2>3. QED
    BY <2>1, <2>2 DEF Read
<1>11. QED
  BY <1>9, <1>10

LEMMA PostingType ==
  ASSUME NEW d \in DocId, NEW a \in Amount
  PROVE  Posting(d, a) \in [doc : DocId, freq : Nat]
BY AmountAssumption DEF Posting

\* The steps that only look or only lower a count.
LEMMA CountStep ==
  ASSUME IInv, NEW x \in live, NEW n \in Nat, n <= count[x],
         count' = [count EXCEPT ![x] = n],
         UNCHANGED <<heap, live, data, capacity>>,
         returned' \in [doc : DocId \union {0}, freq : Nat]
  PROVE  IInv' /\ Became(x, SubSeq(Value(x), 1, n))
<1> USE DEF IInv
<1>1. count' \in [Name -> Nat] /\ \A y \in live : count'[y] <= count[y]
  BY DEF TypeOK
<1>2. TypeOK'
  BY <1>1 DEF TypeOK
<1>3. BlocksOwned'
  BY DEF BlocksOwned
<1>4. /\ Value(x) \in Seq(Entries) /\ Len(Value(x)) = count[x] /\ count[x] \in Nat
      /\ DOMAIN Value(x) = 1 .. count[x]
      /\ \A k \in 1 .. count[x] : Value(x)[k] = heap[data[x]][k - 1]
  BY ValueSeq
<1>5. \A k \in 1 .. n : k \in 1 .. count[x] /\ Value(x)[k] \in Entries
  BY <1>4, ElementOfSeq
<1>6. /\ SubSeq(Value(x), 1, n) \in Seq(Entries)
      /\ Len(SubSeq(Value(x), 1, n)) = n
      /\ \A k \in 1 .. n : SubSeq(Value(x), 1, n)[k] = Value(x)[k]
  BY <1>5, SubSeqProperties
<1>7. x \in live' /\ TypeOK' /\ count'[x] = n /\ heap'[data'[x]] = heap[data[x]]
  BY <1>2 DEF TypeOK
<1>8. /\ Value(x)' \in Seq(Entries) /\ Len(Value(x)') = n
      /\ \A k \in 1 .. n : Value(x)'[k] = heap[data[x]][k - 1]
  <2>1. Good(heap[data[x]], capacity[x], n)
    BY <1>4, ListGood DEF Good
  <2>2. Value(x)' = Read(heap[data[x]], n)
    BY <1>7 DEF Value, Read
  <2>3. QED
    BY <2>1, <2>2, ReadSeq
<1>9. Value(x)' = SubSeq(Value(x), 1, n)
  <2>1. \A k \in 1 .. n : Value(x)'[k] = SubSeq(Value(x), 1, n)[k]
    BY <1>4, <1>5, <1>6, <1>8
  <2>2. QED
    BY <1>6, <1>8, <2>1, SeqEqual
<1>10. \A y \in live \ {x} : Value(y)' = Value(y)
  <2>1. \A y \in live \ {x} : count'[y] = count[y]
    BY DEF TypeOK
  <2>2. QED
    BY <2>1 DEF Value
<1>11. QED
  BY <1>2, <1>3, <1>9, <1>10 DEF Became

LEMMA AddStep ==
  ASSUME IInv, NEW x \in Name, NEW d \in DocId, NEW a \in Amount, Add(x, d, a)
  PROVE  IInv' /\ Became(x, Append(Value(x), Posting(d, a)))
<1>1. /\ x \in live /\ AddEntry(x, Posting(d, a)) /\ UNCHANGED live /\ returned' = NoEntry
  BY DEF Add
<1>2. Posting(d, a) \in [doc : DocId, freq : Nat]
  BY PostingType
<1>3. QED
  BY <1>1, <1>2, AddEntryStep

\* How the test of the last entry and the loop read in terms of the value.
LEMMA HoldersOfValue ==
  ASSUME TypeOK, NEW x \in live, NEW d
  PROVE  /\ LastIs(x, d) <=> count[x] > 0 /\ Value(x)[count[x]].doc = d
         /\ Matches(x, d) = {i \in 0 .. count[x] - 2 : Value(x)[i + 1].doc = d}
<1>1. count[x] \in Nat
  BY DEF TypeOK
<1>2. \A i \in 0 .. count[x] - 1 : Value(x)[i + 1] = heap[data[x]][i]
  BY <1>1 DEF Value
<1>3. count[x] > 0 => Value(x)[count[x]] = heap[data[x]][count[x] - 1]
  BY <1>1 DEF Value
<1>4. \A i \in 0 .. count[x] - 2 : i \in 0 .. count[x] - 1
  BY <1>1
<1>5. Matches(x, d) = {i \in 0 .. count[x] - 2 : Value(x)[i + 1].doc = d}
  BY <1>2, <1>4 DEF Matches, Cells
<1>6. QED
  BY <1>3, <1>5 DEF LastIs, Cells

LEMMA RaisedValue ==
  ASSUME IInv, NEW x \in live, NEW d \in DocId, NEW a \in Amount, NEW i \in 0 .. count[x] - 1,
         Raise(x, i, a), UNCHANGED live, returned' = NoEntry, Value(x)[i + 1].doc = d
  PROVE  IInv' /\ Became(x, [Value(x) EXCEPT ![i + 1] = Posting(d, @.freq + a)])
<1>1. IInv' /\ Became(x, [Value(x) EXCEPT ![i + 1] = Posting(@.doc, @.freq + a)])
  BY RaiseStep
<1>2. [Value(x) EXCEPT ![i + 1] = Posting(@.doc, @.freq + a)]
        = [Value(x) EXCEPT ![i + 1] = Posting(d, @.freq + a)]
  OBVIOUS
<1>3. QED
  BY <1>1, <1>2 DEF Became

LEMMA AddFrequencyStep ==
  ASSUME IInv, NEW x \in Name, NEW d \in DocId, NEW a \in Amount, AddFrequency(x, d, a)
  PROVE  IInv' /\ Became(x, Values!AddedFrequency(Value(x), d, a))
<1> DEFINE s == Value(x)
           H == Values!Holders(s, d)
<1>1. x \in live /\ UNCHANGED live /\ returned' = NoEntry
  BY DEF AddFrequency
<1>2. /\ DOMAIN s = 1 .. count[x] /\ Len(s) = count[x] /\ count[x] \in Nat
      /\ LastIs(x, d) <=> count[x] > 0 /\ s[count[x]].doc = d
      /\ Matches(x, d) = {i \in 0 .. count[x] - 2 : s[i + 1].doc = d}
  BY <1>1, ValueSeq, HoldersOfValue DEF IInv
<1>3. H = {i \in 1 .. count[x] : s[i].doc = d}
  BY <1>2 DEF Values!Holders
<1>4. \A e, n : Values!Posting(e, n) = Posting(e, n)
  BY DEF Posting, Values!Posting
<1> HIDE DEF s, H
<1>5. LastIs(x, d) <=> count[x] \in H
  BY <1>2, <1>3
<1>6. CASE LastIs(x, d) /\ Raise(x, count[x] - 1, a)
  <2>1. /\ count[x] - 1 \in 0 .. count[x] - 1 /\ count[x] - 1 + 1 = count[x]
        /\ Value(x)[count[x] - 1 + 1].doc = d
    BY <1>2, <1>6 DEF s
  <2>2. IInv' /\ Became(x, [Value(x) EXCEPT ![count[x] - 1 + 1] = Posting(d, @.freq + a)])
    BY <1>1, <1>6, <2>1, RaisedValue
  <2>3. Values!AddedFrequency(s, d, a) = [s EXCEPT ![count[x]] = Posting(d, @.freq + a)]
    BY <1>2, <1>4, <1>5, <1>6 DEF Values!AddedFrequency, Values!Found, H
  <2>4. QED
    BY <2>1, <2>2, <2>3 DEF Became, s
<1>7. ASSUME ~LastIs(x, d),
             NEW i \in Matches(x, d), \A j \in Matches(x, d) : i <= j, Raise(x, i, a)
      PROVE  IInv' /\ Became(x, Values!AddedFrequency(Value(x), d, a))
  <2>1. i \in 0 .. count[x] - 1 /\ i + 1 \in H /\ s[i + 1].doc = d
    BY <1>2, <1>3
  <2>2. IInv' /\ Became(x, [Value(x) EXCEPT ![i + 1] = Posting(d, @.freq + a)])
    BY <1>1, <1>7, <2>1, RaisedValue DEF s
  <2>3. \A k \in H : i + 1 <= k
    <3>1. ASSUME NEW k \in H PROVE i + 1 <= k
      <4>1. k \in 1 .. count[x] /\ k # count[x] /\ s[k].doc = d
        BY <1>3, <1>5, <1>7
      <4>2. k - 1 \in 0 .. count[x] - 2 /\ (k - 1) + 1 = k
        BY <1>2, <4>1
      <4>3. k - 1 \in Matches(x, d)
        BY <1>2, <4>1, <4>2
      <4>4. QED
        BY <1>7, <2>1, <4>1, <4>3
    <3>2. QED
      BY <3>1
  <2>4. (CHOOSE k \in H : \A j \in H : k <= j) = i + 1
    <3>1. ASSUME NEW k \in H, \A j \in H : k <= j PROVE k = i + 1
      BY <1>2, <1>3, <2>1, <2>3, <3>1
    <3>2. QED
      BY <2>1, <2>3, <3>1
  <2>5. Values!Found(s, d) = i + 1
    BY <1>2, <1>5, <1>7, <2>4 DEF Values!Found, H
  <2>6. Values!AddedFrequency(s, d, a) = [s EXCEPT ![i + 1] = Posting(d, @.freq + a)]
    BY <1>4, <2>1, <2>5 DEF Values!AddedFrequency, H
  <2>7. QED
    BY <2>2, <2>6 DEF Became, s
<1>8. CASE ~LastIs(x, d) /\ Matches(x, d) = {} /\ AddEntry(x, Posting(d, a))
  <2>1. IInv' /\ Became(x, Append(Value(x), Posting(d, a)))
    BY <1>1, <1>8, AddEntryStep, PostingType
  <2>2. H = {}
    <3>1. ASSUME NEW k \in H PROVE FALSE
      <4>1. k \in 1 .. count[x] /\ k # count[x] /\ s[k].doc = d
        BY <1>3, <1>5, <1>8
      <4>2. k - 1 \in 0 .. count[x] - 2 /\ (k - 1) + 1 = k
        BY <1>2, <4>1
      <4>3. k - 1 \in Matches(x, d)
        BY <1>2, <4>1, <4>2
      <4>4. QED
        BY <1>8, <4>3
    <3>2. QED
      BY <3>1
  <2>3. Values!AddedFrequency(s, d, a) = Append(s, Posting(d, a))
    BY <1>4, <2>2 DEF Values!AddedFrequency, H
  <2>4. QED
    BY <2>1, <2>3 DEF Became, s
<1>9. QED
  BY <1>6, <1>7, <1>8 DEF AddFrequency

LEMMA AddToLastStep ==
  ASSUME IInv, NEW x \in Name, NEW d \in DocId, NEW a \in Amount, AddToLast(x, d, a)
  PROVE  IInv' /\ Became(x, Values!AddUnchecked(Value(x), d, a))
<1> DEFINE s == Value(x)
<1>1. x \in live /\ UNCHANGED live /\ returned' = NoEntry
  BY DEF AddToLast
<1>2. /\ Len(s) = count[x] /\ count[x] \in Nat /\ s \in Seq(Entries)
      /\ LastIs(x, d) <=> count[x] > 0 /\ s[count[x]].doc = d
  BY <1>1, ValueSeq, HoldersOfValue DEF IInv
<1>3. \A e, n : Values!Posting(e, n) = Posting(e, n)
  BY DEF Posting, Values!Posting
<1>4. s # <<>> <=> count[x] > 0
  BY <1>2, EmptySeq
<1>5. Values!EndsWith(s, d) <=> LastIs(x, d)
  BY <1>2, <1>4 DEF Values!EndsWith, Values!EmptyList
<1>6. CASE LastIs(x, d) /\ Raise(x, count[x] - 1, a)
  <2>1. /\ count[x] - 1 \in 0 .. count[x] - 1 /\ count[x] - 1 + 1 = count[x]
        /\ Value(x)[count[x] - 1 + 1].doc = d
    BY <1>2, <1>6
  <2>2. IInv' /\ Became(x, [Value(x) EXCEPT ![count[x] - 1 + 1] = Posting(d, @.freq + a)])
    BY <1>1, <1>6, <2>1, RaisedValue
  <2>3. Values!AddUnchecked(s, d, a) = [s EXCEPT ![count[x]] = Posting(d, @.freq + a)]
    BY <1>2, <1>3, <1>5, <1>6 DEF Values!AddUnchecked
  <2>4. QED
    BY <2>1, <2>2, <2>3 DEF Became
<1>7. CASE ~LastIs(x, d) /\ AddEntry(x, Posting(d, a))
  <2>1. IInv' /\ Became(x, Append(Value(x), Posting(d, a)))
    BY <1>1, <1>7, AddEntryStep, PostingType
  <2>2. Values!AddUnchecked(s, d, a) = Append(s, Posting(d, a))
    BY <1>3, <1>5, <1>7 DEF Values!AddUnchecked
  <2>3. QED
    BY <2>1, <2>2 DEF Became
<1>8. QED
  BY <1>6, <1>7 DEF AddToLast

\* truncate as the abstract list has it.
LEMMA TruncatedValue ==
  ASSUME TypeOK, NEW x \in live, NEW n \in Int
  PROVE  Values!Truncated(Value(x), n) = SubSeq(Value(x), 1, IF n < count[x] THEN n ELSE count[x])
<1>1. Value(x) \in Seq(Entries) /\ Len(Value(x)) = count[x]
  BY ValueSeq
<1>2. SubSeq(Value(x), 1, count[x]) = Value(x)
  BY <1>1, SubSeqFull
<1>3. QED
  BY <1>1, <1>2 DEF Values!Truncated

LEMMA TruncateStep ==
  ASSUME IInv, NEW x \in Name, NEW n \in 0 .. MaxCount, Truncate(x, n)
  PROVE  IInv' /\ Became(x, Values!Truncated(Value(x), n))
<1>1. x \in live /\ count[x] \in Nat /\ n \in Nat
  BY CapacityAssumption DEF Truncate, IInv, TypeOK
<1>2. returned' \in [doc : DocId \union {0}, freq : Nat]
  BY DEF Truncate, NoEntry
<1> DEFINE m == IF n < count[x] THEN n ELSE count[x]
<1>3. m \in Nat /\ m <= count[x]
  BY <1>1
<1>4. count' = [count EXCEPT ![x] = m] /\ UNCHANGED <<heap, live, data, capacity>>
  BY DEF Truncate
<1>5. Values!Truncated(Value(x), n) = SubSeq(Value(x), 1, m)
  BY <1>1, TruncatedValue DEF IInv
<1> HIDE DEF m
<1>6. IInv' /\ Became(x, SubSeq(Value(x), 1, m))
  BY <1>1, <1>2, <1>3, <1>4, CountStep
<1>7. QED
  BY <1>5, <1>6 DEF Became

LEMMA ClearStep ==
  ASSUME IInv, NEW x \in Name, Clear(x)
  PROVE  IInv' /\ Became(x, Values!Truncated(Value(x), 0))
<1>1. x \in live /\ count[x] \in Nat /\ 0 \in Nat /\ 0 <= count[x]
  BY DEF Clear, IInv, TypeOK
<1>2. returned' \in [doc : DocId \union {0}, freq : Nat]
  BY DEF Clear, NoEntry
<1>3. count' = [count EXCEPT ![x] = 0] /\ UNCHANGED <<heap, live, data, capacity>>
  BY DEF Clear
<1>4. Values!Truncated(Value(x), 0) = SubSeq(Value(x), 1, 0)
  BY <1>1, TruncatedValue DEF IInv
<1>5. IInv' /\ Became(x, SubSeq(Value(x), 1, 0))
  BY <1>1, <1>2, <1>3, CountStep
<1>6. QED
  BY <1>4, <1>5 DEF Became

LEMMA PopBackStep ==
  ASSUME IInv, NEW x \in Name, PopBack(x)
  PROVE  /\ IInv'
         /\ Became(x, Values!Truncated(Value(x), count[x] - 1))
         /\ returned' = IF count[x] > 0 THEN Value(x)[count[x]] ELSE NoEntry
<1>1. x \in live /\ count[x] \in Nat
  BY DEF PopBack, IInv, TypeOK
<1>2. Value(x) \in Seq(Entries) /\ Len(Value(x)) = count[x]
      /\ \A k \in 1 .. count[x] : Value(x)[k] = heap[data[x]][k - 1]
  BY <1>1, ValueSeq DEF IInv
<1>3. Values!Truncated(Value(x), count[x] - 1) = SubSeq(Value(x), 1, count[x] - 1)
  <2>1. count[x] - 1 \in Int /\ count[x] - 1 < count[x] /\ TypeOK
    BY <1>1 DEF IInv
  <2>2. QED
    BY <1>1, <2>1, TruncatedValue
<1>4. CASE count[x] > 0
  <2>1. /\ count[x] - 1 \in Nat /\ count[x] - 1 <= count[x]
        /\ count' = [count EXCEPT ![x] = count[x] - 1]
        /\ UNCHANGED <<heap, live, data, capacity>>
    BY <1>1, <1>4 DEF PopBack
  <2>2. returned' = Value(x)[count[x]] /\ count[x] \in 1 .. count[x]
    BY <1>1, <1>2, <1>4 DEF PopBack, Cells
  <2>3. returned' \in [doc : DocId \union {0}, freq : Nat]
    <3>1. returned' \in Entries
      BY <1>2, <2>2, ElementOfSeq
    <3>2. QED
      BY <3>1 DEF Entries
  <2>4. IInv' /\ Became(x, SubSeq(Value(x), 1, count[x] - 1))
    BY <1>1, <2>1, <2>3, CountStep
  <2>5. QED
    BY <1>3, <1>4, <2>2, <2>4 DEF Became
<1>5. CASE count[x] <= 0
  <2>1. count[x] = 0 /\ UNCHANGED <<heap, live, data, capacity, count>> /\ returned' = NoEntry
    BY <1>1, <1>5 DEF PopBack
  <2>2. IInv'
    BY <2>1 DEF IInv, TypeOK, BlocksOwned, NoEntry
  <2>3. Value(x) = <<>> /\ SubSeq(Value(x), 1, count[x] - 1) = <<>>
    BY <1>2, <2>1, EmptySeq, SubSeqEmpty
  <2>4. Became(x, <<>>)
    BY <2>1, <2>3 DEF Became, Value
  <2>5. QED
    BY <1>3, <1>5, <2>1, <2>2, <2>3, <2>4 DEF Became
<1>6. QED
  BY <1>1, <1>4, <1>5

LEMMA GetStep ==
  ASSUME IInv, NEW x \in Name, NEW n \in 0 .. MaxCount, Get(x, n - 1)
  PROVE  /\ IInv' /\ UNCHANGED <<heap, live, data, capacity, count>>
         /\ returned' = IF n \in DOMAIN Value(x) THEN Value(x)[n] ELSE NoEntry
<1>1. x \in live /\ count[x] \in Nat /\ n \in Nat
  BY CapacityAssumption DEF Get, IInv, TypeOK
<1>2. /\ Value(x) \in Seq(Entries) /\ DOMAIN Value(x) = 1 .. count[x]
      /\ Len(Value(x)) = count[x]
      /\ \A k \in 1 .. count[x] : Value(x)[k] = heap[data[x]][k - 1]
  BY <1>1, ValueSeq DEF IInv
<1>3. n \in 1 .. count[x] <=> ~(n - 1 < 0 \/ n - 1 >= count[x])
  BY <1>1
<1>4. returned' = IF n \in DOMAIN Value(x) THEN Value(x)[n] ELSE NoEntry
  BY <1>2, <1>3 DEF Get, Cells
<1>5. returned' \in [doc : DocId \union {0}, freq : Nat]
  <2>1. returned' \in Entries \union {NoEntry}
    BY <1>2, <1>4, ElementOfSeq
  <2>2. QED
    BY <2>1 DEF Entries, NoEntry
<1>6. QED
  BY <1>4, <1>5 DEF Get, IInv, TypeOK, BlocksOwned

LEMMA NextIInv == IInv /\ [Next]_vars => IInv'
<1>1. IInv /\ UNCHANGED vars => IInv'
  BY DEF vars, IInv, TypeOK, BlocksOwned
<1>2. QED
  BY <1>1, ConstructStep, DestroyStep, CopyStep, AssignStep, AddStep, AddFrequencyStep,
     AddToLastStep, PopBackStep, TruncateStep, ClearStep, GetStep DEF Next

\* The lists are well formed and their blocks owned in every reachable state.
THEOREM Invariance == Spec => []IInv
BY InitIInv, NextIInv, PTL DEF Spec

\* No count passes its capacity, and below it are entries that were put there.
THEOREM TypeCorrect == Spec => []TypeOK
BY Invariance, PTL DEF IInv

\* Every block has one owner: no double delete, no use after delete, no leak
\* (DocFreqList.cpp:15-41).
THEOREM Ownership == Spec => []BlocksOwned
BY Invariance, PTL DEF IInv
-----------------------------------------------------------------------------
\* The mapping of Values.
V == [x \in Name |-> IF x \in live THEN Value(x) ELSE EmptyList]

LEMMA Updated ==
  ASSUME IInv, NEW x \in Name, NEW s, Became(x, s), live' = live \union {x}
  PROVE  V' = [V EXCEPT ![x] = s]
<1>1. \A y \in Name : V'[y] = IF y = x THEN s ELSE V[y]
  BY DEF V, Became
<1>2. QED
  BY <1>1 DEF V

LEMMA Simulation == IInv /\ [Next]_vars => [Values!ValuesNext]_<<live, V, returned>>
<1> SUFFICES ASSUME IInv, [Next]_vars PROVE Values!ValuesNext \/ UNCHANGED <<live, V, returned>>
  BY DEF V
<1>1. Values!NoEntry = NoEntry /\ Values!EmptyList = EmptyList
  BY DEF Values!NoEntry, NoEntry, Values!EmptyList, EmptyList
<1>2. live \subseteq Name /\ \A y \in live : V[y] = Value(y)
  BY DEF IInv, TypeOK, V
<1>3. ASSUME NEW x \in Name, Construct(x) PROVE Values!ValuesNext
  <2>1. V' = [V EXCEPT ![x] = EmptyList]
    BY <1>3, ConstructStep, Updated DEF Construct
  <2>2. Values!Constructed(x, Values!EmptyList)
    BY <1>1, <1>3, <2>1 DEF Construct, Values!Constructed, V
  <2>3. QED
    BY <2>2 DEF Values!ValuesNext
<1>4. ASSUME NEW x \in Name, Destroy(x) PROVE Values!ValuesNext
  <2>1. V' = [V EXCEPT ![x] = EmptyList]
    <3>1. \A y \in Name : V'[y] = IF y = x THEN EmptyList ELSE V[y]
      BY <1>4, DestroyStep DEF V, Destroy
    <3>2. QED
      BY <3>1 DEF V
  <2>2. Values!Destroyed(x) /\ x \in live
    BY <1>1, <1>4, <2>1 DEF Destroy, Values!Destroyed, V
  <2>3. QED
    BY <2>2 DEF Values!ValuesNext
<1>5. ASSUME NEW x \in Name, NEW y \in Name, Copy(x, y) PROVE Values!ValuesNext
  <2>1. y \in live /\ V' = [V EXCEPT ![x] = V[y]]
    BY <1>2, <1>5, CopyStep, Updated DEF Copy
  <2>2. Values!Constructed(x, V[y])
    BY <1>1, <1>5, <2>1 DEF Copy, Values!Constructed, V
  <2>3. QED
    BY <2>1, <2>2 DEF Values!ValuesNext, V
<1>6. ASSUME NEW x \in Name, NEW y \in Name, Assign(x, y) PROVE Values!ValuesNext
  <2>1. x \in live /\ y \in live /\ Became(x, V[y]) /\ UNCHANGED live /\ returned' = NoEntry
    BY <1>2, <1>6, AssignStep DEF Assign
  <2>2. V' = [V EXCEPT ![x] = V[y]]
    BY <2>1, Updated
  <2>3. Values!Becomes(x, V[y])
    BY <1>1, <2>1, <2>2 DEF Values!Becomes, V
  <2>4. Values!Change(x)
    BY <2>1, <2>3 DEF Values!Change, V
  <2>5. QED
    BY <2>1, <2>4 DEF Values!ValuesNext
<1>7. ASSUME NEW x \in Name, NEW d \in DocId, NEW a \in Amount,
             Add(x, d, a) \/ AddFrequency(x, d, a) \/ AddToLast(x, d, a)
      PROVE  Values!ValuesNext
  <2>1. x \in live /\ UNCHANGED live /\ returned' = NoEntry /\ V[x] = Value(x)
    BY <1>2, <1>7 DEF Add, AddFrequency, AddToLast
  <2>2. \/ Values!Becomes(x, Append(V[x], Values!Posting(d, a)))
        \/ Values!Becomes(x, Values!AddedFrequency(V[x], d, a))
        \/ Values!Becomes(x, Values!AddUnchecked(V[x], d, a))
    <3>1. Values!Posting(d, a) = Posting(d, a)
      BY DEF Posting, Values!Posting
    <3>2. \/ Became(x, Append(V[x], Values!Posting(d, a)))
          \/ Became(x, Values!AddedFrequency(V[x], d, a))
          \/ Became(x, Values!AddUnchecked(V[x], d, a))
      BY <1>7, <2>1, <3>1, AddStep, AddFrequencyStep, AddToLastStep
    <3>3. \/ V' = [V EXCEPT ![x] = Append(V[x], Values!Posting(d, a))]
          \/ V' = [V EXCEPT ![x] = Values!AddedFrequency(V[x], d, a)]
          \/ V' = [V EXCEPT ![x] = Values!AddUnchecked(V[x], d, a)]
      <4>1. live' = live \union {x}
        BY <2>1
      <4>2. CASE Became(x, Append(V[x], Values!Posting(d, a)))
        BY <4>1, <4>2, Updated
      <4>3. CASE Became(x, Values!AddedFrequency(V[x], d, a))
        BY <4>1, <4>3, Updated
      <4>4. CASE Became(x, Values!AddUnchecked(V[x], d, a))
        BY <4>1, <4>4, Updated
      <4>5. QED
        BY <3>2, <4>2, <4>3, <4>4
    <3>4. QED
      BY <1>1, <2>1, <3>3 DEF Values!Becomes, V
  <2>3. Values!Change(x)
    BY <2>2 DEF Values!Change, V
  <2>4. QED
    BY <2>1, <2>3 DEF Values!ValuesNext
<1>8. ASSUME NEW x \in Name, NEW n \in 0 .. MaxCount, Truncate(x, n) \/ (n = 0 /\ Clear(x))
      PROVE  Values!ValuesNext
  <2>1. x \in live /\ UNCHANGED live /\ returned' = NoEntry /\ V[x] = Value(x)
    BY <1>2, <1>8 DEF Truncate, Clear
  <2>2. Became(x, Values!Truncated(V[x], n))
    BY <1>8, <2>1, TruncateStep, ClearStep
  <2>3. V' = [V EXCEPT ![x] = Values!Truncated(V[x], n)]
    BY <2>1, <2>2, Updated
  <2>4. Values!Becomes(x, Values!Truncated(V[x], n))
    BY <1>1, <2>1, <2>3 DEF Values!Becomes, V
  <2>5. Values!Change(x)
    BY <2>4 DEF Values!Change, V
  <2>6. QED
    BY <2>1, <2>5 DEF Values!ValuesNext
<1>9. ASSUME NEW x \in Name, PopBack(x) PROVE Values!ValuesNext
  <2>1. x \in live /\ UNCHANGED live /\ V[x] = Value(x) /\ Len(V[x]) = count[x]
    BY <1>2, <1>9, ValueSeq DEF PopBack, IInv
  <2>2. /\ Became(x, Values!Truncated(V[x], count[x] - 1))
        /\ returned' = IF count[x] > 0 THEN V[x][count[x]] ELSE NoEntry
    BY <1>9, <2>1, PopBackStep
  <2>3. V' = [V EXCEPT ![x] = Values!Truncated(V[x], count[x] - 1)]
    BY <1>2, <2>1, <2>2, Updated
  <2>4. Values!PopBack(x)
    BY <1>1, <2>1, <2>2, <2>3 DEF Values!PopBack, V
  <2>5. QED
    BY <2>1, <2>4 DEF Values!ValuesNext
<1>10. ASSUME NEW x \in Name, NEW n \in 0 .. MaxCount, Get(x, n - 1) PROVE Values!ValuesNext
  <2>1. x \in live /\ V[x] = Value(x) /\ n \in 0 .. MaxCount + 1
    BY <1>2, <1>10, CapacityAssumption DEF Get
  <2>2. /\ UNCHANGED <<live, V>>
        /\ returned' = IF n \in DOMAIN V[x] THEN V[x][n] ELSE NoEntry
    BY <1>10, <2>1, GetStep DEF V, Value
  <2>3. Values!Get(x, n)
    BY <1>1, <2>2 DEF Values!Get, V
  <2>4. QED
    BY <2>1, <2>3 DEF Values!ValuesNext
<1>11. CASE UNCHANGED vars
  BY <1>11 DEF vars, V, Value
<1>12. 0 \in 0 .. MaxCount
  BY CapacityAssumption
<1>13. QED
  BY <1>3, <1>4, <1>5, <1>6, <1>7, <1>8, <1>9, <1>10, <1>11, <1>12 DEF Next

\* The growable arrays implement lists as values: an operation changes its own list,
\* as the operations of ListValues do, and no other (DocFreqList.cpp, StringList.cpp).
THEOREM Refinement == Spec => ListsAreValues
<1>1. Init => Values!ValuesInit
  BY DEF Init, Values!ValuesInit, Values!NoEntry, NoEntry, EmptyList, Values!EmptyList
<1>2. IInv /\ [Next]_vars => [Values!ValuesNext]_<<live, V, returned>>
  BY Simulation
<1>3. QED
  BY <1>1, <1>2, Invariance, PTL DEF Spec, ListsAreValues, Values!ValuesSpec, V
=============================================================================
