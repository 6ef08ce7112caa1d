------------------------------- MODULE ListValues -------------------------------
(***************************************************************************)
(* What DocFreqList, StringList and ResultList promise: a list is a value. *)
(* An operation on one list changes no other, a copy is equal and stays    *)
(* apart, and what was put in comes out.  Entries are postings throughout; *)
(* a StringList's and a ResultList's entries have no more structure.       *)
(***************************************************************************)
EXTENDS DocFreqList

CONSTANTS Name,      \* the list objects of a program
          DocId, Amount,
          MaxCount   \* bound on the length of a list

VARIABLES live,      \* the lists that are constructed
          value,     \* list -> its entries
          returned   \* what the last call returned, if it was get or pop_back

Entry == [doc : DocId, freq : Nat]
NoEntry == [doc |-> 0, freq |-> 0]

ValuesInit == live = {} /\ value = [x \in Name |-> EmptyList] /\ returned = NoEntry

Becomes(x, s) == value' = [value EXCEPT ![x] = s] /\ UNCHANGED live /\ returned' = NoEntry

Constructed(x, s) == x \notin live /\ live' = live \union {x}
                     /\ value' = [value EXCEPT ![x] = s] /\ returned' = NoEntry

Destroyed(x) == live' = live \ {x} /\ value' = [value EXCEPT ![x] = EmptyList]
                /\ returned' = NoEntry

\* Where addFrequency finds the document: in the last entry, or else the first
\* one that has it.
Holders(s, d) == {i \in DOMAIN s : s[i].doc = d}
Found(s, d) == IF Len(s) \in Holders(s, d) THEN Len(s)
               ELSE CHOOSE i \in Holders(s, d) : \A j \in Holders(s, d) : i <= j

AddedFrequency(s, d, a) ==
  IF Holders(s, d) = {} THEN Append(s, Posting(d, a))
                        ELSE [s EXCEPT ![Found(s, d)] = Posting(d, @.freq + a)]

Truncated(s, n) == IF n < Len(s) THEN SubSeq(s, 1, n) ELSE s

Change(x) ==
  \/ \E d \in DocId, a \in Amount :
       \/ Becomes(x, Append(value[x], Posting(d, a)))
       \/ Becomes(x, AddedFrequency(value[x], d, a))
       \/ Becomes(x, AddUnchecked(value[x], d, a))
  \/ \E n \in 0 .. MaxCount : Becomes(x, Truncated(value[x], n))
  \/ \E y \in live : Becomes(x, value[y])

PopBack(x) == LET n == Len(value[x])
              IN  /\ value' = [value EXCEPT ![x] = Truncated(@, n - 1)]
                  /\ returned' = IF n > 0 THEN value[x][n] ELSE NoEntry
                  /\ UNCHANGED live

Get(x, i) == /\ returned' = IF i \in DOMAIN value[x] THEN value[x][i] ELSE NoEntry
             /\ UNCHANGED <<live, value>>

ValuesNext ==
  \/ \E x \in Name : Constructed(x, EmptyList) \/ \E y \in live : Constructed(x, value[y])
  \/ \E x \in live : \/ Destroyed(x) \/ Change(x)
                     \/ PopBack(x) \/ \E i \in 0 .. MaxCount + 1 : Get(x, i)

ValuesSpec == ValuesInit /\ [][ValuesNext]_<<live, value, returned>>
=============================================================================
