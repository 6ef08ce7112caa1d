---------------------------- MODULE PostingIndex ----------------------------
(***************************************************************************)
(* What the inverted index promises its callers: a table from terms to     *)
(* posting lists in which every add and every lookup takes effect at one   *)
(* instant between its call and its return.  No bucket, no chain and no    *)
(* lock is visible here; InvertedIndexMap is shown to implement it.        *)
(***************************************************************************)
EXTENDS DocFreqList

CONSTANTS Thread, Key, DocId, Amount, MaxCalls

VARIABLES postings,  \* term -> posting list
          req,       \* thread -> the call it is in
          phase,     \* thread -> how far that call has come
          ret,       \* thread -> what its last lookup returned
          calls      \* calls made so far, all threads together

vars == <<postings, req, phase, ret, calls>>

NoCall == [op |-> "none"]
AddCall == [op : {"add"}, key : Key, doc : DocId, amount : Amount]
LookupCall == [op : {"lookup"}, key : Key]
Call == AddCall \union LookupCall

Init == /\ postings = [k \in Key |-> EmptyList]
        /\ req = [t \in Thread |-> NoCall]
        /\ phase = [t \in Thread |-> "idle"]
        /\ ret = [t \in Thread |-> EmptyList]
        /\ calls = 0

Begin(t) == /\ phase[t] = "idle"
            /\ calls < MaxCalls
            /\ \E c \in Call : req' = [req EXCEPT ![t] = c]
            /\ phase' = [phase EXCEPT ![t] = "called"]
            /\ calls' = calls + 1
            /\ UNCHANGED <<postings, ret>>

AddEffect(t) ==
  /\ phase[t] = "called"
  /\ req[t].op = "add"
  /\ postings' = [postings EXCEPT
                    ![req[t].key] = AddUnchecked(@, req[t].doc, req[t].amount)]
  /\ phase' = [phase EXCEPT ![t] = "done"]
  /\ UNCHANGED <<req, ret, calls>>

LookupEffect(t) ==
  /\ phase[t] = "called"
  /\ req[t].op = "lookup"
  /\ ret' = [ret EXCEPT ![t] = postings[req[t].key]]
  /\ phase' = [phase EXCEPT ![t] = "done"]
  /\ UNCHANGED <<postings, req, calls>>

End(t) == /\ phase[t] = "done"
          /\ phase' = [phase EXCEPT ![t] = "idle"]
          /\ req' = [req EXCEPT ![t] = NoCall]
          /\ UNCHANGED <<postings, ret, calls>>

Next == \E t \in Thread : Begin(t) \/ AddEffect(t) \/ LookupEffect(t) \/ End(t)

Spec == Init /\ [][Next]_vars
=============================================================================
