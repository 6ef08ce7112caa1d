---------------------------- MODULE DocFreqList ----------------------------
(***************************************************************************)
(* DocFreqList.cpp: the posting list of one term, the parallel arrays      *)
(* docIds and freqs read as one sequence of postings.  The capacity and    *)
(* its doubling in resize are below this abstraction.                      *)
(***************************************************************************)
EXTENDS Naturals, Sequences

EmptyList == <<>>

Posting(doc, amount) == [doc |-> doc, freq |-> amount]

\* The list already ends with this document.
EndsWith(list, doc) == list # EmptyList /\ list[Len(list)].doc = doc

\* Mutant of AddUnchecked: the amount replaces the frequency instead of adding to it.
AddUncheckedReplaces(list, doc, amount) ==
  IF EndsWith(list, doc)
    THEN [list EXCEPT ![Len(list)] = Posting(doc, amount)]
    ELSE Append(list, Posting(doc, amount))

\* addUnchecked: merge into the LAST posting when it is this document's, else
\* append without looking at the rest of the list.
AddUnchecked(list, doc, amount) ==
  IF EndsWith(list, doc)
    THEN [list EXCEPT ![Len(list)] = Posting(doc, @.freq + amount)]
    ELSE Append(list, Posting(doc, amount))
=============================================================================
