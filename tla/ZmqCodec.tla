------------------------------- MODULE ZmqCodec -------------------------------
(***************************************************************************)
(* Protocol.cpp of the ZeroMQ stack: how requests and replies are written  *)
(* as bytes and read back, on both sides.  A byte is a digit of base Base, *)
(* a string a sequence of bytes.  A decoder returns a reader: whether it   *)
(* succeeded, and in fields what it read.                                  *)
(***************************************************************************)
EXTENDS Naturals, Sequences

CONSTANT Base   \* the values of a byte (256)

ASSUME BaseAssumption == Base \in Nat /\ Base > 7

Byte == 0 .. Base - 1

\* The values of a uint32_t.
Limit == Base * Base * Base * Base

INDEX_REQUEST == 3
INDEX_REPLY == 4
SEARCH_REQUEST == 5
SEARCH_REPLY == 6
-----------------------------------------------------------------------------
(* ByteWriter: what each call appends.                                     *)

\* The most significant byte first.
U32(v) == LET u == v \div Base
              t == u \div Base
              s == t \div Base
          IN  <<s % Base, t % Base, u % Base, v % Base>>

\* The length is written first; a string too long for it is written as an empty one.
Str(s) == IF Len(s) >= Limit THEN U32(0) ELSE U32(Len(s)) \o s

\* What a loop over the parts appends.
Joined(parts) ==
  LET upTo[i \in 0 .. Len(parts)] == IF i = 0 THEN <<>> ELSE upTo[i - 1] \o parts[i]
  IN  upTo[Len(parts)]

TermFrequency(t) == Str(t.term) \o U32(t.frequency)

EncodeIndexRequest(clientId, path, terms) ==
  U32(INDEX_REQUEST) \o U32(clientId) \o Str(path) \o U32(Len(terms))
    \o Joined([i \in DOMAIN terms |-> TermFrequency(terms[i])])

IndexReply(status) == U32(INDEX_REPLY) \o U32(status)

EncodeSearchRequest(terms) ==
  U32(SEARCH_REQUEST) \o U32(Len(terms)) \o Joined([i \in DOMAIN terms |-> Str(terms[i])])

SearchReply(totalHits, hits) ==
  U32(SEARCH_REPLY) \o U32(totalHits) \o U32(Len(hits))
    \o Joined([i \in DOMAIN hits |-> Str(hits[i].path) \o U32(hits[i].freq)])
-----------------------------------------------------------------------------
(* ByteReader: a read that would pass the end fails, and so do all after   *)
(* it, for && stops at the first failure.                                  *)

Reader(bytes) == [bytes |-> bytes, offset |-> 0, ok |-> TRUE, fields |-> <<>>]

Failed(r) == [r EXCEPT !.ok = FALSE]

\* The number whose first digits are v and whose next one is b.
Shift(v, b) == v * Base + b

ReadU32(r) ==
  LET byte(i) == r.bytes[r.offset + i]
      value == Shift(Shift(Shift(byte(1), byte(2)), byte(3)), byte(4))
  IN  IF ~r.ok \/ r.offset + 4 > Len(r.bytes)
        THEN Failed(r)
        ELSE [r EXCEPT !.offset = @ + 4, !.fields = Append(@, value)]

LastField(r) == r.fields[Len(r.fields)]

\* Mutant of ReadString: a string that ends with the payload is refused.
ReadStringShort(r) ==
  LET l == ReadU32(r)
      len == LastField(l)
  IN  IF ~l.ok \/ l.offset + len >= Len(r.bytes)
        THEN Failed(r)
        ELSE [l EXCEPT !.offset = @ + len,
                       !.fields = Append(r.fields, SubSeq(r.bytes, l.offset + 1,
                                                          l.offset + len))]

ReadString(r) ==
  LET l == ReadU32(r)
      len == LastField(l)
  IN  IF ~l.ok \/ l.offset + len > Len(r.bytes)
        THEN Failed(r)
        ELSE [l EXCEPT !.offset = @ + len,
                       !.fields = Append(r.fields, SubSeq(r.bytes, l.offset + 1,
                                                          l.offset + len))]

\* An entry of a list: a string, or a string and a number.
ReadEntry(r, kind) == IF kind = "pair" THEN ReadU32(ReadString(r)) ELSE ReadString(r)

\* As many entries as the number just read says.
ReadList(r, kind) ==
  LET upTo[i \in 0 .. LastField(r)] == IF i = 0 THEN r ELSE ReadEntry(upTo[i - 1], kind)
  IN  IF r.ok THEN upTo[LastField(r)] ELSE r

ReadMessageType(bytes) == ReadU32(Reader(bytes))

IsMessage(r, type) == r.ok /\ r.fields[1] = type

\* The replies a client accepts.
DecodeIndexReply(bytes) ==
  LET r == ReadU32(ReadMessageType(bytes))
  IN  IF IsMessage(r, INDEX_REPLY) THEN r ELSE Failed(r)

DecodeSearchReply(bytes) ==
  LET r == ReadU32(ReadU32(ReadMessageType(bytes)))
  IN  IF IsMessage(r, SEARCH_REPLY) THEN ReadList(r, "pair") ELSE Failed(r)
-----------------------------------------------------------------------------
(* What runWorker reads after the message type.                            *)

DecodeIndexRequest(bytes) ==
  ReadList(ReadU32(ReadString(ReadU32(ReadMessageType(bytes)))), "pair")

\* wordCounts[word] = freq for each pair in turn: the last one counts.
WordCountsOf(r) ==
  LET n == r.fields[4]
      word(i) == r.fields[2 * i + 3]
  IN  [k \in {word(i) : i \in 1 .. n} |->
         r.fields[2 * (CHOOSE i \in 1 .. n :
                         word(i) = k /\ \A j \in 1 .. n : word(j) = k => j <= i) + 4]]

\* A search for no terms is refused like one that cannot be read.
DecodeSearchRequest(bytes) ==
  LET r == ReadU32(ReadMessageType(bytes))
  IN  IF r.ok /\ r.fields[2] > 0 THEN ReadList(r, "string") ELSE Failed(r)

TermsOf(r) == SubSeq(r.fields, 3, Len(r.fields))
=============================================================================
