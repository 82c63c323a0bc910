--------------------------- MODULE StreamsProofs ----------------------------
(***************************************************************************)
(* The data streams between two endpoints, for any number of calls, ids    *)
(* and chunks.                                                             *)
(*                                                                         *)
(* RegistryAgrees needs that a request is under way once and starts its    *)
(* handler once (MessagesOK, RequestsOnce): a Stream gets its id once.     *)
(* ChunksArrive needs what is between the ends: the chunks a peer has been *)
(* sent and has not consumed are an interval, first the CoreEvents, then   *)
(* the wire, which starts where an open Stream's context ends              *)
(* (ChunksInStep), and while no id is ambiguous it is this context that    *)
(* finds them (NamesUnique).                                               *)
(***************************************************************************)
EXTENDS Streams, SequenceTheorems, FiniteSetTheorems, WellFoundedInduction, TLAPS

\* m asks for the stream of call o.
IsRequest(m, o) == m.kind = "request" /\ m.open = o

\* m bears a chunk that was sent on a Stream of call o.
IsChunk(m, o) == m.kind = "data" /\ m.chunk.open = o

\* A sequence of messages carries the chunks of o after lo, up to hi, in order.
Carries(s, o, lo, hi) ==
    /\ \A k \in DOMAIN s : IsChunk(s[k], o) => s[k].chunk.n \in (lo + 1)..hi
    /\ \A n \in (lo + 1)..hi : \E k \in DOMAIN s : IsChunk(s[k], o) /\ s[k].chunk.n = n
    /\ \A k, l \in DOMAIN s :
          k < l /\ IsChunk(s[k], o) /\ IsChunk(s[l], o) => s[k].chunk.n < s[l].chunk.n

\* What the messages to a peer say: a request goes to the peer that accepts
\* it, whose handler has not started; a response offers the id of the Stream
\* of the handler; a chunk bears the id its sender knows.
Truthful(p, m) ==
    /\ m.kind = "request" =>
          p = Acceptor(m.open) /\ handler[m.open] = "none" /\ call[m.open] # "new"
    /\ m.kind = "response" =>
          p = opener[m.open] /\ m.id \in {0, streamId[Acceptor(m.open)][m.open]}
    /\ m.kind = "data" => m.id = streamId[Other(p)][m.chunk.open]

\* m is one of the messages of s.
In(m, s) == \E k \in DOMAIN s : s[k] = m

\* Every message under way says what is so; a response is never a CoreEvent,
\* it resolves the promise when it is decoded.
MessagesOK ==
    \A p \in Peers, m \in Message :
        /\ In(m, wire[p]) \/ In(m, events[p]) => Truthful(p, m)
        /\ In(m, events[p]) => m.kind # "response"

\* A request is under way once.
Asked(s, o) == \E k \in DOMAIN s : IsRequest(s[k], o)

\* At most one message of s asks for the stream of o.
Once(s, o) == \A k, l \in DOMAIN s : IsRequest(s[k], o) /\ IsRequest(s[l], o) => k = l

\* A request is under way once, on the wire or as a CoreEvent.
RequestsOnce ==
    \A p \in Peers, o \in Opens :
        /\ Once(wire[p], o) /\ Once(events[p], o)
        /\ ~(Asked(wire[p], o) /\ Asked(events[p], o))

\* Which Streams there are, and what they are called.
StreamsNamed ==
    \A o \in Opens :
        /\ handler[o] \in {"serving", "done"} <=> streamId[Acceptor(o)][o] # 0
        /\ call[o] = "new" => handler[o] = "none"
        /\ call[o] = "opened" <=> streamId[opener[o]][o] # 0
        /\ call[o] \in {"resuming", "opened"} => offered[o] # 0
        /\ offered[o] \in {0, streamId[Acceptor(o)][o]}
        /\ streamId[opener[o]][o] \in {0, offered[o]}
        /\ \A p \in Peers : streamId[p][o] = 0 =>
              ~isClosed[p][o] /\ sent[p][o] = 0 /\ got[p][o] = <<>>

\* An id names one stream.
NamesUnique ==
    ~ambiguous => \A p, q \in Peers, o, d \in Opens :
        streamId[p][o] # 0 /\ streamId[p][o] = streamId[q][d] => o = d

\* The chunks of o under way to p: after lo as CoreEvents, after mid on the
\* wire, up to the last one sent.
UnderWay(p, o, lo, mid, hi) ==
    /\ lo <= mid /\ mid <= hi /\ hi <= sent[Other(p)][o]
    /\ Carries(events[p], o, lo, mid)
    /\ Carries(wire[p], o, mid, hi)
    /\ ~closed[p] /\ ~closed[Other(p)] => hi = sent[Other(p)][o]

\* The context of an open Stream has been given the chunks up to lo.
GivenUpTo(p, o, lo) ==
    ~ambiguous /\ streamId[p][o] # 0 /\ ~isClosed[p][o] =>
        IF got[p][o] # <<>> THEN got[p][o][Len(got[p][o])].n = lo
                            ELSE p = Acceptor(o) => lo = 0

\* For each Stream the chunks under way go on where its context ends.
ChunksInStep ==
    \A p \in Peers, o \in Opens : \E lo, mid, hi \in Nat :
        UnderWay(p, o, lo, mid, hi) /\ GivenUpTo(p, o, lo)

\* The inductive invariant.
StreamsInv ==
    /\ TypeOK
    /\ MessagesOK
    /\ RequestsOnce
    /\ StreamsNamed
    /\ RegistryAgrees
    /\ NamesUnique
    /\ ChunksInStep
    /\ ChunksArrive

-----------------------------------------------------------------------------
(* Sequences of messages                                                   *)

\* The sequence a message is written to, position by position.
LEMMA Appended ==
    ASSUME NEW S, NEW s \in Seq(S), NEW e \in S
    PROVE  /\ Append(s, e) \in Seq(S)
           /\ Len(Append(s, e)) = Len(s) + 1
           /\ DOMAIN s = 1..Len(s) /\ Len(s) \in Nat
           /\ DOMAIN Append(s, e) = 1..(Len(s) + 1)
           /\ \A k \in DOMAIN Append(s, e) :
                 Append(s, e)[k] = IF k \in DOMAIN s THEN s[k] ELSE e
<1>1. Append(s, e) \in Seq(S) /\ DOMAIN s = 1..Len(s) /\ Len(s) \in Nat
    OBVIOUS
<1>2. Len(Append(s, e)) = Len(s) + 1
    OBVIOUS
<1>3. DOMAIN Append(s, e) = 1..(Len(s) + 1)
    BY <1>1, <1>2
<1> QED
    BY <1>1, <1>2, <1>3

\* The sequence a message is taken from, position by position.
LEMMA Tailed ==
    ASSUME NEW S, NEW s \in Seq(S), s # <<>>
    PROVE  /\ Tail(s) \in Seq(S)
           /\ Head(s) = s[1] /\ 1 \in DOMAIN s /\ Head(s) \in S
           /\ Len(Tail(s)) = Len(s) - 1
           /\ DOMAIN s = 1..Len(s) /\ Len(s) \in Nat /\ Len(s) >= 1
           /\ DOMAIN Tail(s) = 1..(Len(s) - 1)
           /\ \A k \in DOMAIN Tail(s) : k + 1 \in DOMAIN s /\ Tail(s)[k] = s[k + 1]
<1>1. Tail(s) \in Seq(S) /\ DOMAIN s = 1..Len(s) /\ Len(s) \in Nat /\ Len(s) # 0
    OBVIOUS
<1>2. Len(Tail(s)) = Len(s) - 1
    OBVIOUS
<1>3. DOMAIN Tail(s) = 1..(Len(s) - 1)
    BY <1>1, <1>2
<1>4. Head(s) = s[1] /\ 1 \in DOMAIN s
    BY <1>1
<1>5. s[1] \in S
    BY <1>4
<1> QED
    BY <1>1, <1>2, <1>3, <1>4, <1>5

\* The fields each kind of message has.
LEMMA MessageFields ==
    ASSUME NEW m \in Message
    PROVE  /\ m.kind \in {"request", "response", "data"}
           /\ m.kind = "request" => m.open \in Opens
           /\ m.kind = "response" => m.open \in Opens /\ m.id \in 0..MaxStreamId
           /\ m.kind = "data" => /\ m.id \in Ids /\ m.chunk \in Chunk
                                 /\ m.chunk.open \in Opens /\ m.chunk.n \in 1..MaxChunks
BY DEF Message, Chunk

\* Chunks are numbered.
LEMMA ChunkNumber ==
    ASSUME NEW s \in Seq(Message), NEW o, NEW k \in DOMAIN s, IsChunk(s[k], o)
    PROVE  s[k].chunk.n \in Nat
<1>1. s[k] \in Message
    OBVIOUS
<1> QED
    BY <1>1, MessageFields, StreamsAssumption DEF IsChunk

\* Who is in a queue after a message was appended.
LEMMA InAppended ==
    ASSUME NEW s \in Seq(Message), NEW m \in Message
    PROVE  \A x : In(x, Append(s, m)) => In(x, s) \/ x = m
<1> HIDE DEF Message
<1> QED
    BY Appended DEF In

\* What is taken from a queue was in it, and so is what remains.
LEMMA InTaken ==
    ASSUME NEW s \in Seq(Message), s # <<>>
    PROVE  /\ In(Head(s), s)
           /\ \A x : In(x, Tail(s)) => In(x, s)
<1> HIDE DEF Message
<1>1. Head(s) = s[1] /\ 1 \in DOMAIN s
    BY Tailed
<1>2. \A k \in DOMAIN Tail(s) : k + 1 \in DOMAIN s /\ Tail(s)[k] = s[k + 1]
    BY Tailed
<1> QED
    BY <1>1, <1>2 DEF In

\* A request that is not asked yet may be appended.
LEMMA OnceAppended ==
    ASSUME NEW s \in Seq(Message), NEW m \in Message, NEW o
    PROVE  /\ Asked(Append(s, m), o) <=> Asked(s, o) \/ IsRequest(m, o)
           /\ Once(s, o) /\ ~(IsRequest(m, o) /\ Asked(s, o)) => Once(Append(s, m), o)
<1> HIDE DEF Message
<1> DEFINE t == Append(s, m)
<1>1. /\ DOMAIN s = 1..Len(s) /\ Len(s) \in Nat
      /\ DOMAIN t = 1..(Len(s) + 1)
      /\ \A k \in DOMAIN t : t[k] = IF k \in DOMAIN s THEN s[k] ELSE m
    BY Appended
<1> HIDE DEF t
<1>2. /\ \A i \in DOMAIN s : i \in DOMAIN t /\ t[i] = s[i]
      /\ \A i \in DOMAIN t : i \in DOMAIN s \/ (i = Len(s) + 1 /\ t[i] = m)
      /\ Len(s) + 1 \in DOMAIN t /\ t[Len(s) + 1] = m
    BY <1>1
<1>3. Asked(t, o) <=> Asked(s, o) \/ IsRequest(m, o)
    BY <1>2 DEF Asked
<1>4. Once(s, o) /\ ~(IsRequest(m, o) /\ Asked(s, o)) => Once(t, o)
    BY <1>2 DEF Once, Asked
<1> QED
    BY <1>3, <1>4 DEF t

\* A request that is under way once is not in the queue it was taken from.
LEMMA OnceTaken ==
    ASSUME NEW s \in Seq(Message), s # <<>>, NEW o
    PROVE  /\ Asked(Tail(s), o) \/ IsRequest(Head(s), o) => Asked(s, o)
           /\ Once(s, o) => Once(Tail(s), o) /\ ~(IsRequest(Head(s), o) /\ Asked(Tail(s), o))
<1> HIDE DEF Message
<1> DEFINE t == Tail(s)
<1>1. /\ Head(s) = s[1] /\ 1 \in DOMAIN s
      /\ DOMAIN t = 1..(Len(s) - 1) /\ Len(s) \in Nat
      /\ \A k \in DOMAIN t : k + 1 \in DOMAIN s /\ t[k] = s[k + 1]
    BY Tailed
<1> HIDE DEF t
<1>2. \A k \in DOMAIN t : k + 1 # 1 /\ \A l \in DOMAIN t : k + 1 = l + 1 => k = l
    BY <1>1
<1>3. Asked(t, o) \/ IsRequest(Head(s), o) => Asked(s, o)
    BY <1>1 DEF Asked
<1>4. Once(s, o) => Once(t, o)
    BY <1>1, <1>2 DEF Once
<1>5. Once(s, o) => ~(IsRequest(Head(s), o) /\ Asked(t, o))
    BY <1>1, <1>2 DEF Once, Asked
<1> QED
    BY <1>3, <1>4, <1>5 DEF t

\* An empty queue carries an empty interval.
LEMMA CarriesNone ==
    ASSUME NEW o, NEW n \in Nat
    PROVE  Carries(<<>>, o, n, n)
BY DEF Carries

\* The next chunk may be appended, and any message of another Stream.
LEMMA CarriesAppend ==
    ASSUME NEW s \in Seq(Message), NEW m \in Message, NEW o,
           NEW lo \in Nat, NEW hi \in Nat, lo <= hi, Carries(s, o, lo, hi)
    PROVE  /\ IsChunk(m, o) /\ m.chunk.n = hi + 1 => Carries(Append(s, m), o, lo, hi + 1)
           /\ ~IsChunk(m, o) => Carries(Append(s, m), o, lo, hi)
<1> DEFINE t == Append(s, m)
<1>1. /\ DOMAIN s = 1..Len(s) /\ Len(s) \in Nat
      /\ DOMAIN t = 1..(Len(s) + 1)
      /\ \A k \in DOMAIN t : t[k] = IF k \in DOMAIN s THEN s[k] ELSE m
    BY Appended
<1> HIDE DEF t
<1>2. /\ \A i \in DOMAIN s : i \in DOMAIN t /\ t[i] = s[i] /\ i \in Nat
      /\ \A i \in DOMAIN t : i \in DOMAIN s \/ (i = Len(s) + 1 /\ t[i] = m)
      /\ \A i \in DOMAIN s : i < Len(s) + 1
      /\ Len(s) + 1 \in DOMAIN t /\ t[Len(s) + 1] = m
    BY <1>1
<1>3. ASSUME IsChunk(m, o), m.chunk.n = hi + 1 PROVE Carries(t, o, lo, hi + 1)
    <2>1. ASSUME NEW i \in DOMAIN t, IsChunk(t[i], o)
          PROVE  t[i].chunk.n \in (lo + 1)..(hi + 1)
        <3>1. CASE i \in DOMAIN s
            <4>1. t[i] = s[i] /\ s[i].chunk.n \in (lo + 1)..hi
                BY <3>1, <2>1, <1>2 DEF Carries
            <4> QED BY <4>1
        <3>2. CASE i \notin DOMAIN s
            BY <3>2, <1>2, <1>3
        <3> QED BY <3>1, <3>2
    <2>2. ASSUME NEW n \in (lo + 1)..(hi + 1)
          PROVE  \E i \in DOMAIN t : IsChunk(t[i], o) /\ t[i].chunk.n = n
        <3>1. CASE n = hi + 1
            BY <3>1, <1>2, <1>3
        <3>2. CASE n # hi + 1
            <4>1. n \in (lo + 1)..hi
                BY <3>2
            <4> QED
                BY <4>1, <1>2 DEF Carries
        <3> QED BY <3>1, <3>2
    <2>3. ASSUME NEW i \in DOMAIN t, NEW j \in DOMAIN t, i < j,
                 IsChunk(t[i], o), IsChunk(t[j], o)
          PROVE  t[i].chunk.n < t[j].chunk.n
        <3>1. i \in DOMAIN s
            BY <2>3, <1>1, <1>2
        <3>2. CASE j \in DOMAIN s
            BY <3>1, <3>2, <2>3, <1>2 DEF Carries
        <3>3. CASE j \notin DOMAIN s
            <4>1. t[j].chunk.n = hi + 1 /\ t[i] = s[i] /\ IsChunk(s[i], o)
                BY <3>1, <3>3, <2>3, <1>2, <1>3
            <4>2. s[i].chunk.n \in (lo + 1)..hi
                BY <3>1, <4>1 DEF Carries
            <4> QED BY <4>1, <4>2
        <3> QED BY <3>2, <3>3
    <2> QED BY <2>1, <2>2, <2>3 DEF Carries
<1>4. ASSUME ~IsChunk(m, o) PROVE Carries(t, o, lo, hi)
    <2>1. ASSUME NEW i \in DOMAIN t, IsChunk(t[i], o) PROVE i \in DOMAIN s /\ t[i] = s[i]
        BY <2>1, <1>2, <1>4
    <2>2. ASSUME NEW i \in DOMAIN t, IsChunk(t[i], o) PROVE t[i].chunk.n \in (lo + 1)..hi
        BY <2>1, <2>2 DEF Carries
    <2>3. ASSUME NEW n \in (lo + 1)..hi
          PROVE  \E i \in DOMAIN t : IsChunk(t[i], o) /\ t[i].chunk.n = n
        BY <1>2 DEF Carries
    <2>4. ASSUME NEW i \in DOMAIN t, NEW j \in DOMAIN t, i < j,
                 IsChunk(t[i], o), IsChunk(t[j], o)
          PROVE  t[i].chunk.n < t[j].chunk.n
        BY <2>1, <2>4 DEF Carries
    <2> QED BY <2>2, <2>3, <2>4 DEF Carries
<1> QED
    BY <1>3, <1>4 DEF t

\* The first chunk of a queue is the first one it carries.
LEMMA CarriesTail ==
    ASSUME NEW s \in Seq(Message), NEW o, NEW lo \in Nat, NEW hi \in Nat,
           Carries(s, o, lo, hi), s # <<>>
    PROVE  /\ IsChunk(Head(s), o) => /\ Head(s).chunk.n = lo + 1 /\ lo + 1 <= hi
                                     /\ Carries(Tail(s), o, lo + 1, hi)
           /\ ~IsChunk(Head(s), o) => Carries(Tail(s), o, lo, hi)
<1> DEFINE t == Tail(s)
<1>1. /\ Head(s) = s[1] /\ 1 \in DOMAIN s
      /\ DOMAIN s = 1..Len(s) /\ Len(s) \in Nat /\ Len(s) >= 1
      /\ DOMAIN t = 1..(Len(s) - 1)
      /\ \A k \in DOMAIN t : k + 1 \in DOMAIN s /\ t[k] = s[k + 1]
    BY Tailed
<1>2. \A i \in DOMAIN s : IsChunk(s[i], o) => s[i].chunk.n \in Nat
    BY ChunkNumber
<1> HIDE DEF t
<1>3. ASSUME NEW i \in DOMAIN s, i # 1 PROVE i - 1 \in DOMAIN t /\ t[i - 1] = s[i]
    <2>1. i - 1 \in DOMAIN t /\ (i - 1) + 1 = i
        BY <1>1, <1>3
    <2> QED BY <2>1, <1>1
<1>4. ASSUME NEW i \in DOMAIN t, NEW j \in DOMAIN t, i < j, IsChunk(t[i], o), IsChunk(t[j], o)
      PROVE  t[i].chunk.n < t[j].chunk.n
    <2>1. /\ i + 1 \in DOMAIN s /\ t[i] = s[i + 1]
          /\ j + 1 \in DOMAIN s /\ t[j] = s[j + 1]
          /\ i + 1 < j + 1
        BY <1>1, <1>4
    <2> QED BY <2>1, <1>4 DEF Carries
<1>5. ASSUME IsChunk(Head(s), o)
      PROVE  /\ Head(s).chunk.n = lo + 1 /\ lo + 1 <= hi /\ Carries(t, o, lo + 1, hi)
    <2>1. s[1].chunk.n \in (lo + 1)..hi
        BY <1>1, <1>5 DEF Carries
    <2>2. lo + 1 \in (lo + 1)..hi
        BY <2>1
    <2>3. PICK j \in DOMAIN s : IsChunk(s[j], o) /\ s[j].chunk.n = lo + 1
        BY <2>2 DEF Carries
    <2>4. s[1].chunk.n = lo + 1
        <3>1. SUFFICES ASSUME j # 1 PROVE s[1].chunk.n < lo + 1
            BY <2>1, <2>3
        <3>2. 1 < j
            BY <3>1, <1>1
        <3>3. s[1].chunk.n < s[j].chunk.n
            BY <3>2, <2>3, <1>1, <1>5 DEF Carries
        <3> QED
            BY <3>3, <2>3
    <2>5. ASSUME NEW i \in DOMAIN t, IsChunk(t[i], o)
          PROVE  t[i].chunk.n \in ((lo + 1) + 1)..hi
        <3>1. i + 1 \in DOMAIN s /\ t[i] = s[i + 1] /\ 1 < i + 1
            BY <1>1
        <3>2. s[i + 1].chunk.n \in (lo + 1)..hi
            BY <3>1, <2>5 DEF Carries
        <3>3. s[1].chunk.n < s[i + 1].chunk.n
            BY <3>1, <2>5, <1>1, <1>5 DEF Carries
        <3> QED BY <3>1, <3>2, <3>3, <2>4
    <2>6. ASSUME NEW n \in ((lo + 1) + 1)..hi
          PROVE  \E i \in DOMAIN t : IsChunk(t[i], o) /\ t[i].chunk.n = n
        <3>1. n \in (lo + 1)..hi /\ n # lo + 1
            OBVIOUS
        <3>2. PICK i \in DOMAIN s : IsChunk(s[i], o) /\ s[i].chunk.n = n
            BY <3>1 DEF Carries
        <3>3. i # 1
            BY <3>1, <3>2, <2>4
        <3> QED BY <3>2, <3>3, <1>3
    <2>7. Carries(t, o, lo + 1, hi)
        BY <2>5, <2>6, <1>4 DEF Carries
    <2> QED BY <2>2, <2>4, <2>7, <1>1
<1>6. ASSUME ~IsChunk(Head(s), o) PROVE Carries(t, o, lo, hi)
    <2>1. ASSUME NEW i \in DOMAIN t, IsChunk(t[i], o) PROVE t[i].chunk.n \in (lo + 1)..hi
        BY <2>1, <1>1 DEF Carries
    <2>2. ASSUME NEW n \in (lo + 1)..hi
          PROVE  \E i \in DOMAIN t : IsChunk(t[i], o) /\ t[i].chunk.n = n
        <3>1. PICK i \in DOMAIN s : IsChunk(s[i], o) /\ s[i].chunk.n = n
            BY DEF Carries
        <3>2. i # 1
            BY <3>1, <1>1, <1>6
        <3> QED BY <3>1, <3>2, <1>3
    <2> QED BY <2>1, <2>2, <1>4 DEF Carries
<1> QED
    BY <1>5, <1>6 DEF t

-----------------------------------------------------------------------------
(* Ids                                                                     *)

\* A set of naturals that is not empty has a least element.
LEMMA Least ==
    ASSUME NEW S \in SUBSET Nat, S # {}
    PROVE  \E x \in S : \A y \in S : x <= y
<1> DEFINE R == OpToRel(<, Nat)
<1>1. IsWellFoundedOn(R, Nat)
    BY NatLessThanWellFounded
<1>2. PICK x \in S : \A y \in S : ~(<<y, x>> \in R)
    BY <1>1, WFMin
<1>3. \A y \in S : y < x => <<y, x>> \in R
    BY DEF OpToRel
<1> HIDE DEF R
<1>4. \A y \in S : ~(y < x)
    BY <1>2, <1>3
<1>5. \A y \in S : x <= y
    BY <1>4
<1> QED
    BY <1>5

\* allocate() finds a free id if there is one.
LEMMA AllocatedFree ==
    ASSUME TypeOK, NEW p \in Peers, \E i \in Ids : registry[p][i] = NoOpen
    PROVE  Allocated(p) \in Ids /\ registry[p][Allocated(p)] = NoOpen
<1> DEFINE ahead(i) == (i - nextStreamId[p]) % MaxStreamId
           free == {i \in Ids : registry[p][i] = NoOpen}
           distances == {ahead(i) : i \in free}
<1>1. nextStreamId[p] \in Int /\ MaxStreamId \in Nat \ {0}
    BY StreamsAssumption DEF TypeOK, Ids
<1>2. \A i \in free : ahead(i) \in Nat
    <2>1. \A n \in Int : n % MaxStreamId \in Nat
        BY <1>1
    <2>2. \A i \in free : i - nextStreamId[p] \in Int
        BY <1>1, StreamsAssumption DEF Ids
    <2> QED BY <2>1, <2>2
<1>3. free # {}
    OBVIOUS
<1> HIDE DEF ahead, free
<1>4. distances \in SUBSET Nat /\ distances # {}
    BY <1>2, <1>3
<1>5. PICK d \in distances : \A e \in distances : d <= e
    <2> HIDE DEF distances
    <2> QED BY <1>4, Least
<1>6. PICK i \in free : d = ahead(i)
    OBVIOUS
<1>7. \A j \in free : ahead(i) <= ahead(j)
    BY <1>5, <1>6
<1>8. Allocated(p) \in free
    <2>1. (CHOOSE x \in free : \A j \in free : ahead(x) <= ahead(j)) \in free
        BY <1>7
    <2> QED
        BY <2>1 DEF Allocated, ahead, free
<1> QED
    BY <1>8 DEF free

\* nextStreamId stays an id, also where it wraps.
LEMMA SuccessorIsId ==
    ASSUME NEW i \in Ids
    PROVE  Successor(i) \in Ids
BY StreamsAssumption DEF Successor, Ids

\* The bound on chunks bounds the chunks of each Stream.
LEMMA SentBounded ==
    ASSUME TypeOK, NEW p \in Peers, NEW o \in Opens, Cardinality(Chunks) < MaxChunks
    PROVE  sent[p][o] < MaxChunks
<1>1. sent[p][o] \in 0..MaxChunks /\ MaxChunks \in Nat
    BY StreamsAssumption DEF TypeOK
<1> SUFFICES ASSUME sent[p][o] = MaxChunks PROVE FALSE
    BY <1>1
<1> DEFINE mine == {<<p, o, n>> : n \in 1..MaxChunks}
<1>2. IsFiniteSet(Peers) /\ IsFiniteSet(1..MaxChunks) /\ Cardinality(1..MaxChunks) = MaxChunks
    <2>1. IsFiniteSet({"client"}) /\ IsFiniteSet({"server"})
        BY FS_Singleton
    <2>2. Peers = {"client"} \cup {"server"}
        BY DEF Peers
    <2>3. IsFiniteSet(1..MaxChunks) /\ Cardinality(1..MaxChunks) = IF 1 > MaxChunks THEN 0 ELSE MaxChunks - 1 + 1
        BY <1>1, FS_Interval
    <2>4. IsFiniteSet(Peers)
        BY <2>1, <2>2, FS_Union
    <2> QED
        BY <2>3, <2>4, <1>1
<1>3. IsFiniteSet(Chunks)
    <2> DEFINE A == Peers \X (Opens \X (1..MaxChunks))
               B == Peers \X Opens \X (1..MaxChunks)
               f == [x \in A |-> <<x[1], x[2][1], x[2][2]>>]
    <2>1. IsFiniteSet(Opens \X (1..MaxChunks))
        BY <1>2, StreamsAssumption, FS_Product
    <2>2. IsFiniteSet(A)
        BY <2>1, <1>2, FS_Product
    <2>3. f \in Surjection(A, B)
        <3>1. f \in [A -> B]
            OBVIOUS
        <3>2. ASSUME NEW t \in B PROVE \E x \in A : f[x] = t
            <4>1. <<t[1], <<t[2], t[3]>>>> \in A /\ t = <<t[1], t[2], t[3]>>
                OBVIOUS
            <4>2. f[<<t[1], <<t[2], t[3]>>>>] = t
                BY <4>1
            <4> QED BY <4>1, <4>2
        <3> QED
            BY <3>1, <3>2 DEF Surjection
    <2>4. IsFiniteSet(B)
        <3> HIDE DEF A, B, f
        <3> QED BY <2>2, <2>3, FS_Surjection
    <2>5. Chunks \in SUBSET B
        BY DEF Chunks
    <2> HIDE DEF B
    <2> QED
        BY <2>4, <2>5, FS_Subset
<1>4. Cardinality(1..MaxChunks) <= Cardinality(Chunks)
    <2> DEFINE f == [n \in 1..MaxChunks |-> <<p, o, n>>]
    <2>1. ASSUME NEW n \in 1..MaxChunks PROVE <<p, o, n>> \in Chunks
        BY <1>1 DEF Chunks
    <2>2. f \in [1..MaxChunks -> Chunks]
        BY <2>1
    <2>3. f \in Injection(1..MaxChunks, Chunks)
        BY <2>2 DEF Injection, IsInjective
    <2> HIDE DEF f
    <2> QED
        BY <2>3, <1>3, FS_Injection
<1>5. Cardinality(Chunks) \in Nat
    BY <1>3, FS_CardinalityType
<1> QED
    BY <1>1, <1>2, <1>4, <1>5

-----------------------------------------------------------------------------
(* Types                                                                   *)

\* There are two peers; a call has one at each end.
LEMMA TwoPeers ==
    ASSUME TypeOK, NEW p \in Peers
    PROVE  /\ Other(p) \in Peers /\ Other(p) # p /\ Other(Other(p)) = p
           /\ \A q \in Peers : q = p \/ q = Other(p)
           /\ \A o \in Opens : /\ opener[o] \in Peers /\ Acceptor(o) \in Peers
                               /\ Acceptor(o) = Other(opener[o])
                               /\ p = opener[o] \/ p = Acceptor(o)
                               /\ p = opener[o] <=> Other(p) = Acceptor(o)
BY StreamsAssumption DEF TypeOK, Peers, Other, Acceptor

\* The wire after a write.
LEMMA Written ==
    ASSUME TypeOK, NEW p \in Peers, NEW m \in Message, Write(p, m)
    PROVE  /\ wire' \in [Peers -> Seq(Message)]
           /\ \A q \in Peers : q # Other(p) => wire'[q] = wire[q]
           /\ wire'[Other(p)] = IF closed[p] \/ closed[Other(p)] THEN wire[Other(p)]
                                ELSE Append(wire[Other(p)], m)
<1>1. wire \in [Peers -> Seq(Message)] /\ Other(p) \in Peers
    BY TwoPeers DEF TypeOK
<1>2. Append(wire[Other(p)], m) \in Seq(Message)
    <2>1. wire[Other(p)] \in Seq(Message)
        BY <1>1
    <2> HIDE DEF Message
    <2> QED BY <2>1, Appended
<1> HIDE DEF Message
<1> QED
    BY <1>1, <1>2 DEF Write

\* A message is taken from a queue.
LEMMA Taken ==
    ASSUME NEW f \in [Peers -> Seq(Message)], NEW p \in Peers, f[p] # <<>>
    PROVE  /\ Head(f[p]) \in Message
           /\ Tail(f[p]) \in Seq(Message)
           /\ [f EXCEPT ![p] = Tail(@)] \in [Peers -> Seq(Message)]
<1>1. f[p] \in Seq(Message)
    OBVIOUS
<1> HIDE DEF Message
<1>2. Head(f[p]) \in Message /\ Tail(f[p]) \in Seq(Message)
    BY <1>1, Tailed
<1> QED
    BY <1>2

\* What a message may be.
LEMMA MessagesTyped ==
    ASSUME NEW o \in Opens
    PROVE  /\ [kind |-> "request", open |-> o] \in Message
           /\ \A i \in 0..MaxStreamId : [kind |-> "response", open |-> o, id |-> i] \in Message
           /\ \A i \in Ids, n \in 1..MaxChunks :
                 [kind |-> "data", id |-> i, chunk |-> [open |-> o, n |-> n]] \in Message
BY DEF Message, Chunk

\* The types of what adopt and close change.
EndsTypeOK ==
    /\ nextStreamId \in [Peers -> Ids]
    /\ registry \in [Peers -> [Ids -> Opens \cup {NoOpen}]]
    /\ streamId \in [Peers -> [Opens -> 0..MaxStreamId]]
    /\ isClosed \in [Peers -> [Opens -> BOOLEAN]]

\* registry.close(i), place by place.
LEMMA Released ==
    ASSUME EndsTypeOK, NEW p \in Peers, NEW i \in Ids, Release(p, i)
    PROVE  /\ registry' \in [Peers -> [Ids -> Opens \cup {NoOpen}]]
           /\ isClosed' \in [Peers -> [Opens -> BOOLEAN]]
           /\ \A q \in Peers, j \in Ids :
                 registry'[q][j] = IF q = p /\ j = i THEN NoOpen ELSE registry[q][j]
           /\ \A q \in Peers, o \in Opens :
                 isClosed'[q][o] = (isClosed[q][o] \/ (q = p /\ registry[p][i] = o))
<1> DEFINE o == registry[p][i]
<1>1. o \in Opens \cup {NoOpen}
    BY DEF EndsTypeOK
<1>2. CASE o = NoOpen
    <2>1. registry' = registry /\ isClosed' = isClosed
        BY <1>2 DEF Release
    <2>2. \A d \in Opens : registry[p][i] # d
        BY <1>2, StreamsAssumption
    <2>3. \A q \in Peers, d \in Opens : isClosed[q][d] \in BOOLEAN
        BY DEF EndsTypeOK
    <2> QED
        BY <2>1, <2>2, <2>3, <1>2 DEF EndsTypeOK
<1>3. CASE o # NoOpen
    <2>1. /\ registry' = [registry EXCEPT ![p][i] = NoOpen]
          /\ isClosed' = [isClosed EXCEPT ![p][o] = TRUE]
        BY <1>3 DEF Release
    <2>2. o \in Opens
        BY <1>1, <1>3
    <2>3. \A q \in Peers, d \in Opens : isClosed[q][d] \in BOOLEAN
        BY DEF EndsTypeOK
    <2>4. \A q \in Peers, d \in Opens :
              isClosed'[q][d] = IF q = p /\ d = o THEN TRUE ELSE isClosed[q][d]
        BY <2>1, <2>2 DEF EndsTypeOK
    <2>5. \A q \in Peers, d \in Opens :
              isClosed'[q][d] = (isClosed[q][d] \/ (q = p /\ registry[p][i] = d))
        <3> TAKE q \in Peers, d \in Opens
        <3>1. isClosed[q][d] \in BOOLEAN
            BY <2>3
        <3>2. isClosed'[q][d] = IF q = p /\ d = o THEN TRUE ELSE isClosed[q][d]
            BY <2>4
        <3> QED BY <3>1, <3>2
    <2>6. registry' \in [Peers -> [Ids -> Opens \cup {NoOpen}]]
          /\ isClosed' \in [Peers -> [Opens -> BOOLEAN]]
        BY <2>1, <2>2 DEF EndsTypeOK
    <2>7. \A q \in Peers, j \in Ids :
                 registry'[q][j] = IF q = p /\ j = i THEN NoOpen ELSE registry[q][j]
        BY <2>1 DEF EndsTypeOK
    <2> QED
        BY <2>5, <2>6, <2>7
<1> QED
    BY <1>2, <1>3

\* registry.adopt, place by place.
LEMMA Adopted ==
    ASSUME EndsTypeOK, NEW p \in Peers, NEW o \in Opens, NEW i \in Ids, Adopt(p, o, i)
    PROVE  /\ registry' \in [Peers -> [Ids -> Opens \cup {NoOpen}]]
           /\ streamId' \in [Peers -> [Opens -> 0..MaxStreamId]]
           /\ \A q \in Peers, j \in Ids :
                 registry'[q][j] = IF q = p /\ j = i THEN o ELSE registry[q][j]
           /\ \A q \in Peers, d \in Opens :
                 streamId'[q][d] = IF q = p /\ d = o THEN i ELSE streamId[q][d]
<1>1. i \in 0..MaxStreamId
    BY StreamsAssumption DEF Ids
<1> QED
    BY <1>1 DEF Adopt, EndsTypeOK

\* An id that is not 0 can be looked up.
LEMMA IdsArePositive ==
    /\ \A i \in 0..MaxStreamId : i # 0 => i \in Ids
    /\ \A i \in Ids : i # 0 /\ i \in 0..MaxStreamId
BY StreamsAssumption DEF Ids

\* The id of a Stream is one, or 0 before it has one.
LEMMA IdsOfStreams ==
    ASSUME TypeOK, NEW p \in Peers, NEW o \in Opens
    PROVE  /\ streamId[p][o] \in 0..MaxStreamId
           /\ streamId[p][o] # 0 => streamId[p][o] \in Ids
<1>1. streamId[p][o] \in 0..MaxStreamId
    BY DEF TypeOK
<1> QED
    BY <1>1, IdsArePositive

\* No step gives a variable a value of another type.
LEMMA TypeKept == StreamsInv /\ [Next]_vars => TypeOK'
<1> SUFFICES ASSUME StreamsInv, [Next]_vars PROVE TypeOK'
    OBVIOUS
<1>0. /\ TypeOK /\ EndsTypeOK
      /\ wire \in [Peers -> Seq(Message)] /\ events \in [Peers -> Seq(Message)]
    BY DEF StreamsInv, TypeOK, EndsTypeOK
<1>1. ASSUME NEW o \in Opens, OpenStream(o) PROVE TypeOK'
    <2>1. opener[o] \in Peers /\ [kind |-> "request", open |-> o] \in Message
        BY <1>0, TwoPeers, MessagesTyped DEF Peers
    <2>2. wire' \in [Peers -> Seq(Message)]
        BY <1>0, <1>1, <2>1, Written DEF OpenStream
    <2> HIDE DEF Message, Peers
    <2> QED
        BY <1>0, <1>1, <2>2 DEF TypeOK, OpenStream, ends
<1>2. ASSUME NEW o \in Opens, OpenTimeout(o) PROVE TypeOK'
    BY <1>0, <1>2 DEF TypeOK, OpenTimeout, ends
<1>3. ASSUME NEW o \in Opens, OpenResumes(o) PROVE TypeOK'
    <2>1. opener[o] \in Peers
        BY <1>0, TwoPeers DEF Peers
    <2>2. offered[o] \in Ids
        BY <1>0, <1>3, IdsArePositive DEF OpenResumes, StreamsInv, StreamsNamed, TypeOK
    <2>3. /\ registry' \in [Peers -> [Ids -> Opens \cup {NoOpen}]]
          /\ streamId' \in [Peers -> [Opens -> 0..MaxStreamId]]
        BY <1>0, <1>3, <2>1, <2>2, Adopted DEF OpenResumes, EndsTypeOK
    <2>4. call' \in [Opens -> {"new", "asked", "resuming", "opened", "failed"}]
        BY <1>0, <1>3 DEF TypeOK, OpenResumes
    <2> QED
        BY <1>0, <1>3, <2>3, <2>4 DEF TypeOK, OpenResumes
<1>4. ASSUME NEW o \in Opens, HandlerStarts(o) PROVE TypeOK'
    <2>1. Acceptor(o) \in Peers
        BY <1>0, TwoPeers DEF Peers
    <2>2. Allocated(Acceptor(o)) \in Ids
        BY <1>0, <1>4, <2>1, AllocatedFree DEF HandlerStarts
    <2>3. /\ registry' \in [Peers -> [Ids -> Opens \cup {NoOpen}]]
          /\ streamId' \in [Peers -> [Opens -> 0..MaxStreamId]]
        BY <1>0, <1>4, <2>1, <2>2, Adopted DEF HandlerStarts
    <2>4. nextStreamId' \in [Peers -> Ids]
        BY <1>0, <1>4, <2>1, <2>2, SuccessorIsId DEF HandlerStarts, EndsTypeOK
    <2>5. ambiguous' \in BOOLEAN /\ handler' \in [Opens -> {"none", "dispatched", "serving", "done"}]
        BY <1>0, <1>4 DEF TypeOK, HandlerStarts
    <2> QED
        BY <1>0, <1>4, <2>3, <2>4, <2>5 DEF TypeOK, HandlerStarts
<1>5. ASSUME NEW o \in Opens, HandlerReturns(o) PROVE TypeOK'
    <2>1. Acceptor(o) \in Peers
        BY <1>0, TwoPeers DEF Peers
    <2>2. [kind |-> "response", open |-> o, id |-> streamId[Acceptor(o)][o]] \in Message
        <3>1. streamId[Acceptor(o)][o] \in 0..MaxStreamId
            BY <1>0, <2>1 DEF TypeOK
        <3> QED
            BY <3>1, MessagesTyped
    <2>3. wire' \in [Peers -> Seq(Message)]
        BY <1>0, <1>5, <2>1, <2>2, Written DEF HandlerReturns
    <2> HIDE DEF Message, Peers
    <2> QED
        BY <1>0, <1>5, <2>3 DEF TypeOK, HandlerReturns, ends
<1>6. ASSUME NEW o \in Opens, HandlerFails(o) PROVE TypeOK'
    <2>1. Acceptor(o) \in Peers
        BY <1>0, TwoPeers DEF Peers
    <2>2. [kind |-> "response", open |-> o, id |-> 0] \in Message
        <3>1. 0 \in 0..MaxStreamId
            BY StreamsAssumption
        <3> QED BY <3>1, MessagesTyped
    <2>3. wire' \in [Peers -> Seq(Message)]
        BY <1>0, <1>6, <2>1, <2>2, Written DEF HandlerFails
    <2>4. streamId[Acceptor(o)][o] \in Ids
        BY <1>0, <1>6, <2>1, IdsArePositive DEF HandlerFails, StreamsInv, StreamsNamed, TypeOK
    <2>5. /\ registry' \in [Peers -> [Ids -> Opens \cup {NoOpen}]]
          /\ isClosed' \in [Peers -> [Opens -> BOOLEAN]]
        BY <1>0, <1>6, <2>1, <2>4, Released DEF HandlerFails
    <2> HIDE DEF Message, Peers
    <2> QED
        BY <1>0, <1>6, <2>3, <2>5 DEF TypeOK, HandlerFails
<1>7. ASSUME NEW p \in Peers, Receive(p) PROVE TypeOK'
    <2> DEFINE m == Head(wire[p])
    <2>1. /\ m \in Message /\ wire' \in [Peers -> Seq(Message)]
        BY <1>0, <1>7, Taken DEF Receive
    <2>2. \/ m.kind = "response" /\ call[m.open] = "asked" /\ events' = events
             /\ call' = [call EXCEPT ![m.open] = IF m.id = 0 THEN "failed" ELSE "resuming"]
             /\ offered' = [offered EXCEPT ![m.open] = m.id]
          \/ UNCHANGED <<call, offered, events>>
          \/ events' = [events EXCEPT ![p] = Append(@, m)] /\ UNCHANGED <<call, offered>>
        BY <1>7 DEF Receive
    <2>3. m.kind = "response" => m.open \in Opens /\ m.id \in 0..MaxStreamId
        BY <2>1, MessageFields
    <2>4. Append(events[p], m) \in Seq(Message)
        <3>1. events[p] \in Seq(Message)
            BY <1>0
        <3> HIDE DEF Message, m
        <3> QED BY <3>1, <2>1, Appended
    <2> HIDE DEF Message, Peers, m
    <2>5. events' \in [Peers -> Seq(Message)]
        BY <1>0, <2>2, <2>4
    <2>6. /\ call' \in [Opens -> {"new", "asked", "resuming", "opened", "failed"}]
          /\ offered' \in [Opens -> 0..MaxStreamId]
        BY <1>0, <2>2, <2>3 DEF TypeOK
    <2> QED
        BY <1>0, <1>7, <2>1, <2>5, <2>6 DEF TypeOK, Receive, ends
<1>8. ASSUME NEW p \in Peers, Consume(p) PROVE TypeOK'
    <2> DEFINE m == Head(events[p])
               o == registry[p][m.id]
    <2>1. /\ m \in Message /\ events' \in [Peers -> Seq(Message)]
        BY <1>0, <1>8, Taken DEF Consume
    <2>2. \/ m.kind = "request" /\ handler' = [handler EXCEPT ![m.open] = "dispatched"]
             /\ UNCHANGED got
          \/ m.kind = "data" /\ UNCHANGED handler
             /\ got' = IF o = NoOpen THEN got ELSE [got EXCEPT ![p][o] = Append(@, m.chunk)]
        BY <1>8 DEF Consume
    <2>3. /\ m.kind = "request" => m.open \in Opens
          /\ m.kind = "data" => m.id \in Ids /\ m.chunk \in Chunk
        BY <2>1, MessageFields
    <2>4. m.kind = "data" => o \in Opens \cup {NoOpen}
        BY <1>0, <2>3 DEF EndsTypeOK
    <2> HIDE DEF m, o, Chunk, Message, Peers
    <2>5. handler' \in [Opens -> {"none", "dispatched", "serving", "done"}]
        BY <1>0, <2>2, <2>3 DEF TypeOK
    <2>6. got \in [Peers -> [Opens -> Seq(Chunk)]]
        BY <1>0 DEF TypeOK
    <2>7. m.kind = "data" /\ o # NoOpen => o \in Opens /\ Append(got[p][o], m.chunk) \in Seq(Chunk)
        BY <2>3, <2>4, <2>6
    <2>8. got' \in [Peers -> [Opens -> Seq(Chunk)]]
        <3>1. CASE got' = got
            BY <3>1, <2>6
        <3>2. CASE got' = [got EXCEPT ![p][o] = Append(@, m.chunk)] /\ m.kind = "data" /\ o # NoOpen
            BY <3>2, <2>6, <2>7
        <3> QED
            BY <3>1, <3>2, <2>2
    <2> QED
        BY <1>0, <1>8, <2>1, <2>5, <2>8 DEF TypeOK, Consume, ends
<1>9. ASSUME NEW p \in Peers, Close(p) PROVE TypeOK'
    <2>1. registry' \in [Peers -> [Ids -> Opens \cup {NoOpen}]]
        BY <1>0, <1>9 DEF Close, EndsTypeOK
    <2>2. isClosed' \in [Peers -> [Opens -> BOOLEAN]]
        BY <1>0, <1>9 DEF Close, EndsTypeOK
    <2>3. call' \in [Opens -> {"new", "asked", "resuming", "opened", "failed"}]
        BY <1>0, <1>9 DEF Close, TypeOK
    <2>4. closed' \in [Peers -> BOOLEAN]
        BY <1>0, <1>9 DEF Close, TypeOK
    <2>5. <<>> \in Seq(Message)
        OBVIOUS
    <2> HIDE DEF Message, Peers
    <2>6. wire' \in [Peers -> Seq(Message)] /\ events' \in [Peers -> Seq(Message)]
        BY <1>0, <1>9, <2>5 DEF Close
    <2> QED
        BY <1>0, <1>9, <2>1, <2>2, <2>3, <2>4, <2>6 DEF TypeOK, Close
<1>10. ASSUME NEW p \in Peers, NEW o \in Opens, Send(p, o) PROVE TypeOK'
    <2>1. streamId[p][o] \in Ids
        BY <1>0, <1>10, IdsArePositive DEF Send, TypeOK
    <2>2. sent[p][o] \in 0..MaxChunks /\ sent[p][o] < MaxChunks /\ MaxChunks \in Nat
        BY <1>0, <1>10, SentBounded, StreamsAssumption, SMTT(30) DEF Send, TypeOK
    <2>3. sent[p][o] + 1 \in 1..MaxChunks /\ sent[p][o] + 1 \in 0..MaxChunks
        BY <2>2
    <2>4. [kind |-> "data", id |-> streamId[p][o],
           chunk |-> [open |-> o, n |-> sent[p][o] + 1]] \in Message
        BY <2>1, <2>3, MessagesTyped
    <2>5. wire' \in [Peers -> Seq(Message)]
        BY <1>0, <1>10, <2>4, Written DEF Send
    <2> HIDE DEF Message, Peers
    <2>6. sent' \in [Peers -> [Opens -> 0..MaxChunks]]
        BY <1>0, <1>10, <2>3 DEF Send, TypeOK
    <2> QED
        BY <1>0, <1>10, <2>5, <2>6 DEF TypeOK, Send, ends
<1>11. ASSUME NEW p \in Peers, NEW o \in Opens, CloseStream(p, o) PROVE TypeOK'
    <2>1. streamId[p][o] \in Ids
        BY <1>0, <1>11, IdsArePositive DEF CloseStream, TypeOK
    <2>2. /\ registry' \in [Peers -> [Ids -> Opens \cup {NoOpen}]]
          /\ isClosed' \in [Peers -> [Opens -> BOOLEAN]]
        BY <1>0, <1>11, <2>1, Released DEF CloseStream
    <2> QED
        BY <1>0, <1>11, <2>2 DEF TypeOK, CloseStream
<1>12. CASE UNCHANGED vars
    BY <1>0, <1>12 DEF TypeOK, vars, ends
<1> QED
    BY <1>1, <1>2, <1>3, <1>4, <1>5, <1>6, <1>7, <1>8, <1>9, <1>10, <1>11, <1>12 DEF Next

-----------------------------------------------------------------------------
(* Messages                                                                *)

\* What a step never takes back.
LEMMA Stable ==
    ASSUME StreamsInv, [Next]_vars
    PROVE  /\ opener' = opener
           /\ \A o \in Opens : call[o] # "new" => call'[o] # "new"
           /\ \A p \in Peers, o \in Opens :
                 streamId[p][o] # 0 => streamId'[p][o] = streamId[p][o]
<1>0. TypeOK /\ StreamsNamed /\ EndsTypeOK
    BY DEF StreamsInv, TypeOK, EndsTypeOK
<1>1. opener' = opener
    BY DEF Next, vars, OpenStream, OpenTimeout, OpenResumes, HandlerStarts, HandlerReturns,
           HandlerFails, Receive, Consume, Close, Send, CloseStream
<1>2. \A o \in Opens : call[o] # "new" => call'[o] # "new"
    <2>1. ASSUME NEW o \in Opens, NEW x \in {"asked", "failed", "resuming", "opened"},
                 call' = [call EXCEPT ![o] = x]
          PROVE  \A d \in Opens : call[d] # "new" => call'[d] # "new"
        BY <1>0, <2>1 DEF TypeOK
    <2>2. ASSUME NEW p \in Peers, Receive(p)
          PROVE  \A d \in Opens : call[d] # "new" => call'[d] # "new"
        <3>1. wire[p] # <<>> /\ wire \in [Peers -> Seq(Message)]
            BY <1>0, <2>2 DEF Receive, TypeOK
        <3>2. Head(wire[p]) \in Message
            BY <3>1, Taken
        <3> DEFINE m == Head(wire[p])
        <3>3. m.kind = "response" => m.open \in Opens
            BY <3>2, MessageFields
        <3>4. call' = call \/ (m.kind = "response"
                                /\ \E x \in {"failed", "resuming"} : call' = [call EXCEPT ![m.open] = x])
            BY <2>2 DEF Receive
        <3> HIDE DEF m
        <3> QED
            BY <3>3, <3>4, <2>1
    <2>3. ASSUME NEW p \in Peers, Close(p)
          PROVE  \A d \in Opens : call[d] # "new" => call'[d] # "new"
        BY <1>0, <2>3 DEF TypeOK, Close
    <2>4. ASSUME call' = call
          PROVE  \A d \in Opens : call[d] # "new" => call'[d] # "new"
        BY <2>4
    <2>5. ASSUME NEW o \in Opens, OpenResumes(o)
          PROVE  \A d \in Opens : call[d] # "new" => call'[d] # "new"
        BY <2>1, <2>5 DEF OpenResumes
    <2> QED
        BY <2>1, <2>2, <2>3, <2>4, <2>5
           DEF Next, vars, OpenStream, OpenTimeout, HandlerStarts, HandlerReturns,
               HandlerFails, Consume, Send, CloseStream
<1>3. \A p \in Peers, o \in Opens : streamId[p][o] # 0 => streamId'[p][o] = streamId[p][o]
    <2>1. ASSUME NEW o \in Opens, OpenResumes(o)
          PROVE  \A p \in Peers, d \in Opens : streamId[p][d] # 0 => streamId'[p][d] = streamId[p][d]
        <3>1. opener[o] \in Peers /\ streamId[opener[o]][o] = 0
            BY <1>0, <2>1, TwoPeers DEF OpenResumes, StreamsNamed, Peers
        <3>2. offered[o] \in Ids
            BY <1>0, <2>1, IdsArePositive DEF OpenResumes, StreamsNamed, TypeOK
        <3>3. CASE registry[opener[o]][offered[o]] = NoOpen
            BY <1>0, <2>1, <3>1, <3>2, <3>3, Adopted DEF OpenResumes
        <3>4. CASE registry[opener[o]][offered[o]] # NoOpen
            BY <2>1, <3>4 DEF OpenResumes
        <3> QED BY <3>3, <3>4
    <2>2. ASSUME NEW o \in Opens, HandlerStarts(o)
          PROVE  \A p \in Peers, d \in Opens : streamId[p][d] # 0 => streamId'[p][d] = streamId[p][d]
        <3>1. Acceptor(o) \in Peers /\ streamId[Acceptor(o)][o] = 0
            BY <1>0, <2>2, TwoPeers DEF HandlerStarts, StreamsNamed, Peers
        <3>2. Allocated(Acceptor(o)) \in Ids
            BY <1>0, <2>2, <3>1, AllocatedFree DEF HandlerStarts
        <3> QED
            BY <1>0, <2>2, <3>1, <3>2, Adopted DEF HandlerStarts
    <2>3. ASSUME streamId' = streamId
          PROVE  \A p \in Peers, d \in Opens : streamId[p][d] # 0 => streamId'[p][d] = streamId[p][d]
        BY <2>3
    <2> QED
        BY <2>1, <2>2, <2>3
           DEF Next, vars, ends, OpenStream, OpenTimeout, HandlerReturns,
               HandlerFails, Receive, Consume, Close, Send, CloseStream
<1> QED
    BY <1>1, <1>2, <1>3

\* A message stays true while it is under way: ids do not change, and a
\* handler does not start before its request is consumed.
LEMMA TruthfulKept ==
    ASSUME StreamsInv, [Next]_vars, NEW q \in Peers, NEW m \in Message, Truthful(q, m),
           m.kind = "request" => handler'[m.open] = "none"
    PROVE  Truthful(q, m)'
<1>0. TypeOK
    BY DEF StreamsInv
<1>1. \A o \in Opens : Acceptor(o)' = Acceptor(o) /\ Acceptor(o) \in Peers
    BY <1>0, Stable, TwoPeers DEF Acceptor
<1>2. CASE m.kind = "request"
    <2>1. m.open \in Opens /\ ~(m.kind = "response") /\ ~(m.kind = "data")
        BY <1>2, MessageFields
    <2> QED
        BY <2>1, <1>1, <1>2, Stable DEF Truthful
<1>3. CASE m.kind = "response"
    <2>1. m.open \in Opens /\ m.id \in 0..MaxStreamId /\ ~(m.kind = "request") /\ ~(m.kind = "data")
        BY <1>3, MessageFields
    <2>2. m.id = 0 \/ (m.id = streamId[Acceptor(m.open)][m.open] /\ m.id # 0)
        BY <1>3 DEF Truthful
    <2>3. m.id = 0 \/ m.id = streamId'[Acceptor(m.open)][m.open]
        BY <2>1, <2>2, <1>1, Stable
    <2>4. q = opener'[m.open]
        BY <1>3, Stable DEF Truthful
    <2> QED
        BY <2>1, <2>3, <2>4, <1>1 DEF Truthful
<1>4. CASE m.kind = "data"
    <2>1. /\ m.chunk.open \in Opens /\ m.id \in Ids
          /\ ~(m.kind = "request") /\ ~(m.kind = "response")
        BY <1>4, MessageFields
    <2>2. m.id = streamId[Other(q)][m.chunk.open] /\ m.id # 0 /\ Other(q) \in Peers
        BY <1>0, <1>4, <2>1, IdsArePositive, TwoPeers DEF Truthful
    <2>3. m.id = streamId'[Other(q)][m.chunk.open]
        BY <2>1, <2>2, Stable
    <2> QED
        BY <2>1, <2>3 DEF Truthful
<1> QED
    BY <1>2, <1>3, <1>4, MessageFields

\* What Send sends is a message.
LEMMA SendInBounds ==
    ASSUME TypeOK, NEW p \in Peers, NEW o \in Opens, Send(p, o)
    PROVE  /\ streamId[p][o] \in Ids /\ sent[p][o] + 1 \in 1..MaxChunks
           /\ sent[p][o] \in Nat
           /\ sent' = [sent EXCEPT ![p][o] = sent[p][o] + 1]
<1>1. streamId[p][o] \in Ids
    BY IdsArePositive DEF Send, TypeOK
<1>2. sent[p][o] \in 0..MaxChunks /\ sent[p][o] < MaxChunks /\ MaxChunks \in Nat
    BY SentBounded, StreamsAssumption, SMTT(30) DEF Send, TypeOK
<1>3. sent' = [sent EXCEPT ![p][o] = sent[p][o] + 1]
    BY DEF Send
<1> QED
    BY <1>1, <1>2, <1>3

\* The messages under way are messages.
LEMMA UnderWayTyped ==
    ASSUME TypeOK, NEW p \in Peers
    PROVE  /\ wire[p] \in Seq(Message) /\ events[p] \in Seq(Message)
           /\ \A k \in DOMAIN wire[p] : wire[p][k] \in Message
           /\ \A k \in DOMAIN events[p] : events[p][k] \in Message
<1>1. wire[p] \in Seq(Message) /\ events[p] \in Seq(Message)
    BY DEF TypeOK
<1> HIDE DEF Message
<1> QED
    BY <1>1

\* A step that leaves the queues alone, but for a truthful message to q.
LEMMA MessagesWritten ==
    ASSUME StreamsInv, [Next]_vars, \A o \in Opens : handler[o] = "none" => handler'[o] = "none",
           NEW q \in Peers, NEW m \in Message, Truthful(q, m)',
           \A p \in Peers : p # q => wire'[p] = wire[p],
           wire'[q] \in {wire[q], Append(wire[q], m)},
           events' = events
    PROVE  MessagesOK'
<1>0. TypeOK /\ MessagesOK
    BY DEF StreamsInv
<1>1. ASSUME NEW p \in Peers, NEW x \in Message, Truthful(p, x) PROVE Truthful(p, x)'
    <2>1. x.kind = "request" => handler'[x.open] = "none"
        BY <1>1, MessageFields DEF Truthful
    <2> QED
        BY <1>1, <2>1, TruthfulKept
<1>2. ASSUME NEW p \in Peers, NEW x \in Message
      PROVE  /\ In(x, wire'[p]) \/ In(x, events'[p]) => Truthful(p, x)'
             /\ In(x, events'[p]) => x.kind # "response"
    <2>1. wire[p] \in Seq(Message)
        BY <1>0, UnderWayTyped
    <2>2. In(x, wire'[p]) => In(x, wire[p]) \/ (p = q /\ x = m)
        BY <2>1, InAppended
    <2>3. In(x, events'[p]) => In(x, events[p])
        OBVIOUS
    <2>4. In(x, wire[p]) \/ In(x, events[p]) => Truthful(p, x)'
        BY <1>0, <1>1 DEF MessagesOK
    <2>5. In(x, events[p]) => x.kind # "response"
        BY <1>0 DEF MessagesOK
    <2> QED
        BY <2>2, <2>3, <2>4, <2>5
<1> QED
    BY <1>2 DEF MessagesOK

\* A step that only takes or moves messages.
LEMMA MessagesMoved ==
    ASSUME StreamsInv, [Next]_vars, \A o \in Opens : handler[o] = "none" => handler'[o] = "none",
           \A p \in Peers, x \in Message :
              /\ In(x, wire'[p]) => In(x, wire[p])
              /\ In(x, events'[p]) => \/ In(x, events[p])
                                      \/ In(x, wire[p]) /\ x.kind # "response"
    PROVE  MessagesOK'
<1>0. TypeOK /\ MessagesOK
    BY DEF StreamsInv
<1>1. ASSUME NEW p \in Peers, NEW x \in Message, Truthful(p, x) PROVE Truthful(p, x)'
    <2>1. x.kind = "request" => handler'[x.open] = "none"
        BY <1>1, MessageFields DEF Truthful
    <2> QED
        BY <1>1, <2>1, TruthfulKept
<1>2. ASSUME NEW p \in Peers, NEW x \in Message
      PROVE  /\ In(x, wire'[p]) \/ In(x, events'[p]) => Truthful(p, x)'
             /\ In(x, events'[p]) => x.kind # "response"
    <2>1. In(x, wire[p]) \/ In(x, events[p]) => Truthful(p, x)'
        BY <1>0, <1>1 DEF MessagesOK
    <2>2. In(x, events[p]) => x.kind # "response"
        BY <1>0 DEF MessagesOK
    <2> QED
        BY <2>1, <2>2
<1> QED
    BY <1>2 DEF MessagesOK

\* The queues as Receive and Consume leave them.
LEMMA Received ==
    ASSUME TypeOK, NEW p \in Peers, Receive(p)
    PROVE  /\ wire[p] # <<>> /\ Head(wire[p]) \in Message
           /\ wire'[p] = Tail(wire[p])
           /\ events'[p] = IF Head(wire[p]).kind = "response" THEN events[p]
                           ELSE Append(events[p], Head(wire[p]))
           /\ \A q \in Peers : q # p => wire'[q] = wire[q] /\ events'[q] = events[q]
<1>1. wire \in [Peers -> Seq(Message)] /\ events \in [Peers -> Seq(Message)]
    BY DEF TypeOK
<1>2. wire[p] # <<>> /\ wire' = [wire EXCEPT ![p] = Tail(@)]
    BY DEF Receive
<1>3. Head(wire[p]) \in Message
    BY <1>1, <1>2, Taken
<1> HIDE DEF Message, Peers
<1>4. \/ Head(wire[p]).kind = "response" /\ events' = events
      \/ Head(wire[p]).kind # "response" /\ events' = [events EXCEPT ![p] = Append(@, Head(wire[p]))]
    BY DEF Receive
<1> QED
    BY <1>1, <1>2, <1>3, <1>4

\* The queues as Consume leaves them, and what it finds.
LEMMA Consumed ==
    ASSUME StreamsInv, NEW p \in Peers, Consume(p)
    PROVE  /\ events[p] # <<>> /\ Head(events[p]) \in Message
           /\ In(Head(events[p]), events[p]) /\ Truthful(p, Head(events[p]))
           /\ events'[p] = Tail(events[p])
           /\ \A q \in Peers : q # p => events'[q] = events[q]
           /\ wire' = wire
<1>1. TypeOK /\ MessagesOK /\ events \in [Peers -> Seq(Message)]
    BY DEF StreamsInv, TypeOK
<1>2. events[p] # <<>> /\ events' = [events EXCEPT ![p] = Tail(@)] /\ wire' = wire
    BY DEF Consume
<1>3. Head(events[p]) \in Message /\ events[p] \in Seq(Message)
    BY <1>1, <1>2, Taken
<1>4. In(Head(events[p]), events[p])
    BY <1>2, <1>3, InTaken
<1>5. Truthful(p, Head(events[p]))
    BY <1>1, <1>3, <1>4 DEF MessagesOK
<1> HIDE DEF Message, Peers
<1> QED
    BY <1>1, <1>2, <1>3, <1>4, <1>5

\* MessagesOK, action by action: RequestsOnce is needed where Consume
\* dispatches a handler, for no second request may be left behind.
LEMMA MessagesKept == StreamsInv /\ [Next]_vars => MessagesOK'
<1> SUFFICES ASSUME StreamsInv, [Next]_vars PROVE MessagesOK'
    OBVIOUS
<1>0. TypeOK /\ MessagesOK /\ RequestsOnce /\ StreamsNamed
    BY DEF StreamsInv
<1> DEFINE Stay == \A o \in Opens : handler[o] = "none" => handler'[o] = "none"
<1>1. ASSUME NEW o \in Opens, OpenStream(o) PROVE MessagesOK'
    <2> DEFINE m == [kind |-> "request", open |-> o]
    <2>1. /\ opener[o] \in Peers /\ m \in Message /\ m.kind = "request" /\ m.open = o
          /\ Other(opener[o]) = Acceptor(o)
        BY <1>0, TwoPeers, MessagesTyped DEF Peers
    <2>2. handler'[o] = "none" /\ call'[o] # "new" /\ Stay /\ events' = events
        BY <1>0, <1>1 DEF OpenStream, StreamsNamed, TypeOK
    <2>3. Acceptor(o)' = Acceptor(o)
        BY Stable DEF Acceptor
    <2>4. Truthful(Acceptor(o), m)'
        BY <2>1, <2>2, <2>3 DEF Truthful
    <2>5. /\ \A q \in Peers : q # Acceptor(o) => wire'[q] = wire[q]
          /\ wire'[Acceptor(o)] \in {wire[Acceptor(o)], Append(wire[Acceptor(o)], m)}
        BY <1>0, <1>1, <2>1, Written DEF OpenStream
    <2>6. PICK q \in Peers : q = Acceptor(o)
        BY <2>1, TwoPeers, <1>0
    <2>7. Truthful(q, m)'
        BY <2>3, <2>4, <2>6
    <2> HIDE DEF m, Message, Peers
    <2> QED
        BY <2>1, <2>2, <2>5, <2>6, <2>7, MessagesWritten
<1>2. ASSUME NEW o \in Opens, NEW i \in 0..MaxStreamId, Stay, events' = events,
             Write(Acceptor(o), [kind |-> "response", open |-> o, id |-> i]),
             i \in {0, streamId'[Acceptor(o)][o]}
      PROVE  MessagesOK'
    <2> DEFINE m == [kind |-> "response", open |-> o, id |-> i]
    <2>1. /\ Acceptor(o) \in Peers /\ m \in Message /\ m.kind = "response" /\ m.open = o /\ m.id = i
          /\ Other(Acceptor(o)) = opener[o] /\ opener[o] \in Peers
        BY <1>0, TwoPeers, MessagesTyped DEF Peers
    <2>2. Acceptor(o)' = Acceptor(o) /\ opener'[o] = opener[o]
        BY Stable DEF Acceptor
    <2>3. PICK q \in Peers : q = opener[o]
        BY <2>1
    <2>4. Truthful(q, m)'
        BY <1>2, <2>1, <2>2, <2>3 DEF Truthful
    <2>5. /\ \A r \in Peers : r # q => wire'[r] = wire[r]
          /\ wire'[q] \in {wire[q], Append(wire[q], m)}
        BY <1>0, <1>2, <2>1, <2>3, Written
    <2> HIDE DEF m, Message, Peers
    <2> QED
        BY <1>2, <2>1, <2>4, <2>5, MessagesWritten
<1>3. ASSUME NEW o \in Opens, HandlerReturns(o) PROVE MessagesOK'
    <2>1. Acceptor(o) \in Peers /\ streamId[Acceptor(o)][o] \in 0..MaxStreamId
        BY <1>0, TwoPeers, SMTT(30) DEF TypeOK, Peers
    <2>2. Stay /\ streamId' = streamId /\ events' = events
        BY <1>0, <1>3 DEF HandlerReturns, ends, TypeOK
    <2> QED
        BY <1>2, <1>3, <2>1, <2>2 DEF HandlerReturns
<1>4. ASSUME NEW o \in Opens, HandlerFails(o) PROVE MessagesOK'
    <2>1. 0 \in 0..MaxStreamId
        BY StreamsAssumption
    <2>2. Stay /\ events' = events
        BY <1>0, <1>4 DEF HandlerFails, TypeOK
    <2> QED
        BY <1>2, <1>4, <2>1, <2>2 DEF HandlerFails
<1>5. ASSUME NEW p \in Peers, NEW o \in Opens, Send(p, o) PROVE MessagesOK'
    <2> DEFINE m == [kind |-> "data", id |-> streamId[p][o],
                     chunk |-> [open |-> o, n |-> sent[p][o] + 1]]
    <2>1. streamId[p][o] \in Ids /\ streamId' = streamId /\ Stay /\ events' = events
        BY <1>0, <1>5, IdsArePositive DEF Send, TypeOK, ends
    <2>2. sent[p][o] + 1 \in 1..MaxChunks
        <3>1. sent[p][o] \in 0..MaxChunks /\ sent[p][o] < MaxChunks /\ MaxChunks \in Nat
            BY <1>0, <1>5, SentBounded, StreamsAssumption, SMTT(30) DEF Send, TypeOK
        <3> QED BY <3>1
    <2>3. /\ m \in Message /\ m.kind = "data" /\ m.id = streamId[p][o] /\ m.chunk.open = o
        BY <2>1, <2>2, MessagesTyped
    <2>4. PICK q \in Peers : q = Other(p) /\ Other(q) = p
        BY <1>0, TwoPeers
    <2>5. \A x \in {m} : Truthful(q, x)'
        BY <2>1, <2>3, <2>4 DEF Truthful
    <2>6. /\ \A r \in Peers : r # q => wire'[r] = wire[r]
          /\ wire'[q] \in {wire[q], Append(wire[q], m)}
        BY <1>0, <1>5, <2>3, <2>4, Written DEF Send
    <2>7. PICK x \in Message : x = m
        BY <2>3
    <2> HIDE DEF m, Message, Peers
    <2> QED
        BY <2>1, <2>5, <2>6, <2>7, MessagesWritten
<1>6. ASSUME NEW p \in Peers, Receive(p) PROVE MessagesOK'
    <2>1. Stay
        BY <1>6 DEF Receive
    <2>2. ASSUME NEW q \in Peers, NEW x \in Message
          PROVE  /\ In(x, wire'[q]) => In(x, wire[q])
                 /\ In(x, events'[q]) => \/ In(x, events[q])
                                         \/ In(x, wire[q]) /\ x.kind # "response"
        <3>1. wire[p] \in Seq(Message) /\ events[p] \in Seq(Message)
            BY <1>0, UnderWayTyped
        <3> HIDE DEF Message
        <3>2. CASE q # p
            BY <1>0, <1>6, <3>2, Received
        <3>3. CASE q = p
            <4>1. In(x, wire'[p]) => In(x, wire[p])
                BY <1>0, <1>6, <3>1, Received, InTaken
            <4>2. In(Head(wire[p]), wire[p])
                BY <1>0, <1>6, <3>1, Received, InTaken
            <4>3. CASE Head(wire[p]).kind = "response"
                BY <1>0, <1>6, <3>3, <4>1, <4>3, Received
            <4>4. CASE Head(wire[p]).kind # "response"
                <5>1. events'[p] = Append(events[p], Head(wire[p])) /\ Head(wire[p]) \in Message
                    BY <1>0, <1>6, <4>4, Received
                <5>2. In(x, events'[p]) => In(x, events[p]) \/ x = Head(wire[p])
                    BY <5>1, <3>1, InAppended
                <5> QED BY <5>2, <3>3, <4>1, <4>2, <4>4
            <4> QED BY <4>3, <4>4
        <3> QED BY <3>2, <3>3
    <2> QED
        BY <2>1, <2>2, MessagesMoved
<1>7. ASSUME NEW p \in Peers, Consume(p) PROVE MessagesOK'
    <2>2. events[p] \in Seq(Message) /\ wire[p] \in Seq(Message)
        BY <1>0, UnderWayTyped
    <2> DEFINE m == Head(events[p])
    <2>1. /\ events[p] # <<>> /\ m \in Message /\ In(m, events[p]) /\ Truthful(p, m)
          /\ events'[p] = Tail(events[p]) /\ wire' = wire
          /\ \A q \in Peers : q # p => events'[q] = events[q]
        BY <1>7, Consumed
    <2>3. \/ m.kind = "request" /\ handler' = [handler EXCEPT ![m.open] = "dispatched"]
          \/ m.kind = "data" /\ UNCHANGED handler
        BY <1>7 DEF Consume
    <2> HIDE DEF Message, m
    <2>4. ASSUME NEW q \in Peers, NEW x \in Message,
                 In(x, wire'[q]) \/ In(x, events'[q])
          PROVE  /\ Truthful(q, x)' /\ (In(x, events'[q]) => x.kind # "response")
        <3>1. In(x, wire'[q]) => In(x, wire[q])
            BY <2>1
        <3>2. In(x, events'[q]) => In(x, events[q])
            <4>1. CASE q = p
                <5>1. events[p] # <<>> /\ events'[p] = Tail(events[p])
                    BY <2>1
                <5>2. In(x, Tail(events[p])) => In(x, events[p])
                    BY <2>2, <5>1, InTaken
                <5> QED BY <4>1, <5>1, <5>2
            <4>2. CASE q # p
                BY <4>2, <2>1
            <4> QED BY <4>1, <4>2
        <3>3. Truthful(q, x) /\ (In(x, events'[q]) => x.kind # "response")
            BY <1>0, <2>4, <3>1, <3>2 DEF MessagesOK
        <3>4. x.kind = "request" => handler'[x.open] = "none"
            <4> SUFFICES ASSUME x.kind = "request" PROVE handler'[x.open] = "none"
                OBVIOUS
            <4>1. x.open \in Opens /\ handler[x.open] = "none" /\ q = Acceptor(x.open)
                BY <3>3, MessageFields DEF Truthful
            <4>2. m.kind = "request" => m.open # x.open
                <5> SUFFICES ASSUME m.kind = "request", m.open = x.open PROVE FALSE
                    OBVIOUS
                <5>1. p = q
                    BY <2>1, <4>1 DEF Truthful
                <5>2. IsRequest(Head(events[p]), x.open) /\ IsRequest(x, x.open)
                    BY DEF IsRequest, m
                <5>3. Once(events[p], x.open) /\ ~(Asked(wire[p], x.open) /\ Asked(events[p], x.open))
                    BY <1>0, <4>1 DEF RequestsOnce
                <5>4. ~Asked(Tail(events[p]), x.open) /\ Asked(events[p], x.open)
                    BY <2>1, <2>2, <5>2, <5>3, OnceTaken
                <5>5. Asked(wire[p], x.open) \/ Asked(Tail(events[p]), x.open)
                    BY <2>1, <2>4, <5>1, <5>2 DEF In, Asked
                <5> QED BY <5>3, <5>4, <5>5
            <4>3. m.kind = "request" => m.open \in Opens
                BY <2>1, MessageFields
            <4> QED
                BY <1>0, <2>3, <4>1, <4>2, <4>3 DEF TypeOK
        <3> QED
            BY <3>3, <3>4, TruthfulKept
    <2> QED
        BY <2>4 DEF MessagesOK
<1>8. ASSUME NEW p \in Peers, Close(p) PROVE MessagesOK'
    <2>1. Stay
        BY <1>8 DEF Close
    <2>2. ASSUME NEW q \in Peers, NEW x
          PROVE  /\ In(x, wire'[q]) => In(x, wire[q])
                 /\ In(x, events'[q]) => In(x, events[q])
        <3>1. wire'[q] \in {wire[q], <<>>} /\ events'[q] \in {events[q], <<>>}
            BY <1>0, <1>8 DEF Close, TypeOK
        <3>2. ~In(x, <<>>)
            BY DEF In
        <3> QED BY <3>1, <3>2
    <2> QED
        BY <2>1, <2>2, MessagesMoved
<1>9. ASSUME wire' = wire, events' = events, Stay PROVE MessagesOK'
    BY <1>9, MessagesMoved
<1>10. ASSUME NEW o \in Opens, OpenTimeout(o) \/ OpenResumes(o) \/ HandlerStarts(o) PROVE MessagesOK'
    <2>1. wire' = wire /\ events' = events
        BY <1>10 DEF OpenTimeout, OpenResumes, HandlerStarts
    <2>2. Stay
        BY <1>0, <1>10 DEF OpenTimeout, OpenResumes, HandlerStarts, TypeOK
    <2> QED
        BY <1>9, <2>1, <2>2
<1>11. ASSUME NEW p \in Peers, NEW o \in Opens, CloseStream(p, o) PROVE MessagesOK'
    BY <1>9, <1>11 DEF CloseStream
<1>12. CASE UNCHANGED vars
    BY <1>9, <1>12 DEF vars
<1> HIDE DEF Stay
<1> QED
    BY <1>1, <1>3, <1>4, <1>5, <1>6, <1>7, <1>8, <1>10, <1>11, <1>12 DEF Next

\* RequestsOnce, action by action: OpenStream asks once, for only a new call
\* may ask and what is under way belongs to calls that are not.
LEMMA RequestsKept == StreamsInv /\ [Next]_vars => RequestsOnce'
<1> SUFFICES ASSUME StreamsInv, [Next]_vars PROVE RequestsOnce'
    OBVIOUS
<1>0. TypeOK /\ MessagesOK /\ RequestsOnce /\ StreamsNamed
    BY DEF StreamsInv
<1>1. ASSUME NEW p \in Peers, NEW m \in Message, Write(p, m), events' = events,
             \A o \in Opens : IsRequest(m, o) =>
                ~Asked(wire[Other(p)], o) /\ ~Asked(events[Other(p)], o)
      PROVE  RequestsOnce'
    <2>1. ASSUME NEW q \in Peers, NEW o \in Opens
          PROVE  /\ Once(wire'[q], o) /\ Once(events'[q], o)
                 /\ ~(Asked(wire'[q], o) /\ Asked(events'[q], o))
        <3>1. wire[q] \in Seq(Message)
            BY <1>0, UnderWayTyped
        <3>2. CASE wire'[q] = wire[q]
            BY <1>0, <1>1, <3>2 DEF RequestsOnce
        <3>3. CASE wire'[q] = Append(wire[q], m) /\ q = Other(p)
            <4>1. /\ Asked(wire'[q], o) <=> Asked(wire[q], o) \/ IsRequest(m, o)
                  /\ Once(wire[q], o) /\ ~(IsRequest(m, o) /\ Asked(wire[q], o)) =>
                        Once(wire'[q], o)
                BY <3>1, <3>3, OnceAppended
            <4> QED
                BY <1>0, <1>1, <3>3, <4>1 DEF RequestsOnce
        <3> QED
            BY <1>0, <1>1, <3>2, <3>3, Written
    <2> QED
        BY <2>1 DEF RequestsOnce
<1>2. ASSUME NEW o \in Opens, OpenStream(o) PROVE RequestsOnce'
    <2> DEFINE m == [kind |-> "request", open |-> o]
    <2>1. opener[o] \in Peers /\ m \in Message /\ Other(opener[o]) \in Peers
        BY <1>0, TwoPeers, MessagesTyped DEF Peers
    <2>2. Write(opener[o], m) /\ events' = events /\ call[o] = "new"
        BY <1>2 DEF OpenStream
    <2>3. \A d : IsRequest(m, d) => d = o
        BY DEF IsRequest
    <2>4. ASSUME NEW q \in Peers PROVE ~Asked(wire[q], o) /\ ~Asked(events[q], o)
        <3>1. ASSUME NEW x \in Message, In(x, wire[q]) \/ In(x, events[q]), IsRequest(x, o)
              PROVE  FALSE
            BY <1>0, <2>2, <3>1 DEF MessagesOK, Truthful, IsRequest
        <3> QED
            BY <1>0, <3>1, UnderWayTyped DEF Asked, In
    <2> HIDE DEF m, Message
    <2> QED
        BY <1>1, <2>1, <2>2, <2>3, <2>4
<1>3. ASSUME NEW o \in Opens, NEW i \in 0..MaxStreamId, events' = events,
             Write(Acceptor(o), [kind |-> "response", open |-> o, id |-> i])
      PROVE  RequestsOnce'
    <2> DEFINE m == [kind |-> "response", open |-> o, id |-> i]
    <2>1. Acceptor(o) \in Peers /\ m \in Message /\ \A d : ~IsRequest(m, d)
        BY <1>0, TwoPeers, MessagesTyped DEF Peers, IsRequest
    <2> HIDE DEF m, Message
    <2>2. Write(Acceptor(o), m)
        BY <1>3 DEF m
    <2> QED
        BY <1>1, <1>3, <2>1, <2>2
<1>4. ASSUME NEW o \in Opens, HandlerReturns(o) PROVE RequestsOnce'
    <2>1. streamId[Acceptor(o)][o] \in 0..MaxStreamId
        BY <1>0, TwoPeers, SMTT(30) DEF TypeOK, Peers
    <2> QED
        BY <1>3, <1>4, <2>1 DEF HandlerReturns
<1>5. ASSUME NEW o \in Opens, HandlerFails(o) PROVE RequestsOnce'
    <2>1. 0 \in 0..MaxStreamId
        BY StreamsAssumption
    <2> QED
        BY <1>3, <1>5, <2>1 DEF HandlerFails
<1>6. ASSUME NEW p \in Peers, NEW o \in Opens, Send(p, o) PROVE RequestsOnce'
    <2> DEFINE m == [kind |-> "data", id |-> streamId[p][o],
                     chunk |-> [open |-> o, n |-> sent[p][o] + 1]]
    <2>1. streamId[p][o] \in Ids /\ sent[p][o] + 1 \in 1..MaxChunks
        BY <1>0, <1>6, SendInBounds
    <2>2. m \in Message /\ \A d : ~IsRequest(m, d)
        BY <2>1, MessagesTyped DEF IsRequest
    <2> HIDE DEF m, Message
    <2>3. Write(p, m) /\ events' = events
        BY <1>6 DEF Send, m
    <2> QED
        BY <1>1, <2>2, <2>3
<1>7. ASSUME NEW p \in Peers, Receive(p) PROVE RequestsOnce'
    <2>1. ASSUME NEW q \in Peers, NEW o \in Opens
          PROVE  /\ Once(wire'[q], o) /\ Once(events'[q], o)
                 /\ ~(Asked(wire'[q], o) /\ Asked(events'[q], o))
        <3>1. /\ wire[q] \in Seq(Message) /\ events[q] \in Seq(Message)
              /\ Once(wire[q], o) /\ Once(events[q], o)
              /\ ~(Asked(wire[q], o) /\ Asked(events[q], o))
            BY <1>0, UnderWayTyped DEF RequestsOnce
        <3> HIDE DEF Message
        <3>2. CASE q # p
            BY <1>0, <1>7, <3>1, <3>2, Received
        <3>3. CASE q = p
            <4>1. /\ wire[q] # <<>> /\ wire'[q] = Tail(wire[q]) /\ Head(wire[q]) \in Message
                  /\ \/ events'[q] = events[q]
                     \/ events'[q] = Append(events[q], Head(wire[q]))
                BY <1>0, <1>7, <3>3, Received
            <4>2. /\ Asked(wire'[q], o) \/ IsRequest(Head(wire[q]), o) => Asked(wire[q], o)
                  /\ Once(wire'[q], o) /\ ~(IsRequest(Head(wire[q]), o) /\ Asked(wire'[q], o))
                BY <3>1, <4>1, OnceTaken
            <4>3. CASE events'[q] = events[q]
                BY <3>1, <4>2, <4>3
            <4>4. CASE events'[q] = Append(events[q], Head(wire[q]))
                <5>1. /\ Asked(events'[q], o) <=> Asked(events[q], o) \/ IsRequest(Head(wire[q]), o)
                      /\ Once(events[q], o) /\ ~(IsRequest(Head(wire[q]), o) /\ Asked(events[q], o))
                            => Once(events'[q], o)
                    BY <3>1, <4>1, <4>4, OnceAppended
                <5> QED BY <3>1, <4>2, <5>1
            <4> QED BY <4>1, <4>3, <4>4
        <3> QED BY <3>2, <3>3
    <2> QED
        BY <2>1 DEF RequestsOnce
<1>8. ASSUME NEW p \in Peers, Consume(p) PROVE RequestsOnce'
    <2>1. ASSUME NEW q \in Peers, NEW o \in Opens
          PROVE  /\ Once(wire'[q], o) /\ Once(events'[q], o)
                 /\ ~(Asked(wire'[q], o) /\ Asked(events'[q], o))
        <3>1. /\ wire[q] \in Seq(Message) /\ events[q] \in Seq(Message)
              /\ Once(wire[q], o) /\ Once(events[q], o)
              /\ ~(Asked(wire[q], o) /\ Asked(events[q], o))
            BY <1>0, UnderWayTyped DEF RequestsOnce
        <3> HIDE DEF Message
        <3>2. CASE q # p
            BY <1>8, <3>1, <3>2, Consumed
        <3>3. CASE q = p
            <4>1. events[q] # <<>> /\ events'[q] = Tail(events[q]) /\ wire'[q] = wire[q]
                BY <1>8, <3>3, Consumed
            <4>2. (Asked(events'[q], o) => Asked(events[q], o)) /\ Once(events'[q], o)
                BY <3>1, <4>1, OnceTaken
            <4> QED BY <3>1, <4>1, <4>2
        <3> QED BY <3>2, <3>3
    <2> QED
        BY <2>1 DEF RequestsOnce
<1>9. ASSUME NEW p \in Peers, Close(p) PROVE RequestsOnce'
    <2>1. \A o : Once(<<>>, o) /\ ~Asked(<<>>, o)
        BY DEF Once, Asked
    <2>2. \A q \in Peers : \/ wire'[q] = <<>> /\ events'[q] = <<>>
                           \/ wire'[q] = wire[q] /\ events'[q] = events[q]
        BY <1>0, <1>9 DEF Close, TypeOK
    <2> QED
        BY <1>0, <2>1, <2>2 DEF RequestsOnce
<1>10. ASSUME wire' = wire, events' = events PROVE RequestsOnce'
    BY <1>0, <1>10 DEF RequestsOnce
<1> QED
    BY <1>2, <1>4, <1>5, <1>6, <1>7, <1>8, <1>9, <1>10
       DEF Next, vars, OpenTimeout, OpenResumes, HandlerStarts, CloseStream

-----------------------------------------------------------------------------
(* Streams and their names                                                 *)

\* What a registry holds is an open Stream that has an id.
LEMMA Registered ==
    ASSUME StreamsInv, NEW p \in Peers, NEW i \in Ids, NEW o \in Opens, registry[p][i] = o
    PROVE  streamId[p][o] = i /\ streamId[p][o] # 0 /\ ~isClosed[p][o]
<1>1. registry[p][i] # NoOpen
    BY StreamsAssumption
<1> QED
    BY <1>1, IdsArePositive DEF StreamsInv, RegistryAgrees

\* Both ends of a call know it by the same id.
LEMMA SameName ==
    ASSUME StreamsInv, NEW p \in Peers, NEW o \in Opens,
           streamId[p][o] # 0, streamId[Other(p)][o] # 0
    PROVE  streamId[p][o] = streamId[Other(p)][o]
<1>1. TypeOK /\ StreamsNamed
    BY DEF StreamsInv
<1>2. streamId[opener[o]][o] # 0 /\ streamId[Acceptor(o)][o] # 0
    BY <1>1, TwoPeers
<1>3. streamId[opener[o]][o] = streamId[Acceptor(o)][o]
    BY <1>1, <1>2 DEF StreamsNamed
<1> QED
    BY <1>1, <1>3, TwoPeers

\* StreamsNamed, action by action; d is the call it is shown of, a the peer
\* that opened it and b the one that accepts it.
LEMMA NamedKept == StreamsInv /\ [Next]_vars => StreamsNamed'
<1> DEFINE Named(h, c, f, t, u) ==
              /\ h \in {"serving", "done"} <=> t # 0
              /\ c = "new" => h = "none"
              /\ c = "opened" <=> u # 0
              /\ c \in {"resuming", "opened"} => f # 0
              /\ f = 0 \/ f = t
              /\ u = 0 \/ u = f
<1> SUFFICES ASSUME StreamsInv, [Next]_vars, NEW d \in Opens
             PROVE  /\ Named(handler[d], call[d], offered[d],
                             streamId[Acceptor(d)][d], streamId[opener[d]][d])'
                    /\ \A q \in Peers : streamId'[q][d] = 0 =>
                          ~isClosed'[q][d] /\ sent'[q][d] = 0 /\ got'[q][d] = <<>>
    BY DEF StreamsNamed
<1>0. TypeOK /\ MessagesOK /\ StreamsNamed /\ RegistryAgrees /\ EndsTypeOK
    BY DEF StreamsInv, TypeOK, EndsTypeOK
<1>a. PICK a \in Peers : a = opener[d]
    BY <1>0, TwoPeers DEF Peers
<1>b. PICK b \in Peers : b = Acceptor(d)
    BY <1>0, <1>a, TwoPeers
<1>c. b = Acceptor(d)' /\ a = opener'[d] /\ a # b
    BY <1>0, <1>a, <1>b, Stable, TwoPeers DEF Acceptor
<1>d. Named(handler[d], call[d], offered[d], streamId[b][d], streamId[a][d])
    BY <1>0, <1>a, <1>b DEF StreamsNamed
<1>e. \A q \in Peers : streamId[q][d] = 0 =>
          ~isClosed[q][d] /\ sent[q][d] = 0 /\ got[q][d] = <<>>
    BY <1>0 DEF StreamsNamed
<1> DEFINE Goal == /\ Named(handler'[d], call'[d], offered'[d], streamId'[b][d], streamId'[a][d])
                   /\ \A q \in Peers : streamId'[q][d] = 0 =>
                         ~isClosed'[q][d] /\ sent'[q][d] = 0 /\ got'[q][d] = <<>>
<1>f. SUFFICES Goal
    BY <1>c
<1>1. ASSUME NEW o \in Opens, OpenStream(o) PROVE Goal
    <2>1. call'[d] = IF d = o THEN "asked" ELSE call[d]
        BY <1>0, <1>1 DEF OpenStream, TypeOK
    <2>2. d = o => call[d] = "new"
        BY <1>1 DEF OpenStream
    <2> QED
        BY <1>1, <1>d, <1>e, <2>1, <2>2 DEF OpenStream, ends
<1>2. ASSUME NEW o \in Opens, OpenTimeout(o) PROVE Goal
    <2>1. call'[d] = IF d = o THEN "failed" ELSE call[d]
        BY <1>0, <1>2 DEF OpenTimeout, TypeOK
    <2>2. d = o => call[d] = "asked"
        BY <1>2 DEF OpenTimeout
    <2> QED
        BY <1>2, <1>d, <1>e, <2>1, <2>2 DEF OpenTimeout, ends
<1>3. ASSUME NEW o \in Opens, OpenResumes(o) PROVE Goal
    <2>1. offered[o] \in Ids /\ offered[o] # 0 /\ call[o] = "resuming" /\ opener[o] \in Peers
        BY <1>0, <1>3, IdsArePositive, TwoPeers DEF OpenResumes, StreamsNamed, TypeOK, Peers
    <2>2. CASE registry[opener[o]][offered[o]] = NoOpen
        <3>1. \A q \in Peers :
                 streamId'[q][d] = IF q = opener[o] /\ d = o THEN offered[o] ELSE streamId[q][d]
            BY <1>0, <1>3, <2>1, <2>2, Adopted DEF OpenResumes
        <3>2. call'[d] = IF d = o THEN "opened" ELSE call[d]
            BY <1>0, <1>3, <2>2 DEF OpenResumes, TypeOK
        <3>3. CASE d # o
            <4>1. \A q \in Peers : streamId'[q][d] = streamId[q][d]
                BY <3>1, <3>3
            <4> QED
                BY <1>3, <1>d, <1>e, <3>2, <3>3, <4>1 DEF OpenResumes
        <3>4. CASE d = o
            <4>1. /\ \A q \in Peers : q # a => streamId'[q][d] = streamId[q][d]
                  /\ streamId'[a][d] = offered[d] /\ offered[d] # 0 /\ call[d] = "resuming"
                BY <1>a, <2>1, <3>1, <3>4
            <4> QED
                BY <1>3, <1>c, <1>d, <1>e, <3>2, <3>4, <4>1 DEF OpenResumes
        <3> QED BY <3>3, <3>4
    <2>3. CASE registry[opener[o]][offered[o]] # NoOpen
        <3>1. call'[d] = (IF d = o THEN "failed" ELSE call[d]) /\ streamId' = streamId
            BY <1>0, <1>3, <2>3 DEF OpenResumes, TypeOK
        <3> QED
            BY <1>3, <1>d, <1>e, <2>1, <3>1 DEF OpenResumes
    <2> QED BY <2>2, <2>3
<1>4. ASSUME NEW o \in Opens, HandlerStarts(o) PROVE Goal
    <2> DEFINE i == Allocated(Acceptor(o))
    <2>1. Acceptor(o) \in Peers /\ i \in Ids /\ i # 0
        BY <1>0, <1>4, <1>a, TwoPeers, AllocatedFree, IdsArePositive DEF HandlerStarts
    <2>2. \A q \in Peers :
              streamId'[q][d] = IF q = Acceptor(o) /\ d = o THEN i ELSE streamId[q][d]
        BY <1>0, <1>4, <2>1, Adopted DEF HandlerStarts
    <2>3. handler'[d] = (IF d = o THEN "serving" ELSE handler[d]) /\ handler[o] = "dispatched"
        BY <1>0, <1>4 DEF HandlerStarts, TypeOK
    <2> HIDE DEF i
    <2>4. CASE d # o
        <3>1. \A q \in Peers : streamId'[q][d] = streamId[q][d]
            BY <2>2, <2>4
        <3> QED
            BY <1>4, <1>d, <1>e, <2>3, <2>4, <3>1 DEF HandlerStarts
    <2>5. CASE d = o
        <3>1. /\ \A q \in Peers : q # b => streamId'[q][d] = streamId[q][d]
              /\ streamId'[b][d] # 0
            BY <1>b, <2>1, <2>2, <2>5
        <3> QED
            BY <1>4, <1>c, <1>d, <1>e, <2>3, <2>5, <3>1 DEF HandlerStarts
    <2> QED BY <2>4, <2>5
<1>5. ASSUME NEW o \in Opens, HandlerReturns(o) PROVE Goal
    <2>1. handler'[d] = (IF d = o THEN "done" ELSE handler[d]) /\ handler[o] = "serving"
        BY <1>0, <1>5 DEF HandlerReturns, TypeOK
    <2> QED
        BY <1>5, <1>d, <1>e, <2>1 DEF HandlerReturns, ends
<1>6. ASSUME NEW p \in Peers, NEW i \in Ids, Release(p, i)
      PROVE  \A q \in Peers : streamId[q][d] = 0 => ~isClosed'[q][d]
    <2>1. \A q \in Peers : isClosed'[q][d] = (isClosed[q][d] \/ (q = p /\ registry[p][i] = d))
        BY <1>0, <1>6, Released
    <2>2. registry[p][i] = d => streamId[p][d] # 0
        BY Registered
    <2> QED
        BY <1>e, <2>1, <2>2
<1>7. ASSUME NEW o \in Opens, HandlerFails(o) PROVE Goal
    <2>1. handler'[d] = (IF d = o THEN "done" ELSE handler[d]) /\ handler[o] = "serving"
        BY <1>0, <1>7 DEF HandlerFails, TypeOK
    <2>2. Acceptor(o) \in Peers /\ streamId[Acceptor(o)][o] \in Ids
        <3>1. Acceptor(o) \in Peers /\ streamId[Acceptor(o)][o] # 0
            BY <1>0, <1>a, <2>1, TwoPeers DEF StreamsNamed
        <3> QED
            BY <1>0, <3>1, IdsOfStreams
    <2>3. \A q \in Peers : streamId[q][d] = 0 => ~isClosed'[q][d]
        BY <1>6, <1>7, <2>2 DEF HandlerFails
    <2> QED
        BY <1>7, <1>d, <1>e, <2>1, <2>3 DEF HandlerFails
<1>8. ASSUME NEW p \in Peers, NEW o \in Opens, CloseStream(p, o) PROVE Goal
    <2>1. streamId[p][o] \in Ids
        BY <1>0, <1>8, IdsOfStreams DEF CloseStream
    <2>2. \A q \in Peers : streamId[q][d] = 0 => ~isClosed'[q][d]
        BY <1>6, <1>8, <2>1 DEF CloseStream
    <2> QED
        BY <1>8, <1>d, <1>e, <2>2 DEF CloseStream
<1>9. ASSUME NEW p \in Peers, Close(p) PROVE Goal
    <2>1. \A q \in Peers : streamId[q][d] = 0 => ~isClosed'[q][d]
        <3>1. \A q \in Peers : q # p => isClosed'[q][d] = isClosed[q][d]
            BY <1>0, <1>9 DEF Close, EndsTypeOK
        <3>2. isClosed'[p][d] => isClosed[p][d] \/ \E i \in Ids : registry[p][i] = d
            BY <1>0, <1>9 DEF Close, EndsTypeOK
        <3>3. (\E i \in Ids : registry[p][i] = d) => streamId[p][d] # 0
            BY Registered
        <3> QED
            BY <1>e, <3>1, <3>2, <3>3
    <2>2. call'[d] = call[d] \/ (call[d] = "asked" /\ call'[d] = "failed")
        BY <1>0, <1>9 DEF Close
    <2> QED
        BY <1>9, <1>d, <1>e, <2>1, <2>2 DEF Close
<1>10. ASSUME NEW p \in Peers, NEW o \in Opens, Send(p, o) PROVE Goal
    <2>1. streamId[p][o] # 0
        BY <1>10 DEF Send
    <2>2. \A q \in Peers : streamId[q][d] = 0 => sent'[q][d] = sent[q][d]
        BY <1>0, <1>10, <2>1 DEF Send, TypeOK
    <2> QED
        BY <1>10, <1>d, <1>e, <2>2 DEF Send, ends
<1>11. ASSUME NEW p \in Peers, Receive(p) PROVE Goal
    <2> DEFINE m == Head(wire[p])
    <2>1. m \in Message /\ Truthful(p, m)
        BY <1>0, <1>11, Received, UnderWayTyped, InTaken DEF MessagesOK
    <2>2. CASE call' = call /\ offered' = offered
        BY <1>11, <1>d, <1>e, <2>2 DEF Receive, ends
    <2>3. CASE /\ m.kind = "response" /\ call[m.open] = "asked"
               /\ call' = [call EXCEPT ![m.open] = IF m.id = 0 THEN "failed" ELSE "resuming"]
               /\ offered' = [offered EXCEPT ![m.open] = m.id]
        <3>1. m.open \in Opens /\ m.id \in {0, streamId[Acceptor(m.open)][m.open]}
            BY <2>1, <2>3, MessageFields DEF Truthful
        <3> HIDE DEF m
        <3>2. /\ call'[d] = IF d = m.open THEN IF m.id = 0 THEN "failed" ELSE "resuming" ELSE call[d]
              /\ offered'[d] = IF d = m.open THEN m.id ELSE offered[d]
            BY <1>0, <2>3, <3>1 DEF TypeOK
        <3>3. d = m.open => call[d] = "asked" /\ m.id \in {0, streamId[b][d]}
            BY <1>b, <2>3, <3>1
        <3>4. \A q \in Peers : streamId'[q][d] = 0 =>
                 ~isClosed'[q][d] /\ sent'[q][d] = 0 /\ got'[q][d] = <<>>
            BY <1>11, <1>e DEF Receive, ends
        <3>5. handler' = handler /\ streamId' = streamId
            BY <1>11 DEF Receive, ends
        <3>6. CASE d = m.open
            BY <1>d, <3>2, <3>3, <3>4, <3>5, <3>6
        <3>7. CASE d # m.open
            BY <1>d, <3>2, <3>4, <3>5, <3>7
        <3> QED
            BY <3>6, <3>7
    <2> QED
        BY <1>11, <2>2, <2>3 DEF Receive
<1>12. ASSUME NEW p \in Peers, Consume(p) PROVE Goal
    <2> DEFINE m == Head(events[p])
    <2>1. m \in Message /\ Truthful(p, m)
        BY <1>12, Consumed
    <2>2. CASE m.kind = "request" /\ handler' = [handler EXCEPT ![m.open] = "dispatched"] /\ got' = got
        <3>1. m.open \in Opens /\ handler[m.open] = "none" /\ call[m.open] # "new"
            BY <2>1, <2>2, MessageFields DEF Truthful
        <3> HIDE DEF m
        <3>2. handler'[d] = IF d = m.open THEN "dispatched" ELSE handler[d]
            BY <1>0, <2>2, <3>1 DEF TypeOK
        <3>3. /\ call' = call /\ offered' = offered /\ streamId' = streamId
              /\ isClosed' = isClosed /\ sent' = sent /\ got' = got
            BY <1>12, <2>2 DEF Consume, ends
        <3>4. CASE d = m.open
            BY <1>d, <1>e, <3>1, <3>2, <3>3, <3>4
        <3>5. CASE d # m.open
            BY <1>d, <1>e, <3>2, <3>3, <3>5
        <3> QED
            BY <3>4, <3>5
    <2>3. CASE /\ m.kind = "data" /\ handler' = handler
               /\ got' = IF registry[p][m.id] = NoOpen THEN got
                         ELSE [got EXCEPT ![p][registry[p][m.id]] = Append(@, m.chunk)]
        <3>1. m.id \in Ids
            BY <2>1, <2>3, MessageFields
        <3>2. \A q \in Peers : streamId[q][d] = 0 => got'[q][d] = got[q][d]
            <4>1. CASE registry[p][m.id] = NoOpen
                BY <2>3, <4>1
            <4>2. CASE registry[p][m.id] # NoOpen
                <5>1. PICK o \in Opens : o = registry[p][m.id]
                    BY <1>0, <3>1, <4>2 DEF EndsTypeOK
                <5>2. streamId[p][o] # 0
                    BY <3>1, <5>1, Registered
                <5>3. got' = [got EXCEPT ![p][o] = Append(@, m.chunk)]
                    BY <2>3, <4>2, <5>1
                <5> HIDE DEF m
                <5> QED
                    BY <1>0, <5>2, <5>3 DEF TypeOK
            <4> QED BY <4>1, <4>2
        <3> HIDE DEF m
        <3> QED
            BY <1>12, <1>d, <1>e, <2>3, <3>2 DEF Consume, ends
    <2> QED
        BY <1>12, <2>2, <2>3 DEF Consume
<1>13. CASE UNCHANGED vars
    BY <1>13, <1>d, <1>e DEF vars, ends
<1> HIDE DEF Goal
<1> QED
    BY <1>1, <1>2, <1>3, <1>4, <1>5, <1>7, <1>8, <1>9, <1>10, <1>11, <1>12, <1>13 DEF Next

\* A Stream that has no id is given one that is free.
LEMMA AdoptedAgrees ==
    ASSUME StreamsInv, NEW p \in Peers, NEW o \in Opens, NEW i \in Ids,
           streamId[p][o] = 0, registry[p][i] = NoOpen,
           Adopt(p, o, i), isClosed' = isClosed
    PROVE  RegistryAgrees'
<1>0. TypeOK /\ StreamsNamed /\ RegistryAgrees /\ EndsTypeOK
    BY DEF StreamsInv, TypeOK, EndsTypeOK
<1>1. /\ \A q \in Peers, j \in Ids :
            registry'[q][j] = IF q = p /\ j = i THEN o ELSE registry[q][j]
      /\ \A q \in Peers, d \in Opens :
            streamId'[q][d] = IF q = p /\ d = o THEN i ELSE streamId[q][d]
    BY <1>0, Adopted
<1>2. ~isClosed[p][o] /\ o # NoOpen
    BY <1>0, StreamsAssumption DEF StreamsNamed
<1>3. ASSUME NEW q \in Peers, NEW d \in Opens, streamId'[q][d] # 0, ~isClosed'[q][d]
      PROVE  registry'[q][streamId'[q][d]] = d
    <2>1. CASE q = p /\ d = o
        BY <1>1, <2>1
    <2>2. CASE ~(q = p /\ d = o)
        <3>1. streamId'[q][d] = streamId[q][d] /\ streamId[q][d] \in Ids
            BY <1>0, <1>1, <1>3, <2>2, IdsOfStreams
        <3>2. registry[q][streamId[q][d]] = d
            BY <1>0, <1>3, <3>1 DEF RegistryAgrees
        <3>3. d # NoOpen
            BY StreamsAssumption
        <3> QED
            BY <1>1, <3>1, <3>2, <3>3
    <2> QED BY <2>1, <2>2
<1>4. ASSUME NEW q \in Peers, NEW j \in Ids, registry'[q][j] # NoOpen
      PROVE  streamId'[q][registry'[q][j]] = j /\ ~isClosed'[q][registry'[q][j]]
    <2>1. CASE q = p /\ j = i
        BY <1>1, <1>2, <2>1
    <2>2. CASE ~(q = p /\ j = i)
        <3>1. registry'[q][j] = registry[q][j]
            BY <1>1, <2>2
        <3>2. PICK d \in Opens : d = registry[q][j]
            BY <1>0, <1>4, <3>1 DEF EndsTypeOK
        <3>3. streamId[q][d] = j /\ ~isClosed[q][d] /\ streamId[q][d] # 0
            BY <3>2, Registered
        <3> QED
            BY <1>1, <3>1, <3>2, <3>3
    <2> QED BY <2>1, <2>2
<1> QED
    BY <1>3, <1>4 DEF RegistryAgrees

\* The context of an id is closed and forgotten together.
LEMMA ReleasedAgrees ==
    ASSUME StreamsInv, NEW p \in Peers, NEW i \in Ids, Release(p, i), streamId' = streamId
    PROVE  RegistryAgrees'
<1>0. TypeOK /\ RegistryAgrees /\ EndsTypeOK
    BY DEF StreamsInv, TypeOK, EndsTypeOK
<1>1. /\ \A q \in Peers, j \in Ids :
            registry'[q][j] = IF q = p /\ j = i THEN NoOpen ELSE registry[q][j]
      /\ \A q \in Peers, d \in Opens :
            isClosed'[q][d] = (isClosed[q][d] \/ (q = p /\ registry[p][i] = d))
    BY <1>0, Released
<1>2. ASSUME NEW q \in Peers, NEW d \in Opens, streamId'[q][d] # 0, ~isClosed'[q][d]
      PROVE  registry'[q][streamId'[q][d]] = d
    <2>1. ~isClosed[q][d] /\ ~(q = p /\ registry[p][i] = d)
        BY <1>1, <1>2
    <2>2. streamId[q][d] \in Ids /\ registry[q][streamId[q][d]] = d
        BY <1>0, <1>2, <2>1, IdsOfStreams DEF RegistryAgrees
    <2> QED
        BY <1>1, <2>1, <2>2
<1>3. ASSUME NEW q \in Peers, NEW j \in Ids, registry'[q][j] # NoOpen
      PROVE  streamId'[q][registry'[q][j]] = j /\ ~isClosed'[q][registry'[q][j]]
    <2>1. registry'[q][j] = registry[q][j] /\ ~(q = p /\ j = i)
        BY <1>1, <1>3
    <2>2. PICK d \in Opens : d = registry[q][j]
        BY <1>0, <1>3, <2>1 DEF EndsTypeOK
    <2>3. streamId[q][d] = j /\ ~isClosed[q][d]
        BY <2>2, Registered
    <2>4. q = p => registry[p][i] # d
        <3> SUFFICES ASSUME q = p, registry[p][i] = d PROVE FALSE
            OBVIOUS
        <3>1. streamId[p][d] = i
            BY Registered
        <3> QED
            BY <2>1, <2>3, <3>1
    <2>5. ~isClosed'[q][d]
        BY <1>1, <2>3, <2>4
    <2> QED
        BY <2>1, <2>2, <2>3, <2>5
<1> QED
    BY <1>2, <1>3 DEF RegistryAgrees

\* RegistryAgrees, action by action.
LEMMA RegistryKept == StreamsInv /\ [Next]_vars => RegistryAgrees'
<1> SUFFICES ASSUME StreamsInv, [Next]_vars PROVE RegistryAgrees'
    OBVIOUS
<1>0. TypeOK /\ StreamsNamed /\ RegistryAgrees /\ EndsTypeOK
    BY DEF StreamsInv, TypeOK, EndsTypeOK
<1>1. ASSUME registry' = registry, streamId' = streamId, isClosed' = isClosed
      PROVE  RegistryAgrees'
    BY <1>0, <1>1 DEF RegistryAgrees
<1>2. ASSUME NEW o \in Opens, OpenResumes(o) PROVE RegistryAgrees'
    <2>1. opener[o] \in Peers /\ offered[o] \in Ids /\ streamId[opener[o]][o] = 0
        BY <1>0, <1>2, TwoPeers, IdsArePositive DEF OpenResumes, StreamsNamed, TypeOK, Peers
    <2>2. CASE registry[opener[o]][offered[o]] = NoOpen
        BY <1>2, <2>1, <2>2, AdoptedAgrees DEF OpenResumes
    <2>3. CASE registry[opener[o]][offered[o]] # NoOpen
        BY <1>1, <1>2, <2>3 DEF OpenResumes
    <2> QED BY <2>2, <2>3
<1>3. ASSUME NEW o \in Opens, HandlerStarts(o) PROVE RegistryAgrees'
    <2>1. Acceptor(o) \in Peers /\ streamId[Acceptor(o)][o] = 0
        BY <1>0, <1>3, TwoPeers DEF HandlerStarts, StreamsNamed, Peers
    <2>2. Allocated(Acceptor(o)) \in Ids /\ registry[Acceptor(o)][Allocated(Acceptor(o))] = NoOpen
        BY <1>0, <1>3, <2>1, AllocatedFree DEF HandlerStarts
    <2>3. Adopt(Acceptor(o), o, Allocated(Acceptor(o))) /\ isClosed' = isClosed
        BY <1>3 DEF HandlerStarts
    <2> QED
        BY <2>1, <2>2, <2>3, AdoptedAgrees
<1>4. ASSUME NEW o \in Opens, HandlerFails(o) PROVE RegistryAgrees'
    <2>1. Acceptor(o) \in Peers /\ streamId[Acceptor(o)][o] # 0
        BY <1>0, <1>4, TwoPeers DEF HandlerFails, StreamsNamed, Peers
    <2>2. streamId[Acceptor(o)][o] \in Ids
        BY <1>0, <2>1, IdsOfStreams
    <2> QED
        BY <1>4, <2>1, <2>2, ReleasedAgrees DEF HandlerFails
<1>5. ASSUME NEW p \in Peers, NEW o \in Opens, CloseStream(p, o) PROVE RegistryAgrees'
    <2>1. streamId[p][o] \in Ids
        BY <1>0, <1>5, IdsOfStreams DEF CloseStream
    <2> QED
        BY <1>5, <2>1, ReleasedAgrees DEF CloseStream
<1>6. ASSUME NEW p \in Peers, Close(p) PROVE RegistryAgrees'
    <2>1. /\ \A j \in Ids : registry'[p][j] = NoOpen
          /\ \A q \in Peers : q # p => registry'[q] = registry[q] /\ isClosed'[q] = isClosed[q]
          /\ \A d \in Opens : isClosed'[p][d] = (isClosed[p][d] \/ \E j \in Ids : registry[p][j] = d)
          /\ streamId' = streamId
        BY <1>0, <1>6 DEF Close, EndsTypeOK
    <2>2. ASSUME NEW d \in Opens, streamId[p][d] # 0, ~isClosed'[p][d] PROVE FALSE
        <3>1. ~isClosed[p][d] /\ \A j \in Ids : registry[p][j] # d
            BY <2>1, <2>2
        <3>2. streamId[p][d] \in Ids /\ registry[p][streamId[p][d]] = d
            BY <1>0, <2>2, <3>1, IdsOfStreams DEF RegistryAgrees
        <3> QED
            BY <3>1, <3>2
    <2>3. ASSUME NEW q \in Peers, q # p
          PROVE  /\ \A d \in Opens : streamId'[q][d] # 0 /\ ~isClosed'[q][d] =>
                       registry'[q][streamId'[q][d]] = d
                 /\ \A j \in Ids : registry'[q][j] # NoOpen =>
                       streamId'[q][registry'[q][j]] = j /\ ~isClosed'[q][registry'[q][j]]
        BY <1>0, <2>1, <2>3 DEF RegistryAgrees
    <2> QED
        BY <2>1, <2>2, <2>3 DEF RegistryAgrees
<1> QED
    BY <1>1, <1>2, <1>3, <1>4, <1>5, <1>6
       DEF Next, vars, ends, OpenStream, OpenTimeout, HandlerReturns, Receive, Consume, Send

\* NamesUnique: an id in use makes ambiguous true, and openStream adopts the
\* id its own acceptor gave it.
LEMMA UniqueKept == StreamsInv /\ [Next]_vars => NamesUnique'
<1> SUFFICES ASSUME StreamsInv, [Next]_vars PROVE NamesUnique'
    OBVIOUS
<1>0. TypeOK /\ StreamsNamed /\ NamesUnique /\ EndsTypeOK
    BY DEF StreamsInv, TypeOK, EndsTypeOK
<1>1. ASSUME streamId' = streamId, ambiguous' = ambiguous PROVE NamesUnique'
    BY <1>0, <1>1 DEF NamesUnique
<1>2. ASSUME NEW p \in Peers, NEW o \in Opens, NEW i \in Ids,
             \A q \in Peers, d \in Opens :
                streamId'[q][d] = IF q = p /\ d = o THEN i ELSE streamId[q][d],
             ~ambiguous' => ~ambiguous,
             ~ambiguous' => \A q \in Peers, d \in Opens : streamId[q][d] = i => d = o
      PROVE  NamesUnique'
    <2> SUFFICES ASSUME ~ambiguous', NEW q \in Peers, NEW r \in Peers, NEW d \in Opens, NEW e \in Opens,
                        streamId'[q][d] # 0, streamId'[q][d] = streamId'[r][e]
                 PROVE  d = e
        BY DEF NamesUnique
    <2>1. ~ambiguous /\ \A s \in Peers, c \in Opens : streamId[s][c] = i => c = o
        BY <1>2
    <2>2. CASE q = p /\ d = o
        BY <1>2, <2>1, <2>2
    <2>3. CASE r = p /\ e = o
        BY <1>2, <2>1, <2>3
    <2>4. CASE ~(q = p /\ d = o) /\ ~(r = p /\ e = o)
        <3>1. streamId'[q][d] = streamId[q][d] /\ streamId'[r][e] = streamId[r][e]
            BY <1>2, <2>4
        <3>2. ~ambiguous /\ streamId[q][d] # 0 /\ streamId[q][d] = streamId[r][e]
            BY <2>1, <3>1
        <3> QED
            BY <1>0, <3>2 DEF NamesUnique
    <2> QED BY <2>2, <2>3, <2>4
<1>3. ASSUME NEW o \in Opens, OpenResumes(o) PROVE NamesUnique'
    <2>1. /\ opener[o] \in Peers /\ Acceptor(o) \in Peers /\ offered[o] \in Ids /\ offered[o] # 0
          /\ offered[o] = streamId[Acceptor(o)][o] /\ ambiguous' = ambiguous
        BY <1>0, <1>3, TwoPeers, IdsArePositive DEF OpenResumes, StreamsNamed, TypeOK, Peers
    <2>2. CASE registry[opener[o]][offered[o]] = NoOpen
        <3>1. \A q \in Peers, d \in Opens :
                 streamId'[q][d] = IF q = opener[o] /\ d = o THEN offered[o] ELSE streamId[q][d]
            BY <1>0, <1>3, <2>1, <2>2, Adopted DEF OpenResumes
        <3>2. ~ambiguous => \A q \in Peers, d \in Opens : streamId[q][d] = offered[o] => d = o
            BY <1>0, <2>1 DEF NamesUnique
        <3> QED
            BY <1>2, <2>1, <3>1, <3>2
    <2>3. CASE registry[opener[o]][offered[o]] # NoOpen
        BY <1>1, <1>3, <2>3 DEF OpenResumes
    <2> QED BY <2>2, <2>3
<1>4. ASSUME NEW o \in Opens, HandlerStarts(o) PROVE NamesUnique'
    <2> DEFINE i == Allocated(Acceptor(o))
    <2>1. Acceptor(o) \in Peers
        BY <1>0, TwoPeers DEF Peers
    <2>2. i \in Ids
        BY <1>0, <1>4, <2>1, AllocatedFree DEF HandlerStarts
    <2>3. \A q \in Peers, d \in Opens :
              streamId'[q][d] = IF q = Acceptor(o) /\ d = o THEN i ELSE streamId[q][d]
        BY <1>0, <1>4, <2>1, <2>2, Adopted DEF HandlerStarts
    <2>4. ambiguous' = (ambiguous \/ \E q \in Peers, d \in Opens : streamId[q][d] = i)
        BY <1>4 DEF HandlerStarts
    <2> HIDE DEF i
    <2> QED
        BY <1>2, <2>1, <2>2, <2>3, <2>4
<1> QED
    BY <1>1, <1>3, <1>4
       DEF Next, vars, ends, OpenStream, OpenTimeout, HandlerReturns, HandlerFails, Receive,
           Consume, Close, Send, CloseStream

-----------------------------------------------------------------------------
(* Chunks                                                                  *)

\* What is closed stays closed, and an ambiguous id is not forgotten.
LEMMA Monotone ==
    ASSUME StreamsInv, [Next]_vars
    PROVE  /\ \A p \in Peers : closed[p] => closed'[p]
           /\ \A p \in Peers, o \in Opens : isClosed[p][o] => isClosed'[p][o]
           /\ ambiguous => ambiguous'
<1>0. TypeOK /\ EndsTypeOK
    BY DEF StreamsInv, TypeOK, EndsTypeOK
<1>1. \A p \in Peers : closed[p] => closed'[p]
    <2>1. ASSUME NEW q \in Peers, Close(q) PROVE \A p \in Peers : closed[p] => closed'[p]
        BY <1>0, <2>1 DEF Close, TypeOK
    <2>2. ASSUME closed' = closed PROVE \A p \in Peers : closed[p] => closed'[p]
        BY <2>2
    <2> QED
        BY <2>1, <2>2 DEF Next, vars, OpenStream, OpenTimeout, OpenResumes, HandlerStarts,
               HandlerReturns, HandlerFails, Receive, Consume, Send, CloseStream
<1>2. ambiguous => ambiguous'
    BY DEF Next, vars, OpenStream, OpenTimeout, OpenResumes, HandlerStarts,
           HandlerReturns, HandlerFails, Receive, Consume, Close, Send, CloseStream
<1>3. \A p \in Peers, o \in Opens : isClosed[p][o] => isClosed'[p][o]
    <2>1. ASSUME NEW q \in Peers, NEW i \in Ids, Release(q, i)
          PROVE  \A p \in Peers, o \in Opens : isClosed[p][o] => isClosed'[p][o]
        BY <1>0, <2>1, Released
    <2>2. ASSUME NEW d \in Opens, HandlerFails(d)
          PROVE  \A p \in Peers, o \in Opens : isClosed[p][o] => isClosed'[p][o]
        <3>1. Acceptor(d) \in Peers /\ streamId[Acceptor(d)][d] # 0
            BY <1>0, <2>2, TwoPeers DEF HandlerFails, StreamsInv, StreamsNamed, Peers
        <3>2. streamId[Acceptor(d)][d] \in Ids
            BY <1>0, <3>1, IdsOfStreams
        <3> QED
            BY <2>1, <2>2, <3>1, <3>2 DEF HandlerFails
    <2>3. ASSUME NEW q \in Peers, NEW d \in Opens, CloseStream(q, d)
          PROVE  \A p \in Peers, o \in Opens : isClosed[p][o] => isClosed'[p][o]
        <3>1. streamId[q][d] \in Ids
            BY <1>0, <2>3, IdsOfStreams DEF CloseStream
        <3> QED
            BY <2>1, <2>3, <3>1 DEF CloseStream
    <2>4. ASSUME NEW q \in Peers, Close(q)
          PROVE  \A p \in Peers, o \in Opens : isClosed[p][o] => isClosed'[p][o]
        BY <1>0, <2>4 DEF Close, EndsTypeOK
    <2>5. ASSUME isClosed' = isClosed
          PROVE  \A p \in Peers, o \in Opens : isClosed[p][o] => isClosed'[p][o]
        BY <2>5
    <2> QED
        BY <2>2, <2>3, <2>4, <2>5
           DEF Next, vars, ends, OpenStream, OpenTimeout, OpenResumes, HandlerStarts,
               HandlerReturns, Receive, Consume, Send
<1> QED
    BY <1>1, <1>2, <1>3

\* A context that is given nothing has been given what it had; a Stream that
\* is new has been sent nothing its peer could have sent.
LEMMA GivenStays ==
    ASSUME StreamsInv, [Next]_vars, NEW p \in Peers, NEW o \in Opens, NEW lo \in Nat,
           GivenUpTo(p, o, lo), lo <= sent[Other(p)][o], got'[p][o] = got[p][o]
    PROVE  GivenUpTo(p, o, lo)'
<1>0. TypeOK /\ StreamsNamed
    BY DEF StreamsInv
<1>1. Acceptor(o)' = Acceptor(o) /\ Acceptor(o) \in Peers /\ Other(p) \in Peers
    BY <1>0, Stable, TwoPeers DEF Acceptor
<1>2. SUFFICES ASSUME ~ambiguous', streamId'[p][o] # 0, ~isClosed'[p][o]
               PROVE  IF got[p][o] # <<>> THEN got[p][o][Len(got[p][o])].n = lo
                                          ELSE p = Acceptor(o) => lo = 0
    BY <1>1 DEF GivenUpTo
<1>3. ~ambiguous /\ ~isClosed[p][o]
    BY <1>2, Monotone
<1>4. CASE streamId[p][o] # 0
    BY <1>3, <1>4 DEF GivenUpTo
<1>5. CASE streamId[p][o] = 0
    <2>1. got[p][o] = <<>>
        BY <1>0, <1>5 DEF StreamsNamed
    <2>2. ASSUME p = Acceptor(o) PROVE lo = 0
        <3>1. Other(p) = opener[o]
            BY <1>0, <2>2, TwoPeers
        <3>2. streamId[Other(p)][o] = 0
            BY <1>0, <1>5, <2>2, <3>1 DEF StreamsNamed
        <3>3. sent[Other(p)][o] = 0
            BY <1>0, <1>1, <3>2 DEF StreamsNamed
        <3> QED BY <3>3
    <2> QED BY <2>1, <2>2
<1> QED
    BY <1>4, <1>5

\* The intervals of chunks as writing, moving and keeping messages leaves them.
LEMMA UnderWayStays ==
    ASSUME StreamsInv, [Next]_vars, NEW p \in Peers, NEW o \in Opens,
           NEW lo \in Nat, NEW mid \in Nat, NEW hi \in Nat, UnderWay(p, o, lo, mid, hi),
           events'[p] = events[p], sent'[Other(p)][o] = sent[Other(p)][o],
           \/ wire'[p] = wire[p]
           \/ \E m \in Message : wire'[p] = Append(wire[p], m) /\ ~IsChunk(m, o)
    PROVE  UnderWay(p, o, lo, mid, hi)'
<1>1. TypeOK /\ Other(p) \in Peers /\ wire[p] \in Seq(Message)
    BY TwoPeers, UnderWayTyped DEF StreamsInv
<1>2. Carries(wire'[p], o, mid, hi)
    BY <1>1, CarriesAppend DEF UnderWay
<1>3. ~closed'[p] /\ ~closed'[Other(p)] => ~closed[p] /\ ~closed[Other(p)]
    BY <1>1, Monotone
<1> QED
    BY <1>2, <1>3 DEF UnderWay

\* The chunks sent are counted.
LEMMA SentIsNat ==
    ASSUME TypeOK, NEW p \in Peers, NEW o \in Opens
    PROVE  sent[p][o] \in Nat
<1>1. sent[p][o] \in 0..MaxChunks
    BY DEF TypeOK
<1> QED
    BY <1>1, StreamsAssumption

\* Who is given the chunk that is consumed: while no id is ambiguous, its own
\* Stream, if it is open.
LEMMA OwnChunkGiven ==
    ASSUME StreamsInv, NEW p \in Peers, Consume(p), NEW o \in Opens
    PROVE  LET m == Head(events[p]) IN
           /\ \A q \in Peers : q # p => got'[q] = got[q]
           /\ m.kind # "data" => got'[p] = got[p]
           /\ ~ambiguous /\ ~IsChunk(m, o) => got'[p][o] = got[p][o]
           /\ ~ambiguous /\ IsChunk(m, o) =>
                 IF streamId[p][o] # 0 /\ ~isClosed[p][o]
                 THEN got'[p][o] = Append(got[p][o], m.chunk)
                 ELSE got'[p][o] = got[p][o]
<1> DEFINE m == Head(events[p])
           d == registry[p][m.id]
<1>0. TypeOK /\ NamesUnique /\ RegistryAgrees /\ EndsTypeOK
      /\ got \in [Peers -> [Opens -> Seq(Chunk)]]
    BY DEF StreamsInv, TypeOK, EndsTypeOK
<1>1. m \in Message /\ Truthful(p, m)
    BY Consumed
<1>2. \/ m.kind # "data" /\ got' = got
      \/ m.kind = "data" /\ got' = IF d = NoOpen THEN got
                                   ELSE [got EXCEPT ![p][d] = Append(@, m.chunk)]
    BY DEF Consume
<1>3. CASE m.kind # "data"
    BY <1>2, <1>3 DEF IsChunk
<1>4. CASE m.kind = "data"
    <2>1. /\ m.id \in Ids /\ m.chunk.open \in Opens
          /\ m.id = streamId[Other(p)][m.chunk.open] /\ Other(p) \in Peers
        BY <1>0, <1>1, <1>4, MessageFields, TwoPeers DEF Truthful
    <2>2. PICK i \in Ids : i = m.id
        BY <2>1
    <2>3. PICK c \in Opens : c = m.chunk.open
        BY <2>1
    <2>4. streamId[Other(p)][c] = i /\ i # 0 /\ d = registry[p][i]
        BY <2>1, <2>2, <2>3, IdsArePositive
    <2>5. \A e \in Opens : IsChunk(m, e) <=> e = c
        BY <1>4, <2>3 DEF IsChunk
    <2>6. CASE d = NoOpen
        <3>1. got' = got
            BY <1>2, <1>4, <2>6
        <3>2. ASSUME streamId[p][c] # 0, ~isClosed[p][c] PROVE FALSE
            <4>1. streamId[p][c] = i
                BY <2>4, <3>2, SameName
            <4>2. registry[p][i] = c
                BY <1>0, <3>2, <4>1 DEF RegistryAgrees
            <4> QED
                BY <2>4, <2>6, <4>2, StreamsAssumption
        <3> QED
            BY <1>4, <2>5, <3>1, <3>2
    <2>7. CASE d # NoOpen
        <3>1. PICK e \in Opens : e = d
            BY <1>0, <2>4, <2>7 DEF EndsTypeOK
        <3>2. streamId[p][e] = i /\ ~isClosed[p][e] /\ streamId[p][e] # 0
            BY <2>4, <3>1, Registered
        <3>3. ~ambiguous => e = c
            BY <1>0, <2>1, <2>4, <3>2 DEF NamesUnique
        <3>4. got' = [got EXCEPT ![p][e] = Append(@, m.chunk)]
            BY <1>2, <1>4, <2>7, <3>1
        <3> HIDE DEF m, d
        <3>5. /\ \A q \in Peers : q # p => got'[q] = got[q]
              /\ got'[p][e] = Append(got[p][e], m.chunk)
              /\ \A f \in Opens : f # e => got'[p][f] = got[p][f]
            BY <1>0, <3>4
        <3>6. /\ \A q \in Peers : q # p => got'[q] = got[q]
              /\ m.kind # "data" => got'[p] = got[p]
              /\ ~ambiguous /\ ~IsChunk(m, o) => got'[p][o] = got[p][o]
              /\ ~ambiguous /\ IsChunk(m, o) =>
                    IF streamId[p][o] # 0 /\ ~isClosed[p][o]
                    THEN got'[p][o] = Append(got[p][o], m.chunk)
                    ELSE got'[p][o] = got[p][o]
            BY <1>4, <2>5, <3>2, <3>3, <3>5
        <3> QED
            BY <3>6 DEF m
    <2> QED BY <2>6, <2>7
<1> QED
    BY <1>3, <1>4

\* ChunksInStep, action by action: a chunk moves on by one place at a time.
LEMMA StepKept == StreamsInv /\ [Next]_vars => ChunksInStep'
<1> SUFFICES ASSUME StreamsInv, [Next]_vars, NEW q \in Peers, NEW d \in Opens
             PROVE  \E lo, mid, hi \in Nat :
                       UnderWay(q, d, lo, mid, hi)' /\ GivenUpTo(q, d, lo)'
    BY DEF ChunksInStep
<1>0. /\ TypeOK /\ StreamsNamed /\ RegistryAgrees /\ ChunksInStep /\ EndsTypeOK
      /\ Other(q) \in Peers /\ q # Other(q) /\ Other(Other(q)) = q
      /\ sent[Other(q)][d] \in Nat
      /\ wire[q] \in Seq(Message) /\ events[q] \in Seq(Message)
    BY TwoPeers, SentIsNat, UnderWayTyped DEF StreamsInv, TypeOK, EndsTypeOK
<1>a. PICK lo \in Nat, mid \in Nat, hi \in Nat : UnderWay(q, d, lo, mid, hi) /\ GivenUpTo(q, d, lo)
    BY <1>0 DEF ChunksInStep
<1>b. lo <= mid /\ mid <= hi /\ hi <= sent[Other(q)][d] /\ lo <= sent[Other(q)][d]
    BY <1>0, <1>a DEF UnderWay
<1> DEFINE Goal == \E x, y, z \in Nat : UnderWay(q, d, x, y, z)' /\ GivenUpTo(q, d, x)'
<1>c. SUFFICES Goal
    OBVIOUS
<1>d. ASSUME got'[q][d] = got[q][d], NEW y \in Nat, NEW z \in Nat, UnderWay(q, d, lo, y, z)'
      PROVE  Goal
    BY <1>a, <1>b, <1>d, GivenStays
<1>e. ASSUME got' = got, events' = events, sent' = sent,
             \/ wire'[q] = wire[q]
             \/ \E m \in Message : wire'[q] = Append(wire[q], m) /\ ~IsChunk(m, d)
      PROVE  Goal
    BY <1>a, <1>d, <1>e, UnderWayStays
<1> HIDE DEF Goal
<1>1. ASSUME NEW p \in Peers, NEW m \in Message, Write(p, m), m.kind # "data",
             got' = got, events' = events, sent' = sent
      PROVE  Goal
    <2>1. wire'[q] = wire[q] \/ wire'[q] = Append(wire[q], m)
        BY <1>0, <1>1, Written
    <2>2. ~IsChunk(m, d)
        BY <1>1 DEF IsChunk
    <2> QED
        BY <1>1, <1>e, <2>1, <2>2
<1>2. ASSUME NEW o \in Opens, OpenStream(o) PROVE Goal
    <2> DEFINE m == [kind |-> "request", open |-> o]
    <2>1. opener[o] \in Peers /\ m \in Message /\ m.kind # "data"
        BY <1>0, TwoPeers, MessagesTyped DEF Peers
    <2>2. Write(opener[o], m) /\ got' = got /\ events' = events /\ sent' = sent
        BY <1>2 DEF OpenStream
    <2> HIDE DEF m
    <2> QED
        BY <1>1, <2>1, <2>2
<1>3. ASSUME NEW o \in Opens, NEW i \in 0..MaxStreamId, got' = got, events' = events, sent' = sent,
             Write(Acceptor(o), [kind |-> "response", open |-> o, id |-> i])
      PROVE  Goal
    <2> DEFINE m == [kind |-> "response", open |-> o, id |-> i]
    <2>1. Acceptor(o) \in Peers /\ m \in Message /\ m.kind # "data"
        BY <1>0, TwoPeers, MessagesTyped DEF Peers
    <2>2. Write(Acceptor(o), m)
        BY <1>3
    <2> HIDE DEF m
    <2> QED
        BY <1>1, <1>3, <2>1, <2>2
<1>4. ASSUME NEW o \in Opens, HandlerReturns(o) PROVE Goal
    <2>1. Acceptor(o) \in Peers
        BY <1>0, TwoPeers DEF Peers
    <2>2. streamId[Acceptor(o)][o] \in 0..MaxStreamId
        BY <1>0, <2>1, IdsOfStreams
    <2> QED
        BY <1>3, <1>4, <2>2 DEF HandlerReturns
<1>5. ASSUME NEW o \in Opens, HandlerFails(o) PROVE Goal
    <2>1. 0 \in 0..MaxStreamId
        BY StreamsAssumption
    <2> QED
        BY <1>3, <1>5, <2>1 DEF HandlerFails
<1>6. ASSUME NEW p \in Peers, NEW o \in Opens, Send(p, o) PROVE Goal
    <2> DEFINE m == [kind |-> "data", id |-> streamId[p][o],
                     chunk |-> [open |-> o, n |-> sent[p][o] + 1]]
    <2>1. /\ streamId[p][o] \in Ids /\ sent[p][o] + 1 \in 1..MaxChunks
          /\ \A r \in Peers, e \in Opens :
                sent'[r][e] = IF r = p /\ e = o THEN sent[p][o] + 1 ELSE sent[r][e]
        <3>1. /\ streamId[p][o] \in Ids /\ sent[p][o] + 1 \in 1..MaxChunks
              /\ sent' = [sent EXCEPT ![p][o] = sent[p][o] + 1]
            BY <1>0, <1>6, SendInBounds
        <3>2. sent \in [Peers -> [Opens -> 0..MaxChunks]]
            BY <1>0 DEF TypeOK
        <3> QED
            BY <3>1, <3>2
    <2>2. m \in Message /\ m.kind = "data" /\ m.chunk.open = o /\ m.chunk.n = sent[p][o] + 1
        BY <2>1, MessagesTyped
    <2>3. Write(p, m) /\ got' = got /\ events' = events /\ closed' = closed
        BY <1>6 DEF Send
    <2> HIDE DEF m, Message
    <2>4. CASE p = Other(q) /\ d = o
        <3>1. IsChunk(m, d) /\ m.chunk.n = sent[Other(q)][d] + 1
            BY <2>2, <2>4 DEF IsChunk
        <3>2. sent'[Other(q)][d] = sent[Other(q)][d] + 1
            BY <1>0, <2>1, <2>4
        <3>3. CASE closed[q] \/ closed[Other(q)]
            <4>1. wire'[q] = wire[q]
                BY <1>0, <2>2, <2>3, <2>4, <3>3, Written
            <4>2. UnderWay(q, d, lo, mid, hi)'
                BY <1>0, <1>a, <1>b, <2>3, <3>2, <3>3, <4>1 DEF UnderWay
            <4> QED
                BY <1>d, <2>3, <4>2
        <3>4. CASE ~closed[q] /\ ~closed[Other(q)]
            <4>1. wire'[q] = Append(wire[q], m)
                BY <1>0, <2>2, <2>3, <2>4, <3>4, Written
            <4>2. hi = sent[Other(q)][d]
                BY <1>a, <3>4 DEF UnderWay
            <4>3. Carries(wire'[q], d, mid, hi + 1)
                BY <1>0, <1>a, <1>b, <2>2, <3>1, <4>1, <4>2, CarriesAppend DEF UnderWay
            <4>4. UnderWay(q, d, lo, mid, hi + 1)'
                BY <1>0, <1>a, <1>b, <2>3, <3>2, <4>2, <4>3 DEF UnderWay
            <4> QED
                BY <1>d, <2>3, <4>4
        <3> QED BY <3>3, <3>4
    <2>5. CASE ~(p = Other(q) /\ d = o)
        <3>1. sent'[Other(q)][d] = sent[Other(q)][d]
            BY <1>0, <2>1, <2>5
        <3>2. wire'[q] = wire[q] \/ (wire'[q] = Append(wire[q], m) /\ q = Other(p))
            BY <1>0, <2>2, <2>3, Written
        <3>3. q = Other(p) => ~IsChunk(m, d)
            <4> SUFFICES ASSUME q = Other(p), IsChunk(m, d) PROVE FALSE
                OBVIOUS
            <4>1. d = o /\ p = Other(q)
                BY <1>0, <2>2, TwoPeers DEF IsChunk
            <4> QED BY <2>5, <4>1
        <3>4. UnderWay(q, d, lo, mid, hi)'
            BY <1>a, <2>2, <2>3, <3>1, <3>2, <3>3, UnderWayStays
        <3> QED
            BY <1>d, <2>3, <3>4
    <2> QED BY <2>4, <2>5
<1>7. ASSUME NEW p \in Peers, Receive(p) PROVE Goal
    <2> DEFINE m == Head(wire[p])
    <2>1. /\ got' = got /\ sent' = sent /\ closed' = closed
        BY <1>7 DEF Receive
    <2>2. /\ wire[p] # <<>> /\ m \in Message /\ wire'[p] = Tail(wire[p])
          /\ events'[p] = IF m.kind = "response" THEN events[p] ELSE Append(events[p], m)
          /\ \A r \in Peers : r # p => wire'[r] = wire[r] /\ events'[r] = events[r]
        BY <1>0, <1>7, Received
    <2>3. CASE q # p
        <3>1. UnderWay(q, d, lo, mid, hi)'
            BY <1>0, <1>a, <2>1, <2>2, <2>3 DEF UnderWay
        <3> QED
            BY <1>d, <2>1, <3>1
    <2>4. CASE q = p
        <3>1. Carries(events[q], d, lo, mid) /\ Carries(wire[q], d, mid, hi)
            BY <1>a DEF UnderWay
        <3>2. CASE IsChunk(m, d)
            <4>1. m.chunk.n = mid + 1 /\ mid + 1 <= hi /\ Carries(wire'[q], d, mid + 1, hi)
                BY <1>0, <2>2, <2>4, <3>1, <3>2, CarriesTail
            <4>2. events'[q] = Append(events[q], m)
                BY <2>2, <2>4, <3>2 DEF IsChunk
            <4> HIDE DEF m
            <4>3. Carries(events'[q], d, lo, mid + 1)
                BY <1>0, <1>b, <2>2, <3>1, <3>2, <4>1, <4>2, CarriesAppend
            <4>4. UnderWay(q, d, lo, mid + 1, hi)'
                BY <1>0, <1>a, <1>b, <2>1, <4>1, <4>3 DEF UnderWay
            <4> QED
                BY <1>d, <2>1, <4>4
        <3>3. CASE ~IsChunk(m, d)
            <4>1. Carries(wire'[q], d, mid, hi)
                BY <1>0, <2>2, <2>4, <3>1, <3>3, CarriesTail
            <4> HIDE DEF m
            <4>2. Carries(events'[q], d, lo, mid)
                <5>1. CASE events'[q] = events[q]
                    BY <3>1, <5>1
                <5>2. CASE events'[q] = Append(events[q], m)
                    BY <1>0, <1>b, <2>2, <3>1, <3>3, <5>2, CarriesAppend
                <5> QED BY <2>2, <2>4, <5>1, <5>2
            <4>3. UnderWay(q, d, lo, mid, hi)'
                BY <1>0, <1>a, <1>b, <2>1, <4>1, <4>2 DEF UnderWay
            <4> QED
                BY <1>d, <2>1, <4>3
        <3> QED BY <3>2, <3>3
    <2> QED BY <2>3, <2>4
<1>8. ASSUME NEW p \in Peers, Consume(p) PROVE Goal
    <2> DEFINE m == Head(events[p])
    <2>1. /\ sent' = sent /\ closed' = closed /\ wire' = wire
          /\ streamId' = streamId /\ isClosed' = isClosed /\ ambiguous' = ambiguous
        BY <1>8 DEF Consume, ends
    <2>2. /\ events[p] # <<>> /\ m \in Message /\ events'[p] = Tail(events[p])
          /\ \A r \in Peers : r # p => events'[r] = events[r]
        BY <1>8, Consumed
    <2>3. CASE q # p
        <3>1. UnderWay(q, d, lo, mid, hi)'
            BY <1>0, <1>a, <2>1, <2>2, <2>3 DEF UnderWay
        <3>2. got'[q][d] = got[q][d]
            BY <1>8, <2>3, OwnChunkGiven
        <3> QED
            BY <1>d, <3>1, <3>2
    <2>4. CASE q = p
        <3>1. Carries(events[q], d, lo, mid)
            BY <1>a DEF UnderWay
        <3>2. CASE IsChunk(m, d)
            <4>1. m.chunk.n = lo + 1 /\ lo + 1 <= mid /\ Carries(events'[q], d, lo + 1, mid)
                BY <1>0, <2>2, <2>4, <3>1, <3>2, CarriesTail
            <4>2. UnderWay(q, d, lo + 1, mid, hi)'
                BY <1>0, <1>a, <1>b, <2>1, <4>1 DEF UnderWay
            <4>3. ASSUME ~ambiguous', streamId'[q][d] # 0, ~isClosed'[q][d]
                  PROVE  got'[q][d] # <<>> /\ got'[q][d][Len(got'[q][d])].n = lo + 1
                <5>1. got'[q][d] = Append(got[q][d], m.chunk)
                    BY <1>8, <2>1, <2>4, <3>2, <4>3, OwnChunkGiven
                <5>2. got[q][d] \in Seq(Chunk) /\ m.chunk \in Chunk
                    BY <1>0, <2>2, <3>2, MessageFields DEF TypeOK, IsChunk
                <5> HIDE DEF m, Chunk
                <5>3. /\ Append(got[q][d], m.chunk) # <<>>
                      /\ Append(got[q][d], m.chunk)[Len(Append(got[q][d], m.chunk))] = m.chunk
                    BY <5>2
                <5> QED
                    BY <4>1, <5>1, <5>3
            <4>4. GivenUpTo(q, d, lo + 1)'
                BY <4>3 DEF GivenUpTo
            <4>5. lo + 1 \in Nat
                OBVIOUS
            <4> QED
                BY <4>2, <4>4, <4>5 DEF Goal
        <3>3. CASE ~IsChunk(m, d)
            <4>1. Carries(events'[q], d, lo, mid)
                BY <1>0, <2>2, <2>4, <3>1, <3>3, CarriesTail
            <4>2. UnderWay(q, d, lo, mid, hi)'
                BY <1>0, <1>a, <1>b, <2>1, <4>1 DEF UnderWay
            <4>3. CASE ambiguous
                BY <2>1, <4>2, <4>3 DEF Goal, GivenUpTo
            <4>4. CASE ~ambiguous
                <5>1. got'[q][d] = got[q][d]
                    BY <1>8, <2>4, <3>3, <4>4, OwnChunkGiven
                <5> QED
                    BY <1>d, <4>2, <5>1
            <4> QED BY <4>3, <4>4
        <3> QED BY <3>2, <3>3
    <2> QED BY <2>3, <2>4
<1>9. ASSUME NEW p \in Peers, Close(p) PROVE Goal
    <2>1. /\ got' = got /\ sent' = sent /\ streamId' = streamId
          /\ closed' = [closed EXCEPT ![p] = TRUE]
          /\ wire' = [wire EXCEPT ![p] = <<>>] /\ events' = [events EXCEPT ![p] = <<>>]
          /\ isClosed' = [isClosed EXCEPT ![p] =
                             [o \in Opens |-> @[o] \/ \E i \in Ids : registry[p][i] = o]]
        BY <1>9 DEF Close
    <2>2. CASE q # p
        <3>1. /\ wire'[q] = wire[q] /\ events'[q] = events[q]
            BY <1>0, <2>1, <2>2 DEF TypeOK
        <3>2. UnderWay(q, d, lo, mid, hi)'
            BY <1>a, <2>1, <3>1, UnderWayStays
        <3> QED
            BY <1>d, <2>1, <3>2
    <2>3. CASE q = p
        <3>1. wire'[q] = <<>> /\ events'[q] = <<>> /\ closed'[q]
            BY <1>0, <2>1, <2>3 DEF TypeOK
        <3>2. UnderWay(q, d, 0, 0, 0)'
            BY <1>0, <2>1, <3>1, CarriesNone DEF UnderWay
        <3>3. streamId'[q][d] # 0 => isClosed'[q][d]
            <4>1. streamId[q][d] # 0 /\ ~isClosed[q][d] =>
                     streamId[q][d] \in Ids /\ registry[q][streamId[q][d]] = d
                BY <1>0, IdsOfStreams DEF RegistryAgrees
            <4>2. isClosed'[q][d] = (isClosed[q][d] \/ \E i \in Ids : registry[q][i] = d)
                BY <1>0, <2>1, <2>3 DEF EndsTypeOK
            <4>3. isClosed[q][d] \in BOOLEAN
                BY <1>0 DEF EndsTypeOK
            <4> QED
                BY <2>1, <4>1, <4>2, <4>3
        <3>4. GivenUpTo(q, d, 0)'
            BY <3>3 DEF GivenUpTo
        <3> QED
            BY <3>2, <3>4 DEF Goal
    <2> QED BY <2>2, <2>3
<1> QED
    BY <1>e, <1>2, <1>4, <1>5, <1>6, <1>7, <1>8, <1>9
       DEF Next, vars, OpenTimeout, OpenResumes, HandlerStarts, CloseStream

\* ChunksArrive: the chunk that Consume hands over is the next one of the
\* Stream it was sent on (ChunksInStep, OwnChunkGiven).
LEMMA ChunksArriveKept == StreamsInv /\ [Next]_vars => ChunksArrive'
<1> SUFFICES ASSUME StreamsInv, [Next]_vars, ~ambiguous', NEW q \in Peers, NEW d \in Opens
             PROVE  /\ \A k \in DOMAIN got'[q][d] : got'[q][d][k].open = d
                    /\ \A k \in DOMAIN got'[q][d] : got'[q][d][k].n = got'[q][d][1].n + k - 1
                    /\ got'[q][d] # <<>> /\ q = Acceptor(d)' => got'[q][d][1].n = 1
    BY DEF ChunksArrive, OwnChunks, NoGap
<1>0. /\ TypeOK /\ ChunksInStep /\ ~ambiguous
      /\ got[q][d] \in Seq(Chunk)
      /\ Acceptor(d)' = Acceptor(d)
    BY Monotone, Stable DEF StreamsInv, TypeOK, Acceptor
<1>1. /\ \A k \in DOMAIN got[q][d] : got[q][d][k].open = d
      /\ \A k \in DOMAIN got[q][d] : got[q][d][k].n = got[q][d][1].n + k - 1
      /\ got[q][d] # <<>> /\ q = Acceptor(d) => got[q][d][1].n = 1
    BY <1>0 DEF StreamsInv, ChunksArrive, OwnChunks, NoGap
<1>2. CASE got'[q][d] = got[q][d]
    BY <1>0, <1>1, <1>2
<1>3. ASSUME NEW p \in Peers, Consume(p), got'[q][d] # got[q][d]
      PROVE  \E x \in Chunk, lo \in Nat :
                /\ got'[q][d] = Append(got[q][d], x) /\ x.open = d /\ x.n = lo + 1
                /\ IF got[q][d] # <<>> THEN got[q][d][Len(got[q][d])].n = lo
                                       ELSE q = Acceptor(d) => lo = 0
    <2> DEFINE m == Head(events[p])
    <2>1. q = p
        BY <1>3, OwnChunkGiven
    <2>2. IsChunk(m, d)
        BY <1>0, <1>3, <2>1, OwnChunkGiven
    <2>3. streamId[q][d] # 0 /\ ~isClosed[q][d] /\ got'[q][d] = Append(got[q][d], m.chunk)
        BY <1>0, <1>3, <2>1, <2>2, OwnChunkGiven
    <2>4. m \in Message /\ events[q] # <<>> /\ events[q] \in Seq(Message)
        BY <1>0, <1>3, <2>1, Consumed, UnderWayTyped
    <2>5. PICK lo \in Nat, mid \in Nat, hi \in Nat :
             UnderWay(q, d, lo, mid, hi) /\ GivenUpTo(q, d, lo)
        BY <1>0 DEF ChunksInStep
    <2>6. m.chunk.n = lo + 1
        BY <2>1, <2>2, <2>4, <2>5, CarriesTail DEF UnderWay
    <2>7. m.chunk \in Chunk /\ m.chunk.open = d
        BY <2>2, <2>4, MessageFields DEF IsChunk
    <2>8. IF got[q][d] # <<>> THEN got[q][d][Len(got[q][d])].n = lo
                              ELSE q = Acceptor(d) => lo = 0
        BY <1>0, <2>3, <2>5 DEF GivenUpTo
    <2> HIDE DEF m, Chunk
    <2> QED
        BY <2>3, <2>6, <2>7, <2>8
<1>4. CASE \E p \in Peers : Consume(p) /\ got'[q][d] # got[q][d]
    <2>1. PICK x \in Chunk, lo \in Nat :
             /\ got'[q][d] = Append(got[q][d], x) /\ x.open = d /\ x.n = lo + 1
             /\ IF got[q][d] # <<>> THEN got[q][d][Len(got[q][d])].n = lo
                                    ELSE q = Acceptor(d) => lo = 0
        BY <1>3, <1>4
    <2> DEFINE s == got[q][d]
               t == Append(s, x)
    <2> HIDE DEF Chunk
    <2>2. /\ DOMAIN s = 1..Len(s) /\ Len(s) \in Nat
          /\ DOMAIN t = 1..(Len(s) + 1)
          /\ \A k \in DOMAIN t : t[k] = IF k \in DOMAIN s THEN s[k] ELSE x
        BY <1>0, Appended
    <2>3. \A k \in DOMAIN s : s[k].n \in Nat
        <3>1. \A k \in DOMAIN s : s[k] \in Chunk
            BY <1>0
        <3>2. \A c \in Chunk : c.n \in Nat
            BY StreamsAssumption DEF Chunk
        <3> QED BY <3>1, <3>2
    <2>4. s = <<>> <=> Len(s) = 0
        BY <1>0
    <2>5. /\ \A k \in DOMAIN s : s[k].open = d /\ s[k].n = s[1].n + k - 1
          /\ s # <<>> /\ q = Acceptor(d) => s[1].n = 1
          /\ x.open = d /\ x.n = lo + 1 /\ got'[q][d] = t
          /\ s # <<>> => s[Len(s)].n = lo
          /\ s = <<>> /\ q = Acceptor(d) => lo = 0
        BY <1>1, <2>1
    <2> HIDE DEF s, t
    <2>6. \A k \in DOMAIN t : k \in DOMAIN s \/ k = Len(s) + 1
        BY <2>2
    <2>7. \A k \in DOMAIN t : t[k].open = d
        BY <2>2, <2>5
    <2>8. CASE s = <<>>
        <3>1. DOMAIN t = {1} /\ t[1] = x
            BY <2>2, <2>4, <2>8
        <3>2. x.n = 1 + lo /\ (q = Acceptor(d) => x.n = 1)
            BY <2>5, <2>8
        <3>3. x.n = x.n + 1 - 1
            BY <2>5
        <3> QED
            BY <1>0, <2>5, <2>7, <3>1, <3>2, <3>3
    <2>9. CASE s # <<>>
        <3>1. Len(s) >= 1 /\ 1 \in DOMAIN s /\ Len(s) \in DOMAIN s
            BY <2>2, <2>4, <2>9
        <3>2. t[1] = s[1] /\ t[Len(s) + 1] = x /\ Len(s) + 1 \in DOMAIN t
            BY <2>2, <3>1
        <3>3. s[1].n \in Nat /\ lo = s[1].n + Len(s) - 1
            BY <2>3, <2>5, <2>9, <3>1
        <3>4. \A k \in DOMAIN t : t[k].n = t[1].n + k - 1
            <4> TAKE k \in DOMAIN t
            <4>1. CASE k \in DOMAIN s
                BY <2>2, <2>5, <3>2, <4>1
            <4>2. CASE k = Len(s) + 1
                BY <2>2, <2>5, <3>2, <3>3, <4>2
            <4> QED BY <2>6, <4>1, <4>2
        <3> QED
            BY <1>0, <2>5, <2>7, <2>9, <3>2, <3>4
    <2> QED BY <2>8, <2>9
<1> QED
    BY <1>2, <1>4
       DEF Next, vars, OpenStream, OpenTimeout, OpenResumes, HandlerStarts,
           HandlerReturns, HandlerFails, Receive, Close, Send, CloseStream

-----------------------------------------------------------------------------
\* The invariant holds of two connected endpoints without streams.
LEMMA StreamsInit == Init => StreamsInv
<1> SUFFICES ASSUME Init PROVE StreamsInv
    OBVIOUS
<1>1. TypeOK
    <2>1. 1 \in Ids /\ 0 \in 0..MaxStreamId /\ 0 \in 0..MaxChunks
        BY StreamsAssumption DEF Ids
    <2>2. <<>> \in Seq(Message) /\ <<>> \in Seq(Chunk)
        OBVIOUS
    <2> HIDE DEF Message, Chunk, Peers
    <2> QED
        BY <2>1, <2>2 DEF Init, TypeOK, Each
<1>2. \A o \in Opens : opener[o] \in Peers /\ Acceptor(o) \in Peers
    BY <1>1, TwoPeers DEF Peers
<1>3. MessagesOK /\ RequestsOnce
    BY DEF Init, Each, MessagesOK, RequestsOnce, In, Once, Asked
<1>4. StreamsNamed
    BY <1>2 DEF Init, Each, StreamsNamed
<1>5. RegistryAgrees
    BY DEF Init, Each, RegistryAgrees
<1>6. NamesUnique
    BY DEF Init, Each, NamesUnique
<1>7. ChunksInStep
    <2>1. ASSUME NEW p \in Peers, NEW o \in Opens
          PROVE  UnderWay(p, o, 0, 0, 0) /\ GivenUpTo(p, o, 0)
        <3>1. Other(p) \in Peers
            BY <1>1, TwoPeers
        <3>2. /\ events[p] = <<>> /\ wire[p] = <<>> /\ sent[Other(p)][o] = 0
              /\ streamId[p][o] = 0
            BY <3>1 DEF Init, Each
        <3> QED
            BY <3>2, CarriesNone DEF UnderWay, GivenUpTo
    <2> QED
        BY <2>1 DEF ChunksInStep
<1>8. ChunksArrive
    BY DEF Init, Each, ChunksArrive, OwnChunks, NoGap
<1> QED
    BY <1>1, <1>3, <1>4, <1>5, <1>6, <1>7, <1>8 DEF StreamsInv

\* The inductive invariant holds in every state the two endpoints reach.
THEOREM StreamsInvariance == Spec => []StreamsInv
<1>1. Init => StreamsInv
    BY StreamsInit
<1>2. StreamsInv /\ [Next]_vars => StreamsInv'
    BY TypeKept, MessagesKept, RequestsKept, NamedKept, RegistryKept, UniqueKept,
       StepKept, ChunksArriveKept DEF StreamsInv
<1> QED
    BY <1>1, <1>2, PTL DEF Spec

\* Every variable keeps its type, for any number of calls, ids and chunks.
THEOREM StreamsTypeCorrect == Spec => []TypeOK
<1>1. StreamsInv => TypeOK
    BY DEF StreamsInv
<1> QED
    BY <1>1, StreamsInvariance, PTL

\* A Stream is open exactly while its registry routes its id to it
\* (streamRegistry.ts 42-83, stream.ts 46-58), whichever ids collide.
THEOREM RegistryConsistent == Spec => []RegistryAgrees
<1>1. StreamsInv => RegistryAgrees
    BY DEF StreamsInv
<1> QED
    BY <1>1, StreamsInvariance, PTL

\* While no id is ambiguous, chunks reach the other end of their own Stream,
\* in order, without a gap and at the acceptor from the first one on.
THEOREM ChunksDelivered == Spec => []ChunksArrive
<1>1. StreamsInv => ChunksArrive
    BY DEF StreamsInv
<1> QED
    BY <1>1, StreamsInvariance, PTL
=============================================================================
