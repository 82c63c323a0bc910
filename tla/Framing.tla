------------------------------- MODULE Framing -------------------------------
(***************************************************************************)
(* One direction of a framed connection (protocol/codec/frame.ts): the     *)
(* sender cuts messages into frames, the receiver finds the frames in a    *)
(* byte stream that arrives in arbitrary pieces and may be damaged, and    *)
(* puts the messages together again by their wrapping messageId.           *)
(*                                                                         *)
(* A frame is the two bytes of the magic, its header fields, its payload   *)
(* and its crc; the fields, the crc and a fragment are one element of the  *)
(* stream each.  A payload is empty, one element, or another, complete     *)
(* frame.  All messages have the same payload type.                        *)
(***************************************************************************)
EXTENDS Integers, Sequences, FiniteSets, SequencesExt

CONSTANTS
    MaxMessageId,   \* 0xffff
    MaxAssemblies,  \* MAX_PENDING_ASSEMBLIES
    MaxMessageSize, \* in fragments
    MaxFrameSize,   \* in elements of the stream; shared by both ends
    FrameCounts,    \* numbers of frames a message may take; at most 255
    MaxMessages,    \* bound: messages sent
    MaxNoise,       \* bound: elements damaged
    NoAssembly      \* Map.get: undefined

ASSUME FramingAssumption ==
    /\ {MaxMessageId, MaxAssemblies, MaxMessageSize} \subseteq Nat \ {0}
    /\ MaxFrameSize \in Nat /\ MaxFrameSize >= 8
    /\ FrameCounts \subseteq Nat \ {0}
    /\ {MaxMessages, MaxNoise} \subseteq Nat
    /\ NoAssembly \notin [count : Nat, parts : Seq(Int), size : Nat, old : BOOLEAN]

VARIABLES
    sent,          \* the frame count of every message sent
    nextMessageId, \* of the fragmenter
    wire,          \* bytes on their way
    buffer,        \* of the FrameDecoder
    assemblies,    \* of the MessageReassembler, by messageId
    delivered,     \* fragments of the messages handed on, in order
    arrived,       \* history: all bytes the decoder has been given
    frames,        \* history: all frames it has found
    damage,        \* history: elements damaged
    causes         \* history: other reasons for which a message may be lost

vars == <<sent, nextMessageId, wire, buffer, assemblies, delivered, arrived,
          frames, damage, causes>>

MessageIds == 1..MaxMessageId

\* msg is the message the payload belongs to: what the payload is, not a
\* header field.  Message 0 is the frame inside a payload.
Frame(msg, id, index, count, len) ==
    [msg |-> msg, id |-> id, index |-> index, count |-> count, len |-> len]

Magic == <<[at |-> "magic0"], [at |-> "magic1"]>>
Fields(f) == [at |-> "fields", frame |-> f]
Data(f, i) == [at |-> "data", frame |-> f, i |-> i]
Crc(f) == [at |-> "crc", frame |-> f]
Noise == [at |-> "noise"]

Inner == Frame(0, 1, 0, 1, 0)

\* FrameEncoder.  A payload of four elements is a frame itself.
Encode(f) ==
    Magic \o <<Fields(f)>>
    \o (IF f.len = 4 THEN Magic \o <<Fields(Inner), Crc(Inner)>>
        ELSE [i \in 1..f.len |-> Data(f, i)])
    \o <<Crc(f)>>

Size(f) == f.len + 4

-----------------------------------------------------------------------------
(* The decoder                                                             *)

\* Mutant of Rest: resyncToMagic forgets the trailing half of a magic.
RestEmpty(b, i) == IF i = Len(b) THEN <<>> ELSE SubSeq(b, i, Len(b))

\* What stays in the buffer when the loop ends at i.
Rest(b, i) == SubSeq(b, i, Len(b))

\* The frame whose header is at i, and the last element it claims.
Candidate(b, i) == b[i + 2].frame
FrameEnd(b, i) == i + Size(Candidate(b, i)) - 1

\* No frame begins at i: no magic, no header of a frame that may be, or a crc
\* that does not match.
NoFrame(b, i) ==
    \/ \E j \in 1..2 : i + j - 1 <= Len(b) /\ b[i + j - 1] # Magic[j]
    \/ /\ i + 3 <= Len(b)
       /\ \/ b[i + 2].at # "fields"
          \/ Size(Candidate(b, i)) > MaxFrameSize
          \/ FrameEnd(b, i) <= Len(b) /\ SubSeq(b, i, FrameEnd(b, i)) # Encode(Candidate(b, i))

\* Half a magic, a header, or the rest of a frame is not there yet.
Incomplete(b, i) == i + 3 > Len(b) \/ FrameEnd(b, i) > Len(b)

\* parseLoop over b, from i: the frames it finds and the bytes it keeps.  Where
\* no frame begins it drops one element and looks for the next magic.
ParseLoop(b) ==
    LET p[i \in 1..(Len(b) + 1)] ==
            IF NoFrame(b, i) THEN p[i + 1]
            ELSE IF Incomplete(b, i) THEN [found |-> <<>>, rest |-> Rest(b, i)]
            ELSE LET q == p[FrameEnd(b, i) + 1]
                 IN [found |-> <<Candidate(b, i)>> \o q.found, rest |-> q.rest]
    IN p

Parse(b) == ParseLoop(b)[1]

-----------------------------------------------------------------------------
(* The reassembler                                                         *)

Pending(asm) == {id \in MessageIds : asm[id] # NoAssembly}

NewAssembly(count) ==
    [count |-> count, parts |-> [i \in 1..count |-> -1], size |-> 0,
     old |-> FALSE]

\* evictExpired
Evict(asm) ==
    [id \in MessageIds |->
        IF asm[id] # NoAssembly /\ asm[id].old THEN NoAssembly ELSE asm[id]]

\* Mutant of Full: > for >=.
FullTooLate(asm) == Cardinality(Pending(asm)) > MaxAssemblies

Full(asm) == Cardinality(Pending(asm)) >= MaxAssemblies

\* Mutant of Complete: the last fragment completes the message.
CompleteAtLast(parts) == parts[Len(parts)] # -1

Complete(parts) == \A i \in 1..Len(parts) : parts[i] # -1

\* onFrame: s holds the assemblies, the messages handed on, and whether an
\* assembly was refused.
OnFrame(s, f) ==
    LET asm == Evict(s.assemblies)
        a == IF asm[f.id] = NoAssembly THEN NewAssembly(f.count) ELSE asm[f.id]
        with(x) == [s EXCEPT !.assemblies = [asm EXCEPT ![f.id] = x]]
        parts == [a.parts EXCEPT ![f.index + 1] = f.msg]
    IN IF f.count = 1 THEN [s EXCEPT !.delivered = Append(@, <<f.msg>>)]
       ELSE IF asm[f.id] = NoAssembly /\ Full(asm)
            THEN [s EXCEPT !.assemblies = asm, !.refused = TRUE]
       ELSE IF a.count # f.count THEN with(NoAssembly)
       ELSE IF a.parts[f.index + 1] # -1 THEN with(a)
       ELSE IF a.size + 1 > MaxMessageSize THEN with(NoAssembly)
       ELSE IF ~Complete(parts)
            THEN with([a EXCEPT !.parts = parts, !.size = @ + 1])
       ELSE [with(NoAssembly) EXCEPT !.delivered = Append(@, parts)]

\* The frames of one piece, in order: what each of them makes of s.
OnFrames(s, found) ==
    LET after[k \in 0..Len(found)] ==
            IF k = 0 THEN s ELSE OnFrame(after[k - 1], found[k])
    IN after

-----------------------------------------------------------------------------
Fragment == {-1} \cup 0..MaxMessages

TypeOK ==
    /\ sent \in Seq(FrameCounts) /\ Len(sent) <= MaxMessages
    /\ nextMessageId \in MessageIds
    /\ Len(buffer) < MaxFrameSize
    /\ \A id \in Pending(assemblies) :
          LET a == assemblies[id] IN
          /\ a.count \in FrameCounts \ {1}
          /\ a.parts \in [1..a.count -> Fragment]
          /\ a.size = Cardinality({i \in 1..a.count : a.parts[i] # -1})
          /\ a.size \in 1..MaxMessageSize /\ a.size < a.count
    /\ Cardinality(Pending(assemblies)) <= MaxAssemblies
    /\ \A k \in 1..Len(delivered) :
          delivered[k] \in [1..Len(delivered[k]) -> 0..MaxMessages]
    /\ damage \in 0..MaxNoise
    /\ causes \subseteq {"reused", "expired", "refused"}

Init ==
    /\ sent = <<>>
    /\ nextMessageId = 1
    /\ wire = <<>>
    /\ buffer = <<>>
    /\ assemblies = [id \in MessageIds |-> NoAssembly]
    /\ delivered = <<>>
    /\ arrived = <<>>
    /\ frames = <<>>
    /\ damage = 0
    /\ causes = {}

Successor(id) == IF id + 1 > MaxMessageId THEN 1 ELSE id + 1

\* An unfinished assembly, or a frame underway, has this id.
InUse(id) ==
    \/ assemblies[id] # NoAssembly
    \/ \E x \in {wire[i] : i \in DOMAIN wire} \cup {buffer[i] : i \in DOMAIN buffer} :
          x.at = "fields" /\ x.frame.id = id

\* fragment and encode; only a message of one frame is empty or holds a frame.
Send(count, len) ==
    /\ Len(sent) < MaxMessages
    /\ count > 1 => len = 1
    /\ sent' = Append(sent, count)
    /\ nextMessageId' = Successor(nextMessageId)
    /\ LET m == Len(sent) + 1
       IN wire' = wire \o FlattenSeq([i \in 1..count |->
                     Encode(Frame(m, nextMessageId, i - 1, count, len))])
    /\ causes' = IF InUse(nextMessageId) THEN causes \cup {"reused"} ELSE causes
    /\ UNCHANGED <<buffer, assemblies, delivered, arrived, frames, damage>>

\* fragment throws on a message of more than 255 frames: its id is used up.
SendTooLong ==
    /\ Len(sent) < MaxMessages
    /\ nextMessageId' = Successor(nextMessageId)
    /\ UNCHANGED <<sent, wire, buffer, assemblies, delivered, arrived, frames,
                   damage, causes>>

\* onBytes: the next n bytes arrive in one piece.  p is what the decoder makes
\* of it, bound by \E so that TLC parses it once.
Arrive(n) ==
    /\ n <= Len(wire)
    /\ wire' = SubSeq(wire, n + 1, Len(wire))
    /\ arrived' = arrived \o SubSeq(wire, 1, n)
    /\ \E p \in {Parse(buffer \o SubSeq(wire, 1, n))} :
          LET s == OnFrames([assemblies |-> assemblies, delivered |-> delivered,
                             refused |-> FALSE], p.found)[Len(p.found)]
          IN /\ buffer' = p.rest
             /\ frames' = frames \o p.found
             /\ assemblies' = s.assemblies
             /\ delivered' = s.delivered
             /\ causes' = IF s.refused THEN causes \cup {"refused"} ELSE causes
    /\ UNCHANGED <<sent, nextMessageId, damage>>

\* assemblyTimeoutMs has passed since an assembly was made.
Age(id) ==
    /\ assemblies[id] # NoAssembly /\ ~assemblies[id].old
    /\ assemblies' = [assemblies EXCEPT ![id].old = TRUE]
    /\ causes' = causes \cup {"expired"}
    /\ UNCHANGED <<sent, nextMessageId, wire, buffer, delivered, arrived, frames,
                   damage>>

\* An element is damaged: it becomes noise, or a header claims more payload.
Damage(i) ==
    /\ damage < MaxNoise
    /\ \/ wire' = [wire EXCEPT ![i] = Noise]
       \/ /\ wire[i].at = "fields"
          /\ \E len \in (wire[i].frame.len + 1)..(MaxFrameSize - 3) :
                wire' = [wire EXCEPT ![i] =
                            Fields([wire[i].frame EXCEPT !.len = len])]
    /\ damage' = damage + 1
    /\ UNCHANGED <<sent, nextMessageId, buffer, assemblies, delivered, arrived,
                   frames, causes>>

Next ==
    \/ \E count \in FrameCounts, len \in {0, 1, 4} : Send(count, len)
    \/ SendTooLong
    \/ \E n \in 1..Len(wire) : Arrive(n)
    \/ \E id \in MessageIds : Age(id)
    \/ \E i \in DOMAIN wire : Damage(i)

Spec == Init /\ [][Next]_vars

-----------------------------------------------------------------------------
(* Properties                                                              *)

\* However the stream is cut into pieces, the decoder finds the same frames
\* and keeps the same rest: no element is parsed twice or lost at the edge of
\* a chunk, a lone magic and a header without its payload included
\* (frame.ts 43-146).
ChunkingIrrelevant ==
    LET p == Parse(arrived) IN frames = p.found /\ buffer = p.rest

\* What was sent, a frame inside a payload excepted.
Messages == {k \in DOMAIN delivered : delivered[k][1] # 0}

\* What is handed on is what was sent: whole, in order and once, whatever is
\* damaged, expires or is refused, as long as no messageId comes round while
\* it is in use.  A frame inside a payload is handed on only if the frame
\* around it was damaged (frame.ts 177-240).
DeliversSent ==
    /\ "reused" \notin causes =>
          /\ \A k \in Messages :
                \E m \in DOMAIN sent : delivered[k] = [i \in 1..sent[m] |-> m]
          /\ \A j, k \in Messages : j < k => delivered[j][1] < delivered[k][1]
    /\ damage = 0 => Messages = DOMAIN delivered

\* Damage is contained: once all has been read, each damaged element has cost
\* at most one message, the decoder having found its way back to the next
\* frame; undamaged, every message is handed on that is not longer than
\* maxMessageSize and falls under none of the limits.
NothingLost ==
    wire = <<>> /\ causes = {} /\ (damage = 0 \/ buffer = <<>>) =>
        LET due == {m \in DOMAIN sent : sent[m] = 1 \/ sent[m] <= MaxMessageSize}
        IN Cardinality(due \ {delivered[k][1] : k \in Messages}) <= damage

\* Messages get through whole or not at all, and damage costs what it hits.
MessagesArrive == DeliversSent /\ NothingLost
=============================================================================
