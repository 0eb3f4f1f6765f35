---------------------------- MODULE FrameDecoder ----------------------------
(***************************************************************************)
(* frameDecoder of packages/protocol/src/frame.ts: frames are put together *)
(* again from chunks cut anywhere, and handed out as views, into the chunk *)
(* or into the decoder's own buffer, good until the next push.             *)
(*                                                                         *)
(* A byte is <<i, j>>, the j-th of the i-th frame sent; the first          *)
(* HeaderLength of a frame tell its length.  Kinds, claims of more than    *)
(* the maximum and end() are left out: the peer sends whole, legal frames. *)
(***************************************************************************)
EXTENDS Naturals, Sequences, FiniteSets

CONSTANTS HeaderLength,  \* FRAME_HEADER_LENGTH
          MaxPayload,    \* MAXIMUM_PAYLOAD_LENGTH
          FrameCount     \* bound: frames sent

FrameDecoderAssumption == HeaderLength \in Nat \ {0} /\ {MaxPayload, FrameCount} \subseteq Nat

VARIABLES
  lengths,   \* the payload lengths of the frames sent
  fed,       \* bytes pushed so far
  buffer,    \* the decoder's buffer, numbered from 0
  held,
  expected,
  decoded,   \* how many frames were returned
  given      \* what the views of the last push hold, as it returns

vars == <<lengths, fed, buffer, held, expected, decoded, given>>

Unset == <<0, 0>>
Fewest(m, n) == IF m < n THEN m ELSE n
Most(m, n) == IF m < n THEN n ELSE m

Total(i) == HeaderLength + lengths[i]
EndOf[i \in 0..FrameCount] == IF i = 0 THEN 0 ELSE EndOf[i - 1] + Total(i)
Sent == EndOf[FrameCount]
ByteAt(n) == LET i == CHOOSE i \in 1..FrameCount : EndOf[i - 1] < n /\ n <= EndOf[i]
             IN  <<i, n - EndOf[i - 1] - 1>>
Payload(i) == [j \in 1..lengths[i] |-> <<i, HeaderLength + j - 1>>]

Init ==
  /\ lengths \in [1..FrameCount -> 0..MaxPayload]
  /\ fed = 0
  /\ buffer = <<>>
  /\ held = 0 /\ expected = 0
  /\ decoded = 0 /\ given = <<>>

-----------------------------------------------------------------------------
Size(bytes) == Cardinality(DOMAIN bytes)
Slice(bytes, from, to) == [j \in 1..(to - from) |-> bytes[from + j - 1]]

\* buffer.set(chunk.subarray(from, from + count), at)
Put(bytes, chunk, from, count, at) ==
  [n \in DOMAIN bytes |-> IF n \in at..at + count - 1 THEN chunk[from + n - at] ELSE bytes[n]]

Fresh(size) == [n \in 0..size - 1 |-> Unset]

\* reserve
Reserved(bytes, kept, needed) ==
  IF Size(bytes) >= needed THEN bytes
  ELSE Put(Fresh(Most(needed, Fewest(2 * Size(bytes), HeaderLength + MaxPayload))),
           bytes, 0, kept, 0)

\* validateHeader: bytes that are no header tell of a frame that never ends.
TotalAt(bytes, at) ==
  LET i == bytes[at][1] IN
  IF \A j \in 0..HeaderLength - 1 : bytes[at + j] = <<i, j>> THEN Total(i) ELSE Sent + 1

\* The while loop: how far whole frames reach in the chunk, and those frames.
Fits(chunk, at) ==
  at + HeaderLength <= Size(chunk) /\ at + TotalAt(chunk, at) <= Size(chunk)
PayloadAt(chunk, at) == Slice(chunk, at + HeaderLength, at + TotalAt(chunk, at))

Whole(chunk, from) ==
  LET next[at \in 0..Size(chunk)] ==
        IF Fits(chunk, at)
        THEN [at |-> next[at + TotalAt(chunk, at)].at,
              frames |-> <<PayloadAt(chunk, at)>> \o next[at + TotalAt(chunk, at)].frames]
        ELSE [at |-> at, frames |-> <<>>]
  IN  next[from]

\* Mutation: a buffer that is large enough is used again, views or not.
ReplacedIfSmall(bytes, viewed, needed) == Size(bytes) < needed

\* Whether what is left of a chunk goes into another array than the one there
\* is: always, if a frame returned by this push lies in it.
Replaced(bytes, viewed, needed) == viewed \/ Size(bytes) < needed

\* The end of a push: the frames that lie whole in the chunk from there on,
\* behind the one that reaches to viewed in the buffer, if it is not 0, and what
\* is left over.  A view is read once the push has returned.
Returns(bytes, viewed, chunk, from) ==
  LET whole == Whole(chunk, from)
      rest == Size(chunk) - whole.at
      total == IF rest < HeaderLength THEN 0 ELSE TotalAt(chunk, whole.at)
      needed == Most(HeaderLength, total)
      replaced == Replaced(bytes, viewed # 0, needed)
      array == CASE ~replaced -> bytes
                 [] viewed # 0 -> Fresh(needed)
                 [] OTHER -> Reserved(bytes, 0, needed)
      after == IF rest = 0 THEN bytes ELSE Put(array, chunk, whole.at, rest, 0)
      shown == IF replaced THEN bytes ELSE after
      frames == IF viewed = 0 THEN whole.frames
                ELSE <<Slice(shown, HeaderLength, viewed)>> \o whole.frames
  IN  /\ buffer' = after /\ held' = rest /\ expected' = total
      /\ given' = frames
      /\ decoded' = decoded + Len(frames)

ReturnsNothing(bytes, kept, total) ==
  /\ buffer' = bytes /\ held' = kept /\ expected' = total
  /\ given' = <<>>
  /\ UNCHANGED decoded

\* The part of push that completes a frame begun by an earlier one, whose
\* total length is known.
Continues(bytes, kept, total, chunk, from) ==
  LET take == Fewest(total - kept, Size(chunk) - from)
      filled == Put(bytes, chunk, from, take, kept)
  IN  IF kept + take < total THEN ReturnsNothing(filled, kept + take, total)
      ELSE Returns(filled, total, chunk, from + take)

Push(chunk) ==
  \/ /\ held = 0
     /\ Returns(buffer, 0, chunk, 0)
  \/ /\ held >= HeaderLength
     /\ Continues(buffer, held, expected, chunk, 0)
  \/ /\ held \in 1..HeaderLength - 1
     /\ LET take == Fewest(HeaderLength - held, Size(chunk))
            kept == held + take
            bytes == Put(buffer, chunk, 0, take, held)
            total == TotalAt(bytes, 0)
        IN  IF kept < HeaderLength THEN ReturnsNothing(bytes, kept, expected)
            ELSE Continues(Reserved(bytes, kept, total), kept, total, chunk, take)

Receive(n) ==
  /\ fed + n <= Sent
  /\ fed' = fed + n
  /\ Push([k \in 0..n - 1 |-> ByteAt(fed + k + 1)])
  /\ UNCHANGED lengths

Next == \E n \in 1..Sent : Receive(n)

Spec == Init /\ [][Next]_vars

-----------------------------------------------------------------------------
\* However the stream is cut, the frames returned so far are the frames that
\* have come in whole, each with its own bytes still under its view when the
\* push has returned; the rest is held.
DecodedIsSent ==
  /\ decoded <= FrameCount /\ fed = EndOf[decoded] + held
  /\ decoded < FrameCount => fed < EndOf[decoded + 1]
  /\ given = [k \in 1..Len(given) |-> Payload(decoded - Len(given) + k)]
=============================================================================
