------------------------------- MODULE Reply --------------------------------
(***************************************************************************)
(* sources/telegram: Send, the way of a reply to the chat. SplitMessage    *)
(* cuts a text that is longer than a Telegram message, a chunk per turn    *)
(* of its loop; sendChunked then posts the chunks until one fails.         *)
(*                                                                         *)
(* A text is a sequence of bytes, of which the code tells newlines and     *)
(* spaces from the rest. A chunk is a slice of the text, and is known by   *)
(* the positions of its first and last byte.                               *)
(***************************************************************************)
EXTENDS Integers, Sequences, FiniteSetsExt

CONSTANTS
  Limit,     \* telegramMaxLength
  Bytes,
  NL, SP,    \* newline, space
  Texts      \* replies, sequences of bytes: Send has found something in them but blanks

ConstantsAssumption == Limit \in Nat /\ Texts \subseteq Seq(Bytes)

VARIABLES
  text,      \* the reply
  done,      \* how many of its bytes are split; the rest remains
  chunks,    \* the chunks so far
  next,      \* the chunk to post; 0 while splitting
  posted     \* indices of the chunks that were posted

vars == <<text, done, chunks, next, posted>>

Blank == {NL, SP}
Slice == [first : Nat, last : Nat]

TypeOK ==
  /\ text \in Texts /\ done \in 0..Len(text) /\ chunks \in Seq(Slice)
  /\ next \in Nat /\ posted \subseteq 1..Len(chunks)
  /\ next > 0 => done = Len(text) /\ chunks # <<>>

Init ==
  /\ text \in Texts /\ done = 0 /\ chunks = <<>> /\ next = 0 /\ posted = {}

-----------------------------------------------------------------------------
Ink(slice) == {i \in slice.first..slice.last : text[i] \notin Blank}

\* strings.TrimSpace
Trim(slice) ==
  IF Ink(slice) = {} THEN [slice EXCEPT !.last = slice.first - 1]
  ELSE [first |-> Min(Ink(slice)), last |-> Max(Ink(slice))]

\* strings.LastIndex of n newlines in the first Limit bytes of what remains, as an
\* offset of the code that is beyond a quarter of the limit; -1 if there is none.
LastCut(n) ==
  LET at == {i \in 0..(Limit - n) : \A k \in 1..n : text[done + i + k] = NL}
  IN IF at = {} \/ Max(at) <= Limit \div 4 THEN -1 ELSE Max(at)

\* The bytes the next chunk takes, and the separator that is dropped after them.
Cut ==
  IF LastCut(2) # -1 THEN [take |-> LastCut(2), drop |-> 2]
  ELSE IF LastCut(1) # -1 THEN [take |-> LastCut(1), drop |-> 1]
  ELSE [take |-> Limit, drop |-> 0]

SplitDropping ==
  /\ next = 0 /\ Len(text) - done > Limit
  /\ chunks' = Append(chunks, Trim([first |-> done + 1, last |-> done + Cut.take]))
  /\ done' = done + Cut.take + 1
  /\ UNCHANGED <<text, next, posted>>

Split ==
  /\ next = 0 /\ Len(text) - done > Limit
  /\ chunks' = Append(chunks, Trim([first |-> done + 1, last |-> done + Cut.take]))
  /\ done' = done + Cut.take + Cut.drop
  /\ UNCHANGED <<text, next, posted>>

\* The last chunk, or only one, is as it is. An empty remainder adds none.
SplitEnds ==
  /\ next = 0 /\ Len(text) - done <= Limit
  /\ chunks' = IF done = Len(text) /\ chunks # <<>> THEN chunks
               ELSE Append(chunks, [first |-> done + 1, last |-> Len(text)])
  /\ done' = Len(text) /\ next' = 1
  /\ UNCHANGED <<text, posted>>

\* sendChunked: blank chunks are passed over; a failure ends it.
Post ==
  /\ next \in 1..Len(chunks)
  /\ \/ Ink(chunks[next]) = {} /\ next' = next + 1 /\ UNCHANGED posted
     \/ Ink(chunks[next]) # {} /\ next' = next + 1 /\ posted' = posted \cup {next}
     \/ Ink(chunks[next]) # {} /\ next' = Len(chunks) + 1 /\ UNCHANGED posted
  /\ UNCHANGED <<text, done, chunks>>

Next == Split \/ SplitEnds \/ Post

Spec == Init /\ [][Next]_vars

-----------------------------------------------------------------------------
(* Properties.                                                             *)

\* The chunks fit in a message, follow each other in the text, and leave out nothing
\* but blanks of what is split; and what the chat shows is a beginning of it, without
\* a gap, whichever chunk could not be posted.
NothingCutOut ==
  /\ \A i \in 1..Len(chunks) : chunks[i].last - chunks[i].first < Limit
  /\ \A j \in 1..Len(chunks) : \A i \in 1..(j - 1) : chunks[i].last < chunks[j].first
  /\ \A b \in 1..done : text[b] \notin Blank =>
       \E i \in 1..Len(chunks) : b \in chunks[i].first..chunks[i].last
  /\ \A i \in posted : \A j \in 1..(i - 1) : j \in posted \/ Ink(chunks[j]) = {}

=============================================================================
