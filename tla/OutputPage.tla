----------------------------- MODULE OutputPage -----------------------------
(***************************************************************************)
(* read_output (mcp/output.rs): the page of a stream that an offset and a  *)
(* limit name.  A stream is a sequence of bytes, of which only what they   *)
(* do in UTF-8 matters: a character of one byte, a lead byte of a longer   *)
(* one, a continuation byte, or a byte that no character has.  That the    *)
(* second byte after some leads is narrower still is left out.             *)
(***************************************************************************)
EXTENDS Naturals, Sequences, FiniteSets

Bytes == {"char", "lead2", "lead3", "lead4", "cont", "bad"}

MaxContinuation == 3

Width(byte) ==
    CASE byte = "char" -> 1
      [] byte = "lead2" -> 2
      [] byte = "lead3" -> 3
      [] byte = "lead4" -> 4
      [] byte \in {"cont", "bad"} -> 0

Least(m, n) == IF m <= n THEN m ELSE n

\* Offsets count from 0: the byte at offset n is stream[n + 1].
OnlyConts(stream, first, last) ==
    \A n \in first + 1 .. last : stream[n] = "cont"

\* How many bytes of the stream from `at` on belong to a character that starts
\* before it, within the MaxContinuation bytes looked back at.
InsideCharacter(stream, at) ==
    LET leads == {n \in 0 .. at - 1 :
                    /\ at - n <= MaxContinuation
                    /\ stream[n + 1] # "cont"
                    /\ OnlyConts(stream, n + 1, at)}
        missing(n) == IF Width(stream[n + 1]) > at - n
                      THEN Width(stream[n + 1]) - (at - n) ELSE 0
        conts == {m \in 0 .. Len(stream) - at : OnlyConts(stream, at, at + m)}
    IN  IF leads = {} THEN 0
        ELSE LET n == CHOOSE n \in leads : TRUE
                 most == {m \in conts : m <= missing(n)}
             IN  CHOOSE m \in most : \A o \in most : o <= m

\* How many bytes before `end` begin a character that is not finished there;
\* the page starts at `start`.
UnfinishedTail(stream, start, end) ==
    LET leads == {n \in start .. end - 1 :
                    /\ end - n <= MaxContinuation
                    /\ stream[n + 1] # "cont"
                    /\ OnlyConts(stream, n + 1, end)}
        begun == {n \in leads : Width(stream[n + 1]) > end - n}
    IN  IF begun = {} THEN 0 ELSE end - (CHOOSE n \in begun : TRUE)

\* A page of what can be read, of which `total` was the length a moment before.
\* It is from start to end; "small" is a limit that holds no character.
Page(stream, total, offset, limit, running) ==
    LET start == offset + InsideCharacter(stream, offset)
        most == Least(Len(stream), start + limit)
        atEnd == most >= total
        end == IF atEnd /\ ~running THEN most
               ELSE most - UnfinishedTail(stream, start, most)
    IN  [start |-> start, end |-> end,
         small |-> end = start /\ most > start /\ ~(atEnd /\ running),
         eof |-> end >= total /\ ~running]

-----------------------------------------------------------------------------
\* Reference: a seam is an offset where no character goes on that began before.
Seam(stream, at) ==
    \/ at = Len(stream)
    \/ stream[at + 1] # "cont"
    \/ \A n \in 0 .. at - 1 :
          ~(Width(stream[n + 1]) > at - n /\ OnlyConts(stream, n + 1, at))

FirstSeam(stream, from) ==
    CHOOSE n \in from .. Len(stream) :
        Seam(stream, n) /\ \A m \in from .. n - 1 : ~Seam(stream, m)
=============================================================================
