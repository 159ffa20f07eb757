----------------------------- MODULE StreamProofs -----------------------------
(***************************************************************************)
(* The decoder of an event stream (EventStream), for every stream, every   *)
(* cut into chunks and all bounds; as in BodyProofs, of all behaviours of  *)
(* MCProxy.                                                                *)
(*                                                                         *)
(* The push and the reader of the whole stream are followed byte by byte   *)
(* through a chunk.  At every byte they are alike in one of four ways: the *)
(* block goes on, and then the buffer with the piece that was begun is     *)
(* what the reader has read since the last dispatch (SameBlock); a         *)
(* terminal has been decoded; both have failed; or the reader has failed   *)
(* and the push will, where its piece ends (Doomed).                       *)
(***************************************************************************)
EXTENDS BodyProofs

-----------------------------------------------------------------------------
(* Sequences that are made item by item.                                   *)

\* What one byte makes of the lines of a block, of a push or of the reader.
Fed(kind, x, b) ==
  CASE kind = "block" -> E!Extended(x, b)
    [] kind = "push" -> E!Feed(x, b)
    [] kind = "reader" -> E!Read(x, b)

\* What the first bytes of q make of x.
Runs(h, kind, x, q) ==
  h = [n \in 0..Len(q) |-> IF n = 0 THEN x ELSE Fed(kind, h[n - 1], q[n])]

LEMMA RunsExist ==
  ASSUME NEW D, NEW q \in Seq(D), NEW kind, NEW x
  PROVE  \E h : Runs(h, kind, x, q)
<1> DEFINE At(h, n) == h[n] = IF n = 0 THEN x ELSE Fed(kind, h[n - 1], q[n])
           Reached == {l \in Nat : \E h : \A n \in 0..l : At(h, n)}
<1>1. 0 \in Reached
  <2> DEFINE h == [n \in {0} |-> x]
  <2>1. At(h, 0)
    OBVIOUS
  <2>2. \A n \in 0..0 : n = 0
    OBVIOUS
  <2> HIDE DEF At, h
  <2>3. QED BY <2>1, <2>2
<1>2. ASSUME NEW l \in Nat, l \in Reached PROVE l + 1 \in Reached
  <2>1. PICK h : \A n \in 0..l : At(h, n)
    BY <1>2
  <2> DEFINE g == [n \in 0..(l + 1) |->
                     IF n <= l THEN h[n] ELSE Fed(kind, h[l], q[n])]
  <2>2. /\ \A n \in 0..l : g[n] = h[n]
        /\ g[l + 1] = Fed(kind, h[l], q[l + 1])
    OBVIOUS
  <2> HIDE DEF g
  <2>3. ASSUME NEW n \in 0..(l + 1) PROVE At(g, n)
    <3>1. CASE n = 0
      BY <2>1, <2>2, <3>1
    <3>2. CASE n \in 1..l
      <4>1. n - 1 \in 0..l /\ n \in 0..l
        BY <3>2
      <4>2. QED BY <2>1, <2>2, <3>2, <4>1
    <3>3. CASE n = l + 1
      <4>1. n - 1 = l /\ l \in 0..l
        BY <3>3
      <4>2. QED BY <2>2, <3>3, <4>1
    <3>4. QED BY <3>1, <3>2, <3>3
  <2> HIDE DEF At
  <2>4. QED BY <2>3
<1>3. Len(q) \in Reached
  <2> HIDE DEF Reached
  <2>1. Nat \subseteq Reached
    BY <1>1, <1>2, NumbersFollow, Zenon
  <2>2. QED BY <2>1
<1>4. PICK h : \A n \in 0..Len(q) : At(h, n)
  BY <1>3
<1> DEFINE g == [n \in 0..Len(q) |-> h[n]]
<1>5. \A n \in 0..Len(q) : At(g, n)
  BY <1>4
<1>6. Runs(g, kind, x, q)
  BY <1>5 DEF Runs
<1>7. QED BY <1>6

\* One more byte.
LEMMA RunsGrow ==
  ASSUME NEW D, NEW q \in Seq(D), NEW b \in D, NEW kind, NEW x, NEW h, NEW g,
         Runs(h, kind, x, q), Runs(g, kind, x, Append(q, b))
  PROVE  g[Len(q) + 1] = Fed(kind, h[Len(q)], b)
<1> DEFINE Good == {l \in Nat : l <= Len(q) => g[l] = h[l]}
<1>1. /\ Len(q) \in Nat /\ Len(Append(q, b)) = Len(q) + 1
      /\ Append(q, b)[Len(q) + 1] = b
      /\ \A n \in 1..Len(q) : Append(q, b)[n] = q[n]
  OBVIOUS
<1>2. /\ \A n \in 0..Len(q) : h[n] = IF n = 0 THEN x ELSE Fed(kind, h[n - 1], q[n])
      /\ \A n \in 0..(Len(q) + 1) :
           g[n] = IF n = 0 THEN x ELSE Fed(kind, g[n - 1], Append(q, b)[n])
  BY <1>1 DEF Runs
<1>3. 0 \in Good
  BY <1>1, <1>2
<1>4. ASSUME NEW l \in Nat, l \in Good PROVE l + 1 \in Good
  <2>1. SUFFICES ASSUME l + 1 <= Len(q) PROVE g[l + 1] = h[l + 1]
    OBVIOUS
  <2>2. l + 1 \in 1..Len(q) /\ l + 1 - 1 = l /\ l <= Len(q)
    BY <1>1, <2>1
  <2>3. g[l] = h[l] /\ Append(q, b)[l + 1] = q[l + 1]
    BY <1>1, <1>4, <2>2
  <2>4. QED BY <1>1, <1>2, <2>2, <2>3
<1>5. Len(q) \in Good
  <2> HIDE DEF Good
  <2>1. Nat \subseteq Good
    BY <1>3, <1>4, NumbersFollow, Zenon
  <2>2. QED BY <1>1, <2>1
<1>6. g[Len(q)] = h[Len(q)]
  BY <1>1, <1>5
<1>7. Len(q) + 1 \in 0..(Len(q) + 1) /\ Len(q) + 1 # 0 /\ Len(q) + 1 - 1 = Len(q)
  BY <1>1
<1>8. QED BY <1>1, <1>2, <1>6, <1>7

\* What the definition of Lines chooses.
BlockRuns(h, q) ==
  h = [n \in 0..Len(q) |-> IF n = 0 THEN E!NoLines ELSE E!Extended(h[n - 1], q[n])]

LEMMA LinesGrow ==
  ASSUME NEW D, NEW q \in Seq(D), NEW b \in D
  PROVE  E!Lines(<<>>) = E!NoLines /\ E!Lines(Append(q, b)) = E!Extended(E!Lines(q), b)
<1> DEFINE choice(s) == CHOOSE h : BlockRuns(h, s)
<1>f. \A x, c : Fed("block", x, c) = E!Extended(x, c)
  BY DEF Fed
<1>1. ASSUME NEW s \in Seq(D)
      PROVE  Runs(choice(s), "block", E!NoLines, s) /\ E!Lines(s) = choice(s)[Len(s)]
  <2>1. \A h : Runs(h, "block", E!NoLines, s) <=> BlockRuns(h, s)
    BY <1>f DEF Runs, BlockRuns
  <2>2. \E h : BlockRuns(h, s)
    BY <2>1, RunsExist, Zenon
  <2>3. BlockRuns(choice(s), s)
    BY <2>2, Zenon
  <2>4. E!Lines(s) = choice(s)[Len(s)]
    BY Zenon DEF E!Lines, BlockRuns
  <2>5. QED BY <2>1, <2>3, <2>4, Zenon
<1> HIDE DEF choice
<1>2. E!Lines(<<>>) = E!NoLines
  <2>1. <<>> \in Seq(D) /\ Len(<<>>) = 0
    OBVIOUS
  <2>2. QED BY <1>1, <2>1 DEF Runs
<1>3. Append(q, b) \in Seq(D) /\ Len(Append(q, b)) = Len(q) + 1
  OBVIOUS
<1>4. choice(Append(q, b))[Len(q) + 1] = Fed("block", choice(q)[Len(q)], b)
  <2>1. Runs(choice(q), "block", E!NoLines, q)
    BY <1>1
  <2>2. Runs(choice(Append(q, b)), "block", E!NoLines, Append(q, b))
    BY <1>1, <1>3
  <2>3. QED BY <2>1, <2>2, RunsGrow, Zenon
<1>5. QED BY <1>1, <1>2, <1>3, <1>4, <1>f

\* What the definition of Pieces chooses.
PushRuns(h, d, q) ==
  h = [n \in 0..Len(q) |-> IF n = 0 THEN E!Begun(d) ELSE E!Feed(h[n - 1], q[n])]

LEMMA PiecesGrow ==
  ASSUME NEW D, NEW q \in Seq(D), NEW b \in D, NEW d
  PROVE  /\ E!Pieces(d, <<>>) = E!Begun(d)
         /\ E!Pieces(d, Append(q, b)) = E!Feed(E!Pieces(d, q), b)
<1> DEFINE choice(s) == CHOOSE h : PushRuns(h, d, s)
<1>f. \A x, c : Fed("push", x, c) = E!Feed(x, c)
  BY DEF Fed
<1>1. ASSUME NEW s \in Seq(D)
      PROVE  Runs(choice(s), "push", E!Begun(d), s) /\ E!Pieces(d, s) = choice(s)[Len(s)]
  <2>1. \A h : Runs(h, "push", E!Begun(d), s) <=> PushRuns(h, d, s)
    BY <1>f DEF Runs, PushRuns
  <2>2. \E h : PushRuns(h, d, s)
    BY <2>1, RunsExist, Zenon
  <2>3. PushRuns(choice(s), d, s)
    BY <2>2, Zenon
  <2>4. E!Pieces(d, s) = choice(s)[Len(s)]
    BY Zenon DEF E!Pieces, PushRuns
  <2>5. QED BY <2>1, <2>3, <2>4, Zenon
<1> HIDE DEF choice
<1>2. E!Pieces(d, <<>>) = E!Begun(d)
  <2>1. <<>> \in Seq(D) /\ Len(<<>>) = 0
    OBVIOUS
  <2>2. QED BY <1>1, <2>1 DEF Runs
<1>3. Append(q, b) \in Seq(D) /\ Len(Append(q, b)) = Len(q) + 1
  OBVIOUS
<1>4. choice(Append(q, b))[Len(q) + 1] = Fed("push", choice(q)[Len(q)], b)
  <2>1. Runs(choice(q), "push", E!Begun(d), q)
    BY <1>1
  <2>2. Runs(choice(Append(q, b)), "push", E!Begun(d), Append(q, b))
    BY <1>1, <1>3
  <2>3. QED BY <2>1, <2>2, RunsGrow, Zenon
<1>5. QED BY <1>1, <1>2, <1>3, <1>4, <1>f

\* What the definition of Reading chooses.
ReaderRuns(h, q) ==
  h = [n \in 0..Len(q) |-> IF n = 0 THEN E!Reader ELSE E!Read(h[n - 1], q[n])]

LEMMA ReadingGrows ==
  ASSUME NEW D, NEW q \in Seq(D), NEW b \in D
  PROVE  /\ E!Reading(<<>>) = E!Reader
         /\ E!Reading(Append(q, b)) = E!Read(E!Reading(q), b)
<1> DEFINE choice(s) == CHOOSE h : ReaderRuns(h, s)
<1>f. \A x, c : Fed("reader", x, c) = E!Read(x, c)
  BY DEF Fed
<1>1. ASSUME NEW s \in Seq(D)
      PROVE  Runs(choice(s), "reader", E!Reader, s) /\ E!Reading(s) = choice(s)[Len(s)]
  <2>1. \A h : Runs(h, "reader", E!Reader, s) <=> ReaderRuns(h, s)
    BY <1>f DEF Runs, ReaderRuns
  <2>2. \E h : ReaderRuns(h, s)
    BY <2>1, RunsExist, Zenon
  <2>3. ReaderRuns(choice(s), s)
    BY <2>2, Zenon
  <2>4. E!Reading(s) = choice(s)[Len(s)]
    BY Zenon DEF E!Reading, ReaderRuns
  <2>5. QED BY <2>1, <2>3, <2>4, Zenon
<1> HIDE DEF choice
<1>2. E!Reading(<<>>) = E!Reader
  <2>1. <<>> \in Seq(D) /\ Len(<<>>) = 0
    OBVIOUS
  <2>2. QED BY <1>1, <2>1 DEF Runs
<1>3. Append(q, b) \in Seq(D) /\ Len(Append(q, b)) = Len(q) + 1
  OBVIOUS
<1>4. choice(Append(q, b))[Len(q) + 1] = Fed("reader", choice(q)[Len(q)], b)
  <2>1. Runs(choice(q), "reader", E!Reader, q)
    BY <1>1
  <2>2. Runs(choice(Append(q, b)), "reader", E!Reader, Append(q, b))
    BY <1>1, <1>3
  <2>3. QED BY <2>1, <2>2, RunsGrow, Zenon
<1>5. QED BY <1>1, <1>2, <1>3, <1>4, <1>f

\* Sequences joined.
LEMMA JoinIs ==
  ASSUME NEW D, NEW q \in Seq(D), NEW s \in Seq(D)
  PROVE  /\ q \o s \in Seq(D) /\ Len(q \o s) = Len(q) + Len(s)
         /\ \A i \in 1..Len(q) : (q \o s)[i] = q[i]
         /\ \A i \in 1..Len(s) : (q \o s)[Len(q) + i] = s[i]
OBVIOUS

LEMMA JoinNone ==
  ASSUME NEW D, NEW q \in Seq(D)
  PROVE  q \o <<>> = q /\ <<>> \o q = q
OBVIOUS

LEMMA JoinAdd ==
  ASSUME NEW D, NEW q \in Seq(D), NEW s \in Seq(D), NEW b \in D
  PROVE  q \o Append(s, b) = Append(q \o s, b)
OBVIOUS

LEMMA JoinJoin ==
  ASSUME NEW D, NEW q \in Seq(D), NEW s \in Seq(D), NEW t \in Seq(D)
  PROVE  (q \o s) \o t = q \o (s \o t)
OBVIOUS

LEMMA AddNotNone ==
  ASSUME NEW D, NEW q \in Seq(D), NEW b \in D
  PROVE  Append(q, b) # <<>> /\ E!Last(Append(q, b)) = b /\ E!Front(Append(q, b)) = q
BY DEF E!Last, E!Front

LEMMA FrontLast ==
  ASSUME NEW D, NEW q \in Seq(D), Len(q) > 0
  PROVE  /\ E!Front(q) \in Seq(D) /\ Len(E!Front(q)) = Len(q) - 1
         /\ E!Last(q) = q[Len(q)] /\ q[Len(q)] \in D
         /\ q = Append(E!Front(q), q[Len(q)])
<1>1. E!Front(q) = M!Front(q)
  BY DEF E!Front, M!Front
<1>2. /\ E!Front(q) \in Seq(D) /\ Len(E!Front(q)) = Len(q) - 1
      /\ \A i \in 1..Len(q) - 1 : E!Front(q)[i] = q[i]
  BY <1>1, LastDropped
<1>3. q[Len(q)] \in D /\ E!Last(q) = q[Len(q)]
  BY DEF E!Last
<1>4. /\ Append(E!Front(q), q[Len(q)]) \in Seq(D)
      /\ Len(Append(E!Front(q), q[Len(q)])) = Len(q)
      /\ \A i \in 1..Len(q) : Append(E!Front(q), q[Len(q)])[i] = q[i]
  BY <1>2, <1>3
<1>5. Append(E!Front(q), q[Len(q)]) = q
  BY <1>4, SeqEqual
<1>6. QED BY <1>2, <1>3, <1>5

-----------------------------------------------------------------------------
(* Types of a decoder, of a push and of the reader, and their fields.      *)

Bits == E!Bytes
Failing == {"", "too large", "invalid"}
LinesType == [data : Seq(Bits), line : Seq(Bits)]
DecoderType == [buffer : Seq(Bits), lf : Nat, terminal : BOOLEAN]
PushType ==
  [s : [d : DecoderType, events : Seq(Bits), error : Failing],
   piece : Seq(Bits \ {"L"})]
ReaderType ==
  [line : Seq(Bits), last : Seq(Bits), data : Seq(Bits), size : Nat,
   first : BOOLEAN, end : Int, events : Seq(Bits), error : Failing]

LEMMA ReaderFails ==
  ASSUME NEW r \in ReaderType, NEW fault \in Failing
  PROVE  [r EXCEPT !.error = fault] \in ReaderType
BY DEF ReaderType

LEMMA ReaderLine ==
  ASSUME NEW r \in ReaderType, NEW line \in Seq(Bits), NEW n \in Nat
  PROVE  [r EXCEPT !.line = line, !.size = n] \in ReaderType
<1> DEFINE s == [r EXCEPT !.line = line]
<1>1. s \in ReaderType
  BY DEF ReaderType
<1>2. [r EXCEPT !.line = line, !.size = n] = [s EXCEPT !.size = n]
  BY DEF ReaderType
<1> HIDE DEF s
<1>3. [s EXCEPT !.size = n] \in ReaderType
  BY <1>1 DEF ReaderType
<1>4. QED BY <1>2, <1>3

LEMMA ReaderTurns ==
  ASSUME NEW r \in ReaderType, NEW data \in Seq(Bits), NEW last \in Seq(Bits),
         NEW n \in Nat, NEW m \in Int
  PROVE  [r EXCEPT !.data = data, !.last = last, !.line = <<>>, !.size = n,
                   !.first = FALSE, !.end = m] \in ReaderType
<1> DEFINE s1 == [r EXCEPT !.data = data]
           s2 == [s1 EXCEPT !.last = last]
           s3 == [s2 EXCEPT !.first = FALSE]
           s4 == [s3 EXCEPT !.end = m]
<1>1. s1 \in ReaderType
  BY DEF ReaderType
<1>2. ASSUME NEW s \in ReaderType
      PROVE  [s EXCEPT !.last = last] \in ReaderType
  BY DEF ReaderType
<1>3. ASSUME NEW s \in ReaderType
      PROVE  [s EXCEPT !.first = FALSE] \in ReaderType
  BY DEF ReaderType
<1>4. ASSUME NEW s \in ReaderType
      PROVE  [s EXCEPT !.end = m] \in ReaderType
  BY DEF ReaderType
<1>5. s4 \in ReaderType
  BY <1>1, <1>2, <1>3, <1>4
<1>6. [r EXCEPT !.data = data, !.last = last, !.line = <<>>, !.size = n,
                !.first = FALSE, !.end = m] = [s4 EXCEPT !.line = <<>>, !.size = n]
  BY Zenon DEF ReaderType
<1> HIDE DEF s4
<1>7. <<>> \in Seq(Bits)
  OBVIOUS
<1>8. QED BY <1>5, <1>6, <1>7, ReaderLine, Zenon

LEMMA LineSet ==
  ASSUME NEW data, NEW line, NEW x, NEW lines, lines = [data |-> data, line |-> line]
  PROVE  [lines EXCEPT !.line = x] = [data |-> data, line |-> x]
OBVIOUS

LEMMA ReaderTyped == E!Reader \in ReaderType
<1>1. <<>> \in Seq(Bits)
  OBVIOUS
<1>2. PICK x \in Seq(Bits) : x = <<>>
  BY <1>1, Zenon
<1>3. [line |-> x, last |-> x, data |-> x, size |-> 0, first |-> TRUE,
       end |-> 0, events |-> x, error |-> ""] \in ReaderType
  BY DEF ReaderType, Failing
<1>4. QED BY <1>2, <1>3, Zenon DEF E!Reader

LEMMA ReaderSame ==
  ASSUME NEW r \in ReaderType, NEW events, events = r.events
  PROVE  r = [r EXCEPT !.events = events]
BY DEF ReaderType

ReadAgain(events) == [E!Reader EXCEPT !.events = events]

AtStart(t, events) ==
  /\ t \in ReaderType /\ t.events = events /\ t.error = "" /\ t.line = <<>>
  /\ t.last = <<>> /\ t.data = <<>> /\ t.size = 0 /\ t.first = TRUE

LEMMA ReaderAgain ==
  ASSUME NEW events \in Seq(Bits)
  PROVE  AtStart(ReadAgain(events), events)
<1>0. PICK t : t = ReadAgain(events)
  OBVIOUS
<1>1. PICK r : r = E!Reader
  OBVIOUS
<1>2. r \in ReaderType
  BY <1>1, ReaderTyped, Zenon
<1>3. t = [r EXCEPT !.events = events]
  BY <1>0, <1>1, Zenon DEF ReadAgain
<1>4. /\ t \in ReaderType /\ t.events = events /\ t.error = r.error /\ t.line = r.line
      /\ t.last = r.last /\ t.data = r.data /\ t.size = r.size /\ t.first = r.first
  BY <1>2, <1>3 DEF ReaderType
<1>5. /\ r.error = "" /\ r.line = <<>> /\ r.last = <<>> /\ r.data = <<>>
      /\ r.size = 0 /\ r.first = TRUE
  BY <1>1, Zenon DEF E!Reader
<1>6. QED BY <1>0, <1>4, <1>5, Zenon DEF AtStart

LEMMA StrippedIs ==
  ASSUME NEW q \in Seq(Bits)
  PROVE  /\ E!Stripped(q) \in Seq(Bits) /\ E!DataOf(q) \in Seq(Bits)
         /\ Len(q) > 0 /\ q[Len(q)] = "C" =>
              E!Stripped(q) = E!Front(q) /\ Len(E!Stripped(q)) = Len(q) - 1
         /\ ~(Len(q) > 0 /\ q[Len(q)] = "C") => E!Stripped(q) = q
<1>1. q = <<>> <=> ~(Len(q) > 0)
  OBVIOUS
<1>2. /\ Len(q) > 0 /\ q[Len(q)] = "C" => E!Stripped(q) = E!Front(q)
      /\ ~(Len(q) > 0 /\ q[Len(q)] = "C") => E!Stripped(q) = q
  BY <1>1, FrontLast DEF E!Stripped
<1>3. Len(q) > 0 => E!Front(q) \in Seq(Bits) /\ Len(E!Front(q)) = Len(q) - 1
  BY FrontLast
<1>4. E!Stripped(q) \in Seq(Bits)
  BY <1>2, <1>3
<1>5. E!DataOf(q) \in Seq(Bits)
  BY <1>4 DEF E!DataOf
<1>6. QED BY <1>2, <1>3, <1>4, <1>5

LEMMA LinesTyped ==
  ASSUME NEW q \in Seq(Bits)
  PROVE  E!Lines(q) \in LinesType
<1> DEFINE Good == {n \in Nat : \A s \in Seq(Bits) : Len(s) = n => E!Lines(s) \in LinesType}
<1>1. 0 \in Good
  <2>1. ASSUME NEW s \in Seq(Bits), Len(s) = 0 PROVE s = <<>>
    BY <2>1
  <2>2. "D" \in Bits /\ <<>> \in Seq(Bits)
    BY DEF Bits, E!Bytes
  <2>3. E!Lines(<<>>) = E!NoLines
    BY <2>2, LinesGrow, Zenon
  <2>4. E!NoLines \in LinesType
    BY DEF E!NoLines, LinesType
  <2>5. QED BY <2>1, <2>3, <2>4
<1>2. ASSUME NEW n \in Nat, n \in Good PROVE n + 1 \in Good
  <2>1. SUFFICES ASSUME NEW s \in Seq(Bits), Len(s) = n + 1 PROVE E!Lines(s) \in LinesType
    OBVIOUS
  <2> DEFINE t == E!Front(s)
             b == s[n + 1]
  <2>2. t \in Seq(Bits) /\ Len(t) = n /\ b \in Bits /\ s = Append(t, b)
    BY <2>1, FrontLast
  <2> HIDE DEF t, b
  <2>3. E!Lines(s) = E!Extended(E!Lines(t), b)
    BY <2>2, LinesGrow, Zenon
  <2>4. E!Lines(t) \in LinesType
    BY <1>2, <2>2
  <2>5. /\ E!Lines(t).line \in Seq(Bits) /\ E!Lines(t).data \in Seq(Bits)
        /\ E!DataOf(E!Lines(t).line) \in Seq(Bits)
    BY <2>4, StrippedIs DEF LinesType
  <2>6. CASE b = "L"
    <3>1. E!Lines(s) = [data |-> E!Lines(t).data \o E!DataOf(E!Lines(t).line), line |-> <<>>]
      BY <2>3, <2>6 DEF E!Extended
    <3>2. E!Lines(t).data \o E!DataOf(E!Lines(t).line) \in Seq(Bits)
      BY <2>5
    <3>3. QED BY <3>1, <3>2 DEF LinesType
  <2>7. CASE b # "L"
    <3>1. E!Lines(s) = [E!Lines(t) EXCEPT !.line = Append(@, b)]
      BY <2>3, <2>7 DEF E!Extended
    <3>2. Append(E!Lines(t).line, b) \in Seq(Bits)
      BY <2>2, <2>5
    <3>3. QED BY <2>4, <3>1, <3>2 DEF LinesType
  <2>8. QED BY <2>6, <2>7
<1> HIDE DEF Good
<1>3. Nat \subseteq Good
  BY <1>1, <1>2, NumbersFollow, Zenon
<1>4. Len(q) \in Good
  BY <1>3
<1>5. QED BY <1>4 DEF Good

-----------------------------------------------------------------------------
(***************************************************************************)
(* Of a block that is not complete the decoder has kept, with the piece    *)
(* that was begun, the bytes that the reader has read since the last       *)
(* dispatch; and after a line feed the block that the next blank line      *)
(* would complete has the data that the reader would dispatch.             *)
(***************************************************************************)
Block(d, p) == d.buffer \o p

SameBlock(d, p, r) ==
  /\ r.error = "" /\ d.lf <= Len(d.buffer)
  /\ r.size = Len(Block(d, p)) /\ r.size <= MaxEvent + 3
  /\ r.first <=> d.lf = 0
  /\ r.line = E!Between(d) \o p
  /\ E!Lines(Block(d, p)) = [data |-> r.data \o E!DataOf(r.last), line |-> r.line]
  /\ d.lf > 0 =>
       /\ d.buffer[d.lf] = "L" /\ r.end = E!BlockEnd(d)
       /\ E!Data(SubSeq(d.buffer, 1, E!BlockEnd(d)))
            = r.data \o E!DataOf(E!Stripped(r.last))

Ended(events) == events # <<>> /\ events[Len(events)] = "T"

\* The block goes on,
Open(base, p, r) ==
  /\ p.s.error = "" /\ ~p.s.d.terminal
  /\ r.events = base \o p.s.events /\ ~Ended(r.events)
  /\ SameBlock(p.s.d, p.piece, r)
\* a terminal has been decoded,
Over(base, p, r) ==
  /\ p.s.error = "" /\ p.s.d.terminal
  /\ r.error = "" /\ r.events = base \o p.s.events /\ Ended(r.events)
\* the push has failed,
Wrong(base, p, r) ==
  /\ p.s.error # "" /\ r.error = p.s.error /\ E!IsPrefix(base, r.events)
\* or it will fail at the end of the piece.
Doomed(base, p, r) ==
  /\ p.s.error = "" /\ ~p.s.d.terminal /\ p.s.d.lf <= Len(p.s.d.buffer)
  /\ r.error = "too large" /\ E!IsPrefix(base, r.events)
  /\ p.piece # <<>> /\ Len(p.s.d.buffer) + Len(p.piece) > MaxEvent + 3

ReadAlike(base, p, r) ==
  Open(base, p, r) \/ Over(base, p, r) \/ Wrong(base, p, r) \/ Doomed(base, p, r)

LEMMA PrefixOf ==
  ASSUME NEW D, NEW q \in Seq(D), NEW s \in Seq(D)
  PROVE  E!IsPrefix(q, q \o s)
<1>1. /\ q \o s \in Seq(D) /\ Len(q) <= Len(q \o s)
      /\ \A i \in 1..Len(q) : q[i] = (q \o s)[i]
  BY JoinIs
<1>2. E!IsPrefix(q, q \o s) <=> H!IsPrefix(q, q \o s)
  BY DEF E!IsPrefix, H!IsPrefix
<1>3. QED BY <1>1, <1>2, PrefixIs

\* What the cases begin with.
LEMMA Parts ==
  ASSUME NEW p \in PushType
  PROVE  /\ p.s \in [d : DecoderType, events : Seq(Bits), error : Failing]
         /\ p.s.d \in DecoderType /\ p.s.events \in Seq(Bits) /\ p.s.error \in Failing
         /\ p.piece \in Seq(Bits \ {"L"}) /\ p.piece \in Seq(Bits)
         /\ p.s.d.buffer \in Seq(Bits) /\ p.s.d.lf \in Nat /\ p.s.d.terminal \in BOOLEAN
<1>1. p.s \in [d : DecoderType, events : Seq(Bits), error : Failing]
      /\ p.piece \in Seq(Bits \ {"L"})
  BY DEF PushType
<1>2. p.piece \in Seq(Bits)
  BY <1>1
<1>3. p.s.d \in DecoderType /\ p.s.events \in Seq(Bits) /\ p.s.error \in Failing
  BY <1>1
<1>4. p.s.d.buffer \in Seq(Bits) /\ p.s.d.lf \in Nat /\ p.s.d.terminal \in BOOLEAN
  BY <1>3 DEF DecoderType
<1>5. QED BY <1>1, <1>2, <1>3, <1>4

LEMMA ReaderParts ==
  ASSUME NEW r \in ReaderType
  PROVE  /\ r.line \in Seq(Bits) /\ r.last \in Seq(Bits) /\ r.data \in Seq(Bits)
         /\ r.size \in Nat /\ r.first \in BOOLEAN /\ r.end \in Int
         /\ r.events \in Seq(Bits) /\ r.error \in Failing
BY DEF ReaderType

LEMMA BetweenIs ==
  ASSUME NEW d \in DecoderType, d.lf <= Len(d.buffer)
  PROVE  E!Between(d) \in Seq(Bits) /\ Len(E!Between(d)) = Len(d.buffer) - d.lf
<1>1. d.buffer \in Seq(Bits) /\ d.lf \in Nat /\ Len(d.buffer) \in Nat
  BY DEF DecoderType
<1>2. PICK m \in Nat, n \in Nat : m = d.lf + 1 /\ n = Len(d.buffer)
  BY <1>1
<1>3. \A i \in m..n : d.buffer[i] \in Bits
  BY <1>1, <1>2
<1>4. m \in Int /\ n \in Int
  OBVIOUS
<1>5. /\ SubSeq(d.buffer, m, n) \in Seq(Bits)
      /\ Len(SubSeq(d.buffer, m, n)) = IF m <= n THEN n - m + 1 ELSE 0
  BY <1>3, <1>4, SubSeqProperties
<1>6. E!Between(d) = SubSeq(d.buffer, m, n)
  BY <1>2, Zenon DEF E!Between
<1>7. QED BY <1>1, <1>2, <1>5, <1>6

\* The lines with one more byte.
LinesAre(q, data, line) == E!Lines(q) = [data |-> data, line |-> line]

LEMMA LinesByte ==
  ASSUME NEW q \in Seq(Bits), NEW b \in Bits, NEW data, NEW line, LinesAre(q, data, line)
  PROVE  /\ b = "L" => LinesAre(Append(q, b), data \o E!DataOf(line), <<>>)
         /\ b # "L" => LinesAre(Append(q, b), data, Append(line, b))
<1>1. E!Lines(Append(q, b)) = E!Extended(E!Lines(q), b)
  BY LinesGrow, Zenon
<1>2. PICK lines : lines = E!Lines(q)
  OBVIOUS
<1>3. lines = [data |-> data, line |-> line]
  BY <1>2, Zenon DEF LinesAre
<1>8. lines.data = data /\ lines.line = line
  BY <1>3
<1>4. E!Lines(Append(q, b)) =
        IF b = "L" THEN [data |-> lines.data \o E!DataOf(lines.line), line |-> <<>>]
        ELSE [lines EXCEPT !.line = Append(line, b)]
  BY <1>1, <1>2, <1>8, Zenon DEF E!Extended
<1>5. [lines EXCEPT !.line = Append(line, b)]
        = [data |-> data, line |-> Append(line, b)]
  <2>1. PICK x : x = Append(line, b)
    OBVIOUS
  <2>2. [lines EXCEPT !.line = x] = [data |-> data, line |-> x]
    BY <1>3, LineSet
  <2>3. QED BY <2>1, <2>2, Zenon
<1>6. lines.data \o E!DataOf(lines.line) = data \o E!DataOf(line)
  BY <1>8, Zenon
<1>7. QED BY <1>4, <1>5, <1>6, Zenon DEF LinesAre

LEMMA JoinLen ==
  ASSUME NEW q \in Seq(Bits), NEW s \in Seq(Bits)
  PROVE  q \o s \in Seq(Bits) /\ Len(q \o s) = Len(q) + Len(s) /\ Len(q) \in Nat /\ Len(s) \in Nat
BY JoinIs

LEMMA AddLen ==
  ASSUME NEW q \in Seq(Bits), NEW b \in Bits
  PROVE  Append(q, b) \in Seq(Bits) /\ Append(q, b) # <<>> /\ Len(Append(q, b)) = Len(q) + 1
BY AddNotNone, LastAdded

LEMMA AddLast ==
  ASSUME NEW q \in Seq(Bits), NEW b \in Bits
  PROVE  Append(q, b)[Len(q) + 1] = b
BY LastAdded

LEMMA JoinLonger ==
  ASSUME NEW q \in Seq(Bits), NEW s \in Seq(Bits), NEW b \in Bits, NEW e \in Nat,
         Len(q \o s) = e + 3
  PROVE  Append(s, b) # <<>> /\ Len(q) + Len(Append(s, b)) > e + 3
<1>1. PICK m \in Nat : m = Len(q)
  OBVIOUS
<1>2. PICK n \in Nat : n = Len(s)
  OBVIOUS
<1>3. m + n = e + 3
  BY <1>1, <1>2, JoinLen
<1>4. Len(Append(s, b)) = n + 1 /\ Append(s, b) # <<>>
  BY <1>2, AddLen, Zenon
<1>5. m + (n + 1) > e + 3
  BY <1>3
<1>6. QED BY <1>1, <1>4, <1>5, Zenon

\* The reader has read one more byte.
Longer(r, t, b) ==
  /\ t.line = Append(r.line, b) /\ t.size = r.size + 1
  /\ t.error = "" /\ t.first = r.first /\ t.last = r.last /\ t.data = r.data
  /\ t.end = r.end

\* The block with one more byte that does not end a line.
LEMMA SameByte ==
  ASSUME NEW d \in DecoderType, NEW p \in Seq(Bits), NEW b \in Bits, b # "L",
         NEW r \in ReaderType, NEW t, SameBlock(d, p, r), r.size # MaxEvent + 3,
         Longer(r, t, b)
  PROVE  SameBlock(d, Append(p, b), t)
<1>1. /\ r.error = "" /\ d.lf <= Len(d.buffer)
      /\ r.size = Len(Block(d, p)) /\ r.size <= MaxEvent + 3
      /\ r.line = E!Between(d) \o p
      /\ E!Lines(Block(d, p)) = [data |-> r.data \o E!DataOf(r.last), line |-> r.line]
  BY Zenon DEF SameBlock
<1>2. d.buffer \in Seq(Bits) /\ E!Between(d) \in Seq(Bits)
  BY <1>1, BetweenIs, Zenon DEF DecoderType
<1>3. Block(d, Append(p, b)) = Append(Block(d, p), b)
  <2>1. PICK x \in Seq(Bits) : x = d.buffer
    BY <1>2, Zenon
  <2>2. x \o Append(p, b) = Append(x \o p, b)
    BY JoinAdd
  <2>3. QED BY <2>1, <2>2, Zenon DEF Block
<1>4. E!Between(d) \o Append(p, b) = Append(E!Between(d) \o p, b)
  <2>1. PICK x \in Seq(Bits) : x = E!Between(d)
    BY <1>2, Zenon
  <2>2. x \o Append(p, b) = Append(x \o p, b)
    BY JoinAdd
  <2>3. QED BY <2>1, <2>2, Zenon
<1>5. PICK q \in Seq(Bits) : q = Block(d, p)
  <2>1. PICK x \in Seq(Bits) : x = d.buffer
    BY <1>2, Zenon
  <2>2. x \o p \in Seq(Bits)
    BY JoinLen, Zenon
  <2>3. QED BY <2>1, <2>2, Zenon DEF Block
<1>6. E!Lines(Append(q, b)) = [data |-> t.data \o E!DataOf(t.last), line |-> t.line]
  <2>1. PICK data : data = r.data \o E!DataOf(r.last)
    OBVIOUS
  <2>2. PICK line : line = r.line
    OBVIOUS
  <2>3. E!Lines(q) = [data |-> data, line |-> line]
    BY <1>1, <1>5, <2>1, <2>2, Zenon
  <2>4. LinesAre(q, data, line)
    BY <2>3, Zenon DEF LinesAre
  <2>5. LinesAre(Append(q, b), data, Append(line, b))
    BY <2>4, LinesByte, Zenon
  <2>6. QED BY <2>1, <2>2, <2>5, Zenon DEF Longer, LinesAre
<1>7. t.size = Len(Append(q, b)) /\ t.size <= MaxEvent + 3
  <2>1. Len(Append(q, b)) = Len(q) + 1
    BY AddLen, Zenon
  <2>2. PICK n \in Nat : n = r.size
    BY ReaderParts, Zenon
  <2>3. n <= MaxEvent + 3 /\ n # MaxEvent + 3 /\ MaxEvent \in Nat
    BY <1>1, <2>2, StreamAssumption, Zenon
  <2>4. n + 1 <= MaxEvent + 3
    BY <2>3
  <2>5. QED BY <1>1, <1>5, <2>1, <2>2, <2>4, Zenon DEF Longer
<1>8. QED BY <1>1, <1>3, <1>4, <1>5, <1>6, <1>7, Zenon DEF SameBlock, Longer

\* A byte that does not end a line.
LEMMA ByteStep ==
  ASSUME NEW base \in Seq(Bits), NEW p \in PushType, NEW r \in ReaderType,
         NEW b \in Bits \ {"L"}, Open(base, p, r)
  PROVE  /\ E!Feed(p, b) \in PushType /\ E!Read(r, b) \in ReaderType
         /\ ReadAlike(base, E!Feed(p, b), E!Read(r, b))
<1>1. PICK q, t : q = E!Feed(p, b) /\ t = E!Read(r, b)
  OBVIOUS
<1>2. /\ p.s.d \in DecoderType /\ p.s.d.buffer \in Seq(Bits) /\ p.s.events \in Seq(Bits)
      /\ p.piece \in Seq(Bits) /\ p.piece \in Seq(Bits \ {"L"}) /\ b \in Bits /\ b # "L"
  BY Parts
<1>3. /\ p.s.error = "" /\ ~p.s.d.terminal
      /\ r.events = base \o p.s.events /\ ~Ended(r.events)
      /\ SameBlock(p.s.d, p.piece, r)
  BY Zenon DEF Open
<1>4. /\ r.error = "" /\ p.s.d.lf <= Len(p.s.d.buffer)
      /\ r.size = Len(Block(p.s.d, p.piece))
  BY <1>3, Zenon DEF SameBlock
<1>5. q = [p EXCEPT !.piece = Append(@, b)]
  BY <1>1, <1>2, Zenon DEF E!Feed
<1>6. q \in PushType /\ q.s = p.s /\ q.piece = Append(p.piece, b)
  <2>1. Append(p.piece, b) \in Seq(Bits \ {"L"})
    BY <1>2
  <2>2. QED BY <1>5, <2>1 DEF PushType
<1>7. ~(r.events # <<>> /\ E!Last(r.events) = "T")
  BY <1>3, Zenon DEF Ended, E!Last
<1>8. t = IF r.size = MaxEvent + 3 THEN [r EXCEPT !.error = "too large"]
          ELSE [r EXCEPT !.line = Append(@, b), !.size = @ + 1]
  BY <1>1, <1>2, <1>4, <1>7, Zenon DEF E!Read
<1>9. CASE r.size = MaxEvent + 3
  <2>1. t = [r EXCEPT !.error = "too large"]
    BY <1>8, <1>9, Zenon
  <2>2. t \in ReaderType /\ t.error = "too large" /\ t.events = r.events
    BY <2>1, ReaderFails, Zenon DEF ReaderType, Failing
  <2>3. E!IsPrefix(base, r.events)
    BY <1>2, <1>3, PrefixOf, Zenon
  <2>4. q.piece # <<>> /\ Len(p.s.d.buffer) + Len(q.piece) > MaxEvent + 3
    <3>1. PICK x \in Seq(Bits) : x = p.s.d.buffer
      BY <1>2, Zenon
    <3>2. PICK s \in Seq(Bits) : s = p.piece
      BY <1>2, Zenon
    <3>3. Len(x \o s) = MaxEvent + 3 /\ MaxEvent \in Nat
      BY <1>4, <1>9, <3>1, <3>2, StreamAssumption, Zenon DEF Block
    <3>4. Append(s, b) # <<>> /\ Len(x) + Len(Append(s, b)) > MaxEvent + 3
      BY <1>2, <3>3, JoinLonger, Zenon
    <3>5. QED BY <1>6, <3>1, <3>2, <3>4, Zenon
  <2>5. Doomed(base, q, t)
    BY <1>3, <1>4, <1>6, <2>2, <2>3, <2>4, Zenon DEF Doomed
  <2>6. QED BY <1>1, <1>6, <2>2, <2>5, Zenon DEF ReadAlike
<1>10. CASE r.size # MaxEvent + 3
  <2>1. t = [r EXCEPT !.line = Append(r.line, b), !.size = r.size + 1]
    BY <1>8, <1>10
  <2>2. Append(r.line, b) \in Seq(Bits) /\ r.size + 1 \in Nat
    BY <1>2, ReaderParts
  <2>3. t \in ReaderType
    BY <2>1, <2>2, ReaderLine, Zenon
  <2>4. /\ t.line = Append(r.line, b) /\ t.size = r.size + 1 /\ t.events = r.events
        /\ t.error = "" /\ t.first = r.first /\ t.last = r.last /\ t.data = r.data
        /\ t.end = r.end
    BY <1>4, <2>1, Zenon DEF ReaderType
  <2>5. SameBlock(p.s.d, Append(p.piece, b), t)
    BY <1>2, <1>3, <1>10, <2>4, SameByte, Zenon DEF Longer
  <2>6. Open(base, q, t)
    BY <1>3, <1>6, <2>4, <2>5, Zenon DEF Open
  <2>7. QED BY <1>1, <1>6, <2>3, <2>6, Zenon DEF ReadAlike
<1>11. QED BY <1>9, <1>10

\* What a push has made of the decoder so far.
SoFar == [d : DecoderType, events : Seq(Bits), error : Failing]

LEMMA PushIs ==
  ASSUME NEW x \in SoFar, NEW q, q = [s |-> x, piece |-> <<>>]
  PROVE  q \in PushType /\ q.s = x /\ q.piece = <<>>
<1>1. <<>> \in Seq(Bits \ {"L"})
  OBVIOUS
<1>2. QED BY <1>1 DEF PushType, SoFar

LEMMA SoFarFails ==
  ASSUME NEW s \in SoFar, NEW fault \in Failing
  PROVE  [s EXCEPT !.error = fault] \in SoFar /\ [s EXCEPT !.error = fault].error = fault
BY DEF SoFar

LEMMA SoFarIs ==
  ASSUME NEW d \in DecoderType, NEW events \in Seq(Bits), NEW x,
         x = [d |-> d, events |-> events, error |-> ""]
  PROVE  x \in SoFar /\ x.error = "" /\ x.d = d /\ x.events = events
BY Zenon DEF SoFar, Failing

\* A decoder that starts again.
LEMMA FreshIs ==
  ASSUME NEW yes \in BOOLEAN, NEW d, d = [E!Fresh EXCEPT !.terminal = yes]
  PROVE  d \in DecoderType /\ d.buffer = <<>> /\ d.lf = 0 /\ d.terminal = yes
<1>1. PICK x : x = E!Fresh
  OBVIOUS
<1>2. PICK none \in Seq(Bits) : none = <<>>
  <2>1. <<>> \in Seq(Bits)
    OBVIOUS
  <2>2. QED BY <2>1, Zenon
<1>3. [buffer |-> none, lf |-> 0, terminal |-> FALSE] \in DecoderType
  BY DEF DecoderType
<1>4. x \in DecoderType
  BY <1>1, <1>2, <1>3, Zenon DEF E!Fresh
<1>5. x.buffer = <<>> /\ x.lf = 0
  BY <1>1 DEF E!Fresh
<1>6. d = [x EXCEPT !.terminal = yes]
  BY <1>1, Zenon
<1>7. d \in DecoderType /\ d.buffer = x.buffer /\ d.lf = x.lf /\ d.terminal = yes
  BY <1>4, <1>6 DEF DecoderType
<1>8. QED BY <1>5, <1>7, Zenon

LEMMA DecodedIs ==
  ASSUME NEW data \in Seq(Bits)
  PROVE  /\ E!Decoded(data).events \in Seq(Bits) /\ E!Decoded(data).error \in Failing
         /\ E!Decoded(data).events = <<>> \/ Len(E!Decoded(data).events) = 1
BY DEF E!Decoded, Failing

LEMMA BitsJoin ==
  ASSUME NEW q \in Seq(Bits), NEW s \in Seq(Bits), NEW t \in Seq(Bits)
  PROVE  q \o (s \o t) = (q \o s) \o t
BY JoinJoin

LEMMA SingleIs ==
  ASSUME NEW q \in Seq(Bits), Len(q) = 1
  PROVE  q[1] \in Bits /\ q = <<q[1]>>
OBVIOUS

\* One event more, or none.
LEMMA EndedIs ==
  ASSUME NEW q \in Seq(Bits), NEW events \in Seq(Bits), ~Ended(q),
         events = <<>> \/ Len(events) = 1
  PROVE  Ended(q \o events) <=> events = <<"T">>
<1>1. CASE events = <<>>
  <2>1. q \o events = q
    BY <1>1, JoinNone
  <2>2. events # <<"T">>
    BY <1>1
  <2>3. QED BY <2>1, <2>2
<1>2. CASE Len(events) = 1
  <2>1. events[1] \in Bits /\ events = <<events[1]>>
    BY <1>2, SingleIs
  <2>2. PICK e \in Bits : events = <<e>>
    BY <2>1, Zenon
  <2>3. q \o events # <<>> /\ (q \o events)[Len(q \o events)] = e
    BY <2>2
  <2>4. QED BY <2>2, <2>3 DEF Ended
<1>3. QED BY <1>1, <1>2

\* A decoder and a reader that start again.
Restarted(d, r) ==
  /\ d.buffer = <<>> /\ d.lf = 0
  /\ r.error = "" /\ r.line = <<>> /\ r.last = <<>> /\ r.data = <<>>
  /\ r.size = 0 /\ r.first = TRUE

LEMMA Nothings ==
  /\ <<>> \o <<>> = <<>> /\ Len(<<>>) = 0 /\ SubSeq(<<>>, 1, 0) = <<>>
  /\ 0 + 1 = 1 /\ 0 <= MaxEvent + 3 /\ ~(0 > 0) /\ 0 <= 0
  /\ "L" \in Bits /\ <<>> \in Seq(Bits)
BY StreamAssumption DEF Bits, E!Bytes

LEMMA SameAgain ==
  ASSUME NEW d, NEW r, Restarted(d, r)
  PROVE  SameBlock(d, <<>>, r)
<1>1. /\ d.buffer = <<>> /\ d.lf = 0
      /\ r.error = "" /\ r.line = <<>> /\ r.last = <<>> /\ r.data = <<>>
      /\ r.size = 0 /\ r.first = TRUE
  BY Zenon DEF Restarted
<1>2. Block(d, <<>>) = <<>>
  BY <1>1, Nothings, Zenon DEF Block
<1>3. E!Between(d) = <<>>
  BY <1>1, Nothings, Zenon DEF E!Between
<1>4. E!Lines(<<>>) = [data |-> <<>>, line |-> <<>>]
  BY Nothings, LinesGrow, Zenon DEF E!NoLines
<1>5. E!DataOf(<<>>) = <<>>
  BY Zenon DEF E!DataOf, E!Stripped
<1>7. QED BY <1>1, <1>2, <1>3, <1>4, <1>5, Nothings, Zenon DEF SameBlock

\* A line feed that completes the block.
LEMMA DispatchStep ==
  ASSUME NEW base \in Seq(Bits), NEW p \in PushType, NEW r \in ReaderType,
         Open(base, p, r), E!Completes(p.s.d, p.piece)
  PROVE  /\ E!Feed(p, "L") \in PushType /\ E!Read(r, "L") \in ReaderType
         /\ ReadAlike(base, E!Feed(p, "L"), E!Read(r, "L"))
<1>1. PICK q, t : q = E!Feed(p, "L") /\ t = E!Read(r, "L")
  OBVIOUS
<1>2. /\ p.s.d \in DecoderType /\ p.s.d.buffer \in Seq(Bits) /\ p.s.events \in Seq(Bits)
      /\ p.piece \in Seq(Bits) /\ p.s.d.lf \in Nat /\ "L" \in Bits
  BY Parts DEF Bits, E!Bytes
<1>3. /\ p.s.error = "" /\ ~p.s.d.terminal
      /\ r.events = base \o p.s.events /\ ~Ended(r.events)
      /\ SameBlock(p.s.d, p.piece, r)
  BY Zenon DEF Open
<1>4. p.s.d.lf > 0 /\ E!Blank(r)
  <2>1. p.s.d.lf > 0
    BY Zenon DEF E!Completes
  <2>2. r.line = E!Between(p.s.d) \o p.piece
    BY <1>3, Zenon DEF SameBlock
  <2>3. <<>> \o <<>> = <<>> /\ <<"C">> \o <<>> = <<"C">> /\ <<>> \o <<"C">> = <<"C">>
    OBVIOUS
  <2>4. r.line = <<>> \/ r.line = <<"C">>
    BY <2>2, <2>3, Zenon DEF E!Completes
  <2>5. QED BY <2>1, <2>4 DEF E!Blank
<1>5. PICK data \in Seq(Bits) : data = r.data \o E!DataOf(E!Stripped(r.last))
  <2>1. PICK x \in Seq(Bits) : x = E!DataOf(E!Stripped(r.last))
    BY ReaderParts, StrippedIs, Zenon
  <2>2. PICK y \in Seq(Bits) : y = r.data
    BY ReaderParts, Zenon
  <2>3. y \o x \in Seq(Bits)
    BY JoinLen, Zenon
  <2>4. QED BY <2>1, <2>2, <2>3, Zenon
<1>6. /\ r.error = "" /\ ~r.first /\ r.end = E!BlockEnd(p.s.d)
      /\ E!Data(SubSeq(p.s.d.buffer, 1, E!BlockEnd(p.s.d))) = data
  <2>1. p.s.d.lf # 0
    BY <1>2, <1>4
  <2>2. QED BY <1>3, <1>4, <1>5, <2>1, Zenon DEF SameBlock
<1>7. ~(r.events # <<>> /\ E!Last(r.events) = "T")
  BY <1>3, Zenon DEF Ended, E!Last
<1>8. PICK e : e = E!Decoded(data)
  OBVIOUS
<1>9. t = IF r.end > MaxEvent THEN [r EXCEPT !.error = "too large"]
          ELSE IF e.error # "" THEN [r EXCEPT !.error = e.error]
          ELSE [E!Reader EXCEPT !.events = r.events \o e.events]
  BY <1>1, <1>4, <1>5, <1>6, <1>7, <1>8, Zenon DEF E!Read
<1>10. q = [s |-> E!Dispatch(p.s), piece |-> <<>>]
  <2>1. E!Last(Append(p.piece, "L")) = "L" /\ E!Front(Append(p.piece, "L")) = p.piece
    BY <1>2, AddNotNone, Zenon
  <2>2. E!Piece(p.s, Append(p.piece, "L")) = E!Dispatch(p.s)
    BY <1>3, <2>1, Zenon DEF E!Piece
  <2>3. QED BY <1>1, <2>2, Zenon DEF E!Feed
<1>11. E!Dispatch(p.s) =
        IF r.end > MaxEvent THEN [p.s EXCEPT !.error = "too large"]
        ELSE IF e.error # "" THEN [p.s EXCEPT !.error = e.error]
        ELSE [d |-> [E!Fresh EXCEPT !.terminal = (e.events = <<"T">>)],
              events |-> p.s.events \o e.events, error |-> ""]
  BY <1>6, <1>8, Zenon DEF E!Dispatch, E!Step
<1>12. /\ e.events \in Seq(Bits) /\ e.error \in Failing
       /\ e.events = <<>> \/ Len(e.events) = 1
  BY <1>8, DecodedIs, Zenon
<1>13. E!IsPrefix(base, r.events)
  BY <1>2, <1>3, PrefixOf, Zenon
<1>14. CASE r.end > MaxEvent \/ e.error # ""
  <2>1. PICK fault \in Failing :
          /\ fault # "" /\ t = [r EXCEPT !.error = fault]
          /\ q = [s |-> [p.s EXCEPT !.error = fault], piece |-> <<>>]
    <3>1. CASE r.end > MaxEvent
      <4>1. "too large" \in Failing
        BY DEF Failing
      <4>2. QED BY <1>9, <1>10, <1>11, <3>1, <4>1, Zenon
    <3>2. CASE ~(r.end > MaxEvent)
      <4>1. e.error # ""
        BY <1>14, <3>2, Zenon
      <4>2. QED BY <1>9, <1>10, <1>11, <1>12, <3>2, <4>1, Zenon
    <3>3. QED BY <3>1, <3>2, Zenon
  <2>2. t \in ReaderType /\ t.error = fault /\ t.events = r.events
    BY <2>1, ReaderFails, Zenon DEF ReaderType
  <2>3. q \in PushType /\ q.s.error = fault
    <3>1. PICK x : x = [p.s EXCEPT !.error = fault]
      OBVIOUS
    <3>2. p.s \in SoFar
      BY Parts, Zenon DEF SoFar
    <3>3. x \in SoFar /\ x.error = fault
      BY <3>1, <3>2, SoFarFails, Zenon
    <3>4. q = [s |-> x, piece |-> <<>>]
      BY <2>1, <3>1, Zenon
    <3>5. QED BY <3>3, <3>4, PushIs, Zenon
  <2>4. Wrong(base, q, t)
    BY <1>13, <2>1, <2>2, <2>3, Zenon DEF Wrong
  <2>5. QED BY <1>1, <2>2, <2>3, <2>4, Zenon DEF ReadAlike
<1>15. CASE ~(r.end > MaxEvent \/ e.error # "")
  <2>1. PICK d : d = [E!Fresh EXCEPT !.terminal = (e.events = <<"T">>)]
    OBVIOUS
  <2>2. /\ d \in DecoderType /\ d.buffer = <<>> /\ d.lf = 0
        /\ d.terminal = (e.events = <<"T">>)
    <3>1. (e.events = <<"T">>) \in BOOLEAN
      OBVIOUS
    <3>2. QED BY <2>1, <3>1, FreshIs, Zenon
  <2>3. PICK x \in Seq(Bits) : x = e.events
    BY <1>12, Zenon
  <2>4. PICK y \in Seq(Bits) : y = p.s.events
    BY <1>2, Zenon
  <2>5. y \o x \in Seq(Bits) /\ base \o (y \o x) = (base \o y) \o x /\ base \o y \in Seq(Bits)
        /\ (base \o y) \o x \in Seq(Bits)
    <3>1. y \o x \in Seq(Bits) /\ base \o y \in Seq(Bits)
      BY JoinLen, Zenon
    <3>2. (base \o y) \o x \in Seq(Bits)
      BY <3>1, JoinLen, Zenon
    <3>3. base \o (y \o x) = (base \o y) \o x
      BY BitsJoin, Zenon
    <3>4. QED BY <3>1, <3>2, <3>3
  <2>6. q = [s |-> [d |-> d, events |-> y \o x, error |-> ""], piece |-> <<>>]
    BY <1>10, <1>11, <1>15, <2>1, <2>3, <2>4, Zenon
  <2>7. /\ q \in PushType /\ q.s.error = "" /\ q.s.d = d /\ q.s.events = y \o x
        /\ q.piece = <<>>
    <3>1. PICK s : s = [d |-> d, events |-> y \o x, error |-> ""]
      BY Zenon
    <3>2. s \in SoFar /\ s.error = "" /\ s.d = d /\ s.events = y \o x
      BY <2>2, <2>5, <3>1, SoFarIs, Zenon
    <3>3. q \in PushType /\ q.s = s /\ q.piece = <<>>
      BY <2>6, <3>1, <3>2, PushIs, Zenon
    <3>4. QED BY <3>2, <3>3, Zenon
  <2>8. t = ReadAgain((base \o y) \o x)
    BY <1>3, <1>9, <1>15, <2>3, <2>4, Zenon DEF ReadAgain
  <2>9. /\ t \in ReaderType /\ t.events = (base \o y) \o x /\ t.error = "" /\ t.line = <<>>
        /\ t.last = <<>> /\ t.data = <<>> /\ t.size = 0 /\ t.first = TRUE
    <3>1. AtStart(ReadAgain((base \o y) \o x), (base \o y) \o x)
      BY <2>5, ReaderAgain, Zenon
    <3>2. QED BY <2>8, <3>1, Zenon DEF AtStart
  <2>10. Ended(t.events) <=> x = <<"T">>
    <3>1. PICK z \in Seq(Bits) : z = base \o y
      BY <2>5, Zenon
    <3>2. ~Ended(z) /\ (x = <<>> \/ Len(x) = 1)
      BY <1>3, <1>12, <2>3, <2>4, <3>1, Zenon
    <3>3. Ended(z \o x) <=> x = <<"T">>
      BY <3>2, EndedIs
    <3>4. QED BY <2>9, <3>1, <3>3, Zenon
  <2>11. t.events = base \o q.s.events
    BY <2>5, <2>7, <2>9, Zenon
  <2>12. CASE x = <<"T">>
    <3>1. Over(base, q, t)
      BY <2>2, <2>3, <2>7, <2>9, <2>10, <2>11, <2>12, Zenon DEF Over
    <3>2. QED BY <1>1, <2>7, <2>9, <3>1, Zenon DEF ReadAlike
  <2>13. CASE x # <<"T">>
    <3>1. SameBlock(d, <<>>, t)
      BY <2>2, <2>9, SameAgain, Zenon DEF Restarted
    <3>2. Open(base, q, t)
      BY <2>2, <2>3, <2>7, <2>9, <2>10, <2>11, <2>13, <3>1, Zenon DEF Open
    <3>3. QED BY <1>1, <2>7, <2>9, <3>2, Zenon DEF ReadAlike
  <2>14. QED BY <2>12, <2>13, Zenon
<1>16. QED BY <1>14, <1>15, Zenon

-----------------------------------------------------------------------------
(* Lines, blocks and their ends.                                           *)

LEMMA JoinNothing ==
  ASSUME NEW q \in Seq(Bits), NEW s \in Seq(Bits), q \o s = <<>>
  PROVE  q = <<>> /\ s = <<>>
<1>1. PICK m \in Nat : m = Len(q)
  OBVIOUS
<1>2. PICK n \in Nat : n = Len(s)
  OBVIOUS
<1>3. m + n = 0
  <2>1. Len(q \o s) = m + n
    BY <1>1, <1>2, JoinLen
  <2>2. Len(q \o s) = 0
    OBVIOUS
  <2>3. QED BY <2>1, <2>2
<1>4. m = 0 /\ n = 0
  BY <1>3
<1>5. QED BY <1>1, <1>2, <1>4

LEMMA BitsNone ==
  ASSUME NEW q \in Seq(Bits)
  PROVE  q \o <<>> = q /\ <<>> \o q = q
BY JoinNone

LEMMA NoneIs ==
  ASSUME NEW q \in Seq(Bits), Len(q) = 0
  PROVE  q = <<>>
OBVIOUS

LEMMA JoinSingle ==
  ASSUME NEW q \in Seq(Bits), NEW s \in Seq(Bits), NEW t, t = q \o s, Len(t) = 1
  PROVE  (q = <<>> /\ s = t) \/ (q = t /\ s = <<>>)
<1>1. PICK m \in Nat : m = Len(q)
  OBVIOUS
<1>2. PICK n \in Nat : n = Len(s)
  OBVIOUS
<1>3. m + n = 1
  BY <1>1, <1>2, JoinLen
<1>4. m = 0 \/ n = 0
  BY <1>3
<1>5. CASE m = 0
  <2>1. q = <<>>
    BY <1>1, <1>5, NoneIs, Zenon
  <2>2. <<>> \o s = s
    BY BitsNone, Zenon
  <2>3. QED BY <2>1, <2>2, Zenon
<1>6. CASE n = 0
  <2>1. s = <<>>
    BY <1>2, <1>6, NoneIs, Zenon
  <2>2. q \o <<>> = q
    BY BitsNone, Zenon
  <2>3. QED BY <2>1, <2>2, Zenon
<1>7. QED BY <1>4, <1>5, <1>6, Zenon

\* A blank line completes the block for the push as for the reader.
LEMMA BlankCompletes ==
  ASSUME NEW base, NEW p \in PushType, NEW r \in ReaderType, Open(base, p, r),
         ~E!Completes(p.s.d, p.piece)
  PROVE  ~(E!Blank(r) /\ ~r.first)
<1>1. /\ SameBlock(p.s.d, p.piece, r)
  BY Zenon DEF Open
<1>2. /\ r.line = E!Between(p.s.d) \o p.piece /\ p.s.d.lf <= Len(p.s.d.buffer)
      /\ (r.first <=> p.s.d.lf = 0)
  BY <1>1, Zenon DEF SameBlock
<1>3. SUFFICES ASSUME E!Blank(r), ~r.first PROVE FALSE
  OBVIOUS
<1>4. PICK x \in Seq(Bits) : x = E!Between(p.s.d)
  BY <1>2, Parts, BetweenIs, Zenon
<1>5. PICK y \in Seq(Bits) : y = p.piece
  BY Parts, Zenon
<1>6. p.s.d.lf > 0
  <2>1. p.s.d.lf # 0
    BY <1>2, <1>3, Zenon
  <2>2. p.s.d.lf \in Nat
    BY Parts
  <2>3. QED BY <2>1, <2>2
<1>7. x \o y = <<>> \/ x \o y = <<"C">>
  BY <1>2, <1>3, <1>4, <1>5, Zenon DEF E!Blank
<1>8. \/ x = <<>> /\ y = <<>>
      \/ x = <<>> /\ y = <<"C">>
      \/ x = <<"C">> /\ y = <<>>
  <2>1. CASE x \o y = <<>>
    BY <2>1, JoinNothing, Zenon
  <2>2. CASE x \o y = <<"C">>
    <3>1. PICK z : z = x \o y
      OBVIOUS
    <3>4. Len(<<"C">>) = 1
      OBVIOUS
    <3>2. (x = <<>> /\ y = z) \/ (x = z /\ y = <<>>)
      BY <2>2, <3>1, <3>4, JoinSingle, Zenon
    <3>3. QED BY <2>2, <3>1, <3>2, Zenon
  <2>3. QED BY <1>7, <2>1, <2>2, Zenon
<1>9. QED BY <1>4, <1>5, <1>6, <1>8, Zenon DEF E!Completes

LEMMA BetweenItems ==
  ASSUME NEW x \in Seq(Bits), NEW l \in Nat, l <= Len(x), NEW y, y = SubSeq(x, l + 1, Len(x))
  PROVE  Len(y) = Len(x) - l /\ \A i \in 1..Len(y) : y[i] = x[l + i]
<1>1. PICK m \in Nat : m = l + 1
  OBVIOUS
<1>2. PICK n \in Nat : n = Len(x)
  OBVIOUS
<1>3. /\ \A i \in m..n : x[i] \in Bits
      /\ m \in Int /\ n \in Int
  BY <1>1, <1>2
<1>4. y = SubSeq(x, m, n)
  BY <1>1, <1>2
<1>5. /\ Len(SubSeq(x, m, n)) = IF m <= n THEN n - m + 1 ELSE 0
      /\ \A i \in 1..(n - m + 1) : SubSeq(x, m, n)[i] = x[m + i - 1]
  BY <1>3, SubSeqProperties
<1>6. Len(y) = n - l
  BY <1>1, <1>2, <1>4, <1>5
<1>7. ASSUME NEW i \in 1..Len(y) PROVE y[i] = x[l + i]
  <2>1. i \in 1..(n - m + 1) /\ m + i - 1 = l + i
    BY <1>1, <1>2, <1>6
  <2>2. QED BY <1>4, <1>5, <2>1
<1>8. QED BY <1>2, <1>6, <1>7

\* A line that ends in a carriage return.
Returns(q) == Len(q) > 0 /\ q[Len(q)] = "C"

LEMMA LastOfJoin ==
  ASSUME NEW q \in Seq(Bits), NEW s \in Seq(Bits), Len(s) > 0
  PROVE  Returns(q \o s) <=> s[Len(s)] = "C"
<1>1. PICK n \in 1..Len(s) : n = Len(s)
  OBVIOUS
<1>2. Len(q \o s) = Len(q) + n /\ (q \o s)[Len(q) + n] = s[n]
  BY <1>1, JoinIs
<1>3. Len(q) + n > 0
  BY <1>1
<1>4. QED BY <1>1, <1>2, <1>3, Zenon DEF Returns

LEMMA EndsAlike ==
  ASSUME NEW x \in Seq(Bits), NEW y \in Seq(Bits), NEW p \in Seq(Bits), NEW l \in Nat,
         l <= Len(x), l > 0 => x[l] = "L", Len(y) = Len(x) - l,
         \A i \in 1..Len(y) : y[i] = x[l + i]
  PROVE  Returns(x \o p) <=> Returns(y \o p)
<1>1. CASE Len(p) > 0
  BY <1>1, LastOfJoin, Zenon
<1>2. CASE ~(Len(p) > 0)
  <2>1. p = <<>>
    BY <1>2
  <2>2. x \o p = x /\ y \o p = y
    BY <2>1, BitsNone, Zenon
  <2>3. CASE Len(y) > 0
    <3>1. Len(y) \in 1..Len(y) /\ l + Len(y) = Len(x) /\ Len(x) > 0
      BY <2>3
    <3>2. y[Len(y)] = x[Len(x)]
      BY <3>1
    <3>3. QED BY <2>2, <2>3, <3>1, <3>2 DEF Returns
  <2>4. CASE ~(Len(y) > 0)
    <3>1. Len(x) = l
      BY <2>4
    <3>2. "L" # "C"
      OBVIOUS
    <3>3. QED BY <2>2, <2>4, <3>1, <3>2 DEF Returns
  <2>5. QED BY <2>3, <2>4
<1>3. QED BY <1>1, <1>2

\* The block ends as its last line does.
LEMMA LastAlike ==
  ASSUME NEW d \in DecoderType, NEW p \in Seq(Bits), NEW q \in Seq(Bits),
         NEW line \in Seq(Bits), q = d.buffer \o p, line = E!Between(d) \o p,
         d.lf <= Len(d.buffer), d.lf > 0 => d.buffer[d.lf] = "L"
  PROVE  Returns(q) <=> Returns(line)
<1>1. PICK x \in Seq(Bits) : x = d.buffer
  <2>1. d.buffer \in Seq(Bits)
    BY DEF DecoderType
  <2>2. QED BY <2>1, Zenon
<1>2. PICK l \in Nat : l = d.lf
  <2>1. d.lf \in Nat
    BY DEF DecoderType
  <2>2. QED BY <2>1, Zenon
<1>3. PICK y \in Seq(Bits) : y = E!Between(d)
  BY BetweenIs, Zenon
<1>4. l <= Len(x) /\ (l > 0 => x[l] = "L") /\ q = x \o p /\ line = y \o p
  BY <1>1, <1>2, <1>3, Zenon
<1>5. Len(y) = Len(x) - l /\ \A i \in 1..Len(y) : y[i] = x[l + i]
  <2>1. y = SubSeq(x, l + 1, Len(x))
    BY <1>1, <1>2, <1>3, Zenon DEF E!Between
  <2>2. QED BY <1>4, <2>1, BetweenItems
<1>6. Returns(x \o p) <=> Returns(y \o p)
  BY <1>4, <1>5, EndsAlike
<1>7. QED BY <1>4, <1>6, Zenon

LEMMA LinesFeed ==
  ASSUME NEW q \in Seq(Bits), NEW data, NEW line, LinesAre(q, data, line)
  PROVE  LinesAre(Append(q, "L"), data \o E!DataOf(line), <<>>)
BY Nothings, LinesByte, Zenon

LEMMA AllButLast ==
  ASSUME NEW q \in Seq(Bits), NEW b \in Bits, NEW n \in Nat, n = Len(q)
  PROVE  SubSeq(Append(q, b), 1, n) = q
<1>1. E!Front(Append(q, b)) = q
  BY AddNotNone, Zenon
<1>2. Len(Append(q, b)) - 1 = n
  BY AddLen
<1>3. QED BY <1>1, <1>2, Zenon DEF E!Front

LEMMA AllButTwo ==
  ASSUME NEW q \in Seq(Bits), NEW b \in Bits, NEW n \in Nat, n + 1 = Len(q)
  PROVE  SubSeq(Append(q, b), 1, n) = E!Front(q)
<1>1. /\ E!Front(q) \in Seq(Bits) /\ Len(E!Front(q)) = n
      /\ \A i \in 1..n : E!Front(q)[i] = q[i]
  <2>1. E!Front(q) = M!Front(q)
    BY Zenon DEF E!Front, M!Front
  <2>2. Len(q) > 0 /\ Len(q) - 1 = n
    OBVIOUS
  <2>3. QED BY <2>1, <2>2, LastDropped
<1>2. PICK s \in Seq(Bits) : s = Append(q, b)
  BY AddLen, Zenon
<1>3. /\ \A i \in 1..n : s[i] = q[i] /\ s[i] \in Bits
  BY <1>2
<1>4. /\ SubSeq(s, 1, n) \in Seq(Bits) /\ Len(SubSeq(s, 1, n)) = n
      /\ \A i \in 1..n : SubSeq(s, 1, n)[i] = s[i]
  <2>1. 1 \in Int /\ n \in Int /\ \A i \in 1..n : s[i] \in Bits
    BY <1>3
  <2>2. /\ SubSeq(s, 1, n) \in Seq(Bits)
        /\ Len(SubSeq(s, 1, n)) = IF 1 <= n THEN n - 1 + 1 ELSE 0
        /\ \A i \in 1..(n - 1 + 1) : SubSeq(s, 1, n)[i] = s[1 + i - 1]
    BY <2>1, SubSeqProperties
  <2>3. QED BY <2>2
<1>5. SubSeq(s, 1, n) = E!Front(q)
  BY <1>1, <1>3, <1>4, SeqEqual
<1>6. QED BY <1>2, <1>5, Zenon

\* The data of a block before its last carriage return.
LEMMA DataBefore ==
  ASSUME NEW q \in Seq(Bits), NEW data, NEW line \in Seq(Bits), Returns(q), Returns(line),
         LinesAre(q, data, line)
  PROVE  E!Data(E!Front(q)) = data \o E!DataOf(E!Stripped(line))
<1>1. PICK s \in Seq(Bits) : s = E!Front(q)
  BY FrontLast, Zenon DEF Returns
<1>2. q = Append(s, "C") /\ "C" \in Bits /\ "C" # "L"
  BY <1>1, FrontLast DEF Returns, Bits, E!Bytes
<1>3. PICK x : x = E!Lines(s)
  OBVIOUS
<1>4. x \in LinesType
  BY <1>3, LinesTyped, Zenon
<1>5. PICK y \in Seq(Bits) : y = x.line
  BY <1>4 DEF LinesType
<1>6. PICK z : z = x.data
  OBVIOUS
<1>7. x = [data |-> z, line |-> y]
  BY <1>4, <1>5, <1>6 DEF LinesType
<1>8. LinesAre(q, z, Append(y, "C"))
  <2>1. LinesAre(s, z, y)
    BY <1>3, <1>7, Zenon DEF LinesAre
  <2>2. LinesAre(Append(s, "C"), z, Append(y, "C"))
    BY <1>2, <2>1, LinesByte, Zenon
  <2>3. QED BY <1>2, <2>2, Zenon
<1>9. data = z /\ line = Append(y, "C")
  <2>1. PICK t : t = Append(y, "C")
    OBVIOUS
  <2>2. [data |-> data, line |-> line] = [data |-> z, line |-> t]
    BY <1>8, <2>1, Zenon DEF LinesAre
  <2>3. data = z /\ line = t
    BY <2>2
  <2>4. QED BY <2>1, <2>3
<1>10. E!Stripped(line) = y
  <2>1. E!Front(line) = y
    BY <1>2, <1>9, AddNotNone, Zenon
  <2>2. E!Stripped(line) = E!Front(line)
    BY StrippedIs, Zenon DEF Returns
  <2>3. QED BY <2>1, <2>2
<1>11. QED BY <1>1, <1>3, <1>5, <1>6, <1>9, <1>10, Zenon DEF E!Data

\* The lines after a line feed, and where the block would end.
Turned(r, t) ==
  /\ t.line = <<>> /\ t.last = r.line /\ t.data = r.data \o E!DataOf(r.last)
  /\ t.size = r.size + 1 /\ t.first = FALSE /\ t.error = ""
  /\ t.end = r.size - Len(r.line) + Len(E!Stripped(r.line))

EndsLine(q, f) == f.buffer = Append(q, "L") /\ f.lf = Len(q) + 1

Added(d, p, f) == EndsLine(Block(d, p), f)

\* Where the next blank line would end the block.
EndsAt(q, line, f) ==
  /\ E!BlockEnd(f) = Len(q) - Len(line) + Len(E!Stripped(line))
  /\ Returns(q) => E!BlockEnd(f) + 1 = Len(q) /\ E!BlockEnd(f) \in Nat
  /\ ~Returns(q) => E!BlockEnd(f) = Len(q)

LEMMA EndIs ==
  ASSUME NEW q \in Seq(Bits), NEW line \in Seq(Bits), Returns(q) <=> Returns(line),
         NEW f, EndsLine(q, f)
  PROVE  EndsAt(q, line, f)
<1>1. PICK m \in Nat : m = Len(q)
  OBVIOUS
<1>2. PICK n \in Nat : n = Len(line)
  OBVIOUS
<1>3. PICK buffer : buffer = f.buffer
  OBVIOUS
<1>4. \A i \in 1..m : buffer[i] = q[i]
  BY <1>1, <1>3 DEF EndsLine
<1>5. PICK l : l = f.lf
  OBVIOUS
<1>6. l = m + 1 /\ (l > 1 <=> m > 0) /\ l - 1 = m /\ l - 2 = m - 1
  BY <1>1, <1>5 DEF EndsLine
<1>7. l > 1 /\ buffer[l - 1] = "C" <=> Returns(q)
  <2>1. m > 0 => buffer[m] = q[m]
    BY <1>4
  <2>2. QED BY <1>1, <1>6, <2>1, Zenon DEF Returns
<1>8. E!BlockEnd(f) = IF Returns(q) THEN m - 1 ELSE m
  BY <1>3, <1>5, <1>6, <1>7, Zenon DEF E!BlockEnd
<1>9. PICK k : k = Len(E!Stripped(line))
  OBVIOUS
<1>10. IF Returns(line) THEN n > 0 /\ k = n - 1 ELSE k = n
  BY <1>2, <1>9, StrippedIs DEF Returns
<1>11. Returns(q) => m > 0
  BY <1>1 DEF Returns
<1>12. PICK e : e = E!BlockEnd(f)
  OBVIOUS
<1>13. /\ e = m - n + k
       /\ Returns(q) => e + 1 = m /\ e \in Nat
       /\ ~Returns(q) => e = m
  BY <1>8, <1>10, <1>11, <1>12
<1>14. QED BY <1>1, <1>2, <1>9, <1>12, <1>13, Zenon DEF EndsAt

LEMMA SameLine ==
  ASSUME NEW d \in DecoderType, NEW p \in Seq(Bits), NEW r \in ReaderType,
         SameBlock(d, p, r), r.size # MaxEvent + 3,
         NEW t, Turned(r, t), NEW f, Added(d, p, f)
  PROVE  SameBlock(f, <<>>, t)
<1>1. /\ r.error = "" /\ d.lf <= Len(d.buffer)
      /\ r.size = Len(Block(d, p)) /\ r.size <= MaxEvent + 3
      /\ r.line = E!Between(d) \o p
      /\ E!Lines(Block(d, p)) = [data |-> r.data \o E!DataOf(r.last), line |-> r.line]
      /\ d.lf > 0 => d.buffer[d.lf] = "L"
  BY Zenon DEF SameBlock
<1>2. d.buffer \in Seq(Bits) /\ E!Between(d) \in Seq(Bits) /\ d.lf \in Nat
  BY <1>1, BetweenIs, Zenon DEF DecoderType
<1>3. PICK q \in Seq(Bits) : q = Block(d, p)
  <2>1. PICK x \in Seq(Bits) : x = d.buffer
    BY <1>2, Zenon
  <2>2. x \o p \in Seq(Bits)
    BY JoinLen, Zenon
  <2>3. QED BY <2>1, <2>2, Zenon DEF Block
<1>4. PICK line \in Seq(Bits) : line = r.line
  BY ReaderParts, Zenon
<1>5. Returns(q) <=> Returns(line)
  BY <1>1, <1>3, <1>4, LastAlike, Zenon DEF Block
<1>6. PICK data : data = r.data \o E!DataOf(r.last)
  OBVIOUS
<1>7. LinesAre(q, data, line)
  BY <1>1, <1>3, <1>4, <1>6, Zenon DEF LinesAre
<1>8. "L" \in Bits
  BY DEF Bits, E!Bytes
<1>9. E!Lines(Append(q, "L")) = [data |-> data \o E!DataOf(line), line |-> <<>>]
  BY <1>7, LinesFeed, Zenon DEF LinesAre
<1>10. /\ t.line = <<>> /\ t.last = line /\ t.data = data
       /\ t.size = Len(q) + 1 /\ t.first = FALSE /\ t.error = ""
       /\ t.end = Len(q) - Len(line) + Len(E!Stripped(line))
  BY <1>1, <1>3, <1>4, <1>6, Zenon DEF Turned
<1>11. f.buffer = Append(q, "L") /\ f.lf = Len(q) + 1
  BY <1>3, Zenon DEF Added, EndsLine
<1>12. PICK s \in Seq(Bits) : s = Append(q, "L")
  BY <1>8, AddLen, Zenon
<1>13. Len(s) = Len(q) + 1 /\ s[Len(q) + 1] = "L"
  BY <1>8, <1>12, AddLen, AddLast, Zenon
<1>14. Block(f, <<>>) = s
  BY <1>11, <1>12, BitsNone, Zenon DEF Block
<1>15. E!Between(f) \o <<>> = <<>>
  <2>1. PICK n \in Nat : n = Len(q) + 1
    OBVIOUS
  <2>2. SubSeq(s, n + 1, n) = <<>>
    <3>1. n < n + 1 /\ n \in Int /\ n + 1 \in Int
      OBVIOUS
    <3>2. QED BY <3>1, SubSeqEmpty, Zenon
  <2>3. E!Between(f) = <<>>
    BY <1>11, <1>12, <1>13, <2>1, <2>2, Zenon DEF E!Between
  <2>4. QED BY <2>3, Nothings, Zenon
<1>16. Len(q) + 1 <= MaxEvent + 3 /\ Len(q) + 1 <= Len(q) + 1 /\ Len(q) + 1 # 0
  <2>1. PICK n \in Nat : n = Len(q)
    OBVIOUS
  <2>2. n <= MaxEvent + 3 /\ n # MaxEvent + 3 /\ MaxEvent \in Nat
    BY <1>1, <1>3, <2>1, StreamAssumption, Zenon
  <2>3. n + 1 <= MaxEvent + 3 /\ n + 1 <= n + 1 /\ n + 1 # 0
    BY <2>2
  <2>4. QED BY <2>1, <2>3, Zenon
<1>17. /\ t.end = E!BlockEnd(f)
       /\ E!Data(SubSeq(s, 1, E!BlockEnd(f))) = data \o E!DataOf(E!Stripped(line))
  <2>1. PICK e : e = E!BlockEnd(f)
    OBVIOUS
  <2>2. /\ e = Len(q) - Len(line) + Len(E!Stripped(line))
        /\ Returns(q) => e + 1 = Len(q) /\ e \in Nat
        /\ ~Returns(q) => e = Len(q)
    <3>1. EndsLine(q, f)
      BY <1>11, Zenon DEF EndsLine
    <3>2. EndsAt(q, line, f)
      BY <1>5, <3>1, EndIs, Zenon
    <3>3. QED BY <2>1, <3>2, Zenon DEF EndsAt
  <2>3. CASE Returns(q)
    <3>1. SubSeq(s, 1, e) = E!Front(q)
      BY <1>8, <1>12, <2>2, <2>3, AllButTwo, Zenon
    <3>2. E!Data(E!Front(q)) = data \o E!DataOf(E!Stripped(line))
      BY <1>5, <1>7, <2>3, DataBefore, Zenon
    <3>3. QED BY <1>10, <2>1, <2>2, <3>1, <3>2, Zenon
  <2>4. CASE ~Returns(q)
    <3>1. SubSeq(s, 1, e) = q
      <4>1. e \in Nat
        BY <2>2, <2>4
      <4>2. QED BY <1>8, <1>12, <2>2, <2>4, <4>1, AllButLast, Zenon
    <3>2. E!Stripped(line) = line
      BY <1>5, <2>4, StrippedIs, Zenon DEF Returns
    <3>3. E!Data(q) = data \o E!DataOf(line)
      <4>1. PICK x : x = E!Lines(q)
        OBVIOUS
      <4>2. x = [data |-> data, line |-> line]
        BY <1>7, <4>1, Zenon DEF LinesAre
      <4>3. x.data = data /\ x.line = line
        BY <4>2
      <4>4. QED BY <4>1, <4>3, Zenon DEF E!Data
    <3>4. QED BY <1>10, <2>1, <2>2, <3>1, <3>2, <3>3, Zenon
  <2>5. QED BY <2>3, <2>4
<1>18. QED
  BY <1>9, <1>10, <1>11, <1>12, <1>13, <1>14, <1>15, <1>16, <1>17, Zenon DEF SameBlock

-----------------------------------------------------------------------------
(* A line feed, and a piece that is left.                                  *)

Holding(d, buffer, l) == [d EXCEPT !.buffer = buffer, !.lf = l]

Holds(f, d, buffer, l) ==
  /\ f \in DecoderType /\ f.buffer = buffer /\ f.lf = l /\ f.terminal = d.terminal

LEMMA DecoderSet ==
  ASSUME NEW d \in DecoderType, NEW buffer \in Seq(Bits), NEW l \in Nat
  PROVE  Holds(Holding(d, buffer, l), d, buffer, l)
BY DEF DecoderType, Holding, Holds

LEMMA SoFarSet ==
  ASSUME NEW s \in SoFar, NEW f \in DecoderType, NEW x, x = [s EXCEPT !.d = f]
  PROVE  x \in SoFar /\ x.d = f /\ x.events = s.events /\ x.error = s.error
BY DEF SoFar

SetTwo(s, buffer, l) == [s EXCEPT !.d.buffer = buffer, !.d.lf = l]

LEMMA TwoSet ==
  ASSUME NEW s \in SoFar, NEW buffer, NEW l
  PROVE  SetTwo(s, buffer, l) = [s EXCEPT !.d = Holding(s.d, buffer, l)]
BY DEF SoFar, DecoderType, Holding, SetTwo

Fits(s, q) == Len(s.d.buffer) + Len(q) <= MaxEvent + 3

\* The decoder has taken the piece q.
Joined(s, q, x) ==
  /\ x \in SoFar /\ x.events = s.events /\ x.error = s.error
  /\ x.d \in DecoderType /\ x.d.terminal = s.d.terminal
  /\ x.d.buffer = s.d.buffer \o q
  /\ x.d.lf = IF E!Last(q) = "L" THEN Len(s.d.buffer) + Len(q) ELSE s.d.lf

LEMMA ExtendIs ==
  ASSUME NEW s \in SoFar, NEW q \in Seq(Bits), NEW x, x = E!Extend(s, q), Fits(s, q)
  PROVE  Joined(s, q, x)
<1>1. PICK d \in DecoderType : d = s.d
  BY DEF SoFar
<1>2. d.buffer \in Seq(Bits) /\ d.lf \in Nat
  BY DEF DecoderType
<1>3. PICK buffer \in Seq(Bits) : buffer = d.buffer \o q
  <2>1. PICK y \in Seq(Bits) : y = d.buffer
    BY <1>2, Zenon
  <2>2. y \o q \in Seq(Bits)
    BY JoinLen, Zenon
  <2>3. QED BY <2>1, <2>2, Zenon
<1>4. PICK l \in Nat : l = IF E!Last(q) = "L" THEN Len(d.buffer) + Len(q) ELSE d.lf
  <2>1. Len(d.buffer) + Len(q) \in Nat
    BY <1>2
  <2>2. QED BY <1>2, <2>1
<1>5. ~(Len(d.buffer) + Len(q) > MaxEvent + 3)
  <2>1. PICK n \in Nat : n = Len(d.buffer) + Len(q)
    BY <1>2
  <2>2. n <= MaxEvent + 3 /\ MaxEvent \in Nat
    BY <1>1, <2>1, StreamAssumption, Zenon DEF Fits
  <2>3. ~(n > MaxEvent + 3)
    BY <2>2
  <2>4. QED BY <2>1, <2>3, Zenon
<1>6. x = [s EXCEPT !.d.buffer = buffer, !.d.lf = l]
  BY <1>1, <1>3, <1>4, <1>5, Zenon DEF E!Extend
<1>7. PICK f : f = Holding(d, buffer, l)
  OBVIOUS
<1>8. f \in DecoderType /\ f.buffer = buffer /\ f.lf = l /\ f.terminal = d.terminal
  <2>1. Holds(Holding(d, buffer, l), d, buffer, l)
    BY DecoderSet, Zenon
  <2>2. QED BY <1>7, <2>1, Zenon DEF Holds
<1>9. x = [s EXCEPT !.d = f]
  <2>1. x = SetTwo(s, buffer, l)
    BY <1>6, Zenon DEF SetTwo
  <2>2. PICK y : y = [s EXCEPT !.d = Holding(s.d, buffer, l)]
    OBVIOUS
  <2>3. x = y
    BY <2>1, <2>2, TwoSet, Zenon
  <2>4. Holding(s.d, buffer, l) = f
    BY <1>1, <1>7, Zenon
  <2>5. QED BY <2>2, <2>3, <2>4, Zenon
<1>10. x \in SoFar /\ x.d = f /\ x.events = s.events /\ x.error = s.error
  BY <1>8, <1>9, SoFarSet
<1>11. QED BY <1>1, <1>3, <1>4, <1>8, <1>10, Zenon DEF Joined

LEMMA LenIs ==
  ASSUME NEW q \in Seq(Bits)
  PROVE  Len(q) \in Nat
OBVIOUS

TurnedTo(r, data, last, n, m) ==
  [r EXCEPT !.data = data, !.last = last, !.line = <<>>, !.size = n,
            !.first = FALSE, !.end = m]

LEMMA SevenSet ==
  ASSUME NEW r \in ReaderType, NEW data, NEW last, NEW n, NEW m, NEW t,
         t = TurnedTo(r, data, last, n, m)
  PROVE  /\ t.data = data /\ t.last = last /\ t.line = <<>> /\ t.size = n /\ ~t.first
         /\ t.end = m /\ t.events = r.events /\ t.error = r.error
BY DEF ReaderType, TurnedTo

Turning(r) ==
  [r EXCEPT !.data = @ \o E!DataOf(r.last), !.last = r.line, !.line = <<>>,
            !.size = @ + 1, !.first = FALSE,
            !.end = r.size - Len(r.line) + Len(E!Stripped(r.line))]

Sound(r) == r.error = ""

LEMMA ReadsLine ==
  ASSUME NEW r \in ReaderType, NEW t, t = Turning(r), Sound(r)
  PROVE  t \in ReaderType /\ t.events = r.events /\ Turned(r, t)
<1>1. PICK data \in Seq(Bits) : data = r.data \o E!DataOf(r.last)
  <2>1. PICK x \in Seq(Bits) : x = r.data
    BY ReaderParts, Zenon
  <2>2. PICK y \in Seq(Bits) : y = E!DataOf(r.last)
    BY ReaderParts, StrippedIs, Zenon
  <2>3. x \o y \in Seq(Bits)
    BY JoinLen, Zenon
  <2>4. QED BY <2>1, <2>2, <2>3, Zenon
<1>2. PICK n \in Nat : n = r.size + 1
  <2>1. r.size \in Nat
    BY ReaderParts, Zenon
  <2>3. r.size + 1 \in Nat
    BY <2>1
  <2>2. QED BY <2>3, Zenon
<1>3. PICK m \in Int : m = r.size - Len(r.line) + Len(E!Stripped(r.line))
  <2>1. r.size \in Nat /\ r.line \in Seq(Bits) /\ E!Stripped(r.line) \in Seq(Bits)
    BY ReaderParts, StrippedIs, Zenon
  <2>2. Len(r.line) \in Nat /\ Len(E!Stripped(r.line)) \in Nat
    BY <2>1, LenIs, Zenon
  <2>3. PICK i \in Nat, j \in Nat, k \in Nat :
          i = Len(r.line) /\ j = Len(E!Stripped(r.line)) /\ k = r.size
    BY <2>1, <2>2, Zenon
  <2>4. k - i + j \in Int
    OBVIOUS
  <2>5. QED BY <2>3, <2>4, Zenon
<1>4. PICK last \in Seq(Bits) : last = r.line
  BY ReaderParts, Zenon
<1>5. t = TurnedTo(r, data, last, n, m)
  <2>1. /\ data = r.data \o E!DataOf(r.last) /\ last = r.line /\ n = r.size + 1
        /\ m = r.size - Len(r.line) + Len(E!Stripped(r.line))
    BY <1>1, <1>2, <1>3, <1>4, Zenon
  <2>2. QED BY <2>1 DEF Turning, TurnedTo
<1>6. t \in ReaderType
  <2>1. TurnedTo(r, data, last, n, m) \in ReaderType
    BY ReaderTurns, Zenon DEF TurnedTo
  <2>2. QED BY <1>5, <2>1, Zenon
<1>7. /\ t.data = data /\ t.last = last /\ t.line = <<>> /\ t.size = n /\ ~t.first
      /\ t.end = m /\ t.events = r.events /\ t.error = r.error
  <2>1. ASSUME NEW x, x = TurnedTo(r, data, last, n, m)
        PROVE  /\ x.data = data /\ x.last = last /\ x.line = <<>> /\ x.size = n /\ ~x.first
               /\ x.end = m /\ x.events = r.events /\ x.error = r.error
    BY <2>1, SevenSet
  <2>2. QED BY <1>5, <2>1, Zenon
<1>9. t.first = FALSE
  BY <1>6, <1>7 DEF ReaderType
<1>8. QED BY <1>1, <1>2, <1>3, <1>4, <1>6, <1>7, <1>9, Zenon DEF Turned, Sound

LEMMA FeedIs ==
  ASSUME NEW p \in PushType, NEW b \in Bits, NEW q, q = E!Feed(p, b)
  PROVE  /\ b # "L" => q \in PushType /\ q.s = p.s /\ q.piece = Append(p.piece, b)
         /\ b = "L" => q = [s |-> E!Piece(p.s, Append(p.piece, "L")), piece |-> <<>>]
<1>1. CASE b = "L"
  BY <1>1, Zenon DEF E!Feed
<1>2. CASE b # "L"
  <2>1. p.piece \in Seq(Bits \ {"L"})
    BY Parts, Zenon
  <2>2. Append(p.piece, b) \in Seq(Bits \ {"L"})
    BY <1>2, <2>1
  <2>3. q = [p EXCEPT !.piece = Append(p.piece, b)]
    BY <1>2, Zenon DEF E!Feed
  <2>4. q \in PushType /\ q.s = p.s /\ q.piece = Append(p.piece, b)
    BY <2>2, <2>3 DEF PushType
  <2>5. QED BY <1>2, <2>4
<1>3. QED BY <1>1, <1>2

\* A push that has failed or has decoded a terminal takes no more.
Stopped(s) == s.error # "" \/ s.d.terminal

LEMMA FeedStopped ==
  ASSUME NEW p \in PushType, NEW b \in Bits, NEW q, q = E!Feed(p, b), Stopped(p.s)
  PROVE  q \in PushType /\ q.s = p.s
<1>1. CASE b # "L"
  BY <1>1, FeedIs, Zenon
<1>2. CASE b = "L"
  <2>1. q = [s |-> E!Piece(p.s, Append(p.piece, "L")), piece |-> <<>>]
    BY <1>2, FeedIs, Zenon
  <2>2. E!Piece(p.s, Append(p.piece, "L")) = p.s
    BY Zenon DEF E!Piece, Stopped
  <2>3. PICK x \in SoFar : x = p.s
    BY Parts, Zenon DEF SoFar
  <2>4. q = [s |-> x, piece |-> <<>>]
    BY <2>1, <2>2, <2>3, Zenon
  <2>5. QED BY <2>3, <2>4, PushIs, Zenon
<1>3. QED BY <1>1, <1>2

LEMMA StoppedStep ==
  ASSUME NEW base \in Seq(Bits), NEW p \in PushType, NEW r \in ReaderType, NEW b \in Bits,
         Over(base, p, r) \/ Wrong(base, p, r)
  PROVE  /\ E!Feed(p, b) \in PushType /\ E!Read(r, b) \in ReaderType
         /\ ReadAlike(base, E!Feed(p, b), E!Read(r, b))
<1>1. PICK q : q = E!Feed(p, b)
  OBVIOUS
<1>2. Stopped(p.s)
  BY Zenon DEF Over, Wrong, Stopped
<1>3. q \in PushType /\ q.s = p.s
  BY <1>1, <1>2, FeedStopped, Zenon
<1>4. r.error # "" \/ (r.events # <<>> /\ E!Last(r.events) = "T")
  BY Zenon DEF Over, Wrong, Ended, E!Last
<1>5. E!Read(r, b) = r
  BY <1>4, Zenon DEF E!Read
<1>6. Over(base, q, r) \/ Wrong(base, q, r)
  BY <1>3, Zenon DEF Over, Wrong
<1>7. QED BY <1>1, <1>3, <1>5, <1>6, Zenon DEF ReadAlike

\* A piece with which the buffer would be too large.
TooLarge(s, q) ==
  /\ Len(s.d.buffer) + Len(q) > MaxEvent + 3
  /\ s.error = "" /\ ~s.d.terminal

LEMMA TooLargeFails ==
  ASSUME NEW s \in SoFar, NEW q, TooLarge(s, q), NEW x, x = E!Extend(s, q)
  PROVE  x \in SoFar /\ x.error = "too large" /\ x.events = s.events
<1>1. x = [s EXCEPT !.error = "too large"]
  BY Zenon DEF TooLarge, E!Extend
<1>2. "too large" \in Failing
  BY DEF Failing
<1>3. QED BY <1>1, <1>2, Zenon DEF SoFar

\* A line feed that does not complete the block.
LEMMA LineStep ==
  ASSUME NEW base \in Seq(Bits), NEW p \in PushType, NEW r \in ReaderType,
         Open(base, p, r), ~E!Completes(p.s.d, p.piece)
  PROVE  /\ E!Feed(p, "L") \in PushType /\ E!Read(r, "L") \in ReaderType
         /\ ReadAlike(base, E!Feed(p, "L"), E!Read(r, "L"))
<1>1. PICK q, t : q = E!Feed(p, "L") /\ t = E!Read(r, "L")
  OBVIOUS
<1>2. /\ p.s \in SoFar /\ p.s.d \in DecoderType /\ p.s.d.buffer \in Seq(Bits)
      /\ p.s.events \in Seq(Bits) /\ p.piece \in Seq(Bits) /\ "L" \in Bits
  BY Parts, Nothings, Zenon DEF SoFar
<1>3. /\ p.s.error = "" /\ ~p.s.d.terminal
      /\ r.events = base \o p.s.events /\ ~Ended(r.events)
      /\ SameBlock(p.s.d, p.piece, r)
  BY Zenon DEF Open
<1>4. /\ r.error = "" /\ p.s.d.lf <= Len(p.s.d.buffer)
      /\ r.size = Len(Block(p.s.d, p.piece)) /\ r.size <= MaxEvent + 3
  BY <1>3, Zenon DEF SameBlock
<1>5. PICK l \in Seq(Bits) : l = Append(p.piece, "L")
  BY <1>2, AddLen, Zenon
<1>6. E!Last(l) = "L" /\ E!Front(l) = p.piece
  BY <1>2, <1>5, AddNotNone, Zenon
<1>7. PICK x : x = E!Extend(p.s, l)
  OBVIOUS
<1>8. q = [s |-> x, piece |-> <<>>]
  <2>1. E!Piece(p.s, l) = x
    BY <1>3, <1>6, <1>7, Zenon DEF E!Piece
  <2>2. QED BY <1>1, <1>2, <1>5, <2>1, FeedIs, Zenon
<1>9. ~(E!Blank(r) /\ ~r.first)
  BY BlankCompletes, Zenon
<1>10. ~(r.events # <<>> /\ E!Last(r.events) = "T")
  BY <1>3, Zenon DEF Ended, E!Last
<1>11. t = IF r.size = MaxEvent + 3 THEN [r EXCEPT !.error = "too large"] ELSE Turning(r)
  BY <1>1, <1>4, <1>9, <1>10, Zenon DEF E!Read, Turning
<1>12. PICK y \in Seq(Bits), z \in Seq(Bits) : y = p.s.d.buffer /\ z = p.piece
  BY <1>2, Zenon
<1>13. PICK m \in Nat, n \in Nat : m = Len(y) /\ n = Len(z)
  OBVIOUS
<1>14. r.size = m + n /\ Len(l) = n + 1
  <2>1. Len(y \o z) = Len(y) + Len(z)
    BY JoinLen, Zenon
  <2>2. Len(Append(z, "L")) = Len(z) + 1
    BY <1>2, AddLen, Zenon
  <2>3. QED BY <1>4, <1>5, <1>12, <1>13, <2>1, <2>2, Zenon DEF Block
<1>15. CASE r.size = MaxEvent + 3
  <2>1. t = [r EXCEPT !.error = "too large"]
    BY <1>11, <1>15, Zenon
  <2>2. t \in ReaderType /\ t.error = "too large" /\ t.events = r.events
    BY <2>1, ReaderFails, Zenon DEF ReaderType, Failing
  <2>3. TooLarge(p.s, l)
    <3>1. m + n = MaxEvent + 3
      BY <1>14, <1>15, Zenon
    <3>2. m + (n + 1) > MaxEvent + 3
      BY <3>1, StreamAssumption
    <3>3. QED BY <1>3, <1>12, <1>13, <1>14, <3>2, Zenon DEF TooLarge
  <2>4. x \in SoFar /\ x.error = "too large"
    BY <1>2, <1>7, <2>3, TooLargeFails, Zenon
  <2>5. q \in PushType /\ q.s = x
    BY <1>8, <2>4, PushIs, Zenon
  <2>6. E!IsPrefix(base, r.events)
    BY <1>2, <1>3, PrefixOf, Zenon
  <2>7. "too large" # ""
    OBVIOUS
  <2>8. Wrong(base, q, t)
    BY <2>2, <2>4, <2>5, <2>6, <2>7, Zenon DEF Wrong
  <2>9. QED BY <1>1, <2>2, <2>5, <2>8, Zenon DEF ReadAlike
<1>16. CASE r.size # MaxEvent + 3
  <2>1. t = Turning(r)
    BY <1>11, <1>16, Zenon
  <2>2. t \in ReaderType /\ t.events = r.events /\ Turned(r, t)
    BY <1>4, <2>1, ReadsLine, Zenon DEF Sound
  <2>3. Fits(p.s, l)
    <3>1. m + n # MaxEvent + 3 /\ m + n <= MaxEvent + 3
      BY <1>4, <1>14, <1>16, Zenon
    <3>2. m + (n + 1) <= MaxEvent + 3
      BY <3>1, StreamAssumption
    <3>3. QED BY <1>12, <1>13, <1>14, <3>2, Zenon DEF Fits
  <2>4. /\ x \in SoFar /\ x.events = p.s.events /\ x.error = p.s.error
        /\ x.d \in DecoderType /\ x.d.terminal = p.s.d.terminal
        /\ x.d.buffer = p.s.d.buffer \o l
        /\ x.d.lf = IF E!Last(l) = "L" THEN Len(p.s.d.buffer) + Len(l) ELSE p.s.d.lf
    <3>1. Joined(p.s, l, x)
      BY <1>2, <1>7, <2>3, ExtendIs, Zenon
    <3>2. QED BY <3>1, Zenon DEF Joined
  <2>5. Added(p.s.d, p.piece, x.d)
    <3>1. y \o Append(z, "L") = Append(y \o z, "L")
      BY <1>2, JoinAdd
    <3>2. x.d.buffer = Append(Block(p.s.d, p.piece), "L")
      BY <1>5, <1>12, <2>4, <3>1, Zenon DEF Block
    <3>3. m + (n + 1) = (m + n) + 1
      OBVIOUS
    <3>4. Len(Block(p.s.d, p.piece)) = m + n
      BY <1>4, <1>14, Zenon
    <3>5. x.d.lf = m + (n + 1)
      BY <1>6, <1>12, <1>13, <1>14, <2>4, Zenon
    <3>6. QED BY <3>2, <3>3, <3>4, <3>5, Zenon DEF Added, EndsLine
  <2>6. SameBlock(x.d, <<>>, t)
    BY <1>2, <1>3, <1>16, <2>2, <2>5, SameLine, Zenon
  <2>7. q \in PushType /\ q.s = x /\ q.piece = <<>>
    BY <1>8, <2>4, PushIs, Zenon
  <2>8. Open(base, q, t)
    BY <1>3, <2>2, <2>4, <2>6, <2>7, Zenon DEF Open
  <2>9. QED BY <1>1, <2>2, <2>7, <2>8, Zenon DEF ReadAlike
<1>17. QED BY <1>15, <1>16, Zenon

\* A piece that is too large fails where it ends, boundary or not.
LEMMA PieceFails ==
  ASSUME NEW s \in SoFar, NEW q \in Seq(Bits), NEW l \in Seq(Bits), TooLarge(s, q),
         s.d.lf <= Len(s.d.buffer), q # <<>>,
         l = Append(q, "L") \/ (l = q /\ E!Last(q) # "L"),
         NEW x, x = E!Piece(s, l)
  PROVE  x \in SoFar /\ x.error = "too large"
<1>1. s.d \in DecoderType /\ s.d.buffer \in Seq(Bits) /\ s.d.lf \in Nat
  <2>1. s.d \in DecoderType
    BY DEF SoFar
  <2>2. QED BY <2>1 DEF DecoderType
<1>2. x = IF E!Last(l) = "L" /\ E!Completes(s.d, E!Front(l)) THEN E!Dispatch(s)
          ELSE E!Extend(s, l)
  BY Zenon DEF E!Piece, TooLarge
<1>3. CASE E!Last(l) = "L" /\ E!Completes(s.d, E!Front(l))
  <2>1. "L" \in Bits
    BY Nothings
  <2>2. l = Append(q, "L") /\ E!Front(l) = q
    BY <1>3, <2>1, AddNotNone, Zenon
  <2>3. q = <<"C">> /\ E!Between(s.d) = <<>> /\ s.d.lf > 0
    BY <1>3, <2>2, Zenon DEF E!Completes
  <2>4. PICK m \in Nat, n \in Nat : m = s.d.lf /\ n = Len(s.d.buffer)
    <3>1. Len(s.d.buffer) \in Nat
      BY <1>1, LenIs, Zenon
    <3>2. QED BY <1>1, <3>1, Zenon
  <2>5. n - m = 0
    <3>1. Len(E!Between(s.d)) = n - m
      BY <1>1, <2>4, BetweenIs, Zenon
    <3>2. QED BY <2>3, <3>1, Nothings, Zenon
  <2>6. Len(q) = 1
    <3>1. Len(<<"C">>) = 1
      OBVIOUS
    <3>2. QED BY <2>3, <3>1, Zenon
  <2>7. n + 1 > MaxEvent + 3
    BY <2>4, <2>6, Zenon DEF TooLarge
  <2>9. E!BlockEnd(s.d) = m - 2 \/ E!BlockEnd(s.d) = m - 1
    BY <2>4, Zenon DEF E!BlockEnd
  <2>10. m - 2 > MaxEvent /\ m - 1 > MaxEvent
    BY <2>5, <2>7, StreamAssumption
  <2>12. x = [s EXCEPT !.error = "too large"]
    BY <1>2, <1>3, <2>9, <2>10, Zenon DEF E!Dispatch
  <2>13. "too large" \in Failing
    BY DEF Failing
  <2>14. QED BY <2>12, <2>13, SoFarFails, Zenon
<1>4. CASE ~(E!Last(l) = "L" /\ E!Completes(s.d, E!Front(l)))
  <2>1. x = E!Extend(s, l)
    BY <1>2, <1>4, Zenon
  <2>2. TooLarge(s, l)
    <3>1. CASE l = Append(q, "L")
      <4>1. PICK m \in Nat, n \in Nat : m = Len(s.d.buffer) /\ n = Len(q)
        BY <1>1, LenIs, Zenon
      <4>2. Len(l) = n + 1
        BY <3>1, <4>1, Nothings, AddLen, Zenon
      <4>3. m + n > MaxEvent + 3
        BY <4>1, Zenon DEF TooLarge
      <4>4. m + (n + 1) > MaxEvent + 3
        BY <4>3, StreamAssumption
      <4>5. QED BY <4>1, <4>2, <4>4, Zenon DEF TooLarge
    <3>2. QED BY <3>1, Zenon DEF TooLarge
  <2>3. QED BY <2>1, <2>2, TooLargeFails, Zenon
<1>5. QED BY <1>3, <1>4, Zenon

LEMMA DoomedStep ==
  ASSUME NEW base \in Seq(Bits), NEW p \in PushType, NEW r \in ReaderType, NEW b \in Bits,
         Doomed(base, p, r)
  PROVE  /\ E!Feed(p, b) \in PushType /\ E!Read(r, b) \in ReaderType
         /\ ReadAlike(base, E!Feed(p, b), E!Read(r, b))
<1>1. PICK q : q = E!Feed(p, b)
  OBVIOUS
<1>2. /\ p.s.error = "" /\ ~p.s.d.terminal /\ p.s.d.lf <= Len(p.s.d.buffer)
      /\ r.error = "too large" /\ E!IsPrefix(base, r.events)
      /\ p.piece # <<>> /\ Len(p.s.d.buffer) + Len(p.piece) > MaxEvent + 3
  BY Zenon DEF Doomed
<1>3. E!Read(r, b) = r
  <2>1. r.error # ""
    BY <1>2, Zenon
  <2>2. QED BY <2>1, Zenon DEF E!Read
<1>4. /\ p.s \in SoFar /\ p.piece \in Seq(Bits) /\ p.s.d.buffer \in Seq(Bits)
  BY Parts, Zenon DEF SoFar
<1>5. CASE b # "L"
  <2>1. q \in PushType /\ q.s = p.s /\ q.piece = Append(p.piece, b)
    BY <1>1, <1>5, FeedIs, Zenon
  <2>2. PICK m \in Nat, n \in Nat : m = Len(p.s.d.buffer) /\ n = Len(p.piece)
    BY <1>4, LenIs, Zenon
  <2>3. Append(p.piece, b) # <<>> /\ Len(Append(p.piece, b)) = n + 1
    BY <1>4, <2>2, AddLen, Zenon
  <2>4. m + n > MaxEvent + 3
    BY <1>2, <2>2, Zenon
  <2>5. m + (n + 1) > MaxEvent + 3
    BY <2>4, StreamAssumption
  <2>6. Doomed(base, q, r)
    BY <1>2, <2>1, <2>2, <2>3, <2>5, Zenon DEF Doomed
  <2>7. QED BY <1>1, <1>3, <2>1, <2>6, Zenon DEF ReadAlike
<1>6. CASE b = "L"
  <2>1. PICK l \in Seq(Bits) : l = Append(p.piece, "L")
    BY <1>4, <1>6, AddLen, Zenon
  <2>2. PICK x : x = E!Piece(p.s, l)
    OBVIOUS
  <2>3. x \in SoFar /\ x.error = "too large"
    BY <1>2, <1>4, <2>1, <2>2, PieceFails, Zenon DEF TooLarge
  <2>4. q = [s |-> x, piece |-> <<>>]
    BY <1>1, <1>6, <2>1, <2>2, FeedIs, Zenon
  <2>5. q \in PushType /\ q.s = x
    BY <2>3, <2>4, PushIs, Zenon
  <2>6. "too large" # ""
    OBVIOUS
  <2>7. Wrong(base, q, r)
    BY <1>2, <2>3, <2>5, <2>6, Zenon DEF Wrong
  <2>8. QED BY <1>1, <1>3, <2>5, <2>7, Zenon DEF ReadAlike
<1>7. QED BY <1>5, <1>6

\* Whatever the byte.
LEMMA StepAlike ==
  ASSUME NEW base \in Seq(Bits), NEW p \in PushType, NEW r \in ReaderType, NEW b \in Bits,
         ReadAlike(base, p, r)
  PROVE  /\ E!Feed(p, b) \in PushType /\ E!Read(r, b) \in ReaderType
         /\ ReadAlike(base, E!Feed(p, b), E!Read(r, b))
<1>1. CASE Open(base, p, r)
  <2>1. CASE b # "L"
    BY <1>1, <2>1, ByteStep
  <2>2. CASE b = "L"
    BY <1>1, <2>2, DispatchStep, LineStep, Zenon
  <2>3. QED BY <2>1, <2>2
<1>2. CASE Over(base, p, r) \/ Wrong(base, p, r)
  BY <1>2, StoppedStep, Zenon
<1>3. CASE Doomed(base, p, r)
  BY <1>3, DoomedStep, Zenon
<1>4. QED BY <1>1, <1>2, <1>3, Zenon DEF ReadAlike

\* What a push has come to at the end of its chunk.
Pushed(base, s, r) ==
  /\ s \in SoFar
  /\ s.error = "" =>
       /\ r.error = "" /\ r.events = base \o s.events
       /\ (s.d.terminal <=> Ended(r.events))
       /\ s.d.terminal \/ SameBlock(s.d, <<>>, r)
  /\ s.error # "" => r.error = s.error /\ E!IsPrefix(base, r.events)

\* What comes after the first l bytes.
After(x, l) == SubSeq(x, l + 1, Len(x))

LEMMA AfterTyped ==
  ASSUME NEW x \in Seq(Bits), NEW l \in Nat
  PROVE  After(x, l) \in Seq(Bits)
<1>1. PICK m \in Int, n \in Int : m = l + 1 /\ n = Len(x)
  OBVIOUS
<1>2. \A i \in m..n : x[i] \in Bits
  BY <1>1
<1>3. SubSeq(x, m, n) \in Seq(Bits)
  BY <1>2, SubSeqProperties
<1>4. QED BY <1>1, <1>3 DEF After

LEMMA AfterItems ==
  ASSUME NEW x \in Seq(Bits), NEW l \in Nat, l <= Len(x)
  PROVE  Len(After(x, l)) = Len(x) - l /\ \A i \in 1..Len(After(x, l)) : After(x, l)[i] = x[l + i]
BY BetweenItems DEF After

LEMMA BetweenJoin ==
  ASSUME NEW x \in Seq(Bits), NEW q \in Seq(Bits), NEW l \in Nat, l <= Len(x)
  PROVE  After(x \o q, l) = After(x, l) \o q
<1>1. PICK y \in Seq(Bits) : y = x \o q
  BY JoinLen, Zenon
<1>2. PICK m \in Nat, n \in Nat : m = Len(x) /\ n = Len(q)
  BY LenIs, Zenon
<1>3. Len(y) = m + n /\ (\A i \in 1..m : y[i] = x[i]) /\ (\A i \in 1..n : y[m + i] = q[i])
  <2>1. /\ Len(x \o q) = Len(x) + Len(q)
        /\ \A i \in 1..Len(x) : (x \o q)[i] = x[i]
        /\ \A i \in 1..Len(q) : (x \o q)[Len(x) + i] = q[i]
    BY JoinIs
  <2>2. QED BY <1>1, <1>2, <2>1, Zenon
<1>4. PICK s : s = After(y, l)
  OBVIOUS
<1>5. PICK z : z = After(x, l)
  OBVIOUS
<1>6. l <= Len(y)
  <2>1. l <= m
    BY <1>2, Zenon
  <2>2. l <= m + n
    BY <2>1
  <2>3. QED BY <1>3, <2>2, Zenon
<1>7. s \in Seq(Bits) /\ z \in Seq(Bits)
  BY <1>4, <1>5, <1>6, AfterTyped, Zenon
<1>8. Len(s) = Len(y) - l /\ \A i \in 1..Len(s) : s[i] = y[l + i]
  BY <1>4, <1>6, AfterItems, Zenon
<1>9. Len(z) = Len(x) - l /\ \A i \in 1..Len(z) : z[i] = x[l + i]
  BY <1>5, AfterItems, Zenon
<1>10. PICK t \in Seq(Bits) : t = z \o q
  BY <1>7, JoinLen, Zenon
<1>11. /\ Len(t) = (m - l) + n
       /\ \A i \in 1..(m - l) : t[i] = z[i]
       /\ \A i \in 1..n : t[(m - l) + i] = q[i]
  <2>1. /\ Len(z \o q) = Len(z) + Len(q)
        /\ \A i \in 1..Len(z) : (z \o q)[i] = z[i]
        /\ \A i \in 1..Len(q) : (z \o q)[Len(z) + i] = q[i]
    BY <1>7, JoinIs
  <2>2. Len(z) = m - l
    BY <1>2, <1>9, Zenon
  <2>3. QED BY <1>2, <1>10, <2>1, <2>2, Zenon
<1>12. Len(s) = (m + n) - l
  BY <1>3, <1>8, Zenon
<1>13. l <= m
  BY <1>2, Zenon
<1>14. Len(s) = Len(t)
  BY <1>11, <1>12, <1>13
<1>15. ASSUME NEW i \in 1..Len(s) PROVE s[i] = t[i]
  <2>1. i \in 1..((m + n) - l) /\ s[i] = y[l + i]
    BY <1>8, <1>12, Zenon
  <2>2. CASE i <= m - l
    <3>1. i \in 1..(m - l) /\ l + i \in 1..m
      BY <1>13, <2>1, <2>2
    <3>2. z[i] = x[l + i]
      BY <1>2, <1>9, <3>1, Zenon
    <3>3. QED BY <1>3, <1>11, <2>1, <3>1, <3>2, Zenon
  <2>3. CASE ~(i <= m - l)
    <3>1. PICK j \in 1..n : j = i - (m - l)
      BY <1>13, <2>1, <2>3
    <3>2. i = (m - l) + j /\ l + i = m + j
      BY <1>13, <2>1, <3>1
    <3>3. y[m + j] = q[j] /\ t[(m - l) + j] = q[j]
      BY <1>3, <1>11, Zenon
    <3>4. QED BY <2>1, <3>2, <3>3, Zenon
  <2>4. QED BY <2>2, <2>3
<1>16. s = t
  BY <1>7, <1>14, <1>15, SeqEqual
<1>17. QED BY <1>1, <1>4, <1>5, <1>10, <1>16, Zenon

LEMMA FrontJoin ==
  ASSUME NEW x \in Seq(Bits), NEW q \in Seq(Bits), NEW l \in Nat, l <= Len(x)
  PROVE  /\ l <= Len(x \o q)
         /\ l > 0 => (x \o q)[l] = x[l] /\ (l > 1 => (x \o q)[l - 1] = x[l - 1])
<1>0. PICK y : y = x \o q
  OBVIOUS
<1>1. /\ Len(x \o q) = Len(x) + Len(q) /\ \A i \in 1..Len(x) : (x \o q)[i] = x[i]
  BY JoinIs
<1>2. PICK m \in Nat, n \in Nat : m = Len(x) /\ n = Len(q)
  BY LenIs, Zenon
<1>3. l <= m /\ Len(y) = m + n /\ \A i \in 1..m : y[i] = x[i]
  BY <1>0, <1>1, <1>2, Zenon
<1>4. l <= m + n
  BY <1>3
<1>5. l > 0 => l \in 1..m
  BY <1>3
<1>6. l > 1 => l - 1 \in 1..m
  BY <1>3
<1>7. QED BY <1>0, <1>3, <1>4, <1>5, <1>6, Zenon

LEMMA FirstOfJoin ==
  ASSUME NEW x \in Seq(Bits), NEW q \in Seq(Bits), NEW l \in Nat, l <= Len(x),
         NEW e \in Nat, e <= l
  PROVE  SubSeq(x \o q, 1, e) = SubSeq(x, 1, e)
<1>0. PICK y : y = x \o q
  OBVIOUS
<1>1. PICK m \in Nat, n \in Nat : m = Len(x) /\ n = Len(q)
  BY LenIs, Zenon
<1>2. \A i \in 1..m : y[i] = x[i]
  <2>1. \A i \in 1..Len(x) : (x \o q)[i] = x[i]
    BY JoinIs
  <2>2. QED BY <1>0, <1>1, <2>1, Zenon
<1>3. \A i \in 1..m : x[i] \in Bits
  BY <1>1
<1>4. e <= m
  <2>1. l <= m
    BY <1>1, Zenon
  <2>2. QED BY <2>1
<1>5. ASSUME NEW z, \A i \in 1..m : z[i] = x[i]
      PROVE  /\ SubSeq(z, 1, e) \in Seq(Bits) /\ Len(SubSeq(z, 1, e)) = e
             /\ \A i \in 1..e : SubSeq(z, 1, e)[i] = x[i]
  <2>1. \A i \in 1..e : i \in 1..m
    BY <1>4
  <2>2. \A i \in 1..e : z[i] \in Bits /\ z[i] = x[i]
    BY <1>3, <1>5, <2>1, Zenon
  <2>3. 1 \in Int /\ e \in Int
    OBVIOUS
  <2>4. /\ SubSeq(z, 1, e) \in Seq(Bits)
        /\ Len(SubSeq(z, 1, e)) = IF 1 <= e THEN e - 1 + 1 ELSE 0
        /\ \A i \in 1..(e - 1 + 1) : SubSeq(z, 1, e)[i] = z[1 + i - 1]
    BY <2>2, <2>3, SubSeqProperties
  <2>5. QED BY <2>2, <2>4
<1>6. PICK s \in Seq(Bits) : s = SubSeq(y, 1, e)
  BY <1>2, <1>5, Zenon
<1>7. PICK t \in Seq(Bits) : t = SubSeq(x, 1, e)
  BY <1>5, Zenon
<1>8. Len(s) = e /\ Len(t) = e /\ (\A i \in 1..e : s[i] = x[i]) /\ \A i \in 1..e : t[i] = x[i]
  BY <1>2, <1>5, <1>6, <1>7, Zenon
<1>9. \A i \in 1..Len(s) : s[i] = t[i]
  BY <1>8, Zenon
<1>10. s = t
  BY <1>8, <1>9, SeqEqual
<1>11. QED BY <1>0, <1>6, <1>7, <1>10, Zenon

\* The piece that is left joins the buffer.
LEMMA SameTaken ==
  ASSUME NEW d \in DecoderType, NEW q \in Seq(Bits), NEW r, NEW f \in DecoderType,
         SameBlock(d, q, r), f.buffer = Block(d, q), f.lf = d.lf
  PROVE  SameBlock(f, <<>>, r)
<1>1. /\ r.error = "" /\ d.lf <= Len(d.buffer)
      /\ r.size = Len(Block(d, q)) /\ r.size <= MaxEvent + 3
      /\ r.first <=> d.lf = 0
      /\ r.line = E!Between(d) \o q
      /\ E!Lines(Block(d, q)) = [data |-> r.data \o E!DataOf(r.last), line |-> r.line]
      /\ d.lf > 0 =>
           /\ d.buffer[d.lf] = "L" /\ r.end = E!BlockEnd(d)
           /\ E!Data(SubSeq(d.buffer, 1, E!BlockEnd(d)))
                = r.data \o E!DataOf(E!Stripped(r.last))
  BY Zenon DEF SameBlock
<1>2. PICK x \in Seq(Bits), l \in Nat : x = d.buffer /\ l = d.lf
  BY DEF DecoderType
<1>3. PICK y \in Seq(Bits) : y = f.buffer
  BY DEF DecoderType
<1>4. y = x \o q /\ l <= Len(x)
  BY <1>1, <1>2, <1>3, Zenon DEF Block
<1>5. Block(f, <<>>) = Block(d, q)
  BY <1>3, BitsNone, Zenon DEF Block
<1>6. E!Between(f) \o <<>> = E!Between(d) \o q
  <2>4. E!Between(f) = After(y, l) /\ E!Between(d) = After(x, l)
    BY <1>2, <1>3, Zenon DEF E!Between, After
  <2>5. After(x \o q, l) = After(x, l) \o q
    BY <1>4, BetweenJoin, Zenon
  <2>1. E!Between(f) = E!Between(d) \o q
    BY <1>4, <2>4, <2>5, Zenon
  <2>2. E!Between(f) \in Seq(Bits)
    BY <1>2, <1>3, AfterTyped, Zenon DEF E!Between, After
  <2>3. QED BY <2>1, <2>2, BitsNone, Zenon
<1>7. l <= Len(y)
  BY <1>4, FrontJoin, Zenon
<1>8. ASSUME l > 0
      PROVE  /\ f.buffer[f.lf] = "L" /\ r.end = E!BlockEnd(f)
             /\ E!Data(SubSeq(f.buffer, 1, E!BlockEnd(f)))
                   = r.data \o E!DataOf(E!Stripped(r.last))
  <2>1. /\ x[l] = "L" /\ r.end = E!BlockEnd(d)
        /\ E!Data(SubSeq(x, 1, E!BlockEnd(d))) = r.data \o E!DataOf(E!Stripped(r.last))
    BY <1>1, <1>2, <1>8, Zenon
  <2>2. /\ y[l] = x[l] /\ (l > 1 => y[l - 1] = x[l - 1])
    BY <1>4, <1>8, FrontJoin, Zenon
  <2>3. E!BlockEnd(f) = E!BlockEnd(d)
    BY <1>2, <1>3, <2>2, Zenon DEF E!BlockEnd
  <2>4. PICK e : e = E!BlockEnd(d)
    OBVIOUS
  <2>5. e = l - 1 \/ (l > 1 /\ e = l - 2)
    BY <1>2, <2>4, Zenon DEF E!BlockEnd
  <2>6. e \in Nat /\ e <= l
    BY <1>8, <2>5
  <2>7. SubSeq(y, 1, e) = SubSeq(x, 1, e)
    BY <1>4, <2>6, FirstOfJoin, Zenon
  <2>8. QED BY <1>2, <1>3, <2>1, <2>2, <2>3, <2>4, <2>7, Zenon
<1>9. QED BY <1>1, <1>2, <1>3, <1>5, <1>6, <1>7, <1>8, Zenon DEF SameBlock

LEMMA PieceLast ==
  ASSUME NEW p \in PushType, p.piece # <<>>
  PROVE  E!Last(p.piece) # "L"
<1>1. PICK q \in Seq(Bits \ {"L"}) : q = p.piece
  BY Parts, Zenon
<1>2. q # <<>>
  BY <1>1, Zenon
<1>3. E!Last(q) # "L"
  BY <1>2 DEF E!Last
<1>4. QED BY <1>1, <1>3, Zenon

LEMMA FlushAlike ==
  ASSUME NEW base \in Seq(Bits), NEW p \in PushType, NEW r \in ReaderType,
         ReadAlike(base, p, r)
  PROVE  Pushed(base, E!Flushed(p), r)
<1>1. PICK s : s = E!Flushed(p)
  OBVIOUS
<1>2. s = IF p.piece = <<>> THEN p.s ELSE E!Piece(p.s, p.piece)
  BY <1>1, Zenon DEF E!Flushed
<1>3. /\ p.s \in SoFar /\ p.s.d \in DecoderType /\ p.piece \in Seq(Bits)
      /\ p.s.d.buffer \in Seq(Bits)
  BY Parts, Zenon DEF SoFar
<1>4. CASE Over(base, p, r) \/ Wrong(base, p, r)
  <2>1. s = p.s
    BY <1>2, <1>4, Zenon DEF Over, Wrong, E!Piece
  <2>2. CASE Over(base, p, r)
    BY <1>1, <1>3, <2>1, <2>2, Zenon DEF Over, Pushed
  <2>3. CASE Wrong(base, p, r)
    BY <1>1, <1>3, <2>1, <2>3, Zenon DEF Wrong, Pushed
  <2>4. QED BY <1>4, <2>2, <2>3
<1>5. CASE Doomed(base, p, r)
  <2>1. /\ p.s.error = "" /\ ~p.s.d.terminal /\ p.s.d.lf <= Len(p.s.d.buffer)
        /\ r.error = "too large" /\ E!IsPrefix(base, r.events)
        /\ p.piece # <<>> /\ Len(p.s.d.buffer) + Len(p.piece) > MaxEvent + 3
    BY <1>5, Zenon DEF Doomed
  <2>2. s = E!Piece(p.s, p.piece)
    BY <1>2, <2>1, Zenon
  <2>3. E!Last(p.piece) # "L"
    BY <2>1, PieceLast, Zenon
  <2>4. TooLarge(p.s, p.piece)
    BY <2>1, Zenon DEF TooLarge
  <2>5. s \in SoFar /\ s.error = "too large"
    BY <1>3, <2>1, <2>2, <2>3, <2>4, PieceFails, Zenon
  <2>6. "too large" # ""
    OBVIOUS
  <2>7. QED BY <1>1, <2>1, <2>5, <2>6, Zenon DEF Pushed
<1>6. CASE Open(base, p, r)
  <2>1. /\ p.s.error = "" /\ ~p.s.d.terminal
        /\ r.events = base \o p.s.events /\ ~Ended(r.events)
        /\ SameBlock(p.s.d, p.piece, r)
    BY <1>6, Zenon DEF Open
  <2>2. r.error = "" /\ r.size = Len(Block(p.s.d, p.piece)) /\ r.size <= MaxEvent + 3
    BY <2>1, Zenon DEF SameBlock
  <2>3. CASE p.piece = <<>>
    <3>1. s = p.s
      BY <1>2, <2>3, Zenon
    <3>2. QED BY <1>1, <1>3, <2>1, <2>2, <2>3, <3>1, Zenon DEF Pushed
  <2>4. CASE p.piece # <<>>
    <3>1. E!Last(p.piece) # "L"
      BY <2>4, PieceLast, Zenon
    <3>2. s = E!Extend(p.s, p.piece)
      BY <1>2, <2>1, <2>4, <3>1, Zenon DEF E!Piece
    <3>3. Fits(p.s, p.piece)
      BY <1>3, <2>2, JoinLen, Zenon DEF Fits, Block
    <3>4. Joined(p.s, p.piece, s)
      BY <1>3, <3>2, <3>3, ExtendIs, Zenon
    <3>5. /\ s \in SoFar /\ s.events = p.s.events /\ s.error = p.s.error
          /\ s.d \in DecoderType /\ s.d.terminal = p.s.d.terminal
          /\ s.d.buffer = Block(p.s.d, p.piece) /\ s.d.lf = p.s.d.lf
      BY <3>1, <3>4, Zenon DEF Joined, Block
    <3>6. SameBlock(s.d, <<>>, r)
      BY <1>3, <2>1, <3>5, SameTaken, Zenon
    <3>7. QED BY <1>1, <2>1, <2>2, <3>5, <3>6, Zenon DEF Pushed
  <2>5. QED BY <2>3, <2>4
<1>7. QED BY <1>4, <1>5, <1>6, Zenon DEF ReadAlike

\* Between two pushes.
Rests(d, events, r) ==
  /\ r.error = "" /\ r.events = events
  /\ (d.terminal <=> Ended(events))
  /\ d.terminal \/ SameBlock(d, <<>>, r)

Alike(base, d, q, s) ==
  /\ E!Pieces(d, s) \in PushType /\ E!Reading(q \o s) \in ReaderType
  /\ ReadAlike(base, E!Pieces(d, s), E!Reading(q \o s))

\* Byte by byte through a chunk.
LEMMA PushAlike ==
  ASSUME NEW base \in Seq(Bits), NEW d \in DecoderType, NEW q \in Seq(Bits),
         E!Reading(q) \in ReaderType, Rests(d, base, E!Reading(q)), ~d.terminal,
         NEW c \in Seq(Bits)
  PROVE  Alike(base, d, q, c)
<1> DEFINE Good == {n \in Nat : \A s \in Seq(Bits) : Len(s) = n => Alike(base, d, q, s)}
<1>1. 0 \in Good
  <2>1. SUFFICES ASSUME NEW s \in Seq(Bits), Len(s) = 0 PROVE Alike(base, d, q, s)
    OBVIOUS
  <2>2. s = <<>>
    BY <2>1, NoneIs, Zenon
  <2>3. E!Pieces(d, <<>>) = E!Begun(d)
    BY Nothings, PiecesGrow, Zenon
  <2>4. q \o <<>> = q
    BY BitsNone, Zenon
  <2>5. PICK none \in Seq(Bits) : none = <<>>
    BY Nothings, Zenon
  <2>6. PICK x : x = E!Step(d, none, "")
    BY Zenon
  <2>7. x \in SoFar /\ x.error = "" /\ x.d = d /\ x.events = none
    BY <2>6, SoFarIs, Zenon DEF E!Step
  <2>8. PICK p : p = E!Begun(d)
    OBVIOUS
  <2>9. p = [s |-> x, piece |-> <<>>]
    BY <2>5, <2>6, <2>8, Zenon DEF E!Begun
  <2>10. p \in PushType /\ p.s = x /\ p.piece = <<>>
    BY <2>7, <2>9, PushIs, Zenon
  <2>11. PICK r : r = E!Reading(q)
    OBVIOUS
  <2>12. r.error = "" /\ r.events = base /\ ~Ended(base) /\ SameBlock(d, <<>>, r)
    BY <2>11, Zenon DEF Rests
  <2>13. base = base \o none
    BY <2>5, BitsNone, Zenon
  <2>14. Open(base, p, r)
    BY <2>7, <2>10, <2>12, <2>13, Zenon DEF Open
  <2>15. QED BY <2>2, <2>3, <2>4, <2>8, <2>10, <2>11, <2>14, Zenon DEF Alike, ReadAlike
<1>2. ASSUME NEW n \in Nat, n \in Good PROVE n + 1 \in Good
  <2>1. SUFFICES ASSUME NEW s \in Seq(Bits), Len(s) = n + 1 PROVE Alike(base, d, q, s)
    OBVIOUS
  <2>2. PICK t \in Seq(Bits), b \in Bits : Len(t) = n /\ s = Append(t, b)
    <3>1. /\ E!Front(s) \in Seq(Bits) /\ Len(E!Front(s)) = n /\ s[n + 1] \in Bits
          /\ s = Append(E!Front(s), s[n + 1])
      BY <2>1, FrontLast
    <3>2. QED BY <3>1, Zenon
  <2>3. Alike(base, d, q, t)
    BY <1>2, <2>2, Zenon
  <2> HIDE DEF Good
  <2>4. q \o s = Append(q \o t, b)
    BY <2>2, JoinAdd
  <2>5. q \o t \in Seq(Bits)
    BY JoinLen, Zenon
  <2>6. E!Reading(q \o s) = E!Read(E!Reading(q \o t), b)
    BY <2>4, <2>5, ReadingGrows, Zenon
  <2>7. E!Pieces(d, s) = E!Feed(E!Pieces(d, t), b)
    BY <2>2, PiecesGrow, Zenon
  <2>8. QED BY <2>3, <2>6, <2>7, StepAlike, Zenon DEF Alike
<1> HIDE DEF Good
<1>3. Nat \subseteq Good
  BY <1>1, <1>2, NumbersFollow, Zenon
<1>4. Len(c) \in Good
  BY <1>3
<1>5. QED BY <1>4 DEF Good

LEMMA PushRests ==
  ASSUME NEW base \in Seq(Bits), NEW d \in DecoderType, NEW q \in Seq(Bits),
         E!Reading(q) \in ReaderType, Rests(d, base, E!Reading(q)), ~d.terminal,
         NEW c \in Seq(Bits)
  PROVE  /\ E!Reading(q \o c) \in ReaderType
         /\ Pushed(base, E!Flushed(E!Pieces(d, c)), E!Reading(q \o c))
BY PushAlike, FlushAlike, Zenon DEF Alike

-----------------------------------------------------------------------------
(* Push by push: the decoder and the reader of the whole stream.           *)

Kept(d, events, err, stream) ==
  /\ d \in DecoderType /\ events \in Seq(Bits) /\ stream \in Seq(Bits)
  /\ E!Reading(stream) \in ReaderType
  /\ err = "" => Rests(d, events, E!Reading(stream))
  /\ err # "" => /\ E!Reading(stream).error = err
                 /\ E!IsPrefix(events, E!Reading(stream).events)

StreamInv == part = "stream" /\ ~ended => Kept(decoder, decoded, error, fed)

LEMMA StreamStart == ProxyInit => StreamInv
<1>1. SUFFICES ASSUME ProxyInit PROVE StreamInv
  OBVIOUS
<1>2. decoder = E!Fresh /\ decoded = <<>> /\ error = "" /\ fed = <<>>
  BY <1>1, Zenon DEF ProxyInit, E!Init
<1>3. PICK d : d = [E!Fresh EXCEPT !.terminal = FALSE]
  BY Zenon
<1>4. d \in DecoderType /\ d.buffer = <<>> /\ d.lf = 0 /\ d.terminal = FALSE
  BY <1>3, FreshIs
<1>5. E!Fresh = d
  BY <1>3 DEF E!Fresh
<1>6. PICK none \in Seq(Bits) : none = <<>>
  BY Nothings, Zenon
<1>7. PICK r : r = E!Reader
  OBVIOUS
<1>8. E!Reading(<<>>) = r
  BY <1>7, Nothings, ReadingGrows, Zenon
<1>9. r = ReadAgain(none)
  <2>1. r.events = <<>>
    BY <1>7, Zenon DEF E!Reader
  <2>2. r \in ReaderType
    BY <1>7, ReaderTyped, Zenon
  <2>3. r = [r EXCEPT !.events = none]
    BY <1>6, <2>1, <2>2, ReaderSame, Zenon
  <2>4. QED BY <1>7, <2>3, Zenon DEF ReadAgain
<1>10. /\ r \in ReaderType /\ r.events = none /\ r.error = "" /\ r.line = <<>>
       /\ r.last = <<>> /\ r.data = <<>> /\ r.size = 0 /\ r.first = TRUE
  BY <1>9, ReaderAgain, Zenon DEF AtStart
<1>11. SameBlock(d, <<>>, r)
  BY <1>4, <1>10, SameAgain, Zenon DEF Restarted
<1>12. ~Ended(none)
  BY <1>6, Zenon DEF Ended
<1>13. Rests(d, none, r)
  BY <1>4, <1>10, <1>11, <1>12, Zenon DEF Rests
<1>14. Kept(d, none, "", <<>>)
  BY <1>4, <1>6, <1>8, <1>10, <1>13, Zenon DEF Kept
<1>15. QED BY <1>2, <1>5, <1>6, <1>14, Zenon DEF StreamInv

LEMMA PushKeeps ==
  ASSUME Kept(decoder, decoded, error, fed), NEW chunk \in Seq(Bits), E!Push(chunk)
  PROVE  Kept(decoder', decoded', error', fed')
<1>1. /\ error = "" /\ ~decoder.terminal /\ fed' = fed \o chunk
  BY Zenon DEF E!Push
<1>2. PICK s : s = E!Flushed(E!Pieces(decoder, chunk))
  OBVIOUS
<1>3. /\ decoder' = s.d /\ error' = s.error
      /\ decoded' = IF s.error = "" THEN decoded \o s.events ELSE decoded
  BY <1>2, Zenon DEF E!Push
<1>4. /\ decoder \in DecoderType /\ decoded \in Seq(Bits) /\ fed \in Seq(Bits)
      /\ E!Reading(fed) \in ReaderType /\ Rests(decoder, decoded, E!Reading(fed))
  BY <1>1, Zenon DEF Kept
<1>5. PICK r : r = E!Reading(fed \o chunk)
  OBVIOUS
<1>6. r \in ReaderType /\ Pushed(decoded, s, r)
  BY <1>1, <1>2, <1>4, <1>5, PushRests, Zenon
<1>7. s \in SoFar
  BY <1>6, Zenon DEF Pushed
<1>8. s.d \in DecoderType /\ s.events \in Seq(Bits)
  BY <1>7 DEF SoFar
<1>9. fed' \in Seq(Bits)
  BY <1>1, <1>4, JoinLen, Zenon
<1>10. CASE s.error = ""
  <2>1. /\ r.error = "" /\ r.events = decoded \o s.events
        /\ (s.d.terminal <=> Ended(r.events))
        /\ s.d.terminal \/ SameBlock(s.d, <<>>, r)
    BY <1>6, <1>10, Zenon DEF Pushed
  <2>2. decoded \o s.events \in Seq(Bits)
    BY <1>4, <1>8, JoinLen, Zenon
  <2>3. Rests(s.d, decoded \o s.events, r)
    BY <2>1, Zenon DEF Rests
  <2>4. Kept(s.d, decoded \o s.events, s.error, fed')
    BY <1>1, <1>5, <1>6, <1>8, <1>9, <1>10, <2>2, <2>3, Zenon DEF Kept
  <2>5. QED BY <1>3, <1>10, <2>4, Zenon
<1>11. CASE s.error # ""
  <2>1. r.error = s.error /\ E!IsPrefix(decoded, r.events)
    BY <1>6, <1>11, Zenon DEF Pushed
  <2>2. Kept(s.d, decoded, s.error, fed')
    BY <1>1, <1>4, <1>5, <1>6, <1>8, <1>9, <1>11, <2>1, Zenon DEF Kept
  <2>3. QED BY <1>3, <1>11, <2>2, Zenon
<1>12. QED BY <1>10, <1>11, Zenon

LEMMA ChunkIs ==
  ASSUME NEW chunk \in E!Chunks
  PROVE  chunk \in Seq(Bits)
<1>1. PICK n \in 1..MaxChunk : chunk \in [1..n -> Bits]
  BY DEF E!Chunks, Bits
<1>2. n \in Nat
  BY StreamAssumption
<1>3. QED BY <1>1, <1>2

LEMMA StreamAlone ==
  [ProxyNext]_proxy => UNCHANGED part /\ (part = "stream" => [E!Next]_(E!vars))
BY DEF ProxyNext, proxy, streamVars, E!vars

LEMMA StreamStep == StreamInv /\ [ProxyNext]_proxy => StreamInv'
<1>1. SUFFICES ASSUME StreamInv, [ProxyNext]_proxy, part' = "stream", ~ended'
               PROVE  Kept(decoder, decoded, error, fed)'
  BY DEF StreamInv
<1>2. part = "stream" /\ [E!Next]_(E!vars)
  BY <1>1, StreamAlone
<1>3. ASSUME ~ended PROVE Kept(decoder, decoded, error, fed)
  BY <1>1, <1>2, <1>3 DEF StreamInv
<1>4. CASE E!Finish
  BY <1>1, <1>4, Zenon DEF E!Finish
<1>5. ASSUME NEW chunk \in E!Chunks, E!Push(chunk)
      PROVE  Kept(decoder, decoded, error, fed)'
  <2>1. ~ended
    BY <1>5, Zenon DEF E!Push
  <2>2. Kept(decoder', decoded', error', fed')
    BY <1>3, <1>5, <2>1, ChunkIs, PushKeeps, Zenon
  <2>3. QED BY <2>2, Zenon DEF Kept
<1>6. CASE UNCHANGED E!vars
  <2>1. decoder' = decoder /\ decoded' = decoded /\ error' = error /\ fed' = fed /\ ended' = ended
    BY <1>6 DEF E!vars
  <2>2. Kept(decoder', decoded', error', fed')
    BY <1>1, <1>3, <2>1, Zenon
  <2>3. QED BY <2>2
<1>7. QED BY <1>2, <1>4, <1>5, <1>6 DEF E!Next

(***************************************************************************)
(* Whatever the stream, and wherever the network cuts it: the events that  *)
(* SseDecoder has returned are those of the whole stream read byte by      *)
(* byte, and so is its error, which may come before events of its own      *)
(* chunk (sse.rs, push, completes_boundary, extend_bounded).               *)
(***************************************************************************)
THEOREM ChunksDontMatterAlways == ProxySpec => []ChunksDontMatter
<1>1. StreamInv => ChunksDontMatter
  <2>1. SUFFICES ASSUME StreamInv, part = "stream", ~ended
                 PROVE  /\ error = E!Reading(fed).error
                        /\ IF error = "" THEN decoded = E!Reading(fed).events
                           ELSE E!IsPrefix(decoded, E!Reading(fed).events)
    BY Zenon DEF ChunksDontMatter, E!ChunksDontMatter, E!Reference
  <2>2. Kept(decoder, decoded, error, fed)
    BY <2>1 DEF StreamInv
  <2>3. QED BY <2>2, Zenon DEF Kept, Rests
<1>2. QED BY <1>1, StreamStart, StreamStep, PTL DEF ProxySpec
=============================================================================
