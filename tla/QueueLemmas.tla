----------------------------- MODULE QueueLemmas -----------------------------
(* What the operations on a queue of messages do to the set of messages in  *)
(* it. *)
EXTENDS Integers, Sequences, Functions, SequenceTheorems, TLAPS

\* What is in a queue after a message is put on it.
LEMMA RangeOfAppend ==
    ASSUME NEW S, NEW q \in Seq(S), NEW m \in S
    PROVE  Range(Append(q, m)) = Range(q) \cup {m}
  <1>1. /\ Append(q, m) \in Seq(S)
        /\ Len(Append(q, m)) = Len(q) + 1
        /\ Len(q) \in Nat
        /\ \A i \in 1..Len(q) : Append(q, m)[i] = q[i]
        /\ Append(q, m)[Len(q) + 1] = m
    BY AppendProperties
  <1>2. DOMAIN q = 1..Len(q) /\ DOMAIN Append(q, m) = 1..(Len(q) + 1)
    BY <1>1
  <1>. QED  BY <1>1, <1>2 DEF Range

\* What is in a queue before its head is taken.
LEMMA RangeOfTail ==
    ASSUME NEW S, NEW q \in Seq(S), q # <<>>
    PROVE  /\ Head(q) \in S
           /\ Tail(q) \in Seq(S)
           /\ Range(q) = {Head(q)} \cup Range(Tail(q))
  <1>1. /\ Head(q) \in S
        /\ Tail(q) \in Seq(S)
        /\ Len(Tail(q)) = Len(q) - 1
        /\ \A i \in 1..Len(Tail(q)) : Tail(q)[i] = q[i + 1]
    BY HeadTailProperties
  <1>2. Len(q) \in Nat \ {0} /\ DOMAIN q = 1..Len(q) /\ Head(q) = q[1]
    BY EmptySeq
  <1>3. DOMAIN Tail(q) = 1..(Len(q) - 1)
    BY <1>1
  <1>4. \A i \in 2..Len(q) : i - 1 \in DOMAIN Tail(q) /\ Tail(q)[i - 1] = q[i]
    BY <1>1, <1>2, <1>3
  <1>5. \A i \in DOMAIN Tail(q) : i + 1 \in DOMAIN q /\ Tail(q)[i] = q[i + 1]
    BY <1>1, <1>2, <1>3
  <1>6. \A i \in DOMAIN q : i = 1 \/ i \in 2..Len(q)
    BY <1>2
  <1>7. ASSUME NEW i \in DOMAIN q PROVE q[i] \in {Head(q)} \cup Range(Tail(q))
    <2>1. CASE i = 1  BY <2>1, <1>2
    <2>2. CASE i \in 2..Len(q)  BY <2>2, <1>4 DEF Range
    <2>. QED  BY <2>1, <2>2, <1>6
  <1>8. ASSUME NEW i \in DOMAIN Tail(q) PROVE Tail(q)[i] \in Range(q)
    BY <1>5 DEF Range
  <1>9. Head(q) \in Range(q)
    BY <1>2 DEF Range
  <1>. QED  BY <1>1, <1>7, <1>8, <1>9 DEF Range

\* A queue of messages of a type holds nothing else.
LEMMA RangeIsTyped ==
    ASSUME NEW S, NEW q \in Seq(S)
    PROVE  Range(q) \subseteq S
  BY RangeOfSeq

\* An empty queue holds nothing.
LEMMA RangeOfEmpty == Range(<<>>) = {}
  <1>1. <<>> \in Seq({}) /\ Len(<<>>) = 0
    OBVIOUS
  <1>2. Range(<<>>) = {<<>>[i] : i \in 1..0}
    BY <1>1, RangeEquality
  <1>. QED  BY <1>2

\* What is left of a queue that is cut short.
LEMMA RangeOfPrefix ==
    ASSUME NEW S, NEW q \in Seq(S), NEW n \in 0..Len(q)
    PROVE  /\ SubSeq(q, 1, n) \in Seq(S)
           /\ Range(SubSeq(q, 1, n)) \subseteq Range(q)
  <1>1. /\ SubSeq(q, 1, n) \in Seq(S)
        /\ Len(SubSeq(q, 1, n)) = n
        /\ \A i \in 1..n : SubSeq(q, 1, n)[i] = q[i]
    OBVIOUS
  <1>. QED  BY <1>1 DEF Range

\* What is in two queues put together.
LEMMA RangeOfConcat ==
    ASSUME NEW S, NEW q \in Seq(S), NEW r \in Seq(S)
    PROVE  Range(q \o r) = Range(q) \cup Range(r)
  <1>1. /\ q \o r \in Seq(S) /\ Len(q) \in Nat /\ Len(r) \in Nat
        /\ Len(q \o r) = Len(q) + Len(r)
        /\ \A i \in 1..Len(q) : (q \o r)[i] = q[i]
        /\ \A i \in 1..Len(r) : (q \o r)[Len(q) + i] = r[i]
    BY ConcatProperties
  <1>2. /\ DOMAIN q = 1..Len(q) /\ DOMAIN r = 1..Len(r)
        /\ DOMAIN (q \o r) = 1..(Len(q) + Len(r))
    BY <1>1
  <1>3. ASSUME NEW i \in DOMAIN (q \o r) PROVE (q \o r)[i] \in Range(q) \cup Range(r)
    <2>1. CASE i \in 1..Len(q)
      BY <1>1, <1>2, <2>1 DEF Range
    <2>2. CASE i \notin 1..Len(q)
      <3>1. i - Len(q) \in 1..Len(r) /\ i = Len(q) + (i - Len(q))
        BY <1>1, <1>2, <2>2
      <3>. QED  BY <1>1, <1>2, <3>1 DEF Range
    <2>. QED  BY <2>1, <2>2
  <1>4. \A i \in DOMAIN q : i \in DOMAIN (q \o r) /\ q[i] = (q \o r)[i]
    BY <1>1, <1>2
  <1>5. \A i \in DOMAIN r :
           Len(q) + i \in DOMAIN (q \o r) /\ r[i] = (q \o r)[Len(q) + i]
    BY <1>1, <1>2
  <1>6. Range(q) \subseteq Range(q \o r) /\ Range(r) \subseteq Range(q \o r)
    BY <1>4, <1>5 DEF Range
  <1>7. Range(q \o r) \subseteq Range(q) \cup Range(r)
    BY <1>3 DEF Range
  <1>. QED  BY <1>6, <1>7
==============================================================================
