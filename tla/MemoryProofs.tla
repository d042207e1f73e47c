---------------------------- MODULE MemoryProofs ----------------------------
(***************************************************************************)
(* The descriptor of libs/mem for any size of block, any heap, any texts   *)
(* and any sequence of calls: the telemetry agrees with the descriptor     *)
(* as long as no call has left its block, which no call does before Ctrl+C *)
(* comes, and text and terminator are right until then.                    *)
(***************************************************************************)
EXTENDS Memory, TLAPS, SequenceTheorems, WellFoundedInduction

Descriptor ==
    [data : Seq(Nat), length : Nat, string_length : Nat, is_string : BOOLEAN]

\* The block is what RoundUp() can ask for, and the elements lie inside of it.
Sized(d) ==
    /\ d.length <= Len(d.data)
    /\ RoundUp(Len(d.data)) = Len(d.data)
    /\ Len(d.data) <= SIZE_MAX

\* What the telemetry ought to say of d.
Accounts(d) ==
    [reserved |-> Len(d.data), payload |-> d.length, overhead |-> Len(d.data) - d.length]

Balanced(d, tele) == d \in Descriptor /\ Sized(d) /\ tele = Accounts(d)

-----------------------------------------------------------------------------
(***************************************************************************)
(* Sizes.                                                                  *)
(***************************************************************************)

\* Division with remainder.
LEMMA DivBounds ==
    ASSUME NEW a \in Nat, NEW b \in Nat \ {0}
    PROVE  /\ a \div b \in Nat
           /\ (a \div b) * b <= a
           /\ a < (a \div b) * b + b
OBVIOUS

\* Multiples of one number are ordered as their factors are.
LEMMA FactorsAreOrdered ==
    ASSUME NEW p \in Nat, NEW q \in Nat, NEW b \in Nat \ {0}, p * b < q * b + b
    PROVE  p <= q
OBVIOUS

\* ... and the other way round.
LEMMA MultiplesAreOrdered ==
    ASSUME NEW p \in Nat, NEW q \in Nat, NEW b \in Nat, p <= q
    PROVE  p * b <= q * b
OBVIOUS

\* RoundUp() gives room, does not round twice, and keeps the order.
LEMMA RoundUpFacts ==
    ASSUME NEW c \in Nat
    PROVE  /\ RoundUp(c) \in Nat
           /\ c <= RoundUp(c)
           /\ RoundUp(RoundUp(c)) = RoundUp(c)
           /\ \A e \in Nat : c <= e => RoundUp(c) <= RoundUp(e)
           /\ RoundUp(0) = 0
<1> DEFINE q(n) == (n + BLOCK - 1) \div BLOCK
<1>1. BLOCK \in Nat \ {0}
  BY MemoryAssumption
<1>2. \A n \in Nat : q(n) \in Nat /\ q(n) * BLOCK <= n + BLOCK - 1
                     /\ n + BLOCK - 1 < q(n) * BLOCK + BLOCK
  <2>1. TAKE n \in Nat
  <2>2. n + BLOCK - 1 \in Nat
    BY <1>1
  <2> QED
    BY <1>1, <2>2, DivBounds
<1>3. \A n \in Nat : RoundUp(n) = q(n) * BLOCK
  BY DEF RoundUp
<1> HIDE DEF q
<1>4. RoundUp(c) \in Nat /\ c <= RoundUp(c)
  <2>1. q(c) * BLOCK \in Nat
    BY <1>1, <1>2
  <2> QED
    BY <1>1, <1>2, <1>3, <2>1
<1>5. RoundUp(RoundUp(c)) = RoundUp(c)
  <2>1. q(RoundUp(c)) <= q(c)
    <3>1. q(RoundUp(c)) * BLOCK < q(c) * BLOCK + BLOCK
      BY <1>1, <1>2, <1>3, <1>4
    <3> QED
      BY <1>1, <1>2, <1>4, <3>1, FactorsAreOrdered
  <2>2. q(c) <= q(RoundUp(c))
    <3>1. q(c) * BLOCK < q(RoundUp(c)) * BLOCK + BLOCK
      BY <1>1, <1>2, <1>3, <1>4
    <3> QED
      BY <1>1, <1>2, <1>4, <3>1, FactorsAreOrdered
  <2>3. q(RoundUp(c)) = q(c)
    BY <1>2, <1>4, <2>1, <2>2
  <2> QED
    BY <1>3, <1>4, <2>3
<1>6. ASSUME NEW e \in Nat, c <= e
      PROVE  RoundUp(c) <= RoundUp(e)
  <2>1. q(c) * BLOCK < q(e) * BLOCK + BLOCK
    <3>1. q(c) * BLOCK <= c + BLOCK - 1 /\ q(c) * BLOCK \in Nat
      BY <1>1, <1>2
    <3>2. e + BLOCK - 1 < q(e) * BLOCK + BLOCK /\ q(e) * BLOCK \in Nat
      BY <1>1, <1>2
    <3> QED
      BY <1>1, <1>6, <3>1, <3>2
  <2>2. q(c) <= q(e)
    BY <1>1, <1>2, <2>1, FactorsAreOrdered
  <2> QED
    BY <1>1, <1>2, <1>3, <2>2, MultiplesAreOrdered
<1>7. RoundUp(0) = 0
  <2>1. q(0) * BLOCK < 0 * BLOCK + BLOCK
    BY <1>1, <1>2
  <2>2. q(0) <= 0
    BY <1>1, <1>2, <2>1, FactorsAreOrdered
  <2> QED
    BY <1>1, <1>2, <1>3, <2>2
<1> QED
  BY <1>4, <1>5, <1>6, <1>7

\* Min() of naturals.
LEMMA MinFacts ==
    ASSUME NEW S \in SUBSET Nat, S # {}
    PROVE  Min(S) \in S /\ \A y \in S : Min(S) <= y
<1> DEFINE R == {ss \in Nat \X Nat : ss[1] < ss[2]}
<1>1. IsWellFoundedOn(R, Nat)
  BY NatLessThanWellFounded DEF OpToRel
<1>2. PICK x \in S : \A y \in S : ~(<<y, x>> \in R)
  BY <1>1, WFMin
<1>3. ASSUME NEW y \in S PROVE x <= y
  <2>1. <<y, x>> \in Nat \X Nat /\ <<y, x>>[1] = y /\ <<y, x>>[2] = x
    OBVIOUS
  <2> QED
    BY <1>2, <2>1
<1> QED
  BY <1>3 DEF Min

\* The smaller of two lengths.
LEMMA MinOfTwo ==
    ASSUME NEW a \in Nat, NEW b \in Nat
    PROVE  Min({a, b}) = IF a <= b THEN a ELSE b
BY MinFacts

-----------------------------------------------------------------------------
(***************************************************************************)
(* Bytes.                                                                  *)
(***************************************************************************)

\* memmove() stays inside the block.
LEMMA PutFacts ==
    ASSUME NEW data \in Seq(Nat), NEW offset \in Nat, NEW s \in Seq(Nat)
    PROVE  /\ Put(data, offset, s) \in Seq(Nat)
           /\ Len(Put(data, offset, s)) = Len(data)
           /\ \A i \in 1..Len(data) :
                 Put(data, offset, s)[i] =
                    IF i \in offset + 1 .. offset + Len(s) THEN s[i - offset] ELSE data[i]
<1>1. \A i \in offset + 1 .. offset + Len(s) : s[i - offset] \in Nat
  OBVIOUS
<1> QED
  BY <1>1 DEF Put

\* e is d, but for a terminator behind the first at bytes.
Terminated(e, d, at, runs) ==
    /\ e \in Descriptor
    /\ Len(e.data) = Len(d.data) /\ e.length = d.length
    /\ e.string_length = d.string_length /\ e.is_string = d.is_string
    /\ \A i \in 1..Len(d.data) :
          e.data[i] = IF runs /\ i = at + 1 THEN 0 ELSE d.data[i]

\* The terminator changes one byte at most.
LEMMA TerminateFacts ==
    ASSUME NEW d \in Descriptor, NEW at \in Nat, NEW runs \in BOOLEAN
    PROVE  Terminated(TerminateIf(runs, d, at), d, at, runs)
<1>1. <<0>> \in Seq(Nat) /\ Len(<<0>>) = 1 /\ <<0>>[1] = 0
  OBVIOUS
<1>2. d.data \in Seq(Nat)
  BY DEF Descriptor
<1>3. /\ Put(d.data, at, <<0>>) \in Seq(Nat)
      /\ Len(Put(d.data, at, <<0>>)) = Len(d.data)
      /\ \A i \in 1..Len(d.data) :
            Put(d.data, at, <<0>>)[i] = IF i = at + 1 THEN 0 ELSE d.data[i]
  <2>1. /\ Put(d.data, at, <<0>>) \in Seq(Nat)
        /\ Len(Put(d.data, at, <<0>>)) = Len(d.data)
        /\ \A i \in 1..Len(d.data) :
              Put(d.data, at, <<0>>)[i] =
                 IF i \in at + 1 .. at + Len(<<0>>) THEN <<0>>[i - at] ELSE d.data[i]
    BY <1>1, <1>2, PutFacts, ZenonT(30)
  <2>2. \A i \in at + 1 .. at + Len(<<0>>) : i = at + 1 /\ <<0>>[i - at] = 0
    BY <1>1
  <2>3. at + 1 \in at + 1 .. at + Len(<<0>>)
    BY <1>1
  <2> QED
    BY <2>1, <2>2, <2>3
<1> QED
  BY <1>3 DEF Terminated, TerminateIf, Terminate, Descriptor

\* Another block changes neither what is equal in the descriptor nor its size.
LEMMA SameSize ==
    ASSUME NEW d, NEW tele, Balanced(d, tele),
           NEW e \in Descriptor, Len(e.data) = Len(d.data), e.length = d.length
    PROVE  Balanced(e, tele)
BY DEF Balanced, Sized, Accounts

-----------------------------------------------------------------------------
(***************************************************************************)
(* mem_resize().                                                           *)
(***************************************************************************)

\* The old block or the new one has room for count elements and keeps the old ones.
LEMMA BlockFacts ==
    ASSUME NEW d, NEW tele, Balanced(d, tele), NEW count \in Nat \ {0}, NEW flags,
           NEW heap \in Heaps, RoundUp(count) <= SIZE_MAX
    PROVE  LET data == Zeroed(d, count, flags, Block(d, count, flags, heap))
           IN  /\ data \in Seq(Nat)
               /\ count <= Len(data) /\ RoundUp(Len(data)) = Len(data) /\ Len(data) <= SIZE_MAX
               /\ "RELEASE_UNUSED" \notin flags => Len(d.data) <= Len(data)
               /\ \A i \in 1..count : i <= d.length => data[i] = d.data[i]
<1> DEFINE block == Block(d, count, flags, heap)
           data  == Zeroed(d, count, flags, block)
<1>1. /\ d.data \in Seq(Nat) /\ Len(d.data) \in Nat /\ d.length \in Nat
      /\ d.length <= Len(d.data) /\ RoundUp(Len(d.data)) = Len(d.data) /\ Len(d.data) <= SIZE_MAX
  BY DEF Balanced, Descriptor, Sized
<1>2. heap.fill \in Nat
  <2>1. heap.fill \in {0, 1}
    BY DEF Heaps
  <2> QED
    BY <2>1
<1>3. RoundUp(count) \in Nat /\ count <= RoundUp(count) /\ RoundUp(RoundUp(count)) = RoundUp(count)
  BY RoundUpFacts
<1>4. /\ block \in Seq(Nat)
      /\ count <= Len(block) /\ RoundUp(Len(block)) = Len(block) /\ Len(block) <= SIZE_MAX
      /\ "RELEASE_UNUSED" \notin flags => Len(d.data) <= Len(block)
      /\ \A i \in 1..count : i <= d.length => block[i] = d.data[i]
  <2>1. CASE NeedsBlock(d, count, flags)
    <3>1. block = [i \in 1..RoundUp(count) |-> IF i <= Len(d.data) THEN d.data[i] ELSE heap.fill]
      BY <2>1 DEF Block
    <3>2. \A i \in 1..RoundUp(count) : (IF i <= Len(d.data) THEN d.data[i] ELSE heap.fill) \in Nat
      BY <1>1, <1>2, <1>3
    <3>3. block \in Seq(Nat) /\ Len(block) = RoundUp(count)
      BY <1>3, <3>1, <3>2
    <3>4. \A i \in 1..count : i <= d.length => block[i] = d.data[i]
      BY <1>1, <1>3, <3>1
    <3>5. "RELEASE_UNUSED" \notin flags => Len(d.data) <= Len(block)
      <4>1. d.data = <<>> => Len(d.data) = 0
        OBVIOUS
      <4> QED
        BY <1>1, <1>3, <2>1, <3>3, <4>1 DEF NeedsBlock
    <3> HIDE DEF block
    <3> QED
      BY <1>3, <3>3, <3>4, <3>5
  <2>2. CASE ~NeedsBlock(d, count, flags)
    <3>1. block = d.data
      BY <2>2 DEF Block
    <3>2. RoundUp(count) <= Len(d.data)
      BY <1>1, <1>3, <2>2 DEF NeedsBlock
    <3> HIDE DEF block
    <3> QED
      BY <1>1, <1>3, <3>1, <3>2
  <2> QED
    BY <2>1, <2>2
<1> HIDE DEF block
<1>5. /\ data \in Seq(Nat) /\ Len(data) = Len(block)
      /\ \A i \in 1..count : i <= d.length => data[i] = block[i]
  <2>1. CASE "ZERO_NEW_MEMORY" \in flags
    <3>1. data = [i \in DOMAIN block |-> IF i \in d.length + 1 .. count THEN 0 ELSE block[i]]
      BY <2>1 DEF Zeroed
    <3>2. DOMAIN block = 1..Len(block) /\ Len(block) \in Nat
      BY <1>4
    <3>3. \A i \in 1..Len(block) : (IF i \in d.length + 1 .. count THEN 0 ELSE block[i]) \in Nat
      BY <1>4
    <3>4. data \in Seq(Nat) /\ Len(data) = Len(block)
      BY <3>1, <3>2, <3>3
    <3>5. \A i \in 1..count : i <= d.length => data[i] = block[i]
      BY <1>1, <1>4, <3>1, <3>2
    <3> QED
      BY <3>4, <3>5
  <2>2. CASE "ZERO_NEW_MEMORY" \notin flags
    BY <1>4, <2>2 DEF Zeroed
  <2> QED
    BY <2>1, <2>2
<1> HIDE DEF data
<1>6. \A i \in 1..count : i <= d.length => data[i] = d.data[i]
  BY <1>4, <1>5
<1> QED
  BY <1>4, <1>5, <1>6 DEF data, block

\* The string length that is left.
Keeps(d, count) == IF d.is_string THEN KeptLength(d, count) ELSE 0

\* r is the outcome of a m_resize() that reached its end; runs says whether it
\* wrote the terminator.
Reshaped(r, d, tele, count, flags, runs) ==
    /\ Balanced(r.m, r.tele)
    /\ r.ok
    /\ r.m.length = count /\ r.m.is_string = d.is_string
    /\ r.m.string_length = Keeps(d, count)
    /\ Keeps(d, count) \in Nat /\ Keeps(d, count) < count
    /\ "RELEASE_UNUSED" \notin flags => Len(d.data) <= Len(r.m.data)
    /\ \A i \in 1..Keeps(d, count) : i <= d.length => r.m.data[i] = d.data[i]
    /\ d.is_string /\ runs => r.m.data[Keeps(d, count) + 1] = 0
    /\ ~d.is_string => \A i \in 1..count : i <= d.length => r.m.data[i] = d.data[i]

\* m_resize() to another size than 0, once it has its memory.
LEMMA ReshapeFacts ==
    ASSUME NEW d, NEW tele, Balanced(d, tele), NEW count \in Nat \ {0}, NEW flags,
           NEW heap \in Heaps, NEW t \in Nat, RoundUp(count) <= SIZE_MAX
    PROVE  Reshaped(Reshape(d, tele, count, flags, heap, t), d, tele, count, flags, Runs(3, t))
<1> DEFINE data    == Zeroed(d, count, flags, Block(d, count, flags, heap))
           kept    == Keeps(d, count)
           resized == [d EXCEPT !.data = data, !.length = count, !.string_length = kept]
           r       == Reshape(d, tele, count, flags, heap, t)
           runs    == Runs(3, t) /\ d.is_string
           final   == TerminateIf(runs, resized, kept)
<1>1. /\ d \in Descriptor /\ d.length \in Nat /\ d.string_length \in Nat
      /\ d.is_string \in BOOLEAN /\ Len(d.data) \in Nat
      /\ tele = Accounts(d)
  BY DEF Balanced, Descriptor
<1>2. /\ data \in Seq(Nat)
      /\ count <= Len(data) /\ RoundUp(Len(data)) = Len(data) /\ Len(data) <= SIZE_MAX
      /\ "RELEASE_UNUSED" \notin flags => Len(d.data) <= Len(data)
      /\ \A i \in 1..count : i <= d.length => data[i] = d.data[i]
  BY BlockFacts
<1> HIDE DEF data
<1>3. kept \in Nat /\ kept < count
  <2>1. count - 1 \in Nat
    OBVIOUS
  <2> QED
    BY <1>1, <2>1, MinOfTwo DEF Keeps, KeptLength
<1> HIDE DEF kept
<1>4. /\ resized \in Descriptor /\ resized.data = data /\ resized.length = count
      /\ resized.string_length = kept /\ resized.is_string = d.is_string
  BY <1>1, <1>2, <1>3 DEF Descriptor
<1> HIDE DEF resized
<1>5. /\ final \in Descriptor /\ Len(final.data) = Len(data) /\ final.length = count
      /\ final.string_length = kept /\ final.is_string = d.is_string
      /\ \A i \in 1..Len(data) :
            final.data[i] = IF runs /\ i = kept + 1 THEN 0 ELSE data[i]
  <2>1. runs \in BOOLEAN
    OBVIOUS
  <2> HIDE DEF runs
  <2>2. Terminated(final, resized, kept, runs)
    BY <1>3, <1>4, <2>1, TerminateFacts, Zenon
  <2> QED
    BY <1>4, <2>2 DEF Terminated
<1> HIDE DEF final
<1>6. /\ r.m = final /\ r.ok
      /\ r.tele = [reserved |-> Shift(tele.reserved, Len(d.data), Len(data)),
                   payload  |-> Shift(tele.payload, d.length, count),
                   overhead |-> Shift(tele.overhead, Len(d.data) - d.length, Len(data) - count)]
  BY DEF Reshape, Same, r, final, resized, kept, data, runs, Keeps
<1> HIDE DEF r
<1>7. r.tele = Accounts(final)
  <2>1. Len(data) \in Nat
    BY <1>2
  <2>2. /\ Shift(Len(d.data), Len(d.data), Len(data)) = Len(data)
        /\ Shift(d.length, d.length, count) = count
        /\ Shift(Len(d.data) - d.length, Len(d.data) - d.length, Len(data) - count)
              = Len(data) - count
    BY <1>1, <2>1 DEF Shift
  <2>3. /\ tele.reserved = Len(d.data) /\ tele.payload = d.length
        /\ tele.overhead = Len(d.data) - d.length
    BY <1>1 DEF Accounts
  <2> QED
    BY <1>5, <1>6, <2>2, <2>3 DEF Accounts
<1>8. Balanced(r.m, r.tele)
  BY <1>2, <1>5, <1>6, <1>7 DEF Balanced, Sized
<1>9. \A i \in 1..kept : i <= d.length => r.m.data[i] = d.data[i]
  BY <1>2, <1>3, <1>5, <1>6
<1>10. d.is_string /\ Runs(3, t) => r.m.data[kept + 1] = 0
  <2>1. kept + 1 \in 1..Len(data)
    BY <1>2, <1>3
  <2> QED
    BY <1>5, <1>6, <2>1
<1>11. ~d.is_string => \A i \in 1..count : i <= d.length => r.m.data[i] = d.data[i]
  BY <1>2, <1>5, <1>6
<1> QED
  BY <1>2, <1>3, <1>5, <1>6, <1>8, <1>9, <1>10, <1>11 DEF Reshaped, r, kept

\* mem_delete() gives everything back.
LEMMA DeleteFacts ==
    ASSUME NEW d, NEW tele, Balanced(d, tele)
    PROVE  LET r == Delete(d, tele)
           IN  /\ Balanced(r.m, r.tele) /\ r.ok
               /\ r.m.length = 0 /\ r.m.string_length = 0 /\ r.m.data = <<>>
               /\ r.m.is_string = d.is_string
<1> DEFINE e == [d EXCEPT !.data = <<>>, !.length = 0, !.string_length = 0]
           r == Delete(d, tele)
<1>1. /\ d \in Descriptor /\ d.length \in Nat /\ Len(d.data) \in Nat
      /\ tele.reserved = Len(d.data) /\ tele.payload = d.length
      /\ tele.overhead = Len(d.data) - d.length
  BY DEF Balanced, Descriptor, Accounts
<1>2. /\ e \in Descriptor /\ e.data = <<>> /\ e.length = 0 /\ e.string_length = 0
      /\ e.is_string = d.is_string
  <2>1. <<>> \in Seq(Nat)
    OBVIOUS
  <2> QED
    BY <1>1, <2>1 DEF Descriptor
<1> HIDE DEF e
<1>3. /\ r.m = e /\ r.ok
      /\ r.tele = [reserved |-> tele.reserved - Len(d.data),
                   payload  |-> tele.payload - d.length,
                   overhead |-> tele.overhead - (Len(d.data) - d.length)]
  BY DEF Delete, Same, e
<1> HIDE DEF r
<1>4. r.tele = [reserved |-> 0, payload |-> 0, overhead |-> 0]
  BY <1>1, <1>3
<1>5. Len(<<>>) = 0 /\ RoundUp(0) = 0 /\ 0 <= SIZE_MAX
  BY RoundUpFacts, MemoryAssumption
<1>6. Balanced(e, r.tele)
  BY <1>2, <1>4, <1>5 DEF Balanced, Sized, Accounts
<1> QED
  BY <1>2, <1>3, <1>6 DEF r

\* m_resize() to 0 keeps the block.
LEMMA EmptyFacts ==
    ASSUME NEW d, NEW tele, Balanced(d, tele), NEW t \in Nat
    PROVE  LET r == Empty(d, tele, t)
           IN  /\ Balanced(r.m, r.tele) /\ r.ok
               /\ r.m.length = 0 /\ r.m.string_length = 0
               /\ Len(r.m.data) = Len(d.data) /\ r.m.is_string = d.is_string
<1> DEFINE d0    == [d EXCEPT !.length = 0, !.string_length = 0]
           runs  == Runs(3, t) /\ d.is_string /\ d.data # <<>>
           final == TerminateIf(runs, d0, 0)
           r     == Empty(d, tele, t)
<1>1. /\ d \in Descriptor /\ d.length \in Nat /\ Len(d.data) \in Nat
      /\ tele = [reserved |-> Len(d.data), payload |-> d.length,
                 overhead |-> Len(d.data) - d.length]
      /\ RoundUp(Len(d.data)) = Len(d.data) /\ Len(d.data) <= SIZE_MAX
  BY DEF Balanced, Descriptor, Accounts, Sized
<1>2. /\ d0 \in Descriptor /\ d0.data = d.data /\ d0.length = 0 /\ d0.string_length = 0
      /\ d0.is_string = d.is_string
  BY <1>1 DEF Descriptor
<1> HIDE DEF d0
<1>3. runs \in BOOLEAN
  OBVIOUS
<1> HIDE DEF runs
<1>4. Terminated(final, d0, 0, runs)
  BY <1>2, <1>3, TerminateFacts, Zenon
<1>5. /\ r.m = final /\ r.ok
      /\ r.tele = [tele EXCEPT !.payload = @ - d.length, !.overhead = @ + d.length]
  BY DEF Empty, Same, final, d0, runs
<1> HIDE DEF r, final
<1>6. r.tele = [reserved |-> Len(d.data), payload |-> 0, overhead |-> Len(d.data)]
  <2>1. /\ d.length - d.length = 0
        /\ (Len(d.data) - d.length) + d.length = Len(d.data)
    BY <1>1
  <2> QED
    BY <1>1, <1>5, <2>1
<1>7. /\ final \in Descriptor /\ Len(final.data) = Len(d.data) /\ final.length = 0
      /\ final.string_length = 0 /\ final.is_string = d.is_string
  BY <1>2, <1>4 DEF Terminated
<1>8. Balanced(final, r.tele)
  BY <1>1, <1>6, <1>7 DEF Balanced, Sized, Accounts
<1> QED
  BY <1>5, <1>7, <1>8 DEF r

\* Whatever the outcome of m_resize(), the telemetry agrees with the descriptor.
LEMMA ResizeBalances ==
    ASSUME NEW d, NEW tele, Balanced(d, tele), NEW count \in Nat, NEW flags,
           NEW heap \in Heaps, NEW t \in Nat
    PROVE  LET r == Resize(d, tele, count, flags, heap, t)
           IN  /\ Balanced(r.m, r.tele)
               /\ r.m.is_string = d.is_string
               /\ "RELEASE_UNUSED" \notin flags => Len(d.data) <= Len(r.m.data)
<1> DEFINE r == Resize(d, tele, count, flags, heap, t)
           frees == count = 0 /\ "RELEASE_UNUSED" \in flags /\ d.data # <<>>
<1>1. d \in Descriptor /\ d.length \in Nat /\ Len(d.data) \in Nat /\ d.is_string \in BOOLEAN
  BY DEF Balanced, Descriptor
<1>2. /\ Same(d, tele).m = d /\ Same(d, tele).tele = tele /\ Same(d, tele).ok
      /\ Failed(d, tele).m = d /\ Failed(d, tele).tele = tele /\ ~Failed(d, tele).ok
  BY DEF Same, Failed
<1>3. \/ r = Same(d, tele)
      \/ r = Failed(d, tele)
      \/ frees /\ r = Delete(d, tele)
      \/ r = Empty(d, tele, t)
      \/ count # 0 /\ RoundUp(count) <= SIZE_MAX /\ r = Reshape(d, tele, count, flags, heap, t)
  <2>1. RoundUp(count) \in Nat /\ SIZE_MAX \in Nat
    BY RoundUpFacts, MemoryAssumption
  <2> QED
    BY <2>1 DEF Resize
<1> DEFINE Claim == /\ Balanced(r.m, r.tele)
                    /\ r.m.is_string = d.is_string
                    /\ "RELEASE_UNUSED" \notin flags => Len(d.data) <= Len(r.m.data)
<1> HIDE DEF r
<1>4. ASSUME r = Same(d, tele) \/ r = Failed(d, tele) PROVE Claim
  BY <1>1, <1>2, <1>4
<1>5. ASSUME frees, r = Delete(d, tele) PROVE Claim
  BY <1>5, DeleteFacts
<1>6. ASSUME r = Empty(d, tele, t) PROVE Claim
  <2>1. /\ Balanced(Empty(d, tele, t).m, Empty(d, tele, t).tele)
        /\ Len(Empty(d, tele, t).m.data) = Len(d.data)
        /\ Empty(d, tele, t).m.is_string = d.is_string
    BY EmptyFacts
  <2> QED
    BY <1>1, <1>6, <2>1
<1>7. ASSUME count # 0, RoundUp(count) <= SIZE_MAX, r = Reshape(d, tele, count, flags, heap, t)
      PROVE  Claim
  <2> DEFINE q == Reshape(d, tele, count, flags, heap, t)
  <2>1. /\ Balanced(q.m, q.tele) /\ q.m.is_string = d.is_string
        /\ "RELEASE_UNUSED" \notin flags => Len(d.data) <= Len(q.m.data)
    <3>1. Reshaped(q, d, tele, count, flags, Runs(3, t))
      BY <1>7, ReshapeFacts
    <3> QED
      BY <3>1 DEF Reshaped
  <2> QED
    BY <1>7, <2>1
<1> QED
  BY <1>3, <1>4, <1>5, <1>6, <1>7 DEF r

\* An outcome that has not left the block.
Clean(r) == r = [m |-> r.m, tele |-> r.tele, ok |-> r.ok, past |-> FALSE]

\* m_resize() never leaves the block.
LEMMA ResizeIsClean ==
    ASSUME NEW d, NEW tele, NEW count, NEW flags, NEW heap, NEW t
    PROVE  /\ Clean(Resize(d, tele, count, flags, heap, t))
           /\ Clean(Same(d, tele)) /\ Clean(Failed(d, tele))
BY DEF Clean, Resize, Same, Failed, Delete, Empty, Reshape

-----------------------------------------------------------------------------
(***************************************************************************)
(* mem_core_string().                                                      *)
(***************************************************************************)

\* A source that the functions may be called with: a string of the caller, or the
\* rest of the destination's own string.
IsSource(source, d) ==
    /\ source.text \in Seq(Nat) /\ source.offset \in Nat
    /\ source.inside => /\ ~source.measured
                        /\ d.is_string /\ d.string_length < d.length
                        /\ source.offset + Len(source.text) = d.string_length
                        /\ \A i \in 1..Len(source.text) :
                              source.text[i] = d.data[source.offset + i]

\* s has the bytes of the source, where they are now.
Reads(s, data, source, bytes) ==
    /\ s \in Seq(Nat) /\ Len(s) = bytes
    /\ \A i \in 1..bytes :
          s[i] = IF source.inside THEN data[source.offset + i] ELSE source.text[i]

\* The bytes that a transfer reads are those of the source.
LEMMA TransferredFacts ==
    ASSUME NEW d, NEW source, IsSource(source, d), NEW data \in Seq(Nat),
           NEW bytes \in 0..Len(source.text),
           source.inside => d.string_length <= Len(data)
    PROVE  Reads(Transferred(data, source, bytes), data, source, bytes)
<1>1. /\ source.text \in Seq(Nat) /\ source.offset \in Nat /\ Len(source.text) \in Nat
      /\ bytes \in Nat /\ bytes <= Len(source.text)
  BY DEF IsSource
<1>2. CASE source.inside
  <2>1. source.offset + bytes <= Len(data) /\ Len(data) \in Nat
    BY <1>1, <1>2 DEF IsSource
  <2>2. \A i \in source.offset + 1 .. source.offset + bytes : data[i] \in Nat
    BY <1>1, <2>1, SMTT(30)
  <2> DEFINE s == SubSeq(data, source.offset + 1, source.offset + bytes)
  <2>3. /\ s \in Seq(Nat)
        /\ Len(s) = IF source.offset + 1 <= source.offset + bytes
                    THEN (source.offset + bytes) - (source.offset + 1) + 1 ELSE 0
        /\ \A i \in 1 .. (source.offset + bytes) - (source.offset + 1) + 1 :
              s[i] = data[(source.offset + 1) + i - 1]
    <3>1. source.offset + 1 \in Int /\ source.offset + bytes \in Int
      BY <1>1
    <3> QED
      BY <2>2, <3>1, SubSeqProperties
  <2> HIDE DEF s
  <2>4. Len(s) = bytes /\ \A i \in 1..bytes : s[i] = data[source.offset + i]
    <3>1. (source.offset + bytes) - (source.offset + 1) + 1 = bytes
      BY <1>1
    <3>2. \A i \in 1..bytes : (source.offset + 1) + i - 1 = source.offset + i
      BY <1>1
    <3>3. source.offset + 1 <= source.offset + bytes <=> bytes # 0
      BY <1>1
    <3> QED
      BY <2>3, <3>1, <3>2, <3>3
  <2> QED
    BY <1>2, <2>3, <2>4 DEF Reads, Transferred, s
<1>3. CASE ~source.inside
  <2> DEFINE s == SubSeq(source.text, 1, bytes)
  <2>1. \A i \in 1..bytes : source.text[i] \in Nat
    BY <1>1
  <2>2. /\ s \in Seq(Nat)
        /\ Len(s) = IF 1 <= bytes THEN bytes - 1 + 1 ELSE 0
        /\ \A i \in 1 .. bytes - 1 + 1 : s[i] = source.text[1 + i - 1]
    BY <1>1, <2>1, SubSeqProperties
  <2> HIDE DEF s
  <2>3. Len(s) = bytes /\ \A i \in 1..bytes : s[i] = source.text[i]
    BY <1>1, <2>2
  <2> QED
    BY <1>3, <2>2, <2>3 DEF Reads, Transferred, s
<1> QED
  BY <1>2, <1>3

\* e is d with the bytes s behind the first offset ones, ended at visible.
Landed(e, d, s, offset, visible, terminates) ==
    /\ e \in Descriptor
    /\ Len(e.data) = Len(d.data) /\ e.length = d.length
    /\ e.string_length = visible /\ e.is_string = d.is_string
    /\ \A i \in 1..Len(d.data) :
          e.data[i] = IF terminates /\ i = visible + 1 THEN 0
                      ELSE IF i \in offset + 1 .. offset + Len(s) THEN s[i - offset]
                      ELSE d.data[i]

\* The end of every transfer.
LEMMA LandFacts ==
    ASSUME NEW d \in Descriptor, NEW source, NEW offset \in Nat, NEW bytes, NEW visible \in Nat,
           NEW terminates \in BOOLEAN, Transferred(d.data, source, bytes) \in Seq(Nat)
    PROVE  Landed(Land(d, source, offset, bytes, visible, terminates),
                  d, Transferred(d.data, source, bytes), offset, visible, terminates)
<1> DEFINE s     == Transferred(d.data, source, bytes)
           moved == [d EXCEPT !.data = Put(d.data, offset, s)]
           ended == TerminateIf(terminates, moved, visible)
           e     == Land(d, source, offset, bytes, visible, terminates)
<1>1. d.data \in Seq(Nat) /\ Len(d.data) \in Nat
  BY DEF Descriptor
<1> HIDE DEF s
<1>2. s \in Seq(Nat)
  BY DEF s
<1>3. /\ Put(d.data, offset, s) \in Seq(Nat) /\ Len(Put(d.data, offset, s)) = Len(d.data)
      /\ \A i \in 1..Len(d.data) :
            Put(d.data, offset, s)[i] =
               IF i \in offset + 1 .. offset + Len(s) THEN s[i - offset] ELSE d.data[i]
  BY <1>1, <1>2, PutFacts
<1>4. /\ moved \in Descriptor /\ moved.data = Put(d.data, offset, s) /\ moved.length = d.length
      /\ moved.is_string = d.is_string
  BY <1>3 DEF Descriptor
<1> HIDE DEF moved
<1>5. Terminated(ended, moved, visible, terminates)
  BY <1>4, TerminateFacts, Zenon
<1>6. e = [ended EXCEPT !.string_length = visible]
  BY DEF Land, ended, moved, s
<1> HIDE DEF ended, e
<1>7. /\ e \in Descriptor /\ e.data = ended.data /\ e.length = ended.length
      /\ e.string_length = visible /\ e.is_string = ended.is_string
  BY <1>5, <1>6 DEF Terminated, Descriptor
<1>8. /\ Len(ended.data) = Len(d.data) /\ ended.length = d.length
      /\ ended.is_string = d.is_string
      /\ \A i \in 1..Len(d.data) :
            ended.data[i] = IF terminates /\ i = visible + 1 THEN 0
                            ELSE Put(d.data, offset, s)[i]
  BY <1>3, <1>4, <1>5 DEF Terminated
<1>9. Landed(e, d, s, offset, visible, terminates)
  BY <1>3, <1>7, <1>8 DEF Landed
<1> QED
  BY <1>9 DEF e, s

\* The source fits into every block that is not smaller than the destination's.
LEMMA SourceFits ==
    ASSUME NEW d, NEW tele, Balanced(d, tele), NEW source, IsSource(source, d),
           NEW data, Len(d.data) <= Len(data), Len(data) \in Nat
    PROVE  source.inside => d.string_length <= Len(data)
BY DEF Balanced, Descriptor, Sized, IsSource

\* The numbers of the helpers.
LEMMA TimesFacts ==
    ASSUME NEW t \in 0..Never
    PROVE  /\ t \in Nat /\ Inside(t) \in Nat
           /\ \A i \in Nat : Runs(i, t) \in BOOLEAN
           /\ t = Never => Inside(t) = Never /\ \A i \in 1..LastHelper : Runs(i, t)
BY DEF Never, LastHelper, Inside, Runs

\* m_resize() and the bytes behind it.
LEMMA ResizeAndLandBalances ==
    ASSUME NEW d, NEW tele, Balanced(d, tele), NEW source, IsSource(source, d),
           NEW offset \in Nat, NEW bytes \in 0..Len(source.text), NEW visible \in Nat,
           NEW total \in Nat, NEW k \in Nat, NEW heap \in Heaps, NEW t \in 0..Never
    PROVE  LET r == ResizeAndLand(d, tele, source, offset, bytes, visible, total, k, heap, t)
           IN  Balanced(r.m, r.tele) /\ r.past \in BOOLEAN
<1> DEFINE q == IF Runs(k, t) THEN Resize(d, tele, total, {}, heap, Inside(t)) ELSE Same(d, tele)
           e == Land(q.m, source, offset, bytes, visible, Runs(k + 1, t))
           r == ResizeAndLand(d, tele, source, offset, bytes, visible, total, k, heap, t)
<1>1. Inside(t) \in Nat /\ Runs(k + 1, t) \in BOOLEAN
  BY TimesFacts
<1>2. Same(d, tele).m = d /\ Same(d, tele).tele = tele
  BY DEF Same
<1>3. Balanced(q.m, q.tele) /\ Len(d.data) <= Len(q.m.data)
  <2>1. CASE Runs(k, t)
    <3> DEFINE p == Resize(d, tele, total, {}, heap, Inside(t))
    <3>1. Balanced(p.m, p.tele) /\ Len(d.data) <= Len(p.m.data)
      BY <1>1, ResizeBalances
    <3> QED
      BY <2>1, <3>1
  <2>2. CASE ~Runs(k, t)
    <3>1. Len(d.data) \in Nat
      BY DEF Balanced, Descriptor
    <3> QED
      BY <1>2, <2>2, <3>1
  <2> QED
    BY <2>1, <2>2
<1> DEFINE leaves == PastBlock(q.m, offset, bytes)
<1>4. r = IF (~q.ok /\ t # k) \/ q.m.data = <<>> THEN Failed(q.m, q.tele)
          ELSE [q EXCEPT !.m = e, !.past = leaves]
  BY DEF ResizeAndLand
<1>5. Clean(q)
  BY ResizeIsClean
<1> HIDE DEF q
<1>6. q.m \in Descriptor /\ q.m.data \in Seq(Nat) /\ Len(q.m.data) \in Nat
  BY <1>3 DEF Balanced, Descriptor
<1>7. Transferred(q.m.data, source, bytes) \in Seq(Nat)
  BY <1>3, <1>6, SourceFits, TransferredFacts DEF Reads
<1>8. Landed(e, q.m, Transferred(q.m.data, source, bytes), offset, visible, Runs(k + 1, t))
  BY <1>1, <1>6, <1>7, LandFacts
<1> HIDE DEF e, r
<1>8a. leaves \in BOOLEAN
  BY DEF PastBlock
<1> HIDE DEF leaves
<1>9. Balanced(e, q.tele)
  BY <1>3, <1>8, SameSize DEF Landed
<1>10. CASE (~q.ok /\ t # k) \/ q.m.data = <<>>
  <2>1. r = Failed(q.m, q.tele)
    BY <1>4, <1>10
  <2> QED
    BY <1>3, <2>1 DEF Failed, r
<1>11. CASE ~((~q.ok /\ t # k) \/ q.m.data = <<>>)
  <2>1. r.m = e /\ r.tele = q.tele /\ r.past = leaves
    BY <1>4, <1>5, <1>11 DEF Clean
  <2> QED
    BY <1>8a, <1>9, <2>1 DEF r
<1> QED
  BY <1>10, <1>11

\* The bytes and m_resize() behind them.
LEMMA LandAndResizeBalances ==
    ASSUME NEW d, NEW tele, Balanced(d, tele), NEW source, IsSource(source, d),
           NEW bytes \in 0..Len(source.text), NEW visible \in Nat,
           NEW total \in Nat, NEW k \in Nat, NEW heap \in Heaps, NEW t \in 0..Never
    PROVE  LET r == LandAndResize(d, tele, source, bytes, visible, total, k, heap, t)
           IN  Balanced(r.m, r.tele) /\ r.past \in BOOLEAN
<1> DEFINE e == Land(d, source, 0, bytes, visible, Runs(k, t))
           p == IF Runs(k + 1, t) THEN Resize(e, tele, total, {}, heap, Inside(t))
                ELSE Same(e, tele)
           leaves == PastBlock(d, 0, bytes)
           r == LandAndResize(d, tele, source, bytes, visible, total, k, heap, t)
<1>1. Inside(t) \in Nat /\ Runs(k, t) \in BOOLEAN
  BY TimesFacts
<1>2. d \in Descriptor /\ d.data \in Seq(Nat) /\ Len(d.data) \in Nat
  BY DEF Balanced, Descriptor
<1>3. Transferred(d.data, source, bytes) \in Seq(Nat)
  <2>1. Len(d.data) <= Len(d.data)
    BY <1>2
  <2>2. source.inside => d.string_length <= Len(d.data)
    BY <1>2, <2>1, SourceFits
  <2> QED
    BY <1>2, <2>2, TransferredFacts DEF Reads
<1>4. Landed(e, d, Transferred(d.data, source, bytes), 0, visible, Runs(k, t))
  BY <1>1, <1>2, <1>3, LandFacts
<1>5. r = [p EXCEPT !.past = leaves]
  BY DEF LandAndResize
<1> HIDE DEF e, r
<1>6. Balanced(e, tele)
  BY <1>4, SameSize DEF Landed
<1>7. Balanced(p.m, p.tele) /\ Clean(p)
  <2> DEFINE q == Resize(e, tele, total, {}, heap, Inside(t))
  <2>1. Balanced(q.m, q.tele)
    BY <1>1, <1>6, ResizeBalances
  <2>2. Same(e, tele).m = e /\ Same(e, tele).tele = tele
    BY DEF Same
  <2> QED
    BY <1>6, <2>1, <2>2, ResizeIsClean
<1> HIDE DEF p
<1>8. leaves \in BOOLEAN
  BY DEF PastBlock
<1> HIDE DEF leaves
<1>9. r.m = p.m /\ r.tele = p.tele /\ r.past = leaves
  BY <1>5, <1>7 DEF Clean
<1> QED
  BY <1>7, <1>8, <1>9 DEF r

\* What the functions compute before the transfer are lengths.
LEMMA SourceLengthFacts ==
    ASSUME NEW d, NEW source, IsSource(source, d), NEW t \in 0..Never
    PROVE  /\ SourceLength(source, t) \in 0..Len(source.text)
           /\ Before(source) \in 1..2
           /\ t = Never => SourceLength(source, t) = Len(source.text)
<1>1. Len(source.text) \in Nat
  BY DEF IsSource
<1>2. t = Never => Runs(2, t)
  BY TimesFacts DEF LastHelper
<1> QED
  BY <1>1, <1>2 DEF SourceLength, Before

\* mem_core_string() keeps the telemetry right.
LEMMA CoreStringBalances ==
    ASSUME NEW d, NEW tele, Balanced(d, tele), NEW source, IsSource(source, d),
           NEW transfer, NEW heap \in Heaps, NEW t \in 0..Never
    PROVE  LET r == CoreString(d, tele, transfer, source, heap, t)
           IN  Balanced(r.m, r.tele) /\ r.past \in BOOLEAN
<1>1. /\ SourceLength(source, t) \in 0..Len(source.text) /\ Before(source) \in 1..2
      /\ SourceLength(source, t) \in Nat /\ Len(source.text) \in Nat /\ d.string_length \in Nat
  <2>1. SourceLength(source, t) \in 0..Len(source.text) /\ Before(source) \in 1..2
    BY SourceLengthFacts
  <2>2. Len(source.text) \in Nat /\ d.string_length \in Nat
    BY DEF IsSource, Balanced, Descriptor
  <2> QED
    BY <2>1, <2>2
<1>2. LET r == Replace(d, tele, source, heap, t)
      IN  Balanced(r.m, r.tele) /\ r.past \in BOOLEAN
  <2> DEFINE k       == Before(source)
             visible == SourceLength(source, t)
             total   == IF Runs(k + 1, t) THEN visible + 1 ELSE 0
             bytes   == IF Runs(k + 2, t) THEN visible ELSE 0
             r1 == LandAndResize(d, tele, source, bytes, visible, total, k + 3, heap, t)
             r2 == ResizeAndLand(d, tele, source, 0, bytes, visible, total, k + 3, heap, t)
  <2>1. total \in Nat /\ bytes \in 0..Len(source.text) /\ k + 3 \in Nat /\ visible \in Nat
    BY <1>1
  <2>2. Replace(d, tele, source, heap, t) = IF source.inside THEN r1 ELSE r2
    BY DEF Replace
  <2> HIDE DEF k, visible, total, bytes
  <2>3. Balanced(r1.m, r1.tele) /\ r1.past \in BOOLEAN
    BY <2>1, LandAndResizeBalances
  <2>4. Balanced(r2.m, r2.tele) /\ r2.past \in BOOLEAN
    BY <2>1, ResizeAndLandBalances
  <2> QED
    BY <2>2, <2>3, <2>4
<1>3. LET r == Append_(d, tele, source, heap, t)
      IN  Balanced(r.m, r.tele) /\ r.past \in BOOLEAN
  <2> DEFINE k       == Before(source)
             length  == SourceLength(source, t)
             old     == IF Runs(k + 1, t) THEN d.string_length ELSE 0
             visible == IF Runs(k + 2, t) THEN old + length ELSE length
             total   == IF Runs(k + 3, t) THEN visible + 1 ELSE 0
             offset  == IF Runs(k + 4, t) THEN old ELSE 0
             bytes   == IF Runs(k + 5, t) THEN length ELSE 0
             r == ResizeAndLand(d, tele, source, offset, bytes, visible, total, k + 6, heap, t)
  <2>1. k \in Nat /\ length \in Nat /\ old \in Nat
    BY <1>1
  <2>2. visible \in Nat
    BY <1>1, <2>1
  <2>3. total \in Nat /\ offset \in Nat /\ bytes \in 0..Len(source.text) /\ k + 6 \in Nat
    BY <1>1, <2>1, <2>2
  <2>4. Append_(d, tele, source, heap, t) \in {Same(d, tele), Failed(d, tele), r}
    BY DEF Append_
  <2> HIDE DEF k, length, old, visible, total, offset, bytes
  <2>5. Balanced(r.m, r.tele) /\ r.past \in BOOLEAN
    BY <2>2, <2>3, ResizeAndLandBalances
  <2>6. /\ Same(d, tele).m = d /\ Same(d, tele).tele = tele /\ Same(d, tele).past = FALSE
        /\ Failed(d, tele).m = d /\ Failed(d, tele).tele = tele /\ Failed(d, tele).past = FALSE
    BY DEF Same, Failed
  <2> HIDE DEF r
  <2> QED
    BY <2>4, <2>5, <2>6
<1> QED
  BY <1>2, <1>3 DEF CoreString, Failed

-----------------------------------------------------------------------------
(***************************************************************************)
(* The other functions.                                                    *)
(***************************************************************************)

\* mem_string_truncate() stays inside the block.
LEMMA TruncateBalances ==
    ASSUME NEW d, NEW tele, Balanced(d, tele), NEW length \in Nat, NEW t \in 0..Never
    PROVE  LET r == Truncate(d, tele, length, t) IN Balanced(r.m, r.tele) /\ r.past = FALSE
<1> DEFINE e == TerminateIf(Runs(2, t), d, length)
           c == [e EXCEPT !.string_length = length]
<1>1. d \in Descriptor /\ Runs(2, t) \in BOOLEAN
  BY TimesFacts DEF Balanced
<1>2. Terminated(e, d, length, Runs(2, t))
  BY <1>1, TerminateFacts
<1> HIDE DEF e
<1>3. c \in Descriptor /\ Len(c.data) = Len(d.data) /\ c.length = d.length
  BY <1>2 DEF Terminated, Descriptor
<1> HIDE DEF c
<1>4. Balanced(c, tele)
  BY <1>3, SameSize
<1>5. Truncate(d, tele, length, t) \in {Failed(d, tele), Same(d, tele), Same(c, tele)}
  BY DEF Truncate, c, e
<1> QED
  BY <1>4, <1>5 DEF Same, Failed

\* mem_finalize_string() does, too.
LEMMA FinalizeBalances ==
    ASSUME NEW d, NEW tele, Balanced(d, tele), NEW s \in Seq(Nat), NEW t \in 0..Never
    PROVE  LET r == Finalize(d, tele, s, t) IN Balanced(r.m, r.tele) /\ r.past = FALSE
<1> DEFINE w == [d EXCEPT !.data = Put(d.data, 0, s)]
           e == TerminateIf(Runs(3, t), w, Len(s))
           c == [e EXCEPT !.string_length = Len(s)]
<1>1. /\ d \in Descriptor /\ d.data \in Seq(Nat) /\ Runs(3, t) \in BOOLEAN /\ Len(s) \in Nat
  BY TimesFacts DEF Balanced, Descriptor
<1>2. Put(d.data, 0, s) \in Seq(Nat) /\ Len(Put(d.data, 0, s)) = Len(d.data)
  BY <1>1, PutFacts
<1>3. w \in Descriptor /\ Len(w.data) = Len(d.data) /\ w.length = d.length
  BY <1>1, <1>2 DEF Descriptor
<1> HIDE DEF w
<1>4. Terminated(e, w, Len(s), Runs(3, t))
  BY <1>1, <1>3, TerminateFacts
<1> HIDE DEF e
<1>5. c \in Descriptor /\ Len(c.data) = Len(d.data) /\ c.length = d.length
  BY <1>1, <1>3, <1>4 DEF Terminated, Descriptor
<1> HIDE DEF c
<1>6. Balanced(c, tele)
  BY <1>5, SameSize
<1>7. Finalize(d, tele, s, t) \in {Failed(d, tele), Same(c, tele)}
  BY DEF Finalize, c, e, w
<1> QED
  BY <1>6, <1>7 DEF Same, Failed

\* The visible length lies inside of the elements.
LEMMA MeasureFacts ==
    ASSUME NEW s \in Seq(Nat)
    PROVE  /\ Measure(s) \in 0..Len(s)
           /\ Measure(s) < Len(s) => s[Measure(s) + 1] = 0
<1> DEFINE S == {i \in 0..Len(s) : i = Len(s) \/ s[i + 1] = 0}
<1>1. Len(s) \in Nat
  OBVIOUS
<1>2. S \in SUBSET Nat /\ S # {}
  <2>1. Len(s) \in S
    BY <1>1
  <2> QED
    BY <1>1, <2>1
<1>3. Min(S) \in S
  BY <1>2, MinFacts
<1> QED
  BY <1>1, <1>3 DEF Measure

\* ... and so they do in a descriptor.
LEMMA PayloadFacts ==
    ASSUME NEW d, NEW tele, Balanced(d, tele)
    PROVE  /\ Payload(d) \in Seq(Nat) /\ Len(Payload(d)) = d.length
           /\ \A i \in 1..d.length : Payload(d)[i] = d.data[i]
           /\ Measure(Payload(d)) \in 0..d.length
           /\ Measure(Payload(d)) < d.length => d.data[Measure(Payload(d)) + 1] = 0
<1>1. /\ d.data \in Seq(Nat) /\ d.length \in Nat /\ d.length <= Len(d.data)
      /\ Len(d.data) \in Nat
  BY DEF Balanced, Descriptor, Sized
<1>2. \A i \in 1..d.length : d.data[i] \in Nat
  BY <1>1
<1>3. /\ Payload(d) \in Seq(Nat)
      /\ Len(Payload(d)) = IF 1 <= d.length THEN d.length - 1 + 1 ELSE 0
      /\ \A i \in 1 .. d.length - 1 + 1 : Payload(d)[i] = d.data[1 + i - 1]
  BY <1>1, <1>2, SubSeqProperties DEF Payload
<1>4. Len(Payload(d)) = d.length /\ \A i \in 1..d.length : Payload(d)[i] = d.data[i]
  BY <1>1, <1>3
<1>5. /\ Measure(Payload(d)) \in 0..d.length
      /\ Measure(Payload(d)) < d.length => Payload(d)[Measure(Payload(d)) + 1] = 0
  BY <1>3, <1>4, MeasureFacts
<1>6. ASSUME Measure(Payload(d)) < d.length
      PROVE  d.data[Measure(Payload(d)) + 1] = 0
  <2>1. Measure(Payload(d)) + 1 \in 1..d.length
    BY <1>1, <1>5, <1>6
  <2> QED
    BY <1>4, <1>5, <1>6, <2>1
<1> QED
  BY <1>3, <1>4, <1>5, <1>6

\* mem_convert_data_to_string()
LEMMA ToStringBalances ==
    ASSUME NEW d, NEW tele, Balanced(d, tele), NEW heap \in Heaps, NEW t \in 0..Never
    PROVE  LET r == ToString_(d, tele, heap, t) IN Balanced(r.m, r.tele) /\ r.past = FALSE
<1> DEFINE measured == IF t = 0 THEN 0 ELSE Measure(Payload(d))
           required == IF Runs(2, t) THEN measured + 1 ELSE 0
           grown    == IF d.length < required /\ Runs(3, t)
                       THEN Resize(d, tele, required, {}, heap, Inside(t)) ELSE Same(d, tele)
           last     == IF d.length < required THEN 4 ELSE 3
           ended    == TerminateIf(Runs(last, t), grown.m, measured)
           c        == [ended EXCEPT !.string_length = measured, !.is_string = TRUE]
           r        == ToString_(d, tele, heap, t)
<1>1. d \in Descriptor /\ d.is_string \in BOOLEAN /\ d.length \in Nat
  BY DEF Balanced, Descriptor
<1>2. measured \in Nat /\ required \in Nat
  BY <1>1, PayloadFacts
<1>3. /\ Same(d, tele).m = d /\ Same(d, tele).tele = tele
      /\ Failed(d, tele).m = d /\ Failed(d, tele).tele = tele
  BY DEF Same, Failed
<1>4. \/ r = Failed(d, tele) \/ r = Same(d, tele)
      \/ r = Same([d EXCEPT !.is_string = TRUE], tele)
      \/ r = [grown EXCEPT !.m = c] \/ r = grown
  BY <1>1 DEF ToString_
<1>5. Clean(grown)
  BY ResizeIsClean
<1> HIDE DEF measured, required
<1>6. Balanced(grown.m, grown.tele)
  <2> DEFINE p == Resize(d, tele, required, {}, heap, Inside(t))
  <2>1. Balanced(p.m, p.tele)
    BY <1>2, TimesFacts, ResizeBalances
  <2> QED
    BY <1>3, <2>1
<1> HIDE DEF grown
<1>7. Runs(last, t) \in BOOLEAN
  BY TimesFacts
<1>8. Terminated(ended, grown.m, measured, Runs(last, t))
  BY <1>2, <1>6, <1>7, TerminateFacts DEF Balanced
<1> HIDE DEF ended, last
<1>9. c \in Descriptor /\ Len(c.data) = Len(grown.m.data) /\ c.length = grown.m.length
  BY <1>2, <1>8 DEF Terminated, Descriptor
<1> HIDE DEF c
<1>10. Balanced(c, grown.tele)
  BY <1>6, <1>9, SameSize
<1>11. Balanced([d EXCEPT !.is_string = TRUE], tele)
  <2> DEFINE b == [d EXCEPT !.is_string = TRUE]
  <2>1. b \in Descriptor /\ Len(b.data) = Len(d.data) /\ b.length = d.length
    BY <1>1 DEF Descriptor
  <2> HIDE DEF b
  <2>2. Balanced(b, tele)
    BY <2>1, SameSize
  <2> QED
    BY <2>2 DEF b
<1> HIDE DEF r
<1>12. r = [grown EXCEPT !.m = c] => r.m = c /\ r.tele = grown.tele
  BY <1>5 DEF Clean
<1>13. r = Same([d EXCEPT !.is_string = TRUE], tele)
          => r.m = [d EXCEPT !.is_string = TRUE] /\ r.tele = tele
  BY DEF Same
<1>14. r = Failed(d, tele) \/ r = Same(d, tele) => r.m = d /\ r.tele = tele
  BY <1>3
<1>15. Balanced(r.m, r.tele)
  BY <1>4, <1>6, <1>10, <1>11, <1>12, <1>13, <1>14
<1>16. r.past = FALSE
  BY <1>4, <1>5 DEF Clean, Same, Failed
<1> QED
  BY <1>15, <1>16 DEF r

\* mem_convert_string_to_data()
LEMMA ToDataBalances ==
    ASSUME NEW d, NEW tele, Balanced(d, tele)
    PROVE  LET r == ToData(d, tele) IN Balanced(r.m, r.tele) /\ r.past = FALSE
<1> DEFINE drops == /\ d.is_string /\ d.length > 0
                    /\ d.string_length = d.length - 1
                    /\ d.data[d.length] = 0
           one   == IF drops THEN 1 ELSE 0
           c     == [d EXCEPT !.length = @ - one, !.string_length = 0, !.is_string = FALSE]
           r     == ToData(d, tele)
<1>1. /\ d \in Descriptor /\ d.length \in Nat /\ Len(d.data) \in Nat
      /\ d.length <= Len(d.data)
      /\ tele = [reserved |-> Len(d.data), payload |-> d.length,
                 overhead |-> Len(d.data) - d.length]
  BY DEF Balanced, Descriptor, Sized, Accounts
<1>2. one \in {0, 1} /\ d.length - one \in Nat
  BY <1>1
<1>3. /\ r.m = c /\ r.past = FALSE
      /\ r.tele = [tele EXCEPT !.payload = @ - one, !.overhead = @ + one]
  BY DEF ToData, Same
<1> HIDE DEF one, r
<1>4. c \in Descriptor /\ c.data = d.data /\ c.length = d.length - one
  BY <1>1, <1>2 DEF Descriptor
<1> HIDE DEF c
<1>5. r.tele = Accounts(c)
  <2>1. (Len(d.data) - d.length) + one = Len(d.data) - (d.length - one)
    BY <1>1, <1>2
  <2> QED
    BY <1>1, <1>3, <1>4, <2>1 DEF Accounts
<1>6. Balanced(c, r.tele)
  BY <1>1, <1>2, <1>4, <1>5 DEF Balanced, Sized
<1> QED
  BY <1>3, <1>6 DEF r

-----------------------------------------------------------------------------
(***************************************************************************)
(* The text, as long as no call meets Ctrl+C.                              *)
(***************************************************************************)

\* d holds the string s, and its terminator.
Held(d, s) ==
    IF d.is_string
    THEN /\ ~Inconsistent(d)
         /\ Len(s) = d.string_length
         /\ \A i \in 1..d.string_length : d.data[i] = s[i]
         /\ d.length > 0 => d.data[d.string_length + 1] = 0
    ELSE d.string_length = 0

\* A call on d has the outcome r: it succeeds and the string is s, or it fails and
\* has done nothing; and it has stayed inside the block.
Answers(r, d, s) ==
    /\ ~r.past
    /\ ~r.ok => r.m = d
    /\ r.ok => Held(r.m, s)

\* The beginning of a string.
LEMMA PrefixFacts ==
    ASSUME NEW s \in Seq(Nat), NEW n \in 0..Len(s)
    PROVE  /\ SubSeq(s, 1, n) \in Seq(Nat) /\ Len(SubSeq(s, 1, n)) = n
           /\ \A i \in 1..n : SubSeq(s, 1, n)[i] = s[i]
           /\ n = Len(s) => SubSeq(s, 1, n) = s
<1>1. Len(s) \in Nat /\ n \in Nat /\ \A i \in 1..n : s[i] \in Nat
  OBVIOUS
<1>2. /\ SubSeq(s, 1, n) \in Seq(Nat)
      /\ Len(SubSeq(s, 1, n)) = IF 1 <= n THEN n - 1 + 1 ELSE 0
      /\ \A i \in 1 .. n - 1 + 1 : SubSeq(s, 1, n)[i] = s[1 + i - 1]
  BY <1>1, SubSeqProperties
<1>3. Len(SubSeq(s, 1, n)) = n /\ \A i \in 1..n : SubSeq(s, 1, n)[i] = s[i]
  BY <1>1, <1>2
<1>4. n = Len(s) => SubSeq(s, 1, n) = s
  BY <1>2, <1>3, SeqEqual
<1> QED
  BY <1>2, <1>3, <1>4

\* The text that is left of s when its descriptor gets count elements.
Left(s, count) == SubSeq(s, 1, Min({Len(s), IF count = 0 THEN 0 ELSE count - 1}))

LEMMA LeftFacts ==
    ASSUME NEW s \in Seq(Nat), NEW count \in Nat
    PROVE  /\ Left(s, count) \in Seq(Nat)
           /\ Len(Left(s, count)) = IF count = 0 THEN 0
                                    ELSE IF Len(s) < count THEN Len(s) ELSE count - 1
           /\ \A i \in 1..Len(Left(s, count)) : Left(s, count)[i] = s[i]
           /\ Len(s) < count => Left(s, count) = s
<1> DEFINE fits == IF count = 0 THEN 0 ELSE count - 1
           n    == Min({Len(s), fits})
<1>1. Len(s) \in Nat /\ fits \in Nat
  OBVIOUS
<1>2. n = IF Len(s) <= fits THEN Len(s) ELSE fits
  BY <1>1, MinOfTwo
<1>3. n \in 0..Len(s)
  BY <1>1, <1>2
<1>4. n = IF count = 0 THEN 0 ELSE IF Len(s) < count THEN Len(s) ELSE count - 1
  BY <1>1, <1>2
<1>5. Left(s, count) = SubSeq(s, 1, n)
  BY DEF Left
<1> HIDE DEF n
<1> QED
  BY <1>1, <1>3, <1>4, <1>5, PrefixFacts

\* mem_delete() leaves the empty string.
LEMMA DeleteCalm ==
    ASSUME NEW d, NEW tele, Balanced(d, tele)
    PROVE  Held(Delete(d, tele).m, <<>>)
<1> DEFINE e == Delete(d, tele).m
<1>1. e.length = 0 /\ e.string_length = 0
  BY DeleteFacts
<1> HIDE DEF e
<1>2. Held(e, <<>>)
  BY <1>1 DEF Held, Inconsistent
<1> QED
  BY <1>2 DEF e

\* m_resize() keeps as much of the text as fits, or fails and does nothing.
LEMMA ResizeCalm ==
    ASSUME NEW d, NEW tele, Balanced(d, tele), NEW s \in Seq(Nat), Held(d, s),
           NEW count \in Nat, NEW flags, NEW heap \in Heaps
    PROVE  LET r == Resize(d, tele, count, flags, heap, Never)
           IN  Answers(r, d, Left(s, count)) /\ (r.ok => r.m.length = count)
<1> DEFINE r == Resize(d, tele, count, flags, heap, Never)
<1>1. /\ d \in Descriptor /\ d.length \in Nat /\ d.string_length \in Nat
      /\ d.is_string \in BOOLEAN /\ Len(s) \in Nat
  BY DEF Balanced, Descriptor
<1>2. Runs(3, Never) /\ Never \in Nat
  BY DEF Runs, Never, LastHelper
<1>2a. ~r.past
  BY ResizeIsClean DEF Clean
<1>3. CASE r = Failed(d, tele)
  BY <1>3 DEF Answers, Failed
<1>4. CASE count = d.length /\ r = Same(d, tele)
  <2>1. r.m = d
    BY <1>4 DEF Same
  <2>2. CASE d.is_string
    <3>1. Len(s) = d.string_length /\ (d.length = 0 => Len(s) = 0)
          /\ (d.length # 0 => Len(s) < d.length)
      BY <1>1, <2>2 DEF Held, Inconsistent
    <3>2. Len(Left(s, count)) = Len(s)
          /\ \A i \in 1..Len(s) : Left(s, count)[i] = s[i]
      BY <1>1, <1>4, <3>1, LeftFacts
    <3>3. Held(d, Left(s, count))
      BY <2>2, <3>1, <3>2 DEF Held
    <3> QED
      BY <1>4, <2>1, <3>3 DEF Answers, Same
  <2>3. CASE ~d.is_string
    <3>1. Held(d, Left(s, count))
      BY <2>3 DEF Held
    <3> QED
      BY <1>4, <2>1, <3>1 DEF Answers, Same
  <2> QED
    BY <2>2, <2>3
<1>5. CASE count = 0 /\ (r = Delete(d, tele) \/ r = Empty(d, tele, Never))
  <2>1. r.ok /\ r.m.length = 0 /\ r.m.string_length = 0
    <3>1. Delete(d, tele).ok /\ Delete(d, tele).m.length = 0 /\ Delete(d, tele).m.string_length = 0
      BY DeleteFacts
    <3>2. /\ Empty(d, tele, Never).ok /\ Empty(d, tele, Never).m.length = 0
          /\ Empty(d, tele, Never).m.string_length = 0
      BY <1>2, EmptyFacts
    <3> QED
      BY <1>5, <3>1, <3>2
  <2>2. Len(Left(s, count)) = 0
    BY <1>5, LeftFacts
  <2> HIDE DEF r
  <2>3. Held(r.m, Left(s, count))
    BY <2>1, <2>2 DEF Held, Inconsistent
  <2> QED
    BY <1>2a, <1>5, <2>1, <2>3 DEF r, Answers
<1>6. CASE count # 0 /\ RoundUp(count) <= SIZE_MAX /\ r = Reshape(d, tele, count, flags, heap, Never)
           /\ ~Inconsistent(d)
  <2> DEFINE q    == Reshape(d, tele, count, flags, heap, Never)
             kept == Keeps(d, count)
  <2>1. /\ q.ok /\ q.m.length = count /\ q.m.is_string = d.is_string
        /\ q.m.string_length = kept /\ kept \in Nat /\ kept < count
        /\ \A i \in 1..kept : i <= d.length => q.m.data[i] = d.data[i]
        /\ d.is_string /\ Runs(3, Never) => q.m.data[kept + 1] = 0
    <3>1. count \in Nat \ {0} /\ RoundUp(count) <= SIZE_MAX
      BY <1>6
    <3>2. Reshaped(q, d, tele, count, flags, Runs(3, Never))
      BY <1>2, <3>1, ReshapeFacts
    <3> QED
      BY <3>2 DEF Reshaped
  <2> HIDE DEF q
  <2>2. CASE d.is_string
    <3>1. /\ Len(s) = d.string_length /\ \A i \in 1..d.string_length : d.data[i] = s[i]
          /\ d.length = 0 => d.string_length = 0
          /\ d.length # 0 => d.string_length < d.length
      BY <1>1, <2>2 DEF Held, Inconsistent
    <3>2. kept = IF Len(s) < count THEN Len(s) ELSE count - 1
      <4>1. count - 1 \in Nat
        BY <1>6
      <4>2. Min({d.string_length, count - 1})
               = IF d.string_length <= count - 1 THEN d.string_length ELSE count - 1
        BY <1>1, <4>1, MinOfTwo
      <4>3. kept = IF d.length = 0 THEN 0
                   ELSE IF d.string_length <= count - 1 THEN d.string_length ELSE count - 1
        BY <2>2, <4>2 DEF Keeps, KeptLength
      <4> HIDE DEF kept
      <4> QED
        BY <1>1, <1>6, <3>1, <4>3
    <3> HIDE DEF kept
    <3>3. Len(Left(s, count)) = kept /\ \A i \in 1..kept : Left(s, count)[i] = s[i]
      BY <1>1, <1>6, <3>2, LeftFacts
    <3>4. \A i \in 1..kept : q.m.data[i] = s[i]
      <4>1. kept <= d.string_length /\ kept <= d.length
        BY <1>1, <1>6, <2>1, <3>1, <3>2
      <4> QED
        BY <1>1, <2>1, <3>1, <4>1
    <3>5. q.m.data[kept + 1] = 0
      BY <1>2, <2>1, <2>2
    <3>6. Held(q.m, Left(s, count))
      BY <2>1, <2>2, <3>3, <3>4, <3>5 DEF Held, Inconsistent
    <3> QED
      BY <1>2a, <1>6, <2>1, <3>6 DEF q, Answers
  <2>3. CASE ~d.is_string
    <3>1. Held(q.m, Left(s, count))
      BY <2>1, <2>3 DEF Held, Keeps
    <3> QED
      BY <1>2a, <1>6, <2>1, <3>1 DEF q, Answers
  <2> QED
    BY <2>2, <2>3
<1>7. \/ r = Failed(d, tele)
      \/ count = d.length /\ r = Same(d, tele)
      \/ count = 0 /\ (r = Delete(d, tele) \/ r = Empty(d, tele, Never))
      \/ count # 0 /\ RoundUp(count) <= SIZE_MAX /\ r = Reshape(d, tele, count, flags, heap, Never)
         /\ ~Inconsistent(d)
  <2>1. RoundUp(count) \in Nat /\ SIZE_MAX \in Nat
    BY RoundUpFacts, MemoryAssumption
  <2> QED
    BY <1>2, <2>1 DEF Resize
<1> QED
  BY <1>3, <1>4, <1>5, <1>6, <1>7

\* A transfer that puts the source behind the first offset bytes of the string.
LEMMA ResizeAndLandCalm ==
    ASSUME NEW d, NEW tele, Balanced(d, tele), NEW s \in Seq(Nat), Held(d, s), d.is_string,
           NEW source, IsSource(source, d), NEW offset \in 0..Len(s), NEW visible \in Nat,
           visible = offset + Len(source.text), source.inside => Len(s) <= visible,
           NEW k \in 1..8, NEW heap \in Heaps
    PROVE  Answers(ResizeAndLand(d, tele, source, offset, Len(source.text), visible,
                                 visible + 1, k, heap, Never),
                   d, SubSeq(s, 1, offset) \o source.text)
<1> DEFINE q == Resize(d, tele, visible + 1, {}, heap, Never)
           n == Len(source.text)
           x == Transferred(q.m.data, source, n)
           e == Land(q.m, source, offset, n, visible, TRUE)
           r == ResizeAndLand(d, tele, source, offset, n, visible, visible + 1, k, heap, Never)
           z == SubSeq(s, 1, offset) \o source.text
<1>1. /\ Inside(Never) = Never /\ Never \in Nat /\ Never # k
      /\ Runs(k, Never) /\ Runs(k + 1, Never)
  BY DEF Never, LastHelper, Inside, Runs
<1>2. visible + 1 \in Nat /\ Len(s) \in Nat /\ n \in Nat /\ source.text \in Seq(Nat)
      /\ offset \in Nat /\ offset <= Len(s)
  BY DEF IsSource
<1> DEFINE leaves == PastBlock(q.m, offset, n)
<1>3. r = IF ~q.ok \/ q.m.data = <<>> THEN Failed(q.m, q.tele)
          ELSE [q EXCEPT !.m = e, !.past = leaves]
  BY <1>1 DEF ResizeAndLand
<1>4. /\ Balanced(q.m, q.tele) /\ q.m.is_string = d.is_string
      /\ Len(d.data) <= Len(q.m.data)
  BY <1>1, <1>2, ResizeBalances
<1>5. Answers(q, d, Left(s, visible + 1)) /\ (q.ok => q.m.length = visible + 1)
  BY <1>2, ResizeCalm
<1>6. Clean(q)
  BY ResizeIsClean
<1> HIDE DEF q
<1>7. CASE ~q.ok
  <2>1. r = Failed(q.m, q.tele) /\ q.m = d
    BY <1>3, <1>5, <1>7 DEF Answers
  <2> QED
    BY <2>1 DEF Failed, Answers
<1>8. CASE q.ok
  <2>1. q.m \in Descriptor /\ q.m.data \in Seq(Nat) /\ Len(q.m.data) \in Nat
        /\ visible + 1 <= Len(q.m.data) /\ q.m.length = visible + 1
    BY <1>4, <1>5, <1>8 DEF Balanced, Sized, Descriptor
  <2>2. r = [q EXCEPT !.m = e, !.past = leaves]
    <3>1. q.m.data # <<>>
      BY <1>2, <2>1
    <3> QED
      BY <1>3, <1>8, <3>1
  <2>2a. ~leaves
    BY <1>2, <2>1 DEF PastBlock
  <2> HIDE DEF leaves
  <2>3. source.inside => d.string_length <= Len(q.m.data)
    BY <1>4, <2>1, SourceFits
  <2>4. /\ x \in Seq(Nat) /\ Len(x) = n
        /\ \A i \in 1..n :
              x[i] = IF source.inside THEN q.m.data[source.offset + i] ELSE source.text[i]
    <3>1. n \in 0..Len(source.text)
      BY <1>2
    <3> HIDE DEF n
    <3>2. Reads(x, q.m.data, source, n)
      BY <2>1, <2>3, <3>1, TransferredFacts
    <3> QED
      BY <3>2 DEF Reads
  <2> HIDE DEF x
  <2>5. Landed(e, q.m, x, offset, visible, TRUE)
    BY <1>2, <2>1, <2>4, LandFacts DEF x
  <2> HIDE DEF e
  <2>6. Held(q.m, Left(s, visible + 1))
    BY <1>5, <1>8 DEF Answers
  <2>7. /\ Len(s) <= visible => Left(s, visible + 1) = s
        /\ Len(Left(s, visible + 1)) = IF Len(s) <= visible THEN Len(s) ELSE visible
        /\ \A i \in 1..Len(Left(s, visible + 1)) : Left(s, visible + 1)[i] = s[i]
    <3> DEFINE c == visible + 1
    <3>1. c \in Nat /\ c # 0 /\ c - 1 = visible /\ (Len(s) < c <=> Len(s) <= visible)
      BY <1>2
    <3>2. /\ Len(s) < c => Left(s, c) = s
          /\ Len(Left(s, c)) = IF c = 0 THEN 0 ELSE IF Len(s) < c THEN Len(s) ELSE c - 1
          /\ \A i \in 1..Len(Left(s, c)) : Left(s, c)[i] = s[i]
      <4> HIDE DEF c
      <4> QED
        BY <3>1, LeftFacts
    <3> QED
      BY <3>1, <3>2
  <2>8. \A i \in 1..(IF Len(s) <= visible THEN Len(s) ELSE visible) : q.m.data[i] = s[i]
    BY <1>4, <2>6, <2>7 DEF Held
  <2>9. \A i \in 1..n : x[i] = source.text[i]
    <3>1. CASE source.inside
      <4>1. /\ Len(s) <= visible /\ source.offset + n = d.string_length
            /\ d.string_length = Len(s) /\ source.offset \in Nat
            /\ \A i \in 1..n : source.text[i] = d.data[source.offset + i]
            /\ \A i \in 1..Len(s) : d.data[i] = s[i]
        BY <3>1 DEF IsSource, Held
      <4>2. ASSUME NEW i \in 1..n PROVE x[i] = source.text[i]
        <5>1. source.offset + i \in 1..Len(s)
          <6>1. i \in Nat /\ 1 <= i /\ i <= n /\ source.offset + n = Len(s)
            BY <1>2, <4>1
          <6> HIDE DEF n
          <6> QED
            BY <1>2, <4>1, <6>1, SMTT(30)
        <5> QED
          BY <2>4, <2>8, <3>1, <4>1, <5>1, ZenonT(30)
      <4> QED
        BY <4>2
    <3>2. CASE ~source.inside
      BY <2>4, <3>2
    <3> QED
      BY <3>1, <3>2
  <2>10. /\ z \in Seq(Nat) /\ Len(z) = visible
         /\ \A i \in 1..visible :
               z[i] = IF i <= offset THEN s[i] ELSE source.text[i - offset]
    <3>1. /\ SubSeq(s, 1, offset) \in Seq(Nat) /\ Len(SubSeq(s, 1, offset)) = offset
          /\ \A i \in 1..offset : SubSeq(s, 1, offset)[i] = s[i]
      BY PrefixFacts
    <3> DEFINE p == SubSeq(s, 1, offset)
    <3>2. /\ p \o source.text \in Seq(Nat)
          /\ Len(p \o source.text) = Len(p) + Len(source.text)
          /\ \A i \in 1 .. Len(p) + Len(source.text) :
                (p \o source.text)[i] = IF i <= Len(p) THEN p[i] ELSE source.text[i - Len(p)]
      <4>1. p \in Seq(Nat)
        BY <3>1
      <4> HIDE DEF p
      <4> QED
        BY <1>2, <4>1, ConcatProperties
    <3>3. \A i \in 1..visible : i <= offset => i \in 1..offset
      BY <1>2
    <3> QED
      BY <1>2, <3>1, <3>2, <3>3
  <2> HIDE DEF z
  <2>11. /\ e.length = visible + 1 /\ e.string_length = visible /\ e.is_string = d.is_string
         /\ \A i \in 1..Len(q.m.data) :
               e.data[i] = IF i = visible + 1 THEN 0
                           ELSE IF i \in offset + 1 .. offset + n THEN x[i - offset]
                           ELSE q.m.data[i]
    BY <1>4, <2>1, <2>4, <2>5 DEF Landed
  <2>12. ASSUME NEW i \in 1..visible PROVE e.data[i] = z[i]
    <3>1. i \in 1..Len(q.m.data) /\ i # visible + 1
      BY <1>2, <2>1
    <3>2. CASE i <= offset
      <4>1. i \in 1..(IF Len(s) <= visible THEN Len(s) ELSE visible)
            /\ i \notin offset + 1 .. offset + n
        BY <1>2, <3>2
      <4> QED
        BY <2>8, <2>10, <2>11, <3>1, <3>2, <4>1
    <3>3. CASE ~(i <= offset)
      <4>1. i \in offset + 1 .. offset + n /\ i - offset \in 1..n
        BY <1>2, <3>3
      <4> QED
        BY <2>9, <2>10, <2>11, <3>1, <3>3, <4>1
    <3> QED
      BY <3>2, <3>3
  <2>13. e.data[visible + 1] = 0
    <3>1. visible + 1 \in 1..Len(q.m.data)
      BY <1>2, <2>1
    <3> QED
      BY <2>11, <3>1
  <2>14. Held(e, z)
    BY <1>2, <2>10, <2>11, <2>12, <2>13 DEF Held, Inconsistent
  <2>15. r.m = e /\ r.ok /\ ~r.past
    BY <1>6, <1>8, <2>2, <2>2a DEF Clean
  <2> HIDE DEF r
  <2>16. Answers(r, d, z)
    BY <2>14, <2>15 DEF Answers
  <2> QED
    BY <2>16 DEF r, z
<1> QED
  BY <1>7, <1>8

\* m_resize() cannot fail when the block has the room already.
LEMMA ResizeFits ==
    ASSUME NEW d, NEW tele, Balanced(d, tele), ~Inconsistent(d),
           NEW count \in 1..d.length, NEW heap \in Heaps
    PROVE  Resize(d, tele, count, {}, heap, Never).ok
<1>1. /\ d.data \in Seq(Nat) /\ Len(d.data) \in Nat /\ d.length \in Nat
      /\ d.length <= Len(d.data) /\ RoundUp(Len(d.data)) = Len(d.data)
      /\ Len(d.data) <= SIZE_MAX
  BY DEF Balanced, Descriptor, Sized
<1>2. count \in Nat \ {0} /\ count <= Len(d.data)
  BY <1>1
<1>3. RoundUp(count) \in Nat /\ RoundUp(count) <= Len(d.data)
  BY <1>1, <1>2, RoundUpFacts
<1>4. RoundUp(count) <= SIZE_MAX /\ SIZE_MAX \in Nat
  BY <1>1, <1>3, MemoryAssumption
<1>5. ~NeedsBlock(d, count, {})
  <2>1. d.data # <<>>
    BY <1>1, <1>2
  <2> QED
    BY <1>1, <1>3, <2>1 DEF NeedsBlock
<1>6. \/ Resize(d, tele, count, {}, heap, Never) = Same(d, tele)
      \/ Resize(d, tele, count, {}, heap, Never) = Reshape(d, tele, count, {}, heap, Never)
  BY <1>2, <1>3, <1>4, <1>5 DEF Resize, NoMemory
<1>7. Reshape(d, tele, count, {}, heap, Never).ok /\ Same(d, tele).ok
  BY DEF Reshape, Same
<1> QED
  BY <1>6, <1>7

\* The rest of a string moves to its front.
LEMMA LandAndResizeCalm ==
    ASSUME NEW d, NEW tele, Balanced(d, tele), NEW s \in Seq(Nat), Held(d, s),
           NEW source, IsSource(source, d), source.inside, NEW k \in 1..8, NEW heap \in Heaps
    PROVE  Answers(LandAndResize(d, tele, source, Len(source.text), Len(source.text),
                                 Len(source.text) + 1, k, heap, Never),
                   d, source.text)
<1> DEFINE n == Len(source.text)
           x == Transferred(d.data, source, n)
           e == Land(d, source, 0, n, n, TRUE)
           p == Resize(e, tele, n + 1, {}, heap, Never)
           r == LandAndResize(d, tele, source, n, n, n + 1, k, heap, Never)
<1>1. /\ Inside(Never) = Never /\ Never \in Nat /\ Runs(k, Never) /\ Runs(k + 1, Never)
  BY DEF Never, LastHelper, Inside, Runs
<1> DEFINE leaves == PastBlock(d, 0, n)
<1>2. r = [p EXCEPT !.past = leaves]
  BY <1>1 DEF LandAndResize
<1>3. /\ d \in Descriptor /\ d.data \in Seq(Nat) /\ Len(d.data) \in Nat /\ d.length \in Nat
      /\ d.string_length \in Nat /\ d.length <= Len(d.data) /\ d.is_string
      /\ d.string_length < d.length /\ source.text \in Seq(Nat) /\ n \in Nat
      /\ source.offset \in Nat /\ source.offset + n = d.string_length
      /\ \A i \in 1..n : source.text[i] = d.data[source.offset + i]
  BY DEF Balanced, Descriptor, Sized, IsSource
<1>4. Reads(x, d.data, source, n)
  <2>1. n \in 0..Len(source.text)
    BY <1>3
  <2>2. d.string_length <= Len(d.data)
    BY <1>3
  <2> HIDE DEF n
  <2> QED
    BY <1>3, <2>1, <2>2, TransferredFacts
<1> HIDE DEF x
<1>5. Landed(e, d, x, 0, n, TRUE)
  BY <1>3, <1>4, LandFacts DEF x, Reads
<1> HIDE DEF e
<1>6. Balanced(e, tele)
  BY <1>5, SameSize DEF Landed
<1>7. n < d.length
  BY <1>3
<1>8. /\ e.length = d.length /\ e.string_length = n /\ e.is_string
      /\ \A i \in 1..n : e.data[i] = source.text[i]
      /\ e.data[n + 1] = 0
  <2>1. /\ e.length = d.length /\ e.string_length = n /\ e.is_string
        /\ \A i \in 1..Len(d.data) : e.data[i] = IF i = n + 1 THEN 0
                                                 ELSE IF i \in 0 + 1 .. 0 + Len(x) THEN x[i - 0]
                                                 ELSE d.data[i]
    BY <1>3, <1>5 DEF Landed
  <2>2. Len(x) = n /\ \A i \in 1..n : x[i] = source.text[i]
    BY <1>3, <1>4 DEF Reads
  <2>3. \A i \in 1..n : i \in 1..Len(d.data) /\ i # n + 1 /\ i \in 0 + 1 .. 0 + n /\ i - 0 = i
    BY <1>3, <1>7, SMTT(30)
  <2>4. n + 1 \in 1..Len(d.data)
    BY <1>3, <1>7
  <2> HIDE DEF n
  <2> QED
    BY <2>1, <2>2, <2>3, <2>4
<1>9. Held(e, source.text)
  BY <1>3, <1>7, <1>8 DEF Held, Inconsistent
<1>10. n + 1 \in 1..e.length /\ n + 1 \in Nat
  BY <1>3, <1>7, <1>8
<1>11. p.ok
  <2>1. ~Inconsistent(e)
    BY <1>8, <1>9 DEF Held
  <2> QED
    BY <1>6, <1>10, <2>1, ResizeFits
<1>12. Answers(p, e, Left(source.text, n + 1))
  BY <1>3, <1>6, <1>9, <1>10, ResizeCalm
<1>13. Left(source.text, n + 1) = source.text
  BY <1>3, <1>10, LeftFacts
<1>14. ~leaves
  BY <1>3, <1>7 DEF PastBlock
<1>15. Clean(p)
  BY ResizeIsClean
<1> HIDE DEF p, r, leaves
<1>16. r.m = p.m /\ r.ok = p.ok /\ ~r.past
  BY <1>2, <1>14, <1>15 DEF Clean
<1>17. Answers(r, d, source.text)
  BY <1>11, <1>12, <1>13, <1>16 DEF Answers
<1> QED
  BY <1>17 DEF r

\* mem_core_string() replaces the string or appends to it.
LEMMA CoreStringCalm ==
    ASSUME NEW d, NEW tele, Balanced(d, tele), NEW s \in Seq(Nat), Held(d, s),
           NEW source, IsSource(source, d), NEW heap \in Heaps
    PROVE  /\ Answers(CoreString(d, tele, "replace", source, heap, Never), d, source.text)
           /\ Answers(CoreString(d, tele, "append", source, heap, Never), d, s \o source.text)
<1> DEFINE k == Before(source)
           n == Len(source.text)
<1>1. SourceLength(source, Never) = n /\ k \in 1..2 /\ n \in Nat
  BY SourceLengthFacts, SMTT(30) DEF IsSource, Never, LastHelper
<1>2. \A i \in 0..6 : Runs(k + i, Never)
  BY <1>1 DEF Runs, Never, LastHelper
<1>3. CASE ~d.is_string
  BY <1>3 DEF CoreString, Failed, Answers
<1>4. CASE d.is_string
  <2>1. d.string_length = Len(s) /\ Len(s) \in Nat
    BY <1>4 DEF Held
  <2>2. Answers(Replace(d, tele, source, heap, Never), d, source.text)
    <3> DEFINE r1 == LandAndResize(d, tele, source, n, n, n + 1, k + 3, heap, Never)
               r2 == ResizeAndLand(d, tele, source, 0, n, n, n + 1, k + 3, heap, Never)
    <3>1. Runs(k + 1, Never) /\ Runs(k + 2, Never)
      BY <1>2
    <3>2. Replace(d, tele, source, heap, Never) = IF source.inside THEN r1 ELSE r2
      BY <1>1, <3>1 DEF Replace
    <3>3. k + 3 \in 1..8
      BY <1>1
    <3>4. CASE source.inside
      <4>1. Answers(r1, d, source.text)
        BY <3>3, <3>4, LandAndResizeCalm
      <4> QED
        BY <3>2, <3>4, <4>1
    <3>5. CASE ~source.inside
      <4>1. 0 \in 0..Len(s) /\ n = 0 + n
        BY <1>1, <2>1
      <4>2. Answers(r2, d, SubSeq(s, 1, 0) \o source.text)
        BY <1>1, <1>4, <3>3, <3>5, <4>1, ResizeAndLandCalm
      <4>3. SubSeq(s, 1, 0) \o source.text = source.text
        BY SubSeqEmpty, ConcatEmptySeq DEF IsSource
      <4> QED
        BY <3>2, <3>5, <4>2, <4>3
    <3> QED
      BY <3>4, <3>5
  <2>3. Answers(Append_(d, tele, source, heap, Never), d, s \o source.text)
    <3> DEFINE v == Len(s) + n
               r == ResizeAndLand(d, tele, source, Len(s), n, v, v + 1, k + 6, heap, Never)
    <3>1. /\ Runs(k + 1, Never) /\ Runs(k + 2, Never) /\ Runs(k + 3, Never)
          /\ Runs(k + 4, Never) /\ Runs(k + 5, Never)
      BY <1>2
    <3>2. \/ n = 0 /\ Append_(d, tele, source, heap, Never) = Same(d, tele)
          \/ Append_(d, tele, source, heap, Never) = Failed(d, tele)
          \/ Append_(d, tele, source, heap, Never) = r
      BY <1>1, <2>1, <3>1 DEF Append_
    <3>3. Answers(r, d, s \o source.text)
      <4>1. k + 6 \in 1..8 /\ Len(s) \in 0..Len(s) /\ v \in Nat /\ Len(s) <= v
        BY <1>1, <2>1
      <4>2. Answers(r, d, SubSeq(s, 1, Len(s)) \o source.text)
        BY <1>4, <4>1, ResizeAndLandCalm
      <4>3. SubSeq(s, 1, Len(s)) = s
        BY SubSeqFull
      <4> QED
        BY <4>2, <4>3
    <3>4. ASSUME n = 0 PROVE Answers(Same(d, tele), d, s \o source.text)
      <4>1. source.text = <<>>
        BY <3>4 DEF IsSource
      <4>2. s \o source.text = s
        BY <4>1, ConcatEmptySeq
      <4> QED
        BY <4>2 DEF Same, Answers
    <3>5. Answers(Failed(d, tele), d, s \o source.text)
      BY DEF Failed, Answers
    <3> HIDE DEF r
    <3> QED
      BY <3>2, <3>3, <3>4, <3>5
  <2> QED
    BY <1>4, <2>2, <2>3 DEF CoreString
<1> QED
  BY <1>3, <1>4

\* mem_string_truncate() cuts the string.
LEMMA TruncateCalm ==
    ASSUME NEW d, NEW tele, Balanced(d, tele), NEW s \in Seq(Nat), Held(d, s),
           NEW length \in Nat
    PROVE  Answers(Truncate(d, tele, length, Never), d, SubSeq(s, 1, Min({Len(s), length})))
<1> DEFINE n == Min({Len(s), length})
           z == SubSeq(s, 1, n)
           e == TerminateIf(TRUE, d, length)
           c == [e EXCEPT !.string_length = length]
           r == Truncate(d, tele, length, Never)
<1>1. Runs(2, Never)
  BY DEF Never, LastHelper, Runs
<1>2. /\ d \in Descriptor /\ d.length \in Nat /\ d.string_length \in Nat
      /\ d.length <= Len(d.data) /\ Len(d.data) \in Nat /\ Len(s) \in Nat
  BY DEF Balanced, Descriptor, Sized
<1>3. n = (IF Len(s) <= length THEN Len(s) ELSE length) /\ n \in 0..Len(s)
  BY <1>2, MinOfTwo
<1> HIDE DEF n
<1>4. z \in Seq(Nat) /\ Len(z) = n /\ (\A i \in 1..n : z[i] = s[i]) /\ (n = Len(s) => z = s)
  BY <1>3, PrefixFacts
<1> HIDE DEF z
<1>5. CASE r = Failed(d, tele)
  BY <1>5 DEF Failed, Answers, z, n
<1>6. CASE d.is_string /\ (d.length = 0 \/ length >= d.string_length) /\ r = Same(d, tele)
  <2>1. Len(s) = d.string_length /\ (d.length = 0 => d.string_length = 0)
    BY <1>6 DEF Held, Inconsistent
  <2>2. z = s
    BY <1>2, <1>3, <1>4, <1>6, <2>1
  <2>3. Answers(r, d, s)
    BY <1>6 DEF Same, Answers
  <2> QED
    BY <2>2, <2>3 DEF z, n
<1>7. CASE d.is_string /\ d.length # 0 /\ ~(length >= d.string_length) /\ r = Same(c, tele)
  <2>1. /\ Len(s) = d.string_length /\ d.string_length < d.length
        /\ \A i \in 1..d.string_length : d.data[i] = s[i]
    BY <1>2, <1>7 DEF Held, Inconsistent
  <2>2. n = length /\ length < d.string_length
    BY <1>2, <1>3, <1>7, <2>1
  <2>3. Terminated(e, d, length, TRUE)
    BY <1>2, TerminateFacts
  <2> HIDE DEF e
  <2>4. /\ c.length = d.length /\ c.string_length = length /\ c.is_string
        /\ \A i \in 1..Len(d.data) : c.data[i] = IF i = length + 1 THEN 0 ELSE d.data[i]
    BY <1>7, <2>3 DEF Terminated, Descriptor
  <2> HIDE DEF c
  <2>5. \A i \in 1..length : i \in 1..Len(d.data) /\ i # length + 1 /\ i \in 1..d.string_length
    BY <1>2, <2>1, <2>2
  <2>6. length + 1 \in 1..Len(d.data)
    BY <1>2, <2>1, <2>2
  <2>7. c.data[length + 1] = 0 /\ \A i \in 1..length : c.data[i] = z[i]
    BY <1>4, <2>1, <2>2, <2>4, <2>5, <2>6
  <2>8. Held(c, z)
    BY <1>2, <1>4, <2>1, <2>2, <2>4, <2>7 DEF Held, Inconsistent
  <2>9. r.m = c /\ r.ok /\ ~r.past
    BY <1>7 DEF Same
  <2> QED
    BY <2>8, <2>9 DEF Answers, z, n
<1>8. \/ r = Failed(d, tele)
      \/ d.is_string /\ (d.length = 0 \/ length >= d.string_length) /\ r = Same(d, tele)
      \/ d.is_string /\ d.length # 0 /\ ~(length >= d.string_length) /\ r = Same(c, tele)
  BY <1>1, <1>2 DEF Truncate
<1> QED
  BY <1>5, <1>6, <1>7, <1>8

\* mem_finalize_string() takes over what the caller has written.
LEMMA FinalizeCalm ==
    ASSUME NEW d, NEW tele, Balanced(d, tele), NEW s \in Seq(Nat)
    PROVE  Answers(Finalize(d, tele, s, Never), d, s)
<1> DEFINE n == Len(s)
           w == [d EXCEPT !.data = Put(d.data, 0, s)]
           e == TerminateIf(TRUE, w, n)
           c == [e EXCEPT !.string_length = n]
           r == Finalize(d, tele, s, Never)
<1>1. Runs(3, Never)
  BY DEF Never, LastHelper, Runs
<1>2. /\ d \in Descriptor /\ d.data \in Seq(Nat) /\ d.length \in Nat
      /\ d.length <= Len(d.data) /\ Len(d.data) \in Nat /\ n \in Nat
  BY DEF Balanced, Descriptor, Sized
<1>3. r = Failed(d, tele) \/ (d.is_string /\ n < d.length /\ r = Same(c, tele))
  <2>1. Finalize(d, tele, s, Never) =
           IF ~d.is_string \/ n >= d.length THEN Failed(d, tele)
           ELSE Same([TerminateIf(Runs(3, Never), w, n) EXCEPT !.string_length = n], tele)
    BY DEF Finalize
  <2>2. TerminateIf(Runs(3, Never), w, n) = e
    BY <1>1 DEF TerminateIf
  <2>3. ~(n >= d.length) => n < d.length
    BY <1>2
  <2> HIDE DEF w, e, n
  <2> QED
    BY <2>1, <2>2, <2>3
<1>4. CASE r = Failed(d, tele)
  BY <1>4 DEF Failed, Answers
<1>5. CASE d.is_string /\ n < d.length /\ r = Same(c, tele)
  <2>1. /\ Put(d.data, 0, s) \in Seq(Nat) /\ Len(Put(d.data, 0, s)) = Len(d.data)
        /\ \A i \in 1..Len(d.data) :
              Put(d.data, 0, s)[i] = IF i \in 0 + 1 .. 0 + n THEN s[i - 0] ELSE d.data[i]
    BY <1>2, PutFacts
  <2>2. \A i \in 1..n : /\ i \in 1..Len(d.data) /\ i # n + 1
                        /\ i \in 0 + 1 .. 0 + n /\ i - 0 = i
    BY <1>2, <1>5
  <2>3. n + 1 \in 1..Len(d.data)
    BY <1>2, <1>5
  <2> HIDE DEF n
  <2>4. /\ w \in Descriptor /\ w.data = Put(d.data, 0, s) /\ w.length = d.length
        /\ w.is_string = d.is_string
    BY <1>2, <2>1 DEF Descriptor
  <2> HIDE DEF w
  <2>5. Terminated(e, w, n, TRUE)
    BY <1>2, <2>4, TerminateFacts
  <2> HIDE DEF e
  <2>6. /\ c.length = d.length /\ c.string_length = n /\ c.is_string
        /\ \A i \in 1..Len(d.data) : c.data[i] = IF i = n + 1 THEN 0 ELSE Put(d.data, 0, s)[i]
    BY <1>5, <2>1, <2>4, <2>5 DEF Terminated, Descriptor
  <2> HIDE DEF c
  <2>7. c.data[n + 1] = 0 /\ \A i \in 1..n : c.data[i] = s[i]
    BY <2>1, <2>2, <2>3, <2>6
  <2>8. Held(c, s)
    BY <1>2, <1>5, <2>6, <2>7 DEF Held, Inconsistent, n
  <2>9. r.m = c /\ r.ok /\ ~r.past
    BY <1>5 DEF Same
  <2> QED
    BY <2>8, <2>9 DEF Answers
<1> QED
  BY <1>3, <1>4, <1>5

\* m_resize() of data that grows keeps all of it.
LEMMA ResizeGrows ==
    ASSUME NEW d, NEW tele, Balanced(d, tele), ~d.is_string, NEW heap \in Heaps
    PROVE  LET r == Resize(d, tele, d.length + 1, {}, heap, Never)
           IN  /\ ~r.ok => r.m = d
               /\ r.ok => /\ r.m.length = d.length + 1
                          /\ \A i \in 1..d.length : r.m.data[i] = d.data[i]
<1> DEFINE count == d.length + 1
           q == Reshape(d, tele, count, {}, heap, Never)
           r == Resize(d, tele, count, {}, heap, Never)
<1>1. d.length \in Nat /\ count \in Nat \ {0} /\ count # d.length
  BY DEF Balanced, Descriptor
<1>2. Never \in Nat
  BY DEF Never, LastHelper
<1>3. \/ r = Failed(d, tele)
      \/ RoundUp(count) <= SIZE_MAX /\ r = q
  <2>1. RoundUp(count) \in Nat /\ SIZE_MAX \in Nat
    BY <1>1, RoundUpFacts, MemoryAssumption
  <2> QED
    BY <1>1, <2>1 DEF Resize
<1>4. CASE r = Failed(d, tele)
  BY <1>4 DEF Failed
<1>5. CASE RoundUp(count) <= SIZE_MAX /\ r = q
  <2> HIDE DEF count
  <2>1. Reshaped(q, d, tele, count, {}, Runs(3, Never))
    BY <1>1, <1>2, <1>5, ReshapeFacts
  <2>2. q.ok /\ q.m.length = count /\ \A i \in 1..count : i <= d.length => q.m.data[i] = d.data[i]
    BY <2>1 DEF Reshaped
  <2>3. \A i \in 1..d.length : i \in 1..count /\ i <= d.length
    BY <1>1 DEF count
  <2> HIDE DEF q
  <2> QED
    BY <1>5, <2>2, <2>3 DEF count
<1> QED
  BY <1>3, <1>4, <1>5

\* The string that a descriptor in data mode turns into.
VisibleText(d, s) ==
    IF d.is_string THEN s ELSE SubSeq(d.data, 1, Measure(Payload(d)))

\* mem_convert_data_to_string() finds the visible string and ends it.
LEMMA ToStringCalm ==
    ASSUME NEW d, NEW tele, Balanced(d, tele), NEW s \in Seq(Nat), Held(d, s), NEW heap \in Heaps
    PROVE  Answers(ToString_(d, tele, heap, Never), d, VisibleText(d, s))
<1> DEFINE n     == Measure(Payload(d))
           z     == SubSeq(d.data, 1, n)
           grown == IF d.length < n + 1 THEN Resize(d, tele, n + 1, {}, heap, Never)
                    ELSE Same(d, tele)
           e     == TerminateIf(TRUE, grown.m, n)
           c     == [e EXCEPT !.string_length = n, !.is_string = TRUE]
           r     == ToString_(d, tele, heap, Never)
<1>1. /\ Inside(Never) = Never /\ Never # 0 /\ Never # 3 /\ Never \in Nat
      /\ Runs(2, Never) /\ Runs(3, Never) /\ Runs(4, Never)
  BY DEF Never, LastHelper, Inside, Runs
<1>2. /\ d \in Descriptor /\ d.data \in Seq(Nat) /\ Len(d.data) \in Nat /\ d.length \in Nat
      /\ d.length <= Len(d.data) /\ d.is_string \in BOOLEAN
  BY DEF Balanced, Descriptor, Sized
<1>3. n \in 0..d.length /\ (n < d.length => d.data[n + 1] = 0) /\ n \in Nat
  BY <1>2, PayloadFacts
<1>4. CASE d.is_string
  <2>1. ~Inconsistent(d)
    BY <1>4 DEF Held
  <2>2. r = Same(d, tele)
    BY <1>4, <2>1 DEF ToString_
  <2>3. Answers(r, d, s)
    BY <2>2 DEF Same, Answers
  <2> QED
    BY <1>4, <2>3 DEF VisibleText
<1>5. CASE ~d.is_string /\ d.length = 0
  <2> DEFINE b == [d EXCEPT !.is_string = TRUE]
  <2>1. r = Same(b, tele)
    BY <1>5 DEF ToString_
  <2>2. d.string_length = 0
    BY <1>5 DEF Held
  <2>3. b.length = 0 /\ b.string_length = 0 /\ b.is_string
    BY <1>2, <1>5, <2>2 DEF Descriptor
  <2> HIDE DEF b
  <2>4. Len(z) = 0
    BY <1>2, <1>3, <1>5, PrefixFacts
  <2> HIDE DEF z
  <2>5. Held(b, z)
    <3>1. \A i \in 1..b.string_length : b.data[i] = z[i]
      BY <2>3
    <3> QED
      BY <2>3, <2>4, <3>1 DEF Held, Inconsistent
  <2>6. r.m = b /\ r.ok /\ ~r.past
    BY <2>1 DEF Same
  <2>7. Answers(r, d, z)
    BY <2>5, <2>6 DEF Answers
  <2> QED
    BY <1>5, <2>7 DEF VisibleText, z
<1>6. CASE ~d.is_string /\ d.length # 0
  <2> HIDE DEF n
  <2>1. r = IF grown.ok THEN [grown EXCEPT !.m = c] ELSE grown
    <3>1. d.length > 0
      BY <1>2, <1>6
    <3> QED
      BY <1>1, <1>6, <3>1 DEF ToString_, n
  <2>2. Clean(grown)
    BY ResizeIsClean
  <2>3. /\ Balanced(grown.m, grown.tele)
        /\ ~grown.ok => grown.m = d
        /\ grown.ok => /\ n < grown.m.length
                       /\ \A i \in 1..d.length : grown.m.data[i] = d.data[i]
    <3>1. CASE d.length < n + 1
      <4> DEFINE p == Resize(d, tele, d.length + 1, {}, heap, Never)
      <4>1. n = d.length
        BY <1>2, <1>3, <3>1
      <4>2. grown = p
        BY <3>1, <4>1
      <4>3. Balanced(p.m, p.tele)
        <5>1. d.length + 1 \in Nat
          BY <1>2
        <5> QED
          BY <1>1, <5>1, ResizeBalances
      <4>4. /\ ~p.ok => p.m = d
            /\ p.ok => /\ p.m.length = d.length + 1
                       /\ \A i \in 1..d.length : p.m.data[i] = d.data[i]
        BY <1>6, ResizeGrows
      <4> HIDE DEF p, grown
      <4> QED
        BY <1>2, <4>1, <4>2, <4>3, <4>4
    <3>2. CASE ~(d.length < n + 1)
      <4>1. grown = Same(d, tele)
        BY <3>2
      <4>2. n < d.length
        BY <1>2, <1>3, <3>2
      <4> HIDE DEF grown
      <4> QED
        BY <4>1, <4>2 DEF Same
    <3> QED
      BY <3>1, <3>2
  <2> HIDE DEF grown
  <2>4. CASE ~grown.ok
    <3>1. r = grown
      BY <2>1, <2>4
    <3> HIDE DEF r
    <3>2. Answers(r, d, z)
      BY <2>2, <2>3, <2>4, <3>1 DEF Answers, Clean
    <3> QED
      BY <1>6, <3>2 DEF VisibleText, r, n
  <2>5. CASE grown.ok
    <3>1. grown.m \in Descriptor /\ grown.m.length <= Len(grown.m.data)
          /\ Len(grown.m.data) \in Nat /\ grown.m.length \in Nat
      BY <2>3 DEF Balanced, Descriptor, Sized
    <3>2. Terminated(e, grown.m, n, TRUE)
      BY <1>3, <3>1, TerminateFacts
    <3> HIDE DEF e
    <3>3. /\ c.length = grown.m.length /\ c.string_length = n /\ c.is_string
          /\ \A i \in 1..Len(grown.m.data) :
                c.data[i] = IF i = n + 1 THEN 0 ELSE grown.m.data[i]
      BY <3>2 DEF Terminated, Descriptor
    <3> HIDE DEF c
    <3>4. Len(z) = n /\ \A i \in 1..n : z[i] = d.data[i]
      <4>1. n \in 0..Len(d.data)
        BY <1>2, <1>3
      <4> QED
        BY <1>2, <4>1, PrefixFacts
    <3> HIDE DEF z
    <3>5. \A i \in 1..n : i \in 1..Len(grown.m.data) /\ i # n + 1 /\ i \in 1..d.length
      BY <1>2, <1>3, <2>3, <2>5, <3>1
    <3>6. n + 1 \in 1..Len(grown.m.data)
      BY <1>3, <2>3, <2>5, <3>1
    <3>7. c.data[n + 1] = 0 /\ \A i \in 1..n : c.data[i] = z[i]
      BY <2>3, <2>5, <3>3, <3>4, <3>5, <3>6
    <3>8. Held(c, z)
      BY <1>3, <2>3, <2>5, <3>1, <3>3, <3>4, <3>7 DEF Held, Inconsistent
    <3>9. r.m = c /\ r.ok /\ ~r.past
      BY <2>1, <2>2, <2>5 DEF Clean
    <3> HIDE DEF r
    <3>10. Answers(r, d, z)
      BY <3>8, <3>9 DEF Answers
    <3> QED
      BY <1>6, <3>10 DEF VisibleText, r, z, n
  <2> QED
    BY <2>4, <2>5
<1> QED
  BY <1>2, <1>4, <1>5, <1>6

\* mem_convert_string_to_data() cannot fail and forgets the string.
LEMMA ToDataCalm ==
    ASSUME NEW d, NEW tele, Balanced(d, tele)
    PROVE  Answers(ToData(d, tele), d, <<>>)
<1> DEFINE r == ToData(d, tele)
<1>1. d \in Descriptor
  BY DEF Balanced
<1>2. r.ok /\ ~r.past /\ ~r.m.is_string /\ r.m.string_length = 0
  BY <1>1 DEF ToData, Same, Descriptor
<1> HIDE DEF r
<1>3. Answers(r, d, <<>>)
  BY <1>2 DEF Answers, Held
<1> QED
  BY <1>3 DEF r

-----------------------------------------------------------------------------
(***************************************************************************)
(* Any sequence of calls.                                                  *)
(***************************************************************************)

\* What every call finds and leaves.
MemoryInv ==
    /\ Balanced(m, telemetry)
    /\ halted \in BOOLEAN /\ failed \in BOOLEAN /\ text \in Seq(Nat)
    /\ overrun \in BOOLEAN
    /\ ~halted => Held(m, text) /\ ~overrun

\* A call with a right outcome keeps the invariant, and fails without a trace.
LEMMA ReturnFacts ==
    ASSUME MemoryInv, NEW r, NEW s \in Seq(Nat), NEW t \in Times,
           Balanced(r.m, r.tele), r.past \in BOOLEAN,
           t = Never => Answers(r, m, s), Return(r, s, t)
    PROVE  MemoryInv' /\ (failed' /\ ~halted' => m' = m)
<1>1. /\ m' = r.m /\ telemetry' = r.tele /\ failed' = ~r.ok
      /\ halted' = (t # Never)
      /\ text' = (IF halted' THEN <<>> ELSE IF r.ok THEN s ELSE text)
      /\ overrun' = r.past
  BY DEF Return
<1>2. Balanced(m', telemetry')
  BY <1>1
<1>3. halted' \in BOOLEAN /\ failed' \in BOOLEAN /\ overrun' \in BOOLEAN
  BY <1>1
<1>4. text' \in Seq(Nat)
  <2>1. <<>> \in Seq(Nat)
    OBVIOUS
  <2> QED
    BY <1>1, <2>1 DEF MemoryInv
<1>5. ASSUME ~halted' PROVE t = Never /\ ~halted
  <2>1. t = Never
    BY <1>1, <1>5
  <2> QED
    BY <2>1 DEF Times, Never, LastHelper
<1>6. ASSUME ~halted' PROVE Held(m', text')
  <2>1. Answers(r, m, s) /\ Held(m, text)
    BY <1>5, <1>6 DEF MemoryInv
  <2>2. CASE r.ok
    BY <1>1, <1>6, <2>1, <2>2 DEF Answers
  <2>3. CASE ~r.ok
    BY <1>1, <1>6, <2>1, <2>3 DEF Answers
  <2> QED
    BY <2>2, <2>3
<1>7. failed' /\ ~halted' => m' = m
  BY <1>1, <1>5 DEF Answers
<1>8. ~halted' => ~overrun'
  BY <1>1, <1>5 DEF Answers
<1> QED
  BY <1>2, <1>3, <1>4, <1>6, <1>7, <1>8 DEF MemoryInv

\* HALTED arrives at some helper or never; never is not in the past.
LEMMA TimesRange ==
    ASSUME MemoryInv, NEW t \in Times
    PROVE  /\ t \in 0..Never
           /\ t = Never => Held(m, text)
BY DEF MemoryInv, Times, Never, LastHelper

\* The sources of the calls are sources.
LEMMA SourcesFacts ==
    ASSUME MemoryInv, NEW source \in Sources
    PROVE  IsSource(source, m)
<1>1. /\ m \in Descriptor /\ m.data \in Seq(Nat) /\ Len(m.data) \in Nat /\ m.length \in Nat
      /\ m.string_length \in Nat /\ m.length <= Len(m.data)
  BY DEF MemoryInv, Balanced, Descriptor, Sized
<1>2. CASE source \in [inside : {FALSE}, measured : BOOLEAN, offset : {0}, text : Texts]
  <2>1. source.text \in Seq(Nat \ {0}) /\ source.offset = 0 /\ ~source.inside
    BY <1>2, MemoryAssumption
  <2>2. source.text \in Seq(Nat)
    <3>1. Nat \ {0} \subseteq Nat
      OBVIOUS
    <3> QED
      BY <2>1, <3>1, SeqMonotonic
  <2> QED
    BY <2>1, <2>2 DEF IsSource
<1>3. CASE \E o \in 0..m.string_length :
              m.is_string /\ m.length > m.string_length /\ source = InsideSource(o)
  <2>1. PICK o \in 0..m.string_length :
           m.is_string /\ m.length > m.string_length /\ source = InsideSource(o)
    BY <1>3
  <2> DEFINE l == m.string_length
             z == SubSeq(m.data, o + 1, l)
  <2>2. source.text = z /\ source.offset = o /\ ~source.measured
    BY <2>1 DEF InsideSource
  <2>3. /\ o + 1 \in Int /\ l \in Int /\ o \in Nat /\ o <= l
        /\ \A i \in o + 1 .. l : m.data[i] \in Nat
    BY <1>1, <2>1
  <2>4. /\ z \in Seq(Nat) /\ Len(z) = IF o + 1 <= l THEN l - (o + 1) + 1 ELSE 0
        /\ \A i \in 1 .. l - (o + 1) + 1 : z[i] = m.data[(o + 1) + i - 1]
    <3> HIDE DEF l
    <3> QED
      BY <2>3, SubSeqProperties
  <2> HIDE DEF z
  <2>5. o + Len(z) = l /\ \A i \in 1..Len(z) : z[i] = m.data[o + i]
    <3>1. Len(z) = l - o
      BY <2>3, <2>4
    <3>2. \A i \in 1..Len(z) : i \in 1 .. l - (o + 1) + 1 /\ (o + 1) + i - 1 = o + i
      BY <2>3, <3>1
    <3>3. ASSUME NEW i \in 1..Len(z) PROVE z[i] = m.data[o + i]
      <4>1. z[i] = m.data[(o + 1) + i - 1]
        BY <2>4, <3>2
      <4>2. (o + 1) + i - 1 = o + i
        BY <3>2
      <4> QED
        BY <4>1, <4>2
    <3>4. o + Len(z) = l
      BY <2>3, <3>1
    <3> QED
      BY <3>3, <3>4
  <2> QED
    BY <1>1, <2>1, <2>2, <2>3, <2>4, <2>5 DEF IsSource
<1> QED
  BY <1>2, <1>3 DEF Sources

\* m_resize()
LEMMA ResizeCallStep ==
    ASSUME MemoryInv, ResizeCall
    PROVE  MemoryInv' /\ (failed' /\ ~halted' => m' = m)
<1>1. PICK count \in Counts, flags \in SUBSET {"ZERO_NEW_MEMORY", "RELEASE_UNUSED"},
           f \in Heaps \X Times :
              Return(Resize(m, telemetry, count, flags, f[1], f[2]), Left(text, count), f[2])
  BY DEF ResizeCall, Left
<1> DEFINE heap == f[1]
           t == f[2]
           r == Resize(m, telemetry, count, flags, heap, t)
<1>2. /\ heap \in Heaps /\ t \in Times /\ count \in Nat
      /\ Balanced(m, telemetry) /\ text \in Seq(Nat)
  BY MemoryAssumption DEF MemoryInv
<1> HIDE DEF heap, t
<1>3. t \in 0..Never /\ t \in Nat /\ (t = Never => Held(m, text))
  BY <1>2, TimesRange, TimesFacts
<1>4. Balanced(r.m, r.tele) /\ r.past \in BOOLEAN
  <2>1. Balanced(r.m, r.tele)
    BY <1>2, <1>3, ResizeBalances
  <2>2. r.past = FALSE
    BY ResizeIsClean DEF Clean
  <2> QED
    BY <2>1, <2>2
<1>5. t = Never => Answers(r, m, Left(text, count))
  BY <1>2, <1>3, ResizeCalm
<1>6. Left(text, count) \in Seq(Nat)
  BY <1>2, LeftFacts
<1>7. Return(r, Left(text, count), t)
  BY <1>1 DEF r, t, heap
<1> HIDE DEF r
<1> QED
  BY <1>2, <1>4, <1>5, <1>6, <1>7, ReturnFacts

\* m_del()
LEMMA DeleteCallStep ==
    ASSUME MemoryInv, DeleteCall
    PROVE  MemoryInv' /\ (failed' /\ ~halted' => m' = m)
<1>1. PICK t \in Times : Return(Delete(m, telemetry), <<>>, t)
  BY DEF DeleteCall
<1>2. Balanced(m, telemetry)
  BY DEF MemoryInv
<1> DEFINE r == Delete(m, telemetry)
<1>3. Balanced(r.m, r.tele) /\ r.ok /\ r.past = FALSE
  BY <1>2, DeleteFacts DEF Delete, Same
<1>4. Held(r.m, <<>>)
  BY <1>2, DeleteCalm
<1> HIDE DEF r
<1>5. Answers(r, m, <<>>)
  BY <1>3, <1>4 DEF Answers
<1>6. <<>> \in Seq(Nat)
  OBVIOUS
<1>7. Return(r, <<>>, t)
  BY <1>1 DEF r
<1> QED
  BY <1>3, <1>5, <1>6, <1>7, ReturnFacts

\* m_copy_literal(), m_copy_fixed_string(), m_copy_string()
LEMMA CopyCallStep ==
    ASSUME MemoryInv, CopyCall
    PROVE  MemoryInv' /\ (failed' /\ ~halted' => m' = m)
<1>1. PICK source \in Sources, f \in Heaps \X Times :
         Return(CoreString(m, telemetry, "replace", source, f[1], f[2]), source.text, f[2])
  BY DEF CopyCall
<1> DEFINE heap == f[1]
           t == f[2]
           r == CoreString(m, telemetry, "replace", source, heap, t)
<1>2. /\ heap \in Heaps /\ t \in Times
      /\ Balanced(m, telemetry) /\ text \in Seq(Nat)
  BY DEF MemoryInv
<1> HIDE DEF heap, t
<1>3. t \in 0..Never /\ (t = Never => Held(m, text))
  BY <1>2, TimesRange
<1>4. IsSource(source, m) /\ source.text \in Seq(Nat)
  BY SourcesFacts DEF IsSource
<1>5. Balanced(r.m, r.tele) /\ r.past \in BOOLEAN
  BY <1>2, <1>3, <1>4, CoreStringBalances
<1>6. t = Never => Answers(r, m, source.text)
  BY <1>2, <1>3, <1>4, CoreStringCalm
<1>7. Return(r, source.text, t)
  BY <1>1 DEF r, t, heap
<1> HIDE DEF r
<1> QED
  BY <1>2, <1>4, <1>5, <1>6, <1>7, ReturnFacts

\* m_concat_literal(), m_concat_fixed_string(), m_concat_string()
LEMMA ConcatCallStep ==
    ASSUME MemoryInv, ConcatCall
    PROVE  MemoryInv' /\ (failed' /\ ~halted' => m' = m)
<1>1. PICK source \in Sources, f \in Heaps \X Times :
         Return(CoreString(m, telemetry, "append", source, f[1], f[2]),
                text \o source.text, f[2])
  BY DEF ConcatCall
<1> DEFINE heap == f[1]
           t == f[2]
           r == CoreString(m, telemetry, "append", source, heap, t)
<1>2. /\ heap \in Heaps /\ t \in Times
      /\ Balanced(m, telemetry) /\ text \in Seq(Nat)
  BY DEF MemoryInv
<1> HIDE DEF heap, t
<1>3. t \in 0..Never /\ (t = Never => Held(m, text))
  BY <1>2, TimesRange
<1>4. IsSource(source, m) /\ source.text \in Seq(Nat)
  BY SourcesFacts DEF IsSource
<1>5. Balanced(r.m, r.tele) /\ r.past \in BOOLEAN
  BY <1>2, <1>3, <1>4, CoreStringBalances
<1>6. t = Never => Answers(r, m, text \o source.text)
  BY <1>2, <1>3, <1>4, CoreStringCalm
<1>7. text \o source.text \in Seq(Nat)
  BY <1>2, <1>4, ConcatProperties
<1>8. Return(r, text \o source.text, t)
  BY <1>1 DEF r, t, heap
<1> HIDE DEF r
<1> QED
  BY <1>2, <1>5, <1>6, <1>7, <1>8, ReturnFacts

\* m_string_truncate()
LEMMA TruncateCallStep ==
    ASSUME MemoryInv, TruncateCall
    PROVE  MemoryInv' /\ (failed' /\ ~halted' => m' = m)
<1>1. PICK length \in Counts, t \in Times :
         Return(Truncate(m, telemetry, length, t),
                SubSeq(text, 1, Min({Len(text), length})), t)
  BY DEF TruncateCall
<1> DEFINE r == Truncate(m, telemetry, length, t)
           z == SubSeq(text, 1, Min({Len(text), length}))
<1>2. Balanced(m, telemetry) /\ text \in Seq(Nat) /\ length \in Nat /\ Len(text) \in Nat
  BY MemoryAssumption DEF MemoryInv
<1>3. t \in 0..Never /\ (t = Never => Held(m, text))
  BY TimesRange
<1>4. Balanced(r.m, r.tele) /\ r.past = FALSE
  BY <1>2, <1>3, TruncateBalances
<1>5. t = Never => Answers(r, m, z)
  BY <1>2, <1>3, TruncateCalm
<1>6. z \in Seq(Nat)
  <2>1. Min({Len(text), length}) \in 0..Len(text)
    BY <1>2, MinOfTwo
  <2> QED
    BY <1>2, <2>1, PrefixFacts
<1>7. Return(r, z, t)
  BY <1>1 DEF r, z
<1> HIDE DEF r, z
<1> QED
  BY <1>4, <1>5, <1>6, <1>7, ReturnFacts

\* m_finalize_string()
LEMMA FinalizeCallStep ==
    ASSUME MemoryInv, FinalizeCall
    PROVE  MemoryInv' /\ (failed' /\ ~halted' => m' = m)
<1>1. PICK s \in Texts, t \in Times : Return(Finalize(m, telemetry, s, t), s, t)
  BY DEF FinalizeCall
<1> DEFINE r == Finalize(m, telemetry, s, t)
<1>2. Balanced(m, telemetry) /\ s \in Seq(Nat)
  <2>1. s \in Seq(Nat \ {0}) /\ Nat \ {0} \subseteq Nat
    BY MemoryAssumption
  <2> QED
    BY <2>1, SeqMonotonic DEF MemoryInv
<1>3. t \in 0..Never
  BY TimesRange
<1>4. Balanced(r.m, r.tele) /\ r.past = FALSE
  BY <1>2, <1>3, FinalizeBalances
<1>5. t = Never => Answers(r, m, s)
  BY <1>2, FinalizeCalm
<1>6. Return(r, s, t)
  BY <1>1 DEF r
<1> HIDE DEF r
<1> QED
  BY <1>2, <1>4, <1>5, <1>6, ReturnFacts

\* m_to_string()
LEMMA ToStringCallStep ==
    ASSUME MemoryInv, ToStringCall
    PROVE  MemoryInv' /\ (failed' /\ ~halted' => m' = m)
<1>1. PICK f \in Heaps \X Times :
         Return(ToString_(m, telemetry, f[1], f[2]), VisibleText(m, text), f[2])
  BY DEF ToStringCall, VisibleText
<1> DEFINE heap == f[1]
           t == f[2]
           r == ToString_(m, telemetry, heap, t)
<1>2. /\ heap \in Heaps /\ t \in Times
      /\ Balanced(m, telemetry) /\ text \in Seq(Nat)
      /\ m.data \in Seq(Nat) /\ m.length <= Len(m.data) /\ Len(m.data) \in Nat /\ m.length \in Nat
  BY DEF MemoryInv, Balanced, Descriptor, Sized
<1> HIDE DEF heap, t
<1>3. t \in 0..Never /\ (t = Never => Held(m, text))
  BY <1>2, TimesRange
<1>4. Balanced(r.m, r.tele) /\ r.past = FALSE
  BY <1>2, <1>3, ToStringBalances
<1>5. t = Never => Answers(r, m, VisibleText(m, text))
  BY <1>2, <1>3, ToStringCalm
<1>6. VisibleText(m, text) \in Seq(Nat)
  <2>1. Measure(Payload(m)) \in 0..Len(m.data)
    BY <1>2, PayloadFacts
  <2> QED
    BY <1>2, <2>1, PrefixFacts DEF VisibleText
<1>7. Return(r, VisibleText(m, text), t)
  BY <1>1 DEF r, t, heap
<1> HIDE DEF r
<1> QED
  BY <1>2, <1>4, <1>5, <1>6, <1>7, ReturnFacts

\* m_to_data()
LEMMA ToDataCallStep ==
    ASSUME MemoryInv, ToDataCall
    PROVE  MemoryInv' /\ (failed' /\ ~halted' => m' = m)
<1>1. PICK t \in Times : Return(ToData(m, telemetry), <<>>, t)
  BY DEF ToDataCall
<1> DEFINE r == ToData(m, telemetry)
<1>2. Balanced(m, telemetry)
  BY DEF MemoryInv
<1>3. Balanced(r.m, r.tele) /\ r.past = FALSE
  BY <1>2, ToDataBalances
<1>4. Answers(r, m, <<>>)
  BY <1>2, ToDataCalm
<1>5. <<>> \in Seq(Nat)
  OBVIOUS
<1>6. Return(r, <<>>, t)
  BY <1>1 DEF r
<1> HIDE DEF r
<1> QED
  BY <1>3, <1>4, <1>5, <1>6, ReturnFacts

\* Between two calls Ctrl+C ends the promises about the text.
LEMMA InterruptStep ==
    ASSUME MemoryInv, Interrupt
    PROVE  MemoryInv' /\ (failed' /\ ~halted' => m' = m)
<1>1. <<>> \in Seq(Nat)
  OBVIOUS
<1> QED
  BY <1>1 DEF MemoryInv, Interrupt

\* One step of any kind.
LEMMA MemoryStep ==
    ASSUME MemoryInv, [Next]_vars
    PROVE  MemoryInv' /\ [failed' /\ ~halted' => m' = m]_vars
<1>1. ASSUME Next PROVE MemoryInv' /\ (failed' /\ ~halted' => m' = m)
  BY <1>1, ResizeCallStep, DeleteCallStep, CopyCallStep, ConcatCallStep, TruncateCallStep,
     FinalizeCallStep, ToStringCallStep, ToDataCallStep, InterruptStep DEF Next
<1>2. ASSUME UNCHANGED vars PROVE MemoryInv'
  BY <1>2 DEF MemoryInv, vars
<1> QED
  BY <1>1, <1>2

\* A descriptor begins empty, in one of the two modes.
LEMMA MemoryStart ==
    ASSUME Init PROVE MemoryInv
<1>1. /\ m.data = <<>> /\ m.length = 0 /\ m.string_length = 0 /\ m.is_string \in BOOLEAN
      /\ m = [data |-> m.data, length |-> m.length, string_length |-> m.string_length,
              is_string |-> m.is_string]
      /\ text = <<>> /\ ~halted /\ halted \in BOOLEAN /\ failed \in BOOLEAN
      /\ ~overrun /\ overrun \in BOOLEAN
      /\ telemetry = [reserved |-> 0, payload |-> 0, overhead |-> 0]
  BY DEF Init
<1>2. <<>> \in Seq(Nat) /\ Len(<<>>) = 0 /\ SIZE_MAX \in Nat /\ RoundUp(0) = 0
  BY RoundUpFacts, MemoryAssumption
<1>3. m \in Descriptor
  <2>1. <<>> \in Seq(Nat) /\ 0 \in Nat
    OBVIOUS
  <2>2. [data |-> m.data, length |-> m.length, string_length |-> m.string_length,
         is_string |-> m.is_string] \in Descriptor
    BY <1>1, <2>1, Zenon DEF Descriptor
  <2> QED
    BY <1>1, <2>2, Zenon
<1>4. Balanced(m, telemetry)
  BY <1>1, <1>2, <1>3 DEF Balanced, Sized, Accounts
<1>5. Held(m, text)
  BY <1>1, <1>2 DEF Held, Inconsistent
<1> QED
  BY <1>1, <1>2, <1>4, <1>5 DEF MemoryInv

\* The invariant holds after every sequence of calls.
LEMMA MemoryInvariant == Spec => []MemoryInv
<1>1. Init => MemoryInv
  BY MemoryStart
<1>2. MemoryInv /\ [Next]_vars => MemoryInv'
  BY MemoryStep
<1> QED
  BY <1>1, <1>2, PTL DEF Spec

\* The descriptor and the telemetry of libs/mem keep their types: no counter of
\* mem_telemetry wraps below zero, and no length does.
THEOREM TypeCorrect == Spec => []TypeOK
<1>1. MemoryInv => TypeOK
  <2> SUFFICES ASSUME MemoryInv PROVE TypeOK
    OBVIOUS
  <2>1. /\ m \in Descriptor /\ m.length \in Nat /\ Len(m.data) \in Nat /\ m.length <= Len(m.data)
        /\ telemetry = [reserved |-> Len(m.data), payload |-> m.length,
                        overhead |-> Len(m.data) - m.length]
        /\ halted \in BOOLEAN /\ failed \in BOOLEAN /\ text \in Seq(Nat)
        /\ overrun \in BOOLEAN
    BY DEF MemoryInv, Balanced, Descriptor, Sized, Accounts
  <2>2. Len(m.data) - m.length \in Nat
    BY <2>1
  <2>3. telemetry \in [reserved : Nat, payload : Nat, overhead : Nat]
    BY <2>1, <2>2
  <2> QED
    BY <2>1, <2>3 DEF TypeOK, Descriptor
<1> QED
  BY <1>1, MemoryInvariant, PTL

\* The counters of mem_telemetry agree with the descriptor after every sequence of
\* calls of libs/mem, whatever malloc() gives and wherever Ctrl+C cuts a call short,
\* unless a call that Ctrl+C has cut short wrote past its block.
THEOREM TelemetryStaysBalanced == Spec => []TelemetryBalances
<1>1. MemoryInv => TelemetryBalances
  BY DEF MemoryInv, Balanced, Sized, Accounts, TelemetryBalances
<1> QED
  BY <1>1, MemoryInvariant, PTL

\* Until Ctrl+C comes, a string descriptor of libs/mem holds the text that the
\* calls have asked for, its cached length and its terminator, and no memmove() of
\* mem_core_string() has left the block.
THEOREM TextStaysRight == Spec => []TextIsRight
<1>1. MemoryInv => TextIsRight
  <2> SUFFICES ASSUME MemoryInv, ~halted, m.is_string
               PROVE  /\ ~Inconsistent(m)
                      /\ SubSeq(m.data, 1, m.string_length) = text
                      /\ m.length > 0 => m.data[m.string_length + 1] = 0
    <3>1. MemoryInv /\ ~halted => ~overrun
      BY DEF MemoryInv
    <3> QED
      BY <3>1 DEF TextIsRight
  <2>1. /\ m.data \in Seq(Nat) /\ Len(m.data) \in Nat /\ m.length \in Nat
        /\ m.string_length \in Nat /\ m.length <= Len(m.data) /\ text \in Seq(Nat)
    BY DEF MemoryInv, Balanced, Descriptor, Sized
  <2>2. /\ ~Inconsistent(m) /\ Len(text) = m.string_length
        /\ \A i \in 1..m.string_length : m.data[i] = text[i]
        /\ m.length > 0 => m.data[m.string_length + 1] = 0
    BY DEF MemoryInv, Held
  <2>3. m.string_length \in 0..Len(m.data)
    BY <2>1, <2>2 DEF Inconsistent
  <2> DEFINE z == SubSeq(m.data, 1, m.string_length)
  <2>4. z \in Seq(Nat) /\ Len(z) = m.string_length
        /\ \A i \in 1..m.string_length : z[i] = m.data[i]
    BY <2>1, <2>3, PrefixFacts
  <2> HIDE DEF z
  <2>5. z = text
    BY <2>1, <2>2, <2>4, SeqEqual
  <2> QED
    BY <2>2, <2>5 DEF z
<1> QED
  BY <1>1, MemoryInvariant, PTL

\* A call of libs/mem that fails leaves the descriptor as it was, whichever of its
\* helpers failed, unless Ctrl+C comes with the failure.
THEOREM FailuresLeaveNoTrace == Spec => FailureChangesNothing
<1>1. MemoryInv /\ [Next]_vars => [failed' /\ ~halted' => m' = m]_vars
  BY MemoryStep
<1> QED
  BY <1>1, MemoryInvariant, PTL DEF Spec, FailureChangesNothing

=============================================================================
