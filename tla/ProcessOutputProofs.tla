------------------------ MODULE ProcessOutputProofs ------------------------
(***************************************************************************)
(* Proofs about module ProcessOutput, for every size of the buffer, every  *)
(* length of chunks and any number of followers.                           *)
(***************************************************************************)
EXTENDS ProcessOutput, SequenceTheorems, TLAPS

USE OutputAssumption

\* Where the bytes of the buffer are in the history of what was stored.
Ring ==
    /\ ~full => /\ Len(kept) = off
                /\ \A i \in 0..(off - 1) : data[i] = kept[i + 1]
    /\ full  => /\ Len(kept) >= Cap
                /\ \A i \in 0..(off - 1) : data[i] = kept[Len(kept) - off + 1 + i]
                /\ \A i \in off..(Cap - 1) : data[i] = kept[Len(kept) - Cap - off + 1 + i]

\* The offsets of a follower in a buffer that is not full.
Offsets(f) ==
    /\ start[f] <= lastTotal[f]
    /\ lastTotal[f] <= off
    /\ newTotal[f] <= off
    /\ pc[f] = "off" => start[f] = 0 /\ lastTotal[f] = 0 /\ got[f] = <<>>
    /\ pc[f] = "record" => newTotal[f] = lastTotal[f]
    /\ pc[f] \in {"lastRecord", "unsentRecord"} => exited /\ lastTotal[f] <= newTotal[f]

\* Every byte below n has been sent to some follower.
Covered(n) == \A i \in 1..n : \E f \in Followers : start[f] < i /\ i <= lastTotal[f]

Inv ==
    /\ TypeOK
    /\ Ring
    /\ ~full => ioLastSent <= off /\ \A f \in Followers : Offsets(f)
    /\ FollowExact
    /\ ~full /\ ~exited => Covered(ioLastSent) /\ \A f \in Followers : Covered(start[f])

(* Arithmetic of the buffer. *)

LEMMA ModRange == \A a \in Nat : a % Cap \in Index
  BY DEF Index

LEMMA ModSmall == \A a \in Index : a % Cap = a
  BY DEF Index

LEMMA ModCap == Cap % Cap = 0
  OBVIOUS

LEMMA SliceType ==
    ASSUME TypeOK, NEW a \in Nat, NEW b \in Nat, b <= Cap
    PROVE  Slice(a, b) \in Seq(Nat)
<1>1. ASSUME NEW i \in 1..(b - a) PROVE data[a + i - 1] \in Nat
  BY <1>1 DEF TypeOK, Index
<1>2. CASE a <= b BY <1>1, <1>2 DEF Slice
<1>3. CASE b < a BY <1>3 DEF Slice
<1> QED BY <1>2, <1>3

LEMMA SinceOffsetType ==
    ASSUME TypeOK, NEW last \in Nat
    PROVE  /\ SinceOffset(last).bytes \in Seq(Nat)
           /\ SinceOffset(last).total \in Nat
<1> DEFINE added == IF Total - last > Cap THEN Cap ELSE Total - last
           first == (Total - added) % Cap
           end   == Total % Cap
<1>1. Total \in Nat BY DEF Total, TypeOK, Index
<1>2. CASE Total <= last BY <1>2 DEF SinceOffset
<1>3. CASE ~(Total <= last)
  <2>1. Total - added \in Nat BY <1>1, <1>3
  <2>2. first \in Index /\ end \in Index BY <1>1, <2>1, ModRange
  <2> HIDE DEF added, first, end
  <2>3. /\ Slice(first, end) \in Seq(Nat)
        /\ Slice(first, Cap) \in Seq(Nat)
        /\ Slice(0, end) \in Seq(Nat)
    <3>1. first \in Nat /\ end \in Nat /\ end <= Cap /\ Cap \in Nat /\ Cap <= Cap
      BY <2>2 DEF Index
    <3> QED BY <3>1, SliceType
  <2>4. Slice(first, Cap) \o Slice(0, end) \in Seq(Nat) BY <2>3
  <2>5. SinceOffset(last) = [bytes |-> IF first < end THEN Slice(first, end)
                                       ELSE Slice(first, Cap) \o Slice(0, end),
                             total |-> Total]
    BY <1>3 DEF SinceOffset, added, first, end
  <2> QED BY <1>1, <2>3, <2>4, <2>5
<1> QED BY <1>2, <1>3

\* In a buffer that is not full SinceOffset returns what is new.
LEMMA SinceOffsetNotFull ==
    ASSUME TypeOK, ~full, NEW last \in Nat, last <= off
    PROVE  IF last = off THEN SinceOffset(last) = [bytes |-> <<>>, total |-> last]
                         ELSE SinceOffset(last) = [bytes |-> Slice(last, off), total |-> off]
<1>1. off \in Index /\ Total = off BY DEF TypeOK, Total
<1>2. CASE last = off BY <1>1, <1>2 DEF SinceOffset, Index
<1>3. CASE last < off
  <2>1. ~(off - last > Cap) /\ off - (off - last) = last BY <1>1, <1>3 DEF Index
  <2>2. last % Cap = last /\ off % Cap = off BY <1>1, <1>3, ModSmall DEF Index
  <2> QED BY <1>1, <1>3, <2>1, <2>2 DEF SinceOffset, Index
<1> QED BY <1>1, <1>2, <1>3 DEF Index

(* The buffer. *)

LEMMA InitInv == Init => Inv
<1> SUFFICES ASSUME Init PROVE Inv OBVIOUS
<1>1. TypeOK
  <2>1. Cap \in Nat \ {0} BY OutputAssumption
  <2>2. 0 \in Index BY <2>1 DEF Index
  <2>3. kept \in Seq(Nat) /\ got \in [Followers -> Seq(Nat)] BY DEF Init
  <2>4. /\ data \in [Index -> Nat] /\ pc \in [Followers -> Label]
        /\ lastTotal \in [Followers -> Nat] /\ newTotal \in [Followers -> Nat]
        /\ start \in [Followers -> Nat]
    BY DEF Init, Label
  <2> QED BY <2>2, <2>3, <2>4 DEF Init, TypeOK
<1>2. Ring BY DEF Init, Ring
<1>3. ioLastSent <= off /\ \A f \in Followers : Offsets(f) BY DEF Init, Offsets
<1>4. FollowExact BY DEF Init, FollowExact
<1>5. Covered(ioLastSent) /\ \A f \in Followers : Covered(start[f]) BY DEF Init, Covered
<1> QED BY <1>1, <1>2, <1>3, <1>4, <1>5 DEF Inv

LEMMA ChunkType ==
    ASSUME TypeOK, NEW n \in Nat
    PROVE  /\ Chunk(n) \in Seq(Nat)
           /\ Len(Chunk(n)) = n
           /\ \A i \in 1..n : Chunk(n)[i] = arrived + i
  BY DEF Chunk, TypeOK

\* What a short write copies fits; the new offset is what a comparison gives.
LEMMA CopiedFits ==
    ASSUME TypeOK, NEW n \in Nat \ {0}
    PROVE  Copied(n) \in Nat /\ 0 < Copied(n) /\ Copied(n) <= n /\ off + Copied(n) <= Cap
  BY DEF Copied, TypeOK, Index

LEMMA CopiedMod ==
    ASSUME TypeOK, NEW n \in Nat \ {0}
    PROVE  (off + Copied(n)) % Cap = IF off + Copied(n) = Cap THEN 0 ELSE off + Copied(n)
<1>0. off \in Nat BY DEF TypeOK, Index
<1>1. Copied(n) \in Nat /\ off + Copied(n) <= Cap BY CopiedFits
<1>2. CASE off + Copied(n) = Cap BY <1>2, ModCap
<1>3. CASE off + Copied(n) # Cap
  <2>1. off + Copied(n) \in Index BY <1>0, <1>1, <1>3 DEF Index
  <2> QED BY <1>3, <2>1, ModSmall
<1> QED BY <1>2, <1>3

\* The bytes a write of n adds to the history.
Stored(n) == IF n >= Cap THEN Chunk(n) ELSE SubSeq(Chunk(n), 1, Copied(n))

LEMMA StoredType ==
    ASSUME TypeOK, NEW n \in Nat \ {0}
    PROVE  /\ Stored(n) \in Seq(Nat)
           /\ Len(Stored(n)) = IF n >= Cap THEN n ELSE Copied(n)
           /\ \A i \in 1..Len(Stored(n)) : Stored(n)[i] = arrived + i
<1>1. /\ Chunk(n) \in Seq(Nat) /\ Len(Chunk(n)) = n
      /\ \A i \in 1..n : Chunk(n)[i] = arrived + i
  BY ChunkType
<1>2. CASE n >= Cap BY <1>1, <1>2 DEF Stored
<1>3. CASE ~(n >= Cap)
  <2>1. Copied(n) \in Nat /\ 0 < Copied(n) /\ Copied(n) <= n BY CopiedFits
  <2>2. \A i \in 1..Copied(n) : Chunk(n)[i] \in Nat BY <1>1, <2>1, ElementOfSeq
  <2>3. /\ SubSeq(Chunk(n), 1, Copied(n)) \in Seq(Nat)
        /\ Len(SubSeq(Chunk(n), 1, Copied(n))) = Copied(n)
        /\ \A i \in 1..Copied(n) : SubSeq(Chunk(n), 1, Copied(n))[i] = Chunk(n)[i]
    BY <2>1, <2>2, SubSeqProperties
  <2> QED BY <1>1, <1>3, <2>1, <2>3 DEF Stored
<1> QED BY <1>2, <1>3

LEMMA WriteType ==
    ASSUME TypeOK, NEW n \in Nat \ {0}, Write(n)
    PROVE  /\ data' \in [Index -> Nat] /\ off' \in Index /\ full' \in BOOLEAN
           /\ arrived' \in Nat /\ kept' \in Seq(Nat)
<1>1. /\ Chunk(n) \in Seq(Nat) /\ Len(Chunk(n)) = n BY ChunkType
<1>2. \A i \in 1..n : Chunk(n)[i] \in Nat BY <1>1, ElementOfSeq
<1>3. arrived' \in Nat BY DEF Write, TypeOK
<1>4. kept' \in Seq(Nat)
  <2>1. kept' = kept \o Stored(n) BY DEF Write, Stored
  <2>2. kept \in Seq(Nat) /\ Stored(n) \in Seq(Nat) BY StoredType DEF TypeOK
  <2> QED BY <2>1, <2>2, ConcatProperties
<1>5. CASE n >= Cap
  <2>1. \A i \in Index : Chunk(n)[n - Cap + i + 1] \in Nat BY <1>2, <1>5 DEF Index
  <2>2. data' \in [Index -> Nat] BY <1>5, <2>1 DEF Write
  <2>3. off' \in Index /\ full' \in BOOLEAN BY <1>5 DEF Write, Index
  <2> QED BY <1>3, <1>4, <2>2, <2>3
<1>6. CASE ~(n >= Cap)
  <2>0. Copied(n) \in Nat /\ Copied(n) <= n BY CopiedFits
  <2>1. \A i \in Index : off <= i /\ i < off + Copied(n) => Chunk(n)[i - off + 1] \in Nat
    BY <1>2, <2>0 DEF Index, TypeOK
  <2>2. data' \in [Index -> Nat] BY <1>6, <2>1 DEF Write, TypeOK
  <2>3. full' \in BOOLEAN BY <1>6 DEF Write
  <2>4. off' \in Index
    <3>1. off + Copied(n) \in Nat BY <2>0 DEF TypeOK, Index
    <3> QED BY <1>6, <3>1, ModRange DEF Write
  <2> QED BY <1>3, <1>4, <2>2, <2>3, <2>4
<1> QED BY <1>5, <1>6

\* What Write does to the history.
LEMMA WriteKept ==
    ASSUME TypeOK, NEW n \in Nat \ {0}, Write(n),
           NEW k, k = IF n >= Cap THEN n ELSE Copied(n)
    PROVE  /\ k \in Nat
           /\ Len(kept') = Len(kept) + k
           /\ \A i \in 1..Len(kept) : kept'[i] = kept[i]
           /\ \A i \in 1..k : kept'[Len(kept) + i] = arrived + i
<1>1. kept' = kept \o Stored(n) BY DEF Write, Stored
<1>2. kept \in Seq(Nat) /\ Len(kept) \in Nat BY DEF TypeOK
<1>3. /\ Stored(n) \in Seq(Nat) /\ Len(Stored(n)) = k
      /\ \A i \in 1..k : Stored(n)[i] = arrived + i
  BY StoredType
<1>4. k \in Nat BY <1>3
<1>5. /\ Len(kept') = Len(kept) + k
      /\ \A i \in 1..(Len(kept) + k) :
            kept'[i] = IF i <= Len(kept) THEN kept[i] ELSE Stored(n)[i - Len(kept)]
  <2>1. /\ Len(kept \o Stored(n)) = Len(kept) + Len(Stored(n))
        /\ \A i \in 1..(Len(kept) + Len(Stored(n))) : (kept \o Stored(n))[i] =
              IF i <= Len(kept) THEN kept[i] ELSE Stored(n)[i - Len(kept)]
    BY <1>2, <1>3, ConcatProperties
  <2> QED BY <1>1, <1>3, <2>1
<1>6. \A i \in 1..Len(kept) : kept'[i] = kept[i] BY <1>2, <1>4, <1>5
<1>7. ASSUME NEW i \in 1..k PROVE kept'[Len(kept) + i] = arrived + i
  <2>1. /\ Len(kept) + i \in 1..(Len(kept) + k)
        /\ ~(Len(kept) + i <= Len(kept))
        /\ Len(kept) + i - Len(kept) = i
    BY <1>2, <1>4
  <2> QED BY <1>3, <1>5, <2>1
<1> QED BY <1>4, <1>5, <1>6, <1>7

LEMMA WriteRing ==
    ASSUME TypeOK, Ring, NEW n \in Nat \ {0}, Write(n)
    PROVE  Ring'
<1> DEFINE k == IF n >= Cap THEN n ELSE Copied(n)
           len == Len(kept)
<1>1. /\ k \in Nat
      /\ Len(kept') = len + k
      /\ \A i \in 1..len : kept'[i] = kept[i]
      /\ \A i \in 1..k : kept'[len + i] = arrived + i
  BY WriteKept
<1>2. \A i \in 1..n : Chunk(n)[i] = arrived + i BY ChunkType
<1>3. off \in Nat /\ off < Cap /\ len \in Nat /\ full \in BOOLEAN BY DEF TypeOK, Index
<1>4. CASE n >= Cap
  <2>1. full' = TRUE /\ off' = 0 /\ k = n BY <1>4 DEF Write
  <2>2. \A i \in Index : data'[i] = arrived + (n - Cap + i + 1)
    BY <1>2, <1>4 DEF Write, Index
  <2>3. \A i \in Index : kept'[len + n - Cap + 1 + i] = arrived + (n - Cap + i + 1)
    BY <1>1, <1>3, <1>4, <2>1 DEF Index
  <2> QED BY <1>1, <1>3, <1>4, <2>1, <2>2, <2>3 DEF Ring, Index
<1>5. CASE ~(n >= Cap)
  <2>1. /\ k = Copied(n) /\ k \in 1..n /\ off + k <= Cap
        /\ full' = (full \/ off + k >= Cap)
        /\ off' = IF off + k = Cap THEN 0 ELSE off + k
    <3>1. k = Copied(n) BY <1>5
    <3>2. Copied(n) \in 1..n /\ off + Copied(n) <= Cap BY <1>5, CopiedFits
    <3>3. (off + Copied(n)) % Cap = IF off + Copied(n) = Cap THEN 0 ELSE off + Copied(n)
      BY <1>5, CopiedMod
    <3>4. full' = (full \/ off + Copied(n) >= Cap) /\ off' = (off + Copied(n)) % Cap
      BY <1>5 DEF Write
    <3> HIDE DEF k
    <3> QED BY <3>1, <3>2, <3>3, <3>4
  <2>2. ASSUME NEW i \in off..(off + k - 1) PROVE data'[i] = kept'[len + 1 + i - off]
    <3>1. i \in Index /\ i - off + 1 \in 1..k BY <1>3, <2>1 DEF Index
    <3>2. data'[i] = Chunk(n)[i - off + 1] BY <1>3, <1>5, <2>1, <3>1 DEF Write, Index
    <3> QED BY <1>1, <1>2, <1>3, <2>1, <3>1, <3>2
  <2>3. ASSUME NEW i \in Index, i < off \/ i >= off + k PROVE data'[i] = data[i]
    <3>1. ~(off <= i /\ i < off + Copied(n))
      <4>1. i \in Int /\ off \in Int /\ k \in Int BY <1>1, <1>3 DEF Index
      <4>2. Copied(n) = k BY <2>1
      <4> HIDE DEF k
      <4> QED BY <2>3, <4>1, <4>2
    <3>2. data' = [j \in Index |-> IF off <= j /\ j < off + Copied(n)
                                   THEN Chunk(n)[j - off + 1] ELSE data[j]]
      BY <1>5 DEF Write
    <3> QED BY <3>1, <3>2
  <2> HIDE DEF k, len
  <2>4. CASE ~full
    <3>1. len = off /\ \A i \in 0..(off - 1) : data[i] = kept[i + 1]
      BY <2>4 DEF Ring, len
    <3>2. \A i \in 0..(off + k - 1) : data'[i] = kept'[i + 1]
      BY <1>1, <1>3, <2>1, <2>2, <2>3, <3>1 DEF Index
    <3>3. CASE off + k = Cap
      <4>1. full' /\ off' = 0 /\ Len(kept') = Cap BY <1>1, <1>3, <2>1, <3>1, <3>3
      <4>2. ASSUME NEW i \in 0..(Cap - 1)
            PROVE  data'[i] = kept'[Len(kept') - Cap - off' + 1 + i]
        <5>1. i \in 0..(off + k - 1) /\ Len(kept') - Cap - off' + 1 + i = i + 1
          BY <1>1, <1>3, <3>3, <4>1
        <5> QED BY <3>2, <5>1
      <4> QED BY <4>1, <4>2 DEF Ring
    <3>4. CASE off + k # Cap
      <4>1. ~full' /\ off' = off + k /\ Len(kept') = off + k
        BY <1>1, <1>3, <2>1, <2>4, <3>1, <3>4
      <4>2. ASSUME NEW i \in 0..(off' - 1) PROVE data'[i] = kept'[i + 1]
        <5>1. i \in 0..(off + k - 1) BY <1>1, <1>3, <4>1
        <5> QED BY <3>2, <5>1
      <4> QED BY <4>1, <4>2 DEF Ring
    <3> QED BY <3>3, <3>4
  <2>5. CASE full
    <3>1. /\ len >= Cap
          /\ \A i \in 0..(off - 1) : data[i] = kept[len - off + 1 + i]
          /\ \A i \in off..(Cap - 1) : data[i] = kept[len - Cap - off + 1 + i]
      BY <2>5 DEF Ring, len
    <3>2. ASSUME NEW i \in 0..(off + k - 1) PROVE data'[i] = kept'[len - off + 1 + i]
      <4>1. CASE i < off
        <5>1. i \in Index /\ data'[i] = data[i] BY <1>3, <2>3, <4>1 DEF Index
        <5>2. len - off + 1 + i \in 1..len BY <1>3, <3>1, <4>1
        <5>3. data[i] = kept[len - off + 1 + i] BY <1>3, <3>1, <4>1
        <5> QED BY <1>1, <5>1, <5>2, <5>3
      <4>2. CASE i >= off
        <5>1. data'[i] = kept'[len + 1 + i - off] BY <2>2, <4>2
        <5>2. len + 1 + i - off = len - off + 1 + i BY <1>3
        <5> QED BY <5>1, <5>2
      <4> QED BY <1>3, <4>1, <4>2
    <3>3. ASSUME NEW i \in (off + k)..(Cap - 1) PROVE data'[i] = kept'[len - Cap - off + 1 + i]
      <4>1. i \in Index /\ data'[i] = data[i] BY <1>1, <1>3, <2>3 DEF Index
      <4>2. len - Cap - off + 1 + i \in 1..len BY <1>1, <1>3, <3>1
      <4>3. data[i] = kept[len - Cap - off + 1 + i] BY <1>1, <1>3, <3>1
      <4> QED BY <1>1, <4>1, <4>2, <4>3
    <3>4. full' /\ Len(kept') >= Cap
      <4>1. full' BY <2>1, <2>5
      <4> QED BY <1>1, <1>3, <3>1, <4>1
    <3>5. CASE off + k = Cap
      <4>1. off' = 0 BY <2>1, <3>5
      <4>2. ASSUME NEW i \in 0..(Cap - 1)
            PROVE  data'[i] = kept'[Len(kept') - Cap - off' + 1 + i]
        <5>1. i \in 0..(off + k - 1) /\ Len(kept') - Cap - off' + 1 + i = len - off + 1 + i
          BY <1>1, <1>3, <3>5, <4>1
        <5> QED BY <3>2, <5>1
      <4> QED BY <3>4, <4>1, <4>2 DEF Ring
    <3>6. CASE off + k # Cap
      <4>1. off' = off + k BY <2>1, <3>6
      <4>2. ASSUME NEW i \in 0..(off' - 1)
            PROVE  data'[i] = kept'[Len(kept') - off' + 1 + i]
        <5>1. i \in 0..(off + k - 1) /\ Len(kept') - off' + 1 + i = len - off + 1 + i
          BY <1>1, <1>3, <4>1
        <5> QED BY <3>2, <5>1
      <4>3. ASSUME NEW i \in off'..(Cap - 1)
            PROVE  data'[i] = kept'[Len(kept') - Cap - off' + 1 + i]
        <5>1. /\ i \in (off + k)..(Cap - 1)
              /\ Len(kept') - Cap - off' + 1 + i = len - Cap - off + 1 + i
          BY <1>1, <1>3, <4>1
        <5> QED BY <3>3, <5>1
      <4> QED BY <3>4, <4>1, <4>2, <4>3 DEF Ring
    <3> QED BY <3>5, <3>6
  <2> QED BY <1>3, <2>4, <2>5
<1> QED BY <1>4, <1>5

\* A dump of the ring is the tail of the history.
LEMMA RingDump == TypeOK /\ Ring => DumpIsLatest
<1> SUFFICES ASSUME TypeOK, Ring PROVE Bytes = Latest(kept, Cap)
  BY DEF DumpIsLatest
<1>1. off \in Nat /\ off < Cap /\ Len(kept) \in Nat /\ full \in BOOLEAN /\ kept \in Seq(Nat)
  BY DEF TypeOK, Index
<1>2. CASE ~full
  <2>1. Slice(0, off) = kept BY <1>1, <1>2 DEF Ring, Slice
  <2> QED BY <1>1, <1>2, <2>1 DEF Bytes, Latest, Ring
<1>3. CASE full
  <2>1. Slice(off, Cap) \in Seq(Nat) /\ Slice(0, off) \in Seq(Nat)
    <3>1. off <= Cap /\ Cap \in Nat /\ Cap <= Cap BY <1>1
    <3> QED BY <1>1, <3>1, SliceType
  <2>2. Len(Slice(off, Cap)) = Cap - off /\ Len(Slice(0, off)) = off BY <1>1 DEF Slice
  <2>3. \A i \in 1..(Cap - off) : Slice(off, Cap)[i] = kept[Len(kept) - Cap + i]
    BY <1>1, <1>3 DEF Ring, Slice
  <2>4. \A i \in 1..off : Slice(0, off)[i] = kept[Len(kept) - off + i]
    BY <1>1, <1>3 DEF Ring, Slice
  <2>5. /\ Bytes \in Seq(Nat)
        /\ Len(Bytes) = Cap
        /\ \A i \in 1..Cap : Bytes[i] = kept[Len(kept) - Cap + i]
    <3>1. Bytes = Slice(off, Cap) \o Slice(0, off) BY <1>3 DEF Bytes
    <3>2. /\ Slice(off, Cap) \o Slice(0, off) \in Seq(Nat)
          /\ Len(Slice(off, Cap) \o Slice(0, off)) = Cap - off + off
          /\ \A i \in 1..(Cap - off + off) : (Slice(off, Cap) \o Slice(0, off))[i] =
                IF i <= Cap - off THEN Slice(off, Cap)[i] ELSE Slice(0, off)[i - (Cap - off)]
      BY <2>1, <2>2, ConcatProperties
    <3>3. ASSUME NEW i \in 1..Cap PROVE Bytes[i] = kept[Len(kept) - Cap + i]
      <4>1. CASE i <= Cap - off BY <1>1, <2>3, <3>1, <3>2, <4>1
      <4>2. CASE ~(i <= Cap - off)
        <5>1. i - (Cap - off) \in 1..off /\ i \in 1..(Cap - off + off) BY <1>1, <4>2
        <5>2. Len(kept) - off + (i - (Cap - off)) = Len(kept) - Cap + i BY <1>1
        <5> QED BY <2>4, <3>1, <3>2, <4>2, <5>1, <5>2
      <4> QED BY <4>1, <4>2
    <3> QED BY <1>1, <3>1, <3>2, <3>3
  <2>6. /\ Latest(kept, Cap) \in Seq(Nat)
        /\ Len(Latest(kept, Cap)) = Cap
        /\ \A i \in 1..Cap : Latest(kept, Cap)[i] = kept[Len(kept) - Cap + i]
    <3>1. Len(kept) >= Cap BY <1>3 DEF Ring
    <3>2. CASE Len(kept) = Cap BY <1>1, <3>2 DEF Latest
    <3>3. CASE Len(kept) > Cap BY <1>1, <3>3 DEF Latest
    <3> QED BY <1>1, <3>1, <3>2, <3>3
  <2> QED BY <2>5, <2>6, SeqEqual
<1> QED BY <1>1, <1>2, <1>3

(* Followers. *)

\* A chunk appends to the history, which keeps what followers have read.
LEMMA HandleIoInv == ASSUME Inv, NEW n \in 1..MaxChunk, HandleIo(n) PROVE Inv'
<1> USE DEF Inv
<1>1. n \in Nat \ {0} /\ Write(n) /\ UNCHANGED <<exited, calls>> BY DEF HandleIo
<1>2. TypeOK'
  <2>1. /\ data' \in [Index -> Nat] /\ off' \in Index /\ full' \in BOOLEAN
        /\ arrived' \in Nat /\ kept' \in Seq(Nat)
    BY <1>1, WriteType
  <2> QED BY <1>1, <2>1 DEF TypeOK, calls
<1>3. Ring' BY <1>1, WriteRing
<1>4. ASSUME ~full' PROVE ~full /\ off <= off'
  <2>1. ~full /\ ~(n >= Cap) BY <1>1, <1>4 DEF Write
  <2>2. off' = (off + Copied(n)) % Cap /\ ~(off + Copied(n) >= Cap)
    BY <1>1, <1>4, <2>1 DEF Write
  <2>3. Copied(n) \in Nat BY <1>1, CopiedFits
  <2>4. off \in Nat BY DEF TypeOK, Index
  <2>5. off' = off + Copied(n) BY <1>1, <2>2, <2>3, <2>4, CopiedMod
  <2> QED BY <2>1, <2>3, <2>4, <2>5
<1>5. ~full' => ioLastSent' <= off' /\ \A f \in Followers : Offsets(f)'
  <2> SUFFICES ASSUME ~full' PROVE ioLastSent' <= off' /\ \A f \in Followers : Offsets(f)'
    OBVIOUS
  <2>1. ~full /\ off <= off' /\ ioLastSent <= off BY <1>4
  <2>2. off \in Nat /\ off' \in Nat /\ ioLastSent \in Nat BY <1>2 DEF TypeOK, Index
  <2>3. ASSUME NEW f \in Followers PROVE Offsets(f)'
    <3>1. lastTotal[f] \in Nat /\ newTotal[f] \in Nat BY DEF TypeOK
    <3>2. Offsets(f) BY <2>1
    <3> QED BY <1>1, <2>1, <2>2, <3>1, <3>2 DEF Offsets, calls
  <2> QED BY <1>1, <2>1, <2>2, <2>3 DEF calls
<1>6. FollowExact'
  <2> SUFFICES ASSUME ~full', NEW f \in Followers
      PROVE  /\ pc[f] \in {"poll", "record", "broken", "unsentRecord"} =>
                   got[f] = SubSeq(kept', start[f] + 1, lastTotal[f])
             /\ pc[f] = "lastRecord" => got[f] = SubSeq(kept', start[f] + 1, newTotal[f])
    BY <1>1 DEF FollowExact, calls
  <2>1. ~full /\ Offsets(f) /\ Len(kept) = off BY <1>4 DEF Ring
  <2>2. /\ start[f] \in Nat /\ lastTotal[f] \in Nat /\ newTotal[f] \in Nat
        /\ kept \in Seq(Nat) /\ off \in Nat
    BY DEF TypeOK, Index
  <2>3. kept' = kept \o Stored(n) BY <1>1 DEF Write, Stored
  <2>4. Stored(n) \in Seq(Nat) BY <1>1, StoredType
  <2>5. ASSUME NEW e \in Nat, e <= off
        PROVE  SubSeq(kept', start[f] + 1, e) = SubSeq(kept, start[f] + 1, e)
    <3>1. CASE e <= start[f]
      BY <2>2, <3>1, SubSeqEmpty
    <3>2. CASE ~(e <= start[f])
      <4>1. start[f] + 1 \in 1..Len(kept) /\ e \in 1..Len(kept) BY <2>1, <2>2, <2>5, <3>2
      <4> QED BY <2>2, <2>3, <2>4, <4>1, SubSeqOfConcat1
    <3> QED BY <3>1, <3>2
  <2>6. lastTotal[f] <= off /\ newTotal[f] <= off BY <2>1 DEF Offsets
  <2> QED BY <2>1, <2>2, <2>5, <2>6 DEF FollowExact
<1>7. ~full' /\ ~exited' => Covered(ioLastSent)' /\ \A f \in Followers : Covered(start[f])'
  BY <1>1, <1>4 DEF Covered, calls
<1> QED BY <1>2, <1>3, <1>5, <1>6, <1>7

\* The invariant after a step of one follower that leaves the buffer alone: it
\* is enough to look at that follower.
LEMMA FollowerStep ==
    ASSUME Inv, NEW f \in Followers, UNCHANGED <<buffer, exited>>, TypeOK',
           \A g \in Followers \ {f} :
              /\ pc'[g] = pc[g] /\ start'[g] = start[g] /\ lastTotal'[g] = lastTotal[g]
              /\ newTotal'[g] = newTotal[g] /\ got'[g] = got[g],
           ~full => ioLastSent' <= off /\ Offsets(f)',
           ~full /\ pc'[f] \in {"poll", "record", "broken", "unsentRecord"} =>
              got'[f] = SubSeq(kept, start'[f] + 1, lastTotal'[f]),
           ~full /\ pc'[f] = "lastRecord" =>
              got'[f] = SubSeq(kept, start'[f] + 1, newTotal'[f]),
           ~full /\ ~exited =>
              /\ Covered(ioLastSent)' /\ Covered(start[f])'
              /\ \A i \in Nat : start[f] < i /\ i <= lastTotal[f] =>
                                   start'[f] < i /\ i <= lastTotal'[f]
    PROVE  Inv'
<1> USE DEF Inv
<1>1. Ring' BY DEF Ring, buffer
<1>2. ~full' => ioLastSent' <= off' /\ \A g \in Followers : Offsets(g)'
  <2>1. ASSUME NEW g \in Followers \ {f}, ~full PROVE Offsets(g)'
    BY <2>1 DEF Offsets, buffer
  <2> QED BY <2>1 DEF buffer
<1>3. FollowExact'
  <2>1. ASSUME NEW g \in Followers, ~full
        PROVE  /\ pc'[g] \in {"poll", "record", "broken", "unsentRecord"} =>
                     got'[g] = SubSeq(kept, start'[g] + 1, lastTotal'[g])
               /\ pc'[g] = "lastRecord" => got'[g] = SubSeq(kept, start'[g] + 1, newTotal'[g])
    <3>1. CASE g = f BY <2>1, <3>1
    <3>2. CASE g # f BY <2>1, <3>2 DEF FollowExact
    <3> QED BY <3>1, <3>2
  <2> QED BY <2>1 DEF FollowExact, buffer
<1>4. ~full' /\ ~exited' => Covered(ioLastSent)' /\ \A g \in Followers : Covered(start[g])'
  <2> SUFFICES ASSUME ~full, ~exited, NEW g \in Followers \ {f} PROVE Covered(start[g])'
    BY DEF buffer
  <2>1. Covered(start[g]) /\ start'[g] = start[g] /\ start[g] \in Nat BY DEF TypeOK
  <2>2. ASSUME NEW i \in 1..start[g]
        PROVE  \E e \in Followers : start'[e] < i /\ i <= lastTotal'[e]
    <3>1. i \in Nat BY <2>1
    <3>2. PICK e \in Followers : start[e] < i /\ i <= lastTotal[e] BY <2>1 DEF Covered
    <3>3. CASE e = f BY <3>1, <3>2, <3>3
    <3>4. CASE e # f BY <3>2, <3>4
    <3> QED BY <3>3, <3>4
  <2> QED BY <2>1, <2>2 DEF Covered
<1> QED BY <1>1, <1>2, <1>3, <1>4

LEMMA AttachInv == ASSUME Inv, NEW f \in Followers, Attach(f) PROVE Inv'
<1> USE DEF Inv
<1>1. TypeOK' BY DEF Attach, TypeOK, Label, buffer
<1>2. /\ start' = [start EXCEPT ![f] = ioLastSent]
      /\ lastTotal' = [lastTotal EXCEPT ![f] = ioLastSent]
      /\ pc' = [pc EXCEPT ![f] = "poll"] /\ pc[f] = "off"
      /\ UNCHANGED <<buffer, exited, ioLastSent, newTotal, got>>
  BY DEF Attach
<1>3. start'[f] = ioLastSent /\ lastTotal'[f] = ioLastSent /\ pc'[f] = "poll"
  BY <1>2 DEF TypeOK
<1>4. ASSUME ~full PROVE ioLastSent' <= off /\ Offsets(f)'
  <2>1. Offsets(f) /\ ioLastSent <= off /\ ioLastSent \in Nat BY <1>4 DEF TypeOK
  <2> QED BY <1>2, <1>3, <2>1 DEF Offsets, buffer
<1>5. ASSUME ~full PROVE got'[f] = SubSeq(kept, start'[f] + 1, lastTotal'[f])
  <2>1. got'[f] = <<>> BY <1>2, <1>5 DEF Offsets
  <2>2. ioLastSent + 1 \in Int /\ ioLastSent \in Int /\ ioLastSent < ioLastSent + 1
    BY DEF TypeOK
  <2> QED BY <1>3, <2>1, <2>2, SubSeqEmpty
<1>6. ASSUME ~full, ~exited
      PROVE  /\ Covered(ioLastSent)' /\ Covered(start[f])'
             /\ \A i \in Nat : start[f] < i /\ i <= lastTotal[f] =>
                                  start'[f] < i /\ i <= lastTotal'[f]
  <2>1. start[f] = 0 /\ lastTotal[f] = 0 BY <1>2, <1>6 DEF Offsets
  <2>2. \A i \in Nat : ~(start[f] < i /\ i <= lastTotal[f]) BY <2>1
  <2>3. ASSUME NEW i \in 1..ioLastSent
        PROVE  \E e \in Followers : start'[e] < i /\ i <= lastTotal'[e]
    <3>1. i \in Nat BY DEF TypeOK
    <3>2. PICK e \in Followers : start[e] < i /\ i <= lastTotal[e]
      BY <1>6 DEF Covered
    <3>3. e # f BY <2>2, <3>1, <3>2
    <3> QED BY <1>2, <3>2, <3>3
  <2> QED BY <1>2, <1>3, <2>2, <2>3 DEF Covered
<1> QED BY <1>1, <1>2, <1>3, <1>4, <1>5, <1>6, FollowerStep

\* What a follower that is polling finds, in a buffer that is not full: its next
\* bytes, which continue what it has got.
LEMMA NextBytes ==
    ASSUME Inv, ~full, NEW f \in Followers, pc[f] = "poll",
           SinceOffset(lastTotal[f]).bytes # <<>>
    PROVE  /\ SinceOffset(lastTotal[f]).total = off
           /\ got[f] \o SinceOffset(lastTotal[f]).bytes = SubSeq(kept, start[f] + 1, off)
<1> DEFINE s == start[f]  l == lastTotal[f]
<1>1. /\ s \in Nat /\ l \in Nat /\ off \in Nat /\ off < Cap
      /\ kept \in Seq(Nat) /\ s <= l /\ l <= off
  BY DEF Inv, TypeOK, Offsets, Index
<1>2. Len(kept) = off /\ \A i \in 0..(off - 1) : data[i] = kept[i + 1]
  BY DEF Inv, Ring
<1>3. l # off /\ SinceOffset(l) = [bytes |-> Slice(l, off), total |-> off]
  BY <1>1, SinceOffsetNotFull DEF Inv
<1>4. Slice(l, off) = SubSeq(kept, l + 1, off)
  <2>1. l + 1 \in Int /\ off \in Int /\ l + 1 <= off /\ off - (l + 1) + 1 = off - l
    BY <1>1, <1>3
  <2>2. \A i \in (l + 1)..off : kept[i] \in Nat BY <1>1, <1>2, ElementOfSeq
  <2>3. /\ SubSeq(kept, l + 1, off) \in Seq(Nat)
        /\ Len(SubSeq(kept, l + 1, off)) = off - l
        /\ \A i \in 1..(off - l) : SubSeq(kept, l + 1, off)[i] = kept[l + 1 + i - 1]
    BY <2>1, <2>2, SubSeqProperties
  <2>4. Slice(l, off) \in Seq(Nat)
    <3>1. off <= Cap BY <1>1
    <3> QED BY <1>1, <3>1, SliceType DEF Inv
  <2>5. Len(Slice(l, off)) = off - l /\ \A i \in 1..(off - l) : Slice(l, off)[i] = data[l + i - 1]
    BY <1>1, <1>3 DEF Slice
  <2>6. ASSUME NEW i \in 1..(off - l) PROVE Slice(l, off)[i] = SubSeq(kept, l + 1, off)[i]
    <3>1. l + i - 1 \in 0..(off - 1) /\ l + i - 1 + 1 = l + 1 + i - 1 BY <1>1
    <3> QED BY <1>2, <2>3, <2>5, <3>1
  <2> QED BY <2>3, <2>4, <2>5, <2>6, SeqEqual
<1>5. got[f] = SubSeq(kept, s + 1, l) BY DEF Inv, FollowExact
<1>6. SubSeq(kept, s + 1, l) \o SubSeq(kept, l + 1, off) = SubSeq(kept, s + 1, off)
  <2> DEFINE m == s + 1
  <2>1. m \in 1..(Len(kept) + 1) /\ l \in (m - 1)..Len(kept) /\ off \in l..Len(kept)
    BY <1>1, <1>2
  <2>2. kept \in Seq(Nat) BY <1>1
  <2> HIDE DEF m, l
  <2>3. SubSeq(kept, m, l) \o SubSeq(kept, l + 1, off) = SubSeq(kept, m, off)
    BY <2>1, <2>2, ConcatAdjacentSubSeq
  <2> QED BY <2>3 DEF m
<1>7. SinceOffset(l).bytes = Slice(l, off) /\ SinceOffset(l).total = off BY <1>3
<1> QED BY <1>4, <1>5, <1>6, <1>7

LEMMA TickInv == ASSUME Inv, NEW f \in Followers, Tick(f) PROVE Inv'
<1> USE DEF Inv
<1> DEFINE new == SinceOffset(lastTotal[f])
<1>0. /\ pc[f] = "poll" /\ new.bytes # <<>>
      /\ UNCHANGED <<buffer, exited, ioLastSent, start>>
  BY DEF Tick
<1>1. new.bytes \in Seq(Nat) /\ new.total \in Nat BY SinceOffsetType DEF TypeOK
<1>2. ~full => /\ new.total = off
               /\ got[f] \o new.bytes = SubSeq(kept, start[f] + 1, off)
  BY <1>0, NextBytes
<1> HIDE DEF new
<1>3. CASE /\ got' = [got EXCEPT ![f] = @ \o new.bytes]
           /\ lastTotal' = [lastTotal EXCEPT ![f] = new.total]
           /\ newTotal' = [newTotal EXCEPT ![f] = new.total]
           /\ pc' = [pc EXCEPT ![f] = "record"]
  <2>1. got[f] \o new.bytes \in Seq(Nat) BY <1>1, ConcatProperties DEF TypeOK
  <2>2. TypeOK' BY <1>0, <1>1, <1>3, <2>1 DEF TypeOK, Label, buffer
  <2>3. /\ pc'[f] = "record" /\ lastTotal'[f] = new.total /\ newTotal'[f] = new.total
        /\ got'[f] = got[f] \o new.bytes /\ start' = start
    BY <1>0, <1>3 DEF TypeOK
  <2>4. ASSUME ~full PROVE ioLastSent' <= off /\ Offsets(f)'
    <3>1. /\ start[f] <= lastTotal[f] /\ lastTotal[f] <= off /\ ioLastSent <= off
          /\ start[f] \in Nat /\ lastTotal[f] \in Nat /\ off \in Nat
      BY <2>4 DEF Offsets, TypeOK, Index
    <3> QED BY <1>0, <1>2, <2>3, <2>4, <3>1 DEF Offsets, buffer
  <2>5. ~full => got'[f] = SubSeq(kept, start'[f] + 1, lastTotal'[f]) BY <1>2, <2>3
  <2>6. ASSUME ~full, ~exited
        PROVE  /\ Covered(ioLastSent)' /\ Covered(start[f])'
               /\ \A i \in Nat : start[f] < i /\ i <= lastTotal[f] =>
                                    start'[f] < i /\ i <= lastTotal'[f]
    <3>1. lastTotal[f] <= off /\ lastTotal[f] \in Nat /\ off \in Nat
      BY <2>6 DEF Offsets, TypeOK, Index
    <3>2. ASSUME NEW e \in Followers, NEW i \in Nat, i <= lastTotal[e] PROVE i <= lastTotal'[e]
      <4>1. CASE e = f BY <1>2, <2>3, <2>6, <3>1, <3>2, <4>1
      <4>2. CASE e # f BY <1>3, <3>2, <4>2
      <4> QED BY <4>1, <4>2
    <3>3. Covered(ioLastSent) /\ Covered(start[f]) BY <2>6
    <3>4. ioLastSent \in Nat /\ start[f] \in Nat BY DEF TypeOK
    <3> QED BY <1>0, <3>2, <3>3, <3>4 DEF Covered
  <2>7. \A g \in Followers \ {f} :
           /\ pc'[g] = pc[g] /\ start'[g] = start[g] /\ lastTotal'[g] = lastTotal[g]
           /\ newTotal'[g] = newTotal[g] /\ got'[g] = got[g]
    BY <1>0, <1>3 DEF TypeOK
  <2>8. UNCHANGED <<buffer, exited>> /\ pc'[f] = "record" BY <1>0, <2>3
  <2> QED BY <2>2, <2>4, <2>5, <2>6, <2>7, <2>8, FollowerStep
<1>4. CASE pc' = [pc EXCEPT ![f] = "broken"] /\ UNCHANGED <<lastTotal, newTotal, got>>
  <2>1. TypeOK' BY <1>0, <1>4 DEF TypeOK, Label, buffer
  <2>2. pc'[f] = "broken" BY <1>4 DEF TypeOK
  <2>3. ~full => ioLastSent' <= off /\ Offsets(f)' BY <1>0, <1>4, <2>2 DEF Offsets, buffer
  <2>4. ~full => got'[f] = SubSeq(kept, start'[f] + 1, lastTotal'[f])
    BY <1>0, <1>4 DEF FollowExact
  <2>5. ~full /\ ~exited => Covered(ioLastSent)' /\ Covered(start[f])'
    BY <1>0, <1>4 DEF Covered
  <2> QED BY <1>0, <1>4, <2>1, <2>2, <2>3, <2>4, <2>5, FollowerStep
<1> QED BY <1>3, <1>4 DEF Tick, new

LEMMA FinalFlushInv == ASSUME Inv, NEW f \in Followers, FinalFlush(f) PROVE Inv'
<1> USE DEF Inv
<1> DEFINE new == SinceOffset(lastTotal[f])
<1>0. /\ pc[f] = "poll" /\ exited
      /\ UNCHANGED <<buffer, exited, ioLastSent, lastTotal, start>>
  BY DEF FinalFlush
<1>1. new.bytes \in Seq(Nat) /\ new.total \in Nat BY SinceOffsetType DEF TypeOK
<1>2. ~full /\ new.bytes # <<>> => /\ new.total = off
                                   /\ got[f] \o new.bytes = SubSeq(kept, start[f] + 1, off)
  BY <1>0, NextBytes
<1> HIDE DEF new
<1>3. ~full => ioLastSent <= off /\ Offsets(f) /\ got[f] = SubSeq(kept, start[f] + 1, lastTotal[f])
  BY <1>0 DEF FollowExact
<1>4. CASE pc' = [pc EXCEPT ![f] = "ended"] /\ UNCHANGED <<newTotal, got>>
  <2>1. TypeOK' BY <1>0, <1>4 DEF TypeOK, Label, buffer
  <2>2. pc'[f] = "ended" BY <1>4 DEF TypeOK
  <2>3. ~full => ioLastSent' <= off /\ Offsets(f)' BY <1>0, <1>3, <1>4, <2>2 DEF Offsets, buffer
  <2> QED BY <1>0, <1>4, <2>1, <2>2, <2>3, FollowerStep
<1>5. CASE /\ new.bytes # <<>>
           /\ newTotal' = [newTotal EXCEPT ![f] = new.total]
           /\ got' = [got EXCEPT ![f] = @ \o new.bytes]
           /\ pc' = [pc EXCEPT ![f] = "lastRecord"]
  <2>1. got[f] \o new.bytes \in Seq(Nat) BY <1>1, ConcatProperties DEF TypeOK
  <2>2. TypeOK' BY <1>0, <1>1, <1>5, <2>1 DEF TypeOK, Label, buffer
  <2>3. pc'[f] = "lastRecord" /\ newTotal'[f] = new.total /\ got'[f] = got[f] \o new.bytes
    BY <1>5 DEF TypeOK
  <2>4. ~full => ioLastSent' <= off /\ Offsets(f)'
    <3> SUFFICES ASSUME ~full PROVE ioLastSent' <= off /\ Offsets(f)' OBVIOUS
    <3>1. off \in Nat /\ off' = off BY <1>0 DEF TypeOK, Index, buffer
    <3>2. newTotal'[f] = off BY <1>2, <1>5, <2>3
    <3>3. /\ start'[f] = start[f] /\ lastTotal'[f] = lastTotal[f]
          /\ ioLastSent' = ioLastSent /\ exited'
      BY <1>0
    <3>4. ioLastSent <= off /\ start[f] <= lastTotal[f] /\ lastTotal[f] <= off
      BY <1>3 DEF Offsets
    <3> QED BY <2>3, <3>1, <3>2, <3>3, <3>4 DEF Offsets
  <2>5. ~full => got'[f] = SubSeq(kept, start'[f] + 1, newTotal'[f])
    BY <1>0, <1>2, <1>5, <2>3
  <2>6. \A g \in Followers \ {f} :
           /\ pc'[g] = pc[g] /\ start'[g] = start[g] /\ lastTotal'[g] = lastTotal[g]
           /\ newTotal'[g] = newTotal[g] /\ got'[g] = got[g]
    BY <1>0, <1>5 DEF TypeOK
  <2>7. UNCHANGED <<buffer, exited>> /\ exited /\ pc'[f] = "lastRecord" BY <1>0, <2>3
  <2> QED BY <2>2, <2>4, <2>5, <2>6, <2>7, FollowerStep
<1>6. CASE /\ new.bytes # <<>>
           /\ newTotal' = [newTotal EXCEPT ![f] = new.total]
           /\ pc' = [pc EXCEPT ![f] = "unsentRecord"]
           /\ UNCHANGED got
  <2>1. TypeOK' BY <1>0, <1>1, <1>6 DEF TypeOK, Label, buffer
  <2>2. pc'[f] = "unsentRecord" /\ newTotal'[f] = new.total BY <1>6 DEF TypeOK
  <2>3. ~full => ioLastSent' <= off /\ Offsets(f)'
    <3> SUFFICES ASSUME ~full PROVE ioLastSent' <= off /\ Offsets(f)' OBVIOUS
    <3>1. off \in Nat /\ off' = off BY <1>0 DEF TypeOK, Index, buffer
    <3>2. newTotal'[f] = off BY <1>2, <1>6, <2>2
    <3>3. /\ start'[f] = start[f] /\ lastTotal'[f] = lastTotal[f]
          /\ ioLastSent' = ioLastSent /\ exited'
      BY <1>0
    <3>4. ioLastSent <= off /\ start[f] <= lastTotal[f] /\ lastTotal[f] <= off
      BY <1>3 DEF Offsets
    <3> QED BY <2>2, <3>1, <3>2, <3>3, <3>4 DEF Offsets
  <2>4. ~full => got'[f] = SubSeq(kept, start'[f] + 1, lastTotal'[f]) BY <1>0, <1>3, <1>6
  <2> QED BY <1>0, <1>6, <2>1, <2>2, <2>3, <2>4, FollowerStep
<1> QED BY <1>4, <1>5, <1>6 DEF FinalFlush, new

LEMMA RecordInv == ASSUME Inv, NEW f \in Followers, Record(f) PROVE Inv'
<1> USE DEF Inv
<1>0. /\ pc[f] \in {"record", "lastRecord", "unsentRecord"}
      /\ ioLastSent' = newTotal[f]
      /\ UNCHANGED <<buffer, exited, lastTotal, newTotal, start, got>>
  BY DEF Record
<1>1. /\ pc' = [pc EXCEPT ![f] = pc'[f]]
      /\ pc[f] = "record" => pc'[f] = "poll"
      /\ pc[f] = "lastRecord" => pc'[f] = "ended"
      /\ pc[f] = "unsentRecord" => pc'[f] = "broken"
  BY DEF Record, TypeOK
<1>2. TypeOK' BY <1>0, <1>1 DEF TypeOK, Label, buffer
<1>3. pc'[f] \in {"poll", "ended", "broken"} BY <1>0, <1>1
<1>4. ~full => ioLastSent' <= off /\ Offsets(f)' BY <1>0, <1>3 DEF Offsets, buffer
<1>5. ~full /\ pc'[f] \in {"poll", "broken"} =>
         got'[f] = SubSeq(kept, start'[f] + 1, lastTotal'[f])
  BY <1>0, <1>1 DEF FollowExact
<1>6. ASSUME ~full, ~exited PROVE Covered(ioLastSent)' /\ Covered(start[f])'
  <2>1. /\ Covered(start[f]) /\ newTotal[f] = lastTotal[f]
        /\ start[f] \in Nat /\ lastTotal[f] \in Nat
    BY <1>0, <1>6 DEF Offsets, TypeOK
  <2>2. ASSUME NEW i \in 1..lastTotal[f]
        PROVE  \E e \in Followers : start[e] < i /\ i <= lastTotal[e]
    <3>1. CASE i <= start[f] BY <2>1, <3>1 DEF Covered
    <3>2. CASE ~(i <= start[f]) BY <2>1, <3>2
    <3> QED BY <3>1, <3>2
  <2> QED BY <1>0, <2>1, <2>2 DEF Covered
<1>7. \A g \in Followers \ {f} : pc'[g] = pc[g] BY <1>1 DEF TypeOK
<1> QED BY <1>0, <1>2, <1>3, <1>4, <1>5, <1>6, <1>7, FollowerStep

LEMMA CancelInv == ASSUME Inv, NEW f \in Followers, Cancel(f) PROVE Inv'
<1> USE DEF Inv
<1>0. /\ pc[f] = "poll" /\ pc' = [pc EXCEPT ![f] = "broken"]
      /\ UNCHANGED <<buffer, exited, ioLastSent, lastTotal, newTotal, start, got>>
  BY DEF Cancel
<1>1. TypeOK' BY <1>0 DEF TypeOK, Label, buffer
<1>2. pc'[f] = "broken" BY <1>0 DEF TypeOK
<1>3. ~full => ioLastSent' <= off /\ Offsets(f)' BY <1>0, <1>2 DEF Offsets, buffer
<1>4. ~full => got'[f] = SubSeq(kept, start'[f] + 1, lastTotal'[f])
  BY <1>0 DEF FollowExact
<1>5. ~full /\ ~exited => Covered(ioLastSent)' /\ Covered(start[f])' BY <1>0 DEF Covered
<1> QED BY <1>0, <1>1, <1>2, <1>3, <1>4, <1>5, FollowerStep

\* Every step keeps the invariant.
LEMMA NextInv == Inv /\ [Next]_vars => Inv'
<1> SUFFICES ASSUME Inv, [Next]_vars PROVE Inv' OBVIOUS
<1>1. CASE UNCHANGED vars
  BY <1>1 DEF vars, buffer, calls, Inv, TypeOK, Ring, Offsets, FollowExact, Covered
<1>2. CASE Exit
  BY <1>2 DEF Exit, buffer, calls, Inv, TypeOK, Ring, Offsets, FollowExact, Covered
<1>3. CASE \E n \in 1..MaxChunk : HandleIo(n) BY <1>3, HandleIoInv
<1>4. CASE \E f \in Followers :
              Attach(f) \/ Tick(f) \/ FinalFlush(f) \/ Record(f) \/ Cancel(f)
  BY <1>4, AttachInv, TickInv, FinalFlushInv, RecordInv, CancelInv
<1> QED BY <1>1, <1>2, <1>3, <1>4 DEF Next

LEMMA Invariance == Spec => []Inv
  BY InitInv, NextInv, PTL DEF Spec

\* The variables keep their types; the offset of the buffer (r.off) never
\* leaves it, whatever the lengths of the chunks.
THEOREM OutputTypeOK == Spec => []TypeOK
<1>1. Inv => TypeOK BY DEF Inv
<1> QED BY <1>1, Invariance, PTL

\* ringBuffer.Bytes is the latest Cap bytes that Write stored, in their order.
THEOREM OutputDumpIsLatest == Spec => []DumpIsLatest
<1>1. Inv => DumpIsLatest BY RingDump DEF Inv
<1> QED BY <1>1, Invariance, PTL

\* Followers of a buffer that is not full (StreamProcessIO with Follow) get
\* every byte from where they attached, once and in order.
THEOREM OutputFollowExact == Spec => []FollowExact
<1>1. Inv => FollowExact BY DEF Inv
<1> QED BY <1>1, Invariance, PTL

\* The offset that concurrent followers share (ioLastSent) skips no byte that
\* nobody was sent, while the process runs and its buffer is not full.
THEOREM OutputOffsetIsCovered == Spec => []OffsetIsCovered
<1>1. Inv => OffsetIsCovered BY DEF Inv, Covered, OffsetIsCovered
<1> QED BY <1>1, Invariance, PTL

-----------------------------------------------------------------------------
(* What followers get of a full buffer. *)

\* The follower's offset is at the total of a full buffer, or its call is over.
Served(f) == lastTotal[f] = 2 * Cap \/ pc[f] \notin {"off", "poll", "record"}

\* A full buffer stays full, and sends something to each follower at most once:
\* its total is the constant 2 * Cap, so that whatever arrives later is not new
\* to a follower that has reached it (process_table.go:377).  A follower that
\* attaches at that offset gets nothing at all.
FullSendsOnce ==
    [][full => /\ full'
               /\ \A f \in Followers :
                     /\ Served(f) => Served(f)' /\ got'[f] = got[f]
                     /\ got'[f] = got[f] \/ Served(f)']_vars

\* A follower has no offset before it attaches.
Unattached == \A f \in Followers : pc[f] = "off" => lastTotal[f] = 0

LEMMA UnattachedStep == ASSUME TypeOK, Unattached, [Next]_vars PROVE Unattached'
<1>1. CASE UNCHANGED calls
  BY <1>1 DEF Unattached, calls
<1>2. ASSUME NEW f \in Followers, Attach(f) \/ Tick(f) \/ FinalFlush(f) \/ Record(f) \/ Cancel(f)
      PROVE  Unattached'
  <2>1. pc'[f] # "off"
    BY <1>2 DEF Attach, Tick, FinalFlush, Record, Cancel, TypeOK, Label
  <2>2. \A g \in Followers \ {f} : pc'[g] = pc[g] /\ lastTotal'[g] = lastTotal[g]
    BY <1>2 DEF Attach, Tick, FinalFlush, Record, Cancel, TypeOK
  <2> QED  BY <2>1, <2>2 DEF Unattached
<1> QED  BY <1>1, <1>2 DEF Next, HandleIo, Exit, vars

LEMMA FullStays == ASSUME full, [Next]_vars PROVE full'
BY DEF Next, HandleIo, Write, Exit, Attach, Tick, FinalFlush, Record, Cancel, vars, buffer

\* SinceOffset of a full buffer.
LEMMA SinceOffsetFull ==
    ASSUME full, NEW last \in Nat
    PROVE  /\ last = 2 * Cap => SinceOffset(last).bytes = <<>>
           /\ SinceOffset(last).bytes # <<>> => SinceOffset(last).total = 2 * Cap
BY DEF SinceOffset, Total

LEMMA FullStep ==
    ASSUME TypeOK, Unattached, full, [Next]_vars, NEW f \in Followers
    PROVE  /\ Served(f) => Served(f)' /\ got'[f] = got[f]
           /\ got'[f] = got[f] \/ Served(f)'
<1> DEFINE Goal == /\ Served(f) => Served(f)' /\ got'[f] = got[f]
                   /\ got'[f] = got[f] \/ Served(f)'
<1>0. lastTotal[f] \in Nat /\ 2 * Cap # 0
  BY DEF TypeOK
<1>1. CASE UNCHANGED <<lastTotal[f], pc[f], got[f]>>
  BY <1>1 DEF Served
<1>2. CASE UNCHANGED calls
  BY <1>1, <1>2 DEF calls
<1>3. ASSUME NEW g \in Followers, g # f,
             Attach(g) \/ Tick(g) \/ FinalFlush(g) \/ Record(g) \/ Cancel(g)
      PROVE  Goal
  <2>1. UNCHANGED <<lastTotal[f], pc[f], got[f]>>
    BY <1>3 DEF Attach, Tick, FinalFlush, Record, Cancel, TypeOK
  <2> QED  BY <1>1, <2>1
<1>4. CASE Attach(f)
  <2>1. ~Served(f) /\ got' = got
    BY <1>0, <1>4 DEF Attach, Served, Unattached
  <2> QED  BY <2>1
<1>5. CASE Tick(f)
  <2>1. pc[f] = "poll" /\ SinceOffset(lastTotal[f]).bytes # <<>>
    BY <1>5 DEF Tick
  <2>2. ~Served(f) /\ SinceOffset(lastTotal[f]).total = 2 * Cap
    BY <1>0, <2>1, SinceOffsetFull DEF Served
  <2>3. \/ lastTotal' = [lastTotal EXCEPT ![f] = SinceOffset(lastTotal[f]).total]
        \/ got' = got
    BY <1>5 DEF Tick
  <2>4. got' = got \/ lastTotal'[f] = 2 * Cap
    BY <2>2, <2>3 DEF TypeOK
  <2> QED  BY <2>2, <2>4 DEF Served
<1>6. CASE FinalFlush(f)
  <2>1. /\ pc[f] = "poll"
        /\ SinceOffset(lastTotal[f]).bytes = <<>> => got' = got
        /\ pc'[f] \in {"ended", "lastRecord", "unsentRecord"}
    BY <1>6 DEF FinalFlush, TypeOK
  <2>2. Served(f) => SinceOffset(lastTotal[f]).bytes = <<>>
    BY <1>0, <2>1, SinceOffsetFull DEF Served
  <2>3. Served(f)'
    BY <2>1 DEF Served
  <2> QED  BY <2>1, <2>2, <2>3
<1>7. CASE Record(f)
  <2>1. got' = got /\ lastTotal' = lastTotal
    BY <1>7 DEF Record
  <2>2. pc[f] = "record" \/ pc'[f] \in {"ended", "broken"}
    BY <1>7 DEF Record, TypeOK
  <2> QED  BY <2>1, <2>2 DEF Served
<1>8. CASE Cancel(f)
  BY <1>8 DEF Cancel, Served, TypeOK
<1> QED
  BY <1>2, <1>3, <1>4, <1>5, <1>6, <1>7, <1>8 DEF Next, HandleIo, Exit, vars

\* Once its buffer is full, a process's followers are sent at most one more
\* batch each, however much it goes on to write.
THEOREM OutputFullSendsOnce == Spec => FullSendsOnce
<1>1. Init => Unattached
  BY DEF Init, Unattached
<1>2. TypeOK /\ Unattached /\ [Next]_vars => Unattached'
  BY UnattachedStep
<1>3. ASSUME TypeOK, Unattached, [Next]_vars
      PROVE  full => /\ full'
                     /\ \A f \in Followers :
                           /\ Served(f) => Served(f)' /\ got'[f] = got[f]
                           /\ got'[f] = got[f] \/ Served(f)'
  BY <1>3, FullStays, FullStep
<1> QED  BY <1>1, <1>2, <1>3, OutputTypeOK, PTL DEF Spec, FullSendsOnce
=============================================================================
