------------------------- MODULE BeeRTOS_queue_proofs -------------------------
(***************************************************************************)
(* Proofs about the rings, for every set of queues, all their sizes and    *)
(* all lengths that divide them.                                           *)
(***************************************************************************)
EXTENDS BeeRTOS_queue, SequenceTheorems, TLAPS

-----------------------------------------------------------------------------
(***************************************************************************)
(* Offsets: multiples of the length below the size.                        *)
(***************************************************************************)
LEMMA RingStays ==
    ASSUME NEW s \in Nat, NEW n \in 0 .. s - 1
    PROVE  n % s = n
OBVIOUS

LEMMA RingWraps ==
    ASSUME NEW s \in Nat, s > 0, NEW n \in s .. 2 * s - 1
    PROVE  n % s = n - s
OBVIOUS

LEMMA WholeDivides ==
    ASSUME NEW s \in Nat, NEW l \in Nat \ {0}, s % l = 0
    PROVE  /\ s \div l \in Nat
           /\ s = (s \div l) * l
OBVIOUS

LEMMA NextMultiple ==
    ASSUME NEW j \in Nat, NEW k \in Nat, NEW l \in Nat \ {0}, j * l < k * l
    PROVE  j * l + l <= k * l /\ j * l + l = (j + 1) * l
<1>1. j < k
  <2> SUFFICES ASSUME k <= j PROVE FALSE
    OBVIOUS
  <2>1. k * l <= j * l
    OBVIOUS
  <2> QED BY <2>1
<1>2. (j + 1) * l <= k * l
  BY <1>1
<1> QED BY <1>2

LEMMA AppendToOne ==
    ASSUME NEW a, NEW b
    PROVE  Append(<<a>>, b) = <<a, b>>
<1> DEFINE S == {a, b}
<1>1. <<a>> \in Seq(S) /\ <<a, b>> \in Seq(S) /\ b \in S
  OBVIOUS
<1>2. /\ Append(<<a>>, b) \in Seq(S)
      /\ Len(Append(<<a>>, b)) = Len(<<a>>) + 1
      /\ \A i \in 1 .. Len(<<a>>) : Append(<<a>>, b)[i] = <<a>>[i]
      /\ Append(<<a>>, b)[Len(<<a>>) + 1] = b
  <2> HIDE DEF S
  <2> QED BY <1>1, AppendProperties
<1>3. Len(<<a>>) = 1 /\ Len(<<a, b>>) = 2
  OBVIOUS
<1>4. \A i \in 1 .. 2 : Append(<<a>>, b)[i] = <<a, b>>[i]
  <2>1. Append(<<a>>, b)[1] = a /\ Append(<<a>>, b)[2] = b
    BY <1>2, <1>3
  <2> QED BY <2>1
<1>5. /\ Len(Append(<<a>>, b)) = Len(<<a, b>>)
      /\ \A i \in 1 .. Len(Append(<<a>>, b)) : Append(<<a>>, b)[i] = <<a, b>>[i]
  BY <1>2, <1>3, <1>4
<1>6. \A s, t \in Seq(S) : Len(s) = Len(t) /\ (\A i \in 1 .. Len(s) : s[i] = t[i]) => s = t
  <2> HIDE DEF S
  <2> QED BY SeqEqual
<1> HIDE DEF S
<1> QED BY <1>1, <1>2, <1>5, <1>6, Zenon

-----------------------------------------------------------------------------
(***************************************************************************)
(* The shapes of a ring.  After is where the element at offset n ends; a   *)
(* ring the code fills holds at most two elements.                         *)
(***************************************************************************)
Offset(q, n) == n \in Nat /\ n < Size[q] /\ \E k \in Nat : n = k * ItemSize[q]

After(q, n) == IF n + ItemSize[q] = Size[q] THEN 0 ELSE n + ItemSize[q]

Empty(q) == ~full[q] /\ head[q] = tail[q]
One(q)   == head[q] = After(q, tail[q]) /\ (full[q] <=> Size[q] = ItemSize[q])
Two(q)   == full[q] /\ head[q] = tail[q] /\ Size[q] = 2 * ItemSize[q]

RingTypes ==
    /\ head \in [Queue -> Nat] /\ tail \in [Queue -> Nat]
    /\ full \in [Queue -> BOOLEAN]
    /\ buffer = [q \in Queue |-> buffer[q]]
    /\ \A q \in Queue :
          /\ Offset(q, head[q]) /\ Offset(q, tail[q])
          /\ DOMAIN buffer[q] = 0 .. Size[q] - 1
          /\ \A i \in 0 .. Size[q] - 1 :
                buffer[q][i] \in {Zero} \cup (Item \X (0 .. ItemSize[q] - 1))

RingInv == RingTypes /\ \A q \in Queue : Empty(q) \/ One(q) \/ Two(q)

LEMMA SizeFacts ==
    ASSUME NEW q \in Queue
    PROVE  /\ Size[q] \in Nat \ {0} /\ ItemSize[q] \in Nat \ {0}
           /\ ItemSize[q] <= Size[q]
           /\ Size[q] > ItemSize[q] => Size[q] >= 2 * ItemSize[q]
           /\ \E k \in Nat : Size[q] = k * ItemSize[q]
<1>1. Size[q] \in Nat \ {0} /\ ItemSize[q] \in Nat \ {0} /\ Size[q] % ItemSize[q] = 0
  BY SizeAssumption
<1>2. PICK k \in Nat : Size[q] = k * ItemSize[q]
  BY <1>1, WholeDivides
<1>3. ItemSize[q] <= Size[q]
  <2>1. 0 * ItemSize[q] < k * ItemSize[q]
    BY <1>1, <1>2
  <2> QED BY <1>1, <1>2, <2>1, NextMultiple
<1>4. Size[q] > ItemSize[q] => Size[q] >= 2 * ItemSize[q]
  <2> SUFFICES ASSUME Size[q] > ItemSize[q] PROVE Size[q] >= 2 * ItemSize[q]
    OBVIOUS
  <2>1. 1 * ItemSize[q] < k * ItemSize[q]
    BY <1>1, <1>2
  <2>2. 1 * ItemSize[q] + ItemSize[q] <= k * ItemSize[q]
    BY <1>1, <2>1, NextMultiple
  <2> QED BY <1>1, <1>2, <2>2
<1> QED BY <1>1, <1>2, <1>3, <1>4

\* An element at an offset ends inside the buffer, at the next offset.
LEMMA Advances ==
    ASSUME NEW q \in Queue, NEW n, Offset(q, n)
    PROVE  /\ n + ItemSize[q] <= Size[q]
           /\ (n + ItemSize[q]) % Size[q] = After(q, n)
           /\ Offset(q, After(q, n))
<1> DEFINE l == ItemSize[q]
           s == Size[q]
<1>1. s \in Nat \ {0} /\ l \in Nat \ {0} /\ l <= s
  BY SizeFacts
<1>2. PICK k \in Nat : s = k * l
  BY SizeFacts
<1>3. PICK j \in Nat : n = j * l /\ n < s /\ n \in Nat
  BY DEF Offset
<1> HIDE DEF l, s
<1>4. j * l + l <= k * l /\ j * l + l = (j + 1) * l
  BY <1>1, <1>2, <1>3, NextMultiple
<1>5. n + l <= s /\ n + l = (j + 1) * l
  BY <1>2, <1>3, <1>4
<1>6. CASE n + l = s
  <2>1. s % s = 0
    BY <1>1, RingWraps
  <2>2. 0 = 0 * l /\ 0 < s
    BY <1>1
  <2> QED BY <1>5, <1>6, <2>1, <2>2 DEF After, Offset, l, s
<1>7. CASE n + l < s
  <2>1. n + l \in 0 .. s - 1
    BY <1>1, <1>3, <1>7
  <2>2. (n + l) % s = n + l
    BY <1>1, <2>1, RingStays
  <2>3. n + l # s
    BY <1>1, <1>3, <1>7
  <2>4. \E i \in Nat : n + l = i * l
    BY <1>5
  <2> QED BY <1>5, <1>7, <2>1, <2>2, <2>3, <2>4 DEF After, Offset, l, s
<1> QED BY <1>1, <1>3, <1>5, <1>6, <1>7

\* One element fills the ring of one, and two the ring of two, and no other.
LEMMA AfterFills ==
    ASSUME NEW q \in Queue, NEW n, Offset(q, n)
    PROVE  /\ After(q, n) = n <=> Size[q] = ItemSize[q]
           /\ Size[q] = 2 * ItemSize[q] => After(q, After(q, n)) = n
<1> DEFINE l == ItemSize[q]
           s == Size[q]
<1>1. s \in Nat \ {0} /\ l \in Nat \ {0} /\ n \in Nat /\ n < s /\ n + l <= s
  BY SizeFacts, Advances DEF Offset
<1>2. PICK j \in Nat : n = j * l
  BY DEF Offset
<1> HIDE DEF l, s
<1>3. After(q, n) = IF n + l = s THEN 0 ELSE n + l
  BY DEF After, l, s
<1>4. After(q, n) = n <=> s = l
  BY <1>1, <1>3
<1>5. ASSUME s = 2 * l PROVE After(q, After(q, n)) = n
  <2>1. n = 0 \/ n = l
    <3>1. CASE j = 0
      BY <1>1, <1>2, <3>1
    <3>2. CASE j # 0
      <4>1. n >= l
        <5>1. j >= 1
          BY <3>2
        <5>2. j * l >= 1 * l
          BY <1>1, <5>1
        <5> QED BY <1>1, <1>2, <5>2
      <4> QED BY <1>1, <1>5, <4>1
    <3> QED BY <3>1, <3>2
  <2>2. \A m \in {0, l} : After(q, m) = IF m + l = s THEN 0 ELSE m + l
    BY DEF After, l, s
  <2> QED BY <1>1, <1>5, <2>1, <2>2
<1> QED BY <1>4, <1>5 DEF l, s

\* What the calls compare: the distance from head to tail.
LEMMA Distances ==
    ASSUME RingInv, NEW q \in Queue
    PROVE  /\ Empty(q) => Distance(q) = 0
           /\ One(q) /\ Size[q] > ItemSize[q] => Distance(q) = Size[q] - ItemSize[q]
<1> DEFINE l == ItemSize[q]
           s == Size[q]
           h == head[q]
           t == tail[q]
<1>1. /\ s \in Nat \ {0} /\ l \in Nat \ {0} /\ l <= s
      /\ h \in Nat /\ h < s /\ t \in Nat /\ t < s /\ t + l <= s
  BY SizeFacts, Advances DEF RingInv, RingTypes, Offset
<1>2. Distance(q) = (s - h + t) % s
  BY DEF Distance
<1> HIDE DEF l, s, h, t
<1>3. ASSUME h = t PROVE Distance(q) = 0
  <2>1. s - h + t = s /\ s \in s .. 2 * s - 1
    BY <1>1, <1>3
  <2>2. s % s = s - s
    BY <1>1, <2>1, RingWraps
  <2> QED BY <1>1, <1>2, <2>1, <2>2
<1>4. ASSUME h = IF t + l = s THEN 0 ELSE t + l, s > l PROVE Distance(q) = s - l
  <2>1. CASE t + l = s
    <3>1. s - h + t = s + (s - l) /\ s + (s - l) \in s .. 2 * s - 1
      BY <1>1, <1>4, <2>1
    <3>2. (s + (s - l)) % s = (s + (s - l)) - s
      BY <1>1, <3>1, RingWraps
    <3> QED BY <1>1, <1>2, <3>1, <3>2
  <2>2. CASE t + l # s
    <3>1. s - h + t = s - l /\ s - l \in 0 .. s - 1
      BY <1>1, <1>4, <2>2
    <3>2. (s - l) % s = s - l
      BY <1>1, <3>1, RingStays
    <3> QED BY <1>1, <1>2, <3>1, <3>2
  <2> QED BY <2>1, <2>2
<1> QED BY <1>3, <1>4 DEF Empty, One, After, l, s, h, t

\* Which calls succeed in which shape.
LEMMA Accepts ==
    ASSUME RingInv, NEW q \in Queue
    PROVE  /\ os_queue_can_push(q, ItemSize[q])
                <=> Empty(q) \/ (One(q) /\ Size[q] = 2 * ItemSize[q])
           /\ os_queue_can_pop(q, ItemSize[q]) <=> One(q) \/ Two(q)
<1>1. /\ Size[q] \in Nat \ {0} /\ ItemSize[q] \in Nat \ {0}
      /\ ItemSize[q] <= Size[q]
      /\ Size[q] > ItemSize[q] => Size[q] >= 2 * ItemSize[q]
  BY SizeFacts
<1>2. After(q, tail[q]) = tail[q] <=> Size[q] = ItemSize[q]
  BY AfterFills DEF RingInv, RingTypes
<1>3. CASE Empty(q)
  <2>1. ~full[q] /\ Distance(q) = 0
    BY <1>3, Distances DEF Empty
  <2>2. ~One(q)
    BY <1>2, <1>3 DEF Empty, One
  <2>3. ~Two(q)
    BY <2>1 DEF Two
  <2>4. 0 <= ItemSize[q] /\ ~(0 >= ItemSize[q])
    BY <1>1
  <2>5. os_queue_can_push(q, ItemSize[q])
    BY <2>1, <2>4 DEF os_queue_can_push
  <2>6. ~os_queue_can_pop(q, ItemSize[q])
    BY <2>1, <2>4 DEF os_queue_can_pop
  <2> QED BY <1>3, <2>2, <2>3, <2>5, <2>6
<1>4. CASE One(q) /\ Size[q] > ItemSize[q]
  <2>1. Size[q] # ItemSize[q]
    BY <1>1, <1>4
  <2>2. ~full[q] /\ head[q] # tail[q]
    BY <1>2, <1>4, <2>1 DEF One
  <2>3. ~Empty(q)
    BY <2>2 DEF Empty
  <2>4. Distance(q) = Size[q] - ItemSize[q]
    BY <1>4, Distances
  <2>5. /\ Size[q] - ItemSize[q] <= ItemSize[q] <=> Size[q] = 2 * ItemSize[q]
        /\ Size[q] - ItemSize[q] >= ItemSize[q]
    BY <1>1, <1>4
  <2>6. os_queue_can_push(q, ItemSize[q]) <=> Size[q] = 2 * ItemSize[q]
    BY <2>2, <2>4, <2>5 DEF os_queue_can_push
  <2>7. os_queue_can_pop(q, ItemSize[q])
    BY <2>4, <2>5 DEF os_queue_can_pop
  <2> QED BY <1>4, <2>3, <2>6, <2>7
<1>5. CASE One(q) /\ Size[q] = ItemSize[q]
  <2>1. full[q]
    BY <1>5 DEF One
  <2>2. Size[q] # 2 * ItemSize[q]
    BY <1>1, <1>5
  <2> QED BY <1>5, <2>1, <2>2 DEF Empty, os_queue_can_push, os_queue_can_pop
<1>6. CASE Two(q)
  <2>1. full[q] /\ head[q] = tail[q] /\ Size[q] # ItemSize[q]
    BY <1>1, <1>6 DEF Two
  <2>2. ~One(q)
    BY <1>2, <2>1 DEF One
  <2> QED BY <1>6, <2>1, <2>2 DEF Empty, os_queue_can_push, os_queue_can_pop
<1>7. Size[q] > ItemSize[q] \/ Size[q] = ItemSize[q]
  BY <1>1
<1> QED BY <1>3, <1>4, <1>5, <1>6, <1>7 DEF RingInv

-----------------------------------------------------------------------------
(***************************************************************************)
(* The elements of a ring, and what push and pop do to them.               *)
(***************************************************************************)
ElementAt(q, n) == [i \in 0 .. ItemSize[q] - 1 |-> buffer[q][n + i]]

LEMMA UsedBytes ==
    ASSUME RingInv, NEW q \in Queue
    PROVE  /\ Empty(q) => Used(q) \div ItemSize[q] = 0
           /\ One(q) => Used(q) \div ItemSize[q] = 1
           /\ Two(q) => Used(q) \div ItemSize[q] = 2
<1> DEFINE l == ItemSize[q]
           s == Size[q]
           h == head[q]
           t == tail[q]
<1>1. /\ s \in Nat \ {0} /\ l \in Nat \ {0} /\ l <= s
      /\ h \in Nat /\ h < s /\ t \in Nat /\ t < s /\ t + l <= s
  BY SizeFacts, Advances DEF RingInv, RingTypes, Offset
<1>2. Used(q) = IF full[q] THEN s ELSE (s + h - t) % s
  BY DEF Used
<1>3. 0 \div l = 0 /\ l \div l = 1 /\ (2 * l) \div l = 2
  <2> HIDE DEF l
  <2>1. 0 \div l = 0
    BY <1>1
  <2>2. l \div l = 1
    BY <1>1
  <2>3. (2 * l) \div l = 2
    BY <1>1
  <2> QED BY <2>1, <2>2, <2>3
<1>4. ASSUME Empty(q) PROVE Used(q) \div l = 0
  <2>1. Used(q) = (s + h - t) % s /\ h = t
    BY <1>2, <1>4 DEF Empty
  <2> HIDE DEF l, s, h, t
  <2>2. s + h - t = s /\ s \in s .. 2 * s - 1
    BY <1>1, <2>1
  <2>3. s % s = s - s
    BY <1>1, <2>2, RingWraps
  <2> QED BY <1>1, <1>3, <2>1, <2>2, <2>3
<1>5. ASSUME One(q) PROVE Used(q) \div l = 1
  <2>1. h = (IF t + l = s THEN 0 ELSE t + l) /\ (full[q] <=> s = l)
    BY <1>5 DEF One, After
  <2> HIDE DEF l, s, h, t
  <2>2. CASE s = l
    BY <1>2, <1>3, <2>1, <2>2
  <2>3. CASE s # l /\ t + l = s
    <3>1. s + h - t = l /\ l \in 0 .. s - 1
      BY <1>1, <2>1, <2>3
    <3>2. l % s = l
      BY <1>1, <3>1, RingStays
    <3> QED BY <1>2, <1>3, <2>1, <2>3, <3>1, <3>2
  <2>4. CASE s # l /\ t + l # s
    <3>1. s + h - t = s + l /\ s + l \in s .. 2 * s - 1
      BY <1>1, <2>1, <2>4
    <3>2. (s + l) % s = (s + l) - s
      BY <1>1, <3>1, RingWraps
    <3> QED BY <1>1, <1>2, <1>3, <2>1, <2>4, <3>1, <3>2
  <2> QED BY <2>2, <2>3, <2>4
<1>6. ASSUME Two(q) PROVE Used(q) \div l = 2
  BY <1>2, <1>3, <1>6 DEF Two
<1> QED BY <1>4, <1>5, <1>6

LEMMA ContentsAre ==
    ASSUME RingInv, NEW q \in Queue
    PROVE  /\ Empty(q) => Contents(q) = <<>>
           /\ One(q) => Contents(q) = <<ElementAt(q, tail[q])>>
           /\ Two(q) => Contents(q) = <<ElementAt(q, tail[q]), ElementAt(q, After(q, tail[q]))>>
<1> DEFINE l == ItemSize[q]
           s == Size[q]
           t == tail[q]
           Read(n) == [i \in 0 .. l - 1 |-> buffer[q][(t + (n - 1) * l + i) % s]]
<1>1. /\ s \in Nat \ {0} /\ l \in Nat \ {0} /\ l <= s
      /\ t \in Nat /\ t < s /\ t + l <= s
      /\ Offset(q, t)
  BY SizeFacts, Advances DEF RingInv, RingTypes, Offset
<1>2. After(q, t) \in Nat /\ After(q, t) + l <= s
      /\ After(q, t) = IF t + l = s THEN 0 ELSE t + l
  BY <1>1, Advances DEF After, Offset
<1>3. Contents(q) = [n \in 1 .. Used(q) \div l |-> Read(n)]
  BY DEF Contents
<1>4. Read(1) = ElementAt(q, t)
  <2>1. ASSUME NEW i \in 0 .. l - 1 PROVE (t + (1 - 1) * l + i) % s = t + i
    <3> HIDE DEF l, s, t
    <3>1. t + (1 - 1) * l + i = t + i /\ t + i \in 0 .. s - 1
      BY <1>1
    <3> QED BY <1>1, <3>1, RingStays
  <2> QED BY <2>1 DEF ElementAt
<1>5. Read(2) = ElementAt(q, After(q, t))
  <2>1. ASSUME NEW i \in 0 .. l - 1
        PROVE  (t + (2 - 1) * l + i) % s = After(q, t) + i
    <3> HIDE DEF l, s, t
    <3>1. t + (2 - 1) * l + i = t + l + i
      BY <1>1
    <3>2. CASE t + l = s
      <4>1. s + i \in s .. 2 * s - 1 /\ After(q, t) + i = i
        BY <1>1, <1>2, <3>2
      <4>2. (s + i) % s = (s + i) - s
        BY <1>1, <4>1, RingWraps
      <4> QED BY <1>1, <3>1, <3>2, <4>1, <4>2
    <3>3. CASE t + l # s
      <4>1. t + l + i \in 0 .. s - 1 /\ After(q, t) + i = t + l + i
        BY <1>1, <1>2, <3>3
      <4> QED BY <1>1, <3>1, <4>1, RingStays
    <3> QED BY <3>2, <3>3
  <2> QED BY <2>1 DEF ElementAt
<1> HIDE DEF l, s, t, Read
<1>6. ASSUME Empty(q) PROVE Contents(q) = <<>>
  <2>1. Used(q) \div l = 0
    BY <1>6, UsedBytes DEF l
  <2> QED BY <1>3, <2>1
<1>7. ASSUME One(q) PROVE Contents(q) = <<Read(1)>>
  <2>1. Used(q) \div l = 1
    BY <1>7, UsedBytes DEF l
  <2> QED BY <1>3, <2>1
<1>8. ASSUME Two(q) PROVE Contents(q) = <<Read(1), Read(2)>>
  <2>1. Used(q) \div l = 2
    BY <1>8, UsedBytes DEF l
  <2>2. Contents(q) = [n \in 1 .. 2 |-> Read(n)]
    BY <1>3, <2>1
  <2> QED BY <2>2
<1> QED BY <1>4, <1>5, <1>6, <1>7, <1>8 DEF t

ContentsKnown ==
    \A q \in Queue :
       /\ Empty(q) => Contents(q) = <<>>
       /\ One(q) => Contents(q) = <<ElementAt(q, tail[q])>>
       /\ Two(q) => Contents(q) = <<ElementAt(q, tail[q]), ElementAt(q, After(q, tail[q]))>>

LEMMA ContentsStayKnown == (RingInv => ContentsKnown) /\ (RingInv' => ContentsKnown')
<1>1. RingInv => ContentsKnown
  BY ContentsAre DEF ContentsKnown
<1> QED BY <1>1, PTL

LEMMA Pushes ==
    ASSUME RingInv, NEW q \in Queue, NEW item \in Item, Push(q, item, ItemSize[q])
    PROVE  /\ RingInv'
           /\ Contents(q)' = Append(Contents(q), Bytes(item, ItemSize[q]))
           /\ \A r \in Queue \ {q} : Contents(r)' = Contents(r)
           /\ Empty(q) \/ (One(q) /\ Size[q] = 2 * ItemSize[q])
<1> DEFINE l == ItemSize[q]
<1>0. PICK h \in Nat, t \in Nat : h = head[q] /\ t = tail[q]
  BY DEF RingInv, RingTypes
<1>1. /\ Size[q] \in Nat \ {0} /\ l \in Nat \ {0}
      /\ Offset(q, h) /\ Offset(q, t) /\ Offset(q, After(q, h)) /\ Offset(q, After(q, t))
      /\ h \in Nat /\ h + l <= Size[q] /\ (h + l) % Size[q] = After(q, h)
      /\ t \in Nat /\ t + l <= Size[q]
      /\ After(q, t) \in Nat
      /\ After(q, t) = IF t + l = Size[q] THEN 0 ELSE t + l
  BY <1>0, SizeFacts, Advances DEF RingInv, RingTypes, Offset, After
<1>2. Empty(q) \/ (One(q) /\ Size[q] = 2 * l)
  BY Accepts DEF Push
<1>3. /\ head' = [head EXCEPT ![q] = After(q, h)]
      /\ full' = [full EXCEPT ![q] = head'[q] = t]
      /\ UNCHANGED tail
  BY <1>0, <1>1 DEF Push
<1>4. /\ head'[q] = After(q, h) /\ tail'[q] = t /\ (full'[q] <=> After(q, h) = t)
      /\ \A r \in Queue \ {q} : head'[r] = head[r] /\ tail'[r] = tail[r] /\ (full'[r] <=> full[r])
  BY <1>0, <1>3 DEF RingInv, RingTypes
<1>5. /\ DOMAIN buffer'[q] = 0 .. Size[q] - 1
      /\ \A i \in 0 .. Size[q] - 1 :
            buffer'[q][i] = IF i \in h .. h + l - 1 THEN <<item, i - h>> ELSE buffer[q][i]
      /\ \A r \in Queue \ {q} : buffer'[r] = buffer[r]
      /\ buffer' = [r \in Queue |-> buffer'[r]]
  <2>1. buffer' = [buffer EXCEPT ![q] = [i \in 0 .. Size[q] - 1 |->
              IF i \in h .. h + l - 1 THEN Bytes(item, l)[i - h] ELSE buffer[q][i]]]
    BY <1>0 DEF Push, RingInv, RingTypes
  <2>2. \A i \in h .. h + l - 1 : Bytes(item, l)[i - h] = <<item, i - h>>
    BY <1>1 DEF Bytes
  <2> QED BY <2>1, <2>2 DEF RingInv, RingTypes
<1>6. RingTypes'
  <2>1. head' \in [Queue -> Nat] /\ tail' \in [Queue -> Nat] /\ full' \in [Queue -> BOOLEAN]
    BY <1>1, <1>3 DEF RingInv, RingTypes, Offset
  <2>2. \A r \in Queue : Offset(r, head'[r]) /\ Offset(r, tail'[r])
    BY <1>0, <1>1, <1>4 DEF RingInv, RingTypes
  <2>3. \A r \in Queue :
          /\ DOMAIN buffer'[r] = 0 .. Size[r] - 1
          /\ \A i \in 0 .. Size[r] - 1 :
                buffer'[r][i] \in {Zero} \cup (Item \X (0 .. ItemSize[r] - 1))
    <3> SUFFICES ASSUME NEW r \in Queue, NEW i \in 0 .. Size[r] - 1
                 PROVE  buffer'[r][i] \in {Zero} \cup (Item \X (0 .. ItemSize[r] - 1))
      BY <1>5 DEF RingInv, RingTypes
    <3>1. CASE r = q /\ i \in h .. h + l - 1
      <4>1. buffer'[q][i] = <<item, i - h>>
        BY <1>5, <3>1
      <4>2. i - h \in 0 .. l - 1
        BY <1>1, <3>1
      <4> QED BY <3>1, <4>1, <4>2
    <3>2. CASE ~(r = q /\ i \in h .. h + l - 1)
      BY <1>5, <3>2 DEF RingInv, RingTypes
    <3> QED BY <3>1, <3>2
  <2> QED BY <1>5, <2>1, <2>2, <2>3 DEF RingTypes, Offset
<1>7. ASSUME Empty(q) PROVE One(q)'
  <2>1. h = t
    BY <1>0, <1>7 DEF Empty
  <2>2. After(q, t) = t <=> Size[q] = ItemSize[q]
    BY <1>1, AfterFills
  <2> QED BY <1>4, <2>1, <2>2 DEF One, After
<1>8. ASSUME One(q), Size[q] = 2 * l PROVE Two(q)'
  <2>1. h = After(q, t)
    BY <1>0, <1>8 DEF One
  <2>2. After(q, h) = t
    BY <1>1, <1>8, <2>1, AfterFills
  <2> QED BY <1>4, <1>8, <2>2 DEF Two
<1>9. \A r \in Queue \ {q} : Empty(r)' \/ One(r)' \/ Two(r)'
  BY <1>4 DEF RingInv, Empty, One, Two, After
<1>10. RingInv'
  BY <1>2, <1>6, <1>7, <1>8, <1>9 DEF RingInv
<1>11. ContentsKnown /\ ContentsKnown'
  BY <1>10, ContentsStayKnown
<1>12. ElementAt(q, h)' = Bytes(item, l)
  <2>1. ASSUME NEW i \in 0 .. l - 1 PROVE buffer'[q][h + i] = <<item, i>>
    <3>1. h + i \in 0 .. Size[q] - 1 /\ h + i \in h .. h + l - 1 /\ (h + i) - h = i
      BY <1>1
    <3> QED BY <1>5, <3>1
  <2> QED BY <2>1 DEF ElementAt, Bytes
<1>13. Contents(q)' = Append(Contents(q), Bytes(item, l))
  <2>1. CASE Empty(q)
    <3>1. Contents(q) = <<>> /\ Contents(q)' = <<ElementAt(q, tail[q])'>>
      BY <1>7, <1>11, <2>1 DEF ContentsKnown
    <3>2. h = t
      BY <1>0, <2>1 DEF Empty
    <3>3. ElementAt(q, tail[q])' = Bytes(item, l)
      BY <1>4, <1>12, <3>2
    <3> QED BY <3>1, <3>3
  <2>2. CASE One(q) /\ Size[q] = 2 * l
    <3>1. /\ Contents(q) = <<ElementAt(q, t)>>
          /\ Contents(q)' = <<ElementAt(q, tail[q])', ElementAt(q, After(q, tail[q]))'>>
      BY <1>0, <1>8, <1>11, <2>2 DEF ContentsKnown
    <3>2. h = After(q, t)
      BY <1>0, <2>2 DEF One
    <3>3. ElementAt(q, After(q, tail[q]))' = Bytes(item, l)
      BY <1>4, <1>12, <3>2 DEF After
    <3>4. ElementAt(q, tail[q])' = ElementAt(q, t)
      <4>1. ASSUME NEW i \in 0 .. l - 1 PROVE buffer'[q][t + i] = buffer[q][t + i]
        <5>1. t + i \in 0 .. Size[q] - 1 /\ t + i \notin h .. h + l - 1
          BY <1>1, <2>2, <3>2
        <5> QED BY <1>5, <5>1
      <4> QED BY <1>4, <4>1 DEF ElementAt
    <3> QED BY <3>1, <3>3, <3>4, AppendToOne
  <2> QED BY <1>2, <2>1, <2>2
<1>14. \A r \in Queue \ {q} : Contents(r)' = Contents(r)
  BY <1>4, <1>5 DEF Contents, Used
<1> QED BY <1>2, <1>10, <1>13, <1>14

LEMMA Pops ==
    ASSUME RingInv, NEW q \in Queue, Pop(q, ItemSize[q])
    PROVE  /\ RingInv'
           /\ Contents(q) # <<>>
           /\ Head(Contents(q)) = ElementAt(q, tail[q])
           /\ Contents(q)' = Tail(Contents(q))
           /\ \A r \in Queue \ {q} : Contents(r)' = Contents(r)
<1> DEFINE l == ItemSize[q]
<1>0. PICK h \in Nat, t \in Nat : h = head[q] /\ t = tail[q]
  BY DEF RingInv, RingTypes
<1>1. /\ Size[q] \in Nat \ {0} /\ l \in Nat \ {0}
      /\ Offset(q, h) /\ Offset(q, t) /\ Offset(q, After(q, t))
      /\ (t + l) % Size[q] = After(q, t)
      /\ After(q, t) \in Nat
  BY <1>0, SizeFacts, Advances DEF RingInv, RingTypes, Offset
<1>2. One(q) \/ Two(q)
  BY Accepts DEF Pop
<1>3. /\ tail' = [tail EXCEPT ![q] = After(q, t)]
      /\ full' = [full EXCEPT ![q] = FALSE]
      /\ UNCHANGED <<head, buffer>>
  BY <1>0, <1>1 DEF Pop
<1>4. /\ head'[q] = h /\ tail'[q] = After(q, t) /\ ~full'[q]
      /\ \A r \in Queue \ {q} : head'[r] = head[r] /\ tail'[r] = tail[r] /\ (full'[r] <=> full[r])
  BY <1>0, <1>3 DEF RingInv, RingTypes
<1>5. RingTypes'
  <2>1. head' \in [Queue -> Nat] /\ tail' \in [Queue -> Nat] /\ full' \in [Queue -> BOOLEAN]
    BY <1>1, <1>3 DEF RingInv, RingTypes
  <2>2. \A r \in Queue : Offset(r, head'[r]) /\ Offset(r, tail'[r])
    BY <1>0, <1>1, <1>4 DEF RingInv, RingTypes
  <2> QED BY <1>3, <2>1, <2>2 DEF RingInv, RingTypes, Offset
<1>6. ASSUME One(q) PROVE Empty(q)'
  BY <1>0, <1>4, <1>6 DEF One, Empty
<1>7. ASSUME Two(q) PROVE One(q)'
  <2>1. h = t /\ Size[q] = 2 * l /\ Size[q] # l
    BY <1>0, <1>1, <1>7 DEF Two
  <2>2. After(q, After(q, t)) = t
    BY <1>1, <2>1, AfterFills
  <2> QED BY <1>4, <2>1, <2>2 DEF One, After
<1>8. \A r \in Queue \ {q} : Empty(r)' \/ One(r)' \/ Two(r)'
  BY <1>4 DEF RingInv, Empty, One, Two, After
<1>9. RingInv'
  BY <1>2, <1>5, <1>6, <1>7, <1>8 DEF RingInv
<1>10. ContentsKnown /\ ContentsKnown'
  BY <1>9, ContentsStayKnown
<1>11. /\ Contents(q) # <<>>
       /\ Head(Contents(q)) = ElementAt(q, tail[q])
       /\ Contents(q)' = Tail(Contents(q))
  <2>1. CASE One(q)
    <3>1. Contents(q) = <<ElementAt(q, tail[q])>> /\ Contents(q)' = <<>>
      BY <1>6, <1>10, <2>1 DEF ContentsKnown
    <3> QED BY <3>1
  <2>2. CASE Two(q)
    <3>1. /\ Contents(q) = <<ElementAt(q, tail[q]), ElementAt(q, After(q, tail[q]))>>
          /\ Contents(q)' = <<ElementAt(q, tail[q])'>>
      BY <1>7, <1>10, <2>2 DEF ContentsKnown
    <3>2. ElementAt(q, tail[q])' = ElementAt(q, After(q, tail[q]))
      BY <1>0, <1>3, <1>4 DEF ElementAt
    <3> QED BY <3>1, <3>2
  <2> QED BY <1>2, <2>1, <2>2
<1>12. \A r \in Queue \ {q} : Contents(r)' = Contents(r)
  BY <1>3, <1>4 DEF Contents, Used
<1> QED BY <1>9, <1>11, <1>12

LEMMA Resets ==
    ASSUME RingInv, NEW q \in Queue, os_queue_reset(q)
    PROVE  /\ RingInv'
           /\ Contents(q)' = <<>>
           /\ \A r \in Queue \ {q} : Contents(r)' = Contents(r)
<1>1. /\ head'[q] = 0 /\ tail'[q] = 0 /\ ~full'[q]
      /\ \A r \in Queue \ {q} : head'[r] = head[r] /\ tail'[r] = tail[r] /\ (full'[r] <=> full[r])
      /\ UNCHANGED buffer
  BY DEF os_queue_reset, RingInv, RingTypes
<1>2. Offset(q, 0)
  BY SizeFacts DEF Offset
<1>3. RingTypes'
  <2>1. head' \in [Queue -> Nat] /\ tail' \in [Queue -> Nat] /\ full' \in [Queue -> BOOLEAN]
    BY DEF os_queue_reset, RingInv, RingTypes
  <2>2. \A r \in Queue : Offset(r, head'[r]) /\ Offset(r, tail'[r])
    BY <1>1, <1>2 DEF RingInv, RingTypes
  <2> QED BY <1>1, <2>1, <2>2 DEF RingInv, RingTypes, Offset
<1>4. RingInv' /\ Empty(q)'
  BY <1>1, <1>3 DEF RingInv, Empty, One, Two, After
<1>5. Contents(q)' = <<>>
  BY <1>4, ContentsStayKnown DEF ContentsKnown
<1>6. \A r \in Queue \ {q} : Contents(r)' = Contents(r)
  BY <1>1 DEF Contents, Used
<1> QED BY <1>4, <1>5, <1>6

LEMMA RingKept ==
    ASSUME RingInv, UNCHANGED ring_vars
    PROVE  RingInv' /\ \A q \in Queue : Contents(q)' = Contents(q)
BY DEF ring_vars, RingInv, RingTypes, Empty, One, Two, After, Offset, Contents, Used

LEMMA RingStarts ==
    ASSUME RingInit
    PROVE  RingInv /\ \A q \in Queue : Contents(q) = <<>>
<1>1. ASSUME NEW q \in Queue PROVE Offset(q, 0)
  BY SizeFacts DEF Offset
<1>2. RingInv
  <2>1. RingTypes
    BY <1>1 DEF RingInit, RingTypes
  <2> QED BY <2>1 DEF RingInit, RingInv, Empty
<1>3. \A q \in Queue : Empty(q)
  BY DEF RingInit, Empty
<1> QED BY <1>2, <1>3, ContentsStayKnown DEF ContentsKnown

\* How many elements a ring holds, and when it is full or empty for callers.
LEMMA Lengths ==
    ASSUME RingInv, NEW q \in Queue
    PROVE  /\ Contents(q) = <<>> <=> Empty(q)
           /\ Empty(q) <=> ~full[q] /\ head[q] = tail[q]
           /\ full[q] => Len(Contents(q)) = Accepted(q)
           /\ Len(Contents(q)) = Accepted(q) <=> ~os_queue_can_push(q, ItemSize[q])
           /\ Len(Contents(q)) = 0 <=> ~os_queue_can_pop(q, ItemSize[q])
<1>1. /\ Size[q] \in Nat \ {0} /\ ItemSize[q] \in Nat \ {0}
      /\ Accepted(q) = IF Size[q] = 2 * ItemSize[q] THEN 2 ELSE 1
  BY SizeFacts DEF Accepted
<1>2. ContentsKnown
  BY ContentsStayKnown
<1>3. After(q, tail[q]) = tail[q] <=> Size[q] = ItemSize[q]
  BY AfterFills DEF RingInv, RingTypes
<1>4. /\ os_queue_can_push(q, ItemSize[q]) <=> Empty(q) \/ (One(q) /\ Size[q] = 2 * ItemSize[q])
      /\ os_queue_can_pop(q, ItemSize[q]) <=> One(q) \/ Two(q)
  BY Accepts
<1>5. CASE Empty(q)
  <2>1. Contents(q) = <<>> /\ Len(Contents(q)) = 0 /\ ~full[q]
    BY <1>2, <1>5 DEF ContentsKnown, Empty
  <2>2. ~One(q) /\ ~Two(q)
    BY <1>3, <1>5 DEF Empty, One, Two
  <2>3. Accepted(q) # 0
    BY <1>1
  <2> QED BY <1>4, <1>5, <2>1, <2>2, <2>3 DEF Empty
<1>6. CASE One(q)
  <2>1. Len(Contents(q)) = 1 /\ Contents(q) # <<>>
    BY <1>2, <1>6 DEF ContentsKnown
  <2>2. ~Empty(q)
    BY <1>3, <1>6 DEF Empty, One
  <2>3. Accepted(q) = 1 <=> Size[q] # 2 * ItemSize[q]
    BY <1>1
  <2>4. full[q] => Size[q] # 2 * ItemSize[q]
    BY <1>1, <1>6 DEF One
  <2> QED BY <1>4, <1>6, <2>1, <2>2, <2>3, <2>4 DEF Empty
<1>7. CASE Two(q)
  <2>1. Len(Contents(q)) = 2 /\ Contents(q) # <<>>
    BY <1>2, <1>7 DEF ContentsKnown
  <2>2. full[q] /\ Accepted(q) = 2 /\ Size[q] # ItemSize[q] /\ head[q] = tail[q]
    BY <1>1, <1>7 DEF Two
  <2>3. ~One(q) /\ ~Empty(q)
    BY <1>3, <2>2 DEF Empty, One
  <2> QED BY <1>4, <1>7, <2>1, <2>2, <2>3 DEF Empty
<1> QED BY <1>5, <1>6, <1>7 DEF RingInv

\* A ring holds at most Accepted elements; a push adds one, a pop takes one.
LEMMA LengthInRange ==
    ASSUME RingInv, NEW q \in Queue
    PROVE  /\ Len(Contents(q)) \in 0 .. Accepted(q)
           /\ Len(Contents(q)) = 0 <=> Contents(q) = <<>>
<1>1. ContentsKnown
  BY ContentsStayKnown
<1>2. CASE Empty(q)
  <2>1. Contents(q) = <<>>
    BY <1>1, <1>2 DEF ContentsKnown
  <2> QED BY <2>1 DEF Accepted
<1>3. CASE One(q)
  <2>1. Len(Contents(q)) = 1 /\ Contents(q) # <<>>
    BY <1>1, <1>3 DEF ContentsKnown
  <2> QED BY <2>1 DEF Accepted
<1>4. CASE Two(q)
  <2>1. Len(Contents(q)) = 2 /\ Contents(q) # <<>>
    BY <1>1, <1>4 DEF ContentsKnown
  <2> QED BY <1>4, <2>1 DEF Accepted, Two
<1> QED BY <1>2, <1>3, <1>4 DEF RingInv

LEMMA PushAddsOne ==
    ASSUME RingInv, NEW q \in Queue, NEW item \in Item, Push(q, item, ItemSize[q])
    PROVE  \/ /\ Contents(q) = <<>> /\ Contents(q)' = <<Bytes(item, ItemSize[q])>>
              /\ Size[q] >= ItemSize[q]
           \/ /\ \E e : Contents(q) = <<e>> /\ Contents(q)' = <<e, Bytes(item, ItemSize[q])>>
              /\ Size[q] = 2 * ItemSize[q]
<1>1. /\ Contents(q)' = Append(Contents(q), Bytes(item, ItemSize[q]))
      /\ Empty(q) \/ (One(q) /\ Size[q] = 2 * ItemSize[q])
      /\ ContentsKnown
  BY Pushes, ContentsStayKnown
<1>2. CASE Empty(q)
  <2>1. Contents(q) = <<>>
    BY <1>1, <1>2 DEF ContentsKnown
  <2> QED BY <1>1, <2>1, SizeFacts
<1>3. CASE One(q) /\ Size[q] = 2 * ItemSize[q]
  <2>1. Contents(q) = <<ElementAt(q, tail[q])>>
    BY <1>1, <1>3 DEF ContentsKnown
  <2>2. Contents(q)' = <<ElementAt(q, tail[q]), Bytes(item, ItemSize[q])>>
    BY <1>1, <2>1, AppendToOne
  <2> QED BY <1>3, <2>1, <2>2
<1> QED BY <1>1, <1>2, <1>3

LEMMA PopTakesOne ==
    ASSUME RingInv, NEW q \in Queue, Pop(q, ItemSize[q])
    PROVE  \/ \E e : Contents(q) = <<e>> /\ Contents(q)' = <<>>
           \/ \E e, f : Contents(q) = <<e, f>> /\ Contents(q)' = <<f>>
<1>1. /\ Contents(q)' = Tail(Contents(q))
      /\ One(q) \/ Two(q)
      /\ ContentsKnown
  BY Pops, Accepts, ContentsStayKnown DEF Pop
<1>2. CASE One(q)
  <2>1. Contents(q) = <<ElementAt(q, tail[q])>>
    BY <1>1, <1>2 DEF ContentsKnown
  <2>2. Contents(q)' = <<>>
    BY <1>1, <2>1
  <2> QED BY <2>1, <2>2
<1>3. CASE Two(q)
  <2>1. Contents(q) = <<ElementAt(q, tail[q]), ElementAt(q, After(q, tail[q]))>>
    BY <1>1, <1>3 DEF ContentsKnown
  <2>2. Contents(q)' = <<ElementAt(q, After(q, tail[q]))>>
    BY <1>1, <2>1
  <2> QED BY <2>1, <2>2
<1> QED BY <1>1, <1>2, <1>3

-----------------------------------------------------------------------------
(***************************************************************************)
(* Every step keeps RingInv and is a step of the abstract FIFOs.           *)
(***************************************************************************)
\* One queue changes, the others do not.
LEMMA Elsewhere ==
    ASSUME NEW q \in Queue, NEW c, Contents(q)' = c,
           \A r \in Queue \ {q} : Contents(r)' = Contents(r)
    PROVE  [r \in Queue |-> Contents(r)']
              = [[r \in Queue |-> Contents(r)] EXCEPT ![q] = c]
OBVIOUS

LEMMA PushStep ==
    ASSUME RingInv, NEW q \in Queue, NEW item \in Item, os_queue_push(q, item)
    PROVE  RingInv' /\ Fifo!FifoNext
<1> DEFINE e == Bytes(item, ItemSize[q])
<1>1. CASE Push(q, item, ItemSize[q]) /\ answer' = <<"push", q, TRUE>>
  <2>1. /\ RingInv'
        /\ Contents(q)' = Append(Contents(q), e)
        /\ \A r \in Queue \ {q} : Contents(r)' = Contents(r)
    BY <1>1, Pushes
  <2>2. ~(Len(Contents(q)) = Accepted(q))
    BY <1>1, Lengths DEF Push
  <2>3. e \in {Bytes(i, ItemSize[r]) : i \in Item, r \in Queue}
    OBVIOUS
  <2> HIDE DEF e
  <2>4. Fifo!Push(q, e)
    BY <1>1, <2>1, <2>2, Elsewhere DEF Fifo!Push, Fifo!IsFull
  <2> QED BY <2>1, <2>3, <2>4 DEF Fifo!FifoNext
<1>2. CASE /\ ~os_queue_can_push(q, ItemSize[q])
           /\ answer' = <<"push", q, FALSE>>
           /\ UNCHANGED ring_vars
  <2>1. RingInv' /\ \A r \in Queue : Contents(r)' = Contents(r)
    BY <1>2, RingKept
  <2>2. Len(Contents(q)) = Accepted(q)
    BY <1>2, Lengths
  <2>3. Fifo!RefusePush(q)
    BY <1>2, <2>1, <2>2 DEF Fifo!RefusePush, Fifo!IsFull
  <2> QED BY <2>1, <2>3 DEF Fifo!FifoNext
<1> QED BY <1>1, <1>2 DEF os_queue_push

LEMMA PopStep ==
    ASSUME RingInv, NEW q \in Queue, os_queue_pop(q)
    PROVE  RingInv' /\ Fifo!FifoNext
<1>1. CASE /\ Pop(q, ItemSize[q])
           /\ answer' = <<"pop", q, TRUE,
                          [i \in 0 .. ItemSize[q] - 1 |-> buffer[q][tail[q] + i]]>>
  <2>1. /\ RingInv' /\ Contents(q) # <<>>
        /\ Head(Contents(q)) = ElementAt(q, tail[q])
        /\ Contents(q)' = Tail(Contents(q))
        /\ \A r \in Queue \ {q} : Contents(r)' = Contents(r)
    BY <1>1, Pops
  <2>2. answer' = <<"pop", q, TRUE, Head(Contents(q))>>
    BY <1>1, <2>1 DEF ElementAt
  <2>3. Fifo!Pop(q)
    BY <2>1, <2>2, Elsewhere DEF Fifo!Pop, Fifo!IsEmpty
  <2> QED BY <2>1, <2>3 DEF Fifo!FifoNext
<1>2. CASE /\ ~os_queue_can_pop(q, ItemSize[q])
           /\ answer' = <<"pop", q, FALSE>>
           /\ UNCHANGED ring_vars
  <2>1. RingInv' /\ \A r \in Queue : Contents(r)' = Contents(r)
    BY <1>2, RingKept
  <2>2. Contents(q) = <<>>
    <3>1. Empty(q)
      BY <1>2, Accepts DEF RingInv
    <3> QED BY <3>1, Lengths
  <2>3. Fifo!RefusePop(q)
    BY <1>2, <2>1, <2>2 DEF Fifo!RefusePop, Fifo!IsEmpty
  <2> QED BY <2>1, <2>3 DEF Fifo!FifoNext
<1> QED BY <1>1, <1>2 DEF os_queue_pop

LEMMA ResetStep ==
    ASSUME RingInv, NEW q \in Queue, os_queue_reset(q)
    PROVE  RingInv' /\ Fifo!FifoNext
<1>1. /\ RingInv' /\ Contents(q)' = <<>>
      /\ \A r \in Queue \ {q} : Contents(r)' = Contents(r)
  BY Resets
<1>2. Fifo!Reset(q)
  BY <1>1, Elsewhere DEF Fifo!Reset, os_queue_reset
<1> QED BY <1>1, <1>2 DEF Fifo!FifoNext

LEMMA AskStep ==
    ASSUME RingInv, NEW q \in Queue, os_queue_is_empty(q) \/ os_queue_is_full(q)
    PROVE  RingInv' /\ Fifo!FifoNext
<1>1. RingInv' /\ \A r \in Queue : Contents(r)' = Contents(r)
  BY RingKept DEF os_queue_is_empty, os_queue_is_full
<1>2. CASE os_queue_is_empty(q)
  <2>1. (~full[q] /\ head[q] = tail[q]) <=> (Contents(q) = <<>>)
    BY Lengths
  <2>2. (~full[q] /\ head[q] = tail[q]) = (Contents(q) = <<>>)
    BY <2>1, Zenon
  <2>3. Fifo!AskEmpty(q)
    BY <1>1, <1>2, <2>2 DEF os_queue_is_empty, Fifo!AskEmpty, Fifo!IsEmpty
  <2> QED BY <1>1, <2>3 DEF Fifo!FifoNext
<1>3. CASE os_queue_is_full(q)
  <2>1. full[q] \in BOOLEAN /\ (full[q] => Len(Contents(q)) = Accepted(q))
    BY Lengths DEF RingInv, RingTypes
  <2>2. full[q] \in {FALSE, Len(Contents(q)) = Accepted(q)}
    BY <2>1, Zenon
  <2>3. Fifo!AskFull(q)
    BY <1>1, <1>3, <2>2 DEF os_queue_is_full, Fifo!AskFull, Fifo!IsFull
  <2> QED BY <1>1, <2>3 DEF Fifo!FifoNext
<1> QED BY <1>2, <1>3

LEMMA QueueStep ==
    ASSUME RingInv, [QueueNext]_queue_vars
    PROVE  RingInv' /\ [Fifo!FifoNext]_(Fifo!fifo_vars)
<1>1. CASE QueueNext
  BY <1>1, PushStep, PopStep, ResetStep, AskStep DEF QueueNext
<1>2. CASE UNCHANGED queue_vars
  <2>1. RingInv' /\ \A q \in Queue : Contents(q)' = Contents(q)
    BY <1>2, RingKept DEF queue_vars
  <2> QED BY <1>2, <2>1 DEF queue_vars, Fifo!fifo_vars
<1> QED BY <1>1, <1>2

LEMMA QueueInvariant == QueueSpec => []RingInv
<1>1. QueueInit => RingInv
  BY RingStarts DEF QueueInit
<1>2. RingInv /\ [QueueNext]_queue_vars => RingInv'
  BY QueueStep
<1> QED BY <1>1, <1>2, PTL DEF QueueSpec

-----------------------------------------------------------------------------
\* head and tail stay inside the buffer, and what it holds is what pushes put
\* there or nothing, whatever is called in which order (queue.c:177-247).
THEOREM QueueTypeCorrect == QueueSpec => []QueueTypeOK
<1>1. RingInv => QueueTypeOK
  BY DEF RingInv, RingTypes, Offset, QueueTypeOK
<1> QED BY <1>1, QueueInvariant, PTL

\* No memcpy of os_queue_push or os_queue_pop leaves the buffer, although none
\* is split at its end: every element starts at a multiple of its length, of
\* which the size is one (queue.c:195, :236).
THEOREM CopiesStayInsideAlways == QueueSpec => []CopiesStayInside
<1>1. RingInv => CopiesStayInside
  BY Advances DEF RingInv, RingTypes, CopiesStayInside
<1> QED BY <1>1, QueueInvariant, PTL

\* The rings are bounded FIFOs, for every number of queues and every size: an
\* element leaves whole, after those that came before it, and is_empty, is_full
\* and the answers of push and pop are true (queue.c:56-64, :177-247).
THEOREM ImplementsFifo == QueueSpec => IsFifo
<1>1. QueueInit => Fifo!FifoInit
  BY RingStarts DEF QueueInit, Fifo!FifoInit
<1>2. RingInv /\ [QueueNext]_queue_vars => [Fifo!FifoNext]_(Fifo!fifo_vars)
  BY QueueStep
<1> QED BY <1>1, <1>2, QueueInvariant, PTL DEF QueueSpec, IsFifo, Fifo!FifoSpec
=============================================================================
