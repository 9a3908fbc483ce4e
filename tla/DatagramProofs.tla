-------------------------- MODULE DatagramProofs --------------------------
(***************************************************************************)
(* What Datagrams promises of the programs over UDP, for every set of      *)
(* ports, every number of requests, losses and copies; and MarketFeed of   *)
(* the exchanges and their subscribers.                                    *)
(***************************************************************************)
EXTENDS Datagrams, MarketFeed, FiniteSetTheorems, FunctionTheorems, SequenceTheorems, TLAPS

Answers == [to : Ports, from : Ports, text : Texts, time : 0 .. MaxClock]

-----------------------------------------------------------------------------
(* The inductive invariant.                                                *)

AllBags ==
  /\ IsABag(requests) /\ IsABag(answers) /\ IsABag(sent) /\ IsABag(copies) /\ IsABag(lost)
  /\ IsABag(shown) /\ IsFiniteSet(Each(sent)) /\ IsFiniteSet(Each(answers))

\* The types; and the bounds they rest on, by what each port has sent.
Types ==
  /\ TypeOK /\ AllBags /\ last \in [Ports -> Answers]
  /\ spc = "send" => buffer \in Items /\ client_addr = buffer.from
  /\ \A c \in Ports :
       /\ text[c] <= MaxSends[c] /\ text[c] <= Sends(c) /\ asked[c] <= now
       /\ cpc[c] = "stdin" => Sends(c) < MaxSends[c]
  /\ prog # "time" => now = 0

\* What poll() has seen in a socket stays there until it is read.
Polling ==
  \A c \in Ports :
    /\ cpc[c] \in IF prog = "ch8" THEN {"out", "poll", "stdin", "sock"} ELSE {"out", "wait"}
    /\ prog # "ch8" => revents[c] = {}
    /\ cpc[c] = "stdin" => "stdin" \in revents[c]
    /\ cpc[c] = "sock" => "sock" \in revents[c]
    /\ "sock" \in revents[c] => Readable(c)

\* A port whose client asks once, and is neither killed nor copied for, has one
\* datagram under way while it waits, the last request or its answer, and none
\* otherwise.
Single(c) == prog # "ch8" /\ c \notin killed /\ \A k \in Texts : Item(c, k) \notin DOMAIN copies
Held1(c)  == spc = "send" /\ buffer.from = c
Fits(c, m) == m.text = text[c] /\ m.time >= asked[c]
Alone(c) ==
  /\ cpc[c] = "out" =>
       /\ Fits(c, last[c]) /\ ~Held1(c)
       /\ \A m \in DOMAIN requests : m.from # c
       /\ \A m \in DOMAIN answers : m.from # c
  /\ \A m \in DOMAIN requests :
       m.from = c => m.text = text[c] /\ requests[m] = 1 /\ ~Held1(c)
                     /\ \A a \in DOMAIN answers : a.from # c
  /\ Held1(c) => buffer.text = text[c] /\ \A a \in DOMAIN answers : a.from # c
  /\ \A m \in DOMAIN answers :
       m.from = c => Fits(c, m) /\ answers[m] = 1
                     /\ \A a \in DOMAIN answers : a.from = c => a = m
Own ==
  /\ \A m \in DOMAIN answers : m.to = m.from
  /\ \A c \in Ports : last[c].from = c /\ (Single(c) => Alone(c))

IInv == Types /\ Polling /\ Conserved /\ Own
-----------------------------------------------------------------------------
(* Bags.                                                                   *)

More(B, m, C) ==
  /\ DOMAIN C = DOMAIN B \cup {m} /\ C[m] = Count(m, B) + 1
  /\ \A x \in DOMAIN B : x # m => C[x] = B[x]
Less(B, m, C) ==
  /\ DOMAIN C = IF B[m] = 1 THEN DOMAIN B \ {m} ELSE DOMAIN B
  /\ B[m] # 1 => C[m] = B[m] - 1
  /\ \A x \in DOMAIN B : x # m => C[x] = B[x]

\* A bag with one more.
LEMMA Adding ==
  ASSUME NEW B, IsABag(B), NEW m, NEW C, C = BagAdd(B, m)
  PROVE  IsABag(C) /\ More(B, m, C)
<1>1. \A x \in DOMAIN B : B[x] \in Nat /\ B[x] > 0
  BY DEF IsABag
<1>2. CASE m \in DOMAIN B
  <2>1. C = [e \in DOMAIN B |-> IF e = m THEN B[e] + 1 ELSE B[e]]
    BY <1>2 DEF BagAdd
  <2>2. DOMAIN C = DOMAIN B /\ C[m] = B[m] + 1 /\ \A x \in DOMAIN B : x # m => C[x] = B[x]
    BY <1>2, <2>1
  <2>3. \A x \in DOMAIN C : C[x] \in {n \in Nat : n > 0}
    BY <1>1, <2>2
  <2>4. C = [x \in DOMAIN C |-> C[x]]
    BY <2>1
  <2>. QED  BY <1>2, <2>2, <2>3, <2>4 DEF IsABag, Count, More
<1>3. CASE m \notin DOMAIN B
  <2>1. C = [e \in DOMAIN B \cup {m} |-> IF e = m THEN 1 ELSE B[e]]
    BY <1>3 DEF BagAdd
  <2>2. DOMAIN C = DOMAIN B \cup {m} /\ C[m] = 1 /\ \A x \in DOMAIN B : x # m => C[x] = B[x]
    BY <2>1
  <2>3. \A x \in DOMAIN C : C[x] \in {n \in Nat : n > 0}
    BY <1>1, <2>2
  <2>4. C = [x \in DOMAIN C |-> C[x]]
    BY <2>1
  <2>. QED  BY <1>3, <2>2, <2>3, <2>4 DEF IsABag, Count, More
<1>. QED  BY <1>2, <1>3

\* And with one less.
LEMMA Removing ==
  ASSUME NEW B, IsABag(B), NEW m \in DOMAIN B, NEW C, C = BagRemove(B, m)
  PROVE  IsABag(C) /\ Less(B, m, C)
<1>1. \A x \in DOMAIN B : B[x] \in Nat /\ B[x] > 0
  BY DEF IsABag
<1>2. CASE B[m] = 1
  <2>1. C = [e \in DOMAIN B \ {m} |-> B[e]]
    BY <1>2 DEF BagRemove
  <2>2. DOMAIN C = DOMAIN B \ {m} /\ \A x \in DOMAIN B : x # m => C[x] = B[x]
    BY <2>1
  <2>3. \A x \in DOMAIN C : C[x] \in {n \in Nat : n > 0}
    BY <1>1, <2>2
  <2>4. C = [x \in DOMAIN C |-> C[x]]
    BY <2>1
  <2>. QED  BY <1>2, <2>2, <2>3, <2>4 DEF IsABag, Less
<1>3. CASE B[m] # 1
  <2>1. C = [e \in DOMAIN B |-> IF e = m THEN B[e] - 1 ELSE B[e]]
    BY <1>3 DEF BagRemove
  <2>2. DOMAIN C = DOMAIN B /\ C[m] = B[m] - 1 /\ \A x \in DOMAIN B : x # m => C[x] = B[x]
    BY <2>1
  <2>3. \A x \in DOMAIN C : C[x] \in {n \in Nat : n > 0}
    BY <1>1, <1>3, <2>2
  <2>4. C = [x \in DOMAIN C |-> C[x]]
    BY <2>1
  <2>. QED  BY <1>3, <2>2, <2>3, <2>4 DEF IsABag, Less
<1>. QED  BY <1>2, <1>3

\* What that does to the numbers.
LEMMA Counting ==
  ASSUME NEW B, IsABag(B), NEW m, NEW C, NEW e
  PROVE  /\ Count(e, B) \in Nat
         /\ C = BagAdd(B, m) => Count(e, C) = Count(e, B) + (IF e = m THEN 1 ELSE 0)
         /\ C = BagRemove(B, m) /\ m \in DOMAIN B =>
              Count(e, B) = Count(e, C) + (IF e = m THEN 1 ELSE 0)
<1>1. \A x \in DOMAIN B : B[x] \in Nat /\ B[x] > 0
  BY DEF IsABag
<1>2. Count(e, B) \in Nat /\ Count(m, B) \in Nat
  BY <1>1 DEF Count
<1>3. ASSUME C = BagAdd(B, m) PROVE Count(e, C) = Count(e, B) + (IF e = m THEN 1 ELSE 0)
  <2>1. /\ DOMAIN C = DOMAIN B \cup {m} /\ C[m] = Count(m, B) + 1
        /\ \A x \in DOMAIN B : x # m => C[x] = B[x]
    <3>1. More(B, m, C)
      BY <1>3, Adding
    <3>. QED  BY <3>1 DEF More
  <2>2. CASE e = m
    BY <2>1, <2>2 DEF Count
  <2>3. CASE e # m
    <3>1. Count(e, C) = Count(e, B)
      BY <2>1, <2>3 DEF Count
    <3>. QED  BY <1>2, <2>3, <3>1
  <2>. QED  BY <2>2, <2>3
<1>4. ASSUME C = BagRemove(B, m), m \in DOMAIN B
      PROVE  Count(e, B) = Count(e, C) + (IF e = m THEN 1 ELSE 0)
  <2>1. /\ DOMAIN C = IF B[m] = 1 THEN DOMAIN B \ {m} ELSE DOMAIN B
        /\ B[m] # 1 => C[m] = B[m] - 1
        /\ \A x \in DOMAIN B : x # m => C[x] = B[x]
    <3>1. Less(B, m, C)
      BY <1>4, Removing
    <3>. QED  BY <3>1 DEF Less
  <2>2. CASE e = m
    <3>1. Count(e, B) = B[m] /\ B[m] \in Nat
      BY <1>1, <1>4, <2>2 DEF Count
    <3>2. CASE B[m] = 1
      <4>1. Count(e, C) = 0
        BY <2>1, <2>2, <3>2 DEF Count
      <4>. QED  BY <2>2, <3>1, <3>2, <4>1
    <3>3. CASE B[m] # 1
      <4>1. Count(e, C) = B[m] - 1
        BY <1>4, <2>1, <2>2, <3>3 DEF Count
      <4>. QED  BY <2>2, <3>1, <4>1
    <3>. QED  BY <3>2, <3>3
  <2>3. CASE e # m
    <3>1. Count(e, C) = Count(e, B)
      BY <2>1, <2>3 DEF Count
    <3>. QED  BY <1>2, <2>3, <3>1
  <2>. QED  BY <2>2, <2>3
<1>. QED  BY <1>2, <1>3, <1>4

\* And to its datagrams, one by one.
LEMMA EachIs ==
  ASSUME NEW B, IsABag(B), NEW m
  PROVE  /\ \A d : d \in Each(B) <=>
              \E x \in DOMAIN B : \E i \in 1 .. B[x] : d = <<x, i>>
         /\ Each(BagAdd(B, m)) = Each(B) \cup {<<m, Count(m, B) + 1>>}
         /\ <<m, Count(m, B) + 1>> \notin Each(B)
         /\ m \in DOMAIN B => /\ Each(BagRemove(B, m)) = Each(B) \ {<<m, B[m]>>}
                              /\ <<m, B[m]>> \in Each(B)
<1>1. \A C : \A d : d \in Each(C) <=> \E x \in DOMAIN C : \E i \in 1 .. C[x] : d = <<x, i>>
  BY DEF Each
<1>2. \A x \in DOMAIN B : B[x] \in Nat /\ B[x] > 0
  BY DEF IsABag
<1>3. \A C : \A x, i : <<x, i>> \in Each(C) <=> x \in DOMAIN C /\ i \in 1 .. C[x]
  BY <1>1
<1>4. Each(BagAdd(B, m)) = Each(B) \cup {<<m, Count(m, B) + 1>>}
  <2>1. PICK C : C = BagAdd(B, m)
    OBVIOUS
  <2>2. /\ DOMAIN C = DOMAIN B \cup {m} /\ C[m] = Count(m, B) + 1
        /\ \A x \in DOMAIN B : x # m => C[x] = B[x]
    <3>1. More(B, m, C)
      BY <2>1, Adding
    <3>. QED  BY <3>1 DEF More
  <2>3. m \in DOMAIN B => Count(m, B) = B[m] /\ B[m] \in Nat
    BY <1>2 DEF Count
  <2>4. m \notin DOMAIN B => Count(m, B) = 0
    BY DEF Count
  <2>5. ASSUME NEW x, NEW i
        PROVE  <<x, i>> \in Each(C) <=> <<x, i>> \in Each(B) \/ (x = m /\ i = Count(m, B) + 1)
    <3>1. <<x, i>> \in Each(C) <=> x \in DOMAIN C /\ i \in 1 .. C[x]
      BY <1>3
    <3>2. <<x, i>> \in Each(B) <=> x \in DOMAIN B /\ i \in 1 .. B[x]
      BY <1>3
    <3>3. CASE x # m
      BY <2>2, <3>1, <3>2, <3>3
    <3>4. CASE x = m /\ m \in DOMAIN B
      <4>1. i \in 1 .. B[m] + 1 <=> i \in 1 .. B[m] \/ i = B[m] + 1
        BY <2>3, <3>4
      <4>. QED  BY <2>2, <2>3, <3>1, <3>2, <3>4, <4>1
    <3>5. CASE x = m /\ m \notin DOMAIN B
      <4>1. i \in 1 .. 1 <=> i = 1
        OBVIOUS
      <4>. QED  BY <2>2, <2>4, <3>1, <3>2, <3>5, <4>1
    <3>. QED  BY <3>3, <3>4, <3>5
  <2>6. \A d \in Each(C) : \E x, i : d = <<x, i>>
    BY <1>1
  <2>7. \A d \in Each(B) : \E x, i : d = <<x, i>>
    BY <1>1
  <2>8. Each(C) \subseteq Each(B) \cup {<<m, Count(m, B) + 1>>}
    BY <2>5, <2>6
  <2>9. Each(B) \cup {<<m, Count(m, B) + 1>>} \subseteq Each(C)
    BY <2>5, <2>7
  <2>. QED  BY <2>1, <2>8, <2>9
<1>5. <<m, Count(m, B) + 1>> \notin Each(B)
  <2>1. m \in DOMAIN B => Count(m, B) + 1 \notin 1 .. B[m]
    BY <1>2 DEF Count
  <2>. QED  BY <1>3, <2>1
<1>6. ASSUME m \in DOMAIN B
      PROVE  Each(BagRemove(B, m)) = Each(B) \ {<<m, B[m]>>} /\ <<m, B[m]>> \in Each(B)
  <2>1. PICK C : C = BagRemove(B, m)
    OBVIOUS
  <2>2. /\ DOMAIN C = IF B[m] = 1 THEN DOMAIN B \ {m} ELSE DOMAIN B
        /\ B[m] # 1 => C[m] = B[m] - 1
        /\ \A x \in DOMAIN B : x # m => C[x] = B[x]
    <3>1. Less(B, m, C)
      BY <1>6, <2>1, Removing
    <3>. QED  BY <3>1 DEF Less
  <2>3. B[m] \in Nat /\ B[m] > 0 /\ B[m] \in 1 .. B[m]
    BY <1>2, <1>6
  <2>4. ASSUME NEW x, NEW i
        PROVE  <<x, i>> \in Each(C) <=> <<x, i>> \in Each(B) /\ ~(x = m /\ i = B[m])
    <3>1. <<x, i>> \in Each(C) <=> x \in DOMAIN C /\ i \in 1 .. C[x]
      BY <1>3
    <3>2. <<x, i>> \in Each(B) <=> x \in DOMAIN B /\ i \in 1 .. B[x]
      BY <1>3
    <3>3. CASE x # m
      <4>1. x \in DOMAIN C <=> x \in DOMAIN B
        BY <2>2, <3>3
      <4>. QED  BY <2>2, <3>1, <3>2, <3>3, <4>1
    <3>4. CASE x = m /\ B[m] = 1
      <4>1. m \notin DOMAIN C /\ (i \in 1 .. B[m] => i = B[m])
        BY <2>2, <3>4
      <4>. QED  BY <3>1, <3>2, <3>4, <4>1
    <3>5. CASE x = m /\ B[m] # 1
      <4>1. m \in DOMAIN C /\ C[m] = B[m] - 1
        BY <1>6, <2>2, <3>5
      <4>2. i \in 1 .. B[m] - 1 <=> i \in 1 .. B[m] /\ i # B[m]
        BY <2>3
      <4>. QED  BY <1>6, <3>1, <3>2, <3>5, <4>1, <4>2
    <3>. QED  BY <3>3, <3>4, <3>5
  <2>5. \A d \in Each(C) : \E x, i : d = <<x, i>>
    BY <1>1
  <2>6. \A d \in Each(B) : \E x, i : d = <<x, i>>
    BY <1>1
  <2>7. Each(C) \subseteq Each(B) \ {<<m, B[m]>>}
    BY <2>4, <2>5
  <2>8. Each(B) \ {<<m, B[m]>>} \subseteq Each(C)
    BY <2>4, <2>6
  <2>9. <<m, B[m]>> \in Each(B)
    BY <1>3, <1>6, <2>3
  <2>. QED  BY <2>1, <2>7, <2>8, <2>9
<1>. QED  BY <1>1, <1>4, <1>5, <1>6

\* A set with one element more.
LEMMA OneMore ==
  ASSUME NEW S, IsFiniteSet(S), NEW x, x \notin S, NEW T, T = S \cup {x}
  PROVE  IsFiniteSet(T) /\ Cardinality(S) \in Nat /\ Cardinality(T) = Cardinality(S) + 1
<1>1. IsFiniteSet(S \cup {x}) /\ Cardinality(S \cup {x}) = Cardinality(S) + 1
  BY FS_AddElement
<1>2. Cardinality(S) \in Nat
  BY FS_CardinalityType
<1>. QED  BY <1>1, <1>2, Zenon

\* A set with one element less.
LEMMA OneLess ==
  ASSUME NEW S, IsFiniteSet(S), NEW x, x \in S, NEW T, T = S \ {x}
  PROVE  IsFiniteSet(T) /\ Cardinality(S) \in Nat /\ Cardinality(S) = Cardinality(T) + 1
<1>1. IsFiniteSet(S \ {x}) /\ Cardinality(S \ {x}) = Cardinality(S) - 1
  BY FS_RemoveElement
<1>2. Cardinality(S) \in Nat
  BY FS_CardinalityType
<1>3. IsFiniteSet(T) /\ Cardinality(T) = Cardinality(S) - 1
  BY <1>1, Zenon
<1>. QED  BY <1>2, <1>3

\* The datagrams of a bag that answer item e, and those from port c.
Under(B, e)   == {d \in Each(B) : ItemOf(d[1]) = e}
From(B, c)    == {d \in Each(B) : d[1].from = c}
UnderIn(B, e) == Cardinality(Under(B, e))
SendsIn(B, c) == Cardinality(From(B, c))

\* They are as many as a natural number says.
LEMMA Finitely ==
  ASSUME NEW B, IsFiniteSet(Each(B)), NEW e
  PROVE  /\ IsFiniteSet(Under(B, e)) /\ UnderIn(B, e) \in Nat
         /\ IsFiniteSet(From(B, e)) /\ SendsIn(B, e) \in Nat
<1>1. Under(B, e) \subseteq Each(B) /\ From(B, e) \subseteq Each(B)
  BY DEF Under, From
<1>2. IsFiniteSet(Under(B, e)) /\ IsFiniteSet(From(B, e))
  BY <1>1, FS_Subset, Zenon
<1>. QED  BY <1>2, FS_CardinalityType DEF UnderIn, SendsIn

\* A request more is one more its port has sent.
LEMMA Sending ==
  ASSUME NEW B, IsABag(B), IsFiniteSet(Each(B)), NEW m, NEW C, C = BagAdd(B, m), NEW c
  PROVE  /\ IsFiniteSet(Each(C)) /\ SendsIn(B, c) \in Nat
         /\ SendsIn(C, c) = SendsIn(B, c) + (IF m.from = c THEN 1 ELSE 0)
<1>1. PICK x : x = <<m, Count(m, B) + 1>>
  OBVIOUS
<1>2. Each(C) = Each(B) \cup {x} /\ x \notin Each(B)
  BY <1>1, EachIs, Zenon
<1>3. x[1] = m
  BY <1>1
<1>4. IsFiniteSet(Each(C))
  BY <1>2, OneMore, Zenon
<1>5. IsFiniteSet(From(B, c)) /\ SendsIn(B, c) \in Nat
  BY Finitely
<1>6. CASE m.from = c
  <2>1. From(C, c) = From(B, c) \cup {x} /\ x \notin From(B, c)
    BY <1>2, <1>3, <1>6 DEF From
  <2>2. Cardinality(From(C, c)) = Cardinality(From(B, c)) + 1
    BY <1>5, <2>1, OneMore, Zenon
  <2>. QED  BY <1>4, <1>5, <1>6, <2>2 DEF SendsIn
<1>7. CASE m.from # c
  <2>1. From(C, c) = From(B, c)
    BY <1>2, <1>3, <1>7 DEF From
  <2>2. SendsIn(C, c) = SendsIn(B, c)
    BY <2>1, Zenon DEF SendsIn
  <2>. QED  BY <1>4, <1>5, <1>7, <2>2
<1>. QED  BY <1>6, <1>7

\* An answer more, or one less, is one of its item.
LEMMA Moving ==
  ASSUME NEW B, IsABag(B), IsFiniteSet(Each(B)), NEW m, NEW C, NEW e
  PROVE  /\ UnderIn(B, e) \in Nat
         /\ C = BagAdd(B, m) =>
              /\ IsFiniteSet(Each(C))
              /\ UnderIn(C, e) = UnderIn(B, e) + (IF e = ItemOf(m) THEN 1 ELSE 0)
         /\ C = BagRemove(B, m) /\ m \in DOMAIN B =>
              /\ IsFiniteSet(Each(C))
              /\ UnderIn(B, e) = UnderIn(C, e) + (IF e = ItemOf(m) THEN 1 ELSE 0)
<1>2. IsFiniteSet(Under(B, e)) /\ UnderIn(B, e) \in Nat
  BY Finitely
<1>3. ASSUME C = BagAdd(B, m)
      PROVE  /\ IsFiniteSet(Each(C))
             /\ UnderIn(C, e) = UnderIn(B, e) + (IF e = ItemOf(m) THEN 1 ELSE 0)
  <2>1. PICK x : x = <<m, Count(m, B) + 1>>
    OBVIOUS
  <2>2. Each(C) = Each(B) \cup {x} /\ x \notin Each(B)
    BY <1>3, <2>1, EachIs, Zenon
  <2>3. x[1] = m
    BY <2>1
  <2>4. IsFiniteSet(Each(C))
    BY <2>2, OneMore, Zenon
  <2>5. CASE e = ItemOf(m)
    <3>1. Under(C, e) = Under(B, e) \cup {x} /\ x \notin Under(B, e)
      BY <2>2, <2>3, <2>5 DEF Under
    <3>2. Cardinality(Under(C, e)) = Cardinality(Under(B, e)) + 1
      BY <1>2, <3>1, OneMore, Zenon
    <3>. QED  BY <2>4, <2>5, <3>2 DEF UnderIn
  <2>6. CASE e # ItemOf(m)
    <3>1. Under(C, e) = Under(B, e)
      BY <2>2, <2>3, <2>6 DEF Under
    <3>2. UnderIn(C, e) = UnderIn(B, e)
      BY <3>1, Zenon DEF UnderIn
    <3>. QED  BY <1>2, <2>4, <2>6, <3>2
  <2>. QED  BY <2>5, <2>6
<1>4. ASSUME C = BagRemove(B, m), m \in DOMAIN B
      PROVE  /\ IsFiniteSet(Each(C))
             /\ UnderIn(B, e) = UnderIn(C, e) + (IF e = ItemOf(m) THEN 1 ELSE 0)
  <2>1. PICK x : x = <<m, B[m]>>
    OBVIOUS
  <2>2. Each(C) = Each(B) \ {x} /\ x \in Each(B)
    BY <1>4, <2>1, EachIs, Zenon
  <2>3. x[1] = m
    BY <2>1
  <2>4. IsFiniteSet(Each(C))
    BY <2>2, OneLess, Zenon
  <2>5. CASE e = ItemOf(m)
    <3>1. Under(C, e) = Under(B, e) \ {x} /\ x \in Under(B, e)
      BY <2>2, <2>3, <2>5 DEF Under
    <3>2. Cardinality(Under(B, e)) = Cardinality(Under(C, e)) + 1
      BY <1>2, <3>1, OneLess, Zenon
    <3>. QED  BY <2>4, <2>5, <3>2 DEF UnderIn
  <2>6. CASE e # ItemOf(m)
    <3>1. Under(C, e) = Under(B, e)
      BY <2>2, <2>3, <2>6 DEF Under
    <3>2. UnderIn(C, e) = UnderIn(B, e)
      BY <3>1, Zenon DEF UnderIn
    <3>. QED  BY <1>2, <2>4, <2>6, <3>2
  <2>. QED  BY <2>5, <2>6
<1>. QED  BY <1>2, <1>3, <1>4

\* The empty bag has nothing in it.
LEMMA NothingIn ==
  /\ IsABag(EmptyBag) /\ DOMAIN EmptyBag = {} /\ IsFiniteSet(Each(EmptyBag))
  /\ \A e : Count(e, EmptyBag) = 0 /\ UnderIn(EmptyBag, e) = 0 /\ SendsIn(EmptyBag, e) = 0
<1>1. DOMAIN EmptyBag = {} /\ EmptyBag = [x \in DOMAIN EmptyBag |-> EmptyBag[x]]
  BY DEF EmptyBag, SetToBag
<1>2. IsABag(EmptyBag)
  BY <1>1 DEF IsABag
<1>3. \A d : d \notin Each(EmptyBag)
  BY <1>1 DEF Each
<1>4. IsFiniteSet({}) /\ Cardinality({}) = 0
  BY FS_EmptySet
<1>5. Each(EmptyBag) = {}
  BY <1>3
<1>6. ASSUME NEW e PROVE Under(EmptyBag, e) = {} /\ From(EmptyBag, e) = {}
  BY <1>3 DEF Under, From
<1>7. ASSUME NEW e PROVE UnderIn(EmptyBag, e) = 0 /\ SendsIn(EmptyBag, e) = 0
  BY <1>4, <1>6, Zenon DEF UnderIn, SendsIn
<1>8. ASSUME NEW e PROVE Count(e, EmptyBag) = 0
  BY <1>1 DEF Count
<1>9. IsFiniteSet(Each(EmptyBag))
  BY <1>4, <1>5, Zenon
<1>. QED  BY <1>1, <1>2, <1>7, <1>8, <1>9

-----------------------------------------------------------------------------
(* Consequences of the invariant, and what is enough for its parts.        *)

\* The counts are numbers that add up.
LEMMA Sums ==
  ASSUME IInv, NEW e \in Items
  PROVE  /\ Count(e, sent) \in Nat /\ Count(e, copies) \in Nat /\ Count(e, lost) \in Nat
         /\ Count(e, requests) \in Nat /\ Held(e) \in Nat /\ UnderIn(answers, e) \in Nat
         /\ Count(e, shown) \in Nat
         /\ Count(e, sent) + Count(e, copies) =
              Count(e, lost) + Count(e, requests) + Held(e) + UnderIn(answers, e) + Count(e, shown)
<1>1. AllBags /\ Conserved
  BY DEF IInv, Types
<1>2. UnderWay(e) = UnderIn(answers, e)
  BY DEF UnderWay, UnderIn, Under
<1>3. UnderIn(answers, e) \in Nat
  BY <1>1, Finitely DEF AllBags
<1>4. Held(e) \in Nat
  BY DEF Held
<1>5. /\ Count(e, sent) \in Nat /\ Count(e, copies) \in Nat /\ Count(e, lost) \in Nat
      /\ Count(e, requests) \in Nat /\ Count(e, shown) \in Nat
  BY <1>1, Counting DEF AllBags
<1>. QED  BY <1>1, <1>2, <1>3, <1>4, <1>5 DEF Conserved

\* They do after a step.
LEMMA Balance ==
  ASSUME \A e \in Items :
           Count(e, sent') + Count(e, copies') =
             Count(e, lost') + Count(e, requests') + Held(e)' + UnderIn(answers', e)
               + Count(e, shown')
  PROVE  Conserved'
<1>1. ASSUME NEW e PROVE UnderWay(e)' = UnderIn(answers', e)
  BY DEF UnderWay, UnderIn, Under
<1>. QED  BY <1>1 DEF Conserved, Count

\* A port's requests are counted after a step as before it.
LEMMA SendsAre ==
  /\ \A c : Sends(c) = SendsIn(sent, c)
  /\ \A c : Sends(c)' = SendsIn(sent', c)
<1>1. ASSUME NEW c PROVE Sends(c) = SendsIn(sent, c) /\ Sends(c)' = SendsIn(sent', c)
  BY DEF Sends, SendsIn, From
<1>. QED  BY <1>1

\* A step that takes no answer out of a socket that poll() has seen, and leaves the
\* clients where they are.
LEMMA PollingKept ==
  ASSUME Polling, UNCHANGED <<prog, cpc, revents, open>>,
         \A m \in DOMAIN answers : "sock" \in revents[m.to] => m \in DOMAIN answers'
  PROVE  Polling'
<1>1. ASSUME NEW c, Readable(c), "sock" \in revents[c] PROVE Readable(c)'
  BY <1>1 DEF Readable, BagToSet
<1>. QED  BY <1>1 DEF Polling

-----------------------------------------------------------------------------
(* The servers.                                                            *)

\* What a server that starts and sets up its socket leaves alone.
Starts ==
  /\ UNCHANGED <<prog, buffer, client_addr, cpc, open, text, asked, revents, eof, last, killed>>
  /\ UNCHANGED <<requests, answers, now, sent, copies, lost, shown>>
  /\ spc # "send" /\ spc' \in {"out", "setup", "recv"} /\ boots' \in 0 .. MaxBoots
  /\ bound' \in BOOLEAN /\ res' \in 1 .. Addrs /\ (prog = "daytime" => ~bound')

\* Every step of a server that starts is such a step.
LEMMA Starting ==
  ASSUME TypeOK, Boot \/ SettingUp
  PROVE  Starts
<1>. USE DEF client, record
<1>1. CASE Boot
  BY <1>1, DatagramAssumption DEF Boot, TypeOK, Starts
<1>2. ASSUME NEW p, p # "daytime", SetUp(p) PROVE Starts
  BY <1>2 DEF SetUp, TypeOK, Starts
<1>3. CASE UdpServer
  BY <1>3, DatagramAssumption DEF UdpServer, TypeOK, Starts
<1>. QED  BY <1>1, <1>2, <1>3 DEF SettingUp, Ch8SetUp, EchoSetUp, TimeSetUp

\* It held nothing before, and holds nothing after.
LEMMA StartKeeps ==
  ASSUME IInv, Starts
  PROVE  IInv'
<1>1. Types /\ Polling /\ Conserved /\ Own /\ TypeOK
  BY DEF IInv, Types
<1>2. TypeOK'
  BY <1>1 DEF TypeOK, Starts
<1>3. Types'
  <2>1. AllBags'
    BY <1>1 DEF Types, AllBags, Starts
  <2>2. \A c : Sends(c)' = Sends(c)
    BY SendsAre DEF Starts
  <2>. QED  BY <1>1, <1>2, <2>1, <2>2 DEF Types, Starts
<1>4. Polling'
  BY <1>1, PollingKept DEF Starts
<1>5. Conserved'
  <2>1. ASSUME NEW e \in Items PROVE Held(e)' = Held(e)
    BY DEF Held, Starts
  <2>. QED  BY <2>1, Sums, Balance DEF Starts
<1>6. Own'
  <2>1. ASSUME NEW c \in Ports PROVE Single(c)' = Single(c) /\ (Alone(c) => Alone(c)')
    BY DEF Single, Alone, Held1, Fits, Starts
  <2>. QED  BY <1>1, <2>1 DEF Own, Starts
<1>. QED  BY <1>3, <1>4, <1>5, <1>6 DEF IInv

\* A datagram is one of the items.
LEMMA ItemIs ==
  /\ \A m \in Items : m.from \in Ports /\ m.text \in Texts /\ ItemOf(m) = m
  /\ \A m \in Items, x \in Items : m.from = x.from /\ m.text = x.text => m = x
  /\ \A m \in Answers : m.from \in Ports /\ m.to \in Ports /\ m.text \in Texts /\ ItemOf(m) \in Items
BY DEF Items, Answers, ItemOf, Item

\* A server that takes a request holds it, for the one it came from.
LEMMA ReceiveKeeps ==
  ASSUME IInv, Receive
  PROVE  IInv'
<1>. USE DEF client, record
<1>1. Types /\ Polling /\ Conserved /\ Own /\ TypeOK /\ AllBags
  BY DEF IInv, Types
<1>2. PICK m \in DOMAIN requests :
        requests' = BagRemove(requests, m) /\ buffer' = m /\ client_addr' = m.from
  BY DEF Receive, BagToSet, Sender
<1>3. m \in Items
  BY <1>1 DEF TypeOK
<1>4. IsABag(requests') /\ Less(requests, m, requests')
  BY <1>1, <1>2, Removing DEF AllBags
<1>5. DOMAIN requests' \subseteq DOMAIN requests
  BY <1>4 DEF Less
<1>6. TypeOK'
  BY <1>1, <1>2, <1>3, <1>5, ItemIs DEF TypeOK, Receive
<1>7. Types'
  <2>1. AllBags'
    BY <1>1, <1>4 DEF AllBags, Receive
  <2>2. \A c : Sends(c)' = Sends(c)
    BY SendsAre DEF Receive
  <2>. QED  BY <1>1, <1>2, <1>3, <1>6, <2>1, <2>2 DEF Types, Receive
<1>8. Polling'
  BY <1>1, PollingKept DEF Receive
<1>9. Conserved'
  <2>1. ASSUME NEW e \in Items
        PROVE  Count(e, requests) = Count(e, requests') + (IF e = m THEN 1 ELSE 0)
    BY <1>1, <1>2, Counting DEF AllBags
  <2>2. ASSUME NEW e \in Items PROVE Count(e, requests') \in Nat
    BY <1>4, Counting
  <2>3. ASSUME NEW e \in Items PROVE Held(e) = 0 /\ Held(e)' = IF e = m THEN 1 ELSE 0
    BY <1>2 DEF Held, Receive
  <2>. QED  BY <2>1, <2>2, <2>3, Sums, Balance DEF Receive
<1>10. Own'
  <2>1. ASSUME NEW c \in Ports, Single(c)' PROVE Alone(c)'
    <3>1. Single(c) /\ Alone(c)
      BY <1>1, <2>1 DEF Own, Single, Receive
    <3>2. ASSUME NEW x \in DOMAIN requests', x.from = c
          PROVE  /\ x \in DOMAIN requests /\ x.text = text[c] /\ requests'[x] = 1
                 /\ m.from # c /\ \A a \in DOMAIN answers : a.from # c
      <4>1. /\ x \in DOMAIN requests /\ x.text = text[c] /\ requests[x] = 1
            /\ \A a \in DOMAIN answers : a.from # c
        BY <1>5, <3>1, <3>2 DEF Alone
      <4>2. x # m
        BY <1>4, <4>1 DEF Less
      <4>3. m.from # c
        <5>1. m.from = c => m.text = text[c]
          BY <3>1 DEF Alone
        <5>. QED  BY <1>1, <1>3, <3>2, <4>1, <4>2, <5>1, ItemIs DEF TypeOK
      <4>. QED  BY <1>4, <4>1, <4>2, <4>3 DEF Less
    <3>3. m.from = c => m.text = text[c] /\ cpc[c] # "out" /\ \A a \in DOMAIN answers : a.from # c
      BY <3>1 DEF Alone
    <3>4. Held1(c)' <=> m.from = c
      BY <1>2 DEF Held1, Receive
    <3>5. UNCHANGED <<cpc, last, text, asked, answers>> /\ buffer' = m
      BY <1>2 DEF Receive
    <3>. QED  BY <1>5, <3>1, <3>2, <3>3, <3>4, <3>5 DEF Alone, Fits
  <2>. QED  BY <1>1, <2>1 DEF Own, Receive
<1>. QED  BY <1>7, <1>8, <1>9, <1>10 DEF IInv

\* An answer goes to whom the server holds the request of.
LEMMA ReplyKeeps ==
  ASSUME IInv, NEW p, NEW t, p # "daytime", Reply(p, t), t = now \/ (t = 0 /\ p # "time")
  PROVE  IInv'
<1>. USE DEF client, record
<1>1. Types /\ Polling /\ Conserved /\ Own /\ TypeOK /\ AllBags
  BY DEF IInv, Types
<1>2. PICK a : a = [to |-> client_addr, from |-> buffer.from, text |-> buffer.text, time |-> t]
  OBVIOUS
<1>3. answers' = BagAdd(answers, a)
  BY <1>2 DEF Reply, Added
<1>4. buffer \in Items /\ client_addr = buffer.from
  BY <1>1 DEF Types, Reply
<1>5. a \in Answers /\ ItemOf(a) = buffer /\ a.to = buffer.from /\ a.from = buffer.from
      /\ a.text = buffer.text /\ a.time = t
  <2>1. t \in 0 .. MaxClock
    BY <1>1, DatagramAssumption DEF TypeOK
  <2>2. buffer.from \in Ports /\ buffer.text \in Texts /\ ItemOf(buffer) = buffer
    BY <1>4, ItemIs
  <2>. QED  BY <1>2, <1>4, <2>1, <2>2 DEF Answers, ItemOf
<1>6. IsABag(answers') /\ More(answers, a, answers')
  BY <1>1, <1>3, Adding DEF AllBags
<1>7. DOMAIN answers' = DOMAIN answers \cup {a}
  BY <1>6 DEF More
<1>8. TypeOK'
  BY <1>1, <1>5, <1>7 DEF TypeOK, Reply, Answers
<1>9. Types'
  <2>1. IsFiniteSet(Each(answers'))
    BY <1>1, <1>3, Moving DEF AllBags
  <2>2. AllBags'
    BY <1>1, <1>6, <2>1 DEF AllBags, Reply
  <2>3. \A c : Sends(c)' = Sends(c)
    BY SendsAre DEF Reply
  <2>. QED  BY <1>1, <1>8, <2>2, <2>3 DEF Types, Reply
<1>10. Polling'
  BY <1>1, <1>7, PollingKept DEF Reply
<1>11. Conserved'
  <2>1. ASSUME NEW e \in Items
        PROVE  UnderIn(answers', e) = UnderIn(answers, e) + (IF e = buffer THEN 1 ELSE 0)
    BY <1>1, <1>3, <1>5, Moving DEF AllBags
  <2>2. ASSUME NEW e \in Items PROVE Held(e)' = 0 /\ Held(e) = IF e = buffer THEN 1 ELSE 0
    BY DEF Held, Reply
  <2>. QED  BY <2>1, <2>2, Sums, Balance DEF Reply
<1>12. Own'
  <2>1. ASSUME NEW c \in Ports, Single(c)' PROVE Alone(c)'
    <3>1. Single(c) /\ Alone(c)
      BY <1>1, <2>1 DEF Own, Single, Reply
    <3>2. UNCHANGED <<cpc, last, text, asked, requests>> /\ ~Held1(c)'
      BY DEF Reply, Held1
    <3>3. CASE a.from = c
      <4>1. Held1(c)
        BY <1>5, <3>3 DEF Held1, Reply
      <4>2. /\ cpc[c] # "out" /\ buffer.text = text[c] /\ \A x \in DOMAIN answers : x.from # c
            /\ \A m \in DOMAIN requests : m.from # c
        BY <3>1, <4>1 DEF Alone
      <4>3. answers'[a] = 1 /\ \A x \in DOMAIN answers' : x.from = c => x = a
        <5>1. a \notin DOMAIN answers
          BY <3>3, <4>2
        <5>. QED  BY <1>6, <1>7, <4>2, <5>1 DEF More, Count
      <4>4. t >= asked[c]
        <5>1. asked[c] <= now /\ (p # "time" => now = 0)
          BY <1>1 DEF Types, Reply
        <5>. QED  BY <5>1
      <4>5. Fits(c, a)
        BY <1>5, <4>2, <4>4 DEF Fits
      <4>6. Fits(c, a)'
        BY <3>2, <4>5 DEF Fits
      <4>. QED  BY <3>2, <4>2, <4>3, <4>6 DEF Alone
    <3>4. CASE a.from # c
      <4>1. \A x \in DOMAIN answers' : x.from = c => x \in DOMAIN answers /\ answers'[x] = answers[x]
        BY <1>6, <1>7, <3>4 DEF More
      <4>2. \A x : Fits(c, x) => Fits(c, x)'
        BY <3>2 DEF Fits
      <4>3. Fits(c, last[c]) => Fits(c, last[c])'
        BY <3>2 DEF Fits
      <4>4. ~Held1(c) /\ (cpc[c] = "out" => Fits(c, last[c]))
        BY <1>5, <3>1, <3>4 DEF Held1, Alone
      <4>. QED  BY <3>1, <3>2, <4>1, <4>2, <4>3, <4>4 DEF Alone
    <3>. QED  BY <3>3, <3>4
  <2>2. \A m \in DOMAIN answers' : m.to = m.from
    BY <1>1, <1>5, <1>7 DEF Own
  <2>. QED  BY <1>1, <2>1, <2>2 DEF Own, Reply
<1>. QED  BY <1>9, <1>10, <1>11, <1>12 DEF IInv

\* What a server holds when it ends is lost.
LEMMA DieKeeps ==
  ASSUME IInv, Die
  PROVE  IInv'
<1>. USE DEF client
<1>1. Types /\ Polling /\ Conserved /\ Own /\ TypeOK /\ AllBags
  BY DEF IInv, Types
<1>2. IsABag(lost') /\ DOMAIN lost' \subseteq Items
  <2>1. CASE spc = "send"
    <3>1. lost' = BagAdd(lost, buffer) /\ buffer \in Items
      BY <1>1, <2>1 DEF Die, Types
    <3>2. IsABag(lost') /\ More(lost, buffer, lost')
      BY <1>1, <3>1, Adding DEF AllBags
    <3>. QED  BY <1>1, <3>1, <3>2 DEF More, TypeOK
  <2>2. CASE spc # "send"
    BY <1>1, <2>2 DEF Die, AllBags, TypeOK
  <2>. QED  BY <2>1, <2>2
<1>3. TypeOK'
  BY <1>1, <1>2 DEF TypeOK, Die
<1>4. Types'
  <2>1. AllBags'
    BY <1>1, <1>2 DEF AllBags, Die
  <2>2. \A c : Sends(c)' = Sends(c)
    BY SendsAre DEF Die
  <2>. QED  BY <1>1, <1>3, <2>1, <2>2 DEF Types, Die
<1>5. Polling'
  BY <1>1, PollingKept DEF Die
<1>6. Conserved'
  <2>1. ASSUME NEW e \in Items PROVE Count(e, lost') = Count(e, lost) + Held(e)
    <3>1. CASE spc = "send"
      <4>1. Count(e, lost') = Count(e, lost) + (IF e = buffer THEN 1 ELSE 0)
        BY <1>1, <3>1, Counting DEF Die, AllBags
      <4>. QED  BY <3>1, <4>1 DEF Held
    <3>2. CASE spc # "send"
      BY <3>2, Sums DEF Die, Held
    <3>. QED  BY <3>1, <3>2
  <2>2. ASSUME NEW e \in Items PROVE Held(e)' = 0
    BY DEF Held, Die
  <2>. QED  BY <2>1, <2>2, Sums, Balance DEF Die
<1>7. Own'
  <2>1. ASSUME NEW c \in Ports PROVE Single(c)' = Single(c) /\ (Alone(c) => Alone(c)')
    BY DEF Single, Alone, Held1, Fits, Die
  <2>. QED  BY <1>1, <2>1 DEF Own, Die
<1>. QED  BY <1>4, <1>5, <1>6, <1>7 DEF IInv

-----------------------------------------------------------------------------
(* The network.                                                            *)

\* What a loss does not touch.
Elsewhere == UNCHANGED <<prog, server, client, now, sent, shown>>

\* A request is lost: it is in one count less, and in one more.
LEMMA DropRequestKeeps ==
  ASSUME IInv, Elsewhere, UNCHANGED <<answers, copies>>, NEW m \in DOMAIN requests,
         requests' = BagRemove(requests, m), lost' = BagAdd(lost, m)
  PROVE  IInv'
<1>. USE DEF client, server, Elsewhere
<1>1. Types /\ Polling /\ Conserved /\ Own /\ TypeOK /\ AllBags
  BY DEF IInv, Types
<1>2. m \in Items
  BY <1>1 DEF TypeOK
<1>3. IsABag(requests') /\ Less(requests, m, requests')
  BY <1>1, Removing DEF AllBags
<1>4. IsABag(lost') /\ More(lost, m, lost')
  BY <1>1, Adding DEF AllBags
<1>5. DOMAIN requests' \subseteq DOMAIN requests
  BY <1>3 DEF Less
<1>6. TypeOK'
  BY <1>1, <1>2, <1>4, <1>5 DEF TypeOK, More
<1>7. Types'
  <2>1. AllBags'
    BY <1>1, <1>3, <1>4 DEF AllBags
  <2>2. \A c : Sends(c)' = Sends(c)
    BY SendsAre
  <2>. QED  BY <1>1, <1>6, <2>1, <2>2 DEF Types
<1>8. Polling'
  BY <1>1, PollingKept
<1>9. Conserved'
  <2>1. ASSUME NEW e \in Items
        PROVE  /\ Count(e, requests) = Count(e, requests') + (IF e = m THEN 1 ELSE 0)
               /\ Count(e, lost') = Count(e, lost) + (IF e = m THEN 1 ELSE 0)
    BY <1>1, Counting DEF AllBags
  <2>2. ASSUME NEW e \in Items PROVE Count(e, requests') \in Nat /\ Held(e)' = Held(e)
    BY <1>3, Counting DEF Held
  <2>. QED  BY <2>1, <2>2, Sums, Balance
<1>10. Own'
  <2>1. ASSUME NEW c \in Ports, Single(c)' PROVE Alone(c)'
    <3>1. Single(c) /\ Alone(c)
      BY <1>1, <2>1 DEF Own, Single
    <3>2. UNCHANGED <<cpc, last, text, asked, answers, spc, buffer>>
      OBVIOUS
    <3>3. \A x \in DOMAIN requests' : x.from = c => x \in DOMAIN requests /\ requests'[x] = 1
      <4>1. \A x \in DOMAIN requests' : x.from = c => x \in DOMAIN requests /\ requests[x] = 1
        BY <1>5, <3>1 DEF Alone
      <4>. QED  BY <1>3, <4>1 DEF Less
    <3>. QED  BY <3>1, <3>2, <3>3 DEF Alone, Held1, Fits
  <2>. QED  BY <1>1, <2>1 DEF Own
<1>. QED  BY <1>7, <1>8, <1>9, <1>10 DEF IInv

\* An answer is lost that no poll() has seen.
LEMMA DropAnswerKeeps ==
  ASSUME IInv, Elsewhere, UNCHANGED <<requests, copies>>, NEW m \in DOMAIN answers,
         "sock" \notin revents[m.to],
         answers' = BagRemove(answers, m), lost' = BagAdd(lost, ItemOf(m))
  PROVE  IInv'
<1>. USE DEF client, server, Elsewhere
<1>1. Types /\ Polling /\ Conserved /\ Own /\ TypeOK /\ AllBags
  BY DEF IInv, Types
<1>2. ItemOf(m) \in Items
  BY <1>1, ItemIs DEF TypeOK, Answers
<1>3. IsABag(answers') /\ Less(answers, m, answers')
  BY <1>1, Removing DEF AllBags
<1>4. IsABag(lost') /\ More(lost, ItemOf(m), lost')
  BY <1>1, Adding DEF AllBags
<1>5. DOMAIN answers' \subseteq DOMAIN answers /\ \A x \in DOMAIN answers : x # m => x \in DOMAIN answers'
  BY <1>3 DEF Less
<1>6. DOMAIN lost' \subseteq Items
  BY <1>1, <1>2, <1>4 DEF TypeOK, More
<1>7. TypeOK'
  <2>1. prog # "daytime"
    BY <1>1, NothingIn DEF TypeOK
  <2>. QED  BY <1>1, <1>5, <1>6, <2>1 DEF TypeOK
<1>8. Types'
  <2>1. IsFiniteSet(Each(answers'))
    BY <1>1, Moving DEF AllBags
  <2>2. AllBags'
    BY <1>1, <1>3, <1>4, <2>1 DEF AllBags
  <2>3. \A c : Sends(c)' = Sends(c)
    BY SendsAre
  <2>. QED  BY <1>1, <1>7, <2>2, <2>3 DEF Types
<1>9. Polling'
  BY <1>1, <1>5, PollingKept
<1>10. Conserved'
  <2>1. ASSUME NEW e \in Items
        PROVE  /\ UnderIn(answers, e) = UnderIn(answers', e) + (IF e = ItemOf(m) THEN 1 ELSE 0)
               /\ Count(e, lost') = Count(e, lost) + (IF e = ItemOf(m) THEN 1 ELSE 0)
    BY <1>1, Counting, Moving DEF AllBags
  <2>2. ASSUME NEW e \in Items PROVE UnderIn(answers', e) \in Nat /\ Held(e)' = Held(e)
    <3>1. IsFiniteSet(Each(answers'))
      BY <1>1, Moving DEF AllBags
    <3>. QED  BY <3>1, Finitely DEF Held
  <2>. QED  BY <2>1, <2>2, Sums, Balance
<1>11. Own'
  <2>1. ASSUME NEW c \in Ports, Single(c)' PROVE Alone(c)'
    <3>1. Single(c) /\ Alone(c)
      BY <1>1, <2>1 DEF Own, Single
    <3>2. UNCHANGED <<cpc, last, text, asked, requests, spc, buffer>>
      OBVIOUS
    <3>3. \A x \in DOMAIN answers' : x.from = c => x \in DOMAIN answers /\ answers'[x] = 1
      <4>1. \A x \in DOMAIN answers' : x.from = c => x \in DOMAIN answers /\ answers[x] = 1
        BY <1>5, <3>1 DEF Alone
      <4>. QED  BY <1>3, <4>1 DEF Less
    <3>. QED  BY <1>5, <3>1, <3>2, <3>3 DEF Alone, Held1, Fits
  <2>. QED  BY <1>1, <1>5, <2>1 DEF Own
<1>. QED  BY <1>8, <1>9, <1>10, <1>11 DEF IInv

\* What is lost is lost, and only what no poll() has seen.
LEMMA LoseKeeps ==
  ASSUME IInv, Refuse \/ Lose
  PROVE  IInv'
<1>1. UNCHANGED copies /\ Elsewhere
  BY DEF Refuse, Lose, Elsewhere
<1>2. ASSUME NEW m \in DOMAIN requests, requests' = BagRemove(requests, m),
             lost' = BagAdd(lost, m), UNCHANGED answers
      PROVE  IInv'
  BY <1>1, <1>2, DropRequestKeeps
<1>3. ASSUME NEW m \in DOMAIN answers, answers' = BagRemove(answers, m),
             lost' = BagAdd(lost, ItemOf(m)), UNCHANGED requests, "sock" \notin revents[m.to]
      PROVE  IInv'
  BY <1>1, <1>3, DropAnswerKeeps
<1>4. ASSUME NEW m \in DOMAIN answers, ~open[m.to] PROVE "sock" \notin revents[m.to]
  <2>1. m.to \in Ports
    BY ItemIs DEF IInv, Types, TypeOK, Answers
  <2>. QED  BY <1>4, <2>1 DEF IInv, Polling, Readable
<1>. QED  BY <1>2, <1>3, <1>4 DEF Refuse, Lose, BagToSet

\* What is repeated is there twice, and its port has an older answer left for it.
LEMMA CopyKeeps ==
  ASSUME IInv, Copy
  PROVE  IInv'
<1>. USE DEF client, server
<1>1. Types /\ Polling /\ Conserved /\ Own /\ TypeOK /\ AllBags
  BY DEF IInv, Types
<1>2. PICK i \in Items :
        /\ copies' = BagAdd(copies, i)
        /\ \/ i \in DOMAIN requests /\ requests' = BagAdd(requests, i) /\ UNCHANGED answers
           \/ \E m \in DOMAIN answers :
                i = ItemOf(m) /\ answers' = BagAdd(answers, m) /\ UNCHANGED requests
  <2>1. \A m \in DOMAIN answers : ItemOf(m) \in Items
    BY <1>1, ItemIs DEF TypeOK, Answers
  <2>2. \A m \in DOMAIN requests : m \in Items
    BY <1>1 DEF TypeOK
  <2>. QED  BY <2>1, <2>2 DEF Copy, BagToSet
<1>3. IsABag(copies') /\ More(copies, i, copies')
  BY <1>1, <1>2, Adding DEF AllBags
<1>4. DOMAIN copies' = DOMAIN copies \cup {i}
  BY <1>3 DEF More
<1>5. UNCHANGED <<prog, spc, bound, res, buffer, client_addr, boots, cpc, open, text, asked,
                  revents, eof, last, killed, now, sent, lost, shown>>
  BY DEF Copy
<1>6. ASSUME NEW c \in Ports, Single(c)' PROVE i.from # c /\ Single(c) /\ Alone(c)
  <2>1. Single(c) /\ Item(c, i.text) # i
    BY <1>2, <1>4, <1>5, <1>6, ItemIs DEF Single
  <2>2. i = Item(i.from, i.text)
    BY <1>2, ItemIs DEF ItemOf
  <2>. QED  BY <1>1, <2>1, <2>2 DEF Own
<1>7. \A c : Sends(c)' = Sends(c)
  BY <1>5, SendsAre
<1>8. ASSUME NEW e \in Items
      PROVE  /\ Count(e, copies') = Count(e, copies) + (IF e = i THEN 1 ELSE 0)
             /\ Held(e)' = Held(e)
  BY <1>1, <1>2, <1>5, Counting DEF AllBags, Held
<1>9. CASE i \in DOMAIN requests /\ requests' = BagAdd(requests, i) /\ UNCHANGED answers
  <2>1. IsABag(requests') /\ More(requests, i, requests')
    BY <1>1, <1>9, Adding DEF AllBags
  <2>2. DOMAIN requests' = DOMAIN requests
    BY <1>9, <2>1 DEF More
  <2>3. TypeOK'
    BY <1>1, <1>4, <1>5, <1>9, <2>2 DEF TypeOK
  <2>4. Types'
    <3>1. AllBags'
      BY <1>1, <1>3, <1>5, <1>9, <2>1 DEF AllBags
    <3>. QED  BY <1>1, <1>5, <1>7, <2>3, <3>1 DEF Types
  <2>5. Polling'
    BY <1>1, <1>5, <1>9, PollingKept
  <2>6. Conserved'
    <3>1. ASSUME NEW e \in Items
          PROVE  Count(e, requests') = Count(e, requests) + (IF e = i THEN 1 ELSE 0)
      BY <1>1, <1>9, Counting DEF AllBags
    <3>. QED  BY <1>5, <1>8, <1>9, <3>1, Sums, Balance
  <2>7. Own'
    <3>1. ASSUME NEW c \in Ports, Single(c)' PROVE Alone(c)'
      <4>1. \A x \in DOMAIN requests' : x.from = c => requests'[x] = requests[x]
        BY <1>6, <2>1, <2>2, <3>1 DEF More
      <4>. QED  BY <1>5, <1>6, <1>9, <2>2, <3>1, <4>1 DEF Alone, Held1, Fits
    <3>. QED  BY <1>1, <1>5, <1>9, <3>1 DEF Own
  <2>. QED  BY <2>4, <2>5, <2>6, <2>7 DEF IInv
<1>10. ASSUME NEW m \in DOMAIN answers, i = ItemOf(m), answers' = BagAdd(answers, m),
              UNCHANGED requests
       PROVE  IInv'
  <2>1. IsABag(answers') /\ More(answers, m, answers')
    BY <1>1, <1>10, Adding DEF AllBags
  <2>2. DOMAIN answers' = DOMAIN answers /\ i.from = m.from
    BY <1>10, <2>1 DEF More, ItemOf, Item
  <2>3. prog = "daytime" => answers' = EmptyBag
    BY <1>1, <1>10, NothingIn DEF TypeOK
  <2>4. TypeOK'
    BY <1>1, <1>4, <1>5, <1>10, <2>2, <2>3 DEF TypeOK
  <2>5. Types'
    <3>1. IsFiniteSet(Each(answers'))
      BY <1>1, <1>10, Moving DEF AllBags
    <3>2. AllBags'
      BY <1>1, <1>3, <1>5, <1>10, <2>1, <3>1 DEF AllBags
    <3>. QED  BY <1>1, <1>5, <1>7, <2>4, <3>2 DEF Types
  <2>6. Polling'
    BY <1>1, <1>5, <2>2, PollingKept
  <2>7. Conserved'
    <3>1. ASSUME NEW e \in Items
          PROVE  UnderIn(answers', e) = UnderIn(answers, e) + (IF e = i THEN 1 ELSE 0)
      BY <1>1, <1>10, Moving DEF AllBags
    <3>. QED  BY <1>5, <1>8, <1>10, <3>1, Sums, Balance
  <2>8. Own'
    <3>1. ASSUME NEW c \in Ports, Single(c)' PROVE Alone(c)'
      <4>1. \A x \in DOMAIN answers' : x.from = c => answers'[x] = answers[x]
        BY <1>6, <2>1, <2>2, <3>1 DEF More
      <4>. QED  BY <1>5, <1>6, <1>10, <2>2, <3>1, <4>1 DEF Alone, Held1, Fits
    <3>. QED  BY <1>1, <1>5, <2>2, <3>1 DEF Own
  <2>. QED  BY <2>5, <2>6, <2>7, <2>8 DEF IInv
<1>. QED  BY <1>2, <1>9, <1>10

\* Time passes: what was asked was not asked later than now.
LEMMA TickKeeps ==
  ASSUME IInv, Tick
  PROVE  IInv'
<1>. USE DEF client, server, record
<1>1. Types /\ Polling /\ Conserved /\ Own /\ TypeOK /\ AllBags
  BY DEF IInv, Types
<1>2. TypeOK'
  <2>1. now' \in 0 .. MaxClock
    BY <1>1, DatagramAssumption DEF TypeOK, Tick
  <2>. QED  BY <1>1, <2>1 DEF TypeOK, Tick
<1>3. Types'
  <2>1. AllBags'
    BY <1>1 DEF AllBags, Tick
  <2>2. \A c : Sends(c)' = Sends(c)
    BY SendsAre DEF Tick
  <2>3. \A c \in Ports : asked[c] \in Nat /\ asked[c] <= now' /\ now' = now + 1
    BY <1>1 DEF Types, TypeOK, Tick
  <2>. QED  BY <1>1, <1>2, <2>1, <2>2, <2>3 DEF Types, Tick
<1>4. Polling'
  BY <1>1, PollingKept DEF Tick
<1>5. Conserved'
  <2>1. ASSUME NEW e \in Items PROVE Held(e)' = Held(e)
    BY DEF Held, Tick
  <2>. QED  BY <2>1, Sums, Balance DEF Tick
<1>6. Own'
  <2>1. ASSUME NEW c \in Ports PROVE Single(c)' = Single(c) /\ (Alone(c) => Alone(c)')
    BY DEF Single, Alone, Held1, Fits, Tick
  <2>. QED  BY <1>1, <2>1 DEF Own, Tick
<1>. QED  BY <1>3, <1>4, <1>5, <1>6 DEF IInv

-----------------------------------------------------------------------------
(* The clients.                                                            *)

\* sendto() of request k by client c.
LEMMA SendBags ==
  ASSUME IInv, NEW c \in Ports, NEW k \in Texts, Send(c, k),
         UNCHANGED <<prog, server, answers, now, copies, lost, shown, last, killed>>
  PROVE  /\ AllBags' /\ Conserved' /\ Item(c, k) \in Items
         /\ DOMAIN requests' \subseteq Items /\ DOMAIN sent' \subseteq Items
         /\ More(requests, Item(c, k), requests')
         /\ Sends(c)' = Sends(c) + 1 /\ Sends(c) \in Nat
         /\ \A d : d # c => Sends(d)' = Sends(d)
<1>. USE DEF server
<1>1. TypeOK /\ AllBags
  BY DEF IInv, Types
<1>2. PICK i \in Items : i = Item(c, k) /\ i.from = c /\ i.text = k
  <2>1. Item(c, k) \in Items /\ Item(c, k).from = c /\ Item(c, k).text = k
    BY DEF Items, Item
  <2>. QED  BY <2>1, Zenon
<1>3. requests' = BagAdd(requests, i) /\ sent' = BagAdd(sent, i)
  BY <1>2 DEF Send
<1>4. IsABag(requests') /\ More(requests, i, requests') /\ IsABag(sent') /\ More(sent, i, sent')
  BY <1>1, <1>3, Adding DEF AllBags
<1>5. DOMAIN requests' \subseteq Items /\ DOMAIN sent' \subseteq Items
  BY <1>1, <1>4 DEF TypeOK, More
<1>6. ASSUME NEW d
      PROVE  /\ IsFiniteSet(Each(sent')) /\ Sends(d) \in Nat
             /\ Sends(d)' = Sends(d) + (IF c = d THEN 1 ELSE 0)
  BY <1>1, <1>2, <1>3, Sending, SendsAre DEF AllBags
<1>7. AllBags'
  BY <1>1, <1>4, <1>6 DEF AllBags
<1>8. Conserved'
  <2>1. ASSUME NEW e \in Items
        PROVE  /\ Count(e, requests') = Count(e, requests) + (IF e = i THEN 1 ELSE 0)
               /\ Count(e, sent') = Count(e, sent) + (IF e = i THEN 1 ELSE 0)
               /\ Held(e)' = Held(e)
    BY <1>1, <1>3, Counting DEF AllBags, Held
  <2>. QED  BY <2>1, Sums, Balance
<1>. QED  BY <1>2, <1>4, <1>5, <1>6, <1>7, <1>8

\* A client that asks once sends the request after its last, and waits.
LEMMA AskKeeps ==
  ASSUME IInv, NEW c \in Ports, Asking(c)
  PROVE  IInv'
<1>. USE DEF server
<1>1. Types /\ Polling /\ Conserved /\ Own /\ TypeOK /\ AllBags
  BY DEF IInv, Types
<1>2. PICK k : k = text[c] + 1
  OBVIOUS
<1>3. /\ prog # "ch8" /\ cpc[c] = "out" /\ text[c] < MaxSends[c] /\ Send(c, k)
      /\ cpc' = [cpc EXCEPT ![c] = "wait"]
      /\ UNCHANGED <<prog, server, revents, eof, last, killed, answers, now, copies, lost, shown>>
  BY <1>2 DEF Asking, EchoClient, TimeClient, DaytimeClient, Ask
<1>4. text[c] \in Nat /\ MaxSends[c] \in Nat /\ k \in 0 .. MaxSends[c]
  <2>1. text[c] \in Texts /\ \A d \in Ports : MaxSends[d] \in Nat
    BY <1>1, DatagramAssumption DEF TypeOK
  <2>2. \A x \in Texts : x \in Nat
    BY <2>1 DEF Texts
  <2>. QED  BY <1>2, <1>3, <2>1, <2>2
<1>5. k \in Texts
  BY <1>4 DEF Texts
<1>6. /\ AllBags' /\ Conserved' /\ Item(c, k) \in Items
      /\ DOMAIN requests' \subseteq Items /\ DOMAIN sent' \subseteq Items
      /\ More(requests, Item(c, k), requests')
      /\ Sends(c)' = Sends(c) + 1 /\ Sends(c) \in Nat
      /\ \A d : d # c => Sends(d)' = Sends(d)
  BY <1>3, <1>5, SendBags
<1>7. /\ text' = [text EXCEPT ![c] = k] /\ asked' = [asked EXCEPT ![c] = now]
      /\ open' = [open EXCEPT ![c] = TRUE]
  BY <1>3 DEF Send
<1>8. TypeOK'
  BY <1>1, <1>3, <1>5, <1>6, <1>7 DEF TypeOK
<1>9. Types'
  <2>1. ASSUME NEW d \in Ports
        PROVE  /\ text'[d] <= MaxSends[d] /\ text'[d] <= Sends(d)' /\ asked'[d] <= now
               /\ cpc'[d] = "stdin" => Sends(d)' < MaxSends[d]
    <3>1. CASE d = c
      <4>1. text'[c] = k /\ asked'[c] = now /\ cpc'[c] = "wait" /\ now \in Nat
        BY <1>1, <1>3, <1>7 DEF TypeOK
      <4>2. text[c] <= Sends(c)
        BY <1>1 DEF Types
      <4>. QED  BY <1>2, <1>4, <1>6, <3>1, <4>1, <4>2
    <3>2. CASE d # c
      <4>1. text'[d] = text[d] /\ asked'[d] = asked[d] /\ cpc'[d] = cpc[d] /\ Sends(d)' = Sends(d)
        BY <1>1, <1>3, <1>6, <1>7, <3>2 DEF TypeOK
      <4>. QED  BY <1>1, <4>1 DEF Types
    <3>. QED  BY <3>1, <3>2
  <2>. QED  BY <1>1, <1>3, <1>6, <1>8, <2>1 DEF Types
<1>10. Polling'
  BY <1>1, <1>3 DEF Polling, TypeOK
<1>11. Own'
  <2>1. ASSUME NEW d \in Ports, Single(d)' PROVE Alone(d)'
    <3>1. Single(d) /\ Alone(d)
      BY <1>1, <1>3, <2>1 DEF Own, Single
    <3>2. UNCHANGED <<last, answers, spc, buffer>>
      BY <1>3
    <3>3. PICK i : i = Item(c, k) /\ i.from = c /\ i.text = k
      <4>1. Item(c, k).from = c /\ Item(c, k).text = k
        BY DEF Item
      <4>. QED  BY <4>1, Zenon
    <3>4. /\ DOMAIN requests' = DOMAIN requests \cup {i} /\ requests'[i] = Count(i, requests) + 1
          /\ \A x \in DOMAIN requests : x # i => requests'[x] = requests[x]
      BY <1>6, <3>3 DEF More
    <3>5. CASE d = c
      <4>1. /\ ~Held1(c) /\ \A x \in DOMAIN requests : x.from # c
            /\ \A x \in DOMAIN answers : x.from # c
        BY <1>3, <3>1, <3>5 DEF Alone
      <4>2. i \notin DOMAIN requests
        BY <3>3, <4>1
      <4>3. requests'[i] = 1
        BY <3>4, <4>2 DEF Count
      <4>4. text'[c] = k /\ cpc'[c] = "wait"
        BY <1>1, <1>3, <1>7 DEF TypeOK
      <4>5. \A x \in DOMAIN requests' : x.from = c => x = i
        BY <3>4, <4>1
      <4>6. ~Held1(c)'
        BY <3>2, <4>1 DEF Held1
      <4>. QED  BY <3>2, <3>3, <3>5, <4>1, <4>3, <4>4, <4>5, <4>6 DEF Alone
    <3>6. CASE d # c
      <4>1. text'[d] = text[d] /\ asked'[d] = asked[d] /\ cpc'[d] = cpc[d]
        BY <1>1, <1>3, <1>7, <3>6 DEF TypeOK
      <4>2. \A x \in DOMAIN requests' : x.from = d => x \in DOMAIN requests /\ requests'[x] = requests[x]
        BY <3>3, <3>4, <3>6
      <4>. QED  BY <3>1, <3>2, <4>1, <4>2 DEF Alone, Held1, Fits
    <3>. QED  BY <3>5, <3>6
  <2>. QED  BY <1>1, <1>3, <2>1 DEF Own
<1>. QED  BY <1>6, <1>9, <1>10, <1>11 DEF IInv

\* Where nothing is single, nothing has to be alone.
LEMMA OwnOfMany ==
  ASSUME Own, prog = "ch8", UNCHANGED <<prog, last>>,
         \A m \in DOMAIN answers' : m \in DOMAIN answers
  PROVE  Own'
BY DEF Own, Single

\* The poll() loop sends a line, or its buffer, and looks at the socket if poll() has.
LEMMA StdinKeeps ==
  ASSUME IInv, NEW c \in Ports, Stdin(c)
  PROVE  IInv'
<1>. USE DEF server
<1>1. Types /\ Polling /\ Conserved /\ Own /\ TypeOK /\ AllBags
  BY DEF IInv, Types
<1>2. prog = "ch8" /\ "stdin" \in revents[c] /\ cpc[c] = "stdin"
  BY <1>1 DEF Polling, Stdin
<1>3. Sends(c) < MaxSends[c] /\ text[c] <= Sends(c) /\ text[c] \in Texts
  BY <1>1, <1>2 DEF Types, TypeOK
<1>4. \A x \in Texts : x \in Nat
  BY DatagramAssumption DEF Texts
<1>5. MaxSends[c] \in Nat /\ Sends(c) \in Nat
  <2>1. Sends(c) \in Nat
    BY <1>1, SendsAre, Finitely DEF AllBags
  <2>. QED  BY <2>1, DatagramAssumption
<1>6. PICK k : /\ k \in {text[c] + 1, text[c], 0} /\ Send(c, k)
               /\ eof' \in {eof, [eof EXCEPT ![c] = TRUE]}
  BY DEF Stdin
<1>7. k \in Nat /\ k <= Sends(c) + 1 /\ k <= MaxSends[c]
  BY <1>3, <1>4, <1>5, <1>6
<1>8. k \in Texts
  BY <1>5, <1>7 DEF Texts
<1>9. /\ UNCHANGED <<prog, server, last, killed, answers, now, copies, lost, shown>>
      /\ cpc' = [cpc EXCEPT ![c] = Further(c)]
      /\ revents' = [revents EXCEPT ![c] = IF Further(c) = "poll" THEN {} ELSE revents[c] \ {"stdin"}]
  BY DEF Stdin
<1>10. /\ AllBags' /\ Conserved'
       /\ DOMAIN requests' \subseteq Items /\ DOMAIN sent' \subseteq Items
       /\ Sends(c)' = Sends(c) + 1 /\ \A d : d # c => Sends(d)' = Sends(d)
  BY <1>6, <1>8, <1>9, SendBags
<1>11. /\ text' = [text EXCEPT ![c] = k] /\ asked' = [asked EXCEPT ![c] = now]
       /\ open' = [open EXCEPT ![c] = TRUE]
  BY <1>6 DEF Send
<1>12. revents[c] \subseteq {"stdin", "sock"} /\ Further(c) \in {"poll", "sock"}
  BY <1>1 DEF TypeOK, Further
<1>13. TypeOK'
  <2>1. eof' \in [Ports -> BOOLEAN]
    BY <1>1, <1>6 DEF TypeOK
  <2>2. revents' \in [Ports -> SUBSET {"stdin", "sock"}]
    BY <1>1, <1>9, <1>12 DEF TypeOK
  <2>3. cpc' \in [Ports -> {"out", "wait", "poll", "stdin", "sock"}]
    BY <1>1, <1>9, <1>12 DEF TypeOK
  <2>. QED  BY <1>1, <1>8, <1>9, <1>10, <1>11, <2>1, <2>2, <2>3 DEF TypeOK
<1>14. Types'
  <2>1. ASSUME NEW d \in Ports
        PROVE  /\ text'[d] <= MaxSends[d] /\ text'[d] <= Sends(d)' /\ asked'[d] <= now
               /\ cpc'[d] = "stdin" => Sends(d)' < MaxSends[d]
    <3>1. CASE d = c
      <4>1. text'[c] = k /\ asked'[c] = now /\ cpc'[c] = Further(c) /\ now \in Nat
        BY <1>1, <1>9, <1>11 DEF TypeOK
      <4>. QED  BY <1>7, <1>10, <1>12, <3>1, <4>1
    <3>2. CASE d # c
      <4>1. text'[d] = text[d] /\ asked'[d] = asked[d] /\ cpc'[d] = cpc[d] /\ Sends(d)' = Sends(d)
        BY <1>1, <1>9, <1>10, <1>11, <3>2 DEF TypeOK
      <4>. QED  BY <1>1, <4>1 DEF Types
    <3>. QED  BY <3>1, <3>2
  <2>. QED  BY <1>1, <1>9, <1>10, <1>13, <2>1 DEF Types
<1>15. Polling'
  <2>1. ASSUME NEW d \in Ports, Readable(d) PROVE Readable(d)'
    BY <1>1, <1>9, <1>11, <2>1 DEF Readable, TypeOK
  <2>2. /\ cpc'[c] = Further(c) /\ (Further(c) = "poll" => revents'[c] = {})
        /\ (Further(c) = "sock" => revents'[c] = revents[c] \ {"stdin"})
    BY <1>1, <1>9 DEF TypeOK
  <2>3. Further(c) = "sock" => "sock" \in revents[c]
    BY <1>2, <1>12 DEF Further
  <2>4. "sock" \in revents[c] => Readable(c)'
    BY <1>1, <2>1 DEF Polling
  <2>5. \A d \in Ports : d # c => cpc'[d] = cpc[d] /\ revents'[d] = revents[d]
    BY <1>1, <1>9 DEF TypeOK
  <2>6. ASSUME NEW d \in Ports
        PROVE  /\ cpc'[d] \in {"out", "poll", "stdin", "sock"}
               /\ cpc'[d] = "stdin" => "stdin" \in revents'[d]
               /\ cpc'[d] = "sock" => "sock" \in revents'[d]
               /\ "sock" \in revents'[d] => Readable(d)'
    <3>1. CASE d = c
      BY <1>12, <2>2, <2>3, <2>4, <3>1
    <3>2. CASE d # c
      BY <1>1, <1>2, <2>1, <2>5, <3>2 DEF Polling
    <3>. QED  BY <3>1, <3>2
  <2>. QED  BY <1>2, <1>9, <2>6 DEF Polling
<1>16. Own'
  BY <1>1, <1>2, <1>9, OwnOfMany
<1>. QED  BY <1>10, <1>14, <1>15, <1>16 DEF IInv

\* An answer is taken out of a socket and shown.
LEMMA TakeBags ==
  ASSUME IInv, NEW m \in DOMAIN answers, answers' = BagRemove(answers, m),
         shown' = BagAdd(shown, ItemOf(m)),
         UNCHANGED <<prog, server, requests, sent, copies, lost>>
  PROVE  /\ AllBags' /\ Conserved' /\ DOMAIN shown' \subseteq Items
         /\ Less(answers, m, answers') /\ DOMAIN answers' \subseteq DOMAIN answers
         /\ \A d : Sends(d)' = Sends(d)
         /\ prog # "daytime"
<1>. USE DEF server
<1>1. TypeOK /\ AllBags
  BY DEF IInv, Types
<1>2. ItemOf(m) \in Items
  BY <1>1, ItemIs DEF TypeOK, Answers
<1>3. IsABag(answers') /\ Less(answers, m, answers') /\ IsFiniteSet(Each(answers'))
  BY <1>1, Removing, Moving DEF AllBags
<1>4. IsABag(shown') /\ More(shown, ItemOf(m), shown')
  BY <1>1, Adding DEF AllBags
<1>5. DOMAIN answers' \subseteq DOMAIN answers
  BY <1>3 DEF Less
<1>6. DOMAIN shown' \subseteq Items
  BY <1>1, <1>2, <1>4 DEF TypeOK, More
<1>7. AllBags'
  BY <1>1, <1>3, <1>4 DEF AllBags
<1>8. Conserved'
  <2>1. ASSUME NEW e \in Items
        PROVE  /\ UnderIn(answers, e) = UnderIn(answers', e) + (IF e = ItemOf(m) THEN 1 ELSE 0)
               /\ Count(e, shown') = Count(e, shown) + (IF e = ItemOf(m) THEN 1 ELSE 0)
    BY <1>1, Counting, Moving DEF AllBags
  <2>2. ASSUME NEW e \in Items PROVE UnderIn(answers', e) \in Nat /\ Held(e)' = Held(e)
    BY <1>3, Finitely DEF Held
  <2>. QED  BY <2>1, <2>2, Sums, Balance
<1>9. prog # "daytime"
  BY <1>1, NothingIn DEF TypeOK
<1>10. \A d : Sends(d)' = Sends(d)
  BY SendsAre
<1>. QED  BY <1>3, <1>5, <1>6, <1>7, <1>8, <1>9, <1>10

\* A client that asks once shows the answer to what it asked, and ends.
LEMMA ShowKeeps ==
  ASSUME IInv, NEW c \in Ports, Show(c)
  PROVE  IInv'
<1>. USE DEF server
<1>1. Types /\ Polling /\ Conserved /\ Own /\ TypeOK /\ AllBags
  BY DEF IInv, Types
<1>2. PICK m \in DOMAIN answers :
        /\ m.to = c /\ answers' = BagRemove(answers, m) /\ shown' = BagAdd(shown, ItemOf(m))
        /\ last' = [last EXCEPT ![c] = m]
  BY DEF Show, Take, BagToSet
<1>3. /\ cpc[c] = "wait" /\ cpc' = [cpc EXCEPT ![c] = "out"] /\ open' = [open EXCEPT ![c] = FALSE]
      /\ UNCHANGED <<prog, server, text, asked, revents, eof, killed, requests, now, sent, copies, lost>>
  BY DEF Show
<1>4. /\ AllBags' /\ Conserved' /\ DOMAIN shown' \subseteq Items
      /\ Less(answers, m, answers') /\ DOMAIN answers' \subseteq DOMAIN answers
      /\ \A d : Sends(d)' = Sends(d)
      /\ prog # "daytime"
  BY <1>2, <1>3, TakeBags
<1>5. m \in Answers /\ m.from = c
  BY <1>1, <1>2 DEF TypeOK, Answers, Own
<1>6. TypeOK'
  BY <1>1, <1>3, <1>4 DEF TypeOK
<1>7. Types'
  <2>1. last' \in [Ports -> Answers]
    BY <1>1, <1>2, <1>5 DEF Types
  <2>2. \A d \in Ports : cpc'[d] = "stdin" => cpc[d] = "stdin"
    BY <1>1, <1>3 DEF TypeOK
  <2>. QED  BY <1>1, <1>3, <1>4, <1>6, <2>1, <2>2 DEF Types
<1>8. Polling'
  <2>1. prog # "ch8"
    BY <1>1, <1>3 DEF Polling
  <2>2. \A d \in Ports : cpc'[d] \in {"out", "wait"} /\ revents'[d] = {}
    BY <1>1, <1>3, <2>1 DEF Polling, TypeOK
  <2>. QED  BY <1>3, <2>1, <2>2 DEF Polling
<1>9. Own'
  <2>1. last'[c] = m /\ \A d \in Ports : d # c => last'[d] = last[d] /\ cpc'[d] = cpc[d]
    BY <1>1, <1>2, <1>3 DEF Types, TypeOK
  <2>2. ASSUME NEW d \in Ports, Single(d)' PROVE Alone(d)'
    <3>1. Single(d) /\ Alone(d)
      BY <1>1, <1>3, <2>2 DEF Own, Single
    <3>2. CASE d = c
      <4>1. /\ Fits(c, m) /\ answers[m] = 1 /\ ~Held1(c)
            /\ \A x \in DOMAIN requests : x.from # c
            /\ \A x \in DOMAIN answers : x.from = c => x = m
        BY <1>2, <1>5, <3>1, <3>2 DEF Alone
      <4>2. \A x \in DOMAIN answers' : x.from # c
        BY <1>4, <4>1 DEF Less
      <4>3. Fits(c, last[c])'
        BY <1>3, <2>1, <4>1 DEF Fits
      <4>4. ~Held1(c)'
        BY <1>3, <4>1 DEF Held1
      <4>. QED  BY <1>3, <3>2, <4>1, <4>2, <4>3, <4>4 DEF Alone
    <3>3. CASE d # c
      <4>1. \A x \in DOMAIN answers' :
              x.from = d => x \in DOMAIN answers /\ answers'[x] = answers[x]
        BY <1>4, <1>5, <3>3 DEF Less
      <4>. QED  BY <1>3, <1>4, <2>1, <3>1, <3>3, <4>1 DEF Alone, Held1, Fits
    <3>. QED  BY <3>2, <3>3
  <2>3. \A d \in Ports : last'[d].from = d
    BY <1>1, <1>5, <2>1 DEF Own
  <2>. QED  BY <1>1, <1>4, <2>2, <2>3 DEF Own
<1>. QED  BY <1>4, <1>7, <1>8, <1>9 DEF IInv

\* The poll() loop shows an answer, and goes back to poll().
LEMMA SockKeeps ==
  ASSUME IInv, NEW c \in Ports, Sock(c)
  PROVE  IInv'
<1>. USE DEF server
<1>1. Types /\ Polling /\ Conserved /\ Own /\ TypeOK /\ AllBags
  BY DEF IInv, Types
<1>2. PICK m \in DOMAIN answers :
        m.to = c /\ answers' = BagRemove(answers, m) /\ shown' = BagAdd(shown, ItemOf(m))
  BY DEF Sock, Take, BagToSet
<1>3. /\ cpc[c] = "sock" /\ cpc' = [cpc EXCEPT ![c] = "poll"] /\ revents' = [revents EXCEPT ![c] = {}]
      /\ UNCHANGED <<prog, server, open, text, asked, eof, last, killed, requests, now, sent, copies,
                     lost>>
  BY DEF Sock
<1>4. /\ AllBags' /\ Conserved' /\ DOMAIN shown' \subseteq Items
      /\ Less(answers, m, answers') /\ DOMAIN answers' \subseteq DOMAIN answers
      /\ \A d : Sends(d)' = Sends(d)
      /\ prog # "daytime"
  BY <1>2, <1>3, TakeBags
<1>5. prog = "ch8"
  BY <1>1, <1>3 DEF Polling
<1>6. TypeOK'
  BY <1>1, <1>3, <1>4 DEF TypeOK
<1>7. Types'
  <2>1. \A d \in Ports : cpc'[d] = "stdin" => cpc[d] = "stdin"
    BY <1>1, <1>3 DEF TypeOK
  <2>. QED  BY <1>1, <1>3, <1>4, <1>6, <2>1 DEF Types
<1>8. Polling'
  <2>1. ASSUME NEW d \in Ports, d # c, Readable(d) PROVE Readable(d)'
    <3>1. PICK x \in DOMAIN answers : x.to = d
      BY <2>1 DEF Readable, BagToSet
    <3>2. x \in DOMAIN answers'
      BY <1>2, <1>4, <2>1, <3>1 DEF Less
    <3>. QED  BY <1>3, <2>1, <3>1, <3>2 DEF Readable, BagToSet
  <2>2. cpc'[c] = "poll" /\ revents'[c] = {}
    BY <1>1, <1>3 DEF TypeOK
  <2>3. \A d \in Ports : d # c => cpc'[d] = cpc[d] /\ revents'[d] = revents[d]
    BY <1>1, <1>3 DEF TypeOK
  <2>. QED  BY <1>1, <1>3, <1>5, <2>1, <2>2, <2>3 DEF Polling
<1>9. Own'
  BY <1>1, <1>3, <1>4, <1>5, OwnOfMany
<1>. QED  BY <1>4, <1>7, <1>8, <1>9 DEF IInv

\* Nothing that is counted changes.
Quiet ==
  UNCHANGED <<prog, spc, bound, res, buffer, client_addr, boots, text, asked, last, requests, answers,
              now, sent, copies, lost, shown>>

\* Then the counts, and the bounds on them, are as they were.
LEMMA QuietKeeps ==
  ASSUME IInv, Quiet, TypeOK', \A c \in Ports : cpc'[c] = "stdin" => Sends(c) < MaxSends[c]
  PROVE  Types' /\ Conserved'
<1>1. Types /\ AllBags
  BY DEF IInv, Types
<1>2. \A c : Sends(c)' = Sends(c)
  BY SendsAre DEF Quiet
<1>3. AllBags'
  BY <1>1 DEF AllBags, Quiet
<1>4. Types'
  BY <1>1, <1>2, <1>3 DEF Types, Quiet
<1>5. ASSUME NEW e \in Items PROVE Held(e)' = Held(e)
  BY DEF Held, Quiet
<1>6. Conserved'
  BY <1>5, Sums, Balance DEF Quiet
<1>. QED  BY <1>4, <1>6

\* The poll() loop is started.
LEMMA PollClientKeeps ==
  ASSUME IInv, NEW c \in Ports, PollClient(c)
  PROVE  IInv'
<1>. USE DEF server, record
<1>1. Types /\ Polling /\ Own /\ TypeOK /\ Quiet
  BY DEF IInv, Types, PollClient, Quiet
<1>2. TypeOK'
  BY <1>1 DEF TypeOK, PollClient
<1>3. cpc'[c] = "poll" /\ \A d \in Ports : d # c => cpc'[d] = cpc[d]
  BY <1>1 DEF TypeOK, PollClient
<1>4. Types' /\ Conserved'
  BY <1>1, <1>2, <1>3, QuietKeeps DEF Types
<1>5. Polling'
  <2>1. \A d \in Ports : Readable(d)' = Readable(d)
    BY DEF Readable, PollClient
  <2>. QED  BY <1>1, <1>3, <2>1 DEF Polling, PollClient
<1>6. Own'
  BY <1>1, OwnOfMany DEF PollClient
<1>. QED  BY <1>4, <1>5, <1>6 DEF IInv

\* What poll() returns is ready: a line that may be sent, or a datagram.
LEMMA PollKeeps ==
  ASSUME IInv, NEW c \in Ports, Poll(c)
  PROVE  IInv'
<1>. USE DEF server, record
<1>1. Types /\ Polling /\ Own /\ TypeOK /\ Quiet
  BY DEF IInv, Types, Poll, Quiet
<1>2. PICK r \in SUBSET Ready(c) :
        /\ r # {} /\ revents' = [revents EXCEPT ![c] = r]
        /\ cpc' = [cpc EXCEPT ![c] = IF "stdin" \in r THEN "stdin" ELSE "sock"]
  BY DEF Poll
<1>3. /\ r \subseteq {"stdin", "sock"} /\ ("sock" \in r => Readable(c))
      /\ ("stdin" \in r => Sends(c) < MaxSends[c])
  BY <1>2 DEF Ready
<1>4. TypeOK'
  BY <1>1, <1>2, <1>3 DEF TypeOK, Poll
<1>5. /\ cpc'[c] = (IF "stdin" \in r THEN "stdin" ELSE "sock") /\ revents'[c] = r
      /\ \A d \in Ports : d # c => cpc'[d] = cpc[d] /\ revents'[d] = revents[d]
  BY <1>1, <1>2 DEF TypeOK
<1>6. \A d \in Ports : cpc'[d] = "stdin" => Sends(d) < MaxSends[d]
  BY <1>1, <1>3, <1>5 DEF Types
<1>7. Types' /\ Conserved'
  BY <1>1, <1>4, <1>6, QuietKeeps
<1>8. prog = "ch8" /\ UNCHANGED <<prog, last, answers, open>>
  BY <1>1 DEF Polling, Poll
<1>9. Polling'
  <2>1. \A d \in Ports : Readable(d)' = Readable(d)
    BY <1>8 DEF Readable
  <2>2. "stdin" \notin r => "sock" \in r
    BY <1>2, <1>3
  <2>. QED  BY <1>1, <1>3, <1>5, <1>8, <2>1, <2>2 DEF Polling
<1>10. Own'
  BY <1>1, <1>8, OwnOfMany
<1>. QED  BY <1>7, <1>9, <1>10 DEF IInv

\* A client that is ended while it waits leaves its port unclean.
LEMMA KillKeeps ==
  ASSUME IInv, NEW c \in Ports, Kill(c)
  PROVE  IInv'
<1>. USE DEF server, record
<1>1. Types /\ Polling /\ Own /\ TypeOK /\ Quiet
  BY DEF IInv, Types, Kill, Quiet
<1>2. TypeOK'
  BY <1>1 DEF TypeOK, Kill
<1>3. /\ cpc'[c] = "out" /\ revents'[c] = {} /\ prog' = prog
      /\ \A d \in Ports : d # c => cpc'[d] = cpc[d] /\ revents'[d] = revents[d] /\ open'[d] = open[d]
  BY <1>1 DEF TypeOK, Kill
<1>4. Types' /\ Conserved'
  BY <1>1, <1>2, <1>3, QuietKeeps DEF Types
<1>5. Polling'
  <2>1. \A d \in Ports : d # c => Readable(d)' = Readable(d)
    BY <1>1, <1>3 DEF Readable, Quiet
  <2>. QED  BY <1>1, <1>3, <2>1 DEF Polling
<1>6. Own'
  <2>1. ASSUME NEW d \in Ports, Single(d)' PROVE Alone(d)'
    <3>1. Single(d) /\ Alone(d)
      BY <1>1, <2>1 DEF Own, Single, Kill
    <3>2. d # c
      <4>1. cpc[c] = "wait"
        BY <1>1, <2>1, <3>1 DEF Polling, Kill, Single
      <4>. QED  BY <2>1, <4>1 DEF Single, Kill
    <3>. QED  BY <1>1, <1>3, <3>1, <3>2 DEF Alone, Held1, Fits, Quiet
  <2>. QED  BY <1>1, <2>1 DEF Own, Quiet
<1>. QED  BY <1>4, <1>5, <1>6 DEF IInv
-----------------------------------------------------------------------------
(* The theorems.                                                           *)

\* The invariant holds at the start: nothing was ever sent.
LEMMA Initially ==
  Init => IInv
<1>. SUFFICES ASSUME Init PROVE IInv
  OBVIOUS
<1>1. \A c \in Ports : MaxSends[c] \in Nat /\ 0 \in Texts
  BY DatagramAssumption DEF Texts
<1>2. last \in [Ports -> Answers]
  BY <1>1, DatagramAssumption DEF Init, Answers
<1>3. AllBags
  BY NothingIn DEF Init, AllBags
<1>4. \A c : Sends(c) = 0
  BY NothingIn, SendsAre DEF Init
<1>5. TypeOK
  <2>1. 0 \in 0 .. MaxClock /\ 0 \in 0 .. MaxBoots /\ 1 \in 1 .. Addrs
    BY DatagramAssumption
  <2>2. text \in [Ports -> Texts] /\ asked \in [Ports -> 0 .. MaxClock]
    BY <1>1, <2>1 DEF Init
  <2>3. \A b \in {sent, copies, lost, shown} : DOMAIN b \subseteq Items
    BY NothingIn DEF Init
  <2>4. DOMAIN requests \subseteq Items /\ answers = EmptyBag /\ DOMAIN answers = {}
    BY NothingIn DEF Init
  <2>. QED  BY <2>1, <2>2, <2>3, <2>4 DEF Init, TypeOK
<1>6. Types
  BY <1>1, <1>2, <1>3, <1>4, <1>5, DatagramAssumption DEF Init, Types
<1>7. Polling
  BY DEF Init, Polling
<1>8. Conserved
  <2>1. ASSUME NEW e \in Items PROVE UnderWay(e) = 0 /\ Held(e) = 0
    <3>1. UnderWay(e) = UnderIn(answers, e)
      BY DEF UnderWay, UnderIn, Under
    <3>. QED  BY <3>1, NothingIn DEF Init, Held
  <2>. QED  BY <2>1, NothingIn DEF Conserved, Init
<1>9. Own
  BY NothingIn, DatagramAssumption DEF Init, Own, Alone, Fits, Held1
<1>. QED  BY <1>6, <1>7, <1>8, <1>9 DEF IInv

\* The invariant is inductive.
LEMMA Inductive ==
  IInv /\ [Next]_vars => IInv'
<1>. SUFFICES ASSUME IInv, [Next]_vars PROVE IInv'
  OBVIOUS
<1>0. Types /\ TypeOK
  BY DEF IInv, Types
<1>1. CASE Boot \/ SettingUp
  BY <1>0, <1>1, Starting, StartKeeps
<1>2. CASE Receive
  BY <1>2, ReceiveKeeps
<1>3. CASE Answering
  BY <1>3, ReplyKeeps DEF Answering, Ch8Reply, EchoReply, TimeReply
<1>4. CASE Die
  BY <1>4, DieKeeps
<1>5. CASE Refuse \/ Lose
  BY <1>5, LoseKeeps
<1>6. CASE Copy
  BY <1>6, CopyKeeps
<1>7. CASE Tick
  BY <1>7, TickKeeps
<1>8. ASSUME NEW c \in Ports,
             Asking(c) \/ Show(c) \/ PollClient(c) \/ Poll(c) \/ Stdin(c) \/ Sock(c) \/ Kill(c)
      PROVE  IInv'
  BY <1>8, AskKeeps, ShowKeeps, PollClientKeeps, PollKeeps, StdinKeeps, SockKeeps, KillKeeps
<1>9. CASE UNCHANGED vars
  <2>1. Quiet /\ UNCHANGED <<cpc, open, revents, eof, killed>>
    BY <1>9 DEF vars, server, client, record, Quiet
  <2>2. TypeOK'
    BY <1>0, <2>1 DEF TypeOK, Quiet
  <2>3. Types' /\ Conserved'
    BY <1>0, <2>1, <2>2, QuietKeeps DEF Types
  <2>4. Polling'
    BY <2>1, PollingKept DEF IInv, Quiet
  <2>5. Own'
    BY <2>1 DEF IInv, Own, Single, Alone, Held1, Fits, Quiet
  <2>. QED  BY <2>3, <2>4, <2>5 DEF IInv
<1>. QED  BY <1>1, <1>2, <1>3, <1>4, <1>5, <1>6, <1>7, <1>8, <1>9 DEF Next

\* Every variable has its type, and no bound is passed.
THEOREM TypeCorrect ==
  Spec => []TypeOK
<1>1. IInv => TypeOK
  BY DEF IInv, Types
<1>. QED  BY <1>1, Initially, Inductive, PTL DEF Spec

\* One request is one answer, of its own client: whatever the network loses, repeats
\* and reorders, and whichever of servers and clients end.
THEOREM OneEach ==
  Spec => []OneAnswer
<1>1. IInv => OneAnswer
  <2>. SUFFICES ASSUME IInv PROVE OneAnswer
    OBVIOUS
  <2>1. Conserved /\ \A m \in BagToSet(answers) : m.to = m.from
    BY DEF IInv, Own, BagToSet
  <2>2. ASSUME NEW c \in Ports
        PROVE  /\ last[c].from = c
               /\ (prog # "ch8" /\ cpc[c] = "out" /\ c \notin killed
                     /\ \A k \in Texts : Item(c, k) \notin DOMAIN copies)
                    => last[c].text = text[c] /\ last[c].time >= asked[c]
    BY DEF IInv, Own, Single, Alone, Fits
  <2>. QED  BY <2>1, <2>2 DEF OneAnswer, OwnAnswer
<1>. QED  BY <1>1, Initially, Inductive, PTL DEF Spec

\* The poll() loop calls recvfrom() only when a datagram is there: it never blocks in
\* it, whatever is lost meanwhile. It is the safety half of Responsive.
THEOREM NeverBlocks ==
  Spec => [](\A c \in Ports : cpc[c] = "sock" => Readable(c))
<1>1. IInv => \A c \in Ports : cpc[c] = "sock" => Readable(c)
  BY DEF IInv, Polling
<1>. QED  BY <1>1, Initially, Inductive, PTL DEF Spec

-----------------------------------------------------------------------------
(* MarketFeed: the inductive invariant.                                    *)

Grams ==
  [group : Groups, type : {"P", "T"}, size : {0, Header, Update}, pub : Pubs \cup {Nobody},
   run : 0 .. MaxRuns, seq : 0 .. MaxSeq, time : Nat]
Packets == [n : Nat, m : Grams]
Shown   == [n : Nat, m : Updates, latency : 0 .. Word - 1, clock : 0 .. MaxNow]

FeedTypes ==
  /\ seq \in [Pubs -> 0 .. MaxSeq + 1] /\ run \in [Pubs -> 0 .. MaxRuns]
  /\ \A p \in Pubs : seq[p] > 0 => run[p] > 0
  /\ spot \in [Subs -> {"out", "join", "recv"}] /\ clock \in 0 .. MaxNow /\ arrived \in Nat
  /\ ahead \in Ahead /\ copied \in Nat /\ IsABag(air) /\ DOMAIN air \subseteq Grams
  /\ sock \in [Subs -> Seq(Packets)] /\ \A s \in Subs : Len(sock[s]) <= SockRoom
  /\ lines \in [Subs -> Seq(Shown)] /\ heard \in [Subs -> SUBSET Nat]

\* What is on its way has been published, or is no update at all.
Published(m) ==
  \/ m.run < run[m.pub]
  \/ m.run = run[m.pub] /\ (seq[m.pub] = 0 \/ m.seq < seq[m.pub])
IsUpd(m)   == m \in Updates /\ m.time <= MaxNow + ahead /\ Published(m)
IsOther(m) == m.pub = Nobody /\ ~(m.type = "P" /\ m.size = Update)
Known(m)   == IsUpd(m) \/ IsOther(m)

AllKnown ==
  /\ \A m \in DOMAIN air : Known(m)
  /\ \A s \in Subs :
       /\ \A i \in 1 .. Len(sock[s]) : Known(sock[s][i].m)
       /\ \A i \in 1 .. Len(lines[s]) : IsUpd(lines[s][i].m)

\* The numbers of what is printed and waits, in one order.
Rising(s) ==
  /\ \A i \in 1 .. Len(lines[s]) : lines[s][i].n \in 1 .. arrived
  /\ \A i \in 1 .. Len(sock[s]) : sock[s][i].n \in 1 .. arrived
  /\ \A i, j \in 1 .. Len(lines[s]) : i < j => lines[s][i].n < lines[s][j].n
  /\ \A i, j \in 1 .. Len(sock[s]) : i < j => sock[s][i].n < sock[s][j].n
  /\ \A i \in 1 .. Len(lines[s]), j \in 1 .. Len(sock[s]) : lines[s][i].n < sock[s][j].n
Complete(s) ==
  \A k : k \in heard[s] <=>
    \/ \E i \in 1 .. Len(lines[s]) : k = lines[s][i].n
    \/ \E i \in 1 .. Len(sock[s]) : sock[s][i].m.pub # Nobody /\ k = sock[s][i].n

\* A copy is printed, waits, or is on its way.
NumIn(q, m) == Cardinality({i \in 1 .. Len(q) : q[i].m = m})
FewCopies(s) ==
  \A m \in Updates : NumIn(lines[s], m) + NumIn(sock[s], m) + Count(m, air) <= 1 + copied

Timed(s) ==
  \A i \in 1 .. Len(lines[s]) : lines[s][i].latency > MaxNow <=> lines[s][i].clock < lines[s][i].m.time

FeedInv ==
  FeedTypes /\ AllKnown /\ \A s \in Subs : Rising(s) /\ Complete(s) /\ FewCopies(s) /\ Timed(s)

-----------------------------------------------------------------------------
(* Sequences that grow at the end, and are taken from at the front.        *)

Longer(q, x, t) ==
  Len(t) = Len(q) + 1 /\ t[Len(q) + 1] = x /\ \A i \in 1 .. Len(q) : t[i] = q[i]
Shorter(q, t) == Len(q) = Len(t) + 1 /\ \A i \in 1 .. Len(t) : t[i] = q[i + 1]

\* Where m is in q.
Occ(q, m) == {i \in 1 .. Len(q) : q[i].m = m}

\* How many elements of a sequence are m: a number, and 0 if none is.
LEMMA Occurs ==
  ASSUME NEW S, NEW q \in Seq(S), NEW m
  PROVE  /\ Len(q) \in Nat /\ NumIn(q, m) = Cardinality(Occ(q, m)) /\ IsFiniteSet(Occ(q, m))
         /\ NumIn(q, m) \in Nat
         /\ (\A i \in 1 .. Len(q) : q[i].m # m) => NumIn(q, m) = 0
<1>1. Len(q) \in Nat
  BY LenProperties
<1>2. NumIn(q, m) = Cardinality(Occ(q, m))
  BY Zenon DEF NumIn, Occ
<1>3. IsFiniteSet(1 .. Len(q))
  BY <1>1, FS_Interval
<1>4. Occ(q, m) \subseteq 1 .. Len(q)
  BY DEF Occ
<1>5. IsFiniteSet(Occ(q, m))
  BY <1>3, <1>4, FS_Subset, Zenon
<1>6. Cardinality(Occ(q, m)) \in Nat
  BY <1>5, FS_CardinalityType
<1>7. ASSUME \A i \in 1 .. Len(q) : q[i].m # m PROVE NumIn(q, m) = 0
  <2>1. Occ(q, m) = {}
    BY <1>7 DEF Occ
  <2>2. Cardinality({}) = 0
    BY FS_EmptySet
  <2>. QED  BY <1>2, <2>1, <2>2, Zenon
<1>. QED  BY <1>1, <1>2, <1>5, <1>6, <1>7

\* One more at the end.
LEMMA OccursMore ==
  ASSUME NEW S, NEW q \in Seq(S), NEW t \in Seq(S), NEW x, Longer(q, x, t), NEW m
  PROVE  NumIn(t, m) = NumIn(q, m) + (IF x.m = m THEN 1 ELSE 0)
<1>1. PICK n \in Nat : n = Len(q)
  BY Occurs
<1>2. Len(t) = n + 1 /\ t[n + 1] = x /\ \A i \in 1 .. n : t[i] = q[i]
  BY <1>1 DEF Longer
<1>3. /\ NumIn(t, m) = Cardinality(Occ(t, m)) /\ NumIn(q, m) = Cardinality(Occ(q, m))
      /\ IsFiniteSet(Occ(q, m)) /\ NumIn(q, m) \in Nat
  BY Occurs
<1>4. CASE x.m = m
  <2>1. Occ(t, m) = Occ(q, m) \cup {n + 1} /\ n + 1 \notin Occ(q, m)
    BY <1>1, <1>2, <1>4 DEF Occ
  <2>2. Cardinality(Occ(t, m)) = Cardinality(Occ(q, m)) + 1
    BY <1>3, <2>1, OneMore, Zenon
  <2>. QED  BY <1>3, <1>4, <2>2
<1>5. CASE x.m # m
  <2>1. Occ(t, m) = Occ(q, m)
    BY <1>1, <1>2, <1>5 DEF Occ
  <2>2. NumIn(t, m) = NumIn(q, m)
    BY <1>3, <2>1, Zenon
  <2>. QED  BY <1>3, <1>5, <2>2
<1>. QED  BY <1>4, <1>5

\* One less at the front.
LEMMA OccursLess ==
  ASSUME NEW S, NEW q \in Seq(S), NEW t \in Seq(S), Shorter(q, t), NEW m
  PROVE  NumIn(q, m) = NumIn(t, m) + (IF q[1].m = m THEN 1 ELSE 0)
<1>1. PICK n \in Nat : n = Len(t)
  BY Occurs
<1>2. Len(q) = n + 1 /\ \A i \in 1 .. n : t[i] = q[i + 1]
  BY <1>1 DEF Shorter
<1>3. /\ NumIn(t, m) = Cardinality(Occ(t, m)) /\ NumIn(q, m) = Cardinality(Occ(q, m))
      /\ IsFiniteSet(Occ(q, m)) /\ IsFiniteSet(Occ(t, m)) /\ NumIn(t, m) \in Nat
  BY Occurs
<1>4. PICK R : R = {i \in 2 .. n + 1 : q[i].m = m}
  OBVIOUS
<1>5. ExistsBijection(Occ(t, m), R)
  <2>1. PICK f : f = [i \in Occ(t, m) |-> i + 1]
    OBVIOUS
  <2>2. \A i \in Occ(t, m) : i \in 1 .. n /\ i \in Int
    BY <1>1 DEF Occ
  <2>3. f \in [Occ(t, m) -> R]
    <3>1. ASSUME NEW i \in Occ(t, m) PROVE i + 1 \in R
      <4>1. i \in 1 .. n /\ t[i].m = m
        BY <1>1 DEF Occ
      <4>. QED  BY <1>2, <1>4, <4>1
    <3>. QED  BY <2>1, <3>1
  <2>4. \A i, j \in Occ(t, m) : f[i] = f[j] => i = j
    BY <2>1, <2>2
  <2>5. ASSUME NEW k \in R PROVE \E i \in Occ(t, m) : f[i] = k
    <3>1. k \in 2 .. n + 1 /\ q[k].m = m
      BY <1>4
    <3>2. k - 1 \in 1 .. n /\ (k - 1) + 1 = k
      BY <3>1
    <3>3. t[k - 1].m = m
      BY <1>2, <3>1, <3>2
    <3>4. k - 1 \in Occ(t, m)
      BY <1>1, <3>2, <3>3 DEF Occ
    <3>5. f[k - 1] = k
      BY <2>1, <3>2, <3>4
    <3>. QED  BY <3>4, <3>5
  <2>6. f \in Bijection(Occ(t, m), R)
    BY <2>3, <2>4, <2>5, Fun_IsBij
  <2>. QED  BY <2>6, Zenon DEF ExistsBijection
<1>6. IsFiniteSet(R) /\ Cardinality(R) = Cardinality(Occ(t, m))
  BY <1>3, <1>5, FS_Bijection, Zenon
<1>7. CASE q[1].m = m
  <2>1. Occ(q, m) = R \cup {1} /\ 1 \notin R
    BY <1>2, <1>4, <1>7 DEF Occ
  <2>2. Cardinality(Occ(q, m)) = Cardinality(R) + 1
    BY <1>6, <2>1, OneMore, Zenon
  <2>. QED  BY <1>3, <1>6, <1>7, <2>2
<1>8. CASE q[1].m # m
  <2>1. Occ(q, m) = R
    BY <1>2, <1>4, <1>8 DEF Occ
  <2>2. NumIn(q, m) = NumIn(t, m)
    BY <1>3, <1>6, <2>1, Zenon
  <2>. QED  BY <1>3, <1>8, <2>2
<1>. QED  BY <1>7, <1>8

\* An unsigned difference of two times that are not far apart: small, or absurd.
LEMMA Wraps ==
  ASSUME NEW W \in Nat, NEW a \in Nat, NEW b \in Nat, NEW N \in Nat, NEW h \in Nat,
         a <= N, b <= N + h, W > 2 * (N + h)
  PROVE  (a - b) % W \in 0 .. W - 1 /\ ((a - b) % W > N <=> a < b)
<1>1. CASE a >= b
  <2>1. (a - b) % W = a - b
    <3>1. a - b \in Int /\ 0 <= a - b /\ a - b < W /\ W > 0
      BY <1>1
    <3>. QED  BY <3>1
  <2>. QED  BY <1>1, <2>1
<1>2. CASE a < b
  <2>1. (a - b) % W = a - b + W
    <3>1. a - b + W \in Int /\ 0 <= a - b + W /\ a - b + W < W /\ W > 0
      BY <1>2
    <3>2. PICK x \in Int : x = a - b + W
      BY <3>1
    <3>3. (x - W) % W = x
      BY <3>1, <3>2
    <3>4. x - W = a - b
      BY <3>2
    <3>. QED  BY <3>2, <3>3, <3>4
  <2>. QED  BY <1>2, <2>1
<1>. QED  BY <1>1, <1>2

-----------------------------------------------------------------------------
(* What is enough for the parts of the invariant.                          *)

\* The bounds are numbers.
LEMMA FeedNumbers ==
  ASSUME FeedTypes
  PROVE  /\ MaxSeq \in Nat /\ MaxRuns \in Nat /\ MaxNow \in Nat /\ ahead \in Nat /\ clock \in Nat
         /\ Word \in Nat /\ Word > 2 * (MaxNow + ahead)
BY FeedAssumption DEF FeedTypes, Numbers

\* A subscriber's sequences.
LEMMA FeedSeqs ==
  ASSUME FeedTypes, NEW s \in Subs
  PROVE  /\ sock[s] \in Seq(Packets) /\ lines[s] \in Seq(Shown) /\ heard[s] \subseteq Nat
         /\ Len(sock[s]) \in Nat /\ Len(lines[s]) \in Nat
         /\ \A i \in 1 .. Len(sock[s]) : sock[s][i] \in Packets
         /\ \A i \in 1 .. Len(lines[s]) : lines[s][i] \in Shown
<1>1. sock[s] \in Seq(Packets) /\ lines[s] \in Seq(Shown) /\ heard[s] \subseteq Nat
  BY DEF FeedTypes
<1>2. Len(sock[s]) \in Nat /\ Len(lines[s]) \in Nat
  BY <1>1, LenProperties
<1>3. \A i \in 1 .. Len(sock[s]) : sock[s][i] \in Packets
  BY <1>1, ElementOfSeq
<1>4. \A i \in 1 .. Len(lines[s]) : lines[s][i] \in Shown
  BY <1>1, ElementOfSeq
<1>. QED  BY <1>1, <1>2, <1>3, <1>4

\* A step in which nothing arrives and nobody reads.
HostStill == UNCHANGED <<sock, lines, heard, arrived>>

\* It leaves what the subscribers have, and keeps what is said of it.
LEMMA HostKept ==
  ASSUME FeedInv, HostStill, NEW s \in Subs
  PROVE  Rising(s)' /\ Complete(s)' /\ Timed(s)'
<1>1. Rising(s) /\ Complete(s) /\ Timed(s)
  BY DEF FeedInv
<1>2. Rising(s)'
  BY <1>1 DEF Rising, HostStill
<1>3. Complete(s)'
  BY <1>1 DEF Complete, HostStill
<1>4. Timed(s)'
  BY <1>1 DEF Timed, HostStill
<1>. QED  BY <1>2, <1>3, <1>4

\* And none is put on its way, or repeated.
LEMMA CopiesKept ==
  ASSUME FeedInv, UNCHANGED <<sock, lines, air, copied>>, NEW s \in Subs
  PROVE  FewCopies(s)'
<1>1. FewCopies(s)
  BY DEF FeedInv
<1>. QED  BY <1>1 DEF FewCopies, NumIn, Count

-----------------------------------------------------------------------------
(* The exchanges.                                                          *)

\* What was published stays published: a new run begins behind all the others.
LEMMA PublishedStays ==
  ASSUME FeedTypes, NEW p \in Pubs, StartExchange(p) \/ Publish(p) \/ StopExchange(p),
         NEW m, IsUpd(m)
  PROVE  IsUpd(m)'
<1>1. /\ m \in Updates /\ m.time <= MaxNow + ahead /\ Published(m)
      /\ m.pub \in Pubs /\ m.run \in Nat /\ m.seq \in Nat /\ m.seq > 0
  BY DEF IsUpd, Updates
<1>2. run[m.pub] \in Nat /\ seq[m.pub] \in Nat /\ ahead' = ahead
  <2>1. run[m.pub] \in Nat /\ seq[m.pub] \in Nat
    BY <1>1 DEF FeedTypes
  <2>. QED  BY <2>1 DEF StartExchange, Publish, StopExchange
<1>3. CASE m.pub # p
  <2>1. run'[m.pub] = run[m.pub] /\ seq'[m.pub] = seq[m.pub]
    BY <1>1, <1>3 DEF FeedTypes, StartExchange, Publish, StopExchange
  <2>. QED  BY <1>1, <1>2, <2>1 DEF IsUpd, Published
<1>4. CASE m.pub = p /\ StartExchange(p)
  <2>1. run'[p] = run[p] + 1
    BY <1>4 DEF FeedTypes, StartExchange
  <2>2. m.run < run'[p]
    BY <1>1, <1>2, <1>4, <2>1 DEF Published
  <2>. QED  BY <1>1, <1>2, <1>4, <2>2 DEF IsUpd, Published
<1>5. CASE m.pub = p /\ Publish(p)
  <2>1. run'[p] = run[p] /\ seq'[p] = seq[p] + 1 /\ seq[p] > 0
    BY <1>5 DEF FeedTypes, Publish, NextSeq
  <2>2. m.run < run'[p] \/ (m.run = run'[p] /\ m.seq < seq'[p])
    BY <1>1, <1>2, <1>5, <2>1 DEF Published
  <2>. QED  BY <1>1, <1>2, <1>5, <2>2 DEF IsUpd, Published
<1>6. CASE m.pub = p /\ StopExchange(p)
  <2>1. run'[p] = run[p] /\ seq'[p] = 0
    BY <1>6 DEF FeedTypes, StopExchange
  <2>2. m.run < run'[p] \/ (m.run = run'[p] /\ seq'[p] = 0)
    BY <1>1, <1>6, <2>1 DEF Published
  <2>. QED  BY <1>1, <1>2, <1>6, <2>2 DEF IsUpd, Published
<1>. QED  BY <1>3, <1>4, <1>5, <1>6

\* An exchange starts and stops.
LEMMA RunKeeps ==
  ASSUME FeedInv, NEW p \in Pubs, StartExchange(p) \/ StopExchange(p)
  PROVE  FeedInv'
<1>. USE DEF subscriber, effort
<1>1. FeedTypes /\ AllKnown
  BY DEF FeedInv
<1>2. UNCHANGED <<air, ahead, clock, arrived, spot, sock, packet, lines, heard, other, copied, fails>>
  BY DEF StartExchange, StopExchange
<1>3. /\ seq' \in [Pubs -> 0 .. MaxSeq + 1] /\ run' \in [Pubs -> 0 .. MaxRuns]
      /\ \A q \in Pubs : seq'[q] > 0 => run'[q] > 0
  <2>1. CASE StartExchange(p)
    <3>1. /\ run[p] \in 0 .. MaxRuns /\ run[p] < MaxRuns
          /\ seq' = [seq EXCEPT ![p] = 1] /\ run' = [run EXCEPT ![p] = run[p] + 1]
      BY <1>1, <2>1 DEF FeedTypes, StartExchange
    <3>2. run[p] + 1 \in 0 .. MaxRuns /\ run[p] + 1 > 0 /\ 1 \in 0 .. MaxSeq + 1
      BY <1>1, <3>1, FeedNumbers
    <3>. QED  BY <1>1, <3>1, <3>2 DEF FeedTypes
  <2>2. CASE StopExchange(p)
    <3>1. seq' = [seq EXCEPT ![p] = 0] /\ run' = run /\ 0 \in 0 .. MaxSeq + 1
      BY <1>1, <2>2, FeedNumbers DEF StopExchange
    <3>. QED  BY <1>1, <3>1 DEF FeedTypes
  <2>. QED  BY <2>1, <2>2
<1>4. FeedTypes'
  BY <1>1, <1>2, <1>3 DEF FeedTypes
<1>5. AllKnown'
  <2>1. \A m : IsUpd(m) => IsUpd(m)'
    BY <1>1, PublishedStays
  <2>2. \A m : Known(m) => Known(m)'
    BY <2>1 DEF Known, IsOther
  <2>. QED  BY <1>1, <1>2, <2>1, <2>2 DEF AllKnown
<1>6. \A s \in Subs : Rising(s)' /\ Complete(s)' /\ Timed(s)' /\ FewCopies(s)'
  BY <1>2, HostKept, CopiesKept DEF HostStill
<1>. QED  BY <1>4, <1>5, <1>6 DEF FeedInv

\* What is published was never published before: it is there once.
LEMMA PublishKeeps ==
  ASSUME FeedInv, NEW p \in Pubs, Publish(p)
  PROVE  FeedInv'
<1>. USE DEF subscriber, effort
<1>1. FeedTypes /\ AllKnown
  BY DEF FeedInv
<1>2. /\ UNCHANGED <<run, ahead, clock, arrived, spot, sock, packet, lines, heard, other, copied, fails>>
      /\ 0 < seq[p] /\ seq[p] <= MaxSeq /\ seq' = [seq EXCEPT ![p] = seq[p] + 1]
  BY DEF Publish, NextSeq
<1>3. PICK d : d = Datagram(Family[p], "P", Update, p, run[p], seq[p], clock + ahead)
  OBVIOUS
<1>4. air' = air \/ air' = BagAdd(air, d)
  BY <1>3 DEF Publish
<1>5. /\ d \in Updates /\ d \in Grams /\ d.pub = p /\ d.run = run[p] /\ d.seq = seq[p]
      /\ d.time <= MaxNow + ahead
  <2>1. run[p] \in 1 .. MaxRuns /\ seq[p] \in 1 .. MaxSeq
    BY <1>1, <1>2 DEF FeedTypes
  <2>2. Family[p] \in Groups
    BY FeedAssumption
  <2>3. clock + ahead \in Nat /\ clock + ahead <= MaxNow + ahead
    BY <1>1, FeedNumbers DEF FeedTypes
  <2>4. run[p] \in 0 .. MaxRuns /\ seq[p] \in 0 .. MaxSeq
    BY <2>1
  <2>. QED  BY <1>3, <2>1, <2>2, <2>3, <2>4 DEF Datagram, Updates, Grams
<1>6. ~Published(d) /\ IsUpd(d)'
  <2>1. run[p] \in Nat /\ seq[p] \in Nat /\ seq'[p] = seq[p] + 1 /\ run'[p] = run[p] /\ ahead' = ahead
    BY <1>1, <1>2 DEF FeedTypes
  <2>. QED  BY <1>2, <1>5, <2>1 DEF Published, IsUpd
<1>7. IsABag(air') /\ DOMAIN air' \subseteq DOMAIN air \cup {d}
  <2>1. CASE air' = air
    BY <1>1, <2>1 DEF FeedTypes
  <2>2. CASE air' = BagAdd(air, d)
    <3>1. IsABag(air') /\ More(air, d, air')
      BY <1>1, <2>2, Adding DEF FeedTypes
    <3>. QED  BY <3>1 DEF More
  <2>. QED  BY <1>4, <2>1, <2>2
<1>8. FeedTypes'
  <2>1. seq' \in [Pubs -> 0 .. MaxSeq + 1]
    <3>1. seq[p] + 1 \in 0 .. MaxSeq + 1
      BY <1>1, <1>2, FeedNumbers DEF FeedTypes
    <3>. QED  BY <1>1, <1>2, <3>1 DEF FeedTypes
  <2>2. \A q \in Pubs : seq'[q] > 0 => run'[q] > 0
    BY <1>1, <1>2 DEF FeedTypes
  <2>3. DOMAIN air' \subseteq Grams
    BY <1>1, <1>5, <1>7 DEF FeedTypes
  <2>. QED  BY <1>1, <1>2, <1>7, <2>1, <2>2, <2>3 DEF FeedTypes
<1>9. AllKnown'
  <2>1. \A m : IsUpd(m) => IsUpd(m)'
    BY <1>1, PublishedStays
  <2>2. \A m : Known(m) => Known(m)'
    BY <2>1 DEF Known, IsOther
  <2>3. Known(d)'
    BY <1>6 DEF Known
  <2>. QED  BY <1>1, <1>2, <1>7, <2>1, <2>2, <2>3 DEF AllKnown
<1>10. \A m : Known(m) => m # d
  BY <1>5, <1>6, FeedAssumption DEF Known, IsUpd, IsOther
<1>11. ASSUME NEW s \in Subs PROVE FewCopies(s)'
  <2>1. FewCopies(s) /\ copied \in Nat
    BY <1>1 DEF FeedInv, FeedTypes
  <2>2. ASSUME NEW m \in Updates
        PROVE  NumIn(lines[s], m) + NumIn(sock[s], m) + Count(m, air') <= 1 + copied
    <3>1. CASE m # d
      <4>1. Count(m, air') = Count(m, air)
        BY <1>1, <1>4, <3>1, Counting DEF FeedTypes
      <4>. QED  BY <2>1, <4>1 DEF FewCopies
    <3>2. CASE m = d
      <4>1. /\ \A i \in 1 .. Len(lines[s]) : lines[s][i].m # m
            /\ \A i \in 1 .. Len(sock[s]) : sock[s][i].m # m
        BY <1>1, <1>10, <3>2 DEF AllKnown, Known
      <4>2. NumIn(lines[s], m) = 0 /\ NumIn(sock[s], m) = 0
        BY <1>1, <4>1, FeedSeqs, Occurs
      <4>3. Count(m, air) = 0
        BY <1>1, <1>10, <3>2 DEF AllKnown, Count
      <4>4. Count(m, air') <= 1
        BY <1>1, <1>4, <3>2, <4>3, Counting DEF FeedTypes
      <4>5. Count(m, air') \in Nat
        BY <1>7, Counting
      <4>. QED  BY <2>1, <4>2, <4>4, <4>5
    <3>. QED  BY <3>1, <3>2
  <2>3. \A m : NumIn(lines[s], m)' = NumIn(lines[s], m) /\ NumIn(sock[s], m)' = NumIn(sock[s], m)
    BY <1>2 DEF NumIn
  <2>4. \A m : Count(m, air)' = Count(m, air')
    BY DEF Count
  <2>5. \A m \in Updates :
          NumIn(lines[s], m)' + NumIn(sock[s], m)' + Count(m, air)' <= 1 + copied'
    BY <1>2, <2>2, <2>3, <2>4
  <2>. QED  BY <2>5 DEF FewCopies
<1>12. \A s \in Subs : Rising(s)' /\ Complete(s)' /\ Timed(s)'
  BY <1>2, HostKept DEF HostStill
<1>. QED  BY <1>8, <1>9, <1>11, <1>12 DEF FeedInv

-----------------------------------------------------------------------------
(* The network and the subscribers' host.                                  *)

\* What others send is no update.
LEMMA OtherKeeps ==
  ASSUME FeedInv, SendOther
  PROVE  FeedInv'
<1>. USE DEF subscriber, exchange
<1>1. FeedTypes /\ AllKnown
  BY DEF FeedInv
<1>2. UNCHANGED <<seq, run, ahead, clock, arrived, spot, sock, packet, lines, heard, copied, fails>>
  BY DEF SendOther
<1>3. PICK o \in Others : air' = BagAdd(air, Datagram(o[1], o[2], o[3], Nobody, 0, 0, 0))
  BY DEF SendOther
<1>4. PICK d : d = Datagram(o[1], o[2], o[3], Nobody, 0, 0, 0)
  OBVIOUS
<1>5. /\ o[1] \in Groups /\ o[2] \in {"P", "T"} /\ o[3] \in {0, Header, Update}
      /\ ~(o[2] = "P" /\ o[3] = Update)
  BY FeedAssumption
<1>6. d \in Grams /\ IsOther(d)
  <2>1. 0 \in 0 .. MaxRuns /\ 0 \in 0 .. MaxSeq
    BY <1>1, FeedNumbers
  <2>. QED  BY <1>4, <1>5, <2>1 DEF Datagram, Grams, IsOther
<1>7. air' = BagAdd(air, d)
  BY <1>3, <1>4, Zenon
<1>8. IsABag(air') /\ DOMAIN air' = DOMAIN air \cup {d}
  <2>1. IsABag(air') /\ More(air, d, air')
    BY <1>1, <1>7, Adding DEF FeedTypes
  <2>. QED  BY <2>1 DEF More
<1>9. FeedTypes'
  BY <1>1, <1>2, <1>6, <1>8 DEF FeedTypes
<1>10. AllKnown'
  <2>1. \A m : IsUpd(m) => IsUpd(m)'
    BY <1>2 DEF IsUpd, Published
  <2>2. \A m : Known(m) => Known(m)'
    BY <2>1 DEF Known, IsOther
  <2>3. Known(d)'
    BY <1>6 DEF Known, IsOther
  <2>. QED  BY <1>1, <1>2, <1>8, <2>1, <2>2, <2>3 DEF AllKnown
<1>11. ASSUME NEW s \in Subs PROVE FewCopies(s)'
  <2>1. FewCopies(s)
    BY DEF FeedInv
  <2>2. ASSUME NEW m \in Updates PROVE Count(m, air') = Count(m, air)
    <3>1. m # d
      BY <1>6, FeedAssumption DEF IsOther, Updates
    <3>. QED  BY <1>1, <1>7, <3>1, Counting DEF FeedTypes
  <2>3. \A m : NumIn(lines[s], m)' = NumIn(lines[s], m) /\ NumIn(sock[s], m)' = NumIn(sock[s], m)
    BY <1>2 DEF NumIn
  <2>4. \A m : Count(m, air)' = Count(m, air')
    BY DEF Count
  <2>. QED  BY <1>2, <2>1, <2>2, <2>3, <2>4 DEF FewCopies
<1>12. \A s \in Subs : Rising(s)' /\ Complete(s)' /\ Timed(s)'
  BY <1>2, HostKept DEF HostStill
<1>. QED  BY <1>9, <1>10, <1>11, <1>12 DEF FeedInv

\* A copy is one more of what is there.
LEMMA CopyOneKeeps ==
  ASSUME FeedInv, CopyOne
  PROVE  FeedInv'
<1>. USE DEF subscriber, exchange
<1>1. FeedTypes /\ AllKnown
  BY DEF FeedInv
<1>2. /\ UNCHANGED <<seq, run, ahead, clock, arrived, spot, sock, packet, lines, heard, other, fails>>
      /\ copied' = copied + 1 /\ copied \in Nat
  BY <1>1 DEF CopyOne, FeedTypes
<1>3. PICK d \in DOMAIN air : air' = BagAdd(air, d)
  BY DEF CopyOne, BagToSet
<1>4. IsABag(air') /\ DOMAIN air' = DOMAIN air
  <2>1. IsABag(air') /\ More(air, d, air')
    BY <1>1, <1>3, Adding DEF FeedTypes
  <2>. QED  BY <1>3, <2>1 DEF More
<1>5. FeedTypes'
  BY <1>1, <1>2, <1>4 DEF FeedTypes
<1>6. AllKnown'
  <2>1. \A m : (IsUpd(m) => IsUpd(m)') /\ (Known(m) => Known(m)')
    BY <1>2 DEF Known, IsUpd, IsOther, Published
  <2>. QED  BY <1>1, <1>2, <1>4, <2>1 DEF AllKnown
<1>7. ASSUME NEW s \in Subs PROVE FewCopies(s)'
  <2>1. FewCopies(s)
    BY DEF FeedInv
  <2>2. ASSUME NEW m \in Updates
        PROVE  NumIn(lines[s], m) + NumIn(sock[s], m) + Count(m, air') <= 1 + copied'
    <3>1. IsABag(air) /\ Count(m, air) \in Nat
      BY <1>1, Counting DEF FeedTypes
    <3>4. Count(m, air') = Count(m, air) + (IF m = d THEN 1 ELSE 0)
      BY <1>3, <3>1, Counting
    <3>2. NumIn(lines[s], m) \in Nat /\ NumIn(sock[s], m) \in Nat
      BY <1>1, FeedSeqs, Occurs
    <3>3. NumIn(lines[s], m) + NumIn(sock[s], m) + Count(m, air) <= 1 + copied
      BY <2>1 DEF FewCopies
    <3>. QED  BY <1>2, <3>1, <3>2, <3>3, <3>4
  <2>3. \A m : NumIn(lines[s], m)' = NumIn(lines[s], m) /\ NumIn(sock[s], m)' = NumIn(sock[s], m)
    BY <1>2 DEF NumIn
  <2>4. \A m : Count(m, air)' = Count(m, air')
    BY DEF Count
  <2>. QED  BY <2>2, <2>3, <2>4 DEF FewCopies
<1>8. \A s \in Subs : Rising(s)' /\ Complete(s)' /\ Timed(s)'
  BY <1>2, HostKept DEF HostStill
<1>. QED  BY <1>5, <1>6, <1>7, <1>8 DEF FeedInv

\* What arrives is put behind what waits, for each that hears it and has room.
LEMMA ArriveKeeps ==
  ASSUME FeedInv, Arrive
  PROVE  FeedInv'
<1>. USE DEF exchange, effort
<1>1. FeedTypes /\ AllKnown
  BY DEF FeedInv
<1>2. /\ UNCHANGED <<seq, run, ahead, clock, spot, packet, lines, other, copied, fails>>
      /\ arrived' = arrived + 1
  BY DEF Arrive
<1>3. PICK d \in DOMAIN air, takers \in SUBSET Subs :
        /\ \A s \in takers : Len(sock[s]) < SockRoom
        /\ air' = BagRemove(air, d)
        /\ sock' = [s \in Subs |->
             IF s \in takers THEN Append(sock[s], [n |-> arrived + 1, m |-> d]) ELSE sock[s]]
        /\ heard' = [s \in Subs |->
             IF s \in takers /\ d.pub # Nobody THEN heard[s] \cup {arrived + 1} ELSE heard[s]]
  <2>1. PICK d \in DOMAIN air :
          LET takers == {s \in Subs : Hears(s, d.group) /\ Len(sock[s]) < SockRoom} IN
          /\ air' = BagRemove(air, d)
          /\ sock' = [s \in Subs |->
               IF s \in takers THEN Append(sock[s], [n |-> arrived + 1, m |-> d]) ELSE sock[s]]
          /\ heard' = [s \in Subs |->
               IF s \in takers /\ d.pub # Nobody THEN heard[s] \cup {arrived + 1} ELSE heard[s]]
    BY DEF Arrive, BagToSet
  <2>2. PICK T : T = {s \in Subs : Hears(s, d.group) /\ Len(sock[s]) < SockRoom}
    OBVIOUS
  <2>3. T \in SUBSET Subs /\ \A s \in T : Len(sock[s]) < SockRoom
    BY <2>2
  <2>4. /\ sock' = [s \in Subs |->
             IF s \in T THEN Append(sock[s], [n |-> arrived + 1, m |-> d]) ELSE sock[s]]
        /\ heard' = [s \in Subs |->
             IF s \in T /\ d.pub # Nobody THEN heard[s] \cup {arrived + 1} ELSE heard[s]]
    BY <2>1, <2>2, Zenon
  <2>. QED  BY <2>1, <2>3, <2>4
<1>4. IsABag(air') /\ DOMAIN air' \subseteq DOMAIN air
  <2>1. IsABag(air') /\ Less(air, d, air')
    BY <1>1, <1>3, Removing DEF FeedTypes
  <2>. QED  BY <2>1 DEF Less
<1>5. PICK b : b = [n |-> arrived + 1, m |-> d]
  OBVIOUS
<1>6. b \in Packets /\ b.n = arrived + 1 /\ b.m = d /\ Known(d) /\ arrived \in Nat
  <2>1. d \in Grams /\ arrived + 1 \in Nat /\ arrived \in Nat
    BY <1>1, <1>3 DEF FeedTypes
  <2>. QED  BY <1>1, <1>5, <2>1 DEF Packets, AllKnown
<1>7. ASSUME NEW s \in Subs
      PROVE  /\ s \notin takers => sock'[s] = sock[s] /\ heard'[s] = heard[s]
             /\ s \in takers => /\ sock'[s] \in Seq(Packets) /\ Longer(sock[s], b, sock'[s])
                                /\ Len(sock[s]) < SockRoom
                                /\ d.pub # Nobody => heard'[s] = heard[s] \cup {arrived + 1}
                                /\ d.pub = Nobody => heard'[s] = heard[s]
  <2>1. CASE s \notin takers
    BY <1>3, <2>1
  <2>2. CASE s \in takers
    <3>1. sock'[s] = Append(sock[s], b)
      BY <1>3, <1>5, <2>2
    <3>2. sock[s] \in Seq(Packets)
      BY <1>1 DEF FeedTypes
    <3>3. PICK q \in Seq(Packets) : q = sock[s]
      BY <3>2
    <3>4. PICK t : t = Append(q, b)
      OBVIOUS
    <3>5. /\ t \in Seq(Packets) /\ Len(t) = Len(q) + 1 /\ t[Len(q) + 1] = b
          /\ \A i \in 1 .. Len(q) : t[i] = q[i]
      BY <1>6, <3>4, AppendProperties
    <3>6. t \in Seq(Packets) /\ Longer(q, b, t)
      BY <3>5 DEF Longer
    <3>7. sock'[s] \in Seq(Packets) /\ Longer(sock[s], b, sock'[s])
      BY <3>1, <3>3, <3>4, <3>6, Zenon
    <3>. QED  BY <1>3, <2>2, <3>7
  <2>. QED  BY <2>1, <2>2
<1>8. ASSUME NEW s \in Subs PROVE sock'[s] \in Seq(Packets) /\ heard'[s] \subseteq Nat /\ Len(sock'[s]) <= SockRoom
  <2>1. /\ sock[s] \in Seq(Packets) /\ heard[s] \subseteq Nat /\ Len(sock[s]) <= SockRoom /\ SockRoom \in Nat
        /\ Len(sock[s]) \in Nat
    BY <1>1, FeedSeqs, FeedAssumption DEF FeedTypes
  <2>2. CASE s \notin takers
    BY <1>7, <2>1, <2>2
  <2>3. CASE s \in takers
    <3>1. Len(sock'[s]) = Len(sock[s]) + 1
      BY <1>7, <2>3 DEF Longer
    <3>2. heard'[s] \subseteq Nat
      BY <1>6, <1>7, <2>1, <2>3
    <3>. QED  BY <1>7, <2>1, <2>3, <3>1, <3>2
  <2>. QED  BY <2>2, <2>3
<1>9. FeedTypes'
  <2>1. sock' \in [Subs -> Seq(Packets)] /\ heard' \in [Subs -> SUBSET Nat]
    <3>1. sock' = [s \in Subs |-> sock'[s]]
      BY <1>3
    <3>2. heard' = [s \in Subs |-> heard'[s]]
      BY <1>3
    <3>. QED  BY <1>8, <3>1, <3>2
  <2>2. DOMAIN air' \subseteq Grams
    BY <1>1, <1>4 DEF FeedTypes
  <2>. QED  BY <1>1, <1>2, <1>4, <1>6, <1>8, <2>1, <2>2 DEF FeedTypes
<1>10. AllKnown'
  <2>1. \A m : (IsUpd(m) => IsUpd(m)') /\ (Known(m) => Known(m)')
    BY <1>2 DEF Known, IsUpd, IsOther, Published
  <2>2. ASSUME NEW s \in Subs, NEW i \in 1 .. Len(sock'[s]) PROVE Known(sock'[s][i].m)
    <3>1. \A j \in 1 .. Len(sock[s]) : Known(sock[s][j].m)
      BY <1>1 DEF AllKnown
    <3>2. CASE s \notin takers
      BY <1>7, <2>2, <3>1, <3>2
    <3>3. CASE s \in takers
      <4>1. i \in 1 .. Len(sock[s]) + 1 /\ Len(sock[s]) \in Nat
        BY <1>1, <1>7, <2>2, <3>3, FeedSeqs DEF Longer
      <4>2. i \in 1 .. Len(sock[s]) \/ i = Len(sock[s]) + 1
        BY <4>1
      <4>. QED  BY <1>6, <1>7, <3>1, <3>3, <4>2 DEF Longer
    <3>. QED  BY <3>2, <3>3
  <2>3. ASSUME NEW s \in Subs, NEW i \in 1 .. Len(sock'[s]) PROVE Known(sock[s][i].m)'
    <3>1. PICK m : m = sock'[s][i].m
      OBVIOUS
    <3>2. Known(m)'
      BY <2>1, <2>2, <3>1
    <3>. QED  BY <3>1, <3>2 DEF Known, IsUpd, IsOther, Published
  <2>4. ASSUME NEW s \in Subs, NEW i \in 1 .. Len(lines'[s]) PROVE IsUpd(lines[s][i].m)'
    <3>1. IsUpd(lines[s][i].m)
      BY <1>1, <1>2, <2>4 DEF AllKnown
    <3>. QED  BY <1>2, <3>1 DEF IsUpd, Published
  <2>5. \A m \in DOMAIN air' : Known(m)'
    BY <1>1, <1>4, <2>1 DEF AllKnown
  <2>. QED  BY <1>2, <2>3, <2>4, <2>5 DEF AllKnown
<1>11. ASSUME NEW s \in Subs PROVE Rising(s)' /\ Complete(s)'
  <2>1. Rising(s) /\ Complete(s) /\ Len(sock[s]) \in Nat /\ Len(lines[s]) \in Nat
    BY <1>1, FeedSeqs DEF FeedInv
  <2>2. CASE s \notin takers
    <3>1. sock'[s] = sock[s] /\ heard'[s] = heard[s] /\ lines'[s] = lines[s]
      BY <1>2, <1>7, <2>2
    <3>2. 1 .. arrived \subseteq 1 .. arrived'
      BY <1>2, <1>6
    <3>3. Rising(s)'
      BY <2>1, <3>1, <3>2 DEF Rising
    <3>4. Complete(s)'
      BY <2>1, <3>1 DEF Complete
    <3>. QED  BY <3>3, <3>4
  <2>3. CASE s \in takers
    <3>1. PICK q, t, l : q = sock[s] /\ t = sock'[s] /\ l = lines[s] /\ l = lines'[s]
      BY <1>2
    <3>2. /\ Len(t) = Len(q) + 1 /\ t[Len(q) + 1] = b /\ \A i \in 1 .. Len(q) : t[i] = q[i]
          /\ Len(q) \in Nat
      BY <1>7, <2>1, <2>3, <3>1 DEF Longer
    <3>3. \A i \in 1 .. Len(t) : i \in 1 .. Len(q) \/ i = Len(q) + 1
      BY <3>2
    <3>4. /\ \A i \in 1 .. Len(l) : l[i].n \in 1 .. arrived
          /\ \A i \in 1 .. Len(q) : q[i].n \in 1 .. arrived
          /\ \A i, j \in 1 .. Len(l) : i < j => l[i].n < l[j].n
          /\ \A i, j \in 1 .. Len(q) : i < j => q[i].n < q[j].n
          /\ \A i \in 1 .. Len(l), j \in 1 .. Len(q) : l[i].n < q[j].n
      BY <2>1, <3>1 DEF Rising
    <3>5. \A k \in 1 .. arrived : k < arrived + 1 /\ k \in 1 .. arrived + 1
      BY <1>6
    <3>6. arrived + 1 \in 1 .. arrived + 1
      BY <1>6
    <3>7. \A i \in 1 .. Len(t) : t[i].n \in 1 .. arrived + 1
      BY <1>6, <3>2, <3>3, <3>4, <3>5, <3>6
    <3>8. ASSUME NEW i \in 1 .. Len(t), NEW j \in 1 .. Len(t), i < j PROVE t[i].n < t[j].n
      <4>1. i \in 1 .. Len(q)
        BY <3>2, <3>8
      <4>2. CASE j \in 1 .. Len(q)
        BY <3>2, <3>4, <3>8, <4>1, <4>2
      <4>3. CASE j = Len(q) + 1
        BY <1>6, <3>2, <3>4, <3>5, <4>1, <4>3
      <4>. QED  BY <3>3, <4>2, <4>3
    <3>9. ASSUME NEW i \in 1 .. Len(l), NEW j \in 1 .. Len(t) PROVE l[i].n < t[j].n
      <4>1. CASE j \in 1 .. Len(q)
        BY <3>2, <3>4, <4>1
      <4>2. CASE j = Len(q) + 1
        BY <1>6, <3>2, <3>4, <3>5, <4>2
      <4>. QED  BY <3>3, <4>1, <4>2
    <3>10. Rising(s)'
      <4>1. \A i \in 1 .. Len(l) : l[i].n \in 1 .. arrived + 1
        BY <3>4, <3>5
      <4>2. /\ \A i \in 1 .. Len(lines'[s]) : lines'[s][i].n \in 1 .. arrived'
            /\ \A i \in 1 .. Len(sock'[s]) : sock'[s][i].n \in 1 .. arrived'
            /\ \A i, j \in 1 .. Len(lines'[s]) : i < j => lines'[s][i].n < lines'[s][j].n
            /\ \A i, j \in 1 .. Len(sock'[s]) : i < j => sock'[s][i].n < sock'[s][j].n
            /\ \A i \in 1 .. Len(lines'[s]), j \in 1 .. Len(sock'[s]) : lines'[s][i].n < sock'[s][j].n
        BY <1>2, <3>1, <3>4, <3>7, <3>8, <3>9, <4>1
      <4>. QED  BY <4>2 DEF Rising
    <3>11. ASSUME NEW k
           PROVE  k \in heard'[s] <=> \/ \E i \in 1 .. Len(l) : k = l[i].n
                                      \/ \E i \in 1 .. Len(t) : t[i].m.pub # Nobody /\ k = t[i].n
      <4>1. k \in heard[s] <=> \/ \E i \in 1 .. Len(l) : k = l[i].n
                               \/ \E i \in 1 .. Len(q) : q[i].m.pub # Nobody /\ k = q[i].n
        BY <2>1, <3>1 DEF Complete
      <4>2. k \in heard'[s] <=> k \in heard[s] \/ (d.pub # Nobody /\ k = arrived + 1)
        BY <1>7, <2>3
      <4>3. (\E i \in 1 .. Len(t) : t[i].m.pub # Nobody /\ k = t[i].n) <=>
              \/ \E i \in 1 .. Len(q) : q[i].m.pub # Nobody /\ k = q[i].n
              \/ d.pub # Nobody /\ k = arrived + 1
        <5>1. Len(q) + 1 \in 1 .. Len(t) /\ \A i \in 1 .. Len(q) : i \in 1 .. Len(t)
          BY <3>2
        <5>. QED  BY <1>6, <3>2, <3>3, <5>1
      <4>. QED  BY <4>1, <4>2, <4>3
    <3>12. Complete(s)'
      BY <3>1, <3>11 DEF Complete
    <3>. QED  BY <3>10, <3>12
  <2>. QED  BY <2>2, <2>3
<1>12. ASSUME NEW s \in Subs PROVE FewCopies(s)' /\ Timed(s)'
  <2>1. FewCopies(s) /\ Timed(s) /\ sock[s] \in Seq(Packets) /\ lines[s] \in Seq(Shown)
    BY <1>1, FeedSeqs DEF FeedInv
  <2>2. ASSUME NEW m \in Updates
        PROVE  NumIn(lines[s], m) + NumIn(sock'[s], m) + Count(m, air') <= 1 + copied
    <3>1. Count(m, air) = Count(m, air') + (IF m = d THEN 1 ELSE 0)
      BY <1>1, <1>3, Counting DEF FeedTypes
    <3>2. Count(m, air') \in Nat /\ NumIn(lines[s], m) \in Nat /\ NumIn(sock[s], m) \in Nat
      BY <1>4, <2>1, Counting, Occurs
    <3>3. NumIn(lines[s], m) + NumIn(sock[s], m) + Count(m, air) <= 1 + copied
      BY <2>1 DEF FewCopies
    <3>4. CASE s \notin takers
      <4>1. NumIn(sock'[s], m) = NumIn(sock[s], m)
        BY <1>7, <3>4
      <4>. QED  BY <1>1, <3>1, <3>2, <3>3, <4>1 DEF FeedTypes
    <3>5. CASE s \in takers
      <4>1. NumIn(sock'[s], m) = NumIn(sock[s], m) + (IF b.m = m THEN 1 ELSE 0)
        BY <1>7, <2>1, <3>5, OccursMore
      <4>. QED  BY <1>1, <1>6, <3>1, <3>2, <3>3, <4>1 DEF FeedTypes
    <3>. QED  BY <3>4, <3>5
  <2>3. \A m : NumIn(lines[s], m)' = NumIn(lines[s], m) /\ NumIn(sock[s], m)' = NumIn(sock'[s], m)
    BY <1>2 DEF NumIn
  <2>4. \A m : Count(m, air)' = Count(m, air')
    BY DEF Count
  <2>5. FewCopies(s)'
    BY <1>2, <2>2, <2>3, <2>4 DEF FewCopies
  <2>6. Timed(s)'
    BY <1>2, <2>1 DEF Timed
  <2>. QED  BY <2>5, <2>6
<1>. QED  BY <1>9, <1>10, <1>11, <1>12 DEF FeedInv

-----------------------------------------------------------------------------
(* The subscribers.                                                        *)

\* Nothing that arrives, waits, or is printed changes.
Idle ==
  /\ UNCHANGED <<seq, run, air, ahead, arrived, sock, lines, heard, copied>>
  /\ spot' \in [Subs -> {"out", "join", "recv"}] /\ clock' \in 0 .. MaxNow

\* A step that only moves a clock or a subscriber keeps the invariant.
LEMMA IdleKeeps ==
  ASSUME FeedInv, Idle
  PROVE  FeedInv'
<1>1. FeedTypes /\ AllKnown
  BY DEF FeedInv
<1>2. FeedTypes'
  BY <1>1 DEF FeedTypes, Idle
<1>3. AllKnown'
  BY <1>1 DEF AllKnown, Known, IsUpd, IsOther, Published, Idle
<1>4. \A s \in Subs : Rising(s)' /\ Complete(s)' /\ Timed(s)' /\ FewCopies(s)'
  BY HostKept, CopiesKept DEF HostStill, Idle
<1>. QED  BY <1>2, <1>3, <1>4 DEF FeedInv

\* Time passes, a subscriber binds and joins; and a recv() that fails prints nothing,
\* whatever its buffer holds.
LEMMA Idling ==
  ASSUME FeedInv, PassTime \/ \E s \in Subs : BindPort(s) \/ Join(s) \/ RecvFails(s)
  PROVE  Idle
<1>. USE DEF exchange, subscriber, effort, Idle
<1>1. FeedTypes
  BY DEF FeedInv
<1>2. CASE PassTime
  <2>1. clock + 1 \in 0 .. MaxNow
    BY <1>1, <1>2, FeedNumbers DEF FeedTypes, PassTime
  <2>. QED  BY <1>1, <1>2, <2>1 DEF FeedTypes, PassTime
<1>3. ASSUME NEW s \in Subs, BindPort(s) \/ Join(s) PROVE Idle
  BY <1>1, <1>3 DEF FeedTypes, BindPort, Join
<1>4. ASSUME NEW s \in Subs, RecvFails(s) PROVE Idle
  <2>1. Printed(-1, packet[s]) = <<>>
    BY DEF Printed, Short, Header
  <2>2. lines[s] \o <<>> = lines[s]
    BY <1>1, FeedSeqs, ConcatEmptySeq
  <2>3. lines' = [lines EXCEPT ![s] = lines[s] \o <<>>]
    BY <1>4, <2>1 DEF RecvFails
  <2>4. lines' = lines
    BY <1>1, <2>2, <2>3 DEF FeedTypes
  <2>. QED  BY <1>1, <1>4, <2>4 DEF FeedTypes, RecvFails
<1>. QED  BY <1>2, <1>3, <1>4

\* A subscriber whom a step does not concern.
LEMMA OtherSub ==
  ASSUME FeedInv, NEW c \in Subs, UNCHANGED <<arrived, air, copied>>,
         sock'[c] = sock[c], lines'[c] = lines[c], heard'[c] = heard[c]
  PROVE  Rising(c)' /\ Complete(c)' /\ FewCopies(c)' /\ Timed(c)'
<1>1. Rising(c) /\ Complete(c) /\ FewCopies(c) /\ Timed(c)
  BY DEF FeedInv
<1>2. Rising(c)'
  BY <1>1 DEF Rising
<1>3. Complete(c)'
  BY <1>1 DEF Complete
<1>4. FewCopies(c)'
  BY <1>1 DEF FewCopies, NumIn, Count
<1>5. Timed(c)'
  BY <1>1 DEF Timed
<1>. QED  BY <1>2, <1>3, <1>4, <1>5

\* A subscriber that ends leaves nothing behind.
LEMMA ExitKeeps ==
  ASSUME FeedInv, NEW s \in Subs, Exit(s)
  PROVE  FeedInv'
<1>. USE DEF exchange, effort
<1>1. FeedTypes /\ AllKnown
  BY DEF FeedInv
<1>2. /\ UNCHANGED <<seq, run, air, ahead, clock, arrived, other, copied, fails>>
      /\ spot' = [spot EXCEPT ![s] = "out"] /\ sock' = [sock EXCEPT ![s] = <<>>]
      /\ lines' = [lines EXCEPT ![s] = <<>>] /\ heard' = [heard EXCEPT ![s] = {}]
  BY DEF Exit
<1>3. /\ sock'[s] = <<>> /\ lines'[s] = <<>> /\ heard'[s] = {} /\ Len(<<>>) = 0
      /\ \A c \in Subs : c # s => sock'[c] = sock[c] /\ lines'[c] = lines[c] /\ heard'[c] = heard[c]
  BY <1>1, <1>2 DEF FeedTypes
<1>4. FeedTypes'
  <2>1. <<>> \in Seq(Packets) /\ <<>> \in Seq(Shown)
    BY EmptySeq
  <2>2. /\ sock' \in [Subs -> Seq(Packets)] /\ lines' \in [Subs -> Seq(Shown)]
        /\ heard' \in [Subs -> SUBSET Nat] /\ spot' \in [Subs -> {"out", "join", "recv"}]
    BY <1>1, <1>2, <2>1 DEF FeedTypes
  <2>3. ASSUME NEW c \in Subs PROVE Len(sock'[c]) <= SockRoom
    <3>1. CASE c = s
      <4>1. SockRoom \in Nat
        BY FeedAssumption
      <4>. QED  BY <1>3, <3>1, <4>1
    <3>2. CASE c # s
      BY <1>1, <1>3, <3>2 DEF FeedTypes
    <3>. QED  BY <3>1, <3>2
  <2>. QED  BY <1>1, <1>2, <2>2, <2>3 DEF FeedTypes
<1>5. AllKnown'
  <2>1. \A m : (IsUpd(m) => IsUpd(m)') /\ (Known(m) => Known(m)')
    BY <1>2 DEF Known, IsUpd, IsOther, Published
  <2>2. ASSUME NEW c \in Subs
        PROVE  /\ \A i \in 1 .. Len(sock'[c]) : Known(sock[c][i].m)'
               /\ \A i \in 1 .. Len(lines'[c]) : IsUpd(lines[c][i].m)'
    <3>1. CASE c = s
      BY <1>3, <3>1
    <3>2. CASE c # s
      BY <1>1, <1>2, <1>3, <3>2 DEF AllKnown, Known, IsUpd, IsOther, Published
    <3>. QED  BY <3>1, <3>2
  <2>. QED  BY <1>1, <1>2, <2>1, <2>2 DEF AllKnown
<1>6. ASSUME NEW c \in Subs PROVE Rising(c)' /\ Complete(c)' /\ FewCopies(c)' /\ Timed(c)'
  <2>1. CASE c # s
    BY <1>2, <1>3, <2>1, OtherSub
  <2>2. CASE c = s
    <3>1. Rising(c)'
      BY <1>3, <2>2 DEF Rising
    <3>2. Complete(c)'
      BY <1>3, <2>2 DEF Complete
    <3>3. Timed(c)'
      BY <1>3, <2>2 DEF Timed
    <3>4. ASSUME NEW m \in Updates PROVE NumIn(lines'[s], m) + NumIn(sock'[s], m) + Count(m, air) <= 1 + copied
      <4>1. /\ NumIn(lines[s], m) \in Nat /\ NumIn(sock[s], m) \in Nat /\ Count(m, air) \in Nat
            /\ copied \in Nat
        BY <1>1, FeedSeqs, Occurs, Counting DEF FeedTypes
      <4>2. NumIn(lines[s], m) + NumIn(sock[s], m) + Count(m, air) <= 1 + copied
        BY DEF FeedInv, FewCopies
      <4>3. NumIn(lines'[s], m) = 0 /\ NumIn(sock'[s], m) = 0
        <5>1. PICK e : e = <<>>
          OBVIOUS
        <5>2. e \in Seq(Nat) /\ Len(e) = 0
          BY <5>1
        <5>3. \A i \in 1 .. Len(e) : e[i].m # m
          BY <5>2
        <5>4. NumIn(e, m) = 0
          BY <5>2, <5>3, Occurs
        <5>. QED  BY <1>3, <5>1, <5>4, Zenon
      <4>. QED  BY <4>1, <4>2, <4>3
    <3>5. \A m : NumIn(lines[s], m)' = NumIn(lines'[s], m) /\ NumIn(sock[s], m)' = NumIn(sock'[s], m)
      BY DEF NumIn
    <3>6. \A m : Count(m, air)' = Count(m, air)
      BY <1>2 DEF Count
    <3>7. FewCopies(c)'
      BY <1>2, <2>2, <3>4, <3>5, <3>6 DEF FewCopies
    <3>. QED  BY <3>1, <3>2, <3>3, <3>7
  <2>. QED  BY <2>1, <2>2
<1>. QED  BY <1>4, <1>5, <1>6 DEF FeedInv

\* What recv() returns is printed if it is an update, and else nothing is.
LEMMA Prints ==
  ASSUME FeedTypes, NEW b \in Packets, Known(b.m)
  PROVE  \/ /\ IsUpd(b.m)
            /\ \E r \in Shown : /\ Printed(b.m.size, b) = <<r>> /\ r.n = b.n /\ r.m = b.m
                                /\ r.latency > MaxNow <=> r.clock < r.m.time
         \/ IsOther(b.m) /\ Printed(b.m.size, b) = <<>>
<1>1. CASE IsUpd(b.m)
  <2>1. /\ b.m \in Updates /\ b.m.size = 2 /\ b.m.type = "P" /\ b.m.time \in Nat
        /\ b.m.time <= MaxNow + ahead
    BY <1>1 DEF IsUpd, Updates, Update
  <2>2. PICK r : r = [n |-> b.n, m |-> b.m, latency |-> (clock - b.m.time) % Word, clock |-> clock]
    OBVIOUS
  <2>3. Printed(b.m.size, b) = <<r>>
    BY <2>1, <2>2 DEF Printed, Short, Header, IsUpdate, Whole, Update
  <2>4. /\ (clock - b.m.time) % Word \in 0 .. Word - 1
        /\ (clock - b.m.time) % Word > MaxNow <=> clock < b.m.time
    <3>1. clock <= MaxNow
      BY DEF FeedTypes
    <3>. QED  BY <2>1, <3>1, FeedNumbers, Wraps
  <2>5. r \in Shown
    BY <2>1, <2>2, <2>4 DEF Shown, Packets, FeedTypes
  <2>6. r.latency > MaxNow <=> r.clock < r.m.time
    BY <2>2, <2>4
  <2>. QED  BY <1>1, <2>2, <2>3, <2>5, <2>6
<1>2. CASE IsOther(b.m)
  <2>1. b.m.size \in {0, 1, 2} /\ ~(b.m.type = "P" /\ b.m.size = 2)
    BY <1>2 DEF IsOther, Packets, Grams, Header, Update
  <2>. QED  BY <1>2, <2>1 DEF Printed, Short, Header, IsUpdate, Whole, Update
<1>. QED  BY <1>1, <1>2 DEF Known

\* One datagram leaves the front of the socket, and the end of the lines is its own
\* if it is an update.
LEMMA RecvKeeps ==
  ASSUME FeedInv, NEW s \in Subs, Recv(s)
  PROVE  FeedInv'
<1>. USE DEF exchange, effort
<1>1. FeedTypes /\ AllKnown
  BY DEF FeedInv
<1>2. PICK q \in Seq(Packets), l \in Seq(Shown) : q = sock[s] /\ l = lines[s] /\ q # <<>>
  BY <1>1 DEF FeedTypes, Recv
<1>3. PICK b : b = Head(q)
  OBVIOUS
<1>4. PICK t, k : t = Tail(q) /\ k = l \o Printed(b.m.size, b)
  OBVIOUS
<1>5. /\ UNCHANGED <<seq, run, air, ahead, clock, arrived, spot, heard, other, copied, fails>>
      /\ sock' = [sock EXCEPT ![s] = t] /\ lines' = [lines EXCEPT ![s] = k]
  BY <1>2, <1>3, <1>4 DEF Recv
<1>6. /\ b \in Packets /\ b = q[1] /\ t \in Seq(Packets) /\ Len(q) \in Nat /\ Len(q) > 0
      /\ Len(t) = Len(q) - 1 /\ \A i \in 1 .. Len(t) : t[i] = q[i + 1]
  <2>1. b \in Packets /\ t \in Seq(Packets) /\ Len(t) = Len(q) - 1 /\ \A i \in 1 .. Len(t) : t[i] = q[i + 1]
    BY <1>2, <1>3, <1>4, HeadTailProperties
  <2>2. b = q[1] /\ Len(q) \in Nat /\ Len(q) # 0
    BY <1>2, <1>3, EmptySeq, LenProperties
  <2>. QED  BY <2>1, <2>2
<1>7. Shorter(q, t)
  BY <1>6 DEF Shorter
<1>8. Known(b.m)
  <2>1. 1 \in 1 .. Len(q)
    BY <1>6
  <2>. QED  BY <1>1, <1>2, <1>6, <2>1 DEF AllKnown
<1>9. \/ IsUpd(b.m) /\ \E r \in Shown : /\ k \in Seq(Shown) /\ Longer(l, r, k) /\ r.n = b.n /\ r.m = b.m
                                        /\ r.latency > MaxNow <=> r.clock < r.m.time
      \/ IsOther(b.m) /\ k = l
  <2>1. CASE IsUpd(b.m)
    <3>1. PICK r \in Shown : /\ Printed(b.m.size, b) = <<r>> /\ r.n = b.n /\ r.m = b.m
                             /\ r.latency > MaxNow <=> r.clock < r.m.time
      BY <1>1, <1>6, <1>8, <2>1, Prints, FeedAssumption DEF IsOther, IsUpd, Updates
    <3>2. k = Append(l, r)
      BY <1>4, <3>1, AppendIsConcat
    <3>3. k \in Seq(Shown) /\ Longer(l, r, k)
      BY <3>2, AppendProperties DEF Longer
    <3>. QED  BY <2>1, <3>1, <3>3
  <2>2. CASE IsOther(b.m)
    <3>1. Printed(b.m.size, b) = <<>>
      BY <1>1, <1>6, <1>8, <2>2, Prints, FeedAssumption DEF IsOther, IsUpd, Updates
    <3>2. l \o <<>> = l
      BY ConcatEmptySeq
    <3>. QED  BY <1>4, <2>2, <3>1, <3>2
  <2>. QED  BY <1>8, <2>1, <2>2 DEF Known
<1>10. /\ sock'[s] = t /\ lines'[s] = k /\ heard'[s] = heard[s] /\ k \in Seq(Shown)
       /\ \A c \in Subs : c # s => sock'[c] = sock[c] /\ lines'[c] = lines[c] /\ heard'[c] = heard[c]
  BY <1>1, <1>5, <1>9 DEF FeedTypes
<1>11. FeedTypes'
  <2>1. sock' \in [Subs -> Seq(Packets)] /\ lines' \in [Subs -> Seq(Shown)]
    BY <1>1, <1>5, <1>6, <1>10 DEF FeedTypes
  <2>2. ASSUME NEW c \in Subs PROVE Len(sock'[c]) <= SockRoom
    <3>1. CASE c = s
      <4>1. Len(q) <= SockRoom /\ SockRoom \in Nat
        BY <1>1, <1>2, FeedAssumption DEF FeedTypes
      <4>2. Len(t) \in Nat /\ Len(q) = Len(t) + 1
        BY <1>6
      <4>3. Len(t) <= SockRoom
        BY <4>1, <4>2
      <4>. QED  BY <1>10, <3>1, <4>3
    <3>2. CASE c # s
      BY <1>1, <1>10, <3>2 DEF FeedTypes
    <3>. QED  BY <3>1, <3>2
  <2>. QED  BY <1>1, <1>5, <2>1, <2>2 DEF FeedTypes
<1>12. /\ Len(l) \in Nat /\ Len(t) \in Nat
       /\ \A i \in 1 .. Len(t) : i + 1 \in 1 .. Len(q)
       /\ \A i \in 1 .. Len(q) : i = 1 \/ i - 1 \in 1 .. Len(t)
       /\ \A i \in 1 .. Len(l) + 1 : i \in 1 .. Len(l) \/ i = Len(l) + 1
  <2>1. Len(l) \in Nat
    BY LenProperties
  <2>. QED  BY <1>6, <2>1
<1>13. AllKnown'
  <2>1. \A m : (IsUpd(m) => IsUpd(m)') /\ (Known(m) => Known(m)')
    BY <1>5 DEF Known, IsUpd, IsOther, Published
  <2>2. ASSUME NEW c \in Subs
        PROVE  /\ \A i \in 1 .. Len(sock'[c]) : Known(sock'[c][i].m)
               /\ \A i \in 1 .. Len(lines'[c]) : IsUpd(lines'[c][i].m)
    <3>1. CASE c = s
      <4>1. \A i \in 1 .. Len(t) : Known(t[i].m)
        BY <1>1, <1>2, <1>6, <1>12 DEF AllKnown
      <4>2. \A i \in 1 .. Len(l) : IsUpd(l[i].m)
        BY <1>1, <1>2 DEF AllKnown
      <4>3. \A i \in 1 .. Len(k) : IsUpd(k[i].m)
        BY <1>9, <1>12, <4>2 DEF Longer
      <4>. QED  BY <1>10, <3>1, <4>1, <4>3
    <3>2. CASE c # s
      BY <1>1, <1>10, <3>2 DEF AllKnown
    <3>. QED  BY <3>1, <3>2
  <2>3. ASSUME NEW c \in Subs
        PROVE  /\ \A i \in 1 .. Len(sock'[c]) : Known(sock[c][i].m)'
               /\ \A i \in 1 .. Len(lines'[c]) : IsUpd(lines[c][i].m)'
    BY <1>5, <2>2 DEF Known, IsUpd, IsOther, Published
  <2>. QED  BY <1>1, <1>5, <2>1, <2>3 DEF AllKnown
<1>14. /\ \A i \in 1 .. Len(l) : l[i].n \in 1 .. arrived
       /\ \A i \in 1 .. Len(q) : q[i].n \in 1 .. arrived
       /\ \A i, j \in 1 .. Len(l) : i < j => l[i].n < l[j].n
       /\ \A i, j \in 1 .. Len(q) : i < j => q[i].n < q[j].n
       /\ \A i \in 1 .. Len(l), j \in 1 .. Len(q) : l[i].n < q[j].n
  BY <1>2 DEF FeedInv, Rising
<1>15. /\ \A i \in 1 .. Len(t) : t[i].n \in 1 .. arrived
       /\ \A i, j \in 1 .. Len(t) : i < j => t[i].n < t[j].n
       /\ \A i \in 1 .. Len(l), j \in 1 .. Len(t) : l[i].n < t[j].n
       /\ \A j \in 1 .. Len(t) : b.n < t[j].n
       /\ b.n \in 1 .. arrived /\ \A i \in 1 .. Len(l) : l[i].n < b.n
  <2>1. 1 \in 1 .. Len(q)
    BY <1>6
  <2>2. /\ \A i, j \in 1 .. Len(t) : i < j => i + 1 < j + 1
        /\ \A j \in 1 .. Len(t) : 1 < j + 1
    BY <1>12
  <2>. QED  BY <1>6, <1>12, <1>14, <2>1, <2>2
<1>16. Rising(s)'
  <2>1. CASE k = l
    <3>1. /\ \A i \in 1 .. Len(k) : k[i].n \in 1 .. arrived
          /\ \A i, j \in 1 .. Len(k) : i < j => k[i].n < k[j].n
          /\ \A i \in 1 .. Len(k), j \in 1 .. Len(t) : k[i].n < t[j].n
      BY <1>14, <1>15, <2>1
    <3>. QED  BY <1>5, <1>10, <1>15, <3>1 DEF Rising
  <2>2. ASSUME NEW r, Longer(l, r, k), r.n = b.n PROVE Rising(s)'
    <3>1. Len(k) = Len(l) + 1 /\ k[Len(l) + 1] = r /\ \A i \in 1 .. Len(l) : k[i] = l[i]
      BY <2>2 DEF Longer
    <3>2. \A i \in 1 .. Len(k) : k[i].n \in 1 .. arrived
      BY <1>12, <1>14, <1>15, <2>2, <3>1
    <3>3. ASSUME NEW i \in 1 .. Len(k), NEW j \in 1 .. Len(k), i < j PROVE k[i].n < k[j].n
      <4>1. i \in 1 .. Len(l)
        BY <1>12, <3>1, <3>3
      <4>. QED  BY <1>12, <1>14, <1>15, <2>2, <3>1, <3>3, <4>1
    <3>4. \A i \in 1 .. Len(k), j \in 1 .. Len(t) : k[i].n < t[j].n
      BY <1>12, <1>15, <2>2, <3>1
    <3>. QED  BY <1>5, <1>10, <1>15, <3>2, <3>3, <3>4 DEF Rising
  <2>. QED  BY <1>9, <2>1, <2>2
<1>17. Complete(s)'
  <2>1. ASSUME NEW x
        PROVE  x \in heard[s] <=> \/ \E i \in 1 .. Len(k) : x = k[i].n
                                  \/ \E i \in 1 .. Len(t) : t[i].m.pub # Nobody /\ x = t[i].n
    <3>1. x \in heard[s] <=> \/ \E i \in 1 .. Len(l) : x = l[i].n
                             \/ \E i \in 1 .. Len(q) : q[i].m.pub # Nobody /\ x = q[i].n
      BY <1>2 DEF FeedInv, Complete
    <3>2. (\E i \in 1 .. Len(q) : q[i].m.pub # Nobody /\ x = q[i].n) <=>
            \/ b.m.pub # Nobody /\ x = b.n
            \/ \E i \in 1 .. Len(t) : t[i].m.pub # Nobody /\ x = t[i].n
      <4>1. ASSUME NEW i \in 1 .. Len(q), q[i].m.pub # Nobody /\ x = q[i].n
            PROVE  \/ b.m.pub # Nobody /\ x = b.n
                   \/ \E j \in 1 .. Len(t) : t[j].m.pub # Nobody /\ x = t[j].n
        <5>1. CASE i = 1
          BY <1>6, <4>1, <5>1
        <5>2. CASE i # 1
          <6>1. i - 1 \in 1 .. Len(t) /\ (i - 1) + 1 = i
            BY <1>12, <5>2
          <6>2. t[i - 1] = q[i]
            BY <1>6, <6>1
          <6>. QED  BY <4>1, <6>1, <6>2
        <5>. QED  BY <5>1, <5>2
      <4>2. 1 \in 1 .. Len(q)
        BY <1>6
      <4>3. ASSUME NEW i \in 1 .. Len(t), t[i].m.pub # Nobody /\ x = t[i].n
            PROVE  \E j \in 1 .. Len(q) : q[j].m.pub # Nobody /\ x = q[j].n
        BY <1>6, <1>12, <4>3
      <4>. QED  BY <1>6, <4>1, <4>2, <4>3
    <3>3. CASE k = l /\ IsOther(b.m)
      BY <3>1, <3>2, <3>3 DEF IsOther
    <3>4. ASSUME NEW r, Longer(l, r, k), r.n = b.n, IsUpd(b.m)
          PROVE  x \in heard[s] <=> \/ \E i \in 1 .. Len(k) : x = k[i].n
                                    \/ \E i \in 1 .. Len(t) : t[i].m.pub # Nobody /\ x = t[i].n
      <4>1. Len(k) = Len(l) + 1 /\ k[Len(l) + 1] = r /\ \A i \in 1 .. Len(l) : k[i] = l[i]
        BY <3>4 DEF Longer
      <4>2. b.m.pub # Nobody
        BY <3>4, FeedAssumption DEF IsUpd, Updates
      <4>3. (\E i \in 1 .. Len(k) : x = k[i].n) <=> x = b.n \/ \E i \in 1 .. Len(l) : x = l[i].n
        <5>1. Len(l) + 1 \in 1 .. Len(k) /\ \A i \in 1 .. Len(l) : i \in 1 .. Len(k)
          BY <1>12, <4>1
        <5>. QED  BY <1>12, <3>4, <4>1, <5>1
      <4>. QED  BY <3>1, <3>2, <4>2, <4>3
    <3>. QED  BY <1>9, <3>3, <3>4
  <2>. QED  BY <1>10, <2>1 DEF Complete
<1>18. FewCopies(s)'
  <2>1. ASSUME NEW m \in Updates PROVE NumIn(k, m) + NumIn(t, m) + Count(m, air) <= 1 + copied
    <3>1. NumIn(l, m) + NumIn(q, m) + Count(m, air) <= 1 + copied
      BY <1>2 DEF FeedInv, FewCopies
    <3>2. NumIn(q, m) = NumIn(t, m) + (IF b.m = m THEN 1 ELSE 0)
      BY <1>6, <1>7, OccursLess
    <3>3. NumIn(l, m) \in Nat /\ NumIn(t, m) \in Nat /\ Count(m, air) \in Nat
      BY <1>1, <1>6, Occurs, Counting DEF FeedTypes
    <3>4. CASE k = l /\ IsOther(b.m)
      <4>1. b.m # m
        BY <3>4, FeedAssumption DEF IsOther, Updates
      <4>2. NumIn(q, m) = NumIn(t, m)
        BY <3>2, <3>3, <4>1
      <4>3. NumIn(k, m) = NumIn(l, m)
        BY <3>4
      <4>4. NumIn(l, m) + NumIn(t, m) + Count(m, air) <= 1 + copied
        BY <3>1, <4>2
      <4>. QED  BY <4>3, <4>4
    <3>5. ASSUME NEW r \in Shown, k \in Seq(Shown), Longer(l, r, k), r.m = b.m
          PROVE  NumIn(k, m) + NumIn(t, m) + Count(m, air) <= 1 + copied
      <4>1. NumIn(k, m) = NumIn(l, m) + (IF b.m = m THEN 1 ELSE 0)
        BY <3>5, OccursMore
      <4>2. copied \in Nat /\ NumIn(l, m) \in Nat /\ NumIn(t, m) \in Nat /\ Count(m, air) \in Nat
        BY <1>1, <3>3 DEF FeedTypes
      <4>3. CASE b.m = m
        BY <3>1, <3>2, <4>1, <4>2, <4>3
      <4>4. CASE b.m # m
        BY <3>1, <3>2, <4>1, <4>2, <4>4
      <4>. QED  BY <4>3, <4>4
    <3>. QED  BY <1>9, <3>4, <3>5
  <2>2. \A m : NumIn(lines[s], m)' = NumIn(k, m) /\ NumIn(sock[s], m)' = NumIn(t, m)
    BY <1>10 DEF NumIn
  <2>3. \A m : Count(m, air)' = Count(m, air)
    BY <1>5 DEF Count
  <2>. QED  BY <1>5, <2>1, <2>2, <2>3 DEF FewCopies
<1>19. Timed(s)'
  <2>1. \A i \in 1 .. Len(l) : l[i].latency > MaxNow <=> l[i].clock < l[i].m.time
    BY <1>2 DEF FeedInv, Timed
  <2>2. \A i \in 1 .. Len(k) : k[i].latency > MaxNow <=> k[i].clock < k[i].m.time
    <3>1. ASSUME NEW r, Longer(l, r, k), r.latency > MaxNow <=> r.clock < r.m.time,
                 NEW i \in 1 .. Len(k)
          PROVE  k[i].latency > MaxNow <=> k[i].clock < k[i].m.time
      <4>1. i \in 1 .. Len(l) \/ i = Len(l) + 1
        BY <1>12, <3>1 DEF Longer
      <4>. QED  BY <2>1, <3>1, <4>1 DEF Longer
    <3>. QED  BY <1>9, <2>1, <3>1
  <2>. QED  BY <1>10, <2>2 DEF Timed
<1>20. \A c \in Subs : Rising(c)' /\ Complete(c)' /\ FewCopies(c)' /\ Timed(c)'
  BY <1>5, <1>10, <1>16, <1>17, <1>18, <1>19, OtherSub
<1>. QED  BY <1>11, <1>13, <1>20 DEF FeedInv


\* The feed starts in the invariant: nothing sent, printed or waiting.
LEMMA FeedInitially == FeedInit => FeedInv
<1>. SUFFICES ASSUME FeedInit PROVE FeedInv
  OBVIOUS
<1>1. PICK e : e = <<>>
  OBVIOUS
<1>2. e \in Seq(Packets) /\ e \in Seq(Shown) /\ Len(e) = 0
  BY <1>1, EmptySeq
<1>3. \A m : NumIn(e, m) = 0
  <2>1. ASSUME NEW m PROVE NumIn(e, m) = 0
    <3>1. \A i \in 1 .. Len(e) : e[i].m # m
      BY <1>2
    <3>. QED  BY <1>2, <3>1, Occurs
  <2>. QED  BY <2>1
<1>4. \A s \in Subs : sock[s] = e /\ lines[s] = e /\ heard[s] = {}
  BY <1>1 DEF FeedInit
<1>5. /\ IsABag(air) /\ DOMAIN air = {} /\ \A m : Count(m, air) = 0
      /\ arrived = 0 /\ copied = 0 /\ clock = 0 /\ ahead \in Ahead
  BY NothingIn DEF FeedInit
<1>6. FeedTypes
  <2>1. MaxSeq \in Nat /\ MaxRuns \in Nat /\ MaxNow \in Nat /\ SockRoom \in Nat
    BY FeedAssumption DEF Numbers
  <2>2. /\ seq \in [Pubs -> 0 .. MaxSeq + 1] /\ run \in [Pubs -> 0 .. MaxRuns]
        /\ clock \in 0 .. MaxNow /\ \A p \in Pubs : ~(seq[p] > 0)
    BY <1>5, <2>1 DEF FeedInit
  <2>3. /\ sock \in [Subs -> Seq(Packets)] /\ lines \in [Subs -> Seq(Shown)]
        /\ heard \in [Subs -> SUBSET Nat] /\ spot \in [Subs -> {"out", "join", "recv"}]
    BY <1>1, <1>2 DEF FeedInit
  <2>4. \A s \in Subs : Len(sock[s]) <= SockRoom
    BY <1>2, <1>4, <2>1
  <2>. QED  BY <1>5, <2>2, <2>3, <2>4 DEF FeedTypes
<1>7. AllKnown
  BY <1>2, <1>4, <1>5 DEF AllKnown
<1>8. ASSUME NEW s \in Subs PROVE Rising(s) /\ Complete(s) /\ FewCopies(s) /\ Timed(s)
  <2>1. Rising(s)
    BY <1>2, <1>4 DEF Rising
  <2>2. Complete(s)
    BY <1>2, <1>4 DEF Complete
  <2>3. FewCopies(s)
    BY <1>3, <1>4, <1>5 DEF FewCopies
  <2>4. Timed(s)
    BY <1>2, <1>4 DEF Timed
  <2>. QED  BY <2>1, <2>2, <2>3, <2>4
<1>. QED  BY <1>6, <1>7, <1>8 DEF FeedInv

\* Every step of the feed keeps it.
LEMMA FeedInductive == FeedInv /\ [FeedNext]_feed => FeedInv'
<1>. SUFFICES ASSUME FeedInv, [FeedNext]_feed PROVE FeedInv'
  OBVIOUS
<1>1. ASSUME NEW p \in Pubs, StartExchange(p) \/ Publish(p) \/ StopExchange(p) PROVE FeedInv'
  BY <1>1, RunKeeps, PublishKeeps
<1>2. CASE SendOther
  BY <1>2, OtherKeeps
<1>3. CASE CopyOne
  BY <1>3, CopyOneKeeps
<1>4. CASE Arrive
  BY <1>4, ArriveKeeps
<1>5. CASE PassTime \/ \E s \in Subs : BindPort(s) \/ Join(s) \/ RecvFails(s)
  BY <1>5, Idling, IdleKeeps
<1>6. ASSUME NEW s \in Subs, Exit(s) \/ Recv(s) PROVE FeedInv'
  BY <1>6, ExitKeeps, RecvKeeps
<1>7. CASE UNCHANGED feed
  <2>1. FeedTypes
    BY DEF FeedInv
  <2>2. Idle
    BY <1>7, <2>1 DEF feed, exchange, subscriber, effort, Idle, FeedTypes
  <2>. QED  BY <2>2, IdleKeeps
<1>. QED  BY <1>1, <1>2, <1>3, <1>4, <1>5, <1>6, <1>7 DEF FeedNext

\* Only what the elements are decides what a sequence is of.
LEMMA Narrower ==
  ASSUME NEW A, NEW B, NEW q \in Seq(A), \A i \in 1 .. Len(q) : q[i] \in B
  PROVE  q \in Seq(B)
<1>1. Len(q) \in Nat
  BY LenProperties
<1>2. SubSeq(q, 1, Len(q)) \in Seq(B)
  BY <1>1, SubSeqProperties
<1>3. SubSeq(q, 1, Len(q)) = q
  BY SubSeqFull
<1>. QED  BY <1>2, <1>3

\* The types are part of the invariant, the numbers of the lines from Rising.
LEMMA FeedTyped == FeedInv => FeedTypeOK
<1>. SUFFICES ASSUME FeedInv PROVE FeedTypeOK
  OBVIOUS
<1>1. FeedTypes
  BY DEF FeedInv
<1>2. ASSUME NEW s \in Subs
      PROVE  /\ heard[s] \subseteq 1 .. arrived
             /\ lines[s] \in Seq([n : 1 .. arrived, m : Updates, latency : 0 .. Word - 1, clock : 0 .. MaxNow])
  <2>1. Rising(s) /\ Complete(s)
    BY DEF FeedInv
  <2>2. heard[s] \subseteq 1 .. arrived
    BY <2>1 DEF Rising, Complete
  <2>3. lines[s] \in Seq(Shown) /\ \A i \in 1 .. Len(lines[s]) : lines[s][i] \in Shown
    BY <1>1, FeedSeqs
  <2>4. PICK B : B = [n : 1 .. arrived, m : Updates, latency : 0 .. Word - 1, clock : 0 .. MaxNow]
    OBVIOUS
  <2>5. ASSUME NEW i \in 1 .. Len(lines[s]) PROVE lines[s][i] \in B
    <3>1. lines[s][i] \in Shown /\ lines[s][i].n \in 1 .. arrived
      BY <2>1, <2>3 DEF Rising
    <3>. QED  BY <2>4, <3>1 DEF Shown
  <2>6. lines[s] \in Seq(B)
    BY <2>3, <2>5, Narrower
  <2>. QED  BY <2>2, <2>4, <2>6
<1>. QED  BY <1>1, <1>2 DEF FeedTypes, FeedTypeOK

\* FeedTypeOK: every variable of the feed keeps its type, and only whole price
\* updates are printed.
THEOREM FeedTypeCorrect == FeedSpec => []FeedTypeOK
<1>1. FeedSpec => []FeedInv
  BY FeedInitially, FeedInductive, PTL DEF FeedSpec
<1>. QED  BY <1>1, FeedTyped, PTL

\* Faithful is Complete, Rising, FewCopies and Timed, said of sequences.
LEMMA FaithfulOf == FeedInv => Faithful
<1>. SUFFICES ASSUME FeedInv, NEW s \in Subs
     PROVE  /\ heard[s] = {lines[s][i].n : i \in DOMAIN lines[s]} \cup {sock[s][i].n : i \in Awaits(s)}
            /\ \A i, j \in DOMAIN Order(s) : i < j => Order(s)[i] < Order(s)[j]
            /\ \A m \in {lines[s][i].m : i \in DOMAIN lines[s]} :
                 Cardinality({i \in DOMAIN lines[s] : lines[s][i].m = m}) <= 1 + copied
            /\ \A i \in DOMAIN lines[s] :
                 lines[s][i].latency > MaxNow <=> lines[s][i].clock < lines[s][i].m.time
  BY DEF Faithful
<1>1. FeedTypes /\ Rising(s) /\ Complete(s) /\ FewCopies(s) /\ Timed(s)
  BY DEF FeedInv
<1>2. PICK q \in Seq(Packets), l \in Seq(Shown) : q = sock[s] /\ l = lines[s]
  BY <1>1, FeedSeqs
<1>3. Len(q) \in Nat /\ DOMAIN q = 1 .. Len(q) /\ Len(l) \in Nat /\ DOMAIN l = 1 .. Len(l)
  BY LenProperties
<1>4. heard[s] = {l[i].n : i \in DOMAIN l} \cup {q[i].n : i \in Awaits(s)}
  <2>1. \A k : k \in heard[s] <=>
          \/ \E i \in 1 .. Len(l) : k = l[i].n
          \/ \E i \in 1 .. Len(q) : q[i].m.pub # Nobody /\ k = q[i].n
    BY <1>1, <1>2 DEF Complete
  <2>2. \A i : i \in Awaits(s) <=> i \in 1 .. Len(q) /\ q[i].m.pub # Nobody
    BY <1>2, <1>3 DEF Awaits
  <2>. QED  BY <1>3, <2>1, <2>2
<1>5. \A i, j \in DOMAIN Order(s) : i < j => Order(s)[i] < Order(s)[j]
  <2>1. PICK w : w = l \o q
    OBVIOUS
  <2>2. l \in Seq(Shown \cup Packets) /\ q \in Seq(Shown \cup Packets)
    BY SeqMonotonic
  <2>3. /\ w \in Seq(Shown \cup Packets) /\ Len(w) = Len(l) + Len(q)
        /\ \A i \in 1 .. Len(l) + Len(q) : w[i] = IF i <= Len(l) THEN l[i] ELSE q[i - Len(l)]
    BY <2>1, <2>2, ConcatProperties
  <2>4. DOMAIN w = 1 .. Len(l) + Len(q)
    BY <2>3, LenProperties
  <2>5. DOMAIN Order(s) = 1 .. Len(l) + Len(q) /\ \A i \in 1 .. Len(l) + Len(q) : Order(s)[i] = w[i].n
    BY <1>2, <2>1, <2>4 DEF Order
  <2>6. /\ \A i, j \in 1 .. Len(l) : i < j => l[i].n < l[j].n
        /\ \A i, j \in 1 .. Len(q) : i < j => q[i].n < q[j].n
        /\ \A i \in 1 .. Len(l), j \in 1 .. Len(q) : l[i].n < q[j].n
    BY <1>1, <1>2 DEF Rising
  <2>7. ASSUME NEW i \in 1 .. Len(l) + Len(q), NEW j \in 1 .. Len(l) + Len(q), i < j
        PROVE  w[i].n < w[j].n
    <3>1. CASE j <= Len(l)
      <4>1. i \in 1 .. Len(l) /\ j \in 1 .. Len(l)
        BY <1>3, <2>7, <3>1
      <4>2. w[i] = l[i] /\ w[j] = l[j]
        BY <2>3, <4>1
      <4>. QED  BY <2>6, <2>7, <4>1, <4>2
    <3>2. CASE i <= Len(l) /\ ~(j <= Len(l))
      <4>1. i \in 1 .. Len(l) /\ j - Len(l) \in 1 .. Len(q)
        BY <1>3, <2>7, <3>2
      <4>2. w[i] = l[i] /\ w[j] = q[j - Len(l)]
        BY <2>3, <3>2
      <4>. QED  BY <2>6, <4>1, <4>2
    <3>3. CASE ~(i <= Len(l))
      <4>1. /\ i - Len(l) \in 1 .. Len(q) /\ j - Len(l) \in 1 .. Len(q) /\ i - Len(l) < j - Len(l)
            /\ ~(j <= Len(l))
        BY <1>3, <2>7, <3>3
      <4>2. w[i] = q[i - Len(l)] /\ w[j] = q[j - Len(l)]
        BY <2>3, <3>3, <4>1
      <4>. QED  BY <2>6, <4>1, <4>2
    <3>. QED  BY <1>3, <2>7, <3>1, <3>2, <3>3
  <2>. QED  BY <2>5, <2>7
<1>6. ASSUME NEW m \in {l[i].m : i \in DOMAIN l}
      PROVE  Cardinality({i \in DOMAIN l : l[i].m = m}) <= 1 + copied
  <2>1. m \in Updates
    <3>1. \A i \in 1 .. Len(l) : l[i] \in Shown
      BY ElementOfSeq
    <3>. QED  BY <1>3, <1>6, <3>1 DEF Shown
  <2>2. NumIn(l, m) + NumIn(q, m) + Count(m, air) <= 1 + copied
    BY <1>1, <1>2, <2>1 DEF FewCopies
  <2>3. /\ NumIn(l, m) \in Nat /\ NumIn(q, m) \in Nat /\ Count(m, air) \in Nat /\ copied \in Nat
    BY <1>1, Occurs, Counting DEF FeedTypes
  <2>4. NumIn(l, m) <= 1 + copied
    BY <2>2, <2>3
  <2>5. NumIn(l, m) = Cardinality({i \in DOMAIN l : l[i].m = m})
    BY <1>3, Zenon DEF NumIn
  <2>. QED  BY <2>4, <2>5
<1>7. \A i \in DOMAIN l : l[i].latency > MaxNow <=> l[i].clock < l[i].m.time
  BY <1>1, <1>2, <1>3 DEF Timed
<1>. QED  BY <1>2, <1>4, <1>5, <1>6, <1>7

\* Faithful: what a subscriber has printed and what waits in its socket is every
\* update that reached it, in the order of arrival, once for each copy; and a
\* latency is absurd only when the update is read before its time.
THEOREM Faithfully == FeedSpec => []Faithful
<1>1. FeedSpec => []FeedInv
  BY FeedInitially, FeedInductive, PTL DEF FeedSpec
<1>. QED  BY <1>1, FaithfulOf, PTL

==============================================================================
