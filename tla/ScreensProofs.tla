---------------------------- MODULE ScreensProofs ----------------------------
(***************************************************************************)
(* Proofs about Screens for any virtual desktops, outputs and crtcs, and   *)
(* any number of changes: the lists of screens agree, and once every       *)
(* notification is handled the screens are those the server shows.         *)
(***************************************************************************)
EXTENDS Screens, FiniteSetTheorems, SequenceTheorems, TLAPS

(* Types.                                                                  *)

Screen == [desktop : Desktop, output : Output \cup {None}, crtc : Crtc \cup {None},
           geometry : 0 .. MaxGeometry, primary : BOOLEAN]

Notification ==
    [type : {"crtc"}, crtc : Crtc, geometry : 0 .. MaxGeometry]
    \cup [type : {"output"}, output : Output, connected : BOOLEAN, crtc : Crtc \cup {None}]

Client == [at : [Slot -> Screen], screens : Seq(Slot), siblings : [Desktop -> Seq(Slot)],
           gui : Seq(Slot)]

-----------------------------------------------------------------------------
(* The lists, as the code changes them.                                    *)

LEMMA IndexOfMember ==
    ASSUME NEW S, NEW q \in Seq(S), NEW x \in Range(q)
    PROVE  IndexOf(q, x) \in 1 .. Len(q) /\ q[IndexOf(q, x)] = x
<1>1. \E i \in DOMAIN q : q[i] = x
  BY DEF Range
<1>2. IndexOf(q, x) \in DOMAIN q /\ q[IndexOf(q, x)] = x
  BY <1>1 DEF IndexOf
<1> QED BY <1>2

LEMMA Elements ==
    ASSUME NEW S, NEW q \in Seq(S)
    PROVE  /\ Len(q) \in Nat /\ DOMAIN q = 1 .. Len(q) /\ q \in [1 .. Len(q) -> S]
           /\ Range(q) \subseteq S
           /\ \A x : x \in Range(q) <=> \E i \in 1 .. Len(q) : q[i] = x
           /\ q # <<>> <=> Len(q) > 0
           /\ q # <<>> => Head(q) = q[1] /\ Head(q) \in Range(q)
<1>1. /\ Len(q) \in Nat /\ DOMAIN q = 1 .. Len(q) /\ q \in [1 .. Len(q) -> S]
      /\ q # <<>> <=> Len(q) > 0
      /\ q # <<>> => Head(q) = q[1]
  OBVIOUS
<1>2. \A x : x \in Range(q) <=> \E i \in 1 .. Len(q) : q[i] = x
  BY <1>1 DEF Range
<1>3. Range(q) \subseteq S
  BY <1>1, <1>2
<1>4. q # <<>> => Head(q) \in Range(q)
  BY <1>1, <1>2
<1> QED BY <1>1, <1>2, <1>3, <1>4

\* SwapToFront() brings x to the front and keeps the rest.
LEMMA Swapped ==
    ASSUME NEW S, NEW q \in Seq(S), IsInjective(q), NEW x \in Range(q)
    PROVE  /\ SwapToFront(q, x) \in Seq(S) /\ IsInjective(SwapToFront(q, x))
           /\ Range(SwapToFront(q, x)) = Range(q)
           /\ Len(SwapToFront(q, x)) = Len(q)
           /\ SwapToFront(q, x) # <<>> /\ Head(SwapToFront(q, x)) = x
<1> DEFINE k == IndexOf(q, x)
           r == SwapToFront(q, x)
<1>1. /\ Len(q) \in Nat /\ Len(q) > 0 /\ DOMAIN q = 1 .. Len(q) /\ q \in [1 .. Len(q) -> S]
      /\ k \in 1 .. Len(q) /\ q[k] = x /\ Head(q) = q[1] /\ 1 \in 1 .. Len(q) /\ x \in S
  BY Elements, IndexOfMember
<1>2. \A i, j \in 1 .. Len(q) : q[i] = q[j] => i = j
  BY <1>1 DEF IsInjective
<1> HIDE DEF k
<1>3. r = [q EXCEPT ![1] = x, ![k] = q[1]]
  BY <1>1 DEF SwapToFront, k
<1>4. r \in [1 .. Len(q) -> S]
  BY <1>1, <1>3
<1>5. \A i \in 1 .. Len(q) : r[i] = IF i = k THEN q[1] ELSE IF i = 1 THEN x ELSE q[i]
  BY <1>1, <1>3
<1> HIDE DEF r
<1>6. r \in Seq(S) /\ Len(r) = Len(q) /\ DOMAIN r = 1 .. Len(q)
  BY <1>1, <1>4
<1>7. IsInjective(r)
  BY <1>1, <1>2, <1>5, <1>6 DEF IsInjective
<1>8. Range(r) = Range(q)
  <2>1. ASSUME NEW y \in Range(r) PROVE y \in Range(q)
    BY <1>1, <1>5, <1>6, <2>1 DEF Range
  <2>2. ASSUME NEW i \in 1 .. Len(q) PROVE q[i] \in Range(r)
    <3>1. CASE i = k
      <4>1. k = 1 => r[1] = q[k]
        BY <1>1, <1>5
      <4>2. k # 1 => r[1] = q[k]
        BY <1>1, <1>5
      <4> QED BY <1>1, <1>6, <3>1, <4>1, <4>2 DEF Range
    <3>2. CASE i = 1
      <4>1. r[k] = q[1]
        BY <1>1, <1>5
      <4> QED BY <1>1, <1>6, <3>2, <4>1 DEF Range
    <3>3. CASE i # 1 /\ i # k
      BY <1>5, <1>6, <3>3 DEF Range
    <3> QED BY <3>1, <3>2, <3>3
  <2> QED BY <1>1, <2>1, <2>2 DEF Range
<1>9. r # <<>> /\ Head(r) = x
  <2>1. r # <<>> /\ Head(r) = r[1]
    BY <1>1, <1>6
  <2>2. r[1] = x
    BY <1>1, <1>5
  <2> QED BY <2>1, <2>2
<1> QED BY <1>6, <1>7, <1>8, <1>9 DEF r

\* removeOne() takes x out, and keeps the order of the rest.
LEMMA Removed ==
    ASSUME NEW S, NEW q \in Seq(S), IsInjective(q), NEW x \in Range(q)
    PROVE  /\ removeOne(q, x) \in Seq(S) /\ IsInjective(removeOne(q, x))
           /\ Range(removeOne(q, x)) = Range(q) \ {x}
           /\ Len(removeOne(q, x)) = Len(q) - 1
           /\ x # Head(q) => removeOne(q, x) # <<>> /\ Head(removeOne(q, x)) = Head(q)
<1> DEFINE k == IndexOf(q, x)
           r == removeOne(q, x)
<1>1. /\ Len(q) \in Nat /\ Len(q) > 0 /\ DOMAIN q = 1 .. Len(q) /\ q \in [1 .. Len(q) -> S]
      /\ k \in 1 .. Len(q) /\ q[k] = x /\ Head(q) = q[1] /\ 1 \in 1 .. Len(q) /\ x \in S
  BY Elements, IndexOfMember
<1>2. \A i, j \in 1 .. Len(q) : q[i] = q[j] => i = j
  BY <1>1 DEF IsInjective
<1> HIDE DEF k
<1> DEFINE a == SubSeq(q, 1, k - 1)
           b == SubSeq(q, k + 1, Len(q))
<1>3. r = a \o b
  BY DEF removeOne, RemoveAt, k
<1>4. a \in Seq(S) /\ Len(a) = k - 1 /\ \A i \in 1 .. k - 1 : a[i] = q[i]
  BY <1>1
<1>5. b \in Seq(S) /\ Len(b) = Len(q) - k /\ \A i \in 1 .. Len(q) - k : b[i] = q[k + i]
  BY <1>1
<1> HIDE DEF a, b
<1>6. /\ r \in Seq(S) /\ Len(r) = Len(q) - 1
      /\ \A i \in 1 .. Len(q) - 1 : r[i] = IF i <= k - 1 THEN a[i] ELSE b[i - (k - 1)]
  <2>1. /\ a \o b \in Seq(S) /\ Len(a \o b) = Len(a) + Len(b)
        /\ \A i \in 1 .. Len(a) + Len(b) : (a \o b)[i] = IF i <= Len(a) THEN a[i] ELSE b[i - Len(a)]
    BY <1>4, <1>5, ConcatProperties
  <2>2. Len(a) = k - 1 /\ Len(a) + Len(b) = Len(q) - 1
    BY <1>1, <1>4, <1>5
  <2> QED BY <1>3, <2>1, <2>2
<1> HIDE DEF r
<1>7. \A i \in 1 .. Len(q) - 1 : r[i] = IF i < k THEN q[i] ELSE q[i + 1]
  <2> SUFFICES ASSUME NEW i \in 1 .. Len(q) - 1 PROVE r[i] = IF i < k THEN q[i] ELSE q[i + 1]
    OBVIOUS
  <2>1. CASE i < k
    <3>1. i \in 1 .. k - 1
      BY <1>1, <2>1
    <3> QED BY <1>4, <1>6, <2>1, <3>1
  <2>2. CASE ~(i < k)
    <3>1. i - (k - 1) \in 1 .. Len(q) - k /\ k + (i - (k - 1)) = i + 1 /\ ~(i <= k - 1)
      BY <1>1, <2>2
    <3>2. b[i - (k - 1)] = q[i + 1]
      BY <1>5, <3>1
    <3> QED BY <1>6, <2>2, <3>1, <3>2
  <2> QED BY <2>1, <2>2
<1>8. DOMAIN r = 1 .. Len(q) - 1
  BY <1>6
<1>9. IsInjective(r)
  BY <1>1, <1>2, <1>7, <1>8 DEF IsInjective
<1>10. Range(r) = Range(q) \ {x}
  <2>1. ASSUME NEW i \in 1 .. Len(q) - 1 PROVE r[i] \in Range(q) \ {x}
    BY <1>1, <1>2, <1>7 DEF Range
  <2>2. ASSUME NEW i \in 1 .. Len(q), i # k PROVE q[i] \in Range(r)
    <3>1. CASE i < k
      <4>1. i \in 1 .. Len(q) - 1 /\ r[i] = q[i]
        BY <1>1, <1>7, <3>1
      <4> QED BY <1>8, <4>1 DEF Range
    <3>2. CASE i > k
      <4>1. i - 1 \in 1 .. Len(q) - 1 /\ r[i - 1] = q[i]
        BY <1>1, <1>7, <3>2
      <4> QED BY <1>8, <4>1 DEF Range
    <3> QED BY <1>1, <2>2, <3>1, <3>2
  <2>3. Range(r) \subseteq Range(q) \ {x}
    BY <1>8, <2>1 DEF Range
  <2>4. Range(q) \ {x} \subseteq Range(r)
    BY <1>1, <2>2 DEF Range
  <2> QED BY <2>3, <2>4
<1>11. x # Head(q) => r # <<>> /\ Head(r) = Head(q)
  <2>1. ASSUME x # Head(q) PROVE 1 < k /\ Len(q) > 1
    BY <1>1, <2>1
  <2>2. ASSUME x # Head(q) PROVE r # <<>> /\ Head(r) = r[1] /\ r[1] = q[1]
    BY <1>6, <1>7, <1>1, <2>1, <2>2
  <2> QED BY <1>1, <2>2
<1> QED BY <1>6, <1>9, <1>10, <1>11 DEF r

\* Inserted() adds x at the front or at the end.
LEMMA Insertion ==
    ASSUME NEW S, NEW q \in Seq(S), IsInjective(q), NEW x \in S, x \notin Range(q),
           NEW first \in BOOLEAN
    PROVE  /\ Inserted(q, x, first) \in Seq(S) /\ IsInjective(Inserted(q, x, first))
           /\ Range(Inserted(q, x, first)) = Range(q) \cup {x}
           /\ Inserted(q, x, first) # <<>>
           /\ Head(Inserted(q, x, first)) = IF first \/ q = <<>> THEN x ELSE Head(q)
<1> DEFINE r == Inserted(q, x, first)
<1>1. /\ Len(q) \in Nat /\ DOMAIN q = 1 .. Len(q) /\ q \in [1 .. Len(q) -> S]
      /\ q # <<>> <=> Len(q) > 0
      /\ q # <<>> => Head(q) = q[1]
  BY Elements
<1>2. \A i, j \in 1 .. Len(q) : q[i] = q[j] => i = j
  BY <1>1 DEF IsInjective
<1>3. \A i \in 1 .. Len(q) : q[i] # x
  BY <1>1 DEF Range
<1>4. CASE first
  <2> DEFINE one == <<x>>
  <2>1. one \in Seq(S) /\ Len(one) = 1 /\ one[1] = x
    OBVIOUS
  <2> HIDE DEF one
  <2>2. r = one \o q
    BY <1>4 DEF Inserted, one
  <2>3. /\ r \in Seq(S) /\ Len(r) = 1 + Len(q)
        /\ \A i \in 1 .. 1 + Len(q) : r[i] = IF i <= 1 THEN one[i] ELSE q[i - 1]
    <3>1. /\ one \o q \in Seq(S) /\ Len(one \o q) = Len(one) + Len(q)
          /\ \A i \in 1 .. Len(one) + Len(q) :
                (one \o q)[i] = IF i <= Len(one) THEN one[i] ELSE q[i - Len(one)]
      BY <2>1, ConcatProperties
    <3> QED BY <2>1, <2>2, <3>1
  <2> HIDE DEF r
  <2>4. \A i \in 1 .. 1 + Len(q) : r[i] = IF i = 1 THEN x ELSE q[i - 1]
    BY <1>1, <2>1, <2>3
  <2>5. DOMAIN r = 1 .. 1 + Len(q) /\ r # <<>> /\ Head(r) = x
    BY <1>1, <2>3, <2>4
  <2>6. IsInjective(r)
    <3> SUFFICES ASSUME NEW i \in 1 .. 1 + Len(q), NEW j \in 1 .. 1 + Len(q), r[i] = r[j] PROVE i = j
      BY <2>5 DEF IsInjective
    <3>1. i # 1 => i - 1 \in 1 .. Len(q) /\ r[i] = q[i - 1]
      BY <1>1, <2>4
    <3>2. j # 1 => j - 1 \in 1 .. Len(q) /\ r[j] = q[j - 1]
      BY <1>1, <2>4
    <3>3. r[1] = x
      BY <1>1, <2>4
    <3>4. i # 1 /\ j # 1 => i - 1 = j - 1
      BY <1>2, <3>1, <3>2
    <3> QED BY <1>3, <3>1, <3>2, <3>3, <3>4
  <2>7. Range(r) = Range(q) \cup {x}
    <3>1. \A i \in 1 .. 1 + Len(q) : i # 1 => i - 1 \in 1 .. Len(q) /\ r[i] = q[i - 1]
      BY <1>1, <2>4
    <3>2. \A i \in 1 .. Len(q) : i + 1 \in 1 .. 1 + Len(q) /\ r[i + 1] = q[i]
      BY <1>1, <2>4
    <3>3. 1 \in 1 .. 1 + Len(q) /\ r[1] = x
      BY <1>1, <2>4
    <3> QED BY <1>1, <2>5, <3>1, <3>2, <3>3 DEF Range
  <2> QED BY <1>4, <2>3, <2>5, <2>6, <2>7 DEF r
<1>5. CASE ~first
  <2>1. r = Append(q, x)
    BY <1>5 DEF Inserted
  <2>2. /\ r \in Seq(S) /\ Len(r) = Len(q) + 1 /\ DOMAIN r = 1 .. Len(q) + 1 /\ r # <<>>
        /\ \A i \in 1 .. Len(q) : r[i] = q[i]
        /\ r[Len(q) + 1] = x /\ Head(r) = r[1]
    BY <1>1, <2>1
  <2> HIDE DEF r
  <2>3. \A i \in 1 .. Len(q) + 1 : i = Len(q) + 1 \/ i \in 1 .. Len(q)
    BY <1>1
  <2>4. IsInjective(r)
    BY <1>1, <1>2, <1>3, <2>2, <2>3 DEF IsInjective
  <2>5. Range(r) = Range(q) \cup {x}
    <3>1. Len(q) + 1 \in 1 .. Len(q) + 1 /\ \A i \in 1 .. Len(q) : i \in 1 .. Len(q) + 1
      BY <1>1
    <3> QED BY <1>1, <2>2, <2>3, <3>1 DEF Range
  <2>6. Head(r) = IF q = <<>> THEN x ELSE Head(q)
    BY <1>1, <2>2
  <2> QED BY <1>5, <2>2, <2>4, <2>5, <2>6 DEF r
<1> QED BY <1>4, <1>5

-----------------------------------------------------------------------------
(* There is a QXcbScreen to create: those that exist are of different      *)
(* outputs, or fake and of different desktops.                             *)

\* a screen has an output of its desktop for itself, a fake one the desktop
Own(c) ==
    \A s \in Range(c.screens) :
        /\ c.at[s].output = None => c.at[s].crtc = None
        /\ c.at[s].output # None => c.at[s].output \in Range(OutputsOf[c.at[s].desktop])
        /\ \A t \in Range(c.screens) \ {s} :
              /\ c.at[s].output = None => c.at[t].desktop # c.at[s].desktop
              /\ c.at[s].output # None => c.at[t].output # c.at[s].output

LEMMA Constants ==
    /\ Len(OutputsOf) \in Nat /\ Desktop = 1 .. Len(OutputsOf)
    /\ \A d \in Desktop : OutputsOf[d] \in Seq(Output) /\ Range(OutputsOf[d]) \subseteq Output
    /\ None \notin Output /\ None \notin Crtc /\ PrimaryNumber \in Desktop
    /\ IsFiniteSet(Output) /\ Cardinality(Output) \in Nat
    /\ Slot = 1 .. Cardinality(Output) + Len(OutputsOf)
    /\ MaxGeometry \in Nat /\ MaxGeometry > 0
<1>1. /\ Len(OutputsOf) \in Nat /\ Desktop = 1 .. Len(OutputsOf)
      /\ \A d \in Desktop : OutputsOf[d] \in Seq(Output) /\ Range(OutputsOf[d]) \subseteq Output
  <2>1. Len(OutputsOf) \in Nat /\ Desktop = 1 .. Len(OutputsOf)
    BY ScreensAssumption DEF Desktop
  <2>2. \A d \in Desktop : OutputsOf[d] \in Seq(Output)
    BY ScreensAssumption DEF Desktop
  <2>3. \A d \in Desktop : Range(OutputsOf[d]) \subseteq Output
    BY DEF Output
  <2> QED BY <2>1, <2>2, <2>3
<1>2. IsFiniteSet(Output)
  <2> DEFINE Lists == {Range(OutputsOf[d]) : d \in Desktop}
             list == [d \in Desktop |-> Range(OutputsOf[d])]
  <2>1. IsFiniteSet(Desktop)
    BY <1>1, FS_Interval
  <2>2. list \in Surjection(Desktop, Lists)
    BY DEF Surjection
  <2>3. IsFiniteSet(Lists)
    <3> HIDE DEF list, Lists
    <3> QED BY <2>1, <2>2, FS_Surjection
  <2>4. ASSUME NEW d \in Desktop PROVE IsFiniteSet(Range(OutputsOf[d]))
    <3> DEFINE q == OutputsOf[d]
    <3>1. q \in Seq(Output)
      BY <1>1
    <3> HIDE DEF q
    <3>2. Len(q) \in Nat /\ DOMAIN q = 1 .. Len(q) /\ q \in [1 .. Len(q) -> Output]
      BY <3>1
    <3>3. q \in Surjection(1 .. Len(q), Range(q))
      BY <3>2 DEF Surjection, Range
    <3>4. IsFiniteSet(1 .. Len(q))
      BY <3>2, FS_Interval
    <3>5. IsFiniteSet(Range(q))
      BY <3>3, <3>4, FS_Surjection
    <3> QED BY <3>5 DEF q
  <2>5. \A L \in Lists : IsFiniteSet(L)
    BY <2>4
  <2>6. IsFiniteSet(UNION Lists)
    <3> HIDE DEF Lists
    <3> QED BY <2>3, <2>5, FS_UNION
  <2> QED BY <2>6 DEF Output
<1>3. Cardinality(Output) \in Nat
  BY <1>2, FS_CardinalityType
<1> QED BY <1>1, <1>2, <1>3, ScreensAssumption DEF Slot

LEMMA ScreenToCreate ==
    ASSUME NEW c \in Client, Own(c),
           \/ \E o \in Output : \A s \in Range(c.screens) : c.at[s].output # o
           \/ \E d \in Desktop : \A s \in Range(c.screens) : c.at[s].desktop # d
    PROVE  FreeSlot(c) \in Slot /\ FreeSlot(c) \notin Range(c.screens)
<1> DEFINE N == Cardinality(Output)
           R == Range(c.screens)
<1>1. /\ N \in Nat /\ Len(OutputsOf) \in Nat /\ Desktop = 1 .. Len(OutputsOf)
      /\ Slot = 1 .. N + Len(OutputsOf) /\ None \notin Output /\ IsFiniteSet(Output)
  BY Constants
<1>2. R \subseteq Slot
  <2>1. c.screens \in Seq(Slot)
    BY DEF Client
  <2> QED BY <2>1, Elements
<1>3. PICK h \in Bijection(1 .. N, Output) : TRUE
  BY <1>1, FS_CardinalityType DEF ExistsBijection
<1> HIDE DEF N, R
<1> DEFINE num(o) == CHOOSE i \in 1 .. N : h[i] = o
           use(s) == IF c.at[s].output = None THEN N + c.at[s].desktop ELSE num(c.at[s].output)
           f == [s \in R |-> use(s)]
<1>4. \A o \in Output : num(o) \in 1 .. N /\ h[num(o)] = o
  BY <1>3 DEF Bijection, Surjection
<1> HIDE DEF num
<1>5. \A s \in R : c.at[s].output \in Output \cup {None} /\ c.at[s].desktop \in Desktop
  BY <1>2 DEF Client, Screen
<1>6. \A s \in R : use(s) \in Slot
  BY <1>1, <1>4, <1>5
<1>7. ASSUME NEW s \in R, NEW t \in R, use(s) = use(t) PROVE s = t
  <2>1. /\ c.at[s].output = None /\ s # t => c.at[t].desktop # c.at[s].desktop
        /\ c.at[s].output # None /\ s # t => c.at[t].output # c.at[s].output
    BY DEF Own, R
  <2>2. CASE c.at[s].output = None /\ c.at[t].output = None
    <3>1. N + c.at[s].desktop = N + c.at[t].desktop
      BY <1>7, <2>2
    <3>2. c.at[s].desktop \in Nat /\ c.at[t].desktop \in Nat
      BY <1>1, <1>5
    <3>3. c.at[s].desktop = c.at[t].desktop
      <4>1. \A i, j, k \in Nat : k + i = k + j => i = j
        OBVIOUS
      <4>2. N \in Nat
        BY <1>1
      <4> QED BY <3>1, <3>2, <4>1, <4>2
    <3> QED BY <2>1, <2>2, <3>3
  <2>3. CASE c.at[s].output = None /\ c.at[t].output # None
    BY <1>1, <1>4, <1>5, <1>7, <2>3
  <2>4. CASE c.at[s].output # None /\ c.at[t].output = None
    BY <1>1, <1>4, <1>5, <1>7, <2>4
  <2>5. CASE c.at[s].output # None /\ c.at[t].output # None
    <3>1. num(c.at[s].output) = num(c.at[t].output)
      BY <1>7, <2>5
    <3>2. c.at[s].output = c.at[t].output
      BY <1>4, <1>5, <2>5, <3>1
    <3> QED BY <2>1, <2>5, <3>2
  <2> QED BY <2>2, <2>3, <2>4, <2>5
<1>8. \E m \in Slot : \A s \in R : use(s) # m
  <2>1. CASE \E o \in Output : \A s \in R : c.at[s].output # o
    <3>1. PICK o \in Output : \A s \in R : c.at[s].output # o
      BY <2>1
    <3>2. num(o) \in Slot
      BY <1>1, <1>4
    <3>3. ASSUME NEW s \in R PROVE use(s) # num(o)
      <4>1. CASE c.at[s].output = None
        <5>1. use(s) = N + c.at[s].desktop /\ c.at[s].desktop \in 1 .. Len(OutputsOf)
          BY <1>1, <1>5, <4>1
        <5>2. num(o) \in 1 .. N
          BY <1>4
        <5> QED BY <1>1, <5>1, <5>2
      <4>2. CASE c.at[s].output # None
        <5>1. use(s) = num(c.at[s].output) /\ c.at[s].output \in Output
          BY <1>5, <4>2
        <5> QED BY <1>4, <3>1, <5>1
      <4> QED BY <4>1, <4>2
    <3> QED BY <3>2, <3>3
  <2>2. CASE \E d \in Desktop : \A s \in R : c.at[s].desktop # d
    <3>1. PICK d \in Desktop : \A s \in R : c.at[s].desktop # d
      BY <2>2
    <3>2. N + d \in Slot
      BY <1>1
    <3>3. ASSUME NEW s \in R PROVE use(s) # N + d
      <4>1. CASE c.at[s].output = None
        BY <1>1, <1>5, <3>1, <4>1
      <4>2. CASE c.at[s].output # None
        <5>1. use(s) \in 1 .. N
          BY <1>4, <1>5, <4>2
        <5> QED BY <1>1, <5>1
      <4> QED BY <4>1, <4>2
    <3> QED BY <3>2, <3>3
  <2> QED BY <2>1, <2>2 DEF R
<1>9. R # Slot
  <2> SUFFICES ASSUME R = Slot PROVE FALSE
    OBVIOUS
  <2>1. PICK m \in Slot : \A s \in R : use(s) # m
    BY <1>8
  <2>2. f \in [Slot -> Slot] /\ \A s \in Slot : f[s] = use(s)
    BY <1>6
  <2> HIDE DEF f, use
  <2>3. f \in Injection(Slot, Slot)
    BY <1>7, <2>2 DEF Injection, IsInjective
  <2>4. IsFiniteSet(Slot)
    BY <1>1, FS_Interval
  <2>5. f \in Surjection(Slot, Slot)
    BY <2>3, <2>4, FS_Injection
  <2> QED BY <2>1, <2>2, <2>5 DEF Surjection
<1>10. \E s \in Slot : s \notin R
  BY <1>2, <1>9
<1> QED BY <1>10 DEF FreeSlot, R

-----------------------------------------------------------------------------
(* Each method leaves the lists in step.                                   *)

\* the desktops list the screens of the connection
Listed(c) ==
    /\ IsInjective(c.screens)
    /\ \A d \in Desktop :
          /\ IsInjective(c.siblings[d])
          /\ Range(c.siblings[d]) = {s \in Range(c.screens) : c.at[s].desktop = d}

\* SameScreens and OnePrimary of a client that is ready
Whole(c) ==
    /\ Listed(c)
    /\ IsInjective(c.gui) /\ Range(c.gui) = Range(c.screens)
    /\ \A d \in Desktop : c.siblings[d] # <<>>
    /\ flaggedPrimary(c) = {Head(c.screens)}
    /\ c.at[Head(c.screens)].desktop = PrimaryNumber
    /\ Head(c.siblings[PrimaryNumber]) = Head(c.screens)
    /\ Head(c.gui) = Head(c.screens)

LEMMA ClientTypes ==
    ASSUME NEW c \in Client
    PROVE  /\ c = [at |-> c.at, screens |-> c.screens, siblings |-> c.siblings, gui |-> c.gui]
           /\ c.at \in [Slot -> Screen] /\ c.screens \in Seq(Slot)
           /\ c.siblings \in [Desktop -> Seq(Slot)] /\ c.gui \in Seq(Slot)
           /\ Range(c.screens) \subseteq Slot
           /\ \A d \in Desktop : c.siblings[d] \in Seq(Slot)
<1>1. /\ c = [at |-> c.at, screens |-> c.screens, siblings |-> c.siblings, gui |-> c.gui]
      /\ c.at \in [Slot -> Screen] /\ c.screens \in Seq(Slot)
      /\ c.siblings \in [Desktop -> Seq(Slot)] /\ c.gui \in Seq(Slot)
  BY DEF Client
<1>2. Range(c.screens) \subseteq Slot
  BY <1>1, Elements
<1> QED BY <1>1, <1>2

LEMMA WholeFacts ==
    ASSUME NEW c \in Client, Whole(c), NEW s \in Range(c.screens)
    PROVE  /\ c.screens # <<>> /\ Head(c.screens) \in Range(c.screens)
           /\ Head(c.screens) \in Slot /\ s \in Slot
           /\ c.at[s] \in Screen /\ c.at[s].desktop \in Desktop
           /\ s \in Range(c.siblings[c.at[s].desktop])
           /\ \A t \in Range(c.screens) : c.at[t].primary <=> t = Head(c.screens)
<1>1. c.screens \in Seq(Slot) /\ c.at \in [Slot -> Screen] /\ Range(c.screens) \subseteq Slot
  BY ClientTypes
<1>2. c.screens # <<>>
  <2>1. c.screens = <<>> => Range(c.screens) = {}
    BY DEF Range
  <2> QED BY <2>1
<1>3. Head(c.screens) \in Range(c.screens)
  BY <1>1, <1>2, Elements
<1>4. c.at[s] \in Screen /\ c.at[s].desktop \in Desktop
  BY <1>1 DEF Screen
<1>5. s \in Range(c.siblings[c.at[s].desktop])
  BY <1>4 DEF Whole, Listed
<1>6. \A t \in Range(c.screens) : c.at[t].primary <=> t = Head(c.screens)
  BY DEF Whole, flaggedPrimary
<1> QED BY <1>1, <1>2, <1>3, <1>4, <1>5, <1>6

\* a change of a screen that leaves its desktop and whether it is primary
LEMMA Touched ==
    ASSUME NEW c \in Client, NEW n \in Client, Whole(c),
           n.screens = c.screens, n.siblings = c.siblings, n.gui = c.gui,
           \A t \in Range(c.screens) : /\ n.at[t].desktop = c.at[t].desktop
                                       /\ n.at[t].primary = c.at[t].primary
    PROVE  Whole(n)
<1>1. flaggedPrimary(n) = flaggedPrimary(c)
  BY DEF flaggedPrimary
<1>2. Listed(n)
  BY DEF Whole, Listed
<1>3. Head(c.screens) \in Range(c.screens)
  BY DEF Whole, flaggedPrimary
<1> QED BY <1>1, <1>2, <1>3 DEF Whole

\* updateScreen() gives s the crtc and geometry of the notification, and asks
\* for the primary output
Updated(c, n, s, e) ==
    /\ n \in Client /\ Whole(n) /\ Range(n.screens) = Range(c.screens)
    /\ \A t \in Slot : n.at[t].desktop = c.at[t].desktop /\ n.at[t].output = c.at[t].output
    /\ n.at[s].crtc = e.crtc /\ n.at[s].geometry = geometry[e.crtc]
    /\ \A t \in Slot \ {s} : n.at[t].crtc = c.at[t].crtc /\ n.at[t].geometry = c.at[t].geometry
    /\ c.at[s].desktop = PrimaryNumber /\ rrPrimary = e.output => n.at[s].primary
    /\ rrPrimary # e.output => \A t \in Slot : n.at[t].primary = c.at[t].primary

LEMMA UpdateScreen ==
    ASSUME NEW c \in Client, Whole(c), NEW s \in Range(c.screens),
           NEW e, e.crtc \in Crtc, geometry \in [Crtc -> 0 .. MaxGeometry]
    PROVE  Updated(c, updateScreen(c, s, e), s, e)
<1> SUFFICES ASSUME NEW n, n = updateScreen(c, s, e) PROVE Updated(c, n, s, e)
  OBVIOUS
<1> DEFINE d == c.at[s].desktop
           h == Head(c.screens)
           a == [c.at EXCEPT ![s] = [c.at[s] EXCEPT !.crtc = e.crtc, !.geometry = geometry[e.crtc]]]
           shaped == [c EXCEPT !.at = a]
           b == [a EXCEPT ![h].primary = FALSE]
           f == [b EXCEPT ![s].primary = TRUE]
           asked == /\ d = PrimaryNumber /\ ~c.at[s].primary
                    /\ rrPrimary = e.output
<1>1. /\ c.at \in [Slot -> Screen] /\ c.screens \in Seq(Slot)
      /\ c.siblings \in [Desktop -> Seq(Slot)] /\ c.gui \in Seq(Slot)
      /\ c = [at |-> c.at, screens |-> c.screens, siblings |-> c.siblings, gui |-> c.gui]
  BY ClientTypes
<1>2. /\ s \in Slot /\ h \in Slot /\ c.at[s] \in Screen /\ d \in Desktop
      /\ h \in Range(c.screens) /\ s \in Range(c.siblings[d])
      /\ \A t \in Range(c.screens) : c.at[t].primary <=> t = h
  BY WholeFacts
<1>3. geometry[e.crtc] \in 0 .. MaxGeometry /\ e.crtc # None
  BY Constants
<1>4. /\ a \in [Slot -> Screen] /\ \A t \in Slot \ {s} : a[t] = c.at[t]
      /\ a[s] = [c.at[s] EXCEPT !.crtc = e.crtc, !.geometry = geometry[e.crtc]]
      /\ a[s].crtc = e.crtc /\ a[s].geometry = geometry[e.crtc] /\ a[s].desktop = d
      /\ a[s].output = c.at[s].output /\ a[s].primary = c.at[s].primary
  BY <1>1, <1>2, <1>3 DEF Screen
<1>5. updateGeometry([c EXCEPT !.at[s].crtc = e.crtc], s) = shaped
  <2> DEFINE k == [c EXCEPT !.at[s].crtc = e.crtc]
  <2>1. k.at[s].crtc = e.crtc
    BY <1>1, <1>2 DEF Screen
  <2>2. k = [c EXCEPT !.at = [c.at EXCEPT ![s] = [c.at[s] EXCEPT !.crtc = e.crtc]]]
    BY <1>1, <1>2
  <2>3. [k EXCEPT !.at[s].geometry = geometry[e.crtc]] = shaped
    BY <1>1, <1>2, <2>2 DEF Screen
  <2> HIDE DEF k, shaped
  <2>4. updateGeometry(k, s) = shaped
    BY <1>3, <2>1, <2>3 DEF updateGeometry
  <2> QED BY <2>4 DEF k
<1>6. CASE ~asked
  <2>1. n = shaped
    BY <1>5, <1>6 DEF updateScreen, checkOutputIsPrimary
  <2>2. n.at = a /\ n.screens = c.screens /\ n.siblings = c.siblings /\ n.gui = c.gui /\ n \in Client
    BY <1>1, <1>4, <2>1 DEF Client
  <2> HIDE DEF a
  <2>3. \A t \in Slot : n.at[t].desktop = c.at[t].desktop /\ n.at[t].output = c.at[t].output
                        /\ n.at[t].primary = c.at[t].primary
    BY <1>4, <2>2
  <2>4. Whole(n)
    BY <1>1, <2>2, <2>3, ClientTypes, Touched
  <2>5. n.at[s].crtc = e.crtc /\ n.at[s].geometry = geometry[e.crtc]
    BY <1>4, <2>2
  <2>6. \A t \in Slot \ {s} : n.at[t].crtc = c.at[t].crtc /\ n.at[t].geometry = c.at[t].geometry
    BY <1>4, <2>2
  <2>7. c.at[s].desktop = PrimaryNumber /\ rrPrimary = e.output => n.at[s].primary
    BY <1>6, <1>2, <2>3
  <2> QED BY <2>2, <2>3, <2>4, <2>5, <2>6, <2>7 DEF Updated
<1>7. CASE asked
  <2>1. h # s
    BY <1>2, <1>7
  <2>2. n = [at |-> f, screens |-> SwapToFront(c.screens, s),
             siblings |-> [c.siblings EXCEPT ![d] = SwapToFront(c.siblings[d], s)],
             gui |-> SwapToFront(c.gui, s)]
    <3> DEFINE demoted == setPrimary(shaped, h, FALSE)
               promoted == [setPrimary(demoted, s, TRUE) EXCEPT
                               !.screens = SwapToFront(@, s),
                               !.siblings[c.at[s].desktop] = SwapToFront(@, s)]
    <3>1. n = primaryScreenChanged(promoted, s)
      BY <1>5, <1>7, <2>1 DEF updateScreen, checkOutputIsPrimary
    <3>2. demoted = [c EXCEPT !.at = b]
      BY <1>1, <1>2 DEF setPrimary
    <3>3. setPrimary(demoted, s, TRUE) = [c EXCEPT !.at = f]
      BY <1>1, <1>2, <3>2 DEF setPrimary
    <3>4. promoted = [at |-> f, screens |-> SwapToFront(c.screens, s),
                      siblings |-> [c.siblings EXCEPT ![d] = SwapToFront(c.siblings[d], s)],
                      gui |-> c.gui]
      <4> DEFINE k == setPrimary(demoted, s, TRUE)
      <4>1. k = [at |-> f, screens |-> c.screens, siblings |-> c.siblings, gui |-> c.gui]
        BY <1>1, <3>3
      <4> DEFINE x == SwapToFront(k.screens, s)
                 y == [k.siblings EXCEPT ![d] = SwapToFront(k.siblings[d], s)]
      <4> HIDE DEF f, demoted, k
      <4>2. promoted = [k EXCEPT !.screens = x, !.siblings = y]
        BY DEF k
      <4>3. /\ x = SwapToFront(c.screens, s)
            /\ y = [c.siblings EXCEPT ![d] = SwapToFront(c.siblings[d], s)]
        BY <4>1
      <4> HIDE DEF x, y, promoted
      <4>4. promoted = [at |-> f, screens |-> x, siblings |-> y, gui |-> c.gui]
        BY <4>1, <4>2
      <4> QED BY <4>3, <4>4 DEF promoted
    <3> HIDE DEF f, demoted
    <3> HIDE DEF promoted
    <3> QED BY <3>1, <3>4 DEF primaryScreenChanged
  <2>3. /\ f \in [Slot -> Screen]
        /\ \A t \in Slot : /\ f[t].desktop = c.at[t].desktop /\ f[t].output = c.at[t].output
                           /\ f[t].crtc = a[t].crtc /\ f[t].geometry = a[t].geometry
        /\ \A t \in Range(c.screens) : f[t].primary <=> t = s
    <3> HIDE DEF a
    <3>1. b \in [Slot -> Screen] /\ \A t \in Slot \ {h} : b[t] = a[t]
      <4>1. a[h] \in Screen /\ [a[h] EXCEPT !.primary = FALSE] \in Screen
        BY <1>2, <1>4 DEF Screen
      <4> QED BY <1>2, <1>4, <4>1
    <3>2. b[h] = [a[h] EXCEPT !.primary = FALSE]
      BY <1>2, <1>4
    <3> HIDE DEF b
    <3>3. f \in [Slot -> Screen] /\ \A t \in Slot \ {s} : f[t] = b[t]
      BY <1>2, <3>1 DEF Screen
    <3>4. f[s] = [b[s] EXCEPT !.primary = TRUE]
      BY <1>2, <3>1
    <3> HIDE DEF f
    <3>5. f[s] = [a[s] EXCEPT !.primary = TRUE] /\ f[h] = [a[h] EXCEPT !.primary = FALSE]
      BY <1>2, <2>1, <3>1, <3>2, <3>3, <3>4
    <3>6. f[s].primary = TRUE /\ f[h].primary = FALSE
      BY <1>2, <1>4, <3>5 DEF Screen
    <3>7. \A t \in Slot \ {s, h} : f[t] = c.at[t]
      BY <1>4, <3>1, <3>3
    <3>8. \A t \in {s, h} : /\ f[t].desktop = a[t].desktop /\ f[t].output = a[t].output
                            /\ f[t].crtc = a[t].crtc /\ f[t].geometry = a[t].geometry
      <4>1. a[s] \in Screen /\ a[h] \in Screen
        BY <1>2, <1>4
      <4> HIDE DEF h
      <4> QED BY <3>5, <4>1 DEF Screen
    <3>9. \A t \in Range(c.screens) : t \in Slot
      BY <1>1, ClientTypes
    <3>10. ASSUME NEW t \in Slot
           PROVE  /\ f[t].desktop = c.at[t].desktop /\ f[t].output = c.at[t].output
                  /\ f[t].crtc = a[t].crtc /\ f[t].geometry = a[t].geometry
      <4>1. CASE t \in {s, h}
        <5>1. a[t].desktop = c.at[t].desktop /\ a[t].output = c.at[t].output
          BY <1>2, <1>4
        <5> QED BY <3>8, <4>1, <5>1
      <4>2. CASE t \notin {s, h}
        BY <1>4, <3>7, <4>2
      <4> QED BY <4>1, <4>2
    <3>11. ASSUME NEW t \in Range(c.screens) PROVE f[t].primary <=> t = s
      <4>1. CASE t \in {s, h}
        BY <2>1, <3>6, <4>1
      <4>2. CASE t \notin {s, h}
        BY <1>2, <3>7, <3>9, <4>2
      <4> QED BY <4>1, <4>2
    <3> QED BY <3>3, <3>10, <3>11
  <2> HIDE DEF f, a
  <2>4. /\ SwapToFront(c.screens, s) \in Seq(Slot) /\ IsInjective(SwapToFront(c.screens, s))
        /\ Range(SwapToFront(c.screens, s)) = Range(c.screens) /\ Head(SwapToFront(c.screens, s)) = s
    BY <1>1, Swapped DEF Whole, Listed
  <2>5. /\ SwapToFront(c.gui, s) \in Seq(Slot) /\ IsInjective(SwapToFront(c.gui, s))
        /\ Range(SwapToFront(c.gui, s)) = Range(c.screens) /\ Head(SwapToFront(c.gui, s)) = s
    BY <1>1, Swapped DEF Whole, Listed
  <2>6. /\ SwapToFront(c.siblings[d], s) \in Seq(Slot) /\ IsInjective(SwapToFront(c.siblings[d], s))
        /\ Range(SwapToFront(c.siblings[d], s)) = Range(c.siblings[d])
        /\ SwapToFront(c.siblings[d], s) # <<>> /\ Head(SwapToFront(c.siblings[d], s)) = s
    <3>1. c.siblings[d] \in Seq(Slot) /\ IsInjective(c.siblings[d]) /\ s \in Range(c.siblings[d])
      BY <1>1, <1>2 DEF Whole, Listed
    <3> QED BY <3>1, Swapped
  <2>7. n \in Client /\ n.at = f /\ n.screens = SwapToFront(c.screens, s) /\ n.gui = SwapToFront(c.gui, s)
        /\ n.siblings[d] = SwapToFront(c.siblings[d], s)
        /\ \A e2 \in Desktop \ {d} : n.siblings[e2] = c.siblings[e2]
    BY <1>1, <1>2, <2>2, <2>3, <2>4, <2>5, <2>6, SMTT(30) DEF Client
  <2>8. Listed(n)
    <3>1. \A k \in Desktop : IsInjective(n.siblings[k]) /\ Range(n.siblings[k]) = Range(c.siblings[k])
      BY <2>6, <2>7 DEF Whole, Listed
    <3>2. \A t \in Range(c.screens) : n.at[t].desktop = c.at[t].desktop
      BY <1>1, <2>3, <2>7, ClientTypes
    <3>3. Range(n.screens) = Range(c.screens) /\ IsInjective(n.screens)
      BY <2>4, <2>7
    <3> QED BY <3>1, <3>2, <3>3 DEF Whole, Listed
  <2>9. flaggedPrimary(n) = {s}
    BY <2>3, <2>4, <2>7 DEF flaggedPrimary
  <2>10. Whole(n)
    <3>1. \A k \in Desktop : n.siblings[k] # <<>>
      BY <2>6, <2>7 DEF Whole
    <3>2. Head(n.screens) = s /\ Head(n.gui) = s /\ n.at[s].desktop = PrimaryNumber
      BY <1>2, <1>7, <2>3, <2>4, <2>5, <2>7
    <3>3. Head(n.siblings[PrimaryNumber]) = s
      BY <1>7, <2>6, <2>7
    <3>4. IsInjective(n.gui) /\ Range(n.gui) = Range(n.screens)
      BY <2>4, <2>5, <2>7
    <3> QED BY <2>8, <2>9, <3>1, <3>2, <3>3, <3>4 DEF Whole
  <2>11. Range(n.screens) = Range(c.screens)
    BY <2>4, <2>7
  <2>12. /\ \A t \in Slot : n.at[t].desktop = c.at[t].desktop /\ n.at[t].output = c.at[t].output
         /\ n.at[s].crtc = e.crtc /\ n.at[s].geometry = geometry[e.crtc]
         /\ \A t \in Slot \ {s} : n.at[t].crtc = c.at[t].crtc /\ n.at[t].geometry = c.at[t].geometry
    <3>1. \A t \in Slot : n.at[t].desktop = c.at[t].desktop /\ n.at[t].output = c.at[t].output
      BY <2>3, <2>7
    <3>2. n.at[s].crtc = e.crtc /\ n.at[s].geometry = geometry[e.crtc]
      BY <1>2, <1>4, <2>3, <2>7
    <3>3. ASSUME NEW t \in Slot \ {s}
          PROVE  n.at[t].crtc = c.at[t].crtc /\ n.at[t].geometry = c.at[t].geometry
      BY <1>4, <2>3, <2>7
    <3> QED BY <3>1, <3>2, <3>3
  <2>13. n.at[s].primary
    BY <2>3, <2>7
  <2> QED BY <1>7, <2>7, <2>10, <2>11, <2>12, <2>13 DEF Updated
<1> QED BY <1>6, <1>7

\* createScreen() adds s, the screen of o as the server answers for it
Created(c, n, s, d, o) ==
    /\ n \in Client /\ Whole(n) /\ Range(n.screens) = Range(c.screens) \cup {s}
    /\ n.at[s].desktop = d /\ n.at[s].output = o /\ n.at[s].crtc = crtcOf[o]
    /\ crtcOf[o] # None => n.at[s].geometry = geometry[crtcOf[o]]
    /\ \A t \in Range(c.screens) :
          /\ n.at[t].desktop = c.at[t].desktop /\ n.at[t].output = c.at[t].output
          /\ n.at[t].crtc = c.at[t].crtc /\ n.at[t].geometry = c.at[t].geometry
    /\ d = PrimaryNumber /\ rrPrimary = o => n.at[s].primary
    /\ rrPrimary # o => \A t \in Range(c.screens) : n.at[t].primary = c.at[t].primary

LEMMA CreateScreen ==
    ASSUME NEW c \in Client, Whole(c), NEW d \in Desktop, NEW e, e.output \in Output,
           crtcOf \in [Output -> Crtc \cup {None}], geometry \in [Crtc -> 0 .. MaxGeometry],
           FreeSlot(c) \in Slot, FreeSlot(c) \notin Range(c.screens)
    PROVE  Created(c, createScreen(c, d, e), FreeSlot(c), d, e.output)
<1> SUFFICES ASSUME NEW n, n = createScreen(c, d, e), NEW s, s = FreeSlot(c)
             PROVE  Created(c, n, s, d, e.output)
  OBVIOUS
<1> DEFINE h == Head(c.screens)
           p == d = PrimaryNumber /\ rrPrimary = e.output
           z == [NewScreen(d, e.output) EXCEPT !.primary = p]
           b == IF p THEN [c.at EXCEPT ![h].primary = FALSE] ELSE c.at
           f == [b EXCEPT ![s] = z]
           R == Range(c.screens)
<1>1. /\ c.at \in [Slot -> Screen] /\ c.screens \in Seq(Slot)
      /\ c.siblings \in [Desktop -> Seq(Slot)] /\ c.gui \in Seq(Slot)
      /\ c = [at |-> c.at, screens |-> c.screens, siblings |-> c.siblings, gui |-> c.gui]
      /\ R \subseteq Slot
  BY ClientTypes
<1>2. /\ h \in Slot /\ h \in R /\ c.screens # <<>>
      /\ \A t \in R : c.at[t].primary <=> t = h
  <2>1. h \in Range(c.screens)
    BY DEF Whole, flaggedPrimary
  <2> QED BY <2>1, WholeFacts
<1>3. /\ z \in Screen /\ z.desktop = d /\ z.output = e.output /\ z.crtc = crtcOf[e.output]
      /\ z.primary = p
      /\ z.crtc # None => z.geometry = geometry[z.crtc]
  <2>1. crtcOf[e.output] \in Crtc \cup {None} /\ None \notin Crtc
    BY Constants
  <2>2. 0 \in 0 .. MaxGeometry
    BY Constants
  <2>3. z = [desktop |-> d, output |-> e.output, crtc |-> crtcOf[e.output],
             geometry |-> IF crtcOf[e.output] = None THEN 0 ELSE geometry[crtcOf[e.output]],
             primary |-> p]
    <3> DEFINE g == IF crtcOf[e.output] = None THEN 0 ELSE geometry[crtcOf[e.output]]
               k == NewScreen(d, e.output)
    <3>1. k = [Fake EXCEPT !.desktop = d, !.output = e.output, !.crtc = crtcOf[e.output], !.geometry = g]
      BY DEF NewScreen
    <3> HIDE DEF g, k, p
    <3>2. k = [desktop |-> d, output |-> e.output, crtc |-> crtcOf[e.output],
               geometry |-> g, primary |-> FALSE]
      BY <3>1 DEF Fake
    <3>3. [k EXCEPT !.primary = p]
            = [desktop |-> d, output |-> e.output, crtc |-> crtcOf[e.output],
               geometry |-> g, primary |-> p]
      BY <3>2
    <3> QED BY <3>3 DEF g, k
  <2>4. (IF crtcOf[e.output] = None THEN 0 ELSE geometry[crtcOf[e.output]]) \in 0 .. MaxGeometry
    BY <2>1, <2>2
  <2> HIDE DEF z
  <2> QED BY <2>1, <2>3, <2>4 DEF Screen
<1>4. p \in BOOLEAN
  OBVIOUS
<1>5. n = [at |-> f, screens |-> Inserted(c.screens, s, p),
           siblings |-> [c.siblings EXCEPT ![d] = Inserted(c.siblings[d], s, p)],
           gui |-> Inserted(c.gui, s, p)]
  <2> DEFINE k == IF p THEN setPrimary(c, h, FALSE) ELSE c
             x == Inserted(k.screens, s, p)
             y == [k.siblings EXCEPT ![d] = Inserted(k.siblings[d], s, p)]
             u == Inserted(k.gui, s, p)
             a == [k.at EXCEPT ![s] = z]
  <2>1. k = [at |-> b, screens |-> c.screens, siblings |-> c.siblings, gui |-> c.gui]
    <3>1. CASE p
      <4> HIDE DEF p
      <4>1. k = [c EXCEPT !.at[h].primary = FALSE] /\ b = [c.at EXCEPT ![h].primary = FALSE]
        BY <3>1 DEF setPrimary
      <4> HIDE DEF k, b
      <4>2. k = [c EXCEPT !.at = b]
        BY <4>1
      <4> QED BY <1>1, <4>2
    <3>2. CASE ~p
      BY <1>1, <3>2
    <3> QED BY <3>1, <3>2
  <2>2. n = [k EXCEPT !.at[s] = z, !.screens = Inserted(@, s, p),
                      !.siblings[d] = Inserted(@, s, p), !.gui = Inserted(@, s, p)]
    BY DEF createScreen, checkOutputIsPrimary
  <2> HIDE DEF k, z, p
  <2>3. n = [k EXCEPT !.at = a, !.screens = x, !.siblings = y, !.gui = u]
    BY <2>2
  <2> HIDE DEF b
  <2>4. /\ a = f /\ x = Inserted(c.screens, s, p) /\ u = Inserted(c.gui, s, p)
        /\ y = [c.siblings EXCEPT ![d] = Inserted(c.siblings[d], s, p)]
    BY <2>1
  <2> HIDE DEF a, x, y, u
  <2>5. n = [at |-> a, screens |-> x, siblings |-> y, gui |-> u]
    BY <2>1, <2>3
  <2> QED BY <2>4, <2>5
<1> HIDE DEF z
<1>6. /\ b \in [Slot -> Screen] /\ \A t \in Slot \ {h} : b[t] = c.at[t]
      /\ p => b[h] = [c.at[h] EXCEPT !.primary = FALSE]
      /\ ~p => b[h] = c.at[h]
      /\ c.at[h] \in Screen
  <2>1. CASE p
    <3> HIDE DEF p
    <3>1. c.at[h] \in Screen /\ [c.at[h] EXCEPT !.primary = FALSE] \in Screen
      <4>1. c.at[h] \in Screen
        BY <1>1, <1>2
      <4> QED BY <4>1 DEF Screen
    <3>2. b = [c.at EXCEPT ![h] = [c.at[h] EXCEPT !.primary = FALSE]]
      BY <2>1
    <3> HIDE DEF b
    <3> QED BY <1>1, <1>2, <2>1, <3>1, <3>2
  <2>2. CASE ~p
    BY <1>1, <1>2, <2>2
  <2> QED BY <2>1, <2>2
<1> HIDE DEF b, p
<1>7. f \in [Slot -> Screen] /\ f[s] = z /\ \A t \in Slot \ {s} : f[t] = b[t]
  BY <1>3, <1>6
<1> HIDE DEF f
<1>8. \A t \in R : /\ f[t].desktop = c.at[t].desktop /\ f[t].output = c.at[t].output
                   /\ f[t].crtc = c.at[t].crtc /\ f[t].geometry = c.at[t].geometry
                   /\ f[t].primary = IF p THEN FALSE ELSE c.at[t].primary
  <2> SUFFICES ASSUME NEW t \in R
      PROVE  /\ f[t].desktop = c.at[t].desktop /\ f[t].output = c.at[t].output
             /\ f[t].crtc = c.at[t].crtc /\ f[t].geometry = c.at[t].geometry
             /\ f[t].primary = IF p THEN FALSE ELSE c.at[t].primary
    OBVIOUS
  <2>1. t \in Slot /\ f[t] = b[t] /\ c.at[t] \in Screen
    BY <1>1, <1>7
  <2>2. CASE t # h
    BY <1>2, <1>6, <2>1, <2>2 DEF Screen
  <2>3. CASE t = h /\ p
    <3>1. f[t] = [c.at[t] EXCEPT !.primary = FALSE]
      BY <1>6, <2>1, <2>3
    <3> QED BY <2>1, <2>3, <3>1 DEF Screen
  <2>4. CASE t = h /\ ~p
    BY <1>6, <2>1, <2>4
  <2> QED BY <2>2, <2>3, <2>4
<1>9. /\ Inserted(c.screens, s, p) \in Seq(Slot) /\ IsInjective(Inserted(c.screens, s, p))
      /\ Range(Inserted(c.screens, s, p)) = R \cup {s}
      /\ Head(Inserted(c.screens, s, p)) = IF p THEN s ELSE h
  BY <1>1, <1>2, <1>4, Insertion DEF Whole, Listed
<1>10. /\ Inserted(c.gui, s, p) \in Seq(Slot) /\ IsInjective(Inserted(c.gui, s, p))
       /\ Range(Inserted(c.gui, s, p)) = R \cup {s}
       /\ Head(Inserted(c.gui, s, p)) = IF p THEN s ELSE h
  <2>1. c.gui # <<>>
    <3>1. c.gui = <<>> => Range(c.gui) = {}
      BY DEF Range
    <3> QED BY <1>2, <3>1 DEF Whole
  <2>2. s \notin Range(c.gui) /\ IsInjective(c.gui) /\ Range(c.gui) = R /\ Head(c.gui) = h
    BY DEF Whole
  <2> QED BY <1>1, <1>4, <2>1, <2>2, Insertion
<1>11. /\ Inserted(c.siblings[d], s, p) \in Seq(Slot) /\ IsInjective(Inserted(c.siblings[d], s, p))
       /\ Range(Inserted(c.siblings[d], s, p)) = Range(c.siblings[d]) \cup {s}
       /\ Inserted(c.siblings[d], s, p) # <<>>
       /\ Head(Inserted(c.siblings[d], s, p)) = IF p THEN s ELSE Head(c.siblings[d])
  <2>1. /\ s \notin Range(c.siblings[d]) /\ IsInjective(c.siblings[d]) /\ c.siblings[d] # <<>>
        /\ c.siblings[d] \in Seq(Slot)
    BY <1>1 DEF Whole, Listed
  <2> QED BY <1>4, <2>1, Insertion
<1>12. /\ n \in Client /\ n.at = f /\ n.screens = Inserted(c.screens, s, p)
       /\ n.gui = Inserted(c.gui, s, p) /\ n.siblings[d] = Inserted(c.siblings[d], s, p)
       /\ \A k \in Desktop \ {d} : n.siblings[k] = c.siblings[k]
  BY <1>1, <1>5, <1>7, <1>9, <1>10, <1>11 DEF Client
<1>13. Range(n.screens) = R \cup {s} /\ IsInjective(n.screens)
       /\ Head(n.screens) = (IF p THEN s ELSE h)
  BY <1>9, <1>12
<1>14. Listed(n)
  <2>1. \A k \in Desktop : IsInjective(n.siblings[k])
    BY <1>11, <1>12 DEF Whole, Listed
  <2>2. \A t \in R : n.at[t].desktop = c.at[t].desktop
    BY <1>8, <1>12
  <2>3. n.at[s].desktop = d
    BY <1>3, <1>7, <1>12
  <2>4. Range(n.siblings[d]) = {t \in R \cup {s} : n.at[t].desktop = d}
    BY <1>11, <1>12, <2>2, <2>3 DEF Whole, Listed
  <2>5. \A k \in Desktop \ {d} : Range(n.siblings[k]) = {t \in R \cup {s} : n.at[t].desktop = k}
    BY <1>12, <2>2, <2>3 DEF Whole, Listed
  <2> QED BY <1>13, <2>1, <2>4, <2>5 DEF Listed
<1>15. flaggedPrimary(n) = {IF p THEN s ELSE h}
  <2>1. \A t \in R : n.at[t].primary = IF p THEN FALSE ELSE c.at[t].primary
    BY <1>8, <1>12
  <2>2. n.at[s].primary = p
    BY <1>3, <1>7, <1>12
  <2>3. CASE p
    BY <1>13, <2>1, <2>2, <2>3 DEF flaggedPrimary
  <2>4. CASE ~p
    <3>1. ASSUME NEW t \in R \cup {s} PROVE n.at[t].primary <=> t = h
      BY <1>2, <2>1, <2>2, <2>4
    <3> QED BY <1>2, <1>13, <2>4, <3>1 DEF flaggedPrimary
  <2> QED BY <2>3, <2>4
<1>16. Whole(n)
  <2>1. \A k \in Desktop : n.siblings[k] # <<>>
    BY <1>11, <1>12 DEF Whole
  <2>2. n.at[Head(n.screens)].desktop = PrimaryNumber
    <3>1. CASE p
      BY <1>3, <1>7, <1>12, <1>13, <3>1 DEF p
    <3>2. CASE ~p
      <4>1. n.at[h].desktop = c.at[h].desktop
        BY <1>2, <1>8, <1>12
      <4> QED BY <1>13, <3>2, <4>1 DEF Whole
    <3> QED BY <3>1, <3>2
  <2>3. Head(n.siblings[PrimaryNumber]) = Head(n.screens)
    <3>1. CASE p
      BY <1>11, <1>12, <1>13, <3>1 DEF p
    <3>2. CASE ~p /\ d = PrimaryNumber
      BY <1>11, <1>12, <1>13, <3>2 DEF Whole
    <3>3. CASE ~p /\ d # PrimaryNumber
      BY <1>12, <1>13, <3>3, Constants DEF Whole
    <3> QED BY <3>1, <3>2, <3>3
  <2>4. IsInjective(n.gui) /\ Range(n.gui) = Range(n.screens) /\ Head(n.gui) = Head(n.screens)
    BY <1>10, <1>12, <1>13
  <2> QED BY <1>13, <1>14, <1>15, <2>1, <2>2, <2>3, <2>4 DEF Whole
<1>17. \A t \in R : /\ n.at[t].desktop = c.at[t].desktop /\ n.at[t].output = c.at[t].output
                    /\ n.at[t].crtc = c.at[t].crtc /\ n.at[t].geometry = c.at[t].geometry
  BY <1>8, <1>12
<1>18. /\ n.at[s].desktop = d /\ n.at[s].output = e.output /\ n.at[s].crtc = crtcOf[e.output]
       /\ crtcOf[e.output] # None => n.at[s].geometry = geometry[crtcOf[e.output]]
       /\ d = PrimaryNumber /\ rrPrimary = e.output => n.at[s].primary
  BY <1>3, <1>7, <1>12 DEF p
<1>19. rrPrimary # e.output => \A t \in R : n.at[t].primary = c.at[t].primary
  BY <1>8, <1>12 DEF p
<1> QED BY <1>12, <1>13, <1>16, <1>17, <1>18, <1>19 DEF Created

\* destroyScreen() removes s, or makes it fake when its desktop has no other
Destroyed(c, n, s) ==
    /\ n \in Client /\ Whole(n)
    /\ \/ /\ Range(n.screens) = Range(c.screens)
          /\ Range(c.siblings[c.at[s].desktop]) = {s}
          /\ n.at[s].output = None /\ n.at[s].crtc = None
          /\ n.at[s].desktop = c.at[s].desktop
          /\ \A t \in Slot \ {s} : n.at[t] = c.at[t]
       \/ /\ Range(n.screens) = Range(c.screens) \ {s}
          /\ \A t \in Slot :
                /\ n.at[t].desktop = c.at[t].desktop /\ n.at[t].output = c.at[t].output
                /\ n.at[t].crtc = c.at[t].crtc /\ n.at[t].geometry = c.at[t].geometry
    /\ \A t \in Range(c.screens) : c.at[t].primary /\ t # s => n.at[t].primary

LEMMA DestroyScreen ==
    ASSUME NEW c \in Client, Whole(c), NEW s \in Range(c.screens)
    PROVE  Destroyed(c, destroyScreen(c, s), s)
<1> SUFFICES ASSUME NEW n, n = destroyScreen(c, s),
                    NEW d \in Desktop, d = c.at[s].desktop
             PROVE  Destroyed(c, n, s)
  BY WholeFacts
<1> DEFINE h == Head(c.screens)
           R == Range(c.screens)
           q == c.siblings[d]
<1>1. /\ c.at \in [Slot -> Screen] /\ c.screens \in Seq(Slot)
      /\ c.siblings \in [Desktop -> Seq(Slot)] /\ c.gui \in Seq(Slot)
      /\ c = [at |-> c.at, screens |-> c.screens, siblings |-> c.siblings, gui |-> c.gui]
      /\ R \subseteq Slot
  BY ClientTypes
<1>2. /\ h \in Slot /\ h \in R /\ s \in Slot /\ c.at[s] \in Screen /\ s \in Range(q)
      /\ \A t \in R : c.at[t].primary <=> t = h
  BY WholeFacts
<1>3. /\ q \in Seq(Slot) /\ IsInjective(q) /\ Range(q) = {t \in R : c.at[t].desktop = d}
      /\ IsInjective(c.screens) /\ IsInjective(c.gui) /\ Range(c.gui) = R
      /\ Head(c.gui) = h /\ c.at[h].desktop = PrimaryNumber
      /\ Head(c.siblings[PrimaryNumber]) = h
  BY <1>1 DEF Whole, Listed
<1>4. CASE Len(q) = 1
  <2> DEFINE a == [c.at EXCEPT ![s] = [c.at[s] EXCEPT !.output = None, !.crtc = None]]
  <2>1. n = [c EXCEPT !.at[s].output = None, !.at[s].crtc = None]
    BY <1>4 DEF destroyScreen
  <2>2. /\ a \in [Slot -> Screen] /\ \A t \in Slot \ {s} : a[t] = c.at[t]
        /\ a[s] = [c.at[s] EXCEPT !.output = None, !.crtc = None]
        /\ a[s].output = None /\ a[s].crtc = None /\ a[s].desktop = d
        /\ a[s].primary = c.at[s].primary
    BY <1>1, <1>2 DEF Screen
  <2>3. n = [c EXCEPT !.at = a]
    BY <1>1, <1>2, <2>1
  <2> HIDE DEF a
  <2>4. n \in Client /\ n.at = a /\ n.screens = c.screens /\ n.siblings = c.siblings /\ n.gui = c.gui
    BY <1>1, <2>2, <2>3 DEF Client
  <2>5. \A t \in R : n.at[t].desktop = c.at[t].desktop /\ n.at[t].primary = c.at[t].primary
    BY <1>1, <2>2, <2>4
  <2>6. Whole(n)
    BY <2>4, <2>5, Touched
  <2>7. Range(q) = {s}
    <3>1. q \in [1 .. 1 -> Slot] /\ \A x : x \in Range(q) <=> \E i \in 1 .. 1 : q[i] = x
      BY <1>3, <1>4, Elements
    <3> QED BY <1>2, <3>1
  <2> QED BY <2>2, <2>4, <2>5, <2>6, <2>7 DEF Destroyed
<1>5. CASE Len(q) # 1
  <2> DEFINE r == removeOne(q, s)
             m == removeOne(c.screens, s)
             removed == [c EXCEPT !.screens = removeOne(@, s),
                                  !.siblings[c.at[s].desktop] = removeOne(@, s)]
             next == Head(removed.siblings[c.at[s].desktop])
             left == IF c.at[s].primary
                     THEN primaryScreenChanged(
                              [setPrimary(removed, next, TRUE) EXCEPT !.screens = SwapToFront(@, next)],
                              next)
                     ELSE removed
             p == c.at[s].primary
             b == [c.at EXCEPT ![next] = [c.at[next] EXCEPT !.primary = TRUE]]
             sib == [c.siblings EXCEPT ![d] = r]
  <2>1. n = [left EXCEPT !.gui = removeOne(@, s)]
    <3>1. Len(c.siblings[c.at[s].desktop]) # 1
      BY <1>5
    <3> QED BY <3>1 DEF destroyScreen
  <2>2. removed = [at |-> c.at, screens |-> m, siblings |-> sib, gui |-> c.gui]
    <3>1. removed = [c EXCEPT !.screens = m, !.siblings = sib]
      OBVIOUS
    <3> HIDE DEF removed, m, sib
    <3> QED BY <1>1, <3>1
  <2>3. next = Head(r)
    <3>1. sib[d] = r
      BY <1>1
    <3> HIDE DEF removed, sib, r
    <3>2. removed.siblings = sib
      BY <2>2
    <3> QED BY <3>1, <3>2
  <2> HIDE DEF removed, next, left
  <2>4. /\ r \in Seq(Slot) /\ IsInjective(r) /\ Range(r) = Range(q) \ {s} /\ Len(r) = Len(q) - 1
        /\ s # Head(q) => Head(r) = Head(q)
    BY <1>2, <1>3, Removed
  <2>5. /\ m \in Seq(Slot) /\ IsInjective(m) /\ Range(m) = R \ {s}
        /\ s # h => Head(m) = h
    BY <1>1, <1>3, Removed
  <2>6. r # <<>> /\ next \in Range(r)
    <3>1. Len(q) \in Nat /\ Len(q) > 0
      <4>1. Len(q) \in Nat /\ \E i \in 1 .. Len(q) : q[i] = s
        BY <1>2, <1>3, Elements
      <4> QED BY <4>1
    <3> HIDE DEF r, q
    <3>2. Len(r) > 0
      BY <1>5, <2>4, <3>1
    <3> QED BY <2>4, <2>3, <3>2, Elements
  <2>7. next \in R \ {s} /\ next \in Slot /\ c.at[next].desktop = d
    BY <1>1, <1>3, <2>4, <2>6
  <2> HIDE DEF r, m
  <2>8. /\ b \in [Slot -> Screen] /\ b[next] = [c.at[next] EXCEPT !.primary = TRUE]
        /\ \A t \in Slot \ {next} : b[t] = c.at[t]
    <3>1. [c.at[next] EXCEPT !.primary = TRUE] \in Screen
      BY <1>1, <2>7 DEF Screen
    <3> QED BY <1>1, <2>7, <3>1
  <2>9. \A t \in Slot :
           /\ b[t].desktop = c.at[t].desktop /\ b[t].output = c.at[t].output
           /\ b[t].crtc = c.at[t].crtc /\ b[t].geometry = c.at[t].geometry
           /\ b[t].primary = IF t = next THEN TRUE ELSE c.at[t].primary
    <3>1. /\ b[next].desktop = c.at[next].desktop /\ b[next].output = c.at[next].output
          /\ b[next].crtc = c.at[next].crtc /\ b[next].geometry = c.at[next].geometry
          /\ b[next].primary = TRUE
      <4>1. c.at[next] \in Screen
        BY <1>1, <2>7
      <4> HIDE DEF b
      <4> QED BY <2>8, <4>1 DEF Screen
    <3> HIDE DEF b
    <3> QED BY <2>8, <3>1
  <2>10. sib \in [Desktop -> Seq(Slot)] /\ sib[d] = r /\ \A k \in Desktop \ {d} : sib[k] = c.siblings[k]
    BY <1>1, <2>4
  <2>11. CASE ~p
    <3>1. s # h
      BY <1>2, <2>11
    <3>2. n = [at |-> c.at, screens |-> m, siblings |-> sib, gui |-> removeOne(c.gui, s)]
      <4>1. left = removed
        BY <2>11 DEF left
      <4> HIDE DEF sib
      <4> QED BY <2>2, <2>1, <4>1
    <3>3. /\ removeOne(c.gui, s) \in Seq(Slot) /\ IsInjective(removeOne(c.gui, s))
          /\ Range(removeOne(c.gui, s)) = R \ {s} /\ Head(removeOne(c.gui, s)) = h
      BY <1>1, <1>3, <3>1, Removed
    <3> HIDE DEF sib
    <3>4. /\ n \in Client /\ n.at = c.at /\ n.screens = m /\ n.siblings = sib
          /\ n.gui = removeOne(c.gui, s)
      BY <1>1, <2>5, <2>10, <3>2, <3>3 DEF Client
    <3>5. Listed(n)
      <4>1. \A k \in Desktop \ {d} : IsInjective(n.siblings[k])
                 /\ Range(n.siblings[k]) = {t \in R \ {s} : n.at[t].desktop = k}
        BY <2>10, <3>4 DEF Whole, Listed
      <4>2. IsInjective(n.siblings[d]) /\ Range(n.siblings[d]) = {t \in R \ {s} : n.at[t].desktop = d}
        BY <1>3, <2>4, <2>10, <3>4
      <4> QED BY <2>5, <3>4, <4>1, <4>2 DEF Listed
    <3>6. flaggedPrimary(n) = {h}
      BY <1>2, <2>5, <3>1, <3>4 DEF flaggedPrimary
    <3>7. Whole(n)
      <4>1. \A k \in Desktop : n.siblings[k] # <<>>
        BY <2>6, <2>10, <3>4 DEF Whole
      <4>2. Head(n.screens) = h /\ Head(n.gui) = h /\ IsInjective(n.gui) /\ Range(n.gui) = Range(n.screens)
        BY <2>5, <3>1, <3>3, <3>4
      <4>3. n.at[h].desktop = PrimaryNumber
        BY <1>3, <3>4
      <4>4. Head(n.siblings[PrimaryNumber]) = h
        <5>1. CASE d = PrimaryNumber
          BY <1>3, <2>4, <2>10, <3>1, <3>4, <5>1
        <5>2. CASE d # PrimaryNumber
          BY <1>3, <2>10, <3>4, <5>2, Constants
        <5> QED BY <5>1, <5>2
      <4> QED BY <3>5, <3>6, <4>1, <4>2, <4>3, <4>4 DEF Whole
    <3> QED BY <2>5, <3>4, <3>7 DEF Destroyed
  <2>12. CASE p
    <3>1. s = h /\ d = PrimaryNumber
      BY <1>2, <1>3, <2>12
    <3> DEFINE w == SwapToFront(m, next)
               v == SwapToFront(c.gui, next)
               g == removeOne(v, s)
    <3>2. n = [at |-> b, screens |-> w, siblings |-> sib, gui |-> g]
      <4> DEFINE k1 == setPrimary(removed, next, TRUE)
                 k2 == [k1 EXCEPT !.screens = SwapToFront(@, next)]
      <4>1. left = primaryScreenChanged(k2, next)
        BY <2>12 DEF left
      <4> HIDE DEF sib
      <4>2. k1 = [at |-> b, screens |-> m, siblings |-> sib, gui |-> c.gui]
        <5>1. removed.at = c.at
          BY <2>2
        <5>2. k1 = [removed EXCEPT !.at = b]
          BY <1>1, <2>7, <5>1 DEF setPrimary
        <5> HIDE DEF b, k1
        <5> QED BY <2>2, <5>2
      <4> HIDE DEF b, k1
      <4>3. k2 = [at |-> b, screens |-> w, siblings |-> sib, gui |-> c.gui]
        BY <4>2
      <4> HIDE DEF k2, w
      <4>4. left = [at |-> b, screens |-> w, siblings |-> sib, gui |-> v]
        BY <4>1, <4>3 DEF primaryScreenChanged
      <4> HIDE DEF v
      <4> QED BY <2>1, <4>4
    <3>3. /\ w \in Seq(Slot) /\ IsInjective(w) /\ Range(w) = R \ {s} /\ Head(w) = next
      BY <2>5, <2>7, Swapped
    <3>4. /\ v \in Seq(Slot) /\ IsInjective(v) /\ Range(v) = R /\ Head(v) = next
      BY <1>1, <1>3, <2>7, Swapped
    <3> HIDE DEF v, w
    <3>5. /\ g \in Seq(Slot) /\ IsInjective(g) /\ Range(g) = R \ {s} /\ Head(g) = next
      BY <2>7, <3>4, Removed
    <3> HIDE DEF sib, g, b
    <3>6. n \in Client /\ n.at = b /\ n.screens = w /\ n.siblings = sib /\ n.gui = g
      BY <2>8, <2>10, <3>2, <3>3, <3>5 DEF Client
    <3>7. Listed(n)
      <4>1. \A t \in R : n.at[t].desktop = c.at[t].desktop
        BY <1>1, <2>9, <3>6
      <4>2. \A k \in Desktop \ {d} : IsInjective(n.siblings[k])
                 /\ Range(n.siblings[k]) = {t \in R \ {s} : n.at[t].desktop = k}
        <5>1. \A k \in Desktop \ {d} : n.siblings[k] = c.siblings[k]
          BY <2>10, <3>6
        <5>2. \A k \in Desktop : IsInjective(c.siblings[k])
                 /\ Range(c.siblings[k]) = {t \in R : c.at[t].desktop = k}
          BY DEF Whole, Listed
        <5>3. \A k \in Desktop \ {d} : {t \in R : c.at[t].desktop = k}
                                       = {t \in R \ {s} : n.at[t].desktop = k}
          BY <4>1
        <5> QED BY <5>1, <5>2, <5>3
      <4>3. IsInjective(n.siblings[d]) /\ Range(n.siblings[d]) = {t \in R \ {s} : n.at[t].desktop = d}
        BY <1>3, <2>4, <2>10, <3>6, <4>1
      <4> QED BY <3>3, <3>6, <4>2, <4>3 DEF Listed
    <3>8. flaggedPrimary(n) = {next}
      <4>1. \A t \in R \ {s} : n.at[t].primary <=> t = next
        BY <1>1, <1>2, <2>9, <3>1, <3>6
      <4> QED BY <2>7, <3>3, <3>6, <4>1 DEF flaggedPrimary
    <3>9. Whole(n)
      <4>1. \A k \in Desktop : n.siblings[k] # <<>>
        BY <2>6, <2>10, <3>6 DEF Whole
      <4>2. /\ Head(n.screens) = next /\ Head(n.gui) = next /\ IsInjective(n.gui)
            /\ Range(n.gui) = Range(n.screens)
        BY <3>3, <3>5, <3>6
      <4>3. n.at[next].desktop = PrimaryNumber
        BY <2>7, <2>9, <3>1, <3>6
      <4>4. Head(n.siblings[PrimaryNumber]) = next
        BY <2>3, <2>10, <3>1, <3>6
      <4> QED BY <3>7, <3>8, <4>1, <4>2, <4>3, <4>4 DEF Whole
    <3>10. \A t \in R : c.at[t].primary /\ t # s => n.at[t].primary
      BY <1>2, <3>1
    <3> QED BY <2>9, <3>3, <3>6, <3>9, <3>10 DEF Destroyed
  <2> QED BY <2>11, <2>12
<1> QED BY <1>4, <1>5

\* what a notification about o leaves alone: the screens of other outputs
Spared(c, n, o) ==
    /\ \A t \in Range(n.screens) : n.at[t].output \notin {o, None} =>
          /\ t \in Range(c.screens) /\ c.at[t].output = n.at[t].output
          /\ n.at[t].crtc = c.at[t].crtc /\ n.at[t].geometry = c.at[t].geometry
          /\ rrPrimary # o /\ c.at[t].primary => n.at[t].primary
    /\ \A t \in Range(c.screens) : c.at[t].output \notin {o, None} =>
          t \in Range(n.screens) /\ n.at[t].output = c.at[t].output

\* the types of the server's state
Server ==
    /\ connected \in [Output -> BOOLEAN] /\ crtcOf \in [Output -> Crtc \cup {None}]
    /\ geometry \in [Crtc -> 0 .. MaxGeometry]
    /\ rrPrimary \in Range(OutputsOf[PrimaryNumber]) \cup {None}

LEMMA TheDesktop ==
    ASSUME NEW o \in Output
    PROVE  /\ DesktopOf(o) \in Desktop /\ o \in Range(OutputsOf[DesktopOf(o)])
           /\ \A d \in Desktop : o \in Range(OutputsOf[d]) => d = DesktopOf(o)
<1>1. \E d \in Desktop : o \in Range(OutputsOf[d])
  BY DEF Output
<1>2. DesktopOf(o) \in Desktop /\ o \in Range(OutputsOf[DesktopOf(o)])
  BY <1>1 DEF DesktopOf
<1> QED BY <1>2, ScreensAssumption

\* o has no screen any more
Gone(c, n, o) ==
    /\ n \in Client /\ Whole(n) /\ Own(n) /\ Spared(c, n, o)
    /\ \A t \in Range(n.screens) : n.at[t].output # o

LEMMA OutputDestroyed ==
    ASSUME NEW c \in Client, Whole(c), Own(c), NEW s \in Range(c.screens),
           NEW o \in Output, c.at[s].output = o
    PROVE  Gone(c, destroyScreen(c, s), o)
<1> SUFFICES ASSUME NEW n, n = destroyScreen(c, s) PROVE Gone(c, n, o)
  OBVIOUS
<1> DEFINE d == c.at[s].desktop
           R == Range(c.screens)
<1>1. d \in Desktop /\ o # None /\ R \subseteq Slot
  BY WholeFacts, Constants, ClientTypes
<1>2. /\ n \in Client /\ Whole(n)
      /\ \A t \in R : c.at[t].primary /\ t # s => n.at[t].primary
      /\ \/ /\ Range(n.screens) = R
            /\ Range(c.siblings[d]) = {s}
            /\ n.at[s].output = None /\ n.at[s].crtc = None
            /\ n.at[s].desktop = d
            /\ \A t \in Slot \ {s} : n.at[t] = c.at[t]
         \/ /\ Range(n.screens) = R \ {s}
            /\ \A t \in Slot :
                  /\ n.at[t].desktop = c.at[t].desktop /\ n.at[t].output = c.at[t].output
                  /\ n.at[t].crtc = c.at[t].crtc /\ n.at[t].geometry = c.at[t].geometry
  <2>1. Destroyed(c, n, s)
    BY DestroyScreen
  <2> QED BY <2>1 DEF Destroyed
<1>3. \A t \in R \ {s} : c.at[t].output # o
  BY <1>1 DEF Own
<1>4. CASE /\ Range(n.screens) = R /\ Range(c.siblings[d]) = {s}
           /\ n.at[s].output = None /\ n.at[s].crtc = None /\ n.at[s].desktop = d
           /\ \A t \in Slot \ {s} : n.at[t] = c.at[t]
  <2>1. \A t \in R \ {s} : n.at[t] = c.at[t] /\ c.at[t].desktop # d
    BY <1>1, <1>4 DEF Whole, Listed
  <2>2. Own(n)
    <3>1. ASSUME NEW t \in R, t # s, NEW u \in R, u # t
          PROVE /\ n.at[t].output = None => n.at[u].desktop # n.at[t].desktop
                /\ n.at[t].output # None => n.at[u].output # n.at[t].output
      <4>1. CASE u = s
        BY <1>4, <2>1, <3>1, <4>1
      <4>2. CASE u # s
        BY <2>1, <3>1, <4>2 DEF Own
      <4> QED BY <4>1, <4>2
    <3>2. ASSUME NEW t \in R, t # s
          PROVE /\ n.at[t].output = None => n.at[t].crtc = None
                /\ n.at[t].output # None => n.at[t].output \in Range(OutputsOf[n.at[t].desktop])
      BY <2>1, <3>2 DEF Own
    <3>3. \A u \in R \ {s} : n.at[u].desktop # n.at[s].desktop
      BY <1>4, <2>1
    <3> HIDE DEF d, R
    <3> QED BY <1>4, <3>1, <3>2, <3>3 DEF Own
  <2>3. Spared(c, n, o)
    BY <1>2, <1>3, <1>4, <2>1 DEF Spared
  <2> QED BY <1>1, <1>2, <1>3, <1>4, <2>1, <2>2, <2>3 DEF Gone
<1>5. CASE /\ Range(n.screens) = R \ {s}
           /\ \A t \in Slot :
                 /\ n.at[t].desktop = c.at[t].desktop /\ n.at[t].output = c.at[t].output
                 /\ n.at[t].crtc = c.at[t].crtc /\ n.at[t].geometry = c.at[t].geometry
  <2>1. \A t \in R : t \in Slot
    BY <1>1
  <2>2. Own(n)
    BY <1>5, <2>1 DEF Own
  <2>3. Spared(c, n, o)
    BY <1>2, <1>3, <1>5, <2>1 DEF Spared
  <2> QED BY <1>2, <1>3, <1>5, <2>1, <2>2, <2>3 DEF Gone
<1> QED BY <1>2, <1>4, <1>5

\* o has a screen, with a crtc that it has or that it is told to have
Shows(c, n, o, crtc) ==
    /\ n \in Client /\ Whole(n) /\ Own(n) /\ Spared(c, n, o)
    /\ \E t \in Range(n.screens) : n.at[t].output = o
    /\ \A t \in Range(n.screens) : n.at[t].output = o =>
          /\ n.at[t].crtc \in {crtc, crtcOf[o]}
          /\ crtc = crtcOf[o] => n.at[t].geometry = geometry[crtcOf[o]]
          /\ o = rrPrimary => n.at[t].primary

LEMMA OutputAppeared ==
    ASSUME NEW c \in Client, Whole(c), Own(c), Server,
           NEW o \in Output, NEW e, e.output = o, e.crtc \in Crtc,
           \A t \in Range(c.screens) : c.at[t].output # o
    PROVE  Shows(c, outputAppeared(c, e), o, e.crtc)
<1> SUFFICES ASSUME NEW n, n = outputAppeared(c, e) PROVE Shows(c, n, o, e.crtc)
  OBVIOUS
<1> DEFINE d == DesktopOf(o)
           R == Range(c.screens)
           fakes == {t \in Range(c.siblings[d]) : c.at[t].output = None}
<1>1. /\ d \in Desktop /\ o \in Range(OutputsOf[d]) /\ o # None /\ R \subseteq Slot
      /\ o = rrPrimary => d = PrimaryNumber
  BY TheDesktop, ClientTypes, Constants DEF Server
<1>2. /\ crtcOf \in [Output -> Crtc \cup {None}] /\ geometry \in [Crtc -> 0 .. MaxGeometry]
      /\ crtcOf[o] \in Crtc \cup {None} /\ None \notin Crtc
  BY Constants DEF Server
<1>3. fakes = {t \in R : c.at[t].desktop = d /\ c.at[t].output = None}
  BY <1>1 DEF Whole, Listed
<1>4. CASE fakes # {}
  <2> DEFINE s == The(fakes)
             m == [c EXCEPT !.at[s].output = o, !.at[s].crtc = crtcOf[o]]
             a == [c.at EXCEPT ![s] = [c.at[s] EXCEPT !.output = o, !.crtc = crtcOf[o]]]
  <2>1. s \in R /\ s \in Slot /\ c.at[s].desktop = d /\ c.at[s].output = None
    <3>1. s \in fakes
      BY <1>4 DEF The
    <3> QED BY <1>1, <1>3, <3>1
  <2>2. n = updateScreen(m, s, e)
    BY <1>4 DEF outputAppeared
  <2> HIDE DEF s
  <2>3. c.at \in [Slot -> Screen]
        /\ c = [at |-> c.at, screens |-> c.screens, siblings |-> c.siblings, gui |-> c.gui]
    BY ClientTypes
  <2>4. /\ a \in [Slot -> Screen] /\ a[s] = [c.at[s] EXCEPT !.output = o, !.crtc = crtcOf[o]]
        /\ \A t \in Slot \ {s} : a[t] = c.at[t]
    <3>1. [c.at[s] EXCEPT !.output = o, !.crtc = crtcOf[o]] \in Screen
      <4>1. c.at[s] \in Screen
        BY <2>1, <2>3
      <4> QED BY <1>2, <4>1 DEF Screen
    <3> QED BY <2>1, <2>3, <3>1
  <2>5. a[s].output = o /\ a[s].desktop = d /\ a[s].primary = c.at[s].primary
    <3>1. c.at[s] \in Screen
      BY <2>1, <2>3
    <3> HIDE DEF a
    <3> QED BY <2>1, <2>4, <3>1 DEF Screen
  <2>6. m = [c EXCEPT !.at = a]
    BY <2>1, <2>3
  <2> HIDE DEF a, m
  <2>7. /\ m \in Client /\ m.at = a /\ m.screens = c.screens /\ m.siblings = c.siblings
        /\ m.gui = c.gui
    BY <2>3, <2>4, <2>6 DEF Client
  <2>8. \A t \in R : m.at[t].desktop = c.at[t].desktop /\ m.at[t].primary = c.at[t].primary
    BY <1>1, <2>1, <2>4, <2>5, <2>7
  <2>9. Whole(m)
    BY <2>7, <2>8, Touched
  <2>10. /\ n \in Client /\ Whole(n) /\ Range(n.screens) = R
         /\ \A t \in Slot : n.at[t].desktop = m.at[t].desktop /\ n.at[t].output = m.at[t].output
         /\ n.at[s].crtc = e.crtc /\ n.at[s].geometry = geometry[e.crtc]
         /\ \A t \in Slot \ {s} : n.at[t].crtc = m.at[t].crtc /\ n.at[t].geometry = m.at[t].geometry
         /\ m.at[s].desktop = PrimaryNumber /\ rrPrimary = e.output => n.at[s].primary
         /\ rrPrimary # e.output => \A t \in Slot : n.at[t].primary = m.at[t].primary
    <3>1. s \in Range(m.screens)
      BY <2>1, <2>7
    <3>2. Updated(m, updateScreen(m, s, e), s, e)
      BY <1>2, <2>7, <2>9, <3>1, UpdateScreen
    <3>3. Updated(m, n, s, e)
      BY <2>2, <3>2
    <3> QED BY <2>7, <3>3 DEF Updated
  <2>11. n.at[s].output = o /\ n.at[s].desktop = d
    BY <2>1, <2>5, <2>7, <2>10
  <2>12. \A t \in R \ {s} :
            /\ n.at[t].desktop = c.at[t].desktop /\ n.at[t].output = c.at[t].output
            /\ n.at[t].crtc = c.at[t].crtc /\ n.at[t].geometry = c.at[t].geometry
            /\ rrPrimary # o => n.at[t].primary = c.at[t].primary
    BY <1>1, <2>4, <2>7, <2>10
  <2>13. Own(n)
    <3>1. ASSUME NEW t \in R \ {s}
          PROVE  n.at[t].output = None => n.at[s].desktop # n.at[t].desktop
      BY <2>1, <2>11, <2>12, <3>1 DEF Own
    <3>2. ASSUME NEW t \in R \ {s}, NEW u \in R \ {t}
          PROVE  /\ n.at[t].output = None => n.at[u].desktop # n.at[t].desktop
                 /\ n.at[t].output # None => n.at[u].output # n.at[t].output
      <4>1. CASE u = s
        BY <2>11, <2>12, <3>1, <4>1
      <4>2. CASE u # s
        BY <2>12, <4>2 DEF Own
      <4> QED BY <4>1, <4>2
    <3>3. \A t \in R \ {s} :
             /\ n.at[t].output = None => n.at[t].crtc = None
             /\ n.at[t].output # None => n.at[t].output \in Range(OutputsOf[n.at[t].desktop])
      BY <2>12 DEF Own
    <3>4. \A t \in R \ {s} : n.at[t].output # n.at[s].output
      BY <2>11, <2>12
    <3>5. n.at[s].output # None /\ n.at[s].output \in Range(OutputsOf[n.at[s].desktop])
      BY <1>1, <2>11
    <3> HIDE DEF d, R
    <3> QED BY <2>10, <3>2, <3>3, <3>4, <3>5 DEF Own
  <2>14. Spared(c, n, o)
    BY <2>1, <2>10, <2>11, <2>12 DEF Spared
  <2>15. /\ n.at[s].crtc = e.crtc /\ n.at[s].geometry = geometry[e.crtc]
         /\ o = rrPrimary => n.at[s].primary
    BY <1>1, <2>5, <2>7, <2>10
  <2>16. \A t \in R : n.at[t].output = o => t = s
    BY <2>12
  <2> QED BY <2>1, <2>10, <2>11, <2>13, <2>14, <2>15, <2>16 DEF Shows
<1>5. CASE fakes = {}
  <2> DEFINE s == FreeSlot(c)
  <2>1. n = createScreen(c, d, e)
    BY <1>5 DEF outputAppeared
  <2>2. s \in Slot /\ s \notin R
    BY ScreenToCreate
  <2> HIDE DEF s
  <2>3. /\ n \in Client /\ Whole(n) /\ Range(n.screens) = R \cup {s}
        /\ n.at[s].desktop = d /\ n.at[s].output = o /\ n.at[s].crtc = crtcOf[o]
        /\ crtcOf[o] # None => n.at[s].geometry = geometry[crtcOf[o]]
        /\ \A t \in R :
              /\ n.at[t].desktop = c.at[t].desktop /\ n.at[t].output = c.at[t].output
              /\ n.at[t].crtc = c.at[t].crtc /\ n.at[t].geometry = c.at[t].geometry
        /\ d = PrimaryNumber /\ rrPrimary = o => n.at[s].primary
        /\ rrPrimary # o => \A t \in R : n.at[t].primary = c.at[t].primary
    <3> HIDE DEF d
    <3>1. Created(c, createScreen(c, d, e), FreeSlot(c), d, e.output)
      BY <1>1, <1>2, <2>2, CreateScreen DEF s
    <3>2. Created(c, n, s, d, o)
      BY <2>1, <3>1 DEF s
    <3> QED BY <3>2 DEF Created
  <2>4. Own(n)
    <3>1. ASSUME NEW t \in R
          PROVE  /\ n.at[t].output = None => n.at[s].desktop # n.at[t].desktop
                 /\ n.at[t].output # n.at[s].output
      BY <1>3, <1>5, <2>3, <3>1
    <3>2. ASSUME NEW t \in R, NEW u \in (R \cup {s}) \ {t}
          PROVE  /\ n.at[t].output = None => n.at[u].desktop # n.at[t].desktop
                 /\ n.at[t].output # None => n.at[u].output # n.at[t].output
      <4>1. CASE u = s
        BY <3>1, <4>1
      <4>2. CASE u # s
        BY <2>3, <4>2 DEF Own
      <4> QED BY <4>1, <4>2
    <3>3. \A t \in R :
             /\ n.at[t].output = None => n.at[t].crtc = None
             /\ n.at[t].output # None => n.at[t].output \in Range(OutputsOf[n.at[t].desktop])
      BY <2>3 DEF Own
    <3>4. n.at[s].output # None /\ n.at[s].output \in Range(OutputsOf[n.at[s].desktop])
      BY <1>1, <2>3
    <3> HIDE DEF d, R
    <3> QED BY <2>3, <3>1, <3>2, <3>3, <3>4 DEF Own
  <2>5. Spared(c, n, o)
    BY <2>2, <2>3 DEF Spared
  <2>6. \A t \in R \cup {s} : n.at[t].output = o => t = s
    BY <2>3
  <2> QED BY <1>1, <1>2, <2>3, <2>4, <2>5, <2>6 DEF Shows
<1> QED BY <1>4, <1>5

\* a screen keeps its output while the server switches the mode
Waits(c, n, o) ==
    /\ n \in Client /\ Whole(n) /\ Own(n) /\ Spared(c, n, o)
    /\ \A t \in Range(n.screens) : n.at[t].output = o => n.at[t].crtc = None

\* what becomes of the screen of the output of a notification
Answered(c, n, e) ==
    \/ Gone(c, n, e.output) /\ ~(e.connected /\ e.crtc # None)
    \/ Shows(c, n, e.output, e.crtc) /\ e.connected /\ e.crtc # None
    \/ Waits(c, n, e.output) /\ e.crtc = None /\ crtcOf[e.output] # None

LEMMA OutputChanged ==
    ASSUME NEW c \in Client, Whole(c), Own(c), Server,
           NEW e \in Notification, e.type = "output"
    PROVE  e.output \in Output /\ Answered(c, outputChanged(c, e), e)
<1> SUFFICES ASSUME NEW n, n = outputChanged(c, e), NEW o, o = e.output
             PROVE  o \in Output /\ Answered(c, n, e)
  OBVIOUS
<1> DEFINE found == findScreenForOutput(c, o)
           R == Range(c.screens)
           s == The(found)
<1>1. o \in Output /\ o # None /\ e.connected \in BOOLEAN /\ e.crtc \in Crtc \cup {None}
  BY Constants DEF Notification
<1>2. crtcOf[o] \in Crtc \cup {None} /\ geometry \in [Crtc -> 0 .. MaxGeometry] /\ R \subseteq Slot
  BY <1>1, ClientTypes DEF Server
<1>3. CASE found = {} /\ ~(e.connected /\ e.crtc # None)
  <2>1. n = c
    BY <1>3 DEF outputChanged
  <2>2. Spared(c, n, o) /\ \A t \in R : c.at[t].output # o
    BY <1>3, <2>1 DEF Spared, findScreenForOutput
  <2> QED BY <1>1, <1>3, <2>1, <2>2 DEF Answered, Gone
<1>4. CASE found = {} /\ e.connected /\ e.crtc # None
  <2>1. n = outputAppeared(c, e)
    BY <1>4 DEF outputChanged
  <2>2. \A t \in R : c.at[t].output # o
    BY <1>4 DEF findScreenForOutput
  <2>3. Shows(c, outputAppeared(c, e), o, e.crtc)
    BY <1>1, <1>4, <2>2, OutputAppeared
  <2> QED BY <1>1, <1>4, <2>1, <2>3 DEF Answered
<1>5. CASE found # {}
  <2>1. s \in R /\ s \in Slot /\ c.at[s].output = o
    <3>1. s \in found
      BY <1>5 DEF The
    <3> QED BY <1>2, <3>1 DEF findScreenForOutput
  <2>2. n = IF ~e.connected THEN destroyScreen(c, s)
            ELSE IF e.crtc = None THEN outputDisabled(c, s, e) ELSE updateScreen(c, s, e)
    BY <1>5 DEF outputChanged
  <2> HIDE DEF s
  <2>3. \A t \in R \ {s} : c.at[t].output # o
    BY <1>1, <2>1 DEF Own
  <2>4. CASE n = destroyScreen(c, s) /\ ~(e.connected /\ e.crtc # None)
    <3>1. Gone(c, destroyScreen(c, s), o)
      BY <1>1, <2>1, OutputDestroyed
    <3> QED BY <1>1, <2>4, <3>1 DEF Answered
  <2>5. CASE e.connected /\ e.crtc = None /\ crtcOf[o] # None
    <3> DEFINE a == [c.at EXCEPT ![s] = [c.at[s] EXCEPT !.crtc = None]]
    <3>1. n = [c EXCEPT !.at[s].crtc = None]
      BY <2>2, <2>5 DEF outputDisabled
    <3>2. c.at \in [Slot -> Screen]
          /\ c = [at |-> c.at, screens |-> c.screens, siblings |-> c.siblings, gui |-> c.gui]
      BY ClientTypes
    <3>3. /\ a \in [Slot -> Screen] /\ a[s] = [c.at[s] EXCEPT !.crtc = None]
          /\ \A t \in Slot \ {s} : a[t] = c.at[t]
      <4>1. [c.at[s] EXCEPT !.crtc = None] \in Screen
        BY <2>1, <3>2 DEF Screen
      <4> QED BY <2>1, <3>2, <4>1
    <3>4. /\ a[s].output = o /\ a[s].desktop = c.at[s].desktop /\ a[s].primary = c.at[s].primary
          /\ a[s].crtc = None
      <4>1. c.at[s] \in Screen
        BY <2>1, <3>2
      <4> HIDE DEF a
      <4> QED BY <2>1, <3>3, <4>1 DEF Screen
    <3>5. n = [c EXCEPT !.at = a]
      BY <2>1, <3>1, <3>2
    <3> HIDE DEF a
    <3>6. /\ n \in Client /\ n.at = a /\ n.screens = c.screens /\ n.siblings = c.siblings
          /\ n.gui = c.gui
      BY <3>2, <3>3, <3>5 DEF Client
    <3>7. \A t \in R : /\ n.at[t].desktop = c.at[t].desktop /\ n.at[t].primary = c.at[t].primary
                       /\ n.at[t].output = c.at[t].output
                       /\ t # s => n.at[t] = c.at[t]
      BY <1>2, <2>1, <3>3, <3>4, <3>6
    <3>8. Whole(n)
      BY <3>6, <3>7, Touched
    <3>9. Own(n)
      <4>1. Range(n.screens) = R
        BY <3>6
      <4>2. \A t \in R : n.at[t].output = None => n.at[t].crtc = None
        BY <1>1, <2>1, <3>7 DEF Own
      <4> QED BY <3>7, <4>1, <4>2 DEF Own
    <3>10. Spared(c, n, o)
      BY <2>1, <3>6, <3>7 DEF Spared
    <3>11. \A t \in R : n.at[t].output = o => n.at[t].crtc = None
      BY <2>3, <3>4, <3>6, <3>7
    <3> QED BY <1>1, <2>5, <3>6, <3>8, <3>9, <3>10, <3>11 DEF Answered, Waits
  <2>6. CASE e.connected /\ e.crtc # None
    <3>1. Updated(c, n, s, e)
      <4>1. Updated(c, updateScreen(c, s, e), s, e)
        BY <1>1, <1>2, <2>1, <2>6, UpdateScreen
      <4> QED BY <2>2, <2>6, <4>1
    <3>2. o = rrPrimary => c.at[s].desktop = PrimaryNumber
      <4>1. c.at[s].desktop \in Desktop
        BY <2>1, WholeFacts
      <4>2. o \in Range(OutputsOf[c.at[s].desktop])
        BY <1>1, <2>1 DEF Own
      <4>3. o = rrPrimary => o \in Range(OutputsOf[PrimaryNumber])
        BY <1>1 DEF Server
      <4> QED BY <1>1, <4>1, <4>2, <4>3, TheDesktop, Constants
    <3>3. \A t \in R : /\ n.at[t].desktop = c.at[t].desktop /\ n.at[t].output = c.at[t].output
                       /\ t # s => n.at[t].crtc = c.at[t].crtc /\ n.at[t].geometry = c.at[t].geometry
      BY <1>2, <3>1 DEF Updated
    <3>4. /\ n \in Client /\ Whole(n) /\ Range(n.screens) = R
          /\ n.at[s].crtc = e.crtc /\ n.at[s].geometry = geometry[e.crtc]
          /\ o = rrPrimary => n.at[s].primary
          /\ o # rrPrimary => \A t \in R : n.at[t].primary = c.at[t].primary
      BY <1>2, <3>1, <3>2 DEF Updated
    <3>5. Own(n)
      <4>1. \A t \in R : n.at[t].output = None => n.at[t].crtc = None
        BY <1>1, <2>1, <3>3 DEF Own
      <4> QED BY <3>3, <3>4, <4>1 DEF Own
    <3>6. Spared(c, n, o)
      BY <2>1, <3>3, <3>4 DEF Spared
    <3>7. \A t \in R : n.at[t].output = o => t = s
      BY <2>3, <3>3
    <3>8. Shows(c, n, o, e.crtc)
      BY <2>1, <3>3, <3>4, <3>5, <3>6, <3>7 DEF Shows
    <3> QED BY <1>1, <2>6, <3>8 DEF Answered
  <2>7. e.connected /\ e.crtc = None /\ crtcOf[o] = None => n = destroyScreen(c, s)
    BY <2>2 DEF outputDisabled
  <2> QED BY <1>1, <2>2, <2>4, <2>5, <2>6, <2>7
<1> QED BY <1>3, <1>4, <1>5

\* what a notification about a crtc does: its screen takes the geometry
Reshaped(c, n, e) ==
    /\ n \in Client /\ Whole(n) /\ Own(n) /\ Range(n.screens) = Range(c.screens)
    /\ \A t \in Range(c.screens) :
          /\ n.at[t].output = c.at[t].output /\ n.at[t].crtc = c.at[t].crtc
          /\ n.at[t].primary = c.at[t].primary
          /\ c.at[t].crtc # e.crtc => n.at[t].geometry = c.at[t].geometry
    /\ \A s \in Range(c.screens) :
          findScreenForCrtc(c, e.crtc) = {s} /\ e.geometry # 0 => n.at[s].geometry = e.geometry

LEMMA CrtcChanged ==
    ASSUME NEW c \in Client, Whole(c), Own(c), NEW e \in Notification, e.type = "crtc"
    PROVE  Reshaped(c, crtcChanged(c, e), e)
<1> SUFFICES ASSUME NEW n, n = crtcChanged(c, e) PROVE Reshaped(c, n, e)
  OBVIOUS
<1> DEFINE found == findScreenForCrtc(c, e.crtc)
           R == Range(c.screens)
           s == The(found)
           a == [c.at EXCEPT ![s] = [c.at[s] EXCEPT !.geometry = e.geometry]]
<1>1. e.geometry \in 0 .. MaxGeometry /\ R \subseteq Slot
  BY ClientTypes DEF Notification
<1>2. CASE ~(found # {} /\ e.geometry # 0)
  <2>1. n = c
    BY <1>2 DEF crtcChanged
  <2> QED BY <1>2, <2>1 DEF Reshaped
<1>3. CASE found # {} /\ e.geometry # 0
  <2>1. n = [c EXCEPT !.at[s].geometry = e.geometry]
    BY <1>3 DEF crtcChanged
  <2>2. s \in R /\ s \in Slot /\ c.at[s].crtc = e.crtc
    <3>1. s \in found
      BY <1>3 DEF The
    <3> QED BY <1>1, <3>1 DEF findScreenForCrtc
  <2>3. \A t : found = {t} => s = t
    BY DEF The
  <2> HIDE DEF s
  <2>4. c.at \in [Slot -> Screen]
        /\ c = [at |-> c.at, screens |-> c.screens, siblings |-> c.siblings, gui |-> c.gui]
    BY ClientTypes
  <2>5. /\ a \in [Slot -> Screen] /\ a[s] = [c.at[s] EXCEPT !.geometry = e.geometry]
        /\ \A t \in Slot \ {s} : a[t] = c.at[t]
    <3>1. [c.at[s] EXCEPT !.geometry = e.geometry] \in Screen
      BY <1>1, <2>2, <2>4 DEF Screen
    <3> QED BY <2>2, <2>4, <3>1
  <2>6. /\ a[s].output = c.at[s].output /\ a[s].desktop = c.at[s].desktop
        /\ a[s].primary = c.at[s].primary /\ a[s].crtc = c.at[s].crtc
        /\ a[s].geometry = e.geometry
    <3>1. c.at[s] \in Screen
      BY <2>2, <2>4
    <3> HIDE DEF a
    <3> QED BY <2>5, <3>1 DEF Screen
  <2>7. n = [c EXCEPT !.at = a]
    BY <2>1, <2>2, <2>4
  <2> HIDE DEF a
  <2>8. /\ n \in Client /\ n.at = a /\ n.screens = c.screens /\ n.siblings = c.siblings
        /\ n.gui = c.gui
    BY <2>4, <2>5, <2>7 DEF Client
  <2>9. \A t \in R : /\ n.at[t].desktop = c.at[t].desktop /\ n.at[t].primary = c.at[t].primary
                     /\ n.at[t].output = c.at[t].output /\ n.at[t].crtc = c.at[t].crtc
                     /\ t # s => n.at[t].geometry = c.at[t].geometry
    BY <1>1, <2>2, <2>5, <2>6, <2>8
  <2>10. Whole(n)
    BY <2>8, <2>9, Touched
  <2>11. Own(n)
    <3>1. Range(n.screens) = R
      BY <2>8
    <3> QED BY <2>9, <3>1 DEF Own
  <2> QED BY <2>2, <2>3, <2>6, <2>8, <2>9, <2>10, <2>11 DEF Reshaped
<1> QED BY <1>2, <1>3

-----------------------------------------------------------------------------
(* initializeScreens() builds the lists.                                   *)

\* the lists while they are built: the first of the primary desktop is primary
Filling(c) ==
    /\ Own(c) /\ Listed(c)
    /\ flaggedPrimary(c) = IF c.siblings[PrimaryNumber] = <<>> THEN {}
                           ELSE {Head(c.siblings[PrimaryNumber])}

\* the screens are those of the desktops before d, and of its outputs before k
Begun(c, d, k) ==
    /\ \A s \in Range(c.screens) :
          /\ c.at[s].desktop <= d
          /\ c.at[s].desktop = d =>
                \E i \in 1 .. Len(OutputsOf[d]) : i < k /\ OutputsOf[d][i] = c.at[s].output
    /\ \A e \in Desktop : e < d => c.siblings[e] # <<>>

\* readOutput adds s, the screen of o as the server answers for it
Loaded(c, n, s, d, o) ==
    /\ n \in Client /\ Filling(n) /\ Range(n.screens) = Range(c.screens) \cup {s}
    /\ s \notin Range(c.screens)
    /\ n.siblings[d] # <<>> /\ \A k \in Desktop \ {d} : n.siblings[k] = c.siblings[k]
    /\ n.at[s].desktop = d /\ n.at[s].output = o /\ n.at[s].crtc = crtcOf[o]
    /\ n.at[s].geometry = geometry[crtcOf[o]]
    /\ \A t \in Range(c.screens) :
          /\ n.at[t].desktop = c.at[t].desktop /\ n.at[t].output = c.at[t].output
          /\ n.at[t].crtc = c.at[t].crtc /\ n.at[t].geometry = c.at[t].geometry
    /\ d = PrimaryNumber /\ o = starting.primary => n.at[s].primary
    /\ o # starting.primary => \A t \in Range(c.screens) : c.at[t].primary => n.at[t].primary

LEMMA NotReadYet ==
    ASSUME NEW c \in Client, Own(c), NEW d \in Desktop, NEW k \in 1 .. Len(OutputsOf[d]),
           Begun(c, d, k)
    PROVE  /\ OutputsOf[d][k] \in Output /\ OutputsOf[d][k] \in Range(OutputsOf[d])
           /\ \A s \in Range(c.screens) : c.at[s].output # OutputsOf[d][k]
<1> DEFINE q == OutputsOf[d]
<1>1. q \in Seq(Output) /\ IsInjective(q)
  BY Constants, ScreensAssumption
<1>2. q[k] \in Output /\ q[k] \in Range(q)
  BY <1>1, Elements
<1>3. ASSUME NEW s \in Range(c.screens), c.at[s].output = q[k] PROVE FALSE
  <2>1. s \in Slot /\ c.at[s] \in Screen
    BY ClientTypes
  <2>2. c.at[s].desktop \in Desktop
    BY <2>1 DEF Screen
  <2>3. c.at[s].output \in Range(OutputsOf[c.at[s].desktop])
    BY <1>2, <1>3, Constants DEF Own
  <2>4. c.at[s].desktop = d
    <3>1. q[k] \in Range(OutputsOf[c.at[s].desktop])
      BY <1>3, <2>3
    <3> QED BY <1>2, <2>2, <3>1, TheDesktop
  <2>5. PICK i \in 1 .. Len(q) : i < k /\ q[i] = q[k]
    BY <1>3, <2>4 DEF Begun
  <2>6. i \in DOMAIN q /\ k \in DOMAIN q
    BY <1>1
  <2> QED BY <1>1, <2>5, <2>6 DEF IsInjective
<1> QED BY <1>2, <1>3

LEMMA ReadOutput ==
    ASSUME NEW c \in Client, c = client, Filling(c), Server,
           NEW d \in Desktop, d = starting.desktop, NEW k \in 1 .. Len(OutputsOf[d]), k = starting.next,
           Begun(c, d, k), readOutput,
           NEW o, o = OutputsOf[d][k], connected[o], crtcOf[o] # None
    PROVE  Loaded(c, client', FreeSlot(c), d, o)
<1> SUFFICES ASSUME NEW n, n = client', NEW s, s = FreeSlot(c) PROVE Loaded(c, n, s, d, o)
  OBVIOUS
<1> DEFINE R == Range(c.screens)
           old == flaggedPrimary(c)
           p == d = PrimaryNumber /\ (old = {} \/ o = starting.primary)
           drop == p /\ old # {}
           h == The(old)
           z == [NewScreen(d, o) EXCEPT !.primary = p]
           b == IF drop THEN [c.at EXCEPT ![h].primary = FALSE] ELSE c.at
           f == [b EXCEPT ![s] = z]
           sib == Inserted(c.siblings[d], s, p)
           lst == Inserted(c.screens, s, FALSE)
<1>1. /\ c.at \in [Slot -> Screen] /\ c.screens \in Seq(Slot)
      /\ c.siblings \in [Desktop -> Seq(Slot)] /\ c.gui \in Seq(Slot)
      /\ c = [at |-> c.at, screens |-> c.screens, siblings |-> c.siblings, gui |-> c.gui]
      /\ R \subseteq Slot
  BY ClientTypes
<1>2. /\ o \in Output /\ o \in Range(OutputsOf[d]) /\ o # None
      /\ \A t \in R : c.at[t].output # o
  BY NotReadYet, Constants DEF Filling
<1>3. s \in Slot /\ s \notin R
  BY <1>2, ScreenToCreate DEF Filling
<1>4. /\ IsInjective(c.screens) /\ IsInjective(c.siblings[d]) /\ c.siblings[d] \in Seq(Slot)
      /\ Range(c.siblings[d]) = {t \in R : c.at[t].desktop = d}
      /\ old = IF c.siblings[PrimaryNumber] = <<>> THEN {} ELSE {Head(c.siblings[PrimaryNumber])}
      /\ PrimaryNumber \in Desktop
  BY <1>1, Constants DEF Filling, Listed
<1>5. p \in BOOLEAN
  OBVIOUS
<1>6. /\ old # {} => h \in R /\ old = {h}
      /\ \A t \in R : c.at[t].primary <=> t \in old
  <2>1. old # {} => old = {Head(c.siblings[PrimaryNumber])}
    BY <1>4
  <2>2. old # {} => old = {h}
    BY <2>1 DEF The
  <2>3. old \subseteq R /\ \A t \in R : c.at[t].primary <=> t \in old
    BY DEF flaggedPrimary
  <2> QED BY <2>2, <2>3
<1>7. /\ z \in Screen /\ z.desktop = d /\ z.output = o /\ z.crtc = crtcOf[o]
      /\ z.geometry = geometry[crtcOf[o]] /\ z.primary = p
  <2> DEFINE g == IF crtcOf[o] = None THEN 0 ELSE geometry[crtcOf[o]]
             m == NewScreen(d, o)
  <2>1. m = [Fake EXCEPT !.desktop = d, !.output = o, !.crtc = crtcOf[o], !.geometry = g]
    BY DEF NewScreen
  <2>2. g = geometry[crtcOf[o]] /\ g \in 0 .. MaxGeometry /\ crtcOf[o] \in Crtc
    BY <1>2 DEF Server
  <2> HIDE DEF g, m, p
  <2>3. m = [desktop |-> d, output |-> o, crtc |-> crtcOf[o], geometry |-> g, primary |-> FALSE]
    BY <2>1 DEF Fake
  <2>4. z = [desktop |-> d, output |-> o, crtc |-> crtcOf[o], geometry |-> g, primary |-> p]
    BY <2>3 DEF m
  <2> HIDE DEF z
  <2> QED BY <1>2, <1>5, <2>2, <2>4 DEF Screen
<1>8. n = [at |-> f, screens |-> lst, siblings |-> [c.siblings EXCEPT ![d] = sib], gui |-> c.gui]
  <2> DEFINE m == IF drop THEN setPrimary(c, h, FALSE) ELSE c
             x == Append(m.screens, s)
             y == [m.siblings EXCEPT ![d] = Inserted(m.siblings[d], s, p)]
             a == [m.at EXCEPT ![s] = z]
  <2>1. m = [at |-> b, screens |-> c.screens, siblings |-> c.siblings, gui |-> c.gui]
    <3>1. CASE drop
      <4> HIDE DEF drop, h
      <4>1. m = [c EXCEPT !.at[h].primary = FALSE] /\ b = [c.at EXCEPT ![h].primary = FALSE]
        BY <3>1 DEF setPrimary
      <4> HIDE DEF m, b
      <4>2. m = [c EXCEPT !.at = b]
        BY <4>1
      <4> QED BY <1>1, <4>2
    <3>2. CASE ~drop
      BY <1>1, <3>2
    <3> QED BY <3>1, <3>2
  <2>2. n = [m EXCEPT !.at[s] = z, !.screens = Append(@, s), !.siblings[d] = Inserted(@, s, p)]
    BY DEF readOutput
  <2> HIDE DEF m, z, p
  <2>3. n = [m EXCEPT !.at = a, !.screens = x, !.siblings = y]
    BY <2>2
  <2> HIDE DEF b
  <2>4. /\ a = f /\ x = Append(c.screens, s)
        /\ y = [c.siblings EXCEPT ![d] = Inserted(c.siblings[d], s, p)]
    BY <2>1
  <2> HIDE DEF a, x, y
  <2>5. n = [at |-> a, screens |-> x, siblings |-> y, gui |-> c.gui]
    BY <2>1, <2>3
  <2> QED BY <2>4, <2>5 DEF Inserted
<1> HIDE DEF z, p, h, old
<1>9. /\ b \in [Slot -> Screen]
      /\ \A t \in Slot : /\ b[t].desktop = c.at[t].desktop /\ b[t].output = c.at[t].output
                         /\ b[t].crtc = c.at[t].crtc /\ b[t].geometry = c.at[t].geometry
                         /\ b[t].primary = IF drop /\ t = h THEN FALSE ELSE c.at[t].primary
  <2>1. CASE drop
    <3>1. h \in Slot /\ c.at[h] \in Screen /\ [c.at[h] EXCEPT !.primary = FALSE] \in Screen
      <4>1. h \in Slot
        BY <1>1, <1>6, <2>1
      <4>2. c.at[h] \in Screen
        BY <1>1, <4>1
      <4> QED BY <4>1, <4>2 DEF Screen
    <3>2. b = [c.at EXCEPT ![h] = [c.at[h] EXCEPT !.primary = FALSE]]
      BY <2>1
    <3> HIDE DEF b
    <3>3. /\ b \in [Slot -> Screen] /\ b[h] = [c.at[h] EXCEPT !.primary = FALSE]
          /\ \A t \in Slot \ {h} : b[t] = c.at[t]
      BY <1>1, <3>1, <3>2
    <3>4. /\ b[h].desktop = c.at[h].desktop /\ b[h].output = c.at[h].output
          /\ b[h].crtc = c.at[h].crtc /\ b[h].geometry = c.at[h].geometry
          /\ b[h].primary = FALSE
      BY <3>1, <3>3 DEF Screen
    <3> HIDE DEF drop
    <3> QED BY <2>1, <3>3, <3>4
  <2>2. CASE ~drop
    BY <1>1, <2>2
  <2> QED BY <2>1, <2>2
<1> HIDE DEF b
<1>10. f \in [Slot -> Screen] /\ f[s] = z /\ \A t \in Slot \ {s} : f[t] = b[t]
  BY <1>3, <1>7, <1>9
<1>11. /\ lst \in Seq(Slot) /\ IsInjective(lst) /\ Range(lst) = R \cup {s}
  <2> DEFINE last == FALSE
  <2>1. last \in BOOLEAN
    OBVIOUS
  <2> HIDE DEF last
  <2>2. /\ Inserted(c.screens, s, last) \in Seq(Slot) /\ IsInjective(Inserted(c.screens, s, last))
        /\ Range(Inserted(c.screens, s, last)) = Range(c.screens) \cup {s}
    BY <1>1, <1>3, <1>4, <2>1, Insertion
  <2> QED BY <2>2 DEF last
<1>12. /\ sib \in Seq(Slot) /\ IsInjective(sib) /\ Range(sib) = Range(c.siblings[d]) \cup {s}
       /\ sib # <<>>
       /\ Head(sib) = IF p \/ c.siblings[d] = <<>> THEN s ELSE Head(c.siblings[d])
  <2>1. s \notin Range(c.siblings[d])
    BY <1>3, <1>4
  <2> DEFINE q == c.siblings[d]
  <2>2. q \in Seq(Slot) /\ IsInjective(q) /\ s \notin Range(q)
    BY <1>4, <2>1
  <2> HIDE DEF q
  <2>3. /\ Inserted(q, s, p) \in Seq(Slot) /\ IsInjective(Inserted(q, s, p))
        /\ Range(Inserted(q, s, p)) = Range(q) \cup {s} /\ Inserted(q, s, p) # <<>>
    BY <1>3, <1>5, <2>2, Insertion
  <2>4. Head(Inserted(q, s, p)) = IF p \/ q = <<>> THEN s ELSE Head(q)
    BY <1>3, <1>5, <2>2, Insertion
  <2> QED BY <2>3, <2>4 DEF q
<1> HIDE DEF f, lst, sib, drop
<1>13. /\ n \in Client /\ n.at = f /\ n.screens = lst /\ n.siblings[d] = sib
       /\ \A k2 \in Desktop \ {d} : n.siblings[k2] = c.siblings[k2]
  BY <1>1, <1>8, <1>10, <1>11, <1>12 DEF Client
<1>14. \A t \in R : /\ n.at[t].desktop = c.at[t].desktop /\ n.at[t].output = c.at[t].output
                    /\ n.at[t].crtc = c.at[t].crtc /\ n.at[t].geometry = c.at[t].geometry
  <2> SUFFICES ASSUME NEW t \in R
      PROVE  /\ n.at[t].desktop = c.at[t].desktop /\ n.at[t].output = c.at[t].output
             /\ n.at[t].crtc = c.at[t].crtc /\ n.at[t].geometry = c.at[t].geometry
    OBVIOUS
  <2>1. t \in Slot /\ n.at[t] = b[t]
    BY <1>1, <1>3, <1>10, <1>13
  <2>2. /\ b[t].desktop = c.at[t].desktop /\ b[t].output = c.at[t].output
        /\ b[t].crtc = c.at[t].crtc /\ b[t].geometry = c.at[t].geometry
    BY <1>9, <2>1
  <2> QED BY <2>1, <2>2
<1>15. \A t \in R : n.at[t].primary = IF drop /\ t = h THEN FALSE ELSE c.at[t].primary
  <2> SUFFICES ASSUME NEW t \in R
      PROVE  n.at[t].primary = IF drop /\ t = h THEN FALSE ELSE c.at[t].primary
    OBVIOUS
  <2>1. t \in Slot /\ n.at[t] = b[t]
    BY <1>1, <1>3, <1>10, <1>13
  <2>2. b[t].primary = IF drop /\ t = h THEN FALSE ELSE c.at[t].primary
    BY <1>9, <2>1
  <2> QED BY <2>1, <2>2
<1>16. /\ n.at[s].desktop = d /\ n.at[s].output = o /\ n.at[s].crtc = crtcOf[o]
       /\ n.at[s].geometry = geometry[crtcOf[o]] /\ n.at[s].primary = p
  BY <1>7, <1>10, <1>13
<1>17. Range(n.screens) = R \cup {s}
  BY <1>11, <1>13
<1>18. Own(n)
  <2>1. ASSUME NEW t \in R
        PROVE  /\ n.at[t].output = None => n.at[s].desktop # n.at[t].desktop
               /\ n.at[t].output # n.at[s].output
    <3>1. ASSUME n.at[t].output = None PROVE n.at[t].desktop # d
      <4>1. c.at[t].output = None
        BY <1>14, <3>1
      <4>2. \A i \in 1 .. Len(OutputsOf[d]) : OutputsOf[d][i] # None
        BY Constants
      <4>3. c.at[t].desktop # d
        BY <4>1, <4>2 DEF Begun
      <4> QED BY <1>14, <4>3
    <3>2. n.at[t].output # n.at[s].output
      BY <1>2, <1>14, <1>16
    <3> QED BY <1>16, <3>1, <3>2
  <2>2. ASSUME NEW t \in R, NEW u \in (R \cup {s}) \ {t}
        PROVE  /\ n.at[t].output = None => n.at[u].desktop # n.at[t].desktop
               /\ n.at[t].output # None => n.at[u].output # n.at[t].output
    <3>1. CASE u = s
      BY <2>1, <3>1
    <3>2. CASE u # s
      BY <1>14, <3>2 DEF Filling, Own
    <3> QED BY <3>1, <3>2
  <2>3. \A t \in R :
           /\ n.at[t].output = None => n.at[t].crtc = None
           /\ n.at[t].output # None => n.at[t].output \in Range(OutputsOf[n.at[t].desktop])
    BY <1>14 DEF Filling, Own
  <2>4. n.at[s].output # None /\ n.at[s].output \in Range(OutputsOf[n.at[s].desktop])
    BY <1>2, <1>16
  <2> HIDE DEF R
  <2> QED BY <1>17, <2>1, <2>2, <2>3, <2>4 DEF Own
<1>19. Listed(n)
  <2>1. \A e \in Desktop : IsInjective(n.siblings[e])
    BY <1>12, <1>13 DEF Filling, Listed
  <2>2. Range(n.siblings[d]) = {t \in R \cup {s} : n.at[t].desktop = d}
    BY <1>4, <1>12, <1>13, <1>14, <1>16
  <2>3. \A e \in Desktop \ {d} : Range(n.siblings[e]) = {t \in R \cup {s} : n.at[t].desktop = e}
    BY <1>13, <1>14, <1>16 DEF Filling, Listed
  <2>4. IsInjective(n.screens)
    BY <1>11, <1>13
  <2> QED BY <1>17, <2>1, <2>2, <2>3, <2>4 DEF Listed
<1>20. flaggedPrimary(n) = IF n.siblings[PrimaryNumber] = <<>> THEN {}
                           ELSE {Head(n.siblings[PrimaryNumber])}
  <2>1. CASE p
    <3>1. d = PrimaryNumber
      BY <2>1 DEF p
    <3>2. n.siblings[PrimaryNumber] # <<>> /\ Head(n.siblings[PrimaryNumber]) = s
      BY <1>12, <1>13, <2>1, <3>1
    <3>3. \A t \in R : ~n.at[t].primary
      BY <1>6, <1>15, <2>1 DEF drop
    <3>4. flaggedPrimary(n) = {s}
      BY <1>16, <1>17, <2>1, <3>3 DEF flaggedPrimary
    <3> QED BY <3>2, <3>4
  <2>2. CASE ~p
    <3>1. flaggedPrimary(n) = old
      <4>1. old \subseteq R
        BY DEF old, flaggedPrimary
      <4>2. \A t \in R \cup {s} : n.at[t].primary <=> t \in old
        BY <1>3, <1>6, <1>15, <1>16, <2>2, <4>1 DEF drop
      <4> QED BY <1>17, <4>1, <4>2 DEF flaggedPrimary
    <3>2. CASE d = PrimaryNumber
      <4>1. old # {}
        BY <2>2, <3>2 DEF p
      <4>2. c.siblings[d] # <<>> /\ old = {Head(c.siblings[d])}
        BY <1>4, <3>2, <4>1
      <4> QED BY <1>12, <1>13, <2>2, <3>1, <3>2, <4>2
    <3>3. CASE d # PrimaryNumber
      <4>1. n.siblings[PrimaryNumber] = c.siblings[PrimaryNumber]
        BY <1>4, <1>13, <3>3
      <4> QED BY <1>4, <3>1, <4>1
    <3> QED BY <3>2, <3>3
  <2> QED BY <2>1, <2>2
<1>21. /\ d = PrimaryNumber /\ o = starting.primary => n.at[s].primary
       /\ o # starting.primary => \A t \in R : c.at[t].primary => n.at[t].primary
  <2>1. d = PrimaryNumber /\ o = starting.primary => p
    BY DEF p
  <2>2. o # starting.primary => ~drop
    BY DEF p, drop
  <2> QED BY <1>15, <1>16, <2>1, <2>2
<1> QED BY <1>3, <1>12, <1>13, <1>14, <1>16, <1>17, <1>18, <1>19, <1>20, <1>21 DEF Loaded, Filling

\* a desktop without screens has a fake one now
Filled(c, m, d) ==
    /\ m \in Client /\ Filling(m) /\ \A e \in Desktop : e <= d => m.siblings[e] # <<>>
    /\ \A t \in Range(c.screens) : t \in Range(m.screens) /\ m.at[t] = c.at[t]
    /\ \A t \in Range(m.screens) : m.at[t].desktop <= d
    /\ \A t \in Range(m.screens) \ Range(c.screens) : m.at[t].output = None

LEMMA FakeScreen ==
    ASSUME NEW c \in Client, Filling(c), NEW d \in Desktop, NEW k \in Nat, Begun(c, d, k),
           c.siblings[d] = <<>>, NEW s, s = FreeSlot(c)
    PROVE  Filled(c, [c EXCEPT
                         !.at[s] = [Fake EXCEPT !.desktop = d, !.primary = (d = PrimaryNumber)],
                         !.screens = Append(@, s),
                         !.siblings[d] = <<s>>], d)
<1> DEFINE R == Range(c.screens)
           p == d = PrimaryNumber
           z == [Fake EXCEPT !.desktop = d, !.primary = p]
           f == [c.at EXCEPT ![s] = z]
           sib == <<s>>
           lst == Append(c.screens, s)
           m == [c EXCEPT !.at[s] = z, !.screens = Append(@, s), !.siblings[d] = <<s>>]
<1>1. /\ c.at \in [Slot -> Screen] /\ c.screens \in Seq(Slot)
      /\ c.siblings \in [Desktop -> Seq(Slot)] /\ c.gui \in Seq(Slot)
      /\ c = [at |-> c.at, screens |-> c.screens, siblings |-> c.siblings, gui |-> c.gui]
      /\ R \subseteq Slot
  BY ClientTypes
<1>2. \A t \in R : c.at[t].desktop # d
  <2>1. Range(c.siblings[d]) = {}
    BY DEF Range
  <2> QED BY <2>1 DEF Filling, Listed
<1>3. s \in Slot /\ s \notin R
  BY <1>2, ScreenToCreate DEF Filling
<1>4. p \in BOOLEAN
  OBVIOUS
<1>5. z \in Screen /\ z.desktop = d /\ z.output = None /\ z.crtc = None /\ z.primary = p
  <2> HIDE DEF p
  <2>1. z = [Fake EXCEPT !.desktop = d, !.primary = p]
    OBVIOUS
  <2> HIDE DEF z
  <2>2. z = [desktop |-> d, output |-> None, crtc |-> None, geometry |-> 0, primary |-> p]
    BY <2>1 DEF Fake
  <2>3. 0 \in 0 .. MaxGeometry
    BY Constants
  <2> QED BY <1>4, <2>2, <2>3 DEF Screen
<1> HIDE DEF z
<1>6. m = [at |-> f, screens |-> lst, siblings |-> [c.siblings EXCEPT ![d] = sib], gui |-> c.gui]
  <2> DEFINE y == [c.siblings EXCEPT ![d] = sib]
  <2>1. m = [c EXCEPT !.at = f, !.screens = lst, !.siblings = y]
    OBVIOUS
  <2> HIDE DEF f, lst, y, m
  <2>2. m = [at |-> f, screens |-> lst, siblings |-> y, gui |-> c.gui]
    BY <1>1, <2>1
  <2> QED BY <2>2 DEF y
<1> HIDE DEF m, p
<1>7. f \in [Slot -> Screen] /\ f[s] = z /\ \A t \in Slot \ {s} : f[t] = c.at[t]
  BY <1>1, <1>3, <1>5
<1>8. lst \in Seq(Slot) /\ IsInjective(lst) /\ Range(lst) = R \cup {s}
  <2> DEFINE last == FALSE
  <2>1. last \in BOOLEAN
    OBVIOUS
  <2> HIDE DEF last
  <2>2. /\ Inserted(c.screens, s, last) \in Seq(Slot) /\ IsInjective(Inserted(c.screens, s, last))
        /\ Range(Inserted(c.screens, s, last)) = Range(c.screens) \cup {s}
    BY <1>1, <1>3, <2>1, Insertion DEF Filling, Listed
  <2> QED BY <2>2 DEF last, Inserted
<1>9. sib \in Seq(Slot) /\ IsInjective(sib) /\ Range(sib) = {s} /\ sib # <<>> /\ Head(sib) = s
  <2>1. sib \in Seq(Slot) /\ Len(sib) = 1 /\ DOMAIN sib = 1 .. 1 /\ sib[1] = s
    BY <1>3
  <2>2. sib # <<>> /\ Head(sib) = s
    OBVIOUS
  <2> HIDE DEF sib
  <2>3. \A i \in 1 .. 1 : i = 1
    OBVIOUS
  <2>4. IsInjective(sib)
    BY <2>1, <2>3 DEF IsInjective
  <2>5. Range(sib) = {s}
    BY <2>1, <2>3 DEF Range
  <2> QED BY <2>1, <2>2, <2>4, <2>5
<1> HIDE DEF f, lst, sib
<1>10. /\ m \in Client /\ m.at = f /\ m.screens = lst /\ m.siblings[d] = sib
       /\ \A e \in Desktop \ {d} : m.siblings[e] = c.siblings[e]
  <2> DEFINE y == [c.siblings EXCEPT ![d] = sib]
  <2>1. y \in [Desktop -> Seq(Slot)] /\ y[d] = sib /\ \A e \in Desktop \ {d} : y[e] = c.siblings[e]
    BY <1>1, <1>9
  <2> HIDE DEF y
  <2>2. m = [at |-> f, screens |-> lst, siblings |-> y, gui |-> c.gui]
    BY <1>6 DEF y
  <2>3. m.at = f /\ m.screens = lst /\ m.siblings = y /\ m.gui = c.gui
    BY <2>2
  <2>4. m \in Client
    BY <1>1, <1>7, <1>8, <2>1, <2>2 DEF Client
  <2> QED BY <2>1, <2>3, <2>4
<1>11. /\ Range(m.screens) = R \cup {s} /\ IsInjective(m.screens)
       /\ \A t \in R : m.at[t] = c.at[t]
       /\ m.at[s].desktop = d /\ m.at[s].output = None /\ m.at[s].crtc = None
       /\ m.at[s].primary = p
  BY <1>1, <1>3, <1>5, <1>7, <1>8, <1>10
<1>12. Own(m)
  <2>1. ASSUME NEW t \in R
        PROVE  /\ m.at[t].desktop # m.at[s].desktop
               /\ m.at[t].output # None => m.at[t].output # m.at[s].output
    BY <1>2, <1>11
  <2>2. ASSUME NEW t \in R, NEW u \in (R \cup {s}) \ {t}
        PROVE  /\ m.at[t].output = None => m.at[u].desktop # m.at[t].desktop
               /\ m.at[t].output # None => m.at[u].output # m.at[t].output
    <3>1. CASE u = s
      BY <2>1, <3>1
    <3>2. CASE u # s
      BY <1>11, <3>2 DEF Filling, Own
    <3> QED BY <3>1, <3>2
  <2>3. \A t \in R :
           /\ m.at[t].output = None => m.at[t].crtc = None
           /\ m.at[t].output # None => m.at[t].output \in Range(OutputsOf[m.at[t].desktop])
    BY <1>11 DEF Filling, Own
  <2> HIDE DEF R
  <2> QED BY <1>11, <2>1, <2>2, <2>3 DEF Own
<1>13. Listed(m)
  <2>1. \A e \in Desktop : IsInjective(m.siblings[e])
    BY <1>9, <1>10 DEF Filling, Listed
  <2>2. Range(m.siblings[d]) = {t \in R \cup {s} : m.at[t].desktop = d}
    BY <1>2, <1>9, <1>10, <1>11
  <2>3. \A e \in Desktop \ {d} : Range(m.siblings[e]) = {t \in R \cup {s} : m.at[t].desktop = e}
    <3>1. \A e \in Desktop \ {d} : Range(c.siblings[e]) = {t \in R : c.at[t].desktop = e}
      BY DEF Filling, Listed
    <3>2. \A t \in R : m.at[t].desktop = c.at[t].desktop
      BY <1>11
    <3>3. ASSUME NEW e \in Desktop \ {d}
          PROVE  Range(c.siblings[e]) = {t \in R \cup {s} : m.at[t].desktop = e}
      BY <1>11, <3>1, <3>2
    <3> QED BY <1>10, <3>3
  <2> QED BY <1>11, <2>1, <2>2, <2>3 DEF Listed
<1>14. flaggedPrimary(m) = IF m.siblings[PrimaryNumber] = <<>> THEN {}
                           ELSE {Head(m.siblings[PrimaryNumber])}
  <2>1. flaggedPrimary(m) = flaggedPrimary(c) \cup (IF p THEN {s} ELSE {})
    <3>1. flaggedPrimary(c) = {t \in R : m.at[t].primary}
      BY <1>11 DEF flaggedPrimary
    <3>2. flaggedPrimary(m) = {t \in R \cup {s} : m.at[t].primary}
      BY <1>11 DEF flaggedPrimary
    <3> QED BY <1>11, <3>1, <3>2
  <2>2. CASE p
    <3>1. flaggedPrimary(c) = {}
      BY <2>2 DEF p, Filling
    <3> QED BY <1>9, <1>10, <2>1, <2>2, <3>1 DEF p
  <2>3. CASE ~p
    <3>1. m.siblings[PrimaryNumber] = c.siblings[PrimaryNumber]
      BY <1>10, <2>3, Constants DEF p
    <3> QED BY <2>1, <2>3, <3>1 DEF Filling
  <2> QED BY <2>2, <2>3
<1>15. \A e \in Desktop : e <= d => m.siblings[e] # <<>>
  <2>1. \A e \in Desktop : e \in Int
    BY Constants
  <2> QED BY <1>9, <1>10, <2>1 DEF Begun
<1>16. \A t \in R \cup {s} : m.at[t].desktop <= d
  <2>1. d <= d
    BY Constants
  <2> QED BY <1>11, <2>1 DEF Begun
<1>17. Filled(c, m, d)
  BY <1>10, <1>11, <1>12, <1>13, <1>14, <1>15, <1>16 DEF Filled, Filling
<1> QED BY <1>17 DEF m, z, p

\* with a desktop ended, the next one begins, or the lists are whole
Ended(c, n, d) ==
    /\ n \in Client /\ Own(n)
    /\ \A t \in Range(c.screens) : t \in Range(n.screens) /\ n.at[t] = c.at[t]
    /\ \A t \in Range(n.screens) \ Range(c.screens) : n.at[t].output = None
    /\ d < Len(OutputsOf) => Filling(n) /\ Begun(n, d + 1, 0)
    /\ d = Len(OutputsOf) => Whole(n)

LEMMA EndDesktop ==
    ASSUME NEW c \in Client, c = client, Filling(c),
           NEW d \in Desktop, d = starting.desktop, NEW k \in Nat, k = starting.next,
           Begun(c, d, k), endDesktop
    PROVE  Ended(c, client', d)
<1> SUFFICES ASSUME NEW n, n = client' PROVE Ended(c, n, d)
  OBVIOUS
<1> DEFINE s == FreeSlot(c)
           m == IF c.siblings[d] # <<>> THEN c
                ELSE [c EXCEPT
                         !.at[s] = [Fake EXCEPT !.desktop = d, !.primary = (d = PrimaryNumber)],
                         !.screens = Append(@, s),
                         !.siblings[d] = <<s>>]
           first == The(flaggedPrimary(m))
           ordered == <<first>> \o removeOne(m.screens, first)
<1>1. n = IF d < Len(OutputsOf) THEN m ELSE [m EXCEPT !.screens = ordered, !.gui = ordered]
  BY DEF endDesktop
<1>2. Filled(c, m, d)
  <2>1. CASE c.siblings[d] # <<>>
    <3>1. \A e \in Desktop : e <= d => c.siblings[e] # <<>>
      <4>1. \A e \in Desktop : e \in Int
        BY Constants
      <4> QED BY <2>1, <4>1 DEF Begun
    <3>2. \A t \in Range(c.screens) : c.at[t].desktop <= d
      BY DEF Begun
    <3> QED BY <2>1, <3>1, <3>2 DEF Filled
  <2>2. CASE c.siblings[d] = <<>>
    <3>1. m = [c EXCEPT
                 !.at[s] = [Fake EXCEPT !.desktop = d, !.primary = (d = PrimaryNumber)],
                 !.screens = Append(@, s),
                 !.siblings[d] = <<s>>]
      BY <2>2
    <3>2. s = FreeSlot(c)
      OBVIOUS
    <3> HIDE DEF m, s
    <3>3. Filled(c, [c EXCEPT
                        !.at[s] = [Fake EXCEPT !.desktop = d, !.primary = (d = PrimaryNumber)],
                        !.screens = Append(@, s),
                        !.siblings[d] = <<s>>], d)
      BY <2>2, <3>2, FakeScreen
    <3> QED BY <3>1, <3>3
  <2> QED BY <2>1, <2>2
<1> HIDE DEF m
<1>3. Desktop = 1 .. Len(OutputsOf) /\ Len(OutputsOf) \in Nat
  BY Constants
<1>4. CASE d < Len(OutputsOf)
  <2>1. n = m
    BY <1>1, <1>4
  <2>2. Begun(m, d + 1, 0)
    <3>1. ASSUME NEW t \in Range(m.screens) PROVE m.at[t].desktop <= d + 1 /\ m.at[t].desktop # d + 1
      <4>1. m.at[t].desktop \in Int
        <5>1. m \in Client
          BY <1>2 DEF Filled
        <5>2. t \in Slot /\ m.at[t] \in Screen
          BY <5>1, ClientTypes
        <5> QED BY <1>3, <5>2 DEF Screen
      <4>2. m.at[t].desktop <= d
        BY <1>2 DEF Filled
      <4> QED BY <1>3, <4>1, <4>2
    <3>2. ASSUME NEW e \in Desktop, e < d + 1 PROVE m.siblings[e] # <<>>
      <4>1. e <= d
        BY <1>3, <3>2
      <4> QED BY <1>2, <4>1 DEF Filled
    <3> QED BY <3>1, <3>2 DEF Begun
  <2>3. d # Len(OutputsOf)
    BY <1>3, <1>4
  <2> QED BY <1>2, <2>1, <2>2, <2>3 DEF Ended, Filled, Filling
<1>5. CASE ~(d < Len(OutputsOf))
  <2>1. d = Len(OutputsOf)
    BY <1>3, <1>5
  <2>2. n = [m EXCEPT !.screens = ordered, !.gui = ordered]
    BY <1>1, <1>5
  <2>3. /\ m \in Client /\ Filling(m) /\ Own(m) /\ Listed(m)
        /\ \A t \in Range(c.screens) : t \in Range(m.screens) /\ m.at[t] = c.at[t]
        /\ \A t \in Range(m.screens) \ Range(c.screens) : m.at[t].output = None
    BY <1>2 DEF Filled, Filling
  <2>4. \A e \in Desktop : m.siblings[e] # <<>>
    <3>1. \A e \in Desktop : e <= d
      BY <1>3, <2>1
    <3> QED BY <1>2, <3>1 DEF Filled
  <2>5. /\ m.at \in [Slot -> Screen] /\ m.screens \in Seq(Slot)
        /\ m.siblings \in [Desktop -> Seq(Slot)] /\ m.gui \in Seq(Slot)
        /\ m = [at |-> m.at, screens |-> m.screens, siblings |-> m.siblings, gui |-> m.gui]
        /\ Range(m.screens) \subseteq Slot
    BY <2>3, ClientTypes
  <2>6. flaggedPrimary(m) = {first} /\ first = Head(m.siblings[PrimaryNumber])
    <3>1. flaggedPrimary(m) = {Head(m.siblings[PrimaryNumber])}
      BY <2>3, <2>4, Constants DEF Filling
    <3> QED BY <3>1 DEF The
  <2> HIDE DEF first
  <2>7. first \in Range(m.screens) /\ first \in Slot /\ m.at[first].desktop = PrimaryNumber
    <3>1. first \in Range(m.screens)
      BY <2>6 DEF flaggedPrimary
    <3>2. first \in Range(m.siblings[PrimaryNumber])
      <4> DEFINE q == m.siblings[PrimaryNumber]
      <4>1. q \in Seq(Slot) /\ q # <<>> /\ first = Head(q)
        BY <2>4, <2>5, <2>6, Constants
      <4> HIDE DEF q
      <4>2. first \in Range(q)
        BY <4>1, Elements
      <4> QED BY <4>2 DEF q
    <3>3. m.at[first].desktop = PrimaryNumber
      BY <2>3, <3>2, Constants DEF Listed
    <3> QED BY <2>5, <3>1, <3>3
  <2> DEFINE rest == removeOne(m.screens, first)
             front == TRUE
  <2>8. rest \in Seq(Slot) /\ IsInjective(rest) /\ Range(rest) = Range(m.screens) \ {first}
    BY <2>3, <2>5, <2>7, Removed DEF Listed
  <2>9. ordered = Inserted(rest, first, front)
    BY DEF Inserted
  <2>10. front \in BOOLEAN
    OBVIOUS
  <2>11. front
    OBVIOUS
  <2> HIDE DEF rest, front, ordered
  <2>12. first \notin Range(rest)
    BY <2>8
  <2>13. /\ ordered \in Seq(Slot) /\ IsInjective(ordered)
         /\ Range(ordered) = Range(rest) \cup {first} /\ Head(ordered) = first
    <3>1. /\ Inserted(rest, first, front) \in Seq(Slot) /\ IsInjective(Inserted(rest, first, front))
          /\ Range(Inserted(rest, first, front)) = Range(rest) \cup {first}
      BY <2>7, <2>8, <2>10, <2>12, Insertion
    <3>2. Head(Inserted(rest, first, front)) = IF front \/ rest = <<>> THEN first ELSE Head(rest)
      BY <2>7, <2>8, <2>10, <2>12, Insertion
    <3> QED BY <2>9, <2>11, <3>1, <3>2
  <2>14. /\ n \in Client /\ n.at = m.at /\ n.screens = ordered /\ n.gui = ordered
         /\ n.siblings = m.siblings
    BY <2>2, <2>5, <2>13 DEF Client
  <2>15. Range(n.screens) = Range(m.screens)
    BY <2>7, <2>8, <2>13, <2>14
  <2>16. Own(n)
    BY <2>3, <2>14, <2>15 DEF Own
  <2>17. Listed(n)
    BY <2>3, <2>13, <2>14, <2>15 DEF Listed
  <2>18. flaggedPrimary(n) = {first}
    BY <2>6, <2>14, <2>15 DEF flaggedPrimary
  <2>19. Whole(n)
    BY <2>4, <2>6, <2>7, <2>13, <2>14, <2>17, <2>18 DEF Whole
  <2>20. ~(d < Len(OutputsOf))
    BY <1>5
  <2> QED BY <2>1, <2>3, <2>14, <2>15, <2>16, <2>19, <2>20 DEF Ended
<1> QED BY <1>4, <1>5

-----------------------------------------------------------------------------
(* Types.                                                                  *)

Types ==
    /\ Server
    /\ events \in Seq(Notification)
    /\ starting \in [desktop : 1 .. Len(OutputsOf) + 1, next : Nat, primary : Output \cup {None}]
    /\ client \in Client

\* the server's steps leave the client alone
Outside ==
    \/ \E output \in Output : Plug(output) \/ Disable(output)
    \/ \E d \in Desktop : \E output \in Range(OutputsOf[d]), crtc \in CrtcsOf[d] :
          \E g \in 1 .. MaxGeometry : Enable(output, crtc, g)
    \/ \E crtc \in Crtc, g \in 1 .. MaxGeometry : Reshape(crtc, g)
    \/ \E output \in Range(OutputsOf[PrimaryNumber]) \union {None} : SetPrimaryOutput(output)

LEMMA ToldOf ==
    ASSUME NEW S \in SUBSET Output, NEW told \in SetToSeqs(S), IsFiniteSet(S)
    PROVE  /\ told \in Seq(S) /\ Len(told) = Cardinality(S) /\ DOMAIN told = 1 .. Len(told)
           /\ Len(told) \in Nat
           /\ \A o \in S : \E i \in 1 .. Len(told) : told[i] = o
           /\ \A i \in 1 .. Len(told) : told[i] \in S
<1> DEFINE n == Cardinality(S)
<1>1. n \in Nat
  BY FS_CardinalityType
<1>2. told \in [1 .. n -> S] /\ \A i, j \in 1 .. n : i # j => told[i] # told[j]
  BY DEF SetToSeqs
<1> HIDE DEF n
<1>3. told \in Seq(S) /\ Len(told) = n /\ DOMAIN told = 1 .. n
  BY <1>1, <1>2
<1>4. told \in Injection(1 .. n, S)
  BY <1>2 DEF Injection, IsInjective
<1>5. Cardinality(1 .. n) = n
  BY <1>1, FS_Interval
<1>6. told \in Surjection(1 .. n, S)
  BY <1>4, <1>5, FS_Injection DEF n
<1> QED BY <1>1, <1>2, <1>3, <1>6 DEF Surjection, n

LEMMA ServerTypes ==
    ASSUME Types, Outside
    PROVE  Types' /\ starting' = starting /\ client' = client
<1> USE DEF Types, Server
<1>1. /\ connected \in [Output -> BOOLEAN] /\ crtcOf \in [Output -> Crtc \cup {None}]
      /\ geometry \in [Crtc -> 0 .. MaxGeometry] /\ MaxGeometry \in Nat /\ MaxGeometry > 0
      /\ None \notin Output /\ None \notin Crtc
  BY Constants
<1>2. ASSUME NEW q \in Seq(Notification), Change(q), Server'
      PROVE  Types' /\ starting' = starting /\ client' = client
  <2>1. events \o q \in Seq(Notification)
    OBVIOUS
  <2> QED BY <1>2, <2>1 DEF Change
<1>3. ASSUME connected' \in [Output -> BOOLEAN], crtcOf' \in [Output -> Crtc \cup {None}],
             NEW o \in Output
      PROVE  OutputEvent(o) \in Notification
  BY <1>3 DEF OutputEvent, Notification
<1>4. ASSUME geometry' \in [Crtc -> 0 .. MaxGeometry], NEW k \in Crtc
      PROVE  CrtcEvent(k) \in Notification
  BY <1>4 DEF CrtcEvent, Notification
<1>5. ASSUME NEW o \in Output, Plug(o) PROVE Types' /\ starting' = starting /\ client' = client
  <2>1. Server'
    BY <1>1, <1>5 DEF Plug
  <2>2. OutputEvent(o) \in Notification
    BY <1>3, <2>1
  <2>3. <<OutputEvent(o)>> \in Seq(Notification)
    BY <2>2
  <2> QED BY <1>2, <1>5, <2>1, <2>3 DEF Plug
<1>6. ASSUME NEW o \in Output, Disable(o) PROVE Types' /\ starting' = starting /\ client' = client
  <2>1. crtcOf[o] \in Crtc
    BY <1>1, <1>6 DEF Disable
  <2>2. Server'
    <3>1. crtcOf' \in [Output -> Crtc \cup {None}]
      BY <1>1, <1>6 DEF Disable
    <3>2. geometry' \in [Crtc -> 0 .. MaxGeometry]
      BY <1>1, <1>6 DEF Disable
    <3> QED BY <1>1, <1>6, <3>1, <3>2 DEF Disable
  <2>3. OutputEvent(o) \in Notification /\ CrtcEvent(crtcOf[o]) \in Notification
    BY <1>3, <1>4, <2>1, <2>2
  <2>4. <<CrtcEvent(crtcOf[o]), OutputEvent(o)>> \in Seq(Notification)
    BY <2>3
  <2> QED BY <1>2, <1>6, <2>2, <2>4 DEF Disable
<1>7. ASSUME NEW o \in Output, NEW k \in Crtc, NEW g \in 1 .. MaxGeometry, Enable(o, k, g)
      PROVE  Types' /\ starting' = starting /\ client' = client
  <2>1. Server'
    <3>1. crtcOf' \in [Output -> Crtc \cup {None}]
      BY <1>1, <1>7 DEF Enable
    <3>2. geometry' \in [Crtc -> 0 .. MaxGeometry]
      BY <1>1, <1>7 DEF Enable
    <3> QED BY <1>1, <1>7, <3>1, <3>2 DEF Enable
  <2>2. OutputEvent(o) \in Notification /\ CrtcEvent(k) \in Notification
    BY <1>3, <1>4, <2>1
  <2>3. <<CrtcEvent(k), OutputEvent(o)>> \in Seq(Notification)
    BY <2>2
  <2> QED BY <1>2, <1>7, <2>1, <2>3 DEF Enable
<1>8. ASSUME NEW k \in Crtc, NEW g \in 1 .. MaxGeometry, Reshape(k, g)
      PROVE  Types' /\ starting' = starting /\ client' = client
  <2>1. Server'
    <3>1. geometry' \in [Crtc -> 0 .. MaxGeometry]
      BY <1>1, <1>8 DEF Reshape
    <3> QED BY <1>1, <1>8, <3>1 DEF Reshape
  <2>2. CrtcEvent(k) \in Notification
    BY <1>4, <2>1
  <2>3. <<CrtcEvent(k)>> \in Seq(Notification)
    BY <2>2
  <2> QED BY <1>2, <1>8, <2>1, <2>3 DEF Reshape
<1>9. ASSUME NEW o \in Range(OutputsOf[PrimaryNumber]) \cup {None}, SetPrimaryOutput(o)
      PROVE  Types' /\ starting' = starting /\ client' = client
  <2> DEFINE S == {o, rrPrimary} \ {None}
  <2>1. Server'
    BY <1>1, <1>9 DEF SetPrimaryOutput
  <2>2. PICK told \in SetToSeqs(S) : Change([i \in DOMAIN told |-> OutputEvent(told[i])])
    BY <1>9 DEF SetPrimaryOutput
  <2>3. S \in SUBSET Output
    BY Constants
  <2>4. IsFiniteSet(S)
    BY <2>3, Constants, FS_Subset
  <2> HIDE DEF S
  <2>5. /\ DOMAIN told = 1 .. Len(told) /\ Len(told) \in Nat
        /\ \A i \in 1 .. Len(told) : told[i] \in Output
    BY <2>3, <2>4, ToldOf
  <2> DEFINE q == [i \in DOMAIN told |-> OutputEvent(told[i])]
  <2>6. \A i \in 1 .. Len(told) : OutputEvent(told[i]) \in Notification
    BY <1>3, <2>1, <2>5
  <2>7. q \in [1 .. Len(told) -> Notification]
    BY <2>5, <2>6
  <2>8. q \in Seq(Notification)
    <3> DEFINE l == Len(told)
    <3>1. q \in [1 .. l -> Notification] /\ l \in Nat
      BY <2>5, <2>7
    <3> HIDE DEF q, l
    <3> QED BY <3>1
  <2> QED BY <1>2, <2>1, <2>2, <2>8
<1>10. \A d \in Desktop : Range(OutputsOf[d]) \subseteq Output /\ CrtcsOf[d] \subseteq Crtc
  BY Constants DEF Crtc
<1> QED BY <1>5, <1>6, <1>7, <1>8, <1>9, <1>10 DEF Outside

-----------------------------------------------------------------------------
(* The lists agree.                                                        *)

Lists ==
    /\ Own(client)
    /\ Ready => Whole(client)
    /\ ~Ready => Filling(client) /\ Begun(client, starting.desktop, starting.next)

\* what a notification does to the client, as a step
LEMMA Handled ==
    ASSUME Types, Lists, updateScreens,
           NEW c, c = client, NEW n, n = client', NEW e, e = Head(events)
    PROVE  /\ Ready /\ Ready' /\ starting' = starting /\ events # <<>> /\ events' = Tail(events)
           /\ e \in Notification /\ c \in Client /\ n \in Client
           /\ Whole(c) /\ Own(c) /\ Whole(n) /\ Own(n)
           /\ \/ e.type = "crtc" /\ Reshaped(c, n, e)
              \/ e.type = "output" /\ e.output \in Output /\ Answered(c, n, e)
<1>1. /\ Ready /\ Ready' /\ starting' = starting /\ events # <<>> /\ events' = Tail(events)
      /\ e \in Notification /\ c \in Client /\ Whole(c) /\ Own(c) /\ Server
  BY DEF Types, Lists, updateScreens, Ready
<1>2. n = IF e.type = "crtc" THEN crtcChanged(c, e) ELSE outputChanged(c, e)
  BY DEF updateScreens
<1>3. CASE e.type = "crtc"
  <2>1. Reshaped(c, crtcChanged(c, e), e)
    BY <1>1, <1>3, CrtcChanged
  <2>2. Reshaped(c, n, e)
    BY <1>2, <1>3, <2>1
  <2> QED BY <1>1, <1>3, <2>2 DEF Reshaped
<1>4. CASE e.type # "crtc"
  <2>1. e.type = "output"
    BY <1>1, <1>4 DEF Notification
  <2>2. e.output \in Output /\ Answered(c, outputChanged(c, e), e)
    BY <1>1, <2>1, OutputChanged
  <2>3. Answered(c, n, e)
    BY <1>2, <1>4, <2>2
  <2>4. n \in Client /\ Whole(n) /\ Own(n)
    BY <2>3 DEF Answered, Gone, Shows, Waits
  <2> QED BY <1>1, <2>1, <2>2, <2>3, <2>4
<1> QED BY <1>3, <1>4

LEMMA ListsKept ==
    ASSUME Types, Lists, [Next]_vars
    PROVE  Types' /\ Lists'
<1>1. CASE Outside
  <2>1. Types' /\ starting' = starting /\ client' = client
    BY <1>1, ServerTypes
  <2>2. Lists'
    BY <2>1 DEF Lists, Ready, Own, Whole, Filling, Begun, Listed, flaggedPrimary
  <2> QED BY <2>1, <2>2
<1>2. CASE updateScreens
  <2>1. /\ Ready /\ Ready' /\ starting' = starting /\ events # <<>> /\ events' = Tail(events)
        /\ client' \in Client /\ Whole(client') /\ Own(client')
    BY <1>2, Handled
  <2>2. Types'
    BY <1>2, <2>1 DEF Types, Server, updateScreens, server
  <2>3. Lists'
    BY <2>1 DEF Lists, Own, Whole, Listed, flaggedPrimary
  <2> QED BY <2>2, <2>3
<1>3. CASE readPrimary
  <2>1. /\ ~Ready /\ client' = client /\ events' = events /\ starting.next = 0
        /\ starting' = [starting EXCEPT !.next = 1,
                           !.primary = IF starting.desktop = PrimaryNumber THEN rrPrimary ELSE None]
        /\ Server'
    BY <1>3 DEF readPrimary, server, Types, Server
  <2>2. /\ starting'.desktop = starting.desktop /\ starting'.next = 1
        /\ starting' \in [desktop : 1 .. Len(OutputsOf) + 1, next : Nat, primary : Output \cup {None}]
    <3>1. rrPrimary \in Output \cup {None}
      BY Constants DEF Types, Server
    <3> QED BY <2>1, <3>1 DEF Types
  <2>3. Types'
    BY <2>1, <2>2 DEF Types
  <2>4. Lists'
    <3>1. ~Ready' /\ Own(client') /\ Filling(client')
      BY <2>1, <2>2 DEF Lists, Ready, Own, Filling, Listed, flaggedPrimary
    <3>2. Begun(client', starting'.desktop, starting'.next)
      <4>1. \A d \in Desktop : \A i \in 1 .. Len(OutputsOf[d]) : ~(i < 0)
        BY Constants
      <4>2. Begun(client, starting.desktop, 0) /\ starting.desktop \in Desktop
        BY <2>1 DEF Lists, Ready
      <4>3. Begun(client, starting.desktop, 1)
        BY <4>1, <4>2 DEF Begun
      <4> QED BY <2>1, <2>2, <4>3 DEF Begun
    <3> QED BY <3>1, <3>2 DEF Lists
  <2> QED BY <2>3, <2>4
<1>4. CASE readOutput
  <2> DEFINE d == starting.desktop
             k == starting.next
             o == OutputsOf[d][k]
  <2>1. /\ ~Ready /\ d \in Desktop /\ k \in 1 .. Len(OutputsOf[d]) /\ events' = events
        /\ starting' = [starting EXCEPT !.next = k + 1] /\ Server' /\ Server
        /\ client \in Client /\ Filling(client) /\ Begun(client, d, k) /\ k \in Nat
    <3>1. d \in Desktop /\ k \in DOMAIN OutputsOf[d] /\ k \in Nat
      BY <1>4 DEF readOutput, Ready, Types
    <3>2. DOMAIN OutputsOf[d] = 1 .. Len(OutputsOf[d])
      BY <3>1, Constants
    <3> QED BY <1>4, <3>1, <3>2 DEF readOutput, server, Types, Server, Lists
  <2>2. /\ starting'.desktop = d /\ starting'.next = k + 1
        /\ starting' \in [desktop : 1 .. Len(OutputsOf) + 1, next : Nat, primary : Output \cup {None}]
    BY <2>1 DEF Types
  <2>3. ~Ready'
    BY <2>1, <2>2 DEF Ready
  <2>4. CASE ~connected[o] \/ crtcOf[o] = None
    <3>1. client' = client
      BY <1>4, <2>4 DEF readOutput
    <3>2. Types'
      BY <2>1, <2>2, <3>1 DEF Types
    <3>3. Own(client') /\ Filling(client')
      BY <2>1, <3>1 DEF Own, Filling, Listed, flaggedPrimary
    <3>4. Begun(client, d, k + 1)
      <4>1. \A i \in 1 .. Len(OutputsOf[d]) : i < k => i < k + 1
        BY <2>1, Constants
      <4> HIDE DEF d, k
      <4> QED BY <2>1, <4>1 DEF Begun
    <3>5. Begun(client', starting'.desktop, starting'.next)
      BY <2>2, <3>1, <3>4 DEF Begun
    <3> QED BY <2>3, <3>2, <3>3, <3>5 DEF Lists
  <2>5. CASE connected[o] /\ crtcOf[o] # None
    <3> SUFFICES ASSUME NEW c, c = client, NEW n, n = client', NEW d1, d1 = d, NEW k1, k1 = k,
                        NEW o1, o1 = o
                 PROVE  Types' /\ Lists'
      OBVIOUS
    <3>1. Loaded(c, n, FreeSlot(c), d1, o1)
      <4>1. Loaded(c, client', FreeSlot(c), d1, o1)
        BY <1>4, <2>1, <2>5, ReadOutput
      <4> QED BY <4>1
    <3>2. n \in Client /\ Filling(n) /\ Own(n)
      BY <3>1 DEF Loaded, Filling
    <3>3. Types'
      BY <2>1, <2>2, <3>2 DEF Types
    <3>4. Begun(n, d1, k1 + 1)
      <4> DEFINE s == FreeSlot(c)
      <4> HIDE DEF d, k, o, s
      <4>1. \A i \in 1 .. Len(OutputsOf[d1]) : i < k1 => i < k1 + 1
        BY <2>1, Constants
      <4>2. ASSUME NEW t \in Range(n.screens)
            PROVE  /\ n.at[t].desktop <= d1
                   /\ n.at[t].desktop = d1 =>
                         \E i \in 1 .. Len(OutputsOf[d1]) : i < k1 + 1 /\ OutputsOf[d1][i] = n.at[t].output
        <5>1. CASE t \in Range(c.screens)
          <6>1. n.at[t].desktop = c.at[t].desktop /\ n.at[t].output = c.at[t].output
            BY <3>1, <5>1 DEF Loaded
          <6>2. Begun(c, d1, k1)
            BY <2>1
          <6> QED BY <4>1, <5>1, <6>1, <6>2 DEF Begun
        <5>2. CASE t \notin Range(c.screens)
          <6>1. n.at[t].desktop = d1 /\ n.at[t].output = o1
            BY <3>1, <5>2 DEF Loaded
          <6>2. k1 \in 1 .. Len(OutputsOf[d1]) /\ k1 < k1 + 1 /\ OutputsOf[d1][k1] = o1 /\ d1 <= d1
            BY <2>1, Constants DEF o
          <6> QED BY <6>1, <6>2
        <5> QED BY <5>1, <5>2
      <4>3. ASSUME NEW e \in Desktop, e < d1 PROVE n.siblings[e] # <<>>
        <5>1. e # d1
          BY <4>3, Constants
        <5>2. n.siblings[e] = c.siblings[e]
          BY <3>1, <5>1 DEF Loaded
        <5>3. Begun(c, d1, k1)
          BY <2>1
        <5> QED BY <4>3, <5>2, <5>3 DEF Begun
      <4> QED BY <4>2, <4>3 DEF Begun
    <3>5. Lists'
      <4>1. Own(client') /\ Filling(client')
        BY <3>2
      <4>2. Begun(client', starting'.desktop, starting'.next)
        BY <2>2, <3>4
      <4> QED BY <2>3, <4>1, <4>2 DEF Lists, Own, Filling, Begun, Listed, flaggedPrimary
    <3> QED BY <3>3, <3>5
  <2> QED BY <2>4, <2>5
<1>5. CASE endDesktop
  <2> DEFINE d == starting.desktop
             k == starting.next
  <2>1. /\ d \in Desktop /\ events' = events /\ starting' = At(d + 1, 0, None)
        /\ Server' /\ client \in Client /\ Filling(client) /\ Begun(client, d, k) /\ k \in Nat
    BY <1>5 DEF endDesktop, server, Types, Server, Lists, Ready
  <2>2. /\ starting'.desktop = d + 1 /\ starting'.next = 0
        /\ starting' \in [desktop : 1 .. Len(OutputsOf) + 1, next : Nat, primary : Output \cup {None}]
    <3>1. d + 1 \in 1 .. Len(OutputsOf) + 1
      BY <2>1, Constants
    <3> QED BY <2>1, <3>1 DEF At
  <2> SUFFICES ASSUME NEW c, c = client, NEW n, n = client', NEW d1, d1 = d, NEW k1, k1 = k
               PROVE  Types' /\ Lists'
    OBVIOUS
  <2>3. Ended(c, n, d1)
    <3>1. Ended(c, client', d1)
      BY <1>5, <2>1, EndDesktop
    <3> QED BY <3>1
  <2>4. n \in Client /\ Own(n)
    BY <2>3 DEF Ended
  <2>5. Types'
    BY <2>1, <2>2, <2>4 DEF Types
  <2>6. Own(client')
    BY <2>4
  <2>7. d1 < Len(OutputsOf) => Filling(client') /\ Begun(client', starting'.desktop, starting'.next)
    BY <2>2, <2>3 DEF Ended
  <2>8. d1 = Len(OutputsOf) => Whole(client')
    BY <2>3 DEF Ended
  <2>9. /\ d1 < Len(OutputsOf) \/ d1 = Len(OutputsOf)
        /\ d1 < Len(OutputsOf) => ~Ready'
        /\ d1 = Len(OutputsOf) => Ready'
    <3>1. d1 \in 1 .. Len(OutputsOf) /\ Desktop = 1 .. Len(OutputsOf) /\ Len(OutputsOf) \in Nat
      BY <2>1, Constants
    <3> QED BY <2>2, <3>1 DEF Ready
  <2>10. Lists'
    BY <2>6, <2>7, <2>8, <2>9 DEF Lists, Own, Filling, Begun, Whole, Listed, flaggedPrimary
  <2> QED BY <2>5, <2>10
<1>6. CASE UNCHANGED vars
  <2>1. /\ connected' = connected /\ crtcOf' = crtcOf /\ geometry' = geometry
        /\ rrPrimary' = rrPrimary /\ events' = events /\ starting' = starting /\ client' = client
    BY <1>6 DEF vars, server
  <2> QED BY <2>1 DEF Types, Server, Lists, Ready, Own, Whole, Filling, Begun, Listed, flaggedPrimary
<1>7. Next => Outside \/ updateScreens \/ readPrimary \/ readOutput \/ endDesktop
  BY DEF Next, Outside
<1> QED BY <1>1, <1>2, <1>3, <1>4, <1>5, <1>6, <1>7

LEMMA ListsInit ==
    ASSUME Init
    PROVE  Types /\ Lists
<1>1. /\ client = [at |-> [s \in Slot |-> Fake], screens |-> <<>>,
                   siblings |-> [d \in Desktop |-> <<>>], gui |-> <<>>]
      /\ events = <<>> /\ starting = [desktop |-> 1, next |-> 0, primary |-> None]
  BY DEF Init, At
<1>2. client \in Client
  <2>1. 0 \in 0 .. MaxGeometry /\ 1 \in Desktop
    BY Constants
  <2>2. Fake \in Screen
    BY <2>1 DEF Fake, Screen
  <2> QED BY <1>1, <2>2 DEF Client
<1>3. Types
  <2>1. connected \in [Output -> BOOLEAN]
    BY DEF Init
  <2>2. crtcOf \in [Output -> Crtc \cup {None}]
    BY DEF Init, Driven
  <2>3. geometry \in [Crtc -> 0 .. MaxGeometry]
    <3>1. 0 \in 0 .. MaxGeometry /\ 1 \in 0 .. MaxGeometry
      BY Constants
    <3> QED BY <3>1 DEF Init
  <2>4. rrPrimary \in Range(OutputsOf[PrimaryNumber]) \cup {None}
    BY DEF Init
  <2>5. starting \in [desktop : 1 .. Len(OutputsOf) + 1, next : Nat, primary : Output \cup {None}]
    BY <1>1, Constants
  <2>6. events \in Seq(Notification)
    BY <1>1
  <2> QED BY <1>2, <2>1, <2>2, <2>3, <2>4, <2>5, <2>6 DEF Types, Server
<1>4. Range(client.screens) = {} /\ \A d \in Desktop : client.siblings[d] = <<>>
  BY <1>1 DEF Range
<1>5. IsInjective(client.screens) /\ \A d \in Desktop : IsInjective(client.siblings[d])
  BY <1>1, <1>4 DEF IsInjective
<1>6. \A d \in Desktop : Range(client.siblings[d]) = {}
  BY <1>4 DEF Range
<1>7. Own(client) /\ Listed(client)
  BY <1>4, <1>5, <1>6 DEF Own, Listed
<1>8. flaggedPrimary(client) = {}
  BY <1>4 DEF flaggedPrimary
<1>9. Filling(client)
  BY <1>4, <1>7, <1>8, Constants DEF Filling
<1>10. Begun(client, starting.desktop, starting.next) /\ ~Ready
  <2>1. starting.desktop = 1 /\ 1 \in Desktop /\ \A e \in Desktop : ~(e < 1)
    BY <1>1, Constants
  <2> QED BY <1>4, <2>1 DEF Begun, Ready
<1> QED BY <1>3, <1>7, <1>9, <1>10 DEF Lists

\* updateScreens(), createScreen() and destroyScreen() keep the lists of the
\* connection, of its virtual desktops and of QGuiApplication in step, with one
\* primary screen in front and a screen on every desktop, whatever the server
\* does meanwhile.
THEOREM ListsStayInStep == Spec => []ListsAgree
<1>1. Init => Types /\ Lists
  BY ListsInit
<1>2. Types /\ Lists /\ [Next]_vars => Types' /\ Lists'
  BY ListsKept
<1>3. Lists => ListsAgree
  <2>1. ASSUME Ready, Lists PROVE SameScreens
    BY <2>1 DEF Lists, Whole, Listed, SameScreens
  <2>2. ASSUME Ready, Lists PROVE OnePrimary
    BY <2>2 DEF Lists, Whole, OnePrimary
  <2>3. ~Ready => SameScreens /\ OnePrimary
    BY DEF SameScreens, OnePrimary
  <2> QED BY <2>1, <2>2, <2>3 DEF ListsAgree
<1> QED BY <1>1, <1>2, <1>3, PTL DEF Spec

-----------------------------------------------------------------------------
(* What the client has follows what the server shows.  q is the sequence   *)
(* of notifications to come, c the client.                                 *)

AboutOutput(e, o) == e.type = "output" /\ e.output = o
AboutCrtc(e, k) == e.type = "crtc" /\ e.crtc = k

\* nothing is to come about an output, about a crtc
Quiet(q, o) == \A i \in 1 .. Len(q) : ~AboutOutput(q[i], o)
Still(q, k) == \A i \in 1 .. Len(q) : ~AboutCrtc(q[i], k)

\* a crtc that drives an output is on, and drives no other
Powered ==
    /\ \A o \in Output : crtcOf[o] # None => geometry[crtcOf[o]] # 0
    /\ \A o, p \in Output : o # p /\ crtcOf[o] # None => crtcOf[o] # crtcOf[p]

\* the last that is to come of an output, and of a crtc, is how it is
Current(e, o) == e.connected = connected[o] /\ e.crtc = crtcOf[o]

Told(q) ==
    /\ \A o \in Output : Quiet(q, o) \/ \E i \in 1 .. Len(q) :
          /\ AboutOutput(q[i], o)
          /\ \A j \in 1 .. Len(q) : j >= i /\ AboutOutput(q[j], o) => Current(q[j], o)
    /\ \A k \in Crtc : Still(q, k) \/ \E i \in 1 .. Len(q) :
          /\ AboutCrtc(q[i], k)
          /\ \A j \in 1 .. Len(q) : j >= i /\ AboutCrtc(q[j], k) => q[j].geometry = geometry[k]

\* initializeScreens() has read the output
Read(o) ==
    \/ DesktopOf(o) < starting.desktop
    \/ /\ DesktopOf(o) = starting.desktop
       /\ \E i \in 1 .. Len(OutputsOf[DesktopOf(o)]) :
             i < starting.next /\ OutputsOf[DesktopOf(o)][i] = o

\* the screen of an output of which nothing is to come is as the server shows it
Matches(q, c, o) ==
    /\ connected[o] /\ crtcOf[o] # None <=> \E s \in Range(c.screens) : c.at[s].output = o
    /\ \A s \in Range(c.screens) : c.at[s].output = o =>
          /\ c.at[s].crtc = crtcOf[o]
          /\ Still(q, crtcOf[o]) => c.at[s].geometry = geometry[crtcOf[o]]
          /\ o = rrPrimary => c.at[s].primary

Match(q, c) == \A o \in Output : Quiet(q, o) /\ Read(o) => Matches(q, c, o)

\* p has let go of the crtc k, or will before the notification n
Spares(e, p, k) == AboutOutput(e, p) => e.crtc # k

Quits(q, c, p, k, n) ==
    \/ /\ \A s \in Range(c.screens) : c.at[s].output = p => c.at[s].crtc # k
       /\ \A j \in 1 .. Len(q) : Spares(q[j], p, k)
    \/ \E i \in 1 .. Len(q) :
          i < n /\ AboutOutput(q[i], p) /\ \A j \in 1 .. Len(q) : j >= i => Spares(q[j], p, k)

\* the client takes a crtc from an output before it gives it to the next
Handed(q, c) ==
    \A o, p \in Output : o # p /\ crtcOf[o] # None =>
        \E n \in 0 .. Len(q) :
            (n # 0 => AboutOutput(q[n], o)) /\ Quits(q, c, p, crtcOf[o], n)

\* initializeScreens() knows the primary output, or will hear of it
Flagged(q) ==
    /\ starting.desktop # PrimaryNumber => starting.primary = None
    /\ starting.desktop = PrimaryNumber /\ starting.next > 0 /\ rrPrimary # None =>
          starting.primary = rrPrimary \/ ~Quiet(q, rrPrimary)

Follows ==
    Powered /\ Told(events) /\ Match(events, client) /\ Handed(events, client) /\ Flagged(events)

LEMMA OnlyRead ==
    ASSUME Types, Lists, NEW o \in Output, NEW s \in Range(client.screens), client.at[s].output = o
    PROVE  Read(o)
<1> SUFFICES ASSUME NEW c, c = client PROVE Read(o)
  OBVIOUS
<1>1. c \in Client /\ s \in Range(c.screens) /\ c.at[s].output = o /\ Own(c)
  BY DEF Types, Lists
<1>2. c.at[s] \in Screen
  BY <1>1, ClientTypes
<1>3. c.at[s].desktop \in Desktop /\ o # None
  BY <1>2, Constants DEF Screen
<1>4. c.at[s].desktop = DesktopOf(o)
  <2>1. o \in Range(OutputsOf[c.at[s].desktop])
    BY <1>1, <1>3 DEF Own
  <2> QED BY <1>3, <2>1, TheDesktop
<1>5. CASE Ready
  <2>1. starting.desktop \in 1 .. Len(OutputsOf) + 1 /\ starting.desktop \notin Desktop
    BY <1>5 DEF Types, Ready
  <2>2. Desktop = 1 .. Len(OutputsOf) /\ Len(OutputsOf) \in Nat
    BY Constants
  <2> QED BY <1>3, <1>4, <2>1, <2>2 DEF Read
<1>6. CASE ~Ready
  <2>1. /\ c.at[s].desktop <= starting.desktop
        /\ c.at[s].desktop = starting.desktop =>
              \E i \in 1 .. Len(OutputsOf[starting.desktop]) :
                  i < starting.next /\ OutputsOf[starting.desktop][i] = o
    BY <1>1, <1>6 DEF Lists, Begun
  <2>2. starting.desktop \in Int /\ c.at[s].desktop \in Int
    BY <1>3, Constants DEF Types
  <2> QED BY <1>4, <2>1, <2>2 DEF Read
<1> QED BY <1>5, <1>6

\* a change of the server notifies what it changes, as it is then
Noticed(q) ==
    /\ events' = events \o q
    /\ \A i \in 1 .. Len(q) :
          \/ q[i].type = "output" /\ q[i].connected = connected'[q[i].output]
                                  /\ q[i].crtc = crtcOf'[q[i].output]
          \/ q[i].type = "crtc" /\ q[i].geometry = geometry'[q[i].crtc]
    /\ \A o \in Output :
          \/ connected'[o] = connected[o] /\ crtcOf'[o] = crtcOf[o]
             /\ (rrPrimary' = o => rrPrimary = o)
          \/ \E i \in 1 .. Len(q) : AboutOutput(q[i], o)
    /\ \A k \in Crtc : geometry'[k] = geometry[k] \/ \E i \in 1 .. Len(q) : AboutCrtc(q[i], k)
    /\ \A o \in Output : crtcOf'[o] \notin {crtcOf[o], None} =>
          \A p \in Output : crtcOf[p] # crtcOf'[o]
    /\ Powered'

\* notifications that were to come still are, and so are the new ones
LEMMA Appended ==
    ASSUME NEW q \in Seq(Notification), NEW r \in Seq(Notification), NEW t, t = q \o r
    PROVE  /\ t \in Seq(Notification) /\ Len(t) = Len(q) + Len(r)
           /\ Len(q) \in Nat /\ Len(r) \in Nat
           /\ \A i \in 1 .. Len(q) : i \in 1 .. Len(t) /\ t[i] = q[i]
           /\ \A i \in 1 .. Len(r) : Len(q) + i \in 1 .. Len(t) /\ t[Len(q) + i] = r[i]
           /\ \A i \in 1 .. Len(t) :
                 \/ i \in 1 .. Len(q) /\ t[i] = q[i]
                 \/ i > Len(q) /\ i - Len(q) \in 1 .. Len(r) /\ t[i] = r[i - Len(q)]
<1>1. /\ t \in Seq(Notification) /\ Len(t) = Len(q) + Len(r)
      /\ \A i \in 1 .. Len(q) + Len(r) : t[i] = IF i <= Len(q) THEN q[i] ELSE r[i - Len(q)]
  BY ConcatProperties
<1>2. Len(q) \in Nat /\ Len(r) \in Nat
  OBVIOUS
<1>3. \A i \in 1 .. Len(q) : i \in 1 .. Len(t) /\ t[i] = q[i]
  BY <1>1, <1>2
<1>4. ASSUME NEW i \in 1 .. Len(r) PROVE Len(q) + i \in 1 .. Len(t) /\ t[Len(q) + i] = r[i]
  <2>1. Len(q) + i \in 1 .. Len(q) + Len(r) /\ ~(Len(q) + i <= Len(q)) /\ (Len(q) + i) - Len(q) = i
    BY <1>2
  <2> QED BY <1>1, <2>1
<1>5. ASSUME NEW i \in 1 .. Len(t)
      PROVE  \/ i \in 1 .. Len(q) /\ t[i] = q[i]
             \/ i > Len(q) /\ i - Len(q) \in 1 .. Len(r) /\ t[i] = r[i - Len(q)]
  <2>1. CASE i <= Len(q)
    BY <1>1, <1>2, <2>1
  <2>2. CASE i > Len(q)
    <3>1. i - Len(q) \in 1 .. Len(r) /\ ~(i <= Len(q)) /\ i \in 1 .. Len(q) + Len(r)
      BY <1>1, <1>2, <2>2
    <3> QED BY <1>1, <2>2, <3>1
  <2> QED BY <1>1, <1>2, <2>1, <2>2
<1> QED BY <1>1, <1>2, <1>3, <1>4, <1>5

LEMMA Notices ==
    ASSUME ~Clones, Types, Powered, Outside
    PROVE  \E q \in Seq(Notification) : Noticed(q)
<1> USE DEF AboutOutput, AboutCrtc
<1>1. /\ connected \in [Output -> BOOLEAN] /\ crtcOf \in [Output -> Crtc \cup {None}]
      /\ geometry \in [Crtc -> 0 .. MaxGeometry] /\ rrPrimary \in Output \cup {None}
      /\ None \notin Output /\ None \notin Crtc
  BY Constants DEF Types, Server
<1>2. /\ connected' \in [Output -> BOOLEAN] /\ crtcOf' \in [Output -> Crtc \cup {None}]
      /\ geometry' \in [Crtc -> 0 .. MaxGeometry]
  BY ServerTypes DEF Types, Server
<1>3. ASSUME NEW o \in Output PROVE OutputEvent(o) \in Notification
  BY <1>2, <1>3 DEF OutputEvent, Notification
<1>4. ASSUME NEW k \in Crtc PROVE CrtcEvent(k) \in Notification
  BY <1>2, <1>4 DEF CrtcEvent, Notification
<1>5. ASSUME NEW o \in Output, Plug(o) PROVE \E q \in Seq(Notification) : Noticed(q)
  <2> DEFINE q == <<OutputEvent(o)>>
  <2>1. q \in Seq(Notification)
    BY <1>3
  <2>2. /\ events' = events \o q /\ crtcOf' = crtcOf /\ geometry' = geometry
        /\ rrPrimary' = rrPrimary /\ connected' = [connected EXCEPT ![o] = ~connected[o]]
    BY <1>5 DEF Plug, Change
  <2>3. /\ Len(q) = 1 /\ q[1].type = "output" /\ q[1].output = o
        /\ q[1].connected = connected'[o] /\ q[1].crtc = crtcOf'[o]
    BY DEF OutputEvent
  <2>4. \A p \in Output : p # o => connected'[p] = connected[p]
    BY <1>1, <2>2
  <2>5. Powered'
    BY <2>2 DEF Powered
  <2> HIDE DEF q
  <2>6. 1 \in 1 .. Len(q) /\ \A i \in 1 .. Len(q) : i = 1
    BY <2>3
  <2>7. Noticed(q)
    BY <2>2, <2>3, <2>4, <2>5, <2>6 DEF Noticed
  <2> QED BY <2>1, <2>7
<1>6. ASSUME NEW k \in Crtc, NEW g \in 1 .. MaxGeometry, Reshape(k, g)
      PROVE  \E q \in Seq(Notification) : Noticed(q)
  <2> DEFINE q == <<CrtcEvent(k)>>
  <2>1. q \in Seq(Notification)
    BY <1>4
  <2>2. /\ events' = events \o q /\ crtcOf' = crtcOf /\ connected' = connected
        /\ rrPrimary' = rrPrimary /\ geometry' = [geometry EXCEPT ![k] = g]
    BY <1>6 DEF Reshape, Change
  <2>3. /\ Len(q) = 1 /\ q[1].type = "crtc" /\ q[1].crtc = k
        /\ q[1].geometry = geometry'[k]
    BY DEF CrtcEvent
  <2>4. /\ \A l \in Crtc : l # k => geometry'[l] = geometry[l]
        /\ geometry'[k] # 0
    BY <1>1, <2>2, Constants
  <2>5. Powered'
    <3>1. \A o \in Output : crtcOf[o] # None => crtcOf[o] \in Crtc
      BY <1>1
    <3> QED BY <2>2, <2>4, <3>1 DEF Powered
  <2> HIDE DEF q
  <2>6. 1 \in 1 .. Len(q) /\ \A i \in 1 .. Len(q) : i = 1
    BY <2>3
  <2>7. Noticed(q)
    BY <2>2, <2>3, <2>4, <2>5, <2>6 DEF Noticed
  <2> QED BY <2>1, <2>7
<1>7. ASSUME NEW o \in Output, NEW k \in Crtc, CrtcEvent(k) \in Notification,
             events' = events \o <<CrtcEvent(k), OutputEvent(o)>>,
             connected' = connected, rrPrimary' = rrPrimary,
             \A p \in Output : p # o => crtcOf'[p] = crtcOf[p],
             \A l \in Crtc : l # k => geometry'[l] = geometry[l],
             crtcOf'[o] # None => \A p \in Output : crtcOf[p] # crtcOf'[o],
             Powered'
      PROVE  \E q \in Seq(Notification) : Noticed(q)
  <2> DEFINE q == <<CrtcEvent(k), OutputEvent(o)>>
  <2>1. q \in Seq(Notification)
    BY <1>3, <1>4
  <2>2. /\ Len(q) = 2 /\ q[1].type = "crtc" /\ q[1].crtc = k /\ q[1].geometry = geometry'[k]
        /\ q[2].type = "output" /\ q[2].output = o
        /\ q[2].connected = connected'[o] /\ q[2].crtc = crtcOf'[o]
    BY DEF CrtcEvent, OutputEvent
  <2>3. events' = events \o q
    BY <1>7
  <2> HIDE DEF q
  <2>4. 1 \in 1 .. Len(q) /\ 2 \in 1 .. Len(q) /\ \A i \in 1 .. Len(q) : i = 1 \/ i = 2
    BY <2>2
  <2>5. \A p \in Output : \/ connected'[p] = connected[p] /\ crtcOf'[p] = crtcOf[p]
                             /\ (rrPrimary' = p => rrPrimary = p)
                          \/ \E i \in 1 .. Len(q) : AboutOutput(q[i], p)
    BY <1>7, <2>2, <2>4
  <2>6. \A l \in Crtc : geometry'[l] = geometry[l] \/ \E i \in 1 .. Len(q) : AboutCrtc(q[i], l)
    BY <1>7, <2>2, <2>4
  <2>7. \A p \in Output : crtcOf'[p] \notin {crtcOf[p], None} =>
          \A r \in Output : crtcOf[r] # crtcOf'[p]
    BY <1>7
  <2>8. \A i \in 1 .. Len(q) :
          \/ q[i].type = "output" /\ q[i].connected = connected'[q[i].output]
                                  /\ q[i].crtc = crtcOf'[q[i].output]
          \/ q[i].type = "crtc" /\ q[i].geometry = geometry'[q[i].crtc]
    BY <2>2, <2>4
  <2>9. Noticed(q)
    BY <1>7, <2>3, <2>5, <2>6, <2>7, <2>8 DEF Noticed
  <2> QED BY <2>1, <2>9
<1>8. ASSUME NEW o \in Output, Disable(o) PROVE \E q \in Seq(Notification) : Noticed(q)
  <2> DEFINE k == crtcOf[o]
  <2>1. k \in Crtc
    BY <1>1, <1>8 DEF Disable
  <2>2. /\ crtcOf' = [crtcOf EXCEPT ![o] = None] /\ connected' = connected /\ rrPrimary' = rrPrimary
        /\ \A l \in Crtc : l # k => geometry'[l] = geometry[l]
        /\ events' = events \o <<CrtcEvent(k), OutputEvent(o)>>
    BY <1>1, <1>8 DEF Disable, Change
  <2>3. crtcOf'[o] = None /\ \A p \in Output : p # o => crtcOf'[p] = crtcOf[p]
    BY <1>1, <2>2
  <2>4. Powered'
    <3>1. \A p \in Output : crtcOf'[p] # None =>
             p # o /\ crtcOf[p] # None /\ crtcOf[p] \in Crtc /\ crtcOf'[p] = crtcOf[p]
      BY <1>1, <2>3
    <3>2. \A p \in Output : crtcOf'[p] # None => crtcOf[p] # k
      BY <3>1 DEF Powered
    <3>3. \A p \in Output : crtcOf'[p] # None => geometry'[crtcOf'[p]] # 0
      BY <2>2, <3>1, <3>2 DEF Powered
    <3>4. \A p, r \in Output : p # r /\ crtcOf'[p] # None => crtcOf'[p] # crtcOf'[r]
      BY <2>3, <3>1 DEF Powered
    <3> QED BY <3>3, <3>4 DEF Powered
  <2>5. CrtcEvent(k) \in Notification
    BY <1>4, <2>1
  <2>6. events' = events \o <<CrtcEvent(k), OutputEvent(o)>>
    BY <2>2
  <2> HIDE DEF k
  <2> QED BY <1>7, <2>1, <2>2, <2>3, <2>4, <2>5, <2>6, SMTT(30)
<1>9. ASSUME NEW o \in Output, NEW k \in Crtc, NEW g \in 1 .. MaxGeometry, Enable(o, k, g)
      PROVE  \E q \in Seq(Notification) : Noticed(q)
  <2>1. /\ crtcOf' = [crtcOf EXCEPT ![o] = k] /\ connected' = connected /\ rrPrimary' = rrPrimary
        /\ geometry' = [geometry EXCEPT ![k] = g] /\ geometry[k] = 0
        /\ events' = events \o <<CrtcEvent(k), OutputEvent(o)>>
    BY <1>9 DEF Enable, Change
  <2>2. /\ crtcOf'[o] = k /\ \A p \in Output : p # o => crtcOf'[p] = crtcOf[p]
        /\ \A l \in Crtc : l # k => geometry'[l] = geometry[l]
        /\ geometry'[k] # 0
    BY <1>1, <2>1, Constants
  <2>3. \A p \in Output : crtcOf[p] # k
    BY <1>1, <2>1 DEF Powered
  <2>4. Powered'
    <3>1. \A p \in Output : p # o /\ crtcOf[p] # None =>
             crtcOf[p] \in Crtc /\ geometry'[crtcOf[p]] # 0
      BY <1>1, <2>2, <2>3 DEF Powered
    <3>2. \A p \in Output : crtcOf'[p] # None => geometry'[crtcOf'[p]] # 0
      BY <2>2, <3>1
    <3>3. \A p, r \in Output : p # r /\ crtcOf'[p] # None => crtcOf'[p] # crtcOf'[r]
      BY <2>2, <2>3 DEF Powered
    <3> QED BY <3>2, <3>3 DEF Powered
  <2>5. CrtcEvent(k) \in Notification
    BY <1>4
  <2> QED BY <1>7, <2>1, <2>2, <2>3, <2>4, <2>5, SMTT(30)
<1>10. ASSUME NEW o \in Range(OutputsOf[PrimaryNumber]) \cup {None}, SetPrimaryOutput(o)
       PROVE  \E q \in Seq(Notification) : Noticed(q)
  <2> DEFINE S == {o, rrPrimary} \ {None}
  <2>1. PICK told \in SetToSeqs(S) : Change([i \in DOMAIN told |-> OutputEvent(told[i])])
    BY <1>10 DEF SetPrimaryOutput
  <2>2. S \in SUBSET Output
    BY <1>1, Constants
  <2>3. IsFiniteSet(S)
    BY <2>2, Constants, FS_Subset
  <2>4. /\ crtcOf' = crtcOf /\ geometry' = geometry /\ connected' = connected /\ rrPrimary' = o
        /\ o # None => o \in S
    BY <1>10 DEF SetPrimaryOutput
  <2> HIDE DEF S
  <2>5. /\ DOMAIN told = 1 .. Len(told) /\ Len(told) \in Nat
        /\ \A i \in 1 .. Len(told) : told[i] \in Output
        /\ o # None => \E i \in 1 .. Len(told) : told[i] = o
    BY <2>2, <2>3, <2>4, ToldOf
  <2> DEFINE q == [i \in DOMAIN told |-> OutputEvent(told[i])]
             l == Len(told)
  <2>6. \A i \in 1 .. l : OutputEvent(told[i]) \in Notification
    BY <1>3, <2>5
  <2>7. q \in [1 .. l -> Notification] /\ l \in Nat
    BY <2>5, <2>6
  <2>8. \A i \in 1 .. l : /\ q[i].type = "output" /\ q[i].output = told[i]
                          /\ q[i].connected = connected'[q[i].output]
                          /\ q[i].crtc = crtcOf'[q[i].output]
    BY <2>5 DEF OutputEvent
  <2>9. events' = events \o q
    BY <2>1 DEF Change
  <2> HIDE DEF q, l
  <2>10. q \in Seq(Notification) /\ Len(q) = l
    BY <2>7
  <2>11. \A p \in Output : \/ connected'[p] = connected[p] /\ crtcOf'[p] = crtcOf[p]
                              /\ (rrPrimary' = p => rrPrimary = p)
                           \/ \E i \in 1 .. Len(q) : AboutOutput(q[i], p)
    <3>1. o # None => \E i \in 1 .. Len(q) : AboutOutput(q[i], o)
      BY <2>5, <2>8, <2>10 DEF l
    <3> QED BY <1>1, <2>4, <3>1
  <2>12. Powered'
    BY <2>4 DEF Powered
  <2>13. Noticed(q)
    BY <2>4, <2>8, <2>9, <2>10, <2>11, <2>12 DEF Noticed
  <2> QED BY <2>10, <2>13
<1>11. \A d \in Desktop : Range(OutputsOf[d]) \subseteq Output /\ CrtcsOf[d] \subseteq Crtc
  BY Constants DEF Crtc
<1> QED BY <1>5, <1>6, <1>8, <1>9, <1>10, <1>11 DEF Outside

-----------------------------------------------------------------------------
(* The server's changes leave the client behind, but not astray.           *)

\* t is the notifications to come after a change, and says what changed
Sent(t) ==
    /\ Len(t) \in Nat /\ Len(events) \in Nat /\ Len(t) >= Len(events)
    /\ \A i \in 1 .. Len(events) : i \in 1 .. Len(t) /\ t[i] = events[i]
    /\ \A i \in 1 .. Len(t) : i > Len(events) =>
          /\ t[i].type = "output" => /\ t[i].connected = connected'[t[i].output]
                                     /\ t[i].crtc = crtcOf'[t[i].output]
          /\ t[i].type = "crtc" => t[i].geometry = geometry'[t[i].crtc]
    /\ \A o \in Output :
          \/ connected'[o] = connected[o] /\ crtcOf'[o] = crtcOf[o]
             /\ (rrPrimary' = o => rrPrimary = o)
          \/ \E i \in 1 .. Len(t) : i > Len(events) /\ AboutOutput(t[i], o)
    /\ \A k \in Crtc : \/ geometry'[k] = geometry[k]
                       \/ \E i \in 1 .. Len(t) : i > Len(events) /\ AboutCrtc(t[i], k)

LEMMA Sends ==
    ASSUME Types, NEW q \in Seq(Notification), Noticed(q), NEW t, t = events'
    PROVE  Sent(t)
<1>1. events \in Seq(Notification) /\ t = events \o q
  BY DEF Types, Noticed
<1> DEFINE u == events
<1>2. /\ t \in Seq(Notification) /\ Len(t) = Len(u) + Len(q)
      /\ Len(u) \in Nat /\ Len(q) \in Nat
      /\ \A i \in 1 .. Len(u) : i \in 1 .. Len(t) /\ t[i] = u[i]
      /\ \A i \in 1 .. Len(q) : Len(u) + i \in 1 .. Len(t) /\ t[Len(u) + i] = q[i]
      /\ \A i \in 1 .. Len(t) :
            \/ i \in 1 .. Len(u) /\ t[i] = u[i]
            \/ i > Len(u) /\ i - Len(u) \in 1 .. Len(q) /\ t[i] = q[i - Len(u)]
  BY <1>1, Appended
<1> HIDE DEF u
<1>3. Len(t) >= Len(u)
  BY <1>2
<1>4. ASSUME NEW i \in 1 .. Len(t), i > Len(u)
      PROVE  /\ t[i].type = "output" => /\ t[i].connected = connected'[t[i].output]
                                        /\ t[i].crtc = crtcOf'[t[i].output]
             /\ t[i].type = "crtc" => t[i].geometry = geometry'[t[i].crtc]
  <2>1. i - Len(u) \in 1 .. Len(q) /\ t[i] = q[i - Len(u)]
    BY <1>4, <1>2
  <2> QED BY <2>1 DEF Noticed
<1>5. \A i \in 1 .. Len(q) : Len(u) + i \in 1 .. Len(t) /\ Len(u) + i > Len(u) /\ t[Len(u) + i] = q[i]
  BY <1>2
<1>6. ASSUME NEW o \in Output
      PROVE  \/ connected'[o] = connected[o] /\ crtcOf'[o] = crtcOf[o]
                /\ (rrPrimary' = o => rrPrimary = o)
             \/ \E i \in 1 .. Len(t) : i > Len(u) /\ AboutOutput(t[i], o)
  <2>1. ASSUME NEW i \in 1 .. Len(q), AboutOutput(q[i], o)
        PROVE  \E j \in 1 .. Len(t) : j > Len(u) /\ AboutOutput(t[j], o)
    <3>1. Len(u) + i \in 1 .. Len(t) /\ Len(u) + i > Len(u) /\ AboutOutput(t[Len(u) + i], o)
      BY <1>5, <2>1
    <3> QED BY <3>1
  <2> QED BY <2>1 DEF Noticed
<1>7. ASSUME NEW k \in Crtc
      PROVE  \/ geometry'[k] = geometry[k]
             \/ \E i \in 1 .. Len(t) : i > Len(u) /\ AboutCrtc(t[i], k)
  <2>1. ASSUME NEW i \in 1 .. Len(q), AboutCrtc(q[i], k)
        PROVE  \E j \in 1 .. Len(t) : j > Len(u) /\ AboutCrtc(t[j], k)
    <3>1. Len(u) + i \in 1 .. Len(t) /\ Len(u) + i > Len(u) /\ AboutCrtc(t[Len(u) + i], k)
      BY <1>5, <2>1
    <3> QED BY <3>1
  <2> QED BY <2>1 DEF Noticed
<1> QED BY <1>3, <1>4, <1>6, <1>7, <1>2 DEF u, Sent

LEMMA ToldOn ==
    ASSUME Types, Told(events), NEW t, t = events', Sent(t)
    PROVE  Told(events)'
<1> USE DEF AboutOutput, AboutCrtc
<1>1. ASSUME NEW o \in Output
      PROVE  Quiet(t, o) \/ \E i \in 1 .. Len(t) :
                /\ AboutOutput(t[i], o)
                /\ \A j \in 1 .. Len(t) : j >= i /\ AboutOutput(t[j], o) => Current(t[j], o)'
  <2>1. \A j \in 1 .. Len(t) : j > Len(events) /\ AboutOutput(t[j], o) => Current(t[j], o)'
    BY DEF Sent, Current
  <2>2. CASE \E i \in 1 .. Len(t) : i > Len(events) /\ AboutOutput(t[i], o)
    <3>1. PICK i \in 1 .. Len(t) : i > Len(events) /\ AboutOutput(t[i], o)
      BY <2>2
    <3>2. \A j \in 1 .. Len(t) : j >= i => j > Len(events)
      BY <3>1 DEF Sent
    <3> QED BY <2>1, <3>1, <3>2
  <2>3. CASE ~\E i \in 1 .. Len(t) : i > Len(events) /\ AboutOutput(t[i], o)
    <3>1. connected'[o] = connected[o] /\ crtcOf'[o] = crtcOf[o]
      BY <2>3 DEF Sent
    <3>2. \A j \in 1 .. Len(t) : AboutOutput(t[j], o) => j \in 1 .. Len(events) /\ t[j] = events[j]
      BY <2>3 DEF Sent
    <3>3. CASE Quiet(events, o)
      <4>1. Quiet(t, o)
        BY <3>2, <3>3 DEF Quiet
      <4> QED BY <4>1
    <3>4. CASE ~Quiet(events, o)
      <4>1. PICK i \in 1 .. Len(events) :
              /\ AboutOutput(events[i], o)
              /\ \A j \in 1 .. Len(events) : j >= i /\ AboutOutput(events[j], o) => Current(events[j], o)
        BY <3>4 DEF Told
      <4>2. i \in 1 .. Len(t) /\ AboutOutput(t[i], o)
        BY <4>1 DEF Sent
      <4>3. \A j \in 1 .. Len(t) : j >= i /\ AboutOutput(t[j], o) => Current(t[j], o)'
        BY <3>1, <3>2, <4>1 DEF Current
      <4> QED BY <4>2, <4>3
    <3> QED BY <3>3, <3>4
  <2> QED BY <2>2, <2>3
<1>2. ASSUME NEW k \in Crtc
      PROVE  Still(t, k) \/ \E i \in 1 .. Len(t) :
                /\ AboutCrtc(t[i], k)
                /\ \A j \in 1 .. Len(t) : j >= i /\ AboutCrtc(t[j], k) => t[j].geometry = geometry'[k]
  <2>1. \A j \in 1 .. Len(t) : j > Len(events) /\ AboutCrtc(t[j], k) => t[j].geometry = geometry'[k]
    BY DEF Sent
  <2>2. CASE \E i \in 1 .. Len(t) : i > Len(events) /\ AboutCrtc(t[i], k)
    <3>1. PICK i \in 1 .. Len(t) : i > Len(events) /\ AboutCrtc(t[i], k)
      BY <2>2
    <3>2. \A j \in 1 .. Len(t) : j >= i => j > Len(events)
      BY <3>1 DEF Sent
    <3> QED BY <2>1, <3>1, <3>2
  <2>3. CASE ~\E i \in 1 .. Len(t) : i > Len(events) /\ AboutCrtc(t[i], k)
    <3>1. geometry'[k] = geometry[k]
      BY <2>3 DEF Sent
    <3>2. \A j \in 1 .. Len(t) : AboutCrtc(t[j], k) => j \in 1 .. Len(events) /\ t[j] = events[j]
      BY <2>3 DEF Sent
    <3>3. CASE Still(events, k)
      <4>1. Still(t, k)
        BY <3>2, <3>3 DEF Still
      <4> QED BY <4>1
    <3>4. CASE ~Still(events, k)
      <4>1. PICK i \in 1 .. Len(events) :
              /\ AboutCrtc(events[i], k)
              /\ \A j \in 1 .. Len(events) :
                    j >= i /\ AboutCrtc(events[j], k) => events[j].geometry = geometry[k]
        BY <3>4 DEF Told
      <4>2. i \in 1 .. Len(t) /\ AboutCrtc(t[i], k)
        BY <4>1 DEF Sent
      <4>3. \A j \in 1 .. Len(t) : j >= i /\ AboutCrtc(t[j], k) => t[j].geometry = geometry'[k]
        BY <3>1, <3>2, <4>1
      <4> QED BY <4>2, <4>3
    <3> QED BY <3>3, <3>4
  <2> QED BY <2>2, <2>3
<1>3. Told(t)'
  BY <1>1, <1>2 DEF Told, Quiet, Still
<1> QED BY <1>3 DEF Told, Quiet, Still, Current

LEMMA StaysQuiet ==
    ASSUME Types, NEW t, Sent(t), NEW o \in Output, Quiet(t, o)
    PROVE  /\ Quiet(events, o) /\ connected'[o] = connected[o] /\ crtcOf'[o] = crtcOf[o]
           /\ rrPrimary' = o => rrPrimary = o
<1>1. Quiet(events, o)
  BY DEF Sent, Quiet
<1>2. ~\E i \in 1 .. Len(t) : i > Len(events) /\ AboutOutput(t[i], o)
  BY DEF Quiet
<1> QED BY <1>1, <1>2 DEF Sent

LEMMA MatchOn ==
    ASSUME Types, Match(events, client), NEW t, t = events', Sent(t),
           starting' = starting, client' = client
    PROVE  Match(events, client)'
<1> SUFFICES ASSUME NEW o \in Output, Quiet(t, o), Read(o)
             PROVE  Matches(t, client, o)'
  BY DEF Match, Matches, Quiet, Read, Still
<1>1. /\ Quiet(events, o) /\ connected'[o] = connected[o] /\ crtcOf'[o] = crtcOf[o]
      /\ rrPrimary' = o => rrPrimary = o
  BY StaysQuiet
<1>2. Matches(events, client, o)
  BY <1>1 DEF Match
<1>3. crtcOf[o] # None => crtcOf[o] \in Crtc
  BY DEF Types, Server
<1>4. ASSUME NEW k \in Crtc, Still(t, k) PROVE Still(events, k) /\ geometry'[k] = geometry[k]
  <2>1. Still(events, k)
    BY <1>4 DEF Sent, Still
  <2>2. ~\E i \in 1 .. Len(t) : i > Len(events) /\ AboutCrtc(t[i], k)
    BY <1>4 DEF Still
  <2> QED BY <2>1, <2>2 DEF Sent
<1>5. Still(t, crtcOf[o])' <=> Still(t, crtcOf[o])
  BY <1>1 DEF Still
<1> QED BY <1>1, <1>2, <1>3, <1>4, <1>5 DEF Matches

LEMMA HandedOn ==
    ASSUME Types, Lists, Told(events), Match(events, client), Handed(events, client),
           NEW q \in Seq(Notification), Noticed(q), NEW t, t = events', Sent(t),
           starting' = starting, client' = client
    PROVE  Handed(events, client)'
<1> USE DEF AboutOutput, Spares
<1> SUFFICES ASSUME NEW o \in Output, NEW p \in Output, o # p, crtcOf'[o] # None
             PROVE  \E n \in 0 .. Len(t) :
                       (n # 0 => AboutOutput(t[n], o)) /\ Quits(t, client, p, crtcOf'[o], n)
  BY DEF Handed, Quits
<1> DEFINE k == crtcOf'[o]
<1>1. /\ Len(t) \in Nat /\ Len(events) \in Nat /\ Len(t) >= Len(events)
      /\ \A i \in 1 .. Len(events) : i \in 1 .. Len(t) /\ t[i] = events[i]
  BY DEF Sent
<1>2. crtcOf'[p] # k
  BY DEF Noticed, Powered
<1>3. \A j \in 1 .. Len(t) : j > Len(events) => Spares(t[j], p, k)
  <2> HIDE DEF k
  <2> QED BY <1>2 DEF Sent
<1>4. \A j \in 1 .. Len(t) : ~(j > Len(events)) => j \in 1 .. Len(events) /\ t[j] = events[j]
  BY <1>1
<1>5. CASE crtcOf'[o] = crtcOf[o]
  <2>1. PICK n \in 0 .. Len(events) :
           (n # 0 => AboutOutput(events[n], o)) /\ Quits(events, client, p, k, n)
    BY <1>5 DEF Handed
  <2> HIDE DEF k
  <2>2. n \in 0 .. Len(t) /\ (n # 0 => AboutOutput(t[n], o))
    BY <1>1, <2>1
  <2>3. CASE /\ \A s \in Range(client.screens) : client.at[s].output = p => client.at[s].crtc # k
             /\ \A j \in 1 .. Len(events) : Spares(events[j], p, k)
    <3>1. \A j \in 1 .. Len(t) : Spares(t[j], p, k)
      BY <1>3, <1>4, <2>3
    <3>2. Quits(t, client, p, k, n)
      BY <2>3, <3>1 DEF Quits
    <3> QED BY <2>2, <3>2 DEF k
  <2>4. ASSUME NEW i \in 1 .. Len(events), i < n, AboutOutput(events[i], p),
               \A j \in 1 .. Len(events) : j >= i => Spares(events[j], p, k)
        PROVE  Quits(t, client, p, k, n)
    <3>1. \A j \in 1 .. Len(t) : j >= i => Spares(t[j], p, k)
      BY <1>3, <1>4, <2>4
    <3>2. i \in 1 .. Len(t) /\ AboutOutput(t[i], p)
      BY <1>1, <2>4
    <3> QED BY <2>4, <3>1, <3>2 DEF Quits
  <2> QED BY <2>1, <2>2, <2>3, <2>4 DEF Quits, k
<1>6. CASE crtcOf'[o] # crtcOf[o]
  <2>1. crtcOf[p] # k
    BY <1>6 DEF Noticed
  <2>2. PICK n \in 1 .. Len(t) : n > Len(events) /\ AboutOutput(t[n], o)
    BY <1>6 DEF Sent
  <2>3. n \in 0 .. Len(t)
    BY <1>1, <2>2
  <2> HIDE DEF k
  <2>4. CASE Quiet(events, p)
    <3>1. ASSUME NEW s \in Range(client.screens), client.at[s].output = p
          PROVE  client.at[s].crtc # k
      <4>1. Read(p)
        BY <3>1, OnlyRead
      <4>2. Matches(events, client, p)
        BY <2>4, <4>1 DEF Match
      <4> QED BY <2>1, <3>1, <4>2 DEF Matches
    <3>2. \A j \in 1 .. Len(t) : Spares(t[j], p, k)
      BY <1>3, <1>4, <2>4 DEF Quiet
    <3>3. Quits(t, client, p, k, n)
      BY <3>1, <3>2 DEF Quits
    <3> QED BY <2>2, <2>3, <3>3 DEF k
  <2>5. CASE ~Quiet(events, p)
    <3>1. PICK i \in 1 .. Len(events) :
             /\ AboutOutput(events[i], p)
             /\ \A j \in 1 .. Len(events) : j >= i /\ AboutOutput(events[j], p) => Current(events[j], p)
      BY <2>5 DEF Told
    <3>2. i \in 1 .. Len(t) /\ i < n /\ AboutOutput(t[i], p)
      BY <1>1, <2>2, <3>1
    <3>3. \A j \in 1 .. Len(t) : j >= i => Spares(t[j], p, k)
      BY <1>3, <1>4, <2>1, <3>1 DEF Current
    <3>4. Quits(t, client, p, k, n)
      BY <3>2, <3>3 DEF Quits
    <3> QED BY <2>2, <2>3, <3>4 DEF k
  <2> QED BY <2>4, <2>5
<1> QED BY <1>5, <1>6

LEMMA FollowsOn ==
    ASSUME ~Clones, Types, Lists, Follows, Outside
    PROVE  Follows'
<1>1. starting' = starting /\ client' = client
  BY ServerTypes
<1>2. PICK q \in Seq(Notification) : Noticed(q)
  BY Notices DEF Follows
<1> SUFFICES ASSUME NEW t, t = events' PROVE Follows'
  OBVIOUS
<1>3. Sent(t)
  BY <1>2, Sends
<1>4. Told(events)'
  BY <1>3, ToldOn DEF Follows
<1>5. Match(events, client)'
  BY <1>1, <1>3, MatchOn DEF Follows
<1>6. Handed(events, client)'
  BY <1>1, <1>2, <1>3, HandedOn DEF Follows
<1>7. Powered'
  BY <1>2 DEF Noticed
<1>8. Flagged(events)'
  <2>1. starting.desktop # PrimaryNumber => starting.primary = None
    BY DEF Follows, Flagged
  <2>2. ASSUME starting.desktop = PrimaryNumber, starting.next > 0, rrPrimary' # None,
               starting.primary # rrPrimary', Quiet(t, rrPrimary')
        PROVE  FALSE
    <3>1. rrPrimary' \in Output
      BY <2>2, ServerTypes, Constants DEF Types, Server
    <3>2. Quiet(events, rrPrimary') /\ rrPrimary = rrPrimary'
      BY <1>3, <2>2, <3>1, StaysQuiet
    <3> QED BY <2>2, <3>2 DEF Follows, Flagged
  <2> QED BY <1>1, <2>1, <2>2 DEF Flagged, Quiet
<1> QED BY <1>4, <1>5, <1>6, <1>7, <1>8 DEF Follows

-----------------------------------------------------------------------------
(* Each notification handled brings the client closer: t is what is left   *)
(* after q.                                                                *)

Left(q, t) ==
    /\ Len(q) \in Nat /\ Len(t) \in Nat /\ Len(q) > 0 /\ 1 \in 1 .. Len(q)
    /\ \A i \in 1 .. Len(t) : i + 1 \in 1 .. Len(q) /\ t[i] = q[i + 1]
    /\ \A i \in 1 .. Len(q) : i # 1 => i - 1 \in 1 .. Len(t) /\ t[i - 1] = q[i]

LEMMA Shift ==
    ASSUME NEW q \in Seq(Notification), q # <<>>, NEW t, t = Tail(q)
    PROVE  Left(q, t) /\ Head(q) = q[1]
<1>1. /\ Len(q) \in Nat /\ Len(t) = Len(q) - 1 /\ Len(q) > 0 /\ Head(q) = q[1]
      /\ \A i \in 1 .. Len(q) - 1 : t[i] = q[i + 1]
  OBVIOUS
<1>2. \A i \in 1 .. Len(t) : i + 1 \in 1 .. Len(q) /\ t[i] = q[i + 1]
  BY <1>1
<1>3. ASSUME NEW i \in 1 .. Len(q), i # 1 PROVE i - 1 \in 1 .. Len(t) /\ t[i - 1] = q[i]
  <2>1. i - 1 \in 1 .. Len(t) /\ (i - 1) + 1 = i
    BY <1>1, <1>3
  <2>2. t[i - 1] = q[(i - 1) + 1]
    BY <1>2, <2>1
  <2> QED BY <2>1, <2>2
<1> QED BY <1>1, <1>2, <1>3 DEF Left

\* what is left is still told, and what was told and is quiet now is current
LEMMA StillTold ==
    ASSUME NEW q, NEW t, Left(q, t), Told(q)
    PROVE  /\ Told(t)
           /\ \A o \in Output : Quiet(t, o) =>
                 Quiet(q, o) \/ (AboutOutput(q[1], o) /\ Current(q[1], o))
           /\ \A k \in Crtc : Still(t, k) =>
                 Still(q, k) \/ (AboutCrtc(q[1], k) /\ q[1].geometry = geometry[k])
<1>1. ASSUME NEW o \in Output
      PROVE  Quiet(t, o) \/ \E i \in 1 .. Len(t) :
                /\ AboutOutput(t[i], o)
                /\ \A j \in 1 .. Len(t) : j >= i /\ AboutOutput(t[j], o) => Current(t[j], o)
  <2>1. CASE Quiet(q, o)
    BY <2>1 DEF Left, Quiet
  <2>2. CASE ~Quiet(q, o)
    <3>1. PICK i \in 1 .. Len(q) :
            /\ AboutOutput(q[i], o)
            /\ \A j \in 1 .. Len(q) : j >= i /\ AboutOutput(q[j], o) => Current(q[j], o)
      BY <2>2 DEF Told
    <3>2. \A j \in 1 .. Len(t) : j + 1 >= i /\ AboutOutput(t[j], o) => Current(t[j], o)
      BY <3>1 DEF Left
    <3>3. CASE i # 1
      <4>1. i - 1 \in 1 .. Len(t) /\ AboutOutput(t[i - 1], o)
        BY <3>1, <3>3 DEF Left
      <4>2. \A j \in 1 .. Len(t) : j >= i - 1 => j + 1 >= i
        BY DEF Left
      <4> QED BY <3>2, <4>1, <4>2
    <3>4. CASE i = 1
      <4>1. \A j \in 1 .. Len(t) : AboutOutput(t[j], o) => Current(t[j], o)
        BY <3>2, <3>4
      <4> QED BY <4>1 DEF Quiet
    <3> QED BY <3>3, <3>4
  <2> QED BY <2>1, <2>2
<1>2. ASSUME NEW k \in Crtc
      PROVE  Still(t, k) \/ \E i \in 1 .. Len(t) :
                /\ AboutCrtc(t[i], k)
                /\ \A j \in 1 .. Len(t) : j >= i /\ AboutCrtc(t[j], k) => t[j].geometry = geometry[k]
  <2>1. CASE Still(q, k)
    BY <2>1 DEF Left, Still
  <2>2. CASE ~Still(q, k)
    <3>1. PICK i \in 1 .. Len(q) :
            /\ AboutCrtc(q[i], k)
            /\ \A j \in 1 .. Len(q) : j >= i /\ AboutCrtc(q[j], k) => q[j].geometry = geometry[k]
      BY <2>2 DEF Told
    <3>2. \A j \in 1 .. Len(t) : j + 1 >= i /\ AboutCrtc(t[j], k) => t[j].geometry = geometry[k]
      BY <3>1 DEF Left
    <3>3. CASE i # 1
      <4>1. i - 1 \in 1 .. Len(t) /\ AboutCrtc(t[i - 1], k)
        BY <3>1, <3>3 DEF Left
      <4>2. \A j \in 1 .. Len(t) : j >= i - 1 => j + 1 >= i
        BY DEF Left
      <4> QED BY <3>2, <4>1, <4>2
    <3>4. CASE i = 1
      <4>1. \A j \in 1 .. Len(t) : AboutCrtc(t[j], k) => t[j].geometry = geometry[k]
        BY <3>2, <3>4
      <4> QED BY <4>1 DEF Still
    <3> QED BY <3>3, <3>4
  <2> QED BY <2>1, <2>2
<1>3. Told(t)
  BY <1>1, <1>2 DEF Told
<1>4. ASSUME NEW o \in Output, Quiet(t, o), ~Quiet(q, o)
      PROVE  AboutOutput(q[1], o) /\ Current(q[1], o)
  <2>1. PICK i \in 1 .. Len(q) :
          /\ AboutOutput(q[i], o)
          /\ \A j \in 1 .. Len(q) : j >= i /\ AboutOutput(q[j], o) => Current(q[j], o)
    BY <1>4 DEF Told
  <2>2. i = 1
    BY <1>4, <2>1 DEF Left, Quiet
  <2>3. 1 >= i /\ 1 \in 1 .. Len(q)
    BY <2>2 DEF Left
  <2> QED BY <2>1, <2>2, <2>3
<1>5. ASSUME NEW k \in Crtc, Still(t, k), ~Still(q, k)
      PROVE  AboutCrtc(q[1], k) /\ q[1].geometry = geometry[k]
  <2>1. PICK i \in 1 .. Len(q) :
          /\ AboutCrtc(q[i], k)
          /\ \A j \in 1 .. Len(q) : j >= i /\ AboutCrtc(q[j], k) => q[j].geometry = geometry[k]
    BY <1>5 DEF Told
  <2>2. i = 1
    BY <1>5, <2>1 DEF Left, Still
  <2>3. 1 >= i /\ 1 \in 1 .. Len(q)
    BY <2>2 DEF Left
  <2> QED BY <2>1, <2>2, <2>3
<1> QED BY <1>3, <1>4, <1>5

\* what a notification does to the client c
Handles(c, n, e) ==
    /\ c \in Client /\ n \in Client /\ Whole(c) /\ Own(c) /\ Whole(n) /\ Own(n)
    /\ \/ e.type = "crtc" /\ Reshaped(c, n, e)
       \/ e.type = "output" /\ e.output \in Output /\ Answered(c, n, e)

\* the screen of an output that e is not about stays
LEMMA StillMatches ==
    ASSUME Server, Powered, NEW c, NEW n, NEW q, NEW t, Left(q, t), Told(q), Handles(c, n, q[1]),
           Handed(q, c),
           NEW o \in Output, Quiet(q, o), Matches(q, c, o)
    PROVE  Matches(t, n, o)
<1> DEFINE e == q[1]
<1>1. ~AboutOutput(e, o) /\ o # None
  BY Constants DEF Quiet, Left
<1>2. crtcOf[o] # None => crtcOf[o] \in Crtc
  BY DEF Server
<1>3. ASSUME NEW k \in Crtc, Still(t, k), ~AboutCrtc(e, k) PROVE Still(q, k)
  BY <1>3, StillTold
<1>4. CASE e.type = "output"
  <2>1. Answered(c, n, e) /\ e.output # o /\ \A k \in Crtc : ~AboutCrtc(e, k)
    BY <1>1, <1>4 DEF Handles, AboutOutput, AboutCrtc
  <2>2. Spared(c, n, e.output)
    BY <2>1 DEF Answered, Gone, Shows, Waits
  <2>3. \A s \in Range(n.screens) : n.at[s].output = o =>
          /\ s \in Range(c.screens) /\ c.at[s].output = o
          /\ n.at[s].crtc = c.at[s].crtc /\ n.at[s].geometry = c.at[s].geometry
          /\ o = rrPrimary /\ c.at[s].primary => n.at[s].primary
    BY <1>1, <2>1, <2>2 DEF Spared
  <2>4. \A s \in Range(c.screens) : c.at[s].output = o =>
          s \in Range(n.screens) /\ n.at[s].output = o
    BY <1>1, <2>1, <2>2 DEF Spared
  <2>5. connected[o] /\ crtcOf[o] # None <=> \E s \in Range(n.screens) : n.at[s].output = o
    BY <2>3, <2>4 DEF Matches
  <2>6. ASSUME NEW s \in Range(n.screens), n.at[s].output = o
        PROVE  /\ n.at[s].crtc = crtcOf[o]
               /\ Still(t, crtcOf[o]) => n.at[s].geometry = geometry[crtcOf[o]]
               /\ o = rrPrimary => n.at[s].primary
    <3>1. crtcOf[o] \in Crtc
      BY <1>2, <2>5, <2>6
    <3> QED BY <1>3, <2>1, <2>3, <2>6, <3>1 DEF Matches
  <2> QED BY <2>5, <2>6 DEF Matches
<1>5. CASE e.type = "crtc"
  <2>1. Reshaped(c, n, e) /\ Range(n.screens) = Range(c.screens) /\ Own(c)
    BY <1>5 DEF Handles, Reshaped
  <2>2. \A s \in Range(c.screens) :
          /\ n.at[s].output = c.at[s].output /\ n.at[s].crtc = c.at[s].crtc
          /\ n.at[s].primary = c.at[s].primary
          /\ c.at[s].crtc # e.crtc => n.at[s].geometry = c.at[s].geometry
    BY <2>1 DEF Reshaped
  <2>3. connected[o] /\ crtcOf[o] # None <=> \E s \in Range(n.screens) : n.at[s].output = o
    BY <2>1, <2>2 DEF Matches
  <2>4. ASSUME NEW s \in Range(n.screens), n.at[s].output = o
        PROVE  /\ n.at[s].crtc = crtcOf[o]
               /\ Still(t, crtcOf[o]) => n.at[s].geometry = geometry[crtcOf[o]]
               /\ o = rrPrimary => n.at[s].primary
    <3>1. crtcOf[o] \in Crtc /\ s \in Range(c.screens) /\ c.at[s].output = o
      BY <1>2, <2>1, <2>2, <2>3, <2>4
    <3>2. n.at[s].crtc = crtcOf[o] /\ c.at[s].crtc = crtcOf[o] /\ (o = rrPrimary => n.at[s].primary)
      BY <2>2, <3>1 DEF Matches
    <3>3. ASSUME Still(t, crtcOf[o]), e.crtc # crtcOf[o] PROVE n.at[s].geometry = geometry[crtcOf[o]]
      <4>1. Still(q, crtcOf[o])
        BY <1>3, <3>1, <3>3 DEF AboutCrtc
      <4> QED BY <2>2, <3>1, <3>2, <3>3, <4>1 DEF Matches
    <3>4. ASSUME Still(t, crtcOf[o]), e.crtc = crtcOf[o] PROVE n.at[s].geometry = geometry[crtcOf[o]]
      <4>1. e.geometry = geometry[crtcOf[o]]
        <5>1. ~Still(q, crtcOf[o])
          BY <1>5, <3>4 DEF Still, AboutCrtc, Left
        <5> QED BY <3>1, <3>4, <5>1, StillTold
      <4>2. e.geometry # 0
        BY <3>1, <4>1, Constants DEF Powered
      <4>3. ASSUME NEW r \in Range(c.screens), c.at[r].crtc = e.crtc PROVE r = s
        <5>1. SUFFICES ASSUME r # s PROVE FALSE
          OBVIOUS
        <5>2. c.at[r].output # None
          BY <2>1, <3>1, <3>4, <4>3, Constants DEF Own
        <5>3. c.at[r].output # o
          BY <1>1, <2>1, <3>1, <5>1 DEF Own
        <5>4. c.at[r].output \in Output
          <6>1. c.at[r] \in Screen
            BY ClientTypes DEF Handles
          <6> QED BY <5>2, <6>1 DEF Screen
        <5>5. crtcOf[o] # None
          BY <3>1, Constants
        <5>6. PICK i \in 0 .. Len(q) :
                 (i # 0 => AboutOutput(q[i], o)) /\ Quits(q, c, c.at[r].output, crtcOf[o], i)
          BY <5>3, <5>4, <5>5 DEF Handed
        <5>7. i = 0
          <6>1. i # 0 => i \in 1 .. Len(q)
            BY DEF Left
          <6> QED BY <5>6, <6>1 DEF Quiet
        <5>8. \A j \in 1 .. Len(q) : ~(j < 0)
          BY DEF Left
        <5>9. Quits(q, c, c.at[r].output, crtcOf[o], 0)
          BY <5>6, <5>7
        <5> QED BY <3>4, <4>3, <5>8, <5>9 DEF Quits
      <4>4. findScreenForCrtc(c, e.crtc) = {s}
        BY <3>1, <3>2, <3>4, <4>3 DEF findScreenForCrtc
      <4> QED BY <2>1, <3>1, <4>1, <4>2, <4>4 DEF Reshaped
    <3> QED BY <3>2, <3>3, <3>4
  <2> QED BY <2>3, <2>4 DEF Matches
<1> QED BY <1>4, <1>5 DEF Handles

\* the screen of the output that the last notification about it is about
LEMMA NowMatches ==
    ASSUME NEW c, NEW n, NEW t, NEW e, Handles(c, n, e),
           NEW o \in Output, AboutOutput(e, o), Current(e, o)
    PROVE  Matches(t, n, o)
<1>1. Answered(c, n, e) /\ e.output = o /\ e.connected = connected[o] /\ e.crtc = crtcOf[o]
  BY DEF Handles, AboutOutput, Current
<1>2. CASE Gone(c, n, o) /\ ~(connected[o] /\ crtcOf[o] # None)
  BY <1>2 DEF Gone, Matches
<1>3. CASE Shows(c, n, o, crtcOf[o]) /\ connected[o] /\ crtcOf[o] # None
  BY <1>3 DEF Shows, Matches
<1> QED BY <1>1, <1>2, <1>3 DEF Answered

LEMMA MatchLeft ==
    ASSUME Server, Powered, NEW c, NEW n, NEW q, NEW t, Left(q, t), Told(q), Handles(c, n, q[1]),
           Handed(q, c), Match(q, c)
    PROVE  Match(t, n)
<1> SUFFICES ASSUME NEW o \in Output, Quiet(t, o), Read(o) PROVE Matches(t, n, o)
  BY DEF Match
<1>1. Quiet(q, o) \/ (AboutOutput(q[1], o) /\ Current(q[1], o))
  BY StillTold
<1>2. CASE Quiet(q, o)
  <2>1. Matches(q, c, o)
    BY <1>2 DEF Match
  <2> QED BY <1>2, <2>1, StillMatches
<1>3. CASE AboutOutput(q[1], o) /\ Current(q[1], o)
  <2> DEFINE e == q[1]
  <2>1. Handles(c, n, e) /\ AboutOutput(e, o) /\ Current(e, o)
    BY <1>3
  <2> HIDE DEF e
  <2> QED BY <2>1, NowMatches
<1> QED BY <1>1, <1>2, <1>3

\* a notification gives no crtc to p but the one it names and p's own
LEMMA StillSpared ==
    ASSUME Server, NEW c, NEW n, NEW e, Handles(c, n, e), NEW p \in Output, NEW k \in Crtc,
           crtcOf[p] # k, Spares(e, p, k),
           \/ AboutOutput(e, p)
           \/ \A s \in Range(c.screens) : c.at[s].output = p => c.at[s].crtc # k,
           NEW s \in Range(n.screens), n.at[s].output = p
    PROVE  n.at[s].crtc # k
<1>1. p # None /\ k # None
  BY Constants
<1>2. CASE AboutOutput(e, p)
  <2>1. Answered(c, n, e) /\ e.output = p /\ e.crtc # k
    BY <1>2 DEF Handles, AboutOutput, Spares
  <2> QED BY <1>1, <2>1 DEF Answered, Gone, Shows, Waits
<1>3. CASE ~AboutOutput(e, p)
  <2>1. CASE e.type = "output"
    <3>1. Answered(c, n, e) /\ e.output # p
      BY <1>3, <2>1 DEF Handles, AboutOutput
    <3>2. Spared(c, n, e.output)
      BY <3>1 DEF Answered, Gone, Shows, Waits
    <3> QED BY <1>1, <1>3, <3>1, <3>2 DEF Spared
  <2>2. CASE e.type = "crtc"
    <3>1. Reshaped(c, n, e)
      BY <2>2 DEF Handles
    <3> QED BY <1>3, <3>1 DEF Reshaped
  <2> QED BY <2>1, <2>2 DEF Handles
<1> QED BY <1>2, <1>3

LEMMA HandedLeft ==
    ASSUME Server, Powered, NEW c, NEW n, NEW q, NEW t, Left(q, t), Handles(c, n, q[1]), Handed(q, c)
    PROVE  Handed(t, n)
<1> SUFFICES ASSUME NEW o \in Output, NEW p \in Output, o # p, crtcOf[o] # None
             PROVE  \E m \in 0 .. Len(t) :
                       (m # 0 => AboutOutput(t[m], o)) /\ Quits(t, n, p, crtcOf[o], m)
  BY DEF Handed
<1> DEFINE k == crtcOf[o]
<1>1. k \in Crtc /\ crtcOf[p] # k
  BY DEF Server, Powered
<1>2. PICK i \in 0 .. Len(q) : (i # 0 => AboutOutput(q[i], o)) /\ Quits(q, c, p, k, i)
  BY DEF Handed
<1> DEFINE m == IF i = 0 THEN 0 ELSE i - 1
<1> HIDE DEF k
<1>3. m \in 0 .. Len(t) /\ (m # 0 => AboutOutput(t[m], o))
  <2>1. CASE i \in {0, 1}
    BY <2>1 DEF Left
  <2>2. CASE i \notin {0, 1}
    <3>1. i \in 1 .. Len(q) /\ i # 1 /\ i # 0
      BY <2>2 DEF Left
    <3>2. i - 1 \in 1 .. Len(t) /\ t[i - 1] = q[i]
      BY <3>1 DEF Left
    <3>3. i - 1 \in 0 .. Len(t)
      BY <3>2 DEF Left
    <3> QED BY <1>2, <3>1, <3>2, <3>3
  <2> QED BY <2>1, <2>2
<1>4. Quits(t, n, p, k, m)
  <2>1. ASSUME \A j \in 1 .. Len(q) : Spares(q[j], p, k),
               \/ AboutOutput(q[1], p)
               \/ \A s \in Range(c.screens) : c.at[s].output = p => c.at[s].crtc # k
        PROVE  Quits(t, n, p, k, m)
    <3>1. \A j \in 1 .. Len(t) : Spares(t[j], p, k)
      BY <2>1 DEF Left
    <3>2. Spares(q[1], p, k)
      BY <2>1 DEF Left
    <3> DEFINE e == q[1]
    <3>3. /\ Handles(c, n, e) /\ Spares(e, p, k)
          /\ \/ AboutOutput(e, p)
             \/ \A s \in Range(c.screens) : c.at[s].output = p => c.at[s].crtc # k
      BY <2>1, <3>2
    <3> HIDE DEF e
    <3>4. ASSUME NEW s \in Range(n.screens), n.at[s].output = p PROVE n.at[s].crtc # k
      BY <1>1, <3>3, <3>4, StillSpared
    <3> QED BY <3>1, <3>4 DEF Quits
  <2>2. ASSUME NEW j \in 1 .. Len(q), j < i, AboutOutput(q[j], p), j # 1,
               \A l \in 1 .. Len(q) : l >= j => Spares(q[l], p, k)
        PROVE  Quits(t, n, p, k, m)
    <3>1. j - 1 \in 1 .. Len(t) /\ AboutOutput(t[j - 1], p) /\ j - 1 < m
      BY <2>2 DEF Left
    <3>2. ASSUME NEW l \in 1 .. Len(t), l >= j - 1 PROVE Spares(t[l], p, k)
      <4>1. l + 1 \in 1 .. Len(q) /\ l + 1 >= j /\ t[l] = q[l + 1]
        BY <3>2 DEF Left
      <4> QED BY <2>2, <4>1
    <3> QED BY <3>1, <3>2 DEF Quits
  <2>3. ASSUME AboutOutput(q[1], p), \A l \in 1 .. Len(q) : l >= 1 => Spares(q[l], p, k)
        PROVE  Quits(t, n, p, k, m)
    BY <2>1, <2>3 DEF Left
  <2> QED BY <1>2, <2>1, <2>2, <2>3 DEF Quits
<1> QED BY <1>3, <1>4 DEF k

\* what is told, and how crtcs are handed on, with the server as it was
LEMMA ToldThen ==
    ASSUME connected' = connected, crtcOf' = crtcOf, geometry' = geometry,
           NEW q, events' = q, Told(q)
    PROVE  Told(events)'
<1>1. ASSUME NEW o \in Output
      PROVE  Quiet(q, o) \/ \E i \in 1 .. Len(q) :
                /\ AboutOutput(q[i], o)
                /\ \A j \in 1 .. Len(q) : j >= i /\ AboutOutput(q[j], o) => Current(q[j], o)'
  <2>1. Quiet(q, o) \/ \E i \in 1 .. Len(q) :
           /\ AboutOutput(q[i], o)
           /\ \A j \in 1 .. Len(q) : j >= i /\ AboutOutput(q[j], o) => Current(q[j], o)
    BY DEF Told
  <2>2. ASSUME NEW j \in 1 .. Len(q), Current(q[j], o) PROVE Current(q[j], o)'
    BY <2>2 DEF Current
  <2> QED BY <2>1, <2>2
<1>2. ASSUME NEW k \in Crtc
      PROVE  Still(q, k) \/ \E i \in 1 .. Len(q) :
                /\ AboutCrtc(q[i], k)
                /\ \A j \in 1 .. Len(q) : j >= i /\ AboutCrtc(q[j], k) => q[j].geometry = geometry'[k]
  BY DEF Told
<1> QED BY <1>1, <1>2 DEF Told, Quiet, Still

LEMMA HandedThen ==
    ASSUME crtcOf' = crtcOf, NEW q, events' = q, NEW n, client' = n, Handed(q, n)
    PROVE  Handed(events, client)'
<1>1. ASSUME NEW o \in Output, NEW p \in Output, o # p, crtcOf'[o] # None
      PROVE  \E m \in 0 .. Len(q) :
                (m # 0 => AboutOutput(q[m], o)) /\ Quits(q, n, p, crtcOf'[o], m)
  BY <1>1 DEF Handed
<1>2. ASSUME NEW p \in Output, NEW k, NEW m \in 0 .. Len(q), Quits(q, n, p, k, m)
      PROVE  Quits(events', client', p, k, m)
  BY <1>2
<1> QED BY <1>1, <1>2 DEF Handed, Quits

LEMMA FollowsAfter ==
    ASSUME Types, Lists, Follows, updateScreens
    PROVE  Follows'
<1> SUFFICES ASSUME NEW c, c = client, NEW n, n = client', NEW q, q = events, NEW t, t = events'
             PROVE  Follows'
  OBVIOUS
<1> DEFINE e == Head(q)
<1>1. /\ Ready /\ starting' = starting /\ q # <<>> /\ t = Tail(q) /\ q \in Seq(Notification)
      /\ Server /\ Powered /\ Told(q) /\ Match(q, c) /\ Handed(q, c) /\ Flagged(q)
      /\ connected' = connected /\ crtcOf' = crtcOf /\ geometry' = geometry /\ rrPrimary' = rrPrimary
  BY DEF Types, Follows, updateScreens, server
<1>2. Handles(c, n, e)
  <2>1. e = Head(events)
    OBVIOUS
  <2> HIDE DEF e
  <2> QED BY <2>1, Handled DEF Handles
<1> HIDE DEF e
<1>3. Left(q, t) /\ Handles(c, n, q[1])
  BY <1>1, <1>2, Shift DEF e
<1>4. Told(t)
  BY <1>1, <1>3, StillTold
<1>5. Match(t, n)
  BY <1>1, <1>3, MatchLeft
<1>6. Handed(t, n)
  BY <1>1, <1>3, HandedLeft
<1>7. starting.desktop # PrimaryNumber /\ starting.primary = None
  BY <1>1, Constants DEF Ready, Flagged
<1>8. Flagged(events)'
  BY <1>1, <1>7 DEF Flagged
<1>9. Powered'
  BY <1>1 DEF Powered
<1>10. Told(events)'
  BY <1>1, <1>4, ToldThen
<1>11. Match(events, client)'
  BY <1>1, <1>5 DEF Match, Matches, Quiet, Still, Read
<1>12. Handed(events, client)'
  BY <1>1, <1>6, HandedThen
<1> QED BY <1>8, <1>9, <1>10, <1>11, <1>12 DEF Follows

-----------------------------------------------------------------------------
(* initializeScreens() starts from what the server shows.                  *)

LEMMA FollowsPrimary ==
    ASSUME Types, Lists, Follows, readPrimary
    PROVE  Follows'
<1>1. /\ events' = events /\ client' = client /\ connected' = connected /\ crtcOf' = crtcOf
      /\ geometry' = geometry /\ rrPrimary' = rrPrimary /\ starting.next = 0
      /\ starting'.desktop = starting.desktop /\ starting'.next = 1
      /\ starting'.primary = IF starting.desktop = PrimaryNumber THEN rrPrimary ELSE None
  BY DEF readPrimary, server, Types
<1>2. ASSUME NEW o \in Output, Read(o)' PROVE Read(o)
  <2>1. DesktopOf(o) \in Desktop
    BY TheDesktop
  <2>2. \A i \in 1 .. Len(OutputsOf[DesktopOf(o)]) : ~(i < 1)
    BY <2>1, Constants
  <2> QED BY <1>1, <1>2, <2>2 DEF Read
<1>3. Match(events, client)'
  BY <1>1, <1>2 DEF Follows, Match, Matches, Quiet, Still
<1>4. Flagged(events)'
  BY <1>1 DEF Flagged
<1>5. Powered'
  BY <1>1 DEF Follows, Powered
<1>6. Told(events)'
  BY <1>1, ToldThen DEF Follows
<1>7. Handed(events, client)'
  BY <1>1, HandedThen DEF Follows
<1> QED BY <1>3, <1>4, <1>5, <1>6, <1>7 DEF Follows

LEMMA FollowsEnd ==
    ASSUME Types, Lists, Follows, endDesktop
    PROVE  Follows'
<1> SUFFICES ASSUME NEW c, c = client, NEW n, n = client', NEW d, d = starting.desktop,
                    NEW k, k = starting.next
             PROVE  Follows'
  OBVIOUS
<1>1. /\ events' = events /\ connected' = connected /\ crtcOf' = crtcOf
      /\ geometry' = geometry /\ rrPrimary' = rrPrimary
      /\ starting'.desktop = d + 1 /\ starting'.next = 0 /\ starting'.primary = None
      /\ d \in Desktop /\ k \in Nat /\ k > Len(OutputsOf[d])
  BY DEF endDesktop, server, Types, At, Ready
<1>2. /\ Ended(c, n, d) /\ c \in Client
  <2>1. c \in Client /\ Filling(c) /\ Begun(c, d, k)
    BY <1>1 DEF Types, Lists, Ready
  <2>2. Ended(c, client', d)
    BY <1>1, <2>1, EndDesktop
  <2> QED BY <2>1, <2>2
<1>3. ASSUME NEW o \in Output, Read(o)' PROVE Read(o)
  <2>1. DesktopOf(o) \in Desktop /\ o \in Range(OutputsOf[DesktopOf(o)])
    BY TheDesktop
  <2>2. DesktopOf(o) \in Int /\ d \in Int /\ OutputsOf[DesktopOf(o)] \in Seq(Output)
    BY <1>1, <2>1, Constants
  <2>3. \A i \in 1 .. Len(OutputsOf[DesktopOf(o)]) : ~(i < 0)
    BY <2>2
  <2>4. DesktopOf(o) < d \/ DesktopOf(o) = d
    BY <1>1, <1>3, <2>2, <2>3 DEF Read
  <2>5. CASE DesktopOf(o) = d
    <3>1. PICK i \in 1 .. Len(OutputsOf[d]) : OutputsOf[d][i] = o
      BY <2>1, <2>2, <2>5, Elements
    <3>2. i < k
      BY <1>1, <2>2, <2>5, <3>1
    <3> QED BY <2>5, <3>1, <3>2 DEF Read
  <2> QED BY <2>4, <2>5 DEF Read
<1>4. ASSUME NEW o \in Output
      PROVE  \A s : /\ s \in Range(n.screens) /\ n.at[s].output = o
                       => s \in Range(c.screens) /\ n.at[s] = c.at[s]
                    /\ s \in Range(c.screens) /\ c.at[s].output = o
                       => s \in Range(n.screens) /\ n.at[s] = c.at[s]
  <2>1. o # None
    BY Constants
  <2> QED BY <1>2, <2>1 DEF Ended
<1>5. Match(events, n)'
  <2> SUFFICES ASSUME NEW o \in Output, Quiet(events, o), Read(o) PROVE Matches(events, n, o)
    BY <1>1, <1>3 DEF Match, Matches, Quiet, Still
  <2>1. Matches(events, c, o)
    BY DEF Follows, Match
  <2> QED BY <1>4, <2>1 DEF Matches
<1>6. Handed(events, n)
  <2>1. Handed(events, c)
    BY DEF Follows
  <2>2. ASSUME NEW p \in Output, NEW l, NEW i \in 0 .. Len(events), Quits(events, c, p, l, i)
        PROVE  Quits(events, n, p, l, i)
    BY <1>4, <2>2 DEF Quits
  <2> QED BY <2>1, <2>2 DEF Handed
<1>7. Flagged(events)'
  BY <1>1 DEF Flagged
<1>8. Powered' /\ Told(events)'
  <2>1. Powered'
    BY <1>1 DEF Follows, Powered
  <2>2. Told(events)'
    BY <1>1, ToldThen DEF Follows
  <2> QED BY <2>1, <2>2
<1>9. Handed(events, client)'
  BY <1>1, <1>6, HandedThen
<1>10. Match(events, client)'
  BY <1>1, <1>5 DEF Match, Matches, Quiet, Still, Read
<1> QED BY <1>7, <1>8, <1>9, <1>10 DEF Follows

LEMMA FollowsRead ==
    ASSUME Types, Lists, Follows, readOutput
    PROVE  Follows'
<1> SUFFICES ASSUME NEW c, c = client, NEW n, n = client', NEW q, q = events,
                    NEW d, d = starting.desktop, NEW k, k = starting.next,
                    NEW o, o = OutputsOf[d][k]
             PROVE  Follows'
  OBVIOUS
<1>1. /\ events' = events /\ connected' = connected /\ crtcOf' = crtcOf
      /\ geometry' = geometry /\ rrPrimary' = rrPrimary
      /\ starting' = [starting EXCEPT !.next = k + 1]
      /\ d \in Desktop /\ k \in 1 .. Len(OutputsOf[d]) /\ Server
      /\ c \in Client /\ Filling(c) /\ Own(c) /\ Begun(c, d, k)
  <2>1. ~Ready /\ d \in Desktop /\ k \in DOMAIN OutputsOf[d]
    BY DEF readOutput, Ready
  <2>2. DOMAIN OutputsOf[d] = 1 .. Len(OutputsOf[d])
    BY <2>1, Constants
  <2> QED BY <2>1, <2>2 DEF readOutput, server, Types, Lists
<1>2. starting'.desktop = d /\ starting'.next = k + 1 /\ starting'.primary = starting.primary
  BY <1>1 DEF Types
<1>3. o \in Output /\ o # None /\ DesktopOf(o) = d /\ \A s \in Range(c.screens) : c.at[s].output # o
  <2>1. /\ o \in Output /\ o \in Range(OutputsOf[d])
        /\ \A s \in Range(c.screens) : c.at[s].output # o
    BY <1>1, NotReadYet
  <2>2. DesktopOf(o) = d
    BY <1>1, <2>1, TheDesktop
  <2> QED BY <2>1, <2>2, Constants
<1>4. Powered /\ Told(q) /\ Match(q, c) /\ Handed(q, c) /\ Flagged(q)
  BY DEF Follows
<1>5. ASSUME NEW p \in Output, Read(p)', p # o PROVE Read(p)
  <2>1. DesktopOf(p) \in Desktop
    BY TheDesktop
  <2>2. CASE DesktopOf(p) = d
    <3>1. DesktopOf(p) \in Int /\ ~(DesktopOf(p) < d)
      BY <1>1, <2>2, Constants
    <3>2. PICK i \in 1 .. Len(OutputsOf[d]) : i < k + 1 /\ OutputsOf[d][i] = p
      BY <1>2, <1>5, <2>2, <3>1 DEF Read
    <3>3. Len(OutputsOf[d]) \in Nat
      BY <1>1, Constants
    <3>4. i < k
      BY <1>1, <1>5, <3>2, <3>3
    <3> QED BY <2>2, <3>2, <3>4 DEF Read
  <2>3. CASE DesktopOf(p) # d
    BY <1>2, <1>5, <2>3 DEF Read
  <2> QED BY <2>2, <2>3
<1>6. starting.next > 0
  BY <1>1, Constants
<1>7. ASSUME rrPrimary # None, Quiet(q, rrPrimary)
      PROVE  /\ starting.primary \in {None, rrPrimary}
             /\ rrPrimary = o => d = PrimaryNumber /\ starting.primary = o
  <2>1. d = PrimaryNumber => starting.primary = rrPrimary
    BY <1>4, <1>6, <1>7 DEF Flagged
  <2>2. d # PrimaryNumber => starting.primary = None
    BY <1>4 DEF Flagged
  <2>3. rrPrimary = o => d = PrimaryNumber
    BY <1>1, <1>3, <1>7, TheDesktop, Constants DEF Server
  <2> QED BY <2>1, <2>2, <2>3
<1>8. Match(q, n)' /\ Handed(q, n)
  <2>1. CASE ~connected[o] \/ crtcOf[o] = None
    <3>1. n = c
      BY <1>1, <2>1 DEF readOutput
    <3>2. Matches(q, c, o)
      BY <1>3, <2>1 DEF Matches
    <3>3. ASSUME NEW p \in Output, Quiet(q, p), Read(p)' PROVE Matches(q, c, p)
      BY <1>4, <1>5, <3>2, <3>3 DEF Match
    <3> QED BY <1>1, <1>4, <3>1, <3>3 DEF Match, Matches, Quiet, Still
  <2>2. CASE connected[o] /\ crtcOf[o] # None
    <3> DEFINE s == FreeSlot(c)
    <3>1. Loaded(c, n, s, d, o)
      <4>1. Loaded(c, client', FreeSlot(c), d, o)
        BY <1>1, <2>2, ReadOutput
      <4> QED BY <4>1
    <3> HIDE DEF s
    <3>2. /\ \A t \in Range(n.screens) : n.at[t].output = o => t = s
          /\ s \in Range(n.screens) /\ n.at[s].output = o
          /\ n.at[s].crtc = crtcOf[o] /\ n.at[s].geometry = geometry[crtcOf[o]]
      BY <1>3, <3>1 DEF Loaded
    <3>3. ASSUME NEW p \in Output, p # o
          PROVE  \A t : /\ t \in Range(n.screens) /\ n.at[t].output = p
                           => t \in Range(c.screens) /\ c.at[t].output = p /\ n.at[t].crtc = c.at[t].crtc
                              /\ n.at[t].geometry = c.at[t].geometry
                        /\ t \in Range(c.screens) /\ c.at[t].output = p
                           => t \in Range(n.screens) /\ n.at[t].output = p
      BY <3>1, <3>3 DEF Loaded
    <3>4. ASSUME NEW p \in Output, Quiet(q, p), Read(p)' PROVE Matches(q, n, p)
      <4>1. CASE p = o
        <5>1. o = rrPrimary => n.at[s].primary
          BY <1>3, <1>7, <3>1, <3>4, <4>1 DEF Loaded
        <5> QED BY <2>2, <3>2, <4>1, <5>1 DEF Matches
      <4>2. CASE p # o
        <5>1. Matches(q, c, p)
          BY <1>4, <1>5, <3>4, <4>2 DEF Match
        <5>2. ASSUME NEW t \in Range(c.screens), c.at[t].primary, p = rrPrimary PROVE n.at[t].primary
          <6>1. o # starting.primary
            BY <1>3, <1>7, <3>4, <4>2, <5>2, Constants
          <6> QED BY <3>1, <5>2, <6>1 DEF Loaded
        <5> QED BY <3>3, <4>2, <5>1, <5>2 DEF Matches
      <4> QED BY <4>1, <4>2
    <3>5. Handed(q, n)
      <4>1. ASSUME NEW p \in Output, NEW r \in Output, r # p, crtcOf[r] # None,
                   NEW i \in 0 .. Len(q), Quits(q, c, p, crtcOf[r], i)
            PROVE  Quits(q, n, p, crtcOf[r], i)
        <5>1. ASSUME \A t \in Range(c.screens) : c.at[t].output = p => c.at[t].crtc # crtcOf[r],
                     NEW t \in Range(n.screens), n.at[t].output = p
              PROVE  n.at[t].crtc # crtcOf[r]
          <6>1. CASE p = o
            BY <1>4, <3>2, <4>1, <5>1, <6>1 DEF Powered
          <6>2. CASE p # o
            BY <3>3, <5>1, <6>2
          <6> QED BY <6>1, <6>2
        <5> QED BY <4>1, <5>1 DEF Quits
      <4> QED BY <1>4, <4>1 DEF Handed
    <3> QED BY <1>1, <3>4, <3>5 DEF Match, Matches, Quiet, Still
  <2> QED BY <2>1, <2>2
<1>9. Flagged(q)'
  BY <1>1, <1>2, <1>4, <1>6 DEF Flagged, Quiet
<1>10. Powered'
  BY <1>1, <1>4 DEF Powered
<1>11. Told(events)'
  BY <1>1, <1>4, ToldThen
<1>12. Handed(events, client)'
  BY <1>1, <1>8, HandedThen
<1>13. Match(events, client)'
  BY <1>1, <1>8 DEF Match, Matches, Quiet, Still, Read
<1>14. Flagged(events)'
  BY <1>1, <1>9 DEF Flagged, Quiet
<1> QED BY <1>10, <1>11, <1>12, <1>13, <1>14 DEF Follows

LEMMA FollowsInit ==
    ASSUME Init
    PROVE  Follows
<1>1. /\ events = <<>> /\ client.screens = <<>> /\ Len(events) = 0
      /\ starting = [desktop |-> 1, next |-> 0, primary |-> None]
  BY DEF Init, At
<1>2. \A i \in 1 .. Len(events) : FALSE
  BY <1>1
<1>3. \A s \in Range(client.screens) : FALSE
  BY <1>1 DEF Range
<1>4. Powered
  <2>1. /\ crtcOf \in [Output -> Crtc \cup {None}]
        /\ \A o \in Output : crtcOf[o] # None => \A p \in Output \ {o} : crtcOf[p] # crtcOf[o]
    BY DEF Init, Driven
  <2>2. ASSUME NEW o \in Output, crtcOf[o] # None PROVE geometry[crtcOf[o]] # 0
    <3>1. crtcOf[o] \in Crtc /\ crtcOf[o] \in Range(crtcOf)
      BY <2>1, <2>2 DEF Range
    <3> QED BY <3>1 DEF Init
  <2> QED BY <2>1, <2>2 DEF Powered
<1>5. Told(events)
  BY <1>2 DEF Told, Quiet, Still
<1>6. \A o \in Output : ~Read(o)
  <2> SUFFICES ASSUME NEW o \in Output PROVE ~Read(o)
    OBVIOUS
  <2>1. DesktopOf(o) \in Desktop
    BY TheDesktop
  <2>2. ~(DesktopOf(o) < 1) /\ \A i \in 1 .. Len(OutputsOf[DesktopOf(o)]) : ~(i < 0)
    BY <2>1, Constants
  <2> QED BY <1>1, <2>2 DEF Read
<1>7. Match(events, client)
  BY <1>6 DEF Match
<1>8. Handed(events, client)
  <2>1. 0 \in 0 .. Len(events)
    BY <1>1
  <2> QED BY <1>2, <1>3, <2>1 DEF Handed, Quits
<1>9. Flagged(events)
  BY <1>1 DEF Flagged
<1> QED BY <1>4, <1>5, <1>7, <1>8, <1>9 DEF Follows

LEMMA FollowsKept ==
    ASSUME ~Clones, Types, Lists, Follows, [Next]_vars
    PROVE  Follows'
<1>1. CASE UNCHANGED vars
  <2>1. /\ connected' = connected /\ crtcOf' = crtcOf /\ geometry' = geometry
        /\ rrPrimary' = rrPrimary /\ events' = events /\ starting' = starting /\ client' = client
    BY <1>1 DEF vars, server
  <2>2. Powered' /\ Told(events)'
    <3>1. Powered'
      BY <2>1 DEF Follows, Powered
    <3>2. Told(events)'
      BY <2>1, ToldThen DEF Follows
    <3> QED BY <3>1, <3>2
  <2>3. Handed(events, client)'
    BY <2>1, HandedThen DEF Follows
  <2>4. Match(events, client)'
    BY <2>1 DEF Follows, Match, Matches, Quiet, Still, Read
  <2>5. Flagged(events)'
    BY <2>1 DEF Follows, Flagged, Quiet
  <2> QED BY <2>2, <2>3, <2>4, <2>5 DEF Follows
<1>2. Next => Outside \/ updateScreens \/ readPrimary \/ readOutput \/ endDesktop
  BY DEF Next, Outside
<1> QED BY <1>1, <1>2, FollowsOn, FollowsAfter, FollowsPrimary, FollowsRead, FollowsEnd

-----------------------------------------------------------------------------
(* With every notification handled, the screens are those of the server.   *)

LEMMA AllMatch ==
    ASSUME Types, Follows, Settled
    PROVE  \A o \in Output : Matches(<<>>, client, o)
<1> SUFFICES ASSUME NEW o \in Output PROVE Matches(<<>>, client, o)
  OBVIOUS
<1>1. Quiet(<<>>, o)
  BY DEF Quiet
<1>2. Read(o)
  <2>1. DesktopOf(o) \in Desktop
    BY TheDesktop
  <2>2. DesktopOf(o) < starting.desktop
    BY <2>1, Constants DEF Settled, Ready, Types
  <2> QED BY <2>2 DEF Read
<1> QED BY <1>1, <1>2 DEF Follows, Match, Settled

LEMMA OneEach ==
    ASSUME NEW q \in Seq(Slot), IsInjective(q), NEW f, NEW S,
           \A s \in Range(q) : f[s] \in S,
           \A s, t \in Range(q) : f[s] = f[t] => s = t,
           \A o \in S : \E s \in Range(q) : f[s] = o
    PROVE  Len(q) = Cardinality(S)
<1> DEFINE g == [i \in 1 .. Len(q) |-> f[q[i]]]
<1>1. Len(q) \in Nat /\ DOMAIN q = 1 .. Len(q) /\ \A s : s \in Range(q) <=> \E i \in 1 .. Len(q) : q[i] = s
  BY Elements
<1>2. g \in [1 .. Len(q) -> S]
  BY <1>1
<1>3. ASSUME NEW i \in 1 .. Len(q), NEW j \in 1 .. Len(q), g[i] = g[j] PROVE i = j
  <2>1. q[i] = q[j]
    BY <1>1, <1>3
  <2> QED BY <1>1, <2>1 DEF IsInjective
<1>4. \A o \in S : \E i \in 1 .. Len(q) : g[i] = o
  BY <1>1
<1> HIDE DEF g
<1>5. g \in Injection(1 .. Len(q), S) /\ g \in Surjection(1 .. Len(q), S)
  BY <1>2, <1>3, <1>4 DEF Injection, Surjection, IsInjective
<1>6. IsFiniteSet(1 .. Len(q)) /\ Cardinality(1 .. Len(q)) = Len(q)
  BY <1>1, FS_Interval
<1>7. Cardinality(S) = Cardinality(1 .. Len(q))
  BY <1>5, <1>6, FS_Surjection
<1> QED BY <1>6, <1>7

LEMMA ShowsOutputs ==
    ASSUME Types, Lists, Follows, Settled, NEW c, c = client, NEW d \in Desktop
    PROVE  LET of(o) == {s \in Range(c.siblings[d]) : c.at[s].output = o}
           IN IF Shown(d) = {} THEN of(None) = Range(c.siblings[d]) /\ Len(c.siblings[d]) = 1
              ELSE /\ of(None) = {}
                   /\ Len(c.siblings[d]) = Cardinality(Shown(d))
                   /\ \A o \in Shown(d) : \E s \in of(o) :
                         /\ c.at[s].crtc = crtcOf[o]
                         /\ c.at[s].geometry = geometry[crtcOf[o]]
<1> DEFINE q == c.siblings[d]
           of(o) == {s \in Range(q) : c.at[s].output = o}
<1>1. /\ c \in Client /\ Whole(c) /\ Own(c) /\ Ready
      /\ Range(q) = {s \in Range(c.screens) : c.at[s].desktop = d} /\ IsInjective(q) /\ q # <<>>
  BY DEF Types, Lists, Settled, Whole, Listed
<1>2. q \in Seq(Slot) /\ Head(q) \in Range(q) /\ Len(q) > 0
  <2>1. q \in Seq(Slot)
    BY <1>1, ClientTypes
  <2> QED BY <1>1, <2>1, Elements
<1>3. \A o \in Output : Matches(<<>>, c, o)
  BY AllMatch
<1>4. /\ Range(OutputsOf[d]) \subseteq Output /\ None \notin Output
      /\ Shown(d) \subseteq Range(OutputsOf[d]) /\ \A k : Still(<<>>, k)
  BY Constants DEF Shown, Still
<1> HIDE DEF q
<1>5. ASSUME NEW s \in Range(q), c.at[s].output # None PROVE c.at[s].output \in Shown(d)
  <2>1. s \in Range(c.screens) /\ c.at[s].desktop = d
    BY <1>1
  <2>2. c.at[s].output \in Range(OutputsOf[d])
    BY <1>1, <1>5, <2>1 DEF Own
  <2> QED BY <1>3, <1>4, <2>1, <2>2 DEF Matches, Shown
<1>6. ASSUME NEW o \in Shown(d)
      PROVE  \E s \in of(o) : c.at[s].crtc = crtcOf[o] /\ c.at[s].geometry = geometry[crtcOf[o]]
  <2>1. o \in Range(OutputsOf[d]) /\ o \in Output /\ o # None /\ connected[o] /\ crtcOf[o] # None
    BY <1>4 DEF Shown
  <2>2. PICK s \in Range(c.screens) : c.at[s].output = o
    BY <1>3, <2>1 DEF Matches
  <2>3. c.at[s].desktop = d
    <3>1. c.at[s] \in Screen
      BY <1>1, ClientTypes
    <3>2. c.at[s].desktop \in Desktop /\ o \in Range(OutputsOf[c.at[s].desktop])
      BY <1>1, <2>1, <2>2, <3>1 DEF Own, Screen
    <3> QED BY <2>1, <3>2, TheDesktop
  <2>4. s \in of(o)
    BY <1>1, <2>2, <2>3
  <2> QED BY <1>3, <1>4, <2>1, <2>2, <2>4 DEF Matches
<1>7. ASSUME NEW s \in Range(q), NEW t \in Range(q), c.at[s].output = c.at[t].output
      PROVE  s = t
  <2>1. s \in Range(c.screens) /\ t \in Range(c.screens) /\ c.at[s].desktop = c.at[t].desktop
    BY <1>1
  <2> QED BY <1>1, <1>7, <2>1 DEF Own
<1>8. CASE Shown(d) = {}
  <2>1. \A s \in Range(q) : c.at[s].output = None
    BY <1>5, <1>8
  <2>2. \A s, t \in Range(q) : s = t
    BY <1>7, <2>1
  <2>3. Len(q) = 1
    <3>1. DOMAIN q = 1 .. Len(q) /\ Len(q) \in Nat /\ \A i \in 1 .. Len(q) : q[i] \in Range(q)
      BY <1>2, Elements
    <3>2. Len(q) > 1 => FALSE
      BY <1>1, <2>2, <3>1 DEF IsInjective
    <3> QED BY <1>2, <3>1, <3>2
  <2> QED BY <1>8, <2>1, <2>3 DEF q
<1>9. CASE Shown(d) # {}
  <2>1. of(None) = {}
    <3>1. PICK o \in Shown(d) : TRUE
      BY <1>9
    <3>2. PICK s \in Range(q) : c.at[s].output = o
      BY <1>6
    <3>3. o # None
      BY <1>4
    <3>4. ASSUME NEW t \in Range(q), c.at[t].output = None PROVE FALSE
      <4>1. s \in Range(c.screens) /\ t \in Range(c.screens) /\ c.at[s].desktop = c.at[t].desktop /\ s # t
        BY <1>1, <3>2, <3>3, <3>4
      <4> QED BY <1>1, <3>4, <4>1 DEF Own
    <3> QED BY <3>4
  <2>2. Len(q) = Cardinality(Shown(d))
    <3> DEFINE f == [s \in Range(q) |-> c.at[s].output]
               S == Shown(d)
    <3>1. \A s \in Range(q) : f[s] \in S
      BY <1>5, <2>1
    <3>2. \A s, t \in Range(q) : f[s] = f[t] => s = t
      BY <1>7
    <3>3. \A o \in S : \E s \in Range(q) : f[s] = o
      BY <1>6
    <3> HIDE DEF f, S
    <3>4. Len(q) = Cardinality(S)
      BY <1>1, <1>2, <3>1, <3>2, <3>3, OneEach
    <3> QED BY <3>4 DEF S
  <2> QED BY <1>6, <1>9, <2>1, <2>2 DEF q
<1> QED BY <1>8, <1>9

\* Where no two outputs share a crtc, the notifications a client handles,
\* however late, and what it asks for meanwhile bring it to the screens of the
\* server: one per output shown, with its crtc and geometry.
THEOREM ScreensSettle == ASSUME ~Clones PROVE Spec => []ScreensFollowOutputs
<1>1. Init => Types /\ Lists /\ Follows
  BY ListsInit, FollowsInit
<1>2. Types /\ Lists /\ Follows /\ [Next]_vars => Types' /\ Lists' /\ Follows'
  BY ListsKept, FollowsKept
<1>3. Types /\ Lists /\ Follows => ScreensFollowOutputs
  <2>1. ASSUME Types, Lists, Follows, Settled, NEW c, c = client, NEW d \in Desktop
        PROVE  LET of(o) == {s \in Range(c.siblings[d]) : c.at[s].output = o}
               IN IF Shown(d) = {} THEN of(None) = Range(c.siblings[d]) /\ Len(c.siblings[d]) = 1
                  ELSE /\ of(None) = {}
                       /\ Len(c.siblings[d]) = Cardinality(Shown(d))
                       /\ \A o \in Shown(d) : \E s \in of(o) :
                             /\ c.at[s].crtc = crtcOf[o]
                             /\ c.at[s].geometry = geometry[crtcOf[o]]
    BY <2>1, ShowsOutputs
  <2> QED BY <2>1 DEF ScreensFollowOutputs
<1> QED BY <1>1, <1>2, <1>3, PTL DEF Spec

\* ... and the primary screen, first in the lists, to that of the primary
\* output, whether initializeScreens() asked for it or updateScreen() did.
THEOREM PrimarySettles == ASSUME ~Clones PROVE Spec => []PrimaryFollowsOutput
<1>1. Init => Types /\ Lists /\ Follows
  BY ListsInit, FollowsInit
<1>2. Types /\ Lists /\ Follows /\ [Next]_vars => Types' /\ Lists' /\ Follows'
  BY ListsKept, FollowsKept
<1>3. ASSUME Types, Lists, Follows, Settled, rrPrimary \in Shown(PrimaryNumber)
      PROVE  client.at[Head(client.screens)].output = rrPrimary
  <2>1. rrPrimary \in Output /\ connected[rrPrimary] /\ crtcOf[rrPrimary] # None
    BY <1>3, Constants DEF Shown
  <2>2. Matches(<<>>, client, rrPrimary)
    BY <1>3, <2>1, AllMatch
  <2>3. PICK s \in Range(client.screens) : client.at[s].output = rrPrimary
    BY <2>1, <2>2 DEF Matches
  <2>4. s \in flaggedPrimary(client)
    BY <2>2, <2>3 DEF Matches, flaggedPrimary
  <2>5. flaggedPrimary(client) = {Head(client.screens)}
    BY <1>3 DEF Lists, Settled, Whole
  <2> QED BY <2>3, <2>4, <2>5
<1>4. Types /\ Lists /\ Follows => PrimaryFollowsOutput
  BY <1>3 DEF PrimaryFollowsOutput
<1> QED BY <1>1, <1>2, <1>4, PTL DEF Spec
=====
