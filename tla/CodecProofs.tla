---------------------------- MODULE CodecProofs ----------------------------
(***************************************************************************)
(* Proofs about the packet formats: whatever is in the fields of a packet, *)
(* however long its data and its lists, decode makes of its bytes the      *)
(* packet again, or refuses what is not all there.                         *)
(***************************************************************************)
EXTENDS Codec, FiniteSetTheorems, WellFoundedInduction, TLAPS

-----------------------------------------------------------------------------
(* Induction.  The provers cannot instantiate a theorem about every         *)
(* predicate, but they can one about every set.                            *)

\* A non-empty set of naturals has a least member.
LEMMA LeastExists ==
  ASSUME NEW S, S \subseteq Nat, S # {}
  PROVE  \E x \in S : \A y \in S : x <= y
<1> DEFINE Below == {ss \in Nat \X Nat : ss[1] < ss[2]}
<1>1. IsWellFoundedOn(Below, Nat)
  BY NatLessThanWellFounded, Zenon DEF OpToRel
<1>2. PICK x \in S : \A y \in S : ~ (<<y, x>> \in Below)
  <2> HIDE DEF Below
  <2> QED BY <1>1, WFMin
<1>3. ASSUME NEW y \in S PROVE x <= y
  <2>1. x \in Nat /\ y \in Nat
    OBVIOUS
  <2>2. y < x => <<y, x>> \in Below
    BY <2>1
  <2> QED
    BY <1>2, <2>1, <2>2
<1> QED
  BY <1>3

\* What holds of 0, and of k + 1 when it does of k, holds of all.
LEMMA Induction ==
  ASSUME NEW S, 0 \in S, \A k \in Nat : k \in S => k + 1 \in S
  PROVE  Nat \subseteq S
<1> SUFFICES ASSUME Nat \ S # {} PROVE FALSE
  OBVIOUS
<1>1. PICK k \in Nat \ S : \A y \in Nat \ S : k <= y
  BY LeastExists
<1>2. k # 0 /\ k - 1 \in Nat
  OBVIOUS
<1>3. k - 1 \in S
  BY <1>1, <1>2
<1> QED
  BY <1>2, <1>3

-----------------------------------------------------------------------------
(* Sizes                                                                   *)

\* Each member of a sequence of cells, or of fields, begins with its width.
Measured(s) == Len(s) \in Nat /\ \A i \in 1..Len(s) : s[i][1] \in Nat

\* The bytes of the first k.
FirstBytes(s, k) == UNION {{i} \X (1..s[i][1]) : i \in 1..k}

\* Size adds up the widths, one after the other.
LEMMA SizeSteps ==
  ASSUME NEW s, Measured(s)
  PROVE  \E sum \in [0..Len(s) -> Nat] :
            /\ sum[0] = 0 /\ sum[Len(s)] = Size(s)
            /\ \A i \in 1..Len(s) : sum[i] = sum[i - 1] + s[i][1]
<1> DEFINE n == Len(s)
           card(k) == Cardinality(FirstBytes(s, k))
           sum == [k \in 0..n |-> card(k)]
<1>1. n \in Nat /\ \A i \in 1..n : s[i][1] \in Nat
  BY DEF Measured
<1>2. FirstBytes(s, 0) = {} /\ IsFiniteSet({}) /\ Cardinality({}) = 0
  <2>1. FirstBytes(s, 0) = {}
    BY DEF FirstBytes
  <2> QED
    BY <2>1, FS_EmptySet
<1>3. ASSUME NEW k \in 0..(n - 1), IsFiniteSet(FirstBytes(s, k))
      PROVE  IsFiniteSet(FirstBytes(s, k + 1)) /\ card(k + 1) = card(k) + s[k + 1][1]
  <2> DEFINE w == s[k + 1][1]  F == FirstBytes(s, k)  C == {k + 1} \X (1..w)
  <2>1. w \in Nat
    BY <1>1
  <2>2. FirstBytes(s, k + 1) = F \cup C
    <3>1. 1..(k + 1) = (1..k) \cup {k + 1}
      OBVIOUS
    <3> QED
      BY <3>1 DEF FirstBytes
  <2>3. F \cap C = {}
    <3>1. k + 1 \notin 1..k
      OBVIOUS
    <3> QED
      BY <3>1 DEF FirstBytes
  <2>4. IsFiniteSet(C) /\ Cardinality(C) = w
    <3>1. IsFiniteSet({k + 1}) /\ Cardinality({k + 1}) = 1
      BY FS_Singleton
    <3>2. IsFiniteSet(1..w) /\ Cardinality(1..w) = w
      <4> HIDE DEF w
      <4> QED BY <2>1, FS_Interval
    <3>3. IsFiniteSet(C) /\ Cardinality(C) = Cardinality({k + 1}) * Cardinality(1..w)
      BY <3>1, <3>2, FS_Product
    <3> HIDE DEF w
    <3> QED
      BY <2>1, <3>1, <3>2, <3>3
  <2>5. Cardinality(F) \in Nat
    BY <1>3, FS_CardinalityType
  <2>6. /\ IsFiniteSet(F \cup C)
        /\ Cardinality(F \cup C) = Cardinality(F) + Cardinality(C) - Cardinality(F \cap C)
    <3> HIDE DEF F, C
    <3> QED BY <1>3, <2>4, FS_Union DEF F
  <2>7. Cardinality(F \cap C) = 0
    BY <1>2, <2>3
  <2> HIDE DEF F, C, w
  <2>8. Cardinality(F \cup C) = Cardinality(F) + w
    BY <2>1, <2>4, <2>5, <2>6, <2>7
  <2> QED
    BY <2>2, <2>6, <2>8 DEF F, w
<1> DEFINE T == {k \in Nat : k \in 0..n => IsFiniteSet(FirstBytes(s, k))}
<1>4. 0 \in T
  BY <1>2
<1>5. ASSUME NEW k \in Nat, k \in T PROVE k + 1 \in T
  <2>1. CASE k + 1 \in 0..n
    <3>1. k \in 0..(n - 1)
      BY <1>1, <2>1
    <3> QED
      BY <1>3, <1>5, <3>1
  <2> QED
    BY <2>1
<1>6. \A k \in 0..n : IsFiniteSet(FirstBytes(s, k))
  <2>1. Nat \subseteq T
    <3> HIDE DEF T
    <3> QED BY <1>4, <1>5, Induction
  <2> QED
    BY <1>1, <2>1
<1>7. sum \in [0..n -> Nat]
  <2>1. \A k \in 0..n : card(k) \in Nat
    BY <1>6, FS_CardinalityType
  <2> QED
    BY <2>1
<1>8. sum[0] = 0 /\ sum[n] = Size(s)
  <2>1. FirstBytes(s, n) = Bytes(s)
    BY DEF FirstBytes, Bytes
  <2>2. card(0) = 0 /\ card(n) = Size(s)
    BY <1>2, <2>1 DEF Size
  <2> HIDE DEF card
  <2> QED
    BY <1>1, <2>2
<1>9. \A i \in 1..n : sum[i] = sum[i - 1] + s[i][1]
  <2> TAKE i \in 1..n
  <2>1. i - 1 \in 0..(n - 1) /\ i \in 0..n /\ i - 1 \in 0..n /\ (i - 1) + 1 = i
    BY <1>1
  <2>2. card((i - 1) + 1) = card(i - 1) + s[(i - 1) + 1][1]
    BY <1>3, <1>6, <2>1
  <2> QED
    BY <2>1, <2>2
<1> HIDE DEF sum
<1> QED
  BY <1>7, <1>8, <1>9

\* A size is a number of bytes.
LEMMA SizeIsNat ==
  ASSUME NEW s, Measured(s)
  PROVE  Size(s) \in Nat
<1>1. PICK sum \in [0..Len(s) -> Nat] : sum[Len(s)] = Size(s)
  BY SizeSteps
<1> QED
  BY <1>1 DEF Measured

\* What is put one after the other adds up.
LEMMA SizeOfBoth ==
  ASSUME NEW S, NEW s \in Seq(S), NEW t \in Seq(S), Measured(s), Measured(t)
  PROVE  Measured(s \o t) /\ Size(s \o t) = Size(s) + Size(t)
<1> DEFINE m == Len(s)  n == Len(t)
<1>1. /\ m \in Nat /\ n \in Nat /\ Len(s \o t) = m + n
      /\ \A i \in 1..m : (s \o t)[i] = s[i]
      /\ \A i \in 1..n : (s \o t)[m + i] = t[i]
      /\ \A i \in 1..m + n : i \in 1..m \/ i - m \in 1..n
  OBVIOUS
<1>2. Measured(s \o t)
  <2> SUFFICES ASSUME NEW i \in 1..m + n PROVE (s \o t)[i][1] \in Nat
    BY <1>1 DEF Measured
  <2>1. CASE i \in 1..m
    BY <1>1, <2>1 DEF Measured
  <2>2. CASE i - m \in 1..n
    BY <1>1, <2>2 DEF Measured
  <2> QED
    BY <1>1, <2>1, <2>2
<1>3. PICK f \in [0..m -> Nat] : /\ f[0] = 0 /\ f[m] = Size(s)
                                /\ \A i \in 1..m : f[i] = f[i - 1] + s[i][1]
  BY SizeSteps
<1>4. PICK g \in [0..n -> Nat] : /\ g[0] = 0 /\ g[n] = Size(t)
                                /\ \A i \in 1..n : g[i] = g[i - 1] + t[i][1]
  BY SizeSteps
<1>5. PICK h \in [0..m + n -> Nat] :
          /\ h[0] = 0 /\ h[m + n] = Size(s \o t)
          /\ \A i \in 1..m + n : h[i] = h[i - 1] + (s \o t)[i][1]
  <2>1. PICK h \in [0..Len(s \o t) -> Nat] :
            /\ h[0] = 0 /\ h[Len(s \o t)] = Size(s \o t)
            /\ \A i \in 1..Len(s \o t) : h[i] = h[i - 1] + (s \o t)[i][1]
    BY <1>2, SizeSteps
  <2> QED
    BY <1>1, <2>1
<1> DEFINE P == {k \in Nat : k \in 0..m => h[k] = f[k]}
           Q == {k \in Nat : k \in 0..n => h[m + k] = f[m] + g[k]}
<1>6. Nat \subseteq P
  <2>1. 0 \in P
    BY <1>3, <1>5
  <2>2. ASSUME NEW k \in Nat, k \in P PROVE k + 1 \in P
    <3>1. CASE k + 1 \in 1..m
      <4>1. k \in 0..m /\ (k + 1) - 1 = k /\ k + 1 \in 1..m + n
        BY <1>1, <3>1
      <4>2. h[k + 1] = h[k] + s[k + 1][1] /\ f[k + 1] = f[k] + s[k + 1][1]
        BY <1>1, <1>3, <1>5, <3>1, <4>1
      <4> QED
        BY <2>2, <4>1, <4>2
    <3> QED
      BY <3>1
  <2> HIDE DEF P
  <2> QED
    BY <2>1, <2>2, Induction
<1>7. Nat \subseteq Q
  <2>1. 0 \in Q
    <3>1. m \in P /\ m + 0 = m /\ f[m] \in Nat /\ 0 \in 0..n
      BY <1>1, <1>3, <1>6
    <3>2. h[m] = f[m] + g[0]
      BY <1>1, <1>4, <3>1
    <3> QED
      BY <3>1, <3>2
  <2>2. ASSUME NEW k \in Nat, k \in Q PROVE k + 1 \in Q
    <3>1. CASE k + 1 \in 1..n
      <4>1. /\ k \in 0..n /\ (k + 1) - 1 = k
            /\ m + (k + 1) \in 1..m + n /\ (m + (k + 1)) - 1 = m + k
        BY <1>1, <3>1
      <4>2. h[m + (k + 1)] = h[m + k] + t[k + 1][1] /\ g[k + 1] = g[k] + t[k + 1][1]
        BY <1>1, <1>4, <1>5, <3>1, <4>1
      <4>3. g[k] \in Nat /\ f[m] \in Nat /\ t[k + 1][1] \in Nat
        BY <1>1, <1>3, <1>4, <3>1, <4>1 DEF Measured
      <4> QED
        BY <2>2, <4>1, <4>2, <4>3
    <3> QED
      BY <3>1
  <2> HIDE DEF Q
  <2> QED
    BY <2>1, <2>2, Induction
<1>8. h[m + n] = f[m] + g[n]
  BY <1>1, <1>7
<1> QED
  BY <1>2, <1>3, <1>4, <1>5, <1>8

-----------------------------------------------------------------------------
(* Reading fields                                                          *)

\* A buffer that has been read without an error up to the cell at.
Reading(b, cells, at, left) ==
    /\ b.got = [n \in DOMAIN b.got |-> b.got[n]]
    /\ b = [cells |-> cells, at |-> at, left |-> left, got |-> b.got, status |-> "ok"]

\* The names of a layout's fields.
Names(layout) == {layout[i][2] : i \in 1..Len(layout)} \ {"reserved"}

\* From the cell at on there is a cell for every field of a layout, of its width,
\* with a value that is accepted, and the one val has for the field's name.
Carries(cells, at, layout, val) ==
    \A i \in 1..Len(layout) :
        /\ at + i - 1 \in DOMAIN cells
        /\ cells[at + i - 1][1] = layout[i][1]
        /\ layout[i][3] = {} \/ cells[at + i - 1][2] \in layout[i][3]
        /\ layout[i][2] = "reserved" \/ cells[at + i - 1][2] = val[layout[i][2]]

\* c has the fields of b and those named, with their values in val.
Gained(c, b, names, val) ==
    /\ DOMAIN c.got = DOMAIN b.got \cup names
    /\ \A n \in names : c.got[n] = val[n]
    /\ \A n \in DOMAIN b.got \ names : c.got[n] = b.got[n]

\* g reads the first k fields of a layout.
IsRead(g, b, layout, k) ==
    g = [i \in 0..k |-> IF i = 0 THEN b ELSE Get(g[i - 1], layout[i])]

\* Fields reads the fields of a layout, one after the other.
LEMMA FieldsSteps ==
  ASSUME NEW b, NEW layout, Len(layout) \in Nat
  PROVE  \E read :
            /\ read[0] = b /\ read[Len(layout)] = Fields(b, layout)
            /\ \A i \in 1..Len(layout) : read[i] = Get(read[i - 1], layout[i])
<1> DEFINE n == Len(layout)
           S == {k \in Nat : \E g : IsRead(g, b, layout, k)}
<1>1. 0 \in S
  <2> DEFINE h == [i \in 0..0 |-> b]
  <2>1. IsRead(h, b, layout, 0)
    BY DEF IsRead
  <2> QED
    BY <2>1
<1>2. ASSUME NEW k \in Nat, k \in S PROVE k + 1 \in S
  <2>1. PICK g : IsRead(g, b, layout, k)
    BY <1>2
  <2> DEFINE h == [i \in 0..(k + 1) |-> IF i = k + 1 THEN Get(g[k], layout[i]) ELSE g[i]]
  <2>2. IsRead(h, b, layout, k + 1)
    BY <2>1 DEF IsRead
  <2> HIDE DEF h
  <2> QED
    BY <2>2
<1>3. n \in S
  <2> HIDE DEF S
  <2> QED BY <1>1, <1>2, Induction
<1> DEFINE read == CHOOSE g : IsRead(g, b, layout, n)
<1>4. IsRead(read, b, layout, n)
  BY <1>3
<1>5. read[n] = Fields(b, layout)
  BY DEF Fields, IsRead
<1> HIDE DEF read
<1> QED
  BY <1>4, <1>5 DEF IsRead

\* g is b after the field f was read from the cell at.
FieldOutcome(g, b, cells, at, left, f) ==
    /\ Reading(g, cells, at + 1, left - f[1])
    /\ f[2] = "reserved" => g.got = b.got
    /\ f[2] # "reserved" => Gained(g, b, {f[2]}, [n \in {f[2]} |-> cells[at][2]])

\* One field that is there, of its width, is read.
LEMMA GetReads ==
  ASSUME NEW b, NEW cells, NEW at \in Nat, NEW left \in Nat, NEW f,
         Reading(b, cells, at, left),
         at \in DOMAIN cells, cells[at][1] = f[1], f[1] \in Nat, f[1] <= left,
         f[3] = {} \/ cells[at][2] \in f[3]
  PROVE  FieldOutcome(Get(b, f), b, cells, at, left, f)
<1>1. Get(b, f) = Take(b, f)
  BY DEF Get, Reading
<1> DEFINE v == cells[at][2]
           got == IF f[2] = "reserved" THEN b.got ELSE With(b.got, f[2], v)
<1>2. Get(b, f) = [cells |-> cells, at |-> at + 1, left |-> left - f[1],
                   got |-> got, status |-> "ok"]
  <2> DEFINE G == b.got
  <2>1. b = [cells |-> cells, at |-> at, left |-> left, got |-> G, status |-> "ok"]
    BY DEF Reading
  <2> HIDE DEF G
  <2>2. /\ b.cells = cells /\ b.at = at /\ b.left = left /\ b.got = G
    BY <2>1
  <2>3. Get(b, f) = [b EXCEPT !.at = at + 1, !.left = left - f[1], !.got = got]
    BY <1>1, <2>2 DEF Take, got
  <2> QED
    BY <2>1, <2>3
<1> HIDE DEF got
<1>3. Get(b, f).got = got
  BY <1>2
<1>4. Reading(Get(b, f), cells, at + 1, left - f[1])
  <2>1. got = [n \in DOMAIN got |-> got[n]]
    BY DEF got, With, Reading
  <2> QED
    BY <1>2, <1>3, <2>1 DEF Reading
<1>5. ASSUME f[2] # "reserved"
      PROVE  Gained(Get(b, f), b, {f[2]}, [n \in {f[2]} |-> cells[at][2]])
  <2>1. Get(b, f).got = With(b.got, f[2], v)
    BY <1>3, <1>5 DEF got
  <2> QED
    BY <2>1 DEF Gained, With
<1> QED
  BY <1>3, <1>4, <1>5 DEF got, FieldOutcome

\* A field that is not there any more panics.
LEMMA GetPanics ==
  ASSUME NEW b, NEW cells, NEW at, NEW left \in Nat, NEW f,
         Reading(b, cells, at, left), f[1] \in Nat, f[1] > left
  PROVE  Get(b, f).status = "panic"
<1> DEFINE G == b.got
<1>1. b = [cells |-> cells, at |-> at, left |-> left, got |-> G, status |-> "ok"]
  BY DEF Reading
<1> HIDE DEF G
<1>2. b.left = left /\ b.status = "ok"
  BY <1>1
<1>3. Get(b, f) = [b EXCEPT !.status = "panic"]
  BY <1>2 DEF Get, Fail
<1> QED
  BY <1>1, <1>3

\* A layout the datagram carries is read, if it is there with all its bytes.
LEMMA FieldsRead ==
  ASSUME NEW b, NEW cells, NEW at \in Nat, NEW left \in Nat, NEW layout, NEW val,
         Reading(b, cells, at, left), Measured(layout), Carries(cells, at, layout, val)
  PROVE  /\ Size(layout) \in Nat
         /\ Size(layout) <= left =>
               /\ Reading(Fields(b, layout), cells, at + Len(layout), left - Size(layout))
               /\ Gained(Fields(b, layout), b, Names(layout), val)
         /\ Size(layout) > left => Fields(b, layout).status = "panic"
<1> DEFINE n == Len(layout)
<1>1. n \in Nat /\ \A i \in 1..n : layout[i][1] \in Nat
  BY DEF Measured
<1>2. PICK sum \in [0..n -> Nat] :
          /\ sum[0] = 0 /\ sum[n] = Size(layout)
          /\ \A i \in 1..n : sum[i] = sum[i - 1] + layout[i][1]
  BY SizeSteps
<1>3. PICK read : /\ read[0] = b /\ read[n] = Fields(b, layout)
                  /\ \A i \in 1..n : read[i] = Get(read[i - 1], layout[i])
  BY <1>1, FieldsSteps
<1> DEFINE NamesTo(k) == {layout[i][2] : i \in 1..k} \ {"reserved"}
           Good(k) == /\ Reading(read[k], cells, at + k, left - sum[k])
                      /\ Gained(read[k], b, NamesTo(k), val)
           S == {k \in Nat : k \in 0..n => IF sum[k] <= left THEN Good(k)
                                           ELSE read[k].status = "panic"}
<1>4. 0 \in S
  <2>1. Reading(read[0], cells, at + 0, left - sum[0])
    BY <1>2, <1>3
  <2>2. Gained(read[0], b, NamesTo(0), val)
    BY <1>3 DEF Gained
  <2> QED
    BY <1>2, <2>1, <2>2
<1>5. ASSUME NEW k \in Nat, k \in S PROVE k + 1 \in S
  <2> SUFFICES ASSUME k + 1 \in 1..n
               PROVE  IF sum[k + 1] <= left THEN Good(k + 1)
                      ELSE read[k + 1].status = "panic"
    OBVIOUS
  <2> DEFINE f == layout[k + 1]
  <2>1. /\ k \in 0..n /\ (k + 1) - 1 = k /\ f[1] \in Nat
        /\ sum[k] \in Nat /\ sum[k + 1] = sum[k] + f[1]
        /\ read[k + 1] = Get(read[k], f)
    <3>1. k \in 0..n /\ (k + 1) - 1 = k
      BY <1>1
    <3>2. f[1] \in Nat
      BY <1>1
    <3>3. sum[k] \in Nat
      BY <3>1
    <3>4. sum[k + 1] = sum[k] + f[1]
      BY <1>2, <3>1
    <3>5. read[k + 1] = Get(read[k], f)
      BY <1>3, <3>1
    <3> QED
      BY <3>1, <3>2, <3>3, <3>4, <3>5
  <2> HIDE DEF f
  <2>2. CASE sum[k] > left
    <3>1. read[k].status = "panic"
      BY <1>5, <2>1, <2>2
    <3>2. Get(read[k], f) = read[k]
      BY <3>1 DEF Get
    <3> QED
      BY <2>1, <2>2, <3>1, <3>2
  <2>3. CASE sum[k] <= left /\ sum[k + 1] > left
    <3>1. Reading(read[k], cells, at + k, left - sum[k])
      BY <1>5, <2>1, <2>3
    <3>2. left - sum[k] \in Nat /\ f[1] > left - sum[k]
      BY <2>1, <2>3
    <3>3. Get(read[k], f).status = "panic"
      BY <2>1, <3>1, <3>2, GetPanics
    <3> QED
      BY <2>1, <2>3, <3>3
  <2>4. CASE sum[k + 1] <= left
    <3>1. /\ left - sum[k] \in Nat /\ f[1] <= left - sum[k] /\ sum[k] <= left
          /\ at + k \in Nat /\ (at + k) + 1 = at + (k + 1)
          /\ (left - sum[k]) - f[1] = left - sum[k + 1]
          /\ at + (k + 1) - 1 = at + k
      BY <2>1, <2>4
    <3>2. Good(k)
      BY <1>5, <2>1, <3>1
    <3>3. /\ at + k \in DOMAIN cells /\ cells[at + k][1] = f[1]
          /\ f[3] = {} \/ cells[at + k][2] \in f[3]
          /\ f[2] = "reserved" \/ cells[at + k][2] = val[f[2]]
      <4> DEFINE j == at + (k + 1) - 1
      <4>1. /\ j \in DOMAIN cells /\ cells[j][1] = f[1]
            /\ f[3] = {} \/ cells[j][2] \in f[3]
            /\ f[2] = "reserved" \/ cells[j][2] = val[f[2]]
        BY DEF Carries, f
      <4> QED
        BY <3>1, <4>1
    <3>4. FieldOutcome(Get(read[k], f), read[k], cells, at + k, left - sum[k], f)
      <4>1. Reading(read[k], cells, at + k, left - sum[k])
        BY <3>2
      <4> DEFINE a == at + k  l == left - sum[k]
      <4>2. /\ a \in Nat /\ l \in Nat /\ Reading(read[k], cells, a, l)
            /\ a \in DOMAIN cells /\ cells[a][1] = f[1] /\ f[1] \in Nat /\ f[1] <= l
            /\ f[3] = {} \/ cells[a][2] \in f[3]
        BY <2>1, <3>1, <3>3, <4>1
      <4> HIDE DEF a, l
      <4>3. FieldOutcome(Get(read[k], f), read[k], cells, a, l, f)
        BY <4>2, GetReads
      <4> QED
        BY <4>3 DEF a, l
    <3>5. NamesTo(k + 1) = (NamesTo(k) \cup {f[2]}) \ {"reserved"}
      <4>1. 1..(k + 1) = (1..k) \cup {k + 1}
        OBVIOUS
      <4> QED
        BY <4>1 DEF f
    <3>6. Gained(read[k + 1], b, NamesTo(k + 1), val)
      <4>1. CASE f[2] = "reserved"
        <5>1. NamesTo(k + 1) = NamesTo(k)
          BY <3>5, <4>1
        <5> QED
          BY <2>1, <3>2, <3>4, <4>1, <5>1 DEF Gained, FieldOutcome
      <4>2. CASE f[2] # "reserved"
        <5>1. NamesTo(k + 1) = NamesTo(k) \cup {f[2]}
          BY <3>5, <4>2
        <5> HIDE DEF NamesTo
        <5> QED
          BY <2>1, <3>2, <3>3, <3>4, <4>2, <5>1 DEF Gained, FieldOutcome
      <4> QED
        BY <4>1, <4>2
    <3> QED
      BY <2>1, <2>4, <3>1, <3>4, <3>6 DEF FieldOutcome
  <2> QED
    BY <1>2, <2>1, <2>2, <2>3, <2>4
<1>6. n \in S
  <2> HIDE DEF S
  <2> QED
    BY <1>1, <1>4, <1>5, Induction
<1>7. NamesTo(n) = Names(layout)
  BY DEF Names
<1>8. IF sum[n] <= left THEN Good(n) ELSE read[n].status = "panic"
  BY <1>1, <1>6
<1> HIDE DEF NamesTo
<1> QED
  BY <1>1, <1>2, <1>3, <1>7, <1>8

-----------------------------------------------------------------------------
(* What a datagram holds                                                   *)

\* From the cell at on the datagram holds what was written.
Holds(cells, at, written) ==
    \A i \in 1..Len(written) :
        at + i - 1 \in DOMAIN cells /\ cells[at + i - 1] = written[i]

\* What was written begins with a layout's fields, with their values in val.
Matches(written, layout, val) ==
    /\ Len(layout) \in Nat /\ Len(layout) <= Len(written)
    /\ \A i \in 1..Len(layout) :
          /\ written[i][1] = layout[i][1]
          /\ layout[i][3] = {} \/ written[i][2] \in layout[i][3]
          /\ layout[i][2] = "reserved" \/ written[i][2] = val[layout[i][2]]

\* A datagram that holds two things holds the one and, behind it, the other.
LEMMA HoldsBoth ==
  ASSUME NEW cells, NEW at \in Nat, NEW S, NEW s \in Seq(S), NEW t \in Seq(S),
         Holds(cells, at, s \o t)
  PROVE  Holds(cells, at, s) /\ Holds(cells, at + Len(s), t)
<1>1. /\ Len(s) \in Nat /\ Len(t) \in Nat /\ Len(s \o t) = Len(s) + Len(t)
      /\ \A i \in 1..Len(s) : (s \o t)[i] = s[i]
      /\ \A i \in 1..Len(t) : (s \o t)[Len(s) + i] = t[i]
  OBVIOUS
<1>2. Holds(cells, at, s)
  BY <1>1 DEF Holds
<1>3. ASSUME NEW i \in 1..Len(t)
      PROVE  (at + Len(s)) + i - 1 \in DOMAIN cells /\ cells[(at + Len(s)) + i - 1] = t[i]
  <2>1. /\ Len(s) + i \in 1..Len(s \o t)
        /\ at + (Len(s) + i) - 1 = (at + Len(s)) + i - 1
    BY <1>1
  <2> QED
    BY <1>1, <2>1 DEF Holds
<1> QED
  BY <1>2, <1>3 DEF Holds

\* A layout that what was written matches can be read where that is held.
LEMMA MatchIsCarried ==
  ASSUME NEW cells, NEW at \in Nat, NEW written, Len(written) \in Nat, NEW layout, NEW val,
         Holds(cells, at, written), Matches(written, layout, val)
  PROVE  Carries(cells, at, layout, val)
BY DEF Holds, Matches, Carries

\* What matches a layout is as long as the layout.
LEMMA SizeOfMatch ==
  ASSUME NEW S, NEW written \in Seq(S), NEW layout, NEW val,
         Measured(layout), Matches(written, layout, val)
  PROVE  /\ Len(written) = Len(layout) =>
               Measured(written) /\ Size(written) = Size(layout)
         /\ Len(written) = Len(layout) + 1 /\ written[Len(written)][1] \in Nat =>
               /\ Measured(written)
               /\ Size(written) = Size(layout) + written[Len(written)][1]
<1> DEFINE n == Len(layout)  m == Len(written)
<1>1. /\ n \in Nat /\ m \in Nat /\ n <= m
      /\ \A i \in 1..n : written[i][1] = layout[i][1] /\ layout[i][1] \in Nat
  BY DEF Measured, Matches
<1>2. PICK f \in [0..n -> Nat] : /\ f[0] = 0 /\ f[n] = Size(layout)
                                /\ \A i \in 1..n : f[i] = f[i - 1] + layout[i][1]
  BY SizeSteps
<1>3. ASSUME m = n \/ (m = n + 1 /\ written[m][1] \in Nat)
      PROVE  /\ Measured(written)
             /\ Size(written) = IF m = n THEN f[n] ELSE f[n] + written[m][1]
  <2>1. Measured(written)
    BY <1>1, <1>3 DEF Measured
  <2>2. PICK g \in [0..m -> Nat] : /\ g[0] = 0 /\ g[m] = Size(written)
                                  /\ \A i \in 1..m : g[i] = g[i - 1] + written[i][1]
    BY <2>1, SizeSteps
  <2> DEFINE T == {k \in Nat : k \in 0..n => g[k] = f[k]}
  <2>3. 0 \in T
    BY <1>2, <2>2
  <2>4. ASSUME NEW k \in Nat, k \in T PROVE k + 1 \in T
    <3>1. CASE k + 1 \in 1..n
      <4>1. k \in 0..n /\ (k + 1) - 1 = k /\ k + 1 \in 1..m
        BY <1>1, <3>1
      <4>2. g[k + 1] = g[k] + written[k + 1][1] /\ f[k + 1] = f[k] + layout[k + 1][1]
        BY <1>2, <2>2, <3>1, <4>1
      <4> QED
        BY <1>1, <2>4, <3>1, <4>1, <4>2
    <3> QED
      BY <3>1
  <2>5. n \in T
    <3> HIDE DEF T
    <3> QED
      BY <1>1, <2>3, <2>4, Induction
  <2>6. g[n] = f[n]
    BY <1>1, <2>5
  <2>7. m = n + 1 => g[m] = g[n] + written[m][1]
    <3> SUFFICES ASSUME m = n + 1 PROVE g[m] = g[n] + written[m][1]
      OBVIOUS
    <3>1. m \in 1..m /\ m - 1 = n
      BY <1>1
    <3> QED
      BY <2>2, <3>1
  <2> QED
    BY <1>1, <1>3, <2>1, <2>2, <2>6, <2>7
<1> QED
  BY <1>1, <1>2, <1>3

\* The widths of the fields of each layout.
LEMMA LayoutSizes ==
  /\ Measured(HeaderLayout) /\ Size(HeaderLayout) = 24 /\ Len(HeaderLayout) = 7
  /\ Measured(VideoLayout) /\ Size(VideoLayout) = 32 /\ Len(VideoLayout) = 9
  /\ Measured(AudioLayout) /\ Size(AudioLayout) = 28 /\ Len(AudioLayout) = 10
  /\ Measured(TrackLayout) /\ Size(TrackLayout) = 24 /\ Len(TrackLayout) = 5
  /\ Measured(SyncLayout) /\ Size(SyncLayout) = 24 /\ Len(SyncLayout) = 5
  /\ Measured(RepairLayout) /\ Size(RepairLayout) = 16 /\ Len(RepairLayout) = 6
  /\ Measured(InitLayout) /\ Size(InitLayout) = 20 /\ Len(InitLayout) = 8
  /\ Measured(AckLayout) /\ Size(AckLayout) = 16 /\ Len(AckLayout) = 5
  /\ Measured(DmxLayout) /\ Size(DmxLayout) = 16 /\ Len(DmxLayout) = 7
  /\ Measured(BodyLayout) /\ Size(BodyLayout) = 38 /\ Len(BodyLayout) = 5
  /\ Measured(MarkerLayout) /\ Size(MarkerLayout) = 26 /\ Len(MarkerLayout) = 5
  /\ Measured(SkeletonLayout) /\ Size(SkeletonLayout) = 8 /\ Len(SkeletonLayout) = 2
  /\ Measured(MocapLayout) /\ Size(MocapLayout) = 36 /\ Len(MocapLayout) = 9
<1>1. Measured(HeaderLayout) /\ Size(HeaderLayout) = 24 /\ Len(HeaderLayout) = 7
  <2>1. Measured(HeaderLayout) /\ Len(HeaderLayout) = 7
    BY DEF Measured, HeaderLayout, U, Reserved
  <2>2. PICK sum \in [0..Len(HeaderLayout) -> Nat] :
            /\ sum[0] = 0 /\ sum[Len(HeaderLayout)] = Size(HeaderLayout)
            /\ \A i \in 1..Len(HeaderLayout) : sum[i] = sum[i - 1] + HeaderLayout[i][1]
    BY <2>1, SizeSteps
  <2>3. /\ sum[1] = 4 /\ sum[2] = 5 /\ sum[3] = 6 /\ sum[4] = 8 /\ sum[5] = 12
        /\ sum[6] = 16 /\ sum[7] = 24
    BY <2>1, <2>2 DEF HeaderLayout, U, Reserved
  <2> QED
    BY <2>1, <2>2, <2>3
<1>2. Measured(VideoLayout) /\ Size(VideoLayout) = 32 /\ Len(VideoLayout) = 9
  <2>1. Measured(VideoLayout) /\ Len(VideoLayout) = 9
    BY DEF Measured, VideoLayout, U, Reserved
  <2>2. PICK sum \in [0..Len(VideoLayout) -> Nat] :
            /\ sum[0] = 0 /\ sum[Len(VideoLayout)] = Size(VideoLayout)
            /\ \A i \in 1..Len(VideoLayout) : sum[i] = sum[i - 1] + VideoLayout[i][1]
    BY <2>1, SizeSteps
  <2>3. /\ sum[1] = 4 /\ sum[2] = 6 /\ sum[3] = 8 /\ sum[4] = 9 /\ sum[5] = 10
        /\ sum[6] = 12 /\ sum[7] = 20 /\ sum[8] = 28 /\ sum[9] = 32
    BY <2>1, <2>2 DEF VideoLayout, U, Reserved
  <2> QED
    BY <2>1, <2>2, <2>3
<1>3. Measured(AudioLayout) /\ Size(AudioLayout) = 28 /\ Len(AudioLayout) = 10
  <2>1. Measured(AudioLayout) /\ Len(AudioLayout) = 10
    BY DEF Measured, AudioLayout, U, Reserved
  <2>2. PICK sum \in [0..Len(AudioLayout) -> Nat] :
            /\ sum[0] = 0 /\ sum[Len(AudioLayout)] = Size(AudioLayout)
            /\ \A i \in 1..Len(AudioLayout) : sum[i] = sum[i - 1] + AudioLayout[i][1]
    BY <2>1, SizeSteps
  <2>3. /\ sum[1] = 2 /\ sum[2] = 6 /\ sum[3] = 7 /\ sum[4] = 8 /\ sum[5] = 9
        /\ sum[6] = 10 /\ sum[7] = 12 /\ sum[8] = 20 /\ sum[9] = 24 /\ sum[10] = 28
    BY <2>1, <2>2 DEF AudioLayout, U, Reserved
  <2> QED
    BY <2>1, <2>2, <2>3
<1>4. Measured(TrackLayout) /\ Size(TrackLayout) = 24 /\ Len(TrackLayout) = 5
  <2>1. Measured(TrackLayout) /\ Len(TrackLayout) = 5
    BY DEF Measured, TrackLayout, U, Reserved
  <2>2. PICK sum \in [0..Len(TrackLayout) -> Nat] :
            /\ sum[0] = 0 /\ sum[Len(TrackLayout)] = Size(TrackLayout)
            /\ \A i \in 1..Len(TrackLayout) : sum[i] = sum[i - 1] + TrackLayout[i][1]
    BY <2>1, SizeSteps
  <2>3. /\ sum[1] = 2 /\ sum[2] = 4 /\ sum[3] = 8 /\ sum[4] = 16 /\ sum[5] = 24
    BY <2>1, <2>2 DEF TrackLayout, U, Reserved
  <2> QED
    BY <2>1, <2>2, <2>3
<1>5. Measured(SyncLayout) /\ Size(SyncLayout) = 24 /\ Len(SyncLayout) = 5
  <2>1. Measured(SyncLayout) /\ Len(SyncLayout) = 5
    BY DEF Measured, SyncLayout, U, Reserved
  <2>2. PICK sum \in [0..Len(SyncLayout) -> Nat] :
            /\ sum[0] = 0 /\ sum[Len(SyncLayout)] = Size(SyncLayout)
            /\ \A i \in 1..Len(SyncLayout) : sum[i] = sum[i - 1] + SyncLayout[i][1]
    BY <2>1, SizeSteps
  <2>3. /\ sum[1] = 8 /\ sum[2] = 16 /\ sum[3] = 18 /\ sum[4] = 20 /\ sum[5] = 24
    BY <2>1, <2>2 DEF SyncLayout, U, Reserved
  <2> QED
    BY <2>1, <2>2, <2>3
<1>6. Measured(RepairLayout) /\ Size(RepairLayout) = 16 /\ Len(RepairLayout) = 6
  <2>1. Measured(RepairLayout) /\ Len(RepairLayout) = 6
    BY DEF Measured, RepairLayout, U, Reserved
  <2>2. PICK sum \in [0..Len(RepairLayout) -> Nat] :
            /\ sum[0] = 0 /\ sum[Len(RepairLayout)] = Size(RepairLayout)
            /\ \A i \in 1..Len(RepairLayout) : sum[i] = sum[i - 1] + RepairLayout[i][1]
    BY <2>1, SizeSteps
  <2>3. /\ sum[1] = 4 /\ sum[2] = 6 /\ sum[3] = 8 /\ sum[4] = 10 /\ sum[5] = 12
        /\ sum[6] = 16
    BY <2>1, <2>2 DEF RepairLayout, U, Reserved
  <2> QED
    BY <2>1, <2>2, <2>3
<1>7. Measured(InitLayout) /\ Size(InitLayout) = 20 /\ Len(InitLayout) = 8
  <2>1. Measured(InitLayout) /\ Len(InitLayout) = 8
    BY DEF Measured, InitLayout, U, Reserved
  <2>2. PICK sum \in [0..Len(InitLayout) -> Nat] :
            /\ sum[0] = 0 /\ sum[Len(InitLayout)] = Size(InitLayout)
            /\ \A i \in 1..Len(InitLayout) : sum[i] = sum[i - 1] + InitLayout[i][1]
    BY <2>1, SizeSteps
  <2>3. /\ sum[1] = 4 /\ sum[2] = 6 /\ sum[3] = 7 /\ sum[4] = 8 /\ sum[5] = 10
        /\ sum[6] = 12 /\ sum[7] = 16 /\ sum[8] = 20
    BY <2>1, <2>2 DEF InitLayout, U, Reserved
  <2> QED
    BY <2>1, <2>2, <2>3
<1>8. Measured(AckLayout) /\ Size(AckLayout) = 16 /\ Len(AckLayout) = 5
  <2>1. Measured(AckLayout) /\ Len(AckLayout) = 5
    BY DEF Measured, AckLayout, U, Reserved
  <2>2. PICK sum \in [0..Len(AckLayout) -> Nat] :
            /\ sum[0] = 0 /\ sum[Len(AckLayout)] = Size(AckLayout)
            /\ \A i \in 1..Len(AckLayout) : sum[i] = sum[i - 1] + AckLayout[i][1]
    BY <2>1, SizeSteps
  <2>3. /\ sum[1] = 4 /\ sum[2] = 5 /\ sum[3] = 6 /\ sum[4] = 8 /\ sum[5] = 16
    BY <2>1, <2>2 DEF AckLayout, U, Reserved
  <2> QED
    BY <2>1, <2>2, <2>3
<1>9. Measured(DmxLayout) /\ Size(DmxLayout) = 16 /\ Len(DmxLayout) = 7
  <2>1. Measured(DmxLayout) /\ Len(DmxLayout) = 7
    BY DEF Measured, DmxLayout, U, Reserved
  <2>2. PICK sum \in [0..Len(DmxLayout) -> Nat] :
            /\ sum[0] = 0 /\ sum[Len(DmxLayout)] = Size(DmxLayout)
            /\ \A i \in 1..Len(DmxLayout) : sum[i] = sum[i - 1] + DmxLayout[i][1]
    BY <2>1, SizeSteps
  <2>3. /\ sum[1] = 2 /\ sum[2] = 3 /\ sum[3] = 4 /\ sum[4] = 5 /\ sum[5] = 6
        /\ sum[6] = 8 /\ sum[7] = 16
    BY <2>1, <2>2 DEF DmxLayout, U, Reserved
  <2> QED
    BY <2>1, <2>2, <2>3
<1>10. Measured(BodyLayout) /\ Size(BodyLayout) = 38 /\ Len(BodyLayout) = 5
  <2>1. Measured(BodyLayout) /\ Len(BodyLayout) = 5
    BY DEF Measured, BodyLayout, U, Reserved
  <2>2. PICK sum \in [0..Len(BodyLayout) -> Nat] :
            /\ sum[0] = 0 /\ sum[Len(BodyLayout)] = Size(BodyLayout)
            /\ \A i \in 1..Len(BodyLayout) : sum[i] = sum[i - 1] + BodyLayout[i][1]
    BY <2>1, SizeSteps
  <2>3. /\ sum[1] = 4 /\ sum[2] = 16 /\ sum[3] = 32 /\ sum[4] = 36 /\ sum[5] = 38
    BY <2>1, <2>2 DEF BodyLayout, U, Reserved
  <2> QED
    BY <2>1, <2>2, <2>3
<1>11. Measured(MarkerLayout) /\ Size(MarkerLayout) = 26 /\ Len(MarkerLayout) = 5
  <2>1. Measured(MarkerLayout) /\ Len(MarkerLayout) = 5
    BY DEF Measured, MarkerLayout, U, Reserved
  <2>2. PICK sum \in [0..Len(MarkerLayout) -> Nat] :
            /\ sum[0] = 0 /\ sum[Len(MarkerLayout)] = Size(MarkerLayout)
            /\ \A i \in 1..Len(MarkerLayout) : sum[i] = sum[i - 1] + MarkerLayout[i][1]
    BY <2>1, SizeSteps
  <2>3. /\ sum[1] = 4 /\ sum[2] = 16 /\ sum[3] = 20 /\ sum[4] = 22 /\ sum[5] = 26
    BY <2>1, <2>2 DEF MarkerLayout, U, Reserved
  <2> QED
    BY <2>1, <2>2, <2>3
<1>12. Measured(SkeletonLayout) /\ Size(SkeletonLayout) = 8 /\ Len(SkeletonLayout) = 2
  <2>1. Measured(SkeletonLayout) /\ Len(SkeletonLayout) = 2
    BY DEF Measured, SkeletonLayout, U, Reserved
  <2>2. PICK sum \in [0..Len(SkeletonLayout) -> Nat] :
            /\ sum[0] = 0 /\ sum[Len(SkeletonLayout)] = Size(SkeletonLayout)
            /\ \A i \in 1..Len(SkeletonLayout) : sum[i] = sum[i - 1] + SkeletonLayout[i][1]
    BY <2>1, SizeSteps
  <2>3. /\ sum[1] = 4 /\ sum[2] = 8
    BY <2>1, <2>2 DEF SkeletonLayout, U, Reserved
  <2> QED
    BY <2>1, <2>2, <2>3
<1>13. Measured(MocapLayout) /\ Size(MocapLayout) = 36 /\ Len(MocapLayout) = 9
  <2>1. Measured(MocapLayout) /\ Len(MocapLayout) = 9
    BY DEF Measured, MocapLayout, U, Reserved
  <2>2. PICK sum \in [0..Len(MocapLayout) -> Nat] :
            /\ sum[0] = 0 /\ sum[Len(MocapLayout)] = Size(MocapLayout)
            /\ \A i \in 1..Len(MocapLayout) : sum[i] = sum[i - 1] + MocapLayout[i][1]
    BY <2>1, SizeSteps
  <2>3. /\ sum[1] = 8 /\ sum[2] = 12 /\ sum[3] = 16 /\ sum[4] = 20 /\ sum[5] = 28
        /\ sum[6] = 30 /\ sum[7] = 32 /\ sum[8] = 34 /\ sum[9] = 36
    BY <2>1, <2>2 DEF MocapLayout, U, Reserved
  <2> QED
    BY <2>1, <2>2, <2>3
<1> QED
  BY <1>1, <1>2, <1>3, <1>4, <1>5, <1>6, <1>7, <1>8, <1>9, <1>10, <1>11, <1>12, <1>13

-----------------------------------------------------------------------------
(* Lists: what is written record after record                              *)

\* g puts the first k of the sequences ss one after the other.
IsFlat(g, ss, k) == g = [i \in 1..k |-> IF i = 1 THEN ss[i] ELSE g[i - 1] \o ss[i]]

\* FlattenSeq appends the records, one after the other.
LEMMA FlattenSteps ==
  ASSUME NEW C, NEW ss \in Seq(Seq(C))
  PROVE  \E flat \in [0..Len(ss) -> Seq(C)] :
            /\ flat[0] = <<>> /\ flat[Len(ss)] = FlattenSeq(ss)
            /\ \A i \in 1..Len(ss) : flat[i] = flat[i - 1] \o ss[i]
<1> DEFINE n == Len(ss)
           S == {k \in Nat : \E g : IsFlat(g, ss, k)}
<1>1. n \in Nat /\ \A i \in 1..n : ss[i] \in Seq(C)
  OBVIOUS
<1> /\ \A q \in Seq(C) : <<>> \o q = q
    /\ \A q, t \in Seq(C) : q \o t \in Seq(C)
    /\ <<>> \in Seq(C)
  OBVIOUS
<1>2. 0 \in S
  <2> DEFINE h == [i \in 1..0 |-> ss]
  <2>1. IsFlat(h, ss, 0)
    BY DEF IsFlat
  <2> QED
    BY <2>1
<1>3. ASSUME NEW k \in Nat, k \in S PROVE k + 1 \in S
  <2>1. PICK g : IsFlat(g, ss, k)
    BY <1>3
  <2> DEFINE h == [i \in 1..(k + 1) |->
                      IF i = k + 1 THEN (IF i = 1 THEN ss[i] ELSE g[k] \o ss[i]) ELSE g[i]]
  <2>2. IsFlat(h, ss, k + 1)
    <3>1. ASSUME NEW i \in 1..(k + 1)
          PROVE  h[i] = IF i = 1 THEN ss[i] ELSE h[i - 1] \o ss[i]
      <4>1. CASE i = k + 1 /\ i # 1
        <5>1. i - 1 = k /\ k \in 1..(k + 1) /\ k # k + 1
          BY <4>1
        <5>2. h[i] = g[k] \o ss[i] /\ h[k] = g[k]
          BY <4>1, <5>1
        <5> QED
          BY <4>1, <5>1, <5>2
      <4>2. CASE i = k + 1 /\ i = 1
        BY <4>2
      <4>3. CASE i # k + 1
        <5>1. i \in 1..k /\ (i # 1 => i - 1 \in 1..k /\ i - 1 # k + 1)
          BY <4>3
        <5>2. g[i] = IF i = 1 THEN ss[i] ELSE g[i - 1] \o ss[i]
          BY <2>1, <5>1 DEF IsFlat
        <5> QED
          BY <4>3, <5>1, <5>2
      <4> QED
        BY <4>1, <4>2, <4>3
    <3>2. h = [i \in 1..(k + 1) |-> h[i]]
      OBVIOUS
    <3> HIDE DEF h
    <3> QED
      BY <3>1, <3>2 DEF IsFlat
  <2> HIDE DEF h
  <2> QED
    BY <2>2
<1>4. n \in S
  <2> HIDE DEF S
  <2> QED BY <1>1, <1>2, <1>3, Induction
<1> DEFINE all == CHOOSE g : IsFlat(g, ss, n)
<1>5. IsFlat(all, ss, n)
  BY <1>4
<1>6. n # 0 => all[n] = FlattenSeq(ss)
  BY DEF FlattenSeq, IsFlat
<1>7. n = 0 => FlattenSeq(ss) = <<>>
  BY DEF FlattenSeq
<1> HIDE DEF all
<1> DEFINE flat == [i \in 0..n |-> IF i = 0 THEN <<>> ELSE all[i]]
<1>8. flat[0] = <<>> /\ flat[n] = FlattenSeq(ss)
  BY <1>1, <1>6, <1>7
<1>9. ASSUME NEW i \in 1..n PROVE flat[i] = flat[i - 1] \o ss[i]
  <2>1. CASE i = 1
    <3>1. flat[i] = ss[i] /\ flat[i - 1] = <<>>
      BY <1>1, <1>5, <2>1 DEF IsFlat
    <3> QED
      BY <1>1, <3>1
  <2>2. CASE i # 1
    <3>1. i - 1 \in 1..n /\ i - 1 # 0 /\ i # 0
      BY <1>1, <2>2
    <3>2. all[i] = all[i - 1] \o ss[i]
      BY <1>1, <1>5, <2>2 DEF IsFlat
    <3>3. flat[i] = all[i] /\ flat[i - 1] = all[i - 1]
      BY <1>1, <3>1
    <3> QED
      BY <3>2, <3>3
  <2> QED
    BY <2>1, <2>2
<1> DEFINE T == {k \in Nat : k \in 0..n => flat[k] \in Seq(C)}
<1>10. flat = [i \in 0..n |-> flat[i]]
  OBVIOUS
<1> HIDE DEF flat
<1>11. 0 \in T
  BY <1>8
<1>12. ASSUME NEW k \in Nat, k \in T PROVE k + 1 \in T
  <2>1. CASE k + 1 \in 1..n
    <3>1. k \in 0..n /\ (k + 1) - 1 = k
      BY <1>1, <2>1
    <3>2. flat[k + 1] = flat[k] \o ss[k + 1]
      BY <1>9, <2>1, <3>1
    <3> QED
      <4>1. flat[k] \in Seq(C) /\ ss[k + 1] \in Seq(C)
        BY <1>1, <1>12, <2>1, <3>1
      <4>2. QED
        <5> DEFINE q == flat[k]  t == ss[k + 1]
        <5>1. q \o t \in Seq(C)
          BY <4>1
        <5> HIDE DEF q, t
        <5>2. flat[k + 1] \in Seq(C)
          BY <3>2, <5>1 DEF q, t
        <5> QED
          BY <5>2
  <2> QED
    BY <1>1, <2>1
<1>13. \A i \in 0..n : flat[i] \in Seq(C)
  <2>1. Nat \subseteq T
    <3> HIDE DEF T
    <3> QED BY <1>11, <1>12, Induction
  <2> QED
    BY <1>1, <2>1
<1> QED
  BY <1>8, <1>9, <1>10, <1>13

\* Where each record of a list begins.
LEMMA HoldsEach ==
  ASSUME NEW C, NEW ss \in Seq(Seq(C)), NEW cells, NEW at \in Nat,
         Holds(cells, at, FlattenSeq(ss))
  PROVE  /\ Len(FlattenSeq(ss)) \in Nat
         /\ \E pos \in [1..Len(ss) + 1 -> Nat] :
               /\ pos[1] = at /\ pos[Len(ss) + 1] = at + Len(FlattenSeq(ss))
               /\ \A i \in 1..Len(ss) : /\ pos[i + 1] = pos[i] + Len(ss[i])
                                        /\ Holds(cells, pos[i], ss[i])
<1> DEFINE n == Len(ss)
<1>1. n \in Nat /\ \A i \in 1..n : ss[i] \in Seq(C)
  OBVIOUS
<1>2. PICK flat \in [0..n -> Seq(C)] :
          /\ flat[0] = <<>> /\ flat[n] = FlattenSeq(ss)
          /\ \A i \in 1..n : flat[i] = flat[i - 1] \o ss[i]
  BY FlattenSteps
<1> DEFINE T == {k \in Nat : k \in 0..n => Holds(cells, at, flat[n - k])}
           pos == [i \in 1..(n + 1) |-> at + Len(flat[i - 1])]
<1>3. 0 \in T
  BY <1>1, <1>2
<1>4. ASSUME NEW k \in Nat, k \in T PROVE k + 1 \in T
  <2>1. CASE k + 1 \in 0..n
    <3> DEFINE i == n - k
    <3>1. i \in 1..n /\ i - 1 = n - (k + 1) /\ i - 1 \in 0..n /\ k \in 0..n
      BY <1>1, <2>1
    <3>2. Holds(cells, at, flat[i])
      BY <1>4, <3>1
    <3>3. flat[i] = flat[i - 1] \o ss[i] /\ flat[i - 1] \in Seq(C) /\ ss[i] \in Seq(C)
      BY <1>1, <1>2, <3>1
    <3>4. Holds(cells, at, flat[i - 1])
      <4> HIDE DEF i
      <4> QED
        BY <3>2, <3>3, HoldsBoth
    <3> QED
      BY <3>1, <3>4
  <2> QED
    BY <1>1, <2>1
<1>5. \A j \in 0..n : Holds(cells, at, flat[j])
  <2>1. Nat \subseteq T
    <3> HIDE DEF T
    <3> QED BY <1>3, <1>4, Induction
  <2> SUFFICES ASSUME NEW j \in 0..n PROVE Holds(cells, at, flat[j])
    OBVIOUS
  <2>2. n - j \in T /\ n - j \in 0..n /\ n - (n - j) = j
    BY <1>1, <2>1
  <2> QED
    BY <2>2
<1>6. \A j \in 0..n : Len(flat[j]) \in Nat
  BY <1>2
<1>7. pos \in [1..(n + 1) -> Nat] /\ pos[1] = at /\ pos[n + 1] = at + Len(flat[n])
  BY <1>1, <1>2, <1>6
<1>8. ASSUME NEW i \in 1..n
      PROVE  pos[i + 1] = pos[i] + Len(ss[i]) /\ Holds(cells, pos[i], ss[i])
  <2>1. /\ i \in 0..n /\ i - 1 \in 0..n /\ i + 1 \in 1..(n + 1) /\ i \in 1..(n + 1)
        /\ (i + 1) - 1 = i
    BY <1>1
  <2>2. /\ flat[i] = flat[i - 1] \o ss[i] /\ flat[i - 1] \in Seq(C) /\ ss[i] \in Seq(C)
        /\ Holds(cells, at, flat[i])
    BY <1>1, <1>2, <1>5, <2>1
  <2>3. Holds(cells, at + Len(flat[i - 1]), ss[i])
    BY <2>2, HoldsBoth
  <2>4. Len(flat[i]) = Len(flat[i - 1]) + Len(ss[i])
    BY <2>2
  <2>5. pos[i + 1] = at + Len(flat[i]) /\ pos[i] = at + Len(flat[i - 1])
    BY <2>1
  <2>6. Len(ss[i]) \in Nat /\ Len(flat[i - 1]) \in Nat
    BY <2>2
  <2> HIDE DEF pos
  <2>7. at + (Len(flat[i - 1]) + Len(ss[i])) = (at + Len(flat[i - 1])) + Len(ss[i])
    <3> DEFINE a == Len(flat[i - 1])  c == Len(ss[i])
    <3>1. a \in Nat /\ c \in Nat
      BY <2>6
    <3> HIDE DEF a, c
    <3>2. at + (a + c) = (at + a) + c
      BY <3>1
    <3> QED
      BY <3>2 DEF a, c
  <2>8. pos[i + 1] = pos[i] + Len(ss[i])
    BY <2>4, <2>5, <2>7
  <2> QED
    BY <2>3, <2>5, <2>8
<1> HIDE DEF pos
<1> QED
  BY <1>1, <1>2, <1>6, <1>7, <1>8

\* The bytes of a list.
LEMMA SizeOfEach ==
  ASSUME NEW C, NEW ss \in Seq(Seq(C)), \A i \in 1..Len(ss) : Measured(ss[i])
  PROVE  /\ Measured(FlattenSeq(ss)) /\ FlattenSeq(ss) \in Seq(C)
         /\ \E tot \in [0..Len(ss) -> Nat] :
               /\ tot[0] = 0 /\ tot[Len(ss)] = Size(FlattenSeq(ss))
               /\ \A i \in 1..Len(ss) : tot[i] = tot[i - 1] + Size(ss[i])
<1> DEFINE n == Len(ss)
<1>1. n \in Nat /\ \A i \in 1..n : ss[i] \in Seq(C)
  OBVIOUS
<1>2. PICK flat \in [0..n -> Seq(C)] :
          /\ flat[0] = <<>> /\ flat[n] = FlattenSeq(ss)
          /\ \A i \in 1..n : flat[i] = flat[i - 1] \o ss[i]
  BY FlattenSteps
<1>3. ASSUME NEW s, Measured(s) PROVE Size(s) \in Nat
  BY <1>3, SizeIsNat
<1>4. Measured(flat[0]) /\ Size(flat[0]) = 0
  <2>1. Measured(<<>>)
    BY DEF Measured
  <2>2. PICK sum \in [0..Len(<<>>) -> Nat] : sum[0] = 0 /\ sum[Len(<<>>)] = Size(<<>>)
    BY <2>1, SizeSteps
  <2> QED
    BY <1>2, <2>1, <2>2
<1> DEFINE T == {k \in Nat : k \in 0..n => Measured(flat[k])}
           tot == [i \in 0..n |-> Size(flat[i])]
<1>5. 0 \in T
  BY <1>4
<1>6. ASSUME NEW i \in 1..n, Measured(flat[i - 1])
      PROVE  Measured(flat[i]) /\ Size(flat[i]) = Size(flat[i - 1]) + Size(ss[i])
  <2>1. /\ flat[i - 1] \in Seq(C) /\ ss[i] \in Seq(C) /\ Measured(ss[i])
        /\ flat[i] = flat[i - 1] \o ss[i]
    <3>1. i - 1 \in 0..n /\ i \in 1..Len(ss)
      BY <1>1
    <3> QED
      BY <1>1, <1>2, <3>1
  <2> QED
    BY <1>6, <2>1, SizeOfBoth
<1>7. ASSUME NEW k \in Nat, k \in T PROVE k + 1 \in T
  <2>1. CASE k + 1 \in 1..n
    <3>1. k \in 0..n /\ (k + 1) - 1 = k
      BY <1>1, <2>1
    <3>2. Measured(flat[(k + 1) - 1])
      BY <1>7, <3>1
    <3> QED
      <4> DEFINE i == k + 1
      <4>1. i \in 1..n /\ Measured(flat[i - 1])
        BY <2>1, <3>2
      <4> HIDE DEF i
      <4>2. Measured(flat[i])
        BY <1>6, <4>1
      <4> QED
        BY <4>2 DEF i
  <2> QED
    BY <1>1, <2>1
<1>8. \A i \in 0..n : Measured(flat[i])
  <2>1. Nat \subseteq T
    <3> HIDE DEF T
    <3> QED BY <1>5, <1>7, Induction
  <2> QED
    BY <1>1, <2>1
<1>9. \A i \in 1..n : i \in 0..n /\ i - 1 \in 0..n
  BY <1>1
<1>10. tot \in [0..n -> Nat] /\ tot[0] = 0 /\ tot[n] = Size(flat[n])
  BY <1>1, <1>3, <1>4, <1>8
<1>11. \A i \in 1..n : tot[i] = tot[i - 1] + Size(ss[i])
  BY <1>6, <1>8, <1>9
<1> HIDE DEF tot
<1>12. n \in 0..n /\ flat[n] \in Seq(C) /\ flat[n] = FlattenSeq(ss)
  BY <1>1, <1>2
<1> QED
  BY <1>8, <1>10, <1>11, <1>12

-----------------------------------------------------------------------------
(* Reading lists                                                           *)

\* What was read may be replaced by something else that was read.
LEMMA GotReplaced ==
  ASSUME NEW b, NEW cells, NEW at, NEW left, NEW got,
         Reading(b, cells, at, left), got = [n \in DOMAIN got |-> got[n]]
  PROVE  /\ Reading([b EXCEPT !.got = got], cells, at, left)
         /\ [b EXCEPT !.got = got].got = got
<1> DEFINE G == b.got
<1>1. b = [cells |-> cells, at |-> at, left |-> left, got |-> G, status |-> "ok"]
  BY DEF Reading
<1> HIDE DEF G
<1>2. [b EXCEPT !.got = got] =
          [cells |-> cells, at |-> at, left |-> left, got |-> got, status |-> "ok"]
  BY <1>1
<1>3. [b EXCEPT !.got = got].got = got
  BY <1>2
<1> QED
  BY <1>2, <1>3 DEF Reading

\* A list that is begun, ...
LEMMA EmptyReads ==
  ASSUME NEW b, NEW cells, NEW at, NEW left, NEW name, Reading(b, cells, at, left)
  PROVE  /\ Reading(Empty(b, name), cells, at, left)
         /\ Empty(b, name).got = With(b.got, name, <<>>)
<1> DEFINE got == With(b.got, name, <<>>)
<1>1. got = [n \in DOMAIN got |-> got[n]]
  BY DEF With
<1>2. Empty(b, name) = [b EXCEPT !.got = got]
  BY DEF Empty
<1> HIDE DEF got
<1>3. Reading([b EXCEPT !.got = got], cells, at, left) /\ [b EXCEPT !.got = got].got = got
  BY <1>1, GotReplaced
<1> QED
  BY <1>2, <1>3 DEF got

\* ... a record that is begun, ...
LEMMA FreshReads ==
  ASSUME NEW b, NEW cells, NEW at, NEW left, Reading(b, cells, at, left)
  PROVE  Reading(Fresh(b), cells, at, left) /\ Fresh(b).got = <<>>
<1>1. <<>> = [n \in DOMAIN <<>> |-> <<>>[n]]
  OBVIOUS
<1>2. Reading([b EXCEPT !.got = <<>>], cells, at, left) /\ [b EXCEPT !.got = <<>>].got = <<>>
  BY <1>1, GotReplaced
<1> QED
  BY <1>2 DEF Fresh

\* ... and a record that is added change only what was read.
LEMMA AddedReads ==
  ASSUME NEW b, NEW cells, NEW at, NEW left, NEW name, NEW d, Reading(d, cells, at, left)
  PROVE  /\ Reading(Added(b, name, d), cells, at, left)
         /\ Added(b, name, d).got = Longer(b.got, name, d.got)
<1> DEFINE got == Longer(b.got, name, d.got)
<1>1. got = [n \in DOMAIN got |-> got[n]]
  BY DEF Longer, With
<1>2. Added(b, name, d) = [d EXCEPT !.got = got]
  BY DEF Added
<1> HIDE DEF got
<1>3. Reading([d EXCEPT !.got = got], cells, at, left) /\ [d EXCEPT !.got = got].got = got
  BY <1>1, GotReplaced
<1> QED
  BY <1>2, <1>3 DEF got

\* got, and in the field name the first k of the values vals.
Listing(got, name, k, vals) == With(got, name, [i \in 1..k |-> vals[i]])

\* The list so far, with one record more.
LEMMA OneMore ==
  ASSUME NEW got, NEW name, NEW k \in Nat, NEW vals
  PROVE  Longer(Listing(got, name, k, vals), name, vals[k + 1]) =
         Listing(got, name, k + 1, vals)
<1> DEFINE list == [i \in 1..k |-> vals[i]]
           so == With(got, name, list)
           more == [i \in 1..(k + 1) |-> vals[i]]
<1>1. so[name] = list /\ DOMAIN so = DOMAIN got \cup {name}
      /\ \A n \in DOMAIN got : n # name => so[n] = got[n]
  BY DEF With
<1>2. Append(list, vals[k + 1]) = more
  <2>1. list \in Seq({vals[i] : i \in 1..k}) /\ Len(list) = k
    OBVIOUS
  <2>2. Append(list, vals[k + 1]) =
            [i \in 1..(k + 1) |-> IF i = k + 1 THEN vals[k + 1] ELSE list[i]]
    BY <2>1
  <2> QED
    BY <2>2
<1> HIDE DEF so, more
<1>3. With(so, name, more) = With(got, name, more)
  BY <1>1 DEF With
<1> QED
  BY <1>1, <1>2, <1>3 DEF so, more, Longer, Listing

\* g reads the first k records of a list.
IsListed(g, b, name, layout, k) ==
    g = [i \in 0..k |-> IF i = 0 THEN Empty(b, name) ELSE NextRecord(g[i - 1], name, layout)]

\* all[i] is the buffer after i records.
AllListed(all, b, name, n, layout) ==
    /\ all[0] = Empty(b, name) /\ all[n] = Records(b, name, n, layout)
    /\ \A i \in 1..n : all[i] = NextRecord(all[i - 1], name, layout)

\* Records reads the records of a list, one after the other.
LEMMA RecordsSteps ==
  ASSUME NEW b, NEW name, NEW n \in Nat, NEW layout, b.status = "ok"
  PROVE  \E all : AllListed(all, b, name, n, layout)
<1> DEFINE S == {k \in Nat : \E g : IsListed(g, b, name, layout, k)}
<1>1. 0 \in S
  <2> DEFINE h == [i \in 0..0 |-> Empty(b, name)]
  <2>1. IsListed(h, b, name, layout, 0)
    BY DEF IsListed
  <2> QED
    BY <2>1
<1>2. ASSUME NEW k \in Nat, k \in S PROVE k + 1 \in S
  <2>1. PICK g : IsListed(g, b, name, layout, k)
    BY <1>2
  <2> DEFINE h == [i \in 0..(k + 1) |->
                      IF i = k + 1 THEN NextRecord(g[k], name, layout) ELSE g[i]]
  <2>2. IsListed(h, b, name, layout, k + 1)
    BY <2>1 DEF IsListed
  <2> HIDE DEF h
  <2> QED
    BY <2>2
<1>3. n \in S
  <2> HIDE DEF S
  <2> QED BY <1>1, <1>2, Induction
<1> DEFINE all == CHOOSE g : IsListed(g, b, name, layout, n)
<1>4. IsListed(all, b, name, layout, n)
  BY <1>3
<1>5. all[n] = Records(b, name, n, layout)
  BY DEF Records, IsListed
<1> HIDE DEF all
<1>6. AllListed(all, b, name, n, layout)
  BY <1>4, <1>5 DEF IsListed, AllListed
<1> QED
  BY <1>6

\* The n records of a list lie one after the other, record i from the cell pos[i]
\* on and tot[i - 1] bytes in, and none beyond the bytes left.
Laid(cells, left, layout, n, vals, pos, tot) ==
    /\ pos \in [1..(n + 1) -> Nat] /\ tot \in [0..n -> Nat]
    /\ tot[0] = 0 /\ \A i \in 0..n : tot[i] <= left
    /\ \A i \in 1..n : /\ pos[i + 1] = pos[i] + Len(layout)
                       /\ tot[i] = tot[i - 1] + Size(layout)
                       /\ Carries(cells, pos[i], layout, vals[i])
                       /\ IsRecord(vals[i], Names(layout))

\* A list the datagram carries is read, if it is there with all its bytes.
LEMMA RecordsRead ==
  ASSUME NEW b, NEW cells, NEW left \in Nat, NEW name, NEW layout, NEW n \in Nat,
         NEW vals, NEW pos, NEW tot, Measured(layout),
         Reading(b, cells, pos[1], left), Laid(cells, left, layout, n, vals, pos, tot)
  PROVE  /\ Reading(Records(b, name, n, layout), cells, pos[n + 1], left - tot[n])
         /\ Records(b, name, n, layout).got = Listing(b.got, name, n, vals)
<1>1. b.status = "ok"
  BY DEF Reading
<1>2. PICK all : AllListed(all, b, name, n, layout)
  BY <1>1, RecordsSteps
<1> DEFINE Good(k) == /\ Reading(all[k], cells, pos[k + 1], left - tot[k])
                      /\ all[k].got = Listing(b.got, name, k, vals)
           S == {k \in Nat : k \in 0..n => Good(k)}
<1>3. 0 \in S
  <2>1. /\ Reading(all[0], cells, pos[1], left)
        /\ all[0].got = With(b.got, name, <<>>)
    BY <1>2, EmptyReads DEF AllListed
  <2>2. [i \in 1..0 |-> vals[i]] = <<>> /\ left - tot[0] = left /\ 0 + 1 = 1
    BY DEF Laid
  <2> QED
    BY <2>1, <2>2 DEF Listing
<1>4. ASSUME NEW k \in Nat, k \in S PROVE k + 1 \in S
  <2> SUFFICES ASSUME k + 1 \in 1..n PROVE Good(k + 1)
    OBVIOUS
  <2> DEFINE c == all[k]  d == Fields(Fresh(c), layout)  v == vals[k + 1]
             at == pos[k + 1]  l == left - tot[k]
  <2>1. /\ k \in 0..n /\ (k + 1) - 1 = k /\ k + 1 \in 1..(n + 1) /\ k + 1 \in 0..n
        /\ (k + 1) + 1 \in 1..(n + 1)
    OBVIOUS
  <2>2. /\ at \in Nat /\ pos[(k + 1) + 1] = at + Len(layout)
        /\ tot[k + 1] = tot[k] + Size(layout)
        /\ Carries(cells, at, layout, v) /\ IsRecord(v, Names(layout))
        /\ all[k + 1] = NextRecord(c, name, layout)
    BY <1>2, <2>1 DEF AllListed, Laid
  <2>3. Size(layout) \in Nat
    BY SizeIsNat
  <2>4. /\ l \in Nat /\ Size(layout) <= l /\ l - Size(layout) = left - tot[k + 1]
    <3> DEFINE x == tot[k]  y == tot[k + 1]  z == Size(layout)
    <3>1. x \in Nat /\ y \in Nat /\ x <= left /\ y <= left /\ y = x + z /\ z \in Nat
      BY <2>1, <2>2, <2>3 DEF Laid
    <3> HIDE DEF x, y, z
    <3>2. left - x \in Nat /\ z <= left - x /\ (left - x) - z = left - y
      BY <3>1
    <3> QED
      BY <3>2 DEF x, y, z
  <2>5. Reading(c, cells, at, l) /\ c.got = Listing(b.got, name, k, vals)
    BY <1>4, <2>1
  <2> HIDE DEF c, at, l, v
  <2>6. Reading(Fresh(c), cells, at, l) /\ Fresh(c).got = <<>>
    BY <2>5, FreshReads
  <2>7. /\ Reading(d, cells, at + Len(layout), l - Size(layout))
        /\ Gained(d, Fresh(c), Names(layout), v)
    BY <2>2, <2>4, <2>6, FieldsRead
  <2> HIDE DEF d
  <2>8. d.got = v
    <3>1. DOMAIN d.got = Names(layout) /\ \A f \in Names(layout) : d.got[f] = v[f]
      BY <2>6, <2>7 DEF Gained
    <3>2. d.got = [f \in DOMAIN d.got |-> d.got[f]]
      BY <2>7 DEF Reading
    <3>3. v = [f \in Names(layout) |-> v[f]]
      BY <2>2 DEF IsRecord
    <3> HIDE DEF Names
    <3> QED
      BY <3>1, <3>2, <3>3
  <2>9. /\ Reading(Added(c, name, d), cells, at + Len(layout), l - Size(layout))
        /\ Added(c, name, d).got = Longer(c.got, name, d.got)
    <3> DEFINE x == at + Len(layout)  y == l - Size(layout)
    <3>1. Reading(d, cells, x, y)
      BY <2>7
    <3> HIDE DEF x, y
    <3>2. /\ Reading(Added(c, name, d), cells, x, y)
          /\ Added(c, name, d).got = Longer(c.got, name, d.got)
      BY <3>1, AddedReads
    <3> QED
      BY <3>2 DEF x, y
  <2>10. all[k + 1] = Added(c, name, d)
    <3>1. c.status = "ok"
      BY <2>5 DEF Reading
    <3> QED
      BY <2>2, <3>1 DEF NextRecord, d
  <2>11. Longer(c.got, name, v) = Listing(b.got, name, k + 1, vals)
    BY <2>5, OneMore DEF v
  <2> QED
    BY <2>2, <2>4, <2>8, <2>9, <2>10, <2>11
<1>5. Good(n)
  <2>1. n \in S
    <3> HIDE DEF S
    <3> QED BY <1>3, <1>4, Induction
  <2> QED
    BY <2>1
<1> QED
  BY <1>2, <1>5 DEF AllListed

-----------------------------------------------------------------------------
(* Sequences, whatever they are of                                         *)

\* s is a sequence.
IsSeq(s) == s \in Seq(Range(s))

\* A sequence has its length, and its members at 1 to that.
LEMMA SeqFacts ==
  ASSUME NEW s, IsSeq(s)
  PROVE  Len(s) \in Nat /\ DOMAIN s = 1..Len(s) /\ \A i \in 1..Len(s) : s[i] \in Range(s)
BY DEF IsSeq, Range

\* It is one over every set its members are in.
LEMMA SeqWidens ==
  ASSUME NEW S, NEW s, IsSeq(s), \A i \in 1..Len(s) : s[i] \in S
  PROVE  s \in Seq(S)
BY DEF IsSeq

\* A sequence over some set is a sequence.
LEMMA SeqIs ==
  ASSUME NEW S, NEW s \in Seq(S)
  PROVE  IsSeq(s)
<1>1. \A i \in 1..Len(s) : s[i] \in Range(s)
  BY DEF Range
<1> QED
  BY <1>1 DEF IsSeq

\* What is put one after the other is there one after the other.
Together(s, t) ==
    /\ IsSeq(s \o t) /\ Measured(s \o t)
    /\ Size(s \o t) = Size(s) + Size(t) /\ Len(s \o t) = Len(s) + Len(t)
    /\ \A cells : \A at \in Nat :
          Holds(cells, at, s \o t) =>
              Holds(cells, at, s) /\ Holds(cells, at + Len(s), t)

\* Two sequences of cells, one behind the other.
LEMMA BothTogether ==
  ASSUME NEW s, NEW t, IsSeq(s), IsSeq(t), Measured(s), Measured(t)
  PROVE  Together(s, t)
<1> DEFINE S == Range(s) \cup Range(t)
<1>1. s \in Seq(S) /\ t \in Seq(S)
  BY SeqFacts, SeqWidens
<1> HIDE DEF S
<1>2. s \o t \in Seq(S) /\ Len(s \o t) = Len(s) + Len(t)
  BY <1>1
<1>3. IsSeq(s \o t)
  BY <1>2, SeqIs
<1>4. Measured(s \o t) /\ Size(s \o t) = Size(s) + Size(t)
  BY <1>1, SizeOfBoth
<1>5. ASSUME NEW cells, NEW at \in Nat, Holds(cells, at, s \o t)
      PROVE  Holds(cells, at, s) /\ Holds(cells, at + Len(s), t)
  BY <1>1, <1>5, HoldsBoth
<1> QED
  BY <1>2, <1>3, <1>4, <1>5 DEF Together

\* Records of one layout, the values of each in vals, and no more.
AllMatch(ss, layout, vals) ==
    /\ IsSeq(ss)
    /\ \A i \in 1..Len(ss) :
          /\ IsSeq(ss[i]) /\ Len(ss[i]) = Len(layout)
          /\ Matches(ss[i], layout, vals[i]) /\ IsRecord(vals[i], Names(layout))

\* As many times W, added up.
LEMMA Multiplied ==
  ASSUME NEW W \in Nat, NEW n \in Nat, NEW tot \in [0..n -> Nat],
         tot[0] = 0, \A i \in 1..n : tot[i] = tot[i - 1] + W
  PROVE  \A i \in 0..n : tot[i] = W * i
<1> DEFINE S == {k \in Nat : k \in 0..n => tot[k] = W * k}
<1>1. 0 \in S
  OBVIOUS
<1>2. ASSUME NEW k \in Nat, k \in S PROVE k + 1 \in S
  <2>1. CASE k + 1 \in 1..n
    <3>1. k \in 0..n /\ (k + 1) - 1 = k
      BY <2>1
    <3>2. tot[k + 1] = W * k + W
      BY <1>2, <2>1, <3>1
    <3>3. W * (k + 1) = W * k + W
      OBVIOUS
    <3> QED
      BY <3>2, <3>3
  <2> QED
    BY <2>1
<1>3. Nat \subseteq S
  <2> HIDE DEF S
  <2> QED BY <1>1, <1>2, Induction
<1> QED
  BY <1>3

\* Some of n times W are no more than all.
LEMMA PartOfProduct ==
  ASSUME NEW W \in Nat, NEW n \in Nat, NEW i \in 0..n
  PROVE  W * i \in Nat /\ W * i <= W * n
OBVIOUS

\* A list of records takes as many times the bytes of one, and is read if it is
\* there with all of them.
ReadsList(ss, layout, vals) ==
    /\ IsSeq(FlattenSeq(ss)) /\ Measured(FlattenSeq(ss))
    /\ Size(FlattenSeq(ss)) = Size(layout) * Len(ss)
    /\ \A b, cells, name : \A at, left \in Nat :
          (/\ Reading(b, cells, at, left) /\ Holds(cells, at, FlattenSeq(ss))
           /\ Size(layout) * Len(ss) <= left) =>
          /\ Reading(Records(b, name, Len(ss), layout), cells,
                     at + Len(FlattenSeq(ss)), left - Size(layout) * Len(ss))
          /\ Records(b, name, Len(ss), layout).got = Listing(b.got, name, Len(ss), vals)

\* Every list of records, each written as the layout says, is such a list.
LEMMA ListRead ==
  ASSUME NEW ss, NEW layout, NEW vals, Measured(layout), AllMatch(ss, layout, vals)
  PROVE  ReadsList(ss, layout, vals)
<1> DEFINE n == Len(ss)  W == Size(layout)  F == FlattenSeq(ss)
           C == UNION {Range(ss[i]) : i \in 1..n}
<1>1. n \in Nat /\ W \in Nat
  BY SizeIsNat, SeqFacts DEF AllMatch
<1>2. \A i \in 1..n : /\ IsSeq(ss[i]) /\ Len(ss[i]) = Len(layout) /\ ss[i] \in Seq(C)
                      /\ Matches(ss[i], layout, vals[i]) /\ IsRecord(vals[i], Names(layout))
  <2> SUFFICES ASSUME NEW i \in 1..n PROVE ss[i] \in Seq(C)
    BY DEF AllMatch
  <2>1. IsSeq(ss[i]) /\ Range(ss[i]) \subseteq C
    BY DEF AllMatch
  <2> HIDE DEF C
  <2> QED
    BY <2>1, SeqFacts, SeqWidens
<1> HIDE DEF C
<1>3. ss \in Seq(Seq(C))
  BY <1>2, SeqWidens DEF AllMatch
<1>4. \A i \in 1..n : Measured(ss[i]) /\ Size(ss[i]) = W
  <2> SUFFICES ASSUME NEW i \in 1..n PROVE Measured(ss[i]) /\ Size(ss[i]) = W
    OBVIOUS
  <2>1. ss[i] \in Seq(C) /\ Len(ss[i]) = Len(layout) /\ Matches(ss[i], layout, vals[i])
    BY <1>2
  <2> QED
    BY <2>1, SizeOfMatch
<1>5. /\ Measured(F) /\ F \in Seq(C)
      /\ \E tot \in [0..n -> Nat] :
            /\ tot[0] = 0 /\ tot[n] = Size(F)
            /\ \A i \in 1..n : tot[i] = tot[i - 1] + Size(ss[i])
  BY <1>3, <1>4, SizeOfEach
<1>6. PICK tot \in [0..n -> Nat] :
          /\ tot[0] = 0 /\ tot[n] = Size(F)
          /\ \A i \in 1..n : tot[i] = tot[i - 1] + W
  BY <1>4, <1>5
<1>7. \A i \in 0..n : tot[i] = W * i
  BY <1>1, <1>6, Multiplied
<1>8. Size(F) = W * n
  BY <1>1, <1>6, <1>7
<1>9. IsSeq(F)
  BY <1>5, SeqIs
<1>10. ASSUME NEW b, NEW cells, NEW name, NEW at \in Nat, NEW left \in Nat,
              Reading(b, cells, at, left), Holds(cells, at, F), W * n <= left
       PROVE  /\ Reading(Records(b, name, n, layout), cells, at + Len(F), left - W * n)
              /\ Records(b, name, n, layout).got = Listing(b.got, name, n, vals)
  <2>1. PICK pos \in [1..(n + 1) -> Nat] :
            /\ pos[1] = at /\ pos[n + 1] = at + Len(F)
            /\ \A i \in 1..n : /\ pos[i + 1] = pos[i] + Len(ss[i])
                               /\ Holds(cells, pos[i], ss[i])
    BY <1>3, <1>10, HoldsEach
  <2>2. \A i \in 1..n : Carries(cells, pos[i], layout, vals[i])
    <3> SUFFICES ASSUME NEW i \in 1..n PROVE Carries(cells, pos[i], layout, vals[i])
      OBVIOUS
    <3>1. /\ pos[i] \in Nat /\ Holds(cells, pos[i], ss[i]) /\ Len(ss[i]) \in Nat
          /\ Matches(ss[i], layout, vals[i])
      BY <1>1, <1>2, <2>1, SeqFacts
    <3> QED
      BY <3>1, MatchIsCarried
  <2>3. \A i \in 0..n : tot[i] <= left
    <3> SUFFICES ASSUME NEW i \in 0..n PROVE tot[i] <= left
      OBVIOUS
    <3>1. W * i \in Nat /\ W * i <= W * n /\ W * n \in Nat
      BY <1>1, PartOfProduct
    <3> QED
      BY <1>7, <1>10, <3>1
  <2>4. Laid(cells, left, layout, n, vals, pos, tot)
    BY <1>2, <1>6, <2>1, <2>2, <2>3 DEF Laid
  <2>5. Reading(b, cells, pos[1], left)
    BY <1>10, <2>1
  <2>6. /\ Reading(Records(b, name, n, layout), cells, pos[n + 1], left - tot[n])
        /\ Records(b, name, n, layout).got = Listing(b.got, name, n, vals)
    BY <1>1, <2>4, <2>5, RecordsRead
  <2> QED
    BY <1>6, <1>8, <2>1, <2>6
<1> QED
  BY <1>1, <1>5, <1>8, <1>9, <1>10 DEF ReadsList

-----------------------------------------------------------------------------
(* The fixed part of a format, and the data behind it                      *)

\* After an error nothing more is read.
LEMMA FieldsStay ==
  ASSUME NEW b, NEW layout, Len(layout) \in Nat, b.status # "ok"
  PROVE  Fields(b, layout) = b
<1> DEFINE n == Len(layout)
<1>1. PICK read : /\ read[0] = b /\ read[n] = Fields(b, layout)
                  /\ \A i \in 1..n : read[i] = Get(read[i - 1], layout[i])
  BY FieldsSteps
<1> DEFINE S == {k \in Nat : k \in 0..n => read[k] = b}
<1>2. 0 \in S
  BY <1>1
<1>3. ASSUME NEW k \in Nat, k \in S PROVE k + 1 \in S
  <2>1. CASE k + 1 \in 1..n
    <3>1. k \in 0..n /\ (k + 1) - 1 = k
      BY <2>1
    <3>2. read[k + 1] = Get(b, layout[k + 1])
      BY <1>1, <1>3, <2>1, <3>1
    <3> QED
      BY <3>2 DEF Get
  <2> QED
    BY <2>1
<1>4. n \in S
  <2> HIDE DEF S
  <2> QED BY <1>2, <1>3, Induction
<1> QED
  BY <1>1, <1>4

\* The length checks.
LEMMA NeedCases ==
  ASSUME NEW b, NEW cells, NEW at, NEW left \in Nat, NEW n \in Nat,
         Reading(b, cells, at, left)
  PROVE  /\ n <= left => Need(b, n) = b
         /\ n > left => Need(b, n).status = "too_small"
<1> DEFINE G == b.got
<1>1. b = [cells |-> cells, at |-> at, left |-> left, got |-> G, status |-> "ok"]
  BY DEF Reading
<1> HIDE DEF G
<1>2. b.left = left /\ b.status = "ok"
  BY <1>1
<1>3. n <= left => Need(b, n) = b
  BY <1>2 DEF Need
<1>4. n > left => Need(b, n) = [b EXCEPT !.status = "too_small"]
  BY <1>2 DEF Need, Fail
<1> QED
  BY <1>1, <1>3, <1>4

\* Nor is there another error.
LEMMA NeedStays ==
  ASSUME NEW b, NEW n, b.status # "ok"
  PROVE  Need(b, n) = b
BY DEF Need, Fail

\* How reading a layout ends after the check for need bytes: with its fields, or
\* refused when there are not as many bytes as the check asks for, or in a panic
\* when it asks for too few.
HeadOutcome(h, b, cells, at, left, layout, val, need) ==
    /\ need <= left /\ Size(layout) <= left =>
          /\ Reading(h, cells, at + Len(layout), left - Size(layout))
          /\ Gained(h, b, Names(layout), val)
    /\ need > left => h.status = "too_small"
    /\ need <= left /\ Size(layout) > left => h.status = "panic"

\* Every layout that was written so is read so.
LEMMA HeadRead ==
  ASSUME NEW b, NEW cells, NEW at \in Nat, NEW left \in Nat, NEW layout, NEW val,
         NEW written, NEW need \in Nat,
         Reading(b, cells, at, left), Measured(layout), IsSeq(written),
         Holds(cells, at, written), Matches(written, layout, val)
  PROVE  HeadOutcome(Fields(Need(b, need), layout), b, cells, at, left, layout, val, need)
<1>1. Len(written) \in Nat /\ Len(layout) \in Nat
  BY SeqFacts DEF Measured
<1>2. Carries(cells, at, layout, val)
  BY <1>1, MatchIsCarried
<1>3. /\ Size(layout) \in Nat
      /\ Size(layout) <= left =>
            /\ Reading(Fields(b, layout), cells, at + Len(layout), left - Size(layout))
            /\ Gained(Fields(b, layout), b, Names(layout), val)
      /\ Size(layout) > left => Fields(b, layout).status = "panic"
  BY <1>2, FieldsRead
<1>4. need <= left => Need(b, need) = b
  BY NeedCases
<1>5. need > left => Fields(Need(b, need), layout).status = "too_small"
  <2> SUFFICES ASSUME need > left
               PROVE  Fields(Need(b, need), layout).status = "too_small"
    OBVIOUS
  <2>1. Need(b, need).status = "too_small"
    BY NeedCases
  <2>2. Fields(Need(b, need), layout) = Need(b, need)
    BY <1>1, <2>1, FieldsStay
  <2> QED
    BY <2>1, <2>2
<1> QED
  BY <1>3, <1>4, <1>5 DEF HeadOutcome

\* How reading n bytes of data v ends.
DataOutcome(c, b, cells, at, left, n, v) ==
    /\ n <= left => /\ Reading(c, cells, at + 1, left - n)
                    /\ Gained(c, b, {"data"}, [x \in {"data"} |-> v])
    /\ n > left => c.status = "too_small"

\* The data of n bytes is there, or it is too short.
LEMMA DataRead ==
  ASSUME NEW b, NEW cells, NEW at \in Nat, NEW left \in Nat, NEW n \in Nat, NEW v,
         Reading(b, cells, at, left), at \in DOMAIN cells, cells[at] = <<n, v>>
  PROVE  DataOutcome(Data(b, n), b, cells, at, left, n, v)
<1> DEFINE f == U(n, "data")
<1>1. f[1] = n /\ f[2] = "data" /\ f[3] = {} /\ f[2] # "reserved"
  BY DEF U
<1> HIDE DEF f
<1>2. cells[at][1] = n /\ cells[at][2] = v
  OBVIOUS
<1>3. ASSUME n <= left
      PROVE  /\ Reading(Data(b, n), cells, at + 1, left - n)
             /\ Gained(Data(b, n), b, {"data"}, [x \in {"data"} |-> v])
  <2>1. Need(b, n) = b
    BY <1>3, NeedCases
  <2>2. /\ Reading(Get(b, f), cells, at + 1, left - f[1])
        /\ Gained(Get(b, f), b, {f[2]}, [x \in {f[2]} |-> cells[at][2]])
    <3>1. /\ cells[at][1] = f[1] /\ f[1] \in Nat /\ f[1] <= left
          /\ f[3] = {} \/ cells[at][2] \in f[3]
      BY <1>1, <1>2, <1>3
    <3>2. FieldOutcome(Get(b, f), b, cells, at, left, f)
      BY <3>1, GetReads
    <3> QED
      BY <1>1, <3>2 DEF FieldOutcome
  <2> QED
    BY <1>1, <1>2, <2>1, <2>2 DEF Data, f
<1>4. ASSUME n > left PROVE Data(b, n).status = "too_small"
  <2>1. Need(b, n).status = "too_small"
    BY <1>4, NeedCases
  <2>2. Data(b, n) = Need(b, n)
    BY <2>1 DEF Data, Get
  <2> QED
    BY <2>1, <2>2
<1> QED
  BY <1>3, <1>4 DEF DataOutcome

-----------------------------------------------------------------------------
(* Whole packets                                                           *)

\* What a decoded packet says of p, after the header b that was read before.
Told(c, b, p) ==
    /\ \A f \in OwnFields[p.packet_type] : f \in DOMAIN c.got /\ c.got[f] = p[f]
    /\ \A f \in CommonFields \cap DOMAIN b.got : f \in DOMAIN c.got /\ c.got[f] = b.got[f]

\* The fields of a format are the packet's own, and none is one of the header's.
OwnNames(names, t) == OwnFields[t] \subseteq names /\ names \cap CommonFields = {}

\* Every kind's format gives the kind's fields, and none of the header's.
LEMMA LayoutNames ==
  /\ OwnNames(Names(VideoLayout) \cup {"data"}, 1)
  /\ OwnNames(Names(AudioLayout) \cup {"data"}, 2)
  /\ OwnNames(Names(SyncLayout) \cup {"audio_tracks"}, 3)
  /\ OwnNames(Names(RepairLayout) \cup {"data"}, 4)
  /\ OwnNames(Names(InitLayout), 5)
  /\ OwnNames(Names(AckLayout), 6)
  /\ OwnNames(Names(DmxLayout) \cup {"data"}, 8)
  /\ OwnNames(Names(MocapLayout) \cup {"rigid_bodies", "skeletons", "labeled_markers"}, 9)
<1>1. OwnNames(Names(VideoLayout) \cup {"data"}, 1)
  <2>1. Names(VideoLayout) =
            {"frame_id", "fragment_index", "total_fragments", "codec", "is_key_frame",
             "pts", "dts", "data_len"}
    BY DEF Names, VideoLayout, U, Reserved
  <2> QED
    BY <2>1 DEF OwnNames, OwnFields, CommonFields
<1>2. OwnNames(Names(AudioLayout) \cup {"data"}, 2)
  <2>1. Names(AudioLayout) =
            {"track_id", "sample_rate", "channels", "bits_per_sample", "codec", "pts",
             "sample_count", "data_len"}
    BY DEF Names, AudioLayout, U, Reserved
  <2> QED
    BY <2>1 DEF OwnNames, OwnFields, CommonFields
<1>3. OwnNames(Names(SyncLayout) \cup {"audio_tracks"}, 3)
  <2>1. Names(SyncLayout) = {"reference_timestamp", "video_pts", "track_count"}
    BY DEF Names, SyncLayout, U, Reserved
  <2> QED
    BY <2>1 DEF OwnNames, OwnFields, CommonFields
<1>4. OwnNames(Names(RepairLayout) \cup {"data"}, 4)
  <2>1. Names(RepairLayout) =
            {"group_id", "index", "total_shards", "data_shards", "data_len"}
    BY DEF Names, RepairLayout, U, Reserved
  <2> QED
    BY <2>1 DEF OwnNames, OwnFields, CommonFields
<1>5. OwnNames(Names(InitLayout), 5)
  <2>1. Names(InitLayout) =
            {"init_session_id", "audio_track_count", "video_codec", "audio_codec",
             "fec_data_shards", "fec_parity_shards", "frame_rate", "sample_rate"}
    BY DEF Names, InitLayout, U, Reserved
  <2> QED
    BY <2>1 DEF OwnNames, OwnFields, CommonFields
<1>6. OwnNames(Names(AckLayout), 6)
  <2>1. Names(AckLayout) = {"acked_session_id", "accepted", "server_timestamp"}
    BY DEF Names, AckLayout, U, Reserved
  <2> QED
    BY <2>1 DEF OwnNames, OwnFields, CommonFields
<1>7. OwnNames(Names(DmxLayout) \cup {"data"}, 8)
  <2>1. Names(DmxLayout) =
            {"universe", "net", "subnet", "dmx_sequence", "channel_count", "pts"}
    BY DEF Names, DmxLayout, U, Reserved
  <2> QED
    BY <2>1 DEF OwnNames, OwnFields, CommonFields
<1>8. OwnNames(Names(MocapLayout) \cup {"rigid_bodies", "skeletons", "labeled_markers"}, 9)
  <2>1. Names(MocapLayout) =
            {"pts", "frame_number", "timecode", "timecode_subframe", "mocap_timestamp",
             "rigid_body_count", "skeleton_count", "labeled_marker_count", "params"}
    BY DEF Names, MocapLayout, U, Reserved
  <2> QED
    BY <2>1 DEF OwnNames, OwnFields, CommonFields
<1> QED
  BY <1>1, <1>2, <1>3, <1>4, <1>5, <1>6, <1>7, <1>8

\* Reading such a format tells of the packet.
LEMMA ToldIfGained ==
  ASSUME NEW c, NEW b, NEW names, NEW val, NEW p,
         Gained(c, b, names, val), OwnNames(names, p.packet_type),
         \A f \in OwnFields[p.packet_type] : val[f] = p[f]
  PROVE  Told(c, b, p)
BY DEF Gained, OwnNames, Told

\* h, and the data behind it, if there was no error.
DataOf(h, n) == IF h.status = "ok" THEN Data(h, n) ELSE h

\* How reading a format that ends with n bytes of data goes, from h on.
FormatOutcome(h, b, left, layout, val, n, need) ==
    /\ h.status = "ok" => Gained(h, b, Names(layout), val)
    /\ Size(layout) + n <= left =>
          /\ DataOf(h, n).status = "ok"
          /\ Gained(DataOf(h, n), b, Names(layout) \cup {"data"}, val)
    /\ Size(layout) + n > left =>
          \/ DataOf(h, n).status = "too_small"
          \/ DataOf(h, n).status = "panic" /\ left \in need..(Size(layout) - 1)

\* What was written are the fields of a layout, and n bytes of data.
Formatted(written, layout, val, n) ==
    /\ IsSeq(written) /\ Matches(written, layout, val)
    /\ Len(written) = Len(layout) + 1 /\ written[Len(layout) + 1] = <<n, val["data"]>>

\* Reading a format with n bytes of data behind its fields goes so.
ReadsFormat(written, layout, val, n) ==
    /\ Measured(written) /\ Size(written) = Size(layout) + n
    /\ \A b, cells : \A at, left, need \in Nat :
          (/\ Reading(b, cells, at, left) /\ Holds(cells, at, written)
           /\ need <= Size(layout)) =>
          FormatOutcome(Fields(Need(b, need), layout), b, left, layout, val, n, need)

\* It does whatever the values and however long the data.
LEMMA DataFormat ==
  ASSUME NEW layout, NEW val, NEW written, NEW n \in Nat,
         Measured(layout), Formatted(written, layout, val, n)
  PROVE  ReadsFormat(written, layout, val, n)
<1>0. /\ IsSeq(written) /\ Matches(written, layout, val)
      /\ Len(written) = Len(layout) + 1 /\ written[Len(layout) + 1] = <<n, val["data"]>>
  BY DEF Formatted
<1> DEFINE k == Len(layout)  W == Size(layout)  v == val["data"]
<1>1. Len(written) \in Nat /\ k \in Nat /\ W \in Nat
  BY <1>0, SeqFacts, SizeIsNat DEF Measured
<1>2. /\ Measured(written) /\ Size(written) = W + n
  <2>1. written[Len(written)][1] = n
    BY <1>0
  <2> QED
    BY <1>0, <2>1, SizeOfMatch DEF IsSeq
<1>3. ASSUME NEW b, NEW cells, NEW at \in Nat, NEW left \in Nat, NEW need \in Nat,
             Reading(b, cells, at, left), Holds(cells, at, written), need <= W
      PROVE  FormatOutcome(Fields(Need(b, need), layout), b, left, layout, val, n, need)
  <2> DEFINE h == Fields(Need(b, need), layout)
  <2>0. HeadOutcome(h, b, cells, at, left, layout, val, need)
    BY <1>0, <1>3, HeadRead
  <2> HIDE DEF h
  <2> SUFFICES /\ h.status = "ok" => Gained(h, b, Names(layout), val)
               /\ W + n <= left =>
                     /\ DataOf(h, n).status = "ok"
                     /\ Gained(DataOf(h, n), b, Names(layout) \cup {"data"}, val)
               /\ W + n > left =>
                     \/ DataOf(h, n).status = "too_small"
                     \/ DataOf(h, n).status = "panic" /\ left \in need..(W - 1)
    BY DEF FormatOutcome, h
  <2>1. /\ need <= left /\ W <= left =>
               /\ Reading(h, cells, at + k, left - W)
               /\ Gained(h, b, Names(layout), val)
        /\ need > left => h.status = "too_small"
        /\ need <= left /\ W > left => h.status = "panic"
    BY <2>0 DEF HeadOutcome
  <2>2. at + k \in DOMAIN cells /\ cells[at + k] = <<n, v>>
    <3>1. k + 1 \in 1..Len(written) /\ at + (k + 1) - 1 = at + k
      BY <1>0, <1>1
    <3> QED
      BY <1>0, <1>3, <3>1 DEF Holds
  <2>3. CASE W <= left
    <3>1. Reading(h, cells, at + k, left - W) /\ Gained(h, b, Names(layout), val)
      BY <1>1, <1>3, <2>1, <2>3
    <3>2. h.status = "ok"
      BY <3>1 DEF Reading
    <3> DEFINE a == at + k  l == left - W
    <3>3. a \in Nat /\ l \in Nat /\ (n <= l <=> W + n <= left)
      BY <1>1, <1>2, <2>3
    <3> HIDE DEF a, l, v
    <3>4. Reading(h, cells, a, l) /\ a \in DOMAIN cells /\ cells[a] = <<n, v>>
      BY <2>2, <3>1 DEF a, l
    <3>5. /\ n <= l => /\ Reading(Data(h, n), cells, a + 1, l - n)
                       /\ Gained(Data(h, n), h, {"data"}, [x \in {"data"} |-> v])
          /\ n > l => Data(h, n).status = "too_small"
      <4>1. DataOutcome(Data(h, n), h, cells, a, l, n, v)
        BY <3>3, <3>4, DataRead
      <4> QED
        BY <4>1 DEF DataOutcome
    <3>6. DataOf(h, n) = Data(h, n)
      BY <3>2 DEF DataOf
    <3>7. CASE n <= l
      <4>1. Data(h, n).status = "ok"
        BY <3>5, <3>7 DEF Reading
      <4>2. Gained(Data(h, n), b, Names(layout) \cup {"data"}, val)
        BY <3>1, <3>5, <3>7 DEF Gained, v
      <4> QED
        BY <3>1, <3>3, <3>6, <3>7, <4>1, <4>2, <1>1, <1>2
    <3>8. CASE n > l
      <4>1. ~ (W + n <= left)
        BY <3>3, <3>8
      <4> QED
        BY <3>1, <3>5, <3>6, <3>8, <4>1
    <3> QED
      BY <3>3, <3>7, <3>8
  <2>4. CASE W > left
    <3>1. h.status = "too_small" \/ (h.status = "panic" /\ left \in need..(W - 1))
      BY <1>1, <2>1, <2>4
    <3>2. DataOf(h, n) = h
      BY <3>1 DEF DataOf
    <3>3. ~ (W + n <= left)
      BY <1>1, <1>2, <2>4
    <3> QED
      BY <3>1, <3>2, <3>3
  <2> QED
    BY <1>1, <2>3, <2>4
<1> QED
  BY <1>1, <1>2, <1>3 DEF ReadsFormat

\* How decoding the rest of packet p goes, of size bytes when all is there: all of
\* it is read, or there is too little; what ends within the audio header may panic.
BodyOutcome(c, b, p, size, left) ==
    /\ size <= left => c.status = "ok" /\ Told(c, b, p)
    /\ size > left => \/ c.status = "too_small"
                      \/ c.status = "panic" /\ p.packet_type = 2 /\ left \in 24..27

\* VideoPayload::decode reads what VideoPayload::encode wrote.
LEMMA VideoDecodes ==
  ASSUME NEW p, WellFormed(p), p.packet_type = 1
  PROVE  /\ IsSeq(EncodeVideo(p)) /\ Measured(EncodeVideo(p))
         /\ \A b, cells : \A at, left \in Nat :
               Reading(b, cells, at, left) /\ Holds(cells, at, EncodeVideo(p)) =>
               BodyOutcome(DecodeVideo(b), b, p, Size(EncodeVideo(p)), left)
<1> DEFINE written == EncodeVideo(p)  n == p.data_len
<1>1. n \in Nat /\ p.codec \in VideoCodecs
  BY DEF WellFormed, FitsU32
<1>2. Matches(written, VideoLayout, p)
  BY <1>1 DEF Matches, EncodeVideo, VideoLayout, U, Reserved
<1>3. IsSeq(written) /\ Len(written) = 10 /\ written[10] = <<n, p["data"]>>
  BY DEF IsSeq, EncodeVideo, Range
<1>4. Measured(VideoLayout) /\ Size(VideoLayout) = 32 /\ Len(VideoLayout) = 9
  BY LayoutSizes
<1> HIDE DEF written, n
<1>5. Formatted(written, VideoLayout, p, n)
  BY <1>2, <1>3, <1>4 DEF Formatted
<1>6. ReadsFormat(written, VideoLayout, p, n)
  BY <1>1, <1>4, <1>5, DataFormat
<1>7. ASSUME NEW b, NEW cells, NEW at \in Nat, NEW left \in Nat,
             Reading(b, cells, at, left), Holds(cells, at, written)
      PROVE  BodyOutcome(DecodeVideo(b), b, p, Size(written), left)
  <2> DEFINE h == Fields(Need(b, 32), VideoLayout)
  <2>1. FormatOutcome(h, b, left, VideoLayout, p, n, 32)
    BY <1>4, <1>6, <1>7 DEF ReadsFormat
  <2> HIDE DEF h
  <2>2. h.status = "ok" => h.got.data_len = n
    <3>1. "data_len" \in Names(VideoLayout)
      BY DEF Names, VideoLayout, U, Reserved
    <3> QED
      BY <2>1, <3>1 DEF FormatOutcome, Gained, n
  <2>3. DecodeVideo(b) = DataOf(h, n)
    BY <2>2 DEF DecodeVideo, DataOf, h
  <2>4. Gained(DataOf(h, n), b, Names(VideoLayout) \cup {"data"}, p) => Told(DataOf(h, n), b, p)
    BY LayoutNames, ToldIfGained
  <2> QED
    BY <1>4, <1>6, <2>1, <2>3, <2>4 DEF FormatOutcome, BodyOutcome, ReadsFormat
<1> QED
  BY <1>3, <1>6, <1>7 DEF ReadsFormat, written
\* AudioPayload: the check is for four bytes fewer than the fields take.
LEMMA AudioDecodes ==
  ASSUME NEW p, WellFormed(p), p.packet_type = 2
  PROVE  /\ IsSeq(EncodeAudio(p)) /\ Measured(EncodeAudio(p))
         /\ \A b, cells : \A at, left \in Nat :
               Reading(b, cells, at, left) /\ Holds(cells, at, EncodeAudio(p)) =>
               BodyOutcome(DecodeAudio(b), b, p, Size(EncodeAudio(p)), left)
<1> DEFINE written == EncodeAudio(p)  n == p.data_len
<1>1. n \in Nat /\ p.codec \in AudioCodecs
  BY DEF WellFormed, FitsU32
<1>2. Matches(written, AudioLayout, p)
  BY <1>1 DEF Matches, EncodeAudio, AudioLayout, U, Reserved
<1>3. IsSeq(written) /\ Len(written) = 11 /\ written[11] = <<n, p["data"]>>
  BY DEF IsSeq, EncodeAudio, Range
<1>4. Measured(AudioLayout) /\ Size(AudioLayout) = 28 /\ Len(AudioLayout) = 10
  BY LayoutSizes
<1> HIDE DEF written, n
<1>5. Formatted(written, AudioLayout, p, n)
  BY <1>2, <1>3, <1>4 DEF Formatted
<1>6. ReadsFormat(written, AudioLayout, p, n)
  BY <1>1, <1>4, <1>5, DataFormat
<1>7. ASSUME NEW b, NEW cells, NEW at \in Nat, NEW left \in Nat,
             Reading(b, cells, at, left), Holds(cells, at, written)
      PROVE  BodyOutcome(DecodeAudio(b), b, p, Size(written), left)
  <2> DEFINE h == Fields(Need(b, 24), AudioLayout)
  <2>1. FormatOutcome(h, b, left, AudioLayout, p, n, 24)
    BY <1>4, <1>6, <1>7 DEF ReadsFormat
  <2> HIDE DEF h
  <2>2. h.status = "ok" => h.got.data_len = n
    <3>1. "data_len" \in Names(AudioLayout)
      BY DEF Names, AudioLayout, U, Reserved
    <3> QED
      BY <2>1, <3>1 DEF FormatOutcome, Gained, n
  <2>3. DecodeAudio(b) = DataOf(h, n)
    BY <2>2 DEF DecodeAudio, DataOf, h
  <2>4. Gained(DataOf(h, n), b, Names(AudioLayout) \cup {"data"}, p) => Told(DataOf(h, n), b, p)
    BY LayoutNames, ToldIfGained
  <2> QED
    BY <1>4, <1>6, <2>1, <2>3, <2>4 DEF FormatOutcome, BodyOutcome, ReadsFormat
<1> QED
  BY <1>3, <1>6, <1>7 DEF ReadsFormat, written
\* FecRepairPayload.
LEMMA RepairDecodes ==
  ASSUME NEW p, WellFormed(p), p.packet_type = 4
  PROVE  /\ IsSeq(EncodeFecRepair(p)) /\ Measured(EncodeFecRepair(p))
         /\ \A b, cells : \A at, left \in Nat :
               Reading(b, cells, at, left) /\ Holds(cells, at, EncodeFecRepair(p)) =>
               BodyOutcome(DecodeFecRepair(b), b, p, Size(EncodeFecRepair(p)), left)
<1> DEFINE written == EncodeFecRepair(p)  n == p.data_len
<1>1. n \in Nat
  BY DEF WellFormed, FitsU32
<1>2. Matches(written, RepairLayout, p)
  BY <1>1 DEF Matches, EncodeFecRepair, RepairLayout, U, Reserved
<1>3. IsSeq(written) /\ Len(written) = 7 /\ written[7] = <<n, p["data"]>>
  BY DEF IsSeq, EncodeFecRepair, Range
<1>4. Measured(RepairLayout) /\ Size(RepairLayout) = 16 /\ Len(RepairLayout) = 6
  BY LayoutSizes
<1> HIDE DEF written, n
<1>5. Formatted(written, RepairLayout, p, n)
  BY <1>2, <1>3, <1>4 DEF Formatted
<1>6. ReadsFormat(written, RepairLayout, p, n)
  BY <1>1, <1>4, <1>5, DataFormat
<1>7. ASSUME NEW b, NEW cells, NEW at \in Nat, NEW left \in Nat,
             Reading(b, cells, at, left), Holds(cells, at, written)
      PROVE  BodyOutcome(DecodeFecRepair(b), b, p, Size(written), left)
  <2> DEFINE h == Fields(Need(b, 16), RepairLayout)
  <2>1. FormatOutcome(h, b, left, RepairLayout, p, n, 16)
    BY <1>4, <1>6, <1>7 DEF ReadsFormat
  <2> HIDE DEF h
  <2>2. h.status = "ok" => h.got.data_len = n
    <3>1. "data_len" \in Names(RepairLayout)
      BY DEF Names, RepairLayout, U, Reserved
    <3> QED
      BY <2>1, <3>1 DEF FormatOutcome, Gained, n
  <2>3. DecodeFecRepair(b) = DataOf(h, n)
    BY <2>2 DEF DecodeFecRepair, DataOf, h
  <2>4. Gained(DataOf(h, n), b, Names(RepairLayout) \cup {"data"}, p) => Told(DataOf(h, n), b, p)
    BY LayoutNames, ToldIfGained
  <2> QED
    BY <1>4, <1>6, <2>1, <2>3, <2>4 DEF FormatOutcome, BodyOutcome, ReadsFormat
<1> QED
  BY <1>3, <1>6, <1>7 DEF ReadsFormat, written
\* DmxPayload: no more than 512 channels are written, and as many are read.
LEMMA DmxDecodes ==
  ASSUME NEW p, WellFormed(p), p.packet_type = 8
  PROVE  /\ IsSeq(EncodeDmx(p)) /\ Measured(EncodeDmx(p))
         /\ \A b, cells : \A at, left \in Nat :
               Reading(b, cells, at, left) /\ Holds(cells, at, EncodeDmx(p)) =>
               BodyOutcome(DecodeDmx(b), b, p, Size(EncodeDmx(p)), left)
<1> DEFINE written == EncodeDmx(p)  n == p.channel_count
<1>1. n \in Nat /\ n \in 0..512
  BY DEF WellFormed
<1>2. Matches(written, DmxLayout, p)
  BY <1>1 DEF Matches, EncodeDmx, DmxLayout, U, Reserved
<1>3. IsSeq(written) /\ Len(written) = 8 /\ written[8] = <<n, p["data"]>>
  BY DEF IsSeq, EncodeDmx, Range
<1>4. Measured(DmxLayout) /\ Size(DmxLayout) = 16 /\ Len(DmxLayout) = 7
  BY LayoutSizes
<1> HIDE DEF written, n
<1>5. Formatted(written, DmxLayout, p, n)
  BY <1>2, <1>3, <1>4 DEF Formatted
<1>6. ReadsFormat(written, DmxLayout, p, n)
  BY <1>1, <1>4, <1>5, DataFormat
<1>7. ASSUME NEW b, NEW cells, NEW at \in Nat, NEW left \in Nat,
             Reading(b, cells, at, left), Holds(cells, at, written)
      PROVE  BodyOutcome(DecodeDmx(b), b, p, Size(written), left)
  <2> DEFINE h == Fields(Need(b, 16), DmxLayout)
  <2>1. FormatOutcome(h, b, left, DmxLayout, p, n, 16)
    BY <1>4, <1>6, <1>7 DEF ReadsFormat
  <2> HIDE DEF h
  <2>2. h.status = "ok" => h.got.channel_count = n
    <3>1. "channel_count" \in Names(DmxLayout)
      BY DEF Names, DmxLayout, U, Reserved
    <3> QED
      BY <2>1, <3>1 DEF FormatOutcome, Gained, n
  <2>3. DecodeDmx(b) = DataOf(h, n)
    BY <1>1, <2>2 DEF DecodeDmx, DataOf, h
  <2>4. Gained(DataOf(h, n), b, Names(DmxLayout) \cup {"data"}, p) => Told(DataOf(h, n), b, p)
    BY LayoutNames, ToldIfGained
  <2> QED
    BY <1>4, <1>6, <2>1, <2>3, <2>4 DEF FormatOutcome, BodyOutcome, ReadsFormat
<1> QED
  BY <1>3, <1>6, <1>7 DEF ReadsFormat, written

\* A format that is only its fields.
LEMMA InitDecodes ==
  ASSUME NEW p, WellFormed(p), p.packet_type = 5
  PROVE  /\ IsSeq(EncodeSessionInit(p)) /\ Measured(EncodeSessionInit(p))
         /\ \A b, cells : \A at, left \in Nat :
               Reading(b, cells, at, left) /\ Holds(cells, at, EncodeSessionInit(p)) =>
               BodyOutcome(DecodeSessionInit(b), b, p, Size(EncodeSessionInit(p)), left)
<1> DEFINE written == EncodeSessionInit(p)
<1>1. p.video_codec \in VideoCodecs /\ p.audio_codec \in AudioCodecs
  BY DEF WellFormed
<1>2. Matches(written, InitLayout, p)
  BY <1>1 DEF Matches, EncodeSessionInit, InitLayout, U, Reserved
<1>3. IsSeq(written) /\ Len(written) = 8
  BY DEF IsSeq, EncodeSessionInit, Range
<1>4. Measured(InitLayout) /\ Size(InitLayout) = 20 /\ Len(InitLayout) = 8
  BY LayoutSizes
<1> HIDE DEF written
<1>5. Measured(written) /\ Size(written) = Size(InitLayout)
  BY <1>2, <1>3, <1>4, SizeOfMatch DEF IsSeq
<1>6. ASSUME NEW b, NEW cells, NEW at \in Nat, NEW left \in Nat,
             Reading(b, cells, at, left), Holds(cells, at, written)
      PROVE  BodyOutcome(DecodeSessionInit(b), b, p, Size(written), left)
  <2> DEFINE h == Fields(Need(b, 20), InitLayout)
  <2>1. HeadOutcome(h, b, cells, at, left, InitLayout, p, 20)
    BY <1>2, <1>3, <1>4, <1>6, HeadRead
  <2>2. DecodeSessionInit(b) = h
    BY DEF DecodeSessionInit
  <2> HIDE DEF h
  <2>3. Gained(h, b, Names(InitLayout), p) => Told(h, b, p)
    BY LayoutNames, ToldIfGained
  <2>4. Reading(h, cells, at + Len(InitLayout), left - Size(InitLayout)) => h.status = "ok"
    BY DEF Reading
  <2> QED
    BY <1>4, <1>5, <2>1, <2>2, <2>3, <2>4 DEF HeadOutcome, BodyOutcome
<1> QED
  BY <1>3, <1>5, <1>6 DEF written
\* SessionAckPayload.
LEMMA AckDecodes ==
  ASSUME NEW p, WellFormed(p), p.packet_type = 6
  PROVE  /\ IsSeq(EncodeSessionAck(p)) /\ Measured(EncodeSessionAck(p))
         /\ \A b, cells : \A at, left \in Nat :
               Reading(b, cells, at, left) /\ Holds(cells, at, EncodeSessionAck(p)) =>
               BodyOutcome(DecodeSessionAck(b), b, p, Size(EncodeSessionAck(p)), left)
<1> DEFINE written == EncodeSessionAck(p)
<1>2. Matches(written, AckLayout, p)
  BY DEF Matches, EncodeSessionAck, AckLayout, U, Reserved
<1>3. IsSeq(written) /\ Len(written) = 5
  BY DEF IsSeq, EncodeSessionAck, Range
<1>4. Measured(AckLayout) /\ Size(AckLayout) = 16 /\ Len(AckLayout) = 5
  BY LayoutSizes
<1> HIDE DEF written
<1>5. Measured(written) /\ Size(written) = Size(AckLayout)
  BY <1>2, <1>3, <1>4, SizeOfMatch DEF IsSeq
<1>6. ASSUME NEW b, NEW cells, NEW at \in Nat, NEW left \in Nat,
             Reading(b, cells, at, left), Holds(cells, at, written)
      PROVE  BodyOutcome(DecodeSessionAck(b), b, p, Size(written), left)
  <2> DEFINE h == Fields(Need(b, 16), AckLayout)
  <2>1. HeadOutcome(h, b, cells, at, left, AckLayout, p, 16)
    BY <1>2, <1>3, <1>4, <1>6, HeadRead
  <2>2. DecodeSessionAck(b) = h
    BY DEF DecodeSessionAck
  <2> HIDE DEF h
  <2>3. Gained(h, b, Names(AckLayout), p) => Told(h, b, p)
    BY LayoutNames, ToldIfGained
  <2>4. Reading(h, cells, at + Len(AckLayout), left - Size(AckLayout)) => h.status = "ok"
    BY DEF Reading
  <2> QED
    BY <1>4, <1>5, <2>1, <2>2, <2>3, <2>4 DEF HeadOutcome, BodyOutcome
<1> QED
  BY <1>3, <1>5, <1>6 DEF written

-----------------------------------------------------------------------------
(* Packets with lists                                                      *)

\* How reading a list of n records goes, after its length check.
ListOutcome(c, b, cells, at, left, ss, layout, vals, name) ==
    /\ Size(layout) * Len(ss) <= left =>
          /\ Reading(c, cells, at + Len(FlattenSeq(ss)), left - Size(layout) * Len(ss))
          /\ c.got = Listing(b.got, name, Len(ss), vals)
    /\ Size(layout) * Len(ss) > left => c.status = "too_small"

\* The bytes of a list are a number.
LEMMA Product ==
  ASSUME NEW m \in Nat, NEW n \in Nat
  PROVE  m * n \in Nat
OBVIOUS

\* A list is read, or its length check finds too few bytes.
LEMMA ListDecodes ==
  ASSUME NEW ss, NEW layout, NEW vals, NEW b, NEW cells, NEW name, NEW at \in Nat,
         NEW left \in Nat, Measured(layout), IsSeq(ss), ReadsList(ss, layout, vals),
         Reading(b, cells, at, left), Holds(cells, at, FlattenSeq(ss))
  PROVE  ListOutcome(Records(Need(b, Size(layout) * Len(ss)), name, Len(ss), layout),
                     b, cells, at, left, ss, layout, vals, name)
<1> DEFINE n == Len(ss)  need == Size(layout) * n  b2 == Need(b, need)
           c == Records(b2, name, n, layout)
<1>1. need \in Nat
  BY SizeIsNat, SeqFacts, Product
<1>2. need <= left => b2 = b
  BY <1>1, NeedCases
<1>3. need > left => b2.status = "too_small"
  BY <1>1, NeedCases
<1> HIDE DEF b2
<1>4. need <= left => /\ Reading(c, cells, at + Len(FlattenSeq(ss)), left - need)
                      /\ c.got = Listing(b.got, name, n, vals)
  BY <1>2 DEF ReadsList
<1>5. need > left => c.status = "too_small"
  BY <1>3 DEF Records
<1> QED
  BY <1>4, <1>5 DEF ListOutcome, b2

\* A list that was read is one field more.
LEMMA GainedList ==
  ASSUME NEW c, NEW h, NEW b, NEW names, NEW val, NEW name,
         Gained(h, b, names, val), c.got = With(h.got, name, val[name])
  PROVE  Gained(c, b, names \cup {name}, val)
BY DEF Gained, With

\* The lists of a packet.
LEMMA ListFacts ==
  ASSUME NEW s, IsList(s)
  PROVE  /\ Len(s) \in Nat /\ Len(s) < U16 /\ Len(s) % U16 = Len(s)
         /\ DOMAIN s = 1..Len(s) /\ [i \in 1..Len(s) |-> s[i]] = s
<1>1. /\ Len(s) \in Nat /\ Len(s) < U16
      /\ DOMAIN s = 1..Len(s) /\ [i \in 1..Len(s) |-> s[i]] = s
  BY DEF IsList
<1>2. Len(s) % U16 = Len(s)
  <2> DEFINE n == Len(s)
  <2>1. n \in Nat /\ n < 65536
    BY <1>1 DEF U16
  <2> HIDE DEF n
  <2>2. n % 65536 = n
    BY <2>1
  <2> QED
    BY <2>2 DEF n, U16
<1> QED
  BY <1>1, <1>2

\* The tracks of a sync packet are written as TrackLayout reads them.
LEMMA TracksMatch ==
  ASSUME NEW s, IsList(s),
         \A i \in DOMAIN s : IsRecord(s[i], {"track_id", "pts", "offset_us"})
  PROVE  AllMatch([i \in DOMAIN s |-> EncodeTrack(s[i])], TrackLayout, s)
<1> DEFINE ss == [i \in DOMAIN s |-> EncodeTrack(s[i])]
<1>1. Len(s) \in Nat /\ DOMAIN s = 1..Len(s)
  BY ListFacts
<1>2. IsSeq(ss) /\ Len(ss) = Len(s) /\ \A i \in 1..Len(s) : ss[i] = EncodeTrack(s[i])
  BY <1>1 DEF IsSeq, Range
<1>3. ASSUME NEW t, IsRecord(t, {"track_id", "pts", "offset_us"})
      PROVE  /\ IsSeq(EncodeTrack(t)) /\ Len(EncodeTrack(t)) = Len(TrackLayout)
             /\ Matches(EncodeTrack(t), TrackLayout, t) /\ IsRecord(t, Names(TrackLayout))
  <2>1. IsSeq(EncodeTrack(t)) /\ Len(EncodeTrack(t)) = Len(TrackLayout)
    BY DEF IsSeq, Range, EncodeTrack, TrackLayout, U, Reserved
  <2>2. Matches(EncodeTrack(t), TrackLayout, t)
    BY DEF Matches, EncodeTrack, TrackLayout, U, Reserved
  <2>3. Names(TrackLayout) = {"track_id", "pts", "offset_us"}
    BY DEF Names, TrackLayout, U, Reserved
  <2> QED
    BY <1>3, <2>1, <2>2, <2>3
<1> HIDE DEF ss
<1>4. AllMatch(ss, TrackLayout, s)
  BY <1>1, <1>2, <1>3 DEF AllMatch
<1> QED
  BY <1>4 DEF ss

\* SyncPayload, with as many tracks as its 16-bit count can say.
LEMMA SyncDecodes ==
  ASSUME NEW p, WellFormed(p), p.packet_type = 3
  PROVE  /\ IsSeq(EncodeSync(p)) /\ Measured(EncodeSync(p))
         /\ \A b, cells : \A at, left \in Nat :
               Reading(b, cells, at, left) /\ Holds(cells, at, EncodeSync(p)) =>
               BodyOutcome(DecodeSync(b), b, p, Size(EncodeSync(p)), left)
<1> DEFINE ts == p.audio_tracks  n == Len(ts)
           fixed == << <<8, p.reference_timestamp>>, <<8, p.video_pts>>,
                       <<2, n % U16>>, <<2, 0>>, <<4, 0>> >>
           ss == [i \in DOMAIN ts |-> EncodeTrack(ts[i])]
           list == FlattenSeq(ss)
           val == With(p, "track_count", n)
           names == Names(SyncLayout)
<1>1. EncodeSync(p) = fixed \o list
  BY DEF EncodeSync
<1>2. /\ IsList(ts) /\ \A i \in DOMAIN ts : IsRecord(ts[i], {"track_id", "pts", "offset_us"})
      /\ DOMAIN p = CommonFields \cup OwnFields[3]
  BY DEF WellFormed
<1>3. n \in Nat /\ n % U16 = n /\ DOMAIN ts = 1..n /\ [i \in 1..n |-> ts[i]] = ts
  BY <1>2, ListFacts
<1>4. /\ val["reference_timestamp"] = p.reference_timestamp
      /\ val["video_pts"] = p.video_pts /\ val["audio_tracks"] = ts
      /\ val["track_count"] = n
  BY <1>2 DEF With, OwnFields
<1>5. Measured(SyncLayout) /\ Size(SyncLayout) = 24 /\ Len(SyncLayout) = 5
  BY LayoutSizes
<1>6. Measured(TrackLayout) /\ Size(TrackLayout) = 24
  BY LayoutSizes
<1>7. Matches(fixed, SyncLayout, val)
  <2> HIDE DEF val, n
  <2> QED
    BY <1>3, <1>4 DEF Matches, SyncLayout, U, Reserved
<1>8. IsSeq(fixed) /\ Len(fixed) = 5
  BY DEF IsSeq, Range
<1> HIDE DEF fixed, val
<1>9. Measured(fixed) /\ Size(fixed) = 24
  BY <1>5, <1>7, <1>8, SizeOfMatch DEF IsSeq
<1>10. AllMatch(ss, TrackLayout, ts)
  BY <1>2, TracksMatch
<1>11. IsSeq(ss) /\ Len(ss) = n
  BY <1>3, <1>10 DEF AllMatch
<1> HIDE DEF ss
<1>12. ReadsList(ss, TrackLayout, ts)
  BY <1>6, <1>10, ListRead
<1>13. IsSeq(list) /\ Measured(list) /\ Size(list) = 24 * n
  BY <1>6, <1>11, <1>12 DEF ReadsList
<1> HIDE DEF list
<1>14. Together(fixed, list)
  BY <1>8, <1>9, <1>13, BothTogether
<1>15. IsSeq(fixed \o list) /\ Measured(fixed \o list) /\ Size(fixed \o list) = 24 + 24 * n
  BY <1>9, <1>13, <1>14 DEF Together
<1>16. ASSUME NEW b, NEW cells, NEW at \in Nat, NEW left \in Nat,
              Reading(b, cells, at, left), Holds(cells, at, fixed \o list)
       PROVE  BodyOutcome(DecodeSync(b), b, p, 24 + 24 * n, left)
  <2> DEFINE h == Fields(Need(b, 24), SyncLayout)
             c == Records(Need(h, 24 * n), "audio_tracks", n, TrackLayout)
  <2>1. Holds(cells, at, fixed) /\ Holds(cells, at + 5, list)
    BY <1>8, <1>14, <1>16 DEF Together
  <2>2. HeadOutcome(h, b, cells, at, left, SyncLayout, val, 24)
    BY <1>5, <1>7, <1>8, <1>16, <2>1, HeadRead
  <2>3. DecodeSync(b) = IF h.status # "ok" THEN h
                        ELSE Records(Need(h, 24 * h.got.track_count), "audio_tracks",
                                     h.got.track_count, TrackLayout)
    BY DEF DecodeSync
  <2> HIDE DEF h
  <2>4. CASE left < 24
    <3>1. h.status = "too_small"
      BY <1>5, <2>2, <2>4 DEF HeadOutcome
    <3>2. DecodeSync(b) = h
      BY <2>3, <3>1
    <3>3. ~ (24 + 24 * n <= left)
      BY <1>3, <2>4
    <3> QED
      BY <3>1, <3>2, <3>3 DEF BodyOutcome
  <2>5. CASE left >= 24
    <3> DEFINE a == at + 5  l == left - 24
    <3>1. Reading(h, cells, a, l) /\ Gained(h, b, names, val)
      BY <1>5, <2>2, <2>5 DEF HeadOutcome
    <3>2. a \in Nat /\ l \in Nat /\ (24 * n <= l <=> 24 + 24 * n <= left)
      BY <1>3, <2>5
    <3>3. Holds(cells, a, list)
      BY <2>1
    <3> HIDE DEF a, l
    <3>4. h.got.track_count = n
      <4>1. "track_count" \in names
        BY DEF Names, SyncLayout, U, Reserved
      <4> QED
        BY <1>4, <3>1, <4>1 DEF Gained
    <3>5. DecodeSync(b) = c
      <4>1. h.status = "ok"
        BY <3>1 DEF Reading
      <4> QED
        BY <2>3, <3>4, <4>1
    <3>6. ListOutcome(c, h, cells, a, l, ss, TrackLayout, ts, "audio_tracks")
      <4>1. ListOutcome(Records(Need(h, Size(TrackLayout) * Len(ss)), "audio_tracks", Len(ss),
                                TrackLayout),
                        h, cells, a, l, ss, TrackLayout, ts, "audio_tracks")
        BY <1>6, <1>11, <1>12, <3>1, <3>2, <3>3, ListDecodes DEF list
      <4> QED
        BY <1>6, <1>11, <4>1
    <3> HIDE DEF c
    <3>7. CASE 24 * n <= l
      <4>1. c.status = "ok" /\ c.got = Listing(h.got, "audio_tracks", n, ts)
        BY <1>6, <1>11, <3>6, <3>7 DEF ListOutcome, Reading
      <4>2. Gained(c, b, names \cup {"audio_tracks"}, val)
        <5>1. c.got = With(h.got, "audio_tracks", val["audio_tracks"])
          BY <1>3, <1>4, <4>1 DEF Listing
        <5> QED
          BY <3>1, <5>1, GainedList
      <4>3. \A f \in OwnFields[p.packet_type] : val[f] = p[f]
        BY <1>2 DEF val, With, OwnFields
      <4>4. Told(c, b, p)
        BY <4>2, <4>3, LayoutNames, ToldIfGained
      <4> QED
        BY <3>2, <3>5, <3>7, <4>1, <4>4 DEF BodyOutcome
    <3>8. CASE ~ (24 * n <= l)
      <4>1. 24 * n > l
        BY <1>3, <3>2, <3>8
      <4>2. c.status = "too_small"
        BY <1>6, <1>11, <3>6, <4>1 DEF ListOutcome
      <4> QED
        BY <3>2, <3>5, <3>8, <4>2 DEF BodyOutcome
    <3> QED
      BY <3>7, <3>8
  <2> QED
    BY <2>4, <2>5
<1> QED
  BY <1>1, <1>15, <1>16

-----------------------------------------------------------------------------
(* Motion capture: rigid bodies and markers                                *)

\* The fields of a rigid body, ...
BodyFields == {"id", "position", "rotation", "mean_error", "tracking_valid"}

\* ... and of a marker.
MarkerFields == {"id", "position", "size", "params", "residual"}

\* Rigid bodies are written as BodyLayout reads them, ...
LEMMA BodiesMatch ==
  ASSUME NEW s, IsBodies(s)
  PROVE  AllMatch([i \in DOMAIN s |-> EncodeRigidBody(s[i])], BodyLayout, s)
<1> DEFINE ss == [i \in DOMAIN s |-> EncodeRigidBody(s[i])]
<1>1. /\ Len(s) \in Nat /\ DOMAIN s = 1..Len(s)
      /\ \A i \in DOMAIN s : IsRecord(s[i], BodyFields)
  BY DEF IsBodies, BodyFields
<1>2. IsSeq(ss) /\ Len(ss) = Len(s) /\ \A i \in 1..Len(s) : ss[i] = EncodeRigidBody(s[i])
  BY <1>1 DEF IsSeq, Range
<1>3. ASSUME NEW r, IsRecord(r, BodyFields)
      PROVE  /\ IsSeq(EncodeRigidBody(r)) /\ Len(EncodeRigidBody(r)) = Len(BodyLayout)
             /\ Matches(EncodeRigidBody(r), BodyLayout, r) /\ IsRecord(r, Names(BodyLayout))
  <2>1. IsSeq(EncodeRigidBody(r)) /\ Len(EncodeRigidBody(r)) = Len(BodyLayout)
    BY DEF IsSeq, Range, EncodeRigidBody, BodyLayout, U, Reserved
  <2>2. Matches(EncodeRigidBody(r), BodyLayout, r)
    BY DEF Matches, EncodeRigidBody, BodyLayout, U, Reserved
  <2>3. Names(BodyLayout) = BodyFields
    BY DEF Names, BodyLayout, U, Reserved, BodyFields
  <2> QED
    BY <1>3, <2>1, <2>2, <2>3
<1> HIDE DEF ss
<1>4. AllMatch(ss, BodyLayout, s)
  BY <1>1, <1>2, <1>3 DEF AllMatch
<1> QED
  BY <1>4 DEF ss

\* ... and markers as MarkerLayout does.
LEMMA MarkersMatch ==
  ASSUME NEW s, IsList(s), \A i \in DOMAIN s : IsRecord(s[i], MarkerFields)
  PROVE  AllMatch([i \in DOMAIN s |-> EncodeMarker(s[i])], MarkerLayout, s)
<1> DEFINE ss == [i \in DOMAIN s |-> EncodeMarker(s[i])]
<1>1. Len(s) \in Nat /\ DOMAIN s = 1..Len(s)
  BY ListFacts
<1>2. IsSeq(ss) /\ Len(ss) = Len(s) /\ \A i \in 1..Len(s) : ss[i] = EncodeMarker(s[i])
  BY <1>1 DEF IsSeq, Range
<1>3. ASSUME NEW m, IsRecord(m, MarkerFields)
      PROVE  /\ IsSeq(EncodeMarker(m)) /\ Len(EncodeMarker(m)) = Len(MarkerLayout)
             /\ Matches(EncodeMarker(m), MarkerLayout, m) /\ IsRecord(m, Names(MarkerLayout))
  <2>1. IsSeq(EncodeMarker(m)) /\ Len(EncodeMarker(m)) = Len(MarkerLayout)
    BY DEF IsSeq, Range, EncodeMarker, MarkerLayout, U, Reserved
  <2>2. Matches(EncodeMarker(m), MarkerLayout, m)
    BY DEF Matches, EncodeMarker, MarkerLayout, U, Reserved
  <2>3. Names(MarkerLayout) = MarkerFields
    BY DEF Names, MarkerLayout, U, Reserved, MarkerFields
  <2> QED
    BY <1>3, <2>1, <2>2, <2>3
<1> HIDE DEF ss
<1>4. AllMatch(ss, MarkerLayout, s)
  BY <1>1, <1>2, <1>3 DEF AllMatch
<1> QED
  BY <1>4 DEF ss

-----------------------------------------------------------------------------
(* Skeletons                                                               *)

\* A buffer, also after an error.
IsBuffer(b) ==
    b = [cells |-> b.cells, at |-> b.at, left |-> b.left, got |-> b.got, status |-> b.status]

\* A buffer that is being read is one, ...
LEMMA ReadingIsBuffer ==
  ASSUME NEW b, NEW cells, NEW at, NEW left, Reading(b, cells, at, left)
  PROVE  IsBuffer(b)
<1> DEFINE G == b.got
<1>1. b = [cells |-> cells, at |-> at, left |-> left, got |-> G, status |-> "ok"]
  BY DEF Reading
<1> HIDE DEF G
<1> QED
  BY <1>1 DEF IsBuffer

\* ... stays one when what was read changes, ...
LEMMA GotOfBuffer ==
  ASSUME NEW b, NEW got, IsBuffer(b)
  PROVE  IsBuffer([b EXCEPT !.got = got]) /\ [b EXCEPT !.got = got].status = b.status
<1> DEFINE C == b.cells  A == b.at  L == b.left  G == b.got  S == b.status
<1>1. b = [cells |-> C, at |-> A, left |-> L, got |-> G, status |-> S]
  BY DEF IsBuffer
<1> HIDE DEF C, A, L, G, S
<1>2. [b EXCEPT !.got = got] = [cells |-> C, at |-> A, left |-> L, got |-> got, status |-> S]
  BY <1>1
<1>3. b.status = S
  BY <1>1
<1> QED
  BY <1>2, <1>3 DEF IsBuffer

\* ... when there is an error, ...
LEMMA StatusOfBuffer ==
  ASSUME NEW b, NEW status, IsBuffer(b)
  PROVE  IsBuffer(Fail(b, status)) /\ Fail(b, status).got = b.got
<1> DEFINE C == b.cells  A == b.at  L == b.left  G == b.got  S == b.status
<1>1. b = [cells |-> C, at |-> A, left |-> L, got |-> G, status |-> S]
  BY DEF IsBuffer
<1> HIDE DEF C, A, L, G, S
<1>2. [b EXCEPT !.status = status] =
          [cells |-> C, at |-> A, left |-> L, got |-> G, status |-> status]
  BY <1>1
<1>3. IsBuffer([b EXCEPT !.status = status]) /\ [b EXCEPT !.status = status].got = b.got
  BY <1>1, <1>2 DEF IsBuffer
<1> QED
  BY <1>3 DEF Fail

\* ... after a field, ...
LEMMA GetIsBuffer ==
  ASSUME NEW b, NEW f, IsBuffer(b)
  PROVE  IsBuffer(Get(b, f))
<1>1. IsBuffer(Take(b, f))
  <2> DEFINE C == b.cells  A == b.at  L == b.left  G == b.got  S == b.status
             X == A + 1  Y == L - f[1]  Z == With(G, f[2], C[A][2])
             got == IF f[2] = "reserved" THEN G ELSE Z
  <2>1. b = [cells |-> C, at |-> A, left |-> L, got |-> G, status |-> S]
    BY DEF IsBuffer
  <2>2. Take(b, f) = IF f[3] # {} /\ C[A][2] \notin f[3] THEN Fail(b, "refused")
                     ELSE [b EXCEPT !.at = X, !.left = Y, !.got = got]
    BY DEF Take
  <2> HIDE DEF C, A, L, G, S, X, Y, Z, got
  <2>3. [b EXCEPT !.at = X, !.left = Y, !.got = got] =
            [cells |-> C, at |-> X, left |-> Y, got |-> got, status |-> S]
    <3> DEFINE c == [b EXCEPT !.at = X]  d == [c EXCEPT !.left = Y]
    <3>1. c = [cells |-> C, at |-> X, left |-> L, got |-> G, status |-> S]
      BY <2>1
    <3> HIDE DEF c
    <3>2. d = [cells |-> C, at |-> X, left |-> Y, got |-> G, status |-> S]
      BY <3>1
    <3> HIDE DEF d
    <3>3. [d EXCEPT !.got = got] =
              [cells |-> C, at |-> X, left |-> Y, got |-> got, status |-> S]
      BY <3>2
    <3> QED
      BY <3>3 DEF c, d
  <2>4. IsBuffer([b EXCEPT !.at = X, !.left = Y, !.got = got])
    BY <2>3 DEF IsBuffer
  <2> QED
    BY <2>2, <2>4, StatusOfBuffer
<1> QED
  BY <1>1, StatusOfBuffer DEF Get

\* ... after a layout, ...
LEMMA FieldsIsBuffer ==
  ASSUME NEW b, NEW layout, Len(layout) \in Nat, IsBuffer(b)
  PROVE  IsBuffer(Fields(b, layout))
<1> DEFINE n == Len(layout)
<1>1. PICK read : /\ read[0] = b /\ read[n] = Fields(b, layout)
                  /\ \A i \in 1..n : read[i] = Get(read[i - 1], layout[i])
  BY FieldsSteps
<1> DEFINE S == {k \in Nat : k \in 0..n => IsBuffer(read[k])}
<1>2. 0 \in S
  BY <1>1
<1>3. ASSUME NEW k \in Nat, k \in S PROVE k + 1 \in S
  <2>1. CASE k + 1 \in 1..n
    <3>1. k \in 0..n /\ (k + 1) - 1 = k
      BY <2>1
    <3>2. read[k + 1] = Get(read[k], layout[k + 1]) /\ IsBuffer(read[k])
      BY <1>1, <1>3, <2>1, <3>1
    <3>3. IsBuffer(read[k + 1])
      BY <3>2, GetIsBuffer
    <3> QED
      BY <3>3
  <2> QED
    BY <2>1
<1>4. n \in S
  <2> HIDE DEF S
  <2> QED BY <1>2, <1>3, Induction
<1> QED
  BY <1>1, <1>4

\* ... and after a length check.
LEMMA NeedIsBuffer ==
  ASSUME NEW b, NEW n, IsBuffer(b)
  PROVE  IsBuffer(Need(b, n)) /\ Need(b, n).got = b.got
BY StatusOfBuffer DEF Need

\* How decoding the skeleton s goes.
SkeletonOutcome(c, cells, at, left, s) ==
    /\ IsBuffer(c)
    /\ Size(EncodeSkeleton(s)) <= left =>
          /\ Reading(c, cells, at + Len(EncodeSkeleton(s)), left - Size(EncodeSkeleton(s)))
          /\ c.got = s
    /\ Size(EncodeSkeleton(s)) > left => c.status = "too_small"

\* Wherever it was written, decoding it goes so.
ReadsSkeleton(s) ==
    /\ IsSeq(EncodeSkeleton(s)) /\ Measured(EncodeSkeleton(s))
    /\ \A b, cells : \A at, left \in Nat :
          Reading(b, cells, at, left) /\ Holds(cells, at, EncodeSkeleton(s)) =>
          SkeletonOutcome(DecodeSkeleton(b), cells, at, left, s)

\* Every skeleton, with any number of bones.
LEMMA SkeletonRead ==
  ASSUME NEW s, IsRecord(s, {"id", "bones"}), IsBodies(s.bones)
  PROVE  ReadsSkeleton(s)
<1> DEFINE bones == s.bones  n == Len(bones)
           fixed == << <<4, s.id>>, <<4, n>> >>
           ss == [i \in DOMAIN bones |-> EncodeRigidBody(bones[i])]
           list == FlattenSeq(ss)
           val == [id |-> s.id, bone_count |-> n]
           names == Names(SkeletonLayout)
           written == fixed \o list
<1>1. EncodeSkeleton(s) = written
  BY DEF EncodeSkeleton
<1>2. n \in Nat /\ DOMAIN bones = 1..n /\ [i \in 1..n |-> bones[i]] = bones
  BY DEF IsBodies
<1>3. Measured(SkeletonLayout) /\ Size(SkeletonLayout) = 8 /\ Len(SkeletonLayout) = 2
  BY LayoutSizes
<1>4. Measured(BodyLayout) /\ Size(BodyLayout) = 38
  BY LayoutSizes
<1>5. Matches(fixed, SkeletonLayout, val)
  <2> HIDE DEF n
  <2> QED
    BY DEF Matches, SkeletonLayout, U
<1>6. IsSeq(fixed) /\ Len(fixed) = 2
  BY DEF IsSeq, Range
<1>7. names = {"id", "bone_count"} /\ val["id"] = s.id /\ val["bone_count"] = n
  BY DEF Names, SkeletonLayout, U
<1> HIDE DEF fixed, val, names
<1>8. Measured(fixed) /\ Size(fixed) = 8
  BY <1>3, <1>5, <1>6, SizeOfMatch DEF IsSeq
<1>9. AllMatch(ss, BodyLayout, bones)
  BY BodiesMatch
<1>10. IsSeq(ss) /\ Len(ss) = n
  BY <1>2, <1>9 DEF AllMatch
<1> HIDE DEF ss
<1>11. ReadsList(ss, BodyLayout, bones)
  BY <1>4, <1>9, ListRead
<1>12. IsSeq(list) /\ Measured(list) /\ Size(list) = 38 * n
  BY <1>4, <1>10, <1>11 DEF ReadsList
<1>13. Together(fixed, list)
  BY <1>6, <1>8, <1>12, BothTogether
<1>14. /\ IsSeq(written) /\ Measured(written) /\ Size(written) = 8 + 38 * n
       /\ Len(written) = 2 + Len(list) /\ Len(list) \in Nat
  BY <1>6, <1>8, <1>12, <1>13, SeqFacts DEF Together
<1>15. ASSUME NEW b, NEW cells, NEW at \in Nat, NEW left \in Nat,
              Reading(b, cells, at, left), Holds(cells, at, written)
       PROVE  /\ IsBuffer(DecodeSkeleton(b))
              /\ 8 + 38 * n <= left =>
                    /\ Reading(DecodeSkeleton(b), cells, at + (2 + Len(list)),
                               left - (8 + 38 * n))
                    /\ DecodeSkeleton(b).got = s
              /\ 8 + 38 * n > left => DecodeSkeleton(b).status = "too_small"
  <2> DEFINE h == Fields(Need(b, 8), SkeletonLayout)
             b1 == Need(h, 38 * n)
             b2 == [b1 EXCEPT !.got = [id |-> s.id]]
             c == Records(b2, "bones", n, BodyLayout)
  <2>1. Holds(cells, at, fixed) /\ Holds(cells, at + 2, list)
    BY <1>6, <1>13, <1>15 DEF Together
  <2>2. HeadOutcome(h, b, cells, at, left, SkeletonLayout, val, 8)
    BY <1>3, <1>5, <1>6, <1>15, <2>1, HeadRead
  <2>3. IsBuffer(h)
    BY <1>3, <1>15, ReadingIsBuffer, NeedIsBuffer, FieldsIsBuffer
  <2>4. DecodeSkeleton(b) =
            IF h.status # "ok" THEN h
            ELSE Records([Need(h, 38 * h.got.bone_count) EXCEPT
                             !.got = [id |-> Need(h, 38 * h.got.bone_count).got.id]],
                         "bones", h.got.bone_count, BodyLayout)
    BY DEF DecodeSkeleton
  <2> HIDE DEF h
  <2>5. CASE left < 8
    <3>1. h.status = "too_small"
      BY <1>3, <2>2, <2>5 DEF HeadOutcome
    <3>2. DecodeSkeleton(b) = h
      BY <2>4, <3>1
    <3>3. ~ (8 + 38 * n <= left)
      BY <1>2, <2>5
    <3> QED
      BY <2>3, <3>1, <3>2, <3>3
  <2>6. CASE left >= 8
    <3> DEFINE a == at + 2  l == left - 8
    <3>1. Reading(h, cells, a, l) /\ Gained(h, b, names, val)
      BY <1>3, <2>2, <2>6 DEF HeadOutcome, names
    <3>2. /\ a \in Nat /\ l \in Nat /\ (38 * n <= l <=> 8 + 38 * n <= left)
          /\ a + Len(list) = at + (2 + Len(list)) /\ 38 * n \in Nat
          /\ l - 38 * n = left - (8 + 38 * n)
      BY <1>2, <1>14, <2>6
    <3>3. Holds(cells, a, list)
      BY <2>1
    <3> HIDE DEF a, l
    <3>4. h.got.bone_count = n /\ h.got.id = s.id /\ h.status = "ok"
      BY <1>7, <3>1 DEF Gained, Reading
    <3>5. IsBuffer(b1) /\ b1.got = h.got
      BY <2>3, NeedIsBuffer
    <3>6. DecodeSkeleton(b) = c
      BY <2>4, <3>4, <3>5
    <3>7. IsBuffer(b2) /\ b2.status = b1.status
      <4> HIDE DEF b1
      <4> QED
        BY <3>5, GotOfBuffer
    <3>8. /\ 38 * n <= l => b1 = h
          /\ 38 * n > l => b1.status = "too_small"
      BY <3>1, <3>2, NeedCases
    <3> HIDE DEF b1
    <3>9. CASE 38 * n <= l
      <4> DEFINE got == [id |-> s.id]
      <4>1. got = [f \in DOMAIN got |-> got[f]]
        OBVIOUS
      <4> HIDE DEF got
      <4>2. Reading([h EXCEPT !.got = got], cells, a, l) /\ [h EXCEPT !.got = got].got = got
        BY <3>1, <4>1, GotReplaced
      <4>3. Reading(b2, cells, a, l) /\ b2.got = got
        BY <3>8, <3>9, <4>2 DEF got
      <4> HIDE DEF b2
      <4>4. /\ Reading(c, cells, a + Len(list), l - 38 * n)
            /\ c.got = Listing(got, "bones", n, bones)
        BY <1>4, <1>10, <1>11, <3>2, <3>3, <3>9, <4>3 DEF ReadsList
      <4>5. c.got = s
        <5>1. s = [f \in {"id", "bones"} |-> s[f]]
          BY DEF IsRecord
        <5>2. Listing(got, "bones", n, bones) = With(got, "bones", bones)
          BY <1>2 DEF Listing
        <5>3. With(got, "bones", bones) = [f \in {"id", "bones"} |-> s[f]]
          BY DEF With, got
        <5> QED
          BY <4>4, <5>1, <5>2, <5>3
      <4> HIDE DEF c
      <4>6. IsBuffer(c)
        BY <4>4, ReadingIsBuffer
      <4>7. ~ (8 + 38 * n > left)
        BY <3>2, <3>9
      <4> QED
        BY <3>2, <3>6, <4>4, <4>5, <4>6, <4>7
    <3>10. CASE ~ (38 * n <= l)
      <4>1. b2.status = "too_small" /\ c = b2
        BY <3>2, <3>7, <3>8, <3>10 DEF Records
      <4>2. ~ (8 + 38 * n <= left)
        BY <3>2, <3>10
      <4> QED
        BY <3>6, <3>7, <4>1, <4>2
    <3> QED
      BY <3>9, <3>10
  <2>7. left < 8 \/ left >= 8
    OBVIOUS
  <2> QED
    BY <2>5, <2>6, <2>7, Zenon
<1> QED
  BY <1>1, <1>14, <1>15 DEF ReadsSkeleton, SkeletonOutcome

\* g is what Skeletons computes, up to k skeletons.
IsSkeletonList(g, b, k) ==
    g = [i \in 0..k |-> IF i = 0 THEN Empty(b, "skeletons") ELSE NextSkeleton(g[i - 1])]

\* all[i] is the buffer after i skeletons.
AllSkeletons(all, b, n) ==
    /\ all[0] = Empty(b, "skeletons") /\ all[n] = Skeletons(b, n)
    /\ \A i \in 1..n : all[i] = NextSkeleton(all[i - 1])

\* Skeletons reads the skeletons, one after the other.
LEMMA SkeletonsSteps ==
  ASSUME NEW b, NEW n \in Nat, b.status = "ok"
  PROVE  \E all : AllSkeletons(all, b, n)
<1> DEFINE S == {k \in Nat : \E g : IsSkeletonList(g, b, k)}
<1>1. 0 \in S
  <2> DEFINE h == [i \in 0..0 |-> Empty(b, "skeletons")]
  <2>1. IsSkeletonList(h, b, 0)
    BY DEF IsSkeletonList
  <2> QED
    BY <2>1
<1>2. ASSUME NEW k \in Nat, k \in S PROVE k + 1 \in S
  <2>1. PICK g : IsSkeletonList(g, b, k)
    BY <1>2
  <2> DEFINE h == [i \in 0..(k + 1) |-> IF i = k + 1 THEN NextSkeleton(g[k]) ELSE g[i]]
  <2>2. IsSkeletonList(h, b, k + 1)
    BY <2>1 DEF IsSkeletonList
  <2> HIDE DEF h
  <2> QED
    BY <2>2
<1>3. n \in S
  <2> HIDE DEF S
  <2> QED BY <1>1, <1>2, Induction
<1> DEFINE all == CHOOSE g : IsSkeletonList(g, b, n)
<1>4. IsSkeletonList(all, b, n)
  BY <1>3
<1>5. all[n] = Skeletons(b, n)
  BY DEF Skeletons, IsSkeletonList
<1> HIDE DEF all
<1>6. AllSkeletons(all, b, n)
  BY <1>4, <1>5 DEF IsSkeletonList, AllSkeletons
<1> QED
  BY <1>6

\* How reading the skeletons s goes.
SkeletonsOutcome(c, b, cells, at, left, s, written) ==
    /\ Size(written) <= left =>
          /\ Reading(c, cells, at + Len(written), left - Size(written))
          /\ c.got = Listing(b.got, "skeletons", Len(s), s)
    /\ Size(written) > left => c.status = "too_small"

\* Wherever they were written, reading them goes so.
ReadsSkeletons(s, written) ==
    /\ IsSeq(written) /\ Measured(written)
    /\ \A b, cells : \A at, left \in Nat :
          Reading(b, cells, at, left) /\ Holds(cells, at, written) =>
          SkeletonsOutcome(Skeletons(b, Len(s)), b, cells, at, left, s, written)

\* Any number of skeletons, with any numbers of bones.
LEMMA SkeletonsRead ==
  ASSUME NEW s, IsSkeletons(s)
  PROVE  ReadsSkeletons(s, FlattenSeq([i \in DOMAIN s |-> EncodeSkeleton(s[i])]))
<1> DEFINE n == Len(s)
           ss == [i \in DOMAIN s |-> EncodeSkeleton(s[i])]
           F == FlattenSeq(ss)
           C == UNION {Range(ss[i]) : i \in 1..n}
<1>1. n \in Nat /\ DOMAIN s = 1..n
  BY ListFacts DEF IsSkeletons
<1>2. IsSeq(ss) /\ Len(ss) = n /\ \A i \in 1..n : ss[i] = EncodeSkeleton(s[i])
  BY <1>1 DEF IsSeq, Range
<1>3. \A i \in 1..n : ReadsSkeleton(s[i])
  BY <1>1, SkeletonRead DEF IsSkeletons
<1> HIDE DEF ss
<1>4. \A i \in 1..n : ss[i] \in Seq(C) /\ Measured(ss[i])
  <2> SUFFICES ASSUME NEW i \in 1..n PROVE ss[i] \in Seq(C) /\ Measured(ss[i])
    OBVIOUS
  <2>1. IsSeq(ss[i]) /\ Measured(ss[i]) /\ Range(ss[i]) \subseteq C
    BY <1>2, <1>3 DEF ReadsSkeleton
  <2> HIDE DEF C
  <2> QED
    BY <2>1, SeqFacts, SeqWidens
<1> HIDE DEF C
<1>5. ss \in Seq(Seq(C))
  BY <1>2, <1>4, SeqWidens
<1>6. /\ Measured(F) /\ F \in Seq(C)
      /\ \E tot \in [0..Len(ss) -> Nat] :
            /\ tot[0] = 0 /\ tot[Len(ss)] = Size(F)
            /\ \A i \in 1..Len(ss) : tot[i] = tot[i - 1] + Size(ss[i])
  BY <1>2, <1>4, <1>5, SizeOfEach
<1>7. PICK tot \in [0..n -> Nat] :
          /\ tot[0] = 0 /\ tot[n] = Size(F)
          /\ \A i \in 1..n : tot[i] = tot[i - 1] + Size(ss[i])
  BY <1>2, <1>6
<1>8. IsSeq(F)
  BY <1>6, SeqIs
<1>9. ASSUME NEW b, NEW cells, NEW at \in Nat, NEW left \in Nat,
             Reading(b, cells, at, left), Holds(cells, at, F)
      PROVE  SkeletonsOutcome(Skeletons(b, n), b, cells, at, left, s, F)
  <2>1. PICK pos \in [1..(n + 1) -> Nat] :
            /\ pos[1] = at /\ pos[n + 1] = at + Len(F)
            /\ \A i \in 1..n : /\ pos[i + 1] = pos[i] + Len(ss[i])
                               /\ Holds(cells, pos[i], ss[i])
    BY <1>2, <1>5, <1>9, HoldsEach
  <2>2. b.status = "ok"
    BY <1>9 DEF Reading
  <2>3. PICK all : AllSkeletons(all, b, n)
    BY <1>1, <2>2, SkeletonsSteps
  <2> DEFINE Good(k) == /\ Reading(all[k], cells, pos[k + 1], left - tot[k])
                        /\ all[k].got = Listing(b.got, "skeletons", k, s)
             TooFew(k) == all[k].status = "too_small"
             S == {k \in Nat : k \in 0..n => IF tot[k] <= left THEN Good(k) ELSE TooFew(k)}
  <2>4. 0 \in S
    <3>1. /\ Reading(all[0], cells, at, left)
          /\ all[0].got = With(b.got, "skeletons", <<>>)
      BY <1>9, <2>3, EmptyReads DEF AllSkeletons
    <3>2. [i \in 1..0 |-> s[i]] = <<>> /\ left - tot[0] = left /\ 0 + 1 = 1 /\ tot[0] <= left
      BY <1>7
    <3> QED
      BY <2>1, <3>1, <3>2 DEF Listing
  <2>5. ASSUME NEW k \in Nat, k \in S PROVE k + 1 \in S
    <3> SUFFICES ASSUME k + 1 \in 1..n
                 PROVE  IF tot[k + 1] <= left THEN Good(k + 1) ELSE TooFew(k + 1)
      OBVIOUS
    <3> DEFINE c == all[k]  f == Fresh(c)  d == DecodeSkeleton(f)  v == s[k + 1]
               e == EncodeSkeleton(v)  p == pos[k + 1]  l == left - tot[k]
    <3>1. /\ k \in 0..n /\ (k + 1) - 1 = k /\ k + 1 \in 1..(n + 1) /\ k + 1 \in 0..n
          /\ (k + 1) + 1 \in 1..(n + 1)
      BY <1>1
    <3>2. /\ p \in Nat /\ pos[(k + 1) + 1] = p + Len(e) /\ Holds(cells, p, e)
          /\ tot[k + 1] = tot[k] + Size(e) /\ tot[k] \in Nat
          /\ ReadsSkeleton(v) /\ all[k + 1] = NextSkeleton(c)
      BY <1>2, <1>3, <1>7, <2>1, <2>3, <3>1 DEF AllSkeletons
    <3>3. Size(e) \in Nat
      BY <3>2, SizeIsNat DEF ReadsSkeleton
    <3>4. NextSkeleton(c) = IF c.status = "ok" THEN Added(c, "skeletons", d) ELSE c
      BY DEF NextSkeleton
    <3>5. CASE tot[k] > left
      <4>1. TooFew(k) /\ ~ (tot[k + 1] <= left)
        BY <2>5, <3>1, <3>2, <3>3, <3>5
      <4>2. TooFew(k + 1)
        BY <3>2, <3>4, <4>1
      <4> QED
        BY <4>1, <4>2
    <3>6. CASE tot[k] <= left
      <4>1. Reading(c, cells, p, l) /\ c.got = Listing(b.got, "skeletons", k, s)
        BY <2>5, <3>1, <3>6
      <4>2. /\ l \in Nat /\ (Size(e) <= l <=> tot[k + 1] <= left)
            /\ Size(e) <= l => l - Size(e) = left - tot[k + 1]
        <5> DEFINE x == tot[k]  y == tot[k + 1]  z == Size(e)
        <5>1. x \in Nat /\ z \in Nat /\ y = x + z /\ x <= left
          BY <3>2, <3>3, <3>6
        <5> HIDE DEF x, y, z
        <5>2. /\ left - x \in Nat /\ (z <= left - x <=> y <= left)
              /\ z <= left - x => (left - x) - z = left - y
          BY <5>1
        <5> QED
          BY <5>2 DEF x, y, z
      <4> HIDE DEF c, l, p, e
      <4>3. Reading(f, cells, p, l)
        BY <4>1, FreshReads
      <4>4. SkeletonOutcome(d, cells, p, l, v)
        BY <3>2, <4>2, <4>3 DEF ReadsSkeleton, e
      <4> HIDE DEF d, f
      <4>5. all[k + 1] = Added(c, "skeletons", d)
        <5>1. c.status = "ok"
          BY <4>1 DEF Reading
        <5> QED
          BY <3>2, <3>4, <5>1
      <4>6. CASE Size(e) <= l
        <5> DEFINE x == p + Len(e)  y == l - Size(e)
        <5>1. Reading(d, cells, x, y) /\ d.got = v
          BY <4>4, <4>6 DEF SkeletonOutcome, e
        <5> HIDE DEF x, y
        <5>2. /\ Reading(Added(c, "skeletons", d), cells, x, y)
              /\ Added(c, "skeletons", d).got = Longer(c.got, "skeletons", d.got)
          BY <5>1, AddedReads
        <5>3. Longer(c.got, "skeletons", v) = Listing(b.got, "skeletons", k + 1, s)
          BY <4>1, OneMore
        <5>4. x = pos[(k + 1) + 1] /\ y = left - tot[k + 1]
          BY <3>2, <4>2, <4>6 DEF x, y
        <5>5. Good(k + 1)
          BY <4>5, <5>1, <5>2, <5>3, <5>4
        <5> QED
          BY <4>2, <4>6, <5>5
      <4>7. CASE Size(e) > l
        <5>1. IsBuffer(d) /\ d.status = "too_small"
          BY <4>4, <4>7 DEF SkeletonOutcome, e
        <5>2. Added(c, "skeletons", d).status = "too_small"
          BY <5>1, GotOfBuffer DEF Added
        <5>3. ~ (Size(e) <= l)
          BY <3>3, <4>2, <4>7
        <5> QED
          BY <4>2, <4>5, <5>2, <5>3
      <4>8. Size(e) <= l \/ Size(e) > l
        BY <3>3, <4>2
      <4> QED
        BY <4>6, <4>7, <4>8
    <3>7. tot[k] <= left \/ tot[k] > left
      BY <3>2
    <3> QED
      BY <3>5, <3>6, <3>7
  <2>6. n \in S
    <3> HIDE DEF S
    <3> QED
      BY <1>1, <2>4, <2>5, Induction
  <2>7. IF tot[n] <= left THEN Good(n) ELSE TooFew(n)
    BY <1>1, <2>6
  <2>8. tot[n] = Size(F) /\ all[n] = Skeletons(b, n) /\ Size(F) \in Nat
    BY <1>1, <1>7, <2>3 DEF AllSkeletons
  <2> QED
    BY <2>1, <2>7, <2>8 DEF SkeletonsOutcome
<1>10. ReadsSkeletons(s, F)
  BY <1>6, <1>8, <1>9 DEF ReadsSkeletons
<1> QED
  BY <1>10 DEF ss

\* MocapPayload: three lists, one behind the other, each after its own check.
LEMMA MocapDecodes ==
  ASSUME NEW p, WellFormed(p), p.packet_type = 9
  PROVE  /\ IsSeq(EncodeMocap(p)) /\ Measured(EncodeMocap(p))
         /\ \A b, cells : \A at, left \in Nat :
               Reading(b, cells, at, left) /\ Holds(cells, at, EncodeMocap(p)) =>
               BodyOutcome(DecodeMocap(b), b, p, Size(EncodeMocap(p)), left)
<1> DEFINE s1 == p.rigid_bodies  s2 == p.skeletons  s3 == p.labeled_markers
           n1 == Len(s1)  n2 == Len(s2)  n3 == Len(s3)
           fixed == << <<8, p.pts>>, <<4, p.frame_number>>, <<4, p.timecode>>,
                       <<4, p.timecode_subframe>>, <<8, p.mocap_timestamp>>,
                       <<2, n1 % U16>>, <<2, n2 % U16>>, <<2, n3 % U16>>, <<2, p.params>> >>
           ss1 == [i \in DOMAIN s1 |-> EncodeRigidBody(s1[i])]
           ss3 == [i \in DOMAIN s3 |-> EncodeMarker(s3[i])]
           f1 == FlattenSeq(ss1)
           f2 == FlattenSeq([i \in DOMAIN s2 |-> EncodeSkeleton(s2[i])])
           f3 == FlattenSeq(ss3)
           val == With(With(With(p, "rigid_body_count", n1), "skeleton_count", n2),
                       "labeled_marker_count", n3)
           names == Names(MocapLayout)
           written == ((fixed \o f1) \o f2) \o f3
<1>1. EncodeMocap(p) = written
  BY DEF EncodeMocap
<1>2. /\ IsList(s1) /\ IsBodies(s1) /\ IsSkeletons(s2) /\ IsList(s2)
      /\ IsList(s3) /\ \A i \in DOMAIN s3 : IsRecord(s3[i], MarkerFields)
      /\ DOMAIN p = CommonFields \cup OwnFields[9]
  BY DEF WellFormed, MarkerFields, IsSkeletons
<1>3. /\ n1 \in Nat /\ n1 % U16 = n1 /\ DOMAIN s1 = 1..n1 /\ [i \in 1..n1 |-> s1[i]] = s1
      /\ n2 \in Nat /\ n2 % U16 = n2 /\ DOMAIN s2 = 1..n2 /\ [i \in 1..n2 |-> s2[i]] = s2
      /\ n3 \in Nat /\ n3 % U16 = n3 /\ DOMAIN s3 = 1..n3 /\ [i \in 1..n3 |-> s3[i]] = s3
  BY <1>2, ListFacts
<1>4. /\ val["pts"] = p.pts /\ val["frame_number"] = p.frame_number
      /\ val["timecode"] = p.timecode /\ val["timecode_subframe"] = p.timecode_subframe
      /\ val["mocap_timestamp"] = p.mocap_timestamp /\ val["params"] = p.params
      /\ val["rigid_bodies"] = s1 /\ val["skeletons"] = s2 /\ val["labeled_markers"] = s3
      /\ val["rigid_body_count"] = n1 /\ val["skeleton_count"] = n2
      /\ val["labeled_marker_count"] = n3
  <2> HIDE DEF n1, n2, n3
  <2> QED
    BY <1>2 DEF With, OwnFields
<1>5. \A f \in OwnFields[9] : val[f] = p[f]
  <2> HIDE DEF n1, n2, n3
  <2> QED
    BY <1>2 DEF With, OwnFields
<1>6. Measured(MocapLayout) /\ Size(MocapLayout) = 36 /\ Len(MocapLayout) = 9
  BY LayoutSizes
<1>7. /\ Measured(BodyLayout) /\ Size(BodyLayout) = 38
      /\ Measured(MarkerLayout) /\ Size(MarkerLayout) = 26
  BY LayoutSizes
<1> HIDE DEF val
<1>8. Matches(fixed, MocapLayout, val)
  <2> HIDE DEF n1, n2, n3
  <2> QED
    BY <1>3, <1>4 DEF Matches, MocapLayout, U
<1>9. IsSeq(fixed) /\ Len(fixed) = 9
  BY DEF IsSeq, Range
<1>10. /\ "rigid_body_count" \in names /\ "skeleton_count" \in names
       /\ "labeled_marker_count" \in names
  BY DEF Names, MocapLayout, U
<1> HIDE DEF fixed, names
<1>11. Measured(fixed) /\ Size(fixed) = 36
  BY <1>6, <1>8, <1>9, SizeOfMatch DEF IsSeq
<1>12. AllMatch(ss1, BodyLayout, s1) /\ AllMatch(ss3, MarkerLayout, s3)
  BY <1>2, BodiesMatch, MarkersMatch
<1>13. IsSeq(ss1) /\ Len(ss1) = n1 /\ IsSeq(ss3) /\ Len(ss3) = n3
  BY <1>3, <1>12 DEF AllMatch
<1> HIDE DEF ss1, ss3
<1>14. ReadsList(ss1, BodyLayout, s1) /\ ReadsList(ss3, MarkerLayout, s3)
  BY <1>7, <1>12, ListRead
<1>15. ReadsSkeletons(s2, f2)
  BY <1>2, SkeletonsRead
<1>16. /\ IsSeq(f1) /\ Measured(f1) /\ Size(f1) = 38 * n1
       /\ IsSeq(f3) /\ Measured(f3) /\ Size(f3) = 26 * n3
       /\ IsSeq(f2) /\ Measured(f2)
  BY <1>7, <1>13, <1>14, <1>15 DEF ReadsList, ReadsSkeletons
<1> DEFINE size2 == Size(f2)
<1>17. size2 \in Nat
  BY <1>16, SizeIsNat
<1> HIDE DEF f1, f2, f3
<1>18. Together(fixed, f1)
  BY <1>9, <1>11, <1>16, BothTogether
<1>19. Together(fixed \o f1, f2)
  BY <1>16, <1>18, BothTogether DEF Together
<1>20. Together((fixed \o f1) \o f2, f3)
  BY <1>16, <1>19, BothTogether DEF Together
<1>21. /\ IsSeq(written) /\ Measured(written)
       /\ Size(written) = 36 + 38 * n1 + size2 + 26 * n3
  BY <1>11, <1>16, <1>18, <1>19, <1>20 DEF Together
<1>22. /\ Len(fixed \o f1) = 9 + Len(f1)
       /\ Len((fixed \o f1) \o f2) = (9 + Len(f1)) + Len(f2)
       /\ Len(f1) \in Nat /\ Len(f2) \in Nat /\ Len(f3) \in Nat
  BY <1>9, <1>16, <1>18, <1>19, SeqFacts DEF Together
<1>23. 38 * n1 \in Nat /\ 26 * n3 \in Nat
  BY <1>3
<1>24. ASSUME NEW b, NEW cells, NEW at \in Nat, NEW left \in Nat,
              Reading(b, cells, at, left), Holds(cells, at, written)
       PROVE  BodyOutcome(DecodeMocap(b), b, p, 36 + 38 * n1 + size2 + 26 * n3, left)
  <2> DEFINE a1 == at + 9  a2 == a1 + Len(f1)  a3 == a2 + Len(f2)
             size == 36 + 38 * n1 + size2 + 26 * n3
             h == Fields(Need(b, 36), MocapLayout)
             b1 == Records(Need(h, 38 * n1), "rigid_bodies", n1, BodyLayout)
             b2 == Skeletons(b1, n2)
             b3 == Records(Need(b2, 26 * n3), "labeled_markers", n3, MarkerLayout)
  <2>1. a1 \in Nat /\ a2 \in Nat /\ a3 \in Nat
    BY <1>22
  <2>2. /\ Holds(cells, at, fixed) /\ Holds(cells, a1, f1)
        /\ Holds(cells, a2, f2) /\ Holds(cells, a3, f3)
    <3>1. Holds(cells, at, (fixed \o f1) \o f2) /\ Holds(cells, at + ((9 + Len(f1)) + Len(f2)), f3)
      BY <1>20, <1>22, <1>24 DEF Together
    <3>2. Holds(cells, at, fixed \o f1) /\ Holds(cells, at + (9 + Len(f1)), f2)
      BY <1>19, <1>22, <3>1 DEF Together
    <3>3. Holds(cells, at, fixed) /\ Holds(cells, at + 9, f1)
      BY <1>9, <1>18, <3>2 DEF Together
    <3>4. a2 = at + (9 + Len(f1)) /\ a3 = at + ((9 + Len(f1)) + Len(f2))
      BY <1>22
    <3> QED
      BY <3>1, <3>2, <3>3, <3>4
  <2> HIDE DEF a1, a2, a3
  <2>3. HeadOutcome(h, b, cells, at, left, MocapLayout, val, 36)
    BY <1>6, <1>8, <1>9, <1>24, <2>2, HeadRead
  <2>4. DecodeMocap(b) =
            IF h.status # "ok" THEN h
            ELSE Records(Need(Skeletons(Records(Need(h, 38 * h.got.rigid_body_count),
                                                "rigid_bodies", h.got.rigid_body_count,
                                                BodyLayout),
                                        h.got.skeleton_count),
                              26 * h.got.labeled_marker_count),
                         "labeled_markers", h.got.labeled_marker_count, MarkerLayout)
    BY DEF DecodeMocap
  <2> HIDE DEF h, size
  <2> SUFFICES BodyOutcome(DecodeMocap(b), b, p, size, left)
    BY DEF size
  <2>5. CASE left < 36
    <3>1. h.status = "too_small"
      BY <1>6, <2>3, <2>5 DEF HeadOutcome
    <3>2. DecodeMocap(b) = h
      BY <2>4, <3>1
    <3>3. ~ (size <= left)
      BY <1>17, <1>23, <2>5 DEF size
    <3> QED
      BY <3>1, <3>2, <3>3 DEF BodyOutcome
  <2>6. CASE left >= 36
    <3> DEFINE l1 == left - 36  l2 == l1 - 38 * n1  l3 == l2 - size2
    <3>1. Reading(h, cells, a1, l1) /\ Gained(h, b, names, val)
      BY <1>6, <2>3, <2>6 DEF HeadOutcome, names, a1
    <3>2. /\ l1 \in Nat /\ (38 * n1 <= l1 => l2 \in Nat)
          /\ 38 * n1 <= l1 /\ size2 <= l2 => l3 \in Nat
          /\ size <= left <=> 38 * n1 <= l1 /\ size2 <= l2 /\ 26 * n3 <= l3
          /\ size <= left => ~ (size > left)
      <4> DEFINE x == 38 * n1  z == 26 * n3
      <4>1. x \in Nat /\ z \in Nat /\ size2 \in Nat
        BY <1>17, <1>23
      <4> HIDE DEF x, z, size2
      <4>2. /\ left - 36 \in Nat
            /\ x <= left - 36 => (left - 36) - x \in Nat
            /\ x <= left - 36 /\ size2 <= (left - 36) - x =>
                  ((left - 36) - x) - size2 \in Nat
            /\ 36 + x + size2 + z <= left <=>
                  /\ x <= left - 36 /\ size2 <= (left - 36) - x
                  /\ z <= ((left - 36) - x) - size2
            /\ 36 + x + size2 + z <= left => ~ (36 + x + size2 + z > left)
        BY <2>6, <4>1
      <4> QED
        BY <4>2 DEF x, z, size
    <3>3. /\ h.got.rigid_body_count = n1 /\ h.got.skeleton_count = n2
          /\ h.got.labeled_marker_count = n3 /\ h.status = "ok"
      BY <1>4, <1>10, <3>1 DEF Gained, Reading
    <3>4. DecodeMocap(b) = b3
      BY <2>4, <3>3
    <3>5. ListOutcome(b1, h, cells, a1, l1, ss1, BodyLayout, s1, "rigid_bodies")
      <4> HIDE DEF l1
      <4>1. ListOutcome(Records(Need(h, Size(BodyLayout) * Len(ss1)), "rigid_bodies", Len(ss1),
                                BodyLayout),
                        h, cells, a1, l1, ss1, BodyLayout, s1, "rigid_bodies")
        BY <1>7, <1>13, <1>14, <2>1, <2>2, <3>1, <3>2, ListDecodes DEF f1
      <4> QED
        BY <1>7, <1>13, <4>1
    <3> HIDE DEF b1, l1
    <3>6. /\ 38 * n1 <= l1 => /\ Reading(b1, cells, a2, l2)
                              /\ b1.got = Listing(h.got, "rigid_bodies", n1, s1)
          /\ 38 * n1 > l1 => b1.status = "too_small"
      BY <1>7, <1>13, <3>5 DEF ListOutcome, a2, f1
    <3> HIDE DEF l2
    <3>7. 38 * n1 <= l1 => SkeletonsOutcome(b2, b1, cells, a2, l2, s2, f2)
      BY <1>15, <2>1, <2>2, <3>2, <3>6 DEF ReadsSkeletons
    <3>8. 38 * n1 > l1 => b2.status = "too_small"
      BY <3>6 DEF Skeletons
    <3> HIDE DEF b2
    <3>9. 38 * n1 <= l1 /\ size2 <= l2 =>
              Reading(b2, cells, a3, l3) /\ b2.got = Listing(b1.got, "skeletons", n2, s2)
      BY <3>7 DEF SkeletonsOutcome, a3
    <3>10. ~ (38 * n1 <= l1 /\ size2 <= l2) => b2.status = "too_small"
      BY <1>17, <1>23, <3>2, <3>7, <3>8 DEF SkeletonsOutcome
    <3> HIDE DEF l3
    <3>11. 38 * n1 <= l1 /\ size2 <= l2 =>
              ListOutcome(b3, b2, cells, a3, l3, ss3, MarkerLayout, s3, "labeled_markers")
      <4> SUFFICES ASSUME 38 * n1 <= l1 /\ size2 <= l2
                   PROVE  ListOutcome(b3, b2, cells, a3, l3, ss3, MarkerLayout, s3,
                                      "labeled_markers")
        OBVIOUS
      <4>1. ListOutcome(Records(Need(b2, Size(MarkerLayout) * Len(ss3)), "labeled_markers",
                                Len(ss3), MarkerLayout),
                        b2, cells, a3, l3, ss3, MarkerLayout, s3, "labeled_markers")
        BY <1>7, <1>13, <1>14, <2>1, <2>2, <3>2, <3>9, ListDecodes DEF f3
      <4> QED
        BY <1>7, <1>13, <4>1
    <3>12. b2.status = "too_small" => b3.status = "too_small"
      BY NeedStays DEF Records
    <3> HIDE DEF b3
    <3>13. CASE size <= left
      <4>1. 38 * n1 <= l1 /\ size2 <= l2 /\ 26 * n3 <= l3
        BY <3>2, <3>13
      <4>2. b3.status = "ok" /\ b3.got = Listing(b2.got, "labeled_markers", n3, s3)
        BY <1>7, <1>13, <3>11, <4>1 DEF ListOutcome, Reading
      <4>3. /\ b1.got = With(h.got, "rigid_bodies", val["rigid_bodies"])
            /\ b2.got = With(b1.got, "skeletons", val["skeletons"])
            /\ b3.got = With(b2.got, "labeled_markers", val["labeled_markers"])
        BY <1>3, <1>4, <3>6, <3>9, <4>1, <4>2 DEF Listing
      <4>4. Gained(b1, b, names \cup {"rigid_bodies"}, val)
        BY <3>1, <4>3, GainedList
      <4>5. Gained(b2, b, (names \cup {"rigid_bodies"}) \cup {"skeletons"}, val)
        BY <4>3, <4>4, GainedList
      <4>6. Gained(b3, b, ((names \cup {"rigid_bodies"}) \cup {"skeletons"})
                              \cup {"labeled_markers"}, val)
        BY <4>3, <4>5, GainedList
      <4>7. ((names \cup {"rigid_bodies"}) \cup {"skeletons"}) \cup {"labeled_markers"} =
                names \cup {"rigid_bodies", "skeletons", "labeled_markers"}
        OBVIOUS
      <4>8. Told(b3, b, p)
        BY <1>5, <4>6, <4>7, LayoutNames, ToldIfGained DEF names
      <4> QED
        BY <3>2, <3>4, <3>13, <4>2, <4>8 DEF BodyOutcome
    <3>14. CASE ~ (size <= left)
      <4>1. b3.status = "too_small"
        <5>1. CASE 38 * n1 <= l1 /\ size2 <= l2
          <6>1. 26 * n3 > l3
            BY <1>23, <3>2, <3>14, <5>1
          <6> QED
            BY <1>7, <1>13, <3>11, <5>1, <6>1 DEF ListOutcome
        <5>2. CASE ~ (38 * n1 <= l1 /\ size2 <= l2)
          BY <3>10, <3>12, <5>2
        <5> QED
          BY <5>1, <5>2
      <4> QED
        BY <3>4, <3>14, <4>1 DEF BodyOutcome
    <3> QED
      BY <3>13, <3>14
  <2>7. left < 36 \/ left >= 36
    OBVIOUS
  <2> QED
    BY <2>5, <2>6, <2>7, Zenon
<1> QED
  BY <1>1, <1>21, <1>24

-----------------------------------------------------------------------------
(* The header, and packets as a whole                                      *)

\* A heartbeat has no payload.
LEMMA EmptyIsNothing ==
  IsSeq(<<>>) /\ Measured(<<>>) /\ Size(<<>>) = 0
<1>1. IsSeq(<<>>) /\ Measured(<<>>) /\ Len(<<>>) = 0
  BY DEF IsSeq, Measured
<1>2. PICK sum \in [0..Len(<<>>) -> Nat] : sum[0] = 0 /\ sum[Len(<<>>)] = Size(<<>>)
  BY <1>1, SizeSteps
<1> QED
  BY <1>1, <1>2

\* Every kind of packet.
LEMMA PayloadDecodes ==
  ASSUME NEW p, WellFormed(p)
  PROVE  /\ IsSeq(EncodePayload(p)) /\ Measured(EncodePayload(p))
         /\ \A b, cells : \A at, left \in Nat :
               (/\ Reading(b, cells, at, left) /\ Holds(cells, at, EncodePayload(p))
                /\ b.got.packet_type = p.packet_type) =>
               BodyOutcome(DecodePayload(b), b, p, Size(EncodePayload(p)), left)
<1>1. p.packet_type \in {1, 2, 3, 4, 5, 6, 7, 8, 9}
  BY DEF WellFormed, PacketTypes
<1>2. CASE p.packet_type = 1
  BY <1>2, VideoDecodes DEF EncodePayload, DecodePayload
<1>3. CASE p.packet_type = 2
  BY <1>3, AudioDecodes DEF EncodePayload, DecodePayload
<1>4. CASE p.packet_type = 3
  BY <1>4, SyncDecodes DEF EncodePayload, DecodePayload
<1>5. CASE p.packet_type = 4
  BY <1>5, RepairDecodes DEF EncodePayload, DecodePayload
<1>6. CASE p.packet_type = 5
  BY <1>6, InitDecodes DEF EncodePayload, DecodePayload
<1>7. CASE p.packet_type = 6
  BY <1>7, AckDecodes DEF EncodePayload, DecodePayload
<1>8. CASE p.packet_type = 7
  <2>1. EncodePayload(p) = <<>>
    BY <1>8 DEF EncodePayload
  <2>2. ASSUME NEW b, NEW cells, NEW at \in Nat, NEW left \in Nat,
               Reading(b, cells, at, left), b.got.packet_type = p.packet_type
        PROVE  BodyOutcome(DecodePayload(b), b, p, 0, left)
    <3>1. DecodePayload(b) = b
      BY <1>8, <2>2 DEF DecodePayload
    <3>2. b.status = "ok"
      BY <2>2 DEF Reading
    <3>3. Told(b, b, p)
      BY <1>8 DEF Told, OwnFields
    <3> QED
      BY <3>1, <3>2, <3>3 DEF BodyOutcome
  <2> QED
    BY <2>1, <2>2, EmptyIsNothing
<1>9. CASE p.packet_type = 8
  BY <1>9, DmxDecodes DEF EncodePayload, DecodePayload
<1>10. CASE p.packet_type = 9
  BY <1>10, MocapDecodes DEF EncodePayload, DecodePayload
<1> QED
  BY <1>1, <1>2, <1>3, <1>4, <1>5, <1>6, <1>7, <1>8, <1>9, <1>10

\* The header is read as it was written.
HeaderOutcome(h, cells, left, p) ==
    /\ left >= 24 => /\ Reading(h, cells, 8, left - 24)
                     /\ \A f \in CommonFields : f \in DOMAIN h.got /\ h.got[f] = p[f]
    /\ left < 24 => h.status = "too_small"

\* Every header has seven cells and 24 bytes.
LEMMA HeaderWritten ==
  ASSUME NEW p
  PROVE  /\ IsSeq(EncodeHeader(p)) /\ Measured(EncodeHeader(p))
         /\ Len(EncodeHeader(p)) = 7 /\ Size(EncodeHeader(p)) = 24
<1>1. IsSeq(EncodeHeader(p)) /\ Len(EncodeHeader(p)) = 7
  BY DEF IsSeq, Range, EncodeHeader
<1>2. Measured(EncodeHeader(p))
  BY <1>1 DEF Measured, EncodeHeader
<1> DEFINE e == EncodeHeader(p)
<1>3. PICK sum \in [0..Len(e) -> Nat] :
          /\ sum[0] = 0 /\ sum[Len(e)] = Size(e)
          /\ \A i \in 1..Len(e) : sum[i] = sum[i - 1] + e[i][1]
  BY <1>2, SizeSteps
<1>4. /\ e[1][1] = 4 /\ e[2][1] = 1 /\ e[3][1] = 1 /\ e[4][1] = 2 /\ e[5][1] = 4
      /\ e[6][1] = 4 /\ e[7][1] = 8
  BY DEF EncodeHeader
<1> HIDE DEF e
<1>5. /\ sum[1] = 4 /\ sum[2] = 5 /\ sum[3] = 6 /\ sum[4] = 8 /\ sum[5] = 12
      /\ sum[6] = 16 /\ sum[7] = 24
  BY <1>1, <1>3, <1>4 DEF e
<1> QED
  BY <1>1, <1>2, <1>3, <1>5 DEF e

\* PacketHeader::decode reads what PacketHeader::encode wrote.
LEMMA HeaderDecodes ==
  ASSUME NEW p, NEW cells, NEW left \in Nat, WellFormed(p), Holds(cells, 1, EncodeHeader(p))
  PROVE  HeaderOutcome(DecodeHeader(Buffer(cells, left)), cells, left, p)
<1> DEFINE b == Buffer(cells, left)
           val == With(With(p, "magic", Magic), "version", Version)
           h == Fields(Need(b, 24), HeaderLayout)
<1>1. DOMAIN p = CommonFields \cup OwnFields[p.packet_type]
  BY DEF WellFormed
<1>2. \A f \in CommonFields : f # "magic" /\ f # "version" /\ f \in DOMAIN p
  BY <1>1 DEF CommonFields
<1>3. /\ val["magic"] = Magic /\ val["version"] = Version
      /\ \A f \in CommonFields : val[f] = p[f]
  BY <1>2 DEF With
<1> HIDE DEF val
<1>4. Measured(HeaderLayout) /\ Size(HeaderLayout) = 24 /\ Len(HeaderLayout) = 7
  BY LayoutSizes
<1>5. Matches(EncodeHeader(p), HeaderLayout, val)
  <2>1. /\ val["packet_type"] = p.packet_type /\ val["flags"] = p.flags
        /\ val["session_id"] = p.session_id /\ val["sequence"] = p.sequence
        /\ val["timestamp"] = p.timestamp
    BY <1>3 DEF CommonFields
  <2>2. p.packet_type \in PacketTypes
    BY DEF WellFormed
  <2> QED
    BY <1>3, <2>1, <2>2 DEF Matches, EncodeHeader, HeaderLayout, U
<1>6. Reading(b, cells, 1, left)
  BY DEF Reading, Buffer
<1> HIDE DEF b
<1>7. HeadOutcome(h, b, cells, 1, left, HeaderLayout, val, 24)
  BY <1>4, <1>5, <1>6, HeaderWritten, HeadRead
<1>8. DecodeHeader(b) = IF h.status = "ok"
                        THEN [h EXCEPT !.got.flags = h.got.flags % (2 * Flags.FEC_PROTECTED)]
                        ELSE h
  BY DEF DecodeHeader
<1> HIDE DEF h
<1>9. CASE left < 24
  BY <1>4, <1>7, <1>8, <1>9 DEF HeadOutcome, HeaderOutcome, b
<1>10. CASE left >= 24
  <2>1. Reading(h, cells, 8, left - 24) /\ Gained(h, b, Names(HeaderLayout), val)
    BY <1>4, <1>7, <1>10 DEF HeadOutcome
  <2>2. CommonFields \subseteq Names(HeaderLayout)
    BY DEF CommonFields, Names, HeaderLayout, U
  <2>3. \A f \in CommonFields : f \in DOMAIN h.got /\ h.got[f] = p[f]
    BY <1>3, <2>1, <2>2 DEF Gained
  <2>4. h.got.flags = p.flags /\ "flags" \in DOMAIN h.got
    BY <2>3 DEF CommonFields
  <2>5. p.flags % (2 * Flags.FEC_PROTECTED) = p.flags
    <3>1. p.flags \in 0..31 /\ 2 * Flags.FEC_PROTECTED = 32
      BY DEF WellFormed, Flags
    <3> DEFINE n == p.flags
    <3>2. n \in 0..31
      BY <3>1
    <3> HIDE DEF n
    <3>3. n % 32 = n
      BY <3>2
    <3> QED
      BY <3>1, <3>3 DEF n
  <2>6. [h EXCEPT !.got.flags = p.flags] = h
    <3> DEFINE G == h.got
    <3>1. /\ G = [n \in DOMAIN G |-> G[n]] /\ G["flags"] = p.flags /\ "flags" \in DOMAIN G
          /\ h = [cells |-> cells, at |-> 8, left |-> left - 24, got |-> G, status |-> "ok"]
      BY <2>1, <2>4 DEF Reading
    <3>2. [h EXCEPT !.got.flags = p.flags] = [h EXCEPT !.got = [G EXCEPT !["flags"] = p.flags]]
      OBVIOUS
    <3> HIDE DEF G
    <3>3. [G EXCEPT !["flags"] = p.flags] = G
      BY <3>1
    <3>4. [h EXCEPT !.got = G] = h
      BY <3>1
    <3> QED
      BY <3>2, <3>3, <3>4
  <2>7. h.status = "ok"
    BY <2>1 DEF Reading
  <2>8. DecodeHeader(b) = h
    BY <1>8, <2>4, <2>5, <2>6, <2>7
  <2> QED
    BY <1>10, <2>1, <2>3, <2>8 DEF HeaderOutcome, b
<1> QED
  BY <1>9, <1>10

\* What decode makes of so many bytes of a datagram that begins with a packet.
Outcome(d, p, bytes) ==
    /\ Size(Encode(p)) <= bytes => d.status = "ok" /\ Same(p, d.got)
    /\ Size(Encode(p)) > bytes => \/ d.status = "too_small"
                                  \/ /\ d.status = "panic"
                                     /\ p.packet_type = 2 /\ bytes - 24 \in 24..27

\* A packet is its header and its payload.
LEMMA EncodeWritten ==
  ASSUME NEW p, WellFormed(p)
  PROVE  /\ IsSeq(Encode(p)) /\ Measured(Encode(p))
         /\ Size(EncodePayload(p)) \in Nat
         /\ Size(Encode(p)) = 24 + Size(EncodePayload(p))
<1>1. IsSeq(EncodePayload(p)) /\ Measured(EncodePayload(p))
  BY PayloadDecodes
<1>2. Together(EncodeHeader(p), EncodePayload(p))
  BY <1>1, HeaderWritten, BothTogether
<1> QED
  BY <1>1, <1>2, HeaderWritten, SizeIsNat DEF Together, Encode

\* Every well-formed packet, whatever follows it in the datagram.
LEMMA DecodeOutcome ==
  ASSUME NEW p, WellFormed(p), NEW cells, NEW bytes \in Nat, Holds(cells, 1, Encode(p))
  PROVE  Outcome(Decode(cells, bytes), p, bytes)
<1> DEFINE e == EncodeHeader(p)  y == EncodePayload(p)
           h == DecodeHeader(Buffer(cells, bytes))
           size == Size(y)
<1>1. IsSeq(y) /\ Measured(y)
  BY PayloadDecodes
<1>2. IsSeq(e) /\ Measured(e) /\ Len(e) = 7
  BY HeaderWritten
<1>3. Holds(cells, 1, e) /\ Holds(cells, 8, y)
  <2>1. Together(e, y)
    BY <1>1, <1>2, BothTogether
  <2>2. Encode(p) = e \o y
    BY DEF Encode
  <2> HIDE DEF e, y
  <2>3. Holds(cells, 1, e) /\ Holds(cells, 1 + Len(e), y)
    BY <2>1, <2>2 DEF Together
  <2> QED
    BY <1>2, <2>3
<1>4. size \in Nat /\ Size(Encode(p)) = 24 + size
  BY EncodeWritten
<1>5. HeaderOutcome(h, cells, bytes, p)
  BY <1>3, HeaderDecodes
<1>6. /\ Decode(cells, bytes).status =
             IF h.status = "ok" THEN DecodePayload(h).status ELSE h.status
      /\ Decode(cells, bytes).got =
             IF h.status = "ok" THEN DecodePayload(h).got ELSE h.got
  BY DEF Decode
<1> DEFINE d == Decode(cells, bytes)  c == DecodePayload(h)
<1> HIDE DEF h, d, e
<1>7. CASE bytes < 24
  <2>1. h.status = "too_small"
    BY <1>5, <1>7 DEF HeaderOutcome
  <2>2. d.status = "too_small" /\ Size(Encode(p)) > bytes /\ ~ (Size(Encode(p)) <= bytes)
    <3> HIDE DEF size, c
    <3> QED BY <1>4, <1>6, <1>7, <2>1 DEF d
  <2> QED
    BY <2>2 DEF Outcome, d
<1>8. CASE bytes >= 24
  <2> DEFINE left == bytes - 24
  <2>1. /\ Reading(h, cells, 8, left)
        /\ \A f \in CommonFields : f \in DOMAIN h.got /\ h.got[f] = p[f]
    BY <1>5, <1>8 DEF HeaderOutcome
  <2>2. left \in Nat /\ (size <= left <=> 24 + size <= bytes)
        /\ (size > left <=> 24 + size > bytes)
    <3> HIDE DEF size
    <3> QED BY <1>4, <1>8
  <2>3. h.got.packet_type = p.packet_type
    BY <2>1 DEF CommonFields
  <2> HIDE DEF left
  <2>4. BodyOutcome(c, h, p, size, left)
    BY <1>3, <2>1, <2>2, <2>3, PayloadDecodes
  <2>5. d.status = c.status /\ d.got = c.got
    BY <1>6, <2>1 DEF Reading, d
  <2> HIDE DEF c, size
  <2>6. CASE size <= left
    <3>1. c.status = "ok" /\ Told(c, h, p)
      BY <2>4, <2>6 DEF BodyOutcome
    <3>2. DOMAIN p = CommonFields \cup OwnFields[p.packet_type]
      BY DEF WellFormed
    <3>3. \A f \in CommonFields : f \in DOMAIN c.got /\ c.got[f] = p[f]
      BY <2>1, <3>1 DEF Told
    <3>4. Same(p, d.got)
      BY <2>5, <3>1, <3>2, <3>3 DEF Told, Same
    <3>5. ~ (Size(Encode(p)) > bytes)
      BY <1>4, <2>2, <2>6
    <3> QED
      BY <2>5, <3>1, <3>4, <3>5 DEF Outcome, d
  <2>7. CASE size > left
    <3>1. \/ c.status = "too_small"
          \/ c.status = "panic" /\ p.packet_type = 2 /\ left \in 24..27
      BY <2>4, <2>7 DEF BodyOutcome
    <3>2. ~ (Size(Encode(p)) <= bytes)
      BY <1>4, <2>2, <2>7
    <3> QED
      BY <2>5, <3>1, <3>2 DEF Outcome, d, left
  <2>8. size <= left \/ size > left
    BY <1>4, <2>2
  <2> QED
    BY <2>6, <2>7, <2>8
<1> QED
  BY <1>7, <1>8

\* A field whose value is not accepted.
LEMMA GetRefuses ==
  ASSUME NEW b, NEW cells, NEW at, NEW left \in Nat, NEW f,
         Reading(b, cells, at, left),
         at \in DOMAIN cells, cells[at][1] = f[1], f[1] \in Nat, f[1] <= left,
         f[3] # {}, cells[at][2] \notin f[3]
  PROVE  Get(b, f).status = "refused"
<1> DEFINE G == b.got
<1>1. b = [cells |-> cells, at |-> at, left |-> left, got |-> G, status |-> "ok"]
  BY DEF Reading
<1> HIDE DEF G
<1>2. b.status = "ok" /\ b.cells = cells /\ b.at = at /\ b.left = left
  BY <1>1
<1>3. Get(b, f) = [b EXCEPT !.status = "refused"]
  BY <1>2 DEF Get, Take, Fail
<1> QED
  BY <1>1, <1>3

\* The packet with another magic, of another version, or of an unknown type.
Oddities == {<<1, "HTTP">>, <<2, 2>>, <<3, 10>>}
\* cells is packet p with one of them.
IsOdd(cells, p) == \E odd \in Oddities : cells = [Encode(p) EXCEPT ![odd[1]][2] = odd[2]]

\* The cell j of a header is one that is not accepted; those before it are.
RefusedAt(cells, j) ==
    /\ \A i \in 1..j : i \in DOMAIN cells /\ cells[i][1] = HeaderLayout[i][1]
    /\ \A i \in 1..(j - 1) : \/ HeaderLayout[i][3] = {}
                             \/ cells[i][2] \in HeaderLayout[i][3]
    /\ HeaderLayout[j][3] # {} /\ cells[j][2] \notin HeaderLayout[j][3]

-----------------------------------------------------------------------------
(* What is refused                                                         *)

\* Such a header is refused, if there are bytes enough for a header.
LEMMA HeaderRefused ==
  ASSUME NEW cells, NEW j \in 1..3, NEW bytes \in Nat, RefusedAt(cells, j)
  PROVE  Decode(cells, bytes).status \in {"too_small", "refused"}
<1> DEFINE b == Buffer(cells, bytes)  n == Need(b, 24)  h == DecodeHeader(b)
           r == Fields(n, HeaderLayout)
<1>1. Reading(b, cells, 1, bytes)
  BY DEF Reading, Buffer
<1>2. Len(HeaderLayout) = 7
  BY LayoutSizes
<1> HIDE DEF b
<1>3. r.status \in {"too_small", "refused"}
  <2>1. CASE bytes < 24
    <3>1. n.status = "too_small"
      BY <1>1, <2>1, NeedCases
    <3> HIDE DEF n
    <3> QED
      BY <1>2, <3>1, FieldsStay
  <2>2. CASE bytes >= 24
    <3>1. n = b
      BY <1>1, <2>2, NeedCases
    <3> DEFINE L == HeaderLayout
    <3> HIDE DEF n, L
    <3>2. PICK read : /\ read[0] = n /\ read[Len(L)] = Fields(n, L)
                      /\ \A i \in 1..Len(L) : read[i] = Get(read[i - 1], L[i])
      <4>1. Len(L) \in Nat
        BY <1>2 DEF L
      <4> QED
        BY <4>1, FieldsSteps
    <3> HIDE DEF r
    <3>3. /\ read[1] = Get(read[0], HeaderLayout[1]) /\ read[2] = Get(read[1], HeaderLayout[2])
          /\ read[3] = Get(read[2], HeaderLayout[3]) /\ read[4] = Get(read[3], HeaderLayout[4])
          /\ read[5] = Get(read[4], HeaderLayout[5]) /\ read[6] = Get(read[5], HeaderLayout[6])
          /\ read[7] = Get(read[6], HeaderLayout[7]) /\ read[7] = r /\ read[0] = b
      BY <1>2, <3>1, <3>2 DEF L, r
    <3>4. /\ HeaderLayout[1][1] = 4 /\ HeaderLayout[2][1] = 1 /\ HeaderLayout[3][1] = 1
      BY DEF HeaderLayout
    <3>5. /\ bytes - 4 \in Nat /\ (bytes - 4) - 1 \in Nat /\ 4 <= bytes /\ 1 <= bytes - 4
          /\ 1 <= (bytes - 4) - 1
      BY <2>2
    <3>6. j = 1 => read[1].status = "refused"
      BY <1>1, <3>3, <3>4, <3>5, GetRefuses DEF RefusedAt
    <3>7. j > 1 => Reading(read[1], cells, 2, bytes - 4)
      <4> HAVE j > 1
      <4>1. /\ 1 \in DOMAIN cells /\ cells[1][1] = HeaderLayout[1][1]
            /\ HeaderLayout[1][3] = {} \/ cells[1][2] \in HeaderLayout[1][3]
        BY DEF RefusedAt
      <4> DEFINE f == HeaderLayout[1]
      <4>2. f[1] = 4 /\ f[1] \in Nat /\ f[1] <= bytes /\ 1 \in Nat
        BY <3>4, <3>5
      <4> HIDE DEF f
      <4>3. FieldOutcome(Get(b, f), b, cells, 1, bytes, f)
        <5>1. /\ cells[1][1] = f[1]
              /\ f[3] = {} \/ cells[1][2] \in f[3]
          BY <4>1 DEF f
        <5> QED
          BY <1>1, <4>1, <4>2, <5>1, GetReads
      <4> QED
        BY <3>3, <4>2, <4>3 DEF f, FieldOutcome
    <3>8. j = 2 => read[2].status = "refused"
      BY <3>3, <3>4, <3>5, <3>7, GetRefuses DEF RefusedAt
    <3>9. j > 2 => Reading(read[2], cells, 3, (bytes - 4) - 1)
      <4> HAVE j > 2
      <4>1. /\ 2 \in DOMAIN cells /\ cells[2][1] = HeaderLayout[2][1]
            /\ HeaderLayout[2][3] = {} \/ cells[2][2] \in HeaderLayout[2][3]
        BY DEF RefusedAt
      <4> DEFINE f == HeaderLayout[2]  x == bytes - 4
      <4>2. f[1] = 1 /\ f[1] \in Nat /\ f[1] <= x /\ 2 \in Nat /\ x \in Nat
        BY <3>4, <3>5
      <4>3. Reading(read[1], cells, 2, x)
        BY <3>7
      <4> HIDE DEF f, x
      <4>4. FieldOutcome(Get(read[1], f), read[1], cells, 2, x, f)
        <5>1. /\ cells[2][1] = f[1]
              /\ f[3] = {} \/ cells[2][2] \in f[3]
          BY <4>1 DEF f
        <5> QED
          BY <4>1, <4>2, <4>3, <5>1, GetReads
      <4> QED
        BY <3>3, <4>2, <4>4 DEF f, x, FieldOutcome
    <3>10. j = 3 => read[3].status = "refused"
      BY <3>3, <3>4, <3>5, <3>9, GetRefuses DEF RefusedAt
    <3>11. \A i \in 1..7 : read[i - 1].status = "refused" => read[i].status = "refused"
      BY <1>2, <3>2 DEF Get, L
    <3>12. /\ read[1].status = "refused" => read[2].status = "refused"
           /\ read[2].status = "refused" => read[3].status = "refused"
           /\ read[3].status = "refused" => read[4].status = "refused"
           /\ read[4].status = "refused" => read[5].status = "refused"
           /\ read[5].status = "refused" => read[6].status = "refused"
           /\ read[6].status = "refused" => read[7].status = "refused"
      BY <3>11
    <3>13. j = 1 \/ j = 2 \/ j = 3
      OBVIOUS
    <3> QED
      BY <3>3, <3>6, <3>8, <3>10, <3>12, <3>13
  <2> QED
    BY <2>1, <2>2
<1>4. h.status = r.status
  BY <1>3 DEF DecodeHeader
<1> HIDE DEF h, r
<1>5. Decode(cells, bytes).status = h.status
  BY <1>3, <1>4 DEF Decode, h, b
<1> QED
  BY <1>3, <1>4, <1>5

\* Each of the oddities is at a cell of that sort.
LEMMA OddIsRefused ==
  ASSUME NEW p, WellFormed(p), NEW cells, IsOdd(cells, p)
  PROVE  \E j \in 1..3 : RefusedAt(cells, j)
<1> DEFINE e == Encode(p)
<1>1. PICK odd \in Oddities : cells = [e EXCEPT ![odd[1]][2] = odd[2]]
  BY DEF IsOdd
<1>2. /\ 1 \in DOMAIN e /\ 2 \in DOMAIN e /\ 3 \in DOMAIN e
      /\ e[1] = EncodeHeader(p)[1] /\ e[2] = EncodeHeader(p)[2] /\ e[3] = EncodeHeader(p)[3]
  <2> DEFINE x == EncodeHeader(p)  y == EncodePayload(p)
  <2>1. IsSeq(x) /\ Len(x) = 7 /\ Measured(x) /\ IsSeq(y) /\ Measured(y) /\ IsSeq(e)
    BY HeaderWritten, PayloadDecodes, EncodeWritten
  <2>2. e = x \o y
    BY DEF Encode
  <2> HIDE DEF e, x, y
  <2>3. Holds(e, 1, e)
    <3>1. Len(e) \in Nat /\ DOMAIN e = 1..Len(e)
      BY <2>1, SeqFacts
    <3> QED
      BY <3>1 DEF Holds
  <2>4. Holds(e, 1, x)
    BY <2>1, <2>2, <2>3, BothTogether DEF Together
  <2>5. \A i \in 1..7 : i \in DOMAIN e /\ e[i] = x[i]
    <3> TAKE i \in 1..7
    <3>1. i \in 1..Len(x) /\ 1 + i - 1 = i
      BY <2>1
    <3>2. 1 + i - 1 \in DOMAIN e /\ e[1 + i - 1] = x[i]
      BY <2>4, <3>1 DEF Holds
    <3> QED
      BY <3>1, <3>2
  <2>6. /\ 1 \in DOMAIN e /\ 2 \in DOMAIN e /\ 3 \in DOMAIN e
        /\ e[1] = x[1] /\ e[2] = x[2] /\ e[3] = x[3]
    BY <2>5
  <2> QED
    BY <2>6 DEF x
<1>4. /\ e[1] = <<4, Magic>> /\ e[2] = <<1, Version>> /\ e[3] = <<1, p.packet_type>>
  BY <1>2 DEF EncodeHeader
<1> HIDE DEF e
<1>5. /\ HeaderLayout[1] = <<4, "magic", {Magic}>>
      /\ HeaderLayout[2] = <<1, "version", {Version}>>
      /\ HeaderLayout[3] = <<1, "packet_type", PacketTypes>>
  BY DEF HeaderLayout
<1>6. CASE odd = <<1, "HTTP">>
  <2>1. 1 \in DOMAIN cells /\ cells[1] = <<4, "HTTP">>
    BY <1>1, <1>2, <1>4, <1>6
  <2>2. RefusedAt(cells, 1)
    BY <1>5, <2>1 DEF RefusedAt, Magic
  <2> QED
    BY <2>2
<1>7. CASE odd = <<2, 2>>
  <2>1. /\ 1 \in DOMAIN cells /\ cells[1] = <<4, Magic>>
        /\ 2 \in DOMAIN cells /\ cells[2] = <<1, 2>>
    BY <1>1, <1>2, <1>4, <1>7
  <2>2. RefusedAt(cells, 2)
    BY <1>5, <2>1 DEF RefusedAt, Version
  <2> QED
    BY <2>2
<1>8. CASE odd = <<3, 10>>
  <2>1. /\ 1 \in DOMAIN cells /\ cells[1] = <<4, Magic>>
        /\ 2 \in DOMAIN cells /\ cells[2] = <<1, Version>>
        /\ 3 \in DOMAIN cells /\ cells[3] = <<1, 10>>
    BY <1>1, <1>2, <1>4, <1>8
  <2>2. RefusedAt(cells, 3)
    BY <1>5, <2>1 DEF RefusedAt, PacketTypes
  <2> QED
    BY <2>2
<1> QED
  BY <1>6, <1>7, <1>8 DEF Oddities

-----------------------------------------------------------------------------
(* The datagram on its way                                                 *)

\* What there is to decode is the packet from its beginning, or it is an odd one;
\* it is all there unless it was cut off or is longer than the receive buffer; and
\* a result is what decode makes of the bytes that arrived.
OnItsWay ==
    /\ fault # "foreign" => Holds(wire, 1, Encode(packet))
    /\ fault = "foreign" => IsOdd(wire, packet)
    /\ fault = "none" /\ ~Decoded => wire = Encode(packet) /\ end = Size(Encode(packet))
    /\ (fault \in {"none", "recovered"} /\ Size(Encode(packet)) <= MaxPacketSize)
           => Size(Encode(packet)) <= end
    /\ Decoded => result = Decode(wire, end)

\* The inductive invariant.
CodecInv == packet \in Packets /\ fault \in Faults /\ end \in Nat /\ OnItsWay

\* What is appended to a datagram leaves what it begins with in its place.
LEMMA HoldsLonger ==
  ASSUME NEW s, NEW w, NEW x, IsSeq(w), Holds(w, 1, s), Len(s) \in Nat
  PROVE  Holds(Append(w, x), 1, s)
<1> DEFINE C == Range(w) \cup {x}
<1>1. w \in Seq(C) /\ x \in C
  BY SeqFacts, SeqWidens
<1> HIDE DEF C
<1>2. /\ Len(Append(w, x)) = Len(w) + 1 /\ DOMAIN Append(w, x) = 1..(Len(w) + 1)
      /\ DOMAIN w = 1..Len(w) /\ Len(w) \in Nat
      /\ \A i \in 1..Len(w) : Append(w, x)[i] = w[i]
  BY <1>1
<1> SUFFICES ASSUME NEW i \in 1..Len(s)
             PROVE  i \in DOMAIN Append(w, x) /\ Append(w, x)[i] = s[i]
  BY DEF Holds
<1>3. i \in DOMAIN w /\ w[i] = s[i]
  BY DEF Holds
<1> QED
  BY <1>2, <1>3

\* A packet that was just encoded is there with all its bytes.
LEMMA CodecStarts == CodecInit => CodecInv
<1> SUFFICES ASSUME CodecInit PROVE CodecInv
  OBVIOUS
<1>1. /\ packet \in Packets /\ wire = Encode(packet) /\ end = Size(wire) /\ fault = "none"
      /\ result.status = "none"
  BY DEF CodecInit, Undecoded
<1>2. WellFormed(packet)
  BY <1>1, CodecAssumption
<1> DEFINE e == Encode(packet)
<1>3. IsSeq(e) /\ Measured(e)
  BY <1>2, EncodeWritten
<1> HIDE DEF e
<1>4. Size(e) \in Nat
  BY <1>3, SizeIsNat
<1>5. Holds(e, 1, e)
  <2>1. Len(e) \in Nat /\ DOMAIN e = 1..Len(e)
    BY <1>3, SeqFacts
  <2> QED
    BY <2>1 DEF Holds
<1> QED
  BY <1>1, <1>4, <1>5 DEF CodecInv, OnItsWay, Decoded, Faults, e

\* Every step: FEC only appends, a peer of another version changes one cell, and
\* what is cut off is cut off at the end.
LEMMA CodecGoesOn == CodecInv /\ [CodecNext]_codecVars => CodecInv'
<1> SUFFICES ASSUME CodecInv, [CodecNext]_codecVars PROVE CodecInv'
  OBVIOUS
<1>1. WellFormed(packet)
  BY CodecAssumption DEF CodecInv
<1> DEFINE e == Encode(packet)  size == Size(e)
<1>2. IsSeq(e) /\ Measured(e) /\ size \in Nat /\ Len(e) \in Nat
  BY <1>1, EncodeWritten, SizeIsNat, SeqFacts
<1>3. CASE Recover
  <2>1. /\ fault = "none" /\ ~Decoded /\ fault' = "recovered" /\ packet' = packet
        /\ wire' = Append(wire, <<Padding, 0>>) /\ end' = end + Padding /\ ~Decoded'
    BY <1>3 DEF Recover, Decoded
  <2>2. wire = e /\ end = size /\ end \in Nat /\ Padding \in Nat
    BY <2>1, CodecAssumption DEF CodecInv, OnItsWay
  <2>3. Holds(wire, 1, e)
    BY <2>1 DEF CodecInv, OnItsWay
  <2> HIDE DEF e
  <2>4. Holds(wire', 1, e)
    BY <1>2, <2>1, <2>2, <2>3, HoldsLonger
  <2>5. size <= end' /\ end' \in Nat
    <3> HIDE DEF size
    <3> QED BY <2>1, <2>2
  <2> QED
    BY <2>1, <2>4, <2>5 DEF CodecInv, OnItsWay, Faults, e
<1>4. CASE Foreign
  <2>1. /\ fault = "none" /\ ~Decoded /\ fault' = "foreign" /\ packet' = packet
        /\ end' = end /\ ~Decoded'
        /\ \E odd \in Oddities : wire' = [wire EXCEPT ![odd[1]][2] = odd[2]]
    BY <1>4 DEF Foreign, Decoded, Oddities
  <2>2. wire = e
    BY <2>1 DEF CodecInv, OnItsWay
  <2>3. IsOdd(wire', packet)
    BY <2>1, <2>2 DEF IsOdd
  <2> QED
    BY <2>1, <2>3 DEF CodecInv, OnItsWay, Faults
<1>5. CASE Short
  <2>1. /\ fault = "none" /\ ~Decoded /\ fault' = "short" /\ packet' = packet
        /\ end' \in 0..(end - 1) /\ wire' = wire /\ ~Decoded'
    BY <1>5 DEF Short, Decoded
  <2>2. Holds(wire, 1, e) /\ end \in Nat
    BY <2>1 DEF CodecInv, OnItsWay
  <2> QED
    BY <2>1, <2>2 DEF CodecInv, OnItsWay, Faults
<1>6. CASE Arrive
  <2>1. /\ packet' = packet /\ wire' = wire /\ fault' = fault /\ result' = Decode(wire, end')
        /\ end' = IF end < MaxPacketSize THEN end ELSE MaxPacketSize
    BY <1>6 DEF Arrive
  <2>2. end \in Nat /\ MaxPacketSize \in Nat
    BY CodecAssumption DEF CodecInv
  <2>3. /\ fault # "foreign" => Holds(wire', 1, e)
        /\ fault = "foreign" => IsOdd(wire', packet)
    BY <2>1 DEF CodecInv, OnItsWay
  <2>4. (fault \in {"none", "recovered"} /\ size <= MaxPacketSize) => size <= end
    BY DEF CodecInv, OnItsWay
  <2>5. Decoded'
    <3>1. CASE fault = "foreign"
      <4>1. PICK j \in 1..3 : RefusedAt(wire, j)
        BY <1>1, <2>1, <2>3, <3>1, OddIsRefused
      <4>2. result'.status \in {"too_small", "refused"}
        BY <2>1, <2>2, <4>1, HeaderRefused
      <4> QED
        BY <4>2 DEF Decoded
    <3>2. CASE fault # "foreign"
      <4>1. Outcome(result', packet, end')
        BY <1>1, <2>1, <2>2, <2>3, <3>2, DecodeOutcome
      <4>2. size <= end' \/ size > end'
        <5> HIDE DEF size
        <5> QED BY <1>2, <2>1, <2>2
      <4> QED
        BY <4>1, <4>2 DEF Outcome, Decoded
    <3> QED
      BY <3>1, <3>2
  <2>6. /\ end' \in Nat
        /\ (fault \in {"none", "recovered"} /\ size <= MaxPacketSize) => size <= end'
    <3> HIDE DEF size
    <3> QED BY <1>2, <2>1, <2>2, <2>4
  <2> QED
    BY <2>1, <2>3, <2>5, <2>6 DEF CodecInv, OnItsWay
<1>7. CASE UNCHANGED codecVars
  BY <1>7 DEF CodecInv, OnItsWay, Decoded, codecVars
<1> QED
  BY <1>3, <1>4, <1>5, <1>6, <1>7 DEF CodecNext

\* What the result says, in every state.
LEMMA CodecPromises == CodecInv => CodecTypeOK /\ ArrivesAsSent /\ NeverMistaken
<1> SUFFICES ASSUME CodecInv PROVE CodecTypeOK /\ ArrivesAsSent /\ NeverMistaken
  OBVIOUS
<1>1. WellFormed(packet) /\ packet \in Packets /\ fault \in Faults /\ end \in Nat
  BY CodecAssumption DEF CodecInv
<1> DEFINE size == Size(Encode(packet))
<1>2. size \in Nat
  BY <1>1, EncodeWritten, SizeIsNat
<1>3. CASE ~Decoded
  BY <1>1, <1>3 DEF Decoded, CodecTypeOK, ArrivesAsSent, NeverMistaken
<1>4. CASE Decoded /\ fault = "foreign"
  <2>1. PICK j \in 1..3 : RefusedAt(wire, j)
    BY <1>1, <1>4, OddIsRefused DEF CodecInv, OnItsWay
  <2>2. result.status \in {"too_small", "refused"}
    BY <1>1, <1>4, <2>1, HeaderRefused DEF CodecInv, OnItsWay
  <2> QED
    BY <1>1, <1>4, <2>2 DEF CodecTypeOK, ArrivesAsSent, NeverMistaken
<1>5. CASE Decoded /\ fault # "foreign"
  <2>1. result = Decode(wire, end) /\ Holds(wire, 1, Encode(packet))
    BY <1>5 DEF CodecInv, OnItsWay
  <2>2. Outcome(result, packet, end)
    BY <1>1, <2>1, DecodeOutcome
  <2>3. size <= end => result.status = "ok" /\ Same(packet, result.got)
    BY <2>2 DEF Outcome
  <2>4. size > end => \/ result.status = "too_small"
                      \/ result.status = "panic" /\ AudioHeaderCut
    BY <2>2 DEF Outcome, AudioHeaderCut
  <2>5. (fault \in {"none", "recovered"} /\ size <= MaxPacketSize) => size <= end
    BY DEF CodecInv, OnItsWay
  <2>6. size <= end \/ size > end
    <3> HIDE DEF size
    <3> QED BY <1>1, <1>2
  <2>7. CodecTypeOK
    BY <1>1, <2>3, <2>4, <2>6 DEF CodecTypeOK
  <2>8. ArrivesAsSent
    BY <2>3, <2>5 DEF ArrivesAsSent
  <2>9. NeverMistaken
    BY <1>5, <2>3, <2>4, <2>6 DEF NeverMistaken
  <2> QED
    BY <2>7, <2>8, <2>9
<1> QED
  BY <1>3, <1>4, <1>5

\* What a datagram holds on its way, in every behaviour: what Packet::encode wrote,
\* but for one odd field, and all of it unless it was cut off.
THEOREM CodecInductive == CodecSpec => []CodecInv
BY CodecStarts, CodecGoesOn, PTL DEF CodecSpec

\* Every variable of the codecs keeps its type, and decoding ends in one of its
\* outcomes (Packet::encode, Packet::decode).
THEOREM CodecTypeCorrect == CodecSpec => []CodecTypeOK
BY CodecInductive, CodecPromises, PTL

\* Whatever the packet, of whatever kind and size: when it fits the receive
\* buffer it is decoded as it was sent (Packet::encode, Packet::decode).
THEOREM ArrivesAsSentHolds == CodecSpec => []ArrivesAsSent
BY CodecInductive, CodecPromises, PTL

\* Whatever is cut off, appended or of another version is refused, or it is the
\* packet that was sent; only a cut in the audio header panics (Packet::decode).
THEOREM NeverMistakenHolds == CodecSpec => []NeverMistaken
BY CodecInductive, CodecPromises, PTL
=============================================================================
