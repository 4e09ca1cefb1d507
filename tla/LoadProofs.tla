------------------------------ MODULE LoadProofs ------------------------------
(***************************************************************************)
(* Proofs about the tickets a load writes: when it prints its line, each   *)
(* that nobody else has written to is the file's, with its history and its *)
(* dates.                                                                  *)
(***************************************************************************)
EXTENDS FixtureProofs, FiniteSetTheorems, WellFoundedInduction

(* Sets of step numbers *)

LEMMA LeastExists ==
  ASSUME NEW S \in SUBSET Nat, S # {}
  PROVE  \E x \in S : \A y \in S : x <= y
<1>. DEFINE R == OpToRel(<, Nat)
<1>1. IsWellFoundedOn(R, Nat)
  BY NatLessThanWellFounded
<1>2. \A x, y \in Nat : y < x => <<y, x>> \in R
  BY DEF OpToRel
<1>. HIDE DEF R
<1>3. PICK x \in S : \A y \in S : ~(<<y, x>> \in R)
  BY <1>1, WFMin
<1>4. ASSUME NEW y \in S
      PROVE  x <= y
  <2>1. x \in Nat /\ y \in Nat /\ ~(<<y, x>> \in R)
    BY <1>3
  <2>2. ~(y < x)
    BY <1>2, <2>1
  <2>. QED  BY <2>1, <2>2
<1>. QED  BY <1>4

\* The largest of some numbers that have a bound is one of them.
LEMMA MaxIsLargest ==
  ASSUME NEW S \in SUBSET Nat, S # {}, NEW n \in Nat, \A y \in S : y <= n
  PROVE  Max(S) \in S /\ \A y \in S : y <= Max(S)
<1>. DEFINE Below == {m \in Nat : \A y \in S : y <= m}
<1>1. PICK m \in Below : \A k \in Below : m <= k
  BY LeastExists
<1>2. m \in S
  <2>. SUFFICES ASSUME m \notin S
                PROVE  FALSE
    OBVIOUS
  <2>1. \A y \in S : y < m
    BY <1>1
  <2>2. PICK y \in S : y < m
    BY <2>1
  <2>3. m \in Nat /\ m # 0
    BY <2>2
  <2>4. m - 1 \in Nat /\ \A z \in S : z <= m - 1
    BY <2>1, <2>3
  <2>5. m <= m - 1
    BY <1>1, <2>4
  <2>. QED  BY <2>3, <2>5
<1>3. \E x \in S : \A y \in S : x >= y
  BY <1>1, <1>2
<1>4. Max(S) \in S /\ \A y \in S : Max(S) >= y
  BY <1>3 DEF Max
<1>. QED  BY <1>4

LEMMA MinIsSmallest ==
  ASSUME NEW S \in SUBSET Nat, S # {}
  PROVE  Min(S) \in S /\ \A y \in S : Min(S) <= y
<1>1. \E x \in S : \A y \in S : x =< y
  BY LeastExists
<1>. QED  BY <1>1 DEF Min

(* What the file says, step by step *)

\* A ticket that parse lets through.
SpecOK(spec) ==
  /\ Len(spec.steps) \in Nat /\ DOMAIN spec.steps = 1 .. Len(spec.steps)
  /\ \A k \in 1 .. Len(spec.steps) :
       /\ spec.steps[k] \in Step
       /\ spec.steps[k].type = "status" => spec.steps[k].status \in STEP_STATUSES

LastMove(spec, n) == Max({0} \cup {k \in 1 .. n : spec.steps[k].type = "status"})

LEMMA LastMoveIs ==
  ASSUME NEW spec, NEW n \in Nat
  PROVE  /\ LastMove(spec, n) \in 0 .. n
         /\ LastMove(spec, n) # 0 => spec.steps[LastMove(spec, n)].type = "status"
         /\ \A k \in 1 .. n : spec.steps[k].type = "status" => k <= LastMove(spec, n)
<1>. DEFINE S == {0} \cup {k \in 1 .. n : spec.steps[k].type = "status"}
<1>1. S \in SUBSET Nat /\ S # {} /\ \A y \in S : y <= n
  OBVIOUS
<1>2. Max(S) \in S /\ \A y \in S : y <= Max(S)
  <2>. HIDE DEF S
  <2>. QED  BY <1>1, MaxIsLargest
<1>. QED  BY <1>2 DEF LastMove

LEMMA StatusIs ==
  ASSUME NEW spec, NEW n
  PROVE  StatusAfter(spec, n) =
           LET named == IF LastMove(spec, n) = 0 THEN "new" ELSE spec.steps[LastMove(spec, n)].status
           IN  IF /\ named = "new"
                  /\ \E k \in LastMove(spec, n) + 1 .. n : spec.steps[k].type = "correspond"
               THEN "open" ELSE named
BY DEF StatusAfter, LastMove

\* A ticket is born "new".
LEMMA StatusAtBirth ==
  ASSUME NEW spec, NEW n \in {0 - 1, 0}
  PROVE  StatusAfter(spec, n) = "new"
<1>. DEFINE S == {0} \cup {k \in 1 .. n : spec.steps[k].type = "status"}
<1>1. S = {0}
  OBVIOUS
<1>2. Max(S) = 0
  <2>1. S \in SUBSET Nat /\ S # {} /\ 0 \in Nat /\ \A y \in S : y <= 0
    BY <1>1
  <2>2. Max(S) \in S
    <3>. HIDE DEF S
    <3>. QED  BY <2>1, MaxIsLargest
  <2>. QED  BY <1>1, <2>2
<1>3. LastMove(spec, n) = 0
  BY <1>2 DEF LastMove
<1>4. 0 + 1 .. n = {}
  OBVIOUS
<1>. QED  BY <1>3, <1>4, StatusIs

\* A step does to the status what its page does.
LEMMA StatusStep ==
  ASSUME NEW spec, SpecOK(spec), NEW n \in 1 .. Len(spec.steps)
  PROVE  StatusAfter(spec, n) = Target(StatusAfter(spec, n - 1), spec.steps[n])
<1>. PICK steps : steps = spec.steps
  OBVIOUS
<1>. PICK last : last = LastMove(spec, n)
  OBVIOUS
<1>. PICK prior : prior = LastMove(spec, n - 1)
  OBVIOUS
<1>1. n \in Nat /\ n - 1 \in Nat /\ n # 0
  BY DEF SpecOK
<1>2. /\ last \in 0 .. n /\ (last # 0 => steps[last].type = "status")
      /\ \A k \in 1 .. n : steps[k].type = "status" => k <= last
  BY <1>1, LastMoveIs
<1>3. /\ prior \in 0 .. n - 1 /\ (prior # 0 => steps[prior].type = "status")
      /\ \A k \in 1 .. n - 1 : steps[k].type = "status" => k <= prior
  BY <1>1, LastMoveIs
<1>. PICK named : named = IF last = 0 THEN "new" ELSE steps[last].status
  OBVIOUS
<1>. PICK before : before = IF prior = 0 THEN "new" ELSE steps[prior].status
  OBVIOUS
<1>4. StatusAfter(spec, n) =
        IF named = "new" /\ \E k \in last + 1 .. n : steps[k].type = "correspond" THEN "open" ELSE named
  BY StatusIs
<1>5. StatusAfter(spec, n - 1) =
        IF before = "new" /\ \E k \in prior + 1 .. n - 1 : steps[k].type = "correspond"
        THEN "open" ELSE before
  BY StatusIs
<1>6. CASE steps[n].type = "status"
  <2>1. last = n
    BY <1>1, <1>2, <1>6
  <2>2. n + 1 .. n = {}
    BY <1>1
  <2>3. StatusAfter(spec, n) = steps[n].status
    BY <1>1, <1>4, <2>1, <2>2
  <2>. QED  BY <1>6, <2>3 DEF Target
<1>7. CASE steps[n].type # "status"
  <2>1. last # n
    BY <1>1, <1>2, <1>7
  <2>2. last \in 0 .. n - 1
    BY <1>1, <1>2, <2>1
  <2>3. last = prior
    <3>1. last # 0 => last <= prior
      BY <1>1, <1>2, <1>3, <2>2
    <3>2. prior # 0 => prior <= last
      BY <1>1, <1>2, <1>3
    <3>. QED  BY <1>1, <1>3, <2>2, <3>1, <3>2
  <2>4. named = before
    BY <2>3
  <2>5. n \in last + 1 .. n /\ \A k \in last + 1 .. n : k = n \/ k \in last + 1 .. n - 1
    BY <1>1, <2>2
  <2>6. \A k \in last + 1 .. n - 1 : k \in last + 1 .. n
    BY <1>1, <2>2
  <2>7. CASE steps[n].type = "correspond"
    <3>1. StatusAfter(spec, n) = IF named = "new" THEN "open" ELSE named
      BY <1>4, <2>5, <2>7
    <3>2. StatusAfter(spec, n - 1) \in {"open", named} /\ (named # "new" => StatusAfter(spec, n - 1) = named)
      BY <1>5, <2>4
    <3>3. Target(StatusAfter(spec, n - 1), steps[n]) =
            IF StatusAfter(spec, n - 1) = "new" THEN "open" ELSE StatusAfter(spec, n - 1)
      BY <2>7 DEF Target
    <3>4. named = "new" => StatusAfter(spec, n - 1) \in {"new", "open"}
      BY <3>2
    <3>. QED  BY <3>1, <3>2, <3>3, <3>4
  <2>8. CASE steps[n].type # "correspond"
    <3>1. (\E k \in last + 1 .. n : steps[k].type = "correspond")
            <=> (\E k \in prior + 1 .. n - 1 : steps[k].type = "correspond")
      BY <2>3, <2>5, <2>6, <2>8
    <3>2. StatusAfter(spec, n) = StatusAfter(spec, n - 1)
      BY <1>4, <1>5, <2>4, <3>1
    <3>3. Target(StatusAfter(spec, n - 1), steps[n]) = StatusAfter(spec, n - 1)
      BY <1>7, <2>8 DEF Target
    <3>. QED  BY <3>2, <3>3
  <2>. QED  BY <2>7, <2>8
<1>. QED  BY <1>6, <1>7

\* A step does to the values what its page does.
LEMMA ValuesAtBirth ==
  ASSUME NEW spec, NEW n \in {0 - 1, 0}
  PROVE  ValuesAfter(spec, n) = {}
BY DEF ValuesAfter, SetBy

LEMMA ValuesStep ==
  ASSUME NEW spec, NEW n \in Nat \ {0}
  PROVE  ValuesAfter(spec, n) =
           IF spec.steps[n].type = "custom_field" THEN WithValue(ValuesAfter(spec, n - 1), spec.steps[n])
           ELSE ValuesAfter(spec, n - 1)
<1>. PICK steps : steps = spec.steps
  OBVIOUS
<1>. DEFINE Set(m) == {k \in 1 .. m : steps[k].type = "custom_field"}
<1>1. \A k \in 1 .. n : k = n \/ (k \in 1 .. n - 1 /\ ~(n <= k))
  OBVIOUS
<1>2. n \in 1 .. n /\ (\A k \in 1 .. n - 1 : k \in 1 .. n /\ k <= n /\ k # n) /\ n <= n
  OBVIOUS
<1>3. \A m : SetBy(spec, m) =
        {k \in Set(m) : \A j \in Set(m) : steps[j].field = steps[k].field => j <= k}
  BY DEF SetBy
<1>4. CASE steps[n].type = "custom_field"
  <2>1. \A k : k \in SetBy(spec, n) <=>
          k = n \/ (k \in SetBy(spec, n - 1) /\ steps[k].field # steps[n].field)
    BY <1>1, <1>2, <1>3, <1>4
  <2>2. ValuesAfter(spec, n) = WithValue(ValuesAfter(spec, n - 1), steps[n])
    <3>1. ASSUME NEW x \in ValuesAfter(spec, n)
          PROVE  x \in WithValue(ValuesAfter(spec, n - 1), steps[n])
      <4>. PICK k \in SetBy(spec, n) : x = <<steps[k].field, steps[k].value>>
        BY DEF ValuesAfter
      <4>. QED  BY <2>1 DEF ValuesAfter, WithValue
    <3>2. ASSUME NEW x \in WithValue(ValuesAfter(spec, n - 1), steps[n])
          PROVE  x \in ValuesAfter(spec, n)
      <4>1. CASE x = <<steps[n].field, steps[n].value>>
        BY <2>1, <4>1 DEF ValuesAfter
      <4>2. CASE x \in ValuesAfter(spec, n - 1) /\ x[1] # steps[n].field
        <5>. PICK k \in SetBy(spec, n - 1) : x = <<steps[k].field, steps[k].value>>
          BY <4>2 DEF ValuesAfter
        <5>. QED  BY <2>1, <4>2 DEF ValuesAfter
      <4>. QED  BY <4>1, <4>2 DEF WithValue
    <3>. QED  BY <3>1, <3>2
  <2>. QED  BY <1>4, <2>2
<1>5. CASE steps[n].type # "custom_field"
  <2>1. Set(n) = Set(n - 1)
    BY <1>1, <1>2, <1>5
  <2>2. SetBy(spec, n) = SetBy(spec, n - 1)
    BY <1>3, <2>1
  <2>. QED  BY <1>5, <2>2 DEF ValuesAfter
<1>. QED  BY <1>4, <1>5

LEMMA MovesAtBirth ==
  ASSUME NEW spec, NEW n \in {0 - 1, 0}
  PROVE  Moves(spec, n) = {}
BY DEF Moves

LEMMA MovesStep ==
  ASSUME NEW spec, NEW n \in Nat \ {0}
  PROVE  /\ Moves(spec, n) \subseteq 1 .. n /\ Moves(spec, n - 1) \subseteq 1 .. n - 1
         /\ Moves(spec, n) = IF Leaves(spec, n) THEN Moves(spec, n - 1) \cup {n} ELSE Moves(spec, n - 1)
<1>1. \A k \in 1 .. n : k = n \/ k \in 1 .. n - 1
  OBVIOUS
<1>2. n \in 1 .. n /\ \A k \in 1 .. n - 1 : k \in 1 .. n
  OBVIOUS
<1>. QED  BY <1>1, <1>2 DEF Moves

\* The first and the last move after one more step.
LEMMA FirstAndLastMove ==
  ASSUME NEW spec, NEW n \in Nat \ {0}
  PROVE  /\ Moves(spec, n - 1) # {} =>
              /\ Min(Moves(spec, n)) = Min(Moves(spec, n - 1))
              /\ Min(Moves(spec, n)) \in 1 .. n - 1 /\ Max(Moves(spec, n - 1)) \in 1 .. n - 1
         /\ Moves(spec, n - 1) = {} /\ Leaves(spec, n) => Min(Moves(spec, n)) = n
         /\ Leaves(spec, n) => Max(Moves(spec, n)) = n
         /\ ~Leaves(spec, n) => Moves(spec, n) = Moves(spec, n - 1)
<1>. PICK now : now = Moves(spec, n)
  OBVIOUS
<1>. PICK prior : prior = Moves(spec, n - 1)
  OBVIOUS
<1>1. /\ now \subseteq 1 .. n /\ prior \subseteq 1 .. n - 1
      /\ now = IF Leaves(spec, n) THEN prior \cup {n} ELSE prior
  BY MovesStep
<1>2. now \in SUBSET Nat /\ prior \in SUBSET Nat /\ prior \subseteq now /\ n \in Nat /\ n - 1 \in Nat
  BY <1>1
<1>3. (\A y \in now : y <= n) /\ (\A y \in prior : y <= n - 1)
  BY <1>1
<1>4. prior # {} => /\ Min(prior) \in prior /\ \A y \in prior : Min(prior) <= y
                    /\ Max(prior) \in prior
  BY <1>2, <1>3, MinIsSmallest, MaxIsLargest
<1>5. now # {} => /\ Min(now) \in now /\ \A y \in now : Min(now) <= y
                  /\ Max(now) \in now /\ \A y \in now : y <= Max(now)
  BY <1>2, <1>3, MinIsSmallest, MaxIsLargest
<1>6. ASSUME prior # {}
      PROVE  /\ Min(now) = Min(prior) /\ Min(now) \in 1 .. n - 1 /\ Max(prior) \in 1 .. n - 1
  <2>. PICK a : a = Min(now)
    OBVIOUS
  <2>. PICK b : b = Min(prior)
    OBVIOUS
  <2>1. b \in prior /\ b \in now /\ a \in now /\ a <= b /\ b <= n - 1
    BY <1>2, <1>3, <1>4, <1>5, <1>6
  <2>2. a # n
    BY <1>2, <2>1
  <2>3. a \in prior
    BY <1>1, <2>1, <2>2
  <2>4. b <= a
    BY <1>4, <1>6, <2>3
  <2>5. a = b
    BY <1>2, <2>1, <2>4
  <2>. QED  BY <1>1, <1>4, <1>6, <2>1, <2>5
<1>7. ASSUME Leaves(spec, n)
      PROVE  Max(now) = n /\ (prior = {} => Min(now) = n)
  <2>1. n \in now /\ (prior = {} => now = {n})
    BY <1>1, <1>7
  <2>. PICK m : m = Max(now)
    OBVIOUS
  <2>2. m \in now /\ n <= m /\ m <= n
    BY <1>3, <1>5, <2>1
  <2>3. m = n
    BY <1>2, <2>2
  <2>. QED  BY <1>5, <2>1, <2>3
<1>. QED  BY <1>1, <1>6, <1>7

\* How many rows the history has.
LEMMA RowsOfIs ==
  ASSUME NEW spec, NEW k
  PROVE  /\ Len(RowsOf(spec, k)) \in Nat /\ DOMAIN RowsOf(spec, k) = 1 .. Len(RowsOf(spec, k))
         /\ Len(RowsOf(spec, k)) = (IF spec.steps[k].type = "status" THEN 0 ELSE 1)
                                     + (IF Leaves(spec, k) THEN 1 ELSE 0)
         /\ spec.steps[k].type # "status" =>
              /\ RowsOf(spec, k)[1] = TypeNamed[spec.steps[k].type]
              /\ Leaves(spec, k) => RowsOf(spec, k)[2] = "Status"
         /\ spec.steps[k].type = "status" /\ Leaves(spec, k) => RowsOf(spec, k)[1] = "Status"
<1>. PICK type : type = spec.steps[k].type
  OBVIOUS
<1>. PICK name : name = TypeNamed[type]
  OBVIOUS
<1>1. RowsOf(spec, k) = (IF type = "status" THEN <<>> ELSE <<name>>)
                          \o (IF Leaves(spec, k) THEN <<"Status">> ELSE <<>>)
  BY DEF RowsOf
<1>2. CASE type = "status" /\ Leaves(spec, k)
  <2>1. RowsOf(spec, k) = <<>> \o <<"Status">>
    BY <1>1, <1>2
  <2>. QED  BY <1>2, <2>1
<1>3. CASE type = "status" /\ ~Leaves(spec, k)
  <2>1. RowsOf(spec, k) = <<>> \o <<>>
    BY <1>1, <1>3
  <2>. QED  BY <1>3, <2>1
<1>4. CASE type # "status" /\ Leaves(spec, k)
  <2>1. RowsOf(spec, k) = <<name>> \o <<"Status">>
    BY <1>1, <1>4
  <2>. QED  BY <1>4, <2>1
<1>5. CASE type # "status" /\ ~Leaves(spec, k)
  <2>1. RowsOf(spec, k) = <<name>> \o <<>>
    BY <1>1, <1>5
  <2>. QED  BY <1>5, <2>1
<1>. QED  BY <1>2, <1>3, <1>4, <1>5

Messages(spec, k) == {j \in 1 .. k : spec.steps[j].type # "status"}

LEMMA RowsToIs ==
  ASSUME NEW spec, NEW k \in Int
  PROVE  /\ IsFiniteSet(Messages(spec, k)) /\ Cardinality(Messages(spec, k)) \in Nat
         /\ IsFiniteSet(Moves(spec, k)) /\ Cardinality(Moves(spec, k)) \in Nat
         /\ RowsTo(spec, k) = 1 + Cardinality(Messages(spec, k)) + Cardinality(Moves(spec, k))
         /\ RowsTo(spec, k) \in Nat \ {0}
<1>1. IsFiniteSet(1 .. k)
  BY FS_Interval
<1>2. Messages(spec, k) \in SUBSET (1 .. k) /\ Moves(spec, k) \in SUBSET (1 .. k)
  BY DEF Messages, Moves
<1>3. IsFiniteSet(Messages(spec, k)) /\ IsFiniteSet(Moves(spec, k))
  BY <1>1, <1>2, FS_Subset
<1>4. Cardinality(Messages(spec, k)) \in Nat /\ Cardinality(Moves(spec, k)) \in Nat
  BY <1>3, FS_CardinalityType
<1>5. RowsTo(spec, k) = 1 + Cardinality(Messages(spec, k)) + Cardinality(Moves(spec, k))
  BY DEF RowsTo, Messages
<1>. QED  BY <1>3, <1>4, <1>5

LEMMA RowsAtBirth ==
  ASSUME NEW spec
  PROVE  RowsTo(spec, 0) = 1
<1>1. Messages(spec, 0) = {} /\ Moves(spec, 0) = {}
  BY DEF Messages, Moves
<1>. QED  BY <1>1, RowsToIs, FS_EmptySet

LEMMA RowsStep ==
  ASSUME NEW spec, NEW n \in Nat \ {0}
  PROVE  RowsTo(spec, n) = RowsTo(spec, n - 1) + Len(RowsOf(spec, n))
<1>1. /\ Messages(spec, n) = IF spec.steps[n].type = "status" THEN Messages(spec, n - 1)
                             ELSE Messages(spec, n - 1) \cup {n}
      /\ n \notin Messages(spec, n - 1)
  <2>1. \A k \in 1 .. n : k = n \/ k \in 1 .. n - 1
    OBVIOUS
  <2>2. n \in 1 .. n /\ n \notin 1 .. n - 1 /\ \A k \in 1 .. n - 1 : k \in 1 .. n
    OBVIOUS
  <2>. QED  BY <2>1, <2>2 DEF Messages
<1>2. /\ Moves(spec, n) = IF Leaves(spec, n) THEN Moves(spec, n - 1) \cup {n} ELSE Moves(spec, n - 1)
      /\ n \notin Moves(spec, n - 1)
  <2>1. n \notin 1 .. n - 1
    OBVIOUS
  <2>. QED  BY <2>1, MovesStep
<1>. PICK m : m = Messages(spec, n - 1)
  OBVIOUS
<1>. PICK v : v = Moves(spec, n - 1)
  OBVIOUS
<1>3. IsFiniteSet(m) /\ IsFiniteSet(v) /\ Cardinality(m) \in Nat /\ Cardinality(v) \in Nat
  BY RowsToIs
<1>4. Cardinality(m \cup {n}) = Cardinality(m) + 1 /\ Cardinality(v \cup {n}) = Cardinality(v) + 1
  BY <1>1, <1>2, <1>3, FS_AddElement
<1>5. /\ RowsTo(spec, n) = 1 + Cardinality(Messages(spec, n)) + Cardinality(Moves(spec, n))
      /\ RowsTo(spec, n - 1) = 1 + Cardinality(m) + Cardinality(v)
  BY RowsToIs
<1>6. Len(RowsOf(spec, n)) = (IF spec.steps[n].type = "status" THEN 0 ELSE 1)
                               + (IF Leaves(spec, n) THEN 1 ELSE 0)
  BY RowsOfIs
<1>. QED  BY <1>1, <1>2, <1>3, <1>4, <1>5, <1>6

LEMMA RowsGrow ==
  ASSUME NEW spec, NEW j \in Nat, NEW k \in Nat, j <= k
  PROVE  RowsTo(spec, j) <= RowsTo(spec, k)
<1>1. Messages(spec, j) \in SUBSET Messages(spec, k) /\ Moves(spec, j) \in SUBSET Moves(spec, k)
  BY DEF Messages, Moves
<1>. PICK a : a = Messages(spec, j)
  OBVIOUS
<1>. PICK b : b = Messages(spec, k)
  OBVIOUS
<1>. PICK c : c = Moves(spec, j)
  OBVIOUS
<1>. PICK d : d = Moves(spec, k)
  OBVIOUS
<1>2. /\ IsFiniteSet(b) /\ IsFiniteSet(d) /\ Cardinality(b) \in Nat /\ Cardinality(d) \in Nat
      /\ Cardinality(a) \in Nat /\ Cardinality(c) \in Nat
  BY RowsToIs
<1>3. Cardinality(a) <= Cardinality(b) /\ Cardinality(c) <= Cardinality(d)
  BY <1>1, <1>2, FS_Subset
<1>4. /\ RowsTo(spec, j) = 1 + Cardinality(a) + Cardinality(c)
      /\ RowsTo(spec, k) = 1 + Cardinality(b) + Cardinality(d)
  BY RowsToIs
<1>. QED  BY <1>2, <1>3, <1>4

(* The dates *)

\* The times when all but the n-th step, done at c, are at the file's.
But(spec, n, c) == [Times(spec) EXCEPT ![n] = c]

LEMMA TimesAre ==
  ASSUME NEW spec, SpecOK(spec), NEW n \in 0 .. Len(spec.steps), NEW c
  PROVE  /\ But(spec, n, c)[n] = c
         /\ \A k \in 0 .. Len(spec.steps) : k # n => But(spec, n, c)[k] = Times(spec)[k]
         /\ Times(spec)[0] = spec.created
         /\ \A k \in 1 .. Len(spec.steps) : Times(spec)[k] = spec.steps[k].at
<1>. PICK length : length = Len(spec.steps)
  OBVIOUS
<1>1. length \in Nat
  BY DEF SpecOK
<1>2. /\ Times(spec)[0] = spec.created
      /\ \A k \in 1 .. length : Times(spec)[k] = spec.steps[k].at
  BY <1>1 DEF Times
<1>3. DOMAIN Times(spec) = 0 .. length
  BY DEF Times
<1>. PICK times : times = Times(spec)
  OBVIOUS
<1>4. But(spec, n, c) = [times EXCEPT ![n] = c]
  BY DEF But
<1>. QED  BY <1>2, <1>3, <1>4

\* The dates after a step that is a move of the lifecycle, or none.
LEMMA DatesStep ==
  ASSUME NEW spec, SpecOK(spec), NEW n \in 1 .. Len(spec.steps), NEW c,
         NewIsUnmoved(spec, n - 1),
         Leaves(spec, n) => may_change(StatusAfter(spec, n - 1), StatusAfter(spec, n))
  PROVE  /\ StartedBy(spec, n, But(spec, n, c)) =
              StartedAfter(StatusAfter(spec, n - 1), StatusAfter(spec, n),
                           StartedBy(spec, n - 1, Times(spec)), c)
         /\ ResolvedBy(spec, n, But(spec, n, c)) =
              ResolvedAfter(StatusAfter(spec, n - 1), StatusAfter(spec, n),
                            ResolvedBy(spec, n - 1, Times(spec)), c)
         /\ NewIsUnmoved(spec, n)
<1>. PICK now : now = Moves(spec, n)
  OBVIOUS
<1>. PICK prior : prior = Moves(spec, n - 1)
  OBVIOUS
<1>. PICK old : old = StatusAfter(spec, n - 1)
  OBVIOUS
<1>. PICK new : new = StatusAfter(spec, n)
  OBVIOUS
<1>. PICK when : when = But(spec, n, c)
  OBVIOUS
<1>. PICK times : times = Times(spec)
  OBVIOUS
<1>1. /\ prior # {} => Min(now) = Min(prior) /\ Min(now) \in 1 .. n - 1 /\ Max(prior) \in 1 .. n - 1
      /\ prior = {} /\ old # new => Min(now) = n
      /\ old # new => Max(now) = n
      /\ old = new => now = prior
      /\ now = IF old # new THEN prior \cup {n} ELSE prior
  <2>1. n \in Nat \ {0}
    BY DEF SpecOK
  <2>2. Leaves(spec, n) <=> old # new
    BY DEF Leaves
  <2>3. now = IF old # new THEN prior \cup {n} ELSE prior
    BY <2>1, <2>2, MovesStep
  <2>. QED  BY <2>1, <2>2, <2>3, FirstAndLastMove
<1>2. when[n] = c /\ \A k \in 1 .. n - 1 : when[k] = times[k]
  <2>1. Len(spec.steps) \in Nat /\ n \in 0 .. Len(spec.steps)
    BY DEF SpecOK
  <2>2. \A k \in 1 .. n - 1 : k \in 0 .. Len(spec.steps) /\ k # n
    BY <2>1
  <2>. QED  BY <2>1, <2>2, TimesAre
<1>3. old = "new" <=> prior = {}
  BY DEF NewIsUnmoved
<1>4. old # new => new # "new"
  <2>1. old # new => new \in transitions(old)
    BY DEF may_change, Leaves
  <2>. QED  BY <2>1 DEF transitions, TRANSITIONS, STATUSES, Active
<1>5. NewIsUnmoved(spec, n)
  BY <1>1, <1>3, <1>4 DEF NewIsUnmoved
<1>6. StartedBy(spec, n, when) = StartedAfter(old, new, StartedBy(spec, n - 1, times), c)
  <2>1. StartedBy(spec, n, when) = IF now = {} THEN NoDate ELSE when[Min(now)]
    BY DEF StartedBy
  <2>2. StartedBy(spec, n - 1, times) = IF prior = {} THEN NoDate ELSE times[Min(prior)]
    BY DEF StartedBy
  <2>3. CASE prior # {}
    BY <1>1, <1>2, <1>3, <2>1, <2>2, <2>3 DEF StartedAfter
  <2>4. CASE prior = {} /\ old # new
    BY <1>1, <1>2, <1>3, <2>1, <2>2, <2>4 DEF StartedAfter
  <2>5. CASE prior = {} /\ old = new
    BY <1>1, <1>2, <1>3, <2>1, <2>2, <2>5 DEF StartedAfter
  <2>. QED  BY <2>3, <2>4, <2>5
<1>7. ResolvedBy(spec, n, when) = ResolvedAfter(old, new, ResolvedBy(spec, n - 1, times), c)
  <2>1. ResolvedBy(spec, n, when) = IF now # {} /\ new = "resolved" THEN when[Max(now)] ELSE NoDate
    BY DEF ResolvedBy
  <2>2. ResolvedBy(spec, n - 1, times) = IF prior # {} /\ old = "resolved" THEN times[Max(prior)] ELSE NoDate
    BY DEF ResolvedBy
  <2>3. CASE old = new
    BY <1>1, <1>2, <2>1, <2>2, <2>3 DEF ResolvedAfter
  <2>4. CASE old # new
    BY <1>1, <1>2, <2>1, <2>2, <2>4 DEF ResolvedAfter
  <2>. QED  BY <2>3, <2>4
<1>. QED  BY <1>5, <1>6, <1>7

\* The dates that are stamped are those of the step.
LEMMA DatesStamped ==
  ASSUME NEW spec, SpecOK(spec), NEW n \in 0 .. Len(spec.steps), NEW c, c # NoDate
  PROVE  /\ Restamped(StartedBy(spec, n, But(spec, n, c)), StartedBy(spec, n - 1, Times(spec)),
                      Times(spec)[n]) = StartedBy(spec, n, Times(spec))
         /\ Restamped(ResolvedBy(spec, n, But(spec, n, c)), ResolvedBy(spec, n - 1, Times(spec)),
                      Times(spec)[n]) = ResolvedBy(spec, n, Times(spec))
<1>. PICK now : now = Moves(spec, n)
  OBVIOUS
<1>. PICK prior : prior = Moves(spec, n - 1)
  OBVIOUS
<1>. PICK old : old = StatusAfter(spec, n - 1)
  OBVIOUS
<1>. PICK new : new = StatusAfter(spec, n)
  OBVIOUS
<1>. PICK when : when = But(spec, n, c)
  OBVIOUS
<1>. PICK times : times = Times(spec)
  OBVIOUS
<1>0. n \in Nat /\ Len(spec.steps) \in Nat
  BY DEF SpecOK
<1>1. /\ StartedBy(spec, n, when) = IF now = {} THEN NoDate ELSE when[Min(now)]
      /\ StartedBy(spec, n, times) = IF now = {} THEN NoDate ELSE times[Min(now)]
      /\ StartedBy(spec, n - 1, times) = IF prior = {} THEN NoDate ELSE times[Min(prior)]
  BY DEF StartedBy
<1>2. /\ ResolvedBy(spec, n, when) = IF now # {} /\ new = "resolved" THEN when[Max(now)] ELSE NoDate
      /\ ResolvedBy(spec, n, times) = IF now # {} /\ new = "resolved" THEN times[Max(now)] ELSE NoDate
      /\ ResolvedBy(spec, n - 1, times) = IF prior # {} /\ old = "resolved" THEN times[Max(prior)] ELSE NoDate
  BY DEF ResolvedBy
<1>3. CASE n = 0
  <2>1. now = {}
    BY <1>3, MovesAtBirth
  <2>. QED  BY <1>1, <1>2, <2>1 DEF Restamped
<1>4. CASE n # 0
  <2>1. n \in Nat \ {0} /\ (Leaves(spec, n) <=> old # new)
    BY <1>0, <1>4 DEF Leaves
  <2>2. now = IF old # new THEN prior \cup {n} ELSE prior
    BY <2>1, MovesStep
  <2>3. /\ prior # {} => Min(now) = Min(prior) /\ Min(now) \in 1 .. n - 1 /\ Max(prior) \in 1 .. n - 1
        /\ prior = {} /\ old # new => Min(now) = n
        /\ old # new => Max(now) = n
        /\ old = new => now = prior
    BY <2>1, FirstAndLastMove
  <2>4. when[n] = c /\ \A k \in 1 .. n - 1 : when[k] = times[k]
    <3>1. \A k \in 1 .. n - 1 : k \in 0 .. Len(spec.steps) /\ k # n
      BY <1>0
    <3>. QED  BY <3>1, TimesAre
  <2>5. Restamped(StartedBy(spec, n, when), StartedBy(spec, n - 1, times), times[n])
          = StartedBy(spec, n, times)
    <3>1. CASE prior # {}
      BY <1>1, <2>2, <2>3, <2>4, <3>1 DEF Restamped
    <3>2. CASE prior = {} /\ old # new
      BY <1>1, <2>2, <2>3, <2>4, <3>2 DEF Restamped
    <3>3. CASE prior = {} /\ old = new
      BY <1>1, <2>3, <3>3 DEF Restamped
    <3>. QED  BY <3>1, <3>2, <3>3
  <2>6. Restamped(ResolvedBy(spec, n, when), ResolvedBy(spec, n - 1, times), times[n])
          = ResolvedBy(spec, n, times)
    <3>1. CASE new # "resolved"
      BY <1>2, <3>1 DEF Restamped
    <3>2. CASE new = "resolved" /\ old # new
      <4>1. /\ ResolvedBy(spec, n - 1, times) = NoDate
            /\ ResolvedBy(spec, n, when) = c /\ ResolvedBy(spec, n, times) = times[n]
        BY <1>2, <2>2, <2>3, <2>4, <3>2
      <4>. QED  BY <4>1 DEF Restamped
    <3>3. CASE new = "resolved" /\ old = new
      <4>1. ResolvedBy(spec, n, when) = ResolvedBy(spec, n - 1, times)
        BY <1>2, <2>3, <2>4, <3>3
      <4>2. ResolvedBy(spec, n, times) = ResolvedBy(spec, n - 1, times)
        BY <1>2, <2>3, <3>3
      <4>. QED  BY <4>1, <4>2 DEF Restamped
    <3>. QED  BY <3>1, <3>2, <3>3
  <2>. QED  BY <2>5, <2>6
<1>. QED  BY <1>3, <1>4

(* The history *)

\* Where the rows of a step are.
LEMMA TellsWhere ==
  ASSUME NEW entry, NEW i \in Nat, NEW spec, NEW k \in Nat, NEW when, Tells(entry, i, spec, k, when)
  PROVE  /\ i <= RowsTo(spec, k)
         /\ k # 0 => RowsTo(spec, k - 1) < i
         /\ k = 0 => i = 1
<1>1. CASE k = 0
  <2>1. RowsTo(spec, k) = 1 /\ i = 1
    BY <1>1, RowsAtBirth DEF Tells
  <2>. QED  BY <1>1, <2>1
<1>2. CASE k # 0
  <2>. PICK m : m = RowsTo(spec, k - 1)
    OBVIOUS
  <2>. PICK r : r = Len(RowsOf(spec, k))
    OBVIOUS
  <2>1. m \in Nat /\ RowsTo(spec, k) = m + r
    BY <1>2, RowsStep, RowsToIs
  <2>2. i - m \in 1 .. r /\ r \in Nat
    BY <1>2, RowsOfIs DEF Tells
  <2>. QED  BY <1>2, <2>1, <2>2
<1>. QED  BY <1>1, <1>2

LEMMA HistoryAtBirth ==
  ASSUME NEW spec, NEW when, NEW entry, entry.type = "Create", entry.at = when[0],
         entry.by = spec.creator
  PROVE  History(<<entry>>, spec, 0, when)
<1>1. Len(<<entry>>) = RowsTo(spec, 0)
  BY RowsAtBirth
<1>2. Tells(entry, 1, spec, 0, when)
  BY DEF Tells, Actor
<1>3. DOMAIN <<entry>> = {1} /\ <<entry>>[1] = entry /\ 0 \in 0 .. 0
  OBVIOUS
<1>. QED  BY <1>1, <1>2, <1>3 DEF History

\* A step appends its rows, which are not at the file's time yet.
LEMMA HistoryGrows ==
  ASSUME NEW spec, SpecOK(spec), NEW n \in 1 .. Len(spec.steps), NEW c,
         NEW log \in Seq(Row), NEW entries \in Seq(Row),
         History(log, spec, n - 1, Times(spec)),
         Len(entries) = Len(RowsOf(spec, n)),
         \A i \in 1 .. Len(entries) :
           /\ entries[i].type = RowsOf(spec, n)[i]
           /\ entries[i].at = c /\ entries[i].by = Actor(spec, n)
  PROVE  History(log \o entries, spec, n, But(spec, n, c))
<1>. PICK m : m = RowsTo(spec, n - 1)
  OBVIOUS
<1>. PICK r : r = Len(RowsOf(spec, n))
  OBVIOUS
<1>. PICK whole : whole = log \o entries
  OBVIOUS
<1>1. n \in Nat \ {0} /\ n - 1 \in Nat /\ Len(spec.steps) \in Nat
  BY DEF SpecOK
<1>2. /\ m \in Nat /\ RowsTo(spec, n) = m + r /\ Len(log) = m /\ Len(entries) = r
      /\ DOMAIN RowsOf(spec, n) = 1 .. r
  BY <1>1, RowsStep, RowsToIs, RowsOfIs DEF History
<1>3. /\ Len(whole) = m + r /\ DOMAIN whole = 1 .. m + r /\ r \in Nat
      /\ \A i \in 1 .. m : whole[i] = log[i]
      /\ \A i \in 1 .. r : whole[m + i] = entries[i]
  <2>1. log \in Seq(Row) /\ entries \in Seq(Row) /\ whole = log \o entries
    OBVIOUS
  <2>2. Len(log) = m /\ Len(entries) = r /\ m \in Nat /\ r \in Nat
    BY <1>2, <2>1
  <2>3. Len(whole) = m + r /\ DOMAIN whole = 1 .. m + r
    <3>1. whole \in Seq(Row)
      BY ONLY <2>1
    <3>2. Len(whole) = Len(log) + Len(entries)
      BY ONLY <2>1
    <3>3. DOMAIN whole = 1 .. Len(whole)
      BY ONLY <3>1
    <3>. QED  BY <2>2, <3>2, <3>3
  <2>4. \A i \in 1 .. m : whole[i] = log[i]
    BY ONLY <2>1, <2>2
  <2>5. \A i \in 1 .. r : whole[m + i] = entries[i]
    BY ONLY <2>1, <2>2
  <2>. QED  BY <2>2, <2>3, <2>4, <2>5
<1>4. ASSUME NEW i \in 1 .. m
      PROVE  \E k \in 0 .. n : Tells(whole[i], i, spec, k, But(spec, n, c))
  <2>1. i \in DOMAIN log
    BY <1>2
  <2>2. PICK k \in 0 .. n - 1 : Tells(log[i], i, spec, k, Times(spec))
    BY <2>1 DEF History
  <2>3. k \in 0 .. n /\ k \in 0 .. Len(spec.steps) /\ k # n /\ n \in 0 .. Len(spec.steps)
    BY <1>1
  <2>4. But(spec, n, c)[k] = Times(spec)[k]
    BY <2>3, TimesAre
  <2>5. Tells(whole[i], i, spec, k, But(spec, n, c))
    BY <1>3, <2>2, <2>4 DEF Tells
  <2>. QED  BY <2>3, <2>5
<1>5. ASSUME NEW i \in m + 1 .. m + r
      PROVE  Tells(whole[i], i, spec, n, But(spec, n, c))
  <2>. PICK j : j = i - m
    OBVIOUS
  <2>1. j \in 1 .. r /\ i = m + j
    BY <1>2, <1>3
  <2>2. whole[i] = entries[j]
    BY <1>3, <2>1
  <2>3. n \in 0 .. Len(spec.steps)
    BY <1>1
  <2>4. But(spec, n, c)[n] = c
    BY <2>3, TimesAre
  <2>5. entries[j].type = RowsOf(spec, n)[j] /\ entries[j].at = c /\ entries[j].by = Actor(spec, n)
    BY <1>2, <2>1
  <2>6. i - RowsTo(spec, n - 1) = j /\ j \in DOMAIN RowsOf(spec, n) /\ n # 0
    BY <1>1, <1>2, <2>1
  <2>. QED  BY <2>2, <2>4, <2>5, <2>6 DEF Tells
<1>6. ASSUME NEW i \in DOMAIN whole
      PROVE  \E k \in 0 .. n : Tells(whole[i], i, spec, k, But(spec, n, c))
  <2>1. i \in 1 .. m \/ i \in m + 1 .. m + r
    BY <1>2, <1>3
  <2>2. n \in 0 .. n
    BY <1>1
  <2>. QED  BY <1>4, <1>5, <2>1, <2>2
<1>7. Len(whole) = RowsTo(spec, n)
  BY <1>2, <1>3
<1>. QED  BY <1>6, <1>7 DEF History

\* The rows above the mark are those of the step, and get its time.
LEMMA HistoryStamped ==
  ASSUME NEW spec, SpecOK(spec), NEW n \in 0 .. Len(spec.steps), NEW c,
         NEW log \in Seq(Row), History(log, spec, n, But(spec, n, c)),
         NEW mark, mark = IF n = 0 THEN 0 ELSE RowsTo(spec, n - 1),
         NEW at \in Nat, at = Times(spec)[n],
         NEW dated, dated = [i \in DOMAIN log |-> IF i > mark THEN [log[i] EXCEPT !.at = at] ELSE log[i]]
  PROVE  History(dated, spec, n, Times(spec)) /\ Len(dated) = Len(log)
<1>1. n \in Nat /\ Len(spec.steps) \in Nat
  BY DEF SpecOK
<1>2. Len(log) \in Nat /\ DOMAIN log = 1 .. Len(log) /\ DOMAIN dated = 1 .. Len(log)
  OBVIOUS
<1>3. Len(dated) = Len(log)
  <2>1. dated \in Seq(Row)
    BY RestampedHistory
  <2>. QED  BY <1>2, <2>1
<1>4. ASSUME NEW i \in DOMAIN log
      PROVE  \E k \in 0 .. n : Tells(dated[i], i, spec, k, Times(spec))
  <2>1. PICK k \in 0 .. n : Tells(log[i], i, spec, k, But(spec, n, c))
    BY DEF History
  <2>2. log[i] \in Row /\ i \in Nat /\ i # 0
    BY <1>2
  <2>3. k \in Nat /\ k \in 0 .. Len(spec.steps)
    BY <1>1
  <2>4. /\ i <= RowsTo(spec, k)
        /\ k # 0 => RowsTo(spec, k - 1) < i
        /\ k = 0 => i = 1
    BY <2>1, <2>2, <2>3, TellsWhere
  <2>5. CASE k = n
    <3>1. i > mark
      <4>1. n # 0 => RowsTo(spec, n - 1) \in Nat
        BY <1>1, RowsToIs
      <4>. QED  BY <2>2, <2>4, <2>5, <4>1
    <3>2. dated[i] = [log[i] EXCEPT !.at = at]
      BY <3>1
    <3>3. dated[i].type = log[i].type /\ dated[i].by = log[i].by /\ dated[i].at = at
      BY <2>2, <3>2 DEF Row
    <3>4. Tells(dated[i], i, spec, n, Times(spec))
      BY <2>1, <2>5, <3>3 DEF Tells
    <3>5. n \in 0 .. n
      BY <1>1
    <3>. QED  BY <3>4, <3>5
  <2>6. CASE k # n
    <3>1. k <= n - 1 /\ n - 1 \in Nat /\ n # 0
      BY <1>1, <2>6
    <3>2. RowsTo(spec, k) <= RowsTo(spec, n - 1) /\ RowsTo(spec, k) \in Nat /\ RowsTo(spec, n - 1) \in Nat
      BY <2>3, <3>1, RowsGrow, RowsToIs
    <3>3. ~(i > mark)
      BY <2>2, <2>4, <3>1, <3>2
    <3>4. dated[i] = log[i]
      BY <3>3
    <3>5. But(spec, n, c)[k] = Times(spec)[k]
      BY <2>3, <2>6, TimesAre
    <3>6. Tells(dated[i], i, spec, k, Times(spec))
      BY <2>1, <3>4, <3>5 DEF Tells
    <3>. QED  BY <3>6
  <2>. QED  BY <2>5, <2>6
<1>5. DOMAIN dated = DOMAIN log /\ Len(dated) = RowsTo(spec, n)
  BY <1>2, <1>3 DEF History
<1>6. \A i \in DOMAIN dated : \E k \in 0 .. n : Tells(dated[i], i, spec, k, Times(spec))
  BY <1>4, <1>5
<1>. QED  BY <1>3, <1>5, <1>6 DEF History

(* The ticket *)

\* A ticket is created as the file has it, but for the time.
LEMMA FollowsAtBirth ==
  ASSUME NEW spec, SpecOK(spec), NEW p
  PROVE  /\ Follows(NewTicket(p, spec), spec, 0, But(spec, 0, Clock))
         /\ NewIsUnmoved(spec, 0)
<1>. PICK entry : entry = [type |-> "Create", at |-> Clock, by |-> spec.creator, who |-> p]
  OBVIOUS
<1>. PICK row : row = NewTicket(p, spec)
  OBVIOUS
<1>. PICK when : when = But(spec, 0, Clock)
  OBVIOUS
<1>1. /\ row.subject = spec.subject /\ row.queue = spec.queue /\ row.owner = spec.owner
      /\ row.status = "new" /\ row.values = {} /\ row.created = Clock
      /\ row.started = NoDate /\ row.resolved = NoDate /\ row.log = <<entry>>
  BY DEF NewTicket
<1>2. entry.type = "Create" /\ entry.at = Clock /\ entry.by = spec.creator
  OBVIOUS
<1>3. when[0] = Clock
  <2>1. 0 \in 0 .. Len(spec.steps)
    BY DEF SpecOK
  <2>. QED  BY <2>1, TimesAre
<1>4. History(row.log, spec, 0, when)
  BY <1>1, <1>2, <1>3, HistoryAtBirth
<1>5. StatusAfter(spec, 0) = "new" /\ ValuesAfter(spec, 0) = {} /\ Moves(spec, 0) = {}
  BY StatusAtBirth, ValuesAtBirth, MovesAtBirth
<1>6. StartedBy(spec, 0, when) = NoDate /\ ResolvedBy(spec, 0, when) = NoDate
  BY <1>5 DEF StartedBy, ResolvedBy
<1>7. Follows(row, spec, 0, when)
  BY <1>1, <1>3, <1>4, <1>5, <1>6 DEF Follows
<1>. QED  BY <1>5, <1>7 DEF NewIsUnmoved

\* The rows a page writes are those of the step.
\* A row of p's for step n.
Entry(spec, n, p, type) == [type |-> type, at |-> Clock, by |-> spec.steps[n].actor, who |-> p]

Entries(spec, n, p) ==
  (IF spec.steps[n].type = "status" THEN <<>> ELSE <<Entry(spec, n, p, TypeNamed[spec.steps[n].type])>>)
    \o (IF Leaves(spec, n) THEN <<Entry(spec, n, p, "Status")>> ELSE <<>>)

LEMMA EntriesAreRows ==
  ASSUME NEW spec, NEW n, n # 0, NEW p
  PROVE  /\ Len(Entries(spec, n, p)) = Len(RowsOf(spec, n))
         /\ \A i \in 1 .. Len(Entries(spec, n, p)) :
              /\ Entries(spec, n, p)[i].type = RowsOf(spec, n)[i]
              /\ Entries(spec, n, p)[i].at = Clock /\ Entries(spec, n, p)[i].by = Actor(spec, n)
<1>. PICK entries : entries = Entries(spec, n, p)
  OBVIOUS
<1>. PICK first : first = Entry(spec, n, p, TypeNamed[spec.steps[n].type])
  OBVIOUS
<1>. PICK second : second = Entry(spec, n, p, "Status")
  OBVIOUS
<1>0. /\ first.type = TypeNamed[spec.steps[n].type] /\ second.type = "Status"
      /\ first.at = Clock /\ first.by = Actor(spec, n)
      /\ second.at = Clock /\ second.by = Actor(spec, n)
  BY DEF Entry, Actor
<1>. PICK type : type = spec.steps[n].type
  OBVIOUS
<1>. PICK wanted : wanted = RowsOf(spec, n)
  OBVIOUS
<1>1. /\ Len(wanted) = (IF type = "status" THEN 0 ELSE 1) + (IF Leaves(spec, n) THEN 1 ELSE 0)
      /\ type # "status" => wanted[1] = TypeNamed[type] /\ (Leaves(spec, n) => wanted[2] = "Status")
      /\ type = "status" /\ Leaves(spec, n) => wanted[1] = "Status"
  BY RowsOfIs
<1>2. CASE type = "status" /\ Leaves(spec, n)
  <2>1. entries = <<>> \o <<second>>
    BY <1>2 DEF Entries
  <2>2. Len(entries) = 1 /\ entries[1] = second
    BY ONLY <2>1
  <2>. QED  BY <1>0, <1>1, <1>2, <2>2
<1>3. CASE type = "status" /\ ~Leaves(spec, n)
  <2>1. entries = <<>> \o <<>>
    BY <1>3 DEF Entries
  <2>2. Len(entries) = 0
    BY ONLY <2>1
  <2>. QED  BY <1>1, <1>3, <2>2
<1>4. CASE type # "status" /\ Leaves(spec, n)
  <2>1. entries = <<first>> \o <<second>>
    BY <1>4 DEF Entries
  <2>2. Len(entries) = 2 /\ entries[1] = first /\ entries[2] = second
    BY ONLY <2>1
  <2>3. Len(wanted) = 2 /\ wanted[1] = TypeNamed[type] /\ wanted[2] = "Status"
    BY <1>1, <1>4
  <2>4. \A i \in 1 .. 2 : i = 1 \/ i = 2
    OBVIOUS
  <2>. QED  BY <1>0, <2>2, <2>3, <2>4
<1>5. CASE type # "status" /\ ~Leaves(spec, n)
  <2>1. entries = <<first>> \o <<>>
    BY <1>5 DEF Entries
  <2>2. Len(entries) = 1 /\ entries[1] = first
    BY ONLY <2>1
  <2>. QED  BY <1>0, <1>1, <1>5, <2>2
<1>. QED  BY <1>2, <1>3, <1>4, <1>5

\* What a step's page makes of a row, whose status becomes `target`.
Moved(row, spec, n, target, entries, written) ==
  /\ target = Target(row.status, spec.steps[n])
  /\ target # row.status => may_change(row.status, target)
  /\ written.subject = row.subject /\ written.queue = row.queue /\ written.owner = row.owner
  /\ written.status = target /\ written.created = row.created
  /\ written.started = StartedAfter(row.status, target, row.started, Clock)
  /\ written.resolved = ResolvedAfter(row.status, target, row.resolved, Clock)
  /\ written.values = ValuesAfter(spec, n) /\ written.log = row.log \o entries

\* A step that its page takes leads from the file's ticket to the file's ticket.
LEMMA FollowsApplied ==
  ASSUME NEW spec, SpecOK(spec), NEW n \in 1 .. Len(spec.steps), NEW row \in Ticket, NEW p,
         Follows(row, spec, n - 1, Times(spec)), NewIsUnmoved(spec, n - 1),
         NEW entries \in Seq(Row), entries = Entries(spec, n, p),
         NEW target, NEW written, Moved(row, spec, n, target, entries, written)
  PROVE  Follows(written, spec, n, But(spec, n, Clock)) /\ NewIsUnmoved(spec, n)
<1>. USE DEF Moved
<1>. PICK when : when = But(spec, n, Clock)
  OBVIOUS
<1>1. n \in Nat \ {0} /\ n \in 0 .. Len(spec.steps) /\ 0 \in 0 .. Len(spec.steps)
  BY DEF SpecOK
<1>2. /\ row.subject = spec.subject /\ row.queue = spec.queue /\ row.owner = spec.owner
      /\ row.status = StatusAfter(spec, n - 1) /\ row.values = ValuesAfter(spec, n - 1)
      /\ row.created = Times(spec)[0]
      /\ row.started = StartedBy(spec, n - 1, Times(spec))
      /\ row.resolved = ResolvedBy(spec, n - 1, Times(spec))
      /\ History(row.log, spec, n - 1, Times(spec))
  BY DEF Follows
<1>3. target = StatusAfter(spec, n) /\ (target # row.status <=> Leaves(spec, n))
  <2>1. target = StatusAfter(spec, n)
    BY <1>2, StatusStep
  <2>. QED  BY <1>2, <2>1 DEF Leaves
<1>4. /\ written.started = StartedBy(spec, n, when) /\ written.resolved = ResolvedBy(spec, n, when)
      /\ NewIsUnmoved(spec, n)
  <2>1. Leaves(spec, n) => may_change(StatusAfter(spec, n - 1), StatusAfter(spec, n))
    BY <1>2, <1>3
  <2>2. /\ StartedBy(spec, n, But(spec, n, Clock)) =
              StartedAfter(StatusAfter(spec, n - 1), StatusAfter(spec, n),
                           StartedBy(spec, n - 1, Times(spec)), Clock)
        /\ ResolvedBy(spec, n, But(spec, n, Clock)) =
              ResolvedAfter(StatusAfter(spec, n - 1), StatusAfter(spec, n),
                            ResolvedBy(spec, n - 1, Times(spec)), Clock)
        /\ NewIsUnmoved(spec, n)
    BY <2>1, DatesStep
  <2>. QED  BY <1>2, <1>3, <2>2
<1>5. written.values = ValuesAfter(spec, n)
  OBVIOUS
<1>6. History(row.log \o entries, spec, n, when)
  <2>1. n # 0
    BY <1>1
  <2>2. /\ Len(entries) = Len(RowsOf(spec, n))
        /\ \A i \in 1 .. Len(entries) :
             /\ entries[i].type = RowsOf(spec, n)[i]
             /\ entries[i].at = Clock /\ entries[i].by = Actor(spec, n)
    BY ONLY entries = Entries(spec, n, p), <2>1, EntriesAreRows
  <2>. PICK log : log = row.log
    OBVIOUS
  <2>3. log \in Seq(Row) /\ History(log, spec, n - 1, Times(spec))
    BY <1>2 DEF Ticket
  <2>9. History(log \o entries, spec, n, But(spec, n, Clock))
    BY ONLY SpecOK(spec), n \in 1 .. Len(spec.steps), entries \in Seq(Row), <2>2, <2>3, HistoryGrows
  <2>. QED  BY <2>9
<1>7. written.created = when[0]
  <2>1. 0 # n
    BY <1>1
  <2>. QED  BY <1>1, <1>2, <2>1, TimesAre
<1>8. Follows(written, spec, n, when)
  BY <1>2, <1>3, <1>4, <1>5, <1>6, <1>7 DEF Follows
<1>. QED  BY <1>4, <1>8

\* What a stamp makes of a row: all above the mark, and the dates the step set,
\* are at the time of the step.
Stamped(row, spec, n, mark, at, written) ==
  /\ mark = (IF n = 0 THEN 0 ELSE RowsTo(spec, n - 1)) /\ at = Times(spec)[n]
  /\ written.subject = row.subject /\ written.queue = row.queue /\ written.owner = row.owner
  /\ written.status = row.status /\ written.values = row.values
  /\ written.created = (IF n = 0 THEN at ELSE row.created)
  /\ written.started = Restamped(row.started, StartedBy(spec, n - 1, Times(spec)), at)
  /\ written.resolved = Restamped(row.resolved, ResolvedBy(spec, n - 1, Times(spec)), at)
  /\ written.last_updated = at /\ written.last_updated_by = Actor(spec, n)
  /\ written.log = [i \in DOMAIN row.log |->
                      IF i > mark THEN [row.log[i] EXCEPT !.at = at] ELSE row.log[i]]

\* A stamp puts what the step wrote at the file's time.
LEMMA FollowsStamped ==
  ASSUME NEW spec, SpecOK(spec), NEW n \in 0 .. Len(spec.steps), NEW row \in Ticket,
         Follows(row, spec, n, But(spec, n, Clock)),
         NEW mark, NEW at \in Nat, NEW written, Stamped(row, spec, n, mark, at, written)
  PROVE  /\ Follows(written, spec, n, Times(spec)) /\ LastIs(written, spec, n, Times(spec))
         /\ Len(written.log) = RowsTo(spec, n)
<1>. USE DEF Stamped
<1>. PICK when : when = But(spec, n, Clock)
  OBVIOUS
<1>1. Clock # NoDate /\ 0 \in 0 .. Len(spec.steps)
  BY BoundsOK DEF SpecOK
<1>2. /\ row.subject = spec.subject /\ row.queue = spec.queue /\ row.owner = spec.owner
      /\ row.status = StatusAfter(spec, n) /\ row.values = ValuesAfter(spec, n)
      /\ row.created = when[0]
      /\ row.started = StartedBy(spec, n, when) /\ row.resolved = ResolvedBy(spec, n, when)
      /\ History(row.log, spec, n, when)
  BY DEF Follows
<1>3. /\ written.started = StartedBy(spec, n, Times(spec))
      /\ written.resolved = ResolvedBy(spec, n, Times(spec))
  BY <1>1, <1>2, DatesStamped
<1>4. written.created = Times(spec)[0]
  <2>1. n # 0 => But(spec, n, Clock)[0] = Times(spec)[0]
    BY <1>1, TimesAre
  <2>. QED  BY <1>2, <2>1
<1>5. History(written.log, spec, n, Times(spec)) /\ Len(written.log) = RowsTo(spec, n)
  <2>. PICK log : log = row.log
    OBVIOUS
  <2>. PICK dated : dated = written.log
    OBVIOUS
  <2>1. log \in Seq(Row)
    BY DEF Ticket
  <2>2. dated = [i \in DOMAIN log |-> IF i > mark THEN [log[i] EXCEPT !.at = at] ELSE log[i]]
    OBVIOUS
  <2>4. History(log, spec, n, But(spec, n, Clock))
    BY <1>2
  <2>3. History(dated, spec, n, Times(spec))
    BY ONLY SpecOK(spec), n \in 0 .. Len(spec.steps), <2>1, <2>2, <2>4, at \in Nat, at = Times(spec)[n],
            mark = IF n = 0 THEN 0 ELSE RowsTo(spec, n - 1), HistoryStamped
  <2>. QED  BY <2>3 DEF History
<1>. QED  BY <1>2, <1>3, <1>4, <1>5 DEF Follows, LastIs

(* The invariant *)

LEMMA SpecsAreOK ==
  ASSUME TypeOK, NEW p \in Processes, parse(File(p)), NEW t \in DOMAIN File(p).tickets
  PROVE  /\ File(p).tickets[t] \in TicketSpec /\ SpecOK(File(p).tickets[t])
         /\ File(p).tickets[t].id = t
         /\ \A n \in 0 .. Len(File(p).tickets[t].steps) : Times(File(p).tickets[t])[n] \in Nat
<1>. PICK file : file = File(p)
  OBVIOUS
<1>. PICK spec : spec = file.tickets[t]
  OBVIOUS
<1>1. spec \in TicketSpec
  BY FilesHaveShape
<1>2. ticket_spec(spec, t)
  BY DEF parse
<1>. PICK steps : steps = spec.steps
  OBVIOUS
<1>3. steps \in Seq(Step) /\ spec.created \in Nat
  BY <1>1 DEF TicketSpec
<1>4. Len(steps) \in Nat /\ DOMAIN steps = 1 .. Len(steps) /\ \A k \in 1 .. Len(steps) : steps[k] \in Step
  BY <1>3
<1>5. spec.id = t /\ \A k \in DOMAIN steps : steps[k].type = "status" => steps[k].status \in STEP_STATUSES
  BY <1>2 DEF ticket_spec
<1>6. SpecOK(spec)
  BY <1>4, <1>5 DEF SpecOK
<1>7. ASSUME NEW n \in 0 .. Len(steps)
      PROVE  Times(spec)[n] \in Nat
  <2>1. CASE n = 0
    <3>1. 0 \in 0 .. Len(spec.steps)
      BY <1>4
    <3>2. Times(spec)[0] = spec.created
      BY <1>6, <3>1, TimesAre
    <3>. QED  BY <1>3, <2>1, <3>2
  <2>2. CASE n # 0
    <3>1. n \in 1 .. Len(spec.steps) /\ 0 \in 0 .. Len(spec.steps)
      BY <1>4, <2>2
    <3>2. Times(spec)[n] = spec.steps[n].at
      BY <1>6, <3>1, TimesAre
    <3>. QED  BY <1>4, <3>1, <3>2 DEF Step
  <2>. QED  BY <2>1, <2>2
<1>. QED  BY <1>1, <1>5, <1>6, <1>7

\* The tickets of a process nobody has changed, but the app, which leaves its name.
Kept(q) ==
  \A t \in Existing : tickets[t].who = q => tickets'[t] = tickets[t] \/ Touched(t)'

LEMMA OthersSaid ==
  ASSUME IInv, NEW q \in Processes, proc'[q] = proc[q], command' = command, Kept(q),
         OpenIsSaid(q), DoneIsSaid(q)
  PROVE  OpenIsSaid(q)' /\ DoneIsSaid(q)'
<1>. PICK file : file = File(q)
  OBVIOUS
<1>. PICK me : me = proc[q]
  OBVIOUS
<1>. PICK spec : spec = SpecOf(q)
  OBVIOUS
<1>1. File(q)' = file /\ SpecOf(q)' = spec /\ proc'[q] = me
  BY DEF File, SpecOf
<1>2. PlaceOK(q) /\ TicketsOwned(q)
  BY DEF IInv
<1>3. ASSUME NEW t \in Existing, tickets[t].who = q, ~Touched(t)'
      PROVE  tickets'[t] = tickets[t] /\ ~Touched(t)
  <2>1. tickets'[t] = tickets[t]
    BY <1>3 DEF Kept
  <2>. QED  BY <1>3, <2>1 DEF Touched, Existing
<1>4. OpenIsSaid(q)'
  <2>. SUFFICES ASSUME me.at \in {"stamp", "apply"}, ~Touched(me.id)'
                PROVE  OpenIsSaid(q)'
    BY <1>1 DEF OpenIsSaid
  <2>. PICK id : id = me.id
    OBVIOUS
  <2>1. id \in Existing /\ tickets[id].who = q
    BY <1>2 DEF PlaceOK
  <2>2. tickets'[id] = tickets[id] /\ ~Touched(id)
    BY <1>3, <2>1
  <2>. PICK row : row = tickets[id]
    OBVIOUS
  <2>. QED  BY <1>1, <2>2 DEF OpenIsSaid
<1>5. DoneIsSaid(q)'
  <2>. SUFFICES ASSUME NEW t \in DOMAIN file.tickets, t < me.number, ~Touched(t)'
                PROVE  AsSaid(tickets'[t], file.tickets[t])
    BY <1>1 DEF DoneIsSaid
  <2>1. t \in Existing /\ tickets[t].who = q
    BY <1>2 DEF TicketsOwned
  <2>2. tickets'[t] = tickets[t] /\ ~Touched(t)
    BY <1>3, <2>1
  <2>. QED  BY <2>2 DEF DoneIsSaid
<1>. QED  BY <1>4, <1>5

\* A step of a process that leaves all tickets alone and opens none.
LEMMA NothingSaid ==
  ASSUME IInv, NEW q \in Processes, command' = command, Kept(q),
         proc'[q].number = proc[q].number, proc'[q].mark = proc[q].mark,
         \/ proc[q].at \notin {"stamp", "apply"} /\ proc'[q].at \notin {"stamp", "apply"}
         \/ /\ proc'[q].at = proc[q].at /\ proc'[q].id = proc[q].id /\ proc'[q].step = proc[q].step
            /\ proc'[q].ticket = proc[q].ticket /\ proc'[q].before = proc[q].before,
         OpenIsSaid(q), DoneIsSaid(q)
  PROVE  OpenIsSaid(q)' /\ DoneIsSaid(q)'
<1>. PICK file : file = File(q)
  OBVIOUS
<1>. PICK me : me = proc[q]
  OBVIOUS
<1>. PICK went : went = proc'[q]
  OBVIOUS
<1>. PICK spec : spec = SpecOf(q)
  OBVIOUS
<1>1. File(q)' = file /\ SpecOf(q)' = spec
  BY DEF File, SpecOf
<1>2. PlaceOK(q) /\ TicketsOwned(q)
  BY DEF IInv
<1>3. ASSUME NEW t \in Existing, tickets[t].who = q, ~Touched(t)'
      PROVE  tickets'[t] = tickets[t] /\ ~Touched(t)
  <2>1. tickets'[t] = tickets[t]
    BY <1>3 DEF Kept
  <2>. QED  BY <1>3, <2>1 DEF Touched, Existing
<1>4. OpenIsSaid(q)'
  <2>. SUFFICES ASSUME went.at \in {"stamp", "apply"}, ~Touched(went.id)'
                PROVE  OpenIsSaid(q)'
    BY DEF OpenIsSaid
  <2>1. /\ went.at = me.at /\ went.id = me.id /\ went.step = me.step
        /\ went.ticket = me.ticket /\ went.mark = me.mark /\ went.before = me.before
    OBVIOUS
  <2>. PICK id : id = me.id
    OBVIOUS
  <2>2. id \in Existing /\ tickets[id].who = q
    BY <1>2, <2>1 DEF PlaceOK
  <2>3. tickets'[id] = tickets[id] /\ ~Touched(id)
    BY <1>3, <2>1, <2>2
  <2>. PICK row : row = tickets[id]
    OBVIOUS
  <2>. QED  BY <1>1, <2>1, <2>3 DEF OpenIsSaid
<1>5. DoneIsSaid(q)'
  <2>. SUFFICES ASSUME NEW t \in DOMAIN file.tickets, t < me.number, ~Touched(t)'
                PROVE  AsSaid(tickets'[t], file.tickets[t])
    BY <1>1 DEF DoneIsSaid
  <2>1. t \in Existing /\ tickets[t].who = q
    BY <1>2 DEF TicketsOwned
  <2>2. tickets'[t] = tickets[t] /\ ~Touched(t)
    BY <1>3, <2>1
  <2>. QED  BY <2>2 DEF DoneIsSaid
<1>. QED  BY <1>4, <1>5

\* A step of a process leaves the others where they are, and what they wrote.
LEMMA StepIsItsOwn ==
  ASSUME IInv, NEW p \in Processes,
         \/ start(p) \/ seed(p) \/ guard(p) \/ write(p) \/ create(p) \/ apply_step(p)
         \/ stamp(p) \/ verify(p) \/ fail(p)
  PROVE  /\ command' = command
         /\ \A q \in Processes : q # p => proc'[q] = proc[q] /\ Kept(q)
<1>1. proc \in [Processes -> Process] /\ tickets \in [1 .. MaxId -> Ticket \cup {Absent}] /\ FreshOK
  BY DEF IInv, TypeOK
<1>2. \A t \in Existing : ~(t = next_id)
  <2>1. next_id \in Nat /\ \A t \in Existing : t \in Nat /\ t < next_id
    BY <1>1 DEF IInv, TypeOK, FreshOK, Existing
  <2>. QED  BY <2>1
<1>3. proc[p].at \in {"stamp", "apply"} => proc[p].id \in Existing /\ tickets[proc[p].id].who = p
  BY DEF IInv, PlaceOK
<1>4. CASE start(p) \/ seed(p) \/ guard(p) \/ write(p) \/ verify(p) \/ fail(p)
  <2>1. tickets' = tickets /\ command' = command
    BY <1>4 DEF start, seed, guard, write, verify, fail, database
  <2>2. \E me : proc' = [proc EXCEPT ![p] = me]
    BY <1>1, <1>4 DEF start, seed, guard, write, verify, fail, Seeded, End, Go
  <2>. QED  BY <1>1, <2>1, <2>2 DEF Kept
<1>5. CASE create(p)
  <2>1. command' = command /\ \A t \in Existing : tickets'[t] = tickets[t]
    BY <1>1, <1>2, <1>5 DEF create, Created, Existing
  <2>2. \A q \in Processes : q # p => proc'[q] = proc[q]
    BY <1>1, <1>5 DEF create, Created, End
  <2>. QED  BY <2>1, <2>2 DEF Kept
<1>6. CASE apply_step(p)
  <2>1. command' = command /\ \A t \in Existing : t # proc[p].id => tickets'[t] = tickets[t]
    BY <1>1, <1>6 DEF apply_step, Existing
  <2>2. \A q \in Processes : q # p => proc'[q] = proc[q]
    BY <1>1, <1>6 DEF apply_step, End
  <2>. QED  BY <1>3, <1>6, <2>1, <2>2 DEF Kept, apply_step, At
<1>7. CASE stamp(p)
  <2>1. command' = command /\ \A t \in Existing : t # proc[p].id => tickets'[t] = tickets[t]
    BY <1>1, <1>7 DEF stamp, Existing
  <2>2. \A q \in Processes : q # p => proc'[q] = proc[q]
    BY <1>1, <1>7 DEF stamp
  <2>. QED  BY <1>3, <1>7, <2>1, <2>2 DEF Kept, stamp, At
<1>. QED  BY <1>4, <1>5, <1>6, <1>7

\* The app changes no ticket without leaving its name.
LEMMA AppLeavesItsName ==
  ASSUME IInv, app_makes \/ app_creates \/ app_touches, NEW q \in Processes
  PROVE  command' = command /\ proc'[q] = proc[q] /\ Kept(q)
<1>1. command' = command /\ proc' = proc
  BY DEF app_makes, app_creates, app_touches, App
<1>2. tickets \in [1 .. MaxId -> Ticket \cup {Absent}] /\ FreshOK
  BY DEF IInv, TypeOK
<1>3. \A t \in Existing : ~(t = next_id)
  <2>1. next_id \in Nat /\ \A t \in Existing : t \in Nat /\ t < next_id
    BY <1>2 DEF IInv, TypeOK, FreshOK, Existing
  <2>. QED  BY <2>1
<1>4. CASE app_makes
  BY <1>1, <1>4 DEF app_makes, Kept
<1>5. CASE app_creates
  <2>1. \A t \in Existing : tickets'[t] = tickets[t]
    BY <1>2, <1>3, <1>5 DEF app_creates, Existing
  <2>. QED  BY <1>1, <2>1 DEF Kept
<1>6. CASE app_touches
  <2>1. PICK t \in Existing, row \in Ticket :
          row.who = tickets[t].who /\ FromApp(row) /\ tickets' = [tickets EXCEPT ![t] = row]
    BY <1>6, TouchedIsTicket
  <2>2. tickets'[t] = row /\ \A u \in Existing : u # t => tickets'[u] = tickets[u]
    BY <1>2, <2>1 DEF Existing
  <2>3. Touched(t)'
    <3>1. t \in Existing'
      BY <2>2, AbsentIsNoTicket DEF Existing
    <3>. QED  BY <2>1, <2>2, <3>1 DEF Touched, FromApp
  <2>. QED  BY <1>1, <2>2, <2>3 DEF Kept
<1>. QED  BY <1>4, <1>5, <1>6

\* A process that has no ticket open and opens none, or that ends.
LEMMA QuietSaid ==
  ASSUME IInv, NEW p \in Processes,
         \/ start(p) \/ seed(p) \/ guard(p) \/ write(p) \/ verify(p) \/ fail(p)
         \/ End(p, "partly") /\ UNCHANGED <<command, tickets>>,
         OpenIsSaid(p), DoneIsSaid(p)
  PROVE  OpenIsSaid(p)' /\ DoneIsSaid(p)'
<1>. PICK me : me = proc[p]
  OBVIOUS
<1>1. proc \in [Processes -> Process] /\ me \in Process
  BY DEF IInv, TypeOK
<1>2. tickets' = tickets /\ command' = command
  BY DEF start, seed, guard, write, verify, fail, database
<1>3. Kept(p)
  BY <1>2 DEF Kept
<1>4. \/ \E out : proc' = [proc EXCEPT ![p].out = out]
      \/ \E place, unit : /\ me.at \notin {"stamp", "apply"} /\ place \notin {"stamp", "apply"}
                          /\ proc' = [proc EXCEPT ![p].unit = unit, ![p].at = place]
  <2>1. CASE start(p) \/ seed(p) \/ guard(p)
    <3>1. me.at \notin {"stamp", "apply"}
      BY <2>1 DEF start, seed, guard, At
    <3>2. \/ \E out : End(p, out)
          \/ \E place \in {"verify", "seed", "guard", AfterUnit(p, 0)} : Go(p, place)
      BY <2>1 DEF start, seed, guard, Seeded
    <3>3. AfterUnit(p, 0) \notin {"stamp", "apply"}
      BY DEF AfterUnit
    <3>4. ASSUME NEW place \in {"verify", "seed", "guard", AfterUnit(p, 0)}, Go(p, place)
          PROVE  \E unit : proc' = [proc EXCEPT ![p].unit = unit, ![p].at = place]
      <4>1. proc' = [proc EXCEPT ![p].unit = me.unit, ![p].at = place]
        BY <1>1, <3>4 DEF Go, Process
      <4>. QED  BY <4>1
    <3>. QED  BY <3>1, <3>2, <3>3, <3>4 DEF End
  <2>2. CASE write(p)
    <3>1. me.at \notin {"stamp", "apply"}
      BY <2>2 DEF write, At
    <3>2. AfterUnit(p, me.unit) \notin {"stamp", "apply"}
      BY DEF AfterUnit
    <3>3. \/ End(p, "partly")
          \/ proc' = [proc EXCEPT ![p].unit = @ + 1, ![p].at = AfterUnit(p, me.unit)]
      BY <2>2 DEF write
    <3>. QED  BY <3>1, <3>2, <3>3 DEF End
  <2>3. CASE verify(p) \/ fail(p) \/ End(p, "partly")
    BY <2>3 DEF verify, fail, End
  <2>. QED  BY <2>1, <2>2, <2>3
<1>5. CASE \E out : proc' = [proc EXCEPT ![p].out = out]
  <2>. PICK out : proc' = [proc EXCEPT ![p].out = out]
    BY <1>5
  <2>1. proc'[p] = [me EXCEPT !.out = out]
    BY <1>1
  <2>2. /\ proc'[p].number = me.number /\ proc'[p].mark = me.mark /\ proc'[p].at = me.at
        /\ proc'[p].id = me.id /\ proc'[p].step = me.step
        /\ proc'[p].ticket = me.ticket /\ proc'[p].before = me.before
    BY ONLY <1>1, <2>1 DEF Process
  <2>. QED  BY <1>2, <1>3, <2>2, NothingSaid
<1>6. CASE \E place, unit : /\ me.at \notin {"stamp", "apply"} /\ place \notin {"stamp", "apply"}
                            /\ proc' = [proc EXCEPT ![p].unit = unit, ![p].at = place]
  <2>1. /\ proc'[p].number = me.number /\ proc'[p].mark = me.mark
        /\ me.at \notin {"stamp", "apply"} /\ proc'[p].at \notin {"stamp", "apply"}
    BY <1>1, <1>6 DEF Process
  <2>. QED  BY <1>2, <1>3, <2>1, NothingSaid
<1>. QED  BY <1>4, <1>5, <1>6

\* A process that writes to the ticket it is at leaves those behind it alone.
LEMMA BehindSaid ==
  ASSUME IInv, NEW p \in Processes, command' = command, proc'[p].number = proc[p].number,
         \A t \in Existing : t < proc[p].number => tickets'[t] = tickets[t], DoneIsSaid(p)
  PROVE  DoneIsSaid(p)'
<1>. PICK file : file = File(p)
  OBVIOUS
<1>. PICK n : n = proc[p].number
  OBVIOUS
<1>1. File(p)' = file
  BY DEF File
<1>. SUFFICES ASSUME NEW t \in DOMAIN file.tickets, t < n, ~Touched(t)'
              PROVE  AsSaid(tickets'[t], file.tickets[t])
  BY <1>1 DEF DoneIsSaid
<1>2. t \in Existing /\ tickets'[t] = tickets[t]
  BY DEF IInv, TicketsOwned
<1>3. ~Touched(t)
  BY <1>2 DEF Touched, Existing
<1>. QED  BY <1>2, <1>3 DEF DoneIsSaid

\* A ticket of the file is born the file's, at the time of the write.
LEMMA createSaid ==
  ASSUME IInv, NEW p \in Processes, create(p), OpenIsSaid(p), DoneIsSaid(p)
  PROVE  OpenIsSaid(p)' /\ DoneIsSaid(p)'
<1>. PICK spec : spec = SpecOf(p)
  OBVIOUS
<1>. PICK row : row = NewTicket(p, spec)
  OBVIOUS
<1>. PICK object : object = ObjectOf(row)
  OBVIOUS
<1>. PICK me : me = proc[p]
  OBVIOUS
<1>1. /\ command' = command /\ me.at = "create" /\ next_id <= MaxId
      /\ \/ End(p, "partly") /\ UNCHANGED <<tickets, next_id>>
         \/ /\ tickets' = [tickets EXCEPT ![next_id] = row]
            /\ \/ End(p, "partly")
               \/ proc' = [proc EXCEPT ![p].at = "stamp", ![p].id = next_id, ![p].step = 0,
                             ![p].ticket = object, ![p].before = <<NoDate, NoDate>>]
  BY DEF create, At, Created
<1>2. /\ proc \in [Processes -> Process] /\ me \in Process /\ FreshOK
      /\ tickets \in [1 .. MaxId -> Ticket \cup {Absent}] /\ next_id \in 1 .. MaxId + 1
  BY DEF IInv, TypeOK
<1>3. next_id \in 1 .. MaxId
  BY <1>1, <1>2, BoundsOK
<1>4. \A t \in Existing : tickets'[t] = tickets[t]
  <2>1. \A t \in Existing : ~(t = next_id)
    <3>1. \A t \in Existing : t \in Nat /\ t < next_id
      BY <1>2 DEF FreshOK, Existing
    <3>. QED  BY <1>3, <3>1
  <2>. QED  BY <1>1, <1>2, <2>1 DEF Existing
<1>5. Kept(p)
  BY <1>4 DEF Kept
<1>6. CASE End(p, "partly")
  <2>1. /\ proc'[p].number = me.number /\ proc'[p].mark = me.mark
        /\ me.at \notin {"stamp", "apply"} /\ proc'[p].at \notin {"stamp", "apply"}
    BY <1>1, <1>2, <1>6 DEF Process, End
  <2>. QED  BY <1>1, <1>5, <2>1, NothingSaid
<1>7. CASE /\ tickets' = [tickets EXCEPT ![next_id] = row]
           /\ proc' = [proc EXCEPT ![p].at = "stamp", ![p].id = next_id, ![p].step = 0,
                         ![p].ticket = object, ![p].before = <<NoDate, NoDate>>]
  <2>. PICK went : went = proc'[p]
    OBVIOUS
  <2>. PICK before : before = <<NoDate, NoDate>>
    OBVIOUS
  <2>1. /\ went.at = "stamp" /\ went.id = next_id /\ went.step = 0 /\ went.ticket = object
        /\ went.before = before /\ went.number = me.number /\ went.mark = me.mark
    BY <1>2, <1>7 DEF Process
  <2>2. tickets'[next_id] = row
    BY <1>2, <1>3, <1>7
  <2>3. SpecOf(p)' = spec
    BY <1>1, <2>1 DEF SpecOf, File
  <2>4. SpecOK(spec)
    <3>1. TypeOK /\ parse(File(p)) /\ proc[p].number \in DOMAIN File(p).tickets
      BY <1>1, PastTheStart DEF IInv, PlaceOK
    <3>. QED  BY <3>1, SpecsAreOK DEF SpecOf
  <2>5. Follows(row, spec, 0, But(spec, 0, Clock)) /\ NewIsUnmoved(spec, 0)
    BY <2>4, FollowsAtBirth
  <2>6. me.mark = 0
    BY <1>1 DEF OpenIsSaid
  <2>7. before = <<StartedBy(spec, 0 - 1, Times(spec)), ResolvedBy(spec, 0 - 1, Times(spec))>>
    <3>1. Moves(spec, 0 - 1) = {}
      BY MovesAtBirth
    <3>. QED  BY <3>1 DEF StartedBy, ResolvedBy
  <2>8. OpenIsSaid(p)'
    BY <2>1, <2>2, <2>3, <2>5, <2>6, <2>7 DEF OpenIsSaid, But
  <2>9. DoneIsSaid(p)'
    BY <1>1, <1>4, <2>1, BehindSaid
  <2>. QED  BY <2>8, <2>9
<1>. QED  BY <1>1, <1>6, <1>7

\* An UPDATE by a session that holds what is there leaves what the session has.
LEMMA UpdatedIs ==
  ASSUME NEW now \in Ticket, NEW was, was = ObjectOf(now), NEW new \in Held
  PROVE  LET row == Updated(now, was, new)
         IN  /\ ObjectOf(row) = new /\ DOMAIN row = DOMAIN now
             /\ row.subject = now.subject /\ row.queue = now.queue /\ row.owner = now.owner
             /\ row.values = now.values /\ row.log = now.log /\ row.who = now.who
<1>. PICK row : row = Updated(now, was, new)
  OBVIOUS
<1>1. DOMAIN now = {"subject", "queue", "owner", "status", "created", "started", "resolved",
                    "last_updated", "last_updated_by", "values", "log", "who"}
  BY DEF Ticket
<1>2. DOMAIN new = {"status", "created", "started", "resolved", "last_updated", "last_updated_by"}
  BY DEF Held
<1>3. /\ was.status = now.status /\ was.created = now.created /\ was.started = now.started
      /\ was.resolved = now.resolved /\ was.last_updated = now.last_updated
      /\ was.last_updated_by = now.last_updated_by
  BY DEF ObjectOf
<1>4. row = [c \in DOMAIN now |-> IF c \in DOMAIN new THEN IF new[c] # was[c] THEN new[c] ELSE now[c]
                                  ELSE now[c]]
  BY DEF Updated
<1>5. DOMAIN row = DOMAIN now /\ \A c \in DOMAIN now : row[c] = IF c \in DOMAIN new
        THEN IF new[c] # was[c] THEN new[c] ELSE now[c] ELSE now[c]
  BY <1>4
<1>6. /\ row.status = new.status /\ row.created = new.created /\ row.started = new.started
      /\ row.resolved = new.resolved /\ row.last_updated = new.last_updated
      /\ row.last_updated_by = new.last_updated_by
  BY <1>1, <1>2, <1>3, <1>5
<1>7. /\ row.subject = now.subject /\ row.queue = now.queue /\ row.owner = now.owner
      /\ row.values = now.values /\ row.log = now.log /\ row.who = now.who
  BY <1>1, <1>2, <1>5
<1>8. new = [status |-> new.status, created |-> new.created, started |-> new.started,
             resolved |-> new.resolved, last_updated |-> new.last_updated,
             last_updated_by |-> new.last_updated_by]
  BY DEF Held
<1>9. ObjectOf(row) = new
  BY <1>6, <1>8 DEF ObjectOf
<1>. QED  BY <1>5, <1>7, <1>9

\* A step's page writes what the file says of the ticket after the step.
LEMMA applySaid ==
  ASSUME IInv, NEW p \in Processes, apply_step(p), OpenIsSaid(p), DoneIsSaid(p)
  PROVE  OpenIsSaid(p)' /\ DoneIsSaid(p)'
<1>. DEFINE step == StepOf(p)
            held == proc[p].ticket
            row == tickets[proc[p].id]
            target == Target(held.status, step)
            Wrote(type) == <<[type |-> type, at |-> Clock, by |-> step.actor, who |-> p]>>
            entries == (IF step.type = "status" THEN <<>> ELSE Wrote(TypeNamed[step.type]))
                         \o (IF target = held.status THEN <<>> ELSE Wrote("Status"))
            new == IF entries = <<>> THEN held
                   ELSE [held EXCEPT
                          !.status = target,
                          !.started = StartedAfter(held.status, target, @, Clock),
                          !.resolved = ResolvedAfter(held.status, target, @, Clock),
                          !.last_updated = Clock, !.last_updated_by = step.actor]
            values == IF step.type = "custom_field" THEN WithValue(row.values, step)
                      ELSE row.values
            written == [Updated(row, held, new) EXCEPT !.values = values, !.log = @ \o entries]
            dates == <<held.started, held.resolved>>
            me == [proc[p] EXCEPT !.at = "stamp", !.ticket = new, !.before = dates]
<1>1. /\ command' = command /\ proc[p].at = "apply"
      /\ \/ End(p, "partly") /\ UNCHANGED tickets
         \/ /\ target # held.status => may_change(held.status, target)
            /\ tickets' = [tickets EXCEPT ![proc[p].id] = written]
            /\ proc' = [proc EXCEPT ![p].at = "stamp", ![p].ticket = new, ![p].before = dates]
  BY DEF apply_step, At
<1>2. CASE End(p, "partly") /\ UNCHANGED tickets
  BY <1>1, <1>2, QuietSaid
<1>3. CASE /\ target # held.status => may_change(held.status, target)
           /\ tickets' = [tickets EXCEPT ![proc[p].id] = written]
           /\ proc' = [proc EXCEPT ![p].at = "stamp", ![p].ticket = new, ![p].before = dates]
  <2>. PICK id : id = proc[p].id
    OBVIOUS
  <2>. PICK n : n = proc[p].step
    OBVIOUS
  <2>. PICK spec : spec = SpecOf(p)
    OBVIOUS
  <2>1. /\ proc[p] \in Process /\ id \in Existing /\ row \in Ticket /\ held \in Held
        /\ n \in 0 .. Len(spec.steps) /\ n # 0 /\ step \in Step
        /\ (step.type = "status" => step.status \in STEP_STATUSES)
        /\ proc \in [Processes -> Process] /\ tickets \in [1 .. MaxId -> Ticket \cup {Absent}]
    BY <1>1, OpenTicket DEF IInv, TypeOK
  <2>2. id = proc[p].number /\ TypeOK /\ parse(File(p)) /\ proc[p].number \in DOMAIN File(p).tickets
    BY <1>1, PastTheStart DEF IInv, PlaceOK
  <2>3. spec \in TicketSpec /\ SpecOK(spec)
    BY <2>2, SpecsAreOK DEF SpecOf
  <2>4. n \in 1 .. Len(spec.steps) /\ step = spec.steps[n]
    <3>1. step = spec.steps[n]
      BY DEF StepOf
    <3>2. Len(spec.steps) \in Nat
      BY <2>3 DEF SpecOK
    <3>. HIDE DEF step
    <3>. QED  BY <2>1, <3>1, <3>2
  <2>5. /\ proc'[p].at = "stamp" /\ proc'[p].ticket = new /\ proc'[p].before = dates
        /\ proc'[p].id = id /\ proc'[p].step = n /\ proc'[p].mark = proc[p].mark
        /\ proc'[p].number = proc[p].number
    <3>. HIDE DEF new, dates
    <3>. QED  BY <1>3, <2>1 DEF Process
  <2>6. tickets'[id] = written /\ \A t \in Existing : t # id => tickets'[t] = tickets[t]
    <3>. HIDE DEF written
    <3>. QED  BY <1>3, <2>1 DEF Existing
  <2>7. DoneIsSaid(p)'
    <3>1. \A t \in Existing : t < id => t # id
      BY <2>1 DEF Existing
    <3>. HIDE DEF new, dates, written
    <3>. QED  BY <1>1, <2>2, <2>5, <2>6, <3>1, BehindSaid
  <2>. HIDE DEF written, dates
  <2>8. SpecOf(p)' = spec
    BY <1>1, <2>5 DEF SpecOf, File
  <2>. SUFFICES ASSUME ~Touched(id)'
                PROVE  OpenIsSaid(p)'
    BY <2>5, <2>7 DEF OpenIsSaid
  <2>9. entries \in Seq(Row)
    <3>1. ASSUME NEW type \in {"Correspond", "Comment", "Status", "CustomField"}
          PROVE  Wrote(type) \in Seq(Row)
      <4>1. [type |-> type, at |-> Clock, by |-> step.actor, who |-> p] \in Row
        BY <2>1, BoundsOK DEF Row, Step, Writers
      <4>. QED  BY <4>1
    <3>2. step.type # "status" => TypeNamed[step.type] \in {"Correspond", "Comment", "CustomField"}
      BY <2>1 DEF TypeNamed, Step
    <3>3. (IF step.type = "status" THEN <<>> ELSE Wrote(TypeNamed[step.type])) \in Seq(Row)
      <4>. HIDE DEF Wrote
      <4>. QED  BY <3>1, <3>2
    <3>4. (IF target = held.status THEN <<>> ELSE Wrote("Status")) \in Seq(Row)
      <4>. HIDE DEF Wrote, target
      <4>. QED  BY <3>1
    <3>. HIDE DEF Wrote, target
    <3>. QED  BY <3>3, <3>4
  <2>10. new \in Held
    <3>1. step.actor \in STRING
      BY <2>1 DEF Step
    <3>2. target \in STATUSES
      BY <2>1, TargetIsStatus DEF Held
    <3>. HIDE DEF entries, target, held, step
    <3>. QED  BY <2>1, <3>1, <3>2, MovedIsHeld
  <2>. PICK updated : updated = Updated(row, held, new)
    OBVIOUS
  <2>11. written.log = row.log \o entries /\ written.values = values
         /\ written.subject = updated.subject /\ written.queue = updated.queue
         /\ written.owner = updated.owner /\ ObjectOf(written) = ObjectOf(updated)
    <3>1. updated \in Ticket /\ updated.log = row.log
      <4>. HIDE DEF row, held, new
      <4>. QED  BY <2>1, <2>10, UpdatedIsTicket
    <3>. PICK log : log = row.log \o entries
      OBVIOUS
    <3>. PICK pairs : pairs = values
      OBVIOUS
    <3>2. written = [updated EXCEPT !.values = pairs, !.log = log]
      BY <3>1 DEF written
    <3>. HIDE DEF row, held, new, entries, values
    <3>. QED  BY <3>1, <3>2 DEF Ticket, ObjectOf
  <2>12. ~Touched(id)
    <3>. SUFFICES ASSUME NEW i \in DOMAIN row.log, row.log[i].who = "app"
                  PROVE  FALSE
      BY DEF Touched
    <3>. PICK old : old = row.log
      OBVIOUS
    <3>1. old \in Seq(Row)
      BY <2>1 DEF Ticket
    <3>2. i \in DOMAIN (old \o entries) /\ (old \o entries)[i] = old[i]
      <4>. HIDE DEF entries
      <4>. QED  BY ONLY old \in Seq(Row), entries \in Seq(Row), i \in DOMAIN old, <3>1, <2>9
    <3>3. id \in Existing'
      BY <2>5, applyKeeps DEF IInv, PlaceOK
    <3>. HIDE DEF entries, row
    <3>. QED  BY <2>6, <2>11, <3>2, <3>3 DEF Touched
  <2>13. /\ held = ObjectOf(row) /\ Follows(row, spec, n - 1, Times(spec)) /\ NewIsUnmoved(spec, n - 1)
         /\ proc[p].mark = RowsTo(spec, n - 1)
    <3>. HIDE DEF row
    <3>. QED  BY <1>1, <2>12 DEF OpenIsSaid, row
  <2>14. /\ held.status = row.status /\ held.created = row.created
         /\ held.started = row.started /\ held.resolved = row.resolved
    BY <2>13 DEF ObjectOf
  <2>15. /\ row.status = StatusAfter(spec, n - 1) /\ row.started = StartedBy(spec, n - 1, Times(spec))
         /\ row.resolved = ResolvedBy(spec, n - 1, Times(spec))
    BY <2>13 DEF Follows
  <2>16. target = StatusAfter(spec, n) /\ (target = held.status <=> ~Leaves(spec, n))
    <3>1. StatusAfter(spec, n) = Target(StatusAfter(spec, n - 1), spec.steps[n])
      BY <2>3, <2>4, StatusStep
    <3>. HIDE DEF step, row, held
    <3>. QED  BY <2>4, <2>14, <2>15, <3>1 DEF Leaves
  <2>17. entries = Entries(spec, n, p)
    <3>1. \A type : Wrote(type) = <<Entry(spec, n, p, type)>>
      BY <2>4 DEF Entry
    <3>. HIDE DEF Wrote, target, held, step
    <3>. QED  BY <2>4, <2>16, <3>1 DEF Entries
  <2>18. /\ new.status = target /\ new.created = held.created
         /\ new.started = StartedAfter(held.status, target, held.started, Clock)
         /\ new.resolved = ResolvedAfter(held.status, target, held.resolved, Clock)
    <3>1. CASE entries = <<>>
      <4>1. target = held.status
        <5>1. ASSUME target # held.status
              PROVE  FALSE
          <6>. PICK first : first = IF step.type = "status" THEN <<>> ELSE Wrote(TypeNamed[step.type])
            OBVIOUS
          <6>. PICK entry : entry = [type |-> "Status", at |-> Clock, by |-> step.actor, who |-> p]
            OBVIOUS
          <6>1. first \in {<<>>, Wrote(TypeNamed[step.type])} /\ entries = first \o <<entry>>
            BY <5>1
          <6>2. Len(first) \in Nat
            BY <6>1
          <6>3. Len(first \o <<entry>>) = Len(first) + 1
            <7>1. first = <<>> \/ \E x : first = <<x>>
              BY <6>1
            <7>2. CASE first = <<>>
              BY ONLY <7>2
            <7>3. CASE \E x : first = <<x>>
              BY ONLY <7>3
            <7>. QED  BY <7>1, <7>2, <7>3
          <6>. HIDE DEF entries
          <6>4. Len(entries) = 0
            BY <3>1
          <6>. QED  BY <6>1, <6>2, <6>3, <6>4
        <5>. QED  BY <5>1
      <4>2. new = held
        BY <3>1
      <4>. HIDE DEF new, target, held
      <4>. QED  BY <4>1, <4>2 DEF StartedAfter, ResolvedAfter
    <3>2. CASE entries # <<>>
      <4>. HIDE DEF entries, target, held, step
      <4>. QED  BY <2>1, <3>2 DEF Held
    <3>. QED  BY <3>1, <3>2
  <2>. HIDE DEF entries, new, target, values
  <2>19. /\ ObjectOf(written) = new /\ written.subject = row.subject /\ written.queue = row.queue
         /\ written.owner = row.owner
    <3>. PICK now : now = row
      OBVIOUS
    <3>. PICK was : was = held
      OBVIOUS
    <3>. PICK object : object = new
      OBVIOUS
    <3>1. /\ ObjectOf(updated) = object /\ updated.subject = now.subject
          /\ updated.queue = now.queue /\ updated.owner = now.owner
      <4>1. now \in Ticket /\ was = ObjectOf(now) /\ object \in Held
        BY <2>1, <2>10, <2>13
      <4>2. updated = Updated(now, was, object)
        OBVIOUS
      <4>. QED  BY ONLY <4>1, <4>2, UpdatedIs
    <3>. QED  BY <2>11, <3>1
  <2>20. /\ written.status = target /\ written.created = row.created
         /\ written.started = StartedAfter(row.status, target, row.started, Clock)
         /\ written.resolved = ResolvedAfter(row.status, target, row.resolved, Clock)
    <3>1. /\ written.status = new.status /\ written.created = new.created
          /\ written.started = new.started /\ written.resolved = new.resolved
      BY <2>19 DEF ObjectOf
    <3>. HIDE DEF held, row
    <3>. QED  BY <2>14, <2>18, <3>1
  <2>21. Follows(written, spec, n, But(spec, n, Clock)) /\ NewIsUnmoved(spec, n)
    <3>. PICK now : now = row
      OBVIOUS
    <3>. PICK then : then = written
      OBVIOUS
    <3>. PICK goal : goal = target
      OBVIOUS
    <3>. PICK more : more = entries
      OBVIOUS
    <3>1. /\ now \in Ticket /\ Follows(now, spec, n - 1, Times(spec)) /\ NewIsUnmoved(spec, n - 1)
          /\ more \in Seq(Row) /\ more = Entries(spec, n, p)
      BY <2>1, <2>9, <2>13, <2>17
    <3>2. goal = Target(now.status, spec.steps[n]) /\ (goal # now.status => may_change(now.status, goal))
      <4>. HIDE DEF row, held, step
      <4>. QED  BY <1>3, <2>4, <2>14 DEF target
    <3>3. /\ then.subject = now.subject /\ then.queue = now.queue /\ then.owner = now.owner
          /\ then.status = goal /\ then.created = now.created
          /\ then.started = StartedAfter(now.status, goal, now.started, Clock)
          /\ then.resolved = ResolvedAfter(now.status, goal, now.resolved, Clock)
      BY <2>19, <2>20
    <3>4. then.values = ValuesAfter(spec, n)
      <4>1. now.values = ValuesAfter(spec, n - 1)
        BY <3>1 DEF Follows
      <4>2. n \in Nat \ {0}
        BY <2>4
      <4>3. ValuesAfter(spec, n) =
              IF spec.steps[n].type = "custom_field"
              THEN WithValue(ValuesAfter(spec, n - 1), spec.steps[n]) ELSE ValuesAfter(spec, n - 1)
        BY ONLY <4>2, ValuesStep
      <4>. HIDE DEF row, held, step
      <4>. QED  BY <2>4, <2>11, <4>1, <4>3 DEF values
    <3>5. then.log = now.log \o more
      BY <2>11
    <3>6. SpecOK(spec) /\ n \in 1 .. Len(spec.steps)
      BY <2>3, <2>4
    <3>7. Moved(now, spec, n, goal, more, then)
      BY ONLY <3>2, <3>3, <3>4, <3>5 DEF Moved
    <3>8. Follows(then, spec, n, But(spec, n, Clock)) /\ NewIsUnmoved(spec, n)
      BY ONLY <3>1, <3>6, <3>7, FollowsApplied
    <3>. QED  BY <3>8
  <2>22. proc'[p].before = <<StartedBy(spec, n - 1, Times(spec)), ResolvedBy(spec, n - 1, Times(spec))>>
    BY <2>5, <2>14, <2>15 DEF dates
  <2>. HIDE DEF row, held, step
  <2>. QED  BY <2>4, <2>5, <2>6, <2>8, <2>13, <2>19, <2>21, <2>22 DEF OpenIsSaid, But
<1>. QED  BY <1>1, <1>2, <1>3

\* A stamp leaves the ticket as the file says it is after the step, and the
\* next ticket or step has the ticket before it behind it.
LEMMA stampSaid ==
  ASSUME IInv, NEW p \in Processes, stamp(p), OpenIsSaid(p), DoneIsSaid(p)
  PROVE  OpenIsSaid(p)' /\ DoneIsSaid(p)'
<1>. DEFINE birth == proc[p].step = 0
            at == IF birth THEN SpecOf(p).created ELSE StepOf(p).at
            actor == IF birth THEN SpecOf(p).creator ELSE StepOf(p).actor
            held == IF birth THEN [proc[p].ticket EXCEPT !.created = at] ELSE proc[p].ticket
            row == tickets[proc[p].id]
            new == [held EXCEPT !.started = Restamped(@, proc[p].before[1], at),
                                !.resolved = Restamped(@, proc[p].before[2], at),
                                !.last_updated = at, !.last_updated_by = actor]
            log == [i \in DOMAIN row.log |->
                      IF i > proc[p].mark THEN [row.log[i] EXCEPT !.at = at] ELSE row.log[i]]
            written == [Updated(row, proc[p].ticket, new) EXCEPT !.log = log]
            Step1 == [proc[p] EXCEPT !.at = "apply", !.step = @ + 1, !.ticket = new,
                                     !.mark = Len(log)]
            Next1 == [proc[p] EXCEPT !.at = IF proc[p].number < Len(File(p).tickets)
                                            THEN "create" ELSE "verify",
                                     !.number = @ + 1, !.step = 0, !.ticket = None, !.mark = 0,
                                     !.before = <<NoDate, NoDate>>]
            me == IF proc[p].step < Len(SpecOf(p).steps) THEN Step1 ELSE Next1
<1>. PICK id : id = proc[p].id
  OBVIOUS
<1>. PICK n : n = proc[p].step
  OBVIOUS
<1>. PICK spec : spec = SpecOf(p)
  OBVIOUS
<1>. PICK number : number = proc[p].number
  OBVIOUS
<1>1. /\ command' = command /\ proc[p].at = "stamp"
      /\ tickets' = [tickets EXCEPT ![id] = written]
      /\ proc' = [proc EXCEPT ![p] = me]
  BY DEF stamp, At
<1>2. /\ proc[p] \in Process /\ id \in Existing /\ row \in Ticket /\ proc[p].ticket \in Held
      /\ n \in 0 .. Len(spec.steps)
      /\ n # 0 => StepOf(p) \in Step
      /\ proc \in [Processes -> Process] /\ tickets \in [1 .. MaxId -> Ticket \cup {Absent}]
  BY <1>1, OpenTicket DEF IInv, TypeOK
<1>3. id = number /\ TypeOK /\ parse(File(p)) /\ number \in DOMAIN File(p).tickets
  BY <1>1, PastTheStart DEF IInv, PlaceOK
<1>4. /\ spec \in TicketSpec /\ SpecOK(spec) /\ Times(spec)[n] \in Nat
      /\ spec = File(p).tickets[number]
  BY <1>2, <1>3, SpecsAreOK DEF SpecOf
<1>5. at = Times(spec)[n] /\ actor = Actor(spec, n) /\ at \in Nat /\ actor \in STRING
  <2>1. n # 0 => n \in 1 .. Len(spec.steps)
    <3>1. Len(spec.steps) \in Nat
      BY <1>4 DEF SpecOK
    <3>. QED  BY <1>2, <3>1
  <2>2. Times(spec)[0] = spec.created /\ \A k \in 1 .. Len(spec.steps) : Times(spec)[k] = spec.steps[k].at
    BY <1>2, <1>4, TimesAre
  <2>3. n # 0 => StepOf(p) = spec.steps[n]
    BY DEF StepOf
  <2>4. at = Times(spec)[n] /\ actor = Actor(spec, n)
    BY <2>1, <2>2, <2>3 DEF Actor
  <2>5. actor \in STRING
    BY <1>2, <1>4 DEF TicketSpec, Step
  <2>. HIDE DEF at, actor
  <2>. QED  BY <1>4, <2>4, <2>5
<1>. HIDE DEF at, actor, written, log, me
<1>6. tickets'[id] = written /\ \A t \in Existing : t # id => tickets'[t] = tickets[t]
  BY <1>1, <1>2 DEF Existing
<1>7. proc'[p] = me
  BY <1>1, <1>2
<1>8. File(p)' = File(p)
  BY <1>1 DEF File
<1>9. proc[p].before \in Nat \X Nat /\ row.log \in Seq(Row)
  BY <1>2 DEF Process, Ticket
<1>10. held \in Held
  BY <1>2, <1>5 DEF Held
<1>11. new \in Held
  <2>. HIDE DEF held
  <2>. QED  BY <1>5, <1>9, <1>10, RestampedIsHeld
<1>12. ASSUME ~Touched(id)
       PROVE  /\ Follows(written, spec, n, Times(spec)) /\ LastIs(written, spec, n, Times(spec))
              /\ Len(log) = RowsTo(spec, n) /\ NewIsUnmoved(spec, n) /\ ObjectOf(written) = new
  <2>. PICK now : now = row
    OBVIOUS
  <2>. PICK was : was = proc[p].ticket
    OBVIOUS
  <2>. PICK mark : mark = proc[p].mark
    OBVIOUS
  <2>. PICK time : time = at
    OBVIOUS
  <2>. PICK object : object = new
    OBVIOUS
  <2>. PICK dated : dated = log
    OBVIOUS
  <2>. PICK then : then = written
    OBVIOUS
  <2>1. /\ was = ObjectOf(now) /\ Follows(now, spec, n, But(spec, n, Clock)) /\ NewIsUnmoved(spec, n)
        /\ mark = IF n = 0 THEN 0 ELSE RowsTo(spec, n - 1)
        /\ proc[p].before = <<StartedBy(spec, n - 1, Times(spec)), ResolvedBy(spec, n - 1, Times(spec))>>
    BY <1>1, <1>12 DEF OpenIsSaid, But
  <2>2. /\ was.created = now.created /\ was.started = now.started /\ was.resolved = now.resolved
        /\ was.status = now.status
    BY <2>1 DEF ObjectOf
  <2>3. /\ held.status = now.status /\ held.created = (IF n = 0 THEN time ELSE now.created)
        /\ held.started = now.started /\ held.resolved = now.resolved
    BY <1>2, <2>2 DEF Held
  <2>4. /\ object.status = held.status /\ object.created = held.created
        /\ object.started = Restamped(held.started, proc[p].before[1], time)
        /\ object.resolved = Restamped(held.resolved, proc[p].before[2], time)
        /\ object.last_updated = time /\ object.last_updated_by = actor
    <3>. HIDE DEF held
    <3>. QED  BY <1>10 DEF Held
  <2>. HIDE DEF held, new
  <2>5. /\ object.started = Restamped(now.started, StartedBy(spec, n - 1, Times(spec)), time)
        /\ object.resolved = Restamped(now.resolved, ResolvedBy(spec, n - 1, Times(spec)), time)
    BY <2>1, <2>3, <2>4
  <2>. PICK updated : updated = Updated(now, was, object)
    OBVIOUS
  <2>6. /\ ObjectOf(updated) = object /\ updated.subject = now.subject
        /\ updated.queue = now.queue /\ updated.owner = now.owner /\ updated.values = now.values
    <3>1. now \in Ticket /\ was = ObjectOf(now) /\ object \in Held /\ updated = Updated(now, was, object)
      BY <1>2, <1>11, <2>1
    <3>. QED  BY ONLY <3>1, UpdatedIs
  <2>7. then = [updated EXCEPT !.log = dated]
    BY DEF written
  <2>8. /\ ObjectOf(then) = object /\ then.subject = now.subject
        /\ then.queue = now.queue /\ then.owner = now.owner /\ then.values = now.values
        /\ then.log = dated
    <3>1. updated \in Ticket
      <4>1. now \in Ticket /\ was \in Held /\ object \in Held
        BY <1>2, <1>11
      <4>. QED  BY <4>1, UpdatedIsTicket
    <3>. QED  BY <2>6, <2>7, <3>1 DEF Ticket, ObjectOf
  <2>9. /\ then.status = object.status /\ then.created = object.created
        /\ then.started = object.started /\ then.resolved = object.resolved
        /\ then.last_updated = object.last_updated /\ then.last_updated_by = object.last_updated_by
    BY <2>8 DEF ObjectOf
  <2>10. dated = [i \in DOMAIN now.log |-> IF i > mark THEN [now.log[i] EXCEPT !.at = time] ELSE now.log[i]]
    BY DEF log
  <2>11. Stamped(now, spec, n, mark, time, then)
    <3>1. /\ then.status = now.status /\ then.values = now.values
          /\ then.created = (IF n = 0 THEN time ELSE now.created)
          /\ then.last_updated = time /\ then.last_updated_by = Actor(spec, n)
      BY <1>5, <2>3, <2>4, <2>8, <2>9
    <3>. QED  BY <1>5, <2>1, <2>5, <2>8, <2>9, <2>10, <3>1 DEF Stamped
  <2>12. /\ Follows(then, spec, n, Times(spec)) /\ LastIs(then, spec, n, Times(spec))
         /\ Len(then.log) = RowsTo(spec, n)
    <3>1. /\ SpecOK(spec) /\ n \in 0 .. Len(spec.steps) /\ now \in Ticket /\ time \in Nat
          /\ Follows(now, spec, n, But(spec, n, Clock))
      BY <1>2, <1>4, <1>5, <2>1
    <3>. QED  BY ONLY <2>11, <3>1, FollowsStamped
  <2>. QED  BY <2>1, <2>8, <2>12
<1>13. ~Touched(id)' => ~Touched(id)
  <2>. SUFFICES ASSUME NEW i \in DOMAIN row.log, row.log[i].who = "app"
                PROVE  Touched(id)'
    BY DEF Touched
  <2>1. id \in Existing'
    <3>1. written \in Ticket
      <4>. PICK updated : updated = Updated(row, proc[p].ticket, new)
        OBVIOUS
      <4>. PICK dated : dated = log
        OBVIOUS
      <4>1. updated \in Ticket
        <5>. HIDE DEF row, new
        <5>. QED  BY <1>2, <1>11, UpdatedIsTicket
      <4>2. dated \in Seq(Row)
        <5>. PICK old : old = row.log
          OBVIOUS
        <5>. PICK mark : mark = proc[p].mark
          OBVIOUS
        <5>. PICK time : time = at
          OBVIOUS
        <5>1. dated = [j \in DOMAIN old |-> IF j > mark THEN [old[j] EXCEPT !.at = time] ELSE old[j]]
          BY DEF log
        <5>2. old \in Seq(Row) /\ time \in Nat
          BY <1>5, <1>9
        <5>. QED  BY ONLY <5>1, <5>2, RestampedHistory
      <4>3. written = [updated EXCEPT !.log = dated]
        BY DEF written
      <4>. QED  BY <4>1, <4>2, <4>3 DEF Ticket
    <3>. HIDE DEF row, new
    <3>. QED  BY <1>2, <1>6, <3>1, AbsentIsNoTicket DEF Existing
  <2>2. written.log = log
    <3>. PICK updated : updated = Updated(row, proc[p].ticket, new)
      OBVIOUS
    <3>1. updated \in Ticket
      <4>. HIDE DEF row, new
      <4>. QED  BY <1>2, <1>11, UpdatedIsTicket
    <3>. HIDE DEF row, new
    <3>. QED  BY <3>1 DEF written, Ticket
  <2>3. i \in DOMAIN log /\ log[i].who = "app"
    <3>. PICK entry : entry = row.log[i]
      OBVIOUS
    <3>1. entry \in Row
      BY <1>9
    <3>2. [entry EXCEPT !.at = at].who = entry.who
      BY <3>1 DEF Row
    <3>3. DOMAIN log = DOMAIN row.log /\ log[i] \in {entry, [entry EXCEPT !.at = at]}
      BY DEF log
    <3>. QED  BY <3>2, <3>3
  <2>. HIDE DEF row, new
  <2>. QED  BY <1>6, <2>1, <2>2, <2>3 DEF Touched
<1>. HIDE DEF new, row
<1>14. CASE n < Len(spec.steps)
  <2>. PICK went : went = proc'[p]
    OBVIOUS
  <2>. PICK mark : mark = Len(log)
    OBVIOUS
  <2>. PICK next : next = n + 1
    OBVIOUS
  <2>1. me = [proc[p] EXCEPT !.at = "apply", !.step = next, !.ticket = new, !.mark = mark]
    BY <1>14 DEF me
  <2>2. /\ went.at = "apply" /\ went.step = next /\ went.ticket = new /\ went.mark = mark
        /\ went.id = id /\ went.number = number
    <3>. PICK old : old = proc[p]
      OBVIOUS
    <3>1. old \in Process /\ went = [old EXCEPT !.at = "apply", !.step = next, !.ticket = new, !.mark = mark]
      BY <1>2, <1>7, <2>1
    <3>2. /\ went.at = "apply" /\ went.step = next /\ went.ticket = new /\ went.mark = mark
          /\ went.id = old.id /\ went.number = old.number
      BY ONLY <3>1 DEF Process
    <3>. QED  BY <3>2
  <2>3. SpecOf(p)' = spec
    BY <1>4, <1>8, <2>2 DEF SpecOf
  <2>4. next - 1 = n
    BY <1>2
  <2>5. OpenIsSaid(p)'
    <3>. SUFFICES ASSUME ~Touched(id)'
                  PROVE  OpenIsSaid(p)'
      BY <2>2 DEF OpenIsSaid
    <3>1. /\ Follows(written, spec, n, Times(spec)) /\ mark = RowsTo(spec, n)
          /\ NewIsUnmoved(spec, n) /\ ObjectOf(written) = new
      BY <1>12, <1>13
    <3>. QED  BY <1>6, <2>2, <2>3, <2>4, <3>1 DEF OpenIsSaid
  <2>6. DoneIsSaid(p)'
    <3>1. \A t \in Existing : t < number => t # id
      BY <1>2, <1>3 DEF Existing
    <3>. QED  BY <1>1, <1>6, <2>2, <3>1, BehindSaid
  <2>. QED  BY <2>5, <2>6
<1>15. CASE ~(n < Len(spec.steps))
  <2>. PICK went : went = proc'[p]
    OBVIOUS
  <2>. PICK place : place = IF number < Len(File(p).tickets) THEN "create" ELSE "verify"
    OBVIOUS
  <2>. PICK next : next = number + 1
    OBVIOUS
  <2>. PICK undated : undated = <<NoDate, NoDate>>
    OBVIOUS
  <2>1. me = [proc[p] EXCEPT !.at = place, !.number = next, !.step = 0, !.ticket = None,
                             !.mark = 0, !.before = undated]
    BY <1>15 DEF me
  <2>2. went.at = place /\ went.mark = 0 /\ went.number = next
    <3>. PICK old : old = proc[p]
      OBVIOUS
    <3>1. /\ old \in Process
          /\ went = [old EXCEPT !.at = place, !.number = next, !.step = 0, !.ticket = None,
                                !.mark = 0, !.before = undated]
      BY <1>2, <1>7, <2>1
    <3>. QED  BY ONLY <3>1 DEF Process
  <2>3. place \notin {"stamp", "apply"}
    OBVIOUS
  <2>4. OpenIsSaid(p)'
    BY <2>2, <2>3 DEF OpenIsSaid
  <2>5. DoneIsSaid(p)'
    <3>. PICK file : file = File(p)
      OBVIOUS
    <3>. SUFFICES ASSUME NEW t \in DOMAIN file.tickets, t < next, ~Touched(t)'
                  PROVE  AsSaid(tickets'[t], file.tickets[t])
      BY <1>8, <2>2 DEF DoneIsSaid
    <3>1. CASE t = id
      <4>1. Follows(written, spec, n, Times(spec)) /\ LastIs(written, spec, n, Times(spec))
        BY <1>12, <1>13, <3>1
      <4>2. n = Len(spec.steps)
        <5>1. Len(spec.steps) \in Nat
          BY <1>4 DEF SpecOK
        <5>. QED  BY <1>2, <1>15, <5>1
      <4>3. file.tickets[t] = spec
        BY <1>3, <1>4, <3>1
      <4>. QED  BY <1>6, <3>1, <4>1, <4>2, <4>3 DEF AsSaid
    <3>2. CASE t # id
      <4>1. t < number
        <5>1. DOMAIN file.tickets = 1 .. Len(file.tickets) /\ Len(file.tickets) \in Nat
          BY <1>3, FilesHaveShape
        <5>2. t \in Nat /\ number \in Nat
          BY <1>3, <5>1
        <5>. QED  BY <1>3, <3>2, <5>2
      <4>2. t \in Existing
        BY <4>1 DEF IInv, TicketsOwned
      <4>3. tickets'[t] = tickets[t] /\ ~Touched(t)
        BY <1>6, <3>2, <4>2 DEF Touched, Existing
      <4>. QED  BY <4>1, <4>3 DEF DoneIsSaid
    <3>. QED  BY <3>1, <3>2
  <2>. QED  BY <2>4, <2>5
<1>. QED  BY <1>14, <1>15

LEMMA InitSaid == Init => SaidInv
<1>. SUFFICES ASSUME Init
              PROVE  SaidInv
  OBVIOUS
<1>1. IInv
  BY InitKeeps
<1>2. ASSUME NEW p \in Processes
      PROVE  OpenIsSaid(p) /\ DoneIsSaid(p)
  <2>. PICK file : file = File(p)
    OBVIOUS
  <2>1. proc[p].at = "start" /\ proc[p].mark = 0 /\ proc[p].number = 1
    BY DEF Init
  <2>2. OpenIsSaid(p)
    BY <2>1 DEF OpenIsSaid
  <2>3. DOMAIN file.tickets = 1 .. Len(file.tickets) /\ Len(file.tickets) \in Nat
    BY <1>1, FilesHaveShape DEF IInv
  <2>4. \A t \in DOMAIN file.tickets : ~(t < 1)
    BY <2>3
  <2>5. DoneIsSaid(p)
    BY <2>1, <2>4 DEF DoneIsSaid
  <2>. QED  BY <2>2, <2>5
<1>. QED  BY <1>1, <1>2 DEF SaidInv

LEMMA NextSaid == SaidInv /\ [Next]_vars => SaidInv'
<1>. SUFFICES ASSUME SaidInv, [Next]_vars
              PROVE  SaidInv'
  OBVIOUS
<1>1. IInv /\ IInv'
  BY NextKeeps DEF SaidInv
<1>. SUFFICES ASSUME NEW q \in Processes
              PROVE  OpenIsSaid(q)' /\ DoneIsSaid(q)'
  BY <1>1 DEF SaidInv
<1>2. OpenIsSaid(q) /\ DoneIsSaid(q)
  BY DEF SaidInv
<1>3. CASE UNCHANGED vars
  <2>1. command' = command /\ proc'[q] = proc[q] /\ Kept(q)
    BY <1>3 DEF vars, Kept
  <2>. QED  BY <1>1, <1>2, <2>1, OthersSaid
<1>4. CASE app_makes \/ app_creates \/ app_touches
  <2>1. command' = command /\ proc'[q] = proc[q] /\ Kept(q)
    BY <1>1, <1>4, AppLeavesItsName
  <2>. QED  BY <1>1, <1>2, <2>1, OthersSaid
<1>5. ASSUME NEW p \in Processes,
             \/ start(p) \/ seed(p) \/ guard(p) \/ write(p) \/ create(p) \/ apply_step(p)
             \/ stamp(p) \/ verify(p) \/ fail(p)
      PROVE  OpenIsSaid(q)' /\ DoneIsSaid(q)'
  <2>1. CASE q # p
    <3>1. command' = command /\ proc'[q] = proc[q] /\ Kept(q)
      BY <1>1, <1>5, <2>1, StepIsItsOwn
    <3>. QED  BY <1>1, <1>2, <3>1, OthersSaid
  <2>2. CASE q = p
    <3>1. OpenIsSaid(p) /\ DoneIsSaid(p)
      BY <1>2, <2>2
    <3>2. OpenIsSaid(p)' /\ DoneIsSaid(p)'
      BY <1>1, <1>5, <3>1, QuietSaid, createSaid, applySaid, stampSaid
    <3>. QED  BY <2>2, <3>2
  <2>. QED  BY <2>1, <2>2
<1>. QED  BY <1>3, <1>4, <1>5 DEF Next

(* The theorems *)

\* The ticket a load has open is the file's up to the step it is at, in the
\* session and in the row, but for the times that step has not been stamped
\* with; those behind it are the file's, history and dates included (the loop
\* over the tickets and _stamp, fixture.py:900, 953).
THEOREM TicketsAreSaid == Spec => []SaidInv
BY InitSaid, NextSaid, PTL DEF Spec

\* What a load's line stands for: each ticket of the file nobody has written to
\* in the app is the file's.
LoadedIsTheFile ==
  \A p \in Processes :
    proc[p].out = "line" /\ command[p].do = "load" =>
      \A t \in DOMAIN File(p).tickets : ~Touched(t) => AsSaid(tickets[t], File(p).tickets[t])

\* A load that prints its line has left every ticket with the file's status,
\* values, history and dates, and goes on standing for it until the ticket is
\* written to: whatever other loads and the app do meanwhile, no row it wrote
\* keeps the time of the write, and no date of a step is taken for another's
\* (fixture.py:953).
THEOREM LoadsAreSaid == Spec => []LoadedIsTheFile
<1>1. ASSUME SaidInv
      PROVE  LoadedIsTheFile
  <2>. SUFFICES ASSUME NEW p \in Processes, proc[p].out = "line", command[p].do = "load",
                       NEW t \in DOMAIN File(p).tickets, ~Touched(t)
                PROVE  AsSaid(tickets[t], File(p).tickets[t])
    BY DEF LoadedIsTheFile
  <2>1. IInv /\ DoneIsSaid(p)
    BY <1>1 DEF SaidInv
  <2>2. proc[p].number > Len(File(p).tickets)
    BY <2>1 DEF IInv, PlaceOK
  <2>3. /\ Len(File(p).tickets) \in Nat /\ DOMAIN File(p).tickets = 1 .. Len(File(p).tickets)
        /\ proc[p].number \in Nat
    BY <2>1, FilesHaveShape DEF IInv, TypeOK, Process
  <2>4. t < proc[p].number
    BY <2>2, <2>3
  <2>. QED  BY <2>1, <2>4 DEF DoneIsSaid
<1>. QED  BY <1>1, TicketsAreSaid, PTL
==============================================================================
