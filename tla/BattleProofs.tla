---------------------------- MODULE BattleProofs ----------------------------
(***************************************************************************)
(* Proofs about Battle, for any number of ships, any map, configuration,   *)
(* layouts, loadouts and orders.                                           *)
(*                                                                         *)
(* The argument: each phase of a tick is a fold over the ships, the shells *)
(* or the hits, and a fold is the sequence of what it has after each of    *)
(* them, so what a phase does is proved by induction on how many it has    *)
(* dealt with.  The phases together say what a tick makes of one ship      *)
(* (ShipTick) and of the world's shells, clouds and decoys; the invariants *)
(* of the match then follow action by action.                              *)
(***************************************************************************)
EXTENDS Battle, WellFoundedInduction, FiniteSetTheorems, TLAPS

-----------------------------------------------------------------------------
(* Induction, and folds.  FoldLeft is a choice of a function on the sets of *)
(* positions taken; unfolded, it is a sequence of what the fold has after each. *)

Below == {p \in Nat \X Nat : p[1] < p[2]}

\* Natural numbers, by the well-foundedness of <: what holds of 0 and of n + 1 if of n, holds.
LEMMA Induction ==
  ASSUME NEW T \in SUBSET Nat, 0 \in T, \A n \in T : n + 1 \in T
  PROVE  T = Nat
  <1>1. SUFFICES ASSUME Nat \ T # {} PROVE FALSE
    OBVIOUS
  <1>2. IsWellFoundedOn(Below, Nat)
    BY NatLessThanWellFounded DEF OpToRel, Below
  <1>3. PICK m \in Nat \ T : \A n \in Nat \ T : ~ (<<n, m>> \in Below)
    BY <1>1, <1>2, WFMin
  <1>4. m # 0 /\ m - 1 \in Nat \ T /\ m - 1 < m
    BY SMT
  <1> QED BY <1>3, <1>4 DEF Below

\* A fold as a function of the sets of positions it has taken, and as the sequence of what
\* it has after each.
IsFold(it, base, step, seq) ==
  \A K \in SUBSET (DOMAIN seq) :
    it[K] = IF K = {} THEN base ELSE step[<<it[K \ {Max(K)}], seq[Max(K)]>>]
Goes(g, it, base, step, seq) ==
  /\ g[0] = base /\ it[DOMAIN seq] = g[Len(seq)]
  /\ \A i \in 1..Len(seq) : g[i] = step[<<g[i - 1], seq[i]>>]

\* A step on the states of S, as a function, folded over the subsets of an interval.
Folds(it, S, base, step, seq) ==
  /\ it[{}] = base
  /\ \A K \in SUBSET (DOMAIN seq) :
       K # {} /\ it[K \ {Max(K)}] \in S => it[K] = step[<<it[K \ {Max(K)}], seq[Max(K)]>>]

LEMMA LastOf ==
  ASSUME NEW n \in Nat, NEW K \in SUBSET (1..n), K # {}
  PROVE  Max(K) \in K /\ \A k \in K : k <= Max(K)
  <1> DEFINE P(m) == \A J \in SUBSET (1..m) : J # {} => \E x \in J : \A y \in J : x >= y
             T == {m \in Nat : P(m)}
  <1>1. 0 \in T
    <2>1. 1..0 = {}
      OBVIOUS
    <2> QED BY <2>1
  <1>2. ASSUME NEW m \in T PROVE m + 1 \in T
    <2> SUFFICES ASSUME NEW J \in SUBSET (1..(m + 1)), J # {} PROVE \E x \in J : \A y \in J : x >= y
      OBVIOUS
    <2>1. CASE m + 1 \in J
      BY <2>1
    <2>2. CASE m + 1 \notin J
      <3>1. J \in SUBSET (1..m)
        BY <2>2
      <3> QED BY <3>1
    <2> QED BY <2>1, <2>2
  <1>3. T = Nat
    <2> HIDE DEF T
    <2>1. T \in SUBSET Nat
      BY DEF T
    <2> QED BY <1>1, <1>2, <2>1, Induction
  <1>4. n \in T
    BY <1>3
  <1>5. \E x \in K : \A y \in K : x >= y
    BY <1>4
  <1> DEFINE top == CHOOSE x \in K : \A y \in K : x >= y
  <1>6. top \in K /\ \A y \in K : top >= y
    <2> HIDE DEF T, P
    <2> QED BY <1>5, Zenon
  <1>7. Max(K) = top
    BY DEF Max
  <1> HIDE DEF top
  <1>8. \A y \in K : y \in Int
    OBVIOUS
  <1> QED BY <1>6, <1>7, <1>8

LEMMA MaxIsEnd ==
  ASSUME NEW k \in Nat, NEW K \in SUBSET (1..k), k \in K
  PROVE  Max(K) = k
  <1>1. K # {}
    OBVIOUS
  <1>2. Max(K) \in K /\ k <= Max(K)
    BY <1>1, LastOf
  <1>3. Max(K) \in 1..k
    BY <1>2
  <1> QED BY <1>2, <1>3

LEMMA MaxIn ==
  ASSUME NEW E, NEW seq \in Seq(E), NEW K \in SUBSET (DOMAIN seq), K # {}
  PROVE  Max(K) \in DOMAIN seq /\ seq[Max(K)] \in E
  <1>1. Len(seq) \in Nat /\ DOMAIN seq = 1..Len(seq)
    OBVIOUS
  <1>2. Max(K) \in K
    BY <1>1, LastOf
  <1> QED BY <1>1, <1>2

\* The choice in a fold exists.
LEMMA FoldExists ==
  ASSUME NEW S, NEW E, NEW base \in S, NEW seq \in Seq(E), NEW step \in [S \X E -> S]
  PROVE  \E it \in [SUBSET (DOMAIN seq) -> S] : IsFold(it, base, step, seq)
  <1> DEFINE Fits(it, n) == \A K \in SUBSET (1..n) :
                it[K] = IF K = {} THEN base ELSE step[<<it[K \ {Max(K)}], seq[Max(K)]>>]
             P(n) == n <= Len(seq) => \E it \in [SUBSET (1..n) -> S] : Fits(it, n)
             T == {n \in Nat : P(n)}
  <1>1. 0 \in T
    <2> DEFINE it == [K \in SUBSET (1..0) |-> base]
    <2>0. SUBSET (1..0) = {{}}
      OBVIOUS
    <2>1. it \in [SUBSET (1..0) -> S]
      OBVIOUS
    <2>2. Fits(it, 0)
      BY <2>0
    <2> HIDE DEF it, Fits
    <2> QED BY <2>1, <2>2
  <1>2. ASSUME NEW n \in T PROVE n + 1 \in T
    <2>a. n \in Nat /\ Len(seq) \in Nat /\ n + 1 \in Nat /\ P(n)
      <3> HIDE DEF P
      <3>1. n \in Nat /\ P(n)
        OBVIOUS
      <3> QED BY <3>1
    <2> SUFFICES ASSUME n + 1 <= Len(seq)
                 PROVE  \E it \in [SUBSET (1..(n + 1)) -> S] : Fits(it, n + 1)
      <3> DEFINE m == n + 1
      <3> HIDE DEF m, Fits
      <3>1. m \in Nat /\ P(m) => n + 1 \in T
        BY DEF m
      <3> QED BY <2>a, <3>1 DEF m
    <2>0. n \in Nat /\ Len(seq) \in Nat /\ n <= Len(seq)
      BY <2>a
    <2>1. PICK old \in [SUBSET (1..n) -> S] : Fits(old, n)
      <3> HIDE DEF Fits
      <3> QED BY <2>a, <2>0
    <2>2. seq[n + 1] \in E
      BY <2>0
    <2> DEFINE it == [K \in SUBSET (1..(n + 1)) |->
                  IF n + 1 \in K THEN step[<<old[K \ {n + 1}], seq[n + 1]>>] ELSE old[K]]
    <2>3. ASSUME NEW K \in SUBSET (1..(n + 1))
          PROVE  K \ {n + 1} \in SUBSET (1..n) /\ (n + 1 \notin K => K \in SUBSET (1..n))
      BY <2>0
    <2>4. it \in [SUBSET (1..(n + 1)) -> S]
      <3> SUFFICES ASSUME NEW K \in SUBSET (1..(n + 1)) PROVE it[K] \in S
        OBVIOUS
      <3>1. CASE n + 1 \in K
        <4>1. old[K \ {n + 1}] \in S
          BY <2>3
        <4> QED BY <2>2, <3>1, <4>1
      <3>2. CASE n + 1 \notin K
        BY <2>3, <3>2
      <3> QED BY <3>1, <3>2
    <2>5. ASSUME NEW K \in SUBSET (1..(n + 1))
          PROVE  it[K] = IF K = {} THEN base ELSE step[<<it[K \ {Max(K)}], seq[Max(K)]>>]
      <3>1. CASE n + 1 \in K
        <4>1. Max(K) = n + 1
          <5> HIDE DEF T, it
          <5> QED BY <2>0, <2>a, <3>1, MaxIsEnd
        <4>2. it[K \ {n + 1}] = old[K \ {n + 1}]
          BY <2>3
        <4>3. it[K] = step[<<old[K \ {n + 1}], seq[n + 1]>>]
          BY <3>1
        <4> HIDE DEF it
        <4> QED BY <3>1, <4>1, <4>2, <4>3
      <3>2. CASE n + 1 \notin K
        <4>1. K \in SUBSET (1..n)
          BY <2>3, <3>2
        <4>2. it[K] = old[K]
          BY <3>2
        <4>3. it[K \ {Max(K)}] = old[K \ {Max(K)}]
          <5>1. n + 1 \notin K \ {Max(K)} /\ K \ {Max(K)} \in SUBSET (1..(n + 1))
            BY <3>2
          <5> QED BY <5>1
        <4>4. old[K] = IF K = {} THEN base ELSE step[<<old[K \ {Max(K)}], seq[Max(K)]>>]
          BY <2>1, <4>1
        <4> HIDE DEF it
        <4> QED BY <4>2, <4>3, <4>4
      <3> QED BY <3>1, <3>2
    <2>6. Fits(it, n + 1)
      <3> HIDE DEF it
      <3> QED BY <2>5
    <2> HIDE DEF it, Fits
    <2> QED BY <2>4, <2>6
  <1>3. T = Nat
    <2> HIDE DEF T
    <2>1. T \in SUBSET Nat
      BY DEF T
    <2> QED BY <1>1, <1>2, <2>1, Induction
  <1>4. Len(seq) \in Nat /\ Len(seq) <= Len(seq) /\ DOMAIN seq = 1..Len(seq)
    OBVIOUS
  <1>5. Len(seq) \in T
    <2> HIDE DEF T
    <2> QED BY <1>3, <1>4
  <1>6. P(Len(seq))
    <2> HIDE DEF P
    <2> QED BY <1>5
  <1>7. PICK it \in [SUBSET (1..Len(seq)) -> S] : Fits(it, Len(seq))
    <2> HIDE DEF Fits, T
    <2> QED BY <1>4, <1>6
  <1> HIDE DEF T
  <1> QED BY <1>4, <1>7 DEF IsFold

\* A fold goes through the states of its base and step, one after the other.
LEMMA FoldGoes ==
  ASSUME NEW S, NEW E, NEW base \in S, NEW seq \in Seq(E), NEW step \in [S \X E -> S],
         NEW it, Folds(it, S, base, step, seq)
  PROVE  \E g \in [0..Len(seq) -> S] : Goes(g, it, base, step, seq)
  <1> DEFINE P(n) == n <= Len(seq) =>
                     /\ it[1..n] \in S
                     /\ n > 0 => it[1..n] = step[<<it[1..(n - 1)], seq[n]>>]
             T == {n \in Nat : P(n)}
  <1>0. Len(seq) \in Nat /\ DOMAIN seq = 1..Len(seq)
    OBVIOUS
  <1>a. it[1..0] = base
    <2>1. 1..0 = {}
      OBVIOUS
    <2> QED BY <2>1 DEF Folds
  <1>1. 0 \in T
    BY <1>a
  <1>2. ASSUME NEW n \in T PROVE n + 1 \in T
    <2>0. n \in Nat /\ P(n)
      OBVIOUS
    <2>a. ASSUME n + 1 <= Len(seq)
          PROVE  it[1..(n + 1)] \in S /\ it[1..(n + 1)] = step[<<it[1..n], seq[n + 1]>>]
      <3>1. it[1..n] \in S
        BY <1>0, <2>0, <2>a
      <3>2. Max(1..(n + 1)) = n + 1
        <4>1. n + 1 \in Nat /\ n + 1 \in 1..(n + 1)
          BY <2>0
        <4> HIDE DEF T, P
        <4> QED BY <4>1, MaxIsEnd
      <3>3. (1..(n + 1)) \ {n + 1} = 1..n
        BY <2>0
      <3>4. 1..(n + 1) \in SUBSET (DOMAIN seq) /\ 1..(n + 1) # {}
        <4>1. 1..(n + 1) \subseteq 1..Len(seq) /\ 1 \in 1..(n + 1)
          BY <1>0, <2>0, <2>a
        <4> QED BY <1>0, <4>1
      <3>5. it[1..(n + 1)] = step[<<it[1..n], seq[n + 1]>>]
        BY <3>1, <3>2, <3>3, <3>4 DEF Folds
      <3>6. seq[n + 1] \in E
        BY <1>0, <2>0, <2>a
      <3> QED BY <3>1, <3>5, <3>6
    <2>b. n + 1 \in Nat /\ (n + 1) - 1 = n
      BY <2>0
    <2>c. P(n + 1)
      <3> DEFINE m == n + 1
      <3>1. m - 1 = n
        BY <2>b
      <3>2. m <= Len(seq) => it[1..m] \in S /\ it[1..m] = step[<<it[1..n], seq[m]>>]
        BY <2>a
      <3> HIDE DEF m
      <3>3. P(m)
        BY <3>1, <3>2
      <3> QED BY <3>3 DEF m
    <2> HIDE DEF P
    <2> QED BY <2>b, <2>c
  <1>3. T = Nat
    <2> HIDE DEF T
    <2>1. T \in SUBSET Nat
      BY DEF T
    <2> QED BY <1>1, <1>2, <2>1, Induction
  <1> DEFINE g == [n \in 0..Len(seq) |-> it[1..n]]
  <1>b. ASSUME NEW n \in 0..Len(seq)
        PROVE  it[1..n] \in S /\ (n > 0 => it[1..n] = step[<<it[1..(n - 1)], seq[n]>>])
    <2>1. n \in T /\ n <= Len(seq)
      BY <1>0, <1>3
    <2>2. P(n)
      BY <2>1
    <2> HIDE DEF T
    <2> QED BY <2>1, <2>2
  <1> HIDE DEF T
  <1>4. g \in [0..Len(seq) -> S]
    BY <1>b
  <1>5. g[0] = base
    BY <1>0, <1>a
  <1>6. ASSUME NEW i \in 1..Len(seq) PROVE g[i] = step[<<g[i - 1], seq[i]>>]
    <2>1. i \in 0..Len(seq) /\ i - 1 \in 0..Len(seq) /\ i > 0
      BY <1>0
    <2>2. g[i] = it[1..i] /\ g[i - 1] = it[1..(i - 1)]
      BY <2>1
    <2> HIDE DEF g
    <2> QED BY <1>b, <2>1, <2>2
  <1>7. it[DOMAIN seq] = g[Len(seq)]
    BY <1>0
  <1> HIDE DEF g
  <1> QED BY <1>4, <1>5, <1>6, <1>7 DEF Goes

-----------------------------------------------------------------------------
(* The folds of Battle, each as such a sequence. *)

LEMMA RosterIsSeq == Roster \in Seq(Ships)
  BY FleetAssumption DEF FleetValid

\* The activations of a tick, one after the other.
EmpoweredRun(g, w, o, roster, ahead) ==
  /\ g[0] = w /\ Empowered(w, o, roster, ahead) = g[Len(roster)]
  /\ \A i \in 1..Len(roster) : g[i] = EmpoweredOne(g[i - 1], roster[i], o, ahead)

LEMMA EmpoweredGoes ==
  ASSUME NEW S, NEW w, NEW o, NEW roster \in Seq(Ships), NEW ahead,
         w \in S,
         \A u \in S, e \in Ships : EmpoweredOne(u, e, o, ahead) \in S
  PROVE  \E g \in [0..Len(roster) -> S] : EmpoweredRun(g, w, o, roster, ahead)
  <1> DEFINE step == [x \in S \X Ships |-> EmpoweredOne(x[1], x[2], o, ahead)]
             Eq(it) == it = [K \in SUBSET (DOMAIN roster) |->
                               IF K = {} THEN w ELSE EmpoweredOne(it[K \ {Max(K)}], roster[Max(K)], o, ahead)]
             It == CHOOSE it : Eq(it)
  <1>1. Empowered(w, o, roster, ahead) = It[DOMAIN roster]
    BY DEF Empowered, FoldLeft, MapThenFoldSet
  <1>2. step \in [S \X Ships -> S]
    OBVIOUS
  <1>3. ASSUME NEW u \in S, NEW K \in SUBSET (DOMAIN roster), K # {}
        PROVE  step[<<u, roster[Max(K)]>>] = EmpoweredOne(u, roster[Max(K)], o, ahead)
    <2>1. roster[Max(K)] \in Ships
      BY <1>3, MaxIn
    <2> QED BY <2>1
  <1>4. \E it : Eq(it)
    <2>1. PICK it \in [SUBSET (DOMAIN roster) -> S] : IsFold(it, w, step, roster)
      <3> HIDE DEF step, Eq, It
      <3> QED BY <1>2, FoldExists
    <2>2. ASSUME NEW K \in SUBSET (DOMAIN roster)
          PROVE  it[K] = IF K = {} THEN w ELSE EmpoweredOne(it[K \ {Max(K)}], roster[Max(K)], o, ahead)
      <3>1. it[K \ {Max(K)}] \in S
        OBVIOUS
      <3> HIDE DEF step
      <3> QED BY <2>1, <3>1, <1>3 DEF IsFold
    <2>3. Eq(it)
      BY <2>2
    <2> QED BY <2>3
  <1>5. Eq(It)
    <2> HIDE DEF Eq
    <2> QED BY <1>4
  <1>6. Folds(It, S, w, step, roster)
    <2> HIDE DEF It, step
    <2> QED BY <1>3, <1>5 DEF Folds
  <1> QED
    <2>1. \A u \in S, i \in 1..Len(roster) : step[<<u, roster[i]>>] = EmpoweredOne(u, roster[i], o, ahead)
      OBVIOUS
    <2>2. PICK g \in [0..Len(roster) -> S] : Goes(g, It, w, step, roster)
      <3> HIDE DEF It, step, Eq
      <3> QED BY <1>2, <1>6, FoldGoes
    <2>3. \A i \in 1..Len(roster) : g[i - 1] \in S
      OBVIOUS
    <2> HIDE DEF It, step
    <2> QED BY <1>1, <2>1, <2>2, <2>3 DEF Goes, EmpoweredRun

\* The shots of a tick, one after the other.
ShotRun(g, w, o, roster) ==
  /\ g[0] = w /\ Shot(w, o, roster) = g[Len(roster)]
  /\ \A i \in 1..Len(roster) : g[i] = ShotOne(g[i - 1], roster[i], o)

LEMMA ShotGoes ==
  ASSUME NEW S, NEW w, NEW o, NEW roster \in Seq(Ships),
         w \in S,
         \A u \in S, e \in Ships : ShotOne(u, e, o) \in S
  PROVE  \E g \in [0..Len(roster) -> S] : ShotRun(g, w, o, roster)
  <1> DEFINE step == [x \in S \X Ships |-> ShotOne(x[1], x[2], o)]
             Eq(it) == it = [K \in SUBSET (DOMAIN roster) |->
                               IF K = {} THEN w ELSE ShotOne(it[K \ {Max(K)}], roster[Max(K)], o)]
             It == CHOOSE it : Eq(it)
  <1>1. Shot(w, o, roster) = It[DOMAIN roster]
    BY DEF Shot, FoldLeft, MapThenFoldSet
  <1>2. step \in [S \X Ships -> S]
    OBVIOUS
  <1>3. ASSUME NEW u \in S, NEW K \in SUBSET (DOMAIN roster), K # {}
        PROVE  step[<<u, roster[Max(K)]>>] = ShotOne(u, roster[Max(K)], o)
    <2>1. roster[Max(K)] \in Ships
      BY <1>3, MaxIn
    <2> QED BY <2>1
  <1>4. \E it : Eq(it)
    <2>1. PICK it \in [SUBSET (DOMAIN roster) -> S] : IsFold(it, w, step, roster)
      <3> HIDE DEF step, Eq, It
      <3> QED BY <1>2, FoldExists
    <2>2. ASSUME NEW K \in SUBSET (DOMAIN roster)
          PROVE  it[K] = IF K = {} THEN w ELSE ShotOne(it[K \ {Max(K)}], roster[Max(K)], o)
      <3>1. it[K \ {Max(K)}] \in S
        OBVIOUS
      <3> HIDE DEF step
      <3> QED BY <2>1, <3>1, <1>3 DEF IsFold
    <2>3. Eq(it)
      BY <2>2
    <2> QED BY <2>3
  <1>5. Eq(It)
    <2> HIDE DEF Eq
    <2> QED BY <1>4
  <1>6. Folds(It, S, w, step, roster)
    <2> HIDE DEF It, step
    <2> QED BY <1>3, <1>5 DEF Folds
  <1> QED
    <2>1. \A u \in S, i \in 1..Len(roster) : step[<<u, roster[i]>>] = ShotOne(u, roster[i], o)
      OBVIOUS
    <2>2. PICK g \in [0..Len(roster) -> S] : Goes(g, It, w, step, roster)
      <3> HIDE DEF It, step, Eq
      <3> QED BY <1>2, <1>6, FoldGoes
    <2>3. \A i \in 1..Len(roster) : g[i - 1] \in S
      OBVIOUS
    <2> HIDE DEF It, step
    <2> QED BY <1>1, <2>1, <2>2, <2>3 DEF Goes, ShotRun

\* What a shell that goes off does to one ship after the other.
BurstRun(g, done, shell, t) ==
  /\ g[0] = done /\ Burst(done, shell, t) = g[Len(Roster)]
  /\ \A i \in 1..Len(Roster) : g[i] = Splashed(g[i - 1], Roster[i], shell, t)

LEMMA BurstGoes ==
  ASSUME NEW S, NEW done, NEW shell, NEW t,
         done \in S,
         \A u \in S, e \in Ships : Splashed(u, e, shell, t) \in S
  PROVE  \E g \in [0..Len(Roster) -> S] : BurstRun(g, done, shell, t)
  <1> DEFINE step == [x \in S \X Ships |-> Splashed(x[1], x[2], shell, t)]
             Eq(it) == it = [K \in SUBSET (DOMAIN Roster) |->
                               IF K = {} THEN done ELSE Splashed(it[K \ {Max(K)}], Roster[Max(K)], shell, t)]
             It == CHOOSE it : Eq(it)
  <1>1. Burst(done, shell, t) = It[DOMAIN Roster]
    BY DEF Burst, FoldLeft, MapThenFoldSet
  <1>2. step \in [S \X Ships -> S]
    OBVIOUS
  <1>3. ASSUME NEW u \in S, NEW K \in SUBSET (DOMAIN Roster), K # {}
        PROVE  step[<<u, Roster[Max(K)]>>] = Splashed(u, Roster[Max(K)], shell, t)
    <2>1. Roster[Max(K)] \in Ships
      BY <1>3, MaxIn, RosterIsSeq
    <2> QED BY <2>1
  <1>4. \E it : Eq(it)
    <2>1. PICK it \in [SUBSET (DOMAIN Roster) -> S] : IsFold(it, done, step, Roster)
      <3> HIDE DEF step, Eq, It
      <3> QED BY <1>2, FoldExists, RosterIsSeq
    <2>2. ASSUME NEW K \in SUBSET (DOMAIN Roster)
          PROVE  it[K] = IF K = {} THEN done ELSE Splashed(it[K \ {Max(K)}], Roster[Max(K)], shell, t)
      <3>1. it[K \ {Max(K)}] \in S
        OBVIOUS
      <3> HIDE DEF step
      <3> QED BY <2>1, <3>1, <1>3 DEF IsFold
    <2>3. Eq(it)
      BY <2>2
    <2> QED BY <2>3
  <1>5. Eq(It)
    <2> HIDE DEF Eq
    <2> QED BY <1>4
  <1>6. Folds(It, S, done, step, Roster)
    <2> HIDE DEF It, step
    <2> QED BY <1>3, <1>5 DEF Folds
  <1> QED
    <2>1. \A u \in S, i \in 1..Len(Roster) : step[<<u, Roster[i]>>] = Splashed(u, Roster[i], shell, t)
      BY RosterIsSeq
    <2>2. PICK g \in [0..Len(Roster) -> S] : Goes(g, It, done, step, Roster)
      <3> HIDE DEF It, step, Eq
      <3> QED BY <1>2, <1>6, FoldGoes, RosterIsSeq
    <2>3. \A i \in 1..Len(Roster) : g[i - 1] \in S
      OBVIOUS
    <2> HIDE DEF It, step
    <2> QED BY <1>1, <2>1, <2>2, <2>3 DEF Goes, BurstRun

\* One shell after the other.
FlightsRun(g, w) ==
  /\ g[0] = [flying |-> <<>>, ships |-> w.ships, hits |-> <<>>] /\ ShellsStepped(w) = g[Len(w.shells)]
  /\ \A i \in 1..Len(w.shells) : g[i] = ShellStepped(g[i - 1], w.shells[i], w.tick)

LEMMA FlightsGo ==
  ASSUME NEW S, NEW w, NEW Shl, w.shells \in Seq(Shl),
         [flying |-> <<>>, ships |-> w.ships, hits |-> <<>>] \in S,
         \A u \in S, e \in Shl : ShellStepped(u, e, w.tick) \in S
  PROVE  \E g \in [0..Len(w.shells) -> S] : FlightsRun(g, w)
  <1> DEFINE step == [x \in S \X Shl |-> ShellStepped(x[1], x[2], w.tick)]
             Eq(it) == it = [K \in SUBSET (DOMAIN w.shells) |->
                               IF K = {} THEN [flying |-> <<>>, ships |-> w.ships, hits |-> <<>>] ELSE ShellStepped(it[K \ {Max(K)}], w.shells[Max(K)], w.tick)]
             It == CHOOSE it : Eq(it)
  <1>1. ShellsStepped(w) = It[DOMAIN w.shells]
    BY DEF ShellsStepped, FoldLeft, MapThenFoldSet
  <1>2. step \in [S \X Shl -> S]
    OBVIOUS
  <1>3. ASSUME NEW u \in S, NEW K \in SUBSET (DOMAIN w.shells), K # {}
        PROVE  step[<<u, w.shells[Max(K)]>>] = ShellStepped(u, w.shells[Max(K)], w.tick)
    <2>1. w.shells[Max(K)] \in Shl
      BY <1>3, MaxIn
    <2> QED BY <2>1
  <1>4. \E it : Eq(it)
    <2>1. PICK it \in [SUBSET (DOMAIN w.shells) -> S] : IsFold(it, [flying |-> <<>>, ships |-> w.ships, hits |-> <<>>], step, w.shells)
      <3> HIDE DEF step, Eq, It
      <3> QED BY <1>2, FoldExists
    <2>2. ASSUME NEW K \in SUBSET (DOMAIN w.shells)
          PROVE  it[K] = IF K = {} THEN [flying |-> <<>>, ships |-> w.ships, hits |-> <<>>] ELSE ShellStepped(it[K \ {Max(K)}], w.shells[Max(K)], w.tick)
      <3>1. it[K \ {Max(K)}] \in S
        OBVIOUS
      <3> HIDE DEF step
      <3> QED BY <2>1, <3>1, <1>3 DEF IsFold
    <2>3. Eq(it)
      BY <2>2
    <2> QED BY <2>3
  <1>5. Eq(It)
    <2> HIDE DEF Eq
    <2> QED BY <1>4
  <1>6. Folds(It, S, [flying |-> <<>>, ships |-> w.ships, hits |-> <<>>], step, w.shells)
    <2> HIDE DEF It, step
    <2> QED BY <1>3, <1>5 DEF Folds
  <1> QED
    <2>1. \A u \in S, i \in 1..Len(w.shells) : step[<<u, w.shells[i]>>] = ShellStepped(u, w.shells[i], w.tick)
      OBVIOUS
    <2>2. PICK g \in [0..Len(w.shells) -> S] : Goes(g, It, [flying |-> <<>>, ships |-> w.ships, hits |-> <<>>], step, w.shells)
      <3> HIDE DEF It, step, Eq
      <3> QED BY <1>2, <1>6, FoldGoes
    <2>3. \A i \in 1..Len(w.shells) : g[i - 1] \in S
      OBVIOUS
    <2> HIDE DEF It, step
    <2> QED BY <1>1, <2>1, <2>2, <2>3 DEF Goes, FlightsRun

\* One hit after the other is credited.
CreditedRun(g, st, w, out) ==
  /\ g[0] = Shots(st, w, out.world) /\ Credited(st, w, out) = g[Len(out.hits)]
  /\ \A i \in 1..Len(out.hits) : g[i] = Counted(g[i - 1], out.hits[i])

LEMMA CreditedGoes ==
  ASSUME NEW S, NEW st, NEW w, NEW out, NEW Hit, out.hits \in Seq(Hit),
         Shots(st, w, out.world) \in S,
         \A u \in S, e \in Hit : Counted(u, e) \in S
  PROVE  \E g \in [0..Len(out.hits) -> S] : CreditedRun(g, st, w, out)
  <1> DEFINE step == [x \in S \X Hit |-> Counted(x[1], x[2])]
             Eq(it) == it = [K \in SUBSET (DOMAIN out.hits) |->
                               IF K = {} THEN Shots(st, w, out.world) ELSE Counted(it[K \ {Max(K)}], out.hits[Max(K)])]
             It == CHOOSE it : Eq(it)
  <1>1. Credited(st, w, out) = It[DOMAIN out.hits]
    BY DEF Credited, FoldLeft, MapThenFoldSet
  <1>2. step \in [S \X Hit -> S]
    OBVIOUS
  <1>3. ASSUME NEW u \in S, NEW K \in SUBSET (DOMAIN out.hits), K # {}
        PROVE  step[<<u, out.hits[Max(K)]>>] = Counted(u, out.hits[Max(K)])
    <2>1. out.hits[Max(K)] \in Hit
      BY <1>3, MaxIn
    <2> QED BY <2>1
  <1>4. \E it : Eq(it)
    <2>1. PICK it \in [SUBSET (DOMAIN out.hits) -> S] : IsFold(it, Shots(st, w, out.world), step, out.hits)
      <3> HIDE DEF step, Eq, It
      <3> QED BY <1>2, FoldExists
    <2>2. ASSUME NEW K \in SUBSET (DOMAIN out.hits)
          PROVE  it[K] = IF K = {} THEN Shots(st, w, out.world) ELSE Counted(it[K \ {Max(K)}], out.hits[Max(K)])
      <3>1. it[K \ {Max(K)}] \in S
        OBVIOUS
      <3> HIDE DEF step
      <3> QED BY <2>1, <3>1, <1>3 DEF IsFold
    <2>3. Eq(it)
      BY <2>2
    <2> QED BY <2>3
  <1>5. Eq(It)
    <2> HIDE DEF Eq
    <2> QED BY <1>4
  <1>6. Folds(It, S, Shots(st, w, out.world), step, out.hits)
    <2> HIDE DEF It, step
    <2> QED BY <1>3, <1>5 DEF Folds
  <1> QED
    <2>1. \A u \in S, i \in 1..Len(out.hits) : step[<<u, out.hits[i]>>] = Counted(u, out.hits[i])
      OBVIOUS
    <2>2. PICK g \in [0..Len(out.hits) -> S] : Goes(g, It, Shots(st, w, out.world), step, out.hits)
      <3> HIDE DEF It, step, Eq
      <3> QED BY <1>2, <1>6, FoldGoes
    <2>3. \A i \in 1..Len(out.hits) : g[i - 1] \in S
      OBVIOUS
    <2> HIDE DEF It, step
    <2> QED BY <1>1, <2>1, <2>2, <2>3 DEF Goes, CreditedRun

\* The damage a bot is told of, hit after hit.
HitsToldRun(g, s, hits) ==
  /\ g[0] = 0 /\ HitsTold(s, hits) = g[Len(hits)]
  /\ \A i \in 1..Len(hits) : g[i] = (IF hits[i].ship = s THEN g[i - 1] + hits[i].amount ELSE g[i - 1])

LEMMA HitsToldGoes ==
  ASSUME NEW S, NEW s, NEW Hit, NEW hits \in Seq(Hit),
         0 \in S,
         \A u \in S, e \in Hit : (IF e.ship = s THEN u + e.amount ELSE u) \in S
  PROVE  \E g \in [0..Len(hits) -> S] : HitsToldRun(g, s, hits)
  <1> DEFINE step == [x \in S \X Hit |-> (IF x[2].ship = s THEN x[1] + x[2].amount ELSE x[1])]
             Eq(it) == it = [K \in SUBSET (DOMAIN hits) |->
                               IF K = {} THEN 0 ELSE (IF hits[Max(K)].ship = s THEN it[K \ {Max(K)}] + hits[Max(K)].amount ELSE it[K \ {Max(K)}])]
             It == CHOOSE it : Eq(it)
  <1>1. HitsTold(s, hits) = It[DOMAIN hits]
    BY DEF HitsTold, FoldLeft, MapThenFoldSet
  <1>2. step \in [S \X Hit -> S]
    OBVIOUS
  <1>3. ASSUME NEW u \in S, NEW K \in SUBSET (DOMAIN hits), K # {}
        PROVE  step[<<u, hits[Max(K)]>>] = (IF hits[Max(K)].ship = s THEN u + hits[Max(K)].amount ELSE u)
    <2>1. hits[Max(K)] \in Hit
      BY <1>3, MaxIn
    <2> QED BY <2>1
  <1>4. \E it : Eq(it)
    <2>1. PICK it \in [SUBSET (DOMAIN hits) -> S] : IsFold(it, 0, step, hits)
      <3> HIDE DEF step, Eq, It
      <3> QED BY <1>2, FoldExists
    <2>2. ASSUME NEW K \in SUBSET (DOMAIN hits)
          PROVE  it[K] = IF K = {} THEN 0 ELSE (IF hits[Max(K)].ship = s THEN it[K \ {Max(K)}] + hits[Max(K)].amount ELSE it[K \ {Max(K)}])
      <3>1. it[K \ {Max(K)}] \in S
        OBVIOUS
      <3> HIDE DEF step
      <3> QED BY <2>1, <3>1, <1>3 DEF IsFold
    <2>3. Eq(it)
      BY <2>2
    <2> QED BY <2>3
  <1>5. Eq(It)
    <2> HIDE DEF Eq
    <2> QED BY <1>4
  <1>6. Folds(It, S, 0, step, hits)
    <2> HIDE DEF It, step
    <2> QED BY <1>3, <1>5 DEF Folds
  <1> QED
    <2>1. \A u \in S, i \in 1..Len(hits) : step[<<u, hits[i]>>] = (IF hits[i].ship = s THEN u + hits[i].amount ELSE u)
      OBVIOUS
    <2>2. PICK g \in [0..Len(hits) -> S] : Goes(g, It, 0, step, hits)
      <3> HIDE DEF It, step, Eq
      <3> QED BY <1>2, <1>6, FoldGoes
    <2>3. \A i \in 1..Len(hits) : g[i - 1] \in S
      OBVIOUS
    <2> HIDE DEF It, step
    <2> QED BY <1>1, <2>1, <2>2, <2>3 DEF Goes, HitsToldRun

\* A total, ship after ship.
TotalRun(g, f) ==
  /\ g[0] = 0 /\ Total(f) = g[Len(Roster)]
  /\ \A i \in 1..Len(Roster) : g[i] = g[i - 1] + f[Roster[i]]

LEMMA TotalGoes ==
  ASSUME NEW S, NEW f,
         0 \in S,
         \A u \in S, e \in Ships : u + f[e] \in S
  PROVE  \E g \in [0..Len(Roster) -> S] : TotalRun(g, f)
  <1> DEFINE step == [x \in S \X Ships |-> x[1] + f[x[2]]]
             Eq(it) == it = [K \in SUBSET (DOMAIN Roster) |->
                               IF K = {} THEN 0 ELSE it[K \ {Max(K)}] + f[Roster[Max(K)]]]
             It == CHOOSE it : Eq(it)
  <1>1. Total(f) = It[DOMAIN Roster]
    BY DEF Total, FoldLeft, MapThenFoldSet
  <1>2. step \in [S \X Ships -> S]
    OBVIOUS
  <1>3. ASSUME NEW u \in S, NEW K \in SUBSET (DOMAIN Roster), K # {}
        PROVE  step[<<u, Roster[Max(K)]>>] = u + f[Roster[Max(K)]]
    <2>1. Roster[Max(K)] \in Ships
      BY <1>3, MaxIn, RosterIsSeq
    <2> QED BY <2>1
  <1>4. \E it : Eq(it)
    <2>1. PICK it \in [SUBSET (DOMAIN Roster) -> S] : IsFold(it, 0, step, Roster)
      <3> HIDE DEF step, Eq, It
      <3> QED BY <1>2, FoldExists, RosterIsSeq
    <2>2. ASSUME NEW K \in SUBSET (DOMAIN Roster)
          PROVE  it[K] = IF K = {} THEN 0 ELSE it[K \ {Max(K)}] + f[Roster[Max(K)]]
      <3>1. it[K \ {Max(K)}] \in S
        OBVIOUS
      <3> HIDE DEF step
      <3> QED BY <2>1, <3>1, <1>3 DEF IsFold
    <2>3. Eq(it)
      BY <2>2
    <2> QED BY <2>3
  <1>5. Eq(It)
    <2> HIDE DEF Eq
    <2> QED BY <1>4
  <1>6. Folds(It, S, 0, step, Roster)
    <2> HIDE DEF It, step
    <2> QED BY <1>3, <1>5 DEF Folds
  <1> QED
    <2>1. \A u \in S, i \in 1..Len(Roster) : step[<<u, Roster[i]>>] = u + f[Roster[i]]
      BY RosterIsSeq
    <2>2. PICK g \in [0..Len(Roster) -> S] : Goes(g, It, 0, step, Roster)
      <3> HIDE DEF It, step, Eq
      <3> QED BY <1>2, <1>6, FoldGoes, RosterIsSeq
    <2>3. \A i \in 1..Len(Roster) : g[i - 1] \in S
      OBVIOUS
    <2> HIDE DEF It, step
    <2> QED BY <1>1, <2>1, <2>2, <2>3 DEF Goes, TotalRun

-----------------------------------------------------------------------------
(* Constants and numbers. *)

LEMMA ConfigFacts ==
  /\ Config.hull \in Nat \ {0} /\ Config.ammo \in Nat \ {0} /\ Config.cooldown \in Nat \ {0}
  /\ Config.speed \in Nat \ {0} /\ Config.splash \in Nat \ {0} /\ Config.damage \in Nat \ {0}
  /\ Config.shellSpeed \in Nat \ {0} /\ Config.shellRange \in Nat \ {0}
  /\ Config.hit \in Nat /\ Config.bump \in Nat
  /\ Config.regen \in Nat /\ Config.instantHp \in Nat /\ Config.hullMult \in Nat
  /\ Config.speedMult \in Nat \ {0} /\ Config.cooldownMult \in Nat \ {0}
  /\ Config.splashMult \in Nat \ {0} /\ Config.damageMult \in Nat \ {0}
  /\ Config.rangeMult \in Nat \ {0} /\ Config.shellSpeedMult \in Nat \ {0}
  /\ Config.empMult \in Nat \ {0} /\ Config.reveal \in Nat \ {0}
  /\ Config.decoyMin \in Nat \ {0} /\ Config.decoyMax \in Nat \ {0}
  /\ Config.duration \in [PowerupId -> Nat \ {0}]
  BY ConfigAssumption DEF SimConfigValid, PowerupConfigValid

LEMMA BoundsFacts == /\ Word \in Nat \ {0} /\ Timeout \in Nat \ {0} /\ Throttle \in Nat
                     /\ Width \in Nat
  BY BoundsAssumption, FleetAssumption DEF FleetValid

LEMMA RoundedType ==
  ASSUME NEW n \in Nat, NEW d \in Nat \ {0}
  PROVE  Rounded(n, d) \in Nat
  BY DEF Rounded

LEMMA ScaledType ==
  ASSUME NEW n \in Nat, NEW d \in Nat
  PROVE  Scaled(n, d) \in Nat
  <1>1. n * d \in Nat
    OBVIOUS
  <1> QED BY <1>1, RoundedType DEF Scaled

LEMMA UpToType ==
  ASSUME NEW n \in Nat, NEW d \in Nat \ {0}
  PROVE  UpTo(n, d) \in Nat
  BY DEF UpTo

LEMMA AsU32Type ==
  ASSUME NEW n \in Nat
  PROVE  AsU32(n) \in 0..(Word - 1)
  BY BoundsFacts DEF AsU32

LEMMA InsideType ==
  ASSUME NEW n \in Int
  PROVE  Inside(n) \in 0..Width /\ (n \in 0..Width => Inside(n) = n)
  BY BoundsFacts DEF Inside, Greatest, Least

LEMMA CooldownType ==
  ASSUME NEW rapid \in BOOLEAN, NEW jammed \in BOOLEAN
  PROVE  EffectiveCooldown(rapid, jammed) \in 0..(Word - 1)
  <1> DEFINE x == IF rapid THEN Config.cooldownMult ELSE 100
             y == IF jammed THEN Config.empMult ELSE 100
  <1>1. x \in Nat /\ y \in Nat /\ Config.cooldown \in Nat
    BY ConfigFacts
  <1> HIDE DEF x, y
  <1>2. Config.cooldown * x * y \in Nat
    BY <1>1
  <1>3. Rounded(Config.cooldown * x * y, 10000) \in Nat
    BY <1>2, RoundedType
  <1>4. Greatest(1, Rounded(Config.cooldown * x * y, 10000)) \in Nat
    BY <1>3 DEF Greatest
  <1> QED BY <1>4, AsU32Type DEF EffectiveCooldown, x, y

-----------------------------------------------------------------------------
(* Types, and what each operation makes of one ship. *)

Vessels ==
  [place : 0..Width, heading : {-1, 1}, course : -1..1, speed : Nat, hp : 0..Config.hull,
   ammo : 0..Config.ammo, cooldown : 0..(Word - 1), alive : BOOLEAN, selected : Seq(PowerupId),
   used : SUBSET PowerupId, until : [PowerupId -> Nat], emp : Nat, reveal : Nat,
   attacker : SUBSET Ships]
Sound(v, s) == v \in Vessels /\ v.alive = (v.hp > 0) /\ s \notin v.attacker
Fleets == {f \in [Ships -> Vessels] : \A s \in Ships : Sound(f[s], s)}
Shells == [by : Ships, at : Int, step : Int, ttl : Nat, splash : Nat \ {0}, damage : Nat]
Clouds == [owner : Ships, at : Int, until : Nat]
Decoys == [owner : Ships, at : Int, drift : Int, until : Nat]
Worlds == [tick : Nat, shells : Seq(Shells), clouds : SUBSET Clouds, decoys : SUBSET Decoys,
           ships : Fleets]

LEMMA VesselFields ==
  ASSUME NEW v \in Vessels
  PROVE  /\ v.place \in 0..Width /\ v.heading \in {-1, 1} /\ v.course \in -1..1 /\ v.speed \in Nat
         /\ v.hp \in 0..Config.hull /\ v.ammo \in 0..Config.ammo /\ v.cooldown \in 0..(Word - 1)
         /\ v.alive \in BOOLEAN /\ v.selected \in Seq(PowerupId) /\ v.used \in SUBSET PowerupId
         /\ v.until \in [PowerupId -> Nat] /\ v.emp \in Nat /\ v.reveal \in Nat
         /\ v.attacker \in SUBSET Ships
  BY DEF Vessels

LEMMA WorldFields ==
  ASSUME NEW w \in Worlds
  PROVE  /\ w.tick \in Nat /\ w.shells \in Seq(Shells) /\ w.clouds \in SUBSET Clouds
         /\ w.decoys \in SUBSET Decoys /\ w.ships \in Fleets
  BY DEF Worlds

LEMMA ShipOf ==
  ASSUME NEW f \in Fleets, NEW s \in Ships
  PROVE  Sound(f[s], s) /\ f[s] \in Vessels
  BY DEF Fleets

LEMMA FleetIs ==
  ASSUME NEW f, f = [s \in Ships |-> f[s]], \A s \in Ships : Sound(f[s], s)
  PROVE  f \in Fleets
  BY DEF Fleets, Sound

\* What the fields of a record are after it is updated.
PoweredButEmp(u, v, p, t) ==
  /\ u.used = v.used \cup {p}
  /\ u.until = IF p \in InWorld THEN v.until ELSE [v.until EXCEPT ![p] = t + Config.duration[p]]
  /\ u.hp = IF p = "repair_drones" THEN Least(v.hp + Config.instantHp, Config.hull) ELSE v.hp
  /\ u.reveal = IF p = "counter_battery_trace" THEN 0 ELSE v.reveal
  /\ u.attacker = IF p = "counter_battery_trace" THEN {} ELSE v.attacker
  /\ u.place = v.place /\ u.heading = v.heading /\ u.course = v.course /\ u.speed = v.speed
  /\ u.ammo = v.ammo /\ u.cooldown = v.cooldown /\ u.alive = v.alive
  /\ u.selected = v.selected
PoweredTo(u, v, p, t) == PoweredButEmp(u, v, p, t) /\ u.emp = v.emp

LEMMA PoweredFields ==
  ASSUME NEW v \in Vessels, NEW p \in PowerupId, NEW t \in Nat
  PROVE  /\ PoweredTo(Powered(v, p, t), v, p, t) /\ Powered(v, p, t) \in Vessels
         /\ v.hp > 0 => Powered(v, p, t).hp > 0
  <1> DEFINE us == v.used \cup {p}
             un == IF p \in InWorld THEN v.until ELSE [v.until EXCEPT ![p] = t + Config.duration[p]]
             hp == IF p = "repair_drones" THEN Least(v.hp + Config.instantHp, Config.hull) ELSE v.hp
             re == IF p = "counter_battery_trace" THEN 0 ELSE v.reveal
             at == IF p = "counter_battery_trace" THEN {} ELSE v.attacker
             u == Powered(v, p, t)
  <1>1. u = [v EXCEPT !.used = us, !.until = un, !.hp = hp, !.reveal = re, !.attacker = at]
    BY DEF Powered
  <1>2. v.used \in SUBSET PowerupId /\ v.until \in [PowerupId -> Nat] /\ v.reveal \in Nat
        /\ v.attacker \in SUBSET Ships /\ v.hp \in 0..Config.hull
    BY DEF Vessels
  <1>3. Config.hull \in Nat \ {0} /\ Config.instantHp \in Nat /\ Config.duration[p] \in Nat
    BY ConfigFacts
  <1>4. us \in SUBSET PowerupId /\ re \in Nat /\ at \in SUBSET Ships
    BY <1>2
  <1>5. hp \in 0..Config.hull /\ (v.hp > 0 => hp > 0)
    BY <1>2, <1>3 DEF Least
  <1>6. un \in [PowerupId -> Nat]
    BY <1>2, <1>3
  <1> HIDE DEF us, un, hp, re, at, u
  <1>7. u \in Vessels
    BY <1>1, <1>4, <1>5, <1>6 DEF Vessels
  <1>8. /\ u.used = us /\ u.until = un /\ u.hp = hp /\ u.reveal = re /\ u.attacker = at
        /\ u.place = v.place /\ u.heading = v.heading /\ u.course = v.course /\ u.speed = v.speed
        /\ u.ammo = v.ammo /\ u.cooldown = v.cooldown /\ u.alive = v.alive
        /\ u.selected = v.selected /\ u.emp = v.emp
    BY <1>1 DEF Vessels
  <1>9. PoweredTo(u, v, p, t)
    BY <1>8 DEF PoweredTo, PoweredButEmp, us, un, hp, re, at
  <1> QED BY <1>5, <1>7, <1>8, <1>9 DEF u

LEMMA PoweredType ==
  ASSUME NEW s, NEW v, Sound(v, s), NEW p \in PowerupId, NEW t \in Nat, v.alive
  PROVE  Sound(Powered(v, p, t), s) /\ PoweredTo(Powered(v, p, t), v, p, t)
  <1> DEFINE u == Powered(v, p, t)
  <1>1. v \in Vessels /\ v.hp > 0 /\ s \notin v.attacker
    BY DEF Sound
  <1>2. PoweredTo(u, v, p, t) /\ u \in Vessels /\ u.hp > 0
    BY <1>1, PoweredFields
  <1> HIDE DEF u
  <1>3. u.alive = v.alive /\ s \notin u.attacker
    BY <1>1, <1>2 DEF PoweredTo, PoweredButEmp
  <1> QED BY <1>2, <1>3 DEF Sound, u

SameButEmp(u, v) ==
  /\ u.place = v.place /\ u.heading = v.heading /\ u.course = v.course /\ u.speed = v.speed
  /\ u.hp = v.hp /\ u.ammo = v.ammo /\ u.cooldown = v.cooldown /\ u.alive = v.alive
  /\ u.selected = v.selected /\ u.used = v.used /\ u.until = v.until /\ u.reveal = v.reveal
  /\ u.attacker = v.attacker

LEMMA EmpType ==
  ASSUME NEW s, NEW v, Sound(v, s), NEW end \in Nat, NEW u, u = [v EXCEPT !.emp = Greatest(@, end)]
  PROVE  Sound(u, s) /\ SameButEmp(u, v) /\ u.emp \in {v.emp, end}
  <1> DEFINE m == Greatest(v.emp, end)
  <1>1. v \in Vessels /\ v.emp \in Nat
    BY DEF Sound, Vessels
  <1>2. m \in Nat /\ m \in {v.emp, end}
    BY <1>1 DEF Greatest
  <1>3. u = [v EXCEPT !.emp = m]
    OBVIOUS
  <1> HIDE DEF m
  <1>4. u \in Vessels /\ SameButEmp(u, v) /\ u.emp = m
    BY <1>1, <1>2, <1>3 DEF Vessels, SameButEmp
  <1> QED BY <1>1, <1>2, <1>4 DEF Sound, SameButEmp

RecoiledTo(u, v, t) ==
  /\ u.cooldown = EffectiveCooldown(ActiveAt(v, "rapid_fire", t), v.emp > t)
  /\ u.ammo = v.ammo - 1
  /\ u.until = [v.until EXCEPT !["silent_running"] = Least(@, t)]
  /\ u.place = v.place /\ u.heading = v.heading /\ u.course = v.course /\ u.speed = v.speed
  /\ u.hp = v.hp /\ u.alive = v.alive /\ u.selected = v.selected /\ u.used = v.used
  /\ u.emp = v.emp /\ u.reveal = v.reveal /\ u.attacker = v.attacker

LEMMA RecoiledType ==
  ASSUME NEW s, NEW v, Sound(v, s), NEW t \in Nat, v.ammo > 0
  PROVE  Sound(Recoiled(v, t), s) /\ RecoiledTo(Recoiled(v, t), v, t)
  <1> DEFINE co == EffectiveCooldown(ActiveAt(v, "rapid_fire", t), v.emp > t)
             un == [v.until EXCEPT !["silent_running"] = Least(@, t)]
             am == v.ammo - 1
             u  == Recoiled(v, t)
  <1>1. v \in Vessels /\ v.until \in [PowerupId -> Nat] /\ v.emp \in Nat /\ v.ammo \in 0..Config.ammo
    BY DEF Sound, Vessels
  <1>2. Config.ammo \in Nat /\ "silent_running" \in PowerupId /\ "rapid_fire" \in PowerupId
    BY ConfigFacts DEF PowerupId
  <1>3. am \in 0..Config.ammo
    BY <1>1, <1>2
  <1>4. un \in [PowerupId -> Nat]
    BY <1>1, <1>2 DEF Least
  <1>5. co \in 0..(Word - 1)
    <2>1. ActiveAt(v, "rapid_fire", t) \in BOOLEAN /\ (v.emp > t) \in BOOLEAN
      BY <1>1, <1>2 DEF ActiveAt
    <2> QED BY <2>1, CooldownType
  <1>6. u = [v EXCEPT !.cooldown = co, !.ammo = am, !.until = un]
    BY DEF Recoiled
  <1> HIDE DEF co, un, am, u
  <1>7. u \in Vessels
    BY <1>1, <1>3, <1>4, <1>5, <1>6 DEF Vessels
  <1>8. /\ u.cooldown = co /\ u.ammo = am /\ u.until = un
        /\ u.place = v.place /\ u.heading = v.heading /\ u.course = v.course /\ u.speed = v.speed
        /\ u.hp = v.hp /\ u.alive = v.alive /\ u.selected = v.selected /\ u.used = v.used
        /\ u.emp = v.emp /\ u.reveal = v.reveal /\ u.attacker = v.attacker
    BY <1>1, <1>6 DEF Vessels
  <1>9. RecoiledTo(u, v, t)
    BY <1>8 DEF RecoiledTo, co, am, un
  <1> QED BY <1>7, <1>8, <1>9 DEF u, Sound

SailedTo(u, v) ==
  /\ u.hp <= v.hp /\ (v.course = 0 => u.hp = v.hp /\ u.place = v.place)
  /\ u.cooldown = Greatest(0, v.cooldown - 1)
  /\ u.alive = (u.hp > 0)
  /\ u.course = v.course /\ u.ammo = v.ammo /\ u.selected = v.selected /\ u.used = v.used
  /\ u.until = v.until /\ u.emp = v.emp /\ u.reveal = v.reveal /\ u.attacker = v.attacker

LEMMA SailedType ==
  ASSUME NEW s, NEW v, Sound(v, s), NEW t \in Nat
  PROVE  Sound(Sailed(v, t), s) /\ SailedTo(Sailed(v, t), v)
  <1> DEFINE speed == IF v.course = 0 THEN 0 ELSE TopSpeed(v, t)
             way   == IF v.course = 0 THEN v.heading ELSE v.course
             to    == v.place + way * speed
             bump  == to # Inside(to)
             hp    == IF bump THEN Greatest(0, v.hp - Config.bump) ELSE v.hp
             sp    == IF bump THEN 0 ELSE speed
             co    == Greatest(0, v.cooldown - 1)
             al    == hp > 0
             in    == Inside(to)
             u     == Sailed(v, t)
  <1>1. v \in Vessels
    BY DEF Sound
  <1>2. /\ v.place \in 0..Width /\ v.heading \in {-1, 1} /\ v.course \in -1..1
        /\ v.hp \in 0..Config.hull /\ v.cooldown \in 0..(Word - 1)
    BY <1>1 DEF Vessels
  <1>3. Config.hull \in Nat /\ Config.bump \in Nat /\ Width \in Nat /\ Word \in Nat
    BY ConfigFacts, BoundsFacts
  <1>4. speed \in Nat
    <2>1. Config.speed \in Nat /\ Config.speedMult \in Nat
      BY ConfigFacts
    <2>2. TopSpeed(v, t) \in Nat
      BY <2>1, ScaledType DEF TopSpeed
    <2> QED BY <2>2
  <1>5. way \in {-1, 1} /\ v.course = 0 => speed = 0
    BY <1>2
  <1>5a. way \in {-1, 1}
    BY <1>2
  <1> HIDE DEF speed, way
  <1>6. to \in Int /\ (v.course = 0 => to = v.place)
    BY <1>2, <1>4, <1>5, <1>5a, <1>3
  <1> HIDE DEF to
  <1>7. in \in 0..Width /\ (v.course = 0 => ~bump /\ in = v.place)
    BY <1>2, <1>3, <1>6, InsideType
  <1> HIDE DEF bump, in
  <1>8. hp \in 0..Config.hull /\ hp <= v.hp /\ (v.course = 0 => hp = v.hp)
    BY <1>2, <1>3, <1>7 DEF Greatest
  <1>9. sp \in Nat /\ co \in 0..(Word - 1) /\ al \in BOOLEAN
    BY <1>2, <1>3, <1>4, <1>8 DEF Greatest
  <1>10. u = [v EXCEPT !.heading = way, !.place = in, !.speed = sp, !.hp = hp, !.alive = al,
                       !.cooldown = co]
    BY DEF Sailed, way, in, to, sp, hp, al, co, speed, bump
  <1> HIDE DEF hp, sp, co, u, al
  <1>10a. way \in {-1, 1}
    BY <1>5a
  <1>11. u \in Vessels
    BY <1>1, <1>7, <1>8, <1>9, <1>10, <1>10a DEF Vessels
  <1>12. /\ u.hp = hp /\ u.alive = al /\ u.cooldown = co /\ u.place = in
         /\ u.course = v.course /\ u.ammo = v.ammo /\ u.selected = v.selected /\ u.used = v.used
         /\ u.until = v.until /\ u.emp = v.emp /\ u.reveal = v.reveal /\ u.attacker = v.attacker
    BY <1>1, <1>10 DEF Vessels
  <1>13. SailedTo(u, v)
    BY <1>7, <1>8, <1>12 DEF SailedTo, co, al
  <1> QED BY <1>11, <1>12, <1>13 DEF u, Sound, SailedTo

LEMMA FieldsOf ==
  ASSUME NEW s, NEW v, Sound(v, s)
  PROVE  /\ v \in Vessels /\ v.place \in 0..Width /\ v.heading \in {-1, 1} /\ v.course \in -1..1
         /\ v.speed \in Nat /\ v.hp \in 0..Config.hull /\ v.ammo \in 0..Config.ammo
         /\ v.cooldown \in 0..(Word - 1) /\ v.alive \in BOOLEAN /\ v.alive = (v.hp > 0)
         /\ v.selected \in Seq(PowerupId) /\ v.used \in SUBSET PowerupId
         /\ v.until \in [PowerupId -> Nat] /\ v.emp \in Nat /\ v.reveal \in Nat
         /\ v.attacker \in SUBSET (Ships \ {s})
  BY DEF Vessels, Sound

LEMMA DistType ==
  ASSUME NEW p \in Int, NEW q \in Int
  PROVE  Dist(p, q) \in Nat
  BY DEF Dist

LEMMA ShellType ==
  ASSUME NEW s \in Ships, NEW v, Sound(v, s), NEW aim \in Int, NEW t \in Nat
  PROVE  Shell(v, s, aim, t) \in Shells
  <1> DEFINE far   == ActiveAt(v, "long_range_salvo", t)
             heavy == ActiveAt(v, "heavy_shell", t)
             reach == IF far THEN Scaled(Config.shellRange, Config.rangeMult) ELSE Config.shellRange
             speed == IF far THEN Scaled(Config.shellSpeed, Config.shellSpeedMult) ELSE Config.shellSpeed
             step  == IF aim < 0 THEN -speed ELSE speed
             ttl   == UpTo(Least(Dist(0, aim), reach), speed)
             spl   == IF heavy THEN Scaled(Config.splash, Config.splashMult) ELSE Config.splash
             dmg   == IF heavy THEN AsU32(Scaled(Config.damage, Config.damageMult)) ELSE Config.damage
  <1>1. /\ Config.shellRange \in Nat /\ Config.shellSpeed \in Nat \ {0} /\ Config.splash \in Nat \ {0}
        /\ Config.damage \in Nat
        /\ Scaled(Config.shellRange, Config.rangeMult) \in Nat
        /\ Scaled(Config.shellSpeed, Config.shellSpeedMult) \in Nat
        /\ Scaled(Config.splash, Config.splashMult) \in Nat
        /\ Scaled(Config.damage, Config.damageMult) \in Nat
    BY ConfigFacts, ScaledType
  <1>2. /\ Scaled(Config.shellSpeed, Config.shellSpeedMult) > 0
        /\ Scaled(Config.splash, Config.splashMult) > 0
    BY ConfigAssumption DEF ScaleValid
  <1>3. AsU32(Scaled(Config.damage, Config.damageMult)) \in Nat
    BY <1>1, AsU32Type, BoundsFacts
  <1> HIDE DEF far, heavy
  <1>4. reach \in Nat /\ speed \in Nat \ {0} /\ spl \in Nat \ {0} /\ dmg \in Nat
    BY <1>1, <1>2, <1>3
  <1> HIDE DEF reach, speed, spl, dmg
  <1>5. step \in Int
    BY <1>4
  <1>6. ttl \in Nat
    <2>1. Least(Dist(0, aim), reach) \in Nat
      BY <1>4, DistType DEF Least
    <2> QED BY <1>4, <2>1, UpToType
  <1>7. v.place \in Int
    BY FieldsOf, BoundsFacts
  <1>8. Shell(v, s, aim, t) = [by |-> s, at |-> v.place, step |-> step, ttl |-> ttl,
                               splash |-> spl, damage |-> dmg]
    BY DEF Shell, far, heavy, reach, speed, spl, dmg
  <1> HIDE DEF step, ttl
  <1> QED BY <1>4, <1>5, <1>6, <1>7, <1>8 DEF Shells

LEMMA FlownType ==
  ASSUME NEW shell \in Shells
  PROVE  /\ Flown(shell) \in Shells /\ Flown(shell).by = shell.by
  <1> DEFINE at == shell.at + shell.step
             ttl == Greatest(0, shell.ttl - 1)
  <1>1. at \in Int /\ ttl \in Nat
    BY DEF Shells, Greatest
  <1>2. Flown(shell) = [shell EXCEPT !.at = at, !.ttl = ttl]
    BY DEF Flown
  <1> HIDE DEF at, ttl
  <1> QED BY <1>1, <1>2 DEF Shells

LEMMA DamageType ==
  ASSUME NEW s, NEW v, Sound(v, s), NEW shell \in Shells, NEW t \in Nat
  PROVE  SplashDamage(v, shell, t) \in Nat
  <1> DEFINE d   == Greatest(0, Dist(v.place, shell.at) - Config.hit)
             raw == IF d > shell.splash THEN 0
                    ELSE Rounded(shell.damage * (shell.splash - d), shell.splash)
  <1>1. v.place \in Int /\ shell.at \in Int /\ shell.splash \in Nat \ {0} /\ shell.damage \in Nat
        /\ Config.hit \in Nat /\ Config.hullMult \in Nat
    <2>1. v.place \in 0..Width
      BY FieldsOf
    <2>2. v.place \in Int
      BY <2>1, BoundsFacts
    <2> QED BY <2>2, ConfigFacts DEF Shells
  <1>2. Dist(v.place, shell.at) \in Nat
    BY <1>1, DistType
  <1>3. d \in Nat
    BY <1>1, <1>2 DEF Greatest
  <1> HIDE DEF d
  <1>4. raw \in Nat
    <2>1. CASE d > shell.splash
      BY <2>1
    <2>2. CASE ~(d > shell.splash)
      <3>1. shell.splash - d \in Nat
        BY <1>1, <1>3, <2>2
      <3>2. shell.damage * (shell.splash - d) \in Nat
        BY <1>1, <3>1
      <3>3. Rounded(shell.damage * (shell.splash - d), shell.splash) \in Nat
        BY <1>1, <3>2, RoundedType
      <3> QED BY <2>2, <3>3
    <2> QED BY <2>1, <2>2
  <1> HIDE DEF raw
  <1>5. AsU32(Scaled(raw, Config.hullMult)) \in Nat
    <2>1. Scaled(raw, Config.hullMult) \in Nat
      BY <1>1, <1>4, ScaledType
    <2>2. AsU32(Scaled(raw, Config.hullMult)) \in 0..(Word - 1)
      BY <2>1, AsU32Type
    <2> QED BY <2>2, BoundsFacts
  <1>6. SplashDamage(v, shell, t)
          = IF ActiveAt(v, "reinforced_hull", t) THEN AsU32(Scaled(raw, Config.hullMult)) ELSE raw
    BY DEF SplashDamage, raw, d
  <1> QED BY <1>4, <1>5, <1>6

\* The counter-battery trace of a ship takes note of a hit.
Traced(v, s, shell, t) == ActiveAt(v, "counter_battery_trace", t) /\ shell.by # s

StruckTo(u, v, s, shell, t) ==
  /\ u.hp = Greatest(0, v.hp - SplashDamage(v, shell, t)) /\ u.alive = (u.hp > 0)
  /\ u.attacker = IF Traced(v, s, shell, t) THEN {shell.by} ELSE v.attacker
  /\ u.reveal = IF Traced(v, s, shell, t) THEN t + Config.reveal ELSE v.reveal
  /\ u.place = v.place /\ u.heading = v.heading /\ u.course = v.course /\ u.speed = v.speed
  /\ u.ammo = v.ammo /\ u.cooldown = v.cooldown /\ u.selected = v.selected
  /\ u.used = v.used /\ u.until = v.until /\ u.emp = v.emp

LEMMA StruckType ==
  ASSUME NEW s \in Ships, NEW v, Sound(v, s), NEW shell \in Shells, NEW t \in Nat
  PROVE  Sound(Struck(v, s, shell, t), s) /\ StruckTo(Struck(v, s, shell, t), v, s, shell, t)
  <1> DEFINE dmg == SplashDamage(v, shell, t)
             hp  == Greatest(0, v.hp - dmg)
             al  == hp > 0
             tr  == Traced(v, s, shell, t)
             at  == IF tr THEN {shell.by} ELSE v.attacker
             re  == IF tr THEN t + Config.reveal ELSE v.reveal
             u   == Struck(v, s, shell, t)
  <1>1. v \in Vessels /\ v.hp \in 0..Config.hull /\ v.attacker \in SUBSET (Ships \ {s})
        /\ v.reveal \in Nat /\ shell.by \in Ships /\ Config.reveal \in Nat /\ Config.hull \in Nat
    BY FieldsOf, ConfigFacts DEF Shells
  <1>2. dmg \in Nat
    BY DamageType
  <1> HIDE DEF dmg
  <1>3. hp \in 0..Config.hull /\ al \in BOOLEAN
    BY <1>1, <1>2 DEF Greatest
  <1>4. at \in SUBSET (Ships \ {s})
    BY <1>1 DEF Traced
  <1> HIDE DEF tr
  <1>5. re \in Nat
    BY <1>1
  <1>6. u = [v EXCEPT !.hp = hp, !.alive = al, !.attacker = at, !.reveal = re]
    BY DEF Struck, dmg, tr, Traced
  <1> HIDE DEF hp, al, at, re, u
  <1>7. at \in SUBSET Ships
    BY <1>4
  <1>8. u \in Vessels
    BY <1>1, <1>3, <1>5, <1>6, <1>7 DEF Vessels
  <1>9. /\ u.hp = hp /\ u.alive = al /\ u.attacker = at /\ u.reveal = re
        /\ u.place = v.place /\ u.heading = v.heading /\ u.course = v.course /\ u.speed = v.speed
        /\ u.ammo = v.ammo /\ u.cooldown = v.cooldown /\ u.selected = v.selected
        /\ u.used = v.used /\ u.until = v.until /\ u.emp = v.emp
    BY <1>1, <1>6 DEF Vessels
  <1>10. StruckTo(u, v, s, shell, t)
    BY <1>9 DEF StruckTo, hp, al, at, re, tr, dmg
  <1> QED BY <1>4, <1>8, <1>9, <1>10 DEF u, Sound, al

SameButHp(u, v) ==
  /\ u.place = v.place /\ u.heading = v.heading /\ u.course = v.course /\ u.speed = v.speed
  /\ u.ammo = v.ammo /\ u.cooldown = v.cooldown /\ u.alive = v.alive /\ u.selected = v.selected
  /\ u.used = v.used /\ u.until = v.until /\ u.emp = v.emp /\ u.reveal = v.reveal
  /\ u.attacker = v.attacker

LEMMA RegeneratedType ==
  ASSUME NEW s, NEW v, Sound(v, s), NEW t \in Nat
  PROVE  /\ Sound(Regenerated(v, t), s) /\ SameButHp(Regenerated(v, t), v)
         /\ Regenerated(v, t).hp = IF v.alive /\ ActiveAt(v, "repair_drones", t)
                                   THEN Least(v.hp + Config.regen, Config.hull) ELSE v.hp
  <1> DEFINE u == Regenerated(v, t)
             hp == Least(v.hp + Config.regen, Config.hull)
  <1>1. v \in Vessels /\ v.hp \in 0..Config.hull /\ Config.regen \in Nat /\ Config.hull \in Nat \ {0}
    BY FieldsOf, ConfigFacts
  <1>2. hp \in 0..Config.hull /\ (v.hp > 0 => hp > 0)
    BY <1>1 DEF Least
  <1>3. u = IF v.alive /\ ActiveAt(v, "repair_drones", t) THEN [v EXCEPT !.hp = hp] ELSE v
    BY DEF Regenerated
  <1> HIDE DEF hp, u
  <1>4. CASE v.alive /\ ActiveAt(v, "repair_drones", t)
    <2>1. u = [v EXCEPT !.hp = hp]
      BY <1>3, <1>4
    <2>2. u \in Vessels /\ SameButHp(u, v) /\ u.hp = hp
      BY <1>1, <1>2, <2>1 DEF Vessels, SameButHp
    <2> QED BY <1>2, <1>4, <2>2 DEF Sound, SameButHp, u, hp
  <1>5. CASE ~(v.alive /\ ActiveAt(v, "repair_drones", t))
    <2>1. u = v
      BY <1>3, <1>5
    <2> QED BY <1>5, <2>1 DEF SameButHp, u
  <1> QED BY <1>4, <1>5

SameButAttacker(u, v) ==
  /\ u.place = v.place /\ u.heading = v.heading /\ u.course = v.course /\ u.speed = v.speed
  /\ u.hp = v.hp /\ u.ammo = v.ammo /\ u.cooldown = v.cooldown /\ u.alive = v.alive
  /\ u.selected = v.selected /\ u.used = v.used /\ u.until = v.until /\ u.emp = v.emp
  /\ u.reveal = v.reveal

LEMMA ForgottenType ==
  ASSUME NEW s, NEW v, Sound(v, s), NEW t
  PROVE  /\ Sound(Forgotten(v, t), s) /\ SameButAttacker(Forgotten(v, t), v)
         /\ Forgotten(v, t).attacker = IF v.reveal <= t THEN {} ELSE v.attacker
  <1> DEFINE u == Forgotten(v, t)
  <1>1. u = IF v.reveal <= t THEN [v EXCEPT !.attacker = {}] ELSE v
    BY DEF Forgotten
  <1> HIDE DEF u
  <1>2. CASE v.reveal <= t
    <2>1. u \in Vessels /\ SameButAttacker(u, v) /\ u.attacker = {}
      BY <1>1, <1>2 DEF Vessels, SameButAttacker, Sound
    <2> QED BY <1>2, <2>1 DEF Sound, SameButAttacker, u
  <1>3. CASE ~(v.reveal <= t)
    <2>1. u = v
      BY <1>1, <1>3
    <2> QED BY <1>3, <2>1 DEF SameButAttacker, u
  <1> QED BY <1>2, <1>3

SameButCourse(u, v) ==
  /\ u.place = v.place /\ u.heading = v.heading /\ u.speed = v.speed
  /\ u.hp = v.hp /\ u.ammo = v.ammo /\ u.cooldown = v.cooldown /\ u.alive = v.alive
  /\ u.selected = v.selected /\ u.used = v.used /\ u.until = v.until /\ u.emp = v.emp
  /\ u.reveal = v.reveal /\ u.attacker = v.attacker

LEMMA CourseType ==
  ASSUME NEW s, NEW v, Sound(v, s), NEW co \in -1..1, NEW u, u = [v EXCEPT !.course = co]
  PROVE  Sound(u, s) /\ SameButCourse(u, v) /\ u.course = co
  <1>1. u \in Vessels /\ SameButCourse(u, v) /\ u.course = co
    BY DEF Vessels, SameButCourse, Sound
  <1> QED BY <1>1 DEF Sound, SameButCourse

-----------------------------------------------------------------------------
(* What each phase makes of the world: steering and activations. *)

Orderly(o) == DOMAIN o \subseteq Ships /\ \A s \in DOMAIN o : o[s] \in Order

LEMMA OrdersAreOrderly ==
  ASSUME NEW some \in SUBSET Ships, NEW o \in OrdersOf(some)
  PROVE  Orderly(o) /\ DOMAIN o = some
  <1>1. DOMAIN o = some /\ \A s \in some : o[s] \in Orders[s]
    BY DEF OrdersOf
  <1>2. \A s \in Ships : Orders[s] \subseteq Order
    BY FleetAssumption DEF FleetValid
  <1> QED BY <1>1, <1>2 DEF Orderly

\* A phase that touches only the ships.
LEMMA NewFleet ==
  ASSUME NEW w \in Worlds, NEW f \in Fleets, NEW u, u = [w EXCEPT !.ships = f]
  PROVE  /\ u \in Worlds /\ u.ships = f /\ u.tick = w.tick /\ u.shells = w.shells
         /\ u.clouds = w.clouds /\ u.decoys = w.decoys
  BY DEF Worlds

LEMMA FleetOf ==
  ASSUME NEW f, DOMAIN f = Ships, f = [s \in Ships |-> f[s]], \A s \in Ships : Sound(f[s], s)
  PROVE  f \in Fleets
  BY DEF Fleets, Sound

SteeredTo(u, w, o) ==
  /\ u.tick = w.tick /\ u.shells = w.shells /\ u.clouds = w.clouds /\ u.decoys = w.decoys
  /\ \A s \in Ships : /\ SameButCourse(u.ships[s], w.ships[s])
                      /\ s \notin DOMAIN o => u.ships[s].course = w.ships[s].course

LEMMA SteeredType ==
  ASSUME NEW w \in Worlds, NEW o, Orderly(o)
  PROVE  Steered(w, o) \in Worlds /\ SteeredTo(Steered(w, o), w, o)
  <1> DEFINE f == [s \in Ships |->
                    IF s \in DOMAIN o THEN [w.ships[s] EXCEPT !.course = o[s].course] ELSE w.ships[s]]
             u == Steered(w, o)
  <1>1. w.ships \in Fleets
    BY WorldFields
  <1>2. ASSUME NEW s \in Ships
        PROVE  /\ Sound(f[s], s) /\ SameButCourse(f[s], w.ships[s])
               /\ s \notin DOMAIN o => f[s].course = w.ships[s].course
    <2>1. Sound(w.ships[s], s)
      BY <1>1, ShipOf
    <2>2. CASE s \in DOMAIN o
      <3>1. o[s].course \in -1..1
        BY <2>2 DEF Orderly, Order
      <3>2. f[s] = [w.ships[s] EXCEPT !.course = o[s].course]
        BY <2>2
      <3> HIDE DEF f
      <3> QED BY <2>1, <2>2, <3>1, <3>2, CourseType
    <2>3. CASE s \notin DOMAIN o
      BY <2>1, <2>3 DEF SameButCourse
    <2> QED BY <2>2, <2>3
  <1>3. f \in Fleets
    <2>1. DOMAIN f = Ships /\ f = [s \in Ships |-> f[s]]
      OBVIOUS
    <2> HIDE DEF f
    <2> QED BY <1>2, <2>1, FleetOf
  <1>4. u = [w EXCEPT !.ships = f]
    BY DEF Steered
  <1> HIDE DEF f, u
  <1>5. u \in Worlds /\ u.ships = f /\ u.tick = w.tick /\ u.shells = w.shells
        /\ u.clouds = w.clouds /\ u.decoys = w.decoys
    BY <1>3, <1>4, NewFleet
  <1>6. SteeredTo(u, w, o)
    BY <1>2, <1>5 DEF SteeredTo
  <1> QED BY <1>5, <1>6 DEF u

\* An activation.
Put(some, w, s, p) ==
  \E c \in some : /\ c.owner = s /\ c.until = w.tick + Config.duration[p]

ActivatedTo(u, w, s, p) ==
  /\ u.tick = w.tick /\ u.shells = w.shells
  /\ PoweredTo(u.ships[s], w.ships[s], p, w.tick)
  /\ \A x \in Ships \ {s} :
       /\ SameButEmp(u.ships[x], w.ships[x])
       /\ \/ u.ships[x].emp = w.ships[x].emp
          \/ p = "emp_burst" /\ u.ships[x].emp = w.tick + Config.duration[p]
  /\ \E some \in SUBSET Clouds :
       /\ u.clouds = w.clouds \cup some
       /\ \A c \in some : p = "smoke_screen" /\ c.owner = s /\ c.until = w.tick + Config.duration[p]
       /\ p = "smoke_screen" => some # {}
  /\ \E some \in SUBSET Decoys :
       /\ u.decoys = w.decoys \cup some
       /\ \A d \in some : p = "decoy_flare" /\ d.owner = s /\ d.until = w.tick + Config.duration[p]
       /\ p = "decoy_flare" => some # {}

LEMMA ActivatedType ==
  ASSUME NEW w \in Worlds, NEW s \in Ships, NEW p \in PowerupId, NEW ahead \in Int, w.ships[s].alive
  PROVE  Activated(w, s, p, ahead) \in Worlds /\ ActivatedTo(Activated(w, s, p, ahead), w, s, p)
  <1> DEFINE me  == w.ships[s]
             end == w.tick + Config.duration[p]
             f   == [x \in Ships |->
                      IF x = s THEN Powered(me, p, w.tick)
                      ELSE IF p = "emp_burst" /\ InBurst(w, s, x)
                      THEN [w.ships[x] EXCEPT !.emp = Greatest(@, end)]
                      ELSE w.ships[x]]
             cl  == [owner |-> s, at |-> me.place, until |-> end]
             de  == [owner |-> s, at |-> Inside(me.place + me.heading * ahead),
                     drift |-> me.heading * me.speed, until |-> end]
             cs  == IF p # "smoke_screen" THEN {} ELSE {cl}
             ds  == IF p # "decoy_flare" THEN {} ELSE {de}
             C   == IF p # "smoke_screen" THEN w.clouds ELSE w.clouds \cup {cl}
             D   == IF p # "decoy_flare" THEN w.decoys ELSE w.decoys \cup {de}
             u   == Activated(w, s, p, ahead)
  <1>1. w.ships \in Fleets /\ w.tick \in Nat /\ w.clouds \in SUBSET Clouds /\ w.decoys \in SUBSET Decoys
    BY WorldFields
  <1>2. Sound(me, s) /\ me.place \in 0..Width /\ me.heading \in {-1, 1} /\ me.speed \in Nat
    BY <1>1, ShipOf, FieldsOf
  <1>3. end \in Nat
    BY <1>1, ConfigFacts
  <1>4. Width \in Nat
    BY BoundsFacts
  <1>5. Sound(f[s], s) /\ PoweredTo(f[s], me, p, w.tick)
    <2>1. f[s] = Powered(me, p, w.tick)
      OBVIOUS
    <2> HIDE DEF f, me
    <2> QED BY <1>1, <1>2, <2>1, PoweredType DEF me
  <1>6. ASSUME NEW x \in Ships \ {s}
        PROVE  /\ Sound(f[x], x) /\ SameButEmp(f[x], w.ships[x])
               /\ f[x].emp = w.ships[x].emp \/ (p = "emp_burst" /\ f[x].emp = end)
    <2>1. Sound(w.ships[x], x)
      BY <1>1, ShipOf
    <2>2. CASE p = "emp_burst" /\ InBurst(w, s, x)
      <3>1. f[x] = [w.ships[x] EXCEPT !.emp = Greatest(@, end)]
        BY <2>2
      <3> HIDE DEF f, end
      <3>2. Sound(f[x], x) /\ SameButEmp(f[x], w.ships[x]) /\ f[x].emp \in {w.ships[x].emp, end}
        BY <1>3, <2>1, <3>1, EmpType
      <3> QED BY <2>2, <3>2
    <2>3. CASE ~(p = "emp_burst" /\ InBurst(w, s, x))
      <3>1. f[x] = w.ships[x]
        BY <2>3
      <3> HIDE DEF f
      <3> QED BY <2>1, <3>1 DEF SameButEmp
    <2> QED BY <2>2, <2>3
  <1>7. f \in Fleets
    <2>1. DOMAIN f = Ships /\ f = [x \in Ships |-> f[x]]
      OBVIOUS
    <2> HIDE DEF f
    <2> QED BY <1>5, <1>6, <2>1, FleetOf
  <1>8. cl \in Clouds /\ cl.owner = s /\ cl.until = end
    <2>1. me.place \in Int
      BY <1>2, <1>4
    <2> HIDE DEF me, end
    <2> QED BY <1>3, <2>1 DEF Clouds
  <1>9. de \in Decoys /\ de.owner = s /\ de.until = end
    <2>1. me.place + me.heading * ahead \in Int /\ me.heading * me.speed \in Int
      BY <1>2, <1>4
    <2>2. Inside(me.place + me.heading * ahead) \in Int
      BY <1>4, <2>1, InsideType
    <2> HIDE DEF me, end
    <2> QED BY <1>3, <2>1, <2>2 DEF Decoys
  <1>10. u = [w EXCEPT !.ships = f, !.clouds = C, !.decoys = D]
    BY DEF Activated
  <1> HIDE DEF f, u, cl, de, end, me
  <1>11. /\ C = w.clouds \cup cs /\ cs \in SUBSET Clouds
         /\ \A c \in cs : p = "smoke_screen" /\ c.owner = s /\ c.until = end
         /\ p = "smoke_screen" => cs # {}
    BY <1>8
  <1>12. /\ D = w.decoys \cup ds /\ ds \in SUBSET Decoys
         /\ \A d \in ds : p = "decoy_flare" /\ d.owner = s /\ d.until = end
         /\ p = "decoy_flare" => ds # {}
    BY <1>9
  <1>13. C \in SUBSET Clouds /\ D \in SUBSET Decoys
    BY <1>1, <1>11, <1>12
  <1> HIDE DEF C, D, cs, ds
  <1>14. /\ u \in Worlds /\ u.ships = f /\ u.tick = w.tick /\ u.shells = w.shells
         /\ u.clouds = C /\ u.decoys = D
    BY <1>7, <1>10, <1>13 DEF Worlds
  <1>15. ActivatedTo(u, w, s, p)
    <2>1. PoweredTo(u.ships[s], w.ships[s], p, w.tick)
      BY <1>5, <1>14 DEF me
    <2>2. \A x \in Ships \ {s} :
            /\ SameButEmp(u.ships[x], w.ships[x])
            /\ \/ u.ships[x].emp = w.ships[x].emp
               \/ p = "emp_burst" /\ u.ships[x].emp = w.tick + Config.duration[p]
      BY <1>6, <1>14 DEF end
    <2>3. \E some \in SUBSET Clouds :
            /\ u.clouds = w.clouds \cup some
            /\ \A c \in some : p = "smoke_screen" /\ c.owner = s /\ c.until = w.tick + Config.duration[p]
            /\ p = "smoke_screen" => some # {}
      BY <1>11, <1>14 DEF end
    <2>4. \E some \in SUBSET Decoys :
            /\ u.decoys = w.decoys \cup some
            /\ \A d \in some : p = "decoy_flare" /\ d.owner = s /\ d.until = w.tick + Config.duration[p]
            /\ p = "decoy_flare" => some # {}
      BY <1>12, <1>14 DEF end
    <2> QED BY <1>14, <2>1, <2>2, <2>3, <2>4 DEF ActivatedTo
  <1> QED BY <1>14, <1>15 DEF u

LEMMA InductionTo ==
  ASSUME NEW N \in Nat, NEW T \in SUBSET (0..N), 0 \in T, \A n \in T : n < N => n + 1 \in T
  PROVE  N \in T
  <1> DEFINE U == {n \in Nat : n <= N => n \in T}
  <1>1. 0 \in U
    OBVIOUS
  <1>2. \A n \in U : n + 1 \in U
    OBVIOUS
  <1>3. U \in SUBSET Nat
    OBVIOUS
  <1>4. U = Nat
    <2> HIDE DEF U
    <2> QED BY <1>1, <1>2, <1>3, Induction
  <1> QED BY <1>4

\* The ships at the first n places of the roster.
First(n) == {Roster[i] : i \in 1..n}

LEMMA FirstIs ==
  /\ Len(Roster) \in Nat /\ First(0) = {} /\ First(Len(Roster)) = Ships
  /\ \A n \in 0..(Len(Roster) - 1) :
       /\ n + 1 \in 1..Len(Roster) /\ Roster[n + 1] \in Ships
       /\ Roster[n + 1] \notin First(n) /\ First(n + 1) = First(n) \cup {Roster[n + 1]}
       /\ First(n) \subseteq Ships
  <1>1. Len(Roster) \in Nat /\ DOMAIN Roster = 1..Len(Roster)
    BY RosterIsSeq
  <1>2. \A i, j \in 1..Len(Roster) : Roster[i] = Roster[j] => i = j
    BY <1>1, FleetAssumption DEF FleetValid
  <1>3. First(0) = {}
    BY DEF First
  <1>4. First(Len(Roster)) = Ships
    BY <1>1 DEF First, Ships
  <1>5. ASSUME NEW n \in 0..(Len(Roster) - 1)
        PROVE  /\ n + 1 \in 1..Len(Roster) /\ Roster[n + 1] \in Ships
               /\ Roster[n + 1] \notin First(n) /\ First(n + 1) = First(n) \cup {Roster[n + 1]}
               /\ First(n) \subseteq Ships
    <2>1. n + 1 \in 1..Len(Roster) /\ 1..(n + 1) = (1..n) \cup {n + 1} /\ n \in Nat
          /\ 1..n \subseteq 1..Len(Roster) /\ n + 1 \notin 1..n
      BY <1>1
    <2>2. Roster[n + 1] \in Ships /\ First(n) \subseteq Ships
      BY <1>1, <2>1 DEF Ships, First
    <2>3. Roster[n + 1] \notin First(n)
      BY <1>2, <2>1 DEF First
    <2>4. First(n + 1) = First(n) \cup {Roster[n + 1]}
      BY <2>1 DEF First
    <2> QED BY <2>1, <2>2, <2>3, <2>4
  <1> QED BY <1>1, <1>3, <1>4, <1>5

Pick(w, s, o) == w.ships[s].selected[o[s].slot]
Activates(w, s, o) ==
  /\ s \in DOMAIN o /\ o[s].slot \in DOMAIN w.ships[s].selected
  /\ w.ships[s].alive /\ Pick(w, s, o) \notin w.ships[s].used

LEMMA EmpoweredOneIs ==
  ASSUME NEW w, NEW s, NEW o, NEW ahead
  PROVE  EmpoweredOne(w, s, o, ahead)
           = IF Activates(w, s, o) THEN Activated(w, s, Pick(w, s, o), ahead[s]) ELSE w
  <1>1. CASE s \in DOMAIN o /\ o[s].slot \in DOMAIN w.ships[s].selected
    <2>1. Wanted(w, s, o) = {Pick(w, s, o)}
      BY <1>1 DEF Wanted, Pick
    <2>2. (CHOOSE p \in Wanted(w, s, o) : TRUE) = Pick(w, s, o)
      BY <2>1
    <2>3. (\E p \in Wanted(w, s, o) : CanActivate(w, s, p)) <=> Activates(w, s, o)
      BY <1>1, <2>1 DEF CanActivate, Activates, Pick
    <2> QED BY <2>2, <2>3 DEF EmpoweredOne
  <1>2. CASE ~(s \in DOMAIN o /\ o[s].slot \in DOMAIN w.ships[s].selected)
    <2>1. Wanted(w, s, o) = {} /\ ~Activates(w, s, o)
      BY <1>2 DEF Wanted, Activates
    <2> QED BY <2>1 DEF EmpoweredOne
  <1> QED BY <1>1, <1>2

\* The ships of some that activate p, and what they put in the world.
Chose(w, o, some, p) == {x \in some : Activates(w, x, o) /\ Pick(w, x, o) = p}
PutBy(there, before, w, o, some, p) ==
  /\ before \subseteq there
  /\ \A c \in there \ before :
       c.owner \in Chose(w, o, some, p) /\ c.until = w.tick + Config.duration[p]
  /\ \A x \in Chose(w, o, some, p) :
       \E c \in there : c.owner = x /\ c.until = w.tick + Config.duration[p]

EmpoweredTo(u, w, o, some) ==
  /\ u.tick = w.tick /\ u.shells = w.shells
  /\ \A s \in Ships :
       /\ IF s \in some /\ Activates(w, s, o)
          THEN PoweredButEmp(u.ships[s], w.ships[s], Pick(w, s, o), w.tick)
          ELSE SameButEmp(u.ships[s], w.ships[s])
       /\ \/ u.ships[s].emp = w.ships[s].emp
          \/ /\ Chose(w, o, some, "emp_burst") \ {s} # {}
             /\ u.ships[s].emp = w.tick + Config.duration["emp_burst"]
  /\ PutBy(u.clouds, w.clouds, w, o, some, "smoke_screen")
  /\ PutBy(u.decoys, w.decoys, w, o, some, "decoy_flare")

LEMMA PutMore ==
  ASSUME NEW w, NEW o, NEW some, NEW s, s \notin some, NEW p, NEW before, NEW mid,
         PutBy(mid, before, w, o, some, p),
         NEW new, NEW there, there = mid \cup new,
         \A c \in new : Activates(w, s, o) /\ Pick(w, s, o) = p /\ c.owner = s
                          /\ c.until = w.tick + Config.duration[p],
         Activates(w, s, o) /\ Pick(w, s, o) = p => new # {}
  PROVE  PutBy(there, before, w, o, some \cup {s}, p)
  <1>1. Chose(w, o, some, p) \subseteq Chose(w, o, some \cup {s}, p)
    BY DEF Chose
  <1>2. ASSUME NEW c \in there \ before
        PROVE  c.owner \in Chose(w, o, some \cup {s}, p) /\ c.until = w.tick + Config.duration[p]
    <2>1. CASE c \in mid
      BY <1>1, <2>1 DEF PutBy
    <2>2. CASE c \in new
      BY <2>2 DEF Chose
    <2> QED BY <2>1, <2>2
  <1>3. ASSUME NEW x \in Chose(w, o, some \cup {s}, p)
        PROVE  \E c \in there : c.owner = x /\ c.until = w.tick + Config.duration[p]
    <2>1. CASE x \in some
      <3>1. x \in Chose(w, o, some, p)
        BY <2>1 DEF Chose
      <3> QED BY <3>1 DEF PutBy
    <2>2. CASE x = s
      <3>1. new # {}
        BY <2>2 DEF Chose
      <3> QED BY <2>2, <3>1
    <2> QED BY <2>1, <2>2 DEF Chose
  <1> QED BY <1>2, <1>3 DEF PutBy

LEMMA PickType ==
  ASSUME NEW w \in Worlds, NEW s \in Ships, NEW o, Activates(w, s, o)
  PROVE  Pick(w, s, o) \in PowerupId
  <1>1. w.ships[s].selected \in Seq(PowerupId)
    BY WorldFields, ShipOf, FieldsOf
  <1> QED BY <1>1 DEF Activates, Pick

LEMMA EmpoweredOneType ==
  ASSUME NEW u \in Worlds, NEW s \in Ships, NEW o, NEW ahead \in [Ships -> Int]
  PROVE  /\ EmpoweredOne(u, s, o, ahead) \in Worlds
         /\ IF Activates(u, s, o)
            THEN ActivatedTo(EmpoweredOne(u, s, o, ahead), u, s, Pick(u, s, o))
            ELSE EmpoweredOne(u, s, o, ahead) = u
  <1>1. CASE Activates(u, s, o)
    <2>1. Pick(u, s, o) \in PowerupId
      BY <1>1, PickType
    <2>2. u.ships[s].alive
      BY <1>1 DEF Activates
    <2>3. ahead[s] \in Int
      OBVIOUS
    <2>4. EmpoweredOne(u, s, o, ahead) = Activated(u, s, Pick(u, s, o), ahead[s])
      BY <1>1, EmpoweredOneIs
    <2> QED BY <1>1, <2>1, <2>2, <2>3, <2>4, ActivatedType
  <1>2. CASE ~Activates(u, s, o)
    BY <1>2, EmpoweredOneIs
  <1> QED BY <1>1, <1>2

LEMMA EmpoweredStep ==
  ASSUME NEW w \in Worlds, NEW o, NEW some \in SUBSET Ships, NEW s \in Ships \ some,
         NEW u \in Worlds, EmpoweredTo(u, w, o, some), NEW ahead \in [Ships -> Int],
         NEW x, x = EmpoweredOne(u, s, o, ahead)
  PROVE  EmpoweredTo(x, w, o, some \cup {s})
  <1> DEFINE p == Pick(w, s, o)
             all == some \cup {s}
  <1>1. SameButEmp(u.ships[s], w.ships[s])
    BY DEF EmpoweredTo
  <1>2. Pick(u, s, o) = p /\ (Activates(u, s, o) <=> Activates(w, s, o)) /\ u.tick = w.tick
    BY <1>1 DEF SameButEmp, Pick, Activates, EmpoweredTo
  <1>3. Chose(w, o, some, "emp_burst") \subseteq Chose(w, o, all, "emp_burst")
    BY DEF Chose
  <1>4. CASE ~Activates(w, s, o)
    <2>1. x = u
      BY <1>2, <1>4, EmpoweredOneType
    <2>2. \A y \in Ships : y \in all /\ Activates(w, y, o) <=> y \in some /\ Activates(w, y, o)
      BY <1>4
    <2>3. /\ PutBy(u.clouds, w.clouds, w, o, all, "smoke_screen")
          /\ PutBy(u.decoys, w.decoys, w, o, all, "decoy_flare")
      <3>1. \A q : Chose(w, o, all, q) = Chose(w, o, some, q)
        BY <1>4 DEF Chose
      <3> QED BY <3>1 DEF PutBy, EmpoweredTo
    <2> QED BY <1>3, <2>1, <2>2, <2>3 DEF EmpoweredTo
  <1>5. CASE Activates(w, s, o)
    <2>1. ActivatedTo(x, u, s, p)
      BY <1>2, <1>5, EmpoweredOneType
    <2>2. x.tick = w.tick /\ x.shells = w.shells
      BY <2>1 DEF ActivatedTo, EmpoweredTo
    <2>3. PoweredButEmp(x.ships[s], w.ships[s], p, w.tick) /\ x.ships[s].emp = u.ships[s].emp
      BY <1>1, <1>2, <2>1 DEF ActivatedTo, PoweredTo, PoweredButEmp, SameButEmp
    <2>4. ASSUME NEW y \in Ships
          PROVE  IF y \in all /\ Activates(w, y, o)
                 THEN PoweredButEmp(x.ships[y], w.ships[y], Pick(w, y, o), w.tick)
                 ELSE SameButEmp(x.ships[y], w.ships[y])
      <3>1. CASE y = s
        BY <1>5, <2>3, <3>1
      <3>2. CASE y # s
        <4>1. SameButEmp(x.ships[y], u.ships[y])
          BY <2>1, <3>2 DEF ActivatedTo
        <4>2. CASE y \in some /\ Activates(w, y, o)
          <5>1. PoweredButEmp(u.ships[y], w.ships[y], Pick(w, y, o), w.tick)
            BY <4>2 DEF EmpoweredTo
          <5>2. PoweredButEmp(x.ships[y], w.ships[y], Pick(w, y, o), w.tick)
            BY <4>1, <5>1 DEF PoweredButEmp, SameButEmp
          <5> QED BY <4>2, <5>2
        <4>3. CASE ~(y \in some /\ Activates(w, y, o))
          <5>1. SameButEmp(u.ships[y], w.ships[y])
            BY <4>3 DEF EmpoweredTo
          <5>2. SameButEmp(x.ships[y], w.ships[y])
            BY <4>1, <5>1 DEF SameButEmp
          <5> QED BY <3>2, <4>3, <5>2
        <4> QED BY <4>2, <4>3
      <3> QED BY <3>1, <3>2
    <2>5. ASSUME NEW y \in Ships
          PROVE  \/ x.ships[y].emp = w.ships[y].emp
                 \/ /\ Chose(w, o, all, "emp_burst") \ {y} # {}
                    /\ x.ships[y].emp = w.tick + Config.duration["emp_burst"]
      <3>1. CASE x.ships[y].emp = u.ships[y].emp
        BY <1>3, <3>1 DEF EmpoweredTo
      <3>2. CASE x.ships[y].emp # u.ships[y].emp
        <4>1. y # s /\ p = "emp_burst" /\ x.ships[y].emp = u.tick + Config.duration[p]
          BY <2>1, <2>3, <3>2 DEF ActivatedTo
        <4>2. s \in Chose(w, o, all, "emp_burst")
          BY <1>5, <4>1 DEF Chose
        <4> QED BY <1>2, <4>1, <4>2
      <3> QED BY <3>1, <3>2
    <2>6. PutBy(x.clouds, w.clouds, w, o, all, "smoke_screen")
      <3>1. PICK new \in SUBSET Clouds :
              /\ x.clouds = u.clouds \cup new
              /\ \A c \in new : p = "smoke_screen" /\ c.owner = s /\ c.until = w.tick + Config.duration[p]
              /\ p = "smoke_screen" => new # {}
        BY <1>2, <2>1 DEF ActivatedTo
      <3>2. \A c \in new : Activates(w, s, o) /\ Pick(w, s, o) = "smoke_screen" /\ c.owner = s
                              /\ c.until = w.tick + Config.duration["smoke_screen"]
        BY <1>5, <3>1
      <3>3. PutBy(u.clouds, w.clouds, w, o, some, "smoke_screen")
        BY DEF EmpoweredTo
      <3> QED BY <3>1, <3>2, <3>3, PutMore
    <2>7. PutBy(x.decoys, w.decoys, w, o, all, "decoy_flare")
      <3>1. PICK new \in SUBSET Decoys :
              /\ x.decoys = u.decoys \cup new
              /\ \A c \in new : p = "decoy_flare" /\ c.owner = s /\ c.until = w.tick + Config.duration[p]
              /\ p = "decoy_flare" => new # {}
        BY <1>2, <2>1 DEF ActivatedTo
      <3>2. \A c \in new : Activates(w, s, o) /\ Pick(w, s, o) = "decoy_flare" /\ c.owner = s
                              /\ c.until = w.tick + Config.duration["decoy_flare"]
        BY <1>5, <3>1
      <3>3. PutBy(u.decoys, w.decoys, w, o, some, "decoy_flare")
        BY DEF EmpoweredTo
      <3> QED BY <3>1, <3>2, <3>3, PutMore
    <2> HIDE DEF p
    <2> QED BY <2>2, <2>4, <2>5, <2>6, <2>7 DEF EmpoweredTo
  <1> QED BY <1>4, <1>5

\* What the activations of a tick make of the world, whatever the number of ships.
LEMMA EmpoweredIs ==
  ASSUME NEW w \in Worlds, NEW o, NEW ahead \in [Ships -> Int]
  PROVE  /\ Empowered(w, o, Roster, ahead) \in Worlds
         /\ EmpoweredTo(Empowered(w, o, Roster, ahead), w, o, Ships)
  <1>1. \A u \in Worlds, s \in Ships : EmpoweredOne(u, s, o, ahead) \in Worlds
    BY EmpoweredOneType
  <1>a. PICK g \in [0..Len(Roster) -> Worlds] : EmpoweredRun(g, w, o, Roster, ahead)
    BY <1>1, EmpoweredGoes, RosterIsSeq
  <1>2. /\ g[0] = w /\ Empowered(w, o, Roster, ahead) = g[Len(Roster)]
        /\ \A i \in 1..Len(Roster) : g[i] = EmpoweredOne(g[i - 1], Roster[i], o, ahead)
    BY <1>a DEF EmpoweredRun
  <1> DEFINE T == {n \in 0..Len(Roster) : EmpoweredTo(g[n], w, o, First(n))}
  <1>3. 0 \in T
    <2>1. EmpoweredTo(w, w, o, {})
      BY DEF EmpoweredTo, SameButEmp, PutBy, Chose
    <2>2. 0 \in 0..Len(Roster) /\ First(0) = {}
      BY FirstIs
    <2> QED BY <1>2, <2>1, <2>2
  <1>4. ASSUME NEW n \in T, n < Len(Roster) PROVE n + 1 \in T
    <2>1. n \in 0..(Len(Roster) - 1) /\ n + 1 \in 0..Len(Roster) /\ (n + 1) - 1 = n /\ n \in 0..Len(Roster)
      BY <1>4, FirstIs
    <2>2. EmpoweredTo(g[n], w, o, First(n)) /\ g[n] \in Worlds
      BY <2>1
    <2>3. /\ n + 1 \in 1..Len(Roster) /\ Roster[n + 1] \in Ships \ First(n)
          /\ First(n + 1) = First(n) \cup {Roster[n + 1]} /\ First(n) \in SUBSET Ships
      BY <2>1, FirstIs
    <2>4. g[n + 1] = EmpoweredOne(g[n], Roster[n + 1], o, ahead)
      BY <1>2, <2>1, <2>3
    <2>5. EmpoweredTo(g[n + 1], w, o, First(n + 1))
      BY <2>2, <2>3, <2>4, EmpoweredStep
    <2> QED BY <2>1, <2>5
  <1>5. Len(Roster) \in T
    <2> HIDE DEF T
    <2>1. T \in SUBSET (0..Len(Roster))
      BY DEF T
    <2> QED BY <1>3, <1>4, <2>1, FirstIs, InductionTo
  <1> QED BY <1>2, <1>5, FirstIs

-----------------------------------------------------------------------------
(* Shots. *)

LEMMA FleetIsFinite ==
  /\ IsFiniteSet(Ships) /\ Cardinality(Ships) = Len(Roster)
  <1> DEFINE T == {n \in 0..Len(Roster) : IsFiniteSet(First(n)) /\ Cardinality(First(n)) = n}
  <1>1. 0 \in T
    BY FirstIs, FS_EmptySet
  <1>2. ASSUME NEW n \in T, n < Len(Roster) PROVE n + 1 \in T
    <2>1. n \in 0..(Len(Roster) - 1) /\ n + 1 \in 0..Len(Roster)
      BY <1>2, FirstIs
    <2>2. Roster[n + 1] \notin First(n) /\ First(n + 1) = First(n) \cup {Roster[n + 1]}
      BY <2>1, FirstIs
    <2>3. IsFiniteSet(First(n)) /\ Cardinality(First(n)) = n
      OBVIOUS
    <2>4. IsFiniteSet(First(n + 1)) /\ Cardinality(First(n + 1)) = n + 1
      BY <2>2, <2>3, FS_AddElement
    <2> QED BY <2>1, <2>4
  <1>3. Len(Roster) \in T
    <2> HIDE DEF T
    <2>1. T \in SUBSET (0..Len(Roster))
      BY DEF T
    <2> QED BY <1>1, <1>2, <2>1, FirstIs, InductionTo
  <1> QED BY <1>3, FirstIs

Shoots(w, s, o) == s \in DOMAIN o /\ o[s].fire # {} /\ CanFire(w, s)

FiredTo(u, w, s) ==
  /\ u.tick = w.tick /\ u.clouds = w.clouds /\ u.decoys = w.decoys
  /\ \A x \in Ships \ {s} : u.ships[x] = w.ships[x]
  /\ RecoiledTo(u.ships[s], w.ships[s], w.tick)
  /\ Len(u.shells) = Len(w.shells) + 1

LEMMA FiredType ==
  ASSUME NEW w \in Worlds, NEW s \in Ships, NEW aim \in Int, w.ships[s].ammo > 0
  PROVE  Fired(w, s, aim) \in Worlds /\ FiredTo(Fired(w, s, aim), w, s)
  <1> DEFINE v  == w.ships[s]
             sh == Shell(v, s, aim, w.tick)
             ss == Append(w.shells, sh)
             r  == Recoiled(v, w.tick)
             f  == [w.ships EXCEPT ![s] = r]
             u  == Fired(w, s, aim)
  <1>1. w.ships \in Fleets /\ w.tick \in Nat /\ w.shells \in Seq(Shells) /\ Sound(v, s)
    BY WorldFields, ShipOf
  <1>2. sh \in Shells
    BY <1>1, ShellType
  <1>3. ss \in Seq(Shells) /\ Len(ss) = Len(w.shells) + 1
    BY <1>1, <1>2
  <1>4. Sound(r, s) /\ RecoiledTo(r, v, w.tick)
    BY <1>1, RecoiledType
  <1> HIDE DEF r
  <1>5. DOMAIN w.ships = Ships /\ w.ships \in [Ships -> Vessels]
    BY <1>1 DEF Fleets
  <1>6. f \in [Ships -> Vessels] /\ f[s] = r /\ \A x \in Ships \ {s} : f[x] = w.ships[x]
    BY <1>4, <1>5 DEF Sound
  <1>7. f \in Fleets
    BY <1>1, <1>4, <1>6 DEF Fleets
  <1>8. u = [w EXCEPT !.shells = ss, !.ships = f]
    BY DEF Fired, r, Worlds
  <1> HIDE DEF ss, f, u, sh
  <1>9. /\ u \in Worlds /\ u.tick = w.tick /\ u.clouds = w.clouds /\ u.decoys = w.decoys
        /\ u.shells = ss /\ u.ships = f
    BY <1>3, <1>7, <1>8 DEF Worlds
  <1>10. FiredTo(u, w, s)
    BY <1>3, <1>4, <1>6, <1>9 DEF FiredTo
  <1> QED BY <1>9, <1>10 DEF u

LEMMA ShotOneType ==
  ASSUME NEW w \in Worlds, NEW s \in Ships, NEW o, Orderly(o)
  PROVE  /\ ShotOne(w, s, o) \in Worlds
         /\ IF Shoots(w, s, o) THEN FiredTo(ShotOne(w, s, o), w, s) ELSE ShotOne(w, s, o) = w
  <1>1. CASE Shoots(w, s, o)
    <2> DEFINE aim == CHOOSE a \in o[s].fire : TRUE
    <2>1. o[s].fire # {} /\ o[s].fire \in SUBSET Int
      BY <1>1 DEF Shoots, Orderly, Order
    <2>2. aim \in Int
      BY <2>1
    <2>3. w.ships[s].ammo > 0
      BY <1>1 DEF Shoots, CanFire
    <2>4. ShotOne(w, s, o) = Fired(w, s, aim)
      BY <1>1 DEF ShotOne, Shoots
    <2> HIDE DEF aim
    <2> QED BY <1>1, <2>2, <2>3, <2>4, FiredType
  <1>2. CASE ~Shoots(w, s, o)
    BY <1>2 DEF ShotOne, Shoots
  <1> QED BY <1>1, <1>2

ShotTo(u, w, o, some) ==
  /\ u.tick = w.tick /\ u.clouds = w.clouds /\ u.decoys = w.decoys
  /\ \A s \in Ships : IF s \in some /\ Shoots(w, s, o)
                      THEN RecoiledTo(u.ships[s], w.ships[s], w.tick)
                      ELSE u.ships[s] = w.ships[s]
  /\ Len(u.shells) = Len(w.shells) + Cardinality({s \in some : Shoots(w, s, o)})

LEMMA ShotStep ==
  ASSUME NEW w \in Worlds, NEW o, Orderly(o), NEW some \in SUBSET Ships, NEW s \in Ships \ some,
         NEW u \in Worlds, ShotTo(u, w, o, some), NEW x, x = ShotOne(u, s, o)
  PROVE  ShotTo(x, w, o, some \cup {s})
  <1> DEFINE who(all) == {y \in all : Shoots(w, y, o)}
             all == some \cup {s}
  <1>1. u.ships[s] = w.ships[s] /\ u.tick = w.tick
    BY DEF ShotTo
  <1>2. Shoots(u, s, o) <=> Shoots(w, s, o)
    BY <1>1 DEF Shoots, CanFire
  <1>3. IsFiniteSet(who(some)) /\ s \notin who(some)
    BY FleetIsFinite, FS_Subset
  <1>4. CASE ~Shoots(w, s, o)
    <2>1. x = u /\ who(all) = who(some)
      BY <1>2, <1>4, ShotOneType
    <2> QED BY <1>4, <2>1 DEF ShotTo
  <1>5. CASE Shoots(w, s, o)
    <2>1. FiredTo(x, u, s)
      BY <1>2, <1>5, ShotOneType
    <2>2. who(all) = who(some) \cup {s}
      BY <1>5
    <2>3. Cardinality(who(all)) = Cardinality(who(some)) + 1 /\ Cardinality(who(some)) \in Nat
      BY <1>3, <2>2, FS_AddElement, FS_CardinalityType
    <2>4. Len(w.shells) \in Nat /\ Len(u.shells) = Len(w.shells) + Cardinality(who(some))
      BY WorldFields DEF ShotTo
    <2>5. Len(x.shells) = Len(w.shells) + Cardinality(who(all))
      BY <2>1, <2>3, <2>4 DEF FiredTo
    <2>6. ASSUME NEW y \in Ships
          PROVE  IF y \in all /\ Shoots(w, y, o)
                 THEN RecoiledTo(x.ships[y], w.ships[y], w.tick) ELSE x.ships[y] = w.ships[y]
      <3>1. CASE y = s
        BY <1>1, <1>5, <2>1, <3>1 DEF FiredTo
      <3>2. CASE y # s
        BY <2>1, <3>2 DEF FiredTo, ShotTo
      <3> QED BY <3>1, <3>2
    <2>7. x.tick = w.tick /\ x.clouds = w.clouds /\ x.decoys = w.decoys
      BY <2>1 DEF FiredTo, ShotTo
    <2> QED BY <2>5, <2>6, <2>7 DEF ShotTo
  <1> QED BY <1>4, <1>5

\* What the shots of a tick make of the world.
LEMMA ShotIs ==
  ASSUME NEW w \in Worlds, NEW o, Orderly(o)
  PROVE  Shot(w, o, Roster) \in Worlds /\ ShotTo(Shot(w, o, Roster), w, o, Ships)
  <1>1. \A u \in Worlds, s \in Ships : ShotOne(u, s, o) \in Worlds
    BY ShotOneType
  <1>2. PICK g \in [0..Len(Roster) -> Worlds] : ShotRun(g, w, o, Roster)
    BY <1>1, ShotGoes, RosterIsSeq
  <1>3. /\ g[0] = w /\ Shot(w, o, Roster) = g[Len(Roster)]
        /\ \A i \in 1..Len(Roster) : g[i] = ShotOne(g[i - 1], Roster[i], o)
    BY <1>2 DEF ShotRun
  <1> DEFINE T == {n \in 0..Len(Roster) : ShotTo(g[n], w, o, First(n))}
  <1>4. 0 \in T
    <2>1. {s \in {} : Shoots(w, s, o)} = {} /\ Len(w.shells) \in Nat
      BY WorldFields
    <2>2. ShotTo(w, w, o, {})
      BY <2>1, FS_EmptySet DEF ShotTo
    <2>3. 0 \in 0..Len(Roster) /\ First(0) = {}
      BY FirstIs
    <2> QED BY <1>3, <2>2, <2>3
  <1>5. ASSUME NEW n \in T, n < Len(Roster) PROVE n + 1 \in T
    <2>1. n \in 0..(Len(Roster) - 1) /\ n + 1 \in 0..Len(Roster) /\ (n + 1) - 1 = n /\ n \in 0..Len(Roster)
      BY <1>5, FirstIs
    <2>2. ShotTo(g[n], w, o, First(n)) /\ g[n] \in Worlds
      BY <2>1
    <2>3. /\ n + 1 \in 1..Len(Roster) /\ Roster[n + 1] \in Ships \ First(n)
          /\ First(n + 1) = First(n) \cup {Roster[n + 1]} /\ First(n) \in SUBSET Ships
      BY <2>1, FirstIs
    <2>4. g[n + 1] = ShotOne(g[n], Roster[n + 1], o)
      BY <1>3, <2>1, <2>3
    <2>5. ShotTo(g[n + 1], w, o, First(n + 1))
      BY <2>2, <2>3, <2>4, ShotStep
    <2> QED BY <2>1, <2>5
  <1>6. Len(Roster) \in T
    <2> HIDE DEF T
    <2>1. T \in SUBSET (0..Len(Roster))
      BY DEF T
    <2> QED BY <1>4, <1>5, <2>1, FirstIs, InductionTo
  <1> QED BY <1>3, <1>6, FirstIs

-----------------------------------------------------------------------------
(* The barrage: what shells that go off make of the ships. *)

Hits == [ship : Ships, by : Ships, sunk : BOOLEAN, amount : Nat \ {0}]
Dones == [flying : Seq(Shells), ships : Fleets, hits : Seq(Hits)]

\* The hits on a ship by others, and the hits that sank a ship.
HitsBy(hits, s) == {i \in DOMAIN hits : hits[i].ship = s /\ hits[i].by # s}
Sinking(hits) == {i \in DOMAIN hits : hits[i].sunk}

\* What a barrage has made of a ship that was v at its start.
BarragedTo(u, v, s, hits, t) ==
  /\ u.place = v.place /\ u.heading = v.heading /\ u.course = v.course /\ u.speed = v.speed
  /\ u.ammo = v.ammo /\ u.cooldown = v.cooldown /\ u.selected = v.selected
  /\ u.used = v.used /\ u.until = v.until /\ u.emp = v.emp
  /\ u.alive => v.alive
  /\ ~v.alive => u.hp = v.hp
  /\ (\A i \in DOMAIN hits : hits[i].ship # s) => u = v
  /\ IF ActiveAt(v, "counter_battery_trace", t) /\ HitsBy(hits, s) # {}
     THEN /\ u.reveal = t + Config.reveal
          /\ \E i \in HitsBy(hits, s) : /\ \A k \in HitsBy(hits, s) : k <= i
                                        /\ u.attacker = {hits[i].by}
     ELSE u.reveal = v.reveal /\ u.attacker = v.attacker

Barraged(d, f, t) ==
  /\ \A i \in DOMAIN d.flying : d.flying[i].ttl > 0
  /\ \A s \in Ships : BarragedTo(d.ships[s], f[s], s, d.hits, t)
  /\ Cardinality({s \in Ships : f[s].alive /\ ~d.ships[s].alive}) = Cardinality(Sinking(d.hits))

HitAdded(more, hits, h, n) ==
  /\ n = Len(hits) + 1 /\ Len(more) = n /\ n \in Nat /\ n \notin DOMAIN hits
  /\ \A i \in DOMAIN hits : more[i] = hits[i] /\ i \in Nat /\ i < n
  /\ DOMAIN more = DOMAIN hits \cup {n} /\ more[n] = h
  /\ \A s \in Ships : HitsBy(more, s) = HitsBy(hits, s) \cup IF h.ship = s /\ h.by # s THEN {n} ELSE {}
  /\ Sinking(more) = Sinking(hits) \cup IF h.sunk THEN {n} ELSE {}

LEMMA HitsAppend ==
  ASSUME NEW hits \in Seq(Hits), NEW h \in Hits, NEW more, more = Append(hits, h)
  PROVE  HitAdded(more, hits, h, Len(hits) + 1)
  <1>1. Len(hits) \in Nat /\ DOMAIN hits = 1..Len(hits)
    OBVIOUS
  <1>2. /\ more \in Seq(Hits) /\ Len(more) = Len(hits) + 1
        /\ \A i \in 1..Len(hits) : more[i] = hits[i]
        /\ DOMAIN more = 1..(Len(hits) + 1) /\ more[Len(hits) + 1] = h
    OBVIOUS
  <1>3. 1..(Len(hits) + 1) = (1..Len(hits)) \cup {Len(hits) + 1} /\ Len(hits) + 1 \notin 1..Len(hits)
    BY <1>1
  <1>4. ASSUME NEW s \in Ships
        PROVE  HitsBy(more, s) = HitsBy(hits, s) \cup IF h.ship = s /\ h.by # s THEN {Len(hits) + 1} ELSE {}
    BY <1>1, <1>2, <1>3 DEF HitsBy
  <1>5. Sinking(more) = Sinking(hits) \cup IF h.sunk THEN {Len(hits) + 1} ELSE {}
    BY <1>1, <1>2, <1>3 DEF Sinking
  <1> QED BY <1>1, <1>2, <1>3, <1>4, <1>5 DEF HitAdded

LEMMA SinkingIsFinite ==
  ASSUME NEW hits \in Seq(Hits)
  PROVE  IsFiniteSet(Sinking(hits)) /\ Cardinality(Sinking(hits)) \in Nat
  <1>1. DOMAIN hits = 1..Len(hits) /\ Len(hits) \in Nat
    OBVIOUS
  <1>2. IsFiniteSet(1..Len(hits))
    BY <1>1, FS_Interval
  <1>3. Sinking(hits) \in SUBSET (1..Len(hits))
    BY <1>1 DEF Sinking
  <1> QED BY <1>2, <1>3, FS_Subset, FS_CardinalityType

LEMMA SplashedType ==
  ASSUME NEW d \in Dones, NEW s \in Ships, NEW shell \in Shells, NEW t \in Nat,
         NEW x, x = Splashed(d, s, shell, t), Reached(d.ships[s], shell, t)
  PROVE  /\ x \in Dones /\ x.flying = d.flying
         /\ \A y \in Ships \ {s} : x.ships[y] = d.ships[y]
         /\ StruckTo(x.ships[s], d.ships[s], s, shell, t) /\ d.ships[s].alive
         /\ \E h \in Hits : /\ h.ship = s /\ h.by = shell.by /\ h.sunk = ~x.ships[s].alive
                            /\ x.hits = Append(d.hits, h)
  <1> DEFINE v == d.ships[s]
             a == Struck(v, s, shell, t)
             h == [ship |-> s, by |-> shell.by, sunk |-> ~a.alive, amount |-> SplashDamage(v, shell, t)]
             f == [d.ships EXCEPT ![s] = a]
             m == Append(d.hits, h)
  <1>1. d.ships \in Fleets /\ d.hits \in Seq(Hits) /\ d.flying \in Seq(Shells)
    BY DEF Dones
  <1>2. Sound(v, s) /\ v.alive
    BY <1>1, ShipOf DEF Reached
  <1>3. Sound(a, s) /\ StruckTo(a, v, s, shell, t) /\ a.alive \in BOOLEAN
    BY <1>2, StruckType, FieldsOf
  <1>4. SplashDamage(v, shell, t) \in Nat \ {0}
    BY <1>2, DamageType DEF Reached
  <1>5. h \in Hits /\ h.ship = s /\ h.by = shell.by /\ h.sunk = ~a.alive
    <2> HIDE DEF a, v
    <2> QED BY <1>3, <1>4 DEF Hits, Shells
  <1>6. x = [d EXCEPT !.ships = f, !.hits = m]
    BY DEF Splashed, Dones
  <1> HIDE DEF a, h
  <1>7. f \in [Ships -> Vessels] /\ f[s] = a /\ \A y \in Ships \ {s} : f[y] = d.ships[y]
    BY <1>1, <1>3 DEF Fleets, Sound
  <1>8. f \in Fleets
    BY <1>1, <1>3, <1>7 DEF Fleets
  <1>9. m \in Seq(Hits)
    BY <1>1, <1>5
  <1> HIDE DEF f, m
  <1>10. x \in Dones /\ x.flying = d.flying /\ x.ships = f /\ x.hits = m
    BY <1>6, <1>8, <1>9 DEF Dones
  <1> QED BY <1>2, <1>3, <1>5, <1>7, <1>10 DEF m

LEMMA SplashedStep ==
  ASSUME NEW f \in Fleets, NEW d \in Dones, NEW s \in Ships, NEW shell \in Shells, NEW t \in Nat,
         Barraged(d, f, t), NEW x, x = Splashed(d, s, shell, t)
  PROVE  /\ x \in Dones /\ Barraged(x, f, t) /\ x.flying = d.flying
         /\ Len(x.hits) \in {Len(d.hits), Len(d.hits) + 1}
  <1>1. CASE ~Reached(d.ships[s], shell, t)
    BY <1>1 DEF Splashed
  <1>2. CASE Reached(d.ships[s], shell, t)
    <2>1. /\ x \in Dones /\ x.flying = d.flying
          /\ \A y \in Ships \ {s} : x.ships[y] = d.ships[y]
          /\ StruckTo(x.ships[s], d.ships[s], s, shell, t) /\ d.ships[s].alive
      BY <1>2, SplashedType
    <2>2. PICK h \in Hits : /\ h.ship = s /\ h.by = shell.by /\ h.sunk = ~x.ships[s].alive
                            /\ x.hits = Append(d.hits, h)
      BY <1>2, SplashedType
    <2> DEFINE n == Len(d.hits) + 1
    <2>3. d.hits \in Seq(Hits)
      BY DEF Dones
    <2>a. HitAdded(x.hits, d.hits, h, n)
      BY <2>2, <2>3, HitsAppend
    <2>4. /\ Len(x.hits) = Len(d.hits) + 1
          /\ \A i \in DOMAIN d.hits : x.hits[i] = d.hits[i]
          /\ DOMAIN x.hits = DOMAIN d.hits \cup {n} /\ x.hits[n] = h
          /\ \A i \in DOMAIN d.hits : i \in Nat /\ i < n
          /\ n \in Nat /\ n \notin DOMAIN d.hits
      BY <2>a DEF HitAdded
    <2> HIDE DEF n
    <2>5. ASSUME NEW y \in Ships
          PROVE  HitsBy(x.hits, y) = HitsBy(d.hits, y) \cup IF h.ship = y /\ h.by # y THEN {n} ELSE {}
      BY <2>a DEF HitAdded
    <2>6. Sinking(x.hits) = Sinking(d.hits) \cup IF h.sunk THEN {n} ELSE {}
      BY <2>a DEF HitAdded
    <2>7. ASSUME NEW y \in Ships
          PROVE  BarragedTo(x.ships[y], f[y], y, x.hits, t)
      <3>0. BarragedTo(d.ships[y], f[y], y, d.hits, t)
        BY DEF Barraged
      <3>1. CASE y # s
        <4>1. x.ships[y] = d.ships[y] /\ HitsBy(x.hits, y) = HitsBy(d.hits, y)
          BY <2>1, <2>2, <2>5, <3>1
        <4>2. \A i \in HitsBy(d.hits, y) : x.hits[i].by = d.hits[i].by
          BY <2>4 DEF HitsBy
        <4>3. (\A i \in DOMAIN x.hits : x.hits[i].ship # y) => \A i \in DOMAIN d.hits : d.hits[i].ship # y
          BY <2>4
        <4> QED BY <3>0, <4>1, <4>2, <4>3 DEF BarragedTo
      <3>2. CASE y = s
        <4>1. n \in DOMAIN x.hits /\ x.hits[n].ship = y
          BY <2>2, <2>4, <3>2
        <4>2. /\ ActiveAt(d.ships[y], "counter_battery_trace", t)
                   <=> ActiveAt(f[y], "counter_battery_trace", t)
              /\ f[y].alive
          BY <2>1, <3>0, <3>2 DEF BarragedTo, ActiveAt
        <4>3. StruckTo(x.ships[y], d.ships[y], y, shell, t) /\ h.by = shell.by /\ h.ship = y
          BY <2>1, <2>2, <3>2
        <4>4. CASE ActiveAt(f[y], "counter_battery_trace", t) /\ h.by # y
          <5>1. n \in HitsBy(x.hits, y) /\ \A k \in HitsBy(x.hits, y) : k <= n
            BY <2>4, <2>5, <4>3, <4>4 DEF HitsBy
          <5>2. x.ships[y].attacker = {x.hits[n].by} /\ x.ships[y].reveal = t + Config.reveal
            BY <2>4, <4>2, <4>3, <4>4 DEF StruckTo, Traced
          <5> QED BY <3>0, <4>1, <4>2, <4>3, <4>4, <5>1, <5>2 DEF BarragedTo, StruckTo
        <4>5. CASE ~(ActiveAt(f[y], "counter_battery_trace", t) /\ h.by # y)
          <5>1. x.ships[y].attacker = d.ships[y].attacker /\ x.ships[y].reveal = d.ships[y].reveal
            BY <4>2, <4>3, <4>5 DEF StruckTo, Traced
          <5>2. ActiveAt(f[y], "counter_battery_trace", t) => HitsBy(x.hits, y) = HitsBy(d.hits, y)
            BY <2>5, <4>5
          <5>3. \A i \in HitsBy(d.hits, y) : x.hits[i].by = d.hits[i].by
            BY <2>4 DEF HitsBy
          <5> QED BY <3>0, <4>1, <4>2, <4>3, <5>1, <5>2, <5>3 DEF BarragedTo, StruckTo
        <4> QED BY <4>4, <4>5
      <3> QED BY <3>1, <3>2
    <2>8. Cardinality({y \in Ships : f[y].alive /\ ~x.ships[y].alive}) = Cardinality(Sinking(x.hits))
      <3> DEFINE dead(e) == {y \in Ships : f[y].alive /\ ~e.ships[y].alive}
      <3>1. f[s].alive /\ s \notin dead(d) /\ IsFiniteSet(dead(d))
        <4>1. BarragedTo(d.ships[s], f[s], s, d.hits, t)
          BY DEF Barraged
        <4>2. dead(d) \in SUBSET Ships
          OBVIOUS
        <4>3. IsFiniteSet(dead(d))
          BY <4>2, FleetIsFinite, FS_Subset
        <4> QED BY <2>1, <4>1, <4>3 DEF BarragedTo
      <3>2. dead(x) = dead(d) \cup IF h.sunk THEN {s} ELSE {}
        BY <2>1, <2>2, <3>1
      <3>3. IsFiniteSet(Sinking(d.hits)) /\ n \notin Sinking(d.hits)
        BY <2>3, <2>4, SinkingIsFinite DEF Sinking
      <3>4. Cardinality(dead(d)) = Cardinality(Sinking(d.hits))
        BY DEF Barraged
      <3>5. CASE h.sunk
        <4>1. dead(x) = dead(d) \cup {s} /\ Sinking(x.hits) = Sinking(d.hits) \cup {n}
          BY <2>6, <3>2, <3>5
        <4>2. Cardinality(dead(x)) = Cardinality(dead(d)) + 1
          BY <3>1, <4>1, FS_AddElement
        <4>3. Cardinality(Sinking(x.hits)) = Cardinality(Sinking(d.hits)) + 1
          BY <3>3, <4>1, FS_AddElement
        <4> QED BY <3>4, <4>2, <4>3
      <3>6. CASE ~h.sunk
        BY <2>6, <3>2, <3>4, <3>6
      <3> QED BY <3>5, <3>6
    <2>9. \A i \in DOMAIN x.flying : x.flying[i].ttl > 0
      BY <2>1 DEF Barraged
    <2> QED BY <2>1, <2>4, <2>7, <2>8, <2>9 DEF Barraged
  <1> QED BY <1>1, <1>2

LEMMA BurstIs ==
  ASSUME NEW f \in Fleets, NEW done \in Dones, NEW shell \in Shells, NEW t \in Nat,
         Barraged(done, f, t), NEW x, x = Burst(done, shell, t)
  PROVE  /\ x \in Dones /\ Barraged(x, f, t) /\ x.flying = done.flying
         /\ Len(x.hits) <= Len(done.hits) + Len(Roster)
  <1> DEFINE S == {d \in Dones : Barraged(d, f, t) /\ d.flying = done.flying}
  <1>1. \A d \in S, s \in Ships : /\ Splashed(d, s, shell, t) \in S
                                  /\ Len(Splashed(d, s, shell, t).hits) \in {Len(d.hits), Len(d.hits) + 1}
    BY SplashedStep
  <1>2. PICK g \in [0..Len(Roster) -> S] : BurstRun(g, done, shell, t)
    <2>1. done \in S
      OBVIOUS
    <2> HIDE DEF S
    <2> QED BY <1>1, <2>1, BurstGoes
  <1>3. /\ g[0] = done /\ x = g[Len(Roster)]
        /\ \A i \in 1..Len(Roster) : g[i] = Splashed(g[i - 1], Roster[i], shell, t)
    BY <1>2 DEF BurstRun
  <1>4. \A d \in S : d \in Dones /\ Len(d.hits) \in Nat
    BY DEF Dones
  <1> DEFINE T == {n \in 0..Len(Roster) : Len(g[n].hits) <= Len(done.hits) + n}
  <1>5. 0 \in T
    <2>1. 0 \in 0..Len(Roster) /\ Len(done.hits) \in Nat
      BY FirstIs DEF Dones
    <2> QED BY <1>3, <2>1
  <1>6. ASSUME NEW n \in T, n < Len(Roster) PROVE n + 1 \in T
    <2>1. n \in 0..(Len(Roster) - 1) /\ n + 1 \in 0..Len(Roster) /\ (n + 1) - 1 = n /\ n \in 0..Len(Roster)
      BY <1>6, FirstIs
    <2>2. n + 1 \in 1..Len(Roster) /\ Roster[n + 1] \in Ships
      BY <2>1, FirstIs
    <2>3. g[n + 1] = Splashed(g[n], Roster[n + 1], shell, t) /\ g[n] \in S
      BY <1>3, <2>1, <2>2
    <2>4. Len(g[n + 1].hits) \in {Len(g[n].hits), Len(g[n].hits) + 1} /\ Len(g[n].hits) \in Nat
      <3> HIDE DEF S
      <3> QED BY <1>1, <1>4, <2>2, <2>3
    <2>5. Len(done.hits) \in Nat /\ Len(g[n].hits) <= Len(done.hits) + n /\ n \in Nat
      BY <2>1, FirstIs DEF Dones
    <2>6. Len(g[n + 1].hits) <= Len(done.hits) + (n + 1)
      <3> DEFINE a == Len(g[n].hits)
                 b == Len(g[n + 1].hits)
                 c == Len(done.hits)
      <3>1. a \in Nat /\ b \in {a, a + 1} /\ c \in Nat /\ n \in Nat /\ a <= c + n
        BY <2>4, <2>5
      <3> HIDE DEF a, b, c
      <3>2. b <= c + (n + 1)
        BY <3>1
      <3> QED BY <3>2 DEF b, c
    <2> QED BY <2>1, <2>6
  <1>7. Len(Roster) \in T
    <2> HIDE DEF T
    <2>1. T \in SUBSET (0..Len(Roster))
      BY DEF T
    <2> QED BY <1>5, <1>6, <2>1, FirstIs, InductionTo
  <1>8. x \in S
    <2> HIDE DEF S
    <2>1. Len(Roster) \in 0..Len(Roster)
      BY FirstIs
    <2> QED BY <1>3, <2>1
  <1> QED BY <1>3, <1>7, <1>8

LEMMA TimesMore ==
  ASSUME NEW n \in Nat, NEW i \in Int, NEW k \in Int
  PROVE  n * ((i + 1) - k) = n * (i - k) + n /\ n * ((i + 1) - (k + 1)) = n * (i - k)
  BY SMT

LEMMA ShellSteppedIs ==
  ASSUME NEW f \in Fleets, NEW done \in Dones, NEW shell \in Shells, NEW t \in Nat,
         Barraged(done, f, t), NEW x, x = ShellStepped(done, shell, t)
  PROVE  /\ x \in Dones /\ Barraged(x, f, t)
         /\ \/ Len(x.flying) = Len(done.flying) + 1 /\ x.hits = done.hits
            \/ x.flying = done.flying /\ Len(x.hits) <= Len(done.hits) + Len(Roster)
  <1>1. Flown(shell) \in Shells
    BY FlownType
  <1>2. CASE Flown(shell).ttl > 0
    <2> DEFINE fl == Append(done.flying, Flown(shell))
    <2>1. x = [done EXCEPT !.flying = fl]
      BY <1>2 DEF ShellStepped
    <2>2. fl \in Seq(Shells) /\ Len(fl) = Len(done.flying) + 1 /\ \A i \in DOMAIN fl : fl[i].ttl > 0
      <3>1. done.flying \in Seq(Shells) /\ \A i \in DOMAIN done.flying : done.flying[i].ttl > 0
        BY DEF Dones, Barraged
      <3>2. Len(done.flying) \in Nat /\ DOMAIN done.flying = 1..Len(done.flying)
        BY <3>1
      <3>3. fl \in Seq(Shells) /\ Len(fl) = Len(done.flying) + 1 /\ DOMAIN fl = 1..Len(fl)
        BY <1>1, <3>1
      <3>4. ASSUME NEW i \in DOMAIN fl PROVE fl[i].ttl > 0
        <4>1. CASE i = Len(fl)
          <5>1. fl[Len(fl)] = Flown(shell)
            BY <1>1, <3>1, <3>3
          <5> HIDE DEF fl
          <5> QED BY <1>2, <4>1, <5>1
        <4>2. CASE i # Len(fl)
          <5>1. i \in 1..Len(done.flying)
            BY <3>2, <3>3, <4>2
          <5>2. fl[i] = done.flying[i]
            BY <1>1, <3>1, <5>1
          <5> HIDE DEF fl
          <5> QED BY <3>1, <3>2, <5>1, <5>2
        <4> QED BY <4>1, <4>2
      <3> QED BY <3>3, <3>4
    <2> HIDE DEF fl
    <2>3. x \in Dones /\ x.flying = fl /\ x.ships = done.ships /\ x.hits = done.hits
      BY <2>1, <2>2 DEF Dones
    <2>4. Barraged(x, f, t)
      BY <2>2, <2>3 DEF Barraged
    <2> QED BY <2>2, <2>3, <2>4
  <1>3. CASE ~(Flown(shell).ttl > 0)
    <2>1. x = Burst(done, Flown(shell), t)
      BY <1>3 DEF ShellStepped
    <2> QED BY <1>1, <2>1, BurstIs
  <1> QED BY <1>2, <1>3

\* What the shells of a tick make of the ships, whatever the number of either.
LEMMA ShellsSteppedIs ==
  ASSUME NEW w \in Worlds, NEW x, x = ShellsStepped(w)
  PROVE  /\ x \in Dones /\ Barraged(x, w.ships, w.tick)
         /\ Len(x.hits) <= Len(Roster) * (Len(w.shells) - Len(x.flying))
  <1> DEFINE t == w.tick
             f == w.ships
             N == Len(w.shells)
             none == [flying |-> <<>>, ships |-> w.ships, hits |-> <<>>]
             S == {d \in Dones : Barraged(d, f, t)}
  <1>1. t \in Nat /\ f \in Fleets /\ w.shells \in Seq(Shells) /\ N \in Nat
    BY WorldFields
  <1>2. none \in S
    <2>1. none \in Dones
      BY <1>1 DEF Dones
    <2>2. \A s \in Ships : BarragedTo(f[s], f[s], s, <<>>, t)
      BY DEF BarragedTo, HitsBy
    <2>3. {s \in Ships : f[s].alive /\ ~none.ships[s].alive} = {} /\ Sinking(none.hits) = {}
      BY DEF Sinking
    <2>a. none.flying = <<>> /\ none.ships = f /\ none.hits = <<>> /\ DOMAIN none.flying = {}
      OBVIOUS
    <2>4. Barraged(none, f, t)
      <3> HIDE DEF none, f, t
      <3> QED BY <2>2, <2>3, <2>a DEF Barraged
    <2> HIDE DEF none
    <2> QED BY <2>1, <2>4
  <1>3. \A d \in S, sh \in Shells :
          /\ ShellStepped(d, sh, t) \in S
          /\ \/ Len(ShellStepped(d, sh, t).flying) = Len(d.flying) + 1 /\ ShellStepped(d, sh, t).hits = d.hits
             \/ /\ ShellStepped(d, sh, t).flying = d.flying
                /\ Len(ShellStepped(d, sh, t).hits) <= Len(d.hits) + Len(Roster)
    <2> HIDE DEF f, t
    <2> QED BY <1>1, ShellSteppedIs
  <1>4. PICK g \in [0..N -> S] : FlightsRun(g, w)
    <2> HIDE DEF S
    <2> QED BY <1>1, <1>2, <1>3, FlightsGo
  <1>5. /\ g[0] = none /\ x = g[N]
        /\ \A i \in 1..N : g[i] = ShellStepped(g[i - 1], w.shells[i], t)
    BY <1>4 DEF FlightsRun
  <1>6. \A d \in S : Len(d.hits) \in Nat /\ Len(d.flying) \in Nat
    BY DEF Dones
  <1> DEFINE T == {n \in 0..N : Len(g[n].hits) <= Len(Roster) * (n - Len(g[n].flying))}
  <1> HIDE DEF S, f, t
  <1>7. 0 \in T
    <2>1. 0 \in 0..N /\ Len(g[0].hits) = 0 /\ Len(g[0].flying) = 0
      BY <1>1, <1>5
    <2>2. Len(Roster) * (0 - 0) = 0
      BY FirstIs
    <2> QED BY <2>1, <2>2
  <1>8. ASSUME NEW n \in T, n < N PROVE n + 1 \in T
    <2>1. n \in 0..N /\ n + 1 \in 0..N /\ n + 1 \in 1..N /\ (n + 1) - 1 = n
      BY <1>1, <1>8
    <2>2. g[n] \in S /\ g[n + 1] = ShellStepped(g[n], w.shells[n + 1], t) /\ w.shells[n + 1] \in Shells
      BY <1>1, <1>5, <2>1
    <2>3. Len(g[n].hits) <= Len(Roster) * (n - Len(g[n].flying))
      OBVIOUS
    <2>4. Len(g[n].hits) \in Nat /\ Len(g[n].flying) \in Nat /\ Len(Roster) \in Nat
          /\ g[n + 1] \in S /\ Len(g[n + 1].hits) \in Nat /\ Len(g[n + 1].flying) \in Nat
      BY <1>3, <1>6, <2>2, FirstIs
    <2>5. \/ Len(g[n + 1].flying) = Len(g[n].flying) + 1 /\ g[n + 1].hits = g[n].hits
          \/ g[n + 1].flying = g[n].flying /\ Len(g[n + 1].hits) <= Len(g[n].hits) + Len(Roster)
      BY <1>3, <2>2
    <2> DEFINE k == Len(g[n].flying)
    <2>6. /\ Len(Roster) * ((n + 1) - k) = Len(Roster) * (n - k) + Len(Roster)
          /\ Len(Roster) * ((n + 1) - (k + 1)) = Len(Roster) * (n - k)
      <3> HIDE DEF k
      <3>1. k \in Int /\ n \in Int /\ Len(Roster) \in Nat
        BY <2>1, <2>4 DEF k
      <3> QED BY <3>1, TimesMore
    <2>7. Len(Roster) * (n - k) \in Int
      BY <2>1, <2>4
    <2>8. Len(g[n + 1].hits) <= Len(Roster) * ((n + 1) - Len(g[n + 1].flying))
      <3>1. CASE Len(g[n + 1].flying) = k + 1 /\ g[n + 1].hits = g[n].hits
        <4>1. Len(Roster) * ((n + 1) - Len(g[n + 1].flying)) = Len(Roster) * (n - k)
          BY <2>6, <3>1
        <4> QED BY <2>3, <3>1, <4>1
      <3>2. CASE g[n + 1].flying = g[n].flying /\ Len(g[n + 1].hits) <= Len(g[n].hits) + Len(Roster)
        <4>1. Len(Roster) * ((n + 1) - Len(g[n + 1].flying)) = Len(Roster) * (n - k) + Len(Roster)
          BY <2>6, <3>2
        <4>2. Len(g[n].hits) <= Len(Roster) * (n - k)
          BY <2>3
        <4> DEFINE prod == Len(Roster) * (n - k)
                   a == Len(g[n].hits)
                   b == Len(g[n + 1].hits)
                   m == Len(Roster)
        <4>3. a \in Int /\ b \in Int /\ m \in Int /\ prod \in Int /\ a <= prod /\ b <= a + m
          BY <2>4, <2>7, <3>2, <4>2
        <4> HIDE DEF prod, a, b, m
        <4>4. b <= prod + m
          BY <4>3
        <4> QED BY <4>1, <4>4 DEF prod, b, m
      <3> QED BY <2>5, <3>1, <3>2
    <2> QED BY <2>1, <2>8
  <1>9. N \in T
    <2> HIDE DEF T
    <2>1. T \in SUBSET (0..N)
      BY DEF T
    <2> QED BY <1>1, <1>7, <1>8, <2>1, InductionTo
  <1>10. x \in S
    BY <1>1, <1>5
  <1> QED BY <1>5, <1>9, <1>10 DEF S, f, t

-----------------------------------------------------------------------------
(* A tick as a whole: its stages, and what it makes of one ship. *)

MovedTo(u, w) ==
  /\ u.tick = w.tick /\ u.shells = w.shells /\ u.clouds = w.clouds /\ u.decoys = w.decoys
  /\ \A s \in Ships : IF w.ships[s].alive THEN SailedTo(u.ships[s], w.ships[s])
                      ELSE u.ships[s] = w.ships[s]

LEMMA MovedType ==
  ASSUME NEW w \in Worlds
  PROVE  Moved(w) \in Worlds /\ MovedTo(Moved(w), w)
  <1> DEFINE f == [s \in Ships |->
                    IF w.ships[s].alive THEN Sailed(w.ships[s], w.tick) ELSE w.ships[s]]
             u == Moved(w)
  <1>1. w.ships \in Fleets /\ w.tick \in Nat
    BY WorldFields
  <1>2. ASSUME NEW s \in Ships
        PROVE  /\ Sound(f[s], s)
               /\ IF w.ships[s].alive THEN SailedTo(f[s], w.ships[s]) ELSE f[s] = w.ships[s]
    <2>1. Sound(w.ships[s], s)
      BY <1>1, ShipOf
    <2>2. f[s] = IF w.ships[s].alive THEN Sailed(w.ships[s], w.tick) ELSE w.ships[s]
      OBVIOUS
    <2> HIDE DEF f
    <2> QED BY <1>1, <2>1, <2>2, SailedType
  <1>3. f \in Fleets
    <2>1. DOMAIN f = Ships /\ f = [s \in Ships |-> f[s]]
      OBVIOUS
    <2> HIDE DEF f
    <2> QED BY <1>2, <2>1, FleetOf
  <1>4. u = [w EXCEPT !.ships = f]
    BY DEF Moved
  <1> HIDE DEF f, u
  <1>5. u \in Worlds /\ u.ships = f /\ u.tick = w.tick /\ u.shells = w.shells
        /\ u.clouds = w.clouds /\ u.decoys = w.decoys
    BY <1>3, <1>4, NewFleet
  <1> QED BY <1>2, <1>5 DEF MovedTo, u

\* What maintenance keeps of the clouds or decoys.
Kept(there, before, t) ==
  /\ \A c \in there : c.until > t /\ \E e \in before : e.owner = c.owner /\ e.until = c.until
  /\ \A e \in before : e.until > t => \E c \in there : e.owner = c.owner /\ e.until = c.until

MaintainedTo(u, w) ==
  /\ u.tick = w.tick /\ u.shells = w.shells
  /\ Kept(u.clouds, w.clouds, w.tick) /\ Kept(u.decoys, w.decoys, w.tick)
  /\ \A s \in Ships :
       /\ SameButHp(u.ships[s], w.ships[s])
       /\ u.ships[s].hp = IF w.ships[s].alive /\ ActiveAt(w.ships[s], "repair_drones", w.tick)
                          THEN Least(w.ships[s].hp + Config.regen, Config.hull) ELSE w.ships[s].hp

LEMMA MaintainedType ==
  ASSUME NEW w \in Worlds
  PROVE  Maintained(w) \in Worlds /\ MaintainedTo(Maintained(w), w)
  <1> DEFINE t == w.tick
             f == [s \in Ships |-> Regenerated(w.ships[s], t)]
             C == {c \in w.clouds : c.until > t}
             cruised(d) == [d EXCEPT !.at = Inside(@ + d.drift)]
             D == {d \in {cruised(e) : e \in w.decoys} : d.until > t}
             u == Maintained(w)
  <1>1. w.ships \in Fleets /\ t \in Nat /\ w.clouds \in SUBSET Clouds /\ w.decoys \in SUBSET Decoys
    BY WorldFields
  <1>2. ASSUME NEW s \in Ships
        PROVE  /\ Sound(f[s], s) /\ SameButHp(f[s], w.ships[s])
               /\ f[s].hp = IF w.ships[s].alive /\ ActiveAt(w.ships[s], "repair_drones", t)
                            THEN Least(w.ships[s].hp + Config.regen, Config.hull) ELSE w.ships[s].hp
    <2>1. Sound(w.ships[s], s)
      BY <1>1, ShipOf
    <2>2. f[s] = Regenerated(w.ships[s], t)
      OBVIOUS
    <2> HIDE DEF f, t
    <2> QED BY <1>1, <2>1, <2>2, RegeneratedType
  <1>3. f \in Fleets
    <2>1. DOMAIN f = Ships /\ f = [s \in Ships |-> f[s]]
      OBVIOUS
    <2> HIDE DEF f
    <2> QED BY <1>2, <2>1, FleetOf
  <1>4. C \in SUBSET Clouds /\ Kept(C, w.clouds, t)
    BY <1>1 DEF Kept
  <1>5. ASSUME NEW e \in Decoys
        PROVE  cruised(e) \in Decoys /\ cruised(e).owner = e.owner /\ cruised(e).until = e.until
    <2> DEFINE at == Inside(e.at + e.drift)
    <2>1. e.at + e.drift \in Int
      BY DEF Decoys
    <2>2. at \in Int
      BY <2>1, InsideType, BoundsFacts
    <2>3. cruised(e) = [e EXCEPT !.at = at]
      OBVIOUS
    <2> HIDE DEF at
    <2> QED BY <2>2, <2>3 DEF Decoys
  <1> HIDE DEF cruised
  <1>6. D \in SUBSET Decoys /\ Kept(D, w.decoys, t)
    <2>1. D \in SUBSET Decoys
      BY <1>1, <1>5
    <2>2. ASSUME NEW d \in D
          PROVE  d.until > t /\ \E e \in w.decoys : e.owner = d.owner /\ e.until = d.until
      <3>1. PICK e \in w.decoys : d = cruised(e)
        OBVIOUS
      <3> QED BY <1>1, <1>5, <3>1
    <2>3. ASSUME NEW e \in w.decoys, e.until > t
          PROVE  \E d \in D : e.owner = d.owner /\ e.until = d.until
      <3>1. cruised(e).until = e.until /\ cruised(e).owner = e.owner
        BY <1>1, <1>5
      <3>2. cruised(e) \in D
        BY <2>3, <3>1
      <3> QED BY <3>1, <3>2
    <2> HIDE DEF D
    <2> QED BY <2>1, <2>2, <2>3 DEF Kept
  <1>7. u = [w EXCEPT !.ships = f, !.clouds = C, !.decoys = D]
    BY DEF Maintained, MaintainedAt, cruised
  <1> HIDE DEF f, C, D, u
  <1>8. u \in Worlds /\ u.ships = f /\ u.tick = w.tick /\ u.shells = w.shells
        /\ u.clouds = C /\ u.decoys = D
    BY <1>3, <1>4, <1>6, <1>7 DEF Worlds
  <1>9. MaintainedTo(u, w)
    BY <1>2, <1>4, <1>6, <1>8 DEF MaintainedTo
  <1> QED BY <1>8, <1>9 DEF u

\* The stages of a tick: steered, empowered, shot; the world that has moved; the barrage; and
\* what maintenance leaves.
Stages(out, w, o, a, e, q, b, z) ==
  /\ SteeredTo(a, w, o) /\ EmpoweredTo(e, a, o, Ships) /\ ShotTo(q, e, o, Ships)
  /\ out.moved \in Worlds /\ MovedTo(out.moved, q)
  /\ Barraged(b, out.moved.ships, w.tick) /\ out.hits = b.hits
  /\ Len(b.hits) <= Len(Roster) * (Len(out.moved.shells) - Len(b.flying))
  /\ z.tick = w.tick /\ z.clouds = out.moved.clouds /\ z.decoys = out.moved.decoys
  /\ z.shells = b.flying /\ z.ships = b.ships
  /\ \E k \in Worlds : /\ MaintainedTo(k, z)
                       /\ out.world \in Worlds /\ out.world.tick = k.tick + 1
                       /\ out.world.shells = k.shells /\ out.world.clouds = k.clouds
                       /\ out.world.decoys = k.decoys /\ out.world.ships = k.ships

LEMMA SimulatedIs ==
  ASSUME NEW w \in Worlds, NEW o, Orderly(o), NEW ahead \in [Ships -> Int],
         NEW out, out = Simulated(w, o, Roster, ahead)
  PROVE  \E a, e, q, z \in Worlds, b \in Dones : Stages(out, w, o, a, e, q, b, z)
  <1> DEFINE a == Steered(w, o)
             e == Empowered(a, o, Roster, ahead)
             q == Shot(e, o, Roster)
             m == Moved(q)
             b == ShellsStepped(m)
             z == [m EXCEPT !.shells = b.flying, !.ships = b.ships]
             k == Maintained(z)
             x == [k EXCEPT !.tick = @ + 1]
  <1>1. a \in Worlds /\ SteeredTo(a, w, o)
    BY SteeredType
  <1> HIDE DEF a
  <1>2. e \in Worlds /\ EmpoweredTo(e, a, o, Ships)
    BY <1>1, EmpoweredIs
  <1> HIDE DEF e
  <1>3. q \in Worlds /\ ShotTo(q, e, o, Ships)
    BY <1>2, ShotIs
  <1> HIDE DEF q
  <1>4. m \in Worlds /\ MovedTo(m, q)
    BY <1>3, MovedType
  <1>5. m.tick = w.tick
    BY <1>1, <1>2, <1>3, <1>4 DEF SteeredTo, EmpoweredTo, ShotTo, MovedTo
  <1> HIDE DEF m
  <1>6. b \in Dones /\ Barraged(b, m.ships, m.tick)
        /\ Len(b.hits) <= Len(Roster) * (Len(m.shells) - Len(b.flying))
    BY <1>4, ShellsSteppedIs
  <1> HIDE DEF b
  <1>7. /\ z \in Worlds /\ z.tick = m.tick /\ z.clouds = m.clouds /\ z.decoys = m.decoys
        /\ z.shells = b.flying /\ z.ships = b.ships
    BY <1>4, <1>6 DEF Worlds, Dones
  <1> HIDE DEF z
  <1>8. k \in Worlds /\ MaintainedTo(k, z)
    BY <1>7, MaintainedType
  <1> HIDE DEF k
  <1>9. /\ x \in Worlds /\ x.tick = k.tick + 1 /\ x.shells = k.shells /\ x.clouds = k.clouds
        /\ x.decoys = k.decoys /\ x.ships = k.ships
    <2> DEFINE n == k.tick + 1
    <2>1. n \in Nat
      BY <1>8, WorldFields
    <2>2. x = [k EXCEPT !.tick = n]
      OBVIOUS
    <2> HIDE DEF n, x
    <2>3. /\ x \in Worlds /\ x.tick = n /\ x.shells = k.shells /\ x.clouds = k.clouds
          /\ x.decoys = k.decoys /\ x.ships = k.ships
      BY <1>8, <2>1, <2>2 DEF Worlds
    <2> QED BY <2>3 DEF n
  <1> HIDE DEF x
  <1>10. out.moved = m /\ out.hits = b.hits /\ out.world = x
    BY DEF Simulated, Ordered, a, e, q, m, b, z, k, x
  <1>11. Stages(out, w, o, a, e, q, b, z)
    BY <1>1, <1>2, <1>3, <1>4, <1>5, <1>6, <1>7, <1>8, <1>9, <1>10 DEF Stages
  <1> QED BY <1>1, <1>2, <1>3, <1>6, <1>7, <1>11

\* What a tick makes of a ship.
UntilSet(w, o, s) ==
  IF Activates(w, s, o) /\ Pick(w, s, o) \notin InWorld
  THEN [w.ships[s].until EXCEPT ![Pick(w, s, o)] = w.tick + Config.duration[Pick(w, s, o)]]
  ELSE w.ships[s].until
UntilAfter(w, o, s) ==
  IF Shoots(w, s, o) THEN [UntilSet(w, o, s) EXCEPT !["silent_running"] = Least(@, w.tick)]
  ELSE UntilSet(w, o, s)
Rearmed(w, o, s) == Activates(w, s, o) /\ Pick(w, s, o) = "counter_battery_trace"

ShipTick(x, m, w, o, s, hits) ==
  LET v == w.ships[s] IN
  /\ x.selected = v.selected
  /\ (x.alive => m.alive) /\ (m.alive => v.alive)
  /\ ~v.alive => x.hp = v.hp
  /\ x.ammo = IF Shoots(w, s, o) THEN v.ammo - 1 ELSE v.ammo
  /\ x.used = v.used \cup IF Activates(w, s, o) THEN {Pick(w, s, o)} ELSE {}
  /\ x.until = UntilAfter(w, o, s)
  /\ \/ x.emp = v.emp
     \/ /\ Chose(w, o, Ships, "emp_burst") \ {s} # {}
        /\ x.emp = w.tick + Config.duration["emp_burst"]
  /\ IF UntilAfter(w, o, s)["counter_battery_trace"] > w.tick /\ HitsBy(hits, s) # {}
     THEN /\ x.reveal = w.tick + Config.reveal
          /\ \E i \in HitsBy(hits, s) : /\ \A k \in HitsBy(hits, s) : k <= i
                                        /\ x.attacker = {hits[i].by}
     ELSE /\ x.reveal = IF Rearmed(w, o, s) THEN 0 ELSE v.reveal
          /\ x.attacker = IF Rearmed(w, o, s) THEN {} ELSE v.attacker

LEMMA SteeredChoice ==
  ASSUME NEW a, NEW w, NEW o, SteeredTo(a, w, o), NEW s \in Ships
  PROVE  /\ Activates(a, s, o) <=> Activates(w, s, o)
         /\ Pick(a, s, o) = Pick(w, s, o) /\ a.tick = w.tick
         /\ \A p : Chose(a, o, Ships, p) = Chose(w, o, Ships, p)
  <1>1. \A x \in Ships : /\ Activates(a, x, o) <=> Activates(w, x, o)
                         /\ Pick(a, x, o) = Pick(w, x, o)
    BY DEF SteeredTo, SameButCourse, Activates, Pick
  <1>2. \A p : Chose(a, o, Ships, p) = Chose(w, o, Ships, p)
    BY <1>1 DEF Chose
  <1> QED BY <1>1, <1>2 DEF SteeredTo

\* The ship when its powerup and its shot have been dealt with.
ReadyTo(x, w, o, s) ==
  LET v == w.ships[s] IN
  /\ x.selected = v.selected /\ x.alive = v.alive /\ x.place = v.place /\ x.heading = v.heading
  /\ x.hp = IF Activates(w, s, o) /\ Pick(w, s, o) = "repair_drones"
            THEN Least(v.hp + Config.instantHp, Config.hull) ELSE v.hp
  /\ x.ammo = IF Shoots(w, s, o) THEN v.ammo - 1 ELSE v.ammo
  /\ x.used = v.used \cup IF Activates(w, s, o) THEN {Pick(w, s, o)} ELSE {}
  /\ x.until = UntilAfter(w, o, s)
  /\ \/ x.emp = v.emp
     \/ /\ Chose(w, o, Ships, "emp_burst") \ {s} # {}
        /\ x.emp = w.tick + Config.duration["emp_burst"]
  /\ x.reveal = IF Rearmed(w, o, s) THEN 0 ELSE v.reveal
  /\ x.attacker = IF Rearmed(w, o, s) THEN {} ELSE v.attacker

LEMMA ReadyIs ==
  ASSUME NEW w \in Worlds, NEW o, NEW a \in Worlds, NEW e \in Worlds, NEW q \in Worlds,
         SteeredTo(a, w, o), EmpoweredTo(e, a, o, Ships), ShotTo(q, e, o, Ships), NEW s \in Ships
  PROVE  ReadyTo(q.ships[s], w, o, s)
  <1> DEFINE v == w.ships[s]
             x == e.ships[s]
             y == q.ships[s]
             A == Activates(w, s, o)
             p == Pick(w, s, o)
             mid == [v EXCEPT !.course = a.ships[s].course]
  <1>1. SameButCourse(a.ships[s], v) /\ a.tick = w.tick
    BY DEF SteeredTo
  <1>2. /\ IF A THEN PoweredButEmp(x, a.ships[s], p, w.tick) ELSE SameButEmp(x, a.ships[s])
        /\ \/ x.emp = v.emp
           \/ /\ Chose(w, o, Ships, "emp_burst") \ {s} # {}
              /\ x.emp = w.tick + Config.duration["emp_burst"]
        /\ e.tick = w.tick
    <2>1. /\ Activates(a, s, o) <=> A
          /\ Pick(a, s, o) = p
          /\ Chose(a, o, Ships, "emp_burst") = Chose(w, o, Ships, "emp_burst")
      BY SteeredChoice
    <2>2. /\ IF Activates(a, s, o) THEN PoweredButEmp(x, a.ships[s], Pick(a, s, o), a.tick)
             ELSE SameButEmp(x, a.ships[s])
          /\ \/ x.emp = a.ships[s].emp
             \/ /\ Chose(a, o, Ships, "emp_burst") \ {s} # {}
                /\ x.emp = a.tick + Config.duration["emp_burst"]
          /\ e.tick = a.tick
      BY DEF EmpoweredTo
    <2>3. a.ships[s].emp = v.emp
      BY <1>1 DEF SameButCourse
    <2> HIDE DEF A, p, x, v
    <2> QED BY <1>1, <2>1, <2>2, <2>3
  <1>3. /\ x.used = v.used \cup IF A THEN {p} ELSE {}
        /\ x.until = UntilSet(w, o, s)
        /\ x.hp = IF A /\ p = "repair_drones" THEN Least(v.hp + Config.instantHp, Config.hull) ELSE v.hp
        /\ x.reveal = IF Rearmed(w, o, s) THEN 0 ELSE v.reveal
        /\ x.attacker = IF Rearmed(w, o, s) THEN {} ELSE v.attacker
        /\ x.place = v.place /\ x.heading = v.heading /\ x.alive = v.alive
        /\ x.ammo = v.ammo /\ x.cooldown = v.cooldown /\ x.selected = v.selected
    <2>1. CASE A
      <3>1. PoweredButEmp(x, a.ships[s], p, w.tick)
        BY <1>2, <2>1
      <3>2. UntilSet(w, o, s) = IF p \notin InWorld
                 THEN [v.until EXCEPT ![p] = w.tick + Config.duration[p]] ELSE v.until
        BY <2>1 DEF UntilSet
      <3>3. Rearmed(w, o, s) <=> p = "counter_battery_trace"
        BY <2>1 DEF Rearmed
      <3> HIDE DEF p, x, v, A
      <3> QED BY <1>1, <2>1, <3>1, <3>2, <3>3 DEF PoweredButEmp, SameButCourse
    <2>2. CASE ~A
      <3>1. SameButEmp(x, a.ships[s])
        BY <1>2, <2>2
      <3>2. UntilSet(w, o, s) = v.until /\ ~Rearmed(w, o, s)
        BY <2>2 DEF UntilSet, Rearmed
      <3> HIDE DEF p, x, v, A
      <3> QED BY <1>1, <2>2, <3>1, <3>2 DEF SameButEmp, SameButCourse
    <2> QED BY <2>1, <2>2
  <1>4. Shoots(e, s, o) <=> Shoots(w, s, o)
    BY <1>3 DEF Shoots, CanFire
  <1>5. CASE Shoots(w, s, o)
    <2>1. RecoiledTo(y, x, w.tick)
      BY <1>2, <1>4, <1>5 DEF ShotTo
    <2>2. UntilAfter(w, o, s) = [UntilSet(w, o, s) EXCEPT !["silent_running"] = Least(@, w.tick)]
      BY <1>5 DEF UntilAfter
    <2> HIDE DEF p, x, v, A, y
    <2>3. y.until = UntilAfter(w, o, s) /\ y.ammo = v.ammo - 1
      BY <1>3, <2>1, <2>2 DEF RecoiledTo
    <2>4. ReadyTo(y, w, o, s)
      BY <1>2, <1>3, <1>5, <2>1, <2>3 DEF RecoiledTo, ReadyTo, v, A, p
    <2> QED BY <2>4 DEF y
  <1>6. CASE ~Shoots(w, s, o)
    <2>1. y = x
      BY <1>4, <1>6 DEF ShotTo
    <2>2. UntilAfter(w, o, s) = UntilSet(w, o, s)
      BY <1>6 DEF UntilAfter
    <2> HIDE DEF p, x, v, A, y
    <2>3. ReadyTo(y, w, o, s)
      BY <1>2, <1>3, <1>6, <2>1, <2>2 DEF ReadyTo, v, A, p
    <2> QED BY <2>3 DEF y
  <1> QED BY <1>5, <1>6

LEMMA ShipTickIs ==
  ASSUME NEW w \in Worlds, NEW o, NEW a \in Worlds, NEW e \in Worlds, NEW q \in Worlds,
         NEW z \in Worlds, NEW b \in Dones, NEW out, Stages(out, w, o, a, e, q, b, z), NEW s \in Ships
  PROVE  ShipTick(out.world.ships[s], out.moved.ships[s], w, o, s, out.hits)
  <1> DEFINE v == w.ships[s]
             y == q.ships[s]
             m == out.moved.ships[s]
             n == b.ships[s]
             x == out.world.ships[s]
  <1>1. ReadyTo(y, w, o, s)
    BY ReadyIs DEF Stages
  <1>2. IF y.alive THEN SailedTo(m, y) ELSE m = y
    BY DEF Stages, MovedTo
  <1>3. BarragedTo(n, m, s, out.hits, w.tick)
    BY DEF Stages, Barraged
  <1>4. SameButHp(x, n) /\ (~n.alive => x.hp = n.hp)
    <2>1. PICK k \in Worlds : MaintainedTo(k, z) /\ out.world.ships = k.ships
      BY DEF Stages
    <2>2. z.ships[s] = n
      BY DEF Stages
    <2> QED BY <2>1, <2>2 DEF MaintainedTo
  <1>5. m.until = UntilAfter(w, o, s)
    BY <1>1, <1>2 DEF ReadyTo, SailedTo
  <1>6. ActiveAt(m, "counter_battery_trace", w.tick)
          <=> UntilAfter(w, o, s)["counter_battery_trace"] > w.tick
    BY <1>5 DEF ActiveAt
  <1>7. /\ m.ammo = y.ammo /\ m.used = y.used /\ m.emp = y.emp /\ m.reveal = y.reveal
        /\ m.attacker = y.attacker /\ m.selected = y.selected
        /\ ~y.alive => m.hp = y.hp /\ ~m.alive
    BY <1>2 DEF SailedTo
  <1>8. ~v.alive => ~Activates(w, s, o)
    BY DEF Activates
  <1> HIDE DEF v, y, m, n, x
  <1>9. ~v.alive => y.hp = v.hp /\ ~y.alive
    BY <1>1, <1>8 DEF ReadyTo, v
  <1>10. /\ x.selected = v.selected
         /\ (x.alive => m.alive) /\ (m.alive => v.alive)
         /\ ~v.alive => x.hp = v.hp
    BY <1>1, <1>3, <1>4, <1>7, <1>9 DEF ReadyTo, BarragedTo, SameButHp, v
  <1>11. /\ x.ammo = y.ammo /\ x.used = y.used /\ x.until = m.until /\ x.emp = y.emp
    BY <1>3, <1>4, <1>7 DEF BarragedTo, SameButHp
  <1>12. IF UntilAfter(w, o, s)["counter_battery_trace"] > w.tick /\ HitsBy(out.hits, s) # {}
         THEN /\ x.reveal = w.tick + Config.reveal
              /\ \E i \in HitsBy(out.hits, s) : /\ \A k \in HitsBy(out.hits, s) : k <= i
                                                /\ x.attacker = {out.hits[i].by}
         ELSE x.reveal = y.reveal /\ x.attacker = y.attacker
    BY <1>3, <1>4, <1>6, <1>7 DEF BarragedTo, SameButHp
  <1> QED BY <1>1, <1>5, <1>10, <1>11, <1>12 DEF ShipTick, ReadyTo, x, m, v

-----------------------------------------------------------------------------
(* The steps of a match. *)

\* A ship as a match starts with it.
FreshShip(v) ==
  /\ v.hp = Config.hull /\ v.ammo = Config.ammo /\ v.alive /\ v.course = 0 /\ v.used = {}
  /\ v.until = [p \in PowerupId |-> 0] /\ v.emp = 0 /\ v.reveal = 0 /\ v.attacker = {}
FreshWorld(w) ==
  /\ w.tick = 0 /\ w.shells = <<>> /\ w.clouds = {} /\ w.decoys = {}
  /\ \A s \in Ships : FreshShip(w.ships[s])

LEMMA NewWorldType == NewWorld \in Worlds
  <1> DEFINE f == [s \in Ships |-> NewShip]
  <1>1. NewShip \in Vessels /\ NewShip.alive = (NewShip.hp > 0) /\ NewShip.attacker = {}
    <2> DEFINE ze == [p \in PowerupId |-> 0]
               no == <<>>
               al == TRUE
    <2>1. Config.hull \in Nat \ {0} /\ Config.ammo \in Nat /\ Width \in Nat /\ Word \in Nat \ {0}
      BY ConfigFacts, BoundsFacts
    <2>2. ze \in [PowerupId -> Nat] /\ no \in Seq(PowerupId) /\ al \in BOOLEAN
      OBVIOUS
    <2>2a. 0 \in 0..Config.hull /\ Config.hull \in 0..Config.hull /\ Config.ammo \in 0..Config.ammo
           /\ 0 \in 0..Width /\ 0 \in 0..(Word - 1) /\ al = (Config.hull > 0)
      BY <2>1
    <2>3. NewShip = [place |-> 0, heading |-> 1, course |-> 0, speed |-> 0, hp |-> Config.hull,
                     ammo |-> Config.ammo, cooldown |-> 0, alive |-> al, selected |-> no,
                     used |-> {}, until |-> ze, emp |-> 0, reveal |-> 0, attacker |-> {}]
      BY DEF NewShip
    <2> HIDE DEF ze, no, al
    <2>4. NewShip \in Vessels
      BY <2>2, <2>2a, <2>3 DEF Vessels
    <2>5. NewShip.alive = al /\ NewShip.hp = Config.hull /\ NewShip.attacker = {}
      BY <2>3
    <2> QED BY <2>2a, <2>4, <2>5
  <1> HIDE DEF NewShip
  <1>2. \A s \in Ships : Sound(f[s], s)
    BY <1>1 DEF Sound
  <1>3. f \in Fleets
    <2>1. DOMAIN f = Ships /\ f = [s \in Ships |-> f[s]]
      OBVIOUS
    <2> HIDE DEF f
    <2> QED BY <1>2, <2>1, FleetOf
  <1> HIDE DEF f
  <1>4. [tick |-> 0, shells |-> <<>>, clouds |-> {}, decoys |-> {}, ships |-> f] \in Worlds
    BY <1>3 DEF Worlds
  <1> QED BY <1>4 DEF NewWorld, f

LEMMA LaidOutType ==
  ASSUME NEW w \in Worlds, NEW layout \in Layouts, NEW loadout \in Loadouts,
         NEW u, u = LaidOut(w, layout, loadout)
  PROVE  u \in Worlds /\ FreshWorld(u)
  <1> DEFINE g(s) == [ResetForRound(w.ships[s], layout[s]) EXCEPT !.selected = loadout[s]]
             f == [s \in Ships |-> g(s)]
  <1>1. ASSUME NEW s \in Ships
        PROVE  Sound(g(s), s) /\ FreshShip(g(s))
    <2> DEFINE v == w.ships[s]
               st == layout[s]
               lo == loadout[s]
               ze == [p \in PowerupId |-> 0]
    <2>1. v \in Vessels
      BY WorldFields, ShipOf
    <2>2. st.place \in 0..Width /\ st.heading \in {-1, 1} /\ lo \in Seq(PowerupId)
      BY FleetAssumption DEF FleetValid
    <2>3. Config.hull \in Nat \ {0} /\ Config.ammo \in Nat /\ Word \in Nat \ {0}
      BY ConfigFacts, BoundsFacts
    <2>4. ze \in [PowerupId -> Nat]
      OBVIOUS
    <2> DEFINE al == TRUE
               hu == Config.hull
               y  == [v EXCEPT !.used = {}, !.until = ze, !.emp = 0, !.reveal = 0, !.attacker = {}]
               z  == [y EXCEPT !.place = st.place, !.heading = st.heading, !.course = 0, !.speed = 0,
                               !.hp = hu, !.ammo = Config.ammo, !.cooldown = 0, !.alive = al]
    <2>5. g(s) = [z EXCEPT !.selected = lo]
      BY DEF ResetForRound, Unpowered
    <2>6. /\ 0 \in 0..(Word - 1) /\ hu \in 0..Config.hull /\ Config.ammo \in 0..Config.ammo
          /\ al \in BOOLEAN /\ al = (hu > 0) /\ 0 \in -1..1
      BY <2>3
    <2> HIDE DEF v, st, lo, ze, g, al, hu
    <2>7. y \in Vessels /\ y.used = {} /\ y.until = ze /\ y.emp = 0 /\ y.reveal = 0 /\ y.attacker = {}
      BY <2>1, <2>4 DEF Vessels
    <2> HIDE DEF y
    <2>8. z \in Vessels
      BY <2>2, <2>6, <2>7 DEF Vessels
    <2>9. /\ z.course = 0 /\ z.hp = hu /\ z.ammo = Config.ammo /\ z.alive = al
          /\ z.used = {} /\ z.until = ze /\ z.emp = 0 /\ z.reveal = 0 /\ z.attacker = {}
      BY <2>7 DEF Vessels
    <2> HIDE DEF z
    <2>10. /\ g(s) \in Vessels
           /\ g(s).course = 0 /\ g(s).hp = hu /\ g(s).ammo = Config.ammo /\ g(s).alive = al
           /\ g(s).used = {} /\ g(s).until = ze /\ g(s).emp = 0 /\ g(s).reveal = 0
           /\ g(s).attacker = {}
      BY <2>2, <2>5, <2>8, <2>9 DEF Vessels
    <2>11. Sound(g(s), s)
      BY <2>6, <2>10 DEF Sound
    <2>12. g(s).alive
      BY <2>10 DEF al
    <2> QED BY <2>10, <2>11, <2>12 DEF FreshShip, ze, hu
  <1> HIDE DEF g
  <1>2. f \in Fleets
    <2>1. DOMAIN f = Ships /\ f = [s \in Ships |-> f[s]] /\ \A s \in Ships : f[s] = g(s)
      OBVIOUS
    <2> HIDE DEF f
    <2> QED BY <1>1, <2>1, FleetOf
  <1>3. u = [tick |-> 0, shells |-> <<>>, clouds |-> {}, decoys |-> {}, ships |-> f]
    BY DEF LaidOut, g
  <1>4. \A s \in Ships : FreshShip(f[s])
    BY <1>1
  <1> HIDE DEF f
  <1>5. u \in Worlds
    BY <1>2, <1>3 DEF Worlds
  <1> QED BY <1>3, <1>4, <1>5 DEF FreshWorld

\* One tick of the world under the orders o.
Ticked(out, w, o) ==
  \E a, e, q, z \in Worlds, b \in Dones : Stages(out, w, o, a, e, q, b, z)

\* A step, with what is known of its orders and its outcome.
Stepping(o, out) ==
  /\ phase = "Running" /\ Orderly(o) /\ DOMAIN o \subseteq Alive(world)
  /\ Ticked(out, world, o) /\ StepTo(o, out)

LEMMA StepIs ==
  ASSUME world \in Worlds, Step
  PROVE  \E o, out : Stepping(o, out)
  <1>1. PICK some \in SUBSET Alive(world) : \E o \in OrdersOf(some) :
          \E out \in Simulations(world, o, Roster) : StepTo(o, out)
    BY DEF Step
  <1>2. PICK o \in OrdersOf(some) : \E out \in Simulations(world, o, Roster) : StepTo(o, out)
    BY <1>1
  <1>3. PICK out \in Simulations(world, o, Roster) : StepTo(o, out)
    BY <1>2
  <1>4. Orderly(o) /\ DOMAIN o = some
    <2>1. some \in SUBSET Ships
      BY DEF Alive
    <2> QED BY <2>1, OrdersAreOrderly
  <1>5. PICK ahead \in [Ships -> Config.decoyMin..Config.decoyMax] :
          out = Simulated(world, o, Roster, ahead)
    BY DEF Simulations
  <1>6. ahead \in [Ships -> Int]
    OBVIOUS
  <1>7. \E a, e, q, z \in Worlds, b \in Dones : Stages(out, world, o, a, e, q, b, z)
    BY <1>4, <1>5, <1>6, SimulatedIs
  <1> QED BY <1>3, <1>4, <1>7 DEF Stepping, Ticked, Step

\* What a tick leaves of the world, ship by ship.
LEMMA TickedIs ==
  ASSUME NEW w \in Worlds, NEW o, NEW out, Ticked(out, w, o)
  PROVE  /\ out.world \in Worlds /\ out.moved \in Worlds /\ out.hits \in Seq(Hits)
         /\ out.world.tick = w.tick + 1
         /\ \A i \in DOMAIN out.world.shells : out.world.shells[i].ttl > 0
         /\ \A s \in Ships :
              ShipTick(out.world.ships[s], out.moved.ships[s], w, o, s, out.hits)
  <1>1. PICK a, e, q, z \in Worlds, b \in Dones : Stages(out, w, o, a, e, q, b, z)
    BY DEF Ticked
  <1>2. \A s \in Ships : ShipTick(out.world.ships[s], out.moved.ships[s], w, o, s, out.hits)
    BY <1>1, ShipTickIs
  <1>3. PICK k \in Worlds : /\ MaintainedTo(k, z)
                            /\ out.world \in Worlds /\ out.world.tick = k.tick + 1
                            /\ out.world.shells = k.shells
    BY <1>1 DEF Stages
  <1>4. out.world.tick = w.tick + 1 /\ out.world.shells = b.flying
    BY <1>1, <1>3 DEF Stages, MaintainedTo
  <1>5. \A i \in DOMAIN b.flying : b.flying[i].ttl > 0
    BY <1>1 DEF Stages, Barraged
  <1>6. out.moved \in Worlds /\ out.hits \in Seq(Hits)
    BY <1>1 DEF Stages, Dones
  <1> QED BY <1>2, <1>3, <1>4, <1>5, <1>6

SeenTo(u, w) ==
  /\ u.tick = w.tick /\ u.shells = w.shells /\ u.clouds = w.clouds /\ u.decoys = w.decoys
  /\ \A s \in Ships :
       /\ SameButAttacker(u.ships[s], w.ships[s])
       /\ u.ships[s].attacker = IF w.ships[s].alive /\ w.ships[s].reveal <= w.tick - 1 THEN {}
                                ELSE w.ships[s].attacker

LEMMA SeenType ==
  ASSUME NEW w \in Worlds
  PROVE  Seen(w) \in Worlds /\ SeenTo(Seen(w), w)
  <1> DEFINE f == [s \in Ships |-> IF w.ships[s].alive THEN Forgotten(w.ships[s], w.tick - 1)
                                   ELSE w.ships[s]]
             u == Seen(w)
  <1>1. ASSUME NEW s \in Ships
        PROVE  /\ Sound(f[s], s) /\ SameButAttacker(f[s], w.ships[s])
               /\ f[s].attacker = IF w.ships[s].alive /\ w.ships[s].reveal <= w.tick - 1 THEN {}
                                  ELSE w.ships[s].attacker
    <2>1. Sound(w.ships[s], s)
      BY WorldFields, ShipOf
    <2>2. f[s] = IF w.ships[s].alive THEN Forgotten(w.ships[s], w.tick - 1) ELSE w.ships[s]
      OBVIOUS
    <2> HIDE DEF f
    <2>3. CASE w.ships[s].alive
      BY <2>1, <2>2, <2>3, ForgottenType
    <2>4. CASE ~w.ships[s].alive
      BY <2>1, <2>2, <2>4 DEF SameButAttacker
    <2> QED BY <2>3, <2>4
  <1>2. f \in Fleets
    <2>1. DOMAIN f = Ships /\ f = [s \in Ships |-> f[s]]
      OBVIOUS
    <2> HIDE DEF f
    <2> QED BY <1>1, <2>1, FleetOf
  <1>3. u = [w EXCEPT !.ships = f]
    BY DEF Seen
  <1> HIDE DEF f, u
  <1>4. u \in Worlds /\ u.ships = f /\ u.tick = w.tick /\ u.shells = w.shells
        /\ u.clouds = w.clouds /\ u.decoys = w.decoys
    BY <1>2, <1>3, NewFleet
  <1> QED BY <1>1, <1>4 DEF SeenTo, u

\* A ship given up.
StruckDown(u, w, s) ==
  /\ u.tick = w.tick /\ u.shells = w.shells /\ u.clouds = w.clouds /\ u.decoys = w.decoys
  /\ \A x \in Ships \ {s} : u.ships[x] = w.ships[x]
  /\ u.ships[s].hp = 0 /\ ~u.ships[s].alive /\ u.ships[s].course = 0
  /\ u.ships[s].ammo = w.ships[s].ammo /\ u.ships[s].cooldown = w.ships[s].cooldown
  /\ u.ships[s].selected = w.ships[s].selected /\ u.ships[s].used = w.ships[s].used
  /\ u.ships[s].until = w.ships[s].until /\ u.ships[s].emp = w.ships[s].emp
  /\ u.ships[s].reveal = w.ships[s].reveal /\ u.ships[s].attacker = w.ships[s].attacker
  /\ u.ships[s].place = w.ships[s].place

Forfeited(w, s) ==
  [w EXCEPT !.ships[s].alive = FALSE, !.ships[s].hp = 0, !.ships[s].course = 0]

LEMMA ForfeitType ==
  ASSUME NEW w \in Worlds, NEW s \in Ships
  PROVE  Forfeited(w, s) \in Worlds /\ StruckDown(Forfeited(w, s), w, s)
  <1> DEFINE v == w.ships[s]
             no == FALSE
             x == [v EXCEPT !.alive = no, !.hp = 0, !.course = 0]
             f == [w.ships EXCEPT ![s] = x]
             u == Forfeited(w, s)
  <1>1. w.ships \in Fleets /\ Sound(v, s) /\ v \in Vessels
    BY WorldFields, ShipOf
  <1>2. u = [w EXCEPT !.ships = f]
    <2>1. w.ships \in [Ships -> Vessels]
      BY <1>1 DEF Fleets
    <2> QED BY <2>1, <1>1 DEF Worlds, Vessels, Forfeited
  <1>3. /\ Sound(x, s) /\ x.hp = 0 /\ x.alive = no /\ x.course = 0
        /\ x.ammo = v.ammo /\ x.cooldown = v.cooldown /\ x.selected = v.selected
        /\ x.used = v.used /\ x.until = v.until /\ x.emp = v.emp /\ x.reveal = v.reveal
        /\ x.attacker = v.attacker /\ x.place = v.place
    <2>1. 0 \in 0..Config.hull /\ no \in BOOLEAN /\ no = (0 > 0) /\ 0 \in -1..1
      BY ConfigFacts
    <2> HIDE DEF v, no
    <2>2. x \in Vessels
      BY <1>1, <2>1 DEF Vessels
    <2>3. /\ x.hp = 0 /\ x.alive = no /\ x.course = 0
          /\ x.ammo = v.ammo /\ x.cooldown = v.cooldown /\ x.selected = v.selected
          /\ x.used = v.used /\ x.until = v.until /\ x.emp = v.emp /\ x.reveal = v.reveal
          /\ x.attacker = v.attacker /\ x.place = v.place
      BY <1>1 DEF Vessels
    <2> HIDE DEF x
    <2> QED BY <1>1, <2>1, <2>2, <2>3 DEF Sound
  <1>3a. ~x.alive
    BY <1>3
  <1> HIDE DEF x, v
  <1>4. f \in Fleets /\ f[s] = x /\ \A y \in Ships \ {s} : f[y] = w.ships[y]
    <2>1. w.ships \in [Ships -> Vessels] /\ \A y \in Ships : Sound(w.ships[y], y)
      BY <1>1 DEF Fleets
    <2>2. DOMAIN f = Ships /\ f = [y \in Ships |-> f[y]] /\ f[s] = x
          /\ \A y \in Ships \ {s} : f[y] = w.ships[y]
      BY <2>1
    <2>3. \A y \in Ships : Sound(f[y], y)
      <3> HIDE DEF f
      <3> QED BY <1>3, <2>1, <2>2
    <2> HIDE DEF f
    <2> QED BY <2>2, <2>3, FleetOf
  <1> HIDE DEF f, u
  <1>5. u \in Worlds /\ u.ships = f /\ u.tick = w.tick /\ u.shells = w.shells
        /\ u.clouds = w.clouds /\ u.decoys = w.decoys
    BY <1>2, <1>4, NewFleet
  <1> QED BY <1>3, <1>3a, <1>4, <1>5 DEF StruckDown, u, v

-----------------------------------------------------------------------------
(* The shape of the state. *)

Shape ==
  /\ phase \in {"Running", "Ended"} /\ world \in Worlds
  /\ modes \in [Ships -> Modes] /\ pingers \in SUBSET Ships
  /\ world.tick <= Timeout /\ (phase = "Running" => world.tick < Timeout)
  /\ \A i \in DOMAIN world.shells : world.shells[i].ttl > 0
  /\ DOMAIN frames \subseteq Ships
  /\ \A s \in DOMAIN frames : frames[s].tick \in Nat /\ frames[s].tick <= world.tick

\* The world a step leaves: that of its tick, but for the attackers forgotten in the frames.
StepLeaves(out) ==
  /\ world' \in Worlds /\ world'.tick = world.tick + 1 /\ world'.tick = out.world.tick
  /\ world'.shells = out.world.shells
  /\ world'.clouds = out.world.clouds /\ world'.decoys = out.world.decoys
  /\ \A s \in Ships :
       /\ SameButAttacker(world'.ships[s], out.world.ships[s])
       /\ world'.ships[s].attacker =
            IF ~Decided(out.world) /\ out.world.ships[s].alive /\ out.world.ships[s].reveal <= world.tick
            THEN {} ELSE out.world.ships[s].attacker
  /\ Alive(world') = Alive(out.world)

LEMMA StepLeavesIt ==
  ASSUME world \in Worlds, NEW o, NEW out, Stepping(o, out)
  PROVE  StepLeaves(out)
  <1> DEFINE w == out.world
  <1>1. w \in Worlds /\ w.tick = world.tick + 1 /\ world.tick \in Nat
    <2>1. Ticked(out, world, o)
      BY DEF Stepping
    <2> QED BY <2>1, TickedIs, WorldFields
  <1>2. world' = IF Decided(w) THEN w ELSE Seen(w)
    BY DEF Stepping, StepTo
  <1> HIDE DEF w
  <1>3. w.tick - 1 = world.tick
    BY <1>1
  <1>4. CASE Decided(w)
    <2>1. \A s \in Ships : SameButAttacker(world'.ships[s], w.ships[s])
      BY <1>2, <1>4 DEF SameButAttacker
    <2>2. \A s \in Ships : world'.ships[s].attacker = w.ships[s].attacker
      BY <1>2, <1>4
    <2> QED BY <1>1, <1>2, <1>4, <2>1, <2>2 DEF StepLeaves, w
  <1>5. CASE ~Decided(w)
    <2>1. world' = Seen(w)
      BY <1>2, <1>5
    <2>2. world' \in Worlds /\ SeenTo(world', w)
      BY <1>1, <2>1, SeenType
    <2>3. \A s \in Ships : /\ SameButAttacker(world'.ships[s], w.ships[s])
                           /\ world'.ships[s].attacker = IF w.ships[s].alive /\ w.ships[s].reveal <= world.tick
                                                         THEN {} ELSE w.ships[s].attacker
      BY <2>2, <1>3 DEF SeenTo
    <2>4. Alive(world') = Alive(w)
      BY <2>3 DEF SameButAttacker, Alive
    <2> QED BY <1>1, <1>5, <2>2, <2>3, <2>4 DEF StepLeaves, SeenTo, w
  <1> QED BY <1>4, <1>5

\* The parts of a frame.
FrameTells(f, w, s, mode, heard, hits) ==
  /\ f.tick = w.tick /\ f.mode = mode /\ f.hp = w.ships[s].hp /\ f.ammo = w.ships[s].ammo
  /\ f.cooldown = w.ships[s].cooldown
  /\ f.left = [i \in DOMAIN w.ships[s].selected |->
                 TicksLeft(w.ships[s], w.ships[s].selected[i], w.tick)]
  /\ f.emp = Greatest(0, w.ships[s].emp - w.tick) /\ f.hit = HitsTold(s, hits)
  /\ f.contacts = TracedContacts(w.ships[s], w.tick - 1)
       \cup IF mode = "active" THEN RadarContacts(w, s, w.tick - 1)
            ELSE HeardContacts(w, s, heard, w.tick - 1)

LEMMA FrameFields ==
  ASSUME NEW w, NEW s, NEW mode, NEW heard, NEW hits
  PROVE  FrameTells(Frame(w, s, mode, heard, hits), w, s, mode, heard, hits)
  <1> DEFINE le == [i \in DOMAIN w.ships[s].selected |->
                     TicksLeft(w.ships[s], w.ships[s].selected[i], w.tick)]
             em == Greatest(0, w.ships[s].emp - w.tick)
             hi == HitsTold(s, hits)
             co == TracedContacts(w.ships[s], w.tick - 1)
                     \cup IF mode = "active" THEN RadarContacts(w, s, w.tick - 1)
                          ELSE HeardContacts(w, s, heard, w.tick - 1)
             f  == Frame(w, s, mode, heard, hits)
  <1>1. f = [tick |-> w.tick, mode |-> mode, hp |-> w.ships[s].hp, ammo |-> w.ships[s].ammo,
             cooldown |-> w.ships[s].cooldown, left |-> le, emp |-> em, hit |-> hi,
             contacts |-> co]
    BY DEF Frame
  <1> HIDE DEF le, em, hi, co, f
  <1>2. /\ f.tick = w.tick /\ f.mode = mode /\ f.hp = w.ships[s].hp /\ f.ammo = w.ships[s].ammo
        /\ f.cooldown = w.ships[s].cooldown /\ f.left = le /\ f.emp = em /\ f.hit = hi
        /\ f.contacts = co
    BY <1>1
  <1> QED BY <1>2 DEF FrameTells, le, em, hi, co, f

\* The frames a step sends.
LEMMA StepFrames ==
  ASSUME NEW o, NEW out, Stepping(o, out), ~Decided(out.world)
  PROVE  /\ DOMAIN frames' = Alive(out.world)
         /\ \A s \in Alive(out.world) :
              FrameTells(frames'[s], out.world, s, modes'[s], pingers, out.hits)
  <1>1. /\ DOMAIN frames' = Alive(out.world)
        /\ \A s \in Alive(out.world) :
             frames'[s] = Frame(out.world, s, modes'[s], pingers, out.hits)
    BY DEF Stepping, StepTo, Alive
  <1> QED BY <1>1, FrameFields

LEMMA StepShape ==
  ASSUME Shape, NEW o, NEW out, Stepping(o, out)
  PROVE  Shape'
  <1> DEFINE w == out.world
  <1>1. StepLeaves(out) /\ world.tick \in Nat /\ world'.tick \in Nat
    BY StepLeavesIt, WorldFields DEF Shape, StepLeaves
  <1>2. world'.tick = world.tick + 1 /\ world.tick < Timeout /\ Timeout \in Nat
    BY <1>1, BoundsFacts DEF StepLeaves, Shape, Stepping
  <1>3. /\ phase' \in {"Running", "Ended"} /\ (phase' = "Running" => ~Decided(w))
        /\ Decided(w) => UNCHANGED <<frames, pingers>>
        /\ ~Decided(w) => pingers' = PingersAfter(w, modes')
    BY DEF Stepping, StepTo
  <1>4. phase' = "Running" => world'.tick < Timeout
    BY <1>1, <1>2, <1>3 DEF StepLeaves, Decided
  <1>5. modes' \in [Ships -> Modes]
    BY DEF Stepping, StepTo, Orderly, Order, Shape
  <1>6. pingers' \in SUBSET Ships
    <2>1. PingersAfter(w, modes') \subseteq Ships
      BY DEF PingersAfter, Alive
    <2> QED BY <1>3, <2>1 DEF Shape
  <1>7. \A i \in DOMAIN world'.shells : world'.shells[i].ttl > 0
    <2>1. \A i \in DOMAIN w.shells : w.shells[i].ttl > 0
      BY TickedIs DEF Shape, Stepping
    <2> QED BY <1>1, <2>1 DEF StepLeaves
  <1>8. /\ DOMAIN frames' \subseteq Ships
        /\ \A s \in DOMAIN frames' : frames'[s].tick \in Nat /\ frames'[s].tick <= world'.tick
    <2>1. CASE Decided(w)
      <3>1. \A s \in DOMAIN frames : frames[s].tick \in Nat /\ frames[s].tick <= world.tick
        BY DEF Shape
      <3> QED BY <1>1, <1>2, <1>3, <2>1, <3>1 DEF Shape
    <2>2. CASE ~Decided(w)
      <3>0. /\ DOMAIN frames' = Alive(w)
            /\ \A s \in Alive(w) : FrameTells(frames'[s], w, s, modes'[s], pingers, out.hits)
        BY <2>2, StepFrames
      <3>1. \A s \in Alive(w) : frames'[s].tick = world'.tick
        BY <1>1, <3>0 DEF FrameTells, StepLeaves
      <3> QED BY <1>1, <3>0, <3>1 DEF Alive
    <2> QED BY <2>1, <2>2
  <1> QED BY <1>1, <1>2, <1>3, <1>4, <1>5, <1>6, <1>7, <1>8 DEF Shape, StepLeaves

\* A match starts afresh, the first one or the next.
Starting ==
  /\ phase' = "Running" /\ world' \in Worlds /\ FreshWorld(world')
  /\ modes' = [s \in Ships |-> "passive"] /\ pingers' = {} /\ stats' = NoStats
  /\ frames' = <<>> /\ orders' = <<>> /\ began' = [s \in Ships |-> <<>>]
  /\ lost' = [s \in Ships |-> "afloat"] /\ blows' = <<>>
Fresh ==
  /\ phase = "Running" /\ world \in Worlds /\ FreshWorld(world)
  /\ modes = [s \in Ships |-> "passive"] /\ pingers = {} /\ stats = NoStats
  /\ frames = <<>> /\ orders = <<>> /\ began = [s \in Ships |-> <<>>]
  /\ lost = [s \in Ships |-> "afloat"] /\ blows = <<>>

LEMMA InitIsFresh ==
  ASSUME Init
  PROVE  Fresh
  <1>1. PICK layout \in Layouts, loadout \in Loadouts : world = LaidOut(NewWorld, layout, loadout)
    BY DEF Init
  <1>2. world \in Worlds /\ FreshWorld(world)
    BY <1>1, NewWorldType, LaidOutType
  <1> QED BY <1>2 DEF Init, Fresh

LEMMA RematchIsFresh ==
  ASSUME world \in Worlds, Rematch
  PROVE  Fresh'
  <1>1. PICK layout \in Layouts, loadout \in Loadouts : Started(world, layout, loadout)
    BY DEF Rematch
  <1>2. world' = LaidOut(world, layout, loadout)
    BY <1>1 DEF Started
  <1>3. world' \in Worlds /\ FreshWorld(world')
    BY <1>2, LaidOutType
  <1>4. FreshWorld(world)'
    BY <1>3 DEF FreshWorld, FreshShip
  <1> QED BY <1>1, <1>3, <1>4 DEF Started, Fresh, NoStats

LEMMA ForfeitIs ==
  ASSUME world \in Worlds, NEW s \in Ships, Forfeit(s)
  PROVE  /\ world' \in Worlds /\ StruckDown(world', world, s)
         /\ phase = "Running" /\ world.ships[s].alive
         /\ lost' = [lost EXCEPT ![s] = "forfeited"]
         /\ UNCHANGED <<phase, modes, pingers, stats, frames, screen, orders, began, blows>>
  <1>1. world' = Forfeited(world, s)
    BY DEF Forfeit, Forfeited
  <1> QED BY <1>1, ForfeitType DEF Forfeit

LEMMA FreshShape == Fresh => Shape
  <1> SUFFICES ASSUME Fresh
               PROVE  Shape
    OBVIOUS
  <1>1. world.tick = 0 /\ world.shells = <<>> /\ Timeout \in Nat \ {0}
    BY BoundsFacts DEF Fresh, FreshWorld
  <1>2. modes \in [Ships -> Modes]
    BY DEF Fresh, Modes
  <1> QED BY <1>1, <1>2 DEF Fresh, Shape

LEMMA StruckDownShape ==
  ASSUME Shape, NEW s \in Ships, Forfeit(s)
  PROVE  Shape'
  <1>1. /\ world' \in Worlds /\ StruckDown(world', world, s)
        /\ UNCHANGED <<phase, modes, pingers, frames>>
    BY ForfeitIs DEF Shape
  <1> QED BY <1>1 DEF StruckDown, Shape

LEMMA NextShape ==
  ASSUME Shape, [Next]_vars
  PROVE  Shape'
  <1>1. CASE Step
    <2>1. PICK o, out : Stepping(o, out)
      BY <1>1, StepIs DEF Shape
    <2> QED BY <2>1, StepShape
  <1>2. ASSUME NEW s \in Ships, Forfeit(s)
        PROVE  Shape'
    BY <1>2, StruckDownShape
  <1>3. CASE Rematch
    <2>1. Fresh'
      BY <1>3, RematchIsFresh DEF Shape
    <2>2. Fresh' => Shape'
      BY FreshShape, PTL
    <2> QED BY <2>1, <2>2
  <1>4. CASE UNCHANGED vars
    BY <1>4 DEF vars, Shape
  <1> QED BY <1>1, <1>2, <1>3, <1>4 DEF Next

\* The inductive form of the types: hull and life go together, only live shells are kept, and a
\* running match is short of its timeout.
THEOREM ShapeInvariant == Spec => []Shape
  <1>1. Init => Shape
    BY InitIsFresh, FreshShape
  <1>2. Shape /\ [Next]_vars => Shape'
    BY NextShape
  <1> QED BY <1>1, <1>2, PTL DEF Spec

\* The state has its shape, whatever the ships, the map, the loadouts and the orders: hulls stay
\* within the configured hull and a ship is afloat exactly as long as it has hull, though repairs,
\* walls, shells and forfeits all write it (sim/combat.rs, sim/powerups.rs, Room::forfeit_bot).
THEOREM BattleTypes == Spec => []TypeOK
  <1>1. ASSUME Shape
        PROVE  TypeOK
    <2>1. world.tick \in 0..Timeout
      BY <1>1, WorldFields, BoundsFacts DEF Shape
    <2>2. ASSUME NEW s \in Ships
          PROVE  /\ world.ships[s].hp \in 0..Config.hull
                 /\ world.ships[s].alive = (world.ships[s].hp > 0)
                 /\ world.ships[s].place \in 0..Width /\ world.ships[s].course \in -1..1
                 /\ world.ships[s].heading \in {-1, 1} /\ world.ships[s].ammo \in 0..Config.ammo
                 /\ world.ships[s].cooldown \in 0..(Word - 1)
                 /\ world.ships[s].attacker \subseteq Ships \ {s}
      <3>1. Sound(world.ships[s], s)
        BY <1>1, WorldFields, ShipOf DEF Shape
      <3> QED BY <3>1, FieldsOf
    <2> QED BY <1>1, <2>1, <2>2 DEF Shape, TypeOK
  <1> QED BY <1>1, ShapeInvariant, PTL

-----------------------------------------------------------------------------
(* The refinement of Hulls. *)

Hull(w) == [s \in Ships |-> w.ships[s].hp]
Rounds(w) == [s \in Ships |-> w.ships[s].ammo]

LEMMA HullType ==
  ASSUME NEW w \in Worlds
  PROVE  /\ Hull(w) \in [Ships -> 0..Config.hull]
         /\ \A s \in Ships : w.ships[s].alive <=> w.ships[s].hp > 0
  <1>1. ASSUME NEW s \in Ships
        PROVE  w.ships[s].hp \in 0..Config.hull /\ (w.ships[s].alive <=> w.ships[s].hp > 0)
    <2>1. Sound(w.ships[s], s)
      BY WorldFields, ShipOf
    <2> QED BY <2>1, FieldsOf
  <1> QED BY <1>1 DEF Hull

LEMMA StepIsTick ==
  ASSUME Shape, NEW o, NEW out, Stepping(o, out)
  PROVE  Abstract!Tick
  <1> DEFINE shooters == {s \in Ships : Shoots(world, s, o)}
  <1>1. /\ StepLeaves(out) /\ world \in Worlds /\ world' \in Worlds
        /\ \A s \in Ships : ShipTick(out.world.ships[s], out.moved.ships[s], world, o, s, out.hits)
    BY StepLeavesIt, TickedIs DEF Shape, Stepping, StepLeaves
  <1>2. ASSUME NEW s \in Ships
        PROVE  /\ world'.ships[s].alive => world.ships[s].alive
               /\ ~world.ships[s].alive => world'.ships[s].hp = world.ships[s].hp
               /\ world'.ships[s].ammo = IF s \in shooters THEN world.ships[s].ammo - 1
                                         ELSE world.ships[s].ammo
    BY <1>1 DEF StepLeaves, SameButAttacker, ShipTick
  <1>3. shooters \in SUBSET {s \in Alive(world) : Rounds(world)[s] > 0}
    BY DEF Shoots, CanFire, Alive, Rounds
  <1>4. Hull(world') \in [Ships -> 0..Config.hull]
    BY <1>1, HullType
  <1>5. \A s \in Ships : world'.ships[s].alive <=> world'.ships[s].hp > 0
    BY <1>1, HullType
  <1>6. \A s \in Ships \ Alive(world) : Hull(world')[s] = Hull(world)[s]
    BY <1>2 DEF Alive, Hull
  <1>7. Alive(world') = {s \in Alive(world) : Hull(world')[s] > 0}
    BY <1>2, <1>5 DEF Alive, Hull
  <1>8. Rounds(world') = [s \in Ships |-> IF s \in shooters THEN Rounds(world)[s] - 1
                                          ELSE Rounds(world)[s]]
    BY <1>2 DEF Rounds
  <1>9. /\ phase = "Running" /\ (phase' = "Ended") \in BOOLEAN
        /\ Cardinality(Ships) >= 2 /\ Cardinality(Alive(world')) <= 1 => phase' = "Ended"
    BY <1>1 DEF Stepping, StepTo, StepLeaves, Decided
  <1> HIDE DEF shooters
  <1>10. \E shots \in SUBSET {s \in Alive(world) : Rounds(world)[s] > 0} :
           Rounds(world') = [s \in Ships |-> IF s \in shots THEN Rounds(world)[s] - 1
                                             ELSE Rounds(world)[s]]
    BY <1>3, <1>8
  <1>11. \A S : Abstract!Cardinality(S) = Cardinality(S)
    BY DEF Abstract!Cardinality, Cardinality, Abstract!IsFiniteSet, IsFiniteSet
  <1>12. Abstract!SinkOnlyAtZero
    BY <1>7 DEF Abstract!SinkOnlyAtZero, Hull
  <1>13. Cardinality(Ships) >= 2 /\ Cardinality(Alive(world)') <= 1 => (phase = "Ended")'
    BY <1>9 DEF Alive
  <1> QED BY <1>4, <1>6, <1>9, <1>10, <1>11, <1>12, <1>13
          DEF Abstract!Tick, Hull, Rounds, Alive

LEMMA ForfeitIsStrike ==
  ASSUME Shape, NEW s \in Ships, Forfeit(s)
  PROVE  Abstract!Strike(s)
  <1>1. /\ world \in Worlds /\ world' \in Worlds /\ StruckDown(world', world, s)
        /\ phase = "Running" /\ world.ships[s].alive /\ phase' = phase
    BY ForfeitIs DEF Shape
  <1>2. Hull(world') = [Hull(world) EXCEPT ![s] = 0]
    BY <1>1 DEF StruckDown, Hull
  <1>3. Rounds(world') = Rounds(world)
    BY <1>1 DEF StruckDown, Rounds
  <1>4. Alive(world') = {x \in Alive(world) : Hull(world')[x] > 0}
    <2>1. \A x \in Ships : /\ world'.ships[x].alive <=> world'.ships[x].hp > 0
                           /\ world.ships[x].alive <=> world.ships[x].hp > 0
      BY <1>1, HullType
    <2> QED BY <1>1, <2>1 DEF StruckDown, Alive, Hull
  <1>5. s \in Alive(world)
    BY <1>1 DEF Alive
  <1> QED BY <1>1, <1>2, <1>3, <1>4, <1>5
          DEF Abstract!Strike, Abstract!SinkOnlyAtZero, Hull, Rounds, Alive

LEMMA FreshIsFresh ==
  ASSUME Fresh
  PROVE  /\ Alive(world) = Ships /\ Hull(world) = [s \in Ships |-> Config.hull]
         /\ Rounds(world) = [s \in Ships |-> Config.ammo] /\ phase = "Running"
  BY DEF Fresh, FreshWorld, FreshShip, Alive, Hull, Rounds

LEMMA StepIsHulls ==
  ASSUME Shape, [Next]_vars
  PROVE  [Abstract!Next]_(Abstract!vars)
  <1>1. CASE Step
    <2>1. PICK o, out : Stepping(o, out)
      BY <1>1, StepIs DEF Shape
    <2>2. Abstract!Tick
      BY <2>1, StepIsTick
    <2> QED BY <2>2 DEF Abstract!Next
  <1>2. ASSUME NEW s \in Ships, Forfeit(s)
        PROVE  [Abstract!Next]_(Abstract!vars)
    <2>1. Abstract!Strike(s)
      BY <1>2, ForfeitIsStrike
    <2> QED BY <2>1 DEF Abstract!Next
  <1>3. CASE Rematch
    <2>1. Fresh'
      BY <1>3, RematchIsFresh DEF Shape
    <2>2. phase = "Ended"
      BY <1>3 DEF Rematch
    <2>3. Fresh' => (/\ Alive(world) = Ships /\ Hull(world) = [s \in Ships |-> Config.hull]
                     /\ Rounds(world) = [s \in Ships |-> Config.ammo] /\ phase = "Running")'
      BY FreshIsFresh, PTL
    <2>4. Abstract!Again
      BY <2>1, <2>2, <2>3 DEF Abstract!Again, Hull, Rounds, Alive
    <2> QED BY <2>4 DEF Abstract!Next
  <1>4. CASE UNCHANGED vars
    BY <1>4 DEF vars, Abstract!vars, Alive
  <1> QED BY <1>1, <1>2, <1>3, <1>4 DEF Next

\* Every tick of the simulation is a tick as the room takes it for: ships only sink, at no hull,
\* each fires at most one round of those it has, and wrecks do not change.
THEOREM BattleRefinesHulls == Spec => BattleIsHulls
  <1>1. Init => Abstract!Fresh
    BY InitIsFresh, FreshIsFresh DEF Abstract!Fresh, Hull, Rounds
  <1>2. Shape /\ [Next]_vars => [Abstract!Next]_(Abstract!vars)
    BY StepIsHulls
  <1> QED BY <1>1, <1>2, ShapeInvariant, PTL DEF Spec, BattleIsHulls, Abstract!Spec

-----------------------------------------------------------------------------
(* Who is heard. *)

\* While a match is on, those heard in the next sweep are those whose last frame was an
\* active one.
Pinged ==
  phase = "Running" =>
    pingers = {x \in DOMAIN frames : frames[x].tick = world.tick /\ frames[x].mode = "active"}

HeardBy(x, w, s, heard, t) ==
  /\ x \in Alive(w) \ {s} /\ ~ActiveAt(w.ships[x], "silent_running", t)
  /\ \/ Dist(w.ships[s].place, w.ships[x].place) <= Config.hearNear
     \/ x \in heard /\ Dist(w.ships[s].place, w.ships[x].place) <= Config.hearActive

LEMMA HeardIs ==
  ASSUME NEW w, NEW s, NEW heard, NEW t, NEW x
  PROVE  <<"heard", x>> \in TracedContacts(w.ships[s], t) \cup HeardContacts(w, s, heard, t)
           <=> HeardBy(x, w, s, heard, t)
  <1> DEFINE near(p, r) == Dist(w.ships[s].place, p) <= r
             H == {y \in Alive(w) \ {s} :
                     /\ ~ActiveAt(w.ships[y], "silent_running", t)
                     /\ \/ near(w.ships[y].place, Config.hearNear)
                        \/ y \in heard /\ near(w.ships[y].place, Config.hearActive)}
             D == {e \in w.decoys : e.owner # s /\ near(e.at, Config.hearNear)}
             T == IF w.ships[s].reveal > t THEN w.ships[s].attacker ELSE {}
  <1>1. HeardContacts(w, s, heard, t) = {<<"heard", y>> : y \in H} \cup {<<"decoy", d.owner>> : d \in D}
    BY DEF HeardContacts
  <1>2. TracedContacts(w.ships[s], t) = {<<"trace", a>> : a \in T}
    BY DEF TracedContacts
  <1>3. x \in H <=> HeardBy(x, w, s, heard, t)
    BY DEF HeardBy
  <1> HIDE DEF H, D, T
  <1>4. <<"heard", x>> \notin {<<"trace", a>> : a \in T}
    OBVIOUS
  <1>5. <<"heard", x>> \notin {<<"decoy", d.owner>> : d \in D}
    OBVIOUS
  <1>6. <<"heard", x>> \in {<<"heard", y>> : y \in H} <=> x \in H
    OBVIOUS
  <1> QED BY <1>1, <1>2, <1>3, <1>4, <1>5, <1>6

LEMMA NextPinged ==
  ASSUME Shape, Pinged, [Next]_vars
  PROVE  Pinged'
  <1>1. CASE Step
    <2>1. PICK o, out : Stepping(o, out)
      BY <1>1, StepIs DEF Shape
    <2>2. SUFFICES ASSUME ~Decided(out.world)
                   PROVE  Pinged'
      BY <2>1 DEF Stepping, StepTo, Pinged
    <2>3. /\ DOMAIN frames' = Alive(out.world) /\ pingers' = PingersAfter(out.world, modes')
          /\ \A s \in Alive(out.world) :
               FrameTells(frames'[s], out.world, s, modes'[s], pingers, out.hits)
      BY <2>1, <2>2, StepFrames DEF Stepping, StepTo
    <2>4. world'.tick = out.world.tick
      BY <2>1, StepLeavesIt DEF StepLeaves, Shape
    <2> QED BY <2>3, <2>4 DEF Pinged, PingersAfter, FrameTells
  <1>2. ASSUME NEW s \in Ships, Forfeit(s)
        PROVE  Pinged'
    <2>1. world'.tick = world.tick /\ UNCHANGED <<phase, frames, pingers>>
      BY <1>2, ForfeitIs DEF Shape, StruckDown
    <2> QED BY <2>1 DEF Pinged
  <1>3. CASE Rematch
    BY <1>3 DEF Rematch, Started, Pinged
  <1>4. CASE UNCHANGED vars
    BY <1>4 DEF vars, Pinged
  <1> QED BY <1>1, <1>2, <1>3, <1>4 DEF Next

\* The tick counter is raised by the steps of a match and by nothing else.
LEMMA TickIsStep ==
  ASSUME Shape, [Next]_vars, world'.tick = world.tick + 1
  PROVE  Step
  <1>1. world.tick \in Nat
    BY WorldFields DEF Shape
  <1>2. ASSUME NEW s \in Ships, Forfeit(s)
        PROVE  FALSE
    <2>1. world'.tick = world.tick
      BY <1>2, ForfeitIs DEF Shape, StruckDown
    <2> QED BY <1>1, <2>1
  <1>3. ~Rematch
    <2>1. Rematch => world'.tick = 0
      BY DEF Rematch, Started, LaidOut
    <2> QED BY <1>1, <2>1
  <1>4. ~UNCHANGED vars
    BY <1>1 DEF vars
  <1> QED BY <1>2, <1>3, <1>4 DEF Next

HeardPart ==
  \A s \in DOMAIN frames' : \A x \in Ships \ {s} :
    (/\ phase' = "Running" /\ frames'[s].tick = world'.tick /\ frames'[s].mode = "passive"
     /\ world'.tick = world.tick + 1
     /\ Dist(world'.ships[s].place, world'.ships[x].place) > Config.hearNear)
    => (<<"heard", x>> \in frames'[s].contacts
          <=> /\ x \in DOMAIN frames /\ frames[x].tick = world.tick
              /\ frames[x].mode = "active" /\ world'.ships[x].alive
              /\ ~ActiveAt(world'.ships[x], "silent_running", world.tick)
              /\ Dist(world'.ships[s].place, world'.ships[x].place) <= Config.hearActive)

LEMMA StepIsHeard ==
  ASSUME Shape, Pinged, [Next]_vars
  PROVE  HeardPart
  <1> SUFFICES ASSUME NEW s \in DOMAIN frames', NEW x \in Ships \ {s},
                      phase' = "Running", frames'[s].mode = "passive",
                      world'.tick = world.tick + 1,
                      Dist(world'.ships[s].place, world'.ships[x].place) > Config.hearNear
               PROVE  <<"heard", x>> \in frames'[s].contacts
                        <=> /\ x \in DOMAIN frames /\ frames[x].tick = world.tick
                            /\ frames[x].mode = "active" /\ world'.ships[x].alive
                            /\ ~ActiveAt(world'.ships[x], "silent_running", world.tick)
                            /\ Dist(world'.ships[s].place, world'.ships[x].place) <= Config.hearActive
    BY DEF HeardPart
  <1>1. Step
    BY TickIsStep
  <1>2. PICK o, out : Stepping(o, out)
    BY <1>1, StepIs DEF Shape
  <1> DEFINE w == out.world
             d == Dist(w.ships[s].place, w.ships[x].place)
  <1>3. ~Decided(w) /\ phase = "Running"
    BY <1>2 DEF Stepping, StepTo
  <1>4. s \in Alive(w) /\ FrameTells(frames'[s], w, s, modes'[s], pingers, out.hits)
    BY <1>2, <1>3, StepFrames
  <1>5. StepLeaves(out)
    BY <1>2, StepLeavesIt DEF Shape
  <1>6. w.tick - 1 = world.tick /\ s \in Ships /\ w \in Worlds
    <2>1. s \in Ships
      BY <1>4 DEF Alive
    <2>2. Ticked(out, world, o) /\ world \in Worlds
      BY <1>2 DEF Stepping, Shape
    <2>3. w.tick = world.tick + 1 /\ w \in Worlds /\ world.tick \in Nat
      BY <2>2, TickedIs, WorldFields
    <2> QED BY <2>1, <2>3
  <1>7. /\ SameButAttacker(world'.ships[s], w.ships[s])
        /\ SameButAttacker(world'.ships[x], w.ships[x])
    BY <1>5, <1>6 DEF StepLeaves
  <1>8. /\ world'.ships[x].alive = w.ships[x].alive
        /\ ActiveAt(world'.ships[x], "silent_running", world.tick)
             <=> ActiveAt(w.ships[x], "silent_running", world.tick)
        /\ Dist(world'.ships[s].place, world'.ships[x].place) = d
    BY <1>7 DEF SameButAttacker, ActiveAt
  <1> HIDE DEF w
  <1>9. ~(d <= Config.hearNear)
    <2>1. w.ships[s].place \in Int /\ w.ships[x].place \in Int
      <3>1. Sound(w.ships[s], s) /\ Sound(w.ships[x], x)
        BY <1>6, WorldFields, ShipOf
      <3>2. w.ships[s].place \in 0..Width /\ w.ships[x].place \in 0..Width
        BY <3>1, FieldsOf
      <3> QED BY <3>2, BoundsFacts
    <2>2. d \in Nat /\ Config.hearNear \in Nat
      BY <2>1, DistType, ConfigAssumption DEF SimConfigValid
    <2> HIDE DEF d
    <2> QED BY <1>8, <2>2
  <1>10. x \in pingers <=> x \in DOMAIN frames /\ frames[x].tick = world.tick /\ frames[x].mode = "active"
    BY <1>3 DEF Pinged
  <1>11. frames'[s].contacts = TracedContacts(w.ships[s], world.tick) \cup HeardContacts(w, s, pingers, world.tick)
    <2>1. /\ frames'[s].mode = modes'[s]
          /\ frames'[s].contacts = TracedContacts(w.ships[s], w.tick - 1)
               \cup IF modes'[s] = "active" THEN RadarContacts(w, s, w.tick - 1)
                    ELSE HeardContacts(w, s, pingers, w.tick - 1)
      BY <1>4 DEF FrameTells
    <2> QED BY <1>6, <2>1
  <1>12. <<"heard", x>> \in frames'[s].contacts
           <=> /\ x \in Alive(w) \ {s} /\ ~ActiveAt(w.ships[x], "silent_running", world.tick)
               /\ \/ d <= Config.hearNear
                  \/ x \in pingers /\ d <= Config.hearActive
    <2>1. <<"heard", x>> \in TracedContacts(w.ships[s], world.tick) \cup HeardContacts(w, s, pingers, world.tick)
            <=> HeardBy(x, w, s, pingers, world.tick)
      BY HeardIs
    <2> QED BY <1>11, <2>1 DEF HeardBy
  <1>13. x \in Alive(w) \ {s} <=> w.ships[x].alive
    BY DEF Alive
  <1> QED BY <1>8, <1>9, <1>10, <1>12, <1>13

\* A bot hears a distant radar exactly when it was on in the frame before: the set of pingers that
\* Room::step_tick hands from one tick to the next is that of the last frames, in every match.
THEOREM BattleHearsPings == Spec => HeardIsPinged
  <1>1. Init => Pinged
    BY DEF Init, Pinged
  <1>2. Shape /\ Pinged /\ [Next]_vars => Pinged'
    BY NextPinged
  <1>3. Shape /\ Pinged /\ [Next]_vars => [HeardPart]_vars
    BY StepIsHeard
  <1>4. Spec => [][HeardPart]_vars
    BY <1>1, <1>2, <1>3, ShapeInvariant, PTL DEF Spec
  <1> QED BY <1>4 DEF HeardIsPinged, HeardPart

-----------------------------------------------------------------------------
(* How long effects last. *)

Ends(s, p) == began[s][p] + Config.duration[p]

\* The history has the activations of a match: those of its ships, before the present tick.
Dated ==
  \A s \in Ships : /\ DOMAIN began[s] = world.ships[s].used
                   /\ \A p \in world.ships[s].used : began[s][p] \in Nat /\ began[s][p] < world.tick

\* What is kept in the world for the ships that have activated p.
PutIn(there, p) ==
  /\ \A c \in there : /\ c.owner \in Ships /\ p \in world.ships[c.owner].used
                      /\ c.until = Ends(c.owner, p) /\ c.until >= world.tick
  /\ \A s \in Ships : p \in world.ships[s].used /\ Ends(s, p) >= world.tick
                        => \E c \in there : c.owner = s

\* Every effect ends its duration after its activation; silence may be broken sooner.
TimedShip(s) ==
  \A p \in PowerupId \ InWorld :
    IF p \notin world.ships[s].used THEN world.ships[s].until[p] = 0
    ELSE IF p = "silent_running" THEN world.ships[s].until[p] <= Ends(s, p)
    ELSE world.ships[s].until[p] = Ends(s, p)
JammedShip(s) ==
  world.ships[s].emp > 0 =>
    \E x \in Ships \ {s} : /\ "emp_burst" \in world.ships[x].used
                           /\ world.ships[s].emp = Ends(x, "emp_burst")

Effects ==
  /\ Dated
  /\ PutIn(world.clouds, "smoke_screen") /\ PutIn(world.decoys, "decoy_flare")
  /\ \A s \in Ships : TimedShip(s) /\ JammedShip(s)

\* Clouds or decoys over a tick.
PutAfter(there, before, w, o, p) ==
  /\ \A c \in there :
       /\ c.until > w.tick
       /\ \/ c.owner \in Chose(w, o, Ships, p) /\ c.until = w.tick + Config.duration[p]
          \/ \E e \in before : e.owner = c.owner /\ e.until = c.until
  /\ \A x \in Chose(w, o, Ships, p) : \E c \in there : c.owner = x
  /\ \A e \in before : e.until > w.tick => \E c \in there : c.owner = e.owner

LEMMA PutIsAfter ==
  ASSUME NEW w, w.tick \in Nat, NEW o, NEW p \in PowerupId, NEW there, NEW mid, NEW before,
         PutBy(mid, before, w, o, Ships, p), Kept(there, mid, w.tick)
  PROVE  PutAfter(there, before, w, o, p)
  <1>1. ASSUME NEW c \in there
        PROVE  /\ c.until > w.tick
               /\ \/ c.owner \in Chose(w, o, Ships, p) /\ c.until = w.tick + Config.duration[p]
                  \/ \E e \in before : e.owner = c.owner /\ e.until = c.until
    <2>1. PICK e \in mid : e.owner = c.owner /\ e.until = c.until
      BY DEF Kept
    <2>2. CASE e \in before
      BY <2>1, <2>2 DEF Kept
    <2>3. CASE e \notin before
      BY <2>1, <2>3 DEF Kept, PutBy
    <2> QED BY <2>2, <2>3
  <1>2. ASSUME NEW x \in Chose(w, o, Ships, p)
        PROVE  \E c \in there : c.owner = x
    <2>1. PICK e \in mid : e.owner = x /\ e.until = w.tick + Config.duration[p]
      BY DEF PutBy
    <2>2. e.until > w.tick
      <3>1. Config.duration[p] \in Nat \ {0}
        BY ConfigFacts
      <3> QED BY <2>1, <3>1
    <2> QED BY <2>1, <2>2 DEF Kept
  <1>3. ASSUME NEW e \in before, e.until > w.tick
        PROVE  \E c \in there : c.owner = e.owner
    <2>1. e \in mid
      BY DEF PutBy
    <2> QED BY <1>3, <2>1 DEF Kept
  <1> QED BY <1>1, <1>2, <1>3 DEF PutAfter

LEMMA TickedPuts ==
  ASSUME NEW w \in Worlds, NEW o, NEW out, Ticked(out, w, o)
  PROVE  /\ PutAfter(out.world.clouds, w.clouds, w, o, "smoke_screen")
         /\ PutAfter(out.world.decoys, w.decoys, w, o, "decoy_flare")
  <1>1. PICK a, e, q, z \in Worlds, b \in Dones : Stages(out, w, o, a, e, q, b, z)
    BY DEF Ticked
  <1>2. PICK k \in Worlds : /\ MaintainedTo(k, z)
                            /\ out.world.clouds = k.clouds /\ out.world.decoys = k.decoys
    BY <1>1 DEF Stages
  <1>3. /\ SteeredTo(a, w, o) /\ EmpoweredTo(e, a, o, Ships) /\ ShotTo(q, e, o, Ships)
        /\ MovedTo(out.moved, q)
        /\ z.tick = w.tick /\ z.clouds = out.moved.clouds /\ z.decoys = out.moved.decoys
    BY <1>1 DEF Stages
  <1>4. z.clouds = e.clouds /\ z.decoys = e.decoys
    BY <1>3 DEF ShotTo, MovedTo
  <1>5. Kept(out.world.clouds, e.clouds, w.tick) /\ Kept(out.world.decoys, e.decoys, w.tick)
    BY <1>2, <1>3, <1>4 DEF MaintainedTo
  <1>6. /\ a.tick = w.tick /\ \A p : Chose(a, o, Ships, p) = Chose(w, o, Ships, p)
        /\ a.clouds = w.clouds /\ a.decoys = w.decoys
    <2>1. \A s \in Ships : /\ Activates(a, s, o) <=> Activates(w, s, o)
                           /\ Pick(a, s, o) = Pick(w, s, o)
      BY <1>3, SteeredChoice
    <2>2. \A p : Chose(a, o, Ships, p) = Chose(w, o, Ships, p)
      BY <2>1 DEF Chose
    <2> QED BY <1>3, <2>2 DEF SteeredTo
  <1>7. /\ PutBy(e.clouds, w.clouds, w, o, Ships, "smoke_screen")
        /\ PutBy(e.decoys, w.decoys, w, o, Ships, "decoy_flare")
    <2>1. /\ PutBy(e.clouds, a.clouds, a, o, Ships, "smoke_screen")
          /\ PutBy(e.decoys, a.decoys, a, o, Ships, "decoy_flare")
      BY <1>3 DEF EmpoweredTo
    <2> QED BY <1>6, <2>1 DEF PutBy
  <1>8. "smoke_screen" \in PowerupId /\ "decoy_flare" \in PowerupId /\ w.tick \in Nat
    BY WorldFields DEF PowerupId, InWorld
  <1> QED BY <1>5, <1>7, <1>8, PutIsAfter

\* The history over a step.
Remembered(o) ==
  \A s \in Ships :
    /\ world'.ships[s].used
         = world.ships[s].used \cup IF Activates(world, s, o) THEN {Pick(world, s, o)} ELSE {}
    /\ DOMAIN began'[s] = world'.ships[s].used
    /\ \A p \in world.ships[s].used : began'[s][p] = began[s][p]
    /\ \A p \in world'.ships[s].used \ world.ships[s].used : began'[s][p] = world.tick

LEMMA StepRemembers ==
  ASSUME Shape, NEW o, NEW out, Stepping(o, out)
  PROVE  Remembered(o)
  <1>1. /\ StepLeaves(out)
        /\ \A s \in Ships : ShipTick(out.world.ships[s], out.moved.ships[s], world, o, s, out.hits)
    BY StepLeavesIt, TickedIs DEF Shape, Stepping
  <1>2. began' = [s \in Ships |-> [p \in out.world.ships[s].used |->
                    IF p \in world.ships[s].used THEN began[s][p] ELSE world.tick]]
    BY DEF Stepping, StepTo, Recorded
  <1>3. ASSUME NEW s \in Ships
        PROVE  /\ world'.ships[s].used = out.world.ships[s].used
               /\ out.world.ships[s].used
                    = world.ships[s].used \cup IF Activates(world, s, o) THEN {Pick(world, s, o)} ELSE {}
    BY <1>1 DEF StepLeaves, SameButAttacker, ShipTick
  <1>4. ASSUME NEW s \in Ships
        PROVE  /\ DOMAIN began'[s] = out.world.ships[s].used
               /\ \A p \in out.world.ships[s].used :
                    began'[s][p] = IF p \in world.ships[s].used THEN began[s][p] ELSE world.tick
    BY <1>2
  <1> QED BY <1>3, <1>4 DEF Remembered

LEMMA StepDated ==
  ASSUME Shape, Dated, NEW o, NEW out, Stepping(o, out)
  PROVE  Dated'
  <1>1. Remembered(o) /\ world.tick \in Nat /\ world'.tick = world.tick + 1
    BY StepRemembers, StepLeavesIt, WorldFields DEF Shape, StepLeaves
  <1>2. ASSUME NEW s \in Ships, NEW p \in world'.ships[s].used
        PROVE  began'[s][p] \in Nat /\ began'[s][p] < world'.tick
    <2>1. CASE p \in world.ships[s].used
      <3>1. began'[s][p] = began[s][p] /\ began[s][p] \in Nat /\ began[s][p] < world.tick
        BY <1>1, <2>1 DEF Remembered, Dated
      <3> QED BY <1>1, <3>1
    <2>2. CASE p \notin world.ships[s].used
      <3>1. began'[s][p] = world.tick
        BY <1>1, <2>2 DEF Remembered
      <3> QED BY <1>1, <3>1
    <2> QED BY <2>1, <2>2
  <1> QED BY <1>1, <1>2 DEF Dated, Remembered

\* Where an effect that p begins in this step ends, and where those begun before end.
LEMMA EndsAfter ==
  ASSUME Dated, NEW o, Remembered(o), NEW s \in Ships, NEW p
  PROVE  /\ p \in world.ships[s].used => p \in world'.ships[s].used /\ Ends(s, p)' = Ends(s, p)
         /\ Activates(world, s, o) /\ Pick(world, s, o) = p
              => /\ p \in world'.ships[s].used /\ p \notin world.ships[s].used
                 /\ Ends(s, p)' = world.tick + Config.duration[p]
         /\ p \in world'.ships[s].used /\ p \notin world.ships[s].used
              => Activates(world, s, o) /\ Pick(world, s, o) = p
  <1>1. p \in world.ships[s].used => p \in world'.ships[s].used /\ Ends(s, p)' = Ends(s, p)
    BY DEF Remembered, Ends
  <1>2. Activates(world, s, o) => Pick(world, s, o) \notin world.ships[s].used
    BY DEF Activates
  <1> QED BY <1>1, <1>2 DEF Remembered, Ends

LEMMA StepPuts ==
  ASSUME Shape, Dated, NEW o, Remembered(o), world'.tick = world.tick + 1, NEW p \in PowerupId,
         NEW before, PutIn(before, p), NEW there, PutAfter(there, before, world, o, p)
  PROVE  /\ \A c \in there : /\ c.owner \in Ships /\ p \in world'.ships[c.owner].used
                             /\ c.until = Ends(c.owner, p)' /\ c.until >= world'.tick
         /\ \A s \in Ships : p \in world'.ships[s].used /\ Ends(s, p)' >= world'.tick
                               => \E c \in there : c.owner = s
  <1>0. world.tick \in Nat /\ Config.duration[p] \in Nat \ {0}
    BY WorldFields, ConfigFacts DEF Shape
  <1>1. ASSUME NEW c \in there
        PROVE  /\ c.owner \in Ships /\ p \in world'.ships[c.owner].used
               /\ c.until = Ends(c.owner, p)' /\ c.until >= world'.tick
    <2>1. CASE c.owner \in Chose(world, o, Ships, p) /\ c.until = world.tick + Config.duration[p]
      <3>1. c.owner \in Ships /\ Activates(world, c.owner, o) /\ Pick(world, c.owner, o) = p
        BY <2>1 DEF Chose
      <3>2. p \in world'.ships[c.owner].used /\ Ends(c.owner, p)' = world.tick + Config.duration[p]
        BY <3>1, EndsAfter
      <3>3. world.tick + Config.duration[p] >= world.tick + 1
        BY <1>0
      <3> QED BY <2>1, <3>1, <3>2, <3>3
    <2>2. CASE \E e \in before : e.owner = c.owner /\ e.until = c.until
      <3>1. PICK e \in before : e.owner = c.owner /\ e.until = c.until
        BY <2>2
      <3>2. c.owner \in Ships /\ p \in world.ships[c.owner].used /\ c.until = Ends(c.owner, p)
        BY <3>1 DEF PutIn
      <3>3. p \in world'.ships[c.owner].used /\ Ends(c.owner, p)' = Ends(c.owner, p)
        BY <3>2, EndsAfter
      <3>4. Ends(c.owner, p) \in Nat
        <4>1. began[c.owner][p] \in Nat
          BY <3>2 DEF Dated
        <4> QED BY <1>0, <4>1 DEF Ends
      <3>5. c.until > world.tick
        BY DEF PutAfter
      <3> QED BY <1>0, <3>2, <3>3, <3>4, <3>5
    <2> QED BY <2>1, <2>2 DEF PutAfter
  <1>2. ASSUME NEW s \in Ships, p \in world'.ships[s].used, Ends(s, p)' >= world'.tick
        PROVE  \E c \in there : c.owner = s
    <2>1. CASE p \in world.ships[s].used
      <3>1. Ends(s, p)' = Ends(s, p)
        BY <2>1, EndsAfter
      <3>2. Ends(s, p) \in Nat
        <4>1. began[s][p] \in Nat
          BY <2>1 DEF Dated
        <4> QED BY <1>0, <4>1 DEF Ends
      <3>3. Ends(s, p) >= world.tick /\ Ends(s, p) > world.tick
        BY <1>0, <1>2, <3>1, <3>2
      <3>4. PICK e \in before : e.owner = s
        BY <2>1, <3>3 DEF PutIn
      <3>5. e.until > world.tick
        BY <3>3, <3>4 DEF PutIn
      <3> QED BY <3>4, <3>5 DEF PutAfter
    <2>2. CASE p \notin world.ships[s].used
      <3>1. s \in Chose(world, o, Ships, p)
        BY <1>2, <2>2, EndsAfter DEF Chose
      <3> QED BY <3>1 DEF PutAfter
    <2> QED BY <2>1, <2>2
  <1> QED BY <1>1, <1>2

LEMMA StepTimed ==
  ASSUME Shape, Dated, NEW o, Remembered(o), NEW s \in Ships, TimedShip(s),
         world'.ships[s].until = UntilAfter(world, o, s)
  PROVE  TimedShip(s)'
  <1> DEFINE v == world.ships[s]
  <1>1. Sound(v, s) /\ v.until \in [PowerupId -> Nat] /\ world.tick \in Nat
        /\ v.used \in SUBSET PowerupId
    BY WorldFields, ShipOf, FieldsOf DEF Shape
  <1> SUFFICES ASSUME NEW p \in PowerupId \ InWorld
               PROVE  IF p \notin world'.ships[s].used THEN world'.ships[s].until[p] = 0
                      ELSE IF p = "silent_running" THEN world'.ships[s].until[p] <= Ends(s, p)'
                      ELSE world'.ships[s].until[p] = Ends(s, p)'
    BY DEF TimedShip, Ends
  <1>2. Config.duration[p] \in Nat \ {0} /\ "silent_running" \in PowerupId
    BY ConfigFacts DEF PowerupId
  <1> DEFINE put == UntilSet(world, o, s)
             new == Activates(world, s, o) /\ Pick(world, s, o) = p
  <1>3. put \in [PowerupId -> Nat] /\ put[p] = IF new THEN world.tick + Config.duration[p] ELSE v.until[p]
    <2>1. CASE Activates(world, s, o) /\ Pick(world, s, o) \notin InWorld
      <3> DEFINE k == Pick(world, s, o)
      <3>1. k \in PowerupId
        BY <2>1, PickType DEF Shape
      <3>2. Config.duration[k] \in Nat
        BY <3>1, ConfigFacts
      <3>3. put = [v.until EXCEPT ![k] = world.tick + Config.duration[k]]
        BY <2>1 DEF UntilSet
      <3>4. new <=> k = p
        BY <2>1
      <3> HIDE DEF k, put, v, new
      <3> QED BY <1>1, <3>1, <3>2, <3>3, <3>4
    <2>2. CASE ~(Activates(world, s, o) /\ Pick(world, s, o) \notin InWorld)
      <3>1. put = v.until
        BY <2>2 DEF UntilSet
      <3>2. ~new
        BY <2>2
      <3> HIDE DEF new, put, v
      <3> QED BY <1>1, <3>1, <3>2
    <2> QED BY <2>1, <2>2
  <1>4. world'.ships[s].until[p] = IF Shoots(world, s, o) /\ p = "silent_running"
                                   THEN Least(put[p], world.tick) ELSE put[p]
    <2> HIDE DEF put
    <2>1. UntilAfter(world, o, s) = IF Shoots(world, s, o)
            THEN [put EXCEPT !["silent_running"] = Least(@, world.tick)] ELSE put
      BY DEF UntilAfter, put
    <2> QED BY <1>2, <1>3, <2>1
  <1>5. /\ new => /\ p \in world'.ships[s].used /\ Ends(s, p)' = world.tick + Config.duration[p]
        /\ p \in v.used => ~new /\ p \in world'.ships[s].used /\ Ends(s, p)' = Ends(s, p)
        /\ ~new /\ p \notin v.used => p \notin world'.ships[s].used
    BY EndsAfter
  <1>6. ~new => put[p] = v.until[p]
    BY <1>3
  <1>7. v.until[p] \in Nat /\ put[p] \in Nat
    BY <1>1, <1>3
  <1>8. p \in v.used => Ends(s, p) \in Nat
    <2>1. p \in v.used => began[s][p] \in Nat
      BY DEF Dated
    <2> QED BY <1>2, <2>1 DEF Ends
  <1>9. IF p \notin v.used THEN v.until[p] = 0
        ELSE IF p = "silent_running" THEN v.until[p] <= Ends(s, p) ELSE v.until[p] = Ends(s, p)
    BY DEF TimedShip
  <1> HIDE DEF put, new, v
  <1>10. CASE new
    <2>1. p \in world'.ships[s].used /\ Ends(s, p)' = world.tick + Config.duration[p]
          /\ put[p] = world.tick + Config.duration[p]
      BY <1>3, <1>5, <1>10
    <2>2. Least(put[p], world.tick) <= put[p]
      BY <1>1, <1>7 DEF Least
    <2>3. world'.ships[s].until[p] <= put[p] /\ (p # "silent_running" => world'.ships[s].until[p] = put[p])
      BY <1>4, <1>7, <2>2
    <2> QED BY <2>1, <2>3
  <1>11. CASE ~new /\ p \in v.used
    <2>1. p \in world'.ships[s].used /\ Ends(s, p)' = Ends(s, p) /\ put[p] = v.until[p]
      BY <1>5, <1>6, <1>11
    <2>2. Least(put[p], world.tick) <= put[p]
      BY <1>1, <1>7 DEF Least
    <2>3. world'.ships[s].until[p] <= put[p] /\ (p # "silent_running" => world'.ships[s].until[p] = put[p])
          /\ world'.ships[s].until[p] \in Nat
      BY <1>1, <1>4, <1>7, <2>2 DEF Least
    <2> QED BY <1>7, <1>8, <1>9, <1>11, <2>1, <2>3
  <1>12. CASE ~new /\ p \notin v.used
    <2>1. p \notin world'.ships[s].used /\ put[p] = 0
      BY <1>5, <1>6, <1>9, <1>12
    <2>2. Least(0, world.tick) = 0
      BY <1>1 DEF Least
    <2> QED BY <1>4, <2>1, <2>2
  <1> QED BY <1>10, <1>11, <1>12

LEMMA StepJammed ==
  ASSUME Shape, Dated, NEW o, Remembered(o), NEW s \in Ships, JammedShip(s),
         \/ world'.ships[s].emp = world.ships[s].emp
         \/ /\ Chose(world, o, Ships, "emp_burst") \ {s} # {}
            /\ world'.ships[s].emp = world.tick + Config.duration["emp_burst"]
  PROVE  JammedShip(s)'
  <1> SUFFICES ASSUME world'.ships[s].emp > 0
               PROVE  \E x \in Ships \ {s} : /\ "emp_burst" \in world'.ships[x].used
                                             /\ world'.ships[s].emp = Ends(x, "emp_burst")'
    BY DEF JammedShip, Ends
  <1>1. CASE world'.ships[s].emp = world.ships[s].emp
    <2>1. PICK x \in Ships \ {s} : /\ "emp_burst" \in world.ships[x].used
                                   /\ world.ships[s].emp = Ends(x, "emp_burst")
      BY <1>1 DEF JammedShip
    <2>2. "emp_burst" \in world'.ships[x].used /\ Ends(x, "emp_burst")' = Ends(x, "emp_burst")
      BY <2>1, EndsAfter
    <2> QED BY <1>1, <2>1, <2>2
  <1>2. CASE /\ Chose(world, o, Ships, "emp_burst") \ {s} # {}
             /\ world'.ships[s].emp = world.tick + Config.duration["emp_burst"]
    <2>1. PICK x \in Ships \ {s} : Activates(world, x, o) /\ Pick(world, x, o) = "emp_burst"
      BY <1>2 DEF Chose
    <2>2. /\ "emp_burst" \in world'.ships[x].used
          /\ Ends(x, "emp_burst")' = world.tick + Config.duration["emp_burst"]
      BY <2>1, EndsAfter
    <2> QED BY <1>2, <2>1, <2>2
  <1> QED BY <1>1, <1>2

LEMMA StepEffects ==
  ASSUME Shape, Effects, NEW o, NEW out, Stepping(o, out)
  PROVE  Effects'
  <1>1. StepLeaves(out) /\ Remembered(o) /\ Dated /\ Dated'
    BY StepLeavesIt, StepRemembers, StepDated DEF Shape, Effects
  <1>2. world'.tick = world.tick + 1 /\ world'.clouds = out.world.clouds /\ world'.decoys = out.world.decoys
    BY <1>1 DEF StepLeaves
  <1>3. /\ PutAfter(world'.clouds, world.clouds, world, o, "smoke_screen")
        /\ PutAfter(world'.decoys, world.decoys, world, o, "decoy_flare")
    BY <1>2, TickedPuts DEF Shape, Stepping
  <1>4. "smoke_screen" \in PowerupId /\ "decoy_flare" \in PowerupId
    BY DEF PowerupId, InWorld
  <1>5. PutIn(world.clouds, "smoke_screen")'
    <2>1. PutIn(world.clouds, "smoke_screen")
      BY DEF Effects
    <2>2. /\ \A c \in world'.clouds :
               /\ c.owner \in Ships /\ "smoke_screen" \in world'.ships[c.owner].used
               /\ c.until = Ends(c.owner, "smoke_screen")' /\ c.until >= world'.tick
          /\ \A s \in Ships :
               "smoke_screen" \in world'.ships[s].used /\ Ends(s, "smoke_screen")' >= world'.tick
                 => \E c \in world'.clouds : c.owner = s
      BY <1>1, <1>2, <1>3, <1>4, <2>1, StepPuts
    <2> QED BY <2>2 DEF PutIn, Ends
  <1>6. PutIn(world.decoys, "decoy_flare")'
    <2>1. PutIn(world.decoys, "decoy_flare")
      BY DEF Effects
    <2>2. /\ \A c \in world'.decoys :
               /\ c.owner \in Ships /\ "decoy_flare" \in world'.ships[c.owner].used
               /\ c.until = Ends(c.owner, "decoy_flare")' /\ c.until >= world'.tick
          /\ \A s \in Ships :
               "decoy_flare" \in world'.ships[s].used /\ Ends(s, "decoy_flare")' >= world'.tick
                 => \E c \in world'.decoys : c.owner = s
      BY <1>1, <1>2, <1>3, <1>4, <2>1, StepPuts
    <2> QED BY <2>2 DEF PutIn, Ends
  <1>7. ASSUME NEW s \in Ships
        PROVE  TimedShip(s)' /\ JammedShip(s)'
    <2>1. ShipTick(out.world.ships[s], out.moved.ships[s], world, o, s, out.hits)
      BY TickedIs DEF Shape, Stepping
    <2>2. /\ world'.ships[s].until = out.world.ships[s].until
          /\ world'.ships[s].emp = out.world.ships[s].emp
      BY <1>1 DEF StepLeaves, SameButAttacker
    <2>3. /\ world'.ships[s].until = UntilAfter(world, o, s)
          /\ \/ world'.ships[s].emp = world.ships[s].emp
             \/ /\ Chose(world, o, Ships, "emp_burst") \ {s} # {}
                /\ world'.ships[s].emp = world.tick + Config.duration["emp_burst"]
      BY <2>1, <2>2 DEF ShipTick
    <2>4. TimedShip(s) /\ JammedShip(s)
      BY DEF Effects
    <2>5. TimedShip(s)'
      BY <1>1, <2>3, <2>4, StepTimed
    <2>6. JammedShip(s)'
      BY <1>1, <2>3, <2>4, StepJammed
    <2> QED BY <2>5, <2>6
  <1> QED BY <1>1, <1>5, <1>6, <1>7 DEF Effects

LEMMA FreshEffects == Fresh => Effects
  <1> SUFFICES ASSUME Fresh
               PROVE  Effects
    OBVIOUS
  <1>1. world.clouds = {} /\ world.decoys = {} /\ \A s \in Ships : FreshShip(world.ships[s])
    BY DEF Fresh, FreshWorld
  <1>2. \A s \in Ships : began[s] = <<>> /\ world.ships[s].used = {} /\ world.ships[s].emp = 0
                         /\ world.ships[s].until = [p \in PowerupId |-> 0]
    BY <1>1 DEF Fresh, FreshShip
  <1>3. Dated
    <2>1. \A s \in Ships : DOMAIN began[s] = {} /\ world.ships[s].used = {}
      <3>1. DOMAIN <<>> = {}
        OBVIOUS
      <3> QED BY <1>2, <3>1
    <2> QED BY <2>1 DEF Dated
  <1>4. PutIn(world.clouds, "smoke_screen") /\ PutIn(world.decoys, "decoy_flare")
    BY <1>1, <1>2 DEF PutIn
  <1>5. \A s \in Ships : TimedShip(s) /\ JammedShip(s)
    BY <1>2 DEF TimedShip, JammedShip
  <1> QED BY <1>3, <1>4, <1>5 DEF Effects

LEMMA ForfeitEffects ==
  ASSUME Shape, Effects, NEW s \in Ships, Forfeit(s)
  PROVE  Effects'
  <1>1. StruckDown(world', world, s) /\ began' = began
    BY ForfeitIs DEF Shape
  <1>2. /\ world'.tick = world.tick /\ world'.clouds = world.clouds /\ world'.decoys = world.decoys
        /\ \A x \in Ships : /\ world'.ships[x].used = world.ships[x].used
                            /\ world'.ships[x].until = world.ships[x].until
                            /\ world'.ships[x].emp = world.ships[x].emp
    BY <1>1 DEF StruckDown
  <1>3. Dated'
    BY <1>1, <1>2 DEF Effects, Dated
  <1>4. /\ PutIn(world.clouds, "smoke_screen")'
        /\ PutIn(world.decoys, "decoy_flare")'
    BY <1>1, <1>2 DEF Effects, PutIn, Ends
  <1>5. \A x \in Ships : TimedShip(x)' /\ JammedShip(x)'
    BY <1>1, <1>2 DEF Effects, TimedShip, JammedShip, Ends
  <1> QED BY <1>3, <1>4, <1>5 DEF Effects

LEMMA NextEffects ==
  ASSUME Shape, Effects, [Next]_vars
  PROVE  Effects'
  <1>1. CASE Step
    <2>1. PICK o, out : Stepping(o, out)
      BY <1>1, StepIs DEF Shape
    <2> QED BY <2>1, StepEffects
  <1>2. ASSUME NEW s \in Ships, Forfeit(s)
        PROVE  Effects'
    BY <1>2, ForfeitEffects
  <1>3. CASE Rematch
    <2>1. Fresh'
      BY <1>3, RematchIsFresh DEF Shape
    <2>2. Fresh' => Effects'
      BY FreshEffects, PTL
    <2> QED BY <2>1, <2>2
  <1>4. CASE UNCHANGED vars
    BY <1>4 DEF vars, history, Effects, Dated, PutIn, TimedShip, JammedShip, Ends
  <1> QED BY <1>1, <1>2, <1>3, <1>4 DEF Next

\* The inductive form of the next theorem: each place that holds an effect dates it from the tick
\* its powerup was used.
THEOREM EffectsInvariant == Spec => []Effects
  <1>1. Init => Effects
    BY InitIsFresh, FreshEffects
  <1>2. Shape /\ Effects /\ [Next]_vars => Effects'
    BY NextEffects
  <1> QED BY <1>1, <1>2, ShapeInvariant, PTL DEF Spec

\* An effect is live in the last sweep iff it ends no earlier than the present tick.
Live(s, p) ==
  p \in DOMAIN began[s]
    /\ (world.tick - 1) \in began[s][p]..(began[s][p] + Config.duration[p] - 1)

LEMMA LiveIs ==
  ASSUME Shape, Dated, NEW s \in Ships, NEW p \in PowerupId
  PROVE  /\ Live(s, p) <=> p \in world.ships[s].used /\ Ends(s, p) >= world.tick
         /\ p \in world.ships[s].used => Ends(s, p) \in Nat
  <1>1. world.tick \in Nat /\ Config.duration[p] \in Nat \ {0}
    BY WorldFields, ConfigFacts DEF Shape
  <1>2. DOMAIN began[s] = world.ships[s].used
    BY DEF Dated
  <1>3. CASE p \in world.ships[s].used
    <2>1. began[s][p] \in Nat /\ began[s][p] < world.tick
      BY <1>3 DEF Dated
    <2> DEFINE b == began[s][p]
               d == Config.duration[p]
    <2>2. b \in Nat /\ b < world.tick /\ d \in Nat \ {0}
      BY <1>1, <2>1
    <2> HIDE DEF b, d
    <2>3. (world.tick - 1) \in b..(b + d - 1) <=> b + d >= world.tick
      BY <1>1, <2>2
    <2>4. b + d \in Nat
      BY <2>2
    <2> QED BY <1>2, <1>3, <2>3, <2>4 DEF Live, Ends, b, d
  <1>4. CASE p \notin world.ships[s].used
    BY <1>2, <1>4 DEF Live
  <1> QED BY <1>3, <1>4

LEMMA OwnersAreLive ==
  ASSUME Shape, Dated, NEW p \in PowerupId, NEW there, PutIn(there, p)
  PROVE  /\ {c.owner : c \in there} = {s \in Ships : Live(s, p)}
         /\ \A c \in there : c.until > world.tick - 1
  <1>1. ASSUME NEW c \in there
        PROVE  c.owner \in Ships /\ Live(c.owner, p) /\ c.until > world.tick - 1
    <2>1. /\ c.owner \in Ships /\ p \in world.ships[c.owner].used
          /\ c.until = Ends(c.owner, p) /\ c.until >= world.tick
      BY DEF PutIn
    <2>2. Live(c.owner, p) /\ Ends(c.owner, p) \in Nat
      BY <2>1, LiveIs
    <2>3. world.tick \in Nat
      BY WorldFields DEF Shape
    <2> QED BY <2>1, <2>2, <2>3
  <1>2. ASSUME NEW s \in Ships, Live(s, p)
        PROVE  \E c \in there : c.owner = s
    <2>1. p \in world.ships[s].used /\ Ends(s, p) >= world.tick
      BY <1>2, LiveIs
    <2> QED BY <2>1 DEF PutIn
  <1> QED BY <1>1, <1>2

\* Every effect is in force in as many sweeps as its duration says, in all the places that hold
\* it: the ship, the clouds and decoys that maintenance collects, the ships an EMP burst caught.
THEOREM BattleEffectsLast == Spec => []EffectsLastTheirDuration
  <1>1. ASSUME Shape, Effects
        PROVE  EffectsLastTheirDuration
    <2> DEFINE t == world.tick - 1
    <2>1. Dated /\ world.tick \in Nat
      BY <1>1, WorldFields DEF Shape, Effects
    <2>2. /\ {c.owner : c \in world.clouds} = {s \in Ships : Live(s, "smoke_screen")}
          /\ {d.owner : d \in world.decoys} = {s \in Ships : Live(s, "decoy_flare")}
          /\ \A e \in world.clouds \cup world.decoys : e.until > t
      <3>1. "smoke_screen" \in PowerupId /\ "decoy_flare" \in PowerupId
        BY DEF PowerupId, InWorld
      <3>2. PutIn(world.clouds, "smoke_screen") /\ PutIn(world.decoys, "decoy_flare")
        BY <1>1 DEF Effects
      <3>3. /\ {c.owner : c \in world.clouds} = {s \in Ships : Live(s, "smoke_screen")}
            /\ \A c \in world.clouds : c.until > world.tick - 1
        BY <1>1, <2>1, <3>1, <3>2, OwnersAreLive
      <3>4. /\ {d.owner : d \in world.decoys} = {s \in Ships : Live(s, "decoy_flare")}
            /\ \A d \in world.decoys : d.until > world.tick - 1
        BY <1>1, <2>1, <3>1, <3>2, OwnersAreLive
      <3> QED BY <3>3, <3>4
    <2>3. ASSUME NEW s \in Ships, NEW p \in PowerupId \ InWorld, world.tick > 0
          PROVE  IF p = "silent_running"
                 THEN ActiveAt(world.ships[s], p, t) => Live(s, p)
                 ELSE ActiveAt(world.ships[s], p, t) <=> Live(s, p)
      <3>1. /\ Live(s, p) <=> p \in world.ships[s].used /\ Ends(s, p) >= world.tick
            /\ p \in world.ships[s].used => Ends(s, p) \in Nat
        BY <1>1, <2>1, LiveIs
      <3>2. Sound(world.ships[s], s)
        BY <1>1, WorldFields, ShipOf DEF Shape
      <3>3. world.ships[s].until[p] \in Nat
        BY <3>2, FieldsOf
      <3>4. IF p \notin world.ships[s].used THEN world.ships[s].until[p] = 0
            ELSE IF p = "silent_running" THEN world.ships[s].until[p] <= Ends(s, p)
            ELSE world.ships[s].until[p] = Ends(s, p)
        BY <1>1 DEF Effects, TimedShip
      <3>5. ActiveAt(world.ships[s], p, t) <=> world.ships[s].until[p] > world.tick - 1
        BY DEF ActiveAt
      <3>7. CASE p \notin world.ships[s].used
        <4>1. ~Live(s, p) /\ world.ships[s].until[p] = 0
          BY <3>1, <3>4, <3>7
        <4>2. ~ActiveAt(world.ships[s], p, t)
          BY <2>1, <2>3, <3>5, <4>1
        <4> QED BY <4>1, <4>2
      <3>8. CASE p \in world.ships[s].used
        <4>1. Live(s, p) <=> Ends(s, p) >= world.tick
          BY <3>1, <3>8
        <4>2. Ends(s, p) \in Nat
          BY <3>1, <3>8
        <4>3. IF p = "silent_running" THEN world.ships[s].until[p] <= Ends(s, p)
              ELSE world.ships[s].until[p] = Ends(s, p)
          BY <3>4, <3>8
        <4> QED BY <2>1, <3>3, <3>5, <4>1, <4>2, <4>3
      <3> QED BY <3>7, <3>8
    <2>4. ASSUME NEW s \in Ships, world.ships[s].emp > t, world.tick > 0
          PROVE  {x \in Ships : Live(x, "emp_burst")} \ {s} # {}
      <3>1. Sound(world.ships[s], s)
        BY <1>1, WorldFields, ShipOf DEF Shape
      <3>2. world.ships[s].emp \in Nat
        BY <3>1, FieldsOf
      <3>3. world.ships[s].emp > 0 /\ world.ships[s].emp >= world.tick
        BY <2>1, <2>4, <3>2
      <3>4. PICK x \in Ships \ {s} : /\ "emp_burst" \in world.ships[x].used
                                     /\ world.ships[s].emp = Ends(x, "emp_burst")
        BY <1>1, <3>3 DEF Effects, JammedShip
      <3>5. "emp_burst" \in PowerupId
        BY DEF PowerupId
      <3>6. Live(x, "emp_burst")
        BY <1>1, <2>1, <3>3, <3>4, <3>5, LiveIs
      <3> QED BY <3>4, <3>6
    <2> QED BY <2>2, <2>3, <2>4 DEF EffectsLastTheirDuration, Live
  <1> QED BY <1>1, ShapeInvariant, EffectsInvariant, PTL

-----------------------------------------------------------------------------
(* Traces. *)

Blow == [ship : Ships, by : Ships, at : Nat]
Trace == "counter_battery_trace"

\* The blows a ship's trace has taken note of.
Armed(s) ==
  {i \in DOMAIN blows :
     /\ blows[i].ship = s /\ blows[i].by # s /\ Trace \in DOMAIN began[s]
     /\ blows[i].at \in began[s][Trace]..(began[s][Trace] + Config.duration[Trace] - 1)}
NotedShip(s) ==
  /\ Armed(s) = {} => world.ships[s].attacker = {}
  /\ \A i \in Armed(s) : (\A k \in Armed(s) : k <= i) =>
       /\ world.ships[s].reveal = blows[i].at + Config.reveal
       /\ world.ships[s].reveal > world.tick - 1 => world.ships[s].attacker = {blows[i].by}
Traces(contacts) == {c \in contacts : c[1] = "trace"}
Noted ==
  /\ blows \in Seq(Blow) /\ \A i \in DOMAIN blows : blows[i].at < world.tick
  /\ \A s \in Ships : NotedShip(s)
  /\ \A s \in DOMAIN frames : frames[s].tick = world.tick =>
       Traces(frames[s].contacts) = TracedContacts(world.ships[s], world.tick - 1)

Shown(w, s, mode, heard, t) ==
  TracedContacts(w.ships[s], t)
    \cup IF mode = "active" THEN RadarContacts(w, s, t) ELSE HeardContacts(w, s, heard, t)

LEMMA TracesIs ==
  ASSUME NEW w, NEW s, NEW mode, NEW heard, NEW t
  PROVE  Traces(Shown(w, s, mode, heard, t)) = TracedContacts(w.ships[s], t)
  <1>1. \A c \in TracedContacts(w.ships[s], t) : c[1] = "trace"
    BY DEF TracedContacts
  <1>2. \A c \in HeardContacts(w, s, heard, t) : c[1] # "trace"
    <2>1. PICK H, D : HeardContacts(w, s, heard, t)
                        = {<<"heard", x>> : x \in H} \cup {<<"decoy", d.owner>> : d \in D}
      BY DEF HeardContacts
    <2>2. \A c \in {<<"heard", x>> : x \in H} : c[1] # "trace"
      OBVIOUS
    <2>3. \A c \in {<<"decoy", d.owner>> : d \in D} : c[1] # "trace"
      OBVIOUS
    <2> QED BY <2>1, <2>2, <2>3
  <1>3. \A c \in RadarContacts(w, s, t) : c[1] # "trace"
    <2> DEFINE me == w.ships[s]
               awacs == ActiveAt(me, "awacs_scan", t)
               range == IF awacs THEN Scaled(Config.radar, Config.awacsMult) ELSE Config.radar
               quiet(x) == ActiveAt(w.ships[x], "silent_running", t)
               reach(x) == IF ~quiet(x) THEN range
                           ELSE IF awacs THEN Config.radar ELSE Scaled(range, Config.silentMult)
               seen(p, r) == Dist(me.place, p) <= r /\ ~SmokeBlocks(w, me.place, p, t)
               X == {y \in Alive(w) \ {s} : seen(w.ships[y].place, reach(y))}
               D == {e \in w.decoys : e.owner # s /\ seen(e.at, range)}
               J == {j \in DOMAIN w.shells : seen(w.shells[j].at, range)}
               kind(x) == IF quiet(x) /\ awacs THEN "faint" ELSE "radar"
    <2>1. RadarContacts(w, s, t) =
            IF me.emp > t THEN {}
            ELSE {<<kind(x), x>> : x \in X} \cup {<<"decoy", d.owner>> : d \in D}
                   \cup {<<"shell", w.shells[i].by>> : i \in J}
      BY DEF RadarContacts
    <2>2. \A x : kind(x) # "trace"
      OBVIOUS
    <2> HIDE DEF X, D, J, kind
    <2>3. \A c \in {<<kind(x), x>> : x \in X} : c[1] # "trace"
      BY <2>2
    <2>4. \A c \in {<<"decoy", d.owner>> : d \in D} : c[1] # "trace"
      OBVIOUS
    <2>5. \A c \in {<<"shell", w.shells[i].by>> : i \in J} : c[1] # "trace"
      OBVIOUS
    <2> QED BY <2>1, <2>3, <2>4, <2>5
  <1> QED BY <1>1, <1>2, <1>3 DEF Traces, Shown

\* The blows of a step.
BlowsAfter(hits) ==
  /\ blows' \in Seq(Blow) /\ DOMAIN blows' = 1..(Len(blows) + Len(hits)) /\ Len(blows) \in Nat
  /\ DOMAIN blows = 1..Len(blows) /\ DOMAIN hits = 1..Len(hits) /\ Len(hits) \in Nat
  /\ \A i \in DOMAIN blows : blows'[i] = blows[i]
  /\ \A i \in DOMAIN hits : /\ blows'[Len(blows) + i].ship = hits[i].ship
                            /\ blows'[Len(blows) + i].by = hits[i].by
                            /\ blows'[Len(blows) + i].at = world.tick

IsJoin(r, p, q, S) ==
  /\ r \in Seq(S) /\ DOMAIN r = 1..(Len(p) + Len(q)) /\ Len(p) \in Nat /\ Len(q) \in Nat
  /\ DOMAIN p = 1..Len(p) /\ DOMAIN q = 1..Len(q)
  /\ \A i \in 1..Len(p) : r[i] = p[i]
  /\ \A i \in 1..Len(q) : r[Len(p) + i] = q[i]

LEMMA Joined ==
  ASSUME NEW S, NEW p \in Seq(S), NEW q \in Seq(S)
  PROVE  IsJoin(p \o q, p, q, S)
  BY DEF IsJoin

LEMMA StepBlows ==
  ASSUME Shape, blows \in Seq(Blow), NEW o, NEW out, Stepping(o, out)
  PROVE  BlowsAfter(out.hits)
  <1> DEFINE h == out.hits
             more == [i \in DOMAIN h |-> [ship |-> h[i].ship, by |-> h[i].by, at |-> world.tick]]
  <1>1. h \in Seq(Hits) /\ world.tick \in Nat
    BY TickedIs, WorldFields DEF Shape, Stepping
  <1>2. blows' = blows \o more
    BY DEF Stepping, StepTo, Recorded
  <1> HIDE DEF h
  <1>3. more \in Seq(Blow) /\ Len(more) = Len(h)
    <2>1. DOMAIN h = 1..Len(h) /\ Len(h) \in Nat
      BY <1>1
    <2>2. \A i \in DOMAIN h : h[i].ship \in Ships /\ h[i].by \in Ships
      <3>1. \A i \in DOMAIN h : h[i] \in Hits
        BY <1>1
      <3> QED BY <3>1 DEF Hits
    <2>3. \A i \in DOMAIN h : more[i] \in Blow
      BY <1>1, <2>2 DEF Blow
    <2>4. more \in [1..Len(h) -> Blow]
      BY <2>1, <2>3
    <2> QED BY <2>1, <2>4
  <1>4. \A i \in DOMAIN h : more[i].ship = h[i].ship /\ more[i].by = h[i].by /\ more[i].at = world.tick
    OBVIOUS
  <1> HIDE DEF more
  <1>5. /\ blows' \in Seq(Blow) /\ DOMAIN blows' = 1..(Len(blows) + Len(more))
        /\ Len(blows) \in Nat /\ Len(more) \in Nat /\ DOMAIN blows = 1..Len(blows)
        /\ \A i \in 1..Len(blows) : blows'[i] = blows[i]
        /\ \A i \in 1..Len(more) : blows'[Len(blows) + i] = more[i]
    <2>1. IsJoin(blows', blows, more, Blow)
      BY <1>2, <1>3, Joined
    <2> QED BY <2>1 DEF IsJoin
  <1>6. DOMAIN h = 1..Len(h) /\ Len(h) \in Nat
    BY <1>1
  <1> QED BY <1>3, <1>4, <1>5, <1>6 DEF BlowsAfter, h

\* What a step adds to the blows a trace has taken note of.
LEMMA StepArmed ==
  ASSUME Shape, Effects, Noted, NEW o, NEW out, Stepping(o, out), NEW s \in Ships
  PROVE  Armed(s)' = Armed(s) \cup
           IF UntilAfter(world, o, s)[Trace] > world.tick
           THEN {Len(blows) + i : i \in HitsBy(out.hits, s)} ELSE {}
  <1> DEFINE h == out.hits
             u == UntilAfter(world, o, s)[Trace]
             b == began'[s][Trace]
             d == Config.duration[Trace]
             t == world.tick
  <1>1. BlowsAfter(h)
    BY StepBlows DEF Noted
  <1>2. Effects' /\ Remembered(o) /\ StepLeaves(out) /\ Shape' /\ Dated
    BY StepEffects, StepRemembers, StepLeavesIt, StepShape DEF Shape, Effects
  <1>3. Trace \in PowerupId \ InWorld /\ Trace # "silent_running" /\ d \in Nat \ {0} /\ t \in Nat
        /\ world'.tick = t + 1
    BY <1>2, ConfigFacts, WorldFields DEF PowerupId, InWorld, Trace, Shape, StepLeaves
  <1>4. world'.ships[s].until[Trace] = u
    <2>1. ShipTick(out.world.ships[s], out.moved.ships[s], world, o, s, out.hits)
      BY TickedIs DEF Shape, Stepping
    <2>2. world'.ships[s].until = out.world.ships[s].until
      BY <1>2 DEF StepLeaves, SameButAttacker
    <2> QED BY <2>1, <2>2 DEF ShipTick
  <1>5. /\ DOMAIN began'[s] = world'.ships[s].used
        /\ Trace \in world'.ships[s].used => b \in Nat /\ b < t + 1 /\ u = b + d
        /\ Trace \notin world'.ships[s].used => u = 0
    <2>1. /\ DOMAIN began'[s] = world'.ships[s].used
          /\ Trace \in world'.ships[s].used => began'[s][Trace] \in Nat /\ began'[s][Trace] < world'.tick
      BY <1>2 DEF Effects, Dated
    <2>2. IF Trace \notin world'.ships[s].used THEN world'.ships[s].until[Trace] = 0
          ELSE world'.ships[s].until[Trace] = began'[s][Trace] + Config.duration[Trace]
      BY <1>2, <1>3 DEF Effects, TimedShip, Ends
    <2> QED BY <1>3, <1>4, <2>1, <2>2
  <1>6. /\ DOMAIN began[s] = world.ships[s].used
        /\ Trace \in world.ships[s].used => Trace \in world'.ships[s].used /\ b = began[s][Trace]
        /\ Trace \in world'.ships[s].used /\ Trace \notin world.ships[s].used => b = t
    BY <1>2 DEF Dated, Remembered
  <1> HIDE DEF h, u, b, d, t
  <1>7. ASSUME NEW i \in DOMAIN blows
        PROVE  i \in Armed(s)' <=> i \in Armed(s)
    <2>1. blows'[i] = blows[i] /\ i \in DOMAIN blows'
      BY <1>1 DEF BlowsAfter
    <2>2. blows[i].at \in Nat /\ blows[i].at < t
      <3>1. blows \in Seq(Blow) /\ blows[i].at < t
        BY DEF Noted, t
      <3>2. blows[i] \in Blow
        BY <3>1
      <3> QED BY <3>1, <3>2 DEF Blow
    <2>3. CASE Trace \in world.ships[s].used
      BY <1>5, <1>6, <2>1, <2>3 DEF Armed, b
    <2>4. CASE Trace \notin world.ships[s].used
      <3>1. i \notin Armed(s)
        BY <1>6, <2>4 DEF Armed
      <3>2. CASE Trace \notin world'.ships[s].used
        BY <1>5, <3>1, <3>2 DEF Armed
      <3>3. CASE Trace \in world'.ships[s].used
        <4>1. b = t
          BY <1>6, <2>4, <3>3
        <4>2. blows[i].at \notin b..(b + d - 1)
          BY <1>3, <2>2, <4>1
        <4>3. i \notin Armed(s)'
          BY <2>1, <4>2 DEF Armed, b, d
        <4> QED BY <3>1, <4>3
      <3> QED BY <3>2, <3>3
    <2> QED BY <2>3, <2>4
  <1>8. u > t <=> Trace \in DOMAIN began'[s] /\ t \in b..(b + d - 1)
    <2>1. CASE Trace \in world'.ships[s].used
      <3>1. b \in Nat /\ b < t + 1 /\ u = b + d
        BY <1>5, <2>1
      <3>2. u > t <=> t \in b..(b + d - 1)
        BY <1>3, <3>1
      <3> QED BY <1>5, <2>1, <3>2
    <2>2. CASE Trace \notin world'.ships[s].used
      <3>1. u = 0
        BY <1>5, <2>2
      <3> QED BY <1>3, <1>5, <2>2, <3>1
    <2> QED BY <2>1, <2>2
  <1>9. ASSUME NEW i \in DOMAIN h
        PROVE  (Len(blows) + i) \in Armed(s)' <=> i \in HitsBy(h, s) /\ u > t
    <2> DEFINE j == Len(blows) + i
    <2>1. /\ j \in DOMAIN blows' /\ blows'[j].ship = h[i].ship /\ blows'[j].by = h[i].by
          /\ blows'[j].at = t
      BY <1>1 DEF BlowsAfter, t
    <2> HIDE DEF j
    <2>2. j \in Armed(s)' <=> /\ h[i].ship = s /\ h[i].by # s
                              /\ Trace \in DOMAIN began'[s] /\ t \in b..(b + d - 1)
      BY <2>1 DEF Armed, b, d
    <2>3. i \in HitsBy(h, s) <=> h[i].ship = s /\ h[i].by # s
      BY DEF HitsBy
    <2> QED BY <1>8, <2>2, <2>3 DEF j
  <1>10. \A j \in DOMAIN blows' : j \in DOMAIN blows \/ \E i \in DOMAIN h : j = Len(blows) + i
    <2> SUFFICES ASSUME NEW j \in DOMAIN blows', j \notin DOMAIN blows
                 PROVE  \E i \in DOMAIN h : j = Len(blows) + i
      OBVIOUS
    <2>1. (j - Len(blows)) \in DOMAIN h /\ j = Len(blows) + (j - Len(blows))
      BY <1>1 DEF BlowsAfter
    <2> QED BY <2>1
  <1>11. Armed(s) \subseteq DOMAIN blows /\ Armed(s)' \subseteq DOMAIN blows' /\ HitsBy(h, s) \subseteq DOMAIN h
         /\ DOMAIN blows \subseteq DOMAIN blows'
    BY <1>1 DEF Armed, HitsBy, BlowsAfter
  <1>12. CASE u > t
    <2>1. Armed(s)' = Armed(s) \cup {Len(blows) + i : i \in HitsBy(h, s)}
      BY <1>7, <1>9, <1>10, <1>11, <1>12
    <2> QED BY <1>12, <2>1 DEF u, h, t
  <1>13. CASE ~(u > t)
    <2>1. Armed(s)' = Armed(s)
      BY <1>7, <1>9, <1>10, <1>11, <1>13
    <2> QED BY <1>13, <2>1 DEF u, h, t
  <1> QED BY <1>12, <1>13

LEMMA StepNotedShip ==
  ASSUME Shape, Effects, Noted, NEW o, NEW out, Stepping(o, out), NEW s \in Ships
  PROVE  NotedShip(s)'
  <1> DEFINE h == out.hits
             u == UntilAfter(world, o, s)[Trace]
             t == world.tick
             x == out.world.ships[s]
             v == world.ships[s]
             n == world'.ships[s]
  <1>1. BlowsAfter(h) /\ StepLeaves(out) /\ Dated /\ NotedShip(s)
    BY StepBlows, StepLeavesIt DEF Noted, Shape, Effects
  <1>2. t \in Nat /\ world'.tick = t + 1 /\ Config.reveal \in Nat \ {0} /\ v.reveal \in Nat /\ n.reveal \in Nat
    <2>1. Sound(world.ships[s], s) /\ Sound(world'.ships[s], s)
      BY <1>1, WorldFields, ShipOf DEF Shape, StepLeaves
    <2> QED BY <1>1, <2>1, WorldFields, FieldsOf, ConfigFacts DEF Shape, StepLeaves
  <1>3. Armed(s)' = Armed(s) \cup IF u > t THEN {Len(blows) + i : i \in HitsBy(h, s)} ELSE {}
    BY StepArmed
  <1>4. /\ n.reveal = x.reveal
        /\ n.attacker = x.attacker \/ (n.attacker = {} /\ x.reveal <= t)
    BY <1>1 DEF StepLeaves, SameButAttacker
  <1>5. IF u > t /\ HitsBy(h, s) # {}
        THEN /\ x.reveal = t + Config.reveal
             /\ \E i \in HitsBy(h, s) : /\ \A k \in HitsBy(h, s) : k <= i
                                        /\ x.attacker = {h[i].by}
        ELSE /\ x.reveal = IF Rearmed(world, o, s) THEN 0 ELSE v.reveal
             /\ x.attacker = IF Rearmed(world, o, s) THEN {} ELSE v.attacker
    <2>1. ShipTick(x, out.moved.ships[s], world, o, s, h)
      BY TickedIs DEF Shape, Stepping
    <2> QED BY <2>1 DEF ShipTick, Trace
  <1>6. Rearmed(world, o, s) => Armed(s) = {}
    <2>1. Rearmed(world, o, s) => Trace \notin world.ships[s].used
      BY DEF Rearmed, Activates, Trace
    <2>2. Trace \notin DOMAIN began[s] => Armed(s) = {}
      BY DEF Armed
    <2> QED BY <1>1, <2>1, <2>2 DEF Dated
  <1>7. Armed(s) \subseteq DOMAIN blows
    BY DEF Armed
  <1> HIDE DEF h, u, t, x, v, n
  <1>8. CASE u > t /\ HitsBy(h, s) # {}
    <2>1. PICK i \in HitsBy(h, s) : (\A k \in HitsBy(h, s) : k <= i) /\ x.attacker = {h[i].by}
      BY <1>5, <1>8
    <2>2. x.reveal = t + Config.reveal
      BY <1>5, <1>8
    <2> DEFINE j == Len(blows) + i
    <2>3. /\ i \in DOMAIN h /\ i \in Nat /\ Len(blows) \in Nat
          /\ blows'[j].by = h[i].by /\ blows'[j].at = t
          /\ DOMAIN blows = 1..Len(blows) /\ DOMAIN h \subseteq Nat \ {0}
      BY <1>1 DEF BlowsAfter, HitsBy, t
    <2>4. j \in Armed(s)'
      BY <1>3, <1>8
    <2>5. \A k \in Armed(s)' : k <= j
      <3> SUFFICES ASSUME NEW k \in Armed(s)'
                   PROVE  k <= j
        OBVIOUS
      <3>1. CASE k \in Armed(s)
        BY <1>7, <2>3, <3>1
      <3>2. CASE k \notin Armed(s)
        <4>1. PICK m \in HitsBy(h, s) : k = Len(blows) + m
          BY <1>3, <1>8, <3>2
        <4>2. m <= i /\ m \in Nat
          BY <2>1, <2>3 DEF HitsBy
        <4> QED BY <2>3, <4>1, <4>2
      <3> QED BY <3>1, <3>2
    <2>6. ASSUME NEW k \in Armed(s)', \A m \in Armed(s)' : m <= k
          PROVE  k = j
      <3>1. k \in Int
        <4>1. CASE k \in Armed(s)
          BY <1>7, <2>3, <4>1
        <4>2. CASE k \notin Armed(s)
          <5>1. PICK m \in HitsBy(h, s) : k = Len(blows) + m
            BY <1>3, <1>8, <4>2
          <5>2. m \in Nat
            BY <2>3 DEF HitsBy
          <5> QED BY <2>3, <5>1, <5>2
        <4> QED BY <4>1, <4>2
      <3>2. k <= j /\ j <= k
        BY <2>4, <2>5, <2>6
      <3> QED BY <2>3, <3>1, <3>2
    <2>7. n.attacker = {h[i].by} /\ n.reveal = t + Config.reveal
      <3>1. ~(x.reveal <= t)
        BY <1>2, <2>2
      <3> QED BY <1>4, <2>1, <2>2, <3>1
    <2> HIDE DEF j
    <2>8. /\ Armed(s)' # {}
          /\ \A k \in Armed(s)' : (\A m \in Armed(s)' : m <= k) =>
               /\ n.reveal = blows'[k].at + Config.reveal /\ n.attacker = {blows'[k].by}
      BY <2>3, <2>4, <2>6, <2>7
    <2> QED BY <2>8 DEF NotedShip, n
  <1>9. CASE ~(u > t /\ HitsBy(h, s) # {})
    <2>1. Armed(s)' = Armed(s)
      BY <1>3, <1>9
    <2>2. \A i \in Armed(s) : blows'[i] = blows[i]
      BY <1>1, <1>7 DEF BlowsAfter
    <2>3. /\ x.reveal = IF Rearmed(world, o, s) THEN 0 ELSE v.reveal
          /\ x.attacker = IF Rearmed(world, o, s) THEN {} ELSE v.attacker
      BY <1>5, <1>9
    <2>4. Armed(s) = {} => n.attacker = {}
      BY <1>1, <1>4, <2>3 DEF NotedShip, v
    <2>5. ASSUME NEW i \in Armed(s), \A k \in Armed(s) : k <= i
          PROVE  /\ n.reveal = blows[i].at + Config.reveal
                 /\ n.reveal > t => n.attacker = {blows[i].by}
      <3>1. x.reveal = v.reveal /\ x.attacker = v.attacker
        BY <1>6, <2>3
      <3>2. /\ v.reveal = blows[i].at + Config.reveal
            /\ v.reveal > t - 1 => v.attacker = {blows[i].by}
        BY <1>1, <2>5 DEF NotedShip, v, t
      <3>3. n.reveal > t => v.reveal > t - 1 /\ ~(x.reveal <= t)
        BY <1>2, <1>4, <3>1
      <3> QED BY <1>4, <3>1, <3>2, <3>3
    <2>6. world'.tick - 1 = t
      BY <1>2
    <2> QED BY <2>1, <2>2, <2>4, <2>5, <2>6 DEF NotedShip, n
  <1> QED BY <1>8, <1>9

LEMMA StepNoted ==
  ASSUME Shape, Effects, Noted, NEW o, NEW out, Stepping(o, out)
  PROVE  Noted'
  <1>1. BlowsAfter(out.hits) /\ StepLeaves(out) /\ world.tick \in Nat
    BY StepBlows, StepLeavesIt, WorldFields DEF Noted, Shape
  <1>2. world'.tick = world.tick + 1
    BY <1>1 DEF StepLeaves
  <1>3. \A i \in DOMAIN blows' : blows'[i].at < world'.tick
    <2> SUFFICES ASSUME NEW i \in DOMAIN blows'
                 PROVE  blows'[i].at < world'.tick
      OBVIOUS
    <2>1. CASE i \in DOMAIN blows
      <3>1. blows[i] \in Blow /\ blows[i].at < world.tick /\ blows'[i] = blows[i]
        BY <1>1, <2>1 DEF Noted, BlowsAfter
      <3>2. blows[i].at \in Nat
        BY <3>1 DEF Blow
      <3> QED BY <1>1, <1>2, <3>1, <3>2
    <2>2. CASE i \notin DOMAIN blows
      <3> DEFINE j == i - Len(blows)
      <3>1. j \in DOMAIN out.hits /\ i = Len(blows) + j
        BY <1>1, <2>2 DEF BlowsAfter
      <3> HIDE DEF j
      <3>2. blows'[i].at = world.tick
        BY <1>1, <3>1 DEF BlowsAfter
      <3> QED BY <1>1, <1>2, <3>2
    <2> QED BY <2>1, <2>2
  <1>4. \A s \in Ships : NotedShip(s)'
    BY StepNotedShip
  <1>5. ASSUME NEW s \in DOMAIN frames', frames'[s].tick = world'.tick
        PROVE  Traces(frames'[s].contacts) = TracedContacts(world'.ships[s], world'.tick - 1)
    <2> DEFINE w == out.world
    <2>1. ~Decided(w)
      <3>1. Decided(w) => frames' = frames
        BY DEF Stepping, StepTo
      <3>2. s \in DOMAIN frames => frames[s].tick <= world.tick /\ frames[s].tick \in Nat
        BY DEF Shape
      <3> QED BY <1>1, <1>2, <1>5, <3>1, <3>2
    <2>2. s \in Alive(w) /\ FrameTells(frames'[s], w, s, modes'[s], pingers, out.hits)
      BY <2>1, StepFrames
    <2>3. Traces(frames'[s].contacts) = TracedContacts(w.ships[s], w.tick - 1)
      <3>1. frames'[s].contacts = Shown(w, s, modes'[s], pingers, w.tick - 1)
        BY <2>2 DEF FrameTells, Shown
      <3> QED BY <3>1, TracesIs
    <2>4. s \in Ships /\ w.tick = world'.tick /\ w.tick - 1 = world.tick
      BY <1>1, <1>2, <2>2 DEF StepLeaves, Alive
    <2>5. /\ world'.ships[s].reveal = w.ships[s].reveal
          /\ world'.ships[s].attacker = w.ships[s].attacker \/ w.ships[s].reveal <= world.tick
      BY <1>1, <2>4 DEF StepLeaves, SameButAttacker
    <2>6. w.ships[s].reveal \in Nat
      <3>1. Sound(w.ships[s], s)
        BY <2>4, TickedIs, ShipOf, WorldFields DEF Shape, Stepping
      <3> QED BY <3>1, FieldsOf
    <2> HIDE DEF w
    <2>7. w.ships[s].reveal <= world.tick => ~(w.ships[s].reveal > world.tick)
      BY <1>1, <2>6
    <2>8. TracedContacts(world'.ships[s], world.tick) = TracedContacts(w.ships[s], world.tick)
      BY <2>5, <2>7 DEF TracedContacts
    <2> QED BY <2>3, <2>4, <2>8
  <1> QED BY <1>1, <1>3, <1>4, <1>5 DEF Noted, BlowsAfter

LEMMA FreshNoted == Fresh => Noted
  <1> SUFFICES ASSUME Fresh
               PROVE  Noted
    OBVIOUS
  <1>1. blows = <<>> /\ frames = <<>> /\ \A s \in Ships : world.ships[s].attacker = {}
    BY DEF Fresh, FreshWorld, FreshShip
  <1>2. blows \in Seq(Blow) /\ DOMAIN blows = {} /\ DOMAIN frames = {}
    BY <1>1
  <1>3. \A s \in Ships : Armed(s) = {}
    BY <1>2 DEF Armed
  <1> QED BY <1>1, <1>2, <1>3 DEF Noted, NotedShip

LEMMA NextNoted ==
  ASSUME Shape, Effects, Noted, [Next]_vars
  PROVE  Noted'
  <1>1. CASE Step
    <2>1. PICK o, out : Stepping(o, out)
      BY <1>1, StepIs DEF Shape
    <2> QED BY <2>1, StepNoted
  <1>2. ASSUME NEW s \in Ships, Forfeit(s)
        PROVE  Noted'
    <2>1. StruckDown(world', world, s) /\ began' = began /\ blows' = blows /\ frames' = frames
      BY <1>2, ForfeitIs DEF Shape
    <2>2. /\ world'.tick = world.tick
          /\ \A x \in Ships : /\ world'.ships[x].reveal = world.ships[x].reveal
                              /\ world'.ships[x].attacker = world.ships[x].attacker
      BY <2>1 DEF StruckDown
    <2>3. \A x \in Ships : NotedShip(x)'
      BY <2>1, <2>2 DEF Noted, NotedShip, Armed
    <2>4. \A x \in Ships : TracedContacts(world'.ships[x], world.tick - 1)
                             = TracedContacts(world.ships[x], world.tick - 1)
      BY <2>2 DEF TracedContacts
    <2>5. DOMAIN frames \subseteq Ships
      BY DEF Shape
    <2> QED BY <2>1, <2>2, <2>3, <2>4, <2>5 DEF Noted
  <1>3. CASE Rematch
    <2>1. Fresh'
      BY <1>3, RematchIsFresh DEF Shape
    <2>2. Fresh' => Noted'
      BY FreshNoted, PTL
    <2> QED BY <2>1, <2>2
  <1>4. CASE UNCHANGED vars
    BY <1>4 DEF vars, history, Noted, NotedShip, Armed
  <1> QED BY <1>1, <1>2, <1>3, <1>4 DEF Next

\* The inductive form of the next theorem: attacker and reveal are those of the last hit while
\* the trace was armed.
THEOREM NotedInvariant == Spec => []Noted
  <1>1. Init => Noted
    BY InitIsFresh, FreshNoted
  <1>2. Shape /\ Effects /\ Noted /\ [Next]_vars => Noted'
    BY NextNoted
  <1> QED BY <1>1, <1>2, ShapeInvariant, EffectsInvariant, PTL DEF Spec

\* A counter-battery trace names the ship whose shell hit last while it was armed, for the sweeps
\* it is revealed in and no longer (sim/combat.rs, consume_counter_battery_reveal).
THEOREM BattleTracesAreTrue == Spec => []TraceIsTrue
  <1>1. ASSUME Shape, Noted
        PROVE  TraceIsTrue
    <2> SUFFICES ASSUME NEW s \in DOMAIN frames, frames[s].tick = world.tick
                 PROVE  LET t == world.tick - 1
                            last == {blows[i] : i \in {j \in Armed(s) : \A k \in Armed(s) : k <= j}}
                        IN Traces(frames[s].contacts)
                             = {<<"trace", h.by>> : h \in {x \in last : t < x.at + Config.reveal}}
      BY DEF TraceIsTrue, Armed, Traces, Trace
    <2> DEFINE t == world.tick - 1
               A == Armed(s)
               L == {j \in A : \A k \in A : k <= j}
               last == {blows[i] : i \in L}
               v == world.ships[s]
    <2>1. s \in Ships /\ NotedShip(s) /\ Traces(frames[s].contacts) = TracedContacts(v, t)
      BY <1>1 DEF Shape, Noted
    <2>2. v.reveal \in Nat /\ world.tick \in Nat
      <3>1. Sound(world.ships[s], s)
        BY <1>1, <2>1, WorldFields, ShipOf DEF Shape
      <3> QED BY <1>1, <3>1, FieldsOf, WorldFields DEF Shape
    <2>3. A \subseteq Nat /\ A \subseteq DOMAIN blows
      BY <1>1 DEF Armed, Noted
    <2>4. \A i, j \in L : i = j
      <3> SUFFICES ASSUME NEW i \in L, NEW j \in L
                   PROVE  i = j
        OBVIOUS
      <3>1. i <= j /\ j <= i /\ i \in Nat /\ j \in Nat
        BY <2>3
      <3> QED BY <3>1
    <2>5. A # {} => L # {}
      <3> SUFFICES ASSUME A # {}
                   PROVE  L # {}
        OBVIOUS
      <3>1. Len(blows) \in Nat /\ A \in SUBSET (1..Len(blows))
        BY <1>1, <2>3 DEF Noted
      <3> HIDE DEF A
      <3>2. Max(A) \in A /\ \A k \in A : k <= Max(A)
        BY <3>1, LastOf
      <3> QED BY <3>2
    <2>6. /\ A = {} => v.attacker = {}
          /\ \A i \in L : /\ v.reveal = blows[i].at + Config.reveal
                          /\ v.reveal > t => v.attacker = {blows[i].by}
      BY <2>1 DEF NotedShip
    <2>7. v.reveal > t <=> t < v.reveal
      BY <2>2
    <2> HIDE DEF A, v, t
    <2>8. CASE A = {}
      <3>1. L = {} /\ last = {}
        BY <2>8
      <3>2. TracedContacts(v, t) = {}
        BY <2>6, <2>8 DEF TracedContacts
      <3> QED BY <2>1, <3>1, <3>2 DEF A, t
    <2>9. CASE A # {}
      <3>1. PICK i \in L : TRUE
        BY <2>5, <2>9
      <3>2. last = {blows[i]}
        BY <2>4, <3>1
      <3>3. v.reveal = blows[i].at + Config.reveal /\ (v.reveal > t => v.attacker = {blows[i].by})
        BY <2>6, <3>1
      <3>4. TracedContacts(v, t) = IF v.reveal > t THEN {<<"trace", blows[i].by>>} ELSE {}
        BY <3>3 DEF TracedContacts
      <3> HIDE DEF L, last
      <3>5. {<<"trace", h.by>> : h \in {x \in last : t < x.at + Config.reveal}}
              = IF v.reveal > t THEN {<<"trace", blows[i].by>>} ELSE {}
        BY <2>7, <3>2, <3>3
      <3>6. TracedContacts(v, t) = {<<"trace", h.by>> : h \in {x \in last : t < x.at + Config.reveal}}
        BY <3>4, <3>5
      <3> QED BY <2>1, <3>6 DEF A, t, L, last
    <2> QED BY <2>8, <2>9
  <1> QED BY <1>1, ShapeInvariant, NotedInvariant, PTL

-----------------------------------------------------------------------------
(* Totals and tallies. *)

LEMMA TotalRuns ==
  ASSUME NEW f \in [Ships -> Int]
  PROVE  \E g \in [0..Len(Roster) -> Int] : TotalRun(g, f)
  <1> DEFINE S == Int
  <1>1. 0 \in S /\ \A u \in S, s \in Ships : u + f[s] \in S
    OBVIOUS
  <1>2. \E g \in [0..Len(Roster) -> S] : TotalRun(g, f)
    <2> HIDE DEF S
    <2> QED BY <1>1, TotalGoes
  <1> QED BY <1>2

LEMMA Carried ==
  ASSUME NEW h \in Int, NEW g \in Int, NEW e \in Int, NEW f \in Int, NEW p \in Int, NEW q \in Int,
         h = g + p, e + p = f + q
  PROVE  h + e = (g + f) + q
  BY SMT

\* A total differs from another by what their terms differ by.
LEMMA TotalMore ==
  ASSUME NEW f \in [Ships -> Int], NEW e \in [Ships -> Int], NEW x \in Ships, NEW n \in Int,
         e[x] = f[x] + n, \A s \in Ships \ {x} : e[s] = f[s]
  PROVE  Total(f) \in Int /\ Total(e) \in Int /\ Total(e) = Total(f) + n
  <1>1. PICK g \in [0..Len(Roster) -> Int] : TotalRun(g, f)
    BY TotalRuns
  <1>2. PICK h \in [0..Len(Roster) -> Int] : TotalRun(h, e)
    BY TotalRuns
  <1> DEFINE T == {k \in 0..Len(Roster) : h[k] = g[k] + IF x \in First(k) THEN n ELSE 0}
  <1>3. 0 \in T
    <2>1. First(0) = {} /\ 0 \in 0..Len(Roster)
      BY FirstIs
    <2> QED BY <1>1, <1>2, <2>1 DEF TotalRun
  <1>4. ASSUME NEW k \in T, k < Len(Roster)
        PROVE  k + 1 \in T
    <2> DEFINE r == Roster[k + 1]
               p == IF x \in First(k) THEN n ELSE 0
               q == IF x \in First(k + 1) THEN n ELSE 0
    <2>1. k \in 0..(Len(Roster) - 1) /\ k + 1 \in 0..Len(Roster) /\ (k + 1) - 1 = k /\ k \in 0..Len(Roster)
      BY <1>4, FirstIs
    <2>2. k + 1 \in 1..Len(Roster) /\ r \in Ships /\ r \notin First(k) /\ First(k + 1) = First(k) \cup {r}
      BY <2>1, FirstIs
    <2>3. g[k + 1] = g[k] + f[r] /\ h[k + 1] = h[k] + e[r]
      BY <1>1, <1>2, <2>1, <2>2 DEF TotalRun
    <2>4. g[k] \in Int /\ h[k] \in Int /\ h[k] = g[k] + p /\ f[r] \in Int
      BY <2>1, <2>2
    <2>5. e[r] + p = f[r] + q
      <3>1. CASE r = x
        <4>1. p = 0 /\ q = n
          BY <2>2, <3>1
        <4> QED BY <2>4, <3>1, <4>1
      <3>2. CASE r # x
        <4>1. p = q
          BY <2>2, <3>2
        <4> QED BY <2>2, <3>2, <4>1
      <3> QED BY <3>1, <3>2
    <2>6. p \in Int /\ q \in Int /\ e[r] \in Int
      BY <2>2
    <2>7. h[k] + e[r] = (g[k] + f[r]) + q
      <3> DEFINE er == e[r]
                 fr == f[r]
                 hk == h[k]
                 gk == g[k]
      <3> HIDE DEF p, q, r
      <3>1. /\ hk \in Int /\ gk \in Int /\ er \in Int /\ fr \in Int /\ p \in Int /\ q \in Int
            /\ hk = gk + p /\ er + p = fr + q
        BY <2>4, <2>5, <2>6
      <3> HIDE DEF er, fr, hk, gk
      <3>2. hk + er = (gk + fr) + q
        BY <3>1, Carried
      <3> QED BY <3>2 DEF er, fr, hk, gk
    <2> HIDE DEF p, q, r
    <2>8. h[k + 1] = g[k + 1] + q
      BY <2>3, <2>7 DEF r
    <2> QED BY <2>1, <2>8 DEF q
  <1>5. Len(Roster) \in T
    <2> HIDE DEF T
    <2>1. T \in SUBSET (0..Len(Roster))
      BY DEF T
    <2> QED BY <1>3, <1>4, <2>1, FirstIs, InductionTo
  <1>6. x \in First(Len(Roster)) /\ Len(Roster) \in 0..Len(Roster)
    BY FirstIs
  <1> QED BY <1>1, <1>2, <1>5, <1>6 DEF TotalRun

\* One more for each of some ships.
LEMMA TotalEach ==
  ASSUME NEW f \in [Ships -> Int], NEW e \in [Ships -> Int], NEW A \in SUBSET Ships,
         \A s \in Ships : e[s] = IF s \in A THEN f[s] + 1 ELSE f[s]
  PROVE  /\ Total(f) \in Int /\ Total(e) \in Int
         /\ Total(e) = Total(f) + Cardinality(A) /\ Cardinality(A) \in Nat
  <1>1. PICK g \in [0..Len(Roster) -> Int] : TotalRun(g, f)
    BY TotalRuns
  <1>2. PICK h \in [0..Len(Roster) -> Int] : TotalRun(h, e)
    BY TotalRuns
  <1>0. \A B \in SUBSET A : IsFiniteSet(B) /\ Cardinality(B) \in Nat
    <2> SUFFICES ASSUME NEW B \in SUBSET A
                 PROVE  IsFiniteSet(B) /\ Cardinality(B) \in Nat
      OBVIOUS
    <2>1. IsFiniteSet(B)
      BY FleetIsFinite, FS_Subset
    <2> QED BY <2>1, FS_CardinalityType
  <1> DEFINE C(k) == Cardinality(A \cap First(k))
             T == {k \in 0..Len(Roster) : h[k] = g[k] + C(k)}
  <1>3. 0 \in T
    <2>1. A \cap First(0) = {} /\ 0 \in 0..Len(Roster)
      BY FirstIs
    <2>2. C(0) = 0
      BY <2>1, FS_EmptySet
    <2> HIDE DEF C
    <2> QED BY <1>1, <1>2, <2>1, <2>2 DEF TotalRun
  <1>4. ASSUME NEW k \in T, k < Len(Roster)
        PROVE  k + 1 \in T
    <2> DEFINE r == Roster[k + 1]
    <2>1. k \in 0..(Len(Roster) - 1) /\ k + 1 \in 0..Len(Roster) /\ (k + 1) - 1 = k /\ k \in 0..Len(Roster)
      BY <1>4, FirstIs
    <2>2. k + 1 \in 1..Len(Roster) /\ r \in Ships /\ r \notin First(k) /\ First(k + 1) = First(k) \cup {r}
      BY <2>1, FirstIs
    <2>3. g[k + 1] = g[k] + f[r] /\ h[k + 1] = h[k] + e[r]
      BY <1>1, <1>2, <2>1, <2>2 DEF TotalRun
    <2>4. g[k] \in Int /\ h[k] \in Int /\ h[k] = g[k] + C(k) /\ f[r] \in Int
      BY <2>1, <2>2
    <2>5. C(k) \in Nat /\ C(k + 1) = C(k) + IF r \in A THEN 1 ELSE 0
      <3> DEFINE B == A \cap First(k)
      <3>1. IsFiniteSet(B) /\ Cardinality(B) \in Nat
        BY <1>0
      <3>2. CASE r \in A
        <4>1. A \cap First(k + 1) = B \cup {r} /\ r \notin B
          BY <2>2, <3>2
        <4> HIDE DEF B
        <4>2. Cardinality(B \cup {r}) = Cardinality(B) + 1
          BY <3>1, <4>1, FS_AddElement
        <4> QED BY <3>1, <3>2, <4>1, <4>2 DEF B
      <3>3. CASE r \notin A
        <4>1. A \cap First(k + 1) = B
          BY <2>2, <3>3
        <4>2. C(k + 1) = C(k)
          BY <4>1
        <4>3. C(k) \in Nat
          BY <3>1
        <4> HIDE DEF C
        <4> QED BY <3>3, <4>2, <4>3
      <3> QED BY <3>2, <3>3
    <2>6. e[r] = f[r] + IF r \in A THEN 1 ELSE 0
      BY <2>2, <2>4
    <2> DEFINE on == IF r \in A THEN 1 ELSE 0
               q  == C(k) + on
    <2>6a. q \in Int /\ C(k) \in Int /\ e[r] \in Int /\ e[r] + C(k) = f[r] + q
      BY <2>2, <2>4, <2>5, <2>6
    <2>6b. C(k + 1) = q
      BY <2>5
    <2> HIDE DEF q, r, C
    <2>7. h[k] + e[r] = (g[k] + f[r]) + q
      <3> DEFINE er == e[r]
                 fr == f[r]
                 hk == h[k]
                 gk == g[k]
                 ck == C(k)
      <3>1. /\ hk \in Int /\ gk \in Int /\ er \in Int /\ fr \in Int /\ ck \in Int /\ q \in Int
            /\ hk = gk + ck /\ er + ck = fr + q
        BY <2>4, <2>6a
      <3> HIDE DEF er, fr, hk, gk, ck
      <3>2. hk + er = (gk + fr) + q
        BY <3>1, Carried
      <3> QED BY <3>2 DEF er, fr, hk, gk
    <2>8. h[k + 1] = g[k + 1] + C(k + 1)
      BY <2>3, <2>6b, <2>7 DEF r
    <2> QED BY <2>1, <2>8
  <1>5. Len(Roster) \in T
    <2> HIDE DEF T
    <2>1. T \in SUBSET (0..Len(Roster))
      BY DEF T
    <2> QED BY <1>3, <1>4, <2>1, FirstIs, InductionTo
  <1>6. A \cap First(Len(Roster)) = A /\ Len(Roster) \in 0..Len(Roster)
    BY FirstIs
  <1>7. Cardinality(A) \in Nat
    BY <1>0
  <1>8. h[Len(Roster)] = g[Len(Roster)] + Cardinality(A)
    BY <1>5, <1>6
  <1>9. g[Len(Roster)] \in Int /\ h[Len(Roster)] \in Int
    BY <1>6
  <1> QED BY <1>1, <1>2, <1>7, <1>8, <1>9 DEF TotalRun

LEMMA TotalNone ==
  ASSUME NEW f, \A s \in Ships : f[s] = 0
  PROVE  Total(f) = 0
  <1> DEFINE S == {0}
  <1>1. \A u \in S, s \in Ships : u + f[s] \in S
    OBVIOUS
  <1>2. 0 \in S
    OBVIOUS
  <1>3. \E g \in [0..Len(Roster) -> S] : TotalRun(g, f)
    <2> HIDE DEF S
    <2> QED BY <1>1, <1>2, TotalGoes
  <1>4. Len(Roster) \in 0..Len(Roster)
    BY FirstIs
  <1> QED BY <1>3, <1>4 DEF TotalRun

Stat == [shots : Int, hits : Int, dealt : Int, taken : Int, kills : Int]
Tallies == [Ships -> Stat]
ShotsOf(st) == [s \in Ships |-> st[s].shots]
HitsOf(st) == [s \in Ships |-> st[s].hits]
DealtOf(st) == [s \in Ships |-> st[s].dealt]
TakenOf(st) == [s \in Ships |-> st[s].taken]
KillsOf(st) == [s \in Ships |-> st[s].kills]

LEMMA TallyTypes ==
  ASSUME NEW st \in Tallies
  PROVE  /\ ShotsOf(st) \in [Ships -> Int] /\ HitsOf(st) \in [Ships -> Int]
         /\ DealtOf(st) \in [Ships -> Int] /\ TakenOf(st) \in [Ships -> Int]
         /\ KillsOf(st) \in [Ships -> Int]
  <1>1. \A s \in Ships : /\ st[s].shots \in Int /\ st[s].hits \in Int /\ st[s].dealt \in Int
                         /\ st[s].taken \in Int /\ st[s].kills \in Int
    <2>1. \A s \in Ships : st[s] \in Stat
      BY DEF Tallies
    <2> QED BY <2>1 DEF Stat
  <1> QED BY <1>1 DEF ShotsOf, HitsOf, DealtOf, TakenOf, KillsOf

\* The credit of one hit.
CountedTo(x, a, h) ==
  /\ x \in Tallies /\ ShotsOf(x) = ShotsOf(a)
  /\ Total(KillsOf(a)) \in Int /\ Total(KillsOf(x)) \in Int
  /\ Total(KillsOf(x)) = Total(KillsOf(a)) + IF h.sunk THEN 1 ELSE 0
  /\ Total(HitsOf(a)) \in Int /\ Total(HitsOf(x)) \in Int
  /\ Total(HitsOf(x)) = Total(HitsOf(a)) + 1
  /\ Total(DealtOf(a)) \in Int /\ Total(DealtOf(x)) \in Int
  /\ Total(DealtOf(x)) = Total(DealtOf(a)) + h.amount
  /\ Total(TakenOf(a)) \in Int /\ Total(TakenOf(x)) \in Int
  /\ Total(TakenOf(x)) = Total(TakenOf(a)) + h.amount

LEMMA CountedIs ==
  ASSUME NEW a \in Tallies, NEW h \in Hits, NEW x, x = Counted(a, h)
  PROVE  CountedTo(x, a, h)
  <1> DEFINE n == h.amount
             k == IF h.sunk THEN 1 ELSE 0
             ta(s) == IF s = h.ship THEN a[s].taken + n ELSE a[s].taken
             de(s) == IF s = h.by THEN a[s].dealt + n ELSE a[s].dealt
             hi(s) == IF s = h.by THEN a[s].hits + 1 ELSE a[s].hits
             ki(s) == IF s = h.by /\ h.sunk THEN a[s].kills + 1 ELSE a[s].kills
  <1>1. n \in Int /\ k \in Int /\ h.ship \in Ships /\ h.by \in Ships /\ h.sunk \in BOOLEAN
    BY DEF Hits
  <1>2. x = [s \in Ships |-> [a[s] EXCEPT !.taken = ta(s), !.dealt = de(s), !.hits = hi(s),
                                          !.kills = ki(s)]]
    BY DEF Counted
  <1>3. \A s \in Ships : a[s] \in Stat
    BY DEF Tallies
  <1>4. \A s \in Ships : /\ a[s].shots \in Int /\ a[s].hits \in Int /\ a[s].dealt \in Int
                         /\ a[s].taken \in Int /\ a[s].kills \in Int
    BY <1>3 DEF Stat
  <1>5. \A s \in Ships : ta(s) \in Int /\ de(s) \in Int /\ hi(s) \in Int /\ ki(s) \in Int
    BY <1>1, <1>4
  <1>6. /\ \A s \in Ships : de(s) = IF s = h.by THEN a[s].dealt + n ELSE a[s].dealt
        /\ \A s \in Ships : ta(s) = IF s = h.ship THEN a[s].taken + n ELSE a[s].taken
        /\ \A s \in Ships : hi(s) = IF s = h.by THEN a[s].hits + 1 ELSE a[s].hits
        /\ \A s \in Ships : ki(s) = IF s = h.by THEN a[s].kills + k ELSE a[s].kills
    BY <1>1, <1>4
  <1> HIDE DEF n, k, ta, de, hi, ki
  <1>7. ASSUME NEW s \in Ships
        PROVE  /\ x[s] \in Stat /\ x[s].shots = a[s].shots /\ x[s].hits = hi(s)
               /\ x[s].dealt = de(s) /\ x[s].taken = ta(s) /\ x[s].kills = ki(s)
    <2>1. x[s] = [a[s] EXCEPT !.taken = ta(s), !.dealt = de(s), !.hits = hi(s), !.kills = ki(s)]
      BY <1>2
    <2> QED BY <1>3, <1>5, <2>1 DEF Stat
  <1>8. x \in Tallies
    <2>1. DOMAIN x = Ships /\ x = [s \in Ships |-> x[s]]
      BY <1>2
    <2> QED BY <1>7, <2>1 DEF Tallies
  <1>9. ShotsOf(x) = ShotsOf(a)
    BY <1>7 DEF ShotsOf
  <1>10. Total(KillsOf(a)) \in Int /\ Total(KillsOf(x)) \in Int /\ Total(KillsOf(x)) = Total(KillsOf(a)) + k
    <2> DEFINE f == KillsOf(a)
               e == KillsOf(x)
    <2>1. f \in [Ships -> Int] /\ e \in [Ships -> Int]
      BY <1>8, TallyTypes
    <2>2. e[h.by] = f[h.by] + k /\ \A s \in Ships \ {h.by} : e[s] = f[s]
      BY <1>1, <1>6, <1>7 DEF KillsOf
    <2> HIDE DEF f, e
    <2>3. Total(f) \in Int /\ Total(e) \in Int /\ Total(e) = Total(f) + k
      BY <1>1, <2>1, <2>2, TotalMore
    <2> QED BY <2>3 DEF f, e
  <1>11. Total(HitsOf(a)) \in Int /\ Total(HitsOf(x)) \in Int /\ Total(HitsOf(x)) = Total(HitsOf(a)) + 1
    <2> DEFINE f == HitsOf(a)
               e == HitsOf(x)
    <2>1. f \in [Ships -> Int] /\ e \in [Ships -> Int]
      BY <1>8, TallyTypes
    <2>2. e[h.by] = f[h.by] + 1 /\ \A s \in Ships \ {h.by} : e[s] = f[s]
      BY <1>1, <1>6, <1>7 DEF HitsOf
    <2> HIDE DEF f, e
    <2>3. Total(f) \in Int /\ Total(e) \in Int /\ Total(e) = Total(f) + 1
      BY <1>1, <2>1, <2>2, TotalMore
    <2> QED BY <2>3 DEF f, e
  <1>12. Total(DealtOf(a)) \in Int /\ Total(DealtOf(x)) \in Int /\ Total(DealtOf(x)) = Total(DealtOf(a)) + n
    <2> DEFINE f == DealtOf(a)
               e == DealtOf(x)
    <2>1. f \in [Ships -> Int] /\ e \in [Ships -> Int]
      BY <1>8, TallyTypes
    <2>2. e[h.by] = f[h.by] + n /\ \A s \in Ships \ {h.by} : e[s] = f[s]
      BY <1>1, <1>6, <1>7 DEF DealtOf
    <2> HIDE DEF f, e
    <2>3. Total(f) \in Int /\ Total(e) \in Int /\ Total(e) = Total(f) + n
      BY <1>1, <2>1, <2>2, TotalMore
    <2> QED BY <2>3 DEF f, e
  <1>13. Total(TakenOf(a)) \in Int /\ Total(TakenOf(x)) \in Int /\ Total(TakenOf(x)) = Total(TakenOf(a)) + n
    <2> DEFINE f == TakenOf(a)
               e == TakenOf(x)
    <2>1. f \in [Ships -> Int] /\ e \in [Ships -> Int]
      BY <1>8, TallyTypes
    <2>2. e[h.ship] = f[h.ship] + n /\ \A s \in Ships \ {h.ship} : e[s] = f[s]
      BY <1>1, <1>6, <1>7 DEF TakenOf
    <2> HIDE DEF f, e
    <2>3. Total(f) \in Int /\ Total(e) \in Int /\ Total(e) = Total(f) + n
      BY <1>1, <2>1, <2>2, TotalMore
    <2> QED BY <2>3 DEF f, e
  <1> QED BY <1>8, <1>9, <1>10, <1>11, <1>12, <1>13 DEF CountedTo, n, k

\* The credit of the first n of the hits of a tick.
SunkBy(hits, n) == {i \in 1..n : hits[i].sunk}
CreditedTo(x, y, hits, n) ==
  /\ x \in Tallies /\ ShotsOf(x) = ShotsOf(y)
  /\ Total(KillsOf(x)) = Total(KillsOf(y)) + Cardinality(SunkBy(hits, n))
  /\ Total(HitsOf(x)) = Total(HitsOf(y)) + n
  /\ Total(DealtOf(x)) - Total(TakenOf(x)) = Total(DealtOf(y)) - Total(TakenOf(y))

LEMMA TotalTypes ==
  ASSUME NEW st \in Tallies
  PROVE  /\ Total(ShotsOf(st)) \in Int /\ Total(HitsOf(st)) \in Int /\ Total(DealtOf(st)) \in Int
         /\ Total(TakenOf(st)) \in Int /\ Total(KillsOf(st)) \in Int
  <1>1. ASSUME NEW f \in [Ships -> Int]
        PROVE  Total(f) \in Int
    <2>1. {} \in SUBSET Ships /\ \A s \in Ships : f[s] = IF s \in {} THEN f[s] + 1 ELSE f[s]
      OBVIOUS
    <2> QED BY <2>1, TotalEach
  <1> QED BY <1>1, TallyTypes

LEMMA SunkByMore ==
  ASSUME NEW hits, NEW n \in Nat
  PROVE  /\ Cardinality(SunkBy(hits, n)) \in Nat
         /\ Cardinality(SunkBy(hits, n + 1))
              = Cardinality(SunkBy(hits, n)) + IF hits[n + 1].sunk THEN 1 ELSE 0
  <1> DEFINE B == SunkBy(hits, n)
  <1>1. IsFiniteSet(B) /\ Cardinality(B) \in Nat
    <2>1. IsFiniteSet(1..n) /\ B \in SUBSET (1..n)
      BY FS_Interval DEF SunkBy
    <2>2. IsFiniteSet(B)
      BY <2>1, FS_Subset
    <2> QED BY <2>2, FS_CardinalityType
  <1>2. n + 1 \notin B
    BY DEF SunkBy
  <1>3. CASE hits[n + 1].sunk
    <2>1. SunkBy(hits, n + 1) = B \cup {n + 1}
      BY <1>3 DEF SunkBy
    <2> HIDE DEF B
    <2>2. Cardinality(B \cup {n + 1}) = Cardinality(B) + 1
      BY <1>1, <1>2, FS_AddElement
    <2> QED BY <1>1, <1>3, <2>1, <2>2 DEF B
  <1>4. CASE ~hits[n + 1].sunk
    <2>1. SunkBy(hits, n + 1) = B
      BY <1>4 DEF SunkBy
    <2> QED BY <1>1, <1>4, <2>1
  <1> QED BY <1>3, <1>4

LEMMA CreditedMore ==
  ASSUME NEW y \in Tallies, NEW hits, NEW n \in Nat, hits[n + 1] \in Hits,
         NEW a, CreditedTo(a, y, hits, n), NEW x, x = Counted(a, hits[n + 1])
  PROVE  CreditedTo(x, y, hits, n + 1)
  <1> DEFINE h == hits[n + 1]
             k == IF h.sunk THEN 1 ELSE 0
             c == Cardinality(SunkBy(hits, n))
  <1>1. CountedTo(x, a, h)
    BY CountedIs DEF CreditedTo
  <1>2. c \in Nat /\ Cardinality(SunkBy(hits, n + 1)) = c + k /\ k \in Int /\ h.amount \in Int
    BY SunkByMore DEF Hits
  <1>3. /\ Total(KillsOf(y)) \in Int /\ Total(HitsOf(y)) \in Int /\ Total(DealtOf(y)) \in Int
        /\ Total(TakenOf(y)) \in Int
    BY TotalTypes
  <1> HIDE DEF h, k, c
  <1>4. Total(KillsOf(x)) = Total(KillsOf(y)) + (c + k)
    <2>1. Total(KillsOf(x)) = Total(KillsOf(a)) + k /\ Total(KillsOf(a)) = Total(KillsOf(y)) + c
      BY <1>1 DEF CountedTo, CreditedTo, k, c
    <2> QED BY <1>2, <1>3, <2>1
  <1>5. Total(HitsOf(x)) = Total(HitsOf(y)) + (n + 1)
    <2>1. Total(HitsOf(x)) = Total(HitsOf(a)) + 1 /\ Total(HitsOf(a)) = Total(HitsOf(y)) + n
      BY <1>1 DEF CountedTo, CreditedTo
    <2> QED BY <1>3, <2>1
  <1>6. Total(DealtOf(x)) - Total(TakenOf(x)) = Total(DealtOf(y)) - Total(TakenOf(y))
    <2>1. /\ Total(DealtOf(x)) = Total(DealtOf(a)) + h.amount
          /\ Total(TakenOf(x)) = Total(TakenOf(a)) + h.amount
          /\ Total(DealtOf(a)) \in Int /\ Total(TakenOf(a)) \in Int
          /\ Total(DealtOf(a)) - Total(TakenOf(a)) = Total(DealtOf(y)) - Total(TakenOf(y))
      BY <1>1 DEF CountedTo, CreditedTo
    <2> QED BY <1>2, <1>3, <2>1
  <1> QED BY <1>1, <1>2, <1>4, <1>5, <1>6 DEF CountedTo, CreditedTo, c, h

LEMMA CreditedIs ==
  ASSUME NEW st, NEW w, NEW out, out.hits \in Seq(Hits), Shots(st, w, out.world) \in Tallies
  PROVE  CreditedTo(Credited(st, w, out), Shots(st, w, out.world), out.hits, Len(out.hits))
  <1> DEFINE y == Shots(st, w, out.world)
             h == out.hits
             N == Len(h)
  <1>1. \A a \in Tallies, e \in Hits : Counted(a, e) \in Tallies
    BY CountedIs DEF CountedTo
  <1>2. PICK g \in [0..N -> Tallies] : CreditedRun(g, st, w, out)
    BY <1>1, CreditedGoes
  <1>3. g[0] = y /\ Credited(st, w, out) = g[N] /\ \A i \in 1..N : g[i] = Counted(g[i - 1], h[i])
    BY <1>2 DEF CreditedRun
  <1>4. N \in Nat /\ DOMAIN h = 1..N /\ \A i \in 1..N : h[i] \in Hits
    OBVIOUS
  <1> HIDE DEF y, h, N
  <1> DEFINE T == {n \in 0..N : CreditedTo(g[n], y, h, n)}
  <1>5. 0 \in T
    <2>1. SunkBy(h, 0) = {}
      BY DEF SunkBy
    <2>2. Cardinality(SunkBy(h, 0)) = 0
      BY <2>1, FS_EmptySet
    <2>3. y \in Tallies
      BY DEF y
    <2>4. /\ Total(HitsOf(y)) \in Int /\ Total(DealtOf(y)) \in Int
          /\ Total(TakenOf(y)) \in Int /\ Total(KillsOf(y)) \in Int
      BY <2>3, TotalTypes
    <2>5. CreditedTo(y, y, h, 0)
      BY <2>2, <2>3, <2>4 DEF CreditedTo
    <2> QED BY <1>3, <1>4, <2>5
  <1>6. ASSUME NEW n \in T, n < N
        PROVE  n + 1 \in T
    <2>1. n \in Nat /\ n + 1 \in 1..N /\ n + 1 \in 0..N /\ (n + 1) - 1 = n
      BY <1>4, <1>6
    <2>2. g[n + 1] = Counted(g[n], h[n + 1]) /\ h[n + 1] \in Hits
      BY <1>3, <1>4, <2>1
    <2>3. y \in Tallies /\ CreditedTo(g[n], y, h, n)
      BY DEF y
    <2>4. CreditedTo(g[n + 1], y, h, n + 1)
      BY <2>1, <2>2, <2>3, CreditedMore
    <2> QED BY <2>1, <2>4
  <1>7. N \in T
    <2> HIDE DEF T
    <2>1. T \in SUBSET (0..N)
      BY DEF T
    <2> QED BY <1>4, <1>5, <1>6, <2>1, InductionTo
  <1> QED BY <1>3, <1>7 DEF y, h, N

-----------------------------------------------------------------------------
(* Kills, shots and damage. *)

Shooters(w, o) == {s \in Ships : Shoots(w, s, o)}

\* What a tick costs in ships and in shells.
LEMMA TickTolls ==
  ASSUME NEW w \in Worlds, NEW o, NEW out, Ticked(out, w, o)
  PROVE  /\ Cardinality({s \in Ships : out.moved.ships[s].alive /\ ~out.world.ships[s].alive})
              = Cardinality(Sinking(out.hits))
         /\ Len(out.hits) <= Len(Roster) * ((Len(w.shells) + Cardinality(Shooters(w, o)))
                                             - Len(out.world.shells))
  <1>1. PICK a, e, q, z \in Worlds, b \in Dones : Stages(out, w, o, a, e, q, b, z)
    BY DEF Ticked
  <1>2. PICK k \in Worlds : /\ MaintainedTo(k, z) /\ out.world.ships = k.ships
                            /\ out.world.shells = k.shells
    BY <1>1 DEF Stages
  <1>3. \A s \in Ships : out.world.ships[s].alive = b.ships[s].alive
    BY <1>1, <1>2 DEF Stages, MaintainedTo, SameButHp
  <1>4. {s \in Ships : out.moved.ships[s].alive /\ ~out.world.ships[s].alive}
          = {s \in Ships : out.moved.ships[s].alive /\ ~b.ships[s].alive}
    BY <1>3
  <1>5. Cardinality({s \in Ships : out.moved.ships[s].alive /\ ~b.ships[s].alive})
          = Cardinality(Sinking(out.hits))
    BY <1>1 DEF Stages, Barraged
  <1>6. \A s \in Ships : Shoots(e, s, o) <=> Shoots(w, s, o)
    <2>1. ASSUME NEW s \in Ships
          PROVE  /\ e.ships[s].alive = w.ships[s].alive /\ e.ships[s].ammo = w.ships[s].ammo
                 /\ e.ships[s].cooldown = w.ships[s].cooldown
      <3>1. SameButCourse(a.ships[s], w.ships[s])
        BY <1>1 DEF Stages, SteeredTo
      <3>2. \/ PoweredButEmp(e.ships[s], a.ships[s], Pick(a, s, o), a.tick)
            \/ SameButEmp(e.ships[s], a.ships[s])
        BY <1>1 DEF Stages, EmpoweredTo
      <3> QED BY <3>1, <3>2 DEF SameButCourse, PoweredButEmp, SameButEmp
    <2> QED BY <2>1 DEF Shoots, CanFire
  <1>7. {s \in Ships : Shoots(e, s, o)} = Shooters(w, o)
    BY <1>6 DEF Shooters
  <1>8. /\ out.moved.shells = q.shells /\ e.shells = w.shells
        /\ Len(q.shells) = Len(e.shells) + Cardinality(Shooters(w, o))
    BY <1>1, <1>7 DEF Stages, MovedTo, ShotTo, EmpoweredTo, SteeredTo
  <1>9. out.world.shells = b.flying
    BY <1>1, <1>2 DEF Stages, MaintainedTo
  <1>10. Len(out.hits) <= Len(Roster) * (Len(out.moved.shells) - Len(b.flying))
    BY <1>1 DEF Stages
  <1> QED BY <1>4, <1>5, <1>8, <1>9, <1>10

\* The shots of a tick are counted once each.
LEMMA ShotsIs ==
  ASSUME NEW w \in Worlds, NEW o, NEW out, Ticked(out, w, o), NEW st \in Tallies,
         NEW y, y = Shots(st, w, out.world)
  PROVE  /\ y \in Tallies
         /\ \A s \in Ships : y[s].shots = IF s \in Shooters(w, o) THEN st[s].shots + 1 ELSE st[s].shots
         /\ Total(ShotsOf(st)) \in Int /\ Cardinality(Shooters(w, o)) \in Nat
         /\ Total(ShotsOf(y)) = Total(ShotsOf(st)) + Cardinality(Shooters(w, o))
         /\ KillsOf(y) = KillsOf(st) /\ HitsOf(y) = HitsOf(st)
         /\ DealtOf(y) = DealtOf(st) /\ TakenOf(y) = TakenOf(st)
  <1> DEFINE A == Shooters(w, o)
             n(s) == st[s].shots + w.ships[s].ammo - out.world.ships[s].ammo
  <1>1. \A s \in Ships : st[s] \in Stat /\ st[s].shots \in Int
    BY DEF Tallies, Stat
  <1>2. ASSUME NEW s \in Ships
        PROVE  n(s) = IF s \in A THEN st[s].shots + 1 ELSE st[s].shots
    <2>1. ShipTick(out.world.ships[s], out.moved.ships[s], w, o, s, out.hits)
      BY TickedIs
    <2>2. out.world.ships[s].ammo = IF s \in A THEN w.ships[s].ammo - 1 ELSE w.ships[s].ammo
      BY <2>1 DEF ShipTick, Shooters
    <2>3. w.ships[s].ammo \in Int
      <3>1. Sound(w.ships[s], s)
        BY WorldFields, ShipOf
      <3> QED BY <3>1, FieldsOf
    <2> DEFINE p == w.ships[s].ammo
               r == out.world.ships[s].ammo
               m == st[s].shots
    <2>4. p \in Int /\ m \in Int /\ r = IF s \in A THEN p - 1 ELSE p
      BY <1>1, <2>2, <2>3
    <2> HIDE DEF p, r, m, A
    <2>5. m + p - r = IF s \in A THEN m + 1 ELSE m
      BY <2>4
    <2> QED BY <2>5 DEF p, r, m
  <1>3. y = [s \in Ships |-> [st[s] EXCEPT !.shots = n(s)]]
    BY DEF Shots
  <1>4. \A s \in Ships : n(s) \in Int
    BY <1>1, <1>2
  <1> HIDE DEF n, A
  <1>5. ASSUME NEW s \in Ships
        PROVE  /\ y[s] \in Stat /\ y[s].shots = n(s) /\ y[s].hits = st[s].hits
               /\ y[s].dealt = st[s].dealt /\ y[s].taken = st[s].taken /\ y[s].kills = st[s].kills
    <2>1. y[s] = [st[s] EXCEPT !.shots = n(s)]
      BY <1>3
    <2> QED BY <1>1, <1>4, <2>1 DEF Stat
  <1>6. y \in Tallies
    <2>1. DOMAIN y = Ships /\ y = [s \in Ships |-> y[s]]
      BY <1>3
    <2> QED BY <1>5, <2>1 DEF Tallies
  <1>7. /\ Total(ShotsOf(st)) \in Int /\ Cardinality(A) \in Nat
        /\ Total(ShotsOf(y)) = Total(ShotsOf(st)) + Cardinality(A)
    <2> DEFINE f == ShotsOf(st)
               e == ShotsOf(y)
    <2>1. f \in [Ships -> Int] /\ e \in [Ships -> Int]
      BY <1>6, TallyTypes
    <2>2. \A s \in Ships : e[s] = IF s \in A THEN f[s] + 1 ELSE f[s]
      BY <1>2, <1>5 DEF ShotsOf
    <2>3. A \in SUBSET Ships
      BY DEF A, Shooters
    <2> HIDE DEF f, e
    <2>4. /\ Total(f) \in Int /\ Cardinality(A) \in Nat /\ Total(e) = Total(f) + Cardinality(A)
      BY <2>1, <2>2, <2>3, TotalEach
    <2> QED BY <2>4 DEF f, e
  <1>8. /\ KillsOf(y) = KillsOf(st) /\ HitsOf(y) = HitsOf(st)
        /\ DealtOf(y) = DealtOf(st) /\ TakenOf(y) = TakenOf(st)
    BY <1>5 DEF KillsOf, HitsOf, DealtOf, TakenOf
  <1>9. \A s \in Ships : y[s].shots = IF s \in A THEN st[s].shots + 1 ELSE st[s].shots
    BY <1>2, <1>5
  <1> QED BY <1>6, <1>7, <1>8, <1>9 DEF A

Fates == {"afloat", "sunk", "wrecked", "forfeited"}
Sunk(fate) == {s \in Ships : fate[s] = "sunk"}
Tallied ==
  /\ stats \in Tallies /\ lost \in [Ships -> Fates]
  /\ \A s \in Ships : world.ships[s].alive <=> lost[s] = "afloat"
  /\ Total(KillsOf(stats)) = Cardinality(Sunk(lost))
  /\ Total(HitsOf(stats)) <= Len(Roster) * (Total(ShotsOf(stats)) - Len(world.shells))
  /\ Total(DealtOf(stats)) = Total(TakenOf(stats))

\* The ships a step sinks are those its barrage sank.
LEMMA StepSinks ==
  ASSUME Shape, Tallied, NEW o, NEW out, Stepping(o, out)
  PROVE  /\ lost' \in [Ships -> Fates]
         /\ \A s \in Ships : world'.ships[s].alive <=> lost'[s] = "afloat"
         /\ Cardinality(Sunk(lost')) = Cardinality(Sunk(lost)) + Cardinality(Sinking(out.hits))
         /\ Cardinality(Sunk(lost)) \in Nat /\ Cardinality(Sinking(out.hits)) \in Nat
  <1> DEFINE m(s) == out.moved.ships[s].alive
             x(s) == out.world.ships[s].alive
             D == {s \in Ships : m(s) /\ ~x(s)}
  <1>1. /\ StepLeaves(out) /\ Ticked(out, world, o) /\ world \in Worlds
        /\ out.world \in Worlds
        /\ \A s \in Ships : ShipTick(out.world.ships[s], out.moved.ships[s], world, o, s, out.hits)
    BY StepLeavesIt, TickedIs DEF Shape, Stepping
  <1>2. lost' = [s \in Ships |-> IF lost[s] # "afloat" \/ x(s) THEN lost[s]
                                 ELSE IF m(s) THEN "sunk" ELSE "wrecked"]
    BY DEF Stepping, StepTo, Recorded
  <1>3. ASSUME NEW s \in Ships
        PROVE  /\ world'.ships[s].alive = x(s)
               /\ (x(s) => m(s)) /\ (m(s) => world.ships[s].alive)
               /\ x(s) \in BOOLEAN /\ m(s) \in BOOLEAN
    <2>1. Sound(out.world.ships[s], s) /\ out.moved \in Worlds
      BY <1>1, WorldFields, ShipOf, TickedIs
    <2>2. Sound(out.moved.ships[s], s)
      BY <2>1, WorldFields, ShipOf
    <2>3. x(s) \in BOOLEAN /\ m(s) \in BOOLEAN
      BY <2>1, <2>2, FieldsOf
    <2> QED BY <1>1, <2>3 DEF StepLeaves, SameButAttacker, ShipTick
  <1> HIDE DEF m, x
  <1>4. \A s \in Ships : world.ships[s].alive <=> lost[s] = "afloat"
    BY DEF Tallied
  <1>5. lost' \in [Ships -> Fates]
    BY <1>2 DEF Tallied, Fates
  <1>6. \A s \in Ships : world'.ships[s].alive <=> lost'[s] = "afloat"
    BY <1>2, <1>3, <1>4
  <1>7. Sunk(lost') = Sunk(lost) \cup D /\ Sunk(lost) \cap D = {}
    BY <1>2, <1>3, <1>4 DEF Sunk
  <1>8. IsFiniteSet(Sunk(lost)) /\ IsFiniteSet(D)
    <2>1. Sunk(lost) \in SUBSET Ships /\ D \in SUBSET Ships
      BY DEF Sunk
    <2> HIDE DEF D
    <2> QED BY <2>1, FleetIsFinite, FS_Subset
  <1>9. Cardinality(D) = Cardinality(Sinking(out.hits))
    BY <1>1, TickTolls DEF D, m, x
  <1> HIDE DEF D
  <1>10. /\ Cardinality(Sunk(lost)) \in Nat /\ Cardinality(D) \in Nat
    BY <1>8, FS_CardinalityType
  <1>11. Cardinality(Sunk(lost) \cup D) = Cardinality(Sunk(lost)) + Cardinality(D)
    <2>1. Cardinality(Sunk(lost) \cup D)
            = Cardinality(Sunk(lost)) + Cardinality(D) - Cardinality(Sunk(lost) \cap D)
      BY <1>8, FS_Union
    <2>2. Cardinality(Sunk(lost) \cap D) = 0
      BY <1>7, FS_EmptySet
    <2> QED BY <1>10, <2>1, <2>2
  <1> QED BY <1>5, <1>6, <1>7, <1>9, <1>10, <1>11

LEMMA TimesPlus ==
  ASSUME NEW l \in Nat, NEW h \in Int, NEW k \in Int, NEW t \in Int, NEW n \in Int, NEW c \in Int,
         NEW m \in Int, h <= l * (t - n), k <= l * ((n + c) - m)
  PROVE  h + k <= l * ((t + c) - m)
  <1>1. l * (t - n) \in Int /\ l * ((n + c) - m) \in Int
    OBVIOUS
  <1>2. l * (t - n) + l * ((n + c) - m) = l * ((t + c) - m)
    BY SMT
  <1> DEFINE p == l * (t - n)
             q == l * ((n + c) - m)
             r == l * ((t + c) - m)
  <1>3. p \in Int /\ q \in Int /\ h <= p /\ k <= q /\ r = p + q
    BY <1>1, <1>2
  <1> HIDE DEF p, q, r
  <1>4. h + k <= r
    BY <1>3
  <1> QED BY <1>4 DEF r

LEMMA StepTallied ==
  ASSUME Shape, Tallied, NEW o, NEW out, Stepping(o, out)
  PROVE  Tallied'
  <1> DEFINE y == Shots(stats, world, out.world)
             n == Len(out.hits)
             c == Cardinality(Shooters(world, o))
             k == Cardinality(Sinking(out.hits))
  <1>1. /\ Ticked(out, world, o) /\ world \in Worlds /\ out.hits \in Seq(Hits) /\ StepLeaves(out)
        /\ out.world \in Worlds
    BY StepLeavesIt, TickedIs DEF Shape, Stepping
  <1>2. /\ y \in Tallies
        /\ Total(ShotsOf(stats)) \in Int /\ c \in Nat
        /\ Total(ShotsOf(y)) = Total(ShotsOf(stats)) + c
        /\ KillsOf(y) = KillsOf(stats) /\ HitsOf(y) = HitsOf(stats)
        /\ DealtOf(y) = DealtOf(stats) /\ TakenOf(y) = TakenOf(stats)
    BY <1>1, ShotsIs DEF Tallied
  <1>3. CreditedTo(stats', y, out.hits, n)
    <2>1. stats' = Credited(stats, world, out)
      BY DEF Stepping, StepTo
    <2> QED BY <1>1, <1>2, <2>1, CreditedIs
  <1>4. /\ lost' \in [Ships -> Fates]
        /\ \A s \in Ships : world'.ships[s].alive <=> lost'[s] = "afloat"
        /\ Cardinality(Sunk(lost')) = Cardinality(Sunk(lost)) + k
        /\ Cardinality(Sunk(lost)) \in Nat /\ k \in Nat
    BY StepSinks
  <1>5. SunkBy(out.hits, n) = Sinking(out.hits)
    BY <1>1 DEF SunkBy, Sinking
  <1>6. n <= Len(Roster) * ((Len(world.shells) + c) - Len(world'.shells))
    BY <1>1, TickTolls DEF StepLeaves
  <1>7. /\ Len(world.shells) \in Int /\ Len(world'.shells) \in Int /\ n \in Int /\ Len(Roster) \in Nat
    BY <1>1, WorldFields, FirstIs DEF StepLeaves
  <1> HIDE DEF y, n, c, k
  <1>8. Total(KillsOf(stats')) = Cardinality(Sunk(lost'))
    BY <1>2, <1>3, <1>4, <1>5 DEF CreditedTo, Tallied, k
  <1>9. Total(HitsOf(stats')) <= Len(Roster) * (Total(ShotsOf(stats')) - Len(world'.shells))
    <2>1. Total(HitsOf(stats)) \in Int /\ stats \in Tallies
      BY TotalTypes DEF Tallied
    <2>2. Total(HitsOf(stats)) <= Len(Roster) * (Total(ShotsOf(stats)) - Len(world.shells))
      BY DEF Tallied
    <2>3. Total(HitsOf(stats')) = Total(HitsOf(stats)) + n
          /\ Total(ShotsOf(stats')) = Total(ShotsOf(stats)) + c
      BY <1>2, <1>3 DEF CreditedTo
    <2> DEFINE h == Total(HitsOf(stats))
               t == Total(ShotsOf(stats))
               u == Len(world.shells)
               v == Len(world'.shells)
    <2>4. /\ h \in Int /\ t \in Int /\ u \in Int /\ v \in Int /\ n \in Int /\ c \in Int
          /\ Len(Roster) \in Nat
      BY <1>2, <1>7, <2>1
    <2>4a. h <= Len(Roster) * (t - u)
      BY <2>2
    <2>4b. n <= Len(Roster) * ((u + c) - v)
      BY <1>6
    <2> HIDE DEF h, t, u, v
    <2>5. h + n <= Len(Roster) * ((t + c) - v)
      BY <2>4, <2>4a, <2>4b, TimesPlus
    <2> QED BY <2>3, <2>5 DEF h, t, v
  <1>10. Total(DealtOf(stats')) = Total(TakenOf(stats'))
    <2>1. Total(DealtOf(stats')) - Total(TakenOf(stats')) = Total(DealtOf(stats)) - Total(TakenOf(stats))
      BY <1>2, <1>3 DEF CreditedTo
    <2>2. /\ Total(DealtOf(stats)) \in Int /\ Total(TakenOf(stats)) \in Int
          /\ Total(DealtOf(stats')) \in Int /\ Total(TakenOf(stats')) \in Int
      BY <1>3, TotalTypes DEF Tallied, CreditedTo
    <2>3. Total(DealtOf(stats)) = Total(TakenOf(stats))
      BY DEF Tallied
    <2> QED BY <2>1, <2>2, <2>3
  <1>11. stats' \in Tallies
    BY <1>3 DEF CreditedTo
  <1> QED BY <1>4, <1>8, <1>9, <1>10, <1>11 DEF Tallied, Sunk, KillsOf, HitsOf, ShotsOf, DealtOf, TakenOf

LEMMA FreshTallied == Fresh => Tallied
  <1> SUFFICES ASSUME Fresh
               PROVE  Tallied
    OBVIOUS
  <1>1. /\ stats = NoStats /\ lost = [s \in Ships |-> "afloat"] /\ world.shells = <<>>
        /\ \A s \in Ships : world.ships[s].alive
    BY DEF Fresh, FreshWorld, FreshShip
  <1>2. stats \in Tallies
    <2>1. [shots |-> 0, hits |-> 0, dealt |-> 0, taken |-> 0, kills |-> 0] \in Stat
      BY DEF Stat
    <2> QED BY <1>1, <2>1 DEF NoStats, Tallies
  <1>3. \A s \in Ships : /\ ShotsOf(stats)[s] = 0 /\ HitsOf(stats)[s] = 0 /\ DealtOf(stats)[s] = 0
                         /\ TakenOf(stats)[s] = 0 /\ KillsOf(stats)[s] = 0
    BY <1>1 DEF NoStats, ShotsOf, HitsOf, DealtOf, TakenOf, KillsOf
  <1>4. /\ Total(ShotsOf(stats)) = 0 /\ Total(HitsOf(stats)) = 0 /\ Total(DealtOf(stats)) = 0
        /\ Total(TakenOf(stats)) = 0 /\ Total(KillsOf(stats)) = 0
    BY <1>3, TotalNone
  <1>5. Cardinality(Sunk(lost)) = 0
    <2>1. Sunk(lost) = {}
      BY <1>1 DEF Sunk
    <2> QED BY <2>1, FS_EmptySet
  <1>6. Len(world.shells) = 0 /\ Len(Roster) * (0 - 0) = 0
    BY <1>1, FirstIs
  <1>7. lost \in [Ships -> Fates] /\ \A s \in Ships : world.ships[s].alive <=> lost[s] = "afloat"
    BY <1>1 DEF Fates
  <1> QED BY <1>2, <1>4, <1>5, <1>6, <1>7 DEF Tallied

LEMMA ForfeitTallied ==
  ASSUME Shape, Tallied, NEW s \in Ships, Forfeit(s)
  PROVE  Tallied'
  <1>1. /\ StruckDown(world', world, s) /\ world.ships[s].alive
        /\ lost' = [lost EXCEPT ![s] = "forfeited"] /\ stats' = stats
    BY ForfeitIs DEF Shape
  <1>2. lost \in [Ships -> Fates] /\ lost[s] = "afloat"
    BY <1>1 DEF Tallied
  <1>3. lost' \in [Ships -> Fates]
    BY <1>1, <1>2 DEF Fates
  <1>4. \A x \in Ships : world'.ships[x].alive <=> lost'[x] = "afloat"
    BY <1>1, <1>2 DEF StruckDown, Tallied
  <1>5. Sunk(lost') = Sunk(lost)
    BY <1>1, <1>2 DEF Sunk
  <1>6. world'.shells = world.shells
    BY <1>1 DEF StruckDown
  <1> QED BY <1>1, <1>3, <1>4, <1>5, <1>6 DEF Tallied, Sunk, KillsOf, HitsOf, ShotsOf, DealtOf, TakenOf

LEMMA NextTallied ==
  ASSUME Shape, Tallied, [Next]_vars
  PROVE  Tallied'
  <1>1. CASE Step
    <2>1. PICK o, out : Stepping(o, out)
      BY <1>1, StepIs DEF Shape
    <2> QED BY <2>1, StepTallied
  <1>2. ASSUME NEW s \in Ships, Forfeit(s)
        PROVE  Tallied'
    BY <1>2, ForfeitTallied
  <1>3. CASE Rematch
    <2>1. Fresh'
      BY <1>3, RematchIsFresh DEF Shape
    <2>2. Fresh' => Tallied'
      BY FreshTallied, PTL
    <2> QED BY <2>1, <2>2
  <1>4. CASE UNCHANGED vars
    BY <1>4 DEF vars, history, Tallied, Sunk, KillsOf, HitsOf, ShotsOf, DealtOf, TakenOf
  <1> QED BY <1>1, <1>2, <1>3, <1>4 DEF Next

\* The inductive form of the next theorem: a ship is afloat until its loss is recorded.
THEOREM TalliedInvariant == Spec => []Tallied
  <1>1. Init => Tallied
    BY InitIsFresh, FreshTallied
  <1>2. Shape /\ Tallied /\ [Next]_vars => Tallied'
    BY NextTallied
  <1> QED BY <1>1, <1>2, ShapeInvariant, PTL DEF Spec

\* Kills are the ships sunk by shells, a shell hits each ship at most once, and damage dealt is
\* damage taken, however many hits a tick has (accumulate_combat_stats).
THEOREM BattleKillsAreSinkings == Spec => []KillsMatchSinkings
  <1>1. ASSUME Tallied
        PROVE  KillsMatchSinkings
    <2>1. Cardinality(Ships) = Len(Roster)
      BY FleetIsFinite
    <2> QED BY <1>1, <2>1 DEF Tallied, KillsMatchSinkings, Sunk, KillsOf, HitsOf, ShotsOf, DealtOf, TakenOf
  <1> QED BY <1>1, TalliedInvariant, PTL

-----------------------------------------------------------------------------
(* Frames. *)

\* What a tick without activations makes of a ship that survives it.
QuietTick(x, v, t, shoots, hits, s) ==
  /\ x.cooldown = Greatest(0, (IF shoots
                               THEN EffectiveCooldown(ActiveAt(v, "rapid_fire", t), v.emp > t)
                               ELSE v.cooldown) - 1)
  /\ x.emp = v.emp
  /\ (\A i \in DOMAIN hits : hits[i].ship # s) /\ x.course = 0
       => x.hp = IF ActiveAt(v, "repair_drones", t) THEN Least(v.hp + Config.regen, Config.hull)
                 ELSE v.hp

LEMMA QuietTickIs ==
  ASSUME NEW w \in Worlds, NEW o, NEW out, Ticked(out, w, o), NEW s \in Ships,
         \A x \in Ships : ~Activates(w, x, o), out.world.ships[s].alive
  PROVE  QuietTick(out.world.ships[s], w.ships[s], w.tick, Shoots(w, s, o), out.hits, s)
  <1>1. PICK a, e, q, z \in Worlds, b \in Dones : Stages(out, w, o, a, e, q, b, z)
    BY DEF Ticked
  <1> DEFINE v == w.ships[s]
             d == e.ships[s]
             y == q.ships[s]
             m == out.moved.ships[s]
             n == b.ships[s]
             x == out.world.ships[s]
             t == w.tick
  <1>2. SameButEmp(d, v) \/ (SameButEmp(d, a.ships[s]) /\ SameButCourse(a.ships[s], v))
    <2>1. ~Activates(a, s, o)
      BY <1>1, SteeredChoice DEF Stages
    <2>2. SameButCourse(a.ships[s], v) /\ SameButEmp(d, a.ships[s])
      BY <1>1, <2>1 DEF Stages, EmpoweredTo, SteeredTo
    <2> QED BY <2>2
  <1>3. /\ d.cooldown = v.cooldown /\ d.until = v.until /\ d.hp = v.hp /\ d.alive = v.alive
        /\ d.ammo = v.ammo
    BY <1>2 DEF SameButEmp, SameButCourse
  <1>4. d.emp = v.emp
    <2>1. Chose(a, o, Ships, "emp_burst") = {}
      <3>1. \A r \in Ships : ~Activates(a, r, o)
        BY <1>1, SteeredChoice DEF Stages
      <3> QED BY <3>1 DEF Chose
    <2>2. d.emp = a.ships[s].emp
      BY <1>1, <2>1 DEF Stages, EmpoweredTo
    <2>3. a.ships[s].emp = v.emp
      BY <1>1 DEF Stages, SteeredTo, SameButCourse
    <2> QED BY <2>2, <2>3
  <1>5. Shoots(e, s, o) <=> Shoots(w, s, o)
    BY <1>3 DEF Shoots, CanFire
  <1>6. e.tick = t
    BY <1>1 DEF Stages, SteeredTo, EmpoweredTo
  <1>7. IF Shoots(w, s, o) THEN RecoiledTo(y, d, t) ELSE y = d
    BY <1>1, <1>5, <1>6 DEF Stages, ShotTo
  <1>8. PICK k \in Worlds : MaintainedTo(k, z) /\ out.world.ships = k.ships
    BY <1>1 DEF Stages
  <1>9. /\ SameButHp(x, n)
        /\ x.hp = IF n.alive /\ ActiveAt(n, "repair_drones", t)
                  THEN Least(n.hp + Config.regen, Config.hull) ELSE n.hp
    <2>1. z.ships[s] = n /\ z.tick = t
      BY <1>1 DEF Stages
    <2> QED BY <1>8, <2>1 DEF MaintainedTo
  <1>10. BarragedTo(n, m, s, out.hits, t)
    BY <1>1 DEF Stages, Barraged
  <1>11. IF y.alive THEN SailedTo(m, y) ELSE m = y
    BY <1>1 DEF Stages, MovedTo
  <1>12. x.alive
    OBVIOUS
  <1> HIDE DEF v, d, y, m, n, x, t
  <1>13. n.alive /\ m.alive
    BY <1>9, <1>10, <1>12 DEF SameButHp, BarragedTo
  <1>14. SailedTo(m, y)
    BY <1>11, <1>13
  <1>15. /\ x.cooldown = Greatest(0, y.cooldown - 1) /\ x.emp = y.emp /\ x.course = y.course
         /\ n.until = y.until
    BY <1>9, <1>10, <1>14 DEF SameButHp, BarragedTo, SailedTo
  <1>16. /\ y.cooldown = IF Shoots(w, s, o) THEN EffectiveCooldown(ActiveAt(d, "rapid_fire", t), d.emp > t)
                         ELSE d.cooldown
         /\ y.emp = d.emp /\ y.hp = d.hp
         /\ y.until["repair_drones"] = d.until["repair_drones"]
    <2>1. CASE Shoots(w, s, o)
      <3>1. RecoiledTo(y, d, t)
        BY <1>7, <2>1
      <3>2. d.until \in [PowerupId -> Nat]
        <4>1. Sound(d, s)
          BY <1>1, WorldFields, ShipOf DEF d
        <4> QED BY <4>1, FieldsOf
      <3>3. "repair_drones" \in PowerupId
        BY DEF PowerupId
      <3> QED BY <2>1, <3>1, <3>2, <3>3 DEF RecoiledTo
    <2>2. CASE ~Shoots(w, s, o)
      BY <1>7, <2>2
    <2> QED BY <2>1, <2>2
  <1>17. /\ ActiveAt(d, "rapid_fire", t) <=> ActiveAt(v, "rapid_fire", t)
         /\ ActiveAt(n, "repair_drones", t) <=> ActiveAt(v, "repair_drones", t)
    BY <1>3, <1>15, <1>16 DEF ActiveAt
  <1>18. x.cooldown = Greatest(0, (IF Shoots(w, s, o)
                               THEN EffectiveCooldown(ActiveAt(v, "rapid_fire", t), v.emp > t)
                               ELSE v.cooldown) - 1)
    <2>1. CASE Shoots(w, s, o)
      <3>1. (d.emp > t) = (v.emp > t) /\ ActiveAt(d, "rapid_fire", t) = ActiveAt(v, "rapid_fire", t)
        BY <1>4, <1>17 DEF ActiveAt
      <3> QED BY <1>15, <1>16, <2>1, <3>1
    <2>2. CASE ~Shoots(w, s, o)
      BY <1>3, <1>15, <1>16, <2>2
    <2> QED BY <2>1, <2>2
  <1>19. ASSUME \A i \in DOMAIN out.hits : out.hits[i].ship # s, x.course = 0
         PROVE  x.hp = IF ActiveAt(v, "repair_drones", t)
                       THEN Least(v.hp + Config.regen, Config.hull) ELSE v.hp
    <2>1. n = m
      BY <1>10, <1>19 DEF BarragedTo
    <2>2. m.hp = y.hp
      BY <1>14, <1>15, <1>19 DEF SailedTo
    <2>3. n.hp = v.hp
      BY <1>3, <1>16, <2>1, <2>2
    <2> QED BY <1>9, <1>13, <1>17, <2>3
  <1> QED BY <1>4, <1>15, <1>16, <1>18, <1>19 DEF QuietTick, v, x, t

\* A bot that is told of no damage took no hit.
LEMMA UntoldIsUnhit ==
  ASSUME NEW s, NEW hits \in Seq(Hits), HitsTold(s, hits) = 0
  PROVE  \A i \in DOMAIN hits : hits[i].ship # s
  <1> DEFINE N == Len(hits)
  <1>1. 0 \in Nat /\ \A u \in Nat, e \in Hits : (IF e.ship = s THEN u + e.amount ELSE u) \in Nat
    BY DEF Hits
  <1>2. PICK g \in [0..N -> Nat] : HitsToldRun(g, s, hits)
    BY <1>1, HitsToldGoes
  <1>3. /\ g[0] = 0 /\ g[N] = 0 /\ N \in Nat
        /\ \A i \in 1..N : g[i] = (IF hits[i].ship = s THEN g[i - 1] + hits[i].amount ELSE g[i - 1])
    BY <1>2 DEF HitsToldRun
  <1> DEFINE T == {n \in 0..N : (\E i \in 1..n : hits[i].ship = s) => g[n] > 0}
  <1>4. 0 \in T
    BY <1>3
  <1>5. ASSUME NEW n \in T, n < N
        PROVE  n + 1 \in T
    <2>1. n \in 0..N /\ n + 1 \in 1..N /\ n + 1 \in 0..N /\ (n + 1) - 1 = n
      BY <1>3, <1>5
    <2>2. g[n] \in Nat /\ g[n + 1] \in Nat
      BY <2>1
    <2>3. hits[n + 1].amount \in Nat \ {0}
      <3>1. hits[n + 1] \in Hits
        BY <2>1
      <3> QED BY <3>1 DEF Hits
    <2>4. g[n + 1] = IF hits[n + 1].ship = s THEN g[n] + hits[n + 1].amount ELSE g[n]
      BY <1>3, <2>1
    <2>5. ASSUME NEW i \in 1..(n + 1), hits[i].ship = s
          PROVE  g[n + 1] > 0
      <3>1. CASE i = n + 1
        BY <2>2, <2>3, <2>4, <2>5, <3>1
      <3>2. CASE i # n + 1
        <4>1. i \in 1..n
          BY <2>1, <3>2
        <4>2. g[n] > 0
          BY <2>5, <4>1
        <4> QED BY <2>2, <2>3, <2>4, <4>2
      <3> QED BY <3>1, <3>2
    <2> QED BY <2>1, <2>5
  <1>6. N \in T
    <2> HIDE DEF T
    <2>1. T \in SUBSET (0..N)
      BY DEF T
    <2> QED BY <1>3, <1>4, <1>5, <2>1, InductionTo
  <1>7. DOMAIN hits = 1..N
    OBVIOUS
  <1> QED BY <1>3, <1>6, <1>7

\* What a bot was last told, if it was told at this tick and is afloat, is still so; and a
\* ship has used none but its own powerups.
Displays(f, v, t) ==
  /\ f.hp = v.hp /\ f.ammo = v.ammo /\ f.cooldown = v.cooldown
  /\ f.left = [i \in DOMAIN v.selected |-> TicksLeft(v, v.selected[i], t)]
  /\ f.emp = Greatest(0, v.emp - t)
Own(v) == {v.selected[i] : i \in DOMAIN v.selected}
Worded ==
  /\ \A s \in Ships : world.ships[s].used \subseteq Own(world.ships[s])
  /\ \A s \in DOMAIN frames :
       frames[s].tick = world.tick /\ world.ships[s].alive
         => Displays(frames[s], world.ships[s], world.tick)

LEMMA StepWorded ==
  ASSUME Shape, Worded, NEW o, NEW out, Stepping(o, out)
  PROVE  Worded'
  <1> DEFINE w == out.world
  <1>1. /\ StepLeaves(out) /\ world \in Worlds /\ w.tick = world.tick + 1 /\ world.tick \in Nat
        /\ \A s \in Ships : ShipTick(w.ships[s], out.moved.ships[s], world, o, s, out.hits)
    BY StepLeavesIt, TickedIs, WorldFields DEF Shape, Stepping
  <1>2. ASSUME NEW s \in Ships
        PROVE  world'.ships[s].used \subseteq Own(world'.ships[s])
    <2>1. /\ world'.ships[s].used = world.ships[s].used
               \cup IF Activates(world, s, o) THEN {Pick(world, s, o)} ELSE {}
          /\ world'.ships[s].selected = world.ships[s].selected
      BY <1>1 DEF StepLeaves, SameButAttacker, ShipTick
    <2>2. Activates(world, s, o) => Pick(world, s, o) \in Own(world.ships[s])
      BY DEF Activates, Pick, Own
    <2>3. world.ships[s].used \subseteq Own(world.ships[s]) /\ Own(world'.ships[s]) = Own(world.ships[s])
      BY <2>1 DEF Worded, Own
    <2> QED BY <2>1, <2>2, <2>3
  <1>3. ASSUME NEW s \in DOMAIN frames', frames'[s].tick = world'.tick
        PROVE  Displays(frames'[s], world'.ships[s], world'.tick)
    <2>1. CASE Decided(w)
      <3>1. frames' = frames
        BY <2>1 DEF Stepping, StepTo
      <3>2. frames[s].tick \in Nat /\ frames[s].tick <= world.tick
        BY <1>3, <3>1 DEF Shape
      <3> QED BY <1>1, <1>3, <3>1, <3>2 DEF StepLeaves
    <2>2. CASE ~Decided(w)
      <3>1. s \in Alive(w) /\ FrameTells(frames'[s], w, s, modes'[s], pingers, out.hits)
        BY <1>3, <2>2, StepFrames
      <3>2. SameButAttacker(world'.ships[s], w.ships[s]) /\ world'.tick = w.tick
        BY <1>1, <3>1 DEF StepLeaves, Alive
      <3> QED BY <3>1, <3>2 DEF FrameTells, Displays, SameButAttacker, TicksLeft
    <2> QED BY <2>1, <2>2
  <1>4. \A s \in DOMAIN frames' :
          frames'[s].tick = world'.tick /\ world'.ships[s].alive
            => Displays(frames'[s], world'.ships[s], world'.tick)
    BY <1>3
  <1> QED BY <1>2, <1>4 DEF Worded, Own, Displays, TicksLeft

LEMMA ForfeitWorded ==
  ASSUME Shape, Worded, NEW s \in Ships, Forfeit(s)
  PROVE  Worded'
  <1>1. StruckDown(world', world, s) /\ frames' = frames
    BY ForfeitIs DEF Shape
  <1>2. world'.tick = world.tick /\ ~world'.ships[s].alive
        /\ \A x \in Ships \ {s} : world'.ships[x] = world.ships[x]
    BY <1>1 DEF StruckDown
  <1>3. \A x \in Ships : world'.ships[x].used \subseteq Own(world'.ships[x])
    <2>1. /\ world'.ships[s].used = world.ships[s].used
          /\ world'.ships[s].selected = world.ships[s].selected
      BY <1>1 DEF StruckDown
    <2>2. Own(world'.ships[s]) = Own(world.ships[s])
      BY <2>1 DEF Own
    <2> QED BY <1>2, <2>1, <2>2 DEF Worded
  <1>4. \A x \in DOMAIN frames' :
          frames'[x].tick = world'.tick /\ world'.ships[x].alive
            => Displays(frames'[x], world'.ships[x], world'.tick)
    <2>1. DOMAIN frames \subseteq Ships
      BY DEF Shape
    <2> QED BY <1>1, <1>2, <2>1 DEF Worded
  <1> QED BY <1>3, <1>4 DEF Worded, Own, Displays, TicksLeft

LEMMA FreshWorded == Fresh => Worded
  <1> SUFFICES ASSUME Fresh
               PROVE  Worded
    OBVIOUS
  <1>1. DOMAIN frames = {} /\ \A s \in Ships : world.ships[s].used = {}
    BY DEF Fresh, FreshWorld, FreshShip
  <1> QED BY <1>1 DEF Worded

LEMMA NextWorded ==
  ASSUME Shape, Worded, [Next]_vars
  PROVE  Worded'
  <1>1. CASE Step
    <2>1. PICK o, out : Stepping(o, out)
      BY <1>1, StepIs DEF Shape
    <2> QED BY <2>1, StepWorded
  <1>2. ASSUME NEW s \in Ships, Forfeit(s)
        PROVE  Worded'
    BY <1>2, ForfeitWorded
  <1>3. CASE Rematch
    <2>1. Fresh'
      BY <1>3, RematchIsFresh DEF Shape
    <2>2. Fresh' => Worded'
      BY FreshWorded, PTL
    <2> QED BY <2>1, <2>2
  <1>4. CASE UNCHANGED vars
    BY <1>4 DEF vars, Worded, Own, Displays, TicksLeft
  <1> QED BY <1>1, <1>2, <1>3, <1>4 DEF Next

\* The inductive form of the next theorem: what a bot was last told is still so until the next
\* tick, but for a forfeit.
THEOREM WordedInvariant == Spec => []Worded
  <1>1. Init => Worded
    BY InitIsFresh, FreshWorded
  <1>2. Shape /\ Worded /\ [Next]_vars => Worded'
    BY NextWorded
  <1> QED BY <1>1, <1>2, ShapeInvariant, PTL DEF Spec

\* The frame shows an effect of the ship's own exactly while it is in force.
LEMMA LeftIsActive ==
  ASSUME Shape, Worded, Effects, NEW s \in Ships,
         Displays(frames[s], world.ships[s], world.tick), NEW p \in PowerupId \ InWorld
  PROVE  LeftOf(s, p) > 0 <=> ActiveAt(world.ships[s], p, world.tick)
  <1> DEFINE v == world.ships[s]
             t == world.tick
  <1>1. v.until \in [PowerupId -> Nat] /\ t \in Nat
    <2>1. Sound(v, s) /\ t \in Nat
      BY WorldFields, ShipOf DEF Shape
    <2> QED BY <2>1, FieldsOf
  <1>2. v.until[p] \in Nat
    BY <1>1
  <1>3. TimedShip(s) /\ v.used \subseteq Own(v)
    BY DEF Effects, Worded
  <1>4. frames[s].left = [i \in DOMAIN v.selected |-> TicksLeft(v, v.selected[i], t)]
    BY DEF Displays
  <1>5. CASE \E i \in DOMAIN v.selected : v.selected[i] = p
    <2> DEFINE j == CHOOSE i \in DOMAIN v.selected : v.selected[i] = p
    <2>1. j \in DOMAIN v.selected /\ v.selected[j] = p
      BY <1>5
    <2>2. LeftOf(s, p) = frames[s].left[j]
      BY <1>5 DEF LeftOf
    <2> HIDE DEF j
    <2>3. LeftOf(s, p) = TicksLeft(v, p, t)
      BY <1>4, <2>1, <2>2
    <2> HIDE DEF v, t
    <2> QED BY <1>1, <1>2, <2>3 DEF TicksLeft, ActiveAt, v, t
  <1>6. CASE ~(\E i \in DOMAIN v.selected : v.selected[i] = p)
    <2>1. LeftOf(s, p) = 0
      BY <1>6 DEF LeftOf
    <2>2. p \notin v.used
      BY <1>3, <1>6 DEF Own
    <2>3. v.until[p] = 0
      BY <1>3, <2>2 DEF TimedShip
    <2> QED BY <1>1, <2>1, <2>3 DEF ActiveAt
  <1> QED BY <1>5, <1>6

\* A jammed radar shows nothing.
LEMMA JammedShowsTraces ==
  ASSUME NEW w, NEW s, NEW mode, NEW heard, NEW hits, NEW f,
         FrameTells(f, w, s, mode, heard, hits), mode = "active", w.ships[s].emp > w.tick - 1
  PROVE  \A c \in f.contacts : c[1] = "trace"
  <1>1. RadarContacts(w, s, w.tick - 1) = {}
    BY DEF RadarContacts
  <1>2. f.contacts = TracedContacts(w.ships[s], w.tick - 1)
    BY <1>1 DEF FrameTells
  <1> QED BY <1>2 DEF TracedContacts

\* What one frame has promised of the next.
WordKept(s) ==
  LET f == frames[s]
      g == frames'[s]
      shot == stats'[s].shots > stats[s].shots
  IN /\ shot <=> /\ s \in DOMAIN orders' /\ orders'[s].fire # {}
                 /\ f.cooldown = 0 /\ f.ammo > 0
     /\ g.cooldown = IF shot
          THEN Greatest(0, EffectiveCooldown(LeftOf(s, "rapid_fire") > 0, f.emp > 0) - 1)
          ELSE Greatest(0, f.cooldown - 1)
     /\ f.emp > 0 /\ g.mode = "active" => \A c \in g.contacts : c[1] = "trace"
     /\ g.hit = 0 /\ world'.ships[s].course = 0
          => g.hp = IF LeftOf(s, "repair_drones") > 0
                    THEN Least(f.hp + Config.regen, Config.hull) ELSE f.hp
FramesPart ==
  \A s \in DOMAIN frames :
    (world'.tick = world.tick + 1 /\ frames[s].tick = world.tick
       /\ s \in DOMAIN frames' /\ frames'[s].tick = world'.tick /\ began' = began)
    => WordKept(s)

\* The shots of a step, as they are counted.
LEMMA StepShots ==
  ASSUME Shape, Tallied, NEW o, NEW out, Stepping(o, out), NEW s \in Ships
  PROVE  stats'[s].shots > stats[s].shots <=> Shoots(world, s, o)
  <1> DEFINE y == Shots(stats, world, out.world)
  <1>1. /\ Ticked(out, world, o) /\ world \in Worlds /\ out.hits \in Seq(Hits)
        /\ stats' = Credited(stats, world, out) /\ stats \in Tallies
    BY TickedIs DEF Shape, Stepping, StepTo, Tallied
  <1>2. /\ y \in Tallies
        /\ y[s].shots = IF s \in Shooters(world, o) THEN stats[s].shots + 1 ELSE stats[s].shots
    BY <1>1, ShotsIs
  <1>3. CreditedTo(stats', y, out.hits, Len(out.hits))
    BY <1>1, <1>2, CreditedIs
  <1>4. stats'[s].shots = y[s].shots
    <2>1. ShotsOf(stats')[s] = ShotsOf(y)[s]
      BY <1>3 DEF CreditedTo
    <2> QED BY <2>1 DEF ShotsOf
  <1>5. stats[s].shots \in Int
    <2>1. stats[s] \in Stat
      BY <1>1 DEF Tallies
    <2> QED BY <2>1 DEF Stat
  <1>6. s \in Shooters(world, o) <=> Shoots(world, s, o)
    BY DEF Shooters
  <1> HIDE DEF y
  <1> QED BY <1>2, <1>4, <1>5, <1>6

LEMMA StepKeepsWord ==
  ASSUME Shape, Worded, Effects, Tallied, NEW o, NEW out, Stepping(o, out), NEW s \in DOMAIN frames,
         frames[s].tick = world.tick, s \in DOMAIN frames', frames'[s].tick = world'.tick,
         began' = began
  PROVE  WordKept(s)
  <1> DEFINE w == out.world
             v == world.ships[s]
             t == world.tick
             f == frames[s]
             g == frames'[s]
             fires == Shoots(world, s, o)
  <1>1. /\ StepLeaves(out) /\ Ticked(out, world, o) /\ world \in Worlds /\ t \in Nat
        /\ w \in Worlds /\ w.tick = t + 1 /\ out.hits \in Seq(Hits) /\ s \in Ships
        /\ ShipTick(w.ships[s], out.moved.ships[s], world, o, s, out.hits)
    <2>1. s \in Ships
      BY DEF Shape
    <2> QED BY <2>1, StepLeavesIt, TickedIs, WorldFields DEF Shape, Stepping
  <1>2. ~Decided(w)
    <2>1. ASSUME Decided(w)
          PROVE  FALSE
      <3>1. frames' = frames
        BY <2>1 DEF Stepping, StepTo
      <3> QED BY <1>1, <3>1 DEF StepLeaves
    <2> QED BY <2>1
  <1>3. s \in Alive(w) /\ FrameTells(g, w, s, modes'[s], pingers, out.hits)
    BY <1>2, StepFrames
  <1>4. w.ships[s].alive /\ v.alive
    BY <1>1, <1>3 DEF Alive, ShipTick
  <1>5. Displays(f, v, t)
    BY <1>4 DEF Worded
  <1>6. \A x \in Ships : ~Activates(world, x, o)
    <2>1. Remembered(o)
      BY StepRemembers
    <2>2. SUFFICES ASSUME NEW x \in Ships, Activates(world, x, o)
                   PROVE  FALSE
      OBVIOUS
    <2>3. Pick(world, x, o) \in DOMAIN began[x]
      BY <2>1, <2>2 DEF Remembered
    <2>4. DOMAIN began[x] = world.ships[x].used
      BY DEF Effects, Dated
    <2> QED BY <2>2, <2>3, <2>4 DEF Activates
  <1>7. QuietTick(w.ships[s], v, t, fires, out.hits, s)
    BY <1>1, <1>4, <1>6, QuietTickIs
  <1>8. stats'[s].shots > stats[s].shots <=> fires
    BY <1>1, StepShots
  <1>9. orders' = o
    BY DEF Stepping, StepTo, Recorded
  <1>10. /\ LeftOf(s, "rapid_fire") > 0 <=> ActiveAt(v, "rapid_fire", t)
         /\ LeftOf(s, "repair_drones") > 0 <=> ActiveAt(v, "repair_drones", t)
    <2>1. "rapid_fire" \in PowerupId \ InWorld /\ "repair_drones" \in PowerupId \ InWorld
      BY DEF PowerupId, InWorld
    <2> QED BY <1>1, <1>5, <2>1, LeftIsActive
  <1>11. v.emp \in Nat /\ (f.emp > 0 <=> v.emp > t)
    <2>1. v.emp \in Nat
      <3>1. Sound(v, s)
        BY <1>1, WorldFields, ShipOf
      <3> QED BY <3>1, FieldsOf
    <2>2. f.emp = Greatest(0, v.emp - t)
      BY <1>5 DEF Displays
    <2> HIDE DEF v, f, t
    <2> QED BY <1>1, <2>1, <2>2 DEF Greatest
  <1>12. SameButAttacker(world'.ships[s], w.ships[s])
    BY <1>1 DEF StepLeaves
  <1> HIDE DEF w, v, t, f, g, fires
  <1>13. fires <=> /\ s \in DOMAIN orders' /\ orders'[s].fire # {} /\ f.cooldown = 0 /\ f.ammo > 0
    BY <1>4, <1>5, <1>9 DEF fires, Shoots, CanFire, Displays, v
  <1>14. g.cooldown = IF fires
            THEN Greatest(0, EffectiveCooldown(LeftOf(s, "rapid_fire") > 0, f.emp > 0) - 1)
            ELSE Greatest(0, f.cooldown - 1)
    <2>1. g.cooldown = w.ships[s].cooldown
      BY <1>3 DEF FrameTells
    <2>2. f.cooldown = v.cooldown
      BY <1>5 DEF Displays
    <2>3. (LeftOf(s, "rapid_fire") > 0) = ActiveAt(v, "rapid_fire", t) /\ (f.emp > 0) = (v.emp > t)
      BY <1>10, <1>11 DEF ActiveAt
    <2> QED BY <1>7, <2>1, <2>2, <2>3 DEF QuietTick
  <1>15. f.emp > 0 /\ g.mode = "active" => \A c \in g.contacts : c[1] = "trace"
    <2>1. SUFFICES ASSUME f.emp > 0, g.mode = "active"
                   PROVE  \A c \in g.contacts : c[1] = "trace"
      OBVIOUS
    <2>2. w.ships[s].emp = v.emp /\ w.tick - 1 = t
      BY <1>1, <1>7 DEF QuietTick
    <2>3. modes'[s] = "active"
      BY <1>3, <2>1 DEF FrameTells
    <2>4. w.ships[s].emp > w.tick - 1
      BY <1>11, <2>1, <2>2
    <2> QED BY <1>3, <2>3, <2>4, JammedShowsTraces
  <1>16. g.hit = 0 /\ world'.ships[s].course = 0
          => g.hp = IF LeftOf(s, "repair_drones") > 0
                    THEN Least(f.hp + Config.regen, Config.hull) ELSE f.hp
    <2>1. SUFFICES ASSUME g.hit = 0, world'.ships[s].course = 0
                   PROVE  g.hp = IF LeftOf(s, "repair_drones") > 0
                                 THEN Least(f.hp + Config.regen, Config.hull) ELSE f.hp
      OBVIOUS
    <2>2. HitsTold(s, out.hits) = 0
      BY <1>3, <2>1 DEF FrameTells
    <2>3. \A i \in DOMAIN out.hits : out.hits[i].ship # s
      BY <1>1, <2>2, UntoldIsUnhit
    <2>4. w.ships[s].course = 0
      BY <1>12, <2>1 DEF SameButAttacker
    <2>5. g.hp = w.ships[s].hp /\ f.hp = v.hp
      BY <1>3, <1>5 DEF FrameTells, Displays
    <2> QED BY <1>7, <1>10, <2>3, <2>4, <2>5 DEF QuietTick
  <1> QED BY <1>8, <1>13, <1>14, <1>15, <1>16 DEF WordKept, f, g

LEMMA StepIsWord ==
  ASSUME Shape, Worded, Effects, Tallied, [Next]_vars
  PROVE  FramesPart
  <1> SUFFICES ASSUME NEW s \in DOMAIN frames, world'.tick = world.tick + 1,
                      frames[s].tick = world.tick, s \in DOMAIN frames',
                      frames'[s].tick = world'.tick, began' = began
               PROVE  WordKept(s)
    BY DEF FramesPart
  <1>1. Step
    BY TickIsStep
  <1>2. PICK o, out : Stepping(o, out)
    BY <1>1, StepIs DEF Shape
  <1> QED BY <1>2, StepKeepsWord

\* What a frame tells a bot of its gun, its radar and its repairs is what the next tick does.
THEOREM BattleFramesKeepWord == Spec => FramesKeepTheirWord
  <1>1. Shape /\ Worded /\ Effects /\ Tallied /\ [Next]_vars => [FramesPart]_vars
    BY StepIsWord
  <1>2. Spec => [][FramesPart]_vars
    BY <1>1, ShapeInvariant, WordedInvariant, EffectsInvariant, TalliedInvariant, PTL DEF Spec
  <1> QED BY <1>2 DEF FramesKeepTheirWord, FramesPart, WordKept

-----------------------------------------------------------------------------
(* The order of the ships.  Activations in any order make the same world. *)

\* An order in which the ships may be taken, and the ships at its first n places.
Roll(R) ==
  /\ R \in Seq(Ships) /\ Ships = {R[i] : i \in 1..Len(R)}
  /\ \A i, j \in 1..Len(R) : R[i] = R[j] => i = j
FirstOf(R, n) == {R[i] : i \in 1..n}

LEMMA RosterIsRoll == Roll(Roster) /\ Roll(Reverse(Roster))
  <1> DEFINE N == Len(Roster)
             V == Reverse(Roster)
  <1>1. Roster \in Seq(Ships) /\ N \in Nat /\ DOMAIN Roster = 1..N
    BY RosterIsSeq
  <1>2. Ships = {Roster[i] : i \in 1..N}
    BY <1>1 DEF Ships
  <1>3. \A i, j \in 1..N : Roster[i] = Roster[j] => i = j
    BY <1>1, FleetAssumption DEF FleetValid
  <1>4. V = [i \in 1..N |-> Roster[(N - i) + 1]]
    BY DEF Reverse
  <1>5. \A i \in 1..N : (N - i) + 1 \in 1..N
    BY <1>1
  <1>6. V \in Seq(Ships) /\ Len(V) = N
    <2>1. V \in [1..N -> Ships]
      BY <1>1, <1>4, <1>5
    <2> HIDE DEF V, N
    <2> QED BY <1>1, <2>1
  <1>7. \A i \in 1..N : V[i] = Roster[(N - i) + 1]
    BY <1>4
  <1> HIDE DEF V, N
  <1>8. Ships = {V[i] : i \in 1..N}
    <2>1. ASSUME NEW s \in Ships PROVE \E i \in 1..N : V[i] = s
      <3>1. PICK j \in 1..N : s = Roster[j]
        BY <1>2
      <3>2. (N - j) + 1 \in 1..N /\ (N - ((N - j) + 1)) + 1 = j
        BY <1>1, <3>1
      <3> QED BY <1>7, <3>1, <3>2
    <2>2. ASSUME NEW i \in 1..N PROVE V[i] \in Ships
      BY <1>2, <1>5, <1>7
    <2> QED BY <2>1, <2>2
  <1>9. \A i, j \in 1..N : V[i] = V[j] => i = j
    <2> SUFFICES ASSUME NEW i \in 1..N, NEW j \in 1..N, V[i] = V[j] PROVE i = j
      OBVIOUS
    <2>1. (N - i) + 1 = (N - j) + 1
      BY <1>3, <1>5, <1>7
    <2> QED BY <1>1, <2>1
  <1> QED BY <1>1, <1>2, <1>3, <1>6, <1>8, <1>9 DEF Roll, V, N

LEMMA FirstOfIs ==
  ASSUME NEW R, Roll(R)
  PROVE  /\ Len(R) \in Nat /\ FirstOf(R, 0) = {} /\ FirstOf(R, Len(R)) = Ships
         /\ \A n \in 0..(Len(R) - 1) :
              /\ n + 1 \in 1..Len(R) /\ R[n + 1] \in Ships
              /\ R[n + 1] \notin FirstOf(R, n) /\ FirstOf(R, n + 1) = FirstOf(R, n) \cup {R[n + 1]}
              /\ FirstOf(R, n) \subseteq Ships
  <1>1. Len(R) \in Nat
    BY DEF Roll
  <1>2. FirstOf(R, 0) = {}
    BY DEF FirstOf
  <1>3. FirstOf(R, Len(R)) = Ships
    BY DEF FirstOf, Roll
  <1>4. ASSUME NEW n \in 0..(Len(R) - 1)
        PROVE  /\ n + 1 \in 1..Len(R) /\ R[n + 1] \in Ships
               /\ R[n + 1] \notin FirstOf(R, n) /\ FirstOf(R, n + 1) = FirstOf(R, n) \cup {R[n + 1]}
               /\ FirstOf(R, n) \subseteq Ships
    <2>1. n + 1 \in 1..Len(R) /\ 1..(n + 1) = (1..n) \cup {n + 1} /\ n \in Nat
          /\ 1..n \subseteq 1..Len(R) /\ n + 1 \notin 1..n
      BY <1>1
    <2>2. R[n + 1] \in Ships /\ FirstOf(R, n) \subseteq Ships
      BY <2>1 DEF Roll, FirstOf
    <2>3. R[n + 1] \notin FirstOf(R, n)
      BY <2>1 DEF FirstOf, Roll
    <2>4. FirstOf(R, n + 1) = FirstOf(R, n) \cup {R[n + 1]}
      BY <2>1 DEF FirstOf
    <2> QED BY <2>1, <2>2, <2>3, <2>4
  <1> QED BY <1>1, <1>2, <1>3, <1>4

\* Ships and worlds are the same when all their fields are.
SameShip(u, v) == SameButEmp(u, v) /\ u.emp = v.emp

LEMMA VesselsEqual ==
  ASSUME NEW u \in Vessels, NEW v \in Vessels, SameShip(u, v)
  PROVE  u = v
  <1>1. /\ u.place = v.place /\ u.heading = v.heading /\ u.course = v.course /\ u.speed = v.speed
        /\ u.hp = v.hp /\ u.ammo = v.ammo /\ u.cooldown = v.cooldown /\ u.alive = v.alive
        /\ u.selected = v.selected /\ u.used = v.used /\ u.until = v.until /\ u.emp = v.emp
        /\ u.reveal = v.reveal /\ u.attacker = v.attacker
    BY DEF SameShip, SameButEmp
  <1>2. u = [place |-> u.place, heading |-> u.heading, course |-> u.course, speed |-> u.speed,
             hp |-> u.hp, ammo |-> u.ammo, cooldown |-> u.cooldown, alive |-> u.alive,
             selected |-> u.selected, used |-> u.used, until |-> u.until, emp |-> u.emp,
             reveal |-> u.reveal, attacker |-> u.attacker]
    BY DEF Vessels
  <1>3. v = [place |-> v.place, heading |-> v.heading, course |-> v.course, speed |-> v.speed,
             hp |-> v.hp, ammo |-> v.ammo, cooldown |-> v.cooldown, alive |-> v.alive,
             selected |-> v.selected, used |-> v.used, until |-> v.until, emp |-> v.emp,
             reveal |-> v.reveal, attacker |-> v.attacker]
    BY DEF Vessels
  <1> QED BY <1>1, <1>2, <1>3

LEMMA FleetsEqual ==
  ASSUME NEW f \in Fleets, NEW g \in Fleets, \A s \in Ships : SameShip(f[s], g[s])
  PROVE  f = g
  <1>1. ASSUME NEW s \in Ships PROVE f[s] = g[s]
    <2>1. f[s] \in Vessels /\ g[s] \in Vessels /\ SameShip(f[s], g[s])
      BY ShipOf
    <2> QED BY <2>1, VesselsEqual
  <1>2. f \in [Ships -> Vessels] /\ g \in [Ships -> Vessels]
    BY DEF Fleets
  <1> QED BY <1>1, <1>2

LEMMA WorldsEqual ==
  ASSUME NEW u \in Worlds, NEW w \in Worlds, u.tick = w.tick, u.shells = w.shells,
         u.clouds = w.clouds, u.decoys = w.decoys, u.ships = w.ships
  PROVE  u = w
  BY DEF Worlds

\* What activations put in the world, and whom their bursts jam.
CloudOf(w, s) ==
  [owner |-> s, at |-> w.ships[s].place, until |-> w.tick + Config.duration["smoke_screen"]]
DecoyOf(w, s, ahead) ==
  [owner |-> s, at |-> Inside(w.ships[s].place + w.ships[s].heading * ahead[s]),
   drift |-> w.ships[s].heading * w.ships[s].speed,
   until |-> w.tick + Config.duration["decoy_flare"]]
Jams(w, o, some, x) == \E y \in Chose(w, o, some, "emp_burst") : InBurst(w, y, x)
JammedTo(w, x) == Greatest(w.ships[x].emp, w.tick + Config.duration["emp_burst"])

EmpoweredBy(u, w, o, ahead, some) ==
  /\ EmpoweredTo(u, w, o, some)
  /\ \A x \in Ships : u.ships[x].emp = IF Jams(w, o, some, x) THEN JammedTo(w, x) ELSE w.ships[x].emp
  /\ u.clouds = w.clouds \cup {CloudOf(w, s) : s \in Chose(w, o, some, "smoke_screen")}
  /\ u.decoys = w.decoys \cup {DecoyOf(w, s, ahead) : s \in Chose(w, o, some, "decoy_flare")}

\* What one activation does to the others and to the world, exactly.
LEMMA ActivatedPuts ==
  ASSUME NEW w \in Worlds, NEW s \in Ships, NEW p \in PowerupId, NEW ahead \in [Ships -> Int],
         w.ships[s].alive, NEW u, u = Activated(w, s, p, ahead[s])
  PROVE  /\ \A x \in Ships : u.ships[x].emp = IF p = "emp_burst" /\ InBurst(w, s, x)
                                              THEN JammedTo(w, x) ELSE w.ships[x].emp
         /\ u.clouds = w.clouds \cup IF p = "smoke_screen" THEN {CloudOf(w, s)} ELSE {}
         /\ u.decoys = w.decoys \cup IF p = "decoy_flare" THEN {DecoyOf(w, s, ahead)} ELSE {}
  <1> DEFINE me  == w.ships[s]
             end == w.tick + Config.duration[p]
             f   == [x \in Ships |->
                      IF x = s THEN Powered(me, p, w.tick)
                      ELSE IF p = "emp_burst" /\ InBurst(w, s, x)
                      THEN [w.ships[x] EXCEPT !.emp = Greatest(@, end)]
                      ELSE w.ships[x]]
             C   == IF p # "smoke_screen" THEN w.clouds
                    ELSE w.clouds \cup {[owner |-> s, at |-> me.place, until |-> end]}
             D   == IF p # "decoy_flare" THEN w.decoys
                    ELSE w.decoys \cup {[owner |-> s, at |-> Inside(me.place + me.heading * ahead[s]),
                                         drift |-> me.heading * me.speed, until |-> end]}
  <1>1. u = [w EXCEPT !.ships = f, !.clouds = C, !.decoys = D]
    BY DEF Activated
  <1>2. C = w.clouds \cup IF p = "smoke_screen" THEN {CloudOf(w, s)} ELSE {}
    BY DEF CloudOf
  <1>3. D = w.decoys \cup IF p = "decoy_flare" THEN {DecoyOf(w, s, ahead)} ELSE {}
    BY DEF DecoyOf
  <1>4. ASSUME NEW x \in Ships
        PROVE  f[x].emp = IF p = "emp_burst" /\ InBurst(w, s, x) THEN JammedTo(w, x) ELSE w.ships[x].emp
    <2>1. w.ships[x] \in Vessels /\ w.tick \in Nat
      BY WorldFields, ShipOf
    <2>2. CASE x = s
      <3>1. f[x] = Powered(w.ships[x], p, w.tick)
        BY <2>2
      <3>2. f[x].emp = w.ships[x].emp
        <4> HIDE DEF f
        <4> QED BY <2>1, <3>1, PoweredFields DEF PoweredTo
      <3> HIDE DEF f
      <3> QED BY <2>2, <3>2 DEF InBurst
    <2>3. CASE x # s /\ p = "emp_burst" /\ InBurst(w, s, x)
      <3> DEFINE m == JammedTo(w, x)
      <3>1. f[x] = [w.ships[x] EXCEPT !.emp = m]
        BY <2>3 DEF JammedTo
      <3> HIDE DEF f, m
      <3>2. f[x].emp = m
        BY <2>1, <3>1 DEF Vessels
      <3> QED BY <2>3, <3>2 DEF m
    <2>4. CASE x # s /\ ~(p = "emp_burst" /\ InBurst(w, s, x))
      BY <2>4
    <2> QED BY <2>2, <2>3, <2>4
  <1> HIDE DEF f, C, D
  <1>5. u.ships = f /\ u.clouds = C /\ u.decoys = D
    BY <1>1 DEF Worlds
  <1> QED BY <1>2, <1>3, <1>4, <1>5

LEMMA ChoseMore ==
  ASSUME NEW w, NEW o, NEW some, NEW s, NEW p
  PROVE  Chose(w, o, some \cup {s}, p)
           = Chose(w, o, some, p) \cup IF Activates(w, s, o) /\ Pick(w, s, o) = p THEN {s} ELSE {}
  BY DEF Chose

\* A burst jams once, however often.
LEMMA JamsOnce ==
  ASSUME NEW w \in Worlds, NEW x \in Ships
  PROVE  /\ w.ships[x].emp \in Nat /\ JammedTo(w, x) \in Nat
         /\ Greatest(JammedTo(w, x), w.tick + Config.duration["emp_burst"]) = JammedTo(w, x)
  <1>1. w.ships[x].emp \in Nat /\ w.tick \in Nat
    BY WorldFields, ShipOf, VesselFields
  <1>2. Config.duration["emp_burst"] \in Nat
    BY ConfigFacts DEF PowerupId
  <1> QED BY <1>1, <1>2 DEF JammedTo, Greatest

LEMMA EmpoweredByStep ==
  ASSUME NEW w \in Worlds, NEW o, NEW some \in SUBSET Ships, NEW s \in Ships \ some,
         NEW ahead \in [Ships -> Int], NEW u \in Worlds, EmpoweredBy(u, w, o, ahead, some),
         NEW x, x = EmpoweredOne(u, s, o, ahead)
  PROVE  x \in Worlds /\ EmpoweredBy(x, w, o, ahead, some \cup {s})
  <1> DEFINE p   == Pick(w, s, o)
             all == some \cup {s}
             on(q) == IF Activates(w, s, o) /\ p = q THEN {s} ELSE {}
  <1>1. x \in Worlds /\ EmpoweredTo(x, w, o, all)
    BY EmpoweredOneType, EmpoweredStep DEF EmpoweredBy
  <1>2. SameButEmp(u.ships[s], w.ships[s]) /\ u.tick = w.tick
    BY DEF EmpoweredBy, EmpoweredTo
  <1>3. Pick(u, s, o) = p /\ (Activates(u, s, o) <=> Activates(w, s, o))
    BY <1>2 DEF SameButEmp, Pick, Activates
  <1>4. \A q : Chose(w, o, all, q) = Chose(w, o, some, q) \cup on(q)
    BY ChoseMore
  <1>5. ASSUME NEW y \in Ships PROVE InBurst(u, s, y) <=> InBurst(w, s, y)
    <2>1. u.ships[y].alive = w.ships[y].alive /\ u.ships[y].place = w.ships[y].place
      BY DEF EmpoweredBy, EmpoweredTo, SameButEmp, PoweredButEmp
    <2> QED BY <1>2, <2>1 DEF InBurst, SameButEmp
  <1>6. CASE ~Activates(w, s, o)
    <2>1. x = u
      BY <1>3, <1>6, EmpoweredOneType
    <2>2. \A q : Chose(w, o, all, q) = Chose(w, o, some, q)
      BY <1>4, <1>6
    <2>3. \A y \in Ships : Jams(w, o, all, y) <=> Jams(w, o, some, y)
      BY <2>2 DEF Jams
    <2>4. /\ Chose(w, o, all, "smoke_screen") = Chose(w, o, some, "smoke_screen")
          /\ Chose(w, o, all, "decoy_flare") = Chose(w, o, some, "decoy_flare")
      BY <2>2
    <2> HIDE DEF p, all, on
    <2>5. \A y \in Ships : x.ships[y].emp = IF Jams(w, o, all, y) THEN JammedTo(w, y) ELSE w.ships[y].emp
      BY <2>1, <2>3 DEF EmpoweredBy
    <2>6. /\ x.clouds = w.clouds \cup {CloudOf(w, y) : y \in Chose(w, o, all, "smoke_screen")}
          /\ x.decoys = w.decoys \cup {DecoyOf(w, y, ahead) : y \in Chose(w, o, all, "decoy_flare")}
      BY <2>1, <2>4 DEF EmpoweredBy
    <2>7. EmpoweredBy(x, w, o, ahead, all)
      BY <1>1, <2>5, <2>6 DEF EmpoweredBy
    <2> QED BY <1>1, <2>7 DEF all
  <1>7. CASE Activates(w, s, o)
    <2>1. p \in PowerupId /\ u.ships[s].alive
      BY <1>2, <1>7, PickType DEF Activates, SameButEmp
    <2>2. x = Activated(u, s, p, ahead[s])
      BY <1>3, <1>7, EmpoweredOneIs
    <2>3. /\ \A y \in Ships : x.ships[y].emp = IF p = "emp_burst" /\ InBurst(u, s, y)
                                               THEN JammedTo(u, y) ELSE u.ships[y].emp
          /\ x.clouds = u.clouds \cup IF p = "smoke_screen" THEN {CloudOf(u, s)} ELSE {}
          /\ x.decoys = u.decoys \cup IF p = "decoy_flare" THEN {DecoyOf(u, s, ahead)} ELSE {}
      BY <2>1, <2>2, ActivatedPuts
    <2>4. CloudOf(u, s) = CloudOf(w, s) /\ DecoyOf(u, s, ahead) = DecoyOf(w, s, ahead)
      BY <1>2 DEF CloudOf, DecoyOf, SameButEmp
    <2> HIDE DEF p
    <2>5. x.clouds = w.clouds \cup {CloudOf(w, y) : y \in Chose(w, o, all, "smoke_screen")}
      <3>1. Chose(w, o, all, "smoke_screen")
              = Chose(w, o, some, "smoke_screen") \cup IF p = "smoke_screen" THEN {s} ELSE {}
        BY <1>4, <1>7
      <3>2. u.clouds = w.clouds \cup {CloudOf(w, y) : y \in Chose(w, o, some, "smoke_screen")}
        BY DEF EmpoweredBy
      <3> QED BY <2>3, <2>4, <3>1, <3>2
    <2>6. x.decoys = w.decoys \cup {DecoyOf(w, y, ahead) : y \in Chose(w, o, all, "decoy_flare")}
      <3>1. Chose(w, o, all, "decoy_flare")
              = Chose(w, o, some, "decoy_flare") \cup IF p = "decoy_flare" THEN {s} ELSE {}
        BY <1>4, <1>7
      <3>2. u.decoys = w.decoys \cup {DecoyOf(w, y, ahead) : y \in Chose(w, o, some, "decoy_flare")}
        BY DEF EmpoweredBy
      <3> QED BY <2>3, <2>4, <3>1, <3>2
    <2>7. ASSUME NEW y \in Ships
          PROVE  x.ships[y].emp = IF Jams(w, o, all, y) THEN JammedTo(w, y) ELSE w.ships[y].emp
      <3>1. u.ships[y].emp = IF Jams(w, o, some, y) THEN JammedTo(w, y) ELSE w.ships[y].emp
        BY DEF EmpoweredBy
      <3>2. Jams(w, o, all, y) <=> Jams(w, o, some, y) \/ (p = "emp_burst" /\ InBurst(w, s, y))
        <4>1. Chose(w, o, all, "emp_burst")
                = Chose(w, o, some, "emp_burst") \cup IF p = "emp_burst" THEN {s} ELSE {}
          BY <1>4, <1>7
        <4> QED BY <4>1 DEF Jams
      <3>3. JammedTo(u, y) = Greatest(u.ships[y].emp, w.tick + Config.duration["emp_burst"])
        BY <1>2 DEF JammedTo
      <3>4. JammedTo(u, y) = JammedTo(w, y)
        BY <3>1, <3>3, JamsOnce DEF JammedTo
      <3> QED BY <1>5, <2>3, <3>1, <3>2, <3>4
    <2> QED BY <1>1, <2>5, <2>6, <2>7 DEF EmpoweredBy
  <1> QED BY <1>6, <1>7

\* What the activations of a tick make of the world, whatever the order of the ships.
LEMMA EmpoweredByAll ==
  ASSUME NEW w \in Worlds, NEW o, NEW ahead \in [Ships -> Int], NEW R, Roll(R)
  PROVE  /\ Empowered(w, o, R, ahead) \in Worlds
         /\ EmpoweredBy(Empowered(w, o, R, ahead), w, o, ahead, Ships)
  <1>1. \A u \in Worlds, s \in Ships : EmpoweredOne(u, s, o, ahead) \in Worlds
    BY EmpoweredOneType
  <1>a. PICK g \in [0..Len(R) -> Worlds] : EmpoweredRun(g, w, o, R, ahead)
    <2>1. R \in Seq(Ships)
      BY DEF Roll
    <2> QED BY <1>1, <2>1, EmpoweredGoes
  <1>2. /\ g[0] = w /\ Empowered(w, o, R, ahead) = g[Len(R)]
        /\ \A i \in 1..Len(R) : g[i] = EmpoweredOne(g[i - 1], R[i], o, ahead)
    BY <1>a DEF EmpoweredRun
  <1> DEFINE T == {n \in 0..Len(R) : EmpoweredBy(g[n], w, o, ahead, FirstOf(R, n))}
  <1>3. 0 \in T
    <2>1. EmpoweredBy(w, w, o, ahead, {})
      BY DEF EmpoweredBy, EmpoweredTo, SameButEmp, PutBy, Chose, Jams
    <2>2. 0 \in 0..Len(R) /\ FirstOf(R, 0) = {}
      BY FirstOfIs
    <2> QED BY <1>2, <2>1, <2>2
  <1>4. ASSUME NEW n \in T, n < Len(R) PROVE n + 1 \in T
    <2>1. n \in 0..(Len(R) - 1) /\ n + 1 \in 0..Len(R) /\ (n + 1) - 1 = n /\ n \in 0..Len(R)
      BY <1>4, FirstOfIs
    <2>2. EmpoweredBy(g[n], w, o, ahead, FirstOf(R, n)) /\ g[n] \in Worlds
      BY <2>1
    <2>3. /\ n + 1 \in 1..Len(R) /\ R[n + 1] \in Ships \ FirstOf(R, n)
          /\ FirstOf(R, n + 1) = FirstOf(R, n) \cup {R[n + 1]} /\ FirstOf(R, n) \in SUBSET Ships
      BY <2>1, FirstOfIs
    <2>4. g[n + 1] = EmpoweredOne(g[n], R[n + 1], o, ahead)
      BY <1>2, <2>1, <2>3
    <2>5. EmpoweredBy(g[n + 1], w, o, ahead, FirstOf(R, n + 1))
      BY <2>2, <2>3, <2>4, EmpoweredByStep
    <2> QED BY <2>1, <2>5
  <1>5. Len(R) \in T
    <2> HIDE DEF T
    <2>1. T \in SUBSET (0..Len(R))
      BY DEF T
    <2> QED BY <1>3, <1>4, <2>1, FirstOfIs, InductionTo
  <1> QED BY <1>2, <1>5, FirstOfIs

\* Activations end alike in every order.
LEMMA EmpoweredAgrees ==
  ASSUME NEW w \in Worlds, NEW o, NEW ahead \in [Ships -> Int], NEW R, Roll(R), NEW Q, Roll(Q)
  PROVE  Empowered(w, o, R, ahead) = Empowered(w, o, Q, ahead)
  <1> DEFINE u == Empowered(w, o, R, ahead)
             v == Empowered(w, o, Q, ahead)
  <1>1. /\ u \in Worlds /\ EmpoweredBy(u, w, o, ahead, Ships)
        /\ v \in Worlds /\ EmpoweredBy(v, w, o, ahead, Ships)
    BY EmpoweredByAll
  <1> HIDE DEF u, v
  <1>2. u.tick = v.tick /\ u.shells = v.shells /\ u.clouds = v.clouds /\ u.decoys = v.decoys
    BY <1>1 DEF EmpoweredBy, EmpoweredTo
  <1>3. ASSUME NEW s \in Ships PROVE SameShip(u.ships[s], v.ships[s])
    <2>1. u.ships[s].emp = v.ships[s].emp
      BY <1>1 DEF EmpoweredBy
    <2>2. SameButEmp(u.ships[s], v.ships[s])
      <3>1. CASE Activates(w, s, o)
        <4> DEFINE p == Pick(w, s, o)
        <4>1. /\ PoweredButEmp(u.ships[s], w.ships[s], p, w.tick)
              /\ PoweredButEmp(v.ships[s], w.ships[s], p, w.tick)
          BY <1>1, <3>1 DEF EmpoweredBy, EmpoweredTo
        <4> HIDE DEF p
        <4> QED BY <4>1 DEF PoweredButEmp, SameButEmp
      <3>2. CASE ~Activates(w, s, o)
        <4>1. SameButEmp(u.ships[s], w.ships[s]) /\ SameButEmp(v.ships[s], w.ships[s])
          BY <1>1, <3>2 DEF EmpoweredBy, EmpoweredTo
        <4> QED BY <4>1 DEF SameButEmp
      <3> QED BY <3>1, <3>2
    <2> QED BY <2>1, <2>2 DEF SameShip
  <1>4. u.ships = v.ships
    <2>1. u.ships \in Fleets /\ v.ships \in Fleets
      BY <1>1, WorldFields
    <2> QED BY <1>3, <2>1, FleetsEqual
  <1>5. u = v
    BY <1>1, <1>2, <1>4, WorldsEqual
  <1> QED BY <1>5 DEF u, v

-----------------------------------------------------------------------------
(* What a shot of each makes of the world, but for the order of the shells. *)

\* The sums of what each of the first shells of a sequence costs.
Sums(g, q, c) ==
  /\ g \in [0..Len(q) -> Nat] /\ g[0] = 0
  /\ \A i \in 1..Len(q) : g[i] = g[i - 1] + c[q[i]]
Toll(q, c) == CHOOSE g : Sums(g, q, c)
AllOf(q, c) == Toll(q, c)[Len(q)]

LEMMA TollIs ==
  ASSUME NEW q \in Seq(Shells), NEW c \in [Shells -> Nat]
  PROVE  Sums(Toll(q, c), q, c)
  <1> DEFINE S == Nat
             step == [x \in S \X Shells |-> x[1] + c[x[2]]]
  <1>1. step \in [S \X Shells -> S] /\ 0 \in S
    OBVIOUS
  <1>2. \A n \in S, e \in Shells : step[<<n, e>>] = n + c[e]
    OBVIOUS
  <1> HIDE DEF step
  <1>3. PICK it \in [SUBSET (DOMAIN q) -> S] : IsFold(it, 0, step, q)
    <2> HIDE DEF S
    <2> QED BY <1>1, FoldExists
  <1>4. Folds(it, S, 0, step, q)
    <2>1. {} \in SUBSET (DOMAIN q)
      OBVIOUS
    <2> QED BY <1>3, <2>1 DEF IsFold, Folds
  <1>5. PICK g \in [0..Len(q) -> S] : Goes(g, it, 0, step, q)
    <2> HIDE DEF S
    <2> QED BY <1>1, <1>4, FoldGoes
  <1>6. Sums(g, q, c)
    <2>1. ASSUME NEW i \in 1..Len(q) PROVE g[i] = g[i - 1] + c[q[i]]
      <3>1. i - 1 \in 0..Len(q) /\ q[i] \in Shells
        OBVIOUS
      <3> QED BY <1>2, <1>5, <3>1 DEF Goes
    <2> QED BY <1>5, <2>1 DEF Goes, Sums
  <1> QED BY <1>6 DEF Toll

LEMMA AllOfNone ==
  ASSUME NEW c \in [Shells -> Nat]
  PROVE  AllOf(<<>>, c) = 0
  <1>1. <<>> \in Seq(Shells) /\ Len(<<>>) = 0
    OBVIOUS
  <1>2. Sums(Toll(<<>>, c), <<>>, c)
    BY <1>1, TollIs
  <1> QED BY <1>1, <1>2 DEF Sums, AllOf

LEMMA AllOfType ==
  ASSUME NEW q \in Seq(Shells), NEW c \in [Shells -> Nat]
  PROVE  AllOf(q, c) \in Nat
  <1>1. Len(q) \in 0..Len(q)
    OBVIOUS
  <1> QED BY <1>1, TollIs DEF Sums, AllOf

LEMMA AllOfMore ==
  ASSUME NEW q \in Seq(Shells), NEW c \in [Shells -> Nat], NEW e \in Shells
  PROVE  AllOf(Append(q, e), c) = AllOf(q, c) + c[e]
  <1> DEFINE r == Append(q, e)
             g == Toll(q, c)
             h == Toll(r, c)
             N == Len(q)
             T == {n \in 0..N : h[n] = g[n]}
  <1>1. r \in Seq(Shells) /\ Len(r) = N + 1 /\ N \in Nat /\ r[N + 1] = e
        /\ \A i \in 1..N : r[i] = q[i]
    OBVIOUS
  <1>2. Sums(g, q, c) /\ Sums(h, r, c)
    BY <1>1, TollIs
  <1> HIDE DEF r, g, h, N
  <1>3. 0 \in T
    BY <1>1, <1>2 DEF Sums
  <1>4. ASSUME NEW n \in T, n < N PROVE n + 1 \in T
    <2>1. n \in 0..N /\ n + 1 \in 1..N /\ n + 1 \in 1..(N + 1) /\ (n + 1) - 1 = n
      BY <1>1, <1>4
    <2>2. h[n + 1] = h[n] + c[r[n + 1]] /\ g[n + 1] = g[n] + c[q[n + 1]]
      BY <1>1, <1>2, <2>1 DEF Sums, N
    <2> QED BY <1>1, <2>1, <2>2
  <1>5. N \in T
    <2> HIDE DEF T
    <2>1. T \in SUBSET (0..N)
      BY DEF T
    <2> QED BY <1>1, <1>3, <1>4, <2>1, InductionTo
  <1>6. N + 1 \in 1..Len(r) /\ (N + 1) - 1 = N
    BY <1>1
  <1>7. h[N + 1] = h[N] + c[e]
    BY <1>1, <1>2, <1>6 DEF Sums
  <1>8. h[Len(r)] = g[N] + c[e]
    BY <1>1, <1>5, <1>7
  <1> QED BY <1>8 DEF AllOf, r, g, h, N

LEMMA ElementsMore ==
  ASSUME NEW S, NEW q \in Seq(S), NEW e \in S
  PROVE  Elements(Append(q, e)) = Elements(q) \cup {e}
  <1>1. Len(q) \in Nat /\ DOMAIN q = 1..Len(q) /\ DOMAIN Append(q, e) = 1..(Len(q) + 1)
        /\ Append(q, e)[Len(q) + 1] = e /\ \A i \in 1..Len(q) : Append(q, e)[i] = q[i]
    OBVIOUS
  <1>2. 1..(Len(q) + 1) = (1..Len(q)) \cup {Len(q) + 1}
    BY <1>1
  <1> QED BY <1>1, <1>2 DEF Elements

\* The shells the ships of some fire, and what they cost.
ShellOf(w, s, o) == Shell(w.ships[s], s, CHOOSE a \in o[s].fire : TRUE, w.tick)
Firing(w, o, some) == {s \in some : Shoots(w, s, o)}
CostsOf(w, o, some, c) ==
  [s \in Ships |-> IF s \in some /\ Shoots(w, s, o) THEN c[ShellOf(w, s, o)] ELSE 0]
ShotBy(u, w, o, some) ==
  /\ ShotTo(u, w, o, some)
  /\ Elements(u.shells) = Elements(w.shells) \cup {ShellOf(w, s, o) : s \in Firing(w, o, some)}
  /\ \A c \in [Shells -> Nat] :
       AllOf(u.shells, c) = AllOf(w.shells, c) + Total(CostsOf(w, o, some, c))

LEMMA ShellOfType ==
  ASSUME NEW w \in Worlds, NEW s \in Ships, NEW o, Orderly(o), Shoots(w, s, o)
  PROVE  /\ ShellOf(w, s, o) \in Shells
         /\ ShotOne(w, s, o).shells = Append(w.shells, ShellOf(w, s, o))
  <1> DEFINE aim == CHOOSE a \in o[s].fire : TRUE
             sh == Shell(w.ships[s], s, aim, w.tick)
             ss == Append(w.shells, sh)
             f == [w.ships EXCEPT ![s] = Recoiled(@, w.tick)]
  <1>1. o[s].fire # {} /\ o[s].fire \in SUBSET Int
    BY DEF Shoots, Orderly, Order
  <1>2. aim \in Int
    BY <1>1
  <1>3. Sound(w.ships[s], s) /\ w.tick \in Nat
    BY WorldFields, ShipOf
  <1>4. ShotOne(w, s, o) = Fired(w, s, aim)
    BY DEF ShotOne, Shoots
  <1>5. ShellOf(w, s, o) = sh
    BY DEF ShellOf
  <1> HIDE DEF aim
  <1>6. sh \in Shells
    BY <1>2, <1>3, ShellType
  <1>7. Fired(w, s, aim) = [w EXCEPT !.shells = ss, !.ships = f]
    BY DEF Fired, Worlds
  <1> HIDE DEF ss, f, sh
  <1>8. Fired(w, s, aim).shells = ss
    BY <1>7 DEF Worlds
  <1> QED BY <1>4, <1>5, <1>6, <1>8 DEF ss

LEMMA ShotByStep ==
  ASSUME NEW w \in Worlds, NEW o, Orderly(o), NEW some \in SUBSET Ships, NEW s \in Ships \ some,
         NEW u \in Worlds, ShotBy(u, w, o, some), NEW x, x = ShotOne(u, s, o)
  PROVE  x \in Worlds /\ ShotBy(x, w, o, some \cup {s})
  <1> DEFINE all == some \cup {s}
             sh == ShellOf(w, s, o)
  <1>1. x \in Worlds /\ ShotTo(x, w, o, all)
    BY ShotOneType, ShotStep DEF ShotBy
  <1>2. u.ships[s] = w.ships[s] /\ u.tick = w.tick
    BY DEF ShotBy, ShotTo
  <1>3. (Shoots(u, s, o) <=> Shoots(w, s, o)) /\ ShellOf(u, s, o) = sh
    BY <1>2 DEF Shoots, CanFire, ShellOf
  <1>4. CASE ~Shoots(w, s, o)
    <2>1. x = u /\ Firing(w, o, all) = Firing(w, o, some)
      BY <1>3, <1>4, ShotOneType DEF Firing
    <2>2. \A c \in [Shells -> Nat] : CostsOf(w, o, all, c) = CostsOf(w, o, some, c)
      BY <1>4 DEF CostsOf
    <2> HIDE DEF all
    <2>3. ShotBy(x, w, o, all)
      BY <1>1, <2>1, <2>2 DEF ShotBy
    <2> QED BY <1>1, <2>3 DEF all
  <1>5. CASE Shoots(w, s, o)
    <2>1. sh \in Shells /\ x.shells = Append(u.shells, sh)
      BY <1>3, <1>5, ShellOfType
    <2>2. u.shells \in Seq(Shells) /\ w.shells \in Seq(Shells)
      BY WorldFields
    <2>3. Firing(w, o, all) = Firing(w, o, some) \cup {s}
      BY <1>5 DEF Firing
    <2>4. Elements(x.shells) = Elements(u.shells) \cup {sh}
      <3> HIDE DEF sh
      <3> QED BY <2>1, <2>2, ElementsMore
    <2>5. Elements(x.shells) = Elements(w.shells) \cup {ShellOf(w, y, o) : y \in Firing(w, o, all)}
      <3>1. Elements(u.shells) = Elements(w.shells) \cup {ShellOf(w, y, o) : y \in Firing(w, o, some)}
        BY DEF ShotBy
      <3> HIDE DEF all
      <3> QED BY <2>3, <2>4, <3>1
    <2>6. ASSUME NEW c \in [Shells -> Nat]
          PROVE  AllOf(x.shells, c) = AllOf(w.shells, c) + Total(CostsOf(w, o, all, c))
      <3> DEFINE f == CostsOf(w, o, some, c)
                 e == CostsOf(w, o, all, c)
      <3>1. AllOf(u.shells, c) = AllOf(w.shells, c) + Total(f)
        BY DEF ShotBy
      <3>2. AllOf(x.shells, c) = AllOf(u.shells, c) + c[sh]
        <4> HIDE DEF sh
        <4> QED BY <2>1, <2>2, AllOfMore
      <3>3. f \in [Ships -> Int]
        <4>1. ASSUME NEW y \in Ships PROVE f[y] \in Int
          <5>1. CASE y \in some /\ Shoots(w, y, o)
            <6>1. ShellOf(w, y, o) \in Shells
              BY <5>1, ShellOfType
            <6> QED BY <5>1, <6>1 DEF CostsOf
          <5>2. CASE ~(y \in some /\ Shoots(w, y, o))
            BY <5>2 DEF CostsOf
          <5> QED BY <5>1, <5>2
        <4>2. f = [y \in Ships |-> f[y]]
          BY DEF CostsOf
        <4> HIDE DEF f
        <4> QED BY <4>1, <4>2
      <3>4. f[s] = 0 /\ e[s] = c[sh] /\ \A y \in Ships \ {s} : e[y] = f[y]
        BY <1>5 DEF CostsOf
      <3>5. e = [y \in Ships |-> e[y]] /\ c[sh] \in Nat
        BY <2>1 DEF CostsOf
      <3> HIDE DEF e, f, sh
      <3>6. e \in [Ships -> Int]
        <4>1. \A y \in Ships : e[y] \in Int
          BY <3>3, <3>4, <3>5
        <4> QED BY <3>5, <4>1
      <3>7. Total(f) \in Int /\ Total(e) \in Int /\ Total(e) = Total(f) + c[sh]
        <4>1. c[sh] \in Int /\ e[s] = f[s] + c[sh]
          BY <3>4, <3>5
        <4> QED BY <3>3, <3>4, <3>6, <4>1, TotalMore
      <3>8. AllOf(w.shells, c) \in Nat
        BY <2>2, AllOfType
      <3> QED BY <3>1, <3>2, <3>5, <3>7, <3>8 DEF e
    <2> HIDE DEF all
    <2>7. ShotBy(x, w, o, all)
      BY <1>1, <2>5, <2>6 DEF ShotBy
    <2> QED BY <1>1, <2>7 DEF all
  <1> QED BY <1>4, <1>5

\* What the shots of a tick make of the world, whatever the order of the ships.
LEMMA ShotByAll ==
  ASSUME NEW w \in Worlds, NEW o, Orderly(o), NEW R, Roll(R)
  PROVE  Shot(w, o, R) \in Worlds /\ ShotBy(Shot(w, o, R), w, o, Ships)
  <1>1. \A u \in Worlds, s \in Ships : ShotOne(u, s, o) \in Worlds
    BY ShotOneType
  <1>2. PICK g \in [0..Len(R) -> Worlds] : ShotRun(g, w, o, R)
    <2>1. R \in Seq(Ships)
      BY DEF Roll
    <2> QED BY <1>1, <2>1, ShotGoes
  <1>3. /\ g[0] = w /\ Shot(w, o, R) = g[Len(R)]
        /\ \A i \in 1..Len(R) : g[i] = ShotOne(g[i - 1], R[i], o)
    BY <1>2 DEF ShotRun
  <1> DEFINE T == {n \in 0..Len(R) : ShotBy(g[n], w, o, FirstOf(R, n))}
  <1>4. 0 \in T
    <2>0. w.shells \in Seq(Shells)
      BY WorldFields
    <2>1. ShotTo(w, w, o, {})
      <3>1. {s \in {} : Shoots(w, s, o)} = {} /\ Len(w.shells) \in Nat
        BY <2>0
      <3> QED BY <3>1, FS_EmptySet DEF ShotTo
    <2>2. Elements(w.shells) = Elements(w.shells) \cup {ShellOf(w, s, o) : s \in Firing(w, o, {})}
      BY DEF Firing
    <2>3. ASSUME NEW c \in [Shells -> Nat]
          PROVE  AllOf(w.shells, c) = AllOf(w.shells, c) + Total(CostsOf(w, o, {}, c))
      <3>1. \A s \in Ships : CostsOf(w, o, {}, c)[s] = 0
        BY DEF CostsOf
      <3>2. Total(CostsOf(w, o, {}, c)) = 0
        BY <3>1, TotalNone
      <3>3. AllOf(w.shells, c) \in Nat
        BY <2>0, AllOfType
      <3> QED BY <3>2, <3>3
    <2>4. ShotBy(w, w, o, {})
      BY <2>1, <2>2, <2>3 DEF ShotBy
    <2>5. 0 \in 0..Len(R) /\ FirstOf(R, 0) = {}
      BY FirstOfIs
    <2> QED BY <1>3, <2>4, <2>5
  <1>5. ASSUME NEW n \in T, n < Len(R) PROVE n + 1 \in T
    <2>1. n \in 0..(Len(R) - 1) /\ n + 1 \in 0..Len(R) /\ (n + 1) - 1 = n /\ n \in 0..Len(R)
      BY <1>5, FirstOfIs
    <2>2. ShotBy(g[n], w, o, FirstOf(R, n)) /\ g[n] \in Worlds
      BY <2>1
    <2>3. /\ n + 1 \in 1..Len(R) /\ R[n + 1] \in Ships \ FirstOf(R, n)
          /\ FirstOf(R, n + 1) = FirstOf(R, n) \cup {R[n + 1]} /\ FirstOf(R, n) \in SUBSET Ships
      BY <2>1, FirstOfIs
    <2>4. g[n + 1] = ShotOne(g[n], R[n + 1], o)
      BY <1>3, <2>1, <2>3
    <2>5. ShotBy(g[n + 1], w, o, FirstOf(R, n + 1))
      BY <2>2, <2>3, <2>4, ShotByStep
    <2> QED BY <2>1, <2>5
  <1>6. Len(R) \in T
    <2> HIDE DEF T
    <2>1. T \in SUBSET (0..Len(R))
      BY DEF T
    <2> QED BY <1>4, <1>5, <2>1, FirstOfIs, InductionTo
  <1> QED BY <1>3, <1>6, FirstOfIs

\* Worlds that differ only in the order of their shells.
Alike(u, v) ==
  /\ u.tick = v.tick /\ u.clouds = v.clouds /\ u.decoys = v.decoys /\ u.ships = v.ships
  /\ Elements(u.shells) = Elements(v.shells)
  /\ \A c \in [Shells -> Nat] : AllOf(u.shells, c) = AllOf(v.shells, c)

\* Shots end alike in every order, but for the order of the shells.
LEMMA ShotsAgree ==
  ASSUME NEW w \in Worlds, NEW o, Orderly(o), NEW R, Roll(R), NEW Q, Roll(Q)
  PROVE  Alike(Shot(w, o, R), Shot(w, o, Q))
  <1> DEFINE u == Shot(w, o, R)
             v == Shot(w, o, Q)
  <1>1. u \in Worlds /\ ShotBy(u, w, o, Ships) /\ v \in Worlds /\ ShotBy(v, w, o, Ships)
    BY ShotByAll
  <1> HIDE DEF u, v
  <1>2. ShotTo(u, w, o, Ships) /\ ShotTo(v, w, o, Ships)
    BY <1>1 DEF ShotBy
  <1>3. ASSUME NEW s \in Ships PROVE SameShip(u.ships[s], v.ships[s])
    <2>1. CASE Shoots(w, s, o)
      <3>1. /\ RecoiledTo(u.ships[s], w.ships[s], w.tick)
            /\ RecoiledTo(v.ships[s], w.ships[s], w.tick)
        BY <1>2, <2>1 DEF ShotTo
      <3> QED BY <3>1 DEF RecoiledTo, SameShip, SameButEmp
    <2>2. CASE ~Shoots(w, s, o)
      <3>1. u.ships[s] = w.ships[s] /\ v.ships[s] = w.ships[s]
        BY <1>2, <2>2 DEF ShotTo
      <3> QED BY <3>1 DEF SameShip, SameButEmp
    <2> QED BY <2>1, <2>2
  <1>4. u.ships = v.ships
    <2>1. u.ships \in Fleets /\ v.ships \in Fleets
      BY <1>1, WorldFields
    <2> QED BY <1>3, <2>1, FleetsEqual
  <1>5. Elements(u.shells) = Elements(v.shells)
    BY <1>1 DEF ShotBy
  <1>6. \A c \in [Shells -> Nat] : AllOf(u.shells, c) = AllOf(v.shells, c)
    BY <1>1 DEF ShotBy
  <1>7. u.tick = v.tick /\ u.clouds = v.clouds /\ u.decoys = v.decoys
    BY <1>2 DEF ShotTo
  <1> QED BY <1>4, <1>5, <1>6, <1>7 DEF Alike, u, v

LEMMA MovedAgrees ==
  ASSUME NEW u \in Worlds, NEW v \in Worlds, Alike(u, v)
  PROVE  Alike(Moved(u), Moved(v))
  <1> DEFINE f(w) == [s \in Ships |-> IF w.ships[s].alive THEN Sailed(w.ships[s], w.tick) ELSE w.ships[s]]
             a == Moved(u)
             b == Moved(v)
  <1>1. f(u) = f(v)
    BY DEF Alike
  <1>2. a = [u EXCEPT !.ships = f(u)] /\ b = [v EXCEPT !.ships = f(v)]
    BY DEF Moved
  <1>3. MovedTo(a, u) /\ MovedTo(b, v)
    BY MovedType
  <1> HIDE DEF f, a, b
  <1>4. a.ships = f(u) /\ b.ships = f(v)
    BY <1>2 DEF Worlds
  <1> QED BY <1>1, <1>3, <1>4 DEF Alike, MovedTo, a, b

-----------------------------------------------------------------------------
(* What a barrage makes of the ships, from the set of its shells. *)

\* What a shell that goes off has made of the ships, once it has reached some of them.
Bursting(x, d, some, shell, t) ==
  /\ x.flying = d.flying
  /\ \A y \in Ships : IF y \in some /\ Reached(d.ships[y], shell, t)
                      THEN StruckTo(x.ships[y], d.ships[y], y, shell, t)
                      ELSE x.ships[y] = d.ships[y]

LEMMA BurstingStep ==
  ASSUME NEW d \in Dones, NEW shell \in Shells, NEW t \in Nat, NEW some \in SUBSET Ships,
         NEW s \in Ships \ some, NEW u \in Dones, Bursting(u, d, some, shell, t),
         NEW x, x = Splashed(u, s, shell, t)
  PROVE  Bursting(x, d, some \cup {s}, shell, t)
  <1>1. u.ships[s] = d.ships[s]
    BY DEF Bursting
  <1>2. CASE ~Reached(d.ships[s], shell, t)
    <2>1. x = u
      BY <1>1, <1>2 DEF Splashed
    <2> QED BY <1>2, <2>1 DEF Bursting
  <1>3. CASE Reached(d.ships[s], shell, t)
    <2>1. /\ x.flying = u.flying /\ \A y \in Ships \ {s} : x.ships[y] = u.ships[y]
          /\ StruckTo(x.ships[s], d.ships[s], s, shell, t)
      BY <1>1, <1>3, SplashedType
    <2> QED BY <1>3, <2>1 DEF Bursting
  <1> QED BY <1>2, <1>3

LEMMA BurstingAll ==
  ASSUME NEW d \in Dones, NEW shell \in Shells, NEW t \in Nat
  PROVE  Bursting(Burst(d, shell, t), d, Ships, shell, t)
  <1>1. \A u \in Dones, s \in Ships : Splashed(u, s, shell, t) \in Dones
    <2> SUFFICES ASSUME NEW u \in Dones, NEW s \in Ships PROVE Splashed(u, s, shell, t) \in Dones
      OBVIOUS
    <2>1. CASE Reached(u.ships[s], shell, t)
      BY <2>1, SplashedType
    <2>2. CASE ~Reached(u.ships[s], shell, t)
      BY <2>2 DEF Splashed
    <2> QED BY <2>1, <2>2
  <1>2. PICK g \in [0..Len(Roster) -> Dones] : BurstRun(g, d, shell, t)
    BY <1>1, BurstGoes
  <1>3. /\ g[0] = d /\ Burst(d, shell, t) = g[Len(Roster)]
        /\ \A i \in 1..Len(Roster) : g[i] = Splashed(g[i - 1], Roster[i], shell, t)
    BY <1>2 DEF BurstRun
  <1> DEFINE T == {n \in 0..Len(Roster) : Bursting(g[n], d, First(n), shell, t)}
  <1>4. 0 \in T
    <2>1. Bursting(d, d, {}, shell, t)
      BY DEF Bursting
    <2>2. 0 \in 0..Len(Roster) /\ First(0) = {}
      BY FirstIs
    <2> QED BY <1>3, <2>1, <2>2
  <1>5. ASSUME NEW n \in T, n < Len(Roster) PROVE n + 1 \in T
    <2>1. n \in 0..(Len(Roster) - 1) /\ n + 1 \in 0..Len(Roster) /\ (n + 1) - 1 = n /\ n \in 0..Len(Roster)
      BY <1>5, FirstIs
    <2>2. Bursting(g[n], d, First(n), shell, t) /\ g[n] \in Dones
      BY <2>1
    <2>3. /\ n + 1 \in 1..Len(Roster) /\ Roster[n + 1] \in Ships \ First(n)
          /\ First(n + 1) = First(n) \cup {Roster[n + 1]} /\ First(n) \in SUBSET Ships
      BY <2>1, FirstIs
    <2>4. g[n + 1] = Splashed(g[n], Roster[n + 1], shell, t)
      BY <1>3, <2>1, <2>3
    <2>5. Bursting(g[n + 1], d, First(n + 1), shell, t)
      BY <2>2, <2>3, <2>4, BurstingStep
    <2> QED BY <2>1, <2>5
  <1>6. Len(Roster) \in T
    <2> HIDE DEF T
    <2>1. T \in SUBSET (0..Len(Roster))
      BY DEF T
    <2> QED BY <1>4, <1>5, <2>1, FirstIs, InductionTo
  <1> QED BY <1>3, <1>6, FirstIs

\* A shell that goes off takes its damage from the hull of every ship, as far as there is hull.
BurstTo(x, v, s, shell, t) ==
  /\ x.hp = Greatest(0, v.hp - SplashDamage(v, shell, t))
  /\ x.alive => /\ v.alive
                /\ x.reveal = IF SplashDamage(v, shell, t) > 0 /\ Traced(v, s, shell, t)
                              THEN t + Config.reveal ELSE v.reveal

LEMMA BurstToIs ==
  ASSUME NEW d \in Dones, NEW shell \in Shells, NEW t \in Nat, NEW s \in Ships
  PROVE  BurstTo(Burst(d, shell, t).ships[s], d.ships[s], s, shell, t)
  <1> DEFINE x == Burst(d, shell, t).ships[s]
             v == d.ships[s]
             n == SplashDamage(v, shell, t)
  <1>1. Sound(v, s) /\ v.alive = (v.hp > 0) /\ v.hp \in 0..Config.hull
    BY ShipOf, FieldsOf DEF Dones
  <1>a. v.alive <=> v.hp > 0
    BY <1>1
  <1>2. n \in Nat /\ Config.hull \in Nat
    BY <1>1, DamageType, ConfigFacts
  <1>3. IF Reached(v, shell, t) THEN StruckTo(x, v, s, shell, t) ELSE x = v
    BY BurstingAll DEF Bursting
  <1> HIDE DEF x, v
  <1>4. CASE Reached(v, shell, t)
    <2>1. StruckTo(x, v, s, shell, t) /\ v.alive /\ n > 0
      BY <1>3, <1>4 DEF Reached
    <2> QED BY <2>1 DEF StruckTo, BurstTo, x, v
  <1>5. CASE ~Reached(v, shell, t)
    <2>0. x = v /\ ~(v.alive /\ n > 0)
      BY <1>3, <1>5 DEF Reached
    <2> HIDE DEF n
    <2>1. x = v /\ (v.hp = 0 \/ n = 0)
      BY <1>1, <1>a, <1>2, <2>0
    <2>2. v.hp = Greatest(0, v.hp - n)
      BY <1>1, <1>2, <2>1 DEF Greatest
    <2>3. v.alive => n = 0
      BY <1>a, <2>1
    <2> QED BY <1>2, <2>1, <2>2, <2>3 DEF BurstTo, n, x, v
  <1> QED BY <1>4, <1>5

\* What a shell of a tick takes from the hull of a ship, and what the first of them have made of
\* the ships that were f.
Cost(v, t) == [sh \in Shells |-> IF Flown(sh).ttl > 0 THEN 0 ELSE SplashDamage(v, Flown(sh), t)]
Named(v, s, q, t) ==
  /\ ActiveAt(v, "counter_battery_trace", t)
  /\ \E sh \in Elements(q) : Cost(v, t)[sh] > 0 /\ sh.by # s
PeltedTo(x, v, s, q, t) ==
  /\ x.hp = Greatest(0, v.hp - AllOf(q, Cost(v, t)))
  /\ x.alive => x.reveal = IF Named(v, s, q, t) THEN t + Config.reveal ELSE v.reveal
InFlight(q) == {Flown(sh) : sh \in {e \in Elements(q) : Flown(e).ttl > 0}}
Pelted(d, f, q, t) ==
  /\ \A s \in Ships : PeltedTo(d.ships[s], f[s], s, q, t)
  /\ Elements(d.flying) = InFlight(q)

LEMMA CostType ==
  ASSUME NEW s, NEW v, Sound(v, s), NEW t \in Nat
  PROVE  Cost(v, t) \in [Shells -> Nat]
  <1>1. ASSUME NEW sh \in Shells PROVE Cost(v, t)[sh] \in Nat
    <2>1. Flown(sh) \in Shells
      BY FlownType
    <2>2. SplashDamage(v, Flown(sh), t) \in Nat
      BY <2>1, DamageType
    <2> QED BY <2>2 DEF Cost
  <1>2. Cost(v, t) = [sh \in Shells |-> Cost(v, t)[sh]]
    BY DEF Cost
  <1> QED BY <1>1, <1>2

LEMMA GreatestTwice ==
  ASSUME NEW a \in Int, NEW m \in Nat, NEW n \in Nat
  PROVE  Greatest(0, Greatest(0, a - m) - n) = Greatest(0, a - (m + n))
  BY DEF Greatest

LEMMA PeltedStep ==
  ASSUME NEW f \in Fleets, NEW d \in Dones, NEW q \in Seq(Shells), NEW sh \in Shells, NEW t \in Nat,
         Barraged(d, f, t), Pelted(d, f, q, t),
         NEW r, r = Append(q, sh), NEW x, x = ShellStepped(d, sh, t)
  PROVE  Pelted(x, f, r, t)
  <1> DEFINE fl == Flown(sh)
  <1>1. fl \in Shells /\ fl.by = sh.by
    BY FlownType
  <1>2. Elements(r) = Elements(q) \cup {sh}
    BY ElementsMore
  <1>3. d.flying \in Seq(Shells) /\ d.ships \in Fleets
    BY DEF Dones
  <1>4. CASE fl.ttl > 0
    <2> DEFINE m == Append(d.flying, fl)
    <2>1. x = [d EXCEPT !.flying = m]
      BY <1>4 DEF ShellStepped
    <2>2. Elements(m) = Elements(d.flying) \cup {fl}
      <3> HIDE DEF fl
      <3> QED BY <1>1, <1>3, ElementsMore
    <2> HIDE DEF m
    <2>3. x.flying = m /\ x.ships = d.ships
      BY <2>1 DEF Dones
    <2>4. InFlight(r) = InFlight(q) \cup {fl}
      BY <1>2, <1>4 DEF InFlight
    <2>5. ASSUME NEW s \in Ships PROVE PeltedTo(x.ships[s], f[s], s, r, t)
      <3>1. PeltedTo(d.ships[s], f[s], s, q, t) /\ Sound(f[s], s)
        BY ShipOf DEF Pelted
      <3>2. Cost(f[s], t) \in [Shells -> Nat] /\ Cost(f[s], t)[sh] = 0
        BY <1>4, <3>1, CostType DEF Cost
      <3>3. AllOf(r, Cost(f[s], t)) = AllOf(q, Cost(f[s], t))
        <4>1. AllOf(q, Cost(f[s], t)) \in Nat
          BY <3>2, AllOfType
        <4>2. AllOf(r, Cost(f[s], t)) = AllOf(q, Cost(f[s], t)) + Cost(f[s], t)[sh]
          BY <3>2, AllOfMore
        <4> QED BY <3>2, <4>1, <4>2
      <3>4. Named(f[s], s, r, t) <=> Named(f[s], s, q, t)
        BY <1>2, <3>2 DEF Named
      <3> QED BY <2>3, <3>1, <3>3, <3>4 DEF PeltedTo
    <2>6. Elements(x.flying) = InFlight(r)
      BY <2>2, <2>3, <2>4 DEF Pelted
    <2> QED BY <2>5, <2>6 DEF Pelted
  <1>5. CASE ~(fl.ttl > 0)
    <2>1. x = Burst(d, fl, t)
      BY <1>5 DEF ShellStepped
    <2>2. x.flying = d.flying
      <3> HIDE DEF fl
      <3> QED BY <1>1, <2>1, BurstingAll DEF Bursting
    <2>3. InFlight(r) = InFlight(q)
      BY <1>2, <1>5 DEF InFlight
    <2>4. Elements(x.flying) = InFlight(r)
      BY <2>2, <2>3 DEF Pelted
    <2>5. ASSUME NEW s \in Ships PROVE PeltedTo(x.ships[s], f[s], s, r, t)
      <3> DEFINE c == Cost(f[s], t)
                 n == SplashDamage(d.ships[s], fl, t)
      <3>1. PeltedTo(d.ships[s], f[s], s, q, t) /\ Sound(f[s], s) /\ Sound(d.ships[s], s)
        BY <1>3, ShipOf DEF Pelted
      <3>2. d.ships[s].place = f[s].place /\ d.ships[s].until = f[s].until
        BY DEF Barraged, BarragedTo
      <3>3. n = SplashDamage(f[s], fl, t)
        BY <3>2 DEF SplashDamage, ActiveAt
      <3>4. c \in [Shells -> Nat] /\ c[sh] = n
        <4>1. c \in [Shells -> Nat]
          BY <3>1, CostType
        <4>2. c[sh] = SplashDamage(f[s], fl, t)
          BY <1>5 DEF Cost
        <4> QED BY <3>3, <4>1, <4>2
      <3>5. BurstTo(x.ships[s], d.ships[s], s, fl, t)
        <4> HIDE DEF fl
        <4> QED BY <1>1, <2>1, BurstToIs
      <3> HIDE DEF c
      <3>6. AllOf(r, c) = AllOf(q, c) + n /\ AllOf(q, c) \in Nat /\ n \in Nat
        BY <3>4, AllOfMore, AllOfType
      <3>7. f[s].hp \in Int
        <4> HIDE DEF n, fl
        <4>1. f[s].hp \in 0..Config.hull
          BY <3>1, FieldsOf
        <4>2. 0..Config.hull \subseteq Int
          BY ConfigFacts
        <4> QED BY <4>1, <4>2
      <3>8. x.ships[s].hp = Greatest(0, f[s].hp - AllOf(r, c))
        <4>1. d.ships[s].hp = Greatest(0, f[s].hp - AllOf(q, c))
          BY <3>1 DEF PeltedTo, c
        <4>2. x.ships[s].hp = Greatest(0, d.ships[s].hp - n)
          BY <3>5 DEF BurstTo
        <4> HIDE DEF n
        <4> QED BY <3>6, <3>7, <4>1, <4>2, GreatestTwice
      <3>9. ASSUME x.ships[s].alive
            PROVE  x.ships[s].reveal = IF Named(f[s], s, r, t) THEN t + Config.reveal ELSE f[s].reveal
        <4>1. /\ d.ships[s].alive
              /\ x.ships[s].reveal = IF n > 0 /\ Traced(d.ships[s], s, fl, t)
                                     THEN t + Config.reveal ELSE d.ships[s].reveal
          BY <3>5, <3>9 DEF BurstTo
        <4>2. d.ships[s].reveal = IF Named(f[s], s, q, t) THEN t + Config.reveal ELSE f[s].reveal
          BY <3>1, <4>1 DEF PeltedTo
        <4>3. Traced(d.ships[s], s, fl, t) <=> ActiveAt(f[s], "counter_battery_trace", t) /\ sh.by # s
          BY <1>1, <3>2 DEF Traced, ActiveAt
        <4> HIDE DEF n
        <4>4. Named(f[s], s, r, t) <=> \/ Named(f[s], s, q, t)
                                       \/ /\ ActiveAt(f[s], "counter_battery_trace", t)
                                          /\ n > 0 /\ sh.by # s
          BY <1>2, <3>4 DEF Named, c
        <4> QED BY <4>1, <4>2, <4>3, <4>4
      <3> QED BY <3>8, <3>9 DEF PeltedTo, c
    <2> QED BY <2>4, <2>5 DEF Pelted
  <1> QED BY <1>4, <1>5

\* What the shells of a tick make of the ships, exactly.
LEMMA PeltedAll ==
  ASSUME NEW w \in Worlds, NEW x, x = ShellsStepped(w)
  PROVE  Pelted(x, w.ships, w.shells, w.tick)
  <1> DEFINE t == w.tick
             f == w.ships
             q == w.shells
             N == Len(w.shells)
             none == [flying |-> <<>>, ships |-> w.ships, hits |-> <<>>]
             S == {d \in Dones : Barraged(d, f, t)}
  <1>1. t \in Nat /\ f \in Fleets /\ q \in Seq(Shells) /\ N \in Nat
    BY WorldFields
  <1>2. none \in S
    <2>1. none \in Dones
      BY <1>1 DEF Dones
    <2>2. \A s \in Ships : BarragedTo(f[s], f[s], s, <<>>, t)
      BY DEF BarragedTo, HitsBy
    <2>3. {s \in Ships : f[s].alive /\ ~none.ships[s].alive} = {} /\ Sinking(none.hits) = {}
      BY DEF Sinking
    <2>a. none.flying = <<>> /\ none.ships = f /\ none.hits = <<>> /\ DOMAIN none.flying = {}
      OBVIOUS
    <2>4. Barraged(none, f, t)
      <3> HIDE DEF none, f, t
      <3> QED BY <2>2, <2>3, <2>a DEF Barraged
    <2> HIDE DEF none
    <2> QED BY <2>1, <2>4
  <1>3. \A d \in S, sh \in Shells : ShellStepped(d, sh, t) \in S
    <2> HIDE DEF f, t
    <2> QED BY <1>1, ShellSteppedIs
  <1>4. PICK g \in [0..N -> S] : FlightsRun(g, w)
    <2> HIDE DEF S
    <2> QED BY <1>1, <1>2, <1>3, FlightsGo
  <1>5. /\ g[0] = none /\ x = g[N]
        /\ \A i \in 1..N : g[i] = ShellStepped(g[i - 1], q[i], t)
    BY <1>4 DEF FlightsRun
  <1> DEFINE T == {n \in 0..N : Pelted(g[n], f, SubSeq(q, 1, n), t)}
  <1>6. 0 \in T
    <2>1. SubSeq(q, 1, 0) = <<>> /\ Elements(<<>>) = {}
      BY <1>1 DEF Elements
    <2>2. none.flying = <<>> /\ none.ships = f
      OBVIOUS
    <2> HIDE DEF none, f, t
    <2>3. ASSUME NEW s \in Ships PROVE PeltedTo(none.ships[s], f[s], s, <<>>, t)
      <3>1. Sound(f[s], s) /\ f[s].hp \in 0..Config.hull
        BY <1>1, ShipOf, FieldsOf
      <3>2. AllOf(<<>>, Cost(f[s], t)) = 0
        BY <1>1, <3>1, CostType, AllOfNone
      <3>3. f[s].hp = Greatest(0, f[s].hp - 0)
        <4> DEFINE hp == f[s].hp
        <4>1. hp \in Nat
          BY <3>1, ConfigFacts
        <4> HIDE DEF hp
        <4>2. hp = Greatest(0, hp - 0)
          BY <4>1 DEF Greatest
        <4> QED BY <4>2 DEF hp
      <3> QED BY <2>1, <2>2, <3>2, <3>3 DEF PeltedTo, Named
    <2>4. Elements(none.flying) = InFlight(<<>>)
      BY <2>1, <2>2 DEF InFlight
    <2> HIDE DEF q
    <2>5. Pelted(none, f, SubSeq(q, 1, 0), t)
      BY <2>1, <2>3, <2>4 DEF Pelted
    <2> HIDE DEF N
    <2>6. 0 \in 0..N /\ g[0] = none
      BY <1>1, <1>5
    <2> QED BY <2>5, <2>6
  <1>7. ASSUME NEW n \in T, n < N PROVE n + 1 \in T
    <2>1. n \in 0..N /\ n + 1 \in 0..N /\ n + 1 \in 1..N /\ (n + 1) - 1 = n
      BY <1>1, <1>7
    <2> HIDE DEF f, t
    <2>2. g[n] \in Dones /\ Barraged(g[n], f, t) /\ Pelted(g[n], f, SubSeq(q, 1, n), t)
      BY <2>1
    <2>3. g[n + 1] = ShellStepped(g[n], q[n + 1], t)
      BY <1>5, <2>1
    <2>4. /\ q[n + 1] \in Shells /\ SubSeq(q, 1, n) \in Seq(Shells)
          /\ SubSeq(q, 1, n + 1) = Append(SubSeq(q, 1, n), q[n + 1])
      <3> HIDE DEF q, T
      <3>1. Len(q) = N
        BY DEF q
      <3> QED BY <1>1, <2>1, <3>1
    <2> HIDE DEF q, N
    <2>5. Pelted(g[n + 1], f, SubSeq(q, 1, n + 1), t)
      BY <1>1, <2>2, <2>3, <2>4, PeltedStep
    <2> QED BY <2>1, <2>5
  <1>8. N \in T
    <2> HIDE DEF T, N
    <2>1. T \in SUBSET (0..N)
      BY DEF T
    <2> QED BY <1>1, <1>6, <1>7, <2>1, InductionTo
  <1>9. SubSeq(q, 1, N) = q
    <2> HIDE DEF q
    <2>1. Len(q) = N
      BY DEF q
    <2> HIDE DEF N
    <2> QED BY <1>1, <2>1
  <1> QED BY <1>5, <1>8, <1>9

-----------------------------------------------------------------------------
(* A tick in any order of the ships. *)

\* Worlds with the same ships afloat, in the same state, and the same shells, clouds and decoys.
SameAfloat(u, v) == (u.alive <=> v.alive) /\ (u.alive => SameButAttacker(u, v))
Settled(u, v) ==
  /\ u.tick = v.tick /\ u.clouds = v.clouds /\ u.decoys = v.decoys
  /\ Elements(u.shells) = Elements(v.shells)
  /\ \A s \in Ships : SameAfloat(u.ships[s], v.ships[s])

\* A barrage does not depend on the order of its shells.
LEMMA BarrageAgrees ==
  ASSUME NEW u \in Worlds, NEW v \in Worlds, Alike(u, v),
         NEW b, b = ShellsStepped(u), NEW d, d = ShellsStepped(v)
  PROVE  /\ b \in Dones /\ d \in Dones /\ Elements(b.flying) = Elements(d.flying)
         /\ \A s \in Ships : SameAfloat(b.ships[s], d.ships[s])
  <1> DEFINE f == u.ships
             t == u.tick
  <1>1. f = v.ships /\ t = v.tick /\ t \in Nat /\ f \in Fleets
    BY WorldFields DEF Alike
  <1>2. b \in Dones /\ Barraged(b, f, t) /\ Pelted(b, f, u.shells, t)
    BY ShellsSteppedIs, PeltedAll
  <1>3. d \in Dones /\ Barraged(d, v.ships, v.tick) /\ Pelted(d, v.ships, v.shells, v.tick)
    BY ShellsSteppedIs, PeltedAll
  <1>4. Barraged(d, f, t) /\ Pelted(d, f, v.shells, t)
    BY <1>1, <1>3
  <1> HIDE DEF f, t
  <1>5. Elements(u.shells) = Elements(v.shells)
    BY DEF Alike
  <1>6. Elements(b.flying) = Elements(d.flying)
    BY <1>2, <1>4, <1>5 DEF Pelted, InFlight
  <1>7. ASSUME NEW s \in Ships PROVE SameAfloat(b.ships[s], d.ships[s])
    <2>1. Sound(f[s], s) /\ Sound(b.ships[s], s) /\ Sound(d.ships[s], s)
      BY <1>1, <1>2, <1>3, ShipOf DEF Dones
    <2>2. PeltedTo(b.ships[s], f[s], s, u.shells, t) /\ PeltedTo(d.ships[s], f[s], s, v.shells, t)
      BY <1>2, <1>4 DEF Pelted
    <2>3. AllOf(u.shells, Cost(f[s], t)) = AllOf(v.shells, Cost(f[s], t))
      BY <1>1, <2>1, CostType DEF Alike
    <2>4. b.ships[s].hp = d.ships[s].hp
      BY <2>2, <2>3 DEF PeltedTo
    <2>5. b.ships[s].alive = d.ships[s].alive
      BY <2>1, <2>4, FieldsOf
    <2>6. Named(f[s], s, u.shells, t) <=> Named(f[s], s, v.shells, t)
      BY <1>5 DEF Named
    <2>7. b.ships[s].alive => b.ships[s].reveal = d.ships[s].reveal
      BY <2>2, <2>5, <2>6 DEF PeltedTo
    <2>8. BarragedTo(b.ships[s], f[s], s, b.hits, t) /\ BarragedTo(d.ships[s], f[s], s, d.hits, t)
      BY <1>2, <1>4 DEF Barraged
    <2> QED BY <2>4, <2>5, <2>7, <2>8 DEF BarragedTo, SameAfloat, SameButAttacker
  <1> QED BY <1>2, <1>3, <1>6, <1>7

LEMMA MaintainedAgrees ==
  ASSUME NEW u \in Worlds, NEW v \in Worlds, Settled(u, v)
  PROVE  Settled(Maintained(u), Maintained(v))
  <1> DEFINE t == u.tick
             cruised(e) == [e EXCEPT !.at = Inside(@ + e.drift)]
             C(w) == {c \in w.clouds : c.until > t}
             D(w) == {e \in {cruised(x) : x \in w.decoys} : e.until > t}
             f(w) == [s \in Ships |-> Regenerated(w.ships[s], t)]
             a == Maintained(u)
             b == Maintained(v)
  <1>1. t = v.tick /\ C(u) = C(v) /\ D(u) = D(v)
    BY DEF Settled
  <1>2. a = [u EXCEPT !.ships = f(u), !.clouds = C(u), !.decoys = D(u)]
    BY DEF Maintained, MaintainedAt
  <1>3. b = [v EXCEPT !.ships = f(v), !.clouds = C(v), !.decoys = D(v)]
    BY <1>1 DEF Maintained, MaintainedAt
  <1>4. MaintainedTo(a, u) /\ MaintainedTo(b, v)
    BY MaintainedType
  <1> HIDE DEF a, b, C, D, f, t
  <1>5. a.clouds = C(u) /\ a.decoys = D(u) /\ b.clouds = C(v) /\ b.decoys = D(v)
    BY <1>2, <1>3 DEF Worlds
  <1>6. ASSUME NEW s \in Ships PROVE SameAfloat(a.ships[s], b.ships[s])
    <2>1. SameAfloat(u.ships[s], v.ships[s]) /\ u.tick = v.tick
      BY DEF Settled
    <2>2. SameButHp(a.ships[s], u.ships[s]) /\ SameButHp(b.ships[s], v.ships[s])
      BY <1>4 DEF MaintainedTo
    <2>3. /\ a.ships[s].hp = IF u.ships[s].alive /\ ActiveAt(u.ships[s], "repair_drones", u.tick)
                             THEN Least(u.ships[s].hp + Config.regen, Config.hull) ELSE u.ships[s].hp
          /\ b.ships[s].hp = IF v.ships[s].alive /\ ActiveAt(v.ships[s], "repair_drones", v.tick)
                             THEN Least(v.ships[s].hp + Config.regen, Config.hull) ELSE v.ships[s].hp
      BY <1>4 DEF MaintainedTo
    <2>4. u.ships[s].alive => a.ships[s].hp = b.ships[s].hp
      BY <2>1, <2>3 DEF SameAfloat, SameButAttacker, ActiveAt
    <2> QED BY <2>1, <2>2, <2>4 DEF SameAfloat, SameButAttacker, SameButHp
  <1>7. a.tick = b.tick /\ Elements(a.shells) = Elements(b.shells)
    BY <1>4 DEF MaintainedTo, Settled
  <1> QED BY <1>1, <1>5, <1>6, <1>7 DEF Settled, a, b

\* A tick ends alike in every order of the ships.
LEMMA SimulatedAgrees ==
  ASSUME NEW w \in Worlds, NEW o, Orderly(o), NEW ahead \in [Ships -> Int],
         NEW R, Roll(R), NEW Q, Roll(Q)
  PROVE  /\ Simulated(w, o, R, ahead).world \in Worlds
         /\ Simulated(w, o, Q, ahead).world \in Worlds
         /\ Settled(Simulated(w, o, R, ahead).world, Simulated(w, o, Q, ahead).world)
  <1> DEFINE a == Steered(w, o)
             e == Empowered(a, o, R, ahead)
             q1 == Shot(e, o, R)
             q2 == Shot(e, o, Q)
             m1 == Moved(q1)
             m2 == Moved(q2)
             b1 == ShellsStepped(m1)
             b2 == ShellsStepped(m2)
             z1 == [m1 EXCEPT !.shells = b1.flying, !.ships = b1.ships]
             z2 == [m2 EXCEPT !.shells = b2.flying, !.ships = b2.ships]
             k1 == Maintained(z1)
             k2 == Maintained(z2)
             x1 == [k1 EXCEPT !.tick = @ + 1]
             x2 == [k2 EXCEPT !.tick = @ + 1]
  <1>1. a \in Worlds
    BY SteeredType
  <1>2. e \in Worlds /\ e = Empowered(a, o, Q, ahead)
    <2> HIDE DEF a
    <2> QED BY <1>1, EmpoweredByAll, EmpoweredAgrees
  <1>3. Simulated(w, o, R, ahead).world = x1
    BY DEF Simulated, Ordered
  <1>4. Simulated(w, o, Q, ahead).world = x2
    <2> HIDE DEF e
    <2>1. Ordered(w, o, Q, ahead) = q2
      BY <1>2 DEF Ordered
    <2> QED BY <2>1 DEF Simulated
  <1> HIDE DEF a, e
  <1>5. q1 \in Worlds /\ q2 \in Worlds /\ Alike(q1, q2)
    BY <1>2, ShotByAll, ShotsAgree
  <1> HIDE DEF q1, q2
  <1>6. m1 \in Worlds /\ m2 \in Worlds /\ Alike(m1, m2)
    BY <1>5, MovedType, MovedAgrees
  <1> HIDE DEF m1, m2
  <1>7. /\ b1 \in Dones /\ b2 \in Dones /\ Elements(b1.flying) = Elements(b2.flying)
        /\ \A s \in Ships : SameAfloat(b1.ships[s], b2.ships[s])
    BY <1>6, BarrageAgrees
  <1> HIDE DEF b1, b2
  <1>8. /\ z1 \in Worlds /\ z1.tick = m1.tick /\ z1.clouds = m1.clouds /\ z1.decoys = m1.decoys
        /\ z1.shells = b1.flying /\ z1.ships = b1.ships
    BY <1>6, <1>7 DEF Worlds, Dones
  <1>9. /\ z2 \in Worlds /\ z2.tick = m2.tick /\ z2.clouds = m2.clouds /\ z2.decoys = m2.decoys
        /\ z2.shells = b2.flying /\ z2.ships = b2.ships
    BY <1>6, <1>7 DEF Worlds, Dones
  <1> HIDE DEF z1, z2
  <1>10. Settled(z1, z2)
    BY <1>6, <1>7, <1>8, <1>9 DEF Settled, Alike
  <1>11. k1 \in Worlds /\ k2 \in Worlds /\ Settled(k1, k2)
    BY <1>8, <1>9, <1>10, MaintainedType, MaintainedAgrees
  <1> HIDE DEF k1, k2
  <1>12. k1.tick \in Nat /\ k2.tick \in Nat
    BY <1>11, WorldFields
  <1> DEFINE n1 == k1.tick + 1
             n2 == k2.tick + 1
  <1>13. n1 \in Nat /\ n2 \in Nat /\ n1 = n2 /\ x1 = [k1 EXCEPT !.tick = n1] /\ x2 = [k2 EXCEPT !.tick = n2]
    BY <1>11, <1>12 DEF Settled
  <1> HIDE DEF n1, n2, x1, x2
  <1>14. /\ x1 \in Worlds /\ x1.tick = n1 /\ x1.shells = k1.shells /\ x1.clouds = k1.clouds
         /\ x1.decoys = k1.decoys /\ x1.ships = k1.ships
    BY <1>11, <1>13 DEF Worlds
  <1>15. /\ x2 \in Worlds /\ x2.tick = n2 /\ x2.shells = k2.shells /\ x2.clouds = k2.clouds
         /\ x2.decoys = k2.decoys /\ x2.ships = k2.ships
    BY <1>11, <1>13 DEF Worlds
  <1>16. Settled(x1, x2)
    BY <1>11, <1>13, <1>14, <1>15 DEF Settled
  <1> QED BY <1>3, <1>4, <1>14, <1>15, <1>16

LEMMA SettledOutcome ==
  ASSUME NEW u \in Worlds, NEW v \in Worlds, Settled(u, v)
  PROVE  Outcome(u) = Outcome(v)
  <1> DEFINE f(w) == [s \in Ships |-> IF w.ships[s].alive THEN [w.ships[s] EXCEPT !.attacker = {}]
                                      ELSE NewShip]
  <1>1. ASSUME NEW s \in Ships PROVE f(u)[s] = f(v)[s]
    <2> DEFINE x == u.ships[s]
               y == v.ships[s]
    <2>1. SameAfloat(x, y) /\ x \in Vessels /\ y \in Vessels
      BY WorldFields, ShipOf DEF Settled
    <2>2. f(u)[s] = (IF x.alive THEN [x EXCEPT !.attacker = {}] ELSE NewShip)
          /\ f(v)[s] = (IF y.alive THEN [y EXCEPT !.attacker = {}] ELSE NewShip)
      OBVIOUS
    <2> HIDE DEF f, x, y
    <2>3. CASE x.alive
      <3> DEFINE p == [x EXCEPT !.attacker = {}]
                 q == [y EXCEPT !.attacker = {}]
      <3>1. SameButAttacker(x, y) /\ y.alive
        BY <2>1, <2>3 DEF SameAfloat
      <3>2. p \in Vessels /\ SameButAttacker(p, x) /\ p.attacker = {}
        BY <2>1 DEF Vessels, SameButAttacker
      <3>3. q \in Vessels /\ SameButAttacker(q, y) /\ q.attacker = {}
        BY <2>1 DEF Vessels, SameButAttacker
      <3> HIDE DEF p, q
      <3>4. SameShip(p, q)
        BY <3>1, <3>2, <3>3 DEF SameShip, SameButEmp, SameButAttacker
      <3>5. p = q
        BY <3>2, <3>3, <3>4, VesselsEqual
      <3> QED BY <2>2, <2>3, <3>1, <3>5 DEF p, q
    <2>4. CASE ~x.alive
      BY <2>1, <2>2, <2>4 DEF SameAfloat
    <2> QED BY <2>3, <2>4
  <1>2. f(u) = f(v)
    <2>1. f(u) = [s \in Ships |-> f(u)[s]] /\ f(v) = [s \in Ships |-> f(v)[s]]
      OBVIOUS
    <2> HIDE DEF f
    <2> QED BY <1>1, <2>1
  <1>3. Outcome(u) = <<f(u), Elements(u.shells), u.clouds, u.decoys>>
        /\ Outcome(v) = <<f(v), Elements(v.shells), v.clouds, v.decoys>>
    BY DEF Outcome
  <1> HIDE DEF f
  <1> QED BY <1>2, <1>3 DEF Settled

\* A step is the tick simulated from the orders it records, at some placing of the decoys.
LEMMA StepIsSimulated ==
  ASSUME world \in Worlds, Step
  PROVE  \E o, out : \E ahead \in [Ships -> Config.decoyMin..Config.decoyMax] :
           /\ Stepping(o, out) /\ out = Simulated(world, o, Roster, ahead) /\ orders' = o
  <1>1. PICK some \in SUBSET Alive(world) : \E o \in OrdersOf(some) :
          \E out \in Simulations(world, o, Roster) : StepTo(o, out)
    BY DEF Step
  <1>2. PICK o \in OrdersOf(some) : \E out \in Simulations(world, o, Roster) : StepTo(o, out)
    BY <1>1
  <1>3. PICK out \in Simulations(world, o, Roster) : StepTo(o, out)
    BY <1>2
  <1>4. Orderly(o) /\ DOMAIN o = some
    <2>1. some \in SUBSET Ships
      BY DEF Alive
    <2> QED BY <2>1, OrdersAreOrderly
  <1>5. PICK ahead \in [Ships -> Config.decoyMin..Config.decoyMax] :
          out = Simulated(world, o, Roster, ahead)
    BY DEF Simulations
  <1>6. ahead \in [Ships -> Int]
    OBVIOUS
  <1>7. \E a, e, q, z \in Worlds, b \in Dones : Stages(out, world, o, a, e, q, b, z)
    BY <1>4, <1>5, <1>6, SimulatedIs
  <1>8. Stepping(o, out)
    BY <1>3, <1>4, <1>7 DEF Stepping, Ticked, Step
  <1>9. orders' = o
    BY <1>3 DEF StepTo, Recorded
  <1> QED BY <1>5, <1>8, <1>9

OrderPart ==
  world'.tick = world.tick + 1
    => \E out \in Simulations(world, orders', Reverse(Roster)) :
         Outcome(out.world) = Outcome(world')

\* Whatever the order in which a step's orders are handled, its outcome is that of the step.
LEMMA StepHasNoOrder ==
  ASSUME Shape, [Next]_vars
  PROVE  OrderPart
  <1> SUFFICES ASSUME world'.tick = world.tick + 1
               PROVE  \E out \in Simulations(world, orders', Reverse(Roster)) :
                        Outcome(out.world) = Outcome(world')
    BY DEF OrderPart
  <1>1. Step /\ world \in Worlds
    BY TickIsStep DEF Shape
  <1>2. PICK o, out : \E ahead \in [Ships -> Config.decoyMin..Config.decoyMax] :
          /\ Stepping(o, out) /\ out = Simulated(world, o, Roster, ahead) /\ orders' = o
    BY <1>1, StepIsSimulated
  <1>3. PICK ahead \in [Ships -> Config.decoyMin..Config.decoyMax] :
          /\ Stepping(o, out) /\ out = Simulated(world, o, Roster, ahead) /\ orders' = o
    BY <1>2
  <1> DEFINE alt == Simulated(world, o, Reverse(Roster), ahead)
             w == out.world
  <1>4. w \in Worlds /\ alt.world \in Worlds /\ Settled(w, alt.world)
    <2>1. Orderly(o) /\ ahead \in [Ships -> Int]
      BY <1>3 DEF Stepping
    <2> QED BY <1>1, <1>3, <2>1, RosterIsRoll, SimulatedAgrees
  <1>5. alt \in Simulations(world, orders', Reverse(Roster))
    BY <1>3 DEF Simulations
  <1> HIDE DEF alt
  <1>6. StepLeaves(out)
    BY <1>1, <1>3, StepLeavesIt
  <1>7. world' \in Worlds /\ Settled(w, world')
    <2>1. ASSUME NEW s \in Ships
          PROVE  SameAfloat(w.ships[s], world'.ships[s])
      BY <1>6 DEF StepLeaves, SameAfloat, SameButAttacker
    <2> QED BY <1>6, <2>1 DEF StepLeaves, Settled
  <1>8. Outcome(w) = Outcome(alt.world) /\ Outcome(w) = Outcome(world')
    <2>1. Outcome(w) = Outcome(alt.world)
      BY <1>4, SettledOutcome
    <2> HIDE DEF w
    <2>2. Outcome(w) = Outcome(world')
      BY <1>4, <1>7, SettledOutcome
    <2> QED BY <2>1, <2>2
  <1> QED BY <1>5, <1>8

\* Bot ids decide nothing: with the orders of a tick handled the other way round the same ships
\* are afloat, in the same state, with the same shells, clouds and decoys (Room::step_tick, which
\* handles the orders in the order of ids, phase by phase).
THEOREM BattleOrderDoesNotDecide == Spec => OrderDoesNotDecide
  <1>1. Shape /\ [Next]_vars => [OrderPart]_vars
    BY StepHasNoOrder
  <1>2. Spec => [][OrderPart]_vars
    BY <1>1, ShapeInvariant, PTL DEF Spec
  <1> QED BY <1>2 DEF OrderDoesNotDecide, OrderPart
=============================================================================
