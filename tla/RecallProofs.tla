----------------------------- MODULE RecallProofs -----------------------------
(***************************************************************************)
(* What the recall benchmark promises, for any files, any number of        *)
(* queries and indexes, any warm-up, any distance and any way its          *)
(* environment may fail.                                                   *)
(***************************************************************************)
EXTENDS Recall, NeighborOrderProofs

C == INDEX_COUNT

-----------------------------------------------------------------------------
(* Places in a sequence of rounds.                                         *)
LEMMA RoundOf ==
  ASSUME NEW x \in Nat
  PROVE  /\ x \div C \in Nat /\ x % C \in 0 .. C - 1
         /\ x = (x \div C) * C + (x % C)
  <1>1. ASSUME NEW n \in Nat \ {0}
        PROVE  x \div n \in Nat /\ x % n \in 0 .. n - 1 /\ x = (x \div n) * n + (x % n)
    OBVIOUS
  <1> QED BY <1>1, RecallAssumption DEF C

(* A place in a round determines both.                                     *)
LEMMA PlaceOf ==
  ASSUME NEW r \in Nat, NEW a \in 0 .. C - 1
  PROVE  /\ r * C + a \in Nat
         /\ (r * C + a) \div C = r /\ (r * C + a) % C = a
  <1> DEFINE x == r * C + a
             p == x \div C
             b == x % C
  <1>1. C \in Nat \ {0}
    BY RecallAssumption DEF C
  <1>2. x \in Nat
    BY <1>1
  <1>3. p \in Nat /\ b \in 0 .. C - 1 /\ x = p * C + b
    BY <1>2, RoundOf
  <1> HIDE DEF p, b
  <1>4. ASSUME p < r PROVE FALSE
    <2>1. p + 1 <= r
      BY <1>3, <1>4
    <2>2. (p + 1) * C <= r * C
      BY <1>1, <1>3, <2>1
    <2>3. p * C + C <= r * C
      BY <1>1, <1>3, <2>2
    <2> QED BY <1>1, <1>3, <2>3
  <1>5. ASSUME r < p PROVE FALSE
    <2>1. (r + 1) * C <= p * C
      BY <1>1, <1>3, <1>5
    <2>2. r * C + C <= p * C
      BY <1>1, <1>3, <2>1
    <2> QED BY <1>1, <1>3, <2>2
  <1>6. p = r
    BY <1>3, <1>4, <1>5
  <1>7. b = a
    BY <1>1, <1>3, <1>6
  <1> QED BY <1>2, <1>6, <1>7 DEF p, b

(* In a round every index has its turn, at a place of its own.             *)
LEMMA Turns ==
  ASSUME NEW r \in Nat
  PROVE  /\ \A a \in Indexes : Turn(r, a) \in Indexes
         /\ \A a, b \in Indexes : Turn(r, a) = Turn(r, b) => a = b
         /\ \A i \in Indexes : \E a \in Indexes : Turn(r, a) = i
  <1>1. C \in Nat \ {0} /\ Indexes = 0 .. C - 1
    BY RecallAssumption DEF C, Indexes
  <1>2. ASSUME NEW a \in Indexes
        PROVE  /\ Turn(r, a) \in Indexes
               /\ \E p \in Nat : r + a = p * C + Turn(r, a)
    <2>1. r + a \in Nat
      BY <1>1
    <2> QED BY <1>1, <2>1, RoundOf DEF Turn, C
  <1>3. ASSUME NEW a \in Indexes, NEW b \in Indexes, Turn(r, a) = Turn(r, b), a < b
        PROVE  FALSE
    <2>1. PICK p \in Nat : r + a = p * C + Turn(r, a)
      BY <1>2
    <2>2. PICK q \in Nat : r + b = q * C + Turn(r, b)
      BY <1>2
    <2>3. Turn(r, a) \in Int /\ p * C \in Int /\ q * C \in Int
      BY <1>1, <1>2
    <2>4. q * C - p * C = b - a
      BY <1>1, <1>3, <2>1, <2>2, <2>3
    <2>5. p < q
      <3>1. q <= p => q * C <= p * C
        BY <1>1
      <3> QED BY <1>1, <1>3, <2>3, <2>4, <3>1
    <2>6. (p + 1) * C <= q * C
      BY <1>1, <2>5
    <2>7. p * C + C <= q * C
      BY <1>1, <2>6
    <2> QED BY <1>1, <1>3, <2>3, <2>4, <2>7
  <1>4. \A a, b \in Indexes : Turn(r, a) = Turn(r, b) => a = b
    BY <1>1, <1>3
  <1>5. \A i \in Indexes : \E a \in Indexes : Turn(r, a) = i
    <2> DEFINE turn == [a \in Indexes |-> Turn(r, a)]
    <2>1. turn \in Injection(Indexes, Indexes)
      BY <1>2, <1>4 DEF Injection, IsInjective
    <2>2. IsFiniteSet(Indexes)
      BY <1>1, FS_Interval
    <2>3. turn \in Surjection(Indexes, Indexes)
      BY <2>1, <2>2, FS_Injection
    <2> QED BY <2>3 DEF Surjection
  <1> QED BY <1>2, <1>4, <1>5

(* Of R rounds every remainder gets an equal share, up to one.             *)
LEMMA EqualShare ==
  ASSUME NEW R \in Nat, NEW c \in Indexes
  PROVE  Cardinality({r \in 0 .. R - 1 : r % C = c}) \in {R \div C, (R \div C) + 1}
  <1> DEFINE Q == R \div C
             s == R % C
             T == IF c < s THEN Q + 1 ELSE Q
             S == {r \in 0 .. R - 1 : r % C = c}
             f == [n \in 0 .. T - 1 |-> n * C + c]
  <1>1. C \in Nat \ {0} /\ c \in 0 .. C - 1
    BY RecallAssumption DEF C, Indexes
  <1>2. Q \in Nat /\ s \in 0 .. C - 1 /\ R = Q * C + s
    BY RoundOf
  <1>3. T \in Nat /\ T \in {Q, Q + 1}
    BY <1>2
  <1>4. ASSUME NEW n \in 0 .. T - 1 PROVE f[n] \in S
    <2>1. n \in Nat /\ n <= Q
      BY <1>2, <1>4
    <2>2. n * C + c \in Nat /\ (n * C + c) % C = c
      BY <1>1, <2>1, PlaceOf
    <2>3. n * C + c < R
      <3> HIDE DEF Q, s
      <3>1. CASE n < Q
        <4>1. (n + 1) * C <= Q * C
          BY <1>1, <1>2, <2>1, <3>1
        <4>2. n * C + C <= Q * C
          BY <1>1, <2>1, <4>1
        <4> QED BY <1>1, <1>2, <2>1, <4>2
      <3>2. CASE n = Q
        <4>1. c < s
          BY <1>2, <1>4, <3>2
        <4> QED BY <1>1, <1>2, <3>2, <4>1
      <3> QED BY <1>2, <2>1, <3>1, <3>2
    <2> QED BY <2>2, <2>3
  <1>5. ASSUME NEW r \in S PROVE \E n \in 0 .. T - 1 : f[n] = r
    <2> DEFINE n == r \div C
    <2>1. r \in Nat /\ r < R /\ r % C = c
      BY <1>2
    <2>2. n \in Nat /\ r = n * C + c
      BY <2>1, RoundOf
    <2> HIDE DEF n, Q, s
    <2>3. n <= Q
      <3> SUFFICES ASSUME Q + 1 <= n PROVE FALSE
        BY <1>2, <2>2
      <3>1. (Q + 1) * C <= n * C
        BY <1>1, <1>2, <2>2
      <3>2. Q * C + C <= n * C
        BY <1>1, <1>2, <3>1
      <3> QED BY <1>1, <1>2, <2>1, <2>2, <3>2
    <2>4. n = Q => c < s
      BY <1>1, <1>2, <2>1, <2>2
    <2>5. n \in 0 .. T - 1
      BY <1>2, <2>2, <2>3, <2>4
    <2> QED BY <2>2, <2>5
  <1>6. \A m, n \in 0 .. T - 1 : f[m] = f[n] => m = n
    <2> SUFFICES ASSUME NEW m \in 0 .. T - 1, NEW n \in 0 .. T - 1, f[m] = f[n]
                 PROVE  m = n
      OBVIOUS
    <2>1. m \in Nat /\ n \in Nat
      BY <1>3
    <2>2. (m * C + c) \div C = m /\ (n * C + c) \div C = n
      BY <1>1, <2>1, PlaceOf
    <2> QED BY <2>2
  <1>7. S = {f[n] : n \in 0 .. T - 1}
    BY <1>4, <1>5
  <1>8. IsFiniteSet(0 .. T - 1) /\ Cardinality(0 .. T - 1) = T
    <2> HIDE DEF T
    <2> QED BY <1>3, FS_Interval
  <1>9. Cardinality(S) = T
    <2> DEFINE N == 0 .. T - 1
    <2>1. DOMAIN f = N /\ (\A m, n \in N : f[m] = f[n] => m = n)
      BY <1>6
    <2>2. IsFiniteSet(N) /\ Cardinality(N) = T /\ S = {f[n] : n \in N}
      BY <1>7, <1>8
    <2> HIDE DEF N, f, S, T
    <2>3. Cardinality({f[n] : n \in N}) = Cardinality(N)
      BY <2>1, <2>2, FiniteImage
    <2> QED BY <2>2, <2>3
  <1> QED BY <1>3, <1>9

(* Whose turn it is at some place depends on the round's remainder only.   *)
LEMMA TurnsRecur ==
  ASSUME NEW i \in Indexes, NEW place \in Indexes
  PROVE  \E c \in Indexes : \A r \in Nat : Turn(r, place) = i <=> r % C = c
  <1>1. C \in Nat \ {0} /\ Indexes = 0 .. C - 1
    BY RecallAssumption DEF C, Indexes
  <1>2. PICK c \in Indexes : Turn(place, c) = i
    BY <1>1, Turns
  <1>3. ASSUME NEW r \in Nat PROVE Turn(r, place) = Turn(place, r % C)
    <2> DEFINE p == r \div C
               b == r % C
    <2>1. p \in Nat /\ b \in 0 .. C - 1 /\ r = p * C + b
      BY RoundOf
    <2> HIDE DEF p, b
    <2>2. place + b \in Nat
      BY <1>1, <2>1
    <2>3. PICK d \in Nat, e \in 0 .. C - 1 : place + b = d * C + e /\ (place + b) % C = e
      BY <2>2, RoundOf
    <2>4. r + place = (p + d) * C + e
      BY <1>1, <2>1, <2>3
    <2>5. ((p + d) * C + e) % C = e
      BY <2>1, <2>3, PlaceOf
    <2> QED BY <2>3, <2>4, <2>5 DEF Turn, C, b
  <1>4. \A r \in Nat : r % C \in Indexes
    BY <1>1, RoundOf
  <1>5. \A a, b \in Indexes : Turn(place, a) = Turn(place, b) => a = b
    BY <1>1, Turns
  <1>6. ASSUME NEW r \in Nat PROVE Turn(r, place) = i <=> r % C = c
    <2> DEFINE b == r % C
    <2>1. b \in Indexes /\ Turn(r, place) = Turn(place, b)
      BY <1>3, <1>4
    <2> HIDE DEF b
    <2>2. Turn(r, place) = i <=> b = c
      BY <1>2, <1>5, <2>1
    <2> QED BY <2>2 DEF b
  <1> QED BY <1>2, <1>6

-----------------------------------------------------------------------------
IsSeq(s) == s \in Seq(Elements(s))

(* The timed pass so far: the searches in the order of their rounds and    *)
(* places, and of each index one answer for each round it had its turn in. *)
InOrderOfTurns ==
  /\ completed \in Nat /\ offset \in Indexes
  /\ Len(order) = completed * C + offset
  /\ IsSeq(order) /\ DOMAIN order = 1 .. Len(order)
  /\ \A n \in DOMAIN order :
       order[n] = [index |-> Turn((n - 1) \div C, (n - 1) % C), query |-> (n - 1) \div C]

HadTurn(i, r, a) == \E b \in 0 .. a - 1 : Turn(r, b) = i

Answers(i) == IF HadTurn(i, completed, offset) THEN completed + 1 ELSE completed

(* An index has searched once in each earlier round, and in this one if it *)
(* has had its turn.                                                       *)
LEMMA SearchesMade ==
  ASSUME InOrderOfTurns, NEW i \in Indexes, NEW r \in Nat, NEW a \in Indexes,
         r * C + a <= Len(order)
  PROVE  SearchesBefore(r * C + a + 1, i) = IF HadTurn(i, r, a) THEN r + 1 ELSE r
  <1> DEFINE T == IF HadTurn(i, r, a) THEN r + 1 ELSE r
             N == 0 .. T - 1
             place == [n \in N |-> CHOOSE b \in Indexes : Turn(n, b) = i]
             f == [n \in N |-> n * C + place[n] + 1]
             S == {m \in 1 .. r * C + a : order[m].index = i}
  <1>1. C \in Nat \ {0} /\ Indexes = 0 .. C - 1
    BY RecallAssumption DEF C, Indexes
  <1>2. T \in Nat /\ T \in {r, r + 1}
    OBVIOUS
  <1>3. \A n \in N : n \in Nat /\ place[n] \in Indexes /\ Turn(n, place[n]) = i
    <2> SUFFICES ASSUME NEW n \in N
                 PROVE  n \in Nat /\ place[n] \in Indexes /\ Turn(n, place[n]) = i
      OBVIOUS
    <2>1. n \in Nat
      BY <1>2
    <2> QED BY <2>1, Turns
  <1>4. ASSUME NEW n \in Nat, NEW b \in Indexes, Turn(n, b) = i
        PROVE  n * C + b < r * C + a <=> n \in N
    <2> HIDE DEF S, f, place
    <2>1. n < r => n * C + C <= r * C
      <3>1. n < r => (n + 1) * C <= r * C
        BY <1>1
      <3> QED BY <1>1, <3>1
    <2>2. n > r => r * C + C <= n * C
      <3>1. n > r => (r + 1) * C <= n * C
        BY <1>1
      <3> QED BY <1>1, <3>1
    <2>3. n * C \in Nat /\ r * C \in Nat
      BY <1>1
    <2>4. CASE n < r
      BY <1>1, <1>2, <2>1, <2>3, <2>4
    <2>5. CASE n > r
      BY <1>1, <1>2, <2>2, <2>3, <2>5
    <2>6. CASE n = r
      <3>1. HadTurn(i, r, a) <=> b < a
        <4>1. \A d \in 0 .. a - 1 : d \in Indexes
          BY <1>1
        <4>2. \A d \in 0 .. a - 1 : Turn(r, d) = i => d = b
          BY <1>4, <2>6, <4>1, Turns
        <4> QED BY <1>1, <1>4, <2>6, <4>2 DEF HadTurn
      <3> QED BY <1>1, <2>3, <2>6, <3>1
    <2> QED BY <2>4, <2>5, <2>6
  <1>5. \A n \in N : f[n] \in S
    <2> SUFFICES ASSUME NEW n \in N PROVE f[n] \in S
      OBVIOUS
    <2> DEFINE b == place[n]
               m == n * C + b + 1
    <2>1. n \in Nat /\ b \in Indexes /\ Turn(n, b) = i
      BY <1>3
    <2>2. n * C + b < r * C + a
      BY <1>4, <2>1
    <2>3. m - 1 = n * C + b /\ m \in 1 .. r * C + a
      BY <1>1, <2>1, <2>2
    <2>4. (m - 1) \div C = n /\ (m - 1) % C = b
      <3> HIDE DEF m, b
      <3>1. (n * C + b) \div C = n /\ (n * C + b) % C = b
        BY <1>1, <2>1, PlaceOf
      <3> QED BY <2>3, <3>1
    <2>5. m \in DOMAIN order
      BY <1>1, <2>3 DEF InOrderOfTurns
    <2>6. order[m].index = i
      BY <2>1, <2>4, <2>5 DEF InOrderOfTurns
    <2>7. f[n] = m
      OBVIOUS
    <2> QED BY <2>3, <2>6, <2>7
  <1>6. \A m \in S : \E n \in N : f[n] = m
    <2> SUFFICES ASSUME NEW m \in S PROVE \E n \in N : f[n] = m
      OBVIOUS
    <2> DEFINE n == (m - 1) \div C
               b == (m - 1) % C
    <2>1. m \in 1 .. r * C + a /\ m \in DOMAIN order /\ m - 1 \in Nat
      BY <1>1 DEF InOrderOfTurns
    <2>2. n \in Nat /\ b \in Indexes /\ m - 1 = n * C + b
      BY <1>1, <2>1, RoundOf
    <2>3. Turn(n, b) = i
      BY <2>1 DEF InOrderOfTurns
    <2> HIDE DEF n, b, N, place
    <2>4. n \in N
      BY <1>1, <1>4, <2>1, <2>2, <2>3
    <2>5. place[n] = b
      BY <1>3, <2>2, <2>3, <2>4, Turns
    <2>6. f[n] = m
      BY <1>1, <2>1, <2>2, <2>4, <2>5
    <2> QED BY <2>4, <2>6
  <1>7. \A m, n \in N : f[m] = f[n] => m = n
    <2> SUFFICES ASSUME NEW m \in N, NEW n \in N, f[m] = f[n] PROVE m = n
      OBVIOUS
    <2>1. /\ m \in Nat /\ place[m] \in Indexes
          /\ n \in Nat /\ place[n] \in Indexes
      BY <1>3
    <2>2. f[m] = m * C + place[m] + 1 /\ f[n] = n * C + place[n] + 1
      OBVIOUS
    <2> HIDE DEF f, place, N
    <2>3. m * C + place[m] = n * C + place[n]
      <3>1. /\ m * C \in Nat /\ n * C \in Nat
            /\ place[m] \in Nat /\ place[n] \in Nat
        BY <1>1, <2>1
      <3>2. m * C + place[m] + 1 = n * C + place[n] + 1
        BY <2>2
      <3> QED BY <3>1, <3>2
    <2>4. (m * C + place[m]) \div C = m /\ (n * C + place[n]) \div C = n
      BY <1>1, <2>1, PlaceOf
    <2> QED BY <2>3, <2>4
  <1>8. DOMAIN f = N
    OBVIOUS
  <1>9. IsFiniteSet(N) /\ Cardinality(N) = T
    <2> HIDE DEF T
    <2> QED BY <1>2, FS_Interval
  <1> HIDE DEF T, N, place, f, S
  <1>10. S = {f[n] : n \in N}
    BY <1>5, <1>6
  <1>11. Cardinality(S) = T
    BY <1>7, <1>8, <1>9, <1>10, FiniteImage
  <1>12. 1 .. (r * C + a + 1) - 1 = 1 .. r * C + a
    BY <1>1
  <1> QED BY <1>11, <1>12 DEF S, T, SearchesBefore

(* Each place of a round has gone to each index equally often, up to one   *)
(* round.                                                                  *)
LEMMA PlacesShared ==
  ASSUME InOrderOfTurns, NEW place \in Indexes
  PROVE  \E Q \in Nat : \A i \in Indexes : Occupied(i, place) \in {Q, Q + 1}
  <1> DEFINE R == IF place < offset THEN completed + 1 ELSE completed
             Q == R \div C
  <1>1. C \in Nat \ {0} /\ Indexes = 0 .. C - 1
    BY RecallAssumption DEF C, Indexes
  <1>2. R \in Nat /\ completed \in Nat /\ offset \in Indexes /\ place \in Nat
    BY <1>1 DEF InOrderOfTurns
  <1>3. Q \in Nat
    BY <1>2, RoundOf
  <1>4. ASSUME NEW r \in Nat
        PROVE  /\ r * C + place + 1 \in Nat
               /\ r * C + place + 1 <= completed * C + offset <=> r \in 0 .. R - 1
    <2>1. r * C \in Nat /\ completed * C \in Nat
      BY <1>1, <1>2
    <2>2. r < completed => r * C + C <= completed * C
      <3>1. r < completed => (r + 1) * C <= completed * C
        BY <1>1, <1>2
      <3> QED BY <1>1, <3>1
    <2>3. r > completed => completed * C + C <= r * C
      <3>1. r > completed => (completed + 1) * C <= r * C
        BY <1>1, <1>2
      <3> QED BY <1>1, <1>2, <3>1
    <2>4. CASE r < completed
      BY <1>1, <1>2, <2>1, <2>2, <2>4
    <2>5. CASE r > completed
      BY <1>1, <1>2, <2>1, <2>3, <2>5
    <2>6. CASE r = completed
      BY <1>1, <1>2, <2>1, <2>6
    <2> QED BY <1>2, <2>4, <2>5, <2>6
  <1>5. ASSUME NEW i \in Indexes PROVE Occupied(i, place) \in {Q, Q + 1}
    <2>1. PICK c \in Indexes : \A r \in Nat : Turn(r, place) = i <=> r % C = c
      BY TurnsRecur
    <2> DEFINE N == {r \in 0 .. R - 1 : r % C = c}
               f == [r \in N |-> r * C + place + 1]
               S == {n \in DOMAIN order : order[n].index = i /\ (n - 1) % C = place}
    <2>2. \A r \in N : f[r] \in S
      <3> SUFFICES ASSUME NEW r \in N PROVE f[r] \in S
        OBVIOUS
      <3> DEFINE n == r * C + place + 1
      <3>1. r \in Nat /\ r \in 0 .. R - 1 /\ Turn(r, place) = i
        BY <1>2, <2>1
      <3>2. n \in DOMAIN order /\ n - 1 = r * C + place
        BY <1>1, <1>2, <1>4, <3>1 DEF InOrderOfTurns
      <3>3. (r * C + place) \div C = r /\ (r * C + place) % C = place
        BY <1>1, <3>1, PlaceOf
      <3> HIDE DEF n
      <3>4. (n - 1) \div C = r /\ (n - 1) % C = place
        BY <3>2, <3>3
      <3>5. order[n].index = i
        BY <3>1, <3>2, <3>4 DEF InOrderOfTurns
      <3> QED BY <3>2, <3>4, <3>5 DEF n
    <2>3. \A n \in S : \E r \in N : f[r] = n
      <3> SUFFICES ASSUME NEW n \in S PROVE \E r \in N : f[r] = n
        OBVIOUS
      <3> DEFINE r == (n - 1) \div C
      <3>1. n \in 1 .. completed * C + offset /\ n \in DOMAIN order /\ n - 1 \in Nat
        BY <1>1, <1>2 DEF InOrderOfTurns
      <3>2. r \in Nat /\ n - 1 = r * C + place
        BY <1>1, <3>1, RoundOf
      <3>3. Turn(r, place) = i
        BY <3>1 DEF InOrderOfTurns
      <3> HIDE DEF r, R
      <3>4. r * C \in Nat
        BY <1>1, <3>2
      <3>5. n = r * C + place + 1
        BY <1>1, <1>2, <3>1, <3>2, <3>4
      <3>6. r \in 0 .. R - 1
        BY <1>4, <3>1, <3>2, <3>5
      <3>7. r \in N
        BY <2>1, <3>2, <3>3, <3>6
      <3> QED BY <3>5, <3>7
    <2>4. \A q, r \in N : f[q] = f[r] => q = r
      <3> SUFFICES ASSUME NEW q \in N, NEW r \in N, f[q] = f[r] PROVE q = r
        OBVIOUS
      <3>1. q \in Nat /\ r \in Nat
        BY <1>2
      <3>2. q * C + place + 1 = r * C + place + 1
        OBVIOUS
      <3>3. q * C \in Nat /\ r * C \in Nat
        BY <1>1, <3>1
      <3> HIDE DEF N, f
      <3>4. q * C + place = r * C + place
        BY <1>2, <3>2, <3>3
      <3>5. (q * C + place) \div C = q /\ (r * C + place) \div C = r
        BY <1>1, <3>1, PlaceOf
      <3> QED BY <3>4, <3>5
    <2>5. IsFiniteSet(N) /\ DOMAIN f = N
      <3> HIDE DEF R
      <3>1. IsFiniteSet(0 .. R - 1)
        BY <1>2, FS_Interval
      <3> QED BY <3>1, FS_Subset
    <2>6. Cardinality(N) \in {Q, Q + 1}
      <3> HIDE DEF R
      <3> QED BY <1>2, EqualShare
    <2> HIDE DEF N, f, S, Q
    <2>7. S = {f[r] : r \in N}
      BY <2>2, <2>3
    <2>8. Cardinality(S) = Cardinality(N)
      BY <2>4, <2>5, <2>7, FiniteImage
    <2>9. Occupied(i, place) = Cardinality(S)
      BY DEF Occupied, S, C
    <2> QED BY <2>6, <2>8, <2>9
  <1> QED BY <1>3, <1>5

(* What RoundsBalanced says of a pass that goes in the order of turns.     *)
LEMMA Balanced ==
  ASSUME InOrderOfTurns,
         \A i \in Indexes : /\ Len(runs[i].results) = Answers(i)
                            /\ Len(runs[i].latencies) = Answers(i)
  PROVE  RoundsBalanced
  <1>1. C \in Nat \ {0} /\ Indexes = 0 .. C - 1
    BY RecallAssumption DEF C, Indexes
  <1>2. ASSUME NEW n \in DOMAIN order PROVE order[n].query = SearchesBefore(n, order[n].index)
    <2> DEFINE r == (n - 1) \div C
               a == (n - 1) % C
               i == Turn(r, a)
    <2>1. n \in 1 .. Len(order) /\ Len(order) \in Nat /\ n - 1 \in Nat
      <3>1. IsSeq(order) /\ n \in 1 .. Len(order)
        BY DEF InOrderOfTurns
      <3>2. Len(order) \in Nat
        BY <3>1, LenProperties DEF IsSeq
      <3> QED BY <3>1, <3>2
    <2>2. r \in Nat /\ a \in Indexes /\ n - 1 = r * C + a
      BY <1>1, <2>1, RoundOf
    <2>3. order[n] = [index |-> i, query |-> r]
      BY DEF InOrderOfTurns
    <2> HIDE DEF r, a
    <2>4. i \in Indexes
      BY <2>2, Turns
    <2>5. ~HadTurn(i, r, a)
      <3>1. \A b \in 0 .. a - 1 : b \in Indexes /\ b # a
        BY <1>1, <2>2
      <3> QED BY <2>2, <3>1, Turns DEF HadTurn
    <2> HIDE DEF i
    <2>6. r * C \in Nat /\ a \in Nat
      BY <1>1, <2>2
    <2>7. n = r * C + a + 1 /\ r * C + a <= Len(order)
      BY <2>1, <2>2, <2>6
    <2> QED BY <2>2, <2>3, <2>4, <2>5, <2>7, SearchesMade
  <1>3. ASSUME NEW i \in Indexes PROVE Len(runs[i].results) = SearchesBefore(Len(order) + 1, i)
    <2>1. /\ completed \in Nat /\ offset \in Indexes
          /\ Len(order) = completed * C + offset
      BY DEF InOrderOfTurns
    <2>2. completed * C + offset <= Len(order)
      BY <1>1, <2>1
    <2>3. SearchesBefore(completed * C + offset + 1, i) = Answers(i)
      BY <2>1, <2>2, SearchesMade DEF Answers
    <2> QED BY <2>1, <2>3
  <1>4. ASSUME NEW i \in Indexes, NEW j \in Indexes
        PROVE  Len(runs[i].results) - Len(runs[j].results) \in {-1, 0, 1}
    <2>1. /\ Len(runs[i].results) \in {completed, completed + 1}
          /\ Len(runs[j].results) \in {completed, completed + 1}
          /\ completed \in Nat
      BY DEF Answers, InOrderOfTurns
    <2> QED BY <2>1
  <1>5. ASSUME NEW i \in Indexes, NEW j \in Indexes, NEW place \in Indexes
        PROVE  Occupied(i, place) - Occupied(j, place) \in {-1, 0, 1}
    <2>1. PICK Q \in Nat : Occupied(i, place) \in {Q, Q + 1} /\ Occupied(j, place) \in {Q, Q + 1}
      BY PlacesShared
    <2> QED BY <2>1
  <1> QED BY <1>2, <1>3, <1>4, <1>5 DEF RoundsBalanced

-----------------------------------------------------------------------------
(* The answers of the flat index: as many rows as asked for, the nearest   *)
(* ones, in order, each with its distance.                                 *)
IsExact(exact, data, query, k) ==
  /\ Len(exact) = k
  /\ exact \in [1 .. k -> [row : DOMAIN data, distance : Int]]
  /\ \A m, n \in 1 .. k : m < n =>
       /\ exact[m].row # exact[n].row
       /\ \/ exact[m].distance < exact[n].distance
          \/ exact[m].distance = exact[n].distance /\ exact[m].row < exact[n].row
  /\ Elements(RowsOf(exact)) = Nearest(data, query, DOMAIN data, k)

(* What is sorted are the nearest rows, each in its place.                 *)
LEMMA SearchIsExact ==
  ASSUME NEW R \in SUBSET Nat, IsFiniteSet(R), NEW data \in [R -> Vector],
         NEW query \in Vector, NEW k \in Nat, k <= Cardinality(R)
  PROVE  IsExact(SearchAll(data, query, k), data, query, k)
  <1> DEFINE found == Nearest(data, query, R, k)
             exact == SearchAll(data, query, k)
             Before == [r \in found |-> {s \in found : Closer(data, query, s, r)}]
             at == [n \in 1 .. Cardinality(found) |-> CHOOSE r \in found :
                      Cardinality({s \in found : Closer(data, query, s, r)}) = n - 1]
  <1>1. found \in SUBSET R /\ IsFiniteSet(found) /\ Cardinality(found) = k
    <2>1. Cardinality(R) \in Nat
      BY FS_CardinalityType
    <2>2. Cardinality(found) = IF k < Cardinality(R) THEN k ELSE Cardinality(R)
      BY NearestSize
    <2>3. found \subseteq R /\ IsFiniteSet(found)
      BY NearestBound
    <2> HIDE DEF found
    <2> QED BY <2>1, <2>2, <2>3
  <1>2. exact = [n \in 1 .. Cardinality(found) |->
                   [row |-> at[n], distance |-> Distance(query, data[at[n]])]]
    BY DEF SearchAll
  <1>3. /\ DOMAIN data = R
        /\ \A n \in 1 .. Cardinality(found) :
             at[n] = CHOOSE r \in found : Cardinality(Before[r]) = n - 1
    OBVIOUS
  <1>4. IsOrder(found, Before)
    <2>1. /\ \A a \in R : ~Closer(data, query, a, a)
          /\ \A a, b, c \in R :
               Closer(data, query, a, b) /\ Closer(data, query, b, c) => Closer(data, query, a, c)
          /\ \A a, b \in R : a = b \/ Closer(data, query, a, b) \/ Closer(data, query, b, a)
      BY CloserOrder
    <2> HIDE DEF found
    <2> QED BY <1>1, <2>1 DEF IsOrder
  <1>5. /\ \A n \in 1 .. Cardinality(found) : at[n] \in found
        /\ \A m, n \in 1 .. Cardinality(found) :
             m < n => at[m] # at[n] /\ Closer(data, query, at[m], at[n])
        /\ \A a \in found : \E n \in 1 .. Cardinality(found) : at[n] = a
    <2> HIDE DEF found, exact, at
    <2>1. IsFiniteSet(found) /\ Cardinality(found) \in Nat
      BY <1>1
    <2>2. \A place \in 0 .. Cardinality(found) - 1 :
            \E r \in found : Cardinality(Before[r]) = place
      <3> HIDE DEF Before
      <3> QED BY <1>4, <2>1, Ranks
    <2>3. ASSUME NEW n \in 1 .. Cardinality(found)
          PROVE  at[n] \in found /\ Cardinality(Before[at[n]]) = n - 1
      <3> HIDE DEF Before
      <3>1. n - 1 \in 0 .. Cardinality(found) - 1
        BY <2>1
      <3>2. \E r \in found : Cardinality(Before[r]) = n - 1
        BY <2>2, <3>1
      <3> QED BY <1>3, <3>2
    <2>4. /\ \A m, n \in 1 .. Cardinality(found) :
               m < n => at[m] \in Before[at[n]] /\ at[m] # at[n]
          /\ \A a \in found : \E n \in 1 .. Cardinality(found) : at[n] = a
      <3>1. Cardinality(found) \in 0 .. Cardinality(found)
        BY <2>1
      <3> HIDE DEF Before
      <3> QED BY <1>4, <2>1, <2>3, <3>1, InRankOrder
    <2> QED BY <2>3, <2>4
  <1> HIDE DEF found, Before, exact, at
  <1>6. /\ \A n \in 1 .. k : at[n] \in found
        /\ \A m, n \in 1 .. k : m < n => at[m] # at[n] /\ Closer(data, query, at[m], at[n])
        /\ \A a \in found : \E n \in 1 .. k : at[n] = a
    BY <1>1, <1>5
  <1>7. ASSUME NEW n \in 1 .. k
        PROVE  /\ exact[n] = [row |-> at[n], distance |-> Distance(query, data[at[n]])]
               /\ exact[n].row = at[n] /\ exact[n].distance = Distance(query, data[at[n]])
               /\ at[n] \in R /\ Distance(query, data[at[n]]) \in Int
    BY <1>1, <1>2, <1>6, DistanceAssumption
  <1>8. exact \in [1 .. k -> [row : R, distance : Int]]
    BY <1>1, <1>2, <1>7
  <1>9. Len(exact) = k
    BY <1>8, LengthOf
  <1>10. ASSUME NEW m \in 1 .. k, NEW n \in 1 .. k, m < n
         PROVE  /\ exact[m].row # exact[n].row
                /\ \/ exact[m].distance < exact[n].distance
                   \/ exact[m].distance = exact[n].distance /\ exact[m].row < exact[n].row
    <2>1. Closer(data, query, at[m], at[n]) /\ at[m] # at[n]
      BY <1>6, <1>10
    <2>2. /\ exact[m].row = at[m] /\ exact[m].distance = Distance(query, data[at[m]])
          /\ exact[n].row = at[n] /\ exact[n].distance = Distance(query, data[at[n]])
      BY <1>7
    <2> QED BY <2>1, <2>2 DEF Closer
  <1>11. Elements(RowsOf(exact)) = found
    <2>1. DOMAIN exact = 1 .. k
      BY <1>8
    <2>2. Elements(RowsOf(exact)) = {at[n] : n \in 1 .. k}
      BY <1>7, <2>1 DEF Elements, RowsOf
    <2> QED BY <1>6, <2>2
  <1> QED BY <1>3, <1>8, <1>9, <1>10, <1>11 DEF IsExact, exact, found

DataOK == base \in Seq(Vector) /\ Len(base) >= K

(* The rows of the dataset are counted from zero.                          *)
LEMMA DataRows ==
  ASSUME DataOK
  PROVE  /\ Len(base) \in Nat
         /\ DOMAIN Data = 0 .. Len(base) - 1 /\ DOMAIN Data \in SUBSET Nat
         /\ IsFiniteSet(DOMAIN Data) /\ Cardinality(DOMAIN Data) = Len(base)
         /\ Data \in [DOMAIN Data -> Vector]
  <1>1. Len(base) \in Nat
    BY LenProperties DEF DataOK
  <1>2. DOMAIN Data = 0 .. Len(base) - 1
    BY DEF Data
  <1>3. \A n \in Nat : IsFiniteSet(0 .. n - 1) /\ Cardinality(0 .. n - 1) = n
    BY FS_Interval
  <1>4. ASSUME NEW r \in 0 .. Len(base) - 1 PROVE base[r + 1] \in Vector
    <2>1. r + 1 \in 1 .. Len(base)
      BY <1>1
    <2> QED BY <2>1, ElementOfSeq DEF DataOK
  <1> QED BY <1>1, <1>2, <1>3, <1>4 DEF Data

(* So FlatIndex::search is exact.                                          *)
LEMMA FlatIsExact ==
  ASSUME DataOK, NEW query \in Vector, NEW k \in Nat, k <= Len(base)
  PROVE  IsExact(FlatSearch(query, k), Data, query, k)
  BY DataRows, SearchIsExact DEF FlatSearch

-----------------------------------------------------------------------------
(* The invariant: what is read of the files, which truth is selected, how  *)
(* far the passes are, and what an end of the program means.               *)
Reading   == {"args", "open", "read"}
Preparing == {"build", "select", "truth"}
Warming   == {"warm", "warmed"}
Timing    == {"timed", "reported"}
Running   == Reading \cup Preparing \cup Warming \cup Timing

Copies(s, contents, n) == IsSeq(s) /\ Len(s) = n /\ \A r \in 1 .. n : s[r] = contents[r]

Least(m, n) == IF m < n THEN m ELSE n

(* How many records of a file are kept.                                    *)
Done(f) ==
  IF f < file \/ pc \notin Reading THEN Retain(f)
  ELSE IF f = file /\ pc = "read" THEN Least(completed, Retain(f)) ELSE 0

LoadInv ==
  /\ pc \in Running \cup {"usage", "aborted"}
  /\ mode \in {"full", "smoke"} /\ truth_file \in TruthFiles /\ file \in 1 .. 3
  /\ completed \in Nat /\ fault \in BOOLEAN
  /\ pc \notin Timing \cup {"aborted"} => ~fault
  /\ pc = "read" => completed <= Records(file)
  /\ pc = "args" => file = 1
  /\ pc \in Running => /\ Copies(base, BaseFile, Done(1))
                       /\ Copies(queries, QueryFile, Done(2))
                       /\ Copies(supplied_top_100, truth_file, Done(3))

(* The truth a run is measured by.                                         *)
TruthOf(q) == IF mode = "full" THEN truth_file[q] ELSE RowsOf(FlatSearch(queries[q], K))

Selected(n) ==
  /\ IsSeq(exact_top_100) /\ Len(exact_top_100) = n
  /\ \A q \in 1 .. n : exact_top_100[q] = TruthOf(q)

TruthInv ==
  /\ built \in 0 .. C
  /\ pc \in Reading \cup {"select"} \/ (pc = "build" /\ built = 0) => exact_top_100 = <<>>
  /\ pc \in Reading => built = 0
  /\ pc \in {"select", "truth"} => built > 0
  /\ pc = "truth" => mode = "smoke" /\ completed <= Total /\ Selected(completed)
  /\ pc \in Warming \cup Timing \/ (pc = "build" /\ built > 0) => Selected(Total)

(* The answers of the timed pass so far.                                   *)
Answered ==
  /\ DOMAIN runs = Indexes
  /\ \A i \in Indexes :
       /\ runs[i] = [latencies |-> runs[i].latencies, results |-> runs[i].results]
       /\ runs[i].latencies \in Seq(Nat) /\ IsSeq(runs[i].results)
       /\ Len(runs[i].latencies) = Answers(i) /\ Len(runs[i].results) = Answers(i)
       /\ ~fault => \A q \in 1 .. Answers(i) : runs[i].results[q] = Proper(i, queries[q])
  /\ fault => \E i \in Indexes : \E q \in DOMAIN runs[i].results :
                ~ValidNeighbors(runs[i].results[q])

PassInv ==
  /\ clock \in Clocks
  /\ pc \in Reading \cup Preparing \cup {"warmed"} => offset = 0
  /\ pc \in Reading \cup Preparing \cup Warming => runs = NoRuns /\ order = <<>>
  /\ pc = "warm" => /\ completed <= WarmRounds /\ offset \in Indexes
                    /\ completed = WarmRounds => offset = 0
  /\ pc \in Timing => /\ InOrderOfTurns /\ Answered
                      /\ completed <= Total /\ (completed = Total => offset = 0)
  /\ pc = "reported" => completed = Total

EndInv ==
  /\ pc # "reported" => report = <<>>
  /\ pc = "aborted" => fault \/ TruthDisagrees
  /\ pc = "reported" => /\ ~fault /\ ~TruthDisagrees
                        /\ report = [i \in Indexes |-> Summarize(runs[i])]

RecallInv == LoadInv /\ TruthInv /\ PassInv /\ EndInv

-----------------------------------------------------------------------------
(* Checks made in order fail at the first that fails, if one does.         *)
LEMMA FirstOf ==
  ASSUME NEW n \in Nat, NEW P \in [1 .. n -> BOOLEAN], \E i \in 1 .. n : P[i]
  PROVE  \E i \in 1 .. n : P[i] /\ \A j \in 1 .. i - 1 : ~P[j]
  <1> DEFINE S == {i \in 1 .. n : P[i]}
             Before == [i \in S |-> {j \in S : j < i}]
  <1>1. IsFiniteSet(S)
    <2>1. IsFiniteSet(1 .. n)
      BY FS_Interval
    <2> QED BY <2>1, FS_Subset
  <1>2. S # {} /\ Cardinality(S) \in Nat /\ Cardinality(S) # 0
    <2>1. S # {}
      OBVIOUS
    <2> HIDE DEF S
    <2> QED BY <1>1, <2>1, FS_CardinalityType, FS_EmptySet
  <1>3. IsOrder(S, Before)
    BY DEF IsOrder
  <1>4. 0 \in 0 .. Cardinality(S) - 1
    BY <1>2
  <1>5. PICK i \in S : Cardinality(Before[i]) = 0
    <2> HIDE DEF S, Before
    <2>1. \A place \in 0 .. Cardinality(S) - 1 : \E a \in S : Cardinality(Before[a]) = place
      BY <1>1, <1>3, Ranks
    <2> QED BY <1>4, <2>1
  <1>6. Before[i] = {}
    <2>1. IsFiniteSet(Before[i])
      BY <1>1, FS_Subset
    <2> QED BY <1>5, <2>1, FS_EmptySet
  <1>7. ASSUME NEW j \in 1 .. i - 1 PROVE ~P[j]
    BY <1>6
  <1> QED BY <1>7

(* No check fails just when none is reported.                              *)
LEMMA NothingFails ==
  ASSUME NEW n \in Nat, NEW checks, DOMAIN checks = 1 .. n,
         \A i \in 1 .. n : checks[i][2] => checks[i][1] # "none"
  PROVE  FirstFailing(checks) = "none" <=> \A i \in 1 .. n : ~checks[i][2]
  <1>1. CASE \A i \in 1 .. n : ~checks[i][2]
    BY <1>1 DEF FirstFailing
  <1>2. ASSUME NEW i \in 1 .. n, checks[i][2]
        PROVE  FirstFailing(checks) # "none"
    <2> DEFINE P == [j \in 1 .. n |-> IF checks[j][2] THEN TRUE ELSE FALSE]
               First(j) == checks[j][2] /\ \A h \in 1 .. j - 1 : ~checks[h][2]
    <2>1. \E j \in 1 .. n : P[j] /\ \A h \in 1 .. j - 1 : ~P[h]
      <3>1. P \in [1 .. n -> BOOLEAN] /\ P[i]
        BY <1>2
      <3> HIDE DEF P
      <3> QED BY <3>1, FirstOf
    <2>2. \E j \in 1 .. n : First(j)
      <3>1. PICK j \in 1 .. n : P[j] /\ \A h \in 1 .. j - 1 : ~P[h]
        BY <2>1
      <3>2. \A h \in 1 .. n : P[h] <=> checks[h][2]
        OBVIOUS
      <3>3. \A h \in 1 .. j - 1 : h \in 1 .. n
        OBVIOUS
      <3> HIDE DEF P
      <3>4. checks[j][2] /\ \A h \in 1 .. j - 1 : ~checks[h][2]
        BY <3>1, <3>2, <3>3
      <3> QED BY <3>4
    <2>3. PICK j \in 1 .. n : FirstFailing(checks) = checks[j][1] /\ First(j)
      BY <1>2, <2>2 DEF FirstFailing
    <2> QED BY <2>3
  <1> QED BY <1>1, <1>2

(* The same of three checks, written out.                                  *)
LEMMA ThreeChecks ==
  ASSUME NEW a, NEW b, NEW c, NEW p \in BOOLEAN, NEW q \in BOOLEAN, NEW r \in BOOLEAN,
         a # "none", b # "none", c # "none"
  PROVE  FirstFailing(<< <<a, p>>, <<b, q>>, <<c, r>> >>) = "none" <=> ~p /\ ~q /\ ~r
  <1> DEFINE checks == << <<a, p>>, <<b, q>>, <<c, r>> >>
  <1>1. DOMAIN checks = 1 .. 3
    OBVIOUS
  <1>2. /\ checks[1] = <<a, p>> /\ checks[2] = <<b, q>> /\ checks[3] = <<c, r>>
    OBVIOUS
  <1> HIDE DEF checks
  <1>3. \A i \in 1 .. 3 : checks[i][2] => checks[i][1] # "none"
    BY <1>2
  <1>4. FirstFailing(checks) = "none" <=> \A i \in 1 .. 3 : ~checks[i][2]
    BY <1>1, <1>3, NothingFails
  <1>5. (\A i \in 1 .. 3 : ~checks[i][2]) <=> ~p /\ ~q /\ ~r
    BY <1>2
  <1> QED BY <1>4, <1>5 DEF checks

(* The same of five.                                                       *)
LEMMA FiveChecks ==
  ASSUME NEW a, NEW b, NEW c, NEW d, NEW e, NEW p \in BOOLEAN, NEW q \in BOOLEAN,
         NEW r \in BOOLEAN, NEW s \in BOOLEAN, NEW t \in BOOLEAN,
         a # "none", b # "none", c # "none", d # "none", e # "none"
  PROVE  FirstFailing(<< <<a, p>>, <<b, q>>, <<c, r>>, <<d, s>>, <<e, t>> >>) = "none"
           <=> ~p /\ ~q /\ ~r /\ ~s /\ ~t
  <1> DEFINE checks == << <<a, p>>, <<b, q>>, <<c, r>>, <<d, s>>, <<e, t>> >>
  <1>1. DOMAIN checks = 1 .. 5
    OBVIOUS
  <1>2. /\ checks[1] = <<a, p>> /\ checks[2] = <<b, q>> /\ checks[3] = <<c, r>>
        /\ checks[4] = <<d, s>> /\ checks[5] = <<e, t>>
    OBVIOUS
  <1> HIDE DEF checks
  <1>3. \A i \in 1 .. 5 : checks[i][2] => checks[i][1] # "none"
    BY <1>2
  <1>4. FirstFailing(checks) = "none" <=> \A i \in 1 .. 5 : ~checks[i][2]
    BY <1>1, <1>3, NothingFails
  <1>5. (\A i \in 1 .. 5 : ~checks[i][2]) <=> ~p /\ ~q /\ ~r /\ ~s /\ ~t
    BY <1>2
  <1> QED BY <1>4, <1>5 DEF checks

(* A truth record is refused unless its ids are rows, each another one.    *)
LEMMA RefusedIds ==
  ASSUME NEW n \in Nat, NEW ids, DOMAIN ids = 1 .. n
  PROVE  IdError(ids) = "none" <=>
           \A i \in 1 .. n : /\ ~(ids[i] < 0) /\ ~(ids[i] >= BASE_ROWS)
                            /\ \A j \in 1 .. i - 1 : ids[j] # ids[i]
  <1> DEFINE negative(i) == ids[i] < 0
             large(i) == ids[i] >= BASE_ROWS
             double(i) == \E j \in 1 .. i - 1 : ids[j] = ids[i]
             Refused(i) == FirstFailing(<< <<"negative_id", negative(i)>>,
                                           <<"out_of_range_id", large(i)>>,
                                           <<"duplicate_id", double(i)>> >>)
             checks == [i \in DOMAIN ids |-> <<Refused(i), Refused(i) # "none">>]
  <1>1. \A i \in 1 .. n : Refused(i) = "none" <=> ~negative(i) /\ ~large(i) /\ ~double(i)
    <2> SUFFICES ASSUME NEW i \in 1 .. n
                 PROVE  Refused(i) = "none" <=> ~negative(i) /\ ~large(i) /\ ~double(i)
      OBVIOUS
    <2>1. negative(i) \in BOOLEAN /\ large(i) \in BOOLEAN /\ double(i) \in BOOLEAN
      OBVIOUS
    <2> HIDE DEF negative, large, double
    <2> QED BY <2>1, ThreeChecks
  <1>2. IdError(ids) = FirstFailing(checks)
    BY DEF IdError
  <1> HIDE DEF Refused
  <1>3. DOMAIN checks = 1 .. n
    OBVIOUS
  <1>4. \A i \in 1 .. n : checks[i][1] = Refused(i) /\ (checks[i][2] <=> Refused(i) # "none")
    <2> SUFFICES ASSUME NEW i \in 1 .. n
                 PROVE  checks[i][1] = Refused(i) /\ (checks[i][2] <=> Refused(i) # "none")
      OBVIOUS
    <2> DEFINE refused == Refused(i) # "none"
    <2>1. checks[i] = <<Refused(i), refused>> /\ refused \in BOOLEAN
      OBVIOUS
    <2> HIDE DEF checks, refused
    <2>2. checks[i][1] = Refused(i) /\ checks[i][2] = refused
      BY <2>1
    <2> QED BY <2>1, <2>2 DEF refused
  <1> HIDE DEF checks
  <1>5. \A i \in 1 .. n : checks[i][2] => checks[i][1] # "none"
    BY <1>4
  <1>6. FirstFailing(checks) = "none" <=> \A i \in 1 .. n : ~checks[i][2]
    BY <1>3, <1>5, NothingFails
  <1>7. (\A i \in 1 .. n : ~checks[i][2]) <=> \A i \in 1 .. n : Refused(i) = "none"
    BY <1>4
  <1> QED BY <1>1, <1>2, <1>6, <1>7

(* What a record of a file may be refused for.                             *)
LEMMA RefusedRecords ==
  ASSUME NEW f \in 1 .. 3, NEW rec
  PROVE  RecordError(f, rec) = "none" <=>
           /\ rec.io # "header" /\ rec.header # <<>> /\ rec.header = <<Width(f)>>
           /\ rec.io # "payload" /\ Len(rec.payload) = Width(f)
           /\ IF f = 3 THEN IdError(rec.payload) = "none"
              ELSE \A c \in DOMAIN rec.payload : rec.payload[c] # NonFinite
  <1> DEFINE p == rec.io = "header"
             q == rec.header = <<>>
             r == rec.header # <<Width(f)>>
             s == rec.io = "payload"
             t == Len(rec.payload) # Width(f)
             frame == FirstFailing(<< <<"io", p>>, <<"truncated_header", q>>, <<"dimension", r>>,
                                      <<"io", s>>, <<"truncated_payload", t>> >>)
  <1>1. frame = "none" <=> ~p /\ ~q /\ ~r /\ ~s /\ ~t
    <2>1. p \in BOOLEAN /\ q \in BOOLEAN /\ r \in BOOLEAN /\ s \in BOOLEAN /\ t \in BOOLEAN
      OBVIOUS
    <2> HIDE DEF p, q, r, s, t
    <2> QED BY <2>1, FiveChecks
  <1>2. RecordError(f, rec) =
          CASE frame # "none" -> frame
            [] frame = "none" /\ f = 3 -> IdError(rec.payload)
            [] OTHER -> IF \E c \in DOMAIN rec.payload : rec.payload[c] = NonFinite
                        THEN "non_finite" ELSE "none"
    BY DEF RecordError
  <1> HIDE DEF frame
  <1> QED BY <1>1, <1>2

(* The sizes of the files and of a record.                                 *)
LEMMA FileSizes ==
  /\ BASE_ROWS \in Nat /\ QUERY_ROWS \in Nat
  /\ \A f \in 1 .. 3 : Records(f) \in Nat
  /\ DIMENSIONS \in Nat \ {0} /\ K \in Nat \ {0}
  <1>1. BASE_ROWS \in Nat /\ QUERY_ROWS \in Nat
    BY RecallAssumption, LenProperties DEF BASE_ROWS, QUERY_ROWS
  <1> QED BY <1>1, SiftAssumption DEF Records, K

(* A record as the file holds it is accepted.                              *)
LEMMA GoodRead ==
  ASSUME truth_file \in TruthFiles, NEW f \in 1 .. 3, NEW n \in 1 .. Records(f)
  PROVE  RecordError(f, GoodRecord(f, Contents(f)[n])) = "none"
  <1> DEFINE payload == Contents(f)[n]
             rec == GoodRecord(f, payload)
  <1>1. /\ rec.io = "none" /\ rec.header = <<Width(f)>> /\ rec.header # <<>>
        /\ rec.payload = payload
    <2>1. <<Width(f)>> # <<>>
      OBVIOUS
    <2> QED BY <2>1 DEF GoodRecord
  <1> HIDE DEF rec
  <1>2. CASE f \in {1, 2}
    <2>1. GoodVector(payload)
      BY <1>2, FilesAssumption DEF Contents, Records
    <2>2. Width(f) = DIMENSIONS
      BY <1>2 DEF Width
    <2> HIDE DEF payload
    <2>3. Len(payload) = Width(f) /\ \A c \in DOMAIN payload : payload[c] # NonFinite
      BY <2>1, <2>2 DEF GoodVector
    <2>4. /\ rec.io # "header" /\ rec.io # "payload" /\ f # 3
          /\ Len(rec.payload) = Width(f)
          /\ \A c \in DOMAIN rec.payload : rec.payload[c] # NonFinite
      BY <1>1, <1>2, <2>3
    <2>5. RecordError(f, rec) = "none"
      BY <1>1, <2>4, RefusedRecords
    <2> QED BY <2>5 DEF rec, payload
  <1>3. CASE f = 3
    <2>1. GoodIds(payload) /\ Width(f) = K
      BY <1>3, FilesAssumption DEF Contents, Records, Width, K
    <2> HIDE DEF payload
    <2>2. /\ DOMAIN payload = 1 .. K /\ Len(payload) = K
          /\ payload \in [1 .. K -> 0 .. BASE_ROWS - 1]
          /\ \A i, j \in 1 .. K : payload[i] = payload[j] => i = j
      BY <2>1, FileSizes, LengthOf DEF GoodIds, K
    <2>3. \A i \in 1 .. K : /\ ~(payload[i] < 0) /\ ~(payload[i] >= BASE_ROWS)
                            /\ \A j \in 1 .. i - 1 : payload[j] # payload[i]
      BY <2>2, FileSizes
    <2>4. IdError(payload) = "none"
      BY <2>2, <2>3, FileSizes, RefusedIds
    <2>5. RecordError(f, rec) = "none"
      BY <1>1, <1>3, <2>1, <2>2, <2>4, RefusedRecords
    <2> QED BY <2>5 DEF rec, payload
  <1> QED BY <1>2, <1>3

(* Whatever is read in place of a good record is refused.                  *)
LEMMA BadRead ==
  ASSUME truth_file \in TruthFiles, NEW f \in 1 .. 3, NEW n \in 1 .. Records(f),
         NEW rec \in Misreads(f, Contents(f)[n])
  PROVE  RecordError(f, rec) # "none"
  <1> DEFINE payload == Contents(f)[n]
             good == GoodRecord(f, payload)
  <1>1. Width(f) \in Nat \ {0}
    BY FileSizes, SiftAssumption DEF Width, K
  <1>2. CASE rec \in {[good EXCEPT !.io = at] : at \in {"header", "payload"}}
    <2>1. rec.io \in {"header", "payload"}
      BY <1>2 DEF GoodRecord
    <2> QED BY <2>1, RefusedRecords
  <1>3. CASE rec \in {[good EXCEPT !.header = h] : h \in {<<>>, <<-1>>, <<Width(f) + 1>>}}
    <2>1. rec.header \in {<<>>, <<-1>>, <<Width(f) + 1>>}
      BY <1>3 DEF GoodRecord
    <2>2. rec.header # <<Width(f)>>
      <3>1. \A w \in Nat \ {0} : <<>> # <<w>> /\ <<-1>> # <<w>> /\ <<w + 1>> # <<w>>
        OBVIOUS
      <3> QED BY <1>1, <2>1, <3>1
    <2> QED BY <2>2, RefusedRecords
  <1>4. CASE rec \in {[good EXCEPT !.payload = SubSeq(payload, 1, Width(f) - 1)]}
    <2>1. rec.payload = SubSeq(payload, 1, Width(f) - 1)
      BY <1>4 DEF GoodRecord
    <2>2. Len(SubSeq(payload, 1, Width(f) - 1)) # Width(f)
      <3> DEFINE w == Width(f)
                 S == {payload[i] : i \in 1 .. w - 1}
      <3>1. w \in Nat \ {0} /\ (\A i \in 1 .. w - 1 : payload[i] \in S)
        BY <1>1
      <3> HIDE DEF w, S, payload
      <3>2. Len(SubSeq(payload, 1, w - 1)) = IF 1 <= w - 1 THEN (w - 1) - 1 + 1 ELSE 0
        <4>1. 1 \in Int /\ w - 1 \in Int
          BY <3>1
        <4> QED BY <3>1, <4>1, SubSeqProperties
      <3> QED BY <3>1, <3>2 DEF w
    <2> QED BY <2>1, <2>2, RefusedRecords
  <1>5. CASE f # 3 /\ rec = [good EXCEPT !.payload = [payload EXCEPT ![1] = NonFinite]]
    <2>1. rec.payload = [payload EXCEPT ![1] = NonFinite]
      BY <1>5 DEF GoodRecord
    <2>2. GoodVector(payload)
      <3>1. f \in {1, 2}
        BY <1>5
      <3> QED BY <3>1, FilesAssumption DEF Contents, Records
    <2>3. 1 \in DOMAIN payload
      BY <2>2, SiftAssumption DEF GoodVector
    <2>4. 1 \in DOMAIN rec.payload /\ rec.payload[1] = NonFinite
      BY <2>1, <2>3
    <2> QED BY <1>5, <2>4, RefusedRecords
  <1>6. CASE f = 3 /\ rec \in {[good EXCEPT !.payload = p] : p \in BadIds(payload)}
    <2>1. rec.payload \in BadIds(payload)
      BY <1>6 DEF GoodRecord
    <2>2. GoodIds(payload)
      BY <1>6, FilesAssumption DEF Contents, Records
    <2> HIDE DEF payload
    <2>3. /\ DOMAIN payload = 1 .. K /\ Len(payload) = K
          /\ payload \in [1 .. K -> 0 .. BASE_ROWS - 1]
      BY <2>2, FileSizes, LengthOf DEF GoodIds, K
    <2>4. PICK id \in {-1, BASE_ROWS} \cup {payload[i] : i \in 1 .. K - 1} :
             rec.payload = [payload EXCEPT ![K] = id]
      BY <2>1, <2>3 DEF BadIds
    <2> DEFINE ids == rec.payload
    <2>5. /\ DOMAIN ids = 1 .. K /\ K \in 1 .. K /\ ids[K] = id
          /\ \A i \in 1 .. K - 1 : ids[i] = payload[i]
      BY <2>3, <2>4, FileSizes
    <2> HIDE DEF ids
    <2>6. IdError(ids) # "none"
      <3> SUFFICES ASSUME \A i \in 1 .. K : /\ ~(ids[i] < 0) /\ ~(ids[i] >= BASE_ROWS)
                                           /\ \A j \in 1 .. i - 1 : ids[j] # ids[i]
                   PROVE  FALSE
        BY <2>5, FileSizes, RefusedIds
      <3>1. ~(id < 0) /\ ~(id >= BASE_ROWS) /\ \A j \in 1 .. K - 1 : payload[j] # id
        BY <2>5
      <3> QED BY <2>4, <3>1, FileSizes
    <2> QED BY <1>6, <2>6, RefusedRecords DEF ids
  <1> QED BY <1>2, <1>3, <1>4, <1>5, <1>6 DEF Misreads

-----------------------------------------------------------------------------
(* Sequences, of whatever they hold.                                       *)
LEMMA SeqFacts ==
  ASSUME NEW s, IsSeq(s)
  PROVE  Len(s) \in Nat /\ DOMAIN s = 1 .. Len(s)
  BY LenProperties DEF IsSeq

(* The empty sequence.                                                     *)
LEMMA EmptyIsSeq == IsSeq(<<>>) /\ Len(<<>>) = 0
  BY EmptySeq DEF IsSeq

(* A sequence over a set is one over its own elements.                     *)
LEMMA SeqOfItself ==
  ASSUME NEW S, NEW s \in Seq(S)
  PROVE  IsSeq(s)
  <1>1. Len(s) \in Nat /\ s \in [1 .. Len(s) -> S]
    BY LenProperties
  <1>2. s \in [1 .. Len(s) -> Elements(s)]
    BY <1>1 DEF Elements
  <1> HIDE DEF Elements
  <1>3. s \in Seq(Elements(s))
    BY <1>1, <1>2, SeqDef
  <1> QED BY <1>3 DEF IsSeq

(* One more element at the end.                                            *)
LEMMA AppendSeq ==
  ASSUME NEW s, IsSeq(s), NEW x
  PROVE  /\ IsSeq(Append(s, x)) /\ Len(Append(s, x)) = Len(s) + 1
         /\ \A i \in 1 .. Len(s) : Append(s, x)[i] = s[i]
         /\ Append(s, x)[Len(s) + 1] = x
         /\ Append(s, x) = s \o <<x>>
  <1> DEFINE T == Elements(s) \cup {x}
  <1>1. s \in Seq(T) /\ x \in T
    BY SeqMonotonic DEF IsSeq
  <1> HIDE DEF T
  <1>2. /\ Append(s, x) \in Seq(T) /\ Len(Append(s, x)) = Len(s) + 1
        /\ \A i \in 1 .. Len(s) : Append(s, x)[i] = s[i]
        /\ Append(s, x)[Len(s) + 1] = x
    BY <1>1, AppendProperties
  <1>3. Append(s, x) = s \o <<x>>
    BY <1>1, AppendIsConcat
  <1> QED BY <1>2, <1>3, SeqOfItself

(* One more record kept, or one passed over.                               *)
LEMMA CopiesGrow ==
  ASSUME NEW s, NEW contents, NEW n \in Nat, Copies(s, contents, n)
  PROVE  /\ Copies(s \o <<contents[n + 1]>>, contents, n + 1)
         /\ Copies(s \o <<>>, contents, n)
  <1> DEFINE x == contents[n + 1]
  <1>1. IsSeq(s) /\ Len(s) = n /\ \A r \in 1 .. n : s[r] = contents[r]
    BY DEF Copies
  <1>2. /\ IsSeq(s \o <<x>>) /\ Len(s \o <<x>>) = n + 1
        /\ \A r \in 1 .. n : (s \o <<x>>)[r] = s[r]
        /\ (s \o <<x>>)[n + 1] = x
    <2> HIDE DEF x
    <2>1. IsSeq(s) /\ Len(s) = n
      BY <1>1
    <2>2. Append(s, x) = s \o <<x>>
      BY <2>1, AppendSeq
    <2>3. /\ IsSeq(Append(s, x)) /\ Len(Append(s, x)) = n + 1
          /\ \A r \in 1 .. n : Append(s, x)[r] = s[r]
          /\ Append(s, x)[n + 1] = x
      BY <2>1, AppendSeq
    <2> QED BY <2>2, <2>3
  <1>3. s \o <<>> = s
    BY <1>1, ConcatEmptySeq DEF IsSeq
  <1>4. \A r \in 1 .. n + 1 : r \in 1 .. n \/ r = n + 1
    OBVIOUS
  <1>5. \A r \in 1 .. n + 1 : (s \o <<x>>)[r] = contents[r]
    <2> HIDE DEF x
    <2> QED BY <1>1, <1>2, <1>4 DEF x
  <1> QED BY <1>1, <1>2, <1>3, <1>5 DEF Copies

-----------------------------------------------------------------------------
(* The loading of the files.                                               *)
LEMMA Retained ==
  ASSUME mode \in {"full", "smoke"}, NEW f \in 1 .. 3
  PROVE  Retain(f) \in Nat /\ Retain(f) <= Records(f) /\ Retain(f) > 0
  <1>1. K \in Nat \ {0} /\ BASE_ROWS \in Nat /\ QUERY_ROWS \in Nat
    BY FileSizes
  <1>2. /\ SMOKE_BASE_ROWS \in Nat /\ SMOKE_BASE_ROWS > 0 /\ SMOKE_BASE_ROWS <= BASE_ROWS
        /\ SMOKE_QUERY_ROWS \in Nat /\ SMOKE_QUERY_ROWS > 0 /\ SMOKE_QUERY_ROWS <= QUERY_ROWS
    BY <1>1, SiftAssumption DEF K
  <1>3. BaseRows \in Nat /\ BaseRows > 0 /\ BaseRows <= BASE_ROWS
    BY <1>1, <1>2 DEF BaseRows
  <1>4. QueryRows \in Nat /\ QueryRows > 0 /\ QueryRows <= QUERY_ROWS
    BY <1>1, <1>2 DEF QueryRows
  <1> QED BY <1>3, <1>4 DEF Retain, Records

(* The command line decides how much will be kept.                         *)
LEMMA ArgsStep ==
  ASSUME LoadInv, ParseArgs
  PROVE  LoadInv'
  <1> USE DEF LoadInv, ParseArgs, Reading, Preparing, Warming, Timing, Running
  <1>1. PICK args \in Args :
          /\ pc' = IF ParseCli(args) = "usage" THEN "usage" ELSE "open"
          /\ mode' = IF ParseCli(args) = "usage" THEN mode ELSE ParseCli(args)
    OBVIOUS
  <1>2. ParseCli(args) \in {"full", "smoke", "usage"}
    BY DEF ParseCli
  <1>3. pc' \in {"open", "usage"} /\ mode' \in {"full", "smoke"} /\ file = 1
    BY <1>1, <1>2
  <1>4. Done(1) = 0 /\ Done(2) = 0 /\ Done(3) = 0
    BY <1>3 DEF Done
  <1>5. pc' = "open" => Done(1)' = 0 /\ Done(2)' = 0 /\ Done(3)' = 0
    BY <1>3 DEF Done
  <1>6. pc' = "open" => /\ Copies(base, BaseFile, Done(1))' /\ Copies(queries, QueryFile, Done(2))'
                       /\ Copies(supplied_top_100, truth_file, Done(3))'
    BY <1>4, <1>5 DEF Copies
  <1> QED BY <1>3, <1>6

(* A file that is opened has the size expected, and nothing is read yet.   *)
LEMMA OpenStep ==
  ASSUME LoadInv, Open
  PROVE  LoadInv'
  <1> USE DEF LoadInv, Open, Abort, loadVars, Reading, Preparing, Warming, Timing, Running
  <1>1. PICK handle \in Handles :
          /\ fault' = (handle # GoodHandle)
          /\ IF OpenChecked(handle) # "none"
             THEN Abort(OpenChecked(handle)) /\ UNCHANGED progress
             ELSE /\ pc' = "read" /\ completed' = 0
                  /\ progress' \in Begin(progress, Label(file), Records(file), 0)
                  /\ UNCHANGED <<loadVars, error>>
    OBVIOUS
  <1>2. OpenChecked(handle) = "none" => handle = GoodHandle
    <2> DEFINE p == handle.open = "not_found"
               q == handle.open = "denied"
               r == handle.excess # 0
    <2>1. OpenChecked(handle) = FirstFailing(<< <<"missing", p>>, <<"io", q>>, <<"size", r>> >>)
      BY DEF OpenChecked
    <2>2. p \in BOOLEAN /\ q \in BOOLEAN /\ r \in BOOLEAN
      OBVIOUS
    <2>3. ~p /\ ~q /\ ~r => handle = GoodHandle
      BY DEF Handles, GoodHandle
    <2> HIDE DEF p, q, r, LoadInv, Open, Abort
    <2>4. FirstFailing(<< <<"missing", p>>, <<"io", q>>, <<"size", r>> >>) = "none"
            <=> ~p /\ ~q /\ ~r
      BY <2>2, ThreeChecks
    <2> QED BY <2>1, <2>3, <2>4
  <1>3. CASE OpenChecked(handle) # "none"
    BY <1>1, <1>3
  <1>4. CASE OpenChecked(handle) = "none"
    <2>1. /\ pc' = "read" /\ completed' = 0 /\ UNCHANGED loadVars /\ fault' = FALSE
      BY <1>1, <1>2, <1>4
    <2>2. \A f \in 1 .. 3 : Retain(f) \in Nat /\ Retain(f)' = Retain(f)
      BY <2>1, Retained DEF Retain, BaseRows, QueryRows
    <2>3. \A f \in 1 .. 3 : Done(f)' = Done(f)
      BY <2>1, <2>2 DEF Done, Least
    <2>4. Records(file) \in Nat /\ Records(file)' = Records(file)
      BY <2>1, FileSizes DEF Records
    <2> QED BY <2>1, <2>3, <2>4 DEF Copies
  <1> QED BY <1>3, <1>4

(* A record is kept as the file holds it, while the mode retains it.       *)
LEMMA ReadStep ==
  ASSUME LoadInv, ReadRecord
  PROVE  LoadInv'
  <1> USE DEF Reading, Preparing, Warming, Timing, Running
  <1> DEFINE payload == Contents(file)[completed + 1]
             good == GoodRecord(file, payload)
  <1>1. /\ pc = "read" /\ completed < Records(file) /\ completed \in Nat
        /\ mode \in {"full", "smoke"} /\ truth_file \in TruthFiles /\ file \in 1 .. 3
        /\ ~fault /\ fault \in BOOLEAN
    BY DEF LoadInv, ReadRecord
  <1>2. PICK rec \in {good} \cup Misreads(file, payload) :
           /\ fault' = (rec # good)
           /\ IF RecordError(file, rec) # "none"
              THEN Abort(RecordError(file, rec)) /\ UNCHANGED progress
              ELSE /\ base' = IF file = 1 THEN base \o Kept(rec.payload) ELSE base
                   /\ queries' = IF file = 2 THEN queries \o Kept(rec.payload) ELSE queries
                   /\ supplied_top_100' =
                        IF file = 3 THEN supplied_top_100 \o Kept(rec.payload)
                        ELSE supplied_top_100
                   /\ completed' = completed + 1
                   /\ progress' \in Advance(progress, completed + 1)
                   /\ UNCHANGED <<pc, mode, truth_file, file, error>>
    BY DEF ReadRecord
  <1>3. Records(file) \in Nat /\ completed + 1 \in 1 .. Records(file)
    BY <1>1, FileSizes
  <1>4. RecordError(file, rec) = "none" => rec = good
    BY <1>1, <1>2, <1>3, BadRead
  <1>5. CASE RecordError(file, rec) # "none"
    <2>1. pc' = "aborted" /\ UNCHANGED <<loadVars, completed>> /\ fault' \in BOOLEAN
      BY <1>2, <1>5 DEF Abort
    <2> QED BY <1>1, <2>1 DEF LoadInv, loadVars
  <1>6. CASE RecordError(file, rec) = "none"
    <2>1. good.payload = payload
      BY DEF GoodRecord
    <2> HIDE DEF good
    <2>2. /\ pc' = pc /\ mode' = mode /\ truth_file' = truth_file /\ file' = file
          /\ completed' = completed + 1 /\ fault' = FALSE
          /\ base' = IF file = 1 THEN base \o Kept(payload) ELSE base
          /\ queries' = IF file = 2 THEN queries \o Kept(payload) ELSE queries
          /\ supplied_top_100' =
               IF file = 3 THEN supplied_top_100 \o Kept(payload) ELSE supplied_top_100
      BY <1>2, <1>4, <1>6, <2>1
    <2>3. Records(file)' = Records(file)
      BY <2>2 DEF Records
    <2>4. /\ \A f \in 1 .. 3 : Retain(f)' = Retain(f)
          /\ \A f \in 1 .. 3 : Retain(f) \in Nat
      BY <1>1, <2>2, Retained DEF Retain, BaseRows, QueryRows
    <2>5. \A f \in 1 .. 3 : f # file => Done(f)' = Done(f)
      BY <1>1, <2>2, <2>4 DEF Done
    <2>6. /\ Done(file) = Least(completed, Retain(file))
          /\ Done(file)' = Least(completed + 1, Retain(file))
      BY <1>1, <2>2, <2>4 DEF Done
    <2>7. ASSUME NEW s, Copies(s, Contents(file), Done(file))
          PROVE  Copies(s \o Kept(payload), Contents(file), Done(file)')
      <3>1. CASE completed < Retain(file)
        <4>1. /\ Done(file) = completed /\ Done(file)' = completed + 1
              /\ Kept(payload) = <<Contents(file)[completed + 1]>>
          BY <1>1, <2>4, <2>6, <3>1 DEF Least, Kept
        <4> QED BY <1>1, <2>7, <4>1, CopiesGrow
      <3>2. CASE ~(completed < Retain(file))
        <4>1. /\ Done(file) = Retain(file) /\ Done(file)' = Retain(file)
              /\ Kept(payload) = <<>> /\ Retain(file) \in Nat
          BY <1>1, <2>4, <2>6, <3>2 DEF Least, Kept
        <4> QED BY <2>7, <4>1, CopiesGrow
      <3> QED BY <3>1, <3>2
    <2> HIDE DEF payload
    <2>8. /\ Copies(base, BaseFile, Done(1)) /\ Copies(queries, QueryFile, Done(2))
          /\ Copies(supplied_top_100, truth_file, Done(3))
      BY <1>1 DEF LoadInv
    <2>9. /\ Copies(base', BaseFile, Done(1)') /\ Copies(queries', QueryFile, Done(2)')
          /\ Copies(supplied_top_100', truth_file, Done(3)')
      <3>1. CASE file = 1
        <4>1. Contents(file) = BaseFile
          BY <3>1 DEF Contents
        <4> QED BY <2>2, <2>5, <2>7, <2>8, <3>1, <4>1
      <3>2. CASE file = 2
        <4>1. Contents(file) = QueryFile
          BY <3>2 DEF Contents
        <4> QED BY <2>2, <2>5, <2>7, <2>8, <3>2, <4>1
      <3>3. CASE file = 3
        <4>1. Contents(file) = truth_file
          BY <3>3 DEF Contents
        <4> QED BY <2>2, <2>5, <2>7, <2>8, <3>3, <4>1
      <3> QED BY <1>1, <3>1, <3>2, <3>3
    <2>10. /\ Copies(base, BaseFile, Done(1))' /\ Copies(queries, QueryFile, Done(2))'
           /\ Copies(supplied_top_100, truth_file, Done(3))'
      <3> HIDE DEF Done
      <3>1. truth_file' = truth_file
        BY <2>2
      <3> QED BY <2>9, <3>1 DEF Copies
    <2>11. completed' \in Nat /\ completed' <= Records(file)'
      BY <1>1, <1>3, <2>2, <2>3
    <2> QED BY <1>1, <2>2, <2>10, <2>11 DEF LoadInv
  <1> QED BY <1>5, <1>6

(* At its end all of a file that is retained has been kept.                *)
LEMMA EndFileStep ==
  ASSUME LoadInv, EndFile
  PROVE  LoadInv'
  <1> USE DEF Reading, Preparing, Warming, Timing, Running
  <1>1. /\ pc = "read" /\ completed = Records(file) /\ completed \in Nat
        /\ mode \in {"full", "smoke"} /\ truth_file \in TruthFiles /\ file \in 1 .. 3
        /\ ~fault /\ fault \in BOOLEAN
    BY DEF LoadInv, EndFile
  <1>2. CASE fault' = TRUE /\ pc' = "aborted" /\ UNCHANGED <<loadVars, completed>>
    BY <1>1, <1>2 DEF LoadInv, loadVars
  <1>3. CASE /\ pc' = IF file = 3 THEN "build" ELSE "open"
             /\ file' = IF file = 3 THEN file ELSE file + 1
             /\ UNCHANGED <<mode, truth_file, base, queries, supplied_top_100, completed,
                            error, fault>>
    <2>1. \A f \in 1 .. 3 : /\ Retain(f)' = Retain(f) /\ Retain(f) \in Nat
                            /\ Retain(f) <= Records(f) /\ Records(f) \in Nat
      BY <1>1, <1>3, Retained, FileSizes DEF Retain, BaseRows, QueryRows
    <2>2. Done(file) = Retain(file)
      BY <1>1, <2>1 DEF Done, Least
    <2>3. \A f \in 1 .. 3 : Done(f)' = Done(f)
      <3>1. CASE file = 3
        BY <1>1, <1>3, <2>1, <2>2, <3>1 DEF Done
      <3>2. CASE file # 3
        BY <1>1, <1>3, <2>1, <2>2, <3>2 DEF Done
      <3> QED BY <3>1, <3>2
    <2>4. pc' \in {"build", "open"} /\ file' \in 1 .. 3
      BY <1>1, <1>3
    <2> QED BY <1>1, <1>3, <2>3, <2>4 DEF LoadInv, Copies
  <1> QED BY <1>2, <1>3 DEF EndFile, Abort

(* Nothing changes what was read.                                          *)
LEMMA LoadedStep ==
  ASSUME LoadInv, UNCHANGED loadVars, pc \notin Reading,
         pc \in Running, pc' \in (Running \ Reading) \cup {"aborted"},
         completed' \in Nat, fault' \in BOOLEAN,
         pc' \notin Timing \cup {"aborted"} => ~fault'
  PROVE  LoadInv'
  <1>1. \A f \in 1 .. 3 : Done(f)' = Done(f)
    BY DEF Done, loadVars, Retain, BaseRows, QueryRows, Reading, Running
  <1> QED BY <1>1 DEF LoadInv, loadVars, Copies, Reading, Preparing, Warming, Timing, Running

-----------------------------------------------------------------------------
(* What the passes and the report can rely on once the files are read.     *)
LEMMA Loaded ==
  ASSUME LoadInv, pc \in Running \ Reading
  PROVE  /\ DataOK /\ Total \in Nat /\ Total > 0 /\ Total <= QUERY_ROWS
         /\ DOMAIN queries = 1 .. Total
         /\ \A q \in 1 .. Total : queries[q] \in Vector /\ GoodIds(truth_file[q])
         /\ IsSeq(supplied_top_100) /\ Len(supplied_top_100) = Total
         /\ \A q \in 1 .. Total : supplied_top_100[q] = truth_file[q]
  <1>1. /\ mode \in {"full", "smoke"} /\ truth_file \in TruthFiles
        /\ Copies(base, BaseFile, BaseRows) /\ Copies(queries, QueryFile, QueryRows)
        /\ Copies(supplied_top_100, truth_file, QueryRows)
    <2>1. Done(1) = BaseRows /\ Done(2) = QueryRows /\ Done(3) = QueryRows
      BY DEF Done, Retain
    <2> QED BY <2>1 DEF LoadInv
  <1>2. /\ K \in Nat \ {0} /\ BASE_ROWS \in Nat /\ QUERY_ROWS \in Nat
        /\ BaseRows \in Nat /\ K <= BaseRows /\ BaseRows <= BASE_ROWS
        /\ QueryRows \in Nat /\ QueryRows > 0 /\ QueryRows <= QUERY_ROWS
    <2>1. K \in Nat \ {0} /\ BASE_ROWS \in Nat /\ QUERY_ROWS \in Nat
      BY FileSizes
    <2>2. /\ SMOKE_BASE_ROWS \in K .. BASE_ROWS /\ SMOKE_QUERY_ROWS \in 1 .. QUERY_ROWS
      BY SiftAssumption DEF K
    <2> QED BY <1>1, <2>1, <2>2 DEF BaseRows, QueryRows
  <1>3. DataOK
    <2>1. /\ base \in [1 .. BaseRows -> Elements(base)] /\ Len(base) = BaseRows
          /\ \A r \in 1 .. BaseRows : base[r] = BaseFile[r]
      BY <1>1, LenProperties DEF Copies, IsSeq
    <2>2. \A r \in 1 .. BASE_ROWS : BaseFile[r] \in Vector
      BY RecallAssumption, ElementOfSeq DEF BASE_ROWS
    <2>3. base \in [1 .. BaseRows -> Vector]
      BY <1>2, <2>1, <2>2
    <2>4. base \in Seq(Vector)
      BY <1>2, <2>3, LengthOf
    <2> QED BY <1>2, <2>1, <2>4 DEF DataOK
  <1>4. Total = QueryRows /\ DOMAIN queries = 1 .. Total
    BY <1>1, SeqFacts DEF Total, Copies
  <1>5. ASSUME NEW q \in 1 .. Total PROVE queries[q] \in Vector /\ GoodIds(truth_file[q])
    <2>1. q \in 1 .. QUERY_ROWS
      BY <1>2, <1>4
    <2>2. queries[q] = QueryFile[q]
      BY <1>1, <1>4 DEF Copies
    <2>3. QueryFile[q] \in Vector
      BY <2>1, RecallAssumption, ElementOfSeq DEF QUERY_ROWS
    <2> QED BY <1>1, <2>1, <2>2, <2>3, FilesAssumption
  <1> QED BY <1>1, <1>2, <1>3, <1>4, <1>5 DEF Copies

(* The smaller of two numbers.                                             *)
LEMMA MinOfTwo ==
  ASSUME NEW a \in Nat, NEW b \in Nat
  PROVE  MinOf({a, b}) = Least(a, b)
  BY DEF MinOf, Least

(* The warm-up announces the rounds it makes.                              *)
LEMMA WarmCapped ==
  ASSUME Total \in Nat
  PROVE  WarmRounds \in Nat /\ WarmCount = WarmRounds
  <1>1. WarmCount = Least(WARM_QUERY_COUNT, Total)
    BY MinOfTwo, RecallAssumption DEF WarmCount
  <1>2. WarmCount \in Nat /\ WarmCount <= Total
    BY <1>1, RecallAssumption DEF Least
  <1>3. WarmRounds = Least(WarmCount, Total)
    BY <1>2, MinOfTwo DEF WarmRounds
  <1> QED BY <1>2, <1>3 DEF Least

(* Neighbors in a strict order are what validate_neighbors accepts, and so *)
(* is what an index answers when it works.                                 *)
LEMMA ValidInOrder ==
  ASSUME DataOK, NEW n \in Nat, n <= K, NEW s, Len(s) = n, DOMAIN s = 1 .. n,
         \A i \in 1 .. n : s[i].row \in DOMAIN Data /\ s[i].distance \in Int,
         \A i, j \in 1 .. n : i < j =>
           /\ s[i].row # s[j].row
           /\ \/ s[i].distance < s[j].distance
              \/ s[i].distance = s[j].distance /\ s[i].row < s[j].row
  PROVE  ValidNeighbors(s)
  <1>1. Len(base) \in Nat /\ K \in Nat /\ K <= Len(base) /\ DOMAIN Data = 0 .. Len(base) - 1
    BY DataRows, FileSizes DEF DataOK
  <1>2. Len(s) <= MinOf({K, Len(base)})
    BY <1>1, MinOfTwo DEF Least
  <1>3. \A i \in DOMAIN s : s[i].row < Len(base) /\ s[i].distance # NonFinite
    BY <1>1, RecallAssumption
  <1>4. \A i \in 1 .. Len(s) - 1 : InOrder(s[i], s[i + 1])
    <2> SUFFICES ASSUME NEW i \in 1 .. n - 1 PROVE InOrder(s[i], s[i + 1])
      OBVIOUS
    <2>1. i \in 1 .. n /\ i + 1 \in 1 .. n /\ i < i + 1
      OBVIOUS
    <2>2. s[i].row \in Int /\ s[i + 1].row \in Int
      BY <1>1, <2>1
    <2> QED BY <2>1, <2>2 DEF InOrder
  <1>5. Cardinality(Elements(RowsOf(s))) = n
    <2> DEFINE S == 1 .. n
               f == RowsOf(s)
    <2>1. DOMAIN f = S /\ \A i \in S : f[i] = s[i].row
      BY DEF RowsOf
    <2>2. \A i, j \in S : f[i] = f[j] => i = j
      BY <2>1
    <2>3. IsFiniteSet(S) /\ Cardinality(S) = n
      BY FS_Interval
    <2> HIDE DEF f, S
    <2>4. Cardinality({f[i] : i \in S}) = n
      BY <2>1, <2>2, <2>3, FiniteImage
    <2>5. Elements(f) = {f[i] : i \in S}
      BY <2>1 DEF Elements
    <2> QED BY <2>4, <2>5 DEF f
  <1> QED BY <1>2, <1>3, <1>4, <1>5 DEF ValidNeighbors

(* An index that works answers what is exact, or all but the first.        *)
LEMMA ProperAnswer ==
  ASSUME DataOK, NEW query \in Vector, NEW i
  PROVE  LET exact  == FlatSearch(query, K)
             answer == Proper(i, query)
             skip   == IF i \in Lossy THEN 1 ELSE 0
         IN  /\ Len(answer) = K - skip /\ DOMAIN answer = 1 .. K - skip
             /\ \A n \in 1 .. K - skip : answer[n] = exact[n + skip]
             /\ ValidNeighbors(answer)
  <1> DEFINE exact  == FlatSearch(query, K)
             answer == Proper(i, query)
             skip   == IF i \in Lossy THEN 1 ELSE 0
             Hit    == [row : DOMAIN Data, distance : Int]
  <1>1. K \in Nat /\ K > 1 /\ skip \in {0, 1}
    BY FileSizes, RecallAssumption
  <1>2. IsExact(exact, Data, query, K)
    BY <1>1, FlatIsExact DEF DataOK
  <1>3. answer = IF skip = 1 THEN Tail(exact) ELSE exact
    BY DEF Proper
  <1> HIDE DEF exact, answer, skip
  <1>4. Len(exact) = K /\ exact \in Seq(Hit) /\ DOMAIN exact = 1 .. K
    <2>1. exact \in [1 .. K -> Hit]
      BY <1>2 DEF IsExact
    <2> HIDE DEF Hit
    <2> QED BY <1>1, <2>1, LengthOf
  <1>5. /\ Len(answer) = K - skip /\ DOMAIN answer = 1 .. K - skip
        /\ \A n \in 1 .. K - skip : answer[n] = exact[n + skip]
    <2>1. CASE skip = 0
      BY <1>1, <1>3, <1>4, <2>1
    <2>2. CASE skip = 1
      <3>1. exact # <<>>
        BY <1>1, <1>4, EmptyIsSeq
      <3> HIDE DEF Hit
      <3>2. /\ Tail(exact) \in Seq(Hit) /\ Len(Tail(exact)) = K - 1
            /\ \A n \in 1 .. K - 1 : Tail(exact)[n] = exact[n + 1]
        BY <1>4, <3>1, HeadTailProperties
      <3>3. DOMAIN Tail(exact) = 1 .. K - 1
        BY <3>2, LenProperties
      <3> QED BY <1>3, <2>2, <3>2, <3>3
    <2> QED BY <1>1, <2>1, <2>2
  <1>6. ValidNeighbors(answer)
    <2>1. K - skip \in Nat /\ K - skip <= K
      BY <1>1
    <2>2. \A n \in 1 .. K - skip : n + skip \in 1 .. K
      BY <1>1
    <2>3. \A n \in 1 .. K : exact[n].row \in DOMAIN Data /\ exact[n].distance \in Int
      BY <1>2 DEF IsExact
    <2>4. \A m, n \in 1 .. K : m < n =>
            /\ exact[m].row # exact[n].row
            /\ \/ exact[m].distance < exact[n].distance
               \/ exact[m].distance = exact[n].distance /\ exact[m].row < exact[n].row
      BY <1>2 DEF IsExact
    <2>5. \A n \in 1 .. K - skip : answer[n].row \in DOMAIN Data /\ answer[n].distance \in Int
      BY <1>5, <2>2, <2>3
    <2>6. \A m, n \in 1 .. K - skip : m < n => m + skip < n + skip
      BY <1>1
    <2>7. \A m, n \in 1 .. K - skip : m < n =>
            /\ answer[m].row # answer[n].row
            /\ \/ answer[m].distance < answer[n].distance
               \/ answer[m].distance = answer[n].distance /\ answer[m].row < answer[n].row
      BY <1>5, <2>2, <2>4, <2>6
    <2> QED BY <1>5, <2>1, <2>5, <2>7, ValidInOrder
  <1> QED BY <1>5, <1>6 DEF exact, answer, skip

(* validate_neighbors refuses whatever a faulty index answers.             *)
LEMMA FaultIsInvalid ==
  ASSUME DataOK, NEW query \in Vector, NEW bad \in Misanswers(query)
  PROVE  ~ValidNeighbors(bad)
  <1> DEFINE exact == FlatSearch(query, K)
             last  == exact[Len(exact)]
             Hit   == [row : DOMAIN Data, distance : Int]
  <1>1. /\ K \in Nat /\ K > 1 /\ Len(base) \in Nat /\ K <= Len(base)
        /\ DOMAIN Data = 0 .. Len(base) - 1
    BY FileSizes, RecallAssumption, DataRows DEF DataOK
  <1>2. IsExact(exact, Data, query, K)
    BY <1>1, FlatIsExact
  <1>3. /\ Len(exact) = K /\ exact \in Seq(Hit) /\ DOMAIN exact = 1 .. K
        /\ exact \in [1 .. K -> Hit] /\ last = exact[K] /\ IsSeq(exact)
    <2>1. exact \in [1 .. K -> Hit]
      BY <1>2 DEF IsExact
    <2> HIDE DEF Hit, exact
    <2> QED BY <1>1, <2>1, LengthOf, SeqOfItself
  <1>4. \A m, n \in 1 .. K : m < n =>
          /\ exact[m].row # exact[n].row
          /\ \/ exact[m].distance < exact[n].distance
             \/ exact[m].distance = exact[n].distance /\ exact[m].row < exact[n].row
    BY <1>2 DEF IsExact
  <1>5. CASE bad = FlatSearch(query, Len(base)) \o <<last>>
    <2> DEFINE all == FlatSearch(query, Len(base))
    <2>1. IsExact(all, Data, query, Len(base))
      BY <1>1, FlatIsExact
    <2>2. IsSeq(all) /\ Len(all) = Len(base)
      <3>1. all \in [1 .. Len(base) -> Hit]
        BY <2>1 DEF IsExact
      <3> HIDE DEF all, Hit
      <3> QED BY <1>1, <3>1, LengthOf, SeqOfItself
    <2> HIDE DEF all, last, exact
    <2>3. Len(Append(all, last)) = Len(base) + 1 /\ Append(all, last) = all \o <<last>>
      BY <2>2, AppendSeq
    <2>4. MinOf({K, Len(base)}) = K
      BY <1>1, MinOfTwo DEF Least
    <2>5. bad = all \o <<last>>
      BY <1>5 DEF all
    <2> QED BY <1>1, <2>3, <2>4, <2>5 DEF ValidNeighbors
  <1> HIDE DEF exact
  <1>6. CASE bad = [exact EXCEPT ![Len(exact)].row = Len(base)]
    <2>1. K \in DOMAIN bad /\ bad[K].row = Len(base)
      BY <1>1, <1>3, <1>6
    <2> QED BY <1>1, <2>1 DEF ValidNeighbors
  <1>7. CASE bad = [exact EXCEPT ![Len(exact)].distance = NonFinite]
    <2>1. K \in DOMAIN bad /\ bad[K].distance = NonFinite
      BY <1>1, <1>3, <1>7
    <2> QED BY <2>1 DEF ValidNeighbors
  <1>8. \A x : LET s == Append(Tail(exact), x)
              IN  /\ Len(s) = K /\ DOMAIN s = 1 .. K
                  /\ s[K - 1] = exact[K] /\ s[K] = x
                  /\ \A n \in 1 .. K - 1 : s[n] = exact[n + 1]
    <2> SUFFICES ASSUME NEW x
                 PROVE  LET s == Append(Tail(exact), x)
                        IN  /\ Len(s) = K /\ DOMAIN s = 1 .. K
                            /\ s[K - 1] = exact[K] /\ s[K] = x
                            /\ \A n \in 1 .. K - 1 : s[n] = exact[n + 1]
      OBVIOUS
    <2> HIDE DEF Hit
    <2>1. exact # <<>>
      BY <1>1, <1>3, EmptyIsSeq
    <2>2. /\ Tail(exact) \in Seq(Hit) /\ Len(Tail(exact)) = K - 1
          /\ \A n \in 1 .. K - 1 : Tail(exact)[n] = exact[n + 1]
      BY <1>3, <2>1, HeadTailProperties
    <2>3. IsSeq(Tail(exact))
      BY <2>2, SeqOfItself
    <2> DEFINE s == Append(Tail(exact), x)
    <2>4. /\ IsSeq(s) /\ Len(s) = (K - 1) + 1 /\ s[(K - 1) + 1] = x
          /\ \A n \in 1 .. K - 1 : s[n] = Tail(exact)[n]
      <3> DEFINE t == Tail(exact)
      <3>1. IsSeq(t) /\ Len(t) = K - 1
        BY <2>2, <2>3
      <3> HIDE DEF t
      <3>2. /\ IsSeq(Append(t, x)) /\ Len(Append(t, x)) = Len(t) + 1
            /\ Append(t, x)[Len(t) + 1] = x
            /\ \A n \in 1 .. Len(t) : Append(t, x)[n] = t[n]
        BY <3>1, AppendSeq
      <3>3. s = Append(t, x)
        BY DEF t
      <3> HIDE DEF s
      <3> QED BY <3>1, <3>2, <3>3 DEF t
    <2> HIDE DEF s
    <2>5. Len(s) = K /\ DOMAIN s = 1 .. K /\ s[K] = x
      BY <1>1, <2>4, SeqFacts
    <2>6. K - 1 \in 1 .. K - 1 /\ (K - 1) + 1 = K
      BY <1>1
    <2>7. \A n \in 1 .. K - 1 : s[n] = exact[n + 1]
      BY <2>2, <2>4
    <2>8. s[K - 1] = exact[K]
      BY <2>6, <2>7
    <2> QED BY <2>5, <2>7, <2>8 DEF s
  <1>9. CASE bad = Append(Tail(exact), Head(exact))
    <2>1. Len(bad) = K /\ bad[K - 1] = exact[K] /\ bad[K] = exact[1]
      <3>1. Head(exact) = exact[1]
        OBVIOUS
      <3> QED BY <1>8, <1>9, <3>1
    <2>2. /\ exact[1].distance \in Int /\ exact[K].distance \in Int
          /\ exact[1].row \in Int /\ exact[K].row \in Int
      BY <1>1, <1>3
    <2>3. \/ exact[1].distance < exact[K].distance
          \/ exact[1].distance = exact[K].distance /\ exact[1].row < exact[K].row
      BY <1>1, <1>4
    <2>4. ~InOrder(bad[K - 1], bad[K])
      BY <2>1, <2>2, <2>3 DEF InOrder
    <2>5. K - 1 \in 1 .. Len(bad) - 1 /\ (K - 1) + 1 = K
      BY <1>1, <2>1
    <2> QED BY <2>4, <2>5 DEF ValidNeighbors
  <1>10. CASE bad = Append(Tail(exact), last)
    <2>1. Len(bad) = K /\ DOMAIN bad = 1 .. K /\ bad[K - 1] = bad[K]
      BY <1>3, <1>8, <1>10
    <2> DEFINE S == 1 .. K - 1
               f == [n \in S |-> bad[n].row]
    <2>2. Elements(RowsOf(bad)) = {f[n] : n \in S}
      <3>1. \A n \in 1 .. K : n \in S \/ n = K
        BY <1>1
      <3>2. K - 1 \in S /\ \A n \in S : n \in 1 .. K
        BY <1>1
      <3>3. \A n \in 1 .. K : \E m \in S : bad[n].row = f[m]
        BY <2>1, <3>1, <3>2
      <3>4. \A m \in S : \E n \in 1 .. K : bad[n].row = f[m]
        BY <3>2
      <3>5. Elements(RowsOf(bad)) = {bad[n].row : n \in 1 .. K}
        BY <2>1 DEF Elements, RowsOf
      <3> HIDE DEF f
      <3> QED BY <3>3, <3>4, <3>5
    <2>3. IsFiniteSet(S) /\ Cardinality(S) = K - 1
      BY <1>1, FS_Interval
    <2>4. DOMAIN f = S
      OBVIOUS
    <2> HIDE DEF f, S
    <2> DEFINE T == {f[n] : n \in S}
    <2>5. f \in Surjection(S, T)
      <3>1. f = [n \in S |-> f[n]]
        BY <2>4 DEF f
      <3> QED BY <3>1 DEF Surjection
    <2> HIDE DEF T
    <2>6. IsFiniteSet(T) /\ Cardinality(T) <= K - 1
      BY <2>3, <2>5, FS_Surjection
    <2>7. Cardinality(T) \in Nat
      BY <2>6, FS_CardinalityType
    <2>8. Cardinality(Elements(RowsOf(bad))) # Len(bad)
      BY <1>1, <2>1, <2>2, <2>6, <2>7 DEF T
    <2> QED BY <2>8 DEF ValidNeighbors
  <1> QED BY <1>5, <1>6, <1>7, <1>9, <1>10 DEF Misanswers, exact, last

-----------------------------------------------------------------------------
(* The passes.                                                             *)
LEMMA TurnTaken ==
  ASSUME NEW r \in Nat, NEW a \in Indexes, NEW r1, NEW a1,
         IF a + 1 < C THEN a1 = a + 1 /\ r1 = r ELSE a1 = 0 /\ r1 = r + 1
  PROVE  LET i == Turn(r, a)
             Made(j, s, b) == IF HadTurn(j, s, b) THEN s + 1 ELSE s
         IN  /\ i \in Indexes /\ r1 \in Nat /\ a1 \in Indexes
             /\ r1 * C + a1 = r * C + a + 1
             /\ Made(i, r, a) = r /\ Made(i, r1, a1) = r + 1
             /\ \A j \in Indexes \ {i} : Made(j, r1, a1) = Made(j, r, a)
  <1> DEFINE i == Turn(r, a)
             Made(j, s, b) == IF HadTurn(j, s, b) THEN s + 1 ELSE s
  <1>1. C \in Nat \ {0} /\ Indexes = 0 .. C - 1
    BY RecallAssumption DEF C, Indexes
  <1>2. i \in Indexes /\ r1 \in Nat /\ a1 \in Indexes
    <2>1. i \in Indexes
      BY Turns
    <2>2. r1 \in Nat /\ a1 \in Indexes
      BY <1>1
    <2> QED BY <2>1, <2>2
  <1>3. r1 * C + a1 = r * C + a + 1
    <2>1. CASE a + 1 < C
      BY <1>1, <2>1
    <2>2. CASE ~(a + 1 < C)
      <3>1. (r + 1) * C = r * C + C /\ a + 1 = C
        BY <1>1, <2>2
      <3> QED BY <1>1, <2>2, <3>1
    <2> QED BY <2>1, <2>2
  <1>4. \A b \in 0 .. a - 1 : b \in Indexes /\ b # a
    BY <1>1
  <1>5. ~HadTurn(i, r, a)
    BY <1>4, Turns DEF HadTurn
  <1>6. \A j, s : ~HadTurn(j, s, 0)
    BY DEF HadTurn
  <1>7. CASE a + 1 < C
    <2>1. a1 = a + 1 /\ r1 = r /\ a \in Nat
      BY <1>1, <1>7
    <2>2. 0 .. a1 - 1 = (0 .. a - 1) \cup {a}
      BY <2>1
    <2>3. \A j : HadTurn(j, r1, a1) <=> HadTurn(j, r, a) \/ Turn(r, a) = j
      BY <2>1, <2>2 DEF HadTurn
    <2> QED BY <1>2, <1>3, <1>5, <2>1, <2>3
  <1>8. CASE ~(a + 1 < C)
    <2>1. a1 = 0 /\ r1 = r + 1 /\ a = C - 1
      BY <1>1, <1>8
    <2>2. \A j \in Indexes \ {i} : HadTurn(j, r, a)
      <3> SUFFICES ASSUME NEW j \in Indexes \ {i} PROVE HadTurn(j, r, a)
        OBVIOUS
      <3>1. PICK b \in Indexes : Turn(r, b) = j
        BY Turns
      <3>2. b \in 0 .. a - 1
        BY <1>1, <2>1, <3>1
      <3> QED BY <3>1, <3>2 DEF HadTurn
    <2> QED BY <1>2, <1>3, <1>5, <1>6, <2>1, <2>2
  <1> QED BY <1>7, <1>8

(* A search goes to the place after the last one.                          *)
LEMMA OrderGrows ==
  ASSUME InOrderOfTurns,
         order' = Append(order, [index |-> Turn(completed, offset), query |-> completed]),
         IF offset + 1 < C THEN offset' = offset + 1 /\ completed' = completed
         ELSE offset' = 0 /\ completed' = completed + 1
  PROVE  InOrderOfTurns'
  <1> DEFINE search == [index |-> Turn(completed, offset), query |-> completed]
  <1>1. C \in Nat \ {0} /\ Indexes = 0 .. C - 1
    BY RecallAssumption DEF C, Indexes
  <1>2. /\ completed \in Nat /\ offset \in Indexes /\ IsSeq(order)
        /\ Len(order) = completed * C + offset /\ DOMAIN order = 1 .. Len(order)
        /\ \A n \in 1 .. Len(order) :
             order[n] = [index |-> Turn((n - 1) \div C, (n - 1) % C), query |-> (n - 1) \div C]
    BY DEF InOrderOfTurns
  <1>3. /\ completed' \in Nat /\ offset' \in Indexes
        /\ completed' * C + offset' = completed * C + offset + 1
    BY <1>2, TurnTaken
  <1> HIDE DEF search
  <1>4. /\ IsSeq(order') /\ Len(order') = Len(order) + 1
        /\ \A n \in 1 .. Len(order) : order'[n] = order[n]
        /\ order'[Len(order) + 1] = search
    <2>1. order' = Append(order, search)
      BY DEF search
    <2>2. /\ IsSeq(Append(order, search)) /\ Len(Append(order, search)) = Len(order) + 1
          /\ \A n \in 1 .. Len(order) : Append(order, search)[n] = order[n]
          /\ Append(order, search)[Len(order) + 1] = search
      <3>1. IsSeq(order)
        BY <1>2
      <3> QED BY <3>1, AppendSeq
    <2> QED BY <2>1, <2>2
  <1>5. DOMAIN order' = 1 .. Len(order')
    BY <1>4, SeqFacts
  <1>6. Len(order) \in Nat /\ Len(order') = completed' * C + offset'
    <2>1. completed * C \in Nat /\ offset \in Nat
      BY <1>1, <1>2
    <2> QED BY <1>2, <1>3, <1>4, <2>1
  <1>7. ASSUME NEW n \in 1 .. Len(order')
        PROVE  order'[n] = [index |-> Turn((n - 1) \div C, (n - 1) % C), query |-> (n - 1) \div C]
    <2>1. CASE n \in 1 .. Len(order)
      BY <1>2, <1>4, <2>1
    <2>2. CASE n = Len(order) + 1
      <3>1. n - 1 = completed * C + offset
        BY <1>1, <1>2, <1>6, <2>2
      <3>2. (completed * C + offset) \div C = completed /\ (completed * C + offset) % C = offset
        BY <1>1, <1>2, PlaceOf
      <3>3. (n - 1) \div C = completed /\ (n - 1) % C = offset
        BY <3>1, <3>2
      <3> QED BY <1>4, <2>2, <3>3 DEF search
    <2> QED BY <1>4, <1>6, <2>1, <2>2
  <1> QED BY <1>3, <1>4, <1>5, <1>6, <1>7 DEF InOrderOfTurns

(* What the expressions over the dataset say is not changed by a pass.     *)
LEMMA DataFixed ==
  ASSUME UNCHANGED loadVars
  PROVE  /\ Total' = Total /\ DOMAIN queries' = DOMAIN queries
         /\ \A i, q : (Proper(i, queries[q]))' = Proper(i, queries[q])
         /\ \A s : ValidNeighbors(s)' <=> ValidNeighbors(s)
         /\ \A q : TruthOf(q)' = TruthOf(q)
         /\ TruthDisagrees' <=> TruthDisagrees
  BY DEF loadVars, Total, Proper, FlatSearch, Data, ValidNeighbors, TruthOf, TruthDisagrees

(* A run with other latencies and results.                                 *)
LEMMA RunReplaced ==
  ASSUME NEW a, NEW b, NEW c, NEW d
  PROVE  [[latencies |-> a, results |-> b] EXCEPT !.latencies = c, !.results = d]
           = [latencies |-> c, results |-> d]
  <1> DEFINE r == [[latencies |-> a, results |-> b] EXCEPT !.latencies = c, !.results = d]
             t == [latencies |-> c, results |-> d]
  <1>1. DOMAIN r = DOMAIN t
    OBVIOUS
  <1>2. r["latencies"] = c /\ r["results"] = d
    OBVIOUS
  <1>3. r = [x \in DOMAIN r |-> r[x]]
    OBVIOUS
  <1>4. t = [x \in DOMAIN t |-> t[x]]
    OBVIOUS
  <1>5. DOMAIN t = {"latencies", "results"} /\ t["latencies"] = c /\ t["results"] = d
    OBVIOUS
  <1> HIDE DEF r, t
  <1>6. \A x \in DOMAIN r : r[x] = t[x]
    BY <1>1, <1>2, <1>5
  <1>7. r = t
    BY <1>1, <1>3, <1>4, <1>6
  <1> QED BY <1>7 DEF r, t

(* A timed search adds an answer of the index whose turn it is.            *)
LEMMA AnswerStep ==
  ASSUME LoadInv, PassInv, Search, pc = "timed", pc' # "aborted"
  PROVE  /\ pc' = "timed" /\ UNCHANGED loadVars
         /\ InOrderOfTurns' /\ Answered'
         /\ completed' <= Total' /\ (completed' = Total' => offset' = 0)
         /\ completed' \in Nat /\ fault' \in BOOLEAN
  <1>0. \E index : index = Turn(completed, offset)
    OBVIOUS
  <1>. PICK index : index = Turn(completed, offset)
    BY <1>0
  <1> DEFINE query == queries[completed + 1]
             time  == clock[index][completed + 1]
  <1>1. /\ UNCHANGED <<pc, loadVars>> /\ completed < Total
        /\ order' = Append(order, [index |-> index, query |-> completed])
        /\ IF offset + 1 < C THEN offset' = offset + 1 /\ completed' = completed
           ELSE offset' = 0 /\ completed' = completed + 1
    BY DEF Search, Abort, Rounds, C
  <1>2. PICK bad \in IF fault THEN {FALSE} ELSE BOOLEAN :
          \E result \in IF bad THEN Misanswers(query) ELSE {Proper(index, query)} :
            /\ runs' = [runs EXCEPT ![index].latencies = Append(@, time),
                                    ![index].results = Append(@, result)]
            /\ fault' = (fault \/ bad)
    BY DEF Search, Abort
  <1>3. PICK result \in IF bad THEN Misanswers(query) ELSE {Proper(index, query)} :
          /\ runs' = [runs EXCEPT ![index].latencies = Append(@, time),
                                  ![index].results = Append(@, result)]
          /\ fault' = (fault \/ bad)
    BY <1>2
  <1>4. /\ InOrderOfTurns /\ Answered /\ completed \in Nat /\ offset \in Indexes
        /\ fault \in BOOLEAN /\ bad \in BOOLEAN /\ clock \in Clocks
        /\ pc \in Running \ Reading
    BY DEF LoadInv, PassInv, InOrderOfTurns, Timing, Running, Reading
  <1>5. /\ DataOK /\ Total \in Nat /\ Total <= QUERY_ROWS /\ DOMAIN queries = 1 .. Total
        /\ \A q \in 1 .. Total : queries[q] \in Vector
        /\ QUERY_ROWS \in Nat
    BY <1>4, Loaded, FileSizes
  <1>6. C \in Nat \ {0} /\ Indexes = 0 .. C - 1
    BY RecallAssumption DEF C, Indexes
  <1>7. InOrderOfTurns'
    BY <1>1, <1>4, OrderGrows
  <1>8. /\ index \in Indexes /\ Answers(index) = completed /\ Answers(index)' = completed + 1
        /\ \A i \in Indexes \ {index} : Answers(i)' = Answers(i)
    BY <1>1, <1>4, TurnTaken DEF Answers
  <1>9. query \in Vector /\ time \in Nat
    <2>1. completed + 1 \in 1 .. Total /\ completed + 1 \in 1 .. QUERY_ROWS
      BY <1>1, <1>4, <1>5
    <2> QED BY <1>4, <1>5, <1>8, <2>1, RecallAssumption
  <1> HIDE DEF query, time
  <1>10. /\ \A i \in Indexes \ {index} : runs'[i] = runs[i]
         /\ runs'[index] = [latencies |-> Append(runs[index].latencies, time),
                           results |-> Append(runs[index].results, result)]
         /\ DOMAIN runs' = Indexes
         /\ \A i \in Indexes :
              runs'[i] = [latencies |-> runs'[i].latencies, results |-> runs'[i].results]
    <2>1. /\ DOMAIN runs = Indexes
          /\ \A i \in Indexes :
               runs[i] = [latencies |-> runs[i].latencies, results |-> runs[i].results]
      BY <1>4 DEF Answered
    <2>2. runs' = [runs EXCEPT ![index].latencies = Append(@, time),
                              ![index].results = Append(@, result)]
      BY <1>3
    <2>3. index \in Indexes
      BY <1>8
    <2> DEFINE L == Append(runs[index].latencies, time)
               R == Append(runs[index].results, result)
    <2>4. runs' = [runs EXCEPT ![index] = [runs[index] EXCEPT !.latencies = L, !.results = R]]
      BY <2>2
    <2>5. [runs[index] EXCEPT !.latencies = L, !.results = R] = [latencies |-> L, results |-> R]
      <3> HIDE DEF L, R
      <3>1. \A a, b, c, d :
              [[latencies |-> a, results |-> b] EXCEPT !.latencies = c, !.results = d]
                = [latencies |-> c, results |-> d]
        BY RunReplaced
      <3>2. \E a, b : runs[index] = [latencies |-> a, results |-> b]
        BY <2>1, <2>3
      <3> QED BY <3>1, <3>2
    <2> HIDE DEF L, R
    <2>6. /\ DOMAIN runs' = Indexes /\ runs'[index] = [latencies |-> L, results |-> R]
          /\ \A i \in Indexes \ {index} : runs'[i] = runs[i]
      BY <2>1, <2>3, <2>4, <2>5
    <2>7. ASSUME NEW i \in Indexes
          PROVE  runs'[i] = [latencies |-> runs'[i].latencies, results |-> runs'[i].results]
      <3>1. CASE i = index
        BY <2>6, <3>1
      <3>2. CASE i # index
        <4>1. runs'[i] = runs[i]
          BY <2>6, <3>2
        <4> QED BY <2>1, <4>1
      <3> QED BY <3>1, <3>2
    <2> QED BY <2>6, <2>7 DEF L, R
  <1>11. /\ runs'[index].latencies \in Seq(Nat) /\ IsSeq(runs'[index].results)
         /\ Len(runs'[index].latencies) = completed + 1
         /\ Len(runs'[index].results) = completed + 1
         /\ \A q \in 1 .. completed : runs'[index].results[q] = runs[index].results[q]
         /\ runs'[index].results[completed + 1] = result
    <2>1. /\ runs[index].latencies \in Seq(Nat) /\ IsSeq(runs[index].results)
          /\ Len(runs[index].latencies) = completed /\ Len(runs[index].results) = completed
      BY <1>4, <1>8 DEF Answered
    <2> DEFINE old == runs[index].results
               times == runs[index].latencies
    <2>2. /\ IsSeq(Append(old, result)) /\ Len(Append(old, result)) = completed + 1
          /\ \A q \in 1 .. completed : Append(old, result)[q] = old[q]
          /\ Append(old, result)[completed + 1] = result
      <3> HIDE DEF old
      <3>1. IsSeq(old) /\ Len(old) = completed
        BY <2>1 DEF old
      <3> QED BY <3>1, AppendSeq
    <2>3. /\ Append(times, time) \in Seq(Nat) /\ Len(Append(times, time)) = completed + 1
      <3> HIDE DEF times
      <3>1. times \in Seq(Nat) /\ Len(times) = completed
        BY <2>1 DEF times
      <3> QED BY <1>9, <3>1, AppendProperties
    <2>4. runs'[index].latencies = Append(times, time) /\ runs'[index].results = Append(old, result)
      BY <1>10
    <2> HIDE DEF old, times
    <2>5. \A q \in 1 .. completed : runs'[index].results[q] = runs[index].results[q]
      BY <2>2, <2>4 DEF old
    <2> QED BY <2>2, <2>3, <2>4, <2>5
  <1>12. /\ \A i, q : (Proper(i, queries[q]))' = Proper(i, queries[q])
         /\ \A s : ValidNeighbors(s)' <=> ValidNeighbors(s)
         /\ Total' = Total
    BY <1>1, DataFixed
  <1>13. \A i \in Indexes :
           /\ runs'[i].latencies \in Seq(Nat) /\ IsSeq(runs'[i].results)
           /\ Len(runs'[i].latencies) = Answers(i)' /\ Len(runs'[i].results) = Answers(i)'
    BY <1>4, <1>8, <1>10, <1>11 DEF Answered
  <1>14. ASSUME ~fault', NEW i \in Indexes, NEW q \in 1 .. Answers(i)'
         PROVE  runs'[i].results[q] = Proper(i, queries[q])
    <2>1. ~fault /\ ~bad /\ result = Proper(index, query)
      BY <1>3, <1>4, <1>14
    <2>2. \A p \in 1 .. Answers(i) : runs[i].results[p] = Proper(i, queries[p])
      BY <1>4, <2>1 DEF Answered
    <2>3. CASE i # index
      BY <1>8, <1>10, <2>2, <2>3
    <2>4. CASE i = index /\ q \in 1 .. completed
      BY <1>8, <1>11, <2>2, <2>4
    <2>5. CASE i = index /\ q = completed + 1
      BY <1>11, <2>1, <2>5 DEF query
    <2>6. i = index => q \in 1 .. completed \/ q = completed + 1
      BY <1>4, <1>8, <1>14
    <2> QED BY <2>3, <2>4, <2>5, <2>6
  <1>15. ASSUME fault'
         PROVE  \E i \in Indexes : \E q \in DOMAIN runs'[i].results :
                  ~ValidNeighbors(runs'[i].results[q])
    <2>1. CASE fault
      <3>0. PICK i \in Indexes : \E q \in DOMAIN runs[i].results :
              ~ValidNeighbors(runs[i].results[q])
        BY <1>4, <2>1 DEF Answered
      <3>1. PICK q \in DOMAIN runs[i].results : ~ValidNeighbors(runs[i].results[q])
        BY <3>0
      <3>2. CASE i # index
        BY <1>10, <3>1, <3>2
      <3>3. CASE i = index
        <4>1. IsSeq(runs[i].results) /\ Len(runs[i].results) = completed
          BY <1>4, <1>8, <3>3 DEF Answered
        <4>2. q \in 1 .. completed
          BY <3>1, <4>1, SeqFacts
        <4>3. DOMAIN runs'[i].results = 1 .. completed + 1
          BY <1>11, <3>3, SeqFacts
        <4> QED BY <1>4, <1>11, <3>1, <3>3, <4>2, <4>3
      <3> QED BY <3>2, <3>3
    <2>2. CASE ~fault
      <3>1. bad /\ result \in Misanswers(query)
        BY <1>3, <1>4, <1>15, <2>2
      <3>2. ~ValidNeighbors(result)
        BY <1>5, <1>9, <3>1, FaultIsInvalid
      <3>3. completed + 1 \in DOMAIN runs'[index].results
        <4>1. DOMAIN runs'[index].results = 1 .. completed + 1
          BY <1>11, SeqFacts
        <4> QED BY <1>4, <4>1
      <3> QED BY <1>8, <1>11, <3>2, <3>3
    <2> QED BY <2>1, <2>2
  <1>16. Answered'
    <2>1. \A i \in Indexes :
            /\ (runs[i] = [latencies |-> runs[i].latencies, results |-> runs[i].results])'
            /\ (runs[i].latencies \in Seq(Nat))' /\ IsSeq(runs[i].results)'
            /\ (Len(runs[i].latencies) = Answers(i))' /\ (Len(runs[i].results) = Answers(i))'
      BY <1>10, <1>13 DEF IsSeq, Elements
    <2>2. ~fault' => \A i \in Indexes : \A q \in 1 .. Answers(i)' :
                       (runs[i].results[q] = Proper(i, queries[q]))'
      BY <1>12, <1>14
    <2>3. fault' => \E i \in Indexes : \E q \in (DOMAIN runs[i].results)' :
                      ~ValidNeighbors(runs[i].results[q])'
      <3> SUFFICES ASSUME fault'
                   PROVE  \E i \in Indexes : \E q \in (DOMAIN runs[i].results)' :
                            ~ValidNeighbors(runs[i].results[q])'
        OBVIOUS
      <3>1. PICK i \in Indexes : \E q \in DOMAIN runs'[i].results :
              ~ValidNeighbors(runs'[i].results[q])
        BY <1>15
      <3>2. PICK q \in DOMAIN runs'[i].results : ~ValidNeighbors(runs'[i].results[q])
        BY <3>1
      <3>3. UNCHANGED base
        BY <1>1 DEF loadVars
      <3> QED BY <3>2, <3>3 DEF ValidNeighbors
    <2> QED BY <1>10, <2>1, <2>2, <2>3 DEF Answered
  <1>17. completed' \in Nat /\ completed' <= Total /\ (completed' = Total => offset' = 0)
    BY <1>1, <1>4, <1>5
  <1>18. fault' \in BOOLEAN
    BY <1>3, <1>4
  <1> QED BY <1>1, <1>4, <1>7, <1>12, <1>16, <1>17, <1>18

-----------------------------------------------------------------------------
(* The arithmetic of the report.                                           *)

(* So many of a list of other rows are among those returned.               *)
LEMMA OverlapBound ==
  ASSUME NEW n \in Nat, NEW k \in Nat, NEW rows, DOMAIN rows = 1 .. n,
         NEW exact, DOMAIN exact = 1 .. k,
         \A i, j \in 1 .. k : exact[i] = exact[j] => i = j
  PROVE  /\ Overlap(rows, exact) \in Nat
         /\ Overlap(rows, exact) <= n /\ Overlap(rows, exact) <= k
         /\ Elements(exact) \subseteq Elements(rows) => Overlap(rows, exact) = k
         /\ n = k /\ Overlap(rows, exact) = k => Elements(exact) = Elements(rows)
  <1> DEFINE I == 1 .. k
             N == 1 .. n
             R == Elements(rows)
             E == Elements(exact)
             S == {i \in DOMAIN exact : exact[i] \in R}
             f == [i \in S |-> exact[i]]
             g == [i \in N |-> rows[i]]
  <1>1. /\ IsFiniteSet(I) /\ Cardinality(I) = k
        /\ IsFiniteSet(N) /\ Cardinality(N) = n
    BY FS_Interval
  <1>2. S \subseteq I /\ IsFiniteSet(S) /\ Cardinality(S) \in Nat /\ Cardinality(S) <= k
        /\ (Cardinality(S) = k => S = I)
    <2>1. S \in SUBSET I
      OBVIOUS
    <2> HIDE DEF S, I
    <2> QED BY <1>1, <2>1, FS_Subset, FS_CardinalityType
  <1>3. IsFiniteSet(R) /\ Cardinality(R) \in Nat /\ Cardinality(R) <= n
    <2>1. g \in Surjection(N, R)
      BY DEF Surjection, Elements
    <2> HIDE DEF g, N, R
    <2> QED BY <1>1, <2>1, FS_Surjection, FS_CardinalityType
  <1>4. Cardinality(S) <= Cardinality(R)
    <2>1. f \in Injection(S, R)
      BY DEF Injection, IsInjective
    <2> HIDE DEF f, S, R
    <2> QED BY <1>3, <2>1, FS_Injection
  <1>5. Overlap(rows, exact) = Cardinality(S)
    BY DEF Overlap
  <1>6. E \subseteq R => S = I
    BY DEF Elements
  <1>7. S = I => E \subseteq R
    BY DEF Elements
  <1>8. IsFiniteSet(E) /\ Cardinality(E) = k
    <2> DEFINE h == [i \in I |-> exact[i]]
    <2>1. DOMAIN h = I /\ (\A i, j \in I : h[i] = h[j] => i = j) /\ E = {h[i] : i \in I}
      BY DEF Elements
    <2> HIDE DEF h, I, E
    <2> QED BY <1>1, <2>1, FiniteImage
  <1> HIDE DEF S, R, E, I, N, f, g
  <1>9. n = k /\ Cardinality(S) = k => E = R
    <2> SUFFICES ASSUME n = k, Cardinality(S) = k PROVE E = R
      OBVIOUS
    <2>1. E \in SUBSET R
      BY <1>2, <1>7
    <2>2. Cardinality(R) = Cardinality(E)
      BY <1>3, <1>4, <1>8
    <2> QED BY <1>3, <2>1, <2>2, FS_Subset
  <1> QED BY <1>1, <1>2, <1>3, <1>4, <1>5, <1>6, <1>9 DEF R, E

Under(n, k, f) == {hit \in (1 .. n) \X (1 .. k) : hit[2] <= f[hit[1]]}

(* Counting, column by column, the places below a bound of the column.     *)
LEMMA Grid ==
  ASSUME NEW n \in Nat, NEW k \in Nat \ {0}, NEW c \in 0 .. k, NEW f,
         \A q \in 1 .. n : f[q] \in Nat /\ f[q] <= c
  PROVE  /\ Cardinality(Under(n, k, f)) <= c * n
         /\ Cardinality(Under(n, k, f)) = n * k <=> \A q \in 1 .. n : f[q] = k
  <1> DEFINE N == 1 .. n
             I == 1 .. k
             S == {hit \in N \X I : hit[2] <= f[hit[1]]}
  <1>1. /\ IsFiniteSet(N) /\ Cardinality(N) = n
        /\ IsFiniteSet(I) /\ Cardinality(I) = k
        /\ IsFiniteSet(1 .. c) /\ Cardinality(1 .. c) = c
    BY FS_Interval
  <1>2. Cardinality(S) <= c * n
    <2> DEFINE D == 1 .. c
    <2>1. S \subseteq N \X D
      <3> SUFFICES ASSUME NEW hit \in S PROVE hit \in N \X D
        OBVIOUS
      <3>1. hit[1] \in N /\ hit[2] \in I /\ hit = <<hit[1], hit[2]>> /\ hit[2] <= f[hit[1]]
        OBVIOUS
      <3>2. hit[2] \in D
        BY <3>1
      <3> QED BY <3>1, <3>2
    <2>2. IsFiniteSet(N \X D) /\ Cardinality(N \X D) = n * c
      <3> HIDE DEF N
      <3>1. IsFiniteSet(D) /\ Cardinality(D) = c
        BY <1>1
      <3> HIDE DEF D
      <3> QED BY <1>1, <3>1, FS_Product
    <2> HIDE DEF S, N, D
    <2>3. Cardinality(S) <= n * c
      BY <2>1, <2>2, FS_Subset
    <2>4. n * c = c * n
      OBVIOUS
    <2> QED BY <2>3, <2>4
  <1>3. IsFiniteSet(N \X I) /\ Cardinality(N \X I) = n * k
    <2> HIDE DEF N, I
    <2> QED BY <1>1, FS_Product
  <1>4. Cardinality(S) = n * k <=> S = N \X I
    <2>1. S \in SUBSET (N \X I)
      OBVIOUS
    <2> HIDE DEF S, N, I
    <2> QED BY <1>3, <2>1, FS_Subset
  <1>5. S = N \X I <=> \A q \in N : f[q] = k
    <2>1. ASSUME S = N \X I, NEW q \in N PROVE f[q] = k
      <3>1. <<q, k>> \in S
        BY <2>1
      <3>2. k <= f[q]
        BY <3>1
      <3> QED BY <3>2
    <2>2. ASSUME \A q \in N : f[q] = k, NEW hit \in N \X I PROVE hit \in S
      <3>1. hit[1] \in N /\ hit[2] \in I
        OBVIOUS
      <3> QED BY <2>2, <3>1
    <2> QED BY <2>1, <2>2
  <1> QED BY <1>2, <1>4, <1>5 DEF Under

GridFact(n, k, c, f) ==
  (\A q \in 1 .. n : f[q] \in Nat /\ f[q] <= c) =>
    /\ Cardinality(Under(n, k, f)) <= c * n
    /\ Cardinality(Under(n, k, f)) = n * k <=> \A q \in 1 .. n : f[q] = k

(* Grid as a formula, for functions defined in place.                      *)
LEMMA GridFacts ==
  \A n \in Nat : \A k \in Nat \ {0} : \A c \in 0 .. k : \A f : GridFact(n, k, c, f)
  BY Grid DEF GridFact

(* The times before one when a list is sorted.                             *)
TimesBefore(t, i) == {m \in DOMAIN t : t[m] < t[i] \/ (t[m] = t[i] /\ m < i)}

(* A sorted list has, at each place, a time with as many before it.        *)
LEMMA SortedPlace ==
  ASSUME NEW n \in Nat, NEW t \in [1 .. n -> Nat]
  PROVE  /\ Sorted(t) \in [1 .. n -> Nat] /\ Len(Sorted(t)) = n
         /\ \A place \in 1 .. n : \E i \in 1 .. n :
              Sorted(t)[place] = t[i] /\ Cardinality(TimesBefore(t, i)) = place - 1
  <1> DEFINE N == 1 .. n
             Before == [i \in N |-> {m \in N : t[m] < t[i] \/ (t[m] = t[i] /\ m < i)}]
             at == [place \in N |-> CHOOSE i \in N : Cardinality(Before[i]) = place - 1]
  <1>1. IsFiniteSet(N) /\ Cardinality(N) = n
    BY FS_Interval
  <1>2. IsOrder(N, Before)
    <2>1. \A i \in N : t[i] \in Nat
      OBVIOUS
    <2> QED BY <2>1 DEF IsOrder
  <1>3. Sorted(t) = [place \in N |-> t[at[place]]]
    <2> DEFINE Earlier(i) == {m \in N : t[m] < t[i] \/ (t[m] = t[i] /\ m < i)}
    <2>1. DOMAIN t = N
      OBVIOUS
    <2>2. Sorted(t) = [place \in N |-> t[CHOOSE i \in N : Cardinality(Earlier(i)) = place - 1]]
      BY <2>1 DEF Sorted
    <2>3. \A i \in N : Before[i] = Earlier(i)
      OBVIOUS
    <2> HIDE DEF Earlier, Before
    <2>4. \A place \in N :
            at[place] = CHOOSE i \in N : Cardinality(Earlier(i)) = place - 1
      BY <2>3
    <2> HIDE DEF at, N
    <2> QED BY <2>2, <2>4
  <1>4. ASSUME NEW place \in N
        PROVE  at[place] \in N /\ Cardinality(Before[at[place]]) = place - 1
    <2>1. \A p \in 0 .. Cardinality(N) - 1 : \E i \in N : Cardinality(Before[i]) = p
      <3> HIDE DEF N, Before
      <3>1. IsFiniteSet(N)
        BY <1>1
      <3> QED BY <3>1, <1>2, Ranks
    <2>2. place - 1 \in 0 .. Cardinality(N) - 1
      BY <1>1
    <2> HIDE DEF Before
    <2>3. \E i \in N : Cardinality(Before[i]) = place - 1
      BY <2>1, <2>2
    <2> QED BY <2>3
  <1> HIDE DEF at
  <1>5. Sorted(t) \in [1 .. n -> Nat]
    BY <1>3, <1>4
  <1>6. Len(Sorted(t)) = n
    BY <1>5, LengthOf
  <1>7. ASSUME NEW place \in 1 .. n
        PROVE  \E i \in 1 .. n :
                 Sorted(t)[place] = t[i] /\ Cardinality(TimesBefore(t, i)) = place - 1
    <2> DEFINE i == at[place]
    <2>1. i \in N /\ Cardinality(Before[i]) = place - 1
      BY <1>4
    <2>2. Sorted(t)[place] = t[i]
      BY <1>3
    <2> HIDE DEF i
    <2>3. Before[i] = TimesBefore(t, i)
      BY <2>1 DEF TimesBefore
    <2> HIDE DEF Before
    <2> QED BY <2>1, <2>2, <2>3
  <1> QED BY <1>5, <1>6, <1>7

(* The nearest rank: so many percent of the times are not greater, and     *)
(* fewer are smaller.                                                      *)
LEMMA NearestRank ==
  ASSUME NEW n \in Nat \ {0}, NEW t \in [1 .. n -> Nat], NEW percent \in 1 .. 100
  PROVE  IsRank(Percentile(Sorted(t), percent), percent, t)
  <1> DEFINE x    == percent * n + 99
             rank == x \div 100
             p    == Percentile(Sorted(t), percent)
             N    == 1 .. n
  <1>1. /\ percent * n \in Nat /\ percent * n >= 1 /\ percent * n <= 100 * n
    <2>1. percent * n >= 1 * n
      OBVIOUS
    <2> QED BY <2>1
  <1>2. x \in Nat /\ x >= 100 /\ x <= 100 * n + 99
    BY <1>1
  <1>3. rank \in Nat /\ rank * 100 <= x /\ x <= rank * 100 + 99
    <2> HIDE DEF x
    <2> QED BY <1>2
  <1> HIDE DEF x, rank
  <1>4. rank \in 1 .. n
    BY <1>2, <1>3
  <1>5. 100 * rank >= percent * n /\ 100 * (rank - 1) < percent * n
    BY <1>1, <1>3 DEF x
  <1>6. Len(Sorted(t)) = n
    BY SortedPlace
  <1>7. p = Sorted(t)[rank]
    <2>1. MaxOf({rank - 1, 0}) = rank - 1
      BY <1>4 DEF MaxOf
    <2>2. MinOf({rank - 1, n - 1}) = rank - 1
      BY <1>4 DEF MinOf
    <2>3. p = Sorted(t)[MinOf({MaxOf({rank - 1, 0}), n - 1}) + 1]
      BY <1>6 DEF Percentile, rank, x
    <2>4. (rank - 1) + 1 = rank
      BY <1>4
    <2> HIDE DEF p
    <2> QED BY <2>1, <2>2, <2>3, <2>4
  <1> HIDE DEF p
  <1>8. PICK i \in N :
          p = t[i] /\ Cardinality(TimesBefore(t, i)) = rank - 1
    <2>1. \A place \in 1 .. n : \E i \in 1 .. n :
            Sorted(t)[place] = t[i] /\ Cardinality(TimesBefore(t, i)) = place - 1
      BY SortedPlace
    <2> QED BY <1>4, <1>7, <2>1
  <1> DEFINE B == {m \in N : t[m] < t[i] \/ (t[m] = t[i] /\ m < i)}
             Low == {m \in N : t[m] < p}
             Up == {m \in N : t[m] <= p}
  <1>9. IsFiniteSet(N)
    BY FS_Interval
  <1>10. /\ B \subseteq N /\ Low \subseteq B /\ Up \subseteq N
         /\ B \cup {i} \subseteq Up /\ i \notin B
    BY <1>8
  <1>11. Cardinality(B) = rank - 1
    BY <1>8 DEF TimesBefore
  <1>12. DOMAIN t = N /\ p \in Elements(t)
    BY <1>8 DEF Elements
  <1>13. Low = {q \in DOMAIN t : t[q] < p} /\ Up = {q \in DOMAIN t : t[q] <= p}
    OBVIOUS
  <1> HIDE DEF B, Low, Up, N
  <1>14. /\ IsFiniteSet(B) /\ IsFiniteSet(Low) /\ IsFiniteSet(Up)
         /\ Cardinality(Low) \in Nat /\ Cardinality(Up) \in Nat
    BY <1>9, <1>10, FS_Subset, FS_CardinalityType
  <1>15. Cardinality(Low) <= rank - 1
    BY <1>10, <1>11, <1>14, FS_Subset
  <1>16. Cardinality(Up) >= rank
    <2>1. IsFiniteSet(B \cup {i}) /\ Cardinality(B \cup {i}) = (rank - 1) + 1
      BY <1>10, <1>11, <1>14, FS_AddElement
    <2>2. Cardinality(B \cup {i}) <= Cardinality(Up)
      BY <1>10, <1>14, FS_Subset
    <2> QED BY <1>4, <1>14, <2>1, <2>2
  <1>17. Len(t) = n
    BY LengthOf
  <1>18. 100 * Cardinality(Up) >= percent * n
    BY <1>1, <1>4, <1>5, <1>14, <1>16
  <1>19. 100 * Cardinality(Low) < percent * n
    BY <1>1, <1>4, <1>5, <1>14, <1>15
  <1> QED BY <1>12, <1>13, <1>17, <1>18, <1>19 DEF IsRank, p

-----------------------------------------------------------------------------
(* The report of a timed pass that is over.                                *)
HitQueries(run, rank) ==
  {q \in DOMAIN run.results : FirstHit(RowsOf(run.results[q]), exact_top_100[q][1], rank)}

LengthsOf(run) == {Len(RowsOf(run.results[q])) : q \in DOMAIN run.results}

OverlapOf(run, q) == Overlap(RowsOf(run.results[q]), exact_top_100[q])

(* The numbers of an index, as counts of places and lists.                 *)
LEMMA SummaryFields ==
  ASSUME NEW run, NEW n \in Nat, DOMAIN run.results = 1 .. n
  PROVE  LET m == Summarize(run)
         IN  /\ m.r1 = Cardinality(HitQueries(run, RANKS[1]))
             /\ m.r10 = Cardinality(HitQueries(run, RANKS[2]))
             /\ m.r100 = Cardinality(HitQueries(run, RANKS[3]))
             /\ m.overlap_at_100 =
                  Cardinality(Under(n, K, [q \in 1 .. n |-> OverlapOf(run, q)]))
             /\ m.returned_min = MinOf(LengthsOf(run)) /\ m.returned_max = MaxOf(LengthsOf(run))
             /\ m.p50 = Percentile(Sorted(run.latencies), 50)
             /\ m.p99 = Percentile(Sorted(run.latencies), 99)
  <1> DEFINE rows == [q \in DOMAIN run.results |-> RowsOf(run.results[q])]
             Hit(rank) == {q \in DOMAIN rows : FirstHit(rows[q], exact_top_100[q][1], rank)}
             Overlaps == {hit \in (DOMAIN rows) \X (1 .. K) :
                            hit[2] <= Overlap(rows[hit[1]], exact_top_100[hit[1]])}
             lengths == {Len(rows[q]) : q \in DOMAIN rows}
  <1>1. /\ Summarize(run).r1 = Cardinality(Hit(RANKS[1]))
        /\ Summarize(run).r10 = Cardinality(Hit(RANKS[2]))
        /\ Summarize(run).r100 = Cardinality(Hit(RANKS[3]))
        /\ Summarize(run).overlap_at_100 = Cardinality(Overlaps)
        /\ Summarize(run).returned_min = MinOf(lengths)
        /\ Summarize(run).returned_max = MaxOf(lengths)
        /\ Summarize(run).p50 = Percentile(Sorted(run.latencies), 50)
        /\ Summarize(run).p99 = Percentile(Sorted(run.latencies), 99)
    BY DEF Summarize
  <1>2. DOMAIN rows = 1 .. n /\ \A q \in 1 .. n : rows[q] = RowsOf(run.results[q])
    OBVIOUS
  <1> HIDE DEF rows
  <1>3. \A rank : Hit(rank) = HitQueries(run, rank)
    BY <1>2 DEF HitQueries
  <1>4. Overlaps = Under(n, K, [q \in 1 .. n |-> OverlapOf(run, q)])
    BY <1>2 DEF OverlapOf, Under
  <1>5. lengths = LengthsOf(run)
    BY <1>2 DEF LengthsOf
  <1> HIDE DEF Hit, Overlaps, lengths
  <1> QED BY <1>1, <1>3, <1>4, <1>5

(* The numbers of an index all of whose answers are of one length, and     *)
(* whose rows are measured by lists of K other rows each.                  *)
LEMMA SummaryFacts ==
  ASSUME NEW run, NEW n \in Nat \ {0}, DOMAIN run.results = 1 .. n,
         NEW size \in 1 .. K,
         \A q \in 1 .. n : /\ Len(RowsOf(run.results[q])) = size
                          /\ DOMAIN RowsOf(run.results[q]) = 1 .. size
                          /\ DOMAIN exact_top_100[q] = 1 .. K
                          /\ \A i, j \in 1 .. K :
                               exact_top_100[q][i] = exact_top_100[q][j] => i = j
  PROVE  LET m == Summarize(run)
         IN  /\ m.r1 \in Nat /\ m.r10 \in Nat /\ m.r100 \in Nat
             /\ m.r1 <= m.r10 /\ m.r10 <= m.r100 /\ m.r100 <= n
             /\ m.r1 = n => \A q \in 1 .. n : RowsOf(run.results[q])[1] = exact_top_100[q][1]
             /\ (\A q \in 1 .. n : RowsOf(run.results[q])[1] = exact_top_100[q][1]) => m.r1 = n
             /\ m.returned_min = size /\ m.returned_max = size
             /\ m.overlap_at_100 <= size * n
             /\ m.overlap_at_100 = n * K <=> \A q \in 1 .. n : OverlapOf(run, q) = K
  <1> DEFINE m == Summarize(run)
             N == 1 .. n
             H(j) == HitQueries(run, RANKS[j])
             f == [q \in 1 .. n |-> OverlapOf(run, q)]
  <1>0. K \in Nat \ {0}
    BY FileSizes
  <1>1. /\ m.r1 = Cardinality(H(1)) /\ m.r10 = Cardinality(H(2)) /\ m.r100 = Cardinality(H(3))
        /\ m.overlap_at_100 = Cardinality(Under(n, K, f))
        /\ m.returned_min = MinOf(LengthsOf(run)) /\ m.returned_max = MaxOf(LengthsOf(run))
    BY SummaryFields
  <1> HIDE DEF m
  <1>2. IsFiniteSet(N) /\ Cardinality(N) = n
    BY FS_Interval
  <1>3. H(1) \subseteq H(2) /\ H(2) \subseteq H(3) /\ H(3) \subseteq N
    <2>1. /\ RANKS[1] \in Nat /\ RANKS[2] \in Nat /\ RANKS[3] \in Nat
          /\ RANKS[1] < RANKS[2] /\ RANKS[2] < RANKS[3]
      BY RecallAssumption
    <2>2. ASSUME NEW a \in Nat, NEW b \in Nat, a < b
          PROVE  HitQueries(run, a) \subseteq HitQueries(run, b)
      <3> SUFFICES ASSUME NEW q \in HitQueries(run, a) PROVE q \in HitQueries(run, b)
        OBVIOUS
      <3> DEFINE results == RowsOf(run.results[q])
      <3>1. q \in N /\ FirstHit(results, exact_top_100[q][1], a)
        BY DEF HitQueries
      <3>2. DOMAIN results = 1 .. size
        BY <3>1
      <3> HIDE DEF results
      <3>3. PICK i \in 1 .. size : i <= a /\ results[i] = exact_top_100[q][1]
        BY <3>1, <3>2 DEF FirstHit
      <3>4. FirstHit(results, exact_top_100[q][1], b)
        BY <2>2, <3>2, <3>3 DEF FirstHit
      <3> QED BY <3>1, <3>4 DEF HitQueries, results
    <2>3. H(3) \subseteq N
      BY DEF HitQueries
    <2> QED BY <2>1, <2>2, <2>3
  <1>4. H(1) = N <=> \A q \in N : RowsOf(run.results[q])[1] = exact_top_100[q][1]
    <2>1. RANKS[1] = 1
      BY RecallAssumption
    <2>2. ASSUME NEW q \in N
          PROVE  q \in H(1) <=> RowsOf(run.results[q])[1] = exact_top_100[q][1]
      <3> DEFINE results == RowsOf(run.results[q])
      <3>1. DOMAIN results = 1 .. size
        BY <2>2
      <3>2. q \in H(1) <=> FirstHit(results, exact_top_100[q][1], 1)
        BY <2>1 DEF HitQueries
      <3> HIDE DEF results
      <3>3. 1 \in 1 .. size /\ \A i \in 1 .. size : i <= 1 => i = 1
        BY <1>0
      <3>4. FirstHit(results, exact_top_100[q][1], 1) <=> results[1] = exact_top_100[q][1]
        BY <3>1, <3>3 DEF FirstHit
      <3> QED BY <3>2, <3>4 DEF results
    <2>3. H(1) \subseteq N
      BY <1>3
    <2> HIDE DEF H
    <2> QED BY <2>2, <2>3
  <1> HIDE DEF H, N
  <1>5. /\ m.r1 \in Nat /\ m.r10 \in Nat /\ m.r100 \in Nat
        /\ m.r1 <= m.r10 /\ m.r10 <= m.r100 /\ m.r100 <= n
        /\ m.r1 = n <=> H(1) = N
    <2>1. IsFiniteSet(H(3)) /\ Cardinality(H(3)) \in Nat /\ Cardinality(H(3)) <= n
      BY <1>2, <1>3, FS_Subset, FS_CardinalityType
    <2>2. /\ IsFiniteSet(H(2)) /\ Cardinality(H(2)) \in Nat
          /\ Cardinality(H(2)) <= Cardinality(H(3))
      BY <1>3, <2>1, FS_Subset, FS_CardinalityType
    <2>3. /\ Cardinality(H(1)) \in Nat /\ Cardinality(H(1)) <= Cardinality(H(2))
      BY <1>3, <2>2, FS_Subset, FS_CardinalityType
    <2>4. Cardinality(H(1)) = n <=> H(1) = N
      <3>1. H(1) \in SUBSET N
        BY <1>3
      <3> QED BY <1>2, <3>1, FS_Subset
    <2> QED BY <1>1, <2>1, <2>2, <2>3, <2>4
  <1>6. m.returned_min = size /\ m.returned_max = size
    <2>1. LengthsOf(run) = {size}
      BY DEF LengthsOf
    <2>2. MinOf({size}) = size /\ MaxOf({size}) = size
      BY <1>0 DEF MinOf, MaxOf
    <2> QED BY <1>1, <2>1, <2>2
  <1>7. /\ m.overlap_at_100 <= size * n
        /\ m.overlap_at_100 = n * K <=> \A q \in 1 .. n : OverlapOf(run, q) = K
    <2>2. \A q \in 1 .. n : f[q] \in Nat /\ f[q] <= size
      <3> SUFFICES ASSUME NEW q \in 1 .. n
                   PROVE  OverlapOf(run, q) \in Nat /\ OverlapOf(run, q) <= size
        OBVIOUS
      <3> DEFINE results == RowsOf(run.results[q])
                 exact == exact_top_100[q]
      <3>1. /\ DOMAIN results = 1 .. size /\ DOMAIN exact = 1 .. K
            /\ \A i, j \in 1 .. K : exact[i] = exact[j] => i = j
            /\ size \in Nat
        BY <1>0
      <3>2. OverlapOf(run, q) = Overlap(results, exact)
        BY DEF OverlapOf
      <3> HIDE DEF results, exact
      <3>3. /\ Overlap(results, exact) \in Nat
            /\ Overlap(results, exact) <= size
        <4>1. K \in Nat
          BY <1>0
        <4> HIDE DEF m, H
        <4> QED BY <3>1, <4>1, OverlapBound
      <3> QED BY <3>2, <3>3
    <2>3. \A q \in 1 .. n : f[q] = OverlapOf(run, q)
      OBVIOUS
    <2>4. size \in 0 .. K
      BY <1>0
    <2> HIDE DEF f
    <2>5. /\ Cardinality(Under(n, K, f)) <= size * n
          /\ Cardinality(Under(n, K, f)) = n * K <=> \A q \in 1 .. n : f[q] = K
      <3>1. \A q \in 1 .. n : f[q] \in Nat /\ f[q] <= size
        BY <2>2
      <3>2. GridFact(n, K, size, f)
        BY <1>0, <2>4, GridFacts
      <3> QED BY <3>1, <3>2 DEF GridFact
    <2> QED BY <1>1, <2>3, <2>5
  <1> QED BY <1>4, <1>5, <1>6, <1>7 DEF m, N

-----------------------------------------------------------------------------
(* The answers, the truth and the report once the timed pass is over.      *)

(* A run that is over has an answer for every query.                       *)
LEMMA FinishedRun ==
  ASSUME LoadInv, PassInv, pc \in Timing, completed = Total, NEW i \in Indexes
  PROVE  /\ DOMAIN runs[i].results = 1 .. Total /\ Len(runs[i].results) = Total
         /\ runs[i].latencies \in [1 .. Total -> Nat] /\ Len(runs[i].latencies) = Total
         /\ ~fault => \A q \in 1 .. Total : runs[i].results[q] = Proper(i, queries[q])
  <1>1. Answered /\ offset = 0
    BY DEF PassInv
  <1>2. Answers(i) = Total
    BY <1>1 DEF Answers, HadTurn
  <1>3. /\ runs[i].latencies \in Seq(Nat) /\ IsSeq(runs[i].results)
        /\ Len(runs[i].latencies) = Total /\ Len(runs[i].results) = Total
        /\ ~fault => \A q \in 1 .. Total : runs[i].results[q] = Proper(i, queries[q])
    BY <1>1, <1>2 DEF Answered
  <1> QED BY <1>3, SeqFacts, LenProperties

(* The truth of a query is a list of K rows, each another one.             *)
LEMMA TruthRows ==
  ASSUME LoadInv, pc \in Running \ Reading, NEW q \in 1 .. Total
  PROVE  /\ DOMAIN TruthOf(q) = 1 .. K /\ Len(TruthOf(q)) = K
         /\ \A i, j \in 1 .. K : TruthOf(q)[i] = TruthOf(q)[j] => i = j
  <1> DEFINE exact == FlatSearch(queries[q], K)
             rows  == RowsOf(exact)
  <1>1. K \in Nat /\ DataOK /\ queries[q] \in Vector /\ GoodIds(truth_file[q])
    BY Loaded, FileSizes
  <1>2. IsExact(exact, Data, queries[q], K)
    BY <1>1, FlatIsExact DEF DataOK
  <1> HIDE DEF exact
  <1>3. DOMAIN exact = 1 .. K /\ \A i, j \in 1 .. K : i < j => exact[i].row # exact[j].row
    BY <1>2 DEF IsExact
  <1>4. DOMAIN rows = 1 .. K /\ \A i \in 1 .. K : rows[i] = exact[i].row
    BY <1>3 DEF RowsOf
  <1> HIDE DEF rows
  <1>5. \A i, j \in 1 .. K : rows[i] = rows[j] => i = j
    <2> SUFFICES ASSUME NEW i \in 1 .. K, NEW j \in 1 .. K, rows[i] = rows[j], i # j
                 PROVE  FALSE
      OBVIOUS
    <2>1. i < j \/ j < i
      OBVIOUS
    <2> QED BY <1>3, <1>4, <2>1
  <1>6. Len(rows) = K
    <2>1. rows \in [1 .. K -> {rows[i] : i \in 1 .. K}]
      BY <1>4 DEF rows, RowsOf
    <2> QED BY <1>1, <2>1, LengthOf
  <1>7. CASE mode = "full"
    <2>1. TruthOf(q) = truth_file[q]
      BY <1>7 DEF TruthOf
    <2>2. /\ truth_file[q] \in [1 .. K -> 0 .. BASE_ROWS - 1]
          /\ \A i, j \in 1 .. K : truth_file[q][i] = truth_file[q][j] => i = j
      BY <1>1 DEF GoodIds, K
    <2> QED BY <1>1, <2>1, <2>2, LengthOf
  <1>8. CASE mode # "full"
    <2>1. TruthOf(q) = rows
      BY <1>8 DEF TruthOf, rows, exact
    <2> QED BY <1>4, <1>5, <1>6, <2>1
  <1> QED BY <1>7, <1>8

(* validate_run accepts every run just when nothing went wrong.            *)
LEMMA RunsAccepted ==
  ASSUME LoadInv, TruthInv, PassInv, pc = "timed", completed = Total
  PROVE  (\A i \in Indexes : ValidRun(runs[i])) <=> ~fault
  <1>1. /\ pc \in Running \ Reading /\ pc \in Timing
        /\ Answered /\ Selected(Total)
    BY DEF PassInv, TruthInv, Timing, Running, Reading
  <1>2. /\ DataOK /\ Total \in Nat /\ Total > 0
        /\ \A q \in 1 .. Total : queries[q] \in Vector
    BY <1>1, Loaded
  <1>3. ASSUME fault, \A i \in Indexes : ValidRun(runs[i])
        PROVE  FALSE
    <2>1. PICK i \in Indexes : \E q \in DOMAIN runs[i].results :
            ~ValidNeighbors(runs[i].results[q])
      BY <1>1, <1>3 DEF Answered
    <2> QED BY <1>3, <2>1 DEF ValidRun
  <1>4. ASSUME ~fault, NEW i \in Indexes
        PROVE  ValidRun(runs[i])
    <2>1. /\ DOMAIN runs[i].results = 1 .. Total /\ Len(runs[i].results) = Total
          /\ Len(runs[i].latencies) = Total
          /\ \A q \in 1 .. Total : runs[i].results[q] = Proper(i, queries[q])
      BY <1>1, <1>4, FinishedRun
    <2>2. \A q \in 1 .. Total : ValidNeighbors(runs[i].results[q])
      BY <1>2, <2>1, ProperAnswer
    <2>3. Len(exact_top_100) = Total /\ DOMAIN exact_top_100 = 1 .. Total
      BY <1>1, SeqFacts DEF Selected
    <2>4. \A q \in 1 .. Total : Len(exact_top_100[q]) = K
      <3>1. \A q \in 1 .. Total : exact_top_100[q] = TruthOf(q)
        BY <1>1 DEF Selected
      <3>2. \A q \in 1 .. Total : Len(TruthOf(q)) = K
        BY <1>1, TruthRows
      <3> QED BY <3>1, <3>2
    <2> QED BY <1>2, <2>1, <2>2, <2>3, <2>4 DEF ValidRun
  <1> QED BY <1>3, <1>4

-----------------------------------------------------------------------------
(* What an index that works is reported with.                              *)
Skip(i) == IF i \in Lossy THEN 1 ELSE 0

(* The numbers of an index when nothing went wrong.                        *)
LEMMA RunSummary ==
  ASSUME LoadInv, TruthInv, PassInv, pc \in Timing, completed = Total, ~fault,
         NEW i \in Indexes
  PROVE  LET m == Summarize(runs[i])
         IN  /\ m.r1 \in Nat /\ m.r10 \in Nat /\ m.r100 \in Nat
             /\ m.r1 <= m.r10 /\ m.r10 <= m.r100 /\ m.r100 <= Total
             /\ m.r1 = Total => \A q \in 1 .. Total :
                                  RowsOf(runs[i].results[q])[1] = exact_top_100[q][1]
             /\ (\A q \in 1 .. Total :
                   RowsOf(runs[i].results[q])[1] = exact_top_100[q][1]) => m.r1 = Total
             /\ m.returned_min = K - Skip(i) /\ m.returned_max = K - Skip(i)
             /\ m.overlap_at_100 <= (K - Skip(i)) * Total
             /\ m.overlap_at_100 = Total * K
                  <=> \A q \in 1 .. Total : OverlapOf(runs[i], q) = K
             /\ IsRank(m.p50, 50, runs[i].latencies) /\ IsRank(m.p99, 99, runs[i].latencies)
  <1> DEFINE run == runs[i]
             size == K - Skip(i)
  <1>1. pc \in Running \ Reading /\ Selected(Total)
    BY DEF TruthInv, Timing, Running, Reading
  <1>2. /\ DataOK /\ Total \in Nat \ {0}
        /\ \A q \in 1 .. Total : queries[q] \in Vector
    BY <1>1, Loaded
  <1>3. /\ DOMAIN run.results = 1 .. Total /\ run.latencies \in [1 .. Total -> Nat]
        /\ \A q \in 1 .. Total : run.results[q] = Proper(i, queries[q])
    BY FinishedRun
  <1>4. size \in 1 .. K
    BY FileSizes, RecallAssumption DEF Skip
  <1> HIDE DEF run, size
  <1>5. ASSUME NEW q \in 1 .. Total
        PROVE  /\ Len(RowsOf(run.results[q])) = size
               /\ DOMAIN RowsOf(run.results[q]) = 1 .. size
               /\ DOMAIN exact_top_100[q] = 1 .. K
               /\ \A a, b \in 1 .. K : exact_top_100[q][a] = exact_top_100[q][b] => a = b
    <2> DEFINE answer == run.results[q]
    <2>1. DOMAIN answer = 1 .. size
      <3>1. DOMAIN Proper(i, queries[q]) = 1 .. size
        BY <1>2, ProperAnswer DEF size, Skip
      <3> QED BY <1>3, <3>1
    <2> HIDE DEF answer
    <2>2. RowsOf(answer) = [n \in 1 .. size |-> answer[n].row]
      BY <2>1 DEF RowsOf
    <2>3. Len(RowsOf(answer)) = size
      <3>1. RowsOf(answer) \in [1 .. size -> {answer[n].row : n \in 1 .. size}]
        BY <2>2
      <3> QED BY <1>4, <3>1, FileSizes, LengthOf
    <2>4. exact_top_100[q] = TruthOf(q)
      BY <1>1 DEF Selected
    <2> QED BY <1>1, <2>2, <2>3, <2>4, TruthRows DEF answer
  <1>6. LET m == Summarize(run)
        IN  /\ m.r1 \in Nat /\ m.r10 \in Nat /\ m.r100 \in Nat
            /\ m.r1 <= m.r10 /\ m.r10 <= m.r100 /\ m.r100 <= Total
            /\ m.r1 = Total => \A q \in 1 .. Total :
                                 RowsOf(run.results[q])[1] = exact_top_100[q][1]
            /\ (\A q \in 1 .. Total :
                  RowsOf(run.results[q])[1] = exact_top_100[q][1]) => m.r1 = Total
            /\ m.returned_min = size /\ m.returned_max = size
            /\ m.overlap_at_100 <= size * Total
            /\ m.overlap_at_100 = Total * K <=> \A q \in 1 .. Total : OverlapOf(run, q) = K
    BY <1>2, <1>3, <1>4, <1>5, SummaryFacts
  <1>7. LET m == Summarize(run)
        IN  IsRank(m.p50, 50, run.latencies) /\ IsRank(m.p99, 99, run.latencies)
    <2> DEFINE m == Summarize(run)
    <2>1. /\ m.p50 = Percentile(Sorted(run.latencies), 50)
          /\ m.p99 = Percentile(Sorted(run.latencies), 99)
      BY <1>2, <1>3, SummaryFields
    <2> HIDE DEF m
    <2> QED BY <1>2, <1>3, <2>1, NearestRank DEF m
  <1> QED BY <1>6, <1>7 DEF run, size

(* The flat index agrees with the selected truth just when the supplied    *)
(* truth names the rows that are nearest.                                  *)
LEMMA AgreesIfTrue ==
  ASSUME LoadInv, TruthInv, PassInv, pc = "timed", completed = Total, ~fault
  PROVE  Agrees(Summarize(runs[0])) <=> ~TruthDisagrees
  <1> DEFINE m == Summarize(runs[0])
             E(q) == RowsOf(FlatSearch(queries[q], K))
             T(q) == exact_top_100[q]
             Same(q) == E(q)[1] = T(q)[1] /\ Elements(E(q)) = Elements(T(q))
  <1>1. pc \in Timing /\ pc \in Running \ Reading /\ Selected(Total)
    BY DEF TruthInv, Timing, Running, Reading
  <1>2. 0 \in Indexes /\ Skip(0) = 0 /\ 0 \notin Lossy
    BY RecallAssumption DEF Indexes, Skip
  <1>3. /\ DataOK /\ Total \in Nat \ {0} /\ K \in Nat \ {0}
        /\ DOMAIN queries = 1 .. Total
        /\ \A q \in 1 .. Total : queries[q] \in Vector
    BY <1>1, Loaded, FileSizes
  <1>4. \A q \in 1 .. Total : RowsOf(runs[0].results[q]) = E(q)
    <2>1. \A q \in 1 .. Total : runs[0].results[q] = Proper(0, queries[q])
      BY <1>1, <1>2, FinishedRun
    <2>2. \A query : Proper(0, query) = FlatSearch(query, K)
      BY <1>2 DEF Proper
    <2> QED BY <2>1, <2>2
  <1>5. /\ m.r1 \in Nat /\ m.r10 \in Nat /\ m.r100 \in Nat
        /\ m.r1 <= m.r10 /\ m.r10 <= m.r100 /\ m.r100 <= Total
        /\ m.r1 = Total => \A q \in 1 .. Total :
                             RowsOf(runs[0].results[q])[1] = exact_top_100[q][1]
        /\ (\A q \in 1 .. Total :
              RowsOf(runs[0].results[q])[1] = exact_top_100[q][1]) => m.r1 = Total
        /\ m.returned_min = K - Skip(0) /\ m.returned_max = K - Skip(0)
        /\ m.overlap_at_100 = Total * K <=> \A q \in 1 .. Total : OverlapOf(runs[0], q) = K
    BY <1>1, <1>2, RunSummary
  <1> HIDE DEF m
  <1>6. ASSUME NEW q \in 1 .. Total
        PROVE  OverlapOf(runs[0], q) = K <=> Elements(E(q)) = Elements(T(q))
    <2> DEFINE rows == E(q)
               exact == T(q)
    <2>1. DOMAIN rows = 1 .. K
      <3>1. IsExact(FlatSearch(queries[q], K), Data, queries[q], K)
        BY <1>3, FlatIsExact DEF DataOK
      <3>2. DOMAIN FlatSearch(queries[q], K) = 1 .. K
        BY <3>1 DEF IsExact
      <3> QED BY <3>2 DEF RowsOf
    <2>2. /\ DOMAIN exact = 1 .. K
          /\ \A i, j \in 1 .. K : exact[i] = exact[j] => i = j
      <3>1. exact = TruthOf(q)
        BY <1>1 DEF Selected
      <3> QED BY <1>1, <3>1, TruthRows
    <2>3. OverlapOf(runs[0], q) = Overlap(rows, exact)
      BY <1>4 DEF OverlapOf
    <2> HIDE DEF rows, exact
    <2>4. /\ Elements(exact) \subseteq Elements(rows) => Overlap(rows, exact) = K
          /\ Overlap(rows, exact) = K => Elements(exact) = Elements(rows)
      BY <1>3, <2>1, <2>2, OverlapBound
    <2>5. Overlap(rows, exact) = K <=> Elements(rows) = Elements(exact)
      BY <2>4
    <2> QED BY <2>3, <2>5 DEF rows, exact
  <1>7. Agrees(m) <=> \A q \in 1 .. Total : Same(q)
    <2>1. Agrees(m) <=> m.r1 = Total /\ m.overlap_at_100 = Total * K
      BY <1>2, <1>3, <1>5 DEF Agrees
    <2>2. m.r1 = Total <=> \A q \in 1 .. Total : E(q)[1] = T(q)[1]
      BY <1>4, <1>5
    <2>3. m.overlap_at_100 = Total * K <=> \A q \in 1 .. Total : Elements(E(q)) = Elements(T(q))
      BY <1>5, <1>6
    <2> HIDE DEF E, T
    <2> QED BY <2>1, <2>2, <2>3
  <1>8. (\A q \in 1 .. Total : Same(q)) <=> ~TruthDisagrees
    <2>1. \A q \in 1 .. Total : T(q) = IF mode = "full" THEN truth_file[q] ELSE E(q)
      BY <1>1 DEF Selected, TruthOf
    <2>2. TruthDisagrees <=> /\ mode = "full"
                             /\ \E q \in 1 .. Total : \/ E(q)[1] # truth_file[q][1]
                                                     \/ Elements(E(q)) # Elements(truth_file[q])
      BY <1>3 DEF TruthDisagrees
    <2> HIDE DEF E, T
    <2> QED BY <2>1, <2>2
  <1> QED BY <1>7, <1>8 DEF m

-----------------------------------------------------------------------------
(* The parts of the invariant from step to step.                           *)
LEMMA TruthFixed ==
  ASSUME UNCHANGED <<loadVars, exact_top_100>>
  PROVE  \A n : Selected(n)' <=> Selected(n)
  <1> SUFFICES ASSUME NEW n PROVE Selected(n)' <=> Selected(n)
    OBVIOUS
  <1>1. \A q : TruthOf(q)' = TruthOf(q)
    BY DataFixed
  <1>2. exact_top_100' = exact_top_100
    OBVIOUS
  <1> QED BY <1>1, <1>2 DEF Selected, IsSeq, Elements

(* What the pass has done, when nothing is searched.                       *)
LEMMA PassFixed ==
  ASSUME UNCHANGED <<loadVars, completed, offset, runs, order, fault>>
  PROVE  /\ InOrderOfTurns' <=> InOrderOfTurns
         /\ Answered' <=> Answered
  <1>1. InOrderOfTurns' <=> InOrderOfTurns
    BY DEF InOrderOfTurns, IsSeq, Elements
  <1>2. \A i : Answers(i)' = Answers(i)
    BY DEF Answers
  <1>3. /\ \A i, q : (Proper(i, queries[q]))' = Proper(i, queries[q])
        /\ \A s : ValidNeighbors(s)' <=> ValidNeighbors(s)
    <2>1. UNCHANGED loadVars
      OBVIOUS
    <2> QED BY <2>1, DataFixed
  <1>4. runs' = runs /\ fault' = fault
    BY DEF loadVars
  <1> DEFINE Held ==
               /\ DOMAIN runs = Indexes
               /\ \A i \in Indexes :
                    /\ runs[i] = [latencies |-> runs[i].latencies, results |-> runs[i].results]
                    /\ runs[i].latencies \in Seq(Nat) /\ IsSeq(runs[i].results)
             Long(i) == Len(runs[i].latencies) = Answers(i) /\ Len(runs[i].results) = Answers(i)
             Right(i) == \A q \in 1 .. Answers(i) : runs[i].results[q] = Proper(i, queries[q])
             Wrong(i) == \E q \in DOMAIN runs[i].results : ~ValidNeighbors(runs[i].results[q])
  <1>5. Held' <=> Held
    BY <1>4 DEF IsSeq, Elements
  <1>6. \A i : Long(i)' <=> Long(i)
    BY <1>2, <1>4
  <1>7. \A i : Right(i)' <=> Right(i)
    BY <1>2, <1>3, <1>4
  <1>8. \A i : Wrong(i)' <=> Wrong(i)
    BY <1>3, <1>4 DEF ValidNeighbors, loadVars
  <1>9. Answered <=> /\ Held /\ \A i \in Indexes : Long(i) /\ (~fault => Right(i))
                     /\ fault => \E i \in Indexes : Wrong(i)
    BY DEF Answered
  <1>10. Answered' <=> /\ Held' /\ \A i \in Indexes : Long(i)' /\ (~fault' => Right(i)')
                       /\ fault' => \E i \in Indexes : Wrong(i)'
    BY DEF Answered
  <1> HIDE DEF Held, Long, Right, Wrong
  <1>11. Answered' <=> Answered
    BY <1>4, <1>5, <1>6, <1>7, <1>8, <1>9, <1>10
  <1> QED BY <1>1, <1>11

(* The numbers, when nothing is searched.                                  *)
LEMMA SummaryFixed ==
  ASSUME UNCHANGED <<exact_top_100, runs>>
  PROVE  [i \in Indexes |-> Summarize(runs[i])]' = [i \in Indexes |-> Summarize(runs[i])]
  BY DEF Summarize

(* While the files are read, nothing else is touched, and the reading only *)
(* fails when something is wrong with them.                                *)
LEMMA LoadFails ==
  ASSUME LoadInv, Load, pc' = "aborted"
  PROVE  fault'
  <1>1. CASE ParseArgs
    BY <1>1 DEF ParseArgs
  <1>2. CASE Open
    <2>1. PICK handle \in Handles :
            /\ fault' = (handle # GoodHandle)
            /\ IF OpenChecked(handle) # "none"
               THEN Abort(OpenChecked(handle)) /\ UNCHANGED progress
               ELSE /\ pc' = "read" /\ completed' = 0
                    /\ progress' \in Begin(progress, Label(file), Records(file), 0)
                    /\ UNCHANGED <<loadVars, error>>
      BY <1>2 DEF Open
    <2>2. OpenChecked(handle) # "none"
      BY <2>1
    <2>3. OpenChecked(GoodHandle) = "none"
      <3> DEFINE p == GoodHandle.open = "not_found"
                 q == GoodHandle.open = "denied"
                 r == GoodHandle.excess # 0
      <3>1. p \in BOOLEAN /\ q \in BOOLEAN /\ r \in BOOLEAN /\ ~p /\ ~q /\ ~r
        BY DEF GoodHandle
      <3>2. OpenChecked(GoodHandle) =
              FirstFailing(<< <<"missing", p>>, <<"io", q>>, <<"size", r>> >>)
        BY DEF OpenChecked
      <3> HIDE DEF p, q, r
      <3> QED BY <3>1, <3>2, ThreeChecks
    <2> QED BY <2>1, <2>2, <2>3
  <1>3. CASE ReadRecord
    <2> DEFINE payload == Contents(file)[completed + 1]
               good == GoodRecord(file, payload)
    <2>1. PICK rec \in {good} \cup Misreads(file, payload) :
            /\ fault' = (rec # good)
            /\ RecordError(file, rec) = "none" => pc' = pc
      BY <1>3 DEF ReadRecord
    <2>2. RecordError(file, rec) # "none"
      BY <1>3, <2>1 DEF ReadRecord
    <2>3. RecordError(file, good) = "none"
      <3>1. /\ file \in 1 .. 3 /\ truth_file \in TruthFiles
            /\ completed \in Nat /\ completed < Records(file) /\ Records(file) \in Nat
        BY <1>3, FileSizes DEF ReadRecord, LoadInv
      <3>2. completed + 1 \in 1 .. Records(file)
        BY <3>1
      <3> QED BY <3>1, <3>2, GoodRead
    <2> QED BY <2>1, <2>2, <2>3
  <1>4. CASE EndFile
    BY <1>4 DEF EndFile, Abort
  <1> QED BY <1>1, <1>2, <1>3, <1>4 DEF Load

(* A step of the loading.                                                  *)
LEMMA LoadStep ==
  ASSUME RecallInv, Load, UNCHANGED runVars
  PROVE  RecallInv'
  <1> USE DEF Reading, Preparing, Warming, Timing, Running
  <1>1. LoadInv'
    BY ArgsStep, OpenStep, ReadStep, EndFileStep DEF RecallInv, Load
  <1>2. pc \in Reading /\ pc' \in Reading \cup {"build", "usage", "aborted"}
    BY DEF Load, ParseArgs, Open, ReadRecord, EndFile, Abort
  <1>3. /\ built = 0 /\ exact_top_100 = <<>> /\ offset = 0
        /\ runs = NoRuns /\ order = <<>> /\ report = <<>> /\ clock \in Clocks
    BY <1>2 DEF RecallInv, TruthInv, PassInv, EndInv
  <1>4. /\ built' = 0 /\ exact_top_100' = <<>> /\ offset' = 0
        /\ runs' = NoRuns /\ order' = <<>> /\ report' = <<>> /\ clock' \in Clocks
    BY <1>3 DEF runVars
  <1>5. TruthInv'
    <2>1. 0 \in 0 .. C
      BY RecallAssumption DEF C
    <2> QED BY <1>2, <1>4, <2>1 DEF TruthInv
  <1>6. PassInv'
    BY <1>2, <1>4 DEF PassInv, NoRuns
  <1>7. EndInv'
    BY <1>2, <1>4, LoadFails DEF EndInv, RecallInv
  <1> QED BY <1>1, <1>5, <1>6, <1>7 DEF RecallInv

(* A build: the truth is selected after the first, and kept by the others. *)
LEMMA BuildStep ==
  ASSUME RecallInv, Build
  PROVE  RecallInv'
  <1> USE DEF Reading, Preparing, Warming, Timing, Running
  <1>1. /\ pc = "build" /\ built < C
        /\ UNCHANGED <<loadVars, completed, clock, exact_top_100, offset, runs, order, report>>
        /\ \/ built > 0 /\ fault' = TRUE /\ pc' = "aborted" /\ built' = built
           \/ /\ built' = built + 1 /\ fault' = fault
              /\ pc' = IF built = 0 THEN "select" ELSE pc
    BY DEF Build, Abort, C
  <1>2. /\ LoadInv /\ TruthInv /\ PassInv /\ EndInv
        /\ completed \in Nat /\ ~fault /\ fault \in BOOLEAN
        /\ built \in 0 .. C /\ C \in Nat
    BY <1>1, RecallAssumption DEF RecallInv, LoadInv, TruthInv, C
  <1>3. LoadInv'
    <2>1. /\ pc' \in {"aborted", "select", "build"} /\ completed' \in Nat
          /\ fault' \in BOOLEAN /\ pc' # "aborted" => ~fault'
      BY <1>1, <1>2
    <2> QED BY <1>1, <1>2, <2>1, LoadedStep
  <1>4. Total' = Total /\ \A n : Selected(n)' <=> Selected(n)
    BY <1>1, TruthFixed, DataFixed
  <1>5. built = 0 => exact_top_100 = <<>>
    BY <1>1, <1>2 DEF TruthInv
  <1>6. built > 0 => Selected(Total)
    BY <1>1, <1>2 DEF TruthInv
  <1>7. TruthInv'
    BY <1>1, <1>2, <1>4, <1>5, <1>6 DEF TruthInv
  <1>8. PassInv'
    BY <1>1, <1>2 DEF PassInv, NoRuns
  <1>9. EndInv'
    BY <1>1, <1>2 DEF EndInv
  <1> QED BY <1>3, <1>7, <1>8, <1>9 DEF RecallInv

(* The supplied truth of a full run, or none yet of a smoke run.           *)
LEMMA SelectStep ==
  ASSUME RecallInv, SelectTruth
  PROVE  RecallInv'
  <1> USE DEF Reading, Preparing, Warming, Timing, Running
  <1>1. /\ pc = "select"
        /\ UNCHANGED <<loadVars, fault, clock, built, offset, runs, order, report>>
        /\ \/ /\ mode = "full" /\ exact_top_100' = supplied_top_100
              /\ pc' = "build" /\ completed' = completed
           \/ /\ mode = "smoke" /\ exact_top_100' = exact_top_100
              /\ pc' = "truth" /\ completed' = 0
    BY DEF SelectTruth
  <1>2. /\ LoadInv /\ TruthInv /\ PassInv /\ EndInv
        /\ completed \in Nat /\ ~fault /\ fault \in BOOLEAN
        /\ built \in 0 .. C /\ built > 0 /\ exact_top_100 = <<>>
    BY <1>1 DEF RecallInv, LoadInv, TruthInv
  <1>3. LoadInv'
    BY <1>1, <1>2, LoadedStep
  <1>4. /\ Total \in Nat /\ IsSeq(supplied_top_100) /\ Len(supplied_top_100) = Total
        /\ \A q \in 1 .. Total : supplied_top_100[q] = truth_file[q]
    BY <1>1, <1>2, Loaded
  <1>5. Total' = Total /\ mode' = mode /\ \A q : TruthOf(q)' = TruthOf(q)
    BY <1>1, DataFixed DEF loadVars
  <1>6. CASE mode = "full" /\ exact_top_100' = supplied_top_100 /\ pc' = "build"
    <2>1. \A q \in 1 .. Total : exact_top_100'[q] = TruthOf(q)
      BY <1>4, <1>6 DEF TruthOf
    <2>2. IsSeq(exact_top_100') /\ Len(exact_top_100') = Total
      BY <1>4, <1>6
    <2>3. Selected(Total)'
      BY <1>5, <2>1, <2>2 DEF Selected, IsSeq, Elements
    <2> QED BY <1>1, <1>2, <1>3, <1>6, <2>3 DEF RecallInv, TruthInv, PassInv, EndInv, NoRuns
  <1>7. CASE mode = "smoke" /\ UNCHANGED exact_top_100 /\ pc' = "truth" /\ completed' = 0
    <2>1. Selected(completed)'
      BY <1>2, <1>7, EmptyIsSeq DEF Selected, IsSeq, Elements
    <2>2. completed' <= Total'
      BY <1>4, <1>5, <1>7
    <2> QED BY <1>1, <1>2, <1>3, <1>5, <1>7, <2>1, <2>2
            DEF RecallInv, TruthInv, PassInv, EndInv, NoRuns
  <1> QED BY <1>1, <1>6, <1>7

(* One query of the truth of a smoke run, or the end of it.                *)
LEMMA RecomputeStep ==
  ASSUME RecallInv, RecomputeTruth
  PROVE  RecallInv'
  <1> USE DEF Reading, Preparing, Warming, Timing, Running
  <1> DEFINE next == RowsOf(FlatSearch(queries[completed + 1], K))
  <1>1. /\ pc = "truth"
        /\ UNCHANGED <<loadVars, fault, clock, built, offset, runs, order, report>>
        /\ \/ /\ completed < Total /\ exact_top_100' = Append(exact_top_100, next)
              /\ completed' = completed + 1 /\ pc' = pc
           \/ /\ completed = Total /\ pc' = "build"
              /\ UNCHANGED <<exact_top_100, completed>>
    BY DEF RecomputeTruth
  <1>2. /\ LoadInv /\ TruthInv /\ PassInv /\ EndInv
        /\ completed \in Nat /\ ~fault /\ fault \in BOOLEAN
        /\ built \in 0 .. C /\ built > 0 /\ mode = "smoke"
        /\ completed <= Total /\ Selected(completed)
    BY <1>1 DEF RecallInv, LoadInv, TruthInv
  <1>3. LoadInv'
    BY <1>1, <1>2, LoadedStep
  <1>4. Total \in Nat
    BY <1>1, <1>2, Loaded
  <1>5. Total' = Total /\ mode' = mode /\ \A q : TruthOf(q)' = TruthOf(q)
    BY <1>1, DataFixed DEF loadVars
  <1>6. CASE /\ completed < Total /\ exact_top_100' = Append(exact_top_100, next)
             /\ completed' = completed + 1 /\ pc' = pc
    <2>1. next = TruthOf(completed + 1)
      BY <1>2 DEF TruthOf
    <2> HIDE DEF next
    <2>2. /\ IsSeq(exact_top_100) /\ Len(exact_top_100) = completed
          /\ \A q \in 1 .. completed : exact_top_100[q] = TruthOf(q)
      BY <1>2 DEF Selected
    <2> DEFINE grown == Append(exact_top_100, next)
    <2>3. /\ IsSeq(grown) /\ Len(grown) = completed + 1
          /\ \A q \in 1 .. completed : grown[q] = exact_top_100[q]
          /\ grown[completed + 1] = next
      <3>1. IsSeq(exact_top_100) /\ Len(exact_top_100) = completed
        BY <2>2
      <3> QED BY <3>1, AppendSeq
    <2> HIDE DEF grown
    <2>4. \A q \in 1 .. completed + 1 : grown[q] = TruthOf(q)
      <3>1. \A q \in 1 .. completed + 1 : q \in 1 .. completed \/ q = completed + 1
        BY <1>2
      <3> QED BY <2>1, <2>2, <2>3, <3>1
    <2>5. exact_top_100' = grown
      BY <1>6 DEF grown
    <2>6. Selected(completed)'
      BY <1>5, <1>6, <2>3, <2>4, <2>5 DEF Selected, IsSeq, Elements
    <2>7. completed' <= Total'
      BY <1>2, <1>4, <1>5, <1>6
    <2> QED BY <1>1, <1>2, <1>3, <1>5, <1>6, <2>6, <2>7
            DEF RecallInv, TruthInv, PassInv, EndInv, NoRuns
  <1>7. CASE completed = Total /\ pc' = "build" /\ UNCHANGED <<exact_top_100, completed>>
    <2>1. Selected(Total)'
      BY <1>1, <1>2, <1>5, <1>7, TruthFixed
    <2> QED BY <1>1, <1>2, <1>3, <1>7, <2>1 DEF RecallInv, TruthInv, PassInv, EndInv, NoRuns
  <1> QED BY <1>1, <1>6, <1>7

(* The warm-up starts with the truth selected.                             *)
LEMMA BeginWarmStep ==
  ASSUME RecallInv, BeginWarm
  PROVE  RecallInv'
  <1> USE DEF Reading, Preparing, Warming, Timing, Running
  <1>1. /\ pc = "build" /\ built = C /\ pc' = "warm" /\ completed' = 0
        /\ UNCHANGED <<loadVars, fault, runVars>>
    BY DEF BeginWarm, C
  <1>2. /\ LoadInv /\ TruthInv /\ PassInv /\ EndInv
        /\ ~fault /\ fault \in BOOLEAN /\ C \in Nat \ {0}
    BY <1>1, RecallAssumption DEF RecallInv, LoadInv, C
  <1>3. LoadInv'
    BY <1>1, <1>2, LoadedStep
  <1>4. Selected(Total)'
    <2>1. Selected(Total)
      BY <1>1, <1>2 DEF TruthInv
    <2>2. Total' = Total /\ UNCHANGED <<loadVars, exact_top_100>>
      BY <1>1, DataFixed DEF runVars
    <2> QED BY <2>1, <2>2, TruthFixed
  <1>5. TruthInv'
    BY <1>1, <1>2, <1>4 DEF TruthInv, runVars
  <1>6. completed' <= WarmRounds' /\ offset' = 0 /\ offset' \in Indexes
    <2>1. Total \in Nat /\ Total' = Total
      BY <1>1, <1>2, Loaded, DataFixed
    <2>2. WarmRounds' \in Nat
      BY <2>1, WarmCapped DEF WarmRounds, WarmCount
    <2>3. offset' = 0
      BY <1>1, <1>2 DEF PassInv, runVars
    <2> QED BY <1>1, <1>2, <2>2, <2>3 DEF Indexes, C
  <1>7. PassInv'
    BY <1>1, <1>2, <1>6 DEF PassInv, runVars, NoRuns
  <1>8. EndInv'
    BY <1>1, <1>2 DEF EndInv, runVars
  <1> QED BY <1>3, <1>5, <1>7, <1>8 DEF RecallInv

(* It ends between two rounds.                                             *)
LEMMA EndWarmStep ==
  ASSUME RecallInv, EndWarm
  PROVE  RecallInv'
  <1> USE DEF Reading, Preparing, Warming, Timing, Running
  <1>1. /\ pc = "warm" /\ completed = WarmRounds /\ pc' = "warmed"
        /\ UNCHANGED <<loadVars, completed, fault, runVars>>
    BY DEF EndWarm
  <1>2. /\ LoadInv /\ TruthInv /\ PassInv /\ EndInv
        /\ completed \in Nat /\ ~fault /\ fault \in BOOLEAN
    BY <1>1 DEF RecallInv, LoadInv
  <1>3. LoadInv'
    BY <1>1, <1>2, LoadedStep
  <1>4. Selected(Total)'
    <2>1. Selected(Total)
      BY <1>1, <1>2 DEF TruthInv
    <2>2. Total' = Total /\ UNCHANGED <<loadVars, exact_top_100>>
      BY <1>1, DataFixed DEF runVars
    <2> QED BY <2>1, <2>2, TruthFixed
  <1>5. TruthInv'
    BY <1>1, <1>2, <1>4 DEF TruthInv, runVars
  <1>6. PassInv'
    BY <1>1, <1>2 DEF PassInv, runVars, NoRuns
  <1>7. EndInv'
    BY <1>1, <1>2 DEF EndInv, runVars
  <1> QED BY <1>3, <1>5, <1>6, <1>7 DEF RecallInv

(* The timed pass starts with no search, no time and no answer.            *)
LEMMA BeginTimedStep ==
  ASSUME RecallInv, BeginTimed
  PROVE  RecallInv'
  <1> USE DEF Reading, Preparing, Warming, Timing, Running
  <1>1. /\ pc = "warmed" /\ pc' = "timed" /\ completed' = 0
        /\ UNCHANGED <<loadVars, fault, runVars>>
    BY DEF BeginTimed
  <1>2. /\ LoadInv /\ TruthInv /\ PassInv /\ EndInv
        /\ ~fault /\ fault \in BOOLEAN /\ C \in Nat \ {0} /\ Indexes = 0 .. C - 1
    BY <1>1, RecallAssumption DEF RecallInv, LoadInv, C, Indexes
  <1>3. LoadInv'
    BY <1>1, <1>2, LoadedStep
  <1>4. Selected(Total)'
    <2>1. Selected(Total)
      BY <1>1, <1>2 DEF TruthInv
    <2>2. Total' = Total /\ UNCHANGED <<loadVars, exact_top_100>>
      BY <1>1, DataFixed DEF runVars
    <2> QED BY <2>1, <2>2, TruthFixed
  <1>5. TruthInv'
    BY <1>1, <1>2, <1>4 DEF TruthInv, runVars
  <1>6. offset' = 0 /\ runs' = NoRuns /\ order' = <<>> /\ completed' = 0 /\ ~fault'
    BY <1>1, <1>2 DEF PassInv, runVars
  <1>7. InOrderOfTurns'
    <2>1. Len(<<>>) = 0 * C + 0 /\ IsSeq(<<>>) /\ DOMAIN <<>> = 1 .. Len(<<>>)
      BY <1>2, EmptyIsSeq, SeqFacts
    <2>2. 0 \in Indexes /\ ~ \E n \in 1 .. 0 : TRUE
      BY <1>2
    <2>3. Len(<<>>) = 0
      BY EmptyIsSeq
    <2> QED BY <1>6, <2>1, <2>2, <2>3 DEF InOrderOfTurns, IsSeq, Elements
  <1>8. Answered'
    <2>1. \A i : Answers(i)' = 0
      BY <1>6 DEF Answers, HadTurn
    <2>2. /\ DOMAIN NoRuns = Indexes
          /\ \A i \in Indexes :
               /\ NoRuns[i] = [latencies |-> NoRuns[i].latencies, results |-> NoRuns[i].results]
               /\ NoRuns[i].latencies = <<>> /\ NoRuns[i].results = <<>>
      BY DEF NoRuns
    <2>3. <<>> \in Seq(Nat) /\ IsSeq(<<>>) /\ Len(<<>>) = 0
      BY EmptySeq, EmptyIsSeq
    <2>4. \A i \in Indexes :
            /\ runs'[i] = [latencies |-> runs'[i].latencies, results |-> runs'[i].results]
            /\ runs'[i].latencies \in Seq(Nat) /\ IsSeq(runs'[i].results)
            /\ Len(runs'[i].latencies) = 0 /\ Len(runs'[i].results) = 0
      BY <1>6, <2>2, <2>3
    <2>5. ~ \E q \in 1 .. 0 : TRUE
      OBVIOUS
    <2> QED BY <1>6, <2>1, <2>2, <2>4, <2>5 DEF Answered, IsSeq, Elements
  <1>9. completed' <= Total'
    BY <1>1, <1>2, Loaded, DataFixed
  <1>10. PassInv'
    BY <1>1, <1>2, <1>6, <1>7, <1>8, <1>9 DEF PassInv, runVars
  <1>11. EndInv'
    BY <1>1, <1>2 DEF EndInv, runVars
  <1> QED BY <1>3, <1>5, <1>10, <1>11 DEF RecallInv

(* A search of either pass.                                                *)
LEMMA SearchStep ==
  ASSUME RecallInv, Search
  PROVE  RecallInv'
  <1> USE DEF Reading, Preparing, Warming, Timing, Running
  <1>1. /\ pc \in {"warm", "timed"} /\ pc' \in {pc, "aborted"}
        /\ UNCHANGED <<loadVars, clock, built, exact_top_100, report>>
        /\ pc' = "aborted" => fault' = TRUE /\ completed' = completed
        /\ pc' # "aborted" => IF offset + 1 < C THEN offset' = offset + 1 /\ completed' = completed
                              ELSE offset' = 0 /\ completed' = completed + 1
        /\ pc = "warm" /\ pc' # "aborted" =>
             completed < WarmRounds /\ UNCHANGED <<runs, order, fault>>
    BY DEF Search, Abort, Rounds, C
  <1>2. /\ LoadInv /\ TruthInv /\ PassInv /\ EndInv
        /\ completed \in Nat /\ fault \in BOOLEAN /\ Selected(Total)
        /\ C \in Nat \ {0} /\ Indexes = 0 .. C - 1
    BY <1>1, RecallAssumption DEF RecallInv, LoadInv, TruthInv, C, Indexes
  <1>3. Selected(Total)'
    BY <1>1, <1>2, TruthFixed, DataFixed
  <1>4. TruthInv'
    BY <1>1, <1>2, <1>3 DEF TruthInv
  <1>5. completed' \in Nat /\ fault' \in BOOLEAN /\ (pc' = "warm" => ~fault')
    <2>1. CASE pc' = "aborted"
      BY <1>1, <1>2, <2>1
    <2>2. CASE pc' # "aborted" /\ pc = "warm"
      BY <1>1, <1>2, <2>2 DEF LoadInv
    <2>3. CASE pc' # "aborted" /\ pc = "timed"
      BY <1>2, <2>3, AnswerStep
    <2> QED BY <1>1, <2>1, <2>2, <2>3
  <1>6. LoadInv'
    BY <1>1, <1>2, <1>5, LoadedStep
  <1>7. PassInv'
    <2>1. CASE pc' = "aborted"
      BY <1>1, <1>2, <2>1 DEF PassInv
    <2>2. CASE pc' # "aborted" /\ pc = "warm"
      <3>1. offset \in Indexes /\ runs = NoRuns /\ order = <<>>
        BY <1>2, <2>2 DEF PassInv
      <3>2. WarmRounds' = WarmRounds /\ WarmRounds \in Nat
        <4>1. Total' = Total /\ Total \in Nat
          BY <1>1, <1>2, DataFixed, Loaded
        <4> QED BY <4>1, WarmCapped DEF WarmRounds, WarmCount
      <3>3. /\ offset' \in Indexes /\ completed' <= WarmRounds'
            /\ completed' = WarmRounds' => offset' = 0
        BY <1>1, <1>2, <2>2, <3>1, <3>2
      <3> QED BY <1>1, <1>2, <2>2, <3>1, <3>3 DEF PassInv, NoRuns
    <2>3. CASE pc' # "aborted" /\ pc = "timed"
      <3>1. /\ pc' = "timed" /\ InOrderOfTurns' /\ Answered'
            /\ completed' <= Total' /\ (completed' = Total' => offset' = 0)
        BY <1>2, <2>3, AnswerStep
      <3> QED BY <1>1, <1>2, <3>1 DEF PassInv
    <2> QED BY <1>1, <2>1, <2>2, <2>3
  <1>8. EndInv'
    BY <1>1, <1>2 DEF EndInv
  <1> QED BY <1>4, <1>6, <1>7, <1>8 DEF RecallInv

(* The report is right, or refused because something was wrong.            *)
LEMMA ReportStep ==
  ASSUME RecallInv, Report
  PROVE  RecallInv'
  <1> USE DEF Reading, Preparing, Warming, Timing, Running
  <1>1. /\ pc = "timed" /\ completed = Total
        /\ UNCHANGED <<loadVars, completed, fault, clock, built, exact_top_100, offset,
                       runs, order>>
        /\ \/ ReportOK /\ pc' = "reported" /\ report' = [i \in Indexes |-> Summarize(runs[i])]
           \/ ~ReportOK /\ pc' = "aborted" /\ report' = report
    BY DEF Report
  <1>2. /\ LoadInv /\ TruthInv /\ PassInv /\ EndInv
        /\ completed \in Nat /\ fault \in BOOLEAN /\ Selected(Total) /\ report = <<>>
    BY <1>1 DEF RecallInv, LoadInv, TruthInv, EndInv
  <1>3. LoadInv'
    BY <1>1, <1>2, LoadedStep
  <1>4. Total' = Total /\ (TruthDisagrees' <=> TruthDisagrees)
    BY <1>1, DataFixed
  <1>5. TruthInv'
    <2>1. Selected(Total)'
      BY <1>1, <1>2, <1>4, TruthFixed
    <2> QED BY <1>1, <1>2, <2>1 DEF TruthInv
  <1>6. PassInv'
    <2>1. /\ InOrderOfTurns' /\ Answered' /\ completed' = Total' /\ completed' <= Total'
          /\ offset' = 0 /\ clock' \in Clocks
      <3>1. /\ InOrderOfTurns /\ Answered /\ completed <= Total /\ offset = 0
            /\ clock \in Clocks
        BY <1>1, <1>2 DEF PassInv
      <3>2. UNCHANGED <<loadVars, completed, offset, runs, order, fault>>
        BY <1>1
      <3> QED BY <1>1, <1>4, <3>1, <3>2, PassFixed
    <2> QED BY <1>1, <2>1 DEF PassInv
  <1>7. ReportOK <=> ~fault /\ ~TruthDisagrees
    <2>1. (\A i \in Indexes : ValidRun(runs[i])) <=> ~fault
      BY <1>1, <1>2, RunsAccepted
    <2>2. ASSUME ~fault
          PROVE  /\ \A i \in Indexes : LET m == Summarize(runs[i])
                                       IN  m.r1 <= m.r10 /\ m.r10 <= m.r100
                 /\ Agrees(Summarize(runs[0])) <=> ~TruthDisagrees
      BY <1>1, <1>2, <2>2, RunSummary, AgreesIfTrue
    <2> QED BY <2>1, <2>2 DEF ReportOK
  <1>8. EndInv'
    <2>1. CASE pc' = "reported"
      <3>1. ~fault' /\ ~TruthDisagrees'
        BY <1>1, <1>4, <1>7, <2>1
      <3>2. report' = [i \in Indexes |-> Summarize(runs[i])]'
        <4>1. UNCHANGED <<exact_top_100, runs>>
          BY <1>1
        <4> QED BY <1>1, <2>1, <4>1, SummaryFixed
      <3> QED BY <2>1, <3>1, <3>2 DEF EndInv
    <2>2. CASE pc' = "aborted"
      <3>1. fault' \/ TruthDisagrees'
        BY <1>1, <1>4, <1>7, <2>2
      <3> QED BY <1>1, <1>2, <2>2, <3>1 DEF EndInv
    <2> QED BY <1>1, <2>1, <2>2
  <1> QED BY <1>3, <1>5, <1>6, <1>8 DEF RecallInv

(* A step of nothing.                                                      *)
LEMMA StutterStep ==
  ASSUME RecallInv, UNCHANGED vars
  PROVE  RecallInv'
  <1> USE DEF Reading, Preparing, Warming, Timing, Running
  <1>1. /\ UNCHANGED <<pc, loadVars, completed, fault>>
        /\ UNCHANGED <<clock, built, exact_top_100, offset, runs, order, report>>
    BY DEF vars, siftVars, runVars
  <1>2. LoadInv /\ TruthInv /\ PassInv /\ EndInv
    BY DEF RecallInv
  <1>3. LoadInv'
    <2>1. /\ \A f \in 1 .. 3 : Done(f)' = Done(f)
          /\ Records(file)' = Records(file)
      BY <1>1 DEF Done, loadVars, Retain, BaseRows, QueryRows, Records
    <2> QED BY <1>1, <1>2, <2>1 DEF LoadInv, loadVars, Copies
  <1>4. /\ Total' = Total /\ WarmRounds' = WarmRounds
        /\ (TruthDisagrees' <=> TruthDisagrees)
        /\ \A n : Selected(n)' <=> Selected(n)
    BY <1>1, DataFixed, TruthFixed DEF WarmRounds, WarmCount
  <1>5. (InOrderOfTurns' <=> InOrderOfTurns) /\ (Answered' <=> Answered)
    BY <1>1, PassFixed
  <1>6. [i \in Indexes |-> Summarize(runs[i])]' = [i \in Indexes |-> Summarize(runs[i])]
    BY <1>1, SummaryFixed
  <1>7. TruthInv'
    <2>1. mode' = mode
      BY <1>1 DEF loadVars
    <2> QED BY <1>1, <1>2, <1>4, <2>1 DEF TruthInv
  <1>8. PassInv'
    BY <1>1, <1>2, <1>4, <1>5 DEF PassInv, NoRuns
  <1>9. EndInv'
    BY <1>1, <1>2, <1>4, <1>6 DEF EndInv
  <1> QED BY <1>3, <1>7, <1>8, <1>9 DEF RecallInv

(* The start of the program.                                               *)
LEMMA InitHolds ==
  ASSUME Init
  PROVE  RecallInv
  <1> USE DEF Init, LoadInit, Reading, Preparing, Warming, Timing, Running
  <1>1. Done(1) = 0 /\ Done(2) = 0 /\ Done(3) = 0
    BY DEF Done
  <1>2. Copies(<<>>, BaseFile, 0) /\ Copies(<<>>, QueryFile, 0) /\ Copies(<<>>, truth_file, 0)
    BY EmptyIsSeq DEF Copies
  <1>3. LoadInv
    <2>1. /\ Copies(base, BaseFile, Done(1)) /\ Copies(queries, QueryFile, Done(2))
          /\ Copies(supplied_top_100, truth_file, Done(3))
      BY <1>1, <1>2
    <2>2. /\ pc = "args" /\ mode = "full" /\ truth_file \in TruthFiles /\ file = 1
          /\ completed = 0 /\ fault = FALSE
      OBVIOUS
    <2> HIDE DEF Init, LoadInit
    <2>3. /\ pc \in Running \cup {"usage", "aborted"} /\ mode \in {"full", "smoke"}
          /\ file \in 1 .. 3 /\ completed \in Nat /\ fault \in BOOLEAN
      <3>1. pc \in Running \cup {"usage", "aborted"}
        BY <2>2
      <3>2. mode \in {"full", "smoke"}
        BY <2>2
      <3>3. file \in 1 .. 3
        BY <2>2
      <3>4. completed \in Nat
        BY <2>2
      <3>5. fault \in BOOLEAN
        BY <2>2
      <3> QED BY <3>1, <3>2, <3>3, <3>4, <3>5
    <2>4. pc # "read" /\ ~fault
      BY <2>2
    <2> QED BY <2>1, <2>2, <2>3, <2>4 DEF LoadInv
  <1>4. TruthInv
    BY RecallAssumption DEF TruthInv, C
  <1>5. PassInv
    BY DEF PassInv
  <1>6. EndInv
    BY DEF EndInv
  <1> QED BY <1>3, <1>4, <1>5, <1>6 DEF RecallInv

-----------------------------------------------------------------------------
(* What is read, selected, answered and reported stays as RecallInv says.  *)
THEOREM RunKept == Spec => []RecallInv
  <1>1. Init => RecallInv
    BY InitHolds
  <1>2. RecallInv /\ [Next]_vars => RecallInv'
    <2> SUFFICES ASSUME RecallInv, [Next]_vars PROVE RecallInv'
      OBVIOUS
    <2>1. CASE Load /\ UNCHANGED runVars
      BY <2>1, LoadStep
    <2>2. CASE Build
      BY <2>2, BuildStep
    <2>3. CASE SelectTruth
      BY <2>3, SelectStep
    <2>4. CASE RecomputeTruth
      BY <2>4, RecomputeStep
    <2>5. CASE BeginWarm
      BY <2>5, BeginWarmStep
    <2>6. CASE EndWarm
      BY <2>6, EndWarmStep
    <2>7. CASE BeginTimed
      BY <2>7, BeginTimedStep
    <2>8. CASE Search
      BY <2>8, SearchStep
    <2>9. CASE Report
      BY <2>9, ReportStep
    <2>10. CASE UNCHANGED vars
      BY <2>10, StutterStep
    <2> QED BY <2>1, <2>2, <2>3, <2>4, <2>5, <2>6, <2>7, <2>8, <2>9, <2>10 DEF Next, Ended
  <1> QED BY <1>1, <1>2, PTL DEF Spec

(* The timed pass treats the indexes alike, for any number of indexes and  *)
(* queries, while it runs and when it is over (run_balanced_with_progress).*)
THEOREM RoundsStayBalanced == Spec => []RoundsBalanced
  <1>1. RecallInv => RoundsBalanced
    <2> SUFFICES ASSUME RecallInv, pc \in {"timed", "reported"} PROVE RoundsBalanced
      BY DEF RoundsBalanced
    <2>1. InOrderOfTurns /\ Answered
      BY DEF RecallInv, PassInv, Timing
    <2> QED BY <2>1, Balanced DEF Answered
  <1> QED BY <1>1, RunKept, PTL

(* The program is refused a report when, and only when, an argument, a     *)
(* byte of the files, a build, a search, an answer or the supplied truth   *)
(* was wrong, and then none of the report is printed.                      *)
THEOREM FailuresExplained == Spec => []FailsOnlyByFault
  <1>1. RecallInv => FailsOnlyByFault
    BY DEF RecallInv, EndInv, FailsOnlyByFault
  <1> QED BY <1>1, RunKept, PTL

(* A report that is printed measures each index against the rows that are  *)
(* nearest, its rates grow with the rank, and its times are nearest ranks. *)
THEOREM ReportHolds == Spec => []ReportIsSound
  <1>1. RecallInv => ReportIsSound
    <2> SUFFICES ASSUME RecallInv, pc = "reported" PROVE ReportIsSound
      BY DEF ReportIsSound
    <2> USE DEF Reading, Preparing, Warming, Timing, Running
    <2>1. /\ LoadInv /\ TruthInv /\ PassInv /\ ~fault /\ ~TruthDisagrees
          /\ completed = Total /\ Selected(Total)
          /\ report = [i \in Indexes |-> Summarize(runs[i])]
          /\ mode \in {"full", "smoke"}
      BY DEF RecallInv, LoadInv, TruthInv, PassInv, EndInv
    <2>2. /\ DataOK /\ Total \in Nat /\ DOMAIN queries = 1 .. Total
          /\ \A q \in 1 .. Total : queries[q] \in Vector
      BY <2>1, Loaded
    <2>3. ASSUME NEW q \in DOMAIN queries
          PROVE  Elements(exact_top_100[q]) = Nearest(Data, queries[q], DOMAIN Data, K)
      <3> DEFINE rows == RowsOf(FlatSearch(queries[q], K))
      <3>1. q \in 1 .. Total /\ queries[q] \in Vector
        BY <2>2
      <3>2. Elements(rows) = Nearest(Data, queries[q], DOMAIN Data, K)
        BY <2>2, <3>1, FlatIsExact, FileSizes DEF DataOK, IsExact
      <3>3. exact_top_100[q] = IF mode = "full" THEN truth_file[q] ELSE rows
        BY <2>1, <3>1 DEF Selected, TruthOf
      <3>4. mode = "full" => Elements(truth_file[q]) = Elements(rows)
        BY <2>1 DEF TruthDisagrees
      <3> HIDE DEF rows
      <3> QED BY <3>2, <3>3, <3>4
    <2>4. ASSUME NEW i \in Indexes
          PROVE  LET m == report[i]
                 IN  /\ m.r1 <= m.r10 /\ m.r10 <= m.r100 /\ m.r100 <= Total
                     /\ IsRank(m.p50, 50, runs[i].latencies)
                     /\ IsRank(m.p99, 99, runs[i].latencies)
                     /\ m.overlap_at_100 <= m.returned_max * Total
      <3>1. report[i] = Summarize(runs[i])
        BY <2>1
      <3>2. LET m == Summarize(runs[i])
            IN  /\ m.r1 <= m.r10 /\ m.r10 <= m.r100 /\ m.r100 <= Total
                /\ m.returned_max = K - Skip(i)
                /\ m.overlap_at_100 <= (K - Skip(i)) * Total
                /\ IsRank(m.p50, 50, runs[i].latencies)
                /\ IsRank(m.p99, 99, runs[i].latencies)
        BY <2>1, RunSummary
      <3> QED BY <3>1, <3>2
    <2> QED BY <2>3, <2>4 DEF ReportIsSound
  <1> QED BY <1>1, RunKept, PTL

-----------------------------------------------------------------------------
(* A Progress, and its stage while one is open: how far it has got, and    *)
(* that the milestones reached have been written, or given up.             *)
IsProgress(p) ==
  /\ p = [failed |-> p.failed, stage |-> p.stage, log |-> p.log]
  /\ p.failed \in BOOLEAN /\ IsSeq(p.log)

Opened(p, total, done) ==
  LET s == p.stage
  IN  /\ s # NoStage
      /\ s = [label |-> s.label, total |-> total, per_unit |-> s.per_unit,
              next_percent |-> s.next_percent]
      /\ total \in Nat \ {0} /\ s.next_percent \in {25, 50, 75, 100}
      /\ \A percent \in {25, 50, 75} :
           percent >= s.next_percent => done * 100 < percent * total

(* What the last line that got out says of the stage.                      *)
Ends(log, stage) ==
  IF stage = NoStage
  THEN Len(log) > 0 => ~IsMilestone(log[Len(log)]) \/ log[Len(log)].percent = 100
  ELSE /\ Len(log) > 0 /\ IsMilestone(log[Len(log)])
       /\ log[Len(log)].label = stage.label
       /\ log[Len(log)].percent = stage.next_percent - 25

Reports(p) == IsProgress(p) /\ (~p.failed => Ends(p.log, p.stage))

(* The lines one call of a method adds are in order, and claim no more     *)
(* than is done.                                                           *)
Honest(p, w, done) ==
  \A n \in Len(p.log) + 1 .. Len(w.log) :
    /\ ~p.failed
    /\ n > 1 => Follows(w.log[n - 1], w.log[n])
    /\ IsMilestone(w.log[n]) => w.log[n].completed <= done

NoneComplete(p, w) ==
  \A n \in Len(p.log) + 1 .. Len(w.log) : IsMilestone(w.log[n]) => w.log[n].percent # 100

LinesInv ==
  /\ Reports(progress)
  /\ pc \in {"args", "open", "build", "select", "warmed"} => progress.stage = NoStage
  /\ pc = "read" => Opened(progress, Records(file), completed)
  /\ pc \in {"truth", "timed"} => Opened(progress, Total, completed)
  /\ pc = "warm" => IF WarmRounds = 0 THEN progress.stage = NoStage
                    ELSE Opened(progress, WarmRounds, completed)
  /\ pc \in Running \ {"reported"} => error = "none"

-----------------------------------------------------------------------------
(* Lines written one after the other: a first part of the messages, all of *)
(* them unless a write failed, and none after one that did.                *)
Grew(p, w, messages, n) ==
  /\ IsProgress(w)
  /\ Len(w.log) = Len(p.log) + n
  /\ \A i \in 1 .. Len(p.log) : w.log[i] = p.log[i]
  /\ \A i \in 1 .. n : w.log[Len(p.log) + i] = messages[i]
  /\ n > 0 => ~p.failed
  /\ ~w.failed => ~p.failed /\ n = Len(messages)

(* Two sequences, one after the other.                                     *)
LEMMA JoinSeq ==
  ASSUME NEW s, IsSeq(s), NEW t, IsSeq(t)
  PROVE  /\ IsSeq(s \o t) /\ Len(s \o t) = Len(s) + Len(t)
         /\ \A i \in 1 .. Len(s) : (s \o t)[i] = s[i]
         /\ \A i \in 1 .. Len(t) : (s \o t)[Len(s) + i] = t[i]
  <1> DEFINE T == Elements(s) \cup Elements(t)
  <1>1. s \in Seq(T) /\ t \in Seq(T)
    BY SeqMonotonic DEF IsSeq
  <1> HIDE DEF T
  <1>2. /\ s \o t \in Seq(T) /\ Len(s \o t) = Len(s) + Len(t)
        /\ \A i \in 1 .. Len(s) + Len(t) :
             (s \o t)[i] = IF i <= Len(s) THEN s[i] ELSE t[i - Len(s)]
    BY <1>1, ConcatProperties
  <1>3. Len(s) \in Nat /\ Len(t) \in Nat
    BY SeqFacts
  <1>4. \A i \in 1 .. Len(s) : (s \o t)[i] = s[i]
    BY <1>2, <1>3
  <1>5. ASSUME NEW i \in 1 .. Len(t) PROVE (s \o t)[Len(s) + i] = t[i]
    <2> DEFINE j == Len(s) + i
    <2>1. j \in 1 .. Len(s) + Len(t) /\ ~(j <= Len(s)) /\ j - Len(s) = i
      BY <1>3
    <2> HIDE DEF j
    <2>2. (s \o t)[j] = t[i]
      BY <1>2, <2>1
    <2> QED BY <2>2 DEF j
  <1> QED BY <1>2, <1>4, <1>5, SeqOfItself

(* The first elements of a sequence.                                       *)
LEMMA FirstPart ==
  ASSUME NEW s, IsSeq(s), NEW n \in 0 .. Len(s)
  PROVE  /\ IsSeq(SubSeq(s, 1, n)) /\ Len(SubSeq(s, 1, n)) = n
         /\ \A i \in 1 .. n : SubSeq(s, 1, n)[i] = s[i]
  <1> DEFINE T == Elements(s)
  <1>1. s \in Seq(T) /\ Len(s) \in Nat
    BY SeqFacts DEF IsSeq
  <1> HIDE DEF T
  <1>2. /\ SubSeq(s, 1, n) \in Seq(T) /\ Len(SubSeq(s, 1, n)) = n
        /\ \A i \in 1 .. n : SubSeq(s, 1, n)[i] = s[i]
    BY <1>1, SubSeqProperties
  <1> QED BY <1>2, SeqOfItself

(* write_message, once per message.                                        *)
LEMMA WrittenLines ==
  ASSUME NEW p, IsProgress(p), NEW messages, IsSeq(messages), NEW w \in Written(p, messages)
  PROVE  /\ w.stage = p.stage
         /\ \E n \in 0 .. Len(messages) : Grew(p, w, messages, n)
  <1> DEFINE log == p.log
             L == Len(messages)
  <1>1. /\ p = [failed |-> p.failed, stage |-> p.stage, log |-> log] /\ p.failed \in BOOLEAN
        /\ IsSeq(log) /\ Len(log) \in Nat /\ L \in Nat
    BY SeqFacts DEF IsProgress
  <1>2. CASE p.failed \/ messages = <<>>
    <2>1. w = p
      BY <1>2 DEF Written
    <2>2. messages = <<>> => L = 0
      BY EmptyIsSeq
    <2>3. w.stage = p.stage /\ Grew(p, w, messages, 0)
      <3> HIDE DEF L
      <3> QED BY <1>1, <1>2, <2>1, <2>2 DEF Grew, IsProgress, L
    <2> QED BY <1>1, <2>3
  <1>3. CASE ~p.failed /\ messages # <<>>
    <2>1. CASE w = [p EXCEPT !.log = @ \o messages]
      <3>1. w = [failed |-> p.failed, stage |-> p.stage, log |-> log \o messages]
        BY <1>1, <2>1
      <3>2. /\ IsSeq(log \o messages) /\ Len(log \o messages) = Len(log) + L
            /\ \A i \in 1 .. Len(log) : (log \o messages)[i] = log[i]
            /\ \A i \in 1 .. L : (log \o messages)[Len(log) + i] = messages[i]
        BY <1>1, JoinSeq
      <3>3. w.stage = p.stage /\ Grew(p, w, messages, L)
        <4> HIDE DEF L
        <4> QED BY <1>1, <1>3, <3>1, <3>2 DEF Grew, IsProgress, L
      <3> QED BY <1>1, <3>3
    <2>2. ASSUME NEW n \in 0 .. L,
                 w = [p EXCEPT !.failed = TRUE, !.log = @ \o SubSeq(messages, 1, n)]
          PROVE  w.stage = p.stage /\ Grew(p, w, messages, n)
      <3> DEFINE t == SubSeq(messages, 1, n)
      <3>1. w = [failed |-> TRUE, stage |-> p.stage, log |-> log \o t]
        BY <1>1, <2>2
      <3>2. IsSeq(t) /\ Len(t) = n /\ \A i \in 1 .. n : t[i] = messages[i]
        BY FirstPart
      <3> HIDE DEF t, log
      <3>4. /\ IsSeq(log \o t) /\ Len(log \o t) = Len(log) + Len(t)
            /\ \A i \in 1 .. Len(log) : (log \o t)[i] = log[i]
            /\ \A i \in 1 .. Len(t) : (log \o t)[Len(log) + i] = t[i]
        <4>1. IsSeq(log) /\ IsSeq(t)
          BY <1>1, <3>2
        <4> QED BY ONLY <4>1, JoinSeq
      <3>3. /\ IsSeq(log \o t) /\ Len(log \o t) = Len(log) + n
            /\ \A i \in 1 .. Len(log) : (log \o t)[i] = log[i]
            /\ \A i \in 1 .. n : (log \o t)[Len(log) + i] = t[i]
        BY <3>2, <3>4
      <3> QED BY <1>1, <1>3, <3>1, <3>2, <3>3 DEF log, Grew, IsProgress
    <2>3. \/ w = [p EXCEPT !.log = @ \o messages]
          \/ \E n \in 0 .. L :
               w = [p EXCEPT !.failed = TRUE, !.log = @ \o SubSeq(messages, 1, n)]
      BY <1>3 DEF Written
    <2> QED BY <2>1, <2>2, <2>3
  <1> QED BY <1>2, <1>3

(* A new line is one of the messages, and comes after the one before it    *)
(* among them or, the first, after the last line there was.                *)
LEMMA NewLines ==
  ASSUME NEW p, IsProgress(p), NEW w, NEW messages,
         NEW n \in Nat, Grew(p, w, messages, n),
         NEW m \in Len(p.log) + 1 .. Len(w.log)
  PROVE  /\ ~p.failed
         /\ m - Len(p.log) \in 1 .. n
         /\ w.log[m] = messages[m - Len(p.log)]
         /\ m - Len(p.log) = 1 /\ m > 1 => Len(p.log) > 0 /\ w.log[m - 1] = p.log[Len(p.log)]
         /\ m - Len(p.log) > 1 => w.log[m - 1] = messages[m - Len(p.log) - 1]
  <1> DEFINE L == Len(p.log)
             i == m - L
  <1>1. L \in Nat /\ Len(w.log) = L + n
    BY SeqFacts DEF IsProgress, Grew
  <1>2. m \in Nat /\ i \in 1 .. n /\ n > 0 /\ m = L + i
    BY <1>1
  <1>3. /\ \A j \in 1 .. L : w.log[j] = p.log[j]
        /\ \A j \in 1 .. n : w.log[L + j] = messages[j]
        /\ ~p.failed
    BY <1>2 DEF Grew
  <1>4. ASSUME i = 1, m > 1 PROVE L > 0 /\ w.log[m - 1] = p.log[L]
    <2>1. m - 1 = L /\ L \in 1 .. L
      BY <1>1, <1>2, <1>4
    <2> QED BY <1>3, <2>1
  <1>5. ASSUME i > 1 PROVE w.log[m - 1] = messages[i - 1]
    <2>1. m - 1 = L + (i - 1) /\ i - 1 \in 1 .. n
      BY <1>1, <1>2, <1>5
    <2> QED BY <1>3, <2>1
  <1> HIDE DEF i
  <1>6. w.log[m] = messages[i]
    BY <1>2, <1>3
  <1> QED BY <1>2, <1>3, <1>4, <1>5, <1>6 DEF i

(* What a call of a method has promised once its lines are written.        *)
LEMMA LinesHonest ==
  ASSUME NEW p, Reports(p), NEW w, NEW messages, NEW n \in Nat,
         Grew(p, w, messages, n), NEW done,
         n > 0 /\ Len(p.log) > 0 /\ ~p.failed => Follows(p.log[Len(p.log)], messages[1]),
         \A i \in 1 .. n : i > 1 => Follows(messages[i - 1], messages[i]),
         \A i \in 1 .. n : IsMilestone(messages[i]) => messages[i].completed <= done
  PROVE  Honest(p, w, done)
  <1> SUFFICES ASSUME NEW m \in Len(p.log) + 1 .. Len(w.log)
               PROVE  /\ ~p.failed
                      /\ m > 1 => Follows(w.log[m - 1], w.log[m])
                      /\ IsMilestone(w.log[m]) => w.log[m].completed <= done
    BY DEF Honest
  <1> DEFINE i == m - Len(p.log)
  <1>1. IsProgress(p)
    BY DEF Reports
  <1>2. /\ ~p.failed /\ i \in 1 .. n /\ w.log[m] = messages[i]
        /\ i = 1 /\ m > 1 => Len(p.log) > 0 /\ w.log[m - 1] = p.log[Len(p.log)]
        /\ i > 1 => w.log[m - 1] = messages[i - 1]
    BY <1>1, NewLines
  <1>3. n > 0 /\ (i = 1 \/ i > 1)
    BY <1>2
  <1> HIDE DEF i
  <1> QED BY <1>2, <1>3

(* How the lines end after a call that wrote all of them.                  *)
EndsWith(p, w, messages, n) ==
  /\ ~p.failed /\ n = Len(messages) /\ Len(w.log) = Len(p.log) + n
  /\ n > 0 => Len(w.log) > 0 /\ w.log[Len(w.log)] = messages[n]
  /\ n = 0 => Len(w.log) = Len(p.log) /\ (Len(p.log) > 0 => w.log[Len(w.log)] = p.log[Len(p.log)])

LEMMA LinesEnd ==
  ASSUME NEW p, IsProgress(p), NEW w, NEW messages, IsSeq(messages),
         NEW n \in Nat, Grew(p, w, messages, n), ~w.failed
  PROVE  EndsWith(p, w, messages, n)
  <1>1. Len(p.log) \in Nat /\ Len(w.log) = Len(p.log) + n /\ ~p.failed /\ n = Len(messages)
    BY SeqFacts DEF IsProgress, Grew
  <1>2. n > 0 => n \in 1 .. n
    OBVIOUS
  <1>3. Len(p.log) > 0 => Len(p.log) \in 1 .. Len(p.log)
    BY <1>1
  <1> QED BY <1>1, <1>2, <1>3 DEF Grew, EndsWith

(* A line alone.                                                           *)
LEMMA OneLine ==
  ASSUME NEW line
  PROVE  IsSeq(<<line>>) /\ Len(<<line>>) = 1 /\ <<line>>[1] = line
  <1>1. <<line>> \in Seq({line})
    OBVIOUS
  <1> QED BY <1>1, SeqOfItself

(* The line of a milestone.                                                *)
LEMMA MilestoneLine ==
  ASSUME NEW stage, NEW percent
  PROVE  LET line == Milestone(stage, percent)
         IN  /\ IsMilestone(line) /\ line.label = stage.label /\ line.percent = percent
             /\ line.completed = (stage.total * percent + 99) \div 100
  BY DEF Milestone, IsMilestone

(* A stage starts after the one before it has ended.                       *)
LEMMA BeginLines ==
  ASSUME NEW p, Reports(p), p.stage = NoStage,
         NEW label, label # "none", NEW total \in Nat \ {0}, NEW per_unit,
         NEW w \in Begin(p, label, total, per_unit)
  PROVE  Reports(w) /\ Opened(w, total, 0) /\ Honest(p, w, 0) /\ NoneComplete(p, w)
  <1> DEFINE stage == [label |-> label, total |-> total, per_unit |-> per_unit,
                       next_percent |-> 25]
             line == Milestone(stage, 0)
             q == [p EXCEPT !.stage = stage]
             messages == <<line>>
             log == p.log
  <1>1. /\ p = [failed |-> p.failed, stage |-> p.stage, log |-> log]
        /\ p.failed \in BOOLEAN /\ IsSeq(log) /\ Len(log) \in Nat
        /\ ~p.failed => Ends(log, p.stage)
    BY SeqFacts DEF Reports, IsProgress
  <1>2. q = [failed |-> p.failed, stage |-> stage, log |-> log]
    BY <1>1
  <1>3. stage # NoStage
    BY DEF NoStage
  <1>4. IsMilestone(line) /\ line.label = label /\ line.percent = 0 /\ line.completed = 0
    <2>1. (total * 0 + 99) \div 100 = 0
      <3>1. total * 0 = 0
        OBVIOUS
      <3> QED BY <3>1
    <2>2. stage.total = total /\ stage.label = label
      OBVIOUS
    <2> HIDE DEF stage
    <2> QED BY <2>1, <2>2, MilestoneLine
  <1>5. IsSeq(messages) /\ Len(messages) = 1 /\ messages[1] = line
    <2> HIDE DEF line
    <2> QED BY OneLine
  <1>6. w \in Written(q, messages)
    BY DEF Begin
  <1> HIDE DEF stage, line, messages, q
  <1>7. /\ w.stage = stage
        /\ \E n \in 0 .. 1 : Grew(p, w, messages, n)
    <2>1. IsProgress(q) /\ q.stage = stage /\ q.failed = p.failed /\ q.log = log
      BY <1>1, <1>2 DEF IsProgress
    <2>2. w.stage = q.stage /\ \E n \in 0 .. 1 : Grew(q, w, messages, n)
      BY <1>5, <1>6, <2>1, WrittenLines
    <2>3. \A n : Grew(q, w, messages, n) => Grew(p, w, messages, n)
      BY <2>1 DEF Grew
    <2> QED BY <2>1, <2>2, <2>3
  <1>8. PICK n \in 0 .. 1 : Grew(p, w, messages, n)
    BY <1>7
  <1>9. Reports(w)
    <2>1. IsProgress(w)
      BY <1>8 DEF Grew
    <2>2. ASSUME ~w.failed PROVE Ends(w.log, w.stage)
      <3>1. n = 1 /\ Len(w.log) > 0 /\ w.log[Len(w.log)] = line
        <4>1. /\ n = Len(messages)
              /\ n > 0 => Len(w.log) > 0 /\ w.log[Len(w.log)] = messages[n]
          <5>1. n \in Nat /\ IsProgress(p) /\ IsSeq(messages)
            BY <1>5 DEF Reports
          <5> QED BY <1>8, <2>2, <5>1, LinesEnd DEF EndsWith
        <4> QED BY <1>5, <4>1
      <3>2. stage.label = label /\ stage.next_percent - 25 = 0
        BY DEF stage
      <3> QED BY <1>3, <1>4, <1>7, <3>1, <3>2 DEF Ends
    <2> QED BY <2>1, <2>2 DEF Reports
  <1>10. Opened(w, total, 0)
    <2>1. \A percent \in {25, 50, 75} : 0 * 100 < percent * total
      OBVIOUS
    <2> QED BY <1>3, <1>7, <2>1 DEF Opened, stage
  <1>11. Honest(p, w, 0)
    <2>1. Len(log) > 0 /\ ~p.failed => Follows(log[Len(log)], messages[1])
      BY <1>1, <1>4, <1>5 DEF Ends, Follows
    <2>2. \A i \in 1 .. n : i = 1
      OBVIOUS
    <2> QED BY <1>4, <1>5, <1>8, <2>1, <2>2, LinesHonest
  <1>12. NoneComplete(p, w)
    <2> SUFFICES ASSUME NEW m \in Len(log) + 1 .. Len(w.log) PROVE w.log[m].percent # 100
      BY DEF NoneComplete
    <2>1. m - Len(log) \in 1 .. n /\ w.log[m] = messages[m - Len(log)]
      BY <1>8, NewLines DEF Reports
    <2>2. m - Len(log) = 1
      BY <2>1
    <2> QED BY <1>4, <1>5, <2>1, <2>2
  <1> QED BY <1>9, <1>10, <1>11, <1>12

(* The last milestone of a stage comes when all the others are out.        *)
LEMMA FinishLines ==
  ASSUME NEW p, Reports(p), NEW total, Opened(p, total, total), NEW w \in Finish(p)
  PROVE  Reports(w) /\ w.stage = NoStage /\ Honest(p, w, total)
  <1> DEFINE stage == p.stage
             line == Milestone(stage, 100)
             messages == <<line>>
             log == p.log
  <1>1. /\ IsProgress(p) /\ IsSeq(log) /\ Len(log) \in Nat
        /\ ~p.failed => Ends(log, stage)
    BY SeqFacts DEF Reports, IsProgress
  <1>2. stage # NoStage /\ total \in Nat \ {0} /\ stage.total = total /\ stage.next_percent = 100
    <2>1. /\ stage # NoStage /\ total \in Nat \ {0} /\ stage.total = total
          /\ stage.next_percent \in {25, 50, 75, 100}
          /\ \A percent \in {25, 50, 75} :
               percent >= stage.next_percent => total * 100 < percent * total
      BY DEF Opened
    <2>2. ~(total * 100 < 75 * total)
      BY <2>1
    <2> HIDE DEF stage
    <2> QED BY <2>1, <2>2
  <1>3. /\ IsMilestone(line) /\ line.label = stage.label /\ line.percent = 100
        /\ line.completed = total
    <2>1. (total * 100 + 99) \div 100 = total
      BY <1>2
    <2> HIDE DEF stage
    <2> QED BY <1>2, <2>1, MilestoneLine
  <1>4. IsSeq(messages) /\ Len(messages) = 1 /\ messages[1] = line
    <2> HIDE DEF line
    <2> QED BY OneLine
  <1>5. PICK v \in Written(p, messages) : w = [v EXCEPT !.stage = NoStage]
    BY <1>2 DEF Finish
  <1> HIDE DEF stage, line, messages
  <1>6. PICK n \in 0 .. 1 : Grew(p, v, messages, n)
    BY <1>1, <1>4, <1>5, WrittenLines
  <1>7. /\ w = [failed |-> v.failed, stage |-> NoStage, log |-> v.log]
        /\ IsProgress(w) /\ Grew(p, w, messages, n)
    BY <1>5, <1>6 DEF Grew, IsProgress
  <1>8. ASSUME ~w.failed PROVE Ends(w.log, w.stage)
    <2>1. /\ n = Len(messages)
          /\ n > 0 => Len(w.log) > 0 /\ w.log[Len(w.log)] = messages[n]
      <3>1. n \in Nat /\ IsSeq(messages)
        BY <1>4
      <3> QED BY <1>1, <1>7, <1>8, <3>1, LinesEnd DEF EndsWith
    <2>2. w.log[Len(w.log)] = line
      BY <1>4, <2>1
    <2> QED BY <1>3, <1>7, <2>2 DEF Ends
  <1>9. Honest(p, w, total)
    <2>1. Len(log) > 0 /\ ~p.failed => Follows(log[Len(log)], messages[1])
      BY <1>1, <1>2, <1>3, <1>4 DEF Ends, Follows
    <2>2. \A i \in 1 .. n : i = 1
      OBVIOUS
    <2>3. line.completed <= total
      BY <1>2, <1>3
    <2> QED BY <1>3, <1>4, <1>7, <2>1, <2>2, <2>3, LinesHonest
  <1> QED BY <1>7, <1>8, <1>9 DEF Reports

(* Events are no milestones, and come between the stages.                  *)
LEMMA EventLines ==
  ASSUME NEW p, Reports(p), p.stage = NoStage, NEW messages, IsSeq(messages),
         \A i \in DOMAIN messages : ~IsMilestone(messages[i]),
         NEW w \in Written(p, messages), NEW done
  PROVE  Reports(w) /\ w.stage = NoStage /\ Honest(p, w, done) /\ NoneComplete(p, w)
  <1>1. /\ IsProgress(p) /\ IsSeq(p.log) /\ Len(p.log) \in Nat
        /\ ~p.failed => Ends(p.log, p.stage)
    BY SeqFacts DEF Reports, IsProgress
  <1>2. Len(messages) \in Nat /\ DOMAIN messages = 1 .. Len(messages)
    BY SeqFacts
  <1>3. w.stage = NoStage /\ \E n \in 0 .. Len(messages) : Grew(p, w, messages, n)
    BY <1>1, WrittenLines
  <1>4. PICK n \in 0 .. Len(messages) : Grew(p, w, messages, n)
    BY <1>3
  <1>5. n \in Nat /\ IsProgress(w) /\ \A i \in 1 .. n : ~IsMilestone(messages[i])
    <2>1. n \in Nat /\ \A i \in 1 .. n : i \in DOMAIN messages
      BY <1>2
    <2>2. IsProgress(w)
      BY <1>4 DEF Grew
    <2> QED BY <2>1, <2>2
  <1>6. ASSUME ~w.failed PROVE Ends(w.log, w.stage)
    <2>1. /\ ~p.failed
          /\ n > 0 => Len(w.log) > 0 /\ w.log[Len(w.log)] = messages[n]
          /\ n = 0 => /\ Len(w.log) = Len(p.log)
                      /\ Len(p.log) > 0 => w.log[Len(w.log)] = p.log[Len(p.log)]
      BY <1>1, <1>4, <1>5, <1>6, LinesEnd DEF EndsWith
    <2>2. CASE n > 0
      BY <1>3, <1>5, <2>1, <2>2 DEF Ends
    <2>3. CASE n = 0
      BY <1>1, <1>3, <2>1, <2>3 DEF Ends
    <2> QED BY <1>5, <2>2, <2>3
  <1>7. Honest(p, w, done)
    <2>1. n > 0 /\ Len(p.log) > 0 /\ ~p.failed => Follows(p.log[Len(p.log)], messages[1])
      BY <1>1, <1>5 DEF Ends, Follows
    <2>2. \A i \in 1 .. n : i > 1 => Follows(messages[i - 1], messages[i])
      <3>1. ASSUME NEW i \in 1 .. n, i > 1 PROVE Follows(messages[i - 1], messages[i])
        <4>1. i - 1 \in 1 .. n
          BY <3>1
        <4> QED BY <1>5, <4>1 DEF Follows
      <3> QED BY <3>1
    <2> QED BY <1>4, <1>5, <2>1, <2>2, LinesHonest
  <1>8. NoneComplete(p, w)
    <2>1. ASSUME NEW m \in Len(p.log) + 1 .. Len(w.log) PROVE ~IsMilestone(w.log[m])
      <3>1. m - Len(p.log) \in 1 .. n /\ w.log[m] = messages[m - Len(p.log)]
        BY <1>1, <1>4, <1>5, NewLines
      <3> QED BY <1>5, <3>1
    <2> QED BY <2>1 DEF NoneComplete
  <1> QED BY <1>3, <1>5, <1>6, <1>7, <1>8 DEF Reports

(* The milestones due are those from the next one to the last reached.     *)
LEMMA DueMilestones ==
  ASSUME NEW stage, stage.next_percent \in {25, 50, 75, 100},
         NEW total \in Nat \ {0}, stage.total = total, NEW done \in Nat
  PROVE  \E n \in 0 .. 3 :
           LET at(i) == stage.next_percent + 25 * (i - 1)
           IN  /\ Due(stage, done) = [i \in 1 .. n |-> at(i)]
               /\ at(n + 1) \in {25, 50, 75, 100}
               /\ \A i \in 1 .. n : at(i) \in {25, 50, 75} /\ done * 100 >= at(i) * total
               /\ \A percent \in {25, 50, 75} :
                    percent >= at(n + 1) => done * 100 < percent * total
  <1> DEFINE next == stage.next_percent
             reached == {percent \in {25, 50, 75} :
                           percent >= next /\ done * 100 >= percent * total}
             at(i) == next + 25 * (i - 1)
             R(percent) == done * 100 >= percent * total
  <1>1. Due(stage, done) = [i \in 1 .. Cardinality(reached) |-> at(i)]
    BY DEF Due
  <1>2. /\ R(50) => R(25)
        /\ R(75) => R(50)
        /\ \A percent \in {25, 50, 75} : ~R(percent) => done * 100 < percent * total
    <2>1. ASSUME NEW percent \in {25, 50, 75}
          PROVE  ~R(percent) => done * 100 < percent * total
      <3> DEFINE x == percent * total
      <3>1. x \in Nat
        OBVIOUS
      <3> HIDE DEF x
      <3>2. ~(done * 100 >= x) => done * 100 < x
        BY <3>1
      <3> QED BY <3>2 DEF x
    <2>2. R(50) => R(25)
      OBVIOUS
    <2>3. R(75) => R(50)
      OBVIOUS
    <2> HIDE DEF R
    <2> QED BY <2>1, <2>2, <2>3
  <1>3. /\ Cardinality({}) = 0 /\ Cardinality({25}) = 1 /\ Cardinality({50}) = 1
        /\ Cardinality({75}) = 1 /\ Cardinality({25, 50}) = 2 /\ Cardinality({50, 75}) = 2
        /\ Cardinality({25, 50, 75}) = 3
    <2>1. /\ Cardinality({}) = 0 /\ \A x : IsFiniteSet({x}) /\ Cardinality({x}) = 1
      BY FS_EmptySet, FS_Singleton
    <2>2. ASSUME NEW S, IsFiniteSet(S), NEW x, x \notin S
          PROVE  IsFiniteSet(S \cup {x}) /\ Cardinality(S \cup {x}) = Cardinality(S) + 1
      BY <2>2, FS_AddElement
    <2>3. /\ {25, 50} = {25} \cup {50} /\ {50, 75} = {50} \cup {75}
          /\ {25, 50, 75} = {25, 50} \cup {75}
          /\ 50 \notin {25} /\ 75 \notin {50} /\ 75 \notin {25, 50}
      OBVIOUS
    <2>4. Cardinality({25, 50}) = 2 /\ IsFiniteSet({25, 50}) /\ Cardinality({50, 75}) = 2
      <3>1. /\ IsFiniteSet({25}) /\ Cardinality({25}) = 1
            /\ IsFiniteSet({50}) /\ Cardinality({50}) = 1
        BY <2>1
      <3>2. /\ IsFiniteSet({25} \cup {50}) /\ Cardinality({25} \cup {50}) = 1 + 1
            /\ Cardinality({50} \cup {75}) = 1 + 1
        BY <2>2, <2>3, <3>1
      <3> QED BY <2>3, <3>2
    <2>5. Cardinality({25, 50, 75}) = 3
      BY <2>2, <2>3, <2>4
    <2> QED BY <2>1, <2>4, <2>5
  <1>4. \E n \in 0 .. 3 :
          /\ Cardinality(reached) = n
          /\ at(n + 1) \in {25, 50, 75, 100}
          /\ \A i \in 1 .. n : at(i) \in {25, 50, 75} /\ R(at(i))
          /\ \A percent \in {25, 50, 75} : percent >= at(n + 1) => ~R(percent)
    <2>1. reached = {percent \in {25, 50, 75} : percent >= next /\ R(percent)}
      OBVIOUS
    <2>2. next \in {25, 50, 75, 100}
      OBVIOUS
    <2> HIDE DEF next, reached, R
    <2>3. CASE reached = {}
      <3>1. \A i \in 1 .. 0 : FALSE
        OBVIOUS
      <3>2. \A percent \in {25, 50, 75} : percent >= next => ~R(percent)
        BY <2>1, <2>3
      <3>3. at(0 + 1) = next
        BY <2>2
      <3> QED BY <1>3, <2>2, <2>3, <3>1, <3>2, <3>3
    <2>7. CASE next = 75 /\ R(75)
      <3>1. R(75)
        BY <1>2, <2>7
      <3>2. reached = {75}
        BY <2>1, <2>7, <3>1
      <3>3. Cardinality(reached) = 1
        BY <1>3, <3>2
      <3>4. \A i \in 1 .. 1 : at(i) \in {75} /\ R(at(i))
        <4>1. at(1) = 75
          BY <2>7
        <4> HIDE DEF at
        <4>2. \A i \in 1 .. 1 : i = 1
          OBVIOUS
        <4> QED BY <3>1, <4>1, <4>2
      <3>5. at(1 + 1) = 100
        BY <2>7
      <3>6. \A percent \in {25, 50, 75} : percent >= 100 => ~R(percent)
        BY <1>2, <2>7
      <3> HIDE DEF at
      <3> QED BY <3>3, <3>4, <3>5, <3>6
    <2>8. CASE next = 50 /\ R(75)
      <3>1. R(50) /\ R(75)
        BY <1>2, <2>8
      <3>2. reached = {50, 75}
        BY <2>1, <2>8, <3>1
      <3>3. Cardinality(reached) = 2
        BY <1>3, <3>2
      <3>4. \A i \in 1 .. 2 : at(i) \in {50, 75} /\ R(at(i))
        <4>1. at(1) = 50 /\ at(2) = 75
          BY <2>8
        <4> HIDE DEF at
        <4>2. \A i \in 1 .. 2 : i = 1 \/ i = 2
          OBVIOUS
        <4> QED BY <3>1, <4>1, <4>2
      <3>5. at(2 + 1) = 100
        BY <2>8
      <3>6. \A percent \in {25, 50, 75} : percent >= 100 => ~R(percent)
        BY <1>2, <2>8
      <3> HIDE DEF at
      <3> QED BY <3>3, <3>4, <3>5, <3>6
    <2>9. CASE next = 50 /\ R(50) /\ ~R(75)
      <3>1. R(50)
        BY <1>2, <2>9
      <3>2. reached = {50}
        BY <2>1, <2>9, <3>1
      <3>3. Cardinality(reached) = 1
        BY <1>3, <3>2
      <3>4. \A i \in 1 .. 1 : at(i) \in {50} /\ R(at(i))
        <4>1. at(1) = 50
          BY <2>9
        <4> HIDE DEF at
        <4>2. \A i \in 1 .. 1 : i = 1
          OBVIOUS
        <4> QED BY <3>1, <4>1, <4>2
      <3>5. at(1 + 1) = 75
        BY <2>9
      <3>6. \A percent \in {25, 50, 75} : percent >= 75 => ~R(percent)
        BY <1>2, <2>9
      <3> HIDE DEF at
      <3> QED BY <3>3, <3>4, <3>5, <3>6
    <2>10. CASE next = 25 /\ R(75)
      <3>1. R(25) /\ R(50) /\ R(75)
        BY <1>2, <2>10
      <3>2. reached = {25, 50, 75}
        BY <2>1, <2>10, <3>1
      <3>3. Cardinality(reached) = 3
        BY <1>3, <3>2
      <3>4. \A i \in 1 .. 3 : at(i) \in {25, 50, 75} /\ R(at(i))
        <4>1. at(1) = 25 /\ at(2) = 50 /\ at(3) = 75
          BY <2>10
        <4> HIDE DEF at
        <4>2. \A i \in 1 .. 3 : i = 1 \/ i = 2 \/ i = 3
          OBVIOUS
        <4> QED BY <3>1, <4>1, <4>2
      <3>5. at(3 + 1) = 100
        BY <2>10
      <3>6. \A percent \in {25, 50, 75} : percent >= 100 => ~R(percent)
        BY <1>2, <2>10
      <3> HIDE DEF at
      <3> QED BY <3>3, <3>4, <3>5, <3>6
    <2>11. CASE next = 25 /\ R(50) /\ ~R(75)
      <3>1. R(25) /\ R(50)
        BY <1>2, <2>11
      <3>2. reached = {25, 50}
        BY <2>1, <2>11, <3>1
      <3>3. Cardinality(reached) = 2
        BY <1>3, <3>2
      <3>4. \A i \in 1 .. 2 : at(i) \in {25, 50} /\ R(at(i))
        <4>1. at(1) = 25 /\ at(2) = 50
          BY <2>11
        <4> HIDE DEF at
        <4>2. \A i \in 1 .. 2 : i = 1 \/ i = 2
          OBVIOUS
        <4> QED BY <3>1, <4>1, <4>2
      <3>5. at(2 + 1) = 75
        BY <2>11
      <3>6. \A percent \in {25, 50, 75} : percent >= 75 => ~R(percent)
        BY <1>2, <2>11
      <3> HIDE DEF at
      <3> QED BY <3>3, <3>4, <3>5, <3>6
    <2>12. CASE next = 25 /\ R(25) /\ ~R(50)
      <3>1. R(25)
        BY <1>2, <2>12
      <3>2. reached = {25}
        <4>1. ~R(50) /\ ~R(75)
          BY <1>2, <2>12
        <4> QED BY <2>1, <2>12, <3>1, <4>1
      <3>3. Cardinality(reached) = 1
        BY <1>3, <3>2
      <3>4. \A i \in 1 .. 1 : at(i) \in {25} /\ R(at(i))
        <4>1. at(1) = 25
          BY <2>12
        <4> HIDE DEF at
        <4>2. \A i \in 1 .. 1 : i = 1
          OBVIOUS
        <4> QED BY <3>1, <4>1, <4>2
      <3>5. at(1 + 1) = 50
        BY <2>12
      <3>6. \A percent \in {25, 50, 75} : percent >= 50 => ~R(percent)
        BY <1>2, <2>12
      <3> HIDE DEF at
      <3> QED BY <3>3, <3>4, <3>5, <3>6
    <2>20. CASE reached # {}
      <3>1. next \in {25, 50, 75} /\ \E percent \in {25, 50, 75} : percent >= next /\ R(percent)
        BY <2>1, <2>2, <2>20
      <3>2. R(next)
        BY <1>2, <3>1
      <3> HIDE DEF at
      <3> QED BY <3>1, <3>2, <2>7, <2>8, <2>9, <2>10, <2>11, <2>12
    <2> QED BY <2>3, <2>20
  <1> HIDE DEF reached
  <1>5. PICK n \in 0 .. 3 :
          /\ Cardinality(reached) = n
          /\ at(n + 1) \in {25, 50, 75, 100}
          /\ \A i \in 1 .. n : at(i) \in {25, 50, 75} /\ R(at(i))
          /\ \A percent \in {25, 50, 75} : percent >= at(n + 1) => ~R(percent)
    BY <1>4
  <1>6. Due(stage, done) = [i \in 1 .. n |-> at(i)]
    BY <1>1, <1>5
  <1>7. \A percent \in {25, 50, 75} : percent >= at(n + 1) => done * 100 < percent * total
    BY <1>2, <1>5
  <1>8. \A i \in 1 .. n : at(i) \in {25, 50, 75} /\ done * 100 >= at(i) * total
    BY <1>5
  <1>9. at(n + 1) \in {25, 50, 75, 100}
    BY <1>5
  <1> QED BY <1>6, <1>7, <1>8, <1>9

(* A unit is done: the milestones it reaches are written, none before.     *)
LEMMA AdvanceLines ==
  ASSUME NEW p, Reports(p), NEW total, NEW done \in Nat, Opened(p, total, done),
         NEW w \in Advance(p, done + 1)
  PROVE  /\ Reports(w) /\ Opened(w, total, done + 1)
         /\ Honest(p, w, done + 1) /\ NoneComplete(p, w)
  <1> DEFINE stage == p.stage
             next == stage.next_percent
             at(i) == next + 25 * (i - 1)
             due == Due(stage, done + 1)
             messages == [i \in DOMAIN due |-> Milestone(stage, due[i])]
             q == [p EXCEPT !.stage.next_percent = @ + 25 * Len(due)]
             log == p.log
  <1>1. /\ IsProgress(p) /\ p = [failed |-> p.failed, stage |-> stage, log |-> log]
        /\ p.failed \in BOOLEAN /\ IsSeq(log) /\ Len(log) \in Nat
        /\ ~p.failed => Ends(log, stage)
    BY SeqFacts DEF Reports, IsProgress
  <1>2. /\ stage # NoStage /\ total \in Nat \ {0} /\ stage.total = total
        /\ stage = [label |-> stage.label, total |-> total, per_unit |-> stage.per_unit,
                    next_percent |-> next]
        /\ next \in {25, 50, 75, 100}
    BY DEF Opened
  <1>3. PICK n \in 0 .. 3 :
          /\ due = [i \in 1 .. n |-> at(i)]
          /\ at(n + 1) \in {25, 50, 75, 100}
          /\ \A i \in 1 .. n : at(i) \in {25, 50, 75} /\ (done + 1) * 100 >= at(i) * total
          /\ \A percent \in {25, 50, 75} :
               percent >= at(n + 1) => (done + 1) * 100 < percent * total
    <2> DEFINE d == done + 1
    <2>1. d \in Nat
      OBVIOUS
    <2>2. stage.next_percent \in {25, 50, 75, 100} /\ total \in Nat \ {0} /\ stage.total = total
      BY <1>2
    <2> HIDE DEF stage, d
    <2>3. \E n \in 0 .. 3 :
            /\ Due(stage, d) = [i \in 1 .. n |-> at(i)]
            /\ at(n + 1) \in {25, 50, 75, 100}
            /\ \A i \in 1 .. n : at(i) \in {25, 50, 75} /\ d * 100 >= at(i) * total
            /\ \A percent \in {25, 50, 75} : percent >= at(n + 1) => d * 100 < percent * total
      BY ONLY <2>1, <2>2, DueMilestones
    <2> QED BY <2>3 DEF d
  <1> HIDE DEF due
  <1>4. due \in [1 .. n -> {25, 50, 75}] /\ Len(due) = n /\ DOMAIN due = 1 .. n
    <2>1. due \in [1 .. n -> {25, 50, 75}]
      <3> HIDE DEF at
      <3> QED BY <1>3
    <2> QED BY <2>1, LengthOf
  <1>5. /\ IsSeq(messages) /\ Len(messages) = n
        /\ \A i \in 1 .. n : messages[i] = Milestone(stage, due[i])
    <2> DEFINE T == {Milestone(stage, due[i]) : i \in 1 .. n}
    <2>1. messages \in [1 .. n -> T]
      BY <1>4
    <2> HIDE DEF messages, T
    <2>2. messages \in Seq(T) /\ Len(messages) = n
      BY <2>1, LengthOf
    <2> QED BY <1>4, <2>2, SeqOfItself DEF messages
  <1>6. w \in Written(q, messages)
    BY <1>2 DEF Advance, due
  <1> DEFINE later == [label |-> stage.label, total |-> total, per_unit |-> stage.per_unit,
                       next_percent |-> at(n + 1)]
  <1>7. q = [failed |-> p.failed, stage |-> later, log |-> log]
    <2>1. next + 25 * Len(due) = at(n + 1)
      BY <1>2, <1>4
    <2>2. [stage EXCEPT !.next_percent = next + 25 * Len(due)] = later
      <3> HIDE DEF stage, next, at
      <3> QED BY <1>2, <2>1
    <2> QED BY <1>1, <2>2
  <1>8. /\ \A i \in 1 .. n :
             /\ IsMilestone(messages[i]) /\ messages[i].label = stage.label
             /\ messages[i].percent = at(i) /\ messages[i].completed <= done + 1
             /\ at(i) # 100
    <2> SUFFICES ASSUME NEW i \in 1 .. n
                 PROVE  /\ IsMilestone(messages[i]) /\ messages[i].label = stage.label
                        /\ messages[i].percent = at(i) /\ messages[i].completed <= done + 1
                        /\ at(i) # 100
      OBVIOUS
    <2> DEFINE a == at(i)
               x == total * a
    <2>1. due[i] = a /\ a \in {25, 50, 75} /\ (done + 1) * 100 >= a * total
      BY <1>3
    <2>2. messages[i] = Milestone(stage, a)
      BY <1>5, <2>1
    <2> HIDE DEF a, stage, messages
    <2>3. x \in Nat /\ x = a * total
      BY <1>2, <2>1
    <2>4. (x + 99) \div 100 <= done + 1
      <3> HIDE DEF x
      <3>1. x <= (done + 1) * 100
        BY <2>1, <2>3
      <3>2. x + 99 < (done + 2) * 100
        BY <2>3, <3>1
      <3> QED BY <2>3, <3>2
    <2>5. /\ IsMilestone(messages[i]) /\ messages[i].label = stage.label
          /\ messages[i].percent = a /\ messages[i].completed = (x + 99) \div 100
      BY <1>2, <2>2, MilestoneLine
    <2>6. a # 100
      BY <2>1
    <2> HIDE DEF x
    <2> QED BY <2>4, <2>5, <2>6 DEF a
  <1> HIDE DEF messages, q
  <1>9. w.stage = later /\ \E m \in 0 .. n : Grew(p, w, messages, m)
    <2> HIDE DEF later
    <2>1. IsProgress(q) /\ q.stage = later /\ q.failed = p.failed /\ q.log = log
      BY <1>1, <1>7 DEF IsProgress
    <2>2. w.stage = q.stage /\ \E m \in 0 .. n : Grew(q, w, messages, m)
      BY <1>5, <1>6, <2>1, WrittenLines
    <2>3. \A m : Grew(q, w, messages, m) => Grew(p, w, messages, m)
      BY <2>1 DEF Grew
    <2> QED BY <2>1, <2>2, <2>3
  <1>10. PICK m \in 0 .. n : Grew(p, w, messages, m)
    BY <1>9
  <1>11. later # NoStage
    <2>1. NoStage = [NoStage EXCEPT !.total = 0] /\ NoStage.total = 0 /\ later.total = total
      BY DEF NoStage
    <2> QED BY <1>2, <2>1
  <1>12. Reports(w)
    <2>1. IsProgress(w)
      BY <1>10 DEF Grew
    <2>2. ASSUME ~w.failed PROVE Ends(w.log, w.stage)
      <3>1. /\ ~p.failed /\ m = n
            /\ m > 0 => Len(w.log) > 0 /\ w.log[Len(w.log)] = messages[m]
            /\ m = 0 => /\ Len(w.log) = Len(log)
                        /\ Len(log) > 0 => w.log[Len(w.log)] = log[Len(log)]
        <4>1. m \in Nat /\ IsSeq(messages) /\ IsProgress(p)
          BY <1>1, <1>5
        <4>2. /\ ~p.failed /\ m = Len(messages)
              /\ m > 0 => Len(w.log) > 0 /\ w.log[Len(w.log)] = messages[m]
              /\ m = 0 => /\ Len(w.log) = Len(log)
                          /\ Len(log) > 0 => w.log[Len(w.log)] = log[Len(log)]
          <5> HIDE DEF messages
          <5>1. IsProgress(p) /\ IsSeq(messages) /\ m \in Nat /\ Grew(p, w, messages, m) /\ ~w.failed
            BY <1>10, <2>2, <4>1
          <5>2. EndsWith(p, w, messages, m)
            BY <5>1, LinesEnd
          <5> QED BY <5>2 DEF EndsWith
        <4> HIDE DEF log
        <4> QED BY <1>5, <4>2
      <3>2. later.label = stage.label /\ later.next_percent = at(n + 1)
        OBVIOUS
      <3>3. at(n + 1) - 25 = IF n = 0 THEN next - 25 ELSE at(n)
        BY <1>2
      <3> HIDE DEF later
      <3>4. CASE n > 0
        <4>1. /\ IsMilestone(messages[n]) /\ messages[n].label = stage.label
              /\ messages[n].percent = at(n)
          <5> HIDE DEF at, stage
          <5> QED BY <1>8, <3>4
        <4> HIDE DEF at, stage
        <4> QED BY <1>9, <1>11, <3>1, <3>2, <3>3, <3>4, <4>1 DEF Ends
      <3>5. CASE n = 0
        BY <1>1, <1>2, <1>9, <1>11, <3>1, <3>2, <3>3, <3>5 DEF Ends
      <3> QED BY <3>4, <3>5
    <2> QED BY <2>1, <2>2 DEF Reports
  <1>13. Opened(w, total, done + 1)
    BY <1>2, <1>3, <1>9, <1>11 DEF Opened
  <1>14. Honest(p, w, done + 1)
    <2>1. m > 0 /\ Len(log) > 0 /\ ~p.failed => Follows(log[Len(log)], messages[1])
      <3> SUFFICES ASSUME m > 0, Len(log) > 0, ~p.failed
                   PROVE  Follows(log[Len(log)], messages[1])
        OBVIOUS
      <3>1. /\ IsMilestone(messages[1]) /\ messages[1].label = stage.label
            /\ messages[1].percent = at(1) /\ at(1) \in {25, 50, 75}
        <4>1. 1 \in 1 .. n
          OBVIOUS
        <4> HIDE DEF at, stage
        <4> QED BY <1>3, <1>8, <4>1
      <3>2. at(1) = next
        BY <1>2
      <3>3. /\ IsMilestone(log[Len(log)]) /\ log[Len(log)].label = stage.label
            /\ log[Len(log)].percent = next - 25
        BY <1>1, <1>2 DEF Ends
      <3> HIDE DEF at, next, stage, log
      <3> QED BY <3>1, <3>2, <3>3 DEF Follows
    <2>2. \A i \in 1 .. m : i > 1 => Follows(messages[i - 1], messages[i])
      <3> SUFFICES ASSUME NEW i \in 1 .. m, i > 1 PROVE Follows(messages[i - 1], messages[i])
        OBVIOUS
      <3>1. i \in 1 .. n /\ i - 1 \in 1 .. n
        OBVIOUS
      <3>2. at(i - 1) = at(i) - 25
        BY <1>2
      <3> HIDE DEF at, stage
      <3>3. at(i) \in {25, 50, 75}
        BY <1>3, <3>1
      <3> QED BY <1>8, <3>1, <3>2, <3>3 DEF Follows
    <2>3. \A i \in 1 .. m : i \in 1 .. n
      OBVIOUS
    <2>4. \A i \in 1 .. m : IsMilestone(messages[i]) => messages[i].completed <= done + 1
      <3> HIDE DEF at, stage
      <3> QED BY <1>8, <2>3
    <2>5. m \in Nat
      OBVIOUS
    <2> HIDE DEF at, stage, next
    <2> QED BY <1>10, <2>1, <2>2, <2>4, <2>5, LinesHonest
  <1>15. NoneComplete(p, w)
    <2> SUFFICES ASSUME NEW l \in Len(log) + 1 .. Len(w.log) PROVE w.log[l].percent # 100
      BY DEF NoneComplete
    <2>1. l - Len(log) \in 1 .. m /\ w.log[l] = messages[l - Len(log)]
      <3>1. m \in Nat /\ IsProgress(p)
        BY <1>1
      <3> QED BY <1>10, <3>1, NewLines
    <2>2. l - Len(log) \in 1 .. n
      BY <2>1
    <2> HIDE DEF at, stage
    <2> QED BY <1>8, <2>1, <2>2
  <1> QED BY <1>12, <1>13, <1>14, <1>15

-----------------------------------------------------------------------------
(* The reports of a step, when it is one call of a method.                 *)
LEMMA StepHonest ==
  ASSUME Honest(progress, progress', completed'),
         NoneComplete(progress, progress')
           \/ (completed' = completed /\ error' \in {"none", "report"})
  PROVE  NewLinesHonest
  BY DEF Honest, NoneComplete, NewLinesHonest

(* A step that reports nothing.                                            *)
LEMMA NothingReported ==
  ASSUME LinesInv, progress' = progress
  PROVE  NewLinesHonest /\ Reports(progress)'
  <1>1. Len(progress.log) \in Nat
    BY SeqFacts DEF LinesInv, Reports, IsProgress
  <1>2. ~ \E n \in Len(progress.log) + 1 .. Len(progress.log) : TRUE
    BY <1>1
  <1> QED BY <1>2 DEF NewLinesHonest, LinesInv

(* A step that aborts and reports nothing.                                 *)
LEMMA AbortLines ==
  ASSUME LinesInv, pc' = "aborted", progress' = progress
  PROVE  LinesInv' /\ NewLinesHonest
  BY NothingReported DEF LinesInv, Reading, Preparing, Warming, Timing, Running

(* The stages of the loading.                                              *)
LEMMA FileStages ==
  ASSUME NEW f \in 1 .. 3
  PROVE  Label(f) # "none" /\ Records(f) \in Nat \ {0}
  <1>1. /\ BASE_ROWS \in Nat \ {0} /\ QUERY_ROWS \in Nat \ {0}
    <2>1. BASE_ROWS \in Nat /\ QUERY_ROWS \in Nat /\ K \in Nat \ {0}
      BY FileSizes
    <2> QED BY <2>1, SiftAssumption DEF K
  <1>2. f = 1 \/ f = 2 \/ f = 3
    OBVIOUS
  <1>3. Label(1) # "none" /\ Label(2) # "none" /\ Label(3) # "none"
    BY DEF Label
  <1>4. Records(1) = BASE_ROWS /\ Records(2) = QUERY_ROWS /\ Records(3) = QUERY_ROWS
    BY DEF Records
  <1> QED BY <1>1, <1>2, <1>3, <1>4

(* The loading of the files.                                               *)
LEMMA LoadLines ==
  ASSUME RecallInv, LinesInv, Load, UNCHANGED runVars
  PROVE  LinesInv' /\ NewLinesHonest
  <1> USE DEF Reading, Preparing, Warming, Timing, Running
  <1>1. file \in 1 .. 3 /\ completed \in Nat
    BY DEF RecallInv, LoadInv
  <1>2. CASE ParseArgs
    BY <1>2, NothingReported DEF ParseArgs, LinesInv
  <1>3. CASE Open
    <2>1. CASE pc' = "aborted" /\ progress' = progress
      BY <2>1, AbortLines
    <2>2. CASE /\ pc = "open" /\ pc' = "read" /\ completed' = 0 /\ UNCHANGED <<file, error>>
               /\ progress' \in Begin(progress, Label(file), Records(file), 0)
      <3>1. /\ Reports(progress') /\ Opened(progress', Records(file), 0)
            /\ Honest(progress, progress', 0) /\ NoneComplete(progress, progress')
        <4>1. Reports(progress) /\ progress.stage = NoStage
          BY <2>2 DEF LinesInv
        <4> QED BY <1>1, <2>2, <4>1, FileStages, BeginLines
      <3>2. NewLinesHonest
        BY <2>2, <3>1, StepHonest
      <3>3. Records(file)' = Records(file) /\ error' = "none"
        BY <2>2 DEF Records, LinesInv
      <3> QED BY <2>2, <3>1, <3>2, <3>3 DEF LinesInv
    <2> QED BY <1>3, <2>1, <2>2 DEF Open, Abort, loadVars
  <1>4. CASE ReadRecord
    <2>1. CASE pc' = "aborted" /\ progress' = progress
      BY <2>1, AbortLines
    <2>2. CASE /\ pc = "read" /\ pc' = "read" /\ completed' = completed + 1
               /\ UNCHANGED <<file, error>> /\ progress' \in Advance(progress, completed + 1)
      <3>1. /\ Reports(progress') /\ Opened(progress', Records(file), completed + 1)
            /\ Honest(progress, progress', completed + 1) /\ NoneComplete(progress, progress')
        <4>1. Reports(progress) /\ Opened(progress, Records(file), completed)
          BY <2>2 DEF LinesInv
        <4> QED BY <1>1, <2>2, <4>1, AdvanceLines
      <3>2. NewLinesHonest
        BY <2>2, <3>1, StepHonest
      <3>3. Records(file)' = Records(file) /\ error' = "none"
        BY <2>2 DEF Records, LinesInv
      <3> QED BY <2>2, <3>1, <3>2, <3>3 DEF LinesInv
    <2> QED BY <1>4, <2>1, <2>2 DEF ReadRecord, Abort, loadVars
  <1>5. CASE EndFile
    <2>1. CASE pc' = "aborted" /\ progress' = progress
      BY <2>1, AbortLines
    <2>2. CASE /\ pc = "read" /\ pc' \in {"build", "open"} /\ completed = Records(file)
               /\ UNCHANGED <<completed, error>> /\ progress' \in Finish(progress)
      <3>1. /\ Reports(progress') /\ progress'.stage = NoStage
            /\ Honest(progress, progress', completed)
        <4>1. Reports(progress) /\ Opened(progress, completed, completed)
          BY <2>2 DEF LinesInv
        <4> QED BY <2>2, <4>1, FinishLines
      <3>2. error' = "none"
        BY <2>2 DEF LinesInv
      <3>3. NewLinesHonest
        BY <2>2, <3>1, <3>2, StepHonest
      <3> QED BY <2>2, <3>1, <3>2, <3>3 DEF LinesInv
    <2> QED BY <1>5, <2>1, <2>2 DEF EndFile, Abort
  <1> QED BY <1>2, <1>3, <1>4, <1>5 DEF Load

(* The builds are announced.                                               *)
LEMMA BuildLines ==
  ASSUME LinesInv, Build
  PROVE  LinesInv' /\ NewLinesHonest
  <1> USE DEF Reading, Preparing, Warming, Timing, Running
  <1> DEFINE start == EventLine(INDEX_NAMES[built + 1], "start")
             end   == EventLine(INDEX_NAMES[built + 1], "complete")
  <1>1. ~IsMilestone(start) /\ ~IsMilestone(end)
    BY DEF EventLine, IsMilestone
  <1>2. /\ pc = "build" /\ completed' = completed /\ Reports(progress)
        /\ progress.stage = NoStage
    BY DEF Build, Abort, LinesInv
  <1>3. \/ progress' \in Written(progress, <<start>>) /\ pc' = "aborted"
        \/ /\ progress' \in Written(progress, <<start, end>>)
           /\ pc' \in {"build", "select"} /\ error' = "none"
    BY DEF Build, Abort, LinesInv
  <1> HIDE DEF start, end
  <1>4. \E messages : /\ IsSeq(messages) /\ \A i \in DOMAIN messages : ~IsMilestone(messages[i])
                      /\ progress' \in Written(progress, messages)
    <2>1. /\ IsSeq(<<start>>) /\ \A i \in DOMAIN <<start>> : <<start>>[i] = start
      <3>1. \A i \in 1 .. 1 : i = 1
        OBVIOUS
      <3> QED BY <3>1, OneLine, SeqFacts
    <2>2. /\ IsSeq(<<start, end>>)
          /\ \A i \in DOMAIN <<start, end>> : <<start, end>>[i] \in {start, end}
      <3> DEFINE s == <<start, end>>
      <3>1. s \in Seq({start, end}) /\ DOMAIN s = 1 .. 2
        OBVIOUS
      <3>2. \A i \in 1 .. 2 : s[i] \in {start, end}
        <4>1. s[1] = start /\ s[2] = end /\ \A i \in 1 .. 2 : i = 1 \/ i = 2
          OBVIOUS
        <4> HIDE DEF s
        <4> QED BY <4>1
      <3> HIDE DEF s
      <3>3. IsSeq(s)
        BY <3>1, SeqOfItself
      <3> QED BY <3>1, <3>2, <3>3 DEF s
    <2> QED BY <1>1, <1>3, <2>1, <2>2
  <1>5. /\ Reports(progress') /\ progress'.stage = NoStage
        /\ Honest(progress, progress', completed') /\ NoneComplete(progress, progress')
    BY <1>2, <1>4, EventLines
  <1>6. NewLinesHonest
    BY <1>5, StepHonest
  <1> QED BY <1>3, <1>5, <1>6 DEF LinesInv

(* The stage of the truth, when it is recomputed.                          *)
LEMMA TruthLines ==
  ASSUME RecallInv, LinesInv, SelectTruth \/ RecomputeTruth
  PROVE  LinesInv' /\ NewLinesHonest
  <1> USE DEF Reading, Preparing, Warming, Timing, Running
  <1>1. /\ pc \in {"select", "truth"} /\ Total \in Nat \ {0} /\ Total' = Total /\ completed \in Nat
        /\ error = "none" /\ error' = "none"
    <2>1. pc \in {"select", "truth"} /\ UNCHANGED <<loadVars, error>>
      BY DEF SelectTruth, RecomputeTruth
    <2>2. Total \in Nat /\ Total > 0
      BY <2>1, Loaded DEF RecallInv
    <2> QED BY <2>1, <2>2, DataFixed DEF LinesInv, RecallInv, LoadInv
  <1>2. CASE pc' = "build" /\ progress' = progress /\ pc = "select"
    BY <1>1, <1>2, NothingReported DEF LinesInv
  <1>3. CASE /\ pc = "select" /\ pc' = "truth" /\ completed' = 0
             /\ progress' \in Begin(progress, "recompute smoke truth", Total, 0)
    <2>1. /\ Reports(progress') /\ Opened(progress', Total, 0)
          /\ Honest(progress, progress', 0) /\ NoneComplete(progress, progress')
      <3>1. Reports(progress) /\ progress.stage = NoStage
        BY <1>3 DEF LinesInv
      <3> QED BY <1>1, <1>3, <3>1, BeginLines
    <2>2. NewLinesHonest
      BY <1>3, <2>1, StepHonest
    <2> QED BY <1>1, <1>3, <2>1, <2>2 DEF LinesInv
  <1>4. CASE /\ pc = "truth" /\ pc' = "truth" /\ completed' = completed + 1
             /\ progress' \in Advance(progress, completed + 1)
    <2>1. /\ Reports(progress') /\ Opened(progress', Total, completed + 1)
          /\ Honest(progress, progress', completed + 1) /\ NoneComplete(progress, progress')
      <3>1. Reports(progress) /\ Opened(progress, Total, completed)
        BY <1>4 DEF LinesInv
      <3> QED BY <1>1, <1>4, <3>1, AdvanceLines
    <2>2. NewLinesHonest
      BY <1>4, <2>1, StepHonest
    <2> QED BY <1>1, <1>4, <2>1, <2>2 DEF LinesInv
  <1>5. CASE /\ pc = "truth" /\ pc' = "build" /\ completed = Total /\ completed' = completed
             /\ progress' \in Finish(progress)
    <2>1. /\ Reports(progress') /\ progress'.stage = NoStage
          /\ Honest(progress, progress', completed)
      <3>1. Reports(progress) /\ Opened(progress, completed, completed)
        BY <1>5 DEF LinesInv
      <3> QED BY <1>5, <3>1, FinishLines
    <2>2. NewLinesHonest
      BY <1>1, <1>5, <2>1, StepHonest
    <2> QED BY <1>1, <1>5, <2>1, <2>2 DEF LinesInv
  <1> QED BY <1>2, <1>3, <1>4, <1>5 DEF SelectTruth, RecomputeTruth

(* What the passes rely on.                                                *)
LEMMA PassSizes ==
  ASSUME RecallInv, LinesInv, pc \in {"build", "warm", "warmed", "timed"}, UNCHANGED loadVars
  PROVE  /\ Total \in Nat \ {0} /\ Total' = Total
         /\ WarmRounds \in Nat /\ WarmRounds' = WarmRounds /\ WarmCount = WarmRounds
         /\ completed \in Nat /\ error = "none" /\ Reports(progress)
  <1> USE DEF Reading, Preparing, Warming, Timing, Running
  <1>1. Total \in Nat /\ Total > 0
    BY Loaded DEF RecallInv
  <1>2. WarmRounds \in Nat /\ WarmCount = WarmRounds
    BY <1>1, WarmCapped
  <1>3. Total' = Total /\ WarmRounds' = WarmRounds
    BY DataFixed DEF WarmRounds, WarmCount
  <1> QED BY <1>1, <1>2, <1>3 DEF RecallInv, LoadInv, LinesInv

(* The stages of the passes begin, and end.                                *)
LEMMA PassLines ==
  ASSUME RecallInv, LinesInv, BeginWarm \/ EndWarm \/ BeginTimed \/ Report
  PROVE  LinesInv' /\ NewLinesHonest
  <1> USE DEF Reading, Preparing, Warming, Timing, Running
  <1>1. pc \in {"build", "warm", "warmed", "timed"} /\ UNCHANGED loadVars
    BY DEF BeginWarm, EndWarm, BeginTimed, Report
  <1>2. /\ Total \in Nat \ {0} /\ Total' = Total
        /\ WarmRounds \in Nat /\ WarmRounds' = WarmRounds /\ WarmCount = WarmRounds
        /\ completed \in Nat /\ error = "none" /\ Reports(progress)
    BY <1>1, PassSizes
  <1>3. CASE BeginWarm
    <2>1. /\ pc = "build" /\ pc' = "warm" /\ completed' = 0 /\ error' = error
          /\ progress.stage = NoStage
      BY <1>3 DEF BeginWarm, LinesInv
    <2>2. CASE WarmRounds = 0
      <3>1. progress' = progress
        BY <1>2, <1>3, <2>2 DEF BeginWarm
      <3> QED BY <1>2, <2>1, <2>2, <3>1, NothingReported DEF LinesInv
    <2>3. CASE WarmRounds # 0
      <3>1. progress' \in Begin(progress, "warm search", WarmRounds, INDEX_COUNT)
        BY <1>2, <1>3, <2>3 DEF BeginWarm
      <3>2. /\ Reports(progress') /\ Opened(progress', WarmRounds, 0)
            /\ Honest(progress, progress', 0) /\ NoneComplete(progress, progress')
        BY <1>2, <2>1, <2>3, <3>1, BeginLines
      <3>3. NewLinesHonest
        BY <2>1, <3>2, StepHonest
      <3> QED BY <1>2, <2>1, <2>3, <3>2, <3>3 DEF LinesInv
    <2> QED BY <2>2, <2>3
  <1>4. CASE EndWarm
    <2>1. /\ pc = "warm" /\ pc' = "warmed" /\ completed = WarmRounds
          /\ completed' = completed /\ error' = error
      BY <1>4 DEF EndWarm
    <2>2. CASE WarmRounds = 0
      <3>1. progress' = progress /\ progress.stage = NoStage
        BY <1>2, <1>4, <2>1, <2>2 DEF EndWarm, LinesInv
      <3> QED BY <1>2, <2>1, <3>1, NothingReported DEF LinesInv
    <2>3. CASE WarmRounds # 0
      <3>1. progress' \in Finish(progress) /\ Opened(progress, completed, completed)
        BY <1>2, <1>4, <2>1, <2>3 DEF EndWarm, LinesInv
      <3>2. /\ Reports(progress') /\ progress'.stage = NoStage
            /\ Honest(progress, progress', completed)
        BY <1>2, <3>1, FinishLines
      <3>3. NewLinesHonest
        BY <1>2, <2>1, <3>2, StepHonest
      <3> QED BY <1>2, <2>1, <3>2, <3>3 DEF LinesInv
    <2> QED BY <2>2, <2>3
  <1>5. CASE BeginTimed
    <2>1. /\ pc = "warmed" /\ pc' = "timed" /\ completed' = 0 /\ error' = error
          /\ progress.stage = NoStage
          /\ progress' \in Begin(progress, "timed search", Total, INDEX_COUNT)
      BY <1>5 DEF BeginTimed, LinesInv
    <2>2. /\ Reports(progress') /\ Opened(progress', Total, 0)
          /\ Honest(progress, progress', 0) /\ NoneComplete(progress, progress')
      BY <1>2, <2>1, BeginLines
    <2>3. NewLinesHonest
      BY <2>1, <2>2, StepHonest
    <2> QED BY <1>2, <2>1, <2>2, <2>3 DEF LinesInv
  <1>6. CASE Report
    <2>1. /\ pc = "timed" /\ pc' \in {"reported", "aborted"} /\ completed = Total
          /\ completed' = completed /\ progress' \in Finish(progress)
          /\ Opened(progress, completed, completed) /\ error' \in {"none", "report"}
      BY <1>2, <1>6 DEF Report, LinesInv
    <2>2. Reports(progress') /\ Honest(progress, progress', completed)
      BY <1>2, <2>1, FinishLines
    <2>3. NewLinesHonest
      BY <2>1, <2>2, StepHonest
    <2> QED BY <2>1, <2>2, <2>3 DEF LinesInv
  <1> QED BY <1>3, <1>4, <1>5, <1>6

(* A search, of either pass; the last one of a round ends a unit.          *)
LEMMA SearchLines ==
  ASSUME RecallInv, LinesInv, Search
  PROVE  LinesInv' /\ NewLinesHonest
  <1> USE DEF Reading, Preparing, Warming, Timing, Running
  <1> DEFINE rounds == IF pc = "warm" THEN WarmRounds ELSE Total
  <1>1. /\ pc \in {"warm", "timed"} /\ completed < rounds /\ UNCHANGED loadVars
        /\ \/ pc' = "aborted" /\ progress' = progress
           \/ /\ pc' = pc /\ error' = error
              /\ \/ completed' = completed /\ progress' = progress
                 \/ completed' = completed + 1 /\ progress' \in Advance(progress, completed + 1)
    BY DEF Search, Abort, Rounds
  <1>2. /\ Total \in Nat \ {0} /\ Total' = Total
        /\ WarmRounds \in Nat /\ WarmRounds' = WarmRounds
        /\ completed \in Nat /\ error = "none" /\ Reports(progress)
    BY <1>1, PassSizes
  <1>3. Opened(progress, rounds, completed) /\ (pc = "warm" => WarmRounds # 0)
    BY <1>1, <1>2 DEF LinesInv
  <1>4. CASE pc' = "aborted" /\ progress' = progress
    BY <1>4, AbortLines
  <1>5. CASE pc' = pc /\ error' = error /\ completed' = completed /\ progress' = progress
    BY <1>1, <1>2, <1>5, NothingReported DEF LinesInv
  <1>6. CASE /\ pc' = pc /\ error' = error
             /\ completed' = completed + 1 /\ progress' \in Advance(progress, completed + 1)
    <2>1. /\ Reports(progress') /\ Opened(progress', rounds, completed + 1)
          /\ Honest(progress, progress', completed + 1) /\ NoneComplete(progress, progress')
      <3> HIDE DEF rounds
      <3> QED BY <1>2, <1>3, <1>6, AdvanceLines
    <2>2. NewLinesHonest
      BY <1>6, <2>1, StepHonest
    <2> QED BY <1>1, <1>2, <1>3, <1>6, <2>1, <2>2 DEF LinesInv
  <1> QED BY <1>1, <1>4, <1>5, <1>6

(* A milestone never claims more than is done, the milestones of a stage   *)
(* come each once and in order, and nothing follows a write that failed,   *)
(* for any files, indexes and queries (Progress in                         *)
(* vector-db-benchmark-support/src/lib.rs).                                *)
THEOREM ReportsAreHonest == Spec => MilestonesHonest
  <1>1. Init => LinesInv
    <2> SUFFICES ASSUME Init PROVE LinesInv
      OBVIOUS
    <2>1. /\ pc = "args" /\ error = "none"
          /\ progress = [failed |-> FALSE, stage |-> NoStage, log |-> <<>>]
      BY DEF Init, LoadInit, NewProgress
    <2>2. Reports(progress)
      BY <2>1, EmptyIsSeq DEF Reports, IsProgress, Ends
    <2> QED BY <2>1, <2>2 DEF LinesInv
  <1>2. RecallInv /\ LinesInv /\ [Next]_vars
          => LinesInv' /\ [NewLinesHonest]_<<progress, completed, error>>
    <2> SUFFICES ASSUME RecallInv, LinesInv, [Next]_vars
                 PROVE  LinesInv' /\ [NewLinesHonest]_<<progress, completed, error>>
      OBVIOUS
    <2>1. CASE Load /\ UNCHANGED runVars
      BY <2>1, LoadLines
    <2>2. CASE Build
      BY <2>2, BuildLines
    <2>3. CASE SelectTruth \/ RecomputeTruth
      BY <2>3, TruthLines
    <2>4. CASE BeginWarm \/ EndWarm \/ BeginTimed \/ Report
      BY <2>4, PassLines
    <2>5. CASE Search
      BY <2>5, SearchLines
    <2>6. CASE UNCHANGED vars
      <3>1. UNCHANGED <<pc, file, queries, completed, progress, error>>
        BY <2>6 DEF vars, siftVars, loadVars
      <3>2. Records(file)' = Records(file) /\ Total' = Total /\ WarmRounds' = WarmRounds
        BY <3>1 DEF Records, Total, WarmRounds, WarmCount
      <3> QED BY <3>1, <3>2 DEF LinesInv
    <2> QED BY <2>1, <2>2, <2>3, <2>4, <2>5, <2>6 DEF Next, Ended
  <1> QED BY <1>1, <1>2, RunKept, PTL DEF Spec, MilestonesHonest
=============================================================================
