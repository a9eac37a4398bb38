---------------------------- MODULE AccountProofs ----------------------------
(***************************************************************************)
(* Theorems about Lockout and Sessions, for every set of requests, users and *)
(* tokens: a lock is lifted only as it should be, a reset token resets once, *)
(* a login has one session, and a reset ends those there were.             *)
(***************************************************************************)
EXTENDS Access, SumTheorems, FiniteSets, FiniteSetTheorems, TLAPS

-----------------------------------------------------------------------------
(* Lockout                                                                 *)

\* Whoever got as far as the password read the account unlocked.  The lock may
\* be set since: that is why the columns a request writes depend on what it
\* read.
ReadUnlocked == \A r \in Req : loginPc[r] \in {"wrong", "right"} => loginView[r].lock # "future"

\* A request at work has an account.
OnAccount == \A r \in Req : loginPc[r] # "idle" => loginDoc[r] \in User

\* What the proof carries: the types, and what a request knows of its account.
LockoutInvariant == Logins!TypeOK /\ OnAccount /\ ReadUnlocked

\* What LockHolds says of a step.
HeldOrLifted ==
    \A u \in User :
        lock[u] = "future" /\ lock'[u] # "future" =>
            \/ first[u] # "recent"
            \/ \E r \in Req : loginDoc[r] = u /\ (loginPc[r] = "reset" \/ loginView[r].lock = "past")

\* A step of the composition is a step of Lockout, or leaves it alone.
LEMMA LoginNext == [Next]_vars => [Logins!Next]_(Logins!vars)
BY DEF Next, vars, logins, Logins!vars, Logins!row, Logins!local

\* A behaviour starts where the invariant holds.
LEMMA LockoutInit == Logins!Init => LockoutInvariant
BY DEF Logins!Init, LockoutInvariant, Logins!TypeOK, OnAccount, ReadUnlocked, Logins!Columns, Logins!Clear

\* The columns keep their types, whatever a request writes.
LEMMA WriteKeepsTypes ==
    ASSUME Logins!TypeOK, NEW r \in Req, loginDoc[r] \in User, NEW new \in Logins!Columns, Logins!Write(r, new)
    PROVE  /\ attempts' \in [User -> Nat]
           /\ first' \in [User -> {"none", "old", "recent"}]
           /\ lock' \in [User -> {"none", "past", "future"}]
BY DEF Logins!TypeOK, Logins!Write, Logins!Columns

\* The end of a request leaves what holds of the others.
LEMMA EndKeepsRequests ==
    ASSUME LockoutInvariant, NEW r \in Req, Logins!EndRequest(r)
    PROVE  /\ loginPc' \in [Req -> {"idle", "wrong", "right", "reset"}]
           /\ loginDoc' \in [Req -> User \cup {NoUser}]
           /\ loginView' \in [Req -> Logins!Columns]
           /\ OnAccount' /\ ReadUnlocked'
BY DEF LockoutInvariant, Logins!TypeOK, OnAccount, ReadUnlocked, Logins!EndRequest, Logins!Clear, Logins!Columns

\* Every step of Lockout keeps its invariant.
LEMMA LockoutStep ==
    ASSUME LockoutInvariant, [Logins!Next]_(Logins!vars)
    PROVE  LockoutInvariant'
<1> USE DEF LockoutInvariant
<1>1. CASE UNCHANGED Logins!vars
  BY <1>1 DEF Logins!vars, Logins!row, Logins!local, Logins!TypeOK, OnAccount, ReadUnlocked
<1>2. ASSUME NEW r \in Req, NEW u \in User, Logins!BeginLogin(r, u) \/ Logins!BeginReset(r, u)
      PROVE  LockoutInvariant'
  <2>1. PICK next \in {"wrong", "right", "reset"} :
            Logins!ReadUser(r, u, next) /\ (next # "reset" => lock[u] # "future")
    BY <1>2 DEF Logins!BeginLogin, Logins!BeginReset
  <2>2. Logins!Row(u) \in Logins!Columns
    BY DEF Logins!TypeOK, Logins!Row, Logins!Columns
  <2>3. Logins!Row(u).lock = lock[u]
    BY DEF Logins!Row
  <2>4. QED
    BY <2>1, <2>2, <2>3 DEF Logins!ReadUser, Logins!TypeOK, OnAccount, ReadUnlocked, Logins!row
<1>3. ASSUME NEW r \in Req, Logins!FailLogin(r) PROVE LockoutInvariant'
  <2> DEFINE new == [attempts |-> Logins!Count(r), first |-> "recent",
                     lock |-> IF Logins!Count(r) >= Threshold THEN "future" ELSE loginView[r].lock]
  <2>1. loginDoc[r] \in User /\ loginView[r] \in Logins!Columns
    BY <1>3 DEF Logins!FailLogin, OnAccount, Logins!TypeOK
  <2>2. new \in Logins!Columns
    BY <2>1 DEF Logins!Count, Logins!Columns
  <2>3. tries' \in [User -> Nat] /\ loginRaced' \subseteq User
    BY <1>3, <2>1 DEF Logins!FailLogin, Logins!Races, Logins!TypeOK
  <2>4. Logins!Write(r, new)
    BY <1>3 DEF Logins!FailLogin
  <2>5. QED
    BY <1>3, <2>1, <2>2, <2>3, <2>4, WriteKeepsTypes, EndKeepsRequests DEF Logins!FailLogin, Logins!TypeOK
<1>4. ASSUME NEW r \in Req, Logins!ClearFailures(r) PROVE LockoutInvariant'
  <2>1. loginDoc[r] \in User /\ Logins!Clear \in Logins!Columns
    BY <1>4 DEF Logins!ClearFailures, OnAccount, Logins!Clear, Logins!Columns
  <2>2. tries' \in [User -> Nat] /\ loginRaced' \subseteq User
    BY <1>4, <2>1 DEF Logins!ClearFailures, Logins!Races, Logins!TypeOK
  <2>3. QED
    BY <1>4, <2>1, <2>2, WriteKeepsTypes, EndKeepsRequests DEF Logins!ClearFailures, Logins!TypeOK
<1>5. ASSUME NEW r \in Req, Logins!Rollback(r) PROVE LockoutInvariant'
  BY <1>5, EndKeepsRequests DEF Logins!Rollback, Logins!TypeOK, Logins!row
<1>6. ASSUME NEW u \in User, Logins!WindowPasses(u) \/ Logins!LockRunsOut(u) PROVE LockoutInvariant'
  BY <1>6 DEF Logins!WindowPasses, Logins!LockRunsOut, Logins!TypeOK, Logins!local, OnAccount, ReadUnlocked
<1> QED
  BY <1>1, <1>2, <1>3, <1>4, <1>5, <1>6 DEF Logins!Next

\* A login that read the row before the lock was set leaves the lock's column
\* out of its UPDATE, for what it writes there is what it read.
LEMMA LockStep ==
    ASSUME LockoutInvariant, [Logins!Next]_(Logins!vars)
    PROVE  HeldOrLifted
<1> USE DEF HeldOrLifted
<1>1. CASE UNCHANGED Logins!vars
  BY <1>1 DEF Logins!vars, Logins!row
<1>2. ASSUME NEW r \in Req, NEW u \in User, Logins!BeginLogin(r, u) \/ Logins!BeginReset(r, u)
      PROVE  HeldOrLifted
  BY <1>2 DEF Logins!BeginLogin, Logins!BeginReset, Logins!ReadUser, Logins!row
<1>3. ASSUME NEW r \in Req, Logins!FailLogin(r) PROVE HeldOrLifted
  BY <1>3 DEF Logins!FailLogin, Logins!Write, LockoutInvariant, Logins!TypeOK
<1>4. ASSUME NEW r \in Req, Logins!ClearFailures(r) PROVE HeldOrLifted
  <2>1. /\ loginPc[r] \in {"right", "reset"}
        /\ loginView[r].lock \in {"none", "past", "future"}
        /\ loginPc[r] = "right" => loginView[r].lock # "future"
    BY <1>4 DEF Logins!ClearFailures, LockoutInvariant, Logins!TypeOK, ReadUnlocked, Logins!Columns
  <2>2. \A u \in User : lock'[u] # lock[u] => u = loginDoc[r] /\ loginView[r].lock # "none"
    BY <1>4 DEF Logins!ClearFailures, Logins!Write, Logins!Clear, LockoutInvariant, Logins!TypeOK
  <2>3. QED
    BY <2>1, <2>2
<1>5. ASSUME NEW r \in Req, Logins!Rollback(r) PROVE HeldOrLifted
  BY <1>5 DEF Logins!Rollback, Logins!row
<1>6. ASSUME NEW u \in User, Logins!WindowPasses(u) \/ Logins!LockRunsOut(u) PROVE HeldOrLifted
  BY <1>6 DEF Logins!WindowPasses, Logins!LockRunsOut, LockoutInvariant, Logins!TypeOK
<1> QED
  BY <1>1, <1>2, <1>3, <1>4, <1>5, <1>6 DEF Logins!Next

\* Only time, a new password, or a login that had read an older lock that ran
\* out lift a lock, however logins and resets of the account overlap.
THEOREM LocksHold == Spec => LockHolds
<1>1. Init => LockoutInvariant
  BY LockoutInit DEF Init
<1>2. LockoutInvariant /\ [Next]_vars => LockoutInvariant'
  BY LockoutStep, LoginNext
<1>3. LockoutInvariant /\ [Next]_vars => [HeldOrLifted]_(Logins!vars)
  BY LockStep, LoginNext
<1>4. Spec => [][HeldOrLifted]_(Logins!vars)
  BY <1>1, <1>2, <1>3, PTL DEF Spec
<1>5. QED
  BY <1>4 DEF LockHolds, Logins!LockHolds, HeldOrLifted

-----------------------------------------------------------------------------
(* The account is locked in time.                                          *)

\* How often logins can still fail that read a count which is n short of the
\* threshold, and those that read the counts these write.
Chances[n \in Nat] == IF n = 0 THEN 1 ELSE (Cardinality(Req) + 1) * Chances[n - 1]

\* At the latest, this failure locks the account.
LastFailure == Cardinality(Req) * Chances[Threshold] + 2

\* The recursive equation of Chances has a solution.
LEMMA ChancesExist ==
    ASSUME NEW b
    PROVE  \E g : g = [n \in Nat |-> IF n = 0 THEN 1 ELSE b * g[n - 1]]
<1> DEFINE Body(h, n) == IF n = 0 THEN 1 ELSE b * h[n - 1]
           To(h, m) == \A n \in 0 .. m : h[n] = Body(h, n)
           X == {m \in Nat : \E h : To(h, m)}
<1>1. 0 \in X
  <2> DEFINE h == [n \in Nat |-> 1]
  <2>1. To(h, 0)
    OBVIOUS
  <2> HIDE DEF h, To
  <2>2. QED
    BY <2>1
<1>2. ASSUME NEW m \in Nat, m \in X PROVE m + 1 \in X
  <2>1. PICK h : To(h, m)
    BY <1>2
  <2> DEFINE g == [n \in Nat |-> IF n <= m THEN h[n] ELSE Body(h, n)]
  <2>2. ASSUME NEW n \in 0 .. m + 1 PROVE g[n] = Body(g, n)
    <3>1. CASE n = 0
      BY <2>1, <3>1
    <3>2. CASE n # 0
      <4>1. n - 1 \in 0 .. m
        BY <3>2
      <4>2. g[n] = Body(h, n)
        BY <2>1
      <4>3. QED
        BY <3>2, <4>1, <4>2
    <3>3. QED
      BY <3>1, <3>2
  <2>3. To(g, m + 1)
    BY <2>2
  <2> HIDE DEF g, To
  <2>4. QED
    BY <2>3
<1> HIDE DEF X
<1>3. \A m \in Nat : \E h : To(h, m)
  BY <1>1, <1>2, CountingInduction DEF X
<1> DEFINE H(m) == CHOOSE h : To(h, m)
           g == [n \in Nat |-> H(n)[n]]
<1>4. ASSUME NEW m \in Nat PROVE To(H(m), m)
  BY <1>3
<1> HIDE DEF H
<1>5. \A m \in Nat : \A n \in 0 .. m : H(m)[n] = Body(H(m), n)
  BY <1>4
<1> DEFINE Y == {n \in Nat : \A m \in Nat : n <= m => H(m)[n] = H(n)[n]}
<1>6. 0 \in Y
  BY <1>5
<1>7. ASSUME NEW n \in Nat, n \in Y PROVE n + 1 \in Y
  <2>1. ASSUME NEW m \in Nat, n + 1 <= m PROVE H(m)[n + 1] = H(n + 1)[n + 1]
    <3>1. H(m)[n] = H(n)[n] /\ H(n + 1)[n] = H(n)[n]
      BY <1>7, <2>1
    <3>2. H(m)[n + 1] = Body(H(m), n + 1) /\ H(n + 1)[n + 1] = Body(H(n + 1), n + 1)
      BY <1>5, <2>1
    <3>3. QED
      BY <3>1, <3>2
  <2>2. QED
    BY <2>1
<1> HIDE DEF Y
<1>8. Nat \subseteq Y
  BY <1>6, <1>7, CountingInduction
<1>9. ASSUME NEW n \in Nat PROVE g[n] = Body(g, n)
  <2>1. g[n] = Body(H(n), n)
    BY <1>5
  <2>2. CASE n # 0
    <3>1. n - 1 \in Nat /\ n - 1 <= n
      BY <2>2
    <3>2. H(n)[n - 1] = H(n - 1)[n - 1]
      BY <1>8, <3>1 DEF Y
    <3>3. QED
      BY <2>1, <2>2, <3>1, <3>2
  <2>3. QED
    BY <2>1, <2>2
<1>10. g = [n \in Nat |-> Body(g, n)]
  BY <1>9
<1> HIDE DEF g
<1>11. QED
  BY <1>10

\* A product of natural numbers is one, and nothing is less than one of it.
LEMMA ChancesStep ==
    ASSUME IsFiniteSet(Req)
    PROVE  /\ Chances[0] = 1
           /\ \A n \in Nat : /\ Chances[n] \in Nat
                             /\ 1 <= Chances[n]
                             /\ Chances[n + 1] = (Cardinality(Req) + 1) * Chances[n]
                             /\ Chances[n] <= Chances[n + 1]
<1> DEFINE b == Cardinality(Req) + 1
<1>1. b \in Nat /\ 1 <= b
  BY FS_CardinalityType
<1>2. Chances = [n \in Nat |-> IF n = 0 THEN 1 ELSE b * Chances[n - 1]]
  <2>1. \E g : g = [n \in Nat |-> IF n = 0 THEN 1 ELSE b * g[n - 1]]
    BY ChancesExist
  <2>2. QED
    BY <2>1 DEF Chances
<1> HIDE DEF b
<1>3. Chances[0] = 1
  BY <1>2
<1>4. ASSUME NEW n \in Nat PROVE Chances[n + 1] = b * Chances[n]
  <2>1. n + 1 # 0 /\ (n + 1) - 1 = n /\ n + 1 \in Nat
    OBVIOUS
  <2>2. Chances[n + 1] = b * Chances[(n + 1) - 1]
    BY <1>2, <2>1
  <2>3. QED
    BY <2>1, <2>2
<1> DEFINE X == {n \in Nat : Chances[n] \in Nat /\ 1 <= Chances[n]}
<1>5. ASSUME NEW c \in Nat, 1 <= c PROVE b * c \in Nat /\ 1 <= b * c /\ c <= b * c
  <2>1. PICK d \in Nat : b = d + 1
    BY <1>1
  <2>2. b * c = d * c + c
    BY <2>1
  <2>3. d * c \in Nat
    BY <2>1
  <2>4. QED
    BY <1>5, <2>2, <2>3
<1>6. 0 \in X
  BY <1>3
<1>7. ASSUME NEW n \in Nat, n \in X PROVE n + 1 \in X
  BY <1>4, <1>5, <1>7
<1> HIDE DEF X
<1>8. Nat \subseteq X
  BY <1>6, <1>7, CountingInduction
<1>9. QED
  BY <1>3, <1>4, <1>5, <1>8 DEF X, b

\* How far a request can still count: a login at work to one more than the count
\* it read, or the row has since fallen to; any other to one more than the row.
\* The windows before this one count for nothing.
LogsIn(r, u) == loginPc[r] = "wrong" /\ loginDoc[r] = u
Level(r, u) ==
    IF LogsIn(r, u) /\ loginView[r].first # "recent" THEN 0
    ELSE IF LogsIn(r, u) /\ loginView[r].attempts < attempts[u] THEN loginView[r].attempts + 1
    ELSE attempts[u] + 1

\* What is left to a request at a level, and to all requests.
Weight(l) == Chances[IF l <= Threshold THEN Threshold - l ELSE 0]
Weights(u) == [r \in Req |-> Weight(Level(r, u))]
Left(u) == SumOver(Weights(u), Req)

\* While the account is open, failures use up what is left.
Paid(u) ==
    first[u] = "recent" /\ lock[u] # "future" =>
        tries[u] + Left(u) <= Cardinality(Req) * Chances[Threshold] + 1

\* Without a race everybody read the row as it is, and the row counts right.
Counted(u) ==
    u \notin loginRaced =>
        /\ \A r \in Req : loginDoc[r] = u => /\ loginView[r].attempts = attempts[u]
                                             /\ loginView[r].first = first[u]
        /\ first[u] = "recent" => attempts[u] = tries[u]
        /\ first[u] = "recent" /\ lock[u] # "future" => attempts[u] < Threshold

\* What the proof of LockedInTime carries.
CountInvariant == LockoutInvariant /\ \A u \in User : Paid(u) /\ Counted(u)

\* Weights are natural numbers and fall as the level rises.
LEMMA WeightFalls ==
    ASSUME IsFiniteSet(Req), Threshold \in Nat
    PROVE  /\ \A l \in Nat : /\ Weight(l) \in Nat /\ 1 <= Weight(l) /\ Weight(l) <= Chances[Threshold]
                             /\ l < Threshold => Weight(l) = (Cardinality(Req) + 1) * Weight(l + 1)
           /\ \A l, m \in Nat : l <= m => Weight(m) <= Weight(l)
<1> DEFINE X == {n \in Nat : \A m \in 0 .. n : Chances[m] <= Chances[n]}
<1>1. \A n \in Nat : Chances[n] \in Nat /\ 1 <= Chances[n] /\ Chances[n] <= Chances[n + 1]
                     /\ Chances[n + 1] = (Cardinality(Req) + 1) * Chances[n]
  BY ChancesStep
<1>2. 0 \in X
  BY <1>1
<1>3. ASSUME NEW n \in Nat, n \in X PROVE n + 1 \in X
  <2>1. ASSUME NEW m \in 0 .. n + 1 PROVE Chances[m] <= Chances[n + 1]
    <3>1. Chances[n] \in Nat /\ Chances[n + 1] \in Nat /\ Chances[n] <= Chances[n + 1] /\ Chances[m] \in Nat
      BY <1>1
    <3>2. m = n + 1 \/ Chances[m] <= Chances[n]
      BY <1>3
    <3>3. QED
      BY <3>1, <3>2
  <2>2. QED
    BY <2>1
<1> HIDE DEF X
<1>4. Nat \subseteq X
  BY <1>2, <1>3, CountingInduction
<1>5. \A n \in Nat : \A m \in 0 .. n : Chances[m] <= Chances[n]
  BY <1>4 DEF X
<1>6. ASSUME NEW l \in Nat
      PROVE  /\ Weight(l) \in Nat /\ 1 <= Weight(l) /\ Weight(l) <= Chances[Threshold]
             /\ l < Threshold => Weight(l) = (Cardinality(Req) + 1) * Weight(l + 1)
  <2>1. PICK n \in 0 .. Threshold : n = IF l <= Threshold THEN Threshold - l ELSE 0
    OBVIOUS
  <2>2. Weight(l) = Chances[n]
    BY <2>1 DEF Weight
  <2>3. ASSUME l < Threshold PROVE Weight(l) = (Cardinality(Req) + 1) * Weight(l + 1)
    <3>1. n - 1 \in Nat /\ (n - 1) + 1 = n /\ Threshold - (l + 1) = n - 1 /\ l + 1 <= Threshold
      BY <2>1, <2>3
    <3>2. Weight(l + 1) = Chances[n - 1]
      BY <3>1 DEF Weight
    <3>3. Chances[(n - 1) + 1] = (Cardinality(Req) + 1) * Chances[n - 1]
      BY <1>1, <3>1
    <3>4. QED
      BY <2>2, <3>1, <3>2, <3>3
  <2>4. QED
    BY <1>1, <1>5, <2>1, <2>2, <2>3
<1>7. ASSUME NEW l \in Nat, NEW m \in Nat, l <= m PROVE Weight(m) <= Weight(l)
  <2>1. PICK n, p : /\ n = IF l <= Threshold THEN Threshold - l ELSE 0
                    /\ p = IF m <= Threshold THEN Threshold - m ELSE 0
    OBVIOUS
  <2>2. n \in Nat /\ p \in 0 .. n
    BY <1>7, <2>1
  <2>3. QED
    BY <1>5, <2>1, <2>2 DEF Weight
<1>8. QED
  BY <1>6, <1>7

\* All that is left at first is a number.
LEMMA AllType ==
    ASSUME IsFiniteSet(Req), Threshold \in Nat
    PROVE  Cardinality(Req) * Chances[Threshold] \in Int
<1>1. Cardinality(Req) \in Int
  BY FS_CardinalityType
<1>2. Chances[Threshold] \in Int
  BY ChancesStep
<1>3. QED
  BY <1>1, <1>2

\* The end of a request leaves the others as they are.
LEMMA OthersGoOn ==
    ASSUME LockoutInvariant, NEW r \in Req, Logins!EndRequest(r)
    PROVE  /\ loginDoc'[r] = NoUser /\ loginPc'[r] = "idle"
           /\ \A q \in Req \ {r} : /\ loginDoc'[q] = loginDoc[q] /\ loginPc'[q] = loginPc[q]
                                   /\ loginView'[q] = loginView[q]
BY DEF Logins!EndRequest, LockoutInvariant, Logins!TypeOK

\* A login that ends writes no other row than that of its account.
LEMMA OneRow ==
    ASSUME LockoutInvariant, NEW r \in Req, Logins!FailLogin(r) \/ Logins!ClearFailures(r)
    PROVE  /\ loginPc[r] # "idle" /\ Logins!EndRequest(r)
           /\ \E afresh \in BOOLEAN : Logins!Races(r, afresh) /\ (Logins!FailLogin(r) => afresh = (loginView[r].first # "recent"))
           /\ \A u \in User \ {loginDoc[r]} :
                 /\ attempts'[u] = attempts[u] /\ first'[u] = first[u]
                 /\ lock'[u] = lock[u] /\ tries'[u] = tries[u]
<1>1. CASE Logins!FailLogin(r)
  BY <1>1 DEF Logins!FailLogin, Logins!Write, LockoutInvariant, Logins!TypeOK
<1>2. CASE Logins!ClearFailures(r)
  <2>1. ~ Logins!FailLogin(r)
    BY <1>2 DEF Logins!ClearFailures, Logins!FailLogin
  <2>2. QED
    BY <1>2, <2>1 DEF Logins!ClearFailures, Logins!Write, LockoutInvariant, Logins!TypeOK
<1>3. QED
  BY <1>1, <1>2

\* A level is a count.
LEMMA LevelType ==
    ASSUME LockoutInvariant, NEW u \in User, NEW r \in Req
    PROVE  Level(r, u) \in Nat
BY DEF LockoutInvariant, Logins!TypeOK, Logins!Columns, Level, LogsIn

\* Weights that are no more than what there was add up to no more either.
LEMMA WeightsBounded ==
    ASSUME IsFiniteSet(Req), Threshold \in Nat, NEW w,
           \A r \in Req : w[r] \in Nat /\ w[r] <= Chances[Threshold]
    PROVE  SumOver(w, Req) \in Nat /\ SumOver(w, Req) <= Cardinality(Req) * Chances[Threshold]
<1> DEFINE c == Chances[Threshold]
           g == [r \in Req |-> c]
<1>1. c \in Nat
  BY ChancesStep
<1>2. \A r \in Req : g[r] = c
  OBVIOUS
<1> HIDE DEF g
<1>3. SumOver(g, Req) = Cardinality(Req) * c
  BY <1>1, <1>2, SumConstant
<1>4. SumOver(w, Req) \in Nat
  BY SumType
<1>5. SumOver(w, Req) <= SumOver(g, Req)
  BY <1>1, <1>2, SumMonotone
<1>6. QED
  BY <1>3, <1>4, <1>5

\* An account whose window opens with the failure, or that nobody failed at since
\* it was cleared, has everything left.
LEMMA PaidAfresh ==
    ASSUME IsFiniteSet(Req), Threshold \in Nat, LockoutInvariant', NEW u \in User, tries'[u] \in {0, 1}
    PROVE  Paid(u)'
<1>1. Left(u)' = SumOver(Weights(u)', Req)
  BY DEF Left
<1> DEFINE w == Weights(u)'
<1>2. \A r \in Req : Level(r, u)' \in Nat
  BY DEF LockoutInvariant, Logins!TypeOK, Logins!Columns, Level, LogsIn
<1>3. \A r \in Req : w[r] = Weight(Level(r, u)')
  BY DEF Weights, Weight
<1>4. \A r \in Req : w[r] \in Nat /\ w[r] <= Chances[Threshold]
  BY <1>2, <1>3, WeightFalls
<1> HIDE DEF w
<1>5. SumOver(w, Req) \in Nat /\ SumOver(w, Req) <= Cardinality(Req) * Chances[Threshold]
  BY <1>4, WeightsBounded
<1>6. PICK b : b = Cardinality(Req) * Chances[Threshold]
  OBVIOUS
<1>7. b \in Int
  BY <1>6, AllType
<1>8. tries'[u] + SumOver(w, Req) <= b + 1
  BY <1>5, <1>6, <1>7
<1>9. QED
  BY <1>1, <1>6, <1>8 DEF w, Paid

\* What is left is a number.
LEMMA LeftType ==
    ASSUME IsFiniteSet(Req), Threshold \in Nat, LockoutInvariant, NEW u \in User
    PROVE  Left(u) \in Nat
<1> DEFINE w == Weights(u)
<1>1. \A r \in Req : w[r] \in Nat
  BY LevelType, WeightFalls DEF Weights
<1> HIDE DEF w
<1>2. SumOver(w, Req) \in Nat
  BY <1>1, SumType
<1>3. QED
  BY <1>2 DEF w, Left

\* If no level falls, there is no more left.
LEMMA LevelsRise ==
    ASSUME IsFiniteSet(Req), Threshold \in Nat, LockoutInvariant, LockoutInvariant', NEW u \in User,
           \A r \in Req : Level(r, u) <= Level(r, u)'
    PROVE  Left(u)' <= Left(u)
<1>1. Left(u)' = SumOver(Weights(u)', Req)
  BY DEF Left
<1> DEFINE f == Weights(u)
           g == Weights(u)'
<1>2. \A r \in Req : Level(r, u) \in Nat /\ Level(r, u)' \in Nat
  BY DEF LockoutInvariant, Logins!TypeOK, Logins!Columns, Level, LogsIn
<1>3. \A r \in Req : f[r] = Weight(Level(r, u)) /\ g[r] = Weight(Level(r, u)')
  BY DEF Weights, Weight
<1>4. \A r \in Req : f[r] \in Int /\ g[r] \in Int /\ g[r] <= f[r]
  BY <1>2, <1>3, WeightFalls
<1> HIDE DEF f, g
<1>5. SumOver(g, Req) <= SumOver(f, Req)
  BY <1>4, SumMonotone
<1>6. QED
  BY <1>1, <1>5 DEF f, g, Left

\* If one level rises above l, where it was, and none falls but to above l, there
\* is less left.
LEMMA LevelSpent ==
    ASSUME IsFiniteSet(Req), Threshold \in Nat, LockoutInvariant, LockoutInvariant', NEW u \in User,
           NEW e \in Req, Level(e, u) < Threshold, Level(e, u) < Level(e, u)',
           \A r \in Req : Level(r, u) <= Level(r, u)' \/ Level(e, u) < Level(r, u)'
    PROVE  Left(u)' + 1 <= Left(u)
<1>1. Left(u)' = SumOver(Weights(u)', Req)
  BY DEF Left
<1> DEFINE f == Weights(u)
           g == Weights(u)'
           l == Level(e, u)
           c == Weight(l + 1)
<1>2. \A r \in Req : Level(r, u) \in Nat /\ Level(r, u)' \in Nat
  BY DEF LockoutInvariant, Logins!TypeOK, Logins!Columns, Level, LogsIn
<1>3. \A r \in Req : f[r] = Weight(Level(r, u)) /\ g[r] = Weight(Level(r, u)')
  BY DEF Weights, Weight
<1>4. \A r \in Req : f[r] \in Nat /\ g[r] \in Nat
  BY <1>2, <1>3, WeightFalls
<1>5. l \in Nat /\ l + 1 \in Nat /\ c \in Nat /\ 1 <= c
  BY <1>2, WeightFalls
<1>6. f[e] = (Cardinality(Req) + 1) * c
  BY <1>2, <1>3, <1>5, WeightFalls
<1>7. \A r \in Req : l < Level(r, u)' => g[r] <= c
  <2> SUFFICES ASSUME NEW r \in Req, l < Level(r, u)' PROVE g[r] <= c
    OBVIOUS
  <2>1. PICK m \in Nat : m = Level(r, u)'
    BY <1>2
  <2>2. l + 1 <= m
    BY <1>5, <2>1
  <2>3. Weight(m) <= Weight(l + 1)
    BY <1>5, <2>2, WeightFalls
  <2>4. QED
    BY <1>3, <2>1, <2>3
<1>8. \A r \in Req : Level(r, u) <= Level(r, u)' => g[r] <= f[r]
  BY <1>2, <1>3, WeightFalls
<1>9. \A r \in Req \ {e} : g[r] <= f[r] + c
  <2> SUFFICES ASSUME NEW r \in Req \ {e} PROVE g[r] <= f[r] + c
    OBVIOUS
  <2>1. g[r] <= c \/ g[r] <= f[r]
    BY <1>7, <1>8
  <2>2. g[r] \in Nat /\ f[r] \in Nat
    BY <1>4
  <2> HIDE DEF f, g, c
  <2>3. QED
    BY <1>5, <2>1, <2>2
<1>10. g[e] <= c
  BY <1>7
<1> HIDE DEF f, g, c, l
<1>11. SumOver(g, Req) + c <= SumOver(f, Req)
  BY <1>4, <1>5, <1>6, <1>9, <1>10, SumSpent
<1>12. SumOver(g, Req) \in Int /\ SumOver(f, Req) \in Int
  BY <1>4, SumType
<1>13. SumOver(g, Req) + 1 <= SumOver(f, Req)
  BY <1>5, <1>11, <1>12
<1>14. QED
  BY <1>1, <1>13 DEF f, g, Left

\* What is left is a number, before and after a step.
LEMMA LeftTypes ==
    ASSUME IsFiniteSet(Req), Threshold \in Nat, LockoutInvariant, LockoutInvariant', NEW u \in User
    PROVE  Left(u) \in Int /\ Left(u)' \in Int
<1>1. /\ Left(u)' = SumOver(Weights(u)', Req)
      /\ Left(u) = SumOver(Weights(u), Req)
  BY DEF Left
<1> DEFINE f == Weights(u)
           g == Weights(u)'
<1>2. \A r \in Req : Level(r, u) \in Nat /\ Level(r, u)' \in Nat
  BY DEF LockoutInvariant, Logins!TypeOK, Logins!Columns, Level, LogsIn
<1>3. \A r \in Req : f[r] = Weight(Level(r, u)) /\ g[r] = Weight(Level(r, u)')
  BY DEF Weights, Weight
<1>4. \A r \in Req : f[r] \in Int /\ g[r] \in Int
  BY <1>2, <1>3, WeightFalls
<1> HIDE DEF f, g
<1>5. SumOver(f, Req) \in Int /\ SumOver(g, Req) \in Int
  BY <1>4, SumType
<1>6. QED
  BY <1>1, <1>5 DEF f, g

\* While nobody fails, nobody's level falls.
LEMMA PaidKept ==
    ASSUME IsFiniteSet(Req), Threshold \in Nat, LockoutInvariant, LockoutInvariant', NEW u \in User,
           Paid(u), tries'[u] = tries[u],
           first'[u] = "recent" /\ lock'[u] # "future" => first[u] = "recent" /\ lock[u] # "future",
           first[u] = "recent" => \A r \in Req : Level(r, u) <= Level(r, u)'
    PROVE  Paid(u)'
<1> SUFFICES ASSUME (first'[u] = "recent" /\ lock'[u] # "future")
             PROVE  tries'[u] + Left(u)' <= Cardinality(Req) * Chances[Threshold] + 1
  BY DEF Paid
<1>1. tries[u] + Left(u) <= Cardinality(Req) * Chances[Threshold] + 1 /\ Left(u)' <= Left(u)
  BY LevelsRise DEF Paid
<1>2. Left(u) \in Int /\ Left(u)' \in Int /\ tries[u] \in Int
  BY LeftTypes DEF LockoutInvariant, Logins!TypeOK
<1>3. Cardinality(Req) * Chances[Threshold] \in Int
  BY AllType
<1>4. QED
  BY <1>1, <1>2, <1>3

\* A failure that leaves the account open uses up some of what is left.
LEMMA FailurePays ==
    ASSUME IsFiniteSet(Req), Threshold \in Nat, LockoutInvariant, LockoutInvariant',
           NEW r \in Req, Logins!FailLogin(r), NEW u \in User, u = loginDoc[r], Paid(u)
    PROVE  Paid(u)'
<1>1. CASE first[u] # "recent"
  <2>1. tries'[u] = 1
    BY <1>1 DEF Logins!FailLogin, LockoutInvariant, Logins!TypeOK
  <2>2. QED
    BY <2>1, PaidAfresh
<1>2. CASE first[u] = "recent"
  <2> SUFFICES ASSUME lock'[u] # "future"
               PROVE  tries'[u] + Left(u)' <= Cardinality(Req) * Chances[Threshold] + 1
    BY DEF Paid
  <2> DEFINE n == Logins!Count(r)
  <2>1. /\ loginView[r] \in Logins!Columns /\ loginView[r].lock # "future" /\ loginPc[r] = "wrong"
        /\ loginView[r].attempts \in Nat /\ attempts[u] \in Nat /\ tries[u] \in Nat
    BY DEF Logins!FailLogin, LockoutInvariant, Logins!TypeOK, ReadUnlocked, Logins!Columns
  <2>2. /\ n < Threshold /\ lock[u] # "future" /\ n \in Nat
    BY <2>1 DEF Logins!FailLogin, Logins!Write, Logins!Count, LockoutInvariant, Logins!TypeOK
  <2>3. /\ attempts' = [attempts EXCEPT ![u] = IF n # loginView[r].attempts THEN n ELSE @]
        /\ tries'[u] = tries[u] + 1
    BY <1>2 DEF Logins!FailLogin, Logins!Write, LockoutInvariant, Logins!TypeOK
  <2>4. /\ loginPc' = [loginPc EXCEPT ![r] = "idle"]
        /\ \A q \in Req \ {r} : loginView'[q] = loginView[q] /\ loginDoc'[q] = loginDoc[q]
    BY DEF Logins!FailLogin, Logins!EndRequest, LockoutInvariant, Logins!TypeOK
  <2>5. Level(r, u) < Threshold /\ Level(r, u) <= n
    BY <2>1, <2>2 DEF Level, LogsIn, Logins!Count
  <2>6. /\ attempts'[u] \in Nat /\ Level(r, u)' = attempts'[u] + 1
        /\ attempts'[u] = n \/ (attempts'[u] = attempts[u] /\ Level(r, u) = 0)
    BY <2>1, <2>2, <2>3, <2>4 DEF Level, LogsIn, Logins!Count, LockoutInvariant, Logins!TypeOK
  <2>7. Level(r, u) < Level(r, u)'
    BY <2>1, <2>2, <2>5, <2>6 DEF Level
  <2>8. ASSUME NEW q \in Req PROVE Level(q, u) <= Level(q, u)' \/ Level(r, u) < Level(q, u)'
    <3>1. CASE q = r
      BY <2>7, <3>1
    <3>2. CASE q # r
      <4>1. /\ LogsIn(q, u)' <=> LogsIn(q, u)
            /\ loginView'[q] = loginView[q] /\ loginView[q].attempts \in Nat
        BY <2>4, <3>2 DEF LogsIn, LockoutInvariant, Logins!TypeOK, Logins!Columns
      <4>2. CASE attempts'[u] = attempts[u]
        BY <2>1, <4>1, <4>2 DEF Level
      <4>3. CASE attempts'[u] = n
        BY <2>1, <2>2, <2>5, <4>1, <4>3 DEF Level
      <4>4. QED
        BY <2>6, <4>2, <4>3
    <3>3. QED
      BY <3>1, <3>2
  <2>9. Left(u)' + 1 <= Left(u)
    BY <2>5, <2>7, <2>8, LevelSpent
  <2>10. tries[u] + Left(u) <= Cardinality(Req) * Chances[Threshold] + 1
    BY <1>2, <2>2 DEF Paid
  <2>11. Cardinality(Req) * Chances[Threshold] \in Int
    BY AllType
  <2>12. Left(u) \in Int /\ Left(u)' \in Int
    BY LeftTypes
  <2>13. QED
    BY <2>1, <2>3, <2>9, <2>10, <2>11, <2>12
<1>3. QED
  BY <1>1, <1>2

\* Every step keeps what is paid for.
LEMMA PaidStep ==
    ASSUME IsFiniteSet(Req), Threshold \in Nat, LockoutInvariant, LockoutInvariant',
           [Logins!Next]_(Logins!vars), NEW u \in User, Paid(u)
    PROVE  Paid(u)'
<1> USE DEF Logins!row, Logins!local
<1>a. /\ \A r \in Req : loginView[r].attempts \in Nat
      /\ attempts[u] \in Nat
  BY DEF LockoutInvariant, Logins!TypeOK, Logins!Columns
<1>1. CASE UNCHANGED Logins!vars
  <2>1. \A r \in Req : Level(r, u)' = Level(r, u) /\ Level(r, u) \in Nat
    BY <1>1, LevelType DEF Level, LogsIn, Logins!vars
  <2>2. QED
    BY <1>1, <2>1, PaidKept DEF Logins!vars
<1>2. ASSUME NEW r \in Req, NEW v \in User, Logins!BeginLogin(r, v) \/ Logins!BeginReset(r, v)
      PROVE  Paid(u)'
  <2>1. PICK next \in {"wrong", "right", "reset"} : Logins!ReadUser(r, v, next)
    BY <1>2 DEF Logins!BeginLogin, Logins!BeginReset
  <2>2. ASSUME first[u] = "recent", NEW q \in Req PROVE Level(q, u) <= Level(q, u)'
    <3>1. CASE q = r
      <4>1. Level(r, u) = attempts[u] + 1
        BY <2>1 DEF Logins!ReadUser, Level, LogsIn
      <4>2. /\ LogsIn(r, u)' => loginView'[r].attempts = attempts[u] /\ loginView'[r].first = "recent"
            /\ attempts' = attempts
        BY <2>1, <2>2 DEF Logins!ReadUser, Logins!Row, LogsIn, LockoutInvariant, Logins!TypeOK
      <4>3. QED
        BY <1>a, <3>1, <4>1, <4>2 DEF Level
    <3>2. CASE q # r
      <4>1. Level(q, u)' = Level(q, u)
        BY <2>1, <3>2 DEF Logins!ReadUser, Level, LogsIn, LockoutInvariant, Logins!TypeOK
      <4>2. QED
        BY <4>1, LevelType
    <3>3. QED
      BY <3>1, <3>2
  <2>3. QED
    BY <2>1, <2>2, PaidKept DEF Logins!ReadUser
<1>3. ASSUME NEW r \in Req, loginPc[r] # "idle", Logins!EndRequest(r), attempts'[u] = attempts[u],
             NEW q \in Req
      PROVE  Level(q, u) <= Level(q, u)'
  <2>1. CASE q = r
    <3>1. Level(r, u)' = attempts[u] + 1
      BY <1>3 DEF Logins!EndRequest, Level, LogsIn, LockoutInvariant, Logins!TypeOK
    <3>2. QED
      BY <1>a, <2>1, <3>1 DEF Level
  <2>2. CASE q # r
    <3>1. Level(q, u)' = Level(q, u)
      BY <1>3, <2>2 DEF Logins!EndRequest, Level, LogsIn, LockoutInvariant, Logins!TypeOK
    <3>2. QED
      BY <3>1, LevelType
  <2>3. QED
    BY <2>1, <2>2
<1>4. ASSUME NEW r \in Req, Logins!FailLogin(r) \/ Logins!ClearFailures(r), u # loginDoc[r]
      PROVE  Paid(u)'
  <2>1. /\ loginPc[r] # "idle" /\ Logins!EndRequest(r)
        /\ attempts'[u] = attempts[u] /\ first'[u] = first[u] /\ lock'[u] = lock[u] /\ tries'[u] = tries[u]
    BY <1>4, OneRow
  <2>2. QED
    BY <1>3, <2>1, PaidKept
<1>5. ASSUME NEW r \in Req, Logins!ClearFailures(r), u = loginDoc[r] PROVE Paid(u)'
  <2>1. tries'[u] = 0
    BY <1>5 DEF Logins!ClearFailures, LockoutInvariant, Logins!TypeOK
  <2>2. QED
    BY <2>1, PaidAfresh
<1>6. ASSUME NEW r \in Req, Logins!Rollback(r) PROVE Paid(u)'
  <2>1. loginPc[r] # "idle" /\ Logins!EndRequest(r) /\ UNCHANGED <<attempts, first, lock, tries>>
    BY <1>6 DEF Logins!Rollback
  <2>2. QED
    BY <1>3, <2>1, PaidKept
<1>7. ASSUME NEW v \in User, Logins!WindowPasses(v) \/ Logins!LockRunsOut(v) PROVE Paid(u)'
  <2>1. \A r \in Req : Level(r, u)' = Level(r, u) /\ Level(r, u) \in Nat
    BY <1>7, LevelType DEF Logins!WindowPasses, Logins!LockRunsOut, Level, LogsIn
  <2>2. /\ tries'[u] = tries[u]
        /\ first'[u] = "recent" /\ lock'[u] # "future" => first[u] = "recent" /\ lock[u] # "future"
    BY <1>7 DEF Logins!WindowPasses, Logins!LockRunsOut, LockoutInvariant, Logins!TypeOK
  <2>3. QED
    BY <2>1, <2>2, PaidKept
<1>8. QED
  BY <1>1, <1>2, <1>4, <1>5, <1>6, <1>7, FailurePays DEF Logins!Next

\* Without a race the row counts right after every step.
LEMMA CountedStep ==
    ASSUME LockoutInvariant, LockoutInvariant', Threshold \in Nat,
           [Logins!Next]_(Logins!vars), NEW u \in User, Counted(u)
    PROVE  Counted(u)'
<1> USE DEF Logins!row, Logins!local, LockoutInvariant, Logins!TypeOK
<1>1. CASE UNCHANGED Logins!vars
  BY <1>1 DEF Logins!vars, Counted
<1>2. ASSUME NEW r \in Req, NEW v \in User, Logins!BeginLogin(r, v) \/ Logins!BeginReset(r, v)
      PROVE  Counted(u)'
  <2>1. PICK next \in {"wrong", "right", "reset"} : Logins!ReadUser(r, v, next)
    BY <1>2 DEF Logins!BeginLogin, Logins!BeginReset
  <2>2. \A q \in Req : loginDoc'[q] = u => \/ loginDoc[q] = u /\ loginView'[q] = loginView[q]
                                           \/ loginView'[q] = Logins!Row(u)
    BY <2>1 DEF Logins!ReadUser
  <2>3. QED
    BY <2>1, <2>2 DEF Logins!ReadUser, Logins!Row, Counted
<1>3. ASSUME NEW r \in Req, Logins!FailLogin(r) \/ Logins!ClearFailures(r), u # loginDoc[r]
      PROVE  Counted(u)'
  <2>1. /\ attempts'[u] = attempts[u] /\ first'[u] = first[u] /\ lock'[u] = lock[u] /\ tries'[u] = tries[u]
        /\ Logins!EndRequest(r) /\ \E afresh \in BOOLEAN : Logins!Races(r, afresh)
    BY <1>3, OneRow
  <2>2. u \notin loginRaced' => u \notin loginRaced
    BY <1>3, <2>1 DEF Logins!Races
  <2>3. \A q \in Req : loginDoc'[q] = u => loginDoc[q] = u /\ loginView'[q] = loginView[q]
    BY <2>1, OthersGoOn, NoneAssumption
  <2>4. QED
    BY <2>1, <2>2, <2>3 DEF Counted
<1>4. ASSUME NEW r \in Req, Logins!FailLogin(r) \/ Logins!ClearFailures(r), u = loginDoc[r], u \notin loginRaced'
      PROVE  /\ \A q \in Req : loginDoc'[q] # u
             /\ loginView[r].attempts = attempts[u] /\ loginView[r].first = first[u]
             /\ u \in loginRaced /\ Logins!FailLogin(r) => first[u] # "recent"
  <2>a. PICK afresh \in BOOLEAN : Logins!Races(r, afresh) /\ (Logins!FailLogin(r) => afresh = (loginView[r].first # "recent"))
    BY <1>4, OneRow
  <2>1. Logins!Others(r, u) = {}
    BY <1>4, <2>a DEF Logins!Races
  <2>2. \A q \in Req : loginDoc'[q] # u
    <3>1. Logins!EndRequest(r)
      BY <1>4, OneRow
    <3>2. QED
      BY <2>1, <3>1, OthersGoOn, NoneAssumption DEF Logins!Others
  <2>3. CASE u \in loginRaced
    <3>1. afresh /\ loginView[r] = Logins!Row(u)
      BY <1>4, <2>a, <2>1, <2>3 DEF Logins!Races
    <3>2. loginView[r].attempts = attempts[u] /\ loginView[r].first = first[u]
      BY <3>1 DEF Logins!Row
    <3>3. Logins!FailLogin(r) => ~ (loginView[r].first = "recent")
      BY <2>a, <3>1
    <3>4. QED
      BY <2>2, <3>2, <3>3
  <2>4. CASE u \notin loginRaced
    BY <1>4, <2>2, <2>4 DEF Counted
  <2>5. QED
    BY <2>3, <2>4
<1>5. ASSUME NEW r \in Req, Logins!ClearFailures(r), u = loginDoc[r] PROVE Counted(u)'
  <2> SUFFICES ASSUME u \notin loginRaced' PROVE (\A q \in Req : loginDoc'[q] # u) /\ first'[u] # "recent"
    BY DEF Counted
  <2>1. (\A q \in Req : loginDoc'[q] # u) /\ loginView[r].first = first[u]
    BY <1>4, <1>5
  <2>2. QED
    BY <1>5, <2>1 DEF Logins!ClearFailures, Logins!Write, Logins!Clear
<1>6. ASSUME NEW r \in Req, Logins!FailLogin(r), u = loginDoc[r] PROVE Counted(u)'
  <2> SUFFICES ASSUME u \notin loginRaced'
               PROVE  /\ \A q \in Req : loginDoc'[q] # u
                      /\ attempts'[u] = tries'[u]
                      /\ lock'[u] # "future" => attempts'[u] < Threshold
    BY DEF Counted
  <2> DEFINE n == Logins!Count(r)
  <2>1. /\ \A q \in Req : loginDoc'[q] # u
        /\ loginView[r].attempts = attempts[u] /\ loginView[r].first = first[u]
        /\ first[u] = "recent" => u \notin loginRaced
    BY <1>4, <1>6
  <2>2. attempts[u] \in Nat /\ tries[u] \in Nat
    OBVIOUS
  <2>3. attempts'[u] = n
    BY <1>6, <2>1 DEF Logins!FailLogin, Logins!Write
  <2>4. tries'[u] = n
    BY <1>6, <2>1, <2>2 DEF Logins!FailLogin, Logins!Count, Counted
  <2>5. loginView[r].lock # "future"
    BY <1>6 DEF Logins!FailLogin, ReadUnlocked
  <2>6. lock'[u] # "future" => ~ (n >= Threshold)
    BY <1>6, <2>5 DEF Logins!FailLogin, Logins!Write
  <2>7. n \in Nat
    BY <2>1, <2>2 DEF Logins!Count
  <2>8. QED
    BY <2>1, <2>3, <2>4, <2>6, <2>7
<1>7. ASSUME NEW r \in Req, Logins!Rollback(r) PROVE Counted(u)'
  <2>1. \A q \in Req : loginDoc'[q] = u => loginDoc[q] = u /\ loginView'[q] = loginView[q]
    BY <1>7, OthersGoOn, NoneAssumption DEF Logins!Rollback
  <2>2. QED
    BY <1>7, <2>1 DEF Logins!Rollback, Counted
<1>8. ASSUME NEW v \in User, Logins!WindowPasses(v) \/ Logins!LockRunsOut(v) PROVE Counted(u)'
  BY <1>8 DEF Logins!WindowPasses, Logins!LockRunsOut, Counted
<1>9. QED
  BY <1>1, <1>2, <1>3, <1>5, <1>6, <1>7, <1>8 DEF Logins!Next

\* At first nobody failed.
LEMMA InitCount ==
    ASSUME IsFiniteSet(Req), Threshold \in Nat
    PROVE  Logins!Init => CountInvariant
<1> SUFFICES ASSUME Logins!Init PROVE CountInvariant
  OBVIOUS
<1>1. LockoutInvariant
  BY LockoutInit
<1>2. \A u \in User : Paid(u) /\ Counted(u)
  BY NoneAssumption DEF Logins!Init, Paid, Counted
<1>3. QED
  BY <1>1, <1>2 DEF CountInvariant

\* Failed logins that do not overlap lock the account at the threshold; those that
\* overlap and lose counts (_handle_failed_login) lock it in the end as well: no
\* later than a failure that depends on nothing but the threshold and the number
\* of requests at work at once.
THEOREM AccountsLockInTime ==
    ASSUME IsFiniteSet(Req), Threshold \in Nat, MaxLogins \in Nat, MaxLogins >= LastFailure
    PROVE  Spec => []LockedInTime
<1>1. Init => CountInvariant
  BY InitCount DEF Init
<1>2. CountInvariant /\ [Next]_vars => CountInvariant'
  <2> SUFFICES ASSUME CountInvariant, [Next]_vars PROVE CountInvariant'
    OBVIOUS
  <2>1. LockoutInvariant /\ LockoutInvariant' /\ [Logins!Next]_(Logins!vars)
    BY LockoutStep, LoginNext DEF CountInvariant
  <2>2. \A u \in User : Paid(u)' /\ Counted(u)'
    BY <2>1, PaidStep, CountedStep DEF CountInvariant
  <2>3. QED
    BY <2>1, <2>2 DEF CountInvariant
<1>3. CountInvariant => LockedInTime
  <2> SUFFICES ASSUME CountInvariant, NEW u \in User, first[u] = "recent", lock[u] # "future"
               PROVE  tries[u] < MaxLogins /\ (u \notin loginRaced => tries[u] < Threshold)
    BY DEF LockedInTime, Logins!LockedInTime
  <2>1. PICK b : b = Cardinality(Req) * Chances[Threshold]
    OBVIOUS
  <2>2. b \in Int
    BY <2>1, AllType
  <2>3. tries[u] + Left(u) <= b + 1
    BY <2>1 DEF CountInvariant, Paid
  <2>4. Left(u) \in Nat /\ tries[u] \in Nat
    BY LeftType DEF CountInvariant, LockoutInvariant, Logins!TypeOK
  <2>5. MaxLogins >= b + 2
    BY <2>1 DEF LastFailure
  <2>6. tries[u] < MaxLogins
    BY <2>2, <2>3, <2>4, <2>5
  <2>7. u \notin loginRaced => tries[u] < Threshold
    BY DEF CountInvariant, Counted
  <2>8. QED
    BY <2>6, <2>7
<1>4. QED
  BY <1>1, <1>2, <1>3, PTL DEF Spec

-----------------------------------------------------------------------------
(* Sessions                                                                *)

\* A step of the composition is a step of Sessions, or leaves it alone.
LEMMA SessionNext == [Next]_vars => [Tokens!Next]_(Tokens!vars)
BY DEF Next, vars, sessions, Tokens!vars, Tokens!redis, Tokens!rows, Tokens!client, Tokens!local,
   Tokens!history

\* Who is at work, and at what.
Working ==
    \A r \in Req :
        IF tokenPc[r] = "idle" THEN tokenOp[r] = "none" /\ tokenDoc[r] = NoUser
        ELSE tokenOp[r] \in Tokens!Op /\ tokenDoc[r] \in User

\* One request holds a user's row, and there is room for the password it sets.
Holders ==
    /\ \A r \in Req : Tokens!HoldsRow(r) => password[tokenDoc[r]] < MaxPassword
    /\ \A r, q \in Req : Tokens!HoldsRow(r) /\ Tokens!HoldsRow(q) /\ tokenDoc[r] = tokenDoc[q] => r = q

\* A token that exists belongs to a user, and to the login of a token that exists.
Exists(t) == session[t].user # NoUser
Rooted(t) ==
    IF Exists(t) THEN session[t].login \in Token /\ Exists(session[t].login)
    ELSE session[t] = Tokens!NoSession

\* A refresh works with a token of its user.
Carried(r) ==
    tokenOp[r] = "refresh" =>
        tok[r] \in Token /\ Exists(tok[r]) /\ session[tok[r]].user = tokenDoc[r]

\* The tokens, as logins and refreshes have made them.
Tree ==
    /\ \A t \in Token : Rooted(t)
    /\ \A u \in User : \A t \in registered[u] : session[t].user = u
    /\ \A r \in Req : Carried(r)
    /\ \A l \in ended : Exists(l)

\* The types, and what every proof about sessions needs beside them.
SessionTypes == Tokens!TypeOK /\ Working /\ Holders /\ Tree

\* A behaviour starts where the types hold.
LEMMA SessionInit == Tokens!Init => SessionTypes
BY NoneAssumption, BoundAssumption DEF Tokens!Init, SessionTypes, Tokens!TypeOK, Working, Holders, Tree, Carried, Rooted, Exists, Tokens!NoSession,
  Tokens!NoRow, Tokens!SessionType, Tokens!HoldsRow

\* A request that starts has read a row, and holds nothing yet.
LEMMA StartKeeps ==
    ASSUME SessionTypes, NEW r \in Req, NEW kind \in Tokens!Op, NEW u \in User,
           Tokens!Start(r, kind, u, "read"),
           kind = "refresh" => tok'[r] \in Token /\ Exists(tok'[r]) /\ session[tok'[r]].user = u,
           tok' \in [Req -> Token \cup {NoToken}], \A q \in Req : q # r => tok'[q] = tok[q],
           UNCHANGED <<registered, password, mustChange, session, ended>>
    PROVE  /\ tokenPc' \in [Req -> {"idle", "read", "removed", "flushed", "swept", "registered"}]
           /\ tokenOp' \in [Req -> Tokens!Op \cup {"none"}]
           /\ tokenDoc' \in [Req -> User \cup {NoUser}]
           /\ Working' /\ Holders' /\ Tree'
<1> USE DEF SessionTypes, Tokens!TypeOK, Tokens!Start, Tokens!Go
<1>1. /\ tokenPc' \in [Req -> {"idle", "read", "removed", "flushed", "swept", "registered"}]
      /\ tokenOp' \in [Req -> Tokens!Op \cup {"none"}]
      /\ tokenDoc' \in [Req -> User \cup {NoUser}]
  OBVIOUS
<1>2. Working'
  BY DEF Working
<1>3. \A q \in Req : Tokens!HoldsRow(q)' => Tokens!HoldsRow(q) /\ q # r
  BY DEF Tokens!HoldsRow
<1>4. Holders'
  BY <1>3 DEF Holders
<1>5. Tree'
  BY DEF Tree, Carried, Rooted, Exists
<1> QED
  BY <1>1, <1>2, <1>4, <1>5

\* A request that ends frees the row it held, and leaves the others alone.
LEMMA EndKeeps ==
    ASSUME SessionTypes, NEW r \in Req, Tokens!EndRequest(r),
           Tree' , \A q \in Req : q # r /\ Tokens!HoldsRow(q) => password'[tokenDoc[q]] < MaxPassword
    PROVE  /\ tokenPc' \in [Req -> {"idle", "read", "removed", "flushed", "swept", "registered"}]
           /\ tokenOp' \in [Req -> Tokens!Op \cup {"none"}]
           /\ tokenDoc' \in [Req -> User \cup {NoUser}]
           /\ tok' \in [Req -> Token \cup {NoToken}]
           /\ key' \in [Req -> ResetToken \cup {NoReset}]
           /\ seen' \in [Req -> [password : 0..MaxPassword, mustChange : BOOLEAN]]
           /\ Working' /\ Holders'
<1> USE DEF SessionTypes, Tokens!TypeOK, Tokens!EndRequest, Tokens!Go
<1>1. /\ tokenPc' \in [Req -> {"idle", "read", "removed", "flushed", "swept", "registered"}]
      /\ tokenOp' \in [Req -> Tokens!Op \cup {"none"}]
      /\ tokenDoc' \in [Req -> User \cup {NoUser}]
           /\ tok' \in [Req -> Token \cup {NoToken}]
           /\ key' \in [Req -> ResetToken \cup {NoReset}]
  OBVIOUS
<1>2. seen' \in [Req -> [password : 0..MaxPassword, mustChange : BOOLEAN]]
  BY BoundAssumption DEF Tokens!NoRow
<1>3. Working'
  BY DEF Working
<1>4. \A q \in Req : Tokens!HoldsRow(q)' => Tokens!HoldsRow(q) /\ q # r
  BY DEF Tokens!HoldsRow
<1>5. Holders'
  BY <1>4 DEF Holders
<1> QED
  BY <1>1, <1>2, <1>3, <1>5

\* Steps that begin no request and end none.
LEMMA GoKeeps ==
    ASSUME SessionTypes, NEW r \in Req, NEW where \in {"removed", "flushed", "swept", "registered"},
           tokenPc[r] # "idle", Tokens!Go(r, where), UNCHANGED <<tokenOp, tokenDoc, password>>,
           where = "removed" => tokenOp[r] = "refresh",
           Tokens!HoldsRow(r) \/ ~ (Tokens!HoldsRow(r)') \/ Tokens!CanWrite(r)
    PROVE  /\ tokenPc' \in [Req -> {"idle", "read", "removed", "flushed", "swept", "registered"}]
           /\ Working' /\ Holders'
<1> USE DEF SessionTypes, Tokens!TypeOK, Tokens!Go
<1>1. tokenPc' \in [Req -> {"idle", "read", "removed", "flushed", "swept", "registered"}]
  OBVIOUS
<1>2. Working'
  BY DEF Working
<1>3. \A q \in Req : q # r => (Tokens!HoldsRow(q)' <=> Tokens!HoldsRow(q))
  BY DEF Tokens!HoldsRow
<1>4. Holders'
  BY <1>3 DEF Holders, Tokens!CanWrite, Tokens!Others
<1> QED
  BY <1>1, <1>2, <1>4

\* The token that a request registers is a new one of its login.
LEMMA RegisterGrows ==
    ASSUME SessionTypes, NEW r \in Req, NEW t \in Token, Tokens!Register(r, t)
    PROVE  /\ Tree' /\ session' \in [Token -> Tokens!SessionType]
           /\ \A v \in Token : v # t => session'[v] = session[v]
           /\ session'[t].user = tokenDoc[r] /\ tokenDoc[r] \in User
           /\ session'[t].login = IF tokenOp[r] = "refresh" THEN session[tok[r]].login ELSE t
           /\ session'[t].born = IF tokenOp[r] = "refresh" THEN session[tok[r]].born
                                 ELSE IF tokenOp[r] = "login" THEN seen[r].password
                                 ELSE seen[r].password + 1
           /\ tokenOp[r] \in {"refresh", "login", "forced"} /\ tokenPc[r] # "idle"
<1> USE DEF SessionTypes
<1>1. tokenDoc[r] \in User /\ tokenOp[r] \in {"refresh", "login", "forced"} /\ tokenPc[r] # "idle"
  BY DEF Tokens!Register, Working
<1> DEFINE h == Tokens!Heir(r, t)
       root == IF tokenOp[r] = "refresh" THEN session[tok[r]].login ELSE t
       b == IF tokenOp[r] = "refresh" THEN session[tok[r]].born
            ELSE IF tokenOp[r] = "login" THEN seen[r].password ELSE seen[r].password + 1
<1>2. h = [user |-> tokenDoc[r], login |-> root, born |-> b]
  BY <1>1 DEF Tokens!Heir
<1>3. tokenOp[r] = "refresh" => session[tok[r]].login \in Token /\ Exists(session[tok[r]].login)
         /\ session[tok[r]].born \in 0..MaxPassword+1
  BY DEF Tree, Carried, Rooted, Tokens!TypeOK, Tokens!SessionType
<1>4. seen[r].password \in 0..MaxPassword
  BY DEF Tokens!TypeOK
<1>5. root \in Token /\ b \in 0..MaxPassword + 1 /\ (tokenOp[r] = "refresh" => Exists(root)) /\ (tokenOp[r] # "refresh" => root = t)
  BY <1>1, <1>3, <1>4, BoundAssumption
<1> HIDE DEF h, root, b
<1>6. h \in Tokens!SessionType /\ h.user = tokenDoc[r] /\ h.login = root /\ h.born = b
  BY <1>1, <1>2, <1>5 DEF Tokens!SessionType
<1>7. session' = [session EXCEPT ![t] = h] /\ session[t] = Tokens!NoSession
  BY DEF Tokens!Register, h
<1>8. UNCHANGED ended /\ registered' = [registered EXCEPT ![tokenDoc[r]] = @ \cup {t}]
  BY DEF Tokens!Register
<1>9. session' \in [Token -> Tokens!SessionType] /\ session'[t] = h
      /\ \A v \in Token : v # t => session'[v] = session[v]
  BY <1>6, <1>7 DEF Tokens!TypeOK
<1>10. \A v \in Token : Exists(v)' <=> (v = t \/ Exists(v))
  BY <1>1, <1>6, <1>9, NoneAssumption DEF Exists
<1>11. ~Exists(t)
  BY <1>7 DEF Exists, Tokens!NoSession
<1>12. Tree'
  <2>1. ASSUME NEW v \in Token PROVE Rooted(v)'
    BY <1>5, <1>6, <1>9, <1>10 DEF Tree, Carried, Rooted, Exists
  <2>2. ASSUME NEW u \in User, NEW v \in registered'[u] PROVE session'[v].user = u
    BY <1>6, <1>7, <1>8, <1>9, NoneAssumption DEF Tree, Tokens!TypeOK, Tokens!NoSession
  <2>3. \A q \in Req : tokenOp'[q] = "refresh" => tokenOp[q] = "refresh" /\ tok'[q] = tok[q] /\ tokenDoc'[q] = tokenDoc[q]
    BY DEF Tokens!Register, Tokens!EndRequest, Tokens!Go, Tokens!TypeOK
  <2>4. ASSUME NEW q \in Req PROVE Carried(q)'
    BY <2>3, <1>9, <1>10, <1>11 DEF Tree, Carried, Exists
  <2>5. \A l \in ended' : Exists(l)'
    BY <1>8, <1>10 DEF Tree, Tokens!TypeOK
  <2> QED
    BY <2>1, <2>2, <2>4, <2>5 DEF Tree, Exists
<1> QED
  BY <1>1, <1>6, <1>9, <1>12 DEF root, b

\* Every step of Sessions keeps the types.
LEMMA TypesStep ==
    ASSUME SessionTypes, [Tokens!Next]_(Tokens!vars)
    PROVE  SessionTypes'
<1> USE DEF SessionTypes, Tokens!redis, Tokens!rows, Tokens!client, Tokens!local, Tokens!history
<1>1. CASE UNCHANGED Tokens!vars
  BY <1>1 DEF Tokens!vars, Tokens!TypeOK, Working, Holders, Tokens!HoldsRow, Tree, Carried, Rooted, Exists
<1>2. ASSUME NEW r \in Req, NEW u \in User, NEW kind \in {"login", "adminReset", "ownChange", "forced"},
             Tokens!ReadUser(r, u, kind)
      PROVE  SessionTypes'
  <2>1. kind \in Tokens!Op /\ kind # "refresh"
    BY DEF Tokens!Op, Tokens!Changes, Tokens!Resets
  <2>2. seen' \in [Req -> [password : 0..MaxPassword, mustChange : BOOLEAN]]
    BY <1>2 DEF Tokens!ReadUser, Tokens!ReadRow, Tokens!TypeOK
  <2>3. Tokens!Start(r, kind, u, "read") /\ tok' \in [Req -> Token \cup {NoToken}]
    BY <1>2 DEF Tokens!ReadUser, Tokens!TypeOK
  <2>4. /\ tokenPc' \in [Req -> {"idle", "read", "removed", "flushed", "swept", "registered"}]
           /\ tokenOp' \in [Req -> Tokens!Op \cup {"none"}]
           /\ tokenDoc' \in [Req -> User \cup {NoUser}]
           /\ Working' /\ Holders' /\ Tree'
    BY <1>2, <2>1, <2>3, StartKeeps DEF Tokens!ReadUser
  <2>5. QED
    BY <1>2, <2>2, <2>4 DEF Tokens!ReadUser, Tokens!TypeOK
<1>3. ASSUME NEW r \in Req, NEW t \in Token, Tokens!CheckSession(r, t) PROVE SessionTypes'
  <2>1. session[t].user \in User /\ "refresh" \in Tokens!Op /\ session[t].login \in Token
    BY <1>3, NoneAssumption DEF Tokens!CheckSession, Tokens!IsSessionValid, Tokens!TypeOK, Tokens!SessionType, Tree, Carried, Rooted, Exists, Tokens!Op
  <2>2. tok' \in [Req -> Token \cup {NoToken}] /\ tok'[r] = t /\ forked' \subseteq Token
        /\ \A q \in Req : q # r => tok'[q] = tok[q]
    BY <1>3, <2>1 DEF Tokens!CheckSession, Tokens!TypeOK
  <2>3. Exists(t)
    BY <1>3 DEF Tokens!CheckSession, Tokens!IsSessionValid, Exists
  <2>4. Tokens!Start(r, "refresh", session[t].user, "read")
        /\ UNCHANGED <<registered, password, mustChange, session, ended>>
    BY <1>3 DEF Tokens!CheckSession
  <2>5. /\ tokenPc' \in [Req -> {"idle", "read", "removed", "flushed", "swept", "registered"}]
           /\ tokenOp' \in [Req -> Tokens!Op \cup {"none"}]
           /\ tokenDoc' \in [Req -> User \cup {NoUser}]
           /\ Working' /\ Holders' /\ Tree'
    BY <2>1, <2>2, <2>3, <2>4, StartKeeps
  <2>6. QED
    BY <1>3, <2>2, <2>5 DEF Tokens!CheckSession, Tokens!TypeOK
<1>4. ASSUME NEW r \in Req, NEW t \in Token, Tokens!Register(r, t) PROVE SessionTypes'
  <2>1. Tree' /\ session' \in [Token -> Tokens!SessionType] /\ tokenDoc[r] \in User
    BY <1>4, RegisterGrows
  <2>2. registered' \in [User -> SUBSET Token] /\ tokenRaced' \subseteq User
        /\ UNCHANGED <<used, password, mustChange, issued, expiring, changes, ended, forked, lastReset>>
    BY <1>4, <2>1 DEF Tokens!Register, Tokens!TypeOK
  <2>3. CASE tokenOp[r] = "forced"
    <3>1. Tokens!Go(r, "registered") /\ UNCHANGED <<tokenOp, tokenDoc, tok, key, seen>>
          /\ tokenPc[r] = "flushed"
      BY <1>4, <2>3 DEF Tokens!Register
    <3>2. Tokens!HoldsRow(r)
      BY <2>3, <3>1 DEF Tokens!HoldsRow, Tokens!Changes
    <3>3. QED
      BY <2>1, <2>2, <3>1, <3>2, GoKeeps DEF Tokens!TypeOK
  <2>4. CASE tokenOp[r] # "forced"
    <3>1. Tokens!EndRequest(r)
      BY <1>4, <2>4 DEF Tokens!Register
    <3>2. \A q \in Req : q # r /\ Tokens!HoldsRow(q) => password'[tokenDoc[q]] < MaxPassword
      BY <2>2 DEF Holders
    <3>3. QED
      BY <2>1, <2>2, <3>1, <3>2, EndKeeps DEF Tokens!TypeOK
  <2>5. QED
    BY <2>3, <2>4
<1>5. ASSUME NEW r \in Req, NEW k \in ResetToken, Tokens!BeginReset(r, k) PROVE SessionTypes'
  <2>1. issued[k] \in User /\ "resetToken" \in Tokens!Op
    BY <1>5 DEF Tokens!BeginReset, Tokens!TypeOK, Tokens!Op, Tokens!Changes, Tokens!Resets
  <2>2. seen' \in [Req -> [password : 0..MaxPassword, mustChange : BOOLEAN]] /\ used' \subseteq ResetToken
        /\ key' \in [Req -> ResetToken \cup {NoReset}]
    BY <1>5, <2>1 DEF Tokens!BeginReset, Tokens!ReadRow, Tokens!TypeOK, Tokens!Claim
  <2>3. Tokens!Start(r, "resetToken", issued[k], "read") /\ tok' \in [Req -> Token \cup {NoToken}]
        /\ UNCHANGED <<registered, password, mustChange, session, ended, tok>>
    BY <1>5 DEF Tokens!BeginReset, Tokens!TypeOK
  <2>4. /\ tokenPc' \in [Req -> {"idle", "read", "removed", "flushed", "swept", "registered"}]
           /\ tokenOp' \in [Req -> Tokens!Op \cup {"none"}]
           /\ tokenDoc' \in [Req -> User \cup {NoUser}]
           /\ Working' /\ Holders' /\ Tree'
    BY <2>1, <2>3, StartKeeps
  <2>5. QED
    BY <1>5, <2>2, <2>4 DEF Tokens!BeginReset, Tokens!TypeOK
<1>6. ASSUME NEW r \in Req, Tokens!Rotate(r) PROVE SessionTypes'
  <2>1. tokenDoc[r] \in User /\ tokenOp[r] = "refresh" /\ ~Tokens!HoldsRow(r)' /\ tokenPc[r] # "idle"
    BY <1>6 DEF Tokens!Rotate, Working, Tokens!HoldsRow, Tokens!Changes, Tokens!Resets
  <2>2. registered' \in [User -> SUBSET Token] /\ \A u \in User : registered'[u] \subseteq registered[u]
    BY <1>6, <2>1 DEF Tokens!Rotate, Tokens!RemoveOld, Tokens!TypeOK
  <2>3. Tree'
    BY <1>6, <2>2 DEF Tokens!Rotate, Tree, Carried, Rooted, Exists
  <2>4. QED
    BY <1>6, <2>1, <2>2, <2>3, GoKeeps DEF Tokens!Rotate, Tokens!TypeOK
<1>7. ASSUME NEW r \in Req, Tokens!Flush(r) PROVE SessionTypes'
  <2>1. Tree'
    BY <1>7 DEF Tokens!Flush, Tree, Carried, Rooted, Exists
  <2>2. QED
    BY <1>7, <2>1, GoKeeps DEF Tokens!Flush, Tokens!TypeOK, Tokens!CanWrite
<1>8. ASSUME NEW r \in Req, Tokens!Sweep(r) PROVE SessionTypes'
  <2>1. Tokens!HoldsRow(r) /\ tokenPc[r] # "idle" /\ tokenDoc[r] \in User
    BY <1>8 DEF Tokens!Sweep, Tokens!HoldsRow, Tokens!Changes, Working
  <2>2. registered' \in [User -> SUBSET Token] /\ \A u \in User : registered'[u] \subseteq registered[u]
        /\ tokenRaced' \subseteq User
    BY <1>8, <2>1 DEF Tokens!Sweep, Tokens!SweepTokens, Tokens!TypeOK
  <2>3. Tree'
    BY <1>8, <2>2 DEF Tokens!Sweep, Tree, Carried, Rooted, Exists
  <2>4. QED
    BY <1>8, <2>1, <2>2, <2>3, GoKeeps DEF Tokens!Sweep, Tokens!TypeOK
<1>9. ASSUME NEW r \in Req, Tokens!SetPassword(r), tokenPc[r] # "idle",
             Tokens!HoldsRow(r) \/ Tokens!CanWrite(r),
             changes' \in [ResetToken -> Nat], lastReset' \in [User -> 0..MaxPassword],
             tokenRaced' \subseteq User
      PROVE  SessionTypes'
  <2>1. tokenDoc[r] \in User /\ password[tokenDoc[r]] \in 0..MaxPassword /\ password[tokenDoc[r]] < MaxPassword
    BY <1>9 DEF Working, Holders, Tokens!CanWrite, Tokens!TypeOK
  <2>2. password' \in [User -> 0..MaxPassword]
        /\ \A u \in User : u # tokenDoc[r] => password'[u] = password[u]
    BY <1>9, <2>1, BoundAssumption DEF Tokens!SetPassword, Tokens!TypeOK
  <2>3. Tokens!MustChange(r) \in BOOLEAN
    BY <2>1 DEF Tokens!MustChange, Tokens!TypeOK
  <2>4. mustChange' \in [User -> BOOLEAN]
    BY <1>9, <2>3 DEF Tokens!SetPassword, Tokens!TypeOK
  <2>5. Tokens!EndRequest(r) /\ UNCHANGED <<registered, used, session, issued, expiring, ended, forked>>
    BY <1>9 DEF Tokens!SetPassword
  <2>6. Tree'
    BY <2>5 DEF Tree, Carried, Rooted, Exists, Tokens!EndRequest, Tokens!TypeOK
  <2>7. \A q \in Req : q # r /\ Tokens!HoldsRow(q) => tokenDoc[q] \in User /\ tokenDoc[q] # tokenDoc[r]
    BY <1>9 DEF Holders, Tokens!CanWrite, Tokens!Others, Working, Tokens!HoldsRow
  <2>8. \A q \in Req : q # r /\ Tokens!HoldsRow(q) => password'[tokenDoc[q]] < MaxPassword
    BY <2>2, <2>7 DEF Holders
  <2>9. QED
    BY <1>9, <2>2, <2>4, <2>5, <2>6, <2>8, EndKeeps DEF Tokens!TypeOK
<1>10. ASSUME NEW r \in Req, Tokens!SetByReset(r), tokenOp[r] \in Tokens!Resets,
              changes' \in [ResetToken -> Nat]
       PROVE  SessionTypes'
  <2>1. Tokens!HoldsRow(r) /\ tokenPc[r] # "idle" /\ tokenDoc[r] \in User
    BY <1>10 DEF Tokens!SetByReset, Tokens!HoldsRow, Tokens!Changes, Working
  <2>2. password[tokenDoc[r]] \in 0..MaxPassword /\ password[tokenDoc[r]] < MaxPassword
    BY <2>1 DEF Holders, Tokens!TypeOK
  <2>3. lastReset' \in [User -> 0..MaxPassword] /\ tokenRaced' \subseteq User
    BY <1>10, <2>1, <2>2, BoundAssumption DEF Tokens!SetByReset, Tokens!TypeOK
  <2>4. QED
    BY <1>9, <1>10, <2>1, <2>3 DEF Tokens!SetByReset
<1>11. ASSUME NEW r \in Req, Tokens!CommitReset(r) \/ Tokens!CommitAdminReset(r) PROVE SessionTypes'
  <2>1. changes' \in [ResetToken -> Nat]
    BY <1>11 DEF Tokens!CommitReset, Tokens!CommitAdminReset, Tokens!TypeOK
  <2>2. QED
    BY <1>10, <1>11, <2>1 DEF Tokens!CommitReset, Tokens!CommitAdminReset, Tokens!Resets
<1>12. ASSUME NEW r \in Req, Tokens!CommitOwnChange(r) \/ Tokens!CommitForcedChange(r) PROVE SessionTypes'
  <2>1. changes' \in [ResetToken -> Nat] /\ lastReset' \in [User -> 0..MaxPassword] /\ tokenRaced' \subseteq User
    BY <1>12 DEF Tokens!CommitOwnChange, Tokens!CommitForcedChange, Tokens!TypeOK
  <2>2. tokenPc[r] # "idle" /\ (Tokens!HoldsRow(r) \/ Tokens!CanWrite(r)) /\ Tokens!SetPassword(r)
    BY <1>12 DEF Tokens!CommitOwnChange, Tokens!CommitForcedChange, Tokens!CanWrite, Tokens!HoldsRow, Tokens!Changes
  <2>3. QED
    BY <1>9, <2>1, <2>2
<1>13. ASSUME NEW r \in Req, Tokens!Rollback(r) PROVE SessionTypes'
  <2>1. Tree'
    BY <1>13 DEF Tokens!Rollback, Tokens!EndRequest, Tree, Carried, Rooted, Exists, Tokens!TypeOK
  <2>2. \A q \in Req : q # r /\ Tokens!HoldsRow(q) => password'[tokenDoc[q]] < MaxPassword
    BY <1>13 DEF Tokens!Rollback, Holders
  <2>3. QED
    BY <1>13, <2>1, <2>2, EndKeeps DEF Tokens!Rollback, Tokens!TypeOK
<1>14. ASSUME NEW t \in Token, Tokens!Logout(t) PROVE SessionTypes'
  <2>1. session[t].user \in User /\ session[t].login \in Token /\ Exists(session[t].login)
    BY <1>14 DEF Tokens!Logout, Tokens!TypeOK, Tokens!SessionType, Tree, Carried, Rooted, Exists
  <2>2. registered' \in [User -> SUBSET Token] /\ (\A u \in User : registered'[u] \subseteq registered[u])
        /\ ended' \subseteq Token /\ forked' \subseteq Token /\ \A l \in ended' : l \in ended \/ Exists(l)
    BY <1>14, <2>1 DEF Tokens!Logout, Tokens!RemoveOld, Tokens!TypeOK
  <2>3. Tree'
    BY <1>14, <2>2 DEF Tokens!Logout, Tree, Carried, Rooted, Exists
  <2>4. QED
    BY <1>14, <2>2, <2>3 DEF Tokens!Logout, Tokens!TypeOK, Working, Holders, Tokens!HoldsRow
<1>15. ASSUME NEW k \in ResetToken, NEW u \in User, Tokens!RequestReset(k, u)
       PROVE SessionTypes'
  <2>1. issued' \in [ResetToken -> User \cup {NoUser}]
    BY <1>15 DEF Tokens!RequestReset, Tokens!TypeOK
  <2>2. UNCHANGED <<registered, used, password, mustChange, session, expiring, Tokens!local, Tokens!history>>
    BY <1>15 DEF Tokens!RequestReset
  <2>3. QED
    BY <2>1, <2>2 DEF Tokens!TypeOK, Working, Holders, Tokens!HoldsRow, Tree, Carried, Rooted, Exists
<1> QED
  <2>1. ASSUME NEW r \in Req, NEW u \in User,
               Tokens!BeginLogin(r, u) \/ Tokens!BeginAdminReset(r, u)
               \/ Tokens!BeginOwnChange(r, u) \/ Tokens!BeginForcedChange(r, u)
        PROVE  SessionTypes'
    BY <1>2, <2>1 DEF Tokens!BeginLogin, Tokens!BeginAdminReset, Tokens!BeginOwnChange, Tokens!BeginForcedChange,
      Tokens!ReadUser
  <2>2. ASSUME NEW k \in ResetToken, Tokens!MarkerExpires(k) PROVE SessionTypes'
    <3>1. used' \subseteq ResetToken /\ expiring' \subseteq ResetToken
      BY <2>2 DEF Tokens!MarkerExpires, Tokens!TypeOK
    <3>2. QED
      BY <2>2, <3>1 DEF Tokens!MarkerExpires, Tokens!TypeOK, Working, Holders, Tokens!HoldsRow, Tree,
         Carried, Rooted, Exists
  <2>3. QED
    BY <1>1, <1>3, <1>4, <1>5, <1>6, <1>7, <1>8, <1>11, <1>12, <1>13, <1>14, <1>15, <2>1, <2>2 DEF Tokens!Next

\* A reset request has claimed its token, whose marker is there for as long as
\* the token lives; and then it is the only one, and the first.
Claimed(k) ==
    k \notin expiring =>
        /\ changes[k] <= 1
        /\ changes[k] > 0 => k \in used
        /\ \A r \in Req : tokenOp[r] = "resetToken" /\ key[r] = k => k \in used /\ changes[k] = 0
        /\ \A r, q \in Req :
              tokenOp[r] = "resetToken" /\ tokenOp[q] = "resetToken" /\ key[r] = k /\ key[q] = k => r = q

\* A reset request carries a reset token.
KeyTypes == \A r \in Req : tokenOp[r] = "resetToken" => key[r] \in ResetToken

\* What the proof of ResetOnce carries.
ResetInvariant == SessionTypes /\ KeyTypes /\ \A k \in ResetToken : Claimed(k)

\* A behaviour starts where no reset token is used.
LEMMA ResetInit == Tokens!Init => ResetInvariant
BY SessionInit DEF Tokens!Init, ResetInvariant, KeyTypes, Claimed

\* Every step of Sessions keeps the claims of the resets.
LEMMA ResetStep ==
    ASSUME ResetInvariant, [Tokens!Next]_(Tokens!vars)
    PROVE  ResetInvariant'
<1> USE DEF ResetInvariant, Tokens!redis, Tokens!rows, Tokens!client, Tokens!local, Tokens!history
<1>1. SessionTypes /\ SessionTypes' /\ Tokens!TypeOK
  BY TypesStep DEF SessionTypes
<1>2. ASSUME UNCHANGED <<used, expiring, changes>>,
             \A q \in Req : tokenOp'[q] = "resetToken" => tokenOp[q] = "resetToken" /\ key'[q] = key[q]
      PROVE  ResetInvariant'
  BY <1>1, <1>2 DEF KeyTypes, Claimed
<1>3. CASE UNCHANGED Tokens!vars
  BY <1>2, <1>3 DEF Tokens!vars
<1>4. ASSUME NEW r \in Req, NEW u \in User, NEW kind \in {"login", "adminReset", "ownChange", "forced"},
             Tokens!ReadUser(r, u, kind)
      PROVE  ResetInvariant'
  BY <1>1, <1>2, <1>4 DEF Tokens!ReadUser, Tokens!Start, Tokens!TypeOK
<1>5. ASSUME NEW r \in Req, NEW t \in Token, Tokens!CheckSession(r, t) PROVE ResetInvariant'
  BY <1>1, <1>2, <1>5 DEF Tokens!CheckSession, Tokens!Start, Tokens!TypeOK
<1>6. ASSUME NEW r \in Req, NEW t \in Token, Tokens!Register(r, t) PROVE ResetInvariant'
  BY <1>1, <1>2, <1>6 DEF Tokens!Register, Tokens!EndRequest, Tokens!TypeOK
<1>7. ASSUME NEW r \in Req, NEW k \in ResetToken, Tokens!BeginReset(r, k) PROVE ResetInvariant'
  <2>1. /\ k \notin used /\ used' = used \cup {k} /\ UNCHANGED <<expiring, changes>>
        /\ \A q \in Req : q # r => tokenOp'[q] = tokenOp[q] /\ key'[q] = key[q]
        /\ tokenOp'[r] = "resetToken" /\ key'[r] = k
    BY <1>1, <1>7 DEF Tokens!BeginReset, Tokens!Claim, Tokens!Start, Tokens!TypeOK
  <2>2. KeyTypes'
    BY <2>1 DEF KeyTypes
  <2>3. ASSUME NEW j \in ResetToken PROVE Claimed(j)'
    <3>1. CASE j = k
      <4>1. k \notin expiring =>
                changes[k] = 0 /\ \A q \in Req : ~(tokenOp[q] = "resetToken" /\ key[q] = k)
        BY <1>1, <2>1 DEF Claimed, Tokens!TypeOK
      <4>2. QED
        BY <2>1, <3>1, <4>1 DEF Claimed
    <3>2. CASE j # k
      BY <2>1, <3>2 DEF Claimed
    <3>3. QED
      BY <3>1, <3>2
  <2>4. QED
    BY <1>1, <2>2, <2>3
<1>8. ASSUME NEW r \in Req, Tokens!Rotate(r) \/ Tokens!Flush(r) \/ Tokens!Sweep(r) PROVE ResetInvariant'
  BY <1>2, <1>8 DEF Tokens!Rotate, Tokens!Flush, Tokens!Sweep
<1>9. ASSUME NEW r \in Req, Tokens!EndRequest(r)
      PROVE  /\ \A q \in Req : tokenOp'[q] = "resetToken" => q # r /\ tokenOp[q] = "resetToken" /\ key'[q] = key[q]
  BY <1>1, <1>9 DEF Tokens!EndRequest, Tokens!TypeOK
<1>10. ASSUME NEW r \in Req, Tokens!CommitReset(r) PROVE ResetInvariant'
  <2>1. /\ tokenOp[r] = "resetToken" /\ key[r] \in ResetToken /\ UNCHANGED <<used, expiring>>
        /\ changes' = [changes EXCEPT ![key[r]] = @ + 1] /\ Tokens!EndRequest(r)
    BY <1>10 DEF Tokens!CommitReset, Tokens!SetByReset, Tokens!SetPassword, KeyTypes
  <2>2. KeyTypes'
    BY <2>1, <1>9 DEF KeyTypes
  <2>3. ASSUME NEW j \in ResetToken PROVE Claimed(j)'
    BY <1>1, <1>9, <2>1 DEF Claimed, KeyTypes, Tokens!TypeOK
  <2>4. QED
    BY <1>1, <2>2, <2>3
<1>11. ASSUME NEW r \in Req, Tokens!CommitAdminReset(r) \/ Tokens!CommitOwnChange(r) \/ Tokens!CommitForcedChange(r)
                             \/ Tokens!Rollback(r)
       PROVE  ResetInvariant'
  BY <1>2, <1>9, <1>11 DEF Tokens!CommitAdminReset, Tokens!CommitOwnChange, Tokens!CommitForcedChange, Tokens!Rollback,
    Tokens!SetByReset, Tokens!SetPassword
<1>12. ASSUME NEW t \in Token, Tokens!Logout(t) PROVE ResetInvariant'
  BY <1>2, <1>12 DEF Tokens!Logout, Tokens!RemoveOld
<1>13. ASSUME NEW k \in ResetToken, Tokens!MarkerExpires(k) PROVE ResetInvariant'
  <2>1. /\ used' = used \ {k} /\ expiring' = expiring \cup {k} /\ UNCHANGED <<changes, tokenOp, key>>
    BY <1>13 DEF Tokens!MarkerExpires
  <2>2. QED
    BY <1>1, <2>1 DEF KeyTypes, Claimed
<1>14. ASSUME NEW k \in ResetToken, NEW u \in User, Tokens!RequestReset(k, u) PROVE ResetInvariant'
  BY <1>2, <1>14 DEF Tokens!RequestReset
<1> QED
  <2>1. ASSUME NEW r \in Req, NEW u \in User,
               Tokens!BeginLogin(r, u) \/ Tokens!BeginAdminReset(r, u)
               \/ Tokens!BeginOwnChange(r, u) \/ Tokens!BeginForcedChange(r, u)
        PROVE  ResetInvariant'
    BY <1>4, <2>1 DEF Tokens!BeginLogin, Tokens!BeginAdminReset, Tokens!BeginOwnChange, Tokens!BeginForcedChange,
      Tokens!ReadUser
  <2>2. QED
    BY <1>3, <1>5, <1>6, <1>7, <1>8, <1>10, <1>11, <1>12, <1>13, <1>14, <2>1 DEF Tokens!Next

\* A reset token changes a password once at most, however many requests bring
\* it, as long as its marker outlives it (ResetOnce).
THEOREM ResetsOnce == Spec => []ResetOnce
<1>1. Init => ResetInvariant
  BY ResetInit DEF Init
<1>2. ResetInvariant /\ [Next]_vars => ResetInvariant'
  BY ResetStep, SessionNext
<1>3. ResetInvariant => ResetOnce
  BY DEF ResetInvariant, SessionTypes, Claimed, ResetOnce, Tokens!ResetOnce, Tokens!TypeOK
<1>4. QED
  BY <1>1, <1>2, <1>3, PTL DEF Spec

\* The good tokens of a login, and the refreshes under way.
Good(l, t) == session[t].login = l /\ t \in registered[session[t].user]
Refreshes(l, r) == tokenOp[r] = "refresh" /\ session[tok[r]].login = l

\* A login whose tokens nobody forked has one good token or one refresh that
\* holds it, and after the logout neither.
OneThread(l) ==
    /\ \A t, v \in Token : Good(l, t) /\ Good(l, v) => t = v
    /\ \A r, q \in Req : Refreshes(l, r) /\ Refreshes(l, q) => r = q
    /\ \A t \in Token, r \in Req : Good(l, t) /\ Refreshes(l, r) => tokenPc[r] = "read" /\ tok[r] = t
    /\ l \in ended => (\A t \in Token : ~Good(l, t)) /\ (\A r \in Req : ~Refreshes(l, r))

\* What the proof of OneSessionPerLogin carries.
LoginInvariant == SessionTypes /\ \A l \in Token \ forked : OneThread(l)

\* A behaviour starts with no login.
LEMMA ThreadInit == Tokens!Init => LoginInvariant
BY SessionInit, NoneAssumption DEF Tokens!Init, LoginInvariant, OneThread, Good, Refreshes, Tokens!NoSession

\* Every step of Sessions keeps a login one thread.
LEMMA ThreadStep ==
    ASSUME LoginInvariant, [Tokens!Next]_(Tokens!vars)
    PROVE  LoginInvariant'
<1> USE DEF LoginInvariant, Tokens!redis, Tokens!rows, Tokens!client, Tokens!local, Tokens!history
<1>1. SessionTypes /\ SessionTypes' /\ Tokens!TypeOK
  BY TypesStep DEF SessionTypes
<1>2. ASSUME UNCHANGED <<session, ended>>, forked \subseteq forked',
             \A u \in User : registered'[u] \subseteq registered[u],
             \A q \in Req : tokenOp'[q] = "refresh" =>
                 tokenOp[q] = "refresh" /\ tok'[q] = tok[q] /\ tokenPc'[q] = tokenPc[q]
      PROVE  LoginInvariant'
  <2>1. ASSUME NEW l \in Token PROVE /\ \A t \in Token : Good(l, t)' => Good(l, t)
                                     /\ \A r \in Req : Refreshes(l, r)' => Refreshes(l, r)
    BY <1>1, <1>2, NoneAssumption DEF Good, Refreshes, SessionTypes, Tree, Rooted, Exists, Tokens!TypeOK, Tokens!SessionType,
      Tokens!NoSession
  <2>2. ASSUME NEW l \in Token \ forked' PROVE OneThread(l)'
    <3>1. OneThread(l)
      BY <1>2
    <3>2. /\ \A r \in Req : Refreshes(l, r)' => tokenPc'[r] = tokenPc[r] /\ tok'[r] = tok[r]
      BY <1>2 DEF Refreshes
    <3>3. QED
      BY <1>2, <2>1, <3>1, <3>2 DEF OneThread
  <2>3. QED
    BY <1>1, <2>2
<1>3. CASE UNCHANGED Tokens!vars
  BY <1>2, <1>3 DEF Tokens!vars
<1>4. ASSUME NEW r \in Req, NEW u \in User, NEW kind \in {"login", "adminReset", "ownChange", "forced"},
             Tokens!ReadUser(r, u, kind)
      PROVE  LoginInvariant'
  BY <1>1, <1>2, <1>4 DEF Tokens!ReadUser, Tokens!Start, Tokens!Go, Tokens!TypeOK
<1>5. ASSUME NEW r \in Req, NEW t \in Token, Tokens!CheckSession(r, t) PROVE LoginInvariant'
  <2>1. /\ UNCHANGED <<registered, session, ended>> /\ tok'[r] = t /\ tokenOp'[r] = "refresh" /\ tokenPc'[r] = "read"
        /\ \A q \in Req : q # r => tokenOp'[q] = tokenOp[q] /\ tok'[q] = tok[q] /\ tokenPc'[q] = tokenPc[q]
        /\ forked' = IF \E q \in Req : tokenOp[q] = "refresh" /\ tok[q] = t
                     THEN forked \cup {session[t].login} ELSE forked
        /\ Good(session[t].login, t)
    BY <1>1, <1>5 DEF Tokens!CheckSession, Tokens!Start, Tokens!Go, Tokens!TypeOK, Tokens!IsSessionValid, Good
  <2>2. ASSUME NEW l \in Token \ forked' PROVE OneThread(l)'
    <3>1. OneThread(l) /\ \A v \in Token : Good(l, v)' <=> Good(l, v)
      BY <2>1 DEF Good
    <3>2. /\ Refreshes(l, r)' <=> session[t].login = l
          /\ \A q \in Req : q # r => (Refreshes(l, q)' <=> Refreshes(l, q))
      BY <2>1 DEF Refreshes
    <3>3. CASE session[t].login = l
      <4>1. \A q \in Req : ~Refreshes(l, q)
        BY <2>1, <3>1, <3>3 DEF OneThread, Refreshes
      <4>2. QED
        BY <2>1, <3>1, <3>2, <3>3, <4>1 DEF OneThread
    <3>4. CASE session[t].login # l
      BY <2>1, <3>1, <3>2, <3>4 DEF OneThread
    <3>5. QED
      BY <3>3, <3>4
  <2>3. QED
    BY <1>1, <2>2
<1>6. ASSUME NEW r \in Req, NEW t \in Token, Tokens!Register(r, t) PROVE LoginInvariant'
  <2>1. /\ \A v \in Token : v # t => session'[v] = session[v]
        /\ session'[t].user = tokenDoc[r] /\ tokenDoc[r] \in User
        /\ session'[t].login = IF tokenOp[r] = "refresh" THEN session[tok[r]].login ELSE t
        /\ tokenOp[r] = "refresh" => tokenPc[r] = "removed"
        /\ session[t] = Tokens!NoSession /\ UNCHANGED <<ended, forked>>
    BY <1>1, <1>6, RegisterGrows DEF Tokens!Register
  <2>2. /\ registered' = [registered EXCEPT ![tokenDoc[r]] = @ \cup {t}]
        /\ \A q \in Req : tokenOp'[q] = "refresh" =>
                 q # r /\ tokenOp[q] = "refresh" /\ tok'[q] = tok[q] /\ tokenPc'[q] = tokenPc[q]
    BY <1>1, <1>6 DEF Tokens!Register, Tokens!EndRequest, Tokens!Go, Tokens!TypeOK
  <2>3. \A q \in Req : tokenOp[q] = "refresh" => tok[q] \in Token /\ tok[q] # t
    BY <1>1, <2>1 DEF SessionTypes, Tree, Carried, Exists, Tokens!NoSession
  <2>4. ASSUME NEW l \in Token \ forked' PROVE OneThread(l)'
    <3>1. OneThread(l)
      BY <2>1
    <3>2. \A q \in Req : Refreshes(l, q)' => q # r /\ Refreshes(l, q) /\ tok'[q] = tok[q] /\ tokenPc'[q] = tokenPc[q]
      BY <2>1, <2>2, <2>3 DEF Refreshes
    <3>3. \A v \in Token : v # t => (Good(l, v)' => Good(l, v))
      BY <1>1, <2>1, <2>2, NoneAssumption DEF Good, SessionTypes, Tree, Rooted, Exists, Tokens!TypeOK, Tokens!SessionType,
        Tokens!NoSession
    <3>4. CASE session'[t].login # l
      <4>1. ~Good(l, t)'
        BY <3>4 DEF Good
      <4>2. QED
        BY <2>1, <3>1, <3>2, <3>3, <4>1 DEF OneThread
    <3>5. CASE session'[t].login = l /\ tokenOp[r] = "refresh"
      <4>1. Refreshes(l, r)
        BY <2>1, <3>5 DEF Refreshes
      <4>2. /\ l \notin ended /\ (\A q \in Req : q # r => ~Refreshes(l, q))
            /\ \A v \in Token : ~Good(l, v)
        BY <2>1, <3>1, <3>5, <4>1 DEF OneThread
      <4>3. QED
        BY <2>1, <3>2, <3>3, <4>2 DEF OneThread
    <3>6. CASE l = t /\ tokenOp[r] # "refresh"
      <4>1. \A v \in Token : session[v].login # t
        BY <1>1, <2>1, NoneAssumption DEF SessionTypes, Tree, Rooted, Exists, Tokens!NoSession
      <4>2. t \notin ended
        BY <1>1, <2>1 DEF SessionTypes, Tree, Exists, Tokens!NoSession
      <4>3. (\A q \in Req : ~Refreshes(l, q)) /\ (\A v \in Token : ~Good(l, v))
        BY <2>3, <3>6, <4>1 DEF Refreshes, Good
      <4>4. QED
        BY <2>1, <3>2, <3>3, <3>6, <4>2, <4>3 DEF OneThread
    <3>7. QED
      BY <2>1, <3>4, <3>5, <3>6
  <2>5. QED
    BY <1>1, <2>4
<1>7. ASSUME NEW r \in Req, NEW k \in ResetToken, Tokens!BeginReset(r, k) PROVE LoginInvariant'
  BY <1>1, <1>2, <1>7 DEF Tokens!BeginReset, Tokens!Start, Tokens!Go, Tokens!TypeOK
<1>8. ASSUME NEW r \in Req, Tokens!Rotate(r) PROVE LoginInvariant'
  <2>1. /\ UNCHANGED <<tokenOp, tok, session, ended, forked>>
        /\ tokenOp[r] = "refresh" /\ tokenPc[r] = "read" /\ tokenPc'[r] = "removed"
        /\ \A q \in Req : q # r => tokenPc'[q] = tokenPc[q]
        /\ registered' = [registered EXCEPT ![tokenDoc[r]] = @ \ {tok[r]}] /\ tokenDoc[r] \in User
        /\ tok[r] \in Token /\ session[tok[r]].user = tokenDoc[r]
    BY <1>1, <1>8 DEF Tokens!Rotate, Tokens!RemoveOld, Tokens!Go, Tokens!TypeOK, SessionTypes, Working, Tree, Carried
  <2>2. ASSUME NEW l \in Token \ forked' PROVE OneThread(l)'
    <3>1. OneThread(l) /\ \A q \in Req : Refreshes(l, q)' <=> Refreshes(l, q)
      BY <2>1 DEF Refreshes
    <3>2. \A v \in Token : Good(l, v)' => Good(l, v) /\ v # tok[r]
      BY <1>1, <2>1, NoneAssumption DEF Good, SessionTypes, Tree, Rooted, Exists, Tokens!TypeOK, Tokens!SessionType,
        Tokens!NoSession
    <3>3. QED
      BY <2>1, <3>1, <3>2 DEF OneThread
  <2>3. QED
    BY <1>1, <2>2
<1>9. ASSUME NEW r \in Req, Tokens!Flush(r) \/ Tokens!Sweep(r) PROVE LoginInvariant'
  BY <1>1, <1>2, <1>9 DEF Tokens!Flush, Tokens!Sweep, Tokens!SweepTokens, Tokens!Go, Tokens!TypeOK, Tokens!Changes, Tokens!Resets
<1>10. ASSUME NEW r \in Req, Tokens!EndRequest(r), UNCHANGED <<registered, session, ended, forked>>
       PROVE  LoginInvariant'
  BY <1>1, <1>2, <1>10 DEF Tokens!EndRequest, Tokens!Go, Tokens!TypeOK
<1>11. ASSUME NEW r \in Req, \/ Tokens!CommitReset(r) \/ Tokens!CommitAdminReset(r) \/ Tokens!CommitOwnChange(r)
                             \/ Tokens!CommitForcedChange(r) \/ Tokens!Rollback(r)
       PROVE  LoginInvariant'
  BY <1>10, <1>11 DEF Tokens!CommitReset, Tokens!CommitAdminReset, Tokens!CommitOwnChange, Tokens!CommitForcedChange,
    Tokens!Rollback, Tokens!SetByReset, Tokens!SetPassword
<1>12. ASSUME NEW t \in Token, Tokens!Logout(t) PROVE LoginInvariant'
  <2> DEFINE m == session[t].login
  <2>1. /\ UNCHANGED <<tokenOp, tok, tokenPc, session>> /\ session[t].user \in User
        /\ registered' = [registered EXCEPT ![session[t].user] = @ \ {t}]
        /\ ended' = IF t \in registered[session[t].user] THEN ended \cup {m} ELSE ended
        /\ forked' = IF \E q \in Req : tokenOp[q] = "refresh" /\ tok[q] = t THEN forked \cup {m} ELSE forked
    BY <1>1, <1>12 DEF Tokens!Logout, Tokens!RemoveOld, Tokens!TypeOK, Tokens!SessionType
  <2>2. ASSUME NEW l \in Token \ forked' PROVE OneThread(l)'
    <3>1. OneThread(l) /\ \A q \in Req : Refreshes(l, q)' <=> Refreshes(l, q)
      BY <2>1 DEF Refreshes
    <3>2. \A v \in Token : Good(l, v)' => Good(l, v) /\ v # t
      BY <1>1, <2>1, NoneAssumption DEF Good, SessionTypes, Tree, Rooted, Exists, Tokens!TypeOK, Tokens!SessionType,
        Tokens!NoSession
    <3>3. CASE l = m /\ t \in registered[session[t].user]
      <4>1. Good(l, t) /\ \A q \in Req : ~Refreshes(l, q)
        BY <2>1, <3>1, <3>3 DEF Good, OneThread, Refreshes
      <4>2. QED
        BY <2>1, <3>1, <3>2, <4>1 DEF OneThread
    <3>4. CASE ~(l = m /\ t \in registered[session[t].user])
      <4>1. l \in ended' => l \in ended
        BY <2>1, <3>4
      <4>2. QED
        BY <2>1, <3>1, <3>2, <4>1 DEF OneThread
    <3>5. QED
      BY <3>3, <3>4
  <2>3. QED
    BY <1>1, <2>2
<1>13. ASSUME NEW k \in ResetToken, Tokens!MarkerExpires(k) \/ \E u \in User : Tokens!RequestReset(k, u) PROVE LoginInvariant'
  BY <1>2, <1>13 DEF Tokens!MarkerExpires, Tokens!RequestReset
<1> QED
  <2>1. ASSUME NEW r \in Req, NEW u \in User,
               Tokens!BeginLogin(r, u) \/ Tokens!BeginAdminReset(r, u)
               \/ Tokens!BeginOwnChange(r, u) \/ Tokens!BeginForcedChange(r, u)
        PROVE  LoginInvariant'
    BY <1>4, <2>1 DEF Tokens!BeginLogin, Tokens!BeginAdminReset, Tokens!BeginOwnChange, Tokens!BeginForcedChange,
      Tokens!ReadUser
  <2>2. QED
    BY <1>3, <1>5, <1>6, <1>7, <1>8, <1>9, <1>11, <1>12, <1>13, <2>1 DEF Tokens!Next

\* A set whose members are all the same has one at most.
LEMMA AtMostOne ==
    ASSUME NEW S, \A x, y \in S : x = y
    PROVE  Cardinality(S) <= 1
<1>1. CASE S = {}
  BY <1>1, FS_EmptySet
<1>2. CASE S # {}
  <2>1. PICK x : S = {x}
    BY <1>2
  <2>2. QED
    BY <2>1, FS_Singleton
<1>3. QED
  BY <1>1, <1>2

\* A login has one good refresh token at most, and none after its logout, unless
\* a refresh token was used twice at a time (OneSessionPerLogin).
THEOREM LoginsHaveOneSession == Spec => []OneSessionPerLogin
<1>1. Init => LoginInvariant
  BY ThreadInit DEF Init
<1>2. LoginInvariant /\ [Next]_vars => LoginInvariant'
  BY ThreadStep, SessionNext
<1>3. LoginInvariant => OneSessionPerLogin
  <2> SUFFICES ASSUME LoginInvariant, NEW l \in Token \ forked
               PROVE  LET good == {t \in Token : session[t].login = l /\ t \in registered[session[t].user]}
                      IN  Tokens!Cardinality(good) <= (IF l \in ended THEN 0 ELSE 1)
    BY DEF OneSessionPerLogin, Tokens!OneSessionPerLogin
  <2> DEFINE good == {t \in Token : session[t].login = l /\ t \in registered[session[t].user]}
  <2>1. Tokens!Cardinality(good) = Cardinality(good)
    BY DEF Tokens!Cardinality, Cardinality
  <2>2. \A t \in good : t \in Token /\ Good(l, t)
    BY DEF Good
  <2>3. \A t, v \in good : t = v
    BY <2>2 DEF LoginInvariant, OneThread
  <2>4. l \in ended => good = {}
    BY <2>2 DEF LoginInvariant, OneThread
  <2> HIDE DEF good
  <2>5. Cardinality(good) <= IF l \in ended THEN 0 ELSE 1
    BY <2>3, <2>4, AtMostOne, FS_EmptySet
  <2>6. QED
    BY <2>1, <2>5 DEF good
<1>4. QED
  BY <1>1, <1>2, <1>3, PTL DEF Spec

\* What the token will be born with that a request is about to register.
Birth(r) == CASE tokenOp[r] = "refresh" -> session[tok[r]].born
              [] tokenOp[r] = "forced" -> seen[r].password + 1
              [] OTHER -> seen[r].password

\* A user whose last reset nobody overlapped: sessions, and those to come, are
\* of the new password; and while a reset is between its sweep and its commit,
\* there is no session.
Clean(u) ==
    /\ \A t \in registered[u] : session[t].born >= lastReset[u]
    /\ \A r \in Req : tokenDoc[r] = u /\ tokenOp[r] \in {"login", "refresh", "forced"} => Birth(r) >= lastReset[u]
    /\ \A r \in Req : tokenDoc[r] = u /\ tokenOp[r] \in Tokens!Resets /\ tokenPc[r] = "swept" => registered[u] = {}

\* What the proof of ResetEndsSessions carries.
SweepInvariant ==
    /\ SessionTypes
    /\ \A u \in User : lastReset[u] <= password[u]
    /\ \A u \in User \ tokenRaced : Clean(u)

\* A behaviour starts with no session.
LEMMA SweepInit == Tokens!Init => SweepInvariant
BY SessionInit, BoundAssumption DEF Tokens!Init, SweepInvariant, Clean, Tokens!Resets

\* Every step of Sessions keeps a swept account clean.
LEMMA SweepStep ==
    ASSUME SweepInvariant, [Tokens!Next]_(Tokens!vars)
    PROVE  SweepInvariant'
<1> USE DEF SweepInvariant, Tokens!redis, Tokens!rows, Tokens!client, Tokens!local, Tokens!history
<1>1. SessionTypes /\ SessionTypes' /\ Tokens!TypeOK
  BY TypesStep DEF SessionTypes
<1>2. ASSUME UNCHANGED <<session, lastReset>>, tokenRaced \subseteq tokenRaced',
             \A u \in User : registered'[u] \subseteq registered[u] /\ password'[u] >= password[u],
             \A q \in Req : tokenDoc'[q] \in User /\ tokenOp'[q] \in {"login", "refresh", "forced"} =>
                 tokenOp[q] = tokenOp'[q] /\ tok'[q] = tok[q] /\ tokenDoc'[q] = tokenDoc[q] /\ seen'[q] = seen[q],
             \A q \in Req : tokenDoc'[q] \in User /\ tokenOp'[q] \in Tokens!Resets /\ tokenPc'[q] = "swept" =>
                 tokenOp[q] = tokenOp'[q] /\ tokenDoc'[q] = tokenDoc[q] /\ tokenPc[q] = "swept"
      PROVE  SweepInvariant'
  <2>1. ASSUME NEW u \in User PROVE lastReset'[u] <= password'[u]
    <3>1. lastReset[u] \in Int /\ password[u] \in Int /\ password'[u] \in Int
      BY <1>1, BoundAssumption DEF SessionTypes, Tokens!TypeOK
    <3>2. QED
      BY <1>2, <3>1
  <2>2. ASSUME NEW u \in User \ tokenRaced' PROVE Clean(u)'
    <3>1. Clean(u)
      BY <1>2
    <3>2. \A q \in Req : tokenDoc'[q] = u /\ tokenOp'[q] \in {"login", "refresh", "forced"} => Birth(q)' = Birth(q)
      BY <1>2 DEF Birth
    <3>3. QED
      BY <1>2, <3>1, <3>2 DEF Clean
  <2>3. QED
    BY <1>1, <2>1, <2>2
<1>3. CASE UNCHANGED Tokens!vars
  BY <1>1, <1>2, <1>3 DEF Tokens!vars, Tokens!TypeOK
\* A request begins.
<1>4. ASSUME NEW r \in Req, NEW u \in User, NEW kind \in Tokens!Op, Tokens!Start(r, kind, u, "read"),
             UNCHANGED <<registered, session, password, lastReset, tokenRaced>>,
             \A q \in Req : q # r => tok'[q] = tok[q] /\ seen'[q] = seen[q],
             u \notin tokenRaced /\ kind \in {"login", "refresh", "forced"} => Birth(r)' >= lastReset[u]
      PROVE  SweepInvariant'
  <2>1. /\ tokenOp'[r] = kind /\ tokenDoc'[r] = u /\ tokenPc'[r] = "read"
        /\ \A q \in Req : q # r => tokenOp'[q] = tokenOp[q] /\ tokenDoc'[q] = tokenDoc[q] /\ tokenPc'[q] = tokenPc[q]
    BY <1>1, <1>4 DEF Tokens!Start, Tokens!Go, Tokens!TypeOK
  <2>2. \A q \in Req : q # r => Birth(q)' = Birth(q)
    BY <1>4, <2>1 DEF Birth
  <2>3. ASSUME NEW v \in User \ tokenRaced' PROVE Clean(v)'
    BY <1>4, <2>1, <2>2 DEF Clean
  <2>4. QED
    BY <1>1, <1>4, <2>3
<1>5. ASSUME NEW r \in Req, NEW u \in User, NEW kind \in {"login", "adminReset", "ownChange", "forced"},
             Tokens!ReadUser(r, u, kind)
      PROVE  SweepInvariant'
  <2>1. kind \in Tokens!Op
    BY DEF Tokens!Op, Tokens!Changes, Tokens!Resets
  <2>2. seen'[r].password = password[u] /\ tokenOp'[r] = kind
        /\ \A q \in Req : q # r => tok'[q] = tok[q] /\ seen'[q] = seen[q]
    BY <1>1, <1>5 DEF Tokens!ReadUser, Tokens!ReadRow, Tokens!Start, Tokens!TypeOK
  <2>3. Birth(r)' >= lastReset[u] \/ kind \notin {"login", "refresh", "forced"}
    BY <1>1, <1>5, <2>2 DEF Birth, Tokens!TypeOK
  <2>4. QED
    BY <1>4, <1>5, <2>1, <2>2, <2>3 DEF Tokens!ReadUser
<1>6. ASSUME NEW r \in Req, NEW t \in Token, Tokens!CheckSession(r, t) PROVE SweepInvariant'
  <2>1. session[t].user \in User /\ "refresh" \in Tokens!Op /\ t \in registered[session[t].user]
    BY <1>1, <1>6 DEF Tokens!CheckSession, Tokens!IsSessionValid, Tokens!TypeOK, Tokens!SessionType, Tokens!Op
  <2>2. /\ tok'[r] = t /\ tokenOp'[r] = "refresh"
        /\ \A q \in Req : q # r => tok'[q] = tok[q] /\ seen'[q] = seen[q]
    BY <1>1, <1>6 DEF Tokens!CheckSession, Tokens!Start, Tokens!TypeOK
  <2>3. session[t].user \notin tokenRaced => Birth(r)' >= lastReset[session[t].user]
    BY <1>6, <2>1, <2>2 DEF Birth, Clean, Tokens!CheckSession
  <2>4. QED
    BY <1>4, <1>6, <2>1, <2>2, <2>3 DEF Tokens!CheckSession
<1>7. ASSUME NEW r \in Req, NEW k \in ResetToken, Tokens!BeginReset(r, k) PROVE SweepInvariant'
  <2>1. issued[k] \in User /\ "resetToken" \in Tokens!Op
    BY <1>1, <1>7 DEF Tokens!BeginReset, Tokens!TypeOK, Tokens!Op, Tokens!Changes, Tokens!Resets
  <2>2. \A q \in Req : q # r => tok'[q] = tok[q] /\ seen'[q] = seen[q]
    BY <1>1, <1>7 DEF Tokens!BeginReset, Tokens!ReadRow, Tokens!TypeOK
  <2>3. QED
    BY <1>4, <1>7, <2>1, <2>2 DEF Tokens!BeginReset
<1>8. ASSUME NEW r \in Req, NEW t \in Token, Tokens!Register(r, t) PROVE SweepInvariant'
  <2> DEFINE u == tokenDoc[r]
  <2>1. /\ \A v \in Token : v # t => session'[v] = session[v]
        /\ u \in User /\ tokenOp[r] \in {"refresh", "login", "forced"}
        /\ session'[t].born = Birth(r)
        /\ session[t] = Tokens!NoSession /\ UNCHANGED <<password, lastReset>>
        /\ tokenRaced' = IF \E q \in Tokens!Others(r, u) : Tokens!HoldsRow(q) THEN tokenRaced \cup {u} ELSE tokenRaced
    BY <1>1, <1>8, RegisterGrows DEF Tokens!Register, Birth
  <2>2. /\ registered' = [registered EXCEPT ![u] = @ \cup {t}]
        /\ \A q \in Req : q # r => /\ tokenOp'[q] = tokenOp[q] /\ tok'[q] = tok[q] /\ tokenPc'[q] = tokenPc[q]
                                   /\ seen'[q] = seen[q] /\ tokenDoc'[q] = tokenDoc[q]
        /\ tokenOp'[r] = "none" \/ (tokenOp[r] = "forced" /\ UNCHANGED <<tokenOp, tok, seen, tokenDoc>>)
    BY <1>1, <1>8 DEF Tokens!Register, Tokens!EndRequest, Tokens!Go, Tokens!TypeOK
  <2>3. \A q \in Req : tokenOp[q] = "refresh" => tok[q] \in Token /\ tok[q] # t
    BY <1>1, <2>1 DEF SessionTypes, Tree, Carried, Exists, Tokens!NoSession
  <2>4. \A q \in Req : tokenOp'[q] \in {"login", "refresh", "forced"} =>
             tokenOp'[q] = tokenOp[q] /\ tokenDoc'[q] = tokenDoc[q] /\ Birth(q)' = Birth(q)
    BY <2>1, <2>2, <2>3 DEF Birth
  <2>5. \A v \in User : \A w \in registered[v] : w \in Token /\ w # t
    BY <1>1, <2>1, NoneAssumption DEF SessionTypes, Tree, Tokens!TypeOK, Tokens!NoSession
  <2>6. \A q \in Req : tokenOp'[q] \in Tokens!Resets => q # r /\ tokenOp[q] \in Tokens!Resets
    BY <2>1, <2>2 DEF Tokens!Resets
  <2>7. ASSUME NEW v \in User \ tokenRaced' PROVE Clean(v)'
    <3>1. Clean(v)
      BY <2>1
    <3>2. \A w \in registered'[v] : session'[w].born >= lastReset[v]
      <4>1. CASE v = u
        <5>1. Birth(r) >= lastReset[v]
          BY <2>1, <3>1, <4>1 DEF Clean
        <5>2. \A w \in registered'[v] : w = t \/ w \in registered[v]
          BY <1>1, <2>2, <4>1 DEF Tokens!TypeOK
        <5>3. QED
          BY <2>1, <2>5, <3>1, <5>1, <5>2 DEF Clean
      <4>2. CASE v # u
        BY <1>1, <2>1, <2>2, <2>5, <3>1, <4>2 DEF Clean, Tokens!TypeOK
      <4>3. QED
        BY <4>1, <4>2
    <3>3. ASSUME NEW q \in Req, tokenDoc'[q] = v, tokenOp'[q] \in Tokens!Resets, tokenPc'[q] = "swept"
          PROVE  registered'[v] = {}
      <4>1. q # r /\ tokenDoc[q] = v /\ tokenPc[q] = "swept" /\ tokenOp[q] \in Tokens!Resets
        BY <2>2, <2>6, <3>3
      <4>2. Tokens!HoldsRow(q)
        BY <4>1 DEF Tokens!HoldsRow, Tokens!Changes
      <4>3. v # u
        BY <2>1, <4>1, <4>2 DEF Tokens!Others
      <4>4. QED
        BY <2>2, <3>1, <4>1, <4>3 DEF Clean
    <3>4. QED
      BY <2>1, <2>4, <3>1, <3>2, <3>3 DEF Clean
  <2>8. QED
    BY <1>1, <2>1, <2>7
<1>9. ASSUME NEW r \in Req, Tokens!Rotate(r) PROVE SweepInvariant'
  <2>1. \A u \in User : registered'[u] \subseteq registered[u]
    BY <1>1, <1>9 DEF Tokens!Rotate, Tokens!RemoveOld, Tokens!TypeOK
  <2>2. QED
    BY <1>1, <1>2, <1>9, <2>1 DEF Tokens!Rotate, Tokens!Go, Tokens!TypeOK
<1>10. ASSUME NEW r \in Req, Tokens!Flush(r) PROVE SweepInvariant'
  BY <1>1, <1>2, <1>10 DEF Tokens!Flush, Tokens!Go, Tokens!TypeOK
<1>11. ASSUME NEW r \in Req, Tokens!Sweep(r) PROVE SweepInvariant'
  <2> DEFINE u == tokenDoc[r]
  <2>1. /\ registered' = [registered EXCEPT ![u] = {}] /\ u \in User /\ tokenOp[r] \in Tokens!Resets
        /\ UNCHANGED <<tokenOp, tokenDoc, tok, seen, session, password, lastReset>>
        /\ \A q \in Req : q # r => tokenPc'[q] = tokenPc[q]
        /\ tokenRaced' = IF Tokens!Others(r, u) = {} THEN tokenRaced \ {u} ELSE tokenRaced
    BY <1>1, <1>11 DEF Tokens!Sweep, Tokens!SweepTokens, Tokens!Go, Tokens!TypeOK, SessionTypes, Working
  <2>2. \A q \in Req : Birth(q)' = Birth(q)
    BY <2>1 DEF Birth
  <2>3. ASSUME NEW v \in User \ tokenRaced' PROVE Clean(v)'
    <3>1. CASE v # u
      <4>1. Clean(v) /\ registered'[v] = registered[v]
        BY <1>1, <2>1, <3>1 DEF Tokens!TypeOK
      <4>2. QED
        BY <2>1, <2>2, <3>1, <4>1 DEF Clean
    <3>2. CASE v = u
      <4>1. registered'[u] = {}
        BY <1>1, <2>1 DEF Tokens!TypeOK
      <4>2. CASE u \in tokenRaced
        <5>1. \A q \in Req : tokenDoc[q] = u => q = r
          BY <2>1, <2>3, <3>2, <4>2 DEF Tokens!Others
        <5>2. QED
          BY <2>1, <3>2, <4>1, <5>1 DEF Clean, Tokens!Resets
      <4>3. CASE u \notin tokenRaced
        BY <2>1, <2>2, <3>2, <4>1, <4>3 DEF Clean
      <4>4. QED
        BY <4>2, <4>3
    <3>3. QED
      BY <3>1, <3>2
  <2>4. QED
    BY <1>1, <2>1, <2>3
<1>12. ASSUME NEW r \in Req, Tokens!EndRequest(r)
       PROVE  /\ \A q \in Req : tokenDoc'[q] \in User => q # r
              /\ \A q \in Req : q # r => /\ tokenOp'[q] = tokenOp[q] /\ tok'[q] = tok[q] /\ tokenPc'[q] = tokenPc[q]
                                         /\ seen'[q] = seen[q] /\ tokenDoc'[q] = tokenDoc[q]
  BY <1>1, <1>12, NoneAssumption DEF Tokens!EndRequest, Tokens!Go, Tokens!TypeOK
<1>13. ASSUME NEW r \in Req, Tokens!SetPassword(r), tokenPc[r] # "idle"
       PROVE  \A u \in User : password'[u] = IF u = tokenDoc[r] THEN password[u] + 1 ELSE password[u]
  BY <1>1, <1>13 DEF Tokens!SetPassword, Tokens!TypeOK
<1>14. ASSUME NEW r \in Req, Tokens!SetByReset(r), tokenOp[r] \in Tokens!Resets PROVE SweepInvariant'
  <2> DEFINE u == tokenDoc[r]
  <2>1. /\ UNCHANGED <<registered, session>> /\ u \in User /\ tokenPc[r] = "swept" /\ Tokens!EndRequest(r)
        /\ Tokens!SetPassword(r)
        /\ \A v \in User : lastReset'[v] = IF v = u THEN password[u] + 1 ELSE lastReset[v]
        /\ tokenRaced' = IF Tokens!Others(r, u) # {} THEN tokenRaced \cup {u} ELSE tokenRaced
    BY <1>1, <1>14 DEF Tokens!SetByReset, Tokens!SetPassword, Tokens!TypeOK, SessionTypes, Working
  <2>2. \A v \in User : lastReset'[v] <= password'[v]
    BY <1>1, <1>13, <2>1 DEF Tokens!TypeOK
  <2>3. ASSUME NEW v \in User \ tokenRaced' PROVE Clean(v)'
    <3>1. Clean(v) /\ v \notin tokenRaced
      BY <2>1
    <3>2. \A q \in Req : q # r => Birth(q)' = Birth(q)
      BY <1>12, <2>1 DEF Birth
    <3>3. CASE v = u
      <4>1. registered'[v] = {}
        BY <1>14, <2>1, <3>1, <3>3 DEF Clean
      <4>2. \A q \in Req : tokenDoc'[q] # v
        BY <1>12, <2>1, <2>3, <3>3 DEF Tokens!Others
      <4>3. QED
        BY <4>1, <4>2 DEF Clean
    <3>4. CASE v # u
      BY <1>12, <2>1, <3>1, <3>2, <3>4 DEF Clean
    <3>5. QED
      BY <3>3, <3>4
  <2>4. QED
    BY <1>1, <2>2, <2>3
<1>15. ASSUME NEW r \in Req, Tokens!CommitReset(r) \/ Tokens!CommitAdminReset(r) PROVE SweepInvariant'
  BY <1>14, <1>15 DEF Tokens!CommitReset, Tokens!CommitAdminReset, Tokens!Resets
<1>16. ASSUME NEW r \in Req, Tokens!CommitOwnChange(r) \/ Tokens!CommitForcedChange(r) PROVE SweepInvariant'
  <2>1. Tokens!SetPassword(r) /\ tokenPc[r] # "idle" /\ UNCHANGED <<lastReset, tokenRaced, registered, session>> /\ Tokens!EndRequest(r)
    BY <1>16 DEF Tokens!CommitOwnChange, Tokens!CommitForcedChange, Tokens!CanWrite, Tokens!SetPassword
  <2>2. \A u \in User : password'[u] >= password[u]
    BY <1>1, <1>13, <2>1 DEF Tokens!TypeOK
  <2>3. QED
    BY <1>2, <1>12, <2>1, <2>2
<1>17. ASSUME NEW r \in Req, Tokens!Rollback(r) PROVE SweepInvariant'
  BY <1>1, <1>2, <1>12, <1>17 DEF Tokens!Rollback, Tokens!TypeOK
<1>18. ASSUME NEW t \in Token, Tokens!Logout(t) PROVE SweepInvariant'
  <2>1. \A u \in User : registered'[u] \subseteq registered[u]
    BY <1>1, <1>18 DEF Tokens!Logout, Tokens!RemoveOld, Tokens!TypeOK
  <2>2. QED
    BY <1>1, <1>2, <1>18, <2>1 DEF Tokens!Logout, Tokens!TypeOK
<1>19. ASSUME NEW k \in ResetToken, Tokens!MarkerExpires(k) \/ \E u \in User : Tokens!RequestReset(k, u)
       PROVE  SweepInvariant'
  BY <1>1, <1>2, <1>19 DEF Tokens!MarkerExpires, Tokens!RequestReset, Tokens!TypeOK
<1> QED
  <2>1. ASSUME NEW r \in Req, NEW u \in User,
               Tokens!BeginLogin(r, u) \/ Tokens!BeginAdminReset(r, u)
               \/ Tokens!BeginOwnChange(r, u) \/ Tokens!BeginForcedChange(r, u)
        PROVE  SweepInvariant'
    BY <1>5, <2>1 DEF Tokens!BeginLogin, Tokens!BeginAdminReset, Tokens!BeginOwnChange, Tokens!BeginForcedChange,
      Tokens!ReadUser
  <2>2. QED
    BY <1>3, <1>6, <1>7, <1>8, <1>9, <1>10, <1>11, <1>15, <1>16, <1>17, <1>18, <1>19, <2>1 DEF Tokens!Next

\* After a reset of the password no session from before it is good, unless a login
\* or a refresh of the account overlapped with the reset (ResetEndsSessions).
THEOREM ResetsEndSessions == Spec => []ResetEndsSessions
<1>1. Init => SweepInvariant
  BY SweepInit DEF Init
<1>2. SweepInvariant /\ [Next]_vars => SweepInvariant'
  BY SweepStep, SessionNext
<1>3. SweepInvariant => ResetEndsSessions
  BY DEF SweepInvariant, Clean, ResetEndsSessions, Tokens!ResetEndsSessions
<1>4. QED
  BY <1>1, <1>2, <1>3, PTL DEF Spec

=============================================================================
