-------------------------- MODULE GroupDebtsProofs --------------------------
(***************************************************************************)
(* For any people and any positions in cents: the payments that settle a   *)
(* group go from those who owe to those who are owed, never carry anybody  *)
(* past zero, are fewer than the people with something to pay or to get,   *)
(* and leave something over on one side at most, and nothing when the      *)
(* positions add up.  With any requests: those of a group do, when none of *)
(* its expenses was split by edits that overlapped.                        *)
(***************************************************************************)
EXTENDS GroupDebts, SharedLedgerProofs

\* Those who had something to pay or to get and are done.  Every payment
\* adds one to them, its payer or its receiver, and the last one both.
Cleared == {k \in Key : net[k] # 0 /\ left[k] = 0}
Spent == /\ IsFiniteSet(transfers) /\ Cardinality(transfers) <= Cardinality(Cleared)
         /\ left = Level /\ transfers # {} => Cardinality(transfers) < Cardinality(Cleared)
OneSided == ~running => Creditors = {} \/ Debtors = {}

\* Of the two of a payment, one is done: they are not matched again.
Once == \A t \in transfers : left[t.from] = 0 \/ left[t.to] = 0
Carried == \A k \in Key : left[k] = net[k] - In(k) + Out(k)
SameSum == SumOver(left) = SumOver(net)

PlanInv == /\ PlanTypeOK /\ OneWay /\ Bounded /\ Spent /\ OneSided
           /\ Once /\ Carried /\ SameSum

LEMMA ClearedFinite ==
  /\ IsFiniteSet(Cleared) /\ IsFiniteSet(Involved)
  /\ Cardinality(Cleared) \in Nat /\ Cardinality(Cleared) <= Cardinality(Involved)
  <1>1. Cleared \subseteq Involved /\ Involved \subseteq Key
    BY DEF Cleared, Involved
  <1>2. IsFiniteSet(Involved)
    BY <1>1, KeyAssumption, FS_Subset
  <1>3. IsFiniteSet(Cleared) /\ Cardinality(Cleared) <= Cardinality(Involved)
    BY <1>1, <1>2, FS_Subset
  <1>4. QED
    BY <1>2, <1>3, FS_CardinalityType

\* What a set of payments moves, with one more.
LEMMA MovedMore ==
  ASSUME NEW S, IsFiniteSet(S), \A u \in S : u.amount \in Int,
         NEW t, t \notin S, t.amount \in Int
  PROVE  /\ Moved(S) \in Int
         /\ Moved(S \cup {t}) = Moved(S) + t.amount
  <1> DEFINE v == [u \in S |-> u.amount]
             w == [u \in S \cup {t} |-> u.amount]
  <1>1. /\ \A u \in S : v[u] \in Int /\ w[u] = v[u]
        /\ \A u \in S \cup {t} : w[u] \in Int
        /\ w[t] = t.amount /\ DOMAIN v = S /\ DOMAIN w = S \cup {t}
    OBVIOUS
  <1>2. Moved(S) = SumOver(v) /\ Moved(S \cup {t}) = SumOver(w)
    BY DEF Moved
  <1> HIDE DEF v, w
  <1>3. Moved(S) = SumOn(v, S) /\ Moved(S \cup {t}) = SumOn(w, S \cup {t})
    BY <1>1, <1>2, SumOverIsSumOn
  <1>4. IsFiniteSet(S \cup {t}) /\ (S \cup {t}) \ {t} = S
    BY FS_AddElement
  <1>5. SumOn(w, S \cup {t}) = w[t] + SumOn(w, (S \cup {t}) \ {t})
    <2>1. t \in S \cup {t}
      OBVIOUS
    <2>2. QED
      BY <1>1, <1>4, <2>1, SumTake
  <1>6. SumOn(w, S) = SumOn(v, S)
    BY <1>1, SumSame
  <1>7. SumOn(v, S) \in Int
    BY <1>1, SumType
  <1>8. SumOn(w, S \cup {t}) = w[t] + SumOn(v, S)
    BY <1>4, <1>5, <1>6
  <1>9. w[t] + SumOn(v, S) = SumOn(v, S) + t.amount
    BY <1>1, <1>7
  <1>10. QED
    BY <1>3, <1>7, <1>8, <1>9

LEMMA NothingMoved == Moved({}) = 0
  <1> DEFINE w == [u \in {} |-> u.amount]
  <1>1. DOMAIN w = {} /\ Moved({}) = SumOver(w)
    BY DEF Moved
  <1> HIDE DEF w
  <1>2. QED
    BY <1>1, SumOverIsSumOn, SumEmpty

LEMMA NothingSpent ==
  ASSUME transfers = {}
  PROVE  Spent /\ OneWay /\ Once
         /\ \A k \in Key : In(k) = 0 /\ Out(k) = 0
  <1>1. IsFiniteSet(transfers) /\ Cardinality(transfers) = 0
    BY FS_EmptySet
  <1>2. Cardinality(Cleared) \in Nat
    BY ClearedFinite
  <1>3. Spent /\ OneWay /\ Once
    BY <1>1, <1>2 DEF Spent, OneWay, Once
  <1>4. \A k \in Key : {t \in transfers : t.to = k} = {} /\ {t \in transfers : t.from = k} = {}
    OBVIOUS
  <1>5. QED
    BY <1>3, <1>4, NothingMoved DEF In, Out

LEMMA PlanInitInv == PlanInit => PlanInv
  <1> SUFFICES ASSUME PlanInit PROVE PlanInv
    OBVIOUS
  <1>1. /\ left = [k \in Key |-> 0] /\ net = [k \in Key |-> 0]
        /\ transfers = {} /\ running = FALSE
    BY DEF PlanInit, Level
  <1>2. left \in [Key -> Int] /\ net \in [Key -> Int]
    BY <1>1
  <1>3. \A k \in Key : left[k] = 0 /\ net[k] = 0
    BY <1>1
  <1>4. PlanTypeOK
    BY <1>1, <1>2, Zenon DEF PlanTypeOK
  <1>5. Bounded /\ OneSided
    BY <1>3 DEF Bounded, OneSided, Creditors
  <1>6. Carried /\ SameSum
    BY <1>1, <1>3, NothingSpent DEF Carried, SameSum
  <1>7. QED
    BY <1>1, <1>4, <1>5, <1>6, NothingSpent DEF PlanInv

LEMMA StartInv ==
  ASSUME NEW n \in [Key -> Int], Start(n)
  PROVE  PlanInv'
  <1>1. net' = n /\ left' = n /\ running' = TRUE /\ transfers' = {}
    BY DEF Start
  <1>2. PlanTypeOK' /\ OneWay' /\ OneSided' /\ Once' /\ SameSum'
    BY <1>1 DEF PlanTypeOK, OneWay, OneSided, Once, SameSum
  <1>3. Bounded'
    BY <1>1 DEF Bounded
  <1>4. Spent'
    <2>1. IsFiniteSet(transfers') /\ Cardinality(transfers') = 0
      BY <1>1, FS_EmptySet
    <2>2. Cleared' \subseteq Key
      BY DEF Cleared
    <2>3. IsFiniteSet(Cleared')
      BY <2>2, KeyAssumption, FS_Subset
    <2>4. Cardinality(Cleared') \in Nat
      BY <2>3, FS_CardinalityType
    <2>5. QED
      BY <1>1, <2>1, <2>4 DEF Spent
  <1>5. Carried'
    <2>1. ASSUME NEW k \in Key PROVE In(k)' = 0 /\ Out(k)' = 0
      <3>1. {t \in transfers' : t.to = k} = {} /\ {t \in transfers' : t.from = k} = {}
        BY <1>1
      <3>2. QED
        BY <3>1, NothingMoved DEF In, Out
    <2>2. QED
      BY <1>1, <2>1 DEF Carried
  <1>6. QED
    BY <1>2, <1>3, <1>4, <1>5 DEF PlanInv

LEMMA MatchInv ==
  ASSUME PlanInv, Match
  PROVE  PlanInv'
  <1>1. PICK d \in Debtors, c \in Creditors :
          /\ transfers' = transfers \cup
               {[from |-> d, to |-> c, amount |-> Amount(d, c)]}
          /\ left' = [left EXCEPT ![d] = @ + Amount(d, c), ![c] = @ - Amount(d, c)]
    BY DEF Match
  <1>2. UNCHANGED <<running, net>> /\ running
    BY DEF Match
  <1>3. PICK x : x = Amount(d, c)
    OBVIOUS
  <1>4. PICK t : t = [from |-> d, to |-> c, amount |-> x]
    OBVIOUS
  <1>5. /\ d \in Key /\ c \in Key /\ d # c
        /\ left[d] \in Int /\ left[c] \in Int /\ net[d] \in Int /\ net[c] \in Int
        /\ left[d] < 0 /\ left[c] > 0
    BY DEF PlanInv, PlanTypeOK, Debtors, Creditors
  <1>6. net[d] <= left[d] /\ left[c] <= net[c]
    BY <1>5 DEF PlanInv, Bounded
  <1>7. /\ x \in Int /\ x > 0 /\ x <= left[c] /\ x <= -left[d]
        /\ x = left[c] \/ x = -left[d]
    BY <1>3, <1>5 DEF Amount
  <1>8. left' \in [Key -> Int]
    BY <1>1, <1>3, <1>5, <1>7 DEF PlanInv, PlanTypeOK
  <1>9. /\ left'[d] = left[d] + x /\ left'[c] = left[c] - x
        /\ \A k \in Key \ {d, c} : left'[k] = left[k]
    BY <1>1, <1>3, <1>5 DEF PlanInv, PlanTypeOK
  <1>10. transfers' = transfers \cup {t} /\ t \in Transfer
    BY <1>1, <1>3, <1>4, <1>5, <1>7 DEF Transfer
  <1>11. PlanTypeOK'
    BY <1>2, <1>8, <1>10 DEF PlanInv, PlanTypeOK
  <1>12. t.from = d /\ t.to = c /\ t.amount = x /\ t \notin transfers
    <2>1. t.from = d /\ t.to = c /\ t.amount = x
      BY <1>4
    <2>2. QED
      BY <1>5, <2>1 DEF PlanInv, Once
  <1>13. OneWay'
    <2>1. net[d] < 0 /\ net[c] > 0
      BY <1>5, <1>6
    <2>2. QED
      BY <1>2, <1>7, <1>10, <1>12, <2>1 DEF PlanInv, OneWay
  <1>14. Bounded'
    <2>1. ASSUME NEW k \in Key
          PROVE  \/ 0 <= left'[k] /\ left'[k] <= net[k]
                 \/ net[k] <= left'[k] /\ left'[k] <= 0
      <3>1. CASE k = d
        BY <1>5, <1>6, <1>7, <1>9, <3>1
      <3>2. CASE k = c
        BY <1>5, <1>6, <1>7, <1>9, <3>2
      <3>3. CASE k \notin {d, c}
        BY <1>9, <3>3 DEF PlanInv, Bounded
      <3>4. QED
        BY <3>1, <3>2, <3>3
    <2>2. QED
      BY <1>2, <2>1 DEF Bounded
  <1>15. left'[d] = 0 \/ left'[c] = 0
    BY <1>5, <1>7, <1>9
  <1>16. IsFiniteSet(transfers)
    BY DEF PlanInv, Spent
  <1>17. Spent'
    <2>1. \A j \in Cleared : j \in Cleared' /\ j # d /\ j # c
      BY <1>2, <1>5, <1>9 DEF Cleared
    <2>2. Cleared' \subseteq Key
      BY DEF Cleared
    <2>3. IsFiniteSet(Cleared')
      BY <2>2, KeyAssumption, FS_Subset
    <2>4. IsFiniteSet(Cleared) /\ Cardinality(Cleared) \in Nat
      BY ClearedFinite
    <2>5. /\ Cardinality(transfers) \in Nat /\ IsFiniteSet(transfers')
          /\ Cardinality(transfers) <= Cardinality(Cleared)
          /\ Cardinality(transfers') = Cardinality(transfers) + 1
      BY <1>10, <1>12, <1>16, FS_CardinalityType, FS_AddElement DEF PlanInv, Spent
    <2>6. Cardinality(Cleared') \in Nat
      BY <2>3, FS_CardinalityType
    <2>7. Cardinality(Cleared') >= Cardinality(Cleared) + 1
      <3>1. PICK k \in {d, c} : left'[k] = 0
        BY <1>15
      <3>2. k \in Key /\ net[k] # 0
        BY <1>5, <1>6
      <3>3. k \in Cleared' /\ k \notin Cleared
        BY <1>2, <2>1, <3>1, <3>2 DEF Cleared
      <3>4. Cleared \cup {k} \subseteq Cleared'
        BY <2>1, <3>3
      <3>5. Cardinality(Cleared \cup {k}) = Cardinality(Cleared) + 1
        BY <2>4, <3>3, FS_AddElement
      <3>6. Cardinality(Cleared \cup {k}) <= Cardinality(Cleared')
        BY <2>3, <3>4, FS_Subset
      <3>7. QED
        BY <2>4, <2>6, <3>5, <3>6
    <2>8. ASSUME left' = Level PROVE Cardinality(Cleared') >= Cardinality(Cleared) + 2
      <3>1. left'[d] = 0 /\ left'[c] = 0
        BY <1>5, <2>8 DEF Level
      <3>2. d \in Cleared' /\ c \in Cleared'
        BY <1>2, <1>5, <1>6, <3>1 DEF Cleared
      <3>3. (Cleared \cup {d}) \cup {c} \subseteq Cleared'
        BY <2>1, <3>2
      <3>4. /\ IsFiniteSet(Cleared \cup {d})
            /\ Cardinality(Cleared \cup {d}) = Cardinality(Cleared) + 1
        BY <2>1, <2>4, FS_AddElement
      <3>5. c \notin Cleared \cup {d}
        BY <1>5, <2>1
      <3>6. Cardinality((Cleared \cup {d}) \cup {c}) = Cardinality(Cleared \cup {d}) + 1
        BY <3>4, <3>5, FS_AddElement
      <3>7. Cardinality((Cleared \cup {d}) \cup {c}) <= Cardinality(Cleared')
        BY <2>3, <3>3, FS_Subset
      <3>8. QED
        BY <2>4, <2>6, <3>4, <3>6, <3>7
    <2>9. Cardinality(transfers') <= Cardinality(Cleared')
      BY <2>4, <2>5, <2>6, <2>7
    <2>10. left' = Level => Cardinality(transfers') < Cardinality(Cleared')
      BY <2>4, <2>5, <2>6, <2>8
    <2>11. Level' = Level
      BY DEF Level
    <2>12. QED
      BY <2>5, <2>9, <2>10, <2>11 DEF Spent
  <1>18. Once'
    <2>1. ASSUME NEW u \in transfers PROVE left'[u.from] = 0 \/ left'[u.to] = 0
      <3>1. u.from \in Key /\ u.to \in Key /\ (left[u.from] = 0 \/ left[u.to] = 0)
        BY DEF PlanInv, PlanTypeOK, Transfer, Once
      <3>2. \A k \in Key : left[k] = 0 => left'[k] = 0
        BY <1>5, <1>9
      <3>3. QED
        BY <3>1, <3>2
    <2>2. QED
      BY <1>10, <1>12, <1>15, <2>1 DEF Once
  <1>19. Carried'
    <2>1. ASSUME NEW S \in SUBSET transfers
          PROVE  Moved(S) \in Int /\ Moved(S \cup {t}) = Moved(S) + x
      <3>1. IsFiniteSet(S)
        BY <1>16, FS_Subset
      <3>2. \A u \in S : u.amount \in Int
        BY DEF PlanInv, PlanTypeOK, Transfer
      <3>3. t \notin S
        BY <1>12
      <3>4. QED
        BY <1>7, <1>12, <3>1, <3>2, <3>3, MovedMore
    <2>2. ASSUME NEW k \in Key
          PROVE  /\ In(k) \in Int /\ Out(k) \in Int
                 /\ In(k)' = IF k = c THEN In(k) + x ELSE In(k)
                 /\ Out(k)' = IF k = d THEN Out(k) + x ELSE Out(k)
      <3>1. PICK ins, outs : /\ ins = {u \in transfers : u.to = k}
                             /\ outs = {u \in transfers : u.from = k}
        OBVIOUS
      <3>2. ins \in SUBSET transfers /\ outs \in SUBSET transfers
        BY <3>1
      <3>3. /\ {u \in transfers' : u.to = k} = IF k = c THEN ins \cup {t} ELSE ins
            /\ {u \in transfers' : u.from = k} = IF k = d THEN outs \cup {t} ELSE outs
        BY <1>10, <1>12, <3>1
      <3>4. /\ In(k) = Moved(ins) /\ Out(k) = Moved(outs)
            /\ In(k)' = Moved(IF k = c THEN ins \cup {t} ELSE ins)
            /\ Out(k)' = Moved(IF k = d THEN outs \cup {t} ELSE outs)
        BY <3>1, <3>3 DEF In, Out
      <3>5. QED
        BY <2>1, <3>2, <3>4
    <2>3. ASSUME NEW k \in Key PROVE left'[k] = net[k] - In(k)' + Out(k)'
      <3>1. left[k] = net[k] - In(k) + Out(k) /\ net[k] \in Int
        BY DEF PlanInv, Carried, PlanTypeOK
      <3>2. CASE k = c
        BY <1>5, <1>7, <1>9, <2>2, <3>1, <3>2
      <3>3. CASE k = d
        BY <1>5, <1>7, <1>9, <2>2, <3>1, <3>3
      <3>4. CASE k \notin {c, d}
        BY <1>9, <2>2, <3>1, <3>4
      <3>5. QED
        BY <3>2, <3>3, <3>4
    <2>4. QED
      BY <1>2, <2>3 DEF Carried
  <1>20. SameSum'
    <2>1. PICK mid : mid = [left EXCEPT ![d] = @ + x]
      OBVIOUS
    <2>2. /\ left \in [Key -> Int] /\ net \in [Key -> Int]
          /\ mid \in [Key -> Int] /\ mid[d] = left[d] + x /\ mid[c] = left[c]
          /\ \A k \in Key \ {d} : mid[k] = left[k]
      BY <1>5, <1>7, <2>1 DEF PlanInv, PlanTypeOK
    <2>3. SumOn(mid, Key) = SumOn(left, Key) - left[d] + mid[d]
      BY <1>5, <2>2, KeyAssumption, SumUpdate
    <2>4. \A k \in Key \ {c} : left'[k] = mid[k]
      BY <1>9, <2>2
    <2>5. SumOn(left', Key) = SumOn(mid, Key) - mid[c] + left'[c]
      <3>1. PICK v : v = left'
        OBVIOUS
      <3>2. v \in [Key -> Int] /\ \A k \in Key \ {c} : v[k] = mid[k]
        BY <1>8, <2>4, <3>1
      <3>3. SumOn(v, Key) = SumOn(mid, Key) - mid[c] + v[c]
        BY <1>5, <2>2, <3>2, KeyAssumption, SumUpdate
      <3>4. QED
        BY <3>1, <3>3
    <2>6. SumOn(left, Key) \in Int
      BY <2>2, KeyAssumption, SumType
    <2>7. SumOn(left', Key) = SumOn(left, Key)
      BY <1>5, <1>7, <1>9, <2>2, <2>3, <2>5, <2>6
    <2>8. SumOver(left) = SumOn(left, Key) /\ SumOver(left') = SumOn(left', Key)
      <3>1. DOMAIN left = Key /\ DOMAIN left' = Key
        BY <1>8, <2>2
      <3>2. QED
        BY <3>1, SumOverIsSumOn
    <2>9. QED
      BY <1>2, <2>7, <2>8 DEF PlanInv, SameSum
  <1>21. OneSided'
    BY <1>2 DEF OneSided
  <1>22. QED
    BY <1>11, <1>13, <1>14, <1>17, <1>18, <1>19, <1>20, <1>21 DEF PlanInv

\* A step that moves nothing.
LEMMA IdleInv ==
  ASSUME PlanInv, UNCHANGED <<net, left, transfers>>, running' \in BOOLEAN, OneSided'
  PROVE  PlanInv'
  <1>1. PlanTypeOK' /\ OneWay' /\ Bounded' /\ Once'
    BY DEF PlanInv, PlanTypeOK, OneWay, Bounded, Once
  <1>2. Cleared' = Cleared /\ Level' = Level
    BY DEF Cleared, Level
  <1>3. Spent'
    BY <1>2 DEF PlanInv, Spent
  <1>4. Carried' /\ SameSum'
    BY DEF PlanInv, Carried, SameSum, In, Out
  <1>5. QED
    BY <1>1, <1>3, <1>4 DEF PlanInv

LEMMA ReturnInv ==
  ASSUME PlanInv, Return
  PROVE  PlanInv'
  <1>1. UNCHANGED <<net, left, transfers>> /\ running' = FALSE
    BY DEF Return
  <1>2. OneSided'
    BY DEF Return, OneSided, Creditors, Debtors
  <1>3. QED
    BY <1>1, <1>2, IdleInv

LEMMA StutterInv ==
  ASSUME PlanInv, UNCHANGED planVars
  PROVE  PlanInv'
  BY IdleInv DEF planVars, PlanInv, PlanTypeOK, OneSided, Creditors, Debtors

LEMMA PlanNextInv == PlanInv /\ [PlanNext]_planVars => PlanInv'
  BY NetsAssumption, StartInv, MatchInv, ReturnInv, StutterInv DEF PlanNext

LEMMA PlanInvGives == PlanInv => PlanTypeOK /\ Settled /\ FewTransfers
  <1> SUFFICES ASSUME PlanInv PROVE PlanTypeOK /\ Settled /\ FewTransfers
    OBVIOUS
  <1>1. left \in [Key -> Int] /\ net \in [Key -> Int]
    BY DEF PlanInv, PlanTypeOK
  <1>2. ASSUME ~running, SumOver(net) = 0 PROVE left = Level
    <2>1. SumOn(left, Key) = 0
      BY <1>1, <1>2, SumOverIsSumOn DEF PlanInv, SameSum
    <2>2. (\A k \in Key : left[k] >= 0) \/ (\A k \in Key : left[k] <= 0)
      BY <1>1, <1>2 DEF PlanInv, OneSided, Creditors, Debtors
    <2>3. \A k \in Key : left[k] \in Int
      BY <1>1
    <2>4. \A k \in Key : left[k] = 0
      BY <2>1, <2>2, <2>3, KeyAssumption, SumOneSign
    <2>5. QED
      BY <1>1, <2>4 DEF Level
  <1>3. Settled
    BY <1>2 DEF PlanInv, Carried, OneSided, Settled
  <1>4. ASSUME transfers # {} PROVE Cardinality(transfers) < Cardinality(Involved)
    <2>1. /\ IsFiniteSet(transfers) /\ Cardinality(transfers) <= Cardinality(Cleared)
          /\ left = Level => Cardinality(transfers) < Cardinality(Cleared)
      BY <1>4 DEF PlanInv, Spent
    <2>2. Cardinality(transfers) \in Nat /\ Cardinality(Involved) \in Nat
      BY <2>1, ClearedFinite, FS_CardinalityType
    <2>3. CASE left = Level
      BY <2>1, <2>2, <2>3, ClearedFinite
    <2>4. CASE left # Level
      <3>1. PICK k \in Key : left[k] # 0
        BY <1>1, <2>4 DEF Level
      <3>2. k \in Involved /\ k \notin Cleared
        BY <1>1, <3>1 DEF PlanInv, Bounded, Involved, Cleared
      <3>3. Cleared \subseteq Involved
        BY DEF Cleared, Involved
      <3>4. Cardinality(Cleared) # Cardinality(Involved)
        BY <3>2, <3>3, ClearedFinite, FS_Subset
      <3>5. QED
        BY <2>1, <2>2, <3>4, ClearedFinite
    <2>5. QED
      BY <2>3, <2>4
  <1>5. FewTransfers
    BY <1>4 DEF PlanInv, FewTransfers
  <1>6. QED
    BY <1>3, <1>5 DEF PlanInv

\* The positions and the payments keep their types.
THEOREM PlanTypeCorrect == PlanSpec => []PlanTypeOK
  <1>1. QED
    BY PlanInvGives, PlanInitInv, PlanNextInv, PTL DEF PlanSpec

\* The payments carry everybody from the position that was read; what is left
\* when the loop is over is all owed or all owing, and nothing when the
\* positions add up.
THEOREM PaymentsSettle == PlanSpec => []Settled
  <1>1. QED
    BY PlanInvGives, PlanInitInv, PlanNextInv, PTL DEF PlanSpec

\* Those who owe pay those who are owed, nobody more than is due, and in fewer
\* payments than there are people with something to pay or to get.
THEOREM PaymentsFew == PlanSpec => []FewTransfers
  <1>1. QED
    BY PlanInvGives, PlanInitInv, PlanNextInv, PTL DEF PlanSpec

-----------------------------------------------------------------------------
(* The positions of a group. *)

Agree(v, w, S) == IsFiniteSet(S) /\ \A k \in S : v[k] = w[k]

LEMMA SumAgree ==
  ASSUME NEW v, NEW w, NEW S, Agree(v, w, S)
  PROVE  SumOn(v, S) = SumOn(w, S)
  BY SumSame DEF Agree

\* What is paid and owed in a group, person by person or expense by expense.
RowsBy(f, S, K, h) ==
  /\ S \subseteq SplitRow /\ IsFiniteSet(S) /\ IsFiniteSet(K)
  /\ \A r \in S : f[r] \in K
  /\ h = [k \in K |-> Total({r \in S : f[r] = k})]

LEMMA TotalByLabel ==
  ASSUME NEW S, NEW K, NEW f, NEW h, RowsBy(f, S, K, h)
  PROVE  /\ SumOn(h, K) = Total(S) /\ Total(S) \in Int
         /\ \A k \in K : h[k] \in Int
  <1> USE DEF RowsBy
  <1>1. PICK w : w = [r \in S |-> r.cents]
    OBVIOUS
  <1>2. \A r \in S : w[r] \in Int
    BY <1>1 DEF SplitRow
  <1>3. ASSUME NEW U \in SUBSET S PROVE Total(U) = SumOn(w, U) /\ Total(U) \in Int
    <2>1. PICK v : v = [r \in U |-> r.cents]
      OBVIOUS
    <2>2. IsFiniteSet(U) /\ \A r \in U : v[r] = w[r] /\ w[r] \in Int
      BY <1>1, <1>2, <2>1, FS_Subset
    <2>3. SumOn(v, U) = SumOn(w, U) /\ SumOn(w, U) \in Int
      BY <2>2, SumSame, SumType
    <2>4. QED
      BY <2>1, <2>3, TotalIsSum
  <1>4. Labelled(f, w, S, K)
    BY <1>2 DEF Labelled
  <1>5. SumOn([k \in K |-> SumOn(w, {r \in S : f[r] = k})], K) = SumOn(w, S)
    BY <1>4, SumByLabel
  <1>6. \A k \in K : {r \in S : f[r] = k} \in SUBSET S
    OBVIOUS
  <1>7. [k \in K |-> Total({r \in S : f[r] = k})] =
        [k \in K |-> SumOn(w, {r \in S : f[r] = k})]
    BY <1>3, <1>6
  <1>8. S \in SUBSET S
    OBVIOUS
  <1>9. QED
    BY <1>3, <1>5, <1>6, <1>7, <1>8

PaidBy(payer, am, S, h) ==
  /\ IsFiniteSet(S)
  /\ \A e \in S : am[e] \in Int /\ payer[e] \in Key
  /\ h = [p \in Key |-> SumOn(am, {e \in S : payer[e] = p})]

LEMMA AmountsByPayer ==
  ASSUME NEW S, NEW am, NEW payer, NEW h, PaidBy(payer, am, S, h)
  PROVE  SumOn(h, Key) = SumOn(am, S) /\ \A p \in Key : h[p] \in Int
  <1> USE DEF PaidBy
  <1>1. Labelled(payer, am, S, Key)
    BY KeyAssumption DEF Labelled
  <1>2. ASSUME NEW p \in Key PROVE SumOn(am, {e \in S : payer[e] = p}) \in Int
    <2>1. PICK U : U = {e \in S : payer[e] = p}
      OBVIOUS
    <2>2. IsFiniteSet(U) /\ \A e \in U : am[e] \in Int
      BY <2>1, FS_Subset
    <2>3. QED
      BY <2>1, <2>2, SumType
  <1>3. QED
    BY <1>1, <1>2, SumByLabel

\* An expense has been paid by somebody.
Payers == \A e \in Expense : On(e) => expense[e].payer \in Person

\* The positions of the people of a group add up to what was paid, less what
\* the shares are.
LEMMA PositionsSum ==
  ASSUME SharesInv, Payers, NEW g \in Group,
         NEW here, here = {e \in Expense : On(e) /\ GroupOf[e] = g},
         NEW am, am = [e \in here |-> expense[e].amount]
  PROVE  /\ NetOf(g) \in [Key -> Int]
         /\ IsFiniteSet(here) /\ \A e \in here : am[e] \in Int
         /\ SumOver(NetOf(g)) = SumOn(am, here) - Total({r \in splits : r.expense \in here})
  <1> PICK S, net0, payer :
        /\ S = {r \in splits : r.expense \in here} /\ net0 = NetOf(g)
        /\ payer = [e \in here |-> expense[e].payer]
    OBVIOUS
  <1> PICK who : who = [r \in S |-> r.who]
    OBVIOUS
  <1>1. PICK paid, owed :
          /\ paid = [p \in Key |-> SumOn(am, {e \in here : payer[e] = p})]
          /\ owed = [p \in Key |-> Total({r \in S : who[r] = p})]
    OBVIOUS
  <1>2. /\ IsFiniteSet(here) /\ IsFiniteSet(S) /\ IsFiniteSet(Key)
        /\ S \subseteq SplitRow
    <2>1. here \subseteq Expense /\ S \subseteq splits
      BY <1>1
    <2>2. IsFiniteSet(splits) /\ splits \subseteq SplitRow
      BY DEF SharesInv, Shaped, TypeOK
    <2>3. QED
      BY <2>1, <2>2, PeopleAssumption, KeyAssumption, FS_Subset
  <1>3. \A e \in here : am[e] \in Int /\ payer[e] \in Key
    BY <1>1, PeopleAssumption DEF SharesInv, TypeOK, ExpenseRow, Payers
  <1>4. \A r \in S : who[r] \in Key
    BY <1>1, <1>2, PeopleAssumption DEF SplitRow
  <1>5. SumOn(paid, Key) = SumOn(am, here) /\ \A p \in Key : paid[p] \in Int
    <2>1. PaidBy(payer, am, here, paid)
      BY <1>1, <1>2, <1>3 DEF PaidBy
    <2>2. QED
      BY <2>1, AmountsByPayer
  <1>6. /\ SumOn(owed, Key) = Total(S) /\ Total(S) \in Int
        /\ \A p \in Key : owed[p] \in Int
    <2>1. RowsBy(who, S, Key, owed)
      BY <1>1, <1>2, <1>4 DEF RowsBy
    <2>2. QED
      BY <2>1, TotalByLabel
  <1>7. DOMAIN net0 = Key /\ \A p \in Key : net0[p] = paid[p] - owed[p]
    <2>1. DOMAIN net0 = Key
      BY <1>1 DEF NetOf
    <2>2. ASSUME NEW p \in Key PROVE net0[p] = paid[p] - owed[p]
      <3>1. PICK T, v : /\ T = {x \in here : expense[x].payer = p}
                        /\ v = [e \in T |-> expense[e].amount]
        OBVIOUS
      <3>2. T = {e \in here : payer[e] = p}
        BY <1>1, <3>1
      <3>3. {r \in splits : r.expense \in here /\ r.who = p} = {r \in S : who[r] = p}
        BY <1>1
      <3>4. net0[p] = SumOver(v) - Total({r \in splits : r.expense \in here /\ r.who = p})
        BY <1>1, <3>1 DEF NetOf
      <3>5. SumOver(v) = SumOn(v, T)
        <4>1. DOMAIN v = T
          BY <3>1
        <4>2. QED
          BY <4>1, SumOverIsSumOn
      <3>6. SumOn(v, T) = SumOn(am, T)
        <4>1. T \subseteq here /\ \A e \in T : v[e] = am[e]
          BY <3>1
        <4>2. IsFiniteSet(T)
          BY <1>2, <4>1, FS_Subset
        <4>3. Agree(v, am, T)
          BY <4>1, <4>2 DEF Agree
        <4>4. QED
          BY <4>3, SumAgree
      <3>7. paid[p] = SumOn(am, T) /\ owed[p] = Total({r \in S : who[r] = p})
        BY <1>1, <3>2
      <3>8. QED
        BY <3>3, <3>4, <3>5, <3>6, <3>7
    <2>3. QED
      BY <2>1, <2>2
  <1>8. \A p \in Key : net0[p] \in Int
    BY <1>5, <1>6, <1>7
  <1>9. net0 \in [Key -> Int]
    <2>1. net0 = [p \in Key |-> net0[p]]
      BY <1>1, <1>7 DEF NetOf
    <2>2. QED
      BY <1>8, <2>1
  <1>10. SumOn(paid, Key) = SumOn(net0, Key) + SumOn(owed, Key)
    <2>1. \A p \in Key : net0[p] \in Int /\ owed[p] \in Int /\ paid[p] = net0[p] + owed[p]
      BY <1>5, <1>6, <1>7, <1>8
    <2>2. QED
      BY <1>2, <2>1, SumPlus
  <1>11. SumOver(net0) = SumOn(net0, Key) /\ SumOn(net0, Key) \in Int
    BY <1>2, <1>7, <1>8, SumOverIsSumOn, SumType
  <1>12. SumOver(net0) = SumOn(am, here) - Total(S)
    BY <1>5, <1>6, <1>10, <1>11
  <1>13. QED
    BY <1>1, <1>2, <1>3, <1>9, <1>12

\* With shares that add up they add up to nothing.
LEMMA PositionsLevelNow == SharesInv /\ Payers => PositionsLevel
  <1> SUFFICES ASSUME SharesInv, Payers, NEW g \in Group, \A e \in stale : GroupOf[e] # g
               PROVE  SumOver(NetOf(g)) = 0
    BY DEF PositionsLevel
  <1> PICK here : here = {e \in Expense : On(e) /\ GroupOf[e] = g}
    OBVIOUS
  <1> PICK am, S : /\ am = [e \in here |-> expense[e].amount]
                   /\ S = {r \in splits : r.expense \in here}
    OBVIOUS
  <1> PICK of : of = [r \in S |-> r.expense]
    OBVIOUS
  <1>1. PICK by : by = [e \in here |-> Total({r \in S : of[r] = e})]
    OBVIOUS
  <1>2. /\ IsFiniteSet(here) /\ \A e \in here : am[e] \in Int
        /\ SumOver(NetOf(g)) = SumOn(am, here) - Total(S)
    BY <1>1, PositionsSum
  <1>3. S \subseteq SplitRow /\ IsFiniteSet(S)
    <2>1. S \subseteq splits
      BY <1>1
    <2>2. QED
      BY <2>1, FS_Subset DEF SharesInv, Shaped, TypeOK
  <1>4. \A r \in S : of[r] \in here
    BY <1>1
  <1>5. SumOn(by, here) = Total(S) /\ Total(S) \in Int
    <2>1. RowsBy(of, S, here, by)
      BY <1>1, <1>2, <1>3, <1>4 DEF RowsBy
    <2>2. QED
      BY <2>1, TotalByLabel
  <1>6. ASSUME NEW e \in here PROVE by[e] = am[e]
    <2>1. {r \in S : of[r] = e} = SplitsOf(e)
      BY <1>1 DEF SplitsOf
    <2>2. e \in Expense /\ On(e) /\ e \notin stale
      BY <1>1
    <2>3. Total(SplitsOf(e)) = expense[e].amount
      BY <2>2 DEF SharesInv, SharesAddUp
    <2>4. QED
      BY <1>1, <2>1, <2>3
  <1>7. SumOn(by, here) = SumOn(am, here)
    <2>1. Agree(by, am, here)
      BY <1>2, <1>6 DEF Agree
    <2>2. QED
      BY <2>1, SumAgree
  <1>8. QED
    BY <1>2, <1>5, <1>7

LEMMA NextPayers == TypeOK /\ Payers /\ [Next]_vars => Payers'
  <1> SUFFICES ASSUME TypeOK, Payers, [Next]_vars, NEW d \in Expense, On(d)'
               PROVE  expense'[d].payer \in Person
    BY DEF Payers
  <1>1. ASSUME expense'[d] = expense[d] PROVE expense'[d].payer \in Person
    BY <1>1 DEF Payers, On
  <1>2. ASSUME NEW e \in Expense, Create(e) PROVE expense'[d].payer \in Person
    <2>1. CASE d # e
      BY <1>1, <1>2, <2>1 DEF Create, TypeOK
    <2>2. CASE d = e
      <3>1. PICK q \in Creates :
              \/ expense' = expense
              \/ expense' = [expense EXCEPT ![e] =
                   [status |-> "on", payer |-> q.payer, name |-> NameFor(q),
                    user |-> q.payer \in live, amount |-> q.amount, type |-> q.type]]
        BY <1>2 DEF Create
      <3>2. q.payer \in Person
        BY RequestsAssumption DEF IsCreate
      <3>3. QED
        BY <1>1, <2>2, <3>1, <3>2 DEF TypeOK
    <2>3. QED
      BY <2>1, <2>2
  <1>3. ASSUME NEW e \in Expense, Delete(e) PROVE expense'[d].payer \in Person
    <2>1. CASE d # e
      BY <1>1, <1>3, <2>1 DEF Delete, TypeOK
    <2>2. CASE d = e
      BY <1>3, <2>2 DEF Delete, TypeOK, On, NoRow
    <2>3. QED
      BY <2>1, <2>2
  <1>4. ASSUME NEW s \in Slot, CommitLocked(s) \/ CommitSplits(s)
        PROVE  expense'[d].payer \in Person
    <2>1. PICK e, q, row :
            /\ e = req[s].expense /\ q = req[s].edit /\ row = req[s].seen
      OBVIOUS
    <2>2. req[s].pc # "idle"
      BY <1>4 DEF CommitLocked, CommitSplits
    <2>3. e \in Expense /\ q \in Edits
      BY <2>1, <2>2 DEF TypeOK
    <2>4. expense[e].status = "on" /\ expense' = [expense EXCEPT ![e] = Written(q, row, @)]
      BY <1>4, <2>1 DEF CommitLocked, CommitSplits, Finish
    <2>5. CASE d # e
      BY <1>1, <2>4, <2>5 DEF TypeOK
    <2>6. CASE d = e
      <3>1. expense'[d] = Written(q, row, expense[d])
        BY <2>4, <2>6 DEF TypeOK
      <3>2. expense[d].payer \in Person
        BY <2>4, <2>6 DEF Payers, On
      <3>3. Changes(q, row).payer => q.payer \in Person
        BY <2>3, RequestsAssumption DEF Changes, IsEdit
      <3>4. expense[d] \in ExpenseRow
        BY DEF TypeOK
      <3>5. expense'[d].payer = IF Changes(q, row).payer THEN q.payer ELSE expense[d].payer
        BY <3>1, <3>4 DEF Written, ExpenseRow
      <3>6. QED
        BY <3>2, <3>3, <3>5
    <2>7. QED
      BY <2>5, <2>6
  <1>5. ASSUME NEW s \in Slot,
               (\E e \in Expense : Open(s, e)) \/ LoadWho(s) \/ LoadOld(s) \/ Abort(s)
        PROVE  expense'[d].payer \in Person
    BY <1>1, <1>5 DEF Open, LoadWho, LoadOld, Abort, ledger
  <1>6. ASSUME NEW p \in Person, NEW q \in Person, Settle(p, q)
        PROVE  expense'[d].payer \in Person
    BY <1>1, <1>6 DEF Settle
  <1>7. ASSUME NEW p \in Person, Leave(p) \/ Join(p) PROVE expense'[d].payer \in Person
    <2>1. PICK user \in BOOLEAN :
            expense' = [e \in Expense |->
              IF expense[e].payer = p
              THEN [expense[e] EXCEPT !.user = user, !.name = NameOf[p]] ELSE expense[e]]
      BY <1>7 DEF Leave, Join, Attach
    <2>2. expense[d] \in ExpenseRow
      BY DEF TypeOK
    <2>3. expense'[d].payer = expense[d].payer /\ expense'[d].status = expense[d].status
      BY <2>1, <2>2 DEF ExpenseRow
    <2>4. QED
      BY <2>3 DEF Payers, On
  <1>8. CASE UNCHANGED vars
    BY <1>1, <1>8 DEF vars, ledger
  <1>9. QED
    BY <1>2, <1>3, <1>4, <1>5, <1>6, <1>7, <1>8 DEF Next

-----------------------------------------------------------------------------
(* The ledger and the payments together. *)

GroupInv == SharesInv /\ Payers /\ PlanInv

LEMMA GroupInitInv == GroupInit => GroupInv
  <1> SUFFICES ASSUME GroupInit PROVE GroupInv
    OBVIOUS
  <1>1. SharesInv /\ PlanInv
    BY InitShares, PlanInitInv DEF GroupInit
  <1>2. Payers
    BY DEF GroupInit, Init, Payers, On, NoRow
  <1>3. QED
    BY <1>1, <1>2 DEF GroupInv

LEMMA PlanStartsInv == GroupInv /\ Plan => PlanInv'
  <1> SUFFICES ASSUME GroupInv, Plan PROVE PlanInv'
    OBVIOUS
  <1>1. PICK g \in Group, n \in Older : Start([p \in Key |-> n[p] + NetOf(g)[p]])
    BY DEF Plan
  <1>2. PICK net0 : net0 = NetOf(g)
    OBVIOUS
  <1>3. net0 \in [Key -> Int] /\ n \in [Key -> Int]
    BY <1>2, PositionsSum, OlderAssumption DEF GroupInv
  <1>4. PICK m : m = [p \in Key |-> n[p] + net0[p]]
    OBVIOUS
  <1>5. m \in [Key -> Int] /\ Start(m)
    BY <1>1, <1>2, <1>3, <1>4
  <1>6. QED
    BY <1>5, StartInv

LEMMA GroupNextInv == GroupInv /\ [GroupNext]_<<vars, planVars>> => GroupInv'
  <1> SUFFICES ASSUME GroupInv, [GroupNext]_<<vars, planVars>> PROVE GroupInv'
    OBVIOUS
  <1>1. SharesInv /\ TypeOK /\ Payers /\ PlanInv
    BY DEF GroupInv, SharesInv
  <1>2. [Next]_vars
    BY DEF GroupNext, Plan, Settling
  <1>3. SharesInv' /\ Payers'
    BY <1>1, <1>2, NextShares, NextPayers
  <1>4. PlanInv'
    <2>1. CASE Plan
      BY <2>1, PlanStartsInv
    <2>2. CASE Settling
      BY <1>1, <2>2, MatchInv, ReturnInv DEF Settling
    <2>3. CASE UNCHANGED planVars
      BY <1>1, <2>3, StutterInv
    <2>4. QED
      BY <2>1, <2>2, <2>3 DEF GroupNext
  <1>5. QED
    BY <1>3, <1>4 DEF GroupInv

\* The positions of a group whose expenses no overlapping edits split add up
\* to those of its older expenses, whatever was made, edited and deleted, and
\* whoever came and went.
THEOREM PositionsAlwaysLevel == GroupSpec => []PositionsLevel
  <1>1. GroupInv => PositionsLevel
    BY PositionsLevelNow DEF GroupInv
  <1>2. QED
    BY <1>1, GroupInitInv, GroupNextInv, PTL DEF GroupSpec

\* The payments suggested from the ledger carry everybody from the position
\* it was in, to zero when the positions add up, in fewer payments than there
\* are people concerned.
THEOREM GroupsSettle == GroupSpec => [](Settled /\ FewTransfers)
  <1>1. GroupInv => Settled /\ FewTransfers
    BY PlanInvGives DEF GroupInv
  <1>2. QED
    BY <1>1, GroupInitInv, GroupNextInv, PTL DEF GroupSpec

\* What is proved of the ledger holds of it here.
THEOREM LedgerOfGroups == GroupSpec => Spec
  <1>1. GroupInit => Init
    BY DEF GroupInit
  <1>2. [GroupNext]_<<vars, planVars>> => [Next]_vars
    BY DEF GroupNext, Plan, Settling
  <1>3. QED
    BY <1>1, <1>2, PTL DEF GroupSpec, Spec
=============================================================================
