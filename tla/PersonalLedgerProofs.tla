------------------------ MODULE PersonalLedgerProofs ------------------------
(***************************************************************************)
(* The personal ledger keeps its types, no row refers to an account that   *)
(* has gone, transfers stay in pairs, a budget's limit is one last asked   *)
(* for, and the copies of an occurrence are bounded by the readers that    *)
(* wrote over each other's watermarks: for any accounts, rules, requests   *)
(* at a time, days and dates.                                              *)
(***************************************************************************)
EXTENDS PersonalLedger, RecurringDatesProofs

USE DEF budgeting

-----------------------------------------------------------------------------
(* Days. *)

\* What is due is not in the future, and not up to the watermark.
LEMMA DueType ==
  ASSUME NEW q \in RuleRow \cup {None}, NEW day \in Nat, NEW d \in DueOf(q, day)
  PROVE  /\ q \in RuleRow /\ q # None /\ d \in Nat \ {0} /\ d <= day /\ d > q.last
  <1>1. q # None /\ q \in RuleRow
    BY DEF DueOf
  <1>2. /\ q.first \in Date /\ q.frequency \in Frequency /\ q.last \in Nat /\ q.end \in Nat
    BY <1>1 DEF RuleRow
  <1>3. d \in DueOccurrences(q.first, q.frequency, q.end, q.last, day)
    BY <1>1 DEF DueOf
  <1>4. PICK n \in 0..MaxOccurrences :
          /\ d = Occurrence(q.first, q.frequency, n)
          /\ \A j \in 0..n : Occurrence(q.first, q.frequency, j) <= day
          /\ q.last # 0 => d > q.last
    BY <1>3 DEF DueOccurrences
  <1>5. n \in Nat /\ n \in 0..n
    BY <1>4, MaxOccurrencesAssumption
  <1>6. d \in Nat \ {0} /\ d <= day
    BY <1>2, <1>4, <1>5, OccurrenceType
  <1>7. QED
    BY <1>1, <1>2, <1>4, <1>6

\* The last of some days is one of them.
LEMMA WatermarkIsLast ==
  ASSUME NEW due, due \subseteq Nat, due # {}, NEW day \in Nat, \A d \in due : d <= day
  PROVE  Watermark(due) \in due /\ \A d \in due : d <= Watermark(due)
  <1> DEFINE Bounds == {n \in Nat : \A d \in due : d <= n}
  <1>1. Bounds \subseteq Nat /\ day \in Bounds
    OBVIOUS
  <1> HIDE DEF Bounds
  <1>2. PICK n \in Bounds : \A k \in Bounds : n <= k
    BY <1>1, FirstOfSome
  <1>3. n \in Nat /\ \A d \in due : d <= n
    BY DEF Bounds
  <1>4. n \in due
    <2>1. SUFFICES ASSUME n \notin due PROVE FALSE
      OBVIOUS
    <2>2. \A d \in due : d <= n - 1
      BY <1>3, <2>1
    <2>3. PICK e \in due : e \in Nat /\ e <= n - 1
      BY <2>2
    <2>4. n - 1 \in Nat
      BY <1>3, <2>3
    <2>5. n - 1 \in Bounds
      BY <2>2, <2>4 DEF Bounds
    <2>6. QED
      BY <1>2, <1>3, <2>5
  <1>5. \E d \in due : \A e \in due : e <= d
    BY <1>3, <1>4
  <1>6. QED
    BY <1>5 DEF Watermark

-----------------------------------------------------------------------------
(* Types. *)

\* What a reader that commits makes, by rule and by day.
Plan(s, day) == [r \in Rule |-> DueOf(req[s].rules[r], day)]
Some(plan) == {r \in Rule : plan[r] # {}}

LEMMA InitTypeOK == Init => TypeOK
  <1> SUFFICES ASSUME Init PROVE TypeOK
    OBVIOUS
  <1>1. req \in [Slot -> Request] /\ \A s \in Slot : req[s] = Idle
    BY DEF Init, Request, Idle
  <1>2. today \in Days /\ today \in Nat
    BY DaysAssumption DEF Init
  <1>3. \A s \in Slot : req[s].day <= today /\ \A r \in Rule : req[s].rules[r] = None
    BY <1>1, <1>2 DEF Idle
  <1>4. rule = [r \in Rule |-> None] /\ \A r \in Rule : rule[r] = None
    BY DEF Init
  <1>5. \A r \in Rule : made[r] = [d \in {} |-> 0] /\ DOMAIN made[r] = {}
    BY DEF Init
  <1>6. \A r \in Rule : made[r] \in [DOMAIN made[r] -> Nat]
    BY <1>5
  <1>7. DOMAIN made = Rule
    BY DEF Init
  <1>8. /\ upsert \in [Slot -> Upsert] /\ \A s \in Slot : upsert[s].pc = "idle"
        /\ asked \in [Text -> SUBSET Nat]
    BY DEF Init, Upsert, NoUpsert
  <1>9. QED
    BY <1>1, <1>2, <1>3, <1>4, <1>5, <1>6, <1>7, <1>8 DEF Init, TypeOK, Past

\* What a commit of slot s does that finds these days due.
Commits(s, due) ==
  /\ \E day \in Nat : \A r \in Rule : due[r] = DueOf(req[s].rules[r], day)
  /\ due \in [Rule -> SUBSET (Nat \ {0})]
  /\ \A r \in Rule : due[r] # {} =>
       /\ req[s].rules[r] \in RuleRow /\ rule[r] \in RuleRow
       /\ \A d \in due[r] : d <= today /\ d > req[s].rules[r].last
       /\ Watermark(due[r]) \in due[r]
       /\ \A d \in due[r] : d <= Watermark(due[r])
  /\ rule' = [r \in Rule |->
       IF due[r] # {} THEN [rule[r] EXCEPT !.last = Watermark(due[r])]
       ELSE rule[r]]
  /\ transactions' = transactions \cup
       UNION {MadeRows(req[s].rules[r], r, due[r]) : r \in Some(due)}
  /\ made' = [r \in Rule |-> [d \in DOMAIN made[r] \cup due[r] |->
       Copies(r, d) + IF d \in due[r] THEN 1 ELSE 0]]
  /\ laps' = [r \in Rule |-> laps[r] +
       IF due[r] # {} /\ rule[r].last # req[s].rules[r].last THEN 1 ELSE 0]
  /\ requests' \in Nat

LEMMA MaterializeFacts ==
  ASSUME TypeOK, NEW s \in Slot, Materialize(s)
  PROVE  \E due : Commits(s, due)
  <1>1. PICK day \in {d \in Days : req[s].day <= d /\ d <= today} :
          \E due \in {Plan(s, day)} :
            /\ \A r \in Some(due) : StillThere(r)
            /\ Some(due) # {} => Arrives
            /\ Some(due) = {} => UNCHANGED requests
            /\ transactions' = transactions \cup
                 UNION {MadeRows(req[s].rules[r], r, due[r]) : r \in Some(due)}
            /\ rule' = [r \in Rule |->
                 IF r \in Some(due) THEN [rule[r] EXCEPT !.last = Watermark(due[r])]
                 ELSE rule[r]]
            /\ made' = [r \in Rule |-> [d \in DOMAIN made[r] \cup due[r] |->
                 Copies(r, d) + IF d \in due[r] THEN 1 ELSE 0]]
            /\ laps' = [r \in Rule |-> laps[r] +
                 IF r \in Some(due) /\ rule[r].last # req[s].rules[r].last THEN 1 ELSE 0]
    BY DEF Materialize, Plan, Some
  <1>2. PICK due : due = Plan(s, day)
    OBVIOUS
  <1>3. day \in Nat /\ day <= today /\ today \in Nat
    BY <1>1, DaysAssumption DEF TypeOK
  <1>4. \A r \in Rule : req[s].rules[r] \in RuleRow \cup {None} /\ rule[r] \in RuleRow \cup {None}
    BY DEF TypeOK, Request
  <1>5. \A r \in Rule : due[r] = DueOf(req[s].rules[r], day)
    BY <1>2 DEF Plan
  <1>6. \A r \in Rule : \A d \in due[r] :
          /\ req[s].rules[r] \in RuleRow /\ d \in Nat \ {0}
          /\ d <= day /\ d > req[s].rules[r].last
    BY <1>3, <1>4, <1>5, DueType
  <1>7. due \in [Rule -> SUBSET (Nat \ {0})]
    BY <1>2, <1>5, <1>6 DEF Plan
  <1>8. \A r \in Rule : due[r] # {} =>
          /\ Watermark(due[r]) \in due[r]
          /\ \A d \in due[r] : d <= Watermark(due[r])
    BY <1>3, <1>6, <1>7, WatermarkIsLast
  <1>9. \A r \in Rule : due[r] # {} => rule[r] \in RuleRow
    BY <1>1, <1>2, <1>4 DEF Some, StillThere
  <1>10. rule' = [r \in Rule |->
                IF due[r] # {} THEN [rule[r] EXCEPT !.last = Watermark(due[r])]
                ELSE rule[r]]
    BY <1>1, <1>2 DEF Some
  <1>11. laps' = [r \in Rule |-> laps[r] +
                IF due[r] # {} /\ rule[r].last # req[s].rules[r].last THEN 1 ELSE 0]
    BY <1>1, <1>2 DEF Some
  <1>12. requests' \in Nat
    BY <1>1, <1>2 DEF Arrives, TypeOK
  <1>13. /\ transactions' = transactions \cup
              UNION {MadeRows(req[s].rules[r], r, due[r]) : r \in Some(due)}
         /\ made' = [r \in Rule |-> [d \in DOMAIN made[r] \cup due[r] |->
              Copies(r, d) + IF d \in due[r] THEN 1 ELSE 0]]
    BY <1>1, <1>2
  <1>14. \A r \in Rule : \A d \in due[r] : d <= today
    BY <1>3, <1>6, <1>7
  <1>15. Commits(s, due)
    BY <1>3, <1>5, <1>6, <1>7, <1>8, <1>9, <1>10, <1>11, <1>12, <1>13, <1>14 DEF Commits
  <1>16. QED
    BY <1>15

LEMMA MaterializeTypeOK ==
  ASSUME TypeOK, NEW s \in Slot, Materialize(s)
  PROVE  TypeOK'
  <1>1. PICK due : Commits(s, due)
    BY MaterializeFacts
  <1>2. /\ UNCHANGED <<today, account, goals, budgeting, sent, edited, tried>>
        /\ req' = [req EXCEPT ![s] = Idle]
    BY DEF Materialize
  <1>3. today \in Nat /\ \A r \in Rule : rule[r] \in RuleRow \cup {None}
    BY DaysAssumption DEF TypeOK
  <1>4. \A r \in Rule : due[r] # {} =>
          /\ rule'[r] = [rule[r] EXCEPT !.last = Watermark(due[r])]
          /\ Watermark(due[r]) \in Nat /\ Watermark(due[r]) <= today
    BY <1>1, <1>3 DEF Commits
  <1>5. \A r \in Rule : due[r] = {} => rule'[r] = rule[r]
    BY <1>1 DEF Commits
  <1>6. \A r \in Rule : due[r] # {} => rule'[r] \in RuleRow /\ rule'[r].last <= today
    BY <1>1, <1>4 DEF RuleRow, Commits
  <1>7. rule' \in [Rule -> RuleRow \cup {None}]
    BY <1>1, <1>3, <1>5, <1>6 DEF Commits
  <1>8. \A r \in Rule : Past(rule[r])'
    BY <1>2, <1>5, <1>6 DEF Past, TypeOK
  <1>9. req' \in [Slot -> Request]
    BY <1>2 DEF TypeOK, Request, Idle
  <1>10. \A t \in Slot : (req'[t] = Idle \/ req'[t] = req[t])
    BY <1>2 DEF TypeOK
  <1>11. \A t \in Slot : req'[t].day <= today /\ \A r \in Rule : Past(req[t].rules[r])'
    BY <1>2, <1>3, <1>10 DEF TypeOK, Past, Idle
  <1>12. transactions' \subseteq Transaction
    <2>1. SUFFICES ASSUME NEW r \in Some(due), NEW x \in MadeRows(req[s].rules[r], r, due[r])
                   PROVE  x \in Transaction
      BY <1>1 DEF Commits, TypeOK
    <2>2. r \in Rule /\ req[s].rules[r] \in RuleRow /\ due[r] \subseteq Nat
      BY <1>1, <2>1 DEF Commits, Some
    <2>3. req[s].rules[r].account \in Account /\ req[s].rules[r].amount \in Int
      BY <2>2 DEF RuleRow
    <2>4. QED
      BY <2>1, <2>2, <2>3 DEF MadeRows, Transaction, TypeOK
  <1>13. \A r \in Rule : /\ DOMAIN made'[r] = DOMAIN made[r] \cup due[r]
                         /\ \A d \in DOMAIN made'[r] :
                              made'[r][d] = Copies(r, d) + IF d \in due[r] THEN 1 ELSE 0
    BY <1>1 DEF Commits
  <1>14. \A r \in Rule : \A d \in DOMAIN made'[r] : Copies(r, d) \in Nat
    BY DEF Copies, TypeOK
  <1>15. \A r \in Rule : /\ DOMAIN made'[r] \subseteq Nat
                         /\ made'[r] \in [DOMAIN made'[r] -> Nat]
    <2>1. SUFFICES ASSUME NEW r \in Rule
                   PROVE  /\ DOMAIN made'[r] \subseteq Nat
                          /\ made'[r] \in [DOMAIN made'[r] -> Nat]
      OBVIOUS
    <2>2. made'[r] = [d \in DOMAIN made[r] \cup due[r] |->
                        Copies(r, d) + IF d \in due[r] THEN 1 ELSE 0]
      BY <1>1 DEF Commits
    <2>3. DOMAIN made[r] \subseteq Nat /\ due[r] \subseteq Nat
      BY <1>1 DEF Commits, TypeOK
    <2>4. \A d \in DOMAIN made'[r] : made'[r][d] \in Nat
      BY <1>13, <1>14
    <2>5. QED
      BY <1>13, <2>2, <2>3, <2>4
  <1>16. DOMAIN made' = Rule
    BY <1>1 DEF Commits
  <1>17. laps' \in [Rule -> Nat]
    BY <1>1 DEF Commits, TypeOK
  <1>18. requests' \in Nat
    BY <1>1 DEF Commits
  <1>19. QED
    BY <1>2, <1>7, <1>8, <1>9, <1>11, <1>12, <1>15, <1>16, <1>17, <1>18 DEF TypeOK

\* What an update writes: of request u in slot s, the limit of budget b.
Updates(s, u, b, limit) ==
  /\ u = upsert[s] /\ u.pc = "found" /\ u.seen # None
  /\ b \in budgets /\ b.id = u.seen.id /\ limit \in Left(u, b.limit)
  /\ budgets' = (budgets \ {b}) \cup {[b EXCEPT !.limit = limit]}
  /\ asked' = [asked EXCEPT ![b.category] = IF limit = u.limit THEN {limit} ELSE u.since]
  /\ upsert' = [t \in Slot |->
       IF t = s THEN NoUpsert
       ELSE IF upsert[t].seen # None /\ upsert[t].seen.id = b.id
            THEN [upsert[t] EXCEPT !.since = @ \cup {limit}] ELSE upsert[t]]
  /\ requests' = requests

LEMMA UpdateFacts ==
  ASSUME NEW s \in Slot, UpdateBudget(s)
  PROVE  \E u, b, limit : Updates(s, u, b, limit)
  <1> DEFINE u == upsert[s]
  <1>1. u.pc = "found" /\ u.seen # None /\ requests' = requests
    BY DEF UpdateBudget
  <1>2. PICK b \in {x \in budgets : x.id = u.seen.id} : \E limit \in Left(u, b.limit) :
          /\ budgets' = (budgets \ {b}) \cup {[b EXCEPT !.limit = limit]}
          /\ asked' = [asked EXCEPT ![b.category] =
                         IF limit = u.limit THEN {limit} ELSE u.since]
          /\ upsert' = [t \in Slot |->
               IF t = s THEN NoUpsert
               ELSE IF upsert[t].seen # None /\ upsert[t].seen.id = b.id
                    THEN [upsert[t] EXCEPT !.since = @ \cup {limit}] ELSE upsert[t]]
    BY Zenon DEF UpdateBudget
  <1>3. PICK limit \in Left(u, b.limit) :
          /\ budgets' = (budgets \ {b}) \cup {[b EXCEPT !.limit = limit]}
          /\ asked' = [asked EXCEPT ![b.category] =
                         IF limit = u.limit THEN {limit} ELSE u.since]
          /\ upsert' = [t \in Slot |->
               IF t = s THEN NoUpsert
               ELSE IF upsert[t].seen # None /\ upsert[t].seen.id = b.id
                    THEN [upsert[t] EXCEPT !.since = @ \cup {limit}] ELSE upsert[t]]
    BY Zenon, <1>2
  <1>4. b \in budgets /\ b.id = u.seen.id
    OBVIOUS
  <1>5. Updates(s, u, b, limit)
    BY Zenon, <1>1, <1>3, <1>4 DEF Updates
  <1>6. QED
    BY <1>5

\* What the steps of PUT /budgets write has its type.
LEMMA UpsertTypes ==
  ASSUME TypeOK, NEW s \in Slot, UpsertBudget(s)
  PROVE  /\ budgets' \subseteq Budget /\ upsert' \in [Slot -> Upsert]
         /\ \A t \in Slot : upsert'[t].pc = "found" => upsert'[t].text \in Text
         /\ asked' \in [Text -> SUBSET Nat] /\ requests' \in Nat
  <1>1. /\ upsert \in [Slot -> Upsert] /\ asked \in [Text -> SUBSET Nat]
        /\ budgets \subseteq Budget /\ requests \in Nat
        /\ \A t \in Slot : upsert[t].pc = "found" => upsert[t].text \in Text
    BY DEF TypeOK
  <1>2. NoUpsert \in Upsert /\ NoUpsert.pc = "idle"
    BY DEF NoUpsert, Upsert
  <1>3. CASE FindBudget(s)
    <2>1. PICK text \in Text, limit \in Limits, seen \in budgets \cup {None} :
            upsert' = [upsert EXCEPT ![s] =
              [pc |-> "found", id |-> requests, text |-> text, limit |-> limit,
               seen |-> seen, since |-> {}]]
      BY <1>3 DEF FindBudget
    <2>2. [pc |-> "found", id |-> requests, text |-> text, limit |-> limit,
           seen |-> seen, since |-> {}] \in Upsert
      BY <1>1, <2>1, TextAssumption DEF Upsert
    <2>3. requests' \in Nat /\ UNCHANGED <<budgets, asked>>
      BY <1>1, <1>3 DEF FindBudget, Arrives
    <2>4. QED
      BY <1>1, <2>1, <2>2, <2>3
  <1>4. CASE InsertBudget(s)
    <2>1. PICK u, c : u = upsert[s] /\ c = Stripped[u.text]
      OBVIOUS
    <2>2. /\ u.pc = "found"
          /\ budgets' = budgets \cup {[id |-> u.id, category |-> c, limit |-> u.limit]}
          /\ asked' = [asked EXCEPT ![c] = {u.limit}]
          /\ upsert' = [upsert EXCEPT ![s] = NoUpsert] /\ requests' = requests
      BY <1>4, <2>1 DEF InsertBudget
    <2>3. c \in Text /\ u.id \in Nat /\ u.limit \in Nat
      BY <1>1, <2>1, <2>2, TextAssumption DEF Upsert
    <2>4. QED
      BY <1>1, <1>2, <2>2, <2>3 DEF Budget
  <1>5. CASE UpdateBudget(s)
    <2>1. PICK u, b, limit : Updates(s, u, b, limit)
      BY <1>5, UpdateFacts
    <2>2. b \in Budget /\ limit \in Nat
      BY <1>1, <2>1 DEF Updates, Budget, Upsert, Left
    <2>3. [b EXCEPT !.limit = limit] \in Budget
      BY <2>2 DEF Budget
    <2>4. \A t \in Slot : upsert[t] \in Upsert /\ upsert'[t] \in Upsert
      <3>1. \A t \in Slot : [upsert[t] EXCEPT !.since = @ \cup {limit}] \in Upsert
        BY <1>1, <2>2 DEF Upsert
      <3>2. QED
        BY <1>1, <1>2, <2>1, <3>1 DEF Updates
    <2>5. \A t \in Slot : [upsert[t] EXCEPT !.since = @ \cup {limit}].pc = upsert[t].pc
                          /\ [upsert[t] EXCEPT !.since = @ \cup {limit}].text = upsert[t].text
      BY <1>1 DEF Upsert
    <2>6. \A t \in Slot : upsert'[t].pc = "found" => upsert'[t].text \in Text
      BY <1>1, <1>2, <2>1, <2>5 DEF Updates
    <2>7. asked' \in [Text -> SUBSET Nat]
      <3>1. u.since \subseteq Nat
        BY <1>1, <2>1 DEF Updates, Upsert
      <3>2. QED
        BY <1>1, <2>1, <2>2, <3>1 DEF Updates
    <2>8. budgets' \subseteq Budget /\ requests' \in Nat /\ upsert' \in [Slot -> Upsert]
      BY <1>1, <2>1, <2>3, <2>4 DEF Updates
    <2>9. QED
      BY <2>6, <2>7, <2>8
  <1>6. CASE DropUpsert(s)
    BY <1>1, <1>2, <1>6 DEF DropUpsert
  <1>7. QED
    BY <1>3, <1>4, <1>5, <1>6 DEF UpsertBudget

LEMMA NextTypeOK == TypeOK /\ [Next]_vars => TypeOK'
  <1> SUFFICES ASSUME TypeOK, [Next]_vars PROVE TypeOK'
    OBVIOUS
  <1> today \in Nat
    BY DaysAssumption DEF TypeOK
  <1>1. ASSUME NEW a \in Account, CreateAccount(a) PROVE TypeOK'
    BY <1>1 DEF CreateAccount, TypeOK, Past
  <1>2. ASSUME NEW a \in Account, DeleteAccount(a) PROVE TypeOK'
    <2>1. rule' \in [Rule -> RuleRow \cup {None}] /\ \A r \in Rule : Past(rule[r])'
      BY <1>2 DEF DeleteAccount, Without, TypeOK, Past
    <2>2. account' \in [Account -> {"unused", "open", "gone"}]
      BY <1>2 DEF DeleteAccount, TypeOK
    <2>3. transactions' \subseteq Transaction /\ goals' \subseteq Goal /\ requests' \in Nat
      BY <1>2 DEF DeleteAccount, Without, Arrives, TypeOK
    <2>4. QED
      BY <1>2, <2>1, <2>2, <2>3 DEF DeleteAccount, TypeOK, Past
  <1>3. ASSUME NEW a \in Account, CreateTransaction(a) PROVE TypeOK'
    <2>1. \A amount \in Amounts : Plain(a, amount, None) \in Transaction
      BY AmountsAssumption DEF Plain, Transaction, TypeOK
    <2>2. QED
      BY <1>3, <2>1 DEF CreateTransaction, Arrives, TypeOK, Past
  <1>4. ASSUME NEW a \in Account, CreateGoal(a) PROVE TypeOK'
    BY <1>4 DEF CreateGoal, Arrives, Goal, TypeOK, Past
  <1>5. ASSUME NEW a \in Account, NEW b \in Account, CreateTransfer(a, b) PROVE TypeOK'
    <2>1. PICK amount \in {x \in Amounts : x > 0} :
            /\ transactions' = transactions \cup
                 {Plain(a, -amount, requests), Plain(b, amount, requests)}
            /\ sent' = sent \cup {[id |-> requests, from |-> a, to |-> b, amount |-> amount]}
      BY <1>5 DEF CreateTransfer
    <2>2. amount \in Int /\ -amount \in Int
      BY AmountsAssumption
    <2>3. /\ Plain(a, -amount, requests) \in Transaction
          /\ Plain(b, amount, requests) \in Transaction
      BY <2>2 DEF Plain, Transaction, TypeOK
    <2>4. [id |-> requests, from |-> a, to |-> b, amount |-> amount] \in Transfer
      BY <2>2 DEF Transfer, TypeOK
    <2>5. QED
      BY <1>5, <2>1, <2>3, <2>4 DEF CreateTransfer, Arrives, TypeOK, Past
  <1>6. ASSUME NEW x \in transactions, UpdateTransaction(x) PROVE TypeOK'
    <2>1. \A amount \in Amounts : [x EXCEPT !.amount = amount] \in Transaction
      BY AmountsAssumption DEF Transaction, TypeOK
    <2>2. {x.transfer} \ {None} \subseteq Nat
      BY DEF Transaction, TypeOK
    <2>3. QED
      BY <1>6, <2>1, <2>2 DEF UpdateTransaction, Arrives, TypeOK, Past
  <1>7. ASSUME NEW x \in transactions, DeleteTransaction(x) PROVE TypeOK'
    BY <1>7 DEF DeleteTransaction, Arrives, TypeOK, Past
  <1>8. ASSUME NEW r \in Rule, NEW a \in Account, CreateRule(r, a) PROVE TypeOK'
    <2>1. PICK first \in Starts, t \in Terms, amount \in Amounts :
            /\ rule' = [rule EXCEPT ![r] =
                 [account |-> a, amount |-> amount, frequency |-> t.frequency,
                  first |-> first, end |-> t.end, last |-> 0]]
            /\ tried' = [tried EXCEPT ![r] = {t.frequency}]
      BY <1>8 DEF CreateRule
    <2>2. /\ first \in Date /\ t.frequency \in Frequency /\ t.end \in Nat
          /\ amount \in Int
      BY StartsAssumption, TermsAssumption, AmountsAssumption
    <2>3. [account |-> a, amount |-> amount, frequency |-> t.frequency,
           first |-> first, end |-> t.end, last |-> 0] \in RuleRow
      BY <2>2 DEF RuleRow
    <2>4. rule' \in [Rule -> RuleRow \cup {None}] /\ \A q \in Rule : Past(rule[q])'
      BY <1>8, <2>1, <2>3 DEF CreateRule, TypeOK, Past
    <2>5. tried' \in [Rule -> SUBSET Frequency]
      BY <2>1, <2>2 DEF TypeOK
    <2>6. QED
      BY <1>8, <2>4, <2>5 DEF CreateRule, Arrives, TypeOK, Past
  <1>9. ASSUME NEW r \in Rule, UpdateRule(r) PROVE TypeOK'
    <2>1. PICK t \in Terms :
            /\ rule' = [rule EXCEPT ![r].frequency = t.frequency,
                                    ![r].end = IF t.end = 0 THEN @ ELSE t.end]
            /\ tried' = [tried EXCEPT ![r] = @ \cup {t.frequency}]
      BY <1>9 DEF UpdateRule
    <2>2. t.frequency \in Frequency /\ t.end \in Nat
      BY TermsAssumption
    <2>3. rule[r] \in RuleRow
      BY <1>9 DEF UpdateRule, TypeOK
    <2>4. rule'[r] \in RuleRow /\ rule'[r].last = rule[r].last
      BY <2>1, <2>2, <2>3 DEF RuleRow, TypeOK
    <2>5. \A q \in Rule \ {r} : rule'[q] = rule[q]
      BY <2>1 DEF TypeOK
    <2>6. rule' \in [Rule -> RuleRow \cup {None}]
      BY <2>1, <2>4, <2>5 DEF TypeOK
    <2>7. today' = today
      BY <1>9 DEF UpdateRule
    <2>8. \A q \in Rule : Past(rule[q])'
      BY <1>9, <2>3, <2>4, <2>5, <2>7, NoneAssumption DEF UpdateRule, TypeOK, Past
    <2>9. tried' \in [Rule -> SUBSET Frequency]
      BY <2>1, <2>2 DEF TypeOK
    <2>10. QED
      BY <1>9, <2>6, <2>8, <2>9 DEF UpdateRule, Arrives, TypeOK, Past
  <1>10. ASSUME NEW r \in Rule, DeleteRule(r) PROVE TypeOK'
    BY <1>10 DEF DeleteRule, Arrives, TypeOK, Past
  <1>11. ASSUME NEW s \in Slot, LoadRules(s) PROVE TypeOK'
    <2>1. [pc |-> "rules", rules |-> rule, day |-> today] \in Request
      BY DEF Request, TypeOK
    <2>2. /\ req' = [req EXCEPT ![s] = [pc |-> "rules", rules |-> rule, day |-> today]]
          /\ UNCHANGED <<today, rule>>
      BY <1>11 DEF LoadRules, rows
    <2>3. req' \in [Slot -> Request]
      BY <2>1, <2>2 DEF TypeOK
    <2>4. \A z \in Slot : /\ req'[z].day <= today
                          /\ \A r \in Rule : Past(req'[z].rules[r])
      BY <2>2 DEF TypeOK, Past
    <2>5. QED
      BY <1>11, <2>2, <2>3, <2>4 DEF LoadRules, rows, TypeOK, Past
  <1>12. ASSUME NEW s \in Slot, Abort(s) PROVE TypeOK'
    <2>1. Idle \in Request /\ Idle.day = 0 /\ \A r \in Rule : Idle.rules[r] = None
      BY DEF Request, Idle
    <2>2. req' = [req EXCEPT ![s] = Idle] /\ UNCHANGED <<today, rule>>
      BY <1>12 DEF Abort, rows
    <2>3. req' \in [Slot -> Request]
      BY <2>1, <2>2 DEF TypeOK
    <2>4. \A z \in Slot : /\ req'[z].day <= today
                          /\ \A r \in Rule : Past(req'[z].rules[r])
      BY <2>1, <2>2 DEF TypeOK, Past
    <2>5. QED
      BY <1>12, <2>2, <2>3, <2>4 DEF Abort, rows, TypeOK, Past
  <1>13. ASSUME NEW s \in Slot, UpsertBudget(s) PROVE TypeOK'
    <2>1. /\ budgets' \subseteq Budget /\ upsert' \in [Slot -> Upsert]
          /\ \A t \in Slot : upsert'[t].pc = "found" => upsert'[t].text \in Text
          /\ asked' \in [Text -> SUBSET Nat] /\ requests' \in Nat
      BY <1>13, UpsertTypes
    <2>2. QED
      BY <1>13, <2>1 DEF UpsertBudget, TypeOK, Past
  <1>14. ASSUME NEW b \in budgets, DeleteBudget(b) PROVE TypeOK'
    BY <1>14 DEF DeleteBudget, Arrives, TypeOK, Past
  <1>15. ASSUME NEW g \in goals, NEW a \in Account, UpdateGoal(g, a) PROVE TypeOK'
    <2>1. [g EXCEPT !.account = a] \in Goal
      BY DEF Goal, TypeOK
    <2>2. goals' = (goals \ {g}) \cup {[g EXCEPT !.account = a]}
      BY <1>15 DEF UpdateGoal
    <2>3. goals' \subseteq Goal
      BY <2>1, <2>2 DEF TypeOK
    <2>4. requests' \in Nat
      BY <1>15 DEF UpdateGoal, Arrives, TypeOK
    <2>5. QED
      BY <1>15, <2>3, <2>4 DEF UpdateGoal, TypeOK, Past
  <1>16. ASSUME NEW g \in goals, DeleteGoal(g) PROVE TypeOK'
    BY <1>16 DEF DeleteGoal, Arrives, TypeOK, Past
  <1>17. CASE Tick
    <2>1. today' \in Days /\ today' > today /\ today' \in Nat
      BY <1>17, DaysAssumption DEF Tick
    <2>2. \A r \in Rule : /\ rule[r] # None => rule[r].last \in Nat
                          /\ \A s \in Slot :
                               req[s].rules[r] # None => req[s].rules[r].last \in Nat
      BY DEF TypeOK, Request, RuleRow
    <2>3. \A s \in Slot : req[s].day \in Nat
      BY DEF TypeOK, Request
    <2>4. \A r \in Rule : Past(rule[r])' /\ \A s \in Slot : Past(req[s].rules[r])'
      BY <1>17, <2>1, <2>2 DEF Tick, rows, TypeOK, Past
    <2>5. \A s \in Slot : req'[s].day <= today'
      BY <1>17, <2>1, <2>3 DEF Tick, TypeOK
    <2>6. QED
      BY <1>17, <2>1, <2>4, <2>5 DEF Tick, rows, TypeOK
  <1>18. CASE UNCHANGED vars
    BY <1>18 DEF vars, rows, TypeOK, Past
  <1>19. QED
    BY <1>1, <1>2, <1>3, <1>4, <1>5, <1>6, <1>7, <1>8, <1>9, <1>10, <1>11, <1>12,
       <1>13, <1>14, <1>15, <1>16, <1>17, <1>18, MaterializeTypeOK DEF Next

\* The ledger keeps its types, and no watermark gets ahead of the calendar.
THEOREM TypeCorrect == Spec => []TypeOK
  <1>1. QED
    BY InitTypeOK, NextTypeOK, PTL DEF Spec

-----------------------------------------------------------------------------
(* Rows and the accounts they refer to. *)

\* A rule keeps its account, and is loaded only once it was made: what a
\* reader makes is for the account of the rule as it is now.
Steady ==
  /\ NothingDangles
  /\ \A r \in Rule : tried[r] = {} =>
       rule[r] = None /\ \A s \in Slot : req[s].rules[r] = None
  /\ \A r \in Rule, s \in Slot : rule[r] # None /\ req[s].rules[r] # None =>
       req[s].rules[r].account = rule[r].account

LEMMA InitSteady == Init => Steady
  BY DEF Init, Steady, NothingDangles, Idle

LEMMA MaterializeSteady ==
  ASSUME TypeOK, Steady, NEW s \in Slot, Materialize(s)
  PROVE  Steady'
  <1>1. PICK due : Commits(s, due)
    BY MaterializeFacts
  <1>2. /\ UNCHANGED <<account, goals, tried>> /\ req' = [req EXCEPT ![s] = Idle]
    BY DEF Materialize
  <1>3. \A r \in Rule : rule[r] \in RuleRow \cup {None}
    BY DEF TypeOK
  <1>4. \A r \in Rule : /\ rule'[r] = None <=> rule[r] = None
                        /\ rule[r] # None => rule'[r].account = rule[r].account
    <2>1. SUFFICES ASSUME NEW r \in Rule
                   PROVE  /\ rule'[r] = None <=> rule[r] = None
                          /\ rule[r] # None => rule'[r].account = rule[r].account
      OBVIOUS
    <2>2. CASE due[r] = {}
      BY <1>1, <2>2 DEF Commits
    <2>3. CASE due[r] # {}
      <3>1. rule'[r] = [rule[r] EXCEPT !.last = Watermark(due[r])] /\ rule[r] \in RuleRow
        BY <1>1, <2>3 DEF Commits
      <3>2. Watermark(due[r]) \in Nat
        BY <1>1, <2>3 DEF Commits
      <3>3. rule'[r] \in RuleRow /\ rule'[r].account = rule[r].account
        BY <3>1, <3>2 DEF RuleRow
      <3>4. QED
        BY <3>1, <3>3, NoneAssumption
    <2>4. QED
      BY <2>2, <2>3
  <1>5. \A z \in Slot : req'[z] = req[z] \/ req'[z] = Idle
    BY <1>2 DEF TypeOK
  <1>6. \A x \in transactions' : Open(x.account)
    <2>1. SUFFICES ASSUME NEW r \in Some(due), NEW x \in MadeRows(req[s].rules[r], r, due[r])
                   PROVE  Open(x.account)
      BY <1>1, <1>2 DEF Commits, Steady, NothingDangles
    <2>2. r \in Rule /\ req[s].rules[r] # None /\ rule[r] # None
      BY <1>1, NoneAssumption DEF Commits, Some
    <2>3. x.account = rule[r].account
      BY <2>2 DEF MadeRows, Steady
    <2>4. QED
      BY <2>2, <2>3 DEF Steady, NothingDangles
  <1>7. QED
    BY <1>2, <1>4, <1>5, <1>6 DEF Steady, NothingDangles, Open, Idle

LEMMA NextSteady == TypeOK /\ Steady /\ [Next]_vars => Steady'
  <1> SUFFICES ASSUME TypeOK, Steady, [Next]_vars PROVE Steady'
    OBVIOUS
  <1>1. ASSUME NEW a \in Account, CreateAccount(a) PROVE Steady'
    BY <1>1 DEF CreateAccount, Steady, NothingDangles, Open, TypeOK
  <1>2. ASSUME NEW a \in Account, DeleteAccount(a) PROVE Steady'
    <2>1. /\ account' = [account EXCEPT ![a] = "gone"]
          /\ transactions' = {x \in transactions : x.account # a}
          /\ goals' = {x \in goals : x.account # a}
          /\ rule' = [r \in Rule |->
               IF rule[r] # None /\ rule[r].account = a THEN None ELSE rule[r]]
          /\ UNCHANGED <<req, tried>>
      BY <1>2 DEF DeleteAccount, Without
    <2>2. \A b \in Account : b # a /\ Open(b) => Open(b)'
      BY <2>1 DEF Open, TypeOK
    <2>3. \A x \in transactions : x.account \in Account
      BY DEF TypeOK, Transaction
    <2>4. \A g \in goals : g.account \in Account
      BY DEF TypeOK, Goal
    <2>5. \A r \in Rule : rule[r] # None => rule[r].account \in Account
      BY DEF TypeOK, RuleRow
    <2>6. NothingDangles'
      BY <2>1, <2>2, <2>3, <2>4, <2>5 DEF Steady, NothingDangles
    <2>7. QED
      BY <2>1, <2>6 DEF Steady
  <1>3. ASSUME NEW a \in Account, CreateTransaction(a) PROVE Steady'
    BY <1>3 DEF CreateTransaction, Plain, Steady, NothingDangles, Open
  <1>4. ASSUME NEW a \in Account, CreateGoal(a) PROVE Steady'
    BY <1>4 DEF CreateGoal, Steady, NothingDangles, Open
  <1>5. ASSUME NEW a \in Account, NEW b \in Account, CreateTransfer(a, b) PROVE Steady'
    BY <1>5 DEF CreateTransfer, Plain, Steady, NothingDangles, Open
  <1>6. ASSUME NEW x \in transactions, UpdateTransaction(x) PROVE Steady'
    <2>1. \A amount \in Amounts : [x EXCEPT !.amount = amount].account = x.account
      BY DEF Transaction, TypeOK
    <2>2. QED
      BY <1>6, <2>1 DEF UpdateTransaction, Steady, NothingDangles, Open
  <1>7. ASSUME NEW x \in transactions, DeleteTransaction(x) PROVE Steady'
    BY <1>7 DEF DeleteTransaction, Steady, NothingDangles, Open
  <1>8. ASSUME NEW r \in Rule, NEW a \in Account, CreateRule(r, a) PROVE Steady'
    <2>1. PICK first \in Starts, t \in Terms, amount \in Amounts :
            /\ rule' = [rule EXCEPT ![r] =
                 [account |-> a, amount |-> amount, frequency |-> t.frequency,
                  first |-> first, end |-> t.end, last |-> 0]]
            /\ tried' = [tried EXCEPT ![r] = {t.frequency}]
      BY <1>8 DEF CreateRule
    <2>2. rule'[r].account = a /\ tried'[r] # {}
      BY <2>1 DEF TypeOK
    <2>3. \A q \in Rule \ {r} : rule'[q] = rule[q] /\ tried'[q] = tried[q]
      BY <2>1 DEF TypeOK
    <2>4. \A s \in Slot : req[s].rules[r] = None
      BY <1>8 DEF CreateRule, Steady
    <2>5. Open(a) /\ UNCHANGED <<account, transactions, goals, req>>
      BY <1>8 DEF CreateRule
    <2>6. QED
      BY <2>2, <2>3, <2>4, <2>5 DEF Steady, NothingDangles, Open
  <1>9. ASSUME NEW r \in Rule, UpdateRule(r) PROVE Steady'
    <2>1. PICK t \in Terms :
            /\ rule' = [rule EXCEPT ![r].frequency = t.frequency,
                                    ![r].end = IF t.end = 0 THEN @ ELSE t.end]
            /\ tried' = [tried EXCEPT ![r] = @ \cup {t.frequency}]
      BY <1>9 DEF UpdateRule
    <2>2. rule[r] \in RuleRow
      BY <1>9 DEF UpdateRule, TypeOK
    <2>3. rule'[r].account = rule[r].account /\ tried'[r] # {}
      BY <2>1, <2>2 DEF RuleRow, TypeOK
    <2>4. \A q \in Rule \ {r} : rule'[q] = rule[q] /\ tried'[q] = tried[q]
      BY <2>1 DEF TypeOK
    <2>5. rule[r] # None /\ UNCHANGED <<account, transactions, goals, req>>
      BY <1>9 DEF UpdateRule
    <2>6. QED
      BY <2>3, <2>4, <2>5 DEF Steady, NothingDangles, Open
  <1>10. ASSUME NEW r \in Rule, DeleteRule(r) PROVE Steady'
    BY <1>10 DEF DeleteRule, Steady, NothingDangles, Open, TypeOK
  <1>11. ASSUME NEW s \in Slot, LoadRules(s) PROVE Steady'
    <2>1. /\ req' = [req EXCEPT ![s] = [pc |-> "rules", rules |-> rule, day |-> today]]
          /\ UNCHANGED <<account, transactions, goals, rule, tried>>
      BY <1>11 DEF LoadRules, rows
    <2>2. \A z \in Slot : req'[z].rules = rule \/ req'[z] = req[z]
      BY <2>1 DEF TypeOK
    <2>3. QED
      BY <2>1, <2>2 DEF Steady, NothingDangles, Open
  <1>12. ASSUME NEW s \in Slot, Abort(s) PROVE Steady'
    <2>1. /\ req' = [req EXCEPT ![s] = Idle]
          /\ UNCHANGED <<account, transactions, goals, rule, tried>>
      BY <1>12 DEF Abort, rows
    <2>2. \A z \in Slot : req'[z] = Idle \/ req'[z] = req[z]
      BY <2>1 DEF TypeOK
    <2>3. QED
      BY <2>1, <2>2 DEF Steady, NothingDangles, Open, Idle
  <1>13. ASSUME NEW s \in Slot, UpsertBudget(s) PROVE Steady'
    BY <1>13 DEF UpsertBudget, Steady, NothingDangles, Open
  <1>14. ASSUME NEW b \in budgets, DeleteBudget(b) PROVE Steady'
    BY <1>14 DEF DeleteBudget, Steady, NothingDangles, Open
  <1>15. ASSUME NEW g \in goals, NEW a \in Account, UpdateGoal(g, a) PROVE Steady'
    <2>1. [g EXCEPT !.account = a].account = a
      BY DEF Goal, TypeOK
    <2>2. QED
      BY <1>15, <2>1 DEF UpdateGoal, Steady, NothingDangles, Open
  <1>16. ASSUME NEW g \in goals, DeleteGoal(g) PROVE Steady'
    BY <1>16 DEF DeleteGoal, Steady, NothingDangles, Open
  <1>17. CASE Tick
    BY <1>17 DEF Tick, rows, Steady, NothingDangles, Open
  <1>18. CASE UNCHANGED vars
    BY <1>18 DEF vars, rows, Steady, NothingDangles, Open
  <1>19. QED
    BY <1>1, <1>2, <1>3, <1>4, <1>5, <1>6, <1>7, <1>8, <1>9, <1>10, <1>11, <1>12,
       <1>13, <1>14, <1>15, <1>16, <1>17, <1>18, MaterializeSteady DEF Next

\* No transaction, rule or goal refers to an account that has gone, whatever
\* readers were half way when it went.
THEOREM ReferencesKept == Spec => []NothingDangles
  <1>1. Steady => NothingDangles
    BY DEF Steady
  <1>2. QED
    BY <1>1, InitTypeOK, NextTypeOK, InitSteady, NextSteady, PTL DEF Spec

-----------------------------------------------------------------------------
(* Budgets. *)

\* The limits that are left are those asked for, because ids and categories tell
\* the budgets apart, an id still to be used is nowhere yet, and a budget still
\* there has the limit it was found with or one it was given since.
Found(s) == upsert[s].pc = "found"
Finds(s, b) == upsert[s].seen # None /\ upsert[s].seen.id = b.id
Unused(id) == /\ id < requests
              /\ \A b \in budgets : b.id # id
              /\ \A t \in Slot : upsert[t].seen # None => upsert[t].seen.id # id
Numbered ==
  /\ \A b \in budgets : b.id < requests
  /\ \A s \in Slot : upsert[s].seen # None => upsert[s].seen.id < requests
  /\ \A s \in Slot : Found(s) => Unused(upsert[s].id)
  /\ \A s, t \in Slot : Found(s) /\ Found(t) /\ s # t => upsert[s].id # upsert[t].id
Single == \A b, c \in budgets : b.id = c.id \/ b.category = c.category => b = c
Followed == \A s \in Slot, b \in budgets : Finds(s, b) =>
              b.limit \in {upsert[s].seen.limit} \cup upsert[s].since
Budgeted == Numbered /\ Single /\ Followed /\ LastLimitStays

\* A request that finds a budget, or none, takes a new id.
LEMMA FindBudgeted ==
  ASSUME TypeOK, Budgeted, NEW s \in Slot, FindBudget(s)
  PROVE  Budgeted'
  <1>1. PICK text \in Text, limit \in Limits, seen \in budgets \cup {None} :
          upsert' = [upsert EXCEPT ![s] =
            [pc |-> "found", id |-> requests, text |-> text, limit |-> limit,
             seen |-> seen, since |-> {}]]
    BY DEF FindBudget
  <1>2. /\ upsert'[s].pc = "found" /\ upsert'[s].id = requests
        /\ upsert'[s].seen = seen /\ upsert'[s].since = {}
        /\ \A t \in Slot \ {s} : upsert'[t] = upsert[t]
    BY <1>1 DEF TypeOK
  <1>3. requests \in Nat /\ requests' = requests + 1 /\ UNCHANGED <<budgets, asked>>
    BY DEF FindBudget, Arrives, TypeOK
  <1>4. /\ \A b \in budgets : b.id \in Nat
        /\ \A t \in Slot : /\ upsert[t].id \in Nat
                           /\ upsert[t].seen # None => upsert[t].seen.id \in Nat
    BY NoneAssumption DEF TypeOK, Budget, Upsert
  <1>5. /\ \A b \in budgets : b.id < requests
        /\ \A t \in Slot : upsert[t].seen # None => upsert[t].seen.id < requests
        /\ \A t \in Slot : Found(t) => Unused(upsert[t].id)
        /\ \A t, z \in Slot : Found(t) /\ Found(z) /\ t # z => upsert[t].id # upsert[z].id
    BY DEF Budgeted, Numbered
  <1>6. \A t \in Slot : upsert'[t].seen # None =>
          \/ \E b \in budgets : upsert'[t].seen.id = b.id
          \/ upsert[t].seen # None /\ upsert'[t].seen.id = upsert[t].seen.id
    BY <1>2
  <1>7. \A t \in Slot : upsert'[t].seen # None => upsert'[t].seen.id < requests
    BY <1>5, <1>6
  <1>8. Numbered'
    <2>1. \A b \in budgets' : b.id < requests'
      BY <1>3, <1>4, <1>5
    <2>2. \A t \in Slot : upsert'[t].seen # None => upsert'[t].seen.id < requests'
      BY <1>3, <1>4, <1>6, <1>7
    <2>3. ASSUME NEW t \in Slot, Found(t)' PROVE Unused(upsert[t].id)'
      <3>1. CASE t = s
        BY <1>2, <1>3, <1>4, <1>5, <1>6, <1>7, <3>1 DEF Unused
      <3>2. CASE t # s
        <4>1. Found(t) /\ upsert'[t].id = upsert[t].id
          BY <1>2, <2>3, <3>2 DEF Found
        <4>2. Unused(upsert[t].id)
          BY <1>5, <4>1
        <4>3. QED
          BY <1>2, <1>3, <1>4, <1>6, <4>1, <4>2 DEF Unused
      <3>3. QED
        BY <3>1, <3>2
    <2>4. ASSUME NEW t \in Slot, NEW z \in Slot, Found(t)', Found(z)', t # z
          PROVE  upsert'[t].id # upsert'[z].id
      <3>1. \A y \in Slot : Found(y) => upsert[y].id < requests
        BY <1>5 DEF Unused
      <3>2. QED
        BY <1>2, <1>3, <1>4, <1>5, <2>4, <3>1 DEF Found
    <2>5. QED
      BY <2>1, <2>2, <2>3, <2>4 DEF Numbered
  <1>9. Single' /\ LastLimitStays'
    BY <1>3 DEF Budgeted, Single, LastLimitStays
  <1>10. Followed'
    <2>1. SUFFICES ASSUME NEW t \in Slot, NEW b \in budgets, Finds(t, b)'
                   PROVE  b.limit \in {upsert'[t].seen.limit} \cup upsert'[t].since
      BY <1>3 DEF Followed
    <2>2. CASE t = s
      <3>1. seen \in budgets /\ seen.id = b.id
        BY <1>2, <2>1, <2>2 DEF Finds
      <3>2. seen = b
        BY <3>1 DEF Budgeted, Single
      <3>3. QED
        BY <1>2, <2>2, <3>2
    <2>3. CASE t # s
      BY <1>2, <2>1, <2>3 DEF Budgeted, Followed, Finds
    <2>4. QED
      BY <2>2, <2>3
  <1>11. QED
    BY <1>8, <1>9, <1>10 DEF Budgeted

\* One that inserts uses its id, and leaves the limit it asks for.
LEMMA InsertBudgeted ==
  ASSUME TypeOK, Budgeted, NEW s \in Slot, InsertBudget(s)
  PROVE  Budgeted'
  <1>1. PICK u, new : /\ u = upsert[s]
                      /\ new = [id |-> u.id, category |-> Stripped[u.text],
                                limit |-> u.limit]
    OBVIOUS
  <1>2. /\ u.pc = "found" /\ ~Taken(new.category)
        /\ budgets' = budgets \cup {new}
        /\ asked' = [asked EXCEPT ![new.category] = {u.limit}]
        /\ upsert' = [upsert EXCEPT ![s] = NoUpsert]
        /\ requests' = requests
    BY <1>1 DEF InsertBudget
  <1>3. new.category \in Text /\ new.id = u.id /\ new.limit = u.limit
    BY <1>1, <1>2, TextAssumption DEF TypeOK
  <1>4. /\ upsert'[s].pc = "idle" /\ upsert'[s].seen = None
        /\ \A t \in Slot \ {s} : upsert'[t] = upsert[t]
    BY <1>2 DEF TypeOK, NoUpsert
  <1>5. /\ u.id < requests
        /\ \A b \in budgets : b.id # u.id
        /\ \A t \in Slot : upsert[t].seen # None => upsert[t].seen.id # u.id
        /\ \A t \in Slot : Found(t) /\ t # s => upsert[t].id # u.id
    BY <1>1, <1>2 DEF Budgeted, Numbered, Unused, Found
  <1>6. Numbered'
    <2>1. \A b \in budgets' : b.id < requests'
      BY <1>2, <1>3, <1>5 DEF Budgeted, Numbered
    <2>2. \A t \in Slot : upsert'[t].seen # None => upsert'[t].seen.id < requests'
      BY <1>2, <1>4 DEF Budgeted, Numbered
    <2>3. ASSUME NEW t \in Slot, Found(t)' PROVE Unused(upsert[t].id)'
      <3>1. t # s /\ Found(t) /\ upsert'[t].id = upsert[t].id
        BY <1>4, <2>3 DEF Found
      <3>2. Unused(upsert[t].id) /\ upsert[t].id # u.id
        BY <1>5, <3>1 DEF Budgeted, Numbered
      <3>3. QED
        BY <1>2, <1>3, <1>4, <3>1, <3>2 DEF Unused
    <2>4. \A t, z \in Slot : Found(t)' /\ Found(z)' /\ t # z => upsert'[t].id # upsert'[z].id
      BY <1>4 DEF Budgeted, Numbered, Found
    <2>5. QED
      BY <2>1, <2>2, <2>3, <2>4 DEF Numbered
  <1>7. Single'
    BY <1>2, <1>3, <1>5 DEF Budgeted, Single, Taken
  <1>8. Followed'
    <2>1. SUFFICES ASSUME NEW t \in Slot, NEW b \in budgets', Finds(t, b)'
                   PROVE  b.limit \in {upsert'[t].seen.limit} \cup upsert'[t].since
      BY DEF Followed
    <2>2. t # s /\ Finds(t, b) /\ upsert'[t] = upsert[t]
      BY <1>4, <2>1 DEF Finds
    <2>3. b \in budgets
      BY <1>2, <1>3, <1>5, <2>2 DEF Finds
    <2>4. QED
      BY <2>2, <2>3 DEF Budgeted, Followed
  <1>9. LastLimitStays'
    <2>1. \A b \in budgets : b.category # new.category
      BY <1>2 DEF Taken
    <2>2. \A b \in budgets : asked'[b.category] = asked[b.category]
      BY <1>2, <2>1 DEF TypeOK, Budget
    <2>3. new.limit \in asked'[new.category]
      BY <1>2, <1>3 DEF TypeOK
    <2>4. QED
      BY <1>2, <2>2, <2>3 DEF Budgeted, LastLimitStays
  <1>10. QED
    BY <1>6, <1>7, <1>8, <1>9 DEF Budgeted

\* One that updates leaves the limit it asks for, or one given since.
LEMMA UpdateBudgeted ==
  ASSUME TypeOK, Budgeted, NEW s \in Slot, UpdateBudget(s)
  PROVE  Budgeted'
  <1>1. PICK u, b, limit : Updates(s, u, b, limit)
    BY UpdateFacts
  <1>2. PICK c : c = [b EXCEPT !.limit = limit]
    OBVIOUS
  <1>3. /\ u = upsert[s] /\ u.seen # None /\ b \in budgets /\ b.id = u.seen.id
        /\ limit \in Left(u, b.limit) /\ budgets' = (budgets \ {b}) \cup {c}
        /\ asked' = [asked EXCEPT ![b.category] =
                       IF limit = u.limit THEN {limit} ELSE u.since]
        /\ requests' = requests
    BY <1>1, <1>2 DEF Updates
  <1>4. b \in Budget /\ b.category \in Text
    BY <1>3 DEF TypeOK, Budget
  <1>5. c.id = b.id /\ c.category = b.category /\ c.limit = limit
    BY <1>2, <1>4 DEF Budget
  <1>6. /\ upsert'[s] = NoUpsert
        /\ \A t \in Slot \ {s} : upsert'[t] =
             IF Finds(t, b) THEN [upsert[t] EXCEPT !.since = @ \cup {limit}] ELSE upsert[t]
    BY <1>1 DEF Updates, Finds
  <1>7. \A t \in Slot \ {s} :
          /\ upsert'[t].pc = upsert[t].pc /\ upsert'[t].id = upsert[t].id
          /\ upsert'[t].seen = upsert[t].seen
          /\ upsert'[t].since = IF Finds(t, b) THEN upsert[t].since \cup {limit}
                                ELSE upsert[t].since
    BY <1>6 DEF TypeOK, Upsert
  <1>8. upsert'[s].pc = "idle" /\ upsert'[s].seen = None
    BY <1>6 DEF NoUpsert
  <1>9. Numbered'
    <2>1. \A x \in budgets' : x.id < requests'
      BY <1>3, <1>5 DEF Budgeted, Numbered
    <2>2. \A t \in Slot : upsert'[t].seen # None => upsert'[t].seen.id < requests'
      BY <1>3, <1>7, <1>8 DEF Budgeted, Numbered
    <2>3. ASSUME NEW t \in Slot, Found(t)' PROVE Unused(upsert[t].id)'
      <3>1. t # s /\ Found(t) /\ upsert'[t].id = upsert[t].id
        BY <1>7, <1>8, <2>3 DEF Found
      <3>2. Unused(upsert[t].id)
        BY <3>1 DEF Budgeted, Numbered
      <3>3. \A z \in Slot : upsert'[z].seen # None => upsert'[z].seen.id # upsert[t].id
        BY <1>7, <1>8, <3>2 DEF Unused
      <3>4. \A x \in budgets' : x.id # upsert[t].id
        BY <1>3, <1>5, <3>2 DEF Unused
      <3>5. QED
        BY <1>3, <3>1, <3>2, <3>3, <3>4 DEF Unused
    <2>4. ASSUME NEW t \in Slot, NEW z \in Slot, Found(t)', Found(z)', t # z
          PROVE  upsert'[t].id # upsert'[z].id
      <3>1. t # s /\ z # s /\ Found(t) /\ Found(z)
        BY <1>7, <1>8, <2>4 DEF Found
      <3>2. upsert'[t].id = upsert[t].id /\ upsert'[z].id = upsert[z].id
        BY <1>7, <3>1
      <3>3. QED
        BY <2>4, <3>1, <3>2 DEF Budgeted, Numbered
    <2>5. QED
      BY <2>1, <2>2, <2>3, <2>4 DEF Numbered
  <1>10. \A x \in budgets \ {b} : x.id # b.id /\ x.category # b.category
    BY <1>3 DEF Budgeted, Single
  <1>11. Single'
    BY <1>3, <1>5, <1>10 DEF Budgeted, Single
  <1>12. Followed'
    <2>1. SUFFICES ASSUME NEW t \in Slot, NEW x \in budgets', Finds(t, x)'
                   PROVE  x.limit \in {upsert'[t].seen.limit} \cup upsert'[t].since
      BY DEF Followed
    <2>2. t # s /\ Finds(t, x) /\ upsert'[t].seen = upsert[t].seen
      BY <1>7, <1>8, <2>1 DEF Finds
    <2>3. CASE x = c
      BY <1>5, <1>7, <2>2, <2>3 DEF Finds
    <2>4. CASE x \in budgets
      BY <1>7, <2>2, <2>4 DEF Budgeted, Followed
    <2>5. QED
      BY <1>3, <2>3, <2>4
  <1>13. LastLimitStays'
    <2>1. \A x \in budgets \ {b} : asked'[x.category] = asked[x.category]
      BY <1>3, <1>10 DEF TypeOK, Budget
    <2>2. asked'[b.category] = IF limit = u.limit THEN {limit} ELSE u.since
      BY <1>3, <1>4 DEF TypeOK
    <2>3. limit # u.limit => u.limit = u.seen.limit /\ limit = b.limit
      BY <1>3 DEF Left
    <2>4. b.limit \in {u.seen.limit} \cup u.since
      BY <1>3 DEF Budgeted, Followed, Finds
    <2>5. limit \in asked'[b.category]
      BY <2>2, <2>3, <2>4
    <2>6. QED
      BY <1>3, <1>5, <2>1, <2>5 DEF Budgeted, LastLimitStays
  <1>14. QED
    BY <1>9, <1>11, <1>12, <1>13 DEF Budgeted

\* What only drops requests or budgets, or counts on, keeps it all.
LEMMA FewerBudgeted ==
  ASSUME TypeOK, Budgeted, budgets' \subseteq budgets, asked' = asked,
         requests' \in {requests, requests + 1},
         \A t \in Slot : upsert'[t] = upsert[t] \/ upsert'[t] = NoUpsert
  PROVE  Budgeted'
  <1>1. NoUpsert.seen = None /\ NoUpsert.pc = "idle"
    BY DEF NoUpsert
  <1>2. \A n \in Nat : n < requests => n < requests'
    BY DEF TypeOK
  <1>3. /\ \A b \in budgets : b.id \in Nat
        /\ \A t \in Slot : /\ upsert[t].id \in Nat
                           /\ upsert[t].seen # None => upsert[t].seen.id \in Nat
    BY NoneAssumption DEF TypeOK, Budget, Upsert
  <1>4. \A t \in Slot : upsert'[t].seen # None \/ Found(t)' => upsert'[t] = upsert[t]
    BY <1>1 DEF Found
  <1>5. \A b \in budgets' : b.id < requests'
    BY <1>2, <1>3 DEF Budgeted, Numbered
  <1>6. \A t \in Slot : upsert'[t].seen # None => upsert'[t].seen.id < requests'
    BY <1>2, <1>3, <1>4 DEF Budgeted, Numbered
  <1>7. ASSUME NEW t \in Slot, Found(t)' PROVE Unused(upsert[t].id)'
    <2>1. Found(t) /\ upsert'[t] = upsert[t]
      BY <1>4, <1>7 DEF Found
    <2>2. Unused(upsert[t].id)
      BY <2>1 DEF Budgeted, Numbered
    <2>3. QED
      BY <1>2, <1>3, <1>4, <2>1, <2>2 DEF Unused
  <1>8. \A t, z \in Slot : Found(t)' /\ Found(z)' /\ t # z => upsert'[t].id # upsert'[z].id
    BY <1>4 DEF Budgeted, Numbered, Found
  <1>9. Numbered'
    BY <1>5, <1>6, <1>7, <1>8 DEF Numbered
  <1>10. Followed'
    <2>1. SUFFICES ASSUME NEW t \in Slot, NEW b \in budgets', Finds(t, b)'
                   PROVE  b.limit \in {upsert'[t].seen.limit} \cup upsert'[t].since
      BY DEF Followed
    <2>2. Finds(t, b) /\ upsert'[t] = upsert[t]
      BY <1>4, <2>1 DEF Finds
    <2>3. QED
      BY <2>2 DEF Budgeted, Followed
  <1>11. Single' /\ LastLimitStays'
    BY DEF Budgeted, Single, LastLimitStays
  <1>12. QED
    BY <1>9, <1>10, <1>11 DEF Budgeted

LEMMA NextBudgeted == TypeOK /\ Budgeted /\ [Next]_vars => Budgeted'
  <1> SUFFICES ASSUME TypeOK, Budgeted, [Next]_vars PROVE Budgeted'
    OBVIOUS
  <1>1. ASSUME NEW s \in Slot, UpsertBudget(s) PROVE Budgeted'
    <2>1. CASE DropUpsert(s)
      <3>1. \A t \in Slot : upsert'[t] = upsert[t] \/ upsert'[t] = NoUpsert
        BY <2>1 DEF DropUpsert, TypeOK
      <3>2. UNCHANGED <<budgets, asked, requests>>
        BY <2>1 DEF DropUpsert
      <3>3. QED
        BY <3>1, <3>2, FewerBudgeted
    <2>2. QED
      BY <1>1, <2>1, FindBudgeted, InsertBudgeted, UpdateBudgeted DEF UpsertBudget
  <1>2. CASE Next /\ \A s \in Slot : ~UpsertBudget(s)
    <2>1. /\ budgets' \subseteq budgets /\ upsert' = upsert /\ asked' = asked
          /\ requests' \in {requests, requests + 1}
      BY <1>2 DEF Next, CreateAccount, DeleteAccount, CreateTransaction, CreateGoal,
        CreateTransfer, UpdateTransaction, DeleteTransaction, CreateRule, UpdateRule,
        DeleteRule, LoadRules, Materialize, Abort, DeleteBudget, UpdateGoal, DeleteGoal,
        Tick, rows, Arrives
    <2>2. QED
      BY <2>1, FewerBudgeted
  <1>3. CASE UNCHANGED vars
    BY <1>3, FewerBudgeted DEF vars, rows
  <1>4. QED
    BY <1>1, <1>2, <1>3

\* The limit of a category's budget is the one last asked for, or one that was
\* given while a request that asked for what it had found was open: whatever
\* requests overlap and however the category is typed.
THEOREM LimitsStay == Spec => []LastLimitStays
  <1>1. Init => Budgeted
    BY DEF Init, Budgeted, Numbered, Single, Followed, LastLimitStays, Found, Finds, NoUpsert
  <1>2. Budgeted => LastLimitStays
    BY DEF Budgeted
  <1>3. QED
    BY <1>1, <1>2, InitTypeOK, NextTypeOK, NextBudgeted, PTL DEF Spec

-----------------------------------------------------------------------------
(* Copies of an occurrence. *)

\* Ahead of its watermark a rule has made a day at most as often as readers
\* wrote over each other's; behind it, once more.  A reader whose watermark is
\* still the current one makes only days ahead of it.
Counted(r) ==
  /\ \A d \in Nat : Copies(r, d) <= 1 + laps[r]
  /\ \A d \in Nat : (IF rule[r] = None THEN tried[r] = {} ELSE d > rule[r].last) =>
       Copies(r, d) <= laps[r]
AllCounted == \A r \in Rule : Counted(r)

LEMMA CopiesType == TypeOK => \A r \in Rule : \A d \in Nat : Copies(r, d) \in Nat
  BY DEF Copies, TypeOK

LEMMA MaterializeCounted ==
  ASSUME TypeOK, Steady, AllCounted, NEW s \in Slot, Materialize(s)
  PROVE  AllCounted'
  <1>1. PICK due : Commits(s, due)
    BY MaterializeFacts
  <1>2. UNCHANGED tried
    BY DEF Materialize
  <1>3. SUFFICES ASSUME NEW r \in Rule PROVE Counted(r)'
    BY DEF AllCounted
  <1>4. /\ DOMAIN made'[r] = DOMAIN made[r] \cup due[r]
        /\ \A d \in DOMAIN made'[r] :
             made'[r][d] = Copies(r, d) + IF d \in due[r] THEN 1 ELSE 0
        /\ laps'[r] = laps[r] +
             IF due[r] # {} /\ rule[r].last # req[s].rules[r].last THEN 1 ELSE 0
    BY <1>1 DEF Commits
  <1>5. \A d \in Nat : Copies(r, d) \in Nat /\ laps[r] \in Nat
    BY CopiesType DEF TypeOK
  <1>6. \A d \in Nat : Copies(r, d)' = Copies(r, d) + IF d \in due[r] THEN 1 ELSE 0
    BY <1>4, <1>5 DEF Copies
  <1>7. /\ \A d \in Nat : Copies(r, d) <= 1 + laps[r]
        /\ \A d \in Nat : (IF rule[r] = None THEN tried[r] = {} ELSE d > rule[r].last) =>
             Copies(r, d) <= laps[r]
    BY <1>3 DEF AllCounted, Counted
  <1>8. CASE due[r] = {}
    <2>1. rule'[r] = rule[r] /\ laps'[r] = laps[r]
      <3>1. rule'[r] = rule[r]
        BY <1>1, <1>8 DEF Commits
      <3>2. laps[r] \in Nat
        BY DEF TypeOK
      <3>3. QED
        BY <1>4, <1>8, <3>1, <3>2
    <2>2. \A d \in Nat : Copies(r, d)' = Copies(r, d)
      BY <1>5, <1>6, <1>8
    <2>3. QED
      BY <1>2, <1>7, <2>1, <2>2 DEF Counted
  <1>9. CASE due[r] # {}
    <2>1. PICK w : w = Watermark(due[r])
      OBVIOUS
    <2>2. /\ rule[r] \in RuleRow /\ req[s].rules[r] \in RuleRow
          /\ w \in due[r] /\ \A d \in due[r] : d <= w
          /\ due[r] \subseteq Nat /\ w \in Nat
          /\ \A d \in due[r] : d > req[s].rules[r].last
          /\ rule'[r] = [rule[r] EXCEPT !.last = w]
      BY <1>1, <1>9, <2>1 DEF Commits
    <2>3. /\ rule'[r] \in RuleRow /\ rule'[r].last = w /\ rule[r] # None /\ rule'[r] # None
          /\ rule[r].last \in Nat /\ req[s].rules[r].last \in Nat
      BY <2>2, NoneAssumption DEF RuleRow
    <2>4. CASE rule[r].last = req[s].rules[r].last
      <3>1. laps'[r] = laps[r]
        BY <1>4, <1>5, <2>4
      <3>2. \A d \in due[r] : Copies(r, d) <= laps[r]
        BY <1>7, <2>2, <2>3, <2>4
      <3>3. \A d \in Nat : Copies(r, d)' <= 1 + laps'[r]
        BY <1>5, <1>6, <1>7, <3>1, <3>2
      <3>4. \A d \in Nat : d > w => Copies(r, d)' <= laps'[r]
        <4>1. SUFFICES ASSUME NEW d \in Nat, d > w PROVE Copies(r, d)' <= laps'[r]
          OBVIOUS
        <4>2. d \notin due[r] /\ d > rule[r].last
          BY <2>2, <2>3, <2>4, <4>1
        <4>3. QED
          BY <1>5, <1>6, <1>7, <2>3, <3>1, <4>2
      <3>5. QED
        BY <2>3, <3>3, <3>4 DEF Counted
    <2>5. CASE rule[r].last # req[s].rules[r].last
      <3>1. laps'[r] = laps[r] + 1
        BY <1>4, <1>9, <2>5
      <3>2. \A d \in Nat : Copies(r, d)' <= 1 + laps'[r]
        BY <1>5, <1>6, <1>7, <3>1
      <3>3. \A d \in Nat : d > w => Copies(r, d)' <= laps'[r]
        <4>1. SUFFICES ASSUME NEW d \in Nat, d > w PROVE Copies(r, d)' <= laps'[r]
          OBVIOUS
        <4>2. d \notin due[r]
          BY <2>2, <4>1
        <4>3. QED
          BY <1>5, <1>6, <1>7, <3>1, <4>2
      <3>4. QED
        BY <2>3, <3>2, <3>3 DEF Counted
    <2>6. QED
      BY <2>4, <2>5
  <1>10. QED
    BY <1>8, <1>9

\* Other steps make nothing, and leave a rule its watermark, take it away, or
\* make one that was not there before.
Onward(r) ==
  \/ rule'[r] = rule[r] /\ tried'[r] = tried[r]
  \/ rule[r] # None /\ rule'[r] # None /\ rule'[r].last = rule[r].last
  \/ rule'[r] = None /\ tried'[r] # {}
  \/ rule[r] = None /\ tried[r] = {}

LEMMA RestCounted ==
  ASSUME TypeOK, AllCounted, UNCHANGED <<made, laps>>, \A r \in Rule : Onward(r)
  PROVE  AllCounted'
  <1>1. SUFFICES ASSUME NEW r \in Rule PROVE Counted(r)'
    BY DEF AllCounted
  <1>2. \A d \in Nat : Copies(r, d)' = Copies(r, d)
    BY DEF Copies
  <1>3. Counted(r) /\ laps'[r] = laps[r] /\ Onward(r)
    BY <1>1 DEF AllCounted
  <1>4. \A d \in Nat : Copies(r, d)' <= 1 + laps'[r]
    BY <1>2, <1>3 DEF Counted
  <1>5. ASSUME NEW d \in Nat, IF rule'[r] = None THEN tried'[r] = {} ELSE d > rule'[r].last
        PROVE  Copies(r, d)' <= laps'[r]
    <2>1. IF rule[r] = None THEN tried[r] = {} ELSE d > rule[r].last
      BY <1>3, <1>5 DEF Onward
    <2>2. QED
      BY <1>2, <1>3, <2>1 DEF Counted
  <1>6. QED
    BY <1>4, <1>5 DEF Counted

LEMMA NextCounted == TypeOK /\ Steady /\ AllCounted /\ [Next]_vars => AllCounted'
  <1> SUFFICES ASSUME TypeOK, Steady, AllCounted, [Next]_vars PROVE AllCounted'
    OBVIOUS
  <1>1. ASSUME NEW r \in Rule, NEW a \in Account, CreateRule(r, a) PROVE AllCounted'
    <2>1. tried[r] = {} /\ rule[r] = None /\ UNCHANGED <<made, laps>>
      BY <1>1 DEF CreateRule, Steady
    <2>2. \A q \in Rule \ {r} : rule'[q] = rule[q] /\ tried'[q] = tried[q]
      BY <1>1 DEF CreateRule, TypeOK
    <2>3. \A q \in Rule : Onward(q)
      BY <2>1, <2>2 DEF Onward
    <2>4. QED
      BY <2>1, <2>3, RestCounted
  <1>2. ASSUME NEW r \in Rule, UpdateRule(r) PROVE AllCounted'
    <2>1. PICK t \in Terms :
            /\ rule' = [rule EXCEPT ![r].frequency = t.frequency,
                                    ![r].end = IF t.end = 0 THEN @ ELSE t.end]
            /\ tried' = [tried EXCEPT ![r] = @ \cup {t.frequency}]
      BY <1>2 DEF UpdateRule
    <2>2. rule[r] \in RuleRow /\ rule[r] # None /\ UNCHANGED <<made, laps>>
      BY <1>2 DEF UpdateRule, TypeOK
    <2>3. t.frequency \in Frequency /\ t.end \in Nat
      BY TermsAssumption
    <2>4. rule'[r] \in RuleRow /\ rule'[r].last = rule[r].last /\ tried'[r] # {}
      BY <2>1, <2>2, <2>3 DEF RuleRow, TypeOK
    <2>5. \A q \in Rule \ {r} : rule'[q] = rule[q] /\ tried'[q] = tried[q]
      BY <2>1 DEF TypeOK
    <2>6. rule'[r] # None
      BY <2>4, NoneAssumption
    <2>7. \A q \in Rule : Onward(q)
      BY <2>2, <2>4, <2>5, <2>6 DEF Onward
    <2>8. QED
      BY <2>2, <2>7, RestCounted
  <1>3. ASSUME NEW r \in Rule, DeleteRule(r) PROVE AllCounted'
    <2>1. tried[r] # {} /\ tried' = tried /\ UNCHANGED <<made, laps>>
      BY <1>3 DEF DeleteRule, Steady
    <2>2. rule'[r] = None /\ \A q \in Rule \ {r} : rule'[q] = rule[q]
      BY <1>3 DEF DeleteRule, TypeOK
    <2>3. \A q \in Rule : Onward(q)
      BY <2>1, <2>2 DEF Onward
    <2>4. QED
      BY <2>1, <2>3, RestCounted
  <1>4. ASSUME NEW a \in Account, DeleteAccount(a) PROVE AllCounted'
    <2>1. \A r \in Rule : rule'[r] = rule[r] \/ (rule'[r] = None /\ rule[r] # None)
      BY <1>4 DEF DeleteAccount, Without, TypeOK
    <2>2. \A r \in Rule : rule[r] # None => tried[r] # {}
      BY Zenon DEF Steady
    <2>3. UNCHANGED <<made, laps, tried>>
      BY <1>4 DEF DeleteAccount
    <2>4. \A q \in Rule : Onward(q)
      BY <2>1, <2>2, <2>3 DEF Onward
    <2>5. QED
      BY <2>3, <2>4, RestCounted
  <1>5. CASE UNCHANGED <<made, laps, tried, rule>>
    <2>1. \A q \in Rule : Onward(q)
      BY <1>5 DEF Onward
    <2>2. QED
      BY <1>5, <2>1, RestCounted
  <1>6. CASE Next
    <2>1. SUFFICES ASSUME \A r \in Rule, a \in Account : ~CreateRule(r, a),
                          \A r \in Rule : ~UpdateRule(r) /\ ~DeleteRule(r),
                          \A a \in Account : ~DeleteAccount(a),
                          \A s \in Slot : ~Materialize(s)
                   PROVE  AllCounted'
      BY <1>1, <1>2, <1>3, <1>4, MaterializeCounted
    <2>2. UNCHANGED <<made, laps, tried, rule>>
      BY <1>6, <2>1 DEF Next, CreateAccount, CreateTransaction, CreateGoal,
        CreateTransfer, UpdateTransaction, DeleteTransaction, LoadRules, Abort,
        UpsertBudget, DeleteBudget, UpdateGoal, DeleteGoal, Tick, rows
    <2>3. QED
      BY <1>5, <2>2
  <1>7. CASE UNCHANGED vars
    BY <1>5, <1>7 DEF vars, rows
  <1>8. QED
    BY <1>6, <1>7

\* Of an occurrence there are at most as many copies as readers that wrote
\* over the watermark of another, and one.
THEOREM CopiesKeptBounded == Spec => []CopiesBounded
  <1>1. Init => AllCounted
    <2>1. SUFFICES ASSUME Init, NEW r \in Rule PROVE Counted(r)
      BY DEF AllCounted
    <2>2. /\ made[r] = [d \in {} |-> 0] /\ laps[r] = 0
      BY <2>1 DEF Init
    <2>3. \A d \in Nat : Copies(r, d) = 0
      BY <2>2 DEF Copies
    <2>4. QED
      BY <2>2, <2>3 DEF Counted
  <1>2. TypeOK /\ AllCounted => CopiesBounded
    <2>1. SUFFICES ASSUME TypeOK, AllCounted, NEW r \in Rule, NEW d \in DOMAIN made[r]
                   PROVE  made[r][d] <= 1 + laps[r]
      BY DEF CopiesBounded
    <2>2. d \in Nat /\ Counted(r)
      BY <2>1 DEF TypeOK, AllCounted
    <2>3. QED
      BY <2>1, <2>2 DEF Counted, Copies
  <1>3. QED
    BY <1>1, <1>2, InitTypeOK, NextTypeOK, InitSteady, NextSteady, NextCounted, PTL DEF Spec

-----------------------------------------------------------------------------
(* Days of a schedule. *)

\* A rule keeps the day it starts on.  Behind its watermark, and behind the one
\* a reader has loaded, which may be an older one, nothing is left out that all
\* the frequencies it has had share; both have one of those frequencies.
NoneLeftOut(q, had, copies) == \A d \in Nat :
  d <= q.last /\ (\A f \in had : d \in Occurrences(q.first, f)) =>
    d \in DOMAIN copies /\ copies[d] >= 1
Kept(q, had, copies) == q.frequency \in had /\ NoneLeftOut(q, had, copies)
MadeFrom(first, had, copies) ==
  \A d \in DOMAIN copies : \E f \in had : d \in Occurrences(first, f)
Scheduled(r) ==
  /\ tried[r] = {} => DOMAIN made[r] = {}
  /\ tried[r] \subseteq {t.frequency : t \in Terms}
  /\ \A d \in DOMAIN made[r] : d <= today
  /\ rule[r] # None => /\ Kept(rule[r], tried[r], made[r])
                       /\ rule[r].first \in Starts
                       /\ MadeFrom(rule[r].first, tried[r], made[r])
  /\ \A s \in Slot : req[s].rules[r] # None =>
       /\ Kept(req[s].rules[r], tried[r], made[r])
       /\ rule[r] # None => req[s].rules[r].first = rule[r].first
AllScheduled == \A r \in Rule : Scheduled(r)

\* A step that makes nothing for r, and at most deletes it or loads it.
Spares(r) ==
  /\ made'[r] = made[r] /\ tried'[r] = tried[r]
  /\ rule'[r] = rule[r] \/ rule'[r] = None
  /\ \A s \in Slot : \/ req'[s].rules[r] = None \/ req'[s].rules[r] = req[s].rules[r]
                     \/ req'[s].rules[r] = rule[r] /\ rule'[r] = rule[r]

LEMMA SparedScheduled ==
  ASSUME TypeOK, TypeOK', NEW r \in Rule, Scheduled(r), Spares(r), today <= today'
  PROVE  Scheduled(r)'
  <1>1. made'[r] = made[r] /\ tried'[r] = tried[r]
    BY DEF Spares
  <1>2. \A d \in DOMAIN made'[r] : d <= today'
    <2>1. today \in Nat /\ today' \in Nat /\ DOMAIN made[r] \subseteq Nat
      BY DaysAssumption DEF TypeOK
    <2>2. QED
      BY <1>1, <2>1 DEF Scheduled
  <1>3. rule'[r] # None => /\ Kept(rule'[r], tried'[r], made'[r]) /\ rule'[r].first \in Starts
                           /\ MadeFrom(rule'[r].first, tried'[r], made'[r])
    BY <1>1 DEF Spares, Scheduled
  <1>4. \A s \in Slot : req'[s].rules[r] # None =>
          /\ Kept(req'[s].rules[r], tried'[r], made'[r])
          /\ rule'[r] # None => req'[s].rules[r].first = rule'[r].first
    BY <1>1 DEF Spares, Scheduled
  <1>5. QED
    BY <1>1, <1>2, <1>3, <1>4 DEF Scheduled

LEMMA CreatedScheduled ==
  ASSUME TypeOK, Steady, AllScheduled, NEW r \in Rule, NEW a \in Account, CreateRule(r, a)
  PROVE  Scheduled(r)'
  <1>1. PICK first \in Starts, t \in Terms, amount \in Amounts :
          /\ rule' = [rule EXCEPT ![r] =
               [account |-> a, amount |-> amount, frequency |-> t.frequency,
                first |-> first, end |-> t.end, last |-> 0]]
          /\ tried' = [tried EXCEPT ![r] = {t.frequency}]
    BY DEF CreateRule
  <1>2. UNCHANGED <<made, req, today>> /\ tried[r] = {}
    BY DEF CreateRule
  <1>3. DOMAIN made'[r] = {}
    BY <1>2 DEF AllScheduled, Scheduled
  <1>4. \A s \in Slot : req'[s].rules[r] = None
    BY <1>2 DEF Steady
  <1>5. PICK q : q = rule'[r]
    OBVIOUS
  <1>6. /\ q.first = first /\ q.last = 0 /\ q.frequency = t.frequency
        /\ tried'[r] = {t.frequency}
    BY <1>1, <1>5 DEF TypeOK
  <1>7. NoneLeftOut(q, tried'[r], made'[r])
    <2>1. SUFFICES ASSUME NEW d \in Nat, d <= q.last,
                          \A f \in tried'[r] : d \in Occurrences(q.first, f)
                   PROVE  FALSE
      BY DEF NoneLeftOut
    <2>2. d = 0 /\ d \in Occurrences(first, t.frequency)
      BY <1>6, <2>1
    <2>3. first \in Date /\ t.frequency \in Frequency
      BY StartsAssumption, TermsAssumption
    <2>4. QED
      BY <2>2, <2>3, OccurrenceType DEF Occurrences
  <1>8. Kept(q, tried'[r], made'[r]) /\ MadeFrom(q.first, tried'[r], made'[r])
    BY <1>3, <1>6, <1>7 DEF Kept, MadeFrom
  <1>9. QED
    BY <1>3, <1>4, <1>5, <1>6, <1>8 DEF Scheduled

\* More frequencies leave fewer days that all of them share.
LEMMA UpdatedScheduled ==
  ASSUME TypeOK, AllScheduled, NEW r \in Rule, UpdateRule(r)
  PROVE  Scheduled(r)'
  <1>1. PICK t \in Terms :
          /\ rule' = [rule EXCEPT ![r].frequency = t.frequency,
                                  ![r].end = IF t.end = 0 THEN @ ELSE t.end]
          /\ tried' = [tried EXCEPT ![r] = @ \cup {t.frequency}]
    BY DEF UpdateRule
  <1>2. /\ UNCHANGED <<made, req, today>> /\ rule[r] # None /\ rule[r] \in RuleRow
        /\ Scheduled(r)
    BY DEF UpdateRule, TypeOK, AllScheduled
  <1>3. PICK p, q : p = rule[r] /\ q = rule'[r]
    OBVIOUS
  <1>4. q.first = p.first /\ q.last = p.last /\ q.frequency = t.frequency
    BY <1>1, <1>2, <1>3 DEF RuleRow, TypeOK
  <1>5. tried'[r] = tried[r] \cup {t.frequency}
    BY <1>1 DEF TypeOK
  <1>6. PICK m, h : m = made[r] /\ h = tried'[r]
    OBVIOUS
  <1>7. \A x : Kept(x, tried[r], m) => NoneLeftOut(x, h, m)
    BY <1>5, <1>6 DEF Kept, NoneLeftOut
  <1>8. /\ Kept(p, tried[r], m) /\ p.first \in Starts /\ MadeFrom(p.first, tried[r], m)
        /\ \A s \in Slot : req[s].rules[r] # None =>
             Kept(req[s].rules[r], tried[r], m) /\ req[s].rules[r].first = p.first
    BY <1>2, <1>3, <1>6 DEF Scheduled
  <1>9. Kept(q, h, m) /\ q.first \in Starts /\ MadeFrom(q.first, h, m)
    <2>1. NoneLeftOut(p, h, m)
      BY <1>7, <1>8
    <2>2. NoneLeftOut(q, h, m)
      BY <1>4, <2>1 DEF NoneLeftOut
    <2>3. MadeFrom(p.first, h, m)
      BY <1>5, <1>6, <1>8 DEF MadeFrom
    <2>4. QED
      BY <1>4, <1>5, <1>6, <1>8, <2>2, <2>3 DEF Kept
  <1>10. \A s \in Slot : req[s].rules[r] # None =>
           Kept(req[s].rules[r], h, m) /\ req[s].rules[r].first = q.first
    BY <1>4, <1>5, <1>6, <1>7, <1>8 DEF Kept
  <1>11. h # {} /\ h \subseteq {z.frequency : z \in Terms} /\ \A d \in DOMAIN m : d <= today
    BY <1>2, <1>5, <1>6 DEF Scheduled
  <1>12. made'[r] = m /\ tried'[r] = h /\ rule'[r] = q /\ UNCHANGED <<req, today>>
    BY <1>2, <1>3, <1>6
  <1>13. QED
    BY <1>9, <1>10, <1>11, <1>12 DEF Scheduled

\* What is due for a rule are occurrences, and up to the watermark all of them.
LEMMA DueIsDense ==
  ASSUME NEW q \in RuleRow, NEW day \in Nat, NEW due, due = DueOf(q, day), NEW w \in due
  PROVE  /\ due \subseteq Occurrences(q.first, q.frequency)
         /\ \A d \in Occurrences(q.first, q.frequency) : d <= w /\ q.last < d => d \in due
  <1>1. /\ q.first \in Date /\ q.frequency \in Frequency /\ q.end \in Nat /\ q.last \in Nat
    BY DEF RuleRow
  <1>2. due = DueOccurrences(q.first, q.frequency, q.end, q.last, day)
    BY NoneAssumption DEF DueOf
  <1>3. due \subseteq Occurrences(q.first, q.frequency)
    <2>1. \A n \in 0..MaxOccurrences : n \in Nat
      BY MaxOccurrencesAssumption
    <2>2. due \subseteq {Occurrence(q.first, q.frequency, n) : n \in 0..MaxOccurrences}
      BY <1>1, <1>2, DueAre
    <2>3. QED
      BY <2>1, <2>2 DEF Occurrences
  <1>4. QED
    BY <1>1, <1>2, <1>3, NoneBetween

LEMMA MaterializeScheduled ==
  ASSUME TypeOK, TypeOK', Steady, AllScheduled, NEW s \in Slot, Materialize(s)
  PROVE  AllScheduled'
  <1>1. PICK due : Commits(s, due)
    BY MaterializeFacts
  <1>2. UNCHANGED <<tried, today>> /\ req' = [req EXCEPT ![s] = Idle]
    BY DEF Materialize
  <1>3. SUFFICES ASSUME NEW r \in Rule PROVE Scheduled(r)'
    BY DEF AllScheduled
  <1>4. Scheduled(r)
    BY <1>3 DEF AllScheduled
  <1>5. \A z \in Slot : req'[z].rules[r] = None \/ req'[z].rules[r] = req[z].rules[r]
    <2>1. \A z \in Slot : req'[z] = Idle \/ req'[z] = req[z]
      BY <1>2 DEF TypeOK
    <2>2. Idle.rules[r] = None
      BY DEF Idle
    <2>3. QED
      BY <2>1, <2>2
  <1>6. PICK m, n : m = made[r] /\ n = made'[r]
    OBVIOUS
  <1>7. /\ DOMAIN m \subseteq Nat /\ m \in [DOMAIN m -> Nat]
        /\ n = [d \in DOMAIN m \cup due[r] |->
                  (IF d \in DOMAIN m THEN m[d] ELSE 0) + IF d \in due[r] THEN 1 ELSE 0]
    BY <1>1, <1>6 DEF Commits, TypeOK, Copies
  <1>8. CASE due[r] = {}
    <2>1. n = m
      <3>1. DOMAIN n = DOMAIN m /\ \A d \in DOMAIN m : n[d] = m[d] + 0 /\ m[d] \in Nat
        BY <1>7, <1>8
      <3>2. \A d \in DOMAIN m : n[d] = m[d]
        BY <3>1
      <3>3. n = [d \in DOMAIN m |-> n[d]] /\ m = [d \in DOMAIN m |-> m[d]]
        BY <1>7, <3>1
      <3>4. QED
        BY <3>2, <3>3
    <2>2. rule'[r] = rule[r]
      BY <1>1, <1>8 DEF Commits
    <2>3. Spares(r)
      BY <1>2, <1>5, <1>6, <2>1, <2>2 DEF Spares
    <2>4. today <= today'
      BY <1>2, DaysAssumption DEF TypeOK
    <2>5. QED
      BY <1>4, <2>3, <2>4, SparedScheduled
  <1>9. CASE due[r] # {}
    <2>1. PICK p, q, w, h : /\ p = rule[r] /\ q = req[s].rules[r]
                            /\ w = Watermark(due[r]) /\ h = tried[r]
      OBVIOUS
    <2>2. /\ p \in RuleRow /\ q \in RuleRow /\ w \in due[r] /\ due[r] \subseteq Nat
          /\ \A d \in due[r] : d <= w /\ d <= today
          /\ rule'[r] = [p EXCEPT !.last = w]
      BY <1>1, <1>9, <2>1 DEF Commits
    <2>3. PICK day \in Nat : due[r] = DueOf(q, day)
      BY <1>1, <2>1 DEF Commits
    <2>4. p # None /\ q # None
      BY <2>2, NoneAssumption
    <2>5. /\ Kept(p, h, m) /\ p.first \in Starts /\ MadeFrom(p.first, h, m)
          /\ Kept(q, h, m) /\ q.first = p.first
      BY <1>4, <1>6, <2>1, <2>4 DEF Scheduled
    <2>6. /\ \A d \in DOMAIN m : d \in DOMAIN n /\ n[d] >= m[d] /\ m[d] \in Nat /\ n[d] \in Nat
          /\ \A d \in due[r] : d \in DOMAIN n /\ n[d] >= 1
          /\ DOMAIN n = DOMAIN m \cup due[r]
      BY <1>7
    <2>7. \A x : Kept(x, h, m) => Kept(x, h, n)
      <3>1. SUFFICES ASSUME NEW x, Kept(x, h, m) PROVE Kept(x, h, n)
        OBVIOUS
      <3>2. \A d \in DOMAIN m : m[d] >= 1 => n[d] >= 1
        BY <2>6
      <3>3. QED
        BY <2>6, <3>1, <3>2 DEF Kept, NoneLeftOut
    <2>8. /\ due[r] \subseteq Occurrences(q.first, q.frequency)
          /\ \A d \in Occurrences(q.first, q.frequency) : d <= w /\ q.last < d => d \in due[r]
      BY <2>2, <2>3, DueIsDense
    <2>9. PICK x : x = rule'[r]
      OBVIOUS
    <2>10. x.first = p.first /\ x.last = w /\ x.frequency = p.frequency
      BY <2>2, <2>9 DEF RuleRow
    <2>11. NoneLeftOut(x, h, n)
      <3>1. SUFFICES ASSUME NEW d \in Nat, d <= w, \A f \in h : d \in Occurrences(q.first, f)
                     PROVE  d \in DOMAIN n /\ n[d] >= 1
        BY <2>5, <2>10 DEF NoneLeftOut
      <3>2. CASE d <= q.last
        <4>1. Kept(q, h, n)
          BY <2>5, <2>7
        <4>2. QED
          BY <3>1, <3>2, <4>1 DEF Kept, NoneLeftOut
      <3>3. CASE q.last < d
        <4>1. d \in due[r]
          BY <2>5, <2>8, <3>1, <3>3 DEF Kept
        <4>2. QED
          BY <2>6, <4>1
      <3>4. QED
        BY <2>2, <3>2, <3>3 DEF RuleRow
    <2>12. MadeFrom(x.first, h, n)
      BY <2>5, <2>6, <2>8, <2>10 DEF MadeFrom, Kept
    <2>13. Kept(x, h, n) /\ x.first \in Starts
      BY <2>5, <2>10, <2>11 DEF Kept
    <2>14. \A z \in Slot : req'[z].rules[r] # None =>
             Kept(req'[z].rules[r], h, n) /\ req'[z].rules[r].first = x.first
      <3>1. SUFFICES ASSUME NEW z \in Slot, req'[z].rules[r] # None
                     PROVE  Kept(req'[z].rules[r], h, n) /\ req'[z].rules[r].first = x.first
        OBVIOUS
      <3>2. PICK y : y = req[z].rules[r]
        OBVIOUS
      <3>3. req'[z].rules[r] = y /\ y # None
        BY <1>5, <3>1, <3>2
      <3>4. Kept(y, h, m) /\ y.first = p.first
        BY <1>4, <1>6, <2>1, <2>4, <3>2, <3>3 DEF Scheduled
      <3>5. QED
        BY <2>7, <2>10, <3>3, <3>4
    <2>15. \A d \in DOMAIN n : d <= today
      BY <1>4, <1>6, <2>2, <2>6 DEF Scheduled
    <2>16. h # {} /\ h \subseteq {t.frequency : t \in Terms}
      BY <1>4, <2>1, <2>5 DEF Scheduled, Kept
    <2>17. made'[r] = n /\ tried'[r] = h /\ rule'[r] = x /\ today' = today
      BY <1>2, <1>6, <2>1, <2>9
    <2>18. QED
      BY <2>12, <2>13, <2>14, <2>15, <2>16, <2>17 DEF Scheduled
  <1>10. QED
    BY <1>8, <1>9

LEMMA NextScheduled ==
  TypeOK /\ TypeOK' /\ Steady /\ AllScheduled /\ [Next]_vars => AllScheduled'
  <1> SUFFICES ASSUME TypeOK, TypeOK', Steady, AllScheduled, [Next]_vars PROVE AllScheduled'
    OBVIOUS
  <1>1. today \in Nat /\ today' \in Nat
    BY DaysAssumption DEF TypeOK
  <1>2. ASSUME \A r \in Rule : Spares(r), today <= today' PROVE AllScheduled'
    BY <1>2, SparedScheduled DEF AllScheduled
  <1>3. ASSUME NEW r \in Rule, Scheduled(r)', \A q \in Rule \ {r} : Spares(q), today' = today
        PROVE  AllScheduled'
    BY <1>1, <1>3, SparedScheduled DEF AllScheduled
  <1>4. ASSUME NEW r \in Rule, NEW a \in Account, CreateRule(r, a) PROVE AllScheduled'
    <2>1. \A q \in Rule \ {r} : Spares(q)
      BY <1>4 DEF CreateRule, Spares, TypeOK
    <2>2. today' = today
      BY <1>4 DEF CreateRule
    <2>3. QED
      BY <1>3, <1>4, <2>1, <2>2, CreatedScheduled
  <1>5. ASSUME NEW r \in Rule, UpdateRule(r) PROVE AllScheduled'
    <2>1. \A q \in Rule \ {r} : Spares(q)
      BY <1>5 DEF UpdateRule, Spares, TypeOK
    <2>2. today' = today
      BY <1>5 DEF UpdateRule
    <2>3. QED
      BY <1>3, <1>5, <2>1, <2>2, UpdatedScheduled
  <1>6. ASSUME NEW a \in Account, DeleteAccount(a) PROVE AllScheduled'
    BY <1>1, <1>2, <1>6 DEF DeleteAccount, Without, Spares, TypeOK
  <1>7. ASSUME NEW r \in Rule, DeleteRule(r) PROVE AllScheduled'
    BY <1>1, <1>2, <1>7 DEF DeleteRule, Spares, TypeOK
  <1>8. ASSUME NEW s \in Slot, LoadRules(s) PROVE AllScheduled'
    <2>1. /\ req' = [req EXCEPT ![s] = [pc |-> "rules", rules |-> rule, day |-> today]]
          /\ UNCHANGED <<today, rule, made, tried>>
      BY <1>8 DEF LoadRules, rows
    <2>2. \A z \in Slot : req'[z].rules = rule \/ req'[z] = req[z]
      BY <2>1 DEF TypeOK
    <2>3. QED
      BY <1>1, <1>2, <2>1, <2>2 DEF Spares
  <1>9. ASSUME NEW s \in Slot, Abort(s) PROVE AllScheduled'
    <2>1. /\ req' = [req EXCEPT ![s] = Idle]
          /\ UNCHANGED <<today, rule, made, tried>>
      BY <1>9 DEF Abort, rows
    <2>2. \A z \in Slot : req'[z] = Idle \/ req'[z] = req[z]
      BY <2>1 DEF TypeOK
    <2>3. QED
      BY <1>1, <1>2, <2>1, <2>2 DEF Spares, Idle
  <1>10. CASE UNCHANGED <<rule, req, made, tried>> /\ today <= today'
    BY <1>2, <1>10 DEF Spares
  <1>11. CASE Tick
    BY <1>1, <1>10, <1>11 DEF Tick, rows
  <1>12. ASSUME \/ \E a \in Account : \/ CreateAccount(a)
                                      \/ CreateTransaction(a) \/ CreateGoal(a)
                \/ \E a, b \in Account : CreateTransfer(a, b)
                \/ \E x \in transactions : UpdateTransaction(x) \/ DeleteTransaction(x)
                \/ \E s \in Slot : UpsertBudget(s)
                \/ \E b \in budgets : DeleteBudget(b)
                \/ \E g \in goals, a \in Account : UpdateGoal(g, a)
                \/ \E g \in goals : DeleteGoal(g)
         PROVE  AllScheduled'
    <2>1. UNCHANGED <<rule, req, made, tried, today>>
      BY <1>12 DEF CreateAccount, CreateTransaction, CreateGoal, CreateTransfer,
        UpdateTransaction, DeleteTransaction, UpsertBudget, DeleteBudget, UpdateGoal,
        DeleteGoal
    <2>2. QED
      BY <1>1, <1>10, <2>1
  <1>13. CASE UNCHANGED vars
    BY <1>1, <1>10, <1>13 DEF vars, rows
  <1>14. QED
    BY <1>4, <1>5, <1>6, <1>7, <1>8, <1>9, <1>11, <1>12, <1>13, MaterializeScheduled DEF Next

\* The days made are days of a schedule the rule has had, and none that all of
\* them share is left out behind the watermark, whatever readers overlap, are
\* delayed over midnight or loaded the rule before it changed.
THEOREM MadeAsScheduled == Spec => []AsScheduled
  <1>1. Init => AllScheduled
    BY DEF Init, AllScheduled, Scheduled, Idle
  <1>2. TypeOK /\ AllScheduled => AsScheduled
    <2>1. SUFFICES ASSUME TypeOK, AllScheduled, NEW r \in Rule, rule[r] # None
                   PROVE  /\ \A d \in DOMAIN made[r] :
                               \E f \in tried[r] : d \in Calendars[rule[r].first][f]
                          /\ \A d \in Calendars[rule[r].first][rule[r].frequency] :
                               /\ d <= rule[r].last
                               /\ \A f \in tried[r] : d \in Calendars[rule[r].first][f]
                               => Copies(r, d) >= 1
      BY DEF AsScheduled
    <2>2. PICK q, h, m : q = rule[r] /\ h = tried[r] /\ m = made[r]
      OBVIOUS
    <2>3. /\ Kept(q, h, m) /\ q.first \in Starts /\ MadeFrom(q.first, h, m)
          /\ h \subseteq {t.frequency : t \in Terms} /\ \A d \in DOMAIN m : d <= today
      BY <2>1, <2>2 DEF AllScheduled, Scheduled
    <2>4. /\ q.first \in Date /\ Real(q.first) /\ Years \subseteq Nat \ {0}
          /\ today \in Nat /\ Covers(Years, q.first, today)
      BY <2>1, <2>3, StartsAssumption, YearsAssumption, DaysAssumption DEF Covers, TypeOK
    <2>5. \A f \in h : /\ f \in Frequency
                       /\ Calendars[q.first][f] = Schedule(q.first, f, Years)
      BY <2>3, TermsAssumption DEF Calendars
    <2>6. ASSUME NEW d \in DOMAIN m PROVE \E f \in h : d \in Calendars[q.first][f]
      <3>1. PICK f \in h : d \in Occurrences(q.first, f)
        BY <2>3, <2>6 DEF MadeFrom
      <3>2. d <= today
        BY <2>3, <2>6
      <3>3. PICK n \in Nat : d = Occurrence(q.first, f, n)
        BY <3>1 DEF Occurrences
      <3>4. d \in Schedule(q.first, f, Years)
        BY <2>4, <2>5, <3>2, <3>3, ScheduleHas
      <3>5. QED
        BY <2>5, <3>4
    <2>7. ASSUME NEW d \in Calendars[q.first][q.frequency], d <= q.last,
                 \A f \in h : d \in Calendars[q.first][f]
          PROVE  Copies(r, d) >= 1
      <3>1. \A f \in h : d \in Occurrences(q.first, f)
        BY <2>4, <2>5, <2>7, ScheduleIsOccurrences
      <3>2. d \in Nat
        <4>1. q.frequency \in h
          BY <2>3 DEF Kept
        <4>2. PICK n \in Nat : d = Occurrence(q.first, q.frequency, n)
          BY <3>1, <4>1 DEF Occurrences
        <4>3. QED
          BY <2>4, <2>5, <4>1, <4>2, OccurrenceType
      <3>3. d \in DOMAIN m /\ m[d] >= 1
        BY <2>3, <2>7, <3>1, <3>2 DEF Kept, NoneLeftOut
      <3>4. QED
        BY <2>2, <3>3 DEF Copies
    <2>8. QED
      BY <2>2, <2>6, <2>7
  <1>3. QED
    BY <1>1, <1>2, InitTypeOK, NextTypeOK, InitSteady, NextSteady, NextScheduled, PTL DEF Spec

-----------------------------------------------------------------------------
(* Transfers. *)

Legs(t) == {x \in transactions : x.transfer = t.id}
Whole(t) ==
  \/ Legs(t) = {}
  \/ /\ \A x \in Legs(t) : x.account \in {t.from, t.to} /\ Open(x.account)
     /\ \A a \in {t.from, t.to} : Open(a) => \E x \in Legs(t) : x.account = a
Even(t) == t.id \notin edited => \A x \in Legs(t) :
  x.amount = IF x.account = t.from THEN -t.amount ELSE t.amount

\* An id is new when a transfer gets it, and its accounts cannot open again:
\* the legs that are there are those of one transfer.
Paired ==
  /\ \A t \in sent : /\ t.id < requests /\ t.from # t.to
                     /\ account[t.from] # "unused" /\ account[t.to] # "unused"
                     /\ Whole(t) /\ Even(t)
  /\ \A x \in transactions : x.transfer # None => x.transfer < requests

LEMMA TransferTypes ==
  ASSUME TypeOK
  PROVE  /\ requests \in Nat
         /\ \A t \in sent : /\ t.id \in Nat /\ t.id # None /\ t.amount \in Int
                            /\ t.from \in Account /\ t.to \in Account
         /\ \A x \in transactions : /\ x.account \in Account /\ x.amount \in Int
                                    /\ x.transfer \in Nat \cup {None}
  BY NoneAssumption DEF TypeOK, Transaction, Transfer

\* Steps that come and go with rows that are of no transfer.
LEMMA KeepsPaired ==
  ASSUME TypeOK, Paired, UNCHANGED <<account, sent, edited>>,
         requests' \in Nat, requests' >= requests,
         \A x \in transactions' : x.transfer # None => x \in transactions,
         \A x \in transactions : x.transfer # None => x \in transactions'
  PROVE  Paired'
  <1>1. \A t \in sent : Legs(t)' = Legs(t)
    <2>1. SUFFICES ASSUME NEW t \in sent PROVE Legs(t)' = Legs(t)
      OBVIOUS
    <2>2. t.id # None
      BY TransferTypes
    <2>3. QED
      BY <2>2, Zenon DEF Legs
  <1>2. \A t \in sent : (Whole(t) => Whole(t)') /\ (Even(t) => Even(t)')
    BY <1>1 DEF Whole, Even, Open
  <1>3. \A t \in sent : t.id < requests'
    BY TransferTypes DEF Paired
  <1>4. \A x \in transactions' : x.transfer # None => x.transfer < requests'
    BY TransferTypes DEF Paired
  <1>5. QED
    BY <1>2, <1>3, <1>4 DEF Paired

LEMMA CreateTransferPaired ==
  ASSUME TypeOK, Paired, NEW a \in Account, NEW b \in Account, CreateTransfer(a, b)
  PROVE  Paired'
  <1>1. PICK amount \in {x \in Amounts : x > 0} :
          /\ transactions' = transactions \cup
               {Plain(a, -amount, requests), Plain(b, amount, requests)}
          /\ sent' = sent \cup {[id |-> requests, from |-> a, to |-> b, amount |-> amount]}
    BY DEF CreateTransfer
  <1>2. PICK x, y, u : /\ x = Plain(a, -amount, requests) /\ y = Plain(b, amount, requests)
                       /\ u = [id |-> requests, from |-> a, to |-> b, amount |-> amount]
    OBVIOUS
  <1>3. /\ a # b /\ Open(a) /\ Open(b) /\ requests' = requests + 1
        /\ UNCHANGED <<account, edited>>
    BY DEF CreateTransfer, Arrives
  <1>4. /\ x.account = a /\ x.transfer = requests /\ x.amount = -amount
        /\ y.account = b /\ y.transfer = requests /\ y.amount = amount
        /\ u.id = requests /\ u.from = a /\ u.to = b /\ u.amount = amount
    BY <1>2 DEF Plain
  <1>5. requests \in Nat /\ requests # None
    BY NoneAssumption DEF TypeOK
  <1>6. \A t \in sent : t.id \in Nat /\ t.id < requests
    BY TransferTypes DEF Paired
  <1>7. ASSUME NEW t \in sent
        PROVE  t.id < requests' /\ Whole(t)' /\ Even(t)'
    <2>1. t.id # requests /\ t.id < requests'
      BY <1>3, <1>5, <1>6
    <2>2. Legs(t)' = Legs(t)
      BY <1>1, <1>2, <1>4, <2>1 DEF Legs
    <2>3. Whole(t) /\ Even(t)
      BY DEF Paired
    <2>4. QED
      BY <1>3, <2>1, <2>2, <2>3 DEF Whole, Even, Open
  <1>8. \A z \in transactions : z.transfer # requests
    BY <1>5, TransferTypes DEF Paired
  <1>9. Legs(u)' = {x, y}
    BY <1>1, <1>2, <1>4, <1>8 DEF Legs
  <1>10. Whole(u)' /\ Even(u)' /\ u.id < requests'
    <2>1. Whole(u)'
      BY <1>3, <1>4, <1>9 DEF Whole, Open
    <2>2. Even(u)'
      BY <1>3, <1>4, <1>9 DEF Even
    <2>3. QED
      BY <1>3, <1>4, <1>5, <2>1, <2>2
  <1>11. account'[a] # "unused" /\ account'[b] # "unused"
    BY <1>3 DEF Open
  <1>12. \A z \in transactions' : z.transfer # None => z.transfer < requests'
    BY <1>1, <1>2, <1>3, <1>4, <1>5, TransferTypes DEF Paired
  <1>13. \A t \in sent' : t \in sent \/ t = u
    BY <1>1, <1>2
  <1>14. \A t \in sent' : /\ t.from # t.to
                         /\ account'[t.from] # "unused" /\ account'[t.to] # "unused"
    BY <1>3, <1>4, <1>11, <1>13 DEF Paired
  <1>15. QED
    BY <1>7, <1>10, <1>12, <1>13, <1>14 DEF Paired

LEMMA UpdateTransactionPaired ==
  ASSUME TypeOK, Paired, NEW x \in transactions, UpdateTransaction(x)
  PROVE  Paired'
  <1>1. PICK amount \in Amounts :
          transactions' = (transactions \ {x}) \cup {[x EXCEPT !.amount = amount]}
    BY DEF UpdateTransaction
  <1>2. PICK y : y = [x EXCEPT !.amount = amount]
    OBVIOUS
  <1>3. y.account = x.account /\ y.transfer = x.transfer
    BY <1>2 DEF TypeOK, Transaction
  <1>4. /\ UNCHANGED <<account, sent>> /\ requests' = requests + 1
        /\ edited' = edited \cup ({x.transfer} \ {None})
    BY DEF UpdateTransaction, Arrives
  <1>5. ASSUME NEW t \in sent PROVE Whole(t)' /\ Even(t)'
    <2>1. Whole(t) /\ Even(t) /\ t.id # None
      BY TransferTypes DEF Paired
    <2>2. CASE x.transfer # t.id
      <3>1. Legs(t)' = Legs(t)
        BY <1>1, <1>2, <1>3, <2>2 DEF Legs
      <3>2. QED
        BY <1>4, <2>1, <3>1 DEF Whole, Even, Open
    <2>3. CASE x.transfer = t.id
      <3>1. Legs(t)' = (Legs(t) \ {x}) \cup {y} /\ x \in Legs(t)
        BY <1>1, <1>2, <1>3, <2>3 DEF Legs
      <3>2. Whole(t)'
        BY <1>3, <1>4, <2>1, <3>1 DEF Whole, Open
      <3>3. t.id \in edited'
        BY <1>4, <2>1, <2>3
      <3>4. QED
        BY <1>4, <3>2, <3>3 DEF Even
    <2>4. QED
      BY <2>2, <2>3
  <1>6. \A t \in sent : t.id < requests'
    BY <1>4, TransferTypes DEF Paired
  <1>7. \A z \in transactions' : z.transfer # None => z.transfer < requests'
    <2>1. requests \in Nat
      BY DEF TypeOK
    <2>2. \A z \in transactions : z.transfer # None =>
            z.transfer \in Nat /\ z.transfer < requests
      BY TransferTypes DEF Paired
    <2>3. \A z \in transactions : z.transfer # None => z.transfer < requests'
      BY <1>4, <2>1, <2>2
    <2>4. \A z \in transactions' : z \in transactions \/ z = y
      BY <1>1, <1>2
    <2>5. QED
      BY <1>3, <2>3, <2>4
  <1>8. QED
    BY <1>4, <1>5, <1>6, <1>7 DEF Paired

LEMMA DeleteTransactionPaired ==
  ASSUME TypeOK, Paired, NEW x \in transactions, DeleteTransaction(x)
  PROVE  Paired'
  <1>1. /\ transactions' = transactions \ Pair(x) /\ UNCHANGED <<account, sent, edited>>
        /\ requests' = requests + 1
    BY DEF DeleteTransaction, Arrives
  <1>2. ASSUME NEW t \in sent PROVE Whole(t)' /\ Even(t)'
    <2>1. Whole(t) /\ Even(t) /\ t.id # None
      BY TransferTypes DEF Paired
    <2>2. CASE x.transfer = t.id
      <3>1. Legs(t)' = {}
        BY <1>1, <2>1, <2>2 DEF Legs, Pair
      <3>2. QED
        BY <3>1 DEF Whole, Even
    <2>3. CASE x.transfer # t.id
      <3>1. Legs(t)' = Legs(t)
        BY <1>1, <2>1, <2>3 DEF Legs, Pair
      <3>2. QED
        BY <1>1, <2>1, <3>1 DEF Whole, Even, Open
    <2>4. QED
      BY <2>2, <2>3
  <1>3. \A t \in sent : t.id < requests'
    BY <1>1, TransferTypes DEF Paired
  <1>4. \A z \in transactions' : z.transfer # None => z.transfer < requests'
    BY <1>1, TransferTypes DEF Paired
  <1>5. QED
    BY <1>1, <1>2, <1>3, <1>4 DEF Paired

LEMMA AccountsPaired ==
  ASSUME TypeOK, Paired, NEW a \in Account, CreateAccount(a) \/ DeleteAccount(a)
  PROVE  Paired'
  <1>1. CASE CreateAccount(a)
    <2>1. /\ account[a] = "unused" /\ account' = [account EXCEPT ![a] = "open"]
          /\ UNCHANGED <<transactions, sent, edited, requests>>
      BY <1>1 DEF CreateAccount
    <2>2. ASSUME NEW t \in sent
          PROVE  /\ account'[t.from] = account[t.from] /\ account'[t.to] = account[t.to]
                 /\ Whole(t)' /\ Even(t)'
      <3>1. t.from # a /\ t.to # a /\ Whole(t) /\ Even(t)
        BY <2>1 DEF Paired
      <3>2. account'[t.from] = account[t.from] /\ account'[t.to] = account[t.to]
        BY <2>1, <3>1, TransferTypes DEF TypeOK
      <3>3. Legs(t)' = Legs(t)
        BY <2>1 DEF Legs
      <3>4. QED
        BY <2>1, <3>1, <3>2, <3>3 DEF Whole, Even, Open
    <2>3. QED
      BY <2>1, <2>2 DEF Paired
  <1>2. CASE DeleteAccount(a)
    <2>1. /\ account' = [account EXCEPT ![a] = "gone"]
          /\ transactions' = {x \in transactions : x.account # a}
          /\ UNCHANGED <<sent, edited>> /\ requests' = requests + 1
      BY <1>2 DEF DeleteAccount, Without, Arrives
    <2>2. account'[a] = "gone" /\ \A b \in Account \ {a} : account'[b] = account[b]
      BY <2>1 DEF TypeOK
    <2>3. ASSUME NEW t \in sent PROVE Whole(t)' /\ Even(t)'
      <3>1. Whole(t) /\ Even(t) /\ t.from \in Account /\ t.to \in Account
        BY TransferTypes DEF Paired
      <3>2. Legs(t)' = {x \in Legs(t) : x.account # a}
        BY <2>1 DEF Legs
      <3>3. Even(t)'
        BY <2>1, <3>1, <3>2 DEF Even
      <3>4. \A b \in {t.from, t.to} : Open(b)' <=> Open(b) /\ b # a
        BY <2>2, <3>1 DEF Open
      <3>5. Whole(t)'
        BY <3>1, <3>2, <3>4 DEF Whole
      <3>6. QED
        BY <3>3, <3>5
    <2>4. \A t \in sent : t.id < requests'
      BY <2>1, TransferTypes DEF Paired
    <2>5. \A z \in transactions' : z.transfer # None => z.transfer < requests'
      BY <2>1, TransferTypes DEF Paired
    <2>6. \A t \in sent : account'[t.from] # "unused" /\ account'[t.to] # "unused"
      BY <2>2, TransferTypes DEF Paired
    <2>7. QED
      BY <2>1, <2>3, <2>4, <2>5, <2>6 DEF Paired
  <1>3. QED
    BY <1>1, <1>2

LEMMA NextPaired == TypeOK /\ Paired /\ [Next]_vars => Paired'
  <1> SUFFICES ASSUME TypeOK, Paired, [Next]_vars PROVE Paired'
    OBVIOUS
  <1>1. requests \in Nat
    BY DEF TypeOK
  <1>2. ASSUME NEW a \in Account, CreateTransaction(a) PROVE Paired'
    <2>1. \A amount \in Amounts : Plain(a, amount, None).transfer = None
      BY DEF Plain
    <2>2. QED
      BY <1>1, <1>2, <2>1, KeepsPaired DEF CreateTransaction, Arrives
  <1>3. ASSUME NEW s \in Slot, Materialize(s) PROVE Paired'
    <2>1. PICK due : Commits(s, due)
      BY <1>3, MaterializeFacts
    <2>2. \A r \in Rule : \A x \in MadeRows(req[s].rules[r], r, due[r]) : x.transfer = None
      BY DEF MadeRows
    <2>3. /\ \A x \in transactions' : x.transfer # None => x \in transactions
          /\ \A x \in transactions : x \in transactions'
      BY <2>1, <2>2 DEF Commits, Some
    <2>4. UNCHANGED <<account, sent, edited>>
      BY <1>3 DEF Materialize
    <2>5. requests' = requests \/ requests' = requests + 1
      BY <1>3 DEF Materialize, Arrives
    <2>6. QED
      BY <1>1, <2>3, <2>4, <2>5, KeepsPaired
  <1>4. CASE /\ UNCHANGED <<account, transactions, sent, edited>>
             /\ requests' = requests \/ requests' = requests + 1
    <2>1. requests' \in Nat /\ requests' >= requests
      BY <1>1, <1>4
    <2>2. QED
      BY <1>4, <2>1, KeepsPaired
  <1>5. CASE Next
    <2>1. SUFFICES ASSUME \A a \in Account : ~CreateAccount(a) /\ ~DeleteAccount(a),
                          \A a \in Account : ~CreateTransaction(a),
                          \A a, b \in Account : ~CreateTransfer(a, b),
                          \A x \in transactions : ~UpdateTransaction(x),
                          \A x \in transactions : ~DeleteTransaction(x),
                          \A s \in Slot : ~Materialize(s)
                   PROVE  Paired'
      BY <1>2, <1>3, AccountsPaired, CreateTransferPaired, UpdateTransactionPaired,
         DeleteTransactionPaired
    <2>2. /\ UNCHANGED <<account, transactions, sent, edited>>
          /\ requests' = requests \/ requests' = requests + 1
      BY <1>5, <2>1 DEF Next, CreateGoal, CreateRule, UpdateRule, DeleteRule, LoadRules,
        Abort, UpsertBudget, FindBudget, InsertBudget, UpdateBudget, DropUpsert,
        DeleteBudget, UpdateGoal, DeleteGoal, Tick, rows, Arrives
    <2>3. QED
      BY <1>4, <2>2
  <1>6. CASE UNCHANGED vars
    BY <1>4, <1>6 DEF vars, rows
  <1>7. QED
    BY <1>5, <1>6

\* Of a transfer there are both legs or neither but for accounts that have
\* gone, and what left one account came to the other until a leg was edited.
THEOREM TransfersKeptPaired == Spec => []TransfersPaired
  <1>1. Init => Paired
    BY DEF Init, Paired
  <1>2. Paired => TransfersPaired
    <2>1. SUFFICES ASSUME Paired, NEW t \in sent
                   PROVE  LET legs == {x \in transactions : x.transfer = t.id}
                          IN  /\ \/ legs = {}
                                 \/ {x.account : x \in legs}
                                      = {a \in {t.from, t.to} : Open(a)}
                              /\ t.id \notin edited => \A x \in legs :
                                   x.amount = IF x.account = t.from THEN -t.amount
                                              ELSE t.amount
      BY DEF TransfersPaired
    <2>2. Whole(t) /\ Even(t)
      BY <2>1 DEF Paired
    <2>3. Legs(t) = {} \/ {x.account : x \in Legs(t)} = {a \in {t.from, t.to} : Open(a)}
      BY <2>2 DEF Whole
    <2>4. QED
      BY <2>2, <2>3 DEF Legs, Even
  <1>3. QED
    BY <1>1, <1>2, InitTypeOK, NextTypeOK, NextPaired, PTL DEF Spec
=============================================================================
