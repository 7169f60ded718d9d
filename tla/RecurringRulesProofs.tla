------------------------ MODULE RecurringRulesProofs ------------------------
(***************************************************************************)
(* Theorems about RecurringRules, for any number of rules, readers, days   *)
(* and schedules.                                                          *)
(***************************************************************************)
EXTENDS RecurringRules, TLAPS

USE DaysAssumption, DatesAssumption, EndsAssumption, SplitsAssumption,
    NoneAssumption DEF Day

-----------------------------------------------------------------------------
(* Types. *)

\* A request that ends takes nothing along.
LEMMA IdleType == /\ Idle \in Request /\ Idle.mark = 0 /\ Idle.due = NoDue
                  /\ Idle.pc = "idle" /\ Idle.cur = None
  BY DEF Idle, Request, NoDue

LEMMA InitType == Init => TypeOK
<1> SUFFICES ASSUME Init PROVE TypeOK
  OBVIOUS
<1>1. ASSUME NEW r \in Rule PROVE rule[r] \in Row /\ rule[r].mark = 0
  <2>1. PICK f \in Frequency :
          rule[r] = [status |-> "unused", payer |-> FALSE, splits |-> FALSE,
                     freq |-> f, end |-> 0, mark |-> 0]
    BY DEF Init
  <2>2. 0 \in 0..MaxDay
    OBVIOUS
  <2> QED BY <2>1, <2>2 DEF Row
<1>2. rule \in [Rule -> Row]
  BY <1>1 DEF Init
<1>3. made \in [Rule -> [Day -> Nat]]
  BY DEF Init
<1>4. req \in [Slot -> Request]
  BY IdleType DEF Init
<1>5. \A s \in Slot : /\ req[s].mark = 0
                      /\ \A r \in Rule : req[s].due[r] = {}
  BY IdleType DEF Init, NoDue
<1>6. today = 0 /\ 0 \in 0..MaxDay /\ failures \in Nat
  BY DEF Init
<1>7. tried \in [Rule -> SUBSET Frequency]
  BY DEF Init
<1> QED BY <1>1, <1>2, <1>3, <1>4, <1>5, <1>6, <1>7 DEF TypeOK

LEMMA LoadType == ASSUME TypeOK, NEW s \in Slot, Load(s) PROVE TypeOK'
<1> DEFINE due == [r \in Rule |-> IF Generates(rule[r]) THEN Due(rule[r]) ELSE {}]
           new == [pc |-> "make", due |-> due, cur |-> None, mark |-> 0,
                   splits |-> {r \in Rule : rule[r].splits}]
<1>1. \A r \in Rule : due[r] \in SUBSET Day /\ \A d \in due[r] : d <= today
  BY DEF TypeOK, Row, Due
<1>2. new \in Request
  BY <1>1 DEF Request
<1>3. \/ req' = [req EXCEPT ![s] = Idle]
      \/ req' = [req EXCEPT ![s] = new]
  BY DEF Load
<1>4. req' \in [Slot -> Request]
  BY <1>2, <1>3, IdleType DEF TypeOK
<1>5. \A t \in Slot : /\ req'[t].mark <= today
                      /\ \A r \in Rule : \A d \in req'[t].due[r] : d <= today
  <2>1. CASE req' = [req EXCEPT ![s] = Idle]
    BY <2>1, IdleType DEF TypeOK, NoDue
  <2>2. CASE req' = [req EXCEPT ![s] = new]
    BY <1>1, <2>2 DEF TypeOK
  <2> QED BY <1>3, <2>1, <2>2
<1> QED BY <1>4, <1>5 DEF TypeOK, Load

LEMMA FailType == ASSUME TypeOK, NEW s \in Slot, Fail(s) PROVE TypeOK'
<1>1. req' \in [Slot -> Request]
  BY IdleType DEF TypeOK, Fail
<1>2. \A t \in Slot : /\ req'[t].mark <= today
                      /\ \A r \in Rule : \A d \in req'[t].due[r] : d <= today
  BY IdleType DEF TypeOK, Fail, NoDue
<1>3. failures' \in Nat
  BY DEF TypeOK, Fail
<1> QED BY <1>1, <1>2, <1>3 DEF TypeOK, Fail

LEMMA RowWithMark ==
  ASSUME NEW q \in Row, NEW m \in 0..MaxDay
  PROVE  LET p == [q EXCEPT !.mark = m]
         IN  p \in Row /\ p.mark = m /\ p.status = q.status /\ p.freq = q.freq
  BY DEF Row

\* Committing the watermark of a request keeps the rows typed.
LEMMA FlushedType ==
  ASSUME TypeOK, NEW s \in Slot
  PROVE  LET f == Flushed(req[s])
         IN  /\ f \in [Rule -> Row]
             /\ \A r \in Rule :
                  /\ f[r].mark = IF req[s].cur = r THEN req[s].mark ELSE rule[r].mark
                  /\ f[r].status = rule[r].status /\ f[r].freq = rule[r].freq
                  /\ f[r].mark <= today
<1>1. req[s] \in Request /\ req[s].mark <= today
  BY DEF TypeOK
<1>2. CASE req[s].cur = None
  BY <1>2 DEF TypeOK, Flushed
<1>3. CASE req[s].cur # None
  <2>1. req[s].cur \in Rule /\ req[s].mark \in 0..MaxDay
    BY <1>1, <1>3 DEF Request
  <2>2. Flushed(req[s]) = [rule EXCEPT ![req[s].cur].mark = req[s].mark]
    BY <1>3 DEF Flushed
  <2>3. rule[req[s].cur] \in Row
    BY <2>1 DEF TypeOK
  <2> DEFINE new == [rule[req[s].cur] EXCEPT !.mark = req[s].mark]
  <2>7. /\ new \in Row /\ new.mark = req[s].mark
        /\ new.status = rule[req[s].cur].status /\ new.freq = rule[req[s].cur].freq
    BY <2>1, <2>3, RowWithMark
  <2>4. Flushed(req[s]) = [rule EXCEPT ![req[s].cur] = new]
    BY <2>2
  <2> HIDE DEF new
  <2>5. rule \in [Rule -> Row] /\ \A r \in Rule : rule[r].mark <= today
    BY DEF TypeOK
  <2>6. Flushed(req[s]) \in [Rule -> Row]
    BY <2>1, <2>4, <2>5, <2>7
  <2>8. \A r \in Rule : Flushed(req[s])[r] = IF r = req[s].cur THEN new ELSE rule[r]
    BY <2>4, <2>5
  <2> QED BY <1>1, <2>5, <2>6, <2>7, <2>8
<1> QED BY <1>2, <1>3

\* What Make does, with its choices named.
LEMMA MakeStep ==
  ASSUME TypeOK, NEW s \in Slot, Make(s)
  PROVE  \E r \in NextRules(req[s]), d \in Day :
           /\ r \in Rule /\ First(d, req[s].due[r])
           /\ req[s].pc = "make"
           /\ made' = [made EXCEPT ![r][d] = @ + 1]
           /\ rule' = Flushed(req[s])
           /\ req' = [req EXCEPT ![s] = Made(req[s], r, d)]
           /\ UNCHANGED <<today, tried, failures>>
<1>1. NextRules(req[s]) \subseteq Rule
  BY DEF NextRules, Left
<1> QED BY <1>1 DEF Make

\* The request after one occurrence.
LEMMA MadeRequest ==
  ASSUME NEW q \in Request, NEW r \in Rule, NEW d \in Day
  PROVE  /\ Made(q, r, d) \in Request
         /\ Made(q, r, d).due = [q.due EXCEPT ![r] = q.due[r] \ {d}]
         /\ Made(q, r, d).mark = d /\ Made(q, r, d).cur = r
         /\ Made(q, r, d).pc = q.pc
<1> DEFINE left == [q.due EXCEPT ![r] = q.due[r] \ {d}]
           p == Made(q, r, d)
<1>1. q.due \in [Rule -> SUBSET Day] /\ d \in 0..MaxDay
  BY DEF Request
<1>2. left \in [Rule -> SUBSET Day]
  BY <1>1
<1>3. p = [q EXCEPT !.due = left, !.cur = r, !.mark = d]
  BY DEF Made
<1> HIDE DEF left
<1>5. p \in Request
  BY <1>1, <1>2, <1>3 DEF Request
<1>6. p.due = left /\ p.mark = d /\ p.cur = r /\ p.pc = q.pc
  BY <1>3 DEF Request
<1> QED BY <1>5, <1>6 DEF left

LEMMA MakeType == ASSUME TypeOK, NEW s \in Slot, Make(s) PROVE TypeOK'
<1>1. PICK r \in Rule, d \in Day :
        /\ First(d, req[s].due[r])
        /\ made' = [made EXCEPT ![r][d] = @ + 1]
        /\ rule' = Flushed(req[s])
        /\ req' = [req EXCEPT ![s] = Made(req[s], r, d)]
        /\ UNCHANGED <<today, tried, failures>>
  BY MakeStep
<1>2. rule' \in [Rule -> Row] /\ \A x \in Rule : rule'[x].mark <= today
  BY <1>1, FlushedType
<1>3. made' \in [Rule -> [Day -> Nat]]
  BY <1>1 DEF TypeOK
<1>4. req[s] \in Request /\ d <= today
  BY <1>1 DEF TypeOK, First
<1> DEFINE new == Made(req[s], r, d)
<1>5. /\ new \in Request /\ new.mark = d
      /\ new.due = [req[s].due EXCEPT ![r] = req[s].due[r] \ {d}]
  BY <1>4, MadeRequest
<1>8. req' = [req EXCEPT ![s] = new]
  BY <1>1
<1>9. req[s].due \in [Rule -> SUBSET Day]
  BY <1>4 DEF Request
<1> HIDE DEF new
<1>10. \A x \in Rule : new.due[x] \subseteq req[s].due[x]
  BY <1>5, <1>9
<1>6. req' \in [Slot -> Request]
  BY <1>8, <1>5 DEF TypeOK
<1>7. \A t \in Slot : /\ req'[t].mark <= today
                      /\ \A x \in Rule : \A e \in req'[t].due[x] : e <= today
  <2>1. \A x \in Rule : req'[s].due[x] \subseteq req[s].due[x]
    BY <1>8, <1>10 DEF TypeOK
  <2>2. req'[s].mark = d /\ \A t \in Slot \ {s} : req'[t] = req[t]
    BY <1>5, <1>8 DEF TypeOK
  <2> QED BY <1>4, <2>1, <2>2 DEF TypeOK
<1> QED BY <1>1, <1>2, <1>3, <1>6, <1>7 DEF TypeOK

LEMMA SaveType == ASSUME TypeOK, NEW s \in Slot, Save(s) PROVE TypeOK'
<1>1. rule' \in [Rule -> Row] /\ \A x \in Rule : rule'[x].mark <= today
  BY FlushedType DEF Save
<1>2. req' \in [Slot -> Request]
  BY IdleType DEF TypeOK, Save
<1>3. \A t \in Slot : /\ req'[t].mark <= today
                      /\ \A x \in Rule : \A e \in req'[t].due[x] : e <= today
  BY IdleType DEF TypeOK, Save, NoDue
<1> QED BY <1>1, <1>2, <1>3 DEF TypeOK, Save

LEMMA CreateType ==
  ASSUME TypeOK, NEW s \in Slot, NEW r \in Rule, CreateRule(s, r) PROVE TypeOK'
<1>1. rule' \in [Rule -> Row] /\ \A x \in Rule : rule'[x].mark <= today
  BY DEF TypeOK, CreateRule, Row
<1>5. req[s] \in Request
  BY DEF TypeOK
<1>6. [req[s] EXCEPT !.pc = "load"] \in Request
  BY <1>5 DEF Request
<1>2. req' \in [Slot -> Request]
  BY <1>6 DEF TypeOK, CreateRule
<1>3. \A t \in Slot : /\ req'[t].mark <= today
                      /\ \A x \in Rule : \A e \in req'[t].due[x] : e <= today
  BY DEF TypeOK, CreateRule, Request
<1>4. tried' \in [Rule -> SUBSET Frequency]
  BY DEF TypeOK, CreateRule
<1> QED BY <1>1, <1>2, <1>3, <1>4 DEF TypeOK, CreateRule

LEMMA EditType == ASSUME TypeOK, NEW r \in Rule, EditRule(r) PROVE TypeOK'
<1>1. PICK f \in Frequency, end \in Ends, ok \in Splits, payer \in BOOLEAN :
        /\ rule' = [rule EXCEPT ![r].freq = f, ![r].end = end,
                                ![r].splits = ok, ![r].payer = payer]
        /\ tried' = [tried EXCEPT ![r] = @ \cup {f}]
  BY DEF EditRule
<1> DEFINE q == [rule[r] EXCEPT !.freq = f, !.end = end, !.splits = ok,
                                !.payer = payer]
<1>2. rule[r] \in Row
  BY DEF TypeOK
<1>3. q \in Row /\ q.mark = rule[r].mark
  BY <1>2 DEF Row
<1>4. rule' = [rule EXCEPT ![r] = q]
  BY <1>1 DEF TypeOK
<1>5. rule' \in [Rule -> Row] /\ \A x \in Rule : rule'[x].mark <= today
  BY <1>3, <1>4 DEF TypeOK
<1>6. tried' \in [Rule -> SUBSET Frequency]
  BY <1>1 DEF TypeOK
<1> QED BY <1>5, <1>6 DEF TypeOK, EditRule

\* The operations that turn a rule on or off.
Switch(r) == SetActive(r) \/ DeleteRule(r) \/ PayerLeaves(r) \/ PayerReturns(r)

LEMMA SwitchStep ==
  ASSUME TypeOK, NEW r \in Rule, Switch(r)
  PROVE  /\ \E q \in Row : /\ rule' = [rule EXCEPT ![r] = q]
                           /\ q.mark = rule[r].mark /\ q.freq = rule[r].freq
                           /\ q.status # "unused" /\ Exists(r)
         /\ UNCHANGED <<today, made, req, tried, failures>>
<1>1. rule[r] \in Row /\ Exists(r)
  BY DEF TypeOK, Switch, SetActive, DeleteRule, PayerLeaves, PayerReturns
<1>2. CASE SetActive(r)
  <2>1. PICK status \in {"on", "paused"} : rule' = [rule EXCEPT ![r].status = status]
    BY <1>2 DEF SetActive
  <2> DEFINE q == [rule[r] EXCEPT !.status = status]
  <2>2. q \in Row /\ q.mark = rule[r].mark /\ q.freq = rule[r].freq /\ q.status # "unused"
    BY <1>1 DEF Row, Exists
  <2> QED BY <1>1, <1>2, <2>1, <2>2 DEF SetActive
<1>3. CASE DeleteRule(r)
  <2> DEFINE q == [rule[r] EXCEPT !.status = "gone"]
  <2>1. q \in Row /\ q.mark = rule[r].mark /\ q.freq = rule[r].freq /\ q.status # "unused"
    BY <1>1 DEF Row, Exists
  <2> QED BY <1>1, <1>3, <2>1 DEF DeleteRule
<1>4. CASE PayerLeaves(r)
  <2> DEFINE q == [rule[r] EXCEPT !.payer = FALSE]
  <2>1. q \in Row /\ q.mark = rule[r].mark /\ q.freq = rule[r].freq /\ q.status # "unused"
    BY <1>1 DEF Row, Exists
  <2> QED BY <1>1, <1>4, <2>1 DEF PayerLeaves
<1>5. CASE PayerReturns(r)
  <2> DEFINE q == [rule[r] EXCEPT !.payer = TRUE]
  <2>1. q \in Row /\ q.mark = rule[r].mark /\ q.freq = rule[r].freq /\ q.status # "unused"
    BY <1>1 DEF Row, Exists
  <2> QED BY <1>1, <1>5, <2>1 DEF PayerReturns
<1> QED BY <1>2, <1>3, <1>4, <1>5 DEF Switch

LEMMA SwitchType == ASSUME TypeOK, NEW r \in Rule, Switch(r) PROVE TypeOK'
<1>1. PICK q \in Row : rule' = [rule EXCEPT ![r] = q] /\ q.mark = rule[r].mark
  BY SwitchStep
<1>2. UNCHANGED <<today, made, req, tried, failures>>
  BY SwitchStep
<1>3. rule' \in [Rule -> Row]
  BY <1>1 DEF TypeOK
<1>4. \A x \in Rule : rule'[x].mark <= today
  BY <1>1 DEF TypeOK
<1> QED BY <1>2, <1>3, <1>4 DEF TypeOK

LEMMA NextType == TypeOK /\ [Next]_vars => TypeOK'
<1> SUFFICES ASSUME TypeOK, [Next]_vars PROVE TypeOK'
  OBVIOUS
<1>1. CASE UNCHANGED vars
  BY <1>1 DEF TypeOK, vars
<1>2. CASE Tick
  <2>1. today' \in 0..MaxDay /\ today <= today'
    BY <1>2 DEF TypeOK, Tick
  <2>2. /\ \A r \in Rule : rule[r].mark <= today'
        /\ \A s \in Slot : /\ req[s].mark <= today'
                           /\ \A r \in Rule : \A d \in req[s].due[r] : d <= today'
    BY <2>1 DEF TypeOK, Row, Request
  <2> QED BY <1>2, <2>1, <2>2 DEF TypeOK, Tick
<1>3. CASE \E s \in Slot : Load(s)
  BY <1>3, LoadType
<1>4. CASE \E s \in Slot : Make(s)
  BY <1>4, MakeType
<1>5. CASE \E s \in Slot : Save(s)
  BY <1>5, SaveType
<1>6. CASE \E s \in Slot : Refuse(s) \/ Vanished(s) \/ Abort(s)
  BY <1>6, FailType DEF Refuse, Vanished, Abort
<1>7. CASE \E s \in Slot, r \in Rule : CreateRule(s, r)
  BY <1>7, CreateType
<1>8. CASE \E r \in Rule : EditRule(r)
  BY <1>8, EditType
<1>9. CASE \E r \in Rule : \/ SetActive(r) \/ DeleteRule(r)
                           \/ PayerLeaves(r) \/ PayerReturns(r)
  BY <1>9, SwitchType DEF Switch
<1> QED BY <1>1, <1>2, <1>3, <1>4, <1>5, <1>6, <1>7, <1>8, <1>9
        DEF Next, Steady, Progress

\* Every reachable state is typed, and no watermark is ahead of the calendar.
THEOREM Typing == Spec => []TypeOK
  BY InitType, NextType, PTL DEF Spec

-----------------------------------------------------------------------------
(* No occurrence is lost behind a watermark. *)

\* What a rule's schedules have in common only shrinks, and expenses are only
\* added.
Onward == /\ \A r \in Rule : Common(r)' \subseteq Common(r)
          /\ \A r \in Rule, d \in Day : made[r][d] >= 1 => made'[r][d] >= 1

LEMMA SameHistory == UNCHANGED <<made, tried>> => Onward
  BY DEF Onward, Common

LEMMA InitGap == Init => GapInv
<1> SUFFICES ASSUME Init PROVE GapInv
  OBVIOUS
<1>1. ASSUME NEW r \in Rule
      PROVE  rule[r].status = "unused" /\ rule[r].mark = 0 /\ tried[r] = {}
  BY DEF Init
<1>2. \A s \in Slot : req[s].cur = None /\ \A r \in Rule : req[s].due[r] = {}
  BY IdleType DEF Init, NoDue
<1> QED BY <1>1, <1>2 DEF GapInv, NoGap, Tracked, Exists, Carried, Listed, Common

\* A reader that ends, or has nothing to do.
LEMMA IdleGap ==
  ASSUME TypeOK, GapInv, NEW s \in Slot, req' = [req EXCEPT ![s] = Idle],
         UNCHANGED <<rule, made, tried>>
  PROVE  GapInv'
<1>1. \A t \in Slot : t # s => req'[t] = req[t]
  BY DEF TypeOK
<1>2. req'[s].cur = None /\ \A r \in Rule : req'[s].due[r] = {}
  BY IdleType DEF TypeOK, NoDue
<1> QED BY <1>1, <1>2 DEF GapInv, NoGap, Tracked, Exists, Carried, Listed, Common

LEMMA LoadGap == ASSUME TypeOK, GapInv, NEW s \in Slot, Load(s) PROVE GapInv'
<1> DEFINE due == [r \in Rule |-> IF Generates(rule[r]) THEN Due(rule[r]) ELSE {}]
           new == [pc |-> "make", due |-> due, cur |-> None, mark |-> 0,
                   splits |-> {r \in Rule : rule[r].splits}]
<1>1. CASE req' = [req EXCEPT ![s] = Idle]
  BY <1>1, IdleGap DEF Load
<1>2. CASE req' = [req EXCEPT ![s] = new]
  <2>1. UNCHANGED <<rule, made, tried>>
    BY DEF Load
  <2>2. \A t \in Slot : t # s => req'[t] = req[t]
    BY <1>2 DEF TypeOK
  <2>3. req'[s].cur = None /\ req'[s].due = due
    BY <1>2 DEF TypeOK
  <2>4. ASSUME NEW r \in Rule, NEW e \in due[r], NEW d \in Common(r), d < e
        PROVE  made[r][d] >= 1 \/ d \in due[r]
    <3>1. Generates(rule[r]) /\ e \in Due(rule[r]) /\ due[r] = Due(rule[r])
      BY <2>4
    <3>2. rule[r].freq \in tried[r]
      BY <3>1 DEF GapInv, Tracked, Exists, Generates
    <3>3. rule[r] \in Row /\ d \in Dates[rule[r].freq] /\ d \in Day
      BY <3>2 DEF Common, TypeOK
    <3>4. rule[r].mark \in Nat /\ rule[r].end \in Nat /\ today \in Nat /\ e \in Nat
      BY <3>1, <3>3 DEF Row, TypeOK, Due
    <3>5. CASE d > rule[r].mark
      BY <2>4, <3>1, <3>3, <3>4, <3>5 DEF Due
    <3>6. CASE ~(d > rule[r].mark)
      BY <3>3, <3>4, <3>6 DEF GapInv, NoGap
    <3> QED BY <3>5, <3>6
  <2> HIDE DEF due
  <2>5. \A r \in Rule : Common(r)' = Common(r)
    BY <2>1 DEF Common
  <2>6. \A r \in Rule : Listed(s, r)'
    BY <2>1, <2>3, <2>4, <2>5 DEF Listed
  <2>7. Carried(s)'
    BY <2>3 DEF Carried
  <2>8. \A t \in Slot : t # s => Carried(t)' /\ \A r \in Rule : Listed(t, r)'
    BY <2>1, <2>2, <2>5 DEF GapInv, Carried, Listed
  <2>9. NoGap' /\ \A r \in Rule : Tracked(r)'
    BY <2>1, <2>5 DEF GapInv, NoGap, Tracked, Exists
  <2> QED BY <2>6, <2>7, <2>8, <2>9 DEF GapInv
<1> QED BY <1>1, <1>2 DEF Load

\* A watermark that is committed hides nothing.
LEMMA FlushedGap ==
  ASSUME TypeOK, GapInv, NEW s \in Slot, rule' = Flushed(req[s]), tried' = tried,
         Onward
  PROVE  NoGap' /\ \A r \in Rule : Tracked(r)'
<1>1. \A r \in Rule :
        /\ rule'[r].mark = IF req[s].cur = r THEN req[s].mark ELSE rule[r].mark
        /\ rule'[r].status = rule[r].status /\ rule'[r].freq = rule[r].freq
  BY FlushedType
<1>2. \A r \in Rule : Tracked(r)'
  BY <1>1 DEF GapInv, Tracked, Exists
<1>3. ASSUME NEW r \in Rule, NEW d \in Common(r)', rule'[r].mark >= d
      PROVE  made'[r][d] >= 1
  <2>1. d \in Common(r) /\ d \in Day
    BY <1>3 DEF Onward, Common
  <2>2. made[r][d] >= 1
    <3>1. CASE req[s].cur = r
      <4>1. req[s] \in Request
        BY DEF TypeOK
      <4> QED BY <1>1, <1>3, <2>1, <3>1, <4>1 DEF GapInv, Carried, Request
    <3>2. CASE req[s].cur # r
      BY <1>1, <1>3, <2>1, <3>2 DEF GapInv, NoGap
    <3> QED BY <3>1, <3>2
  <2> QED BY <2>1, <2>2 DEF Onward
<1> QED BY <1>2, <1>3 DEF NoGap

LEMMA MakeGap == ASSUME TypeOK, GapInv, NEW s \in Slot, Make(s) PROVE GapInv'
<1>1. PICK r \in Rule, d \in Day :
        /\ First(d, req[s].due[r])
        /\ made' = [made EXCEPT ![r][d] = @ + 1]
        /\ rule' = Flushed(req[s])
        /\ req' = [req EXCEPT ![s] = Made(req[s], r, d)]
        /\ UNCHANGED <<today, tried, failures>>
  BY MakeStep
<1>2. req[s] \in Request
  BY DEF TypeOK
<1> DEFINE new == Made(req[s], r, d)
<1>3. /\ new.mark = d /\ new.cur = r
      /\ new.due = [req[s].due EXCEPT ![r] = req[s].due[r] \ {d}]
  BY <1>2, MadeRequest
<1>4. /\ req'[s].mark = d /\ req'[s].cur = r
      /\ req'[s].due = [req[s].due EXCEPT ![r] = req[s].due[r] \ {d}]
      /\ \A t \in Slot : t # s => req'[t] = req[t]
  BY <1>1, <1>3 DEF TypeOK
<1> HIDE DEF new
<1>5. \A x \in Rule, e \in Day : /\ made[x][e] \in Nat /\ made'[x][e] \in Nat
                                 /\ made'[x][e] >= made[x][e]
                                 /\ x = r /\ e = d => made'[x][e] >= 1
  BY <1>1 DEF TypeOK
<1>6. Onward
  BY <1>1, <1>5 DEF Onward, Common
<1>7. NoGap' /\ \A x \in Rule : Tracked(x)'
  BY <1>1, <1>6, FlushedGap
<1>8. req[s].due \in [Rule -> SUBSET Day] /\ \A x \in Rule : Common(x)' \subseteq Day
  BY <1>2 DEF Request, Common
<1>9. Carried(s)'
  <2> SUFFICES ASSUME NEW e \in Common(r)', e <= d PROVE made'[r][e] >= 1
    BY <1>4 DEF Carried
  <2>1. e \in Common(r) /\ e \in Day
    BY <1>6, <1>8 DEF Onward
  <2>2. CASE e = d
    BY <1>5, <2>2
  <2>3. CASE e # d
    <3>1. e < d /\ d \in req[s].due[r] /\ e \notin req[s].due[r]
      BY <1>1, <1>8, <2>1, <2>3 DEF First
    <3>2. made[r][e] >= 1
      BY <2>1, <3>1 DEF GapInv, Listed
    <3> QED BY <1>6, <2>1, <3>2 DEF Onward
  <2> QED BY <2>2, <2>3
<1>10. ASSUME NEW x \in Rule PROVE Listed(s, x)'
  <2> SUFFICES ASSUME NEW e \in req'[s].due[x], NEW c \in Common(x)', c < e
               PROVE  made'[x][c] >= 1 \/ c \in req'[s].due[x]
    BY DEF Listed
  <2>1. e \in req[s].due[x] /\ c \in Common(x) /\ c \in Day
    BY <1>4, <1>6, <1>8 DEF Onward
  <2>2. made[x][c] >= 1 \/ c \in req[s].due[x]
    BY <2>1 DEF GapInv, Listed
  <2>3. CASE made[x][c] >= 1
    BY <1>6, <2>1, <2>3 DEF Onward
  <2>4. CASE c \in req[s].due[x] /\ ~(x = r /\ c = d)
    BY <1>4, <1>8, <2>4
  <2>5. CASE x = r /\ c = d
    BY <1>5, <2>5
  <2> QED BY <2>2, <2>3, <2>4, <2>5
<1>11. \A t \in Slot : t # s => Carried(t)' /\ \A x \in Rule : Listed(t, x)'
  BY <1>4, <1>6, <1>8 DEF GapInv, Carried, Listed, Onward
<1> QED BY <1>7, <1>9, <1>10, <1>11 DEF GapInv

LEMMA SaveGap == ASSUME TypeOK, GapInv, NEW s \in Slot, Save(s) PROVE GapInv'
<1>1. rule' = Flushed(req[s]) /\ UNCHANGED <<made, tried>>
  BY DEF Save
<1>2. NoGap' /\ \A r \in Rule : Tracked(r)'
  BY <1>1, SameHistory, FlushedGap
<1>3. \A r \in Rule : Common(r)' = Common(r)
  BY <1>1 DEF Common
<1>4. \A t \in Slot : t # s => req'[t] = req[t]
  BY DEF TypeOK, Save
<1>5. req'[s].cur = None /\ \A r \in Rule : req'[s].due[r] = {}
  BY IdleType DEF TypeOK, NoDue, Save
<1>6. \A t \in Slot : Carried(t)' /\ \A r \in Rule : Listed(t, r)'
  BY <1>1, <1>3, <1>4, <1>5 DEF GapInv, Carried, Listed
<1> QED BY <1>2, <1>6 DEF GapInv

\* A rule that is created or edited: its schedules may shrink, its watermark
\* does not advance, and no reader's list changes.
LEMMA RowGap ==
  ASSUME TypeOK, GapInv, NEW r \in Rule, NEW q \in Row,
         rule' = [rule EXCEPT ![r] = q], q.mark <= rule[r].mark,
         q.freq \in tried'[r], q.status # "unused",
         \A x \in Rule : x # r => tried'[x] = tried[x],
         made' = made, Onward,
         \A s \in Slot : /\ req'[s].due = req[s].due
                         /\ req'[s].cur = req[s].cur /\ req'[s].mark = req[s].mark
  PROVE  GapInv'
<1>1. \A x \in Rule : rule'[x] = IF x = r THEN q ELSE rule[x]
  BY DEF TypeOK
<1>2. \A x \in Rule : Tracked(x)'
  BY <1>1 DEF GapInv, Tracked, Exists
<1>3. \A x \in Rule : rule[x].mark \in Nat /\ rule'[x].mark \in Nat
                      /\ rule'[x].mark <= rule[x].mark
  BY <1>1 DEF TypeOK, Row
<1>4. \A x \in Rule : Common(x)' \subseteq Common(x) /\ Common(x) \subseteq Day
  BY DEF Onward, Common
<1>5. NoGap'
  BY <1>3, <1>4 DEF GapInv, NoGap
<1>6. \A s \in Slot : Carried(s)' /\ \A x \in Rule : Listed(s, x)'
  BY <1>4 DEF GapInv, Carried, Listed
<1> QED BY <1>2, <1>5, <1>6 DEF GapInv

LEMMA CreateGap ==
  ASSUME TypeOK, GapInv, NEW s \in Slot, NEW r \in Rule, CreateRule(s, r)
  PROVE  GapInv'
\* An unused rule has no schedule yet: every day is common to its schedules.
<1>1. PICK f \in Frequency, end \in Ends, ok \in Splits, payer \in BOOLEAN :
        /\ rule' = [rule EXCEPT ![r] =
             [status |-> "on", payer |-> payer, splits |-> ok, freq |-> f,
              end |-> end, mark |-> 0]]
        /\ tried' = [tried EXCEPT ![r] = {f}]
  BY DEF CreateRule
<1> DEFINE q == [status |-> "on", payer |-> payer, splits |-> ok, freq |-> f,
                 end |-> end, mark |-> 0]
<1>2. end \in 0..MaxDay /\ ok \in BOOLEAN /\ 0 \in 0..MaxDay
  OBVIOUS
<1>3. q \in Row /\ q.mark = 0 /\ q.freq = f /\ q.status = "on"
  BY <1>2 DEF Row
<1>4. rule' = [rule EXCEPT ![r] = q]
  BY <1>1
<1> HIDE DEF q
<1>5. 0 <= rule[r].mark
  BY DEF TypeOK, Row
<1>6. \A x \in Rule : tried'[x] = IF x = r THEN {f} ELSE tried[x]
  BY <1>1 DEF TypeOK
<1>7. tried[r] = {}
  BY DEF CreateRule, GapInv, Tracked
<1>8. made' = made
  BY DEF CreateRule
<1>9. Onward
  BY <1>6, <1>7, <1>8 DEF Onward, Common
<1>10. \A t \in Slot : /\ req'[t].due = req[t].due
                       /\ req'[t].cur = req[t].cur /\ req'[t].mark = req[t].mark
  BY DEF CreateRule, TypeOK, Request
<1> QED BY <1>3, <1>4, <1>5, <1>6, <1>8, <1>9, <1>10, RowGap

LEMMA EditGap == ASSUME TypeOK, GapInv, NEW r \in Rule, EditRule(r) PROVE GapInv'
<1>1. PICK f \in Frequency, end \in Ends, ok \in Splits, payer \in BOOLEAN :
        /\ rule' = [rule EXCEPT ![r].freq = f, ![r].end = end,
                                ![r].splits = ok, ![r].payer = payer]
        /\ tried' = [tried EXCEPT ![r] = @ \cup {f}]
  BY DEF EditRule
<1> DEFINE q == [rule[r] EXCEPT !.freq = f, !.end = end, !.splits = ok,
                                !.payer = payer]
<1>2. rule[r] \in Row /\ rule[r].mark \in Nat
  BY DEF TypeOK, Row
<1>3. /\ q \in Row /\ q.mark = rule[r].mark /\ q.freq = f
      /\ q.status = rule[r].status
  BY <1>2 DEF Row
<1>4. rule' = [rule EXCEPT ![r] = q]
  BY <1>1 DEF TypeOK
<1> HIDE DEF q
<1>5. \A x \in Rule : tried'[x] = IF x = r THEN tried[x] \cup {f} ELSE tried[x]
  BY <1>1 DEF TypeOK
<1>6. made' = made /\ req' = req /\ q.status # "unused"
  BY <1>3 DEF EditRule, Exists
<1>7. Onward
  BY <1>5, <1>6 DEF Onward, Common
<1>8. q.mark <= rule[r].mark /\ q.freq \in tried'[r]
  <2>1. q.mark <= rule[r].mark
    BY <1>2, <1>3
  <2>2. f \in tried'[r]
    BY <1>5
  <2> QED BY <1>3, <2>1, <2>2
<1>9. \A x \in Rule : x # r => tried'[x] = tried[x]
  BY <1>5
<1>10. \A s \in Slot : /\ req'[s].due = req[s].due
                       /\ req'[s].cur = req[s].cur /\ req'[s].mark = req[s].mark
  BY <1>6
<1> QED BY <1>3, <1>4, <1>6, <1>7, <1>8, <1>9, <1>10, RowGap

LEMMA SwitchGap == ASSUME TypeOK, GapInv, NEW r \in Rule, Switch(r) PROVE GapInv'
<1>1. PICK q \in Row : /\ rule' = [rule EXCEPT ![r] = q]
                       /\ q.mark = rule[r].mark /\ q.freq = rule[r].freq
                       /\ q.status # "unused" /\ Exists(r)
  BY SwitchStep
<1>2. UNCHANGED <<today, made, req, tried, failures>>
  BY SwitchStep
<1>3. Onward
  BY <1>2, SameHistory
<1>4. rule[r] \in Row /\ rule[r].mark \in Nat
  BY DEF TypeOK, Row
<1>5. \A x \in Rule : Common(x)' = Common(x)
  BY <1>2 DEF Common
<1>6. \A x \in Rule : rule'[x].mark = rule[x].mark
  BY <1>1 DEF TypeOK
<1>7. NoGap' /\ \A s \in Slot : Carried(s)' /\ \A x \in Rule : Listed(s, x)'
  BY <1>2, <1>5, <1>6 DEF GapInv, NoGap, Carried, Listed
<1>8. \A x \in Rule : Tracked(x)'
  <2>1. \A x \in Rule : x # r => rule'[x] = rule[x]
    BY <1>1 DEF TypeOK
  <2>2. rule'[r] = q
    BY <1>1 DEF TypeOK
  <2>3. q.freq \in tried[r]
    BY <1>1 DEF GapInv, Tracked
  <2> QED BY <1>1, <1>2, <2>1, <2>2, <2>3 DEF GapInv, Tracked, Exists
<1> QED BY <1>7, <1>8 DEF GapInv

LEMMA NextGap == TypeOK /\ GapInv /\ [Next]_vars => GapInv'
<1> SUFFICES ASSUME TypeOK, GapInv, [Next]_vars PROVE GapInv'
  OBVIOUS
<1>1. CASE UNCHANGED vars \/ Tick
  BY <1>1 DEF GapInv, NoGap, Tracked, Exists, Carried, Listed, Common, vars, Tick
<1>2. CASE \E s \in Slot : Load(s)
  BY <1>2, LoadGap
<1>3. CASE \E s \in Slot : Make(s)
  BY <1>3, MakeGap
<1>4. CASE \E s \in Slot : Save(s)
  BY <1>4, SaveGap
<1>5. CASE \E s \in Slot : Refuse(s) \/ Vanished(s) \/ Abort(s)
  BY <1>5, IdleGap DEF Refuse, Vanished, Abort, Fail
<1>6. CASE \E s \in Slot, r \in Rule : CreateRule(s, r)
  BY <1>6, CreateGap
<1>7. CASE \E r \in Rule : EditRule(r)
  BY <1>7, EditGap
<1>8. CASE \E r \in Rule : \/ SetActive(r) \/ DeleteRule(r)
                           \/ PayerLeaves(r) \/ PayerReturns(r)
  BY <1>8, SwitchGap DEF Switch
<1> QED BY <1>1, <1>2, <1>3, <1>4, <1>5, <1>6, <1>7, <1>8
        DEF Next, Steady, Progress

\* With any number of readers, edits, pauses and crashes: the days up to a
\* rule's watermark that every schedule of the rule falls on have their
\* expenses, and what a reader still carries keeps it so.
THEOREM GapFree == Spec => []GapInv
  BY InitType, NextType, InitGap, NextGap, PTL DEF Spec

\* In particular, a watermark never passes a day whose expense was not made.
THEOREM NoLostOccurrence == Spec => []NoGap
<1>1. GapInv => NoGap
  BY DEF GapInv
<1> QED BY <1>1, GapFree, PTL

-----------------------------------------------------------------------------
(* Nothing is made that was not due. *)

\* A day of one of the rule's schedules, not in the future.
OnSchedule(r, d) == d <= today /\ \E f \in tried[r] : d \in Dates[f]

\* Whatever readers race with whatever edits, pauses and deletions, an expense
\* is only made for a day of a schedule the rule has had, never ahead of time.
OnlyWhatIsDue == \A r \in Rule, d \in Day : made[r][d] > 0 => OnSchedule(r, d)

\* What a reader has listed, however long ago, was due as well.
DueInv == /\ OnlyWhatIsDue
          /\ \A s \in Slot, r \in Rule : \A d \in req[s].due[r] : OnSchedule(r, d)

\* What a step may make was listed, and what it may list was due.
Sources ==
  /\ today \in 0..MaxDay /\ today' \in 0..MaxDay /\ today <= today'
  /\ \A r \in Rule : tried[r] \subseteq tried'[r]
  /\ \A r \in Rule, d \in Day :
       made'[r][d] > 0 => made[r][d] > 0 \/ \E s \in Slot : d \in req[s].due[r]
  /\ \A s \in Slot, r \in Rule : \A d \in req'[s].due[r] :
       d \in req[s].due[r] \/ (Exists(r) /\ d \in Due(rule[r]))

LEMMA LoadSources == ASSUME TypeOK, NEW s \in Slot, Load(s) PROVE Sources
<1> DEFINE due == [r \in Rule |-> IF Generates(rule[r]) THEN Due(rule[r]) ELSE {}]
           new == [pc |-> "make", due |-> due, cur |-> None, mark |-> 0,
                   splits |-> {r \in Rule : rule[r].splits}]
<1>1. \/ req' = [req EXCEPT ![s] = Idle]
      \/ req' = [req EXCEPT ![s] = new]
  BY DEF Load
<1>2. \A r \in Rule : \A d \in due[r] : Exists(r) /\ d \in Due(rule[r])
  BY DEF Generates, Exists
<1>3. new.due = due
  OBVIOUS
<1> HIDE DEF new, due
<1>4. \A t \in Slot, r \in Rule : \A d \in req'[t].due[r] :
        d \in req[t].due[r] \/ (Exists(r) /\ d \in Due(rule[r]))
  <2>1. CASE req' = [req EXCEPT ![s] = Idle]
    BY <2>1, IdleType DEF TypeOK, NoDue
  <2>2. CASE req' = [req EXCEPT ![s] = new]
    BY <1>2, <1>3, <2>2 DEF TypeOK
  <2> QED BY <1>1, <2>1, <2>2
<1>5. UNCHANGED <<today, made, tried>> /\ today \in 0..MaxDay /\ today <= today'
  BY DEF Load, TypeOK
<1> QED BY <1>4, <1>5 DEF Sources

LEMMA MakeSources == ASSUME TypeOK, NEW s \in Slot, Make(s) PROVE Sources
<1>1. PICK r \in Rule, d \in Day :
        /\ First(d, req[s].due[r])
        /\ made' = [made EXCEPT ![r][d] = @ + 1]
        /\ req' = [req EXCEPT ![s] = Made(req[s], r, d)]
        /\ UNCHANGED <<today, tried>>
  BY MakeStep
<1>2. \A x \in Rule, e \in Day :
        made'[x][e] > 0 => made[x][e] > 0 \/ \E t \in Slot : e \in req[t].due[x]
  BY <1>1 DEF TypeOK, First
<1>3. req[s] \in Request /\ req[s].due \in [Rule -> SUBSET Day]
  BY DEF TypeOK, Request
<1>4. Made(req[s], r, d).due = [req[s].due EXCEPT ![r] = req[s].due[r] \ {d}]
  BY <1>3, MadeRequest
<1>5. \A x \in Rule : Made(req[s], r, d).due[x] \subseteq req[s].due[x]
  BY <1>3, <1>4
<1>6. \A t \in Slot, x \in Rule : req'[t].due[x] \subseteq req[t].due[x]
  BY <1>1, <1>5 DEF TypeOK
<1>7. today \in 0..MaxDay /\ today <= today'
  BY <1>1 DEF TypeOK
<1> QED BY <1>1, <1>2, <1>6, <1>7 DEF Sources

LEMMA IdleSources ==
  ASSUME TypeOK, NEW s \in Slot, req' = [req EXCEPT ![s] = Idle],
         UNCHANGED <<today, made, tried>>
  PROVE  Sources
  BY IdleType DEF Sources, TypeOK, NoDue

LEMMA CreateSources ==
  ASSUME TypeOK, GapInv, NEW s \in Slot, NEW r \in Rule, CreateRule(s, r)
  PROVE  Sources
<1>1. tried[r] = {}
  BY DEF GapInv, Tracked, CreateRule
<1>2. \A x \in Rule : tried[x] \subseteq tried'[x]
  BY <1>1 DEF CreateRule, TypeOK
<1>3. req' = [req EXCEPT ![s].pc = "load"] /\ UNCHANGED <<today, made>>
  BY DEF CreateRule
<1>4. req[s] \in Request
  BY DEF TypeOK
<1>5. \A t \in Slot, x \in Rule : req'[t].due[x] = req[t].due[x]
  BY <1>3, <1>4 DEF TypeOK, Request
<1> QED BY <1>2, <1>3, <1>5 DEF Sources, TypeOK

LEMMA NextSources == TypeOK /\ GapInv /\ [Next]_vars => Sources
<1> SUFFICES ASSUME TypeOK, GapInv, [Next]_vars PROVE Sources
  OBVIOUS
<1>1. CASE UNCHANGED <<today, tried, made, req>>
  BY <1>1 DEF Sources, TypeOK
<1>2. CASE Tick
  <2>1. today' \in 0..MaxDay /\ today <= today'
    BY <1>2 DEF TypeOK, Tick
  <2> QED BY <1>2, <2>1 DEF Sources, TypeOK, Tick
<1>3. CASE \E s \in Slot : Load(s)
  BY <1>3, LoadSources
<1>4. CASE \E s \in Slot : Make(s)
  BY <1>4, MakeSources
<1>5. CASE \E s \in Slot : Save(s)
  BY <1>5, IdleSources DEF Save
<1>6. CASE \E s \in Slot : Refuse(s) \/ Vanished(s) \/ Abort(s)
  BY <1>6, IdleSources DEF Refuse, Vanished, Abort, Fail
<1>7. CASE \E s \in Slot, r \in Rule : CreateRule(s, r)
  BY <1>7, CreateSources
<1>8. CASE \E r \in Rule : EditRule(r)
  BY <1>8 DEF EditRule, Sources, TypeOK
<1>9. CASE \E r \in Rule : Switch(r)
  BY <1>1, <1>9, SwitchStep
<1> QED BY <1>1, <1>2, <1>3, <1>4, <1>5, <1>6, <1>7, <1>8, <1>9
        DEF Next, Steady, Progress, Switch, vars

LEMMA InitDue == Init => DueInv
<1> SUFFICES ASSUME Init PROVE DueInv
  OBVIOUS
<1>1. \A r \in Rule, d \in Day : made[r][d] = 0
  BY DEF Init
<1>2. \A s \in Slot, r \in Rule : req[s].due[r] = {}
  BY IdleType DEF Init, NoDue
<1> QED BY <1>1, <1>2 DEF DueInv, OnlyWhatIsDue

LEMMA NextDue == TypeOK /\ GapInv /\ DueInv /\ [Next]_vars => DueInv'
<1> SUFFICES ASSUME TypeOK, GapInv, DueInv, [Next]_vars PROVE DueInv'
  OBVIOUS
<1>1. Sources
  BY NextSources
<1>2. ASSUME NEW r \in Rule, NEW d \in Day, OnSchedule(r, d) PROVE OnSchedule(r, d)'
  BY <1>1, <1>2 DEF OnSchedule, Sources
<1>3. ASSUME NEW r \in Rule, NEW d \in Day, Exists(r), d \in Due(rule[r])
      PROVE  OnSchedule(r, d)'
  <2>1. d <= today /\ d \in Dates[rule[r].freq] /\ rule[r].freq \in tried[r]
    BY <1>3 DEF Due, GapInv, Tracked
  <2> QED BY <1>2, <2>1 DEF OnSchedule
<1>4. ASSUME NEW s \in Slot, NEW r \in Rule, NEW d \in req[s].due[r]
      PROVE  OnSchedule(r, d)'
  BY <1>2 DEF DueInv, TypeOK, Request
<1>5. OnlyWhatIsDue'
  BY <1>1, <1>2, <1>4 DEF Sources, DueInv, OnlyWhatIsDue
<1>6. \A s \in Slot, r \in Rule : \A d \in req'[s].due[r] : d \in Day
  BY NextType DEF TypeOK, Request
<1>7. \A s \in Slot, r \in Rule : \A d \in req'[s].due[r] : OnSchedule(r, d)'
  BY <1>1, <1>3, <1>4, <1>6 DEF Sources
<1> QED BY <1>5, <1>7 DEF DueInv

\* Every reachable state, in any interleaving: no expense of a rule is off its
\* schedules or ahead of the calendar.
THEOREM NothingElseMade == Spec => []OnlyWhatIsDue
<1>1. DueInv => OnlyWhatIsDue
  BY DEF DueInv
<1> QED BY <1>1, InitType, NextType, InitGap, NextGap, InitDue, NextDue, PTL DEF Spec

-----------------------------------------------------------------------------
(* One reader at a time. *)

LEMMA InitCopy == Init => CopyInv
<1> SUFFICES ASSUME Init, NEW s \in Slot
             PROVE  /\ req[s].pc # "make" => req[s].cur = None /\ req[s].due = NoDue
                    /\ \A r \in Rule : Fresh(s, r)
  BY DEF CopyInv
<1>1. req[s].cur = None /\ req[s].due = NoDue
  BY IdleType DEF Init
<1>2. ASSUME NEW r \in Rule PROVE rule[r].mark = 0
  BY DEF Init
<1>3. failures = 0 /\ \A r \in Rule, d \in Day : made[r][d] = 0
  BY DEF Init
<1>4. \A r \in Rule : High(s, r) = 0
  BY <1>1, <1>2 DEF High
<1> QED BY <1>1, <1>2, <1>3, <1>4 DEF NoDue, Fresh

\* A request that dies: its watermark is lost, and counted.
LEMMA FailCopy ==
  ASSUME TypeOK, CopyInv, NEW s \in Slot, Slot = {s}, Fail(s) PROVE CopyInv'
<1>1. req'[s].cur = None /\ req'[s].due = NoDue
  BY IdleType DEF TypeOK, Fail
<1>2. rule' = rule /\ made' = made /\ failures \in Nat
  BY DEF Fail, TypeOK
<1>3. ASSUME NEW r \in Rule PROVE Fresh(s, r)'
  <2>1. Fresh(s, r)
    BY DEF CopyInv
  <2>2. High(s, r)' = rule[r].mark
    BY <1>1, <1>2 DEF High
  <2>3. rule[r].mark \in Nat /\ \A d \in Day : made[r][d] \in Nat
    BY DEF TypeOK, Row
  <2>4. \A d \in Day : made[r][d] <= failures' + IF d <= rule[r].mark THEN 1 ELSE 0
    <3>1. CASE req[s].cur = None
      BY <1>2, <2>1, <2>3, <3>1 DEF Fresh, High, Fail
    <3>2. CASE req[s].cur # None
      <4>1. failures' = failures + 1
        BY <3>2 DEF Fail
      <4> QED BY <1>2, <2>1, <2>3, <4>1 DEF Fresh
    <3> QED BY <3>1, <3>2
  <2> QED BY <1>1, <1>2, <2>1, <2>2, <2>4 DEF Fresh, NoDue
<1> QED BY <1>1, <1>3 DEF CopyInv

LEMMA LoadCopy ==
  ASSUME TypeOK, CopyInv, NEW s \in Slot, Slot = {s}, Load(s) PROVE CopyInv'
<1> DEFINE due == [r \in Rule |-> IF Generates(rule[r]) THEN Due(rule[r]) ELSE {}]
<1>1. UNCHANGED <<rule, made, failures>> /\ req[s].pc # "make"
  BY DEF Load
<1>2. /\ req'[s].cur = None /\ \/ req'[s].due = NoDue
                               \/ req'[s].pc = "make" /\ req'[s].due = due
  BY IdleType DEF TypeOK, Load
<1>3. ASSUME NEW r \in Rule PROVE Fresh(s, r)'
  <2>1. Fresh(s, r) /\ req[s].cur = None
    BY <1>1 DEF CopyInv
  <2>2. High(s, r)' = rule[r].mark /\ High(s, r) = rule[r].mark
    BY <1>1, <1>2, <2>1 DEF High
  <2>3. \A e \in due[r] : e > rule[r].mark /\ rule[r].status # "unused"
    BY DEF Due, Generates
  <2>4. \A e \in req'[s].due[r] : e > rule[r].mark /\ rule[r].status # "unused"
    BY <1>2, <2>3 DEF NoDue
  <2> QED BY <1>1, <1>2, <2>1, <2>2, <2>4 DEF Fresh
<1> QED BY <1>2, <1>3 DEF CopyInv

\* Committing the watermark carried leaves High where it is.
LEMMA FlushedCopy ==
  ASSUME TypeOK, CopyInv, NEW s \in Slot, NEW r \in Rule, rule' = Flushed(req[s])
  PROVE  /\ rule'[r].mark = High(s, r) /\ rule'[r].mark >= rule[r].mark
         /\ rule'[r].status = rule[r].status /\ High(s, r) \in Nat
<1>1. rule[r].mark \in Nat /\ req[s].mark \in Nat
  BY DEF TypeOK, Row, Request
<1>2. Fresh(s, r)
  BY DEF CopyInv
<1>3. /\ rule'[r].mark = IF req[s].cur = r THEN req[s].mark ELSE rule[r].mark
      /\ rule'[r].status = rule[r].status
  BY FlushedType
<1> QED BY <1>1, <1>2, <1>3 DEF Fresh, High

LEMMA MakeCopy ==
  ASSUME TypeOK, CopyInv, NEW s \in Slot, Slot = {s}, Make(s) PROVE CopyInv'
<1>1. PICK r \in Rule, d \in Day :
        /\ First(d, req[s].due[r])
        /\ req[s].pc = "make"
        /\ made' = [made EXCEPT ![r][d] = @ + 1]
        /\ rule' = Flushed(req[s])
        /\ req' = [req EXCEPT ![s] = Made(req[s], r, d)]
        /\ UNCHANGED <<today, tried, failures>>
  BY MakeStep
<1>2. req[s] \in Request
  BY DEF TypeOK
<1> DEFINE new == Made(req[s], r, d)
<1>3. /\ new.mark = d /\ new.cur = r /\ new.pc = "make"
      /\ new.due = [req[s].due EXCEPT ![r] = req[s].due[r] \ {d}]
  BY <1>1, <1>2, MadeRequest
<1>4. /\ req'[s].mark = d /\ req'[s].cur = r /\ req'[s].pc = "make"
      /\ req'[s].due = [req[s].due EXCEPT ![r] = req[s].due[r] \ {d}]
  BY <1>1, <1>3 DEF TypeOK
<1> HIDE DEF new
<1>5. req[s].due \in [Rule -> SUBSET Day] /\ failures \in Nat
  BY <1>2 DEF Request, TypeOK
<1>6. ASSUME NEW x \in Rule PROVE Fresh(s, x)'
  <2>1. Fresh(s, x)
    BY DEF CopyInv
  <2>2. /\ rule'[x].mark = High(s, x) /\ rule'[x].status = rule[x].status
        /\ High(s, x) \in Nat
    BY <1>1, FlushedCopy
  <2>3. \A e \in Day : made[x][e] \in Nat
    BY DEF TypeOK
  <2>4. CASE x = r
    <3>1. d \in req[s].due[r] /\ d > High(s, r) /\ rule[r].status # "unused"
      BY <1>1, <2>1, <2>4 DEF First, Fresh
    <3>2. High(s, r)' = d
      BY <1>4 DEF High
    <3>3. \A e \in req'[s].due[r] : e > d
      BY <1>1, <1>4, <1>5 DEF First
    <3>4. \A e \in Day : made'[r][e] = IF e = d THEN made[r][e] + 1 ELSE made[r][e]
      BY <1>1 DEF TypeOK
    <3>5. \A e \in Day : made'[r][e] <= failures' + IF e <= d THEN 1 ELSE 0
      <4> SUFFICES ASSUME NEW e \in Day
                   PROVE  made'[r][e] <= failures + IF e <= d THEN 1 ELSE 0
        BY <1>1
      <4>1. made[r][e] <= failures + IF e <= High(s, r) THEN 1 ELSE 0
        BY <2>1, <2>4 DEF Fresh
      <4> QED BY <1>5, <2>2, <2>3, <2>4, <3>1, <3>4, <4>1
    <3> QED BY <1>4, <2>2, <2>4, <3>1, <3>2, <3>3, <3>5 DEF Fresh
  <2>5. CASE x # r
    <3>1. High(s, x)' = High(s, x)
      BY <1>4, <2>2, <2>5 DEF High
    <3>2. made'[x] = made[x] /\ req'[s].due[x] = req[s].due[x]
      BY <1>1, <1>4, <1>5, <2>5 DEF TypeOK
    <3>3. rule[x].status = "unused" => High(s, x) = 0
      BY <2>1 DEF Fresh, High
    <3> QED BY <1>1, <1>4, <2>1, <2>2, <2>5, <3>1, <3>2, <3>3 DEF Fresh
  <2> QED BY <2>4, <2>5
<1> QED BY <1>4, <1>6 DEF CopyInv

LEMMA SaveCopy ==
  ASSUME TypeOK, CopyInv, NEW s \in Slot, Slot = {s}, Save(s) PROVE CopyInv'
<1>1. rule' = Flushed(req[s]) /\ UNCHANGED <<made, failures>>
  BY DEF Save
<1>2. req'[s].cur = None /\ req'[s].due = NoDue
  BY IdleType DEF TypeOK, Save
<1>3. ASSUME NEW r \in Rule PROVE Fresh(s, r)'
  <2>1. Fresh(s, r)
    BY DEF CopyInv
  <2>2. /\ rule'[r].mark = High(s, r) /\ rule'[r].status = rule[r].status
    BY <1>1, FlushedCopy
  <2>3. High(s, r)' = High(s, r)
    BY <1>2, <2>2 DEF High
  <2>4. rule[r].status = "unused" => High(s, r) = 0
    BY <2>1 DEF Fresh, High
  <2> QED BY <1>1, <1>2, <2>1, <2>2, <2>3, <2>4 DEF Fresh, NoDue
<1> QED BY <1>2, <1>3 DEF CopyInv

\* The operations on a rule leave the watermarks and the reader's list alone.
LEMMA RowCopy ==
  ASSUME TypeOK, CopyInv, UNCHANGED <<made, failures>>,
         \A r \in Rule : /\ rule'[r].mark = rule[r].mark
                         /\ rule'[r].status = "unused" => rule[r].status = "unused",
         \A s \in Slot : /\ req'[s].due = req[s].due /\ req'[s].cur = req[s].cur
                         /\ req'[s].mark = req[s].mark
                         /\ req'[s].pc # "make" => req[s].pc # "make"
  PROVE  CopyInv'
<1>1. \A s \in Slot, r \in Rule : High(s, r)' = High(s, r)
  BY DEF High
<1>2. \A s \in Slot, r \in Rule : Fresh(s, r)'
  BY <1>1 DEF CopyInv, Fresh
<1>3. \A s \in Slot : req'[s].pc # "make" => req'[s].cur = None /\ req'[s].due = NoDue
  BY DEF CopyInv
<1> QED BY <1>2, <1>3 DEF CopyInv

\* What each of these operations does to the watermarks.
LEMMA RowStep ==
  ASSUME TypeOK, CopyInv,
         \/ \E s \in Slot, r \in Rule : CreateRule(s, r)
         \/ \E r \in Rule : EditRule(r) \/ Switch(r)
  PROVE  /\ UNCHANGED <<made, failures>>
         /\ \A r \in Rule : /\ rule'[r].mark = rule[r].mark
                            /\ rule'[r].status = "unused" => rule[r].status = "unused"
         /\ \A s \in Slot : /\ req'[s].due = req[s].due /\ req'[s].cur = req[s].cur
                            /\ req'[s].mark = req[s].mark
                            /\ req'[s].pc # "make" => req[s].pc # "make"
<1>1. CASE \E s \in Slot, r \in Rule : CreateRule(s, r)
  <2>1. PICK s \in Slot, r \in Rule : CreateRule(s, r)
    BY <1>1
  <2>2. rule[r].mark = 0
    BY <2>1 DEF CopyInv, CreateRule, Fresh
  <2>3. PICK f \in Frequency, end \in Ends, ok \in Splits, payer \in BOOLEAN :
          rule' = [rule EXCEPT ![r] =
            [status |-> "on", payer |-> payer, splits |-> ok, freq |-> f,
             end |-> end, mark |-> 0]]
    BY <2>1 DEF CreateRule
  <2>4. \A x \in Rule : /\ rule'[x].mark = rule[x].mark
                        /\ rule'[x].status = "unused" => rule[x].status = "unused"
    BY <2>2, <2>3 DEF TypeOK
  <2>5. \A t \in Slot : /\ req'[t].due = req[t].due /\ req'[t].cur = req[t].cur
                        /\ req'[t].mark = req[t].mark
                        /\ req'[t].pc # "make" => req[t].pc # "make"
    BY <2>1 DEF CreateRule, TypeOK, Request
  <2> QED BY <2>1, <2>4, <2>5 DEF CreateRule
<1>2. CASE \E r \in Rule : EditRule(r)
  <2>1. PICK r \in Rule : EditRule(r)
    BY <1>2
  <2>2. \A x \in Rule : /\ rule'[x].mark = rule[x].mark
                        /\ rule'[x].status = rule[x].status
    <3>1. rule[r] \in Row
      BY DEF TypeOK
    <3>2. PICK f \in Frequency, end \in Ends, ok \in Splits, payer \in BOOLEAN :
            /\ rule' = [rule EXCEPT ![r].freq = f, ![r].end = end,
                                    ![r].splits = ok, ![r].payer = payer]
            /\ tried' = [tried EXCEPT ![r] = @ \cup {f}]
      BY <2>1 DEF EditRule
    <3> DEFINE q == [rule[r] EXCEPT !.freq = f, !.end = end, !.splits = ok,
                                    !.payer = payer]
    <3>3. q.mark = rule[r].mark /\ q.status = rule[r].status
      BY <3>1 DEF Row
    <3>4. rule' = [rule EXCEPT ![r] = q]
      BY <3>2 DEF TypeOK
    <3> HIDE DEF q
    <3>5. \A x \in Rule : rule'[x] = IF x = r THEN q ELSE rule[x]
      BY <3>4 DEF TypeOK
    <3> QED BY <3>3, <3>5
  <2> QED BY <2>1, <2>2 DEF EditRule
<1>3. CASE \E r \in Rule : Switch(r)
  <2>1. PICK r \in Rule : Switch(r)
    BY <1>3
  <2>2. PICK q \in Row : /\ rule' = [rule EXCEPT ![r] = q]
                         /\ q.mark = rule[r].mark /\ q.freq = rule[r].freq
                         /\ q.status # "unused" /\ Exists(r)
    BY <2>1, SwitchStep
  <2>3. UNCHANGED <<today, made, req, tried, failures>>
    BY <2>1, SwitchStep
  <2>4. \A x \in Rule : /\ rule'[x].mark = rule[x].mark
                        /\ rule'[x].status = "unused" => rule[x].status = "unused"
    BY <2>2 DEF TypeOK
  <2> QED BY <2>3, <2>4
<1> QED BY <1>1, <1>2, <1>3

LEMMA NextCopy ==
  ASSUME NEW s \in Slot, Slot = {s}
  PROVE  TypeOK /\ CopyInv /\ [Next]_vars => CopyInv'
<1> SUFFICES ASSUME TypeOK, CopyInv, [Next]_vars PROVE CopyInv'
  OBVIOUS
<1>1. CASE UNCHANGED vars \/ Tick
  BY <1>1 DEF CopyInv, Fresh, High, vars, Tick
<1>2. CASE Load(s)
  BY <1>2, LoadCopy
<1>3. CASE Make(s)
  BY <1>3, MakeCopy
<1>4. CASE Save(s)
  BY <1>4, SaveCopy
<1>5. CASE Refuse(s) \/ Vanished(s) \/ Abort(s)
  BY <1>5, FailCopy DEF Refuse, Vanished, Abort
<1>6. CASE \/ \E r \in Rule : CreateRule(s, r)
           \/ \E r \in Rule : EditRule(r) \/ Switch(r)
  BY <1>6, RowStep, RowCopy
<1> QED BY <1>1, <1>2, <1>3, <1>4, <1>5, <1>6 DEF Next, Steady, Progress, Switch

\* With readers that do not overlap, what is left to make lies after the
\* watermark, and a day after it has a copy only for each request that died.
THEOREM CopiesCounted == ASSUME NEW s \in Slot, Slot = {s} PROVE Spec => []CopyInv
BY InitType, NextType, InitCopy, NextCopy, PTL DEF Spec

\* With readers that do not overlap, an occurrence has at most one expense
\* more than requests have died.
THEOREM Copies == ASSUME NEW s \in Slot, Slot = {s} PROVE Spec => []CopiesBounded
<1>1. TypeOK /\ CopyInv => CopiesBounded
  <2> SUFFICES ASSUME TypeOK, CopyInv, NEW r \in Rule, NEW d \in Day
               PROVE  made[r][d] <= 1 + failures
    BY DEF CopiesBounded
  <2>1. made[r][d] \in Nat /\ failures \in Nat
    BY DEF TypeOK
  <2>2. made[r][d] <= failures + IF d <= High(s, r) THEN 1 ELSE 0
    BY DEF CopyInv, Fresh
  <2> QED BY <2>1, <2>2
<1> QED BY <1>1, InitType, NextType, InitCopy, NextCopy, PTL DEF Spec

\* With readers that do not overlap, no watermark moves back.
THEOREM Forward == ASSUME NEW s \in Slot, Slot = {s} PROVE Spec => MarkForward
<1> DEFINE Ahead == \A r \in Rule : rule'[r].mark >= rule[r].mark
<1>1. TypeOK /\ CopyInv /\ [Next]_vars => [Ahead]_vars
  <2> SUFFICES ASSUME TypeOK, CopyInv, Next PROVE Ahead
    OBVIOUS
  <2>1. ASSUME NEW r \in Rule PROVE rule[r].mark \in Nat
    BY DEF TypeOK, Row
  <2>2. CASE Make(s) \/ Save(s)
    <3>1. rule' = Flushed(req[s])
      BY <2>2, MakeStep DEF Save
    <3> QED BY <3>1, FlushedCopy
  <2>3. CASE rule' = rule
    BY <2>1, <2>3
  <2>4. CASE \/ \E r \in Rule : CreateRule(s, r)
             \/ \E r \in Rule : EditRule(r) \/ Switch(r)
    BY <2>1, <2>4, RowStep
  <2> QED BY <2>2, <2>3, <2>4
          DEF Next, Steady, Progress, Switch, Tick, Load, Refuse, Vanished, Abort, Fail
<1> QED BY <1>1, InitType, NextType, InitCopy, NextCopy, PTL DEF Spec, MarkForward
=============================================================================
