--------------------------- MODULE RecurringRules ---------------------------
(***************************************************************************)
(* The recurring rules of one group and their lazy materialization         *)
(* (app/services/shared_expense_service.py).  No job runs in the           *)
(* background: whoever reads the group's expenses or balances first turns  *)
(* every due occurrence since last_materialized into an expense.           *)
(*                                                                         *)
(* A reader loads the active rules in one query and keeps what it loaded   *)
(* (expire_on_commit=False).  Each occurrence is a commit; the watermark   *)
(* of an occurrence is only set in the session, so it reaches the row with *)
(* the reader's next commit, one occurrence later, and is lost when there  *)
(* is none.                                                                *)
(*                                                                         *)
(* Dates are days counted from 1.  A frequency stands for the days         *)
(* occurrence_at yields from the rule's anchor, and the participants, the  *)
(* values and the amount of a rule for whether they make a valid split.    *)
(***************************************************************************)
EXTENDS Naturals

CONSTANTS Rule,         \* shared_recurring_rules.id values, each used once
          Slot,         \* requests that materialize at the same time
          Frequency,
          Dates,        \* Dates[f]: the days a schedule of frequency f falls on
          Ends,         \* the end dates rules are given; 0 for none
          Splits,       \* whether the templates given to rules split: SUBSET BOOLEAN
          MaxDay,       \* bound: the last day
          MaxMade,      \* bound: expenses made for one occurrence
          MaxFailures,  \* bound: requests that die and lose a watermark
          None

Day == 1..MaxDay
ASSUME DaysAssumption == MaxDay \in Nat
ASSUME DatesAssumption == Dates \in [Frequency -> SUBSET Day]
ASSUME EndsAssumption == Ends \subseteq 0..MaxDay
ASSUME SplitsAssumption == Splits \subseteq BOOLEAN
ASSUME NoneAssumption == None \notin Rule
ASSUME CapsAssumption == MaxMade \in Nat /\ MaxFailures \in Nat

VARIABLES today,
          rule,         \* rule[r]: the row
          made,         \* made[r][d]: expenses created for occurrence d of r
          req,          \* req[s]: the request in slot s
          tried,        \* history: the frequencies r has had
          failures      \* history: requests that died and took a watermark with them

vars == <<today, rule, made, req, tried, failures>>

\* payer: created_by is not NULL.  mark: last_materialized, 0 for NULL.
Row == [status : {"unused", "on", "paused", "gone"}, payer : BOOLEAN,
        splits : BOOLEAN, freq : Frequency, end : 0..MaxDay, mark : 0..MaxDay]

\* due: what is left to make; splits: the rules whose loaded template is
\* valid; cur and mark: the last occurrence made, its watermark not committed.
Request == [pc : {"idle", "load", "make"}, due : [Rule -> SUBSET Day],
            splits : SUBSET Rule, cur : Rule \cup {None}, mark : 0..MaxDay]

NoDue == [r \in Rule |-> {}]
Idle == [pc |-> "idle", due |-> NoDue, splits |-> {}, cur |-> None, mark |-> 0]

\* A watermark is never ahead of the calendar: such a rule would skip the
\* days up to it.
TypeOK == /\ today \in 0..MaxDay
          /\ rule \in [Rule -> Row]
          /\ made \in [Rule -> [Day -> Nat]]
          /\ req \in [Slot -> Request]
          /\ tried \in [Rule -> SUBSET Frequency]
          /\ failures \in Nat
          /\ \A r \in Rule : rule[r].mark <= today
          /\ \A s \in Slot : /\ req[s].mark <= today
                             /\ \A r \in Rule : \A d \in req[s].due[r] : d <= today

Init == /\ today = 0
        /\ rule \in [Rule -> {[status |-> "unused", payer |-> FALSE,
                               splits |-> FALSE, freq |-> f, end |-> 0,
                               mark |-> 0] : f \in Frequency}]
        /\ made = [r \in Rule |-> [d \in Day |-> 0]]
        /\ req = [s \in Slot |-> Idle]
        /\ tried = [r \in Rule |-> {}]
        /\ failures = 0

-----------------------------------------------------------------------------
(* due_occurrences. *)

\* Mutated forms of Due: the last occurrence is made again; the calendar is
\* not looked at.
DueAgain(q) == {d \in Dates[q.freq] : /\ d <= today /\ d >= q.mark
                                      /\ q.end # 0 => d <= q.end}
DueEarly(q) == {d \in Dates[q.freq] : /\ d > q.mark
                                      /\ q.end # 0 => d <= q.end}

Due(q) == {d \in Dates[q.freq] : /\ d <= today /\ d > q.mark
                                 /\ q.end # 0 => d <= q.end}

\* The rules a reader goes through: active, and with a payer.
Generates(q) == q.status = "on" /\ q.payer

-----------------------------------------------------------------------------
(* materialize_due_shared_expenses. *)

Load(s) ==
  /\ req[s].pc \in {"idle", "load"}
  /\ LET due == [r \in Rule |-> IF Generates(rule[r]) THEN Due(rule[r]) ELSE {}]
     IN  req' = [req EXCEPT ![s] =
           IF due = NoDue THEN Idle
           ELSE [pc |-> "make", due |-> due, cur |-> None, mark |-> 0,
                 splits |-> {r \in Rule : rule[r].splits}]]
  /\ UNCHANGED <<today, rule, made, tried, failures>>

\* Mutated form of Left: the newest occurrence of a rule is left out.
LeftButNewest(q) == {r \in Rule : \E d, e \in q.due[r] : d < e}

\* The rules come in no particular order, each with all its occurrences.
Left(q) == {r \in Rule : q.due[r] # {}}
NextRules(q) == IF q.cur \in Left(q) THEN {q.cur} ELSE Left(q)

\* Mutated form of First: the newest occurrence is made first.
Newest(d, S) == d \in S /\ \A e \in S : d >= e

First(d, S) == d \in S /\ \A e \in S : d <= e

\* The watermark still in the session goes out with the next flush, which
\* fails when the rule's row has gone.
Flushed(q) == IF q.cur = None THEN rule
              ELSE [rule EXCEPT ![q.cur].mark = q.mark]
Stale(q) == q.cur # None /\ rule[q.cur].status = "gone"

Fail(s) == /\ req' = [req EXCEPT ![s] = Idle]
           /\ failures' = IF req[s].cur = None THEN failures ELSE failures + 1
           /\ UNCHANGED <<today, rule, made, tried>>
MayFail(s) == req[s].cur = None \/ failures < MaxFailures

\* The request after occurrence d of r is made.
Made(q, r, d) == [q EXCEPT !.due = [q.due EXCEPT ![r] = q.due[r] \ {d}],
                           !.cur = r, !.mark = d]

\* create_shared_expense for the next occurrence, and the watermark set
\* after its commit.
Make(s) ==
  /\ req[s].pc = "make"
  /\ LET q == req[s]
     IN  \E r \in NextRules(q), d \in Day :
           /\ First(d, q.due[r])
           /\ r \in q.splits /\ ~Stale(q)
           /\ made[r][d] < MaxMade
           /\ made' = [made EXCEPT ![r][d] = @ + 1]
           /\ rule' = Flushed(q)
           /\ req' = [req EXCEPT ![s] = Made(q, r, d)]
  /\ UNCHANGED <<today, tried, failures>>

\* _write_splits raises SplitValidationError; nothing since the last commit
\* is kept.
Refuse(s) ==
  /\ req[s].pc = "make"
  /\ \E r \in NextRules(req[s]) : r \notin req[s].splits
  /\ MayFail(s) /\ Fail(s)

\* The last watermark.
Save(s) ==
  /\ req[s].pc = "make" /\ Left(req[s]) = {} /\ ~Stale(req[s])
  /\ rule' = Flushed(req[s])
  /\ req' = [req EXCEPT ![s] = Idle]
  /\ UNCHANGED <<today, made, tried, failures>>

\* A flush that finds no row to update raises StaleDataError.
Vanished(s) == req[s].pc = "make" /\ Stale(req[s]) /\ Fail(s)

\* The server restarts or the connection breaks.
Abort(s) == req[s].pc # "idle" /\ MayFail(s) /\ Fail(s)

-----------------------------------------------------------------------------
(* The rules.  Each operation is one commit, and writes only the columns it *)
(* changes. *)

\* POST /groups/{id}/recurring: the template is not validated; the request
\* goes on to materialize.
CreateRule(s, r) ==
  /\ req[s].pc = "idle" /\ rule[r].status = "unused"
  /\ \E f \in Frequency, end \in Ends, ok \in Splits, payer \in BOOLEAN :
       /\ rule' = [rule EXCEPT ![r] =
            [status |-> "on", payer |-> payer, splits |-> ok, freq |-> f,
             end |-> end, mark |-> 0]]
       /\ tried' = [tried EXCEPT ![r] = {f}]
  /\ req' = [req EXCEPT ![s].pc = "load"]
  /\ UNCHANGED <<today, made, failures>>

Exists(r) == rule[r].status \in {"on", "paused"}

\* PATCH /recurring/{id}: neither the anchor nor the watermark can be edited.
EditRule(r) ==
  /\ Exists(r)
  /\ \E f \in Frequency, end \in Ends, ok \in Splits, payer \in BOOLEAN :
       /\ rule' = [rule EXCEPT ![r].freq = f, ![r].end = end,
                               ![r].splits = ok, ![r].payer = payer]
       /\ tried' = [tried EXCEPT ![r] = @ \cup {f}]
  /\ UNCHANGED <<today, made, req, failures>>

SetActive(r) ==
  /\ Exists(r)
  /\ \E status \in {"on", "paused"} : rule' = [rule EXCEPT ![r].status = status]
  /\ UNCHANGED <<today, made, req, tried, failures>>

DeleteRule(r) ==
  /\ Exists(r)
  /\ rule' = [rule EXCEPT ![r].status = "gone"]
  /\ UNCHANGED <<today, made, req, tried, failures>>

\* The payer deletes the account, or signs up again (freeze_user_references,
\* reconnect_by_email).
PayerLeaves(r) ==
  /\ Exists(r) /\ rule[r].payer
  /\ rule' = [rule EXCEPT ![r].payer = FALSE]
  /\ UNCHANGED <<today, made, req, tried, failures>>

PayerReturns(r) ==
  /\ Exists(r) /\ ~rule[r].payer
  /\ rule' = [rule EXCEPT ![r].payer = TRUE]
  /\ UNCHANGED <<today, made, req, tried, failures>>

Tick == /\ today < MaxDay
        /\ today' = today + 1
        /\ UNCHANGED <<rule, made, req, tried, failures>>

-----------------------------------------------------------------------------
Progress(s) == Make(s) \/ Refuse(s) \/ Save(s) \/ Vanished(s)

\* What happens when no request is cut off.
Steady == \/ Tick
          \/ \E s \in Slot : Load(s) \/ Progress(s)
          \/ \E s \in Slot, r \in Rule : CreateRule(s, r)
          \/ \E r \in Rule : \/ EditRule(r) \/ SetActive(r) \/ DeleteRule(r)
                             \/ PayerLeaves(r) \/ PayerReturns(r)
SteadySpec == Init /\ [][Steady]_vars

Next == Steady \/ \E s \in Slot : Abort(s)

Spec == Init /\ [][Next]_vars

\* Somebody opens the group again and again, and not every such request dies
\* before it has done anything.
Fairness == \A s \in Slot : WF_vars(Load(s)) /\ SF_vars(Progress(s))
FairSpec == Spec /\ Fairness

-----------------------------------------------------------------------------
(* Properties. *)

\* No occurrence is lost behind the watermark: a day on every schedule the
\* rule has ever had, at or before the watermark, has its expense, whatever
\* readers, edits, pauses and crashes came in between.
Common(r) == {d \in Day : \A f \in tried[r] : d \in Dates[f]}
NoGap == \A r \in Rule : \A d \in Common(r) :
           rule[r].mark >= d => made[r][d] >= 1

\* Of what a reader still has to make, the days before are made or in its
\* list; the days up to the watermark it carries are made.
Listed(s, r) == \A e \in req[s].due[r], d \in Common(r) :
                  d < e => made[r][d] >= 1 \/ d \in req[s].due[r]
Carried(s) == \A r \in Rule : \A d \in Common(r) :
                req[s].cur = r /\ d <= req[s].mark => made[r][d] >= 1
Tracked(r) == /\ rule[r].status = "unused" => tried[r] = {}
              /\ Exists(r) => rule[r].freq \in tried[r]
\* Why no occurrence is lost: what each reader still carries and has listed,
\* however stale, leaves nothing out.
GapInv == /\ NoGap /\ \A r \in Rule : Tracked(r)
          /\ \A s \in Slot : Carried(s) /\ \A r \in Rule : Listed(s, r)

\* One reader at a time: a request that dies costs at most one copy of an
\* occurrence, because each commit carries the watermark before it.
CopiesBounded == \A r \in Rule, d \in Day : made[r][d] <= 1 + failures

\* One reader at a time: the watermark never moves back.
MarkForward == [][\A r \in Rule : rule'[r].mark >= rule[r].mark]_vars

\* The watermark, with the part of it still in the session.
High(s, r) == IF req[s].cur = r THEN req[s].mark ELSE rule[r].mark
Fresh(s, r) ==
  /\ req[s].cur = r => req[s].mark > rule[r].mark
  /\ \A e \in req[s].due[r] : e > High(s, r)
  /\ \A d \in Day : made[r][d] <= failures + IF d <= High(s, r) THEN 1 ELSE 0
  /\ rule[r].status = "unused" =>
       req[s].cur # r /\ req[s].due[r] = {} /\ rule[r].mark = 0
\* Why one reader at a time makes few copies: what is left to make lies after
\* the watermark, and a day after it has a copy only for each watermark lost.
CopyInv == \A s \in Slot :
             /\ req[s].pc # "make" => req[s].cur = None /\ req[s].due = NoDue
             /\ \A r \in Rule : Fresh(s, r)

\* No occurrence is made twice ("materializing twice in a row does not
\* duplicate").
OnceEach == \A r \in Rule, d \in Day : made[r][d] <= 1

\* An occurrence that stays due is made in the end, as long as the templates
\* of the active rules stay valid.
Wanted(r, d) == Generates(rule[r]) /\ d \in Due(rule[r])
TemplatesValid == \A r \in Rule : rule[r].status = "on" => rule[r].splits
AllMade == \A r \in Rule, d \in Day :
             Wanted(r, d) ~> made[r][d] > 0 \/ ~Wanted(r, d) \/ ~TemplatesValid
=============================================================================
