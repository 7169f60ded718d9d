--------------------------- MODULE PersonalLedger ---------------------------
(***************************************************************************)
(* The personal ledger of one user: accounts, transactions and transfers,  *)
(* recurring rules, savings goals and budgets (the services of app/ whose  *)
(* rows carry a clerk_user_id; no row of one user refers to another's).    *)
(*                                                                         *)
(* Requests of several devices overlap.  Most read what they need and      *)
(* write it in one commit, which a foreign key refuses when the account    *)
(* they found has gone; they are one step here, that of the commit.  Two   *)
(* do more: GET /accounts makes transactions by the rules it has loaded,   *)
(* and PUT /budgets writes by the budget it has found.                     *)
(***************************************************************************)
EXTENDS RecurringDates

CONSTANTS Account, Rule,   \* ids, each used once
          Slot,            \* GET /accounts and PUT /budgets requests at a time
          Days,            \* bound: the days requests are made on, as numbers
          Starts,          \* the dates rules are given to start on
          Terms,           \* and the frequencies and ends; 0 for none
          Amounts,         \* signed
          Text,            \* what is typed for a budget's category
          Stripped,        \* the text without the spaces around it
          Limits,          \* the limits asked for
          Years,           \* bound: the years schedules are looked at
          MaxRequests,     \* bound: requests, those that create an account apart
          None

ASSUME DaysAssumption == Days \subseteq Nat \ {0} /\ Days # {}
ASSUME StartsAssumption == Starts \subseteq Date /\ \A t \in Starts : Real(t)
\* Long enough for every occurrence that can be due.
ASSUME YearsAssumption ==
  /\ Years \subseteq Nat \ {0}
  /\ \A t \in Starts, d \in Days : \E y \in Years :
       t.year..y \subseteq Years /\ d < Number(At(y + 1, 1, 1))
ASSUME TermsAssumption == Terms \subseteq [frequency : Frequency, end : Nat]
ASSUME AmountsAssumption == Amounts \subseteq Int /\ MaxRequests \in Nat
ASSUME TextAssumption == Stripped \in [Text -> Text] /\ Limits \subseteq Nat

VARIABLES today,
          account,        \* account[a]: whether there is a row
          transactions,
          rule,           \* rule[r]: the row, if there is one
          goals, budgets,
          req,            \* req[s]: the GET /accounts in slot s
          upsert,         \* upsert[s]: the PUT /budgets in slot s
          asked,          \* history: asked[c]: the limits the last PUT answered for c
                          \*          may have left
          sent,           \* history: the transfers as they were made
          edited,         \* history: the transfers a leg of which was edited
          made,           \* history: made[r][d]: transactions made for day d
          tried,          \* history: the frequencies r has had
          laps,           \* history: readers that wrote over another's watermark
          requests        \* history: how many there were

budgeting == <<budgets, upsert, asked>>
rows == <<account, transactions, rule, goals, budgeting>>
vars == <<today, rows, req, sent, edited, made, tried, laps, requests>>

\* Ids are numbers of requests; the rows of one request differ in account, or
\* in the rule and the day they were made for, which are no columns.
\* transfer: transfer_group_id.
Transaction == [id : Nat, account : Account, amount : Int,
                transfer : Nat \cup {None}, rule : Rule \cup {None}, due : Nat]
RuleRow == [account : Account, amount : Int, frequency : Frequency,
            first : Date, end : Nat, last : Nat]   \* last: last_materialized, or 0
ASSUME NoneAssumption == None \notin Rule /\ None \notin Nat /\ None \notin RuleRow
Goal == [id : Nat, account : Account]
Budget == [id : Nat, category : Text, limit : Nat]
Transfer == [id : Nat, from : Account, to : Account, amount : Int]
Request == [pc : {"idle", "rules"}, rules : [Rule -> RuleRow \cup {None}], day : Nat]
Idle == [pc |-> "idle", rules |-> [r \in Rule |-> None], day |-> 0]
\* since: the limits other requests gave the budget since it was found.
Upsert == [pc : {"idle", "found"}, id : Nat, text : Text \cup {None}, limit : Nat,
           seen : Budget \cup {None}, since : SUBSET Nat]
NoUpsert == [pc |-> "idle", id |-> 0, text |-> None, limit |-> 0, seen |-> None,
             since |-> {}]

\* A watermark is never ahead of the calendar: such a rule would skip days.
Past(q) == q # None => q.last <= today
TypeOK ==
  /\ today \in Days
  /\ account \in [Account -> {"unused", "open", "gone"}]
  /\ transactions \subseteq Transaction
  /\ rule \in [Rule -> RuleRow \cup {None}]
  /\ goals \subseteq Goal /\ budgets \subseteq Budget
  /\ req \in [Slot -> Request] /\ upsert \in [Slot -> Upsert]
  /\ \A s \in Slot : upsert[s].pc = "found" => upsert[s].text \in Text
  /\ asked \in [Text -> SUBSET Nat]
  /\ \A r \in Rule : Past(rule[r]) /\ \A s \in Slot : Past(req[s].rules[r])
  /\ \A s \in Slot : req[s].day <= today
  /\ sent \subseteq Transfer /\ edited \subseteq Nat
  /\ DOMAIN made = Rule /\ \A r \in Rule : /\ DOMAIN made[r] \subseteq Nat
                                        /\ made[r] \in [DOMAIN made[r] -> Nat]
  /\ tried \in [Rule -> SUBSET Frequency]
  /\ laps \in [Rule -> Nat] /\ requests \in Nat

Init ==
  /\ today \in {d \in Days : \A e \in Days : d <= e}
  /\ account = [a \in Account |-> "unused"]
  /\ transactions = {} /\ goals = {} /\ budgets = {}
  /\ rule = [r \in Rule |-> None]
  /\ req = [s \in Slot |-> Idle] /\ upsert = [s \in Slot |-> NoUpsert]
  /\ asked = [c \in Text |-> {}]
  /\ sent = {} /\ edited = {}
  /\ made = [r \in Rule |-> [d \in {} |-> 0]]
  /\ tried = [r \in Rule |-> {}] /\ laps = [r \in Rule |-> 0]
  /\ requests = 0

-----------------------------------------------------------------------------
(* Accounts. *)

Arrives == requests < MaxRequests /\ requests' = requests + 1
Open(a) == account[a] = "open"
Free(s) == req[s].pc = "idle" /\ upsert[s].pc = "idle"

CreateAccount(a) ==
  /\ account[a] = "unused"
  /\ account' = [account EXCEPT ![a] = "open"]
  /\ UNCHANGED <<today, transactions, rule, goals, budgeting, req, sent, edited,
                 made, tried, laps, requests>>

\* Mutated form of Without: the rules of the account stay.
WithoutButRules(a) ==
  /\ transactions' = {x \in transactions : x.account # a}
  /\ goals' = {x \in goals : x.account # a}
  /\ rule' = rule
\* What refers to an account goes with it: ON DELETE CASCADE.
Without(a) ==
  /\ transactions' = {x \in transactions : x.account # a}
  /\ goals' = {x \in goals : x.account # a}
  /\ rule' = [r \in Rule |->
       IF rule[r] # None /\ rule[r].account = a THEN None ELSE rule[r]]

DeleteAccount(a) ==
  /\ Open(a) /\ Arrives
  /\ account' = [account EXCEPT ![a] = "gone"]
  /\ Without(a)
  /\ UNCHANGED <<today, budgeting, req, sent, edited, made, tried, laps>>

-----------------------------------------------------------------------------
(* Transactions and transfers. *)

Plain(a, amount, transfer) ==
  [id |-> requests, account |-> a, amount |-> amount, transfer |-> transfer,
   rule |-> None, due |-> 0]

CreateTransaction(a) ==
  /\ Open(a) /\ Arrives
  /\ \E amount \in Amounts : transactions' = transactions \cup {Plain(a, amount, None)}
  /\ UNCHANGED <<today, account, rule, goals, budgeting, req, sent, edited,
                 made, tried, laps>>

\* create_transfer: both legs in one commit.
CreateTransfer(a, b) ==
  /\ a # b /\ Open(a) /\ Open(b) /\ Arrives
  /\ \E amount \in {x \in Amounts : x > 0} :
       /\ transactions' = transactions \cup
            {Plain(a, -amount, requests), Plain(b, amount, requests)}
       /\ sent' = sent \cup {[id |-> requests, from |-> a, to |-> b, amount |-> amount]}
  /\ UNCHANGED <<today, account, rule, goals, budgeting, req, edited, made, tried, laps>>

\* update_transaction: of a transfer, one leg.
UpdateTransaction(x) ==
  /\ Arrives
  /\ \E amount \in Amounts :
       transactions' = (transactions \ {x}) \cup {[x EXCEPT !.amount = amount]}
  /\ edited' = edited \cup ({x.transfer} \ {None})
  /\ UNCHANGED <<today, account, rule, goals, budgeting, req, sent, made, tried, laps>>

\* Mutated form of Pair: the other leg stays, as it does in ledger-app.
JustOne(x) == {x}
\* The rows deleted with x: of a transfer, both legs.
Pair(x) == IF x.transfer = None THEN {x}
           ELSE {y \in transactions : y.transfer = x.transfer}

DeleteTransaction(x) ==
  /\ Arrives
  /\ transactions' = transactions \ Pair(x)
  /\ UNCHANGED <<today, account, rule, goals, budgeting, req, sent, edited,
                 made, tried, laps>>

-----------------------------------------------------------------------------
(* Recurring rules. *)

CreateRule(r, a) ==
  /\ tried[r] = {} /\ Open(a) /\ Arrives
  /\ \E first \in Starts, t \in Terms, amount \in Amounts :
       /\ rule' = [rule EXCEPT ![r] =
            [account |-> a, amount |-> amount, frequency |-> t.frequency,
             first |-> first, end |-> t.end, last |-> 0]]
       /\ tried' = [tried EXCEPT ![r] = {t.frequency}]
  /\ UNCHANGED <<today, account, transactions, goals, budgeting, req, sent, edited,
                 made, laps>>

\* An end that was given cannot be taken away; 0 leaves it as it is.
UpdateRule(r) ==
  /\ rule[r] # None /\ Arrives
  /\ \E t \in Terms :
       /\ rule' = [rule EXCEPT ![r].frequency = t.frequency,
                               ![r].end = IF t.end = 0 THEN @ ELSE t.end]
       /\ tried' = [tried EXCEPT ![r] = @ \cup {t.frequency}]
  /\ UNCHANGED <<today, account, transactions, goals, budgeting, req, sent, edited,
                 made, laps>>

DeleteRule(r) ==
  /\ rule[r] # None /\ Arrives
  /\ rule' = [rule EXCEPT ![r] = None]
  /\ UNCHANGED <<today, account, transactions, goals, budgeting, req, sent, edited,
                 made, tried, laps>>

-----------------------------------------------------------------------------
(* GET /accounts: materialize_due_transactions. *)

LoadRules(s) ==
  /\ Free(s) /\ \E r \in Rule : rule[r] # None
  /\ req' = [req EXCEPT ![s] = [pc |-> "rules", rules |-> rule, day |-> today]]
  /\ UNCHANGED <<today, rows, sent, edited, made, tried, laps, requests>>

\* Mutated form of DueOf: only the most recent occurrence.
NewestOf(q, day) ==
  IF q = None THEN {}
  ELSE LET due == DueOccurrences(q.first, q.frequency, q.end, q.last, day)
       IN  {d \in due : \A e \in due : e <= d}
DueOf(q, day) == IF q = None THEN {}
                 ELSE DueOccurrences(q.first, q.frequency, q.end, q.last, day)
Copies(r, d) == IF d \in DOMAIN made[r] THEN made[r][d] ELSE 0

\* Mutated form of Watermark: the day after the last one made.
DayAfter(due) == 1 + CHOOSE d \in due : \A e \in due : e <= d
\* The last one made.
Watermark(due) == CHOOSE d \in due : \A e \in due : e <= d

MadeRows(q, r, due) ==
  {[id |-> requests, account |-> q.account, amount |-> q.amount,
    transfer |-> None, rule |-> r, due |-> d] : d \in due}

\* The UPDATE of a rule that has gone raises StaleDataError.
StillThere(r) == rule[r] # None

\* One commit for all the rules.  The calendar is looked at once after they
\* were loaded.
Materialize(s) ==
  /\ req[s].pc = "rules"
  /\ \E day \in {d \in Days : req[s].day <= d /\ d <= today} :
     \E due \in {[r \in Rule |-> DueOf(req[s].rules[r], day)]} :
       LET seen == req[s].rules
           some == {r \in Rule : due[r] # {}}
       IN  /\ \A r \in some : StillThere(r)
           /\ some # {} => Arrives
           /\ some = {} => UNCHANGED requests
           /\ transactions' = transactions \cup
                UNION {MadeRows(seen[r], r, due[r]) : r \in some}
           /\ rule' = [r \in Rule |->
                IF r \in some THEN [rule[r] EXCEPT !.last = Watermark(due[r])]
                ELSE rule[r]]
           /\ made' = [r \in Rule |-> [d \in DOMAIN made[r] \cup due[r] |->
                Copies(r, d) + IF d \in due[r] THEN 1 ELSE 0]]
           /\ laps' = [r \in Rule |->
                laps[r] + IF r \in some /\ rule[r].last # seen[r].last THEN 1 ELSE 0]
  /\ req' = [req EXCEPT ![s] = Idle]
  /\ UNCHANGED <<today, account, goals, budgeting, sent, edited, tried>>

\* An error, a restart.
Abort(s) == /\ req[s].pc = "rules"
            /\ req' = [req EXCEPT ![s] = Idle]
            /\ UNCHANGED <<today, rows, sent, edited, made, tried, laps, requests>>

-----------------------------------------------------------------------------
(* Budgets and savings goals. *)

\* Mutated form of Taken: without ux_budgets_clerk_user_id_category.
NeverTaken(category) == FALSE
\* The unique index.
Taken(category) == \E b \in budgets : b.category = category

\* upsert_budget looks for the category as it was typed.
FindBudget(s) ==
  /\ Free(s) /\ Arrives
  /\ \E text \in Text, limit \in Limits :
       LET found == {b \in budgets : b.category = text}
       IN  \E seen \in IF found = {} THEN {None} ELSE found :
             upsert' = [upsert EXCEPT ![s] =
               [pc |-> "found", id |-> requests, text |-> text, limit |-> limit,
                seen |-> seen, since |-> {}]]
  /\ UNCHANGED <<budgets, asked>>

\* It inserts it without the spaces around it.
InsertBudget(s) ==
  LET u == upsert[s]
      category == Stripped[u.text]
  IN  /\ u.pc = "found" /\ u.seen = None /\ ~Taken(category)
      /\ budgets' = budgets \cup {[id |-> u.id, category |-> category, limit |-> u.limit]}
      /\ asked' = [asked EXCEPT ![category] = {u.limit}]
      /\ upsert' = [upsert EXCEPT ![s] = NoUpsert]
      /\ UNCHANGED requests

\* What an update leaves of the limit.  A column set to the value it was read
\* with is not written, unless the number does not compare equal as a float.
Left(u, now) == IF u.limit = u.seen.limit THEN {u.limit, now} ELSE {u.limit}

\* Another budget with the category is another row: StaleDataError when the
\* one that was found has gone, or an error on refreshing it.
UpdateBudget(s) ==
  LET u == upsert[s]
  IN  /\ u.pc = "found" /\ u.seen # None
      /\ \E b \in {x \in budgets : x.id = u.seen.id} : \E limit \in Left(u, b.limit) :
           /\ budgets' = (budgets \ {b}) \cup {[b EXCEPT !.limit = limit]}
           /\ asked' = [asked EXCEPT ![b.category] =
                          IF limit = u.limit THEN {limit} ELSE u.since]
           /\ upsert' = [t \in Slot |->
                IF t = s THEN NoUpsert
                ELSE IF upsert[t].seen # None /\ upsert[t].seen.id = b.id
                     THEN [upsert[t] EXCEPT !.since = @ \cup {limit}] ELSE upsert[t]]
      /\ UNCHANGED requests

\* IntegrityError, a budget that has gone, a restart.
DropUpsert(s) == /\ upsert[s].pc = "found"
                 /\ upsert' = [upsert EXCEPT ![s] = NoUpsert]
                 /\ UNCHANGED <<budgets, asked, requests>>

UpsertBudget(s) ==
  /\ FindBudget(s) \/ InsertBudget(s) \/ UpdateBudget(s) \/ DropUpsert(s)
  /\ UNCHANGED <<today, account, transactions, rule, goals, req, sent, edited, made,
                 tried, laps>>

DeleteBudget(b) ==
  /\ Arrives
  /\ budgets' = budgets \ {b}
  /\ UNCHANGED <<today, account, transactions, rule, goals, req, upsert, asked, sent,
                 edited, made, tried, laps>>

CreateGoal(a) ==
  /\ Open(a) /\ Arrives
  /\ goals' = goals \cup {[id |-> requests, account |-> a]}
  /\ UNCHANGED <<today, account, transactions, rule, budgeting, req, sent, edited,
                 made, tried, laps>>

UpdateGoal(g, a) ==
  /\ Open(a) /\ Arrives
  /\ goals' = (goals \ {g}) \cup {[g EXCEPT !.account = a]}
  /\ UNCHANGED <<today, account, transactions, rule, budgeting, req, sent, edited,
                 made, tried, laps>>

DeleteGoal(g) ==
  /\ Arrives
  /\ goals' = goals \ {g}
  /\ UNCHANGED <<today, account, transactions, rule, budgeting, req, sent, edited,
                 made, tried, laps>>

Tick == /\ today' \in {d \in Days : d > today}
        /\ UNCHANGED <<rows, req, sent, edited, made, tried, laps, requests>>

-----------------------------------------------------------------------------
Next == \/ \E a \in Account : \/ CreateAccount(a) \/ DeleteAccount(a)
                              \/ CreateTransaction(a) \/ CreateGoal(a)
        \/ \E a, b \in Account : CreateTransfer(a, b)
        \/ \E x \in transactions : UpdateTransaction(x) \/ DeleteTransaction(x)
        \/ \E r \in Rule, a \in Account : CreateRule(r, a)
        \/ \E r \in Rule : UpdateRule(r) \/ DeleteRule(r)
        \/ \E s \in Slot : \/ LoadRules(s) \/ Materialize(s) \/ Abort(s)
                           \/ UpsertBudget(s)
        \/ \E b \in budgets : DeleteBudget(b)
        \/ \E g \in goals, a \in Account : UpdateGoal(g, a)
        \/ \E g \in goals : DeleteGoal(g)
        \/ Tick

Spec == Init /\ [][Next]_vars

-----------------------------------------------------------------------------
(* Properties. *)

\* Nothing refers to an account that has gone, although rows are inserted for
\* accounts found, and rules loaded, before it went.
NothingDangles ==
  /\ \A x \in transactions : Open(x.account)
  /\ \A r \in Rule : rule[r] # None => Open(rule[r].account)
  /\ \A g \in goals : Open(g.account)

\* "A half-deleted transfer is a confusing, inconsistent state": of a transfer
\* there are both legs or neither, except for the leg of an account that has
\* gone; and unless one of them was edited, what left one account is what
\* came to the other.
TransfersPaired == \A t \in sent :
  LET legs == {x \in transactions : x.transfer = t.id}
  IN  /\ legs = {} \/ {x.account : x \in legs} = {a \in {t.from, t.to} : Open(a)}
      /\ t.id \notin edited =>
           \A x \in legs : x.amount = IF x.account = t.from THEN -t.amount ELSE t.amount

\* "Setting a limit for a category the user already budgets for updates that
\* row, not a silent duplicate": whatever finds overlap and however it is typed,
\* the limit of a category is the one last asked for.  But a request that asks
\* for the limit it has found leaves one that others set while it was open.
LastLimitStays == \A b \in budgets : b.limit \in asked[b.category]

\* Readers that overlap may make an occurrence twice, and one that is delayed
\* over midnight may move the watermark back; each that writes over the
\* watermark of another costs at most one copy of an occurrence.
CopiesBounded == \A r \in Rule : \A d \in DOMAIN made[r] : made[r][d] <= 1 + laps[r]

\* The days made are days of a schedule the rule has had, the last day of a
\* shorter month included, and none that all of them share is left out behind
\* the watermark: "a schedule that hasn't been checked in months still
\* generates every occurrence it missed".
Calendars ==
  [first \in Starts |-> [f \in {t.frequency : t \in Terms} |-> Schedule(first, f, Years)]]
AsScheduled == \A r \in Rule : rule[r] # None =>
  /\ \A d \in DOMAIN made[r] : \E f \in tried[r] : d \in Calendars[rule[r].first][f]
  /\ \A d \in Calendars[rule[r].first][rule[r].frequency] :
       (d <= rule[r].last /\ \A f \in tried[r] : d \in Calendars[rule[r].first][f])
         => Copies(r, d) >= 1
=============================================================================
