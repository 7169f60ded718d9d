---------------------------- MODULE SharedLedger ----------------------------
(***************************************************************************)
(* Shared expenses with their splits, settlements, and what people owe     *)
(* each other (app/services/shared_expense_service.py).                    *)
(*                                                                         *)
(* A person is an email.  A row naming a person is attached to the         *)
(* person's account (user_id) or not (NULL), which is the BOOLEAN user of  *)
(* the rows here.  Requests commit once, except that an edit reads its     *)
(* expense, the people on it and the rows it replaces one after the other, *)
(* while other edits commit.  Accounts come and go between requests: what  *)
(* happens when they do so in the middle of one is SharedIdentity's        *)
(* subject.  A person with an account is named by id, others by email, and *)
(* a request names nobody twice.  Of names only the payer's is kept: an    *)
(* edit compares it to tell whether the payer changes.                     *)
(***************************************************************************)
EXTENDS SplitMath

CONSTANTS Person, Expense, Slot,
          Group, GroupOf,   \* the group each expense is made in
          Creates, Edits,   \* the requests clients send
          Payments,         \* the amounts that change hands
          Founders,         \* the people who have an account at the start
          Name, NameOf,     \* the name each person signs up with
          MaxRequests,      \* bound: requests altogether
          None

People == SUBSET Person \ {{}}
IsValues(v) == DOMAIN v \subseteq Person /\ \A p \in DOMAIN v : v[p] \in Int
\* name: what a payer without an account is called.
IsCreate(q) == /\ q.payer \in Person /\ q.amount \in Nat /\ q.type \in SplitTypes
               /\ q.who \in People /\ IsValues(q.values) /\ q.name \in Name
\* None: leave it as it is.
IsEdit(q) == /\ q.payer \in Person \cup {None} /\ q.amount \in Nat \cup {None}
             /\ q.type \in SplitTypes \cup {None} /\ (q.who # None => q.who \in People)
             /\ (q.values # None => IsValues(q.values)) /\ q.name \in Name

ASSUME GroupAssumption == GroupOf \in [Expense -> Group]
ASSUME RequestsAssumption == /\ \A q \in Creates : IsCreate(q)
                             /\ \A q \in Edits : IsEdit(q)
ASSUME FoundersAssumption == Founders \subseteq Person /\ IsFiniteSet(Person)
ASSUME NameAssumption == NameOf \in [Person -> Name]
ASSUME PaymentsAssumption == Payments \subseteq Nat /\ MaxRequests \in Nat
ASSUME NoneAssumption == None \notin Person \cup Nat \cup SplitTypes

VARIABLES live,         \* the people with an account
          seats,        \* seats[g]: the people with a row in group_members
          invited,      \* pending_group_invites
          expense,      \* expense[e]: the row
          splits,       \* shared_expense_splits
          notes,        \* notes[e]: system comments
          settlements,
          req,          \* req[s]: the edit in slot s
          stale,        \* history: expenses last split by an edit that overlapped another
          requests      \* history: how many there were

ledger == <<live, seats, invited, expense, splits, notes, settlements>>
vars == <<ledger, req, stale, requests>>

\* name: paid_by_name_snapshot.
ExpenseRow == [status : {"unused", "on", "gone"}, payer : Person \cup {None},
               name : Name \cup {None}, user : BOOLEAN, amount : Nat, type : SplitTypes]
NoRow(status) == [status |-> status, payer |-> None, name |-> None, user |-> FALSE,
                  amount |-> 0, type |-> "equal"]
\* n tells the rows of one edit from those of another, as their ids do.
SplitRow == [expense : Expense, n : Nat, who : Person, user : BOOLEAN, cents : Int]
Settlement == [id : Nat, from : Person, fromUser : BOOLEAN,
               to : Person, toUser : BOOLEAN, cents : Nat]

\* fresh: no other edit of the expense has split it since this one read it.
Request == [pc : {"idle", "read", "who", "old"}, expense : Expense \cup {None},
            edit : Edits \cup {None}, seen : ExpenseRow \cup {None},
            who : SUBSET Person, old : SUBSET SplitRow, fresh : BOOLEAN]
Idle == [pc |-> "idle", expense |-> None, edit |-> None, seen |-> None,
         who |-> {}, old |-> {}, fresh |-> TRUE]

TypeOK ==
  /\ live \subseteq Person
  /\ seats \in [Group -> SUBSET Person]
  /\ invited \in [Group -> SUBSET Person]
  /\ expense \in [Expense -> ExpenseRow]
  /\ splits \subseteq SplitRow
  /\ notes \in [Expense -> Nat]
  /\ settlements \subseteq Settlement
  /\ req \in [Slot -> Request]
  /\ \A s \in Slot : req[s].pc # "idle" =>
       req[s].expense \in Expense /\ req[s].edit \in Edits /\ req[s].seen \in ExpenseRow
  /\ stale \subseteq Expense
  /\ requests \in Nat

\* The groups were made with everybody: those without an account are invited.
Init ==
  /\ live = Founders
  /\ seats = [g \in Group |-> live]
  /\ invited = [g \in Group |-> Person \ live]
  /\ expense = [e \in Expense |-> NoRow("unused")]
  /\ splits = {} /\ notes = [e \in Expense |-> 0] /\ settlements = {}
  /\ req = [s \in Slot |-> Idle]
  /\ stale = {} /\ requests = 0

-----------------------------------------------------------------------------
(* Queries. *)

SplitsOf(e) == {r \in splits : r.expense = e}
IsMember(p, g) == p \in live /\ p \in seats[g]
Accessible(e) == \E p \in Person : IsMember(p, GroupOf[e])
\* Whom a request may name: members by id, people without an account by email.
MayName(S, g) == S \cap live \subseteq seats[g]

Arrives == requests < MaxRequests /\ requests' = requests + 1
Quiet == \A s \in Slot : req[s].pc = "idle"

\* What the payer of a request is called.
NameFor(q) == IF q.payer \in live THEN NameOf[q.payer] ELSE q.name

\* ensure_pending_invite, committed before anything else is.
Invite(S, g) == [invited EXCEPT ![g] = @ \cup (S \ live)]

-----------------------------------------------------------------------------
(* Creating an expense. *)

\* create_expense: its rows, attached for those who have an account.
Rows(e, n, f) ==
  {[expense |-> e, n |-> n, who |-> p, user |-> p \in live, cents |-> f[p]] :
     p \in DOMAIN f}

Create(e) ==
  /\ expense[e].status = "unused" /\ Accessible(e) /\ Arrives
  /\ \E q \in Creates :
       LET named == q.who \cup {q.payer}
           parts == Divisions(q.type, q.amount, q.who, q.values)
       IN  /\ MayName(named, GroupOf[e])
           /\ invited' = Invite(named, GroupOf[e])
           /\ IF parts = {} THEN UNCHANGED <<expense, splits>>
              ELSE /\ expense' = [expense EXCEPT ![e] =
                        [status |-> "on", payer |-> q.payer, name |-> NameFor(q),
                         user |-> q.payer \in live, amount |-> q.amount, type |-> q.type]]
                   /\ \E f \in parts : splits' = splits \cup Rows(e, 0, f)
  /\ UNCHANGED <<live, seats, notes, settlements, req, stale>>

-----------------------------------------------------------------------------
(* Editing an expense: edit_expense, edit_shared_expense, _write_splits. *)

\* What edit q makes of the row it has seen.
Changes(q, row) == [amount |-> q.amount \notin {None, row.amount},
                    payer  |-> q.payer \notin {None, row.payer},
                    people |-> q.who # None,
                    config |-> q.type # None \/ q.values # None]
\* The payer is called something else: another person, or the same one.
NewName(q, row) == q.payer # None /\ NameFor(q) # row.name
Resplits(q, row) == LET ch == Changes(q, row) IN ch.amount \/ ch.people \/ ch.config
Given(new, old) == IF new = None THEN old ELSE new
TypeFor(q, row) == Given(q.type, row.type)

\* Columns are written only when they differ from what was read, and then
\* with the next query, which locks the row until the commit.  The type is set
\* after the people on the expense have been looked up.
LocksFirst(q, row) ==
  Changes(q, row).amount \/ Changes(q, row).payer \/ NewName(q, row)
Locks(q, row) == \/ LocksFirst(q, row)
                 \/ Resplits(q, row) /\ TypeFor(q, row) # row.type

Open(s, e) ==
  /\ req[s].pc = "idle" /\ expense[e].status = "on" /\ Accessible(e) /\ Arrives
  /\ \E q \in Edits :
       LET named == Given(q.who, {}) \cup (IF q.payer = None THEN {} ELSE {q.payer})
       IN  /\ MayName(named, GroupOf[e])
           /\ invited' = Invite(named, GroupOf[e])
           /\ req' = [req EXCEPT ![s] = [Idle EXCEPT !.pc = "read", !.expense = e,
                                           !.edit = q, !.seen = expense[e]]]
  /\ UNCHANGED <<live, seats, expense, splits, notes, settlements, stale>>

\* The people on the expense, when the edit does not name them.
WhoFor(s) == Given(req[s].edit.who, {r.who : r \in SplitsOf(req[s].expense)})

LoadWho(s) ==
  /\ req[s].pc = "read"
  /\ Resplits(req[s].edit, req[s].seen) /\ ~LocksFirst(req[s].edit, req[s].seen)
  /\ req' = [req EXCEPT ![s].pc = "who", ![s].who = WhoFor(s)]
  /\ UNCHANGED <<ledger, stale, requests>>

LoadOld(s) ==
  /\ req[s].pc = "who" /\ ~Locks(req[s].edit, req[s].seen)
  /\ req' = [req EXCEPT ![s].pc = "old", ![s].old = SplitsOf(req[s].expense)]
  /\ UNCHANGED <<ledger, stale, requests>>

\* Values come by user id or by email.  Of people who are taken from the rows
\* only the hash of an email is known, so no value is found for those without
\* an account.
Heard(q) == LET v == Given(q.values, <<>>)
            IN  IF q.who = None THEN [p \in DOMAIN v \cap live |-> v[p]] ELSE v

\* Mutated form of Written: an amount that was not sent is written.
WrittenAnyway(q, row, now) == [now EXCEPT !.amount = q.amount]

\* The columns written are those the edit changes; another's stay.
Written(q, row, now) ==
  [now EXCEPT !.amount = IF Changes(q, row).amount THEN q.amount ELSE @,
              !.payer = IF Changes(q, row).payer THEN q.payer ELSE @,
              !.user = IF Changes(q, row).payer THEN q.payer \in live ELSE @,
              !.name = IF NewName(q, row) THEN NameFor(q) ELSE @,
              !.type = IF Resplits(q, row) /\ TypeFor(q, row) # row.type
                       THEN TypeFor(q, row) ELSE @]

\* Mutated form of Remaining: the rows of people without an account are kept.
RemainingFrozen(old) == splits \ {r \in old : r.user}
\* Deleting a row that has gone already is not an error.
Remaining(old) == splits \ old

Outdated(e, s) == [t \in Slot |->
  IF t = s THEN Idle
  ELSE [req[t] EXCEPT !.fresh = @ /\ req[t].expense # e]]

\* Mutated form of Comments: editing the amount goes without a word.
CommentsButAmount(q, row) == LET ch == Changes(q, row)
                             IN  IF NewName(q, row) \/ ch.people \/ ch.config THEN 1 ELSE 0
\* A payer is a change only under another name.
Comments(q, row) ==
  LET ch == Changes(q, row)
  IN  IF NewName(q, row) \/ ch.amount \/ ch.people \/ ch.config THEN 1 ELSE 0

\* The commit.  The row written with updated_at must still be there.
Finish(s, who, old) ==
  LET e == req[s].expense
      q == req[s].edit
      row == req[s].seen
      amount == IF Changes(q, row).amount THEN q.amount ELSE row.amount
      n == notes[e] + 1
  IN  /\ expense[e].status = "on"
      /\ expense' = [expense EXCEPT ![e] = Written(q, row, @)]
      /\ notes' = [notes EXCEPT ![e] = @ + Comments(q, row)]
      /\ IF Resplits(q, row)
         THEN /\ \E f \in Divisions(TypeFor(q, row), amount, who, Heard(q)) :
                   splits' = Remaining(old) \cup Rows(e, n, f)
              /\ stale' = IF req[s].fresh THEN stale \ {e} ELSE stale \cup {e}
              /\ req' = Outdated(e, s)
         ELSE /\ req' = [req EXCEPT ![s] = Idle]
              /\ UNCHANGED <<splits, stale>>
      /\ UNCHANGED <<live, seats, invited, settlements, requests>>

\* With the row locked nobody else commits an edit of it, so that what
\* follows is one step.
CommitLocked(s) ==
  LET q == req[s].edit
      row == req[s].seen
      old == SplitsOf(req[s].expense)
  IN  \/ /\ req[s].pc = "read" /\ (Resplits(q, row) => LocksFirst(q, row))
         /\ Finish(s, WhoFor(s), old)
      \/ /\ req[s].pc = "who" /\ Locks(q, row)
         /\ Finish(s, req[s].who, old)

CommitSplits(s) == req[s].pc = "old" /\ Finish(s, req[s].who, req[s].old)

\* SplitValidationError, an expense that has gone, a deadlock the database
\* breaks, a restart.
Abort(s) == /\ req[s].pc # "idle"
            /\ req' = [req EXCEPT ![s] = Idle]
            /\ UNCHANGED <<ledger, stale, requests>>

Delete(e) ==
  /\ expense[e].status = "on" /\ Accessible(e) /\ Arrives
  /\ expense' = [expense EXCEPT ![e] = NoRow("gone")]
  /\ splits' = splits \ SplitsOf(e)
  /\ notes' = [notes EXCEPT ![e] = 0]
  /\ stale' = stale \ {e}
  /\ UNCHANGED <<live, seats, invited, settlements, req>>

-----------------------------------------------------------------------------
(* Settlements. *)

On(e) == expense[e].status = "on"
\* find_pending_or_frozen_name
Named(q, p) ==
  \E e \in Expense :
    /\ On(e) /\ p \in seats[GroupOf[e]]
    /\ \/ ~expense[e].user /\ expense[e].payer = q
       \/ \E r \in SplitsOf(e) : ~r.user /\ r.who = q

\* p records a payment to q, or from q when q has no account.
Settle(p, q) ==
  /\ p \in live /\ Arrives
  /\ q \notin live => Named(q, p)
  /\ \E cents \in Payments, from \in {p, q} :
       /\ from = p \/ q \notin live
       /\ settlements' = settlements \cup
            {[id |-> requests, from |-> from, fromUser |-> from \in live,
              to |-> IF from = p THEN q ELSE p,
              toUser |-> (IF from = p THEN q ELSE p) \in live, cents |-> cents]}
  /\ UNCHANGED <<live, seats, invited, expense, splits, notes, req, stale>>

-----------------------------------------------------------------------------
(* Accounts. *)

\* The rows that name p, attached or not, under the name of the account.
Attach(p, user) ==
  /\ expense' = [e \in Expense |->
       IF expense[e].payer = p
       THEN [expense[e] EXCEPT !.user = user, !.name = NameOf[p]] ELSE expense[e]]
  /\ splits' = {IF r.who = p THEN [r EXCEPT !.user = user] ELSE r : r \in splits}

\* Mutated form of Relinked: the rows p was paid with are left as they are.
RelinkedPayer(p, user) ==
  {IF r.from = p THEN [r EXCEPT !.fromUser = user] ELSE r : r \in settlements}
Relinked(p, user) ==
  {[r EXCEPT !.fromUser = IF r.from = p THEN user ELSE @,
             !.toUser = IF r.to = p THEN user ELSE @] : r \in settlements}

\* freeze_user_references
Leave(p) ==
  /\ p \in live /\ Quiet /\ Arrives
  /\ live' = live \ {p}
  /\ Attach(p, FALSE) /\ settlements' = Relinked(p, FALSE)
  /\ UNCHANGED <<seats, invited, notes, req, stale>>

\* reconnect_by_email, then join_pending_invites in a commit of its own, which
\* fails as a whole when somebody has a row in a group that invites them.
Welcome(p) == {g \in Group : p \in invited[g]}
Join(p) ==
  /\ p \notin live /\ Quiet /\ Arrives
  /\ live' = live \cup {p}
  /\ Attach(p, TRUE) /\ settlements' = Relinked(p, TRUE)
  /\ IF \E g \in Welcome(p) : p \in seats[g] THEN UNCHANGED <<seats, invited>>
     ELSE /\ seats' = [g \in Group |-> seats[g] \cup ({p} \cap invited[g])]
          /\ invited' = [g \in Group |-> invited[g] \ {p}]
  /\ UNCHANGED <<notes, req, stale>>

-----------------------------------------------------------------------------
(* Balances: what p owes, positive, or is owed. *)

Total(S) == SumOver([r \in S |-> r.cents])

\* The shares of p, attached or not, in what q has paid.
SharesOf(p, pUser, q, qUser) ==
  {r \in splits : /\ r.who = p /\ r.user = pUser
                  /\ expense[r.expense].payer = q /\ expense[r.expense].user = qUser}

PaidByUser(p, q) ==
  {x \in settlements : x.from = p /\ x.fromUser /\ x.to = q /\ x.toUser}

\* compute_balance
BalanceByUser(p, q) ==
    Total(SharesOf(p, TRUE, q, TRUE)) - Total(SharesOf(q, TRUE, p, TRUE))
  - Total(PaidByUser(p, q)) + Total(PaidByUser(q, p))

\* get_balance_breakdown: rows, with the direction each moves the balance in.
Lines(S, direction) == {[direction |-> direction, row |-> r] : r \in S}
Breakdown(p, q) ==
  Lines(SharesOf(p, TRUE, q, TRUE), "you_owe") \cup
  Lines(SharesOf(q, TRUE, p, TRUE), "owed_to_you") \cup
  Lines(PaidByUser(p, q), "you_paid") \cup Lines(PaidByUser(q, p), "they_paid")

\* compute_balance_with_frozen_friend; q's side of a settlement is found by
\* email alone.
BalanceByEmail(p, q) ==
    Total(SharesOf(p, TRUE, q, FALSE)) - Total(SharesOf(q, FALSE, p, TRUE))
  - Total({x \in settlements : x.from = p /\ x.fromUser /\ x.to = q})
  + Total({x \in settlements : x.from = q /\ x.to = p /\ x.toUser})

\* get_all_balances
GroupsOf(p) == {g \in Group : p \in seats[g]}
Friends(p) == {q \in live \ {p} : \E g \in GroupsOf(p) : q \in seats[g]}
Unattached(g) ==
  UNION {{r.who : r \in {x \in SplitsOf(e) : ~x.user}} \cup
         (IF expense[e].user THEN {} ELSE {expense[e].payer}) :
           e \in {x \in Expense : On(x) /\ GroupOf[x] = g}}
\* Mutated form of Pending: left out, as they once were.
NoPending(p) == {}
Pending(p) == UNION {Unattached(g) \cap invited[g] : g \in GroupsOf(p)}
Frozen(p) == UNION {Unattached(g) \ invited[g] : g \in GroupsOf(p)}

Entry(q, as, balance) == [who |-> q, as |-> as, balance |-> balance]
Balances(p) ==
  {x \in {Entry(q, "friend", BalanceByUser(p, q)) : q \in Friends(p)} \cup
         {Entry(q, "pending", BalanceByEmail(p, q)) : q \in Pending(p)} \cup
         {Entry(q, "frozen", BalanceByEmail(p, q)) : q \in Frozen(p)} :
     x.balance # 0}

-----------------------------------------------------------------------------
Next == \/ \E e \in Expense : Create(e) \/ Delete(e)
        \/ \E s \in Slot, e \in Expense : Open(s, e)
        \/ \E s \in Slot : \/ LoadWho(s) \/ LoadOld(s)
                           \/ CommitLocked(s) \/ CommitSplits(s) \/ Abort(s)
        \/ \E p, q \in Person : Settle(p, q)
        \/ \E p \in Person : Leave(p) \/ Join(p)

Spec == Init /\ [][Next]_vars

-----------------------------------------------------------------------------
(* Properties. *)

\* The shares of an expense are those of one edit, add up to its amount and,
\* as long as the row says equal, are equal to the cent left over, whatever was
\* edited before; unless that edit overlapped another, until the next edit that
\* does not puts an end to it.
SharesAddUp ==
  \A e \in Expense : On(e) /\ e \notin stale =>
    /\ Total(SplitsOf(e)) = expense[e].amount
    /\ \A r1, r2 \in SplitsOf(e) :
         /\ r1.n = r2.n
         /\ expense[e].type = "equal" => r1.cents - r2.cents <= 1

\* What p owes q, whoever had an account when it was written.
Debt(p, q) ==
    Total({r \in splits : r.who = p /\ expense[r.expense].payer = q})
  - Total({r \in splits : r.who = q /\ expense[r.expense].payer = p})
  - Total({x \in settlements : x.from = p /\ x.to = q})
  + Total({x \in settlements : x.from = q /\ x.to = p})

\* Deleting an account and signing up again never changes what two people
\* owe each other, although each row is found by id first and by email then.
BalancesKept == \A p \in live : \A q \in Person \ {p} :
  Debt(p, q) = IF q \in live THEN BalanceByUser(p, q) ELSE BalanceByEmail(p, q)

\* Everybody p owes or is owed by is on the list, with that amount, as long as
\* they share a group, or, without an account, an expense there.  Somebody is
\* on it twice only when invited to one group and frozen in another.  For a
\* friend, the lines that explain the amount add up to it.
Reachable(p, q) == q \in Friends(p) \/ (q \notin live /\ Named(q, p))
BalancesListed == \A p \in live :
  LET list == Balances(p)
      twice == Pending(p) \cap Frozen(p)
  IN  \A q \in Person \ {p} :
        LET entries == {x \in list : x.who = q}
            debt == Debt(p, q)
        IN  /\ debt # 0 /\ Reachable(p, q) => entries # {}
            /\ \A x \in entries : x.balance = debt
            /\ q \in live => debt =
                 SumOver([l \in Breakdown(p, q) |->
                   IF l.direction \in {"you_owe", "they_paid"}
                   THEN l.row.cents ELSE -l.row.cents])
            /\ q \notin twice => Cardinality(entries) <= 1

\* What "an edit is visible history, not a silent rewrite" comes to: how much
\* and who owes what change only together with a comment, and so does the
\* payer, except for one who has the name that is on the expense.  That name
\* changes without a comment only for that of the account the payer opens or
\* deletes.
Shares(e) == {[who |-> r.who, cents |-> r.cents] : r \in SplitsOf(e)}
Facts(e) == <<expense[e].amount, Shares(e)>>
SamePayer(e) == expense'[e].payer = expense[e].payer
SameName(e) == expense'[e].name = expense[e].name
VisibleHistory ==
  [][\A e \in Expense : On(e) /\ On(e)' /\ notes'[e] <= notes[e] =>
       /\ Facts(e)' = Facts(e)
       /\ SameName(e) \/ (SamePayer(e) /\ expense'[e].name = NameOf[expense[e].payer])]_vars
=============================================================================
