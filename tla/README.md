# Verification of the Sanchay API

TLA+ models of the stateful parts of the Sanchay backend (`app/`), the TLC
configurations that check them on small instances, and TLAPS proofs of the
results that should hold for every instance.  Paths below are relative to the
repository; `S` abbreviates `app/services/shared_expense_service.py` and `R`
abbreviates `app/routers/shared_expenses.py`.

To check: `tlc -config <cfg> <module>` for the runs listed below and
`tlapm <module>` for the `*Proofs` modules.  `PROJECT.json` lists the runs, the
lines each definition models, the mutated forms that show each property can
fail, the findings and the hazards.

## 1. The system

A FastAPI server over PostgreSQL (async SQLAlchemy).  Every request opens one
session; a handler is a coroutine that may commit several times and lets other
requests run at every `await`.  The database runs at READ COMMITTED, no query
takes a row lock (`with_for_update` does not occur), no model has a version
column, and sessions keep their objects across commits
(`expire_on_commit=False`).  There is no background job: everything happens in
some request, or in the email task that follows its response.  What makes the
code hard is therefore always the same: a handler reads, awaits, and writes; or
commits in the middle and may end there.

| Component | State | Operations | Interacts with | What is hard | What makes it correct |
|---|---|---|---|---|---|
| Backup sync (`sync_service`, `encrypted_ledger_repository`) | one `encrypted_ledgers` row per account: blob, version | pull, push, status, deletion with the account | every device of the account; deletion | version checked in one statement, written in another; the response re-reads the version | an acknowledged edit is never lost; a version names one content |
| Shared-expense identity (`S` 185-335, 1005-1465; `auth_service` signup and deletion) | `group_members`, splits, expenses, `pending_group_invites`, `groups`, `users` | signup, deletion, groups, members, invites, links, creating and deleting expenses | signup and deletion touch every shared row | three commits in a signup, two in a deletion; unique and foreign keys end requests half-way; rows without a user | a row is only ever attached to its own person; nobody owes without being reachable |
| Shared expenses: amounts (`S` 62-182, 416-659) | `shared_expenses`, `shared_expense_splits` | create, edit, comment, delete | identity, balances, rules | rounding; concurrent edits replacing all splits; partial edits | shares add up to the amount; an edit is visible |
| Balances and settlements (`S` 678-1002, 1255-1332) | `settlements` | settle, per-person and per-group balances, debt simplification | identity (frozen friends, pending people) | a row is found by id for people with an account and by email for others; greedy matching | what two people owe does not depend on who has an account; simplification ends with everybody at zero |
| Shared recurring rules (`S` 1473-1736) | `shared_recurring_rules`: template, schedule, watermark | create, edit, pause, delete, materialize | every reading of a group's expenses or balances materializes | one commit per occurrence, the watermark one commit behind; concurrent readers; templates that stop being valid | every occurrence made once, none lost |
| Recurrence dates (`recurring_date_math`) | none | occurrence_at, due_occurrences | both kinds of rules | month ends, anchors, the cap of 5000 | the dates of the reference calendar |
| Authentication and tokens (`auth_service`, token repositories, `core/deps`) | `users`, refresh, reset and verification tokens | signup, login, refresh, forgot, reset, verify, resend, delete | everything authenticates | rotation revokes in one commit and issues in another; the mark of use is not looked at again when it is set; deletion overlaps what issues tokens | a token belongs to a live account; a request uses a token once; a session keeps one generation of tokens |
| Personal ledger (`transaction_service`, `account_service`, `recurring_service`, `budget_service`, `savings_goal_service`) | accounts, transactions, budgets, goals, personal rules | create, change and delete each, transfers, materialization of all rules when accounts are read | Clerk identities, a database of its own; a balance is a sum over transactions | an account that goes between a check and an insert; transfers are two rows; readers that materialize at the same time | no row without its account; both legs of a transfer or neither; every occurrence made, once per reader that does not see another's |
| Feedback, health, legal, avatars | single rows | read, write | the user | - | - |
| Email, limiter, logging, error handlers, configuration, migrations, scripts | none, or I/O | - | background tasks after the response | a failed email is logged and dropped | no state changes |

The hazards found on this reading, each at its line, are in `PROJECT.json`.

## 2. Modules

| Module | Models | Extends / uses |
|---|---|---|
| `VersionedBlob` | what the backup promises: one blob, replaced as a whole by one that extends it | - |
| `LedgerSync` | pull and push, each push as its four steps, several devices | refines `VersionedBlob` |
| `LedgerSyncProofs` | its theorems | `LedgerSync` |
| `SharedIdentity` | accounts, groups, members, invites and expenses as requests of one to four commits | - |
| `SharedIdentityProofs` | its theorems | `SharedIdentity` |
| `RecurringRules` | the rules of a group and their materialization, one commit per occurrence | - |
| `RecurringRulesProofs` | its theorems | `RecurringRules` |
| `AuthTokens` | signup, login, refresh, reset, verification and deletion as the steps of overlapping requests | - |
| `AuthTokensProofs` | its theorems | `AuthTokens` |
| `Sums` | a sum over a finite set | - |
| `SplitMath` | the four split functions, over cents | `Sums` |
| `SharedLedger` | expenses with their splits, overlapping edits, settlements, balances, accounts that go and return | `SplitMath` |
| `SharedLedgerProofs` | lemmas about sums, theorems of `SplitMath` and of the ledger | `SharedLedger` |
| `DebtSimplification` | the payments that settle a group, pairing by pairing, from any positions | `Sums` |
| `GroupDebts` | the two together: the positions are those of the ledger | `SharedLedger`, `DebtSimplification` |
| `GroupDebtsProofs` | theorems of `DebtSimplification` and of the composition | `GroupDebts`, `SharedLedgerProofs` |
| `RecurringDates` | the dates of a schedule, and a calendar to compare them with | - |
| `PersonalLedger` | accounts, transactions, transfers, rules, budgets and goals of one user, with overlapping readers that materialize and overlapping requests that set budgets | `RecurringDates` |
| `SavingsGoals` | when a goal is projected to be reached | `RecurringDates`, `Sums` |
| `RecurringDatesProofs` | theorems about dates, schedules and projections | `SavingsGoals` |
| `PersonalLedgerProofs` | its theorems | `PersonalLedger`, `RecurringDatesProofs` |
| `MCLedgerSync`, `MCSharedIdentity`, `MCRecurringRules`, `MCAuthTokens`, `MCSharedLedger`, `MCPersonalLedger` | constants, bounds and symmetry for TLC | the module they name, `MCSharedLedger` also `GroupDebts`, `MCPersonalLedger` also `SavingsGoals` |

### LedgerSync

`ledger` is the row (version 0: no row); the blob is opaque to the server and is
the set of edits it holds.  `push[d]` is the push of device `d`:
`PushStart` (the request, `get_current_user`), `PushRead` (`get_by_user_id` and
the comparison with `based_on_version`), `PushWrite` (`create` or `update` and
the commit, with the primary and foreign keys that may refuse it) and
`PushRespond` (`db.refresh`, which reads the row again in a new transaction).
`PushLost` is a crash or a broken connection at any point; `DeleteAccount` takes
the row away.  `local`, `seen` and `acked` are the client's side: the server does
not store them, and a client is assumed to merge what it pulls and to base a push
on the last version it was told.

### SharedIdentity

`rows` holds the members, splits and payers: each has the account it is attached
to (`user`, NULL when frozen or pending) and the `ref`, the email it was made for.
`req[s]` is a request: `Arrive` is everything before its first commit (the
handler's guards among them), each action of `Commit` is one transaction with the
reads it depends on, `Abort` ends it between two of them.  `Freeze` and `Purge`
are the two commits of `delete_account`; `InsertUser`, `Reconnect` and
`JoinPending` those of `signup`.  A step that a unique or a foreign key refuses,
or whose query finds two rows where it expects one, ends the request; what it
committed before stays.

Abstracted: names, amounts, dates, comments and settlements (rows of the same
kind as a payer: a nullable id and an email_ref); invite ids, which with the
email and a number name the same invite; the second account an email may get is a
different `Account`.  A group has neither rules nor settlements, so only expenses
keep it from being deleted.

### RecurringRules

`rule[r]` is the row: status (active, paused, deleted), whether `created_by` is
set, whether the template splits, frequency, end date and `last_materialized`.
`made[r][d]` counts the expenses made for day `d`.  `req[s]` is a reader:
`Load` is the query and the due dates of all rules, `Make` one
`create_shared_expense` and the assignment of the watermark after its commit,
`Save` the last commit.  `Flushed` is the heart of it: an assigned watermark goes
to the row with the *next* commit of the session.  `Refuse` is a template that
makes no valid split, `Vanished` a flush that finds its rule deleted, `Abort` a
crash; all three lose the watermark that has not been committed.

Abstracted: the participants, values and amount of a template are only told
apart by whether `_write_splits` accepts them; dates are days `1..MaxDay` and a
frequency the set of days its schedule falls on.  All rules are read and
their due dates computed at once: the objects a session has loaded do not change
under it, so computing a rule's dates later gives the same days, except across
midnight.  A rule created in the same request is read from the session, not from
the row; an edit that another request commits in the few instructions between the
creation and the reading is taken to be seen.

### AuthTokens

`row[t]` is the row of a refresh, reset or verification token: its kind, owner,
the mark set on use (`used_at` or `revoked_at`) and whether it has expired.
`status` and `verified` are the user rows.  `req[s]` is a request: the actions of
`Arrive` are what it reads before its first commit, those of `Commit` are one
transaction each.  `Revoke` and `IssueRefresh` are the two commits of a rotation;
`UseReset` writes password and mark together and goes on to a session of its own;
`InsertUser`, `IssueVerify` and `IssueRefresh` are what a signup commits.
`Sweep` is the deletes of `delete_account`, whose rows are then locked until
`Purge`, the commit with the user row, which a foreign key refuses if a token was
inserted in between.  `Abort` is a request that dies between two commits.
`session`, `parent`, `uses` and `broken` are not stored; they say which login a
token descends from, what it was issued for, who used it and which rotations died.

Abstracted: hashes, expiry times (`Expire` may happen at any time), passwords
(right or wrong), avatars and the login history, whose rows matter only in that a
late one refuses a deletion.  Nothing in `app/` clears `is_active`, so it is not
told apart from being live.  What signup and deletion commit about
shared expenses is in `SharedIdentity`, and only touches tables of its own.

### SplitMath, SharedLedger

`Divisions(type, total, people, values)` is the set of divisions the split
function of that type may return: the cents that rounding down leaves over go to
the largest remainders (`Lucky`), and among equal remainders to whoever the client
or an unordered query lists first, so that any choice is possible.  An empty set
is `SplitValidationError`.

A person is an email, since that is what a row keeps when the account goes;
`user` on a row says whether `user_id` is set.  `Create` and `Delete` are one
commit each.  An edit is its steps: `Open` (the row and the guards, with the
invites that commit first), `LoadWho` (the participants, when the request does
not send them), `LoadOld` (the splits to be replaced) and the commit, `Finish`.
An edit that changes a column has its UPDATE flushed by the next query, which
locks the row; from there to its commit no other edit of that expense commits, and
`CommitLocked` is the rest in one step.  An edit that changes only participants
or values takes no lock, and two of them interleave freely; `stale` remembers the
expenses last split by an edit that another overtook.  `Settle` is
`record_settlement` in both directions, `Leave` and `Join` freeze and reconnect
every row of a person.  `BalanceByUser`, `BalanceByEmail`, `Balances` and
`Breakdown` are the queries; `Debt`, what one owes the other by the rows
alone, is what they are compared with.

`Comments` says whether an edit leaves a system comment.  A payer is a change only
under another name (`NewName`), so the name on the expense is kept: that of the
payer's account, or what the client calls somebody without one.

Abstracted: descriptions, categories, dates, people's comments, and every name but
the payer's.  `NameOf` is fixed, so that whoever returns does so under the same
name.  A request names nobody twice.  Accounts come and go between requests here;
what happens in the middle of one is in `SharedIdentity`.

### DebtSimplification, GroupDebts

`net` is what the positions were, `left` what is still due, and `Match` one turn
of the loop: the debtor and the creditor first in lists sorted once, which is why
of two of equal size the one begun comes first.  `Return` is the end of the
loop.  `GroupDebts` starts it from `NetOf`, the positions of the expenses in the
ledger and of older ones.  The loop awaits nothing, so the ledger does not move
while it runs.

### RecurringDates, PersonalLedger, SavingsGoals

A date is a year, a month and a day, and days are compared by number, as the code
compares ISO strings.  `Occurrence` counts from the anchor, clamped to the end of
a shorter month; `Schedule` says which days those are without counting.

Most services read, check and write in one commit, and a foreign key decides at
the commit, so those requests are one action each.  `upsert_budget` is two:
`FindBudget`, which looks for the category as it was typed, and then `InsertBudget`,
which the unique index may refuse, or `UpdateBudget` of the row that was found;
`DropUpsert` is an error.  SQLAlchemy writes no column that is set to the value it
was read with, where the two numbers compare equal (`Left`).  `asked` is not stored:
it says what the last request that was answered may have left.
Reading the accounts is three: `LoadRules`, then `Materialize`, one commit for
all rules with every due row and watermark, and `Abort`.  The calendar may have
moved on in between.  `made`, `tried` and `laps` are not stored: they count the
copies of an occurrence, the frequencies a rule has had, and the readers that
wrote over a watermark they had not seen.

`SavingsGoals` has no state: `Projected` is the set of days `goal_progress` may
answer, as its quotient is a float that may fall just below a whole number of
months.  Past the year 9999 there is no date, and the request fails (`Raises`), as
it does when the floats of amounts that cancel leave a rate of next to nothing.

Abstracted: names, the categories of transactions and the sums that budgets are
compared with; opening balances and what is read only.  Rows of one user
never refer to another's, so one user is modelled.

## 3. Runs

| Run | Specification and bounds | Shows |
|---|---|---|
| `sync_serial` | `SerialSpec`, 3 devices, 2 edits, versions to 3 | pushes that do not overlap lose nothing; the row implements `VersionedBlob` |
| `sync_race` (violated) | `Spec`, 2 devices | two overlapping pushes both succeed with the same version: `VersionForward` fails |
| `identity_crash` | `CrashSpec`, 2 people, one of whom may return, 1 group, 1 expense, invite links | with crashes between commits, rows keep their owner, none is attached to a deleted account |
| `identity_members` | `SerialSpec`, same, without links, an email may be invited twice | as long as no request overlaps or dies and no signup is refused half-way, no share is without a member or an invite |
| `identity_dangling` (violated) | `Spec`, 2 concurrent requests | a request that overlaps `delete_account` leaves a row with an id that is gone |
| `identity_payer` (violated) | `SerialSpec` | the invite of a pending payer may be removed, after which the payer reads as a deleted account |
| `rules_serial` | `FairSpec`, 1 reader at a time, 2 rules, 2 days, 1 failure | a failure costs at most one duplicate; the watermark never moves back; what stays due is made |
| `rules_races` | `Spec`, 2 readers, 1 rule, 2 schedules, 3 days, 1 failure | no occurrence is lost behind the watermark |
| `rules_refused` (violated) | `SteadySpec`, 1 reader, 2 rules, no failures | a template that does not split makes another rule's last occurrence again at each reading |
| `auth_races` | `Spec`, 2 overlapping requests, 3 tokens, 2 accounts of one email, 1 expiry, no compulsory verification | no token outlives its user, no two generations of a session both work, an overlap ends no session, verified means a link was used |
| `shared_ledger` | `GroupSpec`, 3 people, two of one name, of whom one has no account at first, 2 expenses in 2 groups, 2 overlapping edits, 4 requests; positions of 4 people from -1 to 2 cents | shares add up, balances do not depend on who has an account and are listed, edits leave comments but for a payer changed to a namesake, positions add up and are settled in few payments |
| `personal_ledger` | `Spec`, 2 accounts, 2 rules of 2 frequencies, 2 overlapping requests that read the accounts or set one of 2 limits, 4 requests, 2 days three months apart | nothing refers to an account that has gone, transfers stay paired, a budget has the limit last asked for, copies bounded, every occurrence made |

Why the bounds are enough.  A version is only compared with the one read before
it, so three versions show a push that is current, one behind and two behind.
Two people, one of them with two accounts, a group and an expense let a row be
frozen, reconnected and frozen again while the other person acts; `MaxSharers`
bounds the participants of an expense and `MaxCopies` the rows alike in all but
their key.  One group is enough there: a request touches the rows of one group,
but for a deletion and a signup, which treat every group alike; the one place
where a group decides about another is a signup that clashes in one and therefore
joins none (`HalfWay`).  `SerialSpec` leaves that out, in the run and in the theorems
about any number of groups, where the properties would fail; section 5 describes it.
Ids are used once, as UUIDs are, so those systems stop when the ids
run out and deadlock is not checked there.  Two readers are the fewest that
interleave, three days the fewest with one before, one at and one after a
watermark; `MaxMade` bounds the copies of an occurrence, `MaxFailures` the
requests that die with a watermark.  Three tokens are a rotation with its third
generation, or a link, the session it opens and one more; two accounts of one email
are a deletion and a return.  `RequireVerification` only narrows who may log in.  In `shared_ledger` an
expense is created, edited by two overlapping requests, and settled, or its payer
leaves and returns: four requests in all, with every split type and an amount no
split divides evenly; the positions that are settled are read after at most
`PlanUpTo` of them, with those of older expenses standing for the others.
Of the three people two have the same name, so that a payer may be changed to a
namesake and to somebody of another name.
Four people are the fewest with two debtors and two creditors.  In
`personal_ledger` the two days lie three months apart over the end of a
leap February, so that a rule from the 31st has four occurrences due at once; the
second frequency ends before the second day.  Three requests are one that inserts a
budget and two that find it before either writes; two limits and a category typed
in two ways let both outcomes of each differ.  Requests are
bounded in both, so they stop, and deadlock is not checked there.  `MaxOccurrences`
is 5000 in the code and 7 in the run, where no schedule has more due.  Two more
checks of `MCPersonalLedger` are assumptions that TLC evaluates: `DatesAgree`
compares `DueOccurrences` with the calendar for every frequency from four dates
that are hard to keep, `ProjectionsAgree` says that a projected day is not in the
past, that saving less takes no longer, when there is none, and how many days the
rate looks back.
The proofs below need none of the
bounds, except that a watermark of a group's rule lies within its calendar and that
the years whose schedules are looked at reach past the days requests are made on.

Fairness.  Only `FairSpec` of `RecurringRules` assumes any: `WF(Load)`, because
a group is opened again and again as long as anybody uses it, and
`SF(Progress)`, because not every such request dies before its first step.  The
number of requests that die with a watermark is bounded in that run.  `AllMade`
does not ask for what a broken template prevents: a rule that does not split
fails every reading, which `rules_refused` shows.

## 4. Proofs

Checked by TLAPS for every number of devices, accounts, groups, requests, rules,
days and schedules; the assumptions are the named `ASSUME`s of the modules
(the email of each account, `None` being nobody, bounds being numbers, rules
starting on days that exist, schedules lying within the calendar), which TLC
evaluates on every run.

- `LedgerSyncProofs`: `Typing`; under `SerialSpec`, `NoLoss`,
  `SeenBeforeAccepted`, `Forward` (`VersionForward`, which `sync_race` shows to fail
  without it) and the refinement `KeepsPromise`.  `NoSilentLoss` is not
  inductive: that a current push may replace the blob needs that its sender had
  seen it, at every step of the push.  `SerialInv` says that for each step
  (`PushHolds`) and for each device between pushes.
- `SharedIdentityProofs`: under `Spec`, with any interleaving and any aborts,
  `Typing`, `Attachment` (`AttachedByEmail`) and `Ownership` (`OwnerChanges`).
  Types need `Fits`: each request carries what its next step reads, all through
  its control flow.  `RowSteps` says once what any step can do to a row (add
  one of three kinds, delete, attach, detach); the other two theorems follow
  from it, the last with `KeysUnique`, by which a row is recognised after the step.
  With one request at a time, whether or not it dies (`CrashSpec`),
  `RowsHaveLiveOwners` (`NoDangling`): `Sure` says that the accounts a request has
  loaded are alive and that a deletion that has frozen its rows finds none again.
  When none dies either, no signup is refused half-way (`HalfWay`), and with links
  off as they are by default,
  `SharersAreListed` and `PendingSharersAreInvited`: behind every share is a member
  row of its person, attached when the share is and frozen when it is, or an
  invite (`Backed`); between the two commits of a signup the invite may still
  stand for the member (`Joining`), and `Ready` says what each request has
  checked and nobody has changed.  They hold for any number of groups only because
  `SerialSpec` excludes `HalfWay`: a signup that has a row already in one of several
  groups that invite it ends without joining the others, and then an account may
  owe a share where it is no member.
- `RecurringRulesProofs`: under `Spec`, `Typing`, `GapFree` and
  `NoLostOccurrence` and `NothingElseMade`; with a single reader, `Copies` and
  `Forward`.
  `NoGap` is not inductive because a reader writes the watermark from what it
  loaded earlier: `GapInv` adds that whatever a reader has still listed,
  the days before it are made or listed too (`Listed`), that a watermark still in
  the session covers nothing unmade (`Carried`), and that a rule's frequency is
  among those it has had.  It holds for the days that all its schedules share,
  and edits only make those fewer.  `CopyInv` relates copies to failures:
  `High`, the watermark with the part still in the session, never moves back,
  what is left to make lies after it, and a watermark that is lost is counted.
  `NothingElseMade` is the other half of `NoGap`: an expense is only made for a day
  of a schedule its rule has had, not ahead of time.  `Sources` says once what any
  step can list or make; from it `DueInv` follows, that whatever a reader has
  listed, however stale, was due when it looked.
- `AuthTokensProofs`: under `Spec`, with any interleaving and any aborts, all
  that the run checks: `Typing`, `Owned` (`OwnersLive`), `Single` (`SingleUse`),
  `Generations` (`OneGeneration`), `Verified` (`VerifiedByLink`), `Sessions`
  (`SessionKept`) and `Fitting` (`InFlight`).  None of the middle ones is
  inductive, since a request writes by what it read before others committed:
  `InFlight` says that what it read still holds of the row, unless the row is
  deleted, that a deletion holds rows of its own user only, and that a token, its
  parent and its session have one owner.  `Effects` reduces any step to four
  things it may do to the rows, and the theorems go through those.

- `SharedLedgerProofs`: for any people, groups, expenses, requests and overlapping
  edits, `SharedTypeCorrect`, `SharesAlwaysAddUp`, `BalancesAlwaysKept`,
  `BalancesAlwaysListed` and `HistoryVisible`.  The invariant is `SharesInv`.
  `Attached`: a row names an account exactly for those who have one,
  from which the balances follow, as then each sum by id or by email is over the
  rows of `Debt`.  `Shaped`: the splits are finitely many and of
  expenses that are there.  `AllCurrent`: an edit nobody has overtaken has seen the
  amount and type that are stored and the rows it will replace; without it the
  shares could be those of another amount.  The list of balances needs
  `Settlements`, that there are finitely many; `BalancesAlwaysListed` is about the
  people who are `Reachable`, and lists somebody once unless they are both
  invited in one group and frozen in another.  `HistoryVisible` goes through `Told`,
  what a step that leaves no comment keeps of an expense: the amount, the shares, and
  the payer's name unless the payer's own account gives another.  The payer may
  change without a comment, but to somebody of that name only.

  About the split functions themselves: `DivisionsAddUp` says that they
  return parts that add up, `DivisionsExist` that they return some whenever their
  own checks pass (so that `remainders[i]` is never out of range), `PartsFollowWeights`
  that a part is less than a cent off its exact share, nothing for a share of 0, and
  not smaller for a larger share, `ProportionsDecide` that "2:1:1 shares and 50:25:25
  percentages produce identical splits".  All rest on `LeftoverIsCutOff`: the
  cents left over are what rounding cuts off, so they are fewer than a cent
  for each person whose share does not come out even (`LeftoverIsSmall`).

  Sums over finite sets are a fold in the library, without theorems.
  `SubsetInduction` is induction on the subsets of a finite set, stated with a set
  in the place of a predicate; from it follow that a sum may be taken in any order
  (`SumTake`), that sums add, scale, agree, are renamed and are split by labels.
- `GroupDebtsProofs`: for any people and positions, `PaymentsSettle` and
  `PaymentsFew`.  `PlanInv` adds to them that every payment clears its payer or its
  receiver (`Once`, so none is repeated), the last one both (`Spent`), and that
  the positions keep their sum.  Over the ledger, with every interleaving of it,
  `PositionsAlwaysLevel` (the amounts of a group's expenses are added by payer, the
  shares by person and by expense, and the shares of each are its amount) and
  `GroupsSettle`; by `LedgerOfGroups` the theorems about the ledger hold of the
  composition, which is what the run checks.
- `RecurringDatesProofs`: for every date, frequency and number of occurrences.
  `NumbersInOrder` justifies comparing days by number where the code compares strings.
  `OccurrencesInOrder`: occurrences never coincide or go back, although some are
  clamped to a shorter month.  `DueBySchedule`: what `due_occurrences` counts from the
  anchor is the schedule as a calendar says it, as long as the cap of 5000 is not
  reached; this is also what allows `RecurringRules` to have a set of days for a
  frequency.  `LookingTwice`: materializing often makes the same days as
  doing it once.  `ThreeDaysOver`, `NeverProjectedBack` and `LessIsSooner` are about
  `goal_progress`, the latter two about the days it answers.  The argument numbers
  the months from year 0: the lengths of months and the formula for `Number` meet (`MonthsMeet`: a month starts where the
  one before it ends), so months grow, a date is a month and a day of it (`DateOf`),
  and every number is that of some date (`DatesCover`).  `Counting` is induction on
  numbers, stated with a set.
- `PersonalLedgerProofs`: for any accounts, rules, requests at a time and dates,
  `TypeCorrect`, `ReferencesKept`, `TransfersKeptPaired`, `LimitsStay`
  (`LastLimitStays`), `CopiesKeptBounded` and `MadeAsScheduled` (`AsScheduled`).
  `ReferencesKept` rests on a rule never changing its account (`Steady`), so that
  what a reader has loaded refers to an account that is open as long as the rule
  is there.  `CopiesKeptBounded` needs `Counted`: ahead of its watermark a rule has
  made a day at most as often as readers wrote over each other's, behind it once
  more.  `LimitsStay` needs `Budgeted`: a category and an id each have one
  budget (`Single`), the id a request will insert is nowhere yet (`Numbered`), and a
  budget that is still there has the limit a request found it with or one it was
  given since (`Followed`), which is what remains when the request writes nothing.
  `TransfersKeptPaired` needs `Paired`: the legs that carry the id of a
  transfer are its own.  `MadeAsScheduled` needs `Scheduled`: a rule keeps the date it
  starts on, what it has made are days of its schedules, and neither behind its
  watermark nor behind the older one that a reader has loaded is a day left out that
  all its schedules share; a reader that writes such an older watermark only makes
  more.  That the days due have no gap (`DueIsDense`), with or without the cap, comes
  from `OccurrencesInOrder`.

`SerialInductive` and `CopiesCounted` state the inductive invariants `SerialInv`
and `CopyInv`, which the runs check as well, as theorems of their own.

Model-checked only: `AllMade`, since liveness under fairness is out of the
prover's reach, as is `ENABLED`.  `DatesAgree` and `ProjectionsAgree` are
instances that TLC evaluates of those theorems, and of the window of
`goal_progress`, which no theorem is about.  What a violated run
refutes is not a theorem under the specification of that run; `VersionForward` and
`NoDangling` are theorems where requests do not overlap, and `CopiesBounded` is what
holds in the place of `OnceEach`.

## 5. Findings

Each is shown by a run that is expected to be violated; the lines are in
`PROJECT.json`.

1. Two overlapping pushes based on the same version both succeed, and the second
   replaces the first under the same version number.
2. A request that overlaps `delete_account` (or the rest of the user's own
   signup) writes rows with the id of an account that is gone; no later signup
   can reconnect them.
3. The invite of a person who is named only as the payer of an expense can be
   removed.
4. A recurring rule whose template makes no valid split (nothing validates it
   when it is created or edited) fails every reading of its group, and each failed
   reading makes the last occurrence of the rule before it once more.

Noticed on the way, without a run of their own:

- a refresh, reset or verification token is accepted by every request that read it
  before the first of them marked it (`SingleUse` bounds this by the overlap);
- a rotation that dies between its commits leaves the session without a token, and
  the person logs in again (`broken`);
- the version in the answer to a push is read after the commit, so with
  overlapping pushes a device may be told the version of another device's blob;
- `create_group` inserts one invite per mention, so an email named twice gets
  two; every later check for it then raises, and the signup fails half-way;
- an account whose email is named as *pending* in an expense gets a row that
  nobody attaches before the account is deleted and opened again; so does a signup
  that dies between its commits;
- whoever opens an invite link uses up the invite, also when it named another
  email, after which the pending person's shares have no invite;
- `create_recurring_rule` neither checks that the participants are members nor
  invites the pending ones, and `participant_ids` is never frozen, so later
  occurrences name deleted accounts, and pending templates keep making unattached
  shares after the person has signed up.
- in the shared ledger: two edits that change only participants or values lock
  nothing and may both keep their splits, or divide an amount that has changed
  since (`SharesAddUp` leaves `stale` expenses out, and `Settled` says what
  becomes of the cents that are over);
- a person taken from the rows of an expense, not sent again, has no value when
  without an account, since values come by id or email and a row keeps a hash: the
  person silently gets weight 0;
- the docstring at `S` 104-111 says that parts add up for any participants, but a
  person named twice in a request counts twice in the division and gets one part;
  requests that name nobody twice are assumed.  Negative weights are accepted, and
  the parts add up;
- the docstring at `S` 538-540 says that "a system comment logs exactly what
  changed"; a payer changed to somebody of the same name leaves none, as only names
  are compared (`S` 588) and an edit without changes is not logged (`S` 646), and so
  a debt moves from one person to another without a word (`VisibleHistory` allows just
  this); of two overlapping edits of the payer, the name of one may be left with the
  id of the other, as each writes the columns that differ from what it read;
- a refused creation leaves the invites it made; a payment to oneself is accepted;
  somebody invited in one group and frozen in another is listed twice with the whole
  balance;
- somebody without an account who is owed by a settlement only leaves the list
  when the last expense that names them is deleted (`Reachable`);
- the docstring at `S` 1258-1262 says that a settlement is never frozen;
  `freeze_user_references` does (`S` 1049-1059), as the balances need;
- somebody who is frozen in a group and invited there again cannot finish the
  next signup: the unique index of `group_members` refuses the row, the answer is
  500, and the account exists, reconnected, without joining any group that invited
  it (`Join`, `JoinClash`).  Its shares in those other groups then belong to
  somebody who is not listed there, and since removing an invite looks for
  shares without an account only, the invite may be removed too;
- in the personal ledger: readers that overlap make occurrences twice, and one
  delayed over midnight moves the watermark back (`laps`); a rule deleted while it
  is loaded makes the whole commit fail, and the next reader catches up;
- the comment at `recurring_service` 149-156 explains the watermark by
  occurrences that `today` would skip; it would skip none, and the code is right;
- editing one leg of a transfer leaves the other as it was; an end date, once
  set, cannot be taken back; a budget typed with spaces around a category that has
  one is refused by the index with an error 500, as it is looked up unstripped, and
  so is the second of two requests that find none; a request for the limit a budget
  has is answered 200 without writing it when another request sets a different limit
  meanwhile, which stays (`LastLimitStays`);
- the projection of a goal divides floats and may answer a month early, and its
  90 days are 91; a rate so small that the goal is reached after the year 9999, or
  amounts like 0.10, 0.20 and -0.30, whose floats add up to a little more than
  nothing, make `date_type` raise, and the list of goals answers 500.

## 6. Not modelled

- Email, rate limits, logging, error handlers, configuration, legal texts,
  feedback, health and avatars: I/O, or single-row reads and writes without
  invariants of their own.
- The JWT and Clerk libraries: external; a token is valid or not.
- Migrations and the document-retrieval scripts: run by hand, once.
- Of shared expenses: comments people write, descriptions, categories and dates,
  none of which another part reads, and display names, but for the payer's, which
  an edit compares.  The text of the comment an edit leaves is not modelled, only
  that there is one.
- Of shared recurring rules: which people a template names.  `RecurringRules` tells
  apart templates that split from those that do not, and `SharedIdentity` has no
  rules; what a template does to identities is described above.
- Of authentication: the rows of the login history, which nothing reads back
  except to list them.
- Of the personal ledger: the monthly sums budgets are compared with, names,
  and discussions, which are text stored and listed.  SQLite, the database used for
  development, does not enforce the foreign keys that `Without` relies on.
