--------------------------- MODULE SharedIdentity ---------------------------
(***************************************************************************)
(* Who a shared-expense row belongs to.                                    *)
(*                                                                         *)
(* Every row that names a person carries a nullable user_id, the account   *)
(* it is attached to now, and an email_ref that never changes.  Deleting   *)
(* an account freezes its rows (user_id becomes NULL); signing up with the *)
(* same email reconnects them, and turns pending invites into memberships. *)
(*                                                                         *)
(* A request is a process of the server.  Its steps are the transactions   *)
(* it commits, each together with the reads its outcome depends on, and    *)
(* the reads and guards that run before the first of them; between two     *)
(* steps other requests run (READ COMMITTED, no row locks), or the request *)
(* ends for good: a restart, a lost connection, an exception.  A step that *)
(* cannot commit (unique or foreign key, a query that finds two rows where *)
(* it expects one) ends its request, and what was committed before stays.  *)
(*                                                                         *)
(* Account ids are UUIDs, drawn once per signup: EmailOf fixes beforehand  *)
(* which of them the signups of each email will draw.                      *)
(***************************************************************************)
EXTENDS Naturals, FiniteSets

CONSTANTS Email,        \* normalized addresses; email_reference is injective
          Account,      \* users.id values
          EmailOf,      \* the address each account signs up with
          Group, Expense,
          Slot,         \* requests the server runs at the same time
          MaxSharers,   \* bound: participants of an expense
          MaxCopies,    \* bound: rows alike in every column but the key
          InviteLinks,  \* settings.invite_links_enabled
          None          \* SQL NULL, and the empty email_ref

ASSUME EmailsAssumption == EmailOf \in [Account -> Email]
ASSUME NoneAssumption == None \notin Email \cup Account \cup Expense
ASSUME BoundsAssumption == /\ MaxSharers \in Nat /\ MaxCopies \in Nat \ {0}
                           /\ InviteLinks \in BOOLEAN

VARIABLES status,       \* status[a]: "unused", "live" or "gone"
          group,        \* group[g]: "unused", "open" or "gone"
          creator,      \* groups.created_by, a foreign key into users
          rows,         \* group_members, splits and the payers of expenses
          invites,      \* pending_group_invites
          req           \* req[s]: the request in slot s

vars == <<status, group, creator, rows, invites, req>>

Party == Account \cup Email     \* a participant: by id, or pending by email
Copy == 1..MaxCopies

\* kind tells the table.  as (whom the row was made for) and n stand for the
\* primary key: two frozen rows may be alike in every other column.
Row == [kind : {"member", "split", "payer"}, group : Group,
        expense : Expense \cup {None}, as : Party, n : Copy,
        user : Account \cup {None}, ref : Email \cup {None}]
Invite == [group : Group, email : Email, n : Copy]

PC == {"idle", "insert_user", "reconnect", "join", "freeze", "purge",
       "insert_group", "insert_member", "check_invite", "insert_invite",
       "write_expense", "remove_member", "remove_invite", "accept",
       "consume", "remove_expense", "remove_group"}

\* by: the current user, where a later step needs it.  user, users: accounts its emails resolved to.
\* todo: emails still to be invited, one pair per mention in the payload;
\* then: what follows.  n: which invite a link names.
Request == [pc : PC, by : Account \cup {None}, group : Group \cup {None},
            expense : Expense \cup {None}, email : Email \cup {None},
            n : Copy, user : Account \cup {None}, users : SUBSET Account,
            todo : SUBSET (Email \X Copy), then : {"idle", "write_expense"},
            payer : Party \cup {None}, sharers : SUBSET Party]

Idle == [pc |-> "idle", by |-> None, group |-> None, expense |-> None,
         email |-> None, n |-> 1, user |-> None, users |-> {}, todo |-> {},
         then |-> "idle", payer |-> None, sharers |-> {}]

\* What the steps of a request find filled in.
ByNeeded == {"reconnect", "join", "freeze", "purge", "insert_group", "accept"}
GroupNeeded == {"insert_member", "check_invite", "insert_invite", "accept",
                "write_expense", "remove_group"}
Fits(r) == /\ r.pc \in ByNeeded => r.by \in Account
           /\ r.pc \in GroupNeeded => r.group \in Group
           /\ r.pc = "insert_member" => r.user \in Account
           /\ r.pc \in {"check_invite", "insert_invite"} => r.todo # {}
           /\ "write_expense" \in {r.pc, r.then} =>
                r.by \in Account /\ r.payer \in Party

TypeOK == /\ status \in [Account -> {"unused", "live", "gone"}]
          /\ group \in [Group -> {"unused", "open", "gone"}]
          /\ creator \in [Group -> Account \cup {None}]
          /\ rows \in SUBSET Row
          /\ invites \in SUBSET Invite
          /\ req \in [Slot -> Request]
          /\ \A s \in Slot : Fits(req[s])

Init == /\ status = [a \in Account |-> "unused"]
        /\ group = [g \in Group |-> "unused"]
        /\ creator = [g \in Group |-> None]
        /\ rows = {}
        /\ invites = {}
        /\ req = [s \in Slot |-> Idle]

-----------------------------------------------------------------------------
(* Queries. *)

Live(a) == status[a] = "live"
LiveAt(e) == {a \in Account : EmailOf[a] = e /\ Live(a)}    \* get_by_email

Members(g) == {r \in rows : r.kind = "member" /\ r.group = g}
MemberIds(g) == {r.user : r \in Members(g)} \ {None}
IsMember(a, g) == a \in MemberIds(g)

History(g) == {r \in rows : r.kind # "member" /\ r.group = g}

\* Mutated forms, here and below, are operators a run puts in the place of
\* the one that follows, to see that its properties can fail.
\* Mutated form of HasHistory: only what the member paid counts.
HasPaid(a, g) == \E r \in History(g) : r.kind = "payer" /\ r.user = a

HasHistory(a, g) == \E r \in History(g) : r.user = a
\* Mutated form of PendingHasHistory: looks at rows of real accounts.
NamedHasHistory(e, g) == \E r \in History(g) : /\ r.kind = "split"
                                               /\ r.user # None
                                               /\ r.ref = e
PendingHasHistory(e, g) == \E r \in History(g) : /\ r.kind = "split"
                                                 /\ r.user = None
                                                 /\ r.ref = e

InvitesOf(g, e) == {i \in invites : i.group = g /\ i.email = e}

-----------------------------------------------------------------------------
(* The request in a slot. *)

\* Request r arrives; the guards beside Start are what it reads first.
Start(s, r) == req' = [req EXCEPT ![s] = r]
Goto(s, pc) == req' = [req EXCEPT ![s].pc = pc]
End(s) == req' = [req EXCEPT ![s] = Idle]

NoWrite == UNCHANGED <<status, group, creator, rows, invites>>
Fail(s) == End(s) /\ NoWrite

\* get_current_user, and _require_group_member after it.
Authorized(a, g) == Live(a) /\ IsMember(a, g)

-----------------------------------------------------------------------------
(* New rows. *)

OneOf(S) == CHOOSE x \in S : TRUE

FreeKeys(g, a) == Copy \ {r.n : r \in {x \in Members(g) : x.as = a}}

\* Mutated form of Member: the id is stored where the email_ref belongs.
MemberById(g, a) == [kind |-> "member", group |-> g, expense |-> None, as |-> a,
                     n |-> OneOf(FreeKeys(g, a)), user |-> a, ref |-> a]

Member(g, a) == [kind |-> "member", group |-> g, expense |-> None, as |-> a,
                 n |-> OneOf(FreeKeys(g, a)), user |-> a, ref |-> EmailOf[a]]

\* A split or a payer: a pending party is known by its email only; for an
\* account the email is looked up, and is empty when the account has gone
\* meanwhile, unless it is the caller's, which the session still holds.
RefAtWrite(a, by) == IF Live(a) \/ a = by THEN EmailOf[a] ELSE None
Entry(kind, g, x, p, by) ==
  [kind |-> kind, group |-> g, expense |-> x, as |-> p, n |-> 1,
   user |-> IF p \in Email THEN None ELSE p,
   ref |-> IF p \in Email THEN p ELSE RefAtWrite(p, by)]

\* An invite id is never used again, so not while a request still holds it.
HeldKeys(g, e) == {req[s].n : s \in {t \in Slot : /\ req[t].group = g
                                                  /\ req[t].email = e}}
FreeInvites(g, e) == Copy \ ({i.n : i \in InvitesOf(g, e)} \cup HeldKeys(g, e))
NewInvite(g, e) == [group |-> g, email |-> e, n |-> OneOf(FreeInvites(g, e))]

-----------------------------------------------------------------------------
(* POST /auth/signup: three commits that touch this state. *)

Unused(e) == {a \in Account : EmailOf[a] = e /\ status[a] = "unused"}

Signup(s, e) ==
  /\ LiveAt(e) = {} /\ Unused(e) # {}
  /\ Start(s, [Idle EXCEPT !.pc = "insert_user", !.email = e])
  /\ NoWrite

InsertUser(s) ==
  /\ req[s].pc = "insert_user"
  /\ \/ /\ LiveAt(req[s].email) = {}
        /\ \E a \in Unused(req[s].email) :
             /\ status' = [status EXCEPT ![a] = "live"]
             /\ req' = [req EXCEPT ![s] = [Idle EXCEPT !.pc = "reconnect",
                                                       !.by = a]]
        /\ UNCHANGED <<group, creator, rows, invites>>
     \/ LiveAt(req[s].email) # {} /\ Fail(s)          \* users.email is unique

\* Mutated form of Frozen: the email_ref is not compared.
FrozenAnyone(r, a) == r.user = None

\* reconnect_by_email.  The members of a group are unique by user_id.
Frozen(r, a) == r.user = None /\ r.ref = EmailOf[a]
Reattach(r, a) == IF Frozen(r, a) THEN [r EXCEPT !.user = a] ELSE r
ReconnectClash(a) ==
  \E r \in rows : /\ r.kind = "member" /\ Frozen(r, a)
                  /\ \/ IsMember(a, r.group)
                     \/ \E x \in Members(r.group) \ {r} : Frozen(x, a)

Reconnect(s) ==
  /\ req[s].pc = "reconnect"
  /\ LET a == req[s].by
     IN  \/ /\ ~ReconnectClash(a)
            /\ rows' = {Reattach(r, a) : r \in rows}
            /\ Goto(s, "join")
            /\ UNCHANGED <<status, group, creator, invites>>
         \/ ReconnectClash(a) /\ Fail(s)

\* join_pending_invites: one membership per invite, whoever is a member.
Mine(a) == {i \in invites : i.email = EmailOf[a]}
JoinClash(a) == \E i \in Mine(a) : \/ IsMember(a, i.group)
                                   \/ \E j \in Mine(a) \ {i} : j.group = i.group

JoinPending(s) ==
  /\ req[s].pc = "join"
  /\ LET a == req[s].by
     IN  \/ /\ ~JoinClash(a)
            /\ \A i \in Mine(a) : FreeKeys(i.group, a) # {}
            /\ rows' = rows \cup {Member(i.group, a) : i \in Mine(a)}
            /\ invites' = invites \ Mine(a)
            /\ End(s)
            /\ UNCHANGED <<status, group, creator>>
         \/ JoinClash(a) /\ Fail(s)

-----------------------------------------------------------------------------
(* DELETE /auth/me: freeze_user_references commits before the user goes. *)

DeleteAccount(s, a) ==
  /\ Live(a)
  /\ Start(s, [Idle EXCEPT !.pc = "freeze", !.by = a])
  /\ NoWrite

\* Mutated forms of Detach: the anchor is cleared with the account; the
\* payer of an expense is forgotten.
DetachAnchor(r, a) == IF r.user = a THEN [r EXCEPT !.user = None, !.ref = None]
                                    ELSE r
DetachShares(r, a) == IF r.user = a /\ r.kind # "payer"
                      THEN [r EXCEPT !.user = None] ELSE r

Detach(r, a) == IF r.user = a THEN [r EXCEPT !.user = None] ELSE r

Freeze(s) ==
  /\ req[s].pc = "freeze"
  /\ LET a == req[s].by
     IN  /\ rows' = {Detach(r, a) : r \in rows}
         /\ creator' = [g \in Group |-> IF creator[g] = a THEN None
                                                          ELSE creator[g]]
  /\ Goto(s, "purge")
  /\ UNCHANGED <<status, group, invites>>

\* groups.created_by still naming the user makes the delete fail.
Purge(s) ==
  /\ req[s].pc = "purge"
  /\ LET a == req[s].by
     IN  \/ /\ \A g \in Group : creator[g] # a
            /\ status' = [status EXCEPT ![a] = "gone"]
            /\ End(s)
            /\ UNCHANGED <<group, creator, rows, invites>>
         \/ (\E g \in Group : creator[g] = a) /\ Fail(s)

-----------------------------------------------------------------------------
(* Groups, members and invites. *)

\* POST /groups with the emails of named: an existing account becomes a
\* member, any other email an invite, once per mention.
CreateGroup(s, a, named) ==
  /\ Live(a)
  /\ Start(s, [Idle EXCEPT
       !.pc = "insert_group", !.by = a,
       !.users = UNION {LiveAt(t[1]) : t \in named},
       !.todo = {t \in named : LiveAt(t[1]) = {}}])
  /\ NoWrite

InsertGroup(s) ==
  /\ req[s].pc = "insert_group"
  /\ LET r == req[s]
     IN  \/ /\ Live(r.by)
            /\ \E g \in Group :
                 /\ group[g] = "unused"
                 /\ \A a \in r.users \cup {r.by} : FreeKeys(g, a) # {}
                 /\ group' = [group EXCEPT ![g] = "open"]
                 /\ creator' = [creator EXCEPT ![g] = r.by]
                 /\ rows' = rows \cup {Member(g, a) : a \in r.users \cup {r.by}}
                 /\ req' = [req EXCEPT ![s] =
                      IF r.todo = {} THEN Idle
                      ELSE [r EXCEPT !.pc = "insert_invite", !.group = g]]
            /\ UNCHANGED <<status, invites>>
         \/ ~Live(r.by) /\ Fail(s)                    \* created_by

\* POST /groups/{id}/members.
AddMember(s, a, g, e) ==
  /\ Authorized(a, g)
  /\ Start(s, [Idle EXCEPT
       !.group = g,
       !.pc = IF LiveAt(e) = {} THEN "check_invite" ELSE "insert_member",
       !.todo = IF LiveAt(e) = {} THEN {<<e, 1>>} ELSE {},
       !.user = IF LiveAt(e) = {} THEN None ELSE OneOf(LiveAt(e))])
  /\ NoWrite

\* add_member_to_group, for an account the request has already loaded.
Admit(g, a) == IF IsMember(a, g) THEN rows ELSE rows \cup {Member(g, a)}
CanAdmit(g, a) == IsMember(a, g) \/ group[g] = "open"

InsertMember(s) ==
  /\ req[s].pc = "insert_member"
  /\ LET r == req[s]
     IN  \/ /\ CanAdmit(r.group, r.user) /\ FreeKeys(r.group, r.user) # {}
            /\ rows' = Admit(r.group, r.user)
            /\ End(s)
            /\ UNCHANGED <<status, group, creator, invites>>
         \/ ~CanAdmit(r.group, r.user) /\ Fail(s)

\* ensure_pending_invite for the next email: has_pending_invite raises when
\* it finds two, and the insert is a commit of its own.  Creating a group
\* inserts without looking.
Invited(r) == LET rest == r.todo \ {OneOf(r.todo)}
              IN  IF rest # {} THEN [r EXCEPT !.todo = rest,
                    !.pc = IF r.then = "idle" THEN "insert_invite"
                                              ELSE "check_invite"]
                  ELSE IF r.then = "idle" THEN Idle
                  ELSE [r EXCEPT !.todo = {}, !.pc = r.then]

CheckInvite(s) ==
  /\ req[s].pc = "check_invite"
  /\ LET r == req[s]
         found == Cardinality(InvitesOf(r.group, OneOf(r.todo)[1]))
     IN  \/ found = 0 /\ Goto(s, "insert_invite")
         \/ found = 1 /\ req' = [req EXCEPT ![s] = Invited(r)]
         \/ found > 1 /\ End(s)
  /\ NoWrite

InsertInvite(s) ==
  /\ req[s].pc = "insert_invite"
  /\ LET r == req[s]
         e == OneOf(r.todo)[1]
     IN  \/ /\ group[r.group] = "open" /\ FreeInvites(r.group, e) # {}
            /\ invites' = invites \cup {NewInvite(r.group, e)}
            /\ req' = [req EXCEPT ![s] = Invited(r)]
            /\ UNCHANGED <<status, group, creator, rows>>
         \/ group[r.group] # "open" /\ Fail(s)

\* DELETE /groups/{id}/members/{user_id}.
RemoveMember(s, a, g, u) ==
  /\ Authorized(a, g) /\ ~HasHistory(u, g)
  /\ Start(s, [Idle EXCEPT !.pc = "remove_member", !.group = g, !.user = u])
  /\ NoWrite

DeleteMember(s) ==
  /\ req[s].pc = "remove_member"
  /\ rows' = rows \ {r \in Members(req[s].group) : r.user = req[s].user}
  /\ End(s)
  /\ UNCHANGED <<status, group, creator, invites>>

\* DELETE /groups/{id}/pending-invites.
RemoveInvite(s, a, g, e) ==
  /\ Authorized(a, g) /\ ~PendingHasHistory(e, g)
  /\ Start(s, [Idle EXCEPT !.pc = "remove_invite", !.group = g, !.email = e])
  /\ NoWrite

DeleteInvite(s) ==
  /\ req[s].pc = "remove_invite"
  /\ LET found == InvitesOf(req[s].group, req[s].email)
     IN  invites' = IF Cardinality(found) > 1 THEN invites  \* two rows: raises
                    ELSE invites \ found
  /\ End(s)
  /\ UNCHANGED <<status, group, creator, rows>>

\* POST /invites/{id}/accept: whoever holds the link joins, then the invite
\* goes, in a second commit; deleting it twice is not an error.
AcceptInvite(s, a, i) ==
  /\ InviteLinks /\ Live(a)
  /\ Start(s, [Idle EXCEPT !.pc = "accept", !.by = a, !.group = i.group,
                           !.email = i.email, !.n = i.n])
  /\ NoWrite

AcceptJoin(s) ==
  /\ req[s].pc = "accept"
  /\ LET r == req[s]
     IN  \/ /\ CanAdmit(r.group, r.by) /\ FreeKeys(r.group, r.by) # {}
            /\ rows' = Admit(r.group, r.by)
            /\ Goto(s, "consume")
            /\ UNCHANGED <<status, group, creator, invites>>
         \/ ~CanAdmit(r.group, r.by) /\ Fail(s)

ConsumeInvite(s) ==
  /\ req[s].pc = "consume"
  /\ invites' = invites \ {[group |-> req[s].group, email |-> req[s].email,
                            n |-> req[s].n]}
  /\ End(s)
  /\ UNCHANGED <<status, group, creator, rows>>

\* DELETE /groups/{id}: refused by the router, and by the foreign key of
\* shared_expenses, while the group has an expense.
RemoveGroup(s, a, g) ==
  /\ Authorized(a, g) /\ History(g) = {}
  /\ Start(s, [Idle EXCEPT !.pc = "remove_group", !.group = g])
  /\ NoWrite

DeleteGroup(s) ==
  /\ req[s].pc = "remove_group"
  /\ LET g == req[s].group
     IN  \/ /\ History(g) = {}
            /\ rows' = rows \ Members(g)
            /\ invites' = {i \in invites : i.group # g}
            /\ group' = [group EXCEPT ![g] = "gone"]
            /\ creator' = [creator EXCEPT ![g] = None]
            /\ End(s)
            /\ UNCHANGED status
         \/ History(g) # {} /\ Fail(s)

-----------------------------------------------------------------------------
(* Expenses. *)

\* POST /groups/{id}/expenses: real people must be members when the request
\* arrives; pending ones are invited, each in a commit of its own, before
\* the expense is written.
CreateExpense(s, a, g, payer, sharers) ==
  /\ Authorized(a, g)
  /\ {payer} \cup sharers \subseteq MemberIds(g) \cup Email
  /\ Cardinality(sharers) <= MaxSharers
  /\ LET pending == ({payer} \cup sharers) \cap Email
     IN  Start(s, [Idle EXCEPT
           !.pc = IF pending = {} THEN "write_expense" ELSE "check_invite",
           !.by = a, !.group = g, !.payer = payer, !.sharers = sharers,
           !.todo = pending \X {1}, !.then = "write_expense"])
  /\ NoWrite

FreeExpenses == {x \in Expense : \A r \in rows : r.expense # x}

WriteExpense(s) ==
  /\ req[s].pc = "write_expense"
  /\ LET r == req[s]
     IN  \/ /\ group[r.group] = "open"
            /\ \E x \in FreeExpenses :
                 rows' = rows \cup {Entry("payer", r.group, x, r.payer, r.by)}
                    \cup {Entry("split", r.group, x, p, r.by) : p \in r.sharers}
            /\ End(s)
            /\ UNCHANGED <<status, group, creator, invites>>
         \/ group[r.group] # "open" /\ Fail(s)

\* DELETE /expenses/{id}.
RemoveExpense(s, a, x) ==
  /\ \E r \in rows : r.expense = x /\ Authorized(a, r.group)
  /\ Start(s, [Idle EXCEPT !.pc = "remove_expense", !.expense = x])
  /\ NoWrite

DeleteExpense(s) ==
  /\ req[s].pc = "remove_expense"
  /\ rows' = {r \in rows : r.expense # req[s].expense}
  /\ End(s)
  /\ UNCHANGED <<status, group, creator, invites>>

-----------------------------------------------------------------------------
(* A mention is numbered 2 only beside the same email numbered 1. *)
Mentions == {T \in SUBSET (Email \X Copy) :
               \A t \in T : t[2] = 1 \/ <<t[1], t[2] - 1>> \in T}

Arrive(s) ==
  /\ req[s].pc = "idle"
  /\ \/ \E e \in Email : Signup(s, e)
     \/ \E a \in Account :
          \/ DeleteAccount(s, a)
          \/ \E T \in Mentions : CreateGroup(s, a, T)
          \/ \E i \in invites : AcceptInvite(s, a, i)
          \/ \E x \in Expense : RemoveExpense(s, a, x)
          \/ \E g \in Group :
               \/ RemoveGroup(s, a, g)
               \/ \E e \in Email : AddMember(s, a, g, e) \/ RemoveInvite(s, a, g, e)
               \/ \E u \in MemberIds(g) : RemoveMember(s, a, g, u)
               \/ \E payer \in MemberIds(g) \cup Email :
                  \E sharers \in SUBSET (MemberIds(g) \cup Email) :
                    CreateExpense(s, a, g, payer, sharers)

Commit(s) ==
  \/ InsertUser(s) \/ Reconnect(s) \/ JoinPending(s)
  \/ Freeze(s) \/ Purge(s)
  \/ InsertGroup(s) \/ InsertMember(s) \/ CheckInvite(s) \/ InsertInvite(s)
  \/ DeleteMember(s) \/ DeleteInvite(s) \/ AcceptJoin(s) \/ ConsumeInvite(s)
  \/ DeleteGroup(s) \/ WriteExpense(s) \/ DeleteExpense(s)

\* The server restarts, or the request dies in any other way, before its
\* next commit.
Abort(s) == req[s].pc # "idle" /\ Fail(s)

Next == \E s \in Slot : Arrive(s) \/ Commit(s) \/ Abort(s)

Spec == Init /\ [][Next]_vars

OneAtATime == \A s, t \in Slot : req[s].pc = "idle" \/ req[t].pc = "idle" \/ s = t

\* A signup that is refused once the account exists and is reconnected: a
\* clash in one group keeps the new account out of every group that invited it.
HalfWay(s) == req[s].pc = "join" /\ JoinClash(req[s].by)

\* Requests one after the other, none of which dies or is refused half-way:
\* what the tests run.
SerialNext == /\ \E s \in Slot : (Arrive(s) \/ Commit(s)) /\ ~HalfWay(s)
              /\ OneAtATime'
SerialSpec == Init /\ [][SerialNext]_vars

\* Requests one after the other, any of which may die between two commits.
CrashNext == Next /\ OneAtATime'
CrashSpec == Init /\ [][CrashNext]_vars

-----------------------------------------------------------------------------
(* Properties. *)

Quiet == \A s \in Slot : req[s].pc = "idle"

\* Whoever a row is attached to signed up with the email the row was made
\* for: freezing and reconnecting never hand a debt, a membership or a
\* payment to another person (email_ref as "the durable identity anchor").
AttachedByEmail ==
  \A r \in rows : r.user # None => r.ref \in {EmailOf[r.user], None}

\* A row loses its account only by that account's deletion, gains one only
\* by a signup with its email, and keeps its email throughout.
SameRow(r, q) == /\ r.kind = q.kind /\ r.group = q.group
                 /\ r.expense = q.expense /\ r.as = q.as /\ r.n = q.n
OwnerStep ==
  \A r \in rows \ rows', q \in rows' \ rows :
    SameRow(r, q) =>
      /\ r.ref = q.ref
      /\ \/ q.user = None /\ \E s \in Slot : Freeze(s) /\ req[s].by = r.user
         \/ r.user = None /\ \E s \in Slot : Reconnect(s) /\ req[s].by = q.user
OwnerChanges == [][OwnerStep]_vars

\* Rows are told apart by their keys.  What OwnerChanges rests on.
KeysUnique == \A r, q \in rows : SameRow(r, q) => r = q

\* No row is attached to an account that no longer exists; such a row can
\* never be reconnected, because only a NULL user_id is.
NoDangling == \A r \in rows : r.user # None => Live(r.user)

\* Nobody owes a share in a group without being listed as its member.
SharersListed ==
  Quiet => \A g \in Group : \A r \in History(g) :
             r.kind = "split" /\ r.user # None => IsMember(r.user, g)

NeverHadAccount(e) == \A a \in Account : EmailOf[a] = e => status[a] = "unused"
PendingInvited(kinds) ==
  Quiet => \A r \in rows : /\ r.kind \in kinds
                           /\ r.user = None /\ r.ref # None
                           /\ NeverHadAccount(r.ref)
                           => InvitesOf(r.group, r.ref) # {}

\* A share of somebody who never had an account has its invite in the group:
\* without it the balances show the person as "account deleted".
PendingSharersInvited == PendingInvited({"split"})

\* So has what such a person paid ("same expense-history protection").
PendingPayersInvited == PendingInvited({"payer"})
=============================================================================
