------------------------ MODULE SharedIdentityProofs ------------------------
(***************************************************************************)
(* Proofs about SharedIdentity under every interleaving of requests and    *)
(* every abort, for any number of people, groups, expenses and requests.   *)
(***************************************************************************)
EXTENDS SharedIdentity, FiniteSetTheorems, TLAPS

USE EmailsAssumption, NoneAssumption, BoundsAssumption

LEMMA OneOfIn == ASSUME NEW S, S # {} PROVE OneOf(S) \in S
BY DEF OneOf

-----------------------------------------------------------------------------
(* Typing.                                                                 *)

RequestsOK == /\ req \in [Slot -> Request]
              /\ \A s \in Slot : Fits(req[s])

LEMMA OneCopy == 1 \in Copy
BY DEF Copy

LEMMA IdleFits == Idle \in Request /\ Fits(Idle)
BY DEF Idle, Request, Fits, PC, Copy, ByNeeded, GroupNeeded

LEMMA SetRequest ==
  ASSUME RequestsOK, NEW s \in Slot, NEW r \in Request, Fits(r),
         req' = [req EXCEPT ![s] = r]
  PROVE  RequestsOK'
BY DEF RequestsOK

LEMMA EndFits == ASSUME RequestsOK, NEW s \in Slot, End(s) PROVE RequestsOK'
BY IdleFits, SetRequest DEF End

LEMMA MemberTyped ==
  ASSUME NEW g \in Group, NEW a \in Account, FreeKeys(g, a) # {}
  PROVE  Member(g, a) \in Row
<1>1. OneOf(FreeKeys(g, a)) \in Copy
  BY OneOfIn DEF FreeKeys
<1> QED
  BY <1>1 DEF Member, Row, Party

LEMMA EntryTyped ==
  ASSUME NEW kind \in {"split", "payer"}, NEW g \in Group, NEW x \in Expense,
         NEW p \in Party, NEW by \in Account
  PROVE  Entry(kind, g, x, p, by) \in Row
BY DEF Entry, Row, Party, Copy, RefAtWrite

LEMMA ReattachTyped ==
  ASSUME NEW r \in Row, NEW a \in Account
  PROVE  Reattach(r, a) \in Row /\ Detach(r, a) \in Row
BY DEF Reattach, Detach, Row

\* What an invited email leaves of a request.
LEMMA InvitedFits ==
  ASSUME NEW r \in Request, Fits(r), r.pc \in {"check_invite", "insert_invite"}
  PROVE  Invited(r) \in Request /\ Fits(Invited(r))
<1> DEFINE rest == r.todo \ {OneOf(r.todo)}
<1>1. /\ r.then \in {"idle", "write_expense"}
      /\ r.group \in Group
      /\ r.then = "write_expense" => r.by \in Account /\ r.payer \in Party
  BY DEF Fits, GroupNeeded, Request
<1>2. rest \in SUBSET (Email \X Copy)
  BY DEF Request
<1>3. CASE rest # {}
  <2> DEFINE pc == IF r.then = "idle" THEN "insert_invite" ELSE "check_invite"
             q == [r EXCEPT !.todo = rest, !.pc = pc]
  <2>1. Invited(r) = q
    BY <1>3 DEF Invited
  <2>2. pc \in {"insert_invite", "check_invite"} /\ pc \in PC
    BY DEF PC
  <2> HIDE DEF pc, rest
  <2>3. q \in Request
    BY <1>2, <2>2 DEF Request
  <2>4. /\ q.pc = pc /\ q.todo = rest /\ q.group = r.group
        /\ q.then = r.then /\ q.by = r.by /\ q.payer = r.payer
    BY DEF Request
  <2> HIDE DEF q
  <2>5. Fits(q)
    BY <1>1, <1>3, <2>2, <2>4 DEF Fits, ByNeeded, GroupNeeded
  <2> QED
    BY <2>1, <2>3, <2>5
<1>4. CASE rest = {} /\ r.then = "idle"
  BY <1>4, IdleFits DEF Invited
<1>5. CASE rest = {} /\ r.then = "write_expense"
  <2> DEFINE q == [r EXCEPT !.todo = {}, !.pc = "write_expense"]
  <2>1. Invited(r) = q
    BY <1>5 DEF Invited
  <2>2. q \in Request
    BY DEF Request, PC
  <2>3. /\ q.pc = "write_expense" /\ q.group = r.group
        /\ q.then = r.then /\ q.by = r.by /\ q.payer = r.payer
    BY DEF Request
  <2> HIDE DEF q
  <2>4. Fits(q)
    BY <1>1, <1>5, <2>3 DEF Fits, ByNeeded, GroupNeeded
  <2> QED
    BY <2>1, <2>2, <2>4
<1> QED
  BY <1>1, <1>3, <1>4, <1>5

-----------------------------------------------------------------------------
LEMMA InitTyped == Init => TypeOK
BY IdleFits DEF Init, TypeOK

\* A request that arrives writes nothing.
LEMMA ArriveReads == ASSUME NEW s \in Slot, Arrive(s) PROVE NoWrite
<1>1. ASSUME NEW e \in Email, Signup(s, e) PROVE NoWrite
  BY <1>1 DEF Signup
<1>2. ASSUME NEW a \in Account,
             \/ DeleteAccount(s, a)
             \/ \E T \in Mentions : CreateGroup(s, a, T)
             \/ \E i \in invites : AcceptInvite(s, a, i)
             \/ \E x \in Expense : RemoveExpense(s, a, x)
      PROVE  NoWrite
  BY <1>2 DEF DeleteAccount, CreateGroup, AcceptInvite, RemoveExpense
<1>3. ASSUME NEW a \in Account, NEW g \in Group,
             \/ RemoveGroup(s, a, g)
             \/ \E e \in Email : AddMember(s, a, g, e) \/ RemoveInvite(s, a, g, e)
             \/ \E u \in MemberIds(g) : RemoveMember(s, a, g, u)
      PROVE  NoWrite
  BY <1>3 DEF RemoveGroup, AddMember, RemoveInvite, RemoveMember
<1>4. ASSUME NEW a, NEW g, NEW payer, NEW sharers,
             CreateExpense(s, a, g, payer, sharers)
      PROVE  NoWrite
  BY <1>4 DEF CreateExpense
<1> QED
  BY <1>1, <1>2, <1>3, <1>4 DEF Arrive

LEMMA ArriveTyped ==
  ASSUME TypeOK, NEW s \in Slot, Arrive(s) PROVE TypeOK'
<1>1. SUFFICES RequestsOK'
  <2>1. NoWrite
    BY ArriveReads
  <2> QED
    BY <2>1 DEF NoWrite, TypeOK, RequestsOK
<1>2. RequestsOK
  BY DEF TypeOK, RequestsOK
<1>3. \A r \in Request : Fits(r) /\ Start(s, r) => RequestsOK'
  BY <1>2, SetRequest DEF Start
<1>4. ASSUME NEW e \in Email, Signup(s, e)
      PROVE  RequestsOK'
  <2> DEFINE r == [Idle EXCEPT !.pc = "insert_user", !.email = e]
  <2>1. Start(s, r)
    BY <1>4 DEF Signup
  <2>2. r \in Request
    BY IdleFits DEF Request, PC
  <2>3. r.pc = "insert_user" /\ r.then = "idle"
    BY DEF Idle
  <2> HIDE DEF r
  <2>4. Fits(r)
    BY <2>3 DEF Fits, ByNeeded, GroupNeeded
  <2> QED
    BY <1>3, <2>1, <2>2, <2>4
<1>5. ASSUME NEW a \in Account, DeleteAccount(s, a)
      PROVE  RequestsOK'
  <2> DEFINE r == [Idle EXCEPT !.pc = "freeze", !.by = a]
  <2>1. Start(s, r)
    BY <1>5 DEF DeleteAccount
  <2>2. r \in Request
    BY IdleFits DEF Request, PC
  <2>3. r.pc = "freeze" /\ r.by = a /\ r.then = "idle"
    BY DEF Idle
  <2> HIDE DEF r
  <2>4. Fits(r)
    BY <2>3 DEF Fits, ByNeeded, GroupNeeded
  <2> QED
    BY <1>3, <2>1, <2>2, <2>4
<1>6. ASSUME NEW a \in Account, NEW T \in Mentions, CreateGroup(s, a, T)
      PROVE  RequestsOK'
  <2>5. /\ UNION {LiveAt(t[1]) : t \in T} \in SUBSET Account
        /\ {t \in T : LiveAt(t[1]) = {}} \in SUBSET (Email \X Copy)
    BY DEF LiveAt, Mentions
  <2> DEFINE r == [Idle EXCEPT
                    !.pc = "insert_group", !.by = a,
                    !.users = UNION {LiveAt(t[1]) : t \in T},
                    !.todo = {t \in T : LiveAt(t[1]) = {}}]
  <2>1. Start(s, r)
    BY <1>6 DEF CreateGroup
  <2>2. r \in Request
    BY <2>5, IdleFits DEF Request, PC
  <2>3. r.pc = "insert_group" /\ r.by = a /\ r.then = "idle"
    BY DEF Idle
  <2> HIDE DEF r
  <2>4. Fits(r)
    BY <2>3 DEF Fits, ByNeeded, GroupNeeded
  <2> QED
    BY <1>3, <2>1, <2>2, <2>4
<1>7. ASSUME NEW a \in Account, NEW i \in Invite, AcceptInvite(s, a, i)
      PROVE  RequestsOK'
  <2>5. i.group \in Group /\ i.email \in Email /\ i.n \in Copy
    BY DEF Invite
  <2> DEFINE r == [Idle EXCEPT
                    !.pc = "accept", !.by = a, !.group = i.group,
                    !.email = i.email, !.n = i.n]
  <2>1. Start(s, r)
    BY <1>7 DEF AcceptInvite
  <2>2. r \in Request
    BY <2>5, IdleFits DEF Request, PC
  <2>3. r.pc = "accept" /\ r.by = a /\ r.group = i.group /\ r.then = "idle"
    BY DEF Idle
  <2> HIDE DEF r
  <2>4. Fits(r)
    BY <2>5, <2>3 DEF Fits, ByNeeded, GroupNeeded
  <2> QED
    BY <1>3, <2>1, <2>2, <2>4
<1>8. ASSUME NEW a \in Account, NEW x \in Expense, RemoveExpense(s, a, x)
      PROVE  RequestsOK'
  <2> DEFINE r == [Idle EXCEPT !.pc = "remove_expense", !.expense = x]
  <2>1. Start(s, r)
    BY <1>8 DEF RemoveExpense
  <2>2. r \in Request
    BY IdleFits DEF Request, PC
  <2>3. r.pc = "remove_expense" /\ r.then = "idle"
    BY DEF Idle
  <2> HIDE DEF r
  <2>4. Fits(r)
    BY <2>3 DEF Fits, ByNeeded, GroupNeeded
  <2> QED
    BY <1>3, <2>1, <2>2, <2>4
<1>9. ASSUME NEW a \in Account, NEW g \in Group, RemoveGroup(s, a, g)
      PROVE  RequestsOK'
  <2> DEFINE r == [Idle EXCEPT !.pc = "remove_group", !.group = g]
  <2>1. Start(s, r)
    BY <1>9 DEF RemoveGroup
  <2>2. r \in Request
    BY IdleFits DEF Request, PC
  <2>3. r.pc = "remove_group" /\ r.group = g /\ r.then = "idle"
    BY DEF Idle
  <2> HIDE DEF r
  <2>4. Fits(r)
    BY <2>3 DEF Fits, ByNeeded, GroupNeeded
  <2> QED
    BY <1>3, <2>1, <2>2, <2>4
<1>10. ASSUME NEW a \in Account, NEW g \in Group, NEW e \in Email,
              AddMember(s, a, g, e)
       PROVE  RequestsOK'
  <2>1. CASE LiveAt(e) = {}
    <3>5. {<<e, 1>>} \in SUBSET (Email \X Copy)
      BY OneCopy
    <3> DEFINE r == [Idle EXCEPT
                      !.group = g, !.pc = "check_invite",
                      !.todo = {<<e, 1>>}, !.user = None]
    <3>1. Start(s, r)
      BY <1>10, <2>1 DEF AddMember
    <3>2. r \in Request
      BY <3>5, IdleFits DEF Request, PC
    <3>3. /\ r.pc = "check_invite" /\ r.group = g /\ r.then = "idle"
          /\ r.todo # {}
      BY DEF Idle
    <3> HIDE DEF r
    <3>4. Fits(r)
      BY <3>3 DEF Fits, ByNeeded, GroupNeeded
    <3> QED
      BY <1>3, <3>1, <3>2, <3>4
  <2>2. CASE LiveAt(e) # {}
    <3> DEFINE u == OneOf(LiveAt(e))
    <3>5. u \in Account
      BY <2>2, OneOfIn DEF LiveAt
    <3> DEFINE r == [Idle EXCEPT
                      !.group = g, !.pc = "insert_member",
                      !.todo = {}, !.user = u]
    <3>1. Start(s, r)
      BY <1>10, <2>2 DEF AddMember
    <3>2. r \in Request
      BY <3>5, IdleFits DEF Request, PC
    <3>3. /\ r.pc = "insert_member" /\ r.group = g /\ r.then = "idle"
          /\ r.user = u
      BY DEF Idle
    <3> HIDE DEF r
    <3>4. Fits(r)
      BY <3>5, <3>3 DEF Fits, ByNeeded, GroupNeeded
    <3> QED
      BY <1>3, <3>1, <3>2, <3>4
  <2> QED
    BY <2>1, <2>2
<1>11. ASSUME NEW a \in Account, NEW g \in Group, NEW e \in Email,
             RemoveInvite(s, a, g, e)
      PROVE  RequestsOK'
  <2> DEFINE r == [Idle EXCEPT
                    !.pc = "remove_invite", !.group = g, !.email = e]
  <2>1. Start(s, r)
    BY <1>11 DEF RemoveInvite
  <2>2. r \in Request
    BY IdleFits DEF Request, PC
  <2>3. r.pc = "remove_invite" /\ r.then = "idle"
    BY DEF Idle
  <2> HIDE DEF r
  <2>4. Fits(r)
    BY <2>3 DEF Fits, ByNeeded, GroupNeeded
  <2> QED
    BY <1>3, <2>1, <2>2, <2>4
<1>12. ASSUME NEW a \in Account, NEW g \in Group, NEW u \in Account,
             RemoveMember(s, a, g, u)
      PROVE  RequestsOK'
  <2> DEFINE r == [Idle EXCEPT
                    !.pc = "remove_member", !.group = g, !.user = u]
  <2>1. Start(s, r)
    BY <1>12 DEF RemoveMember
  <2>2. r \in Request
    BY IdleFits DEF Request, PC
  <2>3. r.pc = "remove_member" /\ r.then = "idle"
    BY DEF Idle
  <2> HIDE DEF r
  <2>4. Fits(r)
    BY <2>3 DEF Fits, ByNeeded, GroupNeeded
  <2> QED
    BY <1>3, <2>1, <2>2, <2>4
<1>13. ASSUME NEW a \in Account, NEW g \in Group,
              NEW payer \in Party, NEW sharers \in SUBSET Party,
              CreateExpense(s, a, g, payer, sharers)
       PROVE  RequestsOK'
  <2> DEFINE pending == ({payer} \cup sharers) \cap Email
             pc == IF pending = {} THEN "write_expense" ELSE "check_invite"
             todo == pending \X {1}
             r == [Idle EXCEPT
                     !.pc = pc, !.by = a, !.group = g, !.payer = payer,
                     !.sharers = sharers, !.todo = todo,
                     !.then = "write_expense"]
  <2>1. /\ todo \in SUBSET (Email \X Copy)
        /\ pc = "check_invite" => todo # {}
        /\ pc \in {"check_invite", "write_expense"} \cap PC
    <3>1. todo \in SUBSET (Email \X Copy)
      BY OneCopy
    <3>2. ASSUME pc = "check_invite" PROVE todo # {}
      <4>1. PICK e \in pending : TRUE
        BY <3>2
      <4>2. <<e, 1>> \in todo
        BY <4>1
      <4> QED
        BY <4>2
    <3> QED
      BY <3>1, <3>2 DEF PC
  <2>2. Start(s, r)
    BY <1>13 DEF CreateExpense
  <2> HIDE DEF todo, pc
  <2>3. r \in Request
    BY <2>1, IdleFits DEF Request, Party
  <2>4. /\ r.pc = pc /\ r.by = a /\ r.group = g /\ r.payer = payer
        /\ r.todo = todo /\ r.then = "write_expense"
    BY DEF Idle
  <2> HIDE DEF r
  <2>5. Fits(r)
    BY <2>1, <2>4 DEF Fits, ByNeeded, GroupNeeded
  <2> QED
    BY <1>3, <2>2, <2>3, <2>5
<1>14. \A g \in Group : MemberIds(g) \subseteq Account
  BY DEF MemberIds, Members, TypeOK, Row
<1>15. invites \subseteq Invite
  BY DEF TypeOK
<1> QED
  BY <1>4, <1>5, <1>6, <1>7, <1>8, <1>9, <1>10, <1>11, <1>12, <1>13,
     <1>14, <1>15 DEF Arrive, Party
-----------------------------------------------------------------------------
LEMMA GotoFits ==
  ASSUME RequestsOK, NEW s \in Slot, NEW pc, Goto(s, pc),
         \/ pc \in {"join", "purge"} /\ req[s].pc \in ByNeeded
         \/ pc = "insert_invite" /\ req[s].pc = "check_invite"
         \/ pc = "consume"
  PROVE  RequestsOK'
<1> DEFINE r == req[s]
           q == [r EXCEPT !.pc = pc]
<1>1. r \in Request /\ Fits(r)
  BY DEF RequestsOK
<1>2. req' = [req EXCEPT ![s] = q]
  BY DEF Goto
<1>3. pc \in PC
  BY DEF PC
<1> HIDE DEF r
<1>4. q \in Request
  BY <1>1, <1>3 DEF Request
<1>5. /\ q.pc = pc /\ q.by = r.by /\ q.group = r.group /\ q.todo = r.todo
      /\ q.then = r.then /\ q.payer = r.payer
  BY <1>1 DEF Request
<1> HIDE DEF q
<1>6. Fits(q)
  BY <1>1, <1>5 DEF Fits, ByNeeded, GroupNeeded, r
<1> QED
  BY <1>2, <1>4, <1>6, SetRequest

LEMMA FailTyped == ASSUME TypeOK, NEW s \in Slot, Fail(s) PROVE TypeOK'
BY EndFits DEF Fail, NoWrite, TypeOK, RequestsOK

LEMMA SignupTyped ==
  ASSUME TypeOK, NEW s \in Slot,
         InsertUser(s) \/ Reconnect(s) \/ JoinPending(s)
  PROVE  TypeOK'
<1>1. RequestsOK
  BY DEF TypeOK, RequestsOK
<1>2. CASE InsertUser(s)
  <2>1. ASSUME NEW a \in Account, status' = [status EXCEPT ![a] = "live"],
               req' = [req EXCEPT ![s] = [Idle EXCEPT !.pc = "reconnect",
                                                      !.by = a]],
               UNCHANGED <<group, creator, rows, invites>>
        PROVE  TypeOK'
    <3> DEFINE r == [Idle EXCEPT !.pc = "reconnect", !.by = a]
    <3>1. r \in Request
      BY IdleFits DEF Request, PC
    <3>2. r.pc = "reconnect" /\ r.by = a /\ r.then = "idle"
      BY DEF Idle
    <3>3. req' = [req EXCEPT ![s] = r]
      BY <2>1
    <3> HIDE DEF r
    <3>4. Fits(r)
      BY <3>2 DEF Fits, ByNeeded, GroupNeeded
    <3>5. RequestsOK'
      BY <1>1, <3>1, <3>3, <3>4, SetRequest
    <3> QED
      BY <2>1, <3>5 DEF TypeOK, RequestsOK
  <2> QED
    BY <1>2, <2>1, FailTyped DEF InsertUser, Unused
<1>3. CASE Reconnect(s)
  <2>1. req[s].pc = "reconnect" /\ req[s].by \in Account
    BY <1>1, <1>3 DEF Reconnect, RequestsOK, Fits, ByNeeded
  <2>2. CASE Goto(s, "join") /\ rows' = {Reattach(r, req[s].by) : r \in rows}
             /\ UNCHANGED <<status, group, creator, invites>>
    <3>1. RequestsOK'
      BY <1>1, <2>1, <2>2, GotoFits DEF ByNeeded
    <3>2. rows' \in SUBSET Row
      BY <2>1, <2>2, ReattachTyped DEF TypeOK
    <3> QED
      BY <2>2, <3>1, <3>2 DEF TypeOK, RequestsOK
  <2> QED
    BY <1>3, <2>2, FailTyped DEF Reconnect
<1>4. CASE JoinPending(s)
  <2> DEFINE a == req[s].by
  <2>1. a \in Account
    BY <1>1, <1>4 DEF JoinPending, RequestsOK, Fits, ByNeeded
  <2>2. CASE /\ \A i \in Mine(a) : FreeKeys(i.group, a) # {}
             /\ rows' = rows \cup {Member(i.group, a) : i \in Mine(a)}
             /\ invites' = invites \ Mine(a)
             /\ End(s)
             /\ UNCHANGED <<status, group, creator>>
    <3>1. \A i \in Mine(a) : i.group \in Group
      BY DEF Mine, TypeOK, Invite
    <3>2. rows' \in SUBSET Row
      BY <2>1, <2>2, <3>1, MemberTyped DEF TypeOK
    <3> QED
      BY <1>1, <2>2, <3>2, EndFits DEF TypeOK, RequestsOK
  <2> QED
    BY <1>4, <2>2, FailTyped DEF JoinPending
<1> QED
  BY <1>2, <1>3, <1>4

LEMMA DeletionTyped ==
  ASSUME TypeOK, NEW s \in Slot, Freeze(s) \/ Purge(s) PROVE TypeOK'
<1>1. RequestsOK
  BY DEF TypeOK, RequestsOK
<1>2. CASE Freeze(s)
  <2>1. req[s].pc = "freeze" /\ req[s].by \in Account
    BY <1>1, <1>2 DEF Freeze, RequestsOK, Fits, ByNeeded
  <2>2. RequestsOK'
    BY <1>1, <1>2, <2>1, GotoFits DEF Freeze, ByNeeded
  <2>3. rows' \in SUBSET Row
    BY <1>2, <2>1, ReattachTyped DEF Freeze, TypeOK
  <2>4. creator' \in [Group -> Account \cup {None}]
    BY <1>2 DEF Freeze, TypeOK
  <2> QED
    BY <1>2, <2>2, <2>3, <2>4 DEF Freeze, TypeOK, RequestsOK
<1>3. CASE Purge(s)
  BY <1>1, <1>3, FailTyped, EndFits DEF Purge, TypeOK, RequestsOK
<1> QED
  BY <1>2, <1>3

LEMMA NewGroupTyped ==
  ASSUME TypeOK, NEW s \in Slot, InsertGroup(s) PROVE TypeOK'
<1> DEFINE r == req[s]
<1>1. RequestsOK
  BY DEF TypeOK, RequestsOK
<1>2. r \in Request /\ Fits(r)
  BY <1>1 DEF RequestsOK
<1>3. r.by \in Account /\ r.users \in SUBSET Account
  BY <1>2 DEF InsertGroup, Fits, ByNeeded, Request
<1>4. ASSUME NEW g \in Group,
             \A a \in r.users \cup {r.by} : FreeKeys(g, a) # {},
             rows' = rows \cup {Member(g, a) : a \in r.users \cup {r.by}}
      PROVE  rows' \in SUBSET Row
  BY <1>3, <1>4, MemberTyped DEF TypeOK
<1>5. ASSUME NEW g \in Group, r.todo # {},
             req' = [req EXCEPT ![s] = [r EXCEPT !.pc = "insert_invite",
                                                 !.group = g]]
      PROVE  RequestsOK'
  <2> DEFINE q == [r EXCEPT !.pc = "insert_invite", !.group = g]
  <2>1. req' = [req EXCEPT ![s] = q]
    BY <1>5
  <2> HIDE DEF r
  <2>2. q \in Request
    BY <1>2 DEF Request, PC
  <2>3. /\ q.pc = "insert_invite" /\ q.group = g /\ q.todo = r.todo
        /\ q.then = r.then /\ q.by = r.by /\ q.payer = r.payer
    BY <1>2 DEF Request
  <2> HIDE DEF q
  <2>4. Fits(q)
    BY <1>2, <1>5, <2>3 DEF Fits, ByNeeded, GroupNeeded
  <2> QED
    BY <1>1, <2>1, <2>2, <2>4, SetRequest
<1>6. CASE Fail(s)
  BY <1>6, FailTyped
<1>7. CASE ~Fail(s)
  <2>1. PICK g \in Group :
          /\ \A a \in r.users \cup {r.by} : FreeKeys(g, a) # {}
          /\ group' = [group EXCEPT ![g] = "open"]
          /\ creator' = [creator EXCEPT ![g] = r.by]
          /\ rows' = rows \cup {Member(g, a) : a \in r.users \cup {r.by}}
          /\ req' = [req EXCEPT ![s] =
               IF r.todo = {} THEN Idle
               ELSE [r EXCEPT !.pc = "insert_invite", !.group = g]]
          /\ UNCHANGED <<status, invites>>
    BY <1>7 DEF InsertGroup
  <2>2. rows' \in SUBSET Row
    BY <1>4, <2>1
  <2>3. RequestsOK'
    <3>1. CASE r.todo = {}
      BY <1>1, <2>1, <3>1, EndFits DEF End
    <3>2. CASE r.todo # {}
      BY <1>5, <2>1, <3>2
    <3> QED
      BY <3>1, <3>2
  <2>4. group' \in [Group -> {"unused", "open", "gone"}]
    BY <2>1 DEF TypeOK
  <2>5. creator' \in [Group -> Account \cup {None}]
    BY <1>3, <2>1 DEF TypeOK
  <2> QED
    BY <2>1, <2>2, <2>3, <2>4, <2>5 DEF TypeOK, RequestsOK
<1> QED
  BY <1>6, <1>7

LEMMA AdmitTyped ==
  ASSUME TypeOK, NEW g \in Group, NEW a \in Account, FreeKeys(g, a) # {}
  PROVE  Admit(g, a) \in SUBSET Row
BY MemberTyped DEF Admit, TypeOK

LEMMA JoinsTyped ==
  ASSUME TypeOK, NEW s \in Slot, InsertMember(s) \/ AcceptJoin(s)
  PROVE  TypeOK'
<1>1. RequestsOK
  BY DEF TypeOK, RequestsOK
<1>2. CASE InsertMember(s)
  <2>1. req[s].group \in Group /\ req[s].user \in Account
    BY <1>1, <1>2 DEF InsertMember, RequestsOK, Fits, GroupNeeded
  <2> QED
    BY <1>1, <1>2, <2>1, AdmitTyped, EndFits, FailTyped
    DEF InsertMember, TypeOK, RequestsOK
<1>3. CASE AcceptJoin(s)
  <2>1. req[s].group \in Group /\ req[s].by \in Account
    BY <1>1, <1>3 DEF AcceptJoin, RequestsOK, Fits, GroupNeeded, ByNeeded
  <2>2. Goto(s, "consume") => RequestsOK'
    BY <1>1, GotoFits
  <2> QED
    BY <1>3, <2>1, <2>2, AdmitTyped, FailTyped
    DEF AcceptJoin, TypeOK, RequestsOK
<1> QED
  BY <1>2, <1>3

LEMMA InvitesTyped ==
  ASSUME TypeOK, NEW s \in Slot, CheckInvite(s) \/ InsertInvite(s)
  PROVE  TypeOK'
<1> DEFINE r == req[s]
<1>1. RequestsOK
  BY DEF TypeOK, RequestsOK
<1>2. r \in Request /\ Fits(r) /\ r.pc \in {"check_invite", "insert_invite"}
  BY <1>1 DEF RequestsOK, CheckInvite, InsertInvite
<1>3. Invited(r) \in Request /\ Fits(Invited(r))
  BY <1>2, InvitedFits
<1>4. req' = [req EXCEPT ![s] = Invited(r)] => RequestsOK'
  BY <1>1, <1>3, SetRequest
<1>5. CASE CheckInvite(s)
  <2>1. Goto(s, "insert_invite") => RequestsOK'
    BY <1>1, <1>5, GotoFits DEF CheckInvite
  <2>2. RequestsOK'
    BY <1>1, <1>4, <1>5, <2>1, EndFits DEF CheckInvite
  <2> QED
    BY <1>5, <2>2 DEF CheckInvite, NoWrite, TypeOK, RequestsOK
<1>6. CASE InsertInvite(s)
  <2> DEFINE e == OneOf(r.todo)[1]
  <2>1. r.group \in Group /\ r.todo # {} /\ r.todo \subseteq Email \X Copy
    BY <1>2 DEF Fits, GroupNeeded, Request
  <2>2. e \in Email
    BY <2>1, OneOfIn
  <2>3. FreeInvites(r.group, e) # {} => NewInvite(r.group, e) \in Invite
    <3>1. FreeInvites(r.group, e) # {}
            => OneOf(FreeInvites(r.group, e)) \in Copy
      BY OneOfIn DEF FreeInvites
    <3> QED
      BY <2>1, <2>2, <3>1 DEF NewInvite, Invite
  <2> HIDE DEF e
  <2>4. CASE /\ FreeInvites(r.group, e) # {}
             /\ invites' = invites \cup {NewInvite(r.group, e)}
             /\ req' = [req EXCEPT ![s] = Invited(r)]
             /\ UNCHANGED <<status, group, creator, rows>>
    BY <1>4, <2>3, <2>4 DEF TypeOK, RequestsOK
  <2> QED
    BY <1>6, <2>4, FailTyped DEF InsertInvite, e
<1> QED
  BY <1>5, <1>6

LEMMA RemovalsTyped ==
  ASSUME TypeOK, NEW s \in Slot,
         \/ DeleteMember(s) \/ DeleteInvite(s) \/ ConsumeInvite(s)
         \/ DeleteExpense(s) \/ DeleteGroup(s)
  PROVE  TypeOK'
<1>1. RequestsOK
  BY DEF TypeOK, RequestsOK
<1>2. CASE DeleteMember(s)
  BY <1>1, <1>2, EndFits DEF DeleteMember, TypeOK, RequestsOK
<1>3. CASE DeleteInvite(s)
  BY <1>1, <1>3, EndFits DEF DeleteInvite, TypeOK, RequestsOK
<1>4. CASE ConsumeInvite(s)
  BY <1>1, <1>4, EndFits DEF ConsumeInvite, TypeOK, RequestsOK
<1>5. CASE DeleteExpense(s)
  BY <1>1, <1>5, EndFits DEF DeleteExpense, TypeOK, RequestsOK
<1>6. CASE DeleteGroup(s)
  BY <1>1, <1>6, EndFits, FailTyped DEF DeleteGroup, TypeOK, RequestsOK
<1> QED
  BY <1>2, <1>3, <1>4, <1>5, <1>6

LEMMA WriteExpenseTyped ==
  ASSUME TypeOK, NEW s \in Slot, WriteExpense(s) PROVE TypeOK'
<1> DEFINE r == req[s]
<1>1. RequestsOK
  BY DEF TypeOK, RequestsOK
<1>2. /\ r.by \in Account /\ r.payer \in Party /\ r.group \in Group
      /\ r.sharers \in SUBSET Party
  BY <1>1 DEF WriteExpense, RequestsOK, Fits, GroupNeeded, Request
<1>3. ASSUME NEW x \in Expense,
             rows' = rows \cup {Entry("payer", r.group, x, r.payer, r.by)}
               \cup {Entry("split", r.group, x, p, r.by) : p \in r.sharers}
      PROVE  rows' \in SUBSET Row
  BY <1>2, <1>3, EntryTyped DEF TypeOK
<1>4. FreeExpenses \subseteq Expense
  BY DEF FreeExpenses
<1> QED
  BY <1>1, <1>3, <1>4, EndFits, FailTyped
  DEF WriteExpense, TypeOK, RequestsOK

LEMMA NextTyped == TypeOK /\ [Next]_vars => TypeOK'
<1> SUFFICES ASSUME TypeOK, [Next]_vars PROVE TypeOK'
  OBVIOUS
<1>1. CASE UNCHANGED vars
  BY <1>1 DEF vars, TypeOK
<1>2. ASSUME NEW s \in Slot, Arrive(s) \/ Commit(s) \/ Abort(s) PROVE TypeOK'
  BY <1>2, ArriveTyped, SignupTyped, DeletionTyped, NewGroupTyped, JoinsTyped,
     InvitesTyped, RemovalsTyped, WriteExpenseTyped, FailTyped
  DEF Commit, Abort
<1> QED
  BY <1>1, <1>2 DEF Next

\* Every state of every interleaving is typed, and every request under way
\* carries what its next step reads.
THEOREM Typing == Spec => []TypeOK
BY InitTyped, NextTyped, PTL DEF Spec

-----------------------------------------------------------------------------
(* How the steps change the rows.                                          *)

Kept == rows' \subseteq rows
Admitted == /\ rows \subseteq rows'
            /\ \A x \in rows' \ rows : \E g \in Group, a \in Account :
                 FreeKeys(g, a) # {} /\ x = Member(g, a)
Entered == /\ rows \subseteq rows'
           /\ \E g \in Group, x \in FreeExpenses, by \in Account :
                \A q \in rows' \ rows : \E kind : \E p \in Party :
                  q = Entry(kind, g, x, p, by)
Thawed == \E s \in Slot : /\ Reconnect(s) /\ req[s].by \in Account
                          /\ rows' = {Reattach(r, req[s].by) : r \in rows}
Frosted == \E s \in Slot : /\ Freeze(s) /\ req[s].by \in Account
                           /\ rows' = {Detach(r, req[s].by) : r \in rows}

LEMMA RowSteps ==
  ASSUME TypeOK, [Next]_vars
  PROVE  Kept \/ Admitted \/ Entered \/ Thawed \/ Frosted
<1>1. ASSUME NEW s \in Slot, Arrive(s) \/ Commit(s) \/ Abort(s)
      PROVE  Kept \/ Admitted \/ Entered \/ Thawed \/ Frosted
  <2> DEFINE r == req[s]
  <2>1. r \in Request /\ Fits(r)
    BY DEF TypeOK
  <2>2. CASE Fail(s)
    BY <2>2 DEF Fail, NoWrite, Kept
  <2>3. CASE Reconnect(s) /\ ~Fail(s)
    BY <2>1, <2>3 DEF Reconnect, Fits, ByNeeded, Thawed
  <2>4. CASE Freeze(s)
    BY <2>1, <2>4 DEF Freeze, Fits, ByNeeded, Frosted
  <2>5. CASE JoinPending(s) /\ ~Fail(s)
    <3>1. r.by \in Account /\ \A i \in Mine(r.by) : i.group \in Group
      BY <2>1, <2>5 DEF JoinPending, Fits, ByNeeded, Mine, TypeOK, Invite
    <3>2. /\ \A i \in Mine(r.by) : FreeKeys(i.group, r.by) # {}
          /\ rows' = rows \cup {Member(i.group, r.by) : i \in Mine(r.by)}
      BY <2>5 DEF JoinPending
    <3> QED
      BY <3>1, <3>2 DEF Admitted
  <2>6. CASE InsertGroup(s) /\ ~Fail(s)
    <3> DEFINE A == r.users \cup {r.by}
    <3>1. A \subseteq Account
      BY <2>1, <2>6 DEF InsertGroup, Fits, ByNeeded, Request
    <3>2. \E g \in Group : /\ \A a \in A : FreeKeys(g, a) # {}
                           /\ rows' = rows \cup {Member(g, a) : a \in A}
      BY <2>6 DEF InsertGroup
    <3> QED
      BY <3>1, <3>2 DEF Admitted
  <2>7. CASE (InsertMember(s) \/ AcceptJoin(s)) /\ ~Fail(s)
    <3>1. \E g \in Group, a \in Account :
            FreeKeys(g, a) # {} /\ rows' = Admit(g, a)
      BY <2>1, <2>7 DEF InsertMember, AcceptJoin, Fits, ByNeeded, GroupNeeded
    <3> QED
      BY <3>1 DEF Admit, Kept, Admitted
  <2>8. CASE WriteExpense(s) /\ ~Fail(s)
    <3>1. /\ r.by \in Account /\ r.payer \in Party /\ r.group \in Group
          /\ r.sharers \in SUBSET Party
      BY <2>1, <2>8 DEF WriteExpense, Fits, GroupNeeded, Request
    <3>2. \E x \in FreeExpenses :
            rows' = rows \cup {Entry("payer", r.group, x, r.payer, r.by)}
              \cup {Entry("split", r.group, x, p, r.by) : p \in r.sharers}
      BY <2>8 DEF WriteExpense
    <3> QED
      BY <3>1, <3>2 DEF Entered
  <2>9. CASE \/ InsertUser(s) \/ Purge(s) \/ CheckInvite(s) \/ InsertInvite(s)
             \/ DeleteMember(s) \/ DeleteInvite(s) \/ ConsumeInvite(s)
             \/ DeleteGroup(s) \/ DeleteExpense(s) \/ Abort(s)
    BY <2>9 DEF InsertUser, Purge, CheckInvite, InsertInvite, DeleteMember,
       DeleteInvite, ConsumeInvite, DeleteGroup, DeleteExpense, Abort, Fail,
       NoWrite, Kept
  <2>10. CASE Arrive(s)
    BY <2>10, ArriveReads DEF NoWrite, Kept
  <2> QED
    BY <1>1, <2>2, <2>3, <2>4, <2>5, <2>6, <2>7, <2>8, <2>9, <2>10 DEF Commit
<1> QED
  BY <1>1 DEF Next, vars, Kept

-----------------------------------------------------------------------------
(* Whoever a row is attached to signed up with the row's email.            *)

Attached(r) == r.user # None => r.ref \in {EmailOf[r.user], None}

LEMMA NewRowsAttached ==
  /\ \A g, a : a \in Account => Attached(Member(g, a))
  /\ \A kind, g, x, p, by : p \in Party => Attached(Entry(kind, g, x, p, by))
BY DEF Attached, Member, Entry, RefAtWrite, Party

LEMMA OwnersAttached ==
  ASSUME NEW r \in Row, NEW a \in Account, Attached(r)
  PROVE  Attached(Reattach(r, a)) /\ Attached(Detach(r, a))
BY DEF Attached, Reattach, Frozen, Detach, Row

LEMMA AttachedNext == TypeOK /\ AttachedByEmail /\ [Next]_vars => AttachedByEmail'
<1> SUFFICES ASSUME TypeOK, AttachedByEmail, [Next]_vars
             PROVE  \A r \in rows' : Attached(r)
  BY DEF AttachedByEmail, Attached
<1>1. \A r \in rows : r \in Row /\ Attached(r)
  BY DEF AttachedByEmail, Attached, TypeOK
<1>2. CASE Kept
  BY <1>1, <1>2 DEF Kept
<1>3. CASE Admitted \/ Entered
  BY <1>1, <1>3, NewRowsAttached DEF Admitted, Entered
<1>4. CASE Thawed \/ Frosted
  BY <1>1, <1>4, OwnersAttached DEF Thawed, Frosted
<1> QED
  BY <1>2, <1>3, <1>4, RowSteps

\* Under every interleaving and every abort, no deletion, return, invite or
\* link hands a row to an account of another email.
THEOREM Attachment == Spec => []AttachedByEmail
<1>1. Init => AttachedByEmail
  BY DEF Init, AttachedByEmail
<1> QED
  BY <1>1, InitTyped, NextTyped, AttachedNext, PTL DEF Spec

-----------------------------------------------------------------------------
(* Rows keep their keys, so a row before a step and one after it that agree *)
(* on the key are the same row.                                             *)

LEMMA OwnersKeepKeys ==
  ASSUME NEW r \in Row, NEW a \in Account
  PROVE  SameRow(r, Reattach(r, a)) /\ SameRow(r, Detach(r, a))
BY DEF SameRow, Reattach, Detach, Row

LEMMA SameRowEquivalence ==
  /\ \A r, q : SameRow(r, q) => SameRow(q, r)
  /\ \A r, q, x : SameRow(r, q) /\ SameRow(q, x) => SameRow(r, x)
BY DEF SameRow

LEMMA NewMemberKeys ==
  ASSUME NEW g, NEW a, FreeKeys(g, a) # {}
  PROVE  \A x \in rows : ~SameRow(x, Member(g, a))
<1>1. OneOf(FreeKeys(g, a)) \in FreeKeys(g, a)
  BY OneOfIn
<1> QED
  BY <1>1 DEF FreeKeys, Members, Member, SameRow

LEMMA MemberKeys ==
  ASSUME NEW g, NEW a, NEW h, NEW b, SameRow(Member(g, a), Member(h, b))
  PROVE  Member(g, a) = Member(h, b)
BY DEF SameRow, Member

LEMMA EntryKeys ==
  ASSUME NEW g, NEW x \in FreeExpenses, NEW by,
         NEW k, NEW l, NEW p, NEW o
  PROVE  /\ \A r \in rows : ~SameRow(r, Entry(k, g, x, p, by))
         /\ SameRow(Entry(k, g, x, p, by), Entry(l, g, x, o, by))
              => Entry(k, g, x, p, by) = Entry(l, g, x, o, by)
BY DEF SameRow, Entry, FreeExpenses

LEMMA KeysNext == TypeOK /\ KeysUnique /\ [Next]_vars => KeysUnique'
<1> SUFFICES ASSUME TypeOK, KeysUnique, [Next]_vars,
                    NEW r \in rows', NEW q \in rows', SameRow(r, q)
             PROVE  r = q
  BY DEF KeysUnique
<1>1. CASE Kept \/ (r \in rows /\ q \in rows)
  BY <1>1 DEF Kept, KeysUnique
<1>2. CASE Admitted /\ ~(r \in rows /\ q \in rows)
  BY <1>2, NewMemberKeys, MemberKeys, SameRowEquivalence DEF Admitted
<1>3. CASE Entered /\ ~(r \in rows /\ q \in rows)
  BY <1>3, EntryKeys, SameRowEquivalence DEF Entered
<1>4. CASE Thawed \/ Frosted
  <2>1. PICK x \in rows, y \in rows, a \in Account :
          \/ r = Reattach(x, a) /\ q = Reattach(y, a)
          \/ r = Detach(x, a) /\ q = Detach(y, a)
    BY <1>4 DEF Thawed, Frosted
  <2>2. SameRow(x, r) /\ SameRow(y, q)
    BY <2>1, OwnersKeepKeys DEF TypeOK
  <2>3. SameRow(x, y)
    BY <2>2, SameRowEquivalence
  <2> QED
    BY <2>1, <2>3 DEF KeysUnique
<1> QED
  BY <1>1, <1>2, <1>3, <1>4, RowSteps

LEMMA OwnerNext == TypeOK /\ KeysUnique /\ [Next]_vars => [OwnerStep]_vars
<1> SUFFICES ASSUME TypeOK, KeysUnique, [Next]_vars,
                    NEW r \in rows \ rows', NEW q \in rows' \ rows,
                    SameRow(r, q)
             PROVE  /\ r.ref = q.ref
                    /\ \/ /\ q.user = None
                          /\ \E s \in Slot : Freeze(s) /\ req[s].by = r.user
                       \/ /\ r.user = None
                          /\ \E s \in Slot : Reconnect(s) /\ req[s].by = q.user
  BY DEF OwnerStep
<1>1. r \in Row
  BY DEF TypeOK
<1>2. CASE Thawed
  <2>1. PICK s \in Slot : /\ Reconnect(s) /\ req[s].by \in Account
                          /\ rows' = {Reattach(x, req[s].by) : x \in rows}
    BY <1>2 DEF Thawed
  <2>2. PICK x \in rows : q = Reattach(x, req[s].by)
    BY <2>1
  <2>3. x = r
    BY <2>1, <2>2, OwnersKeepKeys, SameRowEquivalence DEF KeysUnique, TypeOK
  <2> QED
    BY <1>1, <2>1, <2>2, <2>3 DEF Reattach, Frozen, Row
<1>3. CASE Frosted
  <2>1. PICK s \in Slot : /\ Freeze(s) /\ req[s].by \in Account
                          /\ rows' = {Detach(x, req[s].by) : x \in rows}
    BY <1>3 DEF Frosted
  <2>2. PICK x \in rows : q = Detach(x, req[s].by)
    BY <2>1
  <2>3. x = r
    BY <2>1, <2>2, OwnersKeepKeys, SameRowEquivalence DEF KeysUnique, TypeOK
  <2> QED
    BY <1>1, <2>1, <2>2, <2>3 DEF Detach, Row
<1>4. CASE Kept \/ Admitted \/ Entered
  BY <1>4 DEF Kept, Admitted, Entered
<1> QED
  BY <1>2, <1>3, <1>4, RowSteps

\* Only the deletion of its own account freezes a row, only a signup with
\* its email thaws it, and its email_ref never changes.
THEOREM Ownership == Spec => OwnerChanges
<1>1. Init => KeysUnique
  BY DEF Init, KeysUnique
<1> QED
  BY <1>1, InitTyped, NextTyped, KeysNext, OwnerNext, PTL
  DEF Spec, OwnerChanges
-----------------------------------------------------------------------------
(* One request at a time: no row outlives its account.  A request that no  *)
(* other overlaps still finds alive the accounts it has loaded.            *)

Sure(r) ==
  /\ r.pc \in ByNeeded => Live(r.by)
  /\ r.pc = "purge" => \A x \in rows : x.user # r.by
  /\ r.pc = "insert_group" => \A a \in r.users : Live(a)
  /\ r.pc = "insert_member" => Live(r.user)
  /\ "write_expense" \in {r.pc, r.then} =>
       \A p \in (r.sharers \cup {r.payer}) \ Email : Live(p)

AllSure == \A s \in Slot : req[s].pc # "idle" => Sure(req[s])
Alone == OneAtATime /\ NoDangling /\ AllSure

\* Every other slot is idle.
OnlyOne(s) == \A t \in Slot \ {s} : req[t].pc = "idle"

LEMMA StepSure ==
  ASSUME TypeOK, NEW s \in Slot, OnlyOne(s), NEW r, Sure(r)',
         req' = [req EXCEPT ![s] = r]
  PROVE  AllSure'
BY DEF TypeOK, OnlyOne, AllSure

LEMMA IdleSure ==
  ASSUME TypeOK, NEW s \in Slot, OnlyOne(s), End(s) PROVE AllSure'
<1>1. Idle.pc = "idle"
  BY DEF Idle
<1> QED
  BY <1>1 DEF TypeOK, OnlyOne, AllSure, End

\* What a request relies on does not change while it only moves on.
LEMMA SureStays ==
  ASSUME NEW r, NEW q, Sure(r), UNCHANGED status,
         q.pc \notin ByNeeded \cup {"insert_member"},
         "write_expense" \in {q.pc, q.then} =>
           /\ "write_expense" \in {r.pc, r.then}
           /\ q.sharers = r.sharers /\ q.payer = r.payer
  PROVE  Sure(q)'
BY DEF Sure, ByNeeded, Live

LEMMA NewRowsLive ==
  ASSUME NoDangling, UNCHANGED status,
         \A x \in rows' : x \in rows \/ x.user = None \/ Live(x.user)
  PROVE  NoDangling'
BY DEF NoDangling, Live

LEMMA FewerRows ==
  ASSUME NoDangling, UNCHANGED status, rows' \subseteq rows PROVE NoDangling'
BY DEF NoDangling, Live
LEMMA ArriveAlone ==
  ASSUME TypeOK, NoDangling, NEW s \in Slot, OnlyOne(s), Arrive(s)
  PROVE  NoDangling' /\ AllSure'
<1>1. NoWrite
  BY ArriveReads
<1>2. NoDangling'
  BY <1>1, FewerRows DEF NoWrite
<1>3. ASSUME NEW r, Start(s, r), Sure(r)' PROVE AllSure'
  BY <1>3, StepSure DEF Start
<1>4. \A a \in Account : Live(a)' <=> Live(a)
  BY <1>1 DEF NoWrite, Live
<1>5. Idle.pc = "idle" /\ Idle.then = "idle" /\ Idle.users = {}
  BY DEF Idle
<1>6. ASSUME NEW e \in Email, Signup(s, e) PROVE AllSure'
  <2>1. PICK r : r = [Idle EXCEPT !.pc = "insert_user", !.email = e]
    OBVIOUS
  <2>2. r.pc = "insert_user" /\ r.then = "idle"
    BY <2>1 DEF Idle
  <2>3. Sure(r)'
    BY <2>2 DEF Sure, ByNeeded
  <2> QED
    BY <1>3, <1>6, <2>1, <2>3 DEF Signup
<1>7. ASSUME NEW a \in Account, DeleteAccount(s, a) PROVE AllSure'
  <2>1. PICK r : r = [Idle EXCEPT !.pc = "freeze", !.by = a]
    OBVIOUS
  <2>2. r.pc = "freeze" /\ r.then = "idle" /\ r.by = a
    BY <2>1 DEF Idle
  <2>3. Sure(r)'
    BY <1>4, <1>7, <2>2 DEF Sure, ByNeeded, DeleteAccount
  <2> QED
    BY <1>3, <1>7, <2>1, <2>3 DEF DeleteAccount
<1>8. ASSUME NEW a \in Account, NEW T \in Mentions, CreateGroup(s, a, T)
      PROVE  AllSure'
  <2>1. PICK U : U = UNION {LiveAt(t[1]) : t \in T}
    OBVIOUS
  <2>2. PICK r : r = [Idle EXCEPT !.pc = "insert_group", !.by = a, !.users = U,
                        !.todo = {t \in T : LiveAt(t[1]) = {}}]
    OBVIOUS
  <2>3. r.pc = "insert_group" /\ r.then = "idle" /\ r.by = a /\ r.users = U
    BY <2>2 DEF Idle
  <2>4. \A u \in U : u \in Account /\ Live(u)
    BY <2>1 DEF LiveAt
  <2>5. Sure(r)'
    BY <1>4, <1>8, <2>3, <2>4 DEF Sure, ByNeeded, CreateGroup
  <2> QED
    BY <1>3, <1>8, <2>1, <2>2, <2>5 DEF CreateGroup
<1>9. ASSUME NEW a \in Account, NEW i, AcceptInvite(s, a, i) PROVE AllSure'
  <2>1. PICK r : r = [Idle EXCEPT !.pc = "accept", !.by = a, !.group = i.group,
                        !.email = i.email, !.n = i.n]
    OBVIOUS
  <2>2. r.pc = "accept" /\ r.then = "idle" /\ r.by = a
    BY <2>1 DEF Idle
  <2>3. Sure(r)'
    BY <1>4, <1>9, <2>2 DEF Sure, ByNeeded, AcceptInvite
  <2> QED
    BY <1>3, <1>9, <2>1, <2>3 DEF AcceptInvite
<1>10. ASSUME NEW r, Start(s, r), r.then = "idle",
              r.pc \in {"remove_expense", "remove_group", "remove_invite",
                        "remove_member", "check_invite"}
       PROVE  AllSure'
  <2>1. Sure(r)'
    BY <1>10 DEF Sure, ByNeeded
  <2> QED
    BY <1>3, <1>10, <2>1
<1>11. ASSUME NEW a, NEW x, RemoveExpense(s, a, x) PROVE AllSure'
  <2>1. PICK r : r = [Idle EXCEPT !.pc = "remove_expense", !.expense = x]
    OBVIOUS
  <2> QED
    BY <1>10, <1>11, <2>1 DEF RemoveExpense, Idle
<1>12. ASSUME NEW a, NEW g, RemoveGroup(s, a, g) PROVE AllSure'
  <2>1. PICK r : r = [Idle EXCEPT !.pc = "remove_group", !.group = g]
    OBVIOUS
  <2> QED
    BY <1>10, <1>12, <2>1 DEF RemoveGroup, Idle
<1>13. ASSUME NEW a, NEW g, NEW e, RemoveInvite(s, a, g, e) PROVE AllSure'
  <2>1. PICK r : r = [Idle EXCEPT !.pc = "remove_invite", !.group = g, !.email = e]
    OBVIOUS
  <2> QED
    BY <1>10, <1>13, <2>1 DEF RemoveInvite, Idle
<1>14. ASSUME NEW a, NEW g, NEW u, RemoveMember(s, a, g, u) PROVE AllSure'
  <2>1. PICK r : r = [Idle EXCEPT !.pc = "remove_member", !.group = g, !.user = u]
    OBVIOUS
  <2> QED
    BY <1>10, <1>14, <2>1 DEF RemoveMember, Idle
<1>15. ASSUME NEW a, NEW g, NEW e, AddMember(s, a, g, e) PROVE AllSure'
  <2>1. CASE LiveAt(e) = {}
    <3>1. PICK r : r = [Idle EXCEPT !.group = g, !.pc = "check_invite",
                          !.todo = {<<e, 1>>}, !.user = None]
      OBVIOUS
    <3> QED
      BY <1>10, <1>15, <2>1, <3>1 DEF AddMember, Idle
  <2>2. CASE LiveAt(e) # {}
    <3>1. PICK u : u = OneOf(LiveAt(e))
      OBVIOUS
    <3>2. PICK r : r = [Idle EXCEPT !.group = g, !.pc = "insert_member",
                          !.todo = {}, !.user = u]
      OBVIOUS
    <3>3. r.pc = "insert_member" /\ r.then = "idle" /\ r.user = u
      BY <3>2 DEF Idle
    <3>4. u \in Account /\ Live(u)
      BY <2>2, <3>1, OneOfIn DEF LiveAt
    <3>5. Sure(r)'
      BY <1>4, <3>3, <3>4 DEF Sure, ByNeeded
    <3>6. Start(s, r)
      BY <1>15, <2>2, <3>1, <3>2 DEF AddMember
    <3> QED
      BY <1>3, <3>5, <3>6
  <2> QED
    BY <2>1, <2>2
<1>16. ASSUME NEW a \in Account, NEW g \in Group, NEW payer, NEW sharers,
              CreateExpense(s, a, g, payer, sharers)
       PROVE  AllSure'
  <2>1. PICK pc : pc = IF ({payer} \cup sharers) \cap Email = {}
                       THEN "write_expense" ELSE "check_invite"
    OBVIOUS
  <2>2. PICK r : r = [Idle EXCEPT !.pc = pc, !.by = a, !.group = g,
                        !.payer = payer, !.sharers = sharers,
                        !.todo = (({payer} \cup sharers) \cap Email) \X {1},
                        !.then = "write_expense"]
    OBVIOUS
  <2>3. /\ r.pc \in {"write_expense", "check_invite"}
        /\ r.sharers = sharers /\ r.payer = payer
    BY <2>1, <2>2 DEF Idle
  <2>4. \A p \in (sharers \cup {payer}) \ Email : p \in Account /\ Live(p)
    <3>1. \A p \in (sharers \cup {payer}) \ Email : p \in MemberIds(g)
      BY <1>16 DEF CreateExpense
    <3>2. \A p \in MemberIds(g) : p \in Account /\ Live(p)
      BY DEF MemberIds, Members, NoDangling, TypeOK, Row
    <3> QED
      BY <3>1, <3>2
  <2>5. Sure(r)'
    BY <1>4, <2>3, <2>4 DEF Sure, ByNeeded
  <2> QED
    BY <1>3, <1>16, <2>1, <2>2, <2>5 DEF CreateExpense
<1>17. AllSure'
  BY <1>6, <1>7, <1>8, <1>9, <1>11, <1>12, <1>13, <1>14, <1>15, <1>16 DEF Arrive
<1> QED
  BY <1>2, <1>17
LEMMA FailAlone ==
  ASSUME TypeOK, NoDangling, NEW s \in Slot, OnlyOne(s), Fail(s)
  PROVE  NoDangling' /\ AllSure'
BY IdleSure, FewerRows DEF Fail, NoWrite

\* A request whose last commit changes the rows ends with it.
LEMMA LastCommit ==
  ASSUME TypeOK, NoDangling, NEW s \in Slot, OnlyOne(s), End(s), UNCHANGED status,
         \A x \in rows' : x \in rows \/ x.user = None \/ Live(x.user)
  PROVE  NoDangling' /\ AllSure'
BY IdleSure, NewRowsLive

LEMMA MovesOn ==
  ASSUME TypeOK, NEW s \in Slot, OnlyOne(s), Sure(req[s]), UNCHANGED status,
         NEW pc \in {"insert_invite", "consume"}, Goto(s, pc)
  PROVE  AllSure'
<1>1. PICK r : r = req[s]
  OBVIOUS
<1>2. PICK q : q = [r EXCEPT !.pc = pc]
  OBVIOUS
<1>3. r \in Request
  BY <1>1 DEF TypeOK
<1>4. /\ q.pc = pc /\ q.then = r.then /\ q.sharers = r.sharers
      /\ q.payer = r.payer
  BY <1>2, <1>3 DEF Request
<1>5. Sure(q)'
  BY <1>1, <1>4, SureStays DEF ByNeeded
<1>6. req' = [req EXCEPT ![s] = q]
  BY <1>1, <1>2 DEF Goto
<1> QED
  BY <1>5, <1>6, StepSure

LEMMA InvitedSure ==
  ASSUME NEW r \in Request, r.pc # "idle", Sure(r), UNCHANGED status
  PROVE  Invited(r).pc # "idle" => Sure(Invited(r))'
<1>1. PICK rest : rest = r.todo \ {OneOf(r.todo)}
  OBVIOUS
<1>2. PICK pc : pc = IF r.then = "idle" THEN "insert_invite" ELSE "check_invite"
  OBVIOUS
<1>3. CASE rest # {}
  <2>1. PICK q : q = [r EXCEPT !.todo = rest, !.pc = pc]
    OBVIOUS
  <2>2. /\ q.pc = pc /\ q.then = r.then /\ q.sharers = r.sharers
        /\ q.payer = r.payer
    BY <2>1 DEF Request
  <2>3. Sure(q)'
    BY <1>2, <2>2, SureStays DEF ByNeeded
  <2> QED
    BY <1>1, <1>2, <1>3, <2>1, <2>3 DEF Invited
<1>4. CASE rest = {} /\ r.then = "idle"
  BY <1>1, <1>4 DEF Invited, Idle
<1>5. CASE rest = {} /\ r.then # "idle"
  <2>1. r.then = "write_expense"
    BY <1>5 DEF Request
  <2>2. PICK q : q = [r EXCEPT !.todo = {}, !.pc = "write_expense"]
    OBVIOUS
  <2>3. /\ q.pc = "write_expense" /\ q.then = r.then /\ q.sharers = r.sharers
        /\ q.payer = r.payer
    BY <2>2 DEF Request
  <2>4. Sure(q)'
    BY <2>1, <2>3, SureStays DEF ByNeeded
  <2> QED
    BY <1>1, <1>5, <2>1, <2>2, <2>4 DEF Invited
<1> QED
  BY <1>3, <1>4, <1>5

LEMMA InvitedAlone ==
  ASSUME TypeOK, NEW s \in Slot, OnlyOne(s), Sure(req[s]), UNCHANGED status,
         req[s].pc # "idle", req' = [req EXCEPT ![s] = Invited(req[s])]
  PROVE  AllSure'
<1>1. PICK q : q = Invited(req[s])
  OBVIOUS
<1>2. req[s] \in Request
  BY DEF TypeOK
<1>3. q.pc # "idle" => Sure(q)'
  <2>1. PICK r : r = req[s]
    OBVIOUS
  <2> QED
    BY <1>1, <1>2, <2>1, InvitedSure
<1>4. CASE q.pc # "idle"
  BY <1>1, <1>3, <1>4, StepSure
<1>5. CASE q.pc = "idle"
  BY <1>1, <1>5 DEF TypeOK, OnlyOne, AllSure
<1> QED
  BY <1>4, <1>5

LEMMA SignupAlone ==
  ASSUME TypeOK, NoDangling, NEW s \in Slot, OnlyOne(s), Sure(req[s]),
         InsertUser(s) \/ Reconnect(s) \/ JoinPending(s)
  PROVE  NoDangling' /\ AllSure'
<1>1. CASE Fail(s)
  BY <1>1, FailAlone
<1>2. CASE InsertUser(s) /\ ~Fail(s)
  <2>1. PICK a \in Account :
          /\ status' = [status EXCEPT ![a] = "live"]
          /\ req' = [req EXCEPT ![s] = [Idle EXCEPT !.pc = "reconnect", !.by = a]]
          /\ UNCHANGED rows
    BY <1>2 DEF InsertUser, Unused
  <2>2. PICK q : q = [Idle EXCEPT !.pc = "reconnect", !.by = a]
    OBVIOUS
  <2>3. q.pc = "reconnect" /\ q.by = a /\ q.then = "idle"
    BY <2>2 DEF Idle
  <2>4. status'[a] = "live"
    BY <2>1 DEF TypeOK
  <2>5. Sure(q)'
    BY <2>3, <2>4 DEF Sure, ByNeeded, Live
  <2>6. NoDangling'
    BY <2>1 DEF NoDangling, Live, TypeOK
  <2> QED
    BY <2>1, <2>2, <2>5, <2>6, StepSure
<1>3. CASE Reconnect(s) /\ ~Fail(s)
  <2>1. PICK a : a = req[s].by
    OBVIOUS
  <2>2. Live(a)
    BY <1>3, <2>1 DEF Reconnect, Sure, ByNeeded
  <2>3. /\ rows' = {Reattach(r, a) : r \in rows}
        /\ Goto(s, "join")
        /\ UNCHANGED status
    BY <1>3, <2>1 DEF Reconnect
  <2>4. NoDangling'
    <3>1. \A r \in rows : r.user # None => Live(r.user)
      BY DEF NoDangling
    <3>2. \A r \in rows : Reattach(r, a).user # None => Live(Reattach(r, a).user)
      BY <2>2, <3>1 DEF Reattach, TypeOK, Row
    <3> QED
      BY <2>3, <3>2 DEF NoDangling, Live
  <2>5. PICK q : q = [req[s] EXCEPT !.pc = "join"]
    OBVIOUS
  <2>6. q.pc = "join" /\ q.by = a /\ q.then = req[s].then
        /\ q.sharers = req[s].sharers /\ q.payer = req[s].payer
    BY <2>1, <2>5 DEF TypeOK, Request
  <2>7. Sure(q)'
    BY <2>2, <2>3, <2>6 DEF Sure, ByNeeded, Live
  <2>8. req' = [req EXCEPT ![s] = q]
    BY <2>3, <2>5 DEF Goto
  <2> QED
    BY <2>4, <2>7, <2>8, StepSure
<1>4. CASE JoinPending(s) /\ ~Fail(s)
  <2>1. PICK a : a = req[s].by
    OBVIOUS
  <2>2. Live(a)
    BY <1>4, <2>1 DEF JoinPending, Sure, ByNeeded
  <2>3. /\ rows' = rows \cup {Member(i.group, a) : i \in Mine(a)}
        /\ End(s) /\ UNCHANGED status
    BY <1>4, <2>1 DEF JoinPending
  <2>4. \A x \in rows' : x \in rows \/ Live(x.user)
    BY <2>2, <2>3 DEF Member
  <2> QED
    BY <2>3, <2>4, LastCommit
<1> QED
  BY <1>1, <1>2, <1>3, <1>4

LEMMA DeletionAlone ==
  ASSUME TypeOK, NoDangling, NEW s \in Slot, OnlyOne(s), Sure(req[s]),
         Freeze(s) \/ Purge(s)
  PROVE  NoDangling' /\ AllSure'
<1>1. CASE Fail(s)
  BY <1>1, FailAlone
<1>2. PICK a : a = req[s].by
  OBVIOUS
<1>3. a \in Account
  BY <1>2 DEF Freeze, Purge, TypeOK, Fits, ByNeeded
<1>4. CASE Freeze(s)
  <2>1. /\ rows' = {Detach(r, a) : r \in rows}
        /\ Goto(s, "purge") /\ UNCHANGED status
    BY <1>2, <1>4 DEF Freeze
  <2>2. \A r \in rows : /\ Detach(r, a).user # a
                        /\ Detach(r, a).user # None => Live(Detach(r, a).user)
    BY <1>3 DEF Detach, NoDangling, TypeOK, Row
  <2>3. NoDangling'
    BY <2>1, <2>2 DEF NoDangling, Live
  <2>4. PICK q : q = [req[s] EXCEPT !.pc = "purge"]
    OBVIOUS
  <2>5. /\ q.pc = "purge" /\ q.by = a /\ q.then = req[s].then
        /\ q.sharers = req[s].sharers /\ q.payer = req[s].payer
    BY <1>2, <2>4 DEF TypeOK, Request
  <2>6. Live(a)
    BY <1>2, <1>4 DEF Freeze, Sure, ByNeeded
  <2>7. \A x \in rows' : x.user # a
    BY <2>1, <2>2
  <2>8. Sure(q)'
    BY <2>1, <2>5, <2>6, <2>7 DEF Sure, ByNeeded, Live
  <2>9. req' = [req EXCEPT ![s] = q]
    BY <2>1, <2>4 DEF Goto
  <2> QED
    BY <2>3, <2>8, <2>9, StepSure
<1>5. CASE Purge(s) /\ ~Fail(s)
  <2>1. /\ status' = [status EXCEPT ![a] = "gone"]
        /\ End(s) /\ UNCHANGED rows
    BY <1>2, <1>5 DEF Purge
  <2>2. \A x \in rows : x.user # a
    BY <1>2, <1>5 DEF Purge, Sure
  <2>3. NoDangling'
    BY <2>1, <2>2 DEF NoDangling, Live, TypeOK
  <2> QED
    BY <2>1, <2>3, IdleSure
<1> QED
  BY <1>1, <1>4, <1>5
LEMMA GroupAlone ==
  ASSUME TypeOK, NoDangling, NEW s \in Slot, OnlyOne(s), Sure(req[s]),
         InsertGroup(s)
  PROVE  NoDangling' /\ AllSure'
<1>1. CASE Fail(s)
  BY <1>1, FailAlone
<1>2. CASE ~Fail(s)
  <2>1. PICK r : r = req[s]
    OBVIOUS
  <2>2. r \in Request /\ Sure(r) /\ r.pc = "insert_group"
    BY <2>1 DEF TypeOK, InsertGroup
  <2>3. PICK g \in Group :
          /\ rows' = rows \cup {Member(g, a) : a \in r.users \cup {r.by}}
          /\ req' = [req EXCEPT ![s] =
               IF r.todo = {} THEN Idle
               ELSE [r EXCEPT !.pc = "insert_invite", !.group = g]]
          /\ UNCHANGED status
    BY <1>2, <2>1 DEF InsertGroup
  <2>4. NoDangling'
    <3>1. \A a \in r.users \cup {r.by} : Live(a)
      BY <2>2 DEF Sure, ByNeeded
    <3>2. \A x \in rows' : x \in rows \/ Live(x.user)
      BY <2>3, <3>1 DEF Member
    <3> QED
      BY <2>3, <3>2, NewRowsLive
  <2>5. CASE r.todo = {}
    BY <2>3, <2>4, <2>5, IdleSure DEF End
  <2>6. CASE r.todo # {}
    <3>1. PICK q : q = [r EXCEPT !.pc = "insert_invite", !.group = g]
      OBVIOUS
    <3>2. /\ q.pc = "insert_invite" /\ q.then = r.then
          /\ q.sharers = r.sharers /\ q.payer = r.payer
      BY <2>2, <3>1 DEF Request
    <3>3. Sure(q)'
      BY <2>2, <2>3, <3>2, SureStays DEF ByNeeded
    <3> QED
      BY <2>3, <2>4, <2>6, <3>1, <3>3, StepSure
  <2> QED
    BY <2>5, <2>6
<1> QED
  BY <1>1, <1>2

LEMMA JoinsAlone ==
  ASSUME TypeOK, NoDangling, NEW s \in Slot, OnlyOne(s), Sure(req[s]),
         InsertMember(s) \/ AcceptJoin(s)
  PROVE  NoDangling' /\ AllSure'
<1>1. \A g, a, x : Live(a) /\ x \in Admit(g, a) => x \in rows \/ Live(x.user)
  BY DEF Admit, Member
<1>2. CASE Fail(s)
  BY <1>2, FailAlone
<1>3. CASE InsertMember(s) /\ ~Fail(s)
  <2>1. /\ rows' = Admit(req[s].group, req[s].user) /\ Live(req[s].user)
        /\ End(s) /\ UNCHANGED status
    BY <1>3 DEF InsertMember, Sure
  <2> QED
    BY <1>1, <2>1, LastCommit
<1>4. CASE AcceptJoin(s) /\ ~Fail(s)
  <2>1. /\ rows' = Admit(req[s].group, req[s].by) /\ Live(req[s].by)
        /\ Goto(s, "consume") /\ UNCHANGED status
    BY <1>4 DEF AcceptJoin, Sure, ByNeeded
  <2>2. AllSure'
    BY <2>1, MovesOn
  <2>3. NoDangling'
    BY <1>1, <2>1, NewRowsLive
  <2> QED
    BY <2>2, <2>3
<1> QED
  BY <1>2, <1>3, <1>4

LEMMA WriteAlone ==
  ASSUME TypeOK, NoDangling, NEW s \in Slot, OnlyOne(s), Sure(req[s]),
         WriteExpense(s)
  PROVE  NoDangling' /\ AllSure'
<1>1. CASE Fail(s)
  BY <1>1, FailAlone
<1>2. CASE ~Fail(s)
  <2>1. PICK r : r = req[s]
    OBVIOUS
  <2>2. PICK x \in FreeExpenses :
          /\ rows' = rows \cup {Entry("payer", r.group, x, r.payer, r.by)}
               \cup {Entry("split", r.group, x, p, r.by) : p \in r.sharers}
          /\ End(s) /\ UNCHANGED status
    BY <1>2, <2>1 DEF WriteExpense
  <2>3. \A p \in r.sharers \cup {r.payer} : p \in Email \/ Live(p)
    BY <2>1 DEF WriteExpense, Sure
  <2>4. \A q \in rows' : q \in rows \/ q.user = None \/ Live(q.user)
    BY <2>2, <2>3 DEF Entry
  <2> QED
    BY <2>2, <2>4, LastCommit
<1> QED
  BY <1>1, <1>2

LEMMA OthersAlone ==
  ASSUME TypeOK, NoDangling, NEW s \in Slot, OnlyOne(s), Sure(req[s]),
         \/ CheckInvite(s) \/ InsertInvite(s)
         \/ DeleteMember(s) \/ DeleteInvite(s) \/ ConsumeInvite(s)
         \/ DeleteGroup(s) \/ DeleteExpense(s)
  PROVE  NoDangling' /\ AllSure'
<1>1. CASE Fail(s)
  BY <1>1, FailAlone
<1>2. CASE (CheckInvite(s) \/ InsertInvite(s)) /\ ~Fail(s)
  <2>1. UNCHANGED <<status, rows>> /\ req[s].pc # "idle"
    BY <1>2 DEF CheckInvite, InsertInvite, NoWrite
  <2>2. \/ req' = [req EXCEPT ![s] = Invited(req[s])]
        \/ Goto(s, "insert_invite")
        \/ End(s)
    BY <1>2 DEF CheckInvite, InsertInvite
  <2> QED
    BY <2>1, <2>2, InvitedAlone, MovesOn, IdleSure, FewerRows
<1>3. CASE /\ \/ DeleteMember(s) \/ DeleteInvite(s) \/ ConsumeInvite(s)
              \/ DeleteGroup(s) \/ DeleteExpense(s)
           /\ ~Fail(s)
  <2>1. rows' \subseteq rows /\ End(s) /\ UNCHANGED status
    BY <1>3 DEF DeleteMember, DeleteInvite, ConsumeInvite, DeleteGroup,
                DeleteExpense
  <2> QED
    BY <2>1, LastCommit
<1> QED
  BY <1>1, <1>2, <1>3

\* Whatever arrives leaves its slot occupied.
LEMMA ArriveStarts ==
  ASSUME TypeOK, NEW s \in Slot, Arrive(s)
  PROVE  req'[s].pc # "idle" /\ \A t \in Slot \ {s} : req'[t] = req[t]
<1> DEFINE Occupies ==
             req'[s].pc # "idle" /\ \A t \in Slot \ {s} : req'[t] = req[t]
<1>1. \A r : Start(s, r) /\ r.pc # "idle" => Occupies
  BY DEF Start, TypeOK
<1> HIDE DEF Occupies
<1>2. ASSUME NEW e \in Email, Signup(s, e) PROVE Occupies
  BY <1>1, <1>2 DEF Signup, Idle
<1>3. ASSUME NEW a \in Account, NEW T, CreateGroup(s, a, T) PROVE Occupies
  BY <1>1, <1>3 DEF CreateGroup, Idle
<1>4. ASSUME NEW a \in Account,
             \/ DeleteAccount(s, a)
             \/ \E i \in invites : AcceptInvite(s, a, i)
             \/ \E x \in Expense : RemoveExpense(s, a, x)
      PROVE  Occupies
  BY <1>1, <1>4 DEF DeleteAccount, AcceptInvite, RemoveExpense, Idle
<1>5. ASSUME NEW a \in Account, NEW g \in Group,
             \/ RemoveGroup(s, a, g)
             \/ \E e \in Email : RemoveInvite(s, a, g, e)
             \/ \E u \in MemberIds(g) : RemoveMember(s, a, g, u)
      PROVE  Occupies
  BY <1>1, <1>5 DEF RemoveGroup, RemoveInvite, RemoveMember, Idle
<1>6. ASSUME NEW a, NEW g, NEW e, AddMember(s, a, g, e) PROVE Occupies
  <2>1. PICK pc : pc = IF LiveAt(e) = {} THEN "check_invite" ELSE "insert_member"
    OBVIOUS
  <2> QED
    BY <1>1, <1>6, <2>1 DEF AddMember, Idle
<1>7. ASSUME NEW a, NEW g, NEW payer, NEW sharers,
             CreateExpense(s, a, g, payer, sharers)
      PROVE  Occupies
  <2>1. PICK pc : pc = IF ({payer} \cup sharers) \cap Email = {}
                       THEN "write_expense" ELSE "check_invite"
    OBVIOUS
  <2> QED
    BY <1>1, <1>7, <2>1 DEF CreateExpense, Idle
<1>8. Occupies
  BY <1>2, <1>3, <1>4, <1>5, <1>6, <1>7 DEF Arrive
<1> QED
  BY <1>8 DEF Occupies

LEMMA AloneNext == TypeOK /\ Alone /\ [CrashNext]_vars => Alone'
<1> SUFFICES ASSUME TypeOK, Alone, [CrashNext]_vars PROVE Alone'
  OBVIOUS
<1>1. CASE UNCHANGED vars
  <2>1. UNCHANGED <<status, rows, req>>
    BY <1>1 DEF vars
  <2> QED
    BY <2>1 DEF Alone, OneAtATime, NoDangling, AllSure, Sure, Live
<1>2. ASSUME NEW s \in Slot, Arrive(s) \/ Commit(s) \/ Abort(s), OneAtATime'
      PROVE  Alone'
  <2>1. CASE Arrive(s)
    <3>1. req'[s].pc # "idle" /\ \A t \in Slot \ {s} : req'[t] = req[t]
      BY <2>1, ArriveStarts
    <3>2. OnlyOne(s)
      BY <1>2, <3>1 DEF OneAtATime, OnlyOne
    <3> QED
      BY <1>2, <2>1, <3>2, ArriveAlone DEF Alone
  <2>2. CASE Commit(s) \/ Abort(s)
    <3>1. req[s].pc # "idle"
      BY <2>2 DEF Commit, Abort, InsertUser, Reconnect, JoinPending, Freeze,
         Purge, InsertGroup, InsertMember, CheckInvite, InsertInvite,
         DeleteMember, DeleteInvite, AcceptJoin, ConsumeInvite, DeleteGroup,
         WriteExpense, DeleteExpense
    <3>2. OnlyOne(s) /\ Sure(req[s])
      BY <3>1 DEF Alone, OneAtATime, OnlyOne, AllSure
    <3>3. NoDangling' /\ AllSure'
      BY <2>2, <3>2, FailAlone, SignupAlone, DeletionAlone, GroupAlone,
         JoinsAlone, WriteAlone, OthersAlone DEF Commit, Abort, Alone
    <3> QED
      BY <1>2, <3>3 DEF Alone
  <2> QED
    BY <1>2, <2>1, <2>2
<1> QED
  BY <1>1, <1>2 DEF CrashNext, Next

\* When requests do not overlap, whatever dies between two of its commits
\* leaves no membership, share or payment with an account that is gone, which
\* no signup could ever attach again.
THEOREM RowsHaveLiveOwners == CrashSpec => []NoDangling
<1>1. Init => TypeOK /\ Alone
  <2>1. ASSUME Init PROVE Alone
    BY <2>1 DEF Init, Alone, OneAtATime, NoDangling, AllSure, Idle
  <2> QED
    BY <2>1, InitTyped
<1>2. TypeOK /\ Alone /\ [CrashNext]_vars => (TypeOK /\ Alone)'
  BY NextTyped, AloneNext DEF CrashNext
<1>3. Alone => NoDangling
  BY DEF Alone
<1> QED
  BY <1>1, <1>2, <1>3, PTL DEF CrashSpec
-----------------------------------------------------------------------------
(* Requests that finish: every share has a member or an invite behind it.  *)
(* Between the two commits of a signup the member may still be an invite.  *)

Joining(a, g) == /\ \E s \in Slot : req[s].pc = "join" /\ req[s].by = a
                 /\ InvitesOf(g, EmailOf[a]) # {}
FrozenSeat(e, g) == \E m \in rows : /\ m.kind = "member" /\ m.group = g
                                    /\ m.user = None /\ m.ref = e
Seated(r) == r.user # None => IsMember(r.user, r.group) \/ Joining(r.user, r.group)
Covered(r) == r.user = None => \/ FrozenSeat(r.ref, r.group)
                               \/ InvitesOf(r.group, r.ref) # {}
Known(m) == /\ m.expense = None
            /\ \E a \in Account : EmailOf[a] = m.ref /\ status[a] # "unused"

Backed == \A r \in rows : /\ r.ref # None
                          /\ r.kind = "split" => Seated(r) /\ Covered(r)
                          /\ r.kind = "member" => Known(r)

\* The same outside a signup.
Firm(r) == /\ r.ref # None
           /\ r.kind = "split" => /\ r.user # None => IsMember(r.user, r.group)
                                  /\ Covered(r)
           /\ r.kind = "member" => Known(r)
AllFirm == \A r \in rows : Firm(r)

LEMMA Seats ==
  \A a, g : /\ IsMember(a, g) <=> /\ a # None
                                  /\ \E m \in rows : /\ m.kind = "member"
                                                     /\ m.group = g /\ m.user = a
            /\ IsMember(a, g)' <=> /\ a # None
                                   /\ \E m \in rows' : /\ m.kind = "member"
                                                       /\ m.group = g /\ m.user = a
BY DEF IsMember, MemberIds, Members

LEMMA Invitations ==
  \A g, e : /\ InvitesOf(g, e) # {} <=> \E i \in invites : i.group = g /\ i.email = e
            /\ (InvitesOf(g, e) # {})' <=> \E i \in invites' : i.group = g /\ i.email = e
BY DEF InvitesOf

LEMMA FirmBefore ==
  ASSUME Backed, NEW s \in Slot, OnlyOne(s), req[s].pc # "join"
  PROVE  AllFirm
BY DEF Backed, AllFirm, Firm, Seated, Joining, OnlyOne

LEMMA FirmAfter == ASSUME AllFirm' PROVE Backed'
BY DEF Backed, AllFirm, Firm, Seated

\* What most steps leave alone.
SeatsStay == \A m \in rows : m.kind = "member" => m \in rows'
InvitesStay == invites \subseteq invites'
UsedStays == \A a \in Account : status[a] # "unused" => status'[a] # "unused"

LEMMA FirmRow ==
  ASSUME SeatsStay, InvitesStay, UsedStays, NEW r, Firm(r)
  PROVE  Firm(r)'
<1>1. \A a, g : IsMember(a, g) => IsMember(a, g)'
  BY Seats DEF SeatsStay
<1>2. Covered(r) => Covered(r)'
  BY Invitations DEF Covered, FrozenSeat, SeatsStay, InvitesStay
<1>3. Known(r) => Known(r)'
  BY DEF Known, UsedStays
<1> QED
  BY <1>1, <1>2, <1>3 DEF Firm

LEMMA FirmStep ==
  ASSUME AllFirm, SeatsStay, InvitesStay, UsedStays,
         \A r \in rows' : r \in rows \/ Firm(r)'
  PROVE  AllFirm'
BY FirmRow DEF AllFirm

LEMMA FirmKept ==
  ASSUME AllFirm, UNCHANGED <<rows, invites>>, UsedStays PROVE AllFirm'
BY FirmStep DEF SeatsStay, InvitesStay

LEMMA FirmMember ==
  ASSUME NEW g, NEW a \in Account, Live(a), UNCHANGED status,
         NEW m, m = Member(g, a)
  PROVE  Firm(m)'
<1>1. m.kind = "member" /\ m.ref = EmailOf[a] /\ m.expense = None
  BY DEF Member
<1> QED
  BY <1>1 DEF Firm, Known, Live

-----------------------------------------------------------------------------
(* What a request finds when no other overlaps it. *)

Ready(r) ==
  /\ r.pc \notin {"accept", "consume"}
  /\ r.pc = "join" => \A x \in rows : x.kind = "split" /\ x.user = None
                                        => x.ref # EmailOf[r.by]
  /\ r.pc = "remove_member" => r.user \in Account /\ ~HasHistory(r.user, r.group)
  /\ r.pc = "remove_invite" => ~PendingHasHistory(r.email, r.group)
  /\ r.pc = "remove_expense" => r.expense \in Expense
  /\ r.pc = "write_expense" => r.todo = {}
  /\ "write_expense" \in {r.pc, r.then} =>
       /\ r.pc \in {"check_invite", "insert_invite", "write_expense"}
       /\ \A p \in r.sharers \ Email : IsMember(p, r.group)
       /\ \A p \in r.sharers \cap Email : \/ InvitesOf(r.group, p) # {}
                                          \/ \E t \in r.todo : t[1] = p

AllReady == \A s \in Slot : req[s].pc # "idle" => Ready(req[s])
Sheltered == Backed /\ AllReady

LEMMA StepReady ==
  ASSUME TypeOK, NEW s \in Slot, OnlyOne(s), NEW r, Ready(r)',
         req' = [req EXCEPT ![s] = r]
  PROVE  AllReady'
BY DEF TypeOK, OnlyOne, AllReady

LEMMA IdleReady ==
  ASSUME TypeOK, NEW s \in Slot, OnlyOne(s), End(s) PROVE AllReady'
<1>1. Idle.pc = "idle"
  BY DEF Idle
<1> QED
  BY <1>1 DEF TypeOK, OnlyOne, AllReady, End

LEMMA ArriveReady ==
  ASSUME TypeOK, ~InviteLinks, NEW s \in Slot, OnlyOne(s), Arrive(s)
  PROVE  AllReady'
<1>1. UNCHANGED <<rows, invites>>
  BY ArriveReads DEF NoWrite
<1>2. \A r : Start(s, r) /\ Ready(r)' => AllReady'
  BY StepReady DEF Start
<1>3. ASSUME NEW r, Start(s, r), r.then = "idle",
             r.pc \in {"insert_user", "freeze", "insert_group", "check_invite",
                       "insert_member", "remove_group"}
      PROVE  AllReady'
  <2>1. Ready(r)'
    BY <1>3 DEF Ready
  <2> QED
    BY <1>2, <1>3, <2>1
<1>4. ASSUME NEW e \in Email, Signup(s, e) PROVE AllReady'
  <2>1. PICK r : r = [Idle EXCEPT !.pc = "insert_user", !.email = e]
    OBVIOUS
  <2> QED
    BY <1>3, <1>4, <2>1 DEF Signup, Idle
<1>5. ASSUME NEW a \in Account, DeleteAccount(s, a) PROVE AllReady'
  <2>1. PICK r : r = [Idle EXCEPT !.pc = "freeze", !.by = a]
    OBVIOUS
  <2> QED
    BY <1>3, <1>5, <2>1 DEF DeleteAccount, Idle
<1>6. ASSUME NEW a \in Account, NEW T, CreateGroup(s, a, T) PROVE AllReady'
  <2>1. PICK r : r = [Idle EXCEPT !.pc = "insert_group", !.by = a,
                        !.users = UNION {LiveAt(t[1]) : t \in T},
                        !.todo = {t \in T : LiveAt(t[1]) = {}}]
    OBVIOUS
  <2>2. r.pc = "insert_group" /\ r.then = "idle"
    BY <2>1 DEF Idle
  <2> QED
    BY <1>3, <1>6, <2>1, <2>2 DEF CreateGroup
<1>7. ASSUME NEW a, NEW g, RemoveGroup(s, a, g) PROVE AllReady'
  <2>1. PICK r : r = [Idle EXCEPT !.pc = "remove_group", !.group = g]
    OBVIOUS
  <2> QED
    BY <1>3, <1>7, <2>1 DEF RemoveGroup, Idle
<1>8. ASSUME NEW a, NEW g, NEW e, AddMember(s, a, g, e) PROVE AllReady'
  <2>1. PICK pc : pc = IF LiveAt(e) = {} THEN "check_invite" ELSE "insert_member"
    OBVIOUS
  <2>2. PICK r : r = [Idle EXCEPT !.group = g, !.pc = pc,
                        !.todo = IF LiveAt(e) = {} THEN {<<e, 1>>} ELSE {},
                        !.user = IF LiveAt(e) = {} THEN None ELSE OneOf(LiveAt(e))]
    OBVIOUS
  <2>3. r.pc = pc /\ r.then = "idle"
    BY <2>2 DEF Idle
  <2> QED
    BY <1>3, <1>8, <2>1, <2>2, <2>3 DEF AddMember
<1>9. ASSUME NEW a, NEW x \in Expense, RemoveExpense(s, a, x) PROVE AllReady'
  <2>1. PICK r : r = [Idle EXCEPT !.pc = "remove_expense", !.expense = x]
    OBVIOUS
  <2>2. r.pc = "remove_expense" /\ r.then = "idle" /\ r.expense = x
    BY <2>1 DEF Idle
  <2>3. Ready(r)'
    BY <2>2 DEF Ready
  <2> QED
    BY <1>2, <1>9, <2>1, <2>3 DEF RemoveExpense
<1>10. ASSUME NEW a, NEW g, NEW e, RemoveInvite(s, a, g, e) PROVE AllReady'
  <2>1. PICK r : r = [Idle EXCEPT !.pc = "remove_invite", !.group = g, !.email = e]
    OBVIOUS
  <2>2. /\ r.pc = "remove_invite" /\ r.then = "idle"
        /\ r.group = g /\ r.email = e
    BY <2>1 DEF Idle
  <2>3. ~PendingHasHistory(e, g)'
    BY <1>1, <1>10 DEF RemoveInvite, PendingHasHistory, History
  <2>4. Ready(r)'
    BY <2>2, <2>3 DEF Ready
  <2> QED
    BY <1>2, <1>10, <2>1, <2>4 DEF RemoveInvite
<1>11. ASSUME NEW a, NEW g, NEW u \in Account, RemoveMember(s, a, g, u)
       PROVE  AllReady'
  <2>1. PICK r : r = [Idle EXCEPT !.pc = "remove_member", !.group = g, !.user = u]
    OBVIOUS
  <2>2. /\ r.pc = "remove_member" /\ r.then = "idle"
        /\ r.group = g /\ r.user = u
    BY <2>1 DEF Idle
  <2>3. ~HasHistory(u, g)'
    BY <1>1, <1>11 DEF RemoveMember, HasHistory, History
  <2>4. Ready(r)'
    BY <2>2, <2>3 DEF Ready
  <2> QED
    BY <1>2, <1>11, <2>1, <2>4 DEF RemoveMember
<1>12. ASSUME NEW a \in Account, NEW g \in Group, NEW payer, NEW sharers,
              CreateExpense(s, a, g, payer, sharers)
       PROVE  AllReady'
  <2>1. PICK pending : pending = ({payer} \cup sharers) \cap Email
    OBVIOUS
  <2>2. PICK pc : pc = IF pending = {} THEN "write_expense" ELSE "check_invite"
    OBVIOUS
  <2>3. PICK r : r = [Idle EXCEPT !.pc = pc, !.by = a, !.group = g,
                        !.payer = payer, !.sharers = sharers,
                        !.todo = pending \X {1}, !.then = "write_expense"]
    OBVIOUS
  <2>4. /\ r.pc = pc /\ r.then = "write_expense" /\ r.group = g
        /\ r.sharers = sharers /\ r.todo = pending \X {1}
    BY <2>3 DEF Idle
  <2>5. \A p \in sharers \ Email : IsMember(p, g)'
    BY <1>1, <1>12 DEF CreateExpense, IsMember, MemberIds, Members
  <2>6. \A p \in sharers \cap Email : \E t \in r.todo : t[1] = p
    <3>1. \A p \in sharers \cap Email : <<p, 1>> \in r.todo
      BY <2>1, <2>4
    <3> QED
      BY <3>1
  <2>7. r.pc = "write_expense" => r.todo = {}
    BY <2>1, <2>2, <2>4
  <2>8. r.pc \in {"check_invite", "write_expense"}
    BY <2>2, <2>4
  <2>9. Ready(r)'
    BY <2>4, <2>5, <2>6, <2>7, <2>8 DEF Ready
  <2>10. Start(s, r)
    BY <1>12, <2>1, <2>2, <2>3 DEF CreateExpense
  <2> QED
    BY <1>2, <2>9, <2>10
<1>13. \A g \in Group : MemberIds(g) \subseteq Account
  BY DEF MemberIds, Members, TypeOK, Row
<1> QED
  BY <1>4, <1>5, <1>6, <1>7, <1>8, <1>9, <1>10, <1>11, <1>12, <1>13
  DEF Arrive, AcceptInvite
LEMMA EndSheltered ==
  ASSUME TypeOK, AllFirm', NEW s \in Slot, OnlyOne(s), End(s)
  PROVE  Sheltered'
BY FirmAfter, IdleReady DEF Sheltered

LEMMA FailSheltered ==
  ASSUME TypeOK, AllFirm, NEW s \in Slot, OnlyOne(s), Fail(s)
  PROVE  Sheltered'
<1>1. AllFirm'
  BY FirmKept DEF Fail, NoWrite, UsedStays
<1> QED
  BY <1>1, EndSheltered DEF Fail

LEMMA InsertUserSheltered ==
  ASSUME TypeOK, AllFirm, NEW s \in Slot, OnlyOne(s), InsertUser(s)
  PROVE  Sheltered'
<1>1. CASE Fail(s)
  BY <1>1, FailSheltered
<1>2. CASE ~Fail(s)
  <2>1. PICK a \in Account :
          /\ status' = [status EXCEPT ![a] = "live"]
          /\ req' = [req EXCEPT ![s] = [Idle EXCEPT !.pc = "reconnect", !.by = a]]
          /\ UNCHANGED <<rows, invites>>
    BY <1>2 DEF InsertUser, Unused
  <2>2. AllFirm'
    BY <2>1, FirmKept DEF UsedStays, TypeOK
  <2>3. PICK q : q = [Idle EXCEPT !.pc = "reconnect", !.by = a]
    OBVIOUS
  <2>4. q.pc = "reconnect" /\ q.then = "idle"
    BY <2>3 DEF Idle
  <2>5. Ready(q)'
    BY <2>4 DEF Ready
  <2>6. AllReady'
    BY <2>1, <2>3, <2>5, StepReady
  <2> QED
    BY <2>2, <2>6, FirmAfter DEF Sheltered
<1> QED
  BY <1>1, <1>2

\* What was frozen in a group comes with the seat that was frozen there, or
\* with an invite that the next commit turns into a seat.
LEMMA ReconnectSheltered ==
  ASSUME TypeOK, AllFirm, NEW s \in Slot, OnlyOne(s), Ready(req[s]), Reconnect(s)
  PROVE  Sheltered'
<1>1. CASE Fail(s)
  BY <1>1, FailSheltered
<1>2. CASE ~Fail(s)
  <2>1. PICK a : a = req[s].by
    OBVIOUS
  <2>2. /\ rows' = {Reattach(r, a) : r \in rows}
        /\ Goto(s, "join") /\ UNCHANGED <<status, invites>>
        /\ req[s].pc = "reconnect"
    BY <1>2, <2>1 DEF Reconnect
  <2>3. a \in Account
    BY <2>1, <2>2 DEF TypeOK, Fits, ByNeeded
  <2>4. PICK q : q = [req[s] EXCEPT !.pc = "join"]
    OBVIOUS
  <2>5. /\ q.pc = "join" /\ q.by = a /\ q.then = req[s].then
        /\ req' = [req EXCEPT ![s] = q]
    BY <2>1, <2>2, <2>4 DEF TypeOK, Request, Goto
  <2>6. req'[s] = q
    BY <2>5 DEF TypeOK
  <2>7. \A r \in rows : r \in Row /\ Reattach(r, a) \in rows'
    BY <2>2 DEF TypeOK
  <2>8. AllReady'
    <3>1. \A x \in rows' : x.user = None => x.ref # EmailOf[a]
      BY <2>2, <2>3, <2>7 DEF Reattach, Frozen, Row
    <3>2. q.then # "write_expense"
      BY <2>2, <2>5 DEF Ready
    <3>3. Ready(q)'
      BY <2>5, <3>1, <3>2 DEF Ready
    <3> QED
      BY <2>5, <3>3, StepReady
  <2>9. ASSUME NEW y \in rows'
        PROVE  /\ y.ref # None
               /\ y.kind = "split" => Seated(y)' /\ Covered(y)'
               /\ y.kind = "member" => Known(y)'
    <3>1. PICK r \in rows : y = Reattach(r, a)
      BY <2>2
    <3>2. /\ y.ref = r.ref /\ y.kind = r.kind /\ y.group = r.group
          /\ y.expense = r.expense
          /\ y.user = IF Frozen(r, a) THEN a ELSE r.user
      BY <2>7, <3>1 DEF Reattach, Row
    <3>3. Firm(r)
      BY DEF AllFirm
    <3>4. \A b, g : IsMember(b, g) => IsMember(b, g)'
      <4>1. ASSUME NEW m \in rows, m.user # None PROVE m \in rows'
        BY <2>7, <4>1 DEF Reattach, Frozen
      <4> QED
        BY <4>1, Seats
    <3>5. CASE Frozen(r, a)
      <4>1. r.user = None /\ r.ref = EmailOf[a] /\ y.user = a /\ a # None
        BY <2>3, <3>2, <3>5 DEF Frozen
      <4>2. ASSUME FrozenSeat(r.ref, r.group) PROVE IsMember(a, r.group)'
        <5>1. PICK m \in rows : /\ m.kind = "member" /\ m.group = r.group
                                /\ m.user = None /\ m.ref = EmailOf[a]
          BY <4>1, <4>2 DEF FrozenSeat
        <5>2. PICK n : n = Reattach(m, a)
          OBVIOUS
        <5>3. n \in rows' /\ n.kind = "member" /\ n.group = r.group /\ n.user = a
          BY <2>7, <5>1, <5>2 DEF Reattach, Frozen, Row
        <5> QED
          BY <4>1, <5>3, Seats
      <4>3. ASSUME InvitesOf(r.group, r.ref) # {} PROVE Joining(a, r.group)'
        <5>1. (InvitesOf(r.group, EmailOf[a]) # {})'
          BY <2>2, <4>1, <4>3, Invitations
        <5>2. req'[s].pc = "join" /\ req'[s].by = a
          BY <2>5, <2>6
        <5> QED
          BY <5>1, <5>2 DEF Joining
      <4>4. r.kind = "split" => Seated(y)' /\ Covered(y)'
        BY <3>2, <3>3, <4>1, <4>2, <4>3 DEF Firm, Covered, Seated
      <4> QED
        BY <2>2, <3>2, <3>3, <4>4 DEF Firm, Known
    <3>6. CASE ~Frozen(r, a)
      <4>1. y.user = r.user
        BY <3>2, <3>6
      <4>2. ASSUME r.user = None, FrozenSeat(r.ref, r.group)
            PROVE  FrozenSeat(r.ref, r.group)'
        <5>1. PICK m \in rows : /\ m.kind = "member" /\ m.group = r.group
                                /\ m.user = None /\ m.ref = r.ref
          BY <4>2 DEF FrozenSeat
        <5>2. m \in rows'
          BY <2>7, <3>6, <4>2, <5>1 DEF Reattach, Frozen
        <5> QED
          BY <5>1, <5>2 DEF FrozenSeat
      <4>3. \A g, e : InvitesOf(g, e) # {} => (InvitesOf(g, e) # {})'
        BY <2>2, Invitations
      <4>4. r.kind = "split" => Seated(y)' /\ Covered(y)'
        BY <3>2, <3>3, <3>4, <4>1, <4>2, <4>3 DEF Firm, Covered, Seated
      <4> QED
        BY <2>2, <3>2, <3>3, <4>4 DEF Firm, Known
    <3> QED
      BY <3>5, <3>6
  <2>10. Backed'
    BY <2>9 DEF Backed
  <2> QED
    BY <2>8, <2>10 DEF Sheltered
<1> QED
  BY <1>1, <1>2
LEMMA JoinSheltered ==
  ASSUME TypeOK, Backed, NEW s \in Slot, OnlyOne(s), Sure(req[s]), Ready(req[s]),
         JoinPending(s), ~HalfWay(s)
  PROVE  Sheltered'
<1>1. PICK a : a = req[s].by
  OBVIOUS
<1>2. /\ rows' = rows \cup {Member(i.group, a) : i \in Mine(a)}
      /\ invites' = invites \ Mine(a)
      /\ End(s) /\ UNCHANGED status /\ req[s].pc = "join"
  BY <1>1 DEF JoinPending, HalfWay
<1>3. a \in Account /\ Live(a)
  BY <1>1, <1>2 DEF TypeOK, Fits, ByNeeded, Sure
<1>4. \A x \in rows : x.kind = "split" /\ x.user = None => x.ref # EmailOf[a]
  BY <1>1, <1>2 DEF Ready
<1>5. SeatsStay /\ UsedStays
  BY <1>2 DEF SeatsStay, UsedStays
<1>6. ASSUME NEW r \in rows PROVE Firm(r)'
  <2>1. /\ r.ref # None
        /\ r.kind = "split" => Seated(r) /\ Covered(r)
        /\ r.kind = "member" => Known(r)
    BY DEF Backed
  <2>2. \A b, g : IsMember(b, g) => IsMember(b, g)'
    BY <1>5, Seats DEF SeatsStay
  <2>3. ASSUME r.user # None, Joining(r.user, r.group)
        PROVE  IsMember(r.user, r.group)'
    <3>1. r.user = a
      BY <1>1, <2>3 DEF Joining, OnlyOne
    <3>2. PICK i \in invites : i.group = r.group /\ i.email = EmailOf[a]
      BY <2>3, <3>1, Invitations DEF Joining
    <3>3. PICK m : m = Member(i.group, a)
      OBVIOUS
    <3>4. m \in rows' /\ m.kind = "member" /\ m.group = r.group /\ m.user = a
      BY <1>2, <3>2, <3>3 DEF Mine, Member
    <3> QED
      BY <2>3, <3>1, <3>4, Seats
  <2>4. ASSUME r.kind = "split", r.user = None, InvitesOf(r.group, r.ref) # {}
        PROVE  (InvitesOf(r.group, r.ref) # {})'
    <3>1. PICK i \in invites : i.group = r.group /\ i.email = r.ref
      BY <2>4, Invitations
    <3>2. i \in invites'
      BY <1>2, <1>4, <2>4, <3>1 DEF Mine
    <3> QED
      BY <3>1, <3>2, Invitations
  <2>5. FrozenSeat(r.ref, r.group) => FrozenSeat(r.ref, r.group)'
    BY <1>5 DEF FrozenSeat, SeatsStay
  <2>6. Known(r) => Known(r)'
    BY <1>2 DEF Known
  <2> QED
    BY <2>1, <2>2, <2>3, <2>4, <2>5, <2>6 DEF Firm, Seated, Covered
<1>7. ASSUME NEW r \in rows', r \notin rows PROVE Firm(r)'
  <2>1. PICK i \in Mine(a) : r = Member(i.group, a)
    BY <1>2, <1>7
  <2> QED
    BY <1>2, <1>3, <2>1, FirmMember
<1>8. AllFirm'
  BY <1>6, <1>7 DEF AllFirm
<1> QED
  BY <1>2, <1>8, EndSheltered

\* A deletion freezes a person's seat in a group with the person's shares.
LEMMA FreezeSheltered ==
  ASSUME TypeOK, AttachedByEmail, AllFirm, NEW s \in Slot, OnlyOne(s),
         Ready(req[s]), Freeze(s)
  PROVE  Sheltered'
<1>1. PICK a : a = req[s].by
  OBVIOUS
<1>2. /\ rows' = {Detach(r, a) : r \in rows}
      /\ Goto(s, "purge") /\ UNCHANGED <<status, invites>>
      /\ req[s].pc = "freeze"
  BY <1>1 DEF Freeze
<1>3. a \in Account /\ a # None
  BY <1>1, <1>2 DEF TypeOK, Fits, ByNeeded
<1>4. \A r \in rows : r \in Row /\ Firm(r) /\ Detach(r, a) \in rows'
  BY <1>2 DEF TypeOK, AllFirm
<1>5. \A r \in rows : r.user = a => r.ref = EmailOf[a]
  BY <1>3, <1>4 DEF AttachedByEmail, Firm
<1>6. AllReady'
  <2>1. PICK q : q = [req[s] EXCEPT !.pc = "purge"]
    OBVIOUS
  <2>2. /\ q.pc = "purge" /\ q.then = req[s].then
        /\ req' = [req EXCEPT ![s] = q]
    BY <1>2, <2>1 DEF TypeOK, Request, Goto
  <2>3. Ready(q)'
    BY <1>2, <2>2 DEF Ready
  <2> QED
    BY <2>2, <2>3, StepReady
<1>7. ASSUME NEW y \in rows' PROVE Firm(y)'
  <2>1. PICK r \in rows : y = Detach(r, a)
    BY <1>2
  <2>2. /\ y.ref = r.ref /\ y.kind = r.kind /\ y.group = r.group
        /\ y.expense = r.expense
        /\ y.user = IF r.user = a THEN None ELSE r.user
    BY <1>4, <2>1 DEF Detach, Row
  <2>3. Firm(r)
    BY <1>4
  <2>4. \A m \in rows : m.user # a => m \in rows'
    BY <1>4 DEF Detach
  <2>5. CASE r.user = a
    <3>1. r.ref = EmailOf[a] /\ y.user = None
      BY <1>5, <2>2, <2>5
    <3>2. ASSUME IsMember(a, r.group) PROVE FrozenSeat(r.ref, r.group)'
      <4>1. PICK m \in rows : m.kind = "member" /\ m.group = r.group /\ m.user = a
        BY <3>2, Seats
      <4>2. PICK n : n = Detach(m, a)
        OBVIOUS
      <4>3. /\ n \in rows' /\ n.kind = "member" /\ n.group = r.group
            /\ n.user = None /\ n.ref = r.ref
        BY <1>4, <1>5, <3>1, <4>1, <4>2 DEF Detach, Row
      <4> QED
        BY <4>3 DEF FrozenSeat
    <3> QED
      BY <1>2, <1>3, <2>2, <2>3, <2>5, <3>1, <3>2 DEF Firm, Covered, Known
  <2>6. CASE r.user # a
    <3>1. \A b, g : b # a /\ IsMember(b, g) => IsMember(b, g)'
      BY <2>4, Seats
    <3>2. FrozenSeat(r.ref, r.group) => FrozenSeat(r.ref, r.group)'
      BY <1>3, <2>4 DEF FrozenSeat
    <3>3. InvitesOf(r.group, r.ref) # {} => (InvitesOf(r.group, r.ref) # {})'
      BY <1>2, Invitations
    <3>4. y.user = r.user
      BY <2>2, <2>6
    <3> QED
      BY <1>2, <2>2, <2>3, <2>6, <3>1, <3>2, <3>3, <3>4 DEF Firm, Covered, Known
  <2> QED
    BY <2>5, <2>6
<1>8. AllFirm'
  BY <1>7 DEF AllFirm
<1> QED
  BY <1>6, <1>8, FirmAfter DEF Sheltered

LEMMA PurgeSheltered ==
  ASSUME TypeOK, AllFirm, NEW s \in Slot, OnlyOne(s), Purge(s)
  PROVE  Sheltered'
<1>1. CASE Fail(s)
  BY <1>1, FailSheltered
<1>2. CASE ~Fail(s)
  <2>1. PICK a : a = req[s].by
    OBVIOUS
  <2>2. /\ status' = [status EXCEPT ![a] = "gone"]
        /\ End(s) /\ UNCHANGED <<rows, invites>>
    BY <1>2, <2>1 DEF Purge
  <2>3. AllFirm'
    BY <2>2, FirmKept DEF UsedStays, TypeOK
  <2> QED
    BY <2>2, <2>3, EndSheltered
<1> QED
  BY <1>1, <1>2
LEMMA GroupSheltered ==
  ASSUME TypeOK, AllFirm, NEW s \in Slot, OnlyOne(s), Sure(req[s]),
         Ready(req[s]), InsertGroup(s)
  PROVE  Sheltered'
<1>1. CASE Fail(s)
  BY <1>1, FailSheltered
<1>2. CASE ~Fail(s)
  <2>1. PICK r : r = req[s]
    OBVIOUS
  <2>2. /\ r \in Request /\ Fits(r) /\ Sure(r) /\ Ready(r)
        /\ r.pc = "insert_group"
    BY <2>1 DEF TypeOK, InsertGroup
  <2>3. PICK g \in Group :
          /\ rows' = rows \cup {Member(g, a) : a \in r.users \cup {r.by}}
          /\ req' = [req EXCEPT ![s] =
               IF r.todo = {} THEN Idle
               ELSE [r EXCEPT !.pc = "insert_invite", !.group = g]]
          /\ UNCHANGED <<status, invites>>
    BY <1>2, <2>1 DEF InsertGroup
  <2>4. AllFirm'
    <3>1. \A a \in r.users \cup {r.by} : a \in Account /\ Live(a)
      BY <2>2 DEF Sure, ByNeeded, Fits, Request
    <3>2. ASSUME NEW x \in rows', x \notin rows PROVE Firm(x)'
      <4>1. PICK a \in r.users \cup {r.by} : x = Member(g, a)
        BY <2>3, <3>2
      <4> QED
        BY <2>3, <3>1, <4>1, FirmMember
    <3> QED
      BY <2>3, <3>2, FirmStep DEF SeatsStay, InvitesStay, UsedStays
  <2>5. CASE r.todo = {}
    BY <2>3, <2>4, <2>5, EndSheltered DEF End
  <2>6. CASE r.todo # {}
    <3>1. PICK q : q = [r EXCEPT !.pc = "insert_invite", !.group = g]
      OBVIOUS
    <3>2. q.pc = "insert_invite" /\ q.then = r.then
      BY <2>2, <3>1 DEF Request
    <3>3. r.then # "write_expense"
      BY <2>2 DEF Ready
    <3>4. Ready(q)'
      BY <3>2, <3>3 DEF Ready
    <3>5. AllReady'
      BY <2>3, <2>6, <3>1, <3>4, StepReady
    <3> QED
      BY <2>4, <3>5, FirmAfter DEF Sheltered
  <2> QED
    BY <2>5, <2>6
<1> QED
  BY <1>1, <1>2

LEMMA InsertMemberSheltered ==
  ASSUME TypeOK, AllFirm, NEW s \in Slot, OnlyOne(s), Sure(req[s]),
         InsertMember(s)
  PROVE  Sheltered'
<1>1. CASE Fail(s)
  BY <1>1, FailSheltered
<1>2. CASE ~Fail(s)
  <2>1. PICK a, g : a = req[s].user /\ g = req[s].group
    OBVIOUS
  <2>2. a \in Account /\ Live(a)
    BY <1>2, <2>1 DEF InsertMember, TypeOK, Fits, Sure
  <2>3. /\ rows' = Admit(g, a) /\ End(s) /\ UNCHANGED <<status, invites>>
    BY <1>2, <2>1 DEF InsertMember
  <2>4. rows \subseteq rows' /\ \A x \in rows' : x \in rows \/ x = Member(g, a)
    BY <2>3 DEF Admit
  <2>5. \A x : x = Member(g, a) => Firm(x)'
    BY <2>2, <2>3, FirmMember
  <2>6. AllFirm'
    BY <2>3, <2>4, <2>5, FirmStep DEF SeatsStay, InvitesStay, UsedStays
  <2> QED
    BY <2>3, <2>6, EndSheltered
<1> QED
  BY <1>1, <1>2

\* Inviting: who has been dealt with has an invite, the others are still to do.
LEMMA InvitedReady ==
  ASSUME NEW r \in Request, Ready(r), r.pc \in {"check_invite", "insert_invite"},
         UNCHANGED rows, InvitesStay, NEW e, e = OneOf(r.todo)[1],
         (InvitesOf(r.group, e) # {})'
  PROVE  Invited(r).pc # "idle" => Ready(Invited(r))'
<1>1. PICK rest : rest = r.todo \ {OneOf(r.todo)}
  OBVIOUS
<1>2. \A a, g : IsMember(a, g) => IsMember(a, g)'
  BY Seats
<1>3. \A g, f : InvitesOf(g, f) # {} => (InvitesOf(g, f) # {})'
  BY Invitations DEF InvitesStay
<1>4. ASSUME r.then = "write_expense"
      PROVE  /\ \A p \in r.sharers \ Email : IsMember(p, r.group)'
             /\ \A p \in r.sharers \cap Email :
                  \/ (InvitesOf(r.group, p) # {})'
                  \/ \E t \in rest : t[1] = p
  <2>1. /\ \A p \in r.sharers \ Email : IsMember(p, r.group)
        /\ \A p \in r.sharers \cap Email : \/ InvitesOf(r.group, p) # {}
                                           \/ \E t \in r.todo : t[1] = p
    BY <1>4 DEF Ready
  <2>2. \A t \in r.todo : t \in rest \/ t[1] = e
    BY <1>1
  <2> QED
    BY <1>2, <1>3, <2>1, <2>2
<1>5. CASE rest # {}
  <2>1. PICK pc : pc = IF r.then = "idle" THEN "insert_invite" ELSE "check_invite"
    OBVIOUS
  <2>2. PICK q : q = [r EXCEPT !.todo = rest, !.pc = pc]
    OBVIOUS
  <2>3. /\ q.pc = pc /\ q.then = r.then /\ q.sharers = r.sharers
        /\ q.group = r.group /\ q.todo = rest
    BY <2>2 DEF Request
  <2>4. Ready(q)'
    BY <1>4, <2>1, <2>3 DEF Ready
  <2> QED
    BY <1>1, <1>5, <2>1, <2>2, <2>4 DEF Invited
<1>6. CASE rest = {} /\ r.then = "idle"
  BY <1>1, <1>6 DEF Invited, Idle
<1>7. CASE rest = {} /\ r.then # "idle"
  <2>1. r.then = "write_expense"
    BY <1>7 DEF Request
  <2>2. PICK q : q = [r EXCEPT !.todo = {}, !.pc = "write_expense"]
    OBVIOUS
  <2>3. /\ q.pc = "write_expense" /\ q.then = r.then /\ q.sharers = r.sharers
        /\ q.group = r.group /\ q.todo = {}
    BY <2>2 DEF Request
  <2>4. Ready(q)'
    BY <1>4, <1>7, <2>1, <2>3 DEF Ready
  <2> QED
    BY <1>1, <1>7, <2>1, <2>2, <2>4 DEF Invited
<1> QED
  BY <1>5, <1>6, <1>7

LEMMA InvitesSheltered ==
  ASSUME TypeOK, AllFirm, NEW s \in Slot, OnlyOne(s), Ready(req[s]),
         CheckInvite(s) \/ InsertInvite(s)
  PROVE  Sheltered'
<1>1. CASE Fail(s)
  BY <1>1, FailSheltered
<1>2. CASE ~Fail(s)
  <2>1. PICK r : r = req[s]
    OBVIOUS
  <2>2. PICK e : e = OneOf(r.todo)[1]
    OBVIOUS
  <2>3. /\ r \in Request /\ Ready(r)
        /\ r.pc \in {"check_invite", "insert_invite"}
        /\ UNCHANGED <<status, rows>> /\ InvitesStay
    BY <1>2, <2>1 DEF TypeOK, CheckInvite, InsertInvite, NoWrite, InvitesStay
  <2>4. AllFirm'
    BY <2>3, FirmStep DEF SeatsStay, UsedStays
  <2>5. \/ /\ (InvitesOf(r.group, e) # {})'
           /\ req' = [req EXCEPT ![s] = Invited(r)]
        \/ r.pc = "check_invite" /\ Goto(s, "insert_invite")
        \/ End(s)
    <3>1. CASE CheckInvite(s)
      <4>1. InvitesOf(r.group, e) = {} => Cardinality(InvitesOf(r.group, e)) = 0
        BY FS_EmptySet
      <4>2. InvitesOf(r.group, e) # {} => (InvitesOf(r.group, e) # {})'
        BY <2>3, Invitations DEF InvitesStay
      <4> QED
        BY <2>1, <2>2, <3>1, <4>1, <4>2 DEF CheckInvite
    <3>2. CASE InsertInvite(s)
      <4>1. /\ invites' = invites \cup {NewInvite(r.group, e)}
            /\ req' = [req EXCEPT ![s] = Invited(r)]
        BY <1>2, <2>1, <2>2, <3>2 DEF InsertInvite
      <4>2. NewInvite(r.group, e).group = r.group /\ NewInvite(r.group, e).email = e
        BY DEF NewInvite
      <4>3. (InvitesOf(r.group, e) # {})'
        BY <4>1, <4>2, Invitations
      <4> QED
        BY <4>1, <4>3
    <3> QED
      BY <1>2, <3>1, <3>2
  <2>6. CASE /\ (InvitesOf(r.group, e) # {})'
             /\ req' = [req EXCEPT ![s] = Invited(r)]
    <3>1. PICK q : q = Invited(r)
      OBVIOUS
    <3>2. q.pc # "idle" => Ready(q)'
      BY <2>2, <2>3, <2>6, <3>1, InvitedReady
    <3>3. AllReady'
      <4>1. CASE q.pc # "idle"
        BY <2>6, <3>1, <3>2, <4>1, StepReady
      <4>2. CASE q.pc = "idle"
        BY <2>6, <3>1, <4>2 DEF TypeOK, OnlyOne, AllReady
      <4> QED
        BY <4>1, <4>2
    <3> QED
      BY <2>4, <3>3, FirmAfter DEF Sheltered
  <2>7. CASE r.pc = "check_invite" /\ Goto(s, "insert_invite")
    <3>1. PICK q : q = [r EXCEPT !.pc = "insert_invite"]
      OBVIOUS
    <3>2. /\ q.pc = "insert_invite" /\ q.then = r.then /\ q.sharers = r.sharers
          /\ q.group = r.group /\ q.todo = r.todo
          /\ req' = [req EXCEPT ![s] = q]
      BY <2>1, <2>3, <2>7, <3>1 DEF Request, Goto
    <3>3. \A a, g : IsMember(a, g) => IsMember(a, g)'
      BY <2>3, Seats
    <3>4. \A g, f : InvitesOf(g, f) # {} => (InvitesOf(g, f) # {})'
      BY <2>3, Invitations DEF InvitesStay
    <3>5. Ready(q)'
      BY <2>3, <2>7, <3>2, <3>3, <3>4 DEF Ready
    <3> QED
      BY <2>4, <3>2, <3>5, StepReady, FirmAfter DEF Sheltered
  <2>8. CASE End(s)
    BY <2>4, <2>8, EndSheltered
  <2> QED
    BY <2>5, <2>6, <2>7, <2>8
<1> QED
  BY <1>1, <1>2

LEMMA WriteSheltered ==
  ASSUME TypeOK, AllFirm, NEW s \in Slot, OnlyOne(s), Sure(req[s]),
         Ready(req[s]), WriteExpense(s)
  PROVE  Sheltered'
<1>1. CASE Fail(s)
  BY <1>1, FailSheltered
<1>2. CASE ~Fail(s)
  <2>1. PICK r : r = req[s]
    OBVIOUS
  <2>2. /\ r \in Request /\ Fits(r) /\ Sure(r) /\ Ready(r)
        /\ r.pc = "write_expense"
    BY <2>1 DEF TypeOK, WriteExpense
  <2>3. PICK x \in FreeExpenses :
          /\ rows' = rows \cup {Entry("payer", r.group, x, r.payer, r.by)}
               \cup {Entry("split", r.group, x, p, r.by) : p \in r.sharers}
          /\ End(s) /\ UNCHANGED <<status, invites>>
    BY <1>2, <2>1 DEF WriteExpense
  <2>4. \A p \in r.sharers \cup {r.payer} :
          \/ p \in Email
          \/ p \in Account /\ Live(p)
    <3>1. r.payer \in Party /\ r.sharers \subseteq Party
      BY <2>2 DEF Fits, Request
    <3>2. \A p \in (r.sharers \cup {r.payer}) \ Email : Live(p)
      BY <2>2 DEF Sure
    <3> QED
      BY <3>1, <3>2 DEF Party
  <2>5. /\ \A p \in r.sharers \ Email : IsMember(p, r.group)
        /\ \A p \in r.sharers \cap Email : InvitesOf(r.group, p) # {}
    BY <2>2 DEF Ready
  <2>6. /\ \A a, g : IsMember(a, g) => IsMember(a, g)'
        /\ \A g, e : InvitesOf(g, e) # {} => (InvitesOf(g, e) # {})'
    BY <2>3, Seats, Invitations
  <2>7. ASSUME NEW y \in rows', y \notin rows PROVE Firm(y)'
    <3>1. PICK k \in {"payer", "split"}, p \in r.sharers \cup {r.payer} :
            y = Entry(k, r.group, x, p, r.by) /\ (k = "split" => p \in r.sharers)
      BY <2>3, <2>7
    <3>2. /\ y.kind = k /\ y.group = r.group
          /\ y.user = IF p \in Email THEN None ELSE p
          /\ y.ref = IF p \in Email THEN p ELSE EmailOf[p]
      BY <2>4, <3>1 DEF Entry, RefAtWrite
    <3>3. y.ref # None
      BY <2>4, <3>2
    <3>4. k = "split" => /\ y.user # None => IsMember(y.user, y.group)'
                         /\ y.user = None => (InvitesOf(y.group, y.ref) # {})'
      BY <2>4, <2>5, <2>6, <3>1, <3>2
    <3> QED
      BY <3>2, <3>3, <3>4 DEF Firm, Covered
  <2>8. AllFirm'
    BY <2>3, <2>7, FirmStep DEF SeatsStay, InvitesStay, UsedStays
  <2> QED
    BY <2>3, <2>8, EndSheltered
<1> QED
  BY <1>1, <1>2
LEMMA RemovalsSheltered ==
  ASSUME TypeOK, AllFirm, NEW s \in Slot, OnlyOne(s), Ready(req[s]),
         \/ DeleteMember(s) \/ DeleteInvite(s) \/ DeleteGroup(s) \/ DeleteExpense(s)
  PROVE  Sheltered'
<1>1. CASE Fail(s)
  BY <1>1, FailSheltered
<1>2. PICK g, a, e : g = req[s].group /\ a = req[s].user /\ e = req[s].email
  OBVIOUS
<1>3. CASE DeleteMember(s)
  <2>1. /\ rows' = rows \ {r \in Members(g) : r.user = a}
        /\ End(s) /\ UNCHANGED <<status, invites>>
        /\ a \in Account /\ ~HasHistory(a, g)
    BY <1>2, <1>3 DEF DeleteMember, Ready
  <2>2. ASSUME NEW r \in rows' PROVE Firm(r)'
    <3>1. r \in rows /\ Firm(r)
      BY <2>1 DEF AllFirm
    <3>2. \A m \in rows : m.group # g \/ m.user # a => m \in rows'
      BY <2>1 DEF Members
    <3>3. FrozenSeat(r.ref, r.group) => FrozenSeat(r.ref, r.group)'
      BY <2>1, <3>2 DEF FrozenSeat
    <3>4. ASSUME r.kind = "split", r.user # None, IsMember(r.user, r.group)
          PROVE  IsMember(r.user, r.group)'
      <4>1. r.group # g \/ r.user # a
        BY <2>1, <3>1, <3>4 DEF HasHistory, History
      <4> QED
        BY <3>2, <3>4, <4>1, Seats
    <3>5. InvitesOf(r.group, r.ref) # {} => (InvitesOf(r.group, r.ref) # {})'
      BY <2>1, Invitations
    <3> QED
      BY <2>1, <3>1, <3>3, <3>4, <3>5 DEF Firm, Covered, Known
  <2> QED
    BY <2>1, <2>2, EndSheltered DEF AllFirm
<1>4. CASE DeleteInvite(s)
  <2>1. /\ invites \ InvitesOf(g, e) \subseteq invites'
        /\ End(s) /\ UNCHANGED <<status, rows>>
        /\ ~PendingHasHistory(e, g)
    BY <1>2, <1>4 DEF DeleteInvite, Ready
  <2>2. ASSUME NEW r \in rows' PROVE Firm(r)'
    <3>1. r \in rows /\ Firm(r)
      BY <2>1 DEF AllFirm
    <3>2. ASSUME r.kind = "split", r.user = None, InvitesOf(r.group, r.ref) # {}
          PROVE  (InvitesOf(r.group, r.ref) # {})'
      <4>1. r.group # g \/ r.ref # e
        BY <2>1, <3>1, <3>2 DEF PendingHasHistory, History
      <4>2. PICK i \in invites : i.group = r.group /\ i.email = r.ref
        BY <3>2, Invitations
      <4>3. i \in invites'
        BY <2>1, <4>1, <4>2 DEF InvitesOf
      <4> QED
        BY <4>2, <4>3, Invitations
    <3>3. /\ IsMember(r.user, r.group) => IsMember(r.user, r.group)'
          /\ FrozenSeat(r.ref, r.group) => FrozenSeat(r.ref, r.group)'
      BY <2>1, Seats DEF FrozenSeat
    <3> QED
      BY <2>1, <3>1, <3>2, <3>3 DEF Firm, Covered, Known
  <2> QED
    BY <2>1, <2>2, EndSheltered DEF AllFirm
<1>5. CASE DeleteGroup(s) /\ ~Fail(s)
  <2>1. /\ History(g) = {}
        /\ rows' = rows \ Members(g)
        /\ invites' = {i \in invites : i.group # g}
        /\ End(s) /\ UNCHANGED status
    BY <1>2, <1>5 DEF DeleteGroup
  <2>2. ASSUME NEW r \in rows' PROVE Firm(r)'
    <3>1. r \in rows /\ Firm(r)
      BY <2>1 DEF AllFirm
    <3>2. r.kind = "split" => r.group # g
      BY <2>1, <3>1 DEF History
    <3>3. /\ \A m \in rows : m.group # g => m \in rows'
          /\ \A i \in invites : i.group # g => i \in invites'
      BY <2>1 DEF Members
    <3>4. ASSUME r.group # g
          PROVE  /\ IsMember(r.user, r.group) => IsMember(r.user, r.group)'
                 /\ FrozenSeat(r.ref, r.group) => FrozenSeat(r.ref, r.group)'
                 /\ InvitesOf(r.group, r.ref) # {} => (InvitesOf(r.group, r.ref) # {})'
      BY <3>3, <3>4, Seats, Invitations DEF FrozenSeat
    <3> QED
      BY <2>1, <3>1, <3>2, <3>4 DEF Firm, Covered, Known
  <2> QED
    BY <2>1, <2>2, EndSheltered DEF AllFirm
<1>6. CASE DeleteExpense(s)
  <2>1. PICK x : x = req[s].expense
    OBVIOUS
  <2>2. /\ rows' = {r \in rows : r.expense # x}
        /\ End(s) /\ UNCHANGED <<status, invites>> /\ x \in Expense
    BY <1>6, <2>1 DEF DeleteExpense, Ready
  <2>3. SeatsStay
    BY <2>2 DEF SeatsStay, AllFirm, Firm, Known
  <2>4. AllFirm'
    BY <2>2, <2>3, FirmStep DEF InvitesStay, UsedStays
  <2> QED
    BY <2>2, <2>4, EndSheltered
<1> QED
  BY <1>1, <1>3, <1>4, <1>5, <1>6

LEMMA ShelteredNext ==
  ASSUME ~InviteLinks, TypeOK, Alone, AttachedByEmail, Sheltered, [SerialNext]_vars
  PROVE  Sheltered'
<1>1. CASE UNCHANGED vars
  <2>1. UNCHANGED <<status, rows, invites, req>>
    BY <1>1 DEF vars
  <2>2. \A a, g : IsMember(a, g)' <=> IsMember(a, g)
    BY <2>1, Seats
  <2>3. \A g, e : (InvitesOf(g, e) # {})' <=> InvitesOf(g, e) # {}
    BY <2>1, Invitations
  <2>4. Backed'
    BY <2>1, <2>2, <2>3 DEF Sheltered, Backed, Seated, Joining, Covered,
       FrozenSeat, Known
  <2>5. \A r : Ready(r) => Ready(r)'
    BY <2>1, <2>2, <2>3 DEF Ready, HasHistory, PendingHasHistory, History
  <2>6. AllReady'
    BY <2>1, <2>5 DEF Sheltered, AllReady
  <2> QED
    BY <2>4, <2>6 DEF Sheltered
<1>2. ASSUME NEW s \in Slot, Arrive(s) \/ Commit(s), ~HalfWay(s), OneAtATime'
      PROVE  Sheltered'
  <2>1. CASE Arrive(s)
    <3>1. req'[s].pc # "idle" /\ \A t \in Slot \ {s} : req'[t] = req[t]
      BY <2>1, ArriveStarts
    <3>2. OnlyOne(s) /\ req[s].pc = "idle"
      BY <1>2, <2>1, <3>1 DEF OneAtATime, OnlyOne, Arrive
    <3>3. AllFirm
      BY <3>2, FirmBefore DEF Sheltered
    <3>4. AllFirm'
      BY <2>1, <3>3, ArriveReads, FirmKept DEF NoWrite, UsedStays
    <3>5. AllReady'
      BY <2>1, <3>2, ArriveReady
    <3> QED
      BY <3>4, <3>5, FirmAfter DEF Sheltered
  <2>2. CASE Commit(s)
    <3>1. req[s].pc # "idle"
      BY <2>2 DEF Commit, InsertUser, Reconnect, JoinPending, Freeze,
         Purge, InsertGroup, InsertMember, CheckInvite, InsertInvite,
         DeleteMember, DeleteInvite, AcceptJoin, ConsumeInvite, DeleteGroup,
         WriteExpense, DeleteExpense
    <3>2. OnlyOne(s) /\ Sure(req[s]) /\ Ready(req[s])
      BY <3>1 DEF Alone, OneAtATime, OnlyOne, AllSure, Sheltered, AllReady
    <3>3. CASE JoinPending(s)
      BY <1>2, <3>2, <3>3, JoinSheltered DEF Sheltered
    <3>4. CASE ~JoinPending(s) /\ req[s].pc = "join"
      BY <2>2, <3>4 DEF Commit, InsertUser, Reconnect, Freeze,
         Purge, InsertGroup, InsertMember, CheckInvite, InsertInvite,
         DeleteMember, DeleteInvite, AcceptJoin, ConsumeInvite, DeleteGroup,
         WriteExpense, DeleteExpense
    <3>5. CASE req[s].pc # "join"
      <4>1. AllFirm
        BY <3>2, <3>5, FirmBefore DEF Sheltered
      <4>2. ~AcceptJoin(s) /\ ~ConsumeInvite(s) /\ ~JoinPending(s)
        BY <3>2, <3>5 DEF Ready, AcceptJoin, ConsumeInvite, JoinPending
      <4> QED
        BY <2>2, <3>2, <4>1, <4>2, InsertUserSheltered, ReconnectSheltered,
           FreezeSheltered, PurgeSheltered, GroupSheltered,
           InsertMemberSheltered, InvitesSheltered, WriteSheltered,
           RemovalsSheltered DEF Commit
    <3> QED
      BY <3>3, <3>4, <3>5
  <2> QED
    BY <1>2, <2>1, <2>2
<1> QED
  BY <1>1, <1>2 DEF SerialNext

LEMMA SerialSteps == SerialNext => CrashNext
BY DEF SerialNext, CrashNext, Next

Inv == TypeOK /\ Alone /\ AttachedByEmail /\ Sheltered

LEMMA InvSteps ==
  ASSUME ~InviteLinks PROVE Inv /\ [SerialNext]_vars => Inv'
<1> SUFFICES ASSUME Inv, [SerialNext]_vars PROVE Inv'
  OBVIOUS
<1>1. [CrashNext]_vars /\ [Next]_vars
  BY SerialSteps DEF CrashNext
<1> QED
  BY <1>1, NextTyped, AloneNext, AttachedNext, ShelteredNext DEF Inv

LEMMA Shelter == ASSUME ~InviteLinks PROVE SerialSpec => []Inv
<1>1. Init => Inv
  <2>1. ASSUME Init PROVE Alone /\ AttachedByEmail /\ Sheltered
    BY <2>1 DEF Init, Alone, OneAtATime, NoDangling, AllSure, AttachedByEmail,
       Sheltered, Backed, AllReady, Idle
  <2> QED
    BY <2>1, InitTyped DEF Inv
<1>2. Inv /\ [SerialNext]_vars => Inv'
  BY InvSteps
<1> QED
  BY <1>1, <1>2, PTL DEF SerialSpec

LEMMA QuietShares ==
  ASSUME Inv, Quiet, NEW r \in rows, r.kind = "split"
  PROVE  /\ r.user # None => IsMember(r.user, r.group)
         /\ r.user = None => \/ FrozenSeat(r.ref, r.group)
                             \/ InvitesOf(r.group, r.ref) # {}
BY DEF Inv, Sheltered, Backed, Seated, Joining, Covered, Quiet

\* One request at a time, none of which dies, and no signup refused half-way
\* because of a row it has in one of several groups: an account that owes a
\* share is listed as a member of the share's group.
THEOREM SharersAreListed ==
  ASSUME ~InviteLinks PROVE SerialSpec => []SharersListed
<1>1. Inv => SharersListed
  BY QuietShares DEF SharersListed, History
<1> QED
  BY <1>1, Shelter, PTL

\* Under the same conditions the invite behind a share of somebody who never
\* signed up cannot be removed: a seat that was frozen tells that its email had
\* an account.
THEOREM PendingSharersAreInvited ==
  ASSUME ~InviteLinks PROVE SerialSpec => []PendingSharersInvited
<1>1. ASSUME Inv PROVE \A e, g : FrozenSeat(e, g) => ~NeverHadAccount(e)
  BY <1>1 DEF Inv, Sheltered, Backed, FrozenSeat, Known, NeverHadAccount
<1>2. Inv => PendingSharersInvited
  BY <1>1, QuietShares DEF PendingSharersInvited, PendingInvited
<1> QED
  BY <1>2, Shelter, PTL
=============================================================================
