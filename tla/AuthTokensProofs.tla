-------------------------- MODULE AuthTokensProofs --------------------------
(***************************************************************************)
(* Theorems about AuthTokens, for any number of accounts, tokens and       *)
(* concurrent requests.                                                    *)
(***************************************************************************)
EXTENDS AuthTokens, TLAPS

USE NoneAssumption DEF Kind

-----------------------------------------------------------------------------
(* Types. *)

LEMMA IdleType == /\ Idle \in Request /\ Idle.pc = "idle" /\ Idle.token = None
                  /\ Idle.doomed = {} /\ Idle.then = "idle"
  BY DEF Idle, Request, PC

\* Rows that are not stored are told apart by their kind.
LEMMA RowTypes == /\ \A q \in Stored : q.kind \in Kind
                  /\ Unissued.kind \notin Kind /\ Deleted.kind \notin Kind
                  /\ Unissued # Deleted
  BY DEF Stored, Unissued, Deleted

LEMMA StoredRows == ASSUME TypeOK
                    PROVE  \A t \in Token : \/ t \in Rows /\ row[t] \in Stored
                                            \/ t \notin Rows /\ row[t] = Unissued
                                            \/ t \notin Rows /\ row[t] = Deleted
  BY RowTypes DEF TypeOK, Rows

\* What a request in progress may be.
Sound(q) == /\ q \in Request
            /\ q.pc # "idle" => q.user \in Account
            /\ q.pc \in Using => q.token \in Token

LEMMA NewSound ==
  ASSUME NEW pc \in PC, NEW a \in Account, NEW t \in Token \cup {None},
         NEW then \in {"idle", "issue_refresh"}, pc \in Using => t \in Token
  PROVE  LET q == New(pc, a, t, then)
         IN  /\ q.pc = pc /\ q.user = a /\ q.token = t /\ q.then = then
             /\ q.doomed = {} /\ Sound(q)
<1> DEFINE q == New(pc, a, t, then)
<1>1. q \in Request
  BY DEF New, Idle, Request
<1>2. q.pc = pc /\ q.user = a /\ q.token = t /\ q.then = then /\ q.doomed = {}
  BY DEF New, Idle
<1> HIDE DEF q
<1>3. Sound(q)
  BY <1>1, <1>2 DEF Sound
<1> QED BY <1>1, <1>2, <1>3 DEF q

\* The steps of a request, as changes of its slot.
Moves(s) == \E q : Sound(q) /\ Become(s, q)

LEMMA EndMoves == ASSUME NEW s \in Slot, End(s) PROVE Moves(s)
  BY IdleType DEF End, Sound, Using, Moves

LEMMA StartMoves ==
  ASSUME NEW s \in Slot, NEW pc \in PC, NEW a \in Account,
         NEW t \in Token \cup {None}, NEW then \in {"idle", "issue_refresh"},
         pc \in Using => t \in Token, Become(s, New(pc, a, t, then))
  PROVE  Moves(s)
  BY NewSound DEF Moves

LEMMA GotoMoves ==
  ASSUME NEW s \in Slot, Sound(req[s]), req[s].pc # "idle",
         NEW pc \in PC \ Using, Goto(s, pc)
  PROVE  Moves(s)
<1> DEFINE q == [req[s] EXCEPT !.pc = pc, !.then = "idle"]
<1>1. q \in Request
  BY DEF Sound, Request
<1>2. q.pc = pc /\ q.user = req[s].user
  BY DEF Sound, Request
<1>3. Become(s, q)
  BY DEF Goto
<1> HIDE DEF q
<1> QED BY <1>1, <1>2, <1>3 DEF Moves, Sound

LEMMA Steps ==
  ASSUME TypeOK, NEW s \in Slot, Arrive(s) \/ Commit(s) \/ Abort(s)
  PROVE  Moves(s)
<1> USE DEF PC, Using
<1>0. Sound(req[s])
  BY DEF TypeOK, Sound
<1>1. ASSUME NEW a \in Account, Signup(s, a) \/ ForgotPassword(s, a)
               \/ ResendVerification(s, a) \/ DeleteAccount(s, a)
      PROVE  Moves(s)
  BY <1>1, StartMoves DEF Signup, ForgotPassword, ResendVerification,
                          DeleteAccount, Start
<1>2. ASSUME NEW a \in Account, NEW right \in BOOLEAN, Login(s, a, right)
      PROVE  Moves(s)
  BY <1>2, StartMoves DEF Login, Start
<1>3. ASSUME NEW t \in Token,
             ResetPassword(s, t) \/ VerifyEmail(s, t) \/ Refresh(s, t)
      PROVE  Moves(s)
  <2>1. row[t].user \in Account
    BY <1>3, StoredRows DEF ResetPassword, VerifyEmail, Refresh, Usable, Rows,
                            Stored
  <2> QED BY <1>3, <2>1, StartMoves DEF ResetPassword, VerifyEmail, Refresh,
                                        Owner, Start
<1>4. ASSUME InsertUser(s) PROVE Moves(s)
  <2>1. req[s].user \in Account
    BY <1>0, <1>4 DEF InsertUser, Sound
  <2> QED BY <1>4, <2>1, StartMoves, EndMoves DEF InsertUser, Refused
<1>5. ASSUME LogLogin(s) PROVE Moves(s)
  BY <1>0, <1>5, EndMoves, GotoMoves DEF LogLogin, Refused
<1>6. ASSUME IssueVerify(s) \/ IssueReset(s) \/ IssueRefresh(s) PROVE Moves(s)
  <2>1. req[s].pc # "idle" /\ req[s].then \in {"idle", "issue_refresh"}
    BY <1>0, <1>6 DEF IssueVerify, IssueReset, IssueRefresh, Sound, Request
  <2>2. End(s) \/ Goto(s, "issue_refresh")
    BY <1>6, <2>1 DEF IssueVerify, IssueReset, IssueRefresh, Issue, Refused
  <2> QED BY <1>0, <2>1, <2>2, EndMoves, GotoMoves
<1>7. ASSUME UseReset(s) PROVE Moves(s)
  <2>1. req[s].user \in Account
    BY <1>0, <1>7 DEF UseReset, Sound
  <2> QED BY <1>7, <2>1, StartMoves, EndMoves DEF UseReset, Late, Refused
<1>8. ASSUME UseVerify(s) PROVE Moves(s)
  BY <1>8, EndMoves DEF UseVerify, Late, Refused
<1>9. ASSUME Revoke(s) PROVE Moves(s)
  BY <1>0, <1>9, EndMoves, GotoMoves DEF Revoke, Late, Refused
<1>10. ASSUME Sweep(s) PROVE Moves(s)
  <2> DEFINE q == [req[s] EXCEPT !.pc = "purge", !.doomed = RowsOf(req[s].user)]
  <2>1. q \in Request
    BY <1>0 DEF Sound, Request, RowsOf, Rows
  <2>2. q.pc = "purge" /\ q.user = req[s].user /\ q.user \in Account
    BY <1>0, <1>10 DEF Sound, Request, Sweep
  <2>3. Become(s, q)
    BY <1>10 DEF Sweep
  <2> HIDE DEF q
  <2> QED BY <2>1, <2>2, <2>3 DEF Moves, Sound
<1>11. ASSUME Purge(s) PROVE Moves(s)
  BY <1>11, EndMoves DEF Purge, Refused
<1> QED BY <1>1, <1>2, <1>3, <1>4, <1>5, <1>6, <1>7, <1>8, <1>9, <1>10, <1>11,
           EndMoves DEF Arrive, Commit, Abort

Requests == req \in [Slot -> Request] /\ \A s \in Slot : Sound(req[s])

LEMMA MovesType ==
  ASSUME Requests, NEW s \in Slot, Moves(s)
  PROVE  Requests'
  BY DEF Requests, Moves, Become, Sound

\* The variables but for the requests.
Tables == /\ status \in [Account -> {"unused", "live", "gone"}]
          /\ verified \in SUBSET Account
          /\ row \in [Token -> Stored \cup {Unissued, Deleted}]
          /\ session \in [Token -> Token \cup {None}]
          /\ parent \in [Token -> Token \cup {None}]
          /\ uses \in [Token -> [Slot -> Nat]]
          /\ broken \in SUBSET (Token \cup {None})

LEMMA TypeParts == /\ TypeOK <=> Tables /\ Requests
                   /\ TypeOK' <=> Tables' /\ Requests'
  BY DEF TypeOK, Tables, Requests, Sound

LEMMA IssueType ==
  ASSUME TypeOK, NEW s \in Slot, req[s].pc # "idle", NEW kind \in Kind,
         Issue(s, kind)
  PROVE  Tables'
<1>1. req[s].user \in Account /\ req[s].token \in Token \cup {None}
  BY DEF TypeOK, Request
<1>2. ASSUME NEW t \in Token, Issued(t, kind, req[s].user, req[s].token),
             UNCHANGED <<status, verified, uses, broken>>
      PROVE  Tables'
  <2> DEFINE q == [kind |-> kind, user |-> req[s].user, used |-> FALSE,
                   expired |-> FALSE]
  <2>1. q \in Stored
    BY <1>1 DEF Stored
  <2>2. row' = [row EXCEPT ![t] = q]
    BY <1>2 DEF Issued
  <2> HIDE DEF q
  <2>3. row' \in [Token -> Stored \cup {Unissued, Deleted}]
    BY <2>1, <2>2 DEF TypeOK
  <2>4. session' \in [Token -> Token \cup {None}]
    BY <1>1, <1>2 DEF Issued, TypeOK
  <2>5. parent' \in [Token -> Token \cup {None}]
    BY <1>1, <1>2 DEF Issued, TypeOK
  <2> QED BY <1>2, <2>3, <2>4, <2>5 DEF TypeOK, Tables
<1> QED BY <1>2 DEF Issue, Refused, ghosts, TypeOK, Tables

LEMMA UseType ==
  ASSUME TypeOK, NEW s \in Slot, Use(s)
  PROVE  /\ row' \in [Token -> Stored \cup {Unissued, Deleted}]
         /\ uses' \in [Token -> [Slot -> Nat]]
<1> DEFINE t == req[s].token
           q == [row[t] EXCEPT !.used = TRUE]
<1>1. t \in Token /\ row[t] \in Stored
  BY StoredRows DEF Use, Rows
<1>2. q \in Stored
  BY <1>1 DEF Stored
<1>3. row' = [row EXCEPT ![t] = q]
  BY DEF Use, Marked
<1>4. uses' = [uses EXCEPT ![t] = [uses[t] EXCEPT ![s] = uses[t][s] + 1]]
  BY DEF Use
<1> HIDE DEF t, q
<1> QED BY <1>1, <1>2, <1>3, <1>4 DEF TypeOK

LEMMA ExpireType ==
  ASSUME TypeOK, NEW t \in Token, Expire(t)
  PROVE  TypeOK'
<1> DEFINE q == [row[t] EXCEPT !.expired = TRUE]
<1>1. row[t] \in Stored
  BY StoredRows DEF Expire
<1>2. q \in Stored
  BY <1>1 DEF Stored
<1>3. /\ row' = [row EXCEPT ![t] = q]
      /\ UNCHANGED <<status, verified, req, session, parent, uses, broken>>
  BY DEF Expire, ghosts
<1> HIDE DEF q
<1>4. row' \in [Token -> Stored \cup {Unissued, Deleted}]
  BY <1>2, <1>3 DEF TypeOK
<1> QED BY <1>3, <1>4 DEF TypeOK

LEMMA StepType ==
  ASSUME TypeOK, NEW s \in Slot, Arrive(s) \/ Commit(s) \/ Abort(s)
  PROVE  TypeOK'
<1> SUFFICES Tables'
  BY Steps, MovesType, TypeParts
<1>1. ASSUME UNCHANGED <<status, verified, row, ghosts>> PROVE Tables'
  <2>1. UNCHANGED <<status, verified, row, session, parent, uses, broken>>
    BY <1>1 DEF ghosts
  <2> QED BY <2>1, TypeParts DEF Tables
<1>2. CASE Arrive(s)
  BY <1>1, <1>2 DEF Arrive, Start, Signup, ForgotPassword, ResendVerification,
       DeleteAccount, Login, ResetPassword, VerifyEmail, Refresh
<1>3. CASE InsertUser(s)
  BY <1>1, <1>3 DEF InsertUser, Refused, TypeOK, Tables, ghosts
<1>4. CASE LogLogin(s) \/ Sweep(s)
  BY <1>1, <1>4 DEF LogLogin, Sweep, Refused
<1>5. CASE IssueVerify(s) \/ IssueReset(s) \/ IssueRefresh(s)
  BY <1>5, IssueType DEF IssueVerify, IssueReset, IssueRefresh
<1>6. CASE UseReset(s) \/ Revoke(s)
  BY <1>1, <1>6, UseType DEF UseReset, Revoke, Use, Late, Refused, TypeOK, Tables
<1>7. CASE UseVerify(s)
  <2>1. verified' \in SUBSET Account \/ UNCHANGED verified
    BY <1>7 DEF UseVerify, Late, Refused, TypeOK
  <2> QED BY <1>1, <1>7, <2>1, UseType DEF UseVerify, Use, Late, Refused, TypeOK,
                                           Tables
<1>8. CASE Purge(s)
  BY <1>1, <1>8 DEF Purge, Refused, TypeOK, Tables, ghosts
<1>9. CASE Abort(s)
  <2>1. req[s].token # None /\ req[s].pc = "issue_refresh" /\
          session[req[s].token] # None => session[req[s].token] \in Token
    BY DEF TypeOK, Request
  <2> QED BY <1>9, <2>1 DEF Abort, TypeOK, Tables
<1> QED BY <1>2, <1>3, <1>4, <1>5, <1>6, <1>7, <1>8, <1>9 DEF Commit

LEMMA InitType == Init => TypeOK
<1> SUFFICES ASSUME Init PROVE TypeOK
  OBVIOUS
<1>1. /\ status \in [Account -> {"unused", "live", "gone"}]
      /\ verified \in SUBSET Account
      /\ row \in [Token -> Stored \cup {Unissued, Deleted}]
      /\ session \in [Token -> Token \cup {None}]
      /\ parent \in [Token -> Token \cup {None}]
      /\ broken \in SUBSET (Token \cup {None})
  BY DEF Init
<1>2. uses \in [Token -> [Slot -> Nat]]
  BY DEF Init
<1>3. Requests
  BY IdleType DEF Init, Requests, Sound, Using
<1> QED BY <1>1, <1>2, <1>3, TypeParts DEF Tables

\* Every variable keeps its type, for any number of overlapping requests.
THEOREM Typing == Spec => []TypeOK
<1>1. ASSUME TypeOK, [Next]_vars PROVE TypeOK'
  <2>1. CASE Next
    BY <1>1, <2>1, StepType, ExpireType DEF Next
  <2>2. CASE UNCHANGED vars
    BY <1>1, <2>2 DEF vars, TypeOK
  <2> QED BY <1>1, <2>1, <2>2
<1> QED BY InitType, <1>1, PTL DEF Spec

-----------------------------------------------------------------------------
(* Requests in flight fit the rows they have read. *)

\* No row comes, goes or changes hands, and none is unmarked.
SameRows == \A t \in Token :
              /\ (row[t] = Unissued)' <=> row[t] = Unissued
              /\ (t \in Rows)' <=> t \in Rows
              /\ t \in Rows => /\ row'[t].kind = row[t].kind
                               /\ row'[t].user = row[t].user
                               /\ row[t].used => row'[t].used
SameGone == \A a \in Account : status'[a] = "gone" <=> status[a] = "gone"

LEMMA SettledRequest ==
  ASSUME TypeOK, SameRows, SameGone, UNCHANGED session, NEW q, Sound(q),
         q.token # None => q.user \in Account, RequestFits(q)
  PROVE  RequestFits(q)'
<1>1. q.token \in Token \cup {None} /\ q.doomed \subseteq Token
  BY DEF Sound, Request
<1>2. q.token # None => session[q.token] \in Token \cup {None}
  BY <1>1 DEF TypeOK
<1>3. (q.token # None => row[q.token] # Unissued)'
  BY <1>1 DEF SameRows, RequestFits
<1>4. Presented(q)'
  BY <1>1 DEF SameRows, RequestFits, Presented, Using, Rows
<1>5. Rotated(q)'
  BY <1>1, <1>2 DEF SameRows, SameGone, RequestFits, Rotated, Rows
<1>6. Doomed(q)'
  BY <1>1 DEF SameRows, RequestFits, Doomed, Rows
<1> QED BY <1>3, <1>4, <1>5, <1>6 DEF RequestFits

LEMMA SettledToken ==
  ASSUME TypeOK, SameRows, UNCHANGED <<session, parent>>, NEW t \in Token,
         TokenFits(t)
  PROVE  TokenFits(t)'
<1>1. session[t] \in Token \cup {None} /\ parent[t] \in Token \cup {None}
  BY DEF TypeOK
<1> QED BY <1>1 DEF SameRows, TokenFits, Rows

LEMMA RequestsSound == ASSUME TypeOK, NEW s \in Slot PROVE Sound(req[s])
  BY DEF TypeOK, Sound

\* A request without a token never gets one but with its user.
TokenUser == \A s \in Slot : req[s].token # None => req[s].user \in Account

LEMMA SettledFits ==
  ASSUME TypeOK, InFlight, TokenUser, SameRows, SameGone, UNCHANGED <<session, parent>>,
         NEW s \in Slot, NEW q, Sound(q), Become(s, q), RequestFits(q)',
         q.token # None => q.user \in Account,
         \A t \in Token, x \in Slot : UseFits(t, x)'
  PROVE  InFlight' /\ TokenUser'
<1>1. \A x \in Slot : req'[x] = IF x = s THEN q ELSE req[x]
  BY DEF Become, TypeOK
<1>2. ASSUME NEW x \in Slot PROVE RequestFits(req[x])'
  <2>1. CASE x = s
    BY <1>1, <2>1
  <2>2. CASE x # s
    <3>1. RequestFits(req[x])
      BY DEF InFlight
    <3> DEFINE r == req[x]
    <3>2. Sound(r) /\ (r.token # None => r.user \in Account)
      BY RequestsSound DEF TokenUser
    <3>3. req'[x] = r
      BY <1>1, <2>2
    <3> QED BY <3>1, <3>2, <3>3, SettledRequest DEF RequestFits
  <2> QED BY <2>1, <2>2
<1>3. ASSUME NEW t \in Token PROVE TokenFits(t)'
  BY SettledToken DEF InFlight
<1>4. TokenUser'
  BY <1>1 DEF TokenUser
<1> QED BY <1>2, <1>3, <1>4 DEF InFlight

\* A slot that changes its request without using a token.
LEMMA KeptUses ==
  ASSUME TypeOK, InFlight, SameRows, UNCHANGED uses, NEW s \in Slot, NEW q,
         Become(s, q), q.pc \in Using /\ q.token \in Token => uses[q.token][s] = 0
  PROVE  \A t \in Token, x \in Slot : UseFits(t, x)'
<1> SUFFICES ASSUME NEW t \in Token, NEW x \in Slot, uses[t][x] > 0
             PROVE  /\ (t \in Rows => row[t].used)'
                    /\ row'[t] # Unissued
                    /\ ~(req'[x].pc \in Using /\ req'[x].token = t)
  BY DEF UseFits
<1>1. req'[x] = IF x = s THEN q ELSE req[x]
  BY DEF Become, TypeOK
<1>2. UseFits(t, x)
  BY DEF InFlight
<1> QED BY <1>1, <1>2 DEF SameRows, UseFits, Rows

LEMMA SameTables == ASSUME UNCHANGED row PROVE SameRows
  BY DEF SameRows, Rows

LEMMA IdleFits == RequestFits(Idle) /\ RequestFits(Idle)' /\ Sound(Idle)
  BY IdleType DEF RequestFits, Presented, Rotated, Doomed, Sound, Using

LEMMA EndFits ==
  ASSUME TypeOK, InFlight, TokenUser, SameRows, SameGone,
         UNCHANGED <<session, parent, uses>>, NEW s \in Slot, End(s)
  PROVE  InFlight' /\ TokenUser'
<1>1. Become(s, Idle) /\ Idle.token = None /\ Idle.pc \notin Using
  BY IdleType DEF End, Using
<1>2. \A t \in Token, x \in Slot : UseFits(t, x)'
  BY <1>1, KeptUses
<1> QED BY <1>1, <1>2, IdleFits, SettledFits

LEMMA RefusedFits ==
  ASSUME TypeOK, InFlight, TokenUser, NEW s \in Slot, Refused(s)
  PROVE  InFlight' /\ TokenUser'
  BY EndFits, SameTables DEF Refused, ghosts, SameGone

LEMMA NewFits ==
  ASSUME TypeOK, InFlight, TokenUser, SameRows, SameGone,
         UNCHANGED <<session, parent, uses>>, NEW s \in Slot,
         NEW pc \in PC \ Using, NEW a \in Account,
         NEW then \in {"idle", "issue_refresh"}, Become(s, New(pc, a, None, then))
  PROVE  InFlight' /\ TokenUser'
<1> DEFINE q == New(pc, a, None, then)
<1>1. q.pc = pc /\ q.user = a /\ q.token = None /\ q.doomed = {} /\ Sound(q)
  BY NewSound
<1>2. Become(s, q)
  OBVIOUS
<1> HIDE DEF q
<1>3. RequestFits(q)'
  BY <1>1 DEF RequestFits, Presented, Rotated, Doomed
<1>4. \A t \in Token, x \in Slot : UseFits(t, x)'
  BY <1>1, <1>2, KeptUses
<1> QED BY <1>1, <1>2, <1>3, <1>4, SettledFits

LEMMA PresentFits ==
  ASSUME TypeOK, InFlight, TokenUser, NEW s \in Slot, NEW t \in Token,
         NEW pc \in Using, Usable(t, KindOf[pc]), KindOf[pc] \in Kind,
         Start(s, pc, Owner(t), t, "idle")
  PROVE  InFlight' /\ TokenUser'
<1> PICK q : q = New(pc, row[t].user, t, "idle")
  OBVIOUS
<1>1. t \in Rows /\ row[t].user \in Account /\ row[t].kind = KindOf[pc] /\ ~row[t].used
  BY StoredRows DEF Usable, Rows, Stored
<1>2. q.pc = pc /\ q.user = row[t].user /\ q.token = t /\ q.doomed = {} /\ Sound(q)
  BY <1>1, NewSound DEF Using, PC
<1>3. Become(s, q) /\ UNCHANGED <<status, row, session, parent, uses>>
  BY DEF Start, Owner, ghosts
<1>4. uses[t][s] = 0
  <2>1. UseFits(t, s) /\ uses[t][s] \in Nat
    BY DEF InFlight, TypeOK
  <2> QED BY <1>1, <2>1 DEF UseFits
<1>5. row[t] # Unissued
  BY <1>1, StoredRows, RowTypes
<1>6. RequestFits(q)
  BY <1>1, <1>2, <1>5 DEF RequestFits, Presented, Rotated, Doomed
<1>7. SameRows /\ SameGone
  BY <1>3, SameTables DEF SameGone
<1>8. RequestFits(q)'
  BY <1>1, <1>2, <1>3, <1>6, <1>7, SettledRequest
<1>9. \A u \in Token, x \in Slot : UseFits(u, x)'
  BY <1>2, <1>3, <1>4, <1>7, KeptUses
<1> QED BY <1>1, <1>2, <1>3, <1>7, <1>8, <1>9, SettledFits

LEMMA ArriveFits ==
  ASSUME TypeOK, InFlight, TokenUser, NEW s \in Slot, Arrive(s)
  PROVE  InFlight' /\ TokenUser'
<1>1. ASSUME NEW pc \in PC \ Using, NEW a \in Account,
             NEW then \in {"idle", "issue_refresh"}, Start(s, pc, a, None, then)
      PROVE  InFlight' /\ TokenUser'
  BY <1>1, NewFits, SameTables DEF Start, ghosts, SameGone
<1>2. ASSUME NEW a \in Account, Signup(s, a) \/ ForgotPassword(s, a)
               \/ ResendVerification(s, a) \/ DeleteAccount(s, a)
      PROVE  InFlight' /\ TokenUser'
  BY <1>1, <1>2 DEF Signup, ForgotPassword, ResendVerification, DeleteAccount,
                    PC, Using
<1>3. ASSUME NEW a \in Account, NEW right \in BOOLEAN, Login(s, a, right)
      PROVE  InFlight' /\ TokenUser'
  BY <1>1, <1>3 DEF Login, PC, Using
<1>4. ASSUME NEW t \in Token,
             ResetPassword(s, t) \/ VerifyEmail(s, t) \/ Refresh(s, t)
      PROVE  InFlight' /\ TokenUser'
  <2>1. /\ KindOf["use_reset"] = "reset" /\ KindOf["use_verify"] = "verify"
        /\ KindOf["revoke"] = "refresh"
    BY DEF KindOf
  <2> QED BY <1>4, <2>1, PresentFits DEF ResetPassword, VerifyEmail, Refresh, Using
<1> QED BY <1>2, <1>3, <1>4 DEF Arrive

LEMMA IssueFits ==
  ASSUME TypeOK, InFlight, TokenUser, NEW s \in Slot, NEW kind \in Kind,
         req[s].pc \notin Using \cup {"idle"}, Issue(s, kind)
  PROVE  InFlight' /\ TokenUser'
<1> USE DEF Using
<1>1. CASE Refused(s)
  BY <1>1, RefusedFits
<1>2. CASE ~Refused(s)
  <2> DEFINE a == req[s].user
             from == req[s].token
  <2>1. PICK t \in Token : row[t] = Unissued /\ Issued(t, kind, a, from)
    BY <1>2 DEF Issue
  <2>2. /\ Live(a) /\ a \in Account /\ from \in Token \cup {None}
        /\ UNCHANGED <<status, uses>>
    BY <1>2 DEF Issue, Referable, TypeOK, Request
  <2>3. /\ \A u \in Token \ {t} : /\ row'[u] = row[u]
                                  /\ session'[u] = session[u]
                                  /\ parent'[u] = parent[u]
        /\ row'[t].kind = kind /\ row'[t].user = a /\ row'[t] # Unissued
        /\ session'[t] = IF kind # "refresh" THEN None
                         ELSE IF from = None THEN t ELSE session[from]
        /\ parent'[t] = from
    <3>1. row' = [row EXCEPT ![t] = [kind |-> kind, user |-> a, used |-> FALSE,
                                     expired |-> FALSE]]
      BY <2>1 DEF Issued
    <3>2. [kind |-> kind, user |-> a, used |-> FALSE, expired |-> FALSE] \in Stored
      BY <2>2 DEF Stored
    <3> QED BY <2>1, <3>1, <3>2, RowTypes DEF Issued, TypeOK
  <2>4. /\ t \notin Rows
        /\ \A u \in Token : (u \in Rows)' <=> u \in Rows \/ u = t
    BY <2>1, <2>3, RowTypes DEF Rows
  <2>5. \A u \in Token : session[u] # t
    BY <2>1 DEF InFlight, TokenFits
  <2>6. ASSUME NEW q, Sound(q), RequestFits(q) PROVE RequestFits(q)'
    <3>1. q.token \in Token \cup {None} /\ q.doomed \subseteq Token
      BY <2>6 DEF Sound, Request
    <3>2. q.token # t /\ t \notin q.doomed
      BY <2>1, <2>6 DEF RequestFits, Doomed
    <3>3. q.token # None => session[q.token] \in Token \cup {None}
      BY <3>1 DEF TypeOK
    <3>4. Presented(q)'
      BY <2>3, <2>4, <2>6, <3>1, <3>2 DEF RequestFits, Presented, Rows
    <3>5. Rotated(q)'
      BY <2>2, <2>3, <2>4, <2>5, <2>6, <3>1, <3>2, <3>3 DEF RequestFits, Rotated, Rows
    <3>6. Doomed(q)'
      BY <2>3, <2>4, <2>6, <3>1, <3>2 DEF RequestFits, Doomed
    <3> QED BY <2>3, <2>6, <3>1, <3>2, <3>4, <3>5, <3>6 DEF RequestFits
  <2>7. PICK q : Become(s, q) /\ (q = Idle \/ q = [req[s] EXCEPT !.pc = "issue_refresh",
                                                                !.then = "idle"])
    <3>1. req[s].then \in {"idle", "issue_refresh"}
      BY DEF TypeOK, Request
    <3> QED BY <1>2, <3>1 DEF Issue, End, Goto
  <2>8. Sound(q) /\ RequestFits(q) /\ q.pc \notin Using
        /\ (q.token # None => q.user \in Account)
    <3>1. CASE q = Idle
      BY <3>1, IdleType, IdleFits
    <3>2. CASE q = [req[s] EXCEPT !.pc = "issue_refresh", !.then = "idle"]
      <4>1. req[s] \in Request
        BY DEF TypeOK
      <4>2. /\ q \in Request /\ q.pc = "issue_refresh" /\ q.user = a /\ q.token = from
            /\ q.doomed = req[s].doomed
        BY <3>2, <4>1 DEF Request, PC
      <4>3. RequestFits(req[s])
        BY DEF InFlight
      <4> QED BY <2>2, <4>2, <4>3 DEF RequestFits, Presented, Rotated, Doomed, Sound
    <3> QED BY <2>7, <3>1, <3>2
  <2>9. \A x \in Slot : req'[x] = IF x = s THEN q ELSE req[x]
    BY <2>7 DEF Become, TypeOK
  <2>10. \A x \in Slot : RequestFits(req[x])'
    <3> SUFFICES ASSUME NEW x \in Slot PROVE RequestFits(req[x])'
      OBVIOUS
    <3>1. PICK r : r = req'[x]
      OBVIOUS
    <3>2. Sound(r) /\ RequestFits(r)
      BY <2>8, <2>9, <3>1, RequestsSound DEF InFlight
    <3> QED BY <2>6, <3>1, <3>2 DEF RequestFits
  <2>11. ASSUME NEW u \in Token PROVE TokenFits(u)'
    <3>1. session[u] \in Token \cup {None} /\ parent[u] \in Token \cup {None} /\ TokenFits(u)
      BY DEF TypeOK, InFlight
    <3>2. CASE u # t
      BY <2>3, <2>4, <2>5, <3>1, <3>2 DEF TokenFits, Rows
    <3>3. CASE u = t
      <4>1. RequestFits(req[s]) /\ (from # None => TokenFits(from))
        BY <2>2 DEF InFlight
      <4>2. from # None => /\ from # t /\ from \in Rows /\ row[from].user = a
                           /\ session[from] \in Token \cup {None}
                           /\ session[from] # None => row[session[from]] # Unissued
                           /\ session[from] \in Rows => row[session[from]].user = a
        BY <2>1, <2>2, <4>1 DEF RequestFits, Rotated, TokenFits, Live, TypeOK
      <4> QED BY <2>2, <2>3, <2>4, <2>5, <3>3, <4>2 DEF TokenFits, Rows
    <3> QED BY <3>2, <3>3
  <2>12. ASSUME NEW u \in Token, NEW x \in Slot PROVE UseFits(u, x)'
    <3>1. UseFits(u, x)
      BY DEF InFlight
    <3> QED BY <2>1, <2>2, <2>3, <2>4, <2>8, <2>9, <3>1 DEF UseFits
  <2>13. TokenUser'
    BY <2>8, <2>9 DEF TokenUser
  <2> QED BY <2>10, <2>11, <2>12, <2>13 DEF InFlight
<1> QED BY <1>1, <1>2

LEMMA UseKeeps ==
  ASSUME TypeOK, NEW s \in Slot, Use(s)
  PROVE  /\ req[s].token \in Rows /\ SameRows /\ SameGone
         /\ row'[req[s].token].used
         /\ \A u \in Token \ {req[s].token} : row'[u] = row[u] /\ uses'[u] = uses[u]
         /\ uses'[req[s].token] = [uses[req[s].token] EXCEPT ![s] = @ + 1]
         /\ UNCHANGED <<status, session, parent, broken>>
<1> DEFINE t == req[s].token
           q == [row[t] EXCEPT !.used = TRUE]
<1>1. t \in Token /\ t \in Rows /\ row[t] \in Stored
  BY StoredRows DEF Use, Rows
<1>2. q \in Stored /\ q.kind = row[t].kind /\ q.user = row[t].user /\ q.used
  BY <1>1 DEF Stored
<1>3. row' = [row EXCEPT ![t] = q]
  BY DEF Use, Marked
<1>4. uses' = [uses EXCEPT ![t] = [uses[t] EXCEPT ![s] = @ + 1]]
  BY DEF Use
<1>5. UNCHANGED <<status, session, parent, broken>>
  BY DEF Use
<1> HIDE DEF t, q
<1>6. row'[t] = q /\ \A u \in Token \ {t} : row'[u] = row[u]
  BY <1>1, <1>3 DEF TypeOK
<1>7. row[t] # Unissued /\ q # Unissued
  BY <1>1, <1>2, RowTypes
<1>8. SameRows
  BY <1>1, <1>2, <1>6, <1>7 DEF SameRows, Rows
<1> QED BY <1>1, <1>2, <1>4, <1>5, <1>6, <1>8 DEF t, TypeOK, SameGone

\* The slot that has used its token goes on with q.
LEMMA UsedFits ==
  ASSUME TypeOK, InFlight, TokenUser, NEW s \in Slot, req[s].pc \in Using, Use(s),
         NEW q, Become(s, q), Sound(q), q.pc \notin Using, q.doomed \subseteq req[s].doomed,
         q.user = req[s].user \/ q = Idle, q.token \in {req[s].token, None}
  PROVE  InFlight' /\ TokenUser'
<1>1. PICK r, t : r = req[s] /\ t = r.token
  OBVIOUS
<1>2. /\ t \in Rows /\ t \in Token /\ Sound(r) /\ RequestFits(r) /\ TokenFits(t)
      /\ t # None /\ r.user \in Account /\ r.pc \in Using
  BY <1>1, UseKeeps, RequestsSound DEF InFlight, Rows, TokenUser
<1>3. /\ SameRows /\ row'[t].used /\ (t \in Rows)' /\ row'[t] # Unissued
      /\ row[t] # Unissued
      /\ \A u \in Token \ {t} : row'[u] = row[u] /\ uses'[u] = uses[u]
      /\ uses'[t] = [uses[t] EXCEPT ![s] = @ + 1]
      /\ UNCHANGED <<status, session, parent, broken>>
  BY <1>1, <1>2, UseKeeps DEF SameRows, RequestFits
<1>4. \A u \in Token, x \in Slot : UseFits(u, x)'
  <2> SUFFICES ASSUME NEW u \in Token, NEW x \in Slot, uses'[u][x] > 0
               PROVE  /\ (u \in Rows => row[u].used)'
                      /\ row'[u] # Unissued
                      /\ ~(req'[x].pc \in Using /\ req'[x].token = u)
    BY DEF UseFits
  <2>1. req'[x] = IF x = s THEN q ELSE req[x]
    BY DEF Become, TypeOK
  <2>2. UseFits(u, x)
    BY DEF InFlight
  <2>3. CASE u # t
    BY <1>3, <2>1, <2>2, <2>3 DEF UseFits, SameRows
  <2>4. CASE u = t /\ x = s
    BY <1>3, <2>1, <2>4
  <2>5. CASE u = t /\ x # s
    <3>1. uses'[u][x] = uses[u][x]
      BY <1>2, <1>3, <2>5 DEF TypeOK
    <3> QED BY <1>2, <1>3, <2>1, <2>2, <2>5, <3>1 DEF UseFits
  <2> QED BY <2>3, <2>4, <2>5
<1>5. RequestFits(q)'
  <2>1. CASE q = Idle
    BY <2>1, IdleFits
  <2>2. CASE q.user = r.user
    <3>1. (q.token # None => row[q.token] # Unissued)'
      BY <1>1, <1>3
    <3>2. Presented(q)'
      BY DEF Presented
    <3>3. Rotated(q)'
      <4>1. row'[t].user = r.user /\ session[t] \in Token \cup {None}
        BY <1>1, <1>2, <1>3 DEF RequestFits, Presented, SameRows, TypeOK
      <4>2. (session[t] \in Rows)' => row'[session[t]].user = r.user
        BY <1>1, <1>2, <1>3 DEF TokenFits, RequestFits, Presented, SameRows, Rows
      <4> QED BY <1>1, <1>3, <2>2, <4>1, <4>2 DEF Rotated
    <3>4. Doomed(q)'
      <4>1. q.doomed \subseteq r.doomed /\ r.doomed \subseteq Token /\ Doomed(r)
        BY <1>1, <1>2 DEF RequestFits, Sound, Request
      <4> QED BY <1>3, <2>2, <4>1 DEF Doomed, SameRows
    <3> QED BY <3>1, <3>2, <3>3, <3>4 DEF RequestFits
  <2> QED BY <1>1, <2>1, <2>2
<1>6. q.token # None => q.user \in Account
  BY <1>1, <1>2, IdleType
<1> QED BY <1>3, <1>4, <1>5, <1>6, UseKeeps, SettledFits

LEMMA CommitUseFits ==
  ASSUME TypeOK, InFlight, TokenUser, NEW s \in Slot,
         UseReset(s) \/ UseVerify(s) \/ Revoke(s)
  PROVE  InFlight' /\ TokenUser'
<1>1. CASE Late(s)
  BY <1>1, RefusedFits DEF Late
<1>2. CASE Use(s)
  <2>1. req[s].pc \in Using /\ Sound(req[s]) /\ req[s] \in Request
    BY RequestsSound DEF UseReset, UseVerify, Revoke, Using, Sound
  <2>2. req[s].user \in Account
    BY <2>1 DEF Sound, Using
  <2>3. CASE UseReset(s) /\ ~Late(s)
    <3>1. PICK q : q = New("issue_refresh", req[s].user, None, "idle")
      OBVIOUS
    <3>2. /\ Become(s, q) /\ Sound(q) /\ q.pc = "issue_refresh" /\ q.token = None
          /\ q.doomed = {} /\ q.user = req[s].user
      BY <2>2, <2>3, <3>1, NewSound DEF UseReset, PC, Using
    <3> QED BY <1>2, <2>1, <3>2, UsedFits DEF Using
  <2>4. CASE UseVerify(s) /\ ~Late(s)
    <3>1. Become(s, Idle) /\ Sound(Idle) /\ Idle.pc \notin Using /\ Idle.token = None
          /\ Idle.doomed = {}
      BY <2>4, IdleType, IdleFits DEF UseVerify, End, Using
    <3> QED BY <1>2, <2>1, <3>1, UsedFits
  <2>5. CASE Revoke(s) /\ ~Late(s)
    <3>1. PICK q : q = [req[s] EXCEPT !.pc = "issue_refresh", !.then = "idle"]
      OBVIOUS
    <3>2. /\ Become(s, q) /\ q \in Request /\ q.pc = "issue_refresh"
          /\ q.token = req[s].token /\ q.doomed = req[s].doomed /\ q.user = req[s].user
      BY <2>1, <2>5, <3>1 DEF Revoke, Goto, Request, PC
    <3>3. Sound(q)
      BY <2>2, <3>2 DEF Sound, Using
    <3> QED BY <1>2, <2>1, <3>2, <3>3, UsedFits DEF Using
  <2> QED BY <1>1, <2>3, <2>4, <2>5
<1> QED BY <1>1, <1>2 DEF UseReset, UseVerify, Revoke

\* A deletion that commits takes exactly the rows of its user.
LEMMA PurgeTakes ==
  ASSUME TypeOK, InFlight, NEW s \in Slot, Purge(s), ~Refused(s)
  PROVE  LET a == req[s].user
         IN  /\ a \in Account /\ Live(a) /\ status' = [status EXCEPT ![a] = "gone"]
             /\ verified' = verified \ {a} /\ End(s)
             /\ UNCHANGED <<session, parent, uses, broken>>
             /\ \A t \in Token :
                  /\ (t \in Rows)' <=> t \in Rows /\ row[t].user # a
                  /\ (t \in Rows)' => row'[t] = row[t]
                  /\ row'[t] = Unissued <=> row[t] = Unissued
<1> DEFINE a == req[s].user
<1>1. /\ a \in Account /\ Live(a) /\ RowsOf(a) \subseteq req[s].doomed
      /\ status' = [status EXCEPT ![a] = "gone"]
      /\ verified' = verified \ {a} /\ End(s)
      /\ UNCHANGED <<session, parent, uses, broken>>
      /\ row' = [t \in Token |-> IF t \in req[s].doomed THEN Deleted ELSE row[t]]
  BY DEF Purge, ghosts, TypeOK
<1>2. Doomed(req[s])
  BY DEF InFlight, RequestFits
<1> HIDE DEF a
<1>3. ASSUME NEW t \in Token
      PROVE  /\ (t \in Rows)' <=> t \in Rows /\ row[t].user # a
             /\ (t \in Rows)' => row'[t] = row[t]
             /\ row'[t] = Unissued <=> row[t] = Unissued
  <2>1. CASE t \in req[s].doomed
    <3>1. row'[t] = Deleted /\ (t \in Rows)' = FALSE
      BY <1>1, <2>1, RowTypes DEF Rows
    <3>2. row[t] # Unissued /\ (t \in Rows => row[t].user = a)
      BY <1>2, <2>1 DEF Doomed, a
    <3> QED BY <3>1, <3>2, RowTypes
  <2>2. CASE t \notin req[s].doomed
    <3>1. row'[t] = row[t] /\ ((t \in Rows)' <=> t \in Rows)
      BY <1>1, <2>2 DEF Rows
    <3>2. t \in Rows => row[t].user # a
      BY <1>1, <2>2 DEF RowsOf
    <3> QED BY <3>1, <3>2
  <2> QED BY <2>1, <2>2
<1> QED BY <1>1, <1>3 DEF a

LEMMA PurgeFits ==
  ASSUME TypeOK, InFlight, TokenUser, NEW s \in Slot, Purge(s)
  PROVE  InFlight' /\ TokenUser'
<1>1. CASE Refused(s)
  BY <1>1, RefusedFits
<1>2. CASE ~Refused(s)
  <2>1. PICK a \in Account :
          /\ a = req[s].user /\ status' = [status EXCEPT ![a] = "gone"]
          /\ End(s) /\ UNCHANGED <<session, parent, uses, broken>>
          /\ \A t \in Token :
               /\ (t \in Rows)' <=> t \in Rows /\ row[t].user # a
               /\ (t \in Rows)' => row'[t] = row[t]
               /\ row'[t] = Unissued <=> row[t] = Unissued
    BY <1>2, PurgeTakes
  <2>2. \A x \in Slot : req'[x] = IF x = s THEN Idle ELSE req[x]
    BY <2>1 DEF End, Become, TypeOK
  <2>3. ASSUME NEW r, Sound(r), RequestFits(r), r.token # None => r.user \in Account
        PROVE  RequestFits(r)'
    <3>1. r.token \in Token \cup {None} /\ r.doomed \subseteq Token
      BY <2>3 DEF Sound, Request
    <3>2. r.token # None => session[r.token] \in Token \cup {None}
      BY <3>1 DEF TypeOK
    <3>3. Presented(r)'
      BY <2>1, <2>3, <3>1 DEF RequestFits, Presented, Rows
    <3>4. Rotated(r)'
      <4> SUFFICES ASSUME r.pc \notin Using, r.token # None
                   PROVE  (/\ status[r.user] # "gone" => /\ r.token \in Rows
                                                         /\ row[r.token].user = r.user
                                                         /\ row[r.token].used
                           /\ session[r.token] \in Rows =>
                                row[session[r.token]].user = r.user)'
        BY DEF Rotated
      <4>1. status'[r.user] # "gone" => r.user # a /\ status[r.user] # "gone"
        BY <2>1, <2>3 DEF TypeOK
      <4>2. Rotated(r)
        BY <2>3 DEF RequestFits
      <4> QED BY <2>1, <3>1, <3>2, <4>1, <4>2 DEF Rotated, Rows
    <3>5. Doomed(r)'
      BY <2>1, <2>3, <3>1 DEF RequestFits, Doomed
    <3>6. (r.token # None => row[r.token] # Unissued)'
      BY <2>1, <2>3, <3>1 DEF RequestFits
    <3> QED BY <3>3, <3>4, <3>5, <3>6 DEF RequestFits
  <2>4. ASSUME NEW x \in Slot PROVE RequestFits(req[x])'
    <3>1. PICK r : r = req'[x]
      OBVIOUS
    <3>2. Sound(r) /\ RequestFits(r) /\ (r.token # None => r.user \in Account)
      BY <2>2, <3>1, IdleFits, IdleType, RequestsSound DEF InFlight, TokenUser
    <3> QED BY <2>3, <3>1, <3>2 DEF RequestFits
  <2>5. ASSUME NEW t \in Token PROVE TokenFits(t)'
    <3>1. session[t] \in Token \cup {None} /\ parent[t] \in Token \cup {None} /\ TokenFits(t)
      BY DEF TypeOK, InFlight
    <3> QED BY <2>1, <3>1 DEF TokenFits, Rows
  <2>6. ASSUME NEW t \in Token, NEW x \in Slot PROVE UseFits(t, x)'
    <3>1. UseFits(t, x)
      BY DEF InFlight
    <3> QED BY <2>1, <2>2, <3>1, IdleType DEF UseFits, Using
  <2> QED BY <2>2, <2>4, <2>5, <2>6, IdleType DEF InFlight, TokenUser
<1> QED BY <1>1, <1>2

LEMMA SweepFits ==
  ASSUME TypeOK, InFlight, TokenUser, NEW s \in Slot, Sweep(s)
  PROVE  InFlight' /\ TokenUser'
<1>1. PICK q, r : /\ r = req[s]
                  /\ q = [r EXCEPT !.pc = "purge", !.doomed = RowsOf(r.user)]
  OBVIOUS
<1>2. /\ r \in Request /\ r.pc = "sweep" /\ r.user \in Account /\ RequestFits(r)
      /\ Become(s, q) /\ UNCHANGED <<status, row, session, parent, uses>>
  BY <1>1 DEF Sweep, TypeOK, InFlight, ghosts
<1>3. /\ q \in Request /\ q.pc = "purge" /\ q.user = r.user /\ q.token = r.token
      /\ q.doomed = RowsOf(r.user)
  BY <1>1, <1>2 DEF Request, RowsOf, Rows, PC
<1>4. Sound(q)
  BY <1>2, <1>3 DEF Sound, Using
<1>5. RequestFits(q)
  <2>1. Rotated(q)
    BY <1>2, <1>3 DEF RequestFits, Rotated, Using
  <2>2. Doomed(q)
    BY <1>3, RowTypes DEF Doomed, RowsOf, Rows
  <2> QED BY <1>2, <1>3, <2>1, <2>2 DEF RequestFits, Presented, Using
<1>6. SameRows /\ SameGone
  BY <1>2, SameTables DEF SameGone
<1>7. RequestFits(q)'
  BY <1>2, <1>3, <1>4, <1>5, <1>6, SettledRequest
<1>8. \A t \in Token, x \in Slot : UseFits(t, x)'
  BY <1>2, <1>3, <1>6, KeptUses DEF Using
<1> QED BY <1>2, <1>3, <1>4, <1>6, <1>7, <1>8, SettledFits

LEMMA LogLoginFits ==
  ASSUME TypeOK, InFlight, TokenUser, NEW s \in Slot, LogLogin(s)
  PROVE  InFlight' /\ TokenUser'
<1>1. CASE Refused(s)
  BY <1>1, RefusedFits
<1>2. CASE ~Refused(s)
  <2>1. PICK q, r : r = req[s] /\ q = [r EXCEPT !.pc = "issue_refresh", !.then = "idle"]
    OBVIOUS
  <2>2. /\ r \in Request /\ r.pc = "log_login" /\ r.user \in Account /\ RequestFits(r)
        /\ Become(s, q) /\ UNCHANGED <<status, row, session, parent, uses>>
    BY <1>2, <2>1 DEF LogLogin, Goto, TypeOK, InFlight, ghosts
  <2>3. /\ q \in Request /\ q.pc = "issue_refresh" /\ q.user = r.user /\ q.token = r.token
        /\ q.doomed = r.doomed
    BY <2>1, <2>2 DEF Request, PC
  <2>4. Sound(q) /\ RequestFits(q) /\ q.pc \notin Using
    BY <2>2, <2>3 DEF Sound, Using, RequestFits, Presented, Rotated, Doomed
  <2>5. SameRows /\ SameGone
    BY <2>2, SameTables DEF SameGone
  <2>6. RequestFits(q)'
    BY <2>2, <2>3, <2>4, <2>5, SettledRequest
  <2>7. \A t \in Token, x \in Slot : UseFits(t, x)'
    BY <2>2, <2>4, <2>5, KeptUses
  <2> QED BY <2>2, <2>3, <2>4, <2>5, <2>6, <2>7, SettledFits
<1> QED BY <1>1, <1>2

LEMMA InsertUserFits ==
  ASSUME TypeOK, InFlight, TokenUser, NEW s \in Slot, InsertUser(s)
  PROVE  InFlight' /\ TokenUser'
<1>1. CASE Refused(s)
  BY <1>1, RefusedFits
<1>2. CASE ~Refused(s)
  <2>1. PICK a \in Account :
          /\ status[a] = "unused" /\ status' = [status EXCEPT ![a] = "live"]
          /\ Become(s, New("issue_verify", a, None, "issue_refresh"))
          /\ UNCHANGED <<row, session, parent, uses>>
    BY <1>2 DEF InsertUser, TypeOK, ghosts
  <2>2. SameRows /\ SameGone
    BY <2>1, SameTables DEF SameGone, TypeOK
  <2>3. "issue_verify" \in PC \ Using
    BY DEF PC, Using
  <2> QED BY <2>1, <2>2, <2>3, NewFits
<1> QED BY <1>1, <1>2

\* Nothing but the expiry of a row changes, or nothing at all.
LEMMA StillFits ==
  ASSUME TypeOK, InFlight, TokenUser, SameRows,
         UNCHANGED <<status, req, session, parent, uses>>
  PROVE  InFlight' /\ TokenUser'
<1>1. SameGone
  BY DEF SameGone
<1>2. ASSUME NEW x \in Slot PROVE RequestFits(req[x])'
  <2>1. PICK r : r = req[x]
    OBVIOUS
  <2>2. Sound(r) /\ RequestFits(r) /\ (r.token # None => r.user \in Account)
    BY <2>1, RequestsSound DEF InFlight, TokenUser
  <2> QED BY <1>1, <2>1, <2>2, SettledRequest DEF RequestFits
<1>3. ASSUME NEW t \in Token PROVE TokenFits(t)'
  BY SettledToken DEF InFlight
<1>4. ASSUME NEW t \in Token, NEW x \in Slot PROVE UseFits(t, x)'
  <2>1. UseFits(t, x)
    BY DEF InFlight
  <2> QED BY <2>1 DEF UseFits, SameRows, Rows
<1> QED BY <1>2, <1>3, <1>4 DEF InFlight, TokenUser

LEMMA ExpireRows ==
  ASSUME TypeOK, NEW t \in Token, Expire(t)
  PROVE  /\ SameRows /\ UNCHANGED <<status, verified, req, session, parent, uses, broken>>
         /\ \A u \in Rows : row'[u].used = row[u].used
<1> DEFINE q == [row[t] EXCEPT !.expired = TRUE]
<1>1. t \in Rows /\ row[t] \in Stored
  BY StoredRows DEF Expire
<1>2. q \in Stored /\ q.kind = row[t].kind /\ q.user = row[t].user /\ q.used = row[t].used
  BY <1>1 DEF Stored
<1>3. row' = [row EXCEPT ![t] = q]
  BY DEF Expire
<1> HIDE DEF q
<1>4. row'[t] = q /\ \A u \in Token \ {t} : row'[u] = row[u]
  BY <1>3 DEF TypeOK
<1>5. row[t] # Unissued /\ q # Unissued
  BY <1>1, <1>2, RowTypes
<1>6. SameRows
  BY <1>1, <1>2, <1>4, <1>5 DEF SameRows, Rows
<1>7. \A u \in Rows : row'[u].used = row[u].used
  BY <1>2, <1>4 DEF Rows
<1> QED BY <1>6, <1>7 DEF Expire, ghosts

LEMMA InitFits == Init => InFlight /\ TokenUser
<1> SUFFICES ASSUME Init PROVE InFlight /\ TokenUser
  OBVIOUS
<1>1. Rows = {}
  BY RowTypes DEF Init, Rows
<1>2. \A s \in Slot : req[s] = Idle
  BY DEF Init
<1>3. \A t \in Token : session[t] = None /\ \A s \in Slot : uses[t][s] = 0
  BY DEF Init
<1> QED BY <1>1, <1>2, <1>3, IdleFits, IdleType DEF InFlight, TokenUser, TokenFits,
                                                    UseFits

Held == TypeOK /\ InFlight /\ TokenUser

LEMMA FitsStep == Held /\ [Next]_vars => Held'
<1> SUFFICES ASSUME Held, [Next]_vars PROVE Held'
  OBVIOUS
<1> USE DEF Held
<1>1. CASE UNCHANGED vars
  <2>1. SameRows
    BY <1>1, SameTables DEF vars
  <2>2. TypeOK'
    BY <1>1 DEF vars, TypeOK
  <2> QED BY <1>1, <2>1, <2>2, StillFits DEF vars
<1>2. ASSUME NEW t \in Token, Expire(t) PROVE Held'
  BY <1>2, ExpireType, ExpireRows, StillFits
<1>3. ASSUME NEW s \in Slot, Arrive(s) \/ Commit(s) \/ Abort(s)
      PROVE  Held'
  <2>1. CASE Arrive(s)
    BY <2>1, StepType, ArriveFits
  <2>2. CASE Abort(s)
    BY <2>2, StepType, EndFits, SameTables DEF Abort, SameGone
  <2>3. CASE IssueVerify(s) \/ IssueReset(s) \/ IssueRefresh(s)
    <3>1. req[s].pc \notin Using \cup {"idle"} /\ \E kind \in Kind : Issue(s, kind)
      BY <2>3 DEF IssueVerify, IssueReset, IssueRefresh, Using
    <3> QED BY <2>3, <3>1, StepType, IssueFits DEF Commit
  <2>4. CASE Commit(s) /\ ~(IssueVerify(s) \/ IssueReset(s) \/ IssueRefresh(s))
    BY <2>4, StepType, InsertUserFits, LogLoginFits, CommitUseFits, SweepFits,
       PurgeFits DEF Commit
  <2> QED BY <1>3, <2>1, <2>2, <2>3, <2>4
<1> QED BY <1>1, <1>2, <1>3 DEF Next

LEMMA AlwaysHeld == Spec => []Held
<1>1. Init => Held
  BY InitType, InitFits DEF Held
<1> QED BY <1>1, FitsStep, PTL DEF Spec

\* What a request read stays true of the rows it will write, whatever other
\* requests commit before it does.
THEOREM Fitting == Spec => []InFlight
<1>1. Held => InFlight
  BY DEF Held
<1> QED BY <1>1, AlwaysHeld, PTL

-----------------------------------------------------------------------------
(* What a step does to the rows is one of four things. *)

Others(s) == \A x \in Slot \ {s} : req'[x] = req[x]

\* Nothing, and no rotation is given up unless it is recorded.
Quiet(s) ==
  /\ UNCHANGED <<verified, row, session, parent, uses>>
  /\ \A a \in Account : Live(a) => Live(a)'
  /\ broken \subseteq broken'
  /\ Others(s)
  /\ \/ req[s].pc # "issue_refresh" \/ req[s].token = None \/ ~Live(req[s].user)
     \/ session[req[s].token] \in broken'

Draws(s, t, kind, a, from) ==
  /\ Live(a) /\ from = req[s].token /\ Others(s)
  /\ req[s].pc = "issue_refresh" => kind = "refresh"
  /\ t \notin Rows /\ row[t] = Unissued
  /\ \A u \in Token : (u \in Rows)' <=> u \in Rows \/ u = t
  /\ \A u \in Token \ {t} : /\ row'[u] = row[u] /\ session'[u] = session[u]
                           /\ parent'[u] = parent[u]
  /\ row'[t].kind = kind /\ row'[t].user = a /\ ~row'[t].used
  /\ session'[t] = IF kind # "refresh" THEN None
                   ELSE IF from = None THEN t ELSE session[from]
  /\ parent'[t] = from
  /\ from # None => /\ from \in Rows /\ from # t
                    /\ row[from].user = a /\ row[from].used
                    /\ session[from] # t
  /\ UNCHANGED <<status, verified, uses, broken>>

Takes(s, a) ==
  /\ status' = [status EXCEPT ![a] = "gone"] /\ verified' = verified \ {a}
  /\ UNCHANGED <<session, parent, uses, broken>>
  /\ \A t \in Token : /\ (t \in Rows)' <=> t \in Rows /\ row[t].user # a
                      /\ (t \in Rows)' => row'[t] = row[t]
  /\ Others(s) /\ req[s].pc = "purge"

Marks(s) == /\ req[s].pc \in Using /\ Use(s) /\ Others(s)
            /\ IF req[s].pc = "use_verify"
               THEN verified' = verified \cup {req[s].user}
               ELSE UNCHANGED verified
            /\ req[s].pc = "revoke" => /\ req'[s].pc = "issue_refresh"
                                       /\ req'[s].token = req[s].token

LEMMA OthersStay == ASSUME TypeOK, NEW s \in Slot, Moves(s) PROVE Others(s)
  BY DEF Moves, Become, Others, TypeOK

LEMMA IssueEffect ==
  ASSUME Held, NEW s \in Slot, NEW kind \in Kind, Issue(s, kind), ~Refused(s),
         req[s].pc \notin Using \cup {"idle"}, Others(s),
         req[s].pc = "issue_refresh" => kind = "refresh"
  PROVE  \E t \in Token, a \in Account, from \in Token \cup {None} :
           Draws(s, t, kind, a, from)
<1> USE DEF Held, Using
<1>0. PICK a, from : a = req[s].user /\ from = req[s].token
  OBVIOUS
<1>1. PICK t \in Token : row[t] = Unissued /\ Issued(t, kind, a, from)
  BY <1>0 DEF Issue
<1>2. /\ Live(a) /\ a \in Account /\ from \in Token \cup {None}
      /\ UNCHANGED <<status, verified, uses, broken>>
  BY <1>0 DEF Issue, Referable, TypeOK, Request
<1>3. [kind |-> kind, user |-> a, used |-> FALSE, expired |-> FALSE] \in Stored
  BY <1>2 DEF Stored
<1>4. row' = [row EXCEPT ![t] = [kind |-> kind, user |-> a, used |-> FALSE,
                                 expired |-> FALSE]]
  BY <1>1 DEF Issued
<1>5. /\ row'[t].kind = kind /\ row'[t].user = a /\ ~row'[t].used
      /\ \A u \in Token \ {t} : row'[u] = row[u]
  BY <1>4 DEF TypeOK
<1>6. /\ \A u \in Token \ {t} : session'[u] = session[u] /\ parent'[u] = parent[u]
      /\ session'[t] = IF kind # "refresh" THEN None
                       ELSE IF from = None THEN t ELSE session[from]
      /\ parent'[t] = from
  BY <1>1 DEF Issued, TypeOK
<1>7. t \notin Rows /\ \A u \in Token : (u \in Rows)' <=> u \in Rows \/ u = t
  BY <1>1, <1>5, RowTypes DEF Rows
<1>8. from # None => /\ from \in Rows /\ row[from].user = a /\ row[from].used
                     /\ session[from] # t
  <2>1. RequestFits(req[s]) /\ (from \in Token => TokenFits(from))
    BY DEF InFlight
  <2> QED BY <1>0, <1>1, <1>2, <2>1 DEF RequestFits, Rotated, Live, TokenFits
<1>9. Draws(s, t, kind, a, from)
  BY <1>0, <1>1, <1>2, <1>5, <1>6, <1>7, <1>8 DEF Draws
<1> QED BY <1>2, <1>9

LEMMA Effects ==
  ASSUME Held, NEW s \in Slot, Arrive(s) \/ Commit(s) \/ Abort(s)
  PROVE  \/ Quiet(s) \/ Marks(s)
         \/ \E a \in Account : Takes(s, a)
         \/ \E t \in Token, kind \in Kind, a \in Account, from \in Token \cup {None} :
              Draws(s, t, kind, a, from)
<1> USE DEF Held
<1>0. Others(s)
  BY Steps, OthersStay
<1>1. ASSUME UNCHANGED <<status, verified, row, ghosts>>,
             req[s].pc # "issue_refresh" \/ ~Live(req[s].user)
      PROVE  Quiet(s)
  BY <1>0, <1>1 DEF Quiet, ghosts, Live
<1>2. CASE Arrive(s)
  BY <1>1, <1>2 DEF Arrive, Start, Signup, ForgotPassword, ResendVerification,
       DeleteAccount, Login, ResetPassword, VerifyEmail, Refresh
<1>3. CASE InsertUser(s)
  <2>1. CASE Refused(s)
    BY <1>1, <1>3, <2>1 DEF InsertUser, Refused
  <2>2. CASE ~Refused(s)
    <3>1. /\ status' = [status EXCEPT ![req[s].user] = "live"]
          /\ UNCHANGED <<verified, row, session, parent, uses, broken>>
          /\ req[s].pc = "insert_user"
      BY <1>3, <2>2 DEF InsertUser, ghosts
    <3>2. \A a \in Account : Live(a) => Live(a)'
      BY <3>1 DEF Live, TypeOK
    <3> QED BY <1>0, <3>1, <3>2 DEF Quiet
  <2> QED BY <2>1, <2>2
<1>4. CASE LogLogin(s) \/ Sweep(s)
  BY <1>1, <1>4 DEF LogLogin, Sweep, Refused
<1>5. ASSUME NEW kind \in Kind, Issue(s, kind),
             req[s].pc \notin Using \cup {"idle"},
             req[s].pc = "issue_refresh" => kind = "refresh"
      PROVE  \/ Quiet(s)
             \/ \E t \in Token, a \in Account, from \in Token \cup {None} :
                  Draws(s, t, kind, a, from)
  <2>1. CASE ~Refused(s)
    BY <1>0, <1>5, <2>1, IssueEffect
  <2>2. CASE Refused(s) /\ ~Referable(req[s].user)
    BY <1>1, <2>2 DEF Refused, Referable
  <2>3. CASE Referable(req[s].user) /\ Refused(s)
    <3>1. PICK t \in Token : row[t] = Unissued /\ Issued(t, kind, req[s].user, req[s].token)
      BY <1>5, <2>3 DEF Issue
    <3>2. row'[t] = row[t]
      BY <2>3 DEF Refused
    <3>3. row'[t].kind = kind
      BY <3>1 DEF Issued, TypeOK
    <3> QED BY <3>1, <3>2, <3>3, RowTypes
  <2> QED BY <2>1, <2>2, <2>3
<1>6. CASE IssueVerify(s) \/ IssueReset(s) \/ IssueRefresh(s)
  <2>1. PICK kind \in Kind : /\ Issue(s, kind) /\ req[s].pc \notin Using \cup {"idle"}
                             /\ req[s].pc = "issue_refresh" => kind = "refresh"
    BY <1>6 DEF IssueVerify, IssueReset, IssueRefresh, Using
  <2> QED BY <1>5, <2>1
<1>7. CASE UseReset(s) \/ UseVerify(s) \/ Revoke(s)
  <2>1. CASE Late(s)
    BY <1>1, <1>7, <2>1 DEF Late, Refused, UseReset, UseVerify, Revoke
  <2>2. CASE UseReset(s) /\ ~Late(s)
    BY <1>0, <2>2 DEF UseReset, Marks, Using
  <2>3. CASE UseVerify(s) /\ ~Late(s)
    BY <1>0, <2>3 DEF UseVerify, Marks, Using
  <2>4. CASE Revoke(s) /\ ~Late(s)
    <3>1. req[s] \in Request /\ req[s].pc = "revoke"
      BY <2>4 DEF Revoke, TypeOK
    <3>2. req'[s] = [req[s] EXCEPT !.pc = "issue_refresh", !.then = "idle"]
      BY <2>4 DEF Revoke, Goto, Become, TypeOK
    <3>3. req'[s].pc = "issue_refresh" /\ req'[s].token = req[s].token
      BY <3>1, <3>2 DEF Request
    <3> QED BY <1>0, <2>4, <3>1, <3>3 DEF Revoke, Marks, Using
  <2> QED BY <1>7, <2>1, <2>2, <2>3, <2>4
<1>8. CASE Purge(s)
  <2>1. CASE Refused(s)
    BY <1>1, <1>8, <2>1 DEF Purge, Refused
  <2>2. CASE ~Refused(s)
    BY <1>0, <1>8, <2>2, PurgeTakes DEF Takes, Purge
  <2> QED BY <2>1, <2>2
<1>9. CASE Abort(s)
  BY <1>0, <1>9 DEF Abort, Quiet, Live
<1> QED BY <1>2, <1>3, <1>4, <1>6, <1>7, <1>8, <1>9 DEF Commit

-----------------------------------------------------------------------------
(* The safety properties. *)

LEMMA InitRows == Init => Rows = {} /\ verified = {} /\ \A t \in Token : session[t] = None
  BY RowTypes DEF Init, Rows

LEMMA UserType == ASSUME TypeOK PROVE \A t \in Rows : t \in Token /\ row[t].user \in Account
  BY StoredRows DEF Rows, Stored

LEMMA MarkedUser ==
  ASSUME Held, NEW s \in Slot, Marks(s)
  PROVE  LET t == req[s].token
         IN  /\ t \in Rows /\ row[t].user = req[s].user /\ row[t].kind = KindOf[req[s].pc]
             /\ SameRows /\ row'[t].used
             /\ \A u \in Token \ {t} : row'[u] = row[u]
             /\ UNCHANGED <<status, session, parent, broken>>
<1>1. RequestFits(req[s])
  BY DEF Held, InFlight
<1> QED BY <1>1, UseKeeps DEF Held, Marks, RequestFits, Presented

LEMMA OwnersStep == Held /\ OwnersLive /\ [Next]_vars => OwnersLive'
<1> SUFFICES ASSUME Held, OwnersLive, [Next]_vars, NEW t \in Token, (t \in Rows)'
             PROVE  status'[row'[t].user] = "live"
  BY DEF OwnersLive, Rows, Live
<1> USE DEF OwnersLive, Live
<1>0. TypeOK /\ \A u \in Rows : u \in Token /\ row[u].user \in Account
  BY UserType DEF Held
<1>1. CASE UNCHANGED vars
  BY <1>0, <1>1 DEF vars, Rows
<1>2. ASSUME NEW x \in Token, Expire(x)
      PROVE  status'[row'[t].user] = "live"
  BY <1>0, <1>2, ExpireRows DEF SameRows
<1>3. ASSUME NEW s \in Slot, Quiet(s)
      PROVE  status'[row'[t].user] = "live"
  BY <1>0, <1>3 DEF Quiet, Rows
<1>4. ASSUME NEW s \in Slot, Marks(s)
      PROVE  status'[row'[t].user] = "live"
  BY <1>0, <1>4, MarkedUser DEF SameRows
<1>5. ASSUME NEW s \in Slot, NEW a \in Account, Takes(s, a)
      PROVE  status'[row'[t].user] = "live"
  BY <1>0, <1>5 DEF Takes, TypeOK
<1>6. ASSUME NEW s \in Slot, NEW x \in Token, NEW kind \in Kind, NEW a \in Account,
             NEW from \in Token \cup {None}, Draws(s, x, kind, a, from)
      PROVE  status'[row'[t].user] = "live"
  BY <1>0, <1>6 DEF Draws
<1> QED BY <1>1, <1>2, <1>3, <1>4, <1>5, <1>6, Effects DEF Next

\* No token outlives its user, however a deletion overlaps what is issued.
THEOREM Owned == Spec => []OwnersLive
<1>1. Init => OwnersLive
  BY InitRows DEF OwnersLive
<1> QED BY <1>1, OwnersStep, AlwaysHeld, PTL DEF Spec

LEMMA SingleStep == Held /\ SingleUse /\ [Next]_vars => SingleUse'
<1> SUFFICES ASSUME Held, SingleUse, [Next]_vars, NEW t \in Token, NEW x \in Slot
             PROVE  uses'[t][x] <= 1
  BY DEF SingleUse
<1>0. TypeOK /\ uses[t][x] \in Nat /\ uses[t][x] <= 1
  BY DEF Held, SingleUse, TypeOK
<1>1. CASE UNCHANGED vars
  BY <1>0, <1>1 DEF vars
<1>2. ASSUME NEW u \in Token, Expire(u) PROVE uses'[t][x] <= 1
  BY <1>0, <1>2, ExpireRows
<1>3. ASSUME NEW s \in Slot, Marks(s) PROVE uses'[t][x] <= 1
  <2>1. UseFits(t, x) /\ req[s].pc \in Using
    BY <1>3 DEF Held, InFlight, Marks
  <2>2. /\ \A u \in Token \ {req[s].token} : uses'[u] = uses[u]
        /\ uses'[req[s].token] = [uses[req[s].token] EXCEPT ![s] = @ + 1]
    BY <1>0, <1>3, UseKeeps DEF Marks
  <2>3. CASE t = req[s].token /\ x = s
    <3>1. uses[t][x] = 0
      BY <1>0, <2>1, <2>3 DEF UseFits
    <3>2. uses'[t][x] = 0 + 1
      BY <1>0, <2>2, <2>3, <3>1 DEF TypeOK
    <3> QED BY <3>2
  <2>4. CASE ~(t = req[s].token /\ x = s)
    <3>1. uses'[t][x] = uses[t][x]
      BY <1>0, <2>2, <2>4 DEF TypeOK
    <3> QED BY <1>0, <3>1
  <2> QED BY <2>3, <2>4
<1>4. ASSUME NEW s \in Slot, Arrive(s) \/ Commit(s) \/ Abort(s)
      PROVE  uses'[t][x] <= 1
  <2>1. Marks(s) \/ UNCHANGED uses
    BY <1>4, Effects DEF Quiet, Takes, Draws
  <2> QED BY <1>0, <1>3, <2>1
<1> QED BY <1>1, <1>2, <1>4 DEF Next

\* A slot uses a token at most once: with n overlapping requests a token is
\* accepted at most n times, and once by a server that runs one at a time.
THEOREM Single == Spec => []SingleUse
<1>1. Init => SingleUse
  BY DEF Init, SingleUse
<1> QED BY <1>1, SingleStep, AlwaysHeld, PTL DEF Spec

LEMMA GenerationStep == Held /\ OneGeneration /\ [Next]_vars => OneGeneration'
<1> SUFFICES ASSUME Held, OneGeneration, [Next]_vars, NEW t \in Token, (t \in Rows)',
                    parent'[t] # None
             PROVE  (parent[t] \in Rows)' /\ row'[parent'[t]].used
  BY DEF OneGeneration, Rows
<1>0. /\ TypeOK /\ parent[t] \in Token \cup {None} /\ TokenFits(t)
      /\ t \in Rows /\ parent[t] # None => parent[t] \in Rows /\ row[parent[t]].used
  BY DEF Held, OneGeneration, TypeOK, InFlight
<1> DEFINE Goal == (parent[t] \in Rows)' /\ row'[parent'[t]].used
<1>1. CASE UNCHANGED vars
  BY <1>0, <1>1 DEF vars, Rows
<1>2. ASSUME NEW x \in Token, Expire(x) PROVE Goal
  BY <1>0, <1>2, ExpireRows DEF SameRows, Rows
<1>3. ASSUME NEW s \in Slot, Quiet(s) PROVE Goal
  BY <1>0, <1>3 DEF Quiet, Rows
<1>4. ASSUME NEW s \in Slot, Marks(s) PROVE Goal
  BY <1>0, <1>4, MarkedUser DEF SameRows, Rows
<1>5. ASSUME NEW s \in Slot, NEW a \in Account, Takes(s, a) PROVE Goal
  <2>1. t \in Rows /\ row[t].user # a /\ parent' = parent
    BY <1>5 DEF Takes
  <2>2. parent[t] \in Rows /\ row[parent[t]].user # a /\ parent[t] \in Token
    BY <1>0, <2>1 DEF TokenFits, Rows
  <2>3. (parent[t] \in Rows)' /\ row'[parent[t]] = row[parent[t]]
    BY <1>5, <2>1, <2>2 DEF Takes, Rows
  <2> QED BY <1>0, <2>1, <2>2, <2>3
<1>6. ASSUME NEW s \in Slot, NEW x \in Token, NEW kind \in Kind, NEW a \in Account,
             NEW from \in Token \cup {None}, Draws(s, x, kind, a, from)
      PROVE  Goal
  <2>1. CASE t = x
    BY <1>6, <2>1 DEF Draws, Rows
  <2>2. CASE t # x
    <3>1. t \in Rows /\ parent'[t] = parent[t]
      BY <1>6, <2>2 DEF Draws
    <3>2. parent[t] \in Rows /\ parent[t] \in Token /\ parent[t] # x
      BY <1>0, <1>6, <3>1 DEF Draws, Rows
    <3> QED BY <1>0, <1>6, <3>1, <3>2 DEF Draws, Rows
  <2> QED BY <2>1, <2>2
<1> QED BY <1>1, <1>2, <1>3, <1>4, <1>5, <1>6, Effects DEF Next

\* Two generations of a session's tokens never both work, even if the
\* server dies between revoking the old one and issuing the new.
THEOREM Generations == Spec => []OneGeneration
<1>1. Init => OneGeneration
  BY InitRows DEF OneGeneration
<1> QED BY <1>1, GenerationStep, AlwaysHeld, PTL DEF Spec

Confirms(t, a) == t \in RowsOf(a) /\ row[t].kind = "verify" /\ row[t].used

LEMMA VerifiedStep == Held /\ VerifiedByLink /\ [Next]_vars => VerifiedByLink'
<1> SUFFICES ASSUME Held, VerifiedByLink, [Next]_vars, NEW b \in Account
             PROVE  b \in verified' <=> \E t \in Token : Confirms(t, b)'
  BY DEF VerifiedByLink, Confirms, RowsOf, Rows
<1> DEFINE Goal == b \in verified' <=> \E t \in Token : Confirms(t, b)'
<1>0. /\ TypeOK /\ \A u \in Rows : u \in Token /\ row[u].user \in Account
      /\ b \in verified <=> \E t \in Token : Confirms(t, b)
  BY UserType DEF Held, VerifiedByLink, Confirms, RowsOf, Rows
\* Only rows that come, go or are marked matter.
<1>same. ASSUME NEW t \in Token, (t \in Rows)' <=> t \in Rows,
                t \in Rows => /\ row'[t].kind = row[t].kind
                             /\ row'[t].user = row[t].user
                             /\ row'[t].used = row[t].used
         PROVE  Confirms(t, b)' <=> Confirms(t, b)
  BY <1>same DEF Confirms, RowsOf
<1>1. CASE UNCHANGED vars
  BY <1>0, <1>1 DEF vars, Confirms, RowsOf, Rows
<1>2. ASSUME NEW x \in Token, Expire(x) PROVE Goal
  <2>1. \A t \in Token : Confirms(t, b)' <=> Confirms(t, b)
    BY <1>0, <1>2, <1>same, ExpireRows DEF SameRows
  <2> QED BY <1>0, <1>2, <2>1, ExpireRows
<1>3. ASSUME NEW s \in Slot, Quiet(s) PROVE Goal
  BY <1>0, <1>3 DEF Quiet, Confirms, RowsOf, Rows
<1>4. ASSUME NEW s \in Slot, Marks(s) PROVE Goal
  <2>0. PICK u : u = req[s].token
    OBVIOUS
  <2>1. /\ u \in Rows /\ u \in Token /\ row[u].user = req[s].user
        /\ row[u].kind = KindOf[req[s].pc]
        /\ SameRows /\ row'[u].used /\ \A t \in Token \ {u} : row'[t] = row[t]
        /\ req[s].pc \in Using
    BY <1>0, <1>4, <2>0, MarkedUser DEF Marks
  <2>2. \A t \in Token \ {u} : Confirms(t, b)' <=> Confirms(t, b)
    BY <2>1, <1>same DEF SameRows
  <2>3. row[u].kind = "verify" <=> req[s].pc = "use_verify"
    BY <2>1 DEF Using, KindOf
  <2>4. Confirms(u, b)' <=> row[u].user = b /\ row[u].kind = "verify"
    BY <2>1 DEF Confirms, RowsOf, SameRows
  <2>5. Confirms(u, b) => row[u].user = b /\ row[u].kind = "verify"
    BY DEF Confirms, RowsOf
  <2> QED BY <1>0, <1>4, <2>1, <2>2, <2>3, <2>4, <2>5 DEF Marks
<1>5. ASSUME NEW s \in Slot, NEW a \in Account, Takes(s, a) PROVE Goal
  <2>1. CASE a = b
    BY <1>5, <2>1 DEF Takes, Confirms, RowsOf
  <2>2. CASE a # b
    <3>1. \A t \in Token : Confirms(t, b)' <=> Confirms(t, b)
      BY <1>5, <2>2 DEF Takes, Confirms, RowsOf
    <3> QED BY <1>0, <1>5, <2>2, <3>1 DEF Takes
  <2> QED BY <2>1, <2>2
<1>6. ASSUME NEW s \in Slot, NEW x \in Token, NEW kind \in Kind, NEW a \in Account,
             NEW from \in Token \cup {None}, Draws(s, x, kind, a, from)
      PROVE  Goal
  <2>1. ~Confirms(x, b) /\ ~Confirms(x, b)'
    BY <1>6 DEF Draws, Confirms, RowsOf
  <2>2. \A t \in Token \ {x} : Confirms(t, b)' <=> Confirms(t, b)
    BY <1>6, <1>same DEF Draws
  <2> QED BY <1>0, <1>6, <2>1, <2>2 DEF Draws
<1> QED BY <1>1, <1>2, <1>3, <1>4, <1>5, <1>6, Effects DEF Next

\* An account is verified exactly if a link sent to it has been used.
THEOREM Verified == Spec => []VerifiedByLink
<1>1. Init => VerifiedByLink
  BY InitRows DEF VerifiedByLink, RowsOf
<1> QED BY <1>1, VerifiedStep, AlwaysHeld, PTL DEF Spec

\* What keeps session r alive.
Fresh(t, r) == t \in Rows /\ session[t] = r /\ ~row[t].used
Rotating(s, r) == /\ req[s].pc = "issue_refresh" /\ req[s].token # None
                  /\ session[req[s].token] = r

LEMMA SessionStep ==
  Held /\ OwnersLive /\ SessionKept /\ [Next]_vars => SessionKept'
<1> SUFFICES ASSUME Held, OwnersLive, SessionKept, [Next]_vars, NEW r \in Token,
                    (r \in Rows)', session'[r] = r, r \notin broken'
             PROVE  \/ \E t \in Token : Fresh(t, r)'
                    \/ \E s \in Slot : Rotating(s, r)'
  BY DEF SessionKept, Fresh, Rotating, Rows
<1> DEFINE Goal == \/ \E t \in Token : Fresh(t, r)'
                   \/ \E s \in Slot : Rotating(s, r)'
<1>0. /\ TypeOK
      /\ \A u \in Rows : u \in Token /\ row[u].user \in Account /\ Live(row[u].user)
      /\ r \in Rows /\ session[r] = r /\ r \notin broken =>
           (\E t \in Token : Fresh(t, r)) \/ \E s \in Slot : Rotating(s, r)
  BY UserType DEF Held, OwnersLive, SessionKept, Fresh, Rotating, Rows
<1>tok. \A s \in Slot : req[s].token \in Token \cup {None}
  BY <1>0 DEF TypeOK, Request
<1>1. CASE UNCHANGED vars
  BY <1>0, <1>1 DEF vars, Fresh, Rotating, Rows
<1>2. ASSUME NEW x \in Token, Expire(x) PROVE Goal
  <2>1. /\ UNCHANGED <<session, broken, req>>
        /\ \A t \in Token : /\ (t \in Rows)' <=> t \in Rows
                            /\ t \in Rows => row'[t].used = row[t].used
    BY <1>0, <1>2, ExpireRows DEF SameRows
  <2> QED BY <1>0, <2>1 DEF Fresh, Rotating
<1>3. ASSUME NEW s \in Slot, Quiet(s) PROVE Goal
  <2>1. /\ r \in Rows /\ session[r] = r /\ r \notin broken /\ UNCHANGED <<row, session>>
    BY <1>3 DEF Quiet, Rows
  <2>2. \A t \in Token : Fresh(t, r) => Fresh(t, r)'
    BY <2>1 DEF Fresh, Rows
  <2>3. \A x \in Slot \ {s} : Rotating(x, r) => Rotating(x, r)'
    BY <1>3, <2>1 DEF Rotating, Quiet, Others
  <2>4. ~Rotating(s, r)
    <3> SUFFICES ASSUME Rotating(s, r) PROVE FALSE
      OBVIOUS
    <3>1. ~Live(req[s].user)
      BY <1>3 DEF Quiet, Rotating
    <3>2. row[r].user = req[s].user
      <4>1. RequestFits(req[s])
        BY DEF Held, InFlight
      <4> QED BY <2>1, <4>1 DEF RequestFits, Rotated, Rotating, Using
    <3> QED BY <1>0, <2>1, <3>1, <3>2
  <2> QED BY <1>0, <2>1, <2>2, <2>3, <2>4
<1>4. ASSUME NEW s \in Slot, Marks(s) PROVE Goal
  <2>1. PICK u : u = req[s].token
    OBVIOUS
  <2>2. /\ u \in Rows /\ u \in Token /\ row[u].kind = KindOf[req[s].pc]
        /\ SameRows /\ \A t \in Token \ {u} : row'[t] = row[t]
        /\ UNCHANGED <<session, broken>> /\ req[s].pc \in Using /\ u # None
    BY <1>0, <1>4, <2>1, MarkedUser DEF Marks
  <2>3. r \in Rows
    BY <2>2 DEF SameRows
  <2>4. \A t \in Token \ {u} : Fresh(t, r) => Fresh(t, r)'
    BY <2>2 DEF Fresh, SameRows
  <2>5. \A x \in Slot : Rotating(x, r) => Rotating(x, r)'
    BY <1>4, <2>2 DEF Rotating, Marks, Others, Using
  <2>6. Fresh(u, r) => Rotating(s, r)'
    <3> SUFFICES ASSUME Fresh(u, r) PROVE Rotating(s, r)'
      OBVIOUS
    <3>1. TokenFits(u)
      BY <2>2 DEF Held, InFlight
    <3>2. row[u].kind = "refresh"
      BY <2>2, <3>1 DEF Fresh, TokenFits
    <3>3. req[s].pc = "revoke"
      BY <2>2, <3>2 DEF KindOf, Using
    <3> QED BY <1>4, <2>1, <2>2, <3>3 DEF Marks, Rotating, Fresh
  <2> QED BY <1>0, <2>2, <2>3, <2>4, <2>5, <2>6
<1>5. ASSUME NEW s \in Slot, NEW a \in Account, Takes(s, a) PROVE Goal
  <2>1. r \in Rows /\ row[r].user # a /\ UNCHANGED <<session, broken>>
    BY <1>5 DEF Takes
  <2>2. \A t \in Token : Fresh(t, r) => Fresh(t, r)'
    <3> SUFFICES ASSUME NEW t \in Token, Fresh(t, r) PROVE Fresh(t, r)'
      OBVIOUS
    <3>1. row[t].user = row[r].user
      <4>1. TokenFits(t)
        BY DEF Held, InFlight
      <4> QED BY <2>1, <4>1 DEF TokenFits, Fresh
    <3> QED BY <1>5, <2>1, <3>1 DEF Takes, Fresh
  <2>3. \A x \in Slot : Rotating(x, r) => Rotating(x, r)'
    BY <1>5, <2>1 DEF Rotating, Takes, Others
  <2> QED BY <1>0, <2>1, <2>2, <2>3
<1>6. ASSUME NEW s \in Slot, NEW x \in Token, NEW kind \in Kind, NEW a \in Account,
             NEW from \in Token \cup {None}, Draws(s, x, kind, a, from)
      PROVE  Goal
  <2>1. CASE session'[x] = r
    BY <1>6, <2>1 DEF Draws, Fresh
  <2>2. CASE session'[x] # r
    <3>1. r # x /\ r \in Rows /\ session[r] = r /\ broken' = broken
      BY <1>6, <2>2 DEF Draws
    <3>2. \A t \in Token : Fresh(t, r) => Fresh(t, r)'
      BY <1>6 DEF Draws, Fresh
    <3>3. ~Rotating(s, r)
      BY <1>6, <2>2 DEF Draws, Rotating
    <3>4. \A y \in Slot \ {s} : Rotating(y, r) => Rotating(y, r)'
      <4> SUFFICES ASSUME NEW y \in Slot \ {s}, Rotating(y, r) PROVE Rotating(y, r)'
        OBVIOUS
      <4>1. RequestFits(req[y]) /\ row[x] = Unissued
        BY <1>6 DEF Held, InFlight, Draws
      <4>2. req[y].token # x /\ req'[y] = req[y] /\ req[y].token \in Token
        BY <1>6, <1>tok, <4>1 DEF RequestFits, Rotating, Draws, Others
      <4> QED BY <1>6, <4>2 DEF Rotating, Draws
    <3> QED BY <1>0, <3>1, <3>2, <3>3, <3>4
  <2> QED BY <2>1, <2>2
<1> QED BY <1>1, <1>2, <1>3, <1>4, <1>5, <1>6, Effects DEF Next

\* Unless one of its rotations died half-way, a session has a token that has
\* not been used, or a request about to issue one: overlaps alone end none.
THEOREM Sessions == Spec => []SessionKept
<1>1. Init => SessionKept
  BY InitRows DEF SessionKept
<1>2. Init => OwnersLive
  BY InitRows DEF OwnersLive
<1> QED BY <1>1, <1>2, OwnersStep, SessionStep, AlwaysHeld, PTL DEF Spec
=============================================================================
