----------------------------- MODULE AuthTokens -----------------------------
(***************************************************************************)
(* The tokens an account lives by: refresh tokens, which rotate, and the   *)
(* single-use links of password reset and email verification.              *)
(*                                                                         *)
(* All three are the same kind of row: a hash, an owner, an expiry and a   *)
(* mark set when the token is used.  A handler reads the row, awaits, sets *)
(* the mark in one commit, and issues what the caller gets in return in    *)
(* another.  The mark is not looked at again when it is set, so requests   *)
(* that have read an unused token may all use it; what holds regardless of *)
(* such overlaps is stated below.  A request is a process whose steps are  *)
(* its commits; between two of them others run, or it dies.                *)
(*                                                                         *)
(* Who an account's shared rows go to is the subject of SharedIdentity;    *)
(* the commits of signup and deletion that only touch those are left out.  *)
(* Failed and successful logins are rows swept with the tokens: one that   *)
(* is inserted late refuses a deletion, which here is an Abort of it.      *)
(***************************************************************************)
EXTENDS Naturals, FiniteSets

CONSTANTS Account,      \* users.id values, each drawn by one signup
          Email, EmailOf,
          Token,        \* token values, each drawn once
          Slot,         \* requests the server runs at the same time
          RequireVerification,  \* settings.require_email_verification
          MaxExpired,   \* bound: tokens that expire
          None

ASSUME EmailsAssumption == EmailOf \in [Account -> Email]
ASSUME NoneAssumption == None \notin Account \cup Token
ASSUME SettingAssumption == RequireVerification \in BOOLEAN /\ MaxExpired \in Nat

VARIABLES status,       \* status[a]: "unused", "live" or "gone"
          verified,     \* accounts with users.is_verified
          row,          \* row[t]: the row that stores token t
          req,          \* req[s]: the request in slot s
          session,      \* not stored: the login (or signup, reset) t descends
          parent,       \*   from, and the token it was issued for
          uses,         \* not stored: how often the requests in s used t
          broken        \* not stored: sessions whose rotation died half-way

vars == <<status, verified, row, req, session, parent, uses, broken>>
ghosts == <<session, parent, uses, broken>>

Kind == {"refresh", "reset", "verify"}
\* used: used_at or revoked_at is set.
Stored == [kind : Kind, user : Account, used : BOOLEAN, expired : BOOLEAN]
Unissued == [kind |-> "none"]
Deleted == [kind |-> "gone"]
Rows == {t \in Token : row[t].kind \in Kind}
RowsOf(a) == {t \in Rows : row[t].user = a}

PC == {"idle", "insert_user", "log_login", "issue_verify", "issue_reset",
       "issue_refresh", "use_reset", "use_verify", "revoke", "sweep", "purge"}
\* user: whom the request is about.  token: the one presented.  then: what
\* follows the next step.  doomed: the rows a deletion has deleted so far.
Request == [pc : PC, user : Account \cup {None}, token : Token \cup {None},
            then : {"idle", "issue_refresh"}, doomed : SUBSET Token]
Idle == [pc |-> "idle", user |-> None, token |-> None, then |-> "idle",
         doomed |-> {}]
Using == {"use_reset", "use_verify", "revoke"}

TypeOK == /\ status \in [Account -> {"unused", "live", "gone"}]
          /\ verified \in SUBSET Account
          /\ row \in [Token -> Stored \cup {Unissued, Deleted}]
          /\ req \in [Slot -> Request]
          /\ session \in [Token -> Token \cup {None}]
          /\ parent \in [Token -> Token \cup {None}]
          /\ uses \in [Token -> [Slot -> Nat]]
          /\ broken \in SUBSET (Token \cup {None})
          /\ \A s \in Slot : /\ req[s].pc # "idle" => req[s].user \in Account
                             /\ req[s].pc \in Using => req[s].token \in Token

Init == /\ status = [a \in Account |-> "unused"]
        /\ verified = {}
        /\ row = [t \in Token |-> Unissued]
        /\ req = [s \in Slot |-> Idle]
        /\ session = [t \in Token |-> None]
        /\ parent = [t \in Token |-> None]
        /\ uses = [t \in Token |-> [s \in Slot |-> 0]]
        /\ broken = {}

-----------------------------------------------------------------------------
(* Queries, and the request in a slot. *)

Live(a) == status[a] = "live"
LiveAt(e) == {a \in Account : EmailOf[a] = e /\ Live(a)}    \* get_by_email

\* get_current_user.  Every access token is handed out with a refresh token.
Authenticated(a) == Live(a) /\ \E t \in RowsOf(a) : row[t].kind = "refresh"

\* Mutated form of Usable: the mark is not looked at.
UsableAgain(t, kind) == row[t].kind = kind /\ ~row[t].expired

\* The token is found, has not been used and has not expired.
Usable(t, kind) == row[t].kind = kind /\ ~row[t].used /\ ~row[t].expired

Become(s, q) == req' = [req EXCEPT ![s] = q]

\* The request begins: what it reads before its first commit.
New(pc, a, t, then) == [Idle EXCEPT !.pc = pc, !.user = a, !.token = t,
                                    !.then = then]
Start(s, pc, a, t, then) ==
  /\ req[s].pc = "idle"
  /\ Become(s, New(pc, a, t, then))
  /\ UNCHANGED <<status, verified, row, ghosts>>

Goto(s, pc) == Become(s, [req[s] EXCEPT !.pc = pc, !.then = "idle"])
End(s) == Become(s, Idle)

\* A refused step changes nothing but its request.
Refused(s) == End(s) /\ UNCHANGED <<status, verified, row, ghosts>>

\* A deletion holds the rows it has deleted until it commits.
Locked(t) == \E s \in Slot : t \in req[s].doomed

-----------------------------------------------------------------------------
(* Signup and login. *)

Signup(s, a) == /\ status[a] = "unused" /\ LiveAt(EmailOf[a]) = {}
                /\ Start(s, "insert_user", a, None, "idle")

InsertUser(s) ==
  /\ req[s].pc = "insert_user"
  /\ LET a == req[s].user
     IN  \/ /\ status[a] = "unused" /\ LiveAt(EmailOf[a]) = {}
            /\ status' = [status EXCEPT ![a] = "live"]
            /\ Become(s, New("issue_verify", a, None, "issue_refresh"))
            /\ UNCHANGED <<verified, row, ghosts>>
         \/ /\ status[a] # "unused" \/ LiveAt(EmailOf[a]) # {}
            /\ Refused(s)                               \* users.email is unique

\* The password is right or not.  An account that has to be verified first
\* is told so after the attempt has been recorded.
Login(s, a, right) ==
  /\ Live(a)
  /\ Start(s, "log_login", a, None,
           IF right /\ (RequireVerification => a \in verified)
           THEN "issue_refresh" ELSE "idle")

\* The login event names the user, who may have gone meanwhile.
LogLogin(s) ==
  /\ req[s].pc = "log_login"
  /\ IF Live(req[s].user) /\ req[s].then = "issue_refresh"
     THEN /\ Goto(s, "issue_refresh")
          /\ UNCHANGED <<status, verified, row, ghosts>>
     ELSE Refused(s)

-----------------------------------------------------------------------------
(* Issuing: an insert and a commit, with a foreign key to the user. *)

\* from is the token it is issued for: its parent, if it is a refresh token.
Issued(t, kind, a, from) ==
  /\ row' = [row EXCEPT ![t] = [kind |-> kind, user |-> a, used |-> FALSE,
                                expired |-> FALSE]]
  /\ session' = [session EXCEPT ![t] = IF kind # "refresh" THEN None
                                       ELSE IF from = None THEN t
                                       ELSE session[from]]
  /\ parent' = [parent EXCEPT ![t] = from]

\* Mutated form of Referable: a column without the foreign key.
Anybody(a) == TRUE

Referable(a) == Live(a)

Issue(s, kind) ==
  LET a == req[s].user
  IN  \/ /\ Referable(a)
         /\ \E t \in Token : row[t] = Unissued /\ Issued(t, kind, a, req[s].token)
         /\ IF req[s].then = "idle" THEN End(s) ELSE Goto(s, req[s].then)
         /\ UNCHANGED <<status, verified, uses, broken>>
      \/ ~Referable(a) /\ Refused(s)

IssueVerify(s) == req[s].pc = "issue_verify" /\ Issue(s, "verify")
IssueReset(s) == req[s].pc = "issue_reset" /\ Issue(s, "reset")
\* _issue_token_pair
IssueRefresh(s) == req[s].pc = "issue_refresh" /\ Issue(s, "refresh")

ForgotPassword(s, a) == Live(a) /\ Start(s, "issue_reset", a, None, "idle")

\* Also without a session, for the address of the account.
ResendVerification(s, a) == /\ Live(a) /\ a \notin verified
                            /\ Start(s, "issue_verify", a, None, "idle")

-----------------------------------------------------------------------------
(* Using a token. *)

\* Mutated forms of Marked: the mark is forgotten; every token of the user
\* is revoked with the one presented.
Unmarked(t) == row
AllMarked(t) == [u \in Token |-> IF u \in RowsOf(row[t].user)
                                 THEN [row[u] EXCEPT !.used = TRUE] ELSE row[u]]

Marked(t) == [row EXCEPT ![t].used = TRUE]

\* Mutated form of Owner: the user is looked up by the key of the token.
OwnerByKey(t) == t

\* The user whom the row names.
Owner(t) == row[t].user

\* The row is written by its key; one that a deletion took is an error.
Use(s) == LET t == req[s].token
          IN  /\ t \in Rows /\ ~Locked(t)
              /\ row' = Marked(t)
              /\ uses' = [uses EXCEPT ![t][s] = @ + 1]
              /\ UNCHANGED <<status, session, parent, broken>>
Late(s) == req[s].token \notin Rows /\ Refused(s)

ResetPassword(s, t) ==
  Usable(t, "reset") /\ Start(s, "use_reset", Owner(t), t, "idle")

\* The new password and the mark in one commit; then a session of its own.
UseReset(s) ==
  /\ req[s].pc = "use_reset"
  /\ \/ /\ Use(s)
        /\ Become(s, New("issue_refresh", req[s].user, None, "idle"))
        /\ UNCHANGED verified
     \/ Late(s)

VerifyEmail(s, t) ==
  Usable(t, "verify") /\ Start(s, "use_verify", Owner(t), t, "idle")

UseVerify(s) ==
  /\ req[s].pc = "use_verify"
  /\ \/ /\ Use(s)
        /\ verified' = verified \cup {req[s].user}
        /\ End(s)
     \/ Late(s)

Refresh(s, t) ==
  Usable(t, "refresh") /\ Start(s, "revoke", Owner(t), t, "idle")

\* Rotation: the presented token is revoked, then the next one issued.
Revoke(s) ==
  /\ req[s].pc = "revoke"
  /\ \/ Use(s) /\ Goto(s, "issue_refresh") /\ UNCHANGED verified
     \/ Late(s)

-----------------------------------------------------------------------------
(* DELETE /auth/me: the rows, table by table, and the user in one commit.  *)

\* The password is right.
DeleteAccount(s, a) == Authenticated(a) /\ Start(s, "sweep", a, None, "idle")

\* A row that another deletion has already deleted is waited for.
Sweep(s) ==
  /\ req[s].pc = "sweep"
  /\ LET own == RowsOf(req[s].user)
     IN  /\ \A t \in own : ~Locked(t)
         /\ Become(s, [req[s] EXCEPT !.pc = "purge", !.doomed = own])
  /\ UNCHANGED <<status, verified, row, ghosts>>

\* The user is still referenced by a row inserted after the sweep, and
\* stays with all rows; or goes with them.
Purge(s) ==
  /\ req[s].pc = "purge"
  /\ LET a == req[s].user
     IN  \/ /\ Live(a) /\ RowsOf(a) \subseteq req[s].doomed
            /\ status' = [status EXCEPT ![a] = "gone"]
            /\ verified' = verified \ {a}
            /\ row' = [t \in Token |-> IF t \in req[s].doomed THEN Deleted
                                                              ELSE row[t]]
            /\ End(s)
            /\ UNCHANGED ghosts
         \/ ~(Live(a) /\ RowsOf(a) \subseteq req[s].doomed) /\ Refused(s)

-----------------------------------------------------------------------------
(* The environment, and the specification. *)

\* A restart, a lost connection, an exception.
Abort(s) ==
  /\ req[s].pc # "idle"
  /\ End(s)
  /\ broken' = IF req[s].pc = "issue_refresh" /\ req[s].token # None
               THEN broken \cup {session[req[s].token]} ELSE broken
  /\ UNCHANGED <<status, verified, row, session, parent, uses>>

Expire(t) == /\ t \in Rows /\ ~row[t].expired
             /\ Cardinality({u \in Rows : row[u].expired}) < MaxExpired
             /\ row' = [row EXCEPT ![t].expired = TRUE]
             /\ UNCHANGED <<status, verified, req, ghosts>>

Arrive(s) ==
  \/ \E a \in Account : \/ Signup(s, a) \/ ForgotPassword(s, a)
                        \/ ResendVerification(s, a) \/ DeleteAccount(s, a)
                        \/ \E right \in BOOLEAN : Login(s, a, right)
  \/ \E t \in Token : ResetPassword(s, t) \/ VerifyEmail(s, t) \/ Refresh(s, t)

Commit(s) == \/ InsertUser(s) \/ LogLogin(s)
             \/ IssueVerify(s) \/ IssueReset(s) \/ IssueRefresh(s)
             \/ UseReset(s) \/ UseVerify(s) \/ Revoke(s)
             \/ Sweep(s) \/ Purge(s)

Next == \/ \E s \in Slot : Arrive(s) \/ Commit(s) \/ Abort(s)
        \/ \E t \in Token : Expire(t)

Spec == Init /\ [][Next]_vars

-----------------------------------------------------------------------------
(* Properties.  All hold for every interleaving and every abort. *)

\* Every token that can still be presented belongs to a live account: a
\* deletion that a late token would outlive is refused as a whole ("either
\* all of it commits or none of it should").
OwnersLive == \A t \in Rows : Live(row[t].user)

\* No slot uses a token twice.  A server that runs one request at a time
\* thus accepts each token once; with n overlapping requests, at most n of
\* them, that had all read it before it was used, get past the mark.
SingleUse == \A t \in Token : \A s \in Slot : uses[t][s] <= 1

\* A refresh token comes to light only after the one it replaces has been
\* revoked, whatever dies in between: two generations never both work.
OneGeneration ==
  \A t \in Rows : parent[t] # None => /\ parent[t] \in Rows
                                      /\ row[parent[t]].used

\* An address counts as confirmed exactly if a link sent to it was used.
VerifiedByLink ==
  \A a \in Account :
    a \in verified <=> \E t \in RowsOf(a) : row[t].kind = "verify" /\ row[t].used

\* Nobody is logged out by an overlap: unless its rotation died half-way, a
\* session has a token that has not been used, or is about to be given one.
SessionKept ==
  \A r \in Rows :
    session[r] = r /\ r \notin broken =>
      \/ \E t \in Rows : session[t] = r /\ ~row[t].used
      \/ \E s \in Slot : /\ req[s].pc = "issue_refresh" /\ req[s].token # None
                         /\ session[req[s].token] = r

(* What they rest on: a request in flight still fits the rows it read. *)

\* Before the token of a request is used, its row, unless deleted, is of the
\* kind and the user that the request took it for.
KindOf == [use_reset |-> "reset", use_verify |-> "verify", revoke |-> "refresh"]
Presented(r) ==
  r.pc \in Using /\ r.token \in Rows => /\ row[r.token].user = r.user
                                        /\ row[r.token].kind = KindOf[r.pc]

\* After that it is marked, unless the user is gone.
Rotated(r) ==
  r.pc \notin Using /\ r.token # None =>
    /\ status[r.user] # "gone" => /\ r.token \in Rows
                                  /\ row[r.token].user = r.user
                                  /\ row[r.token].used
    /\ session[r.token] \in Rows => row[session[r.token]].user = r.user

Doomed(r) == \A t \in r.doomed : /\ row[t] # Unissued
                                 /\ t \in Rows => row[t].user = r.user

RequestFits(r) == /\ r.token # None => row[r.token] # Unissued
                  /\ Presented(r) /\ Rotated(r) /\ Doomed(r)

\* A session, and a token and its parent, belong to one user.
TokenFits(t) ==
  /\ session[t] # None => row[session[t]] # Unissued
  /\ t \in Rows =>
       /\ row[t].kind # "refresh" => session[t] = None
       /\ session[t] \in Rows => row[session[t]].user = row[t].user
       /\ parent[t] # None => /\ parent[t] \in Rows
                              /\ row[parent[t]].user = row[t].user

\* What a slot has used is marked, and is not what it is about to use.
UseFits(t, s) ==
  uses[t][s] > 0 => /\ t \in Rows => row[t].used
                    /\ row[t] # Unissued
                    /\ ~(req[s].pc \in Using /\ req[s].token = t)

InFlight == /\ \A s \in Slot : RequestFits(req[s])
            /\ \A t \in Token : TokenFits(t)
            /\ \A t \in Token, s \in Slot : UseFits(t, s)
=============================================================================
