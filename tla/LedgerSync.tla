----------------------------- MODULE LedgerSync -----------------------------
(***************************************************************************)
(* Backup sync: the devices of one account push and pull one encrypted     *)
(* blob (app/services/sync_service.py, app/routers/sync.py,                *)
(* app/repositories/encrypted_ledger_repository.py).                       *)
(*                                                                         *)
(* The blob is opaque to the server, so it is modelled by the set of edits *)
(* it holds.  A push is four steps, one per point where other requests may *)
(* run: authentication, the read and the version check, the write and its  *)
(* commit, and the refresh that fills the response.  PostgreSQL runs at    *)
(* READ COMMITTED and the row has neither a lock nor a version column the  *)
(* ORM checks, so nothing ties the write to the version that was checked.  *)
(***************************************************************************)
EXTENDS Naturals

CONSTANTS Device,       \* the clients signed in to this account
          Edit          \* the changes their users make

VARIABLES ledger,       \* the stored row; version 0 stands for no row
          alive,        \* the account's users row still exists
          local,        \* local[d]: the edits device d holds
          seen,         \* seen[d]: the version d last pulled or was told of
          push,         \* push[d]: the push request of d, if any
          acked         \* edits some device was told are backed up

vars == <<ledger, alive, local, seen, push, acked>>

NoRow == [version |-> 0, content |-> {}]
Idle == [pc |-> "idle", base |-> 0, content |-> {}]

Row == [version : Nat, content : SUBSET Edit]
Push == [pc : {"idle", "read", "write", "refresh"},
         base : Nat, content : SUBSET Edit]

TypeOK == /\ ledger \in Row
          /\ alive \in BOOLEAN
          /\ local \in [Device -> SUBSET Edit]
          /\ seen \in [Device -> Nat]
          /\ push \in [Device -> Push]
          /\ acked \in SUBSET Edit

Init == /\ ledger = NoRow
        /\ alive = TRUE
        /\ local = [d \in Device |-> {}]
        /\ seen = [d \in Device |-> 0]
        /\ push = [d \in Device |-> Idle]
        /\ acked = {}

HasRow == ledger.version # 0
InFlight == {d \in Device : push[d].pc # "idle"}

-----------------------------------------------------------------------------
(* The client, known here only by the requests it sends. *)

\* The user changes something on d; no two changes are the same edit.
LocalEdit(d) ==
  /\ \E e \in Edit \ UNION {local[x] : x \in Device} :
       local' = [local EXCEPT ![d] = @ \cup {e}]
  /\ UNCHANGED <<ledger, alive, seen, push, acked>>

\* GET /sync/pull, and the reconciliation the client does with the answer.
\* 404 when there is no row.
Pull(d) ==
  /\ alive /\ HasRow /\ push[d].pc = "idle"
  /\ local' = [local EXCEPT ![d] = @ \cup ledger.content]
  /\ seen' = [seen EXCEPT ![d] = ledger.version]
  /\ UNCHANGED <<ledger, alive, push, acked>>

-----------------------------------------------------------------------------
(* PUT /sync/push. *)

\* The request arrives and get_current_user finds the account.
PushStart(d) ==
  /\ alive /\ push[d].pc = "idle"
  /\ push' = [push EXCEPT ![d] = [pc |-> "read", base |-> seen[d],
                                  content |-> local[d]]]
  /\ UNCHANGED <<ledger, alive, local, seen, acked>>

\* Mutated form of Current, for the check that the properties can fail: the
\* comparison accepts every version that ever existed.
CurrentLoose(p) == p.base <= ledger.version

\* based_on_version names what is stored: 0 for no row, else its version.
Current(p) == p.base = ledger.version

PushRead(d) ==
  /\ push[d].pc = "read"
  /\ push' = [push EXCEPT ![d] = IF Current(push[d])
                                 THEN [@ EXCEPT !.pc = "write"]
                                 ELSE Idle]              \* 409
  /\ UNCHANGED <<ledger, alive, local, seen, acked>>

\* Mutated forms of Stored: the version skips one; it moves back.
StoredTwice(p) == [version |-> p.base + 2, content |-> p.content]
StoredBack(p) == [version |-> p.base - 1, content |-> p.content]

\* create() inserts version 1: refused by the primary key when a row has
\* appeared, by the foreign key when the user has gone.  update() writes the
\* version read plus one over whatever the row now holds: refused only when
\* the row has gone.
Stored(p) == [version |-> p.base + 1, content |-> p.content]
WriteAccepted(p) == IF p.base = 0 THEN ~HasRow /\ alive ELSE HasRow

PushWrite(d) ==
  /\ push[d].pc = "write"
  /\ \/ /\ WriteAccepted(push[d])
        /\ ledger' = Stored(push[d])
        /\ push' = [push EXCEPT ![d].pc = "refresh"]
     \/ /\ ~WriteAccepted(push[d])
        /\ push' = [push EXCEPT ![d] = Idle]             \* 500
        /\ UNCHANGED ledger
  /\ UNCHANGED <<alive, local, seen, acked>>

\* db.refresh(ledger) reads the row again, in a transaction of its own, and
\* the response carries the version found then.  It raises if the row has
\* gone.
PushRespond(d) ==
  /\ push[d].pc = "refresh"
  /\ push' = [push EXCEPT ![d] = Idle]
  /\ \/ /\ HasRow
        /\ seen' = [seen EXCEPT ![d] = ledger.version]
        /\ acked' = acked \cup push[d].content
     \/ ~HasRow /\ UNCHANGED <<seen, acked>>
  /\ UNCHANGED <<ledger, alive, local>>

\* The server stops or the connection breaks; the device learns nothing.
PushLost(d) ==
  /\ push[d].pc # "idle"
  /\ push' = [push EXCEPT ![d] = Idle]
  /\ UNCHANGED <<ledger, alive, local, seen, acked>>

\* delete_account removes the ledger row and the users row in one commit.
DeleteAccount ==
  /\ alive
  /\ alive' = FALSE
  /\ ledger' = NoRow
  /\ acked' = {}
  /\ UNCHANGED <<local, seen, push>>

-----------------------------------------------------------------------------
Step(d) == \/ LocalEdit(d) \/ Pull(d)
           \/ PushStart(d) \/ PushRead(d) \/ PushWrite(d)
           \/ PushRespond(d) \/ PushLost(d)

Next == DeleteAccount \/ \E d \in Device : Step(d)

Spec == Init /\ [][Next]_vars

\* The same system when its clients never have two pushes under way at once.
OneAtATime == \A d, x \in InFlight : d = x
SerialSpec == Init /\ [][Next /\ OneAtATime']_vars

-----------------------------------------------------------------------------
(* Properties. *)

\* What each request under way relies on when no other push overlaps it, and
\* what each device may rely on between requests: the reason the version
\* check is enough for SerialSpec.  Implies NoSilentLoss and AcceptedHasSeen.
PushHolds(d) ==
  LET p == push[d]
  IN  /\ p.pc # "idle" => p.base <= ledger.version /\ p.content \subseteq local[d]
      /\ p.pc = "read" /\ Current(p) => ledger.content \subseteq p.content
      /\ p.pc = "write" => Current(p) /\ ledger.content \subseteq p.content
      /\ p.pc = "refresh" => p.content = ledger.content

SerialInv ==
  /\ OneAtATime
  /\ ~HasRow => ledger.content = {}
  /\ acked \subseteq ledger.content
  /\ ~alive => ~HasRow
  /\ alive => \A d \in Device :
       /\ seen[d] <= ledger.version
       /\ seen[d] = ledger.version => ledger.content \subseteq local[d]
       /\ PushHolds(d)

\* What a device was told is backed up stays in the stored blob, whatever the
\* devices push afterwards ("no silent data loss", EncryptedLedger).
NoSilentLoss == HasRow => acked \subseteq ledger.content

\* A device that would pass the version check has seen every edit the stored
\* blob holds, so an accepted push cannot drop another device's edit.
AcceptedHasSeen ==
  alive /\ HasRow => \A d \in Device : seen[d] = ledger.version
                                         => ledger.content \subseteq local[d]

\* Versions only move forward while the account exists: a version number
\* names one content for good, which is all based_on_version relies on.
VersionForward == [][alive' => \/ ledger' = ledger
                               \/ ledger'.version = ledger.version + 1]_vars

\* The stored blob behaves as the abstract one: each push replaces exactly
\* the version before it and keeps its content.
Blob == INSTANCE VersionedBlob WITH version <- ledger.version,
                                    content <- ledger.content
Promise == Blob!Spec
=============================================================================
