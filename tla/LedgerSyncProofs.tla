-------------------------- MODULE LedgerSyncProofs --------------------------
(***************************************************************************)
(* Proofs about LedgerSync, for any devices and any edits.  Typing holds   *)
(* of every interleaving; the promise of the backup is proved for clients  *)
(* that never overlap two pushes (SerialSpec), through SerialInv.          *)
(***************************************************************************)
EXTENDS LedgerSync, TLAPS

LEMMA InitTyped == Init => TypeOK
BY DEF Init, TypeOK, NoRow, Idle, Row, Push

LEMMA NextTyped == TypeOK /\ [Next]_vars => TypeOK'
<1> SUFFICES ASSUME TypeOK, [Next]_vars PROVE TypeOK'
  OBVIOUS
<1> USE DEF TypeOK, Row, Push
<1>1. CASE UNCHANGED vars
  BY <1>1 DEF vars
<1>2. CASE DeleteAccount
  BY <1>2 DEF DeleteAccount, NoRow
<1>3. ASSUME NEW d \in Device, Step(d) PROVE TypeOK'
  <2>1. CASE LocalEdit(d)
    BY <2>1 DEF LocalEdit
  <2>2. CASE Pull(d)
    BY <2>2 DEF Pull
  <2>3. CASE PushStart(d)
    BY <2>3 DEF PushStart
  <2>4. CASE PushRead(d)
    BY <2>4 DEF PushRead, Idle
  <2>5. CASE PushWrite(d)
    BY <2>5 DEF PushWrite, Stored, Idle
  <2>6. CASE PushRespond(d)
    BY <2>6 DEF PushRespond, Idle
  <2>7. CASE PushLost(d)
    BY <2>7 DEF PushLost, Idle
  <2> QED
    BY <1>3, <2>1, <2>2, <2>3, <2>4, <2>5, <2>6, <2>7 DEF Step
<1> QED
  BY <1>1, <1>2, <1>3 DEF Next

\* Every state of every interleaving is typed.
THEOREM Typing == Spec => []TypeOK
BY InitTyped, NextTyped, PTL DEF Spec

-----------------------------------------------------------------------------
LEMMA SerialInit == Init => SerialInv
BY DEF Init, SerialInv, OneAtATime, InFlight, HasRow, NoRow, Idle, PushHolds

LEMMA SerialNext ==
  TypeOK /\ SerialInv /\ [Next /\ OneAtATime']_vars => SerialInv'
<1> SUFFICES ASSUME TypeOK, SerialInv, [Next /\ OneAtATime']_vars
             PROVE  SerialInv'
  OBVIOUS
<1> USE DEF SerialInv, HasRow, PushHolds, Current
<1>1. CASE UNCHANGED vars
  BY <1>1 DEF vars, OneAtATime, InFlight
<1>2. CASE DeleteAccount /\ OneAtATime'
  BY <1>2 DEF DeleteAccount, NoRow
<1>3. ASSUME NEW d \in Device, Step(d), OneAtATime' PROVE SerialInv'
  <2>1. CASE LocalEdit(d)
    BY <1>3, <2>1 DEF LocalEdit, TypeOK, Row, Push
  <2>2. CASE Pull(d)
    BY <1>3, <2>2 DEF Pull, TypeOK, Row, Push
  <2>3. CASE PushStart(d)
    BY <1>3, <2>3 DEF PushStart, TypeOK, Row, Push
  <2>4. CASE PushRead(d)
    BY <1>3, <2>4 DEF PushRead, Idle, TypeOK, Row, Push
  <2>5. CASE PushWrite(d)
    BY <1>3, <2>5
    DEF PushWrite, WriteAccepted, Stored, Idle, OneAtATime, InFlight,
        TypeOK, Row, Push
  <2>6. CASE PushRespond(d)
    BY <1>3, <2>6 DEF PushRespond, Idle, TypeOK, Row, Push
  <2>7. CASE PushLost(d)
    BY <1>3, <2>7 DEF PushLost, Idle, TypeOK, Row, Push
  <2> QED
    BY <1>3, <2>1, <2>2, <2>3, <2>4, <2>5, <2>6, <2>7 DEF Step
<1> QED
  BY <1>1, <1>2, <1>3 DEF Next

LEMMA SerialInvariant == SerialSpec => [](TypeOK /\ SerialInv)
<1>1. Init => TypeOK /\ SerialInv
  BY InitTyped, SerialInit
<1>2. TypeOK /\ SerialInv /\ [Next /\ OneAtATime']_vars
        => TypeOK' /\ SerialInv'
  BY NextTyped, SerialNext
<1> QED
  BY <1>1, <1>2, PTL DEF SerialSpec

\* As long as pushes do not overlap, no device has seen a version newer than
\* the row's, and a device that has seen the row's holds everything in it.
THEOREM SerialInductive == SerialSpec => []SerialInv
BY SerialInvariant, PTL

\* A push accepted from one device never drops what another was told is
\* backed up, as long as pushes do not overlap.
THEOREM NoLoss == SerialSpec => []NoSilentLoss
<1>1. SerialInv => NoSilentLoss
  BY DEF SerialInv, NoSilentLoss
<1> QED
  BY <1>1, SerialInvariant, PTL

\* Whoever passes the version check holds everything the stored blob holds.
THEOREM SeenBeforeAccepted == SerialSpec => []AcceptedHasSeen
<1>1. SerialInv => AcceptedHasSeen
  BY DEF SerialInv, AcceptedHasSeen
<1> QED
  BY <1>1, SerialInvariant, PTL

-----------------------------------------------------------------------------
LEMMA StepRefines ==
  TypeOK /\ SerialInv /\ [Next /\ OneAtATime']_vars
    => [Blob!Next]_<<ledger.version, ledger.content>>
<1> SUFFICES ASSUME TypeOK, SerialInv, [Next /\ OneAtATime']_vars
             PROVE  \/ Blob!Next
                    \/ UNCHANGED <<ledger.version, ledger.content>>
  OBVIOUS
<1>1. CASE UNCHANGED ledger
  BY <1>1
<1>2. CASE DeleteAccount
  BY <1>2 DEF DeleteAccount, NoRow, Blob!Next, Blob!Remove
<1>3. ASSUME NEW d \in Device, PushWrite(d), ledger' # ledger
      PROVE  Blob!Replace
  <2>1. /\ push[d].pc = "write"
        /\ ledger' = Stored(push[d])
        /\ WriteAccepted(push[d])
    BY <1>3 DEF PushWrite
  <2>2. alive
    BY <2>1 DEF SerialInv, WriteAccepted, HasRow
  <2>3. push[d].base = ledger.version /\ ledger.content \subseteq push[d].content
    BY <2>1, <2>2 DEF SerialInv, PushHolds, Current
  <2> QED
    BY <2>1, <2>3 DEF Stored, Blob!Replace, TypeOK, Row, Push
<1>4. ASSUME NEW d \in Device, Step(d), ledger' # ledger PROVE PushWrite(d)
  BY <1>4 DEF Step, LocalEdit, Pull, PushStart, PushRead, PushRespond, PushLost
<1> QED
  BY <1>1, <1>2, <1>3, <1>4 DEF Next, Blob!Next, vars

\* The implementation refines the abstract versioned blob.
THEOREM KeepsPromise == SerialSpec => Promise
<1>1. Init => Blob!Init
  BY DEF Init, NoRow, Blob!Init
<1> QED
  BY <1>1, StepRefines, SerialInvariant, PTL DEF SerialSpec, Promise, Blob!Spec

\* While pushes do not overlap, versions only move forward.
THEOREM Forward == SerialSpec => VersionForward
<1>1. ASSUME TypeOK, SerialInv, [Next /\ OneAtATime']_vars
      PROVE  [alive' => \/ ledger' = ledger
                        \/ ledger'.version = ledger.version + 1]_vars
  <2>1. SUFFICES ASSUME ledger' # ledger, alive', Next
                 PROVE  ledger'.version = ledger.version + 1
    BY <1>1 DEF vars
  <2>2. ~DeleteAccount
    BY <2>1 DEF DeleteAccount
  <2>3. PICK d \in Device : Step(d)
    BY <2>1, <2>2 DEF Next
  <2>4. PushWrite(d)
    BY <2>1, <2>3 DEF Step, LocalEdit, Pull, PushStart, PushRead, PushRespond, PushLost
  <2>5. push[d].pc = "write" /\ ledger' = Stored(push[d]) /\ alive
    BY <2>1, <2>4 DEF PushWrite
  <2>6. push[d].base = ledger.version
    BY <1>1, <2>5 DEF SerialInv, PushHolds, Current
  <2>7. QED
    BY <2>5, <2>6 DEF Stored
<1> QED
  BY <1>1, SerialInvariant, PTL DEF SerialSpec, VersionForward
=============================================================================
