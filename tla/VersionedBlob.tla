--------------------------- MODULE VersionedBlob ---------------------------
(***************************************************************************)
(* What the encrypted backup promises, with no devices and no requests:    *)
(* one blob per account, replaced as a whole.  Each replacement takes the  *)
(* next version number and carries everything the blob it replaces held,   *)
(* because a device may only replace a blob it has seen.                   *)
(***************************************************************************)
EXTENDS Naturals

CONSTANTS Edit          \* the units of data a blob may hold

VARIABLES version,      \* 0 while nothing is stored
          content       \* the edits the stored blob holds

Init == version = 0 /\ content = {}

\* A device stores a blob that extends the one it replaces.
Replace == /\ version' = version + 1
           /\ content' \in SUBSET Edit
           /\ content \subseteq content'

\* The account, and its blob with it, is deleted.
Remove == version' = 0 /\ content' = {}

Next == Replace \/ Remove

Spec == Init /\ [][Next]_<<version, content>>
=============================================================================
