-------------------------- MODULE MCSharedIdentity --------------------------
(***************************************************************************)
(* Instances of SharedIdentity for TLC.                                    *)
(***************************************************************************)
EXTENDS SharedIdentity, TLC

CONSTANTS a1, a2, a3, ann, bob

\* Everybody has one account, ever.
OneEach == (a1 :> ann) @@ (a2 :> bob)

\* Bob may delete his account and come back.
Returning == (a1 :> ann) @@ (a2 :> bob) @@ (a3 :> bob)

\* The slots are interchangeable.
AnySlot == Permutations(Slot)
=============================================================================
