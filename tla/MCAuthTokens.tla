---------------------------- MODULE MCAuthTokens ----------------------------
(***************************************************************************)
(* Instances of AuthTokens for TLC.                                        *)
(***************************************************************************)
EXTENDS AuthTokens, TLC

CONSTANTS a1, a2, ann

\* One person, who may delete the account and sign up again.
Returning == (a1 :> ann) @@ (a2 :> ann)

\* Slots are interchangeable, and so are tokens not yet drawn.
AnySlotOrToken == Permutations(Slot) \cup Permutations(Token)
=============================================================================
