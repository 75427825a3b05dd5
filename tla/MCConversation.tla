--------------------------- MODULE MCConversation ---------------------------
(* A small instance of Conversation for TLC. *)
EXTENDS Conversation
CONSTANTS main, kid, r1, r2, r3, r4, r5

MCEarlier == <<r1, r2>>
MCThreeEarlier == <<r1, r2, r3>>

\* The runs yet to be minted are alike.
YetToMint == Permutations({r4, r5})
=============================================================================
