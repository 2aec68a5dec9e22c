----------------------------- MODULE MCSlotSync -----------------------------
(* Small instances of SlotSync for TLC.                                    *)
EXTENDS SlotSync, TLC

CONSTANTS ann, bob, cid, a1, a2, b1, c1

\* Three users with a PIN each, for two slots.
ThreeUsers == <<ann, bob, cid>>
ThreeCreds == {a1, b1, c1}
OwnerOfThree == (a1 :> ann) @@ (b1 :> bob) @@ (c1 :> cid)

\* Two users, one of whom is given a second PIN.
TwoUsers == <<ann, bob>>
TwoUserCreds == {a1, a2, b1}
OwnerForTwo == (a1 :> ann) @@ (a2 :> ann) @@ (b1 :> bob)

\* Commands refused or broken off; a process that stops; a client that is offline
\* and swallows commands; and what makes the table forget. The three of the second
\* set are kept apart, since together they exceed what TLC can do.
BrokenPasses == {{"refuse", "throw"}}
CrashOrForget ==
    {{"refuse", "throw", "crash"}, {"offline"}, {"refuse", "revoke", "delete"}}

\* With what makes the table forget, no user is given a second PIN.
OnePinEach == "revoke" \in fault => a2 \in unborn
=============================================================================
