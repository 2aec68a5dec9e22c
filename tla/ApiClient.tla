----------------------------- MODULE ApiClient -----------------------------
(***************************************************************************)
(* The browser's side of the HTTP API: calls that are under way at the     *)
(* same time, each served by the server at some time after it was sent and *)
(* continued in the store that awaits it at some time after that.  Calls   *)
(* overtake one another on the way there and on the way back.  A call      *)
(* fails when an answer is not ok, and when the network loses it, before   *)
(* or after the server has carried it out.                                 *)
(***************************************************************************)
EXTENDS Sequences

CONSTANTS
    Request,    \* calls that may be under way at the same time; a bound
    Fails,      \* calls may get lost on the network
    Nothing     \* no parameter, no body

ASSUME FailsAssumption == Fails \in BOOLEAN

VARIABLE wire   \* [Request -> the call that is under way]

\* What is asked of what, with which body, and how far it has come.  An answer is a
\* sequence of rows; most calls are answered with none.
Call(kind, to, body) ==
    [kind |-> kind, to |-> to, body |-> body, stage |-> "sent", answer |-> <<>>]

Stage == {"sent", "answered", "failed"}
CallType(kinds, targets, bodies, answerRows) ==
    [kind : kinds \cup {"free"}, to : targets \cup {Nothing}, body : bodies \cup {Nothing},
     stage : Stage, answer : Seq(answerRows)]

\* A request that is free.
NoCall == Call("free", Nothing, Nothing)
Free(r) == wire[r].kind = "free"

Asks(r, kind, stage) == wire[r].kind = kind /\ wire[r].stage = stage
Becomes(r, call) == wire' = [wire EXCEPT ![r] = call]

Send(r, kind, to, body) == Free(r) /\ Becomes(r, Call(kind, to, body))

\* The server has carried a call out, or refuses it.
Ok(r, answer) == Becomes(r, [wire[r] EXCEPT !.stage = "answered", !.answer = answer])
Refuse(r) == Becomes(r, [wire[r] EXCEPT !.stage = "failed"])

\* The call, or its answer, is lost.
Lost(r) ==
    /\ Fails
    /\ ~Free(r) /\ wire[r].stage # "failed"
    /\ Becomes(r, [wire[r] EXCEPT !.stage = "failed", !.answer = <<>>])

\* The await in the store ends, with a value or with an exception.
Resolved(r, kind) == Asks(r, kind, "answered") /\ Becomes(r, NoCall)
Rejected(r, kind) == Asks(r, kind, "failed") /\ Becomes(r, NoCall)

InFlight(kinds) == {r \in Request : wire[r].kind \in kinds}
=============================================================================
