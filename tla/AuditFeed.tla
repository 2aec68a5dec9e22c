----------------------------- MODULE AuditFeed -----------------------------
(***************************************************************************)
(* The logs page: LiveEventFeed on top of useAuditStore, and GET /api/logs *)
(* that answers it.  A filter that is chosen sends a call at once, so that *)
(* calls for different filters are under way together.  "Live" is a label: *)
(* the event stream of the server has no reader, addLogEvent and           *)
(* clearFilter have no caller.                                             *)
(***************************************************************************)
EXTENDS ApiClient, Integers

CONSTANTS
    Event,      \* what a log row tells apart: its door, method and event type
    Filter,     \* what may be chosen; All is chosen at first
    Limit,      \* rows of an answer; 100 in the code
    MaxLog      \* rows the table has room for; a bound for TLC

\* A choice that excludes nothing.
Any == "any"
All == [door |-> Any, method |-> Any, type |-> Any]

ASSUME BoundsAssumption == Limit \in Nat \ {0} /\ MaxLog \in Nat
ASSUME FilterAssumption == All \in Filter

VARIABLES
    log,        \* the table AccessLogs, newest first
    logs,       \* the list of the store
    filter,
    isLoading,
    order,      \* history: pairs of calls under way, the first sent before the second
    overtaken   \* history: a call was answered after a younger one, or not at all

store == <<logs, filter, isLoading>>
vars == <<wire, log, store, order, overtaken>>

UnderWay == InFlight({"logs"})

Asked(d, choice) == choice = Any \/ d = choice

\* fetchLogs has just been called by App; the page itself calls it again.
Init ==
    /\ \E r \in Request :
        /\ wire = [q \in Request |-> IF q = r THEN Call("logs", Nothing, All) ELSE NoCall]
    /\ order = {}
    /\ log = <<>>
    /\ logs = <<>>
    /\ filter = All
    /\ isLoading = TRUE
    /\ overtaken = FALSE

----------------------------------------------------------------------------
(* The server *)

\* The rows that are wanted, in the order they are in.
Where(rows, wanted) ==
    LET kept[n \in 0..Len(rows)] ==
            IF n = 0 THEN <<>>
            ELSE IF rows[n] \in wanted THEN Append(kept[n - 1], rows[n]) ELSE kept[n - 1]
    IN  kept[Len(rows)]

OfDoor(asked) == {e \in Event : Asked(e.door, asked.door)}
OfMethod(asked) == {e \in Event : Asked(e.method, asked.method)}

\* Mutated: the limit is not looked at.
Answer_Unlimited(asked) == Where(log, OfDoor(asked) \cap OfMethod(asked))

\* The newest rows of the door are counted off before the method is looked at.  The
\* type of the event is a parameter that apiClient never sends.
Answer(asked) ==
    LET recent == Where(log, OfDoor(asked))
        taken == SubSeq(recent, 1, IF Len(recent) < Limit THEN Len(recent) ELSE Limit)
    IN  Where(taken, OfMethod(asked))

Serve(r) ==
    /\ Asks(r, "logs", "sent")
    /\ Ok(r, Answer(wire[r].body))
    /\ UNCHANGED <<log, store, order, overtaken>>

Lose(r) == Lost(r) /\ UNCHANGED <<log, store, order, overtaken>>

Write ==
    /\ Len(log) < MaxLog
    /\ \E e \in Event : log' = <<e>> \o log
    /\ UNCHANGED <<wire, store, order, overtaken>>

\* A door is deleted, and the rows that refer to it with it.  One with the same id may
\* be created again: POST /api/doors takes the id that it is sent.
DeleteDoor ==
    /\ \E i \in DOMAIN log : log' = Where(log, {e \in Event : e.door # log[i].door})
    /\ UNCHANGED <<wire, store, order, overtaken>>

----------------------------------------------------------------------------
(* The store *)

\* Mutated: the call is built from the filter that was there first.
fetchLogs_Default(r, asked) ==
    /\ Send(r, "logs", Nothing, All)
    /\ isLoading' = TRUE
    /\ order' = order \cup (UnderWay \X {r})
    /\ overtaken' = (overtaken /\ UnderWay # {})
    /\ UNCHANGED <<log, logs>>

fetchLogs(r, asked) ==
    /\ Send(r, "logs", Nothing, asked)
    /\ isLoading' = TRUE
    /\ order' = order \cup (UnderWay \X {r})
    /\ overtaken' = (overtaken /\ UnderWay # {})
    /\ UNCHANGED <<log, logs>>

\* The page is opened, also while a call of App is still under way.
Mount(r) == fetchLogs(r, filter) /\ UNCHANGED filter

Refresh(r) == ~isLoading /\ Mount(r)

\* Mutated: a filter is set while a call is under way, and not fetched for.
setFilter_OnlyWhenIdle(r, chosen) ==
    /\ filter' = chosen
    /\ IF isLoading THEN UNCHANGED <<wire, log, logs, isLoading, order, overtaken>>
                    ELSE fetchLogs(r, chosen)

\* One of the three selects.
setFilter(r, chosen) ==
    /\ filter' = chosen
    /\ fetchLogs(r, chosen)

Choose(r) ==
    \E field \in {"door", "method", "type"}, chosen \in Filter :
        /\ chosen = [filter EXCEPT ![field] = chosen[field]] /\ chosen # filter
        /\ setFilter(r, chosen)

Ends(r) ==
    /\ isLoading' = FALSE
    /\ order' = {sent \in order : sent[1] # r /\ sent[2] # r}
    /\ UNCHANGED <<log, filter>>

fetchLogsEnds(r) ==
    /\ Resolved(r, "logs")
    /\ logs' = wire[r].answer
    /\ overtaken' = (overtaken \/ \E q \in UnderWay : <<q, r>> \in order)
    /\ Ends(r)

fetchLogsFails(r) ==
    /\ Rejected(r, "logs")
    /\ overtaken' = TRUE
    /\ UNCHANGED logs
    /\ Ends(r)

Arrive(r) == fetchLogsEnds(r) \/ fetchLogsFails(r)

Next ==
    \/ \E r \in Request : Mount(r) \/ Refresh(r) \/ Choose(r) \/ Serve(r) \/ Lose(r) \/ Arrive(r)
    \/ Write \/ DeleteDoor

Spec == Init /\ [][Next]_vars

\* A call is served, and what is answered is continued.
Fairness == \A r \in Request : WF_vars(Serve(r) \/ Arrive(r))

FairSpec == Spec /\ Fairness

----------------------------------------------------------------------------
(* Properties *)

\* Of any two calls that are under way one was sent first.
SentInTurn ==
    /\ order \subseteq UnderWay \X UnderWay
    /\ \A q, r \in UnderWay : q # r => (<<q, r>> \in order <=> <<r, q>> \notin order)
    /\ \A q \in UnderWay : <<q, q>> \notin order
    /\ \A p, q, r \in UnderWay :
           <<p, q>> \in order /\ <<q, r>> \in order => <<p, r>> \in order

\* Every variable has its type, and the calls under way are in the order of their sending.
TypeOK ==
    /\ wire \in [Request -> CallType({"logs"}, {}, Filter, Event)]
    /\ log \in Seq(Event) /\ Len(log) <= MaxLog
    /\ logs \in Seq(Event) /\ Len(logs) <= Limit
    /\ filter \in Filter
    /\ isLoading \in BOOLEAN
    /\ SentInTurn
    /\ overtaken \in BOOLEAN

Matches(e, asked) == Asked(e.door, asked.door) /\ Asked(e.method, asked.method)

\* Once nothing is under way, the feed shows only rows that match what is chosen for
\* door and method - provided the calls ended in the order they were sent in and none
\* of them failed.
SettledFeedMatches ==
    UnderWay = {} /\ ~overtaken => \A i \in DOMAIN logs : Matches(logs[i], filter)

\* Once the log no longer changes, the choice is kept and no call fails, a page that is
\* fetched again and again ends up with the answer to what is chosen for good,
\* whichever older answers are still to come.
FeedConverges ==
    /\ <>[][UNCHANGED <<log, filter>>]_vars
    /\ <>[](\A r \in Request : wire[r].stage # "failed")
    /\ []<>(UnderWay # {})
    => <>[](logs = Answer(filter))
=============================================================================
