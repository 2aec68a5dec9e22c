-------------------------- MODULE DashboardProofs --------------------------
(***************************************************************************)
(* Proofs about Dashboard for any doors, settings and numbers of calls     *)
(* under way.                                                              *)
(***************************************************************************)
EXTENDS Dashboard, FiniteSetTheorems, SequenceTheorems, TLAPS

\* A door that is opened in the wizard and saved without an edit keeps of its row what
\* the form shows and loses all the rest: other keys of its configurations, blanks around
\* its name.  So it keeps its row exactly if that said nothing else, and what the form
\* shows of it from then on is what it showed before.  It does not matter whether the
\* browser had the row from a list or from the answer to an earlier save, which tells a
\* missing keypad differently.
THEOREM SavingLosesTheRest ==
    ASSUME NEW s \in Setting
    PROVE  LET saved == Stored(SettingOf(FormOf(s)))
           IN  /\ FormOf(s) \in Form
               /\ saved = [Stored(s) EXCEPT !.rest = Plain]
               /\ saved = Stored(s) <=> s.rest = Plain
               /\ FormOf(saved) = FormOf(s)
<1> DEFINE k == IF s.keypad = Null THEN None ELSE s.keypad
           saved == Stored(SettingOf(FormOf(s)))
<1>1. s \in [name : Name, keypad : Keypad \cup {Null, None}, rest : Rest]
    BY SettingAssumption
<1>2. /\ k \in Keypad \cup {None} /\ k # Null
      /\ FormOf(s) = [name |-> s.name, keypad |-> k]
      /\ Stored(s) = [name |-> s.name, keypad |-> k, rest |-> s.rest]
    BY <1>1, NullAssumption DEF FormOf, Stored
<1>3. saved = [name |-> s.name, keypad |-> k, rest |-> Plain]
    BY <1>2, NullAssumption DEF SettingOf, Stored
<1>4. FormOf(s) \in Form
    BY <1>1, <1>2 DEF Form
<1>5. saved = [Stored(s) EXCEPT !.rest = Plain]
    BY <1>2, <1>3
<1>6. saved = Stored(s) <=> s.rest = Plain
    <2>1. saved.rest = Plain /\ Stored(s).rest = s.rest
        BY <1>2, <1>3
    <2>2. s.rest = Plain => saved = Stored(s)
        BY <1>2, <1>3
    <2> QED BY <2>1, <2>2
<1>7. FormOf(saved) = FormOf(s)
    BY <1>2, <1>3 DEF FormOf
<1> QED BY <1>4, <1>5, <1>6, <1>7

LEMMA StoredType ==
    ASSUME NEW s \in Setting
    PROVE  Stored(s) \in Setting
BY SettingAssumption DEF Stored

LEMMA NewFormType == NewForm \in Form
BY DefaultAssumption DEF NewForm, Form

\* A form with a name is a row.
LEMMA SettingType ==
    ASSUME NEW f \in Form, f.name # Blank
    PROVE  SettingOf(f) \in Setting
BY SettingAssumption, PlainAssumption DEF Form, SettingOf

----------------------------------------------------------------------------
(* Calls *)

CallOK(c) ==
    /\ c \in CallType(Kind, Door, Setting, DoorRecord)
    /\ c.kind \in Operation \cup {"update"} => c.to \in Door
    /\ c.kind \in {"create", "update"} => c.body \in Setting
    /\ c.kind \in {"create", "update"} /\ c.stage = "answered" => Len(c.answer) = 1

WireOK == /\ wire \in [Request -> CallType(Kind, Door, Setting, DoorRecord)]
          /\ \A r \in Request : CallOK(wire[r])

ServerOK ==
    /\ rows \in [Door -> Setting \cup {NoRow}]
    /\ unborn \subseteq {d \in Door : rows[d] = NoRow}
    /\ lockStates \in [Door -> LockState]

StoreOK ==
    /\ doors \in Seq(DoorRecord)
    /\ autoLockCountdowns \in [Door -> 0..DaySeconds]
    /\ isOperating \in [Door -> BOOLEAN]
    /\ isLoading \in BOOLEAN

WizardOK ==
    /\ isWizardOpen \in BOOLEAN
    /\ editingDoor \in Door \cup {NoDoor}
    /\ form \in Form
    /\ isSaving \in BOOLEAN

LEMMA TypeParts == /\ TypeOK <=> WireOK /\ ServerOK /\ StoreOK /\ WizardOK
                   /\ TypeOK' <=> WireOK' /\ ServerOK' /\ StoreOK' /\ WizardOK'
BY DEF TypeOK, WireOK, CallOK, ServerOK, StoreOK, WizardOK, Asks

\* A call replaced by a good call leaves only good calls.
LEMMA BecomesOK ==
    ASSUME WireOK, NEW r \in Request, NEW c, CallOK(c), Becomes(r, c)
    PROVE  WireOK'
BY DEF WireOK, CallOK, Becomes

LEMMA NoCallOK == CallOK(NoCall)
BY DEF CallOK, NoCall, Call, CallType, Stage, Operation

LEMMA SendOK ==
    ASSUME WireOK, NEW r \in Request, NEW kind \in Kind, NEW to, NEW body,
           kind \in Operation \cup {"update"} => to \in Door,
           kind \in {"create", "update"} => body \in Setting,
           kind \in {"list", "create"} => to = Nothing,
           kind \in Operation \cup {"list"} => body = Nothing,
           Send(r, kind, to, body)
    PROVE  WireOK'
<1>1. CallOK(Call(kind, to, body))
    BY DEF CallOK, Call, CallType, Stage, Kind, Operation
<1> QED
    BY <1>1, BecomesOK DEF Send

LEMMA RefuseOK ==
    ASSUME WireOK, NEW r \in Request, Refuse(r)
    PROVE  WireOK'
<1>1. CallOK([wire[r] EXCEPT !.stage = "failed"])
    BY DEF WireOK, CallOK, CallType, Stage
<1> QED
    BY <1>1, BecomesOK DEF Refuse

LEMMA LostOK ==
    ASSUME WireOK, NEW r \in Request, Lost(r)
    PROVE  WireOK'
<1> DEFINE c == [wire[r] EXCEPT !.stage = "failed", !.answer = <<>>]
<1>1. c \in CallType(Kind, Door, Setting, DoorRecord)
    BY EmptySeq DEF WireOK, CallType, Stage
<1>2. c.kind = wire[r].kind /\ c.to = wire[r].to /\ c.body = wire[r].body /\ c.stage = "failed"
    BY DEF WireOK, CallType
<1>3. CallOK(c)
    <2> HIDE DEF c
    <2> QED
        BY <1>1, <1>2 DEF WireOK, CallOK
<1> QED
    BY <1>3, BecomesOK DEF Lost

LEMMA AnswerOK ==
    ASSUME WireOK, NEW r \in Request, NEW answer \in Seq(DoorRecord),
           wire[r].kind \in {"create", "update"} => Len(answer) = 1,
           Ok(r, answer)
    PROVE  WireOK'
<1> DEFINE c == [wire[r] EXCEPT !.stage = "answered", !.answer = answer]
<1>1. c \in CallType(Kind, Door, Setting, DoorRecord)
    BY DEF WireOK, CallType, Stage
<1>2. c.kind = wire[r].kind /\ c.to = wire[r].to /\ c.body = wire[r].body /\ c.answer = answer
    BY DEF WireOK, CallType
<1>3. CallOK(c)
    <2> HIDE DEF c
    <2> QED
        BY <1>1, <1>2 DEF WireOK, CallOK
<1> QED
    BY <1>3, BecomesOK DEF Ok

\* The await ends.
LEMMA EndOK ==
    ASSUME WireOK, NEW r \in Request, Becomes(r, NoCall)
    PROVE  WireOK'
BY NoCallOK, BecomesOK

----------------------------------------------------------------------------
(* Types *)

\* The doors of a list are a sequence of records, of doors that exist.
LEMMA TableType ==
    ASSUME ServerOK
    PROVE  Table \in Seq(DoorRecord)
<1> DEFINE S == {d \in Door : Exists(d)}
           listed == SetToSeq(S)
<1>1. IsFiniteSet(S)
    BY DoorAssumption, FS_Subset
<1>2. Cardinality(S) \in Nat /\ ExistsBijection(1..Cardinality(S), S)
    BY <1>1, FS_CardinalityType
<1>3. \E f \in [1..Cardinality(S) -> S] : IsInjective(f)
    BY <1>2 DEF ExistsBijection, Bijection, Injection, IsInjective
<1>4. listed \in [1..Cardinality(S) -> S]
    <2> HIDE DEF S
    <2> QED
        BY <1>3 DEF SetToSeq
<1>5. \A d \in S : [id |-> d, setting |-> rows[d], lock |-> lockStates[d]] \in DoorRecord
    BY DEF ServerOK, Exists, DoorRecord
<1> HIDE DEF S
<1>6. Table = [i \in 1..Cardinality(S) |->
                [id |-> listed[i], setting |-> rows[listed[i]], lock |-> lockStates[listed[i]]]]
    BY <1>4 DEF Table, S
<1>7. \A i \in 1..Cardinality(S) :
        [id |-> listed[i], setting |-> rows[listed[i]], lock |-> lockStates[listed[i]]]
            \in DoorRecord
    BY <1>4, <1>5
<1> HIDE DEF listed
<1> QED
    BY <1>2, <1>6, <1>7

LEMMA TypeInit == Init => TypeOK
<1> SUFFICES ASSUME Init
             PROVE  WireOK /\ ServerOK /\ StoreOK /\ WizardOK
    BY TypeParts
<1>1. WireOK
    <2>1. CallOK(Call("list", Nothing, Nothing))
        BY DEF CallOK, Call, CallType, Stage, Kind, Operation
    <2> QED
        BY <2>1, NoCallOK DEF Init, WireOK, CallOK
<1>2. ServerOK
    BY StoredType DEF Init, ServerOK, LockState
<1>3. StoreOK
    BY EmptySeq, SecondsAssumption DEF Init, StoreOK
<1>4. WizardOK
    BY NewFormType DEF Init, WizardOK
<1> QED
    BY <1>1, <1>2, <1>3, <1>4

\* The continuation of every call ends it.
LEMMA ResolvedOK ==
    ASSUME WireOK, NEW r \in Request, NEW kind, Resolved(r, kind) \/ Rejected(r, kind)
    PROVE  WireOK'
BY EndOK DEF Resolved, Rejected

LEMMA TypeServe ==
    ASSUME TypeOK, NEW r \in Request, Serve(r)
    PROVE  TypeOK'
<1> SUFFICES WireOK' /\ ServerOK'
    <2>1. StoreOK' /\ WizardOK'
        BY TypeParts DEF Serve, StoreOK, WizardOK, store, wizard
    <2> QED
        BY <2>1, TypeParts
<1>2. WireOK /\ ServerOK
    BY TypeParts
<1>3. CASE ServeList(r)
    <2>1. Ok(r, Table) /\ wire[r].kind = "list"
        BY <1>3 DEF ServeList, Asks
    <2>3. WireOK'
        BY <1>2, <2>1, TableType, AnswerOK
    <2>2. ServerOK'
        BY <1>2, <1>3 DEF ServeList, ServerOK, server
    <2> QED
        BY <2>2, <2>3
<1>4. CASE ServeOperation(r)
    <2>1. wire[r].kind \in Operation
        BY <1>4 DEF ServeOperation, Asks
    <2>2. wire[r].to \in Door
        BY <1>2, <2>1 DEF WireOK, CallOK
    <2>3. WireOK'
        BY <1>2, <1>4, <2>1, RefuseOK, AnswerOK, EmptySeq DEF ServeOperation, Operation
    <2>4. ServerOK'
        BY <1>2, <1>4, <2>2 DEF ServeOperation, ServerOK, LockState, After
    <2> QED
        BY <2>3, <2>4
<1>5. CASE ServeCreate(r)
    <2>1. PICK d \in unborn :
            /\ rows' = [rows EXCEPT ![d] = Stored(wire[r].body)]
            /\ unborn' = unborn \ {d}
            /\ Ok(r, <<[id |-> d, setting |-> wire[r].body, lock |-> NoState]>>)
        BY <1>5 DEF ServeCreate
    <2>2. wire[r].body \in Setting /\ d \in Door
        BY <1>2, <1>5 DEF ServeCreate, Asks, WireOK, CallOK, ServerOK
    <2>3. [id |-> d, setting |-> wire[r].body, lock |-> NoState] \in DoorRecord
        BY <2>2 DEF DoorRecord
    <2> DEFINE row == [id |-> d, setting |-> wire[r].body, lock |-> NoState]
    <2>4. WireOK'
        <3>1. Ok(r, <<row>>) /\ row \in DoorRecord
            BY <2>1, <2>3
        <3> HIDE DEF row
        <3>2. <<row>> \in Seq(DoorRecord) /\ Len(<<row>>) = 1
            BY <3>1
        <3> QED
            BY <1>2, <3>1, <3>2, AnswerOK
    <2>5. ServerOK'
        BY <1>2, <1>5, <2>1, <2>2, StoredType DEF ServerOK, ServeCreate
    <2> QED
        BY <2>4, <2>5
<1>6. CASE ServeUpdate(r)
    <2>1. wire[r].to \in Door /\ wire[r].body \in Setting
        BY <1>2, <1>6 DEF ServeUpdate, Asks, WireOK, CallOK
    <2>2. [id |-> wire[r].to, setting |-> wire[r].body, lock |-> NoState] \in DoorRecord
        BY <2>1 DEF DoorRecord
    <2> DEFINE row == [id |-> wire[r].to, setting |-> wire[r].body, lock |-> NoState]
    <2>3. WireOK'
        <3>1. (Ok(r, <<row>>) \/ Refuse(r)) /\ row \in DoorRecord
            BY <1>6, <2>2 DEF ServeUpdate
        <3> HIDE DEF row
        <3>2. <<row>> \in Seq(DoorRecord) /\ Len(<<row>>) = 1
            BY <3>1
        <3> QED
            BY <1>2, <3>1, <3>2, AnswerOK, RefuseOK
    <2>4. ServerOK'
        BY <1>2, <1>6, <2>1, StoredType DEF ServeUpdate, ServerOK, Exists
    <2> QED
        BY <2>3, <2>4
<1> QED
    BY <1>3, <1>4, <1>5, <1>6 DEF Serve

\* What the store makes of an answer.
LEMMA DoorsType ==
    ASSUME StoreOK, NEW d, NEW changed \in [DoorRecord -> DoorRecord]
    PROVE  [i \in DOMAIN doors |-> IF doors[i].id = d THEN changed[doors[i]] ELSE doors[i]]
                \in Seq(DoorRecord)
BY DEF StoreOK

LEMMA TypeArrive ==
    ASSUME TypeOK, NEW r \in Request, Arrive(r)
    PROVE  TypeOK'
<1>1. WireOK /\ ServerOK /\ StoreOK /\ WizardOK
    BY TypeParts
<1>2. WireOK'
    BY <1>1, ResolvedOK
       DEF Arrive, DoorsArrive, OperationEnds, SaveEnds, SaveFails, fetchDoorsEnds,
           LoadingFailed, operateEnds, operateFailed, createDoorEnds, updateDoorEnds
<1>3. ServerOK'
    BY <1>1 DEF Arrive, DoorsArrive, OperationEnds, SaveEnds, SaveFails, ServerOK, server
<1>4. WizardOK'
    BY <1>1, NewFormType
       DEF Arrive, DoorsArrive, OperationEnds, SaveEnds, SaveFails, WizardOK, wizard, Closed
<1>5. wire[r].answer \in Seq(DoorRecord)
    BY <1>1 DEF WireOK, CallType
<1>6. StoreOK'
    <2>1. CASE fetchDoorsEnds(r)
        <3>1. \A d \in Door : autoLockCountdowns'[d] \in {0, autoLockCountdowns[d]}
            BY <2>1 DEF fetchDoorsEnds
        <3>2. autoLockCountdowns' \in [Door -> 0..DaySeconds]
            BY <1>1, <2>1, <3>1, SecondsAssumption DEF fetchDoorsEnds, StoreOK
        <3> QED
            BY <1>1, <1>5, <2>1, <3>2 DEF fetchDoorsEnds, StoreOK
    <2>2. CASE \E kind \in Kind : LoadingFailed(r, kind)
        BY <1>1, <2>2 DEF LoadingFailed, StoreOK
    <2>3. ASSUME NEW op \in Operation, operateEnds(r, op)
          PROVE  StoreOK'
        <3>1. wire[r].to \in Door
            BY <1>1, <2>3 DEF operateEnds, Resolved, Asks, WireOK, CallOK
        <3>2. doors' \in Seq(DoorRecord)
            <4> DEFINE changed == [x \in DoorRecord |-> [x EXCEPT !.lock = After(op)]]
            <4>1. changed \in [DoorRecord -> DoorRecord]
                BY DEF DoorRecord, After, LockState
            <4>2. doors' = [i \in DOMAIN doors |->
                        IF doors[i].id = wire[r].to THEN changed[doors[i]] ELSE doors[i]]
                BY <1>1, <2>3 DEF operateEnds, Replace, StoreOK
            <4> HIDE DEF changed
            <4> QED
                BY <1>1, <4>1, <4>2, DoorsType
        <3> QED
            BY <1>1, <2>3, <3>1, <3>2, SecondsAssumption DEF operateEnds, StoreOK
    <2>4. ASSUME NEW op \in Operation, operateFailed(r, op)
          PROVE  StoreOK'
        BY <1>1, <2>4 DEF operateFailed, StoreOK
    <2>5. CASE createDoorEnds(r)
        BY <1>1, <1>5, <2>5, ConcatProperties DEF createDoorEnds, StoreOK
    <2>6. CASE updateDoorEnds(r)
        <3>1. wire[r].answer[1] \in DoorRecord
            BY <1>1, <1>5, <2>6 DEF updateDoorEnds, Resolved, Asks, WireOK, CallOK
        <3>2. doors' \in Seq(DoorRecord)
            <4> DEFINE changed == [x \in DoorRecord |-> wire[r].answer[1]]
            <4>1. changed \in [DoorRecord -> DoorRecord]
                BY <3>1
            <4>2. doors' = [i \in DOMAIN doors |->
                        IF doors[i].id = wire[r].to THEN changed[doors[i]] ELSE doors[i]]
                BY <1>1, <2>6 DEF updateDoorEnds, Replace, StoreOK
            <4> HIDE DEF changed
            <4> QED
                BY <1>1, <4>1, <4>2, DoorsType
        <3> QED
            BY <1>1, <2>6, <3>2 DEF updateDoorEnds, StoreOK
    <2> QED
        BY <2>1, <2>2, <2>3, <2>4, <2>5, <2>6
           DEF Arrive, DoorsArrive, OperationEnds, SaveEnds, SaveFails, Kind
<1> QED
    BY <1>1, <1>2, <1>3, <1>4, <1>6, TypeParts

LEMMA TypePress ==
    ASSUME TypeOK, NEW r \in Request, NEW op \in Operation, NEW d \in Door, Press(r, op, d)
    PROVE  TypeOK'
<1>1. WireOK'
    BY TypeParts, SendOK DEF Press, operate, Kind, Operation
<1> QED
    BY <1>1, TypeParts
       DEF Press, operate, server, wizard, ServerOK, StoreOK, WizardOK

LEMMA TypeSubmit ==
    ASSUME TypeOK, NEW r \in Request, handleSubmit(r)
    PROVE  TypeOK'
<1>1. SettingOf(form) \in Setting
    BY TypeParts, SettingType DEF handleSubmit, WizardOK
<1>2. WireOK'
    <2>1. CASE editingDoor = NoDoor
        BY <1>1, <2>1, TypeParts, SendOK DEF handleSubmit, Loading, Kind, Operation
    <2>2. CASE editingDoor # NoDoor
        <3>1. editingDoor \in Door
            BY <2>2, TypeParts DEF WizardOK
        <3> QED
            BY <1>1, <2>2, <3>1, TypeParts, SendOK DEF handleSubmit, Loading, Kind, Operation
    <2> QED
        BY <2>1, <2>2
<1> QED
    BY <1>2, TypeParts
       DEF handleSubmit, Loading, server, ServerOK, StoreOK, WizardOK

LEMMA TypeRefresh ==
    ASSUME TypeOK, NEW r \in Request, Refresh(r)
    PROVE  TypeOK'
<1>1. WireOK'
    BY TypeParts, SendOK DEF Refresh, fetchDoors, Loading, Kind, Operation
<1> QED
    BY <1>1, TypeParts
       DEF Refresh, fetchDoors, Loading, server, wizard, ServerOK, StoreOK, WizardOK

\* The steps of the wizard that call nobody, and the clock of the cards.
LEMMA TypeQuiet ==
    ASSUME TypeOK, handleOpenEdit \/ handleOpenAdd \/ Edit \/ Close \/ Tick
    PROVE  TypeOK'
<1>1. WireOK'
    <2>1. wire' = wire
        BY DEF handleOpenEdit, handleOpenAdd, Open, Edit, Close, Tick
    <2> QED
        BY <2>1, TypeParts DEF WireOK, CallOK
<1>2. ServerOK'
    BY TypeParts
       DEF handleOpenEdit, handleOpenAdd, Open, Edit, Close, Tick, server, ServerOK
<1>3. StoreOK' /\ WizardOK'
    <2>1. CASE handleOpenEdit
        <3>1. PICK i \in DOMAIN doors : Open(doors[i].id, FormOf(doors[i].setting))
            BY <2>1 DEF handleOpenEdit
        <3>2. doors[i] \in DoorRecord
            BY <3>1, TypeParts DEF StoreOK
        <3>3. doors[i].id \in Door /\ doors[i].setting \in Setting
            BY <3>2 DEF DoorRecord
        <3>4. form' \in Form
            BY <3>1, <3>3, SavingLosesTheRest DEF Open
        <3> QED
            BY <3>1, <3>3, <3>4, TypeParts DEF Open, store, StoreOK, WizardOK
    <2>2. CASE handleOpenAdd
        BY <2>2, NewFormType, TypeParts DEF handleOpenAdd, Open, store, StoreOK, WizardOK
    <2>3. CASE Edit
        <3>1. form' \in Form
            BY <2>3, TypeParts DEF Edit, WizardOK, Form
        <3> QED
            BY <2>3, <3>1, TypeParts DEF Edit, store, StoreOK, WizardOK
    <2>4. CASE Close
        BY <2>4, NewFormType, TypeParts DEF Close, Closed, store, StoreOK, WizardOK
    <2>5. CASE Tick
        BY <2>5, TypeParts, SecondsAssumption DEF Tick, tickCountdowns, wizard, StoreOK, WizardOK
    <2> QED
        BY <2>1, <2>2, <2>3, <2>4, <2>5
<1> QED
    BY <1>1, <1>2, <1>3, TypeParts

LEMMA TypeElsewhere ==
    ASSUME TypeOK, ChangeElsewhere
    PROVE  TypeOK'
<1>1. WireOK'
    BY TypeParts DEF ChangeElsewhere, WireOK, CallOK
<1>2. ServerOK'
    BY TypeParts DEF ChangeElsewhere, Elsewhere, Exists, ServerOK
<1> QED
    BY <1>1, <1>2, TypeParts DEF ChangeElsewhere, store, wizard, StoreOK, WizardOK

LEMMA TypeNext == TypeOK /\ [Next]_vars => TypeOK'
<1> SUFFICES ASSUME TypeOK, [Next]_vars
             PROVE  TypeOK'
    OBVIOUS
<1>1. CASE Use
    BY <1>1, TypePress, TypeSubmit, TypeQuiet DEF Use
<1>2. ASSUME NEW r \in Request, Refresh(r) \/ Serve(r) \/ Arrive(r)
      PROVE  TypeOK'
    BY <1>2, TypeRefresh, TypeServe, TypeArrive
<1>3. ASSUME NEW r \in Request, Lose(r)
      PROVE  TypeOK'
    BY <1>3, TypeParts, LostOK
       DEF Lose, server, store, wizard, ServerOK, StoreOK, WizardOK
<1>4. CASE Tick \/ ChangeElsewhere
    BY <1>4, TypeQuiet, TypeElsewhere
<1>5. CASE UNCHANGED vars
    <2>1. WireOK'
        BY <1>5, TypeParts DEF vars, WireOK, CallOK
    <2> QED
        BY <1>5, <2>1, TypeParts DEF vars, server, store, wizard, ServerOK, StoreOK, WizardOK
<1> QED
    BY <1>1, <1>2, <1>3, <1>4, <1>5 DEF Next

\* Every variable of the page, the store and the server keeps its type, and every
\* call the parameters of its kind, in whatever order calls are served and answered.
THEOREM DashboardTypes == Spec => []TypeOK
BY TypeInit, TypeNext, PTL DEF Spec

----------------------------------------------------------------------------
(* What a step does to the calls under way *)

SameCalls == \A q \in Request : wire'[q].kind = wire[q].kind /\ wire'[q].to = wire[q].to

OthersSame(r) == \A q \in Request \ {r} : wire'[q].kind = wire[q].kind /\ wire'[q].to = wire[q].to

Sent(r, kind, to) ==
    Free(r) /\ wire'[r].kind = kind /\ wire'[r].to = to /\ OthersSame(r)

Ended(r, kind) == wire[r].kind = kind /\ wire'[r].kind = "free" /\ OthersSame(r)

LEMMA Sends ==
    ASSUME TypeOK, NEW r \in Request, NEW kind, NEW to, NEW body, Send(r, kind, to, body)
    PROVE  Sent(r, kind, to)
BY DEF TypeOK, Send, Becomes, Call, Sent, OthersSame

LEMMA Ends ==
    ASSUME TypeOK, NEW r \in Request, NEW kind, Resolved(r, kind) \/ Rejected(r, kind)
    PROVE  Ended(r, kind)
BY DEF TypeOK, Resolved, Rejected, Asks, Becomes, NoCall, Call, Ended, OthersSame

\* The server and the network change how far a call is, never what it asks for.
LEMMA CallsKept ==
    ASSUME TypeOK, NEW r \in Request, Serve(r) \/ Lose(r)
    PROVE  SameCalls
<1>1. wire[r] \in CallType(Kind, Door, Setting, DoorRecord)
    BY DEF TypeOK
<1>2. PICK stage, answer :
        wire' = [wire EXCEPT ![r] = [wire[r] EXCEPT !.stage = stage, !.answer = answer]]
    <2>1. CASE \E answer : Ok(r, answer)
        BY <2>1 DEF Ok, Becomes
    <2>2. CASE Refuse(r)
        <3>1. [wire[r] EXCEPT !.stage = "failed"]
                = [wire[r] EXCEPT !.stage = "failed", !.answer = wire[r].answer]
            BY <1>1 DEF CallType
        <3> QED
            BY <2>2, <3>1 DEF Refuse, Becomes
    <2>3. CASE Lost(r)
        BY <2>3 DEF Lost, Becomes
    <2> QED
        BY <2>1, <2>2, <2>3
           DEF Serve, Lose, ServeOperation, ServeList, ServeCreate, ServeUpdate
<1>3. \A q \in Request \ {r} : wire'[q] = wire[q]
    BY <1>2 DEF TypeOK
<1>4. wire'[r] = [wire[r] EXCEPT !.stage = stage, !.answer = answer]
    BY <1>2 DEF TypeOK
<1>5. wire'[r].kind = wire[r].kind /\ wire'[r].to = wire[r].to
    BY <1>1, <1>4 DEF CallType
<1> QED
    BY <1>3, <1>5 DEF SameCalls

----------------------------------------------------------------------------
(* One operation and one save at a time *)

\* Both facts are inductive: a button that starts a call is disabled while one runs.
Exclusive == OneOperationPerDoor /\ OneSaveInFlight

\* Steps that leave the flags and the calls alone.
LEMMA ExclusiveKept ==
    ASSUME Exclusive, SameCalls, UNCHANGED <<isOperating, isSaving>>
    PROVE  Exclusive'
BY DEF Exclusive, OneOperationPerDoor, OneSaveInFlight, AtMostOne, Operating, Saving, InFlight,
       SameCalls

\* A list is asked for, or is there.
LEMMA ExclusiveList ==
    ASSUME Exclusive, NEW r \in Request, NEW to, Sent(r, "list", to) \/ Ended(r, "list"),
           UNCHANGED <<isOperating, isSaving>>
    PROVE  Exclusive'
<1>1. \A kind \in Operation \cup {"create", "update"} :
        wire[r].kind # kind /\ wire'[r].kind # kind
    BY DEF Sent, Ended, Free, Operation
<1>2. \A d \in Door : Operating(d)' = Operating(d)
    BY <1>1 DEF Operating, InFlight, Sent, Ended, OthersSame
<1>3. Saving' = Saving
    BY <1>1 DEF Saving, InFlight, Sent, Ended, OthersSame
<1> QED
    BY <1>2, <1>3 DEF Exclusive, OneOperationPerDoor, OneSaveInFlight

LEMMA ExclusiveNext ==
    ASSUME TypeOK, Exclusive, [Next]_vars
    PROVE  Exclusive'
<1>1. ASSUME NEW r \in Request, NEW op \in Operation, NEW d \in Door, Press(r, op, d)
      PROVE  Exclusive'
    <2>1. Sent(r, op, d)
        BY <1>1, Sends DEF Press, operate
    <2>2. Operating(d) = {} /\ Operating(d)' = {r}
        BY <1>1, <2>1 DEF Press, Exclusive, OneOperationPerDoor, Operating, InFlight, Sent,
                          OthersSame, Free
    <2>3. \A e \in Door \ {d} : Operating(e)' = Operating(e)
        BY <2>1 DEF Operating, InFlight, Sent, OthersSame, Free, Operation
    <2>4. Saving' = Saving
        BY <2>1 DEF Saving, InFlight, Sent, OthersSame, Free, Operation
    <2>5. \A e \in Door : isOperating'[e] <=> e = d \/ isOperating[e]
        BY <1>1 DEF Press, operate, TypeOK
    <2>6. isSaving' = isSaving
        BY <1>1 DEF Press, wizard
    <2> QED
        BY <2>2, <2>3, <2>4, <2>5, <2>6
           DEF Exclusive, OneOperationPerDoor, OneSaveInFlight, AtMostOne
<1>2. ASSUME NEW r \in Request, OperationEnds(r)
      PROVE  Exclusive'
    <2>1. PICK op \in Operation : operateEnds(r, op) \/ operateFailed(r, op)
        BY <1>2 DEF OperationEnds
    <2>2. Ended(r, op)
        BY <2>1, Ends DEF operateEnds, operateFailed
    <2>3. PICK d \in Door : d = wire[r].to
        BY <2>2 DEF Ended, TypeOK
    <2>4. r \in Operating(d) /\ Operating(d)' = {}
        BY <2>2, <2>3 DEF Exclusive, OneOperationPerDoor, AtMostOne, Operating, InFlight, Ended,
                          OthersSame, Operation
    <2>5. \A e \in Door \ {d} : Operating(e)' = Operating(e)
        BY <2>2, <2>3 DEF Operating, InFlight, Ended, OthersSame, Operation
    <2>6. Saving' = Saving
        BY <2>2 DEF Saving, InFlight, Ended, OthersSame, Operation
    <2>7. \A e \in Door : isOperating'[e] <=> e # d /\ isOperating[e]
        BY <2>1, <2>3 DEF operateEnds, operateFailed, TypeOK
    <2>8. isSaving' = isSaving
        BY <1>2 DEF OperationEnds, wizard
    <2> QED
        BY <2>4, <2>5, <2>6, <2>7, <2>8
           DEF Exclusive, OneOperationPerDoor, OneSaveInFlight, AtMostOne
<1>3. ASSUME NEW r \in Request, handleSubmit(r)
      PROVE  Exclusive'
    <2>1. PICK kind \in {"create", "update"} : \E to : Sent(r, kind, to)
        BY <1>3, Sends DEF handleSubmit, Loading
    <2>2. \A d \in Door : Operating(d)' = Operating(d)
        BY <2>1 DEF Operating, InFlight, Sent, OthersSame, Free, Operation
    <2>3. Saving = {} /\ Saving' = {r}
        BY <1>3, <2>1 DEF handleSubmit, Exclusive, OneSaveInFlight, Saving, InFlight, Sent,
                          OthersSame, Free
    <2>4. isSaving' = TRUE /\ isOperating' = isOperating
        BY <1>3 DEF handleSubmit, Loading
    <2> QED
        BY <2>2, <2>3, <2>4 DEF Exclusive, OneOperationPerDoor, OneSaveInFlight, AtMostOne
<1>4. ASSUME NEW r \in Request, SaveEnds(r) \/ SaveFails(r)
      PROVE  Exclusive'
    <2>1. PICK kind \in {"create", "update"} : Ended(r, kind)
        BY <1>4, Ends DEF SaveEnds, SaveFails, createDoorEnds, updateDoorEnds, LoadingFailed
    <2>2. \A d \in Door : Operating(d)' = Operating(d)
        BY <2>1 DEF Operating, InFlight, Ended, OthersSame, Operation
    <2>3. r \in Saving /\ Saving' = {}
        BY <2>1 DEF Exclusive, OneSaveInFlight, AtMostOne, Saving, InFlight, Ended, OthersSame
    <2>4. isSaving' = FALSE /\ isOperating' = isOperating
        BY <1>4 DEF SaveEnds, SaveFails, createDoorEnds, updateDoorEnds, LoadingFailed
    <2> QED
        BY <2>2, <2>3, <2>4 DEF Exclusive, OneOperationPerDoor, OneSaveInFlight, AtMostOne
<1>5. ASSUME NEW r \in Request, Refresh(r) \/ DoorsArrive(r)
      PROVE  Exclusive'
    <2>1. Sent(r, "list", Nothing) \/ Ended(r, "list")
        BY <1>5, Sends, Ends DEF Refresh, fetchDoors, Loading, DoorsArrive, fetchDoorsEnds,
                                 LoadingFailed
    <2>2. UNCHANGED <<isOperating, isSaving>>
        BY <1>5 DEF Refresh, fetchDoors, Loading, DoorsArrive, fetchDoorsEnds, LoadingFailed,
                    wizard
    <2> QED
        BY <2>1, <2>2, ExclusiveList
<1>6. ASSUME NEW r \in Request, Serve(r) \/ Lose(r)
      PROVE  Exclusive'
    BY <1>6, CallsKept, ExclusiveKept DEF Serve, Lose, store, wizard
<1>7. CASE handleOpenEdit \/ handleOpenAdd \/ Edit \/ Close \/ Tick \/ ChangeElsewhere
           \/ UNCHANGED vars
    <2>1. SameCalls /\ UNCHANGED <<isOperating, isSaving>>
        BY <1>7 DEF handleOpenEdit, handleOpenAdd, Open, Edit, Close, Tick, tickCountdowns,
                    ChangeElsewhere, vars, store, wizard, SameCalls
    <2> QED
        BY <2>1, ExclusiveKept
<1> QED
    BY <1>1, <1>2, <1>3, <1>4, <1>5, <1>6, <1>7 DEF Next, Use, Arrive

LEMMA ExclusiveInit == Init => Exclusive
<1> SUFFICES ASSUME Init
             PROVE  Exclusive
    OBVIOUS
<1>1. \A r \in Request : wire[r].kind \in {"list", "free"}
    BY DEF Init, Call, NoCall
<1> QED
    BY <1>1 DEF Init, Exclusive, OneOperationPerDoor, OneSaveInFlight, AtMostOne, Operating,
                Saving, InFlight, Operation

LEMMA ExclusiveAlways == Spec => []Exclusive
<1>1. TypeOK /\ Exclusive /\ [Next]_vars => Exclusive'
    BY ExclusiveNext
<1> QED
    BY <1>1, ExclusiveInit, DashboardTypes, PTL DEF Spec

\* A card never starts a second operation of its door, and is released when the one
\* it waits for has ended, whatever else is under way.
THEOREM OperationsAreExclusive == Spec => []OneOperationPerDoor
<1>1. Exclusive => OneOperationPerDoor
    BY DEF Exclusive
<1> QED
    BY <1>1, ExclusiveAlways, PTL

\* There is one save at a time, though a wizard can be closed while it saves.
THEOREM SavesAreExclusive == Spec => []OneSaveInFlight
<1>1. Exclusive => OneSaveInFlight
    BY DEF Exclusive
<1> QED
    BY <1>1, ExclusiveAlways, PTL

----------------------------------------------------------------------------
(* The spinner *)

LoadingKind == {"list", "create", "update"}

LEMMA LoadingNext ==
    ASSUME TypeOK, LoadingHasRequest, [Next]_vars
    PROVE  LoadingHasRequest'
<1>1. ASSUME NEW r \in Request, NEW kind \in LoadingKind, NEW to, Sent(r, kind, to)
      PROVE  LoadingHasRequest'
    BY <1>1 DEF LoadingHasRequest, InFlight, Sent, LoadingKind
<1>2. ASSUME NEW r \in Request, NEW op \in Operation, NEW to,
             Sent(r, op, to) \/ Ended(r, op), isLoading' = isLoading
      PROVE  LoadingHasRequest'
    BY <1>2 DEF LoadingHasRequest, InFlight, Sent, Ended, OthersSame, Free, Operation
<1>3. ASSUME SameCalls, isLoading' = isLoading
      PROVE  LoadingHasRequest'
    BY <1>3 DEF LoadingHasRequest, InFlight, SameCalls
<1>4. ASSUME NEW r \in Request, NEW op \in Operation, NEW d \in Door, Press(r, op, d)
      PROVE  LoadingHasRequest'
    BY <1>2, <1>4, Sends DEF Press, operate
<1>5. ASSUME NEW r \in Request, handleSubmit(r) \/ Refresh(r)
      PROVE  LoadingHasRequest'
    BY <1>1, <1>5, Sends DEF handleSubmit, Refresh, fetchDoors, Loading, LoadingKind
<1>6. ASSUME NEW r \in Request, OperationEnds(r)
      PROVE  LoadingHasRequest'
    BY <1>2, <1>6, Ends DEF OperationEnds, operateEnds, operateFailed
<1>7. ASSUME NEW r \in Request, DoorsArrive(r) \/ SaveEnds(r) \/ SaveFails(r)
      PROVE  LoadingHasRequest'
    BY <1>7 DEF DoorsArrive, SaveEnds, SaveFails, fetchDoorsEnds, createDoorEnds, updateDoorEnds,
                LoadingFailed, LoadingHasRequest
<1>8. ASSUME NEW r \in Request, Serve(r) \/ Lose(r)
      PROVE  LoadingHasRequest'
    BY <1>3, <1>8, CallsKept DEF Serve, Lose, store
<1>9. CASE handleOpenEdit \/ handleOpenAdd \/ Edit \/ Close \/ Tick \/ ChangeElsewhere
           \/ UNCHANGED vars
    BY <1>3, <1>9 DEF handleOpenEdit, handleOpenAdd, Open, Edit, Close, Tick, tickCountdowns,
                      ChangeElsewhere, vars, store, SameCalls
<1> QED
    BY <1>4, <1>5, <1>6, <1>7, <1>8, <1>9 DEF Next, Use, Arrive

\* A page that shows its spinner has a call that will stop it.
THEOREM SpinnerHasRequest == Spec => []LoadingHasRequest
<1>1. Init => LoadingHasRequest
    <2> SUFFICES ASSUME Init
                 PROVE  LoadingHasRequest
        OBVIOUS
    <2>1. PICK r \in Request : wire[r] = Call("list", Nothing, Nothing)
        BY DEF Init
    <2> QED
        BY <2>1 DEF LoadingHasRequest, InFlight, Call
<1>2. TypeOK /\ LoadingHasRequest /\ [Next]_vars => LoadingHasRequest'
    BY LoadingNext
<1> QED
    BY <1>1, <1>2, DashboardTypes, PTL DEF Spec

----------------------------------------------------------------------------
(* Countdowns and lock states *)

\* Strengthening: no answer to a save reports a lock state.
SavesReportNoState ==
    \A r \in Request :
        Asks(r, "create", "answered") \/ Asks(r, "update", "answered")
            => wire[r].answer[1].lock = NoState

\* Another call than r keeps its answer.
LEMMA OtherAnswers ==
    ASSUME TypeOK, NEW r \in Request, NEW c, Becomes(r, c),
           SavesReportNoState,
           c.kind \in {"create", "update"} /\ c.stage = "answered"
                => c.answer[1].lock = NoState
    PROVE  SavesReportNoState'
BY DEF TypeOK, Becomes, SavesReportNoState, Asks

LEMMA ReportsNext ==
    ASSUME TypeOK, SavesReportNoState, [Next]_vars
    PROVE  SavesReportNoState'
<1>1. ASSUME NEW r \in Request, NEW kind, NEW to, NEW body, Send(r, kind, to, body)
      PROVE  SavesReportNoState'
    <2>1. Becomes(r, Call(kind, to, body)) /\ Call(kind, to, body).stage = "sent"
        BY <1>1 DEF Send, Call
    <2> QED
        BY <2>1, OtherAnswers
<1>2. ASSUME NEW r \in Request, NEW kind, Resolved(r, kind) \/ Rejected(r, kind)
      PROVE  SavesReportNoState'
    <2>1. Becomes(r, NoCall) /\ NoCall.kind = "free"
        BY <1>2 DEF Resolved, Rejected, NoCall, Call
    <2> QED
        BY <2>1, OtherAnswers
<1>3. ASSUME NEW r \in Request, Refuse(r) \/ Lost(r)
      PROVE  SavesReportNoState'
    <2>1. wire[r] \in CallType(Kind, Door, Setting, DoorRecord)
        BY DEF TypeOK
    <2> DEFINE refused == [wire[r] EXCEPT !.stage = "failed"]
               lost == [wire[r] EXCEPT !.stage = "failed", !.answer = <<>>]
    <2>2. refused.stage = "failed" /\ lost.stage = "failed"
        BY <2>1 DEF CallType
    <2>3. Becomes(r, refused) \/ Becomes(r, lost)
        BY <1>3 DEF Refuse, Lost
    <2> HIDE DEF refused, lost
    <2> QED
        BY <2>2, <2>3, OtherAnswers
<1>4. ASSUME NEW r \in Request, NEW answer, Ok(r, answer),
             wire[r].kind \in {"create", "update"} => answer[1].lock = NoState
      PROVE  SavesReportNoState'
    <2>1. wire[r] \in CallType(Kind, Door, Setting, DoorRecord)
        BY DEF TypeOK
    <2> DEFINE c == [wire[r] EXCEPT !.stage = "answered", !.answer = answer]
    <2>2. c.kind = wire[r].kind /\ c.answer = answer
        BY <2>1 DEF CallType
    <2>3. Becomes(r, c)
        BY <1>4 DEF Ok
    <2> HIDE DEF c
    <2> QED
        BY <1>4, <2>2, <2>3, OtherAnswers
<1>5. ASSUME NEW r \in Request, Serve(r)
      PROVE  SavesReportNoState'
    <2>1. CASE ServeOperation(r)
        BY <1>3, <1>4, <2>1 DEF ServeOperation, Asks, Operation
    <2>2. CASE ServeList(r)
        BY <1>4, <2>2 DEF ServeList, Asks
    <2>3. CASE ServeCreate(r)
        <3>1. PICK d : Ok(r, <<[id |-> d, setting |-> wire[r].body, lock |-> NoState]>>)
            BY <2>3 DEF ServeCreate
        <3> QED
            BY <1>4, <3>1
    <2>4. CASE ServeUpdate(r)
        <3>1. Refuse(r)
              \/ Ok(r, <<[id |-> wire[r].to, setting |-> wire[r].body, lock |-> NoState]>>)
            BY <2>4 DEF ServeUpdate
        <3> QED
            BY <1>3, <1>4, <3>1
    <2> QED
        BY <1>5, <2>1, <2>2, <2>3, <2>4 DEF Serve
<1>6. ASSUME NEW r \in Request, Arrive(r)
      PROVE  SavesReportNoState'
    BY <1>2, <1>6 DEF Arrive, DoorsArrive, OperationEnds, SaveEnds, SaveFails, fetchDoorsEnds,
                      LoadingFailed, operateEnds, operateFailed, createDoorEnds, updateDoorEnds
<1>7. ASSUME NEW r \in Request, Refresh(r) \/ handleSubmit(r) \/ Lose(r)
      PROVE  SavesReportNoState'
    BY <1>1, <1>3, <1>7 DEF Refresh, fetchDoors, handleSubmit, Loading, Lose
<1>8. ASSUME NEW r \in Request, NEW op \in Operation, NEW d \in Door, Press(r, op, d)
      PROVE  SavesReportNoState'
    BY <1>1, <1>8 DEF Press, operate
<1>9. CASE handleOpenEdit \/ handleOpenAdd \/ Edit \/ Close \/ Tick \/ ChangeElsewhere
           \/ UNCHANGED vars
    <2>1. wire' = wire
        BY <1>9 DEF handleOpenEdit, handleOpenAdd, Open, Edit, Close, Tick, ChangeElsewhere, vars
    <2> QED
        BY <2>1 DEF SavesReportNoState, Asks
<1> QED
    BY <1>5, <1>6, <1>7, <1>8, <1>9 DEF Next, Use

LEMMA CountdownNext ==
    ASSUME TypeOK, SavesReportNoState, NoCountdownWhileLocked, [Next]_vars
    PROVE  NoCountdownWhileLocked'
<1> USE DEF NoCountdownWhileLocked
<1>0. /\ doors \in Seq(DoorRecord)
      /\ autoLockCountdowns \in [Door -> 0..DaySeconds]
    BY DEF TypeOK
<1>1. CASE UNCHANGED <<doors, autoLockCountdowns>>
    BY <1>1
<1>2. ASSUME NEW r \in Request, fetchDoorsEnds(r)
      PROVE  NoCountdownWhileLocked'
    <2>1. wire[r].answer \in Seq(DoorRecord)
        BY DEF TypeOK, CallType
    <2>2. doors' = wire[r].answer
        BY <1>2 DEF fetchDoorsEnds
    <2>3. \A i \in DOMAIN doors' : doors'[i] \in DoorRecord
        BY <2>1, <2>2
    <2>4. \A i \in DOMAIN doors' : doors'[i].id \in Listed(wire[r].answer) \cap Door
        BY <2>2, <2>3 DEF Listed, DoorRecord
    <2>5. \A d \in Listed(wire[r].answer) \cap Door : autoLockCountdowns'[d] = 0
        BY <1>2 DEF fetchDoorsEnds
    <2> QED
        BY <2>4, <2>5
<1>3. ASSUME NEW r \in Request, createDoorEnds(r)
      PROVE  NoCountdownWhileLocked'
    <2>1. wire[r].answer \in Seq(DoorRecord) /\ Len(wire[r].answer) = 1
        BY <1>3 DEF createDoorEnds, Resolved, Asks, TypeOK, CallType
    <2>2. wire[r].answer[1].lock # "Locked"
        BY <1>3, StateAssumption DEF createDoorEnds, Resolved, Asks, SavesReportNoState, LockState
    <2>3. \A i \in DOMAIN doors' :
            (i \in DOMAIN doors /\ doors'[i] = doors[i]) \/ doors'[i] = wire[r].answer[1]
        BY <1>0, <1>3, <2>1, ConcatProperties DEF createDoorEnds
    <2> QED
        BY <1>3, <2>2, <2>3 DEF createDoorEnds
<1>4. ASSUME NEW r \in Request, updateDoorEnds(r)
      PROVE  NoCountdownWhileLocked'
    <2>1. wire[r].answer[1].lock # "Locked"
        BY <1>4, StateAssumption DEF updateDoorEnds, Resolved, Asks, SavesReportNoState, LockState
    <2>2. DOMAIN doors' = DOMAIN doors
        BY <1>4 DEF updateDoorEnds, Replace
    <2>3. \A i \in DOMAIN doors : doors'[i] \in {doors[i], wire[r].answer[1]}
        BY <1>4 DEF updateDoorEnds, Replace
    <2> QED
        BY <1>4, <2>1, <2>2, <2>3 DEF updateDoorEnds
<1>5. ASSUME NEW r \in Request, NEW op \in Operation, operateEnds(r, op)
      PROVE  NoCountdownWhileLocked'
    <2>1. PICK d \in Door : d = wire[r].to
        BY <1>5 DEF operateEnds, Resolved, Asks, TypeOK
    <2>2. DOMAIN doors' = DOMAIN doors
        BY <1>5 DEF operateEnds, Replace
    <2>3. \A i \in DOMAIN doors : doors[i] \in DoorRecord
        BY <1>0
    <2>4. \A i \in DOMAIN doors :
            doors'[i] = IF doors[i].id = d THEN [doors[i] EXCEPT !.lock = After(op)] ELSE doors[i]
        BY <1>5, <2>1 DEF operateEnds, Replace
    <2>5. \A i \in DOMAIN doors : doors'[i].id = doors[i].id
        BY <2>3, <2>4 DEF DoorRecord
    <2>6. \A i \in DOMAIN doors :
            doors'[i].lock = IF doors[i].id = d THEN After(op) ELSE doors[i].lock
        BY <2>3, <2>4 DEF DoorRecord
    <2>7. \A e \in Door :
            autoLockCountdowns'[e] =
                IF e = d THEN IF op = "lock" THEN 0 ELSE DaySeconds ELSE autoLockCountdowns[e]
        BY <1>0, <1>5, <2>1 DEF operateEnds
    <2>8. \A i \in DOMAIN doors : doors[i].id \in Door
        BY <2>3 DEF DoorRecord
    <2> QED
        BY <2>2, <2>5, <2>6, <2>7, <2>8 DEF After, Operation
<1>6. CASE Tick
    <2>1. \A d \in Door : autoLockCountdowns'[d] > 0 => autoLockCountdowns[d] > 0
        BY <1>0, <1>6 DEF Tick, tickCountdowns
    <2>2. \A i \in DOMAIN doors : doors[i].id \in Door
        <3>1. \A i \in DOMAIN doors : doors[i] \in DoorRecord
            BY <1>0
        <3> QED
            BY <3>1 DEF DoorRecord
    <2>3. doors' = doors
        BY <1>6 DEF Tick, tickCountdowns
    <2> QED
        BY <2>1, <2>2, <2>3
<1>7. ASSUME NEW r \in Request, Arrive(r)
      PROVE  NoCountdownWhileLocked'
    <2>1. CASE \E kind : LoadingFailed(r, kind) \/ operateFailed(r, kind)
        BY <1>1, <2>1 DEF LoadingFailed, operateFailed
    <2> QED
        BY <1>2, <1>3, <1>4, <1>5, <1>7, <2>1
           DEF Arrive, DoorsArrive, OperationEnds, SaveEnds, SaveFails
<1>8. ASSUME NEW r \in Request, Refresh(r) \/ handleSubmit(r) \/ Serve(r) \/ Lose(r)
      PROVE  NoCountdownWhileLocked'
    BY <1>1, <1>8 DEF Refresh, fetchDoors, handleSubmit, Loading, Serve, Lose, store
<1>9. ASSUME NEW r \in Request, NEW op \in Operation, NEW d \in Door, Press(r, op, d)
      PROVE  NoCountdownWhileLocked'
    BY <1>1, <1>9 DEF Press, operate
<1>10. CASE handleOpenEdit \/ handleOpenAdd \/ Edit \/ Close \/ ChangeElsewhere
            \/ UNCHANGED vars
    BY <1>1, <1>10 DEF handleOpenEdit, handleOpenAdd, Open, Edit, Close, ChangeElsewhere, vars,
                       store
<1> QED
    BY <1>6, <1>7, <1>8, <1>9, <1>10 DEF Next, Use

\* No card counts down next to a state reported or set as Locked, in whatever order
\* lists, operations and saves end.
THEOREM CountdownsAreForUnlocked == Spec => []NoCountdownWhileLocked
<1>1. Init => SavesReportNoState /\ NoCountdownWhileLocked
    BY DEF Init, SavesReportNoState, NoCountdownWhileLocked, Asks, Call, NoCall
<1>2. TypeOK /\ SavesReportNoState /\ [Next]_vars => SavesReportNoState'
    BY ReportsNext
<1>3. /\ TypeOK /\ SavesReportNoState /\ NoCountdownWhileLocked /\ [Next]_vars
      => NoCountdownWhileLocked'
    BY CountdownNext
<1> QED
    BY <1>1, <1>2, <1>3, DashboardTypes, PTL DEF Spec
=============================================================================
