-------------------------- MODULE UserAdminProofs --------------------------
(***************************************************************************)
(* Proofs about UserAdmin for any users, PINs and numbers of calls under   *)
(* way.                                                                    *)
(***************************************************************************)
EXTENDS UserAdmin, FiniteSetTheorems, SequenceTheorems, TLAPS

----------------------------------------------------------------------------
(* Types *)

\* Strengthening: the rows of an answer are of the kind that was asked for.
CallOK(c) ==
    /\ c \in CallType(Kind, User, Pin \cup Policy, User \cup Pin)
    /\ c.kind \in {"deleteUser", "deletePin", "setPin", "policy"} => c.to \in User
    /\ c.kind = "deletePin" => c.body \in Pin
    /\ c.kind \in {"setPin", "policy"} => c.body \in Policy
    /\ c.kind \in {"users", "createUser"} => c.answer \in Seq(User)
    /\ c.kind = "setPin" => c.answer \in Seq(Pin)

WireOK == /\ wire \in [Request -> CallType(Kind, User, Pin \cup Policy, User \cup Pin)]
          /\ \A r \in Request : CallOK(wire[r])

TablesOK ==
    /\ members \subseteq User
    /\ owner \in [Pin -> User \cup {NoUser}]
    /\ unborn \subseteq User \cup Pin
    /\ unsure \subseteq User \cup Pin

CardsOK ==
    /\ users \in [User -> Nat]
    /\ credentials \in [User -> SUBSET Pin]

PageOK ==
    /\ isAddUserOpen \in BOOLEAN
    /\ pinModalUser \in User \cup {NoUser}
    /\ isAddUserOpen => pinModalUser = NoUser
    /\ policyData \in Policy
    /\ mine \subseteq Request

TypeInvariant == WireOK /\ TablesOK /\ CardsOK /\ PageOK

LEMMA TypeInvariantTypes == TypeInvariant => TypeOK
BY DEF TypeInvariant, TypeOK, WireOK, CallOK, TablesOK, CardsOK, PageOK

LEMMA BecomesOK ==
    ASSUME WireOK, NEW r \in Request, NEW c, CallOK(c), Becomes(r, c)
    PROVE  WireOK'
BY DEF WireOK, CallOK, Becomes

LEMMA NoCallOK == CallOK(NoCall)
BY DEF CallOK, NoCall, Call, CallType, Stage

LEMMA EndOK ==
    ASSUME WireOK, NEW r \in Request, NEW kind, Resolved(r, kind) \/ Rejected(r, kind)
    PROVE  WireOK'
BY NoCallOK, BecomesOK DEF Resolved, Rejected

LEMMA NewCallOK ==
    ASSUME NEW kind \in Kind, NEW to, NEW body,
           kind \in {"users", "createUser"} => to = Nothing,
           kind \in {"deleteUser", "deletePin", "setPin", "policy"} => to \in User,
           kind \in {"users", "createUser", "deleteUser"} => body = Nothing,
           kind = "deletePin" => body \in Pin,
           kind \in {"setPin", "policy"} => body \in Policy
    PROVE  CallOK(Call(kind, to, body))
<1> DEFINE c == Call(kind, to, body)
<1>1. c \in CallType(Kind, User, Pin \cup Policy, User \cup Pin)
    <2>1. to \in User \cup {Nothing} /\ body \in Pin \cup Policy \cup {Nothing}
        BY DEF Kind
    <2>2. <<>> \in Seq(User \cup Pin)
        BY EmptySeq
    <2> QED
        BY <2>1, <2>2 DEF Call, CallType, Stage
<1>2. c.kind = kind /\ c.to = to /\ c.body = body /\ c.answer = <<>>
    BY DEF Call
<1> HIDE DEF c
<1>3. <<>> \in Seq(User) /\ <<>> \in Seq(Pin)
    BY EmptySeq
<1>4. /\ c.kind \in {"deleteUser", "deletePin", "setPin", "policy"} => c.to \in User
      /\ c.kind = "deletePin" => c.body \in Pin
      /\ c.kind \in {"setPin", "policy"} => c.body \in Policy
    BY <1>2
<1>5. /\ c.kind \in {"users", "createUser"} => c.answer \in Seq(User)
      /\ c.kind = "setPin" => c.answer \in Seq(Pin)
    BY <1>2, <1>3
<1>6. CallOK(c)
    BY <1>1, <1>4, <1>5 DEF CallOK
<1> QED
    BY <1>6 DEF c

LEMMA FailedOK ==
    ASSUME WireOK, NEW r \in Request, Refuse(r) \/ Lost(r)
    PROVE  WireOK'
<1> DEFINE refused == [wire[r] EXCEPT !.stage = "failed"]
           lost == [wire[r] EXCEPT !.stage = "failed", !.answer = <<>>]
<1>1. /\ refused \in CallType(Kind, User, Pin \cup Policy, User \cup Pin)
      /\ lost \in CallType(Kind, User, Pin \cup Policy, User \cup Pin)
    BY EmptySeq DEF WireOK, CallType, Stage
<1>2. /\ refused.kind = wire[r].kind /\ refused.to = wire[r].to
      /\ refused.body = wire[r].body /\ refused.answer = wire[r].answer
      /\ lost.kind = wire[r].kind /\ lost.to = wire[r].to
      /\ lost.body = wire[r].body /\ lost.answer = <<>>
    BY DEF WireOK, CallType
<1>3. Becomes(r, refused) \/ Becomes(r, lost)
    BY DEF Refuse, Lost
<1> HIDE DEF refused, lost
<1>4. CallOK(refused) /\ CallOK(lost)
    BY <1>1, <1>2, EmptySeq DEF WireOK, CallOK
<1> QED
    BY <1>3, <1>4, BecomesOK

LEMMA AnswerOK ==
    ASSUME WireOK, NEW r \in Request, NEW answer \in Seq(User \cup Pin),
           wire[r].kind \in {"users", "createUser"} => answer \in Seq(User),
           wire[r].kind = "setPin" => answer \in Seq(Pin),
           Ok(r, answer)
    PROVE  WireOK'
<1> DEFINE c == [wire[r] EXCEPT !.stage = "answered", !.answer = answer]
<1>1. c \in CallType(Kind, User, Pin \cup Policy, User \cup Pin)
    BY DEF WireOK, CallType, Stage
<1>2. c.kind = wire[r].kind /\ c.to = wire[r].to /\ c.body = wire[r].body /\ c.answer = answer
    BY DEF WireOK, CallType
<1>3. Becomes(r, c)
    BY DEF Ok
<1> HIDE DEF c
<1>4. CallOK(c)
    BY <1>1, <1>2 DEF WireOK, CallOK
<1> QED
    BY <1>3, <1>4, BecomesOK

\* The users of a list are members.
LEMMA ListType ==
    ASSUME TablesOK
    PROVE  SetToSeq(members) \in Seq(User) /\ ToSet(SetToSeq(members)) \subseteq members
<1>1. IsFiniteSet(members)
    BY UserAssumption, FS_Subset DEF TablesOK
<1>2. Cardinality(members) \in Nat /\ ExistsBijection(1..Cardinality(members), members)
    BY <1>1, FS_CardinalityType
<1>3. \E f \in [1..Cardinality(members) -> members] : IsInjective(f)
    BY <1>2 DEF ExistsBijection, Bijection, Injection, IsInjective
<1>4. SetToSeq(members) \in [1..Cardinality(members) -> members]
    BY <1>3 DEF SetToSeq
<1> QED
    BY <1>2, <1>4 DEF TablesOK, ToSet

LEMMA ServeOK ==
    ASSUME TypeInvariant, NEW r \in Request, Serve(r)
    PROVE  TypeInvariant'
<1> USE DEF TypeInvariant
<1>1. wire[r].kind \in {"deleteUser", "deletePin", "setPin", "policy"} => wire[r].to \in User
    BY DEF WireOK, CallOK
<1>2. CardsOK' /\ PageOK' /\ unsure' = unsure
    BY DEF Serve, store, page, CardsOK, PageOK
<1>3. CASE ServeUsers(r)
    <2>1. Ok(r, SetToSeq(members)) /\ wire[r].kind = "users"
        BY <1>3 DEF ServeUsers, Asks
    <2>2. SetToSeq(members) \in Seq(User \cup Pin)
        BY ListType, SeqMonotonic
    <2>3. WireOK'
        BY <2>1, <2>2, ListType, AnswerOK
    <2> QED
        BY <1>2, <1>3, <2>3 DEF ServeUsers, server, TablesOK
<1>4. CASE ServeCreateUser(r)
    <2>1. PICK u \in unborn \cap User :
            members' = members \cup {u} /\ unborn' = unborn \ {u} /\ Ok(r, <<u>>)
        BY <1>4 DEF ServeCreateUser
    <2>2. <<u>> \in Seq(User) /\ <<u>> \in Seq(User \cup Pin)
        BY <2>1
    <2>3. WireOK'
        BY <1>4, <2>1, <2>2, AnswerOK DEF ServeCreateUser, Asks
    <2> QED
        BY <1>2, <1>4, <2>1, <2>3 DEF ServeCreateUser, TablesOK
<1>5. CASE ServeDeleteUser(r)
    <2>1. WireOK'
        BY <1>5, AnswerOK, FailedOK, EmptySeq DEF ServeDeleteUser, Asks
    <2> QED
        BY <1>2, <1>5, <2>1 DEF ServeDeleteUser, RemoveUser, TablesOK
<1>6. CASE ServeSetPin(r)
    <2>1. CASE Refuse(r) /\ UNCHANGED server
        BY <1>2, <2>1, FailedOK DEF server, TablesOK
    <2>2. CASE ~ (Refuse(r) /\ UNCHANGED server)
        <3>1. PICK c \in unborn \cap Pin :
                /\ owner' = [owner EXCEPT ![c] = wire[r].to]
                /\ unborn' = unborn \ {c}
                /\ members' = members
                /\ Ok(r, <<c>>)
            BY <1>6, <2>2 DEF ServeSetPin
        <3>2. <<c>> \in Seq(Pin) /\ <<c>> \in Seq(User \cup Pin)
            BY <3>1
        <3>3. wire[r].kind = "setPin" /\ wire[r].to \in User
            BY <1>1, <1>6 DEF ServeSetPin, Asks
        <3>4. WireOK'
            BY <3>1, <3>2, <3>3, AnswerOK
        <3> QED
            BY <1>2, <3>1, <3>3, <3>4 DEF TablesOK
    <2> QED
        BY <2>1, <2>2
<1>7. CASE ServeDeletePin(r)
    <2>1. wire[r].body \in Pin
        BY <1>7 DEF ServeDeletePin, Asks, WireOK, CallOK
    <2>2. WireOK'
        BY <1>7, AnswerOK, EmptySeq DEF ServeDeletePin, Asks
    <2> QED
        BY <1>2, <1>7, <2>1, <2>2 DEF ServeDeletePin, TablesOK
<1>8. CASE ServePolicy(r)
    <2>1. WireOK'
        BY <1>8, AnswerOK, FailedOK, EmptySeq DEF ServePolicy, Asks
    <2> QED
        BY <1>2, <1>8, <2>1 DEF ServePolicy, server, TablesOK
<1> QED
    BY <1>3, <1>4, <1>5, <1>6, <1>7, <1>8 DEF Serve

\* A button that sends a call.
LEMMA AskOK ==
    ASSUME TypeInvariant, NEW r \in Request, NEW kind, NEW to, NEW body,
           Ask(r, kind, to, body), CallOK(Call(kind, to, body))
    PROVE  WireOK' /\ TablesOK' /\ CardsOK' /\ mine' \subseteq Request
BY BecomesOK DEF TypeInvariant, Ask, Send, server, store, TablesOK, CardsOK, PageOK

LEMMA StandardType == StandardAccess \in Policy
BY TypeAssumption, PolicyAssumption DEF StandardAccess

LEMMA UseOK ==
    ASSUME TypeInvariant, Use
    PROVE  TypeInvariant'
<1> USE DEF TypeInvariant
<1>1. ASSUME NEW r \in Request, NEW u \in User, deleteUser(r, u)
      PROVE  TypeInvariant'
    <2>1. CallOK(Call("deleteUser", u, Nothing))
        BY NewCallOK DEF Kind
    <2> QED
        BY <1>1, <2>1, AskOK DEF deleteUser, PageOK
<1>2. ASSUME NEW r \in Request, NEW u \in User, deleteCredential(r, u)
      PROVE  TypeInvariant'
    <2>1. PICK c \in credentials[u] : Ask(r, "deletePin", u, c)
        BY <1>2 DEF deleteCredential
    <2>2. CallOK(Call("deletePin", u, c))
        BY NewCallOK DEF CardsOK, Kind
    <2> QED
        BY <1>2, <2>1, <2>2, AskOK DEF deleteCredential, PageOK
<1>3. ASSUME NEW u \in User, OpenPinModal(u)
      PROVE  TypeInvariant'
    <2>1. WireOK'
        BY <1>3 DEF OpenPinModal, WireOK, CallOK
    <2> QED
        BY <1>3, <2>1
           DEF OpenPinModal, Uncovered, server, store, TablesOK, CardsOK, PageOK
<1>4. ASSUME NEW r \in Request, handleCreateUser(r)
      PROVE  TypeInvariant'
    <2>1. CallOK(Call("createUser", Nothing, Nothing))
        BY NewCallOK DEF Kind
    <2> QED
        BY <1>4, <2>1, AskOK DEF handleCreateUser, PageOK
<1>5. ASSUME NEW r \in Request, handleSavePinAndSchedule(r)
      PROVE  TypeInvariant'
    <2>1. CallOK(Call("setPin", pinModalUser, policyData))
        BY <1>5, NewCallOK DEF handleSavePinAndSchedule, PageOK, Kind
    <2> QED
        BY <1>5, <2>1, AskOK DEF handleSavePinAndSchedule, PageOK
<1>6. CASE OpenAddUser \/ Leave \/ Close \/ EditSchedule
    <2>1. WireOK' /\ TablesOK' /\ CardsOK'
        BY <1>6 DEF OpenAddUser, Leave, Close, EditSchedule, server, store, WireOK, CallOK,
                    TablesOK, CardsOK
    <2>2. CASE OpenAddUser \/ Leave \/ Close
        BY <2>1, <2>2, StandardType DEF OpenAddUser, Uncovered, Leave, Close, PageOK
    <2>3. CASE EditSchedule
        <3>1. policyData' \in Policy
            BY <2>3, MaxUsesAssumption, PolicyAssumption
               DEF EditSchedule, handleTypeChange, chooseUses, PageOK
        <3> QED
            BY <2>1, <2>3, <3>1 DEF EditSchedule, PageOK
    <2> QED
        BY <1>6, <2>2, <2>3
<1> QED
    BY <1>1, <1>2, <1>3, <1>4, <1>5, <1>6 DEF Use

LEMMA ArriveOK ==
    ASSUME TypeInvariant, NEW r \in Request, Arrive(r)
    PROVE  TypeInvariant'
<1> USE DEF TypeInvariant
<1>1. wire[r] \in CallType(Kind, User, Pin \cup Policy, User \cup Pin) /\ CallOK(wire[r])
    BY DEF WireOK
<1>2. CASE UsersArrive(r)
    <2>1. wire[r].answer \in Seq(User)
        BY <1>1, <1>2 DEF UsersArrive, fetchUsersEnds, Resolved, Asks, CallOK
    <2>2. WireOK'
        BY <1>2, EndOK DEF UsersArrive, fetchUsersEnds
    <2> QED
        BY <1>2, <2>1, <2>2
           DEF UsersArrive, fetchUsersEnds, server, page, ToSet, TablesOK, CardsOK, PageOK
<1>3. CASE UserCreated(r)
    <2>1. wire[r].answer \in Seq(User)
        BY <1>1, <1>3 DEF UserCreated, createUserEnds, Resolved, Asks, CallOK
    <2>2. WireOK'
        BY <1>3, EndOK DEF UserCreated, createUserEnds
    <2> QED
        BY <1>3, <2>1, <2>2
           DEF UserCreated, createUserEnds, server, ToSet, TablesOK, CardsOK, PageOK
<1>4. CASE UserDeleted(r)
    <2>1. wire[r].to \in User
        BY <1>1, <1>4 DEF UserDeleted, deleteUserEnds, Resolved, Asks, CallOK
    <2>2. WireOK'
        BY <1>4, EndOK DEF UserDeleted, deleteUserEnds
    <2> QED
        BY <1>4, <2>1, <2>2
           DEF UserDeleted, deleteUserEnds, server, TablesOK, CardsOK, PageOK
<1>5. CASE PinSet(r)
    <2>1. /\ wire[r].to \in User /\ wire[r].body \in Policy
          /\ wire[r].answer \in Seq(Pin)
        BY <1>1, <1>5 DEF PinSet, setPinEnds, Asks, CallOK
    <2>2. CallOK(Call("policy", wire[r].to, wire[r].body))
        BY <2>1, NewCallOK DEF Kind
    <2>3. WireOK'
        BY <1>5, <2>2, BecomesOK DEF PinSet, setPinEnds
    <2> QED
        BY <1>5, <2>1, <2>3
           DEF PinSet, setPinEnds, server, page, ToSet, TablesOK, CardsOK, PageOK
<1>6. CASE PolicySaved(r)
    <2>1. WireOK'
        BY <1>6, EndOK DEF PolicySaved, savePolicyEnds
    <2> QED
        BY <1>6, <2>1
           DEF PolicySaved, savePolicyEnds, server, store, TablesOK, CardsOK, PageOK
<1>7. CASE PinDeleted(r)
    <2>1. WireOK'
        BY <1>7, EndOK DEF PinDeleted, deletePinEnds
    <2> QED
        BY <1>7, <2>1
           DEF PinDeleted, deletePinEnds, server, TablesOK, CardsOK, PageOK
<1>8. CASE Fail(r)
    <2>1. WireOK'
        BY <1>8, EndOK DEF Fail, Throws
    <2>2. unsure' \subseteq User \cup Pin
        BY <1>1, <1>8 DEF Fail, CallOK, TablesOK
    <2> QED
        BY <1>8, <2>1, <2>2 DEF Fail, Throws, server, store, TablesOK, CardsOK, PageOK
<1> QED
    BY <1>2, <1>3, <1>4, <1>5, <1>6, <1>7, <1>8 DEF Arrive

LEMMA TypeNext == TypeInvariant /\ [Next]_vars => TypeInvariant'
<1> SUFFICES ASSUME TypeInvariant, [Next]_vars
             PROVE  TypeInvariant'
    OBVIOUS
<1>1. ASSUME NEW r \in Request, Lose(r)
      PROVE  TypeInvariant'
    BY <1>1, FailedOK DEF Lose, server, store, page, TypeInvariant, TablesOK, CardsOK, PageOK
<1>2. CASE DeleteElsewhere
    <2>1. WireOK'
        BY <1>2 DEF DeleteElsewhere, TypeInvariant, WireOK, CallOK
    <2>2. TablesOK'
        BY <1>2 DEF DeleteElsewhere, RemoveUser, TypeInvariant, TablesOK
    <2> QED
        BY <1>2, <2>1, <2>2 DEF DeleteElsewhere, store, page, TypeInvariant, CardsOK, PageOK
<1>3. CASE UNCHANGED vars
    <2>1. WireOK'
        BY <1>3 DEF vars, TypeInvariant, WireOK, CallOK
    <2> QED
        BY <1>3, <2>1 DEF vars, server, store, page, TypeInvariant, TablesOK, CardsOK, PageOK
<1> QED
    BY <1>1, <1>2, <1>3, UseOK, ServeOK, ArriveOK DEF Next

LEMMA TypeInit == Init => TypeInvariant
<1> SUFFICES ASSUME Init
             PROVE  TypeInvariant
    OBVIOUS
<1>1. WireOK
    <2>1. CallOK(Call("users", Nothing, Nothing))
        BY NewCallOK DEF Kind
    <2> QED
        BY <2>1, NoCallOK DEF Init, WireOK, CallOK
<1>2. TablesOK /\ CardsOK
    BY DEF Init, TablesOK, CardsOK
<1>3. PageOK
    BY StandardType DEF Init, PageOK
<1> QED
    BY <1>1, <1>2, <1>3 DEF TypeInvariant

LEMMA TypesAlways == Spec => []TypeInvariant
BY TypeInit, TypeNext, PTL DEF Spec

\* Every variable keeps its type, every call the parameters of its kind, and there is
\* never a second dialog, however late handlers end.
THEOREM UserAdminTypes == Spec => []TypeOK
BY TypesAlways, TypeInvariantTypes, PTL

----------------------------------------------------------------------------
(* What becomes of a call *)

OthersSame(r) == \A q \in Request \ {r} : wire'[q] = wire[q]

\* What it asks for never changes.
SameQuestion(r) ==
    wire'[r].kind = wire[r].kind /\ wire'[r].to = wire[r].to /\ wire'[r].body = wire[r].body

LEMMA ServedCall ==
    ASSUME TypeInvariant, NEW r \in Request, NEW answer, Ok(r, answer)
    PROVE  /\ OthersSame(r) /\ SameQuestion(r)
           /\ wire'[r].stage = "answered" /\ wire'[r].answer = answer
<1>1. wire[r] \in CallType(Kind, User, Pin \cup Policy, User \cup Pin)
    BY DEF TypeInvariant, WireOK
<1>2. OthersSame(r) /\ wire'[r] = [wire[r] EXCEPT !.stage = "answered", !.answer = answer]
    BY DEF Ok, Becomes, TypeInvariant, WireOK, OthersSame
<1> QED
    BY <1>1, <1>2 DEF CallType, SameQuestion

LEMMA FailedCall ==
    ASSUME TypeInvariant, NEW r \in Request, Refuse(r) \/ Lost(r)
    PROVE  OthersSame(r) /\ SameQuestion(r) /\ wire'[r].stage = "failed"
<1>1. wire[r] \in CallType(Kind, User, Pin \cup Policy, User \cup Pin)
    BY DEF TypeInvariant, WireOK
<1>2. /\ OthersSame(r)
      /\ wire'[r] \in {[wire[r] EXCEPT !.stage = "failed"],
                       [wire[r] EXCEPT !.stage = "failed", !.answer = <<>>]}
    BY DEF Refuse, Lost, Becomes, TypeInvariant, WireOK, OthersSame
<1> QED
    BY <1>1, <1>2 DEF CallType, SameQuestion

LEMMA NewCall ==
    ASSUME TypeInvariant, NEW r \in Request, NEW kind, NEW to, NEW body,
           Becomes(r, Call(kind, to, body))
    PROVE  /\ OthersSame(r)
           /\ wire'[r].kind = kind /\ wire'[r].to = to /\ wire'[r].body = body
           /\ wire'[r].stage = "sent"
BY DEF Becomes, TypeInvariant, WireOK, OthersSame, Call

LEMMA EndedCall ==
    ASSUME TypeInvariant, NEW r \in Request, NEW kind, Resolved(r, kind) \/ Rejected(r, kind)
    PROVE  /\ OthersSame(r) /\ wire[r].kind = kind
           /\ wire'[r].kind = "free" /\ wire'[r].stage = "sent"
BY DEF Resolved, Rejected, Asks, Becomes, NoCall, TypeInvariant, WireOK, OthersSame, Call

----------------------------------------------------------------------------
(* Passes *)

Counted(p) == p.scheduleType = "OneTime" <=> p.remainingUses # Unset

\* No way through the dialog loses the number of a pass or numbers another schedule.
LEMMA DraftCounted ==
    ASSUME policyData \in Policy, Counted(policyData), EditSchedule
    PROVE  Counted(policyData')
<1>1. ASSUME NEW type \in ScheduleType, handleTypeChange(type)
      PROVE  Counted(policyData')
    BY <1>1, UnsetAssumption, MaxUsesAssumption, PolicyAssumption DEF handleTypeChange, Counted
<1>2. ASSUME NEW n \in 1..MaxUses, chooseUses(n)
      PROVE  Counted(policyData')
    BY <1>2, UnsetAssumption, PolicyAssumption DEF chooseUses, Counted
<1> QED
    BY <1>1, <1>2 DEF EditSchedule

LEMMA PassesNext ==
    ASSUME TypeInvariant, PassesCountUses, [Next]_vars
    PROVE  PassesCountUses'
<1> DEFINE CountedCalls == \A r \in Request :
                wire[r].kind \in {"setPin", "policy"} => Counted(wire[r].body)
<1>0. /\ PassesCountUses <=> Counted(policyData) /\ CountedCalls
      /\ PassesCountUses' <=> Counted(policyData') /\ CountedCalls'
    BY DEF PassesCountUses, Counted
<1>1. ASSUME NEW r \in Request, NEW c, Becomes(r, c),
             c.kind \in {"setPin", "policy"} => Counted(c.body)
      PROVE  CountedCalls'
    BY <1>0, <1>1 DEF Becomes, TypeInvariant, WireOK
<1>2. ASSUME NEW r \in Request, Serve(r) \/ Lose(r)
      PROVE  PassesCountUses'
    <2>1. /\ \A q \in Request \ {r} : wire'[q] = wire[q]
          /\ wire'[r].kind = wire[r].kind /\ wire'[r].body = wire[r].body
        BY <1>2, ServedCall, FailedCall
           DEF OthersSame, SameQuestion, Serve, Lose, ServeUsers, ServeCreateUser, ServeDeleteUser, ServeSetPin,
               ServeDeletePin, ServePolicy
    <2>2. CountedCalls'
        BY <1>0, <2>1
    <2>3. policyData' = policyData
        BY <1>2 DEF Serve, Lose, page
    <2> QED
        BY <1>0, <2>2, <2>3
<1>3. ASSUME NEW r \in Request, Arrive(r)
      PROVE  PassesCountUses'
    <2>1. policyData' = policyData
        BY <1>3 DEF Arrive, UsersArrive, UserCreated, UserDeleted, PinSet, PolicySaved, PinDeleted,
                    Fail, page
    <2>2. CASE PinSet(r)
        <3>1. Becomes(r, Call("policy", wire[r].to, wire[r].body)) /\ wire[r].kind = "setPin"
            BY <2>2 DEF PinSet, setPinEnds, Asks
        <3>2. Counted(Call("policy", wire[r].to, wire[r].body).body)
            BY <1>0, <3>1 DEF Call
        <3> QED
            BY <1>0, <1>1, <2>1, <3>1, <3>2
    <2>3. CASE ~PinSet(r)
        <3>1. Becomes(r, NoCall)
            BY <1>3, <2>3
               DEF Arrive, UsersArrive, UserCreated, UserDeleted, PolicySaved, PinDeleted, Fail,
                   fetchUsersEnds, createUserEnds, deleteUserEnds, savePolicyEnds, deletePinEnds,
                   Throws, Resolved, Rejected
        <3>2. NoCall.kind = "free"
            BY DEF NoCall, Call
        <3> QED
            BY <1>0, <1>1, <2>1, <3>1, <3>2
    <2> QED
        BY <2>2, <2>3
<1>4. ASSUME NEW r \in Request, NEW kind, NEW to, NEW body, Ask(r, kind, to, body),
             kind \in {"setPin", "policy"} => Counted(body)
      PROVE  CountedCalls'
    <2>1. Becomes(r, Call(kind, to, body))
        BY <1>4 DEF Ask, Send
    <2>2. Call(kind, to, body).kind = kind /\ Call(kind, to, body).body = body
        BY DEF Call
    <2> QED
        BY <1>1, <1>4, <2>1, <2>2
<1>5. CASE Use
    <2>1. ASSUME NEW r \in Request, NEW u \in User, deleteUser(r, u) \/ deleteCredential(r, u)
          PROVE  PassesCountUses'
        BY <1>0, <1>4, <2>1 DEF deleteUser, deleteCredential
    <2>2. ASSUME NEW r \in Request, handleCreateUser(r) \/ handleSavePinAndSchedule(r)
          PROVE  PassesCountUses'
        BY <1>0, <1>4, <2>2 DEF handleCreateUser, handleSavePinAndSchedule
    <2>3. CASE (\E u \in User : OpenPinModal(u)) \/ OpenAddUser \/ Close
        BY <1>0, <2>3 DEF OpenPinModal, OpenAddUser, Close
    <2>4. CASE Leave
        <3>1. Counted(StandardAccess)
            BY DEF Counted, StandardAccess
        <3> QED
            BY <1>0, <2>4, <3>1 DEF Leave
    <2>5. CASE EditSchedule
        <3>1. Counted(policyData')
            BY <1>0, <2>5, DraftCounted DEF TypeInvariant, PageOK
        <3> QED
            BY <1>0, <2>5, <3>1 DEF EditSchedule
    <2> QED
        BY <1>5, <2>1, <2>2, <2>3, <2>4, <2>5 DEF Use
<1>6. CASE DeleteElsewhere \/ UNCHANGED vars
    BY <1>0, <1>6 DEF DeleteElsewhere, vars, page
<1> QED
    BY <1>2, <1>3, <1>5, <1>6 DEF Next

\* Every schedule that is drafted or saved counts uses exactly when it is a pass.
THEOREM PassesAreCounted == Spec => []PassesCountUses
<1>1. Init => PassesCountUses
    BY DEF Init, PassesCountUses, StandardAccess, Call, NoCall
<1>2. TypeInvariant /\ PassesCountUses /\ [Next]_vars => PassesCountUses'
    BY PassesNext
<1> QED
    BY <1>1, <1>2, TypesAlways, PTL DEF Spec

----------------------------------------------------------------------------
(* What is shown is there: the inductive invariant *)

\* r brings user u, or has set PIN c for u.
BringsUser(r, u) ==
    /\ Asks(r, "users", "answered") \/ Asks(r, "createUser", "answered")
    /\ u \in ToSet(wire[r].answer)
BringsPin(r, u, c) ==
    Asks(r, "setPin", "answered") /\ wire[r].to = u /\ c \in ToSet(wire[r].answer)

DropsPin(r, u, c) == wire[r].kind = "deletePin" /\ wire[r].to = u /\ wire[r].body = c

\* Who was never created is in no table, on no card and on no way to one.
UnbornAreUnknown ==
    /\ \A u \in User \cap unborn :
        /\ u \notin members /\ u \notin Shown /\ credentials[u] = {}
        /\ \A r \in Request : ~BringsUser(r, u)
        /\ \A r \in Request, c \in Pin : ~BringsPin(r, u, c)
    /\ \A c \in Pin : owner[c] \in members \cup {NoUser}

\* A user who is shown, or about to be.
UsersKnown ==
    \A u \in User :
        u \in Shown \/ (\E r \in Request : BringsUser(r, u))
            => u \in members \cup unsure \/ UserGoes(u)

\* A PIN that is shown for a user who is there, or about to be.
PinsKnown ==
    \A u \in members, c \in Pin :
        c \in credentials[u] \/ (\E r \in Request : BringsPin(r, u, c))
            => owner[c] = u \/ c \in unsure \/ PinGoes(c)

\* A PIN has one user, wherever it is.
Claims(u, c) ==
    \/ c \in credentials[u]
    \/ owner[c] = u
    \/ \E r \in Request : BringsPin(r, u, c) \/ DropsPin(r, u, c)

OneUserPerPin ==
    \A c \in Pin, u \in User :
        Claims(u, c) => c \notin unborn /\ \A v \in User : Claims(v, c) => u = v

\* A PIN that is about to be shown is shown nowhere else, and cannot be being deleted.
NewPinsAreNew ==
    \A r \in Request, u \in User, c \in Pin :
        BringsPin(r, u, c) =>
            /\ c \notin credentials[u]
            /\ ~PinGoes(c)
            /\ \A q \in Request \ {r} : ~BringsPin(q, u, c)

ShownInvariant ==
    UnbornAreUnknown /\ UsersKnown /\ PinsKnown /\ OneUserPerPin /\ NewPinsAreNew

\* Steps that leave the tables alone and show nothing new, of which deletions under
\* way may end with what they delete no longer shown.
LEMMA ShownKept ==
    ASSUME TypeInvariant, ShownInvariant,
           UNCHANGED <<members, owner, unborn>>,
           unsure \subseteq unsure',
           Shown' \subseteq Shown,
           \A u \in User : credentials'[u] \subseteq credentials[u],
           \A r \in Request, u \in User : BringsUser(r, u)' => BringsUser(r, u),
           \A r \in Request, u \in User, c \in Pin : BringsPin(r, u, c)' => BringsPin(r, u, c),
           \A r \in Request, u \in User, c \in Pin :
                DropsPin(r, u, c)' => DropsPin(r, u, c) \/ c \in credentials[u],
           \A u \in User : UserGoes(u) =>
                \/ UserGoes(u)'
                \/ u \in unsure'
                \/ u \notin Shown' /\ \A r \in Request : ~BringsUser(r, u)',
           \A c \in Pin : PinGoes(c) =>
                \/ PinGoes(c)'
                \/ c \in unsure'
                \/ \A u \in User : c \notin credentials'[u],
           \A c \in Pin : PinGoes(c)' => PinGoes(c) \/ \E u \in User : c \in credentials[u]
    PROVE  ShownInvariant'
<1> USE DEF ShownInvariant
<1>1. members \subseteq User
    BY DEF TypeInvariant, TablesOK
<1>2. UnbornAreUnknown'
    BY DEF UnbornAreUnknown
<1>3. UsersKnown'
    BY DEF UsersKnown
<1>4. PinsKnown'
    <2> SUFFICES ASSUME NEW u \in members, NEW c \in Pin,
                        c \in credentials'[u] \/ \E r \in Request : BringsPin(r, u, c)'
                 PROVE  owner[c] = u \/ c \in unsure' \/ PinGoes(c)'
        BY DEF PinsKnown
    <2>1. c \in credentials[u] \/ \E r \in Request : BringsPin(r, u, c)
        BY <1>1
    <2>2. owner[c] = u \/ c \in unsure \/ PinGoes(c)
        BY <2>1 DEF PinsKnown
    <2>3. CASE PinGoes(c)
        BY <1>1, <2>1, <2>3 DEF NewPinsAreNew
    <2> QED
        BY <2>2, <2>3
<1>5. OneUserPerPin'
    <2>1. \A u \in User, c \in Pin : Claims(u, c)' => Claims(u, c)
        BY DEF Claims
    <2> QED
        BY <2>1 DEF OneUserPerPin
<1>6. NewPinsAreNew'
    <2> SUFFICES ASSUME NEW r \in Request, NEW u \in User, NEW c \in Pin, BringsPin(r, u, c)'
                 PROVE  /\ c \notin credentials'[u]
                        /\ ~PinGoes(c)'
                        /\ \A q \in Request \ {r} : ~BringsPin(q, u, c)'
        BY DEF NewPinsAreNew
    <2>1. BringsPin(r, u, c)
        OBVIOUS
    <2>2. \A v \in User : c \in credentials[v] => v = u
        BY <2>1 DEF OneUserPerPin, Claims
    <2> QED
        BY <2>1, <2>2 DEF NewPinsAreNew
<1> QED
    BY <1>2, <1>3, <1>4, <1>5, <1>6

\* A call that is sent, or fails, brings nothing.
LEMMA QuietCall ==
    ASSUME TypeInvariant, NEW r \in Request, OthersSame(r), wire'[r].stage # "answered"
    PROVE  /\ \A q \in Request, u \in User : BringsUser(q, u)' => BringsUser(q, u)
           /\ \A q \in Request, u \in User, c \in Pin : BringsPin(q, u, c)' => BringsPin(q, u, c)
BY DEF OthersSame, BringsUser, BringsPin, Asks, ToSet

\* Deletions under way, when no call changes what it asks for.
LEMMA SameDeletions ==
    ASSUME NEW r \in Request, OthersSame(r), SameQuestion(r)
    PROVE  /\ \A u \in User : UserGoes(u)' <=> UserGoes(u)
           /\ \A c \in Pin : PinGoes(c)' <=> PinGoes(c)
           /\ \A q \in Request, u \in User, c \in Pin : DropsPin(q, u, c)' <=> DropsPin(q, u, c)
<1>1. \A q \in Request :
        wire'[q].kind = wire[q].kind /\ wire'[q].to = wire[q].to /\ wire'[q].body = wire[q].body
    BY DEF OthersSame, SameQuestion
<1> QED
    BY <1>1 DEF UserGoes, PinGoes, DropsPin

LEMMA ShownAsk ==
    ASSUME TypeInvariant, ShownInvariant, NEW r \in Request, NEW kind, NEW to, NEW body,
           Ask(r, kind, to, body),
           kind = "deletePin" => to \in User /\ body \in credentials[to]
    PROVE  ShownInvariant'
<1>1. Becomes(r, Call(kind, to, body)) /\ wire[r].kind = "free"
    BY DEF Ask, Send, Free
<1>2. /\ OthersSame(r)
      /\ wire'[r].kind = kind /\ wire'[r].to = to /\ wire'[r].body = body
      /\ wire'[r].stage = "sent"
    BY <1>1, NewCall
<1>3. /\ \A u \in User : UserGoes(u) => UserGoes(u)'
      /\ \A c \in Pin : PinGoes(c) => PinGoes(c)'
    BY <1>1, <1>2 DEF UserGoes, PinGoes, OthersSame
<1>4. \A q \in Request, u \in User, c \in Pin :
        DropsPin(q, u, c)' => DropsPin(q, u, c) \/ c \in credentials[u]
    BY <1>2 DEF DropsPin, OthersSame
<1>5. \A c \in Pin : PinGoes(c)' => PinGoes(c) \/ \E u \in User : c \in credentials[u]
    BY <1>2 DEF PinGoes, OthersSame
<1>6. UNCHANGED <<members, owner, unborn, users, credentials, unsure>>
    BY DEF Ask, server, store
<1> QED
    BY <1>2, <1>3, <1>4, <1>5, <1>6, QuietCall, ShownKept DEF Shown

LEMMA ShownUse ==
    ASSUME TypeInvariant, ShownInvariant, Use \/ UNCHANGED vars
    PROVE  ShownInvariant'
<1>1. CASE UNCHANGED vars \/ OpenAddUser \/ Leave \/ Close \/ EditSchedule
           \/ \E u \in User : OpenPinModal(u)
    <2>1. UNCHANGED <<wire, members, owner, unborn, users, credentials, unsure>>
        BY <1>1 DEF vars, OpenAddUser, Leave, Close, EditSchedule, OpenPinModal, server, store
    <2> QED
        BY <2>1
           DEF ShownInvariant, UnbornAreUnknown, UsersKnown, PinsKnown, OneUserPerPin, Claims,
               NewPinsAreNew, BringsUser, BringsPin, DropsPin, UserGoes, PinGoes, Asks, Shown
<1>2. ASSUME NEW r \in Request, NEW u \in User, deleteUser(r, u) \/ deleteCredential(r, u)
      PROVE  ShownInvariant'
    BY <1>2, ShownAsk DEF deleteUser, deleteCredential
<1>3. ASSUME NEW r \in Request, handleCreateUser(r) \/ handleSavePinAndSchedule(r)
      PROVE  ShownInvariant'
    BY <1>3, ShownAsk DEF handleCreateUser, handleSavePinAndSchedule
<1> QED
    BY <1>1, <1>2, <1>3 DEF Use

\* A list, or a new user, is there.
LEMMA ShownGrows ==
    ASSUME TypeInvariant, ShownInvariant, NEW r \in Request, UsersArrive(r) \/ UserCreated(r)
    PROVE  ShownInvariant'
<1> USE DEF ShownInvariant
<1>1. PICK kind \in {"users", "createUser"} : Resolved(r, kind)
    BY DEF UsersArrive, UserCreated, fetchUsersEnds, createUserEnds
<1>2. /\ OthersSame(r) /\ wire[r].kind = kind
      /\ wire'[r].kind = "free" /\ wire'[r].stage = "sent"
    BY <1>1, EndedCall
<1>3. \A u \in User : u \in Shown' => u \in Shown \/ BringsUser(r, u)
    BY <1>1 DEF UsersArrive, UserCreated, fetchUsersEnds, createUserEnds, BringsUser, Resolved, Shown
<1>4. UNCHANGED <<members, owner, unborn, credentials, unsure>>
    BY DEF UsersArrive, UserCreated, fetchUsersEnds, createUserEnds, server
<1>5. /\ \A u \in User : UserGoes(u)' <=> UserGoes(u)
      /\ \A c \in Pin : PinGoes(c)' <=> PinGoes(c)
      /\ \A q \in Request, u \in User, c \in Pin : DropsPin(q, u, c)' <=> DropsPin(q, u, c)
    BY <1>2 DEF UserGoes, PinGoes, DropsPin, OthersSame
<1>6. /\ \A q \in Request, u \in User : BringsUser(q, u)' => BringsUser(q, u)
      /\ \A q \in Request, u \in User, c \in Pin : BringsPin(q, u, c)' => BringsPin(q, u, c)
    BY <1>2, QuietCall
<1>7. members \subseteq User
    BY DEF TypeInvariant, TablesOK
<1>8. UnbornAreUnknown'
    BY <1>3, <1>4, <1>6 DEF UnbornAreUnknown
<1>9. UsersKnown'
    BY <1>3, <1>4, <1>5, <1>6 DEF UsersKnown
<1>10. PinsKnown'
    BY <1>4, <1>5, <1>6, <1>7 DEF PinsKnown
<1>11. OneUserPerPin'
    <2>1. \A u \in User, c \in Pin : Claims(u, c)' => Claims(u, c)
        BY <1>4, <1>5, <1>6 DEF Claims
    <2> QED
        BY <1>4, <2>1 DEF OneUserPerPin
<1>12. NewPinsAreNew'
    BY <1>4, <1>5, <1>6 DEF NewPinsAreNew
<1> QED
    BY <1>8, <1>9, <1>10, <1>11, <1>12

\* A PIN that was set takes the place of those that were shown.
LEMMA ShownPinSet ==
    ASSUME TypeInvariant, ShownInvariant, NEW r \in Request, PinSet(r)
    PROVE  ShownInvariant'
<1> USE DEF ShownInvariant
<1>1. Asks(r, "setPin", "answered") /\ Becomes(r, Call("policy", wire[r].to, wire[r].body))
    BY DEF PinSet, setPinEnds
<1>2. PICK u \in User : u = wire[r].to
    BY <1>1 DEF Asks, TypeInvariant, WireOK, CallOK
<1>3. OthersSame(r) /\ wire'[r].kind = "policy" /\ wire'[r].stage = "sent"
    BY <1>1, NewCall
<1>4. UNCHANGED <<members, owner, unborn, users, unsure>>
    BY DEF PinSet, setPinEnds, server
<1>5. \A v \in User :
        credentials'[v] = IF v = u THEN ToSet(wire[r].answer) ELSE credentials[v]
    BY <1>2 DEF PinSet, setPinEnds, TypeInvariant, CardsOK
<1>6. /\ \A v \in User : UserGoes(v)' <=> UserGoes(v)
      /\ \A c \in Pin : PinGoes(c)' <=> PinGoes(c)
      /\ \A q \in Request, v \in User, c \in Pin : DropsPin(q, v, c)' <=> DropsPin(q, v, c)
    BY <1>1, <1>3 DEF UserGoes, PinGoes, DropsPin, OthersSame, Asks
<1>7. /\ \A q \in Request, v \in User : BringsUser(q, v)' => BringsUser(q, v)
      /\ \A q \in Request, v \in User, c \in Pin :
            BringsPin(q, v, c)' => q # r /\ BringsPin(q, v, c)
    BY <1>3 DEF OthersSame, BringsUser, BringsPin, Asks, ToSet
<1>8. \A v \in User, c \in Pin :
        c \in credentials'[v] => c \in credentials[v] \/ (v = u /\ BringsPin(r, u, c))
    <2>1. \A c \in Pin : c \in ToSet(wire[r].answer) => BringsPin(r, u, c)
        BY <1>1, <1>2 DEF BringsPin
    <2>2. \A c \in Pin : c \in credentials'[u] => BringsPin(r, u, c)
        BY <1>5, <2>1
    <2>3. \A v \in User : v # u => credentials'[v] = credentials[v]
        BY <1>5
    <2> QED
        BY <2>2, <2>3 DEF BringsPin
<1>9. members \subseteq User
    BY DEF TypeInvariant, TablesOK
<1>10. UnbornAreUnknown'
    <2>1. \A v \in User \cap unborn : credentials'[v] = {}
        <3>1. \A c \in ToSet(wire[r].answer) : c \in Pin
            BY <1>1 DEF Asks, TypeInvariant, WireOK, CallOK, ToSet
        <3>2. u \in unborn => ToSet(wire[r].answer) = {}
            BY <1>1, <1>2, <3>1 DEF UnbornAreUnknown, BringsPin
        <3> QED
            BY <1>5, <3>2 DEF UnbornAreUnknown
    <2> QED
        BY <1>4, <1>7, <2>1 DEF UnbornAreUnknown, Shown
<1>11. UsersKnown'
    BY <1>4, <1>6, <1>7 DEF UsersKnown, Shown
<1>12. PinsKnown'
    BY <1>4, <1>6, <1>7, <1>8, <1>9 DEF PinsKnown
<1>13. OneUserPerPin'
    <2>1. \A v \in User, c \in Pin : Claims(v, c)' => Claims(v, c)
        BY <1>4, <1>6, <1>7, <1>8 DEF Claims
    <2> QED
        BY <1>4, <2>1 DEF OneUserPerPin
<1>14. NewPinsAreNew'
    <2> SUFFICES ASSUME NEW q \in Request, NEW v \in User, NEW c \in Pin, BringsPin(q, v, c)'
                 PROVE  /\ c \notin credentials'[v]
                        /\ ~PinGoes(c)'
                        /\ \A p \in Request \ {q} : ~BringsPin(p, v, c)'
        BY DEF NewPinsAreNew
    <2>1. q # r /\ BringsPin(q, v, c)
        BY <1>7
    <2>2. ~BringsPin(r, v, c)
        BY <2>1 DEF NewPinsAreNew
    <2> QED
        BY <1>6, <1>7, <1>8, <2>1, <2>2 DEF NewPinsAreNew
<1> QED
    BY <1>10, <1>11, <1>12, <1>13, <1>14

\* The other answers take something away from the cards, or change nothing there.
LEMMA ShownShrinks ==
    ASSUME TypeInvariant, ShownInvariant, NEW r \in Request,
           UserDeleted(r) \/ PolicySaved(r) \/ PinDeleted(r) \/ Fail(r)
    PROVE  ShownInvariant'
<1>1. PICK kind \in Kind : Resolved(r, kind) \/ Rejected(r, kind)
    BY DEF UserDeleted, PolicySaved, PinDeleted, Fail, deleteUserEnds, savePolicyEnds,
           deletePinEnds, Throws, Kind
<1>2. /\ OthersSame(r) /\ wire[r].kind = kind
      /\ wire'[r].kind = "free" /\ wire'[r].stage = "sent"
    BY <1>1, EndedCall
<1>3. /\ \A q \in Request, u \in User : BringsUser(q, u)' => BringsUser(q, u)
      /\ \A q \in Request, u \in User, c \in Pin : BringsPin(q, u, c)' => BringsPin(q, u, c)
    BY <1>2, QuietCall
<1>4. \A q \in Request, u \in User, c \in Pin : DropsPin(q, u, c)' => DropsPin(q, u, c)
    BY <1>2 DEF DropsPin, OthersSame
<1>5. \A c \in Pin : PinGoes(c)' => PinGoes(c)
    BY <1>2 DEF PinGoes, OthersSame
<1>6. \A u \in User : UserGoes(u) => UserGoes(u)' \/ (kind = "deleteUser" /\ wire[r].to = u)
    <2> SUFFICES ASSUME NEW u \in User, UserGoes(u), ~ (kind = "deleteUser" /\ wire[r].to = u)
                 PROVE  UserGoes(u)'
        OBVIOUS
    <2>1. PICK q \in Request : wire[q].kind = "deleteUser" /\ wire[q].to = u
        BY DEF UserGoes
    <2>2. wire'[q] = wire[q]
        BY <1>2, <2>1 DEF OthersSame
    <2> QED
        BY <2>1, <2>2 DEF UserGoes
<1>7. \A c \in Pin : PinGoes(c) => PinGoes(c)' \/ (kind = "deletePin" /\ wire[r].body = c)
    <2> SUFFICES ASSUME NEW c \in Pin, PinGoes(c), ~ (kind = "deletePin" /\ wire[r].body = c)
                 PROVE  PinGoes(c)'
        OBVIOUS
    <2>1. PICK q \in Request : wire[q].kind = "deletePin" /\ wire[q].body = c
        BY DEF PinGoes
    <2>2. wire'[q] = wire[q]
        BY <1>2, <2>1 DEF OthersSame
    <2> QED
        BY <2>1, <2>2 DEF PinGoes
<1>8. UNCHANGED <<members, owner, unborn>>
    BY DEF UserDeleted, PolicySaved, PinDeleted, Fail, server
<1>9. CASE UserDeleted(r)
    <2>1. PICK u \in User : u = wire[r].to
        BY <1>9 DEF UserDeleted, deleteUserEnds, Resolved, Asks, TypeInvariant, WireOK, CallOK
    <2>2. kind = "deleteUser"
        BY <1>2, <1>9 DEF UserDeleted, deleteUserEnds, Resolved, Asks
    <2>3. Shown' = Shown \ {u}
        <3>1. users \in [User -> Nat] /\ users' = [users EXCEPT ![u] = 0]
            BY <1>9, <2>1 DEF UserDeleted, deleteUserEnds, TypeInvariant, CardsOK
        <3> QED
            BY <3>1 DEF Shown
    <2>4. \A v \in User : credentials'[v] \subseteq credentials[v]
        BY <1>9, <2>1 DEF UserDeleted, deleteUserEnds, TypeInvariant, CardsOK
    <2>5. unsure \subseteq unsure'
        BY <1>9 DEF UserDeleted
    <2>6. u \in unsure' \/ \A q \in Request : ~BringsUser(q, u)
        BY <1>9, <2>1 DEF UserDeleted, BringsUser, InFlight, Asks
    <2>7. \A v \in User : UserGoes(v) =>
                \/ UserGoes(v)'
                \/ v \in unsure'
                \/ v \notin Shown' /\ \A q \in Request : ~BringsUser(q, v)'
        BY <1>3, <1>6, <2>1, <2>3, <2>6
    <2> QED
        BY <1>3, <1>4, <1>5, <1>7, <1>8, <2>2, <2>3, <2>4, <2>5, <2>7, ShownKept
<1>10. CASE PolicySaved(r)
    <2>1. kind = "policy"
        BY <1>2, <1>10 DEF PolicySaved, savePolicyEnds, Resolved, Asks
    <2>2. UNCHANGED <<users, credentials, unsure>>
        BY <1>10 DEF PolicySaved, savePolicyEnds, store
    <2> QED
        BY <1>3, <1>4, <1>5, <1>6, <1>7, <1>8, <2>1, <2>2, ShownKept DEF Shown
<1>11. CASE PinDeleted(r)
    <2>1. PICK u \in User, c \in Pin : u = wire[r].to /\ c = wire[r].body
        BY <1>11 DEF PinDeleted, deletePinEnds, Resolved, Asks, TypeInvariant, WireOK, CallOK
    <2>2. kind = "deletePin"
        BY <1>2, <1>11 DEF PinDeleted, deletePinEnds, Resolved, Asks
    <2>3. UNCHANGED <<users, unsure>>
        BY <1>11 DEF PinDeleted, deletePinEnds
    <2>4. \A v \in User :
            credentials'[v] = IF v = u THEN credentials[u] \ {c} ELSE credentials[v]
        BY <1>11, <2>1 DEF PinDeleted, deletePinEnds, TypeInvariant, CardsOK
    <2>5. Claims(u, c)
        BY <1>2, <2>1, <2>2 DEF Claims, DropsPin
    <2>6. \A v \in User : c \in credentials[v] => v = u
        BY <2>5 DEF ShownInvariant, OneUserPerPin, Claims
    <2>7. \A v \in User : c \notin credentials'[v]
        BY <2>4, <2>6
    <2>8. \A v \in User : credentials'[v] \subseteq credentials[v]
        BY <2>4
    <2>9. \A d \in Pin : PinGoes(d) => PinGoes(d)' \/ \A v \in User : d \notin credentials'[v]
        BY <1>7, <2>1, <2>7
    <2> QED
        BY <1>3, <1>4, <1>5, <1>6, <1>8, <2>2, <2>3, <2>8, <2>9, ShownKept DEF Shown
<1>12. CASE Fail(r)
    <2>1. UNCHANGED <<users, credentials>>
        BY <1>12 DEF Fail, Throws, store
    <2>2. /\ unsure \subseteq unsure'
          /\ kind = "deleteUser" => wire[r].to \in unsure'
          /\ kind = "deletePin" => wire[r].body \in unsure'
        BY <1>2, <1>12 DEF Fail
    <2> QED
        BY <1>3, <1>4, <1>5, <1>6, <1>7, <1>8, <2>1, <2>2, ShownKept DEF Shown
<1> QED
    BY <1>9, <1>10, <1>11, <1>12

LEMMA ShownLose ==
    ASSUME TypeInvariant, ShownInvariant, NEW r \in Request, Lose(r)
    PROVE  ShownInvariant'
<1>1. OthersSame(r) /\ SameQuestion(r) /\ wire'[r].stage = "failed"
    BY FailedCall DEF Lose
<1>2. UNCHANGED <<members, owner, unborn, users, credentials, unsure>>
    BY DEF Lose, server, store
<1> QED
    BY <1>1, <1>2, QuietCall, SameDeletions, ShownKept DEF Shown

\* What an answer brings.
LEMMA AnswerBrings ==
    ASSUME TypeInvariant, NEW r \in Request, NEW answer, Ok(r, answer)
    PROVE  /\ \A q \in Request, u \in User : BringsUser(q, u)' =>
                \/ BringsUser(q, u)
                \/ wire[r].kind \in {"users", "createUser"} /\ u \in ToSet(answer)
           /\ \A q \in Request, u \in User, c \in Pin : BringsPin(q, u, c)' =>
                \/ q # r /\ BringsPin(q, u, c)
                \/ q = r /\ wire[r].kind = "setPin" /\ wire[r].to = u /\ c \in ToSet(answer)
<1>1. /\ OthersSame(r) /\ SameQuestion(r)
      /\ wire'[r].stage = "answered" /\ wire'[r].answer = answer
    BY ServedCall
<1> QED
    BY <1>1 DEF OthersSame, SameQuestion, BringsUser, BringsPin, Asks, ToSet

\* A call is carried out that brings nothing, or refused.
LEMMA BringsNothing ==
    ASSUME TypeInvariant, NEW r \in Request, Ok(r, <<>>) \/ Refuse(r)
    PROVE  /\ \A q \in Request, u \in User : BringsUser(q, u)' => BringsUser(q, u)
           /\ \A q \in Request, u \in User, c \in Pin : BringsPin(q, u, c)' => BringsPin(q, u, c)
           /\ OthersSame(r) /\ SameQuestion(r)
<1>1. CASE Ok(r, <<>>)
    <2>1. \A x : x \notin ToSet(<<>>)
        BY DEF ToSet
    <2> QED
        BY <1>1, <2>1, AnswerBrings, ServedCall
<1>2. CASE Refuse(r)
    BY <1>2, FailedCall, QuietCall
<1> QED
    BY <1>1, <1>2

\* A user is removed whose removal the browser can expect, or is not sure of.
LEMMA ShownRemove ==
    ASSUME TypeInvariant, ShownInvariant, NEW u \in User, RemoveUser(u),
           UNCHANGED <<unborn, users, credentials>>,
           unsure \subseteq unsure',
           UserGoes(u) \/ u \in unsure',
           \A v \in User : UserGoes(v)' <=> UserGoes(v),
           \A c \in Pin : PinGoes(c)' <=> PinGoes(c),
           \A q \in Request, v \in User, c \in Pin : DropsPin(q, v, c)' <=> DropsPin(q, v, c),
           \A q \in Request, v \in User : BringsUser(q, v)' => BringsUser(q, v),
           \A q \in Request, v \in User, c \in Pin : BringsPin(q, v, c)' => BringsPin(q, v, c)
    PROVE  ShownInvariant'
<1> USE DEF ShownInvariant
<1>1. members' = members \ {u} /\ members \subseteq User
    BY DEF RemoveUser, TypeInvariant, TablesOK
<1>2. \A c \in Pin : owner'[c] = IF owner[c] = u THEN NoUser ELSE owner[c]
    BY DEF RemoveUser
<1>3. UnbornAreUnknown'
    BY <1>1, <1>2 DEF UnbornAreUnknown, Shown
<1>4. UsersKnown'
    BY <1>1 DEF UsersKnown, Shown
<1>5. PinsKnown'
    BY <1>1, <1>2 DEF PinsKnown
<1>6. OneUserPerPin'
    <2>1. \A v \in User, c \in Pin : Claims(v, c)' => Claims(v, c)
        BY <1>2, DistinctAssumption DEF Claims
    <2> QED
        BY <2>1 DEF OneUserPerPin
<1>7. NewPinsAreNew'
    BY DEF NewPinsAreNew
<1> QED
    BY <1>3, <1>4, <1>5, <1>6, <1>7

\* The same for a PIN.
LEMMA ShownRemovePin ==
    ASSUME TypeInvariant, ShownInvariant, NEW d \in Pin, owner' = [owner EXCEPT ![d] = NoUser],
           UNCHANGED <<members, unborn, users, credentials>>,
           unsure \subseteq unsure',
           PinGoes(d) \/ d \in unsure',
           \A v \in User : UserGoes(v)' <=> UserGoes(v),
           \A c \in Pin : PinGoes(c)' <=> PinGoes(c),
           \A q \in Request, v \in User, c \in Pin : DropsPin(q, v, c)' <=> DropsPin(q, v, c),
           \A q \in Request, v \in User : BringsUser(q, v)' => BringsUser(q, v),
           \A q \in Request, v \in User, c \in Pin : BringsPin(q, v, c)' => BringsPin(q, v, c)
    PROVE  ShownInvariant'
<1> USE DEF ShownInvariant
<1>1. members \subseteq User
    BY DEF TypeInvariant, TablesOK
<1>2. \A c \in Pin : owner'[c] = IF c = d THEN NoUser ELSE owner[c]
    BY DEF TypeInvariant, TablesOK
<1>3. UnbornAreUnknown'
    BY <1>2 DEF UnbornAreUnknown, Shown
<1>4. UsersKnown'
    BY DEF UsersKnown, Shown
<1>5. PinsKnown'
    BY <1>1, <1>2 DEF PinsKnown
<1>6. OneUserPerPin'
    <2>1. \A v \in User, c \in Pin : Claims(v, c)' => Claims(v, c)
        BY <1>2, DistinctAssumption DEF Claims
    <2> QED
        BY <2>1 DEF OneUserPerPin
<1>7. NewPinsAreNew'
    BY DEF NewPinsAreNew
<1> QED
    BY <1>3, <1>4, <1>5, <1>6, <1>7

LEMMA ShownElsewhere ==
    ASSUME TypeInvariant, ShownInvariant, DeleteElsewhere
    PROVE  ShownInvariant'
<1>1. /\ \A v \in User : UserGoes(v)' <=> UserGoes(v)
      /\ \A c \in Pin : PinGoes(c)' <=> PinGoes(c)
      /\ \A q \in Request, v \in User, c \in Pin : DropsPin(q, v, c)' <=> DropsPin(q, v, c)
      /\ \A q \in Request, v \in User : BringsUser(q, v)' => BringsUser(q, v)
      /\ \A q \in Request, v \in User, c \in Pin : BringsPin(q, v, c)' => BringsPin(q, v, c)
    BY DEF DeleteElsewhere, UserGoes, PinGoes, DropsPin, BringsUser, BringsPin, Asks
<1>2. UNCHANGED <<unborn, users, credentials>>
    BY DEF DeleteElsewhere, store
<1>3. ASSUME NEW u \in members, RemoveUser(u), unsure' = unsure \cup {u}
      PROVE  ShownInvariant'
    <2>1. u \in User
        BY DEF TypeInvariant, TablesOK
    <2> QED
        BY <1>1, <1>2, <1>3, <2>1, ShownRemove
<1>4. ASSUME NEW c \in Pin, owner' = [owner EXCEPT ![c] = NoUser], unsure' = unsure \cup {c},
             members' = members
      PROVE  ShownInvariant'
    BY <1>1, <1>2, <1>4, ShownRemovePin
<1> QED
    BY <1>3, <1>4 DEF DeleteElsewhere

LEMMA ShownServe ==
    ASSUME TypeInvariant, ShownInvariant, NEW r \in Request, Serve(r)
    PROVE  ShownInvariant'
<1>1. UNCHANGED <<users, credentials, unsure>>
    BY DEF Serve, store
<1>2. ASSUME UNCHANGED server, Ok(r, <<>>) \/ Refuse(r)
      PROVE  ShownInvariant'
    BY <1>1, <1>2, BringsNothing, SameDeletions, ShownKept DEF server, Shown
<1>3. CASE ServePolicy(r)
    BY <1>2, <1>3 DEF ServePolicy
<1>4. CASE ServeDeleteUser(r)
    <2>1. CASE Refuse(r) /\ UNCHANGED <<members, owner>>
        BY <1>2, <1>4, <2>1 DEF ServeDeleteUser, server
    <2>2. CASE RemoveUser(wire[r].to) /\ Ok(r, <<>>)
        <3>1. PICK u \in User : u = wire[r].to /\ UserGoes(u)
            BY <1>4 DEF ServeDeleteUser, Asks, TypeInvariant, WireOK, CallOK, UserGoes
        <3>2. unborn' = unborn
            BY <1>4 DEF ServeDeleteUser
        <3> QED
            BY <1>1, <2>2, <3>1, <3>2, BringsNothing, SameDeletions, ShownRemove
    <2> QED
        BY <1>4, <2>1, <2>2 DEF ServeDeleteUser
<1>5. CASE ServeDeletePin(r)
    <2>1. PICK c \in Pin : c = wire[r].body /\ PinGoes(c)
        BY <1>5 DEF ServeDeletePin, Asks, TypeInvariant, WireOK, CallOK, PinGoes
    <2>2. owner' = [owner EXCEPT ![c] = NoUser]
        BY <1>5, <2>1 DEF ServeDeletePin
    <2>3. Ok(r, <<>>) /\ UNCHANGED <<members, unborn>>
        BY <1>5 DEF ServeDeletePin
    <2> QED
        BY <1>1, <2>1, <2>2, <2>3, BringsNothing, SameDeletions, ShownRemovePin
<1> USE DEF ShownInvariant
<1>6. members \subseteq User
    BY DEF TypeInvariant, TablesOK
<1>7. CASE ServeUsers(r)
    <2>1. Ok(r, SetToSeq(members)) /\ wire[r].kind = "users" /\ UNCHANGED server
        BY <1>7 DEF ServeUsers, Asks
    <2>2. /\ \A q \in Request, u \in User : BringsUser(q, u)' => BringsUser(q, u) \/ u \in members
          /\ \A q \in Request, u \in User, c \in Pin : BringsPin(q, u, c)' => BringsPin(q, u, c)
        BY <2>1, AnswerBrings, ListType DEF TypeInvariant
    <2>3. /\ \A u \in User : UserGoes(u)' <=> UserGoes(u)
          /\ \A c \in Pin : PinGoes(c)' <=> PinGoes(c)
          /\ \A q \in Request, u \in User, c \in Pin : DropsPin(q, u, c)' <=> DropsPin(q, u, c)
        BY <2>1, ServedCall, SameDeletions
    <2>4. UNCHANGED <<members, owner, unborn>>
        BY <2>1 DEF server
    <2>5. UnbornAreUnknown'
        BY <1>1, <2>2, <2>4 DEF UnbornAreUnknown, Shown
    <2>6. UsersKnown' /\ PinsKnown'
        BY <1>1, <1>6, <2>2, <2>3, <2>4 DEF UsersKnown, PinsKnown, Shown
    <2>7. OneUserPerPin'
        <3>1. \A u \in User, c \in Pin : Claims(u, c)' => Claims(u, c)
            BY <1>1, <2>2, <2>3, <2>4 DEF Claims
        <3> QED
            BY <2>4, <3>1 DEF OneUserPerPin
    <2>8. NewPinsAreNew'
        BY <1>1, <2>2, <2>3, <2>4 DEF NewPinsAreNew
    <2> QED
        BY <2>5, <2>6, <2>7, <2>8
<1>8. CASE ServeCreateUser(r)
    <2>1. PICK u \in unborn \cap User :
            members' = members \cup {u} /\ unborn' = unborn \ {u} /\ Ok(r, <<u>>)
        BY <1>8 DEF ServeCreateUser
    <2>2. owner' = owner /\ wire[r].kind = "createUser"
        BY <1>8 DEF ServeCreateUser, Asks
    <2>3. ToSet(<<u>>) = {u}
        BY DEF ToSet
    <2>4. /\ \A q \in Request, v \in User : BringsUser(q, v)' => BringsUser(q, v) \/ v = u
          /\ \A q \in Request, v \in User, c \in Pin : BringsPin(q, v, c)' => BringsPin(q, v, c)
        BY <2>1, <2>2, <2>3, AnswerBrings
    <2>5. /\ \A v \in User : UserGoes(v)' <=> UserGoes(v)
          /\ \A c \in Pin : PinGoes(c)' <=> PinGoes(c)
          /\ \A q \in Request, v \in User, c \in Pin : DropsPin(q, v, c)' <=> DropsPin(q, v, c)
        BY <2>1, ServedCall, SameDeletions
    <2>6. UnbornAreUnknown'
        BY <1>1, <2>1, <2>2, <2>4 DEF UnbornAreUnknown, Shown
    <2>7. UsersKnown'
        BY <1>1, <2>1, <2>4, <2>5 DEF UsersKnown, Shown
    <2>8. PinsKnown'
        BY <1>1, <1>6, <2>1, <2>2, <2>4, <2>5 DEF PinsKnown, UnbornAreUnknown
    <2>9. OneUserPerPin'
        <3>1. \A v \in User, c \in Pin : Claims(v, c)' => Claims(v, c)
            BY <1>1, <2>2, <2>4, <2>5 DEF Claims
        <3> QED
            BY <2>1, <3>1 DEF OneUserPerPin
    <2>10. NewPinsAreNew'
        BY <1>1, <2>4, <2>5 DEF NewPinsAreNew
    <2> QED
        BY <2>6, <2>7, <2>8, <2>9, <2>10
<1>9. CASE ServeSetPin(r)
    <2>1. CASE Refuse(r) /\ UNCHANGED server
        BY <1>2, <2>1
    <2>2. CASE ~ (Refuse(r) /\ UNCHANGED server)
        <3>1. PICK d \in unborn \cap Pin :
                /\ owner' = [owner EXCEPT ![d] = wire[r].to]
                /\ unborn' = unborn \ {d}
                /\ members' = members
                /\ wire[r].to \in members
                /\ Ok(r, <<d>>)
            BY <1>9, <2>2 DEF ServeSetPin
        <3>2. PICK u \in User : u = wire[r].to /\ u \in members
            BY <1>6, <3>1
        <3>3. wire[r].kind = "setPin"
            BY <1>9 DEF ServeSetPin, Asks
        <3>4. ToSet(<<d>>) = {d}
            BY DEF ToSet
        <3>5. /\ \A q \in Request, v \in User : BringsUser(q, v)' => BringsUser(q, v)
              /\ \A q \in Request, v \in User, c \in Pin : BringsPin(q, v, c)' =>
                    (q # r /\ BringsPin(q, v, c)) \/ (q = r /\ v = u /\ c = d)
            BY <3>1, <3>2, <3>3, <3>4, AnswerBrings
        <3>6. /\ \A v \in User : UserGoes(v)' <=> UserGoes(v)
              /\ \A c \in Pin : PinGoes(c)' <=> PinGoes(c)
              /\ \A q \in Request, v \in User, c \in Pin : DropsPin(q, v, c)' <=> DropsPin(q, v, c)
            BY <3>1, ServedCall, SameDeletions
        <3>7. \A c \in Pin : owner'[c] = IF c = d THEN u ELSE owner[c]
            BY <3>1, <3>2 DEF TypeInvariant, TablesOK
        <3>8. \A v \in User : ~Claims(v, d)
            BY <3>1 DEF OneUserPerPin
        <3>9. ~PinGoes(d)
            <4>1. \A q \in Request : wire[q].kind = "deletePin" => wire[q].to \in User
                BY DEF TypeInvariant, WireOK, CallOK
            <4> QED
                BY <3>8, <4>1 DEF Claims, PinGoes, DropsPin
        <3>10. UnbornAreUnknown'
            BY <1>1, <3>1, <3>2, <3>5, <3>7 DEF UnbornAreUnknown, Shown
        <3>11. UsersKnown'
            BY <1>1, <3>1, <3>5, <3>6 DEF UsersKnown, Shown
        <3>12. PinsKnown'
            <4> SUFFICES ASSUME NEW v \in members, NEW c \in Pin,
                                c \in credentials[v] \/ \E q \in Request : BringsPin(q, v, c)'
                         PROVE  owner'[c] = v \/ c \in unsure \/ PinGoes(c)
                BY <1>1, <1>6, <3>1, <3>6 DEF PinsKnown
            <4>1. CASE c = d
                BY <1>6, <3>5, <3>7, <3>8, <4>1 DEF Claims
            <4>2. CASE c # d
                BY <1>6, <3>5, <3>7, <4>2 DEF PinsKnown
            <4> QED
                BY <4>1, <4>2
        <3>13. OneUserPerPin'
            <4>1. \A v \in User : Claims(v, d)' => v = u
                BY <1>1, <3>5, <3>6, <3>7, <3>8 DEF Claims
            <4>2. \A v \in User, c \in Pin : c # d => (Claims(v, c)' => Claims(v, c))
                BY <1>1, <3>5, <3>6, <3>7 DEF Claims
            <4> QED
                BY <3>1, <4>1, <4>2 DEF OneUserPerPin
        <3>14. NewPinsAreNew'
            <4> SUFFICES ASSUME NEW q \in Request, NEW v \in User, NEW c \in Pin,
                                BringsPin(q, v, c)'
                         PROVE  /\ c \notin credentials[v]
                                /\ ~PinGoes(c)
                                /\ \A p \in Request \ {q} : ~BringsPin(p, v, c)'
                BY <1>1, <3>6 DEF NewPinsAreNew
            <4>1. CASE q = r /\ v = u /\ c = d
                BY <3>5, <3>8, <3>9, <4>1 DEF Claims
            <4>2. CASE q # r /\ BringsPin(q, v, c)
                <5>1. c # d
                    BY <3>8, <4>2 DEF Claims
                <5> QED
                    BY <3>5, <4>2, <5>1 DEF NewPinsAreNew
            <4> QED
                BY <3>5, <4>1, <4>2
        <3> QED
            BY <3>10, <3>11, <3>12, <3>13, <3>14
    <2> QED
        BY <2>1, <2>2
<1> QED
    BY <1>3, <1>4, <1>5, <1>7, <1>8, <1>9 DEF Serve

LEMMA ShownInit == Init => ShownInvariant
<1> SUFFICES ASSUME Init
             PROVE  ShownInvariant
    OBVIOUS
<1>1. /\ \A r \in Request, u \in User : ~BringsUser(r, u)
      /\ \A r \in Request, u \in User, c \in Pin : ~BringsPin(r, u, c) /\ ~DropsPin(r, u, c)
    BY DEF Init, BringsUser, BringsPin, DropsPin, Asks, Call, NoCall
<1>2. UnbornAreUnknown
    BY <1>1, DistinctAssumption DEF Init, UnbornAreUnknown, Shown
<1>3. UsersKnown /\ PinsKnown /\ NewPinsAreNew
    BY <1>1 DEF Init, UsersKnown, PinsKnown, NewPinsAreNew, Shown
<1>4. OneUserPerPin
    BY <1>1, DistinctAssumption DEF Init, OneUserPerPin, Claims
<1> QED
    BY <1>2, <1>3, <1>4 DEF ShownInvariant

\* Cards show users and PINs that are there, are being removed, or whose removal the
\* browser has not been told of.
THEOREM CardsAreTrue == Spec => []ShownIsThere
<1>1. TypeInvariant /\ ShownInvariant /\ [Next]_vars => ShownInvariant'
    BY ShownUse, ShownGrows, ShownPinSet, ShownShrinks, ShownLose, ShownServe, ShownElsewhere
       DEF Next, Arrive
<1>2. TypeInvariant /\ ShownInvariant => ShownIsThere
    BY DEF TypeInvariant, CardsOK, ShownInvariant, UsersKnown, PinsKnown, ShownIsThere, Shown
<1> QED
    BY <1>1, <1>2, ShownInit, TypesAlways, PTL DEF Spec
=============================================================================
