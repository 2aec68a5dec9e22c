--------------------------- MODULE SlotSyncProofs ---------------------------
(***************************************************************************)
(* Proofs about SlotSync for any users, credentials and slots and any      *)
(* faults: the types for any number of passes, what the table says of the  *)
(* codes for one pass at a time, and that a pass which nothing disturbs    *)
(* reconciles the lock.                                                    *)
(***************************************************************************)
EXTENDS SlotSync, TLAPS, WellFoundedInduction, SequenceTheorems, FiniteSetTheorems

----------------------------------------------------------------------------
(* What a pass chooses *)

LEMMA NatMinimum ==
    ASSUME NEW S, S \subseteq Nat, S # {}
    PROVE  \E s \in S : \A t \in S : s <= t
  <1>1. PICK s \in S : \A t \in S : <<t, s>> \notin OpToRel(<, Nat)
    BY NatLessThanWellFounded, WFMin
  <1>2. ASSUME NEW t \in S
        PROVE  s <= t
    <2>1. s \in Nat /\ t \in Nat
      OBVIOUS
    <2>2. ~(t < s)
      BY <1>1, <2>1 DEF OpToRel
    <2>3. QED
      BY <2>1, <2>2
  <1>3. QED
    BY <1>2

\* The slot a pass takes first is one of those it may take.
LEMMA LeastIsOne ==
    ASSUME NEW S, S \subseteq Slot, S # {}
    PROVE  Least(S) \in S
  <1>1. S \subseteq Nat
    BY SlotAssumption DEF Slot
  <1>2. \E s \in S : \A t \in S : s <= t
    BY <1>1, NatMinimum
  <1>3. QED
    BY <1>2 DEF Least

Assignment == [user : User, cred : Cred]

\* Whom a pass serves next, of those it has left.
First(desired) == CHOOSE d \in desired : \A e \in desired : Place(d.user) <= Place(e.user)

LEMMA WantIsFirst ==
    ASSUME NEW w
    PROVE  Want(w) = First(pass[w].desired)
  BY DEF Want, First

\* A pass that has somebody left to serve serves one of them.
LEMMA FirstIsDesired ==
    ASSUME NEW desired, desired \subseteq Assignment, desired # {}
    PROVE  First(desired) \in desired
  <1> DEFINE places == {Place(d.user) : d \in desired}
  <1>1. \A u \in User : Place(u) \in DOMAIN UserOrder
    BY DEF Place, User
  <1>2. DOMAIN UserOrder \subseteq Nat
    BY OrderAssumption
  <1>3. places \subseteq Nat /\ places # {}
    BY <1>1, <1>2 DEF Assignment
  <1>4. PICK p \in places : \A q \in places : p <= q
    BY <1>3, NatMinimum
  <1>5. \E d \in desired : \A e \in desired : Place(d.user) <= Place(e.user)
    BY <1>4
  <1>6. QED
    BY <1>5 DEF First

----------------------------------------------------------------------------
(* Types: a row never goes away, so that a pass or a revocation only ever   *)
(* updates a row that is there                                              *)

Table == [Slot -> Row \cup {NoRow}]

PassRecord ==
    [at : PassState, desired : SUBSET Assignment, view : Table,
     left : SUBSET Slot, slot : Slot \cup {0}, fresh : BOOLEAN,
     found : Row \cup {NoRow}]

\* Between the choice of a slot and the last update of its row.
Busy == {"clearing", "cleared", "clearRefused", "forgotten",
         "inserted", "allocated", "setting", "set", "setRefused"}

\* While a desired user is served.
Serving == {"inserted", "allocated", "setting", "set", "setRefused"}

\* A pass knows of no row that the table does not have.
GoodPass(p, table) ==
    /\ p \in PassRecord
    /\ \A s \in p.left : table[s] # NoRow
    /\ \A s \in Slot : p.view[s] # NoRow => table[s] # NoRow
    /\ p.at \in Busy => p.slot \in Slot /\ table[p.slot] # NoRow
    /\ p.at \in Serving => p.desired # {}

RevocationOK ==
    /\ revocation \in [at : {"idle", "deactivated", "clearing"}, user : User \cup {Nobody},
                       left : SUBSET Slot]
    /\ \A s \in revocation.left : rows[s] # NoRow

PeopleOK ==
    /\ users \subseteq User
    /\ entitled \subseteq User
    /\ creds \in [User -> Seq(Cred)]
    /\ unborn \subseteq Cred

TypeInv ==
    /\ PeopleOK
    /\ rows \in Table
    /\ codes \in [Slot -> Cred \cup {NoCode}]
    /\ RevocationOK
    /\ calm \in BOOLEAN
    /\ fault \in Faults
    /\ DOMAIN pass = Pass
    /\ \A w \in Pass : GoodPass(pass[w], rows)

LEMMA NoPassGood ==
    ASSUME NEW table \in Table
    PROVE  GoodPass(NoPass, table)
  BY NoRowAssumption DEF GoodPass, NoPass, PassRecord, PassState, Table, Busy, Serving

LEMMA TypeInit == Init => TypeInv
  <1> SUFFICES ASSUME Init
               PROVE  TypeInv
    OBVIOUS
  <1>1. rows \in Table
    BY DEF Init, Table
  <1>2. PeopleOK
    BY DEF Init, PeopleOK
  <1>3. RevocationOK
    BY DEF Init, RevocationOK, NoRevocation
  <1>4. \A w \in Pass : GoodPass(pass[w], rows)
    BY <1>1, NoPassGood DEF Init
  <1>5. QED
    BY <1>1, <1>2, <1>3, <1>4 DEF Init, TypeInv

LEMMA TypeInvGives == TypeInv => TypeOK
  <1> SUFFICES ASSUME TypeInv
               PROVE  TypeOK
    OBVIOUS
  <1>1. ASSUME NEW w \in Pass
        PROVE  /\ pass[w].at \in PassState
               /\ pass[w].desired \subseteq [user : User, cred : Cred]
               /\ pass[w].view \in [Slot -> Row \cup {NoRow}]
               /\ pass[w].left \subseteq Slot
               /\ pass[w].slot \in Slot \cup {0}
               /\ pass[w].fresh \in BOOLEAN
               /\ pass[w].found \in Row \cup {NoRow}
    <2>1. pass[w] \in PassRecord
      BY DEF TypeInv, GoodPass
    <2>2. QED
      BY <2>1 DEF PassRecord, Table, Assignment
  <1>2. QED
    BY <1>1 DEF TypeInv, TypeOK, PeopleOK, RevocationOK, Table

\* No row has gone.
Grows(before, after) == \A s \in Slot : before[s] # NoRow => after[s] # NoRow

LEMMA GoodPassGrows ==
    ASSUME NEW p, NEW before \in Table, NEW after \in Table,
           GoodPass(p, before), Grows(before, after)
    PROVE  GoodPass(p, after)
  <1>1. p.left \subseteq Slot
    BY DEF GoodPass, PassRecord
  <1>2. QED
    BY <1>1 DEF GoodPass, Grows

\* A row that is updated stays a row.
LEMMA StatusKeepsTable ==
    ASSUME NEW table \in Table, NEW s \in Slot, table[s] # NoRow, NEW status \in SlotSyncStatus
    PROVE  /\ [table EXCEPT ![s].sync = status] \in Table
           /\ Grows(table, [table EXCEPT ![s].sync = status])
  <1>1. table[s] \in Row
    BY DEF Table
  <1>2. [table[s] EXCEPT !.sync = status] \in Row
    BY <1>1 DEF Row
  <1>3. QED
    BY <1>2, NoRowAssumption DEF Table, Grows

LEMMA ForgetKeepsTable ==
    ASSUME NEW table \in Table, NEW s \in Slot, table[s] # NoRow
    PROVE  /\ [table EXCEPT ![s].user = Nobody, ![s].cred = Nobody] \in Table
           /\ Grows(table, [table EXCEPT ![s].user = Nobody, ![s].cred = Nobody])
  <1>1. table[s] \in Row
    BY DEF Table
  <1>2. [table[s] EXCEPT !.user = Nobody, !.cred = Nobody] \in Row
    BY <1>1 DEF Row
  <1>3. [table EXCEPT ![s].user = Nobody, ![s].cred = Nobody]
          = [table EXCEPT ![s] = [table[s] EXCEPT !.user = Nobody, !.cred = Nobody]]
    BY <1>1 DEF Table, Row
  <1>4. QED
    BY <1>2, <1>3, NoRowAssumption DEF Table, Grows

LEMMA AssignKeepsTable ==
    ASSUME NEW table \in Table, NEW s \in Slot, NEW row \in Row
    PROVE  /\ [table EXCEPT ![s] = row] \in Table
           /\ Grows(table, [table EXCEPT ![s] = row])
  BY NoRowAssumption DEF Table, Grows

\* A step of a pass that leaves the people and the revocation alone.
LEMMA PassAdvances ==
    ASSUME TypeInv, NEW w \in Pass, NEW q,
           rows' \in Table, Grows(rows, rows'),
           pass' = [pass EXCEPT ![w] = q], GoodPass(q, rows'),
           codes' \in [Slot -> Cred \cup {NoCode}], calm' \in BOOLEAN,
           UNCHANGED <<people, revocation, fault>>
    PROVE  TypeInv'
  <1>1. \A v \in Pass : pass'[v] = IF v = w THEN q ELSE pass[v]
    BY DEF TypeInv
  <1>2. \A v \in Pass : GoodPass(pass'[v], rows')
    BY <1>1, GoodPassGrows DEF TypeInv
  <1>3. RevocationOK'
    BY DEF TypeInv, RevocationOK, Grows
  <1>4. PeopleOK'
    BY DEF TypeInv, PeopleOK, people
  <1>5. QED
    BY <1>2, <1>3, <1>4 DEF TypeInv

\* A step that leaves the passes alone.
LEMMA PassesStay ==
    ASSUME TypeInv, rows' \in Table, Grows(rows, rows'), PeopleOK', RevocationOK',
           calm' \in BOOLEAN, UNCHANGED <<pass, codes, fault>>
    PROVE  TypeInv'
  <1>1. \A v \in Pass : GoodPass(pass'[v], rows')
    BY GoodPassGrows DEF TypeInv
  <1>2. QED
    BY <1>1 DEF TypeInv

LEMMA TableStays ==
    ASSUME TypeInv, rows' = rows
    PROVE  rows' \in Table /\ Grows(rows, rows')
  BY DEF TypeInv, Grows

LEMMA DesiredTyped ==
    ASSUME PeopleOK
    PROVE  Desired \subseteq Assignment
  <1>1. ASSUME NEW u \in users, creds[u] # <<>>
        PROVE  Head(creds[u]) \in Cred
    <2>1. creds[u] \in Seq(Cred)
      BY DEF PeopleOK
    <2>2. QED
      BY <1>1, <2>1, HeadTailProperties
  <1>2. QED
    BY <1>1 DEF Desired, Assignment, PeopleOK

\* A pass that changes only what it keeps for itself.
LEMMA PassRemembers ==
    ASSUME TypeInv, NEW w \in Pass, NEW q, Goes(w, q), GoodPass(q, rows),
           calm' \in BOOLEAN, UNCHANGED <<people, rows, codes, revocation, fault>>
    PROVE  TypeInv'
  BY TableStays, PassAdvances DEF Goes, TypeInv

LEMMA StartTypes ==
    ASSUME TypeInv, NEW w \in Pass, Start(w), UNCHANGED <<revocation, fault>>
    PROVE  TypeInv'
  <1> DEFINE q == [NoPass EXCEPT !.at = "read", !.desired = Desired]
  <1>1. Desired \subseteq Assignment
    BY DesiredTyped DEF TypeInv
  <1>2. GoodPass(NoPass, rows)
    BY NoPassGood DEF TypeInv
  <1>3. GoodPass(q, rows)
    BY <1>1, <1>2 DEF GoodPass, PassRecord, PassState, Busy, Serving, NoPass
  <1>4. calm' \in BOOLEAN
    BY DEF Start
  <1>5. QED
    BY <1>3, <1>4, PassRemembers DEF Start

LEMMA ReadSlotsTypes ==
    ASSUME TypeInv, NEW w \in Pass, ReadSlots(w), UNCHANGED <<revocation, fault>>
    PROVE  TypeInv'
  <1> DEFINE q == [pass[w] EXCEPT !.at = "remove", !.left = Obsolete(pass[w].desired, rows)]
  <1>1. GoodPass(pass[w], rows)
    BY DEF TypeInv
  <1>2. Obsolete(pass[w].desired, rows) \subseteq {s \in Slot : rows[s] # NoRow}
    BY DEF Obsolete, Taken
  <1>3. GoodPass(q, rows)
    BY <1>1, <1>2 DEF GoodPass, PassRecord, PassState, Busy, Serving
  <1>4. QED
    BY <1>3, PassRemembers DEF ReadSlots, TypeInv

LEMMA MarkDeletingTypes ==
    ASSUME TypeInv, NEW w \in Pass, MarkDeleting(w), UNCHANGED <<revocation, fault>>
    PROVE  TypeInv'
  <1> DEFINE s == Least(pass[w].left)
             q == [pass[w] EXCEPT !.at = "clearing", !.slot = s, !.left = @ \ {s}]
  <1>1. GoodPass(pass[w], rows) /\ pass[w].left # {}
    BY DEF TypeInv, MarkDeleting
  <1>2. s \in pass[w].left
    BY <1>1, LeastIsOne DEF GoodPass, PassRecord
  <1>3. s \in Slot /\ rows[s] # NoRow
    BY <1>1, <1>2 DEF GoodPass, PassRecord
  <1>4. rows' = [rows EXCEPT ![s].sync = "Deleting"]
    BY DEF MarkDeleting, UpdateSlotSyncStatus
  <1>5. rows' \in Table /\ Grows(rows, rows')
    BY <1>3, <1>4, StatusKeepsTable DEF TypeInv, SlotSyncStatus
  <1>6. GoodPass(q, rows)
    BY <1>1, <1>3 DEF GoodPass, PassRecord, PassState, Busy, Serving
  <1>7. GoodPass(q, rows')
    BY <1>5, <1>6, GoodPassGrows DEF TypeInv
  <1>8. pass' = [pass EXCEPT ![w] = q] /\ UNCHANGED <<people, codes, calm>>
    BY DEF MarkDeleting, Goes
  <1>9. QED
    BY <1>5, <1>7, <1>8, PassAdvances DEF TypeInv

\* Whatever becomes of a command, the pass goes on where it may or is given up.
LEMMA CommandTypes ==
    ASSUME TypeInv, NEW w \in Pass, NEW content \in Cred \cup {NoCode},
           NEW done \in PassState, NEW refused \in PassState,
           Command(w, content, done, refused),
           GoodPass([pass[w] EXCEPT !.at = done], rows),
           GoodPass([pass[w] EXCEPT !.at = refused], rows),
           UNCHANGED <<people, rows, revocation, fault>>
    PROVE  TypeInv'
  <1>1. PICK q : Goes(w, q) /\ GoodPass(q, rows)
    BY NoPassGood DEF Command, Abort, TypeInv
  <1>2. codes' \in [Slot -> Cred \cup {NoCode}]
    BY DEF Command, TypeInv
  <1>3. calm' \in BOOLEAN
    BY DEF Command, TypeInv
  <1>4. rows' \in Table /\ Grows(rows, rows')
    BY TableStays
  <1>5. QED
    BY <1>1, <1>2, <1>3, <1>4, PassAdvances DEF Goes

LEMMA ClearSlotCodeTypes ==
    ASSUME TypeInv, NEW w \in Pass, ClearSlotCode(w), UNCHANGED <<revocation, fault>>
    PROVE  TypeInv'
  <1>1. GoodPass(pass[w], rows) /\ pass[w].at = "clearing"
    BY DEF TypeInv, ClearSlotCode, At
  <1>2. /\ GoodPass([pass[w] EXCEPT !.at = "cleared"], rows)
        /\ GoodPass([pass[w] EXCEPT !.at = "clearRefused"], rows)
    BY <1>1 DEF GoodPass, PassRecord, PassState, Busy, Serving
  <1>3. QED
    BY <1>2, CommandTypes DEF ClearSlotCode, PassState

LEMMA ClearSlotTypes ==
    ASSUME TypeInv, NEW w \in Pass, ClearSlot(w), UNCHANGED <<revocation, fault>>
    PROVE  TypeInv'
  <1> DEFINE s == pass[w].slot
             q == [pass[w] EXCEPT !.at = "forgotten"]
  <1>1. GoodPass(pass[w], rows) /\ pass[w].at = "cleared"
    BY DEF TypeInv, ClearSlot, At
  <1>2. s \in Slot /\ rows[s] # NoRow
    BY <1>1 DEF GoodPass, Busy
  <1>3. rows' = [rows EXCEPT ![s].user = Nobody, ![s].cred = Nobody]
    BY DEF ClearSlot
  <1>4. rows' \in Table /\ Grows(rows, rows')
    BY <1>2, <1>3, ForgetKeepsTable DEF TypeInv
  <1>5. GoodPass(q, rows)
    BY <1>1 DEF GoodPass, PassRecord, PassState, Busy, Serving
  <1>6. GoodPass(q, rows')
    BY <1>4, <1>5, GoodPassGrows DEF TypeInv
  <1>7. pass' = [pass EXCEPT ![w] = q] /\ UNCHANGED <<people, codes, calm>>
    BY DEF ClearSlot, Goes
  <1>8. QED
    BY <1>4, <1>6, <1>7, PassAdvances DEF TypeInv

\* A step that gives the row of the slot in hand another status.
LEMMA StatusTypes ==
    ASSUME TypeInv, NEW w \in Pass, NEW s \in Slot, rows[s] # NoRow,
           NEW status \in SlotSyncStatus, UpdateSlotSyncStatus(s, status),
           NEW q, Goes(w, q), GoodPass(q, rows),
           UNCHANGED <<people, codes, calm, revocation, fault>>
    PROVE  TypeInv'
  <1>1. rows' \in Table /\ Grows(rows, rows')
    BY StatusKeepsTable DEF TypeInv, UpdateSlotSyncStatus
  <1>2. GoodPass(q, rows')
    BY <1>1, GoodPassGrows DEF TypeInv
  <1>3. QED
    BY <1>1, <1>2, PassAdvances DEF TypeInv, Goes

LEMMA MarkClearedTypes ==
    ASSUME TypeInv, NEW w \in Pass, MarkCleared(w), UNCHANGED <<revocation, fault>>
    PROVE  TypeInv'
  <1> DEFINE q == [pass[w] EXCEPT !.at = "remove", !.slot = 0]
  <1>1. GoodPass(pass[w], rows) /\ pass[w].at \in Busy
    BY DEF TypeInv, MarkCleared, At, Busy
  <1>2. pass[w].slot \in Slot /\ rows[pass[w].slot] # NoRow
    BY <1>1 DEF GoodPass
  <1>3. GoodPass(q, rows)
    BY <1>1 DEF GoodPass, PassRecord, PassState, Busy, Serving
  <1>4. PICK status \in SlotSyncStatus : UpdateSlotSyncStatus(pass[w].slot, status)
    BY DEF MarkCleared, SlotSyncStatus
  <1>5. QED
    BY <1>2, <1>3, <1>4, StatusTypes DEF MarkCleared

LEMMA RefreshTypes ==
    ASSUME TypeInv, NEW w \in Pass, Refresh(w), UNCHANGED <<revocation, fault>>
    PROVE  TypeInv'
  <1> DEFINE q == [pass[w] EXCEPT !.at = "add", !.view = rows]
  <1>1. GoodPass(pass[w], rows) /\ rows \in Table
    BY DEF TypeInv
  <1>2. GoodPass(q, rows)
    BY <1>1 DEF GoodPass, PassRecord, PassState, Busy, Serving
  <1>3. QED
    BY <1>2, PassRemembers DEF Refresh, TypeInv

LEMMA SkipTypes ==
    ASSUME TypeInv, NEW w \in Pass, Skip(w), UNCHANGED <<revocation, fault>>
    PROVE  TypeInv'
  <1> DEFINE q == [pass[w] EXCEPT !.desired = @ \ {Want(w)}]
  <1>1. GoodPass(pass[w], rows) /\ pass[w].at = "add"
    BY DEF TypeInv, Skip, ToAdd, At
  <1>2. GoodPass(q, rows)
    BY <1>1 DEF GoodPass, PassRecord, PassState, Busy, Serving
  <1>3. QED
    BY <1>2, PassRemembers DEF Skip, TypeInv

\* The slot a desired user has or is given.
LEMMA SlotInHand ==
    ASSUME NEW w
    PROVE  /\ Existing(w) # {} => Least(Existing(w)) \in Existing(w)
           /\ FreeSlots(pass[w].view) # {} =>
                Least(FreeSlots(pass[w].view)) \in FreeSlots(pass[w].view)
           /\ Existing(w) \subseteq Slot
           /\ FreeSlots(pass[w].view) \subseteq Slot
  <1>1. Existing(w) \subseteq Slot /\ FreeSlots(pass[w].view) \subseteq Slot
    BY DEF Existing, FreeSlots
  <1>2. QED
    BY <1>1, LeastIsOne

LEMMA MarkAddingTypes ==
    ASSUME TypeInv, NEW w \in Pass, MarkAdding(w), UNCHANGED <<revocation, fault>>
    PROVE  TypeInv'
  <1> DEFINE s == Least(Existing(w))
             q == [pass[w] EXCEPT !.at = "setting", !.slot = s, !.fresh = FALSE]
  <1>1. GoodPass(pass[w], rows) /\ pass[w].desired # {}
    BY DEF TypeInv, MarkAdding, ToAdd
  <1>2. s \in Existing(w)
    BY SlotInHand DEF MarkAdding
  <1>3. s \in Slot /\ pass[w].view[s] # NoRow
    BY <1>2 DEF Existing, Holds, Taken
  <1>4. rows[s] # NoRow
    BY <1>1, <1>3 DEF GoodPass
  <1>5. GoodPass(q, rows)
    BY <1>1, <1>3, <1>4 DEF GoodPass, PassRecord, PassState, Busy, Serving
  <1>6. UpdateSlotSyncStatus(s, "Adding") /\ Goes(w, q)
    BY DEF MarkAdding
  <1>7. QED
    BY <1>3, <1>4, <1>5, <1>6, StatusTypes DEF MarkAdding, SlotSyncStatus

\* A desired user and its credential make a row.
LEMMA WantTyped ==
    ASSUME NEW w, pass[w].desired \subseteq Assignment, pass[w].desired # {}
    PROVE  Want(w) \in pass[w].desired /\ Want(w).user \in User /\ Want(w).cred \in Cred
  <1>1. Want(w) \in pass[w].desired
    BY WantIsFirst, FirstIsDesired
  <1>2. QED
    BY <1>1 DEF Assignment

LEMMA AllocateTypes ==
    ASSUME TypeInv, NEW w \in Pass, Allocate(w), UNCHANGED <<revocation, fault>>
    PROVE  TypeInv'
  <1> DEFINE s == Least(FreeSlots(pass[w].view))
             row == [user |-> Want(w).user, cred |-> Want(w).cred, sync |-> "Synced"]
             q == [pass[w] EXCEPT !.at = "inserted", !.slot = s, !.fresh = TRUE]
  <1>1. GoodPass(pass[w], rows) /\ pass[w].desired # {}
    BY DEF TypeInv, Allocate, ToAdd
  <1>2. s \in Slot
    BY SlotInHand DEF Allocate
  <1>3. pass[w].desired \subseteq Assignment
    BY <1>1 DEF GoodPass, PassRecord
  <1>4. row \in Row
    BY <1>1, <1>3, WantTyped DEF Row, SlotSyncStatus
  <1>5. CASE rows' = [rows EXCEPT ![s] = row] /\ Goes(w, q)
    <2>1. rows' \in Table /\ Grows(rows, rows')
      BY <1>2, <1>4, <1>5, AssignKeepsTable DEF TypeInv
    <2>2. rows'[s] # NoRow
      BY <1>2, <1>4, <1>5, NoRowAssumption DEF TypeInv, Table
    <2>3. GoodPass(pass[w], rows')
      BY <1>1, <2>1, GoodPassGrows DEF TypeInv
    <2>4. GoodPass(q, rows')
      BY <1>1, <1>2, <2>2, <2>3 DEF GoodPass, PassRecord, PassState, Busy, Serving
    <2>5. QED
      BY <1>5, <2>1, <2>4, PassAdvances DEF TypeInv, Goes, Allocate
  <1>6. CASE Abort(w) /\ UNCHANGED rows
    BY <1>6, NoPassGood, PassRemembers DEF TypeInv, Abort, Allocate
  <1>7. QED
    BY <1>5, <1>6 DEF Allocate

LEMMA GetSlotTypes ==
    ASSUME TypeInv, NEW w \in Pass, GetSlot(w), UNCHANGED <<revocation, fault>>
    PROVE  TypeInv'
  <1> DEFINE q == [pass[w] EXCEPT !.at = "allocated", !.found = rows[pass[w].slot]]
  <1>1. GoodPass(pass[w], rows) /\ pass[w].at = "inserted"
    BY DEF TypeInv, GetSlot, At
  <1>2. pass[w].slot \in Slot /\ rows[pass[w].slot] \in Row \cup {NoRow}
    BY <1>1 DEF GoodPass, Busy, TypeInv, Table
  <1>3. GoodPass(q, rows)
    BY <1>1, <1>2 DEF GoodPass, PassRecord, PassState, Busy, Serving
  <1>4. QED
    BY <1>3, PassRemembers DEF GetSlot, TypeInv

LEMMA MarkAllocatedTypes ==
    ASSUME TypeInv, NEW w \in Pass, MarkAllocated(w), UNCHANGED <<revocation, fault>>
    PROVE  TypeInv'
  <1> DEFINE q == [pass[w] EXCEPT !.at = "setting"]
  <1>1. GoodPass(pass[w], rows) /\ pass[w].at = "allocated"
    BY DEF TypeInv, MarkAllocated, At
  <1>2. pass[w].slot \in Slot /\ rows[pass[w].slot] # NoRow
    BY <1>1 DEF GoodPass, Busy
  <1>3. GoodPass(q, rows)
    BY <1>1 DEF GoodPass, PassRecord, PassState, Busy, Serving
  <1>4. QED
    BY <1>2, <1>3, StatusTypes DEF MarkAllocated, SlotSyncStatus

LEMMA SetSlotCodeTypes ==
    ASSUME TypeInv, NEW w \in Pass, SetSlotCode(w), UNCHANGED <<revocation, fault>>
    PROVE  TypeInv'
  <1>1. GoodPass(pass[w], rows) /\ pass[w].at = "setting"
    BY DEF TypeInv, SetSlotCode, At
  <1>2. /\ GoodPass([pass[w] EXCEPT !.at = "set"], rows)
        /\ GoodPass([pass[w] EXCEPT !.at = "setRefused"], rows)
    BY <1>1 DEF GoodPass, PassRecord, PassState, Busy, Serving
  <1>3. Want(w).cred \in Cred
    BY <1>1, WantTyped DEF GoodPass, PassRecord, Serving
  <1>4. QED
    BY <1>2, <1>3, CommandTypes DEF SetSlotCode, PassState

LEMMA MarkSetTypes ==
    ASSUME TypeInv, NEW w \in Pass, MarkSet(w), UNCHANGED <<revocation, fault>>
    PROVE  TypeInv'
  <1> DEFINE s == pass[w].slot
             next == [pass[w] EXCEPT !.at = "add", !.desired = @ \ {Want(w)},
                                     !.slot = 0, !.fresh = FALSE, !.found = NoRow]
             found == pass[w].found
             q == [next EXCEPT !.view[s] = found]
  <1>1. GoodPass(pass[w], rows) /\ pass[w].at \in Serving /\ pass[w].at \in Busy
    BY DEF TypeInv, MarkSet, At, Serving, Busy
  <1>2. s \in Slot /\ rows[s] # NoRow
    BY <1>1 DEF GoodPass
  <1>3. found \in Row \cup {NoRow}
    BY <1>1 DEF GoodPass, PassRecord
  <1>4. GoodPass(next, rows)
    BY <1>1 DEF GoodPass, PassRecord, PassState, Busy, Serving
  <1>5. GoodPass(q, rows)
    <2>1. next \in PassRecord
      BY <1>4 DEF GoodPass
    <2>2. next.view \in Table
      BY <2>1 DEF PassRecord
    <2>3. [next.view EXCEPT ![s] = found] \in Table
      BY <2>2, <1>3 DEF Table
    <2>4. q = [next EXCEPT !.view = [next.view EXCEPT ![s] = found]]
      BY DEF PassRecord
    <2>5. q \in PassRecord
      BY <2>1, <2>3, <2>4 DEF PassRecord
    <2>6. \A t \in Slot : q.view[t] # NoRow => rows[t] # NoRow
      BY <1>2, <1>4, <2>1, <2>2, <2>4 DEF GoodPass, PassRecord, Table
    <2>7. q.left = next.left /\ q.at = next.at /\ q.slot = next.slot /\ q.desired = next.desired
      BY <2>1, <2>4 DEF PassRecord
    <2>8. QED
      BY <1>4, <2>5, <2>6, <2>7 DEF GoodPass
  <1>6. \E r : Goes(w, r) /\ GoodPass(r, rows)
    BY <1>4, <1>5 DEF MarkSet
  <1>7. PICK status \in SlotSyncStatus : UpdateSlotSyncStatus(s, status)
    BY DEF MarkSet, SlotSyncStatus
  <1>8. QED
    BY <1>2, <1>6, <1>7, StatusTypes DEF MarkSet

LEMMA FinishTypes ==
    ASSUME TypeInv, NEW w \in Pass, Finish(w), UNCHANGED <<revocation, fault>>
    PROVE  TypeInv'
  BY NoPassGood, PassRemembers DEF Finish, Abort, TypeInv

LEMMA StepTypes ==
    ASSUME TypeInv, NEW w \in Pass, Step(w), UNCHANGED fault
    PROVE  TypeInv'
  <1>1. UNCHANGED <<revocation, fault>>
    BY DEF Step
  <1>2. QED
    BY <1>1, StartTypes, ReadSlotsTypes, MarkDeletingTypes, ClearSlotCodeTypes,
       ClearSlotTypes, MarkClearedTypes, RefreshTypes, SkipTypes, MarkAddingTypes,
       AllocateTypes, GetSlotTypes, MarkAllocatedTypes, SetSlotCodeTypes, MarkSetTypes, FinishTypes
       DEF Step

\* ON DELETE SET NULL updates rows and removes none.
LEMMA SetNullKeepsTable ==
    ASSUME rows \in Table, NEW u, NEW gone, SetNull(u, gone)
    PROVE  rows' \in Table /\ Grows(rows, rows')
  <1>1. ASSUME NEW s \in Slot, rows[s] # NoRow
        PROVE  rows'[s] \in Row
    <2>1. rows[s] \in Row
      BY <1>1 DEF Table
    <2>2. rows'[s] = [rows[s] EXCEPT !.user = IF @ = u THEN Nobody ELSE @,
                                     !.cred = IF @ \in gone THEN Nobody ELSE @]
      BY <1>1 DEF SetNull
    <2>3. QED
      BY <2>1, <2>2 DEF Row
  <1>2. \A s \in Slot : rows[s] = NoRow => rows'[s] = NoRow
    BY DEF SetNull
  <1>3. rows' \in [Slot -> Row \cup {NoRow}]
    <2>1. \A s \in Slot : rows'[s] \in Row \cup {NoRow}
      BY <1>1, <1>2
    <2>2. QED
      BY <2>1 DEF SetNull
  <1>4. QED
    BY <1>1, <1>3, NoRowAssumption DEF Table, Grows

\* Deleting an element leaves a sequence of credentials.
LEMMA CutTyped ==
    ASSUME NEW seq \in Seq(Cred), NEW i \in DOMAIN seq
    PROVE  SubSeq(seq, 1, i - 1) \o SubSeq(seq, i + 1, Len(seq)) \in Seq(Cred)
  <1>1. i \in 1..Len(seq) /\ Len(seq) \in Nat
    OBVIOUS
  <1>2. SubSeq(seq, 1, i - 1) \in Seq(Cred)
    BY <1>1, SubSeqProperties
  <1>3. SubSeq(seq, i + 1, Len(seq)) \in Seq(Cred)
    BY <1>1, SubSeqProperties
  <1>4. QED
    BY <1>2, <1>3, ConcatProperties

LEMMA AdministrationTypes ==
    ASSUME TypeInv, Administration, UNCHANGED fault
    PROVE  TypeInv'
  <1> USE DEF TypeInv
  <1>1. ASSUME NEW u \in User, ChangeEntitlement(u)
        PROVE  TypeInv'
    <2>1. PeopleOK'
      BY <1>1 DEF ChangeEntitlement, PeopleOK
    <2>2. QED
      BY <1>1, <2>1, TableStays, PassesStay DEF ChangeEntitlement, RevocationOK
  <1>2. ASSUME NEW u \in User, NEW i \in DOMAIN creds[u], DeleteCredential(u, i)
        PROVE  TypeInv'
    <2>1. creds[u] \in Seq(Cred)
      BY DEF PeopleOK
    <2>2. SubSeq(creds[u], 1, i - 1) \o SubSeq(creds[u], i + 1, Len(creds[u])) \in Seq(Cred)
      BY <2>1, CutTyped
    <2>3. PeopleOK'
      BY <1>2, <2>2 DEF DeleteCredential, PeopleOK
    <2>4. rows' \in Table /\ Grows(rows, rows')
      BY <1>2, SetNullKeepsTable DEF DeleteCredential
    <2>5. RevocationOK'
      BY <1>2, <2>4 DEF DeleteCredential, RevocationOK, Grows
    <2>6. QED
      BY <1>2, <2>3, <2>4, <2>5, PassesStay DEF DeleteCredential
  <1>3. ASSUME NEW u \in User, DeleteUser(u)
        PROVE  TypeInv'
    <2>1. <<>> \in Seq(Cred)
      OBVIOUS
    <2>2. PeopleOK'
      BY <1>3, <2>1 DEF DeleteUser, PeopleOK
    <2>3. rows' \in Table /\ Grows(rows, rows')
      BY <1>3, SetNullKeepsTable DEF DeleteUser
    <2>4. RevocationOK'
      BY <1>3, <2>3 DEF DeleteUser, RevocationOK, Grows
    <2>5. QED
      BY <1>3, <2>2, <2>3, <2>4, PassesStay DEF DeleteUser
  <1>4. ASSUME NEW u \in User, DeactivateUser(u)
        PROVE  TypeInv'
    <2>1. PeopleOK'
      BY <1>4 DEF DeactivateUser, PeopleOK
    <2>2. RevocationOK'
      BY <1>4 DEF DeactivateUser, RevocationOK
    <2>3. QED
      BY <1>4, <2>1, <2>2, TableStays, PassesStay DEF DeactivateUser
  <1>5. ASSUME NEW c \in Cred, SetPin(c)
        PROVE  TypeInv'
    <2>1. Owner[c] \in User /\ creds[Owner[c]] \in Seq(Cred)
      BY OwnerAssumption DEF PeopleOK
    <2>2. Append(creds[Owner[c]], c) \in Seq(Cred)
      BY <2>1, AppendProperties
    <2>3. PeopleOK'
      BY <1>5, <2>1, <2>2 DEF SetPin, PeopleOK
    <2>4. QED
      BY <1>5, <2>3, TableStays, PassesStay DEF SetPin, RevocationOK
  <1>6. CASE ReadRevoked
    <2>1. {s \in Slot : Taken(rows[s]) /\ rows[s].user = revocation.user}
            \subseteq {s \in Slot : rows[s] # NoRow}
      BY DEF Taken
    <2>2. RevocationOK'
      BY <1>6, <2>1 DEF ReadRevoked, RevocationOK
    <2>3. PeopleOK'
      BY <1>6 DEF ReadRevoked, PeopleOK, people
    <2>4. QED
      BY <1>6, <2>2, <2>3, TableStays, PassesStay DEF ReadRevoked
  <1>7. CASE ForgetRevoked
    <2>1. PeopleOK'
      BY <1>7 DEF ForgetRevoked, PeopleOK, people
    <2>2. ASSUME NEW s \in revocation.left,
                 rows' = [rows EXCEPT ![s].user = Nobody, ![s].cred = Nobody],
                 revocation' = [revocation EXCEPT !.left = @ \ {s}],
                 calm' = FALSE
          PROVE  TypeInv'
      <3>1. s \in Slot /\ rows[s] # NoRow
        BY DEF RevocationOK
      <3>2. rows' \in Table /\ Grows(rows, rows')
        BY <2>2, <3>1, ForgetKeepsTable
      <3>3. RevocationOK'
        BY <2>2, <3>2 DEF RevocationOK, Grows
      <3>4. QED
        BY <1>7, <2>1, <2>2, <3>2, <3>3, PassesStay DEF ForgetRevoked
    <2>3. CASE revocation' = NoRevocation /\ UNCHANGED <<rows, calm>>
      <3>1. RevocationOK'
        BY <2>3 DEF RevocationOK, NoRevocation
      <3>2. QED
        BY <1>7, <2>1, <2>3, <3>1, TableStays, PassesStay DEF ForgetRevoked
    <2>4. QED
      BY <1>7, <2>2, <2>3 DEF ForgetRevoked
  <1>8. QED
    BY <1>1, <1>2, <1>3, <1>4, <1>5, <1>6, <1>7 DEF Administration

LEMMA CrashTypes ==
    ASSUME TypeInv, Crash, UNCHANGED fault
    PROVE  TypeInv'
  <1>1. PeopleOK'
    BY DEF TypeInv, Crash, PeopleOK, people
  <1>2. RevocationOK'
    BY DEF Crash, RevocationOK, NoRevocation
  <1>3. \A w \in Pass : GoodPass(pass'[w], rows')
    BY NoPassGood DEF TypeInv, Crash
  <1>4. QED
    BY <1>1, <1>2, <1>3 DEF TypeInv, Crash

LEMMA TypeNext == TypeInv /\ [Next]_vars => TypeInv'
  <1> SUFFICES ASSUME TypeInv, [Next]_vars
               PROVE  TypeInv'
    OBVIOUS
  <1>1. CASE Next
    BY <1>1, StepTypes, AdministrationTypes, CrashTypes DEF Next
  <1>2. CASE UNCHANGED vars
    BY <1>2 DEF vars, people, TypeInv, PeopleOK, RevocationOK
  <1>3. QED
    BY <1>1, <1>2

\* Reconciliations, however many run, administrators, revocations and crashes leave
\* every variable in its type: a pass never updates a slot that has no row, and
\* never serves anybody when its list is empty.
THEOREM SlotSyncTypeCorrect == Spec => []TypeOK
  <1>1. Init => TypeInv
    BY TypeInit
  <1>2. TypeInv /\ [Next]_vars => TypeInv'
    BY TypeNext
  <1>3. TypeInv => TypeOK
    BY TypeInvGives
  <1>4. QED
    BY <1>1, <1>2, <1>3, PTL DEF Spec

----------------------------------------------------------------------------
(* One slot for a credential, when one reconciliation runs at a time         *)

OnePass == \A v, w \in Pass : v = w

\* The stages in which a pass serves the desired users from the rows it has read.
Adding == {"add"} \cup Serving

\* The slot in hand was taken for the user who is served, and is not in the view yet.
InHand(p) == p.at \in Serving /\ p.fresh

\* It has been read back, so that the pass has what will join the view.
ReadBack(p) == p.at \in Serving \ {"inserted"} /\ p.fresh

\* A row that has a desired user and its credential is in the view of the pass, but
\* for the one it has just given; so a pass gives no slot to whom has one.
Knows(p, table) ==
    /\ \A d \in p.desired : Owner[d.cred] = d.user
    /\ p.at \in Adding =>
         \A d \in p.desired : \A t \in Slot :
            Holds(table[t], d) =>
                \/ Holds(p.view[t], d)
                \/ InHand(p) /\ d = First(p.desired) /\ t = p.slot
    /\ InHand(p) => \A d \in p.desired : Holds(table[p.slot], d) => d = First(p.desired)

CredsOwned == \A u \in User : \A i \in DOMAIN creds[u] : Owner[creds[u][i]] = u

\* A row that names a credential names its owner, who still has it.
RowsKnown ==
    \A s \in Slot : rows[s] # NoRow /\ rows[s].cred # Nobody =>
        /\ rows[s].user = Owner[rows[s].cred]
        /\ \E i \in DOMAIN creds[rows[s].user] : creds[rows[s].user][i] = rows[s].cred

OwnInv ==
    /\ CredsOwned
    /\ RowsKnown
    /\ OneSlotPerCredential
    /\ \A w \in Pass : Knows(pass[w], rows)

LEMMA NoPassKnows ==
    ASSUME NEW table
    PROVE  Knows(NoPass, table)
  BY DEF Knows, NoPass, Adding, Serving, InHand

LEMMA OwnInit == Init => OwnInv
  <1> SUFFICES ASSUME Init
               PROVE  OwnInv
    OBVIOUS
  <1>1. \A w \in Pass : Knows(pass[w], rows)
    BY NoPassKnows DEF Init
  <1>2. CredsOwned
    BY DEF Init, CredsOwned
  <1>3. RowsKnown /\ OneSlotPerCredential
    BY DEF Init, RowsKnown, OneSlotPerCredential
  <1>4. QED
    BY <1>1, <1>2, <1>3 DEF OwnInv

\* No row is given to anybody: a row may lose its credential, or get another status.
Fades(before, after) ==
    \A s \in Slot : after[s] # NoRow =>
        /\ before[s] # NoRow
        /\ after[s].cred # Nobody => /\ after[s].cred = before[s].cred
                                     /\ after[s].user = before[s].user

LEMMA HoldsFades ==
    ASSUME NEW before \in Table, NEW after \in Table, Fades(before, after),
           NEW d \in Assignment, NEW t \in Slot, Holds(after[t], d)
    PROVE  Holds(before[t], d)
  <1>1. d.cred # Nobody /\ d.user # Nobody
    BY NullAssumption DEF Assignment
  <1>2. QED
    BY <1>1 DEF Fades, Holds, Taken

LEMMA KnowsFades ==
    ASSUME NEW before \in Table, NEW after \in Table, Fades(before, after),
           NEW p, GoodPass(p, before), Knows(p, before)
    PROVE  Knows(p, after)
  <1>1. p.desired \subseteq Assignment
    BY DEF GoodPass, PassRecord
  <1>2. InHand(p) => p.slot \in Slot
    BY DEF GoodPass, InHand, Serving, Busy
  <1>3. \A d \in p.desired : \A t \in Slot : Holds(after[t], d) => Holds(before[t], d)
    BY <1>1, HoldsFades
  <1>4. QED
    BY <1>2, <1>3 DEF Knows

LEMMA TableFades ==
    ASSUME OwnInv, rows \in Table, Fades(rows, rows'), UNCHANGED creds
    PROVE  RowsKnown' /\ OneSlotPerCredential'
  <1>1. RowsKnown'
    BY DEF OwnInv, RowsKnown, Fades
  <1>2. OneSlotPerCredential'
    BY DEF OwnInv, OneSlotPerCredential, Fades
  <1>3. QED
    BY <1>1, <1>2

\* A step of the pass that gives no row to anybody.
LEMMA PassKeepsOwn ==
    ASSUME OnePass, TypeInv, OwnInv, NEW w \in Pass, NEW q, Goes(w, q),
           Fades(rows, rows'), Knows(q, rows'), UNCHANGED people
    PROVE  OwnInv'
  <1>1. \A v \in Pass : pass'[v] = q
    BY DEF TypeInv, OnePass, Goes
  <1>2. \A v \in Pass : Knows(pass'[v], rows')
    BY <1>1
  <1>3. CredsOwned'
    BY DEF OwnInv, CredsOwned, people
  <1>4. RowsKnown' /\ OneSlotPerCredential'
    BY TableFades DEF TypeInv, people
  <1>5. QED
    BY <1>2, <1>3, <1>4 DEF OwnInv

\* A step of the pass that leaves the table alone.
LEMMA PassOnlyOwn ==
    ASSUME OnePass, TypeInv, OwnInv, NEW w \in Pass, NEW q, Goes(w, q),
           Knows(q, rows), UNCHANGED <<people, rows>>
    PROVE  OwnInv'
  <1>1. Fades(rows, rows')
    BY DEF Fades
  <1>2. QED
    BY <1>1, PassKeepsOwn

LEMMA StatusFades ==
    ASSUME NEW table \in Table, NEW s \in Slot, table[s] # NoRow, NEW status
    PROVE  Fades(table, [table EXCEPT ![s].sync = status])
  <1>1. table[s] \in Row
    BY DEF Table
  <1>2. /\ [table[s] EXCEPT !.sync = status].user = table[s].user
        /\ [table[s] EXCEPT !.sync = status].cred = table[s].cred
    BY <1>1 DEF Row
  <1>3. QED
    BY <1>2 DEF Table, Fades

LEMMA ForgetFades ==
    ASSUME NEW table \in Table, NEW s \in Slot, table[s] # NoRow
    PROVE  Fades(table, [table EXCEPT ![s].user = Nobody, ![s].cred = Nobody])
  <1>1. table[s] \in Row
    BY DEF Table
  <1>2. [table EXCEPT ![s].user = Nobody, ![s].cred = Nobody]
          = [table EXCEPT ![s] = [table[s] EXCEPT !.user = Nobody, !.cred = Nobody]]
    BY <1>1 DEF Table, Row
  <1>3. [table[s] EXCEPT !.user = Nobody, !.cred = Nobody].cred = Nobody
    BY <1>1 DEF Row
  <1>4. QED
    BY <1>2, <1>3 DEF Table, Fades

\* A step that gives the row of the slot in hand another status.
LEMMA StatusOwn ==
    ASSUME OnePass, TypeInv, OwnInv, NEW w \in Pass, NEW s \in Slot, rows[s] # NoRow,
           NEW status, UpdateSlotSyncStatus(s, status),
           NEW q, Goes(w, q), GoodPass(q, rows), Knows(q, rows), UNCHANGED people, TypeInv'
    PROVE  OwnInv'
  <1>1. Fades(rows, rows')
    BY StatusFades DEF TypeInv, UpdateSlotSyncStatus
  <1>2. Knows(q, rows')
    BY <1>1, KnowsFades DEF TypeInv
  <1>3. QED
    BY <1>1, <1>2, PassKeepsOwn

LEMMA DesiredOwned ==
    ASSUME PeopleOK, CredsOwned
    PROVE  \A d \in Desired : Owner[d.cred] = d.user
  <1>1. ASSUME NEW u \in users, creds[u] # <<>>
        PROVE  Owner[Head(creds[u])] = u
    <2>1. creds[u] \in Seq(Cred) /\ u \in User
      BY DEF PeopleOK
    <2>2. 1 \in DOMAIN creds[u] /\ Head(creds[u]) = creds[u][1]
      BY <1>1, <2>1
    <2>3. QED
      BY <2>1, <2>2 DEF CredsOwned
  <1>2. QED
    BY <1>1 DEF Desired

\* Until it has read the rows again a pass has given no slot.
LEMMA RemovingKnows ==
    ASSUME NEW p, NEW q, NEW table, Knows(p, table), q.desired = p.desired,
           q.at \notin Adding
    PROVE  Knows(q, table)
  BY DEF Knows, Adding, InHand

\* The steps that remove codes.
LEMMA RemoveOwn ==
    ASSUME OnePass, TypeInv, TypeInv', OwnInv, NEW w \in Pass, UNCHANGED <<revocation, fault>>,
           \/ Start(w) \/ ReadSlots(w) \/ MarkDeleting(w) \/ ClearSlotCode(w)
           \/ ClearSlot(w) \/ MarkCleared(w) \/ Refresh(w)
    PROVE  OwnInv'
  <1> DEFINE p == pass[w]
  <1>p. GoodPass(p, rows) /\ p \in PassRecord /\ Knows(p, rows) /\ rows \in Table
    BY DEF TypeInv, OwnInv, GoodPass
  <1>q. GoodPass(pass'[w], rows')
    BY DEF TypeInv
  <1>1. CASE Start(w)
    <2> DEFINE q == [NoPass EXCEPT !.at = "read", !.desired = Desired]
    <2>1. \A d \in Desired : Owner[d.cred] = d.user
      BY DesiredOwned DEF TypeInv, OwnInv
    <2>2. Knows(q, rows)
      BY <2>1 DEF Knows, NoPass, Adding, Serving, InHand
    <2>3. QED
      BY <1>1, <2>2, PassOnlyOwn DEF Start
  <1>2. CASE ReadSlots(w)
    <2> DEFINE q == [p EXCEPT !.at = "remove", !.left = Obsolete(p.desired, rows)]
    <2>1. Knows(q, rows)
      <3>1. q.desired = p.desired /\ q.at = "remove"
        BY <1>p DEF PassRecord
      <3>2. QED
        BY <1>p, <3>1, RemovingKnows DEF Adding, Serving
    <2>2. QED
      BY <1>2, <2>1, PassOnlyOwn DEF ReadSlots
  <1>3. CASE MarkDeleting(w)
    <2> DEFINE s == Least(p.left)
               q == [p EXCEPT !.at = "clearing", !.slot = s, !.left = @ \ {s}]
    <2>1. s \in p.left
      BY <1>3, <1>p, LeastIsOne DEF MarkDeleting, PassRecord
    <2>2. s \in Slot /\ rows[s] # NoRow
      BY <1>p, <2>1 DEF GoodPass, PassRecord
    <2>3. Knows(q, rows)
      <3>1. q.desired = p.desired /\ q.at = "clearing"
        BY <1>p DEF PassRecord
      <3>2. QED
        BY <1>p, <3>1, RemovingKnows DEF Adding, Serving
    <2>4. Goes(w, q) /\ UpdateSlotSyncStatus(s, "Deleting") /\ UNCHANGED people
      BY <1>3 DEF MarkDeleting
    <2>5. GoodPass(q, rows)
      BY <1>p, <2>2 DEF GoodPass, PassRecord, PassState, Busy, Serving
    <2>6. QED
      BY <2>2, <2>3, <2>4, <2>5, StatusOwn
  <1>4. CASE ClearSlotCode(w)
    <2>1. \A state \in {"cleared", "clearRefused"} : Knows([p EXCEPT !.at = state], rows)
      BY <1>p, RemovingKnows DEF PassRecord, Adding, Serving
    <2>2. PICK q : Goes(w, q) /\ Knows(q, rows)
      BY <1>4, <2>1, NoPassKnows DEF ClearSlotCode, Command, Abort
    <2>3. QED
      BY <1>4, <2>2, PassOnlyOwn DEF ClearSlotCode
  <1>5. CASE ClearSlot(w)
    <2> DEFINE q == [p EXCEPT !.at = "forgotten"]
    <2>1. p.slot \in Slot /\ rows[p.slot] # NoRow
      BY <1>5, <1>p DEF ClearSlot, At, GoodPass, Busy
    <2>2. Fades(rows, rows')
      BY <1>5, <1>p, <2>1, ForgetFades DEF ClearSlot
    <2>3. Knows(q, rows)
      BY <1>p, RemovingKnows DEF PassRecord, Adding, Serving
    <2>4. GoodPass(q, rows)
      BY <1>5, <1>p DEF ClearSlot, At, GoodPass, PassRecord, PassState, Busy, Serving
    <2>5. Knows(q, rows')
      BY <2>2, <2>3, <2>4, KnowsFades DEF TypeInv
    <2>6. QED
      BY <1>5, <2>2, <2>5, PassKeepsOwn DEF ClearSlot
  <1>6. CASE MarkCleared(w)
    <2> DEFINE q == [p EXCEPT !.at = "remove", !.slot = 0]
    <2>1. p.slot \in Slot /\ rows[p.slot] # NoRow
      BY <1>6, <1>p DEF MarkCleared, At, GoodPass, Busy
    <2>2. Knows(q, rows)
      <3>1. q.desired = p.desired /\ q.at = "remove"
        BY <1>p DEF PassRecord
      <3>2. QED
        BY <1>p, <3>1, RemovingKnows DEF Adding, Serving
    <2>3. GoodPass(q, rows)
      BY <1>p DEF GoodPass, PassRecord, PassState, Busy, Serving
    <2>4. \E status : UpdateSlotSyncStatus(p.slot, status)
      BY <1>6 DEF MarkCleared
    <2>5. QED
      BY <1>6, <2>1, <2>2, <2>3, <2>4, StatusOwn DEF MarkCleared
  <1>7. CASE Refresh(w)
    <2> DEFINE q == [p EXCEPT !.at = "add", !.view = rows]
    <2>1. Knows(q, rows)
      BY <1>p DEF Knows, PassRecord, InHand, Serving
    <2>2. QED
      BY <1>7, <2>1, PassOnlyOwn DEF Refresh
  <1>8. QED
    BY <1>1, <1>2, <1>3, <1>4, <1>5, <1>6, <1>7

\* AllocateSlotAsync writes a user into a row that the pass took for free from rows
\* it read long before; nobody else has the credential, because no row that has it
\* can be missing in what the pass has read.
LEMMA AllocateOwn ==
    ASSUME OnePass, TypeInv, TypeInv', OwnInv, NEW w \in Pass, Allocate(w)
    PROVE  OwnInv'
  <1> DEFINE p == pass[w]
             s == Least(FreeSlots(p.view))
             want == Want(w)
             row == [user |-> want.user, cred |-> want.cred, sync |-> "Synced"]
             q == [p EXCEPT !.at = "inserted", !.slot = s, !.fresh = TRUE]
  <1>p. GoodPass(p, rows) /\ p \in PassRecord /\ Knows(p, rows) /\ rows \in Table
    BY DEF TypeInv, OwnInv, GoodPass
  <1>1. p.at = "add" /\ p.desired # {} /\ p.desired \subseteq Assignment
    BY <1>p DEF Allocate, ToAdd, At, PassRecord
  <1>2. want \in p.desired /\ want.user \in User /\ want.cred \in Cred /\ want = First(p.desired)
    BY <1>1, WantTyped, WantIsFirst
  <1>3. s \in Slot
    BY SlotInHand DEF Allocate
  <1>4. Owner[want.cred] = want.user
    BY <1>p, <1>2 DEF Knows
  <1>5. \A t \in Slot : ~Holds(rows[t], want)
    <2>1. \A t \in Slot : ~Holds(p.view[t], want)
      BY DEF Allocate, Existing
    <2>2. QED
      BY <1>p, <1>1, <1>2, <2>1 DEF Knows, Adding, InHand, Serving
  <1>6. \A t \in Slot : rows[t] # NoRow => rows[t].cred # want.cred
    <2>1. ASSUME NEW t \in Slot, rows[t] # NoRow, rows[t].cred = want.cred
          PROVE  FALSE
      <3>1. rows[t].cred # Nobody /\ want.user # Nobody
        BY <1>2, <2>1, NullAssumption
      <3>2. rows[t].user = want.user
        BY <1>4, <2>1, <3>1 DEF OwnInv, RowsKnown
      <3>3. QED
        BY <1>5, <2>1, <3>1, <3>2 DEF Holds, Taken
    <2>2. QED
      BY <2>1
  <1>7. CASE /\ \E i \in DOMAIN creds[want.user] : creds[want.user][i] = want.cred
             /\ rows' = [rows EXCEPT ![s] = row] /\ Goes(w, q)
    <2>1. \A t \in Slot : rows'[t] = IF t = s THEN row ELSE rows[t]
      BY <1>p, <1>7 DEF Table
    <2>2. RowsKnown'
      <3>1. creds' = creds
        BY DEF Allocate, people
      <3>2. ASSUME NEW t \in Slot, rows'[t] # NoRow, rows'[t].cred # Nobody
            PROVE  /\ rows'[t].user = Owner[rows'[t].cred]
                   /\ \E i \in DOMAIN creds[rows'[t].user] :
                        creds[rows'[t].user][i] = rows'[t].cred
        <4>1. CASE t = s
          BY <1>4, <1>7, <2>1, <4>1
        <4>2. CASE t # s
          BY <2>1, <3>2, <4>2 DEF OwnInv, RowsKnown
        <4>3. QED
          BY <4>1, <4>2
      <3>3. QED
        BY <3>1, <3>2 DEF RowsKnown
    <2>3. OneSlotPerCredential'
      BY <1>6, <2>1 DEF OwnInv, OneSlotPerCredential
    <2>4. CredsOwned'
      BY DEF OwnInv, CredsOwned, Allocate, people
    <2>5. \A d \in p.desired : Holds(row, d) => d = want
      BY <1>1, <1>2 DEF Assignment, Holds
    <2>6. Knows(q, rows')
      <3>1. q.desired = p.desired /\ q.view = p.view /\ q.slot = s /\ q.at = "inserted" /\ q.fresh
        BY <1>p DEF PassRecord
      <3>2. \A d \in p.desired : \A t \in Slot : t # s /\ Holds(rows'[t], d) => Holds(p.view[t], d)
        BY <1>p, <1>1, <2>1 DEF Knows, Adding, InHand, Serving
      <3>3. rows'[s] = row
        BY <1>3, <2>1
      <3>4. QED
        BY <1>p, <1>2, <2>5, <3>1, <3>2, <3>3 DEF Knows, InHand, Serving
    <2>7. \A v \in Pass : Knows(pass'[v], rows')
      BY <1>7, <2>6 DEF OnePass, TypeInv, Goes
    <2>8. QED
      BY <2>2, <2>3, <2>4, <2>7 DEF OwnInv
  <1>8. CASE Abort(w) /\ UNCHANGED rows
    BY <1>8, NoPassKnows, PassOnlyOwn DEF Abort, Allocate
  <1>9. QED
    BY <1>7, <1>8 DEF Allocate

\* What a pass reads back gives no row to anybody.
LEMMA GetSlotOwn ==
    ASSUME OnePass, TypeInv, TypeInv', OwnInv, NEW w \in Pass, GetSlot(w)
    PROVE  OwnInv'
  <1> DEFINE p == pass[w]
             q == [p EXCEPT !.at = "allocated", !.found = rows[p.slot]]
  <1>1. p \in PassRecord /\ Knows(p, rows) /\ p.at = "inserted"
    BY DEF TypeInv, OwnInv, GoodPass, GetSlot, At
  <1>2. /\ q.desired = p.desired /\ q.at = "allocated" /\ q.view = p.view
        /\ q.fresh = p.fresh /\ q.slot = p.slot
    BY <1>1 DEF PassRecord
  <1>3. Knows(q, rows)
    BY <1>1, <1>2 DEF Knows, Adding, InHand, Serving
  <1>4. QED
    BY <1>3, PassOnlyOwn DEF GetSlot

\* The other steps that install codes.
LEMMA AddOwn ==
    ASSUME OnePass, TypeInv, TypeInv', OwnInv, NEW w \in Pass, UNCHANGED <<revocation, fault>>,
           \/ Skip(w) \/ MarkAdding(w) \/ MarkAllocated(w) \/ SetSlotCode(w)
           \/ MarkSet(w) \/ Finish(w)
    PROVE  OwnInv'
  <1> DEFINE p == pass[w]
  <1>p. GoodPass(p, rows) /\ p \in PassRecord /\ Knows(p, rows) /\ rows \in Table
    BY DEF TypeInv, OwnInv, GoodPass
  <1>1. CASE Skip(w)
    <2> DEFINE q == [p EXCEPT !.desired = @ \ {Want(w)}]
    <2>1. p.at = "add"
      BY <1>1 DEF Skip, ToAdd, At
    <2>2. q.desired \subseteq p.desired /\ q.at = "add" /\ q.view = p.view
      BY <1>p, <2>1 DEF PassRecord
    <2>3. Knows(q, rows)
      BY <1>p, <2>1, <2>2 DEF Knows, Adding, InHand, Serving
    <2>4. QED
      BY <1>1, <2>3, PassOnlyOwn DEF Skip
  <1>2. CASE MarkAdding(w)
    <2> DEFINE s == Least(Existing(w))
               q == [p EXCEPT !.at = "setting", !.slot = s, !.fresh = FALSE]
    <2>1. p.at = "add" /\ p.desired # {}
      BY <1>2 DEF MarkAdding, ToAdd, At
    <2>2. s \in Slot /\ p.view[s] # NoRow
      BY <1>2, SlotInHand DEF MarkAdding, Existing, Holds, Taken
    <2>3. rows[s] # NoRow
      BY <1>p, <2>2 DEF GoodPass
    <2>4. q.desired = p.desired /\ q.at = "setting" /\ q.view = p.view /\ ~q.fresh
      BY <1>p DEF PassRecord
    <2>5. Knows(q, rows)
      BY <1>p, <2>1, <2>4 DEF Knows, Adding, InHand, Serving
    <2>6. GoodPass(q, rows)
      BY <1>p, <2>1, <2>2, <2>3 DEF GoodPass, PassRecord, PassState, Busy, Serving
    <2>7. UpdateSlotSyncStatus(s, "Adding") /\ Goes(w, q) /\ UNCHANGED people
      BY <1>2 DEF MarkAdding
    <2>8. QED
      BY <2>2, <2>3, <2>5, <2>6, <2>7, StatusOwn
  <1>3. CASE MarkAllocated(w)
    <2> DEFINE q == [p EXCEPT !.at = "setting"]
    <2>1. p.at = "allocated"
      BY <1>3 DEF MarkAllocated, At
    <2>2. p.slot \in Slot /\ rows[p.slot] # NoRow
      BY <1>p, <2>1 DEF GoodPass, Busy
    <2>3. /\ q.desired = p.desired /\ q.at = "setting" /\ q.view = p.view
          /\ q.fresh = p.fresh /\ q.slot = p.slot /\ q.found = p.found
      BY <1>p DEF PassRecord
    <2>4. Knows(q, rows)
      BY <1>p, <2>1, <2>3 DEF Knows, Adding, InHand, Serving
    <2>5. GoodPass(q, rows)
      BY <1>p, <2>1 DEF GoodPass, PassRecord, PassState, Busy, Serving
    <2>6. QED
      BY <1>3, <2>2, <2>4, <2>5, StatusOwn DEF MarkAllocated
  <1>4. CASE SetSlotCode(w)
    <2>1. p.at = "setting"
      BY <1>4 DEF SetSlotCode, At
    <2>2. ASSUME NEW state \in {"set", "setRefused"}
          PROVE  Knows([p EXCEPT !.at = state], rows)
      <3> DEFINE q == [p EXCEPT !.at = state]
      <3>1. /\ q.desired = p.desired /\ q.at = state /\ q.view = p.view
            /\ q.fresh = p.fresh /\ q.slot = p.slot /\ q.found = p.found
        BY <1>p DEF PassRecord
      <3>2. QED
        BY <1>p, <2>1, <3>1 DEF Knows, Adding, InHand, Serving
    <2>3. PICK q : Goes(w, q) /\ Knows(q, rows)
      BY <1>4, <2>2, NoPassKnows DEF SetSlotCode, Command, Abort
    <2>4. QED
      BY <1>4, <2>3, PassOnlyOwn DEF SetSlotCode
  <1>5. CASE MarkSet(w)
    <2> DEFINE s == p.slot
               want == Want(w)
               next == [p EXCEPT !.at = "add", !.desired = @ \ {want},
                               !.slot = 0, !.fresh = FALSE, !.found = NoRow]
               found == p.found
               q == [next EXCEPT !.view[s] = found]
    <2>1. p.at \in {"set", "setRefused"} /\ want = First(p.desired)
      BY <1>5, WantIsFirst DEF MarkSet, At
    <2>2. s \in Slot /\ rows[s] # NoRow /\ p.view \in Table
      BY <1>p, <2>1 DEF GoodPass, Busy, PassRecord
    <2>3. /\ next.desired = p.desired \ {want} /\ next.at = "add" /\ next.view = p.view
      BY <1>p DEF PassRecord
    <2>4. Knows(next, rows)
      BY <1>p, <2>1, <2>3 DEF Knows, Adding, InHand, Serving
    <2>5. p.fresh => Knows(q, rows)
      <3>1. q.desired = p.desired \ {want} /\ q.at = "add"
        BY <1>p DEF PassRecord
      <3>2. \A t \in Slot : t # s => q.view[t] = p.view[t]
        BY <1>p, <2>2 DEF PassRecord, Table
      <3>3. ASSUME p.fresh
            PROVE  \A d \in q.desired : ~Holds(rows[s], d)
        BY <1>p, <2>1, <3>1, <3>3 DEF Knows, InHand, Serving
      <3>4. ASSUME p.fresh, NEW d \in q.desired, NEW t \in Slot, Holds(rows[t], d)
            PROVE  Holds(q.view[t], d)
        BY <1>p, <2>1, <3>1, <3>2, <3>3, <3>4 DEF Knows, Adding, Serving
      <3>5. QED
        BY <1>p, <3>1, <3>4 DEF Knows, InHand, Serving
    <2>6. PICK r : Goes(w, r) /\ Knows(r, rows) /\ (r = next \/ r = q)
      BY <1>5, <2>4, <2>5 DEF MarkSet
    <2>7. PICK status : UpdateSlotSyncStatus(s, status)
      BY <1>5 DEF MarkSet
    <2>8. Fades(rows, rows')
      BY <1>p, <2>2, <2>7, StatusFades DEF UpdateSlotSyncStatus
    <2>9. r \in PassRecord /\ r.at = "add"
      <3>1. pass'[w] = r
        BY <2>6 DEF TypeInv, Goes
      <3>2. r.at = "add"
        BY <1>p, <2>6 DEF PassRecord
      <3>3. QED
        BY <3>1, <3>2 DEF TypeInv, GoodPass
    <2>10. Knows(r, rows')
      <3>1. \A d \in r.desired : \A t \in Slot : Holds(rows'[t], d) => Holds(rows[t], d)
        BY <1>p, <2>8, <2>9, HoldsFades DEF TypeInv, PassRecord
      <3>2. QED
        BY <2>6, <2>9, <3>1 DEF Knows, InHand, Serving
    <2>11. QED
      BY <1>5, <2>6, <2>8, <2>10, PassKeepsOwn DEF MarkSet
  <1>6. CASE Finish(w)
    BY <1>6, NoPassKnows, PassOnlyOwn DEF Finish, Abort
  <1>7. QED
    BY <1>1, <1>2, <1>3, <1>4, <1>5, <1>6

\* A request that gives no row to anybody, whatever it does to the people.
LEMMA RequestOwn ==
    ASSUME TypeInv, TypeInv', OwnInv, UNCHANGED pass, Fades(rows, rows'),
           CredsOwned', RowsKnown'
    PROVE  OwnInv'
  <1>1. OneSlotPerCredential'
    BY DEF OwnInv, OneSlotPerCredential, Fades
  <1>2. \A w \in Pass : Knows(pass'[w], rows')
    BY KnowsFades DEF TypeInv, OwnInv
  <1>3. QED
    BY <1>1, <1>2 DEF OwnInv

LEMMA RequestKeepsCreds ==
    ASSUME TypeInv, TypeInv', OwnInv, UNCHANGED <<pass, creds>>, Fades(rows, rows')
    PROVE  OwnInv'
  <1>1. CredsOwned'
    BY DEF OwnInv, CredsOwned
  <1>2. RowsKnown'
    BY TableFades DEF TypeInv
  <1>3. QED
    BY <1>1, <1>2, RequestOwn

\* What is left of a sequence when its element i is cut out.
Cut(seq, i) == SubSeq(seq, 1, i - 1) \o SubSeq(seq, i + 1, Len(seq))

LEMMA CutElements ==
    ASSUME NEW seq \in Seq(Cred), NEW i \in DOMAIN seq
    PROVE  /\ \A k \in DOMAIN Cut(seq, i) : \E j \in DOMAIN seq : Cut(seq, i)[k] = seq[j]
           /\ \A j \in DOMAIN seq :
                j # i => \E k \in DOMAIN Cut(seq, i) : Cut(seq, i)[k] = seq[j]
  <1> DEFINE n == Len(seq)
             cut == Cut(seq, i)
  <1>1. i \in 1..n /\ n \in Nat /\ DOMAIN seq = 1..n
    OBVIOUS
  <1>2. PICK a \in Seq(Cred) :
            a = SubSeq(seq, 1, i - 1) /\ Len(a) = i - 1 /\ \A k \in 1..(i - 1) : a[k] = seq[k]
    <2> DEFINE sub == SubSeq(seq, 1, i - 1)
    <2>1. 1 \in Int /\ i - 1 \in Int /\ \A k \in 1..(i - 1) : seq[k] \in Cred
      BY <1>1
    <2>2. /\ sub \in Seq(Cred)
          /\ Len(sub) = IF 1 <= i - 1 THEN (i - 1) - 1 + 1 ELSE 0
          /\ \A k \in 1..((i - 1) - 1 + 1) : sub[k] = seq[1 + k - 1]
      BY <2>1, SubSeqProperties
    <2> HIDE DEF sub
    <2>3. Len(sub) = i - 1 /\ (i - 1) - 1 + 1 = i - 1
      BY <1>1, <2>2
    <2>4. ASSUME NEW k \in 1..(i - 1)
          PROVE  sub[k] = seq[k]
      <3>1. 1 + k - 1 = k
        BY <1>1
      <3>2. QED
        BY <2>2, <2>3, <3>1
    <2>5. QED
      BY <2>2, <2>3, <2>4 DEF sub
  <1>3. PICK b \in Seq(Cred) :
            b = SubSeq(seq, i + 1, Len(seq)) /\ Len(b) = n - i
            /\ \A k \in 1..(n - i) : b[k] = seq[i + k]
    <2> DEFINE sub == SubSeq(seq, i + 1, n)
    <2>1. i + 1 \in Int /\ n \in Int /\ \A k \in (i + 1)..n : seq[k] \in Cred
      BY <1>1
    <2>2. /\ sub \in Seq(Cred)
          /\ Len(sub) = IF i + 1 <= n THEN n - (i + 1) + 1 ELSE 0
          /\ \A k \in 1..(n - (i + 1) + 1) : sub[k] = seq[(i + 1) + k - 1]
      BY <2>1, SubSeqProperties
    <2> HIDE DEF sub
    <2>3. Len(sub) = n - i /\ n - (i + 1) + 1 = n - i
      BY <1>1, <2>2
    <2>4. ASSUME NEW k \in 1..(n - i)
          PROVE  sub[k] = seq[i + k]
      <3>1. (i + 1) + k - 1 = i + k
        BY <1>1
      <3>2. QED
        BY <2>2, <2>3, <3>1
    <2>5. QED
      BY <2>2, <2>3, <2>4 DEF sub
  <1>4. cut = a \o b
    BY <1>2, <1>3 DEF Cut
  <1> HIDE DEF cut
  <1>5. cut \in Seq(Cred) /\ Len(cut) = Len(a) + Len(b)
    BY <1>4, ConcatProperties
  <1>6. \A k \in 1..(Len(a) + Len(b)) : cut[k] = IF k <= Len(a) THEN a[k] ELSE b[k - Len(a)]
    BY <1>4, ConcatProperties
  <1>7. DOMAIN cut = 1..(n - 1)
    BY <1>1, <1>2, <1>3, <1>5
  <1>8. \A k \in 1..(n - 1) : cut[k] = IF k <= i - 1 THEN a[k] ELSE b[k - (i - 1)]
    <2>1. Len(a) + Len(b) = n - 1
      <3>1. Len(a) = i - 1 /\ Len(b) = n - i
        BY <1>2, <1>3
      <3>2. i \in Int /\ n \in Int
        BY <1>1
      <3>3. QED
        BY <3>1, <3>2
    <2>2. QED
      BY <1>2, <1>6, <2>1
  <1> HIDE DEF n
  <1>9. ASSUME NEW k \in 1..(n - 1), k <= i - 1
        PROVE  cut[k] = seq[k] /\ k \in 1..n
    BY <1>1, <1>2, <1>8, <1>9
  <1>10. ASSUME NEW k \in 1..(n - 1), k > i - 1
         PROVE  cut[k] = seq[k + 1] /\ k + 1 \in 1..n
    <2>1. k - (i - 1) \in 1..(n - i) /\ i + (k - (i - 1)) = k + 1
      BY <1>1, <1>10
    <2>2. b[k - (i - 1)] = seq[k + 1]
      BY <1>3, <2>1
    <2>3. k + 1 \in 1..n /\ ~(k <= i - 1)
      BY <1>1, <1>10
    <2>4. cut[k] = b[k - (i - 1)]
      BY <1>8, <2>3
    <2>5. QED
      BY <2>2, <2>3, <2>4
  <1>11. ASSUME NEW k \in DOMAIN cut
         PROVE  \E j \in DOMAIN seq : cut[k] = seq[j]
    <2>1. k \in 1..(n - 1) /\ (k <= i - 1 \/ k > i - 1)
      BY <1>1, <1>7
    <2>2. QED
      BY <1>1, <1>9, <1>10, <2>1
  <1>12. ASSUME NEW j \in DOMAIN seq, j # i
         PROVE  \E k \in DOMAIN cut : cut[k] = seq[j]
    <2>1. CASE j < i
      <3>1. j \in 1..(n - 1) /\ j <= i - 1
        BY <1>1, <2>1
      <3>2. QED
        BY <1>7, <1>9, <3>1
    <2>2. CASE j > i
      <3>1. j - 1 \in 1..(n - 1) /\ j - 1 > i - 1 /\ (j - 1) + 1 = j
        BY <1>1, <1>12, <2>2
      <3>2. QED
        BY <1>7, <1>10, <3>1
    <2>3. j < i \/ j > i
      BY <1>1, <1>12
    <2>4. QED
      BY <2>1, <2>2, <2>3
  <1>13. QED
    BY <1>11, <1>12 DEF cut

\* The deleted credential goes from the rows as well, the others stay.
LEMMA DeleteCredentialOwn ==
    ASSUME TypeInv, TypeInv', OwnInv, NEW u \in User, NEW i \in DOMAIN creds[u],
           DeleteCredential(u, i)
    PROVE  OwnInv'
  <1> DEFINE cut == Cut(creds[u], i)
             c == creds[u][i]
  <1>1. creds[u] \in Seq(Cred) /\ creds \in [User -> Seq(Cred)]
    BY DEF TypeInv, PeopleOK
  <1>2. /\ \A k \in DOMAIN cut : \E j \in DOMAIN creds[u] : cut[k] = creds[u][j]
        /\ \A j \in DOMAIN creds[u] : j # i => \E k \in DOMAIN cut : cut[k] = creds[u][j]
    BY <1>1, CutElements
  <1>3. \A v \in User : creds'[v] = IF v = u THEN cut ELSE creds[v]
    BY <1>1 DEF DeleteCredential, Cut
  <1> HIDE DEF cut
  <1>4. CredsOwned'
    BY <1>2, <1>3 DEF OwnInv, CredsOwned
  <1>5. c \in Cred
    BY <1>1
  <1>6. ASSUME NEW s \in Slot, rows'[s] # NoRow
        PROVE  /\ rows[s] # NoRow
               /\ rows'[s].user = rows[s].user
               /\ rows'[s].cred = IF rows[s].cred = c THEN Nobody ELSE rows[s].cred
    <2>1. rows[s] # NoRow
      BY <1>6 DEF DeleteCredential, SetNull
    <2>2. rows[s] \in Row
      BY <2>1 DEF TypeInv, Table
    <2>3. rows'[s] = [rows[s] EXCEPT !.user = IF @ = Nobody THEN Nobody ELSE @,
                                     !.cred = IF @ \in {c} THEN Nobody ELSE @]
      BY <2>1 DEF DeleteCredential, SetNull
    <2>4. QED
      BY <2>1, <2>2, <2>3 DEF Row
  <1>7. Fades(rows, rows')
    BY <1>6 DEF Fades
  <1>8. ASSUME NEW s \in Slot, rows'[s] # NoRow, rows'[s].cred # Nobody
        PROVE  /\ rows'[s].user = Owner[rows'[s].cred]
               /\ \E k \in DOMAIN creds'[rows'[s].user] :
                    creds'[rows'[s].user][k] = rows'[s].cred
    <2>1. rows[s] # NoRow /\ rows'[s].user = rows[s].user /\ rows'[s].cred = rows[s].cred
            /\ rows[s].cred # c /\ rows[s].cred # Nobody
      BY <1>6, <1>8
    <2>2. /\ rows[s].user = Owner[rows[s].cred]
          /\ \E k \in DOMAIN creds[rows[s].user] : creds[rows[s].user][k] = rows[s].cred
      BY <2>1 DEF OwnInv, RowsKnown
    <2>3. rows[s].cred \in Cred
      BY <2>1 DEF TypeInv, Table, Row
    <2>4. rows[s].user \in User
      BY <2>2, <2>3, OwnerAssumption
    <2>5. CASE rows[s].user = u
      <3>1. PICK j \in DOMAIN creds[u] : creds[u][j] = rows[s].cred
        BY <2>2, <2>5
      <3>2. j # i
        BY <2>1, <3>1
      <3>3. \E k \in DOMAIN cut : cut[k] = rows[s].cred
        BY <1>2, <3>1, <3>2
      <3>4. creds'[u] = cut
        BY <1>3
      <3>5. QED
        BY <2>1, <2>2, <2>5, <3>3, <3>4
    <2>6. CASE rows[s].user # u
      BY <1>3, <2>1, <2>2, <2>4, <2>6
    <2>7. QED
      BY <2>5, <2>6
  <1>9. RowsKnown'
    BY <1>8 DEF RowsKnown
  <1>10. QED
    BY <1>4, <1>7, <1>9, RequestOwn DEF DeleteCredential

\* With a user go the credentials that rows name for it.
LEMMA DeleteUserOwn ==
    ASSUME TypeInv, TypeInv', OwnInv, NEW u \in User, DeleteUser(u)
    PROVE  OwnInv'
  <1> DEFINE gone == {creds[u][i] : i \in DOMAIN creds[u]}
  <1>1. \A v \in User : creds'[v] = IF v = u THEN <<>> ELSE creds[v]
    BY DEF DeleteUser, TypeInv, PeopleOK
  <1>2. CredsOwned'
    BY <1>1 DEF OwnInv, CredsOwned
  <1>3. ASSUME NEW s \in Slot, rows'[s] # NoRow
        PROVE  /\ rows[s] # NoRow
               /\ rows[s] \in Row
               /\ rows'[s].user = IF rows[s].user = u THEN Nobody ELSE rows[s].user
               /\ rows'[s].cred = IF rows[s].cred \in gone THEN Nobody ELSE rows[s].cred
    <2>1. rows[s] # NoRow
      BY <1>3 DEF DeleteUser, SetNull
    <2>2. rows[s] \in Row
      BY <2>1 DEF TypeInv, Table
    <2>3. rows'[s] = [rows[s] EXCEPT !.user = IF @ = u THEN Nobody ELSE @,
                                     !.cred = IF @ \in gone THEN Nobody ELSE @]
      BY <2>1 DEF DeleteUser, SetNull
    <2>4. QED
      BY <2>1, <2>2, <2>3 DEF Row
  <1>4. ASSUME NEW s \in Slot, rows'[s] # NoRow, rows'[s].cred # Nobody
        PROVE  /\ rows[s] # NoRow /\ rows[s].user # u /\ rows[s].user \in User
               /\ rows'[s].user = rows[s].user /\ rows'[s].cred = rows[s].cred
    <2>1. rows[s].cred \notin gone /\ rows[s].cred # Nobody /\ rows[s] # NoRow
            /\ rows'[s].cred = rows[s].cred
      BY <1>3, <1>4
    <2>2. /\ rows[s].user = Owner[rows[s].cred]
          /\ \E k \in DOMAIN creds[rows[s].user] : creds[rows[s].user][k] = rows[s].cred
      BY <2>1 DEF OwnInv, RowsKnown
    <2>3. rows[s].user # u
      BY <2>1, <2>2
    <2>4. rows[s].user \in User
      BY <1>3, <1>4, <2>1, <2>2, OwnerAssumption DEF Row
    <2>5. QED
      BY <1>3, <1>4, <2>1, <2>3, <2>4
  <1>5. Fades(rows, rows')
    BY <1>3, <1>4 DEF Fades
  <1>6. RowsKnown'
    BY <1>1, <1>4 DEF OwnInv, RowsKnown
  <1>7. QED
    BY <1>2, <1>5, <1>6, RequestOwn DEF DeleteUser

LEMMA SetPinOwn ==
    ASSUME TypeInv, TypeInv', OwnInv, NEW c \in Cred, SetPin(c)
    PROVE  OwnInv'
  <1> DEFINE u == Owner[c]
             old == creds[u]
             more == Append(old, c)
  <1>1. u \in User /\ old \in Seq(Cred)
    BY OwnerAssumption DEF TypeInv, PeopleOK
  <1>2. /\ DOMAIN old = 1..Len(old) /\ DOMAIN more = 1..(Len(old) + 1) /\ Len(old) \in Nat
        /\ \A i \in 1..Len(old) : more[i] = old[i]
        /\ more[Len(old) + 1] = c
    BY <1>1, AppendProperties
  <1>3. \A v \in User : creds'[v] = IF v = u THEN more ELSE creds[v]
    BY DEF SetPin, TypeInv, PeopleOK
  <1> HIDE DEF more
  <1>4. ASSUME NEW v \in User, NEW i \in DOMAIN creds'[v]
        PROVE  Owner[creds'[v][i]] = v
    <2>1. CASE v = u
      <3>1. i \in 1..(Len(old) + 1) /\ creds'[v][i] = more[i]
        BY <1>2, <1>3, <1>4, <2>1
      <3>2. CASE i = Len(old) + 1
        BY <1>2, <2>1, <3>1, <3>2
      <3>3. CASE i \in 1..Len(old)
        BY <1>2, <2>1, <3>1, <3>3 DEF OwnInv, CredsOwned
      <3>4. QED
        BY <1>2, <3>1, <3>2, <3>3
    <2>2. CASE v # u
      BY <1>3, <1>4, <2>2 DEF OwnInv, CredsOwned
    <2>3. QED
      BY <2>1, <2>2
  <1>5. CredsOwned'
    BY <1>4 DEF CredsOwned
  <1>6. rows' = rows
    BY DEF SetPin
  <1>7. ASSUME NEW s \in Slot, rows[s] # NoRow, rows[s].cred # Nobody
        PROVE  \E i \in DOMAIN creds'[rows[s].user] : creds'[rows[s].user][i] = rows[s].cred
    <2>1. PICK i \in DOMAIN creds[rows[s].user] : creds[rows[s].user][i] = rows[s].cred
      BY <1>7 DEF OwnInv, RowsKnown
    <2>2. rows[s].user = Owner[rows[s].cred] /\ rows[s].cred \in Cred
      BY <1>7 DEF OwnInv, RowsKnown, TypeInv, Table, Row
    <2>3. rows[s].user \in User
      BY <2>2, OwnerAssumption
    <2>4. CASE rows[s].user = u
      <3>1. i \in 1..Len(old) /\ i \in 1..(Len(old) + 1)
        BY <1>2, <2>1, <2>4
      <3>2. QED
        BY <1>2, <1>3, <2>1, <2>3, <2>4, <3>1
    <2>5. CASE rows[s].user # u
      BY <1>3, <2>1, <2>3, <2>5
    <2>6. QED
      BY <2>4, <2>5
  <1>8. RowsKnown'
    BY <1>6, <1>7 DEF OwnInv, RowsKnown
  <1>9. Fades(rows, rows')
    BY <1>6 DEF Fades
  <1>10. QED
    BY <1>5, <1>8, <1>9, RequestOwn DEF SetPin

LEMMA AdministrationOwn ==
    ASSUME TypeInv, TypeInv', OwnInv, Administration
    PROVE  OwnInv'
  <1>0. rows \in Table /\ (UNCHANGED rows => Fades(rows, rows'))
    BY DEF TypeInv, Fades
  <1>1. ASSUME NEW u \in User, ChangeEntitlement(u)
        PROVE  OwnInv'
    BY <1>0, <1>1, RequestKeepsCreds DEF ChangeEntitlement
  <1>2. ASSUME NEW u \in User, DeactivateUser(u)
        PROVE  OwnInv'
    BY <1>0, <1>2, RequestKeepsCreds DEF DeactivateUser
  <1>3. CASE ReadRevoked
    BY <1>0, <1>3, RequestKeepsCreds DEF ReadRevoked, people
  <1>4. CASE ForgetRevoked
    <2>1. ASSUME NEW s \in revocation.left,
                 rows' = [rows EXCEPT ![s].user = Nobody, ![s].cred = Nobody]
          PROVE  Fades(rows, rows')
      <3>1. s \in Slot /\ rows[s] # NoRow
        BY DEF TypeInv, RevocationOK
      <3>2. QED
        BY <1>0, <2>1, <3>1, ForgetFades
    <2>2. Fades(rows, rows')
      BY <1>0, <1>4, <2>1 DEF ForgetRevoked
    <2>3. QED
      BY <1>4, <2>2, RequestKeepsCreds DEF ForgetRevoked, people
  <1>5. QED
    BY <1>1, <1>2, <1>3, <1>4, DeleteCredentialOwn, DeleteUserOwn, SetPinOwn
       DEF Administration

LEMMA CrashOwn ==
    ASSUME TypeInv, OwnInv, Crash
    PROVE  OwnInv'
  <1>1. \A w \in Pass : Knows(pass'[w], rows')
    BY NoPassKnows DEF Crash
  <1>2. CredsOwned' /\ RowsKnown' /\ OneSlotPerCredential'
    BY DEF Crash, people, OwnInv, CredsOwned, RowsKnown, OneSlotPerCredential
  <1>3. QED
    BY <1>1, <1>2 DEF OwnInv

LEMMA OwnNext ==
    ASSUME OnePass, TypeInv, OwnInv, [Next]_vars
    PROVE  OwnInv'
  <1>1. TypeInv'
    BY TypeNext
  <1>2. CASE Next
    <2>1. ASSUME NEW w \in Pass, Step(w), UNCHANGED fault
          PROVE  OwnInv'
      <3>1. UNCHANGED <<revocation, fault>>
        BY <2>1 DEF Step
      <3>2. QED
        BY <1>1, <2>1, <3>1, RemoveOwn, AllocateOwn, GetSlotOwn, AddOwn DEF Step
    <2>2. QED
      BY <1>1, <1>2, <2>1, AdministrationOwn, CrashOwn DEF Next
  <1>3. CASE UNCHANGED vars
    BY <1>3 DEF vars, people, OwnInv, CredsOwned, RowsKnown, OneSlotPerCredential
  <1>4. QED
    BY <1>2, <1>3

\* When one reconciliation runs at a time no credential gets two slots, with every
\* fault, crash and request: for any number of users, credentials and slots.
THEOREM CredentialsHaveOneSlot ==
    ASSUME OnePass
    PROVE  Spec => []OneSlotPerCredential
  <1>1. Init => TypeInv /\ OwnInv
    BY TypeInit, OwnInit
  <1>2. (TypeInv /\ OwnInv) /\ [Next]_vars => (TypeInv /\ OwnInv)'
    BY TypeNext, OwnNext
  <1>3. TypeInv /\ OwnInv => OneSlotPerCredential
    BY DEF OwnInv
  <1>4. QED
    BY <1>1, <1>2, <1>3, PTL DEF Spec

----------------------------------------------------------------------------
(* The table knows the codes in the lock, unless the code has lost one       *)

\* None of the ways the code has to lose a code in the lock.
Careful == {"delete", "revoke", "offline"} \cap fault = {}

CodesKnown ==
    \A s \in Slot : codes[s] # NoCode => rows[s] # NoRow /\ rows[s].user = Owner[codes[s]]

\* What a pass counts on: the slot whose row it forgets is empty in the lock, so are
\* those it may give away, a taken row has not changed hands since it was read, and
\* the row of the slot in hand names the user who is served.
Trusts(p, table, lock) ==
    /\ p.at = "cleared" => lock[p.slot] = NoCode
    /\ p.at \in Adding => \A s \in Slot :
        /\ ~Taken(p.view[s]) => lock[s] = NoCode \/ (p.at = "set" /\ p.fresh /\ s = p.slot)
        /\ Taken(p.view[s]) => table[s].user = p.view[s].user
    /\ p.at \in Serving => /\ table[p.slot].user = First(p.desired).user
                           /\ ~p.fresh => Taken(p.view[p.slot])
    /\ ReadBack(p) => Taken(p.found) /\ p.found.user = First(p.desired).user

CodeInv ==
    /\ revocation = NoRevocation
    /\ CodesKnown
    /\ \A w \in Pass : Trusts(pass[w], rows, codes)

LEMMA NoPassTrusts ==
    ASSUME NEW table, NEW lock
    PROVE  Trusts(NoPass, table, lock)
  BY DEF Trusts, NoPass, Adding, Serving, ReadBack

LEMMA CodeInit == Init => CodeInv
  BY NoPassTrusts DEF Init, CodeInv, CodesKnown

\* No row changes hands.
SameUsers(before, after) ==
    \A s \in Slot : /\ after[s] # NoRow <=> before[s] # NoRow
                    /\ after[s] # NoRow => after[s].user = before[s].user

LEMMA StatusSameUsers ==
    ASSUME NEW table \in Table, NEW s \in Slot, table[s] # NoRow, NEW status \in SlotSyncStatus
    PROVE  SameUsers(table, [table EXCEPT ![s].sync = status])
  <1>1. table[s] \in Row
    BY DEF Table
  <1>2. /\ [table[s] EXCEPT !.sync = status].user = table[s].user
        /\ [table[s] EXCEPT !.sync = status] # NoRow
    BY <1>1, NoRowAssumption DEF Row
  <1>3. QED
    BY <1>2 DEF Table, SameUsers

LEMMA TrustsSameUsers ==
    ASSUME NEW p, NEW before \in Table, NEW after \in Table, NEW lock,
           SameUsers(before, after), GoodPass(p, before), Trusts(p, before, lock)
    PROVE  Trusts(p, after, lock)
  <1>1. p.at \in Serving => p.slot \in Slot /\ before[p.slot] # NoRow
    BY DEF GoodPass, Serving, Busy
  <1>2. \A s \in Slot : Taken(p.view[s]) => before[s] # NoRow
    BY DEF GoodPass, Taken
  <1>3. QED
    BY <1>1, <1>2 DEF Trusts, SameUsers

\* A step of the pass that moves no row to another user and no code.
LEMMA PassKeepsCodes ==
    ASSUME OnePass, TypeInv, TypeInv', CodeInv, NEW w \in Pass, NEW q, Goes(w, q),
           SameUsers(rows, rows'), Trusts(q, rows, codes), UNCHANGED <<codes, revocation>>
    PROVE  CodeInv'
  <1>1. \A v \in Pass : pass'[v] = q
    BY DEF TypeInv, OnePass, Goes
  <1>2. Trusts(q, rows', codes)
    <2>1. GoodPass(q, rows')
      BY <1>1 DEF TypeInv
    <2>2. Grows(rows', rows)
      BY DEF Grows, SameUsers
    <2>3. GoodPass(q, rows)
      BY <2>1, <2>2, GoodPassGrows DEF TypeInv
    <2>4. QED
      BY <2>3, TrustsSameUsers DEF TypeInv
  <1>3. CodesKnown'
    BY DEF CodeInv, CodesKnown, SameUsers
  <1>4. QED
    BY <1>1, <1>2, <1>3 DEF CodeInv

LEMMA SameTable ==
    ASSUME UNCHANGED rows
    PROVE  SameUsers(rows, rows')
  BY DEF SameUsers

LEMMA StatusKeepsCodes ==
    ASSUME OnePass, TypeInv, TypeInv', CodeInv, NEW w \in Pass, NEW q, Goes(w, q),
           NEW s \in Slot, rows[s] # NoRow, NEW status \in SlotSyncStatus,
           UpdateSlotSyncStatus(s, status), Trusts(q, rows, codes),
           UNCHANGED <<codes, revocation>>
    PROVE  CodeInv'
  <1>1. SameUsers(rows, rows')
    BY StatusSameUsers DEF TypeInv, UpdateSlotSyncStatus
  <1>2. QED
    BY <1>1, PassKeepsCodes

\* In the stages that remove codes only an emptied slot matters.
LEMMA RemovingTrusts ==
    ASSUME NEW q, NEW table, NEW lock, q.at \notin Adding, q.at # "cleared"
    PROVE  Trusts(q, table, lock)
  BY DEF Trusts, Adding, Serving, ReadBack

\* The steps that remove codes: a row forgets its user only after the lock has.
LEMMA RemoveCodes ==
    ASSUME OnePass, Careful, TypeInv, TypeInv', CodeInv, NEW w \in Pass,
           UNCHANGED <<revocation, fault>>,
           \/ Start(w) \/ ReadSlots(w) \/ MarkDeleting(w) \/ ClearSlotCode(w)
           \/ ClearSlot(w) \/ MarkCleared(w) \/ Refresh(w)
    PROVE  CodeInv'
  <1> DEFINE p == pass[w]
  <1>p. GoodPass(p, rows) /\ p \in PassRecord /\ Trusts(p, rows, codes) /\ rows \in Table
    BY DEF TypeInv, CodeInv, GoodPass
  <1>1. CASE Start(w)
    <2> DEFINE q == [NoPass EXCEPT !.at = "read", !.desired = Desired]
    <2>1. Trusts(q, rows, codes)
      BY DEF Trusts, NoPass, Adding, Serving, ReadBack
    <2>2. QED
      BY <1>1, <2>1, SameTable, PassKeepsCodes DEF Start
  <1>2. CASE ReadSlots(w)
    <2> DEFINE q == [p EXCEPT !.at = "remove", !.left = Obsolete(p.desired, rows)]
    <2>1. q.at = "remove"
      BY <1>p DEF PassRecord
    <2>2. Trusts(q, rows, codes)
      BY <2>1, RemovingTrusts DEF Adding, Serving
    <2>3. QED
      BY <1>2, <2>2, SameTable, PassKeepsCodes DEF ReadSlots
  <1>3. CASE MarkDeleting(w)
    <2> DEFINE s == Least(p.left)
               q == [p EXCEPT !.at = "clearing", !.slot = s, !.left = @ \ {s}]
    <2>1. s \in p.left
      BY <1>3, <1>p, LeastIsOne DEF MarkDeleting, PassRecord
    <2>2. s \in Slot /\ rows[s] # NoRow
      BY <1>p, <2>1 DEF GoodPass, PassRecord
    <2>3. q.at = "clearing"
      BY <1>p DEF PassRecord
    <2>4. Trusts(q, rows, codes)
      BY <2>3, RemovingTrusts DEF Adding, Serving
    <2>5. /\ Goes(w, q) /\ UpdateSlotSyncStatus(s, "Deleting") /\ UNCHANGED <<codes, revocation>>
          /\ "Deleting" \in SlotSyncStatus
      BY <1>3 DEF MarkDeleting, SlotSyncStatus
    <2>6. QED
      BY <2>2, <2>4, <2>5, StatusKeepsCodes
  <1>4. CASE ClearSlotCode(w)
    <2> DEFINE emptied == [codes EXCEPT ![p.slot] = NoCode]
    <2>1. p.at = "clearing" /\ p.slot \in Slot
      BY <1>4, <1>p DEF ClearSlotCode, At, GoodPass, Busy
    <2>2. codes' \in {codes, emptied} /\ rows' = rows
      BY <1>4 DEF ClearSlotCode, Command
    <2>3. \A s \in Slot : emptied[s] = IF s = p.slot THEN NoCode ELSE codes[s]
      BY DEF TypeInv
    <2>4. CodesKnown'
      BY <2>2, <2>3 DEF CodeInv, CodesKnown
    <2>5. PICK q : Goes(w, q) /\ Trusts(q, rows, codes')
      <3>1. CASE codes' = emptied /\ Goes(w, [p EXCEPT !.at = "cleared"])
        <4> DEFINE q == [p EXCEPT !.at = "cleared"]
        <4>1. q.at = "cleared" /\ q.slot = p.slot
          BY <1>p DEF PassRecord
        <4>2. Trusts(q, rows, codes')
          BY <2>1, <2>3, <3>1, <4>1 DEF Trusts, Adding, Serving, ReadBack
        <4>3. QED
          BY <3>1, <4>2
      <3>2. CASE Goes(w, [p EXCEPT !.at = "clearRefused"])
        <4> DEFINE q == [p EXCEPT !.at = "clearRefused"]
        <4>1. q.at = "clearRefused"
          BY <1>p DEF PassRecord
        <4>2. Trusts(q, rows, codes')
          BY <4>1, RemovingTrusts DEF Adding, Serving
        <4>3. QED
          BY <3>2, <4>2
      <3>3. CASE Abort(w)
        BY <3>3, NoPassTrusts DEF Abort
      <3>4. QED
        BY <1>4, <3>1, <3>2, <3>3 DEF ClearSlotCode, Command, Careful
    <2>6. \A v \in Pass : Trusts(pass'[v], rows', codes')
      BY <2>2, <2>5 DEF OnePass, TypeInv, Goes
    <2>7. QED
      BY <2>4, <2>6 DEF CodeInv
  <1>5. CASE ClearSlot(w)
    <2> DEFINE q == [p EXCEPT !.at = "forgotten"]
    <2>1. p.at = "cleared" /\ p.slot \in Slot /\ rows[p.slot] # NoRow
      BY <1>5, <1>p DEF ClearSlot, At, GoodPass, Busy
    <2>2. codes[p.slot] = NoCode
      BY <1>p, <2>1 DEF Trusts
    <2>3. \A s \in Slot : s # p.slot => rows'[s] = rows[s]
      BY <1>5, <1>p DEF ClearSlot, Table
    <2>4. CodesKnown'
      BY <1>5, <2>2, <2>3 DEF ClearSlot, CodeInv, CodesKnown
    <2>5. q.at = "forgotten"
      BY <1>p DEF PassRecord
    <2>6. Trusts(q, rows', codes')
      BY <2>5, RemovingTrusts DEF Adding, Serving
    <2>7. \A v \in Pass : Trusts(pass'[v], rows', codes')
      BY <1>5, <2>6 DEF ClearSlot, OnePass, TypeInv, Goes
    <2>8. QED
      BY <2>4, <2>7 DEF CodeInv
  <1>6. CASE MarkCleared(w)
    <2> DEFINE q == [p EXCEPT !.at = "remove", !.slot = 0]
    <2>1. p.slot \in Slot /\ rows[p.slot] # NoRow
      BY <1>6, <1>p DEF MarkCleared, At, GoodPass, Busy
    <2>2. q.at = "remove"
      BY <1>p DEF PassRecord
    <2>3. Trusts(q, rows, codes)
      BY <2>2, RemovingTrusts DEF Adding, Serving
    <2>4. PICK status \in SlotSyncStatus : UpdateSlotSyncStatus(p.slot, status)
      BY <1>6 DEF MarkCleared, SlotSyncStatus
    <2>5. QED
      BY <1>6, <2>1, <2>3, <2>4, StatusKeepsCodes DEF MarkCleared
  <1>7. CASE Refresh(w)
    <2> DEFINE q == [p EXCEPT !.at = "add", !.view = rows]
    <2>1. q.at = "add" /\ q.view = rows
      BY <1>p DEF PassRecord
    <2>2. ASSUME NEW s \in Slot, ~Taken(rows[s])
          PROVE  codes[s] = NoCode
      <3>1. codes[s] # NoCode => codes[s] \in Cred /\ Owner[codes[s]] \in User
        BY OwnerAssumption DEF TypeInv
      <3>2. QED
        BY <2>2, <3>1, NullAssumption DEF CodeInv, CodesKnown, Taken
    <2>3. Trusts(q, rows, codes)
      BY <2>1, <2>2 DEF Trusts, Serving, ReadBack
    <2>4. QED
      BY <1>7, <2>3, SameTable, PassKeepsCodes DEF Refresh
  <1>8. QED
    BY <1>1, <1>2, <1>3, <1>4, <1>5, <1>6, <1>7

\* A row that is given away is that of a slot without a code.
LEMMA AllocateCodes ==
    ASSUME OnePass, TypeInv, TypeInv', CodeInv, NEW w \in Pass, Allocate(w),
           UNCHANGED <<revocation, fault>>
    PROVE  CodeInv'
  <1> DEFINE p == pass[w]
             s == Least(FreeSlots(p.view))
             want == Want(w)
             row == [user |-> want.user, cred |-> want.cred, sync |-> "Synced"]
             q == [p EXCEPT !.at = "inserted", !.slot = s, !.fresh = TRUE]
  <1>p. GoodPass(p, rows) /\ p \in PassRecord /\ Trusts(p, rows, codes) /\ rows \in Table
    BY DEF TypeInv, CodeInv, GoodPass
  <1>1. p.at = "add"
    BY DEF Allocate, ToAdd, At
  <1>2. s \in Slot /\ ~Taken(p.view[s])
    BY SlotInHand DEF Allocate, FreeSlots
  <1>3. codes[s] = NoCode
    BY <1>p, <1>1, <1>2 DEF Trusts, Adding
  <1>4. CASE rows' = [rows EXCEPT ![s] = row] /\ Goes(w, q)
    <2>1. \A t \in Slot : rows'[t] = IF t = s THEN row ELSE rows[t]
      BY <1>p, <1>4 DEF Table
    <2>2. CodesKnown'
      BY <1>3, <2>1 DEF CodeInv, CodesKnown, Allocate
    <2>3. /\ q.at = "inserted" /\ q.view = p.view /\ q.desired = p.desired
          /\ q.slot = s /\ q.fresh
      BY <1>p DEF PassRecord
    <2>4. rows'[s].user = First(p.desired).user
      BY <1>2, <2>1, WantIsFirst
    <2>5. \A t \in Slot : Taken(p.view[t]) => rows'[t].user = p.view[t].user
      BY <1>p, <1>1, <1>2, <2>1 DEF Trusts, Adding
    <2>6. \A t \in Slot : ~Taken(p.view[t]) => codes[t] = NoCode
      BY <1>p, <1>1 DEF Trusts, Adding
    <2>7. Trusts(q, rows', codes)
      BY <2>3, <2>4, <2>5, <2>6 DEF Trusts, Serving, ReadBack
    <2>8. \A v \in Pass : Trusts(pass'[v], rows', codes')
      BY <1>4, <2>7 DEF OnePass, TypeInv, Goes, Allocate
    <2>9. QED
      BY <2>2, <2>8 DEF CodeInv
  <1>5. CASE Abort(w) /\ UNCHANGED rows
    BY <1>5, NoPassTrusts, SameTable, PassKeepsCodes DEF Abort, Allocate
  <1>6. QED
    BY <1>4, <1>5 DEF Allocate

\* The row that is read back names the user it was given to.
LEMMA GetSlotCodes ==
    ASSUME OnePass, TypeInv, TypeInv', CodeInv, NEW w \in Pass, GetSlot(w),
           UNCHANGED <<revocation, fault>>
    PROVE  CodeInv'
  <1> DEFINE p == pass[w]
             found == rows[p.slot]
             q == [p EXCEPT !.at = "allocated", !.found = found]
  <1>1. GoodPass(p, rows) /\ p \in PassRecord /\ Trusts(p, rows, codes) /\ p.at = "inserted"
    BY DEF TypeInv, CodeInv, GoodPass, GetSlot, At
  <1>2. /\ q.at = "allocated" /\ q.view = p.view /\ q.desired = p.desired
        /\ q.slot = p.slot /\ q.fresh = p.fresh /\ q.found = found
    BY <1>1 DEF PassRecord
  <1>3. found # NoRow /\ p.desired # {} /\ p.desired \subseteq Assignment
    BY <1>1 DEF GoodPass, PassRecord, Busy, Serving
  <1>4. found.user = First(p.desired).user
    BY <1>1 DEF Trusts, Serving
  <1>5. Taken(found)
    BY <1>3, <1>4, FirstIsDesired, NullAssumption DEF Taken, Assignment
  <1> HIDE DEF found, q
  <1>6. Trusts(q, rows, codes)
    BY <1>1, <1>2, <1>4, <1>5 DEF Trusts, Adding, Serving, ReadBack
  <1>7. Goes(w, q) /\ UNCHANGED <<rows, codes>>
    BY DEF GetSlot, q, found
  <1>8. QED
    BY <1>6, <1>7, SameTable, PassKeepsCodes

\* A code goes to the slot whose row names its owner.
LEMMA SetSlotCodeCodes ==
    ASSUME OnePass, TypeInv, TypeInv', OwnInv, CodeInv, NEW w \in Pass, SetSlotCode(w),
           Careful, UNCHANGED <<revocation, fault>>
    PROVE  CodeInv'
  <1> DEFINE p == pass[w]
             s == p.slot
             want == Want(w)
             filled == [codes EXCEPT ![s] = want.cred]
  <1>p. GoodPass(p, rows) /\ p \in PassRecord /\ Trusts(p, rows, codes) /\ Knows(p, rows)
    BY DEF TypeInv, OwnInv, CodeInv, GoodPass
  <1>1. p.at = "setting" /\ s \in Slot /\ rows[s] # NoRow /\ p.desired # {}
    BY <1>p DEF SetSlotCode, At, GoodPass, Busy, Serving
  <1>2. want \in p.desired /\ want.cred \in Cred /\ want = First(p.desired)
    BY <1>p, <1>1, WantTyped, WantIsFirst DEF PassRecord
  <1>3. rows[s].user = Owner[want.cred]
    BY <1>p, <1>1, <1>2 DEF Trusts, Knows, Serving
  <1>4. codes' \in {codes, filled} /\ rows' = rows
    BY DEF SetSlotCode, Command
  <1>5. \A t \in Slot : filled[t] = IF t = s THEN want.cred ELSE codes[t]
    BY DEF TypeInv
  <1>6. CodesKnown'
    <2>1. CASE codes' = codes
      BY <1>4, <2>1 DEF CodeInv, CodesKnown
    <2>2. CASE codes' = filled
      BY <1>1, <1>3, <1>4, <1>5, <2>2 DEF CodeInv, CodesKnown
    <2>3. QED
      BY <1>4, <2>1, <2>2
  <1>7. PICK q : Goes(w, q) /\ Trusts(q, rows, codes')
    <2>1. CASE codes' = filled /\ Goes(w, [p EXCEPT !.at = "set"])
      <3> DEFINE q == [p EXCEPT !.at = "set"]
      <3>1. /\ q.at = "set" /\ q.view = p.view /\ q.desired = p.desired
            /\ q.slot = p.slot /\ q.fresh = p.fresh /\ q.found = p.found
        BY <1>p DEF PassRecord
      <3>2. ASSUME NEW t \in Slot, ~Taken(p.view[t]), ~(p.fresh /\ t = s)
            PROVE  filled[t] = NoCode
        BY <1>p, <1>1, <1>5, <3>2 DEF Trusts, Adding, Serving
      <3>3. Trusts(q, rows, codes')
        BY <1>p, <1>1, <2>1, <3>1, <3>2 DEF Trusts, Adding, Serving, ReadBack
      <3>4. QED
        BY <2>1, <3>3
    <2>2. CASE codes' = codes /\ Goes(w, [p EXCEPT !.at = "setRefused"])
      <3> DEFINE q == [p EXCEPT !.at = "setRefused"]
      <3>1. /\ q.at = "setRefused" /\ q.view = p.view /\ q.desired = p.desired
            /\ q.slot = p.slot /\ q.fresh = p.fresh /\ q.found = p.found
        BY <1>p DEF PassRecord
      <3>2. Trusts(q, rows, codes')
        BY <1>p, <1>1, <2>2, <3>1 DEF Trusts, Adding, Serving, ReadBack
      <3>3. QED
        BY <2>2, <3>2
    <2>3. CASE Abort(w)
      BY <2>3, NoPassTrusts DEF Abort
    <2>4. QED
      BY <2>1, <2>2, <2>3 DEF SetSlotCode, Command, Careful
  <1>8. \A v \in Pass : Trusts(pass'[v], rows', codes')
    BY <1>4, <1>7 DEF OnePass, TypeInv, Goes
  <1>9. QED
    BY <1>6, <1>8 DEF CodeInv, SetSlotCode

\* A slot that was set joins the view; one that was refused is still empty.
LEMMA MarkSetCodes ==
    ASSUME OnePass, TypeInv, TypeInv', CodeInv, NEW w \in Pass, MarkSet(w),
           UNCHANGED <<revocation, fault>>
    PROVE  CodeInv'
  <1> DEFINE p == pass[w]
             s == p.slot
             want == Want(w)
             next == [p EXCEPT !.at = "add", !.desired = @ \ {want},
                               !.slot = 0, !.fresh = FALSE, !.found = NoRow]
             found == p.found
             q == [next EXCEPT !.view[s] = found]
  <1>p. GoodPass(p, rows) /\ p \in PassRecord /\ Trusts(p, rows, codes)
    BY DEF TypeInv, CodeInv, GoodPass
  <1>1. p.at \in {"set", "setRefused"} /\ want = First(p.desired)
    BY WantIsFirst DEF MarkSet, At
  <1>2. s \in Slot /\ rows[s] # NoRow /\ p.view \in Table
    BY <1>p, <1>1 DEF GoodPass, Busy, PassRecord
  <1>3. next.at = "add" /\ next.view = p.view
    BY <1>p DEF PassRecord
  <1>4. ~(p.at = "set" /\ p.fresh) => Trusts(next, rows, codes)
    BY <1>p, <1>1, <1>3 DEF Trusts, Adding, Serving, ReadBack
  <1>5. ASSUME p.at = "set", p.fresh
        PROVE  Trusts(q, rows, codes)
    <2>1. q.at = "add"
      BY <1>p DEF PassRecord
    <2>2. \A t \in Slot : q.view[t] = IF t = s THEN found ELSE p.view[t]
      BY <1>p, <1>2 DEF PassRecord, Table
    <2>5. Taken(found)
      BY <1>p, <1>5 DEF Trusts, Serving, ReadBack
    <2>6. rows[s].user = found.user
      BY <1>p, <1>5 DEF Trusts, Serving, ReadBack
    <2>7. ASSUME NEW t \in Slot
          PROVE  /\ ~Taken(q.view[t]) => codes[t] = NoCode
                 /\ Taken(q.view[t]) => rows[t].user = q.view[t].user
      <3>1. CASE t = s
        BY <2>2, <2>5, <2>6, <3>1
      <3>2. CASE t # s
        BY <1>p, <1>1, <2>2, <3>2 DEF Trusts, Adding, Serving
      <3>3. QED
        BY <3>1, <3>2
    <2>8. QED
      BY <2>1, <2>7 DEF Trusts, Serving, ReadBack
  <1>6. PICK r : Goes(w, r) /\ Trusts(r, rows, codes)
    BY <1>4, <1>5 DEF MarkSet, At
  <1>7. PICK status \in SlotSyncStatus : UpdateSlotSyncStatus(s, status)
    BY DEF MarkSet, SlotSyncStatus
  <1>8. QED
    BY <1>2, <1>6, <1>7, StatusKeepsCodes DEF MarkSet

\* The other steps that install codes.
LEMMA AddCodes ==
    ASSUME OnePass, TypeInv, TypeInv', CodeInv, NEW w \in Pass, UNCHANGED <<revocation, fault>>,
           Skip(w) \/ MarkAdding(w) \/ MarkAllocated(w) \/ Finish(w)
    PROVE  CodeInv'
  <1> DEFINE p == pass[w]
  <1>p. GoodPass(p, rows) /\ p \in PassRecord /\ Trusts(p, rows, codes) /\ rows \in Table
    BY DEF TypeInv, CodeInv, GoodPass
  <1>1. CASE Skip(w)
    <2> DEFINE q == [p EXCEPT !.desired = @ \ {Want(w)}]
    <2>1. p.at = "add"
      BY <1>1 DEF Skip, ToAdd, At
    <2>2. q.at = "add" /\ q.view = p.view
      BY <1>p, <2>1 DEF PassRecord
    <2>3. Trusts(q, rows, codes)
      BY <1>p, <2>1, <2>2 DEF Trusts, Adding, Serving, ReadBack
    <2>4. QED
      BY <1>1, <2>3, SameTable, PassKeepsCodes DEF Skip
  <1>2. CASE MarkAdding(w)
    <2> DEFINE s == Least(Existing(w))
               q == [p EXCEPT !.at = "setting", !.slot = s, !.fresh = FALSE]
    <2>1. p.at = "add"
      BY <1>2 DEF MarkAdding, ToAdd, At
    <2>2. s \in Slot /\ Taken(p.view[s]) /\ p.view[s].user = Want(w).user
      BY <1>2, SlotInHand DEF MarkAdding, Existing, Holds
    <2>3. rows[s] # NoRow
      BY <1>p, <2>2 DEF GoodPass, Taken
    <2>4. rows[s].user = First(p.desired).user
      BY <1>p, <2>1, <2>2, WantIsFirst DEF Trusts, Adding
    <2>5. /\ q.at = "setting" /\ q.view = p.view /\ q.desired = p.desired
          /\ q.slot = s /\ ~q.fresh
      BY <1>p DEF PassRecord
    <2>6. Trusts(q, rows, codes)
      BY <1>p, <2>1, <2>2, <2>4, <2>5 DEF Trusts, Adding, Serving, ReadBack
    <2>7. /\ Goes(w, q) /\ UpdateSlotSyncStatus(s, "Adding") /\ UNCHANGED <<codes, revocation>>
          /\ "Adding" \in SlotSyncStatus
      BY <1>2 DEF MarkAdding, SlotSyncStatus
    <2>8. QED
      BY <2>2, <2>3, <2>6, <2>7, StatusKeepsCodes
  <1>3. CASE MarkAllocated(w)
    <2> DEFINE q == [p EXCEPT !.at = "setting"]
    <2>1. p.at = "allocated"
      BY <1>3 DEF MarkAllocated, At
    <2>2. p.slot \in Slot /\ rows[p.slot] # NoRow
      BY <1>p, <2>1 DEF GoodPass, Busy
    <2>3. /\ q.at = "setting" /\ q.view = p.view /\ q.desired = p.desired
          /\ q.slot = p.slot /\ q.fresh = p.fresh /\ q.found = p.found
      BY <1>p DEF PassRecord
    <2>4. Trusts(q, rows, codes)
      BY <1>p, <2>1, <2>3 DEF Trusts, Adding, Serving, ReadBack
    <2>5. /\ Goes(w, q) /\ UpdateSlotSyncStatus(p.slot, "Adding") /\ UNCHANGED <<codes, revocation>>
          /\ "Adding" \in SlotSyncStatus
      BY <1>3 DEF MarkAllocated, SlotSyncStatus
    <2>6. QED
      BY <2>2, <2>4, <2>5, StatusKeepsCodes
  <1>4. CASE Finish(w)
    BY <1>4, NoPassTrusts, SameTable, PassKeepsCodes DEF Finish, Abort
  <1>5. QED
    BY <1>1, <1>2, <1>3, <1>4

\* A request that moves no row to another user.
LEMMA RequestCodes ==
    ASSUME TypeInv, TypeInv', CodeInv, SameUsers(rows, rows'),
           UNCHANGED <<pass, codes, revocation>>
    PROVE  CodeInv'
  <1>1. CodesKnown'
    BY DEF CodeInv, CodesKnown, SameUsers
  <1>2. \A w \in Pass : Trusts(pass'[w], rows', codes')
    BY TrustsSameUsers DEF TypeInv, CodeInv
  <1>3. QED
    BY <1>1, <1>2 DEF CodeInv

LEMMA AdministrationCodes ==
    ASSUME Careful, TypeInv, TypeInv', CodeInv, Administration
    PROVE  CodeInv'
  <1>1. ASSUME NEW u \in User, ChangeEntitlement(u)
        PROVE  CodeInv'
    BY <1>1, SameTable, RequestCodes DEF ChangeEntitlement
  <1>2. ASSUME NEW c \in Cred, SetPin(c)
        PROVE  CodeInv'
    BY <1>2, SameTable, RequestCodes DEF SetPin
  <1>3. ASSUME NEW u \in User, NEW i \in DOMAIN creds[u], DeleteCredential(u, i)
        PROVE  CodeInv'
    <2>1. ASSUME NEW s \in Slot, rows[s] # NoRow
          PROVE  rows'[s] # NoRow /\ rows'[s].user = rows[s].user
      <3>1. rows[s] \in Row
        BY <2>1 DEF TypeInv, Table
      <3>2. rows'[s] = [rows[s] EXCEPT !.user = IF @ = Nobody THEN Nobody ELSE @,
                                       !.cred = IF @ \in {creds[u][i]} THEN Nobody ELSE @]
        BY <1>3, <2>1 DEF DeleteCredential, SetNull
      <3>3. rows'[s] \in Row
        BY <3>1, <3>2 DEF Row
      <3>4. QED
        BY <3>1, <3>2, <3>3, NoRowAssumption DEF Row
    <2>2. \A s \in Slot : rows[s] = NoRow => rows'[s] = NoRow
      BY <1>3 DEF DeleteCredential, SetNull
    <2>3. SameUsers(rows, rows')
      BY <2>1, <2>2 DEF SameUsers
    <2>4. QED
      BY <1>3, <2>3, RequestCodes DEF DeleteCredential
  <1>4. ~ReadRevoked /\ ~ForgetRevoked
    BY DEF CodeInv, NoRevocation, ReadRevoked, ForgetRevoked
  <1>5. \A u \in User : ~DeleteUser(u) /\ ~DeactivateUser(u)
    BY DEF Careful, DeleteUser, DeactivateUser
  <1>6. QED
    BY <1>1, <1>2, <1>3, <1>4, <1>5 DEF Administration

LEMMA CrashCodes ==
    ASSUME TypeInv, CodeInv, Crash
    PROVE  CodeInv'
  <1>1. \A w \in Pass : Trusts(pass'[w], rows', codes')
    BY NoPassTrusts DEF Crash
  <1>2. CodesKnown' /\ revocation' = NoRevocation
    BY DEF Crash, CodeInv, CodesKnown
  <1>3. QED
    BY <1>1, <1>2 DEF CodeInv

LEMMA CodeNext ==
    ASSUME OnePass, Careful, TypeInv, OwnInv, CodeInv, [Next]_vars
    PROVE  CodeInv'
  <1>1. TypeInv'
    BY TypeNext
  <1>2. CASE Next
    <2>1. ASSUME NEW w \in Pass, Step(w), UNCHANGED fault
          PROVE  CodeInv'
      <3>1. UNCHANGED <<revocation, fault>>
        BY <2>1 DEF Step
      <3>2. QED
        BY <1>1, <2>1, <3>1, RemoveCodes, AllocateCodes, GetSlotCodes, SetSlotCodeCodes,
           MarkSetCodes,
           AddCodes DEF Step
    <2>2. QED
      BY <1>1, <1>2, <2>1, AdministrationCodes, CrashCodes DEF Next
  <1>3. CASE UNCHANGED vars
    BY <1>3 DEF vars, people, CodeInv, CodesKnown
  <1>4. QED
    BY <1>2, <1>3

\* When one reconciliation runs at a time, and users are not deleted, revoked or
\* commands swallowed, no code is left in the lock whose row does not name its owner:
\* whatever is refused, throws or crashes between any two steps.
THEOREM CodesAreNotForgotten ==
    ASSUME OnePass
    PROVE  Spec => []NoForgottenCode
  <1> DEFINE IInv == TypeInv /\ OwnInv /\ (Careful => CodeInv)
  <1>1. Init => IInv
    BY TypeInit, OwnInit, CodeInit
  <1>2. IInv /\ [Next]_vars => IInv'
    <2> SUFFICES ASSUME IInv, [Next]_vars
                 PROVE  IInv'
      OBVIOUS
    <2>1. TypeInv' /\ OwnInv'
      BY TypeNext, OwnNext
    <2>2. UNCHANGED fault
      BY DEF Next, vars
    <2>3. Careful' => CodeInv'
      BY <2>2, CodeNext DEF Careful
    <2>4. QED
      BY <2>1, <2>3
  <1>3. IInv => NoForgottenCode
    BY DEF Careful, CodeInv, CodesKnown, NoForgottenCode
  <1>4. QED
    BY <1>1, <1>2, <1>3, PTL DEF Spec

----------------------------------------------------------------------------
(* What the table says of the lock: a row is Synced only when its code is    *)
(* set, but for a moment                                                     *)

\* Commands are refused or throw; nothing is swallowed, stopped, revoked or deleted.
Gentle == fault \subseteq {"refuse", "throw"}

\* A Synced row that has a credential has its code in the lock, unless it has just
\* been allocated: AllocateSlotAsync says Synced before anything is sent.
Truthful(p, table, lock) ==
    \A s \in Slot :
        table[s] # NoRow /\ table[s].sync = "Synced" /\ table[s].cred # Nobody =>
            lock[s] = table[s].cred \/ (p.at \in {"inserted", "allocated"} /\ p.slot = s)

\* What the row of the slot in hand says in each stage, and what has become of the
\* credentials of the rows a pass has read.
Tells(p, table, lock) ==
    /\ Truthful(p, table, lock)
    /\ p.at \in {"clearing", "cleared"} => table[p.slot].sync = "Deleting"
    /\ p.at = "forgotten" => table[p.slot].cred = Nobody
    /\ p.at = "setting" => table[p.slot].sync = "Adding"
    /\ p.at = "set" => lock[p.slot] = First(p.desired).cred
    /\ p.at \in Serving => table[p.slot].cred \in {First(p.desired).cred, Nobody}
    /\ ReadBack(p) => table[p.slot].cred \in {p.found.cred, Nobody}
    /\ p.at \in Adding => \A s \in Slot :
          Taken(p.view[s]) => table[s].cred \in {p.view[s].cred, Nobody}

SyncInv == \A w \in Pass : Tells(pass[w], rows, codes)

LEMMA SyncInit == Init => SyncInv
  BY DEF Init, SyncInv, Tells, Truthful, NoPass, Serving, Adding, ReadBack

\* The table with another status for a row, and with a row that has forgotten its user.
Marked(table, s, status) == [table EXCEPT ![s].sync = status]
Forgotten(table, s) == [table EXCEPT ![s].user = Nobody, ![s].cred = Nobody]

\* A row that gets another status keeps its user and its credential.
LEMMA MarkedRows ==
    ASSUME NEW table \in Table, NEW s \in Slot, table[s] # NoRow, NEW status \in SlotSyncStatus
    PROVE  /\ Marked(table, s, status) \in Table
           /\ Marked(table, s, status)[s].sync = status
           /\ \A t \in Slot : t # s => Marked(table, s, status)[t] = table[t]
           /\ \A t \in Slot : Marked(table, s, status)[t] # NoRow <=> table[t] # NoRow
           /\ \A t \in Slot : table[t] # NoRow =>
                 /\ Marked(table, s, status)[t].user = table[t].user
                 /\ Marked(table, s, status)[t].cred = table[t].cred
           /\ \A t \in Slot : Taken(Marked(table, s, status)[t]) <=> Taken(table[t])
           /\ \A t \in Slot : \A d : Holds(Marked(table, s, status)[t], d) <=> Holds(table[t], d)
           /\ \A t \in Slot : \A desired : table[t] # NoRow =>
                 (Wants(desired, Marked(table, s, status)[t]) <=> Wants(desired, table[t]))
  <1> DEFINE row == [table[s] EXCEPT !.sync = status]
             after == Marked(table, s, status)
  <1>1. table[s] \in Row
    BY DEF Table
  <1>2. row \in Row /\ row.sync = status /\ row.user = table[s].user /\ row.cred = table[s].cred
    BY <1>1 DEF Row
  <1>3. after = [table EXCEPT ![s] = row]
    BY DEF Marked
  <1> HIDE DEF row, after
  <1>4. after \in Table /\ after[s] = row /\ \A t \in Slot : t # s => after[t] = table[t]
    BY <1>2, <1>3 DEF Table
  <1>5. row # NoRow
    BY <1>2, NoRowAssumption
  <1>6. \A t \in Slot : after[t] # NoRow <=> table[t] # NoRow
    BY <1>4, <1>5
  <1>7. \A t \in Slot : table[t] # NoRow =>
                 after[t].user = table[t].user /\ after[t].cred = table[t].cred
    BY <1>2, <1>4
  <1>8. \A t \in Slot : Taken(after[t]) <=> Taken(table[t])
    BY <1>6, <1>7 DEF Taken
  <1>9. \A t \in Slot : \A d : Holds(after[t], d) <=> Holds(table[t], d)
    BY <1>6, <1>7, <1>8 DEF Holds, Taken
  <1>10. \A t \in Slot : \A desired : table[t] # NoRow =>
                 (Wants(desired, after[t]) <=> Wants(desired, table[t]))
    BY <1>7 DEF Wants
  <1>11. QED
    BY <1>2, <1>4, <1>6, <1>7, <1>8, <1>9, <1>10 DEF after

\* A row that forgets its user keeps its status, and all others stay.
LEMMA ForgottenRows ==
    ASSUME NEW table \in Table, NEW s \in Slot, table[s] # NoRow
    PROVE  /\ Forgotten(table, s) \in Table /\ Forgotten(table, s)[s] \in Row
           /\ Forgotten(table, s)[s].cred = Nobody /\ ~Taken(Forgotten(table, s)[s])
           /\ \A t \in Slot : t # s => Forgotten(table, s)[t] = table[t]
  <1> DEFINE row == [table[s] EXCEPT !.user = Nobody, !.cred = Nobody]
             after == Forgotten(table, s)
  <1>1. table[s] \in Row
    BY DEF Table
  <1>2. row \in Row /\ row.user = Nobody /\ row.cred = Nobody
    BY <1>1 DEF Row
  <1>3. after = [table EXCEPT ![s] = row]
    BY <1>1 DEF Table, Row, Forgotten
  <1> HIDE DEF row, after
  <1>4. after \in Table /\ after[s] = row /\ \A t \in Slot : t # s => after[t] = table[t]
    BY <1>2, <1>3 DEF Table
  <1>5. QED
    BY <1>2, <1>4 DEF Taken, after

LEMMA SyncPass ==
    ASSUME OnePass, TypeInv, NEW w \in Pass, NEW q, Goes(w, q), Tells(q, rows', codes')
    PROVE  SyncInv'
  <1>1. \A v \in Pass : pass'[v] = q
    BY DEF TypeInv, OnePass, Goes
  <1>2. QED
    BY <1>1 DEF SyncInv

\* A pass without a slot in hand and without rows it has read.
LEMMA TellsNothing ==
    ASSUME NEW q, NEW table, NEW lock, q.at \in {"idle", "read", "remove", "clearRefused"},
           Truthful(q, table, lock)
    PROVE  Tells(q, table, lock)
  BY DEF Tells, Adding, Serving, ReadBack

\* A command that clears a slot, whatever becomes of it.
LEMMA ClearSync ==
    ASSUME OnePass, Gentle, TypeInv, SyncInv, NEW w \in Pass, ClearSlotCode(w)
    PROVE  SyncInv'
  <1> DEFINE p == pass[w]
  <1>1. GoodPass(p, rows) /\ p \in PassRecord /\ Tells(p, rows, codes) /\ p.at = "clearing"
    BY DEF TypeInv, GoodPass, SyncInv, ClearSlotCode, At
  <1>2. p.slot \in Slot /\ rows[p.slot].sync = "Deleting" /\ rows' = rows
    BY <1>1 DEF GoodPass, Busy, Tells, ClearSlotCode
  <1>3. codes' = [codes EXCEPT ![p.slot] = NoCode] \/ codes' = codes
    BY DEF ClearSlotCode, Command
  <1>4. \A s \in Slot : s # p.slot => codes'[s] = codes[s]
    BY <1>3 DEF TypeInv
  <1>5. \A q : Truthful(q, rows', codes')
    BY <1>1, <1>2, <1>4 DEF Truthful, Tells
  <1>6. PICK q : Goes(w, q) /\ q \in {[p EXCEPT !.at = "cleared"], [p EXCEPT !.at = "clearRefused"], NoPass}
    BY DEF ClearSlotCode, Command, Abort, Gentle
  <1>7. q = NoPass \/ (q.at \in {"cleared", "clearRefused"} /\ q.slot = p.slot)
    BY <1>1, <1>6 DEF PassRecord
  <1>8. Tells(q, rows', codes')
    BY <1>2, <1>5, <1>7 DEF Tells, NoPass, Adding, Serving, ReadBack
  <1>9. QED
    BY <1>6, <1>8, SyncPass

LEMMA RemoveSync ==
    ASSUME OnePass, Gentle, TypeInv, SyncInv, NEW w \in Pass,
           \/ Start(w) \/ ReadSlots(w) \/ MarkDeleting(w)
           \/ ClearSlot(w) \/ MarkCleared(w) \/ Refresh(w)
    PROVE  SyncInv'
  <1> DEFINE p == pass[w]
  <1>p. GoodPass(p, rows) /\ p \in PassRecord /\ Tells(p, rows, codes) /\ rows \in Table
    BY DEF TypeInv, GoodPass, SyncInv
  <1>1. CASE Start(w)
    <2> DEFINE q == [NoPass EXCEPT !.at = "read", !.desired = Desired]
    <2>1. q.at = "read" /\ p.at = "idle"
      BY <1>1 DEF NoPass, Start, At
    <2>2. rows' = rows /\ codes' = codes /\ Goes(w, q)
      BY <1>1 DEF Start
    <2> HIDE DEF q
    <2>3. Truthful(q, rows', codes')
      BY <1>p, <2>1, <2>2 DEF Tells, Truthful
    <2>4. QED
      BY <2>1, <2>2, <2>3, TellsNothing, SyncPass
  <1>2. CASE ReadSlots(w)
    <2> DEFINE q == [p EXCEPT !.at = "remove", !.left = Obsolete(p.desired, rows)]
    <2>1. q.at = "remove" /\ p.at = "read"
      BY <1>2, <1>p DEF PassRecord, ReadSlots, At
    <2>2. rows' = rows /\ codes' = codes /\ Goes(w, q)
      BY <1>2 DEF ReadSlots
    <2> HIDE DEF q
    <2>3. Truthful(q, rows', codes')
      BY <1>p, <2>1, <2>2 DEF Tells, Truthful
    <2>4. QED
      BY <2>1, <2>2, <2>3, TellsNothing, SyncPass
  <1>3. CASE MarkDeleting(w)
    <2> DEFINE s == Least(p.left)
               q == [p EXCEPT !.at = "clearing", !.slot = s, !.left = @ \ {s}]
    <2>1. s \in p.left
      BY <1>3, <1>p, LeastIsOne DEF MarkDeleting, PassRecord
    <2>2. s \in Slot /\ rows[s] # NoRow
      BY <1>p, <2>1 DEF GoodPass, PassRecord
    <2>3. q.at = "clearing" /\ q.slot = s /\ p.at = "remove"
      BY <1>3, <1>p DEF PassRecord, MarkDeleting, At
    <2>4. codes' = codes /\ Goes(w, q) /\ rows' = Marked(rows, s, "Deleting")
      BY <1>3 DEF MarkDeleting, UpdateSlotSyncStatus, Marked
    <2> HIDE DEF q, s
    <2>5. rows'[s].sync = "Deleting" /\ \A t \in Slot : t # s => rows'[t] = rows[t]
      <3>1. "Deleting" \in SlotSyncStatus
        BY DEF SlotSyncStatus
      <3>2. QED
        BY <1>p, <2>2, <2>4, <3>1, MarkedRows
    <2>6. Truthful(q, rows', codes')
      BY <1>p, <2>3, <2>4, <2>5 DEF Tells, Truthful
    <2>7. Tells(q, rows', codes')
      BY <2>3, <2>5, <2>6 DEF Tells, Adding, Serving, ReadBack
    <2>8. QED
      BY <2>4, <2>7, SyncPass
  <1>4. CASE ClearSlot(w)
    <2> DEFINE q == [p EXCEPT !.at = "forgotten"]
               s == p.slot
    <2>1. s \in Slot /\ rows[s] # NoRow /\ p.at = "cleared"
      BY <1>4, <1>p DEF ClearSlot, At, GoodPass, Busy
    <2>2. q.at = "forgotten" /\ q.slot = s
      BY <1>p DEF PassRecord
    <2>3. codes' = codes /\ Goes(w, q)
          /\ rows' = Forgotten(rows, s)
      BY <1>4 DEF ClearSlot, Forgotten
    <2> HIDE DEF q, s
    <2>4. rows'[s].cred = Nobody /\ \A t \in Slot : t # s => rows'[t] = rows[t]
      BY <1>p, <2>1, <2>3, ForgottenRows
    <2>5. Truthful(q, rows', codes')
      BY <1>p, <2>1, <2>2, <2>3, <2>4 DEF Tells, Truthful
    <2>6. Tells(q, rows', codes')
      BY <2>2, <2>4, <2>5 DEF Tells, Adding, Serving
    <2>7. QED
      BY <2>3, <2>6, SyncPass
  <1>5. CASE MarkCleared(w)
    <2> DEFINE q == [p EXCEPT !.at = "remove", !.slot = 0]
               s == p.slot
    <2>1. s \in Slot /\ rows[s] # NoRow /\ p.at \in {"forgotten", "clearRefused"}
      BY <1>5, <1>p DEF MarkCleared, At, GoodPass, Busy
    <2>2. q.at = "remove"
      BY <1>p DEF PassRecord
    <2>3. codes' = codes /\ Goes(w, q)
      BY <1>5 DEF MarkCleared
    <2>4. PICK status \in SlotSyncStatus :
             /\ rows' = Marked(rows, s, status)
             /\ p.at = "forgotten" \/ status = "Error"
      BY <1>5 DEF MarkCleared, UpdateSlotSyncStatus, SlotSyncStatus, At, Marked
    <2> HIDE DEF q, s
    <2>5. /\ rows'[s].sync = status /\ rows'[s].cred = rows[s].cred
          /\ \A t \in Slot : t # s => rows'[t] = rows[t]
      BY <1>p, <2>1, <2>4, MarkedRows
    <2>6. status = "Synced" => rows[s].cred = Nobody
      BY <1>p, <2>4 DEF Tells, s
    <2>7. Truthful(q, rows', codes')
      BY <1>p, <2>1, <2>3, <2>5, <2>6 DEF Tells, Truthful
    <2>8. QED
      BY <2>2, <2>3, <2>7, TellsNothing, SyncPass
  <1>6. CASE Refresh(w)
    <2> DEFINE q == [p EXCEPT !.at = "add", !.view = rows]
    <2>1. q.at = "add" /\ q.view = rows /\ p.at = "remove"
      BY <1>6, <1>p DEF PassRecord, Refresh, At
    <2>2. rows' = rows /\ codes' = codes /\ Goes(w, q)
      BY <1>6 DEF Refresh
    <2> HIDE DEF q
    <2>3. Truthful(q, rows', codes')
      BY <1>p, <2>1, <2>2 DEF Tells, Truthful
    <2>4. Tells(q, rows', codes')
      BY <2>1, <2>2, <2>3 DEF Tells, Serving, ReadBack
    <2>5. QED
      BY <2>2, <2>4, SyncPass
  <1>7. QED
    BY <1>1, <1>2, <1>3, <1>4, <1>5, <1>6

\* AllocateSlotAsync: the row says Synced while the slot is in hand.
LEMMA AllocateSync ==
    ASSUME OnePass, TypeInv, SyncInv, NEW w \in Pass, Allocate(w)
    PROVE  SyncInv'
  <1> DEFINE p == pass[w]
             s == Least(FreeSlots(p.view))
             want == Want(w)
             row == [user |-> want.user, cred |-> want.cred, sync |-> "Synced"]
             q == [p EXCEPT !.at = "inserted", !.slot = s, !.fresh = TRUE]
  <1>p. GoodPass(p, rows) /\ p \in PassRecord /\ Tells(p, rows, codes) /\ rows \in Table
    BY DEF TypeInv, GoodPass, SyncInv
  <1>1. p.at = "add" /\ codes' = codes
    BY DEF Allocate, ToAdd, At
  <1>2. s \in Slot /\ ~Taken(p.view[s])
    BY SlotInHand, LeastIsOne DEF Allocate, FreeSlots
  <1>3. /\ q.at = "inserted" /\ q.slot = s /\ q.desired = p.desired /\ q.view = p.view
    BY <1>p DEF PassRecord
  <1>4. want = First(p.desired)
    BY WantIsFirst
  <1>5. CASE rows' = [rows EXCEPT ![s] = row] /\ Goes(w, q)
    <2> HIDE DEF q, s
    <2>1. \A t \in Slot : rows'[t] = IF t = s THEN row ELSE rows[t]
      BY <1>p, <1>5 DEF Table
    <2>2. rows'[s].cred = First(q.desired).cred
      BY <1>2, <1>3, <1>4, <2>1
    <2>3. Truthful(q, rows', codes')
      BY <1>p, <1>1, <1>3, <2>1 DEF Tells, Truthful
    <2>4. \A t \in Slot : Taken(q.view[t]) => rows'[t].cred \in {q.view[t].cred, Nobody}
      BY <1>p, <1>1, <1>2, <1>3, <2>1 DEF Tells, Adding
    <2>5. Tells(q, rows', codes')
      BY <1>3, <2>2, <2>3, <2>4 DEF Tells, Serving, ReadBack
    <2>6. QED
      BY <1>5, <2>5, SyncPass
  <1>6. CASE Abort(w) /\ UNCHANGED rows
    <2>1. Truthful(NoPass, rows', codes')
      BY <1>p, <1>1, <1>6 DEF Tells, Truthful
    <2>2. QED
      BY <1>6, <2>1, TellsNothing, SyncPass DEF Abort, NoPass
  <1>7. QED
    BY <1>5, <1>6 DEF Allocate

LEMMA GetSlotSync ==
    ASSUME OnePass, TypeInv, SyncInv, NEW w \in Pass, GetSlot(w)
    PROVE  SyncInv'
  <1> DEFINE p == pass[w]
             q == [p EXCEPT !.at = "allocated", !.found = rows[p.slot]]
  <1>1. p \in PassRecord /\ Tells(p, rows, codes) /\ p.at = "inserted"
    BY DEF TypeInv, GoodPass, SyncInv, GetSlot, At
  <1>2. /\ q.at = "allocated" /\ q.view = p.view /\ q.desired = p.desired
        /\ q.slot = p.slot /\ q.found = rows[p.slot]
    BY <1>1 DEF PassRecord
  <1>3. Goes(w, q) /\ rows' = rows /\ codes' = codes
    BY DEF GetSlot
  <1> HIDE DEF q
  <1>4. Truthful(q, rows', codes')
    BY <1>1, <1>2, <1>3 DEF Tells, Truthful
  <1>5. Tells(q, rows', codes')
    BY <1>1, <1>2, <1>3, <1>4 DEF Tells, Adding, Serving, ReadBack
  <1>6. QED
    BY <1>3, <1>5, SyncPass

\* A command that sets a code, whatever becomes of it.
LEMMA SetSync ==
    ASSUME OnePass, Gentle, TypeInv, SyncInv, NEW w \in Pass, SetSlotCode(w)
    PROVE  SyncInv'
  <1> DEFINE p == pass[w]
  <1>1. GoodPass(p, rows) /\ p \in PassRecord /\ Tells(p, rows, codes) /\ p.at = "setting"
    BY DEF TypeInv, GoodPass, SyncInv, SetSlotCode, At
  <1>2. p.slot \in Slot /\ rows[p.slot].sync = "Adding" /\ rows' = rows
    BY <1>1 DEF GoodPass, Busy, Tells, SetSlotCode
  <1>3. codes' = [codes EXCEPT ![p.slot] = Want(w).cred] \/ codes' = codes
    BY DEF SetSlotCode, Command
  <1>4. \A s \in Slot : s # p.slot => codes'[s] = codes[s]
    BY <1>3 DEF TypeInv
  <1>5. \A q : Truthful(q, rows', codes')
    BY <1>1, <1>2, <1>4 DEF Truthful, Tells
  <1>6. PICK q :
          /\ Goes(w, q)
          /\ \/ q = [p EXCEPT !.at = "set"] /\ codes' = [codes EXCEPT ![p.slot] = Want(w).cred]
             \/ q = [p EXCEPT !.at = "setRefused"]
             \/ q = NoPass
    BY DEF SetSlotCode, Command, Abort, Gentle
  <1>7. CASE q = NoPass
    BY <1>5, <1>6, <1>7, TellsNothing, SyncPass DEF NoPass
  <1>8. CASE q # NoPass
    <2>1. /\ q.at \in {"set", "setRefused"} /\ q.slot = p.slot /\ q.desired = p.desired
          /\ q.view = p.view /\ q.fresh = p.fresh /\ q.found = p.found
      BY <1>1, <1>6, <1>8 DEF PassRecord
    <2>2. q.at = "set" => codes'[p.slot] = First(p.desired).cred
      <3>1. q.at = "set" => codes' = [codes EXCEPT ![p.slot] = Want(w).cred]
        BY <1>1, <1>6, <1>8 DEF PassRecord
      <3>2. QED
        BY <1>2, <3>1, WantIsFirst DEF TypeInv
    <2>3. /\ rows[p.slot].cred \in {First(p.desired).cred, Nobody}
          /\ \A s \in Slot : Taken(p.view[s]) => rows[s].cred \in {p.view[s].cred, Nobody}
          /\ p.fresh => rows[p.slot].cred \in {p.found.cred, Nobody}
      BY <1>1 DEF Tells, Serving, Adding, ReadBack
    <2>4. Tells(q, rows', codes')
      BY <1>2, <1>5, <2>1, <2>2, <2>3 DEF Tells, Serving, ReadBack
    <2>5. QED
      BY <1>6, <2>4, SyncPass
  <1>9. QED
    BY <1>7, <1>8

\* The slot in hand becomes Synced only after its code was set; a slot that joins the
\* view has the credential that was given.
LEMMA MarkSetSync ==
    ASSUME OnePass, TypeInv, SyncInv, NEW w \in Pass, MarkSet(w)
    PROVE  SyncInv'
  <1> DEFINE p == pass[w]
             s == p.slot
             want == Want(w)
             next == [p EXCEPT !.at = "add", !.desired = @ \ {want},
                               !.slot = 0, !.fresh = FALSE, !.found = NoRow]
             found == p.found
             q == [next EXCEPT !.view[s] = found]
  <1>p. GoodPass(p, rows) /\ p \in PassRecord /\ Tells(p, rows, codes) /\ rows \in Table
    BY DEF TypeInv, GoodPass, SyncInv
  <1>1. p.at \in {"set", "setRefused"} /\ want = First(p.desired) /\ codes' = codes
    BY WantIsFirst DEF MarkSet, At
  <1>2. s \in Slot /\ rows[s] # NoRow /\ p.view \in Table
    BY <1>p, <1>1 DEF GoodPass, Busy, PassRecord
  <1>3. next.at = "add" /\ next.view = p.view /\ q.at = "add"
    BY <1>p DEF PassRecord
  <1>4. \A t \in Slot : q.view[t] = IF t = s THEN found ELSE p.view[t]
    BY <1>p, <1>2 DEF PassRecord, Table
  <1>5. PICK r : Goes(w, r) /\ (r = next \/ (r = q /\ p.fresh))
    BY DEF MarkSet
  <1>6. PICK status \in SlotSyncStatus :
          rows' = Marked(rows, s, status) /\ (p.at = "set" \/ status = "Error")
    BY DEF MarkSet, UpdateSlotSyncStatus, SlotSyncStatus, At, Marked
  <1>7. p.fresh => rows[s].cred \in {found.cred, Nobody}
    BY <1>p, <1>1 DEF Tells, Serving, ReadBack
  <1>s. p.slot = s
    OBVIOUS
  <1>8. /\ rows[s].cred \in {want.cred, Nobody}
        /\ p.at = "set" => codes[s] = want.cred
        /\ \A t \in Slot : Taken(p.view[t]) => rows[t].cred \in {p.view[t].cred, Nobody}
        /\ Truthful(p, rows, codes)
    BY <1>p, <1>1 DEF Tells, Serving, Adding
  <1> HIDE DEF s, q, next, found, want
  <1>9. /\ rows'[s].sync = status
        /\ \A t \in Slot : t # s => rows'[t] = rows[t]
        /\ \A t \in Slot : rows'[t] # NoRow <=> rows[t] # NoRow
        /\ \A t \in Slot : rows[t] # NoRow => rows'[t].cred = rows[t].cred
    BY <1>p, <1>2, <1>6, MarkedRows
  <1>10. Truthful(r, rows', codes')
    BY <1>1, <1>2, <1>6, <1>8, <1>9 DEF Truthful
  <1>11. ASSUME NEW t \in Slot, Taken(r.view[t])
         PROVE  rows'[t].cred \in {r.view[t].cred, Nobody}
    <2>1. rows'[t].cred = rows[t].cred
      BY <1>2, <1>9
    <2>2. QED
      BY <1>3, <1>4, <1>5, <1>7, <1>8, <1>11, <2>1
  <1>12. r.at = "add"
    BY <1>3, <1>5
  <1>13. Tells(r, rows', codes')
    BY <1>10, <1>11, <1>12 DEF Tells, Serving, ReadBack
  <1>14. QED
    BY <1>5, <1>13, SyncPass

LEMMA AddSync ==
    ASSUME OnePass, TypeInv, SyncInv, NEW w \in Pass,
           Skip(w) \/ MarkAdding(w) \/ MarkAllocated(w) \/ Finish(w)
    PROVE  SyncInv'
  <1> DEFINE p == pass[w]
  <1>p. GoodPass(p, rows) /\ p \in PassRecord /\ Tells(p, rows, codes) /\ rows \in Table
    BY DEF TypeInv, GoodPass, SyncInv
  <1>1. CASE Skip(w)
    <2> DEFINE q == [p EXCEPT !.desired = @ \ {Want(w)}]
    <2>1. p.at = "add" /\ rows' = rows /\ codes' = codes /\ Goes(w, q)
      BY <1>1 DEF Skip, ToAdd, At
    <2>2. q.at = "add" /\ q.view = p.view
      BY <1>p, <2>1 DEF PassRecord
    <2> HIDE DEF q
    <2>3. Truthful(q, rows', codes')
      BY <1>p, <2>1 DEF Tells, Truthful
    <2>4. Tells(q, rows', codes')
      BY <1>p, <2>1, <2>2, <2>3 DEF Tells, Serving, ReadBack
    <2>5. QED
      BY <2>1, <2>4, SyncPass
  <1>2. CASE MarkAdding(w)
    <2> DEFINE s == Least(Existing(w))
               q == [p EXCEPT !.at = "setting", !.slot = s, !.fresh = FALSE]
    <2>1. p.at = "add" /\ Existing(w) # {}
      BY <1>2 DEF MarkAdding, ToAdd, At
    <2>2. s \in Slot /\ Holds(p.view[s], Want(w))
      BY <2>1, LeastIsOne DEF Existing
    <2>3. rows[s] # NoRow /\ Taken(p.view[s]) /\ p.view[s].cred = First(p.desired).cred
      BY <1>p, <2>2, WantIsFirst DEF GoodPass, Holds, Taken
    <2>4. q.desired = p.desired /\ q.at = "setting" /\ q.view = p.view /\ q.slot = s /\ ~q.fresh
      BY <1>p DEF PassRecord
    <2>5. rows' = Marked(rows, s, "Adding") /\ Goes(w, q) /\ codes' = codes
      BY <1>2 DEF MarkAdding, UpdateSlotSyncStatus, Marked
    <2>6. \A t \in Slot : Taken(p.view[t]) => rows[t] # NoRow
                            /\ rows[t].cred \in {p.view[t].cred, Nobody}
      BY <1>p, <2>1 DEF Tells, GoodPass, Taken, Adding
    <2> HIDE DEF s, q
    <2>7. /\ rows'[s].sync = "Adding"
          /\ \A t \in Slot : t # s => rows'[t] = rows[t]
          /\ \A t \in Slot : rows[t] # NoRow => rows'[t].cred = rows[t].cred
      <3>1. "Adding" \in SlotSyncStatus
        BY DEF SlotSyncStatus
      <3>2. QED
        BY <1>p, <2>2, <2>3, <2>5, <3>1, MarkedRows
    <2>8. Truthful(q, rows', codes')
      BY <1>p, <2>1, <2>5, <2>7 DEF Tells, Truthful
    <2>9. rows'[s].cred \in {First(q.desired).cred, Nobody}
      BY <2>2, <2>3, <2>4, <2>6, <2>7
    <2>10. Tells(q, rows', codes')
      BY <2>4, <2>6, <2>7, <2>8, <2>9 DEF Tells, Serving, ReadBack
    <2>11. QED
      BY <2>5, <2>10, SyncPass
  <1>3. CASE MarkAllocated(w)
    <2> DEFINE q == [p EXCEPT !.at = "setting"]
               s == p.slot
    <2>1. p.at = "allocated"
      BY <1>3 DEF MarkAllocated, At
    <2>2. s \in Slot /\ rows[s] # NoRow
      BY <1>p, <2>1 DEF GoodPass, Busy
    <2>3. /\ q.desired = p.desired /\ q.at = "setting" /\ q.view = p.view /\ q.slot = s
          /\ q.fresh = p.fresh /\ q.found = p.found
      BY <1>p DEF PassRecord
    <2>4. rows' = Marked(rows, s, "Adding") /\ Goes(w, q) /\ codes' = codes
      BY <1>3 DEF MarkAllocated, UpdateSlotSyncStatus, Marked
    <2>5. /\ \A t \in Slot : Taken(p.view[t]) => rows[t] # NoRow
                            /\ rows[t].cred \in {p.view[t].cred, Nobody}
          /\ rows[s].cred \in {First(p.desired).cred, Nobody}
          /\ p.fresh => rows[s].cred \in {p.found.cred, Nobody}
      BY <1>p, <2>1 DEF Tells, GoodPass, Taken, Adding, Serving, ReadBack
    <2>6. \A t \in Slot : t # s => (rows[t] # NoRow /\ rows[t].sync = "Synced"
                            /\ rows[t].cred # Nobody => codes[t] = rows[t].cred)
      BY <1>p DEF Tells, Truthful
    <2> HIDE DEF s, q
    <2>7. /\ rows'[s].sync = "Adding"
          /\ \A t \in Slot : t # s => rows'[t] = rows[t]
          /\ \A t \in Slot : rows[t] # NoRow => rows'[t].cred = rows[t].cred
      <3>1. "Adding" \in SlotSyncStatus
        BY DEF SlotSyncStatus
      <3>2. QED
        BY <1>p, <2>2, <2>4, <3>1, MarkedRows
    <2>8. Truthful(q, rows', codes')
      BY <2>4, <2>6, <2>7 DEF Truthful
    <2>9. rows'[s].cred \in {First(q.desired).cred, Nobody}
      BY <2>2, <2>3, <2>5, <2>7
    <2>10. Tells(q, rows', codes')
      BY <2>2, <2>3, <2>5, <2>7, <2>8, <2>9 DEF Tells, Serving, ReadBack
    <2>11. QED
      BY <2>4, <2>10, SyncPass
  <1>4. CASE Finish(w)
    <2>1. p.at = "add" /\ rows' = rows /\ codes' = codes /\ Goes(w, NoPass)
      BY <1>4 DEF Finish, Abort, At
    <2>2. Truthful(NoPass, rows', codes')
      BY <1>p, <2>1 DEF Tells, Truthful
    <2>3. QED
      BY <2>1, <2>2, TellsNothing, SyncPass DEF NoPass
  <1>5. QED
    BY <1>1, <1>2, <1>3, <1>4

\* A credential that is deleted leaves every row where it is.
LEMMA DeleteCredentialRows ==
    ASSUME TypeInv, NEW u \in User, NEW i \in DOMAIN creds[u], DeleteCredential(u, i)
    PROVE  \A s \in Slot :
              /\ rows'[s] # NoRow <=> rows[s] # NoRow
              /\ rows[s] # NoRow => /\ rows'[s].sync = rows[s].sync
                                    /\ rows'[s].cred \in {rows[s].cred, Nobody}
  <1> SUFFICES ASSUME NEW s \in Slot, rows[s] # NoRow
               PROVE  /\ rows'[s] # NoRow
                      /\ rows'[s].sync = rows[s].sync
                      /\ rows'[s].cred \in {rows[s].cred, Nobody}
    BY DEF DeleteCredential, SetNull
  <1>1. rows[s] \in Row
    BY DEF TypeInv, Table
  <1>2. rows'[s] = [rows[s] EXCEPT !.user = IF @ = Nobody THEN Nobody ELSE @,
                                   !.cred = IF @ \in {creds[u][i]} THEN Nobody ELSE @]
    BY DEF DeleteCredential, SetNull
  <1>3. rows'[s] \in Row
    BY <1>1, <1>2 DEF Row
  <1>4. QED
    BY <1>1, <1>2, <1>3, NoRowAssumption DEF Row

\* Requests neither make a row Synced nor give it a credential.
LEMMA AdministrationSync ==
    ASSUME Gentle, TypeInv, CodeInv, SyncInv, Administration
    PROVE  SyncInv' /\ calm' = FALSE
  <1>1. /\ \/ UNCHANGED rows
           \/ \E u \in User : \E i \in DOMAIN creds[u] : DeleteCredential(u, i)
        /\ UNCHANGED <<pass, codes>> /\ calm' = FALSE
    <2>1. ASSUME NEW u \in User
          PROVE  ~DeleteUser(u) /\ ~DeactivateUser(u)
      BY DEF Gentle, DeleteUser, DeactivateUser
    <2>2. ~ReadRevoked /\ ~ForgetRevoked
      BY DEF CodeInv, NoRevocation, ReadRevoked, ForgetRevoked
    <2>3. QED
      BY <2>1, <2>2 DEF Administration, ChangeEntitlement, DeleteCredential, SetPin
  <1>2. \A s \in Slot :
           /\ rows'[s] # NoRow <=> rows[s] # NoRow
           /\ rows[s] # NoRow => /\ rows'[s].sync = rows[s].sync
                                 /\ rows'[s].cred \in {rows[s].cred, Nobody}
    BY <1>1, DeleteCredentialRows
  <1>3. ASSUME NEW w \in Pass
        PROVE  Tells(pass'[w], rows', codes')
    <2> DEFINE p == pass[w]
    <2>1. GoodPass(p, rows) /\ Tells(p, rows, codes) /\ pass'[w] = p /\ codes' = codes
      BY <1>1 DEF TypeInv, SyncInv
    <2> HIDE DEF p
    <2>2. p.at \in Busy => p.slot \in Slot /\ rows[p.slot] # NoRow
      BY <2>1 DEF GoodPass
    <2>3. \A s \in Slot : Taken(p.view[s]) => rows[s] # NoRow
      BY <2>1 DEF GoodPass, Taken
    <2>4. Truthful(p, rows', codes)
      BY <1>2, <2>1 DEF Tells, Truthful
    <2>5. QED
      BY <1>2, <2>1, <2>2, <2>3, <2>4 DEF Tells, Busy, Serving, Adding, ReadBack
  <1>4. QED
    BY <1>1, <1>3 DEF SyncInv

LEMMA SyncNext ==
    ASSUME OnePass, Gentle, TypeInv, CodeInv, SyncInv, [Next]_vars
    PROVE  SyncInv'
  <1>1. CASE Next
    <2>1. ~Crash
      BY DEF Gentle, Crash
    <2>2. ASSUME NEW w \in Pass, Step(w)
          PROVE  SyncInv'
      BY <2>2, ClearSync, RemoveSync, AllocateSync, GetSlotSync, SetSync, MarkSetSync, AddSync
         DEF Step
    <2>3. QED
      BY <1>1, <2>1, <2>2, AdministrationSync DEF Next
  <1>2. CASE UNCHANGED vars
    BY <1>2 DEF vars, SyncInv
  <1>3. QED
    BY <1>1, <1>2

----------------------------------------------------------------------------
(* A pass that nothing has disturbed                                         *)

\* Whom the pass has not yet begun to serve.
Waiting(p) == IF p.at \in Serving THEN p.desired \ {First(p.desired)} ELSE p.desired

\* The lock has the code of a desired user, and its row says so.
Installed(d, table, lock) == \E s \in Slot : lock[s] = d.cred /\ Holds(table[s], d)

\* Every slot is given away, and none to this one.
Excluded(d, view, table) == \A s \in Slot : Taken(view[s]) /\ ~Holds(table[s], d)

\* While it removes codes, a pass has still before it every row that is not wanted.
Removes(p, table, wanted) ==
    /\ p.at \in {"read", "remove", "clearing", "cleared", "forgotten"} => p.desired = wanted
    /\ p.at \in {"remove", "clearing", "cleared", "forgotten"} => \A s \in Slot :
          Taken(table[s]) /\ ~Wants(wanted, table[s]) =>
              s \in p.left \/ (p.at \in {"clearing", "cleared"} /\ s = p.slot)

\* While it installs codes, what it has read is so for whom it has still to serve,
\* and whoever is served has a code, or there was no slot left.
Installs(p, table, lock, wanted) ==
    p.at \in Adding =>
        /\ p.desired \subseteq wanted
        /\ \A s \in Slot : Taken(table[s]) => Wants(wanted, table[s])
        /\ \A s \in Slot : \A d \in Waiting(p) : Holds(p.view[s], d) => table[s] = p.view[s]
        /\ \A s \in Slot : Taken(table[s]) =>
              Taken(p.view[s]) \/ (p.at \in Serving /\ p.fresh /\ s = p.slot)
        /\ \A d \in wanted \ p.desired : Installed(d, table, lock) \/ Excluded(d, p.view, table)
        /\ p.at \in Serving => Holds(table[p.slot], First(p.desired))
        /\ ReadBack(p) => Holds(p.found, First(p.desired))

OnCourse(p, table, lock, wanted) ==
    /\ p.at \notin {"clearRefused", "setRefused"}
    /\ Removes(p, table, wanted)
    /\ Installs(p, table, lock, wanted)

CalmInv == calm => \A w \in Pass : OnCourse(pass[w], rows, codes, Desired)

LEMMA CalmInit == Init => CalmInv
  BY DEF Init, CalmInv

LEMMA SameDesired ==
    ASSUME UNCHANGED people
    PROVE  Desired' = Desired
  BY DEF people, Desired

LEMMA CalmPass ==
    ASSUME OnePass, TypeInv, NEW w \in Pass, NEW q, Goes(w, q), UNCHANGED people,
           calm' => OnCourse(q, rows', codes', Desired)
    PROVE  CalmInv'
  <1>1. \A v \in Pass : pass'[v] = q
    BY DEF TypeInv, OnePass, Goes
  <1>2. Desired' = Desired
    BY SameDesired
  <1>3. QED
    BY <1>1, <1>2 DEF CalmInv

LEMMA IdleOnCourse ==
    ASSUME NEW table, NEW lock, NEW wanted
    PROVE  OnCourse(NoPass, table, lock, wanted)
  BY DEF OnCourse, Removes, Installs, NoPass, Adding, Serving

LEMMA RemoveCalm ==
    ASSUME OnePass, Gentle, TypeInv, CalmInv, NEW w \in Pass,
           \/ Start(w) \/ ReadSlots(w) \/ MarkDeleting(w) \/ ClearSlotCode(w)
           \/ ClearSlot(w) \/ MarkCleared(w)
    PROVE  CalmInv'
  <1> DEFINE p == pass[w]
  <1>p. GoodPass(p, rows) /\ p \in PassRecord /\ rows \in Table
    BY DEF TypeInv, GoodPass
  <1>q. calm => OnCourse(p, rows, codes, Desired)
    BY DEF CalmInv
  <1>1. CASE Start(w)
    <2> DEFINE q == [NoPass EXCEPT !.at = "read", !.desired = Desired]
    <2>1. q.at = "read" /\ q.desired = Desired
      BY DEF NoPass
    <2>2. Goes(w, q) /\ UNCHANGED people
      BY <1>1 DEF Start
    <2> HIDE DEF q
    <2>3. OnCourse(q, rows', codes', Desired)
      BY <2>1 DEF OnCourse, Removes, Installs, Adding, Serving
    <2>4. QED
      BY <2>2, <2>3, CalmPass
  <1>2. CASE ReadSlots(w)
    <2> DEFINE q == [p EXCEPT !.at = "remove", !.left = Obsolete(p.desired, rows)]
    <2>1. q.at = "remove" /\ q.desired = p.desired /\ q.left = Obsolete(p.desired, rows)
      BY <1>p DEF PassRecord
    <2>2. Goes(w, q) /\ UNCHANGED <<people, rows, codes, calm>> /\ p.at = "read"
      BY <1>2 DEF ReadSlots, At
    <2> HIDE DEF q
    <2>3. calm => p.desired = Desired
      BY <1>q, <2>2 DEF OnCourse, Removes
    <2>4. calm' => OnCourse(q, rows', codes', Desired)
      BY <2>1, <2>2, <2>3 DEF OnCourse, Removes, Installs, Adding, Serving, Obsolete
    <2>5. QED
      BY <2>2, <2>4, CalmPass
  <1>3. CASE MarkDeleting(w)
    <2> DEFINE s == Least(p.left)
               q == [p EXCEPT !.at = "clearing", !.slot = s, !.left = @ \ {s}]
    <2>1. s \in p.left
      BY <1>3, <1>p, LeastIsOne DEF MarkDeleting, PassRecord
    <2>2. s \in Slot /\ rows[s] # NoRow
      BY <1>p, <2>1 DEF GoodPass, PassRecord
    <2>3. q.at = "clearing" /\ q.slot = s /\ q.left = p.left \ {s} /\ q.desired = p.desired
      BY <1>p DEF PassRecord
    <2>4. /\ Goes(w, q) /\ UNCHANGED <<people, calm>> /\ p.at = "remove"
          /\ rows' = Marked(rows, s, "Deleting")
      BY <1>3 DEF MarkDeleting, UpdateSlotSyncStatus, Marked, At
    <2> HIDE DEF q, s
    <2>5. \A t \in Slot : t # s => rows'[t] = rows[t]
      <3>1. "Deleting" \in SlotSyncStatus
        BY DEF SlotSyncStatus
      <3>2. QED
        BY <1>p, <2>2, <2>4, <3>1, MarkedRows
    <2>6. calm => /\ p.desired = Desired
                  /\ \A t \in Slot : Taken(rows[t]) /\ ~Wants(Desired, rows[t]) => t \in p.left
      BY <1>q, <2>4 DEF OnCourse, Removes
    <2>7. calm' => OnCourse(q, rows', codes', Desired)
      BY <2>3, <2>4, <2>5, <2>6 DEF OnCourse, Removes, Installs, Adding, Serving
    <2>8. QED
      BY <2>4, <2>7, CalmPass
  <1>4. CASE ClearSlotCode(w)
    <2>1. p.at = "clearing" /\ UNCHANGED <<people, rows>>
      BY <1>4 DEF ClearSlotCode, At
    <2>2. PICK q : Goes(w, q) /\ (calm' => calm /\ q = [p EXCEPT !.at = "cleared"])
      BY <1>4 DEF ClearSlotCode, Command, Gentle, Abort
    <2>3. ASSUME calm'
          PROVE  OnCourse(q, rows', codes', Desired)
      <3>1. q.at = "cleared" /\ q.slot = p.slot /\ q.left = p.left /\ q.desired = p.desired
        BY <1>p, <2>2, <2>3 DEF PassRecord
      <3>2. OnCourse(p, rows, codes, Desired)
        BY <1>q, <2>2, <2>3
      <3>3. QED
        BY <2>1, <3>1, <3>2 DEF OnCourse, Removes, Installs, Adding, Serving
    <2>4. QED
      BY <2>1, <2>2, <2>3, CalmPass
  <1>5. CASE ClearSlot(w)
    <2> DEFINE s == p.slot
               q == [p EXCEPT !.at = "forgotten"]
    <2>1. p.at = "cleared" /\ s \in Slot /\ rows[s] # NoRow
      BY <1>5, <1>p DEF ClearSlot, At, GoodPass, Busy
    <2>2. q.at = "forgotten" /\ q.left = p.left /\ q.desired = p.desired
      BY <1>p DEF PassRecord
    <2>3. Goes(w, q) /\ UNCHANGED <<people, calm>> /\ rows' = Forgotten(rows, s)
      BY <1>5 DEF ClearSlot, Forgotten
    <2>4. calm => /\ p.desired = Desired
                  /\ \A t \in Slot : Taken(rows[t]) /\ ~Wants(Desired, rows[t]) =>
                        t \in p.left \/ t = s
      BY <1>q, <2>1 DEF OnCourse, Removes
    <2> HIDE DEF q, s
    <2>5. ~Taken(rows'[s]) /\ \A t \in Slot : t # s => rows'[t] = rows[t]
      BY <1>p, <2>1, <2>3, ForgottenRows
    <2>6. calm' => OnCourse(q, rows', codes', Desired)
      BY <2>2, <2>3, <2>4, <2>5 DEF OnCourse, Removes, Installs, Adding, Serving
    <2>7. QED
      BY <2>3, <2>6, CalmPass
  <1>6. CASE MarkCleared(w)
    <2> DEFINE s == p.slot
               q == [p EXCEPT !.at = "remove", !.slot = 0]
    <2>1. s \in Slot /\ rows[s] # NoRow /\ p.at \in {"forgotten", "clearRefused"}
      BY <1>6, <1>p DEF MarkCleared, At, GoodPass, Busy
    <2>2. q.at = "remove" /\ q.left = p.left /\ q.desired = p.desired
      BY <1>p DEF PassRecord
    <2>3. Goes(w, q) /\ UNCHANGED <<people, calm>>
      BY <1>6 DEF MarkCleared
    <2>4. PICK status \in SlotSyncStatus : rows' = Marked(rows, s, status)
      BY <1>6 DEF MarkCleared, UpdateSlotSyncStatus, SlotSyncStatus, Marked
    <2>5. calm => /\ p.desired = Desired
                  /\ \A t \in Slot : Taken(rows[t]) /\ ~Wants(Desired, rows[t]) => t \in p.left
      BY <1>q, <2>1 DEF OnCourse, Removes
    <2> HIDE DEF q, s
    <2>6. \A t \in Slot : Taken(rows'[t]) /\ ~Wants(Desired, rows'[t]) =>
                             Taken(rows[t]) /\ ~Wants(Desired, rows[t])
      <3>1. /\ \A t \in Slot : Taken(rows'[t]) <=> Taken(rows[t])
            /\ \A t \in Slot : rows[t] # NoRow =>
                  (Wants(Desired, rows'[t]) <=> Wants(Desired, rows[t]))
        BY <1>p, <2>1, <2>4, MarkedRows
      <3>2. QED
        BY <3>1 DEF Taken
    <2>7. calm' => OnCourse(q, rows', codes', Desired)
      BY <2>2, <2>3, <2>5, <2>6 DEF OnCourse, Removes, Installs, Adding, Serving
    <2>8. QED
      BY <2>3, <2>7, CalmPass
  <1>7. QED
    BY <1>1, <1>2, <1>3, <1>4, <1>5, <1>6

\* The rows are read again once every row that is not wanted is gone.
LEMMA RefreshCalm ==
    ASSUME OnePass, TypeInv, CalmInv, NEW w \in Pass, Refresh(w)
    PROVE  CalmInv'
  <1> DEFINE p == pass[w]
             q == [p EXCEPT !.at = "add", !.view = rows]
  <1>1. p \in PassRecord /\ (calm => OnCourse(p, rows, codes, Desired))
    BY DEF TypeInv, GoodPass, CalmInv
  <1>2. q.at = "add" /\ q.view = rows /\ q.desired = p.desired
    BY <1>1 DEF PassRecord
  <1>3. Goes(w, q) /\ UNCHANGED <<people, rows, codes, calm>> /\ p.at = "remove" /\ p.left = {}
    BY DEF Refresh, At
  <1>4. calm => /\ p.desired = Desired
                /\ \A t \in Slot : Taken(rows[t]) => Wants(Desired, rows[t])
    BY <1>1, <1>3 DEF OnCourse, Removes
  <1> HIDE DEF q
  <1>5. calm' => OnCourse(q, rows', codes', Desired)
    BY <1>2, <1>3, <1>4 DEF OnCourse, Removes, Installs, Serving, ReadBack
  <1>6. QED
    BY <1>3, <1>5, CalmPass

LEMMA HoldsOne ==
    ASSUME NEW d \in Assignment, NEW e \in Assignment, NEW row, Holds(row, d), Holds(row, e)
    PROVE  d = e
  <1>1. d.user = e.user /\ d.cred = e.cred
    BY DEF Holds
  <1>2. QED
    BY <1>1 DEF Assignment

\* What an undisturbed pass knows before each step that installs codes.
LEMMA CalmFacts ==
    ASSUME TypeInv, CalmInv, NEW w \in Pass, calm, pass[w].at \in Adding
    PROVE  /\ pass[w].desired \subseteq Desired /\ Desired \subseteq Assignment
           /\ \A s \in Slot : Taken(rows[s]) => Wants(Desired, rows[s])
           /\ \A s \in Slot : \A d \in Waiting(pass[w]) :
                 Holds(pass[w].view[s], d) => rows[s] = pass[w].view[s]
           /\ \A s \in Slot : Taken(rows[s]) =>
                 \/ Taken(pass[w].view[s])
                 \/ pass[w].at \in Serving /\ pass[w].fresh /\ s = pass[w].slot
           /\ \A d \in Desired \ pass[w].desired :
                 Installed(d, rows, codes) \/ Excluded(d, pass[w].view, rows)
           /\ pass[w].at \in Serving => Holds(rows[pass[w].slot], First(pass[w].desired))
           /\ pass[w].at \notin {"clearRefused", "setRefused"}
  <1>1. OnCourse(pass[w], rows, codes, Desired)
    BY DEF CalmInv
  <1>2. Desired \subseteq Assignment
    BY DesiredTyped DEF TypeInv
  <1>3. QED
    BY <1>1, <1>2 DEF OnCourse, Installs

\* A pass that is installing codes is on course if Installs says so.
LEMMA InstallsOnCourse ==
    ASSUME NEW q, NEW table, NEW lock, NEW wanted, q.at \in Adding, q.at # "setRefused",
           Installs(q, table, lock, wanted)
    PROVE  OnCourse(q, table, lock, wanted)
  BY DEF OnCourse, Removes, Adding, Serving

\* Whoever is skipped has a code in the lock, or there is no slot left.
LEMMA SkipCalm ==
    ASSUME OnePass, TypeInv, OwnInv, SyncInv, CalmInv, NEW w \in Pass, Skip(w)
    PROVE  CalmInv'
  <1> DEFINE p == pass[w]
             want == Want(w)
             q == [p EXCEPT !.desired = @ \ {want}]
  <1>1. p \in PassRecord /\ GoodPass(p, rows) /\ Knows(p, rows) /\ Tells(p, rows, codes)
    BY DEF TypeInv, GoodPass, OwnInv, SyncInv
  <1>2. p.at = "add" /\ p.desired # {} /\ Goes(w, q) /\ UNCHANGED <<people, rows, codes, calm>>
    BY DEF Skip, ToAdd, At
  <1>3. q.at = "add" /\ q.view = p.view /\ q.desired = p.desired \ {want}
    BY <1>1, <1>2 DEF PassRecord
  <1>4. want \in p.desired
    BY <1>1, <1>2, WantTyped DEF PassRecord
  <1>5. Existing(w) = {s \in Slot : Holds(p.view[s], want)}
    BY DEF Existing
  <1>6. IF Existing(w) # {} THEN p.view[Least(Existing(w))].sync = "Synced"
                            ELSE FreeSlots(p.view) = {}
    BY DEF Skip
  <1>7. ASSUME calm
        PROVE  OnCourse(q, rows, codes, Desired)
    <2>1. /\ p.desired \subseteq Desired /\ Desired \subseteq Assignment
          /\ \A s \in Slot : Taken(rows[s]) => Wants(Desired, rows[s])
          /\ \A s \in Slot : \A d \in Waiting(p) : Holds(p.view[s], d) => rows[s] = p.view[s]
          /\ \A s \in Slot : Taken(rows[s]) => Taken(p.view[s])
          /\ \A d \in Desired \ p.desired :
                Installed(d, rows, codes) \/ Excluded(d, p.view, rows)
      BY <1>2, <1>7, CalmFacts DEF Adding, Serving
    <2>2. Waiting(p) = p.desired /\ Waiting(q) = q.desired
      BY <1>2, <1>3 DEF Waiting, Serving
    <2> HIDE DEF q, want
    <2>3. Installed(want, rows, codes) \/ Excluded(want, p.view, rows)
      <3>1. CASE Existing(w) # {}
        <4> DEFINE s == Least(Existing(w))
        <4>1. s \in Slot /\ Holds(p.view[s], want)
          BY <1>5, <3>1, LeastIsOne
        <4>2. rows[s] = p.view[s] /\ rows[s].sync = "Synced"
          BY <1>4, <1>6, <2>1, <2>2, <3>1, <4>1
        <4>3. Holds(rows[s], want) /\ rows[s] # NoRow /\ rows[s].cred = want.cred
          BY <4>1, <4>2 DEF Holds, Taken
        <4>4. want.cred # Nobody
          BY <1>4, <2>1, NullAssumption DEF Assignment
        <4> HIDE DEF s
        <4>5. codes[s] = want.cred
          BY <1>1, <1>2, <4>1, <4>2, <4>3, <4>4 DEF Tells, Truthful
        <4>6. QED
          BY <4>1, <4>3, <4>5 DEF Installed
      <3>2. CASE Existing(w) = {}
        <4>1. \A s \in Slot : Taken(p.view[s])
          BY <1>6, <3>2 DEF FreeSlots
        <4>2. \A s \in Slot : ~Holds(p.view[s], want)
          BY <1>5, <3>2
        <4>3. \A s \in Slot : ~Holds(rows[s], want)
          BY <1>1, <1>2, <1>4, <4>2 DEF Knows, Adding, InHand, Serving
        <4>4. QED
          BY <4>1, <4>3 DEF Excluded
      <3>3. QED
        BY <3>1, <3>2
    <2>4. \A d \in Desired \ q.desired :
             Installed(d, rows, codes) \/ Excluded(d, q.view, rows)
      BY <1>3, <2>1, <2>3
    <2>5. Installs(q, rows, codes, Desired)
      BY <1>3, <2>1, <2>2, <2>4 DEF Installs, Serving, ReadBack
    <2>6. QED
      BY <1>3, <2>5, InstallsOnCourse DEF Adding
  <1>8. QED
    BY <1>2, <1>7, CalmPass

\* Of the rows that were read, only that of the user who is served gets out of date.
LEMMA MarkAddingCalm ==
    ASSUME OnePass, TypeInv, CalmInv, NEW w \in Pass, MarkAdding(w)
    PROVE  CalmInv'
  <1> DEFINE p == pass[w]
             want == Want(w)
             s == Least(Existing(w))
             q == [p EXCEPT !.at = "setting", !.slot = s, !.fresh = FALSE]
  <1>1. p \in PassRecord /\ GoodPass(p, rows) /\ rows \in Table
    BY DEF TypeInv, GoodPass
  <1>2. /\ p.at = "add" /\ p.desired # {} /\ Existing(w) # {} /\ Goes(w, q)
        /\ UNCHANGED <<people, codes, calm>> /\ rows' = Marked(rows, s, "Adding")
    BY DEF MarkAdding, ToAdd, At, UpdateSlotSyncStatus, Marked
  <1>3. s \in Slot /\ Holds(p.view[s], want)
    BY <1>2, LeastIsOne DEF Existing
  <1>4. want \in p.desired /\ want = First(p.desired)
    BY <1>1, <1>2, WantTyped, WantIsFirst DEF PassRecord
  <1>5. rows[s] # NoRow
    BY <1>1, <1>3 DEF GoodPass, Holds, Taken
  <1>6. /\ q.at = "setting" /\ q.view = p.view /\ q.desired = p.desired /\ q.slot = s
        /\ q.fresh = FALSE
    BY <1>1 DEF PassRecord
  <1> HIDE DEF q, s, want
  <1>7. /\ \A t \in Slot : t # s => rows'[t] = rows[t]
        /\ \A t \in Slot : Taken(rows'[t]) <=> Taken(rows[t])
        /\ \A t \in Slot : \A d : Holds(rows'[t], d) <=> Holds(rows[t], d)
        /\ \A t \in Slot : rows[t] # NoRow =>
              (Wants(Desired, rows'[t]) <=> Wants(Desired, rows[t]))
    <2>1. "Adding" \in SlotSyncStatus
      BY DEF SlotSyncStatus
    <2>2. rows \in Table /\ s \in Slot /\ rows[s] # NoRow
      BY <1>1, <1>3, <1>5
    <2>3. /\ \A t \in Slot : t # s => Marked(rows, s, "Adding")[t] = rows[t]
          /\ \A t \in Slot : Taken(Marked(rows, s, "Adding")[t]) <=> Taken(rows[t])
          /\ \A t \in Slot : \A d : Holds(Marked(rows, s, "Adding")[t], d) <=> Holds(rows[t], d)
      BY <2>1, <2>2, MarkedRows
    <2>4. \A t \in Slot : rows[t] # NoRow =>
             (Wants(Desired, Marked(rows, s, "Adding")[t]) <=> Wants(Desired, rows[t]))
      BY <2>1, <2>2, MarkedRows
    <2>5. QED
      BY <1>2, <2>3, <2>4
  <1>8. ASSUME calm
        PROVE  OnCourse(q, rows', codes, Desired)
    <2>1. /\ p.desired \subseteq Desired /\ Desired \subseteq Assignment
          /\ \A t \in Slot : Taken(rows[t]) => Wants(Desired, rows[t])
          /\ \A t \in Slot : \A d \in Waiting(p) : Holds(p.view[t], d) => rows[t] = p.view[t]
          /\ \A t \in Slot : Taken(rows[t]) => Taken(p.view[t])
          /\ \A d \in Desired \ p.desired :
                Installed(d, rows, codes) \/ Excluded(d, p.view, rows)
      BY <1>2, <1>8, CalmFacts DEF Adding, Serving
    <2>2. Waiting(p) = p.desired /\ Waiting(q) = p.desired \ {want}
      BY <1>2, <1>4, <1>6 DEF Waiting, Serving
    <2>3. Holds(rows'[s], want)
      BY <1>3, <1>4, <1>7, <2>1, <2>2
    <2>4. \A t \in Slot : Taken(rows'[t]) => Wants(Desired, rows'[t])
      BY <1>7, <2>1 DEF Taken
    <2>5. ASSUME NEW t \in Slot, NEW d \in Waiting(q), Holds(q.view[t], d)
          PROVE  rows'[t] = q.view[t]
      <3>1. d \in p.desired /\ d # want
        BY <2>2
      <3>2. t # s
        BY <1>3, <1>4, <1>6, <2>1, <2>5, <3>1, HoldsOne
      <3>3. QED
        BY <1>6, <1>7, <2>1, <2>2, <2>5, <3>1, <3>2
    <2>6. \A d \in Desired \ q.desired :
             Installed(d, rows', codes) \/ Excluded(d, q.view, rows')
      BY <1>6, <1>7, <2>1 DEF Installed, Excluded
    <2>7. \A t \in Slot : Taken(rows'[t]) => Taken(q.view[t])
      BY <1>6, <1>7, <2>1
    <2>8. Installs(q, rows', codes, Desired)
      BY <1>4, <1>6, <2>1, <2>3, <2>4, <2>5, <2>6, <2>7 DEF Installs, Serving, ReadBack
    <2>9. QED
      BY <1>6, <2>8, InstallsOnCourse DEF Adding, Serving
  <1>9. QED
    BY <1>2, <1>8, CalmPass

\* A slot that was free when the rows were read is free still.
LEMMA AllocateCalm ==
    ASSUME OnePass, TypeInv, CalmInv, NEW w \in Pass, Allocate(w)
    PROVE  CalmInv'
  <1> DEFINE p == pass[w]
             want == Want(w)
             s == Least(FreeSlots(p.view))
             row == [user |-> want.user, cred |-> want.cred, sync |-> "Synced"]
             q == [p EXCEPT !.at = "inserted", !.slot = s, !.fresh = TRUE]
  <1>1. p \in PassRecord /\ GoodPass(p, rows) /\ rows \in Table
    BY DEF TypeInv, GoodPass
  <1>2. p.at = "add" /\ p.desired # {} /\ UNCHANGED <<people, codes, calm>>
    BY DEF Allocate, ToAdd, At
  <1>3. s \in Slot /\ ~Taken(p.view[s])
    BY LeastIsOne DEF Allocate, FreeSlots
  <1>4. want \in p.desired /\ want = First(p.desired) /\ want.user \in User /\ want.cred \in Cred
    BY <1>1, <1>2, WantTyped, WantIsFirst DEF PassRecord
  <1>5. /\ q.at = "inserted" /\ q.view = p.view /\ q.desired = p.desired /\ q.slot = s
        /\ q.fresh = TRUE
    BY <1>1 DEF PassRecord
  <1>6. row \in Row /\ Taken(row) /\ Holds(row, want) /\ row.user = want.user /\ row.cred = want.cred
    BY <1>4, NullAssumption, NoRowAssumption DEF Row, SlotSyncStatus, Taken, Holds
  <1>7. CASE rows' = [rows EXCEPT ![s] = row] /\ Goes(w, q)
    <2> HIDE DEF q, s, row, want
    <2>1. \A t \in Slot : rows'[t] = IF t = s THEN row ELSE rows[t]
      BY <1>1, <1>7 DEF Table
    <2>2. ASSUME calm
          PROVE  OnCourse(q, rows', codes, Desired)
      <3>1. /\ p.desired \subseteq Desired
            /\ \A t \in Slot : Taken(rows[t]) => Wants(Desired, rows[t])
            /\ \A t \in Slot : \A d \in Waiting(p) : Holds(p.view[t], d) => rows[t] = p.view[t]
            /\ \A t \in Slot : Taken(rows[t]) => Taken(p.view[t])
            /\ \A d \in Desired \ p.desired :
                  Installed(d, rows, codes) \/ Excluded(d, p.view, rows)
        BY <1>2, <2>2, CalmFacts DEF Adding, Serving
      <3>2. Waiting(p) = p.desired /\ Waiting(q) = p.desired \ {want}
        BY <1>2, <1>4, <1>5 DEF Waiting, Serving
      <3>3. ~Taken(rows[s])
        BY <1>3, <3>1
      <3>4. Wants(Desired, row)
        BY <1>4, <1>6, <3>1 DEF Wants
      <3>5. \A t \in Slot : Taken(rows'[t]) => Wants(Desired, rows'[t])
        BY <2>1, <3>1, <3>4
      <3>6. \A t \in Slot : \A d \in Waiting(q) : Holds(q.view[t], d) => rows'[t] = q.view[t]
        BY <1>3, <1>5, <2>1, <3>1, <3>2 DEF Holds
      <3>7. \A t \in Slot : Taken(rows'[t]) => Taken(q.view[t]) \/ t = s
        BY <1>5, <2>1, <3>1
      <3>8. \A d \in Desired \ q.desired : Installed(d, rows', codes)
        <4>1. ASSUME NEW d \in Desired \ q.desired
              PROVE  Installed(d, rows', codes)
          <5>1. Installed(d, rows, codes)
            BY <1>3, <1>5, <3>1, <4>1 DEF Excluded
          <5>2. PICK t \in Slot : codes[t] = d.cred /\ Holds(rows[t], d)
            BY <5>1 DEF Installed
          <5>3. t # s
            BY <3>3, <5>2 DEF Holds
          <5>4. QED
            BY <2>1, <5>2, <5>3 DEF Installed
        <4>2. QED
          BY <4>1
      <3>9. Holds(rows'[s], First(q.desired))
        BY <1>3, <1>4, <1>5, <1>6, <2>1
      <3>10. Installs(q, rows', codes, Desired)
        BY <1>5, <3>1, <3>5, <3>6, <3>7, <3>8, <3>9 DEF Installs, Serving, ReadBack
      <3>11. QED
        BY <1>5, <3>10, InstallsOnCourse DEF Adding, Serving
    <2>3. QED
      BY <1>2, <1>7, <2>2, CalmPass
  <1>8. CASE Abort(w)
    BY <1>2, <1>8, IdleOnCourse, CalmPass DEF Abort
  <1>9. QED
    BY <1>7, <1>8 DEF Allocate

\* Another status for the row of the slot in hand changes nothing a pass relies on.
LEMMA StatusInstalls ==
    ASSUME NEW p, NEW q, NEW table \in Table, NEW lock, NEW wanted, wanted \subseteq Assignment,
           p.at \in Serving, p.slot \in Slot, table[p.slot] # NoRow, First(p.desired) \in p.desired,
           Installs(p, table, lock, wanted), NEW status \in SlotSyncStatus,
           q.at \in Serving, q.desired = p.desired, q.view = p.view, q.slot = p.slot,
           q.fresh = p.fresh, q.found = p.found, p.at # "inserted"
    PROVE  Installs(q, Marked(table, p.slot, status), lock, wanted)
  <1> DEFINE after == Marked(table, p.slot, status)
             want == First(p.desired)
  <1>1. /\ p.desired \subseteq wanted
        /\ \A s \in Slot : Taken(table[s]) => Wants(wanted, table[s])
        /\ \A s \in Slot : \A d \in p.desired \ {want} :
              Holds(p.view[s], d) => table[s] = p.view[s]
        /\ \A s \in Slot : Taken(table[s]) => Taken(p.view[s]) \/ (p.fresh /\ s = p.slot)
        /\ \A d \in wanted \ p.desired : Installed(d, table, lock) \/ Excluded(d, p.view, table)
        /\ Holds(table[p.slot], want)
        /\ p.fresh => Holds(p.found, want)
    BY DEF Installs, Adding, Waiting, ReadBack
  <1>2. /\ \A t \in Slot : t # p.slot => after[t] = table[t]
        /\ \A t \in Slot : Taken(after[t]) <=> Taken(table[t])
        /\ \A t \in Slot : \A d : Holds(after[t], d) <=> Holds(table[t], d)
    <2> DEFINE s == p.slot
    <2>1. s \in Slot /\ table[s] # NoRow
      OBVIOUS
    <2> HIDE DEF s
    <2>2. \A t \in Slot : t # s => Marked(table, s, status)[t] = table[t]
      BY <2>1, MarkedRows
    <2>3. \A t \in Slot : Taken(Marked(table, s, status)[t]) <=> Taken(table[t])
      BY <2>1, MarkedRows
    <2>4. ASSUME NEW t \in Slot, NEW d
          PROVE  Holds(Marked(table, s, status)[t], d) <=> Holds(table[t], d)
      BY <2>1, MarkedRows
    <2>5. QED
      BY <2>2, <2>3, <2>4 DEF s
  <1>3. \A t \in Slot : table[t] # NoRow => (Wants(wanted, after[t]) <=> Wants(wanted, table[t]))
    <2> DEFINE s == p.slot
    <2>1. s \in Slot /\ table[s] # NoRow
      OBVIOUS
    <2> HIDE DEF s
    <2>2. \A t \in Slot : table[t] # NoRow =>
            (Wants(wanted, Marked(table, s, status)[t]) <=> Wants(wanted, table[t]))
      BY <2>1, MarkedRows
    <2>3. QED
      BY <2>2 DEF s
  <1> HIDE DEF after, want
  <1>4. \A t \in Slot : Taken(after[t]) => Wants(wanted, after[t])
    BY <1>1, <1>2, <1>3 DEF Taken
  <1>5. ASSUME NEW t \in Slot, NEW d \in p.desired \ {want}, Holds(p.view[t], d)
        PROVE  after[t] = p.view[t]
    <2>1. table[t] = p.view[t] /\ d \in Assignment /\ want \in Assignment
      BY <1>1, <1>5 DEF want
    <2>2. t # p.slot
      BY <1>1, <1>5, <2>1, HoldsOne
    <2>3. QED
      BY <1>2, <2>1, <2>2
  <1>6. \A d \in wanted \ p.desired : Installed(d, after, lock) \/ Excluded(d, p.view, after)
    BY <1>1, <1>2 DEF Installed, Excluded
  <1>7. Waiting(q) = p.desired \ {want} /\ First(q.desired) = want
    BY DEF Waiting, want
  <1>8. Installs(q, after, lock, wanted)
    BY <1>1, <1>2, <1>4, <1>5, <1>6, <1>7 DEF Installs, Serving, ReadBack
  <1>9. QED
    BY <1>8 DEF after

\* A calm pass that serves somebody.
LEMMA ServingFacts ==
    ASSUME TypeInv, CalmInv, NEW w \in Pass, calm, pass[w].at \in Serving
    PROVE  /\ pass[w].slot \in Slot /\ rows[pass[w].slot] # NoRow /\ rows \in Table
           /\ First(pass[w].desired) \in pass[w].desired
           /\ Desired \subseteq Assignment
           /\ Installs(pass[w], rows, codes, Desired)
  <1>1. GoodPass(pass[w], rows) /\ OnCourse(pass[w], rows, codes, Desired)
    BY DEF TypeInv, CalmInv
  <1>2. Desired \subseteq Assignment
    BY DesiredTyped DEF TypeInv
  <1>3. QED
    BY <1>1, <1>2, FirstIsDesired DEF GoodPass, PassRecord, OnCourse, Busy, Serving, TypeInv

\* In a calm pass the row that is read back is the one that was written.
LEMMA GetSlotCalm ==
    ASSUME OnePass, TypeInv, CalmInv, NEW w \in Pass, GetSlot(w)
    PROVE  CalmInv'
  <1> DEFINE p == pass[w]
             q == [p EXCEPT !.at = "allocated", !.found = rows[p.slot]]
  <1>1. p \in PassRecord /\ p.at = "inserted" /\ "inserted" \in Serving
    BY DEF TypeInv, GoodPass, GetSlot, At, Serving
  <1>2. /\ q.at = "allocated" /\ q.view = p.view /\ q.desired = p.desired
        /\ q.slot = p.slot /\ q.fresh = p.fresh /\ q.found = rows[p.slot]
    BY <1>1 DEF PassRecord
  <1>3. Goes(w, q) /\ UNCHANGED <<people, rows, codes, calm>>
    BY DEF GetSlot
  <1> HIDE DEF q
  <1>4. ASSUME calm
        PROVE  OnCourse(q, rows, codes, Desired)
    <2>1. Installs(p, rows, codes, Desired)
      BY <1>1, <1>4, ServingFacts
    <2>2. Waiting(q) = Waiting(p)
      BY <1>1, <1>2 DEF Waiting, Serving
    <2>3. Installs(q, rows, codes, Desired)
      BY <1>1, <1>2, <2>1, <2>2 DEF Installs, Adding, Serving, ReadBack
    <2>4. QED
      BY <1>2, <2>3, InstallsOnCourse DEF Adding, Serving
  <1>5. QED
    BY <1>3, <1>4, CalmPass

LEMMA MarkAllocatedCalm ==
    ASSUME OnePass, TypeInv, CalmInv, NEW w \in Pass, MarkAllocated(w)
    PROVE  CalmInv'
  <1> DEFINE p == pass[w]
             q == [p EXCEPT !.at = "setting"]
  <1>1. p \in PassRecord
    BY DEF TypeInv, GoodPass
  <1>2. /\ p.at = "allocated" /\ Goes(w, q) /\ UNCHANGED <<people, codes, calm>>
        /\ rows' = Marked(rows, p.slot, "Adding")
    BY DEF MarkAllocated, At, UpdateSlotSyncStatus, Marked
  <1>3. /\ q.at = "setting" /\ q.view = p.view /\ q.desired = p.desired /\ q.slot = p.slot
        /\ q.fresh = p.fresh /\ q.found = p.found
    BY <1>1 DEF PassRecord
  <1>4. "Adding" \in SlotSyncStatus /\ "allocated" \in Serving /\ "setting" \in Serving
    BY DEF SlotSyncStatus, Serving
  <1> HIDE DEF q
  <1>5. ASSUME calm
        PROVE  OnCourse(q, rows', codes, Desired)
    <2>1. Installs(q, rows', codes, Desired)
      BY <1>2, <1>3, <1>4, <1>5, ServingFacts, StatusInstalls
    <2>2. QED
      BY <1>3, <2>1, InstallsOnCourse DEF Adding, Serving
  <1>6. QED
    BY <1>2, <1>5, CalmPass

\* The code that is set is that of the row of the slot in hand, so that nobody who is
\* served already loses one.
LEMMA SetSlotCodeCalm ==
    ASSUME OnePass, Gentle, TypeInv, CalmInv, NEW w \in Pass, SetSlotCode(w)
    PROVE  CalmInv'
  <1> DEFINE p == pass[w]
             want == Want(w)
  <1>1. p \in PassRecord /\ p.at = "setting" /\ UNCHANGED <<people, rows>>
    BY DEF TypeInv, GoodPass, SetSlotCode, At
  <1>2. PICK q : /\ Goes(w, q)
                 /\ calm' => /\ calm /\ q = [p EXCEPT !.at = "set"]
                             /\ codes' = [codes EXCEPT ![p.slot] = want.cred]
    BY DEF SetSlotCode, Command, Gentle, Abort
  <1>3. ASSUME calm'
        PROVE  OnCourse(q, rows', codes', Desired)
    <2>1. /\ q.at = "set" /\ q.view = p.view /\ q.desired = p.desired /\ q.slot = p.slot
          /\ q.fresh = p.fresh /\ q.found = p.found
      BY <1>1, <1>2, <1>3 DEF PassRecord
    <2>2. /\ p.slot \in Slot /\ First(p.desired) \in p.desired
          /\ Desired \subseteq Assignment /\ Installs(p, rows, codes, Desired)
      BY <1>1, <1>2, <1>3, ServingFacts DEF Serving
    <2>3. \A t \in Slot : t # p.slot => codes'[t] = codes[t]
      BY <1>2, <1>3 DEF TypeInv
    <2> HIDE DEF want
    <2>4. Waiting(q) = Waiting(p)
      BY <1>1, <2>1 DEF Waiting, Serving
    <2>5. /\ p.desired \subseteq Desired
          /\ \A s \in Slot : Taken(rows[s]) => Wants(Desired, rows[s])
          /\ \A s \in Slot : \A d \in Waiting(p) : Holds(p.view[s], d) => rows[s] = p.view[s]
          /\ \A s \in Slot : Taken(rows[s]) => Taken(p.view[s]) \/ (p.fresh /\ s = p.slot)
          /\ \A d \in Desired \ p.desired : Installed(d, rows, codes) \/ Excluded(d, p.view, rows)
          /\ Holds(rows[p.slot], First(p.desired))
          /\ p.fresh => Holds(p.found, First(p.desired))
      BY <1>1, <2>2 DEF Installs, Adding, Serving, ReadBack
    <2>6. ASSUME NEW d \in Desired \ p.desired, Installed(d, rows, codes)
          PROVE  Installed(d, rows, codes')
      <3>1. PICK s \in Slot : codes[s] = d.cred /\ Holds(rows[s], d)
        BY <2>6 DEF Installed
      <3>2. s # p.slot
        BY <2>2, <2>5, <2>6, <3>1, HoldsOne
      <3>3. QED
        BY <2>3, <3>1, <3>2 DEF Installed
    <2>7. Installs(q, rows, codes', Desired)
      BY <2>1, <2>4, <2>5, <2>6 DEF Installs, Serving, ReadBack
    <2>8. QED
      BY <1>1, <2>1, <2>7, InstallsOnCourse DEF Adding, Serving
  <1>4. QED
    BY <1>1, <1>2, <1>3, CalmPass

\* The user who was served has a code now.
LEMMA MarkSetCalm ==
    ASSUME OnePass, TypeInv, SyncInv, CalmInv, NEW w \in Pass, MarkSet(w)
    PROVE  CalmInv'
  <1> DEFINE p == pass[w]
             s == p.slot
             want == Want(w)
             next == [p EXCEPT !.at = "add", !.desired = @ \ {want},
                               !.slot = 0, !.fresh = FALSE, !.found = NoRow]
             found == p.found
             full == [next EXCEPT !.view[s] = found]
             q == IF p.fresh THEN full ELSE next
  <1>1. p \in PassRecord /\ p.view \in Table /\ Tells(p, rows, codes) /\ GoodPass(p, rows)
    BY DEF TypeInv, GoodPass, PassRecord, SyncInv
  <1>2. UNCHANGED <<people, codes, calm>> /\ p.at \in {"set", "setRefused"}
    BY DEF MarkSet, At
  <1>3. CASE p.at = "setRefused"
    <2>1. ~calm'
      BY <1>2, <1>3 DEF CalmInv, OnCourse
    <2>2. \E r : Goes(w, r)
      BY DEF MarkSet
    <2>3. QED
      BY <1>2, <2>1, <2>2, CalmPass
  <1>4. CASE p.at = "set"
    <2>1. Goes(w, q) /\ rows' = Marked(rows, s, "Synced")
      BY <1>4 DEF MarkSet, At, UpdateSlotSyncStatus, Marked
    <2>2. next.at = "add" /\ next.view = p.view /\ next.desired = p.desired \ {want}
      BY <1>1 DEF PassRecord
    <2>3. full.at = "add" /\ full.desired = p.desired \ {want}
      BY <1>1 DEF PassRecord
    <2>4. s \in Slot /\ rows[s] # NoRow /\ rows \in Table
      BY <1>1, <1>4 DEF GoodPass, Busy, TypeInv
    <2>5. \A t \in Slot : full.view[t] = IF t = s THEN found ELSE p.view[t]
      BY <1>1, <2>4 DEF PassRecord, Table
    <2>6. want = First(p.desired)
      BY WantIsFirst
    <2>7. codes[s] = want.cred
      BY <1>1, <1>4, <2>6 DEF Tells
    <2>8. ReadBack(p) <=> p.fresh
      BY <1>4 DEF ReadBack, Serving
    <2> HIDE DEF s, want, next, full, found
    <2>9. q.at = "add" /\ q.desired = p.desired \ {want}
      BY <2>2, <2>3
    <2>10. \A t \in Slot : q.view[t] = IF p.fresh /\ t = s THEN found ELSE p.view[t]
      BY <2>2, <2>5
    <2> HIDE DEF q
    <2>11. ASSUME calm
           PROVE  OnCourse(q, rows', codes, Desired)
      <3>1. /\ want \in p.desired /\ Desired \subseteq Assignment
            /\ Installs(p, rows, codes, Desired)
        BY <1>4, <2>6, <2>11, ServingFacts DEF Serving
      <3>2. /\ p.desired \subseteq Desired
            /\ \A t \in Slot : Taken(rows[t]) => Wants(Desired, rows[t])
            /\ \A t \in Slot : \A d \in p.desired \ {want} :
                  Holds(p.view[t], d) => rows[t] = p.view[t]
            /\ \A t \in Slot : Taken(rows[t]) => Taken(p.view[t]) \/ (p.fresh /\ t = s)
            /\ \A d \in Desired \ p.desired :
                  Installed(d, rows, codes) \/ Excluded(d, p.view, rows)
            /\ Holds(rows[s], want)
            /\ p.fresh => Holds(found, want)
        BY <1>4, <2>6, <2>8, <3>1 DEF Installs, Adding, Serving, Waiting, s, found
      <3>3. want \in Assignment /\ want.user \in User /\ want.cred \in Cred
        BY <3>1, <3>2 DEF Assignment
      <3>4. p.fresh => Taken(found) /\ Holds(found, want)
        BY <3>2 DEF Holds
      <3>5. "Synced" \in SlotSyncStatus
        BY DEF SlotSyncStatus
      <3>6. /\ \A t \in Slot : t # s => rows'[t] = rows[t]
            /\ \A t \in Slot : Taken(rows'[t]) <=> Taken(rows[t])
            /\ \A t \in Slot : \A d : Holds(rows'[t], d) <=> Holds(rows[t], d)
        BY <2>1, <2>4, <3>5, MarkedRows
      <3>7. \A t \in Slot : rows[t] # NoRow =>
               (Wants(Desired, rows'[t]) <=> Wants(Desired, rows[t]))
        BY <2>1, <2>4, <3>5, MarkedRows
      <3>8. \A t \in Slot : Taken(rows'[t]) => Wants(Desired, rows'[t])
        BY <3>2, <3>6, <3>7 DEF Taken
      <3>9. ASSUME NEW t \in Slot, NEW d \in q.desired, Holds(q.view[t], d)
            PROVE  rows'[t] = q.view[t]
        <4>1. d \in p.desired \ {want} /\ d \in Assignment
          BY <2>9, <3>1, <3>2
        <4>2. ~(p.fresh /\ t = s)
          BY <2>10, <3>3, <3>4, <3>9, <4>1, HoldsOne
        <4>3. q.view[t] = p.view[t] /\ rows[t] = p.view[t]
          BY <2>10, <3>2, <3>9, <4>1, <4>2
        <4>4. t # s
          BY <3>2, <3>3, <3>9, <4>1, <4>3, HoldsOne
        <4>5. QED
          BY <3>6, <4>3, <4>4
      <3>10. \A t \in Slot : Taken(rows'[t]) => Taken(q.view[t])
        BY <2>10, <3>2, <3>4, <3>6
      <3>11. \A d \in Desired \ q.desired :
                Installed(d, rows', codes) \/ Excluded(d, q.view, rows')
        <4>1. ASSUME NEW d \in Desired \ p.desired
              PROVE  Installed(d, rows', codes) \/ Excluded(d, q.view, rows')
          BY <2>10, <3>2, <3>4, <3>6 DEF Installed, Excluded
        <4>2. Installed(want, rows', codes)
          BY <2>4, <2>7, <3>2, <3>6 DEF Installed
        <4>3. QED
          BY <2>9, <4>1, <4>2
      <3>12. Waiting(q) = q.desired
        BY <2>9 DEF Waiting, Serving
      <3>13. Installs(q, rows', codes, Desired)
        BY <2>9, <3>2, <3>8, <3>9, <3>10, <3>11, <3>12 DEF Installs, Serving, ReadBack
      <3>14. QED
        BY <2>9, <3>13, InstallsOnCourse DEF Adding
    <2>12. QED
      BY <1>2, <2>1, <2>11, CalmPass
  <1>5. QED
    BY <1>2, <1>3, <1>4

LEMMA CalmNext ==
    ASSUME OnePass, Gentle, TypeInv, OwnInv, CodeInv, SyncInv, CalmInv, [Next]_vars
    PROVE  CalmInv'
  <1>1. CASE Next
    <2>1. ~Crash
      BY DEF Gentle, Crash
    <2>2. ASSUME NEW w \in Pass, Step(w)
          PROVE  CalmInv'
      <3>1. CASE Finish(w)
        BY <3>1, IdleOnCourse, CalmPass DEF Finish, Abort
      <3>2. QED
        BY <2>2, <3>1, RemoveCalm, RefreshCalm, SkipCalm, MarkAddingCalm, AllocateCalm, GetSlotCalm,
           MarkAllocatedCalm, SetSlotCodeCalm, MarkSetCalm DEF Step
    <2>3. CASE Administration
      <3>1. calm' = FALSE
        BY <2>3, AdministrationSync
      <3>2. QED
        BY <3>1 DEF CalmInv
    <2>4. QED
      BY <1>1, <2>1, <2>2, <2>3 DEF Next
  <1>2. CASE UNCHANGED vars
    <2>1. Desired' = Desired
      BY <1>2, SameDesired DEF vars
    <2>2. QED
      BY <1>2, <2>1 DEF vars, CalmInv
  <1>3. QED
    BY <1>1, <1>2

\* Nobody is excluded who has a row, so whoever has a taken row has its code there.
LEMMA RowsInstalled ==
    ASSUME TypeInv, OneSlotPerCredential, Desired \subseteq Assignment,
           NEW view, NEW s \in Slot, Taken(rows[s]),
           Wants(Desired, rows[s]),
           \A d \in Desired : Installed(d, rows, codes) \/ Excluded(d, view, rows)
    PROVE  \E d \in Desired : Holds(rows[s], d) /\ codes[s] = d.cred
  <1>1. PICK d \in Desired : Holds(rows[s], d)
    BY DEF Wants, Holds
  <1>2. PICK t \in Slot : codes[t] = d.cred /\ Holds(rows[t], d)
    BY <1>1 DEF Installed, Excluded
  <1>3. d.cred # Nobody
    BY NullAssumption DEF Assignment
  <1>4. s = t
    BY <1>1, <1>2, <1>3 DEF OneSlotPerCredential, Holds, Taken
  <1>5. QED
    BY <1>1, <1>2, <1>4

\* When every slot is taken by somebody who is installed there, so many are installed.
LEMMA FullLock ==
    ASSUME OneSlotPerCredential, NEW wanted, wanted \subseteq Assignment,
           \A s \in Slot : \E d \in wanted : Holds(rows[s], d) /\ codes[s] = d.cred
    PROVE  Cardinality({d \in wanted : Installed(d, rows, codes)}) = MaxSlot
  <1> DEFINE T == {d \in wanted : Installed(d, rows, codes)}
             f == [s \in Slot |-> CHOOSE d \in wanted : Holds(rows[s], d) /\ codes[s] = d.cred]
  <1>1. \A s \in Slot : f[s] \in wanted /\ Holds(rows[s], f[s]) /\ codes[s] = f[s].cred
    OBVIOUS
  <1>2. f \in [Slot -> T]
    BY <1>1 DEF Installed
  <1>3. ASSUME NEW s \in Slot, NEW t \in Slot, f[s] = f[t]
        PROVE  s = t
    <2>1. f[s].cred # Nobody
      BY <1>1, NullAssumption DEF Assignment
    <2>2. QED
      BY <1>1, <1>3, <2>1 DEF OneSlotPerCredential, Holds, Taken
  <1>4. ASSUME NEW d \in T
        PROVE  \E s \in Slot : f[s] = d
    <2>1. PICK s \in Slot : Holds(rows[s], d)
      BY DEF Installed
    <2>2. f[s] = d
      BY <1>1, <2>1, HoldsOne
    <2>3. QED
      BY <2>2
  <1> HIDE DEF f, T
  <1>5. f \in Bijection(Slot, T)
    BY <1>2, <1>3, <1>4 DEF Bijection, Injection, Surjection, IsInjective
  <1>6. IsFiniteSet(Slot) /\ Cardinality(Slot) = MaxSlot
    BY SlotAssumption, FS_Interval DEF Slot
  <1>7. Cardinality(T) = Cardinality(Slot)
    BY <1>5, <1>6, FS_Bijection DEF ExistsBijection
  <1>8. QED
    BY <1>6, <1>7 DEF T

LEMMA FinishReconciles ==
    ASSUME TypeInv, OwnInv, CodeInv, CalmInv, NEW w \in Pass, Finish(w), calm
    PROVE  Reconciled
  <1> DEFINE p == pass[w]
             installed == {d \in Desired : Installed(d, rows, codes)}
  <1>1. p.at = "add" /\ p.desired = {}
    BY DEF Finish, At
  <1>2. /\ Desired \subseteq Assignment
        /\ \A s \in Slot : Taken(rows[s]) => Wants(Desired, rows[s])
        /\ \A d \in Desired : Installed(d, rows, codes) \/ Excluded(d, p.view, rows)
    BY <1>1, CalmFacts DEF Adding
  <1>3. OneSlotPerCredential
    BY DEF OwnInv
  <1>4. \A s \in Slot : Taken(rows[s]) =>
            \E d \in Desired : Holds(rows[s], d) /\ codes[s] = d.cred
    BY <1>2, <1>3, RowsInstalled
  <1>5. ASSUME NEW s \in Slot, codes[s] # NoCode
        PROVE  \E d \in installed : d.cred = codes[s]
    <2>1. rows[s] # NoRow /\ rows[s].user = Owner[codes[s]] /\ codes[s] \in Cred
      BY <1>5 DEF CodeInv, CodesKnown, TypeInv
    <2>2. Taken(rows[s])
      BY <2>1, OwnerAssumption, NullAssumption DEF Taken
    <2>3. QED
      BY <1>4, <2>2 DEF Installed
  <1>6. installed = Desired \/ Cardinality(installed) = MaxSlot
    <2>1. CASE \A d \in Desired : Installed(d, rows, codes)
      BY <2>1
    <2>2. CASE \E d \in Desired : Excluded(d, p.view, rows)
      <3>1. \A s \in Slot : Taken(p.view[s])
        BY <2>2 DEF Excluded
      <3>2. \A s \in Slot : rows[s] # NoRow /\ rows[s].user = p.view[s].user
        BY <1>1, <3>1 DEF CodeInv, Trusts, Adding, TypeInv, GoodPass, Taken
      <3>3. \A s \in Slot : Taken(rows[s])
        BY <3>1, <3>2 DEF Taken
      <3>4. QED
        BY <1>2, <1>3, <1>4, <3>3, FullLock
    <2>3. QED
      BY <1>2, <2>1, <2>2
  <1>7. QED
    BY <1>5, <1>6 DEF Reconciled, Installed

\* What the proof needs of an execution: nothing was swallowed, revoked, deleted or
\* stopped before the pass.  Each of these leaves what no later pass puts right: a
\* Synced row without a code (a stop does after AllocateSlotAsync, which says Synced
\* before anything is sent), or a code without a row.
GentleFaults == \A f \in Faults : f \subseteq {"refuse", "throw"}

\* A pass that nothing disturbs from its start to its end leaves the lock with the
\* codes of the desired users and no others, as far as its slots go, whatever codes
\* and rows refused or broken passes have left before it: for any number of users,
\* credentials and slots, when one reconciliation runs at a time and commands are
\* refused or throw but are not swallowed.
THEOREM PassesReconcile ==
    ASSUME OnePass, GentleFaults
    PROVE  Spec => PassReconciles
  <1> DEFINE IInv == TypeInv /\ OwnInv /\ CodeInv /\ SyncInv /\ CalmInv
  <1>1. Init => IInv
    BY TypeInit, OwnInit, CodeInit, SyncInit, CalmInit
  <1>2. TypeInv => Gentle /\ Careful
    BY DEF TypeInv, GentleFaults, Gentle, Careful
  <1>3. IInv /\ [Next]_vars => IInv'
    BY <1>2, TypeNext, OwnNext, CodeNext, SyncNext, CalmNext
  <1>4. IInv /\ [Next]_vars => [\A w \in Pass : Finish(w) /\ calm => Reconciled]_vars
    BY FinishReconciles
  <1>5. QED
    BY <1>1, <1>3, <1>4, PTL DEF Spec, PassReconciles
=============================================================================
