--------------------------- MODULE ViewersProofs ---------------------------
(***************************************************************************)
(* The safety properties of Viewers, proved for any number of addresses,   *)
(* rows and calls, with errors and crashes at any time.  CallOK is what a  *)
(* call may rely on between its read and its write, OneRow what the unique *)
(* index gives; Settled says of an address with a settled decision that no *)
(* call is left that decided otherwise.                                    *)
(***************************************************************************)
EXTENDS Viewers, TLAPS

\* A call past its read knows its address, and the row is of that address.
CallOK ==
    \A c \in Calls :
        /\ call[c].pc = "idle" => call[c] = Idle
        /\ call[c].pc # "idle" => call[c].email \in Emails
        /\ call[c].pc \in {"idle", "InviteWrite"} \/ call[c].id # None
        /\ call[c].id # None => call[c].id \in Created /\ viewer[call[c].id].email = call[c].email

\* The index: no two rows of one address.
OneRow == \A i, j \in Created : viewer[i].email = viewer[j].email => i = j

WellFormed == TypeOK /\ CallOK /\ OneRow

Settled ==
    /\ \A e \in barred : ~Inviting(e)
    /\ \A e \in welcome : ~Revoking(e)

Active(i) == viewer[i].activatedAt /\ viewer[i].password

\* A password and activatedAt are written together, before any session.
ActivatedOK ==
    /\ \A i \in Created : viewer[i].password <=> viewer[i].activatedAt
    /\ \A c \in Calls : call[c].pc \in {"ActivateSession", "LoginSession"} => Active(call[c].id)

-----------------------------------------------------------------------------
(* Types, calls and the index *)

LEMMA Constants == None \notin Ids /\ None \notin Emails /\ None \notin Row
BY ViewersAssumption

LEMMA InitWellFormed == Init => WellFormed
BY Constants DEF Init, WellFormed, TypeOK, CallOK, OneRow, Created, Call, Idle

\* A step writes one row, of the address it had or of a new address, and
\* takes none away.
RowsKept ==
    /\ Created \subseteq Created'
    /\ \A i \in Created : viewer'[i].email = viewer[i].email

\* What changing one row by a function of the row leaves of the table.
LEMMA UpdateRow ==
    ASSUME TypeOK, NEW i \in Created, NEW r \in Row, r.email = viewer[i].email,
           viewer' = [viewer EXCEPT ![i] = r]
    PROVE  /\ viewer' \in [Ids -> Row \cup {None}]
           /\ Created' = Created
           /\ RowsKept
           /\ OneRow => OneRow'
<1>1. i \in Ids /\ viewer \in [Ids -> Row \cup {None}]
  BY DEF TypeOK, Created
<1>2. viewer' \in [Ids -> Row \cup {None}]
  BY <1>1
<1>3. Created' = Created
  BY <1>1, Constants DEF Created
<1>4. \A j \in Created : viewer'[j].email = viewer[j].email
  BY <1>1 DEF Created
<1>5. QED  BY <1>2, <1>3, <1>4 DEF RowsKept, OneRow

\* What a new row leaves of the table.
LEMMA CreateRow ==
    ASSUME TypeOK, OneRow, NEW i \in Ids \ Created, NEW r \in Row, EmailUnique(r.email),
           viewer' = [viewer EXCEPT ![i] = r]
    PROVE  /\ viewer' \in [Ids -> Row \cup {None}]
           /\ Created' = Created \cup {i}
           /\ RowsKept
           /\ OneRow'
<1>1. viewer \in [Ids -> Row \cup {None}]
  BY DEF TypeOK
<1>2. viewer' \in [Ids -> Row \cup {None}]
  BY <1>1
<1>3. Created' = Created \cup {i}
  BY <1>1, Constants DEF Created
<1>4. \A j \in Created : viewer'[j] = viewer[j]
  BY <1>1 DEF Created
<1>5. viewer'[i] = r
  BY <1>1
<1>6. \A j \in Created : viewer[j].email # r.email
  BY DEF EmailUnique, RowsOf
<1>7. OneRow'
  BY <1>3, <1>4, <1>5, <1>6 DEF OneRow
<1>8. QED  BY <1>2, <1>3, <1>4, <1>7 DEF RowsKept

\* Rows that are kept keep what is known of them.
LEMMA KeptTypes ==
    ASSUME TypeOK, RowsKept, viewer' \in [Ids -> Row \cup {None}], UNCHANGED <<links, sessions>>,
           call' \in [Calls -> Call], barred' \subseteq Emails, welcome' \subseteq Emails
    PROVE  TypeOK'
BY DEF TypeOK, RowsKept

LEMMA SameTable ==
    ASSUME TypeOK, UNCHANGED viewer
    PROVE  /\ viewer' \in [Ids -> Row \cup {None}]
           /\ Created' = Created
           /\ RowsKept
           /\ OneRow => OneRow'
BY DEF TypeOK, RowsKept, Created, OneRow

\* The other calls go on as they were when one of them takes a step.
LEMMA StepCall ==
    ASSUME TypeOK, CallOK, RowsKept, NEW c \in Calls, NEW k \in Call,
           k.pc = "idle" => k = Idle, k.pc # "idle" => k.email \in Emails,
           k.pc \in {"idle", "InviteWrite"} \/ k.id # None,
           k.id # None => k.id \in Created' /\ viewer'[k.id].email = k.email,
           call' = [call EXCEPT ![c] = k]
    PROVE  call' \in [Calls -> Call] /\ CallOK'
<1>1. call \in [Calls -> Call]
  BY DEF TypeOK
<1>2. ASSUME NEW d \in Calls, d # c PROVE
        /\ call'[d] = call[d]
        /\ call[d].id # None => call[d].id \in Created' /\ viewer'[call[d].id].email = call[d].email
  BY <1>1, <1>2 DEF CallOK, RowsKept
<1>3. call'[c] = k
  BY <1>1
<1>4. call' \in [Calls -> Call]
  BY <1>1
<1>5. QED  BY <1>2, <1>3, <1>4 DEF CallOK

\* An answered call is idle.
LEMMA ReturnCall ==
    ASSUME TypeOK, CallOK, RowsKept, NEW c \in Calls, Return(c)
    PROVE  call' \in [Calls -> Call] /\ CallOK'
<1>1. Idle \in Call /\ Idle.pc = "idle" /\ Idle.id = None
  BY DEF Call, Idle
<1>2. QED  BY <1>1, StepCall DEF Return

\* A call that goes on to another await keeps its address and its row.
LEMMA GotoCall ==
    ASSUME TypeOK, CallOK, RowsKept, NEW c \in Calls, call[c].pc # "idle", call[c].id # None,
           NEW pc \in {"InviteAudit", "RevokeAudit", "ActivateSession"}, Goto(c, pc)
    PROVE  call' \in [Calls -> Call] /\ CallOK'
<1> DEFINE k == [call[c] EXCEPT !.pc = pc]
<1>1. call[c] \in Call
  BY DEF TypeOK
<1>2. k \in Call /\ k.pc = pc /\ k.id = call[c].id /\ k.email = call[c].email
  BY <1>1 DEF Call
<1>3. /\ call[c].email \in Emails
      /\ call[c].id \in Created' /\ viewer'[call[c].id].email = call[c].email
  BY DEF CallOK, RowsKept
<1>4. call' = [call EXCEPT ![c] = k]
  BY DEF Goto
<1> HIDE DEF k
<1>5. QED  BY <1>2, <1>3, <1>4, StepCall

\* A call that starts has read the row it names.
LEMMA BeginCall ==
    ASSUME TypeOK, CallOK, UNCHANGED viewer, NEW c \in Calls, NEW e \in Emails,
           NEW i \in Created \cup {None}, i # None => viewer[i].email = e,
           NEW pc \in {"InviteWrite", "RevokeWrite", "ActivateWrite", "LoginSession"},
           pc = "InviteWrite" \/ i # None,
           call' = [call EXCEPT ![c] = [pc |-> pc, id |-> i, email |-> e]]
    PROVE  call' \in [Calls -> Call] /\ CallOK'
<1> DEFINE k == [pc |-> pc, id |-> i, email |-> e]
<1>1. k \in Call /\ k.pc = pc /\ k.id = i /\ k.email = e
  BY DEF Call, Created
<1>2. Created' = Created /\ RowsKept
  BY SameTable
<1>3. i # None => i \in Created' /\ viewer'[i].email = e
  BY <1>2
<1> HIDE DEF k
<1>4. call' = [call EXCEPT ![c] = k]
  BY DEF k
<1>5. QED  BY <1>1, <1>2, <1>3, <1>4, StepCall

\* A call that is about to mail names the row it has written.
LEMMA MailCall ==
    ASSUME TypeOK, CallOK, RowsKept, NEW c \in Calls, call[c].pc # "idle",
           NEW i \in Created', viewer'[i].email = call[c].email, Mailing(c, i)
    PROVE  call' \in [Calls -> Call] /\ CallOK'
<1> DEFINE k == [call[c] EXCEPT !.pc = "InviteMail", !.id = i]
<1>1. call[c] \in Call /\ i \in Ids /\ i # None
  BY Constants DEF TypeOK, Created
<1>2. k \in Call /\ k.pc = "InviteMail" /\ k.id = i /\ k.email = call[c].email
  BY <1>1 DEF Call
<1>3. call[c].email \in Emails
  BY DEF CallOK
<1>4. call' = [call EXCEPT ![c] = k]
  BY DEF Mailing
<1> HIDE DEF k
<1>5. QED  BY <1>1, <1>2, <1>3, <1>4, StepCall

LEMMA WellFormedStep == ASSUME WellFormed, [Next]_vars PROVE WellFormed'
<1>wf. TypeOK /\ CallOK /\ OneRow
  BY DEF WellFormed
<1>rows. \A i \in Created : i \in Ids /\ i # None /\ viewer[i] \in Row /\ viewer[i].email \in Emails
  BY <1>wf, Constants DEF TypeOK, Created, Row
<1>links. links \subseteq Created /\ sessions \subseteq Created /\ barred \subseteq Emails /\ welcome \subseteq Emails
  BY <1>wf DEF TypeOK
<1>ids. \A c \in Calls : call[c].pc # "idle" =>
          /\ call[c].email \in Emails
          /\ call[c].pc # "InviteWrite" => call[c].id \in Created /\ call[c].id # None
          /\ call[c].id # None => call[c].id \in Created /\ viewer[call[c].id].email = call[c].email
  BY <1>wf DEF CallOK
<1> DEFINE Table == viewer' \in [Ids -> Row \cup {None}] /\ RowsKept /\ OneRow'
<1>same. UNCHANGED viewer => Table /\ Created' = Created
  BY <1>wf, SameTable
\* A step that leaves links and sessions alone.
<1>typed. ASSUME Table, call' \in [Calls -> Call], CallOK', UNCHANGED <<links, sessions>>,
                 barred' \subseteq Emails, welcome' \subseteq Emails
          PROVE  WellFormed'
  BY <1>typed, <1>wf, KeptTypes DEF WellFormed
<1> HIDE DEF Table
<1>ret. ASSUME NEW c \in Calls, Return(c), UNCHANGED <<viewer, links, sessions, barred, welcome>>
        PROVE  WellFormed'
  <2>1. Table
    BY <1>ret, <1>same
  <2>2. call' \in [Calls -> Call] /\ CallOK'
    BY <1>ret, <1>wf, <2>1, ReturnCall DEF Table
  <2>3. QED  BY <1>ret, <1>links, <2>1, <2>2, <1>typed
<1>1. ASSUME NEW c \in Calls, NEW e \in Emails, InviteRead(c, e) PROVE WellFormed'
  <2>1. PICK i \in Created \cup {None} :
            /\ i # None => viewer[i].email = e
            /\ call' = [call EXCEPT ![c] = [pc |-> "InviteWrite", id |-> i, email |-> e]]
    BY <1>1 DEF InviteRead, RowsOf
  <2>2. UNCHANGED <<viewer, links, sessions, welcome>> /\ barred' \subseteq barred
    BY <1>1 DEF InviteRead
  <2>3. call' \in [Calls -> Call] /\ CallOK'
    BY <1>wf, <2>1, <2>2, BeginCall
  <2>4. QED  BY <2>2, <2>3, <1>same, <1>typed, <1>links
<1>2. ASSUME NEW c \in Calls, InviteUpdate(c) PROVE WellFormed'
  <2> DEFINE i == call[c].id
             r == Reinstated(viewer[i])
  <2>1. call[c].pc = "InviteWrite" /\ i \in Created /\ viewer[i].email = call[c].email
    BY <1>2, <1>ids DEF InviteUpdate
  <2>2. r \in Row /\ r.email = viewer[i].email
    BY <2>1, <1>rows DEF Reinstated, Row
  <2>3. viewer' = [viewer EXCEPT ![i] = r] /\ Mailing(c, i) /\ Invited(call[c].email)
    BY <1>2 DEF InviteUpdate
  <2>4. UNCHANGED <<links, sessions, barred>>
    BY <1>2 DEF InviteUpdate
  <2> HIDE DEF i, r
  <2>5. Table /\ i \in Created' /\ viewer'[i].email = call[c].email
    BY <1>wf, <2>1, <2>2, <2>3, UpdateRow DEF Table, RowsKept
  <2>6. call' \in [Calls -> Call] /\ CallOK'
    BY <1>wf, <2>1, <2>3, <2>5, MailCall DEF Table
  <2>7. welcome' \subseteq Emails
    BY <2>1, <2>3, <1>ids, <1>links DEF Invited
  <2>8. QED  BY <2>4, <2>5, <2>6, <2>7, <1>typed, <1>links
<1>3. ASSUME NEW c \in Calls, InviteCreate(c) PROVE WellFormed'
  <2> DEFINE e == call[c].email
             r == [email |-> e, password |-> FALSE, activatedAt |-> FALSE, revokedAt |-> FALSE]
  <2>1. call[c].pc = "InviteWrite" /\ e \in Emails /\ EmailUnique(e)
    BY <1>3, <1>ids DEF InviteCreate
  <2>2. PICK i \in Ids \ Created : viewer' = [viewer EXCEPT ![i] = r] /\ Mailing(c, i)
    BY <1>3 DEF InviteCreate
  <2>3. r \in Row /\ r.email = e
    BY <2>1 DEF Row
  <2>4. UNCHANGED <<links, sessions, barred>> /\ Invited(e)
    BY <1>3 DEF InviteCreate
  <2> HIDE DEF e, r
  <2>5. Table /\ i \in Created'
    BY <1>wf, <2>1, <2>2, <2>3, CreateRow DEF Table
  <2>6. viewer'[i].email = e
    BY <1>wf, <2>2, <2>3 DEF TypeOK
  <2>7. call' \in [Calls -> Call] /\ CallOK'
    BY <1>wf, <2>1, <2>2, <2>5, <2>6, MailCall DEF Table, e
  <2>8. welcome' \subseteq Emails
    BY <2>1, <2>4, <1>links DEF Invited
  <2>9. QED  BY <2>4, <2>5, <2>7, <2>8, <1>typed, <1>links
<1>4. ASSUME NEW c \in Calls, InviteRefused(c) PROVE WellFormed'
  BY <1>4, <1>ret DEF InviteRefused
<1>5. ASSUME NEW c \in Calls, InviteMail(c) PROVE WellFormed'
  <2>1. call[c].pc = "InviteMail" /\ Goto(c, "InviteAudit") /\ UNCHANGED viewer
    BY <1>5 DEF InviteMail
  <2>2. Table /\ Created' = Created
    BY <2>1, <1>same
  <2>3. call' \in [Calls -> Call] /\ CallOK'
    BY <1>wf, <1>ids, <2>1, <2>2, GotoCall DEF Table
  <2>4. links' \subseteq Created' /\ sessions' \subseteq Created'
    BY <1>5, <1>ids, <1>links, <2>1, <2>2 DEF InviteMail
  <2>5. UNCHANGED <<barred, welcome>>
    BY <1>5 DEF InviteMail
  <2>6. QED  BY <2>2, <2>3, <2>4, <2>5, <1>links DEF Table, WellFormed, TypeOK
<1>6. ASSUME NEW c \in Calls, NEW i \in Ids, RevokeRead(c, i) PROVE WellFormed'
  <2>1. i \in Created /\ UNCHANGED <<viewer, links, sessions, barred>> /\ welcome' \subseteq welcome
    BY <1>6 DEF RevokeRead
  <2>2. call' = [call EXCEPT ![c] = [pc |-> "RevokeWrite", id |-> i, email |-> viewer[i].email]]
    BY <1>6 DEF RevokeRead
  <2>3. call' \in [Calls -> Call] /\ CallOK'
    BY <1>wf, <1>rows, <2>1, <2>2, BeginCall
  <2>4. QED  BY <2>1, <2>3, <1>same, <1>typed, <1>links
<1>7. ASSUME NEW c \in Calls, RevokeWrite(c) PROVE WellFormed'
  <2> DEFINE i == call[c].id
             r == [viewer[i] EXCEPT !.revokedAt = TRUE]
  <2>1. call[c].pc = "RevokeWrite" /\ i \in Created /\ i # None
    BY <1>7, <1>ids DEF RevokeWrite
  <2>2. r \in Row /\ r.email = viewer[i].email
    BY <2>1, <1>rows DEF Row
  <2>3. viewer' = [viewer EXCEPT ![i] = r] /\ Goto(c, "RevokeAudit") /\ UNCHANGED <<links, sessions, welcome>>
    BY <1>7 DEF RevokeWrite
  <2>4. barred' \subseteq Emails
    BY <1>7, <2>1, <1>ids, <1>links DEF RevokeWrite
  <2> HIDE DEF r
  <2>5. Table
    BY <1>wf, <2>1, <2>2, <2>3, UpdateRow DEF Table
  <2>6. call' \in [Calls -> Call] /\ CallOK'
    BY <1>wf, <2>1, <2>3, <2>5, GotoCall DEF Table
  <2>7. QED  BY <2>3, <2>4, <2>5, <2>6, <1>typed, <1>links
<1>8. ASSUME NEW c \in Calls, NEW i \in Ids, ActivateRead(c, i) PROVE WellFormed'
  <2>1. i \in Created /\ UNCHANGED <<viewer, links, sessions, barred, welcome>>
    BY <1>8, <1>links DEF ActivateRead
  <2>2. call' = [call EXCEPT ![c] = [pc |-> "ActivateWrite", id |-> i, email |-> viewer[i].email]]
    BY <1>8 DEF ActivateRead
  <2>3. call' \in [Calls -> Call] /\ CallOK'
    BY <1>wf, <1>rows, <2>1, <2>2, BeginCall
  <2>4. QED  BY <2>1, <2>3, <1>same, <1>typed, <1>links
<1>9. ASSUME NEW c \in Calls, ActivateWrite(c) PROVE WellFormed'
  <2> DEFINE i == call[c].id
             r == Activated(viewer[i])
  <2>1. call[c].pc = "ActivateWrite" /\ i \in Created /\ i # None
    BY <1>9, <1>ids DEF ActivateWrite
  <2>2. r \in Row /\ r.email = viewer[i].email
    BY <2>1, <1>rows DEF Row, Activated
  <2>3. viewer' = [viewer EXCEPT ![i] = r] /\ Goto(c, "ActivateSession")
    BY <1>9 DEF ActivateWrite
  <2>4. UNCHANGED <<links, sessions, barred, welcome>>
    BY <1>9 DEF ActivateWrite
  <2> HIDE DEF r
  <2>5. Table
    BY <1>wf, <2>1, <2>2, <2>3, UpdateRow DEF Table
  <2>6. call' \in [Calls -> Call] /\ CallOK'
    BY <1>wf, <2>1, <2>3, <2>5, GotoCall DEF Table
  <2>7. QED  BY <2>4, <2>5, <2>6, <1>typed, <1>links
<1>10. ASSUME NEW c \in Calls, NEW i \in Ids, LoginRead(c, i) PROVE WellFormed'
  <2>1. i \in Created /\ UNCHANGED <<viewer, links, sessions, barred, welcome>>
    BY <1>10 DEF LoginRead
  <2>2. call' = [call EXCEPT ![c] = [pc |-> "LoginSession", id |-> i, email |-> viewer[i].email]]
    BY <1>10 DEF LoginRead
  <2>3. call' \in [Calls -> Call] /\ CallOK'
    BY <1>wf, <1>rows, <2>1, <2>2, BeginCall
  <2>4. QED  BY <2>1, <2>3, <1>same, <1>typed, <1>links
<1>11. ASSUME NEW c \in Calls, Session(c) PROVE WellFormed'
  <2>1. call[c].id \in Created /\ Return(c) /\ UNCHANGED <<viewer, links, barred, welcome>>
    BY <1>11, <1>ids DEF Session
  <2>2. Table /\ Created' = Created
    BY <2>1, <1>same
  <2>3. call' \in [Calls -> Call] /\ CallOK'
    BY <1>wf, <2>1, <2>2, ReturnCall DEF Table
  <2>4. links' \subseteq Created' /\ sessions' \subseteq Created'
    BY <1>11, <1>links, <2>1, <2>2 DEF Session
  <2>5. QED  BY <2>1, <2>2, <2>3, <2>4, <1>links DEF Table, WellFormed, TypeOK
<1>12. ASSUME NEW c \in Calls, Audit(c) \/ Error(c) PROVE WellFormed'
  BY <1>12, <1>ret DEF Audit, Error
<1>13. CASE Down
  <2>1. UNCHANGED <<viewer, links, sessions, barred, welcome>> /\ call' = [c \in Calls |-> Idle]
    BY <1>13 DEF Down
  <2>2. call' \in [Calls -> Call] /\ CallOK'
    BY <2>1 DEF CallOK, Call, Idle
  <2>3. QED  BY <2>1, <2>2, <1>same, <1>typed, <1>links
<1>14. CASE UNCHANGED vars
  BY <1>14, <1>wf DEF vars, WellFormed, TypeOK, CallOK, OneRow, Created
<1>15. QED
  BY <1>1, <1>2, <1>3, <1>4, <1>5, <1>6, <1>7, <1>8, <1>9, <1>10, <1>11, <1>12, <1>13, <1>14 DEF Next

\* The types of Viewers' state, with one row per address.
THEOREM ViewersWellFormed == Spec => []WellFormed
<1>1. Init => WellFormed
  BY InitWellFormed
<1>2. WellFormed /\ [Next]_vars => WellFormed'
  BY WellFormedStep
<1>3. QED  BY <1>1, <1>2, PTL DEF Spec

THEOREM ViewersTypeCorrect == Spec => []TypeOK
<1>1. WellFormed => TypeOK
  BY DEF WellFormed
<1>2. QED  BY <1>1, ViewersWellFormed, PTL

-----------------------------------------------------------------------------
(* Decisions hold *)

RevokedRows == \A e \in barred : \A i \in RowsOf(e) : viewer[i].revokedAt
InvitedRows == \A e \in welcome : \E i \in RowsOf(e) : RowsOf(e) = {i} /\ ~viewer[i].revokedAt

DecisionOK == Settled /\ RevokedRows /\ InvitedRows

\* A step that leaves the rows of the settled addresses alone, settles none
\* and starts no call against them.
LEMMA DecisionKept ==
    ASSUME DecisionOK, UNCHANGED <<viewer, barred, welcome>>,
           \A c \in Calls : call'[c].pc \in {"InviteWrite", "RevokeWrite"} => call'[c] = call[c]
    PROVE  DecisionOK'
<1>1. Settled'
  BY DEF DecisionOK, Settled, Inviting, Revoking
<1>2. RevokedRows' /\ InvitedRows'
  BY DEF DecisionOK, RevokedRows, InvitedRows, RowsOf, Created
<1>3. QED  BY <1>1, <1>2 DEF DecisionOK

\* Writing the row of one address leaves the others' rows alone, and the
\* address has that row.
LEMMA WriteRow ==
    ASSUME TypeOK, OneRow', NEW i \in Ids, NEW e \in Emails, NEW r \in Row, r.email = e,
           i \in Created => viewer[i].email = e, viewer' = [viewer EXCEPT ![i] = r]
    PROVE  /\ RowsOf(e)' = {i} /\ viewer'[i] = r
           /\ \A f \in Emails \ {e} :
                RowsOf(f)' = RowsOf(f) /\ \A j \in RowsOf(f) : viewer'[j] = viewer[j]
<1>1. viewer'[i] = r /\ i \in Created' /\ \A j \in Ids \ {i} : viewer'[j] = viewer[j]
  BY Constants DEF TypeOK, Created
<1>2. RowsOf(e)' = {i}
  BY <1>1 DEF RowsOf, OneRow, Created
<1>3. ASSUME NEW f \in Emails \ {e}
      PROVE  RowsOf(f)' = RowsOf(f) /\ \A j \in RowsOf(f) : viewer'[j] = viewer[j]
  BY <1>1, <1>3 DEF RowsOf, Created
<1>4. QED  BY <1>1, <1>2, <1>3

\* Addresses other than e keep what was decided about them.
LEMMA OthersKept ==
    ASSUME TypeOK, DecisionOK, NEW e \in Emails,
           barred' \subseteq barred \cup {e}, welcome' \subseteq welcome \cup {e},
           \A f \in Emails \ {e} :
                /\ RowsOf(f)' = RowsOf(f) /\ \A j \in RowsOf(f) : viewer'[j] = viewer[j]
                /\ Inviting(f)' => Inviting(f)
                /\ Revoking(f)' => Revoking(f),
           e \in barred' => ~Inviting(e)' /\ \A i \in RowsOf(e)' : viewer'[i].revokedAt,
           e \in welcome' => ~Revoking(e)' /\ \E i \in RowsOf(e)' : RowsOf(e)' = {i} /\ ~viewer'[i].revokedAt
    PROVE  DecisionOK'
<1>1. barred \subseteq Emails /\ welcome \subseteq Emails
  BY DEF TypeOK
<1>2. Settled'
  BY <1>1 DEF DecisionOK, Settled
<1>3. ASSUME NEW f \in barred', f # e PROVE \A i \in RowsOf(f)' : viewer'[i].revokedAt
  BY <1>1, <1>3 DEF DecisionOK, RevokedRows
<1>4. RevokedRows'
  BY <1>3 DEF RevokedRows
<1>5. ASSUME NEW f \in welcome', f # e
      PROVE  \E i \in RowsOf(f)' : RowsOf(f)' = {i} /\ ~viewer'[i].revokedAt
  <2>1. PICK i \in RowsOf(f) : RowsOf(f) = {i} /\ ~viewer[i].revokedAt
    BY <1>1, <1>5 DEF DecisionOK, InvitedRows
  <2>2. RowsOf(f)' = RowsOf(f) /\ viewer'[i] = viewer[i]
    BY <1>1, <1>5, <2>1
  <2>3. QED  BY <2>1, <2>2
<1>6. InvitedRows'
  BY <1>5 DEF InvitedRows
<1>7. QED  BY <1>2, <1>4, <1>6 DEF DecisionOK

\* A call that moves on past its write no longer stands against a decision.
LEMMA CallLeaves ==
    ASSUME TypeOK, NEW c \in Calls, call' \in [Calls -> Call],
           \A d \in Calls \ {c} : call'[d] = call[d],
           call'[c].pc \notin {"InviteWrite", "RevokeWrite"}
    PROVE  \A e \in Emails : (Inviting(e)' => Inviting(e)) /\ (Revoking(e)' => Revoking(e))
BY DEF Inviting, Revoking

LEMMA DecisionStep == ASSUME WellFormed, WellFormed', DecisionOK, [Next]_vars PROVE DecisionOK'
<1>wf. TypeOK /\ CallOK /\ OneRow /\ TypeOK' /\ OneRow'
  BY DEF WellFormed
<1>call. call \in [Calls -> Call] /\ call' \in [Calls -> Call]
  BY <1>wf DEF TypeOK
<1>rows. viewer \in [Ids -> Row \cup {None}] /\ \A i \in Created : i \in Ids /\ i # None /\ viewer[i] \in Row
  BY <1>wf, Constants DEF TypeOK, Created
<1>sets. barred \subseteq Emails /\ welcome \subseteq Emails
  BY <1>wf DEF TypeOK
<1>dec. Settled /\ RevokedRows /\ InvitedRows
  BY DEF DecisionOK
<1>ids. \A c \in Calls : call[c].pc # "idle" =>
          /\ call[c].email \in Emails
          /\ call[c].pc # "InviteWrite" => call[c].id \in Created /\ call[c].id # None
          /\ call[c].id # None => call[c].id \in Created /\ viewer[call[c].id].email = call[c].email
  BY <1>wf DEF CallOK
<1>ret. ASSUME NEW c \in Calls, Return(c), UNCHANGED <<viewer, barred, welcome>> PROVE DecisionOK'
  BY <1>ret, <1>call, DecisionKept DEF Return, Idle
<1>1. ASSUME NEW c \in Calls, NEW e \in Emails, InviteRead(c, e) PROVE DecisionOK'
  <2>1. UNCHANGED <<viewer, welcome>> /\ barred' = barred \ {e}
    BY <1>1 DEF InviteRead
  <2>2. \A d \in Calls \ {c} : call'[d] = call[d]
    BY <1>1, <1>call DEF InviteRead
  <2>3. call'[c].pc = "InviteWrite" /\ call'[c].email = e
    BY <1>1, <1>call DEF InviteRead
  <2>4. \A f \in Emails : (f # e /\ Inviting(f)' => Inviting(f)) /\ (Revoking(f)' => Revoking(f))
    BY <2>2, <2>3 DEF Inviting, Revoking
  <2>5. \A f \in Emails : RowsOf(f)' = RowsOf(f)
    BY <2>1 DEF RowsOf, Created
  <2>6. e \in welcome => \E i \in RowsOf(e) : RowsOf(e) = {i} /\ ~viewer[i].revokedAt
    BY <1>dec DEF InvitedRows
  <2>7. e \in welcome => ~Revoking(e)'
    BY <1>dec, <2>4 DEF Settled
  <2>8. QED  BY <1>wf, <2>1, <2>4, <2>5, <2>6, <2>7, OthersKept
<1>2. ASSUME NEW c \in Calls, InviteUpdate(c) PROVE DecisionOK'
  <2>0. PICK i \in Created, e \in Emails : i = call[c].id /\ e = call[c].email
    BY <1>2, <1>ids DEF InviteUpdate
  <2> DEFINE r == Reinstated(viewer[i])
  <2>1. call[c].pc = "InviteWrite" /\ i \in Created /\ viewer[i].email = e /\ e \in Emails
    BY <1>2, <1>ids, <2>0 DEF InviteUpdate
  <2>2. r \in Row /\ r.email = e /\ ~r.revokedAt
    BY <2>1, <1>rows DEF Reinstated, Row
  <2>3. viewer' = [viewer EXCEPT ![i] = r] /\ barred' = barred /\ Invited(e) /\ Mailing(c, i)
    BY <1>2, <2>0 DEF InviteUpdate
  <2> HIDE DEF r
  <2>4. /\ RowsOf(e)' = {i} /\ viewer'[i] = r
        /\ \A f \in Emails \ {e} : RowsOf(f)' = RowsOf(f) /\ \A j \in RowsOf(f) : viewer'[j] = viewer[j]
    BY <1>wf, <1>rows, <2>1, <2>2, <2>3, WriteRow
  <2>5. \A f \in Emails : (Inviting(f)' => Inviting(f)) /\ (Revoking(f)' => Revoking(f))
    BY <1>wf, <1>call, <2>3, CallLeaves DEF Mailing
  <2>6. e \notin barred
    BY <1>dec, <2>0, <2>1 DEF Settled, Inviting
  <2>7. welcome' \subseteq welcome \cup {e} /\ (e \in welcome' => ~Revoking(e))
    BY <2>3, <1>dec DEF Invited, Settled
  <2>8. QED  BY <1>wf, <2>1, <2>2, <2>3, <2>4, <2>5, <2>6, <2>7, OthersKept
<1>3. ASSUME NEW c \in Calls, InviteCreate(c) PROVE DecisionOK'
  <2>0. PICK e \in Emails : e = call[c].email
    BY <1>3, <1>ids DEF InviteCreate
  <2> DEFINE r == [email |-> e, password |-> FALSE, activatedAt |-> FALSE, revokedAt |-> FALSE]
  <2>1. call[c].pc = "InviteWrite" /\ e \in Emails
    BY <1>3, <2>0 DEF InviteCreate
  <2>2. r \in Row /\ r.email = e /\ ~r.revokedAt
    BY <2>1 DEF Row
  <2>3. PICK i \in Ids \ Created : viewer' = [viewer EXCEPT ![i] = r] /\ Mailing(c, i)
    BY <1>3, <2>0 DEF InviteCreate
  <2>4. barred' = barred /\ Invited(e)
    BY <1>3, <2>0 DEF InviteCreate
  <2> HIDE DEF r
  <2>5. /\ RowsOf(e)' = {i} /\ viewer'[i] = r
        /\ \A f \in Emails \ {e} : RowsOf(f)' = RowsOf(f) /\ \A j \in RowsOf(f) : viewer'[j] = viewer[j]
    BY <1>wf, <2>2, <2>3, WriteRow
  <2>6. \A f \in Emails : (Inviting(f)' => Inviting(f)) /\ (Revoking(f)' => Revoking(f))
    BY <1>wf, <1>call, <2>3, CallLeaves DEF Mailing
  <2>7. e \notin barred
    BY <1>dec, <2>0, <2>1 DEF Settled, Inviting
  <2>8. welcome' \subseteq welcome \cup {e} /\ (e \in welcome' => ~Revoking(e))
    BY <2>4, <1>dec DEF Invited, Settled
  <2>9. QED  BY <1>wf, <2>1, <2>2, <2>4, <2>5, <2>6, <2>7, <2>8, OthersKept
<1>4. ASSUME NEW c \in Calls, InviteRefused(c) PROVE DecisionOK'
  BY <1>4, <1>ret DEF InviteRefused
<1>5. ASSUME NEW c \in Calls, InviteMail(c) PROVE DecisionOK'
  BY <1>5, <1>call, DecisionKept DEF InviteMail, Goto
<1>6. ASSUME NEW c \in Calls, NEW i \in Ids, RevokeRead(c, i) PROVE DecisionOK'
  <2>0. PICK e \in Emails : e = viewer[i].email
    BY <1>6, <1>rows DEF RevokeRead, Row
  <2>1. UNCHANGED <<viewer, barred>> /\ welcome' = welcome \ {e} /\ e \in Emails
    BY <1>6, <2>0 DEF RevokeRead
  <2>2. \A d \in Calls \ {c} : call'[d] = call[d]
    BY <1>6, <1>call DEF RevokeRead
  <2>3. call'[c].pc = "RevokeWrite" /\ call'[c].email = e
    BY <1>6, <1>call, <2>0 DEF RevokeRead
  <2>4. \A f \in Emails : (Inviting(f)' => Inviting(f)) /\ (f # e /\ Revoking(f)' => Revoking(f))
    BY <2>2, <2>3 DEF Inviting, Revoking
  <2>5. \A f \in Emails : RowsOf(f)' = RowsOf(f)
    BY <2>1 DEF RowsOf, Created
  <2>6. e \in barred => ~Inviting(e)' /\ \A j \in RowsOf(e) : viewer[j].revokedAt
    BY <1>dec, <2>1, <2>4 DEF Settled, RevokedRows
  <2>7. QED  BY <1>wf, <2>1, <2>4, <2>5, <2>6, OthersKept
<1>7. ASSUME NEW c \in Calls, RevokeWrite(c) PROVE DecisionOK'
  <2>0. PICK i \in Created, e \in Emails : i = call[c].id /\ e = call[c].email
    BY <1>7, <1>ids DEF RevokeWrite
  <2> DEFINE r == [viewer[i] EXCEPT !.revokedAt = TRUE]
  <2>1. call[c].pc = "RevokeWrite" /\ i \in Created /\ viewer[i].email = e /\ e \in Emails
    BY <1>7, <1>ids, <2>0 DEF RevokeWrite
  <2>2. r \in Row /\ r.email = e /\ r.revokedAt
    BY <2>1, <1>rows DEF Row
  <2>3. viewer' = [viewer EXCEPT ![i] = r] /\ welcome' = welcome /\ Goto(c, "RevokeAudit")
    BY <1>7, <2>0 DEF RevokeWrite
  <2> HIDE DEF r
  <2>4. /\ RowsOf(e)' = {i} /\ viewer'[i] = r
        /\ \A f \in Emails \ {e} : RowsOf(f)' = RowsOf(f) /\ \A j \in RowsOf(f) : viewer'[j] = viewer[j]
    BY <1>wf, <1>rows, <2>1, <2>2, <2>3, WriteRow
  <2>5. \A f \in Emails : (Inviting(f)' => Inviting(f)) /\ (Revoking(f)' => Revoking(f))
    BY <1>wf, <1>call, <2>3, CallLeaves DEF Goto
  <2>6. e \notin welcome
    BY <1>dec, <2>0, <2>1 DEF Settled, Revoking
  <2>7. barred' \subseteq barred \cup {e} /\ (e \in barred' => ~Inviting(e))
    BY <1>7, <1>dec, <2>0 DEF RevokeWrite, Settled
  <2>8. QED  BY <1>wf, <2>1, <2>2, <2>3, <2>4, <2>5, <2>6, <2>7, OthersKept
<1>8. ASSUME NEW c \in Calls, NEW i \in Ids, ActivateRead(c, i) PROVE DecisionOK'
  BY <1>8, <1>call, DecisionKept DEF ActivateRead
<1>9. ASSUME NEW c \in Calls, ActivateWrite(c) PROVE DecisionOK'
  <2>0. PICK i \in Created, e \in Emails : i = call[c].id /\ e = call[c].email
    BY <1>9, <1>ids DEF ActivateWrite
  <2> DEFINE r == Activated(viewer[i])
  <2>1. call[c].pc = "ActivateWrite" /\ i \in Created /\ viewer[i].email = e /\ e \in Emails
    BY <1>9, <1>ids, <2>0 DEF ActivateWrite
  <2>2. r \in Row /\ r.email = e /\ r.revokedAt = viewer[i].revokedAt
    BY <2>1, <1>rows DEF Row, Activated
  <2>3. viewer' = [viewer EXCEPT ![i] = r] /\ UNCHANGED <<barred, welcome>> /\ Goto(c, "ActivateSession")
    BY <1>9, <2>0 DEF ActivateWrite
  <2> HIDE DEF r
  <2>4. /\ RowsOf(e)' = {i} /\ viewer'[i] = r
        /\ \A f \in Emails \ {e} : RowsOf(f)' = RowsOf(f) /\ \A j \in RowsOf(f) : viewer'[j] = viewer[j]
    BY <1>wf, <1>rows, <2>1, <2>2, <2>3, WriteRow
  <2>5. \A f \in Emails : (Inviting(f)' => Inviting(f)) /\ (Revoking(f)' => Revoking(f))
    BY <1>wf, <1>call, <2>3, CallLeaves DEF Goto
  <2>6. i \in RowsOf(e)
    BY <2>1 DEF RowsOf
  <2>7. e \in barred => ~Inviting(e) /\ r.revokedAt
    BY <1>dec, <2>2, <2>6 DEF Settled, RevokedRows
  <2>8. e \in welcome => ~Revoking(e) /\ ~r.revokedAt
    BY <1>dec, <2>2, <2>6 DEF Settled, InvitedRows
  <2>9. QED  BY <1>wf, <2>1, <2>3, <2>4, <2>5, <2>7, <2>8, OthersKept
<1>10. ASSUME NEW c \in Calls, NEW i \in Ids, LoginRead(c, i) PROVE DecisionOK'
  BY <1>10, <1>call, DecisionKept DEF LoginRead
<1>11. ASSUME NEW c \in Calls, Session(c) \/ Audit(c) \/ Error(c) PROVE DecisionOK'
  BY <1>11, <1>ret DEF Session, Audit, Error
<1>12. CASE Down
  BY <1>12, DecisionKept DEF Down, Idle
<1>13. CASE UNCHANGED vars
  BY <1>13, DecisionKept DEF vars
<1>14. QED
  BY <1>1, <1>2, <1>3, <1>4, <1>5, <1>6, <1>7, <1>8, <1>9, <1>10, <1>11, <1>12, <1>13 DEF Next

\* Decisions about viewers hold until somebody decides otherwise.
LEMMA Decisions == Spec => []DecisionOK
<1>1. Init => DecisionOK
  BY DEF Init, DecisionOK, Settled, RevokedRows, InvitedRows
<1>2. WellFormed /\ WellFormed' /\ DecisionOK /\ [Next]_vars => DecisionOK'
  BY DecisionStep
<1>3. QED  BY <1>1, <1>2, ViewersWellFormed, PTL DEF Spec

\* A revocation is not undone by calls that were under way.
THEOREM RevokedStayOut == Spec => []RevocationHolds
<1>1. DecisionOK => RevocationHolds
  BY DEF DecisionOK, RevokedRows, RevocationHolds, Accepts, MayActivate, MayLogin
<1>2. QED  BY <1>1, Decisions, PTL

-----------------------------------------------------------------------------
(* Sessions *)

SessionOK == ActivatedOK /\ SessionsActivated

\* Activation is for good.
ActivationsKept ==
    \A i \in Created :
        /\ viewer[i].activatedAt => viewer'[i].activatedAt
        /\ viewer[i].password => viewer'[i].password

\* The table after a step that activates at most row i, completely.
LEMMA SessionKept ==
    ASSUME WellFormed, WellFormed', SessionOK, ActivationsKept, Created \subseteq Created',
           \A i \in Created' : viewer'[i].password <=> viewer'[i].activatedAt,
           \A i \in sessions' : i \in sessions \/ Active(i)',
           \A c \in Calls : call'[c].pc \in {"ActivateSession", "LoginSession"} =>
                call'[c] = call[c] \/ Active(call[c].id)'
    PROVE  SessionOK'
<1>1. sessions \subseteq Created
  BY DEF WellFormed, TypeOK
<1>2. \A c \in Calls : call[c].pc \in {"ActivateSession", "LoginSession"} => call[c].id \in Created
  BY DEF WellFormed, CallOK
<1>3. SessionsActivated'
  BY <1>1 DEF SessionOK, SessionsActivated, ActivationsKept, Active
<1>4. ActivatedOK'
  BY <1>2 DEF SessionOK, ActivatedOK, ActivationsKept, Active
<1>5. QED  BY <1>3, <1>4 DEF SessionOK

LEMMA SessionStep == ASSUME WellFormed, WellFormed', SessionOK, [Next]_vars PROVE SessionOK'
<1>wf. TypeOK /\ CallOK
  BY DEF WellFormed
<1>call. call \in [Calls -> Call]
  BY <1>wf DEF TypeOK
<1>rows. viewer \in [Ids -> Row \cup {None}] /\ \A i \in Created : i \in Ids /\ i # None /\ viewer[i] \in Row
  BY <1>wf, Constants DEF TypeOK, Created
<1>act. \A i \in Created : viewer[i].password <=> viewer[i].activatedAt
  BY DEF SessionOK, ActivatedOK
<1>wait. \A c \in Calls : call[c].pc \in {"ActivateSession", "LoginSession"} => Active(call[c].id)
  BY DEF SessionOK, ActivatedOK
\* A step that writes no row, and lets only those in who are active.
<1>same. ASSUME UNCHANGED viewer,
                \A i \in sessions' : i \in sessions \/ Active(i),
                \A c \in Calls : call'[c].pc \in {"ActivateSession", "LoginSession"} =>
                    call'[c] = call[c] \/ Active(call'[c].id)
         PROVE  SessionOK'
  <2>1. Created' = Created /\ ActivationsKept
    BY <1>same DEF Created, ActivationsKept
  <2>2. \A i \in sessions' : i \in sessions \/ Active(i)'
    BY <1>same DEF Active
  <2>3. \A i \in Created' : viewer'[i].password <=> viewer'[i].activatedAt
    BY <1>same, <1>act, <2>1
  <2>4. \A c \in Calls : call'[c].pc \in {"ActivateSession", "LoginSession"} =>
            call'[c] = call[c] \/ Active(call[c].id)'
    BY <1>same DEF Active
  <2>5. QED  BY <2>1, <2>2, <2>3, <2>4, SessionKept
<1>ret. ASSUME NEW c \in Calls, Return(c), UNCHANGED <<viewer, sessions>> PROVE SessionOK'
  BY <1>ret, <1>call, <1>same DEF Return, Idle
<1>1. ASSUME NEW c \in Calls, NEW e \in Emails, InviteRead(c, e) PROVE SessionOK'
  BY <1>1, <1>call, <1>same DEF InviteRead
<1>2. ASSUME NEW c \in Calls, InviteUpdate(c) PROVE SessionOK'
  <2>1. PICK i \in Created : i = call[c].id
    BY <1>2, <1>wf DEF InviteUpdate, CallOK
  <2> DEFINE r == Reinstated(viewer[i])
  <2>2. r \in Row /\ r.activatedAt = viewer[i].activatedAt /\ r.password = viewer[i].password
    BY <1>rows DEF Row, Reinstated
  <2>3. viewer' = [viewer EXCEPT ![i] = r] /\ UNCHANGED sessions /\ Mailing(c, i)
    BY <1>2, <2>1 DEF InviteUpdate
  <2> HIDE DEF r
  <2>4. ActivationsKept /\ Created' = Created /\ \A j \in Created : viewer'[j].password <=> viewer'[j].activatedAt
    BY <2>2, <2>3, <1>rows, <1>act, Constants DEF ActivationsKept, Created
  <2>5. \A d \in Calls : call'[d].pc \in {"ActivateSession", "LoginSession"} => call'[d] = call[d]
    BY <2>3, <1>call DEF Mailing
  <2>6. QED  BY <2>3, <2>4, <2>5, SessionKept
<1>3. ASSUME NEW c \in Calls, InviteCreate(c) PROVE SessionOK'
  <2> DEFINE r == [email |-> call[c].email, password |-> FALSE, activatedAt |-> FALSE, revokedAt |-> FALSE]
  <2>1. PICK i \in Ids \ Created : viewer' = [viewer EXCEPT ![i] = r] /\ Mailing(c, i)
    BY <1>3 DEF InviteCreate
  <2>2. ~r.password /\ ~r.activatedAt /\ UNCHANGED sessions /\ r \in Row
    BY <1>3, <1>wf DEF InviteCreate, Row, CallOK
  <2> HIDE DEF r
  <2>3. ActivationsKept /\ Created' = Created \cup {i}
    BY <2>1, <2>2, <1>rows, Constants DEF ActivationsKept, Created
  <2>4. \A j \in Created' : viewer'[j].password <=> viewer'[j].activatedAt
    BY <2>1, <2>2, <2>3, <1>rows, <1>act
  <2>5. \A d \in Calls : call'[d].pc \in {"ActivateSession", "LoginSession"} => call'[d] = call[d]
    BY <2>1, <1>call DEF Mailing
  <2>6. QED  BY <2>2, <2>3, <2>4, <2>5, SessionKept
<1>4. ASSUME NEW c \in Calls, InviteRefused(c) PROVE SessionOK'
  BY <1>4, <1>ret DEF InviteRefused
<1>5. ASSUME NEW c \in Calls, InviteMail(c) PROVE SessionOK'
  BY <1>5, <1>call, <1>same DEF InviteMail, Goto
<1>6. ASSUME NEW c \in Calls, NEW i \in Ids, RevokeRead(c, i) PROVE SessionOK'
  BY <1>6, <1>call, <1>same DEF RevokeRead
<1>7. ASSUME NEW c \in Calls, RevokeWrite(c) PROVE SessionOK'
  <2>1. PICK i \in Created : i = call[c].id
    BY <1>7, <1>wf DEF RevokeWrite, CallOK
  <2> DEFINE r == [viewer[i] EXCEPT !.revokedAt = TRUE]
  <2>2. r \in Row /\ r.activatedAt = viewer[i].activatedAt /\ r.password = viewer[i].password
    BY <1>rows DEF Row
  <2>3. viewer' = [viewer EXCEPT ![i] = r] /\ UNCHANGED sessions /\ Goto(c, "RevokeAudit")
    BY <1>7, <2>1 DEF RevokeWrite
  <2> HIDE DEF r
  <2>4. ActivationsKept /\ Created' = Created /\ \A j \in Created : viewer'[j].password <=> viewer'[j].activatedAt
    BY <2>2, <2>3, <1>rows, <1>act, Constants DEF ActivationsKept, Created
  <2>5. \A d \in Calls : call'[d].pc \in {"ActivateSession", "LoginSession"} => call'[d] = call[d]
    BY <2>3, <1>call DEF Goto
  <2>6. QED  BY <2>3, <2>4, <2>5, SessionKept
<1>8. ASSUME NEW c \in Calls, NEW i \in Ids, ActivateRead(c, i) PROVE SessionOK'
  BY <1>8, <1>call, <1>same DEF ActivateRead
<1>9. ASSUME NEW c \in Calls, ActivateWrite(c) PROVE SessionOK'
  <2>1. PICK i \in Created : i = call[c].id
    BY <1>9, <1>wf DEF ActivateWrite, CallOK
  <2> DEFINE r == Activated(viewer[i])
  <2>2. r \in Row /\ r.activatedAt /\ r.password
    BY <1>rows DEF Row, Activated
  <2>3. viewer' = [viewer EXCEPT ![i] = r] /\ UNCHANGED sessions /\ Goto(c, "ActivateSession")
    BY <1>9, <2>1 DEF ActivateWrite
  <2> HIDE DEF r
  <2>4. ActivationsKept /\ Created' = Created /\ \A j \in Created : viewer'[j].password <=> viewer'[j].activatedAt
    BY <2>2, <2>3, <1>rows, <1>act, Constants DEF ActivationsKept, Created
  <2>5. viewer'[i] = r /\ call'[c].id = i /\ \A d \in Calls \ {c} : call'[d] = call[d]
    BY <2>1, <2>3, <1>rows, <1>call DEF Goto, Call
  <2>6. Active(call[c].id)'
    BY <2>2, <2>5 DEF Active
  <2>7. QED  BY <2>3, <2>4, <2>5, <2>6, SessionKept
<1>10. ASSUME NEW c \in Calls, NEW i \in Ids, LoginRead(c, i) PROVE SessionOK'
  BY <1>10, <1>call, <1>act, <1>same DEF LoginRead, MayLogin, Active
<1>11. ASSUME NEW c \in Calls, Session(c) PROVE SessionOK'
  BY <1>11, <1>call, <1>wait, <1>same DEF Session, Return, Idle
<1>12. ASSUME NEW c \in Calls, Audit(c) \/ Error(c) PROVE SessionOK'
  BY <1>12, <1>ret DEF Audit, Error
<1>13. CASE Down
  BY <1>13, <1>same DEF Down, Idle
<1>14. CASE UNCHANGED vars
  BY <1>14, <1>same DEF vars
<1>15. QED
  BY <1>1, <1>2, <1>3, <1>4, <1>5, <1>6, <1>7, <1>8, <1>9, <1>10, <1>11, <1>12, <1>13, <1>14 DEF Next

LEMMA Sessions == Spec => []SessionOK
<1>1. Init => SessionOK
  BY DEF Init, SessionOK, ActivatedOK, SessionsActivated, Created, Idle, Active
<1>2. WellFormed /\ WellFormed' /\ SessionOK /\ [Next]_vars => SessionOK'
  BY SessionStep
<1>3. QED  BY <1>1, <1>2, ViewersWellFormed, PTL DEF Spec

\* Nobody holds a session for an account that is not activated.
THEOREM SessionsAreActivated == Spec => []SessionsActivated
<1>1. SessionOK => SessionsActivated
  BY DEF SessionOK
<1>2. QED  BY <1>1, Sessions, PTL

\* An invitation is not undone by calls that were under way either, and
\* leaves a way in.
THEOREM InvitedMayEnter == Spec => []InvitationHolds
<1>1. DecisionOK /\ SessionOK => InvitationHolds
  <2>1. SUFFICES ASSUME DecisionOK, SessionOK, NEW e \in welcome
        PROVE  \E i \in RowsOf(e) : RowsOf(e) = {i} /\ (MayActivate(i) \/ MayLogin(i))
    BY DEF InvitationHolds
  <2>2. PICK i \in RowsOf(e) : RowsOf(e) = {i} /\ ~viewer[i].revokedAt
    BY <2>1 DEF DecisionOK, InvitedRows
  <2>3. viewer[i].password <=> viewer[i].activatedAt
    BY <2>1, <2>2 DEF SessionOK, ActivatedOK, RowsOf
  <2>4. QED  BY <2>2, <2>3 DEF MayActivate, MayLogin
<1>2. QED  BY <1>1, Decisions, Sessions, PTL
=============================================================================
