------------------------------ MODULE Viewers ------------------------------
(***************************************************************************)
(* auth-svc: the viewers of an organisation's portal                       *)
(* (apps/auth-svc/src/service.ts, table Viewer of                          *)
(* packages/db/prisma/schema.prisma).  An admin invites an address and may *)
(* revoke it; whoever opens the mailed link chooses a password once and    *)
(* logs in with it from then on.                                           *)
(*                                                                         *)
(* An element of Emails is an address within its organisation, the key of  *)
(* the unique index (orgId, email).  A call is one action per await, named *)
(* for what is awaited; calls that are refused change nothing and are left *)
(* out.  Links and sessions do not expire: both last for days.             *)
(***************************************************************************)

CONSTANTS
    Ids,     \* ids of Viewer rows
    Emails,  \* addresses, each within its organisation
    Calls,   \* calls in flight
    None     \* no row, no value

Row == [email : Emails, password : BOOLEAN, activatedAt : BOOLEAN, revokedAt : BOOLEAN]

ASSUME ViewersAssumption == None \notin Ids \cup Emails \cup Row

VARIABLES
    viewer,    \* Viewer table
    call,      \* calls in flight
    links,     \* rows whose activation link was mailed
    sessions,  \* rows for which a session token was handed out
    barred,    \* addresses whose last settled decision is a revocation
    welcome    \* addresses whose last settled decision is an invitation

vars == <<viewer, call, links, sessions, barred, welcome>>

-----------------------------------------------------------------------------
(* Types *)

Call == [pc : {"idle", "InviteWrite", "InviteMail", "InviteAudit", "RevokeWrite",
               "RevokeAudit", "ActivateWrite", "ActivateSession", "LoginSession"},
         id : Ids \cup {None}, email : Emails \cup {None}]
Idle == [pc |-> "idle", id |-> None, email |-> None]

Created == {i \in Ids : viewer[i] # None}

\* What findUnique returns for an address.
RowsOf(e) == {i \in Created : viewer[i].email = e}

TypeOK ==
    /\ viewer \in [Ids -> Row \cup {None}]
    /\ call \in [Calls -> Call]
    /\ links \subseteq Created
    /\ sessions \subseteq Created
    /\ barred \subseteq Emails
    /\ welcome \subseteq Emails

-----------------------------------------------------------------------------
(* State functions *)

\* A call for address e whose decision is made and not yet written.
Inviting(e) == \E c \in Calls : call[c].pc = "InviteWrite" /\ call[c].email = e
Revoking(e) == \E c \in Calls : call[c].pc = "RevokeWrite" /\ call[c].email = e

\* verifyToken reads the row again, whatever the token says.
Accepts(i) == i \in sessions /\ viewer[i].activatedAt /\ ~viewer[i].revokedAt

MayInvite(i)   == ~(viewer[i].activatedAt /\ ~viewer[i].revokedAt)
MayActivate(i) == ~viewer[i].revokedAt /\ ~viewer[i].activatedAt
MayLogin(i)    == viewer[i].password /\ ~viewer[i].revokedAt

EmailUnique_NoIndex(e) == TRUE  \* mutant

\* @@unique([orgId, email])
EmailUnique(e) == RowsOf(e) = {}

Goto(c, pc) == call' = [call EXCEPT ![c].pc = pc]
Return(c)   == call' = [call EXCEPT ![c] = Idle]

-----------------------------------------------------------------------------
(* inviteViewer *)

\* The row, if there is one, and the refusal of a live account.
InviteRead(c, e) ==
    /\ call[c] = Idle
    /\ \/ RowsOf(e) = {} /\ call' = [call EXCEPT ![c] = [pc |-> "InviteWrite", id |-> None, email |-> e]]
       \/ \E i \in RowsOf(e) :
            /\ MayInvite(i)
            /\ call' = [call EXCEPT ![c] = [pc |-> "InviteWrite", id |-> i, email |-> e]]
    /\ barred' = barred \ {e}
    /\ UNCHANGED <<viewer, links, sessions, welcome>>

Reinstated_InvitedAtOnly(row) == row  \* mutant: only refreshes invitedAt
Reinstated_StartsOver(row) ==  \* mutant: the new link may activate again
    [row EXCEPT !.revokedAt = FALSE, !.activatedAt = FALSE]
Reinstated(row) == [row EXCEPT !.revokedAt = FALSE]

Invited(e) == welcome' = IF Revoking(e) THEN welcome ELSE welcome \cup {e}

Mailing_RowRead(c, i) == call' = [call EXCEPT ![c].pc = "InviteMail"]  \* mutant: the row read, if any

\* The token is signed for the row that was written.
Mailing(c, i) == call' = [call EXCEPT ![c].pc = "InviteMail", ![c].id = i]

InviteUpdate(c) ==
    LET i == call[c].id IN
    /\ call[c].pc = "InviteWrite" /\ i # None
    /\ viewer' = [viewer EXCEPT ![i] = Reinstated(@)]
    /\ Mailing(c, i)
    /\ Invited(call[c].email)
    /\ UNCHANGED <<links, sessions, barred>>

\* Two first invitations of an address both get here; the index refuses the
\* second, whose catch answers INTERNAL.
InviteCreate(c) ==
    LET e == call[c].email IN
    /\ call[c].pc = "InviteWrite" /\ call[c].id = None
    /\ EmailUnique(e)
    /\ \E i \in Ids \ Created :
        /\ viewer' = [viewer EXCEPT ![i] = [email |-> e, password |-> FALSE,
                                            activatedAt |-> FALSE, revokedAt |-> FALSE]]
        /\ Mailing(c, i)
    /\ Invited(e)
    /\ UNCHANGED <<links, sessions, barred>>

InviteRefused(c) ==
    /\ call[c].pc = "InviteWrite" /\ call[c].id = None
    /\ ~EmailUnique(call[c].email)
    /\ Return(c)
    /\ UNCHANGED <<viewer, links, sessions, barred, welcome>>

\* The mail goes out; one that does not is Error.
InviteMail(c) ==
    /\ call[c].pc = "InviteMail"
    /\ links' = links \cup {call[c].id}
    /\ Goto(c, "InviteAudit")
    /\ UNCHANGED <<viewer, sessions, barred, welcome>>

-----------------------------------------------------------------------------
(* revokeViewer *)

RevokeRead(c, i) ==
    /\ call[c] = Idle /\ i \in Created
    /\ call' = [call EXCEPT ![c] = [pc |-> "RevokeWrite", id |-> i, email |-> viewer[i].email]]
    /\ welcome' = welcome \ {viewer[i].email}
    /\ UNCHANGED <<viewer, links, sessions, barred>>

RevokeWrite(c) ==
    LET i == call[c].id  e == call[c].email IN
    /\ call[c].pc = "RevokeWrite"
    /\ viewer' = [viewer EXCEPT ![i].revokedAt = TRUE]
    /\ Goto(c, "RevokeAudit")
    /\ barred' = IF Inviting(e) THEN barred ELSE barred \cup {e}
    /\ UNCHANGED <<links, sessions, welcome>>

-----------------------------------------------------------------------------
(* activateViewer and viewerLogin *)

\* The checks; the password is hashed after them.
ActivateRead(c, i) ==
    /\ call[c] = Idle /\ i \in links /\ MayActivate(i)
    /\ call' = [call EXCEPT ![c] = [pc |-> "ActivateWrite", id |-> i, email |-> viewer[i].email]]
    /\ UNCHANGED <<viewer, links, sessions, barred, welcome>>

Activated_WholeRow(row) ==  \* mutant: writes back the row read before hashing
    [row EXCEPT !.password = TRUE, !.activatedAt = TRUE, !.revokedAt = FALSE]
Activated(row) == [row EXCEPT !.password = TRUE, !.activatedAt = TRUE]

ActivateWrite(c) ==
    /\ call[c].pc = "ActivateWrite"
    /\ viewer' = [viewer EXCEPT ![call[c].id] = Activated(@)]
    /\ Goto(c, "ActivateSession")
    /\ UNCHANGED <<links, sessions, barred, welcome>>

\* The right password; verifying it and signing the token come after the read.
LoginRead(c, i) ==
    /\ call[c] = Idle /\ i \in Created /\ MayLogin(i)
    /\ call' = [call EXCEPT ![c] = [pc |-> "LoginSession", id |-> i, email |-> viewer[i].email]]
    /\ UNCHANGED <<viewer, links, sessions, barred, welcome>>

Session(c) ==
    /\ call[c].pc \in {"ActivateSession", "LoginSession"}
    /\ sessions' = sessions \cup {call[c].id}
    /\ Return(c)
    /\ UNCHANGED <<viewer, links, barred, welcome>>

-----------------------------------------------------------------------------
(* Endings *)

\* auditEvent.create, then the answer.
Audit(c) ==
    /\ call[c].pc \in {"InviteAudit", "RevokeAudit"}
    /\ Return(c)
    /\ UNCHANGED <<viewer, links, sessions, barred, welcome>>

\* What is awaited fails: every handler catches it and answers INTERNAL.
Error(c) ==
    /\ call[c].pc # "idle"
    /\ Return(c)
    /\ UNCHANGED <<viewer, links, sessions, barred, welcome>>

\* The process ends, and every call with it: killed, or by a rejection in
\* one of the handlers that have no catch (inviteUser, changePassword, assignRole).
Down ==
    /\ call' = [c \in Calls |-> Idle]
    /\ UNCHANGED <<viewer, links, sessions, barred, welcome>>

-----------------------------------------------------------------------------
(* Specification *)

Init ==
    /\ viewer = [i \in Ids |-> None]
    /\ call = [c \in Calls |-> Idle]
    /\ links = {} /\ sessions = {} /\ barred = {} /\ welcome = {}

Next ==
    \/ \E c \in Calls :
        \/ \E e \in Emails : InviteRead(c, e)
        \/ InviteUpdate(c) \/ InviteCreate(c) \/ InviteRefused(c) \/ InviteMail(c)
        \/ \E i \in Ids : RevokeRead(c, i)
        \/ RevokeWrite(c)
        \/ \E i \in Ids : ActivateRead(c, i)
        \/ ActivateWrite(c)
        \/ \E i \in Ids : LoginRead(c, i)
        \/ Session(c) \/ Audit(c) \/ Error(c)
    \/ Down

Spec == Init /\ [][Next]_vars

-----------------------------------------------------------------------------
(* Safety *)

\* "A revoked viewer must be locked out immediately, not just at their next
\* login" (docs/superpowers/plans/2026-09-28-viewer-portal-backend.md:26).
\* Once revokeViewer has written, with no invitation of the address decided
\* before that and still to be written, no row of the address lets anyone in
\* until somebody invites it again: no session that is held or about to be
\* (service.ts:141), no activation and no login, although an activation that
\* read the row before the revocation may yet write it (service.ts:585-592).
RevocationHolds ==
    \A e \in barred : \A i \in RowsOf(e) : ~Accepts(i) /\ ~MayActivate(i) /\ ~MayLogin(i)

\* The counterpart: "revocation must be reversible" (service.ts:473).  Once
\* inviteViewer has written, with no revocation of the address decided before
\* that and still to be written, the address has one row, and whoever it
\* belongs to gets in: by the link the first time, by the password after an
\* activation, however the two overlap with the invitation.
InvitationHolds ==
    \A e \in welcome : \E i \in RowsOf(e) : RowsOf(e) = {i} /\ (MayActivate(i) \/ MayLogin(i))

\* Who holds a session has activated the account, and stays activated over
\* revocation and re-invitation: only revokedAt decides whether the session
\* is accepted (service.ts:141), and the link mailed again activates nothing.
SessionsActivated ==
    \A i \in sessions : viewer[i].activatedAt /\ viewer[i].password

=============================================================================
