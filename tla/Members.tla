------------------------------ MODULE Members ------------------------------
(***************************************************************************)
(* auth-svc: organisations, their members and API keys                     *)
(* (apps/auth-svc/src/service.ts, tables Org, User and ApiKey), with the   *)
(* gateway's requireRole and the routes in front of them                   *)
(* (apps/api-gateway/src/auth.ts, routes/account.ts, routes/org.ts).       *)
(*                                                                         *)
(* A privileged request is verified first (Gate) and runs with the context *)
(* it got then, row after row for a bulk invitation.  A call is one action *)
(* per await, named for what is awaited; calls that are refused change     *)
(* nothing and are left out.  Whoever logs in or changes a password has    *)
(* the right one or is refused; temporary passwords and keys that expire   *)
(* are refused as well.  All sign-ups ask for organisations of one name,   *)
(* so that the name's slug is what they race for.                          *)
(***************************************************************************)
EXTENDS Naturals

CONSTANTS
    Emails,      \* addresses: User.email is unique over all organisations
    Keys,        \* ids of API keys
    Calls,       \* requests in flight
    Roles,       \* roles in use, by their rank
    Suffixes,    \* bound on the numbers tried for a slug
    Production,  \* NODE_ENV = "production"
    None         \* no row, no value

ADMIN == 3
OWNER == 4

\* An organisation is its slug: a number after the name, or after the name
\* and the random bytes of one sign-up, which nobody else draws.
Org == Suffixes \X (Emails \cup {None})

User == [org : Org, role : Roles, mustChangePassword : BOOLEAN]
ApiKey == [org : Org, role : Roles, createdBy : Emails, revokedAt : BOOLEAN]

ASSUME MembersAssumption ==
    /\ {ADMIN, OWNER} \subseteq Roles /\ Roles \subseteq 1..OWNER
    /\ Suffixes \subseteq Nat /\ Production \in BOOLEAN
    /\ None \notin Emails \cup Keys \cup Org \cup User \cup ApiKey

VARIABLES
    orgs,      \* Org table
    user,      \* User table
    apiKey,    \* ApiKey table
    call,      \* requests in flight
    sessions,  \* addresses that hold a session token
    chosen,    \* addresses whose own password was written undisputed
    refused,   \* addresses whose sign-up a unique index refused for good
    disputed   \* organisations where a write went by outdated facts

vars == <<orgs, user, apiKey, call, sessions, chosen, refused, disputed>>

-----------------------------------------------------------------------------
(* Types *)

Call == [pc : {"idle", "Gated", "InviteUpdate", "InviteCreate", "RoleWrite", "ChangeWrite",
               "SignUpSlug", "SignUpCommit", "RetrySlug", "RetryCommit"},
         actor  : Emails \cup {None},     \* context.userId
         key    : Keys \cup {None},       \* the key the context was issued for
         rank   : Roles \cup {0},         \* context.roles
         org    : Org \cup {None},        \* context.orgId, or the slug of a sign-up
         target : Emails \cup {None},     \* address or user id in the request
         role   : Roles \cup {0},         \* role in the request
         was    : Roles \cup {0},         \* role of the row that was read
         fresh  : BOOLEAN]                \* nothing changed the actor's authority since Gate
Idle == [pc |-> "idle", actor |-> None, key |-> None, rank |-> 0, org |-> None,
         target |-> None, role |-> 0, was |-> 0, fresh |-> TRUE]

Registered == {e \in Emails : user[e] # None}

TypeOK ==
    /\ orgs \subseteq Org
    /\ user \in [Emails -> User \cup {None}]
    /\ apiKey \in [Keys -> ApiKey \cup {None}]
    /\ call \in [Calls -> Call]
    /\ sessions \subseteq Registered
    /\ chosen \subseteq Registered
    /\ refused \subseteq Emails
    /\ disputed \subseteq orgs
    /\ \A e \in Registered : user[e].org \in orgs
    /\ \A c \in Calls : call[c].role <= call[c].rank

-----------------------------------------------------------------------------
(* State functions *)

Live(e) == e \in Registered /\ ~user[e].mustChangePassword

\* verifyToken for a session: the row is read again, whatever the token says.
Accepts(e) == e \in sessions /\ ~user[e].mustChangePassword

\* verifyToken for an API key.
KeyAccepted(k) == apiKey[k] # None /\ ~apiKey[k].revokedAt

Grants_Any(q, r) == TRUE  \* mutant: any role may be granted

\* inviteUser, assignRole and createApiKey give no role above the actor's.
Grants(q, r) == r <= q.rank

MayInvite_Anyone(e, org) == user[e] # None => user[e].org = org  \* mutant: no mustChangePassword

\* inviteUser: a new address, or a pending member of the same organisation.
MayInvite(e, org) == user[e] # None => user[e].org = org /\ user[e].mustChangePassword

MayAssign_Self(q, t, r) ==  \* mutant: one may demote oneself
    user[t].org = q.org /\ Grants(q, r) /\ user[t].role <= q.rank

\* assignRole: nobody who outranks the actor changes role, and nobody demotes
\* himself.
MayAssign(q, t, r) ==
    /\ user[t].org = q.org
    /\ Grants(q, r) /\ user[t].role <= q.rank
    /\ ~(t = q.actor /\ r < q.rank)

\* An invitation that found e pending and will overwrite the row.
Reinviting(e) == \E c \in Calls : call[c].pc = "InviteUpdate" /\ call[c].target = e

\* What a role change was decided on still holds, and whoever a key acts for
\* still has the key's role.
Settled(c) ==
    /\ call[c].fresh
    /\ user[call[c].target].role = call[c].was
    /\ call[c].key # None => Live(call[c].actor) /\ user[call[c].actor].role >= call[c].rank

\* Requests of e, or of key k, go on with the authority they had.
ActorChanged(e, cs) == [c \in Calls |->
    IF cs[c].key = None /\ cs[c].actor = e THEN [cs[c] EXCEPT !.fresh = FALSE] ELSE cs[c]]
KeyChanged(k, cs) == [c \in Calls |->
    IF cs[c].key = k THEN [cs[c] EXCEPT !.fresh = FALSE] ELSE cs[c]]

Return(c) == call' = [call EXCEPT ![c] = Idle]

-----------------------------------------------------------------------------
(* requireRole, and the answers *)

\* A request that needs the ADMIN role, with a session or an API key.  A key
\* acts for whoever created it, with a role of its own.
Gate(c) ==
    /\ call[c] = Idle
    /\ \/ \E e \in Emails :
            /\ Accepts(e) /\ user[e].role >= ADMIN
            /\ call' = [call EXCEPT ![c] = [Idle EXCEPT !.pc = "Gated", !.actor = e,
                            !.rank = user[e].role, !.org = user[e].org]]
       \/ \E k \in Keys :
            /\ KeyAccepted(k) /\ apiKey[k].role >= ADMIN
            /\ call' = [call EXCEPT ![c] = [Idle EXCEPT !.pc = "Gated", !.key = k,
                            !.actor = apiKey[k].createdBy, !.rank = apiKey[k].role,
                            !.org = apiKey[k].org]]
    /\ UNCHANGED <<orgs, user, apiKey, sessions, chosen, refused, disputed>>

\* Mail, audit row and answer follow a written invitation; whether they fail or
\* not, it stands.  A bulk invitation goes on to its next row with the context
\* it has.
Answered(c, cs) ==
    \/ call' = [cs EXCEPT ![c] = Idle]
    \/ call' = [cs EXCEPT ![c].pc = "Gated", ![c].target = None, ![c].role = 0]

\* The audit row and the session token follow, or fail and leave none.
SignedIn(e) == sessions' \in {sessions, sessions \cup {e}}

-----------------------------------------------------------------------------
(* signUp *)

SignUpRead(c, e) ==
    /\ call[c] = Idle /\ user[e] = None
    /\ call' = [call EXCEPT ![c] = [Idle EXCEPT !.pc = "SignUpSlug", !.target = e]]
    /\ UNCHANGED <<orgs, user, apiKey, sessions, chosen, refused, disputed>>

\* The transaction looks for the first free slug: it sees what is committed.
\* The second attempt puts random bytes after the name.
Slug(c) ==
    LET retry == call[c].pc = "RetrySlug"
        base  == IF retry THEN call[c].target ELSE None IN
    /\ call[c].pc \in {"SignUpSlug", "RetrySlug"}
    /\ \E n \in Suffixes :
        /\ <<n, base>> \notin orgs
        /\ \A m \in Suffixes : m < n => <<m, base>> \in orgs
        /\ call' = [call EXCEPT ![c].org = <<n, base>>,
                                ![c].pc = IF retry THEN "RetryCommit" ELSE "SignUpCommit"]
    /\ UNCHANGED <<orgs, user, apiKey, sessions, chosen, refused, disputed>>

IndexesFree(c) == call[c].org \notin orgs /\ user[call[c].target] = None

\* Organisation and owner are created in one transaction.
Commit(c) ==
    LET e == call[c].target  o == call[c].org IN
    /\ call[c].pc \in {"SignUpCommit", "RetryCommit"}
    /\ IndexesFree(c)
    /\ orgs' = orgs \cup {o}
    /\ user' = [user EXCEPT ![e] = [org |-> o, role |-> OWNER, mustChangePassword |-> FALSE]]
    /\ chosen' = chosen \cup {e}
    /\ SignedIn(e)
    /\ Return(c)
    /\ UNCHANGED <<apiKey, refused, disputed>>

Retries_Never(c) == FALSE  \* mutant: no second transaction
Retries(c) == call[c].pc = "SignUpCommit"

\* P2002 aborts the transaction: a new one once, then INTERNAL.
Collide(c) ==
    /\ call[c].pc \in {"SignUpCommit", "RetryCommit"}
    /\ ~IndexesFree(c)
    /\ IF Retries(c)
       THEN call' = [call EXCEPT ![c].pc = "RetrySlug"] /\ UNCHANGED refused
       ELSE Return(c) /\ refused' = refused \cup {call[c].target}
    /\ UNCHANGED <<orgs, user, apiKey, sessions, chosen, disputed>>

-----------------------------------------------------------------------------
(* inviteUser *)

InviteRead(c, e, r) ==
    /\ call[c].pc = "Gated"
    /\ Grants(call[c], r)
    /\ MayInvite(e, call[c].org)
    /\ call' = [call EXCEPT ![c].target = e, ![c].role = r,
                            ![c].pc = IF user[e] = None THEN "InviteCreate" ELSE "InviteUpdate"]
    /\ UNCHANGED <<orgs, user, apiKey, sessions, chosen, refused, disputed>>

\* A new temporary password for the row that was found pending.
InviteUpdate(c) ==
    LET e == call[c].target IN
    /\ call[c].pc = "InviteUpdate"
    /\ user' = [user EXCEPT ![e].role = call[c].role, ![e].mustChangePassword = TRUE]
    /\ Answered(c, ActorChanged(e, call))
    /\ disputed' = IF Live(e) THEN disputed \cup {call[c].org} ELSE disputed
    /\ UNCHANGED <<orgs, apiKey, sessions, chosen, refused>>

InviteCreate(c) ==
    LET e == call[c].target IN
    /\ call[c].pc = "InviteCreate" /\ user[e] = None
    /\ user' = [user EXCEPT ![e] = [org |-> call[c].org, role |-> call[c].role,
                                    mustChangePassword |-> TRUE]]
    /\ Answered(c, call)
    /\ UNCHANGED <<orgs, apiKey, sessions, chosen, refused, disputed>>

-----------------------------------------------------------------------------
(* changePassword, login and issueDevToken *)

\* The current password is right; the new one is hashed after the check.
ChangeRead(c, e) ==
    /\ call[c] = Idle /\ e \in Registered
    /\ call' = [call EXCEPT ![c] = [Idle EXCEPT !.pc = "ChangeWrite", !.target = e]]
    /\ UNCHANGED <<orgs, user, apiKey, sessions, chosen, refused, disputed>>

ChangeWrite(c) ==
    LET e == call[c].target IN
    /\ call[c].pc = "ChangeWrite"
    /\ user' = [user EXCEPT ![e].mustChangePassword = FALSE]
    /\ chosen' = IF Reinviting(e) THEN chosen ELSE chosen \cup {e}
    /\ SignedIn(e)
    /\ Return(c)
    /\ UNCHANGED <<orgs, apiKey, refused, disputed>>

NewSession(e) ==
    /\ sessions' = sessions \cup {e}
    /\ UNCHANGED <<orgs, user, apiKey, call, chosen, refused, disputed>>

\* No session for a temporary password.
Login(e) == Live(e) /\ NewSession(e)

\* Outside production every row has a session for the asking.
IssueDevToken(e) == ~Production /\ e \in Registered /\ NewSession(e)

-----------------------------------------------------------------------------
(* assignRole *)

RoleRead(c, t, r) ==
    /\ call[c].pc = "Gated" /\ t \in Registered
    /\ MayAssign(call[c], t, r)
    /\ call' = [call EXCEPT ![c].pc = "RoleWrite", ![c].target = t, ![c].role = r,
                            ![c].was = user[t].role]
    /\ UNCHANGED <<orgs, user, apiKey, sessions, chosen, refused, disputed>>

RoleWrite(c) ==
    LET t == call[c].target IN
    /\ call[c].pc = "RoleWrite"
    /\ user' = [user EXCEPT ![t].role = call[c].role]
    /\ call' = ActorChanged(t, [call EXCEPT ![c] = Idle])
    /\ disputed' = IF Settled(c) THEN disputed ELSE disputed \cup {call[c].org}
    /\ UNCHANGED <<orgs, apiKey, sessions, chosen, refused>>

-----------------------------------------------------------------------------
(* API keys *)

KeyCreate(c, k, r) ==
    /\ call[c].pc = "Gated" /\ apiKey[k] = None
    /\ Grants(call[c], r)
    /\ apiKey' = [apiKey EXCEPT ![k] = [org |-> call[c].org, role |-> r,
                                        createdBy |-> call[c].actor, revokedAt |-> FALSE]]
    /\ Return(c)
    /\ UNCHANGED <<orgs, user, sessions, chosen, refused, disputed>>

\* Read and update are one action: the key's organisation never changes and
\* revoking twice is the same as once.
KeyRevoke(c, k) ==
    /\ call[c].pc = "Gated" /\ apiKey[k] # None
    /\ apiKey[k].org = call[c].org
    /\ apiKey' = [apiKey EXCEPT ![k].revokedAt = TRUE]
    /\ call' = KeyChanged(k, [call EXCEPT ![c] = Idle])
    /\ UNCHANGED <<orgs, user, sessions, chosen, refused, disputed>>

-----------------------------------------------------------------------------
(* Failures *)

\* signUp, login and the key handlers catch what goes wrong and answer.
Error(c) ==
    /\ call[c].pc \in {"Gated", "SignUpSlug", "RetrySlug", "SignUpCommit", "RetryCommit"}
    /\ Return(c)
    /\ UNCHANGED <<orgs, user, apiKey, sessions, chosen, refused, disputed>>

\* The process ends and every call with it; requests still at the gateway go
\* on once it is back.  A rejection in inviteUser, changePassword or
\* assignRole, which have no catch, is enough: two invitations of a new
\* address, say, of which the index refuses the second.
Down ==
    /\ call' = [c \in Calls |-> IF call[c].pc = "Gated" THEN call[c] ELSE Idle]
    /\ UNCHANGED <<orgs, user, apiKey, sessions, chosen, refused, disputed>>

-----------------------------------------------------------------------------
(* Specification *)

Init ==
    /\ orgs = {}
    /\ user = [e \in Emails |-> None]
    /\ apiKey = [k \in Keys |-> None]
    /\ call = [c \in Calls |-> Idle]
    /\ sessions = {} /\ chosen = {} /\ refused = {} /\ disputed = {}

\* The account routes; those that do not wait are one action.
AccountStep ==
    \/ \E c \in Calls, e \in Emails : SignUpRead(c, e) \/ ChangeRead(c, e)
    \/ \E c \in Calls : Slug(c) \/ Commit(c) \/ Collide(c) \/ ChangeWrite(c)
    \/ \E e \in Emails : Login(e) \/ IssueDevToken(e)

\* What an ADMIN does with the members.
MemberStep(c) ==
    \/ Gate(c)
    \/ \E e \in Emails, r \in Roles : InviteRead(c, e, r) \/ RoleRead(c, e, r)
    \/ InviteUpdate(c) \/ InviteCreate(c) \/ RoleWrite(c)

KeyStep(c) ==
    \E k \in Keys : KeyRevoke(c, k) \/ \E r \in Roles : KeyCreate(c, k, r)

Next ==
    \/ AccountStep
    \/ \E c \in Calls : MemberStep(c) \/ KeyStep(c) \/ Error(c)
    \/ Down

Spec == Init /\ [][Next]_vars

-----------------------------------------------------------------------------
(* Safety *)

\* Once a member's own password is written, by signing up or by replacing a
\* temporary one with no invitation between its read (service.ts:297) and its
\* write, no invitation ever puts a temporary password over it, not even one
\* that found no account (the index refuses it).
ChosenPasswordHolds == \A e \in chosen : Live(e)

\* Every organisation, from its first row on, has an owner who can log in,
\* as long as no role was written on outdated facts (the actor demoted or the
\* target changed since they were read, a key that outranks its creator) and
\* no invitation was written over an account accepted meanwhile: the guards
\* of assignRole (service.ts:433-442) leave the actor behind, whoever demotes
\* whom in which order.
OwnerRemains ==
    \A o \in orgs \ disputed : \E e \in Registered :
        user[e].org = o /\ user[e].role = OWNER /\ Live(e)

\* "One retry with a random suffix is enough" (service.ts:225-227): a sign-up
\* that the unique indexes refuse for good lost its address to somebody, and
\* never only the name of its organisation.
NameClashSurvived == refused \subseteq Registered

=============================================================================
