---------------------------- MODULE MembersProofs ----------------------------
(***************************************************************************)
(* The safety properties of Members, proved for any number of addresses,   *)
(* keys, calls and slugs, with errors and crashes at any time.  Fine says  *)
(* what a call may rely on between its read and its write, KeyOK and OrgOK *)
(* whose a key and a slug are.                                             *)
(***************************************************************************)
EXTENDS Members, TLAPS

ByMember == {"Gated", "InviteUpdate", "InviteCreate", "RoleWrite"}

Fine(q) ==
    /\ q.pc = "idle" => q = Idle
    /\ q.pc \in ByMember <=> q.actor # None
    /\ q.actor # None =>
           /\ q.actor \in Registered /\ q.org = user[q.actor].org /\ q.rank \in Roles
           /\ q.key # None => apiKey[q.key] # None
    /\ q.actor = None => q.key = None
    /\ q.pc \notin {"idle", "Gated"} => q.target \in Emails
    /\ q.pc \in {"InviteUpdate", "InviteCreate", "RoleWrite"} => q.role \in Roles
    /\ q.pc \in {"InviteUpdate", "RoleWrite", "ChangeWrite"} => q.target \in Registered
    /\ q.pc \in {"InviteUpdate", "RoleWrite"} => user[q.target].org = q.org
    /\ q.pc = "RoleWrite" =>
           q.was \in Roles /\ q.was <= q.rank /\ ~(q.target = q.actor /\ q.role < q.rank)
    /\ q.pc \in {"SignUpCommit", "RetryCommit"} => q.org \in Org
    /\ q.pc = "SignUpCommit" => q.org[2] = None
    /\ q.pc = "RetryCommit" => q.org[2] = q.target

CallOK == \A c \in Calls : Fine(call[c])

\* A key is of its creator's organisation.
KeyOK == \A k \in Keys : apiKey[k] # None =>
    apiKey[k].createdBy \in Registered /\ apiKey[k].org = user[apiKey[k].createdBy].org

\* A slug with random bytes is of the account that drew them.
OrgOK == \A o \in orgs : o[2] = None \/ o[2] \in Registered

WellFormed == TypeOK /\ CallOK /\ KeyOK /\ OrgOK

-----------------------------------------------------------------------------
(* Types and calls *)

\* TypeOK without the calls, and the calls.
TablesOK ==
    /\ orgs \subseteq Org
    /\ user \in [Emails -> User \cup {None}]
    /\ apiKey \in [Keys -> ApiKey \cup {None}]
    /\ sessions \subseteq Registered
    /\ chosen \subseteq Registered
    /\ refused \subseteq Emails
    /\ disputed \subseteq orgs
    /\ \A e \in Registered : user[e].org \in orgs
CallsTyped == call \in [Calls -> Call] /\ \A c \in Calls : call[c].role <= call[c].rank

LEMMA TypeParts == TypeOK <=> TablesOK /\ CallsTyped
BY DEF TypeOK, TablesOK, CallsTyped

LEMMA Constants ==
    /\ None \notin Emails /\ None \notin Keys /\ None \notin Org /\ None \notin User /\ None \notin ApiKey
    /\ Roles \subseteq 1..4 /\ Roles \subseteq Nat /\ 0 \notin Roles
    /\ Idle \in Call /\ Idle.pc = "idle" /\ Idle.actor = None /\ Idle.key = None
    /\ Idle.role = 0 /\ Idle.rank = 0 /\ Idle.fresh
<1>1. Roles \subseteq 1..4
  BY MembersAssumption DEF OWNER
<1>2. QED  BY <1>1, MembersAssumption DEF Idle, Call

\* Rows stay, in the organisation they were created in; keys stay.
Kept ==
    /\ Registered \subseteq Registered'
    /\ \A e \in Registered : user'[e].org = user[e].org
    /\ \A k \in Keys : apiKey[k] # None => apiKey'[k] # None

\* What a call relies on outlives the steps of others.
LEMMA FineKept == ASSUME Kept, NEW q \in Call, Fine(q) PROVE Fine(q)'
BY DEF Fine, Kept, Call

LEMMA IdleFine == Fine(Idle)'
BY Constants DEF Fine, ByMember, Idle

\* The other calls are as they were, older, or gone with the process.
LEMMA CallsKept ==
    ASSUME WellFormed, Kept, call' \in [Calls -> Call],
           \A d \in Calls : \/ call'[d] = Idle \/ call'[d] = call[d]
                            \/ call[d].actor # None /\ call'[d] = [call[d] EXCEPT !.fresh = FALSE]
                            \/ Fine(call[d])' /\ call'[d].role <= call'[d].rank
    PROVE  CallsTyped' /\ CallOK'
<1>1. CallsTyped /\ CallOK
  BY TypeParts DEF WellFormed
<1>2. ASSUME NEW d \in Calls PROVE Fine(call[d])' /\ call'[d].role <= call'[d].rank
  <2>1. CASE call'[d] = Idle
    BY <2>1, IdleFine, Constants DEF Fine, Registered
  <2>2. CASE call'[d] = call[d]
    BY <2>2, <1>1, FineKept DEF CallsTyped, CallOK, Fine, Registered
  <2>3. CASE call[d].actor # None /\ call'[d] = [call[d] EXCEPT !.fresh = FALSE]
    <3>1. call[d] \in Call /\ Fine(call[d]) /\ call[d].role <= call[d].rank
      BY <1>1 DEF CallsTyped, CallOK
    <3>2. PICK q \in Call : q = call[d]
      BY <3>1
    <3>3. Fine(q)'
      BY <3>1, <3>2, FineKept
    <3> DEFINE r == [q EXCEPT !.fresh = FALSE]
    <3>4. /\ r.pc = q.pc /\ r.actor = q.actor /\ r.key = q.key /\ r.rank = q.rank /\ r.org = q.org
          /\ r.target = q.target /\ r.role = q.role /\ r.was = q.was
      BY DEF Call
    <3>5. q.pc # "idle"
      BY <2>3, <3>1, <3>2, Constants DEF Fine
    <3> HIDE DEF r
    <3>6. Fine(r)'
      BY <3>3, <3>4, <3>5 DEF Fine, Registered
    <3>7. call'[d] = r
      BY <2>3, <3>2 DEF r
    <3>8. QED  BY <3>1, <3>2, <3>4, <3>6, <3>7 DEF Fine, Registered
  <2>4. CASE Fine(call[d])' /\ call'[d].role <= call'[d].rank
    BY <2>4
  <2>5. QED  BY <2>1, <2>2, <2>3, <2>4
<1>3. QED  BY <1>2 DEF CallsTyped, CallOK

\* One call takes a step, and requests of members or keys that changed go on
\* with the authority they had.
LEMMA StepCall ==
    ASSUME WellFormed, Kept, NEW c \in Calls, NEW k \in Call, Fine(k)', k.role <= k.rank,
           call' \in [Calls -> Call], call'[c] = k,
           \A d \in Calls \ {c} : \/ call'[d] = call[d]
                                  \/ call[d].actor # None /\ call'[d] = [call[d] EXCEPT !.fresh = FALSE]
    PROVE  CallsTyped' /\ CallOK'
<1>1. Fine(call[c])' /\ call'[c].role <= call'[c].rank
  BY DEF Fine, Registered
<1>2. QED  BY <1>1, CallsKept

LEMMA OneCall ==
    ASSUME WellFormed, Kept, NEW c \in Calls, NEW k \in Call, Fine(k)', k.role <= k.rank,
           call' = [call EXCEPT ![c] = k]
    PROVE  CallsTyped' /\ CallOK'
<1>1. call \in [Calls -> Call]
  BY TypeParts DEF WellFormed, CallsTyped
<1>2. QED  BY <1>1, StepCall

LEMMA ReturnCall ==
    ASSUME WellFormed, Kept, NEW c \in Calls, Return(c)
    PROVE  CallsTyped' /\ CallOK'
<1>1. Idle \in Call /\ Idle.role <= Idle.rank /\ Fine(Idle)'
  BY Constants, IdleFine
<1>2. call' = [call EXCEPT ![c] = Idle]
  BY DEF Return
<1>3. QED  BY <1>1, <1>2, OneCall

LEMMA ActorAged ==
    ASSUME WellFormed, NEW e \in Emails, NEW d \in Calls
    PROVE  /\ ActorChanged(e, call)[d] \in Call
           /\ \/ ActorChanged(e, call)[d] = call[d]
              \/ call[d].actor # None /\ ActorChanged(e, call)[d] = [call[d] EXCEPT !.fresh = FALSE]
<1>1. call[d] \in Call
  BY TypeParts DEF WellFormed, CallsTyped
<1>2. [call[d] EXCEPT !.fresh = FALSE] \in Call
  BY <1>1 DEF Call
<1>3. e # None
  BY Constants
<1>4. ActorChanged(e, call)[d] = IF call[d].key = None /\ call[d].actor = e
                                THEN [call[d] EXCEPT !.fresh = FALSE] ELSE call[d]
  BY DEF ActorChanged
<1>5. CASE call[d].key = None /\ call[d].actor = e
  BY <1>2, <1>3, <1>4, <1>5
<1>6. CASE ~(call[d].key = None /\ call[d].actor = e)
  BY <1>1, <1>4, <1>6
<1>7. QED  BY <1>5, <1>6

LEMMA SameTables ==
    ASSUME UNCHANGED <<user, apiKey>>
    PROVE  Kept /\ Registered' = Registered
BY DEF Kept, Registered

\* A step that changes no table but who waits.
LEMMA TablesKept ==
    ASSUME WellFormed, UNCHANGED <<orgs, user, apiKey, chosen, disputed>>,
           sessions' \subseteq Registered, refused' \subseteq Emails
    PROVE  TablesOK' /\ Kept /\ KeyOK' /\ OrgOK'
BY TypeParts, SameTables DEF WellFormed, TablesOK, KeyOK, OrgOK

LEMMA WellFormedInit == Init => WellFormed
<1> SUFFICES ASSUME Init PROVE WellFormed
  OBVIOUS
<1>1. TablesOK /\ KeyOK /\ OrgOK
  BY Constants DEF Init, TablesOK, KeyOK, OrgOK, Registered
<1>2. Fine(Idle)
  BY Constants DEF Fine, ByMember, Idle
<1>3. CallsTyped /\ CallOK
  BY <1>2, Constants DEF Init, CallsTyped, CallOK
<1>4. QED  BY <1>1, <1>3, TypeParts DEF WellFormed

\* What changing one row by a function of the row leaves of the tables.
LEMMA UpdateUser ==
    ASSUME WellFormed, NEW e \in Registered, NEW r \in User, r.org = user[e].org,
           user' = [user EXCEPT ![e] = r], UNCHANGED <<orgs, apiKey, refused>>,
           chosen' \subseteq Registered, sessions' \subseteq Registered, disputed' \subseteq orgs
    PROVE  TablesOK' /\ Kept /\ KeyOK' /\ OrgOK'
<1>1. TablesOK /\ KeyOK /\ OrgOK /\ e \in Emails
  BY TypeParts DEF WellFormed, Registered
<1>2. user' \in [Emails -> User \cup {None}] /\ \A f \in Emails : user'[f] = IF f = e THEN r ELSE user[f]
  BY <1>1 DEF TablesOK
<1>3. Registered' = Registered
  BY <1>1, <1>2, Constants DEF Registered
<1>4. \A f \in Registered : user'[f].org = user[f].org
  BY <1>2 DEF Registered
<1>5. QED  BY <1>1, <1>2, <1>3, <1>4 DEF TablesOK, Kept, KeyOK, OrgOK

\* What a new row leaves of the tables.
LEMMA CreateUser ==
    ASSUME WellFormed, NEW e \in Emails, user[e] = None, NEW r \in User, r.org \in orgs',
           user' = [user EXCEPT ![e] = r], UNCHANGED <<apiKey, refused, disputed>>,
           orgs \subseteq orgs', orgs' \subseteq Org,
           \A o \in orgs' \ orgs : o[2] = None \/ o[2] = e,
           chosen' \subseteq Registered \cup {e}, sessions' \subseteq Registered \cup {e}
    PROVE  TablesOK' /\ Kept /\ KeyOK' /\ OrgOK'
<1>1. TablesOK /\ KeyOK /\ OrgOK
  BY TypeParts DEF WellFormed
<1>2. user' \in [Emails -> User \cup {None}] /\ \A f \in Emails : user'[f] = IF f = e THEN r ELSE user[f]
  BY <1>1 DEF TablesOK
<1>3. Registered' = Registered \cup {e} /\ e \notin Registered
  BY <1>1, <1>2, Constants DEF Registered
<1>4. \A f \in Registered : user'[f] = user[f]
  BY <1>2, <1>3 DEF Registered
<1>5. QED  BY <1>1, <1>2, <1>3, <1>4 DEF TablesOK, Kept, KeyOK, OrgOK

\* Aged or not, the fields a call goes by are the same.
LEMMA AgedFields ==
    ASSUME WellFormed, NEW e \in Emails, NEW d \in Calls, NEW q \in Call,
           q \in {call[d], ActorChanged(e, call)[d]}
    PROVE  /\ Fine(q) /\ q.role <= q.rank
           /\ q.pc = call[d].pc /\ q.actor = call[d].actor /\ q.key = call[d].key
           /\ q.rank = call[d].rank /\ q.org = call[d].org /\ q.target = call[d].target
           /\ q.role = call[d].role /\ q.was = call[d].was
           /\ q.fresh => call[d].fresh
<1>1. call[d] \in Call /\ Fine(call[d]) /\ call[d].role <= call[d].rank
  BY TypeParts DEF WellFormed, CallsTyped, CallOK
<1>2. CASE q = call[d]
  BY <1>1, <1>2
<1>3. CASE call[d].actor # None /\ q = [call[d] EXCEPT !.fresh = FALSE]
  <2>1. /\ q.pc = call[d].pc /\ q.actor = call[d].actor /\ q.key = call[d].key
        /\ q.rank = call[d].rank /\ q.org = call[d].org /\ q.target = call[d].target
        /\ q.role = call[d].role /\ q.was = call[d].was /\ ~q.fresh
    BY <1>1, <1>3 DEF Call
  <2>2. call[d].pc # "idle"
    BY <1>1, <1>3, Constants DEF Fine
  <2>3. Fine(q)
    BY <1>1, <2>1, <2>2 DEF Fine
  <2>4. QED  BY <1>1, <2>1, <2>3
<1>4. QED  BY <1>2, <1>3, ActorAged

LEMMA AnsweredCall ==
    ASSUME WellFormed, Kept, NEW c \in Calls, NEW e \in Emails,
           call[c].pc \in {"InviteUpdate", "InviteCreate"},
           Answered(c, call) \/ Answered(c, ActorChanged(e, call))
    PROVE  CallsTyped' /\ CallOK'
<1> DEFINE Aged(cs) == /\ cs \in [Calls -> Call]
                       /\ \A d \in Calls : \/ cs[d] = call[d]
                                           \/ call[d].actor # None /\ cs[d] = [call[d] EXCEPT !.fresh = FALSE]
<1>1. call \in [Calls -> Call]
  BY TypeParts DEF WellFormed, CallsTyped
<1>2. ActorChanged(e, call) \in [Calls -> Call]
  <2>1. ActorChanged(e, call) = [d \in Calls |-> ActorChanged(e, call)[d]]
    BY DEF ActorChanged
  <2>2. \A d \in Calls : ActorChanged(e, call)[d] \in Call
    BY ActorAged
  <2>3. QED  BY <2>1, <2>2, Zenon
<1>3. Aged(call) /\ Aged(ActorChanged(e, call))
  BY <1>1, <1>2, ActorAged
<1>4. PICK cs : Answered(c, cs) /\ Aged(cs) /\ cs \in {call, ActorChanged(e, call)}
  BY <1>3
<1>5. PICK q \in Call : q = cs[c]
  BY <1>4
<1>6. /\ Fine(q) /\ q.role <= q.rank /\ q.pc \in {"InviteUpdate", "InviteCreate"}
  BY <1>4, <1>5, AgedFields
<1>7. Fine(q)'
  BY <1>6, FineKept
<1>8. CASE call' = [cs EXCEPT ![c] = Idle]
  <2>1. call' \in [Calls -> Call] /\ call'[c] = Idle /\ \A d \in Calls \ {c} : call'[d] = cs[d]
    BY <1>4, <1>8, Constants
  <2>2. Idle \in Call /\ Idle.role <= Idle.rank /\ Fine(Idle)'
    BY Constants, IdleFine
  <2>3. QED  BY <1>4, <2>1, <2>2, StepCall
<1>9. CASE call' = [cs EXCEPT ![c].pc = "Gated", ![c].target = None, ![c].role = 0]
  <2> DEFINE k == [q EXCEPT !.pc = "Gated", !.target = None, !.role = 0]
  <2>1. k \in Call
    BY DEF Call
  <2>2. /\ k.pc = "Gated" /\ k.actor = q.actor /\ k.key = q.key /\ k.rank = q.rank /\ k.org = q.org
        /\ k.role = 0
    BY DEF Call
  <2> HIDE DEF k
  <2>3. q.actor # None /\ q.rank \in Roles
    BY <1>6 DEF Fine, ByMember
  <2>4. Fine(k)'
    BY <1>7, <2>2, <2>3, Constants DEF Fine, ByMember, Registered
  <2>5. k.role <= k.rank
    <3>1. q.rank \in Nat /\ k.rank = q.rank /\ k.role = 0
      BY <2>2, <2>3, Constants
    <3>2. QED  BY <3>1
  <2>6. call' = [cs EXCEPT ![c] = k]
    BY <1>4, <1>5, <1>9 DEF k
  <2>7. call' \in [Calls -> Call] /\ call'[c] = k /\ \A d \in Calls \ {c} : call'[d] = cs[d]
    BY <1>4, <2>1, <2>6
  <2>8. QED  BY <1>4, <2>1, <2>4, <2>5, <2>7, StepCall
<1>10. QED  BY <1>4, <1>8, <1>9 DEF Answered

LEMMA WellFormedStep == ASSUME WellFormed, [Next]_vars PROVE WellFormed' /\ Kept
<1>wf. TablesOK /\ CallsTyped /\ CallOK /\ KeyOK /\ OrgOK
  BY TypeParts DEF WellFormed
<1>typed. call \in [Calls -> Call] /\ user \in [Emails -> User \cup {None}]
          /\ apiKey \in [Keys -> ApiKey \cup {None}] /\ sessions \subseteq Registered
          /\ chosen \subseteq Registered /\ refused \subseteq Emails /\ disputed \subseteq orgs
  BY <1>wf DEF CallsTyped, TablesOK
<1>fine. ASSUME NEW c \in Calls PROVE call[c] \in Call /\ Fine(call[c]) /\ call[c].role <= call[c].rank
  BY <1>wf DEF CallsTyped, CallOK
<1>row. ASSUME NEW e \in Registered PROVE e \in Emails /\ user[e] \in User /\ e # None /\ user[e].org \in orgs
  BY <1>wf, Constants DEF TablesOK, Registered
<1>all. ASSUME TablesOK', Kept, CallsTyped', CallOK', KeyOK', OrgOK' PROVE WellFormed' /\ Kept
  BY <1>all DEF WellFormed, TypeOK, TablesOK, CallsTyped
\* A step of a call that changes no table.
<1>call. ASSUME NEW c \in Calls, NEW k \in Call, Fine(k), k.role <= k.rank, call' = [call EXCEPT ![c] = k],
                UNCHANGED <<orgs, user, apiKey, chosen, disputed>>,
                sessions' \subseteq Registered, refused' \subseteq Emails
         PROVE  WellFormed' /\ Kept
  <2>1. TablesOK' /\ Kept /\ KeyOK' /\ OrgOK'
    BY <1>call, TablesKept
  <2>2. CallsTyped' /\ CallOK'
    BY <1>call, <2>1, FineKept, OneCall
  <2>3. QED  BY <2>1, <2>2, <1>all
<1>idle. Fine(Idle) /\ Idle \in Call /\ Idle.role <= Idle.rank
  BY Constants DEF Fine, ByMember, Idle
<1>return. ASSUME NEW c \in Calls, Return(c), UNCHANGED <<orgs, user, apiKey, chosen, disputed>>,
                  sessions' \subseteq Registered, refused' \subseteq Emails
           PROVE  WellFormed' /\ Kept
  BY <1>return, <1>idle, <1>call DEF Return
<1>1. ASSUME NEW c \in Calls, NEW e \in Emails, SignUpRead(c, e) PROVE WellFormed' /\ Kept
  <2>1. PICK k \in Call : k = [Idle EXCEPT !.pc = "SignUpSlug", !.target = e]
    BY Constants DEF Call
  <2>2. /\ k.pc = "SignUpSlug" /\ k.actor = None /\ k.key = None /\ k.target = e /\ k.role = 0 /\ k.rank = 0
    BY <2>1, Constants DEF Call
  <2>3. Fine(k) /\ k.role <= k.rank
    BY <2>2 DEF Fine, ByMember
  <2>4. QED  BY <1>1, <1>typed, <2>1, <2>3, <1>call DEF SignUpRead
<1>2. ASSUME NEW c \in Calls, NEW e \in Emails, ChangeRead(c, e) PROVE WellFormed' /\ Kept
  <2>1. PICK k \in Call : k = [Idle EXCEPT !.pc = "ChangeWrite", !.target = e]
    BY Constants DEF Call
  <2>2. /\ k.pc = "ChangeWrite" /\ k.actor = None /\ k.key = None /\ k.target = e /\ k.role = 0 /\ k.rank = 0
    BY <2>1, Constants DEF Call
  <2>3. e \in Registered
    BY <1>2 DEF ChangeRead
  <2>4. Fine(k) /\ k.role <= k.rank
    BY <2>2, <2>3 DEF Fine, ByMember
  <2>5. QED  BY <1>2, <1>typed, <2>1, <2>4, <1>call DEF ChangeRead
<1>3. ASSUME NEW c \in Calls, Slug(c) PROVE WellFormed' /\ Kept
  <2>1. call[c].pc \in {"SignUpSlug", "RetrySlug"} /\ UNCHANGED <<orgs, user, apiKey, sessions, chosen, refused, disputed>>
    BY <1>3 DEF Slug
  <2>2. call[c].target \in Emails /\ call[c].actor = None /\ call[c].key = None
    BY <1>fine, <2>1 DEF Fine, ByMember
  <2>3. PICK o \in Org, p \in {"SignUpCommit", "RetryCommit"} :
          /\ call' = [call EXCEPT ![c].org = o, ![c].pc = p]
          /\ p = "SignUpCommit" => o[2] = None
          /\ p = "RetryCommit" => o[2] = call[c].target
    <3>1. CASE call[c].pc = "RetrySlug"
      <4>1. PICK n \in Suffixes :
              call' = [call EXCEPT ![c].org = <<n, call[c].target>>, ![c].pc = "RetryCommit"]
        BY <1>3, <3>1 DEF Slug
      <4>2. <<n, call[c].target>> \in Org
        BY <2>2 DEF Org
      <4>3. QED  BY <4>1, <4>2
    <3>2. CASE call[c].pc = "SignUpSlug"
      <4>1. PICK n \in Suffixes :
              call' = [call EXCEPT ![c].org = <<n, None>>, ![c].pc = "SignUpCommit"]
        BY <1>3, <3>2 DEF Slug
      <4>2. <<n, None>> \in Org
        BY DEF Org
      <4>3. QED  BY <4>1, <4>2
    <3>3. QED  BY <2>1, <3>1, <3>2
  <2>4. PICK k \in Call : k = [call[c] EXCEPT !.org = o, !.pc = p]
    BY <1>fine DEF Call
  <2>5. /\ k.pc = p /\ k.org = o /\ k.actor = None /\ k.key = None /\ k.target = call[c].target
        /\ k.role = call[c].role /\ k.rank = call[c].rank
    BY <1>fine, <2>2, <2>4 DEF Call
  <2>6. Fine(k) /\ k.role <= k.rank
    BY <1>fine, <2>2, <2>3, <2>5 DEF Fine, ByMember
  <2>7. call' = [call EXCEPT ![c] = k]
    BY <1>typed, <2>3, <2>4
  <2>8. QED  BY <2>1, <2>6, <2>7, <1>typed, <1>call
<1>4. ASSUME NEW c \in Calls, Commit(c) PROVE WellFormed' /\ Kept
  <2>1. PICK e \in Emails : e = call[c].target
    BY <1>4, <1>fine DEF Commit, Fine
  <2>2. PICK o \in Org : o = call[c].org
    BY <1>4, <1>fine DEF Commit, Fine
  <2>3. o[2] = None \/ o[2] = e
    BY <1>4, <1>fine, <2>1, <2>2 DEF Commit, Fine
  <2>4. PICK r \in User : r = [org |-> o, role |-> OWNER, mustChangePassword |-> FALSE]
    BY MembersAssumption DEF User
  <2>5. /\ user[e] = None /\ user' = [user EXCEPT ![e] = r] /\ orgs' = orgs \cup {o} /\ Return(c)
        /\ chosen' = chosen \cup {e} /\ sessions' \subseteq sessions \cup {e}
        /\ UNCHANGED <<apiKey, refused, disputed>>
    BY <1>4, <2>1, <2>2, <2>4 DEF Commit, IndexesFree, SignedIn
  <2>6. r.org = o
    BY <2>4
  <2>7. TablesOK' /\ Kept /\ KeyOK' /\ OrgOK'
    <3>1. orgs \subseteq Org
      BY <1>wf DEF TablesOK
    <3>2. /\ orgs \subseteq orgs' /\ orgs' \subseteq Org /\ r.org \in orgs'
          /\ \A p \in orgs' \ orgs : p[2] = None \/ p[2] = e
      BY <2>3, <2>5, <2>6, <3>1
    <3>3. chosen' \subseteq Registered \cup {e} /\ sessions' \subseteq Registered \cup {e}
      BY <1>typed, <2>5
    <3>4. QED  BY <2>5, <3>2, <3>3, CreateUser
  <2>8. QED  BY <2>5, <2>7, ReturnCall, <1>all
<1>5. ASSUME NEW c \in Calls, Collide(c) PROVE WellFormed' /\ Kept
  <2>1. call[c].pc \in {"SignUpCommit", "RetryCommit"} /\ UNCHANGED <<orgs, user, apiKey, sessions, chosen, disputed>>
    BY <1>5 DEF Collide
  <2>2. call[c].target \in Emails /\ call[c].actor = None /\ call[c].key = None
    BY <1>fine, <2>1 DEF Fine, ByMember
  <2>3. CASE Retries(c)
    <3>1. call' = [call EXCEPT ![c].pc = "RetrySlug"] /\ UNCHANGED refused
      BY <1>5, <2>3 DEF Collide
    <3>2. PICK k \in Call : k = [call[c] EXCEPT !.pc = "RetrySlug"]
      BY <1>fine DEF Call
    <3>3. /\ k.pc = "RetrySlug" /\ k.actor = None /\ k.key = None /\ k.target = call[c].target
          /\ k.role = call[c].role /\ k.rank = call[c].rank
      BY <1>fine, <2>2, <3>2 DEF Call
    <3>4. Fine(k) /\ k.role <= k.rank
      BY <1>fine, <2>2, <3>3 DEF Fine, ByMember
    <3>5. call' = [call EXCEPT ![c] = k]
      BY <1>typed, <3>1, <3>2
    <3>6. QED  BY <2>1, <3>1, <3>4, <3>5, <1>typed, <1>call
  <2>4. CASE ~Retries(c)
    <3>1. Return(c) /\ refused' = refused \cup {call[c].target}
      BY <1>5, <2>4 DEF Collide
    <3>2. QED  BY <2>1, <2>2, <3>1, <1>typed, <1>return
  <2>5. QED  BY <2>3, <2>4
<1>6. ASSUME NEW c \in Calls, ChangeWrite(c) PROVE WellFormed' /\ Kept
  <2>1. PICK e \in Registered : e = call[c].target
    BY <1>6, <1>fine DEF ChangeWrite, Fine
  <2>2. PICK r \in User : r = [user[e] EXCEPT !.mustChangePassword = FALSE]
    BY <1>row DEF User
  <2>3. r.org = user[e].org
    BY <1>row, <2>2 DEF User
  <2>4. /\ user' = [user EXCEPT ![e] = r] /\ Return(c) /\ chosen' \subseteq chosen \cup {e}
        /\ sessions' \subseteq sessions \cup {e} /\ UNCHANGED <<orgs, apiKey, refused, disputed>>
    BY <1>6, <1>typed, <2>1, <2>2 DEF ChangeWrite, SignedIn
  <2>5. TablesOK' /\ Kept /\ KeyOK' /\ OrgOK'
    BY <1>typed, <2>3, <2>4, UpdateUser
  <2>6. QED  BY <2>4, <2>5, ReturnCall, <1>all
<1>7. ASSUME NEW e \in Emails, Login(e) \/ IssueDevToken(e) PROVE WellFormed' /\ Kept
  <2>1. e \in Registered /\ NewSession(e)
    BY <1>7 DEF Login, IssueDevToken, Live
  <2>2. TablesOK' /\ Kept /\ KeyOK' /\ OrgOK'
    BY <1>typed, <2>1, TablesKept DEF NewSession
  <2>3. CallsTyped' /\ CallOK'
    BY <1>typed, <2>1, <2>2, CallsKept DEF NewSession
  <2>4. QED  BY <2>2, <2>3, <1>all
<1>8. ASSUME NEW c \in Calls, Gate(c) PROVE WellFormed' /\ Kept
  <2>1. UNCHANGED <<orgs, user, apiKey, sessions, chosen, refused, disputed>>
    BY <1>8 DEF Gate
  <2>2. ASSUME NEW e \in Registered, NEW b \in Keys \cup {None}, b # None => apiKey[b] # None,
               NEW k \in Call, k.pc = "Gated", k.actor = e, k.key = b, k.rank \in Roles, k.role = 0,
               k.org = user[e].org, call' = [call EXCEPT ![c] = k]
        PROVE  WellFormed' /\ Kept
    <3>1. k.rank \in Nat
      BY <2>2, Constants
    <3>2. Fine(k) /\ k.role <= k.rank
      BY <1>row, <2>2, <3>1 DEF Fine, ByMember
    <3>3. QED  BY <2>1, <2>2, <3>2, <1>typed, <1>call
  <2>3. CASE \E e \in Emails :
               /\ Accepts(e)
               /\ call' = [call EXCEPT ![c] = [Idle EXCEPT !.pc = "Gated", !.actor = e,
                               !.rank = user[e].role, !.org = user[e].org]]
    <3>1. PICK e \in Emails :
            /\ Accepts(e)
            /\ call' = [call EXCEPT ![c] = [Idle EXCEPT !.pc = "Gated", !.actor = e,
                            !.rank = user[e].role, !.org = user[e].org]]
      BY <2>3
    <3>2. e \in Registered
      BY <1>typed, <3>1 DEF Accepts
    <3>3. user[e].role \in Roles /\ user[e].org \in Org
      BY <1>row, <3>2 DEF User
    <3>4. PICK k \in Call : k = [Idle EXCEPT !.pc = "Gated", !.actor = e,
                                     !.rank = user[e].role, !.org = user[e].org]
      BY <3>3, Constants DEF Call
    <3>5. /\ k.pc = "Gated" /\ k.actor = e /\ k.key = None /\ k.rank = user[e].role /\ k.role = 0
          /\ k.org = user[e].org
      BY <3>4, Constants DEF Call
    <3>6. call' = [call EXCEPT ![c] = k]
      BY <3>1, <3>4
    <3>7. QED  BY <2>2, <3>2, <3>3, <3>5, <3>6
  <2>4. CASE \E b \in Keys :
               /\ KeyAccepted(b)
               /\ call' = [call EXCEPT ![c] = [Idle EXCEPT !.pc = "Gated", !.key = b,
                               !.actor = apiKey[b].createdBy, !.rank = apiKey[b].role,
                               !.org = apiKey[b].org]]
    <3>1. PICK b \in Keys :
            /\ KeyAccepted(b)
            /\ call' = [call EXCEPT ![c] = [Idle EXCEPT !.pc = "Gated", !.key = b,
                            !.actor = apiKey[b].createdBy, !.rank = apiKey[b].role,
                            !.org = apiKey[b].org]]
      BY <2>4
    <3>2. apiKey[b] # None /\ apiKey[b] \in ApiKey
      BY <1>typed, <3>1 DEF KeyAccepted
    <3>3. /\ apiKey[b].createdBy \in Registered /\ apiKey[b].org = user[apiKey[b].createdBy].org
          /\ apiKey[b].role \in Roles /\ apiKey[b].org \in Org
      BY <1>wf, <3>2 DEF KeyOK, ApiKey
    <3>4. PICK e \in Registered : e = apiKey[b].createdBy
      BY <3>3
    <3>5. PICK k \in Call : k = [Idle EXCEPT !.pc = "Gated", !.key = b, !.actor = apiKey[b].createdBy,
                                     !.rank = apiKey[b].role, !.org = apiKey[b].org]
      BY <1>row, <3>3, Constants DEF Call
    <3>6. /\ k.pc = "Gated" /\ k.actor = e /\ k.key = b /\ k.rank = apiKey[b].role /\ k.role = 0
          /\ k.org = apiKey[b].org
      BY <3>4, <3>5, Constants DEF Call
    <3>7. call' = [call EXCEPT ![c] = k]
      BY <3>1, <3>5
    <3>8. QED  BY <2>2, <3>2, <3>3, <3>4, <3>6, <3>7
  <2>5. QED  BY <1>8, <2>3, <2>4 DEF Gate
\* What a request that was let through relies on.
<1>gated. ASSUME NEW c \in Calls, call[c].pc \in ByMember
          PROVE  /\ call[c].actor \in Registered /\ call[c].actor # None /\ call[c].org = user[call[c].actor].org
                 /\ call[c].org \in orgs /\ call[c].rank \in Roles /\ call[c].rank \in Nat
                 /\ call[c].key # None => apiKey[call[c].key] # None
  BY <1>gated, <1>fine, <1>row, Constants DEF Fine
<1>9. ASSUME NEW c \in Calls, NEW e \in Emails, NEW r \in Roles, InviteRead(c, e, r) PROVE WellFormed' /\ Kept
  <2>1. call[c].pc = "Gated" /\ r <= call[c].rank /\ UNCHANGED <<orgs, user, apiKey, sessions, chosen, refused, disputed>>
        /\ (user[e] # None => user[e].org = call[c].org)
    BY <1>9 DEF InviteRead, Grants, MayInvite
  <2>2. PICK p \in {"InviteCreate", "InviteUpdate"} :
          /\ call' = [call EXCEPT ![c].target = e, ![c].role = r, ![c].pc = p]
          /\ p = "InviteUpdate" => e \in Registered
    BY <1>9 DEF InviteRead, Registered
  <2>3. PICK k \in Call : k = [call[c] EXCEPT !.target = e, !.role = r, !.pc = p]
    BY <1>fine DEF Call
  <2>4. /\ k.pc = p /\ k.actor = call[c].actor /\ k.key = call[c].key /\ k.rank = call[c].rank
        /\ k.org = call[c].org /\ k.target = e /\ k.role = r
    BY <1>fine, <2>3 DEF Call
  <2>5. Fine(k)
    BY <1>gated, <2>1, <2>2, <2>4 DEF Fine, ByMember, Registered
  <2>6. call' = [call EXCEPT ![c] = k]
    BY <1>typed, <2>2, <2>3
  <2>7. QED  BY <2>1, <2>4, <2>5, <2>6, <1>typed, <1>call
<1>10. ASSUME NEW c \in Calls, InviteUpdate(c) PROVE WellFormed' /\ Kept
  <2>1. PICK e \in Registered : e = call[c].target
    BY <1>10, <1>fine DEF InviteUpdate, Fine
  <2>2. call[c].role \in Roles /\ call[c].org \in orgs
    BY <1>10, <1>fine, <1>gated DEF InviteUpdate, Fine, ByMember
  <2>3. PICK r \in User : r = [user[e] EXCEPT !.role = call[c].role, !.mustChangePassword = TRUE]
    BY <1>row, <2>2 DEF User
  <2>4. r.org = user[e].org
    BY <1>row, <2>3 DEF User
  <2>5. /\ user' = [user EXCEPT ![e] = r] /\ Answered(c, ActorChanged(e, call))
        /\ disputed' \subseteq orgs /\ UNCHANGED <<orgs, apiKey, sessions, chosen, refused>>
        /\ call[c].pc = "InviteUpdate"
    BY <1>10, <1>typed, <2>1, <2>2, <2>3 DEF InviteUpdate
  <2>6. TablesOK' /\ Kept /\ KeyOK' /\ OrgOK'
    BY <1>typed, <2>4, <2>5, UpdateUser
  <2>7. QED  BY <2>5, <2>6, <1>row, AnsweredCall, <1>all
<1>11. ASSUME NEW c \in Calls, InviteCreate(c) PROVE WellFormed' /\ Kept
  <2>1. PICK e \in Emails : e = call[c].target
    BY <1>11, <1>fine DEF InviteCreate, Fine
  <2>2. call[c].role \in Roles /\ call[c].org \in orgs /\ call[c].org \in Org
    BY <1>11, <1>fine, <1>gated, <1>wf DEF InviteCreate, Fine, ByMember, TablesOK
  <2>3. PICK r \in User : r = [org |-> call[c].org, role |-> call[c].role, mustChangePassword |-> TRUE]
    BY <2>2 DEF User
  <2>4. r.org \in orgs
    BY <2>2, <2>3
  <2>5. /\ user[e] = None /\ user' = [user EXCEPT ![e] = r] /\ Answered(c, call)
        /\ UNCHANGED <<orgs, apiKey, sessions, chosen, refused, disputed>>
        /\ call[c].pc = "InviteCreate"
    BY <1>11, <2>1, <2>3 DEF InviteCreate
  <2>6. TablesOK' /\ Kept /\ KeyOK' /\ OrgOK'
    BY <1>typed, <1>wf, <2>4, <2>5, CreateUser DEF TablesOK
  <2>7. QED  BY <2>5, <2>6, AnsweredCall, <1>all
<1>12. ASSUME NEW c \in Calls, NEW t \in Emails, NEW r \in Roles, RoleRead(c, t, r) PROVE WellFormed' /\ Kept
  <2>1. /\ call[c].pc = "Gated" /\ t \in Registered /\ user[t].org = call[c].org
        /\ r <= call[c].rank /\ user[t].role <= call[c].rank /\ ~(t = call[c].actor /\ r < call[c].rank)
        /\ UNCHANGED <<orgs, user, apiKey, sessions, chosen, refused, disputed>>
    BY <1>12 DEF RoleRead, MayAssign, Grants
  <2>2. PICK w \in Roles : w = user[t].role
    BY <1>row, <2>1 DEF User
  <2>3. call' = [call EXCEPT ![c].pc = "RoleWrite", ![c].target = t, ![c].role = r, ![c].was = w]
    BY <1>12, <2>2 DEF RoleRead
  <2>4. PICK k \in Call : k = [call[c] EXCEPT !.pc = "RoleWrite", !.target = t, !.role = r, !.was = w]
    BY <1>fine DEF Call
  <2>5. /\ k.pc = "RoleWrite" /\ k.actor = call[c].actor /\ k.key = call[c].key /\ k.rank = call[c].rank
        /\ k.org = call[c].org /\ k.target = t /\ k.role = r /\ k.was = w
    BY <1>fine, <2>4 DEF Call
  <2>6. Fine(k)
    BY <1>gated, <2>1, <2>2, <2>5 DEF Fine, ByMember, Registered
  <2>7. call' = [call EXCEPT ![c] = k]
    BY <1>typed, <2>3, <2>4
  <2>8. QED  BY <2>1, <2>5, <2>6, <2>7, <1>typed, <1>call
\* Requests that age besides one that returns.
<1>aged. ASSUME NEW c \in Calls, Kept, TablesOK', KeyOK', OrgOK', call' \in [Calls -> Call], call'[c] = Idle,
                \A d \in Calls \ {c} : \/ call'[d] = call[d]
                                       \/ call[d].actor # None /\ call'[d] = [call[d] EXCEPT !.fresh = FALSE]
         PROVE  WellFormed' /\ Kept
  <2>1. Idle \in Call /\ Fine(Idle)' /\ Idle.role <= Idle.rank
    BY Constants, IdleFine
  <2>2. QED  BY <1>aged, <2>1, StepCall, <1>all
<1>13. ASSUME NEW c \in Calls, RoleWrite(c) PROVE WellFormed' /\ Kept
  <2>1. PICK t \in Registered : t = call[c].target
    BY <1>13, <1>fine DEF RoleWrite, Fine
  <2>2. call[c].role \in Roles /\ call[c].org \in orgs
    BY <1>13, <1>fine, <1>gated DEF RoleWrite, Fine, ByMember
  <2>3. PICK r \in User : r = [user[t] EXCEPT !.role = call[c].role]
    BY <1>row, <2>2 DEF User
  <2>4. r.org = user[t].org
    BY <1>row, <2>3 DEF User
  <2>5. /\ user' = [user EXCEPT ![t] = r] /\ call' = ActorChanged(t, [call EXCEPT ![c] = Idle])
        /\ disputed' \subseteq orgs /\ UNCHANGED <<orgs, apiKey, sessions, chosen, refused>>
    BY <1>13, <1>typed, <2>1, <2>2, <2>3 DEF RoleWrite
  <2>6. TablesOK' /\ Kept /\ KeyOK' /\ OrgOK'
    BY <1>typed, <2>4, <2>5, UpdateUser
  <2>7. call'[c] = Idle
    BY <1>row, <1>typed, <2>5, Constants DEF ActorChanged
  <2>8. ASSUME NEW d \in Calls \ {c}
        PROVE  /\ \/ call'[d] = call[d]
                  \/ call[d].actor # None /\ call'[d] = [call[d] EXCEPT !.fresh = FALSE]
               /\ call'[d] \in Call
    <3>1. call'[d] = ActorChanged(t, call)[d]
      BY <1>typed, <2>5 DEF ActorChanged
    <3>2. QED  BY <3>1, <1>row, ActorAged
  <2>9. call' \in [Calls -> Call]
    <3>1. call' = [d \in Calls |-> call'[d]]
      BY <2>5 DEF ActorChanged
    <3>2. QED  BY <2>7, <2>8, <3>1, Constants, Zenon
  <2>10. QED  BY <2>6, <2>7, <2>8, <2>9, <1>aged
\* A step that writes a key and leaves the other tables alone.
<1>key. ASSUME NEW k \in Keys, NEW a \in ApiKey, apiKey' = [apiKey EXCEPT ![k] = a],
               UNCHANGED <<orgs, user, sessions, chosen, refused, disputed>>,
               a.createdBy \in Registered, a.org = user[a.createdBy].org
        PROVE  TablesOK' /\ Kept /\ KeyOK' /\ OrgOK'
  <2>1. Registered' = Registered
    BY <1>key DEF Registered
  <2>2. apiKey' \in [Keys -> ApiKey \cup {None}] /\ \A j \in Keys : apiKey'[j] = IF j = k THEN a ELSE apiKey[j]
    BY <1>key, <1>typed
  <2>3. TablesOK' /\ OrgOK'
    BY <1>key, <1>wf, <2>1, <2>2 DEF TablesOK, OrgOK
  <2>4. Kept /\ KeyOK'
    BY <1>key, <1>wf, <2>1, <2>2, Constants DEF Kept, KeyOK
  <2>5. QED  BY <2>3, <2>4
<1>14. ASSUME NEW c \in Calls, NEW k \in Keys, NEW r \in Roles, KeyCreate(c, k, r) PROVE WellFormed' /\ Kept
  <2>1. call[c].pc = "Gated" /\ Return(c) /\ UNCHANGED <<orgs, user, sessions, chosen, refused, disputed>>
    BY <1>14 DEF KeyCreate
  <2>2. call[c].actor \in Registered /\ call[c].org = user[call[c].actor].org /\ call[c].org \in Org
        /\ call[c].actor \in Emails
    BY <2>1, <1>gated, <1>wf, <1>row DEF ByMember, TablesOK
  <2>3. PICK a \in ApiKey : a = [org |-> call[c].org, role |-> r, createdBy |-> call[c].actor, revokedAt |-> FALSE]
    BY <2>2 DEF ApiKey
  <2>4. a.createdBy = call[c].actor /\ a.org = call[c].org /\ apiKey' = [apiKey EXCEPT ![k] = a]
    BY <1>14, <2>3 DEF KeyCreate
  <2>5. TablesOK' /\ Kept /\ KeyOK' /\ OrgOK'
    BY <2>1, <2>2, <2>4, <1>key
  <2>6. QED  BY <2>1, <2>5, ReturnCall, <1>all
<1>15. ASSUME NEW c \in Calls, NEW k \in Keys, KeyRevoke(c, k) PROVE WellFormed' /\ Kept
  <2>1. apiKey[k] # None /\ UNCHANGED <<orgs, user, sessions, chosen, refused, disputed>>
        /\ call' = KeyChanged(k, [call EXCEPT ![c] = Idle])
    BY <1>15 DEF KeyRevoke
  <2>2. apiKey[k] \in ApiKey /\ apiKey[k].createdBy \in Registered
        /\ apiKey[k].org = user[apiKey[k].createdBy].org
    BY <2>1, <1>typed, <1>wf DEF KeyOK
  <2>3. PICK a \in ApiKey : a = [apiKey[k] EXCEPT !.revokedAt = TRUE]
    BY <2>2 DEF ApiKey
  <2>4. a.createdBy = apiKey[k].createdBy /\ a.org = apiKey[k].org /\ apiKey' = [apiKey EXCEPT ![k] = a]
    BY <1>15, <2>2, <2>3 DEF KeyRevoke, ApiKey
  <2>5. TablesOK' /\ Kept /\ KeyOK' /\ OrgOK'
    BY <2>1, <2>2, <2>4, <1>key
  <2>6. k # None
    BY Constants
  <2>7. call'[c] = Idle
    BY <1>typed, <2>1, <2>6, Constants DEF KeyChanged
  <2>8. ASSUME NEW d \in Calls \ {c}
        PROVE  /\ \/ call'[d] = call[d]
                  \/ call[d].actor # None /\ call'[d] = [call[d] EXCEPT !.fresh = FALSE]
               /\ call'[d] \in Call
    <3>1. call'[d] = IF call[d].key = k THEN [call[d] EXCEPT !.fresh = FALSE] ELSE call[d]
      BY <1>typed, <2>1 DEF KeyChanged
    <3>2. [call[d] EXCEPT !.fresh = FALSE] \in Call
      BY <1>fine DEF Call
    <3>3. call[d].key = k => call[d].actor # None
      BY <1>fine, <2>6 DEF Fine
    <3>4. CASE call[d].key = k
      BY <3>1, <3>2, <3>3, <3>4
    <3>5. CASE call[d].key # k
      BY <1>fine, <3>1, <3>5
    <3>6. QED  BY <3>4, <3>5
  <2>9. call' \in [Calls -> Call]
    <3>1. call' = [d \in Calls |-> call'[d]]
      BY <2>1 DEF KeyChanged
    <3>2. QED  BY <2>7, <2>8, <3>1, Constants, Zenon
  <2>10. QED  BY <2>5, <2>7, <2>8, <2>9, <1>aged
<1>16. ASSUME NEW c \in Calls, Error(c) PROVE WellFormed' /\ Kept
  BY <1>16, <1>typed, <1>return DEF Error
<1>17. CASE Down
  <2>1. UNCHANGED <<orgs, user, apiKey, sessions, chosen, refused, disputed>>
    BY <1>17 DEF Down
  <2>2. \A d \in Calls : call'[d] = call[d] \/ call'[d] = Idle
    BY <1>17 DEF Down
  <2>3. call' \in [Calls -> Call]
    BY <1>17, <1>fine, Constants DEF Down
  <2>4. TablesOK' /\ Kept /\ KeyOK' /\ OrgOK'
    BY <2>1, <1>typed, TablesKept
  <2>5. QED  BY <2>2, <2>3, <2>4, CallsKept, <1>all
<1>18. CASE UNCHANGED vars
  <2>1. UNCHANGED <<orgs, user, apiKey, call, sessions, chosen, refused, disputed>>
    BY <1>18 DEF vars
  <2>2. TablesOK' /\ Kept /\ KeyOK' /\ OrgOK'
    BY <2>1, <1>typed, TablesKept
  <2>3. QED  BY <2>1, <2>2, <1>typed, CallsKept, <1>all
<1>19. QED
  BY <1>1, <1>2, <1>3, <1>4, <1>5, <1>6, <1>7, <1>8, <1>9, <1>10, <1>11, <1>12, <1>13, <1>14,
     <1>15, <1>16, <1>17, <1>18 DEF Next, AccountStep, MemberStep, KeyStep

\* Calls rely on rows that stay, in every reachable state.
THEOREM MembersWellFormed == Spec => []WellFormed
<1>1. QED  BY WellFormedInit, WellFormedStep, PTL DEF Spec

\* The type invariant holds: in particular a session is of an account, and no
\* request grants a role above its actor's.
THEOREM MembersTypeCorrect == Spec => []TypeOK
<1>1. WellFormed => TypeOK
  BY DEF WellFormed
<1>2. QED  BY <1>1, MembersWellFormed, PTL

-----------------------------------------------------------------------------
(* Names of organisations *)

LEMMA NameClashStep == ASSUME WellFormed, NameClashSurvived, [Next]_vars PROVE NameClashSurvived'
<1>1. refused \subseteq Registered'
  BY WellFormedStep DEF NameClashSurvived, Kept
<1>same. UNCHANGED refused => NameClashSurvived'
  BY <1>1 DEF NameClashSurvived
<1>2. ASSUME NEW c \in Calls, Collide(c), ~Retries(c) PROVE NameClashSurvived'
  <2>1. /\ call[c].pc = "RetryCommit" /\ refused' = refused \cup {call[c].target} /\ user' = user
        /\ call[c].org \in orgs \/ user[call[c].target] # None
    BY <1>2 DEF Collide, Retries, IndexesFree
  <2>2. call[c].target \in Emails /\ call[c].org[2] = call[c].target
    BY <2>1 DEF WellFormed, CallOK, Fine
  <2>3. call[c].org \in orgs => call[c].target \in Registered
    BY <2>2, Constants DEF WellFormed, OrgOK
  <2>4. call[c].target \in Registered
    BY <2>1, <2>2, <2>3 DEF Registered
  <2>5. Registered' = Registered
    BY <2>1 DEF Registered
  <2>6. QED  BY <2>1, <2>4, <2>5 DEF NameClashSurvived
<1>3. ASSUME NEW c \in Calls, Collide(c), Retries(c) PROVE NameClashSurvived'
  BY <1>3, <1>same DEF Collide
<1>4. ASSUME NEW c \in Calls, Slug(c) \/ Commit(c) \/ ChangeWrite(c) PROVE NameClashSurvived'
  BY <1>4, <1>same DEF Slug, Commit, ChangeWrite
<1>5. ASSUME NEW c \in Calls, NEW e \in Emails, SignUpRead(c, e) \/ ChangeRead(c, e) PROVE NameClashSurvived'
  BY <1>5, <1>same DEF SignUpRead, ChangeRead
<1>6. ASSUME NEW e \in Emails, Login(e) \/ IssueDevToken(e) PROVE NameClashSurvived'
  BY <1>6, <1>same DEF Login, IssueDevToken, NewSession
<1>7. ASSUME NEW c \in Calls, NEW e \in Emails, NEW r \in Roles, InviteRead(c, e, r) \/ RoleRead(c, e, r)
      PROVE  NameClashSurvived'
  BY <1>7, <1>same DEF InviteRead, RoleRead
<1>8. ASSUME NEW c \in Calls, Gate(c) \/ InviteUpdate(c) \/ InviteCreate(c) \/ RoleWrite(c)
      PROVE  NameClashSurvived'
  BY <1>8, <1>same DEF Gate, InviteUpdate, InviteCreate, RoleWrite
<1>9. ASSUME NEW c \in Calls, NEW k \in Keys, KeyRevoke(c, k) PROVE NameClashSurvived'
  BY <1>9, <1>same DEF KeyRevoke
<1>10. ASSUME NEW c \in Calls, NEW k \in Keys, NEW r \in Roles, KeyCreate(c, k, r) PROVE NameClashSurvived'
  BY <1>10, <1>same DEF KeyCreate
<1>11. ASSUME NEW c \in Calls, Error(c) PROVE NameClashSurvived'
  BY <1>11, <1>same DEF Error
<1>12. CASE Down
  BY <1>12, <1>same DEF Down
<1>13. CASE UNCHANGED vars
  BY <1>13, <1>same DEF vars
<1>14. QED
  BY <1>2, <1>3, <1>4, <1>5, <1>6, <1>7, <1>8, <1>9, <1>10, <1>11, <1>12, <1>13
     DEF Next, AccountStep, MemberStep, KeyStep

\* A sign-up is refused for good only when its address is taken, never for the
\* name of its organisation.
THEOREM NameClashesAreSurvived == Spec => []NameClashSurvived
<1>1. Init => NameClashSurvived
  BY DEF Init, NameClashSurvived
<1>2. QED  BY <1>1, MembersWellFormed, NameClashStep, PTL DEF Spec

-----------------------------------------------------------------------------
(* Chosen passwords *)

ChosenOK == \A e \in chosen : Live(e) /\ ~Reinviting(e)

LEMMA ChosenStep == ASSUME WellFormed, ChosenOK, [Next]_vars PROVE ChosenOK'
<1>wf. /\ call \in [Calls -> Call] /\ CallOK /\ user \in [Emails -> User \cup {None}]
       /\ apiKey \in [Keys -> ApiKey \cup {None}] /\ chosen \subseteq Registered
  BY TypeParts DEF WellFormed, CallsTyped, TablesOK
<1>live. \A e \in chosen : e \in Emails /\ user[e] # None /\ user[e] \in User /\ ~user[e].mustChangePassword
  BY <1>wf DEF ChosenOK, Live, Registered
<1> DEFINE Quiet == \A d \in Calls : call'[d].pc = "InviteUpdate" =>
                        call[d].pc = "InviteUpdate" /\ call'[d].target = call[d].target
\* No invitation has been added.
<1>quiet. Quiet => \A e : ~Reinviting(e) => ~Reinviting(e)'
  BY DEF Reinviting
\* One call moves on, others may age.
<1>moves. ASSUME NEW c \in Calls, call'[c].pc # "InviteUpdate",
                 \A d \in Calls \ {c} : call'[d] = call[d] \/ call'[d] = [call[d] EXCEPT !.fresh = FALSE]
          PROVE  Quiet
  BY <1>moves, <1>wf DEF Call
<1>one. ASSUME NEW c \in Calls, NEW k, k.pc # "InviteUpdate", call' = [call EXCEPT ![c] = k]
        PROVE  Quiet
  BY <1>one, <1>wf
<1>idle. ASSUME NEW c \in Calls, Return(c) PROVE Quiet
  BY <1>idle, <1>one, Constants DEF Return
<1>users. ASSUME NEW f \in Emails, f \notin chosen \/ (~user'[f].mustChangePassword /\ f \in Registered'),
                 \A e \in Emails \ {f} : user'[e] = user[e], Quiet
          PROVE  \A e \in chosen : Live(e)' /\ ~Reinviting(e)'
  <2>1. \A e \in chosen : Live(e)'
    BY <1>live, <1>users DEF Live, Registered
  <2>2. QED  BY <2>1, <1>users, <1>quiet DEF ChosenOK
<1>others. ASSUME NEW f \in Emails, f \notin chosen, \A e \in Emails \ {f} : user'[e] = user[e], Quiet
           PROVE  \A e \in chosen : Live(e)' /\ ~Reinviting(e)'
  <2>1. \A e \in chosen : Live(e)'
    BY <1>live, <1>others DEF Live, Registered
  <2>2. QED  BY <2>1, <1>others, <1>quiet DEF ChosenOK
<1>tables. ASSUME Quiet, UNCHANGED <<user, chosen>> PROVE ChosenOK'
  <2>1. \A e \in chosen : Live(e)'
    BY <1>live, <1>tables DEF Live, Registered
  <2>2. QED  BY <2>1, <1>tables, <1>quiet DEF ChosenOK
<1> HIDE DEF Quiet
<1>1. ASSUME NEW c \in Calls, NEW e \in Emails, SignUpRead(c, e) PROVE ChosenOK'
  <2>1. PICK k : k = [Idle EXCEPT !.pc = "SignUpSlug", !.target = e]
    OBVIOUS
  <2>2. k.pc # "InviteUpdate"
    BY <2>1, Constants DEF Call
  <2>3. QED  BY <1>1, <2>1, <2>2, <1>one, <1>tables DEF SignUpRead
<1>2. ASSUME NEW c \in Calls, NEW e \in Emails, ChangeRead(c, e) PROVE ChosenOK'
  <2>1. PICK k : k = [Idle EXCEPT !.pc = "ChangeWrite", !.target = e]
    OBVIOUS
  <2>2. k.pc # "InviteUpdate"
    BY <2>1, Constants DEF Call
  <2>3. QED  BY <1>2, <2>1, <2>2, <1>one, <1>tables DEF ChangeRead
<1>3. ASSUME NEW c \in Calls, Slug(c) PROVE ChosenOK'
  <2>1. call[c] \in Call
    BY <1>wf
  <2>2. call'[c].pc \in {"SignUpCommit", "RetryCommit"} /\ \A d \in Calls \ {c} : call'[d] = call[d]
    BY <1>3, <1>wf, <2>1 DEF Slug, Call
  <2>3. QED  BY <1>3, <2>2, <1>moves, <1>tables DEF Slug
<1>4. ASSUME NEW c \in Calls, Commit(c) PROVE ChosenOK'
  <2>1. PICK e \in Emails : e = call[c].target
    BY <1>4, <1>wf DEF Commit, CallOK, Fine
  <2>2. /\ user[e] = None /\ chosen' = chosen \cup {e}
        /\ user' = [user EXCEPT ![e] = [org |-> call[c].org, role |-> OWNER, mustChangePassword |-> FALSE]]
    BY <1>4, <2>1 DEF Commit, IndexesFree
  <2>3. Quiet
    BY <1>4, <1>idle DEF Commit
  <2>4. PICK r \in User : ~r.mustChangePassword /\ user' = [user EXCEPT ![e] = r]
    <3>1. [org |-> call[c].org, role |-> OWNER, mustChangePassword |-> FALSE] \in User
      BY <1>4, <1>wf, MembersAssumption DEF Commit, CallOK, Fine, User
    <3>2. QED  BY <2>2, <3>1
  <2>5. user'[e] = r /\ \A f \in Emails \ {e} : user'[f] = user[f]
    BY <1>wf, <2>4
  <2>6. Live(e)'
    BY <2>4, <2>5, Constants DEF Live, Registered
  <2>7. ~Reinviting(e)'
    <3>1. ~Reinviting(e)
      BY <1>wf, <2>2 DEF Reinviting, CallOK, Fine, Registered
    <3>2. QED  BY <2>3, <3>1, <1>quiet
  <2>8. \A f \in chosen : Live(f)' /\ ~Reinviting(f)'
    <3>1. e \notin chosen
      BY <1>live, <2>2
    <3>2. QED  BY <2>3, <2>5, <3>1, <1>others
  <2>9. QED  BY <2>2, <2>6, <2>7, <2>8 DEF ChosenOK
<1>5. ASSUME NEW c \in Calls, Collide(c) PROVE ChosenOK'
  <2>1. UNCHANGED <<user, chosen>> /\ (Return(c) \/ call' = [call EXCEPT ![c].pc = "RetrySlug"])
    BY <1>5 DEF Collide
  <2>2. CASE Return(c)
    BY <2>1, <2>2, <1>idle, <1>tables
  <2>3. CASE call' = [call EXCEPT ![c].pc = "RetrySlug"]
    <3>1. call'[c].pc = "RetrySlug" /\ \A d \in Calls \ {c} : call'[d] = call[d]
      BY <1>wf, <2>3 DEF Call
    <3>2. QED  BY <2>1, <3>1, <1>moves, <1>tables
  <2>4. QED  BY <2>1, <2>2, <2>3
<1>6. ASSUME NEW c \in Calls, ChangeWrite(c) PROVE ChosenOK'
  <2>1. PICK e \in Registered : e = call[c].target
    BY <1>6, <1>wf DEF ChangeWrite, CallOK, Fine
  <2>2. user[e] \in User /\ e \in Emails
    BY <1>wf DEF Registered
  <2>3. /\ user' = [user EXCEPT ![e].mustChangePassword = FALSE]
        /\ chosen' = IF Reinviting(e) THEN chosen ELSE chosen \cup {e}
    BY <1>6, <2>1 DEF ChangeWrite
  <2>4. PICK r \in User : ~r.mustChangePassword /\ user' = [user EXCEPT ![e] = r]
    <3>1. [user[e] EXCEPT !.mustChangePassword = FALSE] \in User
      BY <2>2 DEF User
    <3>2. ~[user[e] EXCEPT !.mustChangePassword = FALSE].mustChangePassword
      BY <2>2 DEF User
    <3>3. QED  BY <2>3, <3>1, <3>2
  <2>5. user'[e] = r /\ \A f \in Emails \ {e} : user'[f] = user[f]
    BY <1>wf, <2>2, <2>4
  <2>6. Live(e)'
    BY <2>2, <2>4, <2>5, Constants DEF Live, Registered
  <2>7. Quiet
    BY <1>6, <1>idle DEF ChangeWrite
  <2>8. \A f \in chosen : Live(f)' /\ ~Reinviting(f)'
    BY <2>2, <2>5, <2>6, <2>7, <1>users DEF Live
  <2>9. ~Reinviting(e) => ~Reinviting(e)'
    BY <2>7, <1>quiet
  <2>10. QED  BY <2>3, <2>6, <2>8, <2>9 DEF ChosenOK
<1>7. ASSUME NEW e \in Emails, Login(e) \/ IssueDevToken(e) PROVE ChosenOK'
  <2>1. UNCHANGED <<user, chosen, call>>
    BY <1>7 DEF Login, IssueDevToken, NewSession
  <2>2. QED  BY <2>1, <1>tables DEF Quiet
<1>8. ASSUME NEW c \in Calls, Gate(c) PROVE ChosenOK'
  <2>1. UNCHANGED <<user, chosen>> /\ call'[c].pc = "Gated" /\ \A d \in Calls \ {c} : call'[d] = call[d]
    BY <1>8, <1>wf DEF Gate, Idle
  <2>2. QED  BY <2>1, <1>moves, <1>tables
<1>9. ASSUME NEW c \in Calls, NEW e \in Emails, NEW r \in Roles, InviteRead(c, e, r) PROVE ChosenOK'
  <2>1. UNCHANGED <<user, chosen>> /\ (user[e] # None => user[e].mustChangePassword)
    BY <1>9 DEF InviteRead, MayInvite
  <2>2. e \notin chosen
    BY <1>live, <2>1
  <2>3. \A d \in Calls : call'[d] = call[d] \/ call'[d].target = e
    BY <1>9, <1>wf DEF InviteRead, Call
  <2>4. \A f \in chosen : ~Reinviting(f)'
    BY <2>2, <2>3 DEF ChosenOK, Reinviting
  <2>5. \A f \in chosen : Live(f)'
    BY <2>1 DEF ChosenOK, Live, Registered
  <2>6. QED  BY <2>1, <2>4, <2>5 DEF ChosenOK
<1>10. ASSUME NEW c \in Calls, InviteUpdate(c) PROVE ChosenOK'
  <2>1. PICK e \in Registered : e = call[c].target
    BY <1>10, <1>wf DEF InviteUpdate, CallOK, Fine
  <2>2. e \notin chosen /\ e \in Emails
    BY <1>10, <2>1 DEF InviteUpdate, ChosenOK, Reinviting, Registered
  <2>3. \A f \in Emails \ {e} : user'[f] = user[f]
    BY <1>10, <1>wf, <2>1 DEF InviteUpdate
  <2>4. Answered(c, ActorChanged(e, call)) /\ chosen' = chosen
    BY <1>10, <2>1 DEF InviteUpdate
  <2>5. \A d \in Calls \ {c} : call'[d] = ActorChanged(e, call)[d]
    BY <2>4 DEF Answered, ActorChanged
  <2>6. call'[c].pc # "InviteUpdate"
    <3>1. CASE call' = [ActorChanged(e, call) EXCEPT ![c] = Idle]
      BY <3>1, Constants DEF ActorChanged
    <3>2. CASE call' = [ActorChanged(e, call) EXCEPT ![c].pc = "Gated", ![c].target = None, ![c].role = 0]
      <4>1. ActorChanged(e, call)[c] \in Call
        BY <2>2, ActorAged
      <4>2. call'[c] = [ActorChanged(e, call)[c] EXCEPT !.pc = "Gated", !.target = None, !.role = 0]
        BY <3>2 DEF ActorChanged
      <4>3. QED  BY <4>1, <4>2 DEF Call
    <3>3. QED  BY <2>4, <3>1, <3>2 DEF Answered
  <2>7. Quiet
    BY <2>2, <2>5, <2>6, ActorAged, <1>moves
  <2>8. \A f \in chosen : Live(f)' /\ ~Reinviting(f)'
    BY <2>2, <2>3, <2>7, <1>others
  <2>9. QED  BY <2>4, <2>8 DEF ChosenOK
<1>11. ASSUME NEW c \in Calls, InviteCreate(c) PROVE ChosenOK'
  <2>1. PICK e \in Emails : e = call[c].target
    BY <1>11, <1>wf DEF InviteCreate, CallOK, Fine
  <2>2. e \notin chosen /\ chosen' = chosen /\ \A f \in Emails \ {e} : user'[f] = user[f]
    BY <1>11, <1>wf, <1>live, <2>1 DEF InviteCreate
  <2>3. call'[c].pc # "InviteUpdate" /\ \A d \in Calls \ {c} : call'[d] = call[d]
    <3>1. CASE call' = [call EXCEPT ![c] = Idle]
      BY <3>1, <1>wf, Constants
    <3>2. CASE call' = [call EXCEPT ![c].pc = "Gated", ![c].target = None, ![c].role = 0]
      BY <3>2, <1>wf DEF Call
    <3>3. QED  BY <1>11, <3>1, <3>2 DEF InviteCreate, Answered
  <2>4. Quiet
    BY <2>3, <1>moves
  <2>5. \A f \in chosen : Live(f)' /\ ~Reinviting(f)'
    BY <2>2, <2>4, <1>others
  <2>6. QED  BY <2>2, <2>5 DEF ChosenOK
<1>12. ASSUME NEW c \in Calls, NEW t \in Emails, NEW r \in Roles, RoleRead(c, t, r) PROVE ChosenOK'
  <2>1. UNCHANGED <<user, chosen>> /\ call'[c].pc = "RoleWrite" /\ \A d \in Calls \ {c} : call'[d] = call[d]
    BY <1>12, <1>wf DEF RoleRead, Call
  <2>2. QED  BY <2>1, <1>moves, <1>tables
<1>13. ASSUME NEW c \in Calls, RoleWrite(c) PROVE ChosenOK'
  <2>1. PICK t \in Registered : t = call[c].target
    BY <1>13, <1>wf DEF RoleWrite, CallOK, Fine
  <2>2. t \in Emails /\ user[t] \in User /\ chosen' = chosen
    BY <1>13, <1>wf DEF Registered, RoleWrite
  <2>3. user' = [user EXCEPT ![t].role = call[c].role] /\ call' = ActorChanged(t, [call EXCEPT ![c] = Idle])
    BY <1>13, <2>1 DEF RoleWrite
  <2>4. /\ \A f \in Emails \ {t} : user'[f] = user[f]
        /\ user'[t] = [user[t] EXCEPT !.role = call[c].role]
    BY <1>wf, <2>2, <2>3
  <2>5. user'[t].mustChangePassword = user[t].mustChangePassword
    BY <2>2, <2>4 DEF User
  <2>6. t \in Registered'
    BY WellFormedStep DEF Kept
  <2>7. call'[c].pc # "InviteUpdate"
    BY <1>wf, <2>2, <2>3, Constants DEF ActorChanged
  <2>8. \A d \in Calls \ {c} : call'[d] = call[d] \/ call'[d] = [call[d] EXCEPT !.fresh = FALSE]
    <3>1. \A d \in Calls \ {c} : call'[d] = ActorChanged(t, call)[d]
      BY <1>wf, <2>3 DEF ActorChanged
    <3>2. QED  BY <2>2, <3>1, ActorAged
  <2>9. Quiet
    BY <2>7, <2>8, <1>moves
  <2>10. t \notin chosen \/ ~user'[t].mustChangePassword
    BY <2>5, <1>live
  <2>11. \A f \in chosen : Live(f)' /\ ~Reinviting(f)'
    BY <2>2, <2>4, <2>6, <2>9, <2>10, <1>users
  <2>12. QED  BY <2>2, <2>11 DEF ChosenOK
<1>14. ASSUME NEW c \in Calls, NEW k \in Keys, NEW r \in Roles, KeyCreate(c, k, r) PROVE ChosenOK'
  BY <1>14, <1>idle, <1>tables DEF KeyCreate
<1>15. ASSUME NEW c \in Calls, NEW k \in Keys, KeyRevoke(c, k) PROVE ChosenOK'
  <2>1. UNCHANGED <<user, chosen>> /\ call' = KeyChanged(k, [call EXCEPT ![c] = Idle])
    BY <1>15 DEF KeyRevoke
  <2>2. call'[c].pc # "InviteUpdate"
    BY <1>wf, <2>1, Constants DEF KeyChanged
  <2>3. \A d \in Calls \ {c} : call'[d] = call[d] \/ call'[d] = [call[d] EXCEPT !.fresh = FALSE]
    BY <1>wf, <2>1 DEF KeyChanged
  <2>4. QED  BY <2>1, <2>2, <2>3, <1>moves, <1>tables
<1>16. ASSUME NEW c \in Calls, Error(c) PROVE ChosenOK'
  BY <1>16, <1>idle, <1>tables DEF Error
<1>17. CASE Down
  <2>1. UNCHANGED <<user, chosen>> /\ \A d \in Calls : call'[d] = call[d] \/ call'[d] = Idle
    BY <1>17 DEF Down
  <2>2. Quiet
    BY <2>1, Constants DEF Quiet
  <2>3. QED  BY <2>1, <2>2, <1>tables
<1>18. CASE UNCHANGED vars
  BY <1>18, <1>tables DEF vars, Quiet
<1>19. QED
  BY <1>1, <1>2, <1>3, <1>4, <1>5, <1>6, <1>7, <1>8, <1>9, <1>10, <1>11, <1>12, <1>13, <1>14,
     <1>15, <1>16, <1>17, <1>18 DEF Next, AccountStep, MemberStep, KeyStep

\* A password that a member chose is never replaced by an invitation.
THEOREM ChosenPasswordsHold == Spec => []ChosenPasswordHolds
<1>1. Init => ChosenOK
  BY DEF Init, ChosenOK
<1>2. ChosenOK => ChosenPasswordHolds
  BY DEF ChosenOK, ChosenPasswordHolds
<1>3. QED  BY <1>1, <1>2, MembersWellFormed, ChosenStep, PTL DEF Spec

-----------------------------------------------------------------------------
(* Authority: a request that nothing overtook acts with the role its actor has. *)
(* It is what OwnerRemains needs besides its own case, and bounds nothing that *)
(* a request overtaken since Gate may still do: a bulk invitation goes on.     *)

\* verifyToken would answer what it answered when the request came in.
Current(c) ==
    IF call[c].key = None THEN Live(call[c].actor) /\ user[call[c].actor].role = call[c].rank
                          ELSE ~apiKey[call[c].key].revokedAt

AuthorityIsCurrent == \A c \in Calls : call[c].actor # None /\ call[c].fresh => Current(c)

\* Requests of a member who changes do not go on unnoticed.
LEMMA AgedNotFresh ==
    ASSUME WellFormed, NEW e \in Emails, NEW d \in Calls, ActorChanged(e, call)[d].fresh
    PROVE  /\ call[d].fresh /\ ~(call[d].key = None /\ call[d].actor = e)
           /\ ActorChanged(e, call)[d].actor = call[d].actor
           /\ ActorChanged(e, call)[d].key = call[d].key
           /\ ActorChanged(e, call)[d].rank = call[d].rank
<1>1. call[d] \in Call
  BY TypeParts DEF WellFormed, CallsTyped
<1>2. ActorChanged(e, call)[d] = IF call[d].key = None /\ call[d].actor = e
                                THEN [call[d] EXCEPT !.fresh = FALSE] ELSE call[d]
  BY DEF ActorChanged
<1>3. ~[call[d] EXCEPT !.fresh = FALSE].fresh
  BY <1>1 DEF Call
<1>4. ~(call[d].key = None /\ call[d].actor = e)
  BY <1>2, <1>3
<1>5. QED  BY <1>2, <1>4

LEMMA AuthorityStep == ASSUME WellFormed, AuthorityIsCurrent, [Next]_vars PROVE AuthorityIsCurrent'
<1>wf. /\ call \in [Calls -> Call] /\ CallOK /\ user \in [Emails -> User \cup {None}]
       /\ apiKey \in [Keys -> ApiKey \cup {None}] /\ sessions \subseteq Registered
  BY TypeParts DEF WellFormed, CallsTyped, TablesOK
<1>kept. Kept
  BY WellFormedStep
<1> DEFINE On(d)   == call'[d].actor # None /\ call'[d].fresh
           Same(d) == /\ call[d].fresh /\ call'[d].actor = call[d].actor
                      /\ call'[d].key = call[d].key /\ call'[d].rank = call[d].rank
\* Whoever a request that goes on acts for.
<1>actor. ASSUME NEW d \in Calls, On(d), Same(d)
          PROVE  /\ call[d].actor \in Registered /\ Current(d)
                 /\ call[d].key # None => apiKey[call[d].key] # None /\ call[d].key \in Keys
  BY <1>actor, <1>wf DEF AuthorityIsCurrent, CallOK, Fine, Call
<1>keep. ASSUME NEW d \in Calls, On(d), Same(d),
                call[d].key = None =>
                    /\ user'[call[d].actor].role = user[call[d].actor].role
                    /\ ~user[call[d].actor].mustChangePassword => ~user'[call[d].actor].mustChangePassword,
                call[d].key # None => apiKey'[call[d].key].revokedAt = apiKey[call[d].key].revokedAt
         PROVE  Current(d)'
  BY <1>keep, <1>actor, <1>kept DEF Current, Live, Kept
<1>same. ASSUME UNCHANGED <<user, apiKey>>, \A d \in Calls : On(d) => Same(d)
         PROVE  AuthorityIsCurrent'
  BY <1>same, <1>keep DEF AuthorityIsCurrent
\* One row changes, and nobody goes on acting for it with what he had.
<1>users. ASSUME UNCHANGED apiKey, NEW e \in Emails, \A f \in Emails \ {e} : user'[f] = user[f],
                 \A d \in Calls : On(d) => Same(d) /\ ~(call[d].key = None /\ call[d].actor = e)
          PROVE  AuthorityIsCurrent'
  <2>1. ASSUME NEW d \in Calls, On(d) PROVE Current(d)'
    <3>1. call[d].actor \in Emails /\ Same(d) /\ ~(call[d].key = None /\ call[d].actor = e)
      BY <1>users, <1>actor, <2>1 DEF Registered
    <3>2. QED  BY <1>users, <2>1, <3>1, <1>keep
  <2>2. QED  BY <2>1 DEF AuthorityIsCurrent
\* One call moves on as it was, or ends.
<1>one. ASSUME NEW c \in Calls, NEW k, call' = [call EXCEPT ![c] = k],
               \/ k.actor = None
               \/ k.actor = call[c].actor /\ k.key = call[c].key /\ k.rank = call[c].rank /\ k.fresh = call[c].fresh
        PROVE  \A d \in Calls : On(d) => Same(d)
  BY <1>one, <1>wf
<1>idle. ASSUME NEW c \in Calls, Return(c) PROVE \A d \in Calls : On(d) => Same(d)
  BY <1>idle, <1>one, Constants DEF Return
<1> HIDE DEF On, Same
<1>1. ASSUME NEW c \in Calls, NEW e \in Emails, SignUpRead(c, e) PROVE AuthorityIsCurrent'
  <2>1. PICK k : k = [Idle EXCEPT !.pc = "SignUpSlug", !.target = e]
    OBVIOUS
  <2>2. k.actor = None
    BY <2>1, Constants DEF Call
  <2>3. QED  BY <1>1, <2>1, <2>2, <1>one, <1>same DEF SignUpRead
<1>2. ASSUME NEW c \in Calls, NEW e \in Emails, ChangeRead(c, e) PROVE AuthorityIsCurrent'
  <2>1. PICK k : k = [Idle EXCEPT !.pc = "ChangeWrite", !.target = e]
    OBVIOUS
  <2>2. k.actor = None
    BY <2>1, Constants DEF Call
  <2>3. QED  BY <1>2, <2>1, <2>2, <1>one, <1>same DEF ChangeRead
<1>3. ASSUME NEW c \in Calls, Slug(c) PROVE AuthorityIsCurrent'
  <2>1. UNCHANGED <<user, apiKey>> /\ \E o, p : call' = [call EXCEPT ![c].org = o, ![c].pc = p]
    BY <1>3 DEF Slug
  <2>2. PICK o, p : call' = [call EXCEPT ![c].org = o, ![c].pc = p]
    BY <2>1
  <2>3. PICK k : k = [call[c] EXCEPT !.org = o, !.pc = p]
    OBVIOUS
  <2>4. k.actor = call[c].actor /\ k.key = call[c].key /\ k.rank = call[c].rank /\ k.fresh = call[c].fresh
    BY <1>wf, <2>3 DEF Call
  <2>5. call' = [call EXCEPT ![c] = k]
    BY <1>wf, <2>2, <2>3
  <2>6. QED  BY <2>1, <2>4, <2>5, <1>one, <1>same
<1>4. ASSUME NEW c \in Calls, Commit(c) PROVE AuthorityIsCurrent'
  <2>1. PICK e \in Emails : e = call[c].target
    BY <1>4, <1>wf DEF Commit, CallOK, Fine
  <2>2. user[e] = None /\ UNCHANGED apiKey /\ Return(c) /\ \A f \in Emails \ {e} : user'[f] = user[f]
    BY <1>4, <1>wf, <2>1 DEF Commit, IndexesFree
  <2>3. \A d \in Calls : On(d) => Same(d)
    BY <2>2, <1>idle
  <2>4. \A d \in Calls : On(d) => call[d].actor # e
    BY <2>2, <2>3, <1>actor DEF Registered
  <2>5. QED  BY <2>2, <2>3, <2>4, <1>users
<1>5. ASSUME NEW c \in Calls, Collide(c) PROVE AuthorityIsCurrent'
  <2>1. UNCHANGED <<user, apiKey>> /\ (Return(c) \/ call' = [call EXCEPT ![c].pc = "RetrySlug"])
    BY <1>5 DEF Collide
  <2>2. CASE Return(c)
    BY <2>1, <2>2, <1>idle, <1>same
  <2>3. CASE call' = [call EXCEPT ![c].pc = "RetrySlug"]
    <3>1. PICK k : k = [call[c] EXCEPT !.pc = "RetrySlug"]
      OBVIOUS
    <3>2. k.actor = call[c].actor /\ k.key = call[c].key /\ k.rank = call[c].rank /\ k.fresh = call[c].fresh
      BY <1>wf, <3>1 DEF Call
    <3>3. call' = [call EXCEPT ![c] = k]
      BY <1>wf, <2>3, <3>1
    <3>4. QED  BY <2>1, <3>2, <3>3, <1>one, <1>same
  <2>4. QED  BY <2>1, <2>2, <2>3
<1>6. ASSUME NEW c \in Calls, ChangeWrite(c) PROVE AuthorityIsCurrent'
  <2>1. PICK e \in Registered : e = call[c].target
    BY <1>6, <1>wf DEF ChangeWrite, CallOK, Fine
  <2>2. user[e] \in User /\ e \in Emails
    BY <1>wf DEF Registered
  <2>3. user' = [user EXCEPT ![e].mustChangePassword = FALSE] /\ UNCHANGED apiKey /\ Return(c)
    BY <1>6, <2>1 DEF ChangeWrite
  <2>4. /\ user'[e].role = user[e].role /\ ~user'[e].mustChangePassword
        /\ \A f \in Emails \ {e} : user'[f] = user[f]
    BY <1>wf, <2>2, <2>3 DEF User
  <2>5. ASSUME NEW d \in Calls, On(d) PROVE Current(d)'
    <3>1. Same(d)
      BY <2>3, <2>5, <1>idle
    <3>2. call[d].actor \in Emails
      BY <2>5, <3>1, <1>actor DEF Registered
    <3>3. QED  BY <2>3, <2>4, <2>5, <3>1, <3>2, <1>keep
  <2>6. QED  BY <2>5 DEF AuthorityIsCurrent, On
<1>7. ASSUME NEW e \in Emails, Login(e) \/ IssueDevToken(e) PROVE AuthorityIsCurrent'
  <2>1. UNCHANGED <<user, apiKey, call>>
    BY <1>7 DEF Login, IssueDevToken, NewSession
  <2>2. QED  BY <2>1, <1>same DEF On, Same
<1>8. ASSUME NEW c \in Calls, Gate(c) PROVE AuthorityIsCurrent'
  <2>1. UNCHANGED <<user, apiKey>> /\ \A d \in Calls \ {c} : call'[d] = call[d]
    BY <1>8, <1>wf DEF Gate
  <2>2. Current(c)'
    <3>1. CASE \E e \in Emails :
                 /\ Accepts(e)
                 /\ call' = [call EXCEPT ![c] = [Idle EXCEPT !.pc = "Gated", !.actor = e,
                                 !.rank = user[e].role, !.org = user[e].org]]
      <4>1. PICK e \in Emails :
              /\ Accepts(e)
              /\ call' = [call EXCEPT ![c] = [Idle EXCEPT !.pc = "Gated", !.actor = e,
                              !.rank = user[e].role, !.org = user[e].org]]
        BY <3>1
      <4>2. call'[c].actor = e /\ call'[c].key = None /\ call'[c].rank = user[e].role
        BY <1>wf, <4>1, Constants DEF Call
      <4>3. Live(e)
        BY <1>wf, <4>1 DEF Accepts, Live
      <4>4. QED  BY <2>1, <4>2, <4>3 DEF Current, Live, Registered
    <3>2. CASE \E k \in Keys :
                 /\ KeyAccepted(k)
                 /\ call' = [call EXCEPT ![c] = [Idle EXCEPT !.pc = "Gated", !.key = k,
                                 !.actor = apiKey[k].createdBy, !.rank = apiKey[k].role,
                                 !.org = apiKey[k].org]]
      <4>1. PICK k \in Keys :
              /\ KeyAccepted(k)
              /\ call' = [call EXCEPT ![c] = [Idle EXCEPT !.pc = "Gated", !.key = k,
                              !.actor = apiKey[k].createdBy, !.rank = apiKey[k].role,
                              !.org = apiKey[k].org]]
        BY <3>2
      <4>2. call'[c].key = k /\ k # None
        BY <1>wf, <4>1, Constants DEF Call
      <4>3. QED  BY <2>1, <4>1, <4>2 DEF Current, KeyAccepted
    <3>3. QED  BY <1>8, <3>1, <3>2 DEF Gate
  <2>3. ASSUME NEW d \in Calls \ {c}, On(d) PROVE Current(d)'
    <3>1. Same(d)
      BY <2>1, <2>3 DEF On, Same
    <3>2. QED  BY <2>1, <2>3, <3>1, <1>keep
  <2>4. QED  BY <2>2, <2>3 DEF AuthorityIsCurrent, On
<1>9. ASSUME NEW c \in Calls, NEW e \in Emails, NEW r \in Roles, InviteRead(c, e, r) PROVE AuthorityIsCurrent'
  <2>1. PICK p : call' = [call EXCEPT ![c].target = e, ![c].role = r, ![c].pc = p]
    BY <1>9 DEF InviteRead
  <2>2. PICK k : k = [call[c] EXCEPT !.target = e, !.role = r, !.pc = p]
    OBVIOUS
  <2>3. k.actor = call[c].actor /\ k.key = call[c].key /\ k.rank = call[c].rank /\ k.fresh = call[c].fresh
    BY <1>wf, <2>2 DEF Call
  <2>4. call' = [call EXCEPT ![c] = k]
    BY <1>wf, <2>1, <2>2
  <2>5. QED  BY <1>9, <2>3, <2>4, <1>one, <1>same DEF InviteRead
<1>10. ASSUME NEW c \in Calls, InviteUpdate(c) PROVE AuthorityIsCurrent'
  <2>1. PICK e \in Registered : e = call[c].target
    BY <1>10, <1>wf DEF InviteUpdate, CallOK, Fine
  <2>2. e \in Emails
    BY DEF Registered
  <2>3. /\ \A f \in Emails \ {e} : user'[f] = user[f]
        /\ Answered(c, ActorChanged(e, call)) /\ UNCHANGED apiKey
    BY <1>10, <1>wf, <2>1 DEF InviteUpdate
  <2>4. \A d \in Calls \ {c} : call'[d] = ActorChanged(e, call)[d]
    BY <2>3 DEF Answered, ActorChanged
  <2>5. \/ call'[c].actor = None
        \/ /\ call'[c].actor = ActorChanged(e, call)[c].actor /\ call'[c].key = ActorChanged(e, call)[c].key
           /\ call'[c].rank = ActorChanged(e, call)[c].rank /\ call'[c].fresh = ActorChanged(e, call)[c].fresh
    <3>1. CASE call' = [ActorChanged(e, call) EXCEPT ![c] = Idle]
      BY <3>1, Constants DEF ActorChanged
    <3>2. CASE call' = [ActorChanged(e, call) EXCEPT ![c].pc = "Gated", ![c].target = None, ![c].role = 0]
      <4>1. ActorChanged(e, call)[c] \in Call
        BY <2>2, ActorAged
      <4>2. call'[c] = [ActorChanged(e, call)[c] EXCEPT !.pc = "Gated", !.target = None, !.role = 0]
        BY <3>2 DEF ActorChanged
      <4>3. QED  BY <4>1, <4>2 DEF Call
    <3>3. QED  BY <2>3, <3>1, <3>2 DEF Answered
  <2>6. ASSUME NEW d \in Calls, On(d)
        PROVE  Same(d) /\ ~(call[d].key = None /\ call[d].actor = e)
    <3>1. /\ call'[d].actor = ActorChanged(e, call)[d].actor /\ call'[d].key = ActorChanged(e, call)[d].key
          /\ call'[d].rank = ActorChanged(e, call)[d].rank /\ call'[d].fresh = ActorChanged(e, call)[d].fresh
      BY <2>4, <2>5, <2>6 DEF On
    <3>2. ActorChanged(e, call)[d].fresh
      BY <2>6, <3>1 DEF On
    <3>3. QED  BY <2>2, <3>1, <3>2, AgedNotFresh DEF Same
  <2>7. QED  BY <2>2, <2>3, <2>6, <1>users
<1>11. ASSUME NEW c \in Calls, InviteCreate(c) PROVE AuthorityIsCurrent'
  <2>1. PICK e \in Emails : e = call[c].target
    BY <1>11, <1>wf DEF InviteCreate, CallOK, Fine
  <2>2. user[e] = None /\ UNCHANGED apiKey /\ \A f \in Emails \ {e} : user'[f] = user[f]
    BY <1>11, <1>wf, <2>1 DEF InviteCreate
  <2>3. \A d \in Calls : On(d) => Same(d)
    <3>1. CASE call' = [call EXCEPT ![c] = Idle]
      BY <3>1, <1>idle DEF Return
    <3>2. CASE call' = [call EXCEPT ![c].pc = "Gated", ![c].target = None, ![c].role = 0]
      <4>1. PICK k : k = [call[c] EXCEPT !.pc = "Gated", !.target = None, !.role = 0]
        OBVIOUS
      <4>2. k.actor = call[c].actor /\ k.key = call[c].key /\ k.rank = call[c].rank /\ k.fresh = call[c].fresh
        BY <1>wf, <4>1 DEF Call
      <4>3. call' = [call EXCEPT ![c] = k]
        BY <1>wf, <3>2, <4>1
      <4>4. QED  BY <4>2, <4>3, <1>one
    <3>3. QED  BY <1>11, <3>1, <3>2 DEF InviteCreate, Answered
  <2>4. \A d \in Calls : On(d) => call[d].actor # e
    BY <2>2, <2>3, <1>actor DEF Registered
  <2>5. QED  BY <2>2, <2>3, <2>4, <1>users
<1>12. ASSUME NEW c \in Calls, NEW t \in Emails, NEW r \in Roles, RoleRead(c, t, r) PROVE AuthorityIsCurrent'
  <2>1. PICK w : call' = [call EXCEPT ![c].pc = "RoleWrite", ![c].target = t, ![c].role = r, ![c].was = w]
    BY <1>12 DEF RoleRead
  <2>2. PICK k : k = [call[c] EXCEPT !.pc = "RoleWrite", !.target = t, !.role = r, !.was = w]
    OBVIOUS
  <2>3. k.actor = call[c].actor /\ k.key = call[c].key /\ k.rank = call[c].rank /\ k.fresh = call[c].fresh
    BY <1>wf, <2>2 DEF Call
  <2>4. call' = [call EXCEPT ![c] = k]
    BY <1>wf, <2>1, <2>2
  <2>5. QED  BY <1>12, <2>3, <2>4, <1>one, <1>same DEF RoleRead
<1>13. ASSUME NEW c \in Calls, RoleWrite(c) PROVE AuthorityIsCurrent'
  <2>1. PICK t \in Registered : t = call[c].target
    BY <1>13, <1>wf DEF RoleWrite, CallOK, Fine
  <2>2. t \in Emails /\ t # None
    BY Constants DEF Registered
  <2>3. /\ \A f \in Emails \ {t} : user'[f] = user[f]
        /\ call' = ActorChanged(t, [call EXCEPT ![c] = Idle]) /\ UNCHANGED apiKey
    BY <1>13, <1>wf, <2>1 DEF RoleWrite
  <2>4. call'[c] = Idle
    BY <1>wf, <2>2, <2>3, Constants DEF ActorChanged
  <2>5. \A d \in Calls \ {c} : call'[d] = ActorChanged(t, call)[d]
    BY <1>wf, <2>3 DEF ActorChanged
  <2>6. ASSUME NEW d \in Calls, On(d)
        PROVE  Same(d) /\ ~(call[d].key = None /\ call[d].actor = t)
    <3>1. call'[d] = ActorChanged(t, call)[d] /\ call'[d].fresh
      BY <2>4, <2>5, <2>6, Constants DEF On
    <3>2. QED  BY <2>2, <3>1, AgedNotFresh DEF Same
  <2>7. QED  BY <2>2, <2>3, <2>6, <1>users
<1>14. ASSUME NEW c \in Calls, NEW k \in Keys, NEW r \in Roles, KeyCreate(c, k, r) PROVE AuthorityIsCurrent'
  <2>1. apiKey[k] = None /\ Return(c) /\ UNCHANGED user /\ \A j \in Keys \ {k} : apiKey'[j] = apiKey[j]
    BY <1>14, <1>wf DEF KeyCreate
  <2>2. ASSUME NEW d \in Calls, On(d) PROVE Current(d)'
    <3>1. Same(d)
      BY <2>1, <2>2, <1>idle
    <3>2. call[d].key # None => call[d].key \in Keys \ {k}
      BY <2>1, <2>2, <3>1, <1>actor
    <3>3. QED  BY <2>1, <2>2, <3>1, <3>2, <1>keep
  <2>3. QED  BY <2>2 DEF AuthorityIsCurrent, On
<1>15. ASSUME NEW c \in Calls, NEW k \in Keys, KeyRevoke(c, k) PROVE AuthorityIsCurrent'
  <2>1. /\ UNCHANGED user /\ \A j \in Keys \ {k} : apiKey'[j] = apiKey[j]
        /\ call' = KeyChanged(k, [call EXCEPT ![c] = Idle])
    BY <1>15, <1>wf DEF KeyRevoke
  <2>2. k # None
    BY Constants
  <2>3. call'[c] = Idle
    BY <1>wf, <2>1, <2>2, Constants DEF KeyChanged
  <2>4. \A d \in Calls \ {c} : call'[d] = IF call[d].key = k THEN [call[d] EXCEPT !.fresh = FALSE] ELSE call[d]
    BY <1>wf, <2>1 DEF KeyChanged
  <2>5. ASSUME NEW d \in Calls, On(d) PROVE Current(d)'
    <3>1. d # c
      BY <2>3, <2>5, Constants DEF On
    <3>2. call[d].key # k
      BY <1>wf, <2>4, <2>5, <3>1 DEF On, Call
    <3>3. Same(d)
      BY <2>4, <2>5, <3>1, <3>2 DEF On, Same
    <3>4. call[d].key # None => call[d].key \in Keys \ {k}
      BY <2>5, <3>2, <3>3, <1>actor
    <3>5. QED  BY <2>1, <2>5, <3>3, <3>4, <1>keep
  <2>6. QED  BY <2>5 DEF AuthorityIsCurrent, On
<1>16. ASSUME NEW c \in Calls, Error(c) PROVE AuthorityIsCurrent'
  BY <1>16, <1>idle, <1>same DEF Error
<1>17. CASE Down
  <2>1. UNCHANGED <<user, apiKey>> /\ \A d \in Calls : call'[d] = call[d] \/ call'[d] = Idle
    BY <1>17 DEF Down
  <2>2. \A d \in Calls : On(d) => Same(d)
    BY <2>1, Constants DEF On, Same
  <2>3. QED  BY <2>1, <2>2, <1>same
<1>18. CASE UNCHANGED vars
  <2>1. UNCHANGED <<user, apiKey, call>>
    BY <1>18 DEF vars
  <2>2. QED  BY <2>1, <1>same DEF On, Same
<1>19. QED
  BY <1>1, <1>2, <1>3, <1>4, <1>5, <1>6, <1>7, <1>8, <1>9, <1>10, <1>11, <1>12, <1>13, <1>14,
     <1>15, <1>16, <1>17, <1>18 DEF Next, AccountStep, MemberStep, KeyStep

LEMMA AuthorityInit == Init => AuthorityIsCurrent
BY Constants DEF Init, AuthorityIsCurrent

-----------------------------------------------------------------------------
(* Owners *)

OwnerLive(e) == e \in Registered /\ user[e].role = OWNER /\ Live(e)

\* The heart of it: who demotes an owner, on facts that still hold, is another one.
LEMMA DemotedByOwner ==
    ASSUME WellFormed, AuthorityIsCurrent, NEW c \in Calls, call[c].pc = "RoleWrite", Settled(c),
           OwnerLive(call[c].target), call[c].role # OWNER
    PROVE  /\ OwnerLive(call[c].actor) /\ call[c].actor # call[c].target
           /\ user[call[c].actor].org = user[call[c].target].org
<1>1. /\ call[c] \in Call /\ Fine(call[c]) /\ call[c].role <= call[c].rank
      /\ user \in [Emails -> User \cup {None}]
  BY TypeParts DEF WellFormed, CallsTyped, CallOK, TablesOK
<1>2. /\ call[c].actor \in Registered /\ call[c].rank \in Roles /\ call[c].role \in Roles
      /\ call[c].was <= call[c].rank /\ call[c].was \in Roles
      /\ ~(call[c].target = call[c].actor /\ call[c].role < call[c].rank)
      /\ user[call[c].actor].org = call[c].org /\ user[call[c].target].org = call[c].org
  BY <1>1, Constants DEF Fine, ByMember
<1>3. call[c].was = OWNER /\ call[c].fresh
      /\ (call[c].key # None => Live(call[c].actor) /\ user[call[c].actor].role >= call[c].rank)
  BY DEF Settled, OwnerLive
<1>4. call[c].rank = 4 /\ call[c].role < 4
  <2>1. call[c].rank \in 1..4 /\ call[c].role \in 1..4
    BY <1>2, Constants
  <2>2. QED  BY <1>1, <1>2, <1>3, <2>1 DEF OWNER
<1>5. call[c].actor # call[c].target
  BY <1>2, <1>4
<1>6. user[call[c].actor].role \in 1..4
  <2>1. user[call[c].actor] \in User
    BY <1>1, <1>2 DEF Registered
  <2>2. QED  BY <2>1, Constants DEF User
<1>7. Live(call[c].actor) /\ user[call[c].actor].role >= call[c].rank
  <2>1. call[c].actor # None
    BY <1>2, Constants DEF Registered
  <2>2. CASE call[c].key # None
    BY <2>2, <1>3
  <2>3. CASE call[c].key = None
    <3>1. Live(call[c].actor) /\ user[call[c].actor].role = call[c].rank
      BY <1>3, <2>1, <2>3 DEF AuthorityIsCurrent, Current
    <3>2. QED  BY <3>1, <1>4
  <2>4. QED  BY <2>2, <2>3
<1>8. user[call[c].actor].role = OWNER
  BY <1>4, <1>6, <1>7 DEF OWNER
<1>9. QED  BY <1>2, <1>5, <1>7, <1>8 DEF OwnerLive

LEMMA OwnerStep == ASSUME WellFormed, AuthorityIsCurrent, OwnerRemains, [Next]_vars PROVE OwnerRemains'
<1>wf. /\ call \in [Calls -> Call] /\ CallOK /\ user \in [Emails -> User \cup {None}]
       /\ \A e \in Registered : e \in Emails /\ user[e] \in User
  BY TypeParts DEF WellFormed, CallsTyped, TablesOK, Registered
<1>was. \A o \in orgs \ disputed : \E e \in Emails : OwnerLive(e) /\ user[e].org = o
  BY DEF OwnerRemains, OwnerLive, Registered
<1>is. ASSUME \A o \in orgs' \ disputed' : \E e \in Emails : OwnerLive(e)' /\ user'[e].org = o
       PROVE  OwnerRemains'
  BY <1>is DEF OwnerRemains, OwnerLive
\* A row that is not touched is an owner's as before.
<1>same. ASSUME NEW e \in Emails, user'[e] = user[e], OwnerLive(e)
         PROVE  OwnerLive(e)'
  BY <1>same DEF OwnerLive, Live, Registered
<1>tables. ASSUME UNCHANGED <<orgs, user, disputed>> PROVE OwnerRemains'
  BY <1>tables, <1>was, <1>same, <1>is
\* One row changes and stays an owner's, or its organisation is given up.
<1>row. ASSUME NEW f \in Emails, orgs' = orgs, disputed \subseteq disputed',
               \A e \in Emails \ {f} : user'[e] = user[e],
               OwnerLive(f) /\ user[f].org \notin disputed' => OwnerLive(f)' /\ user'[f].org = user[f].org
        PROVE  OwnerRemains'
  <2>1. ASSUME NEW o \in orgs' \ disputed'
        PROVE  \E e \in Emails : OwnerLive(e)' /\ user'[e].org = o
    <3>1. PICK e \in Emails : OwnerLive(e) /\ user[e].org = o
      BY <2>1, <1>row, <1>was
    <3>2. CASE e = f
      BY <2>1, <3>1, <3>2, <1>row
    <3>3. CASE e # f
      <4>1. user'[e] = user[e]
        BY <3>3, <1>row
      <4>2. QED  BY <3>1, <4>1, <1>same
    <3>4. QED  BY <3>2, <3>3
  <2>2. QED  BY <2>1, <1>is
<1>1. ASSUME NEW c \in Calls, Commit(c) PROVE OwnerRemains'
  <2>1. PICK e \in Emails : e = call[c].target
    BY <1>1, <1>wf DEF Commit, CallOK, Fine
  <2>2. PICK p \in Org : p = call[c].org
    BY <1>1, <1>wf DEF Commit, CallOK, Fine
  <2>3. PICK r \in User : r = [org |-> p, role |-> OWNER, mustChangePassword |-> FALSE]
    BY MembersAssumption DEF User
  <2>4. /\ user[e] = None /\ orgs' = orgs \cup {p} /\ disputed' = disputed
        /\ user' = [user EXCEPT ![e] = r]
    BY <1>1, <2>1, <2>2, <2>3 DEF Commit, IndexesFree
  <2>5. user'[e] = r /\ \A f \in Emails \ {e} : user'[f] = user[f]
    BY <2>4, <1>wf
  <2>6. OwnerLive(e)' /\ user'[e].org = p
    BY <2>3, <2>5, Constants DEF OwnerLive, Live, Registered
  <2>7. ASSUME NEW o \in orgs' \ disputed'
        PROVE  \E f \in Emails : OwnerLive(f)' /\ user'[f].org = o
    <3>1. CASE o = p
      BY <3>1, <2>6
    <3>2. CASE o \in orgs
      <4>1. PICK f \in Emails : OwnerLive(f) /\ user[f].org = o
        BY <2>4, <2>7, <3>2, <1>was
      <4>2. user'[f] = user[f]
        BY <2>4, <2>5, <4>1 DEF OwnerLive, Registered
      <4>3. QED  BY <4>1, <4>2, <1>same
    <3>3. QED  BY <2>4, <2>7, <3>1, <3>2
  <2>8. QED  BY <2>7, <1>is
<1>2. ASSUME NEW c \in Calls, ChangeWrite(c) PROVE OwnerRemains'
  <2>1. PICK e \in Registered : e = call[c].target
    BY <1>2, <1>wf DEF ChangeWrite, CallOK, Fine
  <2>2. /\ user' = [user EXCEPT ![e].mustChangePassword = FALSE] /\ orgs' = orgs /\ disputed' = disputed
    BY <1>2, <2>1 DEF ChangeWrite
  <2>3. PICK r \in User : r = [user[e] EXCEPT !.mustChangePassword = FALSE]
    BY <1>wf DEF User
  <2>4. r.role = user[e].role /\ r.org = user[e].org /\ ~r.mustChangePassword
    BY <1>wf, <2>3 DEF User
  <2>5. user'[e] = r /\ \A f \in Emails \ {e} : user'[f] = user[f]
    BY <1>wf, <2>2, <2>3
  <2>6. OwnerLive(e) => OwnerLive(e)' /\ user'[e].org = user[e].org
    BY <1>wf, <2>4, <2>5, Constants DEF OwnerLive, Live, Registered
  <2>7. QED  BY <1>wf, <2>2, <2>5, <2>6, <1>row
<1>3. ASSUME NEW c \in Calls, InviteUpdate(c) PROVE OwnerRemains'
  <2>1. PICK e \in Registered : e = call[c].target /\ user[e].org = call[c].org
    BY <1>3, <1>wf DEF InviteUpdate, CallOK, Fine
  <2>2. /\ user' = [user EXCEPT ![e].role = call[c].role, ![e].mustChangePassword = TRUE]
        /\ orgs' = orgs /\ disputed' = IF Live(e) THEN disputed \cup {call[c].org} ELSE disputed
    BY <1>3, <2>1 DEF InviteUpdate
  <2>3. e \in Emails /\ \A f \in Emails \ {e} : user'[f] = user[f]
    BY <1>wf, <2>2
  <2>4. disputed \subseteq disputed' /\ ~(OwnerLive(e) /\ user[e].org \notin disputed')
    BY <2>1, <2>2 DEF OwnerLive
  <2>5. QED  BY <2>2, <2>3, <2>4, <1>row
<1>4. ASSUME NEW c \in Calls, InviteCreate(c) PROVE OwnerRemains'
  <2>1. PICK e \in Emails : e = call[c].target
    BY <1>4, <1>wf DEF InviteCreate, CallOK, Fine
  <2>2. /\ user[e] = None /\ \A f \in Emails \ {e} : user'[f] = user[f]
        /\ orgs' = orgs /\ disputed' = disputed
    BY <1>4, <1>wf, <2>1 DEF InviteCreate
  <2>3. ~OwnerLive(e)
    BY <2>2 DEF OwnerLive, Registered
  <2>4. QED  BY <2>2, <2>3, <1>row
<1>5. ASSUME NEW c \in Calls, RoleWrite(c) PROVE OwnerRemains'
  <2>1. PICK t \in Registered : t = call[c].target /\ user[t].org = call[c].org
    BY <1>5, <1>wf DEF RoleWrite, CallOK, Fine
  <2>2. /\ user' = [user EXCEPT ![t].role = call[c].role] /\ orgs' = orgs
        /\ disputed' = IF Settled(c) THEN disputed ELSE disputed \cup {call[c].org}
    BY <1>5, <2>1 DEF RoleWrite
  <2>3. /\ t \in Emails /\ \A f \in Emails \ {t} : user'[f] = user[f]
        /\ user'[t] = [user[t] EXCEPT !.role = call[c].role]
    BY <1>wf, <2>2
  <2>4. /\ user'[t].role = call[c].role /\ user'[t].org = user[t].org
        /\ user'[t].mustChangePassword = user[t].mustChangePassword
    BY <1>wf, <2>3 DEF User
  <2>5. disputed \subseteq disputed'
    BY <2>2
  <2>6. CASE ~Settled(c)
    <3>1. user[t].org \in disputed'
      BY <2>1, <2>2, <2>6
    <3>2. QED  BY <2>2, <2>3, <2>5, <3>1, <1>row
  <2>7. CASE call[c].role = OWNER
    <3>1. t \in Registered'
      BY WellFormedStep DEF Kept
    <3>2. OwnerLive(t) => OwnerLive(t)'
      BY <2>4, <2>7, <3>1 DEF OwnerLive, Live
    <3>3. QED  BY <2>2, <2>3, <2>4, <2>5, <3>2, <1>row
  <2>8. CASE Settled(c) /\ call[c].role # OWNER
    <3>1. ASSUME NEW o \in orgs' \ disputed'
          PROVE  \E e \in Emails : OwnerLive(e)' /\ user'[e].org = o
      <4>1. PICK e \in Emails : OwnerLive(e) /\ user[e].org = o
        BY <2>2, <2>5, <3>1, <1>was
      <4>2. CASE e = t
        <5>1. call[c].pc = "RoleWrite"
          BY <1>5 DEF RoleWrite
        <5>2. PICK q \in Emails : q # t /\ OwnerLive(q) /\ user[q].org = user[t].org
          <6>1. OwnerLive(call[c].target)
            BY <2>1, <4>1, <4>2
          <6>2. /\ OwnerLive(call[c].actor) /\ call[c].actor # call[c].target
                /\ user[call[c].actor].org = user[call[c].target].org
            BY <2>8, <5>1, <6>1, DemotedByOwner
          <6>3. call[c].actor \in Emails
            BY <6>2 DEF OwnerLive, Registered
          <6>4. QED  BY <2>1, <6>2, <6>3
        <5>3. user'[q] = user[q]
          BY <2>3, <5>2
        <5>4. QED  BY <4>1, <4>2, <5>2, <5>3, <1>same
      <4>3. CASE e # t
        <5>1. user'[e] = user[e]
          BY <2>3, <4>3
        <5>2. QED  BY <4>1, <5>1, <1>same
      <4>4. QED  BY <4>2, <4>3
    <3>2. QED  BY <3>1, <1>is
  <2>9. QED  BY <2>6, <2>7, <2>8
\* The other actions touch neither an organisation nor a row.
<1>6. ASSUME NEW c \in Calls, Slug(c) \/ Collide(c) \/ Gate(c) \/ Error(c) PROVE OwnerRemains'
  BY <1>6, <1>tables DEF Slug, Collide, Gate, Error
<1>7. ASSUME NEW c \in Calls, NEW e \in Emails, SignUpRead(c, e) \/ ChangeRead(c, e) PROVE OwnerRemains'
  BY <1>7, <1>tables DEF SignUpRead, ChangeRead
<1>8. ASSUME NEW c \in Calls, NEW e \in Emails, NEW r \in Roles, InviteRead(c, e, r) \/ RoleRead(c, e, r)
      PROVE  OwnerRemains'
  BY <1>8, <1>tables DEF InviteRead, RoleRead
<1>9. ASSUME NEW e \in Emails, Login(e) \/ IssueDevToken(e) PROVE OwnerRemains'
  BY <1>9, <1>tables DEF Login, IssueDevToken, NewSession
<1>10. ASSUME NEW c \in Calls, NEW k \in Keys, KeyRevoke(c, k) PROVE OwnerRemains'
  BY <1>10, <1>tables DEF KeyRevoke
<1>11. ASSUME NEW c \in Calls, NEW k \in Keys, NEW r \in Roles, KeyCreate(c, k, r) PROVE OwnerRemains'
  BY <1>11, <1>tables DEF KeyCreate
<1>12. CASE Down
  BY <1>12, <1>tables DEF Down
<1>13. CASE UNCHANGED vars
  BY <1>13, <1>tables DEF vars
<1>14. QED
  BY <1>1, <1>2, <1>3, <1>4, <1>5, <1>6, <1>7, <1>8, <1>9, <1>10, <1>11, <1>12, <1>13
     DEF Next, AccountStep, MemberStep, KeyStep

\* An organisation keeps an owner who can log in, unless a role or an invitation was
\* written on outdated facts: assignRole (service.ts:433-442) leaves the actor behind.
THEOREM OwnersRemain == Spec => []OwnerRemains
<1>1. Init => OwnerRemains
  BY DEF Init, OwnerRemains
<1>2. QED  BY <1>1, MembersWellFormed, AuthorityInit, AuthorityStep, OwnerStep, PTL DEF Spec

=============================================================================
