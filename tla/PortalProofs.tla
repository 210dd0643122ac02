---------------------------- MODULE PortalProofs ----------------------------
(***************************************************************************)
(* Portal's invariants, proved for any number of uploads, calls in flight, *)
(* assets, page sizes and positions: an upload becomes one asset, a viewer *)
(* resumes where he left, a search shows the text searched last, and the   *)
(* pages of a list follow one another without a gap.  Each of the first    *)
(* three needs the part of the state it is about and no more; the last     *)
(* rests on what the database's order is: every row has a place, and       *)
(* InOrder, Taken and the cursor are all about places.                     *)
(***************************************************************************)
EXTENDS Portal, TLAPS, FiniteSetTheorems, SequenceTheorems

-----------------------------------------------------------------------------
(* One asset for an upload *)

AssetTyped ==
    /\ asset \in Seq([upload : Uploads, published : Nat])
    /\ changes \in Nat
    /\ register \in [Registers -> Uploads \cup {None}]

\* An upload that was never raced for is claimed once or is one asset.
ClaimOK == \A u \in Uploads \ raced :
    /\ \A i, j \in Ids : asset[i].upload = u /\ asset[j].upload = u => i = j
    /\ \A g, h \in Registers : register[g] = u /\ register[h] = u => g = h
    /\ \A g \in Registers, i \in Ids : register[g] = u => asset[i].upload # u

ClaimInv == AssetTyped /\ ClaimOK

LEMMA NoneIsNone == None \notin Uploads /\ None \notin Pos /\ MaxPos \in Nat
BY PortalAssumption

LEMMA ClaimInit == Init => ClaimInv
<1> SUFFICES ASSUME Init PROVE ClaimInv
  OBVIOUS
<1>1. asset = <<>> /\ changes = 0 /\ register = [g \in Registers |-> None]
  BY DEF Init
<1>2. AssetTyped
  BY <1>1 DEF AssetTyped
<1>3. Ids = {}
  BY <1>1 DEF Ids
<1>4. ClaimOK
  BY <1>1, <1>3, NoneIsNone DEF ClaimOK
<1>5. QED  BY <1>2, <1>4 DEF ClaimInv

LEMMA ClaimStep == ASSUME ClaimInv, [Next]_vars PROVE ClaimInv'
<1>inv. AssetTyped /\ ClaimOK
  BY DEF ClaimInv
<1>typed. /\ asset \in Seq([upload : Uploads, published : Nat]) /\ changes \in Nat
          /\ register \in [Registers -> Uploads \cup {None}]
  BY <1>inv DEF AssetTyped
<1>same. ASSUME UNCHANGED assetVars PROVE ClaimInv'
  BY <1>inv, <1>same DEF assetVars, ClaimInv, AssetTyped, ClaimOK, Ids
<1>1. ASSUME NEW g \in Registers, NEW u \in Uploads, RegisterRead(g, u) PROVE ClaimInv'
  <2>1. register' = [register EXCEPT ![g] = u] /\ UNCHANGED <<asset, changes>> /\ ~Registered(u)
    BY <1>1 DEF RegisterRead
  <2>2. raced \subseteq raced'
    BY <1>1 DEF RegisterRead
  <2>3. u \notin raced' => \A h \in Registers : register[h] # u
    BY <1>1 DEF RegisterRead
  <2>4. Ids' = Ids /\ AssetTyped'
    BY <1>typed, <2>1 DEF Ids, AssetTyped
  <2>5. ASSUME NEW v \in Uploads, v \notin raced'
        PROVE  /\ \A i, j \in Ids' : asset'[i].upload = v /\ asset'[j].upload = v => i = j
               /\ \A k, h \in Registers : register'[k] = v /\ register'[h] = v => k = h
               /\ \A h \in Registers, i \in Ids' : register'[h] = v => asset'[i].upload # v
    <3>1. v \in Uploads \ raced
      BY <2>2, <2>5
    <3>2. CASE v = u
      BY <1>inv, <1>typed, <2>1, <2>3, <2>4, <2>5, <3>1, <3>2 DEF ClaimOK, Registered
    <3>3. CASE v # u
      BY <1>inv, <1>typed, <2>1, <2>4, <3>1, <3>3 DEF ClaimOK
    <3>4. QED  BY <3>2, <3>3
  <2>6. QED  BY <2>4, <2>5 DEF ClaimInv, ClaimOK
<1>2. ASSUME NEW g \in Registers, RegisterCreate(g) PROVE ClaimInv'
  <2>1. PICK u \in Uploads : u = register[g]
    BY <1>typed, <1>2 DEF RegisterCreate
  <2>2. PICK a \in [upload : Uploads, published : Nat] : a = [upload |-> u, published |-> 0]
    OBVIOUS
  <2>3. /\ asset' = Append(asset, a) /\ register' = [register EXCEPT ![g] = None]
        /\ UNCHANGED <<changes, raced>>
    BY <1>2, <2>1, <2>2 DEF RegisterCreate
  <2>4. a.upload = u
    BY <2>2
  <2>5. /\ Len(asset) \in Nat /\ Ids = 1..Len(asset) /\ Ids' = 1..(Len(asset) + 1)
        /\ \A i \in Ids : asset'[i] = asset[i]
        /\ asset'[Len(asset) + 1] = a
    BY <1>typed, <2>3 DEF Ids
  <2>6. AssetTyped'
    BY <1>typed, <2>3 DEF AssetTyped
  <2>7. ASSUME NEW v \in Uploads, v \notin raced'
        PROVE  /\ \A i, j \in Ids' : asset'[i].upload = v /\ asset'[j].upload = v => i = j
               /\ \A k, h \in Registers : register'[k] = v /\ register'[h] = v => k = h
               /\ \A h \in Registers, i \in Ids' : register'[h] = v => asset'[i].upload # v
    <3>1. v \in Uploads \ raced
      BY <2>3, <2>7
    <3>2. /\ \A i, j \in Ids : asset[i].upload = v /\ asset[j].upload = v => i = j
          /\ \A k, h \in Registers : register[k] = v /\ register[h] = v => k = h
          /\ \A h \in Registers, i \in Ids : register[h] = v => asset[i].upload # v
      BY <1>inv, <3>1 DEF ClaimOK
    <3>3. \A h \in Registers : register'[h] = v => h # g /\ register[h] = v
      BY <1>typed, <2>3, NoneIsNone
    <3>4. \A i \in Ids' : i \in Ids \/ i = Len(asset) + 1
      BY <2>5
    <3>5. v = u => \A h \in Registers : register'[h] # v
      BY <2>1, <3>2, <3>3
    <3>6. v = u => \A i \in Ids : asset[i].upload # v
      BY <2>1, <3>2
    <3>7. \A i, j \in Ids' : asset'[i].upload = v /\ asset'[j].upload = v => i = j
      BY <2>4, <2>5, <3>2, <3>4, <3>6
    <3>8. \A h \in Registers, i \in Ids' : register'[h] = v => asset'[i].upload # v
      BY <2>4, <2>5, <3>2, <3>3, <3>4, <3>5
    <3>9. QED  BY <3>2, <3>3, <3>7, <3>8
  <2>8. QED  BY <2>6, <2>7 DEF ClaimInv, ClaimOK
<1>3. ASSUME NEW g \in Registers, RegisterFails(g) PROVE ClaimInv'
  <2>1. register' = [register EXCEPT ![g] = None] /\ UNCHANGED <<asset, changes, raced>>
    BY <1>3 DEF RegisterFails
  <2>2. \A h \in Registers : register'[h] # None => register'[h] = register[h]
    BY <1>typed, <2>1
  <2>3. AssetTyped' /\ Ids' = Ids
    BY <1>typed, <2>1 DEF AssetTyped, Ids
  <2>4. ClaimOK'
    BY <1>inv, <2>1, <2>2, <2>3, NoneIsNone DEF ClaimOK
  <2>5. QED  BY <2>3, <2>4 DEF ClaimInv
<1>4. ASSUME NEW i \in Ids, NEW published \in BOOLEAN, Publish(i, published) PROVE ClaimInv'
  <2>1. changes' \in Nat /\ UNCHANGED <<register, raced>>
        /\ asset' = [asset EXCEPT ![i].published = IF published THEN changes' ELSE 0]
    BY <1>typed, <1>4 DEF Publish
  <2>2. PICK n \in Nat : n = IF published THEN changes' ELSE 0
    BY <2>1
  <2>3. Len(asset) \in Nat /\ asset \in [1..Len(asset) -> [upload : Uploads, published : Nat]] /\ i \in 1..Len(asset)
    BY <1>typed, LenProperties DEF Ids
  <2>4. asset[i] \in [upload : Uploads, published : Nat]
    BY <2>3
  <2>5. PICK a \in [upload : Uploads, published : Nat] : a = [asset[i] EXCEPT !.published = n]
    BY <2>4
  <2>6. a.upload = asset[i].upload
    BY <2>4, <2>5
  <2>0. asset' = [asset EXCEPT ![i] = a]
    BY <2>1, <2>2, <2>3, <2>5
  <2>11. /\ asset' \in Seq([upload : Uploads, published : Nat]) /\ Len(asset') = Len(asset)
         /\ \A j \in 1..Len(asset) : asset'[j] = IF j = i THEN a ELSE asset[j]
    BY <1>typed, <2>0, <2>3, ExceptSeq
  <2>7. Ids' = Ids /\ \A j \in Ids : asset'[j].upload = asset[j].upload
    BY <2>6, <2>11 DEF Ids
  <2>8. AssetTyped'
    BY <1>typed, <2>1, <2>11 DEF AssetTyped
  <2>9. ClaimOK'
    BY <1>inv, <2>1, <2>7 DEF ClaimOK
  <2>10. QED  BY <2>8, <2>9 DEF ClaimInv
<1>5. ASSUME ListStep PROVE UNCHANGED assetVars
  BY <1>5 DEF ListStep, Type, Refresh, Debounce, LoadMore, ListRead, ShowFirst, ShowMore, ListFails
<1>6. ASSUME WatchStep PROVE UNCHANGED assetVars
  BY <1>6 DEF WatchStep, Open, Lookup, LookupFails, Manifest, Fatal, Due, LeaveUnplayed, Play, TimeUpdate,
              Pause, Hide, Leave, ReportLands, ReportFails
<1>7. CASE UNCHANGED vars
  BY <1>7, <1>same DEF vars
<1>8. QED
  BY <1>same, <1>1, <1>2, <1>3, <1>4, <1>5, <1>6, <1>7 DEF Next, AssetStep

\* Only register calls that overlap make two assets of one upload
\* (uploads.ts looks for the key before it creates the row).
THEOREM UploadsClaimedOnce == Spec => []OneAssetPerUpload
<1>1. ClaimInv => OneAssetPerUpload
  <2> SUFFICES ASSUME ClaimInv, NEW u \in Uploads \ raced
               PROVE  Cardinality({i \in Ids : asset[i].upload = u}) <= 1
    BY DEF OneAssetPerUpload
  <2> DEFINE S == {i \in Ids : asset[i].upload = u}
  <2>1. \A i, j \in S : i = j
    BY DEF ClaimInv, ClaimOK
  <2>2. CASE S = {}
    BY <2>2, FS_EmptySet
  <2>3. CASE S # {}
    <3>1. PICK i \in S : S = {i}
      BY <2>1, <2>3
    <3>2. Cardinality({i}) = 1
      BY FS_Singleton
    <3>3. QED  BY <3>1, <3>2
  <2>4. QED  BY <2>2, <2>3
<1>2. QED  BY <1>1, ClaimInit, ClaimStep, PTL DEF Spec

-----------------------------------------------------------------------------
(* Coming back to a video *)

WatchTyped ==
    /\ player \in Player
    /\ report \in [Reports -> Pos \cup {None}]
    /\ progress \in Pos \cup {None}
    /\ left \in [at : Pos, kept : BOOLEAN]

\* While the row is to say where the viewer left, it says so unless reports of
\* that place, and of no other, are on their way.
RowOK == left.kept =>
    /\ Flying \subseteq {left.at}
    /\ Flying = {} => left.at = IF progress = None THEN 0 ELSE progress

StartOK ==
    /\ player.phase = "lookup" => ~player.sure
    /\ player.phase = "loading" /\ player.sure => player.start = left.at

WatchInv == WatchTyped /\ RowOK /\ StartOK

LEMMA WatchInit == Init => WatchInv
<1> SUFFICES ASSUME Init PROVE WatchInv
  OBVIOUS
<1>1. /\ player = NoPlayer /\ report = [r \in Reports |-> None] /\ progress = None
      /\ left = [at |-> 0, kept |-> TRUE]
  BY DEF Init
<1>2. 0 \in Pos
  BY NoneIsNone DEF Pos
<1>3. WatchTyped
  BY <1>1, <1>2 DEF WatchTyped, NoPlayer, Player
<1>4. Flying = {}
  BY <1>1 DEF Flying
<1>5. RowOK /\ StartOK
  BY <1>1, <1>4 DEF RowOK, StartOK, NoPlayer
<1>6. QED  BY <1>3, <1>5 DEF WatchInv

\* A report is sent: from the player, or as it leaves.
LEMMA ReportSent ==
    ASSUME WatchInv, NEW r \in Reports, NEW p \in Player, NEW pos \in Pos,
           ReportOr(r, TRUE, p, pos) \/ (player.due /\ ReportOr(r, FALSE, p, pos)),
           player.phase = "playing" => pos = player.at,
           p.phase = "lookup" => ~p.sure,
           p.phase = "loading" => player.phase = "loading" /\ p.sure = player.sure /\ p.start = player.start,
           player.phase # "playing" => pos = left.at,
           UNCHANGED progress
    PROVE  WatchInv'
<1>1. /\ report[r] = None /\ report' = [report EXCEPT ![r] = player.at]
      /\ player' = [p EXCEPT !.due = FALSE]
      /\ left' = [at |-> pos, kept |-> Kept(player.at)]
  BY DEF ReportOr, ShouldReport
<1>2. WatchTyped /\ player.at \in Pos
  BY DEF WatchInv, WatchTyped, Player
<1>3. PICK q \in Player : q = [p EXCEPT !.due = FALSE]
  BY DEF Player
<1>4. q.phase = p.phase /\ q.sure = p.sure /\ q.start = p.start
  BY <1>3 DEF Player
<1>5. Kept(player.at) \in BOOLEAN
  BY DEF Kept
<1>6. left' \in [at : Pos, kept : BOOLEAN] /\ left'.at = pos /\ left'.kept = Kept(player.at)
  <2>1. PICK b \in BOOLEAN : b = Kept(player.at)
    BY <1>5, Zenon
  <2>2. QED  BY <1>1, <2>1
<1>7. WatchTyped'
  BY <1>1, <1>2, <1>3, <1>6 DEF WatchTyped
<1>8. Flying' \subseteq Flying \cup {player.at} /\ player.at \in Flying'
  BY <1>1, <1>2, NoneIsNone DEF Flying, WatchTyped
<1>9. RowOK'
  <2> SUFFICES ASSUME Kept(player.at)
               PROVE  Flying' \subseteq {pos} /\ Flying' # {}
    BY <1>6 DEF RowOK
  <2>1. pos = player.at /\ Flying \subseteq {player.at}
    BY DEF Kept
  <2>2. QED  BY <1>8, <2>1
<1>10. StartOK'
  BY <1>1, <1>3, <1>4, <1>6 DEF WatchInv, StartOK
<1>11. QED  BY <1>7, <1>9, <1>10 DEF WatchInv

LEMMA WatchStepOK == ASSUME WatchInv, [Next]_vars PROVE WatchInv'
<1>inv. WatchTyped /\ RowOK /\ StartOK
  BY DEF WatchInv
<1>typed. /\ player \in Player /\ report \in [Reports -> Pos \cup {None}]
          /\ progress \in Pos \cup {None} /\ left \in [at : Pos, kept : BOOLEAN]
  BY <1>inv DEF WatchTyped
<1>pos. 0 \in Pos /\ None \notin Pos
  BY NoneIsNone DEF Pos
<1>fields. /\ player.phase \in {"closed", "lookup", "loading", "playing", "error"}
           /\ player.start \in Pos /\ player.at \in Pos /\ player.due \in BOOLEAN /\ player.sure \in BOOLEAN
           /\ left.at \in Pos /\ left.kept \in BOOLEAN
  BY <1>typed DEF Player
<1>none. NoPlayer \in Player /\ NoPlayer.phase = "closed" /\ NoPlayer.sure = FALSE
  BY <1>pos DEF NoPlayer, Player
<1>same. ASSUME UNCHANGED watchVars PROVE WatchInv'
  BY <1>inv, <1>same DEF watchVars, WatchInv, WatchTyped, RowOK, StartOK, Flying
<1>player. ASSUME NEW q \in Player, player' = q, UNCHANGED <<report, progress, left>>,
                  q.phase = "lookup" => ~q.sure,
                  q.phase = "loading" /\ q.sure => q.start = left.at
           PROVE  WatchInv'
  BY <1>inv, <1>player DEF WatchInv, WatchTyped, RowOK, StartOK, Flying
<1>1. CASE Open
  <2>1. PICK q \in Player : q = [NoPlayer EXCEPT !.phase = "lookup"]
    BY <1>none DEF Player
  <2>2. q.phase = "lookup" /\ ~q.sure
    BY <1>none, <2>1 DEF Player
  <2>3. player' = q /\ UNCHANGED <<report, progress, left>>
    BY <1>1, <2>1 DEF Open
  <2>4. QED  BY <2>2, <2>3, <1>player
<1>2. CASE Lookup
  <2>1. PICK s \in Pos : s = IF progress = None THEN 0 ELSE progress
    BY <1>typed, <1>pos
  <2>2. (left.kept /\ Flying = {}) \in BOOLEAN
    OBVIOUS
  <2>3. PICK b \in BOOLEAN : b = (left.kept /\ Flying = {})
    BY <2>2, Zenon
  <2>4. PICK q \in Player : q = [player EXCEPT !.phase = "loading", !.start = s, !.sure = b]
    BY <1>typed DEF Player
  <2>5. q.phase = "loading" /\ q.start = s /\ q.sure = b
    BY <1>typed, <2>4 DEF Player
  <2>6. player' = q /\ UNCHANGED <<report, progress, left>>
    BY <1>2, <2>1, <2>3, <2>4 DEF Lookup
  <2>7. b => s = left.at
    BY <1>inv, <2>1, <2>3 DEF RowOK
  <2>8. QED  BY <2>5, <2>6, <2>7, <1>player
<1>3. CASE LookupFails
  <2>1. PICK q \in Player : q = [player EXCEPT !.phase = "loading"]
    BY <1>typed DEF Player
  <2>2. q.phase = "loading" /\ q.sure = player.sure
    BY <1>typed, <2>1 DEF Player
  <2>3. player' = q /\ UNCHANGED <<report, progress, left>> /\ player.phase = "lookup"
    BY <1>3, <2>1 DEF LookupFails
  <2>4. QED  BY <1>inv, <2>2, <2>3, <1>player DEF StartOK
<1>4. CASE Manifest
  <2>1. PICK q \in Player : q = [player EXCEPT !.phase = "playing", !.at = player.start]
    BY <1>typed, <1>fields DEF Player
  <2>2. q.phase = "playing"
    BY <1>typed, <2>1 DEF Player
  <2>3. player' = q /\ UNCHANGED <<report, progress, left>>
    BY <1>4, <2>1 DEF Manifest
  <2>4. QED  BY <2>2, <2>3, <1>player
<1>5. CASE Fatal
  <2>1. PICK q \in Player : q = [player EXCEPT !.phase = "error"]
    BY <1>typed DEF Player
  <2>2. q.phase = "error"
    BY <1>typed, <2>1 DEF Player
  <2>3. /\ player' = q /\ UNCHANGED <<report, progress>>
        /\ left' = left \/ left' = [at |-> player.at, kept |-> FALSE]
    BY <1>5, <2>1 DEF Fatal
  <2>4. CASE left' = left
    BY <2>2, <2>3, <2>4, <1>player
  <2>5. CASE left' = [at |-> player.at, kept |-> FALSE]
    BY <1>typed, <1>fields, <2>2, <2>3, <2>5 DEF WatchInv, WatchTyped, RowOK, StartOK
  <2>6. QED  BY <2>3, <2>4, <2>5
<1>6. ASSUME NEW pos \in Pos, Play(pos) PROVE WatchInv'
  <2>1. PICK q \in Player : q = [player EXCEPT !.at = pos]
    BY <1>typed DEF Player
  <2>2. q.phase = player.phase
    BY <1>typed, <2>1 DEF Player
  <2>3. player' = q /\ UNCHANGED <<report, progress, left>> /\ player.phase = "playing"
    BY <1>6, <2>1 DEF Play
  <2>4. QED  BY <2>2, <2>3, <1>player
<1>7. CASE Due
  <2>1. PICK q \in Player : q = [player EXCEPT !.due = TRUE]
    BY <1>typed DEF Player
  <2>2. q.phase = player.phase /\ q.sure = player.sure /\ q.start = player.start
    BY <1>typed, <2>1 DEF Player
  <2>3. player' = q /\ UNCHANGED <<report, progress, left>>
    BY <1>7, <2>1 DEF Due
  <2>4. QED  BY <1>inv, <2>2, <2>3, <1>player DEF StartOK
<1>8. CASE LeaveUnplayed
  <2>1. player' = NoPlayer /\ UNCHANGED <<report, progress, left>>
    BY <1>8 DEF LeaveUnplayed
  <2>2. QED  BY <1>none, <2>1, <1>player
<1>9. ASSUME NEW r \in Reports, TimeUpdate(r) \/ Pause(r) PROVE WatchInv'
  <2>1. /\ ReportOr(r, TRUE, player, player.at) \/ (player.due /\ ReportOr(r, FALSE, player, player.at))
        /\ player.phase = "playing" /\ UNCHANGED progress
    BY <1>9 DEF TimeUpdate, Pause
  <2>2. QED  BY <1>typed, <1>fields, <2>1, ReportSent
<1>10. ASSUME NEW r \in Reports, Hide(r) PROVE WatchInv'
  <2>1. PICK pos \in Pos : pos = IF player.phase = "playing" THEN player.at ELSE left.at
    BY <1>fields
  <2>2. ReportOr(r, TRUE, player, pos) /\ player.phase \in {"loading", "playing"} /\ UNCHANGED progress
    BY <1>10, <2>1 DEF Hide
  <2>3. QED  BY <1>typed, <1>fields, <2>1, <2>2, ReportSent
<1>11. ASSUME NEW r \in Reports, Leave(r) PROVE WatchInv'
  <2>1. PICK pos \in Pos : pos = IF player.phase = "playing" THEN player.at ELSE left.at
    BY <1>fields
  <2>2. ReportOr(r, TRUE, NoPlayer, pos) /\ player.phase \in {"loading", "playing"} /\ UNCHANGED progress
    BY <1>11, <2>1 DEF Leave
  <2>3. QED  BY <1>none, <2>1, <2>2, ReportSent
<1>12. ASSUME NEW r \in Reports, ReportLands(r) PROVE WatchInv'
  <2>1. /\ report[r] # None /\ progress' = report[r] /\ report' = [report EXCEPT ![r] = None]
        /\ UNCHANGED <<player, left>>
    BY <1>12 DEF ReportLands
  <2>2. report[r] \in Flying /\ Flying' \subseteq Flying /\ progress' \in Pos
    BY <1>typed, <2>1 DEF Flying
  <2>3. WatchTyped'
    BY <1>typed, <2>1, <2>2 DEF WatchTyped
  <2>4. left.kept => report[r] = left.at
    BY <1>inv, <2>2 DEF RowOK
  <2>5. RowOK'
    BY <1>inv, <1>pos, <2>1, <2>2, <2>4 DEF RowOK
  <2>6. QED  BY <1>inv, <2>1, <2>3, <2>5 DEF WatchInv, StartOK
<1>13. ASSUME NEW r \in Reports, ReportFails(r) PROVE WatchInv'
  <2>1. /\ report' = [report EXCEPT ![r] = None] /\ left' = [left EXCEPT !.kept = FALSE]
        /\ UNCHANGED <<player, progress>>
    BY <1>13 DEF ReportFails
  <2>2. left' \in [at : Pos, kept : BOOLEAN] /\ left'.at = left.at /\ ~left'.kept
    BY <1>typed, <2>1
  <2>3. WatchTyped'
    BY <1>typed, <2>1, <2>2 DEF WatchTyped
  <2>4. RowOK' /\ StartOK'
    BY <1>inv, <2>1, <2>2 DEF RowOK, StartOK
  <2>5. QED  BY <2>3, <2>4 DEF WatchInv
<1>14. ASSUME AssetStep PROVE UNCHANGED watchVars
  BY <1>14 DEF AssetStep, RegisterRead, RegisterCreate, RegisterFails, Publish
<1>15. ASSUME ListStep PROVE UNCHANGED watchVars
  BY <1>15 DEF ListStep, Type, Refresh, Debounce, LoadMore, ListRead, ShowFirst, ShowMore, ListFails
<1>16. CASE UNCHANGED vars
  BY <1>16, <1>same DEF vars
<1>17. QED
  BY <1>same, <1>1, <1>2, <1>3, <1>4, <1>5, <1>6, <1>7, <1>8, <1>9, <1>10, <1>11, <1>12, <1>13, <1>14, <1>15, <1>16
     DEF Next, WatchStep

\* A viewer who comes back starts where he left, when the row can say so
\* (Player.tsx reports on pause, hide and leave; the page asks before it plays).
THEOREM ViewersResume == Spec => []ResumesWhereLeft
<1>1. WatchInv => ResumesWhereLeft
  BY DEF WatchInv, StartOK, ResumesWhereLeft
<1>2. QED  BY <1>1, WatchInit, WatchStepOK, PTL DEF Spec

-----------------------------------------------------------------------------
(* Searching *)

\* A tab and requests with their fields, whatever rows they hold.
SearchTyped ==
    /\ tab = [page |-> tab.page, rows |-> tab.rows, next |-> tab.next, loading |-> tab.loading,
              typed |-> tab.typed, searched |-> tab.searched, found |-> tab.found, seen |-> tab.seen,
              whole |-> tab.whole, missed |-> tab.missed]
    /\ tab.missed \in BOOLEAN
    /\ list = [l \in Lists |-> list[l]]
    /\ \A l \in Lists :
         list[l] = [st |-> list[l].st, kind |-> list[l].kind, text |-> list[l].text, cursor |-> list[l].cursor,
                    rows |-> list[l].rows, next |-> list[l].next, seen |-> list[l].seen]

Searching(l) == list[l].st # "idle" /\ list[l].kind = "first"

\* Every search under way is for the text searched last, and the rows shown are
\* of that text unless such a search is under way or failed.
SearchOK ==
    /\ tab.page # "library" => tab.typed = "" /\ tab.searched = ""
    /\ \A l \in Lists : Searching(l) => list[l].text = tab.searched
    /\ ~tab.missed /\ (\A l \in Lists : ~Searching(l)) => tab.found = tab.searched

SearchInv == SearchTyped /\ SearchOK

\* Fields of the tab are written.
LEMMA TabWritten ==
    ASSUME SearchTyped, NEW rows, NEW next, NEW loading, NEW typed, NEW searched, NEW found, NEW seen, NEW whole,
           NEW missed,
           tab' = [tab EXCEPT !.rows = rows, !.next = next, !.loading = loading, !.typed = typed,
                              !.searched = searched, !.found = found, !.seen = seen, !.whole = whole,
                              !.missed = missed]
    PROVE  /\ tab' = [page |-> tab'.page, rows |-> tab'.rows, next |-> tab'.next, loading |-> tab'.loading,
                      typed |-> tab'.typed, searched |-> tab'.searched, found |-> tab'.found, seen |-> tab'.seen,
                      whole |-> tab'.whole, missed |-> tab'.missed]
           /\ tab'.page = tab.page /\ tab'.typed = typed /\ tab'.searched = searched /\ tab'.found = found
           /\ tab'.missed = missed
<1>1. tab = [page |-> tab.page, rows |-> tab.rows, next |-> tab.next, loading |-> tab.loading,
             typed |-> tab.typed, searched |-> tab.searched, found |-> tab.found, seen |-> tab.seen,
             whole |-> tab.whole, missed |-> tab.missed]
  BY DEF SearchTyped
<1>2. tab' = [page |-> tab.page, rows |-> rows, next |-> next, loading |-> loading,
              typed |-> typed, searched |-> searched, found |-> found, seen |-> seen,
              whole |-> whole, missed |-> missed]
  BY <1>1
<1>3. QED  BY <1>2

\* One request is written.
LEMMA ListWritten ==
    ASSUME SearchTyped, NEW l \in Lists, NEW st, NEW kind, NEW text, NEW cursor, NEW rows, NEW next, NEW seen,
           list' = [list EXCEPT ![l] = [st |-> st, kind |-> kind, text |-> text, cursor |-> cursor, rows |-> rows,
                                        next |-> next, seen |-> seen]]
    PROVE  /\ list' = [k \in Lists |-> list'[k]]
           /\ \A k \in Lists :
                list'[k] = [st |-> list'[k].st, kind |-> list'[k].kind, text |-> list'[k].text, cursor |-> list'[k].cursor,
                            rows |-> list'[k].rows, next |-> list'[k].next, seen |-> list'[k].seen]
           /\ list'[l].st = st /\ list'[l].kind = kind /\ list'[l].text = text
           /\ \A k \in Lists \ {l} : list'[k] = list[k]
<1> DEFINE d == [st |-> st, kind |-> kind, text |-> text, cursor |-> cursor, rows |-> rows, next |-> next, seen |-> seen]
<1>1. /\ list = [k \in Lists |-> list[k]]
      /\ \A k \in Lists :
           list[k] = [st |-> list[k].st, kind |-> list[k].kind, text |-> list[k].text, cursor |-> list[k].cursor,
                      rows |-> list[k].rows, next |-> list[k].next, seen |-> list[k].seen]
  BY DEF SearchTyped
<1>2. list' = [k \in Lists |-> IF k = l THEN d ELSE list[k]]
  BY <1>1
<1>3. list'[l] = d /\ \A k \in Lists \ {l} : list'[k] = list[k]
  BY <1>2
<1>4. /\ d = [st |-> d.st, kind |-> d.kind, text |-> d.text, cursor |-> d.cursor, rows |-> d.rows, next |-> d.next, seen |-> d.seen]
      /\ d.st = st /\ d.kind = kind /\ d.text = text
  OBVIOUS
<1> HIDE DEF d
<1>5. list' = [k \in Lists |-> list'[k]]
  BY <1>2
<1>6. QED  BY <1>1, <1>3, <1>4, <1>5

LEMMA SearchInit == Init => SearchInv
<1> SUFFICES ASSUME Init PROVE SearchInv
  OBVIOUS
<1>1. PICK p \in Pages :
        tab = [page |-> p, rows |-> <<>>, next |-> 0, loading |-> FALSE, typed |-> "",
               searched |-> "", found |-> "", seen |-> 0, whole |-> TRUE, missed |-> FALSE]
  BY DEF Init
<1>9. PICK g : g = [NoList EXCEPT !.st = "sent"]
  OBVIOUS
<1>2. PICK a \in Lists : list = [k \in Lists |-> IF k = a /\ tab.page # "watch" THEN g ELSE NoList]
  BY <1>9 DEF Init
<1>3. /\ g = [st |-> "sent", kind |-> "first", text |-> "", cursor |-> 0, rows |-> <<>>, next |-> 0, seen |-> 0]
      /\ NoList = [st |-> "idle", kind |-> "first", text |-> "", cursor |-> 0, rows |-> <<>>, next |-> 0, seen |-> 0]
  <2>1. PICK e : e = <<>>
    OBVIOUS
  <2>2. NoList = [st |-> "idle", kind |-> "first", text |-> "", cursor |-> 0, rows |-> e, next |-> 0, seen |-> 0]
    BY <2>1 DEF NoList
  <2>3. g = [st |-> "sent", kind |-> "first", text |-> "", cursor |-> 0, rows |-> e, next |-> 0, seen |-> 0]
    BY <1>9, <2>2
  <2>4. QED  BY <2>1, <2>2, <2>3
<1>4. \A l \in Lists :
        /\ list[l] = [st |-> list[l].st, kind |-> list[l].kind, text |-> list[l].text, cursor |-> list[l].cursor,
                      rows |-> list[l].rows, next |-> list[l].next, seen |-> list[l].seen]
        /\ list[l].text = ""
  BY <1>2, <1>3
<1>7. list = [l \in Lists |-> list[l]]
  BY <1>2
<1>5. SearchTyped
  BY <1>1, <1>4, <1>7 DEF SearchTyped
<1>6. SearchOK
  BY <1>1, <1>4 DEF SearchOK
<1>8. QED  BY <1>5, <1>6 DEF SearchInv

LEMMA SearchStep == ASSUME SearchInv, [Next]_vars PROVE SearchInv'
<1>inv. SearchTyped /\ SearchOK
  BY DEF SearchInv
<1>same. ASSUME UNCHANGED listVars PROVE SearchInv'
  <2>1. tab' = tab /\ list' = list
    BY <1>same DEF listVars
  <2>2. SearchTyped'
    BY <1>inv, <2>1 DEF SearchTyped
  <2>3. SearchOK'
    BY <1>inv, <2>1 DEF SearchOK, Searching
  <2>4. QED  BY <2>2, <2>3 DEF SearchInv
<1>none. /\ NoList = [st |-> "idle", kind |-> "first", text |-> "", cursor |-> 0, rows |-> <<>>, next |-> 0, seen |-> 0]
         /\ NoList.st = "idle" /\ NoList.kind = "first"
  BY DEF NoList
<1>sent. ASSUME NEW l \in Lists, NEW kind, NEW text, NEW cursor, NEW lists, Send(l, kind, text, cursor, lists)
         PROVE  list' = [lists EXCEPT ![l] = [st |-> "sent", kind |-> kind, text |-> text, cursor |-> cursor,
                                              rows |-> <<>>, next |-> 0, seen |-> 0]]
  <2>1. PICK g : g = [NoList EXCEPT !.st = "sent", !.kind = kind, !.text = text, !.cursor = cursor]
    OBVIOUS
  <2>2. g = [st |-> "sent", kind |-> kind, text |-> text, cursor |-> cursor, rows |-> <<>>, next |-> 0, seen |-> 0]
    <3>1. PICK e : e = <<>>
      OBVIOUS
    <3>2. NoList = [st |-> "idle", kind |-> "first", text |-> "", cursor |-> 0, rows |-> e, next |-> 0, seen |-> 0]
      BY <3>1 DEF NoList
    <3>3. g = [st |-> "sent", kind |-> kind, text |-> text, cursor |-> cursor, rows |-> e, next |-> 0, seen |-> 0]
      BY <2>1, <3>2
    <3>4. QED  BY <3>1, <3>3
  <2>3. list' = [lists EXCEPT ![l] = g]
    BY <1>sent, <2>1 DEF Send
  <2>4. QED  BY <2>2, <2>3
<1>1. ASSUME NEW l \in Lists, Refresh(l) PROVE SearchInv'
  <2>1. /\ tab.page = "assets" /\ tab' = tab
        /\ list' = [list EXCEPT ![l] = [st |-> "sent", kind |-> "first", text |-> "", cursor |-> 0, rows |-> <<>>,
                                        next |-> 0, seen |-> 0]]
    BY <1>1, <1>sent DEF Refresh
  <2>2. SearchTyped' /\ list'[l].st = "sent" /\ list'[l].kind = "first" /\ list'[l].text = ""
        /\ \A k \in Lists \ {l} : list'[k] = list[k]
    BY <1>inv, <2>1, ListWritten DEF SearchTyped
  <2>3. SearchOK'
    BY <1>inv, <2>1, <2>2 DEF SearchOK, Searching
  <2>4. QED  BY <2>2, <2>3 DEF SearchInv
<1>2. ASSUME NEW text \in Texts, Type(text) PROVE SearchInv'
  <2>1. /\ tab.page = "library" /\ list' = list /\ tab' = [tab EXCEPT !.typed = text]
    BY <1>2 DEF Type
  <2>2. tab' = [tab EXCEPT !.rows = tab.rows, !.next = tab.next, !.loading = tab.loading, !.typed = text,
                           !.searched = tab.searched, !.found = tab.found, !.seen = tab.seen, !.whole = tab.whole,
                           !.missed = tab.missed]
    BY <1>inv, <2>1 DEF SearchTyped
  <2>3. /\ SearchTyped' /\ tab'.page = tab.page /\ tab'.searched = tab.searched /\ tab'.found = tab.found
        /\ tab'.missed = tab.missed
    BY <1>inv, <2>1, <2>2, TabWritten DEF SearchTyped
  <2>4. SearchOK'
    BY <1>inv, <2>1, <2>3 DEF SearchOK, Searching
  <2>5. QED  BY <2>3, <2>4 DEF SearchInv
<1>3. ASSUME NEW l \in Lists, Debounce(l) PROVE SearchInv'
  <2> DEFINE lists == Superseded(list)
  <2>1. /\ tab.page = "library" /\ tab' = [tab EXCEPT !.searched = tab.typed, !.missed = FALSE]
        /\ list' = [lists EXCEPT ![l] = [st |-> "sent", kind |-> "first", text |-> tab.typed, cursor |-> 0, rows |-> <<>>,
                                         next |-> 0, seen |-> 0]]
    BY <1>3, <1>sent DEF Debounce
  <2>2. tab' = [tab EXCEPT !.rows = tab.rows, !.next = tab.next, !.loading = tab.loading, !.typed = tab.typed,
                           !.searched = tab.typed, !.found = tab.found, !.seen = tab.seen, !.whole = tab.whole,
                           !.missed = FALSE]
    BY <1>inv, <2>1 DEF SearchTyped
  <2>3. /\ tab' = [page |-> tab'.page, rows |-> tab'.rows, next |-> tab'.next, loading |-> tab'.loading,
                   typed |-> tab'.typed, searched |-> tab'.searched, found |-> tab'.found, seen |-> tab'.seen,
                   whole |-> tab'.whole, missed |-> tab'.missed]
        /\ tab'.page = tab.page /\ tab'.searched = tab.typed /\ tab'.missed = FALSE
    <3>1. PICK missed : missed = FALSE
      OBVIOUS
    <3>2. tab' = [tab EXCEPT !.rows = tab.rows, !.next = tab.next, !.loading = tab.loading, !.typed = tab.typed,
                             !.searched = tab.typed, !.found = tab.found, !.seen = tab.seen, !.whole = tab.whole,
                             !.missed = missed]
      BY <2>2, <3>1
    <3>4. tab = [page |-> tab.page, rows |-> tab.rows, next |-> tab.next, loading |-> tab.loading,
                 typed |-> tab.typed, searched |-> tab.searched, found |-> tab.found, seen |-> tab.seen,
                 whole |-> tab.whole, missed |-> tab.missed]
      BY <1>inv DEF SearchTyped
    <3>5. tab' = [page |-> tab.page, rows |-> tab.rows, next |-> tab.next, loading |-> tab.loading,
                  typed |-> tab.typed, searched |-> tab.typed, found |-> tab.found, seen |-> tab.seen,
                  whole |-> tab.whole, missed |-> missed]
      BY <3>2, <3>4
    <3>6. QED  BY <3>1, <3>5
  <2>4. lists = [k \in Lists |-> IF list[k].kind = "first" THEN NoList ELSE list[k]]
    BY DEF Superseded
  <2>5. /\ list' = [k \in Lists |-> list'[k]]
        /\ list'[l] = [st |-> "sent", kind |-> "first", text |-> tab.typed, cursor |-> 0, rows |-> <<>>,
                       next |-> 0, seen |-> 0]
        /\ \A k \in Lists \ {l} : list'[k] = IF list[k].kind = "first" THEN NoList ELSE list[k]
    <3> HIDE DEF lists
    <3>1. list' = [k \in Lists |-> IF k = l THEN [st |-> "sent", kind |-> "first", text |-> tab.typed, cursor |-> 0, rows |-> <<>>,
                                                  next |-> 0, seen |-> 0] ELSE lists[k]]
      BY <2>1, <2>4
    <3>2. \A k \in Lists \ {l} : list'[k] = lists[k]
      BY <3>1
    <3>3. list' = [k \in Lists |-> list'[k]]
      BY <3>1
    <3>4. QED  BY <2>4, <3>1, <3>2, <3>3
  <2>6. \A k \in Lists :
          list'[k] = [st |-> list'[k].st, kind |-> list'[k].kind, text |-> list'[k].text, cursor |-> list'[k].cursor,
                      rows |-> list'[k].rows, next |-> list'[k].next, seen |-> list'[k].seen]
    <3>1. list'[l] = [st |-> list'[l].st, kind |-> list'[l].kind, text |-> list'[l].text, cursor |-> list'[l].cursor,
                      rows |-> list'[l].rows, next |-> list'[l].next, seen |-> list'[l].seen]
      BY <2>5
    <3>2. NoList = [st |-> NoList.st, kind |-> NoList.kind, text |-> NoList.text, cursor |-> NoList.cursor,
                    rows |-> NoList.rows, next |-> NoList.next, seen |-> NoList.seen]
      BY DEF NoList
    <3>3. \A k \in Lists \ {l} : list'[k] = NoList \/ list'[k] = list[k]
      BY <2>5
    <3>4. \A k \in Lists :
            list[k] = [st |-> list[k].st, kind |-> list[k].kind, text |-> list[k].text, cursor |-> list[k].cursor,
                       rows |-> list[k].rows, next |-> list[k].next, seen |-> list[k].seen]
      BY <1>inv DEF SearchTyped
    <3>5. QED  BY <3>1, <3>2, <3>3, <3>4
  <2>7. SearchTyped'
    BY <2>3, <2>5, <2>6 DEF SearchTyped
  <2>8. list'[l].st = "sent" /\ list'[l].kind = "first" /\ list'[l].text = tab.typed
    BY <2>5
  <2>9. \A k \in Lists \ {l} : list'[k].st = "idle" \/ list'[k].kind # "first"
    BY <1>none, <2>5
  <2>10. SearchOK'
    BY <2>1, <2>3, <2>8, <2>9 DEF SearchOK, Searching
  <2>11. QED  BY <2>7, <2>10 DEF SearchInv
<1>4. ASSUME NEW l \in Lists, LoadMore(l) PROVE SearchInv'
  <2>1. /\ tab' = [tab EXCEPT !.loading = TRUE] /\ list[l] = NoList
        /\ list' = [list EXCEPT ![l] = [st |-> "sent", kind |-> "more", text |-> tab.typed, cursor |-> tab.next, rows |-> <<>>,
                                        next |-> 0, seen |-> 0]]
    BY <1>4, <1>sent DEF LoadMore
  <2>2. tab' = [tab EXCEPT !.rows = tab.rows, !.next = tab.next, !.loading = TRUE, !.typed = tab.typed,
                           !.searched = tab.searched, !.found = tab.found, !.seen = tab.seen, !.whole = tab.whole,
                           !.missed = tab.missed]
    BY <1>inv, <2>1 DEF SearchTyped
  <2>3. /\ tab' = [page |-> tab'.page, rows |-> tab'.rows, next |-> tab'.next, loading |-> tab'.loading,
                   typed |-> tab'.typed, searched |-> tab'.searched, found |-> tab'.found, seen |-> tab'.seen,
                   whole |-> tab'.whole, missed |-> tab'.missed]
        /\ tab'.page = tab.page /\ tab'.typed = tab.typed /\ tab'.searched = tab.searched /\ tab'.found = tab.found
        /\ tab'.missed = tab.missed /\ tab.missed \in BOOLEAN
    BY <1>inv, <2>2, TabWritten DEF SearchTyped
  <2>4. /\ list' = [k \in Lists |-> list'[k]]
        /\ \A k \in Lists :
             list'[k] = [st |-> list'[k].st, kind |-> list'[k].kind, text |-> list'[k].text, cursor |-> list'[k].cursor,
                         rows |-> list'[k].rows, next |-> list'[k].next, seen |-> list'[k].seen]
        /\ list'[l].kind = "more"
        /\ \A k \in Lists \ {l} : list'[k] = list[k]
    BY <1>inv, <2>1, ListWritten
  <2>5. SearchTyped'
    BY <2>3, <2>4 DEF SearchTyped
  <2>6. \A k \in Lists : Searching(k)' => Searching(k) /\ list'[k] = list[k]
    BY <2>4 DEF Searching
  <2>7. \A k \in Lists : Searching(k) => k # l
    BY <1>none, <2>1 DEF Searching
  <2>8. \A k \in Lists : Searching(k) => Searching(k)'
    BY <2>4, <2>7 DEF Searching
  <2>9. SearchOK'
    BY <1>inv, <2>3, <2>6, <2>8 DEF SearchOK
  <2>10. QED  BY <2>5, <2>9 DEF SearchInv
<1>5. ASSUME NEW l \in Lists, ListRead(l) PROVE SearchInv'
  <2>1. PICK rows, next :
          list' = [list EXCEPT ![l].st = "read", ![l].rows = rows, ![l].seen = changes, ![l].next = next]
    BY <1>5 DEF ListRead
  <2>2. list[l].st = "sent" /\ tab' = tab
    BY <1>5 DEF ListRead
  <2>3. list[l] = [st |-> list[l].st, kind |-> list[l].kind, text |-> list[l].text, cursor |-> list[l].cursor,
                   rows |-> list[l].rows, next |-> list[l].next, seen |-> list[l].seen]
        /\ list = [k \in Lists |-> list[k]]
    BY <1>inv DEF SearchTyped
  <2>4. PICK d : d = [list[l] EXCEPT !.st = "read", !.rows = rows, !.seen = changes, !.next = next]
    OBVIOUS
  <2>5. d = [st |-> "read", kind |-> list[l].kind, text |-> list[l].text, cursor |-> list[l].cursor, rows |-> rows,
             next |-> next, seen |-> changes]
    BY <2>3, <2>4
  <2>6. list' = [list EXCEPT ![l] = d]
    BY <2>1, <2>3, <2>4
  <2>7. list' = [list EXCEPT ![l] = [st |-> "read", kind |-> list[l].kind, text |-> list[l].text,
                                     cursor |-> list[l].cursor, rows |-> rows, next |-> next, seen |-> changes]]
    BY <2>5, <2>6
  <2>8. /\ list' = [k \in Lists |-> list'[k]]
        /\ \A k \in Lists :
             list'[k] = [st |-> list'[k].st, kind |-> list'[k].kind, text |-> list'[k].text, cursor |-> list'[k].cursor,
                         rows |-> list'[k].rows, next |-> list'[k].next, seen |-> list'[k].seen]
        /\ list'[l].st = "read" /\ list'[l].kind = list[l].kind /\ list'[l].text = list[l].text
        /\ \A k \in Lists \ {l} : list'[k] = list[k]
    BY <1>inv, <2>7, ListWritten
  <2>9. SearchTyped'
    BY <1>inv, <2>2, <2>8 DEF SearchTyped
  <2>10. \A k \in Lists : (Searching(k)' <=> Searching(k)) /\ list'[k].text = list[k].text
    BY <2>2, <2>8 DEF Searching
  <2>11. SearchOK'
    BY <1>inv, <2>2, <2>10 DEF SearchOK
  <2>12. QED  BY <2>9, <2>11 DEF SearchInv
<1> DEFINE Shown(rows, next, loading, found, seen, whole, missed) ==
             tab' = [tab EXCEPT !.rows = rows, !.next = next, !.loading = loading, !.typed = tab.typed,
                                !.searched = tab.searched, !.found = found, !.seen = seen, !.whole = whole,
                                !.missed = missed]
<1>6. ASSUME NEW l \in Lists, NEW rows, NEW next, NEW loading, NEW found, NEW seen, NEW whole, NEW missed \in BOOLEAN,
             list[l].st # "idle", list' = [list EXCEPT ![l] = NoList],
             Shown(rows, next, loading, found, seen, whole, missed),
             ~missed => found = IF list[l].kind = "first" THEN list[l].text ELSE tab.found,
             ~missed /\ list[l].kind # "first" => ~tab.missed
      PROVE  SearchInv'
  <2>1. /\ tab' = [page |-> tab'.page, rows |-> tab'.rows, next |-> tab'.next, loading |-> tab'.loading,
                   typed |-> tab'.typed, searched |-> tab'.searched, found |-> tab'.found, seen |-> tab'.seen,
                   whole |-> tab'.whole, missed |-> tab'.missed]
        /\ tab'.page = tab.page /\ tab'.typed = tab.typed /\ tab'.searched = tab.searched /\ tab'.found = found
        /\ tab'.missed = missed
    <3>2. tab' = [tab EXCEPT !.rows = rows, !.next = next, !.loading = loading, !.typed = tab.typed,
                             !.searched = tab.searched, !.found = found, !.seen = seen, !.whole = whole,
                             !.missed = missed]
      BY <1>6
    <3>4. tab = [page |-> tab.page, rows |-> tab.rows, next |-> tab.next, loading |-> tab.loading,
                 typed |-> tab.typed, searched |-> tab.searched, found |-> tab.found, seen |-> tab.seen,
                 whole |-> tab.whole, missed |-> tab.missed]
      BY <1>inv DEF SearchTyped
    <3>5. tab' = [page |-> tab.page, rows |-> rows, next |-> next, loading |-> loading,
                  typed |-> tab.typed, searched |-> tab.searched, found |-> found, seen |-> seen,
                  whole |-> whole, missed |-> missed]
      BY <3>2, <3>4
    <3>6. QED  BY <3>5
  <2>2. list' = [list EXCEPT ![l] = [st |-> "idle", kind |-> "first", text |-> "", cursor |-> 0, rows |-> <<>>, next |-> 0, seen |-> 0]]
    BY <1>6, <1>none
  <2>3. /\ list' = [k \in Lists |-> list'[k]]
        /\ \A k \in Lists :
             list'[k] = [st |-> list'[k].st, kind |-> list'[k].kind, text |-> list'[k].text, cursor |-> list'[k].cursor,
                         rows |-> list'[k].rows, next |-> list'[k].next, seen |-> list'[k].seen]
        /\ list'[l].st = "idle"
        /\ \A k \in Lists \ {l} : list'[k] = list[k]
    BY <1>inv, <2>2, ListWritten
  <2>4. SearchTyped'
    BY <1>6, <2>1, <2>3 DEF SearchTyped
  <2>5. \A k \in Lists : Searching(k)' <=> k # l /\ Searching(k)
    BY <2>3 DEF Searching
  <2>6. \A k \in Lists : Searching(k)' => list'[k].text = tab'.searched
    BY <1>inv, <2>1, <2>3, <2>5 DEF SearchOK
  <2>7. ~missed /\ (\A k \in Lists : ~Searching(k)') => found = tab.searched
    <3>1. CASE list[l].kind = "first"
      <4>1. list[l].text = tab.searched
        BY <1>inv, <1>6, <3>1 DEF SearchOK, Searching
      <4>2. QED  BY <1>6, <3>1, <4>1
    <3>2. CASE list[l].kind # "first"
      <4>1. ~Searching(l)
        BY <3>2 DEF Searching
      <4>2. (\A k \in Lists : ~Searching(k)') => \A k \in Lists : ~Searching(k)
        BY <2>5, <4>1
      <4>3. QED  BY <1>inv, <1>6, <3>2, <4>2 DEF SearchOK
    <3>3. QED  BY <3>1, <3>2
  <2>8. SearchOK'
    BY <1>inv, <2>1, <2>6, <2>7 DEF SearchOK
  <2>9. QED  BY <2>4, <2>8 DEF SearchInv
<1>7. ASSUME NEW l \in Lists, ShowFirst(l) PROVE SearchInv'
  <2>1. PICK whole : whole = ~tab.loading
    OBVIOUS
  <2>2. PICK missed \in BOOLEAN : missed = FALSE
    OBVIOUS
  <2>3. PICK rows, next, found, seen :
          rows = list[l].rows /\ next = list[l].next /\ found = list[l].text /\ seen = list[l].seen
    OBVIOUS
  <2>4. tab' = [tab EXCEPT !.rows = rows, !.next = next, !.found = found, !.seen = seen, !.whole = whole,
                           !.missed = missed]
    BY <1>7, <2>1, <2>2, <2>3 DEF ShowFirst
  <2>5. Shown(rows, next, tab.loading, found, seen, whole, missed)
    BY <1>inv, <2>4 DEF SearchTyped
  <2>6. list[l].st # "idle" /\ list[l].kind = "first" /\ list' = [list EXCEPT ![l] = NoList]
    BY <1>7 DEF ShowFirst
  <2>7. found = IF list[l].kind = "first" THEN list[l].text ELSE tab.found
    BY <2>3, <2>6
  <2> HIDE DEF Shown
  <2>8. QED  BY <2>5, <2>6, <2>7, <1>6
<1>8. ASSUME NEW l \in Lists, ShowMore(l) PROVE SearchInv'
  <2>1. PICK whole :
          tab' = [tab EXCEPT !.rows = tab.rows \o list[l].rows, !.next = list[l].next, !.loading = FALSE, !.whole = whole]
    BY <1>8 DEF ShowMore
  <2>2. PICK rows, next, loading : rows = tab.rows \o list[l].rows /\ next = list[l].next /\ loading = FALSE
    OBVIOUS
  <2>3. tab' = [tab EXCEPT !.rows = rows, !.next = next, !.loading = loading, !.whole = whole]
    BY <2>1, <2>2
  <2>4. Shown(rows, next, loading, tab.found, tab.seen, whole, tab.missed)
    BY <1>inv, <2>3 DEF SearchTyped
  <2>5. list[l].st # "idle" /\ list[l].kind # "first" /\ list' = [list EXCEPT ![l] = NoList] /\ tab.missed \in BOOLEAN
    BY <1>inv, <1>8 DEF ShowMore, SearchTyped
  <2>6. tab.found = IF list[l].kind = "first" THEN list[l].text ELSE tab.found
    BY <2>5
  <2> HIDE DEF Shown
  <2>7. QED  BY <2>4, <2>5, <2>6, <1>6
<1>9. ASSUME NEW l \in Lists, ListFails(l) PROVE SearchInv'
  <2>1. (tab.missed \/ list[l].kind = "first") \in BOOLEAN
    OBVIOUS
  <2>2. PICK missed \in BOOLEAN : missed = (tab.missed \/ list[l].kind = "first")
    BY <2>1, Zenon
  <2>3. PICK loading : loading = (tab.loading /\ list[l].kind # "more")
    OBVIOUS
  <2>4. tab' = [tab EXCEPT !.loading = loading, !.missed = missed]
    BY <1>9, <2>2, <2>3 DEF ListFails
  <2>5. Shown(tab.rows, tab.next, loading, tab.found, tab.seen, tab.whole, missed)
    BY <1>inv, <2>4 DEF SearchTyped
  <2>6. list[l].st # "idle" /\ list' = [list EXCEPT ![l] = NoList]
    BY <1>9 DEF ListFails
  <2>7. (~missed => list[l].kind # "first") /\ (~missed => ~tab.missed)
    BY <2>2
  <2> HIDE DEF Shown
  <2>8. QED  BY <2>5, <2>6, <2>7, <1>6
<1>10. ASSUME AssetStep PROVE UNCHANGED listVars
  BY <1>10 DEF AssetStep, RegisterRead, RegisterCreate, RegisterFails, Publish
<1>11. ASSUME WatchStep PROVE UNCHANGED listVars
  BY <1>11 DEF WatchStep, Open, Lookup, LookupFails, Manifest, Fatal, Due, LeaveUnplayed, Play, TimeUpdate,
               Pause, Hide, Leave, ReportLands, ReportFails
<1>12. CASE UNCHANGED vars
  BY <1>12, <1>same DEF vars
<1>13. QED
  BY <1>same, <1>1, <1>2, <1>3, <1>4, <1>5, <1>7, <1>8, <1>9, <1>10, <1>11, <1>12 DEF Next, ListStep

\* The library shows the text searched last once the answers have come, unless
\* a request failed (page.tsx ignores the answers of an effect it cleaned up).
THEOREM LatestSearchShown == Spec => []SearchIsLatest
<1>1. SearchInv => SearchIsLatest
  BY DEF SearchInv, SearchOK, SearchIsLatest, Searching
<1>2. QED  BY <1>1, SearchInit, SearchStep, PTL DEF Spec


-----------------------------------------------------------------------------
(* Rows in their order *)

\* Sequences of rows, the newest first.
Ordered(s) == \A m, n \in DOMAIN s : m < n => Precedes(s[m], s[n])

\* Assets are finitely many numbers.
LEMMA RowsFinite ==
    ASSUME AssetTyped, NEW S \in SUBSET Ids
    PROVE  /\ IsFiniteSet(S) /\ Cardinality(S) \in Nat
           /\ Len(asset) \in Nat /\ Ids = 1..Len(asset) /\ Ids \subseteq Nat
           /\ \A i \in Ids : asset[i].published \in Nat
<1>1. /\ Len(asset) \in Nat /\ asset \in [1..Len(asset) -> [upload : Uploads, published : Nat]]
      /\ Ids = 1..Len(asset)
  BY LenProperties DEF AssetTyped, Ids
<1>2. IsFiniteSet(1..Len(asset))
  BY <1>1, FS_Interval
<1>3. IsFiniteSet(S)
  BY <1>1, <1>2, FS_Subset
<1>4. Cardinality(S) \in Nat
  BY <1>3, FS_CardinalityType
<1>5. QED  BY <1>1, <1>3, <1>4

\* Which of two rows is the newer one is a strict total order.
LEMMA NewestFirst ==
    ASSUME AssetTyped
    PROVE  /\ \A i \in Ids : ~Precedes(i, i)
           /\ \A i, j \in Ids : i # j => Precedes(i, j) \/ Precedes(j, i)
           /\ \A i, j, k \in Ids : Precedes(i, j) /\ Precedes(j, k) => Precedes(i, k)
<1>typed. Ids \subseteq Nat /\ \A i \in Ids : asset[i].published \in Nat
  <2>1. {} \in SUBSET Ids
    OBVIOUS
  <2>2. QED  BY <2>1, RowsFinite
<1>1. ASSUME NEW i \in Ids, NEW j \in Ids PROVE ~Precedes(i, i) /\ (i # j => Precedes(i, j) \/ Precedes(j, i))
  <2>1. i \in Nat /\ j \in Nat /\ asset[i].published \in Nat /\ asset[j].published \in Nat
    BY <1>typed
  <2>2. QED  BY <2>1 DEF Precedes
<1>2. ASSUME NEW i \in Ids, NEW j \in Ids, NEW k \in Ids, Precedes(i, j), Precedes(j, k) PROVE Precedes(i, k)
  <2>1. /\ i \in Nat /\ j \in Nat /\ k \in Nat
        /\ asset[i].published \in Nat /\ asset[j].published \in Nat /\ asset[k].published \in Nat
    BY <1>typed
  <2>2. QED  BY <1>2, <2>1 DEF Precedes
<1>3. QED  BY <1>1, <1>2

\* Rows have places 1, 2, 3 and so on, and a newer row has the lower one.
LEMMA PlacesOfRows ==
    ASSUME AssetTyped, NEW S \in SUBSET Ids
    PROVE  /\ \A i \in S : Place(i, S) \in 1..Cardinality(S)
           /\ \A i, j \in S : Precedes(i, j) => Place(i, S) < Place(j, S)
           /\ \A i, j \in S : Place(i, S) = Place(j, S) => i = j
           /\ \A n \in 1..Cardinality(S) : \E i \in S : Place(i, S) = n
<1> DEFINE B(i) == {j \in S : Precedes(j, i)}
<1>fin. IsFiniteSet(S) /\ Cardinality(S) \in Nat
  BY RowsFinite
<1>b. ASSUME NEW i \in S
      PROVE  /\ IsFiniteSet(B(i)) /\ Cardinality(B(i)) \in Nat /\ Place(i, S) = Cardinality(B(i)) + 1
             /\ Cardinality(B(i)) < Cardinality(S)
  <2>1. B(i) \in SUBSET S /\ i \notin B(i)
    BY NewestFirst
  <2>2. B(i) # S
    BY <2>1
  <2> HIDE DEF B
  <2>3. IsFiniteSet(B(i)) /\ Cardinality(B(i)) <= Cardinality(S) /\ Cardinality(B(i)) # Cardinality(S)
    BY <1>fin, <2>1, <2>2, FS_Subset
  <2>4. Cardinality(B(i)) \in Nat
    BY <2>3, FS_CardinalityType
  <2>5. Place(i, S) = Cardinality(B(i)) + 1
    BY DEF Place, B
  <2>6. QED  BY <1>fin, <2>3, <2>4, <2>5
<1>1. \A i \in S : Place(i, S) \in 1..Cardinality(S)
  <2> HIDE DEF B
  <2>1. QED  BY <1>b, <1>fin
<1>2. ASSUME NEW i \in S, NEW j \in S, Precedes(i, j) PROVE Place(i, S) < Place(j, S)
  <2>1. B(i) \in SUBSET B(j) /\ i \in B(j) /\ i \notin B(i)
    BY <1>2, NewestFirst
  <2> HIDE DEF B
  <2>2. IsFiniteSet(B(j)) /\ B(i) # B(j)
    BY <1>b, <2>1
  <2>3. Cardinality(B(i)) <= Cardinality(B(j)) /\ Cardinality(B(i)) # Cardinality(B(j))
    BY <2>1, <2>2, FS_Subset
  <2>4. QED  BY <1>b, <2>3
<1>3. ASSUME NEW i \in S, NEW j \in S, Place(i, S) = Place(j, S) PROVE i = j
  <2> SUFFICES ASSUME i # j PROVE FALSE
    OBVIOUS
  <2>1. Place(i, S) < Place(j, S) \/ Place(j, S) < Place(i, S)
    BY <1>2, NewestFirst
  <2>2. Place(i, S) \in Nat /\ Place(j, S) \in Nat
    BY <1>1, <1>fin
  <2>3. QED  BY <1>3, <2>1, <2>2
<1>4. \A n \in 1..Cardinality(S) : \E i \in S : Place(i, S) = n
  <2> DEFINE f == [i \in S |-> Place(i, S)]
  <2>1. f \in [S -> 1..Cardinality(S)]
    BY <1>1
  <2>2. f \in Injection(S, 1..Cardinality(S))
    BY <1>3, <2>1 DEF Injection, IsInjective
  <2>3. IsFiniteSet(1..Cardinality(S)) /\ Cardinality(1..Cardinality(S)) = Cardinality(S)
    BY <1>fin, FS_Interval
  <2> HIDE DEF f
  <2>4. f \in Surjection(S, 1..Cardinality(S))
    BY <2>2, <2>3, FS_Injection
  <2>5. QED  BY <2>4 DEF Surjection, f
<1>5. QED  BY <1>1, <1>2, <1>3, <1>4

\* Rows in order stand at their places.
LEMMA OrderedPlaces ==
    ASSUME AssetTyped, NEW S \in SUBSET Ids, NEW s \in [1..Cardinality(S) -> S], Ordered(s)
    PROVE  \A k \in 1..Cardinality(S) : Place(s[k], S) = k
<1>fin. IsFiniteSet(S) /\ Cardinality(S) \in Nat
  BY RowsFinite
<1>ord. \A m, n \in 1..Cardinality(S) : m < n => Precedes(s[m], s[n])
  BY DEF Ordered
<1>1. \A m, n \in 1..Cardinality(S) : s[m] = s[n] => m = n
  <2> SUFFICES ASSUME NEW m \in 1..Cardinality(S), NEW n \in 1..Cardinality(S), s[m] = s[n], m < n PROVE FALSE
    BY <1>fin
  <2>1. Precedes(s[m], s[m])
    BY <1>ord
  <2>2. s[m] \in Ids
    OBVIOUS
  <2>3. QED  BY <2>1, <2>2, NewestFirst
<1>2. s \in Injection(1..Cardinality(S), S)
  BY <1>1 DEF Injection, IsInjective
<1>3. Cardinality(1..Cardinality(S)) = Cardinality(S)
  BY <1>fin, FS_Interval
<1>4. s \in Surjection(1..Cardinality(S), S)
  BY <1>fin, <1>2, <1>3, FS_Injection
<1>5. ASSUME NEW k \in 1..Cardinality(S) PROVE Place(s[k], S) = k
  <2> DEFINE B == {j \in S : Precedes(j, s[k])}
             h == [m \in 1..k - 1 |-> s[m]]
  <2>0. k \in Nat /\ 1 <= k /\ k <= Cardinality(S) /\ \A m \in 1..k - 1 : m \in 1..Cardinality(S) /\ m < k
    BY <1>fin
  <2>1. h \in [1..k - 1 -> B]
    BY <1>ord, <2>0
  <2>2. \A m, n \in 1..k - 1 : h[m] = h[n] => m = n
    BY <1>1, <2>0
  <2>3. ASSUME NEW j \in B PROVE \E m \in 1..k - 1 : h[m] = j
    <3>1. PICK m \in 1..Cardinality(S) : s[m] = j
      BY <1>4 DEF Surjection
    <3>2. Precedes(s[m], s[k]) /\ s[m] \in Ids /\ s[k] \in Ids
      BY <3>1
    <3>3. m # k
      BY <3>2, NewestFirst
    <3>4. ~ (k < m)
      <4> SUFFICES ASSUME k < m PROVE FALSE
        OBVIOUS
      <4>1. Precedes(s[k], s[m])
        BY <1>ord
      <4>2. Precedes(s[k], s[k])
        BY <3>2, <4>1, NewestFirst
      <4>3. QED  BY <3>2, <4>2, NewestFirst
    <3>5. m \in 1..k - 1
      BY <1>fin, <2>0, <3>3, <3>4
    <3>6. QED  BY <3>1, <3>5
  <2>4. h \in Bijection(1..k - 1, B)
    BY <2>1, <2>2, <2>3 DEF Bijection, Injection, Surjection, IsInjective
  <2>5. IsFiniteSet(1..k - 1) /\ Cardinality(1..k - 1) = k - 1
    BY <2>0, FS_Interval
  <2> HIDE DEF h, B
  <2>6. Cardinality(B) = k - 1
    BY <2>4, <2>5, FS_Bijection DEF ExistsBijection
  <2>7. QED  BY <2>0, <2>6 DEF Place, B
<1>6. QED  BY <1>5

\* So there is one order, the one that InOrder chooses.
LEMMA InOrderPlaces ==
    ASSUME AssetTyped, NEW S \in SUBSET Ids
    PROVE  /\ InOrder(S) \in [1..Cardinality(S) -> S]
           /\ \A k \in 1..Cardinality(S) : Place(InOrder(S)[k], S) = k
           /\ \A i \in S : Place(i, S) \in 1..Cardinality(S) /\ InOrder(S)[Place(i, S)] = i
<1>fin. Cardinality(S) \in Nat
  BY RowsFinite
<1> DEFINE s0 == [k \in 1..Cardinality(S) |-> CHOOSE i \in S : Place(i, S) = k]
<1>1. s0 \in [1..Cardinality(S) -> S] /\ \A k \in 1..Cardinality(S) : Place(s0[k], S) = k
  BY PlacesOfRows
<1>2. ASSUME NEW m \in DOMAIN s0, NEW n \in DOMAIN s0, m < n PROVE Precedes(s0[m], s0[n])
  <2> HIDE DEF s0
  <2>1. /\ m \in 1..Cardinality(S) /\ n \in 1..Cardinality(S)
        /\ s0[m] \in S /\ s0[n] \in S /\ Place(s0[m], S) = m /\ Place(s0[n], S) = n
    BY <1>1
  <2>2. m \in Nat /\ n \in Nat
    BY <1>fin, <2>1
  <2>3. s0[m] # s0[n] /\ ~ Precedes(s0[n], s0[m])
    BY <1>2, <2>1, <2>2, PlacesOfRows
  <2>4. QED  BY <2>1, <2>3, NewestFirst
<1> HIDE DEF s0
<1>3. InOrder(S) \in [1..Cardinality(S) -> S] /\ Ordered(InOrder(S))
  BY <1>1, <1>2 DEF InOrder, Ordered
<1>4. \A k \in 1..Cardinality(S) : Place(InOrder(S)[k], S) = k
  BY <1>3, OrderedPlaces
<1>5. ASSUME NEW i \in S PROVE Place(i, S) \in 1..Cardinality(S) /\ InOrder(S)[Place(i, S)] = i
  <2>1. Place(i, S) \in 1..Cardinality(S)
    BY PlacesOfRows
  <2>2. InOrder(S)[Place(i, S)] \in S /\ Place(InOrder(S)[Place(i, S)], S) = Place(i, S)
    BY <1>3, <1>4, <2>1
  <2>3. QED  BY <2>1, <2>2, PlacesOfRows
<1>6. QED  BY <1>3, <1>4, <1>5

\* findMany answers the rows from place n on, a page of them at most, in order.
LEMMA TakenRows ==
    ASSUME AssetTyped, NEW S \in SUBSET Ids, NEW n \in Nat \ {0}
    PROVE  \E q \in 0..PageSize :
               /\ Taken(S, n) \in [1..q -> S]
               /\ \A k \in 1..q : Place(Taken(S, n)[k], S) = n + k - 1
               /\ n <= Cardinality(S) + 1 => /\ n + q - 1 <= Cardinality(S)
                                             /\ q < PageSize => n + q - 1 = Cardinality(S)
<1> DEFINE C == Cardinality(S)
           T == {i \in S : Place(i, S) \in n..n + PageSize - 1}
           q == IF n > C THEN 0 ELSE IF C - n + 1 < PageSize THEN C - n + 1 ELSE PageSize
           s1 == [k \in 1..q |-> InOrder(S)[n + k - 1]]
<1>0. C \in Nat /\ PageSize \in Nat \ {0} /\ T \in SUBSET Ids /\ T \subseteq S
  BY RowsFinite, PortalAssumption
<1>1. q \in 0..PageSize /\ (n <= C + 1 => n + q - 1 <= C /\ (q < PageSize => n + q - 1 = C))
  BY <1>0
<1>2. \A k \in 1..q : n + k - 1 \in 1..C /\ n + k - 1 \in n..n + PageSize - 1
  BY <1>0
<1>3. \A m \in 1..C : m \in n..n + PageSize - 1 => m - n + 1 \in 1..q /\ n + (m - n + 1) - 1 = m
  BY <1>0
<1>T. T = {i \in S : Place(i, S) \in n..n + PageSize - 1}
  OBVIOUS
<1>s. s1 = [k \in 1..q |-> InOrder(S)[n + k - 1]]
  OBVIOUS
<1>tk. Taken(S, n) = InOrder(T)
  BY DEF Taken
<1>q. q \in Nat
  BY <1>0, <1>1
<1> HIDE DEF T, q, s1, C
<1>p. /\ InOrder(S) \in [1..C -> S]
      /\ \A k \in 1..C : Place(InOrder(S)[k], S) = k
      /\ \A i \in S : Place(i, S) \in 1..C /\ InOrder(S)[Place(i, S)] = i
  BY InOrderPlaces DEF C
<1>4. /\ s1 \in [1..q -> T]
      /\ \A k \in 1..q : s1[k] = InOrder(S)[n + k - 1] /\ Place(s1[k], S) = n + k - 1
  <2>1. \A k \in 1..q : InOrder(S)[n + k - 1] \in T /\ Place(InOrder(S)[n + k - 1], S) = n + k - 1
    BY <1>2, <1>p, <1>T
  <2>2. QED  BY <2>1, <1>s
<1>5. \A k, m \in 1..q : s1[k] = s1[m] => k = m
  <2> SUFFICES ASSUME NEW k \in 1..q, NEW m \in 1..q, s1[k] = s1[m] PROVE k = m
    OBVIOUS
  <2>1. n + k - 1 = n + m - 1
    BY <1>4
  <2>2. QED  BY <1>q, <2>1
<1>6. \A i \in T : \E k \in 1..q : s1[k] = i
  <2> SUFFICES ASSUME NEW i \in T PROVE \E k \in 1..q : s1[k] = i
    OBVIOUS
  <2>1. PICK m \in 1..C : m = Place(i, S) /\ m \in n..n + PageSize - 1 /\ InOrder(S)[m] = i
    BY <1>p, <1>T
  <2>2. m - n + 1 \in 1..q /\ n + (m - n + 1) - 1 = m
    BY <1>3, <2>1
  <2>3. s1[m - n + 1] = InOrder(S)[m]
    BY <1>4, <2>2
  <2>4. QED  BY <2>1, <2>2, <2>3
<1>7. s1 \in Bijection(1..q, T)
  BY <1>4, <1>5, <1>6 DEF Bijection, Injection, Surjection, IsInjective
<1>8. Cardinality(T) = q
  <2>1. IsFiniteSet(1..q) /\ Cardinality(1..q) = q
    BY <1>q, FS_Interval
  <2>2. QED  BY <1>7, <2>1, FS_Bijection DEF ExistsBijection
<1>9. Ordered(s1)
  <2> SUFFICES ASSUME NEW k \in 1..q, NEW m \in 1..q, k < m PROVE Precedes(s1[k], s1[m])
    BY <1>4 DEF Ordered
  <2>1. /\ s1[k] \in S /\ s1[m] \in S /\ Place(s1[k], S) = n + k - 1 /\ Place(s1[m], S) = n + m - 1
    BY <1>4, <1>0
  <2>2. n + k - 1 < n + m - 1 /\ n + k - 1 \in Int /\ n + m - 1 \in Int
    BY <1>q
  <2>5. PICK i \in S, j \in S : i = s1[k] /\ j = s1[m]
    BY <2>1
  <2>3. i # j /\ ~ Precedes(j, i)
    <3>1. Place(i, S) = n + k - 1 /\ Place(j, S) = n + m - 1
      BY <2>1, <2>5
    <3>2. Precedes(j, i) => Place(j, S) < Place(i, S)
      BY PlacesOfRows
    <3>3. QED  BY <2>2, <3>1, <3>2
  <2>4. QED  BY <2>3, <2>5, NewestFirst
<1>10. InOrder(T) = s1
  <2>1. \A k \in 1..q : Place(s1[k], T) = k
    BY <1>0, <1>4, <1>8, <1>9, OrderedPlaces
  <2>2. InOrder(T) \in [1..q -> T] /\ \A k \in 1..q : Place(InOrder(T)[k], T) = k
    BY <1>0, <1>8, InOrderPlaces
  <2>3. \A k \in 1..q : InOrder(T)[k] = s1[k]
    <3> SUFFICES ASSUME NEW k \in 1..q PROVE InOrder(T)[k] = s1[k]
      OBVIOUS
    <3>1. InOrder(T)[k] \in T /\ s1[k] \in T /\ Place(InOrder(T)[k], T) = Place(s1[k], T)
      BY <1>4, <2>1, <2>2
    <3>2. QED  BY <1>0, <3>1, PlacesOfRows
  <2>4. PICK f \in [1..q -> T], g \in [1..q -> T] : f = InOrder(T) /\ g = s1
    BY <1>4, <2>2
  <2>5. f = g
    <3>1. \A k \in 1..q : f[k] = g[k]
      BY <2>3, <2>4
    <3>2. f = [k \in 1..q |-> f[k]] /\ g = [k \in 1..q |-> g[k]]
      OBVIOUS
    <3>3. [k \in 1..q |-> f[k]] = [k \in 1..q |-> g[k]]
      BY <3>1
    <3>4. QED  BY <3>2, <3>3, Zenon
  <2>6. QED  BY <2>4, <2>5
<1>11. QED
  <2>1. Taken(S, n) \in [1..q -> S] /\ \A k \in 1..q : Place(Taken(S, n)[k], S) = n + k - 1
    BY <1>tk, <1>10, <1>4, <1>0
  <2>2. QED  BY <1>1, <2>1 DEF C



-----------------------------------------------------------------------------
(* What pages and requests hold *)

Last(s) == s[Len(s)]

\* The tab holds rows of the table, and a next page starts at the last of them.
TabTyped ==
    /\ tab \in Tab /\ tab.next \in Ids \cup {0} /\ tab.seen <= changes
    /\ tab.next # 0 => tab.rows # <<>> /\ tab.next = Last(tab.rows)
    /\ \A k \in 1..Len(tab.rows) : tab.rows[k] \in Ids
    /\ tab.page = "watch" => tab.rows = <<>>

RequestTyped(l) ==
    /\ list[l].st # "idle" => tab.page # "watch"
    /\ list[l].kind = "first" => list[l].cursor = 0
    /\ list[l].cursor \in Ids \cup {0} /\ list[l].next \in Ids \cup {0}
    /\ list[l].seen <= changes /\ Len(list[l].rows) <= PageSize
    /\ list[l].next # 0 => list[l].rows # <<>> /\ list[l].next = Last(list[l].rows)
    /\ \A k \in 1..Len(list[l].rows) : list[l].rows[k] \in Ids

\* One loadMore at a time, and while no refresh is answered it asks for what
\* follows the rows shown.
More(l) == list[l].st # "idle" /\ list[l].kind = "more"

MoreOK ==
    /\ \A l \in Lists : More(l) => tab.loading /\ list[l].cursor # 0 /\ (tab.whole => list[l].cursor = tab.next)
    /\ \A l, k \in Lists : More(l) /\ More(k) => l = k

\* The rows at the places n + 1, n + 2 and so on.
Placed(rows, n, ids) ==
    /\ n + Len(rows) <= Cardinality(ids)
    /\ \A k \in 1..Len(rows) : rows[k] \in ids /\ Place(rows[k], ids) = n + k

\* Nothing was published since.
Fresh(seen) == tab.page = "library" => seen = changes

\* An answer on its way holds what follows the cursor it was asked for.
ReadOK(l) ==
    LET r == list[l]  ids == Listed(r.text) IN
    r.st = "read" /\ Fresh(r.seen) /\ (r.cursor # 0 => r.cursor \in ids) =>
        \E n \in Nat :
            /\ Placed(r.rows, n, ids)
            /\ r.cursor # 0 => n = Place(r.cursor, ids)
            /\ r.next = 0 => n + Len(r.rows) = Cardinality(ids)

TabOK ==
    LET ids == Listed(tab.found) IN
    tab.whole /\ tab.rows # <<>> /\ Fresh(tab.seen) =>
        \E n \in Nat :
            /\ Placed(tab.rows, n, ids)
            /\ tab.next = 0 => n + Len(tab.rows) = Cardinality(ids)

Bounded == Len(asset) <= MaxAssets[tab.page] /\ changes <= MaxPublish[tab.page]

PageInv ==
    /\ Bounded /\ TabTyped /\ list \in [Lists -> List]
    /\ \A l \in Lists : RequestTyped(l) /\ ReadOK(l)
    /\ MoreOK /\ TabOK

LEMMA NoRequest ==
    /\ NoList \in List /\ NoList.st = "idle" /\ NoList.kind = "first" /\ NoList.text = ""
    /\ NoList.cursor = 0 /\ NoList.rows = <<>> /\ NoList.next = 0 /\ NoList.seen = 0
<1>1. PICK e \in Seq(Nat) : e = <<>>
  BY EmptySeq
<1>2. NoList = [st |-> "idle", kind |-> "first", text |-> "", cursor |-> 0, rows |-> e, next |-> 0, seen |-> 0]
  BY <1>1 DEF NoList
<1>3. QED  BY <1>1, <1>2 DEF List, Texts

LEMMA ListedRows ==
    ASSUME NEW t PROVE Listed(t) \in SUBSET Ids /\ (tab.page = "assets" => Listed(t) = Ids)
BY DEF Listed

\* Fields of a tab are written.
TabBecomes(rows, next, loading, typed, searched, found, seen, whole, missed) ==
    /\ rows \in Seq(Nat) /\ next \in Nat /\ loading \in BOOLEAN /\ typed \in Texts
    /\ searched \in Texts /\ found \in Texts /\ seen \in Nat /\ whole \in BOOLEAN /\ missed \in BOOLEAN
    /\ tab' = [tab EXCEPT !.rows = rows, !.next = next, !.loading = loading, !.typed = typed,
                          !.searched = searched, !.found = found, !.seen = seen, !.whole = whole,
                          !.missed = missed]

LEMMA TabSet ==
    ASSUME tab \in Tab, NEW rows, NEW next, NEW loading, NEW typed, NEW searched, NEW found, NEW seen, NEW whole,
           NEW missed, TabBecomes(rows, next, loading, typed, searched, found, seen, whole, missed)
    PROVE  /\ tab' \in Tab /\ tab'.page = tab.page /\ tab'.rows = rows /\ tab'.next = next
           /\ tab'.loading = loading /\ tab'.typed = typed /\ tab'.searched = searched /\ tab'.found = found
           /\ tab'.seen = seen /\ tab'.whole = whole /\ tab'.missed = missed
<1>1. tab' = [page |-> tab.page, rows |-> rows, next |-> next, loading |-> loading, typed |-> typed,
              searched |-> searched, found |-> found, seen |-> seen, whole |-> whole, missed |-> missed]
  BY DEF Tab, TabBecomes
<1>2. tab.page \in Pages
  BY DEF Tab
<1>3. tab' \in Tab
  BY <1>1, <1>2 DEF Tab, TabBecomes
<1>4. QED  BY <1>1, <1>3

\* While the tables stay, rows keep their places.
LEMMA PlacesStay ==
    ASSUME UNCHANGED <<asset, changes>>, tab'.page = tab.page
    PROVE  /\ Ids' = Ids
           /\ \A t : Listed(t)' = Listed(t)
           /\ \A i, ids : Place(i, ids)' = Place(i, ids)
           /\ \A rows, n, ids : Placed(rows, n, ids)' <=> Placed(rows, n, ids)
           /\ \A seen : Fresh(seen)' <=> Fresh(seen)
<1>1. Ids' = Ids
  BY DEF Ids
<1>2. \A t : Listed(t)' = Listed(t)
  BY <1>1 DEF Listed
<1>3. \A i, j : Precedes(i, j)' <=> Precedes(i, j)
  BY DEF Precedes
<1>4. \A i, ids : Place(i, ids)' = Place(i, ids)
  BY <1>3 DEF Place
<1>5. \A rows, n, ids : Placed(rows, n, ids)' <=> Placed(rows, n, ids)
  BY <1>4 DEF Placed
<1>6. \A seen : Fresh(seen)' <=> Fresh(seen)
  BY DEF Fresh
<1>7. QED  BY <1>1, <1>2, <1>4, <1>5, <1>6

\* Requests that stay, go or are made.
LEMMA RequestStays ==
    ASSUME UNCHANGED <<asset, changes>>, tab'.page = tab.page, NEW l \in Lists, list'[l] = list[l],
           RequestTyped(l), ReadOK(l)
    PROVE  RequestTyped(l)' /\ ReadOK(l)' /\ (More(l)' <=> More(l))
<1>1. RequestTyped(l)'
  BY PlacesStay DEF RequestTyped, Last
<1>2. ReadOK(l)'
  BY PlacesStay DEF ReadOK
<1>3. QED  BY <1>1, <1>2 DEF More

LEMMA RequestGone ==
    ASSUME NEW l \in Lists, list'[l] = NoList, changes' \in Nat
    PROVE  RequestTyped(l)' /\ ReadOK(l)' /\ ~More(l)'
<1>1. Len(NoList.rows) = 0 /\ 1..Len(NoList.rows) = {} /\ Len(NoList.rows) <= PageSize /\ 0 <= changes'
  <2>1. PICK e : e = NoList.rows
    OBVIOUS
  <2>2. e = <<>>
    BY <2>1, NoRequest
  <2>3. Len(e) = 0
    BY <2>2
  <2>4. QED  BY <2>1, <2>3, PortalAssumption
<1>2. RequestTyped(l)'
  <2> SUFFICES ASSUME NEW r, r = NoList, list'[l] = r PROVE RequestTyped(l)'
    OBVIOUS
  <2>1. /\ r.st = "idle" /\ r.cursor = 0 /\ r.next = 0 /\ r.seen <= changes' /\ Len(r.rows) <= PageSize
        /\ 1..Len(r.rows) = {}
    BY NoRequest, <1>1
  <2>2. QED  BY <2>1 DEF RequestTyped
<1>3. QED  BY NoRequest, <1>2 DEF ReadOK, More

Request(kind, text, cursor) == [NoList EXCEPT !.st = "sent", !.kind = kind, !.text = text, !.cursor = cursor]

LEMMA RequestMade ==
    ASSUME NEW l \in Lists, NEW kind \in {"first", "more"}, NEW text \in Texts, NEW cursor \in Nat,
           list'[l] = Request(kind, text, cursor),
           cursor \in Ids' \cup {0}, kind = "first" => cursor = 0, tab'.page # "watch", changes' \in Nat
    PROVE  /\ RequestTyped(l)' /\ ReadOK(l)' /\ list'[l] \in List
           /\ list'[l].st = "sent" /\ list'[l].kind = kind /\ list'[l].text = text /\ list'[l].cursor = cursor
<1>2. PICK d \in List : d = [NoList EXCEPT !.st = "sent", !.kind = kind, !.text = text, !.cursor = cursor]
  BY NoRequest DEF List
<1>3. d.st = "sent" /\ d.kind = kind /\ d.text = text /\ d.cursor = cursor /\ d.rows = <<>> /\ d.next = 0 /\ d.seen = 0
  BY NoRequest, <1>2 DEF List
<1>4. list'[l] = d
  BY <1>2 DEF Request
<1>1. Len(d.rows) <= PageSize /\ 1..Len(d.rows) = {} /\ d.seen <= changes'
  BY <1>3, PortalAssumption
<1>5. RequestTyped(l)'
  BY <1>1, <1>3, <1>4 DEF RequestTyped
<1>6. QED  BY <1>2, <1>3, <1>4, <1>5 DEF ReadOK


-----------------------------------------------------------------------------
(* The tables change *)

\* On the assets page a row is preceded by the rows created after it.
LEMMA PlaceByCreation ==
    ASSUME NEW n \in Nat, NEW i \in 1..n
    PROVE  Cardinality({j \in 1..n : j > i}) = n - i
<1>1. {j \in 1..n : j > i} = (i + 1)..n
  OBVIOUS
<1>2. i + 1 \in Int /\ n \in Int
  OBVIOUS
<1>3. Cardinality((i + 1)..n) = IF i + 1 > n THEN 0 ELSE n - (i + 1) + 1
  BY <1>2, FS_Interval
<1>4. n - i = IF i + 1 > n THEN 0 ELSE n - (i + 1) + 1
  OBVIOUS
<1>5. QED  BY <1>1, <1>3, <1>4

\* The rows that precede a row stay the same, or the list is by creation and
\* they are one more, or something was published.
RowsShift(d) == \A t :
    /\ Cardinality(Listed(t))' = Cardinality(Listed(t)) + d
    /\ \A i \in Listed(t) : i \in Listed(t)' /\ Place(i, Listed(t))' = Place(i, Listed(t)) + d
    /\ \A i \in Ids : i \in Listed(t)' => i \in Listed(t)

LEMMA RowsMove ==
    ASSUME AssetTyped, tab \in Tab, Bounded, AssetStep
    PROVE  /\ Ids \subseteq Ids' /\ changes' \in Nat /\ changes <= changes' /\ Bounded'
           /\ \/ tab.page # "assets" /\ changes < changes'
              \/ (tab.page # "assets" => changes' = changes) /\ \E d \in Nat : RowsShift(d)
<1>typed. /\ asset \in Seq([upload : Uploads, published : Nat]) /\ changes \in Nat
          /\ register \in [Registers -> Uploads \cup {None}]
          /\ Len(asset) \in Nat /\ Ids = 1..Len(asset)
  BY RowsFinite DEF AssetTyped
<1>tab. tab' = tab
  BY DEF AssetStep, RegisterRead, RegisterCreate, RegisterFails, Publish, listVars
<1>card. \A t : Cardinality(Listed(t)) \in Nat
  BY RowsFinite, ListedRows
<1>same. ASSUME UNCHANGED <<asset, changes>>
         PROVE  /\ Ids \subseteq Ids' /\ changes' \in Nat /\ changes <= changes' /\ Bounded'
                /\ changes' = changes /\ RowsShift(0)
  <2>1. \A t : Listed(t)' = Listed(t)
    BY <1>tab, <1>same, PlacesStay
  <2>2. \A t : \A i \in Listed(t) : Place(i, Listed(t))' = Place(i, Listed(t)) /\ Place(i, Listed(t)) \in Nat
    <3> SUFFICES ASSUME NEW t, NEW i \in Listed(t)
                 PROVE  Place(i, Listed(t))' = Place(i, Listed(t)) /\ Place(i, Listed(t)) \in Nat
      OBVIOUS
    <3>1. Place(i, Listed(t)) \in 1..Cardinality(Listed(t))
      BY PlacesOfRows, ListedRows
    <3>2. PICK ids : ids = Listed(t)
      OBVIOUS
    <3>3. Place(i, ids)' = Place(i, ids)
      BY <1>tab, <1>same, PlacesStay
    <3>4. QED  BY <1>card, <2>1, <3>1, <3>2, <3>3
  <2>3. RowsShift(0)
    BY <1>card, <2>1, <2>2 DEF RowsShift
  <2>4. QED  BY <1>typed, <1>tab, <1>same, <2>3 DEF Ids, Bounded
<1>1. ASSUME NEW g \in Registers, RegisterCreate(g)
      PROVE  /\ Ids \subseteq Ids' /\ changes' \in Nat /\ changes <= changes' /\ Bounded'
             /\ changes' = changes /\ \E d \in Nat : RowsShift(d)
  <2>1. PICK a \in [upload : Uploads, published : Nat] : a = [upload |-> register[g], published |-> 0]
    BY <1>typed, <1>1 DEF RegisterCreate
  <2>2. asset' = Append(asset, a) /\ changes' = changes /\ Len(asset) < MaxAssets[tab.page] /\ a.published = 0
    BY <1>1, <2>1 DEF RegisterCreate
  <2>3. /\ Ids' = 1..Len(asset) + 1
        /\ \A i \in Ids : asset'[i] = asset[i]
        /\ asset'[Len(asset) + 1].published = 0
    BY <1>typed, <2>2 DEF Ids
  <2>4. Bounded'
    <3>1. MaxAssets[tab.page] \in Nat
      BY PortalAssumption DEF Tab
    <3>2. Len(asset') = Len(asset) + 1
      BY <1>typed, <2>2
    <3>3. QED  BY <1>typed, <1>tab, <2>2, <3>1, <3>2 DEF Bounded
  <2>5. CASE tab.page = "assets"
    <3>0. PICK m \in Nat : m = Len(asset)
      BY <1>typed
    <3>1. \A t : Listed(t) = 1..m /\ Listed(t)' = 1..m + 1
      BY <1>typed, <1>tab, <2>3, <2>5, <3>0 DEF Listed
    <3>2. \A i, ids : /\ Place(i, ids) = Cardinality({j \in ids : j > i}) + 1
                      /\ Place(i, ids)' = Cardinality({j \in ids : j > i}) + 1
      BY <1>tab, <2>5 DEF Place, Precedes
    <3>3. \A i \in 1..m : Place(i, 1..m) = m - i + 1 /\ Place(i, 1..m + 1)' = m + 1 - i + 1
      <4> SUFFICES ASSUME NEW i \in 1..m
                   PROVE  Place(i, 1..m) = m - i + 1 /\ Place(i, 1..m + 1)' = m + 1 - i + 1
        OBVIOUS
      <4>1. Cardinality({j \in 1..m : j > i}) = m - i
        BY PlaceByCreation
      <4>2. m + 1 \in Nat /\ i \in 1..m + 1
        OBVIOUS
      <4>3. Cardinality({j \in 1..m + 1 : j > i}) = m + 1 - i
        BY <4>2, PlaceByCreation
      <4>4. QED  BY <3>2, <4>1, <4>3
    <3>4. Cardinality(1..m) = m /\ Cardinality(1..m + 1) = m + 1
      <4>1. 1 \in Int /\ m \in Int /\ m + 1 \in Int
        OBVIOUS
      <4>2. Cardinality(1..m) = IF 1 > m THEN 0 ELSE m - 1 + 1
        BY <4>1, FS_Interval
      <4>3. Cardinality(1..m + 1) = IF 1 > m + 1 THEN 0 ELSE m + 1 - 1 + 1
        BY <4>1, FS_Interval
      <4>4. QED  BY <4>2, <4>3
    <3>5. ASSUME NEW t
          PROVE  /\ Cardinality(Listed(t))' = Cardinality(Listed(t)) + 1
                 /\ \A i \in Listed(t) : i \in Listed(t)' /\ Place(i, Listed(t))' = Place(i, Listed(t)) + 1
                 /\ \A i \in Ids : i \in Listed(t)' => i \in Listed(t)
      <4>1. \A i : Place(i, Listed(t)) = Place(i, 1..m) /\ Place(i, Listed(t))' = Place(i, 1..m + 1)'
        BY <3>1
      <4>2. Cardinality(Listed(t))' = Cardinality(Listed(t)) + 1
        BY <3>1, <3>4
      <4>3. ASSUME NEW i \in Listed(t)
            PROVE  i \in Listed(t)' /\ Place(i, Listed(t))' = Place(i, Listed(t)) + 1
        <5>1. i \in 1..m /\ i \in 1..m + 1
          BY <3>1
        <5>2. Place(i, 1..m) = m - i + 1 /\ Place(i, 1..m + 1)' = m + 1 - i + 1
          BY <3>3, <5>1
        <5>3. m + 1 - i + 1 = (m - i + 1) + 1
          BY <5>1
        <5>4. QED  BY <3>1, <4>1, <5>1, <5>2, <5>3
      <4>4. \A i \in Ids : i \in Listed(t)
        BY <1>typed, <3>0, <3>1
      <4>5. QED  BY <4>2, <4>3, <4>4
    <3>6. RowsShift(1)
      BY <3>5 DEF RowsShift
    <3>7. QED  BY <1>typed, <2>2, <2>3, <2>4, <3>6
  <2>6. CASE tab.page # "assets"
    <3>1. ASSUME NEW t PROVE Listed(t)' = Listed(t)
      <4>1. Listed(t) = {i \in Ids : asset[i].published > 0 /\ (t = "" \/ i \in Matching)}
        BY <2>6 DEF Listed
      <4>2. Listed(t)' = {i \in Ids' : asset'[i].published > 0 /\ (t = "" \/ i \in Matching)}
        BY <1>tab, <2>6 DEF Listed
      <4>3. \A i \in Ids' : i \in Ids \/ asset'[i].published = 0
        BY <1>typed, <2>3
      <4>4. Ids \subseteq Ids'
        BY <1>typed, <2>3
      <4>5. \A i \in Ids : asset'[i].published = asset[i].published
        BY <2>3
      <4>6. \A i \in Ids' : asset'[i].published > 0 => i \in Ids
        BY <4>3
      <4>7. QED  BY <4>1, <4>2, <4>4, <4>5, <4>6
    <3>2. \A i, j \in Ids : Precedes(i, j)' <=> Precedes(i, j)
      BY <1>tab, <2>3, <2>6 DEF Precedes
    <3>3. \A t : \A i \in Listed(t) : Place(i, Listed(t))' = Place(i, Listed(t)) /\ Place(i, Listed(t)) \in Nat
      <4> SUFFICES ASSUME NEW t, NEW i \in Listed(t)
                   PROVE  Place(i, Listed(t))' = Place(i, Listed(t)) /\ Place(i, Listed(t)) \in Nat
        OBVIOUS
      <4>1. Place(i, Listed(t)) \in 1..Cardinality(Listed(t))
        BY PlacesOfRows, ListedRows
      <4>2. {j \in Listed(t) : Precedes(j, i)}' = {j \in Listed(t) : Precedes(j, i)}
        BY <3>1, <3>2, ListedRows
      <4>3. Place(i, Listed(t))' = Place(i, Listed(t))
        BY <4>2 DEF Place
      <4>4. QED  BY <1>card, <4>1, <4>3
    <3>4. RowsShift(0)
      BY <1>card, <3>1, <3>3 DEF RowsShift
    <3>5. QED  BY <1>typed, <2>2, <2>3, <2>4, <3>4
  <2>7. QED  BY <2>5, <2>6
<1>2. ASSUME NEW i \in Ids, NEW published \in BOOLEAN, Publish(i, published)
      PROVE  /\ Ids \subseteq Ids' /\ changes' \in Nat /\ changes <= changes' /\ Bounded'
             /\ changes < changes' /\ (tab.page = "assets" => RowsShift(0))
  <2>1. PICK n : n = IF published THEN changes' ELSE 0
    OBVIOUS
  <2>2. changes' = changes + 1 /\ changes < MaxPublish[tab.page] /\ asset' = [asset EXCEPT ![i].published = n]
    BY <1>2, <2>1 DEF Publish
  <2>3. Len(asset') = Len(asset) /\ Ids' = Ids
    BY <1>typed, <2>2 DEF Ids
  <2>4. Bounded' /\ changes' \in Nat /\ changes < changes'
    <3>1. MaxPublish[tab.page] \in Nat
      BY PortalAssumption DEF Tab
    <3>2. QED  BY <1>typed, <1>tab, <2>2, <2>3, <3>1 DEF Bounded
  <2>5. ASSUME tab.page = "assets" PROVE RowsShift(0)
    <3>1. \A t : Listed(t) = Ids /\ Listed(t)' = Ids
      BY <1>tab, <2>3, <2>5 DEF Listed
    <3>2. \A j, ids : Place(j, ids)' = Place(j, ids)
      BY <1>tab, <2>5 DEF Place, Precedes
    <3>3. \A j \in Ids : Place(j, Ids)' = Place(j, Ids) /\ Place(j, Ids) \in Nat
      <4> SUFFICES ASSUME NEW j \in Ids PROVE Place(j, Ids)' = Place(j, Ids) /\ Place(j, Ids) \in Nat
        OBVIOUS
      <4>1. Place(j, Ids) \in 1..Cardinality(Ids) /\ Cardinality(Ids) \in Nat
        BY PlacesOfRows, RowsFinite
      <4>2. QED  BY <2>3, <3>2, <4>1
    <3>4. QED  BY <1>card, <2>3, <3>1, <3>3 DEF RowsShift
  <2>6. QED  BY <1>typed, <2>3, <2>4, <2>5
<1>3. ASSUME NEW g \in Registers, RegisterFails(g) PROVE UNCHANGED <<asset, changes>>
  BY <1>3 DEF RegisterFails
<1>4. ASSUME NEW g \in Registers, NEW u \in Uploads, RegisterRead(g, u) PROVE UNCHANGED <<asset, changes>>
  BY <1>4 DEF RegisterRead
<1>5. QED  BY <1>same, <1>1, <1>2, <1>3, <1>4 DEF AssetStep


-----------------------------------------------------------------------------
(* Pages, step by step *)

LEMMA PageInit == Init => PageInv
<1> SUFFICES ASSUME Init PROVE PageInv
  OBVIOUS
<1>1. PICK p \in Pages :
        tab = [page |-> p, rows |-> <<>>, next |-> 0, loading |-> FALSE, typed |-> "",
               searched |-> "", found |-> "", seen |-> 0, whole |-> TRUE, missed |-> FALSE]
  BY DEF Init
<1>2. tab \in Tab /\ tab.page = p /\ tab.rows = <<>> /\ tab.next = 0 /\ tab.seen = 0
  BY <1>1, EmptySeq DEF Tab, Texts
<1>3. asset = <<>> /\ changes = 0 /\ Len(asset) = 0
  BY DEF Init
<1>4. Bounded
  BY <1>2, <1>3, PortalAssumption DEF Bounded
<1>5. 1..Len(tab.rows) = {}
  <2>1. PICK e : e = tab.rows
    OBVIOUS
  <2>2. e = <<>>
    BY <1>2, <2>1
  <2>3. Len(e) = 0
    BY <2>2
  <2>4. QED  BY <2>1, <2>3
<1>6. TabTyped
  BY <1>2, <1>3, <1>5 DEF TabTyped
<1>7. TabOK
  BY <1>2 DEF TabOK
<1>sent. PICK g \in List : g = [NoList EXCEPT !.st = "sent"]
  BY NoRequest DEF List
<1>8. /\ g.st = "sent" /\ g.kind = "first" /\ g.cursor = 0 /\ g.next = 0 /\ g.seen = 0
      /\ g.rows = <<>>
  BY <1>sent, NoRequest DEF List
<1>9. PICK a \in Lists : list = [k \in Lists |-> IF k = a /\ tab.page # "watch" THEN g ELSE NoList]
  BY <1>sent DEF Init
<1>10. list \in [Lists -> List]
  BY <1>8, <1>9, NoRequest
<1>11. ASSUME NEW l \in Lists PROVE RequestTyped(l) /\ ReadOK(l) /\ ~More(l)
  <2>1. /\ list[l].st # "read" /\ list[l].kind = "first" /\ list[l].cursor = 0 /\ list[l].next = 0
        /\ list[l].seen = 0 /\ list[l].rows = <<>> /\ (list[l].st # "idle" => tab.page # "watch")
    BY <1>8, <1>9, NoRequest
  <2>2. PICK e : e = list[l].rows
    OBVIOUS
  <2>3. Len(e) = 0
    BY <2>1, <2>2
  <2>4. Len(list[l].rows) <= PageSize /\ 1..Len(list[l].rows) = {}
    BY <2>2, <2>3, PortalAssumption
  <2>5. RequestTyped(l)
    BY <1>3, <2>1, <2>4 DEF RequestTyped
  <2>6. QED  BY <2>1, <2>5 DEF ReadOK, More
<1>12. MoreOK
  BY <1>11 DEF MoreOK
<1>13. QED  BY <1>4, <1>6, <1>7, <1>10, <1>11, <1>12 DEF PageInv

\* Uploads and publishing.
LEMMA PageAsset == ASSUME AssetTyped, PageInv, AssetStep PROVE PageInv'
<1>inv. /\ Bounded /\ TabTyped /\ list \in [Lists -> List] /\ MoreOK /\ TabOK
        /\ \A l \in Lists : RequestTyped(l) /\ ReadOK(l)
  BY DEF PageInv
<1>tab. tab \in Tab /\ tab' = tab /\ list' = list /\ changes \in Nat
  BY <1>inv DEF AssetStep, RegisterRead, RegisterCreate, RegisterFails, Publish, listVars, TabTyped, AssetTyped
<1>1. /\ Ids \subseteq Ids' /\ changes' \in Nat /\ changes <= changes' /\ Bounded'
      /\ \/ tab.page # "assets" /\ changes < changes'
         \/ (tab.page # "assets" => changes' = changes) /\ \E d \in Nat : RowsShift(d)
  BY <1>inv, <1>tab, RowsMove
<1>fields. /\ tab.page \in Pages /\ tab.seen \in Nat /\ tab.rows \in Seq(Nat)
           /\ \A l \in Lists : list[l].seen \in Nat /\ list[l].rows \in Seq(Nat)
  BY <1>inv, <1>tab DEF Tab, List
<1>2. TabTyped'
  BY <1>inv, <1>tab, <1>1, <1>fields DEF TabTyped, Last
<1>3. \A l \in Lists : RequestTyped(l)'
  BY <1>inv, <1>tab, <1>1, <1>fields DEF RequestTyped, Last
<1>4. MoreOK'
  BY <1>inv, <1>tab DEF MoreOK, More
<1>5. CASE tab.page # "assets" /\ changes < changes'
  <2>1. tab.page = "library" => ~Fresh(tab.seen)' /\ \A l \in Lists : ~Fresh(list[l].seen)'
    BY <1>inv, <1>tab, <1>1, <1>5, <1>fields DEF TabTyped, RequestTyped, Fresh
  <2>2. tab.page = "watch" => tab.rows = <<>> /\ \A l \in Lists : list[l].st = "idle"
    BY <1>inv DEF TabTyped, RequestTyped
  <2>3. tab.page = "library" \/ tab.page = "watch"
    BY <1>5, <1>fields DEF Pages
  <2>4. TabOK'
    BY <1>tab, <2>1, <2>2, <2>3 DEF TabOK
  <2>5. \A l \in Lists : ReadOK(l)'
    BY <1>tab, <2>1, <2>2, <2>3 DEF ReadOK
  <2>6. QED  BY <1>tab, <1>inv, <1>1, <1>2, <1>3, <1>4, <2>4, <2>5 DEF PageInv
<1>6. CASE (tab.page # "assets" => changes' = changes) /\ \E d \in Nat : RowsShift(d)
  <2>1. PICK d \in Nat : RowsShift(d)
    BY <1>6
  <2>2. \A seen : Fresh(seen)' => Fresh(seen)
    BY <1>tab, <1>6 DEF Fresh
  <2>3. ASSUME NEW t, NEW rows \in Seq(Nat), NEW n \in Nat, Placed(rows, n, Listed(t))
        PROVE  Placed(rows, n + d, Listed(t))'
    <3>1. Cardinality(Listed(t)) \in Nat /\ Len(rows) \in Nat
      BY RowsFinite, ListedRows
    <3>2. n + d + Len(rows) <= Cardinality(Listed(t))'
      BY <2>1, <2>3, <3>1 DEF RowsShift, Placed
    <3>3. \A k \in 1..Len(rows) : rows[k] \in Listed(t)' /\ Place(rows[k], Listed(t))' = n + d + k
      <4> SUFFICES ASSUME NEW k \in 1..Len(rows)
                   PROVE  rows[k] \in Listed(t)' /\ Place(rows[k], Listed(t))' = n + d + k
        OBVIOUS
      <4>1. rows[k] \in Listed(t) /\ Place(rows[k], Listed(t)) = n + k
        BY <2>3 DEF Placed
      <4>2. PICK i \in Listed(t) : i = rows[k]
        BY <4>1
      <4>3. i \in Listed(t)' /\ Place(i, Listed(t))' = Place(i, Listed(t)) + d
        BY <2>1 DEF RowsShift
      <4>4. QED  BY <3>1, <4>1, <4>2, <4>3
    <3>4. QED  BY <3>2, <3>3 DEF Placed
  <2>4. TabOK'
    <3> SUFFICES ASSUME tab.whole, tab.rows # <<>>, Fresh(tab.seen)
                 PROVE  \E n \in Nat :
                          /\ Placed(tab.rows, n, Listed(tab.found))'
                          /\ tab.next = 0 => n + Len(tab.rows) = Cardinality(Listed(tab.found))'
      BY <1>tab, <2>2 DEF TabOK
    <3>1. PICK n \in Nat : /\ Placed(tab.rows, n, Listed(tab.found))
                           /\ tab.next = 0 => n + Len(tab.rows) = Cardinality(Listed(tab.found))
      BY <1>inv DEF TabOK
    <3>2. PICK t : t = tab.found
      OBVIOUS
    <3>3. PICK rows \in Seq(Nat) : rows = tab.rows
      BY <1>fields
    <3>4. Placed(rows, n + d, Listed(t))'
      BY <2>3, <3>1, <3>2, <3>3
    <3>5. Cardinality(Listed(t))' = Cardinality(Listed(t)) + d
      BY <2>1 DEF RowsShift
    <3>6. n + d \in Nat /\ Len(tab.rows) \in Nat
      BY <1>fields
    <3>same. Cardinality(Listed(tab.found))' = Cardinality(Listed(t))'
      BY <1>tab, <3>2
    <3>end. tab.next = 0 => n + Len(tab.rows) = Cardinality(Listed(t))
      BY <3>1, <3>2
    <3>7. tab.next = 0 => n + d + Len(tab.rows) = Cardinality(Listed(tab.found))'
      <4> SUFFICES ASSUME tab.next = 0 PROVE n + d + Len(tab.rows) = Cardinality(Listed(tab.found))'
        OBVIOUS
      <4>1. PICK len \in Nat : len = Len(tab.rows)
        BY <3>6
      <4>2. Cardinality(Listed(tab.found))' = n + len + d
        BY <3>5, <3>same, <3>end, <4>1
      <4>3. n + len + d = n + d + len
        OBVIOUS
      <4>4. QED  BY <4>1, <4>2, <4>3
    <3>8. Placed(tab.rows, n + d, Listed(tab.found))'
      BY <1>tab, <3>2, <3>3, <3>4
    <3>9. QED  BY <3>6, <3>7, <3>8
  <2>5. ASSUME NEW l \in Lists PROVE ReadOK(l)'
    <3> DEFINE r == list[l]
    <3> SUFFICES ASSUME r.st = "read", Fresh(r.seen), r.cursor # 0 => r.cursor \in Listed(r.text)'
                 PROVE  \E n \in Nat :
                          /\ Placed(r.rows, n, Listed(r.text))'
                          /\ r.cursor # 0 => n = Place(r.cursor, Listed(r.text))'
                          /\ r.next = 0 => n + Len(r.rows) = Cardinality(Listed(r.text))'
      BY <1>tab, <2>2 DEF ReadOK
    <3>typed. r.rows \in Seq(Nat)
      BY <1>fields
    <3> HIDE DEF r
    <3>tc. PICK t, c : t = r.text /\ c = r.cursor
      OBVIOUS
    <3>rows. PICK rows \in Seq(Nat) : rows = r.rows
      BY <3>typed
    <3>r. t = r.text /\ c = r.cursor /\ rows = r.rows
      BY <3>tc, <3>rows
    <3> USE DEF r
    <3>1. c # 0 => c \in Listed(t) /\ c \in Listed(t)'
      <4>1. c \in Ids \cup {0}
        BY <1>inv, <3>r DEF RequestTyped
      <4>2. c # 0 => c \in Listed(t)'
        BY <1>tab, <3>r
      <4>3. QED  BY <2>1, <4>1, <4>2 DEF RowsShift
    <3>2. PICK n \in Nat : /\ Placed(rows, n, Listed(t))
                           /\ c # 0 => n = Place(c, Listed(t))
                           /\ r.next = 0 => n + Len(rows) = Cardinality(Listed(t))
      BY <1>inv, <3>r, <3>1 DEF ReadOK
    <3>3. Placed(rows, n + d, Listed(t))'
      BY <2>3, <3>2
    <3>4. Cardinality(Listed(t))' = Cardinality(Listed(t)) + d
      BY <2>1 DEF RowsShift
    <3>5. c # 0 => n + d = Place(c, Listed(t))'
      BY <2>1, <3>1, <3>2 DEF RowsShift
    <3>6. n + d \in Nat /\ Len(rows) \in Nat
      OBVIOUS
    <3>7. r.next = 0 => n + d + Len(rows) = Cardinality(Listed(t))'
      BY <3>2, <3>4, <3>6
    <3>8. QED  BY <1>tab, <3>r, <3>3, <3>5, <3>6, <3>7
  <2>6. QED  BY <1>tab, <1>inv, <1>1, <1>2, <1>3, <1>4, <2>4, <2>5 DEF PageInv
<1>7. QED  BY <1>1, <1>5, <1>6


\* The rows shown stay.
LEMMA RowsShown ==
    ASSUME UNCHANGED <<asset, changes>>, TabTyped, TabOK, tab' \in Tab, tab'.page = tab.page,
           tab'.rows = tab.rows, tab'.next = tab.next, tab'.found = tab.found, tab'.seen = tab.seen,
           tab'.whole = tab.whole
    PROVE  TabTyped' /\ TabOK'
<1>1. TabTyped'
  BY PlacesStay DEF TabTyped, Last
<1>2. TabOK'
  BY PlacesStay DEF TabOK
<1>3. QED  BY <1>1, <1>2

\* A request is answered: what the answer holds.
LEMMA PageRead ==
    ASSUME AssetTyped, PageInv, NEW l \in Lists, ListRead(l)
    PROVE  /\ list' \in [Lists -> List] /\ RequestTyped(l)' /\ ReadOK(l)'
           /\ list'[l].kind = list[l].kind /\ list'[l].cursor = list[l].cursor
           /\ \A k \in Lists \ {l} : list'[k] = list[k]
<1>inv. list \in [Lists -> List] /\ RequestTyped(l) /\ list[l].st = "sent" /\ changes \in Nat /\ tab \in Tab
  BY DEF PageInv, TabTyped, AssetTyped, ListRead
<1>q. UNCHANGED <<asset, changes, tab>>
  BY DEF ListRead, assetVars
<1> DEFINE S == Listed(list[l].text)
           c == list[l].cursor
<1>1. PICK n \in Starts(l) :
        list' = [list EXCEPT ![l].st = "read", ![l].rows = Taken(S, n), ![l].seen = changes,
                             ![l].next = IF Len(Taken(S, n)) = PageSize THEN Taken(S, n)[PageSize] ELSE 0]
  BY DEF ListRead
<1>S. /\ S \in SUBSET Ids /\ Cardinality(S) \in Nat /\ Ids \subseteq Nat \ {0} /\ c \in Ids \cup {0}
      /\ PageSize \in Nat \ {0}
  <2>1. S \in SUBSET Ids
    BY ListedRows
  <2>2. Cardinality(S) \in Nat
    BY <2>1, RowsFinite
  <2>3. Ids \subseteq Nat \ {0}
    BY RowsFinite
  <2>4. QED  BY <1>inv, <2>1, <2>2, <2>3, PortalAssumption DEF RequestTyped
<1>2. n \in Nat \ {0}
  <2>1. Cardinality({j \in S : Precedes(j, c)}) \in Nat
    <3>1. {j \in S : Precedes(j, c)} \in SUBSET Ids
      BY <1>S
    <3>2. QED  BY <3>1, RowsFinite
  <2>2. Place(c, S) \in Nat
    BY <2>1 DEF Place
  <2>3. n = 1 \/ n \in 1..Cardinality(S) + 1 \/ n = Place(c, S) + 1
    BY DEF Starts
  <2>4. QED  BY <1>S, <2>2, <2>3
<1>3. /\ c = 0 => n = 1
      /\ c # 0 /\ c \in S => n = Place(c, S) + 1 /\ Place(c, S) \in 1..Cardinality(S)
  <2>1. c = 0 => n = 1
    BY DEF Starts
  <2>2. ASSUME c # 0, c \in S PROVE n = Place(c, S) + 1
    <3>1. tab.page = "library" => asset[c].published # 0
      <4>1. tab.page = "library" => asset[c].published > 0
        BY <2>2 DEF Listed
      <4>2. QED  BY <4>1
    <3>2. QED  BY <2>2, <3>1 DEF Starts
  <2>3. c \in S => Place(c, S) \in 1..Cardinality(S)
    BY <1>S, PlacesOfRows
  <2>4. QED  BY <2>1, <2>2, <2>3
<1> HIDE DEF S, c
<1>4. PICK q \in 0..PageSize :
          /\ Taken(S, n) \in [1..q -> S]
          /\ \A k \in 1..q : Place(Taken(S, n)[k], S) = n + k - 1
          /\ n <= Cardinality(S) + 1 => /\ n + q - 1 <= Cardinality(S)
                                        /\ q < PageSize => n + q - 1 = Cardinality(S)
  BY <1>2, <1>S, TakenRows
<1>5. PICK rows : rows = Taken(S, n)
  OBVIOUS
<1>6. /\ rows \in Seq(Nat) /\ Len(rows) = q /\ q \in Nat /\ q <= PageSize
      /\ \A k \in 1..q : rows[k] \in S /\ rows[k] \in Ids
  <2>1. rows \in [1..q -> S] /\ q \in Nat /\ q <= PageSize
    BY <1>4, <1>5, <1>S
  <2>2. \A k \in 1..q : rows[k] \in S /\ rows[k] \in Ids /\ rows[k] \in Nat
    BY <1>S, <2>1
  <2>3. rows \in [1..q -> Nat]
    BY <2>1, <2>2
  <2>4. rows \in Seq(Nat)
    BY <2>1, <2>3, SeqDef
  <2>5. Len(rows) = q
    BY <2>1, <2>3, <2>4, LenProperties
  <2>6. QED  BY <2>1, <2>2, <2>4, <2>5
<1>7. PICK next : next = IF Len(rows) = PageSize THEN rows[PageSize] ELSE 0
  OBVIOUS
<1>8. /\ next \in Ids \cup {0} /\ next \in Nat
      /\ next # 0 => rows # <<>> /\ next = Last(rows)
      /\ next = 0 => q < PageSize
  <2>1. CASE q = PageSize
    <3>1. next = rows[PageSize] /\ PageSize \in 1..q
      BY <1>6, <1>7, <1>S, <2>1
    <3>2. next \in Ids /\ next = Last(rows) /\ next \in Nat \ {0}
      BY <1>6, <1>S, <2>1, <3>1 DEF Last
    <3>3. rows # <<>>
      <4>1. rows = <<>> => Len(rows) = 0
        OBVIOUS
      <4>2. QED  BY <1>6, <1>S, <2>1, <4>1
    <3>4. QED  BY <3>2, <3>3
  <2>2. CASE q # PageSize
    BY <1>6, <1>7, <1>S, <2>2
  <2>3. QED  BY <2>1, <2>2
<1>9. PICK d \in List : d = [list[l] EXCEPT !.st = "read", !.rows = rows, !.seen = changes, !.next = next]
  BY <1>inv, <1>6, <1>8 DEF List
<1>10. /\ d.st = "read" /\ d.kind = list[l].kind /\ d.text = list[l].text /\ d.cursor = c
       /\ d.rows = rows /\ d.seen = changes /\ d.next = next
  BY <1>inv, <1>9 DEF List, c
<1>11. list' = [list EXCEPT ![l] = d]
  BY <1>inv, <1>1, <1>5, <1>7, <1>9
<1>12. list' \in [Lists -> List] /\ list'[l] = d /\ \A k \in Lists \ {l} : list'[k] = list[k]
  BY <1>inv, <1>11
<1>13. Ids' = Ids /\ tab' = tab /\ changes' = changes
  BY <1>q DEF Ids
<1>14. RequestTyped(l)'
  <2>1. tab.page # "watch" /\ (d.kind = "first" => c = 0)
    BY <1>inv, <1>10 DEF RequestTyped, c
  <2>2. \A k \in 1..Len(d.rows) : d.rows[k] \in Ids
    BY <1>6, <1>10
  <2>3. d.seen <= changes
    BY <1>inv, <1>10
  <2>4. QED  BY <1>S, <1>6, <1>8, <1>10, <1>12, <1>13, <2>1, <2>2, <2>3 DEF RequestTyped
<1>15. ReadOK(l)'
  <2>1. S = Listed(d.text)
    BY <1>10 DEF S
  <2>2. Listed(d.text)' = Listed(d.text) /\ Place(d.cursor, Listed(d.text))' = Place(d.cursor, Listed(d.text))
    <3>1. PICK t, i : t = d.text /\ i = d.cursor
      OBVIOUS
    <3>2. PICK ids : ids = Listed(t)
      OBVIOUS
    <3>3. Listed(t)' = Listed(t) /\ Place(i, ids)' = Place(i, ids)
      BY <1>q, PlacesStay
    <3>4. QED  BY <3>1, <3>2, <3>3
  <2>3. ASSUME c # 0 => c \in S
        PROVE  /\ n - 1 \in Nat
               /\ Placed(rows, n - 1, S)
               /\ c # 0 => n - 1 = Place(c, S)
               /\ next = 0 => n - 1 + Len(rows) = Cardinality(S)
    <3>1. n <= Cardinality(S) + 1
      BY <1>S, <1>3, <2>3
    <3>2. n + q - 1 <= Cardinality(S) /\ (q < PageSize => n + q - 1 = Cardinality(S))
      BY <1>4, <3>1
    <3>3. n - 1 + q = n + q - 1 /\ n - 1 \in Nat
      BY <1>2, <1>6
    <3>4. \A k \in 1..Len(rows) : rows[k] \in S /\ Place(rows[k], S) = n - 1 + k
      <4> SUFFICES ASSUME NEW k \in 1..q PROVE rows[k] \in S /\ Place(rows[k], S) = n - 1 + k
        BY <1>6
      <4>1. Place(rows[k], S) = n + k - 1
        BY <1>4, <1>5
      <4>2. n + k - 1 = n - 1 + k
        BY <1>2, <1>6
      <4>3. QED  BY <1>6, <4>1, <4>2
    <3>5. Placed(rows, n - 1, S)
      BY <1>6, <3>2, <3>3, <3>4 DEF Placed
    <3>6. c # 0 => n - 1 = Place(c, S)
      <4> SUFFICES ASSUME c # 0 PROVE n - 1 = Place(c, S)
        OBVIOUS
      <4>1. n = Place(c, S) + 1 /\ Place(c, S) \in 1..Cardinality(S)
        BY <1>3, <2>3
      <4>2. QED  BY <1>S, <4>1
    <3>7. next = 0 => n - 1 + Len(rows) = Cardinality(S)
      BY <1>6, <1>8, <3>2, <3>3
    <3>8. QED  BY <3>3, <3>5, <3>6, <3>7
  <2>4. PICK ids : ids = S
    OBVIOUS
  <2>5. Placed(rows, n - 1, ids)' <=> Placed(rows, n - 1, ids)
    BY <1>q, PlacesStay
  <2>6. Placed(rows, n - 1, Listed(d.text))' <=> Placed(rows, n - 1, S)
    BY <2>1, <2>2, <2>4, <2>5
  <2>7. QED  BY <1>10, <1>12, <2>1, <2>2, <2>3, <2>6 DEF ReadOK
<1>16. QED  BY <1>10, <1>12, <1>14, <1>15 DEF c


\* Requests are made and refused, and text is typed.
LEMMA PageAsk ==
    ASSUME AssetTyped, PageInv, NEW l \in Lists, Refresh(l) \/ Debounce(l) \/ LoadMore(l)
    PROVE  PageInv'
<1>inv. /\ Bounded /\ TabTyped /\ list \in [Lists -> List] /\ MoreOK /\ TabOK
        /\ \A k \in Lists : RequestTyped(k) /\ ReadOK(k)
        /\ tab \in Tab /\ changes \in Nat
  BY DEF PageInv, TabTyped, AssetTyped
<1>fields. /\ tab.page \in Pages /\ tab.rows \in Seq(Nat) /\ tab.next \in Nat /\ tab.loading \in BOOLEAN
           /\ tab.typed \in Texts /\ tab.searched \in Texts /\ tab.found \in Texts /\ tab.seen \in Nat
           /\ tab.whole \in BOOLEAN /\ tab.missed \in BOOLEAN
  BY <1>inv DEF Tab
<1>tab. tab \in Tab
  BY <1>inv
<1>q. UNCHANGED <<asset, changes>>
  BY DEF Refresh, Debounce, LoadMore, assetVars
<1>1. ASSUME NEW kind \in {"first", "more"}, NEW text \in Texts, NEW cursor \in Ids \cup {0}, NEW lists \in [Lists -> List],
             Send(l, kind, text, cursor, lists),
             \A k \in Lists \ {l} : lists[k] = list[k] \/ lists[k] = NoList,
             kind = "first" => cursor = 0, tab.page # "watch",
             tab' \in Tab, tab'.page = tab.page, tab'.rows = tab.rows, tab'.next = tab.next, tab'.found = tab.found,
             tab'.seen = tab.seen, tab'.whole = tab.whole, tab.loading => tab'.loading,
             kind = "more" => ~tab.loading /\ tab'.loading /\ cursor # 0 /\ cursor = tab.next
      PROVE  PageInv'
  <2>0. cursor \in Nat /\ Ids' = Ids
    BY <1>q, <1>1, RowsFinite DEF Ids
  <2>1. PICK d \in List : d = [NoList EXCEPT !.st = "sent", !.kind = kind, !.text = text, !.cursor = cursor]
    BY <2>0, NoRequest DEF List
  <2>2. list' = [lists EXCEPT ![l] = d]
    BY <1>1, <2>1 DEF Send
  <2>3. list' \in [Lists -> List] /\ list'[l] = d /\ \A k \in Lists \ {l} : list'[k] = list[k] \/ list'[k] = NoList
    BY <1>1, <2>2
  <2>4. RequestTyped(l)' /\ ReadOK(l)' /\ list'[l].kind = kind /\ list'[l].cursor = cursor
    <3>1. /\ list'[l] = Request(kind, text, cursor) /\ cursor \in Nat /\ cursor \in Ids' \cup {0} /\ (kind = "first" => cursor = 0)
          /\ tab'.page # "watch" /\ changes' \in Nat
      BY <1>inv, <1>q, <1>1, <2>0, <2>1, <2>3 DEF Request
    <3>2. QED  BY <3>1, RequestMade
  <2>5. ASSUME NEW k \in Lists, k # l
        PROVE  RequestTyped(k)' /\ ReadOK(k)' /\ (More(k)' => More(k) /\ list'[k] = list[k])
    <3>1. CASE list'[k] = list[k]
      BY <1>inv, <1>q, <1>1, <3>1, RequestStays
    <3>2. CASE list'[k] = NoList
      BY <1>inv, <1>q, <3>2, RequestGone
    <3>3. QED  BY <2>3, <2>5, <3>1, <3>2
  <2>6. MoreOK'
    <3>1. CASE kind = "more"
      <4>1. \A k \in Lists : ~More(k)
        BY <1>inv, <1>1, <3>1 DEF MoreOK
      <4>2. \A k \in Lists : More(k)' => k = l
        BY <2>5, <4>1
      <4>3. QED  BY <1>1, <2>4, <3>1, <4>2 DEF MoreOK
    <3>2. CASE kind = "first"
      <4>1. ~More(l)'
        BY <2>4, <3>2 DEF More
      <4>2. \A k \in Lists : More(k)' => More(k) /\ list'[k] = list[k]
        BY <2>5, <4>1
      <4>3. QED  BY <1>inv, <1>1, <4>2 DEF MoreOK
    <3>3. QED  BY <1>1, <3>1, <3>2
  <2>7. TabTyped' /\ TabOK'
    BY <1>inv, <1>q, <1>1, RowsShown
  <2>8. Bounded'
    BY <1>inv, <1>q, <1>1 DEF Bounded
  <2>9. QED  BY <2>3, <2>4, <2>5, <2>6, <2>7, <2>8 DEF PageInv
<1>2. CASE Refresh(l)
  <2>1. tab' = tab /\ Send(l, "first", "", 0, list) /\ tab.page = "assets"
    BY <1>2 DEF Refresh
  <2>2. "" \in Texts
    BY DEF Texts
  <2>3. QED  BY <1>inv, <2>1, <2>2, <1>1
<1>3. CASE Debounce(l)
  <2>1. /\ tab' = [tab EXCEPT !.searched = tab.typed, !.missed = FALSE] /\ tab.page = "library"
        /\ Send(l, "first", tab.typed, 0, Superseded(list))
    BY <1>3 DEF Debounce
  <2>2. PICK missed \in BOOLEAN : missed = FALSE
    OBVIOUS
  <2>3. TabBecomes(tab.rows, tab.next, tab.loading, tab.typed, tab.typed, tab.found, tab.seen, tab.whole, missed)
    BY <1>inv, <1>fields, <2>1, <2>2 DEF Tab, TabBecomes
  <2>4. /\ tab' \in Tab /\ tab'.page = tab.page /\ tab'.rows = tab.rows /\ tab'.next = tab.next
        /\ tab'.found = tab.found /\ tab'.seen = tab.seen /\ tab'.whole = tab.whole /\ tab'.loading = tab.loading
    BY <1>tab, <2>3, TabSet
  <2>5. PICK lists : lists = Superseded(list)
    OBVIOUS
  <2>6. lists \in [Lists -> List] /\ \A k \in Lists \ {l} : lists[k] = list[k] \/ lists[k] = NoList
    BY <1>inv, <2>5, NoRequest DEF Superseded
  <2>7. QED  BY <1>fields, <2>1, <2>4, <2>5, <2>6, <1>1
<1>4. CASE LoadMore(l)
  <2>1. /\ tab' = [tab EXCEPT !.loading = TRUE] /\ tab.next # 0 /\ ~tab.loading
        /\ Send(l, "more", tab.typed, tab.next, list)
    BY <1>4 DEF LoadMore, MayLoadMore
  <2>2. PICK loading \in BOOLEAN : loading = TRUE
    OBVIOUS
  <2>3. TabBecomes(tab.rows, tab.next, loading, tab.typed, tab.searched, tab.found, tab.seen, tab.whole, tab.missed)
    BY <1>inv, <1>fields, <2>1, <2>2 DEF Tab, TabBecomes
  <2>4. /\ tab' \in Tab /\ tab'.page = tab.page /\ tab'.rows = tab.rows /\ tab'.next = tab.next
        /\ tab'.found = tab.found /\ tab'.seen = tab.seen /\ tab'.whole = tab.whole /\ tab'.loading = loading
    BY <1>tab, <2>3, TabSet
  <2>5. tab.page # "watch" /\ tab.next \in Ids \cup {0}
    BY <1>inv, <2>1 DEF TabTyped
  <2>6. QED  BY <1>inv, <1>fields, <2>1, <2>2, <2>4, <2>5, <1>1
<1>5. QED  BY <1>2, <1>3, <1>4

LEMMA PageType == ASSUME AssetTyped, PageInv, NEW text \in Texts, Type(text) PROVE PageInv'
<1>inv. /\ Bounded /\ TabTyped /\ list \in [Lists -> List] /\ MoreOK /\ TabOK
        /\ \A k \in Lists : RequestTyped(k) /\ ReadOK(k)
        /\ tab \in Tab
  BY DEF PageInv, TabTyped
<1>fields. /\ tab.page \in Pages /\ tab.rows \in Seq(Nat) /\ tab.next \in Nat /\ tab.loading \in BOOLEAN
           /\ tab.typed \in Texts /\ tab.searched \in Texts /\ tab.found \in Texts /\ tab.seen \in Nat
           /\ tab.whole \in BOOLEAN /\ tab.missed \in BOOLEAN
  BY <1>inv DEF Tab
<1>tab. tab \in Tab
  BY <1>inv
<1>1. UNCHANGED <<asset, changes, list>> /\ tab' = [tab EXCEPT !.typed = text]
  BY DEF Type, assetVars
<1>2. TabBecomes(tab.rows, tab.next, tab.loading, text, tab.searched, tab.found, tab.seen, tab.whole, tab.missed)
  BY <1>inv, <1>1 DEF Tab, TabBecomes
<1>3. /\ tab' \in Tab /\ tab'.page = tab.page /\ tab'.rows = tab.rows /\ tab'.next = tab.next
      /\ tab'.found = tab.found /\ tab'.seen = tab.seen /\ tab'.whole = tab.whole /\ tab'.loading = tab.loading
  BY <1>tab, <1>2, TabSet
<1>4. TabTyped' /\ TabOK'
  BY <1>inv, <1>1, <1>3, RowsShown
<1>5. \A k \in Lists : RequestTyped(k)' /\ ReadOK(k)' /\ (More(k)' <=> More(k))
  BY <1>inv, <1>1, <1>3, RequestStays
<1>6. MoreOK'
  BY <1>inv, <1>1, <1>3, <1>5 DEF MoreOK
<1>7. Bounded'
  BY <1>inv, <1>1, <1>3 DEF Bounded
<1>8. QED  BY <1>inv, <1>1, <1>4, <1>5, <1>6, <1>7 DEF PageInv


\* A request is over: its answer is shown, or it failed.
LEMMA PageEnd ==
    ASSUME PageInv, UNCHANGED <<asset, changes>>, changes \in Nat, NEW l \in Lists,
           list' = [list EXCEPT ![l] = NoList],
           tab'.page = tab.page, TabTyped', TabOK',
           \A k \in Lists \ {l} : More(k) => tab'.loading /\ (tab'.whole => list[k].cursor = tab'.next)
    PROVE  PageInv'
<1>1. /\ Bounded /\ list \in [Lists -> List] /\ MoreOK
      /\ \A k \in Lists : RequestTyped(k) /\ ReadOK(k)
  BY DEF PageInv
<1>2. list' \in [Lists -> List] /\ list'[l] = NoList /\ \A k \in Lists \ {l} : list'[k] = list[k]
  BY <1>1, NoRequest
<1>3. RequestTyped(l)' /\ ReadOK(l)' /\ ~More(l)'
  BY <1>2, RequestGone
<1>4. \A k \in Lists \ {l} : RequestTyped(k)' /\ ReadOK(k)' /\ (More(k)' <=> More(k))
  BY <1>1, <1>2, RequestStays
<1>5. \A k \in Lists : More(k)' => k # l /\ More(k) /\ list'[k] = list[k]
  BY <1>2, <1>3, <1>4
<1>6. MoreOK'
  BY <1>1, <1>5 DEF MoreOK
<1>7. Bounded'
  BY <1>1 DEF Bounded
<1>8. QED  BY <1>2, <1>3, <1>4, <1>6, <1>7 DEF PageInv

LEMMA PageFirst == ASSUME AssetTyped, PageInv, NEW l \in Lists, ShowFirst(l) PROVE PageInv'
<1>inv. /\ TabTyped /\ list \in [Lists -> List] /\ MoreOK /\ RequestTyped(l) /\ ReadOK(l)
        /\ changes \in Nat
  BY DEF PageInv, AssetTyped
<1>tab. tab \in Tab
  BY <1>inv DEF TabTyped
<1>1. /\ list[l].st = "read" /\ list[l].kind = "first" /\ list' = [list EXCEPT ![l] = NoList]
      /\ UNCHANGED <<asset, changes>>
  BY DEF ShowFirst, assetVars
<1>fields. /\ list[l].rows \in Seq(Nat) /\ list[l].next \in Nat /\ list[l].text \in Texts /\ list[l].seen \in Nat
           /\ tab.loading \in BOOLEAN /\ tab.typed \in Texts /\ tab.searched \in Texts /\ tab.page \in Pages
  BY <1>inv, <1>tab DEF Tab, List
<1>2. PICK rows \in Seq(Nat), next \in Nat, found \in Texts, seen \in Nat :
        rows = list[l].rows /\ next = list[l].next /\ found = list[l].text /\ seen = list[l].seen
  BY <1>fields
<1>3. PICK whole \in BOOLEAN : whole = ~tab.loading
  BY <1>fields
<1>4. PICK missed \in BOOLEAN : missed = FALSE
  OBVIOUS
<1>5. tab' = [tab EXCEPT !.rows = rows, !.next = next, !.found = found, !.seen = seen, !.whole = whole,
                         !.missed = missed]
  BY <1>2, <1>3, <1>4 DEF ShowFirst
<1>6. TabBecomes(rows, next, tab.loading, tab.typed, tab.searched, found, seen, whole, missed)
  BY <1>tab, <1>5 DEF Tab, TabBecomes
<1>7. /\ tab' \in Tab /\ tab'.page = tab.page /\ tab'.rows = rows /\ tab'.next = next /\ tab'.found = found
      /\ tab'.seen = seen /\ tab'.whole = whole /\ tab'.loading = tab.loading
  BY <1>tab, <1>6, TabSet
<1>8. Ids' = Ids /\ changes' = changes
  BY <1>1 DEF Ids
<1>9. TabTyped'
  <2>1. /\ tab.page # "watch" /\ next \in Ids \cup {0} /\ seen <= changes
        /\ next # 0 => rows # <<>> /\ next = Last(rows)
        /\ \A k \in 1..Len(rows) : rows[k] \in Ids
    BY <1>inv, <1>1, <1>2 DEF RequestTyped
  <2>2. QED  BY <1>7, <1>8, <2>1 DEF TabTyped, Last
<1>10. TabOK'
  <2>1. ASSUME Fresh(seen)
        PROVE  \E n \in Nat : /\ Placed(rows, n, Listed(found))
                              /\ next = 0 => n + Len(rows) = Cardinality(Listed(found))
    <3>1. list[l].cursor = 0
      BY <1>inv, <1>1 DEF RequestTyped
    <3>2. QED  BY <1>inv, <1>1, <1>2, <2>1, <3>1 DEF ReadOK
  <2>2. Listed(found)' = Listed(found) /\ (Fresh(seen)' => Fresh(seen))
        /\ \A n : Placed(rows, n, Listed(found))' <=> Placed(rows, n, Listed(found))
    <3>1. PICK ids : ids = Listed(found)
      OBVIOUS
    <3>2. ids = Listed(found)'
      BY <1>1, <1>7, <3>1, PlacesStay
    <3>3. \A n : Placed(rows, n, ids)' <=> Placed(rows, n, ids)
      BY <1>1, <1>7, PlacesStay
    <3>4. Fresh(seen)' => Fresh(seen)
      BY <1>1, <1>7, PlacesStay
    <3>5. QED  BY <3>1, <3>2, <3>3, <3>4
  <2>3. QED  BY <1>7, <2>1, <2>2 DEF TabOK
<1>11. \A k \in Lists \ {l} : More(k) => tab'.loading /\ (tab'.whole => list[k].cursor = tab'.next)
  BY <1>inv, <1>3, <1>7 DEF MoreOK
<1>12. QED  BY <1>inv, <1>1, <1>7, <1>9, <1>10, <1>11, PageEnd

LEMMA PageMore == ASSUME AssetTyped, PageInv, NEW l \in Lists, ShowMore(l) PROVE PageInv'
<1>inv. /\ TabTyped /\ TabOK /\ list \in [Lists -> List] /\ MoreOK /\ RequestTyped(l) /\ ReadOK(l)
        /\ changes \in Nat
  BY DEF PageInv, AssetTyped
<1>tab. tab \in Tab
  BY <1>inv DEF TabTyped
<1>1. /\ list[l].st = "read" /\ list[l].kind = "more" /\ list' = [list EXCEPT ![l] = NoList]
      /\ UNCHANGED <<asset, changes>>
  BY DEF ShowMore, assetVars
<1>fields. /\ list[l].rows \in Seq(Nat) /\ list[l].next \in Nat /\ list[l].text \in Texts /\ list[l].seen \in Nat
           /\ tab.rows \in Seq(Nat) /\ tab.found \in Texts /\ tab.seen \in Nat /\ tab.whole \in BOOLEAN
           /\ tab.missed \in BOOLEAN /\ tab.typed \in Texts /\ tab.searched \in Texts /\ tab.page \in Pages
  BY <1>inv, <1>tab DEF Tab, List
<1>2. PICK a \in Seq(Nat), b \in Seq(Nat), next \in Nat, found \in Texts, seen \in Nat, c \in Nat :
        a = tab.rows /\ b = list[l].rows /\ next = list[l].next /\ found = tab.found /\ seen = tab.seen
        /\ c = list[l].cursor
  BY <1>inv, <1>fields DEF List
<1>3. PICK rows \in Seq(Nat) : rows = a \o b
  BY ConcatProperties
<1>4. (tab.whole /\ (tab.page = "library" => list[l].seen = tab.seen /\ list[l].text = tab.found)) \in BOOLEAN
  OBVIOUS
<1>5. PICK whole \in BOOLEAN :
        whole = (tab.whole /\ (tab.page = "library" => list[l].seen = tab.seen /\ list[l].text = tab.found))
  BY <1>4, Zenon
<1>6. PICK loading \in BOOLEAN : loading = FALSE
  OBVIOUS
<1>7. tab' = [tab EXCEPT !.rows = rows, !.next = next, !.loading = loading, !.whole = whole]
  BY <1>2, <1>3, <1>5, <1>6 DEF ShowMore
<1>8. TabBecomes(rows, next, loading, tab.typed, tab.searched, found, seen, whole, tab.missed)
  BY <1>tab, <1>2, <1>7 DEF Tab, TabBecomes
<1>9. /\ tab' \in Tab /\ tab'.page = tab.page /\ tab'.rows = rows /\ tab'.next = next /\ tab'.found = found
      /\ tab'.seen = seen /\ tab'.whole = whole /\ tab'.loading = loading
  BY <1>tab, <1>8, TabSet
<1>10. Ids' = Ids /\ changes' = changes /\ Ids \subseteq Nat \ {0} /\ Cardinality(Listed(found)) \in Nat
  <2>1. Ids \subseteq Nat \ {0}
    <3>1. {} \in SUBSET Ids
      OBVIOUS
    <3>2. Len(asset) \in Nat /\ Ids = 1..Len(asset)
      BY <3>1, RowsFinite
    <3>3. QED  BY <3>2
  <2>2. Cardinality(Listed(found)) \in Nat
    BY RowsFinite, ListedRows
  <2>3. QED  BY <1>1, <2>1, <2>2 DEF Ids
<1>11. /\ Len(a) \in Nat /\ Len(b) \in Nat /\ Len(rows) = Len(a) + Len(b)
       /\ \A k \in 1..Len(a) : rows[k] = a[k]
       /\ \A k \in 1..Len(b) : rows[Len(a) + k] = b[k]
       /\ b # <<>> => rows # <<>> /\ Len(b) > 0
       /\ a # <<>> => Len(a) > 0
  <2>1. Len(a) \in Nat /\ Len(b) \in Nat /\ Len(rows) = Len(a) + Len(b)
    BY <1>3, ConcatProperties, LenProperties
  <2>2. \A i \in 1..Len(a) + Len(b) : rows[i] = IF i <= Len(a) THEN a[i] ELSE b[i - Len(a)]
    BY <1>3, ConcatProperties
  <2>3. \A k \in 1..Len(a) : rows[k] = a[k]
    BY <2>1, <2>2
  <2>4. ASSUME NEW k \in 1..Len(b) PROVE rows[Len(a) + k] = b[k]
    <3>1. Len(a) + k \in 1..Len(a) + Len(b) /\ ~(Len(a) + k <= Len(a)) /\ Len(a) + k - Len(a) = k
      BY <2>1
    <3>2. QED  BY <2>2, <3>1
  <2>5. (b # <<>> => Len(b) > 0) /\ (a # <<>> => Len(a) > 0)
    BY <2>1, EmptySeq
  <2>6. b # <<>> => rows # <<>>
    <3>1. Len(rows) > 0 => rows # <<>>
      OBVIOUS
    <3>2. QED  BY <2>1, <2>5, <3>1
  <2>7. QED  BY <2>1, <2>3, <2>4, <2>5, <2>6
<1>12. \A k \in 1..Len(rows) : k \in 1..Len(a) \/ \E j \in 1..Len(b) : k = Len(a) + j
  <2> SUFFICES ASSUME NEW k \in 1..Len(rows), k \notin 1..Len(a) PROVE \E j \in 1..Len(b) : k = Len(a) + j
    OBVIOUS
  <2>1. k - Len(a) \in 1..Len(b) /\ k = Len(a) + (k - Len(a))
    BY <1>11
  <2>2. QED  BY <2>1
<1>13. TabTyped'
  <2>1. /\ tab.page # "watch" /\ next \in Ids \cup {0}
        /\ next # 0 => b # <<>> /\ next = Last(b)
        /\ \A k \in 1..Len(b) : b[k] \in Ids
    BY <1>inv, <1>1, <1>2 DEF RequestTyped
  <2>2. seen <= changes /\ \A k \in 1..Len(a) : a[k] \in Ids
    BY <1>inv, <1>2 DEF TabTyped
  <2>3. \A k \in 1..Len(rows) : rows[k] \in Ids
    BY <1>11, <1>12, <2>1, <2>2
  <2>4. ASSUME next # 0 PROVE rows # <<>> /\ next = Last(rows)
    <3>1. b # <<>> /\ next = b[Len(b)] /\ Len(b) \in 1..Len(b)
      BY <1>11, <2>1, <2>4 DEF Last
    <3>2. rows[Len(a) + Len(b)] = b[Len(b)]
      BY <1>11, <3>1
    <3>3. QED  BY <1>11, <3>1, <3>2 DEF Last
  <2>5. QED  BY <1>9, <1>10, <2>1, <2>2, <2>3, <2>4 DEF TabTyped, Last
<1>14. TabOK'
  <2> DEFINE S == Listed(found)
  <2>1. ASSUME whole, Fresh(seen)
        PROVE  \E n \in Nat : /\ Placed(rows, n, S)
                              /\ next = 0 => n + Len(rows) = Cardinality(S)
    <3>1. tab.whole /\ (tab.page = "library" => list[l].seen = seen /\ list[l].text = found)
      BY <1>2, <1>5, <2>1
    <3>2. More(l) /\ c # 0 /\ c = tab.next
      BY <1>inv, <1>1, <1>2, <3>1 DEF MoreOK, More
    <3>3. a # <<>> /\ c = a[Len(a)] /\ Len(a) \in 1..Len(a)
      BY <1>inv, <1>2, <1>11, <3>2 DEF TabTyped, Last
    <3>4. Listed(list[l].text) = S
      <4>1. tab.page = "assets" \/ tab.page = "library"
        BY <1>inv, <1>1, <1>fields DEF RequestTyped, Pages
      <4>2. tab.page = "assets" => Listed(list[l].text) = Ids /\ Listed(found) = Ids
        BY ListedRows
      <4>3. QED  BY <3>1, <4>1, <4>2
    <3>5. Fresh(list[l].seen) /\ Fresh(tab.seen)
      BY <1>2, <2>1, <3>1 DEF Fresh
    <3> HIDE DEF S
    <3>6. PICK n \in Nat : Placed(a, n, S)
      <4>1. S = Listed(tab.found)
        BY <1>2 DEF S
      <4>2. QED  BY <1>inv, <1>2, <3>1, <3>3, <3>5, <4>1 DEF TabOK
    <3>7. c \in S /\ Place(c, S) = n + Len(a)
      BY <3>3, <3>6 DEF Placed
    <3>8. PICK m \in Nat : /\ Placed(b, m, S) /\ m = Place(c, S)
                           /\ next = 0 => m + Len(b) = Cardinality(S)
      BY <1>inv, <1>1, <1>2, <3>2, <3>4, <3>5, <3>7 DEF ReadOK
    <3>9. m = n + Len(a) /\ m + Len(b) <= Cardinality(S) /\ n + Len(rows) = m + Len(b)
      BY <1>11, <3>7, <3>8 DEF Placed
    <3>10. \A k \in 1..Len(rows) : rows[k] \in S /\ Place(rows[k], S) = n + k
      <4>1. \A k \in 1..Len(a) : rows[k] \in S /\ Place(rows[k], S) = n + k
        BY <1>11, <3>6 DEF Placed
      <4>2. \A k \in 1..Len(b) : rows[Len(a) + k] \in S /\ Place(rows[Len(a) + k], S) = n + (Len(a) + k)
        <5> SUFFICES ASSUME NEW k \in 1..Len(b)
                     PROVE  rows[Len(a) + k] \in S /\ Place(rows[Len(a) + k], S) = n + (Len(a) + k)
          OBVIOUS
        <5>1. b[k] \in S /\ Place(b[k], S) = m + k
          BY <3>8 DEF Placed
        <5>2. m + k = n + (Len(a) + k)
          BY <1>11, <3>9
        <5>3. QED  BY <1>11, <5>1, <5>2
      <4>3. QED  BY <1>12, <4>1, <4>2
    <3>11. Placed(rows, n, S)
      BY <3>9, <3>10 DEF Placed
    <3>12. next = 0 => n + Len(rows) = Cardinality(S)
      BY <3>8, <3>9
    <3>13. QED  BY <3>11, <3>12
  <2>2. Listed(found)' = Listed(found) /\ (Fresh(seen)' => Fresh(seen))
        /\ \A n : Placed(rows, n, Listed(found))' <=> Placed(rows, n, Listed(found))
    <3>1. PICK ids : ids = Listed(found)
      OBVIOUS
    <3>2. ids = Listed(found)'
      BY <1>1, <1>9, <3>1, PlacesStay
    <3>3. \A n : Placed(rows, n, ids)' <=> Placed(rows, n, ids)
      BY <1>1, <1>9, PlacesStay
    <3>4. Fresh(seen)' => Fresh(seen)
      BY <1>1, <1>9, PlacesStay
    <3>5. QED  BY <3>1, <3>2, <3>3, <3>4
  <2>3. QED  BY <1>9, <2>1, <2>2 DEF TabOK
<1>15. \A k \in Lists \ {l} : ~More(k)
  BY <1>inv, <1>1 DEF MoreOK, More
<1>16. QED  BY <1>inv, <1>1, <1>9, <1>13, <1>14, <1>15, PageEnd

LEMMA PageFails == ASSUME AssetTyped, PageInv, NEW l \in Lists, ListFails(l) PROVE PageInv'
<1>inv. TabTyped /\ TabOK /\ MoreOK /\ changes \in Nat
  BY DEF PageInv, AssetTyped
<1>tab. tab \in Tab
  BY <1>inv DEF TabTyped
<1>1. list[l].st # "idle" /\ list' = [list EXCEPT ![l] = NoList] /\ UNCHANGED <<asset, changes>>
  BY DEF ListFails, assetVars
<1>fields. tab.loading \in BOOLEAN /\ tab.typed \in Texts /\ tab.searched \in Texts
  BY <1>tab DEF Tab
<1>2. (tab.loading /\ list[l].kind # "more") \in BOOLEAN /\ (tab.missed \/ list[l].kind = "first") \in BOOLEAN
  OBVIOUS
<1>3. PICK loading \in BOOLEAN : loading = (tab.loading /\ list[l].kind # "more")
  BY <1>2, Zenon
<1>4. PICK missed \in BOOLEAN : missed = (tab.missed \/ list[l].kind = "first")
  BY <1>2, Zenon
<1>5. tab' = [tab EXCEPT !.loading = loading, !.missed = missed]
  BY <1>3, <1>4 DEF ListFails
<1>6. TabBecomes(tab.rows, tab.next, loading, tab.typed, tab.searched, tab.found, tab.seen, tab.whole, missed)
  BY <1>tab, <1>5 DEF Tab, TabBecomes
<1>7. /\ tab' \in Tab /\ tab'.page = tab.page /\ tab'.rows = tab.rows /\ tab'.next = tab.next
      /\ tab'.found = tab.found /\ tab'.seen = tab.seen /\ tab'.whole = tab.whole /\ tab'.loading = loading
  BY <1>tab, <1>6, TabSet
<1>8. TabTyped' /\ TabOK'
  BY <1>inv, <1>1, <1>7, RowsShown
<1>9. \A k \in Lists \ {l} : More(k) => tab'.loading /\ (tab'.whole => list[k].cursor = tab'.next)
  <2>1. list[l].kind = "more" => \A k \in Lists \ {l} : ~More(k)
    BY <1>inv, <1>1 DEF MoreOK, More
  <2>2. list[l].kind # "more" => (loading <=> tab.loading)
    BY <1>3, <1>fields
  <2>3. QED  BY <1>inv, <1>7, <2>1, <2>2 DEF MoreOK
<1>10. QED  BY <1>inv, <1>1, <1>7, <1>8, <1>9, PageEnd

LEMMA PageStep == ASSUME AssetTyped, PageInv, [Next]_vars PROVE PageInv'
<1>inv. /\ Bounded /\ TabTyped /\ list \in [Lists -> List] /\ MoreOK /\ TabOK
        /\ \A l \in Lists : RequestTyped(l) /\ ReadOK(l)
  BY DEF PageInv
<1>same. ASSUME UNCHANGED <<asset, changes, tab, list>> PROVE PageInv'
  <2>1. TabTyped' /\ TabOK'
    BY <1>inv, <1>same, RowsShown DEF TabTyped
  <2>2. \A l \in Lists : RequestTyped(l)' /\ ReadOK(l)'
    BY <1>inv, <1>same, RequestStays
  <2>3. MoreOK' /\ Bounded' /\ list' \in [Lists -> List]
    BY <1>inv, <1>same DEF MoreOK, More, Bounded
  <2>4. QED  BY <2>1, <2>2, <2>3 DEF PageInv
<1>1. CASE AssetStep
  BY <1>1, PageAsset
<1>2. ASSUME NEW l \in Lists, ListRead(l) PROVE PageInv'
  <2>1. /\ list' \in [Lists -> List] /\ RequestTyped(l)' /\ ReadOK(l)'
        /\ list'[l].kind = list[l].kind /\ list'[l].cursor = list[l].cursor
        /\ \A k \in Lists \ {l} : list'[k] = list[k]
    BY <1>2, PageRead
  <2>2. UNCHANGED <<asset, changes, tab>> /\ list[l].st = "sent"
    BY <1>2 DEF ListRead, assetVars
  <2>3. TabTyped' /\ TabOK'
    BY <1>inv, <2>2, RowsShown DEF TabTyped
  <2>4. \A k \in Lists \ {l} : RequestTyped(k)' /\ ReadOK(k)' /\ (More(k)' <=> More(k))
    BY <1>inv, <2>1, <2>2, RequestStays
  <2>5. \A k \in Lists : More(k)' => More(k) /\ list'[k].cursor = list[k].cursor
    BY <2>1, <2>2, <2>4 DEF More
  <2>6. MoreOK' /\ Bounded'
    BY <1>inv, <2>2, <2>5 DEF MoreOK, Bounded
  <2>7. QED  BY <2>1, <2>3, <2>4, <2>6 DEF PageInv
<1>3. CASE ListStep
  BY <1>2, <1>3, PageAsk, PageType, PageFirst, PageMore, PageFails DEF ListStep
<1>4. CASE WatchStep
  <2>1. UNCHANGED <<asset, changes, tab, list>>
    BY <1>4 DEF WatchStep, Open, Lookup, LookupFails, Manifest, Fatal, Due, LeaveUnplayed, Play, TimeUpdate,
                Pause, Hide, Leave, ReportLands, ReportFails, assetVars, listVars
  <2>2. QED  BY <1>same, <2>1
<1>5. CASE UNCHANGED vars
  BY <1>5, <1>same DEF vars, assetVars, listVars
<1>6. QED  BY <1>1, <1>3, <1>4, <1>5 DEF Next

\* Whatever is uploaded, registered or published while somebody pages, what he
\* sees is one stretch of the list without a gap (assets.ts and portal.ts hand
\* out the last row as the cursor; loadMore asks for what follows it).
THEOREM ListsAreGapless == Spec => []ListIsGapless
<1>1. ASSUME AssetTyped, PageInv PROVE ListIsGapless
  <2> DEFINE S == Listed(tab.found)
             a == tab.rows
  <2>0. TabTyped /\ TabOK /\ tab.rows \in Seq(Nat) /\ tab.page \in Pages /\ Len(a) \in Nat
    <3>1. TabTyped /\ TabOK
      BY <1>1 DEF PageInv
    <3>2. tab.rows \in Seq(Nat) /\ tab.page \in Pages
      BY <3>1 DEF TabTyped, Tab
    <3>3. QED  BY <3>1, <3>2
  <2> SUFFICES ASSUME tab.whole, a # <<>>, Fresh(tab.seen)
               PROVE  \E n \in 0..Len(InOrder(S)) - Len(a) :
                        /\ a = SubSeq(InOrder(S), n + 1, n + Len(a))
                        /\ tab.next = 0 => n + Len(a) = Len(InOrder(S))
    BY DEF ListIsGapless, Fresh
  <2>1. PICK n \in Nat : /\ Placed(a, n, S)
                         /\ tab.next = 0 => n + Len(a) = Cardinality(S)
    BY <2>0 DEF TabOK
  <2>2. S \in SUBSET Ids /\ Cardinality(S) \in Nat /\ Ids \subseteq Nat
    BY <1>1, RowsFinite, ListedRows
  <2> HIDE DEF S
  <2>3. /\ InOrder(S) \in [1..Cardinality(S) -> S]
        /\ \A i \in S : Place(i, S) \in 1..Cardinality(S) /\ InOrder(S)[Place(i, S)] = i
    BY <1>1, <2>2, InOrderPlaces
  <2>4. PICK s : s = InOrder(S)
    OBVIOUS
  <2>5. s \in Seq(Nat) /\ Len(s) = Cardinality(S)
    <3>1. s \in [1..Cardinality(S) -> Nat]
      BY <2>2, <2>3, <2>4
    <3>2. s \in Seq(Nat)
      BY <2>2, <3>1, SeqDef
    <3>3. QED  BY <2>2, <3>1, <3>2, LenProperties
  <2>6. n + Len(a) <= Len(s) /\ \A k \in 1..Len(a) : a[k] = s[n + k]
    BY <2>1, <2>3, <2>4, <2>5 DEF Placed
  <2>7. a = SubSeq(s, n + 1, n + Len(a))
    <3>1. \A i \in n + 1..n + Len(a) : s[i] \in Nat
      BY <2>0, <2>2, <2>5, <2>6, LenProperties
    <3>2. /\ SubSeq(s, n + 1, n + Len(a)) \in Seq(Nat)
          /\ Len(SubSeq(s, n + 1, n + Len(a))) = IF n + 1 <= n + Len(a) THEN n + Len(a) - (n + 1) + 1 ELSE 0
          /\ \A i \in 1..n + Len(a) - (n + 1) + 1 : SubSeq(s, n + 1, n + Len(a))[i] = s[n + 1 + i - 1]
      <4>1. n + 1 \in Int /\ n + Len(a) \in Int
        BY <2>0
      <4>2. QED  BY <3>1, <4>1, SubSeqProperties
    <3>3. Len(SubSeq(s, n + 1, n + Len(a))) = Len(a)
      BY <2>0, <3>2
    <3>4. \A i \in 1..Len(a) : SubSeq(s, n + 1, n + Len(a))[i] = a[i]
      <4> SUFFICES ASSUME NEW i \in 1..Len(a) PROVE SubSeq(s, n + 1, n + Len(a))[i] = a[i]
        OBVIOUS
      <4>1. i \in 1..n + Len(a) - (n + 1) + 1 /\ n + 1 + i - 1 = n + i
        BY <2>0
      <4>2. QED  BY <2>6, <3>2, <4>1
    <3> HIDE DEF a
    <3>5. PICK b \in Seq(Nat) : b = SubSeq(s, n + 1, n + Len(a))
      BY <3>2
    <3>6. a \in Seq(Nat)
      BY <2>0 DEF a
    <3>7. b = a
      BY <3>3, <3>4, <3>5, <3>6, SeqEqual
    <3>8. QED  BY <3>5, <3>7
  <2>8. n \in 0..Len(s) - Len(a)
    BY <2>0, <2>2, <2>5, <2>6
  <2>9. tab.next = 0 => n + Len(a) = Len(s)
    BY <2>1, <2>5
  <2>10. QED  BY <2>4, <2>7, <2>8, <2>9
<1>2. ClaimInv => AssetTyped
  BY DEF ClaimInv
<1>3. QED  BY <1>1, <1>2, ClaimInit, ClaimStep, PageInit, PageStep, PTL DEF Spec

RacedTyped == raced \subseteq Uploads

LEMMA RacedStep == ASSUME RacedTyped, [Next]_vars PROVE RacedTyped'
<1>0. raced \subseteq Uploads
  BY DEF RacedTyped
<1>1. ASSUME AssetStep PROVE raced' \subseteq Uploads
  <2>1. ASSUME NEW g \in Registers, NEW u \in Uploads, RegisterRead(g, u) PROVE raced' \subseteq Uploads
    BY <1>0, <2>1 DEF RegisterRead
  <2>2. ASSUME NEW g \in Registers, RegisterCreate(g) \/ RegisterFails(g) PROVE raced' = raced
    BY <2>2 DEF RegisterCreate, RegisterFails
  <2>3. ASSUME NEW i \in Ids, NEW published \in BOOLEAN, Publish(i, published) PROVE raced' = raced
    BY <2>3 DEF Publish
  <2>4. QED  BY <1>0, <1>1, <2>1, <2>2, <2>3 DEF AssetStep
<1>2. ASSUME ListStep PROVE raced' = raced
  BY <1>2 DEF ListStep, Type, Refresh, Debounce, LoadMore, ListRead, ShowFirst, ShowMore, ListFails, assetVars
<1>3. ASSUME WatchStep PROVE raced' = raced
  BY <1>3 DEF WatchStep, Open, Lookup, LookupFails, Manifest, Fatal, Due, LeaveUnplayed, Play, TimeUpdate,
              Pause, Hide, Leave, ReportLands, ReportFails, assetVars
<1>4. QED  BY <1>1, <1>2, <1>3 DEF Next, vars, assetVars, RacedTyped

\* Every variable of Portal keeps its type, every row and cursor is an asset,
\* and no answer holds more than a page.
THEOREM PortalTypeCorrect == Spec => []TypeOK
<1>1. ClaimInv /\ WatchInv /\ PageInv /\ RacedTyped => TypeOK
  BY DEF RacedTyped, ClaimInv, AssetTyped, WatchInv, WatchTyped, PageInv, Bounded, TabTyped, RequestTyped, TypeOK
<1>2. ClaimInv => AssetTyped
  BY DEF ClaimInv
<1>3. Init => RacedTyped
  BY DEF Init, RacedTyped
<1>4. QED  BY <1>1, <1>2, <1>3, ClaimInit, ClaimStep, WatchInit, WatchStepOK, PageInit, PageStep, RacedStep, PTL DEF Spec

=============================================================================
