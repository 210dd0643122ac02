------------------------------- MODULE Portal -------------------------------
(***************************************************************************)
(* Assets and their audience: uploads registered as assets, publishing,    *)
(* the paged lists of the dashboard (apps/web/components/AssetsBoard.tsx)  *)
(* and of the viewer portal (apps/viewer/app/[orgSlug]/page.tsx), and a    *)
(* viewer who watches and comes back (components/Player.tsx), with the     *)
(* gateway's routes/uploads.ts, assets.ts and portal.ts behind them.       *)
(*                                                                         *)
(* One organisation and one browser tab.  Every page is a load of its own, *)
(* so pages share nothing but the tables: a behaviour is about one of      *)
(* them.  An asset's id is its place in the order of creation; time is     *)
(* counted in publish calls.                                               *)
(***************************************************************************)
EXTENDS Naturals, Sequences, FiniteSets

CONSTANTS
    Uploads,     \* keys of tus uploads
    Registers,   \* register calls in flight
    Lists,       \* list requests in flight
    Reports,     \* progress reports in flight
    PageSize,    \* rows of a page
    Matching,    \* assets whose title contains the text one can search for
    MaxPos,      \* length of a video
    MaxAssets,   \* bound on assets, by the page the behaviour is about
    MaxPublish,  \* bound on publish calls, likewise
    None         \* no value

Pages == {"assets", "library", "watch"}
Pos == 0..MaxPos

ASSUME PortalAssumption ==
    /\ PageSize \in Nat \ {0} /\ MaxPos \in Nat
    /\ MaxAssets \in [Pages -> Nat] /\ MaxPublish \in [Pages -> Nat]
    /\ None \notin Uploads \cup Pos

VARIABLES
    asset,     \* Asset table, in the order of creation
    changes,   \* publish calls so far
    register,  \* register calls: the upload each is about to claim
    raced,     \* uploads that two register calls claimed at once
    tab,       \* the list on the page
    list,      \* list requests
    player,    \* watch page and Player
    report,    \* positions on their way to the gateway
    progress,  \* the viewer's WatchProgress row
    left       \* where the viewer left, and whether the row must say so

assetVars == <<asset, changes, register, raced>>
listVars  == <<tab, list>>
watchVars == <<player, report, progress, left>>
vars == <<assetVars, listVars, watchVars>>

-----------------------------------------------------------------------------
(* Types *)

Ids == 1..Len(asset)

Texts == {"", "text"}

Tab == [page     : Pages,
        rows     : Seq(Nat),
        next     : Nat,       \* pageInfo.nextPageToken, 0 for none
        loading  : BOOLEAN,   \* loadingMore
        typed    : Texts,     \* q
        searched : Texts,     \* debouncedQ
        found    : Texts,     \* what rows was searched with
        seen     : Nat,       \* changes when rows was read
        whole    : BOOLEAN,   \* no answer overtook another, nothing was republished in between
        missed   : BOOLEAN]   \* the last search failed

List == [st : {"idle", "sent", "read"}, kind : {"first", "more"}, text : Texts,
         cursor : Nat, rows : Seq(Nat), next : Nat, seen : Nat]
NoList == [st |-> "idle", kind |-> "first", text |-> "", cursor |-> 0, rows |-> <<>>,
           next |-> 0, seen |-> 0]

Player == [phase : {"closed", "lookup", "loading", "playing", "error"},
           start : Pos,       \* startPositionSeconds
           at    : Pos,       \* video.currentTime
           due   : BOOLEAN,   \* no report yet, or the threshold has passed since
           sure  : BOOLEAN]   \* start was read when the row said where the viewer left
NoPlayer == [phase |-> "closed", start |-> 0, at |-> 0, due |-> TRUE, sure |-> FALSE]

TypeOK ==
    /\ raced \subseteq Uploads
    /\ asset \in Seq([upload : Uploads, published : Nat])
    /\ Len(asset) <= MaxAssets[tab.page] /\ changes <= MaxPublish[tab.page]
    /\ register \in [Registers -> Uploads \cup {None}]
    /\ tab \in Tab /\ tab.next \in Ids \cup {0}
    /\ list \in [Lists -> List]
    /\ \A l \in Lists : Len(list[l].rows) <= PageSize
    /\ player \in Player
    /\ report \in [Reports -> Pos \cup {None}]
    /\ progress \in Pos \cup {None}
    /\ left \in [at : Pos, kept : BOOLEAN]

-----------------------------------------------------------------------------
(* Uploads, registration and publishing *)

Registered_Never(u) == FALSE  \* mutant: no look at the table

\* findFirst by sourceStorageKey, which has no unique index.
Registered(u) == \E i \in Ids : asset[i].upload = u

\* HeadObject finds the object and findFirst no asset.  A key whose upload is
\* not complete is refused, and so left out here.
RegisterRead(g, u) ==
    /\ register[g] = None
    /\ ~Registered(u)
    /\ register' = [register EXCEPT ![g] = u]
    /\ raced' = IF \E h \in Registers : register[h] = u THEN raced \cup {u} ELSE raced
    /\ UNCHANGED <<asset, changes, listVars, watchVars>>

RegisterCreate(g) ==
    /\ register[g] # None
    /\ Len(asset) < MaxAssets[tab.page]
    /\ asset' = Append(asset, [upload |-> register[g], published |-> 0])
    /\ register' = [register EXCEPT ![g] = None]
    /\ UNCHANGED <<changes, raced, listVars, watchVars>>

\* create fails, or the gateway goes down.
RegisterFails(g) ==
    /\ register[g] # None
    /\ register' = [register EXCEPT ![g] = None]
    /\ UNCHANGED <<asset, changes, raced, listVars, watchVars>>

\* An editor says what an asset is to be, published or not.  Publishing what is
\* published gives it a new date.  The audit row may fail.
Publish(i, published) ==
    /\ i \in Ids /\ changes < MaxPublish[tab.page]
    /\ changes' = changes + 1
    /\ asset' = [asset EXCEPT ![i].published = IF published THEN changes' ELSE 0]
    /\ UNCHANGED <<register, raced, listVars, watchVars>>

-----------------------------------------------------------------------------
(* Lists, at the gateway *)

\* The rows a list request is about: all, or what is published and matches.
Listed(text) ==
    IF tab.page = "assets" THEN Ids
    ELSE {i \in Ids : asset[i].published > 0 /\ (text = "" \/ i \in Matching)}

\* The newest first, by creation or by publication.
Precedes(i, j) ==
    IF tab.page = "assets" THEN i > j
    ELSE \/ asset[i].published > asset[j].published
         \/ asset[i].published = asset[j].published /\ i > j

InOrder(ids) == CHOOSE s \in [1..Cardinality(ids) -> ids] :
    \A m, n \in DOMAIN s : m < n => Precedes(s[m], s[n])

Place(i, rows) == Cardinality({j \in rows : Precedes(j, i)}) + 1

\* Where Prisma's cursor leaves off: at the row named, as it is now, wherever
\* it has moved, and one row further (skip).  A row without a date compares
\* with nothing, and the rows may start anywhere.
Starts(l) ==
    LET rows == Listed(list[l].text)
        c    == list[l].cursor IN
    IF c = 0 THEN {1}
    ELSE IF tab.page = "library" /\ asset[c].published = 0 THEN 1..Cardinality(rows) + 1
    ELSE {Place(c, rows) + 1}

Taken_OneMore(rows, n) ==  \* mutant: a row too many
    InOrder({i \in rows : Place(i, rows) \in n..n + PageSize})
Taken(rows, n) == InOrder({i \in rows : Place(i, rows) \in n..n + PageSize - 1})

\* findMany; the count beside it is not used to page.
ListRead(l) ==
    /\ list[l].st = "sent"
    /\ \E n \in Starts(l) :
        LET rows == Taken(Listed(list[l].text), n) IN
        list' = [list EXCEPT ![l].st = "read", ![l].rows = rows, ![l].seen = changes,
                             ![l].next = IF Len(rows) = PageSize THEN rows[PageSize] ELSE 0]
    /\ UNCHANGED <<assetVars, tab, watchVars>>

-----------------------------------------------------------------------------
(* Lists, in the browser *)

Send(l, kind, text, cursor, lists) ==
    list' = [lists EXCEPT ![l] = [NoList EXCEPT !.st = "sent", !.kind = kind,
                                                !.text = text, !.cursor = cursor]]

\* AssetsBoard asks again after an upload, a transcode or a publish click.
Refresh(l) ==
    /\ tab.page = "assets" /\ list[l] = NoList
    /\ Send(l, "first", "", 0, list)
    /\ UNCHANGED <<assetVars, tab, watchVars>>

Type(text) ==
    /\ tab.page = "library" /\ tab.typed # text
    /\ tab' = [tab EXCEPT !.typed = text]
    /\ UNCHANGED <<assetVars, list, watchVars>>

Superseded_Kept(lists) == lists  \* mutant: no cancelled flag

\* The effect's cleanup: the answers to earlier searches will be ignored, as
\* if they never came.
Superseded(lists) == [l \in Lists |-> IF lists[l].kind = "first" THEN NoList ELSE lists[l]]

\* The text has not changed for 300 ms.
Debounce(l) ==
    /\ tab.page = "library" /\ tab.searched # tab.typed /\ list[l] = NoList
    /\ tab' = [tab EXCEPT !.searched = tab.typed, !.missed = FALSE]
    /\ Send(l, "first", tab.typed, 0, Superseded(list))
    /\ UNCHANGED <<assetVars, watchVars>>

MayLoadMore_Again == tab.next # 0  \* mutant: loadingMore is not looked at

MayLoadMore == tab.next # 0 /\ ~tab.loading

\* loadMore sends what is typed, which may not be what was searched.
LoadMore(l) ==
    /\ list[l] = NoList /\ MayLoadMore
    /\ Send(l, "more", tab.typed, tab.next, list)
    /\ tab' = [tab EXCEPT !.loading = TRUE]
    /\ UNCHANGED <<assetVars, watchVars>>

ShowFirst(l) ==
    /\ list[l].st = "read" /\ list[l].kind = "first"
    /\ tab' = [tab EXCEPT !.rows = list[l].rows, !.next = list[l].next,
                          !.found = list[l].text, !.seen = list[l].seen,
                          !.whole = ~tab.loading, !.missed = FALSE]
    /\ list' = [list EXCEPT ![l] = NoList]
    /\ UNCHANGED <<assetVars, watchVars>>

ShowMore(l) ==
    /\ list[l].st = "read" /\ list[l].kind = "more"
    /\ tab' = [tab EXCEPT !.rows = @ \o list[l].rows, !.next = list[l].next, !.loading = FALSE,
                   !.whole = @ /\ (tab.page = "library" =>
                       list[l].seen = tab.seen /\ list[l].text = tab.found)]
    /\ list' = [list EXCEPT ![l] = NoList]
    /\ UNCHANGED <<assetVars, watchVars>>

\* No answer, or one that is not ok; a 401 ends the session and the page.
ListFails(l) ==
    /\ list[l].st # "idle"
    /\ tab' = [tab EXCEPT !.loading = @ /\ list[l].kind # "more",
                          !.missed = @ \/ list[l].kind = "first"]
    /\ list' = [list EXCEPT ![l] = NoList]
    /\ UNCHANGED <<assetVars, watchVars>>

-----------------------------------------------------------------------------
(* Watching: progress reports *)

Flying == {report[r] : r \in Reports} \ {None}

ShouldReport_Throttled(forced) == player.due  \* mutant: forced is not looked at

\* shouldReportProgress.
ShouldReport(forced) == forced \/ player.due

\* The row will say where the viewer is, unless this report can be overtaken
\* by another one, or the video has not been moved to its start yet.
Kept(pos) == Flying \subseteq {pos} /\ (Flying # {} => left.kept) /\ player.phase = "playing"

\* reportProgress; p is the player afterwards, pos where the viewer leaves.
ReportOr(r, forced, p, pos) ==
    IF ShouldReport(forced)
    THEN /\ report[r] = None
         /\ report' = [report EXCEPT ![r] = player.at]
         /\ player' = [p EXCEPT !.due = FALSE]
         /\ left' = [at |-> pos, kept |-> Kept(player.at)]
    ELSE player' = p /\ left' = [left EXCEPT !.at = pos] /\ UNCHANGED report

\* The upsert, by the asset's organisation, published or not.  It takes a portal
\* of the gateway's own origin.
ReportLands(r) ==
    /\ report[r] # None
    /\ progress' = report[r]
    /\ report' = [report EXCEPT ![r] = None]
    /\ UNCHANGED <<assetVars, listVars, player, left>>

\* Refused, as every report from another origin is (main.ts:41 allows no PUT),
\* or lost with the page that sent it.
ReportFails(r) ==
    /\ report[r] # None
    /\ report' = [report EXCEPT ![r] = None]
    /\ left' = [left EXCEPT !.kept = FALSE]
    /\ UNCHANGED <<assetVars, listVars, player, progress>>

-----------------------------------------------------------------------------
(* Watching: the page *)

Open ==
    /\ tab.page = "watch" /\ player.phase = "closed"
    /\ player' = [NoPlayer EXCEPT !.phase = "lookup"]
    /\ UNCHANGED <<assetVars, listVars, report, progress, left>>

\* GET /v1/portal/progress; the Player appears once there is an answer.
Lookup ==
    /\ player.phase = "lookup"
    /\ player' = [player EXCEPT !.phase = "loading",
                      !.start = IF progress = None THEN 0 ELSE progress,
                      !.sure = left.kept /\ Flying = {}]
    /\ UNCHANGED <<assetVars, listVars, report, progress, left>>

\* "Play from the start".
LookupFails ==
    /\ player.phase = "lookup"
    /\ player' = [player EXCEPT !.phase = "loading"]
    /\ UNCHANGED <<assetVars, listVars, report, progress, left>>

\* requirePublishedJob lets the playlist of a published video through.
Playable == \E i \in Ids : asset[i].published > 0

\* The playlist is there, and the video is moved to its start.
Manifest ==
    /\ player.phase = "loading" /\ Playable
    /\ player' = [player EXCEPT !.phase = "playing", !.at = player.start]
    /\ UNCHANGED <<assetVars, listVars, report, progress, left>>

\* A fatal error, of the playlist (404 when it is not published) or later:
\* the video element goes, and with it what was not reported; so does a page
\* that is killed without a pagehide.
Fatal ==
    /\ player.phase \in {"loading", "playing"}
    /\ player' = [player EXCEPT !.phase = "error"]
    /\ left' = IF player.phase = "playing" THEN [at |-> player.at, kept |-> FALSE] ELSE left
    /\ UNCHANGED <<assetVars, listVars, report, progress>>

\* Playback or a seek, and the timeupdate event after it.
Play(pos) ==
    /\ player.phase = "playing" /\ pos # player.at
    /\ player' = [player EXCEPT !.at = pos]
    /\ UNCHANGED <<assetVars, listVars, report, progress, left>>

TimeUpdate(r) ==
    /\ player.phase = "playing" /\ player.due
    /\ ReportOr(r, FALSE, player, player.at)
    /\ UNCHANGED <<assetVars, listVars, progress>>

\* Ten seconds since the last report.
Due ==
    /\ player.phase \in {"loading", "playing"} /\ ~player.due
    /\ player' = [player EXCEPT !.due = TRUE]
    /\ UNCHANGED <<assetVars, listVars, report, progress, left>>

Pause(r) ==
    /\ player.phase = "playing"
    /\ ReportOr(r, TRUE, player, player.at)
    /\ UNCHANGED <<assetVars, listVars, progress>>

\* visibilitychange: the position of a video still loading is 0.
Hide(r) ==
    /\ player.phase \in {"loading", "playing"}
    /\ ReportOr(r, TRUE, player, IF player.phase = "playing" THEN player.at ELSE left.at)
    /\ UNCHANGED <<assetVars, listVars, progress>>

\* pagehide, with a video or without one.
Leave(r) ==
    /\ player.phase \in {"loading", "playing"}
    /\ ReportOr(r, TRUE, NoPlayer, IF player.phase = "playing" THEN player.at ELSE left.at)
    /\ UNCHANGED <<assetVars, listVars, progress>>

LeaveUnplayed ==
    /\ player.phase \in {"lookup", "error"}
    /\ player' = NoPlayer
    /\ UNCHANGED <<assetVars, listVars, report, progress, left>>

-----------------------------------------------------------------------------
(* Specification *)

\* A page opens before there is anything; a list page asks for its first rows.
Init ==
    /\ asset = <<>> /\ changes = 0
    /\ register = [g \in Registers |-> None] /\ raced = {}
    /\ tab \in {[page |-> p, rows |-> <<>>, next |-> 0, loading |-> FALSE, typed |-> "",
                 searched |-> "", found |-> "", seen |-> 0, whole |-> TRUE,
                 missed |-> FALSE] : p \in Pages}
    /\ list \in {[k \in Lists |-> IF k = l /\ tab.page # "watch" THEN [NoList EXCEPT !.st = "sent"]
                                  ELSE NoList] : l \in Lists}
    /\ player = NoPlayer
    /\ report = [r \in Reports |-> None]
    /\ progress = None
    /\ left = [at |-> 0, kept |-> TRUE]

AssetStep ==
    \/ \E u \in Uploads, g \in Registers : RegisterRead(g, u)
    \/ \E g \in Registers : RegisterCreate(g) \/ RegisterFails(g)
    \/ \E i \in Ids, published \in BOOLEAN : Publish(i, published)

ListStep ==
    \/ \E text \in Texts : Type(text)
    \/ \E l \in Lists :
        \/ Refresh(l) \/ Debounce(l) \/ LoadMore(l)
        \/ ListRead(l) \/ ShowFirst(l) \/ ShowMore(l) \/ ListFails(l)

WatchStep ==
    \/ Open \/ Lookup \/ LookupFails \/ Manifest \/ Fatal \/ Due \/ LeaveUnplayed
    \/ \E pos \in Pos : Play(pos)
    \/ \E r \in Reports :
        \/ TimeUpdate(r) \/ Pause(r) \/ Hide(r) \/ Leave(r)
        \/ ReportLands(r) \/ ReportFails(r)

Next == AssetStep \/ ListStep \/ WatchStep

Spec == Init /\ [][Next]_vars

-----------------------------------------------------------------------------
(* Safety *)

\* "The upload key is a one-time claim ticket" (e2e/tests/api/uploads.spec.ts:22):
\* only register calls that overlap make two assets of one upload.
OneAssetPerUpload ==
    \A u \in Uploads \ raced : Cardinality({i \in Ids : asset[i].upload = u}) <= 1

\* "The cursor is stable" (assets.ts:15-17): whatever is uploaded or registered
\* while somebody pages, the list repeats nothing, leaves nothing out and ends
\* with the oldest row, as long as no refresh is answered while loadMore waits
\* and, in the library, nothing is published and no other text typed between
\* two pages.
ListIsGapless ==
    LET rows == InOrder(Listed(tab.found)) IN
    tab.whole /\ tab.rows # <<>> /\ (tab.page = "library" => tab.seen = changes) =>
        \E n \in 0..Len(rows) - Len(tab.rows) :
            /\ tab.rows = SubSeq(rows, n + 1, n + Len(tab.rows))
            /\ tab.next = 0 => n + Len(tab.rows) = Len(rows)

\* The first page of the library is that of the search made last, in whatever
\* order the answers come, once they have come: only a failed request leaves an
\* older one.  What loadMore appends to it is not looked at here.
SearchIsLatest ==
    (\A l \in Lists : list[l].st = "idle") /\ ~tab.missed => tab.found = tab.searched

\* Between the reports of a visit and the lookup of the next (Player.tsx, the
\* watch page): a viewer who comes back starts where he left, unless a report
\* was refused or lost, was still on its way or could be overtaken by another
\* one, or the page was hidden before the video had moved to its start.  Of a
\* portal on an origin of its own, which lib/progress.ts:9-11 promises the same,
\* this says nothing: there every report is refused.
ResumesWhereLeft == player.phase = "loading" /\ player.sure => player.start = left.at

=============================================================================
