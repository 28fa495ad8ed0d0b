------------------------------ MODULE WebPage ------------------------------
(***************************************************************************)
(* The web page's hold on a device: bliti-web/app/src/App.jsx, and the     *)
(* feed of client.js.                                                      *)
(*                                                                         *)
(* The page connects through the chooser, and reaches a device again on    *)
(* its own when it goes away to restart or drops while the page is hidden. *)
(* Each attempt is an object of its own, here a number, so that one        *)
(* overtaken is told apart.  `reach` is where the loop of the attempt held *)
(* is; a loop overtaken ends at its next look, and only its open is kept.  *)
(* `stray` is history: a loop went on for a device the page said was lost. *)
(***************************************************************************)
EXTENDS WebLink

CONSTANTS
    MaxLosses,   \* bound: connections lost, and channels ended under one
    MaxHides     \* bound: times the page is hidden

VARIABLES link, page, owner, feed, hidden, losses, hides

pageVars == <<link, page, owner, feed, hidden, losses, hides>>

Nobody == [kind |-> "none", id |-> 0]
NoFeed == [held |-> "none", resuming |-> 0, cancelled |-> FALSE, coming |-> FALSE, open |-> {}]

PageInit ==
    /\ link = createLink
    /\ page = [phase |-> "none", attempt |-> 0, connected |-> FALSE, going |-> "none", away |-> "none",
               returning |-> 0, kind |-> "none", reach |-> "none", holding |-> FALSE, fresh |-> FALSE, made |-> 0,
               stray |-> FALSE]
    /\ owner = [n \in OpenIds |-> Nobody]
    /\ feed = NoFeed /\ hidden = FALSE /\ losses = 0 /\ hides = 0
-----------------------------------------------------------------------------
(* The feed: what is delivering it, and a resume in flight. `coming` is    *)
(* the feed the device pushes, until the channel accepts it; `open` is     *)
(* what the device is sending.                                             *)
pauseFeed(f) ==
    [f EXCEPT !.cancelled = @ \/ f.resuming # 0, !.held = "none", !.open = @ \ {f.held}]
resumeFeed(f) ==
    IF f.held # "none" \/ f.resuming # 0 \/ link.channel = 0 THEN f
    ELSE [f EXCEPT !.resuming = link.channel, !.cancelled = FALSE]
Pushed(f) == [f EXCEPT !.held = "pushed", !.coming = TRUE, !.open = {}]

(* A resume answered: it is what delivers the feed, unless it was declined *)
(* meanwhile. One that fails throws, and is still taken to be in flight.   *)
Resumed ==
    /\ feed.resuming # 0 /\ link.up /\ feed.resuming = link.channel
    /\ feed' = IF feed.cancelled THEN [feed EXCEPT !.resuming = 0]
               ELSE [feed EXCEPT !.resuming = 0, !.held = "resumed", !.open = @ \cup {"resumed"}]
    /\ UNCHANGED <<link, page, owner, hidden, losses, hides>>

PushArrives ==
    /\ feed.coming /\ link.up
    /\ feed' = [feed EXCEPT !.coming = FALSE, !.open = @ \cup {"pushed"}]
    /\ UNCHANGED <<link, page, owner, hidden, losses, hides>>
-----------------------------------------------------------------------------
(* reachAgain, as the attempt held: after a wait, or at once. *)
Reaches(p, kind, first) ==
    [p EXCEPT !.made = @ + 1, !.returning = p.made + 1, !.kind = kind, !.reach = first]
comeBack(p) == Reaches(p, "restart", "first")
reconnectAway(p) == [Reaches(p, "away", "first") EXCEPT !.away = "reconnecting"]

letGo(p) == [p EXCEPT !.away = "none"]
endGoing(p) ==
    [letGo(p) EXCEPT !.returning = 0, !.reach = "none", !.holding = FALSE, !.going = "none",
                     !.connected = FALSE, !.phase = "none"]

(* What the page does of a channel closing. One lost while hidden, or just *)
(* after, is reached again once the page is shown.                         *)
closed(p) ==
    LET q == [p EXCEPT !.connected = FALSE, !.phase = "none"]
    IN CASE p.going = "power-off" -> [q EXCEPT !.holding = TRUE]
         [] p.going = "restart" -> comeBack(q)
         [] p.going = "none" /\ hidden -> [q EXCEPT !.away = "hidden"]
         [] p.going = "none" /\ ~hidden /\ p.fresh -> reconnectAway(q)
         [] OTHER -> [letGo(q) EXCEPT !.stray = @ \/ p.reach # "none"]

(* The page left by a channel closing, and its feed with the channel. *)
Told(p, told) == IF told THEN closed(p) ELSE p
FeedOf(p, f) == IF p.connected THEN f ELSE [pauseFeed(f) EXCEPT !.coming = FALSE, !.open = {}]
-----------------------------------------------------------------------------
(* connect: the chooser, then an open. *)
Finding == page.phase = "none" /\ ~page.connected /\ page.going = "none" /\ page.away = "none"
Connect ==
    /\ Finding /\ CanOpen(link)
    /\ page' = [page EXCEPT !.phase = "choosing", !.made = @ + 1, !.attempt = page.made + 1]
    /\ UNCHANGED <<link, owner, feed, hidden, losses, hides>>

(* The chooser closing: on nothing, on a device that is not the code's, or *)
(* on the device. The page stays behind it meanwhile.                      *)
Picks(what) ==
    /\ page.phase = "choosing"
    /\ \/ /\ what = "device" /\ CanOpen(link)
          /\ link' = OpenBegins([link EXCEPT !.device = TRUE])
          /\ owner' = [owner EXCEPT ![link'.generation] = [kind |-> "connect", id |-> page.attempt]]
          /\ page' = [page EXCEPT !.phase = "connecting"]
       \/ /\ what = "none"
          /\ link' = letGoOf(link)
          /\ page' = [page EXCEPT !.phase = "none", !.attempt = 0]
          /\ UNCHANGED owner
    /\ UNCHANGED <<feed, hidden, losses, hides>>

cancelConnect ==
    /\ page.phase = "connecting"
    /\ page' = [page EXCEPT !.attempt = 0, !.phase = "none"]
    /\ link' = letGoOf(link)
    /\ feed' = [feed EXCEPT !.held = "none"]
    /\ UNCHANGED <<owner, hidden, losses, hides>>

disconnect ==
    /\ page.connected \/ page.going # "none" \/ page.away # "none"
    /\ page' = endGoing(page)
    /\ link' = letGoOf(link)
    /\ feed' = FeedOf(page', [feed EXCEPT !.held = "none"])
    /\ UNCHANGED <<owner, hidden, losses, hides>>

(* One attempt of reachAgain's loop, or the end of it: no device to go     *)
(* back to, or the time up.                                                *)
Tries ==
    /\ page.reach \in {"first", "again"} /\ link.device /\ CanOpen(link)
    /\ link' = OpenBegins(link)
    /\ owner' = [owner EXCEPT ![link'.generation] = [kind |-> page.kind, id |-> page.returning]]
    /\ page' = [page EXCEPT !.reach = "open"]
    /\ UNCHANGED <<feed, hidden, losses, hides>>
GivesUp ==
    /\ page.reach = "again" \/ (page.reach = "first" /\ ~link.device)
    /\ page' = IF page.kind = "restart" THEN endGoing(page) ELSE [letGo(page) EXCEPT !.reach = "none"]
    /\ link' = letGoOf(link)
    /\ UNCHANGED <<owner, feed, hidden, losses, hides>>

(* How the attempt that began an open takes its end. *)
TakesOpened(p, o) ==
    CASE o.kind = "connect" /\ p.attempt = o.id -> [p EXCEPT !.attempt = 0, !.phase = "none", !.connected = TRUE]
      [] o.kind = "restart" /\ p.returning = o.id ->
            [p EXCEPT !.returning = 0, !.reach = "none", !.going = "none", !.connected = TRUE]
      [] o.kind = "away" /\ p.returning = o.id ->
            [p EXCEPT !.returning = 0, !.reach = "none", !.away = "none", !.connected = TRUE]
      [] OTHER -> p
TakesFailed(p, o) ==
    CASE o.kind = "connect" /\ p.attempt = o.id -> [p EXCEPT !.attempt = 0, !.phase = "none"]
      [] o.kind # "connect" /\ p.returning = o.id -> [p EXCEPT !.reach = "again"]
      [] OTHER -> p
(* An attempt at connecting that failed, or was cancelled after its open   *)
(* had come through, lets the device go.                                   *)
LetsGo(p, o, out) ==
    /\ o.kind = "connect"
    /\ IF out = "rejected" THEN p.attempt = o.id ELSE p.attempt = 0

OpenSteps(n) ==
    \E r \in Steps(link, n) :
        LET p == Told(page, r.told)
            q == CASE r.out = "resolved" -> TakesOpened(p, owner[n])
                   [] r.out = "rejected" -> TakesFailed(p, owner[n])
                   [] OTHER -> p
            f == IF r.out = "resolved" THEN Pushed(feed) ELSE FeedOf(p, feed)
        IN /\ page' = q
           /\ link' = IF r.out # "on" /\ LetsGo(p, owner[n], r.out) THEN letGoOf(r.link) ELSE r.link
           /\ feed' = IF q.connected /\ hidden /\ r.out = "resolved" THEN pauseFeed(f)
                      ELSE IF q.connected \/ r.out # "resolved" THEN f ELSE FeedOf(q, f)
           /\ UNCHANGED <<owner, hidden, losses, hides>>

DropEnds(g) ==
    /\ g \in link.stops
    /\ link' = NotificationsOff(link, g)
    /\ UNCHANGED <<page, owner, feed, hidden, losses, hides>>
-----------------------------------------------------------------------------
(* The device gone, or the channel ended on a fault with the connection    *)
(* still up.                                                               *)
Lost(gone) ==
    /\ losses < MaxLosses /\ losses' = losses + 1
    /\ link.up /\ (gone \/ (page.connected /\ link.attached # 0))
    /\ link' = IF gone THEN Down(link) ELSE [link EXCEPT !.attached = 0]
    /\ page' = Told(page, link.attached # 0)
    /\ feed' = FeedOf(page', feed)
    /\ UNCHANGED <<owner, hidden, hides>>

(* The device says it is about to carry out an act. *)
startGoing(act) ==
    /\ page.connected /\ page.going = "none"
    /\ page' = [page EXCEPT !.going = act]
    /\ UNCHANGED <<link, owner, feed, hidden, losses, hides>>
HoldEnds ==
    /\ page.holding
    /\ page' = endGoing(page) /\ link' = letGoOf(link)
    /\ UNCHANGED <<owner, feed, hidden, losses, hides>>

Hide ==
    /\ ~hidden /\ hides < MaxHides
    /\ hidden' = TRUE /\ hides' = hides + 1
    /\ feed' = IF page.connected THEN pauseFeed(feed) ELSE feed
    /\ UNCHANGED <<link, page, owner, losses>>
Show ==
    /\ hidden /\ hidden' = FALSE
    /\ page' = [IF page.away = "hidden" THEN reconnectAway(page) ELSE page EXCEPT !.fresh = TRUE]
    /\ feed' = IF page.connected THEN resumeFeed(feed) ELSE feed
    /\ UNCHANGED <<link, owner, losses, hides>>
GraceEnds ==
    /\ page.fresh /\ page' = [page EXCEPT !.fresh = FALSE]
    /\ UNCHANGED <<link, owner, feed, hidden, losses, hides>>

PageActs ==
    \/ Connect \/ cancelConnect \/ disconnect \/ Tries \/ GivesUp \/ HoldEnds
    \/ \E what \in {"device", "none"} : Picks(what)
    \/ \E n \in OpenIds : OpenSteps(n)
    \/ \E g \in link.stops : DropEnds(g)
    \/ \E gone \in BOOLEAN : Lost(gone)
    \/ \E act \in {"restart", "power-off"} : startGoing(act)
    \/ Hide \/ Show \/ GraceEnds \/ Resumed \/ PushArrives
PageNext == IF Failing(link) = {} THEN PageActs ELSE \E n \in Failing(link) : OpenSteps(n)

PageSpec == PageInit /\ [][PageNext]_pageVars
-----------------------------------------------------------------------------
(* A page that says it is connected hears of its channel closing: the      *)
(* channel is the last one opened, and its listeners are on the device.    *)
ConnectedIsHeard ==
    page.connected => link.attached # 0 /\ link.attached = link.channel /\ link.attached = link.generation

(* A device the page says it is reaching is being reached: by a loop about *)
(* to try, or by an open that is not waiting on a connection gone. One     *)
(* dropped while the page is hidden is reached when it is shown.           *)
ReachingGoesOn ==
    /\ (page.going = "restart" /\ ~page.connected) \/ page.away = "reconnecting" =>
        \/ page.reach \in {"first", "again"}
        \/ \E n \in OpenIds :
            owner[n].id = page.returning /\ owner[n].kind = page.kind /\ link.opens[n] # "none" /\ ~Hung(link, n)
    /\ page.away = "hidden" => hidden
    /\ page.going = "power-off" /\ ~page.connected => page.holding

(* A device the page has let go of is left without a session of the page's *)
(* once its notifications are off, whatever open was in flight.            *)
LetGoIsLetGo == ~link.device /\ link.stops = {} => ~link.session

(* The feed a page asked to resume is not left running once it is hidden.  *)
FeedIsLetGo == page.connected /\ hidden /\ feed.resuming = 0 => "resumed" \notin feed.open

(* The page holds what it says it holds, and nothing it has let go of      *)
(* (App.jsx, reachAgain; link.js, generation and detach).                  *)
LinkIsAsSaid ==
    /\ LetGoIsLetGo
    /\ ~page.stray => ConnectedIsHeard /\ ReachingGoesOn /\ FeedIsLetGo

(* What device-view.md asks: the feed is closed while nobody is looking.   *)
FeedIsDeclined == page.connected /\ hidden /\ feed.resuming = 0 => feed.open = {}
(* What web-app.md asks of a device lost: the operator finds it again. *)
LostStaysLost == ~page.stray
(* What web-app.md asks of cancelling, taken to the connection itself.     *)
NothingIsConnected ==
    ~link.device /\ link.stops = {} /\ (\A n \in OpenIds : link.opens[n] = "none") => ~link.up
=============================================================================
