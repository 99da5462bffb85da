------------------------------ MODULE PeerRoom ------------------------------
(***************************************************************************)
(* The room of two browsers over PeerJS (src/hooks/useRoomSync.ts), with   *)
(* the page that mounts it (src/components/watch/WatchRoom.tsx,            *)
(* WatchRoomGate.tsx).  The host claims a peer id made of the room's code  *)
(* at the PeerJS server; the guest dials it; messages go over one reliable *)
(* data channel, which may drop at any time and loses what it still holds. *)
(*                                                                         *)
(* The two browsers are on two devices: the BroadcastChannel between tabs  *)
(* of one browser is left out.  So are the video with its commands and the *)
(* control mode, and the second hello that a timer sends 250 ms after the  *)
(* mount: no channel is open by then.                                      *)
(***************************************************************************)
EXTENDS Naturals, Sequences

CONSTANTS
  A, B,         \* the browser that starts the room, and the one with the invitation
  Film,         \* what the host may show
  NoFilm,       \* no film yet
  Nobody,       \* nobody holds the host's peer id
  Saved,        \* what a device may keep of the expiry of an earlier session
  MaxTries,     \* claimRetries
  MaxChan,      \* bound: messages under way in one direction when a page sends another
  MaxVisits     \* bound: how often a page is opened

ASSUME PeerAssumption ==
  /\ MaxTries \in Nat /\ MaxChan \in Nat /\ MaxVisits \in Nat /\ A # B
  /\ Saved \subseteq {"none", "past", "ahead"}

Browser == {A, B}
Other(b) == IF b = A THEN B ELSE A

Stamp == {"none", "past", "ahead"}   \* settings.expiresAt

VARIABLES
  page,       \* away, in the room, at its end, or over: the gate shows the marker of the end
  role,       \* the page's role, which sessionStorage keeps
  expires,    \* the expiry in the settings of the page, which localStorage keeps between visits
  film,       \* the film of the page
  partner,    \* partnerState with partnerName: named is connected and known, lost is known only
  endedRef, becoming, paired,   \* the refs of these names; becoming stands for its timer too
  peer,       \* the Peer object: claiming stands for dialling at a guest
  tries,      \* claimRetries
  owner,      \* who holds the host's id at the PeerJS server
  link,       \* the data channel: none, up, or closed with its events to come
  up,         \* whose end of it is open
  old,        \* who will still hear that an earlier connection closed
  chan,       \* messages under way to each browser
  alive,      \* the marker rooms/{code}/.alive
  visits      \* pages opened so far

pageVars == <<page, role, expires, film, partner, endedRef, becoming, paired>>
netVars  == <<peer, tries, owner, link, up, old, chan, alive, visits>>
vars     == <<page, role, expires, film, partner, endedRef, becoming, paired,
              peer, tries, owner, link, up, old, chan, alive, visits>>

Plain   == [type : {"hello", "partner_left", "host_transfer", "room_ended"}]
Welcome == [type : {"welcome"}, expires : Stamp, film : Film \cup {NoFilm}]
Changes == [type : {"media_set"}, film : Film] \cup [type : {"settings_changed"}, expires : Stamp]

\* Types; a channel that is not closed still has both ends ahead of it or open.
TypeOK ==
  /\ page \in [Browser -> {"away", "in", "ended", "over"}]
  /\ role \in [Browser -> {"host", "guest"}]
  /\ expires \in [Browser -> Stamp] /\ film \in [Browser -> Film \cup {NoFilm}]
  /\ partner \in [Browser -> {"waiting", "open", "named", "lost"}]
  /\ {endedRef, becoming, paired, up, old} \subseteq [Browser -> BOOLEAN]
  /\ peer \in [Browser -> {"none", "claiming", "open", "refused"}]
  /\ tries \in [Browser -> 0..MaxTries]
  /\ owner \in Browser \cup {Nobody} /\ link \in {"none", "up", "closed"}
  /\ alive \in BOOLEAN /\ visits \in 0..MaxVisits
  /\ chan \in [Browser -> Seq(Plain \cup Welcome \cup Changes)]
  /\ link = "none" => \A b \in Browser : ~up[b]

-----------------------------------------------------------------------------
(* The channel. *)

\* send: what is not sent over an open connection is not sent at all.
Sends(b, msgs) ==
  chan' = IF up[b] /\ link = "up" THEN [chan EXCEPT ![Other(b)] = @ \o msgs] ELSE chan

Room(b) == Len(chan[Other(b)]) < MaxChan
Plainly(t) == <<[type |-> t]>>

\* conn.close and peer.destroy: the other end, if it is open, will hear of it.
Destroys(b, next) ==
  /\ link' = IF link # "none" /\ up[Other(b)] THEN "closed" ELSE "none"
  /\ up' = [up EXCEPT ![b] = FALSE] /\ old' = [old EXCEPT ![b] = FALSE]
  /\ peer' = [peer EXCEPT ![b] = next] /\ tries' = [tries EXCEPT ![b] = 0]

\* Mutant: only a guest that knows its partner inherits.
InheritsKnown(b) == role[b] = "guest" /\ partner[b] = "named"

\* A guest that was paired is to be host when it hears "close", even of its own closing.
Inherits(b) == role[b] = "guest" /\ paired[b]

-----------------------------------------------------------------------------
(* The page. *)

\* A host opens the room, and goes in even if it could not be marked as open; a guest looks for
\* the marker.
MarksRoom == alive' \in {TRUE, alive}
FindsRoom == alive /\ UNCHANGED alive

\* WatchRoomGate and the mount of WatchRoom.  The settings are those of the last session; a host
\* whose settings have no expiry stamps one.
\* The invitation says ?as=guest, whatever sessionStorage says.
Open(b) ==
  /\ page[b] = "away" /\ ~becoming[b] /\ visits < MaxVisits
  /\ visits' = visits + 1
  /\ role' = [role EXCEPT ![b] = IF b = B THEN "guest" ELSE @]
  /\ IF role'[b] = "host" THEN MarksRoom ELSE FindsRoom
  /\ page' = [page EXCEPT ![b] = "in"]
  /\ expires' = [expires EXCEPT ![b] = IF role'[b] = "host" /\ @ = "none" THEN "ahead" ELSE @]
  /\ peer' = [peer EXCEPT ![b] = "claiming"] /\ tries' = [tries EXCEPT ![b] = 0]
  /\ UNCHANGED <<film, partner, endedRef, becoming, paired, owner, link, up, old, chan>>

Mounted(b) == page[b] \in {"in", "ended"}

\* finishSession: this browser is done with the room; a host's purge, if it arrives, takes the
\* marker along.
Finish(b) ==
  /\ page' = [page EXCEPT ![b] = "ended"]
  /\ film' = [film EXCEPT ![b] = NoFilm]
  /\ alive' \in IF role[b] = "host" THEN {alive, FALSE} ELSE {alive}

\* endRoom
EndRoom(b) ==
  /\ page[b] = "in" /\ role[b] = "host" /\ Room(b)
  /\ endedRef' = [endedRef EXCEPT ![b] = TRUE]
  /\ Sends(b, Plainly("room_ended")) /\ Finish(b)
  /\ UNCHANGED <<role, expires, partner, becoming, paired,
                 peer, tries, owner, link, up, old, visits>>

\* The expiry effect: a host ends the room, a guest ends it for itself.
Expire(b) ==
  /\ expires[b] = "past"
  /\ \/ EndRoom(b)
     \/ /\ page[b] = "in" /\ role[b] = "guest" /\ Finish(b)
        /\ UNCHANGED <<role, expires, partner, endedRef, becoming, paired,
                       peer, tries, owner, link, up, old, chan, visits>>

\* Three hours pass.
TimeUp ==
  LET Past(x) == IF x = "ahead" THEN "past" ELSE x IN
  /\ \E b \in Browser : expires[b] = "ahead"
  /\ expires' = [b \in Browser |-> Past(expires[b])]
  /\ UNCHANGED <<page, role, film, partner, endedRef, becoming, paired, netVars>>

\* The state of the page goes with it.
Unmounts(b) ==
  /\ film' = [film EXCEPT ![b] = NoFilm]
  /\ partner' = [partner EXCEPT ![b] = "waiting"]
  /\ endedRef' = [endedRef EXCEPT ![b] = FALSE] /\ paired' = [paired EXCEPT ![b] = FALSE]
  /\ Destroys(b, "none")

\* leaveRoom, or the effect's cleanup when the router takes the page elsewhere.
Leave(b) ==
  /\ Mounted(b)
  /\ page' = [page EXCEPT ![b] = IF @ = "in" THEN "away" ELSE "over"]
  /\ \/ /\ page[b] = "in" /\ role[b] = "host" /\ partner[b] = "named"
        /\ Sends(b, Plainly("host_transfer") \o Plainly("partner_left"))
     \/ ~endedRef[b] /\ Sends(b, Plainly("partner_left"))
     \/ endedRef[b] /\ UNCHANGED chan
  /\ becoming' = [becoming EXCEPT ![b] = @ \/ (up[b] /\ ~endedRef[b] /\ Inherits(b))]
  /\ Unmounts(b)
  /\ UNCHANGED <<role, expires, owner, alive, visits>>

\* The tab is closed or crashes: its timers and its sessionStorage are gone.
CloseTab(b) ==
  /\ Mounted(b) \/ (page[b] = "away" /\ role[b] = "host" /\ alive)
  /\ page' = [page EXCEPT ![b] = IF @ \in {"in", "away"} THEN "away" ELSE "over"]
  /\ role' = [role EXCEPT ![b] = "guest"]
  /\ becoming' = [becoming EXCEPT ![b] = FALSE]
  /\ Unmounts(b)
  /\ UNCHANGED <<expires, owner, chan, alive, visits>>

SetFilm(b, f) ==
  /\ page[b] = "in" /\ role[b] = "host" /\ film[b] # f /\ Room(b)
  /\ film' = [film EXCEPT ![b] = f]
  /\ Sends(b, <<[type |-> "media_set", film |-> f]>>)
  /\ UNCHANGED <<page, role, expires, partner, endedRef, becoming, paired,
                 peer, tries, owner, link, up, old, alive, visits>>

\* setExpirePreset
SetExpire(b, e) ==
  /\ page[b] = "in" /\ role[b] = "host" /\ expires[b] # e /\ Room(b)
  /\ expires' = [expires EXCEPT ![b] = e]
  /\ Sends(b, <<[type |-> "settings_changed", expires |-> e]>>)
  /\ UNCHANGED <<page, role, film, partner, endedRef, becoming, paired,
                 peer, tries, owner, link, up, old, alive, visits>>

-----------------------------------------------------------------------------
(* PeerJS. *)

\* Mutant: one try too many.
ClaimAgain(b) ==
  /\ Mounted(b) /\ role[b] = "host" /\ peer[b] = "claiming"
  /\ \/ /\ owner = Nobody /\ owner' = b
        /\ peer' = [peer EXCEPT ![b] = "open"] /\ tries' = [tries EXCEPT ![b] = 0]
     \/ /\ owner # Nobody /\ tries[b] <= MaxTries
        /\ tries' = [tries EXCEPT ![b] = @ + 1] /\ UNCHANGED <<owner, peer>>
  /\ UNCHANGED <<pageVars, link, up, old, chan, alive, visits>>

\* The server gives a free id; a taken one is asked for again, MaxTries times.
Claim(b) ==
  /\ Mounted(b) /\ role[b] = "host" /\ peer[b] = "claiming"
  /\ \/ /\ owner = Nobody /\ owner' = b
        /\ peer' = [peer EXCEPT ![b] = "open"] /\ tries' = [tries EXCEPT ![b] = 0]
     \/ /\ owner # Nobody /\ tries[b] < MaxTries
        /\ tries' = [tries EXCEPT ![b] = @ + 1] /\ UNCHANGED <<owner, peer>>
     \/ /\ owner # Nobody /\ tries[b] = MaxTries
        /\ peer' = [peer EXCEPT ![b] = "refused"] /\ UNCHANGED <<owner, tries>>
  /\ UNCHANGED <<pageVars, link, up, old, chan, alive, visits>>

\* The id of a peer that is gone is free again, after a while.
Release ==
  /\ owner # Nobody /\ (role[owner] # "host" \/ peer[owner] # "open")
  /\ owner' = Nobody
  /\ UNCHANGED <<pageVars, peer, tries, link, up, old, chan, alive, visits>>

\* A guest's peer opens and dials the host, once; the host may not have heard yet that the
\* connection before this one is closed.
Dial(b) ==
  /\ Mounted(b) /\ role[b] = "guest" /\ peer[b] = "claiming"
  /\ IF owner = Other(b) /\ role[owner] = "host" /\ peer[owner] = "open"
       THEN /\ link' = "up" /\ peer' = [peer EXCEPT ![b] = "open"]
            /\ chan' = [c \in Browser |-> <<>>]
            /\ old' = [old EXCEPT ![Other(b)] = @ \/ up[Other(b)]]
            /\ up' = [c \in Browser |-> FALSE]
       ELSE peer' = [peer EXCEPT ![b] = "refused"] /\ UNCHANGED <<link, chan, up, old>>
  /\ UNCHANGED <<pageVars, tries, owner, alive, visits>>

\* conn.on("open")
ConnOpen(b) ==
  /\ link = "up" /\ ~up[b] /\ Mounted(b)
  /\ up' = [up EXCEPT ![b] = TRUE]
  /\ partner' = [partner EXCEPT ![b] = IF @ \in {"named", "lost"} THEN "named" ELSE "open"]
  /\ paired' = [paired EXCEPT ![b] = TRUE]
  /\ chan' = [chan EXCEPT ![Other(b)] = Append(@, [type |-> "hello"])]
  /\ UNCHANGED <<page, role, expires, film, endedRef, becoming,
                 peer, tries, owner, link, old, alive, visits>>

\* The network fails between two browsers that stay where they are.
Drop ==
  /\ link = "up"
  /\ link' = IF \E b \in Browser : up[b] THEN "closed" ELSE "none"
  /\ UNCHANGED <<pageVars, peer, tries, owner, up, old, chan, alive, visits>>

\* Mutant: the listener forgets to ask whether the room has ended.
HearsAnyClose(b) ==
  IF becoming[b] THEN UNCHANGED <<partner, becoming>>
  ELSE /\ becoming' = [becoming EXCEPT ![b] = Inherits(b)]
       /\ partner' = [partner EXCEPT ![b] = "waiting"]

\* conn.on("close"): an heir waits for a timer to tell the page; what the channel held is lost.
HearsClose(b) ==
  IF endedRef[b] \/ becoming[b] THEN UNCHANGED <<partner, becoming>>
  ELSE /\ becoming' = [becoming EXCEPT ![b] = Inherits(b)]
       /\ partner' = [partner EXCEPT ![b] =
             IF role[b] = "guest" THEN "waiting" ELSE IF @ = "named" THEN "lost" ELSE @]

ConnClose(b) ==
  /\ Mounted(b) /\ HearsClose(b)
  /\ \/ /\ link = "closed" /\ up[b]
        /\ up' = [up EXCEPT ![b] = FALSE]
        /\ link' = IF up[Other(b)] THEN "closed" ELSE "none"
        /\ chan' = [chan EXCEPT ![b] = <<>>]
        /\ UNCHANGED old
     \/ old[b] /\ old' = [old EXCEPT ![b] = FALSE] /\ UNCHANGED <<up, link, chan>>
  /\ UNCHANGED <<page, role, expires, film, endedRef, paired, peer, tries, owner, alive, visits>>

\* onBecomeHost: the role changes, here and in sessionStorage, and with it the effect drops its
\* peer and claims the id; a host without an expiry stamps one.  The timer outlives the page.
BecomeHost(b) ==
  /\ becoming[b]
  /\ becoming' = [becoming EXCEPT ![b] = FALSE]
  /\ role' = [role EXCEPT ![b] = "host"]
  /\ IF Mounted(b)
       THEN /\ expires' = [expires EXCEPT ![b] =
                             IF @ = "none" /\ page[b] = "in" THEN "ahead" ELSE @]
            /\ Destroys(b, "claiming")
       ELSE UNCHANGED <<expires, link, up, old, peer, tries>>
  /\ UNCHANGED <<page, film, partner, endedRef, paired, owner, chan, alive, visits>>

-----------------------------------------------------------------------------
(* onMessage. *)

Takes(b, t) == up[b] /\ Mounted(b) /\ chan[b] # <<>> /\ Head(chan[b]).type = t
Taken(b) == chan' = [chan EXCEPT ![b] = Tail(@)]
netRest == <<peer, tries, owner, link, up, old>>

\* Mutant: the answer carries the film of the render that wired the connection.
OnHelloStale(b) ==
  /\ Takes(b, "hello")
  /\ partner' = [partner EXCEPT ![b] = "named"]
  /\ chan' = [chan EXCEPT ![b] = Tail(@),
        ![Other(b)] = Append(@, [type |-> "welcome", expires |-> expires[b], film |-> NoFilm])]
  /\ UNCHANGED <<page, role, expires, film, endedRef, becoming, paired, netRest, alive, visits>>

\* A hello is answered with a welcome, by the host and by the guest alike.
OnHello(b) ==
  /\ Takes(b, "hello")
  /\ partner' = [partner EXCEPT ![b] = "named"]
  /\ chan' = [chan EXCEPT ![b] = Tail(@),
        ![Other(b)] = IF link = "up"
           THEN Append(@, [type |-> "welcome", expires |-> expires[b], film |-> film[b]]) ELSE @]
  /\ UNCHANGED <<page, role, expires, film, endedRef, becoming, paired, netRest, alive, visits>>

\* A welcome is believed, by the host and by the guest alike.
OnWelcome(b) ==
  LET msg == Head(chan[b]) IN
  /\ Takes(b, "welcome") /\ Taken(b)
  /\ partner' = [partner EXCEPT ![b] = "named"]
  /\ expires' = [expires EXCEPT ![b] = msg.expires]
  /\ film' = [film EXCEPT ![b] = IF msg.film = NoFilm THEN @ ELSE msg.film]
  /\ UNCHANGED <<page, role, endedRef, becoming, paired, netRest, alive, visits>>

OnPartnerLeft(b) ==
  /\ Takes(b, "partner_left") /\ Taken(b)
  /\ partner' = [partner EXCEPT ![b] = "waiting"]
  /\ UNCHANGED <<page, role, expires, film, endedRef, becoming, paired, netRest, alive, visits>>

OnHostTransfer(b) ==
  /\ Takes(b, "host_transfer") /\ Taken(b)
  /\ becoming' = [becoming EXCEPT ![b] = TRUE]
  /\ partner' = [partner EXCEPT ![b] = "waiting"]
  /\ UNCHANGED <<page, role, expires, film, endedRef, paired, netRest, alive, visits>>

OnMediaSet(b) ==
  /\ Takes(b, "media_set") /\ Taken(b)
  /\ film' = [film EXCEPT ![b] = Head(chan[b]).film]
  /\ UNCHANGED <<page, role, expires, partner, endedRef, becoming, paired, netRest, alive, visits>>

\* settings_changed, and session_expire_at before it
OnSettings(b) ==
  /\ Takes(b, "settings_changed") /\ Taken(b)
  /\ expires' = [expires EXCEPT ![b] = Head(chan[b]).expires]
  /\ UNCHANGED <<page, role, film, partner, endedRef, becoming, paired, netRest, alive, visits>>

OnRoomEnded(b) ==
  /\ Takes(b, "room_ended") /\ Taken(b)
  /\ endedRef' = [endedRef EXCEPT ![b] = TRUE]
  /\ IF endedRef[b] THEN UNCHANGED <<page, film, alive>> ELSE Finish(b)
  /\ UNCHANGED <<role, expires, partner, becoming, paired, netRest, visits>>

Hears(b) ==
  \/ OnHello(b) \/ OnWelcome(b) \/ OnPartnerLeft(b) \/ OnHostTransfer(b)
  \/ OnMediaSet(b) \/ OnSettings(b) \/ OnRoomEnded(b)

-----------------------------------------------------------------------------
\* A device keeps the settings of its last session, if it had one.
Init ==
  /\ page = [b \in Browser |-> "away"]
  /\ role = [b \in Browser |-> IF b = A THEN "host" ELSE "guest"]
  /\ expires \in [Browser -> Saved]
  /\ film = [b \in Browser |-> NoFilm]
  /\ partner = [b \in Browser |-> "waiting"]
  /\ endedRef = [b \in Browser |-> FALSE] /\ becoming = endedRef /\ paired = endedRef
  /\ peer = [b \in Browser |-> "none"] /\ tries = [b \in Browser |-> 0]
  /\ owner = Nobody /\ link = "none" /\ up = endedRef /\ old = endedRef
  /\ chan = [b \in Browser |-> <<>>] /\ alive = FALSE /\ visits = 0

Next ==
  \/ TimeUp \/ Release \/ Drop
  \/ \E b \in Browser :
       \/ Open(b) \/ EndRoom(b) \/ Expire(b) \/ Leave(b) \/ CloseTab(b)
       \/ \E f \in Film : SetFilm(b, f)
       \/ \E e \in {"none", "ahead"} : SetExpire(b, e)
       \/ Claim(b) \/ Dial(b) \/ ConnOpen(b) \/ ConnClose(b) \/ BecomeHost(b) \/ Hears(b)

\* Listeners and timers run, sooner or later; what a user or the network does need not happen.
Fairness == \A b \in Browser : WF_vars(ConnClose(b)) /\ WF_vars(BecomeHost(b))

Spec == Init /\ [][Next]_vars /\ Fairness

-----------------------------------------------------------------------------
\* Once both have greeted and nothing is under way, the guest shows the film of its host,
\* however the hellos, the welcomes and a change of film were ordered.
AtRest == link = "up" /\ \A b \in Browser : up[b] /\ page[b] = "in" /\ chan[b] = <<>>
SameFilm ==
  AtRest => \A b \in Browser : role[b] = "host" /\ film[b] # NoFilm => film[Other(b)] = film[b]

\* A browser that has heard that the room ended does not become its host when the host goes.
NoHeirOfAnEndedRoom ==
  [][\A b \in Browser : endedRef[b] /\ ~becoming[b] => ~becoming'[b]]_vars

\* A guest that was paired with a host that is gone becomes the host itself, unless it goes too
\* or somebody comes back ("the room stays active").
Orphan(b) == page[b] = "in" /\ role[b] = "guest" /\ paired[b] /\ page[Other(b)] = "away"
SeatInherited == \A b \in Browser : Orphan(b) ~> ~Orphan(b)

=============================================================================
