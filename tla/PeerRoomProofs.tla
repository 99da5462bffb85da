--------------------------- MODULE PeerRoomProofs ---------------------------
(***************************************************************************)
(* Theorems about PeerRoom, for any films, any bounds, and whatever the    *)
(* two devices remember of an earlier session.                             *)
(***************************************************************************)
EXTENDS PeerRoom, TLAPS

Message == Plain \cup Welcome \cup Changes

LEMMA Others ==
  ASSUME PeerAssumption, NEW b \in Browser
  PROVE  /\ Other(b) \in Browser /\ Other(b) # b /\ Other(Other(b)) = b
         /\ \A c \in Browser : c = b \/ c = Other(b)
BY DEF PeerAssumption, Browser, Other

\* TypeOK, a variable at a time.
Types ==
  /\ page \in [Browser -> {"away", "in", "ended", "over"}]
  /\ role \in [Browser -> {"host", "guest"}]
  /\ expires \in [Browser -> Stamp] /\ film \in [Browser -> Film \cup {NoFilm}]
  /\ partner \in [Browser -> {"waiting", "open", "named", "lost"}]
  /\ endedRef \in [Browser -> BOOLEAN] /\ becoming \in [Browser -> BOOLEAN]
  /\ paired \in [Browser -> BOOLEAN] /\ up \in [Browser -> BOOLEAN] /\ old \in [Browser -> BOOLEAN]
  /\ peer \in [Browser -> {"none", "claiming", "open", "refused"}]
  /\ tries \in [Browser -> 0..MaxTries]
  /\ owner \in Browser \cup {Nobody} /\ link \in {"none", "up", "closed"}
  /\ alive \in BOOLEAN /\ visits \in 0..MaxVisits
  /\ chan \in [Browser -> Seq(Message)]
  /\ link = "none" => \A b \in Browser : ~up[b]

LEMMA TypesAreTypeOK == TypeOK <=> Types
BY DEF TypeOK, Types, Message

-----------------------------------------------------------------------------
(* Types. *)

LEMMA InitTypes == ASSUME PeerAssumption, Init PROVE Types
<1>1. expires \in [Browser -> Stamp]
  BY DEF Init, PeerAssumption, Stamp
<1>2. chan \in [Browser -> Seq(Message)]
  BY DEF Init
<1>3. /\ endedRef \in [Browser -> BOOLEAN] /\ becoming \in [Browser -> BOOLEAN]
      /\ paired \in [Browser -> BOOLEAN] /\ up \in [Browser -> BOOLEAN]
      /\ old \in [Browser -> BOOLEAN]
  BY DEF Init
<1>4. /\ page \in [Browser -> {"away", "in", "ended", "over"}]
      /\ role \in [Browser -> {"host", "guest"}] /\ film \in [Browser -> Film \cup {NoFilm}]
      /\ partner \in [Browser -> {"waiting", "open", "named", "lost"}]
      /\ peer \in [Browser -> {"none", "claiming", "open", "refused"}]
      /\ tries \in [Browser -> 0..MaxTries]
  BY DEF Init, PeerAssumption
<1>5. /\ owner \in Browser \cup {Nobody} /\ link \in {"none", "up", "closed"}
      /\ alive \in BOOLEAN /\ visits \in 0..MaxVisits
      /\ (link = "none" => \A b \in Browser : ~up[b])
  <2>1. up = [b \in Browser |-> FALSE]
    BY DEF Init
  <2>2. \A b \in Browser : ~up[b]
    BY <2>1
  <2>3. owner = Nobody /\ link = "none" /\ alive = FALSE /\ visits = 0
    BY DEF Init
  <2>4. alive \in BOOLEAN
    BY <2>3
  <2>5. visits \in 0..MaxVisits
    BY <2>3 DEF PeerAssumption
  <2>6. owner \in Browser \cup {Nobody} /\ link \in {"none", "up", "closed"}
    BY <2>3
  <2>7. QED
    BY <2>2, <2>4, <2>5, <2>6
<1>6. QED
  BY <1>1, <1>2, <1>3, <1>4, <1>5 DEF Types

LEMMA MessageTypes ==
  /\ \A t \in {"hello", "partner_left", "host_transfer", "room_ended"} : [type |-> t] \in Message
  /\ \A e \in Stamp, f \in Film \cup {NoFilm} :
       [type |-> "welcome", expires |-> e, film |-> f] \in Message
  /\ \A e \in Stamp : [type |-> "settings_changed", expires |-> e] \in Message
  /\ \A f \in Film : [type |-> "media_set", film |-> f] \in Message
  /\ \A m \in Message :
       /\ m.type \in {"hello", "partner_left", "host_transfer", "room_ended", "welcome",
                      "media_set", "settings_changed"}
       /\ m.type = "welcome" => m.expires \in Stamp /\ m.film \in Film \cup {NoFilm}
       /\ m.type = "media_set" => m.film \in Film
       /\ m.type = "settings_changed" => m.expires \in Stamp
BY DEF Message, Plain, Welcome, Changes

LEMMA PlainTypes ==
  ASSUME NEW t \in {"hello", "partner_left", "host_transfer", "room_ended"}
  PROVE  Plainly(t) \in Seq(Message)
<1>1. [type |-> t] \in Message
  BY MessageTypes
<1>2. QED
  BY <1>1 DEF Plainly

LEMMA SendsTypes ==
  ASSUME PeerAssumption, chan \in [Browser -> Seq(Message)], NEW b \in Browser,
         NEW msgs \in Seq(Message), Sends(b, msgs)
  PROVE  chan' \in [Browser -> Seq(Message)]
<1>1. Other(b) \in Browser
  BY Others
<1>2. chan[Other(b)] \o msgs \in Seq(Message)
  BY <1>1
<1>3. QED
  BY <1>1, <1>2 DEF Sends

LEMMA TakenTypes ==
  ASSUME chan \in [Browser -> Seq(Message)], NEW b \in Browser, chan[b] # <<>>
  PROVE  Head(chan[b]) \in Message /\ Tail(chan[b]) \in Seq(Message)
<1>1. chan[b] \in Seq(Message)
  OBVIOUS
<1>2. QED
  BY <1>1

\* What goes with a page or its peer.
LEMMA DestroysTypes ==
  ASSUME PeerAssumption, Types, NEW b \in Browser, NEW next \in {"none", "claiming"}, Destroys(b, next)
  PROVE  /\ link' \in {"none", "up", "closed"} /\ (link' = "none" => \A c \in Browser : ~up'[c])
         /\ up' \in [Browser -> BOOLEAN] /\ old' \in [Browser -> BOOLEAN]
         /\ peer' \in [Browser -> {"none", "claiming", "open", "refused"}]
         /\ tries' \in [Browser -> 0..MaxTries]
         /\ link' # "up" /\ ~up'[b] /\ peer'[b] = next
         /\ \A c \in Browser : c # b => up'[c] = up[c] /\ peer'[c] = peer[c]
<1>1. /\ up' \in [Browser -> BOOLEAN] /\ old' \in [Browser -> BOOLEAN]
      /\ peer' \in [Browser -> {"none", "claiming", "open", "refused"}]
      /\ ~up'[b] /\ peer'[b] = next
      /\ \A c \in Browser : c # b => up'[c] = up[c] /\ peer'[c] = peer[c]
  BY DEF Types, Destroys
<1>2. tries' \in [Browser -> 0..MaxTries]
  BY DEF Types, Destroys, PeerAssumption
<1>3. /\ link' \in {"none", "up", "closed"} /\ link' # "up"
      /\ (link' = "none" => \A c \in Browser : ~up'[c])
  BY <1>1, Others DEF Types, Destroys
<1>4. QED
  BY <1>1, <1>2, <1>3

LEMMA FinishTypes ==
  ASSUME Types, NEW b \in Browser, Finish(b)
  PROVE  /\ page' \in [Browser -> {"away", "in", "ended", "over"}]
         /\ film' \in [Browser -> Film \cup {NoFilm}] /\ alive' \in BOOLEAN
         /\ page'[b] = "ended" /\ film'[b] = NoFilm
         /\ \A c \in Browser : c # b => page'[c] = page[c] /\ film'[c] = film[c]
BY DEF Types, Finish

LEMMA PageTypes ==
  ASSUME PeerAssumption, Types, NEW b \in Browser,
         Open(b) \/ EndRoom(b) \/ Expire(b) \/ Leave(b) \/ CloseTab(b)
  PROVE  Types'
<1>1. CASE Open(b)
  <2>1. visits' \in 0..MaxVisits /\ tries' \in [Browser -> 0..MaxTries]
    BY <1>1 DEF Open, Types, PeerAssumption
  <2>2. alive' \in BOOLEAN
    BY <1>1 DEF Open, Types, MarksRoom, FindsRoom
  <2>3. /\ role' \in [Browser -> {"host", "guest"}] /\ expires' \in [Browser -> Stamp]
        /\ page' \in [Browser -> {"away", "in", "ended", "over"}]
        /\ peer' \in [Browser -> {"none", "claiming", "open", "refused"}]
    BY <1>1 DEF Open, Types, Stamp
  <2>4. QED
    BY <1>1, <2>1, <2>2, <2>3 DEF Open, Types
<1>2. CASE EndRoom(b)
  <2>1. chan' \in [Browser -> Seq(Message)]
    BY <1>2, SendsTypes, PlainTypes DEF EndRoom, Types
  <2>2. endedRef' \in [Browser -> BOOLEAN]
    BY <1>2 DEF EndRoom, Types
  <2>3. QED
    BY <1>2, <2>1, <2>2, FinishTypes DEF EndRoom, Types
<1>3. CASE Expire(b) /\ ~EndRoom(b)
  BY <1>3, FinishTypes DEF Expire, Types
<1>4. CASE Leave(b) \/ CloseTab(b)
  <2>1. Destroys(b, "none") /\ Unmounts(b)
    BY <1>4 DEF Leave, CloseTab, Unmounts
  <2>2. /\ film' \in [Browser -> Film \cup {NoFilm}]
        /\ partner' \in [Browser -> {"waiting", "open", "named", "lost"}]
        /\ endedRef' \in [Browser -> BOOLEAN] /\ paired' \in [Browser -> BOOLEAN]
    BY <2>1 DEF Unmounts, Types
  <2>3. /\ page' \in [Browser -> {"away", "in", "ended", "over"}]
        /\ role' \in [Browser -> {"host", "guest"}] /\ becoming' \in [Browser -> BOOLEAN]
        /\ UNCHANGED <<expires, owner, alive, visits>>
    BY ZenonT(60), <1>4 DEF Leave, CloseTab, Types
  <2>4. chan' \in [Browser -> Seq(Message)]
    <3>1. /\ Plainly("partner_left") \in Seq(Message)
          /\ Plainly("host_transfer") \o Plainly("partner_left") \in Seq(Message)
      BY PlainTypes
    <3>2. QED
      BY <1>4, <3>1, SendsTypes DEF Leave, CloseTab, Types
  <2>5. QED
    BY <2>1, <2>2, <2>3, <2>4, DestroysTypes DEF Types
<1>5. QED
  BY <1>1, <1>2, <1>3, <1>4

LEMMA SettingTypes ==
  ASSUME PeerAssumption, Types, NEW b \in Browser,
         (\E f \in Film : SetFilm(b, f)) \/ (\E e \in {"none", "ahead"} : SetExpire(b, e))
  PROVE  Types'
<1>1. ASSUME NEW f \in Film, SetFilm(b, f) PROVE Types'
  <2>1. <<[type |-> "media_set", film |-> f]>> \in Seq(Message)
    BY MessageTypes
  <2>2. chan' \in [Browser -> Seq(Message)]
    BY <1>1, <2>1, SendsTypes DEF SetFilm, Types
  <2>3. QED
    BY <1>1, <2>2 DEF SetFilm, Types
<1>2. ASSUME NEW e \in {"none", "ahead"}, SetExpire(b, e) PROVE Types'
  <2>1. <<[type |-> "settings_changed", expires |-> e]>> \in Seq(Message)
    BY MessageTypes DEF Stamp
  <2>2. chan' \in [Browser -> Seq(Message)]
    BY <1>2, <2>1, SendsTypes DEF SetExpire, Types
  <2>3. QED
    BY <1>2, <2>2 DEF SetExpire, Types, Stamp
<1>3. QED
  BY <1>1, <1>2

LEMMA NetTypes ==
  ASSUME PeerAssumption, Types, NEW b \in Browser,
         Claim(b) \/ Dial(b) \/ ConnOpen(b) \/ ConnClose(b) \/ BecomeHost(b)
  PROVE  Types'
<1>1. CASE Claim(b)
  <2>1. tries' \in [Browser -> 0..MaxTries]
    <3>1. tries[b] \in 0..MaxTries /\ MaxTries \in Nat
      BY DEF Types, PeerAssumption
    <3>2. tries[b] < MaxTries => tries[b] + 1 \in 0..MaxTries
      BY <3>1
    <3>3. QED
      <4>1. \/ tries' = [tries EXCEPT ![b] = 0]
            \/ tries[b] < MaxTries /\ tries' = [tries EXCEPT ![b] = tries[b] + 1]
            \/ UNCHANGED tries
        BY <1>1 DEF Claim, Types
      <4>2. 0 \in 0..MaxTries
        BY <3>1
      <4>3. QED
        BY ZenonT(60), <3>2, <4>1, <4>2 DEF Types
  <2>2. /\ peer' \in [Browser -> {"none", "claiming", "open", "refused"}]
        /\ owner' \in Browser \cup {Nobody}
    BY <1>1 DEF Claim, Types
  <2>3. QED
    BY <1>1, <2>1, <2>2 DEF Claim, pageVars, Types
<1>2. CASE Dial(b)
  <2>1. /\ up' \in [Browser -> BOOLEAN] /\ old' \in [Browser -> BOOLEAN]
        /\ link' \in {"none", "up", "closed"} /\ (link' = "none" => \A c \in Browser : ~up'[c])
        /\ chan' \in [Browser -> Seq(Message)]
        /\ peer' \in [Browser -> {"none", "claiming", "open", "refused"}]
    <3>1. CASE owner = Other(b) /\ role[owner] = "host" /\ peer[owner] = "open"
      <4>1. <<>> \in Seq(Message)
        OBVIOUS
      <4>2. /\ link' = "up" /\ peer' = [peer EXCEPT ![b] = "open"]
            /\ chan' = [c \in Browser |-> <<>>]
            /\ old' = [old EXCEPT ![Other(b)] = old[Other(b)] \/ up[Other(b)]]
            /\ up' = [c \in Browser |-> FALSE]
        BY <1>2, <3>1, Others DEF Dial, Types
      <4>3. up' \in [Browser -> BOOLEAN]
        BY <4>2
      <4>4. old' \in [Browser -> BOOLEAN]
        BY <4>2, Others DEF Types
      <4>5. chan' \in [Browser -> Seq(Message)]
        BY <4>1, <4>2
      <4>6. peer' \in [Browser -> {"none", "claiming", "open", "refused"}]
        BY <4>2 DEF Types
      <4>7. QED
        BY <4>2, <4>3, <4>4, <4>5, <4>6
    <3>2. CASE ~(owner = Other(b) /\ role[owner] = "host" /\ peer[owner] = "open")
      <4>1. peer' = [peer EXCEPT ![b] = "refused"] /\ UNCHANGED <<link, chan, up, old>>
        BY <1>2, <3>2 DEF Dial
      <4>2. QED
        BY <4>1 DEF Types
    <3>3. QED
      BY <3>1, <3>2
  <2>2. QED
    BY <1>2, <2>1 DEF Dial, pageVars, Types
<1>3. CASE ConnOpen(b)
  <2>1. Append(chan[Other(b)], [type |-> "hello"]) \in Seq(Message)
    BY MessageTypes, Others DEF Types
  <2>2. chan' \in [Browser -> Seq(Message)]
    BY <1>3, <2>1 DEF ConnOpen, Types
  <2>3. QED
    BY <1>3, <2>2 DEF ConnOpen, Types
<1>4. CASE ConnClose(b)
  <2>1. /\ becoming' \in [Browser -> BOOLEAN]
        /\ partner' \in [Browser -> {"waiting", "open", "named", "lost"}]
    <3>1. Inherits(b) \in BOOLEAN
      BY DEF Inherits, Types
    <3>2. CASE endedRef[b] \/ becoming[b]
      BY <1>4, <3>2 DEF ConnClose, HearsClose, Types
    <3>3. CASE ~(endedRef[b] \/ becoming[b])
      <4>1. /\ becoming' = [becoming EXCEPT ![b] = Inherits(b)]
            /\ partner' = [partner EXCEPT ![b] =
                  IF role[b] = "guest" THEN "waiting"
                  ELSE IF partner[b] = "named" THEN "lost" ELSE partner[b]]
        BY <1>4, <3>3 DEF ConnClose, HearsClose, Types
      <4>2. becoming' \in [Browser -> BOOLEAN]
        BY <3>1, <4>1 DEF Types
      <4>3. partner' \in [Browser -> {"waiting", "open", "named", "lost"}]
        BY <4>1 DEF Types
      <4>4. QED
        BY <4>2, <4>3
    <3>4. QED
      BY <3>2, <3>3
  <2>2. /\ up' \in [Browser -> BOOLEAN] /\ old' \in [Browser -> BOOLEAN]
        /\ link' \in {"none", "up", "closed"} /\ (link' = "none" => \A c \in Browser : ~up'[c])
        /\ chan' \in [Browser -> Seq(Message)]
    <3>1. ASSUME link = "closed", up[b], up' = [up EXCEPT ![b] = FALSE], UNCHANGED old,
                 link' = IF up[Other(b)] THEN "closed" ELSE "none", chan' = [chan EXCEPT ![b] = <<>>]
          PROVE  /\ up' \in [Browser -> BOOLEAN] /\ old' \in [Browser -> BOOLEAN]
                 /\ link' \in {"none", "up", "closed"} /\ (link' = "none" => \A c \in Browser : ~up'[c])
                 /\ chan' \in [Browser -> Seq(Message)]
      <4>1. <<>> \in Seq(Message)
        OBVIOUS
      <4>2. up' \in [Browser -> BOOLEAN]
        BY <3>1 DEF Types
      <4>3. old' \in [Browser -> BOOLEAN]
        BY <3>1 DEF Types
      <4>4. chan' \in [Browser -> Seq(Message)]
        BY <3>1, <4>1 DEF Types
      <4>5. link' = "none" => \A c \in Browser : ~up'[c]
        BY <3>1, Others DEF Types
      <4>6. QED
        BY <3>1, <4>2, <4>3, <4>4, <4>5
    <3>2. CASE old' = [old EXCEPT ![b] = FALSE] /\ UNCHANGED <<up, link, chan>>
      BY <3>2 DEF Types
    <3>3. QED
      BY <1>4, <3>1, <3>2 DEF ConnClose
  <2>3. QED
    BY <1>4, <2>1, <2>2 DEF ConnClose, Types
<1>5. CASE BecomeHost(b)
  <2>1. becoming' \in [Browser -> BOOLEAN] /\ role' \in [Browser -> {"host", "guest"}]
    BY <1>5 DEF BecomeHost, Types
  <2>2. CASE Mounted(b)
    <3>1. expires' \in [Browser -> Stamp]
      <4>1. expires' = [expires EXCEPT ![b] =
                          IF expires[b] = "none" /\ page[b] = "in" THEN "ahead" ELSE expires[b]]
        BY <1>5, <2>2 DEF BecomeHost, Types
      <4>2. QED
        BY <4>1 DEF Types, Stamp
    <3>2. QED
      BY <1>5, <2>1, <2>2, <3>1, DestroysTypes DEF BecomeHost, Types
  <2>3. CASE ~Mounted(b)
    BY <1>5, <2>1, <2>3 DEF BecomeHost, Types
  <2>4. QED
    BY <2>2, <2>3
<1>6. QED
  BY <1>1, <1>2, <1>3, <1>4, <1>5

\* What is left of a channel when a browser has taken a message from it.
LEMMA TakesTypes ==
  ASSUME Types, NEW b \in Browser, NEW t, Takes(b, t)
  PROVE  /\ Head(chan[b]) \in Message /\ Head(chan[b]).type = t
         /\ Tail(chan[b]) \in Seq(Message)
         /\ Taken(b) => chan' \in [Browser -> Seq(Message)]
<1>1. Head(chan[b]) \in Message /\ Head(chan[b]).type = t /\ Tail(chan[b]) \in Seq(Message)
  BY TakenTypes DEF Takes, Types
<1>2. QED
  BY <1>1 DEF Taken, Types

LEMMA HearsTypes ==
  ASSUME PeerAssumption, Types, NEW b \in Browser, Hears(b)
  PROVE  Types'
<1>1. CASE OnHello(b)
  <2>1. /\ Tail(chan[b]) \in Seq(Message)
        /\ Append(chan[Other(b)], [type |-> "welcome", expires |-> expires[b], film |-> film[b]])
             \in Seq(Message)
    BY <1>1, TakesTypes, MessageTypes, Others DEF OnHello, Types
  <2>2. chan' \in [Browser -> Seq(Message)]
    BY <1>1, <2>1, Others DEF OnHello, Types
  <2>3. QED
    BY <1>1, <2>2 DEF OnHello, netRest, Types
<1>2. CASE OnWelcome(b)
  <2>1. /\ Head(chan[b]).expires \in Stamp /\ Head(chan[b]).film \in Film \cup {NoFilm}
        /\ chan' \in [Browser -> Seq(Message)]
    BY <1>2, TakesTypes, MessageTypes DEF OnWelcome
  <2>2. QED
    BY <1>2, <2>1 DEF OnWelcome, netRest, Types
<1>3. CASE OnPartnerLeft(b)
  BY <1>3, TakesTypes DEF OnPartnerLeft, netRest, Types
<1>4. CASE OnHostTransfer(b)
  BY <1>4, TakesTypes DEF OnHostTransfer, netRest, Types
<1>5. CASE OnMediaSet(b)
  <2>1. Head(chan[b]).film \in Film /\ chan' \in [Browser -> Seq(Message)]
    BY <1>5, TakesTypes, MessageTypes DEF OnMediaSet
  <2>2. QED
    BY <1>5, <2>1 DEF OnMediaSet, netRest, Types
<1>6. CASE OnSettings(b)
  <2>1. Head(chan[b]).expires \in Stamp /\ chan' \in [Browser -> Seq(Message)]
    BY <1>6, TakesTypes, MessageTypes DEF OnSettings
  <2>2. QED
    BY <1>6, <2>1 DEF OnSettings, netRest, Types
<1>7. CASE OnRoomEnded(b)
  <2>1. chan' \in [Browser -> Seq(Message)] /\ endedRef' \in [Browser -> BOOLEAN]
    BY <1>7, TakesTypes DEF OnRoomEnded, Types
  <2>2. QED
    BY <1>7, <2>1, FinishTypes DEF OnRoomEnded, netRest, Types
<1>8. QED
  BY <1>1, <1>2, <1>3, <1>4, <1>5, <1>6, <1>7 DEF Hears

LEMMA TypeStep == ASSUME PeerAssumption, Types, [Next]_vars PROVE Types'
<1>1. CASE UNCHANGED vars
  BY <1>1 DEF vars, Types
<1>2. CASE TimeUp
  BY <1>2 DEF TimeUp, netVars, Types, Stamp
<1>3. CASE Release
  BY <1>3 DEF Release, pageVars, Types
<1>4. CASE Drop
  BY <1>4 DEF Drop, pageVars, Types
<1>5. QED
  BY <1>1, <1>2, <1>3, <1>4, PageTypes, SettingTypes, NetTypes, HearsTypes DEF Next

\* The pages, the channel with what it holds, and the peer ids keep their types.
THEOREM TypeCorrect == Spec => []TypeOK
<1>1. Init => Types
  BY InitTypes, PeerAssumption
<1>2. Types /\ [Next]_vars => Types'
  BY TypeStep, PeerAssumption
<1>3. QED
  BY <1>1, <1>2, TypesAreTypeOK, PTL DEF Spec

-----------------------------------------------------------------------------
(* The two ends of a connection. *)

\* A peer and an end of a channel belong to a page; what a page had goes with it.  A channel that
\* is up joins a host to a guest, and a guest that has still to dial starts with nothing.
Wired ==
  /\ \A b \in Browser : peer[b] # "none" => Mounted(b)
  /\ \A b \in Browser : up[b] => Mounted(b)
  /\ \A b \in Browser : ~Mounted(b) => film[b] = NoFilm /\ ~endedRef[b]
  /\ link = "up" => role[A] # role[B] /\ \A b \in Browser : peer[b] = "open"
  /\ \A b \in Browser : role[b] = "guest" /\ peer[b] = "claiming" => film[b] = NoFilm /\ ~up[b]

LEMMA RolesDiffer ==
  ASSUME PeerAssumption, Types, Wired, link = "up", NEW b \in Browser
  PROVE  /\ role[b] = "guest" <=> role[Other(b)] = "host"
         /\ role[b] = "host" <=> role[Other(b)] = "guest"
<1>1. A \in Browser /\ B \in Browser /\ role[A] # role[B]
  BY DEF Wired, Browser
<1>2. role[A] \in {"host", "guest"} /\ role[B] \in {"host", "guest"}
  BY <1>1 DEF Types
<1>3. QED
  BY <1>1, <1>2 DEF PeerAssumption, Browser, Other

\* An action that leaves the ends alone and gives a film only to a page.
LEMMA WiredSame ==
  ASSUME PeerAssumption, Types, Wired, UNCHANGED <<role, peer>>, link' = "up" => link = "up",
         \A b \in Browser : up'[b] => up[b],
         \A b \in Browser : Mounted(b)' <=> Mounted(b),
         \A b \in Browser : film'[b] = film[b] \/ film'[b] = NoFilm \/ up[b] \/ role[b] = "host",
         \A b \in Browser : film'[b] # film[b] => Mounted(b),
         \A b \in Browser : endedRef'[b] => endedRef[b] \/ Mounted(b)
  PROVE  Wired'
BY DEF Wired, Mounted

\* A page goes, or its peer is dropped.
LEMMA WiredGone ==
  ASSUME PeerAssumption, Types, Wired, NEW b \in Browser, NEW next \in {"none", "claiming"},
         Destroys(b, next), next = "none" \/ (Mounted(b)' /\ role'[b] = "host"),
         \A c \in Browser : c # b => /\ page'[c] = page[c] /\ role'[c] = role[c]
                                     /\ film'[c] = film[c] /\ endedRef'[c] = endedRef[c],
         ~Mounted(b)' => film'[b] = NoFilm /\ ~endedRef'[b]
  PROVE  Wired'
<1>1. /\ link' # "up" /\ ~up'[b] /\ peer'[b] = next
      /\ \A c \in Browser : c # b => up'[c] = up[c] /\ peer'[c] = peer[c]
  BY DestroysTypes
<1>2. \A c \in Browser : c # b => (Mounted(c)' <=> Mounted(c))
  BY DEF Mounted
<1>3. QED
  BY <1>1, <1>2 DEF Wired

LEMMA PageWired ==
  ASSUME PeerAssumption, Types, Wired, NEW b \in Browser,
         Open(b) \/ EndRoom(b) \/ Expire(b) \/ Leave(b) \/ CloseTab(b)
  PROVE  Wired'
<1>1. CASE Open(b)
  <2>1. ~Mounted(b) /\ peer[b] = "none" /\ ~up[b] /\ film[b] = NoFilm /\ link # "up"
    BY <1>1 DEF Open, Mounted, Wired
  <2>2. /\ Mounted(b)' /\ UNCHANGED <<film, up, link, endedRef>> /\ peer'[b] = "claiming"
        /\ \A c \in Browser : c # b => page'[c] = page[c] /\ role'[c] = role[c] /\ peer'[c] = peer[c]
    BY <1>1 DEF Open, Mounted, Types
  <2>3. \A c \in Browser : c # b => (Mounted(c)' <=> Mounted(c))
    BY <2>2 DEF Mounted
  <2>4. QED
    BY <2>1, <2>2, <2>3 DEF Wired
<1>2. CASE EndRoom(b) \/ Expire(b)
  <2>1. Finish(b) /\ page[b] = "in" /\ UNCHANGED <<role, peer, link, up>>
    BY <1>2 DEF EndRoom, Expire
  <2>2. \A c \in Browser : endedRef'[c] => endedRef[c] \/ Mounted(c)
    BY <1>2, <2>1 DEF EndRoom, Expire, Mounted, Types
  <2>3. \A c \in Browser : Mounted(c)' <=> Mounted(c)
    BY <2>1, FinishTypes DEF Mounted
  <2>4. \A c \in Browser : /\ film'[c] = film[c] \/ film'[c] = NoFilm
                           /\ film'[c] # film[c] => Mounted(c)
    BY <2>1, FinishTypes DEF Mounted
  <2>5. QED
    BY <2>1, <2>2, <2>3, <2>4, WiredSame
<1>3. CASE Leave(b) \/ CloseTab(b)
  <2>1. /\ Destroys(b, "none") /\ film'[b] = NoFilm /\ ~endedRef'[b]
        /\ \A c \in Browser : c # b => film'[c] = film[c] /\ endedRef'[c] = endedRef[c]
    BY <1>3 DEF Leave, CloseTab, Unmounts, Types
  <2>2. \A c \in Browser : c # b => page'[c] = page[c] /\ role'[c] = role[c]
    BY <1>3 DEF Leave, CloseTab, Types
  <2>3. QED
    BY <2>1, <2>2, WiredGone
<1>4. QED
  BY <1>1, <1>2, <1>3

LEMMA NetWired ==
  ASSUME PeerAssumption, Types, Wired, NEW b \in Browser,
         Claim(b) \/ Dial(b) \/ ConnOpen(b) \/ ConnClose(b) \/ BecomeHost(b)
  PROVE  Wired'
<1>1. CASE Claim(b)
  <2>1. /\ Mounted(b) /\ role[b] = "host" /\ peer[b] = "claiming"
        /\ UNCHANGED <<page, role, film, endedRef, link, up>>
        /\ \A c \in Browser : c # b => peer'[c] = peer[c]
    BY <1>1 DEF Claim, pageVars, Types
  <2>2. link # "up"
    BY <2>1 DEF Wired
  <2>3. QED
    BY <2>1, <2>2 DEF Wired, Mounted
<1>2. CASE Dial(b)
  <2>1. /\ Mounted(b) /\ role[b] = "guest" /\ peer[b] = "claiming"
        /\ UNCHANGED <<page, role, film, endedRef>>
        /\ \A c \in Browser : c # b => peer'[c] = peer[c]
    BY <1>2 DEF Dial, pageVars, Types
  <2>2. link # "up"
    BY <2>1 DEF Wired
  <2>3. CASE link' = "up"
    <3>1. /\ owner = Other(b) /\ role[owner] = "host" /\ peer[owner] = "open"
          /\ peer' = [peer EXCEPT ![b] = "open"] /\ up' = [c \in Browser |-> FALSE]
      BY <1>2, <2>2, <2>3 DEF Dial
    <3>2. role[A] # role[B] /\ \A c \in Browser : peer'[c] = "open"
      BY <2>1, <3>1, Others DEF Types, Browser
    <3>3. QED
      BY <2>1, <3>1, <3>2 DEF Wired, Mounted
  <2>4. CASE link' # "up"
    <3>1. peer' = [peer EXCEPT ![b] = "refused"] /\ UNCHANGED <<link, up>>
      BY <1>2, <2>4 DEF Dial
    <3>2. peer'[b] = "refused"
      BY <3>1 DEF Types
    <3>3. QED
      BY <2>1, <2>2, <3>1, <3>2 DEF Wired, Mounted
  <2>5. QED
    BY <2>3, <2>4
<1>3. CASE ConnOpen(b)
  <2>1. /\ Mounted(b) /\ link = "up" /\ UNCHANGED <<page, role, film, endedRef, peer, link>>
        /\ \A c \in Browser : c # b => up'[c] = up[c]
    BY <1>3 DEF ConnOpen, Types
  <2>2. peer[b] = "open"
    BY <2>1 DEF Wired
  <2>3. QED
    BY <2>1, <2>2 DEF Wired, Mounted
<1>4. CASE ConnClose(b)
  <2>1. UNCHANGED <<page, role, film, endedRef, peer>> /\ (link' = "up" => link = "up")
    BY <1>4 DEF ConnClose
  <2>2. \A c \in Browser : up'[c] => up[c]
    BY ZenonT(60), <1>4 DEF ConnClose, Types
  <2>3. QED
    BY <2>1, <2>2, WiredSame DEF Mounted
<1>5. CASE BecomeHost(b)
  <2>1. /\ UNCHANGED <<page, film, endedRef>> /\ role'[b] = "host"
        /\ \A c \in Browser : c # b => role'[c] = role[c]
    BY <1>5 DEF BecomeHost, Types
  <2>2. CASE Mounted(b)
    <3>1. Destroys(b, "claiming") /\ Mounted(b)'
      BY <1>5, <2>1, <2>2 DEF BecomeHost, Mounted
    <3>2. QED
      BY <2>1, <3>1, WiredGone
  <2>3. CASE ~Mounted(b)
    <3>1. UNCHANGED <<link, up, peer>> /\ peer[b] = "none"
      BY <1>5, <2>3 DEF BecomeHost, Wired
    <3>2. link # "up"
      BY <3>1 DEF Wired
    <3>3. QED
      BY <2>1, <3>1, <3>2 DEF Wired, Mounted
  <2>4. QED
    BY <2>2, <2>3
<1>6. QED
  BY <1>1, <1>2, <1>3, <1>4, <1>5

LEMMA HearsWired ==
  ASSUME PeerAssumption, Types, Wired, NEW b \in Browser, Hears(b)
  PROVE  Wired'
<1>1. up[b] /\ Mounted(b) /\ UNCHANGED <<role, peer, link, up>>
  BY DEF Hears, OnHello, OnWelcome, OnPartnerLeft, OnHostTransfer, OnMediaSet, OnSettings, OnRoomEnded,
         Takes, netRest
<1>2. \A c \in Browser : c # b => page'[c] = page[c] /\ film'[c] = film[c] /\ endedRef'[c] = endedRef[c]
  BY FinishTypes DEF Hears, OnHello, OnWelcome, OnPartnerLeft, OnHostTransfer, OnMediaSet, OnSettings,
         OnRoomEnded, Types
<1>3. Mounted(b)'
  BY <1>1, FinishTypes DEF Hears, OnHello, OnWelcome, OnPartnerLeft, OnHostTransfer, OnMediaSet, OnSettings,
         OnRoomEnded, Mounted
<1>4. \A c \in Browser : Mounted(c)' <=> Mounted(c)
  BY <1>1, <1>2, <1>3 DEF Mounted
<1>5. QED
  BY <1>1, <1>2, <1>4, WiredSame

LEMMA WiredStep == ASSUME PeerAssumption, Types, Wired, [Next]_vars PROVE Wired'
<1>1. CASE UNCHANGED vars
  BY <1>1 DEF vars, Wired, Mounted
<1>2. CASE TimeUp \/ Release
  BY <1>2 DEF TimeUp, Release, pageVars, netVars, Wired, Mounted
<1>3. CASE Drop
  BY <1>3, WiredSame DEF Drop, pageVars, Mounted
<1>4. ASSUME NEW b \in Browser,
             (\E f \in Film : SetFilm(b, f)) \/ (\E e \in {"none", "ahead"} : SetExpire(b, e))
      PROVE  Wired'
  <2>1. /\ page[b] = "in" /\ role[b] = "host" /\ UNCHANGED <<page, role, endedRef, peer, link, up>>
        /\ \A c \in Browser : c # b => film'[c] = film[c]
    BY <1>4 DEF SetFilm, SetExpire, Types
  <2>2. QED
    BY <2>1, WiredSame DEF Mounted
<1>5. QED
  BY <1>1, <1>2, <1>3, <1>4, PageWired, NetWired, HearsWired DEF Next
-----------------------------------------------------------------------------
(* Messages under way. *)

Has(C, t) == \E i \in 1..Len(C) : C[i].type = t

\* No host hands over a room that it has ended.
EndIsLast(C) ==
  \A i, j \in 1..Len(C) : i < j /\ C[i].type = "room_ended" => C[j].type # "host_transfer"

\* The last film that C carries is x, or C carries none and it is f.
Carries(m) == m.type = "media_set" \/ (m.type = "welcome" /\ m.film # NoFilm)
LastFilm(C, f, x) ==
  /\ \A i \in 1..Len(C) :
       Carries(C[i]) /\ (\A k \in (i + 1)..Len(C) : ~Carries(C[k])) => C[i].film = x
  /\ (\A i \in 1..Len(C) : ~Carries(C[i])) => f = x

LEMMA Appended ==
  ASSUME NEW C \in Seq(Message), NEW m \in Message
  PROVE  /\ \A t : Has(Append(C, m), t) <=> Has(C, t) \/ m.type = t
         /\ EndIsLast(C) /\ (m.type = "host_transfer" => ~Has(C, "room_ended"))
              => EndIsLast(Append(C, m))
         /\ \A f, x : LastFilm(C, f, x) /\ ~Carries(m) => LastFilm(Append(C, m), f, x)
         /\ \A f : Carries(m) => LastFilm(Append(C, m), f, m.film)
<1> DEFINE D == Append(C, m)
<1>1. /\ Len(C) \in Nat /\ Len(D) = Len(C) + 1 /\ D[Len(C) + 1] = m
      /\ \A i \in 1..Len(C) : D[i] = C[i] /\ i \in 1..Len(D)
      /\ \A i \in 1..Len(D) : i \in 1..Len(C) \/ i = Len(C) + 1
      /\ Len(C) + 1 \in 1..Len(D)
  OBVIOUS
<1> HIDE DEF D
<1>2. \A t : Has(D, t) <=> Has(C, t) \/ m.type = t
  BY <1>1 DEF Has
<1>3. ASSUME EndIsLast(C), m.type = "host_transfer" => ~Has(C, "room_ended") PROVE EndIsLast(D)
  <2>1. SUFFICES ASSUME NEW i \in 1..Len(D), NEW j \in 1..Len(D), i < j, D[i].type = "room_ended",
                        D[j].type = "host_transfer"
                 PROVE  FALSE
    BY DEF EndIsLast
  <2>2. i \in 1..Len(C) /\ C[i].type = "room_ended"
    BY <1>1, <2>1
  <2>3. CASE j \in 1..Len(C)
    BY <1>1, <1>3, <2>1, <2>2, <2>3 DEF EndIsLast
  <2>4. CASE j = Len(C) + 1
    BY <1>1, <1>3, <2>1, <2>2, <2>4 DEF Has
  <2>5. QED
    BY <1>1, <2>3, <2>4
<1>4. ASSUME NEW f, NEW x, LastFilm(C, f, x), ~Carries(m) PROVE LastFilm(D, f, x)
  <2>1. ASSUME NEW i \in 1..Len(D), Carries(D[i]), \A k \in (i + 1)..Len(D) : ~Carries(D[k])
        PROVE  D[i].film = x
    <3>1. i \in 1..Len(C) /\ D[i] = C[i]
      BY <1>1, <1>4, <2>1
    <3>2. ASSUME NEW k \in (i + 1)..Len(C) PROVE ~Carries(C[k])
      <4>1. k \in (i + 1)..Len(D) /\ k \in 1..Len(C)
        BY <1>1, <3>1
      <4>2. QED
        BY <1>1, <2>1, <4>1
    <3>3. QED
      BY <1>4, <2>1, <3>1, <3>2 DEF LastFilm
  <2>2. ASSUME \A i \in 1..Len(D) : ~Carries(D[i]) PROVE f = x
    <3>1. \A i \in 1..Len(C) : ~Carries(C[i])
      BY <1>1, <2>2
    <3>2. QED
      BY <1>4, <3>1 DEF LastFilm
  <2>3. QED
    BY <2>1, <2>2 DEF LastFilm
<1>5. ASSUME NEW f, Carries(m) PROVE LastFilm(D, f, m.film)
  <2>1. ASSUME NEW i \in 1..Len(D), \A k \in (i + 1)..Len(D) : ~Carries(D[k]) PROVE D[i].film = m.film
    <3>1. CASE i \in 1..Len(C)
      <4>1. Len(C) + 1 \in (i + 1)..Len(D)
        BY <1>1, <3>1
      <4>2. QED
        BY <1>1, <1>5, <2>1, <4>1
    <3>2. QED
      BY <1>1, <3>1
  <2>2. QED
    BY <1>1, <1>5, <2>1 DEF LastFilm
<1>6. QED
  BY <1>2, <1>3, <1>4, <1>5 DEF D

LEMMA Headed ==
  ASSUME NEW C \in Seq(Message), C # <<>>
  PROVE  /\ Tail(C) \in Seq(Message)
         /\ \A t : Has(Tail(C), t) => Has(C, t)
         /\ Has(C, Head(C).type)
         /\ EndIsLast(C) => /\ EndIsLast(Tail(C))
                            /\ Head(C).type = "room_ended" => ~Has(Tail(C), "host_transfer")
         /\ \A f, x : LastFilm(C, f, x) =>
                        IF Carries(Head(C)) THEN LastFilm(Tail(C), Head(C).film, x)
                        ELSE LastFilm(Tail(C), f, x)
<1> DEFINE D == Tail(C)
<1>1. /\ Len(C) \in Nat \ {0} /\ Len(D) = Len(C) - 1 /\ C[1] = Head(C) /\ D \in Seq(Message)
      /\ \A i \in 1..Len(D) : D[i] = C[i + 1] /\ i + 1 \in 1..Len(C)
      /\ \A i \in 1..Len(C) : i = 1 \/ i - 1 \in 1..Len(D)
  OBVIOUS
<1> HIDE DEF D
<1>2. (\A t : Has(D, t) => Has(C, t)) /\ Has(C, Head(C).type)
  BY <1>1 DEF Has
<1>3. ASSUME EndIsLast(C)
      PROVE  EndIsLast(D) /\ (Head(C).type = "room_ended" => ~Has(D, "host_transfer"))
  <2>1. ASSUME NEW i \in 1..Len(D), NEW j \in 1..Len(D), i < j, D[i].type = "room_ended"
        PROVE  D[j].type # "host_transfer"
    <3>1. i + 1 \in 1..Len(C) /\ j + 1 \in 1..Len(C) /\ i + 1 < j + 1
      BY <1>1, <2>1
    <3>2. QED
      BY <1>1, <1>3, <2>1, <3>1 DEF EndIsLast
  <2>2. ASSUME NEW j \in 1..Len(D), Head(C).type = "room_ended" PROVE D[j].type # "host_transfer"
    <3>1. 1 \in 1..Len(C) /\ j + 1 \in 1..Len(C) /\ 1 < j + 1
      BY <1>1
    <3>2. QED
      BY <1>1, <1>3, <2>2, <3>1 DEF EndIsLast
  <2>3. QED
    BY <2>1, <2>2 DEF EndIsLast, Has
<1>4. ASSUME NEW f, NEW x, LastFilm(C, f, x)
      PROVE  IF Carries(Head(C)) THEN LastFilm(D, Head(C).film, x) ELSE LastFilm(D, f, x)
  <2>1. ASSUME NEW i \in 1..Len(D), Carries(D[i]), \A k \in (i + 1)..Len(D) : ~Carries(D[k])
        PROVE  D[i].film = x
    <3>1. i + 1 \in 1..Len(C) /\ C[i + 1] = D[i]
      BY <1>1
    <3>2. ASSUME NEW k \in (i + 1 + 1)..Len(C) PROVE ~Carries(C[k])
      <4>1. k - 1 \in (i + 1)..Len(D) /\ k - 1 \in 1..Len(D) /\ k = (k - 1) + 1
        BY <1>1, <3>1
      <4>2. D[k - 1] = C[k]
        BY <1>1, <4>1
      <4>3. QED
        BY <2>1, <4>1, <4>2
    <3>3. QED
      BY <1>4, <2>1, <3>1, <3>2 DEF LastFilm
  <2>2. ASSUME \A i \in 1..Len(D) : ~Carries(D[i])
        PROVE  IF Carries(Head(C)) THEN Head(C).film = x ELSE f = x
    <3>1. ASSUME NEW i \in 1..Len(C), i # 1 PROVE ~Carries(C[i])
      <4>1. i - 1 \in 1..Len(D) /\ i = (i - 1) + 1
        BY <1>1, <3>1
      <4>2. D[i - 1] = C[i]
        BY <1>1, <4>1
      <4>3. QED
        BY <2>2, <4>1, <4>2
    <3>2. 1 \in 1..Len(C) /\ C[1] = Head(C)
      BY <1>1
    <3>3. \A k \in (1 + 1)..Len(C) : k \in 1..Len(C) /\ k # 1
      BY <1>1
    <3>4. \A k \in (1 + 1)..Len(C) : ~Carries(C[k])
      BY <3>1, <3>3
    <3>5. Carries(C[1]) => C[1].film = x
      BY <1>4, <3>2, <3>4 DEF LastFilm
    <3>6. ~Carries(C[1]) => f = x
      BY <1>4, <3>1 DEF LastFilm
    <3>7. QED
      BY <3>2, <3>5, <3>6
  <2>3. QED
    BY <2>1, <2>2 DEF LastFilm
<1>5. QED
  BY <1>1, <1>2, <1>3, <1>4 DEF D
\* What a browser sends, it sends to the other.
LEMMA SendsOne ==
  ASSUME PeerAssumption, Types, NEW b \in Browser, NEW m \in Message, Sends(b, <<m>>)
  PROVE  /\ chan'[b] = chan[b]
         /\ IF up[b] /\ link = "up" THEN chan'[Other(b)] = Append(chan[Other(b)], m)
            ELSE chan' = chan
<1>1. chan[Other(b)] \in Seq(Message)
  BY Others DEF Types
<1>2. chan[Other(b)] \o <<m>> = Append(chan[Other(b)], m)
  BY <1>1
<1>3. QED
  BY <1>2, Others DEF Sends, Types

LEMMA SendsTwo ==
  ASSUME PeerAssumption, Types, NEW b \in Browser, NEW m \in Message, NEW n \in Message,
         Sends(b, <<m>> \o <<n>>)
  PROVE  /\ chan'[b] = chan[b]
         /\ IF up[b] /\ link = "up" THEN chan'[Other(b)] = Append(Append(chan[Other(b)], m), n)
            ELSE chan' = chan
<1>1. chan[Other(b)] \in Seq(Message)
  BY Others DEF Types
<1>2. chan[Other(b)] \o (<<m>> \o <<n>>) = Append(Append(chan[Other(b)], m), n)
  BY SMTT(30), <1>1
<1>3. QED
  BY <1>2, Others DEF Sends, Types

-----------------------------------------------------------------------------
(* The end of a room. *)

\* What a browser has been sent may still reach it, or be sent on.
Live(b) == up[b] \/ link = "up"

\* Whoever is told that the room has ended is told by a page that is at its end, or over; and on
\* a channel that is alive, only a guest that has not heard of an end is handed the room.
Endings ==
  \A b \in Browser :
    /\ endedRef[b] => page[b] = "ended"
    /\ (endedRef[b] /\ role[b] = "guest") \/ Has(chan[b], "room_ended")
         => page[Other(b)] \in {"ended", "over"}
    /\ EndIsLast(chan[b])
    /\ Live(b) /\ Has(chan[b], "host_transfer") => role[b] = "guest" /\ ~endedRef[b]

\* A page at its end never comes back.
LEMMA PagesEnd ==
  ASSUME Types, [Next]_vars, NEW c \in Browser, page[c] \in {"ended", "over"}
  PROVE  page'[c] \in {"ended", "over"}
<1>1. CASE UNCHANGED page
  BY <1>1
<1>2. ASSUME NEW b \in Browser, Open(b) \/ EndRoom(b) \/ Expire(b) \/ Leave(b) \/ CloseTab(b) \/ OnRoomEnded(b)
      PROVE  page'[c] \in {"ended", "over"}
  BY <1>2, FinishTypes DEF Open, EndRoom, Expire, Leave, CloseTab, OnRoomEnded, Mounted, Types
<1>3. QED
  BY ZenonT(60), <1>1, <1>2 DEF Next, vars, TimeUp, Release, Drop, SetFilm, SetExpire, Claim, Dial,
       ConnOpen, ConnClose, BecomeHost, Hears, OnHello, OnWelcome, OnPartnerLeft, OnHostTransfer,
       OnMediaSet, OnSettings, pageVars

\* An action that tells nobody that the room ends, and hands it to nobody.
LEMMA EndingsSame ==
  ASSUME PeerAssumption, Types, Endings, [Next]_vars,
         \A c \in Browser :
           /\ EndIsLast(chan[c]) => EndIsLast(chan'[c])
           /\ Has(chan'[c], "room_ended") => Has(chan[c], "room_ended")
           /\ Live(c)' /\ Has(chan'[c], "host_transfer")
                => Live(c) /\ Has(chan[c], "host_transfer") /\ role'[c] = role[c]
           /\ endedRef'[c] => /\ endedRef[c] /\ page'[c] = page[c]
                              /\ role'[c] = "guest" => role[c] = "guest"
  PROVE  Endings'
<1>1. \A c \in Browser : page[Other(c)] \in {"ended", "over"} => page'[Other(c)] \in {"ended", "over"}
  BY PagesEnd, Others
<1>2. QED
  BY <1>1 DEF Endings

\* Nor does a message that says neither, sent or heard.
Says(m) == m.type \in {"room_ended", "host_transfer"}

LEMMA OneMore ==
  ASSUME Types, NEW c \in Browser, NEW m \in Message, ~Says(m), chan'[c] = Append(chan[c], m)
  PROVE  /\ EndIsLast(chan[c]) => EndIsLast(chan'[c])
         /\ \A t \in {"room_ended", "host_transfer"} : Has(chan'[c], t) => Has(chan[c], t)
<1>1. chan[c] \in Seq(Message)
  BY DEF Types
<1>2. m.type # "room_ended" /\ m.type # "host_transfer"
  BY DEF Says
<1>3. \A t : Has(Append(chan[c], m), t) <=> Has(chan[c], t) \/ m.type = t
  BY <1>1, Appended
<1>4. EndIsLast(chan[c]) => EndIsLast(Append(chan[c], m))
  BY <1>1, <1>2, Appended
<1>5. QED
  BY <1>2, <1>3, <1>4

LEMMA OneLess ==
  ASSUME Types, NEW c \in Browser, chan[c] # <<>>, chan'[c] = Tail(chan[c])
  PROVE  /\ EndIsLast(chan[c]) => EndIsLast(chan'[c])
         /\ \A t : Has(chan'[c], t) => Has(chan[c], t)
<1>1. chan[c] \in Seq(Message)
  BY DEF Types
<1>2. QED
  BY <1>1, Headed

LEMMA EmptyChan == \A t : ~Has(<<>>, t) /\ EndIsLast(<<>>)
BY DEF Has, EndIsLast

LEMMA PageEndings ==
  ASSUME PeerAssumption, Types, Wired, Endings, [Next]_vars, NEW b \in Browser,
         Open(b) \/ EndRoom(b) \/ Expire(b) \/ Leave(b) \/ CloseTab(b)
  PROVE  Endings'
<1>1. CASE Open(b)
  <2>1. /\ ~Mounted(b) /\ UNCHANGED <<chan, endedRef, up, link>>
        /\ \A c \in Browser : c # b => page'[c] = page[c] /\ role'[c] = role[c]
    BY <1>1 DEF Open, Mounted, Types
  <2>2. ~endedRef[b] /\ ~Live(b)
    BY <2>1 DEF Wired, Live
  <2>3. \A c \in Browser : Live(c)' <=> Live(c)
    BY <2>1 DEF Live
  <2>4. QED
    BY <2>1, <2>2, <2>3, EndingsSame
<1>2. CASE EndRoom(b)
  <2>1. /\ page[b] = "in" /\ role[b] = "host" /\ UNCHANGED <<role, up, link>>
        /\ \A c \in Browser : c # b => endedRef'[c] = endedRef[c] /\ page'[c] = page[c]
        /\ page'[b] = "ended"
    BY <1>2, FinishTypes DEF EndRoom, Types
  <2>2. [type |-> "room_ended"] \in Message /\ Sends(b, <<[type |-> "room_ended"]>>)
    BY <1>2, MessageTypes DEF EndRoom, Plainly
  <2>3. /\ chan'[b] = chan[b]
        /\ chan'[Other(b)] = chan[Other(b)] \/ chan'[Other(b)] = Append(chan[Other(b)], [type |-> "room_ended"])
    BY <2>2, SendsOne
  <2>4. /\ EndIsLast(chan'[Other(b)])
        /\ Has(chan'[Other(b)], "host_transfer") => Has(chan[Other(b)], "host_transfer")
    <3> DEFINE o == Other(b)
               m == [type |-> "room_ended"]
    <3>1. o \in Browser /\ chan[o] \in Seq(Message) /\ m \in Message /\ m.type = "room_ended"
      BY <2>2, Others DEF Types
    <3>2. EndIsLast(chan[o])
      BY <3>1 DEF Endings
    <3> HIDE DEF m
    <3>3. EndIsLast(Append(chan[o], m))
      BY <3>1, <3>2, Appended
    <3>4. Has(Append(chan[o], m), "host_transfer") => Has(chan[o], "host_transfer")
      BY <3>1, Appended
    <3>5. QED
      BY <2>3, <3>2, <3>3, <3>4 DEF m
  <2>5. \A c \in Browser : Live(c)' <=> Live(c)
    BY <2>1 DEF Live
  <2>6. \A c \in Browser : page[c] \in {"ended", "over"} => page'[c] \in {"ended", "over"}
    BY PagesEnd
  <2>7. /\ EndIsLast(chan'[b]) /\ (endedRef'[b] => page'[b] = "ended")
        /\ (endedRef'[b] /\ role'[b] = "guest") \/ Has(chan'[b], "room_ended")
             => page'[Other(b)] \in {"ended", "over"}
        /\ Live(b)' /\ Has(chan'[b], "host_transfer") => role'[b] = "guest" /\ ~endedRef'[b]
    BY <2>1, <2>3, <2>5, <2>6, Others DEF Endings
  <2>8. /\ endedRef'[Other(b)] => page'[Other(b)] = "ended"
        /\ page'[Other(Other(b))] \in {"ended", "over"}
        /\ Live(Other(b))' /\ Has(chan'[Other(b)], "host_transfer")
             => role'[Other(b)] = "guest" /\ ~endedRef'[Other(b)]
    BY <2>1, <2>4, <2>5, <2>6, Others DEF Endings
  <2>9. QED
    BY <2>4, <2>7, <2>8, Others DEF Endings
<1>3. CASE Expire(b) /\ ~EndRoom(b)
  <2>1. /\ page[b] = "in" /\ UNCHANGED <<chan, endedRef, up, link, role>>
        /\ \A c \in Browser : c # b => page'[c] = page[c]
    BY <1>3, FinishTypes DEF Expire
  <2>2. ~endedRef[b]
    BY <2>1 DEF Endings
  <2>3. \A c \in Browser : Live(c)' <=> Live(c)
    BY <2>1 DEF Live
  <2>4. QED
    BY <2>1, <2>2, <2>3, EndingsSame
<1>4. CASE Leave(b) \/ CloseTab(b)
  <2>1. /\ Destroys(b, "none") /\ ~endedRef'[b]
        /\ \A c \in Browser : c # b => /\ endedRef'[c] = endedRef[c] /\ page'[c] = page[c]
                                       /\ role'[c] = role[c]
    BY <1>4 DEF Leave, CloseTab, Unmounts, Types
  <2>2. ~Live(b)' /\ \A c \in Browser : Live(c)' => up[c]
    BY <2>1, DestroysTypes DEF Live
  <2>3. \A c \in Browser : Live(c)' => Live(c) /\ c # b
    BY <2>2 DEF Live
  <2>4. CASE chan' = chan
    BY <2>1, <2>3, <2>4, EndingsSame
  <2>5. CASE Sends(b, Plainly("partner_left")) /\ chan' # chan
    <3>1. [type |-> "partner_left"] \in Message
      BY MessageTypes
    <3>2. /\ chan'[b] = chan[b]
          /\ chan'[Other(b)] = Append(chan[Other(b)], [type |-> "partner_left"])
      BY <2>5, <3>1, SendsOne DEF Plainly
    <3>3. \A c \in Browser :
            /\ EndIsLast(chan[c]) => EndIsLast(chan'[c])
            /\ Has(chan'[c], "room_ended") => Has(chan[c], "room_ended")
            /\ Has(chan'[c], "host_transfer") => Has(chan[c], "host_transfer")
      BY <3>1, <3>2, OneMore, Others DEF Says
    <3>4. QED
      BY <2>1, <2>3, <3>3, EndingsSame
  <2>6. CASE /\ page[b] = "in" /\ role[b] = "host" /\ chan' # chan
             /\ Sends(b, Plainly("host_transfer") \o Plainly("partner_left"))
    <3> DEFINE o == Other(b)
               C == Append(chan[o], [type |-> "host_transfer"])
    <3>1. [type |-> "partner_left"] \in Message /\ [type |-> "host_transfer"] \in Message
      BY MessageTypes
    <3>2. /\ up[b] /\ link = "up" /\ chan'[b] = chan[b]
          /\ chan'[o] = Append(C, [type |-> "partner_left"])
      BY <2>6, <3>1, SendsTwo DEF Plainly
    <3>3. role[o] = "guest" /\ o \in Browser /\ Other(o) = b
      BY <2>6, <3>2, RolesDiffer, Others
    <3>4. ~Has(chan[o], "room_ended") /\ ~endedRef[o] /\ EndIsLast(chan[o])
      BY <2>6, <3>3 DEF Endings
    <3>5. chan[o] \in Seq(Message) /\ C \in Seq(Message)
      BY <3>1, <3>3 DEF Types
    <3>6. EndIsLast(C) /\ ~Has(C, "room_ended")
      <4> DEFINE m == [type |-> "host_transfer"]
      <4>1. m \in Message /\ m.type = "host_transfer"
        BY <3>1
      <4> HIDE DEF m
      <4>2. EndIsLast(Append(chan[o], m)) /\ ~Has(Append(chan[o], m), "room_ended")
        BY <3>4, <3>5, <4>1, Appended
      <4>3. QED
        BY <4>2 DEF m
    <3>7. EndIsLast(chan'[o]) /\ ~Has(chan'[o], "room_ended")
      <4> DEFINE m == [type |-> "partner_left"]
      <4>1. m \in Message /\ m.type = "partner_left"
        BY <3>1
      <4> HIDE DEF C, m
      <4>2. EndIsLast(Append(C, m)) /\ ~Has(Append(C, m), "room_ended")
        BY <3>5, <3>6, <4>1, Appended
      <4>3. QED
        BY <3>2, <4>2 DEF m
    <3> HIDE DEF o
    <3>8. \A c \in Browser : page[c] \in {"ended", "over"} => page'[c] \in {"ended", "over"}
      BY PagesEnd
    <3>9. role'[o] = "guest" /\ ~endedRef'[o] /\ o # b
      BY <2>1, <3>3, <3>4, Others DEF o
    <3>10. \A c \in Browser : c = b \/ c = o
      BY Others DEF o
    <3>11. /\ EndIsLast(chan'[b]) /\ ~endedRef'[b] /\ ~Live(b)' /\ Other(b) = o
           /\ Has(chan'[b], "room_ended") => page'[o] \in {"ended", "over"}
      <4>1. EndIsLast(chan[b]) /\ (Has(chan[b], "room_ended") => page[Other(b)] \in {"ended", "over"})
        BY DEF Endings
      <4>2. Other(b) = o /\ o \in Browser
        BY <3>3 DEF o
      <4>3. chan'[b] = chan[b] /\ ~endedRef'[b] /\ ~Live(b)'
        BY <2>1, <2>2, <3>2
      <4>4. QED
        BY <3>8, <4>1, <4>2, <4>3
    <3>12. QED
      BY <3>3, <3>7, <3>9, <3>10, <3>11 DEF Endings
  <2>7. QED
    BY <1>4, <2>4, <2>5, <2>6 DEF Leave, CloseTab
<1>5. QED
  BY <1>1, <1>2, <1>3, <1>4

LEMMA NetEndings ==
  ASSUME PeerAssumption, Types, Wired, Endings, [Next]_vars, NEW b \in Browser,
         Claim(b) \/ Dial(b) \/ ConnOpen(b) \/ ConnClose(b) \/ BecomeHost(b)
  PROVE  Endings'
<1>1. CASE Claim(b)
  BY <1>1, EndingsSame DEF Claim, pageVars, Live
<1>2. CASE Dial(b)
  <2>1. UNCHANGED <<endedRef, page, role>>
    BY <1>2 DEF Dial, pageVars
  <2>2. CASE chan' = [c \in Browser |-> <<>>]
    <3>1. \A c \in Browser : chan'[c] = <<>>
      BY <2>2
    <3>2. QED
      BY <2>1, <3>1, EmptyChan, EndingsSame
  <2>3. CASE UNCHANGED <<link, chan, up>>
    BY <2>1, <2>3, EndingsSame DEF Live
  <2>4. QED
    BY <1>2, <2>2, <2>3 DEF Dial
<1>3. CASE ConnOpen(b)
  <2>1. /\ UNCHANGED <<endedRef, page, role, link>> /\ link = "up"
        /\ chan'[b] = chan[b] /\ chan'[Other(b)] = Append(chan[Other(b)], [type |-> "hello"])
    BY <1>3, Others DEF ConnOpen, Types
  <2>2. [type |-> "hello"] \in Message
    BY MessageTypes
  <2>3. \A c \in Browser :
          /\ EndIsLast(chan[c]) => EndIsLast(chan'[c])
          /\ Has(chan'[c], "room_ended") => Has(chan[c], "room_ended")
          /\ Has(chan'[c], "host_transfer") => Has(chan[c], "host_transfer")
    BY <2>1, <2>2, OneMore, Others DEF Says
  <2>4. \A c \in Browser : Live(c)
    BY <2>1 DEF Live
  <2>5. QED
    BY <2>1, <2>3, <2>4, EndingsSame
<1>4. CASE ConnClose(b)
  <2>1. /\ UNCHANGED <<endedRef, page, role>> /\ (link' = "up" => link = "up")
        /\ \A c \in Browser : chan'[c] = chan[c] \/ chan'[c] = <<>>
        /\ \A c \in Browser : up'[c] => up[c]
    <3>1. UNCHANGED <<endedRef, page, role>> /\ (link' = "up" => link = "up")
      BY <1>4 DEF ConnClose
    <3>2. up' = up \/ up' = [up EXCEPT ![b] = FALSE]
      BY <1>4 DEF ConnClose
    <3>3. chan' = chan \/ chan' = [chan EXCEPT ![b] = <<>>]
      BY <1>4 DEF ConnClose
    <3>4. \A c \in Browser : up'[c] => up[c]
      BY ZenonT(60), <3>2 DEF Types
    <3>5. \A c \in Browser : chan'[c] = chan[c] \/ chan'[c] = <<>>
      BY <3>3 DEF Types
    <3>6. QED
      BY <3>1, <3>4, <3>5
  <2>2. \A c \in Browser : Live(c)' => Live(c)
    BY <2>1 DEF Live
  <2>3. QED
    BY <2>1, <2>2, EmptyChan, EndingsSame
<1>5. CASE BecomeHost(b)
  <2>1. /\ UNCHANGED <<endedRef, page, chan>> /\ role'[b] = "host"
        /\ \A c \in Browser : c # b => role'[c] = role[c]
    BY <1>5 DEF BecomeHost, Types
  <2>2. ~Live(b)' /\ \A c \in Browser : Live(c)' => Live(c)
    <3>1. CASE Mounted(b)
      <4>1. Destroys(b, "claiming")
        BY <1>5, <3>1 DEF BecomeHost
      <4>2. QED
        BY <4>1, DestroysTypes DEF Live
    <3>2. CASE ~Mounted(b)
      BY <1>5, <3>2 DEF BecomeHost, Wired, Live
    <3>3. QED
      BY <3>1, <3>2
  <2>3. QED
    BY <2>1, <2>2, EndingsSame
<1>6. QED
  BY <1>1, <1>2, <1>3, <1>4, <1>5

LEMMA HearsEndings ==
  ASSUME PeerAssumption, Types, Wired, Endings, [Next]_vars, NEW b \in Browser, Hears(b)
  PROVE  Endings'
<1>1. /\ up[b] /\ Mounted(b) /\ chan[b] # <<>> /\ UNCHANGED <<role, link, up>>
      /\ \A c \in Browser : Live(c)' <=> Live(c)
  BY DEF Hears, OnHello, OnWelcome, OnPartnerLeft, OnHostTransfer, OnMediaSet, OnSettings, OnRoomEnded,
         Takes, netRest, Live
<1>2. ASSUME Taken(b)
      PROVE  /\ chan'[b] = Tail(chan[b]) /\ \A c \in Browser : c # b => chan'[c] = chan[c]
             /\ \A c \in Browser : EndIsLast(chan[c]) => EndIsLast(chan'[c])
             /\ \A c \in Browser : \A t : Has(chan'[c], t) => Has(chan[c], t)
  <2>1. chan'[b] = Tail(chan[b]) /\ \A c \in Browser : c # b => chan'[c] = chan[c]
    BY <1>2 DEF Taken, Types
  <2>2. QED
    BY <1>1, <2>1, OneLess
<1>3. CASE OnHello(b)
  <2> DEFINE m == [type |-> "welcome", expires |-> expires[b], film |-> film[b]]
  <2>1. /\ UNCHANGED <<endedRef, page>> /\ chan'[b] = Tail(chan[b])
        /\ chan'[Other(b)] = Append(chan[Other(b)], m) \/ chan'[Other(b)] = chan[Other(b)]
    BY <1>3, Others DEF OnHello, Types
  <2>2. m \in Message /\ ~Says(m)
    BY DEF Types, Message, Welcome, Says
  <2> HIDE DEF m
  <2>3. /\ EndIsLast(chan[b]) => EndIsLast(chan'[b])
        /\ \A t \in {"room_ended", "host_transfer"} : Has(chan'[b], t) => Has(chan[b], t)
    BY <1>1, <2>1, OneLess
  <2>4. /\ EndIsLast(chan[Other(b)]) => EndIsLast(chan'[Other(b)])
        /\ \A t \in {"room_ended", "host_transfer"} : Has(chan'[Other(b)], t) => Has(chan[Other(b)], t)
    <3>1. CASE chan'[Other(b)] = Append(chan[Other(b)], m)
      BY <2>2, <3>1, OneMore, Others
    <3>2. CASE chan'[Other(b)] = chan[Other(b)]
      BY <3>2
    <3>3. QED
      BY <2>1, <3>1, <3>2
  <2>5. \A c \in Browser :
          /\ EndIsLast(chan[c]) => EndIsLast(chan'[c])
          /\ Has(chan'[c], "room_ended") => Has(chan[c], "room_ended")
          /\ Has(chan'[c], "host_transfer") => Has(chan[c], "host_transfer")
    BY <2>3, <2>4, Others
  <2>6. QED
    BY <1>1, <2>1, <2>5, EndingsSame
<1>4. CASE OnWelcome(b) \/ OnPartnerLeft(b) \/ OnHostTransfer(b) \/ OnMediaSet(b) \/ OnSettings(b)
  <2>1. Taken(b) /\ UNCHANGED <<endedRef, page>>
    BY <1>4 DEF OnWelcome, OnPartnerLeft, OnHostTransfer, OnMediaSet, OnSettings
  <2>2. QED
    BY <1>1, <1>2, <2>1, EndingsSame
<1>5. CASE OnRoomEnded(b)
  <2>1. /\ Taken(b) /\ Head(chan[b]).type = "room_ended" /\ endedRef'[b]
        /\ \A c \in Browser : c # b => endedRef'[c] = endedRef[c] /\ page'[c] = page[c]
        /\ IF endedRef[b] THEN UNCHANGED page ELSE page'[b] = "ended"
    BY <1>5, FinishTypes DEF OnRoomEnded, Takes, Types
  <2>2. page'[b] = "ended"
    BY <2>1 DEF Endings
  <2>3. Has(chan[b], "room_ended") /\ ~Has(chan'[b], "host_transfer")
    <3>1. chan[b] \in Seq(Message) /\ EndIsLast(chan[b])
      BY DEF Types, Endings
    <3>2. QED
      BY <1>1, <1>2, <2>1, <3>1, Headed
  <2>4. \A c \in Browser : page[c] \in {"ended", "over"} => page'[c] \in {"ended", "over"}
    BY PagesEnd
  <2>5. page'[Other(b)] \in {"ended", "over"}
    BY <2>3, <2>4, Others DEF Endings
  <2>6. ASSUME NEW c \in Browser, c # b
        PROVE  /\ endedRef'[c] => page'[c] = "ended"
               /\ (endedRef'[c] /\ role'[c] = "guest") \/ Has(chan'[c], "room_ended")
                    => page'[Other(c)] \in {"ended", "over"}
               /\ Live(c)' /\ Has(chan'[c], "host_transfer") => role'[c] = "guest" /\ ~endedRef'[c]
    BY <1>1, <1>2, <2>1, <2>4, <2>6, Others DEF Endings
  <2>7. \A c \in Browser : EndIsLast(chan'[c])
    BY <1>2, <2>1 DEF Endings
  <2>8. QED
    BY <2>2, <2>3, <2>5, <2>6, <2>7 DEF Endings
<1>6. QED
  BY <1>3, <1>4, <1>5 DEF Hears

LEMMA EndingsStep == ASSUME PeerAssumption, Types, Wired, Endings, [Next]_vars PROVE Endings'
<1>1. CASE UNCHANGED <<endedRef, page, role, chan, up, link>>
  BY <1>1 DEF Endings, Live
<1>2. CASE Drop
  <2>1. UNCHANGED <<endedRef, page, role, chan, up>> /\ link = "up"
    BY <1>2 DEF Drop, pageVars
  <2>2. \A c \in Browser : Live(c)
    BY <2>1 DEF Live
  <2>3. QED
    BY <2>1, <2>2, EndingsSame
<1>3. ASSUME NEW b \in Browser, NEW m \in Message, ~Says(m), Sends(b, <<m>>),
             UNCHANGED <<endedRef, page, role, up, link>>
      PROVE  Endings'
  <2>1. /\ chan'[b] = chan[b]
        /\ chan'[Other(b)] = Append(chan[Other(b)], m) \/ chan'[Other(b)] = chan[Other(b)]
    BY <1>3, SendsOne
  <2>2. /\ EndIsLast(chan[Other(b)]) => EndIsLast(chan'[Other(b)])
        /\ \A t \in {"room_ended", "host_transfer"} : Has(chan'[Other(b)], t) => Has(chan[Other(b)], t)
    <3>1. CASE chan'[Other(b)] = Append(chan[Other(b)], m)
      BY <1>3, <3>1, OneMore, Others
    <3>2. CASE chan'[Other(b)] = chan[Other(b)]
      BY <3>2
    <3>3. QED
      BY <2>1, <3>1, <3>2
  <2>3. \A c \in Browser :
          /\ EndIsLast(chan[c]) => EndIsLast(chan'[c])
          /\ Has(chan'[c], "room_ended") => Has(chan[c], "room_ended")
          /\ Has(chan'[c], "host_transfer") => Has(chan[c], "host_transfer")
    BY <2>1, <2>2, Others
  <2>4. \A c \in Browser : Live(c)' <=> Live(c)
    BY <1>3 DEF Live
  <2>5. QED
    BY <1>3, <2>3, <2>4, EndingsSame
<1>4. ASSUME NEW b \in Browser, NEW f \in Film, SetFilm(b, f) PROVE Endings'
  <2> DEFINE m == [type |-> "media_set", film |-> f]
  <2>1. m \in Message /\ ~Says(m)
    BY DEF Message, Changes, Says
  <2>2. Sends(b, <<m>>) /\ UNCHANGED <<endedRef, page, role, up, link>>
    BY <1>4 DEF SetFilm
  <2> HIDE DEF m
  <2>3. QED
    BY <1>3, <2>1, <2>2
<1>5. ASSUME NEW b \in Browser, NEW e \in {"none", "ahead"}, SetExpire(b, e) PROVE Endings'
  <2> DEFINE m == [type |-> "settings_changed", expires |-> e]
  <2>1. m \in Message /\ ~Says(m)
    BY DEF Message, Changes, Says, Stamp
  <2>2. Sends(b, <<m>>) /\ UNCHANGED <<endedRef, page, role, up, link>>
    BY <1>5 DEF SetExpire
  <2> HIDE DEF m
  <2>3. QED
    BY <1>3, <2>1, <2>2
<1>6. CASE TimeUp \/ Release \/ UNCHANGED vars
  <2>1. UNCHANGED <<endedRef, page, role, chan, up, link>>
    BY <1>6 DEF TimeUp, Release, netVars, pageVars, vars
  <2>2. QED
    BY <1>1, <2>1
<1>7. QED
  BY <1>2, <1>4, <1>5, <1>6, PageEndings, NetEndings, HearsEndings DEF Next

\* Who hears that the room ended is not made its host by a message sent before, nor by the
\* silence of a host that has gone.
LEMMA EndedStays ==
  ASSUME Types, Endings, [Next]_vars, NEW c \in Browser, endedRef[c], ~becoming[c]
  PROVE  ~becoming'[c]
<1>1. CASE UNCHANGED becoming
  BY <1>1
<1>2. ASSUME NEW b \in Browser, OnHostTransfer(b) PROVE ~becoming'[c]
  <2>1. Live(b) /\ chan[b] # <<>> /\ Head(chan[b]).type = "host_transfer"
        /\ \A d \in Browser : d # b => becoming'[d] = becoming[d]
    BY <1>2 DEF OnHostTransfer, Takes, Live, Types
  <2>2. Has(chan[b], "host_transfer")
    BY <2>1, Headed DEF Types
  <2>3. ~endedRef[b]
    BY <2>1, <2>2 DEF Endings
  <2>4. QED
    BY <2>1, <2>3
<1>3. ASSUME NEW b \in Browser, Leave(b) \/ CloseTab(b) \/ ConnClose(b) \/ BecomeHost(b)
      PROVE  ~becoming'[c]
  <2>1. CASE Leave(b)
    BY <2>1 DEF Leave, Types
  <2>2. CASE CloseTab(b)
    BY <2>2 DEF CloseTab, Types
  <2>3. CASE ConnClose(b)
    <3>1. endedRef[b] => UNCHANGED becoming
      BY <2>3 DEF ConnClose, HearsClose
    <3>2. \A d \in Browser : d # b => becoming'[d] = becoming[d]
      BY <2>3 DEF ConnClose, HearsClose, Types
    <3>3. QED
      BY <3>1, <3>2
  <2>4. CASE BecomeHost(b)
    BY <2>4 DEF BecomeHost, Types
  <2>5. QED
    BY <1>3, <2>1, <2>2, <2>3, <2>4
<1>4. QED
  BY ZenonT(60), <1>1, <1>2, <1>3 DEF Next, vars, TimeUp, Release, Drop, Open, EndRoom, Expire,
       SetFilm, SetExpire, Claim, Dial, ConnOpen, Hears, OnHello, OnWelcome, OnPartnerLeft,
       OnMediaSet, OnSettings, OnRoomEnded, pageVars

LEMMA InitRest ==
  ASSUME PeerAssumption, Init
  PROVE  Wired /\ Endings
<1>1. /\ page = [b \in Browser |-> "away"] /\ endedRef = [b \in Browser |-> FALSE]
      /\ film = [b \in Browser |-> NoFilm] /\ peer = [b \in Browser |-> "none"]
      /\ up = [b \in Browser |-> FALSE] /\ chan = [b \in Browser |-> <<>>] /\ link = "none"
  BY DEF Init
<1>2. \A b \in Browser : /\ page[b] = "away" /\ ~endedRef[b] /\ film[b] = NoFilm /\ peer[b] = "none"
                         /\ ~up[b] /\ chan[b] = <<>>
  BY <1>1
<1>3. Wired
  BY <1>1, <1>2 DEF Wired, Mounted
<1>4. Endings
  BY <1>1, <1>2, EmptyChan DEF Endings, Live
<1>5. QED
  BY <1>3, <1>4

\* A guest that has heard "room_ended" is not made the host of that room afterwards: not by a
\* host_transfer still under way, not when the channel closes, not by leaving itself.
THEOREM EndedIsNoHeir == ASSUME PeerAssumption PROVE Spec => NoHeirOfAnEndedRoom
<1> DEFINE IInv == Types /\ Wired /\ Endings
<1>1. Init => IInv
  BY InitTypes, InitRest
<1>2. IInv /\ [Next]_vars => IInv'
  BY TypeStep, WiredStep, EndingsStep
<1>3. IInv /\ [Next]_vars => \A b \in Browser : endedRef[b] /\ ~becoming[b] => ~becoming'[b]
  BY EndedStays
<1>4. QED
  BY <1>1, <1>2, <1>3, PTL DEF Spec, NoHeirOfAnEndedRoom

-----------------------------------------------------------------------------
(* The film of the host. *)

HelloFirst(C) == \A i \in 1..Len(C) : i > 1 => C[i].type # "hello"
NoFilms(C) == \A i \in 1..Len(C) : ~Carries(C[i])

\* An end that is not open has sent nothing; a hello is the first message of its sender.
Greetings ==
  link = "up" => \A b \in Browser :
    /\ ~up[b] => chan[Other(b)] = <<>>
    /\ HelloFirst(chan[b])
    /\ up[b] /\ ~up[Other(b)] => Has(chan[Other(b)], "hello")

\* A guest has no film before the host has greeted it, and none to tell; once the host has taken
\* the guest's hello, the last film on its way to the guest is the host's.
FilmsOf(g, h) ==
  /\ ~up[g] \/ ~up[h] \/ Has(chan[g], "hello") => film[g] = NoFilm
  /\ NoFilms(chan[h])
  /\ up[g] /\ up[h] /\ ~Has(chan[h], "hello") /\ page[g] = "in" /\ page[h] = "in" /\ film[h] # NoFilm
       => LastFilm(chan[g], film[g], film[h])
Films == link = "up" => \A g \in Browser : role[g] = "guest" => FilmsOf(g, Other(g))

LEMMA AppendedHello ==
  ASSUME NEW C \in Seq(Message), NEW m \in Message
  PROVE  /\ HelloFirst(C) /\ m.type # "hello" => HelloFirst(Append(C, m))
         /\ NoFilms(C) /\ ~Carries(m) => NoFilms(Append(C, m))
<1> DEFINE D == Append(C, m)
<1>1. /\ Len(C) \in Nat /\ Len(D) = Len(C) + 1 /\ D[Len(C) + 1] = m
      /\ \A i \in 1..Len(C) : D[i] = C[i]
      /\ \A i \in 1..Len(D) : i \in 1..Len(C) \/ i = Len(C) + 1
  OBVIOUS
<1> HIDE DEF D
<1>2. HelloFirst(C) /\ m.type # "hello" => HelloFirst(D)
  BY <1>1 DEF HelloFirst
<1>3. NoFilms(C) /\ ~Carries(m) => NoFilms(D)
  BY <1>1 DEF NoFilms
<1>4. QED
  BY <1>2, <1>3 DEF D

LEMMA HeadedHello ==
  ASSUME NEW C \in Seq(Message), C # <<>>
  PROVE  /\ HelloFirst(C) => ~Has(Tail(C), "hello") /\ HelloFirst(Tail(C))
         /\ NoFilms(C) => NoFilms(Tail(C)) /\ ~Carries(Head(C))
<1> DEFINE D == Tail(C)
<1>1. /\ Len(C) \in Nat \ {0} /\ Len(D) = Len(C) - 1 /\ C[1] = Head(C) /\ D \in Seq(Message)
      /\ 1 \in 1..Len(C)
      /\ \A i \in 1..Len(D) : D[i] = C[i + 1] /\ i + 1 \in 1..Len(C) /\ i + 1 > 1
  OBVIOUS
<1> HIDE DEF D
<1>2. HelloFirst(C) => ~Has(D, "hello") /\ HelloFirst(D)
  BY <1>1 DEF HelloFirst, Has
<1>3. NoFilms(C) => NoFilms(D) /\ ~Carries(Head(C))
  BY <1>1 DEF NoFilms
<1>4. QED
  BY <1>2, <1>3 DEF D

LEMMA EmptyHello ==
  /\ HelloFirst(<<>>) /\ NoFilms(<<>>) /\ ~Has(<<>>, "hello")
  /\ \A m : m.type = "hello" => /\ HelloFirst(<<m>>) /\ NoFilms(<<m>>) /\ Has(<<m>>, "hello")
                               /\ ~Carries(m)
BY DEF HelloFirst, NoFilms, Has, Carries

\* A browser keeps its film and its page, or is at its end and without film.
Rests(c) == (film'[c] = film[c] /\ page'[c] = page[c]) \/ (film'[c] = NoFilm /\ page'[c] = "ended")

\* A channel is new when a guest dials, and carries nothing yet.
LEMMA NewLink ==
  ASSUME PeerAssumption, Types, Wired, [Next]_vars, link # "up", link' = "up"
  PROVE  /\ \A c \in Browser : ~up'[c] /\ chan'[c] = <<>>
         /\ \A c \in Browser : role'[c] = "guest" => film'[c] = NoFilm
<1>1. ASSUME NEW b \in Browser, Destroys(b, "none") \/ Destroys(b, "claiming") PROVE FALSE
  BY <1>1 DEF Destroys
<1>2. PICK b \in Browser : Dial(b)
  <2>1. UNCHANGED link \/ Drop \/ \E b \in Browser : Dial(b) \/ Leave(b) \/ CloseTab(b) \/ ConnClose(b) \/ BecomeHost(b)
    BY ZenonT(60) DEF Next, vars, TimeUp, Release, netVars, Open, EndRoom, Expire, SetFilm, SetExpire,
           Claim, ConnOpen, Hears, OnHello, OnWelcome, OnPartnerLeft, OnHostTransfer, OnMediaSet,
           OnSettings, OnRoomEnded, netRest
  <2>2. ~Drop
    BY DEF Drop
  <2>3. ASSUME NEW b \in Browser, Leave(b) \/ CloseTab(b) PROVE FALSE
    BY <1>1, <2>3 DEF Leave, CloseTab, Unmounts
  <2>4. ASSUME NEW b \in Browser, ConnClose(b) PROVE FALSE
    BY <2>4 DEF ConnClose
  <2>5. ASSUME NEW b \in Browser, BecomeHost(b) PROVE FALSE
    BY <1>1, <2>5 DEF BecomeHost
  <2>6. QED
    BY <2>1, <2>2, <2>3, <2>4, <2>5
<1>3. /\ role[b] = "guest" /\ peer[b] = "claiming" /\ owner = Other(b) /\ role[owner] = "host"
      /\ chan' = [c \in Browser |-> <<>>] /\ up' = [c \in Browser |-> FALSE]
      /\ UNCHANGED <<role, film>>
  BY <1>2 DEF Dial, pageVars
<1>4. film[b] = NoFilm /\ role[Other(b)] = "host"
  BY <1>3 DEF Wired
<1>5. QED
  BY <1>3, <1>4, Others

\* What may happen while a channel stays up.
LEMMA UpCases ==
  ASSUME PeerAssumption, Types, Wired, [Next]_vars, link = "up", link' = "up"
  PROVE  /\ UNCHANGED role
         /\ \/ UNCHANGED <<chan, up>> /\ \A c \in Browser : Rests(c)
            \/ \E b \in Browser, m \in Message :
                 /\ ~Carries(m) /\ m.type # "hello" /\ Sends(b, <<m>>) /\ UNCHANGED up
                 /\ \A c \in Browser : Rests(c)
            \/ \E b \in Browser, f \in Film : SetFilm(b, f)
            \/ \E b \in Browser : ConnOpen(b) \/ Hears(b)
<1>1. \A b \in Browser : Mounted(b) /\ page[b] # "away" /\ peer[b] = "open"
  BY DEF Wired, Mounted
<1>2. ASSUME NEW b \in Browser, Destroys(b, "none") \/ Destroys(b, "claiming") PROVE FALSE
  BY <1>2 DEF Destroys
<1>3. ~Drop /\ \A b \in Browser : ~(Open(b) \/ Leave(b) \/ CloseTab(b) \/ Claim(b) \/ Dial(b) \/ BecomeHost(b))
  <2>1. ~Drop
    BY DEF Drop
  <2>2. ASSUME NEW b \in Browser, Open(b) \/ Claim(b) \/ Dial(b) PROVE FALSE
    BY <1>1, <2>2 DEF Open, Claim, Dial
  <2>3. ASSUME NEW b \in Browser, Leave(b) \/ CloseTab(b) \/ BecomeHost(b) PROVE FALSE
    BY <1>1, <1>2, <2>3 DEF Leave, CloseTab, Unmounts, BecomeHost
  <2>4. QED
    BY <2>1, <2>2, <2>3
<1>4. CASE TimeUp \/ Release \/ UNCHANGED vars
  BY <1>4 DEF TimeUp, Release, netVars, pageVars, vars, Rests
<1>5. ASSUME NEW b \in Browser, EndRoom(b)
      PROVE  /\ UNCHANGED <<role, up>> /\ \A c \in Browser : Rests(c)
             /\ [type |-> "room_ended"] \in Message /\ Sends(b, <<[type |-> "room_ended"]>>)
  <2>1. UNCHANGED <<role, up>> /\ Finish(b) /\ Sends(b, <<[type |-> "room_ended"]>>)
    BY <1>5 DEF EndRoom, Plainly
  <2>2. \A c \in Browser : Rests(c)
    BY <2>1 DEF Finish, Rests, Types
  <2>3. QED
    BY <2>1, <2>2, MessageTypes
<1>6. ASSUME NEW b \in Browser, Expire(b), ~EndRoom(b)
      PROVE  UNCHANGED <<chan, up, role>> /\ \A c \in Browser : Rests(c)
  <2>1. UNCHANGED <<chan, up, role>> /\ Finish(b)
    BY <1>6 DEF Expire
  <2>2. QED
    BY <2>1 DEF Finish, Rests, Types
<1>7. ASSUME NEW b \in Browser, NEW e \in {"none", "ahead"}, SetExpire(b, e)
      PROVE  /\ UNCHANGED <<role, up>> /\ \A c \in Browser : Rests(c)
             /\ [type |-> "settings_changed", expires |-> e] \in Message
             /\ Sends(b, <<[type |-> "settings_changed", expires |-> e]>>)
  BY <1>7 DEF SetExpire, Rests, Message, Changes, Stamp
<1>8. ASSUME NEW b \in Browser, ConnClose(b) PROVE UNCHANGED <<chan, up, role, film, page>>
  BY <1>8 DEF ConnClose
<1>9. ASSUME NEW b \in Browser, (\E f \in Film : SetFilm(b, f)) \/ ConnOpen(b) \/ Hears(b)
      PROVE  UNCHANGED role
  BY <1>9 DEF SetFilm, ConnOpen, Hears, OnHello, OnWelcome, OnPartnerLeft, OnHostTransfer, OnMediaSet,
              OnSettings, OnRoomEnded
<1>10. ASSUME NEW b \in Browser, NEW m \in Message, m.type \in {"room_ended", "settings_changed"},
              Sends(b, <<m>>), UNCHANGED up, \A c \in Browser : Rests(c)
       PROVE  \E b1 \in Browser, m1 \in Message :
                /\ ~Carries(m1) /\ m1.type # "hello" /\ Sends(b1, <<m1>>) /\ UNCHANGED up
                /\ \A c \in Browser : Rests(c)
  BY <1>10 DEF Carries
<1>11. CASE \E b \in Browser : EndRoom(b) \/ \E e \in {"none", "ahead"} : SetExpire(b, e)
  BY <1>5, <1>7, <1>10, <1>11
<1>12. CASE \E b \in Browser : (Expire(b) /\ ~EndRoom(b)) \/ ConnClose(b)
  BY <1>6, <1>8, <1>12 DEF Rests
<1>13. QED
  BY <1>3, <1>4, <1>9, <1>11, <1>12 DEF Next

\* What a step adds to a channel that stays up, or takes from it.
LEMMA GreetingsStep ==
  ASSUME PeerAssumption, Types, Wired, Greetings, [Next]_vars
  PROVE  Greetings'
<1> SUFFICES ASSUME link' = "up"
             PROVE  \A b \in Browser : /\ ~up'[b] => chan'[Other(b)] = <<>>
                                       /\ HelloFirst(chan'[b])
                                       /\ up'[b] /\ ~up'[Other(b)] => Has(chan'[Other(b)], "hello")
  BY DEF Greetings
<1>1. CASE link # "up"
  BY <1>1, NewLink, EmptyHello, Others
<1>2. CASE link = "up" /\ UNCHANGED <<chan, up>>
  BY <1>2 DEF Greetings
<1>3. ASSUME link = "up", NEW b \in Browser, NEW m \in Message, m.type # "hello", Sends(b, <<m>>), UNCHANGED up
      PROVE  \A c \in Browser : /\ ~up'[c] => chan'[Other(c)] = <<>>
                                /\ HelloFirst(chan'[c])
                                /\ up'[c] /\ ~up'[Other(c)] => Has(chan'[Other(c)], "hello")
  <2> DEFINE o == Other(b)
  <2>1. o \in Browser /\ o # b /\ Other(o) = b /\ (\A c \in Browser : c = b \/ c = o) /\ Other(b) = o
    BY Others
  <2> HIDE DEF o
  <2>2. CASE ~up[b]
    <3>1. chan' = chan
      BY <1>3, <2>2, SendsOne
    <3>2. QED
      BY <1>3, <3>1 DEF Greetings
  <2>3. CASE up[b]
    <3>1. chan'[b] = chan[b] /\ chan'[o] = Append(chan[o], m)
      BY <1>3, <2>1, <2>3, SendsOne
    <3>2. chan[o] \in Seq(Message)
      BY <2>1 DEF Types
    <3>3. Has(chan[o], "hello") => Has(chan'[o], "hello")
      BY <3>1, <3>2, Appended
    <3>4. HelloFirst(chan[o]) => HelloFirst(chan'[o])
      BY <1>3, <3>1, <3>2, AppendedHello
    <3>5. QED
      BY <1>3, <2>1, <2>3, <3>1, <3>3, <3>4 DEF Greetings
  <2>4. QED
    BY <2>2, <2>3
<1>4. ASSUME link = "up", NEW b \in Browser, NEW f \in Film, SetFilm(b, f)
      PROVE  \A c \in Browser : /\ ~up'[c] => chan'[Other(c)] = <<>>
                                /\ HelloFirst(chan'[c])
                                /\ up'[c] /\ ~up'[Other(c)] => Has(chan'[Other(c)], "hello")
  <2> DEFINE m == [type |-> "media_set", film |-> f]
  <2>1. m \in Message /\ m.type # "hello" /\ Sends(b, <<m>>) /\ UNCHANGED up
    BY <1>4 DEF SetFilm, Message, Changes
  <2> HIDE DEF m
  <2>2. QED
    BY <1>3, <1>4, <2>1
<1>5. ASSUME link = "up", NEW b \in Browser, ConnOpen(b)
      PROVE  \A c \in Browser : /\ ~up'[c] => chan'[Other(c)] = <<>>
                                /\ HelloFirst(chan'[c])
                                /\ up'[c] /\ ~up'[Other(c)] => Has(chan'[Other(c)], "hello")
  <2> DEFINE o == Other(b)
             m == [type |-> "hello"]
  <2>1. o \in Browser /\ o # b /\ Other(o) = b /\ (\A c \in Browser : c = b \/ c = o) /\ Other(b) = o
    BY Others
  <2>2. ~up[b] /\ chan'[o] = Append(chan[o], m) /\ chan'[b] = chan[b]
    BY <1>5, <2>1 DEF ConnOpen, Types
  <2>3. up'[b] /\ up'[o] = up[o]
    BY <1>5, <2>1 DEF ConnOpen, Types
  <2>4. chan'[o] = <<m>> /\ m.type = "hello"
    <3>1. chan[o] = <<>>
      BY <1>5, <2>1, <2>2 DEF Greetings
    <3>2. QED
      BY <2>2, <3>1
  <2> HIDE DEF o, m
  <2>5. HelloFirst(chan'[o]) /\ Has(chan'[o], "hello")
    BY <2>4, EmptyHello
  <2>6. QED
    BY <1>5, <2>1, <2>2, <2>3, <2>5 DEF Greetings
<1>6. ASSUME link = "up", NEW b \in Browser, Hears(b)
      PROVE  \A c \in Browser : /\ ~up'[c] => chan'[Other(c)] = <<>>
                                /\ HelloFirst(chan'[c])
                                /\ up'[c] /\ ~up'[Other(c)] => Has(chan'[Other(c)], "hello")
  <2> DEFINE o == Other(b)
             m == [type |-> "welcome", expires |-> expires[b], film |-> film[b]]
  <2>1. o \in Browser /\ o # b /\ Other(o) = b /\ (\A c \in Browser : c = b \/ c = o) /\ Other(b) = o
    BY Others
  <2>2. up[b] /\ chan[b] # <<>> /\ UNCHANGED up
    BY <1>6 DEF Hears, OnHello, OnWelcome, OnPartnerLeft, OnHostTransfer, OnMediaSet, OnSettings, OnRoomEnded,
                Takes, netRest
  <2>3. /\ chan'[b] = Tail(chan[b])
        /\ chan'[o] = chan[o] \/ chan'[o] = Append(chan[o], m)
    BY SMTT(30), <1>6, <2>1 DEF Hears, OnHello, OnWelcome, OnPartnerLeft, OnHostTransfer, OnMediaSet,
                      OnSettings, OnRoomEnded, Taken, Types
  <2>4. m \in Message /\ m.type # "hello"
    BY DEF Types, Message, Welcome
  <2>5. chan[b] \in Seq(Message) /\ chan[o] \in Seq(Message)
    BY <2>1 DEF Types
  <2>6. HelloFirst(chan[b]) /\ HelloFirst(chan[o]) /\ (~up[o] => chan[b] = <<>>)
    BY <1>6, <2>1 DEF Greetings
  <2> HIDE DEF o, m
  <2>7. HelloFirst(chan'[b])
    BY <2>2, <2>3, <2>5, <2>6, HeadedHello
  <2>8. HelloFirst(chan'[o])
    BY <2>3, <2>4, <2>5, <2>6, AppendedHello
  <2>9. QED
    BY <2>1, <2>2, <2>6, <2>7, <2>8
<1>7. QED
  BY <1>1, <1>2, <1>3, <1>4, <1>5, <1>6, UpCases

\* The invariant of the film over the life of one channel: the guest's hello and the host's are
\* taken in either order, and the welcome carries the film of the moment it is sent.
LEMMA FilmsKept ==
  ASSUME PeerAssumption, Types, Wired, Endings, Greetings, [Next]_vars, link = "up", link' = "up",
         NEW g \in Browser, NEW h \in Browser, h # g, h = Other(g), g = Other(h),
         \A c \in Browser : c = g \/ c = h, role[g] = "guest", FilmsOf(g, h)
  PROVE  FilmsOf(g, h)'
<1>1. /\ chan[g] \in Seq(Message) /\ chan[h] \in Seq(Message) /\ role[h] = "host"
      /\ ~up[g] => chan[h] = <<>>
      /\ ~up[h] => chan[g] = <<>>
      /\ HelloFirst(chan[g]) /\ HelloFirst(chan[h])
      /\ up[g] /\ ~up[h] => Has(chan[h], "hello")
  BY RolesDiffer DEF Types, Greetings
<1>2. /\ ~up[g] \/ ~up[h] \/ Has(chan[g], "hello") => film[g] = NoFilm
      /\ NoFilms(chan[h])
      /\ up[g] /\ up[h] /\ ~Has(chan[h], "hello") /\ page[g] = "in" /\ page[h] = "in" /\ film[h] # NoFilm
           => LastFilm(chan[g], film[g], film[h])
  BY DEF FilmsOf
<1>10. \A m \in Message : /\ Has(Append(chan[g], m), "hello") <=> Has(chan[g], "hello") \/ m.type = "hello"
                          /\ Has(Append(chan[h], m), "hello") <=> Has(chan[h], "hello") \/ m.type = "hello"
  <2>1. ASSUME NEW m \in Message, NEW c \in {g, h}
        PROVE  Has(Append(chan[c], m), "hello") <=> Has(chan[c], "hello") \/ m.type = "hello"
    <3>1. chan[c] \in Seq(Message)
      BY <1>1
    <3>2. \A t : Has(Append(chan[c], m), t) <=> Has(chan[c], t) \/ m.type = t
      BY <3>1, Appended
    <3>3. QED
      BY <3>2
  <2>2. QED
    BY <2>1
<1>11. \A m \in Message : \A f, x :
         /\ LastFilm(chan[g], f, x) /\ ~Carries(m) => LastFilm(Append(chan[g], m), f, x)
         /\ Carries(m) => LastFilm(Append(chan[g], m), f, m.film)
  BY <1>1, Appended
<1>3. CASE UNCHANGED <<chan, up>> /\ \A c \in Browser : Rests(c)
  <2>1. film'[g] = film[g] \/ film'[g] = NoFilm
    BY <1>3 DEF Rests
  <2>2. page'[g] = "in" => page[g] = "in" /\ film'[g] = film[g]
    BY <1>3 DEF Rests
  <2>3. page'[h] = "in" => page[h] = "in" /\ film'[h] = film[h]
    BY <1>3 DEF Rests
  <2>4. QED
    BY <1>2, <1>3, <2>1, <2>2, <2>3 DEF FilmsOf
<1>4. ASSUME NEW b \in Browser, NEW m \in Message, ~Carries(m), m.type # "hello", Sends(b, <<m>>), UNCHANGED up,
             \A c \in Browser : Rests(c)
      PROVE  FilmsOf(g, h)'
  <2>1. film'[g] = film[g] \/ film'[g] = NoFilm
    BY <1>4 DEF Rests
  <2>2. page'[g] = "in" => page[g] = "in" /\ film'[g] = film[g]
    BY <1>4 DEF Rests
  <2>3. page'[h] = "in" => page[h] = "in" /\ film'[h] = film[h]
    BY <1>4 DEF Rests
  <2>4. chan'[g] = chan[g] \/ chan'[g] = Append(chan[g], m)
    BY <1>4, SendsOne
  <2>5. chan'[h] = chan[h] \/ chan'[h] = Append(chan[h], m)
    BY <1>4, SendsOne
  <2>6. Has(chan'[g], "hello") <=> Has(chan[g], "hello")
    BY <1>4, <1>10, <2>4
  <2>7. Has(chan'[h], "hello") <=> Has(chan[h], "hello")
    BY <1>4, <1>10, <2>5
  <2>8. NoFilms(chan'[h])
    BY <1>1, <1>2, <1>4, <2>5, AppendedHello
  <2>9. LastFilm(chan[g], film[g], film[h]) => LastFilm(chan'[g], film[g], film[h])
    BY <1>4, <1>11, <2>4
  <2>10. QED
    BY <1>2, <1>4, <2>1, <2>2, <2>3, <2>6, <2>7, <2>8, <2>9 DEF FilmsOf
<1>5. ASSUME NEW b \in Browser, NEW f \in Film, SetFilm(b, f) PROVE FilmsOf(g, h)'
  <2> DEFINE m == [type |-> "media_set", film |-> f]
  <2>1. b = h
    BY <1>5, <1>1 DEF SetFilm
  <2>2. m \in Message /\ Carries(m) /\ m.type # "hello" /\ m.film = f
    BY DEF Message, Changes, Carries
  <2>3. /\ Sends(h, <<m>>) /\ UNCHANGED <<page, up>>
        /\ film'[h] = f /\ film'[g] = film[g]
    BY <1>5, <2>1 DEF SetFilm, Types
  <2> HIDE DEF m
  <2>4. chan'[h] = chan[h] /\ IF up[h] THEN chan'[g] = Append(chan[g], m) ELSE chan'[g] = chan[g]
    BY <2>2, <2>3, SendsOne
  <2>5. Has(chan'[g], "hello") <=> Has(chan[g], "hello")
    BY <1>10, <2>2, <2>4
  <2>6. up[h] => LastFilm(chan'[g], film[g], m.film)
    BY <1>11, <2>2, <2>4
  <2>7. QED
    BY <1>2, <2>2, <2>3, <2>4, <2>5, <2>6 DEF FilmsOf
<1>6. ASSUME NEW b \in Browser, ConnOpen(b) PROVE FilmsOf(g, h)'
  <2> DEFINE m == [type |-> "hello"]
  <2>1. m \in Message /\ m.type = "hello" /\ ~Carries(m)
    BY MessageTypes DEF Carries
  <2>2. /\ ~up[b] /\ up' = [up EXCEPT ![b] = TRUE] /\ UNCHANGED <<film, page>>
        /\ chan' = [chan EXCEPT ![Other(b)] = Append(@, m)]
    BY <1>6 DEF ConnOpen
  <2> HIDE DEF m
  <2>3. CASE b = g
    <3>1. chan'[g] = chan[g] /\ chan'[h] = Append(chan[h], m) /\ up'[h] = up[h] /\ up'[g]
      BY <2>2, <2>3 DEF Types
    <3>2. NoFilms(chan'[h])
      BY <1>1, <1>2, <2>1, <3>1, AppendedHello
    <3>3. Has(chan'[h], "hello")
      BY <1>10, <2>1, <3>1
    <3>4. film'[g] = NoFilm
      BY <1>2, <2>2, <2>3
    <3>5. /\ ~up'[g] \/ ~up'[h] \/ Has(chan'[g], "hello") => film'[g] = NoFilm
          /\ NoFilms(chan'[h])
          /\ up'[g] /\ up'[h] /\ ~Has(chan'[h], "hello") /\ page'[g] = "in" /\ page'[h] = "in" /\ film'[h] # NoFilm
               => LastFilm(chan'[g], film'[g], film'[h])
      BY <3>2, <3>3, <3>4
    <3>6. QED
      BY <3>5 DEF FilmsOf
  <2>4. CASE b = h
    <3>1. chan'[h] = chan[h] /\ up'[g] = up[g]
      BY <2>2, <2>4 DEF Types
    <3>2. film'[g] = NoFilm
      BY <1>2, <2>2, <2>4
    <3>3. up'[g] => Has(chan'[h], "hello")
      BY <1>1, <2>2, <2>4, <3>1
    <3>4. QED
      BY <1>2, <3>1, <3>2, <3>3 DEF FilmsOf
  <2>5. QED
    BY <2>3, <2>4
<1>7. ASSUME NEW b \in Browser, Hears(b) PROVE FilmsOf(g, h)'
  <2> DEFINE m == [type |-> "welcome", expires |-> expires[b], film |-> film[b]]
  <2>1. /\ up[b] /\ chan[b] # <<>> /\ UNCHANGED up
        /\ chan'[b] = Tail(chan[b])
    BY <1>7 DEF Hears, OnHello, OnWelcome, OnPartnerLeft, OnHostTransfer, OnMediaSet, OnSettings, OnRoomEnded,
                Takes, Taken, netRest, Types
  <2>2. up[g] /\ up[h]
    BY <1>1, <2>1
  <2>3. m \in Message /\ m.type = "welcome" /\ m.film = film[b] /\ (Carries(m) <=> film[b] # NoFilm)
    BY DEF Types, Message, Welcome, Carries
  <2>4. IF OnHello(b)
        THEN chan'[Other(b)] = Append(chan[Other(b)], m) /\ UNCHANGED <<film, page>>
        ELSE chan'[Other(b)] = chan[Other(b)]
    BY SMTT(30), <1>7, Others DEF Hears, OnHello, OnWelcome, OnPartnerLeft, OnHostTransfer,
                        OnMediaSet, OnSettings, OnRoomEnded, Taken, Types
  <2>5. ~Has(chan'[b], "hello")
    BY <1>1, <2>1, HeadedHello
  <2>6. OnHello(b) => Has(chan[b], "hello") /\ ~Carries(Head(chan[b]))
    BY SMTT(30), <1>1, <2>1, Headed DEF OnHello, Takes, Carries
  <2>7. film'[Other(b)] = film[Other(b)] /\ page'[Other(b)] = page[Other(b)]
    BY <1>7, Others, FinishTypes DEF Hears, OnHello, OnWelcome, OnPartnerLeft, OnHostTransfer, OnMediaSet,
                                OnSettings, OnRoomEnded, Types
  <2>8. /\ page'[b] = "in" => page[b] = "in"
        /\ page'[b] = "in" => film'[b] = IF Carries(Head(chan[b])) THEN Head(chan[b]).film ELSE film[b]
        /\ ~Carries(Head(chan[b])) => film'[b] = film[b] \/ film'[b] = NoFilm
    <3>1. CASE OnHello(b) \/ OnPartnerLeft(b) \/ OnHostTransfer(b) \/ OnSettings(b)
      BY <3>1 DEF OnHello, OnPartnerLeft, OnHostTransfer, OnSettings, Takes, Carries
    <3>2. CASE OnWelcome(b)
      BY <3>2 DEF OnWelcome, Takes, Carries, Types
    <3>3. CASE OnMediaSet(b)
      BY <3>3 DEF OnMediaSet, Takes, Carries, Types
    <3>4. CASE OnRoomEnded(b)
      <4>1. ~Carries(Head(chan[b]))
        BY <3>4 DEF OnRoomEnded, Takes, Carries
      <4>2. UNCHANGED <<page, film>> \/ (page'[b] = "ended" /\ film'[b] = NoFilm)
        BY ZenonT(60), <3>4 DEF OnRoomEnded, Finish, Types
      <4>3. QED
        BY <4>1, <4>2
    <3>5. QED
      BY <1>7, <3>1, <3>2, <3>3, <3>4 DEF Hears
  <2> HIDE DEF m
  <2>9. CASE b = g
    <3>1. Has(chan[g], "hello") => film[g] = NoFilm
      BY <1>2
    <3>2. NoFilms(chan'[h]) /\ (~Has(chan'[h], "hello") => ~Has(chan[h], "hello"))
      <4>1. CASE OnHello(g)
        <5>1. chan'[h] = Append(chan[h], m) /\ film[g] = NoFilm
          BY <2>4, <2>6, <2>9, <3>1, <4>1
        <5>2. ~Carries(m)
          BY <2>3, <2>9, <5>1
        <5>3. NoFilms(chan'[h])
          BY <1>1, <1>2, <2>3, <5>1, <5>2, AppendedHello
        <5>4. Has(chan[h], "hello") => Has(chan'[h], "hello")
          BY <1>10, <2>3, <5>1
        <5>5. QED
          BY <5>3, <5>4
      <4>2. CASE ~OnHello(g)
        BY <1>2, <2>4, <2>9, <4>2
      <4>3. QED
        BY <4>1, <4>2
    <3>3. \A f, x : LastFilm(chan[g], f, x) =>
                      IF Carries(Head(chan[g])) THEN LastFilm(chan'[g], Head(chan[g]).film, x)
                      ELSE LastFilm(chan'[g], f, x)
      BY <1>1, <2>1, <2>9, Headed
    <3>4. /\ film'[h] = film[h] /\ page'[h] = page[h]
          /\ page'[g] = "in" => /\ page[g] = "in"
                                /\ film'[g] = IF Carries(Head(chan[g])) THEN Head(chan[g]).film ELSE film[g]
      BY <2>7, <2>8, <2>9
    <3>5. up'[g] /\ up'[h] /\ ~Has(chan'[h], "hello") /\ page'[g] = "in" /\ page'[h] = "in" /\ film'[h] # NoFilm
            => LastFilm(chan'[g], film'[g], film'[h])
      <4> SUFFICES ASSUME up'[g] /\ up'[h] /\ ~Has(chan'[h], "hello")
                          /\ page'[g] = "in" /\ page'[h] = "in" /\ film'[h] # NoFilm
                   PROVE  LastFilm(chan'[g], film'[g], film'[h])
        OBVIOUS
      <4>1. ~Has(chan'[h], "hello") /\ page'[g] = "in" /\ page'[h] = "in" /\ film'[h] # NoFilm
        OBVIOUS
      <4>2. LastFilm(chan[g], film[g], film[h])
        BY <1>2, <2>2, <3>2, <3>4, <4>1
      <4>3. IF Carries(Head(chan[g])) THEN LastFilm(chan'[g], Head(chan[g]).film, film[h])
            ELSE LastFilm(chan'[g], film[g], film[h])
        BY <3>3, <4>2
      <4>4. film'[h] = film[h] /\ film'[g] = IF Carries(Head(chan[g])) THEN Head(chan[g]).film ELSE film[g]
        BY <3>4, <4>1
      <4>5. QED
        BY <4>3, <4>4
    <3>6. QED
      BY <2>1, <2>2, <2>5, <2>9, <3>2, <3>5 DEF FilmsOf
  <2>10. CASE b = h
    <3>1. NoFilms(chan'[h]) /\ ~Carries(Head(chan[h])) /\ ~Has(chan'[h], "hello")
      BY <1>1, <1>2, <2>1, <2>5, <2>10, HeadedHello
    <3>2. Has(chan'[g], "hello") => Has(chan[g], "hello")
      <4>1. chan'[g] = chan[g] \/ chan'[g] = Append(chan[g], m)
        BY <2>4, <2>10
      <4>2. QED
        BY <1>10, <2>3, <4>1
    <3>3. /\ film'[g] = film[g] /\ page'[g] = page[g]
          /\ page'[h] = "in" => page[h] = "in" /\ film'[h] = film[h]
      BY <2>7, <2>8, <2>10, <3>1
    <3>4. ASSUME page'[g] = "in", page'[h] = "in", film'[h] # NoFilm
          PROVE  LastFilm(chan'[g], film'[g], film'[h])
      <4>1. CASE OnHello(b)
        <5>1. chan'[g] = Append(chan[g], m) /\ Carries(m) /\ m.film = film'[h]
          BY <2>3, <2>4, <2>10, <3>3, <3>4, <4>1
        <5>2. QED
          BY ZenonT(60), <1>1, <2>3, <5>1, Appended
      <4>2. CASE ~OnHello(b)
        <5>1. chan'[g] = chan[g]
          BY <2>4, <2>10, <4>2
        <5>2. ~Has(chan[h], "hello")
          <6>1. Head(chan[h]).type # "hello"
            BY <1>7, <2>10, <4>2 DEF Hears, OnWelcome, OnPartnerLeft, OnHostTransfer, OnMediaSet, OnSettings,
                                     OnRoomEnded, Takes
          <6>2. chan[h] # <<>>
            BY <2>1, <2>10
          <6>3. chan[h][1] = Head(chan[h]) /\ Len(chan[h]) \in Nat
            BY <1>1, <6>2
          <6>4. QED
            BY <1>1, <6>1, <6>3 DEF HelloFirst, Has
        <5>3. QED
          BY <1>2, <2>2, <3>3, <3>4, <5>1, <5>2
      <4>3. QED
        BY <4>1, <4>2
    <3>5. QED
      BY <1>2, <2>1, <2>2, <3>1, <3>2, <3>3, <3>4 DEF FilmsOf
  <2>11. QED
    BY <2>9, <2>10
<1>8. QED
  BY <1>3, <1>4, <1>5, <1>6, <1>7, UpCases

LEMMA FilmsStep ==
  ASSUME PeerAssumption, Types, Wired, Endings, Greetings, Films, [Next]_vars
  PROVE  Films'
<1> SUFFICES ASSUME link' = "up", NEW g \in Browser, role'[g] = "guest" PROVE FilmsOf(g, Other(g))'
  BY DEF Films
<1>1. PICK h \in Browser : h = Other(g) /\ h # g /\ g = Other(h) /\ \A c \in Browser : c = g \/ c = h
  BY Others
<1>2. CASE link # "up"
  <2>1. ~up'[g] /\ film'[g] = NoFilm /\ chan'[h] = <<>>
    BY <1>2, NewLink
  <2>2. FilmsOf(g, h)'
    <3>1. NoFilms(chan'[h])
      BY <2>1, EmptyHello
    <3>2. up'[g] /\ up'[h] /\ ~Has(chan'[h], "hello") /\ page'[g] = "in" /\ page'[h] = "in" /\ film'[h] # NoFilm
            => LastFilm(chan'[g], film'[g], film'[h])
      BY <2>1
    <3>3. QED
      BY <2>1, <3>1, <3>2 DEF FilmsOf
  <2>3. QED
    BY <1>1, <2>2
<1>3. CASE link = "up"
  <2>1. role[g] = "guest"
    BY <1>3, UpCases
  <2>2. FilmsOf(g, h)
    BY <1>1, <1>3, <2>1 DEF Films
  <2>3. FilmsOf(g, h)'
    BY <1>1, <1>3, <2>1, <2>2, FilmsKept
  <2>4. QED
    BY <1>1, <2>3
<1>4. QED
  BY <1>2, <1>3

LEMMA FilmsAreTheSame == ASSUME PeerAssumption, Types, Wired, Films PROVE SameFilm
<1> SUFFICES ASSUME AtRest, NEW h \in Browser, role[h] = "host", film[h] # NoFilm
             PROVE  film[Other(h)] = film[h]
  BY DEF SameFilm
<1>1. PICK g \in Browser : g = Other(h) /\ h = Other(g)
  BY Others
<1>2. role[g] = "guest" /\ link = "up"
  BY <1>1, RolesDiffer DEF AtRest
<1>3. /\ up[g] /\ up[h] /\ page[g] = "in" /\ page[h] = "in"
      /\ chan[g] = <<>> /\ chan[h] = <<>>
  BY DEF AtRest
<1>4. LastFilm(<<>>, film[g], film[h])
  BY <1>1, <1>2, <1>3, EmptyHello DEF Films, FilmsOf
<1>5. QED
  BY <1>1, <1>4 DEF LastFilm

\* Both pages in the room, both greeted and nothing under way: if the host has a film, the guest
\* shows that one, however hellos, welcomes, changes of film, drops and new dials were ordered.
THEOREM GuestShowsTheHostsFilm == ASSUME PeerAssumption PROVE Spec => []SameFilm
<1> DEFINE IInv == Types /\ Wired /\ Endings /\ Greetings /\ Films
<1>1. Init => IInv
  <2>1. Init => link = "none"
    BY DEF Init
  <2>2. QED
    BY <2>1, InitTypes, InitRest DEF Greetings, Films
<1>2. IInv /\ [Next]_vars => IInv'
  BY TypeStep, WiredStep, EndingsStep, GreetingsStep, FilmsStep
<1>3. IInv => SameFilm
  BY FilmsAreTheSame
<1>4. QED
  BY <1>1, <1>2, <1>3, PTL DEF Spec
=============================================================================
