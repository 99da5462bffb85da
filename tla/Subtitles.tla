----------------------------- MODULE Subtitles -----------------------------
(***************************************************************************)
(* The subtitles of a PeerJS room: the host's files on their way to the    *)
(* guest in chunks over the data channel (src/hooks/useRoomMedia.ts,       *)
(* src/lib/media-transfer.ts), the tracks that each page lists and shows   *)
(* (src/hooks/useSubtitles.ts), and the message by which one page tells    *)
(* the other what it shows (src/hooks/useRoomSync.ts,                      *)
(* src/components/watch/WatchRoom.tsx).                                    *)
(*                                                                         *)
(* A page names its own tracks.  A text is the set of its chunks: they are *)
(* joined by their index.  Only subtitles travel this way: no caller       *)
(* offers a film (heldVideoRef is never set).  Acks, which only move a     *)
(* progress bar, are left out.                                             *)
(***************************************************************************)
EXTENDS Naturals, Sequences, SequencesExt, FiniteSets

CONSTANTS
  File,      \* bound: the subtitles of the host, each shared once
  Lobby,     \* those among them that were picked in the lobby
  Chunks,    \* the chunks of a file
  MaxChan,   \* bound: messages under way to a page
  MaxTurns,  \* bound: how often a page is told what to show
  Shared     \* whether the guest may choose the track for both

ASSUME SubtitlesAssumption ==
  /\ Lobby \subseteq File /\ Chunks \in Nat
  /\ MaxChan \in Nat /\ MaxTurns \in Nat /\ Shared \in BOOLEAN

VARIABLES
  step,     \* what the host has sent of each file
  tracks, active, visible,   \* useSubtitles of each page
  bag,      \* incomingRef of the guest: the chunks of a file that was offered
  text,     \* what the guest's track of a file holds
  line,     \* the data channel is open
  chan,     \* what is under way to each page
  cut,      \* history: files of which something was not sent, or lost on the way
  turns,
  off       \* history: the host has turned the captions off, and nothing turned them on since

share == <<step, bag, text, cut>>
shows == <<tracks, active, visible>>
vars  == <<share, shows, line, chan, turns, off>>

Side == {"host", "guest"}
Other(s) == IF s = "host" THEN "guest" ELSE "host"
None == <<"none">>
Track == Side \X File
Chunk == 1..Chunks
Content == File \X Chunk
NoBag == {<<>>}

\* Where sendSubtitleFile and its caller are.
At(pc)  == <<pc, 0>>
Sent(i) == <<"chunk", i>>

Offer(f)    == [type |-> "file_offer", file |-> f]
Piece(f, i) == [type |-> "file_chunk", file |-> f, index |-> i]
Done(f)     == [type |-> "file_done", file |-> f]
Set(t)      == [type |-> "subtitle_set", track |-> t]
Message == {Offer(f) : f \in File} \union {Piece(f, i) : f \in File, i \in Chunk}
             \union {Done(f) : f \in File} \union {Set(t) : t \in Track \union {None}}

TypeOK ==
  /\ step \in [File -> {At("none"), At("read"), At("announce"), At("over")}
                         \union {Sent(i) : i \in 0..Chunks}]
  /\ tracks \in [Side -> Seq(Track)]
  /\ active \in [Side -> Track \union {None}] /\ visible \in [Side -> BOOLEAN]
  /\ bag \in [File -> (SUBSET Content) \union {NoBag}]
  /\ text \in [File -> (SUBSET Content) \union {NoBag}]
  /\ line \in BOOLEAN /\ chan \in [Side -> Seq(Message)]
  /\ \A s \in Side : Len(chan[s]) <= MaxChan
  /\ cut \subseteq File /\ turns \in 0..MaxTurns /\ off \in BOOLEAN

\* What the page shows: the modes of the video's text tracks.
Shows(s) == visible[s] /\ active[s] \in ToSet(tracks[s])

\* send: a message that finds no open channel is gone.
Room(s, n) == line => Len(chan[Other(s)]) + n <= MaxChan
Sends(s, ms) ==
  Room(s, Len(ms)) /\ chan' = IF line THEN [chan EXCEPT ![Other(s)] = @ \o ms] ELSE chan

-----------------------------------------------------------------------------
(* useSubtitles. *)

\* addTrackFromFile, addTrackFromUrl
Adds(s, f) ==
  /\ tracks' = [tracks EXCEPT ![s] = Append(@, <<s, f>>)]
  /\ active' = [active EXCEPT ![s] = <<s, f>>]
  /\ visible' = [visible EXCEPT ![s] = TRUE]
Turns(s, t, v) ==
  /\ active' = [active EXCEPT ![s] = t] /\ visible' = [visible EXCEPT ![s] = v]
  /\ UNCHANGED tracks

\* cycleCaptions, the key "c": it tells nobody.
Cycle(s) ==
  /\ LET ts == tracks[s]
         at == IF active[s] \in ToSet(ts) THEN CHOOSE i \in DOMAIN ts : ts[i] = active[s] ELSE 0
     IN IF ts = <<>> THEN Turns(s, active[s], ~visible[s])
        ELSE IF ~visible[s] \/ active[s] = None THEN Turns(s, ts[1], TRUE)
        ELSE IF at < Len(ts) THEN Turns(s, ts[at + 1], TRUE)
        ELSE Turns(s, None, FALSE)
  /\ off' = FALSE /\ UNCHANGED <<share, line, chan>>

-----------------------------------------------------------------------------
(* The menu.  The page tells the other if it may choose. *)

Tells(s, ms) == IF s = "host" \/ Shared THEN Sends(s, ms) ELSE UNCHANGED chan

\* A track: onSelect tells the track, then onVisible, of the same render, the one before it.
Select(s, t) ==
  /\ t \in ToSet(tracks[s]) /\ Turns(s, t, TRUE)
  /\ Tells(s, IF active[s] = None THEN <<Set(t)>> ELSE <<Set(t), Set(active[s])>>)
  /\ off' = FALSE /\ UNCHANGED <<share, line>>

\* "Off"; without the track when the box "Show captions" is cleared.
Hide(s) ==
  /\ \/ Turns(s, None, FALSE) /\ Tells(s, <<Set(None), Set(None)>>)
     \/ Turns(s, active[s], FALSE) /\ Tells(s, <<Set(None)>>)
  /\ off' = (off \/ (s = "host" /\ line)) /\ UNCHANGED <<share, line>>

\* The box "Show captions" is set.
Unhide(s) ==
  /\ Turns(s, active[s], TRUE)
  /\ Tells(s, IF active[s] = None THEN <<>> ELSE <<Set(active[s])>>)
  /\ off' = FALSE /\ UNCHANGED <<share, line>>

-----------------------------------------------------------------------------
(* The host shares a file. *)

Goes(f, from, to) ==
  /\ step[f] = from /\ step' = [step EXCEPT ![f] = to] /\ UNCHANGED <<bag, text, line>>
Counts(f) == cut' = IF line THEN cut ELSE cut \union {f}

\* onAddFile of the menu: the host's own track, then sendSubtitleFile.
AddFile(f) ==
  /\ f \notin Lobby /\ Goes(f, At("none"), At("read")) /\ Adds("host", f)
  /\ off' = FALSE /\ UNCHANGED <<chan, cut>>
\* The subtitles of the lobby, when the room shows the film.
HandOff(f) == f \in Lobby /\ Goes(f, At("none"), At("read")) /\ UNCHANGED <<shows, chan, cut, off>>

\* materializeFile fails: sendSubtitleFile returns, its caller goes on.
ReadFails(f) ==
  /\ Goes(f, At("read"), At("announce")) /\ cut' = cut \union {f} /\ UNCHANGED <<shows, chan, off>>
SendOffer(f) ==
  /\ Goes(f, At("read"), Sent(0)) /\ Sends("host", <<Offer(f)>>)
  /\ Counts(f) /\ UNCHANGED <<shows, off>>
SendChunk(f) ==
  /\ \E i \in Chunk : Goes(f, Sent(i - 1), Sent(i)) /\ Sends("host", <<Piece(f, i)>>)
  /\ Counts(f) /\ UNCHANGED <<shows, off>>
SendDone(f) ==
  /\ Goes(f, Sent(Chunks), At("announce")) /\ Sends("host", <<Done(f)>>)
  /\ Counts(f) /\ UNCHANGED <<shows, off>>

\* Then the menu tells the track, and the hand-off adds it.
Announce(f) ==
  /\ Goes(f, At("announce"), At("over")) /\ UNCHANGED cut
  /\ IF f \in Lobby THEN Adds("host", f) /\ UNCHANGED chan
     ELSE Sends("host", <<Set(<<"host", f>>)>>) /\ UNCHANGED shows
  /\ off' = FALSE

-----------------------------------------------------------------------------
(* The other page takes a message. *)

Takes(s, type) ==
  /\ chan[s] # <<>> /\ Head(chan[s]).type = type
  /\ chan' = [chan EXCEPT ![s] = Tail(@)] /\ UNCHANGED <<line, step, cut>>
Msg(s) == Head(chan[s])

OnOffer ==
  /\ Takes("guest", "file_offer")
  /\ bag' = [bag EXCEPT ![Msg("guest").file] = {}]
  /\ UNCHANGED <<text, shows, off>>
\* Mutant: one bag for what arrives, whatever its transferId.
OnChunkAnyFile ==
  /\ Takes("guest", "file_chunk")
  /\ LET m == Msg("guest")
     IN bag' = [f \in File |->
                  IF bag[f] = NoBag THEN NoBag ELSE bag[f] \union {<<m.file, m.index>>}]
  /\ UNCHANGED <<text, shows, off>>
OnChunk ==
  /\ Takes("guest", "file_chunk")
  /\ LET m == Msg("guest")
     IN bag' = IF bag[m.file] = NoBag THEN bag
               ELSE [bag EXCEPT ![m.file] = @ \union {<<m.file, m.index>>}]
  /\ UNCHANGED <<text, shows, off>>
\* Mutant: the transfer counts as incomplete when the last index is not the total.
OnDoneStrict ==
  /\ Takes("guest", "file_done") /\ UNCHANGED <<bag, text, shows, off>>

\* "some" skips what an array does not hold, and slice stops at its end: a text with holes is
\* taken as complete.
OnDone ==
  /\ Takes("guest", "file_done")
  /\ LET f == Msg("guest").file
     IN IF bag[f] = NoBag THEN UNCHANGED <<bag, text, shows, off>>
        ELSE /\ bag' = [bag EXCEPT ![f] = NoBag] /\ text' = [text EXCEPT ![f] = bag[f]]
             /\ Adds("guest", f) /\ off' = FALSE

\* Mutant: a message without a track is taken for one without a change.
OnSubtitleSome(s) ==
  /\ Takes(s, "subtitle_set")
  /\ LET t == Msg(s).track IN IF t = None THEN UNCHANGED shows ELSE Turns(s, t, TRUE)
  /\ off' = (off /\ Msg(s).track = None) /\ UNCHANGED <<bag, text>>

\* subtitle_set, onSubtitleFromPeer: the name is the other page's.
OnSubtitleSet(s) ==
  /\ Takes(s, "subtitle_set")
  /\ LET t == Msg(s).track IN Turns(s, t, t # None)
  /\ UNCHANGED <<bag, text, off>>

-----------------------------------------------------------------------------
Drop ==
  /\ line /\ line' = FALSE /\ chan' = [s \in Side |-> <<>>]
  /\ cut' = cut \union {f \in File : step[f] # At("none") /\ text[f] = NoBag}
  /\ off' = FALSE /\ UNCHANGED <<step, bag, text, shows>>
Redial == ~line /\ line' = TRUE /\ UNCHANGED <<share, shows, chan, off>>

Init ==
  /\ step = [f \in File |-> At("none")]
  /\ tracks = [s \in Side |-> <<>>] /\ active = [s \in Side |-> None]
  /\ visible = [s \in Side |-> TRUE]
  /\ bag = [f \in File |-> NoBag] /\ text = [f \in File |-> NoBag]
  /\ line = FALSE /\ chan = [s \in Side |-> <<>>]
  /\ cut = {} /\ turns = 0 /\ off = FALSE

Begins(f) == (AddFile(f) \/ HandOff(f) \/ ReadFails(f)) /\ UNCHANGED turns
Shares(f) == (SendOffer(f) \/ SendChunk(f) \/ SendDone(f) \/ Announce(f)) /\ UNCHANGED turns
Hears     == (OnOffer \/ OnChunk \/ OnDone \/ \E s \in Side : OnSubtitleSet(s)) /\ UNCHANGED turns
Line      == (Drop \/ Redial) /\ UNCHANGED turns
Uses(s) ==
  /\ turns < MaxTurns /\ turns' = turns + 1
  /\ Cycle(s) \/ Hide(s) \/ Unhide(s) \/ \E t \in Track : Select(s, t)

Next ==
  \/ \E f \in File : Begins(f) \/ Shares(f)
  \/ Hears \/ Line \/ \E s \in Side : Uses(s)

\* The host's loop goes on by itself, and an open channel delivers.
Spec ==
  Init /\ [][Next]_vars /\ WF_vars(Hears) /\ \A f \in File : SF_vars(Shares(f))

-----------------------------------------------------------------------------
(* Two files that travel side by side do not mix, and the last message of  *)
(* a file never overtakes a chunk of it: over a channel that was open all  *)
(* the while, the guest's track holds the whole of its file and nothing    *)
(* else.                                                                   *)
WholeUnlessCut == \A f \in File : text[f] # NoBag /\ f \notin cut => text[f] = {f} \X Chunk

(* A file that the host shares reaches the guest, whatever else the two    *)
(* pages say meanwhile, unless the channel fails it or it cannot be read.  *)
Arrives == \A f \in File : step[f] # At("none") ~> (text[f] # NoBag \/ f \in cut)

(* When the host turns the captions off they are off for the guest too, as *)
(* soon as the message has arrived; until somebody turns them on again, or *)
(* a file arrives.                                                         *)
OffForBoth == off /\ chan["guest"] = <<>> => ~Shows("guest")
=============================================================================
