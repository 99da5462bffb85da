--------------------------- MODULE SyncClientProofs ---------------------------
(***************************************************************************)
(* Theorems about SyncClient, for any number of commands and of messages   *)
(* under way.                                                              *)
(*                                                                         *)
(* What is under way to a page has a shape: it begins with the snapshot,   *)
(* if that is still to come; its seqs rise; and an answer that carries the *)
(* anchor repeats the last word before it.  So nothing is ever dropped for *)
(* its seq, and what the last message about a part of the room says is     *)
(* what the service has.                                                   *)
(***************************************************************************)
EXTENDS SyncClient, TLAPS

Modes == {"host_only", "shared"}

\* What has a seq; what carries the anchor; what the video obeys at once.
Numbered(m) == m.type \notin {"sync_pong", "room_ended"}
Carries(m)  == m.type \in {"snapshot", "playback", "heartbeat_ack", "sync_pong"}
Word(m)     == m.type \in {"snapshot", "playback"}

\* What tells the mode, and which; what tells the role.
Modal(m)  == m.type \in {"snapshot", "control_mode", "host_transfer"}
ModeOf(m) == IF m.type = "host_transfer" THEN "host_only" ELSE m.mode
Rights(m) == m.type \in {"snapshot", "host_transfer"}

\* Messages d to a page with last seq r and anchor a, from a service at seq n.
Orderly(d, r, a, n) ==
  /\ \A i \in 2..Len(d) : d[i].type # "snapshot"
  /\ \A i \in 1..Len(d) : Numbered(d[i]) => d[i].seq <= n
  /\ \A i \in 1..Len(d) : Numbered(d[i]) /\ d[1].type # "snapshot" => r <= d[i].seq
  /\ \A i, j \in 1..Len(d) : i < j /\ Numbered(d[i]) /\ Numbered(d[j]) => d[i].seq <= d[j].seq
  /\ \A i \in 1..Len(d) : Carries(d[i]) /\ (\A k \in 1..i : ~Word(d[k])) => d[i].anchor = a
  /\ \A i, j \in 1..Len(d) :
       i < j /\ Carries(d[i]) /\ Carries(d[j]) /\ (\A k \in (i + 1)..j : ~Word(d[k]))
         => d[i].anchor = d[j].anchor

\* The last message of d about a part of the room says what the service has; if there is none,
\* the page has it already.
SeqLatest(d, r, n) ==
  /\ \A i \in 1..Len(d) : Numbered(d[i]) /\ (\A k \in (i + 1)..Len(d) : ~Numbered(d[k])) => d[i].seq = n
  /\ (\A i \in 1..Len(d) : ~Numbered(d[i])) => r = n
ModeLatest(d, p, m) ==
  /\ \A i \in 1..Len(d) : Modal(d[i]) /\ (\A k \in (i + 1)..Len(d) : ~Modal(d[k])) => ModeOf(d[i]) = m
  /\ (\A i \in 1..Len(d) : ~Modal(d[i])) => p = m
RoleLatest(d, p, r) ==
  /\ \A i \in 1..Len(d) : Rights(d[i]) /\ (\A k \in (i + 1)..Len(d) : ~Rights(d[k])) => d[i].role = r
  /\ (\A i \in 1..Len(d) : ~Rights(d[i])) => p = r
FilmLatest(d, p, a) ==
  /\ \A i \in 1..Len(d) : Carries(d[i]) /\ (\A k \in (i + 1)..Len(d) : ~Word(d[k])) => d[i].anchor = a
  /\ (\A i \in 1..Len(d) : ~Word(d[i])) => p = a

\* A page that has taken the snapshot of its connection.
Taken(d) == Len(d) = 0 \/ d[1].type # "snapshot"

\* What the last seq, mode, role and anchor of the page have become when it has taken m.
SeqAfter(m, r)  == IF Numbered(m) THEN m.seq ELSE r
ModeAfter(m, p) == IF Modal(m) THEN ModeOf(m) ELSE p
RoleAfter(m, p) == IF Rights(m) THEN m.role ELSE p
FilmAfter(m, p) == IF Carries(m) THEN m.anchor ELSE p

-----------------------------------------------------------------------------
(* A message is appended. *)

LEMMA AppendOrderly ==
  ASSUME NEW d \in Seq(Message), NEW m \in Message, NEW r \in Nat, NEW a, NEW n \in Nat, NEW n2 \in Nat,
         Orderly(d, r, a, n), n <= n2, m.type # "snapshot",
         Numbered(m) => m.seq = n2 /\ (Taken(d) => r <= n),
         Carries(m) /\ ~Word(m) => FilmLatest(d, a, m.anchor)
  PROVE  Orderly(Append(d, m), r, a, n2)
<1> DEFINE e == Append(d, m)
<1>1. /\ Len(d) \in Nat /\ Len(e) = Len(d) + 1 /\ e[Len(d) + 1] = m
      /\ \A i \in 1..Len(d) : e[i] = d[i] /\ d[i] \in Message
  OBVIOUS
<1>2. \A i \in 1..Len(d) : Numbered(d[i]) => d[i].seq \in Nat
  BY <1>1 DEF Message, Numbered
<1> HIDE DEF e
<1>3. \A i \in 2..Len(e) : e[i].type # "snapshot"
  BY <1>1 DEF Orderly
<1>4. \A i \in 1..Len(e) : Numbered(e[i]) => e[i].seq <= n2
  BY <1>1, <1>2 DEF Orderly
<1>5. ASSUME NEW i \in 1..Len(e), Numbered(e[i]), e[1].type # "snapshot" PROVE r <= e[i].seq
  <2>1. Len(d) = 0 \/ e[1] = d[1]
    BY <1>1
  <2>2. CASE i \in 1..Len(d)
    BY <1>1, <1>5, <2>1, <2>2 DEF Orderly
  <2>3. CASE i = Len(d) + 1
    BY <1>1, <1>5, <2>1, <2>3 DEF Taken
  <2>4. QED
    BY <1>1, <2>2, <2>3
<1>6. ASSUME NEW i \in 1..Len(e), NEW j \in 1..Len(e), i < j, Numbered(e[i]), Numbered(e[j])
      PROVE  e[i].seq <= e[j].seq
  <2>1. i \in 1..Len(d) /\ e[i] = d[i]
    BY <1>1, <1>6
  <2>2. CASE j \in 1..Len(d)
    BY <1>1, <1>6, <2>1, <2>2 DEF Orderly
  <2>3. CASE j = Len(d) + 1
    <3>1. d[i].seq <= n /\ d[i].seq \in Nat /\ e[j].seq = n2
      BY <1>1, <1>2, <1>6, <2>1, <2>3 DEF Orderly
    <3>2. QED
      BY <2>1, <3>1
  <2>4. QED
    BY <1>1, <2>2, <2>3
<1>7. ASSUME NEW i \in 1..Len(e), Carries(e[i]), \A k \in 1..i : ~Word(e[k])
      PROVE  e[i].anchor = a
  BY <1>1, <1>7 DEF Orderly, FilmLatest
<1>8. ASSUME NEW i \in 1..Len(e), NEW j \in 1..Len(e), i < j, Carries(e[i]), Carries(e[j]),
             \A k \in (i + 1)..j : ~Word(e[k])
      PROVE  e[i].anchor = e[j].anchor
  <2>1. CASE j \in 1..Len(d)
    <3>1. i \in 1..Len(d) /\ e[i] = d[i] /\ e[j] = d[j]
      BY <1>1, <1>8, <2>1
    <3>2. \A k \in (i + 1)..j : k \in 1..Len(d) /\ e[k] = d[k]
      BY <1>1, <2>1
    <3>3. \A k \in (i + 1)..j : ~Word(d[k])
      BY <1>8, <3>2
    <3>4. QED
      BY <1>8, <2>1, <3>1, <3>3 DEF Orderly
  <2>2. CASE j = Len(d) + 1
    <3>1. i \in 1..Len(d) /\ e[j] = m /\ e[i] = d[i] /\ ~Word(m) /\ Carries(m)
      BY <1>1, <1>8, <2>2
    <3>2. \A k \in (i + 1)..Len(d) : ~Word(d[k])
      BY <1>1, <1>8, <2>2
    <3>3. QED
      BY <1>8, <3>1, <3>2 DEF FilmLatest
  <2>3. QED
    BY <1>1, <2>1, <2>2
<1>9. Orderly(e, r, a, n2)
  BY <1>3, <1>4, <1>5, <1>6, <1>7, <1>8 DEF Orderly
<1>10. QED
  BY <1>9 DEF e

LEMMA AppendLatest ==
  ASSUME NEW d \in Seq(Message), NEW m \in Message, NEW p
  PROVE  /\ \A n \in Nat, n2 \in Nat :
              SeqLatest(d, p, n) /\ (IF Numbered(m) THEN m.seq = n2 ELSE n2 = n)
                => SeqLatest(Append(d, m), p, n2)
         /\ \A x, y : ModeLatest(d, p, x) /\ (IF Modal(m) THEN ModeOf(m) = y ELSE y = x)
                => ModeLatest(Append(d, m), p, y)
         /\ \A x, y : RoleLatest(d, p, x) /\ (IF Rights(m) THEN m.role = y ELSE y = x)
                => RoleLatest(Append(d, m), p, y)
         /\ \A x, y : FilmLatest(d, p, x) /\ (Carries(m) => m.anchor = y) /\ (~Word(m) => y = x)
                => FilmLatest(Append(d, m), p, y)
<1> DEFINE e == Append(d, m)
<1>1. /\ Len(d) \in Nat /\ Len(e) = Len(d) + 1 /\ e[Len(d) + 1] = m
      /\ \A i \in 1..Len(d) : e[i] = d[i]
  OBVIOUS
<1> HIDE DEF e
<1>2. ASSUME NEW n, NEW n2, SeqLatest(d, p, n), IF Numbered(m) THEN m.seq = n2 ELSE n2 = n
      PROVE  SeqLatest(e, p, n2)
  BY SMTT(30), <1>1, <1>2 DEF SeqLatest
<1>3. ASSUME NEW x, NEW y, ModeLatest(d, p, x), IF Modal(m) THEN ModeOf(m) = y ELSE y = x
      PROVE  ModeLatest(e, p, y)
  BY <1>1, <1>3 DEF ModeLatest
<1>4. ASSUME NEW x, NEW y, RoleLatest(d, p, x), IF Rights(m) THEN m.role = y ELSE y = x
      PROVE  RoleLatest(e, p, y)
  BY <1>1, <1>4 DEF RoleLatest
<1>5. ASSUME NEW x, NEW y, FilmLatest(d, p, x), Carries(m) => m.anchor = y, ~Word(m) => y = x
      PROVE  FilmLatest(e, p, y)
  BY <1>1, <1>5 DEF FilmLatest
<1>6. QED
  BY <1>2, <1>3, <1>4, <1>5 DEF e

-----------------------------------------------------------------------------
(* The page takes the first message. *)

LEMMA TailOrderly ==
  ASSUME NEW d \in Seq(Message), d # <<>>, NEW r \in Nat, NEW a, NEW n \in Nat, Orderly(d, r, a, n)
  PROVE  Orderly(Tail(d), SeqAfter(d[1], r), FilmAfter(d[1], a), n)
<1> DEFINE e == Tail(d)
<1>1. /\ Len(d) \in Nat \ {0} /\ Len(e) = Len(d) - 1
      /\ \A i \in 1..Len(e) : e[i] = d[i + 1]
      /\ \A i \in 1..Len(d) : d[i] \in Message
  OBVIOUS
<1>2. \A i \in 1..Len(d) : Numbered(d[i]) => d[i].seq \in Nat
  BY <1>1 DEF Message, Numbered
<1> HIDE DEF e
<1>3. \A i \in 2..Len(e) : e[i].type # "snapshot"
  BY <1>1 DEF Orderly
<1>4. \A i \in 1..Len(e) : Numbered(e[i]) => e[i].seq <= n
  BY <1>1, <1>2 DEF Orderly
<1>5. ASSUME NEW i \in 1..Len(e), Numbered(e[i]) PROVE SeqAfter(d[1], r) <= e[i].seq
  <2>1. e[i] = d[i + 1] /\ 1 \in 1..Len(d) /\ i + 1 \in 1..Len(d) /\ 1 < i + 1
    BY <1>1
  <2>2. CASE Numbered(d[1])
    BY <1>5, <2>1, <2>2 DEF Orderly, SeqAfter
  <2>3. CASE ~Numbered(d[1])
    BY <1>5, <2>1, <2>3 DEF Orderly, SeqAfter, Numbered
  <2>4. QED
    BY <2>2, <2>3
<1>6. ASSUME NEW i \in 1..Len(e), NEW j \in 1..Len(e), i < j, Numbered(e[i]), Numbered(e[j])
      PROVE  e[i].seq <= e[j].seq
  <2>1. i + 1 \in 1..Len(d) /\ j + 1 \in 1..Len(d) /\ i + 1 < j + 1 /\ e[i] = d[i + 1] /\ e[j] = d[j + 1]
    BY <1>1, <1>6
  <2>2. QED
    BY <1>6, <2>1 DEF Orderly
<1>7. ASSUME NEW i \in 1..Len(e), Carries(e[i]), \A k \in 1..i : ~Word(e[k])
      PROVE  e[i].anchor = FilmAfter(d[1], a)
  <2>0. \A k \in 2..(i + 1) : k - 1 \in 1..i /\ d[k] = e[k - 1]
    BY <1>1
  <2>1. \A k \in 2..(i + 1) : ~Word(d[k])
    BY <1>7, <2>0
  <2>2. i + 1 \in 1..Len(d) /\ 1 \in 1..Len(d) /\ 1 < i + 1 /\ e[i] = d[i + 1]
    BY <1>1
  <2>3. CASE Carries(d[1])
    BY <1>7, <2>1, <2>2, <2>3 DEF Orderly, FilmAfter
  <2>4. CASE ~Carries(d[1])
    <3>1. \A k \in 1..(i + 1) : ~Word(d[k])
      BY <2>1, <2>4 DEF Carries, Word
    <3>2. QED
      BY <1>7, <2>2, <2>4, <3>1 DEF Orderly, FilmAfter
  <2>5. QED
    BY <2>3, <2>4
<1>8. ASSUME NEW i \in 1..Len(e), NEW j \in 1..Len(e), i < j, Carries(e[i]), Carries(e[j]),
             \A k \in (i + 1)..j : ~Word(e[k])
      PROVE  e[i].anchor = e[j].anchor
  <2>0. \A k \in (i + 1 + 1)..(j + 1) : k - 1 \in (i + 1)..j /\ d[k] = e[k - 1]
    BY <1>1
  <2>1. \A k \in (i + 1 + 1)..(j + 1) : ~Word(d[k])
    BY <1>8, <2>0
  <2>2. /\ i + 1 \in 1..Len(d) /\ j + 1 \in 1..Len(d) /\ i + 1 < j + 1
        /\ e[i] = d[i + 1] /\ e[j] = d[j + 1]
    BY <1>1, <1>8
  <2>3. QED
    BY <1>8, <2>1, <2>2 DEF Orderly
<1>9. Orderly(e, SeqAfter(d[1], r), FilmAfter(d[1], a), n)
  BY <1>3, <1>4, <1>5, <1>6, <1>7, <1>8 DEF Orderly
<1>10. QED
  BY <1>9 DEF e

LEMMA TailLatest ==
  ASSUME NEW d \in Seq(Message), d # <<>>, NEW p, NEW x
  PROVE  /\ SeqLatest(d, p, x)  => SeqLatest(Tail(d), SeqAfter(d[1], p), x)
         /\ ModeLatest(d, p, x) => ModeLatest(Tail(d), ModeAfter(d[1], p), x)
         /\ RoleLatest(d, p, x) => RoleLatest(Tail(d), RoleAfter(d[1], p), x)
         /\ FilmLatest(d, p, x) => FilmLatest(Tail(d), FilmAfter(d[1], p), x)
<1> DEFINE e == Tail(d)
<1>1. /\ Len(d) \in Nat \ {0} /\ Len(e) = Len(d) - 1
      /\ \A i \in 1..Len(e) : e[i] = d[i + 1]
  OBVIOUS
<1> HIDE DEF e
<1>2. \A k \in 2..Len(d) : k - 1 \in 1..Len(e) /\ d[k] = e[k - 1]
  BY <1>1
<1>3. ASSUME SeqLatest(d, p, x) PROVE SeqLatest(e, SeqAfter(d[1], p), x)
  <2>1. ASSUME NEW i \in 1..Len(e), Numbered(e[i]), \A k \in (i + 1)..Len(e) : ~Numbered(e[k])
        PROVE  e[i].seq = x
    <3>1. \A k \in (i + 1 + 1)..Len(d) : ~Numbered(d[k])
      BY <1>2, <2>1
    <3>2. i + 1 \in 1..Len(d) /\ e[i] = d[i + 1]
      BY <1>1
    <3>3. QED
      BY <1>3, <2>1, <3>1, <3>2 DEF SeqLatest
  <2>2. ASSUME \A i \in 1..Len(e) : ~Numbered(e[i]) PROVE SeqAfter(d[1], p) = x
    <3>1. \A k \in (1 + 1)..Len(d) : ~Numbered(d[k])
      BY <1>2, <2>2
    <3>2. CASE Numbered(d[1])
      BY <1>1, <1>3, <3>1, <3>2 DEF SeqLatest, SeqAfter
    <3>3. CASE ~Numbered(d[1])
      <4>1. \A k \in 1..Len(d) : ~Numbered(d[k])
        BY <1>1, <3>1, <3>3
      <4>2. QED
        BY <1>3, <3>3, <4>1 DEF SeqLatest, SeqAfter
    <3>4. QED
      BY <3>2, <3>3
  <2>3. QED
    BY <2>1, <2>2 DEF SeqLatest
<1>4. ASSUME ModeLatest(d, p, x) PROVE ModeLatest(e, ModeAfter(d[1], p), x)
  <2>1. ASSUME NEW i \in 1..Len(e), Modal(e[i]), \A k \in (i + 1)..Len(e) : ~Modal(e[k])
        PROVE  ModeOf(e[i]) = x
    <3>1. \A k \in (i + 1 + 1)..Len(d) : ~Modal(d[k])
      BY <1>2, <2>1
    <3>2. i + 1 \in 1..Len(d) /\ e[i] = d[i + 1]
      BY <1>1
    <3>3. QED
      BY <1>4, <2>1, <3>1, <3>2 DEF ModeLatest
  <2>2. ASSUME \A i \in 1..Len(e) : ~Modal(e[i]) PROVE ModeAfter(d[1], p) = x
    <3>1. \A k \in (1 + 1)..Len(d) : ~Modal(d[k])
      BY <1>2, <2>2
    <3>2. CASE Modal(d[1])
      BY <1>1, <1>4, <3>1, <3>2 DEF ModeLatest, ModeAfter
    <3>3. CASE ~Modal(d[1])
      <4>1. \A k \in 1..Len(d) : ~Modal(d[k])
        BY <1>1, <3>1, <3>3
      <4>2. QED
        BY <1>4, <3>3, <4>1 DEF ModeLatest, ModeAfter
    <3>4. QED
      BY <3>2, <3>3
  <2>3. QED
    BY <2>1, <2>2 DEF ModeLatest
<1>5. ASSUME RoleLatest(d, p, x) PROVE RoleLatest(e, RoleAfter(d[1], p), x)
  <2>1. ASSUME NEW i \in 1..Len(e), Rights(e[i]), \A k \in (i + 1)..Len(e) : ~Rights(e[k])
        PROVE  e[i].role = x
    <3>1. \A k \in (i + 1 + 1)..Len(d) : ~Rights(d[k])
      BY <1>2, <2>1
    <3>2. i + 1 \in 1..Len(d) /\ e[i] = d[i + 1]
      BY <1>1
    <3>3. QED
      BY <1>5, <2>1, <3>1, <3>2 DEF RoleLatest
  <2>2. ASSUME \A i \in 1..Len(e) : ~Rights(e[i]) PROVE RoleAfter(d[1], p) = x
    <3>1. \A k \in (1 + 1)..Len(d) : ~Rights(d[k])
      BY <1>2, <2>2
    <3>2. CASE Rights(d[1])
      BY <1>1, <1>5, <3>1, <3>2 DEF RoleLatest, RoleAfter
    <3>3. CASE ~Rights(d[1])
      <4>1. \A k \in 1..Len(d) : ~Rights(d[k])
        BY <1>1, <3>1, <3>3
      <4>2. QED
        BY <1>5, <3>3, <4>1 DEF RoleLatest, RoleAfter
    <3>4. QED
      BY <3>2, <3>3
  <2>3. QED
    BY <2>1, <2>2 DEF RoleLatest
<1>6. ASSUME FilmLatest(d, p, x) PROVE FilmLatest(e, FilmAfter(d[1], p), x)
  <2>1. ASSUME NEW i \in 1..Len(e), Carries(e[i]), \A k \in (i + 1)..Len(e) : ~Word(e[k])
        PROVE  e[i].anchor = x
    <3>1. \A k \in (i + 1 + 1)..Len(d) : ~Word(d[k])
      BY <1>2, <2>1
    <3>2. i + 1 \in 1..Len(d) /\ e[i] = d[i + 1]
      BY <1>1
    <3>3. QED
      BY <1>6, <2>1, <3>1, <3>2 DEF FilmLatest
  <2>2. ASSUME \A i \in 1..Len(e) : ~Word(e[i]) PROVE FilmAfter(d[1], p) = x
    <3>1. \A k \in (1 + 1)..Len(d) : ~Word(d[k])
      BY <1>2, <2>2
    <3>2. CASE Carries(d[1])
      BY <1>1, <1>6, <3>1, <3>2 DEF FilmLatest, FilmAfter
    <3>3. CASE ~Carries(d[1])
      <4>1. \A k \in 1..Len(d) : ~Word(d[k])
        BY <1>1, <3>1, <3>3 DEF Word, Carries
      <4>2. QED
        BY <1>6, <3>3, <4>1 DEF FilmLatest, FilmAfter
    <3>4. QED
      BY <3>2, <3>3
  <2>3. QED
    BY <2>1, <2>2 DEF FilmLatest
<1>7. QED
  BY <1>3, <1>4, <1>5, <1>6 DEF e

-----------------------------------------------------------------------------
(* The invariant. *)

\* A connection of the service is one of the page, and only one that is in the room is told anything.
Conn ==
  /\ srv # "none" => ws = "open"
  /\ up # <<>> => ws = "open"
  /\ down # <<>> => srv = "in"

\* With no word under way to it, the video does what the service says, or waits for a countdown.
Follows ==
  (\A i \in 1..Len(down) : ~Word(down[i])) /\ ~countdown => (video <=> svc.anchor = "playing")

Current ==
  srv = "in" /\ ~over =>
    /\ SeqLatest(down, seqRef, svc.seq) /\ ModeLatest(down, mode, svc.mode)
    /\ RoleLatest(down, role, rights) /\ FilmLatest(down, anchor, svc.anchor)
    /\ Taken(down) => seqRef <= svc.seq
    /\ Follows

Inv == TypeOK /\ Conn /\ Orderly(down, seqRef, anchor, svc.seq) /\ Current

\* What a well-typed message holds.
LEMMA MessageFields ==
  ASSUME NEW m \in Message
  PROVE  /\ m.type \in {"snapshot", "playback", "heartbeat_ack", "control_mode", "host_transfer",
                        "sync_pong", "room_ended"}
         /\ Numbered(m) => m.seq \in 0..MaxSeq
         /\ Carries(m) => m.anchor \in State
         /\ Rights(m) => m.role \in Roles
         /\ m.type \in {"snapshot", "control_mode"} => m.mode \in Modes
BY DEF Message, Numbered, Carries, Rights, Modes

LEMMA FirstMessage ==
  ASSUME Inv, down # <<>>
  PROVE  /\ Head(down) = down[1] /\ Head(down) \in Message /\ Len(down) \in Nat \ {0} /\ Tail(down) \in Seq(Message)
         /\ Numbered(Head(down)) => ~Old(Head(down))
<1>1. /\ Head(down) = down[1] /\ Head(down) \in Message /\ Len(down) \in Nat \ {0}
      /\ Tail(down) \in Seq(Message) /\ 1 \in 1..Len(down)
  BY DEF Inv, TypeOK
<1>2. ASSUME Numbered(down[1]), down[1].type # "snapshot" PROVE seqRef <= down[1].seq
  BY <1>1, <1>2 DEF Inv, Orderly
<1>3. ASSUME Numbered(down[1]) PROVE down[1].seq \in Nat /\ seqRef \in Nat
  BY <1>1, <1>3, MessageFields, ClientAssumption DEF Inv, TypeOK
<1>4. QED
  BY <1>1, <1>2, <1>3 DEF Old

\* A step that says nothing to the page and leaves its view of the room alone.
LEMMA Still ==
  ASSUME Inv, TypeOK', Conn', Follows => Follows',
         UNCHANGED <<svc, over, rights, srv, down, seqRef, role, mode, anchor>>
  PROVE  Inv'
BY DEF Inv, Current, Taken

\* A step that leaves the page without a connection that is in the room.
LEMMA Cut ==
  ASSUME TypeOK', Conn', down' = <<>>, srv' # "in" PROVE Inv'
BY DEF Inv, Current, Orderly

\* The service tells the page what has just changed, or answers it.
LEMMA Send ==
  ASSUME Inv, srv = "in", ~over, UNCHANGED <<seqRef, role, mode, anchor, countdown, video>>,
         TypeOK', Conn', NEW m \in Message, m.type \notin {"snapshot", "room_ended"}, down' = Append(down, m),
         svc.seq <= svc'.seq, IF Numbered(m) THEN m.seq = svc'.seq ELSE svc'.seq = svc.seq,
         IF Modal(m) THEN ModeOf(m) = svc'.mode ELSE svc'.mode = svc.mode,
         IF Rights(m) THEN m.role = rights' ELSE rights' = rights,
         Carries(m) => m.anchor = svc'.anchor, ~Word(m) => svc'.anchor = svc.anchor
  PROVE  Inv'
<1>1. /\ down \in Seq(Message) /\ seqRef \in Nat /\ svc.seq \in Nat /\ svc'.seq \in Nat
      /\ Orderly(down, seqRef, anchor, svc.seq)
      /\ SeqLatest(down, seqRef, svc.seq) /\ ModeLatest(down, mode, svc.mode)
      /\ RoleLatest(down, role, rights) /\ FilmLatest(down, anchor, svc.anchor)
      /\ Taken(down) => seqRef <= svc.seq
      /\ Follows
  BY ClientAssumption DEF Inv, TypeOK, Room, Current
<1>2. Carries(m) /\ ~Word(m) => FilmLatest(down, anchor, m.anchor)
  BY <1>1
<1>3. Orderly(Append(down, m), seqRef, anchor, svc'.seq)
  BY <1>1, <1>2, AppendOrderly
<1>4. /\ SeqLatest(Append(down, m), seqRef, svc'.seq) /\ ModeLatest(Append(down, m), mode, svc'.mode)
      /\ RoleLatest(Append(down, m), role, rights') /\ FilmLatest(Append(down, m), anchor, svc'.anchor)
  BY <1>1, AppendLatest
<1>5. Taken(down') => seqRef <= svc'.seq
  <2>1. Taken(down') => Taken(down)
    BY <1>1 DEF Taken
  <2>2. QED
    BY <1>1, <2>1
<1>6. Follows'
  <2>1. SUFFICES ASSUME \A i \in 1..Len(down') : ~Word(down'[i]), ~countdown
                 PROVE  video <=> svc'.anchor = "playing"
    BY DEF Follows
  <2>2. \A i \in 1..Len(down) : i \in 1..Len(down') /\ down'[i] = down[i]
    BY <1>1
  <2>3. Len(down') \in 1..Len(down') /\ down'[Len(down')] = m
    BY <1>1
  <2>4. svc'.anchor = svc.anchor
    BY <2>1, <2>3
  <2>5. QED
    BY <1>1, <2>1, <2>2, <2>4 DEF Follows
<1>7. QED
  BY <1>3, <1>4, <1>5, <1>6 DEF Inv, Current

\* The page takes a message.
LEMMA Hear ==
  ASSUME Inv, TypeOK', Conn', down # <<>>, down' = Tail(down), UNCHANGED <<svc, over, rights, srv>>,
         seqRef' = SeqAfter(Head(down), seqRef), mode' = ModeAfter(Head(down), mode),
         role' = RoleAfter(Head(down), role), anchor' = FilmAfter(Head(down), anchor),
         Word(Head(down)) => (~countdown' => (video' <=> Head(down).anchor = "playing")),
         ~Word(Head(down)) =>
           \/ UNCHANGED <<countdown, video>>
           \/ Carries(Head(down)) /\ (~countdown' => (video' <=> Head(down).anchor = "playing"))
  PROVE  Inv'
<1> DEFINE m == Head(down)
<1>1. down \in Seq(Message) /\ m = down[1] /\ Len(down) \in Nat \ {0} /\ 1 \in 1..Len(down)
      /\ seqRef \in Nat /\ svc.seq \in Nat /\ Orderly(down, seqRef, anchor, svc.seq)
  BY FirstMessage, ClientAssumption DEF Inv, TypeOK, Room
<1>2. Orderly(down', seqRef', anchor', svc'.seq)
  BY <1>1, TailOrderly
<1>3. ASSUME srv = "in", ~over
      PROVE  /\ SeqLatest(down', seqRef', svc'.seq) /\ ModeLatest(down', mode', svc'.mode)
             /\ RoleLatest(down', role', rights') /\ FilmLatest(down', anchor', svc'.anchor)
  BY <1>1, <1>3, TailLatest DEF Inv, Current
<1>4. ASSUME srv = "in", ~over PROVE seqRef' <= svc'.seq
  <2>1. CASE Numbered(m)
    BY <1>1, <2>1 DEF Orderly, SeqAfter
  <2>2. CASE ~Numbered(m)
    <3>1. Taken(down) /\ seqRef' = seqRef
      BY <1>1, <2>2 DEF Taken, Numbered, SeqAfter
    <3>2. QED
      BY <1>4, <3>1 DEF Inv, Current
  <2>3. QED
    BY <2>1, <2>2
<1>5. ASSUME srv = "in", ~over PROVE Follows'
  <2>1. SUFFICES ASSUME \A i \in 1..Len(down') : ~Word(down'[i]), ~countdown'
                 PROVE  video' <=> svc.anchor = "playing"
    BY DEF Follows
  <2>2. \A k \in 2..Len(down) : k - 1 \in 1..Len(down') /\ down[k] = down'[k - 1]
    BY <1>1
  <2>3. \A k \in (1 + 1)..Len(down) : ~Word(down[k])
    BY <2>1, <2>2
  <2>4. ASSUME Carries(m) PROVE m.anchor = svc.anchor
    BY <1>1, <1>5, <2>3, <2>4 DEF Inv, Current, FilmLatest
  <2>5. CASE Word(m)
    BY <2>1, <2>4, <2>5 DEF Word, Carries
  <2>6. CASE ~Word(m) /\ UNCHANGED <<countdown, video>>
    <3>1. \A k \in 1..Len(down) : ~Word(down[k])
      BY <1>1, <2>3, <2>6
    <3>2. QED
      BY <1>5, <2>1, <2>6, <3>1 DEF Inv, Current, Follows
  <2>7. CASE ~Word(m) /\ Carries(m) /\ (~countdown' => (video' <=> m.anchor = "playing"))
    BY <2>1, <2>4, <2>7
  <2>8. QED
    BY <2>5, <2>6, <2>7
<1>6. QED
  BY <1>2, <1>3, <1>4, <1>5 DEF Inv, Current

-----------------------------------------------------------------------------
(* The actions. *)

LEMMA InitInv == ASSUME Init PROVE Inv
<1>1. svc = [seq |-> 0, mode |-> "host_only", anchor |-> "paused"] /\ saved = svc /\ 0 \in 0..MaxSeq
  BY ClientAssumption DEF Init
<1>2. svc \in Room /\ saved \in Room
  BY <1>1 DEF Room, State
<1>3. TypeOK
  <2>1. up \in Seq(ToServer) /\ down \in Seq(Message)
    BY DEF Init
  <2>2. {known, ended, connected, applying, countdown, video, dirty} \subseteq BOOLEAN
    BY DEF Init
  <2>3. over \in BOOLEAN /\ stale \in BOOLEAN /\ ~countdown /\ anchor = Null
    BY DEF Init
  <2>4. QED
    BY <1>1, <1>2, <2>1, <2>2, <2>3 DEF Init, TypeOK, Roles
<1>4. Conn /\ Orderly(down, seqRef, anchor, svc.seq) /\ Current
  BY DEF Init, Conn, Orderly, Current
<1>5. QED
  BY <1>3, <1>4 DEF Inv

\* A message that goes to the page if it is in the room: its channel stays typed.
LEMMA TellsTypes ==
  ASSUME TypeOK, Conn, NEW m \in Message, Tells(m)
  PROVE  down' \in Seq(Message) /\ (srv # "in" => down = <<>> /\ down' = <<>>)
BY DEF TypeOK, Conn, Tells

\* A command of the room.
LEMMA CommandStep ==
  ASSUME Inv, NEW m \in Message, Tells(m), ~over, svc'.seq = svc.seq + 1, svc' \in Room, rights' \in Roles,
         UNCHANGED <<saved, over, srv, ws, stale, up, pageVars>>,
         m.type \in {"playback", "control_mode", "host_transfer"}, m.seq = svc'.seq,
         IF Modal(m) THEN ModeOf(m) = svc'.mode ELSE svc'.mode = svc.mode,
         IF Rights(m) THEN m.role = rights' ELSE rights' = rights,
         IF Word(m) THEN m.anchor = svc'.anchor ELSE svc'.anchor = svc.anchor
  PROVE  Inv'
<1>1. down' \in Seq(Message) /\ (srv # "in" => down' = <<>>)
  BY TellsTypes DEF Inv
<1>2. TypeOK'
  BY <1>1 DEF Inv, TypeOK, pageVars
<1>3. Conn'
  BY <1>1 DEF Inv, Conn
<1>4. CASE srv = "in"
  <2>1. down' = Append(down, m)
    BY <1>4 DEF Tells
  <2>2. svc.seq \in Nat /\ svc.seq <= svc'.seq
    BY ClientAssumption DEF Inv, TypeOK, Room
  <2>3. Numbered(m) /\ m.type \notin {"snapshot", "room_ended"} /\ (Carries(m) => Word(m))
    BY DEF Numbered, Carries, Word
  <2>4. UNCHANGED <<seqRef, role, mode, anchor, countdown, video>>
    BY DEF pageVars
  <2>5. QED
    BY <1>2, <1>3, <1>4, <2>1, <2>2, <2>3, <2>4, Send
<1>5. CASE srv # "in"
  BY <1>1, <1>2, <1>3, <1>5, Cut
<1>6. QED
  BY <1>4, <1>5

LEMMA CommandSteps ==
  ASSUME Inv, PlaybackCmd \/ ControlModeCmd \/ HostTransfer
  PROVE  Inv'
<1>1. svc \in Room /\ svc.seq \in Nat /\ ~over /\ svc.seq + 1 \in 0..MaxSeq /\ rights \in Roles
  <2>1. ~over /\ svc.seq < MaxSeq
    BY DEF PlaybackCmd, ControlModeCmd, HostTransfer, Commands
  <2>2. svc \in Room /\ svc.seq \in 0..MaxSeq /\ rights \in Roles
    BY DEF Inv, TypeOK, Room
  <2>3. QED
    BY <2>1, <2>2, ClientAssumption
<1>2. CASE PlaybackCmd
  <2>1. PICK s \in State : svc' = [svc EXCEPT !.seq = @ + 1, !.anchor = s]
    BY <1>2 DEF PlaybackCmd
  <2>2. svc' \in Room /\ svc'.seq = svc.seq + 1 /\ svc'.mode = svc.mode
    BY <1>1, <2>1 DEF Room
  <2> DEFINE m == [type |-> "playback", seq |-> svc'.seq, anchor |-> svc'.anchor]
  <2>3. m \in Message /\ m.type = "playback" /\ m.seq = svc'.seq /\ m.anchor = svc'.anchor
    BY <2>2 DEF Message, Room
  <2>4. Tells(m) /\ UNCHANGED <<saved, over, rights, srv, ws, stale, up, pageVars>>
    BY <1>2 DEF PlaybackCmd
  <2>5. ~Modal(m) /\ ~Rights(m) /\ Word(m)
    BY <2>3 DEF Modal, Rights, Word
  <2> HIDE DEF m
  <2>6. QED
    BY <1>1, <2>2, <2>3, <2>4, <2>5, CommandStep
<1>3. CASE ControlModeCmd
  <2>1. PICK s \in Modes : svc' = [svc EXCEPT !.seq = @ + 1, !.mode = s]
    BY <1>3 DEF ControlModeCmd, Modes
  <2>2. svc' \in Room /\ svc'.seq = svc.seq + 1 /\ svc'.anchor = svc.anchor
    BY <1>1, <2>1 DEF Room, Modes
  <2> DEFINE m == [type |-> "control_mode", seq |-> svc'.seq, mode |-> svc'.mode]
  <2>3. m \in Message /\ m.type = "control_mode" /\ m.seq = svc'.seq /\ m.mode = svc'.mode
    BY <2>2 DEF Message, Room
  <2>4. Tells(m) /\ UNCHANGED <<saved, over, rights, srv, ws, stale, up, pageVars>>
    BY <1>3 DEF ControlModeCmd
  <2>5. Modal(m) /\ ModeOf(m) = svc'.mode /\ ~Rights(m) /\ ~Word(m)
    BY <2>3 DEF Modal, ModeOf, Rights, Word
  <2> HIDE DEF m
  <2>6. QED
    BY <1>1, <2>2, <2>3, <2>4, <2>5, CommandStep
<1>4. CASE HostTransfer
  <2>1. svc' = [svc EXCEPT !.seq = @ + 1, !.mode = "host_only"] /\ rights' \in Roles
    BY <1>4 DEF HostTransfer
  <2>2. svc' \in Room /\ svc'.seq = svc.seq + 1 /\ svc'.anchor = svc.anchor /\ svc'.mode = "host_only"
    BY <1>1, <2>1 DEF Room
  <2> DEFINE m == [type |-> "host_transfer", seq |-> svc'.seq, role |-> rights']
  <2>3. m \in Message /\ m.type = "host_transfer" /\ m.seq = svc'.seq /\ m.role = rights'
    BY <2>1, <2>2 DEF Message, Room
  <2>4. Tells(m) /\ UNCHANGED <<saved, over, srv, ws, stale, up, pageVars>>
    BY <1>4 DEF HostTransfer
  <2>5. Modal(m) /\ ModeOf(m) = svc'.mode /\ Rights(m) /\ ~Word(m)
    BY <2>2, <2>3 DEF Modal, ModeOf, Rights, Word
  <2> HIDE DEF m
  <2>6. QED
    BY <1>1, <2>1, <2>2, <2>3, <2>4, <2>5, CommandStep
<1>5. QED
  BY <1>2, <1>3, <1>4

\* The steps after which the page is not in the room.
LEMMA CutSteps ==
  ASSUME Inv, Drop \/ Restart \/ Closes \/ Render \/ Unmount
  PROVE  Inv'
<1>1. TypeOK'
  <2>0. up' = <<>> /\ down' = <<>>
    BY DEF Drop, Restart, Closes, Lost, Render, Unmount, Cleanup
  <2>1. up' \in Seq(ToServer) /\ down' \in Seq(Message)
    BY <2>0
  <2>2. UNCHANGED <<saved, over, rights, seqRef, role, mode, anchor>> /\ svc' \in {svc, saved}
    BY DEF Drop, Restart, Closes, Render, Unmount, svcVars, pageRest
  <2>3. srv' \in {"none", "waiting", "in"} /\ ws' \in {"none", "connecting", "open", "down"}
    BY DEF Inv, TypeOK, Drop, Restart, Closes, Lost, Render, Unmount, Cleanup
  <2>4. stale' \in BOOLEAN /\ connected' \in BOOLEAN /\ dirty' \in BOOLEAN
    <3>1. stale \in BOOLEAN /\ connected \in BOOLEAN /\ dirty \in BOOLEAN
      BY DEF Inv, TypeOK
    <3>2. CASE Drop \/ Restart \/ Closes
      <4>1. stale' = stale /\ Lost
        BY <3>2 DEF Drop, Restart, Closes
      <4>2. (connected' = FALSE /\ dirty' = (dirty \/ connected)) \/ UNCHANGED <<connected, dirty>>
        BY <4>1 DEF Lost
      <4>3. QED
        BY <3>1, <4>1, <4>2
    <3>3. CASE Render \/ Unmount
      BY <3>1, <3>3 DEF Render, Unmount, Cleanup
    <3>4. QED
      BY <3>2, <3>3
  <2>5. UNCHANGED <<known, ended, applying, video>> /\ (countdown' = countdown \/ countdown' = FALSE)
    BY DEF Drop, Restart, Closes, Lost, Render, Unmount, Cleanup, pageRest
  <2>6. {known, ended, connected, applying, countdown, video, dirty}' \subseteq BOOLEAN
        /\ (countdown' => anchor' = "playing" /\ applying' /\ ~video')
    <3>1. {known, ended, applying, countdown, video} \subseteq BOOLEAN
          /\ (countdown => anchor = "playing" /\ applying /\ ~video)
      BY DEF Inv, TypeOK
    <3>2. CASE countdown' = countdown
      BY <2>2, <2>4, <2>5, <3>1, <3>2
    <3>3. CASE countdown' = FALSE
      BY <2>4, <2>5, <3>1, <3>3
    <3>4. QED
      BY <2>5, <3>2, <3>3
  <2>7. QED
    BY <2>1, <2>2, <2>3, <2>4, <2>6 DEF Inv, TypeOK
<1>2. Conn' /\ down' = <<>> /\ srv' # "in"
  BY DEF Conn, Drop, Restart, Closes, Lost, Render, Unmount, Cleanup
<1>3. QED
  BY <1>1, <1>2, Cut

\* The steps that say nothing to the page.
LEMMA StillSteps ==
  ASSUME Inv, checkpoint \/ Refused \/ Retry \/ Open \/ StaleClose \/ CountdownEnds \/ Beat
  PROVE  Inv'
<1>1. TypeOK'
  <2>1. CASE checkpoint
    BY <2>1 DEF Inv, TypeOK, checkpoint, netVars, pageVars
  <2>2. CASE Refused
    BY <2>2 DEF Inv, TypeOK, Refused, svcVars, pageRest
  <2>3. CASE Retry
    BY <2>3 DEF Inv, TypeOK, Retry, svcVars, pageVars
  <2>4. CASE Open
    BY <2>4 DEF Inv, TypeOK, Open, ToServer, svcVars, pageRest
  <2>5. CASE StaleClose
    BY <2>5 DEF Inv, TypeOK, StaleClose, svcVars, pageRest
  <2>6. CASE CountdownEnds
    BY <2>6 DEF Inv, TypeOK, CountdownEnds, svcVars, netVars
  <2>7. CASE Beat
    <3>1. PICK t \in {"heartbeat", "sync_ping"} : up' = Append(up, t)
      BY <2>7 DEF Beat
    <3>2. up' \in Seq(ToServer)
      BY <3>1 DEF Inv, TypeOK, ToServer
    <3>3. QED
      BY <2>7, <3>2 DEF Inv, TypeOK, Beat, svcVars, pageVars
  <2>8. QED
    BY <2>1, <2>2, <2>3, <2>4, <2>5, <2>6, <2>7
<1>2. Conn'
  BY DEF Inv, TypeOK, Conn, checkpoint, Refused, Retry, Open, StaleClose, CountdownEnds, Beat,
         svcVars, netVars, pageVars, pageRest
<1>3. UNCHANGED <<svc, over, rights, srv, down, seqRef, role, mode, anchor>>
  BY DEF checkpoint, Refused, Retry, Open, StaleClose, CountdownEnds, Beat, svcVars, netVars, pageVars, pageRest
<1>4. CASE ~CountdownEnds
  <2>1. UNCHANGED <<countdown, video>>
    BY <1>4 DEF checkpoint, Refused, Retry, Open, StaleClose, Beat, pageVars, pageRest
  <2>2. QED
    BY <1>1, <1>2, <1>3, <2>1, Still DEF Follows
<1>5. CASE CountdownEnds
  <2>1. ASSUME srv = "in", ~over PROVE Follows'
    <3>1. countdown /\ video' = TRUE /\ anchor = "playing"
      BY <1>5 DEF CountdownEnds, Inv, TypeOK
    <3>2. (\A i \in 1..Len(down) : ~Word(down[i])) => anchor = svc.anchor
      BY <2>1 DEF Inv, Current, FilmLatest
    <3>3. QED
      BY <1>3, <3>1, <3>2 DEF Follows
  <2>2. QED
    BY <1>1, <1>2, <1>3, <2>1 DEF Inv, Current, Taken
<1>6. QED
  BY <1>4, <1>5

\* The clock is shown again as it is.
LEMMA ShowSteps ==
  ASSUME Inv, Drift \/ Resync
  PROVE  Inv'
<1>1. UNCHANGED <<countdown, video, applying, anchor>> \/ (Apply(anchor, FALSE) /\ anchor # Null)
  BY DEF Drift, Resync
<1>2. anchor' = anchor /\ UNCHANGED <<svc, saved, over, rights, srv, ws, stale, up, down, seqRef, known, role, mode, ended, connected>>
  BY DEF Drift, Resync, Apply, svcVars, netVars
<1>3. dirty' \in BOOLEAN
  BY DEF Drift, Resync, Inv, TypeOK
<1>4. /\ {known, ended, connected, applying, countdown, video, dirty}' \subseteq BOOLEAN
      /\ countdown' => anchor' = "playing" /\ applying' /\ ~video'
  <2>1. CASE UNCHANGED <<countdown, video, applying, anchor>>
    BY <1>2, <1>3, <2>1 DEF Inv, TypeOK
  <2>2. CASE Apply(anchor, FALSE)
    <3>1. applying' = FALSE /\ countdown' = FALSE /\ video' = (anchor = "playing")
      BY <2>2 DEF Apply
    <3>2. QED
      BY <1>2, <1>3, <3>1 DEF Inv, TypeOK
  <2>3. QED
    BY <1>1, <2>1, <2>2
<1>5. TypeOK' /\ Conn'
  BY <1>2, <1>4 DEF Inv, TypeOK, Conn
<1>6. ASSUME srv = "in", ~over PROVE Follows'
  <2>1. (\A i \in 1..Len(down) : ~Word(down[i])) => anchor = svc.anchor
    BY <1>6 DEF Inv, Current, FilmLatest
  <2>2. CASE UNCHANGED <<countdown, video, applying, anchor>>
    BY <1>2, <1>6, <2>2 DEF Inv, Current, Follows
  <2>3. CASE Apply(anchor, FALSE)
    <3>1. video' = (anchor = "playing")
      BY <2>3 DEF Apply
    <3>2. QED
      BY <1>2, <2>1, <3>1 DEF Follows
  <2>4. QED
    BY <1>1, <2>2, <2>3
<1>7. QED
  BY <1>2, <1>5, <1>6 DEF Inv, Current, Taken

\* The end of the room: from now on only types and the order of what is under way matter.
LEMMA EndStep == ASSUME Inv, EndRoom PROVE Inv'
<1> DEFINE m == [type |-> "room_ended"]
<1>1. m \in Message /\ m.type = "room_ended" /\ ~Numbered(m) /\ ~Carries(m)
  BY DEF Message, Numbered, Carries
<1>2. Tells(m) /\ over' /\ UNCHANGED <<svc, saved, rights, srv, ws, stale, up, pageVars>>
  BY DEF EndRoom
<1> HIDE DEF m
<1>3. down' \in Seq(Message) /\ (srv # "in" => down' = <<>>)
  BY <1>1, <1>2, TellsTypes DEF Inv
<1>4. TypeOK' /\ Conn'
  BY <1>2, <1>3 DEF Inv, TypeOK, Conn, pageVars
<1>5. CASE srv = "in"
  <2>1. down' = Append(down, m) /\ down \in Seq(Message) /\ svc.seq \in Nat /\ seqRef \in Nat
    BY <1>2, <1>5, ClientAssumption DEF Tells, Inv, TypeOK, Room
  <2>2. Orderly(Append(down, m), seqRef, anchor, svc.seq)
    BY <1>1, <2>1, AppendOrderly DEF Inv
  <2>3. QED
    BY <1>2, <1>4, <2>1, <2>2 DEF Inv, Current, pageVars
<1>6. CASE srv # "in"
  BY <1>2, <1>3, <1>4, <1>6, Cut
<1>7. QED
  BY <1>5, <1>6

\* The service hears the page.
LEMMA ServiceSteps ==
  ASSUME Inv, OnJoin \/ Admit \/ OnHeartbeat \/ OnPing
  PROVE  Inv'
<1>1. down \in Seq(Message) /\ svc \in Room /\ svc.seq \in Nat /\ svc.seq \in 0..MaxSeq /\ svc.anchor \in State
      /\ rights \in Roles
  BY ClientAssumption DEF Inv, TypeOK, Room
<1>2. CASE OnJoin
  <2>1. down = <<>> /\ up \in Seq(ToServer) /\ up # <<>> /\ up' = Tail(up) /\ srv = "none" /\ ws = "open"
    BY <1>2 DEF OnJoin, Asked, Inv, TypeOK, Conn
  <2>2. CASE ~over
    BY <1>2, <2>1, <2>2, Cut DEF OnJoin, Inv, TypeOK, Conn, svcVars, pageVars
  <2>3. CASE over
    <3> DEFINE m == [type |-> "room_ended"]
    <3>1. m \in Message /\ m.type = "room_ended"
      BY DEF Message
    <3>2. down' = Append(<<>>, m) /\ srv' = "in" /\ UNCHANGED <<svcVars, ws, stale, pageVars>>
      BY <1>2, <2>1, <2>3 DEF OnJoin
    <3> HIDE DEF m
    <3>3. Len(down') = 1 /\ down'[1] = m /\ down' \in Seq(Message)
      BY <3>1, <3>2
    <3>4. TypeOK' /\ Conn'
      BY <2>1, <3>2, <3>3 DEF Inv, TypeOK, Conn, svcVars, pageVars
    <3>5. Orderly(down', seqRef', anchor', svc'.seq)
      BY <3>1, <3>3 DEF Orderly, Numbered, Carries
    <3>6. QED
      BY <2>3, <3>2, <3>4, <3>5 DEF Inv, Current, svcVars
  <2>4. QED
    BY <2>2, <2>3
<1>3. CASE Admit
  <2> DEFINE m == [type |-> "snapshot", seq |-> svc.seq, role |-> rights, mode |-> svc.mode, anchor |-> svc.anchor]
  <2>1. m \in Message /\ m.type = "snapshot" /\ m.seq = svc.seq /\ m.role = rights /\ m.mode = svc.mode
        /\ m.anchor = svc.anchor
    BY <1>1 DEF Message, Room
  <2>2. down = <<>> /\ ws = "open"
    BY <1>3 DEF Admit, Inv, Conn
  <2>3. down' = Append(<<>>, m) /\ srv' = "in" /\ UNCHANGED <<svcVars, ws, stale, up, pageVars>>
    BY <1>3, <2>2 DEF Admit
  <2> HIDE DEF m
  <2>4. Len(down') = 1 /\ down'[1] = m /\ down' \in Seq(Message)
    BY <2>1, <2>3
  <2>5. TypeOK' /\ Conn'
    BY <2>2, <2>3, <2>4 DEF Inv, TypeOK, Conn, svcVars, pageVars
  <2>6. Orderly(down', seqRef', anchor', svc'.seq)
    BY <1>1, <2>1, <2>3, <2>4 DEF Orderly, Numbered, Carries, Word, svcVars
  <2>7. SeqLatest(down', seqRef', svc'.seq) /\ ModeLatest(down', mode', svc'.mode)
        /\ RoleLatest(down', role', rights') /\ FilmLatest(down', anchor', svc'.anchor)
    BY <1>1, <2>1, <2>3, <2>4
    DEF SeqLatest, ModeLatest, RoleLatest, FilmLatest, Numbered, Modal, ModeOf, Rights, Carries, Word, svcVars
  <2>8. ~Taken(down') /\ Follows'
    BY <2>1, <2>4 DEF Taken, Follows, Word
  <2>9. QED
    BY <2>5, <2>6, <2>7, <2>8 DEF Inv, Current
<1>4. CASE OnHeartbeat
  <2>1. up \in Seq(ToServer) /\ up # <<>> /\ up' = Tail(up) /\ ws = "open"
        /\ UNCHANGED <<svcVars, srv, ws, stale, pageVars>>
    BY <1>4 DEF OnHeartbeat, Asked, Inv, TypeOK, Conn
  <2> DEFINE m == [type |-> "heartbeat_ack", seq |-> svc.seq, anchor |-> svc.anchor]
  <2>2. m \in Message /\ m.type = "heartbeat_ack" /\ m.seq = svc.seq /\ m.anchor = svc.anchor
    BY <1>1 DEF Message
  <2>3. down' = IF srv = "in" /\ ~over THEN Append(down, m) ELSE down
    BY <1>4 DEF OnHeartbeat
  <2> HIDE DEF m
  <2>4. TypeOK' /\ Conn'
    BY <1>1, <2>1, <2>2, <2>3 DEF Inv, TypeOK, Conn, svcVars, pageVars
  <2>5. ~Modal(m) /\ ~Rights(m) /\ ~Word(m)
    BY <2>2 DEF Modal, Rights, Word
  <2>6. CASE srv = "in" /\ ~over
    BY <1>1, <2>1, <2>2, <2>3, <2>4, <2>5, <2>6, Send DEF svcVars, pageVars
  <2>7. CASE ~(srv = "in" /\ ~over)
    BY <2>1, <2>3, <2>4, <2>7, Still DEF svcVars, pageVars, Follows
  <2>8. QED
    BY <2>6, <2>7
<1>5. CASE OnPing
  <2>1. up \in Seq(ToServer) /\ up # <<>> /\ up' = Tail(up) /\ ws = "open"
        /\ UNCHANGED <<svcVars, srv, ws, stale, pageVars>>
    BY <1>5 DEF OnPing, Asked, Inv, TypeOK, Conn
  <2> DEFINE m == [type |-> "sync_pong", anchor |-> svc.anchor]
  <2>2. m \in Message /\ m.type = "sync_pong" /\ m.anchor = svc.anchor
    BY <1>1 DEF Message
  <2>3. down' = IF srv = "in" /\ ~over THEN Append(down, m) ELSE down
    BY <1>5 DEF OnPing
  <2> HIDE DEF m
  <2>4. TypeOK' /\ Conn'
    BY <1>1, <2>1, <2>2, <2>3 DEF Inv, TypeOK, Conn, svcVars, pageVars
  <2>5. ~Modal(m) /\ ~Rights(m) /\ ~Word(m) /\ ~Numbered(m)
    BY <2>2 DEF Modal, Rights, Word, Numbered
  <2>6. CASE srv = "in" /\ ~over
    BY <1>1, <2>1, <2>2, <2>3, <2>4, <2>5, <2>6, Send DEF svcVars, pageVars
  <2>7. CASE ~(srv = "in" /\ ~over)
    BY <2>1, <2>3, <2>4, <2>7, Still DEF svcVars, pageVars, Follows
  <2>8. QED
    BY <2>6, <2>7
<1>6. QED
  BY <1>2, <1>3, <1>4, <1>5

\* What every message leaves alone, and what of the page stays typed.
LEMMA HearsTypes ==
  ASSUME Inv, Hears
  PROVE  /\ down # <<>> /\ down' = Tail(down) /\ UNCHANGED <<svc, saved, over, rights, srv, ws, stale, up, connected>>
         /\ down' \in Seq(Message) /\ Conn'
<1>1. down # <<>> /\ down' = Tail(down) /\ UNCHANGED <<svc, saved, over, rights, srv, ws, stale, up, connected>>
  BY DEF Hears, OnSnapshot, OnPlayback, OnControlMode, OnHostTransfer, OnHeartbeatAck, OnPong, OnRoomEnded,
         Heard, svcVars
<1>2. down' \in Seq(Message)
  BY <1>1, FirstMessage
<1>3. QED
  BY <1>1, <1>2 DEF Inv, Conn

\* The clock after Apply: typed, with a countdown only where TypeOK has one, and the video follows.
LEMMA ApplyClock ==
  ASSUME NEW s \in State, NEW wait \in BOOLEAN, Apply(s, wait)
  PROVE  /\ anchor' = s /\ applying' \in BOOLEAN /\ countdown' \in BOOLEAN /\ video' \in BOOLEAN
         /\ countdown' => anchor' = "playing" /\ applying' /\ ~video'
         /\ ~countdown' => (video' <=> s = "playing")
BY DEF Apply

\* The types of the page, from their parts.
LEMMA PageTypes ==
  ASSUME Inv, Hears, seqRef' \in 0..MaxSeq, role' \in Roles, mode' \in Modes, anchor' \in State \cup {Null},
         known' \in BOOLEAN, ended' \in BOOLEAN, dirty' \in BOOLEAN,
         applying' \in BOOLEAN, countdown' \in BOOLEAN, video' \in BOOLEAN,
         countdown' => anchor' = "playing" /\ applying' /\ ~video'
  PROVE  TypeOK'
<1>1. connected' \in BOOLEAN
  BY HearsTypes DEF Inv, TypeOK
<1>2. {known, ended, connected, applying, countdown, video, dirty}' \subseteq BOOLEAN
  BY <1>1
<1>3. QED
  BY <1>2, HearsTypes DEF Inv, TypeOK, Modes

LEMMA HearSteps == ASSUME Inv, Hears PROVE Inv'
<1> DEFINE m == Head(down)
<1>1. down # <<>> /\ down' = Tail(down) /\ UNCHANGED <<svc, over, rights, srv>> /\ Conn'
  BY HearsTypes
<1>2. m \in Message /\ m = down[1] /\ 1 \in 1..Len(down)
  BY <1>1, FirstMessage
<1>3. /\ Numbered(m) => m.seq \in 0..MaxSeq
      /\ Carries(m) => m.anchor \in State
      /\ Rights(m) => m.role \in Roles
      /\ m.type \in {"snapshot", "control_mode"} => m.mode \in Modes
  BY <1>2, MessageFields
<1>4. /\ seqRef \in 0..MaxSeq /\ role \in Roles /\ mode \in Modes /\ anchor \in State \cup {Null}
      /\ known \in BOOLEAN /\ ended \in BOOLEAN /\ dirty \in BOOLEAN
      /\ applying \in BOOLEAN /\ countdown \in BOOLEAN /\ video \in BOOLEAN
      /\ countdown => anchor = "playing" /\ applying /\ ~video
  BY DEF Inv, TypeOK, Modes
<1>5. Carries(m) /\ ~Word(m) => m.anchor = anchor
  BY <1>2 DEF Inv, Orderly
<1>6. CASE OnSnapshot
  <2>1. m.type = "snapshot" /\ UNCHANGED ended
    BY <1>6 DEF OnSnapshot, Heard
  <2>2. Numbered(m) /\ Carries(m) /\ Word(m) /\ Modal(m) /\ ModeOf(m) = m.mode /\ Rights(m)
    BY <2>1 DEF Numbered, Carries, Word, Modal, ModeOf, Rights
  <2>3. /\ seqRef' = m.seq /\ dirty' = TRUE /\ known' = TRUE /\ role' = m.role /\ mode' = m.mode
        /\ Apply(m.anchor, FALSE)
    BY <1>1, <1>6, <2>2, FirstMessage DEF OnSnapshot, Takes
  <2>4. /\ anchor' = m.anchor /\ applying' \in BOOLEAN /\ countdown' \in BOOLEAN /\ video' \in BOOLEAN
        /\ countdown' => anchor' = "playing" /\ applying' /\ ~video'
        /\ ~countdown' => (video' <=> m.anchor = "playing")
    BY <1>3, <2>2, <2>3, ApplyClock
  <2>5. TypeOK'
    BY <1>3, <1>4, <2>1, <2>2, <2>3, <2>4, PageTypes
  <2>6. QED
    BY <1>1, <2>2, <2>3, <2>4, <2>5, Hear DEF SeqAfter, ModeAfter, RoleAfter, FilmAfter
<1>7. CASE OnPlayback
  <2>1. m.type = "playback" /\ UNCHANGED <<known, role, mode, ended>>
    BY <1>7 DEF OnPlayback, Heard
  <2>2. Numbered(m) /\ Carries(m) /\ Word(m) /\ ~Modal(m) /\ ~Rights(m)
    BY <2>1 DEF Numbered, Carries, Word, Modal, Rights
  <2>3. seqRef' = m.seq /\ dirty' = TRUE /\ \E wait \in BOOLEAN : Apply(m.anchor, wait)
    BY <1>1, <1>7, <2>2, FirstMessage DEF OnPlayback, Takes
  <2>4. /\ anchor' = m.anchor /\ applying' \in BOOLEAN /\ countdown' \in BOOLEAN /\ video' \in BOOLEAN
        /\ countdown' => anchor' = "playing" /\ applying' /\ ~video'
        /\ ~countdown' => (video' <=> m.anchor = "playing")
    BY <1>3, <2>2, <2>3, ApplyClock
  <2>5. TypeOK'
    BY <1>3, <1>4, <1>7, <2>1, <2>2, <2>3, <2>4, PageTypes
  <2>6. QED
    BY <1>1, <2>1, <2>2, <2>3, <2>4, <2>5, Hear DEF SeqAfter, ModeAfter, RoleAfter, FilmAfter
<1>8. CASE OnControlMode
  <2>1. m.type = "control_mode" /\ UNCHANGED <<known, role, ended, clockVars>>
    BY <1>8 DEF OnControlMode, Heard
  <2>2. Numbered(m) /\ ~Carries(m) /\ ~Word(m) /\ Modal(m) /\ ModeOf(m) = m.mode /\ ~Rights(m)
    BY <2>1 DEF Numbered, Carries, Word, Modal, ModeOf, Rights
  <2>3. seqRef' = m.seq /\ dirty' = TRUE /\ mode' = m.mode
    BY <1>1, <1>8, <2>2, FirstMessage DEF OnControlMode, Takes
  <2>4. UNCHANGED <<anchor, applying, countdown, video>>
    BY <2>1 DEF clockVars
  <2>5. TypeOK'
    BY <1>3, <1>4, <1>8, <2>1, <2>2, <2>3, <2>4, PageTypes
  <2>6. QED
    BY <1>1, <2>1, <2>2, <2>3, <2>4, <2>5, Hear DEF SeqAfter, ModeAfter, RoleAfter, FilmAfter
<1>9. CASE OnHostTransfer
  <2>1. m.type = "host_transfer" /\ UNCHANGED <<known, ended, clockVars>>
    BY <1>9 DEF OnHostTransfer, Heard
  <2>2. Numbered(m) /\ ~Carries(m) /\ ~Word(m) /\ Modal(m) /\ ModeOf(m) = "host_only" /\ Rights(m)
    BY <2>1 DEF Numbered, Carries, Word, Modal, ModeOf, Rights
  <2>3. seqRef' = m.seq /\ dirty' = TRUE /\ role' = m.role /\ mode' = "host_only"
    BY <1>1, <1>9, <2>2, FirstMessage DEF OnHostTransfer, Takes
  <2>4. UNCHANGED <<anchor, applying, countdown, video>>
    BY <2>1 DEF clockVars
  <2>5. TypeOK'
    BY <1>3, <1>4, <1>9, <2>1, <2>2, <2>3, <2>4, PageTypes DEF Modes
  <2>6. QED
    BY <1>1, <2>1, <2>2, <2>3, <2>4, <2>5, Hear DEF SeqAfter, ModeAfter, RoleAfter, FilmAfter
<1>10. CASE OnHeartbeatAck
  <2>1. m.type = "heartbeat_ack" /\ UNCHANGED <<known, role, mode, ended>>
    BY <1>10 DEF OnHeartbeatAck, Heard
  <2>2. Numbered(m) /\ Carries(m) /\ ~Word(m) /\ ~Modal(m) /\ ~Rights(m)
    BY <2>1 DEF Numbered, Carries, Word, Modal, Rights
  <2>3. /\ seqRef' = m.seq /\ dirty' = TRUE
        /\ (anchor' = m.anchor /\ UNCHANGED <<applying, countdown, video>>) \/ Apply(m.anchor, FALSE)
    BY <1>1, <1>10, <2>2, FirstMessage DEF OnHeartbeatAck, Takes
  <2>4. /\ anchor' = m.anchor /\ applying' \in BOOLEAN /\ countdown' \in BOOLEAN /\ video' \in BOOLEAN
        /\ countdown' => anchor' = "playing" /\ applying' /\ ~video'
        /\ UNCHANGED <<countdown, video>> \/ (~countdown' => (video' <=> m.anchor = "playing"))
    <3>1. CASE anchor' = m.anchor /\ UNCHANGED <<applying, countdown, video>>
      BY <1>4, <1>5, <2>2, <3>1
    <3>2. CASE Apply(m.anchor, FALSE)
      BY <1>3, <2>2, <3>2, ApplyClock
    <3>3. QED
      BY <2>3, <3>1, <3>2
  <2>5. TypeOK'
    BY <1>3, <1>4, <1>10, <2>1, <2>2, <2>3, <2>4, PageTypes
  <2>6. QED
    BY <1>1, <2>1, <2>2, <2>3, <2>4, <2>5, Hear DEF SeqAfter, ModeAfter, RoleAfter, FilmAfter
<1>11. CASE OnPong
  <2>1. /\ m.type = "sync_pong" /\ anchor' = m.anchor /\ dirty' = (dirty \/ anchor' # anchor)
        /\ UNCHANGED <<seqRef, known, role, mode, ended, applying, countdown, video>>
    BY <1>11 DEF OnPong, Heard
  <2>2. ~Numbered(m) /\ Carries(m) /\ ~Word(m) /\ ~Modal(m) /\ ~Rights(m)
    BY <2>1 DEF Numbered, Carries, Word, Modal, Rights
  <2>3. anchor' = anchor /\ dirty' \in BOOLEAN
    BY <1>4, <1>5, <2>1, <2>2
  <2>4. TypeOK'
    BY <1>4, <1>11, <2>1, <2>3, PageTypes
  <2>5. QED
    BY <1>1, <2>1, <2>2, <2>4, Hear DEF SeqAfter, ModeAfter, RoleAfter, FilmAfter
<1>12. CASE OnRoomEnded
  <2>1. /\ m.type = "room_ended" /\ ended' = TRUE /\ dirty' = TRUE
        /\ UNCHANGED <<seqRef, known, role, mode, anchor, applying, countdown, video>>
    BY <1>12 DEF OnRoomEnded, Heard, clockVars
  <2>2. ~Numbered(m) /\ ~Carries(m) /\ ~Word(m) /\ ~Modal(m) /\ ~Rights(m)
    BY <2>1 DEF Numbered, Carries, Word, Modal, Rights
  <2>3. TypeOK'
    BY <1>4, <1>12, <2>1, PageTypes
  <2>4. QED
    BY <1>1, <2>1, <2>2, <2>3, Hear DEF SeqAfter, ModeAfter, RoleAfter, FilmAfter
<1>13. QED
  BY <1>6, <1>7, <1>8, <1>9, <1>10, <1>11, <1>12 DEF Hears

LEMMA InvAlways == Spec => []Inv
<1>1. ASSUME Inv, [Next]_vars PROVE Inv'
  <2>1. CASE UNCHANGED vars
    BY <1>1, <2>1 DEF vars, Inv, TypeOK, Conn, Current, Follows
  <2>2. QED
    BY <1>1, <2>1, CommandSteps, CutSteps, StillSteps, ShowSteps, EndStep, ServiceSteps, HearSteps
    DEF Next, Service
<1>2. QED
  BY <1>1, InitInv, PTL DEF Spec

-----------------------------------------------------------------------------
\* The types; a countdown runs only under an anchor that plays, with the video held.
THEOREM TypeCorrect == Spec => []TypeOK
<1>1. Inv => TypeOK
  BY DEF Inv
<1>2. QED
  BY <1>1, InvAlways, PTL

\* A page in the room with nothing under way to it shows what the service says, after any crashes
\* and connections.
THEOREM PageAgrees == Spec => []Agrees
<1>1. ASSUME Inv, ws = "open", srv = "in", down = <<>>, ~over
      PROVE  seqRef = svc.seq /\ role = rights /\ mode = svc.mode /\ anchor = svc.anchor
  <2>1. Len(down) = 0
    BY <1>1
  <2>2. QED
    BY <1>1, <2>1 DEF Inv, Current, SeqLatest, ModeLatest, RoleLatest, FilmLatest
<1>2. Inv => Agrees
  BY <1>1 DEF Agrees
<1>3. QED
  BY <1>2, InvAlways, PTL

\* And its video plays when the room does, unless a countdown is running.
THEOREM PageFollows == Spec => []VideoFollows
<1>1. ASSUME Inv, ws = "open", srv = "in", down = <<>>, ~over, ~countdown
      PROVE  video <=> svc.anchor = "playing"
  <2>1. Len(down) = 0
    BY <1>1
  <2>2. QED
    BY <1>1, <2>1 DEF Inv, Current, Follows
<1>2. Inv => VideoFollows
  BY <1>1 DEF VideoFollows
<1>3. QED
  BY <1>2, InvAlways, PTL

=============================================================================
