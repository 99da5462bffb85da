-------------------------- MODULE SubtitlesProofs --------------------------
(***************************************************************************)
(* Over a channel that was open all the while a subtitle arrives whole,    *)
(* for any number of files and chunks, and however many messages of other  *)
(* kinds are under way between its chunks.                                 *)
(*                                                                         *)
(* The messages about one file are numbered as the host sends them: the    *)
(* offer is 1, chunk i is i + 1, and done is Chunks + 2.  The argument is  *)
(* that the guest has heard the first of them, that all the others sent so *)
(* far are under way, and in their order.                                  *)
(***************************************************************************)
EXTENDS Subtitles, TLAPS

-----------------------------------------------------------------------------
(* The messages about one file. *)

About(m, f) == m.type # "subtitle_set" /\ m.file = f

Number(m) == IF m.type = "file_offer" THEN 1
             ELSE IF m.type = "file_chunk" THEN m.index + 1 ELSE Chunks + 2

\* How many the host has sent of a file that was not cut.
Given(st) == IF st[1] \in {"none", "read"} THEN 0
             ELSE IF st[1] = "chunk" THEN st[2] + 1 ELSE Chunks + 2

\* What the guest's bag and text of file f are once it has heard k of them.
Heard(f, b, t, k) ==
  IF k = 0 THEN b = NoBag /\ t = NoBag
  ELSE IF k = Chunks + 2 THEN b = NoBag /\ t = {f} \X Chunk
  ELSE b = {f} \X (1..(k - 1)) /\ t = NoBag

\* The guest has heard k of the n messages about f, and C holds the others in their order.
Flows(f, C, b, t, n, k) ==
  /\ k \in 0..n /\ Heard(f, b, t, k)
  /\ \A i \in DOMAIN C : About(C[i], f) => Number(C[i]) \in (k + 1)..n
  /\ \A i, j \in DOMAIN C :
       i < j /\ About(C[i], f) /\ About(C[j], f) => Number(C[i]) < Number(C[j])
  /\ \A x \in (k + 1)..n : \E i \in DOMAIN C : About(C[i], f) /\ Number(C[i]) = x

Flow(f, C, b, t, n) == \E k \in Nat : Flows(f, C, b, t, n, k)

\* A set of chunks is not the mark of a bag that is not there.
LEMMA BagThere == ASSUME NEW f, NEW S PROVE {f} \X S # NoBag
<1>1. <<>> \notin {f} \X S
  OBVIOUS
<1>2. <<>> \in NoBag
  BY DEF NoBag
<1>3. QED
  BY <1>1, <1>2

LEMMA MessageParts ==
  ASSUME Chunks \in Nat, NEW m \in Message
  PROVE  /\ m.type \in {"file_offer", "file_chunk", "file_done", "subtitle_set"}
         /\ m.type # "subtitle_set" => m.file \in File /\ Number(m) \in 1..(Chunks + 2)
         /\ m.type = "file_chunk" => m.index \in Chunk
         /\ m.type = "subtitle_set" => \A f \in File : ~About(m, f)
BY DEF Message, Offer, Piece, Done, Set, About, Number, Chunk

\* A message about f that is the next one.
LEMMA Push ==
  ASSUME NEW f, NEW C \in Seq(Message), NEW b, NEW t, NEW n \in Nat, Flow(f, C, b, t, n),
         NEW m \in Message, About(m, f), Number(m) = n + 1
  PROVE  Flow(f, Append(C, m), b, t, n + 1)
<1> DEFINE D == Append(C, m)
<1>1. PICK k \in Nat : Flows(f, C, b, t, n, k)
  BY DEF Flow
<1>2. /\ DOMAIN C = 1..Len(C) /\ DOMAIN D = 1..(Len(C) + 1) /\ Len(C) \in Nat
      /\ D[Len(C) + 1] = m
      /\ \A i \in 1..Len(C) : D[i] = C[i]
  OBVIOUS
<1> HIDE DEF D
<1>3. /\ k \in 0..n /\ Heard(f, b, t, k)
      /\ \A i \in DOMAIN C : About(C[i], f) => Number(C[i]) \in (k + 1)..n
      /\ \A i, j \in DOMAIN C :
           i < j /\ About(C[i], f) /\ About(C[j], f) => Number(C[i]) < Number(C[j])
      /\ \A x \in (k + 1)..n : \E i \in DOMAIN C : About(C[i], f) /\ Number(C[i]) = x
  BY <1>1 DEF Flows
<1>4. \A i \in DOMAIN D : i \in DOMAIN C \/ i = Len(C) + 1
  BY <1>2
<1>5. \A i \in DOMAIN D : About(D[i], f) => Number(D[i]) \in (k + 1)..(n + 1)
  BY <1>2, <1>3, <1>4
<1>6. \A i, j \in DOMAIN D :
        i < j /\ About(D[i], f) /\ About(D[j], f) => Number(D[i]) < Number(D[j])
  <2>1. SUFFICES ASSUME NEW i \in DOMAIN D, NEW j \in DOMAIN D, i < j,
                        About(D[i], f), About(D[j], f)
                 PROVE  Number(D[i]) < Number(D[j])
    OBVIOUS
  <2>2. i \in DOMAIN C /\ D[i] = C[i] /\ Number(D[i]) \in (k + 1)..n
    BY <1>2, <1>3, <2>1
  <2>3. CASE j \in DOMAIN C
    BY <1>2, <1>3, <2>1, <2>2, <2>3
  <2>4. CASE j = Len(C) + 1
    BY <1>2, <1>3, <2>2, <2>4
  <2>5. QED
    BY <1>4, <2>3, <2>4
<1>7. \A x \in (k + 1)..(n + 1) : \E i \in DOMAIN D : About(D[i], f) /\ Number(D[i]) = x
  <2>1. SUFFICES ASSUME NEW x \in (k + 1)..(n + 1)
                 PROVE  \E i \in DOMAIN D : About(D[i], f) /\ Number(D[i]) = x
    OBVIOUS
  <2>2. CASE x = n + 1
    <3>1. Len(C) + 1 \in DOMAIN D
      BY <1>2
    <3>2. QED
      BY <1>2, <2>2, <3>1
  <2>3. CASE x # n + 1
    <3>1. x \in (k + 1)..n
      BY <2>3
    <3>2. PICK i \in DOMAIN C : About(C[i], f) /\ Number(C[i]) = x
      BY <1>3, <3>1
    <3>3. i \in DOMAIN D /\ D[i] = C[i]
      BY <1>2
    <3>4. QED
      BY <3>2, <3>3
  <2>4. QED
    BY <2>2, <2>3
<1>8. k \in 0..(n + 1)
  BY <1>3
<1>9. Flows(f, D, b, t, n + 1, k)
  BY <1>3, <1>5, <1>6, <1>7, <1>8 DEF Flows
<1>10. QED
  BY <1>9 DEF Flow, D

\* A message about something else.
LEMMA PushOther ==
  ASSUME NEW f, NEW C \in Seq(Message), NEW b, NEW t, NEW n \in Nat, Flow(f, C, b, t, n),
         NEW m \in Message, ~About(m, f)
  PROVE  Flow(f, Append(C, m), b, t, n)
<1> DEFINE D == Append(C, m)
<1>1. PICK k \in Nat : Flows(f, C, b, t, n, k)
  BY DEF Flow
<1>2. /\ DOMAIN C = 1..Len(C) /\ DOMAIN D = 1..(Len(C) + 1) /\ Len(C) \in Nat
      /\ D[Len(C) + 1] = m
      /\ \A i \in 1..Len(C) : D[i] = C[i]
  OBVIOUS
<1> HIDE DEF D
<1>3. \A i \in DOMAIN D : About(D[i], f) => i \in DOMAIN C /\ D[i] = C[i]
  BY <1>2
<1>4. \A i \in DOMAIN C : i \in DOMAIN D /\ D[i] = C[i]
  BY <1>2
<1>5. Flows(f, D, b, t, n, k)
  <2>1. k \in 0..n /\ Heard(f, b, t, k)
    BY <1>1 DEF Flows
  <2>2. \A i \in DOMAIN D : About(D[i], f) => Number(D[i]) \in (k + 1)..n
    BY <1>1, <1>3 DEF Flows
  <2>3. \A i, j \in DOMAIN D :
          i < j /\ About(D[i], f) /\ About(D[j], f) => Number(D[i]) < Number(D[j])
    BY <1>1, <1>3 DEF Flows
  <2>4. \A x \in (k + 1)..n : \E i \in DOMAIN D : About(D[i], f) /\ Number(D[i]) = x
    <3>1. SUFFICES ASSUME NEW x \in (k + 1)..n
                   PROVE  \E i \in DOMAIN D : About(D[i], f) /\ Number(D[i]) = x
      OBVIOUS
    <3>2. PICK i \in DOMAIN C : About(C[i], f) /\ Number(C[i]) = x
      BY <1>1 DEF Flows
    <3>3. QED
      BY <1>4, <3>2
  <2>5. QED
    BY <2>1, <2>2, <2>3, <2>4 DEF Flows
<1>6. QED
  BY <1>5 DEF Flow, D

\* The guest takes a message.  If it is about f it is the next one.
LEMMA PopOther ==
  ASSUME NEW f, NEW C \in Seq(Message), C # <<>>, NEW b, NEW t, NEW n \in Nat,
         Flow(f, C, b, t, n), ~About(Head(C), f)
  PROVE  Flow(f, Tail(C), b, t, n)
<1> DEFINE D == Tail(C)
<1>1. PICK k \in Nat : Flows(f, C, b, t, n, k)
  BY DEF Flow
<1>2. /\ DOMAIN C = 1..Len(C) /\ DOMAIN D = 1..(Len(C) - 1) /\ Len(C) \in Nat \ {0}
      /\ C[1] = Head(C)
      /\ \A i \in 1..(Len(C) - 1) : D[i] = C[i + 1] /\ i + 1 \in DOMAIN C
  OBVIOUS
<1> HIDE DEF D
<1>3. \A i \in DOMAIN C : i # 1 => i - 1 \in DOMAIN D /\ D[i - 1] = C[i]
  <2>1. SUFFICES ASSUME NEW i \in DOMAIN C, i # 1 PROVE i - 1 \in DOMAIN D /\ D[i - 1] = C[i]
    OBVIOUS
  <2>2. i - 1 \in 1..(Len(C) - 1) /\ (i - 1) + 1 = i
    BY <1>2, <2>1
  <2>3. QED
    BY <1>2, <2>2
<1>4. Flows(f, D, b, t, n, k)
  <2>1. k \in 0..n /\ Heard(f, b, t, k)
    BY <1>1 DEF Flows
  <2>2. \A i \in DOMAIN D : About(D[i], f) => Number(D[i]) \in (k + 1)..n
    BY <1>1, <1>2 DEF Flows
  <2>3. \A i, j \in DOMAIN D :
          i < j /\ About(D[i], f) /\ About(D[j], f) => Number(D[i]) < Number(D[j])
    <3>1. SUFFICES ASSUME NEW i \in DOMAIN D, NEW j \in DOMAIN D, i < j,
                          About(D[i], f), About(D[j], f)
                   PROVE  Number(D[i]) < Number(D[j])
      OBVIOUS
    <3>2. i + 1 \in DOMAIN C /\ j + 1 \in DOMAIN C /\ D[i] = C[i + 1] /\ D[j] = C[j + 1]
      BY <1>2
    <3>3. i + 1 < j + 1
      BY <1>2, <3>1
    <3>4. QED
      BY <1>1, <3>1, <3>2, <3>3 DEF Flows
  <2>4. \A x \in (k + 1)..n : \E i \in DOMAIN D : About(D[i], f) /\ Number(D[i]) = x
    <3>1. SUFFICES ASSUME NEW x \in (k + 1)..n
                   PROVE  \E i \in DOMAIN D : About(D[i], f) /\ Number(D[i]) = x
      OBVIOUS
    <3>2. PICK i \in DOMAIN C : About(C[i], f) /\ Number(C[i]) = x
      BY <1>1 DEF Flows
    <3>3. i # 1
      BY <1>2, <3>2
    <3>4. QED
      BY <1>3, <3>2, <3>3
  <2>5. QED
    BY <2>1, <2>2, <2>3, <2>4 DEF Flows
<1>5. QED
  BY <1>4 DEF Flow, D

LEMMA PopNext ==
  ASSUME NEW f, NEW C \in Seq(Message), C # <<>>, NEW b, NEW t, NEW n \in Nat,
         Flow(f, C, b, t, n), About(Head(C), f)
  PROVE  \E k \in 0..n :
           /\ Heard(f, b, t, k) /\ Number(Head(C)) = k + 1
           /\ \A b2, t2 : Heard(f, b2, t2, k + 1) => Flow(f, Tail(C), b2, t2, n)
<1> DEFINE D == Tail(C)
<1>1. PICK k \in Nat : Flows(f, C, b, t, n, k)
  BY DEF Flow
<1>2. /\ DOMAIN C = 1..Len(C) /\ DOMAIN D = 1..(Len(C) - 1) /\ Len(C) \in Nat \ {0}
      /\ C[1] = Head(C) /\ 1 \in DOMAIN C
      /\ \A i \in 1..(Len(C) - 1) : D[i] = C[i + 1] /\ i + 1 \in DOMAIN C
  OBVIOUS
<1> HIDE DEF D
<1>3. \A i \in DOMAIN C : i # 1 => i - 1 \in DOMAIN D /\ D[i - 1] = C[i]
  <2>1. SUFFICES ASSUME NEW i \in DOMAIN C, i # 1 PROVE i - 1 \in DOMAIN D /\ D[i - 1] = C[i]
    OBVIOUS
  <2>2. i - 1 \in 1..(Len(C) - 1) /\ (i - 1) + 1 = i
    BY <1>2, <2>1
  <2>3. QED
    BY <1>2, <2>2
<1>4. Number(C[1]) \in (k + 1)..n /\ About(C[1], f)
  BY <1>1, <1>2 DEF Flows
<1>5. Number(C[1]) = k + 1
  <2>1. k + 1 \in (k + 1)..n
    BY <1>4
  <2>2. PICK i \in DOMAIN C : About(C[i], f) /\ Number(C[i]) = k + 1
    BY <1>1, <2>1 DEF Flows
  <2>3. CASE i = 1
    BY <2>2, <2>3
  <2>4. CASE i # 1
    <3>1. 1 < i
      BY <1>2, <2>4
    <3>2. Number(C[1]) < Number(C[i])
      BY <1>1, <1>2, <1>4, <2>2, <3>1 DEF Flows
    <3>3. QED
      BY <1>4, <2>2, <3>2
  <2>5. QED
    BY <2>3, <2>4
<1>6. ASSUME NEW b2, NEW t2, Heard(f, b2, t2, k + 1) PROVE Flows(f, D, b2, t2, n, k + 1)
  <2>1. k + 1 \in 0..n
    BY <1>4
  <2>2. ASSUME NEW i \in DOMAIN D, About(D[i], f)
        PROVE  Number(D[i]) \in (k + 2)..n
    <3>1. D[i] = C[i + 1] /\ i + 1 \in DOMAIN C /\ 1 < i + 1
      BY <1>2
    <3>2. Number(C[1]) < Number(C[i + 1]) /\ Number(C[i + 1]) \in (k + 1)..n
      BY <1>1, <1>2, <1>4, <2>2, <3>1 DEF Flows
    <3>3. QED
      BY <1>5, <3>1, <3>2
  <2>3. \A i, j \in DOMAIN D :
          i < j /\ About(D[i], f) /\ About(D[j], f) => Number(D[i]) < Number(D[j])
    <3>1. SUFFICES ASSUME NEW i \in DOMAIN D, NEW j \in DOMAIN D, i < j,
                          About(D[i], f), About(D[j], f)
                   PROVE  Number(D[i]) < Number(D[j])
      OBVIOUS
    <3>2. i + 1 \in DOMAIN C /\ j + 1 \in DOMAIN C /\ D[i] = C[i + 1] /\ D[j] = C[j + 1]
      BY <1>2
    <3>3. i + 1 < j + 1
      BY <1>2, <3>1
    <3>4. QED
      BY <1>1, <3>1, <3>2, <3>3 DEF Flows
  <2>4. \A x \in (k + 2)..n : \E i \in DOMAIN D : About(D[i], f) /\ Number(D[i]) = x
    <3>1. SUFFICES ASSUME NEW x \in (k + 2)..n
                   PROVE  \E i \in DOMAIN D : About(D[i], f) /\ Number(D[i]) = x
      OBVIOUS
    <3>2. x \in (k + 1)..n /\ x # k + 1
      OBVIOUS
    <3>3. PICK i \in DOMAIN C : About(C[i], f) /\ Number(C[i]) = x
      BY <1>1, <3>2 DEF Flows
    <3>4. i # 1
      BY <1>5, <3>2, <3>3
    <3>5. QED
      BY <1>3, <3>3, <3>4
  <2>5. (k + 1) + 1 = k + 2
    OBVIOUS
  <2>6. QED
    BY <1>6, <2>1, <2>2, <2>3, <2>4, <2>5 DEF Flows
<1>7. k \in 0..n /\ Heard(f, b, t, k)
  BY <1>1 DEF Flows
<1>8. \A b2, t2 : Heard(f, b2, t2, k + 1) => Flow(f, D, b2, t2, n)
  BY <1>6 DEF Flow
<1>9. QED
  BY <1>2, <1>5, <1>7, <1>8 DEF D

-----------------------------------------------------------------------------
(* The invariant. *)

Steps == {At("none"), At("read"), At("announce"), At("over")} \union {Sent(i) : i \in 0..Chunks}

Types ==
  /\ step \in [File -> Steps]
  /\ tracks \in [Side -> Seq(Track)] /\ active \in [Side -> Track \union {None}]
  /\ bag \in [File -> (SUBSET Content) \union {NoBag}]
  /\ text \in [File -> (SUBSET Content) \union {NoBag}]
  /\ chan \in [Side -> Seq(Message)]
  /\ cut \subseteq File

FlowOf(f) == Flow(f, chan["guest"], bag[f], text[f], Given(step[f]))

Inv == Types /\ \A f \in File \ cut : FlowOf(f)

LEMMA GivenTypes ==
  ASSUME Chunks \in Nat
  PROVE  /\ \A st \in Steps : Given(st) \in 0..(Chunks + 2)
         /\ Given(At("none")) = 0 /\ Given(At("read")) = 0
         /\ Given(At("announce")) = Chunks + 2 /\ Given(At("over")) = Chunks + 2
         /\ \A i \in 0..Chunks : Given(Sent(i)) = i + 1
<1>1. \A i \in 0..Chunks : Given(Sent(i)) = i + 1
  BY DEF Given, Sent
<1>2. /\ Given(At("none")) = 0 /\ Given(At("read")) = 0
      /\ Given(At("announce")) = Chunks + 2 /\ Given(At("over")) = Chunks + 2
  BY DEF Given, At
<1>3. \A st \in Steps : Given(st) \in 0..(Chunks + 2)
  BY <1>1, <1>2 DEF Steps
<1>4. QED
  BY <1>1, <1>2, <1>3

\* What send does to the two channels.
LEMMA SendsTo ==
  ASSUME chan \in [Side -> Seq(Message)], NEW s \in Side, NEW ms \in Seq(Message), Sends(s, ms)
  PROVE  /\ chan' \in [Side -> Seq(Message)]
         /\ chan'["guest"] = IF line /\ s = "host" THEN chan["guest"] \o ms ELSE chan["guest"]
<1>1. Other(s) \in Side /\ (Other(s) = "guest" <=> s = "host") /\ "guest" \in Side
  BY DEF Other, Side
<1>2. CASE line
  <2>1. chan' = [chan EXCEPT ![Other(s)] = chan[Other(s)] \o ms]
    BY <1>2 DEF Sends
  <2>2. chan[Other(s)] \o ms \in Seq(Message)
    BY <1>1
  <2>3. QED
    BY <1>1, <1>2, <2>1, <2>2
<1>3. CASE ~line
  BY <1>3 DEF Sends
<1>4. QED
  BY <1>2, <1>3

LEMMA AppendOne ==
  ASSUME NEW C \in Seq(Message), NEW m \in Message
  PROVE  <<m>> \in Seq(Message) /\ C \o <<m>> = Append(C, m)
OBVIOUS

LEMMA AppendTwo ==
  ASSUME NEW C \in Seq(Message), NEW m \in Message, NEW n \in Message
  PROVE  <<m, n>> \in Seq(Message) /\ C \o <<m, n>> = Append(Append(C, m), n)
OBVIOUS

\* A step that says nothing about files: nothing, one or two tracks are told.
LEMMA Tell ==
  ASSUME Inv, Chunks \in Nat, UNCHANGED <<bag, text>>, cut \subseteq cut',
         \A f \in File : Given(step'[f]) = Given(step[f]) \/ f \in cut',
         NEW t \in Track \union {None}, NEW u \in Track \union {None},
         chan'["guest"] \in {chan["guest"], chan["guest"] \o <<Set(t)>>,
                             chan["guest"] \o <<Set(t), Set(u)>>}
  PROVE  \A f \in File \ cut' : FlowOf(f)'
<1>1. SUFFICES ASSUME NEW f \in File \ cut' PROVE FlowOf(f)'
  OBVIOUS
<1> DEFINE C == chan["guest"]
           n == Given(step[f])
<1>2. /\ C \in Seq(Message) /\ n \in Nat /\ Flow(f, C, bag[f], text[f], n)
      /\ bag'[f] = bag[f] /\ text'[f] = text[f] /\ Given(step'[f]) = n
  BY <1>1, GivenTypes DEF Inv, Types, FlowOf, Side
<1>3. /\ Set(t) \in Message /\ Set(u) \in Message
      /\ ~About(Set(t), f) /\ ~About(Set(u), f)
  <2>1. Set(t) \in Message /\ Set(u) \in Message
    BY DEF Message
  <2>2. Set(t).type = "subtitle_set" /\ Set(u).type = "subtitle_set"
    BY DEF Set
  <2>3. QED
    BY <2>1, <2>2 DEF About
<1>4. chan'["guest"] \in {C, Append(C, Set(t)), Append(Append(C, Set(t)), Set(u))}
  BY <1>2, <1>3, AppendOne, AppendTwo
<1> HIDE DEF C, n
<1>5. Flow(f, Append(C, Set(t)), bag[f], text[f], n) /\ Append(C, Set(t)) \in Seq(Message)
  BY <1>2, <1>3, PushOther
<1>6. Flow(f, Append(Append(C, Set(t)), Set(u)), bag[f], text[f], n)
  BY <1>2, <1>3, <1>5, PushOther
<1>7. Flow(f, chan'["guest"], bag[f], text[f], n)
  BY <1>2, <1>4, <1>5, <1>6
<1>8. QED
  BY <1>2, <1>7 DEF FlowOf

\* The host sends the next message about g, or cuts it.
LEMMA Share ==
  ASSUME Inv, Chunks \in Nat, NEW g \in File, NEW from \in Steps, NEW to \in Steps,
         Goes(g, from, to), Counts(g), NEW m \in Message, Sends("host", <<m>>),
         \A f \in File : About(m, f) <=> f = g,
         Number(m) = Given(from) + 1, Given(to) = Given(from) + 1
  PROVE  /\ step' \in [File -> Steps] /\ chan' \in [Side -> Seq(Message)] /\ cut' \subseteq File
         /\ \A f \in File \ cut' : FlowOf(f)'
<1>1. /\ step \in [File -> Steps] /\ step[g] = from /\ step' = [step EXCEPT ![g] = to]
      /\ UNCHANGED <<bag, text>>
  BY DEF Inv, Types, Goes
<1>2. <<m>> \in Seq(Message) /\ "host" \in Side
  BY DEF Side
<1>3. /\ chan' \in [Side -> Seq(Message)]
      /\ chan'["guest"] = IF line THEN chan["guest"] \o <<m>> ELSE chan["guest"]
  BY <1>2, SendsTo DEF Inv, Types
<1>4. cut' = (IF line THEN cut ELSE cut \union {g}) /\ cut' \subseteq File
  BY DEF Counts, Inv, Types
<1>5. ASSUME NEW f \in File \ cut' PROVE FlowOf(f)'
  <2> DEFINE C == chan["guest"]
             n == Given(step[f])
  <2>1. /\ C \in Seq(Message) /\ n \in Nat /\ Flow(f, C, bag[f], text[f], n)
        /\ bag'[f] = bag[f] /\ text'[f] = text[f]
    BY <1>1, <1>4, <1>5, GivenTypes DEF Inv, Types, FlowOf, Side
  <2>2. C \o <<m>> = Append(C, m)
    BY <2>1, AppendOne
  <2>3. CASE f = g
    <3>1. line /\ chan'["guest"] = Append(C, m)
      BY <1>3, <1>4, <1>5, <2>2, <2>3
    <3>2. Number(m) = n + 1 /\ Given(step'[f]) = n + 1 /\ About(m, f)
      BY <1>1, <2>3
    <3> HIDE DEF C, n
    <3>3. Flow(f, Append(C, m), bag[f], text[f], n + 1)
      BY <2>1, <3>2, Push
    <3>4. QED
      BY <2>1, <3>1, <3>2, <3>3 DEF FlowOf
  <2>4. CASE f # g
    <3>1. Given(step'[f]) = n /\ ~About(m, f)
      BY <1>1, <2>4
    <3>2. chan'["guest"] \in {C, Append(C, m)}
      BY <1>3, <2>2
    <3> HIDE DEF C, n
    <3>3. Flow(f, Append(C, m), bag[f], text[f], n)
      BY <2>1, <3>1, PushOther
    <3>4. QED
      BY <2>1, <3>1, <3>2, <3>3 DEF FlowOf
  <2>5. QED
    BY <2>3, <2>4
<1>6. step' \in [File -> Steps]
  BY <1>1
<1>7. QED
  BY <1>3, <1>4, <1>5, <1>6

\* The guest takes the head of its channel, and only g's bag and text change.
LEMMA Take ==
  ASSUME Inv, Chunks \in Nat, UNCHANGED <<step, cut>>,
         chan["guest"] # <<>>, chan'["guest"] = Tail(chan["guest"]),
         NEW g,
         \A f \in File : f # g => bag'[f] = bag[f] /\ text'[f] = text[f],
         \A f \in File : About(Head(chan["guest"]), f) <=> f = g,
         \A k \in Nat : k <= Chunks + 1 /\ Heard(g, bag[g], text[g], k)
                        /\ Number(Head(chan["guest"])) = k + 1
                        => Heard(g, bag'[g], text'[g], k + 1)
  PROVE  \A f \in File \ cut' : FlowOf(f)'
<1>1. SUFFICES ASSUME NEW f \in File \ cut' PROVE FlowOf(f)'
  OBVIOUS
<1> DEFINE C == chan["guest"]
           n == Given(step[f])
<1>2. /\ C \in Seq(Message) /\ C # <<>> /\ n \in 0..(Chunks + 2) /\ n \in Nat
      /\ Flow(f, C, bag[f], text[f], n)
      /\ chan'["guest"] = Tail(C) /\ Given(step'[f]) = n
  BY <1>1, GivenTypes DEF Inv, Types, FlowOf, Side
<1> HIDE DEF C, n
<1>3. CASE f # g
  <2>1. ~About(Head(C), f) /\ bag'[f] = bag[f] /\ text'[f] = text[f]
    BY <1>1, <1>3 DEF C
  <2>2. Flow(f, Tail(C), bag[f], text[f], n)
    BY <1>2, <2>1, PopOther
  <2>3. QED
    BY <1>2, <2>1, <2>2 DEF FlowOf
<1>4. CASE f = g
  <2>1. About(Head(C), f)
    BY <1>1, <1>4 DEF C
  <2>2. PICK k \in 0..n :
           /\ Heard(f, bag[f], text[f], k) /\ Number(Head(C)) = k + 1
           /\ \A b2, t2 : Heard(f, b2, t2, k + 1) => Flow(f, Tail(C), b2, t2, n)
    BY <1>2, <2>1, PopNext
  <2>3. Head(C) \in Message
    BY <1>2
  <2>4. k \in Nat /\ k <= Chunks + 1
    <3>1. Head(C).type # "subtitle_set"
      BY <2>1 DEF About
    <3>2. Number(Head(C)) \in 1..(Chunks + 2)
      BY <2>3, <3>1, MessageParts
    <3>3. QED
      BY <1>2, <2>2, <3>2
  <2>5. Heard(f, bag'[f], text'[f], k + 1)
    BY <1>4, <2>2, <2>4 DEF C
  <2>6. Flow(f, Tail(C), bag'[f], text'[f], n)
    BY <2>2, <2>5
  <2>7. QED
    BY <1>2, <2>6 DEF FlowOf
<1>5. QED
  BY <1>3, <1>4

-----------------------------------------------------------------------------
(* The steps. *)

LEMMA AddsTypes ==
  ASSUME Types, NEW s \in Side, NEW f \in File, Adds(s, f)
  PROVE  tracks' \in [Side -> Seq(Track)] /\ active' \in [Side -> Track \union {None}]
<1>1. <<s, f>> \in Track
  BY DEF Track
<1>2. PICK x \in Track : x = <<s, f>>
  BY <1>1
<1>3. tracks' = [tracks EXCEPT ![s] = Append(tracks[s], x)] /\ active' = [active EXCEPT ![s] = x]
  BY <1>2 DEF Adds
<1>4. Append(tracks[s], x) \in Seq(Track)
  BY DEF Types
<1>5. QED
  BY <1>3, <1>4 DEF Types

LEMMA TurnsTypes ==
  ASSUME Types, NEW s \in Side, NEW t \in Track \union {None}, NEW v, Turns(s, t, v)
  PROVE  tracks' \in [Side -> Seq(Track)] /\ active' \in [Side -> Track \union {None}]
BY DEF Types, Turns

\* The menu and the key: nothing of a file is sent.
LEMMA UsesStep ==
  ASSUME Inv, Chunks \in Nat, NEW s \in Side, Uses(s)
  PROVE  Inv'
<1>0. /\ Types /\ "guest" \in Side /\ None \in Track \union {None}
      /\ tracks[s] \in Seq(Track) /\ active[s] \in Track \union {None}
  BY DEF Inv, Types, Side
<1>1. ASSUME UNCHANGED share,
             tracks' \in [Side -> Seq(Track)], active' \in [Side -> Track \union {None}],
             UNCHANGED chan
      PROVE  Inv'
  <2>1. \A f \in File \ cut' : FlowOf(f)'
    BY <1>1 DEF share, Inv, FlowOf
  <2>2. QED
    BY <1>0, <1>1, <2>1 DEF share, Inv, Types
<1>2. ASSUME UNCHANGED share,
             tracks' \in [Side -> Seq(Track)], active' \in [Side -> Track \union {None}],
             NEW t \in Track \union {None}, NEW u \in Track \union {None},
             Sends(s, <<Set(t)>>) \/ Sends(s, <<Set(t), Set(u)>>)
      PROVE  Inv'
  <2>1. Set(t) \in Message /\ Set(u) \in Message
    BY DEF Message
  <2>2. <<Set(t)>> \in Seq(Message) /\ <<Set(t), Set(u)>> \in Seq(Message)
    BY <2>1
  <2>3. /\ chan' \in [Side -> Seq(Message)]
        /\ chan'["guest"] \in {chan["guest"], chan["guest"] \o <<Set(t)>>,
                               chan["guest"] \o <<Set(t), Set(u)>>}
    BY <1>0, <1>2, <2>2, SendsTo DEF Types
  <2>4. UNCHANGED <<step, bag, text, cut>>
    BY <1>2 DEF share
  <2>5. \A f \in File \ cut' : FlowOf(f)'
    BY <2>3, <2>4, Tell
  <2>6. QED
    BY <1>0, <1>2, <2>3, <2>4, <2>5 DEF Inv, Types
<1>3. CASE Cycle(s)
  <2>1. PICK t \in Track \union {None} : \E v : Turns(s, t, v)
    <3>1. CASE tracks[s] = <<>>
      BY <1>0, <1>3, <3>1 DEF Cycle
    <3>2. CASE tracks[s] # <<>> /\ (~visible[s] \/ active[s] = None)
      <4>1. tracks[s][1] \in Track
        BY <1>0, <3>2
      <4>2. QED
        BY <1>3, <3>2, <4>1 DEF Cycle
    <3>3. CASE tracks[s] # <<>> /\ ~(~visible[s] \/ active[s] = None)
      <4> DEFINE ts == tracks[s]
                 at == IF active[s] \in ToSet(ts) THEN CHOOSE i \in DOMAIN ts : ts[i] = active[s]
                       ELSE 0
      <4>1. IF at < Len(ts) THEN Turns(s, ts[at + 1], TRUE) ELSE Turns(s, None, FALSE)
        BY <1>3, <3>3 DEF Cycle
      <4>2. at \in 0..Len(ts)
        <5>1. CASE active[s] \in ToSet(ts)
          <6>1. \E i \in DOMAIN ts : ts[i] = active[s]
            BY <5>1 DEF ToSet
          <6>2. at \in DOMAIN ts
            BY <5>1, <6>1
          <6>3. QED
            BY <1>0, <6>2
        <5>2. CASE active[s] \notin ToSet(ts)
          BY <1>0, <5>2
        <5>3. QED
          BY <5>1, <5>2
      <4> HIDE DEF at
      <4>3. CASE at < Len(ts)
        <5>1. ts[at + 1] \in Track
          BY <1>0, <4>2, <4>3
        <5>2. QED
          BY <4>1, <4>3, <5>1
      <4>4. CASE ~(at < Len(ts))
        BY <1>0, <4>1, <4>4
      <4>5. QED
        BY <4>3, <4>4
    <3>4. QED
      BY <3>1, <3>2, <3>3
  <2>2. QED
    BY <1>0, <1>1, <1>3, <2>1, TurnsTypes DEF Cycle
<1>4. CASE Hide(s)
  <2>1. PICK t \in Track \union {None} : \E v :
           /\ Turns(s, t, v)
           /\ Tells(s, <<Set(None), Set(None)>>) \/ Tells(s, <<Set(None)>>)
    BY <1>0, <1>4 DEF Hide
  <2>2. UNCHANGED share
    BY <1>4 DEF Hide
  <2>3. QED
    BY <1>0, <1>1, <1>2, <2>1, <2>2, TurnsTypes DEF Tells
<1>5. CASE Unhide(s)
  <2>1. /\ Turns(s, active[s], TRUE) /\ UNCHANGED share
        /\ active[s] = None => Tells(s, <<>>)
        /\ active[s] # None => Tells(s, <<Set(active[s])>>)
    BY <1>5 DEF Unhide
  <2>2. tracks' \in [Side -> Seq(Track)] /\ active' \in [Side -> Track \union {None}]
    BY <1>0, <2>1, TurnsTypes
  <2>3. CASE active[s] = None
    <3>1. Sends(s, <<>>) \/ UNCHANGED chan
      BY <2>1, <2>3 DEF Tells
    <3>2. CASE Sends(s, <<>>)
      <4>1. /\ chan' \in [Side -> Seq(Message)]
            /\ chan'["guest"] = IF line /\ s = "host" THEN chan["guest"] \o <<>> ELSE chan["guest"]
        <5>1. <<>> \in Seq(Message)
          OBVIOUS
        <5>2. QED
          BY <1>0, <3>2, <5>1, SendsTo DEF Types
      <4>2. chan'["guest"] = chan["guest"]
        BY <1>0, <4>1 DEF Types
      <4>3. \A f \in File \ cut' : FlowOf(f)'
        BY <2>1, <4>2 DEF share, Inv, FlowOf
      <4>4. QED
        BY <1>0, <2>1, <2>2, <4>1, <4>3 DEF share, Inv, Types
    <3>3. QED
      BY <1>1, <2>1, <2>2, <3>1, <3>2
  <2>4. CASE active[s] # None
    BY <1>0, <1>1, <1>2, <2>1, <2>2, <2>4 DEF Tells
  <2>5. QED
    BY <2>3, <2>4
<1>6. ASSUME NEW t \in Track, Select(s, t) PROVE Inv'
  <2>1. /\ Turns(s, t, TRUE) /\ UNCHANGED share
        /\ active[s] = None => Tells(s, <<Set(t)>>)
        /\ active[s] # None => Tells(s, <<Set(t), Set(active[s])>>)
    BY <1>6 DEF Select
  <2>2. tracks' \in [Side -> Seq(Track)] /\ active' \in [Side -> Track \union {None}]
    BY <1>0, <2>1, TurnsTypes
  <2>3. QED
    BY <1>0, <1>1, <1>2, <2>1, <2>2 DEF Tells
<1>7. QED
  BY <1>3, <1>4, <1>5, <1>6 DEF Uses

\* The host's loop over a file.
LEMMA ShareStep ==
  ASSUME Inv, Chunks \in Nat, NEW g \in File, Begins(g) \/ Shares(g)
  PROVE  Inv'
<1>0. /\ Types /\ "guest" \in Side /\ "host" \in Side
      /\ step \in [File -> Steps]
  BY DEF Inv, Types, Side
<1>s. /\ {At("none"), At("read"), At("announce"), At("over")} \subseteq Steps
      /\ \A i \in 0..Chunks : Sent(i) \in Steps
  BY DEF Steps
<1>1. ASSUME NEW from \in Steps, NEW to \in Steps, Goes(g, from, to),
             Given(to) = Given(from) \/ g \in cut',
             cut \subseteq cut', cut' \subseteq File,
             tracks' \in [Side -> Seq(Track)], active' \in [Side -> Track \union {None}],
             chan' \in [Side -> Seq(Message)],
             NEW t \in Track \union {None},
             chan'["guest"] \in {chan["guest"], chan["guest"] \o <<Set(t)>>}
      PROVE  Inv'
  <2>1. /\ step' = [step EXCEPT ![g] = to] /\ step[g] = from /\ UNCHANGED <<bag, text>>
        /\ step' \in [File -> Steps]
    BY <1>0, <1>1 DEF Goes
  <2>2. \A f \in File : Given(step'[f]) = Given(step[f]) \/ f \in cut'
    BY <1>0, <1>1, <2>1
  <2>3. chan'["guest"] \in {chan["guest"], chan["guest"] \o <<Set(t)>>,
                            chan["guest"] \o <<Set(t), Set(t)>>}
    BY <1>1
  <2>4. \A f \in File \ cut' : FlowOf(f)'
    BY <1>1, <2>1, <2>2, <2>3, Tell
  <2>5. QED
    BY <1>0, <1>1, <2>1, <2>4 DEF Inv, Types
<1>2. ASSUME NEW from \in Steps, NEW to \in Steps, Goes(g, from, to), Counts(g),
             NEW m \in Message, Sends("host", <<m>>), UNCHANGED shows,
             m.type # "subtitle_set", m.file = g,
             Number(m) = Given(from) + 1, Given(to) = Given(from) + 1
      PROVE  Inv'
  <2>1. \A f \in File : About(m, f) <=> f = g
    BY <1>2 DEF About
  <2>2. /\ step' \in [File -> Steps] /\ chan' \in [Side -> Seq(Message)] /\ cut' \subseteq File
        /\ \A f \in File \ cut' : FlowOf(f)'
    BY <1>2, <2>1, Share
  <2>3. UNCHANGED <<tracks, active, bag, text>>
    BY <1>2 DEF shows, Goes
  <2>4. QED
    BY <1>0, <2>2, <2>3 DEF Inv, Types
<1>g. /\ Given(At("none")) = 0 /\ Given(At("read")) = 0
      /\ Given(At("announce")) = Chunks + 2 /\ Given(At("over")) = Chunks + 2
      /\ \A i \in 0..Chunks : Given(Sent(i)) = i + 1
  BY GivenTypes
<1>n. None \in Track \union {None}
  OBVIOUS
<1>3. CASE AddFile(g)
  <2>1. Goes(g, At("none"), At("read")) /\ Adds("host", g) /\ UNCHANGED <<chan, cut>>
    BY <1>3 DEF AddFile
  <2>2. tracks' \in [Side -> Seq(Track)] /\ active' \in [Side -> Track \union {None}]
    BY <1>0, <2>1, AddsTypes
  <2>3. chan' \in [Side -> Seq(Message)] /\ cut' \subseteq File
    BY <1>0, <2>1 DEF Types
  <2>4. QED
    BY <1>1, <1>s, <1>g, <1>n, <2>1, <2>2, <2>3
<1>4. CASE HandOff(g)
  <2>1. Goes(g, At("none"), At("read")) /\ UNCHANGED <<tracks, active, chan, cut>>
    BY <1>4 DEF HandOff, shows
  <2>2. /\ tracks' \in [Side -> Seq(Track)] /\ active' \in [Side -> Track \union {None}]
        /\ chan' \in [Side -> Seq(Message)] /\ cut' \subseteq File
    BY <1>0, <2>1 DEF Types
  <2>3. QED
    BY <1>1, <1>s, <1>g, <1>n, <2>1, <2>2
<1>5. CASE ReadFails(g)
  <2>1. /\ Goes(g, At("read"), At("announce")) /\ UNCHANGED <<tracks, active, chan>>
        /\ cut' = cut \union {g}
    BY <1>5 DEF ReadFails, shows
  <2>2. /\ tracks' \in [Side -> Seq(Track)] /\ active' \in [Side -> Track \union {None}]
        /\ chan' \in [Side -> Seq(Message)] /\ cut' \subseteq File /\ g \in cut' /\ cut \subseteq cut'
    BY <1>0, <2>1 DEF Types
  <2>3. QED
    BY <1>1, <1>s, <1>n, <2>1, <2>2
<1>6. CASE SendOffer(g)
  <2>1. /\ Goes(g, At("read"), Sent(0)) /\ Counts(g) /\ Sends("host", <<Offer(g)>>)
        /\ UNCHANGED shows
    BY <1>6 DEF SendOffer
  <2>2. Offer(g) \in Message
    BY DEF Message
  <2>3. Offer(g).type = "file_offer" /\ Offer(g).file = g /\ Number(Offer(g)) = 1
    BY DEF Offer, Number
  <2>4. 0 \in 0..Chunks
    OBVIOUS
  <2>5. Given(Sent(0)) = 1 /\ Sent(0) \in Steps
    BY <1>g, <1>s, <2>4
  <2>6. QED
    BY <1>2, <1>s, <1>g, <2>1, <2>2, <2>3, <2>5
<1>7. CASE SendChunk(g)
  <2>1. PICK i \in Chunk : Goes(g, Sent(i - 1), Sent(i)) /\ Sends("host", <<Piece(g, i)>>)
    BY <1>7 DEF SendChunk
  <2>2. Counts(g) /\ UNCHANGED shows
    BY <1>7 DEF SendChunk
  <2>3. Piece(g, i) \in Message
    BY DEF Message
  <2>4. /\ Piece(g, i).type = "file_chunk" /\ Piece(g, i).file = g
        /\ Number(Piece(g, i)) = i + 1
    BY DEF Piece, Number
  <2>5. i \in 0..Chunks /\ i - 1 \in 0..Chunks /\ (i - 1) + 1 = i
    BY DEF Chunk
  <2>6. /\ Given(Sent(i)) = i + 1 /\ Given(Sent(i - 1)) = i
        /\ Sent(i) \in Steps /\ Sent(i - 1) \in Steps
    BY <1>g, <1>s, <2>5
  <2>7. QED
    BY <1>2, <2>1, <2>2, <2>3, <2>4, <2>6
<1>8. CASE SendDone(g)
  <2>1. /\ Goes(g, Sent(Chunks), At("announce")) /\ Counts(g) /\ Sends("host", <<Done(g)>>)
        /\ UNCHANGED shows
    BY <1>8 DEF SendDone
  <2>2. Done(g) \in Message
    BY DEF Message
  <2>3. Done(g).type = "file_done" /\ Done(g).file = g /\ Number(Done(g)) = Chunks + 2
    BY DEF Done, Number
  <2>4. Given(Sent(Chunks)) = Chunks + 1 /\ Sent(Chunks) \in Steps
    BY <1>g, <1>s
  <2>5. Chunks + 2 = (Chunks + 1) + 1
    OBVIOUS
  <2>6. QED
    BY <1>2, <1>s, <1>g, <2>1, <2>2, <2>3, <2>4, <2>5
<1>9. CASE Announce(g)
  <2>1. Goes(g, At("announce"), At("over")) /\ UNCHANGED cut
    BY <1>9 DEF Announce
  <2>2. cut' \subseteq File /\ cut \subseteq cut'
    BY <1>0, <2>1 DEF Types
  <2>3. CASE g \in Lobby
    <3>1. Adds("host", g) /\ UNCHANGED chan
      BY <1>9, <2>3 DEF Announce
    <3>2. tracks' \in [Side -> Seq(Track)] /\ active' \in [Side -> Track \union {None}]
      BY <1>0, <3>1, AddsTypes
    <3>3. chan' \in [Side -> Seq(Message)]
      BY <1>0, <3>1 DEF Types
    <3>4. QED
      BY <1>1, <1>s, <1>g, <1>n, <2>1, <2>2, <3>1, <3>2, <3>3
  <2>4. CASE g \notin Lobby
    <3>1. Sends("host", <<Set(<<"host", g>>)>>) /\ UNCHANGED <<tracks, active>>
      BY <1>9, <2>4 DEF Announce, shows
    <3>2. <<"host", g>> \in Track
      BY <1>0 DEF Track
    <3>3. PICK t \in Track : t = <<"host", g>>
      BY <3>2
    <3>4. Set(t) \in Message /\ Sends("host", <<Set(t)>>)
      BY <3>1, <3>3 DEF Message
    <3>5. /\ chan' \in [Side -> Seq(Message)]
          /\ chan'["guest"] \in {chan["guest"], chan["guest"] \o <<Set(t)>>}
      <4>1. <<Set(t)>> \in Seq(Message)
        BY <3>4
      <4>2. QED
        BY <1>0, <3>4, <4>1, SendsTo DEF Types
    <3>6. tracks' \in [Side -> Seq(Track)] /\ active' \in [Side -> Track \union {None}]
      BY <1>0, <3>1 DEF Types
    <3>7. QED
      BY <1>1, <1>s, <1>g, <2>1, <2>2, <3>5, <3>6
  <2>5. QED
    BY <2>3, <2>4
<1>10. QED
  BY <1>3, <1>4, <1>5, <1>6, <1>7, <1>8, <1>9 DEF Begins, Shares

\* The guest, and the host for what the guest tells it, take a message.
LEMMA HearsStep ==
  ASSUME Inv, Chunks \in Nat, Hears
  PROVE  Inv'
<1>0. /\ Types /\ "guest" \in Side /\ "host" \in Side /\ "guest" # "host"
      /\ chan["guest"] \in Seq(Message)
  BY DEF Inv, Types, Side
<1>1. ASSUME NEW ty, ty # "subtitle_set", Takes("guest", ty)
      PROVE  /\ chan["guest"] # <<>> /\ chan'["guest"] = Tail(chan["guest"])
             /\ chan' \in [Side -> Seq(Message)] /\ UNCHANGED <<step, cut>>
             /\ Msg("guest") \in Message /\ Msg("guest").type = ty /\ Msg("guest").file \in File
             /\ \A f \in File : About(Msg("guest"), f) <=> f = Msg("guest").file
  <2>1. /\ chan["guest"] # <<>> /\ chan' = [chan EXCEPT !["guest"] = Tail(chan["guest"])]
        /\ UNCHANGED <<step, cut>> /\ Msg("guest").type = ty
    BY <1>1 DEF Takes, Msg
  <2>2. Tail(chan["guest"]) \in Seq(Message) /\ Msg("guest") \in Message
    BY <1>0, <2>1 DEF Msg
  <2>3. Msg("guest").file \in File
    BY <1>1, <2>1, <2>2, MessageParts
  <2>4. chan' \in [Side -> Seq(Message)] /\ chan'["guest"] = Tail(chan["guest"])
    BY <1>0, <2>1, <2>2 DEF Types
  <2>5. \A f \in File : About(Msg("guest"), f) <=> f = Msg("guest").file
    BY <1>1, <2>1 DEF About
  <2>6. QED
    BY <2>1, <2>2, <2>3, <2>4, <2>5
<1> DEFINE g == Msg("guest").file
<1>2. CASE OnOffer
  <2>1. /\ Takes("guest", "file_offer") /\ bag' = [bag EXCEPT ![g] = {}]
        /\ UNCHANGED <<text, tracks, active>>
    BY <1>2 DEF OnOffer, shows
  <2>2. /\ chan["guest"] # <<>> /\ chan'["guest"] = Tail(chan["guest"])
        /\ chan' \in [Side -> Seq(Message)] /\ UNCHANGED <<step, cut>>
        /\ Msg("guest").type = "file_offer" /\ g \in File
        /\ \A f \in File : About(Msg("guest"), f) <=> f = g
    BY <1>1, <2>1
  <2>3. Number(Msg("guest")) = 1
    BY <2>2 DEF Number
  <2>4. bag'[g] = {} /\ text'[g] = text[g] /\ bag' \in [File -> (SUBSET Content) \union {NoBag}]
    BY <1>0, <2>1, <2>2 DEF Types
  <2> HIDE DEF g
  <2>5. ASSUME NEW k \in Nat, Heard(g, bag[g], text[g], k), k + 1 = 1
        PROVE  Heard(g, bag'[g], text'[g], k + 1)
    <3>1. k = 0 /\ text'[g] = NoBag
      BY <2>4, <2>5 DEF Heard
    <3>2. {g} \X (1..0) = {}
      OBVIOUS
    <3>3. Heard(g, {}, NoBag, 1)
      BY <3>2 DEF Heard
    <3>4. QED
      BY <2>4, <3>1, <3>3
  <2>6. Head(chan["guest"]) = Msg("guest")
    BY DEF Msg
  <2>7. \A f \in File : f # g => bag'[f] = bag[f] /\ text'[f] = text[f]
    BY <1>0, <2>1 DEF Types
  <2>8. \A f \in File \ cut' : FlowOf(f)'
    BY <2>2, <2>3, <2>5, <2>6, <2>7, Take
  <2>9. QED
    BY <1>0, <2>1, <2>2, <2>4, <2>8 DEF Inv, Types
<1>3. CASE OnChunk
  <2>1. /\ Takes("guest", "file_chunk") /\ UNCHANGED <<text, tracks, active>>
        /\ bag' = IF bag[g] = NoBag THEN bag
                  ELSE [bag EXCEPT ![g] = bag[g] \union {<<g, Msg("guest").index>>}]
    BY <1>3 DEF OnChunk, shows
  <2>2. /\ chan["guest"] # <<>> /\ chan'["guest"] = Tail(chan["guest"])
        /\ chan' \in [Side -> Seq(Message)] /\ UNCHANGED <<step, cut>>
        /\ Msg("guest") \in Message /\ Msg("guest").type = "file_chunk" /\ g \in File
        /\ \A f \in File : About(Msg("guest"), f) <=> f = g
    BY <1>1, <2>1
  <2>3. PICK x \in Chunk : x = Msg("guest").index
    BY <2>2, MessageParts
  <2>4. Number(Msg("guest")) = x + 1 /\ x \in 1..Chunks
    BY <2>2, <2>3 DEF Number, Chunk
  <2> HIDE DEF g
  <2>5. /\ bag' \in [File -> (SUBSET Content) \union {NoBag}]
        /\ bag[g] # NoBag => bag'[g] = bag[g] \union {<<g, x>>}
        /\ \A f \in File : f # g => bag'[f] = bag[f]
    <3>1. CASE bag[g] = NoBag
      BY <1>0, <2>1, <3>1 DEF Types
    <3>2. CASE bag[g] # NoBag
      <4>1. bag[g] \in SUBSET Content /\ <<g, x>> \in Content
        BY <1>0, <2>2, <3>2 DEF Types, Content
      <4>2. bag' = [bag EXCEPT ![g] = bag[g] \union {<<g, x>>}]
        BY <2>1, <2>3, <3>2
      <4>3. bag[g] \union {<<g, x>>} \in SUBSET Content
        BY <4>1
      <4>4. QED
        BY <1>0, <2>2, <4>2, <4>3 DEF Types
    <3>3. QED
      BY <3>1, <3>2
  <2>6. ASSUME NEW k \in Nat, k <= Chunks + 1, Heard(g, bag[g], text[g], k), x + 1 = k + 1
        PROVE  Heard(g, bag'[g], text'[g], k + 1)
    <3>1. k = x /\ k # 0 /\ k # Chunks + 2 /\ k + 1 # 0 /\ k + 1 # Chunks + 2 /\ (k + 1) - 1 = k
      BY <2>4, <2>6
    <3>2. bag[g] = {g} \X (1..(k - 1)) /\ text[g] = NoBag
      BY <2>6, <3>1 DEF Heard
    <3>3. bag[g] # NoBag
      BY <3>2, BagThere
    <3>4. 1..k = (1..(k - 1)) \union {k}
      BY <3>1
    <3>5. {g} \X ((1..(k - 1)) \union {k}) = ({g} \X (1..(k - 1))) \union {<<g, k>>}
      OBVIOUS
    <3>6. bag'[g] = {g} \X (1..k)
      BY <2>5, <3>1, <3>2, <3>3, <3>4, <3>5
    <3>7. text'[g] = NoBag
      BY <2>1, <3>2
    <3>8. QED
      BY <3>1, <3>6, <3>7 DEF Heard
  <2>7. Head(chan["guest"]) = Msg("guest")
    BY DEF Msg
  <2>8. \A f \in File : f # g => bag'[f] = bag[f] /\ text'[f] = text[f]
    BY <2>1, <2>5
  <2>9. \A f \in File \ cut' : FlowOf(f)'
    <3>1. \A k \in Nat : k <= Chunks + 1 /\ Heard(g, bag[g], text[g], k)
                        /\ Number(Head(chan["guest"])) = k + 1
                        => Heard(g, bag'[g], text'[g], k + 1)
      BY <2>4, <2>6, <2>7
    <3>2. \A f \in File : About(Head(chan["guest"]), f) <=> f = g
      BY <2>2, <2>7
    <3>3. QED
      BY <2>2, <2>8, <3>1, <3>2, Take
  <2>10. QED
    BY <1>0, <2>1, <2>2, <2>5, <2>9 DEF Inv, Types
<1>4. CASE OnDone
  <2>1. Takes("guest", "file_done")
    BY <1>4 DEF OnDone
  <2>2. /\ chan["guest"] # <<>> /\ chan'["guest"] = Tail(chan["guest"])
        /\ chan' \in [Side -> Seq(Message)] /\ UNCHANGED <<step, cut>>
        /\ Msg("guest").type = "file_done" /\ g \in File
        /\ \A f \in File : About(Msg("guest"), f) <=> f = g
    BY <1>1, <2>1
  <2>3. Number(Msg("guest")) = Chunks + 2
    BY <2>2 DEF Number
  <2>4. IF bag[g] = NoBag THEN UNCHANGED <<bag, text, tracks, active>>
        ELSE /\ bag' = [bag EXCEPT ![g] = NoBag] /\ text' = [text EXCEPT ![g] = bag[g]]
             /\ Adds("guest", g)
    BY <1>4 DEF OnDone, shows
  <2> HIDE DEF g
  <2>5. /\ tracks' \in [Side -> Seq(Track)] /\ active' \in [Side -> Track \union {None}]
        /\ bag' \in [File -> (SUBSET Content) \union {NoBag}]
        /\ text' \in [File -> (SUBSET Content) \union {NoBag}]
        /\ \A f \in File : f # g => bag'[f] = bag[f] /\ text'[f] = text[f]
        /\ bag[g] # NoBag => bag'[g] = NoBag /\ text'[g] = bag[g]
    <3>1. CASE bag[g] = NoBag
      BY <1>0, <2>4, <3>1 DEF Types
    <3>2. CASE bag[g] # NoBag
      <4>1. tracks' \in [Side -> Seq(Track)] /\ active' \in [Side -> Track \union {None}]
        BY <1>0, <2>2, <2>4, <3>2, AddsTypes
      <4>2. bag[g] \in (SUBSET Content) \union {NoBag}
        BY <1>0, <2>2 DEF Types
      <4>3. QED
        BY <1>0, <2>2, <2>4, <3>2, <4>1, <4>2 DEF Types
    <3>3. QED
      BY <3>1, <3>2
  <2>6. ASSUME NEW k \in Nat, k <= Chunks + 1, Heard(g, bag[g], text[g], k), Chunks + 2 = k + 1
        PROVE  Heard(g, bag'[g], text'[g], k + 1)
    <3>1. k = Chunks + 1 /\ k # 0 /\ k # Chunks + 2 /\ k + 1 = Chunks + 2 /\ k - 1 = Chunks
          /\ k + 1 # 0
      BY <2>6
    <3>2. bag[g] = {g} \X (1..(k - 1))
      BY <2>6, <3>1 DEF Heard
    <3>3. bag[g] = {g} \X Chunk
      BY <3>1, <3>2 DEF Chunk
    <3>4. bag'[g] = NoBag /\ text'[g] = {g} \X Chunk
      BY <2>5, <3>3, BagThere
    <3>5. QED
      BY <3>1, <3>4 DEF Heard
  <2>7. Head(chan["guest"]) = Msg("guest")
    BY DEF Msg
  <2>8. \A f \in File \ cut' : FlowOf(f)'
    BY ZenonT(60), <2>2, <2>3, <2>5, <2>6, <2>7, Take
  <2>9. QED
    BY <1>0, <2>2, <2>5, <2>8 DEF Inv, Types
<1>5. ASSUME NEW s \in Side, OnSubtitleSet(s) PROVE Inv'
  <2>1. /\ chan[s] # <<>> /\ chan[s] \in Seq(Message) /\ Msg(s).type = "subtitle_set"
        /\ chan' = [chan EXCEPT ![s] = Tail(chan[s])]
        /\ Turns(s, Msg(s).track, Msg(s).track # None)
        /\ UNCHANGED <<step, bag, text, cut>>
    BY <1>0, <1>5 DEF OnSubtitleSet, Takes, Msg, Types
  <2>2. Msg(s) \in Message /\ Tail(chan[s]) \in Seq(Message)
    BY <2>1 DEF Msg
  <2>3. Msg(s).track \in Track \union {None}
    BY <2>1, <2>2 DEF Message, Offer, Piece, Done, Set
  <2>4. tracks' \in [Side -> Seq(Track)] /\ active' \in [Side -> Track \union {None}]
    BY <1>0, <2>1, <2>3, TurnsTypes
  <2>5. chan' \in [Side -> Seq(Message)]
    BY <1>0, <2>1, <2>2 DEF Types
  <2>6. ASSUME NEW f \in File \ cut' PROVE FlowOf(f)'
    <3>1. /\ FlowOf(f) /\ Given(step[f]) \in Nat
          /\ UNCHANGED <<step, bag, text>>
      BY <1>0, <2>1, <2>6, GivenTypes DEF Inv, Types
    <3>2. CASE s = "guest"
      <4>1. /\ chan["guest"] # <<>> /\ chan'["guest"] = Tail(chan["guest"])
            /\ ~About(Head(chan["guest"]), f)
        BY <1>0, <2>1, <3>2 DEF Types, Msg, About
      <4> DEFINE C == chan["guest"]
                 n == Given(step[f])
      <4>2. C \in Seq(Message) /\ C # <<>> /\ n \in Nat /\ Flow(f, C, bag[f], text[f], n)
            /\ ~About(Head(C), f)
        BY <1>0, <3>1, <4>1 DEF FlowOf
      <4> HIDE DEF C, n
      <4>3. Flow(f, Tail(C), bag[f], text[f], n)
        BY <4>2, PopOther
      <4>4. QED
        BY <3>1, <4>1, <4>3 DEF FlowOf, C, n
    <3>3. CASE s # "guest"
      <4>1. chan'["guest"] = chan["guest"]
        BY <1>0, <2>1, <3>3 DEF Types
      <4>2. QED
        BY <3>1, <4>1 DEF FlowOf
    <3>4. QED
      BY <3>2, <3>3
  <2>7. QED
    BY <1>0, <2>1, <2>4, <2>5, <2>6 DEF Inv, Types
<1>6. QED
  BY <1>2, <1>3, <1>4, <1>5 DEF Hears

\* A channel that drops leaves nothing under way, and cuts what had not arrived.
LEMMA LineStep ==
  ASSUME Inv, Chunks \in Nat, Line
  PROVE  Inv'
<1>0. Types /\ "guest" \in Side
  BY DEF Inv, Side
<1>1. CASE Redial
  BY <1>1 DEF Redial, share, shows, Inv, Types, FlowOf
<1>2. CASE Drop
  <2>1. /\ chan' = [s \in Side |-> <<>>]
        /\ cut' = cut \union {f \in File : step[f] # At("none") /\ text[f] = NoBag}
        /\ UNCHANGED <<step, bag, text, tracks, active>>
    BY <1>2 DEF Drop, shows
  <2>2. <<>> \in Seq(Message) /\ DOMAIN <<>> = 1..0
    OBVIOUS
  <2>3. chan' \in [Side -> Seq(Message)] /\ cut' \subseteq File /\ chan'["guest"] = <<>>
    BY <1>0, <2>1, <2>2 DEF Types
  <2>4. ASSUME NEW f \in File \ cut' PROVE FlowOf(f)'
    <3> DEFINE n == Given(step[f])
    <3>1. /\ f \in File \ cut /\ n \in 0..(Chunks + 2)
          /\ step[f] = At("none") => n = 0
          /\ step[f] = At("none") \/ text[f] # NoBag
      BY <1>0, <2>1, <2>4, GivenTypes DEF Types
    <3>2. PICK k \in Nat : Flows(f, chan["guest"], bag[f], text[f], n, k)
      BY <3>1 DEF Inv, FlowOf, Flow
    <3> HIDE DEF n
    <3>3. k \in 0..n /\ Heard(f, bag[f], text[f], k)
      BY <3>2 DEF Flows
    <3>4. k = n
      <4>1. CASE step[f] = At("none")
        BY <3>1, <3>3, <4>1
      <4>2. CASE text[f] # NoBag
        <5>1. k = Chunks + 2
          BY <3>3, <4>2 DEF Heard
        <5>2. QED
          BY <3>1, <3>3, <5>1
      <4>3. QED
        BY <3>1, <4>1, <4>2
    <3>5. (k + 1)..n = {} /\ DOMAIN <<>> = {}
      BY <3>1, <3>4
    <3>6. Flows(f, <<>>, bag[f], text[f], n, k)
      BY <3>3, <3>5 DEF Flows
    <3>7. QED
      BY <2>1, <2>3, <3>6 DEF FlowOf, Flow, n
  <2>5. QED
    BY <1>0, <2>1, <2>3, <2>4 DEF Inv, Types
<1>3. QED
  BY <1>1, <1>2 DEF Line

LEMMA InvInit == ASSUME Chunks \in Nat PROVE Init => Inv
<1> SUFFICES ASSUME Init PROVE Inv
  OBVIOUS
<1>1. Types
  <2>1. /\ At("none") \in Steps /\ None \in Track \union {None}
        /\ <<>> \in Seq(Track) /\ <<>> \in Seq(Message)
        /\ NoBag \in (SUBSET Content) \union {NoBag}
    BY DEF Steps
  <2>2. QED
    BY <2>1 DEF Init, Types
<1>2. ASSUME NEW f \in File PROVE FlowOf(f)
  <2>1. /\ chan["guest"] = <<>> /\ bag[f] = NoBag /\ text[f] = NoBag /\ Given(step[f]) = 0
    BY <1>2, GivenTypes DEF Init, Side
  <2>2. DOMAIN <<>> = {} /\ (0 + 1)..0 = {} /\ 0 \in 0..0 /\ 0 \in Nat
    OBVIOUS
  <2>3. Heard(f, NoBag, NoBag, 0)
    BY DEF Heard
  <2>4. Flows(f, <<>>, NoBag, NoBag, 0, 0)
    BY <2>2, <2>3 DEF Flows
  <2>5. QED
    BY <2>1, <2>2, <2>4 DEF FlowOf, Flow
<1>3. QED
  BY <1>1, <1>2 DEF Inv

LEMMA InvStep == ASSUME Inv, Chunks \in Nat, [Next]_vars PROVE Inv'
<1>1. CASE UNCHANGED vars
  BY <1>1 DEF vars, share, shows, Inv, Types, FlowOf
<1>2. CASE Next
  BY <1>2, UsesStep, ShareStep, HearsStep, LineStep DEF Next
<1>3. QED
  BY <1>1, <1>2

\* Two files that travel side by side do not mix, and the last message of a file never
\* overtakes a chunk of it: over a channel that was open all the while, the guest's track
\* holds the whole of its file and nothing else.
THEOREM ArrivesWhole == Spec => []WholeUnlessCut
<1>0. Chunks \in Nat
  BY SubtitlesAssumption
<1>1. Inv => WholeUnlessCut
  <2>1. ASSUME Inv, NEW f \in File, text[f] # NoBag, f \notin cut PROVE text[f] = {f} \X Chunk
    <3>1. PICK k \in Nat : Flows(f, chan["guest"], bag[f], text[f], Given(step[f]), k)
      BY <2>1 DEF Inv, FlowOf, Flow
    <3>2. Heard(f, bag[f], text[f], k)
      BY <3>1 DEF Flows
    <3>3. QED
      BY <2>1, <3>2 DEF Heard
  <2>2. QED
    BY <2>1 DEF WholeUnlessCut
<1>2. Init => Inv
  BY <1>0, InvInit
<1>3. Inv /\ [Next]_vars => Inv'
  BY <1>0, InvStep
<1>4. QED
  BY <1>1, <1>2, <1>3, PTL DEF Spec

-----------------------------------------------------------------------------
(* The captions that the host has turned off.  A message that says so is    *)
(* the last word on its way to the guest, or the guest has heard it; files  *)
(* may be under way after it.                                               *)

Hush(m) == m.type = "subtitle_set" => m.track = None

\* Nothing in C after its i-th message turns captions on; and that one turns them off, or a
\* page that has heard everything before C does not show them.
QuietFrom(i, C, showing) ==
  /\ i \in 0..Len(C)
  /\ \A k \in DOMAIN C : k > i => Hush(C[k])
  /\ IF i = 0 THEN ~showing ELSE C[i] = Set(None)

Quiet(C, showing) == \E i \in Nat : QuietFrom(i, C, showing)

Visible == visible \in [Side -> BOOLEAN]

OffInv == Visible /\ (off => Quiet(chan["guest"], Shows("guest")))

LEMMA SetParts ==
  ASSUME NEW t \in Track \union {None}
  PROVE  Set(t) \in Message /\ Set(t).type = "subtitle_set" /\ Set(t).track = t
BY DEF Set, Message

\* A message that turns nothing on is put on the channel.
LEMMA QuietPush ==
  ASSUME NEW C \in Seq(Message), NEW w, Quiet(C, w), NEW m \in Message, Hush(m)
  PROVE  Quiet(Append(C, m), w)
<1> DEFINE D == Append(C, m)
<1>1. PICK i \in Nat : QuietFrom(i, C, w)
  BY DEF Quiet
<1>2. /\ DOMAIN C = 1..Len(C) /\ DOMAIN D = 1..(Len(C) + 1) /\ Len(D) = Len(C) + 1
      /\ Len(C) \in Nat /\ D[Len(C) + 1] = m
      /\ \A k \in 1..Len(C) : D[k] = C[k]
  OBVIOUS
<1> HIDE DEF D
<1>3. i \in 0..Len(D)
  BY <1>1, <1>2 DEF QuietFrom
<1>4. ASSUME NEW k \in DOMAIN D, k > i PROVE Hush(D[k])
  <2>1. CASE k = Len(C) + 1
    BY <1>2, <2>1
  <2>2. CASE k # Len(C) + 1
    <3>1. k \in DOMAIN C /\ D[k] = C[k]
      BY <1>2, <2>2
    <3>2. QED
      BY <1>1, <1>4, <3>1 DEF QuietFrom
  <2>3. QED
    BY <2>1, <2>2
<1>5. IF i = 0 THEN ~w ELSE D[i] = Set(None)
  <2>1. i # 0 => i \in 1..Len(C)
    BY <1>1, <1>2 DEF QuietFrom
  <2>2. QED
    BY <1>1, <1>2, <2>1 DEF QuietFrom
<1>6. QED
  BY <1>3, <1>4, <1>5 DEF Quiet, QuietFrom, D

\* The host turns the captions off.
LEMMA QuietSet ==
  ASSUME NEW C \in Seq(Message), NEW w
  PROVE  Quiet(Append(C, Set(None)), w)
<1> DEFINE D == Append(C, Set(None))
           n == Len(C) + 1
<1>1. DOMAIN D = 1..n /\ Len(D) = n /\ n \in Nat /\ n # 0 /\ D[n] = Set(None)
  OBVIOUS
<1> HIDE DEF D, n
<1>2. n \in 0..Len(D) /\ \A k \in DOMAIN D : ~(k > n)
  BY <1>1
<1>3. QuietFrom(n, D, w)
  BY <1>1, <1>2 DEF QuietFrom
<1>4. QED
  BY <1>1, <1>3 DEF Quiet, D

\* The guest takes the head: it shows nothing more when that turns captions off, and as much
\* as before when it is about a file.
LEMMA QuietPop ==
  ASSUME NEW C \in Seq(Message), C # <<>>, NEW w, NEW v, Quiet(C, w),
         Hush(Head(C)) /\ ~w => ~v,
         Head(C) = Set(None) => ~v
  PROVE  Quiet(Tail(C), v)
<1> DEFINE D == Tail(C)
<1>1. PICK i \in Nat : QuietFrom(i, C, w)
  BY DEF Quiet
<1>2. /\ DOMAIN C = 1..Len(C) /\ DOMAIN D = 1..(Len(C) - 1) /\ Len(D) = Len(C) - 1
      /\ Len(C) \in Nat \ {0} /\ C[1] = Head(C)
      /\ \A k \in 1..(Len(C) - 1) : D[k] = C[k + 1]
  OBVIOUS
<1> HIDE DEF D
<1>3. ASSUME NEW k \in DOMAIN D, k + 1 > i PROVE Hush(D[k])
  <2>1. k + 1 \in DOMAIN C /\ D[k] = C[k + 1]
    BY <1>2
  <2>2. QED
    BY <1>1, <1>3, <2>1 DEF QuietFrom
<1>4. CASE i \in {0, 1}
  <2>1. ~v
    <3>1. CASE i = 0
      <4>1. 1 \in DOMAIN C /\ 1 > i
        BY <1>2, <3>1
      <4>2. Hush(C[1]) /\ ~w
        BY <1>1, <3>1, <4>1 DEF QuietFrom
      <4>3. QED
        BY <1>2, <4>2
    <3>2. CASE i = 1
      BY <1>1, <1>2, <3>2 DEF QuietFrom
    <3>3. QED
      BY <1>4, <3>1, <3>2
  <2>2. \A k \in DOMAIN D : k > 0 => Hush(D[k])
    <3>1. \A k \in DOMAIN D : k + 1 > i
      BY <1>2, <1>4
    <3>2. QED
      BY <1>3, <3>1
  <2>3. 0 \in 0..Len(D)
    BY <1>2
  <2>4. QuietFrom(0, D, v)
    BY <2>1, <2>2, <2>3 DEF QuietFrom
  <2>5. QED
    BY <2>4 DEF Quiet, D
<1>5. CASE i \notin {0, 1}
  <2>1. i - 1 \in Nat /\ i - 1 # 0 /\ i - 1 \in 0..Len(D) /\ i - 1 \in 1..(Len(C) - 1)
    BY <1>1, <1>2, <1>5 DEF QuietFrom
  <2>2. D[i - 1] = Set(None)
    <3>1. D[i - 1] = C[(i - 1) + 1] /\ (i - 1) + 1 = i
      BY <1>2, <2>1
    <3>2. QED
      BY <1>1, <1>5, <3>1 DEF QuietFrom
  <2>3. \A k \in DOMAIN D : k > i - 1 => Hush(D[k])
    <3>1. \A k \in DOMAIN D : k > i - 1 => k + 1 > i
      BY <1>2
    <3>2. QED
      BY <1>3, <3>1
  <2>4. QuietFrom(i - 1, D, v)
    BY <2>1, <2>2, <2>3 DEF QuietFrom
  <2>5. QED
    BY <2>1, <2>4 DEF Quiet, D
<1>6. QED
  BY <1>4, <1>5

LEMMA VisibleStep == ASSUME Visible, [Next]_vars PROVE Visible'
<1>1. CASE UNCHANGED visible
  BY <1>1 DEF Visible
<1>2. ASSUME NEW s \in Side, NEW f, Adds(s, f) PROVE Visible'
  BY <1>2 DEF Adds, Visible
<1>3. ASSUME NEW s \in Side, NEW t, NEW v \in BOOLEAN, Turns(s, t, v) PROVE Visible'
  BY <1>3 DEF Turns, Visible
<1>4. ASSUME NEW s \in Side, Uses(s) PROVE Visible'
  <2>1. (~visible[s]) \in BOOLEAN /\ TRUE \in BOOLEAN /\ FALSE \in BOOLEAN
    BY <1>4 DEF Visible
  <2>2. CASE Cycle(s)
    BY <1>3, <2>1, <2>2 DEF Cycle
  <2>3. CASE Hide(s)
    BY <1>3, <2>1, <2>3 DEF Hide
  <2>4. CASE Unhide(s)
    BY <1>3, <2>1, <2>4 DEF Unhide
  <2>5. ASSUME NEW t \in Track, Select(s, t) PROVE Visible'
    BY <1>3, <2>1, <2>5 DEF Select
  <2>6. QED
    BY <1>4, <2>2, <2>3, <2>4, <2>5 DEF Uses
<1>5. ASSUME NEW f \in File, Begins(f) \/ Shares(f) PROVE Visible'
  <2>1. UNCHANGED shows \/ Adds("host", f)
    BY <1>5 DEF Begins, Shares, AddFile, HandOff, ReadFails, SendOffer, SendChunk, SendDone, Announce
  <2>2. QED
    BY <1>1, <1>2, <2>1 DEF shows, Side
<1>6. CASE Hears
  <2>1. CASE OnOffer \/ OnChunk
    BY <1>1, <2>1 DEF OnOffer, OnChunk, shows
  <2>2. CASE OnDone
    BY <1>1, <1>2, <2>2 DEF OnDone, shows, Side
  <2>3. ASSUME NEW s \in Side, OnSubtitleSet(s) PROVE Visible'
    <3>1. \E t : Turns(s, t, t # None)
      BY <2>3 DEF OnSubtitleSet
    <3>2. QED
      BY <1>3, <3>1
  <2>4. QED
    BY <1>6, <2>1, <2>2, <2>3 DEF Hears
<1>7. CASE Line
  BY <1>1, <1>7 DEF Line, Drop, Redial, shows
<1>8. QED
  BY <1>1, <1>4, <1>5, <1>6, <1>7 DEF Next, vars, shows

LEMMA OffStep ==
  ASSUME Types, OffInv, [Next]_vars
  PROVE  OffInv'
<1>0. /\ "guest" \in Side /\ "host" \in Side /\ "guest" # "host"
      /\ chan["guest"] \in Seq(Message)
  BY DEF Types, Side
<1>1. Visible'
  BY VisibleStep DEF OffInv
<1> DEFINE C == chan["guest"]
           w == Shows("guest")
<1>2. SUFFICES ASSUME off' PROVE Quiet(chan'["guest"], Shows("guest")')
  BY <1>1 DEF OffInv
<1>3. ASSUME off, Shows("guest")' = w, chan'["guest"] = C
      PROVE  Quiet(chan'["guest"], Shows("guest")')
  BY <1>3 DEF OffInv
<1>4. ASSUME NEW s \in Side, Hide(s) PROVE Quiet(chan'["guest"], Shows("guest")')
  <2>1. /\ off \/ (s = "host" /\ line)
        /\ UNCHANGED tracks
        /\ \E t : /\ active' = [active EXCEPT ![s] = t] /\ visible' = [visible EXCEPT ![s] = FALSE]
                  /\ Tells(s, <<Set(None), Set(None)>>) \/ Tells(s, <<Set(None)>>)
    BY <1>2, <1>4 DEF Hide, Turns
  <2>2. /\ Set(None) \in Message
        /\ <<Set(None)>> \in Seq(Message) /\ <<Set(None), Set(None)>> \in Seq(Message)
    BY SetParts
  <2>3. CASE s = "host"
    <3>1. active'["guest"] = active["guest"] /\ visible'["guest"] = visible["guest"]
      BY <1>0, <2>1, <2>3 DEF Types, OffInv, Visible
    <3>2. Shows("guest")' = w
      BY <2>1, <3>1 DEF Shows
    <3>3. chan'["guest"] \in IF line THEN {C \o <<Set(None)>>, C \o <<Set(None), Set(None)>>} ELSE {C}
      BY <1>0, <2>1, <2>2, <2>3, SendsTo DEF Tells, Types
    <3>4. CASE line
      <4>1. chan'["guest"] \in {Append(C, Set(None)), Append(Append(C, Set(None)), Set(None))}
        BY <1>0, <2>2, <3>3, <3>4, AppendOne, AppendTwo
      <4>2. Append(C, Set(None)) \in Seq(Message)
        BY <1>0, <2>2
      <4>3. QED
        BY <1>0, <4>1, <4>2, QuietSet
    <3>5. CASE ~line
      BY <1>3, <2>1, <3>2, <3>3, <3>5
    <3>6. QED
      BY <3>4, <3>5
  <2>4. CASE s = "guest"
    <3>1. ~visible'["guest"]
      BY <1>0, <2>1, <2>4 DEF OffInv, Visible
    <3>2. ~Shows("guest")'
      BY <3>1 DEF Shows
    <3>3. chan'["guest"] = C
      BY <1>0, <2>1, <2>2, <2>4, SendsTo DEF Tells, Types
    <3>4. PICK i \in Nat : QuietFrom(i, C, w)
      BY <1>0, <2>1, <2>4 DEF OffInv, Quiet
    <3>5. QuietFrom(i, C, Shows("guest")')
      BY <3>2, <3>4 DEF QuietFrom
    <3>6. QED
      BY <3>3, <3>5 DEF Quiet
  <2>5. QED
    BY <2>3, <2>4 DEF Side
<1>5. ASSUME NEW s \in Side, Uses(s) PROVE Quiet(chan'["guest"], Shows("guest")')
  BY <1>2, <1>4, <1>5 DEF Uses, Cycle, Unhide, Select
<1>6. ASSUME UNCHANGED shows PROVE Shows("guest")' = w
  BY <1>6 DEF shows, Shows
<1>7. ASSUME NEW m \in Message, Hush(m), Sends("host", <<m>>), UNCHANGED <<shows, off>>
      PROVE  Quiet(chan'["guest"], Shows("guest")')
  <2>1. chan'["guest"] \in {C, C \o <<m>>}
    <3>1. <<m>> \in Seq(Message)
      OBVIOUS
    <3>2. QED
      BY <1>0, <1>7, <3>1, SendsTo DEF Types
  <2>2. C \o <<m>> = Append(C, m)
    BY <1>0, AppendOne
  <2>3. Quiet(C, w) /\ Shows("guest")' = w
    BY <1>2, <1>6, <1>7 DEF OffInv
  <2>4. Quiet(Append(C, m), w)
    BY <1>0, <1>7, <2>3, QuietPush
  <2>5. QED
    BY <2>1, <2>2, <2>3, <2>4
<1>8. ASSUME NEW f \in File, Begins(f) \/ Shares(f) PROVE Quiet(chan'["guest"], Shows("guest")')
  <2>1. CASE HandOff(f) \/ ReadFails(f)
    BY <1>2, <1>3, <1>6, <2>1 DEF HandOff, ReadFails
  <2>2. CASE AddFile(f) \/ Announce(f)
    BY <1>2, <2>2 DEF AddFile, Announce
  <2>3. ASSUME NEW m, m = Offer(f) \/ m = Done(f) \/ \E i \in Chunk : m = Piece(f, i)
        PROVE  m \in Message /\ Hush(m)
    BY <2>3 DEF Message, Hush, Offer, Done, Piece
  <2>4. CASE SendOffer(f)
    BY <1>7, <2>3, <2>4 DEF SendOffer
  <2>5. CASE SendDone(f)
    BY <1>7, <2>3, <2>5 DEF SendDone
  <2>6. CASE SendChunk(f)
    BY <1>7, <2>3, <2>6 DEF SendChunk
  <2>7. QED
    BY <1>8, <2>1, <2>2, <2>4, <2>5, <2>6 DEF Begins, Shares
<1>9. ASSUME NEW ty, Takes("guest", ty), off
      PROVE  /\ C # <<>> /\ chan'["guest"] = Tail(C) /\ Head(C).type = ty
             /\ Quiet(C, w)
  BY <1>0, <1>9 DEF Takes, Types, OffInv
<1>10. ASSUME NEW ty, ty # "subtitle_set", Takes("guest", ty), UNCHANGED <<shows, off>>
       PROVE  Quiet(chan'["guest"], Shows("guest")')
  <2>1. /\ C # <<>> /\ chan'["guest"] = Tail(C) /\ Head(C).type = ty /\ Quiet(C, w)
    BY <1>2, <1>9, <1>10
  <2>2. Head(C) # Set(None)
    BY <1>10, <2>1, SetParts
  <2>3. Shows("guest")' = w
    BY <1>6, <1>10
  <2>4. Quiet(Tail(C), w)
    BY <1>0, <2>1, <2>2, QuietPop
  <2>5. QED
    BY <2>1, <2>3, <2>4
<1>11. CASE OnSubtitleSet("guest")
  <2>1. /\ Takes("guest", "subtitle_set") /\ UNCHANGED off
        /\ visible' = [visible EXCEPT !["guest"] = Head(C).track # None]
    BY <1>11 DEF OnSubtitleSet, Turns, Msg
  <2>2. /\ C # <<>> /\ chan'["guest"] = Tail(C) /\ Head(C).type = "subtitle_set" /\ Quiet(C, w)
    BY <1>2, <1>9, <2>1
  <2>3. Head(C).track = None => ~Shows("guest")'
    BY <1>0, <2>1 DEF OffInv, Visible, Shows
  <2>4. PICK v : v = Shows("guest")'
    OBVIOUS
  <2>5. (Hush(Head(C)) /\ ~w => ~v) /\ (Head(C) = Set(None) => ~v)
    BY <2>2, <2>3, <2>4, SetParts DEF Hush
  <2>6. Quiet(Tail(C), v)
    BY <1>0, <2>2, <2>5, QuietPop
  <2>7. QED
    BY <2>2, <2>4, <2>6
<1>12. CASE OnSubtitleSet("host")
  <2>1. /\ UNCHANGED <<off, tracks>> /\ chan' = [chan EXCEPT !["host"] = Tail(chan["host"])]
        /\ \E t, v : active' = [active EXCEPT !["host"] = t] /\ visible' = [visible EXCEPT !["host"] = v]
    BY <1>12 DEF OnSubtitleSet, Turns, Takes
  <2>2. /\ active'["guest"] = active["guest"] /\ visible'["guest"] = visible["guest"]
        /\ chan'["guest"] = C
    BY <1>0, <2>1 DEF Types, OffInv, Visible
  <2>3. Shows("guest")' = w
    BY <2>1, <2>2 DEF Shows
  <2>4. QED
    BY <1>2, <1>3, <2>1, <2>2, <2>3
<1>13. CASE Hears
  <2>1. CASE OnOffer
    BY <1>10, <2>1 DEF OnOffer
  <2>2. CASE OnChunk
    BY <1>10, <2>2 DEF OnChunk
  <2>3. CASE OnDone
    BY <1>2, <1>10, <2>3 DEF OnDone
  <2>4. QED
    BY <1>11, <1>12, <1>13, <2>1, <2>2, <2>3 DEF Hears, Side
<1>14. CASE Line
  BY <1>2, <1>3, <1>6, <1>14 DEF Line, Drop, Redial
<1>15. CASE UNCHANGED vars
  BY <1>2, <1>3, <1>6, <1>15 DEF vars
<1>16. QED
  BY <1>5, <1>8, <1>13, <1>14, <1>15 DEF Next

\* Once the host has turned the captions off and the guest has heard it, the guest shows
\* none, until somebody turns them on again or a file arrives: the message keeps its place
\* among the chunks, and nothing sent before it is heard after it.
THEOREM CaptionsOffForBoth == Spec => []OffForBoth
<1>0. Chunks \in Nat
  BY SubtitlesAssumption
<1>1. Types /\ OffInv => OffForBoth
  <2>1. SUFFICES ASSUME OffInv, off, chan["guest"] = <<>> PROVE ~Shows("guest")
    BY DEF OffForBoth
  <2>2. PICK i \in Nat : QuietFrom(i, chan["guest"], Shows("guest"))
    BY <2>1 DEF OffInv, Quiet
  <2>3. i \in 0..0
    BY <2>1, <2>2 DEF QuietFrom
  <2>4. QED
    BY <2>2, <2>3 DEF QuietFrom
<1>2. Init => Inv /\ OffInv
  BY <1>0, InvInit DEF Init, OffInv, Visible
<1>3. Inv /\ OffInv /\ [Next]_vars => Inv' /\ OffInv'
  BY <1>0, InvStep, OffStep DEF Inv
<1>4. Inv => Types
  BY DEF Inv
<1>5. QED
  BY <1>1, <1>2, <1>3, <1>4, PTL DEF Spec
=============================================================================
