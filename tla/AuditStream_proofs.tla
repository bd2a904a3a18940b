------------------------- MODULE AuditStream_proofs -------------------------
(***************************************************************************)
(* Theorems about AuditStream, for any number of clients, any log, page    *)
(* and room.                                                               *)
(*                                                                         *)
(* Why a cursor can be trusted: while the gate is open the log is in the   *)
(* generation of the last restore, and since that restore it only grew     *)
(* (Opened).  So what is on its way to a client in that generation is true *)
(* of the log (Line), what it has is a part of the log (Having), and the   *)
(* frames reach it without a gap, starting no later than after the last    *)
(* that it saw (Reached) - whatever was kept, repeated or cut.             *)
(***************************************************************************)
EXTENDS AuditStream, SequenceTheorems, TLAPS

Generations == 0 .. MaxRestores
Kept == Cursors \cup {Cursor(Unknown, 0)}
ClientType == [kept : Kept, seen : Kept, base : 0 .. MaxHead, got : Seq(Event)]
FrameType == [generation : Generations, at : 0 .. MaxHead, event : Event \cup {Ready}]
AnswerType == [ok : BOOLEAN, frames : Seq(FrameType)]
StreamType == [open : BOOLEAN, cursor : Cursors, frames : Seq(FrameType), wire : Seq(FrameType),
               busy : BOOLEAN, answer : AnswerType]

Opened ==
  /\ TrailTypeOK
  /\ Len(log) <= MaxHead /\ Len(saved.log) <= MaxHead /\ epoch <= MaxRestores
  /\ ~gated => generation = epoch

(* A frame of generation g at position n: true of the log if that is the   *)
(* generation the log is in, or will be in once the gate opens.            *)
Telling(f, g, n) ==
  /\ f.generation = g /\ f.at = n
  /\ g = epoch => n <= Len(log) /\ (f.event # Ready => n >= 1 /\ f.event = log[n])
Following(s, g, n) ==
  \A i \in 1 .. Len(s) : Telling(s[i], g, n + i) /\ s[i].event # Ready

Live(st) == st.open \/ st.wire # <<>>
Line(st) ==
  LET g == st.cursor.generation
      n == st.cursor.after
  IN  /\ st \in StreamType /\ g <= epoch
      /\ Len(st.wire) <= Room /\ Len(st.frames) <= Page /\ Len(st.answer.frames) <= Page
      /\ Following(st.frames, g, n)
      /\ st.busy => st.frames = <<>> /\ st.wire = <<>> /\ Following(st.answer.frames, g, n)
      /\ ~st.open => st.frames = <<>>
      /\ g = epoch => n <= Len(log)
      /\ \A i \in 1 .. Len(st.wire) : Telling(st.wire[i], g, n - Len(st.wire) + i)
      /\ \A i \in 2 .. Len(st.wire) : st.wire[i].event # Ready

Having(me) ==
  /\ me \in ClientType
  /\ me.seen.after = me.base + Len(me.got) /\ me.kept.after <= me.seen.after
  /\ me.kept.generation \in {Unknown, me.seen.generation}
  /\ me.seen.generation # Unknown => me.seen.generation <= epoch
  /\ me.seen.generation = epoch =>
       /\ me.seen.after <= Len(log)
       /\ \A i \in 1 .. Len(me.got) : me.got[i] = log[me.base + i]
  /\ me.seen.generation = Unknown => me.got = <<>> /\ me.base = 0

Reached(me, st) ==
  /\ st.cursor.after - Len(st.wire) <= me.seen.after
  /\ st.wire # <<>> /\ st.wire[1].event = Ready => st.wire[1].at <= me.seen.after
  /\ Live(st) => /\ me.kept.generation \in {Unknown, st.cursor.generation}
                 /\ me.seen.generation \in {Unknown, st.cursor.generation}

Inv ==
  /\ Opened
  /\ client \in [Clients -> ClientType] /\ stream \in [Clients -> StreamType]
  /\ \A c \in Clients : Having(client[c]) /\ Line(stream[c]) /\ Reached(client[c], stream[c])

-----------------------------------------------------------------------------
(* Bounds and the first state                                              *)

LEMMA Bounds ==
  /\ Page \in Nat \ {0} /\ Room \in Nat \ {0} /\ MaxHead \in Nat /\ MaxRestores \in Nat
  /\ Ready \notin Event /\ Unknown \notin Nat
BY StreamAssumption

LEMMA Within ==
  ASSUME NEW b \in Nat, NEW n \in Nat, NEW m \in Nat, b + n <= m, NEW i \in 1 .. n
  PROVE  b + i \in 1 .. m
OBVIOUS

LEMMA Sums ==
  ASSUME NEW a \in Nat, NEW b \in Nat, NEW c \in Nat
  PROVE  (a + b) - (c + b) = a - c /\ (a + b) + 1 = a + (b + 1)
OBVIOUS

LEMMA Shifted ==
  ASSUME NEW k \in Nat, NEW m \in Nat, NEW i \in 1 .. m - 1
  PROVE  i + 1 \in 1 .. m /\ i + 1 \in 2 .. m /\ k - m + (i + 1) = k - (m - 1) + i
OBVIOUS

LEMMA Joined ==
  ASSUME NEW S, NEW s \in Seq(S), NEW t \in Seq(S)
  PROVE  /\ s \o t \in Seq(S) /\ Len(s \o t) = Len(s) + Len(t)
         /\ \A i \in 1 .. Len(s) : (s \o t)[i] = s[i]
         /\ \A i \in Len(s) + 1 .. Len(s) + Len(t) : (s \o t)[i] = t[i - Len(s)]
<1>1. /\ s \o t \in Seq(S) /\ Len(s \o t) = Len(s) + Len(t)
      /\ \A i \in 1 .. Len(s) + Len(t) : (s \o t)[i] = IF i <= Len(s) THEN s[i] ELSE t[i - Len(s)]
  BY ConcatProperties
<1>2. Len(s) \in Nat /\ Len(t) \in Nat
  OBVIOUS
<1> QED BY <1>1, <1>2

LEMMA ClosedLine ==
  ASSUME Opened
  PROVE  /\ Line(Closed) /\ Closed.cursor.after = 0 /\ Closed.wire = <<>>
         /\ Closed.frames = <<>> /\ ~Closed.open
<1>1. /\ Closed.open = FALSE /\ Closed.cursor = [generation |-> 0, after |-> 0] /\ Closed.frames = <<>>
      /\ Closed.wire = <<>> /\ Closed.busy = FALSE /\ Closed.answer = NoAnswer
  BY DEF Closed, Cursor
<1>2. NoAnswer \in AnswerType /\ NoAnswer.frames = <<>>
  BY DEF NoAnswer, AnswerType
<1>3. [generation |-> 0, after |-> 0] \in Cursors
  BY Bounds DEF Cursors
<1>4. Closed \in StreamType
  BY <1>2, <1>3 DEF Closed, Cursor, StreamType
<1>5. epoch \in Nat /\ Len(log) \in Nat
  BY DEF Opened, TrailTypeOK
<1> QED BY <1>1, <1>2, <1>4, <1>5, Bounds DEF Line, Following

LEMMA FreshHaving ==
  ASSUME Opened, NEW cur \in Kept,
         \/ cur.generation = Unknown
         \/ cur.generation = epoch /\ cur.after <= Len(log)
  PROVE  Having(Fresh(cur)) /\ Fresh(cur).seen = cur /\ Fresh(cur).kept = cur
<1>1. /\ Fresh(cur).kept = cur /\ Fresh(cur).seen = cur /\ Fresh(cur).base = cur.after
      /\ Fresh(cur).got = <<>>
  BY DEF Fresh
<1>2. /\ cur.after \in 0 .. MaxHead /\ (cur.generation = Unknown => cur.after = 0)
      /\ cur.generation \in Nat \cup {Unknown}
  BY Bounds DEF Kept, Cursors, Cursor
<1>3. Fresh(cur) \in ClientType
  BY <1>2 DEF Fresh, ClientType
<1>4. epoch \in Nat /\ Len(log) \in Nat
  BY DEF Opened, TrailTypeOK
<1> QED BY <1>1, <1>2, <1>3, <1>4, Bounds DEF Having

LEMMA Beginning == Init => Inv
<1> SUFFICES ASSUME Init PROVE Inv
  OBVIOUS
<1>1. Opened
  <2>1. log = <<>> /\ generation = 0 /\ gated = FALSE /\ epoch = 0 /\ saved = [log |-> <<>>, generation |-> 0]
    BY DEF Init, TrailInit
  <2>2. /\ <<>> \in Seq(Event) /\ 0 \in 0 .. epoch /\ Len(<<>>) = 0
        /\ [log |-> <<>>, generation |-> 0] \in [log : Seq(Event), generation : 0 .. epoch]
    BY <2>1
  <2>3. TrailTypeOK
    BY <2>1, <2>2 DEF TrailTypeOK
  <2>4. Len(log) = 0 /\ saved.log = <<>> /\ Len(saved.log) = 0
    BY <2>1, <2>2
  <2> QED BY <2>1, <2>3, <2>4, Bounds DEF Opened
<1> DEFINE cur == Cursor(Unknown, 0)
           me == Fresh(cur)
<1>2. cur \in Kept /\ cur.generation = Unknown /\ cur.after = 0
  BY DEF Kept, Cursor
<1>3. Having(me) /\ me.seen = cur /\ me.kept = cur
  BY <1>1, <1>2, FreshHaving
<1>4. Line(Closed) /\ Closed.cursor.after = 0 /\ Closed.wire = <<>> /\ ~Closed.open
  BY <1>1, ClosedLine
<1> HIDE DEF cur
<1>5. Reached(me, Closed)
  BY <1>2, <1>3, <1>4 DEF Reached, Live
<1>6. client = [c \in Clients |-> me] /\ stream = [c \in Clients |-> Closed]
  BY DEF Init, cur
<1>7. me \in ClientType /\ Closed \in StreamType
  BY <1>3, <1>4 DEF Having, Line
<1> HIDE DEF me
<1> QED BY <1>1, <1>3, <1>4, <1>5, <1>6, <1>7 DEF Inv

-----------------------------------------------------------------------------
(* The database                                                            *)

Prolonged ==
  /\ epoch' = epoch /\ Len(log) <= Len(log')
  /\ \A i \in 1 .. Len(log) : log'[i] = log[i]

(* In a generation the log only grows. *)
LEMMA Logging ==
  ASSUME Opened, Database
  PROVE  Opened' /\ (Prolonged \/ epoch' = epoch + 1) /\ UNCHANGED <<client, stream>>
<1>1. /\ log \in Seq(Event) /\ Len(log) \in Nat /\ epoch \in Nat /\ generation \in 0 .. epoch
      /\ saved.log \in Seq(Event) /\ saved.generation \in 0 .. epoch
      /\ saved \in [log : Seq(Event), generation : 0 .. epoch]
      /\ gated \in BOOLEAN /\ Len(log) <= MaxHead /\ Len(saved.log) <= MaxHead /\ epoch <= MaxRestores
      /\ (~gated => generation = epoch)
  BY DEF Opened, TrailTypeOK
<1>2. ASSUME NEW es \in Seq(Event), log' = log \o es, Len(log) + Len(es) <= MaxHead
      PROVE  /\ log' \in Seq(Event) /\ Len(log') <= MaxHead
             /\ (epoch' = epoch => Prolonged)
  <2>1. /\ log \o es \in Seq(Event) /\ Len(log \o es) = Len(log) + Len(es)
        /\ \A i \in 1 .. Len(log) : (log \o es)[i] = log[i]
    BY <1>1, ConcatProperties
  <2>2. Len(es) \in Nat
    OBVIOUS
  <2> QED BY <1>1, <1>2, <2>1, <2>2 DEF Prolonged
<1>3. ASSUME NEW n \in 1 .. MaxHead - Len(log), NEW es \in [1 .. n -> Event], Grow(es)
      PROVE  Opened' /\ Prolonged
  <2>1. n \in Nat /\ Len(log) + n <= MaxHead
    BY <1>1, Bounds
  <2>2. es \in Seq(Event) /\ Len(es) = n
    BY <2>1, SeqDef
  <2>3. log' = log \o es /\ UNCHANGED <<generation, gated, epoch, saved>>
    BY <1>3 DEF Grow
  <2>4. log' \in Seq(Event) /\ Len(log') <= MaxHead /\ Prolonged
    BY <1>2, <2>1, <2>2, <2>3
  <2> QED BY <1>1, <2>3, <2>4 DEF Opened, TrailTypeOK
<1>4. ASSUME Backup PROVE Opened' /\ Prolonged
  <2>1. saved' = [log |-> log, generation |-> generation] /\ UNCHANGED <<log, generation, gated, epoch>>
    BY <1>4 DEF Backup
  <2>2. saved' \in [log : Seq(Event), generation : 0 .. epoch] /\ saved'.log = log
    BY <1>1, <2>1
  <2>3. Prolonged
    BY <1>1, <2>1 DEF Prolonged
  <2> QED BY <1>1, <2>1, <2>2, <2>3 DEF Opened, TrailTypeOK
<1>5. ASSUME epoch < MaxRestores, Restore PROVE Opened' /\ epoch' = epoch + 1
  <2>1. saved.generation \in 0 .. epoch' /\ saved' \in [log : Seq(Event), generation : 0 .. epoch']
    BY <1>1, <1>5 DEF Restore
  <2> QED BY <1>1, <1>5, <2>1, Bounds DEF Restore, Opened, TrailTypeOK
<1>6. ASSUME NEW opens \in BOOLEAN, NEW es \in Seq(Event), Len(log) + Len(es) <= MaxHead, Release(es, opens)
      PROVE  Opened' /\ Prolonged
  <2> DEFINE shut == ~opens
  <2>1. shut \in BOOLEAN
    OBVIOUS
  <2> HIDE DEF shut
  <2>2. gated' = shut /\ generation' = epoch /\ UNCHANGED <<epoch, saved>> /\ log' = log \o es
    BY <1>6 DEF Release, shut
  <2>3. log' \in Seq(Event) /\ Len(log') <= MaxHead /\ Prolonged
    BY <1>2, <1>6, <2>2
  <2> QED BY <1>1, <2>1, <2>2, <2>3 DEF Opened, TrailTypeOK
<1>7. <<>> \in Seq(Event) /\ Len(<<>>) = 0
  OBVIOUS
<1>8. \A e \in Event : <<e>> \in Seq(Event) /\ Len(<<e>>) = 1
  OBVIOUS
<1>9. \/ \E n \in 1 .. MaxHead - Len(log) : \E es \in [1 .. n -> Event] : Grow(es)
      \/ Backup
      \/ epoch < MaxRestores /\ Restore
      \/ \E opens \in BOOLEAN : Release(<<>>, opens)
      \/ Len(log) < MaxHead /\ \E e \in Event, opens \in BOOLEAN : Release(<<e>>, opens)
  BY DEF Database
<1>10. ASSUME NEW opens \in BOOLEAN, Release(<<>>, opens) PROVE Opened' /\ Prolonged
  <2>1. Len(log) + Len(<<>>) <= MaxHead
    BY <1>1, <1>7
  <2> QED BY <1>6, <1>7, <1>10, <2>1
<1>11. ASSUME NEW opens \in BOOLEAN, NEW e \in Event, Len(log) < MaxHead, Release(<<e>>, opens)
       PROVE  Opened' /\ Prolonged
  <2>1. Len(log) + Len(<<e>>) <= MaxHead
    BY <1>1, <1>8, <1>11, Bounds
  <2> QED BY <1>6, <1>8, <1>11, <2>1
<1> QED BY <1>3, <1>4, <1>5, <1>9, <1>10, <1>11 DEF Database

(* What is true of a log stays true of a longer one, and nothing is said   *)
(* of the log after a restore.                                             *)
LEMMA Logged ==
  ASSUME Inv, Prolonged \/ epoch' = epoch + 1, UNCHANGED <<client, stream>>, Opened'
  PROVE  Inv'
<1>1. epoch \in Nat /\ Len(log) \in Nat /\ Len(log') \in Nat /\ epoch' \in Nat
  BY DEF Inv, Opened, TrailTypeOK
<1>2. ASSUME NEW f, NEW g, g <= epoch, g \in Nat, NEW n \in Nat, Telling(f, g, n)
      PROVE  Telling(f, g, n)'
  <2>1. CASE Prolonged
    BY <1>1, <1>2, <2>1 DEF Telling, Prolonged
  <2>2. CASE epoch' = epoch + 1
    BY <1>1, <1>2, <2>2 DEF Telling
  <2> QED BY <2>1, <2>2
<1>3. ASSUME NEW c \in Clients PROVE Having(client[c])'
  <2> PICK me : me = client[c]
    OBVIOUS
  <2>1. Having(me)
    BY DEF Inv
  <2>2. me.base \in Nat /\ Len(me.got) \in Nat /\ me.seen.generation \in Nat \cup {Unknown} /\ me.seen.after \in Nat
    <3>1. me.base \in 0 .. MaxHead /\ me.got \in Seq(Event) /\ me.seen \in Kept
      BY <2>1 DEF Having, ClientType
    <3>2. me.seen.generation \in Nat \cup {Unknown} /\ me.seen.after \in Nat
      BY <3>1, Bounds DEF Kept, Cursors, Cursor
    <3> QED BY <3>1, <3>2, Bounds
  <2>3. CASE Prolonged
    <3>1. me.seen.generation = epoch' => me.seen.after <= Len(log')
      BY <1>1, <2>1, <2>2, <2>3 DEF Having, Prolonged
    <3>2. ASSUME me.seen.generation = epoch', NEW i \in 1 .. Len(me.got)
          PROVE  me.got[i] = log'[me.base + i]
      <4>1. me.base + i \in 1 .. Len(log) /\ me.got[i] = log[me.base + i]
        <5>1. /\ me.seen.after = me.base + Len(me.got) /\ me.seen.after <= Len(log)
              /\ \A j \in 1 .. Len(me.got) : me.got[j] = log[me.base + j]
          BY <2>1, <2>3, <3>2 DEF Having, Prolonged
        <5>2. me.base + i \in 1 .. Len(log)
          <6>1. me.base + Len(me.got) <= Len(log)
            BY <5>1
          <6> QED BY <1>1, <2>2, <3>2, <6>1, Within
        <5> QED BY <3>2, <5>1, <5>2
      <4> QED BY <2>3, <4>1 DEF Prolonged
    <3> QED BY <2>1, <2>3, <3>1, <3>2 DEF Having, Prolonged
  <2>4. CASE epoch' = epoch + 1
    BY <1>1, <2>1, <2>2, <2>4, Bounds DEF Having
  <2> QED BY <2>3, <2>4
<1>4. ASSUME NEW c \in Clients PROVE Line(stream[c])'
  <2> PICK st : st = stream[c]
    OBVIOUS
  <2> DEFINE g == st.cursor.generation
             n == st.cursor.after
  <2>1. Line(st) /\ g \in Nat /\ n \in Nat /\ g <= epoch
        /\ Len(st.wire) \in Nat /\ Len(st.frames) \in Nat /\ Len(st.answer.frames) \in Nat
    <3>1. Line(st) /\ st \in StreamType
      BY DEF Inv, Line
    <3>2. /\ st.cursor \in Cursors /\ st.wire \in Seq(FrameType) /\ st.frames \in Seq(FrameType)
          /\ st.answer \in AnswerType
      BY <3>1 DEF StreamType
    <3>3. st.answer.frames \in Seq(FrameType)
      BY <3>2 DEF AnswerType
    <3>4. g \in Nat /\ n \in Nat /\ g <= epoch
      BY <3>1, <3>2, Bounds DEF Cursors, Line
    <3> QED BY <3>1, <3>2, <3>3, <3>4
  <2>2. ASSUME NEW s, Len(s) \in Nat, Following(s, g, n) PROVE Following(s, g, n)'
    BY <1>2, <2>1, <2>2 DEF Following
  <2>3. ASSUME NEW i \in 1 .. Len(st.wire) PROVE Telling(st.wire[i], g, n - Len(st.wire) + i)'
    <3>1. Telling(st.wire[i], g, n - Len(st.wire) + i)
      BY <2>1 DEF Line
    <3>2. n - Len(st.wire) + i \in Nat
      <4>1. st.wire[i].at = n - Len(st.wire) + i /\ st.wire[i] \in FrameType
        BY <2>1, <3>1 DEF Telling, Line, StreamType
      <4> QED BY <4>1 DEF FrameType
    <3> QED BY <1>2, <2>1, <3>1, <3>2
  <2>4. (g = epoch => n <= Len(log))'
    BY <1>1, <2>1 DEF Line, Prolonged
  <2>5. /\ st \in StreamType /\ Len(st.wire) <= Room /\ Len(st.frames) <= Page /\ Len(st.answer.frames) <= Page
        /\ Following(st.frames, g, n)'
        /\ st.busy => st.frames = <<>> /\ st.wire = <<>> /\ Following(st.answer.frames, g, n)'
        /\ ~st.open => st.frames = <<>>
        /\ \A i \in 2 .. Len(st.wire) : st.wire[i].event # Ready
    BY <2>1, <2>2 DEF Line
  <2>6. g <= epoch'
    BY <1>1, <2>1 DEF Prolonged
  <2>7. Line(st)'
    BY <2>3, <2>4, <2>5, <2>6 DEF Line
  <2> QED BY <2>7
<1>5. \A c \in Clients : Reached(client[c], stream[c])'
  BY DEF Inv, Reached, Live
<1> QED BY <1>3, <1>4, <1>5 DEF Inv

-----------------------------------------------------------------------------
(* One client and its stream                                               *)

LEMMA Meeting ==
  ASSUME Inv, NEW c \in Clients, NEW me, NEW st, UNCHANGED trail,
         client' = [client EXCEPT ![c] = me], stream' = [stream EXCEPT ![c] = st],
         Having(me), Line(st), Reached(me, st)
  PROVE  Inv'
<1>1. me \in ClientType /\ st \in StreamType
  BY DEF Having, Line
<1>2. /\ client' \in [Clients -> ClientType] /\ stream' \in [Clients -> StreamType]
      /\ client'[c] = me /\ stream'[c] = st
      /\ \A d \in Clients \ {c} : client'[d] = client[d] /\ stream'[d] = stream[d]
  BY <1>1 DEF Inv
<1>3. Opened'
  BY DEF Inv, Opened, TrailTypeOK, trail
<1>4. ASSUME NEW x, NEW y, Having(x), Line(y), Reached(x, y)
      PROVE  Having(x)' /\ Line(y)' /\ Reached(x, y)'
  BY <1>4 DEF trail, Having, Line, Reached, Following, Telling, Live
<1>5. ASSUME NEW d \in Clients
      PROVE  Having(client[d])' /\ Line(stream[d])' /\ Reached(client[d], stream[d])'
  <2> PICK x, y : x = client'[d] /\ y = stream'[d]
    OBVIOUS
  <2>1. Having(x) /\ Line(y) /\ Reached(x, y)
    BY <1>2 DEF Inv
  <2>2. Having(x)' /\ Line(y)' /\ Reached(x, y)'
    BY <1>4, <2>1
  <2> QED BY <2>2
<1> QED BY <1>2, <1>3, <1>5 DEF Inv

LEMMA Serving ==
  ASSUME Inv, NEW c \in Clients, NEW st, Serve(c, st), Line(st), Reached(client[c], st)
  PROVE  Inv'
<1> PICK me : me = client[c]
  OBVIOUS
<1>1. Having(me) /\ Reached(me, st)
  BY DEF Inv
<1>2. client' = [client EXCEPT ![c] = me] /\ stream' = [stream EXCEPT ![c] = st] /\ UNCHANGED trail
  BY DEF Serve, Inv
<1> QED BY <1>1, <1>2, Meeting

(* What the parts of a stream are *)
LEMMA Parts ==
  ASSUME Opened, NEW st, Line(st)
  PROVE  /\ st \in StreamType /\ st.cursor \in Cursors
         /\ st.cursor.generation \in Nat /\ st.cursor.after \in 0 .. MaxHead
         /\ st.cursor = [generation |-> st.cursor.generation, after |-> st.cursor.after]
         /\ st.wire \in Seq(FrameType) /\ st.frames \in Seq(FrameType) /\ st.answer \in AnswerType
         /\ st.answer.frames \in Seq(FrameType) /\ st.open \in BOOLEAN /\ st.busy \in BOOLEAN
         /\ Len(st.wire) \in Nat /\ Len(st.frames) \in Nat /\ Len(st.answer.frames) \in Nat
<1>1. st \in StreamType
  BY DEF Line
<1>2. /\ st.cursor \in Cursors /\ st.wire \in Seq(FrameType) /\ st.frames \in Seq(FrameType)
      /\ st.answer \in AnswerType /\ st.open \in BOOLEAN /\ st.busy \in BOOLEAN
  BY <1>1 DEF StreamType
<1>3. st.answer.frames \in Seq(FrameType)
  BY <1>2 DEF AnswerType
<1>4. /\ st.cursor.generation \in Nat /\ st.cursor.after \in 0 .. MaxHead
      /\ st.cursor = [generation |-> st.cursor.generation, after |-> st.cursor.after]
  BY <1>2, Bounds DEF Cursors
<1> QED BY <1>1, <1>2, <1>3, <1>4

(* A flush moves the cursor with the frames. *)
LEMMA Flushing ==
  ASSUME Opened, NEW st, Line(st)
  PROVE  Line(Flushed(st)) /\ \A me : Reached(me, st) => Reached(me, Flushed(st))
<1> DEFINE free == Room - Len(st.wire)
           n == IF Len(st.frames) < free THEN Len(st.frames) ELSE free
           k == st.cursor.after
           g == st.cursor.generation
           wire == st.wire \o SubSeq(st.frames, 1, n)
           rest == SubSeq(st.frames, n + 1, Len(st.frames))
           new == [st EXCEPT !.cursor.after = st.frames[n].at, !.wire = wire, !.frames = rest]
<1>1. CASE n <= 0
  BY <1>1 DEF Flushed
<1>2. CASE ~(n <= 0)
  <2>1. /\ st \in StreamType /\ st.cursor \in Cursors /\ g \in Nat /\ k \in 0 .. MaxHead
        /\ st.wire \in Seq(FrameType) /\ st.frames \in Seq(FrameType)
        /\ Len(st.wire) \in Nat /\ Len(st.frames) \in Nat /\ st.open \in BOOLEAN
    BY Parts
  <2>2. n \in 1 .. Len(st.frames) /\ Len(st.wire) + n <= Room /\ n \in Nat
    <3>1. free \in Int /\ Len(st.wire) + free = Room
      BY <2>1, Bounds
    <3> HIDE DEF free
    <3>2. (n = Len(st.frames) /\ n < free) \/ (n = free /\ n <= Len(st.frames))
      BY <2>1, <3>1
    <3> HIDE DEF n
    <3> QED BY <1>2, <2>1, <3>1, <3>2, Bounds
  <2>3. Flushed(st) = new
    BY <1>2 DEF Flushed
  <2>4. Following(st.frames, g, k)
    BY DEF Line
  <2>5. st.frames[n].at = k + n /\ st.frames[n] \in FrameType
    BY <2>1, <2>2, <2>4 DEF Following, Telling
  <2> HIDE DEF n
  <2> DEFINE front == SubSeq(st.frames, 1, n)
  <2>6. /\ front \in Seq(FrameType) /\ Len(front) = n
        /\ \A i \in 1 .. n : front[i] = st.frames[i]
    BY <2>1, <2>2, SubSeqProperties
  <2>7. /\ rest \in Seq(FrameType) /\ Len(rest) = Len(st.frames) - n
        /\ \A i \in 1 .. Len(st.frames) - n : rest[i] = st.frames[n + i]
    BY <2>1, <2>2, SubSeqProperties
  <2> HIDE DEF front, rest
  <2>8. /\ wire \in Seq(FrameType) /\ Len(wire) = Len(st.wire) + n
        /\ \A i \in 1 .. Len(st.wire) : wire[i] = st.wire[i]
        /\ \A i \in Len(st.wire) + 1 .. Len(st.wire) + n : wire[i] = st.frames[i - Len(st.wire)]
    <3>1. wire = st.wire \o front
      BY DEF front
    <3>2. /\ st.wire \o front \in Seq(FrameType) /\ Len(st.wire \o front) = Len(st.wire) + n
          /\ \A i \in 1 .. Len(st.wire) : (st.wire \o front)[i] = st.wire[i]
          /\ \A i \in Len(st.wire) + 1 .. Len(st.wire) + n : (st.wire \o front)[i] = front[i - Len(st.wire)]
      <4>1. st.wire \in Seq(FrameType) /\ front \in Seq(FrameType) /\ Len(front) = n
        BY <2>1, <2>6
      <4> QED BY <4>1, Joined
    <3>3. \A i \in Len(st.wire) + 1 .. Len(st.wire) + n : i - Len(st.wire) \in 1 .. n
      BY <2>1, <2>2
    <3> QED BY <2>6, <3>1, <3>2, <3>3
  <2> HIDE DEF wire
  <2>9. k + n \in 0 .. MaxHead
    BY <2>5 DEF FrameType
  <2>10. new.cursor = [generation |-> g, after |-> k + n]
    BY <2>1, <2>5 DEF StreamType, Cursors
  <2>11. /\ new.wire = wire /\ new.frames = rest /\ new.open = st.open /\ new.busy = st.busy
         /\ new.answer = st.answer
    BY <2>1 DEF StreamType
  <2>12. new \in StreamType
    <3>1. [generation |-> g, after |-> k + n] \in Cursors
      BY <2>1, <2>9 DEF Cursors
    <3> QED BY <2>1, <2>5, <2>7, <2>8, <3>1 DEF StreamType, Cursors
  <2> HIDE DEF new
  <2>13. Following(rest, g, k + n)
    <3>1. ASSUME NEW i \in 1 .. Len(rest)
          PROVE  Telling(rest[i], g, (k + n) + i) /\ rest[i].event # Ready
      <4>1. n + i \in 1 .. Len(st.frames) /\ i \in 1 .. Len(st.frames) - n /\ k + (n + i) = (k + n) + i
        BY <2>1, <2>2, <2>7, Bounds
      <4>2. Telling(st.frames[n + i], g, k + (n + i)) /\ st.frames[n + i].event # Ready
        BY <2>4, <4>1 DEF Following
      <4> QED BY <2>7, <4>1, <4>2
    <3> QED BY <3>1 DEF Following
  <2>14. ASSUME NEW i \in 1 .. Len(wire)
         PROVE  /\ Telling(wire[i], g, (k + n) - Len(wire) + i)
                /\ i > Len(st.wire) => wire[i].event # Ready
    <3>1. CASE i \in 1 .. Len(st.wire)
      <4>1. Telling(st.wire[i], g, k - Len(st.wire) + i)
        BY <3>1 DEF Line
      <4>2. (k + n) - Len(wire) + i = k - Len(st.wire) + i
        BY <2>1, <2>2, <2>8, <3>1
      <4> QED BY <2>1, <2>8, <3>1, <4>1, <4>2
    <3>2. CASE i \in Len(st.wire) + 1 .. Len(st.wire) + n
      <4>1. i - Len(st.wire) \in 1 .. Len(st.frames)
        BY <2>1, <2>2, <3>2
      <4>2. /\ Telling(st.frames[i - Len(st.wire)], g, k + (i - Len(st.wire)))
            /\ st.frames[i - Len(st.wire)].event # Ready
        BY <2>4, <4>1 DEF Following
      <4>3. (k + n) - Len(wire) + i = k + (i - Len(st.wire))
        BY <2>1, <2>2, <2>8, <3>2
      <4> QED BY <2>8, <3>2, <4>2, <4>3
    <3> QED BY <2>1, <2>2, <2>8, <3>1, <3>2
  <2>15. \A i \in 2 .. Len(wire) : wire[i].event # Ready
    <3>1. \A i \in 2 .. Len(st.wire) : st.wire[i].event # Ready
      BY DEF Line
    <3>2. ASSUME NEW i \in 2 .. Len(wire) PROVE wire[i].event # Ready
      <4>1. CASE i \in 2 .. Len(st.wire)
        BY <2>1, <2>8, <3>1, <4>1
      <4>2. CASE i > Len(st.wire)
        BY <2>1, <2>2, <2>8, <2>14, <4>2
      <4> QED BY <2>1, <2>2, <2>8, <4>1, <4>2
    <3> QED BY <3>2
  <2>16. g = epoch => k + n <= Len(log)
    BY <2>2, <2>4 DEF Following, Telling
  <2>17. ~st.busy /\ st.open
    <3>1. st.frames # <<>>
      BY <2>2
    <3> QED BY <3>1 DEF Line
  <2>18. Line(new)
    <3>1. new.cursor.generation = g /\ new.cursor.after = k + n
      BY <2>10
    <3>2. Len(rest) <= Page /\ Len(wire) <= Room /\ g <= epoch /\ Len(st.answer.frames) <= Page
      BY <2>1, <2>2, <2>7, <2>8, Bounds DEF Line
    <3> QED BY <2>1, <2>11, <2>12, <2>13, <2>14, <2>15, <2>16, <2>17, <3>1, <3>2 DEF Line
  <2>19. ASSUME NEW me, Reached(me, st) PROVE Reached(me, new)
    <3>1. new.cursor.generation = g /\ new.cursor.after = k + n
      BY <2>10
    <3>2. new.cursor.after - Len(new.wire) = k - Len(st.wire)
      <4>1. Len(new.wire) = Len(st.wire) + n
        BY <2>8, <2>11
      <4>2. PICK p, q : p = Len(new.wire) /\ q = Len(st.wire)
        OBVIOUS
      <4>3. k \in Nat /\ n \in Nat /\ q \in Nat /\ p = q + n
        BY <2>1, <2>2, <4>1, <4>2, Bounds
      <4>4. (k + n) - p = k - q
        BY <4>3
      <4> QED BY <3>1, <4>2, <4>4
    <3>3. wire # <<>> /\ wire[1].event = Ready => st.wire # <<>> /\ wire[1] = st.wire[1]
      <4>1. CASE st.wire = <<>>
        BY <2>2, <2>8, <2>14, <4>1
      <4>2. CASE st.wire # <<>>
        BY <2>1, <2>8, <4>2
      <4> QED BY <4>1, <4>2
    <3> QED BY <2>11, <2>17, <2>19, <3>1, <3>2, <3>3 DEF Reached, Live
  <2> QED BY <2>3, <2>18, <2>19
<1> QED BY <1>1, <1>2

-----------------------------------------------------------------------------
(* Snapshots and the server                                                *)

LEMMA Snapshots ==
  ASSUME Opened, NEW k \in 0 .. MaxHead, NEW h
  PROVE  LET cur == Cursor(h, k) IN
         /\ Snapshot(cur) \in AnswerType /\ Len(Snapshot(cur).frames) <= Page
         /\ Snapshot(cur).ok => k <= Len(log) /\ h \in {epoch, Unknown} /\ generation = epoch
         /\ Following(Snapshot(cur).frames, epoch, k)
<1> DEFINE cur == Cursor(h, k)
           last == IF cur.after + Page < Len(log) THEN cur.after + Page ELSE Len(log)
           frames == [i \in 1 .. last - cur.after |-> Frame(cur.after + i, log[cur.after + i])]
<1>1. cur.after = k /\ cur.generation = h
  BY DEF Cursor
<1>2. /\ log \in Seq(Event) /\ Len(log) \in Nat /\ Len(log) <= MaxHead /\ epoch \in 0 .. MaxRestores
      /\ generation \in 0 .. epoch
  BY Bounds DEF Opened, TrailTypeOK
<1>3. CASE Accepted(cur)
  <2>1. k <= Len(log) /\ h \in {generation, Unknown} /\ generation = epoch
    BY <1>1, <1>3 DEF Accepted, Opened
  <2>2. last - cur.after \in Nat /\ last - cur.after <= Page /\ last <= Len(log) /\ last \in Nat
    BY <1>1, <1>2, <2>1, Bounds
  <2>3. ASSUME NEW i \in 1 .. last - cur.after
        PROVE  /\ Frame(cur.after + i, log[cur.after + i]) \in FrameType
               /\ Telling(Frame(cur.after + i, log[cur.after + i]), epoch, k + i)
               /\ Frame(cur.after + i, log[cur.after + i]).event # Ready
    <3>1. k + i \in 1 .. Len(log)
      BY <1>1, <1>2, <2>2
    <3>2. log[k + i] \in Event
      BY <1>2, <3>1
    <3>3. Frame(cur.after + i, log[cur.after + i]) = [generation |-> epoch, at |-> k + i, event |-> log[k + i]]
      BY <1>1, <2>1 DEF Frame
    <3>4. k + i \in 0 .. MaxHead /\ epoch \in Generations
      BY <1>2, <3>1, Bounds DEF Generations
    <3> QED BY <1>2, <3>1, <3>2, <3>3, <3>4, Bounds DEF FrameType, Telling
  <2> HIDE DEF last
  <2>4. frames \in Seq(FrameType) /\ Len(frames) = last - cur.after
    <3>1. frames \in [1 .. last - cur.after -> FrameType]
      BY <2>3
    <3> QED BY <2>2, <3>1, SeqDef
  <2>5. Following(frames, epoch, k)
    BY <2>3, <2>4 DEF Following
  <2> HIDE DEF frames
  <2>6. Snapshot(cur) = [ok |-> TRUE, frames |-> frames]
    BY <1>3 DEF Snapshot, frames, last
  <2> QED BY <2>1, <2>2, <2>4, <2>5, <2>6 DEF AnswerType
<1>4. CASE ~Accepted(cur)
  <2>1. Snapshot(cur) = [ok |-> FALSE, frames |-> <<>>]
    BY <1>4 DEF Snapshot
  <2>2. <<>> \in Seq(FrameType) /\ Len(<<>>) = 0
    OBVIOUS
  <2> QED BY <2>1, <2>2, Bounds DEF AnswerType, Following
<1> QED BY <1>3, <1>4

LEMMA Querying == ASSUME Inv, NEW c \in Clients, Query(c) PROVE Inv'
<1> PICK st : st = stream[c]
  OBVIOUS
<1> DEFINE answer == Snapshot(st.cursor)
           new == [st EXCEPT !.busy = TRUE, !.answer = answer]
<1>1. /\ st.open /\ ~st.busy /\ st.frames = <<>> /\ st.wire = <<>> /\ Serve(c, new)
      /\ Line(st) /\ Reached(client[c], st) /\ Opened
  BY DEF Query, Inv
<1>2. /\ st \in StreamType /\ st.cursor.after \in 0 .. MaxHead /\ st.cursor.generation \in Nat
      /\ st.cursor = Cursor(st.cursor.generation, st.cursor.after)
  BY <1>1, Parts DEF Cursor
<1>3. /\ answer \in AnswerType /\ Len(answer.frames) <= Page
      /\ Following(answer.frames, epoch, st.cursor.after)
      /\ answer.ok => st.cursor.generation = epoch
  BY <1>1, <1>2, Bounds, Snapshots
<1>4. Following(answer.frames, st.cursor.generation, st.cursor.after)
  <2>1. CASE answer.ok
    BY <1>3, <2>1
  <2>2. CASE ~answer.ok
    BY <2>2 DEF Snapshot, Following
  <2> QED BY <2>1, <2>2
<1> HIDE DEF answer
<1>5. /\ new \in StreamType /\ new.cursor = st.cursor /\ new.frames = <<>> /\ new.wire = <<>>
      /\ new.open = st.open /\ new.busy = TRUE /\ new.answer = answer
  BY <1>1, <1>2, <1>3 DEF StreamType
<1> HIDE DEF new
<1>6. Line(new) /\ Reached(client[c], new)
  BY <1>1, <1>3, <1>4, <1>5 DEF Line, Reached, Live
<1> QED BY <1>1, <1>6, Serving

(* To end a stream leaves what is on the wire. *)
LEMMA Finishing ==
  ASSUME Inv, NEW c \in Clients, NEW st, st = stream[c], NEW end, end = Finished(st), Serve(c, end)
  PROVE  Inv'
<1>1. Line(st) /\ Reached(client[c], st) /\ Opened /\ st \in StreamType
  BY DEF Inv, Line
<1>2. <<>> \in Seq(FrameType) /\ Len(<<>>) = 0
  OBVIOUS
<1>3. /\ end \in StreamType /\ end.cursor = st.cursor /\ end.frames = <<>> /\ end.wire = st.wire
      /\ end.open = FALSE /\ end.busy = st.busy /\ end.answer = st.answer
  BY <1>1, <1>2 DEF StreamType, Finished
<1>4. Line(end)
  BY <1>1, <1>2, <1>3, Bounds DEF Line, Following
<1>5. Reached(client[c], end)
  BY <1>1, <1>3 DEF Reached, Live, Line
<1> QED BY <1>4, <1>5, Serving

LEMMA Answering == ASSUME Inv, NEW c \in Clients, Answer(c) PROVE Inv'
<1> PICK st : st = stream[c]
  OBVIOUS
<1> DEFINE quiet == [st EXCEPT !.busy = FALSE, !.answer = NoAnswer]
           answer == st.answer
           filled == [quiet EXCEPT !.frames = answer.frames]
<1>1. /\ Line(st) /\ Reached(client[c], st) /\ Opened /\ st.busy
      /\ Serve(c, IF ~quiet.open THEN quiet
                  ELSE IF answer.ok THEN Flushed(filled) ELSE Finished(quiet))
  BY DEF Inv, Answer
<1>2. st \in StreamType /\ st.answer.frames \in Seq(FrameType) /\ st.open \in BOOLEAN
      /\ st.cursor.after \in 0 .. MaxHead
  BY <1>1, Parts
<1>3. NoAnswer \in AnswerType /\ NoAnswer.frames = <<>> /\ Len(<<>>) = 0 /\ <<>> \in Seq(FrameType)
  BY DEF NoAnswer, AnswerType
<1>4. /\ quiet \in StreamType /\ quiet.cursor = st.cursor /\ quiet.frames = st.frames
      /\ quiet.wire = st.wire /\ quiet.open = st.open /\ quiet.busy = FALSE /\ quiet.answer = NoAnswer
  BY <1>2, <1>3 DEF StreamType
<1>5. /\ filled \in StreamType /\ filled.cursor = st.cursor /\ filled.frames = st.answer.frames
      /\ filled.wire = st.wire /\ filled.open = st.open /\ filled.busy = FALSE /\ filled.answer = NoAnswer
  BY <1>2, <1>3 DEF StreamType
<1> HIDE DEF filled, NoAnswer
<1>6. st.wire = <<>> /\ st.frames = <<>> /\ Following(st.answer.frames, st.cursor.generation, st.cursor.after)
  BY <1>1 DEF Line
<1>7. CASE ~st.open
  <2> HIDE DEF quiet
  <2>1. Line(quiet) /\ Reached(client[c], quiet)
    BY <1>1, <1>3, <1>4, Bounds DEF Line, Reached, Live
  <2> QED BY <1>1, <1>4, <1>7, <2>1, Serving
<1>8. CASE st.open /\ answer.ok
  <2> HIDE DEF quiet
  <2>1. Line(filled) /\ Reached(client[c], filled)
    BY <1>1, <1>3, <1>5, <1>6, <1>8, Bounds DEF Line, Reached, Live
  <2>2. Line(Flushed(filled)) /\ Reached(client[c], Flushed(filled))
    BY <1>1, <2>1, Flushing
  <2> QED BY <1>1, <1>4, <1>8, <2>2, Serving
<1>9. CASE st.open /\ ~answer.ok
  <2> PICK end : end = Finished(quiet)
    OBVIOUS
  <2>1. /\ end \in StreamType /\ end.cursor = st.cursor /\ end.frames = <<>> /\ end.wire = <<>>
        /\ end.open = FALSE /\ end.busy = FALSE /\ end.answer = NoAnswer
    BY <1>3, <1>4, <1>6 DEF Finished, StreamType
  <2>2. Line(end) /\ Reached(client[c], end)
    BY <1>1, <1>3, <2>1, <1>6, Bounds DEF Line, Reached, Live, Following
  <2> HIDE DEF quiet
  <2> QED BY <1>1, <1>4, <1>9, <2>2, Serving
<1> QED BY <1>2, <1>7, <1>8, <1>9

LEMMA Cutting == ASSUME Inv, NEW c \in Clients, Cut(c) PROVE Inv'
<1>1. Serve(c, Closed) /\ Opened /\ Having(client[c])
  BY DEF Cut, Inv
<1>2. Line(Closed) /\ Closed.cursor.after = 0 /\ Closed.wire = <<>> /\ ~Closed.open
  BY <1>1, ClosedLine
<1>3. client[c].seen.after \in Nat
  <2>1. client[c].seen \in Kept
    BY <1>1 DEF Having, ClientType
  <2> QED BY <2>1, Bounds DEF Kept, Cursors, Cursor
<1>4. Reached(client[c], Closed)
  BY <1>2, <1>3 DEF Reached, Live
<1> QED BY <1>1, <1>2, <1>4, Serving

LEMMA Pushing == ASSUME Inv, NEW c \in Clients, Flush(c) PROVE Inv'
<1>1. /\ Line(stream[c]) /\ Reached(client[c], stream[c]) /\ Opened
      /\ Serve(c, Flushed(stream[c]))
  BY DEF Inv, Flush
<1>2. Line(Flushed(stream[c])) /\ Reached(client[c], Flushed(stream[c]))
  BY <1>1, Flushing
<1> QED BY <1>1, <1>2, Serving

-----------------------------------------------------------------------------
(* The client                                                              *)

(* What the parts of a client are *)
LEMMA Owned ==
  ASSUME Opened, NEW me, Having(me)
  PROVE  /\ me \in ClientType /\ me.kept \in Kept /\ me.seen \in Kept /\ me.base \in 0 .. MaxHead
         /\ me.got \in Seq(Event) /\ Len(me.got) \in Nat
         /\ me.kept.after \in 0 .. MaxHead /\ me.seen.after \in 0 .. MaxHead
         /\ me.kept.generation \in Nat \cup {Unknown} /\ me.seen.generation \in Nat \cup {Unknown}
         /\ (me.kept.generation = Unknown => me.kept.after = 0)
         /\ (me.seen.generation = Unknown => me.seen.after = 0)
         /\ me.kept = Cursor(me.kept.generation, me.kept.after)
<1>1. me \in ClientType /\ me.kept \in Kept /\ me.seen \in Kept /\ me.base \in 0 .. MaxHead /\ me.got \in Seq(Event)
  BY DEF Having, ClientType
<1> QED BY <1>1, Bounds DEF Kept, Cursors, Cursor

LEMMA Connecting == ASSUME Inv, NEW c \in Clients, Connect(c) PROVE Inv'
<1> PICK me : me = client[c]
  OBVIOUS
<1> PICK st : st = stream[c]
  OBVIOUS
<1> DEFINE cur == me.kept
           k == cur.after
           answer == Snapshot(cur)
           opened == [Closed EXCEPT !.open = TRUE, !.cursor = Cursor(generation, k),
                                    !.frames = answer.frames, !.wire = <<Frame(k, Ready)>>]
<1>1. Opened /\ Having(me) /\ client \in [Clients -> ClientType] /\ stream \in [Clients -> StreamType]
  BY DEF Inv
<1>2. /\ UNCHANGED trail
      /\ \/ /\ answer.ok
            /\ stream' = [stream EXCEPT ![c] = Flushed(opened)]
            /\ client' = [client EXCEPT ![c] = IF cur.generation = Unknown THEN Fresh(cur) ELSE @]
         \/ \E n \in {0, Len(log)} :
               /\ stream' = [stream EXCEPT ![c] = Closed]
               /\ client' = [client EXCEPT ![c] = Fresh(Cursor(IF gated THEN epoch ELSE generation, n))]
  BY DEF Connect
<1>3. /\ me \in ClientType /\ cur \in Kept /\ k \in 0 .. MaxHead /\ me.seen.after \in 0 .. MaxHead
      /\ cur = Cursor(cur.generation, k) /\ (cur.generation = Unknown => k = 0)
  BY <1>1, Owned
<1>4. /\ epoch \in 0 .. MaxRestores /\ epoch \in Nat /\ Len(log) \in Nat /\ Len(log) <= MaxHead
      /\ (~gated => generation = epoch)
  BY <1>1, Bounds DEF Opened, TrailTypeOK
<1>5. Line(Closed) /\ Closed.cursor.after = 0 /\ Closed.wire = <<>> /\ Closed.frames = <<>> /\ ~Closed.open
  BY <1>1, ClosedLine
<1>6. ASSUME answer.ok, stream' = [stream EXCEPT ![c] = Flushed(opened)],
             client' = [client EXCEPT ![c] = IF cur.generation = Unknown THEN Fresh(cur) ELSE @]
      PROVE  Inv'
  <2>1. /\ answer \in AnswerType /\ Len(answer.frames) <= Page /\ k <= Len(log)
        /\ cur.generation \in {epoch, Unknown} /\ generation = epoch
        /\ Following(answer.frames, epoch, k)
    BY <1>1, <1>3, <1>6, Snapshots
  <2> HIDE DEF answer
  <2> DEFINE now == IF cur.generation = Unknown THEN Fresh(cur) ELSE me
             ready == Frame(k, Ready)
  <2>2. client' = [client EXCEPT ![c] = now]
    BY <1>6
  <2>3. /\ Having(now) /\ now.kept = cur /\ k <= now.seen.after
        /\ now.seen.generation \in {Unknown, epoch}
    <3>1. CASE cur.generation = Unknown
      BY <1>1, <1>3, <3>1, FreshHaving
    <3>2. CASE cur.generation # Unknown
      BY <1>1, <2>1, <3>2 DEF Having
    <3> QED BY <3>1, <3>2
  <2> HIDE DEF now
  <2>4. ready = [generation |-> epoch, at |-> k, event |-> Ready] /\ ready \in FrameType
    <3>1. ready = [generation |-> epoch, at |-> k, event |-> Ready]
      BY <2>1 DEF Frame
    <3>2. epoch \in Generations /\ k \in 0 .. MaxHead /\ Ready \in Event \cup {Ready}
      BY <1>3, <1>4 DEF Generations
    <3> QED BY <3>1, <3>2 DEF FrameType
  <2>5. ready.at = k /\ ready.event = Ready /\ ready.generation = epoch
    BY <2>4
  <2> HIDE DEF ready
  <2>6. <<ready>> \in Seq(FrameType) /\ Len(<<ready>>) = 1 /\ <<ready>>[1] = ready /\ <<ready>> # <<>>
    BY <2>4
  <2>7. [generation |-> epoch, after |-> k] \in Cursors /\ answer.frames \in Seq(FrameType)
    BY <1>3, <1>4, <2>1 DEF Cursors, AnswerType
  <2>8. /\ opened = [Closed EXCEPT !.open = TRUE, !.cursor = [generation |-> epoch, after |-> k],
                                   !.frames = answer.frames, !.wire = <<ready>>]
        /\ Closed \in StreamType /\ Closed.busy = FALSE /\ Closed.answer.frames = <<>>
    BY <1>5, <2>1 DEF Cursor, Line, Closed, NoAnswer, ready
  <2>9. /\ opened \in StreamType /\ opened.open = TRUE /\ opened.frames = answer.frames
        /\ opened.wire = <<ready>> /\ opened.busy = FALSE /\ opened.answer = Closed.answer
        /\ opened.cursor = [generation |-> epoch, after |-> k]
    BY <2>6, <2>7, <2>8 DEF StreamType
  <2> HIDE DEF opened
  <2>10. opened.cursor.generation = epoch /\ opened.cursor.after = k
    BY <2>9
  <2>11. Telling(ready, epoch, k)
    BY <2>1, <2>5 DEF Telling
  <2>12. Line(opened)
    <3>1. \A i \in 1 .. Len(opened.wire) : Telling(opened.wire[i], epoch, k - Len(opened.wire) + i)
      <4>1. \A i \in 1 .. 1 : i = 1 /\ k - 1 + i = k
        BY <1>3, Bounds
      <4> QED BY <2>6, <2>9, <2>11, <4>1
    <3>2. \A i \in 2 .. Len(opened.wire) : opened.wire[i].event # Ready
      BY <2>6, <2>9
    <3>3. Len(opened.wire) <= Room /\ Len(opened.frames) <= Page /\ Len(opened.answer.frames) <= Page
      BY <2>1, <2>6, <2>8, <2>9, Bounds
    <3>4. Following(opened.frames, epoch, k)
      BY <2>1, <2>9
    <3> QED BY <1>4, <2>1, <2>9, <2>10, <3>1, <3>2, <3>3, <3>4 DEF Line
  <2>13. Reached(now, opened)
    <3>1. k - 1 <= now.seen.after /\ now.seen.after \in Nat
      BY <1>1, <1>3, <2>3, Bounds, Owned
    <3> QED BY <2>1, <2>3, <2>5, <2>6, <2>9, <2>10, <3>1 DEF Reached, Live
  <2>14. Line(Flushed(opened)) /\ Reached(now, Flushed(opened))
    BY <1>1, <2>12, <2>13, Flushing
  <2> QED BY <1>2, <1>6, <2>2, <2>3, <2>14, Meeting
<1>7. ASSUME NEW n \in {0, Len(log)}, stream' = [stream EXCEPT ![c] = Closed],
             client' = [client EXCEPT ![c] = Fresh(Cursor(IF gated THEN epoch ELSE generation, n))]
      PROVE  Inv'
  <2> DEFINE new == Cursor(epoch, n)
  <2>1. client' = [client EXCEPT ![c] = Fresh(new)]
    BY <1>4, <1>7
  <2>2. new \in Kept /\ new.generation = epoch /\ new.after = n /\ n <= Len(log) /\ n \in Nat
    BY <1>4, <1>7, Bounds DEF Kept, Cursors, Cursor
  <2> HIDE DEF new
  <2>3. Having(Fresh(new)) /\ Fresh(new).seen = new
    BY <1>1, <2>2, FreshHaving
  <2>4. Reached(Fresh(new), Closed)
    BY <1>5, <2>2, <2>3 DEF Reached, Live
  <2> QED BY <1>2, <1>5, <1>7, <2>1, <2>3, <2>4, Meeting
<1> QED BY <1>2, <1>6, <1>7

LEMMA Receiving == ASSUME Inv, NEW c \in Clients, Receive(c) PROVE Inv'
<1> PICK me : me = client[c]
  OBVIOUS
<1> PICK st : st = stream[c]
  OBVIOUS
<1> PICK f : f = Head(st.wire)
  OBVIOUS
<1> DEFINE have == me.seen
           isNew == f.event # Ready /\ f.at > have.after
           seen == Cursor(f.generation, IF isNew THEN f.at ELSE have.after)
           got == IF isNew THEN Append(me.got, f.event) ELSE me.got
           now == [me EXCEPT !.seen = seen, !.got = got]
           rest == Tail(st.wire)
           left == [st EXCEPT !.wire = rest]
<1> PICK g, k, m : g = st.cursor.generation /\ k = st.cursor.after /\ m = Len(st.wire)
  OBVIOUS
<1>1. /\ Opened /\ Having(me) /\ Line(st) /\ Reached(me, st)
      /\ client \in [Clients -> ClientType] /\ stream \in [Clients -> StreamType]
  BY DEF Inv
<1>2. /\ UNCHANGED trail /\ st.wire # <<>>
      /\ stream' = [stream EXCEPT ![c] = left] /\ client' = [client EXCEPT ![c] = now]
  BY <1>1 DEF Receive
<1>3. /\ st \in StreamType /\ st.wire \in Seq(FrameType) /\ m \in Nat /\ g \in Nat /\ k \in 0 .. MaxHead
      /\ st.cursor \in Cursors
  BY <1>1, Parts
<1>4. /\ f = st.wire[1] /\ f \in FrameType /\ m \in Nat \ {0}
      /\ rest \in Seq(FrameType) /\ Len(rest) = m - 1 /\ \A i \in 1 .. m - 1 : rest[i] = st.wire[i + 1]
  BY <1>2, <1>3, HeadTailProperties
<1>5. /\ f.generation = g /\ f.at = k - m + 1 /\ f.at \in 0 .. MaxHead /\ f.event \in Event \cup {Ready}
      /\ (g = epoch => f.at <= Len(log) /\ (f.event # Ready => f.at >= 1 /\ f.event = log[f.at]))
  <2>1. 1 \in 1 .. m
    BY <1>4
  <2>2. Telling(st.wire[1], g, k - m + 1)
    BY <1>1, <2>1 DEF Line
  <2>3. f.at \in 0 .. MaxHead /\ f.event \in Event \cup {Ready}
    BY <1>4 DEF FrameType
  <2> QED BY <1>4, <2>2, <2>3 DEF Telling
<1> HIDE DEF rest
<1>6. /\ left \in StreamType /\ left.cursor = st.cursor /\ left.wire = rest /\ left.frames = st.frames
      /\ left.open = st.open /\ left.busy = st.busy /\ left.answer = st.answer
  BY <1>3, <1>4 DEF StreamType
<1> HIDE DEF left
<1>7. Line(left)
  <2>1. ASSUME NEW i \in 1 .. Len(rest)
        PROVE  Telling(rest[i], g, k - Len(rest) + i) /\ rest[i].event # Ready
    <3>1. /\ i + 1 \in 1 .. m /\ i + 1 \in 2 .. m /\ rest[i] = st.wire[i + 1]
          /\ k - m + (i + 1) = k - Len(rest) + i
      <4>1. k \in Nat /\ m \in Nat /\ Len(rest) = m - 1
        BY <1>3, <1>4, Bounds
      <4>2. i \in 1 .. m - 1
        BY <4>1
      <4>3. i + 1 \in 1 .. m /\ i + 1 \in 2 .. m /\ k - m + (i + 1) = k - (m - 1) + i
        BY <4>1, <4>2, Shifted
      <4>4. rest[i] = st.wire[i + 1]
        BY <1>4, <4>2
      <4> QED BY <4>1, <4>2, <4>3, <4>4
    <3>2. Telling(st.wire[i + 1], g, k - m + (i + 1)) /\ st.wire[i + 1].event # Ready
      BY <1>1, <3>1 DEF Line
    <3> QED BY <3>1, <3>2
  <2>2. /\ \A i \in 1 .. Len(rest) : Telling(rest[i], g, k - Len(rest) + i)
        /\ \A i \in 2 .. Len(rest) : rest[i].event # Ready
    <3>1. \A i \in 2 .. Len(rest) : i \in 1 .. Len(rest)
      BY <1>4
    <3> QED BY <2>1, <3>1
  <2>3. Len(rest) <= Room /\ ~st.busy
    BY <1>1, <1>2, <1>3, <1>4, Bounds DEF Line
  <2> QED BY <1>1, <1>6, <2>2, <2>3 DEF Line
<1>8. /\ me \in ClientType /\ me.base \in 0 .. MaxHead /\ me.got \in Seq(Event) /\ Len(me.got) \in Nat
      /\ have.after \in 0 .. MaxHead /\ have.after = me.base + Len(me.got) /\ me.kept.after <= have.after
      /\ me.kept.generation \in {Unknown, g} /\ have.generation \in {Unknown, g}
      /\ g <= epoch
  <2>1. Live(st)
    BY <1>2 DEF Live
  <2> QED BY <1>1, <2>1, Owned DEF Having, Reached, Line
<1>9. isNew => f.at = have.after + 1 /\ f.event \in Event
  <2>1. k - m <= have.after
    BY <1>1 DEF Reached
  <2>2. k \in Nat /\ m \in Nat /\ have.after \in Nat /\ f.at = k - m + 1
    BY <1>3, <1>4, <1>5, <1>8, Bounds
  <2>3. f.at <= have.after + 1 /\ f.at \in Int
    <3>1. PICK at, after : at = f.at /\ after = have.after
      OBVIOUS
    <3>2. k \in Nat /\ m \in Nat /\ after \in Nat /\ at = k - m + 1 /\ k - m <= after
      BY <2>1, <2>2, <3>1
    <3>3. at <= after + 1 /\ at \in Int
      BY <3>2
    <3> QED BY <3>1, <3>3
  <2>4. ASSUME isNew PROVE f.at = have.after + 1 /\ f.event \in Event
    BY <1>5, <2>2, <2>3, <2>4
  <2> QED BY <2>4
<1>10. ~isNew => f.at <= have.after
  <2>1. f.event = Ready => f.at <= have.after
    BY <1>1, <1>2, <1>4 DEF Reached
  <2> QED BY <1>5, <1>8, <2>1, Bounds
<1>11. seen.generation = g /\ seen.after = (IF isNew THEN have.after + 1 ELSE have.after) /\ seen \in Kept
  <2>1. g \in Generations
    BY <1>3 DEF Cursors, Generations
  <2>2. (IF isNew THEN f.at ELSE have.after) \in 0 .. MaxHead
    BY <1>5, <1>8
  <2> QED BY <1>5, <1>9, <2>1, <2>2 DEF Cursor, Kept, Cursors, Generations
<1>12. /\ got \in Seq(Event) /\ Len(got) = (IF isNew THEN Len(me.got) + 1 ELSE Len(me.got))
       /\ \A i \in 1 .. Len(me.got) : got[i] = me.got[i]
       /\ isNew => got[Len(me.got) + 1] = f.event
  BY <1>8, <1>9, AppendProperties
<1> HIDE DEF seen, got
<1>13. /\ now \in ClientType /\ now.seen = seen /\ now.got = got /\ now.kept = me.kept /\ now.base = me.base
  BY <1>8, <1>11, <1>12 DEF ClientType
<1> HIDE DEF now
<1>14. Having(now)
  <2>1. seen.after = me.base + Len(got) /\ me.kept.after <= seen.after
    <3>1. CASE isNew
      <4>1. have.after \in Nat /\ me.base \in Nat /\ Len(me.got) \in Nat /\ me.kept.after \in Nat
        BY <1>1, <1>8, Owned, Bounds
      <4>2. seen.after = have.after + 1 /\ Len(got) = Len(me.got) + 1
        BY <1>11, <1>12, <3>1
      <4>3. have.after = me.base + Len(me.got) /\ me.kept.after <= have.after
        BY <1>8
      <4> HIDE DEF isNew
      <4>4. (me.base + Len(me.got)) + 1 = me.base + (Len(me.got) + 1)
        BY <4>1, Sums
      <4>5. have.after <= have.after + 1
        BY <4>1
      <4> QED BY <4>1, <4>2, <4>3, <4>4, <4>5
    <3>2. CASE ~isNew
      BY <1>8, <1>11, <1>12, <3>2, Bounds
    <3> QED BY <3>1, <3>2
  <2>2. ASSUME g = epoch
        PROVE  seen.after <= Len(log) /\ \A i \in 1 .. Len(got) : got[i] = log[me.base + i]
    <3>1. have.after <= Len(log) /\ \A i \in 1 .. Len(me.got) : me.got[i] = log[me.base + i]
      <4>1. CASE have.generation = g
        BY <1>1, <2>2, <4>1 DEF Having
      <4>2. CASE have.generation = Unknown
        <5>1. have.after = 0 /\ me.got = <<>> /\ Len(log) \in Nat
          BY <1>1, <4>2, Owned DEF Having, Opened, TrailTypeOK
        <5> QED BY <5>1
      <4> QED BY <1>8, <4>1, <4>2
    <3>2. CASE isNew
      <4>1. f.event = log[me.base + (Len(me.got) + 1)] /\ f.at <= Len(log)
        <5>1. f.event = log[f.at] /\ f.at <= Len(log)
          BY <1>5, <2>2, <3>2
        <5>2. have.after \in Nat /\ me.base \in Nat /\ Len(me.got) \in Nat
          BY <1>8, Bounds
        <5>3. f.at = have.after + 1
          BY <1>9, <3>2
        <5> HIDE DEF isNew
        <5>4. f.at = me.base + (Len(me.got) + 1)
          BY <1>8, <5>2, <5>3
        <5> QED BY <5>1, <5>4
      <4>2. ASSUME NEW i \in 1 .. Len(got) PROVE got[i] = log[me.base + i]
        <5>1. i \in 1 .. Len(me.got) \/ i = Len(me.got) + 1
          BY <1>8, <1>12, <3>2, <4>2
        <5> QED BY <1>12, <3>1, <3>2, <4>1, <5>1
      <4> QED BY <1>9, <1>11, <3>2, <4>1, <4>2
    <3>3. CASE ~isNew
      BY <1>11, <1>12, <3>1, <3>3
    <3> QED BY <3>2, <3>3
  <2> QED BY <1>3, <1>8, <1>11, <1>13, <2>1, <2>2, Bounds DEF Having
<1>15. Reached(now, left)
  <2>1. k - Len(rest) <= seen.after
    <3>1. k \in Nat /\ m \in Nat /\ have.after \in Nat /\ f.at = k - m + 1 /\ Len(rest) = m - 1
      BY <1>3, <1>4, <1>5, <1>8, Bounds
    <3>2. f.at <= seen.after
      <4>1. f.at \in Int /\ (f.at = have.after + 1 \/ f.at <= have.after)
        BY <1>5, <1>9, <1>10, <3>1
      <4> QED BY <1>9, <1>10, <1>11, <3>1, <4>1
    <3>3. k - Len(rest) = f.at
      BY <3>1
    <3> QED BY <3>2, <3>3
  <2>2. rest # <<>> => rest[1].event # Ready
    <3>1. ASSUME rest # <<>> PROVE rest[1].event # Ready
      <4>1. 1 \in 1 .. m - 1 /\ 2 \in 2 .. m /\ rest[1] = st.wire[2]
        BY <1>4, <3>1
      <4> QED BY <1>1, <4>1 DEF Line
    <3> QED BY <3>1
  <2> QED BY <1>6, <1>8, <1>11, <1>13, <2>1, <2>2 DEF Reached, Live
<1> QED BY <1>1, <1>2, <1>7, <1>14, <1>15, Meeting

LEMMA Keeping == ASSUME Inv, NEW c \in Clients, Keep(c) PROVE Inv'
<1> PICK me, st : me = client[c] /\ st = stream[c]
  OBVIOUS
<1> DEFINE now == [me EXCEPT !.kept = me.seen]
<1>1. /\ Opened /\ Having(me) /\ Line(st) /\ Reached(me, st) /\ UNCHANGED trail
      /\ stream' = [stream EXCEPT ![c] = st] /\ client' = [client EXCEPT ![c] = now]
  BY DEF Inv, Keep
<1>2. me \in ClientType /\ me.seen \in Kept /\ me.seen.after \in Nat
  BY <1>1, Owned, Bounds
<1>3. now \in ClientType /\ now.kept = me.seen /\ now.seen = me.seen /\ now.got = me.got /\ now.base = me.base
  BY <1>2 DEF ClientType
<1> HIDE DEF now
<1>4. Having(now) /\ Reached(now, st)
  BY <1>1, <1>2, <1>3 DEF Having, Reached
<1> QED BY <1>1, <1>4, Meeting

-----------------------------------------------------------------------------
(* Theorems                                                                *)

LEMMA Stepping == Inv /\ [Next]_vars => Inv'
<1> SUFFICES ASSUME Inv, [Next]_vars PROVE Inv'
  OBVIOUS
<1>1. CASE UNCHANGED vars
  <2>1. UNCHANGED <<log, generation, gated, epoch, saved, client, stream>>
    BY <1>1 DEF vars, trail
  <2>2. Opened' /\ Prolonged
    BY <2>1 DEF Inv, Opened, TrailTypeOK, Prolonged
  <2> QED BY <2>1, <2>2, Logged
<1>2. CASE Database
  BY <1>2, Logging, Logged DEF Inv
<1>3. ASSUME NEW c \in Clients,
             \/ Query(c) \/ Answer(c) \/ Flush(c) \/ Recheck(c) \/ Finish(c) \/ Cut(c)
             \/ Connect(c) \/ Receive(c) \/ Keep(c)
      PROVE  Inv'
  <2>1. ASSUME Recheck(c) \/ Finish(c) PROVE Inv'
    BY <2>1, Finishing DEF Recheck, Finish
  <2> QED BY <1>3, <2>1, Querying, Answering, Pushing, Cutting, Connecting, Receiving, Keeping
<1> QED BY <1>1, <1>2, <1>3 DEF Next

LEMMA Always == Spec => []Inv
BY Beginning, Stepping, PTL DEF Spec

\* The log, the clients and the server's streams have their types, and a
\* response never holds more than its room.
THEOREM TypeCorrect == Spec => []TypeOK
<1>1. ASSUME Inv PROVE TypeOK
  <2>1. Opened
    BY <1>1 DEF Inv
  <2>2. ASSUME NEW c \in Clients
        PROVE  /\ {client[c].kept, client[c].seen} \subseteq Cursors \cup {Cursor(Unknown, 0)}
               /\ client[c].base \in 0 .. MaxHead /\ client[c].got \in Seq(Event)
    BY <1>1, <2>1, Owned DEF Inv, Kept
  <2>3. ASSUME NEW c \in Clients
        PROVE  /\ stream[c].cursor \in Cursors
               /\ stream[c].frames \in Frames /\ stream[c].wire \in Frames
               /\ Len(stream[c].wire) <= Room /\ Len(stream[c].frames) <= Page
    BY <1>1, <2>1, Parts DEF Inv, Line, Frames, FrameType, Generations
  <2> QED BY <2>1, <2>2, <2>3 DEF TypeOK, Opened
<1> QED BY <1>1, Always, PTL

\* A cursor that the server accepts is where its client is: it has every event
\* that was committed up to there, and none that a restore gave up
\* (validateStreamCursor; stream-audit-input.ts).
THEOREM ResumesExactly == Spec => []Resumable
<1>1. ASSUME Inv, NEW c \in Clients,
             Accepted(client[c].kept), client[c].kept.generation # Unknown
      PROVE  LET me == client[c]
                 end == me.base + Len(me.got)
             IN  /\ me.kept.after <= end /\ end <= Len(log)
                 /\ me.got = SubSeq(log, me.base + 1, end)
  <2> PICK me : me = client[c]
    OBVIOUS
  <2> DEFINE end == me.base + Len(me.got)
  <2>1. Having(me) /\ Opened
    BY <1>1 DEF Inv
  <2>2. me.seen.generation = epoch
    BY <1>1, <2>1 DEF Accepted, Opened, Having
  <2>3. /\ me.seen.after = end /\ me.kept.after <= end /\ end <= Len(log)
        /\ \A i \in 1 .. Len(me.got) : me.got[i] = log[me.base + i]
    BY <2>1, <2>2 DEF Having
  <2>4. me.got \in Seq(Event) /\ log \in Seq(Event) /\ me.base \in Nat /\ Len(me.got) \in Nat /\ Len(log) \in Nat
    BY <2>1, Owned, Bounds DEF Opened, TrailTypeOK
  <2> DEFINE part == SubSeq(log, me.base + 1, end)
  <2>5. me.base + 1 \in 1 .. Len(log) + 1 /\ end \in me.base .. Len(log)
    BY <2>3, <2>4
  <2>6. /\ part \in Seq(Event) /\ Len(part) = Len(me.got)
        /\ \A i \in 1 .. Len(me.got) : part[i] = log[me.base + i]
    <3>1. \A i \in me.base + 1 .. end : log[i] \in Event
      BY <2>4, <2>5
    <3>2. me.base + 1 \in Int /\ end \in Int
      BY <2>4
    <3>3. /\ part \in Seq(Event) /\ Len(part) = IF me.base + 1 <= end THEN end - (me.base + 1) + 1 ELSE 0
          /\ \A i \in 1 .. end - (me.base + 1) + 1 : part[i] = log[(me.base + 1) + i - 1]
      BY <3>1, <3>2, SubSeqProperties
    <3> HIDE DEF part
    <3>4. Len(part) = Len(me.got) /\ end - (me.base + 1) + 1 = Len(me.got)
      <4>1. \A b, n \in Nat : /\ (b + n) - (b + 1) + 1 = n
                              /\ (IF b + 1 <= b + n THEN (b + n) - (b + 1) + 1 ELSE 0) = n
        OBVIOUS
      <4> QED BY <2>4, <3>3, <4>1
    <3>5. \A i \in 1 .. Len(me.got) : (me.base + 1) + i - 1 = me.base + i
      BY <2>4
    <3> QED BY <3>3, <3>4, <3>5
  <2> HIDE DEF part
  <2>7. me.got = part
    BY <2>3, <2>4, <2>6, SeqEqual
  <2> QED BY <2>3, <2>7 DEF part
<1>2. Inv => Resumable
  BY <1>1 DEF Resumable
<1> QED BY <1>2, Always, PTL
=============================================================================
