---------------------------- MODULE BridgeProofs ----------------------------
(***************************************************************************)
(* The bridge, for any number of connections, requests, commands and        *)
(* threads: a tripped send's reply comes after the halt is known; with one  *)
(* thread that configures, both sides agree on the epoch; with one that     *)
(* halts and resumes, a halt reaches the peer; and no request that waits is *)
(* left waiting for a reply or a reset that would not wake it.              *)
(***************************************************************************)
EXTENDS Bridge, SequenceTheorems, TLAPS

(***************************************************************************)
(* What is on a wire.                                                       *)
(***************************************************************************)
IsCommand(f)  == f.t \in {"halt", "resume"}
IsConfig(f)  == f.t \in {"configure", "misconfigure"}
IsConfigAnswer(f) == f.t \in {"configured", "bad_config"}

Frames(q) == {q[i] : i \in DOMAIN q}
Rids(q) == {q[i].rid : i \in DOMAIN q}
NoConfig(q) == \A i \in DOMAIN q : ~IsConfig(q[i])
OneConfig(q) == \E i \in DOMAIN q : \A j \in DOMAIN q : IsConfig(q[j]) <=> j = i
NoConfigAnswer(q) == \A i \in DOMAIN q : ~IsConfigAnswer(q[i])
OneConfigAnswer(q, epoch) ==
    \E i \in DOMAIN q : /\ \A j \in DOMAIN q : IsConfigAnswer(q[j]) <=> j = i
                        /\ q[i].epoch = epoch
Greets(q) == q # <<>> /\ q[1].t = "hello"
HelloFirst(q) == \A i \in DOMAIN q : q[i].t = "hello" => i = 1

\* Two queues that hold the same configures, or the same answers to them.
SameConfigs(q, r) == (NoConfig(q) => NoConfig(r)) /\ (OneConfig(q) => OneConfig(r))
SameAnswers(q, r) == /\ NoConfigAnswer(q) => NoConfigAnswer(r)
                     /\ \A e : OneConfigAnswer(q, e) => OneConfigAnswer(r, e)

\* A reply that tells of a trip follows the frame that announces it, unless
\* that frame was read from this connection, x, before.
Announced(q, x, heard) ==
    \A i \in DOMAIN q :
       q[i].trip => x \in heard \/ \E j \in 1..(i - 1) : q[j].t = "halted"

\* What a peer that is (not) halted now will be once it has read q.
Halts(q, halted) ==
    \/ halted /\ \A i \in DOMAIN q : ~IsCommand(q[i])
    \/ \E i \in DOMAIN q : /\ q[i].t = "halt"
                           /\ \A j \in DOMAIN q : IsCommand(q[j]) => j =< i

LEMMA AppendFacts ==
    ASSUME NEW S, NEW q \in Seq(S), NEW f \in S
    PROVE  LET r == Append(q, f) IN
           /\ r \in Seq(S) /\ Len(q) \in Nat
           /\ DOMAIN q = 1..Len(q) /\ DOMAIN r = 1..(Len(q) + 1)
           /\ \A i \in DOMAIN q : r[i] = q[i]
           /\ r[Len(q) + 1] = f
           /\ r # <<>>
  <1>1. /\ Append(q, f) \in Seq(S) /\ Len(Append(q, f)) = Len(q) + 1
        /\ \A i \in 1..Len(q) : Append(q, f)[i] = q[i]
        /\ Append(q, f)[Len(q) + 1] = f
    BY AppendProperties
  <1>2. Len(q) \in Nat /\ DOMAIN q = 1..Len(q)
    BY LenProperties
  <1>3. DOMAIN Append(q, f) = 1..(Len(q) + 1)
    BY <1>1, LenProperties
  <1>4. Append(q, f) # <<>>
    BY <1>1, <1>2, EmptySeq
  <1>5. QED
    BY <1>1, <1>2, <1>3, <1>4

LEMMA TailFacts ==
    ASSUME NEW S, NEW q \in Seq(S), q # <<>>
    PROVE  /\ Tail(q) \in Seq(S) /\ Head(q) = q[1] /\ Head(q) \in S
           /\ Len(q) \in Nat \ {0}
           /\ DOMAIN q = 1..Len(q) /\ DOMAIN Tail(q) = 1..(Len(q) - 1)
           /\ \A i \in DOMAIN Tail(q) : Tail(q)[i] = q[i + 1]
  <1>1. Len(q) \in Nat \ {0} /\ DOMAIN q = 1..Len(q)
    BY EmptySeq, LenProperties
  <1>2. /\ Head(q) \in S /\ Tail(q) \in Seq(S) /\ Len(Tail(q)) = Len(q) - 1
        /\ \A i \in 1..Len(Tail(q)) : Tail(q)[i] = q[i + 1]
    BY HeadTailProperties
  <1>3. DOMAIN Tail(q) = 1..Len(Tail(q))
    BY <1>2, LenProperties
  <1>4. QED
    BY <1>1, <1>2, <1>3

\* A frame that is written.
LEMMA Writes ==
    ASSUME NEW S, NEW q \in Seq(S), NEW f \in S
    PROVE  LET r == Append(q, f) IN
           /\ Rids(r) = Rids(q) \cup {f.rid}
           /\ NoConfig(q) /\ ~IsConfig(f) => NoConfig(r)
           /\ NoConfig(q) /\ IsConfig(f) => OneConfig(r)
           /\ OneConfig(q) /\ ~IsConfig(f) => OneConfig(r)
           /\ NoConfigAnswer(q) /\ ~IsConfigAnswer(f) => NoConfigAnswer(r)
           /\ NoConfigAnswer(q) /\ IsConfigAnswer(f) => OneConfigAnswer(r, f.epoch)
           /\ \A e : OneConfigAnswer(q, e) /\ ~IsConfigAnswer(f) => OneConfigAnswer(r, e)
           /\ Greets(q) => Greets(r)
           /\ HelloFirst(q) /\ (f.t = "hello" => q = <<>>) => HelloFirst(r)
  <1> DEFINE r == Append(q, f)
             n == Len(q) + 1
  <1>1. /\ n \in Nat /\ n \notin DOMAIN q /\ n \in DOMAIN r
        /\ DOMAIN r = DOMAIN q \cup {n}
        /\ \A i \in DOMAIN q : r[i] = q[i]
        /\ r[n] = f /\ r # <<>>
    BY AppendFacts
  <1>2. q # <<>> => 1 \in DOMAIN q
    BY TailFacts
  <1>3. q = <<>> => n = 1
    BY EmptySeq
  <1> HIDE DEF r, n
  <1>4. Rids(r) = Rids(q) \cup {f.rid}
    BY <1>1 DEF Rids
  <1>5. /\ NoConfig(q) /\ ~IsConfig(f) => NoConfig(r)
        /\ NoConfig(q) /\ IsConfig(f) => OneConfig(r)
        /\ OneConfig(q) /\ ~IsConfig(f) => OneConfig(r)
    BY <1>1 DEF NoConfig, OneConfig
  <1>6. /\ NoConfigAnswer(q) /\ ~IsConfigAnswer(f) => NoConfigAnswer(r)
        /\ NoConfigAnswer(q) /\ IsConfigAnswer(f) => OneConfigAnswer(r, f.epoch)
    BY <1>1 DEF NoConfigAnswer, OneConfigAnswer
  <1>7. \A e : OneConfigAnswer(q, e) /\ ~IsConfigAnswer(f) => OneConfigAnswer(r, e)
    BY <1>1 DEF OneConfigAnswer
  <1>8. /\ Greets(q) => Greets(r)
        /\ HelloFirst(q) /\ (f.t = "hello" => q = <<>>) => HelloFirst(r)
    BY <1>1, <1>2, <1>3 DEF Greets, HelloFirst
  <1>9. QED
    BY <1>4, <1>5, <1>6, <1>7, <1>8 DEF r

\* A frame that is read.
LEMMA ReadsOne ==
    ASSUME NEW S, NEW q \in Seq(S), q # <<>>
    PROVE  /\ Rids(Tail(q)) \subseteq Rids(q) /\ Head(q).rid \in Rids(q)
           /\ NoConfig(q) => NoConfig(Tail(q)) /\ ~IsConfig(Head(q))
           /\ OneConfig(q) => IF IsConfig(Head(q)) THEN NoConfig(Tail(q))
                                                   ELSE OneConfig(Tail(q))
           /\ NoConfigAnswer(q) => NoConfigAnswer(Tail(q)) /\ ~IsConfigAnswer(Head(q))
           /\ \A e : OneConfigAnswer(q, e) =>
                 IF IsConfigAnswer(Head(q))
                 THEN NoConfigAnswer(Tail(q)) /\ Head(q).epoch = e
                 ELSE OneConfigAnswer(Tail(q), e)
           /\ HelloFirst(q) => HelloFirst(Tail(q)) /\ ~Greets(Tail(q))
           /\ Greets(q) <=> Head(q).t = "hello"
  <1> DEFINE r == Tail(q)
  <1>1. /\ Len(q) \in Nat \ {0} /\ DOMAIN q = 1..Len(q)
        /\ 1 \in DOMAIN q /\ Head(q) = q[1]
        /\ DOMAIN r = 1..(Len(q) - 1)
        /\ \A i \in DOMAIN r : i + 1 \in DOMAIN q /\ r[i] = q[i + 1] /\ i + 1 # 1
        /\ \A i \in DOMAIN q : i # 1 => i - 1 \in DOMAIN r /\ r[i - 1] = q[i]
    <2>1. /\ Len(q) \in Nat \ {0} /\ DOMAIN q = 1..Len(q)
          /\ Head(q) = q[1]
          /\ DOMAIN r = 1..(Len(q) - 1)
          /\ \A i \in DOMAIN r : r[i] = q[i + 1]
      BY TailFacts
    <2>2. QED
      BY <2>1
  <1>2. r # <<>> => 1 \in DOMAIN r
    <2>1. r \in Seq(S)
      BY TailFacts
    <2>2. QED
      BY <2>1, EmptySeq, LenProperties
  <1> HIDE DEF r
  <1>3. Rids(r) \subseteq Rids(q) /\ Head(q).rid \in Rids(q)
    <2>1. \A i \in DOMAIN r : \E j \in DOMAIN q : r[i].rid = q[j].rid
      BY <1>1
    <2>2. \E j \in DOMAIN q : Head(q).rid = q[j].rid
      BY <1>1
    <2>3. QED
      BY <2>1, <2>2 DEF Rids
  <1>4. /\ NoConfig(q) => NoConfig(r) /\ ~IsConfig(Head(q))
        /\ NoConfigAnswer(q) => NoConfigAnswer(r) /\ ~IsConfigAnswer(Head(q))
    BY <1>1 DEF NoConfig, NoConfigAnswer
  <1>5. ASSUME OneConfig(q)
        PROVE  IF IsConfig(Head(q)) THEN NoConfig(r) ELSE OneConfig(r)
    <2>1. PICK i \in DOMAIN q : \A j \in DOMAIN q : IsConfig(q[j]) <=> j = i
      BY <1>5 DEF OneConfig
    <2>2. CASE i = 1
      <3>1. IsConfig(Head(q))
        BY <1>1, <2>1, <2>2
      <3>2. NoConfig(r)
        BY <1>1, <2>1, <2>2 DEF NoConfig
      <3>3. QED
        BY <3>1, <3>2
    <2>3. CASE i # 1
      <3>1. ~IsConfig(Head(q)) /\ i - 1 \in DOMAIN r
        BY <1>1, <2>1, <2>3
      <3>2. \A j \in DOMAIN r : IsConfig(r[j]) <=> j + 1 = i
        BY <1>1, <2>1
      <3>3. \A j \in DOMAIN r : j + 1 = i <=> j = i - 1
        BY <1>1
      <3>4. QED
        BY <3>1, <3>2, <3>3 DEF OneConfig
    <2>4. QED
      BY <2>2, <2>3
  <1>6. ASSUME NEW e, OneConfigAnswer(q, e)
        PROVE  IF IsConfigAnswer(Head(q))
               THEN NoConfigAnswer(r) /\ Head(q).epoch = e
               ELSE OneConfigAnswer(r, e)
    <2>1. PICK i \in DOMAIN q : /\ \A j \in DOMAIN q : IsConfigAnswer(q[j]) <=> j = i
                               /\ q[i].epoch = e
      BY <1>6 DEF OneConfigAnswer
    <2>2. CASE i = 1
      <3>1. IsConfigAnswer(Head(q)) /\ Head(q).epoch = e
        BY <1>1, <2>1, <2>2
      <3>2. NoConfigAnswer(r)
        BY <1>1, <2>1, <2>2 DEF NoConfigAnswer
      <3>3. QED
        BY <3>1, <3>2
    <2>3. CASE i # 1
      <3>1. ~IsConfigAnswer(Head(q)) /\ i - 1 \in DOMAIN r /\ r[i - 1].epoch = e
        BY <1>1, <2>1, <2>3
      <3>2. \A j \in DOMAIN r : IsConfigAnswer(r[j]) <=> j + 1 = i
        BY <1>1, <2>1
      <3>3. \A j \in DOMAIN r : j + 1 = i <=> j = i - 1
        BY <1>1
      <3>4. QED
        BY <3>1, <3>2, <3>3 DEF OneConfigAnswer
    <2>4. QED
      BY <2>2, <2>3
  <1>7. ASSUME HelloFirst(q) PROVE HelloFirst(r) /\ ~Greets(r)
    <2>1. \A i \in DOMAIN r : r[i].t # "hello"
      BY <1>1, <1>7 DEF HelloFirst
    <2>2. QED
      BY <1>2, <2>1 DEF HelloFirst, Greets
  <1>8. Greets(q) <=> Head(q).t = "hello"
    BY <1>1 DEF Greets
  <1>9. QED
    BY <1>3, <1>4, <1>5, <1>6, <1>7, <1>8 DEF r

LEMMA AnnouncedKept ==
    ASSUME NEW S, NEW q \in Seq(S), NEW x, NEW heard
    PROVE  /\ \A f \in S : Announced(q, x, heard) /\ ~f.trip => Announced(Append(q, f), x, heard)
           /\ \A f, h \in S : Announced(q, x, heard) /\ h.t = "halted" /\ ~h.trip
                  => Announced(Append(Append(q, h), f), x, heard)
           /\ q # <<>> /\ Announced(q, x, heard) =>
                 /\ Head(q).t # "halted" => Announced(Tail(q), x, heard)
                 /\ x \in heard => Announced(Tail(q), x, heard)
                 /\ Head(q).trip => x \in heard
  <1>2. ASSUME NEW f \in S, Announced(q, x, heard), ~f.trip
        PROVE  Announced(Append(q, f), x, heard)
    BY <1>2, AppendFacts DEF Announced
  <1>3. ASSUME NEW f \in S, NEW h \in S, Announced(q, x, heard), h.t = "halted", ~h.trip
        PROVE  Announced(Append(Append(q, h), f), x, heard)
    <2> DEFINE r == Append(q, h)
               s == Append(r, f)
               n == Len(q)
    <2>1. /\ n \in Nat /\ DOMAIN q = 1..n /\ DOMAIN r = 1..(n + 1) /\ r \in Seq(S)
          /\ \A i \in DOMAIN q : r[i] = q[i]
          /\ r[n + 1] = h
      BY AppendFacts
    <2>2. Len(r) = n + 1
      BY <2>1, LenProperties
    <2>3. /\ DOMAIN s = 1..(n + 2)
          /\ \A i \in DOMAIN r : s[i] = r[i]
      <3>1. DOMAIN s = 1..(Len(r) + 1) /\ \A i \in DOMAIN r : s[i] = r[i]
        BY <2>1, AppendFacts
      <3>2. Len(r) + 1 = n + 2
        BY <2>1, <2>2
      <3>3. QED
        BY <3>1, <3>2
    <2> HIDE DEF r, s, n
    <2>4. \A i \in 1..n : s[i] = q[i]
      BY <2>1, <2>3
    <2>5. s[n + 1].t = "halted" /\ ~s[n + 1].trip
      BY <1>3, <2>1, <2>3
    <2>6. ASSUME NEW i \in DOMAIN s, s[i].trip
          PROVE  x \in heard \/ \E j \in 1..(i - 1) : s[j].t = "halted"
      <3>1. i \in 1..n \/ i = n + 1 \/ i = n + 2
        BY <2>1, <2>3
      <3>2. CASE i \in 1..n
        <4>1. x \in heard \/ \E j \in 1..(i - 1) : q[j].t = "halted"
          BY <1>3, <2>1, <2>4, <2>6, <3>2 DEF Announced
        <4>2. \A j \in 1..(i - 1) : j \in 1..n
          BY <2>1, <3>2
        <4>3. QED
          BY <2>4, <4>1, <4>2
      <3>3. CASE i = n + 2
        <4>1. n + 1 \in 1..(i - 1)
          BY <2>1, <3>3
        <4>2. QED
          BY <2>5, <4>1
      <3>4. QED
        BY <2>5, <2>6, <3>1, <3>2, <3>3
    <2>7. QED
      BY <2>6 DEF Announced, r, s
  <1>4. ASSUME q # <<>>, Announced(q, x, heard)
        PROVE  /\ Head(q).t # "halted" => Announced(Tail(q), x, heard)
               /\ x \in heard => Announced(Tail(q), x, heard)
               /\ Head(q).trip => x \in heard
    <2> DEFINE r == Tail(q)
               now == x \in heard \/ Head(q).t = "halted"
    <2>1. /\ Len(q) \in Nat \ {0} /\ DOMAIN q = 1..Len(q) /\ Head(q) = q[1]
          /\ DOMAIN r = 1..(Len(q) - 1)
          /\ \A i \in DOMAIN r : r[i] = q[i + 1]
      BY <1>4, TailFacts
    <2> HIDE DEF r
    <2>2. Head(q).trip => x \in heard
      <3>1. 1 \in DOMAIN q /\ 1..(1 - 1) = {}
        BY <2>1
      <3>2. QED
        BY <1>4, <2>1, <3>1 DEF Announced
    <2>3. ASSUME NEW i \in DOMAIN r, r[i].trip
          PROVE  now \/ \E j \in 1..(i - 1) : r[j].t = "halted"
      <3>1. i \in Nat /\ i + 1 \in DOMAIN q /\ q[i + 1].trip
        BY <2>1, <2>3
      <3>2. CASE x \in heard
        BY <3>2
      <3>3. ASSUME NEW j \in 1..((i + 1) - 1), q[j].t = "halted"
            PROVE  now \/ \E k \in 1..(i - 1) : r[k].t = "halted"
        <4>1. CASE j = 1
          BY <2>1, <3>3, <4>1
        <4>2. CASE j # 1
          <5>1. j - 1 \in 1..(i - 1) /\ j - 1 \in DOMAIN r /\ (j - 1) + 1 = j
            BY <2>1, <3>1, <3>3, <4>2
          <5>2. QED
            BY <2>1, <3>3, <5>1
        <4>3. QED
          BY <4>1, <4>2
      <3>4. x \in heard \/ \E j \in 1..((i + 1) - 1) : q[j].t = "halted"
        BY <1>4, <3>1 DEF Announced
      <3>5. QED
        BY <3>2, <3>3, <3>4
    <2>4. QED
      BY <2>2, <2>3 DEF Announced, r
  <1>5. QED
    BY <1>2, <1>3, <1>4

LEMMA HaltsKept ==
    ASSUME NEW S, NEW q \in Seq(S), NEW halted \in BOOLEAN
    PROVE  /\ \A f \in S : f.t = "halt" => Halts(Append(q, f), halted)
           /\ \A f \in S : Halts(q, halted) /\ ~IsCommand(f) => Halts(Append(q, f), halted)
           /\ q # <<>> /\ Halts(q, halted) =>
                 Halts(Tail(q), IF Head(q).t = "halt" THEN TRUE
                                ELSE IF Head(q).t = "resume" THEN FALSE ELSE halted)
  <1>1. ASSUME NEW f \in S, f.t = "halt" PROVE Halts(Append(q, f), halted)
    <2> DEFINE r == Append(q, f)
    <2>1. /\ Len(q) \in Nat /\ DOMAIN r = 1..(Len(q) + 1) /\ r[Len(q) + 1] = f
      BY AppendFacts
    <2>2. Len(q) + 1 \in DOMAIN r /\ \A j \in DOMAIN r : j =< Len(q) + 1
      BY <2>1
    <2> HIDE DEF r
    <2>3. Halts(r, halted)
      BY <1>1, <2>1, <2>2 DEF Halts
    <2>4. QED
      BY <2>3 DEF r
  <1>2. ASSUME NEW f \in S, Halts(q, halted), ~IsCommand(f)
        PROVE  Halts(Append(q, f), halted)
    <2> DEFINE r == Append(q, f)
               n == Len(q) + 1
    <2>1. /\ DOMAIN r = DOMAIN q \cup {n} /\ \A i \in DOMAIN q : r[i] = q[i]
          /\ r[n] = f
      BY AppendFacts
    <2> HIDE DEF r, n
    <2>2. CASE halted /\ \A i \in DOMAIN q : ~IsCommand(q[i])
      BY <1>2, <2>1, <2>2 DEF Halts, r
    <2>3. CASE \E i \in DOMAIN q : /\ q[i].t = "halt"
                                   /\ \A j \in DOMAIN q : IsCommand(q[j]) => j =< i
      <3>1. PICK i \in DOMAIN q : /\ q[i].t = "halt"
                                 /\ \A j \in DOMAIN q : IsCommand(q[j]) => j =< i
        BY <2>3
      <3>2. \A j \in DOMAIN r : IsCommand(r[j]) => j \in DOMAIN q /\ j =< i
        BY <1>2, <2>1, <3>1
      <3>3. QED
        BY <2>1, <3>1, <3>2 DEF Halts, r
    <2>4. QED
      BY <1>2, <2>2, <2>3 DEF Halts
  <1>3. ASSUME q # <<>>, Halts(q, halted)
        PROVE  Halts(Tail(q), IF Head(q).t = "halt" THEN TRUE
                              ELSE IF Head(q).t = "resume" THEN FALSE ELSE halted)
    <2> DEFINE r == Tail(q)
    <2>1. /\ Len(q) \in Nat \ {0} /\ DOMAIN q = 1..Len(q) /\ Head(q) = q[1]
          /\ DOMAIN r = 1..(Len(q) - 1)
          /\ \A i \in DOMAIN r : r[i] = q[i + 1]
      BY <1>3, TailFacts
    <2>2. 1 \in DOMAIN q /\ \A i \in DOMAIN r : i + 1 \in DOMAIN q
      BY <2>1
    <2> HIDE DEF r
    <2>3. CASE halted /\ \A i \in DOMAIN q : ~IsCommand(q[i])
      <3>1. ~IsCommand(Head(q)) /\ \A i \in DOMAIN r : ~IsCommand(r[i])
        BY <2>1, <2>2, <2>3
      <3>2. QED
        BY <2>3, <3>1 DEF Halts, IsCommand, r
    <2>4. ASSUME NEW i \in DOMAIN q, q[i].t = "halt",
                 \A j \in DOMAIN q : IsCommand(q[j]) => j =< i
          PROVE  Halts(Tail(q), IF Head(q).t = "halt" THEN TRUE
                                ELSE IF Head(q).t = "resume" THEN FALSE ELSE halted)
      <3>1. CASE i = 1
        <4>1. \A j \in DOMAIN r : j + 1 \in DOMAIN q /\ ~(j + 1 =< i)
          BY <2>1, <2>2, <3>1
        <4>2. \A j \in DOMAIN r : ~IsCommand(r[j])
          BY <2>1, <2>4, <4>1
        <4>3. QED
          BY <2>1, <2>4, <3>1, <4>2 DEF Halts, r
      <3>2. CASE i # 1
        <4>1. i - 1 \in DOMAIN r /\ r[i - 1].t = "halt"
          <5>1. i - 1 \in DOMAIN r /\ (i - 1) + 1 = i
            BY <2>1, <3>2
          <5>2. QED
            BY <2>1, <2>4, <5>1
        <4>2. \A j \in DOMAIN r : IsCommand(r[j]) => j =< i - 1
          <5>1. \A j \in DOMAIN r : IsCommand(r[j]) => j + 1 =< i
            BY <2>1, <2>2, <2>4
          <5>2. QED
            BY <2>1, <5>1
        <4>3. QED
          BY <4>1, <4>2 DEF Halts, r
      <3>3. QED
        BY <3>1, <3>2
    <2>5. QED
      BY <1>3, <2>3, <2>4 DEF Halts
  <1>4. QED
    BY <1>1, <1>2, <1>3

\* The invariant's own words for it.
LEMMA WillBeHaltedIs ==
    ASSUME NEW S, NEW c \in Conns, toExt[c] \in Seq(S), ext.halted \in BOOLEAN
    PROVE  WillBeHalted(c) <=> Halts(toExt[c], ext.halted)
  <1>1. DOMAIN toExt[c] = 1..Len(toExt[c])
    BY LenProperties
  <1>2. QED
    BY <1>1 DEF WillBeHalted, Halts, IsCommand

(***************************************************************************)
(* The shape of the state.                                                  *)
(***************************************************************************)
Sent     == [t : Ops, rid : Nat]
AnswerRecord == [t : AnswerT, rid : Nat, epoch : Nat, trip : BOOLEAN]
Received == {a \in AnswerRecord : /\ a.t = "bad_config" => a.epoch = 0
                                  /\ a.trip => a.t = "result"}
Extensions == [up : BOOLEAN, epoch : Nat, counter : Nat, halted : BOOLEAN, stop : BOOLEAN]
Sessions == [state : {"waiting", "connected", "configured", "halted"},
             epoch : Nat, gen : Nat, conn : Conns \cup {None}, last : 0..MaxConn]
Calls == [pc : PCs, op : Ops \cup {None}, rid : Nat, gen : Nat,
          on : Conns \cup {0, None}, reply : Received \cup {None}]

Typed ==
    /\ toExt \in [Conns -> Seq(Sent)]
    /\ toHx \in [Conns -> Seq(Received)]
    /\ dial \in 0..MaxConn
    /\ ext \in Extensions
    /\ srv \in Sessions
    /\ serve \in [pc : {"accept", "read", "hello", "told", "reset"}, stood : BOOLEAN]
    /\ replies \subseteq Received
    /\ nextId \in Nat
    /\ durable \in BOOLEAN /\ standing \in BOOLEAN
    /\ caller \in [Callers -> Calls]

\* Who calls what, and what a call holds at each of its steps.
CallFits(c) ==
    /\ c \in Configurers =>
          caller[c].pc \in {"idle", "register", "write", "wait", "late", "commit"}
    /\ c \in Senders =>
          caller[c].pc \in {"idle", "register", "write", "wait", "late", "answered"}
    /\ c \in Operators =>
          caller[c].pc \in {"idle", "haltWrite", "haltCommit", "resumeCommit", "disarm"}
    /\ caller[c].pc \in {"register", "write", "wait", "commit"} =>
          IF c \in Configurers THEN caller[c].op \in {"configure", "misconfigure"}
                               ELSE caller[c].op = "send"
    /\ caller[c].pc \in {"register", "write"} => caller[c].on = 0
    /\ caller[c].pc \in {"wait", "commit"} => caller[c].on \in 1..srv.last
    /\ caller[c].pc \in {"commit", "answered"} => caller[c].reply \in Received

\* Which connection is which.
Places ==
    /\ srv.conn = None <=> serve.pc = "accept"
    /\ srv.conn # None => srv.conn = srv.last
    /\ srv.last =< dial
    /\ ext.up => dial \in Conns
    /\ srv.conn = None => srv.state = "waiting" /\ srv.epoch = 0
    /\ serve.pc \in {"hello", "told"} => srv.state # "waiting"
    /\ srv.state = "waiting" /\ srv.conn # None => Greets(toHx[srv.conn])
    /\ \A c \in Conns : HelloFirst(toHx[c])
    /\ \A c \in Conns : c > srv.last => toExt[c] = <<>>
    /\ \A c \in Conns : c > dial => toHx[c] = <<>>
    /\ \A c \in Conns : c > srv.last /\ c =< dial =>
          Greets(toHx[c]) /\ NoConfigAnswer(toHx[c])
    /\ dial > srv.last /\ ext.up => ext.epoch = 0
    /\ \A c \in Callers : caller[c].gen =< srv.gen

Shaped == Typed /\ Places /\ \A c \in Callers : CallFits(c)

LEMMA RecordsFit ==
    /\ NoExt \in Extensions /\ NoCall \in Calls
    /\ NoCall.pc = "idle" /\ NoCall.gen = 0 /\ NoCall.on = 0 /\ NoCall.rid = 0
    /\ NoServe.pc = "accept" /\ NoServe.stood = FALSE
    /\ ~NoExt.up /\ NoExt.epoch = 0 /\ NoExt.counter = 0 /\ ~NoExt.halted
  BY DEF NoExt, NoCall, NoServe, Extensions, Calls, PCs

LEMMA AnswerFits ==
    /\ \A t \in AnswerT, rid, epoch \in Nat :
          t # "bad_config" => Answer(t, rid, epoch, FALSE) \in Received
    /\ \A rid \in Nat : Answer("bad_config", rid, 0, FALSE) \in Received
    /\ \A rid, epoch \in Nat : Answer("result", rid, epoch, TRUE) \in Received
    /\ \A t \in Ops, rid \in Nat : Frame(t, rid) \in Sent
  BY DEF Answer, Frame, Received, AnswerRecord, AnswerT, Sent

LEMMA ShapedInit == Init => Shaped
  <1> SUFFICES ASSUME Init PROVE Shaped
    OBVIOUS
  <1>1. Typed
    <2>1. /\ toExt \in [Conns -> Seq(Sent)] /\ toHx \in [Conns -> Seq(Received)]
          /\ dial \in 0..MaxConn /\ ext \in Extensions
      BY RecordsFit, BridgeAssumption DEF Init
    <2>2. srv \in Sessions
      BY BridgeAssumption DEF Init, Sessions
    <2>3. /\ serve \in [pc : {"accept", "read", "hello", "told", "reset"}, stood : BOOLEAN]
          /\ caller \in [Callers -> Calls]
      BY RecordsFit DEF Init, NoServe
    <2>4. QED
      BY <2>1, <2>2, <2>3 DEF Init, Typed
  <1>2. Places
    BY RecordsFit, BridgeAssumption DEF Init, Places, HelloFirst, Conns
  <1>3. \A c \in Callers : CallFits(c)
    BY RecordsFit DEF Init, CallFits
  <1>4. QED
    BY <1>1, <1>2, <1>3 DEF Shaped

LEMMA TwoMore ==
    ASSUME NEW S, NEW q \in Seq(S), NEW h \in S, NEW a \in S
    PROVE  q \o <<h, a>> = Append(Append(q, h), a)
  <1> DEFINE two == <<h, a>>
  <1>1. two \in Seq(S) /\ Len(two) = 2 /\ two[1] = h /\ two[2] = a
    OBVIOUS
  <1> HIDE DEF two
  <1>2. /\ q \o two \in Seq(S) /\ Len(q \o two) = Len(q) + 2
        /\ \A i \in 1..(Len(q) + 2) :
              (q \o two)[i] = IF i =< Len(q) THEN q[i] ELSE two[i - Len(q)]
    <2>1. /\ q \o two \in Seq(S) /\ Len(q \o two) = Len(q) + Len(two)
          /\ \A i \in 1..(Len(q) + Len(two)) :
                (q \o two)[i] = IF i =< Len(q) THEN q[i] ELSE two[i - Len(q)]
      BY <1>1, ConcatProperties, Zenon
    <2>2. QED
      BY <1>1, <2>1
  <1>3. /\ Append(q, h) \in Seq(S) /\ Len(Append(q, h)) = Len(q) + 1
        /\ \A i \in 1..Len(q) : Append(q, h)[i] = q[i]
        /\ Append(q, h)[Len(q) + 1] = h
    BY AppendProperties
  <1> DEFINE r == Append(q, h)
             s == Append(r, a)
  <1>4. /\ s \in Seq(S) /\ Len(s) = Len(r) + 1
        /\ \A i \in 1..Len(r) : s[i] = r[i]
        /\ s[Len(r) + 1] = a
    BY <1>3, AppendProperties
  <1>5. Len(q) \in Nat
    BY LenProperties
  <1> HIDE DEF s
  <1>6. \A i \in 1..(Len(q) + 2) : (q \o two)[i] = s[i]
    <2> TAKE i \in 1..(Len(q) + 2)
    <2>1. i =< Len(q) \/ i = Len(q) + 1 \/ i = Len(q) + 2
      BY <1>5
    <2>2. CASE i =< Len(q)
      BY SMTT(30), <1>2, <1>3, <1>4, <1>5, <2>2
    <2>3. CASE i = Len(q) + 1
      <3>1. i - Len(q) = 1 /\ ~(i =< Len(q)) /\ i \in 1..Len(r)
        BY <1>3, <1>5, <2>3
      <3>2. QED
        BY <1>1, <1>2, <1>3, <1>4, <2>3, <3>1
    <2>4. CASE i = Len(q) + 2
      <3>1. i - Len(q) = 2 /\ ~(i =< Len(q)) /\ i = Len(r) + 1
        BY <1>3, <1>5, <2>4
      <3>2. QED
        BY <1>1, <1>2, <1>4, <3>1
    <2>5. QED
      BY <2>1, <2>2, <2>3, <2>4
  <1>7. Len(q \o two) = Len(s)
    BY <1>2, <1>3, <1>4, <1>5
  <1>8. q \o two = s
    <2>1. \A i \in 1..Len(q \o two) : (q \o two)[i] = s[i]
      BY <1>2, <1>6
    <2>2. QED
      BY <1>2, <1>4, <1>7, <2>1, SeqEqual
  <1>9. QED
    BY <1>8 DEF s, two
\* One frame the extension handles, by what becomes of the wires and of itself.
LEMMA HandleIs ==
    ASSUME Shaped, ExtHandle
    PROVE  /\ ext.up /\ dial \in Conns /\ toExt[dial] # <<>> /\ dial =< srv.last
           /\ Head(toExt[dial]) \in Sent
           /\ toExt' = [toExt EXCEPT ![dial] = Tail(toExt[dial])]
           /\ LET f == Head(toExt[dial]) IN
              \/ ext' = NoExt /\ toHx' = toHx
              \/ /\ IsCommand(f) /\ toHx' = toHx
                 /\ ext' = [ext EXCEPT !.halted = (f.t = "halt")]
              \/ \E a \in Received :
                    /\ a.rid = f.rid /\ ~a.trip
                    /\ toHx' = [toHx EXCEPT ![dial] = Append(toHx[dial], a)]
                    /\ \/ /\ IsConfig(f) /\ IsConfigAnswer(a)
                          /\ ext'.epoch = a.epoch /\ ext'.counter \in Nat
                          /\ a.epoch =< ext'.counter /\ ext.counter =< ext'.counter
                          /\ ext' \in Extensions /\ ext'.up /\ ext'.halted = ext.halted
                       \/ /\ f.t = "send" /\ a.t \in {"error", "result"}
                          /\ a.epoch \in {0, ext.epoch} /\ ext' = ext
              \/ \E h, a \in Received :
                    /\ f.t = "send" /\ h.t = "halted" /\ ~h.trip /\ h.rid = 0 /\ h.epoch = 0
                    /\ a.t = "result" /\ a.rid = f.rid /\ a.epoch = ext.epoch
                    /\ toHx' = [toHx EXCEPT ![dial] = Append(Append(toHx[dial], h), a)]
                    /\ ext' = [ext EXCEPT !.stop = TRUE]
  <1> DEFINE f == Head(toExt[dial])
             q == toHx[dial]
  <1>1. /\ ext.up /\ toExt[dial] # <<>>
        /\ toExt' = [toExt EXCEPT ![dial] = Tail(toExt[dial])]
    BY DEF ExtHandle
  <1>2. dial \in Conns /\ dial \in Nat /\ srv.last \in Nat /\ ext \in Extensions
    BY <1>1, BridgeAssumption DEF Shaped, Places, Typed, Sessions, Conns
  <1>3. dial =< srv.last
    BY <1>1, <1>2 DEF Shaped, Places
  <1>4. f \in Sent /\ q \in Seq(Received)
    <2>1. toExt[dial] \in Seq(Sent) /\ q \in Seq(Received)
      BY <1>2 DEF Shaped, Typed
    <2>2. QED
      BY <1>1, <2>1, TailFacts
  <1>5. f.rid \in Nat /\ ext.epoch \in Nat /\ ext.counter \in Nat
    BY <1>2, <1>4 DEF Sent, Extensions
  <1>6. CASE f.t \in {"halt", "resume"} /\ ext' = [ext EXCEPT !.halted = (f.t = "halt")]
             /\ UNCHANGED toHx
    BY <1>1, <1>2, <1>3, <1>4, <1>6 DEF IsCommand
  <1>7. CASE ext' = NoExt /\ UNCHANGED toHx
    BY <1>1, <1>2, <1>3, <1>4, <1>7
  <1>8. CASE f.t \in {"configure", "misconfigure"} /\ OnConfigure(f) /\ dial \in open
    <2>1. \A a \in Received : q \o <<a>> = Append(q, a)
      BY <1>4
    <2>2. CASE f.t = "configure"
      <3> DEFINE a == Answer("configured", f.rid, ext.counter + 1, FALSE)
      <3>1. a \in Received /\ a.rid = f.rid /\ ~a.trip /\ a.t = "configured"
            /\ a.epoch = ext.counter + 1
        BY <1>5, AnswerFits DEF Answer, AnswerT
      <3>2. toHx' = [toHx EXCEPT ![dial] = Append(toHx[dial], a)]
        BY <1>8, <2>1, <2>2, <3>1 DEF OnConfigure, Emit
      <3>3. ext' = [ext EXCEPT !.epoch = ext.counter + 1, !.counter = ext.counter + 1]
        BY <1>8, <2>2 DEF OnConfigure, Emit
      <3>4. /\ ext'.epoch = ext.counter + 1 /\ ext'.counter = ext.counter + 1
            /\ ext' \in Extensions /\ ext'.up /\ ext'.halted = ext.halted
        <4>1. ext.counter + 1 \in Nat
          BY <1>5
        <4>2. QED
          BY <1>1, <1>2, <3>3, <4>1 DEF Extensions
      <3> HIDE DEF a
      <3>5. /\ IsConfig(f) /\ IsConfigAnswer(a)
            /\ ext'.epoch = a.epoch /\ ext'.counter \in Nat
            /\ a.epoch =< ext'.counter /\ ext.counter =< ext'.counter
        BY <1>5, <2>2, <3>1, <3>4 DEF IsConfig, IsConfigAnswer
      <3>6. QED
        BY <1>1, <1>2, <1>3, <1>4, <3>1, <3>2, <3>4, <3>5
    <2>3. CASE f.t # "configure"
      <3> DEFINE a == Answer("bad_config", f.rid, 0, FALSE)
      <3>1. a \in Received /\ a.rid = f.rid /\ ~a.trip /\ a.t = "bad_config"
            /\ a.epoch = 0
        BY <1>5, AnswerFits DEF Answer, AnswerT
      <3>2. toHx' = [toHx EXCEPT ![dial] = Append(toHx[dial], a)]
        BY <1>8, <2>1, <2>3, <3>1 DEF OnConfigure, Emit
      <3>3. ext' = [ext EXCEPT !.epoch = 0]
        BY <1>8, <2>3 DEF OnConfigure, Emit
      <3>4. /\ ext'.epoch = 0 /\ ext'.counter = ext.counter
            /\ ext' \in Extensions /\ ext'.up /\ ext'.halted = ext.halted
        BY <1>1, <1>2, <1>5, <3>3 DEF Extensions
      <3> HIDE DEF a
      <3>5. /\ IsConfig(f) /\ IsConfigAnswer(a)
            /\ ext'.epoch = a.epoch /\ ext'.counter \in Nat
            /\ a.epoch =< ext'.counter /\ ext.counter =< ext'.counter
        BY <1>5, <1>8, <3>1, <3>4 DEF IsConfig, IsConfigAnswer
      <3>6. QED
        BY <1>1, <1>2, <1>3, <1>4, <3>1, <3>2, <3>4, <3>5
    <2>4. QED
      BY <2>2, <2>3
  <1>9. CASE f.t = "send" /\ OnSend(f) /\ dial \in open
    <2>1. \A a \in Received : q \o <<a>> = Append(q, a)
      BY <1>4
    <2>2. CASE Emit(<<Answer("error", f.rid, 0, FALSE)>>, ext)
      <3> DEFINE a == Answer("error", f.rid, 0, FALSE)
      <3>1. a \in Received /\ a.rid = f.rid /\ ~a.trip /\ a.t = "error" /\ a.epoch = 0
        BY <1>5, AnswerFits DEF Answer, AnswerT
      <3>2. toHx' = [toHx EXCEPT ![dial] = Append(toHx[dial], a)] /\ ext' = ext
        BY <1>9, <2>1, <2>2, <3>1 DEF Emit
      <3>3. QED
        BY <1>1, <1>2, <1>3, <1>4, <1>9, <3>1, <3>2
    <2>3. CASE Emit(<<Answer("result", f.rid, ext.epoch, FALSE)>>, ext)
      <3> DEFINE a == Answer("result", f.rid, ext.epoch, FALSE)
      <3>1. a \in Received /\ a.rid = f.rid /\ ~a.trip /\ a.t = "result"
            /\ a.epoch = ext.epoch
        BY <1>5, AnswerFits DEF Answer, AnswerT
      <3>2. toHx' = [toHx EXCEPT ![dial] = Append(toHx[dial], a)] /\ ext' = ext
        BY <1>9, <2>1, <2>3, <3>1 DEF Emit
      <3> HIDE DEF a
      <3>3. a.epoch \in {0, ext.epoch} /\ a.t \in {"error", "result"}
        BY <3>1
      <3>4. \E b \in Received :
               /\ b.rid = f.rid /\ ~b.trip
               /\ toHx' = [toHx EXCEPT ![dial] = Append(toHx[dial], b)]
               /\ \/ /\ IsConfig(f) /\ IsConfigAnswer(b)
                     /\ ext'.epoch = b.epoch /\ ext'.counter \in Nat
                     /\ b.epoch =< ext'.counter /\ ext.counter =< ext'.counter
                     /\ ext' \in Extensions /\ ext'.up /\ ext'.halted = ext.halted
                  \/ /\ f.t = "send" /\ b.t \in {"error", "result"}
                     /\ b.epoch \in {0, ext.epoch} /\ ext' = ext
        <4> HIDE DEF f
        <4>1. QED
          BY <1>9, <3>1, <3>2, <3>3
      <3>5. QED
        BY <1>1, <1>2, <1>3, <1>4, <3>4, Zenon
    <2>4. CASE Emit(<<Answer("halted", 0, 0, FALSE), Answer("result", f.rid, ext.epoch, TRUE)>>,
                    [ext EXCEPT !.stop = TRUE])
      <3> DEFINE h == Answer("halted", 0, 0, FALSE)
                 a == Answer("result", f.rid, ext.epoch, TRUE)
      <3>1. /\ a \in Received /\ a.rid = f.rid /\ a.t = "result" /\ a.epoch = ext.epoch
            /\ h \in Received /\ h.t = "halted" /\ ~h.trip /\ h.rid = 0 /\ h.epoch = 0
        BY <1>5, AnswerFits DEF Answer, AnswerT
      <3>2. q \o <<h, a>> = Append(Append(q, h), a)
        <4> HIDE DEF q, h, a
        <4>1. QED
          BY <1>4, <3>1, TwoMore
      <3>3. /\ toHx' = [toHx EXCEPT ![dial] = Append(Append(toHx[dial], h), a)]
            /\ ext' = [ext EXCEPT !.stop = TRUE]
        BY <1>9, <2>4, <3>2 DEF Emit
      <3>4. QED
        BY <1>1, <1>2, <1>3, <1>4, <1>9, <3>1, <3>3
    <2>5. QED
      BY <1>9, <2>2, <2>3, <2>4 DEF OnSend
  <1>10. \/ f.t \in {"configure", "misconfigure"} /\ OnConfigure(f)
         \/ f.t = "send" /\ OnSend(f)
         \/ f.t = "halt" /\ ext' = [ext EXCEPT !.halted = TRUE] /\ UNCHANGED toHx
         \/ f.t = "resume" /\ ext' = [ext EXCEPT !.halted = FALSE] /\ UNCHANGED toHx
    BY DEF ExtHandle
  <1>11. CASE dial \notin open
    BY <1>6, <1>7, <1>10, <1>11 DEF OnConfigure, OnSend, Emit
  <1>12. QED
    BY <1>6, <1>8, <1>9, <1>10, <1>11

LEMMA OneFrame ==
    ASSUME NEW S, NEW a \in S
    PROVE  /\ <<a>> \in Seq(S) /\ <<a>> # <<>>
           /\ DOMAIN <<a>> = {1} /\ <<a>>[1] = a
  OBVIOUS

\* A frame hx reads.
LEMMA ReadIs ==
    ASSUME Shaped, NEW t, Read(t)
    PROVE  /\ srv.conn \in Conns /\ toHx[srv.conn] \in Seq(Received)
           /\ srv.conn \in Nat /\ srv.last \in Nat /\ dial \in Nat
           /\ srv.conn = srv.last /\ srv.conn =< dial
           /\ toHx[srv.conn] # <<>> /\ Head(toHx[srv.conn]) \in Received
           /\ Head(toHx[srv.conn]).t \in t
           /\ toHx' = [toHx EXCEPT ![srv.conn] = Tail(toHx[srv.conn])]
           /\ Tail(toHx[srv.conn]) \in Seq(Received)
           /\ toHx' \in [Conns -> Seq(Received)]
           /\ serve.pc = "read"
           /\ UNCHANGED <<toExt, open, dial, ext>>
  <1>1. srv.conn \in Conns
    BY DEF Read, Shaped, Typed, Places, Sessions
  <1>2. toHx[srv.conn] \in Seq(Received) /\ toHx[srv.conn] # <<>>
    BY <1>1 DEF Read, Shaped, Typed
  <1>3. Head(toHx[srv.conn]) \in Received /\ Tail(toHx[srv.conn]) \in Seq(Received)
    BY <1>2, TailFacts
  <1>4. /\ srv.conn \in Nat /\ srv.last \in Nat /\ dial \in Nat
        /\ srv.conn = srv.last /\ srv.conn =< dial
    BY <1>1, BridgeAssumption DEF Shaped, Typed, Places, Sessions, Conns
  <1>5. toHx' = [toHx EXCEPT ![srv.conn] = Tail(toHx[srv.conn])]
    BY DEF Read
  <1>6. toHx' \in [Conns -> Seq(Received)]
    BY <1>1, <1>3, <1>5 DEF Shaped, Typed
  <1>7. QED
    BY <1>1, <1>2, <1>3, <1>4, <1>5, <1>6 DEF Read

\* A frame hx writes, or does not.
LEMMA WrittenIs ==
    ASSUME Shaped, NEW c \in Callers, NEW f \in Sent, NEW next, Written(c, f, next)
    PROVE  \/ /\ srv.conn \in Conns /\ srv.conn \in Nat
              /\ toExt[srv.conn] \in Seq(Sent)
              /\ toExt' = [toExt EXCEPT ![srv.conn] = Append(toExt[srv.conn], f)]
              /\ Append(toExt[srv.conn], f) \in Seq(Sent)
              /\ caller' = [caller EXCEPT ![c] = next]
           \/ /\ srv.conn = None \/ ~(ext.up /\ dial = srv.conn)
              /\ toExt' = toExt
              /\ caller' = [caller EXCEPT ![c] = NoCall]
  <1>1. CASE srv.conn # None /\ toExt' = [toExt EXCEPT ![srv.conn] = Append(@, f)]
             /\ Goes(c, next)
    <2>1. srv.conn \in Conns /\ srv.conn \in Nat
      BY <1>1, BridgeAssumption DEF Shaped, Typed, Sessions, Conns
    <2>2. toExt[srv.conn] \in Seq(Sent)
      BY <2>1 DEF Shaped, Typed
    <2>3. Append(toExt[srv.conn], f) \in Seq(Sent)
      BY <2>2, AppendProperties
    <2>4. QED
      BY <1>1, <2>1, <2>2, <2>3 DEF Goes
  <1>2. QED
    BY <1>1 DEF Written, Goes

\* What is written has the types of what was there.
LEMMA WrittenFits ==
    ASSUME Shaped, NEW c \in Callers, NEW f \in Sent, NEW next \in Calls, Written(c, f, next)
    PROVE  toExt' \in [Conns -> Seq(Sent)] /\ caller' \in [Callers -> Calls]
  <1>1. toExt \in [Conns -> Seq(Sent)] /\ caller \in [Callers -> Calls]
    BY DEF Shaped, Typed
  <1>2. CASE /\ Append(toExt[srv.conn], f) \in Seq(Sent)
             /\ toExt' = [toExt EXCEPT ![srv.conn] = Append(toExt[srv.conn], f)]
             /\ caller' = [caller EXCEPT ![c] = next]
    BY <1>1, <1>2
  <1>3. CASE toExt' = toExt /\ caller' = [caller EXCEPT ![c] = NoCall]
    BY <1>1, <1>3, RecordsFit
  <1>4. QED
    BY <1>2, <1>3, WrittenIs

\* A call that goes on is a call.
LEMMA CallGoes ==
    ASSUME Shaped, NEW c \in Callers, NEW next \in Calls, caller' = [caller EXCEPT ![c] = next]
    PROVE  /\ caller' \in [Callers -> Calls]
           /\ caller'[c] = next
           /\ \A d \in Callers : d # c => caller'[d] = caller[d]
  BY DEF Shaped, Typed

LEMMA TypedStep == Shaped /\ [Next]_vars => Typed'
  <1> SUFFICES ASSUME Shaped, [Next]_vars PROVE Typed'
    OBVIOUS
  <1> USE DEF Shaped
  <1>1. CASE Dial
    <2>1. dial + 1 \in Conns /\ dial + 1 \in 0..MaxConn
      BY <1>1, BridgeAssumption DEF Dial, Typed, Conns
    <2>2. <<Answer("hello", 0, 0, FALSE)>> \in Seq(Received)
      <3>1. Answer("hello", 0, 0, FALSE) \in Received
        BY AnswerFits DEF AnswerT
      <3>2. QED
        BY <3>1, OneFrame
    <2>3. toHx' \in [Conns -> Seq(Received)]
      BY <1>1, <2>1, <2>2 DEF Dial, Typed
    <2>4. [NoExt EXCEPT !.up = TRUE] \in Extensions
      BY RecordsFit DEF Extensions
    <2>5. QED
      BY <1>1, <2>1, <2>3, <2>4 DEF Dial, Typed, callVars, ghostVars
  <1>2. CASE ExtDies
    BY <1>2, RecordsFit DEF ExtDies, Typed, callVars, ghostVars
  <1>3. CASE ExtHandle
    <2> DEFINE f == Head(toExt[dial])
    <2>1. /\ dial \in Conns /\ toExt[dial] # <<>>
          /\ toExt[dial] \in Seq(Sent) /\ toHx[dial] \in Seq(Received)
      BY <1>3, HandleIs DEF Typed
    <2>2. toExt' \in [Conns -> Seq(Sent)]
      <3>1. Tail(toExt[dial]) \in Seq(Sent)
        BY <2>1, TailFacts
      <3>2. QED
        BY <1>3, <3>1, HandleIs DEF Typed
    <2>3. toHx' \in [Conns -> Seq(Received)] /\ ext' \in Extensions
      <3>1. CASE ext' = NoExt /\ toHx' = toHx
        BY <3>1, RecordsFit DEF Typed
      <3>2. CASE toHx' = toHx /\ ext' = [ext EXCEPT !.halted = (f.t = "halt")]
        BY <3>2 DEF Typed, Extensions
      <3>3. ASSUME NEW a \in Received, ext' \in Extensions,
                   toHx' = [toHx EXCEPT ![dial] = Append(toHx[dial], a)]
            PROVE  toHx' \in [Conns -> Seq(Received)] /\ ext' \in Extensions
        <4>1. Append(toHx[dial], a) \in Seq(Received)
          BY <2>1, AppendProperties
        <4>2. QED
          BY <3>3, <4>1 DEF Typed
      <3>4. ASSUME NEW h \in Received, NEW a \in Received, ext' = [ext EXCEPT !.stop = TRUE],
                   toHx' = [toHx EXCEPT ![dial] = Append(Append(toHx[dial], h), a)]
            PROVE  toHx' \in [Conns -> Seq(Received)] /\ ext' \in Extensions
        <4>1. Append(toHx[dial], h) \in Seq(Received)
          BY <2>1, AppendProperties
        <4>2. Append(Append(toHx[dial], h), a) \in Seq(Received)
          BY <4>1, AppendProperties
        <4>3. QED
          BY <3>4, <4>2 DEF Typed, Extensions
      <3>5. ext \in Extensions
        BY DEF Typed
      <3>6. QED
        BY <1>3, <3>1, <3>2, <3>3, <3>4, <3>5, HandleIs
    <2>4. QED
      BY <1>3, <2>2, <2>3 DEF ExtHandle, Typed, callVars, ghostVars
  <1>4. CASE Accept
    <2>1. srv.last + 1 \in Conns /\ srv.last + 1 \in 0..MaxConn /\ srv.gen + 1 \in Nat
      BY <1>4, BridgeAssumption DEF Accept, Typed, Sessions, Conns
    <2>2. srv' \in Sessions /\ serve' = [serve EXCEPT !.pc = "read"]
      BY <1>4, <2>1 DEF Accept, Typed, Sessions
    <2>3. QED
      BY <1>4, <2>2 DEF Accept, Typed, wireVars, callVars, ghostVars
  <1>5. CASE Hello
    <2>1. toHx' \in [Conns -> Seq(Received)] /\ UNCHANGED <<toExt, dial, ext>>
      <3>1. Read({"hello"})
        BY <1>5 DEF Hello
      <3>2. QED
        BY <3>1, ReadIs
    <2>2. srv' \in Sessions
      BY <1>5 DEF Hello, Typed, Sessions
    <2>3. QED
      BY <1>5, <2>1, <2>2 DEF Hello, Typed, callVars, ghostVars
  <1>6. CASE Reassert
    <2>1. serve' \in [pc : {"accept", "read", "hello", "told", "reset"}, stood : BOOLEAN]
      BY <1>6 DEF Reassert, Typed
    <2>2. toExt' \in [Conns -> Seq(Sent)]
      <3>1. CASE toExt' = toExt
        BY <3>1 DEF Typed
      <3>2. CASE toExt' = [toExt EXCEPT ![srv.conn] = Append(@, Frame("halt", 0))]
        <4>1. srv.conn \in Conns
          BY <1>6 DEF Reassert, Typed, Places, Sessions
        <4>2. Append(toExt[srv.conn], Frame("halt", 0)) \in Seq(Sent)
          BY <4>1, AnswerFits, AppendProperties DEF Typed, Ops
        <4>3. QED
          BY <3>2, <4>2 DEF Typed
      <3>3. QED
        BY <1>6, <3>1, <3>2 DEF Reassert
    <2>3. QED
      BY <1>6, <2>1, <2>2 DEF Reassert, Typed, callVars, ghostVars
  <1>7. CASE ReassertCommit
    BY <1>7 DEF ReassertCommit, Typed, Sessions, wireVars, callVars, ghostVars
  <1>8. CASE OnHalted
    <2>1. toHx' \in [Conns -> Seq(Received)] /\ UNCHANGED <<toExt, dial, ext>>
      <3>1. Read({"halted"})
        BY <1>8 DEF OnHalted
      <3>2. QED
        BY <3>1, ReadIs
    <2>2. srv' \in Sessions
      BY <1>8 DEF OnHalted, Typed, Sessions
    <2>3. QED
      BY <1>8, <2>1, <2>2 DEF OnHalted, Typed, callVars, ghostVars
  <1>9. CASE Deliver
    <2>1. toHx' \in [Conns -> Seq(Received)] /\ UNCHANGED <<toExt, dial, ext>>
          /\ Head(toHx[srv.conn]) \in Received
      <3>1. Read({"configured", "bad_config", "result", "error"})
        BY <1>9 DEF Deliver
      <3>2. QED
        BY <3>1, ReadIs
    <2>2. replies' \subseteq Received
      BY <1>9, <2>1 DEF Deliver, Typed
    <2>3. QED
      BY <1>9, <2>1, <2>2 DEF Deliver, Typed, callVars, ghostVars
  <1>10. CASE PeerGone
    BY <1>10 DEF PeerGone, Typed, wireVars, callVars, ghostVars
  <1>11. CASE Reset
    <2>1. srv.gen + 1 \in Nat
      BY DEF Typed, Sessions
    <2>2. srv' \in Sessions
      BY <1>11, <2>1 DEF Reset, Typed, Sessions
    <2>3. QED
      BY <1>11, <2>2, RecordsFit DEF Reset, Typed, NoServe, ghostVars
  <1>12. CASE HaltByHand
    BY <1>12 DEF HaltByHand, Typed, wireVars, callVars, ghostVars
  <1>13. ASSUME NEW c \in Configurers, NEW op \in {"configure", "misconfigure"}, BeginConfigure(c, op)
        PROVE  Typed'
    <2>1. caller' \in [Callers -> Calls]
      BY <1>13, RecordsFit DEF BeginConfigure, Goes, Typed, Calls, PCs, Callers, NoCall, Ops, Sessions
    <2>2. QED
      BY <1>13, <2>1 DEF BeginConfigure, Typed, wireVars, callVars, ghostVars
  <1>14. ASSUME NEW c \in Senders, BeginSend(c)
        PROVE  Typed'
    <2>1. caller' \in [Callers -> Calls]
      BY <1>14, RecordsFit DEF BeginSend, Goes, Typed, Calls, PCs, Callers, NoCall, Ops, Sessions
    <2>2. QED
      BY <1>14, <2>1 DEF BeginSend, Typed, wireVars, callVars, ghostVars
  <1>15. ASSUME NEW c \in Configurers \cup Senders, Register(c)
        PROVE  Typed'
    <2>1. nextId + 1 \in Nat
      BY DEF Typed
    <2>2. caller' \in [Callers -> Calls]
      <3>1. caller' = [caller EXCEPT ![c] = [caller[c] EXCEPT !.pc = "write", !.rid = nextId + 1]]
        BY <1>15 DEF Register, Goes
      <3>2. c \in Callers /\ caller[c] \in Calls
        BY DEF Typed, Callers
      <3>3. "write" \in PCs
        BY DEF PCs
      <3>4. [caller[c] EXCEPT !.pc = "write", !.rid = nextId + 1] \in Calls
        BY <2>1, <3>2, <3>3 DEF Calls
      <3>5. QED
        BY <3>1, <3>4 DEF Typed
    <2>3. QED
      BY <1>15, <2>1, <2>2 DEF Register, Typed, wireVars, ghostVars
  <1>16. ASSUME NEW c \in Configurers \cup Senders, WriteRequest(c)
        PROVE  Typed'
    <2> DEFINE next == [caller[c] EXCEPT !.pc = "wait", !.on = srv.conn]
    <2>1. c \in Callers /\ next \in Calls /\ NoCall \in Calls
      BY <1>16, RecordsFit, BridgeAssumption DEF WriteRequest, Callers, Typed, Calls, PCs, Ops, Sessions
    <2>2. Frame(caller[c].op, caller[c].rid) \in Sent
      BY <1>16, <2>1, AnswerFits DEF WriteRequest, Typed, Calls, Ops, CallFits
    <2>3. Written(c, Frame(caller[c].op, caller[c].rid), next)
      BY <1>16 DEF WriteRequest
    <2> HIDE DEF next
    <2>4. toExt' \in [Conns -> Seq(Sent)] /\ caller' \in [Callers -> Calls]
      BY <2>1, <2>2, <2>3, WrittenFits
    <2>5. QED
      BY <1>16, <2>4 DEF WriteRequest, Typed, callVars, ghostVars
  <1>17. ASSUME NEW c \in Configurers \cup Senders, Collect(c)
        PROVE  Typed'
    <2>1. c \in Callers
      BY DEF Callers
    <2>2. replies' \subseteq Received
      BY <1>17 DEF Collect, Typed
    <2>3. caller' \in [Callers -> Calls]
      <3>1. CASE Goes(c, NoCall)
        BY <2>1, <3>1, RecordsFit DEF Goes, Typed
      <3>2. ASSUME NEW f \in replies,
                   Goes(c, [caller[c] EXCEPT !.pc = IF caller[c].op = "send" THEN "answered"
                                                                             ELSE "commit",
                                             !.reply = f])
            PROVE  caller' \in [Callers -> Calls]
        <4>1. f \in Received
          BY DEF Typed
        <4>2. \A pc \in PCs : [caller[c] EXCEPT !.pc = pc, !.reply = f] \in Calls
          BY ZenonT(60), <2>1, <4>1 DEF Typed, Calls
        <4>3. (IF caller[c].op = "send" THEN "answered" ELSE "commit") \in PCs
          BY DEF PCs
        <4>4. QED
          BY <2>1, <3>2, <4>2, <4>3 DEF Goes, Typed
      <3>3. QED
        BY <1>17, <3>1, <3>2 DEF Collect
    <2>4. QED
      BY <1>17, <2>2, <2>3 DEF Collect, Typed, wireVars
  <1>18. ASSUME NEW c \in Configurers \cup Senders, Timeout(c)
        PROVE  Typed'
    <2>1. caller' \in [Callers -> Calls]
      <3>1. caller' = [caller EXCEPT ![c] = [caller[c] EXCEPT !.pc = "late"]]
        BY <1>18 DEF Timeout, Goes
      <3>2. c \in Callers /\ caller[c] \in Calls
        BY DEF Typed, Callers
      <3>3. "late" \in PCs
        BY DEF PCs
      <3>4. [caller[c] EXCEPT !.pc = "late"] \in Calls
        BY <3>2, <3>3 DEF Calls
      <3>5. QED
        BY <3>1, <3>4 DEF Typed
    <2>2. QED
      BY <1>18, <2>1 DEF Timeout, Typed, wireVars, callVars
  <1>19. ASSUME NEW c \in Configurers \cup Senders, GiveUp(c)
        PROVE  Typed'
    <2>1. caller' \in [Callers -> Calls]
      BY <1>19, RecordsFit DEF GiveUp, Goes, Typed, Calls, PCs, Callers, NoCall, Ops, Sessions
    <2>2. QED
      BY <1>19, <2>1 DEF GiveUp, Typed, wireVars, ghostVars
  <1>20. ASSUME NEW c \in Configurers \cup Senders, Return(c)
        PROVE  Typed'
    <2>1. caller' \in [Callers -> Calls]
      BY <1>20, RecordsFit DEF Return, Goes, Typed, Calls, PCs, Callers, NoCall, Ops, Sessions
    <2>2. QED
      BY <1>20, <2>1 DEF Return, Typed, wireVars, callVars, ghostVars
  <1>21. ASSUME NEW c \in Configurers \cup Senders, CommitConfigure(c)
        PROVE  Typed'
    <2>1. c \in Callers /\ caller[c].reply \in Received
      BY <1>21 DEF CommitConfigure, Callers, CallFits
    <2>2. caller[c].reply.epoch \in Nat
      BY <2>1 DEF Received, AnswerRecord
    <2>3. srv' \in Sessions
      BY <1>21, <2>2 DEF CommitConfigure, Typed, Sessions
    <2>4. caller' \in [Callers -> Calls]
      BY <1>21, <2>1, RecordsFit DEF CommitConfigure, Goes, Typed
    <2>5. QED
      BY <1>21, <2>3, <2>4 DEF CommitConfigure, Typed, wireVars, callVars
  <1>22. ASSUME NEW c \in Operators, HaltArm(c)
        PROVE  Typed'
    <2>1. caller' \in [Callers -> Calls]
      BY <1>22, RecordsFit DEF HaltArm, Goes, Typed, Calls, PCs, Callers, NoCall, Ops, Sessions
    <2>2. QED
      BY <1>22, <2>1 DEF HaltArm, Typed, wireVars, callVars, ghostVars
  <1>23. ASSUME NEW c \in Operators, HaltWrite(c)
        PROVE  Typed'
    <2> DEFINE next == [caller[c] EXCEPT !.pc = "haltCommit", !.gen = srv.gen]
    <2>1. c \in Callers /\ next \in Calls /\ NoCall \in Calls
      BY <1>23, RecordsFit, BridgeAssumption DEF HaltWrite, Callers, Typed, Calls, PCs, Ops, Sessions
    <2>2. Frame("halt", 0) \in Sent
      BY <1>23, <2>1, AnswerFits DEF HaltWrite, Typed, Calls, Ops, CallFits
    <2>3. Written(c, Frame("halt", 0), next)
      BY <1>23 DEF HaltWrite
    <2> HIDE DEF next
    <2>4. toExt' \in [Conns -> Seq(Sent)] /\ caller' \in [Callers -> Calls]
      BY <2>1, <2>2, <2>3, WrittenFits
    <2>5. QED
      BY <1>23, <2>4 DEF HaltWrite, Typed, callVars, ghostVars
  <1>24. ASSUME NEW c \in Operators, HaltCommit(c)
        PROVE  Typed'
    <2>1. caller' \in [Callers -> Calls]
      <3>1. c \in Callers /\ caller[c] \in Calls
        BY DEF Callers, Typed
      <3>2. [caller[c] EXCEPT !.pc = "disarm"] \in Calls
        BY <3>1 DEF Calls, PCs
      <3>3. QED
        BY <1>24, <3>1, <3>2, RecordsFit DEF HaltCommit, Goes, Typed
    <2>2. srv' \in Sessions
      BY <1>24 DEF HaltCommit, Typed, Sessions
    <2>3. QED
      BY <1>24, <2>1, <2>2 DEF HaltCommit, Typed, wireVars, callVars, ghostVars
  <1>25. ASSUME NEW c \in Operators, ResumeWrite(c)
        PROVE  Typed'
    <2> DEFINE next == [NoCall EXCEPT !.pc = "resumeCommit", !.op = "resume", !.gen = srv.gen]
    <2>1. c \in Callers /\ next \in Calls /\ NoCall \in Calls
      BY <1>25, RecordsFit, BridgeAssumption DEF ResumeWrite, Callers, Typed, Calls, PCs, Ops, Sessions
    <2>2. Frame("resume", 0) \in Sent
      BY <1>25, <2>1, AnswerFits DEF ResumeWrite, Typed, Calls, Ops, CallFits
    <2>3. Written(c, Frame("resume", 0), next)
      BY <1>25 DEF ResumeWrite
    <2> HIDE DEF next
    <2>4. toExt' \in [Conns -> Seq(Sent)] /\ caller' \in [Callers -> Calls]
      BY <2>1, <2>2, <2>3, WrittenFits
    <2>5. standing' \in BOOLEAN
      BY <1>25 DEF ResumeWrite
    <2>6. QED
      BY <1>25, <2>4, <2>5 DEF ResumeWrite, Typed, callVars, ghostVars
  <1>26. ASSUME NEW c \in Operators, ResumeCommit(c)
        PROVE  Typed'
    <2>1. caller' \in [Callers -> Calls]
      <3>1. c \in Callers /\ caller[c] \in Calls
        BY DEF Callers, Typed
      <3>2. [caller[c] EXCEPT !.pc = "disarm"] \in Calls
        BY <3>1 DEF Calls, PCs
      <3>3. QED
        BY <1>26, <3>1, <3>2, RecordsFit DEF ResumeCommit, Goes, Typed
    <2>2. srv' \in Sessions
      BY ZenonT(60), <1>26 DEF ResumeCommit, Typed, Sessions
    <2>3. QED
      BY <1>26, <2>1, <2>2 DEF ResumeCommit, Typed, wireVars, callVars, ghostVars
  <1>27. ASSUME NEW c \in Operators, ResumeDisarm(c)
        PROVE  Typed'
    <2>1. caller' \in [Callers -> Calls]
      BY <1>27, RecordsFit DEF ResumeDisarm, Goes, Typed, Calls, PCs, Callers, NoCall, Ops, Sessions
    <2>2. QED
      BY <1>27, <2>1 DEF ResumeDisarm, Typed, wireVars, callVars, ghostVars
  <1>28. CASE UNCHANGED vars
    BY <1>28 DEF vars, wireVars, callVars, ghostVars, Typed, wireVars, callVars, ghostVars
  <1>29. QED
    BY <1>1, <1>2, <1>3, <1>4, <1>5, <1>6, <1>7, <1>8, <1>9, <1>10, <1>11, <1>12,
       <1>13, <1>14, <1>15, <1>16, <1>17, <1>18, <1>19, <1>20, <1>21, <1>22, <1>23,
       <1>24, <1>25, <1>26, <1>27, <1>28
       DEF Next, Extension, Serve, Proceed, Command

LEMMA Near ==
    ASSUME Shaped
    PROVE  /\ srv.last \in Nat /\ dial \in Nat /\ srv.gen \in Nat /\ srv.epoch \in Nat
           /\ None \notin Conns
           /\ \A c \in Conns : c \in Nat /\ c >= 1
           /\ srv.conn # None => /\ srv.conn \in Conns /\ srv.conn = srv.last
                                /\ srv.conn =< dial
           /\ \A c \in 1..srv.last : c \in Conns
  <1>1. srv.last \in 0..MaxConn /\ dial \in 0..MaxConn /\ srv.gen \in Nat /\ srv.epoch \in Nat
    BY DEF Shaped, Typed, Sessions
  <1>2. QED
    BY <1>1, BridgeAssumption DEF Shaped, Typed, Places, Sessions, Conns

LEMMA PlacesStep == Shaped /\ [Next]_vars => Places'
  <1> SUFFICES ASSUME Shaped, [Next]_vars PROVE Places'
    OBVIOUS
  <1> USE DEF Shaped
  <1>1. CASE Dial
    <2> DEFINE first == Answer("hello", 0, 0, FALSE)
    <2>1. dial + 1 \in Conns /\ dial + 1 > srv.last /\ srv.conn # dial + 1
      <3>1. dial < MaxConn /\ srv.last =< dial
        BY <1>1 DEF Dial, Places
      <3>2. QED
        BY <3>1, Near, BridgeAssumption DEF Conns
    <2>2. /\ <<first>> # <<>> /\ DOMAIN <<first>> = {1} /\ <<first>>[1].t = "hello"
      BY OneFrame DEF Answer
    <2>3. Greets(<<first>>) /\ HelloFirst(<<first>>) /\ NoConfigAnswer(<<first>>)
      BY <2>2 DEF Greets, HelloFirst, NoConfigAnswer, IsConfigAnswer
    <2>4. /\ toHx'[dial + 1] = <<first>>
          /\ \A c \in Conns : c # dial + 1 => toHx'[c] = toHx[c]
          /\ ext'.up /\ ext'.epoch = 0
          /\ dial' = dial + 1 /\ UNCHANGED <<srv, serve, toExt, caller>>
      BY <1>1, <2>1, RecordsFit DEF Dial, Typed, Extensions
    <2> HIDE DEF first
    <2>5. \A c \in Conns : c # dial + 1 /\ c =< dial' => c =< dial
      BY <2>4, Near
    <2>6. \A c \in Conns : HelloFirst(toHx'[c]) /\ (c > dial' => toHx'[c] = <<>>)
      BY <2>3, <2>4, Near DEF Places
    <2>7. \A c \in Conns : c > srv.last /\ c =< dial' =>
             Greets(toHx'[c]) /\ NoConfigAnswer(toHx'[c])
      BY <2>3, <2>4, <2>5 DEF Places
    <2>8. srv.conn # None => toHx'[srv.conn] = toHx[srv.conn]
      BY <2>1, <2>4, Near
    <2>9. QED
      BY <2>1, <2>4, <2>6, <2>7, <2>8, Near DEF Places
  <1>2. CASE ExtDies
    BY <1>2, RecordsFit DEF ExtDies, Places, callVars, ghostVars
  <1>3. CASE ExtHandle
    <2>1. /\ dial \in Conns /\ dial =< srv.last /\ toHx[dial] \in Seq(Received)
          /\ UNCHANGED <<dial, srv, serve, caller>>
      BY <1>3, HandleIs DEF ExtHandle, Typed
    <2>2. \A c \in Conns : c # dial => toExt'[c] = toExt[c] /\ toHx'[c] = toHx[c]
      BY <1>3, HandleIs DEF Typed
    <2>3. /\ Greets(toHx[dial]) => Greets(toHx'[dial])
          /\ HelloFirst(toHx[dial]) => HelloFirst(toHx'[dial])
      <3>1. CASE toHx' = toHx
        BY <3>1
      <3>2. ASSUME NEW a \in Received, a.t # "hello",
                   toHx' = [toHx EXCEPT ![dial] = Append(toHx[dial], a)]
            PROVE  /\ Greets(toHx[dial]) => Greets(toHx'[dial])
                   /\ HelloFirst(toHx[dial]) => HelloFirst(toHx'[dial])
        <4>1. toHx'[dial] = Append(toHx[dial], a)
          BY <2>1, <3>2 DEF Typed
        <4>2. QED
          BY <2>1, <3>2, <4>1, Writes
      <3>3. ASSUME NEW h \in Received, NEW a \in Received, h.t # "hello", a.t # "hello",
                   toHx' = [toHx EXCEPT ![dial] = Append(Append(toHx[dial], h), a)]
            PROVE  /\ Greets(toHx[dial]) => Greets(toHx'[dial])
                   /\ HelloFirst(toHx[dial]) => HelloFirst(toHx'[dial])
        <4> DEFINE q == Append(toHx[dial], h)
        <4>1. toHx'[dial] = Append(q, a)
          BY <2>1, <3>3 DEF Typed
        <4>2. q \in Seq(Received)
          BY <2>1, AppendProperties
        <4>3. /\ Greets(toHx[dial]) => Greets(q)
              /\ HelloFirst(toHx[dial]) => HelloFirst(q)
          BY <2>1, <3>3, Writes
        <4> HIDE DEF q
        <4>4. QED
          BY ZenonT(60), <3>3, <4>1, <4>2, <4>3, Writes
      <3>4. QED
        BY <1>3, <3>1, <3>2, <3>3, HandleIs DEF IsConfigAnswer
    <2>4. /\ \A c \in Conns : HelloFirst(toHx'[c])
          /\ srv.conn # None /\ Greets(toHx[srv.conn]) => Greets(toHx'[srv.conn])
      BY <2>2, <2>3, Near DEF Places
    <2>5. \A c \in Conns : c > srv.last => c # dial
      BY <2>1, Near
    <2>6. QED
      BY <2>1, <2>2, <2>4, <2>5, Near DEF Places
  <1>4. CASE Accept
    <2>1. /\ srv'.conn = srv.last + 1 /\ srv'.last = srv.last + 1 /\ srv'.gen = srv.gen + 1
          /\ srv'.state = srv.state /\ srv'.epoch = srv.epoch
          /\ serve'.pc = "read" /\ UNCHANGED <<toExt, toHx, dial, ext, caller>>
      BY <1>4 DEF Accept, Typed, Sessions, wireVars
    <2>2. srv.conn = None /\ srv.last < dial
      BY <1>4 DEF Accept, Places
    <2>3. srv.last + 1 \in Conns /\ srv.last + 1 =< dial
      <3>1. dial \in 0..MaxConn
        BY DEF Typed
      <3>2. srv.last \in Nat
        BY Near
      <3>3. QED
        BY <2>2, <3>1, <3>2, BridgeAssumption DEF Conns
    <2>4. \A c \in Conns : c > srv.last + 1 => c > srv.last
      BY Near
    <2>5. \A c \in Callers : caller[c].gen \in Nat
      BY DEF Typed, Calls
    <2>6. srv'.conn # None /\ Greets(toHx[srv.last + 1])
      BY <2>1, <2>3, Near DEF Places
    <2>7. \A c \in Callers : caller[c].gen =< srv.gen + 1
      BY <2>5, Near DEF Places
    <2>8. srv.state = "waiting" /\ srv.epoch = 0
      BY <2>2 DEF Places
    <2>9. dial > srv.last + 1 => dial > srv.last
      BY Near
    <2>10. QED
      BY <2>1, <2>2, <2>3, <2>4, <2>6, <2>7, <2>8, <2>9 DEF Places
  <1>5. CASE Hello
    <2>1. /\ srv.conn \in Conns /\ toHx[srv.conn] \in Seq(Received) /\ toHx[srv.conn] # <<>>
          /\ srv.conn = srv.last /\ srv.conn =< dial /\ serve.pc = "read"
          /\ toHx' = [toHx EXCEPT ![srv.conn] = Tail(toHx[srv.conn])]
          /\ Head(toHx[srv.conn]).t \in {"hello"}
          /\ UNCHANGED <<toExt, dial, ext, caller>>
      <3>1. Read({"hello"}) /\ caller' = caller
        BY <1>5 DEF Hello
      <3>2. QED
        BY <3>1, ReadIs
    <2>2. /\ \A c \in Conns : c # srv.conn => toHx'[c] = toHx[c]
          /\ HelloFirst(toHx[srv.conn]) => HelloFirst(toHx'[srv.conn])
          /\ Head(toHx[srv.conn]).t # "hello" => ~Greets(toHx[srv.conn])
      <3>1. toHx'[srv.conn] = Tail(toHx[srv.conn])
        BY <2>1 DEF Typed
      <3>2. QED
        BY <2>1, <3>1, ReadsOne DEF Typed
    <2>3. /\ \A c \in Conns : HelloFirst(toHx'[c])
          /\ \A c \in Conns : c > dial => toHx'[c] = toHx[c]
          /\ \A c \in Conns : c > srv.last => toHx'[c] = toHx[c]
      BY <2>1, <2>2, Near DEF Places
    <2>4. /\ srv'.state = "connected" /\ srv'.epoch = 0 /\ serve'.pc = "hello"
          /\ srv'.conn = srv.conn /\ srv'.last = srv.last /\ srv'.gen = srv.gen
      BY <1>5 DEF Hello, Typed, Sessions
    <2>5. QED
      BY <2>1, <2>3, <2>4, Near DEF Places
  <1>6. CASE Reassert
    <2>1. /\ serve.pc = "hello" /\ serve'.pc \in {"read", "told", "reset"}
          /\ UNCHANGED <<toHx, dial, ext, srv, caller>>
      BY <1>6 DEF Reassert, Typed
    <2>2. srv.conn # None /\ srv.state # "waiting"
      BY <2>1 DEF Places
    <2>3. \A c \in Conns : c > srv.last => toExt'[c] = toExt[c]
      BY SMTT(30), <1>6, <2>2, Near DEF Reassert, Typed
    <2>4. QED
      BY <2>1, <2>2, <2>3 DEF Places
  <1>7. CASE ReassertCommit
    <2>1. /\ serve.pc = "told" /\ serve'.pc = "read"
          /\ srv'.state = "halted" /\ srv'.epoch = srv.epoch
          /\ srv'.conn = srv.conn /\ srv'.last = srv.last /\ srv'.gen = srv.gen
          /\ UNCHANGED <<toExt, toHx, dial, ext, caller>>
      BY <1>7 DEF ReassertCommit, Typed, Sessions, wireVars
    <2>2. QED
      BY <2>1 DEF Places
  <1>8. CASE OnHalted
    <2>1. /\ srv.conn \in Conns /\ toHx[srv.conn] \in Seq(Received) /\ toHx[srv.conn] # <<>>
          /\ srv.conn = srv.last /\ srv.conn =< dial /\ serve.pc = "read"
          /\ toHx' = [toHx EXCEPT ![srv.conn] = Tail(toHx[srv.conn])]
          /\ Head(toHx[srv.conn]).t \in {"halted"}
          /\ UNCHANGED <<toExt, dial, ext, caller>>
      <3>1. Read({"halted"}) /\ caller' = caller
        BY <1>8 DEF OnHalted
      <3>2. QED
        BY <3>1, ReadIs
    <2>2. /\ \A c \in Conns : c # srv.conn => toHx'[c] = toHx[c]
          /\ HelloFirst(toHx[srv.conn]) => HelloFirst(toHx'[srv.conn])
          /\ Head(toHx[srv.conn]).t # "hello" => ~Greets(toHx[srv.conn])
      <3>1. toHx'[srv.conn] = Tail(toHx[srv.conn])
        BY <2>1 DEF Typed
      <3>2. QED
        BY <2>1, <3>1, ReadsOne DEF Typed
    <2>3. /\ \A c \in Conns : HelloFirst(toHx'[c])
          /\ \A c \in Conns : c > dial => toHx'[c] = toHx[c]
          /\ \A c \in Conns : c > srv.last => toHx'[c] = toHx[c]
      BY <2>1, <2>2, Near DEF Places
    <2>4. /\ srv'.state = "halted" /\ srv'.epoch = srv.epoch /\ serve'.pc \in {"read", "reset"}
          /\ srv'.conn = srv.conn /\ srv'.last = srv.last /\ srv'.gen = srv.gen
      BY <1>8, <2>1 DEF OnHalted, Typed, Sessions
    <2>5. QED
      BY <2>1, <2>3, <2>4, Near DEF Places
  <1>9. CASE Deliver
    <2>1. /\ srv.conn \in Conns /\ toHx[srv.conn] \in Seq(Received) /\ toHx[srv.conn] # <<>>
          /\ srv.conn = srv.last /\ srv.conn =< dial /\ serve.pc = "read"
          /\ toHx' = [toHx EXCEPT ![srv.conn] = Tail(toHx[srv.conn])]
          /\ Head(toHx[srv.conn]).t \in {"configured", "bad_config", "result", "error"}
          /\ UNCHANGED <<toExt, dial, ext, caller>>
      <3>1. Read({"configured", "bad_config", "result", "error"}) /\ caller' = caller
        BY <1>9 DEF Deliver
      <3>2. QED
        BY <3>1, ReadIs
    <2>2. /\ \A c \in Conns : c # srv.conn => toHx'[c] = toHx[c]
          /\ HelloFirst(toHx[srv.conn]) => HelloFirst(toHx'[srv.conn])
          /\ Head(toHx[srv.conn]).t # "hello" => ~Greets(toHx[srv.conn])
      <3>1. toHx'[srv.conn] = Tail(toHx[srv.conn])
        BY <2>1 DEF Typed
      <3>2. QED
        BY <2>1, <3>1, ReadsOne DEF Typed
    <2>3. /\ \A c \in Conns : HelloFirst(toHx'[c])
          /\ \A c \in Conns : c > dial => toHx'[c] = toHx[c]
          /\ \A c \in Conns : c > srv.last => toHx'[c] = toHx[c]
      BY <2>1, <2>2, Near DEF Places
    <2>4. UNCHANGED <<srv, serve>>
      BY <1>9 DEF Deliver
    <2>5. srv.state # "waiting"
      BY <2>1, <2>2, Near DEF Places
    <2>6. QED
      BY <2>1, <2>3, <2>4, <2>5, Near DEF Places
  <1>10. CASE PeerGone
    BY <1>10 DEF PeerGone, Places, Typed, wireVars
  <1>11. CASE Reset
    <2>1. /\ srv'.conn = None /\ srv'.state = "waiting" /\ srv'.epoch = 0
          /\ srv'.last = srv.last /\ srv'.gen = srv.gen + 1 /\ serve'.pc = "accept"
          /\ UNCHANGED <<toExt, toHx, dial, ext, caller>>
      BY <1>11, RecordsFit DEF Reset, Typed, Sessions
    <2>2. \A c \in Callers : caller[c].gen \in Nat
      BY DEF Typed, Calls
    <2>3. \A c \in Callers : caller[c].gen =< srv.gen + 1
      BY <2>2, Near DEF Places
    <2>4. QED
      BY <2>1, <2>3 DEF Places
  <1>12. CASE HaltByHand
    BY <1>12 DEF HaltByHand, Places, wireVars
  <1>13. ASSUME NEW c \in Configurers, NEW op \in {"configure", "misconfigure"}, BeginConfigure(c, op)
        PROVE  Places'
    <2>1. UNCHANGED <<toExt, toHx, dial, ext, srv, serve>>
      BY <1>13 DEF BeginConfigure, wireVars
    <2>2. \A d \in Callers : caller'[d].gen =< srv.gen
      <3>1. c \in Callers /\ \A d \in Callers : caller[d].gen \in Nat /\ caller[d].gen =< srv.gen
        BY DEF Callers, Places, Typed, Calls
      <3>2. caller'[c].gen \in {caller[c].gen, srv.gen, 0} /\ \A d \in Callers : d # c => caller'[d] = caller[d]
        BY <1>13, <3>1, RecordsFit DEF BeginConfigure, Goes, Typed, Calls, NoCall
      <3>3. QED
        BY <3>1, <3>2, Near
    <2>3. QED
      BY <2>1, <2>2 DEF Places
  <1>14. ASSUME NEW c \in Senders, BeginSend(c)
        PROVE  Places'
    <2>1. UNCHANGED <<toExt, toHx, dial, ext, srv, serve>>
      BY <1>14 DEF BeginSend, wireVars
    <2>2. \A d \in Callers : caller'[d].gen =< srv.gen
      <3>1. c \in Callers /\ \A d \in Callers : caller[d].gen \in Nat /\ caller[d].gen =< srv.gen
        BY DEF Callers, Places, Typed, Calls
      <3>2. caller'[c].gen \in {caller[c].gen, srv.gen, 0} /\ \A d \in Callers : d # c => caller'[d] = caller[d]
        BY <1>14, <3>1, RecordsFit DEF BeginSend, Goes, Typed, Calls, NoCall
      <3>3. QED
        BY <3>1, <3>2, Near
    <2>3. QED
      BY <2>1, <2>2 DEF Places
  <1>15. ASSUME NEW c \in Configurers \cup Senders, Register(c)
        PROVE  Places'
    <2>1. UNCHANGED <<toExt, toHx, dial, ext, srv, serve>>
      BY <1>15 DEF Register, wireVars
    <2>2. \A d \in Callers : caller'[d].gen =< srv.gen
      <3>1. c \in Callers /\ \A d \in Callers : caller[d].gen \in Nat /\ caller[d].gen =< srv.gen
        BY DEF Callers, Places, Typed, Calls
      <3>2. caller'[c].gen \in {caller[c].gen, srv.gen, 0} /\ \A d \in Callers : d # c => caller'[d] = caller[d]
        BY <1>15, <3>1, RecordsFit DEF Register, Goes, Typed, Calls, NoCall
      <3>3. QED
        BY <3>1, <3>2, Near
    <2>3. QED
      BY <2>1, <2>2 DEF Places
  <1>16. ASSUME NEW c \in Configurers \cup Senders, WriteRequest(c)
        PROVE  Places'
    <2> DEFINE next == [caller[c] EXCEPT !.pc = "wait", !.on = srv.conn]
               f == Frame(caller[c].op, caller[c].rid)
    <2>1. /\ c \in Callers /\ f \in Sent /\ Written(c, f, next)
          /\ next.gen \in {caller[c].gen, srv.gen}
          /\ UNCHANGED <<toHx, dial, ext, srv, serve>>
      <3>1. c \in Callers
        BY <1>16 DEF Callers
      <3>2. f \in Sent
        BY <1>16, <3>1, AnswerFits DEF WriteRequest, Typed, Calls, Ops, CallFits
      <3>3. QED
        BY <1>16, <3>1, <3>2 DEF WriteRequest, NoCall, Typed, Calls
    <2>2. \A d \in Callers : caller'[d].gen =< srv.gen
      <3>1. \A d \in Callers : caller[d].gen \in Nat /\ caller[d].gen =< srv.gen
        BY DEF Places, Typed, Calls
      <3> HIDE DEF next, f
      <3>2. caller'[c] \in {next, NoCall} /\ \A d \in Callers : d # c => caller'[d] = caller[d]
        BY <2>1, WrittenIs DEF Typed
      <3>3. QED
        BY <2>1, <3>1, <3>2, RecordsFit, Near
    <2>3. \A d \in Conns : d > srv.last => toExt'[d] = toExt[d]
      <3> HIDE DEF next, f
      <3>1. \A d \in Conns : d > srv.last => d # srv.conn
        BY Near
      <3>2. \/ toExt' = toExt
            \/ toExt' = [toExt EXCEPT ![srv.conn] = Append(toExt[srv.conn], f)]
        BY <2>1, WrittenIs
      <3>3. QED
        BY <3>1, <3>2 DEF Typed
    <2>4. QED
      BY <2>1, <2>2, <2>3 DEF Places
  <1>17. ASSUME NEW c \in Configurers \cup Senders, Collect(c)
        PROVE  Places'
    <2>1. UNCHANGED <<toExt, toHx, dial, ext, srv, serve>>
      BY <1>17 DEF Collect, wireVars
    <2>2. \A d \in Callers : caller'[d].gen =< srv.gen
      <3>1. c \in Callers /\ \A d \in Callers : caller[d].gen \in Nat /\ caller[d].gen =< srv.gen
        BY DEF Callers, Places, Typed, Calls
      <3>2. caller'[c].gen \in {caller[c].gen, srv.gen, 0} /\ \A d \in Callers : d # c => caller'[d] = caller[d]
        <4>1. CASE Goes(c, NoCall)
          BY <3>1, <4>1, RecordsFit DEF Goes, Typed
        <4>2. ASSUME NEW pc, NEW f, Goes(c, [caller[c] EXCEPT !.pc = pc, !.reply = f])
              PROVE  /\ caller'[c].gen = caller[c].gen
                     /\ \A d \in Callers : d # c => caller'[d] = caller[d]
          BY <3>1, <4>2 DEF Goes, Typed, Calls
        <4>3. QED
          BY <1>17, <4>1, <4>2 DEF Collect
      <3>3. QED
        BY <3>1, <3>2, Near
    <2>3. QED
      BY <2>1, <2>2 DEF Places
  <1>18. ASSUME NEW c \in Configurers \cup Senders, Timeout(c)
        PROVE  Places'
    <2>1. UNCHANGED <<toExt, toHx, dial, ext, srv, serve>>
      BY <1>18 DEF Timeout, wireVars
    <2>2. \A d \in Callers : caller'[d].gen =< srv.gen
      <3>1. c \in Callers /\ \A d \in Callers : caller[d].gen \in Nat /\ caller[d].gen =< srv.gen
        BY DEF Callers, Places, Typed, Calls
      <3>2. caller'[c].gen \in {caller[c].gen, srv.gen, 0} /\ \A d \in Callers : d # c => caller'[d] = caller[d]
        BY <1>18, <3>1, RecordsFit DEF Timeout, Goes, Typed, Calls, NoCall
      <3>3. QED
        BY <3>1, <3>2, Near
    <2>3. QED
      BY <2>1, <2>2 DEF Places
  <1>19. ASSUME NEW c \in Configurers \cup Senders, GiveUp(c)
        PROVE  Places'
    <2>1. UNCHANGED <<toExt, toHx, dial, ext, srv, serve>>
      BY <1>19 DEF GiveUp, wireVars
    <2>2. \A d \in Callers : caller'[d].gen =< srv.gen
      <3>1. c \in Callers /\ \A d \in Callers : caller[d].gen \in Nat /\ caller[d].gen =< srv.gen
        BY DEF Callers, Places, Typed, Calls
      <3>2. caller'[c].gen \in {caller[c].gen, srv.gen, 0} /\ \A d \in Callers : d # c => caller'[d] = caller[d]
        BY <1>19, <3>1, RecordsFit DEF GiveUp, Goes, Typed, Calls, NoCall
      <3>3. QED
        BY <3>1, <3>2, Near
    <2>3. QED
      BY <2>1, <2>2 DEF Places
  <1>20. ASSUME NEW c \in Configurers \cup Senders, Return(c)
        PROVE  Places'
    <2>1. UNCHANGED <<toExt, toHx, dial, ext, srv, serve>>
      BY <1>20 DEF Return, wireVars
    <2>2. \A d \in Callers : caller'[d].gen =< srv.gen
      <3>1. c \in Callers /\ \A d \in Callers : caller[d].gen \in Nat /\ caller[d].gen =< srv.gen
        BY DEF Callers, Places, Typed, Calls
      <3>2. caller'[c].gen \in {caller[c].gen, srv.gen, 0} /\ \A d \in Callers : d # c => caller'[d] = caller[d]
        BY <1>20, <3>1, RecordsFit DEF Return, Goes, Typed, Calls, NoCall
      <3>3. QED
        BY <3>1, <3>2, Near
    <2>3. QED
      BY <2>1, <2>2 DEF Places
  <1>21. ASSUME NEW c \in Configurers \cup Senders, CommitConfigure(c)
        PROVE  Places'
    <2>1. /\ UNCHANGED <<toExt, toHx, dial, ext, serve>>
          /\ srv'.last = srv.last /\ srv'.gen = srv.gen /\ srv'.conn = srv.conn
          /\ srv' = srv \/ (srv.conn # None /\ srv'.state # "waiting")
      <3>1. CASE srv' = srv
        BY <1>21, <3>1 DEF CommitConfigure, wireVars
      <3>2. CASE srv' # srv
        BY <1>21, <3>2 DEF CommitConfigure, Current, Typed, Sessions, wireVars
      <3>3. QED
        BY <3>1, <3>2
    <2>2. \A d \in Callers : caller'[d].gen =< srv.gen
      <3>1. c \in Callers /\ \A d \in Callers : caller[d].gen \in Nat /\ caller[d].gen =< srv.gen
        BY DEF Callers, Places, Typed, Calls
      <3>2. caller'[c].gen \in {caller[c].gen, 0} /\ \A d \in Callers : d # c => caller'[d] = caller[d]
        BY <1>21, <3>1, RecordsFit DEF CommitConfigure, Goes, Typed, Calls
      <3>3. QED
        BY <3>1, <3>2, Near
    <2>3. QED
      BY <2>1, <2>2 DEF Places
  <1>22. ASSUME NEW c \in Operators, HaltArm(c)
        PROVE  Places'
    <2>1. UNCHANGED <<toExt, toHx, dial, ext, srv, serve>>
      BY <1>22 DEF HaltArm, wireVars
    <2>2. \A d \in Callers : caller'[d].gen =< srv.gen
      <3>1. c \in Callers /\ \A d \in Callers : caller[d].gen \in Nat /\ caller[d].gen =< srv.gen
        BY DEF Callers, Places, Typed, Calls
      <3>2. caller'[c].gen \in {caller[c].gen, srv.gen, 0} /\ \A d \in Callers : d # c => caller'[d] = caller[d]
        BY <1>22, <3>1, RecordsFit DEF HaltArm, Goes, Typed, Calls, NoCall
      <3>3. QED
        BY <3>1, <3>2, Near
    <2>3. QED
      BY <2>1, <2>2 DEF Places
  <1>23. ASSUME NEW c \in Operators, HaltWrite(c)
        PROVE  Places'
    <2> DEFINE next == [caller[c] EXCEPT !.pc = "haltCommit", !.gen = srv.gen]
               f == Frame("halt", 0)
    <2>1. /\ c \in Callers /\ f \in Sent /\ Written(c, f, next)
          /\ next.gen \in {caller[c].gen, srv.gen}
          /\ UNCHANGED <<toHx, dial, ext, srv, serve>>
      <3>1. c \in Callers
        BY <1>23 DEF Callers
      <3>2. f \in Sent
        BY <1>23, <3>1, AnswerFits DEF HaltWrite, Typed, Calls, Ops, CallFits
      <3>3. QED
        BY <1>23, <3>1, <3>2 DEF HaltWrite, NoCall, Typed, Calls
    <2>2. \A d \in Callers : caller'[d].gen =< srv.gen
      <3>1. \A d \in Callers : caller[d].gen \in Nat /\ caller[d].gen =< srv.gen
        BY DEF Places, Typed, Calls
      <3> HIDE DEF next, f
      <3>2. caller'[c] \in {next, NoCall} /\ \A d \in Callers : d # c => caller'[d] = caller[d]
        BY <2>1, WrittenIs DEF Typed
      <3>3. QED
        BY <2>1, <3>1, <3>2, RecordsFit, Near
    <2>3. \A d \in Conns : d > srv.last => toExt'[d] = toExt[d]
      <3> HIDE DEF next, f
      <3>1. \A d \in Conns : d > srv.last => d # srv.conn
        BY Near
      <3>2. \/ toExt' = toExt
            \/ toExt' = [toExt EXCEPT ![srv.conn] = Append(toExt[srv.conn], f)]
        BY <2>1, WrittenIs
      <3>3. QED
        BY <3>1, <3>2 DEF Typed
    <2>4. QED
      BY <2>1, <2>2, <2>3 DEF Places
  <1>24. ASSUME NEW c \in Operators, HaltCommit(c)
        PROVE  Places'
    <2>1. /\ UNCHANGED <<toExt, toHx, dial, ext, serve>>
          /\ srv'.last = srv.last /\ srv'.gen = srv.gen /\ srv'.conn = srv.conn
          /\ srv' = srv \/ (srv.conn # None /\ srv'.state # "waiting")
      <3>1. CASE srv' = srv
        BY <1>24, <3>1 DEF HaltCommit, wireVars
      <3>2. CASE srv' # srv
        BY <1>24, <3>2 DEF HaltCommit, Current, Typed, Sessions, wireVars
      <3>3. QED
        BY <3>1, <3>2
    <2>2. \A d \in Callers : caller'[d].gen =< srv.gen
      <3>1. c \in Callers /\ \A d \in Callers : caller[d].gen \in Nat /\ caller[d].gen =< srv.gen
        BY DEF Callers, Places, Typed, Calls
      <3>2. caller'[c].gen \in {caller[c].gen, 0} /\ \A d \in Callers : d # c => caller'[d] = caller[d]
        BY <1>24, <3>1, RecordsFit DEF HaltCommit, Goes, Typed, Calls
      <3>3. QED
        BY <3>1, <3>2, Near
    <2>3. QED
      BY <2>1, <2>2 DEF Places
  <1>25. ASSUME NEW c \in Operators, ResumeWrite(c)
        PROVE  Places'
    <2> DEFINE next == [NoCall EXCEPT !.pc = "resumeCommit", !.op = "resume", !.gen = srv.gen]
               f == Frame("resume", 0)
    <2>1. /\ c \in Callers /\ f \in Sent /\ Written(c, f, next)
          /\ next.gen \in {caller[c].gen, srv.gen}
          /\ UNCHANGED <<toHx, dial, ext, srv, serve>>
      <3>1. c \in Callers
        BY <1>25 DEF Callers
      <3>2. f \in Sent
        BY <1>25, <3>1, AnswerFits DEF ResumeWrite, Typed, Calls, Ops, CallFits
      <3>3. QED
        BY <1>25, <3>1, <3>2 DEF ResumeWrite, NoCall, Typed, Calls
    <2>2. \A d \in Callers : caller'[d].gen =< srv.gen
      <3>1. \A d \in Callers : caller[d].gen \in Nat /\ caller[d].gen =< srv.gen
        BY DEF Places, Typed, Calls
      <3> HIDE DEF next, f
      <3>2. caller'[c] \in {next, NoCall} /\ \A d \in Callers : d # c => caller'[d] = caller[d]
        BY <2>1, WrittenIs DEF Typed
      <3>3. QED
        BY <2>1, <3>1, <3>2, RecordsFit, Near
    <2>3. \A d \in Conns : d > srv.last => toExt'[d] = toExt[d]
      <3> HIDE DEF next, f
      <3>1. \A d \in Conns : d > srv.last => d # srv.conn
        BY Near
      <3>2. \/ toExt' = toExt
            \/ toExt' = [toExt EXCEPT ![srv.conn] = Append(toExt[srv.conn], f)]
        BY <2>1, WrittenIs
      <3>3. QED
        BY <3>1, <3>2 DEF Typed
    <2>4. QED
      BY <2>1, <2>2, <2>3 DEF Places
  <1>26. ASSUME NEW c \in Operators, ResumeCommit(c)
        PROVE  Places'
    <2>1. /\ UNCHANGED <<toExt, toHx, dial, ext, serve>>
          /\ srv'.last = srv.last /\ srv'.gen = srv.gen /\ srv'.conn = srv.conn
          /\ srv' = srv \/ (srv.conn # None /\ srv'.state # "waiting")
      <3>1. CASE srv' = srv
        BY <1>26, <3>1 DEF ResumeCommit, wireVars
      <3>2. CASE srv' # srv
        BY <1>26, <3>2 DEF ResumeCommit, Current, Typed, Sessions, wireVars
      <3>3. QED
        BY <3>1, <3>2
    <2>2. \A d \in Callers : caller'[d].gen =< srv.gen
      <3>1. c \in Callers /\ \A d \in Callers : caller[d].gen \in Nat /\ caller[d].gen =< srv.gen
        BY DEF Callers, Places, Typed, Calls
      <3>2. caller'[c].gen \in {caller[c].gen, 0} /\ \A d \in Callers : d # c => caller'[d] = caller[d]
        BY <1>26, <3>1, RecordsFit DEF ResumeCommit, Goes, Typed, Calls
      <3>3. QED
        BY <3>1, <3>2, Near
    <2>3. QED
      BY <2>1, <2>2 DEF Places
  <1>27. ASSUME NEW c \in Operators, ResumeDisarm(c)
        PROVE  Places'
    <2>1. UNCHANGED <<toExt, toHx, dial, ext, srv, serve>>
      BY <1>27 DEF ResumeDisarm, wireVars
    <2>2. \A d \in Callers : caller'[d].gen =< srv.gen
      <3>1. c \in Callers /\ \A d \in Callers : caller[d].gen \in Nat /\ caller[d].gen =< srv.gen
        BY DEF Callers, Places, Typed, Calls
      <3>2. caller'[c].gen \in {caller[c].gen, srv.gen, 0} /\ \A d \in Callers : d # c => caller'[d] = caller[d]
        BY <1>27, <3>1, RecordsFit DEF ResumeDisarm, Goes, Typed, Calls, NoCall
      <3>3. QED
        BY <3>1, <3>2, Near
    <2>3. QED
      BY <2>1, <2>2 DEF Places
  <1>28. CASE UNCHANGED vars
    BY <1>28 DEF Places, vars, wireVars
  <1>29. QED
    BY <1>1, <1>2, <1>3, <1>4, <1>5, <1>6, <1>7, <1>8, <1>9, <1>10, <1>11, <1>12,
       <1>13, <1>14, <1>15, <1>16, <1>17, <1>18, <1>19, <1>20, <1>21, <1>22, <1>23,
       <1>24, <1>25, <1>26, <1>27, <1>28
       DEF Next, Extension, Serve, Proceed, Command

\* The other calls stay as they are.
LEMMA OthersFit ==
    ASSUME Shaped, NEW c \in Callers, srv'.last = srv.last, CallFits(c)',
           \A d \in Callers : d # c => caller'[d] = caller[d]
    PROVE  \A d \in Callers : CallFits(d)'
  <1>1. \A d \in Callers : d # c => CallFits(d)'
    BY DEF Shaped, CallFits
  <1>2. QED
    BY <1>1

LEMMA Apart ==
    /\ \A c \in Configurers : c \in Callers /\ c \notin Senders /\ c \notin Operators
    /\ \A c \in Senders : c \in Callers /\ c \notin Configurers /\ c \notin Operators
    /\ \A c \in Operators : c \in Callers /\ c \notin Configurers /\ c \notin Senders
  BY BridgeAssumption DEF Callers

LEMMA FitsStep == Shaped /\ [Next]_vars => (\A d \in Callers : CallFits(d)')
  <1> SUFFICES ASSUME Shaped, [Next]_vars PROVE (\A d \in Callers : CallFits(d)')
    OBVIOUS
  <1> USE DEF Shaped
  <1>1. CASE Dial
    <2>1. caller' = caller /\ srv' = srv
      BY <1>1 DEF Dial
    <2>2. QED
      BY <2>1 DEF CallFits
  <1>2. CASE ExtDies
    <2>1. caller' = caller /\ srv' = srv
      BY <1>2 DEF ExtDies
    <2>2. QED
      BY <2>1 DEF CallFits
  <1>3. CASE ExtHandle
    <2>1. caller' = caller /\ srv' = srv
      BY <1>3 DEF ExtHandle
    <2>2. QED
      BY <2>1 DEF CallFits
  <1>4. CASE Accept
    <2>1. caller' = caller /\ srv'.last = srv.last + 1
      BY <1>4 DEF Accept, Typed, Sessions
    <2>2. \A x \in 1..srv.last : x \in 1..(srv.last + 1)
      BY Near
    <2>3. QED
      BY <2>1, <2>2 DEF CallFits
  <1>5. CASE Hello
    <2>1. caller' = caller /\ srv'.last = srv.last
      BY <1>5 DEF Hello, Typed, Sessions, Read
    <2>2. QED
      BY <2>1 DEF CallFits
  <1>6. CASE Reassert
    <2>1. caller' = caller /\ srv' = srv
      BY <1>6 DEF Reassert
    <2>2. QED
      BY <2>1 DEF CallFits
  <1>7. CASE ReassertCommit
    <2>1. caller' = caller /\ srv'.last = srv.last
      BY <1>7 DEF ReassertCommit, Typed, Sessions, Read
    <2>2. QED
      BY <2>1 DEF CallFits
  <1>8. CASE OnHalted
    <2>1. caller' = caller /\ srv'.last = srv.last
      BY <1>8 DEF OnHalted, Typed, Sessions, Read
    <2>2. QED
      BY <2>1 DEF CallFits
  <1>9. CASE Deliver
    <2>1. caller' = caller /\ srv' = srv
      BY <1>9 DEF Deliver
    <2>2. QED
      BY <2>1 DEF CallFits
  <1>10. CASE PeerGone
    <2>1. caller' = caller /\ srv' = srv
      BY <1>10 DEF PeerGone
    <2>2. QED
      BY <2>1 DEF CallFits
  <1>11. CASE Reset
    <2>1. caller' = caller /\ srv'.last = srv.last
      BY <1>11 DEF Reset, Typed, Sessions, Read
    <2>2. QED
      BY <2>1 DEF CallFits
  <1>12. CASE HaltByHand
    <2>1. caller' = caller /\ srv' = srv
      BY <1>12 DEF HaltByHand
    <2>2. QED
      BY <2>1 DEF CallFits
  <1>13. ASSUME NEW c \in Configurers, NEW op \in {"configure", "misconfigure"}, BeginConfigure(c, op)
        PROVE  (\A d \in Callers : CallFits(d)')
    <2>1. c \in Callers /\ srv'.last = srv.last
      BY <1>13, Apart DEF BeginConfigure, Typed, Sessions
    <2>2. /\ caller'[c] = [NoCall EXCEPT !.pc = "register", !.op = op, !.gen = srv.gen]
          /\ \A d \in Callers : d # c => caller'[d] = caller[d]
      BY <1>13, <2>1 DEF BeginConfigure, Goes, Typed
    <2>3. CallFits(c)'
      BY <1>13, <2>1, <2>2, Apart, RecordsFit DEF BeginConfigure, CallFits, Calls, NoCall
    <2>4. QED
      BY <2>1, <2>2, <2>3, OthersFit
  <1>14. ASSUME NEW c \in Senders, BeginSend(c)
        PROVE  (\A d \in Callers : CallFits(d)')
    <2>1. c \in Callers /\ srv'.last = srv.last
      BY <1>14, Apart DEF BeginSend, Typed, Sessions
    <2>2. /\ caller'[c] = [NoCall EXCEPT !.pc = "register", !.op = "send"]
          /\ \A d \in Callers : d # c => caller'[d] = caller[d]
      BY <1>14, <2>1 DEF BeginSend, Goes, Typed
    <2>3. CallFits(c)'
      BY <1>14, <2>1, <2>2, Apart, RecordsFit DEF BeginSend, CallFits, Calls, NoCall
    <2>4. QED
      BY <2>1, <2>2, <2>3, OthersFit
  <1>15. ASSUME NEW c \in Configurers \cup Senders, Register(c)
        PROVE  (\A d \in Callers : CallFits(d)')
    <2>1. c \in Callers /\ srv'.last = srv.last /\ caller[c] \in Calls /\ CallFits(c)
      BY <1>15, Apart DEF Register, Typed, Sessions
    <2>2. /\ caller'[c].pc = "write" /\ caller'[c].op = caller[c].op /\ caller'[c].on = caller[c].on
          /\ \A d \in Callers : d # c => caller'[d] = caller[d]
      BY <1>15, <2>1 DEF Register, Goes, Typed, Calls
    <2>3. CallFits(c)'
      BY <1>15, <2>1, <2>2, Apart DEF Register, CallFits
    <2>4. QED
      BY <2>1, <2>2, <2>3, OthersFit
  <1>16. ASSUME NEW c \in Configurers \cup Senders, WriteRequest(c)
        PROVE  (\A d \in Callers : CallFits(d)')
    <2> DEFINE next == [caller[c] EXCEPT !.pc = "wait", !.on = srv.conn]
               f == Frame(caller[c].op, caller[c].rid)
    <2>1. /\ c \in Callers /\ f \in Sent /\ Written(c, f, next) /\ srv' = srv
          /\ caller[c] \in Calls /\ CallFits(c)
      <3>1. c \in Callers /\ caller[c] \in Calls /\ CallFits(c)
        BY <1>16, Apart DEF Typed
      <3>2. f \in Sent
        BY <1>16, <3>1, AnswerFits DEF WriteRequest, Calls, Ops, CallFits
      <3>3. QED
        BY <1>16, <3>1, <3>2 DEF WriteRequest
    <2>2. next.pc = "wait" /\ next.op = caller[c].op /\ next.on = srv.conn
      BY <2>1 DEF Calls, NoCall
    <2> HIDE DEF next, f
    <2>3. /\ \A d \in Callers : d # c => caller'[d] = caller[d]
          /\ \/ caller'[c] = NoCall
             \/ caller'[c] = next /\ srv.conn \in Conns
      BY <2>1, WrittenIs DEF Typed
    <2>4. CallFits(c)'
      <3>1. CASE caller'[c] = NoCall
        BY <1>16, <3>1, Apart, RecordsFit DEF CallFits
      <3>2. CASE caller'[c] = next /\ srv.conn \in Conns
        <4>1. srv.conn \in 1..srv.last
          BY <3>2, Near
        <4>2. QED
          BY <1>16, <2>1, <2>2, <3>2, <4>1, Apart DEF CallFits, WriteRequest
      <3>3. QED
        BY <2>3, <3>1, <3>2
    <2>5. QED
      BY <2>1, <2>3, <2>4, OthersFit
  <1>17. ASSUME NEW c \in Configurers \cup Senders, Collect(c)
        PROVE  (\A d \in Callers : CallFits(d)')
    <2>1. c \in Callers /\ srv' = srv /\ caller[c] \in Calls /\ CallFits(c)
      BY <1>17, Apart DEF Collect, Typed
    <2>2. CASE Goes(c, NoCall)
      <3>1. caller'[c] = NoCall /\ \A d \in Callers : d # c => caller'[d] = caller[d]
        BY <2>1, <2>2 DEF Goes, Typed
      <3>2. CallFits(c)'
        BY <2>1, <3>1, Apart, RecordsFit DEF CallFits
      <3>3. QED
        BY <2>1, <3>1, <3>2, OthersFit
    <2>3. ASSUME NEW f \in replies,
                 Goes(c, [caller[c] EXCEPT !.pc = IF caller[c].op = "send" THEN "answered"
                                                                           ELSE "commit",
                                           !.reply = f])
          PROVE  \A d \in Callers : CallFits(d)'
      <3>1. f \in Received /\ caller[c].pc = "wait"
        BY <1>17 DEF Typed, Collect
      <3>2. c \in Configurers <=> caller[c].op # "send"
        BY <1>17, <2>1, <3>1, Apart DEF CallFits
      <3>3. /\ caller'[c].pc = IF c \in Configurers THEN "commit" ELSE "answered"
            /\ caller'[c].op = caller[c].op /\ caller'[c].on = caller[c].on
            /\ caller'[c].reply = f
            /\ \A d \in Callers : d # c => caller'[d] = caller[d]
        BY <2>1, <2>3, <3>2 DEF Goes, Typed, Calls
      <3>4. CallFits(c)'
        BY <1>17, <2>1, <3>1, <3>3, Apart DEF CallFits
      <3>5. QED
        BY <2>1, <3>3, <3>4, OthersFit
    <2>4. QED
      BY <1>17, <2>2, <2>3 DEF Collect
  <1>18. ASSUME NEW c \in Configurers \cup Senders, Timeout(c)
        PROVE  (\A d \in Callers : CallFits(d)')
    <2>1. c \in Callers /\ srv'.last = srv.last /\ caller[c] \in Calls /\ CallFits(c)
      BY <1>18, Apart DEF Timeout, Typed, Sessions
    <2>2. /\ caller'[c].pc = "late" /\ caller'[c].op = caller[c].op /\ caller'[c].on = caller[c].on
          /\ \A d \in Callers : d # c => caller'[d] = caller[d]
      BY <1>18, <2>1 DEF Timeout, Goes, Typed, Calls
    <2>3. CallFits(c)'
      BY <1>18, <2>1, <2>2, Apart DEF Timeout, CallFits
    <2>4. QED
      BY <2>1, <2>2, <2>3, OthersFit
  <1>19. ASSUME NEW c \in Configurers \cup Senders, GiveUp(c)
        PROVE  (\A d \in Callers : CallFits(d)')
    <2>1. c \in Callers /\ srv'.last = srv.last
      BY <1>19, Apart DEF GiveUp, Typed, Sessions
    <2>2. /\ caller'[c] = NoCall
          /\ \A d \in Callers : d # c => caller'[d] = caller[d]
      BY <1>19, <2>1 DEF GiveUp, Goes, Typed
    <2>3. CallFits(c)'
      BY <1>19, <2>1, <2>2, Apart, RecordsFit DEF GiveUp, CallFits, Calls, NoCall
    <2>4. QED
      BY <2>1, <2>2, <2>3, OthersFit
  <1>20. ASSUME NEW c \in Configurers \cup Senders, Return(c)
        PROVE  (\A d \in Callers : CallFits(d)')
    <2>1. c \in Callers /\ srv'.last = srv.last
      BY <1>20, Apart DEF Return, Typed, Sessions
    <2>2. /\ caller'[c] = NoCall
          /\ \A d \in Callers : d # c => caller'[d] = caller[d]
      BY <1>20, <2>1 DEF Return, Goes, Typed
    <2>3. CallFits(c)'
      BY <1>20, <2>1, <2>2, Apart, RecordsFit DEF Return, CallFits, Calls, NoCall
    <2>4. QED
      BY <2>1, <2>2, <2>3, OthersFit
  <1>21. ASSUME NEW c \in Configurers \cup Senders, CommitConfigure(c)
        PROVE  (\A d \in Callers : CallFits(d)')
    <2>1. c \in Callers /\ srv'.last = srv.last
      BY <1>21, Apart DEF CommitConfigure, Typed, Sessions, Current
    <2>2. /\ caller'[c] = NoCall
          /\ \A d \in Callers : d # c => caller'[d] = caller[d]
      BY <1>21, <2>1 DEF CommitConfigure, Goes, Typed
    <2>3. CallFits(c)'
      BY <1>21, <2>1, <2>2, Apart, RecordsFit DEF CommitConfigure, CallFits, Calls, NoCall
    <2>4. QED
      BY <2>1, <2>2, <2>3, OthersFit
  <1>22. ASSUME NEW c \in Operators, HaltArm(c)
        PROVE  (\A d \in Callers : CallFits(d)')
    <2>1. c \in Callers /\ srv'.last = srv.last
      BY <1>22, Apart DEF HaltArm, Typed, Sessions
    <2>2. /\ caller'[c] = [NoCall EXCEPT !.pc = "haltWrite", !.op = "halt"]
          /\ \A d \in Callers : d # c => caller'[d] = caller[d]
      BY <1>22, <2>1 DEF HaltArm, Goes, Typed
    <2>3. CallFits(c)'
      BY <1>22, <2>1, <2>2, Apart, RecordsFit DEF HaltArm, CallFits, Calls, NoCall
    <2>4. QED
      BY <2>1, <2>2, <2>3, OthersFit
  <1>23. ASSUME NEW c \in Operators, HaltWrite(c)
        PROVE  (\A d \in Callers : CallFits(d)')
    <2> DEFINE next == [caller[c] EXCEPT !.pc = "haltCommit", !.gen = srv.gen]
               f == Frame("halt", 0)
    <2>1. /\ c \in Callers /\ f \in Sent /\ Written(c, f, next) /\ srv' = srv
          /\ caller[c] \in Calls /\ CallFits(c)
      <3>1. c \in Callers /\ caller[c] \in Calls /\ CallFits(c)
        BY <1>23, Apart DEF Typed
      <3>2. f \in Sent
        BY <1>23, <3>1, AnswerFits DEF HaltWrite, Calls, Ops, CallFits
      <3>3. QED
        BY <1>23, <3>1, <3>2 DEF HaltWrite
    <2>2. next.pc = "haltCommit"
      BY <2>1 DEF Calls, NoCall
    <2> HIDE DEF next, f
    <2>3. /\ \A d \in Callers : d # c => caller'[d] = caller[d]
          /\ \/ caller'[c] = NoCall
             \/ caller'[c] = next /\ srv.conn \in Conns
      BY <2>1, WrittenIs DEF Typed
    <2>4. CallFits(c)'
      <3>1. CASE caller'[c] = NoCall
        BY <1>23, <3>1, Apart, RecordsFit DEF CallFits
      <3>2. CASE caller'[c] = next /\ srv.conn \in Conns
        <4>1. srv.conn \in 1..srv.last
          BY <3>2, Near
        <4>2. QED
          BY <1>23, <2>1, <2>2, <3>2, <4>1, Apart DEF CallFits, HaltWrite
      <3>3. QED
        BY <2>3, <3>1, <3>2
    <2>5. QED
      BY <2>1, <2>3, <2>4, OthersFit
  <1>24. ASSUME NEW c \in Operators, HaltCommit(c)
        PROVE  (\A d \in Callers : CallFits(d)')
    <2>1. c \in Callers /\ srv'.last = srv.last
      BY <1>24, Apart DEF HaltCommit, Typed, Sessions, Current
    <2>2. /\ caller'[c] = NoCall
          /\ \A d \in Callers : d # c => caller'[d] = caller[d]
      BY <1>24, <2>1 DEF HaltCommit, Goes, Typed
    <2>3. CallFits(c)'
      BY <1>24, <2>1, <2>2, Apart, RecordsFit DEF HaltCommit, CallFits, Calls, NoCall
    <2>4. QED
      BY <2>1, <2>2, <2>3, OthersFit
  <1>25. ASSUME NEW c \in Operators, ResumeWrite(c)
        PROVE  (\A d \in Callers : CallFits(d)')
    <2> DEFINE next == [NoCall EXCEPT !.pc = "resumeCommit", !.op = "resume", !.gen = srv.gen]
               f == Frame("resume", 0)
    <2>1. /\ c \in Callers /\ f \in Sent /\ Written(c, f, next) /\ srv' = srv
          /\ caller[c] \in Calls /\ CallFits(c)
      <3>1. c \in Callers /\ caller[c] \in Calls /\ CallFits(c)
        BY <1>25, Apart DEF Typed
      <3>2. f \in Sent
        BY <1>25, <3>1, AnswerFits DEF ResumeWrite, Calls, Ops, CallFits
      <3>3. QED
        BY <1>25, <3>1, <3>2 DEF ResumeWrite
    <2>2. next.pc = "resumeCommit"
      BY <2>1 DEF Calls, NoCall
    <2> HIDE DEF next, f
    <2>3. /\ \A d \in Callers : d # c => caller'[d] = caller[d]
          /\ \/ caller'[c] = NoCall
             \/ caller'[c] = next /\ srv.conn \in Conns
      BY <2>1, WrittenIs DEF Typed
    <2>4. CallFits(c)'
      <3>1. CASE caller'[c] = NoCall
        BY <1>25, <3>1, Apart, RecordsFit DEF CallFits
      <3>2. CASE caller'[c] = next /\ srv.conn \in Conns
        <4>1. srv.conn \in 1..srv.last
          BY <3>2, Near
        <4>2. QED
          BY <1>25, <2>1, <2>2, <3>2, <4>1, Apart DEF CallFits, ResumeWrite
      <3>3. QED
        BY <2>3, <3>1, <3>2
    <2>5. QED
      BY <2>1, <2>3, <2>4, OthersFit
  <1>26. ASSUME NEW c \in Operators, ResumeCommit(c)
        PROVE  (\A d \in Callers : CallFits(d)')
    <2>1. c \in Callers /\ srv'.last = srv.last /\ caller[c] \in Calls
      BY <1>26, Apart DEF ResumeCommit, Typed, Sessions
    <2>2. /\ caller'[c].pc \in {"idle", "disarm"}
          /\ \A d \in Callers : d # c => caller'[d] = caller[d]
      BY <1>26, <2>1, RecordsFit DEF ResumeCommit, Goes, Typed, Calls
    <2>3. CallFits(c)'
      BY <1>26, <2>1, <2>2, Apart DEF CallFits
    <2>4. QED
      BY <2>1, <2>2, <2>3, OthersFit
  <1>27. ASSUME NEW c \in Operators, ResumeDisarm(c)
        PROVE  (\A d \in Callers : CallFits(d)')
    <2>1. c \in Callers /\ srv'.last = srv.last
      BY <1>27, Apart DEF ResumeDisarm, Typed, Sessions
    <2>2. /\ caller'[c] = NoCall
          /\ \A d \in Callers : d # c => caller'[d] = caller[d]
      BY <1>27, <2>1 DEF ResumeDisarm, Goes, Typed
    <2>3. CallFits(c)'
      BY <1>27, <2>1, <2>2, Apart, RecordsFit DEF ResumeDisarm, CallFits, Calls, NoCall
    <2>4. QED
      BY <2>1, <2>2, <2>3, OthersFit
  <1>28. CASE UNCHANGED vars
    BY <1>28 DEF vars, CallFits
  <1>29. QED
    BY <1>1, <1>2, <1>3, <1>4, <1>5, <1>6, <1>7, <1>8, <1>9, <1>10, <1>11, <1>12,
       <1>13, <1>14, <1>15, <1>16, <1>17, <1>18, <1>19, <1>20, <1>21, <1>22, <1>23,
       <1>24, <1>25, <1>26, <1>27, <1>28
       DEF Next, Extension, Serve, Proceed, Command

LEMMA ShapedStep == Shaped /\ [Next]_vars => Shaped'
  BY TypedStep, PlacesStep, FitsStep DEF Shaped

(***************************************************************************)
(* Which request a frame is about: its number is on one connection only,    *)
(* the one its caller wrote to.                                             *)
(***************************************************************************)
On(x) == Rids(toExt[x]) \cup Rids(toHx[x])

Routed ==
    /\ \A x \in Conns : On(x) \subseteq 0..nextId
    /\ \A f \in replies : f.rid =< nextId
    /\ \A c \in Callers : caller[c].pc \in {"write", "wait"} => caller[c].rid \in 1..nextId
    /\ \A c, d \in Callers :
          /\ c # d
          /\ caller[c].pc \in {"write", "wait"}
          /\ caller[d].pc \in {"write", "wait"}
          => caller[c].rid # caller[d].rid
    /\ \A c \in Callers : \A x \in Conns :
          caller[c].pc \in {"write", "wait"} /\ x # caller[c].on => caller[c].rid \notin On(x)
    /\ \A c \in Callers : \A f \in replies :
          caller[c].pc = "write" => f.rid # caller[c].rid

LEMMA OneRid ==
    ASSUME NEW S, NEW a \in S
    PROVE  Rids(<<a>>) = {a.rid}
  BY OneFrame DEF Rids

\* Nothing but a caller puts a request's number on a wire.
LEMMA OnStep ==
    ASSUME Shaped, [Next]_vars, \A c \in Callers : ~WriteRequest(c)
    PROVE  \A x \in Conns : On(x)' \subseteq On(x) \cup {0}
  <1> DEFINE Kept == \A x \in Conns : On(x)' \subseteq On(x) \cup {0}
  <1>1. ASSUME UNCHANGED <<toExt, toHx>> PROVE Kept
    BY <1>1 DEF On
  <1>2. CASE Dial
    <2>1. /\ toExt' = toExt /\ dial + 1 \in Conns
          /\ \A x \in Conns : x # dial + 1 => toHx'[x] = toHx[x]
          /\ toHx'[dial + 1] = <<Answer("hello", 0, 0, FALSE)>>
      <3>1. dial + 1 \in Conns
        BY <1>2, Near, BridgeAssumption DEF Dial, Conns
      <3>2. QED
        BY <1>2, <3>1 DEF Dial, Shaped, Typed
    <2>2. Rids(toHx'[dial + 1]) = {0}
      BY <2>1, OneRid DEF Answer
    <2>3. QED
      BY <2>1, <2>2 DEF On
  <1>3. CASE ExtHandle
    <2> DEFINE f == Head(toExt[dial])
    <2>1. /\ dial \in Conns /\ toExt[dial] # <<>>
          /\ toExt[dial] \in Seq(Sent) /\ toHx[dial] \in Seq(Received)
          /\ \A x \in Conns : x # dial => toExt'[x] = toExt[x] /\ toHx'[x] = toHx[x]
          /\ toExt'[dial] = Tail(toExt[dial])
      BY <1>3, HandleIs DEF Shaped, Typed
    <2>2. Rids(toExt'[dial]) \subseteq Rids(toExt[dial]) /\ f.rid \in Rids(toExt[dial])
      BY <2>1, ReadsOne
    <2>3. Rids(toHx'[dial]) \subseteq Rids(toHx[dial]) \cup {0, f.rid}
      <3>1. CASE toHx' = toHx
        BY <3>1
      <3>2. ASSUME NEW a \in Received, a.rid = f.rid,
                   toHx' = [toHx EXCEPT ![dial] = Append(toHx[dial], a)]
            PROVE  Rids(toHx'[dial]) \subseteq Rids(toHx[dial]) \cup {0, f.rid}
        <4>1. toHx'[dial] = Append(toHx[dial], a)
          BY <2>1, <3>2 DEF Shaped, Typed
        <4>2. QED
          BY <2>1, <3>2, <4>1, Writes
      <3>3. ASSUME NEW h \in Received, NEW a \in Received, h.rid = 0, a.rid = f.rid,
                   toHx' = [toHx EXCEPT ![dial] = Append(Append(toHx[dial], h), a)]
            PROVE  Rids(toHx'[dial]) \subseteq Rids(toHx[dial]) \cup {0, f.rid}
        <4> DEFINE q == Append(toHx[dial], h)
        <4>1. toHx'[dial] = Append(q, a)
          BY <2>1, <3>3 DEF Shaped, Typed
        <4>2. q \in Seq(Received) /\ Rids(q) = Rids(toHx[dial]) \cup {0}
          BY <2>1, <3>3, AppendProperties, Writes
        <4> HIDE DEF q
        <4>3. Rids(Append(q, a)) = Rids(q) \cup {a.rid}
          BY <4>2, Writes
        <4>4. QED
          BY <3>3, <4>1, <4>2, <4>3
      <3>4. QED
        BY <1>3, <3>1, <3>2, <3>3, HandleIs
    <2>4. QED
      BY <2>1, <2>2, <2>3 DEF On
  <1>4. ASSUME NEW t, Read(t) PROVE Kept
    <2>1. /\ srv.conn \in Conns /\ toHx[srv.conn] \in Seq(Received) /\ toHx[srv.conn] # <<>>
          /\ toHx'[srv.conn] = Tail(toHx[srv.conn]) /\ toExt' = toExt
          /\ \A x \in Conns : x # srv.conn => toHx'[x] = toHx[x]
      BY <1>4, ReadIs DEF Shaped, Typed
    <2>2. Rids(toHx'[srv.conn]) \subseteq Rids(toHx[srv.conn])
      BY <2>1, ReadsOne
    <2>3. QED
      BY <2>1, <2>2 DEF On
  <1>5. ASSUME NEW x \in Conns, NEW f \in Sent, f.rid = 0, toHx' = toHx,
               toExt' = [toExt EXCEPT ![x] = Append(toExt[x], f)]
        PROVE  Kept
    <2>1. /\ toExt[x] \in Seq(Sent) /\ toExt'[x] = Append(toExt[x], f)
          /\ \A y \in Conns : y # x => toExt'[y] = toExt[y]
      BY <1>5 DEF Shaped, Typed
    <2>2. Rids(toExt'[x]) = Rids(toExt[x]) \cup {0}
      BY <1>5, <2>1, Writes
    <2>3. QED
      BY <1>5, <2>1, <2>2 DEF On
  <1>6. \A t \in {"halt", "resume"} : Frame(t, 0) \in Sent /\ Frame(t, 0).rid = 0
    BY AnswerFits DEF Ops, Frame
  <1>7. CASE Reassert
    <2>1. srv.conn \in Conns /\ toHx' = toHx
      BY <1>7, Near DEF Reassert, Shaped, Places
    <2>2. toExt' = toExt \/ toExt' = [toExt EXCEPT ![srv.conn] = Append(@, Frame("halt", 0))]
      BY <1>7 DEF Reassert
    <2>3. QED
      BY <1>1, <1>5, <1>6, <2>1, <2>2
  <1>8. ASSUME NEW c \in Operators, NEW t \in {"halt", "resume"}, NEW next,
               Written(c, Frame(t, 0), next), toHx' = toHx
        PROVE  Kept
    <2>1. c \in Callers
      BY Apart
    <2>2. \/ toExt' = toExt
          \/ /\ srv.conn \in Conns
             /\ toExt' = [toExt EXCEPT ![srv.conn] = Append(toExt[srv.conn], Frame(t, 0))]
      BY <1>6, <1>8, <2>1, WrittenIs
    <2>3. QED
      BY <1>1, <1>5, <1>6, <1>8, <2>2
  <1>9. ASSUME NEW c \in Operators, HaltWrite(c) \/ ResumeWrite(c) PROVE Kept
    BY <1>8, <1>9 DEF HaltWrite, ResumeWrite
  <1>10. ASSUME NEW c \in Configurers \cup Senders, Proceed(c) \/ Timeout(c) PROVE Kept
    <2>1. ~WriteRequest(c)
      BY <1>10, Apart
    <2>2. UNCHANGED <<toExt, toHx>>
      BY <1>10, <2>1 DEF Proceed, Timeout, Register, Collect, GiveUp, Return,
                         CommitConfigure, wireVars
    <2>3. QED
      BY <1>1, <2>2
  <1>11. ASSUME NEW c \in Operators, Command(c) PROVE Kept
    <2>1. CASE HaltWrite(c) \/ ResumeWrite(c)
      BY <1>9, <2>1
    <2>2. CASE HaltArm(c) \/ HaltCommit(c) \/ ResumeCommit(c) \/ ResumeDisarm(c)
      BY <1>1, <2>2 DEF HaltArm, HaltCommit, ResumeCommit, ResumeDisarm, wireVars
    <2>3. QED
      BY <1>11, <2>1, <2>2 DEF Command
  <1>12. CASE Serve
    <2>1. CASE Hello \/ OnHalted \/ Deliver
      BY <1>4, <2>1 DEF Hello, OnHalted, Deliver
    <2>2. CASE Accept \/ ReassertCommit \/ PeerGone \/ Reset
      BY <1>1, <2>2 DEF Accept, ReassertCommit, PeerGone, Reset, wireVars
    <2>3. QED
      BY <1>7, <1>12, <2>1, <2>2 DEF Serve
  <1>13. CASE ExtDies \/ HaltByHand \/ UNCHANGED vars
    BY <1>1, <1>13 DEF ExtDies, HaltByHand, vars, wireVars
  <1>14. ASSUME \/ \E c \in Configurers : \E op \in {"configure", "misconfigure"} :
                       BeginConfigure(c, op)
                \/ \E c \in Senders : BeginSend(c)
         PROVE  Kept
    BY <1>1, <1>14 DEF BeginConfigure, BeginSend, wireVars
  <1>15. QED
    BY <1>2, <1>3, <1>10, <1>11, <1>12, <1>13, <1>14 DEF Next, Extension

LEMMA RoutedKept ==
    ASSUME Shaped, Routed, \A x \in Conns : On(x)' \subseteq On(x) \cup {0},
           nextId' = nextId, caller' \in [Callers -> Calls],
           \A f \in replies' : f \in replies \/ (srv.conn \in Conns /\ f.rid \in On(srv.conn)),
           \A c \in Callers : caller'[c] = caller[c] \/ caller'[c].pc \notin {"write", "wait"}
    PROVE  Routed'
  <1>1. \A x \in Conns : On(x)' \subseteq 0..nextId'
    BY DEF Routed, Shaped, Typed
  <1>2. \A f \in replies' : f.rid =< nextId'
    BY DEF Routed, Shaped, Typed
  <1>3. \A c \in Callers : caller[c].pc = "write" => caller[c].on \notin Conns
    <2>1. \A c \in Callers : caller[c].pc = "write" => caller[c].on = 0
      BY DEF Shaped, CallFits
    <2>2. 0 \notin Conns
      BY Near
    <2>3. QED
      BY <2>1, <2>2
  <1>4. \A c \in Callers : \A f \in replies' :
           caller'[c].pc = "write" => f.rid # caller'[c].rid
    BY <1>3 DEF Routed
  <1>5. \A c \in Callers : \A x \in Conns :
           caller'[c].pc \in {"write", "wait"} /\ x # caller'[c].on
              => caller'[c].rid \notin On(x)'
    <2>1. \A c \in Callers : caller'[c].pc \in {"write", "wait"} => caller'[c].rid # 0
      BY DEF Routed
    <2>2. QED
      BY <2>1 DEF Routed
  <1>6. /\ \A c \in Callers :
              caller'[c].pc \in {"write", "wait"} => caller'[c].rid \in 1..nextId'
        /\ \A c, d \in Callers :
              /\ c # d
              /\ caller'[c].pc \in {"write", "wait"}
              /\ caller'[d].pc \in {"write", "wait"}
              => caller'[c].rid # caller'[d].rid
    BY DEF Routed
  <1>7. QED
    BY <1>1, <1>2, <1>4, <1>5, <1>6 DEF Routed

LEMMA RoutedInit == Init => Routed
  <1> SUFFICES ASSUME Init PROVE Routed
    OBVIOUS
  <1>1. \A x \in Conns : On(x) = {}
    BY DEF Init, On, Rids
  <1>2. QED
    BY <1>1, RecordsFit DEF Init, Routed

LEMMA RoutedRegister ==
    ASSUME Shaped, Routed, NEW c \in Callers, Register(c)
    PROVE  Routed'
  <1>1. /\ nextId \in Nat /\ nextId' = nextId + 1
        /\ caller'[c].pc = "write" /\ caller'[c].rid = nextId + 1
        /\ \A d \in Callers : d # c => caller'[d] = caller[d]
        /\ UNCHANGED <<toExt, toHx, replies>>
    BY DEF Register, Goes, Shaped, Typed, Calls, wireVars
  <1>2. \A x \in Conns : On(x)' = On(x)
    BY <1>1 DEF On
  <1>3. \A n \in 0..nextId : n \in 0..(nextId + 1) /\ n # nextId + 1
    BY <1>1
  <1>4. \A n \in 1..nextId : n \in 1..(nextId + 1) /\ n # nextId + 1
    BY <1>1
  <1>5. nextId + 1 \in 1..(nextId + 1)
    BY <1>1
  <1>6. \A f \in replies : f.rid \in Nat /\ f.rid =< nextId + 1 /\ f.rid # nextId + 1
    <2>1. \A f \in replies : f.rid \in Nat
      BY DEF Shaped, Typed, Received, AnswerRecord
    <2>2. QED
      BY <1>1, <2>1 DEF Routed
  <1>7. /\ \A x \in Conns : On(x)' \subseteq 0..nextId'
        /\ \A f \in replies' : f.rid =< nextId'
        /\ \A d \in Callers : caller'[d].pc \in {"write", "wait"} => caller'[d].rid \in 1..nextId'
    BY <1>1, <1>2, <1>3, <1>4, <1>5, <1>6 DEF Routed
  <1>8. \A d \in Callers : \A x \in Conns :
           caller'[d].pc \in {"write", "wait"} /\ x # caller'[d].on => caller'[d].rid \notin On(x)'
    BY <1>1, <1>2, <1>3 DEF Routed
  <1>9. \A d, e \in Callers :
           /\ d # e
           /\ caller'[d].pc \in {"write", "wait"}
           /\ caller'[e].pc \in {"write", "wait"}
           => caller'[d].rid # caller'[e].rid
    BY <1>1, <1>4 DEF Routed
  <1>10. \A d \in Callers : \A f \in replies' :
            caller'[d].pc = "write" => f.rid # caller'[d].rid
    BY <1>1, <1>6 DEF Routed
  <1>11. QED
    BY <1>7, <1>8, <1>9, <1>10 DEF Routed

\* What a request's frame does to the wires and to its call.
LEMMA RequestIs ==
    ASSUME Shaped, Routed, NEW c \in Callers, WriteRequest(c)
    PROVE  /\ UNCHANGED <<toHx, open, dial, ext, srv, serve, callVars, durable, ghostVars>>
           /\ \A d \in Callers : d # c => caller'[d] = caller[d]
           /\ caller[c].pc = "write"
           /\ \/ /\ srv.conn \in Conns /\ Frame(caller[c].op, caller[c].rid) \in Sent
                 /\ toExt[srv.conn] \in Seq(Sent)
                 /\ toExt'[srv.conn] =
                       Append(toExt[srv.conn], Frame(caller[c].op, caller[c].rid))
                 /\ \A x \in Conns : x # srv.conn => toExt'[x] = toExt[x]
                 /\ caller'[c].pc = "wait" /\ caller'[c].on = srv.conn
                 /\ caller'[c].rid = caller[c].rid /\ caller'[c].gen = caller[c].gen
                 /\ caller'[c].op = caller[c].op
              \/ /\ srv.conn = None \/ ~(ext.up /\ dial = srv.conn)
                 /\ toExt' = toExt /\ caller'[c] = NoCall
  <1> DEFINE next == [caller[c] EXCEPT !.pc = "wait", !.on = srv.conn]
             f == Frame(caller[c].op, caller[c].rid)
  <1>1. caller[c] \in Calls /\ CallFits(c) /\ caller[c].pc = "write"
    BY DEF Shaped, Typed, WriteRequest
  <1>2. c \in Configurers \/ c \in Senders
    BY <1>1 DEF CallFits, Callers
  <1>3. caller[c].op \in Ops /\ f \in Sent
    BY <1>1, <1>2, AnswerFits DEF CallFits, Calls, Ops
  <1>4. Written(c, f, next)
    BY DEF WriteRequest
  <1>5. /\ next.pc = "wait" /\ next.on = srv.conn /\ next.rid = caller[c].rid
        /\ next.gen = caller[c].gen /\ next.op = caller[c].op
    BY <1>1 DEF Calls
  <1>6. UNCHANGED <<toHx, open, dial, ext, srv, serve, callVars, durable, ghostVars>>
    BY DEF WriteRequest
  <1> HIDE DEF f, next
  <1>7. CASE /\ srv.conn \in Conns /\ toExt[srv.conn] \in Seq(Sent)
             /\ toExt' = [toExt EXCEPT ![srv.conn] = Append(toExt[srv.conn], f)]
             /\ caller' = [caller EXCEPT ![c] = next]
    <2>1. /\ caller'[c] = next /\ \A d \in Callers : d # c => caller'[d] = caller[d]
          /\ toExt'[srv.conn] = Append(toExt[srv.conn], f)
          /\ \A x \in Conns : x # srv.conn => toExt'[x] = toExt[x]
      BY <1>7 DEF Shaped, Typed
    <2>2. QED
      BY <1>1, <1>3, <1>5, <1>6, <1>7, <2>1 DEF f
  <1>8. CASE /\ srv.conn = None \/ ~(ext.up /\ dial = srv.conn)
             /\ toExt' = toExt
             /\ caller' = [caller EXCEPT ![c] = NoCall]
    <2>1. caller'[c] = NoCall /\ \A d \in Callers : d # c => caller'[d] = caller[d]
      BY <1>8 DEF Shaped, Typed
    <2>2. QED
      BY <1>1, <1>6, <1>8, <2>1
  <1>9. QED
    BY <1>3, <1>4, <1>7, <1>8, WrittenIs

LEMMA RoutedWrite ==
    ASSUME Shaped, Routed, NEW c \in Callers, WriteRequest(c)
    PROVE  Routed'
  <1>1. /\ UNCHANGED <<toHx, nextId, replies>>
        /\ \A d \in Callers : d # c => caller'[d] = caller[d]
        /\ caller[c].pc = "write"
    BY RequestIs DEF callVars
  <1>2. CASE toExt' = toExt /\ caller'[c] = NoCall
    BY <1>1, <1>2, RecordsFit DEF Routed, On
  <1>3. CASE /\ srv.conn \in Conns /\ Frame(caller[c].op, caller[c].rid) \in Sent
             /\ toExt[srv.conn] \in Seq(Sent)
             /\ toExt'[srv.conn] =
                   Append(toExt[srv.conn], Frame(caller[c].op, caller[c].rid))
             /\ \A x \in Conns : x # srv.conn => toExt'[x] = toExt[x]
             /\ caller'[c].pc = "wait" /\ caller'[c].on = srv.conn
             /\ caller'[c].rid = caller[c].rid
    <2>1. Rids(toExt'[srv.conn]) = Rids(toExt[srv.conn]) \cup {caller[c].rid}
      BY <1>3, Writes DEF Frame
    <2>3. caller[c].rid \in 1..nextId /\ nextId \in Nat
      BY <1>1 DEF Routed, Shaped, Typed
    <2>4. \A d \in Callers : d # c /\ caller[d].pc \in {"write", "wait"}
                               => caller[d].rid # caller[c].rid
      BY <1>1 DEF Routed
    <2>5. \A x \in Conns : On(x)' = IF x = srv.conn THEN On(x) \cup {caller[c].rid} ELSE On(x)
      BY <1>1, <1>3, <2>1 DEF On
    <2>6. \A x \in Conns : On(x)' \subseteq 0..nextId'
      BY <1>1, <2>3, <2>5 DEF Routed
    <2>7. \A d \in Callers : \A x \in Conns :
             caller'[d].pc \in {"write", "wait"} /\ x # caller'[d].on
                => caller'[d].rid \notin On(x)'
      <3>1. CASE caller[c].on = 0
        <4>1. \A x \in Conns : x # caller[c].on
          BY <3>1, Near
        <4>2. QED
          BY <1>1, <1>3, <2>4, <2>5, <4>1 DEF Routed
      <3>2. QED
        BY <1>1, <3>1 DEF Shaped, CallFits
    <2>8. \A d \in Callers : caller'[d].pc \in {"write", "wait"} =>
             /\ caller'[d].rid = caller[d].rid /\ caller[d].pc \in {"write", "wait"}
             /\ caller'[d].rid \in 1..nextId'
      BY <1>1, <1>3, <2>3 DEF Routed
    <2>9. \A d, e \in Callers :
             /\ d # e
             /\ caller'[d].pc \in {"write", "wait"}
             /\ caller'[e].pc \in {"write", "wait"}
             => caller'[d].rid # caller'[e].rid
      BY <2>8 DEF Routed
    <2>10. \A d \in Callers : \A f \in replies' :
              caller'[d].pc = "write" => f.rid # caller'[d].rid
      BY <1>1, <1>3 DEF Routed
    <2>11. \A f \in replies' : f.rid =< nextId'
      BY <1>1 DEF Routed
    <2>12. QED
      BY <2>6, <2>7, <2>8, <2>9, <2>10, <2>11 DEF Routed
  <1>4. QED
    BY <1>2, <1>3, RequestIs

\* The only steps that register or write a request are those that say so.
LEMMA RoutedStep == Shaped /\ Routed /\ [Next]_vars => Routed'
  <1> SUFFICES ASSUME Shaped, Routed, [Next]_vars PROVE Routed'
    OBVIOUS
  <1>1. Shaped'
    BY ShapedStep
  <1>2. ASSUME NEW c \in Callers, Register(c) \/ WriteRequest(c) PROVE Routed'
    BY <1>2, RoutedRegister, RoutedWrite
  <1>3. ASSUME \A c \in Callers : ~Register(c) /\ ~WriteRequest(c) PROVE Routed'
    <2>1. \A x \in Conns : On(x)' \subseteq On(x) \cup {0}
      BY <1>3, OnStep
    <2>2. caller' \in [Callers -> Calls]
      BY <1>1 DEF Shaped, Typed
    <2>3. CASE Deliver
      <3>1. Read({"configured", "bad_config", "result", "error"})
        BY <2>3 DEF Deliver
      <3>2. srv.conn \in Conns /\ Head(toHx[srv.conn]).rid \in On(srv.conn)
        BY <3>1, ReadIs, ReadsOne DEF On
      <3>3. \A f \in replies' : f \in replies \/ f.rid \in On(srv.conn)
        BY <2>3, <3>2 DEF Deliver
      <3>4. nextId' = nextId /\ caller' = caller
        BY <2>3 DEF Deliver
      <3>5. QED
        BY <2>1, <2>2, <3>2, <3>3, <3>4, RoutedKept
    <2>4. CASE Extension \/ HaltByHand \/ UNCHANGED vars
               \/ Accept \/ Hello \/ Reassert \/ ReassertCommit \/ OnHalted \/ PeerGone \/ Reset
      <3>1. nextId' = nextId /\ replies' \subseteq replies /\ caller' = caller
        BY <2>4 DEF Extension, Dial, ExtDies, ExtHandle, HaltByHand, vars, Accept, Hello,
                    Reassert, ReassertCommit, OnHalted, PeerGone, Reset, callVars
      <3>2. QED
        BY <2>1, <2>2, <3>1, RoutedKept
    <2>5. ASSUME NEW c \in Callers, nextId' = nextId, replies' \subseteq replies,
                 caller'[c].pc \notin {"write", "wait"},
                 \A d \in Callers : d # c => caller'[d] = caller[d]
          PROVE  Routed'
      BY <2>1, <2>2, <2>5, RoutedKept
    <2>6. ASSUME NEW c \in Callers, NEW next, Goes(c, next),
                 next.pc \notin {"write", "wait"},
                 nextId' = nextId, replies' \subseteq replies
          PROVE  Routed'
      <3>1. caller'[c] = next /\ \A d \in Callers : d # c => caller'[d] = caller[d]
        BY <2>6 DEF Goes, Shaped, Typed
      <3>2. QED
        BY <2>5, <2>6, <3>1
    <2>7. \A c \in Callers, pc \in PCs :
             /\ [NoCall EXCEPT !.pc = pc].pc = pc
             /\ [caller[c] EXCEPT !.pc = pc].pc = pc
      BY DEF NoCall, Shaped, Typed, Calls
    <2>8. ASSUME NEW c \in Configurers,
                 \E op \in {"configure", "misconfigure"} : BeginConfigure(c, op)
          PROVE  Routed'
      <3>1. PICK op \in {"configure", "misconfigure"} : BeginConfigure(c, op)
        BY <2>8
      <3>2. [NoCall EXCEPT !.pc = "register", !.op = op, !.gen = srv.gen].pc = "register"
        BY DEF NoCall
      <3>3. QED
        BY <2>6, <3>1, <3>2, Apart DEF BeginConfigure, callVars
    <2>9. ASSUME NEW c \in Senders, BeginSend(c) PROVE Routed'
      <3>1. [NoCall EXCEPT !.pc = "register", !.op = "send"].pc = "register"
        BY DEF NoCall
      <3>2. QED
        BY <2>6, <2>9, <3>1, Apart DEF BeginSend, callVars
    <2>10. ASSUME NEW c \in Configurers \cup Senders, Timeout(c) PROVE Routed'
      BY <2>6, <2>7, <2>10, Apart DEF Timeout, callVars, PCs
    <2>11. ASSUME NEW c \in Configurers \cup Senders, GiveUp(c) \/ Return(c) \/ CommitConfigure(c)
           PROVE  Routed'
      BY <2>6, <2>11, Apart, RecordsFit DEF GiveUp, Return, CommitConfigure, callVars
    <2>12. ASSUME NEW c \in Configurers \cup Senders, Collect(c) PROVE Routed'
      <3>1. nextId' = nextId /\ replies' \subseteq replies
        BY <2>12 DEF Collect
      <3>2. CASE Goes(c, NoCall)
        BY <2>6, <3>1, <3>2, Apart, RecordsFit
      <3>3. ASSUME NEW f,
                   Goes(c, [caller[c] EXCEPT !.pc = IF caller[c].op = "send" THEN "answered"
                                                                             ELSE "commit",
                                             !.reply = f])
            PROVE  Routed'
        <4> DEFINE next == [caller[c] EXCEPT !.pc = IF caller[c].op = "send" THEN "answered"
                                                                             ELSE "commit",
                                             !.reply = f]
        <4>1. caller[c] \in Calls /\ c \in Callers
          BY Apart DEF Shaped, Typed
        <4>2. next.pc \in {"answered", "commit"}
          BY <4>1 DEF Calls
        <4> HIDE DEF next
        <4>3. Goes(c, next)
          BY <3>3 DEF next
        <4>4. QED
          BY <2>6, <3>1, <4>1, <4>2, <4>3
      <3>4. QED
        BY <2>12, <3>2, <3>3 DEF Collect
    <2>13. ASSUME NEW c \in Operators, Command(c) PROVE Routed'
      <3>1. caller'[c].pc \in {"idle", "haltWrite", "haltCommit", "resumeCommit", "disarm"}
        BY <1>1, Apart DEF Shaped, CallFits
      <3>2. nextId' = nextId /\ replies' = replies
        BY <2>13 DEF Command, HaltArm, HaltWrite, HaltCommit, ResumeWrite, ResumeCommit,
                     ResumeDisarm, callVars
      <3>3. \E next : Goes(c, next)
        BY <2>13 DEF Command, HaltArm, HaltWrite, HaltCommit, ResumeWrite, ResumeCommit,
                     ResumeDisarm, Written
      <3>4. \A d \in Callers : d # c => caller'[d] = caller[d]
        BY <3>3, Apart DEF Goes, Shaped, Typed
      <3>5. QED
        BY <2>5, <3>1, <3>2, <3>4, Apart
    <2>14. QED
      BY <1>3, <2>3, <2>4, <2>8, <2>9, <2>10, <2>11, <2>12, <2>13, Apart
         DEF Next, Serve, Proceed
  <1>4. QED
    BY <1>2, <1>3

(***************************************************************************)
(* A tripped send's reply, from the wire to whoever waits for it.           *)
(***************************************************************************)
TripsAnnounced ==
    /\ \A x \in Conns : Announced(toHx[x], x, seen)
    /\ \A c \in Callers : \A f \in replies :
          caller[c].pc = "wait" /\ f.rid = caller[c].rid /\ f.trip => caller[c].on \in seen
    /\ \A c \in Callers : caller[c].pc = "answered" /\ caller[c].reply.trip => caller[c].on \in seen

TripInv == Shaped /\ Routed /\ TripsAnnounced

LEMMA TripInit == Init => TripInv
  <1> SUFFICES ASSUME Init PROVE TripInv
    OBVIOUS
  <1>1. TripsAnnounced
    BY RecordsFit DEF Init, TripsAnnounced, Announced
  <1>2. QED
    BY <1>1, ShapedInit, RoutedInit DEF TripInv

\* Frames come and go without any being heard out of turn.
LEMMA AnnouncedStep ==
    ASSUME TripInv, [Next]_vars
    PROVE  /\ \A x \in Conns : Announced(toHx[x], x, seen)'
           /\ seen \subseteq seen'
  <1> DEFINE Kept == /\ \A x \in Conns : Announced(toHx[x], x, seen)'
                     /\ seen \subseteq seen'
  <1> USE DEF TripInv
  <1>1. ASSUME toHx' = toHx, seen' = seen PROVE Kept
    BY <1>1 DEF TripsAnnounced
  <1>2. ASSUME NEW y \in Conns, \A x \in Conns : x # y => toHx'[x] = toHx[x],
               seen' = seen, Announced(toHx'[y], y, seen)
        PROVE  Kept
    BY <1>2 DEF TripsAnnounced
  <1>3. CASE Dial
    <2>1. /\ dial + 1 \in Conns /\ seen' = seen
          /\ \A x \in Conns : x # dial + 1 => toHx'[x] = toHx[x]
          /\ toHx'[dial + 1] = <<Answer("hello", 0, 0, FALSE)>>
      <3>1. dial + 1 \in Conns
        BY <1>3, Near, BridgeAssumption DEF Dial, Conns
      <3>2. QED
        BY <1>3, <3>1 DEF Dial, Shaped, Typed, ghostVars
    <2>2. ~Answer("hello", 0, 0, FALSE).trip
      BY DEF Answer
    <2>3. Announced(<<Answer("hello", 0, 0, FALSE)>>, dial + 1, seen)
      <3> DEFINE a == Answer("hello", 0, 0, FALSE)
      <3>1. ~a.trip
        BY <2>2
      <3> HIDE DEF a
      <3>2. DOMAIN <<a>> = {1} /\ <<a>>[1] = a
        OBVIOUS
      <3>3. Announced(<<a>>, dial + 1, seen)
        BY <3>1, <3>2 DEF Announced
      <3>4. QED
        BY <3>3 DEF a
    <2>4. QED
      BY <1>2, <2>1, <2>3
  <1>4. CASE ExtHandle
    <2>1. /\ dial \in Conns /\ toHx[dial] \in Seq(Received) /\ seen' = seen
          /\ \A x \in Conns : x # dial => toHx'[x] = toHx[x]
          /\ Announced(toHx[dial], dial, seen)
      BY <1>4, HandleIs DEF ExtHandle, ghostVars, Shaped, Typed, TripsAnnounced
    <2>2. ASSUME NEW a \in Received, ~a.trip,
                 toHx' = [toHx EXCEPT ![dial] = Append(toHx[dial], a)]
          PROVE  Kept
      <3>1. toHx'[dial] = Append(toHx[dial], a)
        BY <2>1, <2>2 DEF Shaped, Typed
      <3>2. Announced(Append(toHx[dial], a), dial, seen)
        BY <2>1, <2>2, AnnouncedKept
      <3>3. QED
        BY <1>2, <2>1, <3>1, <3>2
    <2>3. ASSUME NEW h \in Received, NEW a \in Received, h.t = "halted", ~h.trip,
                 toHx' = [toHx EXCEPT ![dial] = Append(Append(toHx[dial], h), a)]
          PROVE  Kept
      <3>1. toHx'[dial] = Append(Append(toHx[dial], h), a)
        BY <2>1, <2>3 DEF Shaped, Typed
      <3>2. Announced(Append(Append(toHx[dial], h), a), dial, seen)
        BY <2>1, <2>3, AnnouncedKept
      <3>3. QED
        BY <1>2, <2>1, <3>1, <3>2
    <2>4. QED
      BY <1>1, <1>4, <2>1, <2>2, <2>3, HandleIs
  <1>5. ASSUME NEW t, Read(t), "halted" \notin t, seen' = seen PROVE Kept
    <2>1. /\ srv.conn \in Conns /\ toHx[srv.conn] \in Seq(Received) /\ toHx[srv.conn] # <<>>
          /\ toHx'[srv.conn] = Tail(toHx[srv.conn])
          /\ Head(toHx[srv.conn]).t # "halted"
          /\ \A x \in Conns : x # srv.conn => toHx'[x] = toHx[x]
      BY <1>5, ReadIs DEF Shaped, Typed
    <2>2. Announced(Tail(toHx[srv.conn]), srv.conn, seen)
      <3>1. Announced(toHx[srv.conn], srv.conn, seen)
        BY <2>1 DEF TripsAnnounced
      <3>2. QED
        BY <2>1, <3>1, AnnouncedKept
    <2>3. QED
      BY <1>2, <1>5, <2>1, <2>2
  <1>6. CASE OnHalted
    <2>1. Read({"halted"}) /\ seen' = seen \cup {srv.conn}
      BY <1>6 DEF OnHalted
    <2>2. /\ srv.conn \in Conns /\ toHx[srv.conn] \in Seq(Received) /\ toHx[srv.conn] # <<>>
          /\ toHx'[srv.conn] = Tail(toHx[srv.conn])
          /\ Head(toHx[srv.conn]).t = "halted"
          /\ \A x \in Conns : x # srv.conn => toHx'[x] = toHx[x]
      BY <2>1, ReadIs DEF Shaped, Typed
    <2>3. \A x \in Conns : Announced(toHx[x], x, seen')
      BY <2>1 DEF TripsAnnounced, Announced
    <2>4. Announced(Tail(toHx[srv.conn]), srv.conn, seen')
      <3>1. Announced(toHx[srv.conn], srv.conn, seen') /\ srv.conn \in seen'
        BY <2>1, <2>2, <2>3
      <3>2. QED
        BY <2>2, <3>1, AnnouncedKept
    <2>6. \A x \in Conns : Announced(toHx'[x], x, seen')
      BY <2>2, <2>3, <2>4
    <2>7. QED
      BY <2>1, <2>6
  <1>7. CASE Serve
    <2>1. CASE Hello \/ Deliver
      BY <1>5, <2>1 DEF Hello, Deliver, ghostVars
    <2>2. CASE Accept \/ Reassert \/ ReassertCommit \/ PeerGone \/ Reset
      BY <1>1, <2>2 DEF Accept, Reassert, ReassertCommit, PeerGone, Reset, wireVars, ghostVars
    <2>3. QED
      BY <1>6, <1>7, <2>1, <2>2 DEF Serve
  <1>8. CASE ExtDies \/ HaltByHand \/ UNCHANGED vars
    BY <1>1, <1>8 DEF ExtDies, HaltByHand, vars, wireVars, ghostVars
  <1>9. ASSUME NEW c \in Callers,
               \/ \E op \in {"configure", "misconfigure"} : BeginConfigure(c, op)
               \/ BeginSend(c) \/ Proceed(c) \/ Timeout(c) \/ Command(c)
        PROVE  Kept
    <2>1. toHx' = toHx /\ seen' = seen
      BY <1>9 DEF BeginConfigure, BeginSend, Proceed, Timeout, Command, Register, WriteRequest,
                  Collect, GiveUp, Return, CommitConfigure, HaltArm, HaltWrite, HaltCommit,
                  ResumeWrite, ResumeCommit, ResumeDisarm, wireVars, ghostVars
    <2>2. QED
      BY <1>1, <2>1
  <1>10. QED
    BY <1>3, <1>4, <1>7, <1>8, <1>9, Apart DEF Next, Extension

\* A reply is held for the caller that wrote the request, and it only.
LEMMA TripStep == TripInv /\ [Next]_vars => TripInv'
  <1> SUFFICES ASSUME TripInv, [Next]_vars PROVE TripInv'
    OBVIOUS
  <1>1. Shaped' /\ Routed'
    BY ShapedStep, RoutedStep DEF TripInv
  <1>2. /\ \A x \in Conns : Announced(toHx[x], x, seen)'
        /\ seen \subseteq seen'
    BY AnnouncedStep
  <1> DEFINE Kept == /\ \A c \in Callers : \A f \in replies' :
                           caller'[c].pc = "wait" /\ f.rid = caller'[c].rid /\ f.trip
                              => caller'[c].on \in seen'
                     /\ \A c \in Callers :
                           caller'[c].pc = "answered" /\ caller'[c].reply.trip
                              => caller'[c].on \in seen'
  <1> USE DEF TripInv
  <1>3. ASSUME replies' \subseteq replies, caller' = caller PROVE Kept
    BY <1>2, <1>3 DEF TripsAnnounced
  <1>4. ASSUME NEW c \in Callers, replies' \subseteq replies,
               \A d \in Callers : d # c => caller'[d] = caller[d],
               caller'[c].pc \notin {"wait", "answered"}
        PROVE  Kept
    BY <1>2, <1>4 DEF TripsAnnounced
  <1>5. CASE Deliver
    <2> DEFINE f == Head(toHx[srv.conn])
    <2>1. Read({"configured", "bad_config", "result", "error"}) /\ caller' = caller
      BY <1>5 DEF Deliver
    <2>2. /\ srv.conn \in Conns /\ f.rid \in On(srv.conn)
          /\ f.trip => srv.conn \in seen
      <3>1. /\ srv.conn \in Conns /\ toHx[srv.conn] \in Seq(Received) /\ toHx[srv.conn] # <<>>
            /\ f.t # "halted"
        BY <2>1, ReadIs
      <3>2. f.rid \in Rids(toHx[srv.conn])
        BY <3>1, ReadsOne
      <3>3. f.trip => srv.conn \in seen
        BY <3>1, AnnouncedKept DEF TripsAnnounced
      <3>4. QED
        BY <3>1, <3>2, <3>3 DEF On
    <2>3. \A g \in replies' : g \in replies \/ g = f
      BY <1>5 DEF Deliver
    <2>4. \A c \in Callers : caller[c].pc = "wait" /\ f.rid = caller[c].rid
             => caller[c].on = srv.conn
      BY <2>2 DEF Routed
    <2> HIDE DEF f
    <2>5. Kept
      BY <1>2, <2>1, <2>2, <2>3, <2>4 DEF TripsAnnounced
    <2>6. QED
      BY <1>1, <1>2, <2>5 DEF TripsAnnounced
  <1>6. ASSUME NEW c \in Callers, WriteRequest(c) PROVE Kept
    <2>1. /\ replies' = replies /\ caller[c].pc = "write"
          /\ \A d \in Callers : d # c => caller'[d] = caller[d]
          /\ \/ caller'[c] = NoCall
             \/ caller'[c].pc = "wait" /\ caller'[c].rid = caller[c].rid
      BY <1>6, RequestIs DEF callVars
    <2>2. \A f \in replies : f.rid # caller[c].rid
      BY <2>1 DEF Routed
    <2>3. QED
      BY <1>2, <2>1, <2>2, RecordsFit DEF TripsAnnounced
  <1>7. ASSUME NEW c \in Callers, Collect(c) PROVE Kept
    <2>1. /\ replies' \subseteq replies /\ caller[c].pc = "wait"
      BY <1>7 DEF Collect
    <2>2. CASE Goes(c, NoCall)
      BY <1>4, <2>1, <2>2, RecordsFit DEF Goes, Shaped, Typed
    <2>3. ASSUME NEW f \in replies, f.rid = caller[c].rid,
                 Goes(c, [caller[c] EXCEPT !.pc = IF caller[c].op = "send" THEN "answered"
                                                                           ELSE "commit",
                                           !.reply = f])
          PROVE  Kept
      <3>1. /\ caller'[c].pc \in {"answered", "commit"}
            /\ caller'[c].reply = f /\ caller'[c].on = caller[c].on
            /\ \A d \in Callers : d # c => caller'[d] = caller[d]
        BY <2>3 DEF Goes, Shaped, Typed, Calls
      <3>2. QED
        BY <1>2, <2>1, <2>3, <3>1 DEF TripsAnnounced
    <2>4. QED
      BY <1>7, <2>2, <2>3 DEF Collect
  <1>8. ASSUME NEW c \in Callers, NEW next, Goes(c, next), replies' = replies,
               next.pc \notin {"wait", "answered"}
        PROVE  Kept
    <2>1. caller'[c] = next /\ \A d \in Callers : d # c => caller'[d] = caller[d]
      BY <1>8 DEF Goes, Shaped, Typed
    <2>2. QED
      BY <1>4, <1>8, <2>1
  <1>9. \A c \in Callers, pc \in PCs : [caller[c] EXCEPT !.pc = pc].pc = pc
    BY DEF Shaped, Typed, Calls
  <1>10. ASSUME NEW c \in Configurers,
                \E op \in {"configure", "misconfigure"} : BeginConfigure(c, op)
         PROVE  Kept
    <2>1. PICK op \in {"configure", "misconfigure"} : BeginConfigure(c, op)
      BY <1>10
    <2>2. [NoCall EXCEPT !.pc = "register", !.op = op, !.gen = srv.gen].pc = "register"
      BY DEF NoCall
    <2>3. QED
      BY <1>8, <2>1, <2>2, Apart DEF BeginConfigure, callVars
  <1>11. ASSUME NEW c \in Senders, BeginSend(c) PROVE Kept
    <2>1. [NoCall EXCEPT !.pc = "register", !.op = "send"].pc = "register"
      BY DEF NoCall
    <2>2. QED
      BY <1>8, <1>11, <2>1, Apart DEF BeginSend, callVars
  <1>12. ASSUME NEW c \in Callers, Timeout(c) PROVE Kept
    BY <1>8, <1>9, <1>12 DEF Timeout, callVars, PCs
  <1>13. ASSUME NEW c \in Callers, Register(c) PROVE Kept
    <2>1. caller[c] \in Calls
      BY DEF Shaped, Typed
    <2>2. [caller[c] EXCEPT !.pc = "write", !.rid = nextId + 1].pc = "write"
      BY <2>1 DEF Calls
    <2>3. QED
      BY <1>8, <1>13, <2>2 DEF Register
  <1>14. ASSUME NEW c \in Callers, GiveUp(c) \/ Return(c) \/ CommitConfigure(c) PROVE Kept
    BY <1>8, <1>14, RecordsFit DEF GiveUp, Return, CommitConfigure, callVars
  <1>15. ASSUME NEW c \in Operators, Command(c) PROVE Kept
    <2>1. caller'[c].pc \in {"idle", "haltWrite", "haltCommit", "resumeCommit", "disarm"}
      BY <1>1, Apart DEF Shaped, CallFits
    <2>2. replies' = replies
      BY <1>15 DEF Command, HaltArm, HaltWrite, HaltCommit, ResumeWrite, ResumeCommit,
                   ResumeDisarm, callVars
    <2>3. \E next : Goes(c, next)
      BY <1>15 DEF Command, HaltArm, HaltWrite, HaltCommit, ResumeWrite, ResumeCommit,
                   ResumeDisarm, Written
    <2>4. \A d \in Callers : d # c => caller'[d] = caller[d]
      BY <2>3, Apart DEF Goes, Shaped, Typed
    <2>5. QED
      BY <1>4, <2>1, <2>2, <2>4, Apart
  <1>16. ASSUME \/ Extension \/ HaltByHand \/ UNCHANGED vars
                \/ Accept \/ Hello \/ Reassert \/ ReassertCommit \/ OnHalted \/ PeerGone \/ Reset
         PROVE  Kept
    <2>1. replies' \subseteq replies /\ caller' = caller
      BY <1>16 DEF Extension, Dial, ExtDies, ExtHandle, HaltByHand, vars, Accept, Hello,
                   Reassert, ReassertCommit, OnHalted, PeerGone, Reset, callVars
    <2> HIDE DEF Kept
    <2>2. QED
      BY <1>3, <2>1
  <1>17. CASE Kept
    BY <1>1, <1>2, <1>17 DEF TripsAnnounced
  <1>18. QED
    BY <1>5, <1>6, <1>7, <1>10, <1>11, <1>12, <1>13, <1>14, <1>15, <1>16, <1>17, Apart
       DEF Next, Serve, Proceed

\* Whoever gets the reply to the request that tripped the distress monitor gets
\* it after hx has stopped the run for it, for any numbers of callers,
\* connections and requests, whatever is lost, late or given up meanwhile
\* (Sender: the "halted" frame before the reply; BridgeServer._serve: in order).
THEOREM TripHolds == Spec => []TripIsKnownFirst
  <1>1. TripInv => TripIsKnownFirst
    BY Apart DEF TripInv, TripsAnnounced, TripIsKnownFirst
  <1>2. QED
    BY TripInit, TripStep, <1>1, PTL DEF Spec

(***************************************************************************)
(* Both sides' epochs.                                                      *)
(***************************************************************************)
\* A configure waits for the answer to its own frame, and to nothing else.
OnlyConfig ==
    \A k \in Configurers : \A x \in Conns : caller[k].pc = "wait" =>
        /\ \A f \in Frames(toExt[x]) : f.rid = caller[k].rid => IsConfig(f)
        /\ \A f \in Frames(toHx[x]) : f.rid = caller[k].rid => IsConfigAnswer(f)

\* The generation tells which connection a configure was written to.
SameConn ==
    \A k \in Configurers :
        caller[k].pc \in {"wait", "commit"} /\ caller[k].gen = srv.gen /\ srv.conn # None
            => caller[k].on = srv.conn

NoReply(k) == \A f \in replies : f.rid # caller[k].rid

\* Nothing was taken from a peer whose hello has not been read.
Unheard ==
    srv.conn # None /\ Greets(toHx[srv.conn]) =>
        /\ srv.epoch = 0
        /\ \A k \in Configurers : caller[k].on = srv.conn =>
              caller[k].pc # "commit" /\ (caller[k].pc = "wait" => NoReply(k))

\* An epoch that hx holds for this extension, or will, is one it gave out.
GivenOut ==
    ext.up =>
        /\ ext.epoch =< ext.counter
        /\ \A f \in Frames(toHx[dial]) : f.epoch =< ext.counter
        /\ \A k \in Configurers : caller[k].on = dial =>
              /\ caller[k].pc = "commit" => caller[k].reply.epoch =< ext.counter
              /\ caller[k].pc = "wait" =>
                    \A f \in replies : f.rid = caller[k].rid => f.epoch =< ext.counter
        /\ srv.conn = dial => srv.epoch =< ext.counter

EpochInv == Shaped /\ Routed /\ OnlyConfig /\ SameConn /\ Unheard /\ GivenOut

LEMMA FramesAre ==
    ASSUME NEW S, NEW q \in Seq(S)
    PROVE  /\ \A f \in S : /\ Frames(Append(q, f)) = Frames(q) \cup {f}
                           /\ f.t # "hello" /\ Greets(Append(q, f)) => Greets(q)
           /\ q # <<>> => Frames(Tail(q)) \subseteq Frames(q) /\ Head(q) \in Frames(q)
           /\ Frames(q) \subseteq S
  <1>1. ASSUME NEW f \in S
        PROVE  /\ Frames(Append(q, f)) = Frames(q) \cup {f}
               /\ f.t # "hello" /\ Greets(Append(q, f)) => Greets(q)
    <2> DEFINE r == Append(q, f)
               n == Len(q) + 1
    <2>1. /\ Len(q) \in Nat /\ DOMAIN q = 1..Len(q) /\ DOMAIN r = 1..n
          /\ \A i \in DOMAIN q : r[i] = q[i]
          /\ r[n] = f
      BY AppendFacts
    <2>2. DOMAIN r = DOMAIN q \cup {n}
      BY <2>1
    <2>3. q # <<>> => 1 \in DOMAIN q
      BY TailFacts
    <2>4. q = <<>> => n = 1
      BY EmptySeq
    <2> HIDE DEF r, n
    <2>5. Frames(r) = Frames(q) \cup {f}
      <3>1. Frames(r) = {r[i] : i \in DOMAIN q} \cup {r[n]}
        BY <2>2 DEF Frames
      <3>2. {r[i] : i \in DOMAIN q} = Frames(q)
        BY <2>1 DEF Frames
      <3>3. QED
        BY <2>1, <3>1, <3>2
    <2>6. f.t # "hello" /\ Greets(r) => Greets(q)
      BY <2>1, <2>3, <2>4 DEF Greets
    <2>7. QED
      BY <2>5, <2>6 DEF r
  <1>2. ASSUME q # <<>> PROVE Frames(Tail(q)) \subseteq Frames(q) /\ Head(q) \in Frames(q)
    <2> DEFINE r == Tail(q)
    <2>1. /\ Len(q) \in Nat \ {0} /\ DOMAIN q = 1..Len(q) /\ Head(q) = q[1]
          /\ DOMAIN r = 1..(Len(q) - 1)
          /\ \A i \in DOMAIN r : r[i] = q[i + 1]
      BY <1>2, TailFacts
    <2>2. 1 \in DOMAIN q /\ \A i \in DOMAIN r : i + 1 \in DOMAIN q
      BY <2>1
    <2> HIDE DEF r
    <2>3. Frames(r) \subseteq Frames(q)
      BY <2>1, <2>2 DEF Frames
    <2>4. Head(q) \in Frames(q)
      BY <2>1, <2>2 DEF Frames
    <2>5. QED
      BY <2>3, <2>4 DEF r
  <1>3. Frames(q) \subseteq S
    BY LenProperties DEF Frames
  <1>4. QED
    BY <1>1, <1>2, <1>3

\* A frame written or read that is no configure, and no answer to one.
LEMMA SameWire ==
    ASSUME NEW S, NEW q \in Seq(S)
    PROVE  /\ \A f \in S : /\ ~IsConfig(f) => SameConfigs(q, Append(q, f))
                           /\ ~IsConfigAnswer(f) => SameAnswers(q, Append(q, f))
           /\ q # <<>> => /\ ~IsConfig(Head(q)) => SameConfigs(q, Tail(q))
                          /\ ~IsConfigAnswer(Head(q)) => SameAnswers(q, Tail(q))
  BY Writes, ReadsOne DEF SameConfigs, SameAnswers

\* A frame the extension handles, by what becomes of the configures.
LEMMA HandlesConfigs ==
    ASSUME Shaped, ExtHandle
    PROVE  LET f == Head(toExt[dial])
               q == toHx[dial]
           IN
           /\ ext.up /\ dial \in Conns /\ dial =< srv.last
           /\ toExt[dial] \in Seq(Sent) /\ toExt[dial] # <<>> /\ f \in Sent
           /\ toExt'[dial] = Tail(toExt[dial])
           /\ \A x \in Conns : x # dial => toExt'[x] = toExt[x] /\ toHx'[x] = toHx[x]
           /\ UNCHANGED <<dial, srv, replies, caller, unanswered>>
           /\ \/ ~ext'.up /\ toHx' = toHx
              \/ /\ ~IsConfig(f) /\ ext'.up
                 /\ ext'.epoch = ext.epoch /\ ext'.counter = ext.counter
                 /\ SameAnswers(q, toHx'[dial])
                 /\ Greets(toHx'[dial]) => Greets(q)
                 /\ \A a \in Frames(toHx'[dial]) :
                       a \in Frames(q) \/ (a.epoch \in {0, ext.epoch} /\ a.rid \in {0, f.rid})
              \/ /\ IsConfig(f) /\ ext'.up
                 /\ ext'.epoch \in Nat /\ ext'.counter \in Nat
                 /\ ext'.epoch =< ext'.counter /\ ext.counter =< ext'.counter
                 /\ NoConfigAnswer(q) => OneConfigAnswer(toHx'[dial], ext'.epoch)
                 /\ Greets(toHx'[dial]) => Greets(q)
                 /\ \A a \in Frames(toHx'[dial]) :
                       \/ a \in Frames(q)
                       \/ IsConfigAnswer(a) /\ a.epoch = ext'.epoch /\ a.rid = f.rid
  <1> DEFINE f == Head(toExt[dial])
             q == toHx[dial]
  <1>1. /\ ext.up /\ dial \in Conns /\ dial =< srv.last
        /\ toExt[dial] \in Seq(Sent) /\ toExt[dial] # <<>> /\ f \in Sent
        /\ toExt'[dial] = Tail(toExt[dial])
        /\ \A x \in Conns : x # dial => toExt'[x] = toExt[x] /\ toHx'[x] = toHx[x]
        /\ q \in Seq(Received) /\ ext \in Extensions /\ f.rid \in Nat
    BY HandleIs DEF Shaped, Typed, Sent
  <1>2. UNCHANGED <<dial, srv, replies, caller, unanswered>>
    BY DEF ExtHandle, callVars, ghostVars
  <1> DEFINE Gone == ~ext'.up /\ toHx' = toHx
             Other == /\ ~IsConfig(f) /\ ext'.up
                      /\ ext'.epoch = ext.epoch /\ ext'.counter = ext.counter
                      /\ SameAnswers(q, toHx'[dial])
                      /\ Greets(toHx'[dial]) => Greets(q)
                      /\ \A a \in Frames(toHx'[dial]) :
                            \/ a \in Frames(q)
                            \/ a.epoch \in {0, ext.epoch} /\ a.rid \in {0, f.rid}
             Config == /\ IsConfig(f) /\ ext'.up
                       /\ ext'.epoch \in Nat /\ ext'.counter \in Nat
                       /\ ext'.epoch =< ext'.counter /\ ext.counter =< ext'.counter
                       /\ NoConfigAnswer(q) => OneConfigAnswer(toHx'[dial], ext'.epoch)
                       /\ Greets(toHx'[dial]) => Greets(q)
                       /\ \A a \in Frames(toHx'[dial]) :
                             \/ a \in Frames(q)
                             \/ IsConfigAnswer(a) /\ a.epoch = ext'.epoch /\ a.rid = f.rid
  <1>4. ASSUME ext' = NoExt, toHx' = toHx PROVE Gone
    BY <1>4, RecordsFit
  <1>5. ASSUME IsCommand(f), toHx' = toHx, ext' = [ext EXCEPT !.halted = (f.t = "halt")]
        PROVE  Other
    BY <1>1, <1>5 DEF IsCommand, IsConfig, SameAnswers, Extensions
  <1>6. ASSUME NEW a \in Received, a.rid = f.rid, f.t = "send", a.t \in {"error", "result"},
               a.epoch \in {0, ext.epoch}, ext' = ext,
               toHx' = [toHx EXCEPT ![dial] = Append(toHx[dial], a)]
        PROVE  Other
    <2>1. toHx'[dial] = Append(q, a)
      BY <1>1, <1>6 DEF Shaped, Typed
    <2>2. ~IsConfig(f) /\ ~IsConfigAnswer(a) /\ a.t # "hello"
      BY <1>6 DEF IsConfig, IsConfigAnswer
    <2> HIDE DEF f, q
    <2>3. /\ SameAnswers(q, Append(q, a))
          /\ Greets(Append(q, a)) => Greets(q)
          /\ Frames(Append(q, a)) = Frames(q) \cup {a}
      BY <1>1, <2>2, SameWire, FramesAre
    <2>4. QED
      BY <1>1, <1>6, <2>1, <2>2, <2>3
  <1>7. ASSUME NEW h \in Received, NEW a \in Received, f.t = "send",
               h.t = "halted", h.rid = 0, h.epoch = 0,
               a.t = "result", a.rid = f.rid, a.epoch = ext.epoch,
               toHx' = [toHx EXCEPT ![dial] = Append(Append(toHx[dial], h), a)],
               ext' = [ext EXCEPT !.stop = TRUE]
        PROVE  Other
    <2> DEFINE r == Append(q, h)
    <2>1. toHx'[dial] = Append(r, a)
      BY <1>1, <1>7 DEF Shaped, Typed
    <2>2. /\ ~IsConfig(f) /\ ~IsConfigAnswer(a) /\ a.t # "hello"
          /\ ~IsConfigAnswer(h) /\ h.t # "hello"
      BY <1>7 DEF IsConfig, IsConfigAnswer
    <2>3. ext'.up /\ ext'.epoch = ext.epoch /\ ext'.counter = ext.counter
      BY <1>1, <1>7 DEF Extensions
    <2> HIDE DEF f, q
    <2>4. /\ r \in Seq(Received)
          /\ SameAnswers(q, r)
          /\ Greets(r) => Greets(q)
          /\ Frames(r) = Frames(q) \cup {h}
      BY <1>1, <2>2, SameWire, FramesAre, AppendProperties
    <2> HIDE DEF r
    <2>5. /\ SameAnswers(r, Append(r, a))
          /\ Greets(Append(r, a)) => Greets(r)
          /\ Frames(Append(r, a)) = Frames(r) \cup {a}
      BY <2>2, <2>4, SameWire, FramesAre
    <2>6. SameAnswers(q, Append(r, a))
      BY <2>4, <2>5 DEF SameAnswers
    <2>7. \A b \in Frames(toHx'[dial]) :
             b \in Frames(q) \/ (b.epoch \in {0, ext.epoch} /\ b.rid \in {0, f.rid})
      BY <1>7, <2>1, <2>4, <2>5
    <2>8. QED
      BY <2>1, <2>2, <2>3, <2>4, <2>5, <2>6, <2>7
  <1>8. ASSUME NEW a \in Received, a.rid = f.rid, IsConfig(f), IsConfigAnswer(a),
               ext'.epoch = a.epoch, ext'.counter \in Nat,
               a.epoch =< ext'.counter, ext.counter =< ext'.counter, ext'.up,
               toHx' = [toHx EXCEPT ![dial] = Append(toHx[dial], a)]
        PROVE  Config
    <2>1. toHx'[dial] = Append(q, a)
      BY <1>1, <1>8 DEF Shaped, Typed
    <2>2. a.t # "hello" /\ a.epoch \in Nat
      BY <1>8 DEF IsConfigAnswer, Received, AnswerRecord
    <2> HIDE DEF f, q
    <2>3. /\ NoConfigAnswer(q) => OneConfigAnswer(Append(q, a), a.epoch)
          /\ Greets(Append(q, a)) => Greets(q)
          /\ Frames(Append(q, a)) = Frames(q) \cup {a}
      BY <1>1, <1>8, <2>2, Writes, FramesAre
    <2>4. QED
      BY <1>8, <2>1, <2>2, <2>3
  <1>9. Gone \/ Other \/ Config
    <2> HIDE DEF Other, Config
    <2>1. QED
      BY <1>4, <1>5, <1>6, <1>7, <1>8, HandleIs
  <1>10. QED
    BY <1>1, <1>2, <1>9

\* A frame hx reads, by what becomes of the configures.
LEMMA HearsConfigs ==
    ASSUME Shaped, Hello \/ OnHalted \/ Deliver
    PROVE  LET f == Head(toHx[srv.conn])
               q == toHx[srv.conn]
           IN
           /\ srv.conn \in Conns /\ q \in Seq(Received) /\ q # <<>> /\ f \in Received
           /\ toHx'[srv.conn] = Tail(q)
           /\ \A x \in Conns : x # srv.conn => toHx'[x] = toHx[x]
           /\ UNCHANGED <<toExt, dial, ext, caller, unanswered>>
           /\ srv'.conn = srv.conn /\ srv'.gen = srv.gen
           /\ \/ f.t = "hello" /\ srv'.epoch = 0 /\ replies' = replies
              \/ f.t # "hello" /\ srv'.epoch = srv.epoch /\ replies' = replies /\ f.t = "halted"
              \/ /\ f.t # "hello" /\ srv'.epoch = srv.epoch
                 /\ \A g \in replies' : g \in replies \/ g = f
  <1>1. ASSUME NEW t, Read(t)
        PROVE  /\ srv.conn \in Conns /\ toHx[srv.conn] \in Seq(Received) /\ toHx[srv.conn] # <<>>
               /\ Head(toHx[srv.conn]) \in Received /\ Head(toHx[srv.conn]).t \in t
               /\ toHx'[srv.conn] = Tail(toHx[srv.conn])
               /\ \A x \in Conns : x # srv.conn => toHx'[x] = toHx[x]
               /\ UNCHANGED <<toExt, dial, ext>>
    BY <1>1, ReadIs DEF Shaped, Typed
  <1>2. srv \in Sessions
    BY DEF Shaped, Typed
  <1>3. CASE Hello
    <2>1. /\ srv' = [srv EXCEPT !.state = "connected", !.epoch = 0]
          /\ Read({"hello"}) /\ UNCHANGED <<replies, caller, unanswered>>
      BY <1>3 DEF Hello, callVars, ghostVars
    <2>2. srv'.conn = srv.conn /\ srv'.gen = srv.gen /\ srv'.epoch = 0
      BY <1>2, <2>1 DEF Sessions
    <2>3. QED
      BY <1>1, <2>1, <2>2
  <1>4. CASE OnHalted
    <2>1. /\ srv' = [srv EXCEPT !.state = "halted"]
          /\ Read({"halted"}) /\ UNCHANGED <<replies, caller, unanswered>>
      BY <1>4 DEF OnHalted, callVars
    <2>2. srv'.conn = srv.conn /\ srv'.gen = srv.gen /\ srv'.epoch = srv.epoch
      BY <1>2, <2>1 DEF Sessions
    <2>3. QED
      BY <1>1, <2>1, <2>2
  <1>5. CASE Deliver
    <2>1. /\ Read({"configured", "bad_config", "result", "error"})
          /\ UNCHANGED <<srv, caller, unanswered>>
          /\ \A g \in replies' : g \in replies \/ g = Head(toHx[srv.conn])
      BY <1>5 DEF Deliver, ghostVars
    <2>2. QED
      BY <1>1, <2>1
  <1>6. QED
    BY <1>3, <1>4, <1>5

\* A configure that is written.
LEMMA AsksIs ==
    ASSUME Shaped, Routed, NEW k \in Configurers, WriteRequest(k), caller'[k] # NoCall
    PROVE  /\ srv.conn \in Conns /\ toExt[srv.conn] \in Seq(Sent)
           /\ UNCHANGED <<toHx, dial, ext, srv, replies, unanswered>>
           /\ \A d \in Callers : d # k => caller'[d] = caller[d]
           /\ caller[k].pc = "write"
           /\ caller'[k].pc = "wait" /\ caller'[k].on = srv.conn
           /\ caller'[k].rid = caller[k].rid
           /\ \E f \in Sent : /\ IsConfig(f) /\ f.rid = caller[k].rid
                              /\ toExt'[srv.conn] = Append(toExt[srv.conn], f)
           /\ \A x \in Conns : x # srv.conn => toExt'[x] = toExt[x]
  <1> DEFINE f == Frame(caller[k].op, caller[k].rid)
  <1>1. k \in Callers /\ caller[k].pc = "write"
    BY Apart DEF WriteRequest
  <1>2. caller[k].op \in {"configure", "misconfigure"}
    BY <1>1 DEF Shaped, CallFits
  <1>3. IsConfig(f) /\ f.rid = caller[k].rid
    BY <1>2 DEF IsConfig, Frame
  <1>4. UNCHANGED <<toHx, dial, ext, srv, replies, unanswered>>
    BY DEF WriteRequest, callVars, ghostVars
  <1>5. /\ \A d \in Callers : d # k => caller'[d] = caller[d]
        /\ srv.conn \in Conns /\ f \in Sent /\ toExt[srv.conn] \in Seq(Sent)
        /\ toExt'[srv.conn] = Append(toExt[srv.conn], f)
        /\ \A x \in Conns : x # srv.conn => toExt'[x] = toExt[x]
        /\ caller'[k].pc = "wait" /\ caller'[k].on = srv.conn /\ caller'[k].rid = caller[k].rid
    BY <1>1, RequestIs
  <1> HIDE DEF f
  <1>6. QED
    BY <1>1, <1>3, <1>4, <1>5

\* A reply that a configure takes.
LEMMA TakesIs ==
    ASSUME Shaped, NEW k \in Configurers, Collect(k), caller'[k] # NoCall
    PROVE  /\ UNCHANGED <<toExt, toHx, dial, ext, srv, unanswered>>
           /\ replies' \subseteq replies
           /\ \A d \in Callers : d # k => caller'[d] = caller[d]
           /\ caller[k].pc = "wait" /\ caller'[k].pc = "commit"
           /\ caller'[k].on = caller[k].on /\ caller'[k].gen = caller[k].gen
           /\ caller'[k].reply \in replies /\ caller'[k].reply.rid = caller[k].rid
  <1>1. k \in Callers /\ caller[k] \in Calls /\ caller \in [Callers -> Calls]
    BY Apart DEF Shaped, Typed
  <1>2. caller[k].pc = "wait"
    BY DEF Collect
  <1>3. caller[k].op # "send"
    BY <1>1, <1>2 DEF Shaped, CallFits
  <1>4. PICK f \in replies :
           /\ f.rid = caller[k].rid /\ replies' = replies \ {f} /\ unanswered' = unanswered
           /\ Goes(k, [caller[k] EXCEPT !.pc = "commit", !.reply = f])
    BY <1>1, <1>3 DEF Collect, Goes
  <1>5. /\ caller'[k] = [caller[k] EXCEPT !.pc = "commit", !.reply = f]
        /\ \A d \in Callers : d # k => caller'[d] = caller[d]
    BY <1>1, <1>4 DEF Goes
  <1>6. UNCHANGED <<toExt, toHx, dial, ext, srv>>
    BY DEF Collect, wireVars
  <1>7. QED
    BY <1>1, <1>2, <1>4, <1>5, <1>6 DEF Calls

\* An answer that hx takes over.
LEMMA CommitsIs ==
    ASSUME Shaped, NEW k \in Configurers, CommitConfigure(k), Current(k)
    PROVE  /\ UNCHANGED <<toExt, toHx, dial, ext, replies, unanswered>>
           /\ srv.conn # None /\ caller[k].gen = srv.gen
           /\ \A d \in Callers : d # k => caller'[d] = caller[d]
           /\ caller[k].pc = "commit" /\ caller'[k] = NoCall
           /\ srv'.conn = srv.conn /\ srv'.gen = srv.gen
           /\ srv'.epoch = caller[k].reply.epoch
  <1>1. k \in Callers /\ caller[k].pc = "commit" /\ caller \in [Callers -> Calls]
        /\ srv \in Sessions
    BY Apart DEF Shaped, Typed, CommitConfigure
  <1>2. caller[k].reply \in Received
    BY <1>1 DEF Shaped, CallFits
  <1>3. caller[k].reply.t = "bad_config" => caller[k].reply.epoch = 0
    BY <1>2 DEF Received
  <1>4. UNCHANGED <<toExt, toHx, dial, ext, replies, unanswered>>
    BY DEF CommitConfigure, wireVars, callVars
  <1>5. srv' = IF caller[k].reply.t = "bad_config"
               THEN [srv EXCEPT !.state = "connected", !.epoch = 0]
               ELSE [srv EXCEPT !.epoch = caller[k].reply.epoch,
                                !.state = IF srv.state = "halted" THEN "halted" ELSE "configured"]
    BY DEF CommitConfigure
  <1>6. /\ srv'.conn = srv.conn /\ srv'.gen = srv.gen
        /\ srv'.epoch = caller[k].reply.epoch
    BY <1>1, <1>3, <1>5 DEF Sessions
  <1>7. caller'[k] = NoCall /\ \A d \in Callers : d # k => caller'[d] = caller[d]
    BY <1>1 DEF CommitConfigure, Goes
  <1>8. QED
    BY <1>1, <1>4, <1>6, <1>7 DEF Current

(***************************************************************************)
(* Every other step leaves the configures where they are: it writes no      *)
(* frame of theirs, and ends one only without its answer.                   *)
(***************************************************************************)
PlainWire(x) ==
    \/ toExt'[x] = toExt[x]
    \/ \E f \in Sent : /\ ~IsConfig(f)
                       /\ toExt'[x] = Append(toExt[x], f)
                       /\ \A k \in Configurers : caller[k].pc = "wait" => f.rid # caller[k].rid
PlainCall(k) ==
    \/ caller'[k] = caller[k]
    \/ /\ caller'[k].pc \notin {"wait", "commit"}
       /\ caller[k].pc \in {"wait", "commit"} => caller[k].on \in unanswered'
Plain ==
    /\ UNCHANGED <<toHx, dial, ext>>
    /\ srv'.conn = srv.conn /\ srv'.gen = srv.gen /\ srv'.epoch = srv.epoch
    /\ \A x \in Conns : PlainWire(x)
    /\ replies' \subseteq replies
    /\ unanswered \subseteq unanswered'
    /\ \A k \in Configurers : PlainCall(k)

LEMMA PlainSession ==
    ASSUME Shaped
    PROVE  \A s \in {"connected", "configured", "halted"} :
              LET r == [srv EXCEPT !.state = s] IN
              r.conn = srv.conn /\ r.gen = srv.gen /\ r.epoch = srv.epoch
  BY DEF Shaped, Typed, Sessions

\* The operator's.
LEMMA PlainCommand ==
    ASSUME Shaped, Routed, NEW c \in Operators, Command(c)
    PROVE  Plain
  <1>1. c \in Callers /\ c \notin Configurers /\ caller \in [Callers -> Calls]
        /\ \A k \in Configurers : k \in Callers
    BY Apart DEF Shaped, Typed
  <1>2. ASSUME NEW next, Goes(c, next) PROVE \A k \in Configurers : PlainCall(k)
    BY <1>1, <1>2 DEF Goes, PlainCall
  <1>3. \A k \in Configurers : caller[k].pc = "wait" => caller[k].rid # 0
    BY <1>1 DEF Routed
  <1>4. ASSUME NEW t \in {"halt", "resume"}, NEW next, Written(c, Frame(t, 0), next)
        PROVE  (\A x \in Conns : PlainWire(x)) /\ \A k \in Configurers : PlainCall(k)
    <2> DEFINE f == Frame(t, 0)
    <2>1. f \in Sent /\ ~IsConfig(f) /\ f.rid = 0
      BY AnswerFits DEF Frame, IsConfig, Ops
    <2>2. Written(c, f, next)
      BY <1>4
    <2> HIDE DEF f
    <2>3. \/ srv.conn \in Conns /\ toExt' = [toExt EXCEPT ![srv.conn] = Append(toExt[srv.conn], f)]
          \/ toExt' = toExt
      BY <1>1, <2>1, <2>2, WrittenIs
    <2>4. \A x \in Conns : toExt'[x] = toExt[x] \/ toExt'[x] = Append(toExt[x], f)
      BY <2>3 DEF Shaped, Typed
    <2>5. \A x \in Conns : PlainWire(x)
      BY <1>3, <2>1, <2>4 DEF PlainWire
    <2>6. \A k \in Configurers : PlainCall(k)
      BY <1>2, <1>4 DEF Written
    <2>7. QED
      BY <2>5, <2>6
  <1>5. ASSUME UNCHANGED toExt PROVE \A x \in Conns : PlainWire(x)
    BY <1>5 DEF PlainWire
  <1>6. CASE HaltWrite(c)
    BY <1>4, <1>6 DEF HaltWrite, Plain, callVars, ghostVars
  <1>7. CASE ResumeWrite(c)
    BY <1>4, <1>7 DEF ResumeWrite, Plain, callVars
  <1>8. CASE HaltArm(c) \/ ResumeDisarm(c)
    BY <1>2, <1>5, <1>8 DEF HaltArm, ResumeDisarm, Plain, wireVars, callVars, ghostVars
  <1>9. CASE HaltCommit(c) \/ ResumeCommit(c)
    <2>1. \/ srv' = srv
          \/ \E s \in {"connected", "configured", "halted"} : srv' = [srv EXCEPT !.state = s]
      BY <1>9 DEF HaltCommit, ResumeCommit
    <2>2. srv'.conn = srv.conn /\ srv'.gen = srv.gen /\ srv'.epoch = srv.epoch
      BY <2>1, PlainSession
    <2>3. \E next : Goes(c, next)
      BY <1>9 DEF HaltCommit, ResumeCommit
    <2>4. UNCHANGED <<toExt, toHx, dial, ext, replies, unanswered>>
      BY <1>9 DEF HaltCommit, ResumeCommit, wireVars, callVars, ghostVars
    <2>5. QED
      BY <1>2, <1>5, <2>2, <2>3, <2>4 DEF Plain
  <1>10. QED
    BY <1>6, <1>7, <1>8, <1>9 DEF Command

\* hx's threads that configure or send.
LEMMA PlainProceed ==
    ASSUME Shaped, Routed, NEW c \in Configurers \cup Senders,
           \/ \E op \in {"configure", "misconfigure"} : BeginConfigure(c, op) /\ c \in Configurers
           \/ BeginSend(c) \/ Proceed(c) \/ Timeout(c)
    PROVE  \/ Plain
           \/ c \in Configurers /\ WriteRequest(c) /\ caller'[c] # NoCall
           \/ c \in Configurers /\ Collect(c) /\ caller'[c] # NoCall
           \/ c \in Configurers /\ CommitConfigure(c) /\ Current(c)
  <1>1. c \in Callers /\ caller[c] \in Calls /\ caller \in [Callers -> Calls]
        /\ \A k \in Configurers : k \in Callers
    BY Apart DEF Shaped, Typed
  <1>2. ASSUME NEW next, Goes(c, next),
               c \in Configurers => /\ next.pc \notin {"wait", "commit"}
                                    /\ caller[c].pc \in {"wait", "commit"} =>
                                          caller[c].on \in unanswered'
        PROVE  \A k \in Configurers : PlainCall(k)
    BY <1>1, <1>2 DEF Goes, PlainCall
  <1>3. ASSUME UNCHANGED toExt PROVE \A x \in Conns : PlainWire(x)
    BY <1>3 DEF PlainWire
  <1>4. c \in Configurers /\ caller[c].pc \in {"wait", "commit"} => caller[c].op # "send"
    BY <1>1 DEF Shaped, CallFits
  <1>5. ASSUME NEW op \in {"configure", "misconfigure"}, BeginConfigure(c, op) PROVE Plain
    <2>1. [NoCall EXCEPT !.pc = "register", !.op = op, !.gen = srv.gen].pc = "register"
      BY DEF NoCall
    <2>2. QED
      BY <1>2, <1>3, <1>5, <2>1 DEF BeginConfigure, Plain, wireVars, callVars, ghostVars
  <1>6. CASE BeginSend(c)
    <2>1. [NoCall EXCEPT !.pc = "register", !.op = "send"].pc = "register"
      BY DEF NoCall
    <2>2. QED
      BY <1>2, <1>3, <1>6, <2>1 DEF BeginSend, Plain, wireVars, callVars, ghostVars
  <1>7. CASE Register(c)
    <2>1. [caller[c] EXCEPT !.pc = "write", !.rid = nextId + 1].pc = "write"
      BY <1>1 DEF Calls
    <2>2. QED
      BY <1>2, <1>3, <1>7, <2>1 DEF Register, Plain, wireVars, ghostVars
  <1>8. CASE Timeout(c)
    <2>1. [caller[c] EXCEPT !.pc = "late"].pc = "late"
      BY <1>1 DEF Calls
    <2>2. /\ c \in Configurers => caller[c].on \in unanswered'
          /\ unanswered \subseteq unanswered'
      BY <1>4, <1>8 DEF Timeout, Fails
    <2>3. QED
      BY <1>2, <1>3, <1>8, <2>1, <2>2 DEF Timeout, Plain, wireVars, callVars
  <1>9. CASE GiveUp(c) \/ Return(c)
    BY <1>2, <1>3, <1>9, RecordsFit DEF GiveUp, Return, Plain, wireVars, callVars, ghostVars
  <1>10. CASE CommitConfigure(c) /\ ~Current(c)
    <2>1. /\ c \in Configurers => caller[c].on \in unanswered'
          /\ unanswered \subseteq unanswered'
      BY <1>4, <1>10 DEF CommitConfigure, Fails
    <2>2. QED
      BY <1>2, <1>3, <1>10, <2>1, RecordsFit DEF CommitConfigure, Plain, wireVars, callVars
  <1>11. CASE Collect(c) /\ (c \in Senders \/ caller'[c] = NoCall)
    <2>1. /\ UNCHANGED <<toExt, toHx, dial, ext, srv>> /\ caller[c].pc = "wait"
          /\ replies' \subseteq replies /\ unanswered \subseteq unanswered'
      BY <1>11 DEF Collect, wireVars, Fails
    <2>2. CASE c \in Senders
      <3>1. c \notin Configurers
        BY <2>2, Apart
      <3>2. \E next : Goes(c, next)
        BY <1>11 DEF Collect
      <3>3. QED
        BY <1>2, <1>3, <2>1, <3>1, <3>2 DEF Plain
    <2>3. CASE c \in Configurers /\ caller'[c] = NoCall
      <3>1. \A f : Goes(c, [caller[c] EXCEPT !.pc = IF caller[c].op = "send" THEN "answered"
                                                                             ELSE "commit",
                                             !.reply = f])
               => caller'[c].pc = "commit"
        <4> TAKE f
        <4> DEFINE next == [caller[c] EXCEPT !.pc = IF caller[c].op = "send" THEN "answered"
                                                                             ELSE "commit",
                                             !.reply = f]
        <4>1. next.pc = "commit"
          BY <1>1, <1>4, <2>1, <2>3 DEF Calls
        <4> HIDE DEF next
        <4>2. Goes(c, next) => caller'[c].pc = "commit"
          BY <1>1, <4>1 DEF Goes
        <4>3. QED
          BY <4>2 DEF next
      <3>2. Goes(c, NoCall) /\ Fails(c)
        BY <1>11, <2>3, <3>1, RecordsFit DEF Collect
      <3>3. caller[c].on \in unanswered'
        BY <1>4, <2>1, <2>3, <3>2 DEF Fails
      <3>4. QED
        BY <1>2, <1>3, <2>1, <3>2, <3>3, RecordsFit DEF Plain
    <2>4. QED
      BY <1>11, <2>2, <2>3
  <1>12. CASE WriteRequest(c) /\ (c \in Senders \/ caller'[c] = NoCall)
    <2> DEFINE f == Frame(caller[c].op, caller[c].rid)
    <2>1. /\ UNCHANGED <<toHx, dial, ext, srv, replies, unanswered>>
          /\ caller[c].pc = "write"
          /\ \A d \in Callers : d # c => caller'[d] = caller[d]
      BY <1>1, <1>12, RequestIs DEF callVars, ghostVars
    <2>2. CASE caller'[c] = NoCall
      <3>1. toExt' = toExt
        BY <1>1, <1>12, <2>2, RequestIs, RecordsFit
      <3>2. \A k \in Configurers : PlainCall(k)
        BY <1>1, <2>1, <2>2, RecordsFit DEF PlainCall
      <3>3. QED
        BY <1>3, <2>1, <3>1, <3>2 DEF Plain
    <2>3. CASE c \in Senders /\ caller'[c] # NoCall
      <3>1. c \notin Configurers
        BY <2>3, Apart
      <3>2. caller[c].op = "send" /\ f.rid = caller[c].rid
        BY <1>1, <2>1, <3>1 DEF Shaped, CallFits, Frame
      <3>3. ~IsConfig(f)
        BY <3>2 DEF Frame, IsConfig
      <3> HIDE DEF f
      <3>4. /\ srv.conn \in Conns /\ f \in Sent
            /\ toExt'[srv.conn] = Append(toExt[srv.conn], f)
            /\ \A x \in Conns : x # srv.conn => toExt'[x] = toExt[x]
        BY <1>1, <1>12, <2>3, RequestIs DEF f
      <3>5. \A k \in Configurers : caller[k].pc = "wait" => f.rid # caller[k].rid
        BY <1>1, <2>1, <3>1, <3>2 DEF Routed
      <3>6. \A x \in Conns : PlainWire(x)
        BY <3>3, <3>4, <3>5 DEF PlainWire
      <3>7. \A k \in Configurers : PlainCall(k)
        BY <1>1, <2>1, <3>1 DEF PlainCall
      <3>8. QED
        BY <2>1, <3>6, <3>7 DEF Plain
    <2>4. QED
      BY <1>12, <2>2, <2>3
  <1>13. CASE Proceed(c)
    <2>1. CASE WriteRequest(c)
      BY <1>12, <2>1
    <2>2. CASE Collect(c)
      BY <1>11, <2>2
    <2>3. CASE CommitConfigure(c)
      <3>1. c \in Configurers
        BY <1>1, <2>3 DEF CommitConfigure, Shaped, CallFits
      <3>2. QED
        BY <1>10, <2>3, <3>1
    <2>4. QED
      BY <1>7, <1>9, <1>13, <2>1, <2>2, <2>3 DEF Proceed
  <1>14. QED
    BY <1>5, <1>6, <1>8, <1>13

\* What a step may be to the configures.
LEMMA Kinds ==
    ASSUME Shaped, Routed, [Next]_vars
    PROVE  \/ Plain \/ Dial \/ ExtDies \/ ExtHandle \/ Accept \/ Reset
           \/ Hello \/ OnHalted \/ Deliver
           \/ \E k \in Configurers : WriteRequest(k) /\ caller'[k] # NoCall
           \/ \E k \in Configurers : Collect(k) /\ caller'[k] # NoCall
           \/ \E k \in Configurers : CommitConfigure(k) /\ Current(k)
  <1>1. ASSUME UNCHANGED caller PROVE \A k \in Configurers : PlainCall(k)
    BY <1>1 DEF PlainCall
  <1>2. ASSUME UNCHANGED toExt PROVE \A x \in Conns : PlainWire(x)
    BY <1>2 DEF PlainWire
  <1>3. CASE HaltByHand \/ UNCHANGED vars \/ PeerGone
    BY <1>1, <1>2, <1>3 DEF HaltByHand, vars, PeerGone, Plain, wireVars, callVars, ghostVars
  <1>4. CASE ReassertCommit
    <2>1. srv'.conn = srv.conn /\ srv'.gen = srv.gen /\ srv'.epoch = srv.epoch
      BY <1>4, PlainSession DEF ReassertCommit
    <2>2. QED
      BY <1>1, <1>2, <1>4, <2>1 DEF ReassertCommit, Plain, wireVars, callVars, ghostVars
  <1>5. CASE Reassert
    <2> DEFINE f == Frame("halt", 0)
    <2>1. f \in Sent /\ ~IsConfig(f) /\ f.rid = 0
      BY AnswerFits DEF Frame, IsConfig, Ops
    <2> HIDE DEF f
    <2>2. toExt' = toExt \/ toExt' = [toExt EXCEPT ![srv.conn] = Append(toExt[srv.conn], f)]
      BY <1>5 DEF Reassert, f
    <2>3. \A x \in Conns : toExt'[x] = toExt[x] \/ toExt'[x] = Append(toExt[x], f)
      BY <2>2 DEF Shaped, Typed
    <2>4. \A k \in Configurers : caller[k].pc = "wait" => caller[k].rid # 0
      BY Apart DEF Routed
    <2>5. \A x \in Conns : PlainWire(x)
      BY <2>1, <2>3, <2>4 DEF PlainWire
    <2>6. QED
      BY <1>1, <1>5, <2>5 DEF Reassert, Plain, callVars, ghostVars
  <1>6. ASSUME NEW k \in Configurers, NEW op \in {"configure", "misconfigure"},
               BeginConfigure(k, op)
        PROVE  Plain
    BY <1>6, PlainProceed DEF BeginConfigure, WriteRequest, Collect, CommitConfigure
  <1>7. ASSUME NEW k \in Senders, BeginSend(k) PROVE Plain
    BY <1>7, PlainProceed, Apart
  <1>8. ASSUME NEW k \in Configurers \cup Senders, Proceed(k) \/ Timeout(k)
        PROVE  \/ Plain
               \/ k \in Configurers /\ WriteRequest(k) /\ caller'[k] # NoCall
               \/ k \in Configurers /\ Collect(k) /\ caller'[k] # NoCall
               \/ k \in Configurers /\ CommitConfigure(k) /\ Current(k)
    BY <1>8, PlainProceed
  <1>9. QED
    BY <1>3, <1>4, <1>5, <1>6, <1>7, <1>8, PlainCommand DEF Next, Extension, Serve

\* A new extension, a connection that becomes the current one, and its end.
LEMMA DialIs ==
    ASSUME Shaped, Dial
    PROVE  /\ dial + 1 \in Conns /\ dial' = dial + 1 /\ srv.last < dial' /\ srv.conn # dial'
           /\ ext'.up /\ ext'.epoch = 0 /\ ext'.counter = 0
           /\ \E h \in Received : /\ h.rid = 0 /\ h.epoch = 0
                                  /\ Frames(toHx'[dial']) = {h}
           /\ \A x \in Conns : x # dial' => toHx'[x] = toHx[x]
           /\ UNCHANGED <<toExt, srv, replies, caller, unanswered>>
  <1> DEFINE h == Answer("hello", 0, 0, FALSE)
  <1>1. dial + 1 \in Conns /\ dial' = dial + 1 /\ srv.last < dial' /\ srv.conn # dial'
    <2>1. dial < MaxConn /\ dial' = dial + 1 /\ srv.last =< dial
      BY DEF Dial, Shaped, Places
    <2>2. QED
      BY <2>1, Near, BridgeAssumption DEF Conns
  <1>2. toHx'[dial'] = <<h>> /\ \A x \in Conns : x # dial' => toHx'[x] = toHx[x]
    BY <1>1 DEF Dial, Shaped, Typed
  <1>3. h \in Received /\ h.rid = 0 /\ h.epoch = 0
    BY AnswerFits DEF Answer, AnswerT
  <1>4. ext'.up /\ ext'.epoch = 0 /\ ext'.counter = 0
    BY DEF Dial, NoExt
  <1>5. UNCHANGED <<toExt, srv, replies, caller, unanswered>>
    BY DEF Dial, callVars, ghostVars
  <1> HIDE DEF h
  <1>6. Frames(toHx'[dial']) = {h}
    BY <1>2, OneFrame DEF Frames
  <1>7. QED
    BY <1>1, <1>2, <1>3, <1>4, <1>5, <1>6

LEMMA AcceptIs ==
    ASSUME Shaped, Accept
    PROVE  /\ srv.conn = None /\ srv.epoch = 0 /\ srv'.epoch = 0
           /\ srv'.conn = srv.last + 1 /\ srv'.conn \in Conns /\ srv.last < dial
           /\ srv'.gen = srv.gen + 1
           /\ \A c \in Callers : caller[c].gen # srv'.gen
           /\ \A c \in Configurers :
                 caller[c].pc \in {"wait", "commit"} => caller[c].on # srv'.conn
           /\ UNCHANGED <<toExt, toHx, dial, ext, replies, caller, unanswered>>
  <1>1. srv.conn = None /\ srv.epoch = 0 /\ srv.last < dial
        /\ srv.last \in Nat /\ srv.gen \in Nat /\ dial \in 0..MaxConn /\ srv \in Sessions
    BY Near DEF Accept, Shaped, Places, Typed
  <1>2. /\ srv'.conn = srv.last + 1 /\ srv'.gen = srv.gen + 1 /\ srv'.epoch = srv.epoch
    BY <1>1 DEF Accept, Sessions
  <1>3. srv'.conn \in Conns
    BY <1>1, <1>2, BridgeAssumption DEF Conns
  <1>4. \A c \in Callers : caller[c].gen \in Nat /\ caller[c].gen =< srv.gen
    BY DEF Shaped, Places, Typed, Calls
  <1>5. \A c \in Callers : caller[c].gen # srv'.gen
    BY <1>1, <1>2, <1>4
  <1>6. \A c \in Callers : caller[c].pc \in {"wait", "commit"} => caller[c].on # srv'.conn
    BY <1>1, <1>2 DEF Shaped, CallFits
  <1>7. UNCHANGED <<toExt, toHx, dial, ext, replies, caller, unanswered>>
    BY DEF Accept, wireVars, callVars, ghostVars
  <1>8. QED
    BY <1>1, <1>2, <1>3, <1>5, <1>6, <1>7, Apart

LEMMA ResetIs ==
    ASSUME Shaped, Reset
    PROVE  /\ srv'.conn = None /\ srv'.epoch = 0 /\ replies' = {}
           /\ UNCHANGED <<toExt, toHx, dial, ext, caller, unanswered>>
  <1>1. srv \in Sessions
    BY DEF Shaped, Typed
  <1>2. QED
    BY <1>1 DEF Reset, Sessions, ghostVars

\* Frames with a request's number are its own and its answer.
LEMMA OnlyConfigStep ==
    ASSUME Shaped, Routed, OnlyConfig, [Next]_vars
    PROVE  OnlyConfig'
  <1>1. ASSUME \A k \in Configurers : caller'[k].pc = "wait" => caller'[k] = caller[k],
               \A k \in Configurers : \A x \in Conns : caller[k].pc = "wait" =>
                  /\ \A f \in Frames(toExt'[x]) :
                        \/ f \in Frames(toExt[x]) \/ f.rid # caller[k].rid \/ IsConfig(f)
                  /\ \A f \in Frames(toHx'[x]) :
                        \/ f \in Frames(toHx[x]) \/ f.rid # caller[k].rid \/ IsConfigAnswer(f)
        PROVE  OnlyConfig'
    BY <1>1 DEF OnlyConfig
  <1>2. /\ \A k \in Configurers : k \in Callers
        /\ \A k \in Configurers : caller[k].pc = "wait" => caller[k].rid \in Nat \ {0}
    <2>1. \A k \in Configurers : k \in Callers
      BY Apart
    <2>2. \A k \in Configurers : caller[k].pc = "wait" => caller[k].rid \in 1..nextId
      BY <2>1 DEF Routed
    <2>3. QED
      BY <2>1, <2>2
  <1>3. \A x \in Conns : toExt[x] \in Seq(Sent) /\ toHx[x] \in Seq(Received)
    BY DEF Shaped, Typed
  <1>4. CASE Plain
    <2>1. \A x \in Conns : \A f \in Frames(toExt'[x]) :
             \/ f \in Frames(toExt[x])
             \/ \A k \in Configurers : caller[k].pc = "wait" => f.rid # caller[k].rid
      <3> TAKE x \in Conns
      <3>1. CASE toExt'[x] = toExt[x]
        BY <3>1
      <3>2. ASSUME NEW f \in Sent, toExt'[x] = Append(toExt[x], f),
                   \A k \in Configurers : caller[k].pc = "wait" => f.rid # caller[k].rid
            PROVE  \A g \in Frames(toExt'[x]) :
                      \/ g \in Frames(toExt[x])
                      \/ \A k \in Configurers : caller[k].pc = "wait" => g.rid # caller[k].rid
        <4>1. Frames(toExt'[x]) = Frames(toExt[x]) \cup {f}
          BY <1>3, <3>2, FramesAre
        <4>2. QED
          BY <3>2, <4>1
      <3>3. QED
        BY <1>4, <3>1, <3>2 DEF Plain, PlainWire
    <2>2. \A k \in Configurers : caller'[k].pc = "wait" => caller'[k] = caller[k]
      BY <1>4 DEF Plain, PlainCall
    <2>3. QED
      BY <1>1, <1>4, <2>1, <2>2 DEF Plain
  <1>5. CASE Dial
    <2>1. \A x \in Conns : \A f \in Frames(toHx'[x]) : f \in Frames(toHx[x]) \/ f.rid = 0
      BY <1>5, DialIs
    <2>2. toExt' = toExt /\ caller' = caller
      BY <1>5, DialIs
    <2>3. QED
      BY <1>1, <1>2, <2>1, <2>2
  <1>6. CASE ExtHandle
    <2> DEFINE f == Head(toExt[dial])
    <2>1. /\ f \in Frames(toExt[dial])
          /\ \A x \in Conns : Frames(toExt'[x]) \subseteq Frames(toExt[x])
          /\ dial \in Conns /\ caller' = caller
      <3>1. /\ dial \in Conns /\ caller' = caller /\ toExt[dial] # <<>>
            /\ toExt'[dial] = Tail(toExt[dial])
            /\ \A x \in Conns : x # dial => toExt'[x] = toExt[x]
        BY <1>6, HandlesConfigs
      <3>2. f \in Frames(toExt[dial]) /\ Frames(Tail(toExt[dial])) \subseteq Frames(toExt[dial])
        BY <1>3, <3>1, FramesAre
      <3>3. QED
        BY <3>1, <3>2
    <2>2. \A x \in Conns : \A a \in Frames(toHx'[x]) :
             \/ a \in Frames(toHx[x])
             \/ x = dial /\ IsConfigAnswer(a)
             \/ x = dial /\ a.rid \in {0, f.rid} /\ ~IsConfig(f)
      BY <1>6, HandlesConfigs
    <2> HIDE DEF f
    <2>3. \A k \in Configurers : caller[k].pc = "wait" /\ ~IsConfig(f) => f.rid # caller[k].rid
      BY <2>1 DEF OnlyConfig
    <2>4. QED
      BY <1>1, <1>2, <2>1, <2>2, <2>3
  <1>7. CASE Hello \/ OnHalted \/ Deliver
    <2>1. /\ srv.conn \in Conns /\ toHx[srv.conn] # <<>>
          /\ toHx'[srv.conn] = Tail(toHx[srv.conn])
          /\ \A x \in Conns : x # srv.conn => toHx'[x] = toHx[x]
          /\ toExt' = toExt /\ caller' = caller
      BY <1>7, HearsConfigs
    <2>2. Frames(Tail(toHx[srv.conn])) \subseteq Frames(toHx[srv.conn])
      BY <1>3, <2>1, FramesAre
    <2>3. QED
      BY <1>1, <2>1, <2>2
  <1>8. CASE ExtDies \/ Accept \/ Reset
    BY <1>1, <1>8, AcceptIs, ResetIs DEF ExtDies
  <1>9. ASSUME NEW k \in Configurers, WriteRequest(k), caller'[k] # NoCall PROVE OnlyConfig'
    <2>1. /\ srv.conn \in Conns /\ toHx' = toHx
          /\ caller[k].pc = "write"
          /\ \A d \in Configurers : d # k => caller'[d] = caller[d]
          /\ caller'[k].pc = "wait" /\ caller'[k].rid = caller[k].rid
          /\ \A x \in Conns : x # srv.conn => toExt'[x] = toExt[x]
      BY <1>2, <1>9, AsksIs
    <2>2. PICK f \in Sent : /\ IsConfig(f) /\ toExt'[srv.conn] = Append(toExt[srv.conn], f)
      BY <1>9, AsksIs
    <2>3. Frames(toExt'[srv.conn]) = Frames(toExt[srv.conn]) \cup {f}
      BY <1>3, <2>1, <2>2, FramesAre
    <2>4. \A x \in Conns : \A g \in Frames(toExt[x]) \cup Frames(toHx[x]) : g.rid # caller[k].rid
      <3>1. \A x \in Conns : caller[k].rid \notin On(x)
        <4>1. caller[k].on \notin Conns
          BY <1>2, <2>1, Near DEF Shaped, CallFits
        <4>2. QED
          BY <1>2, <2>1, <4>1 DEF Routed
      <3>2. QED
        BY <3>1 DEF On, Rids, Frames
    <2>5. \A x \in Conns : \A g \in Frames(toExt'[x]) : g \in Frames(toExt[x]) \/ IsConfig(g)
      BY <2>1, <2>2, <2>3
    <2>6. QED
      BY <2>1, <2>4, <2>5 DEF OnlyConfig
  <1>10. ASSUME NEW k \in Configurers, Collect(k), caller'[k] # NoCall PROVE OnlyConfig'
    BY <1>1, <1>2, <1>10, TakesIs
  <1>11. ASSUME NEW k \in Configurers, CommitConfigure(k), Current(k) PROVE OnlyConfig'
    BY <1>1, <1>2, <1>11, CommitsIs, RecordsFit
  <1>12. QED
    BY <1>4, <1>5, <1>6, <1>7, <1>8, <1>9, <1>10, <1>11, Kinds

LEMMA SameConnStep ==
    ASSUME Shaped, Routed, SameConn, [Next]_vars
    PROVE  SameConn'
  <1>1. \A k \in Configurers : k \in Callers
    BY Apart
  <1>2. CASE Plain
    BY <1>2 DEF Plain, PlainCall, SameConn
  <1>3. CASE Dial \/ ExtDies \/ ExtHandle
    BY <1>3, DialIs, HandlesConfigs DEF ExtDies, SameConn
  <1>4. CASE Hello \/ OnHalted \/ Deliver
    <2>1. caller' = caller /\ srv'.conn = srv.conn /\ srv'.gen = srv.gen
      BY <1>4, HearsConfigs
    <2>2. QED
      BY <2>1 DEF SameConn
  <1>5. CASE Accept
    BY <1>1, <1>5, AcceptIs DEF SameConn
  <1>6. CASE Reset
    BY <1>6, ResetIs DEF SameConn
  <1>7. ASSUME NEW k \in Configurers, WriteRequest(k), caller'[k] # NoCall PROVE SameConn'
    <2>1. /\ srv' = srv /\ caller'[k].on = srv.conn
          /\ \A d \in Configurers : d # k => caller'[d] = caller[d]
      BY <1>1, <1>7, AsksIs
    <2>2. QED
      BY <2>1 DEF SameConn
  <1>8. ASSUME NEW k \in Configurers, Collect(k), caller'[k] # NoCall PROVE SameConn'
    <2>1. /\ srv' = srv /\ caller[k].pc = "wait"
          /\ caller'[k].on = caller[k].on /\ caller'[k].gen = caller[k].gen
          /\ \A d \in Configurers : d # k => caller'[d] = caller[d]
      BY <1>1, <1>8, TakesIs
    <2>2. QED
      BY <2>1 DEF SameConn
  <1>9. ASSUME NEW k \in Configurers, CommitConfigure(k), Current(k) PROVE SameConn'
    BY <1>1, <1>9, CommitsIs, RecordsFit DEF SameConn
  <1>10. QED
    BY <1>2, <1>3, <1>4, <1>5, <1>6, <1>7, <1>8, <1>9, Kinds

LEMMA UnheardStep ==
    ASSUME Shaped, Routed, SameConn, Unheard, [Next]_vars
    PROVE  Unheard'
  <1>1. \A k \in Configurers : k \in Callers
    BY Apart
  <1>2. ASSUME srv'.conn = srv.conn, srv'.epoch = srv.epoch, replies' \subseteq replies,
               srv.conn # None => (Greets(toHx'[srv.conn]) => Greets(toHx[srv.conn])),
               \A k \in Configurers :
                  caller'[k] = caller[k] \/ caller'[k].pc \notin {"wait", "commit"}
        PROVE  Unheard'
    BY <1>2 DEF Unheard, NoReply
  <1>3. CASE Plain
    BY <1>2, <1>3 DEF Plain, PlainCall
  <1>4. CASE Dial
    BY <1>2, <1>4, DialIs, Near
  <1>5. CASE ExtDies
    BY <1>2, <1>5 DEF ExtDies, callVars
  <1>6. CASE ExtHandle
    <2>1. /\ UNCHANGED <<srv, replies, caller>>
          /\ \A x \in Conns : Greets(toHx'[x]) => Greets(toHx[x])
      BY <1>6, HandlesConfigs
    <2>2. QED
      BY <1>2, <2>1, Near
  <1>7. CASE Accept
    BY <1>7, AcceptIs DEF Unheard
  <1>8. CASE Reset
    BY <1>8, ResetIs DEF Unheard
  <1>9. CASE Hello \/ OnHalted \/ Deliver
    <2>1. /\ srv.conn \in Conns /\ toHx[srv.conn] \in Seq(Received) /\ toHx[srv.conn] # <<>>
          /\ toHx'[srv.conn] = Tail(toHx[srv.conn]) /\ srv'.conn = srv.conn
      BY <1>9, HearsConfigs
    <2>2. HelloFirst(toHx[srv.conn])
      BY <2>1 DEF Shaped, Places
    <2>3. ~Greets(Tail(toHx[srv.conn]))
      BY <2>1, <2>2, ReadsOne
    <2>4. QED
      BY <2>1, <2>3 DEF Unheard
  <1>10. ASSUME NEW k \in Configurers, WriteRequest(k), caller'[k] # NoCall PROVE Unheard'
    <2>1. /\ UNCHANGED <<toHx, srv, replies>>
          /\ \A d \in Configurers : d # k => caller'[d] = caller[d]
          /\ caller[k].pc = "write" /\ caller'[k].pc = "wait" /\ caller'[k].rid = caller[k].rid
      BY <1>1, <1>10, AsksIs
    <2>2. \A f \in replies : f.rid # caller[k].rid
      BY <1>1, <2>1 DEF Routed
    <2>3. QED
      BY <2>1, <2>2 DEF Unheard, NoReply
  <1>11. ASSUME NEW k \in Configurers, Collect(k), caller'[k] # NoCall PROVE Unheard'
    <2>1. /\ UNCHANGED <<toHx, srv>> /\ replies' \subseteq replies
          /\ \A d \in Configurers : d # k => caller'[d] = caller[d]
          /\ caller[k].pc = "wait" /\ caller'[k].on = caller[k].on
          /\ caller'[k].reply \in replies /\ caller'[k].reply.rid = caller[k].rid
      BY <1>1, <1>11, TakesIs
    <2>2. QED
      BY <2>1 DEF Unheard, NoReply
  <1>12. ASSUME NEW k \in Configurers, CommitConfigure(k), Current(k) PROVE Unheard'
    <2>1. /\ toHx' = toHx /\ srv'.conn = srv.conn /\ srv.conn # None
          /\ caller[k].pc = "commit" /\ caller[k].gen = srv.gen
      BY <1>12, CommitsIs
    <2>2. caller[k].on = srv.conn
      BY <2>1 DEF SameConn
    <2>3. ~Greets(toHx[srv.conn])
      BY <2>1, <2>2 DEF Unheard
    <2>4. QED
      BY <2>1, <2>3 DEF Unheard
  <1>13. QED
    BY <1>3, <1>4, <1>5, <1>6, <1>7, <1>8, <1>9, <1>10, <1>11, <1>12, Kinds

LEMMA GivenOutStep ==
    ASSUME Shaped, Routed, SameConn, GivenOut, [Next]_vars
    PROVE  GivenOut'
  <1>1. /\ \A k \in Configurers : k \in Callers
        /\ ext.counter \in Nat /\ ext.epoch \in Nat
        /\ ext.up => dial \in Conns
        /\ \A x \in Conns : toHx[x] \in Seq(Received)
    BY Apart DEF Shaped, Typed, Places, Extensions
  <1>2. ASSUME dial' = dial, ext'.up => ext.up,
               ext'.up => ext'.epoch = ext.epoch /\ ext'.counter = ext.counter,
               ext.up => Frames(toHx'[dial]) \subseteq Frames(toHx[dial]),
               srv'.epoch = 0 \/ (srv'.conn = srv.conn /\ srv'.epoch = srv.epoch),
               replies' \subseteq replies,
               \A k \in Configurers :
                  caller'[k] = caller[k] \/ caller'[k].pc \notin {"wait", "commit"}
        PROVE  GivenOut'
    BY <1>1, <1>2 DEF GivenOut
  <1>3. CASE Plain
    BY <1>2, <1>3 DEF Plain, PlainCall
  <1>4. CASE Dial
    <2>1. /\ dial' = dial + 1 /\ srv'.conn # dial' /\ srv.last < dial'
          /\ ext'.epoch = 0 /\ ext'.counter = 0 /\ caller' = caller
          /\ \A f \in Frames(toHx'[dial']) : f.epoch = 0
      BY <1>4, DialIs
    <2>2. \A k \in Configurers : caller[k].pc \in {"wait", "commit"} => caller[k].on # dial'
      BY <1>1, <2>1, Near DEF Shaped, CallFits
    <2>3. QED
      BY <2>1, <2>2 DEF GivenOut
  <1>5. CASE ExtDies
    BY <1>5, RecordsFit DEF ExtDies, GivenOut
  <1>6. CASE ExtHandle
    <2>1. UNCHANGED <<dial, srv, replies, caller>> /\ ext.up
      BY <1>6, HandlesConfigs
    <2>2. CASE ~ext'.up
      BY <2>2 DEF GivenOut
    <2>3. CASE /\ ext'.epoch = ext.epoch /\ ext'.counter = ext.counter
               /\ \A a \in Frames(toHx'[dial]) :
                     a \in Frames(toHx[dial]) \/ a.epoch \in {0, ext.epoch}
      BY <1>1, <2>1, <2>3 DEF GivenOut
    <2>4. CASE /\ ext'.epoch \in Nat /\ ext'.counter \in Nat
               /\ ext'.epoch =< ext'.counter /\ ext.counter =< ext'.counter
               /\ \A a \in Frames(toHx'[dial]) :
                     a \in Frames(toHx[dial]) \/ a.epoch = ext'.epoch
      <3>1. \A e \in Nat : e =< ext.counter => e =< ext'.counter
        BY <1>1, <2>4
      <3>2. /\ \A f \in Frames(toHx[dial]) : f.epoch \in Nat
            /\ \A f \in replies : f.epoch \in Nat
            /\ \A k \in Configurers : caller[k].pc = "commit" => caller[k].reply.epoch \in Nat
            /\ srv.epoch \in Nat
        <4>1. \A f \in Received : f.epoch \in Nat
          BY DEF Received, AnswerRecord
        <4>2. Frames(toHx[dial]) \subseteq Received
          BY <1>1, <2>1, FramesAre
        <4>3. \A k \in Configurers : caller[k].pc = "commit" => caller[k].reply \in Received
          BY <1>1 DEF Shaped, CallFits
        <4>4. replies \subseteq Received /\ srv.epoch \in Nat
          BY DEF Shaped, Typed, Sessions
        <4>5. QED
          BY <4>1, <4>2, <4>3, <4>4
      <3>3. QED
        BY <2>1, <2>4, <3>1, <3>2 DEF GivenOut
    <2>5. QED
      BY <1>6, <2>2, <2>3, <2>4, HandlesConfigs
  <1>7. CASE Accept
    BY <1>2, <1>7, AcceptIs
  <1>8. CASE Reset
    BY <1>2, <1>8, ResetIs
  <1>9. CASE Hello \/ OnHalted \/ Deliver
    <2> DEFINE f == Head(toHx[srv.conn])
    <2>1. /\ srv.conn \in Conns /\ toHx[srv.conn] # <<>>
          /\ toHx'[srv.conn] = Tail(toHx[srv.conn])
          /\ \A x \in Conns : x # srv.conn => toHx'[x] = toHx[x]
          /\ UNCHANGED <<dial, ext, caller>> /\ srv'.conn = srv.conn
          /\ \A g \in replies' : g \in replies \/ g = f
          /\ srv'.epoch \in {0, srv.epoch}
      BY <1>9, HearsConfigs
    <2>2. /\ f \in Frames(toHx[srv.conn])
          /\ Frames(toHx'[srv.conn]) \subseteq Frames(toHx[srv.conn])
      BY <1>1, <2>1, FramesAre
    <2>3. \A k \in Configurers : caller[k].pc = "wait" /\ f.rid = caller[k].rid
             => caller[k].on = srv.conn
      <3>1. f.rid \in On(srv.conn)
        BY <2>2 DEF On, Rids, Frames
      <3>2. QED
        BY <1>1, <2>1, <3>1 DEF Routed
    <2> HIDE DEF f
    <2>4. QED
      BY <1>1, <2>1, <2>2, <2>3 DEF GivenOut
  <1>10. ASSUME NEW k \in Configurers, WriteRequest(k), caller'[k] # NoCall PROVE GivenOut'
    <2>1. /\ UNCHANGED <<toHx, dial, ext, srv, replies>>
          /\ \A d \in Configurers : d # k => caller'[d] = caller[d]
          /\ caller[k].pc = "write" /\ caller'[k].pc = "wait" /\ caller'[k].rid = caller[k].rid
      BY <1>1, <1>10, AsksIs
    <2>2. \A f \in replies : f.rid # caller[k].rid
      BY <1>1, <2>1 DEF Routed
    <2>3. QED
      BY <2>1, <2>2 DEF GivenOut
  <1>11. ASSUME NEW k \in Configurers, Collect(k), caller'[k] # NoCall PROVE GivenOut'
    <2>1. /\ UNCHANGED <<toHx, dial, ext, srv>> /\ replies' \subseteq replies
          /\ \A d \in Configurers : d # k => caller'[d] = caller[d]
          /\ caller[k].pc = "wait" /\ caller'[k].pc = "commit" /\ caller'[k].on = caller[k].on
          /\ caller'[k].reply \in replies /\ caller'[k].reply.rid = caller[k].rid
      BY <1>1, <1>11, TakesIs
    <2>2. QED
      BY <2>1 DEF GivenOut
  <1>12. ASSUME NEW k \in Configurers, CommitConfigure(k), Current(k) PROVE GivenOut'
    <2>1. /\ UNCHANGED <<toHx, dial, ext, replies>>
          /\ srv'.conn = srv.conn /\ srv.conn # None
          /\ \A d \in Configurers : d # k => caller'[d] = caller[d]
          /\ caller[k].pc = "commit" /\ caller[k].gen = srv.gen /\ caller'[k].pc = "idle"
          /\ srv'.epoch = caller[k].reply.epoch
      BY <1>1, <1>12, CommitsIs, RecordsFit
    <2>2. caller[k].on = srv.conn
      BY <2>1 DEF SameConn
    <2>3. QED
      BY <2>1, <2>2 DEF GivenOut
  <1>13. QED
    BY <1>3, <1>4, <1>5, <1>6, <1>7, <1>8, <1>9, <1>10, <1>11, <1>12, Kinds

LEMMA EpochInit == Init => EpochInv
  <1> SUFFICES ASSUME Init PROVE EpochInv
    OBVIOUS
  <1>1. \A k \in Configurers : k \in Callers /\ caller[k].pc = "idle"
    BY Apart, RecordsFit DEF Init
  <1>2. OnlyConfig /\ SameConn /\ Unheard /\ GivenOut
    BY <1>1, RecordsFit DEF Init, OnlyConfig, SameConn, Unheard, GivenOut
  <1>3. QED
    BY <1>2, ShapedInit, RoutedInit DEF EpochInv

LEMMA EpochStep == EpochInv /\ [Next]_vars => EpochInv'
  BY ShapedStep, RoutedStep, OnlyConfigStep, SameConnStep, UnheardStep, GivenOutStep
     DEF EpochInv

(***************************************************************************)
(* One thread that configures: as long as each of its configures on this    *)
(* connection got its answer, the two sides are at most one configure       *)
(* apart, and the answer to it is on its way.  Two such threads could       *)
(* commit their answers in the other order than the extension gave them.    *)
(***************************************************************************)
OneConfigurer == \A c, d \in Configurers : c = d

Asking(k, x) == caller[k].on = x /\ caller[k].pc \in {"wait", "commit"}
Still(x)     == NoConfig(toExt[x]) /\ NoConfigAnswer(toHx[x])

Asked(k, x) ==
    caller[k].pc = "wait" /\ NoReply(k) /\ OneConfig(toExt[x]) /\ NoConfigAnswer(toHx[x])
Answering(k, x) ==
    caller[k].pc = "wait" /\ NoReply(k) /\ NoConfig(toExt[x]) /\ OneConfigAnswer(toHx[x], ext.epoch)
Answered(k, x) ==
    /\ Still(x)
    /\ caller[k].pc = "wait" => \A f \in replies : f.rid = caller[k].rid => f.epoch = ext.epoch
    /\ caller[k].pc = "commit" => caller[k].reply.epoch = ext.epoch

Level  == /\ \A k \in Configurers : ~Asking(k, srv.conn)
          /\ Still(srv.conn)
          /\ srv.epoch = ext.epoch
Behind == \E k \in Configurers :
             /\ Asking(k, srv.conn)
             /\ Asked(k, srv.conn) \/ Answering(k, srv.conn) \/ Answered(k, srv.conn)

OneApart == PeerUp /\ srv.conn \notin unanswered => Level \/ Behind

LEMMA OneApartStep ==
    ASSUME EpochInv, OneApart, OneConfigurer, [Next]_vars
    PROVE  OneApart'
  <1> USE DEF EpochInv
  <1>1. /\ \A k \in Configurers : k \in Callers
        /\ PeerUp => srv.conn \in Conns
        /\ ext.up => dial \in Conns
        /\ None \notin Conns
        /\ \A x \in Conns : toExt[x] \in Seq(Sent) /\ toHx[x] \in Seq(Received)
    BY Apart, BridgeAssumption DEF Shaped, Typed, Places, PeerUp
  <1>2. ASSUME srv'.conn = srv.conn, dial' = dial, ext'.up => ext.up,
               PeerUp' => /\ ext'.epoch = ext.epoch /\ srv'.epoch = srv.epoch
                          /\ SameConfigs(toExt[srv.conn], toExt'[srv.conn])
                          /\ SameAnswers(toHx[srv.conn], toHx'[srv.conn]),
               unanswered \subseteq unanswered',
               \A k \in Configurers : PlainCall(k),
               \A f \in replies' :
                  \/ f \in replies
                  \/ \A k \in Configurers : caller[k].pc = "wait" => f.rid # caller[k].rid
        PROVE  OneApart'
    <2> SUFFICES ASSUME PeerUp', srv.conn \notin unanswered'
                 PROVE  Level' \/ Behind'
      BY <1>2 DEF OneApart
    <2>1. /\ ext'.epoch = ext.epoch /\ srv'.epoch = srv.epoch
          /\ SameConfigs(toExt[srv.conn], toExt'[srv.conn])
          /\ SameAnswers(toHx[srv.conn], toHx'[srv.conn])
      BY <1>2
    <2>2. Level \/ Behind
      BY <1>2 DEF OneApart, PeerUp
    <2>3. Still(srv.conn) => Still(srv.conn)'
      BY <1>2, <2>1 DEF Still, SameConfigs, SameAnswers
    <2>4. CASE Level
      <3>1. \A k \in Configurers : ~Asking(k, srv.conn)'
        BY <1>2, <2>4 DEF Level, Asking, PlainCall
      <3>2. QED
        BY <1>2, <2>1, <2>3, <2>4, <3>1 DEF Level
    <2>5. CASE Behind
      <3>1. PICK k \in Configurers :
               /\ Asking(k, srv.conn)
               /\ Asked(k, srv.conn) \/ Answering(k, srv.conn) \/ Answered(k, srv.conn)
        BY <2>5 DEF Behind
      <3>2. caller'[k] = caller[k]
        BY <1>2, <3>1 DEF Asking, PlainCall
      <3>3. Asking(k, srv.conn)'
        BY <1>2, <3>1, <3>2 DEF Asking
      <3>4. caller[k].pc = "wait" /\ NoReply(k) => NoReply(k)'
        BY <1>2, <3>2 DEF NoReply
      <3>5. Asked(k, srv.conn) => Asked(k, srv.conn)'
        BY <1>2, <2>1, <3>2, <3>4 DEF Asked, SameConfigs, SameAnswers
      <3>6. Answering(k, srv.conn) => Answering(k, srv.conn)'
        BY <1>2, <2>1, <3>2, <3>4 DEF Answering, SameConfigs, SameAnswers
      <3>7. Answered(k, srv.conn) => Answered(k, srv.conn)'
        BY <1>2, <2>1, <2>3, <3>2 DEF Answered
      <3>8. QED
        BY <3>1, <3>3, <3>5, <3>6, <3>7 DEF Behind
    <2>6. QED
      BY <2>2, <2>4, <2>5
  <1>3. CASE Plain
    <2>1. ASSUME PeerUp'
          PROVE  SameConfigs(toExt[srv.conn], toExt'[srv.conn])
      <3>1. srv.conn \in Conns
        BY <1>1, <1>3, <2>1 DEF Plain, PeerUp
      <3>2. PlainWire(srv.conn) /\ toExt[srv.conn] \in Seq(Sent)
        BY <1>1, <1>3, <3>1 DEF Plain
      <3>3. QED
        BY <3>2, SameWire DEF PlainWire, SameConfigs
    <2>2. SameAnswers(toHx[srv.conn], toHx'[srv.conn])
      BY <1>3 DEF Plain, SameAnswers
    <2>3. QED
      BY <1>2, <1>3, <2>1, <2>2 DEF Plain
  <1>4. CASE Dial
    BY <1>4, DialIs DEF OneApart, PeerUp
  <1>5. CASE ExtDies
    BY <1>5, RecordsFit DEF ExtDies, OneApart, PeerUp
  <1>6. CASE Reset
    BY <1>1, <1>6, ResetIs DEF OneApart, PeerUp
  <1>7. CASE Accept
    <2> SUFFICES ASSUME PeerUp' PROVE Level'
      BY DEF OneApart
    <2>1. /\ dial = srv'.conn /\ dial \in Conns /\ srv.last < dial /\ srv.last \in Nat /\ ext.up
          /\ UNCHANGED <<toExt, toHx, ext, caller>> /\ srv'.epoch = 0
          /\ \A k \in Configurers :
                caller[k].pc \in {"wait", "commit"} => caller[k].on # srv'.conn
      BY <1>1, <1>7, AcceptIs, Near DEF PeerUp
    <2>2. dial > srv.last /\ dial =< dial /\ dial \in Nat
      BY <2>1, Near
    <2>3. toExt[dial] = <<>> /\ NoConfigAnswer(toHx[dial]) /\ ext.epoch = 0
      BY <2>1, <2>2 DEF Shaped, Places
    <2>4. NoConfig(toExt[dial])
      BY <2>3 DEF NoConfig
    <2>5. QED
      BY <2>1, <2>3, <2>4 DEF Level, Still, Asking
  <1>8. CASE ExtHandle
    <2> DEFINE f == Head(toExt[dial])
    <2>1. /\ ext.up /\ dial \in Conns /\ toExt[dial] # <<>>
          /\ toExt'[dial] = Tail(toExt[dial])
          /\ UNCHANGED <<dial, srv, replies, caller, unanswered>>
      BY <1>8, HandlesConfigs
    <2> SUFFICES ASSUME PeerUp', srv.conn \notin unanswered PROVE Level' \/ Behind'
      BY <2>1 DEF OneApart
    <2>2. dial = srv.conn /\ ext'.up /\ PeerUp
      BY <2>1 DEF PeerUp
    <2>3. CASE /\ ~IsConfig(f) /\ ext'.epoch = ext.epoch
               /\ SameAnswers(toHx[dial], toHx'[dial])
      <3>1. SameConfigs(toExt[dial], toExt'[dial])
        BY <1>1, <2>1, <2>3, SameWire
      <3>2. OneApart'
        BY <1>2, <2>1, <2>2, <2>3, <3>1 DEF PlainCall
      <3>3. QED
        BY <2>1, <3>2 DEF OneApart
    <2>4. CASE /\ IsConfig(f)
               /\ NoConfigAnswer(toHx[dial]) => OneConfigAnswer(toHx'[dial], ext'.epoch)
      <3>1. ~NoConfig(toExt[dial]) /\ (OneConfig(toExt[dial]) => NoConfig(toExt'[dial]))
        BY <1>1, <2>1, <2>4, ReadsOne
      <3>2. PICK k \in Configurers : Asking(k, dial) /\ Asked(k, dial)
        BY <2>1, <2>2, <3>1 DEF OneApart, Level, Behind, Still, Answering, Answered
      <3>3. Answering(k, dial)' /\ Asking(k, dial)'
        BY <2>1, <2>4, <3>1, <3>2 DEF Asked, Answering, Asking, NoReply
      <3>4. QED
        BY <2>1, <2>2, <3>3 DEF Behind
    <2>5. QED
      BY <1>8, <2>2, <2>3, <2>4, HandlesConfigs
  <1>9. CASE Hello \/ OnHalted \/ Deliver
    <2> DEFINE q == toHx[srv.conn]
               f == Head(q)
    <2>1. /\ srv.conn \in Conns /\ q \in Seq(Received) /\ q # <<>> /\ f \in Received
          /\ toHx'[srv.conn] = Tail(q)
          /\ UNCHANGED <<toExt, dial, ext, caller, unanswered>>
          /\ srv'.conn = srv.conn
      BY <1>9, HearsConfigs
    <2>2. \A k \in Configurers : PlainCall(k)
      BY <2>1 DEF PlainCall
    <2>3. SameConfigs(toExt[srv.conn], toExt'[srv.conn])
      BY <2>1 DEF SameConfigs
    <2>4. f.t = "hello" => srv.epoch = 0
      <3>1. Greets(q) <=> f.t = "hello"
        BY <2>1, ReadsOne
      <3>2. QED
        BY <1>1, <2>1, <3>1 DEF Unheard
    <2>5. /\ srv'.epoch = srv.epoch
          /\ \A g \in replies' : g \in replies \/ g = f
      BY <1>9, <2>4, HearsConfigs
    <2>6. f \in Frames(q)
      BY <2>1, FramesAre
    <2>7. CASE ~IsConfigAnswer(f)
      <3>1. SameAnswers(q, toHx'[srv.conn])
        BY <2>1, <2>7, SameWire
      <3>2. \A k \in Configurers : caller[k].pc = "wait" => f.rid # caller[k].rid
        BY <2>1, <2>6, <2>7 DEF OnlyConfig
      <3>3. \A g \in replies' :
               \/ g \in replies
               \/ \A k \in Configurers : caller[k].pc = "wait" => g.rid # caller[k].rid
        BY <2>5, <3>2
      <3>4. QED
        BY <1>2, <2>1, <2>2, <2>3, <2>5, <3>1, <3>3
    <2>8. CASE IsConfigAnswer(f)
      <3> SUFFICES ASSUME PeerUp', srv.conn \notin unanswered PROVE Behind'
        BY <2>1 DEF OneApart
      <3>1. PeerUp
        BY <2>1 DEF PeerUp
      <3>2. /\ ~NoConfigAnswer(q)
            /\ OneConfigAnswer(q, ext.epoch) =>
                  NoConfigAnswer(Tail(q)) /\ f.epoch = ext.epoch
        BY <2>1, <2>8, ReadsOne
      <3>3. PICK k \in Configurers : Asking(k, srv.conn) /\ Answering(k, srv.conn)
        BY <3>1, <3>2 DEF OneApart, Level, Behind, Still, Asked, Answered
      <3>4. Asking(k, srv.conn)'
        BY <2>1, <3>3 DEF Asking
      <3>5. Still(srv.conn)'
        BY <2>1, <3>2, <3>3 DEF Still, Answering
      <3>6. \A g \in replies' : g.rid = caller[k].rid => g.epoch = ext.epoch
        BY <2>5, <3>2, <3>3 DEF Answering, NoReply
      <3>7. Answered(k, srv.conn)'
        BY <2>1, <3>3, <3>5, <3>6 DEF Answered, Answering
      <3>8. QED
        BY <3>4, <3>7 DEF Behind
    <2>9. QED
      BY <2>7, <2>8
  <1>10. ASSUME NEW k \in Configurers, WriteRequest(k), caller'[k] # NoCall PROVE OneApart'
    <2>1. /\ srv.conn \in Conns
          /\ UNCHANGED <<toHx, dial, ext, srv, replies, unanswered>>
          /\ caller[k].pc = "write" /\ caller'[k].pc = "wait"
          /\ caller'[k].on = srv.conn /\ caller'[k].rid = caller[k].rid
      BY <1>10, AsksIs
    <2>2. PICK f \in Sent : IsConfig(f) /\ toExt'[srv.conn] = Append(toExt[srv.conn], f)
      BY <1>10, AsksIs
    <2> SUFFICES ASSUME PeerUp', srv.conn \notin unanswered PROVE Behind'
      BY <2>1 DEF OneApart
    <2>3. PeerUp
      BY <2>1 DEF PeerUp
    <2>4. ~Behind
      BY <2>1 DEF Behind, Asking, OneConfigurer
    <2>5. Level
      BY <2>3, <2>4 DEF OneApart
    <2>6. OneConfig(toExt'[srv.conn])
      BY <1>1, <2>1, <2>2, <2>5, Writes DEF Level, Still
    <2>7. \A g \in replies : g.rid # caller[k].rid
      BY <1>1, <2>1 DEF Routed
    <2>8. Asking(k, srv.conn)' /\ Asked(k, srv.conn)'
      BY <2>1, <2>5, <2>6, <2>7 DEF Asking, Asked, NoReply, Level, Still
    <2>9. QED
      BY <2>8 DEF Behind
  <1>11. ASSUME NEW k \in Configurers, Collect(k), caller'[k] # NoCall PROVE OneApart'
    <2>1. /\ UNCHANGED <<toExt, toHx, dial, ext, srv, unanswered>>
          /\ caller[k].pc = "wait" /\ caller'[k].pc = "commit"
          /\ caller'[k].on = caller[k].on
          /\ caller'[k].reply \in replies /\ caller'[k].reply.rid = caller[k].rid
      BY <1>11, TakesIs
    <2> SUFFICES ASSUME PeerUp', srv.conn \notin unanswered PROVE Level' \/ Behind'
      BY <2>1 DEF OneApart
    <2>2. PeerUp
      BY <2>1 DEF PeerUp
    <2>3. CASE Level
      <3>1. \A c \in Configurers : ~Asking(c, srv.conn)'
        BY <2>1, <2>3 DEF Level, Asking, OneConfigurer
      <3>2. QED
        BY <2>1, <2>3, <3>1 DEF Level, Still
    <2>4. CASE Behind
      <3>1. /\ Asking(k, srv.conn)
            /\ Asked(k, srv.conn) \/ Answering(k, srv.conn) \/ Answered(k, srv.conn)
        BY <2>4 DEF Behind, OneConfigurer
      <3>2. Answered(k, srv.conn)
        BY <2>1, <3>1 DEF Asked, Answering, NoReply
      <3>3. Answered(k, srv.conn)' /\ Asking(k, srv.conn)'
        BY <2>1, <3>1, <3>2 DEF Answered, Still, Asking
      <3>4. QED
        BY <3>3 DEF Behind
    <2>5. QED
      BY <2>2, <2>3, <2>4 DEF OneApart
  <1>12. ASSUME NEW k \in Configurers, CommitConfigure(k), Current(k) PROVE OneApart'
    <2>1. /\ UNCHANGED <<toExt, toHx, dial, ext, replies, unanswered>>
          /\ srv.conn # None /\ caller[k].gen = srv.gen
          /\ caller[k].pc = "commit" /\ caller'[k].pc = "idle"
          /\ srv'.conn = srv.conn
          /\ srv'.epoch = caller[k].reply.epoch
      BY <1>12, CommitsIs, RecordsFit
    <2> SUFFICES ASSUME PeerUp', srv.conn \notin unanswered PROVE Level'
      BY <2>1 DEF OneApart
    <2>2. PeerUp /\ Asking(k, srv.conn)
      BY <2>1 DEF PeerUp, SameConn, Asking
    <2>3. Answered(k, srv.conn)
      BY <2>1, <2>2 DEF OneApart, Level, Behind, OneConfigurer, Asked, Answering
    <2>4. \A c \in Configurers : ~Asking(c, srv.conn)'
      BY <2>1 DEF Asking, OneConfigurer
    <2>5. QED
      BY <2>1, <2>3, <2>4 DEF Level, Answered, Still
  <1>13. QED
    BY <1>3, <1>4, <1>5, <1>6, <1>7, <1>8, <1>9, <1>10, <1>11, <1>12, Kinds

\* No epoch stands in for another peer's, and none without a peer, however many
\* threads configure: reset leaves DENY-ALL, hello takes nothing over, and a
\* commit is for its own generation only (BridgeServer._reset, configure).
THEOREM EpochHolds ==
    Spec => [](/\ srv.conn = None => srv.state = "waiting" /\ srv.epoch = 0
               /\ srv.epoch # 0 /\ PeerUp => srv.epoch =< ext.counter)
  <1> DEFINE Known == /\ srv.conn = None => srv.state = "waiting" /\ srv.epoch = 0
                      /\ srv.epoch # 0 /\ PeerUp => srv.epoch =< ext.counter
  <1>1. EpochInv => Known
    BY DEF EpochInv, Shaped, Places, GivenOut, PeerUp
  <1> HIDE DEF Known
  <1>2. Spec => []Known
    BY EpochInit, EpochStep, <1>1, PTL DEF Spec
  <1>3. QED
    BY <1>2 DEF Known

\* With one thread that configures, both sides agree on the epoch once nothing
\* is on its way, whatever sends, halts, resets and dials happen meanwhile.
THEOREM AgreeHolds ==
    OneConfigurer => (Spec => []SidesAgree)
  <1> SUFFICES ASSUME OneConfigurer PROVE Spec => []SidesAgree
    OBVIOUS
  <1>1. Init => OneApart
    BY RecordsFit DEF Init, OneApart, PeerUp
  <1>2. EpochInv /\ OneApart /\ [Next]_vars => OneApart'
    BY OneApartStep
  <1>3. EpochInv /\ OneApart => SidesAgree
    <2> SUFFICES ASSUME EpochInv, OneApart PROVE SidesAgree
      OBVIOUS
    <2>1. /\ srv.conn = None => srv.state = "waiting" /\ srv.epoch = 0
          /\ srv.epoch # 0 /\ PeerUp => srv.epoch =< ext.counter
      BY DEF EpochInv, Shaped, Places, GivenOut, PeerUp
    <2>2. Quiet => ~Behind
      BY DEF Quiet, Behind, Asking
    <2>3. Quiet /\ srv.conn \notin unanswered => srv.epoch = ext.epoch
      BY <2>2 DEF Quiet, OneApart, Level
    <2>4. QED
      BY <2>1, <2>3 DEF SidesAgree
  <1>4. QED
    BY EpochInit, EpochStep, <1>1, <1>2, <1>3, PTL DEF Spec

(***************************************************************************)
(* One operator: a halt that stands is the last command on its way to the   *)
(* peer, or the last one it took.  Two could write halt and resume in one   *)
(* order and commit them in the other.                                      *)
(***************************************************************************)
OneOperator == \A c, d \in Operators : c = d

Told == Halts(toExt[srv.conn], ext.halted)

\* A resume is on its way only when no halt stands, and until it is through
\* the durable halt stays.
Stands ==
    /\ standing => durable
    /\ \A c \in Operators : caller[c].pc \in {"resumeCommit", "disarm"} => ~standing

\* What halt() commits, it has written to the connection of its generation.
Wrote ==
    \A c \in Operators :
        caller[c].pc = "haltCommit" /\ caller[c].gen = srv.gen /\ PeerUp /\ standing => Told

\* A peer whose hello was handled has been told.
Reached ==
    standing /\ PeerUp /\ serve.pc \in {"read", "told"} /\ srv.state # "waiting"
             /\ (\A c \in Operators : caller[c].pc # "haltWrite")
        => Told

ReachInv == Stands /\ Wrote /\ Reached

\* A step that is no halt's and no resume's, on either side.
Calm ==
    /\ srv'.conn = srv.conn /\ srv'.gen = srv.gen
    /\ PeerUp' => PeerUp /\ (Told => Told')
    /\ standing' = standing /\ (durable => durable')
    /\ serve'.pc \in {"read", "told"} =>
          serve.pc \in {"read", "told"} /\ (srv'.state # "waiting" => srv.state # "waiting")
    /\ \A c \in Operators : caller'[c] = caller[c]

LEMMA CalmKeeps ==
    ASSUME ReachInv, Calm
    PROVE  ReachInv'
  <1>1. Stands'
    BY DEF ReachInv, Calm, Stands
  <1>2. Wrote'
    BY DEF ReachInv, Calm, Wrote
  <1>3. Reached'
    BY DEF ReachInv, Calm, Reached
  <1>4. QED
    BY <1>1, <1>2, <1>3 DEF ReachInv

LEMMA ToldKept ==
    ASSUME Shaped, NEW x \in Conns
    PROVE  LET q == toExt[x] IN
           /\ q \in Seq(Sent) /\ ext.halted \in BOOLEAN
           /\ \A f \in Sent : /\ f.t = "halt" => Halts(Append(q, f), ext.halted)
                              /\ Halts(q, ext.halted) /\ ~IsCommand(f)
                                    => Halts(Append(q, f), ext.halted)
           /\ q # <<>> /\ Halts(q, ext.halted) =>
                 Halts(Tail(q), IF Head(q).t = "halt" THEN TRUE
                                ELSE IF Head(q).t = "resume" THEN FALSE ELSE ext.halted)
  <1>1. toExt[x] \in Seq(Sent) /\ ext.halted \in BOOLEAN
    BY DEF Shaped, Typed, Extensions
  <1>2. QED
    BY <1>1, HaltsKept

\* The extension's steps, and what hx reads from it.
LEMMA CalmWire ==
    ASSUME EpochInv, Extension \/ Hello \/ OnHalted \/ Deliver
    PROVE  Calm
  <1> USE DEF EpochInv
  <1>1. (PeerUp => srv.conn \in Conns) /\ srv \in Sessions
    BY DEF Shaped, Typed, Places, PeerUp
  <1>2. CASE Dial
    <2>1. ~PeerUp'
      BY <1>2, DialIs DEF PeerUp
    <2>2. QED
      BY <1>2, <2>1, Apart DEF Dial, Calm, ghostVars
  <1>3. CASE ExtDies
    BY <1>3, RecordsFit DEF ExtDies, Calm, ghostVars, PeerUp
  <1>4. CASE ExtHandle
    <2> DEFINE f == Head(toExt[dial])
    <2>1. /\ UNCHANGED <<srv, serve, durable, standing, caller, dial>>
          /\ ext.up /\ dial \in Conns /\ toExt[dial] # <<>>
          /\ toExt'[dial] = Tail(toExt[dial])
      BY <1>4, HandlesConfigs DEF ExtHandle, ghostVars
    <2>2. ext'.up => ext'.halted = IF f.t = "halt" THEN TRUE
                                   ELSE IF f.t = "resume" THEN FALSE ELSE ext.halted
      <3>1. ext \in Extensions
        BY DEF Shaped, Typed
      <3>2. ASSUME IsCommand(f), ext' = [ext EXCEPT !.halted = (f.t = "halt")]
            PROVE  ext'.halted = IF f.t = "halt" THEN TRUE
                                 ELSE IF f.t = "resume" THEN FALSE ELSE ext.halted
        BY <3>1, <3>2 DEF IsCommand, Extensions
      <3>3. ASSUME ext' = ext \/ ext' = [ext EXCEPT !.stop = TRUE] \/ ext'.halted = ext.halted
            PROVE  ext'.halted = ext.halted
        BY <3>1, <3>3 DEF Extensions
      <3>4. CASE IsConfig(f) \/ f.t = "send"
        BY <1>4, <3>3, <3>4, HandleIs, RecordsFit DEF IsConfig, IsCommand
      <3>5. CASE IsCommand(f)
        BY <1>4, <3>2, <3>5, HandleIs, RecordsFit DEF IsConfig, IsCommand
      <3>6. QED
        BY <1>4, <3>4, <3>5, HandleIs, RecordsFit
    <2>3. PeerUp' => PeerUp /\ (Told => Told')
      <3> SUFFICES ASSUME PeerUp', Told PROVE PeerUp /\ Told'
        BY <2>1 DEF PeerUp
      <3>1. dial = srv.conn /\ ext'.up /\ PeerUp
        BY <2>1 DEF PeerUp
      <3> HIDE DEF f
      <3>2. Halts(Tail(toExt[dial]), ext'.halted)
        BY <2>1, <2>2, <3>1, ToldKept DEF Told, f
      <3>3. QED
        BY <2>1, <3>1, <3>2 DEF Told
    <2>4. QED
      BY <2>1, <2>3 DEF Calm
  <1>5. CASE Hello \/ OnHalted \/ Deliver
    <2>1. /\ UNCHANGED <<toExt, dial, ext, caller, durable, standing>>
          /\ srv'.conn = srv.conn /\ srv'.gen = srv.gen
      BY <1>5, HearsConfigs DEF Hello, OnHalted, Deliver, ghostVars
    <2>2. PeerUp' => PeerUp /\ (Told => Told')
      BY <2>1 DEF PeerUp, Told
    <2>3. serve'.pc \in {"read", "told"} =>
             serve.pc \in {"read", "told"} /\ (srv'.state # "waiting" => srv.state # "waiting")
      <3>1. CASE Hello
        BY <3>1 DEF Hello
      <3>2. CASE Deliver
        BY <3>2 DEF Deliver
      <3>3. CASE OnHalted
        <4>1. /\ srv.conn \in Conns /\ toHx[srv.conn] \in Seq(Received) /\ toHx[srv.conn] # <<>>
              /\ Head(toHx[srv.conn]).t = "halted" /\ serve.pc = "read"
          BY <3>3, ReadIs DEF OnHalted
        <4>2. ~Greets(toHx[srv.conn])
          BY <4>1, ReadsOne
        <4>3. srv.state # "waiting"
          BY <4>1, <4>2, BridgeAssumption DEF Shaped, Places
        <4>4. QED
          BY <4>1, <4>3
      <3>4. QED
        BY <1>5, <3>1, <3>2, <3>3
    <2>4. QED
      BY <2>1, <2>2, <2>3 DEF Calm
  <1>6. QED
    BY <1>2, <1>3, <1>4, <1>5 DEF Extension

\* hx's threads that configure or send.
LEMMA CalmCall ==
    ASSUME EpochInv, NEW c \in Configurers \cup Senders,
           \/ \E op \in {"configure", "misconfigure"} : BeginConfigure(c, op)
           \/ BeginSend(c) \/ Proceed(c) \/ Timeout(c)
    PROVE  Calm
  <1> USE DEF EpochInv
  <1>1. /\ c \in Callers /\ c \notin Operators /\ caller[c] \in Calls
        /\ caller \in [Callers -> Calls]
        /\ (PeerUp => srv.conn \in Conns) /\ srv \in Sessions
    BY Apart DEF Shaped, Typed, Places, PeerUp
  <1>2. \A next : Goes(c, next) => \A d \in Operators : caller'[d] = caller[d]
    BY <1>1, Apart DEF Goes
  <1>3. ASSUME UNCHANGED <<toExt, dial, ext>>, srv'.conn = srv.conn
        PROVE  PeerUp' => PeerUp /\ (Told => Told')
    BY <1>3 DEF PeerUp, Told
  <1>4. CASE WriteRequest(c)
    <2> DEFINE f == Frame(caller[c].op, caller[c].rid)
    <2>1. /\ UNCHANGED <<dial, ext, srv, serve, durable, standing>>
          /\ caller[c].pc = "write"
          /\ \A d \in Callers : d # c => caller'[d] = caller[d]
      BY <1>1, <1>4, RequestIs DEF ghostVars
    <2>2. f.t \in {"configure", "misconfigure", "send"}
      BY <1>1, <2>1 DEF Shaped, CallFits, Frame
    <2>3. ~IsCommand(f)
      BY <2>2 DEF IsCommand
    <2> HIDE DEF f
    <2>4. \/ toExt' = toExt
          \/ f \in Sent /\ srv.conn \in Conns /\ toExt'[srv.conn] = Append(toExt[srv.conn], f)
      BY <1>1, <1>4, RequestIs DEF f
    <2>5. PeerUp' => PeerUp /\ (Told => Told')
      BY <2>1, <2>3, <2>4, ToldKept DEF PeerUp, Told
    <2>6. QED
      BY <1>1, <2>1, <2>5, Apart DEF Calm
  <1>5. CASE \/ \E op \in {"configure", "misconfigure"} : BeginConfigure(c, op)
             \/ BeginSend(c) \/ Register(c) \/ Collect(c) \/ Timeout(c) \/ GiveUp(c) \/ Return(c)
             \/ CommitConfigure(c) /\ ~Current(c)
    <2>1. /\ UNCHANGED <<toExt, dial, ext, srv, serve, durable, standing>>
          /\ \E next : Goes(c, next)
      BY <1>5 DEF BeginConfigure, BeginSend, Register, Collect, Timeout, GiveUp, Return,
                  CommitConfigure, wireVars, ghostVars
    <2>2. QED
      BY <1>2, <1>3, <2>1 DEF Calm
  <1>6. CASE CommitConfigure(c) /\ Current(c)
    <2>1. c \in Configurers
      BY <1>1, <1>6 DEF CommitConfigure, Shaped, CallFits
    <2>2. /\ UNCHANGED <<toExt, toHx, dial, ext, serve, durable, standing>>
          /\ srv.conn # None /\ caller[c].gen = srv.gen /\ caller[c].pc = "commit"
          /\ srv'.conn = srv.conn /\ srv'.gen = srv.gen
      BY <1>6, <2>1, CommitsIs DEF CommitConfigure
    <2>3. srv.state # "waiting"
      <3>1. caller[c].on = srv.conn
        BY <2>1, <2>2 DEF SameConn
      <3>2. ~Greets(toHx[srv.conn])
        BY <2>1, <2>2, <3>1 DEF Unheard
      <3>3. QED
        BY <2>2, <3>2 DEF Shaped, Places
    <2>4. \A d \in Operators : caller'[d] = caller[d]
      BY <1>2, <1>6 DEF CommitConfigure
    <2>5. QED
      BY <1>3, <2>2, <2>3, <2>4 DEF Calm
  <1>7. QED
    BY <1>4, <1>5, <1>6 DEF Proceed

\* The serve thread's own steps.
LEMMA ReachServe ==
    ASSUME EpochInv, ReachInv, Serve
    PROVE  ReachInv'
  <1> USE DEF EpochInv
  <1>1. (PeerUp => srv.conn \in Conns) /\ srv \in Sessions /\ None \notin Conns
        /\ \A c \in Operators : c \in Callers
    BY Apart, BridgeAssumption DEF Shaped, Typed, Places, PeerUp
  <1>2. CASE Hello \/ OnHalted \/ Deliver
    BY <1>2, CalmWire, CalmKeeps
  <1>3. CASE ReassertCommit
    <2>1. /\ srv'.conn = srv.conn /\ srv'.gen = srv.gen
          /\ UNCHANGED <<toExt, ext, dial, standing, durable, caller>>
          /\ serve.pc = "told"
      BY <1>1, <1>3 DEF ReassertCommit, Sessions, wireVars, ghostVars
    <2>2. srv.state # "waiting"
      BY <2>1 DEF Shaped, Places
    <2>3. QED
      BY <2>1, <2>2, CalmKeeps DEF Calm, PeerUp, Told
  <1>4. CASE PeerGone
    BY <1>4, CalmKeeps DEF PeerGone, Calm, PeerUp, Told, wireVars, ghostVars
  <1>5. CASE Accept
    <2>1. /\ \A c \in Callers : caller[c].gen # srv'.gen
          /\ UNCHANGED <<standing, durable, caller>>
          /\ srv.conn = None
      BY <1>5, AcceptIs DEF Accept, ghostVars
    <2>2. srv'.state = "waiting"
      BY <1>1, <1>5, <2>1 DEF Accept, Shaped, Places, Sessions
    <2>3. Stands'
      BY <2>1 DEF ReachInv, Stands
    <2>4. QED
      BY <1>1, <2>1, <2>2, <2>3 DEF ReachInv, Wrote, Reached
  <1>6. CASE Reset
    <2>1. UNCHANGED <<standing, durable, caller>> /\ srv'.conn = None
          /\ dial' = dial /\ ext' = ext
      BY <1>6, ResetIs DEF Reset, ghostVars
    <2>2. ~PeerUp'
      BY <1>1, <2>1 DEF PeerUp, Shaped, Places
    <2>3. Stands'
      BY <2>1 DEF ReachInv, Stands
    <2>4. QED
      BY <2>2, <2>3 DEF ReachInv, Wrote, Reached
  <1>7. CASE Reassert
    <2> DEFINE f == Frame("halt", 0)
    <2>1. f \in Sent /\ f.t = "halt"
      BY AnswerFits DEF Frame, Ops
    <2>2. UNCHANGED <<ext, dial, srv, standing, durable, caller>>
      BY <1>7 DEF Reassert, ghostVars
    <2>3. Stands'
      BY <2>2 DEF ReachInv, Stands
    <2> HIDE DEF f
    <2>4. CASE ~durable
      BY <2>2, <2>3, <2>4 DEF ReachInv, Stands, Wrote, Reached
    <2>5. CASE toExt' = [toExt EXCEPT ![srv.conn] = Append(toExt[srv.conn], f)]
      <3>1. PeerUp' => Told'
        <4> SUFFICES ASSUME PeerUp' PROVE Told'
          OBVIOUS
        <4>1. srv.conn \in Conns
          BY <1>1, <2>2 DEF PeerUp
        <4>2. toExt'[srv.conn] = Append(toExt[srv.conn], f)
          BY <2>5, <4>1 DEF Shaped, Typed
        <4>3. QED
          BY <2>1, <2>2, <4>1, <4>2, ToldKept DEF Told
      <3>2. QED
        BY <2>3, <3>1 DEF ReachInv, Wrote, Reached
    <2>6. CASE serve' = [serve EXCEPT !.pc = "reset"] /\ UNCHANGED toExt
      <3>1. Calm
        <4>1. serve'.pc = "reset"
          BY <2>6 DEF Shaped, Typed
        <4>2. QED
          BY <2>2, <2>6, <4>1 DEF Calm, PeerUp, Told
      <3>2. QED
        BY <3>1, CalmKeeps
    <2>7. QED
      BY <1>7, <2>4, <2>5, <2>6 DEF Reassert, f
  <1>8. QED
    BY <1>2, <1>3, <1>4, <1>5, <1>6, <1>7 DEF Serve

\* The operator's steps.
LEMMA ReachCommand ==
    ASSUME EpochInv, ReachInv, OneOperator, NEW c \in Operators, Command(c)
    PROVE  ReachInv'
  <1> USE DEF EpochInv, ReachInv
  <1>1. /\ c \in Callers /\ caller[c] \in Calls /\ caller \in [Callers -> Calls]
        /\ \A d \in Operators : d = c
        /\ (ext.up => dial \in Conns) /\ None \notin Conns /\ srv \in Sessions
        /\ standing \in BOOLEAN
    BY Apart, BridgeAssumption DEF Shaped, Typed, Places, OneOperator
  <1>2. ASSUME NEW next, Goes(c, next) PROVE caller'[c] = next
    BY <1>1, <1>2 DEF Goes
  <1>3. ASSUME NEW t \in {"halt", "resume"}, NEW next, Written(c, Frame(t, 0), next),
               UNCHANGED <<dial, ext, srv>>
        PROVE  \/ caller'[c] = next /\ (t = "halt" /\ PeerUp' => Told')
               \/ caller'[c] = NoCall /\ ~PeerUp'
    <2> DEFINE f == Frame(t, 0)
    <2>1. f \in Sent /\ f.t = t
      BY AnswerFits DEF Frame, Ops
    <2>2. Written(c, f, next)
      BY <1>3
    <2> HIDE DEF f
    <2>3. \/ /\ srv.conn \in Conns
             /\ toExt' = [toExt EXCEPT ![srv.conn] = Append(toExt[srv.conn], f)]
             /\ caller' = [caller EXCEPT ![c] = next]
          \/ /\ srv.conn = None \/ ~(ext.up /\ dial = srv.conn)
             /\ caller' = [caller EXCEPT ![c] = NoCall]
      BY <1>1, <2>1, <2>2, WrittenIs
    <2>4. CASE /\ srv.conn \in Conns
               /\ toExt' = [toExt EXCEPT ![srv.conn] = Append(toExt[srv.conn], f)]
               /\ caller' = [caller EXCEPT ![c] = next]
      <3>1. toExt'[srv.conn] = Append(toExt[srv.conn], f) /\ caller'[c] = next
        BY <1>1, <2>4 DEF Shaped, Typed
      <3>2. t = "halt" => Told'
        BY <1>3, <2>1, <2>4, <3>1, ToldKept DEF Told
      <3>3. QED
        BY <3>1, <3>2
    <2>5. CASE /\ srv.conn = None \/ ~(ext.up /\ dial = srv.conn)
               /\ caller' = [caller EXCEPT ![c] = NoCall]
      BY <1>1, <1>3, <2>5 DEF PeerUp
    <2>6. QED
      BY <2>3, <2>4, <2>5
  <1>4. CASE HaltArm(c)
    <2>1. caller'[c].pc = "haltWrite" /\ durable'
      BY <1>2, <1>4 DEF HaltArm, NoCall
    <2>2. QED
      BY <1>1, <2>1 DEF Stands, Wrote, Reached
  <1>5. CASE HaltWrite(c)
    <2> DEFINE next == [caller[c] EXCEPT !.pc = "haltCommit", !.gen = srv.gen]
    <2>1. /\ Written(c, Frame("halt", 0), next)
          /\ UNCHANGED <<dial, ext, srv, serve, durable, standing>>
      BY <1>5 DEF HaltWrite, ghostVars
    <2>2. next.pc = "haltCommit"
      BY <1>1 DEF Calls
    <2> HIDE DEF next
    <2>3. \/ caller'[c].pc = "haltCommit" /\ (PeerUp' => Told')
          \/ caller'[c].pc = "idle" /\ ~PeerUp'
      BY <1>3, <2>1, <2>2, RecordsFit
    <2>4. QED
      BY <1>1, <2>1, <2>3 DEF Stands, Wrote, Reached
  <1>6. CASE HaltCommit(c)
    <2>1. /\ caller[c].pc = "haltCommit" /\ caller'[c].pc = "idle"
          /\ UNCHANGED <<toExt, dial, ext, serve, durable, standing>>
          /\ srv' = IF Current(c) THEN [srv EXCEPT !.state = "halted"] ELSE srv
      BY <1>2, <1>6, RecordsFit DEF HaltCommit, wireVars, ghostVars
    <2>2. srv'.conn = srv.conn /\ srv'.gen = srv.gen
      BY <1>1, <2>1 DEF Sessions
    <2>3. PeerUp' => PeerUp /\ (Told => Told')
      BY <2>1, <2>2 DEF PeerUp, Told
    <2>4. CASE Current(c)
      <3>1. PeerUp /\ standing => Told
        BY <2>1, <2>4 DEF Wrote, Current
      <3>2. QED
        BY <1>1, <2>1, <2>3, <3>1 DEF Stands, Wrote, Reached
    <2>5. CASE ~Current(c)
      BY <1>1, <2>1, <2>3, <2>5 DEF Stands, Wrote, Reached
    <2>6. QED
      BY <2>4, <2>5
  <1>7. CASE ResumeWrite(c)
    <2> DEFINE next == [NoCall EXCEPT !.pc = "resumeCommit", !.op = "resume", !.gen = srv.gen]
    <2>1. /\ Written(c, Frame("resume", 0), next)
          /\ UNCHANGED <<dial, ext, srv, serve, durable>>
          /\ standing' = (standing /\ caller'[c].pc = "idle")
      BY <1>7 DEF ResumeWrite
    <2>2. next.pc = "resumeCommit"
      BY DEF NoCall
    <2> HIDE DEF next
    <2>3. \/ caller'[c].pc = "resumeCommit" /\ ~standing'
          \/ caller'[c].pc = "idle" /\ ~PeerUp' /\ (standing' => standing)
      BY <1>3, <2>1, <2>2, RecordsFit
    <2>4. QED
      BY <1>1, <2>1, <2>3 DEF Stands, Wrote, Reached
  <1>8. CASE ResumeCommit(c) \/ ResumeDisarm(c)
    <2>1. ~standing /\ standing' = standing
      BY <1>8 DEF ResumeCommit, ResumeDisarm, Stands, ghostVars
    <2>2. QED
      BY <2>1 DEF Stands, Wrote, Reached
  <1>9. QED
    BY <1>4, <1>5, <1>6, <1>7, <1>8 DEF Command

LEMMA ReachStep ==
    ASSUME EpochInv, ReachInv, OneOperator, [Next]_vars
    PROVE  ReachInv'
  <1>1. CASE HaltByHand \/ UNCHANGED vars
    BY <1>1, CalmKeeps DEF HaltByHand, vars, Calm, PeerUp, Told, wireVars, ghostVars
  <1>2. ASSUME NEW c \in Configurers \cup Senders,
               \/ \E op \in {"configure", "misconfigure"} : BeginConfigure(c, op)
               \/ BeginSend(c) \/ Proceed(c) \/ Timeout(c)
        PROVE  ReachInv'
    BY <1>2, CalmCall, CalmKeeps
  <1>3. CASE Extension
    BY <1>3, CalmWire, CalmKeeps
  <1>4. QED
    BY <1>1, <1>2, <1>3, ReachServe, ReachCommand DEF Next

\* With one operator, a halt that stands reaches the peer that is connected, or
\* the next one as soon as its hello has been handled, whatever else is on its
\* way (BridgeServer.halt: the durable halt first; _reassert_halt).
THEOREM ReachHolds ==
    OneOperator => (Spec => []HaltReachesPeer)
  <1> SUFFICES ASSUME OneOperator PROVE Spec => []HaltReachesPeer
    OBVIOUS
  <1>1. Init => ReachInv
    <2> SUFFICES ASSUME Init PROVE ReachInv
      OBVIOUS
    <2>1. \A c \in Operators : caller[c].pc = "idle"
      BY Apart, RecordsFit DEF Init
    <2>2. QED
      BY <2>1 DEF Init, ReachInv, Stands, Wrote, Reached
  <1>2. EpochInv /\ ReachInv /\ [Next]_vars => ReachInv'
    BY ReachStep
  <1>3. EpochInv /\ ReachInv => HaltReachesPeer
    <2> SUFFICES ASSUME EpochInv, ReachInv,
                        standing, serve.pc = "read", srv.state # "waiting", PeerUp,
                        \A c \in Operators : caller[c].pc # "haltWrite"
                 PROVE  WillBeHalted(srv.conn)
      BY DEF HaltReachesPeer
    <2>1. Told
      BY DEF ReachInv, Reached
    <2>2. srv.conn \in Conns /\ ext.halted \in BOOLEAN /\ toExt[srv.conn] \in Seq(Sent)
      BY BridgeAssumption DEF EpochInv, Shaped, Typed, Places, PeerUp, Extensions
    <2>3. QED
      BY <2>1, <2>2, WillBeHaltedIs DEF Told
  <1>4. QED
    BY EpochInit, EpochStep, <1>1, <1>2, <1>3, PTL DEF Spec

(***************************************************************************)
(* A caller's wait: nothing ends it but its reply, its timeout or the end   *)
(* of its connection, and no one is left waiting for any of the three.      *)
(***************************************************************************)
Calling(c) == caller[c].pc \in {"write", "wait"}
Lost(c) == caller[c].rid \in woken /\ NoReply(c)

\* Requests are numbered one after the other, and a number is its caller's own
\* even while that caller is giving it up.
Numbered ==
    /\ pending \cup woken \subseteq 1..nextId
    /\ \A c \in Callers : caller[c].pc = "late" => caller[c].rid \in 1..nextId
    /\ \A c, d \in Callers :
          c # d /\ caller[c].pc = "late" /\ Calling(d) => caller[c].rid # caller[d].rid

\* A request that nobody has taken back will be answered or dropped.
Owned == \A c \in Callers : Calling(c) => caller[c].rid \in pending \cup woken

\* One that waits, waits on the connection that is current.
Linked ==
    \A c \in Callers : caller[c].pc = "wait" /\ caller[c].rid \notin woken =>
        srv.conn # None /\ caller[c].on = srv.conn

\* One woken without a reply began before the last reset.
Caused == \A c \in Configurers : Calling(c) /\ Lost(c) => caller[c].gen < srv.gen

Waits == Numbered /\ Owned /\ Linked /\ Caused

\* A caller that waits has been woken, or is registered for the reply and for
\* the reset of the connection its request was written to; a configure woken
\* with no reply has really lost the connection it found when it began.
WaitsAreHeard ==
    /\ \A c \in Callers : caller[c].pc = "wait" =>
          \/ caller[c].rid \in woken
          \/ caller[c].rid \in pending /\ srv.conn # None /\ caller[c].on = srv.conn
    /\ \A c \in Configurers : caller[c].pc = "wait" /\ Lost(c) => caller[c].gen < srv.gen

LEMMA WaitsInit == Init => Waits
  <1> SUFFICES ASSUME Init PROVE Waits
    OBVIOUS
  <1>1. \A c \in Callers : caller[c].pc = "idle"
    BY RecordsFit DEF Init
  <1>2. \A c \in Callers : ~Calling(c)
    BY <1>1 DEF Calling
  <1>3. pending \cup woken = {}
    BY DEF Init
  <1>4. Numbered /\ Owned /\ Linked /\ Caused
    BY <1>1, <1>2, <1>3, Apart DEF Numbered, Owned, Linked, Caused
  <1>5. QED
    BY <1>4 DEF Waits

LEMMA CallsAre ==
    ASSUME Shaped, Routed
    PROVE  /\ nextId \in Nat
           /\ \A c \in Callers : Calling(c) => caller[c].rid \in 1..nextId /\ caller[c].rid # 0
           /\ \A c, d \in Callers : c # d /\ Calling(c) /\ Calling(d)
                                       => caller[c].rid # caller[d].rid
           /\ \A c \in Callers : caller[c].gen \in Nat /\ caller[c].gen =< srv.gen
  <1>1. nextId \in Nat /\ 0 \notin 1..nextId
    BY DEF Shaped, Typed
  <1>2. /\ \A c \in Callers : Calling(c) => caller[c].rid \in 1..nextId
        /\ \A c, d \in Callers : c # d /\ Calling(c) /\ Calling(d)
                                    => caller[c].rid # caller[d].rid
    BY DEF Routed, Calling
  <1>3. \A c \in Callers : caller[c].gen \in Nat /\ caller[c].gen =< srv.gen
    BY DEF Shaped, Typed, Places, Calls
  <1>4. QED
    BY <1>1, <1>2, <1>3

\* A call that stops, or is given up, takes its own number with it at most.
LEMMA WaitsCall ==
    ASSUME Waits, NEW c \in Callers, NEW r,
           \A d \in Callers : d # c => caller'[d] = caller[d],
           ~Calling(c)',
           caller'[c].pc = "late" =>
              /\ caller'[c].rid \in 1..nextId
              /\ \A d \in Callers : d # c /\ Calling(d) => caller[d].rid # caller'[c].rid,
           \A d \in Callers : d # c /\ Calling(d) => caller[d].rid # r,
           pending \ {r} \subseteq pending', pending' \subseteq pending,
           woken \ {r} \subseteq woken', woken' \subseteq woken,
           \A f \in replies : f.rid # r => f \in replies',
           nextId' = nextId, srv'.conn = srv.conn, srv'.gen = srv.gen
    PROVE  Waits'
  <1>1. \A d \in Callers : Calling(d)' => d # c /\ Calling(d) /\ caller[d].rid # r
    BY DEF Calling
  <1>2. Numbered'
    BY <1>1 DEF Waits, Numbered, Calling
  <1>3. Owned'
    BY <1>1 DEF Waits, Owned
  <1>4. Linked'
    <2>1. \A d \in Callers : caller'[d].pc = "wait" => Calling(d)'
      BY DEF Calling
    <2>2. QED
      BY <1>1, <2>1 DEF Waits, Linked
  <1>5. Caused'
    <2>1. \A d \in Callers : Calling(d)' /\ Lost(d)' => Lost(d)
      BY <1>1 DEF Lost, NoReply
    <2>2. QED
      BY <1>1, <2>1, Apart DEF Waits, Caused
  <1>6. QED
    BY <1>2, <1>3, <1>4, <1>5 DEF Waits

\* A request is registered, then written to the connection that is current.
LEMMA WaitsRegister ==
    ASSUME Shaped, Routed, Waits, NEW c \in Callers, Register(c)
    PROVE  Waits'
  <1>1. /\ nextId \in Nat /\ nextId' = nextId + 1
        /\ caller'[c].pc = "write" /\ caller'[c].rid = nextId + 1
        /\ \A d \in Callers : d # c => caller'[d] = caller[d]
        /\ pending' = pending \cup {nextId + 1} /\ UNCHANGED <<woken, replies, srv>>
    BY DEF Register, Goes, Shaped, Typed, Calls
  <1>2. /\ \A n \in 1..nextId : n \in 1..nextId' /\ n # nextId + 1
        /\ nextId + 1 \in 1..nextId'
    BY <1>1
  <1>3. nextId + 1 \notin woken
    BY <1>2 DEF Waits, Numbered
  <1>4. \A d \in Callers : Calling(d)' => d = c \/ Calling(d)
    BY <1>1 DEF Calling
  <1>5. Numbered'
    <2>1. pending' \cup woken' \subseteq 1..nextId'
      BY <1>1, <1>2 DEF Waits, Numbered
    <2>2. \A d \in Callers : caller'[d].pc = "late" =>
             d # c /\ caller[d].pc = "late" /\ caller'[d].rid \in 1..nextId
      BY <1>1 DEF Waits, Numbered
    <2>3. QED
      BY <1>1, <1>2, <1>4, <2>1, <2>2 DEF Waits, Numbered
  <1>6. Owned'
    BY <1>1, <1>4 DEF Waits, Owned
  <1>7. Linked'
    BY <1>1 DEF Waits, Linked
  <1>8. Caused'
    <2>1. \A d \in Callers : Calling(d)' /\ Lost(d)' => d # c /\ Calling(d) /\ Lost(d)
      BY <1>1, <1>3, <1>4 DEF Lost, NoReply
    <2>2. QED
      BY <1>1, <2>1, Apart DEF Waits, Caused
  <1>9. QED
    BY <1>5, <1>6, <1>7, <1>8 DEF Waits

LEMMA WaitsWrite ==
    ASSUME Shaped, Routed, Waits, NEW c \in Callers, WriteRequest(c)
    PROVE  Waits'
  <1>1. /\ UNCHANGED <<srv, pending, woken, replies, nextId>>
        /\ \A d \in Callers : d # c => caller'[d] = caller[d]
        /\ caller[c].pc = "write"
    BY RequestIs DEF callVars
  <1>2. CASE caller'[c] = NoCall
    <2>1. ~Calling(c)' /\ caller'[c].pc # "late"
      BY <1>2, RecordsFit DEF Calling
    <2>2. \A d \in Callers : Calling(d) => caller[d].rid # 0
      BY CallsAre
    <2>3. QED
      BY <1>1, <2>1, <2>2, WaitsCall
  <1>3. CASE /\ srv.conn \in Conns /\ caller'[c].pc = "wait" /\ caller'[c].on = srv.conn
             /\ caller'[c].rid = caller[c].rid /\ caller'[c].gen = caller[c].gen
    <2>1. \A d \in Callers : /\ Calling(d)' <=> Calling(d)
                             /\ caller'[d].rid = caller[d].rid /\ caller'[d].gen = caller[d].gen
                             /\ Lost(d)' <=> Lost(d)
                             /\ caller'[d].pc = "late" <=> caller[d].pc = "late"
      BY <1>1, <1>3 DEF Calling, Lost, NoReply
    <2>2. Numbered' /\ Owned'
      BY <1>1, <2>1 DEF Waits, Numbered, Owned
    <2>3. Linked'
      BY <1>1, <1>3, Near DEF Waits, Linked
    <2>4. Caused'
      BY <1>1, <2>1, Apart DEF Waits, Caused
    <2>5. QED
      BY <2>2, <2>3, <2>4 DEF Waits
  <1>4. QED
    BY <1>2, <1>3, RequestIs

\* What the serve thread does to those that wait.
LEMMA WaitsServe ==
    ASSUME Shaped, Routed, Waits, Serve
    PROVE  Waits'
  <1>1. CASE UNCHANGED <<pending, woken, replies, nextId, caller>>
             /\ srv'.conn = srv.conn /\ srv'.gen = srv.gen
    BY <1>1 DEF Waits, Numbered, Owned, Linked, Caused, Calling, Lost, NoReply
  <1>2. CASE Hello \/ Reassert \/ ReassertCommit \/ OnHalted \/ PeerGone
    <2>1. srv'.conn = srv.conn /\ srv'.gen = srv.gen
      BY <1>2, PlainSession DEF Hello, Reassert, ReassertCommit, OnHalted, PeerGone, Shaped,
                               Typed, Sessions
    <2>2. UNCHANGED <<pending, woken, replies, nextId, caller>>
      BY <1>2 DEF Hello, Reassert, ReassertCommit, OnHalted, PeerGone, callVars
    <2>3. QED
      BY <1>1, <2>1, <2>2
  <1>3. CASE Accept
    <2>1. srv.conn = None /\ srv'.gen = srv.gen + 1 /\ srv.gen \in Nat
      BY <1>3, AcceptIs, Near
    <2>2. UNCHANGED <<pending, woken, replies, nextId, caller>>
      BY <1>3 DEF Accept, callVars
    <2>3. Numbered' /\ Owned' /\ Linked'
      BY <2>1, <2>2 DEF Waits, Numbered, Owned, Linked, Calling
    <2>4. Caused'
      <3>1. \A c \in Configurers : Calling(c)' /\ Lost(c)' => caller[c].gen =< srv.gen
        BY CallsAre, Apart
      <3>2. \A c \in Configurers : caller[c].gen \in Nat /\ caller'[c] = caller[c]
        BY <2>2, CallsAre, Apart
      <3>3. QED
        BY <2>1, <3>1, <3>2 DEF Caused
    <2>5. QED
      BY <2>3, <2>4 DEF Waits
  <1>4. CASE Deliver
    <2>1. UNCHANGED <<srv, pending, nextId, caller>>
      BY <1>4 DEF Deliver
    <2>2. PICK f : /\ f.rid \in pending => replies' = replies \cup {f}
                                           /\ woken' = woken \cup {f.rid}
                   /\ f.rid \notin pending => UNCHANGED <<replies, woken>>
      BY <1>4 DEF Deliver
    <2>3. /\ woken \subseteq woken' /\ woken' \subseteq woken \cup pending
          /\ replies \subseteq replies'
          /\ \A c \in Callers : caller[c].rid \in woken' =>
                caller[c].rid \in woken \/ \E a \in replies' : a.rid = caller[c].rid
      BY <2>2
    <2>4. Numbered' /\ Owned' /\ Linked'
      BY <2>1, <2>3 DEF Waits, Numbered, Owned, Linked, Calling
    <2>5. Caused'
      BY <2>1, <2>3, Apart DEF Waits, Caused, Calling, Lost, NoReply
    <2>6. QED
      BY <2>4, <2>5 DEF Waits
  <1>5. CASE Reset
    <2>1. /\ woken' = woken \cup pending /\ pending' = {} /\ UNCHANGED <<nextId, caller>>
          /\ srv'.gen = srv.gen + 1 /\ srv.gen \in Nat
      BY <1>5, Near DEF Reset, Shaped, Typed, Sessions
    <2>2. Numbered' /\ Owned' /\ Linked'
      <3>1. Numbered' /\ Owned'
        BY <2>1 DEF Waits, Numbered, Owned, Calling
      <3>2. \A c \in Callers : caller'[c].pc = "wait" => caller'[c].rid \in woken'
        BY <2>1 DEF Waits, Owned, Calling
      <3>3. QED
        BY <3>1, <3>2 DEF Linked
    <2>3. \A c \in Configurers : caller[c].gen \in Nat /\ caller[c].gen =< srv.gen
                                 /\ caller'[c] = caller[c]
      BY <2>1, CallsAre, Apart
    <2>4. Caused'
      BY <2>1, <2>3 DEF Caused
    <2>5. QED
      BY <2>2, <2>4 DEF Waits
  <1>6. QED
    BY <1>2, <1>3, <1>4, <1>5 DEF Serve

\* A caller takes what woke it, or takes its request back.
LEMMA WaitsEnd ==
    ASSUME Shaped, Routed, Waits, NEW c \in Configurers \cup Senders,
           Collect(c) \/ GiveUp(c)
    PROVE  Waits'
  <1> DEFINE r == caller[c].rid
  <1>1. c \in Callers /\ caller[c] \in Calls /\ caller[c].pc \in {"wait", "late"}
    BY Apart DEF Shaped, Typed, Collect, GiveUp
  <1>2. \A d \in Callers : d # c /\ Calling(d) => caller[d].rid # r
    <2>1. CASE Calling(c)
      BY <1>1, <2>1, CallsAre
    <2>2. CASE caller[c].pc = "late"
      BY <1>1, <2>2 DEF Waits, Numbered
    <2>3. QED
      BY <1>1, <2>1, <2>2 DEF Calling
  <1>3. /\ pending' = pending \ {r} /\ UNCHANGED <<srv, nextId>>
        /\ woken' = woken \/ woken' = woken \ {r}
    BY DEF Collect, GiveUp
  <1>4. \A f \in replies : f.rid # r => f \in replies'
    BY DEF Collect, GiveUp
  <1>5. \E next : Goes(c, next) /\ next.pc \in {"idle", "answered", "commit"}
    <2>1. NoCall.pc = "idle"
      BY RecordsFit
    <2>2. \A f : [caller[c] EXCEPT !.pc = IF caller[c].op = "send" THEN "answered" ELSE "commit",
                                   !.reply = f].pc \in {"answered", "commit"}
      BY <1>1 DEF Calls
    <2>3. CASE GiveUp(c)
      BY <2>1, <2>3 DEF GiveUp
    <2>4. CASE Collect(c)
      BY <2>1, <2>2, <2>4 DEF Collect
    <2>5. QED
      BY <2>3, <2>4
  <1>6. /\ \A d \in Callers : d # c => caller'[d] = caller[d]
        /\ caller'[c].pc \in {"idle", "answered", "commit"}
    BY <1>1, <1>5 DEF Goes, Shaped, Typed
  <1>7. ~Calling(c)' /\ caller'[c].pc # "late"
    BY <1>6 DEF Calling
  <1> HIDE DEF r
  <1>8. QED
    BY <1>1, <1>2, <1>3, <1>4, <1>6, <1>7, WaitsCall

\* A wait that runs out of time keeps its number until it takes it back.
LEMMA WaitsTimeout ==
    ASSUME Shaped, Routed, Waits, NEW c \in Configurers \cup Senders, Timeout(c)
    PROVE  Waits'
  <1>1. /\ c \in Callers /\ caller[c] \in Calls /\ Calling(c)
        /\ UNCHANGED <<srv, pending, woken, replies, nextId>>
    BY Apart DEF Shaped, Typed, Timeout, callVars, Calling
  <1>2. /\ \A d \in Callers : d # c => caller'[d] = caller[d]
        /\ caller'[c].pc = "late" /\ caller'[c].rid = caller[c].rid
    BY <1>1 DEF Timeout, Goes, Shaped, Typed, Calls
  <1>3. ~Calling(c)'
    BY <1>2 DEF Calling
  <1>4. /\ caller'[c].rid \in 1..nextId
        /\ \A d \in Callers : d # c /\ Calling(d) => caller[d].rid # caller'[c].rid
    BY <1>1, <1>2, CallsAre
  <1>5. \A d \in Callers : Calling(d) => caller[d].rid # 0
    BY CallsAre
  <1>6. QED
    BY <1>1, <1>2, <1>3, <1>4, <1>5, WaitsCall

\* The steps of a call that touch no request.
LEMMA WaitsOther ==
    ASSUME Shaped, Shaped', Routed, Waits, NEW c \in Callers,
           \/ \E op \in {"configure", "misconfigure"} : BeginConfigure(c, op)
           \/ BeginSend(c) \/ Return(c) \/ CommitConfigure(c)
           \/ c \in Operators /\ Command(c)
    PROVE  Waits'
  <1>1. caller[c] \in Calls /\ srv \in Sessions
    BY DEF Shaped, Typed
  <1>2. UNCHANGED <<pending, woken, replies, nextId>>
    BY DEF BeginConfigure, BeginSend, Return, CommitConfigure, Command, HaltArm, HaltWrite,
           HaltCommit, ResumeWrite, ResumeCommit, ResumeDisarm, callVars
  <1>3. srv'.conn = srv.conn /\ srv'.gen = srv.gen
    <2>1. srv' = srv \/ CommitConfigure(c) \/ HaltCommit(c) \/ ResumeCommit(c)
      BY DEF BeginConfigure, BeginSend, Return, Command, HaltArm, HaltWrite, ResumeWrite,
             ResumeDisarm
    <2>2. CASE CommitConfigure(c)
      BY <1>1, <2>2 DEF CommitConfigure, Sessions
    <2>3. CASE HaltCommit(c)
      BY <1>1, <2>3 DEF HaltCommit, Sessions
    <2>4. CASE ResumeCommit(c)
      BY <1>1, <2>4 DEF ResumeCommit, Sessions
    <2>5. QED
      BY <2>1, <2>2, <2>3, <2>4
  <1>4. \E next : Goes(c, next)
    BY DEF BeginConfigure, BeginSend, Return, CommitConfigure, Command, HaltArm, HaltWrite,
           HaltCommit, ResumeWrite, ResumeCommit, ResumeDisarm, Written
  <1>5. \A d \in Callers : d # c => caller'[d] = caller[d]
    BY <1>4 DEF Goes, Shaped, Typed
  <1>6. caller'[c].pc \notin {"write", "wait", "late"}
    <2>1. CASE c \in Operators
      BY <2>1 DEF Shaped, CallFits
    <2>2. CASE Return(c) \/ CommitConfigure(c)
      BY <2>2, RecordsFit DEF Return, CommitConfigure, Goes, Shaped, Typed
    <2>3. CASE BeginSend(c)
      BY <2>3 DEF BeginSend, Goes, NoCall, Shaped, Typed
    <2>4. ASSUME NEW op \in {"configure", "misconfigure"}, BeginConfigure(c, op)
          PROVE  caller'[c].pc \notin {"write", "wait", "late"}
      BY <2>4 DEF BeginConfigure, Goes, NoCall, Shaped, Typed
    <2>5. QED
      BY <2>1, <2>2, <2>3, <2>4
  <1>7. ~Calling(c)' /\ caller'[c].pc # "late"
    BY <1>6 DEF Calling
  <1>8. \A d \in Callers : Calling(d) => caller[d].rid # 0
    BY CallsAre
  <1>9. QED
    BY <1>2, <1>3, <1>5, <1>7, <1>8, WaitsCall

LEMMA WaitsStep == Shaped /\ Routed /\ Waits /\ [Next]_vars => Waits'
  <1> SUFFICES ASSUME Shaped, Routed, Waits, [Next]_vars PROVE Waits'
    OBVIOUS
  <1>1. Shaped'
    BY ShapedStep
  <1>2. CASE Extension \/ HaltByHand \/ UNCHANGED vars
    <2>1. UNCHANGED <<srv, pending, woken, replies, nextId, caller>>
      BY <1>2 DEF Extension, Dial, ExtDies, ExtHandle, HaltByHand, vars, callVars
    <2>2. QED
      BY <2>1 DEF Waits, Numbered, Owned, Linked, Caused, Calling, Lost, NoReply
  <1>3. CASE Serve
    BY <1>3, WaitsServe
  <1>4. ASSUME NEW c \in Configurers,
               \E op \in {"configure", "misconfigure"} : BeginConfigure(c, op)
        PROVE  Waits'
    BY <1>1, <1>4, WaitsOther, Apart
  <1>5. ASSUME NEW c \in Senders, BeginSend(c) PROVE Waits'
    BY <1>1, <1>5, WaitsOther, Apart
  <1>6. ASSUME NEW c \in Operators, Command(c) PROVE Waits'
    BY <1>1, <1>6, WaitsOther, Apart
  <1>7. ASSUME NEW c \in Configurers \cup Senders, Proceed(c) \/ Timeout(c) PROVE Waits'
    <2>1. c \in Callers
      BY Apart
    <2>2. CASE Register(c) \/ WriteRequest(c)
      BY <2>1, <2>2, WaitsRegister, WaitsWrite
    <2>3. CASE Collect(c) \/ GiveUp(c)
      BY <2>3, WaitsEnd
    <2>4. CASE Return(c) \/ CommitConfigure(c)
      BY <1>1, <2>1, <2>4, WaitsOther
    <2>5. CASE Timeout(c)
      BY <2>5, WaitsTimeout
    <2>6. QED
      BY <1>7, <2>2, <2>3, <2>4, <2>5 DEF Proceed
  <1>8. QED
    BY <1>2, <1>3, <1>4, <1>5, <1>6, <1>7 DEF Next

\* No wake-up is lost: a request that waits on a connection is in the list that
\* the connection's reply or end wakes (server.py, _request(), _deliver() and
\* _reset()), whatever is dialled, reset, given up or timed out meanwhile.
THEOREM WaitsHeld == Spec => []WaitsAreHeard
  <1>1. Init => Shaped /\ Routed /\ Waits
    BY ShapedInit, RoutedInit, WaitsInit
  <1>2. Shaped /\ Routed /\ Waits /\ [Next]_vars => (Shaped /\ Routed /\ Waits)'
    BY ShapedStep, RoutedStep, WaitsStep
  <1>3. Waits => WaitsAreHeard
    BY DEF Waits, Owned, Linked, Caused, Calling, WaitsAreHeard
  <1>4. QED
    BY <1>1, <1>2, <1>3, PTL DEF Spec
=============================================================================
