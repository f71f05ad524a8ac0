-------------------------- MODULE ChatStreamsProofs --------------------------
(***************************************************************************)
(* Proofs about the streams of chats, the instance Chat of MCControlPlane, *)
(* for any number of streams and of events.                                *)
(***************************************************************************)
EXTENDS MCControlPlane, SequenceTheorems, TLAPS

(* What lists of hooks look like: streams, each once, and the filter.      *)
ListOfHooks(list) ==
    /\ list \in Seq(Streams \cup {Filter}) /\ Len(list) >= 1 /\ list[Len(list)] = Filter
    /\ \A i \in 1 .. Len(list) - 1 : list[i] \in Streams
    /\ \A i, j \in 1 .. Len(list) - 1 : list[i] = list[j] => i = j

Messages == [what : {"start", "event", "done", "error", "eof"}, of : Chat!Callers, n : Nat]

(* The list that an emission goes through. *)
ListOf(c) == IF emission[c].list = <<>> THEN hooks ELSE emission[c].list

ChatTyped ==
    /\ pc \in [Streams -> {"closed", "open", "streaming", "concluding", "ended", "gone"}]
    /\ run \in [Streams -> {"none", "going", "returned", "raised"}]
    /\ ListOfHooks(hooks)
    /\ emission \in [Chat!Callers -> [at : Nat, list : Seq(Streams \cup {Filter})]]
    /\ emitted \in [Chat!Callers -> Nat]
    /\ queue \in [Streams -> Seq(Messages)] /\ sent \in [Streams -> Seq(Messages)]

(* Who is registered. *)
ListenersInv ==
    \A s \in Streams :
        /\ pc[s] = "streaming" \/ run[s] = "going" => s \in Chat!Registered
        /\ pc[s] \in {"closed", "open"} => run[s] = "none"
        /\ run[s] = "none" => s \notin Chat!Registered /\ queue[s] = <<>>
        /\ pc[s] \in {"streaming", "concluding", "ended"} => run[s] # "none"
        /\ pc[s] \in {"concluding", "ended"} => s \notin Chat!Registered

(* An emission waits at the filter, or at where the filter was before      *)
(* others registered.                                                      *)
EmissionsInv ==
    \A c \in Chat!Callers :
        /\ emission[c].at = 0 => emission[c] = Chat!NoEmission
        /\ emission[c].at # 0 =>
              /\ ListOfHooks(ListOf(c)) /\ emission[c].at <= Len(ListOf(c))
              /\ \A i \in 1 .. Len(ListOf(c)) - 1 : run[ListOf(c)[i]] # "none"
              /\ c \in Streams => run[c] = "going" /\ emission[c].at >= 2
              /\ emitted[c] # 0

(* The events of its own run among the messages of a stream. *)
OwnIn(q, s) == {i \in DOMAIN q : q[i].what = "event" /\ q[i].of = s}
Numbers(q, s) == {q[i].n : i \in OwnIn(q, s)}

TwoOthers(s) == \E t, u \in Streams \ {s} : t # u /\ run[t] # "none" /\ run[u] # "none"
InOrder(s, m, n) == m < n \/ (m = n /\ TwoOthers(s))
Sorted(s, q) == \A i, j \in OwnIn(q, s) : i < j => InOrder(s, q[i].n, q[j].n)

TellInv(s) ==
    /\ Numbers(sent[s], s) \cup Numbers(queue[s], s) = 1 .. emitted[s]
    /\ Sorted(s, sent[s]) /\ Sorted(s, queue[s])
    /\ \A i \in OwnIn(sent[s], s), j \in OwnIn(queue[s], s) : InOrder(s, sent[s][i].n, queue[s][j].n)
    /\ \A i \in DOMAIN sent[s] : sent[s][i].what = "event" => Chat!Hears(s, sent[s][i].of)
    /\ \A i \in DOMAIN queue[s] : queue[s][i].what = "event" /\ Chat!Hears(s, queue[s][i].of)

IsEnd(m) == m.what \in {"done", "error"}
EndInv(s) ==
    \A i \in DOMAIN sent[s] : IsEnd(sent[s][i]) =>
        /\ pc[s] \in {"concluding", "ended", "gone"} /\ s \notin Chat!Registered
        /\ run[s] \in {"returned", "raised"} /\ OwnIn(queue[s], s) = {}
        /\ \A j \in i + 1 .. Len(sent[s]) : sent[s][j].what = "eof"

ChatInv == /\ ChatTyped /\ ListenersInv /\ EmissionsInv
           /\ \A s \in Streams : TellInv(s) /\ EndInv(s)

-----------------------------------------------------------------------------
(* Sequences.                                                              *)

(* A part of a sequence. *)
LEMMA PartOf ==
    ASSUME NEW T, NEW list \in Seq(T), NEW m \in Nat \ {0}, NEW n \in Nat, n <= Len(list), m <= n + 1
    PROVE  /\ SubSeq(list, m, n) \in Seq(T) /\ Len(SubSeq(list, m, n)) = n - m + 1
           /\ \A k \in 1 .. n - m + 1 : SubSeq(list, m, n)[k] = list[k + m - 1]
<1>1. \A k \in m .. n : list[k] \in T
  OBVIOUS
<1>2. /\ SubSeq(list, m, n) \in Seq(T)
      /\ Len(SubSeq(list, m, n)) = IF m <= n THEN n - m + 1 ELSE 0
      /\ \A k \in 1 .. n - m + 1 : SubSeq(list, m, n)[k] = list[m + k - 1]
  BY <1>1, SubSeqProperties
<1> DEFINE part == SubSeq(list, m, n)
<1> HIDE DEF part
<1>3. \A k \in 1 .. n - m + 1 : part[k] = list[k + m - 1]
  BY <1>2 DEF part
<1>4. Len(part) = n - m + 1
  BY <1>2 DEF part
<1>5. QED
  BY <1>2, <1>3, <1>4 DEF part

(* A sequence with a member more. *)
With(list, x, i) == SubSeq(list, 1, i - 1) \o <<x>> \o SubSeq(list, i, Len(list))

PutIn(longer, list, i, s) ==
    /\ longer \in Seq(Streams \cup {Filter}) /\ Len(longer) = Len(list) + 1
    /\ \A k \in 1 .. Len(list) + 1 : longer[k] = IF k < i THEN list[k] ELSE IF k = i THEN s ELSE list[k - 1]

LEMMA WithMember ==
    ASSUME NEW list \in Seq(Streams \cup {Filter}), NEW x \in Streams \cup {Filter}, NEW i \in 1 .. Len(list)
    PROVE  PutIn(With(list, x, i), list, i, x)
<1> DEFINE T == Streams \cup {Filter}
           a == SubSeq(list, 1, i - 1)
           b == SubSeq(list, i, Len(list))
<1>0. /\ list \in Seq(T) /\ x \in T
      /\ Len(list) \in Nat /\ i \in Nat \ {0} /\ i - 1 \in Nat /\ i <= Len(list)
  OBVIOUS
<1> HIDE DEF T
<1>1. /\ a \in Seq(T) /\ Len(a) = i - 1 /\ \A k \in 1 .. i - 1 : a[k] = list[k]
      /\ b \in Seq(T) /\ Len(b) = Len(list) - i + 1 /\ \A k \in 1 .. Len(list) - i + 1 : b[k] = list[k + i - 1]
  <2>1. a \in Seq(T) /\ Len(a) = (i - 1) - 1 + 1 /\ \A k \in 1 .. (i - 1) - 1 + 1 : a[k] = list[k + 1 - 1]
    BY <1>0, PartOf
  <2>2. b \in Seq(T) /\ Len(b) = Len(list) - i + 1 /\ \A k \in 1 .. Len(list) - i + 1 : b[k] = list[k + i - 1]
    BY <1>0, PartOf
  <2> HIDE DEF a, b
  <2>3. QED
    BY <1>0, <2>1, <2>2
<1> HIDE DEF a, b
<1> DEFINE one == <<x>>
<1>2. one \in Seq(T) /\ Len(one) = 1 /\ one[1] = x
  BY <1>0
<1> HIDE DEF one
<1> DEFINE c == a \o one
<1>3. /\ c \in Seq(T) /\ Len(c) = Len(a) + Len(one)
      /\ \A k \in 1 .. Len(a) + Len(one) : c[k] = IF k <= Len(a) THEN a[k] ELSE one[k - Len(a)]
  <2>1. a \in Seq(T) /\ one \in Seq(T)
    BY <1>1, <1>2
  <2>2. QED
    BY <2>1, ConcatProperties
<1> HIDE DEF c
<1>4. c \in Seq(T) /\ Len(c) = i /\ \A k \in 1 .. i : c[k] = IF k < i THEN list[k] ELSE x
  <2>1. Len(c) = i /\ Len(a) = i - 1
    BY <1>0, <1>1, <1>2, <1>3
  <2>2. ASSUME NEW k \in 1 .. i PROVE c[k] = IF k < i THEN list[k] ELSE x
    <3>1. c[k] = IF k <= i - 1 THEN a[k] ELSE one[k - (i - 1)]
      BY <1>0, <1>2, <1>3, <2>1
    <3>2. CASE k < i
      BY <1>0, <1>1, <3>1, <3>2
    <3>3. CASE k = i
      <4>1. k - (i - 1) = 1
        BY <1>0, <3>3
      <4>2. QED
        BY <1>0, <1>2, <3>1, <3>3, <4>1
    <3>4. QED
      BY <3>2, <3>3
  <2>3. QED
    BY <1>3, <2>1, <2>2
<1> DEFINE longer == c \o b
<1>5. /\ longer \in Seq(T) /\ Len(longer) = Len(c) + Len(b)
      /\ \A k \in 1 .. Len(c) + Len(b) : longer[k] = IF k <= Len(c) THEN c[k] ELSE b[k - Len(c)]
  <2>1. c \in Seq(T) /\ b \in Seq(T)
    BY <1>1, <1>4
  <2>2. QED
    BY <2>1, ConcatProperties
<1> HIDE DEF longer
<1>6. /\ longer \in Seq(T) /\ Len(longer) = Len(list) + 1
      /\ \A k \in 1 .. Len(list) + 1 : longer[k] = IF k < i THEN list[k] ELSE IF k = i THEN x ELSE list[k - 1]
  <2>1. Len(longer) = Len(list) + 1 /\ Len(c) = i
    BY <1>0, <1>1, <1>4, <1>5
  <2>2. ASSUME NEW k \in 1 .. Len(list) + 1
        PROVE  longer[k] = IF k < i THEN list[k] ELSE IF k = i THEN x ELSE list[k - 1]
    <3>1. longer[k] = IF k <= i THEN c[k] ELSE b[k - i]
      BY <1>0, <1>5, <2>1
    <3>2. CASE k <= i
      BY <1>0, <1>4, <3>1, <3>2
    <3>3. CASE k > i
      <4>1. b[k - i] = list[(k - i) + i - 1] /\ (k - i) + i - 1 = k - 1
        BY <1>0, <1>1, <3>3
      <4>2. QED
        BY <1>0, <3>1, <3>3, <4>1
    <3>4. QED
      BY <1>0, <3>2, <3>3
  <2>3. QED
    BY <1>5, <2>1, <2>2
<1>7. QED
  BY <1>6 DEF PutIn, With, T, a, b, c, one, longer

(* A sequence with a member less. *)
LEMMA WithoutMember ==
    ASSUME NEW T, NEW list \in Seq(T), NEW i \in 1 .. Len(list)
    PROVE  LET rest == SubSeq(list, 1, i - 1) \o SubSeq(list, i + 1, Len(list))
           IN  /\ rest \in Seq(T) /\ Len(rest) = Len(list) - 1
               /\ \A k \in 1 .. Len(list) - 1 : rest[k] = IF k < i THEN list[k] ELSE list[k + 1]
<1> DEFINE a == SubSeq(list, 1, i - 1)
           b == SubSeq(list, i + 1, Len(list))
<1>0. Len(list) \in Nat /\ i \in Nat \ {0} /\ i - 1 \in Nat /\ i <= Len(list) /\ i + 1 \in Nat \ {0}
  OBVIOUS
<1>1. /\ a \in Seq(T) /\ Len(a) = i - 1 /\ \A k \in 1 .. i - 1 : a[k] = list[k]
      /\ b \in Seq(T) /\ Len(b) = Len(list) - i /\ \A k \in 1 .. Len(list) - i : b[k] = list[k + i]
  <2>1. a \in Seq(T) /\ Len(a) = (i - 1) - 1 + 1 /\ \A k \in 1 .. (i - 1) - 1 + 1 : a[k] = list[k + 1 - 1]
    BY <1>0, PartOf
  <2>2. b \in Seq(T) /\ Len(b) = Len(list) - (i + 1) + 1
        /\ \A k \in 1 .. Len(list) - (i + 1) + 1 : b[k] = list[k + (i + 1) - 1]
    BY <1>0, PartOf
  <2> HIDE DEF a, b
  <2>3. QED
    BY <1>0, <2>1, <2>2
<1> HIDE DEF a, b
<1> DEFINE rest == a \o b
<1>2. /\ rest \in Seq(T) /\ Len(rest) = Len(a) + Len(b)
      /\ \A k \in 1 .. Len(a) + Len(b) : rest[k] = IF k <= Len(a) THEN a[k] ELSE b[k - Len(a)]
  BY <1>1, ConcatProperties
<1> HIDE DEF rest
<1>3. /\ rest \in Seq(T) /\ Len(rest) = Len(list) - 1
      /\ \A k \in 1 .. Len(list) - 1 : rest[k] = IF k < i THEN list[k] ELSE list[k + 1]
  BY <1>0, <1>1, <1>2
<1>4. QED
  BY <1>3 DEF a, b, rest

-----------------------------------------------------------------------------
(* Messages at the end and at the front of a queue.                        *)

LEMMA MessageTypes ==
    /\ \A c \in Chat!Callers, n \in Nat : /\ Chat!Event(c, n) \in Messages
                                          /\ Chat!Event(c, n).what = "event" /\ Chat!Event(c, n).of = c
                                          /\ Chat!Event(c, n).n = n
    /\ \A what \in {"start", "done", "error", "eof"} :
          Chat!Message(what) \in Messages /\ Chat!Message(what).what = what
  BY DEF Messages, Chat!Event, Chat!Message, Chat!Callers

LEMMA AddedAtEnd ==
    ASSUME NEW q \in Seq(Messages), NEW m \in Messages, NEW s
    PROVE  /\ Append(q, m) \in Seq(Messages)
           /\ DOMAIN Append(q, m) = DOMAIN q \cup {Len(q) + 1} /\ DOMAIN q = 1 .. Len(q) /\ Len(q) \in Nat
           /\ Append(q, m)[Len(q) + 1] = m /\ \A i \in DOMAIN q : Append(q, m)[i] = q[i]
           /\ OwnIn(Append(q, m), s) = IF m.what = "event" /\ m.of = s THEN OwnIn(q, s) \cup {Len(q) + 1}
                                       ELSE OwnIn(q, s)
           /\ Numbers(Append(q, m), s) = IF m.what = "event" /\ m.of = s THEN Numbers(q, s) \cup {m.n}
                                         ELSE Numbers(q, s)
<1>1. /\ Append(q, m) \in Seq(Messages) /\ Len(Append(q, m)) = Len(q) + 1 /\ Len(q) \in Nat
      /\ DOMAIN Append(q, m) = DOMAIN q \cup {Len(q) + 1} /\ DOMAIN q = 1 .. Len(q)
      /\ Append(q, m)[Len(q) + 1] = m /\ \A i \in DOMAIN q : Append(q, m)[i] = q[i]
  OBVIOUS
<1>2. OwnIn(Append(q, m), s) = IF m.what = "event" /\ m.of = s THEN OwnIn(q, s) \cup {Len(q) + 1}
                               ELSE OwnIn(q, s)
  BY <1>1 DEF OwnIn
<1>3. \A i \in OwnIn(q, s) : Append(q, m)[i] = q[i]
  BY <1>1 DEF OwnIn
<1>4. Numbers(q, s) \subseteq Numbers(Append(q, m), s)
  <2>1. ASSUME NEW k \in Numbers(q, s) PROVE k \in Numbers(Append(q, m), s)
    <3>1. PICK i \in OwnIn(q, s) : k = q[i].n
      BY DEF Numbers
    <3>2. i \in OwnIn(Append(q, m), s) /\ k = Append(q, m)[i].n
      BY <1>2, <1>3, <3>1
    <3>3. QED
      BY <3>2 DEF Numbers
  <2>2. QED
    BY <2>1
<1>5. ASSUME NEW k \in Numbers(Append(q, m), s)
      PROVE  k \in Numbers(q, s) \/ (m.what = "event" /\ m.of = s /\ k = m.n)
  <2>1. PICK i \in OwnIn(Append(q, m), s) : k = Append(q, m)[i].n
    BY DEF Numbers
  <2>2. CASE i \in OwnIn(q, s)
    BY <1>3, <2>1, <2>2 DEF Numbers
  <2>3. CASE i \notin OwnIn(q, s)
    BY <1>1, <1>2, <2>1, <2>3
  <2>4. QED
    BY <2>2, <2>3
<1>6. ASSUME m.what = "event" /\ m.of = s PROVE m.n \in Numbers(Append(q, m), s)
  <2>1. Len(q) + 1 \in OwnIn(Append(q, m), s) /\ m.n = Append(q, m)[Len(q) + 1].n
    BY <1>1, <1>2, <1>6
  <2>2. QED
    BY <2>1 DEF Numbers
<1>7. Numbers(Append(q, m), s) = IF m.what = "event" /\ m.of = s THEN Numbers(q, s) \cup {m.n}
                                 ELSE Numbers(q, s)
  BY <1>4, <1>5, <1>6
<1>8. QED
  BY <1>1, <1>2, <1>7

LEMMA TakenFromFront ==
    ASSUME NEW q \in Seq(Messages), q # <<>>, NEW s
    PROVE  /\ Head(q) \in Messages /\ Head(q) = q[1] /\ 1 \in DOMAIN q /\ Tail(q) \in Seq(Messages)
           /\ \A i \in DOMAIN Tail(q) : i + 1 \in DOMAIN q /\ Tail(q)[i] = q[i + 1] /\ i \in Nat \ {0}
           /\ \A i \in OwnIn(Tail(q), s) : i + 1 \in OwnIn(q, s) /\ i \in Nat \ {0}
           /\ Numbers(q, s) = Numbers(Tail(q), s) \cup (IF 1 \in OwnIn(q, s) THEN {Head(q).n} ELSE {})
<1>1. /\ Head(q) \in Messages /\ Head(q) = q[1] /\ Tail(q) \in Seq(Messages) /\ Len(Tail(q)) = Len(q) - 1
      /\ DOMAIN q = 1 .. Len(q) /\ DOMAIN Tail(q) = 1 .. Len(q) - 1 /\ Len(q) \in Nat \ {0}
      /\ \A i \in 1 .. Len(q) - 1 : Tail(q)[i] = q[i + 1]
  OBVIOUS
<1>2. \A i \in DOMAIN Tail(q) : i + 1 \in DOMAIN q /\ Tail(q)[i] = q[i + 1] /\ i \in Nat \ {0}
  BY <1>1
<1>3. \A i \in OwnIn(Tail(q), s) : i + 1 \in OwnIn(q, s) /\ Tail(q)[i] = q[i + 1] /\ i \in Nat \ {0}
  BY <1>2 DEF OwnIn
<1>4. \A j \in OwnIn(q, s) \ {1} : j - 1 \in OwnIn(Tail(q), s) /\ Tail(q)[j - 1] = q[j]
  BY <1>1 DEF OwnIn
<1>5. ASSUME NEW k \in Numbers(q, s)
      PROVE  k \in Numbers(Tail(q), s) \/ (1 \in OwnIn(q, s) /\ k = Head(q).n)
  <2>1. PICK j \in OwnIn(q, s) : k = q[j].n
    BY DEF Numbers
  <2>2. ASSUME j # 1 PROVE k \in Numbers(Tail(q), s)
    <3>1. j - 1 \in OwnIn(Tail(q), s) /\ k = Tail(q)[j - 1].n
      BY <1>4, <2>1, <2>2
    <3>2. QED
      BY <3>1 DEF Numbers
  <2>3. QED
    BY <1>1, <2>1, <2>2
<1>6. ASSUME NEW k \in Numbers(Tail(q), s) PROVE k \in Numbers(q, s)
  <2>1. PICK i \in OwnIn(Tail(q), s) : k = Tail(q)[i].n
    BY DEF Numbers
  <2>2. i + 1 \in OwnIn(q, s) /\ k = q[i + 1].n
    BY <1>3, <2>1
  <2>3. QED
    BY <2>2 DEF Numbers
<1>7. 1 \in OwnIn(q, s) => Head(q).n \in Numbers(q, s)
  BY <1>1 DEF Numbers
<1>8. QED
  BY <1>1, <1>2, <1>3, <1>5, <1>6, <1>7

(* Nothing of a stream's own has a number yet that is to come.             *)
LEMMA NumbersAreBelow ==
    ASSUME NEW s, TellInv(s), emitted[s] \in Nat
    PROVE  /\ \A i \in OwnIn(sent[s], s) : sent[s][i].n \in 1 .. emitted[s]
           /\ \A i \in OwnIn(queue[s], s) : queue[s][i].n \in 1 .. emitted[s]
  BY DEF TellInv, Numbers

-----------------------------------------------------------------------------
(* A stream hears something.                                               *)

(* Of another caller. *)
LEMMA HearingOther ==
    ASSUME ChatTyped, NEW s \in Streams, TellInv(s), NEW c \in Chat!Callers, c # s, Chat!Hears(s, c),
           NEW n \in Nat,
           queue'[s] = Append(queue[s], Chat!Event(c, n)), sent'[s] = sent[s], emitted'[s] = emitted[s],
           run' = run
    PROVE  TellInv(s)' /\ OwnIn(queue'[s], s) = OwnIn(queue[s], s)
<1> DEFINE m == Chat!Event(c, n)
<1>1. m \in Messages /\ m.what = "event" /\ m.of = c /\ ~(m.what = "event" /\ m.of = s)
  BY MessageTypes
<1>2. queue[s] \in Seq(Messages) /\ queue'[s] = Append(queue[s], m)
  BY DEF ChatTyped
<1> HIDE DEF m
<1>3. /\ DOMAIN queue'[s] = DOMAIN queue[s] \cup {Len(queue[s]) + 1}
      /\ queue'[s][Len(queue[s]) + 1] = m /\ \A i \in DOMAIN queue[s] : queue'[s][i] = queue[s][i]
      /\ OwnIn(queue'[s], s) = OwnIn(queue[s], s) /\ Numbers(queue'[s], s) = Numbers(queue[s], s)
  BY <1>1, <1>2, AddedAtEnd
<1>4. \A i \in OwnIn(queue[s], s) : queue'[s][i] = queue[s][i]
  BY <1>3 DEF OwnIn
<1>5. \A a, b : InOrder(s, a, b)' = InOrder(s, a, b)
  BY DEF InOrder, TwoOthers
<1>6. Sorted(s, sent[s])' /\ Sorted(s, queue[s])'
  <2>1. ASSUME NEW i \in OwnIn(queue'[s], s), NEW j \in OwnIn(queue'[s], s), i < j
        PROVE  InOrder(s, queue'[s][i].n, queue'[s][j].n)
    <3>1. /\ i \in OwnIn(queue[s], s) /\ queue'[s][i] = queue[s][i]
          /\ j \in OwnIn(queue[s], s) /\ queue'[s][j] = queue[s][j]
      BY <1>3, <1>4
    <3>2. InOrder(s, queue[s][i].n, queue[s][j].n)
      BY <2>1, <3>1 DEF TellInv, Sorted
    <3>3. QED
      BY <3>1, <3>2
  <2>2. \A i, j \in OwnIn(sent[s], s) : i < j => InOrder(s, sent[s][i].n, sent[s][j].n)
    BY DEF TellInv, Sorted
  <2>3. Sorted(s, sent[s])'
    BY <1>5, <2>2 DEF Sorted
  <2>4. Sorted(s, queue[s])'
    BY <1>5, <2>1 DEF Sorted
  <2>5. QED
    BY <2>3, <2>4
<1>7. \A i \in DOMAIN queue'[s] : queue'[s][i].what = "event" /\ Chat!Hears(s, queue'[s][i].of)
  BY <1>1, <1>3 DEF TellInv
<1>8. ASSUME NEW i \in OwnIn(sent[s], s), NEW j \in OwnIn(queue'[s], s)
      PROVE  InOrder(s, sent[s][i].n, queue'[s][j].n)
  <2>1. j \in OwnIn(queue[s], s) /\ queue'[s][j] = queue[s][j]
    BY <1>3, <1>4
  <2>2. InOrder(s, sent[s][i].n, queue[s][j].n)
    BY <2>1 DEF TellInv
  <2>3. QED
    BY <2>1, <2>2
<1>9. \A i \in OwnIn(sent[s], s)', j \in OwnIn(queue[s], s)' : InOrder(s, sent[s][i].n, queue[s][j].n)'
  BY <1>5, <1>8
<1>10. (Numbers(sent[s], s) \cup Numbers(queue[s], s) = 1 .. emitted[s])'
  BY <1>3 DEF TellInv
<1>11. \A i \in DOMAIN sent[s] : sent[s][i].what = "event" => Chat!Hears(s, sent[s][i].of)
  BY DEF TellInv
<1>12. QED
  BY <1>3, <1>6, <1>7, <1>9, <1>10, <1>11 DEF TellInv, Chat!Hears

(* Of its own run: something new, or the last event once more. *)
LEMMA HearingOwn ==
    ASSUME ChatTyped, NEW s \in Streams, TellInv(s), NEW n \in Nat,
           queue'[s] = Append(queue[s], Chat!Event(s, n)), sent'[s] = sent[s], run' = run, emitted'[s] = n,
           \/ n = emitted[s] + 1
           \/ n = emitted[s] /\ n # 0 /\ TwoOthers(s)
    PROVE  TellInv(s)'
<1> DEFINE m == Chat!Event(s, n)
<1>1. m \in Messages /\ m.what = "event" /\ m.of = s /\ m.n = n
  BY MessageTypes DEF Chat!Callers
<1>2. queue[s] \in Seq(Messages) /\ queue'[s] = Append(queue[s], m) /\ emitted[s] \in Nat
  BY DEF ChatTyped, Chat!Callers
<1> HIDE DEF m
<1> DEFINE last == Len(queue[s]) + 1
<1>3. /\ DOMAIN queue'[s] = DOMAIN queue[s] \cup {last} /\ DOMAIN queue[s] = 1 .. Len(queue[s])
      /\ Len(queue[s]) \in Nat
      /\ queue'[s][last] = m /\ \A i \in DOMAIN queue[s] : queue'[s][i] = queue[s][i]
      /\ OwnIn(queue'[s], s) = OwnIn(queue[s], s) \cup {last}
      /\ Numbers(queue'[s], s) = Numbers(queue[s], s) \cup {n}
  BY <1>1, <1>2, AddedAtEnd
<1> HIDE DEF last
<1>4. \A i \in OwnIn(queue[s], s) : queue'[s][i] = queue[s][i] /\ i \in 1 .. Len(queue[s])
  BY <1>3 DEF OwnIn
<1>5. \A k \in 1 .. emitted[s] : InOrder(s, k, n)
  BY <1>2 DEF InOrder
<1>6. (Numbers(sent[s], s) \cup Numbers(queue[s], s) = 1 .. emitted[s])'
  BY <1>2, <1>3 DEF TellInv
<1>7. Sorted(s, sent[s])' /\ \A a, b : InOrder(s, a, b)' = InOrder(s, a, b)
  BY DEF TellInv, Sorted, InOrder, TwoOthers
<1>8. ASSUME NEW i \in OwnIn(queue'[s], s), NEW j \in OwnIn(queue'[s], s), i < j
      PROVE  InOrder(s, queue'[s][i].n, queue'[s][j].n)
  <2>1. i # last
    BY <1>3, <1>4, <1>8 DEF last
  <2>2. CASE j = last
    BY <1>1, <1>2, <1>3, <1>4, <1>5, <1>8, <2>1, <2>2, NumbersAreBelow
  <2>3. CASE j # last
    BY <1>3, <1>4, <1>8, <2>1, <2>3 DEF TellInv, Sorted
  <2>4. QED
    BY <2>2, <2>3
<1>9. ASSUME NEW i \in OwnIn(sent[s], s), NEW j \in OwnIn(queue'[s], s)
      PROVE  InOrder(s, sent[s][i].n, queue'[s][j].n)
  <2>1. CASE j = last
    BY <1>1, <1>2, <1>3, <1>5, <2>1, NumbersAreBelow
  <2>2. CASE j # last
    BY <1>3, <1>4, <1>9, <2>2 DEF TellInv
  <2>3. QED
    BY <2>1, <2>2
<1>10. \A i \in DOMAIN queue'[s] : queue'[s][i].what = "event" /\ Chat!Hears(s, queue'[s][i].of)
  BY <1>1, <1>3 DEF TellInv, Chat!Hears
<1>11. \A i \in DOMAIN sent[s] : sent[s][i].what = "event" => Chat!Hears(s, sent[s][i].of)
  BY DEF TellInv
<1>12. Sorted(s, queue[s])'
  BY <1>7, <1>8 DEF Sorted
<1>13. \A i \in OwnIn(sent[s], s)', j \in OwnIn(queue[s], s)' : InOrder(s, sent[s][i].n, queue[s][j].n)'
  BY <1>7, <1>9
<1>14. QED
  BY <1>6, <1>7, <1>10, <1>11, <1>12, <1>13 DEF TellInv, Chat!Hears

(* Sending moves a message from the queue to the client. *)
LEMMA Sending ==
    ASSUME ChatTyped, NEW s \in Streams, TellInv(s), queue[s] # <<>>, run' = run, emitted' = emitted,
           sent'[s] = Append(sent[s], Head(queue[s])), queue'[s] = Tail(queue[s])
    PROVE  TellInv(s)'
<1> DEFINE m == Head(queue[s])
           last == Len(sent[s]) + 1
<1>1. /\ m \in Messages /\ m = queue[s][1] /\ 1 \in DOMAIN queue[s]
      /\ \A i \in DOMAIN queue'[s] :
            i + 1 \in DOMAIN queue[s] /\ queue'[s][i] = queue[s][i + 1] /\ i \in Nat \ {0}
      /\ \A i \in OwnIn(queue'[s], s) : i + 1 \in OwnIn(queue[s], s) /\ i \in Nat \ {0}
      /\ Numbers(queue[s], s) = Numbers(queue'[s], s) \cup (IF 1 \in OwnIn(queue[s], s) THEN {m.n} ELSE {})
  BY TakenFromFront DEF ChatTyped
<1>2. 1 \in OwnIn(queue[s], s) <=> m.what = "event" /\ m.of = s
  BY <1>1 DEF OwnIn
<1>3. sent[s] \in Seq(Messages) /\ sent'[s] = Append(sent[s], m)
  BY DEF ChatTyped
<1> HIDE DEF m
<1>4. /\ DOMAIN sent'[s] = DOMAIN sent[s] \cup {last} /\ DOMAIN sent[s] = 1 .. Len(sent[s])
      /\ Len(sent[s]) \in Nat
      /\ sent'[s][last] = m /\ \A i \in DOMAIN sent[s] : sent'[s][i] = sent[s][i]
      /\ OwnIn(sent'[s], s) = IF 1 \in OwnIn(queue[s], s) THEN OwnIn(sent[s], s) \cup {last}
                              ELSE OwnIn(sent[s], s)
      /\ Numbers(sent'[s], s) = IF 1 \in OwnIn(queue[s], s) THEN Numbers(sent[s], s) \cup {m.n}
                                ELSE Numbers(sent[s], s)
  <2>1. CASE 1 \in OwnIn(queue[s], s)
    BY <1>1, <1>2, <1>3, <2>1, AddedAtEnd
  <2>2. CASE 1 \notin OwnIn(queue[s], s)
    BY <1>1, <1>2, <1>3, <2>2, AddedAtEnd
  <2>3. QED
    BY <2>1, <2>2
<1>5. \A i \in OwnIn(queue'[s], s) : /\ i + 1 \in OwnIn(queue[s], s) /\ i \in Nat \ {0} 
                                     /\ queue'[s][i] = queue[s][i + 1]
  BY <1>1 DEF OwnIn
<1>6. last \in Nat /\ \A i \in OwnIn(sent[s], s) : sent'[s][i] = sent[s][i] /\ i < last /\ i \in Nat
  BY <1>4 DEF OwnIn
<1> HIDE DEF last
<1>7. \A a, b : InOrder(s, a, b)' = InOrder(s, a, b)
  BY DEF InOrder, TwoOthers
<1>8. (Numbers(sent[s], s) \cup Numbers(queue[s], s) = 1 .. emitted[s])'
  BY <1>1, <1>4 DEF TellInv
<1>9. ASSUME NEW i \in OwnIn(sent'[s], s), NEW j \in OwnIn(sent'[s], s), i < j
      PROVE  InOrder(s, sent'[s][i].n, sent'[s][j].n)
  <2>1. CASE i \in OwnIn(sent[s], s) /\ j \in OwnIn(sent[s], s)
    BY <1>6, <1>9, <2>1 DEF TellInv, Sorted
  <2>2. CASE j = last /\ i \in OwnIn(sent[s], s)
    <3>1. 1 \in OwnIn(queue[s], s)
      BY <1>4, <1>6, <2>2
    <3>2. InOrder(s, sent[s][i].n, queue[s][1].n)
      BY <2>2, <3>1 DEF TellInv
    <3>3. QED
      BY <1>1, <1>4, <1>6, <2>2, <3>2
  <2>3. i # last
    BY <1>4, <1>6, <1>9
  <2>4. QED
    BY <1>4, <1>9, <2>1, <2>2, <2>3
<1>10. ASSUME NEW i \in OwnIn(queue'[s], s), NEW j \in OwnIn(queue'[s], s), i < j
       PROVE  InOrder(s, queue'[s][i].n, queue'[s][j].n)
  <2>1. i + 1 < j + 1
    BY <1>5, <1>10
  <2>2. QED
    BY <1>5, <1>10, <2>1 DEF TellInv, Sorted
<1>11. ASSUME NEW i \in OwnIn(sent'[s], s), NEW j \in OwnIn(queue'[s], s)
       PROVE  InOrder(s, sent'[s][i].n, queue'[s][j].n)
  <2>1. CASE i \in OwnIn(sent[s], s)
    BY <1>5, <1>6, <2>1 DEF TellInv
  <2>2. CASE i = last /\ 1 \in OwnIn(queue[s], s)
    <3>1. 1 < j + 1
      BY <1>5
    <3>2. InOrder(s, queue[s][1].n, queue[s][j + 1].n)
      BY <1>5, <2>2, <3>1 DEF TellInv, Sorted
    <3>3. QED
      BY <1>1, <1>4, <1>5, <2>2, <3>2
  <2>3. QED
    BY <1>4, <2>1, <2>2
<1>12. Sorted(s, sent[s])' /\ Sorted(s, queue[s])'
  BY <1>7, <1>9, <1>10 DEF Sorted
<1>13. \A i \in OwnIn(sent[s], s)', j \in OwnIn(queue[s], s)' : InOrder(s, sent[s][i].n, queue[s][j].n)'
  BY <1>7, <1>11
<1>14. \A i \in DOMAIN queue'[s] : queue'[s][i].what = "event" /\ Chat!Hears(s, queue'[s][i].of)
  BY <1>1 DEF TellInv
<1>15. m.what = "event" /\ Chat!Hears(s, m.of)
  BY <1>1 DEF TellInv
<1>16. \A i \in DOMAIN sent'[s] : sent'[s][i].what = "event" => Chat!Hears(s, sent'[s][i].of)
  BY <1>4, <1>15 DEF TellInv
<1>17. QED
  BY <1>8, <1>12, <1>13, <1>14, <1>16 DEF TellInv, Chat!Hears

(* The stream says something that is no event. *)
LEMMA Saying ==
    ASSUME ChatTyped, NEW s \in Streams, TellInv(s), emitted' = emitted, queue' = queue,
           \A t \in Streams : run[t] # "none" => run'[t] # "none",
           NEW what \in {"start", "done", "error", "eof"}, sent'[s] = Append(sent[s], Chat!Message(what))
    PROVE  TellInv(s)'
<1> DEFINE m == Chat!Message(what)
           last == Len(sent[s]) + 1
<1>1. m \in Messages /\ m.what # "event" /\ sent[s] \in Seq(Messages) /\ sent'[s] = Append(sent[s], m)
  BY MessageTypes DEF ChatTyped
<1> HIDE DEF m
<1>2. /\ DOMAIN sent'[s] = DOMAIN sent[s] \cup {last}
      /\ sent'[s][last] = m /\ \A i \in DOMAIN sent[s] : sent'[s][i] = sent[s][i]
      /\ OwnIn(sent'[s], s) = OwnIn(sent[s], s) /\ Numbers(sent'[s], s) = Numbers(sent[s], s)
  BY <1>1, AddedAtEnd
<1>3. \A i \in OwnIn(sent[s], s) : sent'[s][i] = sent[s][i]
  BY <1>2 DEF OwnIn
<1>4. \A a, b : InOrder(s, a, b) => InOrder(s, a, b)'
  BY DEF InOrder, TwoOthers
<1>5. Sorted(s, sent[s])' /\ Sorted(s, queue[s])'
  BY <1>2, <1>3, <1>4 DEF TellInv, Sorted
<1>6. \A i \in OwnIn(sent'[s], s), j \in OwnIn(queue[s], s) : InOrder(s, sent'[s][i].n, queue[s][j].n)
  BY <1>2, <1>3 DEF TellInv
<1>7. \A i \in OwnIn(sent[s], s)', j \in OwnIn(queue[s], s)' : InOrder(s, sent[s][i].n, queue[s][j].n)'
  BY <1>4, <1>6
<1>8. \A i \in DOMAIN sent'[s] : sent'[s][i].what = "event" => Chat!Hears(s, sent'[s][i].of)
  BY <1>1, <1>2 DEF TellInv
<1>9. QED
  BY <1>2, <1>5, <1>7, <1>8 DEF TellInv, Chat!Hears

(* Nothing about the stream changes. *)
LEMMA StayingSilent ==
    ASSUME NEW s \in Streams, TellInv(s), queue'[s] = queue[s], sent'[s] = sent[s], emitted'[s] = emitted[s],
           \A t \in Streams : run[t] # "none" => run'[t] # "none"
    PROVE  TellInv(s)'
<1>1. \A a, b : InOrder(s, a, b) => InOrder(s, a, b)'
  BY DEF InOrder, TwoOthers
<1>2. Sorted(s, sent[s])' /\ Sorted(s, queue[s])'
  BY <1>1 DEF TellInv, Sorted
<1>3. \A i \in OwnIn(sent[s], s)', j \in OwnIn(queue[s], s)' : InOrder(s, sent[s][i].n, queue[s][j].n)'
  BY <1>1 DEF TellInv
<1>4. QED
  BY <1>2, <1>3 DEF TellInv, Chat!Hears

-----------------------------------------------------------------------------
(* Going through a list of hooks.                                          *)

(* From any place in it every stream behind that place is called, and      *)
(* the emission waits at the filter, unless that was behind already.       *)
LEMMA Calling ==
    ASSUME ChatTyped, NEW c \in Chat!Callers, NEW list, ListOfHooks(list), NEW i \in 1 .. Len(list) + 1,
           NEW n \in Nat,
           Chat!CallFrom(c, list, i, n)
    PROVE  /\ queue' \in [Streams -> Seq(Messages)]
           /\ \A s \in Streams :
                 queue'[s] = IF Chat!Hears(s, c) /\ \E j \in i .. Len(list) - 1 : list[j] = s
                             THEN Append(queue[s], Chat!Event(c, n)) ELSE queue[s]
           /\ emission' = [emission EXCEPT ![c] = IF i = Len(list) + 1 THEN Chat!NoEmission
                                                  ELSE [@ EXCEPT !.at = Len(list)]]
<1> DEFINE stops == {j \in i .. Len(list) : Chat!Suspends(list[j])}
           stop  == IF stops = {} THEN 0 ELSE CHOOSE j \in stops : \A k \in stops : j <= k
           upTo  == IF stop = 0 THEN Len(list) ELSE stop
<1>1. Len(list) \in Nat \ {0} /\ list[Len(list)] = Filter /\ \A j \in 1 .. Len(list) - 1 : list[j] \in Streams
  BY DEF ListOfHooks
<1>2. stops = IF i = Len(list) + 1 THEN {} ELSE {Len(list)}
  BY <1>1, StreamsAssumption DEF Chat!Suspends
<1>3. stop = IF i = Len(list) + 1 THEN 0 ELSE Len(list)
  BY <1>1, <1>2
<1>4. upTo = Len(list)
  BY <1>3
<1>5. /\ queue' = Chat!Deliver({list[j] : j \in i .. upTo}, c, n)
      /\ emission' = [emission EXCEPT ![c] = IF stop = 0 THEN Chat!NoEmission ELSE [@ EXCEPT !.at = stop]]
  BY DEF Chat!CallFrom
<1> HIDE DEF stops, stop, upTo
<1>6. \A s \in Streams : s \in {list[j] : j \in i .. upTo} <=> \E j \in i .. Len(list) - 1 : list[j] = s
  BY <1>1, <1>4, StreamsAssumption
<1>7. \A s \in Streams : queue'[s] = IF Chat!Hears(s, c) /\ \E j \in i .. Len(list) - 1 : list[j] = s
                                     THEN Append(queue[s], Chat!Event(c, n)) ELSE queue[s]
  BY <1>5, <1>6 DEF Chat!Deliver
<1>8. queue' \in [Streams -> Seq(Messages)]
  <2>1. \A s \in Streams : Append(queue[s], Chat!Event(c, n)) \in Seq(Messages) /\ queue[s] \in Seq(Messages)
    BY MessageTypes, AddedAtEnd DEF ChatTyped
  <2>2. DOMAIN queue' = Streams /\ queue' = [s \in Streams |-> queue'[s]]
    BY <1>5 DEF Chat!Deliver
  <2>3. \A s \in Streams : queue'[s] \in Seq(Messages)
    BY <1>7, <2>1
  <2>4. QED
    BY <2>2, <2>3
<1>9. emission' = [emission EXCEPT ![c] = IF i = Len(list) + 1 THEN Chat!NoEmission
                                          ELSE [@ EXCEPT !.at = Len(list)]]
  BY <1>1, <1>3, <1>5
<1>10. QED
  BY <1>7, <1>8, <1>9

(* Who comes is put before the filter, who goes is taken out. *)
LEMMA Coming ==
    ASSUME NEW list, ListOfHooks(list), NEW s \in Streams, \A i \in 1 .. Len(list) - 1 : list[i] # s,
           NEW i \in 1 .. Len(list), NEW longer, PutIn(longer, list, i, s)
    PROVE  /\ ListOfHooks(longer) /\ Len(longer) = Len(list) + 1
           /\ \A k \in 1 .. Len(list) : longer[k] = list[k] \/ longer[k + 1] = list[k]
           /\ \A k \in 1 .. Len(longer) - 1 : longer[k] = s \/ \E j \in 1 .. Len(list) - 1 : longer[k] = list[j]
           /\ i \in 1 .. Len(longer) - 1 /\ longer[i] = s
<1>1. Len(list) \in Nat \ {0}
  BY DEF ListOfHooks
<1>2. /\ Len(longer) = Len(list) + 1 /\ longer \in Seq(Streams \cup {Filter})
      /\ \A k \in 1 .. Len(list) + 1 : longer[k] = IF k < i THEN list[k] ELSE IF k = i THEN s ELSE list[k - 1]
  BY DEF PutIn
<1>3. longer[Len(longer)] = list[Len(list)]
  <2>1. Len(longer) \in 1 .. Len(list) + 1 /\ ~(Len(longer) < i) /\ Len(longer) # i
        /\ Len(longer) - 1 = Len(list)
    BY <1>1, <1>2
  <2>2. QED
    BY <1>2, <2>1
<1>4. \A k \in 1 .. Len(list) : \/ k < i /\ longer[k] = list[k]
                                \/ k = i /\ longer[k] = s
                                \/ k > i /\ k - 1 \in 1 .. Len(list) - 1 /\ longer[k] = list[k - 1]
  BY <1>1, <1>2
<1>5. \A k \in 1 .. Len(list) : longer[k] = list[k] \/ longer[k + 1] = list[k]
  <2>1. ASSUME NEW k \in 1 .. Len(list), k >= i PROVE longer[k + 1] = list[k]
    <3>1. k + 1 \in 1 .. Len(list) + 1 /\ ~(k + 1 < i) /\ k + 1 # i /\ (k + 1) - 1 = k
      BY <1>1, <2>1
    <3>2. QED
      BY <1>2, <3>1
  <2>2. ASSUME NEW k \in 1 .. Len(list), k < i PROVE longer[k] = list[k]
    BY <1>4, <2>2
  <2>3. QED
    BY <1>1, <2>1, <2>2
<1>6. \A k \in 1 .. Len(longer) - 1 : longer[k] = s \/ \E j \in 1 .. Len(list) - 1 : longer[k] = list[j]
  <2>1. ASSUME NEW k \in 1 .. Len(list), k < i PROVE k \in 1 .. Len(list) - 1
    BY <1>1, <2>1
  <2>2. ASSUME NEW k \in 1 .. Len(list) PROVE longer[k] = s \/ \E j \in 1 .. Len(list) - 1 : longer[k] = list[j]
    BY <1>4, <2>1
  <2>3. Len(longer) - 1 = Len(list)
    BY <1>1, <1>2
  <2>4. QED
    BY <2>2, <2>3
<1>7. \A k \in 1 .. Len(longer) - 1 : longer[k] \in Streams
  BY <1>6 DEF ListOfHooks
<1>8. i \in 1 .. Len(longer) - 1 /\ longer[i] = s
  BY <1>1, <1>2, <1>4
<1>9. ASSUME NEW j \in 1 .. Len(longer) - 1, NEW k \in 1 .. Len(longer) - 1, longer[j] = longer[k]
      PROVE  j = k
  <2>1. j \in 1 .. Len(list) /\ k \in 1 .. Len(list)
    BY <1>1, <1>2
  <2>2. j < i => j \in 1 .. Len(list) - 1
    BY <1>1, <2>1
  <2>3. k < i => k \in 1 .. Len(list) - 1
    BY <1>1, <2>1
  <2>4. \A m, n \in 1 .. Len(list) - 1 : list[m] = list[n] => m = n
    BY DEF ListOfHooks
  <2>5. CASE j < i
    BY <1>1, <1>4, <1>9, <2>1, <2>2, <2>3, <2>4, <2>5
  <2>6. CASE j = i
    BY <1>1, <1>2, <1>4, <1>9, <2>1, <2>2, <2>3, <2>6
  <2>7. CASE j > i
    <3>1. j - 1 \in 1 .. Len(list) - 1 /\ longer[j] = list[j - 1]
      BY <1>1, <1>2, <1>4, <2>1, <2>7
    <3>2. CASE k < i
      <4>1. k \in 1 .. Len(list) - 1 /\ longer[k] = list[k]
        BY <1>4, <2>1, <2>3, <3>2
      <4>2. j - 1 = k
        BY <1>9, <2>4, <3>1, <4>1
      <4>3. QED
        BY <2>1, <2>7, <3>2, <4>2
    <3>3. CASE k = i
      <4>1. longer[k] = s /\ list[j - 1] # s
        BY <1>4, <2>1, <3>1, <3>3
      <4>2. QED
        BY <1>9, <3>1, <4>1
    <3>4. CASE k > i
      <4>1. k - 1 \in 1 .. Len(list) - 1 /\ longer[k] = list[k - 1]
        BY <1>4, <2>1, <3>4
      <4>2. j - 1 = k - 1
        BY <1>9, <2>4, <3>1, <4>1
      <4>3. QED
        BY <2>1, <4>2
    <3>5. QED
      BY <2>1, <3>2, <3>3, <3>4
  <2>8. QED
    BY <1>1, <2>1, <2>5, <2>6, <2>7
<1>10. ListOfHooks(longer)
  BY <1>1, <1>2, <1>3, <1>7, <1>9 DEF ListOfHooks
<1>11. QED
  BY <1>2, <1>5, <1>6, <1>8, <1>10

LEMMA Leaving ==
    ASSUME NEW list, ListOfHooks(list), NEW i \in 1 .. Len(list) - 1,
           NEW rest \in Seq(Streams \cup {Filter}), Len(rest) = Len(list) - 1,
           \A k \in 1 .. Len(list) - 1 : rest[k] = IF k < i THEN list[k] ELSE list[k + 1]
    PROVE  /\ ListOfHooks(rest)
           /\ \A k \in 1 .. Len(rest) - 1 : rest[k] # list[i] /\ \E j \in 1 .. Len(list) - 1 : rest[k] = list[j]
           /\ \A j \in 1 .. Len(list) - 1 : j # i => \E k \in 1 .. Len(rest) - 1 : rest[k] = list[j]
<1>1. Len(list) \in Nat \ {0} /\ i \in 1 .. Len(list) /\ Len(list) - 1 \in Nat \ {0}
  BY DEF ListOfHooks
<1>2. /\ Len(rest) = Len(list) - 1
      /\ \A k \in 1 .. Len(list) - 1 : rest[k] = IF k < i THEN list[k] ELSE list[k + 1]
  OBVIOUS
<1>3. rest[Len(rest)] = list[Len(list)]
  <2>1. Len(rest) \in 1 .. Len(list) - 1 /\ ~(Len(rest) < i) /\ Len(rest) + 1 = Len(list)
    BY <1>1, <1>2
  <2>2. QED
    BY <1>2, <2>1
<1>4. \A k \in 1 .. Len(rest) - 1 : \/ k < i /\ k \in 1 .. Len(list) - 1 /\ rest[k] = list[k]
                                    \/ k >= i /\ k + 1 \in 1 .. Len(list) - 1 /\ rest[k] = list[k + 1]
  BY <1>1, <1>2
<1>5. \A m, n \in 1 .. Len(list) - 1 : list[m] = list[n] => m = n
  BY DEF ListOfHooks
<1>6. \A k \in 1 .. Len(rest) - 1 : rest[k] # list[i] /\ \E j \in 1 .. Len(list) - 1 : rest[k] = list[j]
  BY <1>1, <1>4, <1>5
<1>7. ASSUME NEW j \in 1 .. Len(list) - 1, j # i PROVE \E k \in 1 .. Len(rest) - 1 : rest[k] = list[j]
  <2>1. CASE j < i
    <3>1. j \in 1 .. Len(rest) - 1 /\ rest[j] = list[j]
      BY <1>1, <1>2, <2>1
    <3>2. QED
      BY <3>1
  <2>2. CASE j > i
    <3>1. j - 1 \in 1 .. Len(list) - 1 /\ j - 1 \in 1 .. Len(rest) - 1 /\ ~(j - 1 < i) /\ (j - 1) + 1 = j
      BY <1>1, <1>2, <2>2
    <3>2. rest[j - 1] = list[j]
      BY <1>2, <3>1
    <3>3. QED
      BY <3>1, <3>2
  <2>3. QED
    BY <1>1, <1>7, <2>1, <2>2
<1>8. \A k \in 1 .. Len(rest) - 1 : rest[k] \in Streams
  BY <1>6 DEF ListOfHooks
<1>9. ASSUME NEW j \in 1 .. Len(rest) - 1, NEW k \in 1 .. Len(rest) - 1, rest[j] = rest[k]
      PROVE  j = k
  <2> DEFINE m == IF j < i THEN j ELSE j + 1
             n == IF k < i THEN k ELSE k + 1
  <2>1. m \in 1 .. Len(list) - 1 /\ rest[j] = list[m] /\ ((j < i /\ m = j) \/ (j >= i /\ m = j + 1))
    BY <1>4
  <2>2. n \in 1 .. Len(list) - 1 /\ rest[k] = list[n] /\ ((k < i /\ n = k) \/ (k >= i /\ n = k + 1))
    BY <1>4
  <2> HIDE DEF m, n
  <2>3. m = n
    BY <1>5, <1>9, <2>1, <2>2
  <2>4. QED
    BY <1>1, <2>1, <2>2, <2>3
<1>10. ListOfHooks(rest)
  BY <1>1, <1>2, <1>3, <1>8, <1>9 DEF ListOfHooks
<1>11. QED
  BY <1>6, <1>7, <1>10

-----------------------------------------------------------------------------
(* The steps.                                                              *)

(* Who is registered is who is in the list before the filter. *)
LEMMA RegisteredIsListed ==
    ASSUME NEW list, ListOfHooks(list), NEW s \in Streams
    PROVE  s \in {list[i] : i \in DOMAIN list} \ {Filter} <=> \E i \in 1 .. Len(list) - 1 : list[i] = s
<1>1. /\ DOMAIN list = 1 .. Len(list) /\ Len(list) \in Nat \ {0} /\ list[Len(list)] = Filter /\ s # Filter
      /\ \A i \in 1 .. Len(list) - 1 : list[i] \in Streams
  BY StreamsAssumption DEF ListOfHooks
<1>2. ASSUME NEW i \in 1 .. Len(list), list[i] = s PROVE i \in 1 .. Len(list) - 1
  BY <1>1, <1>2
<1>3. ASSUME NEW i \in 1 .. Len(list) - 1, list[i] = s PROVE i \in 1 .. Len(list)
  BY <1>1, <1>3
<1>4. QED
  BY <1>1, <1>2, <1>3

(* An end that has been told stays the last word. *)
LEMMA EndStays ==
    ASSUME NEW s \in Streams, EndInv(s), sent'[s] = sent[s], OwnIn(queue'[s], s) = OwnIn(queue[s], s),
           run'[s] = run[s] \/ run[s] \in {"none", "going"},
           pc'[s] = pc[s] \/ pc'[s] = "gone" \/ pc[s] \notin {"concluding", "ended", "gone"},
           s \in Chat!Registered' => s \in Chat!Registered \/ pc[s] = "open"
    PROVE  EndInv(s)'
  BY DEF EndInv

(* An event is delivered to whoever listens: to the stream of its own run  *)
(* if it is new, or once more.                                             *)
LEMMA Delivering ==
    ASSUME ChatInv, NEW c \in Chat!Callers, NEW n \in Nat, emitted'[c] = n,
           \A d \in Chat!Callers \ {c} : emitted'[d] = emitted[d], UNCHANGED <<pc, run, hooks, sent>>,
           \A s \in Streams : \/ queue'[s] = queue[s]
                              \/ /\ Chat!Hears(s, c) /\ run[s] # "none"
                                 /\ queue'[s] = Append(queue[s], Chat!Event(c, n)),
           c \in Streams => /\ run[c] = "going"
                            /\ \/ queue'[c] = queue[c] /\ n = emitted[c]
                               \/ /\ queue'[c] = Append(queue[c], Chat!Event(c, n))
                                  /\ \/ n = emitted[c] + 1
                                     \/ n = emitted[c] /\ n # 0 /\ TwoOthers(c)
    PROVE  ListenersInv' /\ \A s \in Streams : TellInv(s)' /\ EndInv(s)'
<1>1. Chat!Registered' = Chat!Registered
  BY DEF Chat!Registered
<1>2. ListenersInv'
  BY <1>1 DEF ChatInv, ListenersInv
<1>3. ASSUME NEW s \in Streams PROVE TellInv(s)' /\ EndInv(s)'
  <2>1. s \in Chat!Callers
    BY DEF Chat!Callers
  <2>2. CASE queue'[s] = queue[s] /\ emitted'[s] = emitted[s]
    <3>1. TellInv(s)'
      BY <2>2, StayingSilent DEF ChatInv
    <3>2. EndInv(s)'
      BY <1>1, <2>2, EndStays DEF ChatInv
    <3>3. QED
      BY <3>1, <3>2
  <2>3. CASE s # c /\ queue'[s] = Append(queue[s], Chat!Event(c, n)) /\ Chat!Hears(s, c)
    <3>1. emitted'[s] = emitted[s]
      BY <2>1, <2>3
    <3>2. TellInv(s)' /\ OwnIn(queue'[s], s) = OwnIn(queue[s], s)
      BY <2>3, <3>1, HearingOther DEF ChatInv
    <3>3. EndInv(s)'
      BY <1>1, <3>2, EndStays DEF ChatInv
    <3>4. QED
      BY <3>2, <3>3
  <2>4. CASE /\ s = c /\ queue'[s] = Append(queue[s], Chat!Event(c, n))
             /\ \/ n = emitted[c] + 1
                \/ n = emitted[c] /\ n # 0 /\ TwoOthers(c)
    <3>1. TellInv(s)'
      BY <2>4, HearingOwn DEF ChatInv
    <3>2. \A i \in DOMAIN sent[s] : ~IsEnd(sent[s][i])
      BY <2>4 DEF ChatInv, EndInv
    <3>3. EndInv(s)'
      BY <3>2 DEF EndInv
    <3>4. QED
      BY <3>1, <3>3
  <2>5. s # c => emitted'[s] = emitted[s]
    BY <2>1
  <2>6. QED
    BY <2>2, <2>3, <2>4, <2>5
<1>4. QED
  BY <1>2, <1>3

LEMMA EmitKeeps == ASSUME ChatInv, NEW c \in Chat!Callers, Chat!Emit(c) PROVE ChatInv'
<1> DEFINE n == emitted[c] + 1
<1>1. /\ c \in Streams => run[c] = "going"
      /\ emitted' = [emitted EXCEPT ![c] = n] /\ queue' = Chat!Deliver(Chat!Registered, c, emitted'[c])
      /\ UNCHANGED <<pc, run, hooks, emission, sent>>
  BY StreamsAssumption DEF Chat!Emit, Chat!Active
<1>2. n \in Nat /\ emitted' \in [Chat!Callers -> Nat] /\ emitted'[c] = n
      /\ \A d \in Chat!Callers \ {c} : emitted'[d] = emitted[d]
  BY <1>1 DEF ChatInv, ChatTyped
<1>3. n = emitted[c] + 1
  OBVIOUS
<1> HIDE DEF n
<1>4. \A s \in Streams :
         queue'[s] = IF s \in Chat!Registered /\ Chat!Hears(s, c) THEN Append(queue[s], Chat!Event(c, n))
                     ELSE queue[s]
  BY <1>1, <1>2 DEF Chat!Deliver
<1>5. queue' \in [Streams -> Seq(Messages)]
  <2>1. \A s \in Streams : Append(queue[s], Chat!Event(c, n)) \in Seq(Messages) /\ queue[s] \in Seq(Messages)
    BY <1>2, MessageTypes, AddedAtEnd DEF ChatInv, ChatTyped
  <2>2. DOMAIN queue' = Streams /\ queue' = [s \in Streams |-> queue'[s]]
    BY <1>1 DEF Chat!Deliver
  <2>3. \A s \in Streams : queue'[s] \in Seq(Messages)
    BY <1>4, <2>1
  <2>4. QED
    BY <2>2, <2>3
<1>6. \A s \in Streams : \/ queue'[s] = queue[s]
                         \/ /\ Chat!Hears(s, c) /\ run[s] # "none"
                            /\ queue'[s] = Append(queue[s], Chat!Event(c, n))
  BY <1>4 DEF ChatInv, ListenersInv
<1>7. c \in Streams => /\ run[c] = "going" /\ queue'[c] = Append(queue[c], Chat!Event(c, n))
  BY <1>1, <1>4 DEF ChatInv, ListenersInv, Chat!Hears
<1>8. ListenersInv' /\ \A s \in Streams : TellInv(s)' /\ EndInv(s)'
  BY <1>1, <1>2, <1>3, <1>6, <1>7, Delivering
<1>9. ChatTyped'
  BY <1>1, <1>2, <1>5 DEF ChatInv, ChatTyped
<1>10. EmissionsInv'
  BY <1>1, <1>2, <1>3 DEF ChatInv, ChatTyped, EmissionsInv, ListOf
<1>11. QED
  BY <1>8, <1>9, <1>10 DEF ChatInv

LEMMA EmitPreToolUseKeeps == ASSUME ChatInv, NEW c \in Chat!Callers, Chat!EmitPreToolUse(c) PROVE ChatInv'
<1> DEFINE n == emitted[c] + 1
<1>1. /\ c \in Streams => run[c] = "going"
      /\ emission[c].at = 0
      /\ emitted' = [emitted EXCEPT ![c] = n] /\ Chat!CallFrom(c, hooks, 1, emitted'[c])
      /\ UNCHANGED <<pc, run, hooks, sent>>
  BY StreamsAssumption DEF Chat!EmitPreToolUse, Chat!Active
<1>2. n \in Nat /\ emitted' \in [Chat!Callers -> Nat] /\ emitted'[c] = n
      /\ \A d \in Chat!Callers \ {c} : emitted'[d] = emitted[d]
  BY <1>1 DEF ChatInv, ChatTyped
<1>3. n = emitted[c] + 1
  OBVIOUS
<1> HIDE DEF n
<1>4. ListOfHooks(hooks) /\ Len(hooks) \in Nat \ {0} /\ 1 \in 1 .. Len(hooks) + 1
  BY DEF ChatInv, ChatTyped, ListOfHooks
<1>5. /\ queue' \in [Streams -> Seq(Messages)]
      /\ \A s \in Streams : queue'[s] = IF Chat!Hears(s, c) /\ \E j \in 1 .. Len(hooks) - 1 : hooks[j] = s
                                        THEN Append(queue[s], Chat!Event(c, n)) ELSE queue[s]
      /\ emission' = [emission EXCEPT ![c] = IF 1 = Len(hooks) + 1 THEN Chat!NoEmission
                                             ELSE [@ EXCEPT !.at = Len(hooks)]]
  <2> DEFINE first == 1
  <2>1. Chat!CallFrom(c, hooks, first, n) /\ ChatTyped /\ first \in 1 .. Len(hooks) + 1
    BY <1>1, <1>2, <1>4 DEF ChatInv
  <2>2. first = 1
    OBVIOUS
  <2> HIDE DEF first
  <2>3. /\ queue' \in [Streams -> Seq(Messages)]
        /\ \A s \in Streams : queue'[s] = IF Chat!Hears(s, c) /\ \E j \in first .. Len(hooks) - 1 : hooks[j] = s
                                          THEN Append(queue[s], Chat!Event(c, n)) ELSE queue[s]
        /\ emission' = [emission EXCEPT ![c] = IF first = Len(hooks) + 1 THEN Chat!NoEmission
                                               ELSE [@ EXCEPT !.at = Len(hooks)]]
    BY <1>2, <1>4, <2>1, Calling
  <2>4. QED
    BY <2>2, <2>3
<1>6. \A s \in Streams : s \in Chat!Registered <=> \E j \in 1 .. Len(hooks) - 1 : hooks[j] = s
  BY <1>4, RegisteredIsListed DEF Chat!Registered
<1>7. \A s \in Streams : \/ queue'[s] = queue[s]
                         \/ /\ Chat!Hears(s, c) /\ run[s] # "none"
                            /\ queue'[s] = Append(queue[s], Chat!Event(c, n))
  BY <1>5, <1>6 DEF ChatInv, ListenersInv
<1>8. c \in Streams => /\ run[c] = "going" /\ queue'[c] = Append(queue[c], Chat!Event(c, n)) /\ Len(hooks) >= 2
  BY <1>1, <1>4, <1>5, <1>6 DEF ChatInv, ListenersInv, Chat!Hears
<1>9. ListenersInv' /\ \A s \in Streams : TellInv(s)' /\ EndInv(s)'
  BY <1>1, <1>2, <1>3, <1>7, <1>8, Delivering
<1>10. emission[c].list = <<>>
  BY <1>1 DEF ChatInv, EmissionsInv, Chat!NoEmission
<1>11. /\ emission' \in [Chat!Callers -> [at : Nat, list : Seq(Streams \cup {Filter})]]
       /\ emission'[c].at = Len(hooks) /\ emission'[c].list = <<>>
       /\ \A d \in Chat!Callers \ {c} : emission'[d] = emission[d]
  <2>1. 1 # Len(hooks) + 1 /\ Len(hooks) \in Nat
    BY <1>4
  <2>2. emission' = [emission EXCEPT ![c] = [emission[c] EXCEPT !.at = Len(hooks)]]
    BY <1>5, <2>1
  <2>3. emission \in [Chat!Callers -> [at : Nat, list : Seq(Streams \cup {Filter})]]
    BY DEF ChatInv, ChatTyped
  <2>4. QED
    BY <1>10, <2>1, <2>2, <2>3
<1>12. ChatTyped'
  BY <1>1, <1>2, <1>5, <1>11 DEF ChatInv, ChatTyped
<1>13. \A i \in 1 .. Len(hooks) - 1 : run[hooks[i]] # "none"
  BY <1>4, <1>6 DEF ChatInv, ListenersInv, ListOfHooks
<1>14. EmissionsInv'
  <2>1. ASSUME NEW d \in Chat!Callers \ {c}
        PROVE  /\ emission'[d] = emission[d] /\ ListOf(d)' = ListOf(d) /\ emitted'[d] = emitted[d]
    BY <1>1, <1>2, <1>11 DEF ListOf
  <2>2. ListOf(c)' = hooks
    BY <1>1, <1>11 DEF ListOf
  <2>3. emitted'[c] # 0
    BY <1>2, <1>3 DEF ChatInv, ChatTyped
  <2>4. QED
    BY <1>1, <1>4, <1>8, <1>11, <1>13, <2>1, <2>2, <2>3 DEF ChatInv, EmissionsInv
<1>15. QED
  BY <1>9, <1>12, <1>14 DEF ChatInv

LEMMA GoOnKeeps == ASSUME ChatInv, NEW c \in Chat!Callers, Chat!GoOn(c) PROVE ChatInv'
<1> DEFINE n == emitted[c]
           list == ListOf(c)
           i == emission[c].at + 1
<1>1. /\ emission[c].at # 0 /\ Chat!CallFrom(c, list, i, n)
      /\ UNCHANGED <<pc, run, hooks, emitted, sent>>
  BY DEF Chat!GoOn, ListOf
<1>2. /\ ListOfHooks(list) /\ i \in 1 .. Len(list) + 1 /\ n \in Nat \ {0} /\ Len(list) \in Nat \ {0}
      /\ \A j \in 1 .. Len(list) - 1 : run[list[j]] # "none"
      /\ c \in Streams => run[c] = "going" /\ i >= 3
  <2>1. emission[c].at \in Nat /\ n \in Nat
    BY DEF ChatInv, ChatTyped
  <2>2. /\ ListOfHooks(list) /\ emission[c].at <= Len(list) /\ n # 0
        /\ \A j \in 1 .. Len(list) - 1 : run[list[j]] # "none"
        /\ c \in Streams => run[c] = "going" /\ emission[c].at >= 2
    BY <1>1 DEF ChatInv, EmissionsInv
  <2>3. Len(list) \in Nat \ {0}
    BY <2>2 DEF ListOfHooks
  <2> HIDE DEF list
  <2>4. QED
    BY <2>1, <2>2, <2>3
<1>3. n = emitted[c] /\ list = ListOf(c)
  OBVIOUS
<1> HIDE DEF n, list, i
<1>4. /\ queue' \in [Streams -> Seq(Messages)]
      /\ \A s \in Streams : queue'[s] = IF Chat!Hears(s, c) /\ \E j \in i .. Len(list) - 1 : list[j] = s
                                        THEN Append(queue[s], Chat!Event(c, n)) ELSE queue[s]
      /\ emission' = [emission EXCEPT ![c] = IF i = Len(list) + 1 THEN Chat!NoEmission
                                             ELSE [@ EXCEPT !.at = Len(list)]]
  BY <1>1, <1>2, Calling DEF ChatInv
<1>5. \A s \in Streams : \/ queue'[s] = queue[s]
                         \/ /\ Chat!Hears(s, c) /\ run[s] # "none"
                            /\ queue'[s] = Append(queue[s], Chat!Event(c, n))
  <2>1. \A j \in i .. Len(list) - 1 : j \in 1 .. Len(list) - 1
    BY <1>2
  <2>2. QED
    BY <1>2, <1>4, <2>1
<1>6. ASSUME c \in Streams, queue'[c] # queue[c]
      PROVE  queue'[c] = Append(queue[c], Chat!Event(c, n)) /\ TwoOthers(c)
  <2>1. PICK j \in i .. Len(list) - 1 : list[j] = c
    BY <1>4, <1>6
  <2>2. queue'[c] = Append(queue[c], Chat!Event(c, n))
    BY <1>4, <1>6
  <2> DEFINE one == 1
             two == 2
  <2>3. /\ one \in 1 .. Len(list) - 1 /\ two \in 1 .. Len(list) - 1 /\ j \in 1 .. Len(list) - 1
        /\ one # two /\ one # j /\ two # j
    BY <1>2, <1>6, <2>1
  <2> HIDE DEF one, two
  <2>4. list[one] \in Streams /\ list[two] \in Streams
    BY <1>2, <2>3 DEF ListOfHooks
  <2>5. list[one] # list[two] /\ list[one] # c /\ list[two] # c
    BY <1>2, <2>1, <2>3 DEF ListOfHooks
  <2>6. run[list[one]] # "none" /\ run[list[two]] # "none"
    BY <1>2, <2>3
  <2>7. TwoOthers(c)
    BY <2>4, <2>5, <2>6 DEF TwoOthers
  <2>8. QED
    BY <2>2, <2>7
<1>7. ListenersInv' /\ \A s \in Streams : TellInv(s)' /\ EndInv(s)'
  <2>1. c \in Streams => /\ run[c] = "going"
                         /\ \/ queue'[c] = queue[c] /\ n = emitted[c]
                            \/ /\ queue'[c] = Append(queue[c], Chat!Event(c, n))
                               /\ \/ n = emitted[c] + 1
                                  \/ n = emitted[c] /\ n # 0 /\ TwoOthers(c)
    BY <1>2, <1>3, <1>6
  <2>2. emitted'[c] = n /\ (\A d \in Chat!Callers \ {c} : emitted'[d] = emitted[d]) /\ n \in Nat
    BY <1>1, <1>2, <1>3
  <2>3. QED
    BY <1>1, <1>5, <2>1, <2>2, Delivering
<1>8. /\ emission' \in [Chat!Callers -> [at : Nat, list : Seq(Streams \cup {Filter})]]
      /\ \A d \in Chat!Callers \ {c} : emission'[d] = emission[d]
      /\ \/ emission'[c] = Chat!NoEmission
         \/ emission'[c].at = Len(list) /\ emission'[c].list = emission[c].list
  <2>1. emission \in [Chat!Callers -> [at : Nat, list : Seq(Streams \cup {Filter})]]
    BY DEF ChatInv, ChatTyped
  <2>2. Chat!NoEmission \in [at : Nat, list : Seq(Streams \cup {Filter})]
    BY DEF Chat!NoEmission
  <2>3. CASE i = Len(list) + 1
    <3>1. emission' = [emission EXCEPT ![c] = Chat!NoEmission]
      BY <1>4, <2>3
    <3>2. QED
      BY <2>1, <2>2, <3>1
  <2>4. CASE i # Len(list) + 1
    <3>1. emission' = [emission EXCEPT ![c] = [emission[c] EXCEPT !.at = Len(list)]]
      BY <1>4, <2>4
    <3>2. QED
      BY <1>2, <2>1, <3>1
  <2>5. QED
    BY <2>3, <2>4
<1>9. ChatTyped'
  BY <1>1, <1>4, <1>8 DEF ChatInv, ChatTyped
<1>10. EmissionsInv'
  <2>1. ASSUME NEW d \in Chat!Callers \ {c}
        PROVE  /\ emission'[d] = emission[d] /\ ListOf(d)' = ListOf(d) /\ emitted'[d] = emitted[d]
    BY <1>1, <1>8 DEF ListOf
  <2>2. CASE emission'[c] = Chat!NoEmission
    <3>1. Chat!NoEmission.at = 0
      BY DEF Chat!NoEmission
    <3>2. QED
      BY <1>1, <2>1, <2>2, <3>1 DEF ChatInv, EmissionsInv
  <2>3. CASE emission'[c].at = Len(list) /\ emission'[c].list = emission[c].list
    <3>1. ListOf(c)' = list
      BY <1>1, <1>3, <2>3 DEF ListOf
    <3>2. c \in Streams => Len(list) >= 2
      BY <1>2
    <3>3. emitted'[c] # 0 /\ emission'[c].at # 0
      BY <1>1, <1>2, <1>3, <2>3
    <3>4. QED
      BY <1>1, <1>2, <2>1, <2>3, <3>1, <3>2, <3>3 DEF ChatInv, EmissionsInv
  <2>4. QED
    BY <1>8, <2>2, <2>3
<1>11. QED
  BY <1>7, <1>9, <1>10 DEF ChatInv

(* The steps in which no event is about. *)
LEMMA EndRunKeeps == ASSUME ChatInv, NEW s \in Streams, Chat!EndRun(s) PROVE ChatInv'
<1>1. /\ run[s] = "going" /\ emission[s].at = 0
      /\ UNCHANGED <<pc, hooks, emission, emitted, queue, sent>>
  BY DEF Chat!EndRun
<1>2. PICK how \in {"returned", "raised"} : run' = [run EXCEPT ![s] = how]
  BY DEF Chat!EndRun
<1>3. /\ run' \in [Streams -> {"none", "going", "returned", "raised"}]
      /\ run'[s] \notin {"none", "going"} /\ \A t \in Streams \ {s} : run'[t] = run[t]
      /\ \A t \in Streams : run[t] = "none" <=> run'[t] = "none"
  BY <1>1, <1>2 DEF ChatInv, ChatTyped
<1>4. ChatTyped'
  BY <1>1, <1>3 DEF ChatInv, ChatTyped
<1>5. Chat!Registered' = Chat!Registered
  BY <1>1 DEF Chat!Registered
<1>6. ListenersInv'
  BY <1>1, <1>3, <1>5 DEF ChatInv, ListenersInv
<1>7. EmissionsInv'
  <2>1. \A c \in Chat!Callers : ListOf(c)' = ListOf(c)
    BY <1>1 DEF ListOf
  <2>2. ASSUME NEW c \in Chat!Callers, emission[c].at # 0
        PROVE  \A i \in 1 .. Len(ListOf(c)) - 1 : run'[ListOf(c)[i]] # "none"
    <3>1. /\ \A i \in 1 .. Len(ListOf(c)) - 1 : ListOf(c)[i] \in Streams
          /\ \A i \in 1 .. Len(ListOf(c)) - 1 : run[ListOf(c)[i]] # "none"
      BY <2>2 DEF ChatInv, EmissionsInv, ListOfHooks
    <3>2. QED
      BY <1>3, <3>1
  <2>3. QED
    BY <1>1, <1>3, <2>1, <2>2 DEF ChatInv, EmissionsInv
<1>8. ASSUME NEW t \in Streams PROVE TellInv(t)' /\ EndInv(t)'
  <2>1. TellInv(t)'
    BY <1>1, <1>3, StayingSilent DEF ChatInv
  <2>2. EndInv(t)'
    <3>1. run'[t] = run[t] \/ run[t] \in {"none", "going"}
      BY <1>1, <1>3
    <3>2. QED
      BY <1>1, <1>5, <3>1, EndStays DEF ChatInv
  <2>3. QED
    BY <2>1, <2>2
<1>9. QED
  BY <1>4, <1>6, <1>7, <1>8 DEF ChatInv

LEMMA DisconnectKeeps == ASSUME ChatInv, NEW s \in Streams, Chat!Disconnect(s) PROVE ChatInv'
<1>1. /\ pc[s] \in {"open", "streaming", "concluding"} /\ pc' = [pc EXCEPT ![s] = "gone"]
      /\ UNCHANGED <<run, hooks, emission, emitted, queue, sent>>
  BY DEF Chat!Disconnect
<1>2. /\ pc' \in [Streams -> {"closed", "open", "streaming", "concluding", "ended", "gone"}]
      /\ pc'[s] = "gone" /\ \A t \in Streams \ {s} : pc'[t] = pc[t]
  BY <1>1 DEF ChatInv, ChatTyped
<1>3. Chat!Registered' = Chat!Registered
  BY <1>1 DEF Chat!Registered
<1>4. ListenersInv'
  BY <1>1, <1>2, <1>3 DEF ChatInv, ListenersInv
<1>5. EmissionsInv' /\ ChatTyped'
  BY <1>1, <1>2 DEF ChatInv, EmissionsInv, ChatTyped, ListOf
<1>6. ASSUME NEW t \in Streams PROVE TellInv(t)' /\ EndInv(t)'
  <2>1. TellInv(t)'
    BY <1>1, StayingSilent DEF ChatInv
  <2>2. EndInv(t)'
    BY <1>1, <1>2, <1>3, EndStays DEF ChatInv
  <2>3. QED
    BY <2>1, <2>2
<1>7. QED
  BY <1>4, <1>5, <1>6 DEF ChatInv

(* What a stream yields. *)
LEMMA Yielding ==
    ASSUME ChatTyped, NEW s \in Streams, NEW m \in Messages, Chat!Yield(s, m)
    PROVE  /\ sent' \in [Streams -> Seq(Messages)] /\ sent'[s] = Append(sent[s], m)
           /\ \A t \in Streams \ {s} : sent'[t] = sent[t]
<1>1. sent' = [sent EXCEPT ![s] = Append(sent[s], m)] /\ sent \in [Streams -> Seq(Messages)]
  BY DEF Chat!Yield, ChatTyped
<1>2. Append(sent[s], m) \in Seq(Messages)
  BY <1>1, AddedAtEnd
<1> DEFINE longer == Append(sent[s], m)
<1> HIDE DEF longer
<1>3. sent' = [sent EXCEPT ![s] = longer] /\ longer \in Seq(Messages)
  BY <1>1, <1>2 DEF longer
<1>4. /\ sent' \in [Streams -> Seq(Messages)] /\ sent'[s] = longer
      /\ \A t \in Streams \ {s} : sent'[t] = sent[t]
  BY <1>1, <1>3
<1>5. QED
  BY <1>4 DEF longer

(* As long as a stream is not about to conclude it tells no end. *)
LEMMA NoEndYet ==
    ASSUME ChatInv, NEW s \in Streams, pc[s] \notin {"concluding", "ended", "gone"},
           NEW m \in Messages, ~IsEnd(m), sent'[s] = Append(sent[s], m)
    PROVE  EndInv(s)'
<1>1. \A i \in DOMAIN sent[s] : ~IsEnd(sent[s][i])
  BY DEF ChatInv, EndInv
<1>2. \A i \in DOMAIN sent'[s] : ~IsEnd(sent'[s][i])
  BY <1>1, AddedAtEnd DEF ChatInv, ChatTyped
<1>3. QED
  BY <1>2 DEF EndInv

(* Nothing but what is said and done by one stream changes. *)
LEMMA OthersStay ==
    ASSUME ChatInv, NEW s \in Streams, NEW t \in Streams \ {s}, queue'[t] = queue[t], sent'[t] = sent[t],
           emitted' = emitted, pc'[t] = pc[t], run'[t] = run[t],
           \A u \in Streams : run[u] # "none" => run'[u] # "none",
           t \in Chat!Registered' => t \in Chat!Registered
    PROVE  TellInv(t)' /\ EndInv(t)'
<1>1. TellInv(t)'
  BY StayingSilent DEF ChatInv
<1>2. EndInv(t)'
  BY EndStays DEF ChatInv
<1>3. QED
  BY <1>1, <1>2

LEMMA OpenKeeps == ASSUME ChatInv, NEW s \in Streams, Chat!Open(s) PROVE ChatInv'
<1> DEFINE m == Chat!Message("start")
<1>1. /\ pc[s] = "closed" /\ pc' = [pc EXCEPT ![s] = "open"] /\ Chat!Yield(s, m)
      /\ UNCHANGED <<run, hooks, emission, emitted, queue>>
  BY DEF Chat!Open
<1>2. m \in Messages /\ ~IsEnd(m) /\ m = Chat!Message("start")
  BY MessageTypes DEF IsEnd
<1> HIDE DEF m
<1>3. /\ pc' \in [Streams -> {"closed", "open", "streaming", "concluding", "ended", "gone"}]
      /\ pc'[s] = "open" /\ \A t \in Streams \ {s} : pc'[t] = pc[t]
  BY <1>1 DEF ChatInv, ChatTyped
<1>4. /\ sent' \in [Streams -> Seq(Messages)] /\ sent'[s] = Append(sent[s], m)
      /\ \A t \in Streams \ {s} : sent'[t] = sent[t]
  BY <1>1, <1>2, Yielding DEF ChatInv
<1>5. Chat!Registered' = Chat!Registered
  BY <1>1 DEF Chat!Registered
<1>6. ListenersInv'
  BY <1>1, <1>3, <1>5 DEF ChatInv, ListenersInv
<1>7. ChatTyped'
  BY <1>1, <1>3, <1>4 DEF ChatInv, ChatTyped
<1>8. EmissionsInv'
  BY <1>1 DEF ChatInv, EmissionsInv, ListOf
<1>9. TellInv(s)'
  <2> DEFINE what == "start"
  <2>1. what \in {"start", "done", "error", "eof"} /\ m = Chat!Message(what)
    BY <1>2
  <2> HIDE DEF what
  <2>2. QED
    BY <1>1, <1>4, <2>1, Saying DEF ChatInv
<1>10. EndInv(s)'
  BY <1>1, <1>2, <1>4, NoEndYet
<1>11. \A t \in Streams \ {s} : TellInv(t)' /\ EndInv(t)'
  BY <1>1, <1>3, <1>4, <1>5, OthersStay
<1>12. QED
  BY <1>6, <1>7, <1>8, <1>9, <1>10, <1>11 DEF ChatInv

LEMMA SendKeeps == ASSUME ChatInv, NEW s \in Streams, Chat!Send(s) PROVE ChatInv'
<1> DEFINE m == Head(queue[s])
<1>1. /\ pc[s] = "streaming" /\ queue[s] # <<>> /\ Chat!Yield(s, m)
      /\ queue' = [queue EXCEPT ![s] = Tail(queue[s])]
      /\ UNCHANGED <<pc, run, hooks, emission, emitted>>
  BY DEF Chat!Send
<1>2. m \in Messages /\ m = Head(queue[s]) /\ Tail(queue[s]) \in Seq(Messages) /\ m.what = "event"
  <2>1. queue[s] \in Seq(Messages)
    BY DEF ChatInv, ChatTyped
  <2>2. m \in Messages /\ m = queue[s][1] /\ 1 \in DOMAIN queue[s] /\ Tail(queue[s]) \in Seq(Messages)
    BY <1>1, <2>1, TakenFromFront
  <2>3. QED
    BY <2>2 DEF ChatInv, TellInv
<1> HIDE DEF m
<1>3. ~IsEnd(m)
  BY <1>2 DEF IsEnd
<1>4. /\ sent' \in [Streams -> Seq(Messages)] /\ sent'[s] = Append(sent[s], m)
      /\ \A t \in Streams \ {s} : sent'[t] = sent[t]
  BY <1>1, <1>2, Yielding DEF ChatInv
<1>5. /\ queue' \in [Streams -> Seq(Messages)] /\ queue'[s] = Tail(queue[s])
      /\ \A t \in Streams \ {s} : queue'[t] = queue[t]
  <2> DEFINE rest == Tail(queue[s])
  <2>1. queue \in [Streams -> Seq(Messages)] /\ rest \in Seq(Messages) /\ queue' = [queue EXCEPT ![s] = rest]
    BY <1>1, <1>2 DEF ChatInv, ChatTyped
  <2> HIDE DEF rest
  <2>2. /\ queue' \in [Streams -> Seq(Messages)] /\ queue'[s] = rest
        /\ \A t \in Streams \ {s} : queue'[t] = queue[t]
    BY <2>1
  <2>3. QED
    BY <2>2 DEF rest
<1>6. Chat!Registered' = Chat!Registered
  BY <1>1 DEF Chat!Registered
<1>7. ListenersInv'
  BY <1>1, <1>5, <1>6 DEF ChatInv, ListenersInv
<1>8. ChatTyped'
  BY <1>1, <1>4, <1>5 DEF ChatInv, ChatTyped
<1>9. EmissionsInv'
  BY <1>1 DEF ChatInv, EmissionsInv, ListOf
<1>10. TellInv(s)'
  BY <1>1, <1>2, <1>4, <1>5, Sending DEF ChatInv
<1>11. EndInv(s)'
  BY <1>1, <1>2, <1>3, <1>4, NoEndYet
<1>12. \A t \in Streams \ {s} : TellInv(t)' /\ EndInv(t)'
  BY <1>1, <1>4, <1>5, <1>6, OthersStay
<1>13. QED
  BY <1>7, <1>8, <1>9, <1>10, <1>11, <1>12 DEF ChatInv

LEMMA SendEofKeeps == ASSUME ChatInv, NEW s \in Streams, Chat!SendEof(s) PROVE ChatInv'
<1> DEFINE m == Chat!Message("eof")
<1>1. /\ pc[s] = "concluding" /\ pc' = [pc EXCEPT ![s] = "ended"] /\ Chat!Yield(s, m)
      /\ UNCHANGED <<run, hooks, emission, emitted, queue>>
  BY DEF Chat!SendEof
<1>2. m \in Messages /\ ~IsEnd(m) /\ m.what = "eof" /\ m = Chat!Message("eof")
  BY MessageTypes DEF IsEnd
<1> HIDE DEF m
<1>3. /\ pc' \in [Streams -> {"closed", "open", "streaming", "concluding", "ended", "gone"}]
      /\ pc'[s] = "ended" /\ \A t \in Streams \ {s} : pc'[t] = pc[t]
  BY <1>1 DEF ChatInv, ChatTyped
<1>4. /\ sent' \in [Streams -> Seq(Messages)] /\ sent'[s] = Append(sent[s], m)
      /\ \A t \in Streams \ {s} : sent'[t] = sent[t]
  BY <1>1, <1>2, Yielding DEF ChatInv
<1>5. Chat!Registered' = Chat!Registered
  BY <1>1 DEF Chat!Registered
<1>6. ListenersInv'
  BY <1>1, <1>3, <1>5 DEF ChatInv, ListenersInv
<1>7. ChatTyped'
  BY <1>1, <1>3, <1>4 DEF ChatInv, ChatTyped
<1>8. EmissionsInv'
  BY <1>1 DEF ChatInv, EmissionsInv, ListOf
<1>9. TellInv(s)'
  <2> DEFINE what == "eof"
  <2>1. what \in {"start", "done", "error", "eof"} /\ m = Chat!Message(what)
    BY <1>2
  <2> HIDE DEF what
  <2>2. QED
    BY <1>1, <1>4, <2>1, Saying DEF ChatInv
<1>10. EndInv(s)'
  <2>1. /\ sent[s] \in Seq(Messages) /\ Len(sent[s]) \in Nat /\ DOMAIN sent[s] = 1 .. Len(sent[s])
        /\ DOMAIN sent'[s] = DOMAIN sent[s] \cup {Len(sent[s]) + 1} /\ Len(sent'[s]) = Len(sent[s]) + 1
        /\ sent'[s][Len(sent[s]) + 1] = m /\ \A i \in DOMAIN sent[s] : sent'[s][i] = sent[s][i]
    BY <1>2, <1>4, AddedAtEnd DEF ChatInv, ChatTyped
  <2>2. ASSUME NEW i \in DOMAIN sent'[s], IsEnd(sent'[s][i])
        PROVE  /\ s \notin Chat!Registered /\ run[s] \in {"returned", "raised"} /\ OwnIn(queue[s], s) = {}
               /\ \A j \in i + 1 .. Len(sent'[s]) : sent'[s][j].what = "eof"
    <3>1. i \in DOMAIN sent[s] /\ IsEnd(sent[s][i])
      BY <1>2, <2>1, <2>2
    <3>2. /\ s \notin Chat!Registered /\ run[s] \in {"returned", "raised"} /\ OwnIn(queue[s], s) = {}
          /\ \A j \in i + 1 .. Len(sent[s]) : sent[s][j].what = "eof"
      BY <3>1 DEF ChatInv, EndInv
    <3>3. ASSUME NEW j \in i + 1 .. Len(sent'[s]) PROVE sent'[s][j].what = "eof"
      <4>1. CASE j = Len(sent[s]) + 1
        BY <1>2, <2>1, <4>1
      <4>2. CASE j # Len(sent[s]) + 1
        <5>1. j \in i + 1 .. Len(sent[s]) /\ j \in DOMAIN sent[s]
          BY <2>1, <3>1, <4>2
        <5>2. QED
          BY <2>1, <3>2, <5>1
      <4>3. QED
        BY <4>1, <4>2
    <3>4. QED
      BY <3>2, <3>3
  <2>3. QED
    BY <1>1, <1>3, <1>5, <2>2 DEF EndInv
<1>11. \A t \in Streams \ {s} : TellInv(t)' /\ EndInv(t)'
  BY <1>1, <1>3, <1>4, <1>5, OthersStay
<1>12. QED
  BY <1>6, <1>7, <1>8, <1>9, <1>10, <1>11 DEF ChatInv

(* The steps that change who is registered. *)
LEMMA RegisterKeeps == ASSUME ChatInv, NEW s \in Streams, Chat!Register(s) PROVE ChatInv'
<1>1. PICK i \in 1 .. Len(hooks) : hooks' = SubSeq(hooks, 1, i - 1) \o <<s>> \o SubSeq(hooks, i, Len(hooks))
  BY DEF Chat!Register
<1>2. /\ pc[s] = "open" /\ pc' = [pc EXCEPT ![s] = "streaming"] /\ run' = [run EXCEPT ![s] = "going"]
      /\ UNCHANGED <<emission, emitted, queue, sent>>
  BY DEF Chat!Register
<1>3. ListOfHooks(hooks) /\ Len(hooks) \in Nat \ {0} /\ hooks \in Seq(Streams \cup {Filter})
  BY DEF ChatInv, ChatTyped, ListOfHooks
<1>4. run[s] = "none" /\ s \notin Chat!Registered
  BY <1>2 DEF ChatInv, ListenersInv
<1>5. \A k \in 1 .. Len(hooks) - 1 : hooks[k] # s
  BY <1>3, <1>4, RegisteredIsListed DEF Chat!Registered
<1>6. /\ hooks' \in Seq(Streams \cup {Filter}) /\ Len(hooks') = Len(hooks) + 1
      /\ \A k \in 1 .. Len(hooks) + 1 :
            hooks'[k] = IF k < i THEN hooks[k] ELSE IF k = i THEN s ELSE hooks[k - 1]
  <2>1. PutIn(With(hooks, s, i), hooks, i, s)
    BY <1>3, WithMember
  <2>2. hooks' = With(hooks, s, i)
    BY <1>1 DEF With
  <2>3. PutIn(hooks', hooks, i, s)
    BY <2>1, <2>2
  <2>4. QED
    BY <2>3 DEF PutIn
<1>7. /\ ListOfHooks(hooks')
      /\ \A k \in 1 .. Len(hooks) : hooks'[k] = hooks[k] \/ hooks'[k + 1] = hooks[k]
      /\ \A k \in 1 .. Len(hooks') - 1 : hooks'[k] = s \/ \E j \in 1 .. Len(hooks) - 1 : hooks'[k] = hooks[j]
      /\ i \in 1 .. Len(hooks') - 1 /\ hooks'[i] = s
  <2>1. PutIn(hooks', hooks, i, s)
    BY <1>6 DEF PutIn
  <2>2. QED
    BY <1>3, <1>5, <2>1, Coming
<1>8. /\ pc' \in [Streams -> {"closed", "open", "streaming", "concluding", "ended", "gone"}]
      /\ pc'[s] = "streaming" /\ \A t \in Streams \ {s} : pc'[t] = pc[t]
      /\ run' \in [Streams -> {"none", "going", "returned", "raised"}]
      /\ run'[s] = "going" /\ \A t \in Streams \ {s} : run'[t] = run[t]
  BY <1>2 DEF ChatInv, ChatTyped
<1>9. \A t \in Streams : run[t] # "none" => run'[t] # "none"
  BY <1>8
<1>10. \A t \in Streams : t \in Chat!Registered' <=> t = s \/ t \in Chat!Registered
  <2>1. \A t \in Streams : t \in Chat!Registered <=> \E k \in 1 .. Len(hooks) - 1 : hooks[k] = t
    BY <1>3, RegisteredIsListed DEF Chat!Registered
  <2>2. \A t \in Streams : t \in Chat!Registered' <=> \E k \in 1 .. Len(hooks') - 1 : hooks'[k] = t
    BY <1>7, RegisteredIsListed DEF Chat!Registered
  <2>3. \A k \in 1 .. Len(hooks) - 1 : k \in 1 .. Len(hooks') - 1 /\ k + 1 \in 1 .. Len(hooks') - 1
    BY <1>3, <1>6
  <2>4. ASSUME NEW t \in Streams, t \in Chat!Registered PROVE t \in Chat!Registered'
    <3>1. PICK k \in 1 .. Len(hooks) - 1 : hooks[k] = t
      BY <2>1, <2>4
    <3>2. hooks'[k] = t \/ hooks'[k + 1] = t
      BY <1>3, <1>7, <3>1
    <3>3. QED
      BY <2>2, <2>3, <3>2
  <2>5. s \in Chat!Registered'
    BY <1>7, <2>2
  <2>6. ASSUME NEW t \in Streams, t \in Chat!Registered' PROVE t = s \/ t \in Chat!Registered
    BY <1>7, <2>1, <2>2, <2>6
  <2>7. QED
    BY <2>4, <2>5, <2>6
<1>11. ChatTyped'
  BY <1>2, <1>7, <1>8 DEF ChatInv, ChatTyped
<1>12. ListenersInv'
  <2>1. ASSUME NEW t \in Streams
        PROVE  /\ pc'[t] = "streaming" \/ run'[t] = "going" => t \in Chat!Registered'
               /\ pc'[t] \in {"closed", "open"} => run'[t] = "none"
               /\ run'[t] = "none" => t \notin Chat!Registered' /\ queue'[t] = <<>>
               /\ pc'[t] \in {"streaming", "concluding", "ended"} => run'[t] # "none"
               /\ pc'[t] \in {"concluding", "ended"} => t \notin Chat!Registered'
    BY <1>2, <1>8, <1>10 DEF ChatInv, ListenersInv
  <2>2. QED
    BY <2>1 DEF ListenersInv
<1>13. EmissionsInv'
  <2>1. ASSUME NEW c \in Chat!Callers, emission[c].at # 0
        PROVE  /\ ListOfHooks(ListOf(c)') /\ emission[c].at <= Len(ListOf(c)')
               /\ \A k \in 1 .. Len(ListOf(c)') - 1 : run'[ListOf(c)'[k]] # "none"
    <3>1. /\ ListOfHooks(ListOf(c)) /\ emission[c].at <= Len(ListOf(c)) /\ emission[c].at \in Nat
          /\ \A k \in 1 .. Len(ListOf(c)) - 1 : ListOf(c)[k] \in Streams /\ run[ListOf(c)[k]] # "none"
      <4>1. emission[c].at \in Nat /\ ListOfHooks(ListOf(c))
        BY <2>1 DEF ChatInv, ChatTyped, EmissionsInv
      <4>2. \A k \in 1 .. Len(ListOf(c)) - 1 : ListOf(c)[k] \in Streams
        BY <4>1 DEF ListOfHooks
      <4>3. /\ emission[c].at <= Len(ListOf(c))
            /\ \A k \in 1 .. Len(ListOf(c)) - 1 : run[ListOf(c)[k]] # "none"
        BY <2>1 DEF ChatInv, EmissionsInv
      <4>4. QED
        BY <4>1, <4>2, <4>3
    <3>2. CASE emission[c].list = <<>>
      <4>1. ListOf(c) = hooks /\ ListOf(c)' = hooks'
        BY <1>2, <3>2 DEF ListOf
      <4>2. ASSUME NEW k \in 1 .. Len(hooks') - 1 PROVE run'[hooks'[k]] # "none"
        BY <1>7, <1>8, <1>9, <3>1, <4>1
      <4>3. QED
        BY <1>3, <1>6, <1>7, <3>1, <4>1, <4>2
    <3>3. CASE emission[c].list # <<>>
      <4>1. ListOf(c)' = ListOf(c)
        BY <1>2, <3>3 DEF ListOf
      <4>2. QED
        BY <1>9, <3>1, <4>1
    <3>4. QED
      BY <3>2, <3>3
  <2>2. ASSUME NEW c \in Streams, run[c] = "going" PROVE run'[c] = "going"
    BY <1>8, <2>2
  <2>3. QED
    BY <1>2, <2>1, <2>2 DEF ChatInv, EmissionsInv
<1>14. ASSUME NEW t \in Streams PROVE TellInv(t)' /\ EndInv(t)'
  <2>1. TellInv(t)'
    BY <1>2, <1>9, StayingSilent DEF ChatInv
  <2>2. EndInv(t)'
    <3>1. /\ run'[t] = run[t] \/ run[t] \in {"none", "going"}
          /\ pc'[t] = pc[t] \/ pc[t] \notin {"concluding", "ended", "gone"}
          /\ t \in Chat!Registered' => t \in Chat!Registered \/ pc[t] = "open"
      BY <1>2, <1>4, <1>8, <1>10
    <3>2. QED
      BY <1>2, <3>1, EndStays DEF ChatInv
  <2>3. QED
    BY <2>1, <2>2
<1>15. QED
  BY <1>11, <1>12, <1>13, <1>14 DEF ChatInv

LEMMA ConcludeKeeps == ASSUME ChatInv, NEW s \in Streams, Chat!Conclude(s) PROVE ChatInv'
<1> DEFINE m == Chat!Message(IF run[s] = "returned" THEN "done" ELSE "error")
<1>1. /\ pc[s] = "streaming" /\ run[s] # "going" /\ queue[s] = <<>> /\ pc' = [pc EXCEPT ![s] = "concluding"]
      /\ Chat!Yield(s, m) /\ UNCHANGED <<run, emitted, queue>>
  BY DEF Chat!Conclude
<1>2. PICK i \in DOMAIN hooks : /\ hooks[i] = s
                                /\ hooks' = SubSeq(hooks, 1, i - 1) \o SubSeq(hooks, i + 1, Len(hooks))
  BY DEF Chat!Conclude, Chat!Unregister
<1>3. emission' = [c \in Chat!Callers |-> IF emission[c].at # 0 /\ emission[c].list = <<>>
                                     THEN [emission[c] EXCEPT !.list = hooks] ELSE emission[c]]
  BY DEF Chat!Conclude, Chat!Unregister
<1>4. /\ ListOfHooks(hooks) /\ Len(hooks) \in Nat \ {0} /\ hooks \in Seq(Streams \cup {Filter}) /\ hooks # <<>>
      /\ DOMAIN hooks = 1 .. Len(hooks) /\ hooks[Len(hooks)] = Filter
  BY DEF ChatInv, ChatTyped, ListOfHooks
<1>5. i \in 1 .. Len(hooks) - 1
  BY <1>2, <1>4, StreamsAssumption
<1>6. run[s] \in {"returned", "raised"}
  BY <1>1 DEF ChatInv, ListenersInv, ChatTyped
<1>7. PICK what \in {"done", "error"} : m = Chat!Message(what)
  BY <1>6
<1>8. m \in Messages /\ m.what = what
  BY <1>7, MessageTypes
<1> HIDE DEF m
<1>9. /\ hooks' \in Seq(Streams \cup {Filter}) /\ Len(hooks') = Len(hooks) - 1
      /\ \A k \in 1 .. Len(hooks) - 1 : hooks'[k] = IF k < i THEN hooks[k] ELSE hooks[k + 1]
  <2> DEFINE T == Streams \cup {Filter}
  <2>1. hooks \in Seq(T) /\ i \in 1 .. Len(hooks)
    BY <1>4, <1>5
  <2> HIDE DEF T
  <2>2. /\ hooks' \in Seq(T) /\ Len(hooks') = Len(hooks) - 1
        /\ \A k \in 1 .. Len(hooks) - 1 : hooks'[k] = IF k < i THEN hooks[k] ELSE hooks[k + 1]
    BY <1>2, <2>1, WithoutMember
  <2>3. QED
    BY <2>2 DEF T
<1>10. /\ ListOfHooks(hooks')
       /\ \A k \in 1 .. Len(hooks') - 1 :
             hooks'[k] # hooks[i] /\ \E j \in 1 .. Len(hooks) - 1 : hooks'[k] = hooks[j]
       /\ \A j \in 1 .. Len(hooks) - 1 : j # i => \E k \in 1 .. Len(hooks') - 1 : hooks'[k] = hooks[j]
  BY <1>4, <1>5, <1>9, Leaving
<1>11. \A t \in Streams : t \in Chat!Registered' <=> t # s /\ t \in Chat!Registered
  <2>1. \A t \in Streams : t \in Chat!Registered <=> \E k \in 1 .. Len(hooks) - 1 : hooks[k] = t
    BY <1>4, RegisteredIsListed DEF Chat!Registered
  <2>2. \A t \in Streams : t \in Chat!Registered' <=> \E k \in 1 .. Len(hooks') - 1 : hooks'[k] = t
    BY <1>10, RegisteredIsListed DEF Chat!Registered
  <2>3. \A t \in Streams : t # s /\ t \in Chat!Registered => t \in Chat!Registered'
    BY <1>2, <1>10, <2>1, <2>2
  <2>4. ASSUME NEW t \in Streams, t \in Chat!Registered' PROVE t # s /\ t \in Chat!Registered
    <3>1. PICK k \in 1 .. Len(hooks') - 1 : hooks'[k] = t
      BY <2>2, <2>4
    <3>2. hooks'[k] # s
      BY <1>2, <1>10, <3>1
    <3>3. PICK j \in 1 .. Len(hooks) - 1 : hooks'[k] = hooks[j]
      BY <1>10, <3>1
    <3>4. QED
      BY <2>1, <3>1, <3>2, <3>3
  <2>5. QED
    BY <2>3, <2>4
<1>12. /\ pc' \in [Streams -> {"closed", "open", "streaming", "concluding", "ended", "gone"}]
       /\ pc'[s] = "concluding" /\ \A t \in Streams \ {s} : pc'[t] = pc[t]
  BY <1>1 DEF ChatInv, ChatTyped
<1>13. /\ sent' \in [Streams -> Seq(Messages)] /\ sent'[s] = Append(sent[s], m)
       /\ \A t \in Streams \ {s} : sent'[t] = sent[t]
  BY <1>1, <1>8, Yielding DEF ChatInv
<1>14. \A c \in Chat!Callers : /\ emission'[c] \in [at : Nat, list : Seq(Streams \cup {Filter})]
                               /\ emission'[c].at = emission[c].at
                               /\ emission[c].at = 0 => emission'[c] = emission[c]
                               /\ emission[c].at # 0 => ListOf(c)' = ListOf(c)
  <2>1. ASSUME NEW c \in Chat!Callers
        PROVE  emission[c] \in [at : Nat, list : Seq(Streams \cup {Filter})]
    BY DEF ChatInv, ChatTyped
  <2>2. ASSUME NEW c \in Chat!Callers, emission[c].at # 0, emission[c].list = <<>>
        PROVE  emission'[c] = [emission[c] EXCEPT !.list = hooks]
    BY <1>3, <2>2
  <2>3. ASSUME NEW c \in Chat!Callers, ~(emission[c].at # 0 /\ emission[c].list = <<>>)
        PROVE  emission'[c] = emission[c]
    BY <1>3, <2>3
  <2>4. ASSUME NEW c \in Chat!Callers
        PROVE  /\ emission'[c] \in [at : Nat, list : Seq(Streams \cup {Filter})]
               /\ emission'[c].at = emission[c].at
               /\ emission[c].at = 0 => emission'[c] = emission[c]
               /\ emission[c].at # 0 => ListOf(c)' = ListOf(c)
    <3>1. CASE emission[c].at # 0 /\ emission[c].list = <<>>
      <4>1. /\ emission'[c] \in [at : Nat, list : Seq(Streams \cup {Filter})]
            /\ emission'[c].at = emission[c].at /\ emission'[c].list = hooks
        BY <1>4, <2>1, <2>2, <3>1
      <4>2. ListOf(c)' = hooks /\ ListOf(c) = hooks
        BY <1>4, <3>1, <4>1 DEF ListOf
      <4>3. QED
        BY <3>1, <4>1, <4>2
    <3>2. CASE ~(emission[c].at # 0 /\ emission[c].list = <<>>)
      <4>1. emission'[c] = emission[c]
        BY <2>3, <3>2
      <4>2. emission[c].at # 0 => emission[c].list # <<>>
        BY <3>2
      <4>3. emission[c].at # 0 => ListOf(c)' = ListOf(c)
        BY <4>1, <4>2 DEF ListOf
      <4>4. QED
        BY <2>1, <4>1, <4>3
    <3>3. QED
      BY <3>1, <3>2
  <2>5. QED
    BY <2>4
<1>15. ChatTyped'
  <2> DEFINE Place == [at : Nat, list : Seq(Streams \cup {Filter})]
  <2>1. \A c \in Chat!Callers : emission'[c] \in Place
    BY <1>14
  <2> HIDE DEF Place
  <2>2. emission' \in [Chat!Callers -> Place]
    BY <1>3, <2>1
  <2>3. emission' \in [Chat!Callers -> [at : Nat, list : Seq(Streams \cup {Filter})]]
    BY <2>2 DEF Place
  <2>4. QED
    BY <1>1, <1>10, <1>12, <1>13, <2>3 DEF ChatInv, ChatTyped
<1>16. ListenersInv'
  BY <1>1, <1>6, <1>11, <1>12 DEF ChatInv, ListenersInv
<1>17. EmissionsInv'
  BY <1>1, <1>14 DEF ChatInv, EmissionsInv
<1>18. TellInv(s)'
  <2>1. what \in {"start", "done", "error", "eof"}
    BY <1>7
  <2>2. QED
    BY <1>1, <1>7, <1>13, <2>1, Saying DEF ChatInv
<1>19. EndInv(s)'
  <2>1. /\ sent[s] \in Seq(Messages) /\ Len(sent[s]) \in Nat
        /\ DOMAIN sent'[s] = DOMAIN sent[s] \cup {Len(sent[s]) + 1} /\ Len(sent'[s]) = Len(sent[s]) + 1
        /\ \A j \in DOMAIN sent[s] : sent'[s][j] = sent[s][j]
    BY <1>8, <1>13, AddedAtEnd DEF ChatInv, ChatTyped
  <2>2. \A j \in DOMAIN sent[s] : ~IsEnd(sent[s][j])
    BY <1>1 DEF ChatInv, EndInv
  <2>3. \A j \in DOMAIN sent'[s] : IsEnd(sent'[s][j]) => j = Len(sent'[s])
    BY <2>1, <2>2
  <2>4. OwnIn(queue'[s], s) = {}
    BY <1>1 DEF OwnIn
  <2>5. \A j \in DOMAIN sent'[s] : IsEnd(sent'[s][j]) => j + 1 .. Len(sent'[s]) = {}
    BY <2>1, <2>3
  <2>6. pc'[s] = "concluding" /\ s \notin Chat!Registered' /\ run'[s] \in {"returned", "raised"}
    BY <1>1, <1>6, <1>11, <1>12
  <2>7. QED
    BY <2>4, <2>5, <2>6 DEF EndInv
<1>20. \A t \in Streams \ {s} : TellInv(t)' /\ EndInv(t)'
  BY <1>1, <1>11, <1>12, <1>13, OthersStay
<1>21. QED
  BY <1>15, <1>16, <1>17, <1>18, <1>19, <1>20 DEF ChatInv

-----------------------------------------------------------------------------
(* The invariant, and what it says of a stream.                            *)

LEMMA InitChat == ASSUME Chat!Init PROVE ChatInv
<1>1. /\ hooks = <<Filter>> /\ Len(hooks) = 1 /\ hooks[1] = Filter /\ hooks \in Seq(Streams \cup {Filter})
  BY DEF Chat!Init
<1>2. ListOfHooks(hooks) /\ Chat!Registered = {}
  BY <1>1 DEF ListOfHooks, Chat!Registered
<1>3. Chat!NoEmission \in [at : Nat, list : Seq(Streams \cup {Filter})] /\ Chat!NoEmission.at = 0
  BY DEF Chat!NoEmission
<1>4. ChatTyped
  BY <1>2, <1>3 DEF Chat!Init, ChatTyped
<1>5. ListenersInv
  BY <1>2 DEF Chat!Init, ListenersInv
<1>6. EmissionsInv
  BY <1>3 DEF Chat!Init, EmissionsInv
<1>7. ASSUME NEW s \in Streams PROVE TellInv(s) /\ EndInv(s)
  <2>1. sent[s] = <<>> /\ queue[s] = <<>> /\ emitted[s] = 0
    BY DEF Chat!Init, Chat!Callers
  <2>2. /\ OwnIn(sent[s], s) = {} /\ OwnIn(queue[s], s) = {} /\ DOMAIN sent[s] = {} /\ DOMAIN queue[s] = {}
    BY <2>1 DEF OwnIn
  <2>3. Numbers(sent[s], s) \cup Numbers(queue[s], s) = 1 .. emitted[s]
    BY <2>1, <2>2 DEF Numbers
  <2>4. QED
    BY <2>2, <2>3 DEF TellInv, EndInv, Sorted
<1>8. QED
  BY <1>4, <1>5, <1>6, <1>7 DEF ChatInv

LEMMA NextChat == ASSUME ChatInv, [Chat!Next]_(Chat!vars) PROVE ChatInv'
<1>1. CASE UNCHANGED Chat!vars
  BY <1>1 DEF Chat!vars, ChatInv, ChatTyped, ListenersInv, EmissionsInv, TellInv, EndInv, ListOf,
     Chat!Registered, Sorted, InOrder, TwoOthers
<1>2. ASSUME NEW c \in Chat!Callers, Chat!Emit(c) \/ Chat!EmitPreToolUse(c) \/ Chat!GoOn(c) PROVE ChatInv'
  BY <1>2, EmitKeeps, EmitPreToolUseKeeps, GoOnKeeps
<1>3. ASSUME NEW s \in Streams,
             Chat!EndRun(s) \/ Chat!Open(s) \/ Chat!Register(s) \/ Chat!Send(s)
             \/ Chat!Conclude(s) \/ Chat!SendEof(s) \/ Chat!Disconnect(s)
      PROVE  ChatInv'
  BY <1>3, EndRunKeeps, OpenKeeps, RegisterKeeps, SendKeeps, ConcludeKeeps, SendEofKeeps, DisconnectKeeps
<1>4. QED
  BY <1>1, <1>2, <1>3 DEF Chat!Next

(* What a stream has sent and what waits for it, one after the other. *)
LEMMA Told ==
    ASSUME ChatTyped, NEW s \in Streams
    PROVE  LET told == sent[s] \o queue[s]
               n    == Len(sent[s])
           IN  /\ n \in Nat /\ DOMAIN sent[s] = 1 .. n /\ DOMAIN queue[s] = 1 .. Len(queue[s])
               /\ \A i \in DOMAIN told : \/ i \in DOMAIN sent[s] /\ told[i] = sent[s][i]
                                         \/ i - n \in DOMAIN queue[s] /\ i > n /\ told[i] = queue[s][i - n]
               /\ \A i \in DOMAIN sent[s] : i \in DOMAIN told /\ told[i] = sent[s][i]
               /\ \A i \in DOMAIN queue[s] : i + n \in DOMAIN told /\ told[i + n] = queue[s][i]
               /\ DOMAIN told \subseteq Nat
<1> DEFINE a == sent[s]
           b == queue[s]
<1>1. a \in Seq(Messages) /\ b \in Seq(Messages)
  BY DEF ChatTyped
<1> HIDE DEF a, b
<1> DEFINE told == a \o b
           n == Len(a)
<1>2. /\ told \in Seq(Messages) /\ Len(told) = Len(a) + Len(b) /\ n \in Nat /\ Len(b) \in Nat
      /\ \A i \in 1 .. Len(a) + Len(b) : told[i] = IF i <= Len(a) THEN a[i] ELSE b[i - Len(a)]
  BY <1>1, ConcatProperties
<1> HIDE DEF told
<1>3. DOMAIN a = 1 .. n /\ DOMAIN b = 1 .. Len(b) /\ DOMAIN told = 1 .. n + Len(b)
  BY <1>1, <1>2
<1> HIDE DEF n
<1>4. /\ n \in Nat /\ Len(b) \in Nat
      /\ \A i \in 1 .. n + Len(b) : told[i] = IF i <= n THEN a[i] ELSE b[i - n]
  BY <1>2 DEF n
<1>5. \A i \in DOMAIN told : \/ i \in DOMAIN a /\ told[i] = a[i]
                             \/ i - n \in DOMAIN b /\ i > n /\ told[i] = b[i - n]
  BY <1>3, <1>4
<1>6. \A i \in DOMAIN a : i \in DOMAIN told /\ told[i] = a[i]
  BY <1>3, <1>4
<1>7. ASSUME NEW i \in DOMAIN b PROVE i + n \in DOMAIN told /\ told[i + n] = b[i]
  <2>1. i + n \in 1 .. n + Len(b) /\ ~(i + n <= n) /\ (i + n) - n = i
    BY <1>3, <1>4
  <2>2. QED
    BY <1>3, <1>4, <2>1
<1>8. DOMAIN told \subseteq Nat
  BY <1>3, <1>4
<1>9. QED
  BY <1>3, <1>4, <1>5, <1>6, <1>7, <1>8 DEF a, b, told, n

LEMMA ChatTells == ASSUME ChatInv PROVE Chat!StreamsTellAll
<1> SUFFICES ASSUME NEW s \in Streams
             PROVE  LET told == sent[s] \o queue[s]
                        Own  == {i \in DOMAIN told : told[i].what = "event" /\ told[i].of = s}
                        Ends == {i \in DOMAIN sent[s] : sent[s][i].what \in {"done", "error"}}
                    IN  /\ {told[i].n : i \in Own} = 1 .. emitted[s]
                        /\ \A i, j \in Own : i < j =>
                              \/ told[i].n < told[j].n
                              \/ told[i].n = told[j].n
                                 /\ \E t, u \in Streams \ {s} : t # u /\ run[t] # "none" /\ run[u] # "none"
                        /\ \A i \in DOMAIN told : told[i].what = "event" => Chat!Hears(s, told[i].of)
                        /\ \A i \in Ends : /\ \A j \in DOMAIN queue[s] : queue[s][j].of # s
                                           /\ \A j \in i + 1 .. Len(sent[s]) : sent[s][j].what = "eof"
                                           /\ s \notin Chat!Registered
  BY DEF Chat!StreamsTellAll
<1> DEFINE told == sent[s] \o queue[s]
           n    == Len(sent[s])
           Own  == {i \in DOMAIN told : told[i].what = "event" /\ told[i].of = s}
           Ends == {i \in DOMAIN sent[s] : sent[s][i].what \in {"done", "error"}}
<1>1. TellInv(s) /\ EndInv(s) /\ ChatTyped
  BY DEF ChatInv
<1>2. /\ n \in Nat /\ DOMAIN sent[s] = 1 .. n /\ DOMAIN queue[s] = 1 .. Len(queue[s])
      /\ \A i \in DOMAIN told : \/ i \in DOMAIN sent[s] /\ told[i] = sent[s][i]
                                \/ i - n \in DOMAIN queue[s] /\ i > n /\ told[i] = queue[s][i - n]
      /\ \A i \in DOMAIN sent[s] : i \in DOMAIN told /\ told[i] = sent[s][i]
      /\ \A i \in DOMAIN queue[s] : i + n \in DOMAIN told /\ told[i + n] = queue[s][i]
      /\ DOMAIN told \subseteq Nat
  BY <1>1, Told
<1> HIDE DEF told, n
<1>3. \A i \in Own : \/ i \in OwnIn(sent[s], s) /\ i <= n /\ told[i] = sent[s][i]
                     \/ i - n \in OwnIn(queue[s], s) /\ i > n /\ told[i] = queue[s][i - n]
  BY <1>2 DEF OwnIn
<1>4. \A i \in OwnIn(sent[s], s) : i \in Own /\ told[i] = sent[s][i]
  BY <1>2 DEF OwnIn
<1>5. \A i \in OwnIn(queue[s], s) : i + n \in Own /\ told[i + n] = queue[s][i]
  BY <1>2 DEF OwnIn
<1>6. Own \subseteq Nat /\ OwnIn(queue[s], s) \subseteq Int /\ OwnIn(sent[s], s) \subseteq Int
  BY <1>2 DEF OwnIn
<1> HIDE DEF Own
<1>7. {told[i].n : i \in Own} = 1 .. emitted[s]
  <2>1. ASSUME NEW k \in {told[i].n : i \in Own} PROVE k \in Numbers(sent[s], s) \cup Numbers(queue[s], s)
    <3>1. PICK i \in Own : k = told[i].n
      BY <2>1
    <3>2. QED
      BY <1>3, <3>1 DEF Numbers
  <2>2. ASSUME NEW k \in Numbers(sent[s], s) PROVE k \in {told[i].n : i \in Own}
    <3>1. PICK i \in OwnIn(sent[s], s) : k = sent[s][i].n
      BY <2>2 DEF Numbers
    <3>2. QED
      BY <1>4, <3>1
  <2>3. ASSUME NEW k \in Numbers(queue[s], s) PROVE k \in {told[i].n : i \in Own}
    <3>1. PICK i \in OwnIn(queue[s], s) : k = queue[s][i].n
      BY <2>3 DEF Numbers
    <3>2. i + n \in Own /\ k = told[i + n].n
      BY <1>5, <3>1
    <3>3. QED
      BY <3>2
  <2>4. {told[i].n : i \in Own} = Numbers(sent[s], s) \cup Numbers(queue[s], s)
    BY <2>1, <2>2, <2>3
  <2>5. QED
    BY <1>1, <2>4 DEF TellInv
<1>8. ASSUME NEW i \in Own, NEW j \in Own, i < j PROVE InOrder(s, told[i].n, told[j].n)
  <2>1. CASE i \in OwnIn(sent[s], s) /\ told[i] = sent[s][i] /\ j \in OwnIn(sent[s], s) /\ told[j] = sent[s][j]
    BY <1>1, <1>8, <2>1 DEF TellInv, Sorted
  <2>2. CASE /\ i \in OwnIn(sent[s], s) /\ told[i] = sent[s][i]
             /\ j - n \in OwnIn(queue[s], s) /\ told[j] = queue[s][j - n]
    BY <1>1, <2>2 DEF TellInv
  <2>3. CASE /\ i - n \in OwnIn(queue[s], s) /\ told[i] = queue[s][i - n]
             /\ j - n \in OwnIn(queue[s], s) /\ told[j] = queue[s][j - n]
    <3>1. i - n < j - n
      BY <1>2, <1>6, <1>8
    <3>2. QED
      BY <1>1, <2>3, <3>1 DEF TellInv, Sorted
  <2>4. ~(i > n /\ j <= n)
    BY <1>2, <1>6, <1>8
  <2>5. QED
    BY <1>3, <2>1, <2>2, <2>3, <2>4
<1>9. \A i, j \in Own : i < j =>
         \/ told[i].n < told[j].n
         \/ told[i].n = told[j].n
            /\ \E t, u \in Streams \ {s} : t # u /\ run[t] # "none" /\ run[u] # "none"
  BY <1>8 DEF InOrder, TwoOthers
<1>10. \A i \in DOMAIN told : told[i].what = "event" => Chat!Hears(s, told[i].of)
  BY <1>1, <1>2 DEF TellInv
<1>11. \A i \in Ends : /\ \A j \in DOMAIN queue[s] : queue[s][j].of # s
                       /\ \A j \in i + 1 .. Len(sent[s]) : sent[s][j].what = "eof"
                       /\ s \notin Chat!Registered
  <2>1. ASSUME NEW i \in Ends
        PROVE  /\ OwnIn(queue[s], s) = {} /\ s \notin Chat!Registered
               /\ \A j \in i + 1 .. Len(sent[s]) : sent[s][j].what = "eof"
    BY <1>1, <2>1 DEF EndInv, IsEnd
  <2>2. \A j \in DOMAIN queue[s] : queue[s][j].what = "event"
    BY <1>1 DEF TellInv
  <2>3. OwnIn(queue[s], s) = {} => \A j \in DOMAIN queue[s] : queue[s][j].of # s
    BY <2>2 DEF OwnIn
  <2>4. QED
    BY <2>1, <2>3
<1>12. QED
  BY <1>7, <1>9, <1>10, <1>11 DEF told, Own

(* Every stream tells its client what it promises: all events of its run,  *)
(* in order, once unless two other streams have come, nothing of another   *)
(* run, and the end last.                                                  *)
THEOREM ClientsHearAll == Chat!Spec => []StreamsTellAll
<1>1. Chat!Init => ChatInv
  BY InitChat
<1>2. ChatInv /\ [Chat!Next]_(Chat!vars) => ChatInv'
  BY NextChat
<1>3. ChatInv => StreamsTellAll
  BY ChatTells DEF StreamsTellAll
<1>4. QED
  BY <1>1, <1>2, <1>3, PTL DEF Chat!Spec
=============================================================================
