---------------------------- MODULE FramingProofs ----------------------------
(***************************************************************************)
(* The loops that take messages out of the buffers, for any parser of a    *)
(* single message that keeps to the items that can be sent (KeepsToItems), *)
(* any number of items and any cut into reads; and that the parsers of     *)
(* strings and lines do so, for strings of any content.                    *)
(***************************************************************************)
EXTENDS Framing, TLAPS

Meanings == {e.value : e \in Requests \cup Replies}

\* The number of items that have been taken out of the buffer.
Taken == Len(messages) + Len(batch)

TypeOK ==
    /\ reader \in {"server", "client"}
    /\ sent \in Seq(Items(reader))
    /\ stream \in Seq(Byte)
    /\ starts \in Seq(Nat)
    /\ pos \in 0 .. Len(stream)
    /\ buffer \in Seq(Byte)
    /\ parsing \in BOOLEAN
    /\ batch \in Seq(Meanings)
    /\ messages \in Seq(Meanings)
    /\ failed \in {"no", "protocol", "unicode", "overflow"}

\* Bytes w lie in s after the first a; b is all of s between a and p.
LiesAt(w, s, a) ==
    /\ w \in Seq(Byte)
    /\ \A j \in 1 .. Len(w) : s[a + j] = w[j]

IsWindow(b, s, a, p) ==
    /\ s \in Seq(Byte) /\ a \in Nat /\ p \in Nat /\ a <= p /\ p <= Len(s)
    /\ b \in Seq(Byte) /\ Len(b) = p - a
    /\ \A j \in 1 .. Len(b) : b[j] = s[a + j]

\* Where the items lie in the stream.
Layout ==
    /\ Len(starts) = Len(sent) + 1
    /\ starts[1] = 0
    /\ starts[Len(sent) + 1] = Len(stream)
    /\ \A i \in DOMAIN sent :
          /\ starts[i + 1] = starts[i] + Len(sent[i].bytes)
          /\ LiesAt(sent[i].bytes, stream, starts[i])
    /\ \A i, j \in DOMAIN starts : i < j => starts[i] < starts[j]

\* What has been taken are the first items.
TakenInOrder ==
    /\ Taken <= Len(sent)
    /\ \A i \in 1 .. Taken : sent[i].value # Malformed
    /\ \A i \in DOMAIN messages : messages[i] = sent[i].value
    /\ \A i \in DOMAIN batch : batch[i] = sent[Len(messages) + i].value

\* The buffer begins with the next item, and has all that has been read.
BufferIsNext == failed = "no" => IsWindow(buffer, stream, starts[Taken + 1], pos)

\* When the loop has ended the next item is not complete; while it runs there
\* is less than one read behind the next item.
Remainder ==
    failed = "no" /\ Taken < Len(sent) =>
        pos < starts[Taken + 2] + IF parsing THEN ReadSize ELSE 0

Batched ==
    /\ batch # <<>> => parsing /\ reader = "server"
    /\ parsing => failed = "no"

FInv ==
    /\ TypeOK
    /\ Layout
    /\ TakenInOrder
    /\ BufferIsNext
    /\ Remainder
    /\ Batched
    /\ FailsOnlyForCause
-----------------------------------------------------------------------------
(* What the parser sees *)

LEMMA ItemTypes ==
    ASSUME NEW r, NEW e \in Items(r)
    PROVE  e.bytes \in Seq(Byte) /\ Len(e.bytes) \in Nat \ {0} /\ e.value \in Meanings
<1>1. e \in Requests \cup Replies
  BY DEF Items
<1>2. e.bytes \in Seq(Byte) /\ e.bytes # <<>>
  BY <1>1, ItemAssumption
<1>3. Len(e.bytes) \in Nat \ {0}
  BY <1>2
<1> QED BY <1>1, <1>2, <1>3 DEF Meanings

\* A part of the stream as a sequence of its own.
LEMMA Parts ==
    ASSUME NEW s \in Seq(Byte), NEW a \in Nat, NEW b \in Nat, a <= b, b <= Len(s)
    PROVE  /\ SubSeq(s, a + 1, b) \in Seq(Byte)
           /\ Len(SubSeq(s, a + 1, b)) = b - a
           /\ \A j \in 1 .. b - a : SubSeq(s, a + 1, b)[j] = s[a + j]
<1>1. SubSeq(s, a + 1, b) = [i \in 1 .. b - a |-> s[i + (a + 1) - 1]]
  BY DEF SubSeq
<1>2. \A i \in 1 .. b - a : s[i + (a + 1) - 1] = s[a + i] /\ s[a + i] \in Byte
  OBVIOUS
<1> QED BY <1>1, <1>2
LEMMA Joined ==
    ASSUME NEW S, NEW v \in Seq(S), NEW u \in Seq(S)
    PROVE  /\ v \o u \in Seq(S)
           /\ Len(v \o u) = Len(v) + Len(u)
           /\ \A j \in 1 .. Len(v) : (v \o u)[j] = v[j]
           /\ \A j \in 1 .. Len(u) : (v \o u)[Len(v) + j] = u[j]
OBVIOUS

LEMMA Element ==
    ASSUME NEW S, NEW q \in Seq(S), NEW i \in DOMAIN q
    PROVE  q[i] \in S
OBVIOUS

LEMMA SameSeq ==
    ASSUME NEW S, NEW v \in Seq(S), NEW u \in Seq(S), Len(v) = Len(u),
           \A j \in 1 .. Len(v) : v[j] = u[j]
    PROVE  v = u
OBVIOUS
\* A window that begins where w lies is a part of w, or w and what lies behind
\* it.
LEMMA WindowInside ==
    ASSUME NEW s, NEW a, NEW p, NEW b, NEW w,
           IsWindow(b, s, a, p), LiesAt(w, s, a), p < a + Len(w)
    PROVE  b = SubSeq(w, 1, p - a) /\ p - a \in 0 .. Len(w) - 1 /\ Len(b) = p - a
<1> DEFINE n == p - a
<1>1. n \in Nat /\ n <= Len(w) /\ n < Len(w) /\ n = Len(b) /\ w \in Seq(Byte) /\ b \in Seq(Byte)
  BY DEF IsWindow, LiesAt
<1>2. \A j \in 1 .. n : b[j] = w[j]
  BY <1>1 DEF IsWindow, LiesAt
<1> HIDE DEF n
<1>3. /\ SubSeq(w, 0 + 1, n) \in Seq(Byte)
      /\ Len(SubSeq(w, 0 + 1, n)) = n - 0
      /\ \A j \in 1 .. n - 0 : SubSeq(w, 0 + 1, n)[j] = w[0 + j]
  BY <1>1, Parts
<1>4. /\ SubSeq(w, 1, n) \in Seq(Byte) /\ Len(SubSeq(w, 1, n)) = n
      /\ \A j \in 1 .. n : SubSeq(w, 1, n)[j] = w[j]
  BY <1>1, <1>3
<1>5. b = SubSeq(w, 1, n)
  BY <1>1, <1>2, <1>4
<1>6. n \in 0 .. Len(w) - 1
  BY <1>1
<1> QED BY <1>1, <1>5, <1>6 DEF n

LEMMA WindowBeyond ==
    ASSUME NEW s, NEW a, NEW p, NEW b, NEW w,
           IsWindow(b, s, a, p), LiesAt(w, s, a), a + Len(w) <= p
    PROVE  LET t == SubSeq(b, Len(w) + 1, Len(b))
           IN  b = w \o t /\ IsWindow(t, s, a + Len(w), p)
<1> DEFINE m == a + Len(w)
           t == SubSeq(b, Len(w) + 1, Len(b))
<1>1. /\ m \in Nat /\ m <= p /\ Len(w) \in Nat /\ Len(w) <= Len(b) /\ m = a + Len(w)
      /\ Len(b) = p - a /\ Len(b) \in Nat /\ a \in Nat /\ p \in Nat
      /\ w \in Seq(Byte) /\ b \in Seq(Byte) /\ s \in Seq(Byte) /\ p <= Len(s)
  BY DEF IsWindow, LiesAt
<1>2. \A j \in 1 .. Len(b) : b[j] = s[a + j]
  BY DEF IsWindow
<1>3. \A j \in 1 .. Len(w) : w[j] = s[a + j]
  BY DEF LiesAt
<1>4. /\ t \in Seq(Byte)
      /\ Len(t) = Len(b) - Len(w)
      /\ \A j \in 1 .. Len(b) - Len(w) : t[j] = b[Len(w) + j]
  BY <1>1, Parts
<1> HIDE DEF t, m
<1>5. /\ w \o t \in Seq(Byte) /\ Len(w \o t) = Len(w) + Len(t)
      /\ \A j \in 1 .. Len(w) : (w \o t)[j] = w[j]
      /\ \A j \in 1 .. Len(t) : (w \o t)[Len(w) + j] = t[j]
  BY <1>1, <1>4, Joined
<1>6. ASSUME NEW j \in 1 .. Len(b) PROVE b[j] = (w \o t)[j]
  <2>1. CASE j <= Len(w)
    BY <2>1, <1>1, <1>2, <1>3, <1>5
  <2>2. CASE j > Len(w)
    <3> DEFINE i == j - Len(w)
    <3>1. i \in 1 .. Len(t) /\ Len(w) + i = j
      BY <2>2, <1>1, <1>4
    <3> HIDE DEF i
    <3>2. t[i] = b[j]
      BY <3>1, <1>4
    <3>3. (w \o t)[j] = t[i]
      BY <3>1, <1>5
    <3> QED BY <3>2, <3>3
  <2>3. j <= Len(w) \/ j > Len(w)
    BY <1>1
  <2> QED BY <2>1, <2>2, <2>3, Zenon
<1>7. b = w \o t
  <2>1. Len(b) = Len(w \o t)
    BY <1>1, <1>4, <1>5
  <2> QED BY <2>1, <1>1, <1>5, <1>6, SameSeq
<1>8. IsWindow(t, s, m, p)
  <2>1. Len(t) = p - m
    BY <1>1, <1>4
  <2>2. ASSUME NEW j \in 1 .. Len(t) PROVE t[j] = s[m + j]
    <3>1. Len(w) + j \in 1 .. Len(b) /\ a + (Len(w) + j) = m + j
      BY <1>1, <1>4
    <3>2. t[j] = b[Len(w) + j]
      BY <1>4
    <3> QED BY <3>1, <3>2, <1>2
  <2> QED BY <2>1, <2>2, <1>1, <1>4 DEF IsWindow
<1> QED BY <1>7, <1>8 DEF t, m

\* What FInv says of the item that comes next.
LEMMA NextItem ==
    ASSUME FInv, failed = "no", Taken < Len(sent),
           NEW k, k = Taken + 1, NEW e, e = sent[k]
    PROVE  /\ k \in Nat /\ k \in DOMAIN sent /\ k \in DOMAIN starts /\ k + 1 \in DOMAIN starts
           /\ e \in Items(reader) /\ e.bytes \in Seq(Byte) /\ Len(e.bytes) \in Nat \ {0}
           /\ e.value \in Meanings
           /\ starts[k] \in Nat /\ starts[k + 1] = starts[k] + Len(e.bytes)
           /\ LiesAt(e.bytes, stream, starts[k])
           /\ IsWindow(buffer, stream, starts[k], pos)
           /\ pos \in Nat /\ pos < starts[k + 1] + IF parsing THEN ReadSize ELSE 0
<1>1. /\ Taken \in Nat /\ sent \in Seq(Items(reader))
      /\ starts \in Seq(Nat) /\ Len(starts) = Len(sent) + 1
      /\ Len(sent) \in Nat /\ DOMAIN sent = 1 .. Len(sent) /\ DOMAIN starts = 1 .. Len(starts)
  <2>1. sent \in Seq(Items(reader)) /\ starts \in Seq(Nat) /\ Len(starts) = Len(sent) + 1
    BY DEF FInv, TypeOK, Layout
  <2>2. messages \in Seq(Meanings) /\ batch \in Seq(Meanings)
    BY DEF FInv, TypeOK
  <2>3. Taken \in Nat
    BY <2>2 DEF Taken
  <2>4. Len(sent) \in Nat /\ DOMAIN sent = 1 .. Len(sent)
    BY <2>1
  <2>5. DOMAIN starts = 1 .. Len(starts)
    BY <2>1
  <2> QED BY <2>1, <2>3, <2>4, <2>5
<1>2. k \in Nat /\ k \in DOMAIN sent /\ k \in DOMAIN starts /\ k + 1 \in DOMAIN starts
      /\ Taken + 2 = k + 1
  BY <1>1
<1>3. e \in Items(reader) /\ starts[k] \in Nat
  <2>1. sent[k] \in Items(reader)
    BY <1>1, <1>2
  <2>2. starts[k] \in Nat
    BY <1>1, <1>2
  <2> QED BY <2>1, <2>2
<1>4. e.bytes \in Seq(Byte) /\ Len(e.bytes) \in Nat \ {0} /\ e.value \in Meanings
  BY <1>3, ItemTypes
<1>5. /\ starts[k + 1] = starts[k] + Len(e.bytes)
      /\ LiesAt(e.bytes, stream, starts[k])
  BY <1>2 DEF FInv, Layout
<1>6. IsWindow(buffer, stream, starts[k], pos) /\ pos \in Nat
  BY DEF FInv, BufferIsNext, TypeOK
<1>7. pos < starts[k + 1] + IF parsing THEN ReadSize ELSE 0
  BY <1>2 DEF FInv, Remainder
<1> QED BY <1>2, <1>3, <1>4, <1>5, <1>6, <1>7

LEMMA NothingNext ==
    ASSUME FInv, failed = "no", Taken = Len(sent)
    PROVE  buffer = <<>> /\ starts[Taken + 1] = pos
<1>1. starts[Taken + 1] = Len(stream) /\ IsWindow(buffer, stream, starts[Taken + 1], pos)
  BY DEF FInv, Layout, BufferIsNext
<1>2. starts[Taken + 1] = pos /\ Len(buffer) = 0 /\ buffer \in Seq(Byte)
  BY <1>1 DEF IsWindow
<1> QED BY <1>2

\* What the parser returns for the buffer, in terms of the stream.
LEMMA SeesPart ==
    ASSUME FInv, failed = "no", KeepsToItems(reader), Taken < Len(sent),
           NEW k, k = Taken + 1, NEW e, e = sent[k],
           pos < starts[k + 1]
    PROVE  \/ Parse(reader, buffer) = More
           \/ /\ Parse(reader, buffer) \in Errors
              /\ e.value = Malformed
              /\ pos > starts[k]
<1> DEFINE n == pos - starts[k]
<1>1. /\ k \in Nat /\ e \in Items(reader) /\ e.bytes \in Seq(Byte) /\ Len(e.bytes) \in Nat
      /\ starts[k] \in Nat /\ starts[k + 1] = starts[k] + Len(e.bytes) /\ pos \in Nat
      /\ LiesAt(e.bytes, stream, starts[k])
      /\ IsWindow(buffer, stream, starts[k], pos)
  BY NextItem
<1>b. pos < starts[k] + Len(e.bytes)
  BY <1>1
<1>2. buffer = SubSeq(e.bytes, 1, n) /\ n \in 0 .. Len(e.bytes) - 1 /\ Len(buffer) = n
  <2> HIDE DEF n
  <2>1. /\ buffer = SubSeq(e.bytes, 1, pos - starts[k])
        /\ pos - starts[k] \in 0 .. Len(e.bytes) - 1
        /\ Len(buffer) = pos - starts[k]
    <3>1. LiesAt(e.bytes, stream, starts[k]) /\ IsWindow(buffer, stream, starts[k], pos)
      BY <1>1
    <3> QED BY <3>1, <1>b, WindowInside, SMTT(20)
  <2> QED BY <2>1 DEF n
<1>3. n > 0 => pos > starts[k]
  BY <1>1
<1> HIDE DEF n
<1>4. CASE n = 0
  <2>1. buffer = <<>>
    BY <1>1, <1>2, <1>4 DEF IsWindow
  <2> QED BY <2>1 DEF KeepsToItems
<1>5. CASE n > 0
  <2>1. n \in 1 .. Len(e.bytes) - 1
    BY <1>1, <1>2, <1>5
  <2>2. Parse(reader, SubSeq(e.bytes, 1, n)) \in
            {More} \cup (IF e.value = Malformed THEN Errors ELSE {})
    BY <1>1, <2>1 DEF KeepsToItems, KeepsToItem
  <2> QED BY <1>2, <1>3, <1>5, <2>2
<1> QED BY <1>2, <1>4, <1>5

LEMMA SeesAll ==
    ASSUME FInv, parsing, failed = "no", KeepsToItems(reader), Taken < Len(sent),
           NEW k, k = Taken + 1, NEW e, e = sent[k],
           starts[k + 1] <= pos
    PROVE  /\ pos > starts[k]
           /\ IF e.value = Malformed
              THEN Parse(reader, buffer) \in Errors
              ELSE /\ Parse(reader, buffer) = <<"ok", e.value, Len(e.bytes) + 1>>
                   /\ IsWindow(SubSeq(buffer, Len(e.bytes) + 1, Len(buffer)), stream, starts[k + 1], pos)
<1> DEFINE t == SubSeq(buffer, Len(e.bytes) + 1, Len(buffer))
<1>1. /\ k \in Nat /\ e \in Items(reader) /\ e.bytes \in Seq(Byte) /\ Len(e.bytes) \in Nat \ {0}
      /\ starts[k] \in Nat /\ starts[k + 1] = starts[k] + Len(e.bytes) /\ pos \in Nat
      /\ LiesAt(e.bytes, stream, starts[k])
      /\ IsWindow(buffer, stream, starts[k], pos)
      /\ pos < starts[k + 1] + ReadSize
  BY NextItem
<1>b. starts[k] + Len(e.bytes) <= pos
  BY <1>1
<1>2. buffer = e.bytes \o t /\ IsWindow(t, stream, starts[k] + Len(e.bytes), pos)
  <2>1. LiesAt(e.bytes, stream, starts[k]) /\ IsWindow(buffer, stream, starts[k], pos)
    BY <1>1
  <2> QED BY <2>1, <1>b, WindowBeyond, Zenon
<1> HIDE DEF t
<1>3. Len(t) \in 0 .. ReadSize - 1 /\ t \in Seq(Byte)
  BY <1>1, <1>2, SizeAssumption DEF IsWindow
<1>4. t \in [1 .. Len(t) -> Byte]
  BY <1>3
<1>5. t \in Behind
  BY <1>3, <1>4 DEF Behind
<1>6. IF e.value = Malformed
      THEN Parse(reader, e.bytes \o t) \in Errors
      ELSE Parse(reader, e.bytes \o t) = <<"ok", e.value, Len(e.bytes) + 1>>
  BY <1>1, <1>5 DEF KeepsToItems, KeepsToItem
<1>7. pos > starts[k]
  <2>1. starts[k] \in Nat /\ pos \in Nat /\ Len(e.bytes) \in Nat /\ Len(e.bytes) > 0
    BY <1>1
  <2> QED BY <2>1, <1>b
<1> QED BY <1>1, <1>2, <1>6, <1>7 DEF t

-----------------------------------------------------------------------------
(* Sending *)

LEMMA LongerStream ==
    ASSUME NEW s \in Seq(Byte), NEW u \in Seq(Byte)
    PROVE  /\ LiesAt(u, s \o u, Len(s))
           /\ \A w, a : a \in Nat /\ LiesAt(w, s, a) /\ a + Len(w) <= Len(s) => LiesAt(w, s \o u, a)
           /\ \A b, a, p : IsWindow(b, s, a, p) => IsWindow(b, s \o u, a, p)
<1>1. /\ s \o u \in Seq(Byte) /\ Len(s \o u) = Len(s) + Len(u)
      /\ \A j \in 1 .. Len(s) : (s \o u)[j] = s[j]
      /\ \A j \in 1 .. Len(u) : (s \o u)[Len(s) + j] = u[j]
  BY Joined
<1>2. LiesAt(u, s \o u, Len(s))
  BY <1>1 DEF LiesAt
<1> DEFINE z == s \o u
<1>3. z \in Seq(Byte) /\ Len(s) <= Len(z) /\ \A j \in 1 .. Len(s) : z[j] = s[j]
  BY <1>1
<1> HIDE DEF z
<1>4. ASSUME NEW w, NEW a \in Nat, LiesAt(w, s, a), a + Len(w) <= Len(s)
      PROVE  LiesAt(w, z, a)
  <2>1. w \in Seq(Byte) /\ \A j \in 1 .. Len(w) : s[a + j] = w[j]
    BY <1>4 DEF LiesAt
  <2>2. ASSUME NEW j \in 1 .. Len(w) PROVE z[a + j] = w[j]
    <3>1. a + j \in 1 .. Len(s)
      BY <2>1, <1>4
    <3> QED BY <3>1, <2>1, <1>3
  <2> QED BY <2>1, <2>2 DEF LiesAt
<1>5. ASSUME NEW b, NEW a, NEW p, IsWindow(b, s, a, p)
      PROVE  IsWindow(b, z, a, p)
  <2>1. /\ a \in Nat /\ p \in Nat /\ a <= p /\ p <= Len(s)
        /\ b \in Seq(Byte) /\ Len(b) = p - a
        /\ \A j \in 1 .. Len(b) : b[j] = s[a + j]
    BY <1>5 DEF IsWindow
  <2>2. ASSUME NEW j \in 1 .. Len(b) PROVE b[j] = z[a + j]
    <3>1. a + j \in 1 .. Len(s)
      BY <2>1
    <3> QED BY <3>1, <2>1, <1>3
  <2>3. p <= Len(z)
    BY <2>1, <1>3
  <2> QED BY <2>1, <2>2, <2>3, <1>3 DEF IsWindow
<1> QED BY <1>2, <1>4, <1>5 DEF z

LEMMA SendKeepsLayout ==
    ASSUME FInv, NEW e \in Items(reader), Send(e)
    PROVE  TypeOK' /\ Layout'
<1>1. e.bytes \in Seq(Byte) /\ Len(e.bytes) \in Nat \ {0}
  BY ItemTypes
<1>2. /\ sent \in Seq(Items(reader)) /\ stream \in Seq(Byte) /\ starts \in Seq(Nat)
      /\ Len(starts) = Len(sent) + 1 /\ starts[1] = 0 /\ starts[Len(sent) + 1] = Len(stream)
  BY DEF FInv, TypeOK, Layout
<1>3. /\ stream \o e.bytes \in Seq(Byte)
      /\ Len(stream \o e.bytes) = Len(stream) + Len(e.bytes)
  BY <1>1, <1>2, Joined
<1>4. stream' = stream \o e.bytes /\ Len(stream') = Len(stream) + Len(e.bytes)
      /\ stream' \in Seq(Byte) /\ Len(stream) \in Nat /\ Len(stream') \in Nat
  BY <1>1, <1>2, <1>3 DEF Send
<1>5. /\ sent' = Append(sent, e) /\ starts' = Append(starts, Len(stream'))
      /\ reader' = reader /\ pos' = pos
  BY <1>4 DEF Send
<1>6. /\ sent' \in Seq(Items(reader')) /\ Len(sent') = Len(sent) + 1 /\ Len(sent) \in Nat
      /\ \A i \in 1 .. Len(sent) : sent'[i] = sent[i]
      /\ sent'[Len(sent) + 1] = e
  BY <1>2, <1>5
<1>7. /\ starts' \in Seq(Nat) /\ Len(starts') = Len(sent) + 2
      /\ \A i \in 1 .. Len(sent) + 1 : starts'[i] = starts[i] /\ starts[i] \in Nat
      /\ starts'[Len(sent) + 2] = Len(stream')
  BY <1>2, <1>4, <1>5
<1>8. TypeOK'
  <2>1. pos' \in 0 .. Len(stream')
    BY <1>1, <1>4, <1>5 DEF FInv, TypeOK
  <2> QED BY <2>1, <1>4, <1>5, <1>6, <1>7 DEF Send, FInv, TypeOK
<1>9. \A i \in 1 .. Len(sent) + 1 : starts[i] <= Len(stream)
  <2> SUFFICES ASSUME NEW i \in 1 .. Len(sent) + 1 PROVE starts[i] <= Len(stream)
    OBVIOUS
  <2>1. i \in DOMAIN starts /\ Len(sent) + 1 \in DOMAIN starts
    BY <1>2, <1>6
  <2>2. i < Len(sent) + 1 => starts[i] < starts[Len(sent) + 1]
    BY <2>1 DEF FInv, Layout
  <2>3. starts[i] \in Nat /\ (i < Len(sent) + 1 \/ i = Len(sent) + 1)
    BY <1>6, <1>7
  <2>4. CASE i < Len(sent) + 1
    BY <2>2, <2>3, <2>4, <1>2, <1>4
  <2>5. CASE i = Len(sent) + 1
    <3>1. starts[i] = Len(stream)
      BY <2>5, <1>2
    <3> QED BY <3>1, <2>3
  <2> QED BY <2>3, <2>4, <2>5
<1>10. ASSUME NEW i \in DOMAIN sent'
       PROVE  /\ starts'[i + 1] = starts'[i] + Len(sent'[i].bytes)
              /\ LiesAt(sent'[i].bytes, stream', starts'[i])
  <2>1. CASE i \in 1 .. Len(sent)
    <3>0. i \in 1 .. Len(sent) + 1 /\ i + 1 \in 1 .. Len(sent) + 1
      BY <2>1, <1>6
    <3>1. /\ starts'[i] = starts[i] /\ starts'[i + 1] = starts[i + 1] /\ sent'[i] = sent[i]
          /\ i + 1 \in 1 .. Len(sent) + 1 /\ starts[i] \in Nat
      BY <2>1, <3>0, <1>6, <1>7
    <3>2. starts[i + 1] = starts[i] + Len(sent[i].bytes) /\ LiesAt(sent[i].bytes, stream, starts[i])
      BY <2>1, <1>2 DEF FInv, Layout
    <3>3. starts[i] + Len(sent[i].bytes) <= Len(stream)
      BY <3>1, <3>2, <1>9
    <3>4. LiesAt(sent[i].bytes, stream \o e.bytes, starts[i])
      BY <3>1, <3>2, <3>3, <1>1, <1>2, LongerStream
    <3> QED BY <3>1, <3>2, <3>4, <1>4
  <2>2. CASE i = Len(sent) + 1
    <3>1. i \in 1 .. Len(sent) + 1 /\ i + 1 = Len(sent) + 2
      BY <2>2, <1>6
    <3>2. starts'[i] = starts[i] /\ starts[i] = Len(stream)
      BY <2>2, <3>1, <1>2, <1>7
    <3>3. starts'[i + 1] = Len(stream')
      BY <3>1, <1>7
    <3>4. sent'[i] = e
      BY <2>2, <1>6
    <3>5. LiesAt(e.bytes, stream', Len(stream))
      BY <1>1, <1>2, <1>4, LongerStream
    <3> QED BY <3>2, <3>3, <3>4, <3>5, <1>4
  <2> QED BY <2>1, <2>2, <1>6
<1>11. ASSUME NEW i \in DOMAIN starts', NEW j \in DOMAIN starts', i < j
       PROVE  starts'[i] < starts'[j]
  <2>1. i \in 1 .. Len(sent) + 1 /\ j \in 1 .. Len(sent) + 2 /\ starts'[i] = starts[i]
    BY <1>6, <1>7, <1>11
  <2>2. CASE j \in 1 .. Len(sent) + 1
    <3>1. starts[i] < starts[j] /\ starts'[j] = starts[j]
      BY <2>1, <2>2, <1>2, <1>7, <1>11 DEF FInv, Layout
    <3> QED BY <3>1, <2>1
  <2>3. CASE j = Len(sent) + 2
    <3>1. starts[i] <= Len(stream) /\ starts[i] \in Nat
      BY <2>1, <1>7, <1>9
    <3> QED BY <3>1, <2>1, <2>3, <1>1, <1>4, <1>7
  <2> QED BY <2>1, <2>2, <2>3, <1>6
<1>12. starts'[1] = 0 /\ Len(starts') = Len(sent') + 1 /\ starts'[Len(sent') + 1] = Len(stream')
  BY <1>2, <1>6, <1>7
<1> QED BY <1>8, <1>10, <1>11, <1>12 DEF Layout

LEMMA SendStep ==
    ASSUME FInv, NEW e \in Items(reader), Send(e)
    PROVE  FInv'
<1>1. TypeOK' /\ Layout'
  BY SendKeepsLayout
<1>2. /\ e.bytes \in Seq(Byte)
      /\ sent \in Seq(Items(reader)) /\ stream \in Seq(Byte) /\ starts \in Seq(Nat)
      /\ Len(starts) = Len(sent) + 1
  BY ItemTypes DEF FInv, TypeOK, Layout
<1>3. /\ sent' = Append(sent, e) /\ stream' = stream \o e.bytes
      /\ \E x : starts' = Append(starts, x)
      /\ batch' = batch /\ messages' = messages /\ Taken' = Taken
      /\ UNCHANGED <<reader, pos, buffer, parsing, failed>>
  BY DEF Send, Taken
<1>4. /\ Len(sent') = Len(sent) + 1 /\ Len(sent) \in Nat
      /\ \A i \in 1 .. Len(sent) : sent'[i] = sent[i]
      /\ \A i \in 1 .. Len(sent) + 1 : starts'[i] = starts[i]
  BY <1>2, <1>3
<1>5. /\ Len(messages) \in Nat /\ Len(batch) \in Nat /\ Taken = Len(messages) + Len(batch)
      /\ Taken <= Len(sent) /\ Taken + 1 \in 1 .. Len(sent) + 1
      /\ DOMAIN messages = 1 .. Len(messages) /\ DOMAIN batch = 1 .. Len(batch)
  BY DEF FInv, TypeOK, TakenInOrder, Taken
<1>6. TakenInOrder'
  <2>1. \A i \in 1 .. Taken : sent'[i].value # Malformed
    <3>1. \A i \in 1 .. Taken : sent[i].value # Malformed
      BY DEF FInv, TakenInOrder
    <3>2. \A i \in 1 .. Taken : i \in 1 .. Len(sent)
      BY <1>4, <1>5
    <3> QED BY <3>1, <3>2, <1>4
  <2>2. \A i \in DOMAIN messages : messages[i] = sent'[i].value
    BY <1>4, <1>5 DEF FInv, TakenInOrder
  <2>3. \A i \in DOMAIN batch : batch[i] = sent'[Len(messages) + i].value
    <3> SUFFICES ASSUME NEW i \in DOMAIN batch
                 PROVE  batch[i] = sent'[Len(messages) + i].value
      OBVIOUS
    <3>1. batch[i] = sent[Len(messages) + i].value
      BY DEF FInv, TakenInOrder
    <3>2. Len(messages) + i \in 1 .. Len(sent)
      BY <1>4, <1>5
    <3>3. sent'[Len(messages) + i] = sent[Len(messages) + i]
      BY <3>2, <1>4
    <3> QED BY <3>1, <3>3
  <2> QED BY <2>1, <2>2, <2>3, <1>3, <1>4, <1>5 DEF TakenInOrder
<1>7. BufferIsNext'
  <2>1. failed = "no" => IsWindow(buffer, stream', starts[Taken + 1], pos)
    BY <1>2, <1>3, LongerStream DEF FInv, BufferIsNext
  <2> QED BY <2>1, <1>3, <1>4, <1>5 DEF BufferIsNext
<1>8. Remainder'
  <2> SUFFICES ASSUME failed = "no"
               PROVE  pos < starts'[Taken + 2] + IF parsing THEN ReadSize ELSE 0
    BY <1>3 DEF Remainder
  <2>1. CASE Taken < Len(sent)
    <3>1. Taken + 2 \in 1 .. Len(sent) + 1
      BY <2>1, <1>4, <1>5
    <3> QED BY <2>1, <3>1, <1>4 DEF FInv, Remainder
  <2>2. CASE Taken = Len(sent)
    <3>1. starts[Taken + 1] = pos
      BY <2>2, NothingNext
    <3>2. Taken + 1 \in DOMAIN starts' /\ Taken + 2 \in DOMAIN starts'
      BY <2>2, <1>1, <1>4, <1>5 DEF Layout, TypeOK
    <3>3. starts'[Taken + 1] < starts'[Taken + 2] /\ starts'[Taken + 2] \in Nat
      <4>1. \A i, j \in DOMAIN starts' : i < j => starts'[i] < starts'[j]
        BY <1>1 DEF Layout
      <4>2. starts' \in Seq(Nat)
        BY <1>1 DEF TypeOK
      <4>3. Taken + 1 < Taken + 2
        BY <1>5
      <4> QED BY <3>2, <4>1, <4>2, <4>3
    <3>4. pos < starts'[Taken + 2] /\ pos \in Nat
      <4>1. pos \in Nat
        BY DEF FInv, TypeOK
      <4>2. starts'[Taken + 1] = pos
        BY <3>1, <1>4, <1>5
      <4> QED BY <4>1, <4>2, <3>3
    <3> QED BY <3>3, <3>4, SizeAssumption
  <2> QED BY <2>1, <2>2, <1>4, <1>5
<1>9. Batched'
  BY <1>3 DEF FInv, Batched
<1>10. FailsOnlyForCause'
  <2>1. DOMAIN sent \subseteq DOMAIN sent' /\ DOMAIN sent = 1 .. Len(sent)
    <3>1. DOMAIN sent = 1 .. Len(sent)
      BY <1>2
    <3>2. DOMAIN sent' = 1 .. Len(sent')
      BY <1>1 DEF TypeOK
    <3> QED BY <3>1, <3>2, <1>4
  <2>2. ASSUME failed \in {"protocol", "unicode"}
        PROVE  \E n \in DOMAIN sent' :
                  /\ sent'[n].value = Malformed
                  /\ pos > starts'[n]
                  /\ Len(messages) < n
                  /\ \A i \in 1 .. n - 1 : sent'[i].value # Malformed
                  /\ \A i \in DOMAIN messages : messages[i] = sent'[i].value
    <3>1. PICK n \in DOMAIN sent :
                  /\ sent[n].value = Malformed
                  /\ pos > starts[n]
                  /\ Len(messages) < n
                  /\ \A i \in 1 .. n - 1 : sent[i].value # Malformed
                  /\ \A i \in DOMAIN messages : messages[i] = sent[i].value
      BY <2>2 DEF FInv, FailsOnlyForCause
    <3>2. sent'[n] = sent[n] /\ starts'[n] = starts[n] /\ n \in DOMAIN sent'
      BY <2>1, <1>4
    <3>3. \A i \in 1 .. n - 1 : sent'[i] = sent[i]
      BY <2>1, <1>4
    <3>4. \A i \in DOMAIN messages : messages[i] = sent'[i].value
      BY <1>6, <1>3 DEF TakenInOrder
    <3> QED BY <3>1, <3>2, <3>3, <3>4
  <2>3. ASSUME failed = "overflow"
        PROVE  \E i \in DOMAIN sent' : Len(sent'[i].bytes) > MaxBufferSize - ReadSize + 1
    <3>1. PICK i \in DOMAIN sent : Len(sent[i].bytes) > MaxBufferSize - ReadSize + 1
      BY <2>3 DEF FInv, FailsOnlyForCause
    <3> QED BY <3>1, <2>1, <1>4
  <2> QED BY <2>2, <2>3, <1>3 DEF FailsOnlyForCause
<1> QED BY <1>1, <1>6, <1>7, <1>8, <1>9, <1>10 DEF FInv

-----------------------------------------------------------------------------
(* Reading *)

\* c is a read of n bytes of s, after the first p.
IsRead(c, s, p, n) == n \in Nat /\ p + n <= Len(s) /\ c = SubSeq(s, p + 1, p + n)

LEMMA WindowGrows ==
    ASSUME NEW s, NEW a, NEW p, NEW b, NEW n, NEW c,
           IsWindow(b, s, a, p), IsRead(c, s, p, n)
    PROVE  /\ IsWindow(b \o c, s, a, p + n)
           /\ Len(b \o c) = Len(b) + n
<1>1. /\ s \in Seq(Byte) /\ a \in Nat /\ p \in Nat /\ a <= p
      /\ b \in Seq(Byte) /\ Len(b) = p - a /\ Len(b) \in Nat
      /\ \A j \in 1 .. Len(b) : b[j] = s[a + j]
  BY DEF IsWindow
<1>2. n \in Nat /\ p + n \in Nat /\ p <= p + n /\ p + n <= Len(s) /\ c = SubSeq(s, p + 1, p + n)
  BY <1>1 DEF IsRead
<1>3. /\ c \in Seq(Byte) /\ Len(c) = (p + n) - p
      /\ \A j \in 1 .. (p + n) - p : c[j] = s[p + j]
  <2> DEFINE q == p + n
  <2>1. s \in Seq(Byte) /\ p \in Nat /\ q \in Nat /\ p <= q /\ q <= Len(s) /\ c = SubSeq(s, p + 1, q)
    BY <1>1, <1>2
  <2> HIDE DEF q
  <2>2. /\ c \in Seq(Byte) /\ Len(c) = q - p
        /\ \A j \in 1 .. q - p : c[j] = s[p + j]
    BY <2>1, Parts, Zenon
  <2> QED BY <2>2 DEF q
<1>4. Len(c) = n /\ \A j \in 1 .. n : c[j] = s[p + j]
  BY <1>1, <1>2, <1>3
<1>5. /\ b \o c \in Seq(Byte) /\ Len(b \o c) = Len(b) + n
      /\ \A j \in 1 .. Len(b) : (b \o c)[j] = b[j]
      /\ \A j \in 1 .. n : (b \o c)[Len(b) + j] = c[j]
  <2>1. b \in Seq(Byte) /\ c \in Seq(Byte)
    BY <1>1, <1>3
  <2>2. /\ b \o c \in Seq(Byte) /\ Len(b \o c) = Len(b) + Len(c)
        /\ \A j \in 1 .. Len(b) : (b \o c)[j] = b[j]
        /\ \A j \in 1 .. Len(c) : (b \o c)[Len(b) + j] = c[j]
    BY <2>1, SMTT(30)
  <2> QED BY <2>2, <1>4
<1>6. ASSUME NEW j \in 1 .. Len(b) + n PROVE (b \o c)[j] = s[a + j]
  <2>1. CASE j <= Len(b)
    <3>1. j \in 1 .. Len(b)
      BY <2>1, <1>1
    <3> QED BY <3>1, <1>1, <1>5
  <2>2. CASE j > Len(b)
    <3> DEFINE i == j - Len(b)
    <3>1. i \in 1 .. n /\ Len(b) + i = j /\ p + i = a + j
      BY <2>2, <1>1, <1>2
    <3> HIDE DEF i
    <3>2. (b \o c)[j] = c[i] /\ c[i] = s[a + j]
      BY <3>1, <1>4, <1>5
    <3> QED BY <3>2
  <2>3. j <= Len(b) \/ j > Len(b)
    BY <1>1
  <2> QED BY <2>1, <2>2, <2>3, Zenon
<1>7. Len(b \o c) = (p + n) - a /\ a <= p + n
  BY <1>1, <1>2, <1>5
<1>8. \A j \in 1 .. Len(b \o c) : (b \o c)[j] = s[a + j]
  BY <1>5, <1>6
<1>9. IsWindow(b \o c, s, a, p + n)
  BY <1>1, <1>2, <1>5, <1>7, <1>8 DEF IsWindow
<1> QED BY <1>5, <1>9

LEMMA TooLong ==
    ASSUME NEW p \in Nat, NEW a \in Nat, NEW l \in Nat, NEW n \in Nat, NEW r \in Nat, NEW m \in Nat,
           p < a + l, n <= r, (p - a) + n > m
    PROVE  l > m - r + 1
OBVIOUS

\* A buffer overflows only with an item that is too long to fit beside a read.
LEMMA OverflowCause ==
    ASSUME FInv, failed = "no", ~parsing, NEW n \in 1 .. ReadSize,
           pos + n <= Len(stream), Len(buffer) + n > MaxBufferSize
    PROVE  \E i \in DOMAIN sent : Len(sent[i].bytes) > MaxBufferSize - ReadSize + 1
<1>1. Taken < Len(sent)
  <2>1. Taken \in Nat /\ Len(sent) \in Nat /\ Taken <= Len(sent) /\ pos \in Nat /\ Len(stream) \in Nat
        /\ starts[Len(sent) + 1] = Len(stream) /\ n > 0
    BY DEF FInv, TypeOK, TakenInOrder, Taken, Layout
  <2>2. ASSUME Taken = Len(sent) PROVE FALSE
    <3>1. starts[Taken + 1] = pos
      BY <2>2, NothingNext
    <3>2. pos = Len(stream)
      BY <3>1, <2>1, <2>2
    <3> QED BY <3>2, <2>1
  <2> QED BY <2>1, <2>2
<1> DEFINE k == Taken + 1
           e == sent[k]
<1>2. /\ k \in Nat /\ k \in DOMAIN sent /\ Len(e.bytes) \in Nat /\ starts[k] \in Nat /\ pos \in Nat
      /\ starts[k + 1] = starts[k] + Len(e.bytes) /\ pos < starts[k + 1] + 0
      /\ IsWindow(buffer, stream, starts[k], pos)
  BY <1>1, NextItem
<1>3. Len(buffer) = pos - starts[k]
  BY <1>2 DEF IsWindow
<1> HIDE DEF k, e
<1>4. Len(e.bytes) > MaxBufferSize - ReadSize + 1
  <2>1. pos < starts[k] + Len(e.bytes)
    BY <1>2
  <2>2. Len(e.bytes) \in Nat /\ starts[k] \in Nat /\ pos \in Nat
    BY <1>2
  <2>3. n \in Nat /\ n <= ReadSize /\ ReadSize \in Nat /\ MaxBufferSize \in Nat
    BY SizeAssumption
  <2>4. (pos - starts[k]) + n > MaxBufferSize
    BY <1>3
  <2> QED BY <2>1, <2>2, <2>3, <2>4, TooLong
<1> QED BY <1>2, <1>4 DEF e

LEMMA ReadStep ==
    ASSUME FInv, NEW n \in 1 .. ReadSize, Read(n)
    PROVE  FInv'
<1> DEFINE c == SubSeq(stream, pos + 1, pos + n)
<1>1. /\ failed = "no" /\ ~parsing /\ pos + n <= Len(stream) /\ pos' = pos + n
      /\ UNCHANGED <<reader, sent, stream, starts, batch, messages>>
      /\ \/ /\ failed' = "overflow" /\ buffer' = <<>> /\ parsing' = parsing
            /\ Len(buffer \o c) > MaxBufferSize
         \/ failed' = "no" /\ buffer' = buffer \o c /\ parsing' = TRUE
  BY DEF Read, Feed, Receive, sendVars
<1>2. n \in Nat /\ pos \in Nat /\ pos + n \in 0 .. Len(stream) /\ n <= ReadSize
  BY <1>1, SizeAssumption DEF FInv, TypeOK
<1>3. IsWindow(buffer, stream, starts[Taken + 1], pos)
  BY <1>1 DEF FInv, BufferIsNext
<1>4. IsWindow(buffer \o c, stream, starts[Taken + 1], pos + n) /\ Len(buffer \o c) = Len(buffer) + n
  <2>1. IsRead(c, stream, pos, n)
    BY <1>1, <1>2 DEF IsRead
  <2> DEFINE a == starts[Taken + 1]
  <2>2. IsWindow(buffer, stream, a, pos)
    BY <1>3
  <2> HIDE DEF c, a
  <2>3. IsWindow(buffer \o c, stream, a, pos + n) /\ Len(buffer \o c) = Len(buffer) + n
    BY <2>1, <2>2, WindowGrows
  <2> QED BY <2>3 DEF a
<1> HIDE DEF c
<1>5. Taken' = Taken
  BY <1>1 DEF Taken
<1>6. Layout' /\ TakenInOrder'
  <2>1. Layout'
    BY <1>1 DEF FInv, Layout, LiesAt
  <2>2. TakenInOrder'
    BY <1>1, <1>5 DEF FInv, TakenInOrder
  <2> QED BY <2>1, <2>2
<1>7. buffer \o c \in Seq(Byte)
  BY <1>4 DEF IsWindow
<1>8. TypeOK'
  <2>1. buffer' \in Seq(Byte) /\ parsing' \in BOOLEAN /\ failed' \in {"no", "overflow"}
    <3>1. parsing \in BOOLEAN
      BY DEF FInv, TypeOK
    <3>2. <<>> \in Seq(Byte)
      OBVIOUS
    <3> QED BY <3>1, <3>2, <1>1, <1>7, Zenon
  <2> QED BY <2>1, <1>1, <1>2 DEF FInv, TypeOK
<1>9. CASE failed' = "overflow"
  <2>1. Len(buffer) + n > MaxBufferSize
    BY <1>1, <1>4, <1>9
  <2>2. \E i \in DOMAIN sent : Len(sent[i].bytes) > MaxBufferSize - ReadSize + 1
    BY <2>1, <1>1, OverflowCause
  <2>3. FailsOnlyForCause'
    BY <2>2, <1>1, <1>9 DEF FailsOnlyForCause
  <2>4. BufferIsNext' /\ Remainder'
    BY <1>9 DEF BufferIsNext, Remainder
  <2>5. Batched'
    BY <1>1, <1>9 DEF FInv, Batched
  <2> QED BY <2>3, <2>4, <2>5, <1>6, <1>8 DEF FInv
<1>10. CASE failed' = "no" /\ buffer' = buffer \o c /\ parsing' = TRUE
  <2>1. FailsOnlyForCause'
    BY <1>10 DEF FailsOnlyForCause
  <2>2. BufferIsNext'
    BY <1>1, <1>4, <1>5, <1>10 DEF BufferIsNext
  <2>3. Remainder'
    <3> SUFFICES ASSUME Taken < Len(sent)
                 PROVE  pos + n < starts[Taken + 2] + ReadSize
      BY <1>1, <1>5, <1>10 DEF Remainder
    <3>1. pos < starts[Taken + 2] + 0
      BY <1>1 DEF FInv, Remainder
    <3>2. starts[Taken + 2] \in Nat
      <4>1. Taken \in Nat /\ Len(sent) \in Nat /\ starts \in Seq(Nat) /\ Len(starts) = Len(sent) + 1
        BY DEF FInv, TypeOK, Taken, Layout
      <4>2. Taken + 2 \in 1 .. Len(starts)
        BY <4>1
      <4> QED BY <4>1, <4>2
    <3>3. pos < starts[Taken + 2]
      BY <3>1, <3>2
    <3> QED BY <3>2, <3>3, <1>2, SizeAssumption
  <2>4. Batched'
    BY <1>1, <1>10 DEF FInv, Batched
  <2> QED BY <2>1, <2>2, <2>3, <2>4, <1>6, <1>8 DEF FInv
<1> QED BY <1>1, <1>9, <1>10

-----------------------------------------------------------------------------
(* The loop *)

LEMMA Tags ==
    /\ More[1] = "more"
    /\ \A r \in Errors : r[1] \in {"protocol", "unicode"} /\ r # More
<1>1. More[1] = "more" /\ ProtocolError[1] = "protocol" /\ UnicodeError[1] = "unicode"
  BY DEF More, ProtocolError, UnicodeError
<1>2. \A r \in Errors : r = ProtocolError \/ r = UnicodeError
  BY DEF Errors
<1> QED BY <1>1, <1>2

\* Who finds a message finds the next item, complete.
LEMMA FindsNext ==
    ASSUME FInv, parsing, KeepsToItems(reader), Parse(reader, buffer)[1] = "ok",
           NEW k, k = Taken + 1, NEW e, e = sent[k]
    PROVE  /\ failed = "no" /\ Taken < Len(sent) /\ e.value # Malformed
           /\ Parse(reader, buffer) = <<"ok", e.value, Len(e.bytes) + 1>>
           /\ IsWindow(SubSeq(buffer, Len(e.bytes) + 1, Len(buffer)), stream, starts[k + 1], pos)
<1> DEFINE r == Parse(reader, buffer)
<1>1. failed = "no"
  BY DEF FInv, Batched
<1>2. r # More /\ r \notin Errors
  BY Tags
<1>3. Taken < Len(sent)
  <2>1. Taken \in Nat /\ Len(sent) \in Nat /\ Taken <= Len(sent)
    BY DEF FInv, TypeOK, Taken, TakenInOrder
  <2>2. Taken = Len(sent) => r = More
    BY <1>1, NothingNext DEF KeepsToItems
  <2> QED BY <2>1, <2>2, <1>2
<1>4. starts[k + 1] <= pos
  <2>1. starts[k + 1] \in Nat /\ pos \in Nat
    <3>1. k \in Nat /\ k + 1 \in DOMAIN starts
      BY <1>1, <1>3, NextItem
    <3>2. starts \in Seq(Nat) /\ stream \in Seq(Byte) /\ pos \in 0 .. Len(stream)
      BY DEF FInv, TypeOK
    <3>3. starts[k + 1] \in Nat
      BY <3>1, <3>2, Element
    <3> QED BY <3>2, <3>3
  <2>2. ~(pos < starts[k + 1])
    BY <1>1, <1>2, <1>3, SeesPart
  <2> QED BY <2>1, <2>2
<1>5. IF e.value = Malformed
      THEN r \in Errors
      ELSE /\ r = <<"ok", e.value, Len(e.bytes) + 1>>
           /\ IsWindow(SubSeq(buffer, Len(e.bytes) + 1, Len(buffer)), stream, starts[k + 1], pos)
  BY <1>1, <1>3, <1>4, SeesAll
<1> QED BY <1>1, <1>2, <1>3, <1>5

\* What a step leaves to be shown once the next item is taken.
LEMMA TakenOneMore ==
    ASSUME FInv, parsing, KeepsToItems(reader), Parse(reader, buffer)[1] = "ok",
           UNCHANGED <<reader, sent, stream, starts, pos, parsing, failed>>,
           buffer' = SubSeq(buffer, Parse(reader, buffer)[3], Len(buffer)),
           Taken' = Taken + 1
    PROVE  /\ Layout' /\ BufferIsNext' /\ Remainder' /\ FailsOnlyForCause'
           /\ buffer' \in Seq(Byte) /\ Taken' <= Len(sent)
           /\ \A i \in 1 .. Taken' : sent[i].value # Malformed
<1> DEFINE k == Taken + 1
           e == sent[k]
<1>1. /\ failed = "no" /\ Taken < Len(sent) /\ e.value # Malformed
      /\ Parse(reader, buffer) = <<"ok", e.value, Len(e.bytes) + 1>>
      /\ IsWindow(SubSeq(buffer, Len(e.bytes) + 1, Len(buffer)), stream, starts[k + 1], pos)
  BY FindsNext
<1>2. /\ k \in Nat /\ k \in DOMAIN sent /\ k + 1 \in DOMAIN starts
      /\ starts[k + 1] \in Nat /\ pos < starts[k + 1] + ReadSize
  <2>1. /\ k \in Nat /\ k \in DOMAIN sent /\ k + 1 \in DOMAIN starts
        /\ pos < starts[k + 1] + IF parsing THEN ReadSize ELSE 0
    BY <1>1, NextItem
  <2>2. starts \in Seq(Nat)
    BY DEF FInv, TypeOK
  <2>3. starts[k + 1] \in Nat
    BY <2>1, <2>2, Element, Zenon
  <2>4. pos < starts[k + 1] + ReadSize
    BY <2>1
  <2> QED BY <2>1, <2>3, <2>4
<1>3. Taken \in Nat /\ Len(sent) \in Nat /\ Len(starts) = Len(sent) + 1 /\ starts \in Seq(Nat)
      /\ pos \in Nat
  BY DEF FInv, TypeOK, Taken, Layout
<1>4. IsWindow(buffer', stream, starts[k + 1], pos)
  BY <1>1
<1>5. buffer' \in Seq(Byte)
  BY <1>4 DEF IsWindow
<1>6. BufferIsNext'
  <2>1. Taken' + 1 = k + 1
    BY <1>3
  <2> QED BY <1>4, <2>1 DEF BufferIsNext
<1>7. Layout'
  BY DEF FInv, Layout, LiesAt
<1>8. Remainder'
  <2> SUFFICES ASSUME k < Len(sent)
               PROVE  pos < starts[k + 2] + ReadSize
    <3>1. Taken' = k /\ Taken' + 2 = k + 2 /\ sent' = sent /\ starts' = starts /\ pos' = pos /\ parsing'
      BY <1>3
    <3> QED BY <3>1 DEF Remainder
  <2>1. k + 1 \in DOMAIN starts /\ k + 2 \in DOMAIN starts /\ k + 1 < k + 2
    BY <1>2, <1>3
  <2>2. \A i, j \in DOMAIN starts : i < j => starts[i] < starts[j]
    BY DEF FInv, Layout
  <2> DEFINE x == starts[k + 1]
             y == starts[k + 2]
  <2>3. x < y
    BY <2>1, <2>2
  <2>4. y \in Nat
    BY <2>1, <1>3, Element, Zenon
  <2>5. x \in Nat /\ pos < x + ReadSize
    BY <1>2
  <2> HIDE DEF x, y
  <2>6. pos < y + ReadSize
    BY <2>3, <2>4, <2>5, <1>3, SizeAssumption
  <2> QED BY <2>6 DEF y
<1>9. FailsOnlyForCause'
  BY <1>1 DEF FailsOnlyForCause
<1>10. Taken' <= Len(sent)
  BY <1>1, <1>3
<1>11. \A i \in 1 .. Taken' : sent[i].value # Malformed
  <2> SUFFICES ASSUME NEW i \in 1 .. Taken' PROVE sent[i].value # Malformed
    OBVIOUS
  <2>1. i \in 1 .. Taken \/ i = k
    BY <1>3
  <2>2. i \in 1 .. Taken => sent[i].value # Malformed
    BY DEF FInv, TakenInOrder
  <2> QED BY <2>1, <2>2, <1>1
<1> QED BY <1>5, <1>6, <1>7, <1>8, <1>9, <1>10, <1>11

LEMMA TakeStep ==
    ASSUME FInv, KeepsToItems(reader), Take
    PROVE  FInv'
<1> DEFINE k == Taken + 1
           e == sent[k]
           r == Parse(reader, buffer)
<1>1. /\ parsing /\ r[1] = "ok" /\ buffer' = SubSeq(buffer, r[3], Len(buffer))
      /\ UNCHANGED <<reader, sent, stream, starts, pos, parsing, failed>>
  BY DEF Take, sendVars
<1>2. \/ reader = "server" /\ batch' = Append(batch, r[2]) /\ messages' = messages
      \/ reader # "server" /\ messages' = Append(messages, r[2]) /\ batch' = batch
  BY DEF Take
<1>3. failed = "no" /\ Taken < Len(sent) /\ r = <<"ok", e.value, Len(e.bytes) + 1>>
  BY <1>1, FindsNext
<1>4. r[2] = e.value /\ e.value \in Meanings
  <2>1. e.value \in Meanings
    BY <1>3, NextItem
  <2> QED BY <2>1, <1>3
<1>5. /\ messages \in Seq(Meanings) /\ batch \in Seq(Meanings)
      /\ Taken = Len(messages) + Len(batch) /\ Len(messages) \in Nat /\ Len(batch) \in Nat
      /\ \A i \in DOMAIN messages : messages[i] = sent[i].value
      /\ \A i \in DOMAIN batch : batch[i] = sent[Len(messages) + i].value
  BY DEF FInv, TypeOK, Taken, TakenInOrder
<1> HIDE DEF r
<1>6. /\ batch' \in Seq(Meanings) /\ messages' \in Seq(Meanings) /\ Taken' = Taken + 1
      /\ \A i \in DOMAIN messages' : messages'[i] = sent[i].value
      /\ \A i \in DOMAIN batch' : batch'[i] = sent[Len(messages') + i].value
      /\ batch' # <<>> => reader = "server"
  <2>1. CASE reader = "server" /\ batch' = Append(batch, r[2]) /\ messages' = messages
    <3>1. /\ batch' \in Seq(Meanings) /\ Len(batch') = Len(batch) + 1
          /\ \A i \in 1 .. Len(batch) : batch'[i] = batch[i]
          /\ batch'[Len(batch) + 1] = e.value
      BY <2>1, <1>4, <1>5
    <3>2. Taken' = Taken + 1
      BY <2>1, <3>1, <1>5 DEF Taken
    <3>3. ASSUME NEW i \in DOMAIN batch' PROVE batch'[i] = sent[Len(messages') + i].value
      <4>1. CASE i \in 1 .. Len(batch)
        BY <4>1, <3>1, <2>1, <1>5
      <4>2. CASE i = Len(batch) + 1
        <5>1. Len(messages') + i = k
          BY <4>2, <2>1, <1>5
        <5> QED BY <5>1, <4>2, <3>1
      <4> QED BY <4>1, <4>2, <3>1, <1>5
    <3> QED BY <2>1, <3>1, <3>2, <3>3, <1>5
  <2>2. CASE reader # "server" /\ messages' = Append(messages, r[2]) /\ batch' = batch
    <3>1. /\ messages' \in Seq(Meanings) /\ Len(messages') = Len(messages) + 1
          /\ \A i \in 1 .. Len(messages) : messages'[i] = messages[i]
          /\ messages'[Len(messages) + 1] = e.value
      BY <2>2, <1>4, <1>5
    <3>2. batch = <<>> /\ Len(batch) = 0
      BY <2>2 DEF FInv, Batched
    <3>3. Taken' = Taken + 1
      BY <2>2, <3>1, <1>5 DEF Taken
    <3>4. k = Len(messages) + 1
      BY <3>2, <1>5
    <3>5. ASSUME NEW i \in DOMAIN messages' PROVE messages'[i] = sent[i].value
      <4>1. CASE i \in 1 .. Len(messages)
        BY <4>1, <3>1, <1>5
      <4>2. CASE i = Len(messages) + 1
        BY <4>2, <3>1, <3>4
      <4> QED BY <4>1, <4>2, <3>1, <1>5
    <3>6. \A i \in DOMAIN batch' : batch'[i] = sent[Len(messages') + i].value
      BY <2>2, <3>2
    <3> QED BY <2>2, <3>1, <3>2, <3>3, <3>5, <3>6, <1>5
  <2> QED BY <2>1, <2>2, <1>2
<1>7. /\ Layout' /\ BufferIsNext' /\ Remainder' /\ FailsOnlyForCause'
      /\ buffer' \in Seq(Byte) /\ Taken' <= Len(sent)
      /\ \A i \in 1 .. Taken' : sent[i].value # Malformed
  BY <1>1, <1>6, TakenOneMore DEF r
<1>8. TypeOK'
  BY <1>1, <1>6, <1>7 DEF FInv, TypeOK
<1>9. TakenInOrder'
  BY <1>1, <1>6, <1>7 DEF TakenInOrder
<1>10. Batched'
  BY <1>1, <1>3, <1>6 DEF Batched
<1> QED BY <1>7, <1>8, <1>9, <1>10 DEF FInv

\* When nothing more is found the next item is not complete.
LEMMA NotComplete ==
    ASSUME FInv, parsing, KeepsToItems(reader), Parse(reader, buffer) = More, Taken < Len(sent)
    PROVE  pos < starts[Taken + 2]
<1> DEFINE k == Taken + 1
           e == sent[k]
<1>1. failed = "no"
  BY DEF FInv, Batched
<1>2. /\ k \in Nat /\ k + 1 \in DOMAIN starts /\ pos \in Nat /\ Taken + 2 = k + 1
  <2>1. k \in Nat /\ k + 1 \in DOMAIN starts /\ pos \in Nat
    BY <1>1, NextItem
  <2>2. Taken \in Nat
    BY DEF FInv, TypeOK, Taken
  <2> QED BY <2>1, <2>2
<1>3. starts[k + 1] \in Nat
  <2>1. starts \in Seq(Nat)
    BY DEF FInv, TypeOK
  <2> QED BY <2>1, <1>2, Element, Zenon
<1>4. ~(starts[k + 1] <= pos)
  <2> SUFFICES ASSUME starts[k + 1] <= pos PROVE FALSE
    OBVIOUS
  <2>1. IF e.value = Malformed
        THEN Parse(reader, buffer) \in Errors
        ELSE Parse(reader, buffer) = <<"ok", e.value, Len(e.bytes) + 1>>
    BY <1>1, SeesAll
  <2>2. Parse(reader, buffer) \notin Errors /\ More[1] = "more"
    BY Tags
  <2>3. More = <<"ok", e.value, Len(e.bytes) + 1>>
    BY <2>1, <2>2
  <2> QED BY <2>2, <2>3
<1> QED BY <1>2, <1>3, <1>4

LEMMA DrainedStep ==
    ASSUME FInv, KeepsToItems(reader), Drained
    PROVE  FInv'
<1>1. /\ parsing /\ Parse(reader, buffer) = More /\ parsing' = FALSE
      /\ messages' = messages \o batch /\ batch' = <<>>
      /\ UNCHANGED <<reader, sent, stream, starts, pos, buffer, failed>>
  BY DEF Drained, sendVars
<1>2. /\ messages \in Seq(Meanings) /\ batch \in Seq(Meanings)
      /\ Taken = Len(messages) + Len(batch) /\ Len(messages) \in Nat /\ Len(batch) \in Nat
      /\ \A i \in DOMAIN messages : messages[i] = sent[i].value
      /\ \A i \in DOMAIN batch : batch[i] = sent[Len(messages) + i].value
      /\ Taken <= Len(sent) /\ \A i \in 1 .. Taken : sent[i].value # Malformed
  BY DEF FInv, TypeOK, Taken, TakenInOrder
<1>3. /\ messages \o batch \in Seq(Meanings)
      /\ Len(messages \o batch) = Len(messages) + Len(batch)
      /\ \A j \in 1 .. Len(messages) : (messages \o batch)[j] = messages[j]
      /\ \A j \in 1 .. Len(batch) : (messages \o batch)[Len(messages) + j] = batch[j]
  BY <1>2, Joined
<1>4. Taken' = Taken /\ Len(messages') = Taken /\ batch' \in Seq(Meanings) /\ DOMAIN batch' = {}
  BY <1>1, <1>2, <1>3 DEF Taken
<1>5. ASSUME NEW i \in DOMAIN messages' PROVE messages'[i] = sent[i].value
  <2>1. i \in 1 .. Len(messages) + Len(batch)
    BY <1>1, <1>3
  <2>2. CASE i <= Len(messages)
    <3>1. i \in 1 .. Len(messages) /\ i \in DOMAIN messages
      BY <2>1, <2>2, <1>2
    <3> QED BY <3>1, <1>1, <1>2, <1>3
  <2>3. CASE i > Len(messages)
    <3> DEFINE j == i - Len(messages)
    <3>1. j \in 1 .. Len(batch) /\ j \in DOMAIN batch /\ Len(messages) + j = i
      BY <2>1, <2>3, <1>2
    <3> HIDE DEF j
    <3>2. (messages \o batch)[i] = batch[j]
      BY <3>1, <1>3
    <3>3. batch[j] = sent[i].value
      BY <3>1, <1>2
    <3> QED BY <3>2, <3>3, <1>1
  <2>4. i <= Len(messages) \/ i > Len(messages)
    BY <2>1, <1>2
  <2> QED BY <2>2, <2>3, <2>4, Zenon
<1>6. TypeOK'
  <2>1. messages' \in Seq(Meanings) /\ batch' \in Seq(Meanings) /\ parsing' \in BOOLEAN
    BY <1>1, <1>3, <1>4
  <2> QED BY <2>1, <1>1 DEF FInv, TypeOK
<1>7. Layout'
  BY <1>1 DEF FInv, Layout, LiesAt
<1>8. TakenInOrder'
  <2>1. Taken' <= Len(sent') /\ \A i \in 1 .. Taken' : sent'[i].value # Malformed
    BY <1>1, <1>2, <1>4
  <2>2. \A i \in DOMAIN messages' : messages'[i] = sent'[i].value
    BY <1>1, <1>5
  <2>3. \A i \in DOMAIN batch' : batch'[i] = sent'[Len(messages') + i].value
    BY <1>4
  <2> QED BY <2>1, <2>2, <2>3 DEF TakenInOrder
<1>9. BufferIsNext'
  BY <1>1, <1>4 DEF FInv, BufferIsNext
<1>10. Remainder'
  <2> SUFFICES ASSUME Taken < Len(sent)
               PROVE  pos < starts[Taken + 2] + 0
    BY <1>1, <1>4 DEF Remainder
  <2>1. pos < starts[Taken + 2]
    BY <1>1, NotComplete
  <2>2. starts[Taken + 2] \in Nat
    <3>1. Taken \in Nat /\ Len(sent) \in Nat /\ starts \in Seq(Nat) /\ Len(starts) = Len(sent) + 1
      BY DEF FInv, TypeOK, Taken, Layout
    <3>2. Taken + 2 \in DOMAIN starts
      BY <3>1
    <3> QED BY <3>1, <3>2, Element, Zenon
  <2> QED BY <2>1, <2>2
<1>11. Batched'
  BY <1>1 DEF Batched
<1>12. FailsOnlyForCause'
  <2>1. failed = "no"
    BY <1>1 DEF FInv, Batched
  <2> QED BY <2>1, <1>1 DEF FailsOnlyForCause
<1> QED BY <1>6, <1>7, <1>8, <1>9, <1>10, <1>11, <1>12 DEF FInv

\* An exception is about the next item, which has begun to arrive.
LEMMA RaiseCause ==
    ASSUME FInv, parsing, KeepsToItems(reader), Parse(reader, buffer)[1] \notin {"ok", "more"}
    PROVE  /\ Parse(reader, buffer)[1] \in {"protocol", "unicode"}
           /\ Taken < Len(sent)
           /\ sent[Taken + 1].value = Malformed
           /\ pos > starts[Taken + 1]
<1> DEFINE k == Taken + 1
           e == sent[k]
           r == Parse(reader, buffer)
<1>1. failed = "no"
  BY DEF FInv, Batched
<1>2. r # More
  BY Tags
<1>3. Taken < Len(sent)
  <2>1. Taken \in Nat /\ Len(sent) \in Nat /\ Taken <= Len(sent)
    BY DEF FInv, TypeOK, Taken, TakenInOrder
  <2>2. Taken = Len(sent) => r = More
    BY <1>1, NothingNext DEF KeepsToItems
  <2> QED BY <2>1, <2>2, <1>2
<1>4. starts[k + 1] \in Nat /\ pos \in Nat
  <2>1. k \in Nat /\ k + 1 \in DOMAIN starts
    BY <1>1, <1>3, NextItem
  <2>2. starts \in Seq(Nat) /\ pos \in Nat
    BY DEF FInv, TypeOK
  <2> QED BY <2>1, <2>2, Element, Zenon
<1>5. CASE pos < starts[k + 1]
  <2>1. r \in Errors /\ e.value = Malformed /\ pos > starts[k]
    BY <1>1, <1>2, <1>3, <1>5, SeesPart
  <2> QED BY <2>1, <1>3, Tags
<1>6. CASE starts[k + 1] <= pos
  <2>1. /\ pos > starts[k]
        /\ IF e.value = Malformed THEN r \in Errors
           ELSE r = <<"ok", e.value, Len(e.bytes) + 1>>
    BY <1>1, <1>3, <1>6, SeesAll
  <2>2. e.value = Malformed /\ r \in Errors
    BY <2>1
  <2> QED BY <2>1, <2>2, <1>3, Tags
<1> QED BY <1>4, <1>5, <1>6

LEMMA RaiseStep ==
    ASSUME FInv, KeepsToItems(reader), Raise
    PROVE  FInv'
<1> DEFINE r == Parse(reader, buffer)
<1>1. /\ parsing /\ r[1] \notin {"ok", "more"} /\ failed' = r[1]
      /\ parsing' = FALSE /\ batch' = <<>>
      /\ UNCHANGED <<reader, sent, stream, starts, pos, buffer, messages>>
  BY DEF Raise, sendVars
<1>2. /\ r[1] \in {"protocol", "unicode"} /\ Taken < Len(sent)
      /\ sent[Taken + 1].value = Malformed /\ pos > starts[Taken + 1]
  BY <1>1, RaiseCause
<1> HIDE DEF r
<1>3. /\ messages \in Seq(Meanings) /\ Len(sent) \in Nat
      /\ Taken = Len(messages) + Len(batch) /\ Len(messages) \in Nat /\ Len(batch) \in Nat
      /\ \A i \in DOMAIN messages : messages[i] = sent[i].value
      /\ \A i \in 1 .. Taken : sent[i].value # Malformed
      /\ DOMAIN sent = 1 .. Len(sent)
  BY DEF FInv, TypeOK, Taken, TakenInOrder
<1>4. Taken' = Len(messages) /\ DOMAIN batch' = {} /\ batch' \in Seq(Meanings)
  BY <1>1, <1>3 DEF Taken
<1>5. TypeOK'
  <2>1. parsing' \in BOOLEAN /\ failed' \in {"no", "protocol", "unicode", "overflow"}
    BY <1>1, <1>2
  <2> QED BY <2>1, <1>1, <1>4 DEF FInv, TypeOK
<1>6. Layout'
  BY <1>1 DEF FInv, Layout, LiesAt
<1>7. TakenInOrder'
  <2>1. Taken' <= Len(sent)
    BY <1>2, <1>3, <1>4
  <2>2. \A i \in 1 .. Taken' : sent[i].value # Malformed
    BY <1>3, <1>4
  <2> QED BY <2>1, <2>2, <1>1, <1>3, <1>4 DEF TakenInOrder
<1>8. BufferIsNext' /\ Remainder' /\ Batched'
  BY <1>1, <1>2 DEF BufferIsNext, Remainder, Batched
<1>9. FailsOnlyForCause'
  <2> DEFINE n == Taken + 1
  <2>1. n \in DOMAIN sent /\ Len(messages) < n /\ \A i \in 1 .. n - 1 : sent[i].value # Malformed
    BY <1>2, <1>3
  <2>2. /\ n \in DOMAIN sent /\ sent[n].value = Malformed /\ pos > starts[n] /\ Len(messages) < n
        /\ \A i \in 1 .. n - 1 : sent[i].value # Malformed
        /\ \A i \in DOMAIN messages : messages[i] = sent[i].value
    BY <2>1, <1>2, <1>3
  <2> HIDE DEF n
  <2>3. failed' # "overflow"
    BY <1>1, <1>2
  <2> QED BY <2>2, <2>3, <1>1 DEF FailsOnlyForCause
<1> QED BY <1>5, <1>6, <1>7, <1>8, <1>9 DEF FInv

-----------------------------------------------------------------------------
(* The theorems *)

LEMMA InitOK == Init => FInv
<1> SUFFICES ASSUME Init PROVE FInv
  OBVIOUS
<1>1. /\ sent = <<>> /\ stream = <<>> /\ starts = <<0>> /\ pos = 0 /\ buffer = <<>>
      /\ parsing = FALSE /\ batch = <<>> /\ messages = <<>> /\ failed = "no"
      /\ reader \in {"server", "client"}
  BY DEF Init
<1>2. TypeOK
  <2>1. /\ <<>> \in Seq(Items(reader)) /\ <<>> \in Seq(Byte) /\ <<>> \in Seq(Meanings)
        /\ <<0>> \in Seq(Nat) /\ Len(<<>>) = 0
    OBVIOUS
  <2>2. 0 \in 0 .. Len(stream)
    BY <1>1, <2>1
  <2> QED BY <1>1, <2>1, <2>2 DEF TypeOK
<1>3. Layout
  <2>1. Len(starts) = 1 /\ starts[1] = 0 /\ DOMAIN starts = {1} /\ Len(sent) = 0 /\ DOMAIN sent = {}
    BY <1>1
  <2> QED BY <2>1, <1>1 DEF Layout
<1>4. Taken = 0 /\ Len(sent) = 0
  BY <1>1 DEF Taken
<1>5. TakenInOrder
  BY <1>1, <1>4 DEF TakenInOrder
<1>6. BufferIsNext
  <2>1. starts[Taken + 1] = 0
    BY <1>1, <1>4
  <2> QED BY <2>1, <1>1 DEF BufferIsNext, IsWindow
<1>7. Remainder /\ Batched /\ FailsOnlyForCause
  BY <1>1, <1>4 DEF Remainder, Batched, FailsOnlyForCause
<1> QED BY <1>2, <1>3, <1>5, <1>6, <1>7 DEF FInv

LEMMA UnchangedOK == ASSUME FInv, UNCHANGED vars PROVE FInv'
<1>1. /\ UNCHANGED <<reader, sent, stream, starts, pos, buffer, parsing, batch, messages, failed>>
  BY DEF vars, sendVars
<1> QED BY <1>1 DEF FInv, TypeOK, Layout, LiesAt, TakenInOrder, BufferIsNext, IsWindow, Remainder,
                    Batched, FailsOnlyForCause, Taken

LEMMA NextOK ==
    ASSUME FInv, KeepsToItems("server"), KeepsToItems("client"), [Next]_vars
    PROVE  FInv'
<1>1. KeepsToItems(reader)
  BY DEF FInv, TypeOK
<1>2. ASSUME NEW e \in Items(reader), Send(e) PROVE FInv'
  BY <1>2, SendStep
<1>3. ASSUME NEW n \in 1 .. ReadSize, Read(n) PROVE FInv'
  BY <1>3, ReadStep
<1>4. CASE Take
  BY <1>1, <1>4, TakeStep
<1>5. CASE Drained
  BY <1>1, <1>5, DrainedStep
<1>6. CASE Raise
  BY <1>1, <1>6, RaiseStep
<1>7. CASE UNCHANGED vars
  BY <1>7, UnchangedOK
<1> QED BY <1>2, <1>3, <1>4, <1>5, <1>6, <1>7 DEF Next

\* The bookkeeping of buffer and stream holds for every number of items and
\* every way to send and read them.
THEOREM FInvHolds ==
    ASSUME KeepsToItems("server"), KeepsToItems("client")
    PROVE  Spec => []FInv
<1>1. Init => FInv
  BY InitOK
<1>2. FInv /\ [Next]_vars => FInv'
  BY NextOK
<1> QED BY <1>1, <1>2, PTL DEF Spec

LEMMA FInvDecodes == FInv => DecodesWhatWasSent
<1> SUFFICES ASSUME FInv, failed = "no", ~parsing
             PROVE  /\ \A i \in DOMAIN sent : i \in DOMAIN messages <=> starts[i + 1] <= pos
                    /\ Len(messages) <= Len(sent)
                    /\ \A i \in DOMAIN messages : messages[i] = sent[i].value
  BY DEF DecodesWhatWasSent
<1>1. batch = <<>> /\ Len(batch) = 0
  BY DEF FInv, Batched
<1>2. /\ Len(messages) \in Nat /\ Taken = Len(messages) /\ Taken <= Len(sent) /\ Len(sent) \in Nat
      /\ DOMAIN messages = 1 .. Len(messages) /\ DOMAIN sent = 1 .. Len(sent)
      /\ \A i \in DOMAIN messages : messages[i] = sent[i].value
  BY <1>1 DEF FInv, TypeOK, TakenInOrder, Taken
<1>3. /\ starts \in Seq(Nat) /\ Len(starts) = Len(sent) + 1 /\ DOMAIN starts = 1 .. Len(sent) + 1
      /\ pos \in Nat /\ \A i, j \in DOMAIN starts : i < j => starts[i] < starts[j]
  BY <1>2 DEF FInv, TypeOK, Layout
<1>4. starts[Taken + 1] <= pos /\ starts[Taken + 1] \in Nat
  BY DEF FInv, BufferIsNext, IsWindow
<1>5. ASSUME NEW i \in DOMAIN sent PROVE i \in DOMAIN messages <=> starts[i + 1] <= pos
  <2>1. i + 1 \in DOMAIN starts /\ Taken + 1 \in DOMAIN starts /\ i \in Nat
    BY <1>2, <1>3
  <2>2. starts[i + 1] \in Nat
    BY <2>1, <1>3, Element, Zenon
  <2>3. CASE i <= Taken
    <3>1. i + 1 = Taken + 1 \/ i + 1 < Taken + 1
      BY <2>1, <2>3, <1>2
    <3>2. starts[i + 1] <= starts[Taken + 1]
      <4>1. CASE i + 1 = Taken + 1
        BY <4>1, <1>4
      <4>2. CASE i + 1 < Taken + 1
        <5>1. starts[i + 1] < starts[Taken + 1]
          BY <4>2, <2>1, <1>3
        <5> QED BY <5>1, <2>2, <1>4
      <4> QED BY <3>1, <4>1, <4>2
    <3>3. starts[i + 1] <= pos
      BY <3>2, <2>2, <1>3, <1>4
    <3>4. i \in DOMAIN messages
      BY <2>1, <2>3, <1>2
    <3> QED BY <3>3, <3>4
  <2>4. CASE i > Taken
    <3>1. Taken < Len(sent) /\ Taken + 2 \in DOMAIN starts /\ i \notin DOMAIN messages
      <4>1. i \in 1 .. Len(sent) /\ i > Taken /\ Taken \in Nat /\ Len(sent) \in Nat
        BY <2>4, <1>2
      <4>2. Taken < Len(sent) /\ Taken + 2 \in 1 .. Len(sent) + 1 /\ i \notin 1 .. Taken
        BY <4>1
      <4> QED BY <4>2, <1>2, <1>3
    <3> DEFINE x == starts[Taken + 2]
               y == starts[i + 1]
    <3>2. pos < x + 0 /\ x \in Nat
      <4>1. pos < x + 0
        BY <3>1 DEF FInv, Remainder
      <4>2. x \in Nat
        BY <3>1, <1>3, Element, Zenon
      <4> QED BY <4>1, <4>2
    <3>3. x = y \/ x < y
      <4>1. i + 1 = Taken + 2 \/ Taken + 2 < i + 1
        BY <2>1, <2>4, <1>2
      <4>2. CASE i + 1 = Taken + 2
        BY <4>2
      <4>3. CASE Taken + 2 < i + 1
        BY <4>3, <3>1, <2>1, <1>3
      <4> QED BY <4>1, <4>2, <4>3
    <3>4. y \in Nat
      BY <2>2
    <3> HIDE DEF x, y
    <3>5. ~(y <= pos)
      BY <3>2, <3>3, <3>4, <1>3
    <3> QED BY <3>1, <3>5 DEF y
  <2>5. i <= Taken \/ i > Taken
    BY <2>1, <1>2
  <2> QED BY <2>3, <2>4, <2>5
<1> QED BY <1>2, <1>5

\* With a parser that keeps to the items, the loops of feed() and _parse_one
\* give the messages that were sent and have arrived, each once and in order,
\* for every number of items, however they are cut into reads.
THEOREM DecodesWhatWasSentHolds ==
    ASSUME KeepsToItems("server"), KeepsToItems("client")
    PROVE  Spec => []DecodesWhatWasSent
<1>1. Spec => []FInv
  BY FInvHolds
<1> QED BY <1>1, FInvDecodes, PTL

\* Exceptions come only for a malformed item that has begun to arrive, and
\* overflows only for an item that does not fit beside a read, whatever the
\* sizes of the buffer and of the reads.
THEOREM FailsOnlyForCauseHolds ==
    ASSUME KeepsToItems("server"), KeepsToItems("client")
    PROVE  Spec => []FailsOnlyForCause
<1>1. Spec => []FInv
  BY FInvHolds
<1>2. FInv => FailsOnlyForCause
  BY DEF FInv
<1> QED BY <1>1, <1>2, PTL

-----------------------------------------------------------------------------
(* Strings and lines *)

\* FindCrlf returns the first CRLF, whatever follows it.
LEMMA FirstCrlf ==
    ASSUME NEW S, NEW b \in Seq(S), NEW p \in Nat \ {0}, NEW c \in Nat,
           p <= c, c + 1 <= Len(b), b[c] = CR, b[c + 1] = LF,
           \A i \in p .. c - 1 : ~(b[i] = CR /\ b[i + 1] = LF)
    PROVE  FindCrlf(b, p) = c
<1> DEFINE I == {i \in p .. Len(b) - 1 : b[i] = CR /\ b[i + 1] = LF}
<1>1. Len(b) \in Nat
  OBVIOUS
<1>2. c \in I
  BY <1>1
<1>3. \A i \in I : i \in Nat /\ c <= i
  <2> SUFFICES ASSUME NEW i \in I PROVE i \in Nat /\ c <= i
    OBVIOUS
  <2>1. i \in p .. Len(b) - 1 /\ b[i] = CR /\ b[i + 1] = LF
    OBVIOUS
  <2>2. i \notin p .. c - 1
    BY <2>1
  <2> QED BY <2>1, <2>2, <1>1
<1> HIDE DEF I
<1>4. Min(I) = c
  <2>1. \E x \in I : \A y \in I : x <= y
    BY <1>2, <1>3
  <2>2. Min(I) \in I /\ \A y \in I : Min(I) <= y
    BY <2>1 DEF Min
  <2>3. Min(I) \in Nat /\ c <= Min(I) /\ Min(I) <= c
    BY <2>2, <1>2, <1>3
  <2> QED BY <2>3
<1>5. FindCrlf(b, p) = IF I = {} THEN 0 ELSE Min(I)
  BY DEF FindCrlf, I
<1> QED BY <1>2, <1>4, <1>5

LEMMA NoCrlf ==
    ASSUME NEW S, NEW b \in Seq(S), NEW p \in Nat \ {0},
           \A i \in p .. Len(b) - 1 : ~(b[i] = CR /\ b[i + 1] = LF)
    PROVE  FindCrlf(b, p) = 0
BY DEF FindCrlf

LEMMA Numbers ==
    ASSUME NEW n \in 0 .. 9
    PROVE  /\ Decimal(n) = <<Decimal(n)[1]>> /\ Len(Decimal(n)) = 1 /\ Decimal(n)[1] # CR
           /\ Decimal(n) \in Numerals
           /\ IntOf(Decimal(n)) = n
<1>1. ASSUME NEW i \in 1 .. 9
      PROVE  /\ Digit[i] # CR /\ Digit[i] # "0" /\ Digit[i] # "-"
             /\ \A j \in 1 .. 9 : Digit[i] = Digit[j] => i = j
  <2>1. /\ Digit[1] = "1" /\ Digit[2] = "2" /\ Digit[3] = "3" /\ Digit[4] = "4" /\ Digit[5] = "5"
        /\ Digit[6] = "6" /\ Digit[7] = "7" /\ Digit[8] = "8" /\ Digit[9] = "9"
    BY DEF Digit
  <2>2. \A j \in 1 .. 9 : \/ j = 1 \/ j = 2 \/ j = 3 \/ j = 4 \/ j = 5
                           \/ j = 6 \/ j = 7 \/ j = 8 \/ j = 9
    OBVIOUS
  <2>3. Digit[i] # CR /\ Digit[i] # "0" /\ Digit[i] # "-"
    BY <2>1, <2>2 DEF CR
  <2>4. \A j \in 1 .. 9 : Digit[i] = Digit[j] => i = j
    BY <2>1, <2>2
  <2> QED BY <2>3, <2>4
<1>2. Decimal(0) = <<"0">>
  BY DEF Decimal
<1>3. ASSUME NEW i \in 1 .. 9 PROVE Decimal(i) = <<Digit[i]>>
  BY DEF Decimal
<1>4. Decimal(-1) = <<"-", "1">>
  BY DEF Decimal
<1>5. Len(Decimal(n)) = 1 /\ Decimal(n)[1] # CR /\ Decimal(n) = <<Decimal(n)[1]>>
  <2>1. CASE n = 0
    <3>1. Decimal(n) = <<"0">> /\ "0" # CR
      BY <2>1, <1>2 DEF CR
    <3> QED BY <3>1
  <2>2. CASE n \in 1 .. 9
    <3>1. Decimal(n) = <<Digit[n]>>
      BY <2>2, <1>3
    <3>2. Digit[n] # CR
      BY <2>2, <1>1
    <3> QED BY <3>1, <3>2
  <2> QED BY <2>1, <2>2
<1>6. Decimal(n) \in Numerals
  BY DEF Numerals
<1>7. ASSUME NEW m \in -1 .. 9, Decimal(m) = Decimal(n) PROVE m = n
  <2>1. CASE m = -1
    <3>1. Len(Decimal(m)) = 2
      BY <2>1, <1>4
    <3>2. Len(Decimal(m)) = 1
      BY <1>5, <1>7
    <3> QED BY <3>1, <3>2
  <2>2. CASE m = 0
    <3>1. n \in 1 .. 9 => Decimal(n)[1] # "0" /\ Decimal(m)[1] = "0"
      BY <2>2, <1>1, <1>2, <1>3
    <3> QED BY <3>1, <2>2, <1>7
  <2>3. CASE m \in 1 .. 9
    <3>1. Decimal(m)[1] = Digit[m]
      BY <2>3, <1>3
    <3>2. CASE n = 0
      BY <3>1, <3>2, <2>3, <1>1, <1>2, <1>7
    <3>3. CASE n \in 1 .. 9
      <4>1. Decimal(n)[1] = Digit[n]
        BY <3>3, <1>3
      <4>2. Digit[m] = Digit[n]
        BY <4>1, <3>1, <1>7
      <4> QED BY <4>2, <3>3, <2>3, <1>1
    <3> QED BY <3>2, <3>3
  <2> QED BY <2>1, <2>2, <2>3
<1>8. IntOf(Decimal(n)) = n
  <2>1. n \in -1 .. 9
    OBVIOUS
  <2> QED BY <2>1, <1>7 DEF IntOf
<1> QED BY <1>5, <1>6, <1>8
\* The bytes of b from p to q are those of s.
LEMMA Between ==
    ASSUME NEW b \in Seq(Byte), NEW p \in Nat \ {0}, NEW q \in Nat, q <= Len(b),
           NEW s \in Seq(Byte), p + Len(s) = q + 1,
           \A i \in 1 .. Len(s) : b[(p - 1) + i] = s[i]
    PROVE  SubSeq(b, p, q) = s
<1>1. p - 1 \in Nat /\ (p - 1) + 1 = p /\ p - 1 <= q /\ Len(s) = q - (p - 1) /\ Len(s) \in Nat
  OBVIOUS
<1> DEFINE v == SubSeq(b, (p - 1) + 1, q)
<1>2. v \in Seq(Byte) /\ Len(v) = q - (p - 1) /\ \A j \in 1 .. q - (p - 1) : v[j] = b[(p - 1) + j]
  BY <1>1, Parts
<1>3. SubSeq(b, p, q) = v
  BY <1>1
<1> HIDE DEF v
<1>4. v = s
  BY <1>1, <1>2, SameSeq
<1> QED BY <1>3, <1>4

\* The header of a bulk string of n bytes: its length is read as n.
LEMMA BulkHeader ==
    ASSUME NEW n \in 0 .. 9, NEW b \in Seq(Byte), Len(b) >= 4,
           b[2] = Decimal(n)[1], b[3] = CR, b[4] = LF
    PROVE  /\ FindCrlf(b, 2) = 3
           /\ SubSeq(b, 2, 2) = Decimal(n)
<1>1. b[2] # CR
  BY Numbers
<1>2. \A i \in 2 .. 2 : ~(b[i] = CR /\ b[i + 1] = LF)
  BY <1>1
<1>3. FindCrlf(b, 2) = 3
  BY <1>2, FirstCrlf
<1>4. SubSeq(b, 2, 2) = <<b[2]>>
  <2> DEFINE d == <<b[2]>>
  <2>1. d \in Seq(Byte) /\ Len(d) = 1 /\ d[1] = b[2]
    BY Element
  <2>2. \A i \in 1 .. 1 : i = 1 /\ (2 - 1) + i = 2
    OBVIOUS
  <2> HIDE DEF d
  <2>3. \A i \in 1 .. Len(d) : b[(2 - 1) + i] = d[i]
    BY <2>1, <2>2
  <2>4. SubSeq(b, 2, 2) = d
    BY <2>1, <2>3, Between
  <2> QED BY <2>4 DEF d
<1>5. <<b[2]>> = Decimal(n)
  BY Numbers
<1> QED BY <1>3, <1>4, <1>5

\* What is left of ParseBulk once the header is read.
LEMMA BulkBody ==
    ASSUME NEW n \in 0 .. 9, NEW b, FindCrlf(b, 2) = 3, SubSeq(b, 2, 2) = Decimal(n)
    PROVE  ParseBulk(b, 1) =
               IF Len(b) < 6 + n THEN More
               ELSE IF SubSeq(b, 5 + n, 6 + n) # EOL THEN ProtocolError
               ELSE Decoded(SubSeq(b, 5, 4 + n), Str(SubSeq(b, 5, 4 + n)), 7 + n)
<1>1. Decimal(n) \in Numerals /\ IntOf(Decimal(n)) = n
  BY Numbers
<1>2. /\ 1 + 1 = 2 /\ 3 - 1 = 2 /\ 3 + 2 = 5 /\ 3 # 0 /\ ~(n < 0)
      /\ 5 + n + 1 = 6 + n /\ 5 + n - 1 = 4 + n /\ 5 + n + 2 = 7 + n
  OBVIOUS
<1> DEFINE cr == FindCrlf(b, 1 + 1)
           t == SubSeq(b, 1 + 1, cr - 1)
           end == cr + 2 + IntOf(t)
<1>3. cr = 3 /\ t = Decimal(n)
  BY <1>2
<1>4. end = 5 + n
  BY <1>1, <1>2, <1>3
<1>5. ParseBulk(b, 1) =
        IF cr = 0 THEN More
        ELSE IF t \notin Numerals THEN ProtocolError
        ELSE IF IntOf(t) < 0 THEN <<"ok", Nil, cr + 2>>
        ELSE IF Len(b) < end + 1 THEN More
        ELSE IF SubSeq(b, end, end + 1) # EOL THEN ProtocolError
        ELSE Decoded(SubSeq(b, cr + 2, end - 1), Str(SubSeq(b, cr + 2, end - 1)), end + 2)
  BY DEF ParseBulk
<1> HIDE DEF cr, t, end
<1> QED BY <1>1, <1>2, <1>3, <1>4, <1>5

\* Bytes b begin with the bulk string of s, as far as they go.
BeginsWithBulk(b, s) ==
    /\ b \in Seq(Byte)
    /\ Len(b) >= 2 => b[2] = Decimal(Len(s))[1]
    /\ Len(b) >= 3 => b[3] = CR
    /\ Len(b) >= 4 => b[4] = LF
    /\ \A i \in 1 .. Len(s) : Len(b) >= 4 + i => b[4 + i] = s[i]
    /\ Len(b) >= 5 + Len(s) => b[5 + Len(s)] = CR
    /\ Len(b) >= 6 + Len(s) => b[6 + Len(s)] = LF

LEMMA BulkPart ==
    ASSUME NEW s \in Seq(Byte), Len(s) \in 0 .. 9,
           NEW b, BeginsWithBulk(b, s), Len(b) < 6 + Len(s)
    PROVE  ParseBulk(b, 1) = More
<1>1. b \in Seq(Byte) /\ Len(b) \in Nat /\ Len(s) \in Nat
  BY DEF BeginsWithBulk
<1>2. CASE Len(b) < 4
  <2>1. \A i \in 2 .. Len(b) - 1 : i = 2 /\ Len(b) >= 2
    BY <1>1, <1>2
  <2>2. Len(b) >= 2 => b[2] # CR
    BY Numbers DEF BeginsWithBulk
  <2>3. \A i \in 2 .. Len(b) - 1 : ~(b[i] = CR /\ b[i + 1] = LF)
    BY <2>1, <2>2
  <2>4. FindCrlf(b, 2) = 0
    BY <2>3, <1>1, NoCrlf
  <2>5. FindCrlf(b, 1 + 1) = 0
    BY <2>4
  <2> QED BY <2>5 DEF ParseBulk
<1>3. CASE Len(b) >= 4
  <2>1. b[2] = Decimal(Len(s))[1] /\ b[3] = CR /\ b[4] = LF
    BY <1>1, <1>3 DEF BeginsWithBulk
  <2>2. FindCrlf(b, 2) = 3 /\ SubSeq(b, 2, 2) = Decimal(Len(s))
    BY <1>1, <1>3, <2>1, BulkHeader
  <2> QED BY <2>2, BulkBody
<1> QED BY <1>1, <1>2, <1>3

LEMMA BulkWhole ==
    ASSUME NEW s \in Seq(Byte), Len(s) \in 0 .. 9, Invalid \notin Range(s),
           NEW b, BeginsWithBulk(b, s), Len(b) >= 6 + Len(s)
    PROVE  ParseBulk(b, 1) = <<"ok", Str(s), 7 + Len(s)>>
<1> DEFINE n == Len(s)
<1>1. b \in Seq(Byte) /\ Len(b) \in Nat /\ n \in 0 .. 9 /\ Len(b) >= 4 /\ ~(Len(b) < 6 + n)
  BY DEF BeginsWithBulk
<1>2. b[2] = Decimal(n)[1] /\ b[3] = CR /\ b[4] = LF
  BY <1>1 DEF BeginsWithBulk
<1>3. b[5 + n] = CR /\ b[6 + n] = LF /\ \A i \in 1 .. n : b[4 + i] = s[i]
  BY <1>1 DEF BeginsWithBulk
<1>4. SubSeq(b, 5 + n, 6 + n) = EOL
  <2>1. CR \in Byte /\ LF \in Byte
    <3>1. 5 + n \in DOMAIN b /\ 6 + n \in DOMAIN b
      BY <1>1
    <3> QED BY <3>1, <1>1, <1>3, Element
  <2>2. EOL \in Seq(Byte) /\ Len(EOL) = 2 /\ EOL[1] = CR /\ EOL[2] = LF
    BY <2>1 DEF EOL
  <2>3. ASSUME NEW i \in 1 .. 2 PROVE b[((5 + n) - 1) + i] = EOL[i]
    <3>1. CASE i = 1
      <4>1. ((5 + n) - 1) + i = 5 + n
        BY <3>1, <1>1
      <4> QED BY <4>1, <3>1, <2>2, <1>3
    <3>2. CASE i = 2
      <4>1. ((5 + n) - 1) + i = 6 + n
        BY <3>2, <1>1
      <4> QED BY <4>1, <3>2, <2>2, <1>3
    <3> QED BY <3>1, <3>2
  <2> HIDE DEF n
  <2>4. 5 + n \in Nat \ {0} /\ 6 + n \in Nat /\ 6 + n <= Len(b) /\ (5 + n) + 2 = (6 + n) + 1
    BY <1>1
  <2> QED BY <2>2, <2>3, <2>4, <1>1, Between
<1>5. SubSeq(b, 5, 4 + n) = s
  <2>1. \A i \in 1 .. Len(s) : b[(5 - 1) + i] = s[i]
    BY <1>3
  <2>2. 4 + n \in Nat /\ 4 + n <= Len(b) /\ 5 + Len(s) = (4 + n) + 1
    BY <1>1
  <2> QED BY <2>1, <2>2, <1>1, Between
<1>6. FindCrlf(b, 2) = 3 /\ SubSeq(b, 2, 2) = Decimal(n)
  BY <1>1, <1>2, BulkHeader
<1> HIDE DEF n
<1>7. ParseBulk(b, 1) = Decoded(s, Str(s), 7 + n)
  BY <1>1, <1>4, <1>5, <1>6, BulkBody
<1> QED BY <1>7 DEF Decoded, n
\* Bytes b begin with type byte c and the line s, as far as they go.
BeginsWithLine(b, c, s) ==
    /\ b \in Seq(Byte)
    /\ b[1] = c
    /\ \A i \in 1 .. Len(s) : Len(b) >= 1 + i => b[1 + i] = s[i]
    /\ Len(b) >= 2 + Len(s) => b[2 + Len(s)] = CR
    /\ Len(b) >= 3 + Len(s) => b[3 + Len(s)] = LF

\* The text of a line has no CRLF (it may have a CR, even at its end).
IsLine(s) == \A i \in 1 .. Len(s) - 1 : ~(s[i] = CR /\ s[i + 1] = LF)

LEMMA NoEarlierEnd ==
    ASSUME NEW s \in Seq(Byte), IsLine(s), NEW c, NEW b, BeginsWithLine(b, c, s),
           NEW i \in Nat, 2 <= i, i < 2 + Len(s), i < Len(b)
    PROVE  ~(b[i] = CR /\ b[i + 1] = LF)
<1>1. b \in Seq(Byte) /\ Len(b) \in Nat /\ Len(s) \in Nat
  BY DEF BeginsWithLine
<1>2. CASE i < 1 + Len(s)
  <2>1. i - 1 \in 1 .. Len(s) - 1 /\ i - 1 \in 1 .. Len(s) /\ i \in 1 .. Len(s)
    BY <1>1, <1>2
  <2>2. b[1 + (i - 1)] = s[i - 1] /\ b[1 + i] = s[i]
    <3>1. Len(b) >= 1 + (i - 1) /\ Len(b) >= 1 + i
      BY <1>1
    <3>2. \A k \in 1 .. Len(s) : Len(b) >= 1 + k => b[1 + k] = s[k]
      BY DEF BeginsWithLine
    <3> QED BY <3>1, <3>2, <2>1
  <2>3. ~(s[i - 1] = CR /\ s[(i - 1) + 1] = LF)
    BY <2>1 DEF IsLine
  <2>4. 1 + (i - 1) = i /\ 1 + i = i + 1 /\ (i - 1) + 1 = i
    BY <1>1
  <2> QED BY <2>2, <2>3, <2>4
<1>3. CASE i = 1 + Len(s)
  <2>1. i + 1 = 2 + Len(s) /\ Len(b) >= 2 + Len(s)
    BY <1>1, <1>3
  <2>2. b[i + 1] = CR
    BY <2>1 DEF BeginsWithLine
  <2> QED BY <2>2 DEF CR, LF
<1> QED BY <1>1, <1>2, <1>3

LEMMA LinePart ==
    ASSUME NEW s \in Seq(Byte), IsLine(s), NEW c, NEW b, BeginsWithLine(b, c, s),
           Len(b) < 3 + Len(s)
    PROVE  ParseLine(b, 1) = More
<1>1. b \in Seq(Byte) /\ Len(b) \in Nat /\ Len(s) \in Nat
  BY DEF BeginsWithLine
<1>2. \A i \in 2 .. Len(b) - 1 : i \in Nat /\ 2 <= i /\ i < 2 + Len(s) /\ i < Len(b)
  BY <1>1
<1>3. \A i \in 2 .. Len(b) - 1 : ~(b[i] = CR /\ b[i + 1] = LF)
  BY <1>2, NoEarlierEnd
<1>4. FindCrlf(b, 2) = 0
  BY <1>1, <1>3, NoCrlf
<1>5. FindCrlf(b, 1 + 1) = 0
  BY <1>4
<1> QED BY <1>5 DEF ParseLine

LEMMA LineWhole ==
    ASSUME NEW s \in Seq(Byte), IsLine(s), Invalid \notin Range(s), NEW c \in {"+", "-"},
           NEW b, BeginsWithLine(b, c, s), Len(b) >= 3 + Len(s)
    PROVE  ParseLine(b, 1) =
               <<"ok", IF c = "+" THEN Str(s) ELSE Str(<<ERR>> \o s), 4 + Len(s)>>
<1> DEFINE n == Len(s)
<1>1. b \in Seq(Byte) /\ Len(b) \in Nat /\ n \in Nat /\ Len(b) >= 3 + n
  BY DEF BeginsWithLine
<1>2. /\ b[1] = c /\ b[2 + n] = CR /\ b[3 + n] = LF
      /\ \A i \in 1 .. n : b[1 + i] = s[i]
  BY <1>1 DEF BeginsWithLine
<1>3. FindCrlf(b, 2) = 2 + n
  <2>1. \A i \in 2 .. (2 + n) - 1 : i \in Nat /\ 2 <= i /\ i < 2 + Len(s) /\ i < Len(b)
    BY <1>1
  <2>2. \A i \in 2 .. (2 + n) - 1 : ~(b[i] = CR /\ b[i + 1] = LF)
    BY <2>1, NoEarlierEnd
  <2> HIDE DEF n
  <2>3. 2 + n \in Nat /\ 2 <= 2 + n /\ (2 + n) + 1 <= Len(b) /\ (2 + n) + 1 = 3 + n
    BY <1>1
  <2> QED BY <2>2, <2>3, <1>1, <1>2, FirstCrlf
<1>4. SubSeq(b, 2, 1 + n) = s
  <2>1. \A i \in 1 .. Len(s) : b[(2 - 1) + i] = s[i]
    BY <1>2
  <2>2. 1 + n \in Nat /\ 1 + n <= Len(b) /\ 2 + Len(s) = (1 + n) + 1
    BY <1>1
  <2> QED BY <2>1, <2>2, <1>1, Between
<1> HIDE DEF n
<1> DEFINE cr == FindCrlf(b, 1 + 1)
           t == SubSeq(b, 1 + 1, cr - 1)
<1>5. 1 + 1 = 2 /\ (2 + n) - 1 = 1 + n /\ (2 + n) + 2 = 4 + n /\ 2 + n # 0
  BY <1>1
<1>6. cr = 2 + n /\ t = s
  BY <1>3, <1>4, <1>5
<1>7. CASE c = "+"
  <2>1. b[1] = "+"
    BY <1>2, <1>7
  <2>2. ParseLine(b, 1) = IF cr = 0 THEN More ELSE Decoded(t, Str(t), cr + 2)
    BY <2>1 DEF ParseLine
  <2> HIDE DEF cr, t
  <2>3. ParseLine(b, 1) = Decoded(s, Str(s), 4 + n)
    BY <2>2, <1>5, <1>6
  <2> QED BY <2>3, <1>7 DEF Decoded, n
<1>8. CASE c = "-"
  <2>1. b[1] = "-"
    BY <1>2, <1>8
  <2>2. ParseLine(b, 1) = IF cr = 0 THEN More ELSE Decoded(t, Str(<<ERR>> \o t), cr + 2)
    BY <2>1 DEF ParseLine
  <2> HIDE DEF cr, t
  <2>3. ParseLine(b, 1) = Decoded(s, Str(<<ERR>> \o s), 4 + n)
    BY <2>2, <1>5, <1>6
  <2> QED BY <2>3, <1>8 DEF Decoded, n
<1> QED BY <1>7, <1>8

\* The bytes that the serializer adds to strings are bytes.
HasSymbols == /\ {"$", "+", "-", CR, LF} \subseteq Byte
              /\ \A n \in 0 .. 9 : Decimal(n)[1] \in Byte

\* As far as they go, bytes b are those of w.
Agrees(b, w) ==
    /\ b \in Seq(Byte)
    /\ \A j \in 1 .. Len(b) : j <= Len(w) => b[j] = w[j]

IsJoin(w, v, u, n, m) ==
    /\ w \in Seq(Byte)
    /\ Len(w) = n + m
    /\ \A j \in 1 .. n : w[j] = v[j]
    /\ \A j \in 1 .. m : w[n + j] = u[j]

LEMMA Extended ==
    ASSUME NEW v \in Seq(Byte), NEW u \in Seq(Byte)
    PROVE  IsJoin(v \o u, v, u, Len(v), Len(u))
BY Joined DEF IsJoin

LEMMA EolBytes ==
    ASSUME HasSymbols
    PROVE  EOL \in Seq(Byte) /\ Len(EOL) = 2 /\ EOL[1] = CR /\ EOL[2] = LF
BY DEF HasSymbols, EOL

LEMMA BulkLayout ==
    ASSUME HasSymbols, NEW s \in Seq(Byte), Len(s) \in 0 .. 9
    PROVE  LET w == BulkString(s)
           IN  /\ w \in Seq(Byte) /\ Len(w) = 6 + Len(s)
               /\ w[1] = "$" /\ w[2] = Decimal(Len(s))[1] /\ w[3] = CR /\ w[4] = LF
               /\ \A i \in 1 .. Len(s) : w[4 + i] = s[i]
               /\ w[5 + Len(s)] = CR /\ w[6 + Len(s)] = LF
<1> DEFINE n == Len(s)
           d == Decimal(n)
           one == <<"$">>
           two == one \o d
           four == two \o EOL
           body == four \o s
           w == body \o EOL
<1>1. d \in Seq(Byte) /\ Len(d) = 1
  <2>1. d = <<d[1]>> /\ Len(d) = 1 /\ d[1] \in Byte
    BY Numbers DEF HasSymbols
  <2> HIDE DEF d
  <2>2. <<d[1]>> \in Seq(Byte)
    BY <2>1
  <2> QED BY <2>1, <2>2, Zenon
<1>2. one \in Seq(Byte) /\ Len(one) = 1 /\ one[1] = "$"
  BY DEF HasSymbols
<1>3. n \in Nat
  OBVIOUS
<1>4. w = BulkString(s)
  BY DEF BulkString
<1> HIDE DEF d, one, n
<1>5. /\ two \in Seq(Byte) /\ Len(two) = 1 + 1
      /\ \A j \in 1 .. 1 : two[j] = one[j]
      /\ \A j \in 1 .. 1 : two[1 + j] = d[j]
  <2>1. IsJoin(two, one, d, Len(one), Len(d))
    BY <1>1, <1>2, Extended
  <2>2. IsJoin(two, one, d, 1, 1)
    BY <2>1, <1>1, <1>2, Zenon
  <2> QED BY <2>2, Zenon DEF IsJoin
<1>6. Len(two) = 2 /\ two[1] = "$" /\ two[2] = d[1]
  BY <1>2, <1>5
<1> HIDE DEF two
<1>7. /\ four \in Seq(Byte) /\ Len(four) = 2 + 2
      /\ \A j \in 1 .. 2 : four[j] = two[j]
      /\ \A j \in 1 .. 2 : four[2 + j] = EOL[j]
  <2>1. IsJoin(four, two, EOL, Len(two), Len(EOL))
    BY <1>5, EolBytes, Extended
  <2>2. IsJoin(four, two, EOL, 2, 2)
    BY <2>1, <1>6, EolBytes, Zenon
  <2> QED BY <2>2, Zenon DEF IsJoin
<1>8. Len(four) = 4 /\ four[1] = "$" /\ four[2] = d[1] /\ four[3] = CR /\ four[4] = LF
  <2>1. four[1] = "$" /\ four[2] = d[1] /\ four[2 + 1] = CR /\ four[2 + 2] = LF
    BY <1>6, <1>7, EolBytes
  <2> HIDE DEF four
  <2> QED BY <2>1, <1>7
<1> HIDE DEF four
<1>9. /\ body \in Seq(Byte) /\ Len(body) = 4 + n
      /\ \A j \in 1 .. 4 : body[j] = four[j]
      /\ \A j \in 1 .. n : body[4 + j] = s[j]
  <2>1. IsJoin(body, four, s, Len(four), Len(s))
    BY <1>7, Extended
  <2>2. IsJoin(body, four, s, 4, n)
    BY <2>1, <1>8, Zenon DEF n
  <2> QED BY <2>2, Zenon DEF IsJoin
<1> HIDE DEF body
<1>10. /\ w \in Seq(Byte) /\ Len(w) = (4 + n) + 2
       /\ \A j \in 1 .. 4 + n : w[j] = body[j]
       /\ \A j \in 1 .. 2 : w[(4 + n) + j] = EOL[j]
  <2>1. IsJoin(w, body, EOL, Len(body), Len(EOL))
    BY <1>9, EolBytes, Extended
  <2>2. IsJoin(w, body, EOL, 4 + n, 2)
    BY <2>1, <1>9, EolBytes, Zenon
  <2> QED BY <2>2, Zenon DEF IsJoin
<1> HIDE DEF w
<1>11. \A j \in 1 .. 4 : j \in 1 .. 4 + n
  BY <1>3
<1>12. w[1] = "$" /\ w[2] = d[1] /\ w[3] = CR /\ w[4] = LF
  BY <1>8, <1>9, <1>10, <1>11
<1>13. \A i \in 1 .. n : w[4 + i] = s[i]
  BY <1>3, <1>9, <1>10
<1>14. w[(4 + n) + 1] = CR /\ w[(4 + n) + 2] = LF
  BY <1>10, EolBytes
<1>15. /\ (4 + n) + 2 = 6 + n /\ (4 + n) + 1 = 5 + n
  BY <1>3
<1>16. /\ w \in Seq(Byte) /\ Len(w) = 6 + n /\ w[5 + n] = CR /\ w[6 + n] = LF
  BY <1>10, <1>14, <1>15
<1> QED BY <1>4, <1>12, <1>13, <1>16, Zenon DEF n, d

LEMMA LineLayout ==
    ASSUME HasSymbols, NEW s \in Seq(Byte), NEW c \in {"+", "-"}
    PROVE  LET w == <<c>> \o s \o EOL
           IN  /\ w \in Seq(Byte) /\ Len(w) = 3 + Len(s)
               /\ w[1] = c
               /\ \A i \in 1 .. Len(s) : w[1 + i] = s[i]
               /\ w[2 + Len(s)] = CR /\ w[3 + Len(s)] = LF
<1> DEFINE n == Len(s)
           one == <<c>>
           body == one \o s
           w == body \o EOL
<1>1. one \in Seq(Byte) /\ Len(one) = 1 /\ one[1] = c
  BY DEF HasSymbols
<1>2. n \in Nat /\ n = Len(s)
  OBVIOUS
<1> HIDE DEF one, n
<1>3. /\ body \in Seq(Byte) /\ Len(body) = 1 + n
      /\ \A j \in 1 .. 1 : body[j] = one[j]
      /\ \A j \in 1 .. n : body[1 + j] = s[j]
  <2>1. IsJoin(body, one, s, Len(one), Len(s))
    BY <1>1, Extended
  <2>2. IsJoin(body, one, s, 1, n)
    BY <2>1, <1>1, Zenon DEF n
  <2> QED BY <2>2, Zenon DEF IsJoin
<1> HIDE DEF body
<1>4. /\ w \in Seq(Byte) /\ Len(w) = (1 + n) + 2
      /\ \A j \in 1 .. 1 + n : w[j] = body[j]
      /\ \A j \in 1 .. 2 : w[(1 + n) + j] = EOL[j]
  <2>1. IsJoin(w, body, EOL, Len(body), Len(EOL))
    BY <1>3, EolBytes, Extended
  <2>2. IsJoin(w, body, EOL, 1 + n, 2)
    BY <2>1, <1>3, EolBytes, Zenon
  <2> QED BY <2>2, Zenon DEF IsJoin
<1> HIDE DEF w
<1>5. w[(1 + n) + 1] = CR /\ w[(1 + n) + 2] = LF
  BY <1>4, EolBytes
<1>6. (1 + n) + 1 = 2 + n /\ (1 + n) + 2 = 3 + n /\ 1 \in 1 .. 1 + n
  BY <1>2
<1>7. w[1] = c
  BY <1>1, <1>3, <1>4, <1>6
<1>8. \A i \in 1 .. n : w[1 + i] = s[i]
  BY <1>2, <1>3, <1>4
<1>9. Len(w) = 3 + n /\ w[2 + n] = CR /\ w[3 + n] = LF
  BY <1>4, <1>5, <1>6
<1> QED BY <1>2, <1>4, <1>7, <1>8, <1>9, Zenon DEF w, body, one
LEMMA PartAgrees ==
    ASSUME NEW w \in Seq(Byte), NEW k \in 1 .. Len(w) - 1
    PROVE  Agrees(SubSeq(w, 1, k), w) /\ Len(SubSeq(w, 1, k)) = k
<1>1. k \in Nat /\ 0 \in Nat /\ 0 <= k /\ k <= Len(w) /\ 0 + 1 = 1 /\ k - 0 = k
  OBVIOUS
<1> DEFINE v == SubSeq(w, 0 + 1, k)
<1>2. v \in Seq(Byte) /\ Len(v) = k - 0 /\ \A j \in 1 .. k - 0 : v[j] = w[0 + j]
  BY <1>1, Parts
<1>3. v = SubSeq(w, 1, k)
  BY <1>1
<1> HIDE DEF v
<1>4. \A j \in 1 .. k : v[j] = w[j]
  BY <1>1, <1>2
<1> QED BY <1>1, <1>2, <1>3, <1>4 DEF Agrees

LEMMA WholeAgrees ==
    ASSUME NEW w \in Seq(Byte), NEW t \in Behind
    PROVE  Agrees(w \o t, w) /\ Len(w \o t) >= Len(w)
<1>1. t \in Seq(Byte)
  BY SizeAssumption DEF Behind
<1>2. /\ w \o t \in Seq(Byte) /\ Len(w \o t) = Len(w) + Len(t)
      /\ \A j \in 1 .. Len(w) : (w \o t)[j] = w[j]
  BY <1>1, Joined
<1>3. Len(w) \in Nat /\ Len(t) \in Nat
  BY <1>1
<1> DEFINE b == w \o t
<1> HIDE DEF b
<1>4. b \in Seq(Byte) /\ Len(b) >= Len(w) /\ \A j \in 1 .. Len(w) : b[j] = w[j]
  BY <1>2, <1>3 DEF b
<1>5. \A j \in 1 .. Len(b) : j <= Len(w) => j \in 1 .. Len(w)
  BY <1>3
<1> QED BY <1>4, <1>5 DEF Agrees, b

LEMMA BulkBegins ==
    ASSUME HasSymbols, NEW s \in Seq(Byte), Len(s) \in 0 .. 9,
           NEW b, Agrees(b, BulkString(s))
    PROVE  BeginsWithBulk(b, s)
<1> DEFINE w == BulkString(s)
           n == Len(s)
<1>1. /\ Len(w) = 6 + n
      /\ w[2] = Decimal(n)[1] /\ w[3] = CR /\ w[4] = LF
      /\ \A i \in 1 .. n : w[4 + i] = s[i]
      /\ w[5 + n] = CR /\ w[6 + n] = LF
  BY BulkLayout, Zenon
<1>2. b \in Seq(Byte) /\ \A j \in 1 .. Len(b) : j <= Len(w) => b[j] = w[j]
  BY DEF Agrees
<1>3. n \in Nat
  OBVIOUS
<1> HIDE DEF w, n
<1>4. Len(b) \in Nat
  BY <1>2
<1>5. \A j \in 1 .. 6 + n : Len(b) >= j => b[j] = w[j]
  BY <1>1, <1>2, <1>3, <1>4
<1>6. /\ Len(b) >= 2 => b[2] = Decimal(n)[1]
      /\ Len(b) >= 3 => b[3] = CR
      /\ Len(b) >= 4 => b[4] = LF
  BY <1>1, <1>3, <1>5
<1>7. \A i \in 1 .. n : Len(b) >= 4 + i => b[4 + i] = s[i]
  BY <1>1, <1>3, <1>5
<1>8. /\ Len(b) >= 5 + n => b[5 + n] = CR
      /\ Len(b) >= 6 + n => b[6 + n] = LF
  BY <1>1, <1>3, <1>5
<1> QED BY <1>2, <1>6, <1>7, <1>8, Zenon DEF BeginsWithBulk, n

LEMMA LineBegins ==
    ASSUME HasSymbols, NEW s \in Seq(Byte), NEW c \in {"+", "-"},
           NEW b, Agrees(b, <<c>> \o s \o EOL), Len(b) >= 1
    PROVE  BeginsWithLine(b, c, s)
<1> DEFINE w == <<c>> \o s \o EOL
           n == Len(s)
<1>1. /\ Len(w) = 3 + n /\ w[1] = c
      /\ \A i \in 1 .. n : w[1 + i] = s[i]
      /\ w[2 + n] = CR /\ w[3 + n] = LF
  BY LineLayout, Zenon
<1>2. b \in Seq(Byte) /\ \A j \in 1 .. Len(b) : j <= Len(w) => b[j] = w[j]
  BY DEF Agrees
<1>3. n \in Nat
  OBVIOUS
<1> HIDE DEF w, n
<1>4. Len(b) \in Nat
  BY <1>2
<1>5. \A j \in 1 .. 3 + n : Len(b) >= j => b[j] = w[j]
  BY <1>1, <1>2, <1>3, <1>4
<1>6. b[1] = c
  BY <1>1, <1>3, <1>4, <1>5
<1>7. \A i \in 1 .. n : Len(b) >= 1 + i => b[1 + i] = s[i]
  BY <1>1, <1>3, <1>5
<1>8. /\ Len(b) >= 2 + n => b[2 + n] = CR
      /\ Len(b) >= 3 + n => b[3 + n] = LF
  BY <1>1, <1>3, <1>5
<1> QED BY <1>2, <1>6, <1>7, <1>8, Zenon DEF BeginsWithLine, n

\* What both ends do with the type bytes of strings and lines
\* (RESPParser._parse_message, Connection._try_parse).
HandsOn(r) ==
    \A b \in Seq(Byte) :
        Len(b) >= 1 =>
            /\ b[1] = "$" => Parse(r, b) = ParseBulk(b, 1)
            /\ b[1] \in {"+", "-"} => Parse(r, b) = ParseLine(b, 1)

\* An item that is not malformed is kept to when its parts are never taken for
\* a message and all of it has its value and its length.
LEMMA Keeps ==
    ASSUME NEW r, NEW w \in Seq(Byte), NEW v, v # Malformed,
           Len(w) >= 1,
           \A b : Agrees(b, w) /\ Len(b) >= 1 =>
                     Parse(r, b) = IF Len(b) < Len(w) THEN More ELSE <<"ok", v, Len(w) + 1>>
    PROVE  KeepsToItem(r, [bytes |-> w, value |-> v])
<1> DEFINE e == [bytes |-> w, value |-> v]
<1>1. e.bytes = w /\ e.value = v
  OBVIOUS
<1> HIDE DEF e
<1>2. ASSUME NEW k \in 1 .. Len(w) - 1 PROVE Parse(r, SubSeq(w, 1, k)) = More
  <2>1. Agrees(SubSeq(w, 1, k), w) /\ Len(SubSeq(w, 1, k)) = k
    BY PartAgrees
  <2>2. k >= 1 /\ k < Len(w)
    OBVIOUS
  <2> QED BY <2>1, <2>2, Zenon
<1>3. ASSUME NEW t \in Behind PROVE Parse(r, w \o t) = <<"ok", v, Len(w) + 1>>
  <2> DEFINE b == w \o t
  <2>1. Agrees(b, w) /\ Len(b) >= Len(w)
    BY WholeAgrees
  <2> HIDE DEF b
  <2>2. Len(b) \in Nat /\ Len(w) \in Nat
    BY <2>1 DEF Agrees
  <2>3. Len(b) >= 1 /\ ~(Len(b) < Len(w))
    BY <2>1, <2>2
  <2>4. Parse(r, b) = <<"ok", v, Len(w) + 1>>
    BY <2>1, <2>3, Zenon
  <2> QED BY <2>4 DEF b
<1>4. e.value # Malformed
  BY <1>1
<1>5. KeepsToItem(r, e)
  BY <1>1, <1>2, <1>3, <1>4 DEF KeepsToItem
<1> QED BY <1>5 DEF e

LEMMA NotMalformed == ASSUME NEW s PROVE Str(s) # Malformed
<1>1. Len(Str(s)) = 2 /\ Len(Malformed) = 1
  BY DEF Str, Malformed
<1> QED BY <1>1

\* A bulk string comes back as the string that was given to the serializer,
\* whatever is in it (a CRLF, a type byte), however it is cut and whatever
\* lies behind it.
THEOREM BulkStringsKeep ==
    ASSUME HasSymbols, NEW r, HandsOn(r),
           NEW s \in Seq(Byte), Len(s) \in 0 .. 9, Invalid \notin Range(s)
    PROVE  KeepsToItem(r, [bytes |-> BulkString(s), value |-> Str(s)])
<1> DEFINE w == BulkString(s)
<1>1. w \in Seq(Byte) /\ Len(w) = 6 + Len(s) /\ w[1] = "$" /\ Len(s) \in Nat
  BY BulkLayout
<1>2. ASSUME NEW b, Agrees(b, w), Len(b) >= 1
      PROVE  Parse(r, b) = IF Len(b) < Len(w) THEN More ELSE <<"ok", Str(s), Len(w) + 1>>
  <2>1. b \in Seq(Byte) /\ Len(b) \in Nat
    BY <1>2 DEF Agrees
  <2>2. b[1] = "$"
    <3> HIDE DEF w
    <3>1. 1 \in 1 .. Len(b) /\ 1 <= Len(w)
      BY <2>1, <1>1, <1>2
    <3> QED BY <3>1, <1>1, <1>2 DEF Agrees
  <2>3. Parse(r, b) = ParseBulk(b, 1)
    BY <2>1, <2>2, <1>2 DEF HandsOn
  <2>4. BeginsWithBulk(b, s)
    BY <1>2, BulkBegins
  <2> HIDE DEF w
  <2>5. CASE Len(b) < Len(w)
    BY <2>3, <2>4, <2>5, <1>1, BulkPart
  <2>6. CASE ~(Len(b) < Len(w))
    <3>1. Len(b) >= 6 + Len(s) /\ 7 + Len(s) = Len(w) + 1
      BY <2>1, <2>6, <1>1
    <3>2. ParseBulk(b, 1) = <<"ok", Str(s), 7 + Len(s)>>
      BY <3>1, <2>4, BulkWhole
    <3> QED BY <3>1, <3>2, <2>3, <2>6
  <2> QED BY <2>5, <2>6
<1>3. Len(w) >= 1
  BY <1>1
<1> HIDE DEF w
<1>4. KeepsToItem(r, [bytes |-> w, value |-> Str(s)])
  <2> DEFINE v == Str(s)
  <2>1. v # Malformed
    BY NotMalformed
  <2>2. \A b : Agrees(b, w) /\ Len(b) >= 1 =>
                  Parse(r, b) = IF Len(b) < Len(w) THEN More ELSE <<"ok", v, Len(w) + 1>>
    BY <1>2
  <2> HIDE DEF v
  <2>3. KeepsToItem(r, [bytes |-> w, value |-> v])
    BY <2>1, <2>2, <1>1, <1>3, Keeps
  <2> QED BY <2>3 DEF v
<1> QED BY <1>4 DEF w

\* A line comes back as its text if there is no CRLF in it: a simple string as
\* it is, an error with the mark that makes the client raise.
THEOREM LinesKeep ==
    ASSUME HasSymbols, NEW r, HandsOn(r),
           NEW s \in Seq(Byte), IsLine(s), Invalid \notin Range(s)
    PROVE  /\ KeepsToItem(r, [bytes |-> SimpleString(s), value |-> Str(s)])
           /\ KeepsToItem(r, [bytes |-> ErrorReply(s), value |-> Str(<<ERR>> \o s)])
<1>1. ASSUME NEW c \in {"+", "-"}, NEW v, v = IF c = "+" THEN Str(s) ELSE Str(<<ERR>> \o s)
      PROVE  KeepsToItem(r, [bytes |-> <<c>> \o s \o EOL, value |-> v])
  <2> DEFINE w == <<c>> \o s \o EOL
  <2>1. w \in Seq(Byte) /\ Len(w) = 3 + Len(s) /\ w[1] = c
    BY LineLayout, Zenon
  <2>2. Len(s) \in Nat /\ v # Malformed
    BY <1>1, NotMalformed
  <2>3. ASSUME NEW b, Agrees(b, w), Len(b) >= 1
        PROVE  Parse(r, b) = IF Len(b) < Len(w) THEN More ELSE <<"ok", v, Len(w) + 1>>
    <3>1. b \in Seq(Byte) /\ Len(b) \in Nat
      BY <2>3 DEF Agrees
    <3>2. BeginsWithLine(b, c, s)
      BY <2>3, LineBegins
    <3>3. b[1] = c
      BY <3>2 DEF BeginsWithLine
    <3>4. Parse(r, b) = ParseLine(b, 1)
      BY <3>1, <3>3, <2>3 DEF HandsOn
    <3> HIDE DEF w
    <3>5. CASE Len(b) < Len(w)
      BY <3>2, <3>4, <3>5, <2>1, LinePart
    <3>6. CASE ~(Len(b) < Len(w))
      <4>1. Len(b) >= 3 + Len(s) /\ 4 + Len(s) = Len(w) + 1
        BY <3>1, <3>6, <2>1, <2>2
      <4>2. ParseLine(b, 1) = <<"ok", v, 4 + Len(s)>>
        BY <4>1, <3>2, <1>1, LineWhole
      <4> QED BY <4>1, <4>2, <3>4, <3>6
    <3> QED BY <3>5, <3>6
  <2> HIDE DEF w
  <2>4. Len(w) >= 1
    BY <2>1, <2>2
  <2>5. KeepsToItem(r, [bytes |-> w, value |-> v])
    BY <2>1, <2>2, <2>3, <2>4, Keeps
  <2> QED BY <2>5 DEF w
<1>2. KeepsToItem(r, [bytes |-> SimpleString(s), value |-> Str(s)])
  BY <1>1 DEF SimpleString
<1>3. KeepsToItem(r, [bytes |-> ErrorReply(s), value |-> Str(<<ERR>> \o s)])
  BY <1>1 DEF ErrorReply
<1> QED BY <1>2, <1>3

-----------------------------------------------------------------------------
(* Errors and values *)

\* What the server's handlers send: fixed texts and errors as lines, stored
\* values as bulk strings, nulls, numbers and arrays.
FromSerializer(e) ==
    \/ \E s \in Seq(Byte) : e.bytes = SimpleString(s) /\ e.value = Str(s) /\ ~Raises(Str(s))
    \/ \E s \in Seq(Byte) : e.bytes = ErrorReply(s) /\ e.value = Str(<<ERR>> \o s)
    \/ \E s \in Seq(Byte) :
          Len(s) \in 0 .. 9 /\ e.bytes = BulkString(s) /\ e.value = Str(s)
    \/ e.bytes = Null /\ e.value = Nil
    \/ e.bytes[1] \in {":", "*"} /\ e.value[1] # "str"

LEMMA NullLayout == Null[1] = "$" /\ Null[5] = LF
<1> DEFINE S == {"$", "-", "1", CR, LF}
           one == <<"$">>
           d == Decimal(-1)
           v == one \o d
           w == v \o EOL
<1>1. one \in Seq(S) /\ Len(one) = 1 /\ one[1] = "$"
  OBVIOUS
<1>2. d \in Seq(S) /\ Len(d) = 2
  <2>1. d = <<"-", "1">>
    BY DEF Decimal
  <2> HIDE DEF d
  <2> QED BY <2>1
<1>3. EOL \in Seq(S) /\ Len(EOL) = 2 /\ EOL[2] = LF
  BY DEF EOL
<1>4. w = Null
  BY DEF Null
<1> HIDE DEF d, S, one
<1>5. /\ v \in Seq(S) /\ Len(v) = Len(one) + Len(d)
      /\ \A j \in 1 .. Len(one) : v[j] = one[j]
  BY <1>1, <1>2, Joined, Zenon
<1> HIDE DEF v
<1>6. Len(v) = 3 /\ v[1] = "$"
  BY <1>1, <1>2, <1>5
<1>7. /\ \A j \in 1 .. Len(v) : w[j] = v[j]
      /\ \A j \in 1 .. Len(EOL) : w[Len(v) + j] = EOL[j]
  <2>1. v \in Seq(S) /\ EOL \in Seq(S)
    BY <1>3, <1>5
  <2> QED BY <2>1, Joined
<1> HIDE DEF w
<1>8. w[1] = "$" /\ w[3 + 2] = LF
  BY <1>3, <1>6, <1>7
<1> QED BY <1>4, <1>8

LEMMA MarkedRaises ==
    ASSUME HasSymbols, NEW e, FromSerializer(e)
    PROVE  Raises(e.value) <=> (e.bytes[1] = "-" \/ BeginsWithMark(e.bytes))
<1>1. ASSUME NEW s \in Seq(Byte), e.bytes = SimpleString(s), e.value = Str(s), ~Raises(Str(s))
      PROVE  Raises(e.value) <=> (e.bytes[1] = "-" \/ BeginsWithMark(e.bytes))
  <2>1. (<<"+">> \o s \o EOL)[1] = "+"
    BY LineLayout, Zenon
  <2>2. e.bytes[1] = "+"
    BY <2>1, <1>1 DEF SimpleString
  <2> QED BY <2>2, <1>1 DEF BeginsWithMark
<1>2. ASSUME NEW s \in Seq(Byte), e.bytes = ErrorReply(s), e.value = Str(<<ERR>> \o s)
      PROVE  Raises(e.value) <=> (e.bytes[1] = "-" \/ BeginsWithMark(e.bytes))
  <2>1. (<<"-">> \o s \o EOL)[1] = "-"
    BY LineLayout, Zenon
  <2>2. e.bytes[1] = "-"
    BY <2>1, <1>2 DEF ErrorReply
  <2> DEFINE z == <<ERR>> \o s
  <2>3. z # <<>> /\ z[1] = ERR
    <3>1. <<ERR>> \in Seq(Byte \cup {ERR}) /\ s \in Seq(Byte \cup {ERR}) /\ Len(<<ERR>>) = 1 /\ <<ERR>>[1] = ERR
      OBVIOUS
    <3>2. /\ z \in Seq(Byte \cup {ERR})
          /\ Len(z) = Len(<<ERR>>) + Len(s)
          /\ \A j \in 1 .. Len(<<ERR>>) : z[j] = <<ERR>>[j]
      BY <3>1, Joined
    <3> HIDE DEF z
    <3>3. Len(z) # 0
      BY <3>1, <3>2
    <3> QED BY <3>1, <3>2, <3>3
  <2> HIDE DEF z
  <2>4. e.value[1] = "str" /\ e.value[2] = z
    BY <1>2 DEF z, Str
  <2> QED BY <2>2, <2>3, <2>4 DEF Raises
<1>3. ASSUME NEW s \in Seq(Byte), Len(s) \in 0 .. 9, e.bytes = BulkString(s), e.value = Str(s)
      PROVE  Raises(e.value) <=> (e.bytes[1] = "-" \/ BeginsWithMark(e.bytes))
  <2> DEFINE w == BulkString(s)
  <2>1. /\ w[1] = "$" /\ \A i \in 1 .. Len(s) : w[4 + i] = s[i]
        /\ w[5 + Len(s)] = CR
    BY <1>3, BulkLayout, Zenon
  <2>2. w = e.bytes
    BY <1>3
  <2> HIDE DEF w
  <2>3. e.value[1] = "str" /\ e.value[2] = s
    BY <1>3 DEF Str
  <2>4. CASE s = <<>>
    <3>1. w[5] = CR
      BY <2>1, <2>4
    <3>2. CR # ERR
      BY DEF CR, ERR
    <3> QED BY <3>1, <3>2, <2>1, <2>2, <2>3, <2>4 DEF Raises, BeginsWithMark
  <2>5. CASE s # <<>>
    <3>1. 1 \in 1 .. Len(s)
      BY <2>5
    <3>2. w[4 + 1] = s[1]
      BY <3>1, <2>1, Zenon
    <3>3. w[5] = s[1]
      BY <3>2
    <3>4. Raises(e.value) <=> s[1] = ERR
      BY <2>3, <2>5 DEF Raises
    <3> QED BY <3>3, <3>4, <2>1, <2>2 DEF BeginsWithMark
  <2> QED BY <2>4, <2>5
<1>4. ASSUME e.bytes = Null, e.value = Nil
      PROVE  Raises(e.value) <=> (e.bytes[1] = "-" \/ BeginsWithMark(e.bytes))
  <2>1. Nil[1] # "str"
    BY DEF Nil
  <2>2. LF # ERR
    BY DEF LF, ERR
  <2>3. ~Raises(e.value)
    BY <2>1, <1>4, Zenon DEF Raises
  <2>4. e.bytes[1] = "$" /\ e.bytes[5] = LF
    BY NullLayout, <1>4, Zenon
  <2> QED BY <2>2, <2>3, <2>4 DEF BeginsWithMark
<1>5. ASSUME e.bytes[1] \in {":", "*"}, e.value[1] # "str"
      PROVE  Raises(e.value) <=> (e.bytes[1] = "-" \/ BeginsWithMark(e.bytes))
  BY <1>5 DEF Raises, BeginsWithMark
<1> QED BY <1>1, <1>2, <1>3, <1>4, <1>5, Zenon DEF FromSerializer

\* The client raises for a reply exactly when the server sent an error or a
\* bulk string that begins with the mark, however the replies were cut into
\* reads, for replies of any content; stored values are among them.
THEOREM RaisesForErrorsHolds ==
    ASSUME HasSymbols, KeepsToItems("server"), KeepsToItems("client"),
           \A e \in Replies : FromSerializer(e)
    PROVE  Spec => []RaisesForErrors
<1>1. Spec => []FInv
  BY FInvHolds
<1>2. FInv => RaisesForErrors
  <2> SUFFICES ASSUME FInv, reader = "client", NEW i \in DOMAIN messages
               PROVE  Raises(messages[i]) <=> (sent[i].bytes[1] = "-" \/ BeginsWithMark(sent[i].bytes))
    BY DEF RaisesForErrors
  <2>1. messages[i] = sent[i].value
    BY DEF FInv, TakenInOrder
  <2>2. i \in DOMAIN sent /\ sent \in Seq(Replies)
    BY DEF FInv, TypeOK, TakenInOrder, Taken, Items
  <2>3. sent[i] \in Replies
    BY <2>2, Element, Zenon
  <2>4. FromSerializer(sent[i])
    BY <2>3
  <2> QED BY <2>1, <2>4, MarkedRaises
<1> QED BY <1>1, <1>2, PTL
=============================================================================
