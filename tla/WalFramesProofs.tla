-------------------------- MODULE WalFramesProofs ---------------------------
(***************************************************************************)
(* What the reader returns of a file that was written, cut, damaged and    *)
(* appended to, whatever the records, their number and the damage.         *)
(***************************************************************************)
EXTENDS WalFrames, SequenceTheorems, TLAPS

Plain  == [number : Nat, sum : {<<>>}]
Bodies == {Body(r) : r \in Records}
Cell   == [number : Nat, sum : {<<>>} \cup Bodies]
Entry  == [at : Nat, rec : {r \in Records : Payload(r) <= MaxPayload}]

-----------------------------------------------------------------------------
(* Concatenation, and the positions of the words of an id.                 *)

LEMMA Concat ==
  ASSUME NEW S, NEW a \in Seq(S), NEW b \in Seq(S)
  PROVE  /\ a \o b \in Seq(S) /\ Len(a) \in Nat /\ Len(b) \in Nat
         /\ Len(a \o b) = Len(a) + Len(b)
         /\ \A i \in 1 .. Len(a) : (a \o b)[i] = a[i]
         /\ \A i \in 1 .. Len(b) : (a \o b)[Len(a) + i] = b[i]
<1>1. Len(a) \in Nat /\ Len(b) \in Nat
  BY LenProperties
<1>2. /\ a \o b \in Seq(S) /\ Len(a \o b) = Len(a) + Len(b)
      /\ \A i \in 1 .. Len(a) + Len(b) :
           (a \o b)[i] = IF i <= Len(a) THEN a[i] ELSE b[i - Len(a)]
  BY ConcatProperties
<1>3. \A i \in 1 .. Len(a) : (a \o b)[i] = a[i]
  BY <1>1, <1>2
<1>4. ASSUME NEW i \in 1 .. Len(b)
      PROVE  (a \o b)[Len(a) + i] = b[i]
  <2>1. /\ Len(a) + i \in 1 .. Len(a) + Len(b)
        /\ ~(Len(a) + i <= Len(a)) /\ (Len(a) + i) - Len(a) = i
    BY <1>1
  <2> QED  BY <2>1, <1>2
<1> QED  BY <1>1, <1>2, <1>3, <1>4

LEMMA OddWord ==
  ASSUME NEW n \in Nat, NEW i \in 1 .. n
  PROVE  2 * i - 1 \in 1 .. 2 * n /\ (2 * i - 1) % 2 = 1 /\ ((2 * i - 1) + 1) \div 2 = i
<1>1. 2 * i - 1 \in 1 .. 2 * n
  OBVIOUS
<1>2. (2 * i - 1) % 2 = 1
  OBVIOUS
<1>3. ((2 * i - 1) + 1) \div 2 = i
  OBVIOUS
<1> QED  BY <1>1, <1>2, <1>3

-----------------------------------------------------------------------------
(* The shape of a frame.                                                   *)

LEMMA RecordType ==
  ASSUME NEW r \in Records
  PROVE  /\ r.op \in {1, 2, 3} /\ r.ids \in Seq(Nat) /\ r.vecs \in Seq(Nat)
         /\ r = [op |-> r.op, ids |-> r.ids, vecs |-> r.vecs]
         /\ Len(r.ids) \in Nat /\ Len(r.vecs) \in Nat
         /\ Payload(r) \in Nat
<1>1. /\ r \in [op : {1, 2, 3}, ids : Seq(Nat), vecs : Seq(Nat)]
      /\ r.ids \in Seq(Nat) /\ r.vecs \in Seq(Nat)
  BY RecordsAssumption DEF kWalInsert, kWalRemove, kWalBulk
<1>2. Len(r.ids) \in Nat /\ Len(r.vecs) \in Nat
  BY <1>1, LenProperties
<1> QED  BY <1>1, <1>2 DEF Payload

\* Where a payload has its numbers.
LEMMA BodyShape ==
  ASSUME NEW r \in Records
  PROVE  /\ Body(r) \in Seq(Plain)
         /\ Len(Body(r)) = 2 + 2 * Len(r.ids) + Len(r.vecs)
         /\ Body(r)[1] = Number(r.op)
         /\ Body(r)[2] = Number(Len(r.ids))
         /\ \A i \in 1 .. Len(r.ids) : Body(r)[1 + 2 * i] = Number(r.ids[i])
         /\ \A i \in 1 .. Len(r.vecs) :
              Body(r)[2 + 2 * Len(r.ids) + i] = Number(r.vecs[i])
<1> DEFINE n == Len(r.ids)
           m == Len(r.vecs)
           head == <<Number(r.op), Number(n)>>
           ids  == [i \in 1 .. 2 * n |->
                      IF i % 2 = 1 THEN Number(r.ids[(i + 1) \div 2]) ELSE Zero]
           vecs == [i \in 1 .. m |-> Number(r.vecs[i])]
<1>1. /\ r.op \in Nat /\ n \in Nat /\ m \in Nat
      /\ \A i \in 1 .. n : r.ids[i] \in Nat
      /\ \A i \in 1 .. m : r.vecs[i] \in Nat
  BY RecordType, ElementOfSeq
<1>2. \A k \in Nat : Number(k) \in Plain
  BY DEF Number, Plain
<1>3. head \in Seq(Plain) /\ Len(head) = 2 /\ head[1] = Number(r.op) /\ head[2] = Number(n)
  BY <1>1, <1>2
<1>4. ids \in Seq(Plain) /\ Len(ids) = 2 * n
  <2>1. ASSUME NEW i \in 1 .. 2 * n
        PROVE  (IF i % 2 = 1 THEN Number(r.ids[(i + 1) \div 2]) ELSE Zero) \in Plain
    <3>1. CASE i % 2 = 1
      <4>1. (i + 1) \div 2 \in 1 .. n
        BY <1>1
      <4> QED  BY <3>1, <4>1, <1>1, <1>2
    <3>2. CASE i % 2 # 1
      BY <3>2, <1>2 DEF Zero
    <3> QED  BY <3>1, <3>2
  <2>2. 2 * n \in Nat
    BY <1>1
  <2> QED  BY <2>1, <2>2
<1>5. vecs \in Seq(Plain) /\ Len(vecs) = m
  BY <1>1, <1>2
<1>6. Body(r) = (head \o ids) \o vecs
  BY DEF Body
<1> HIDE DEF head, ids, vecs, n, m
<1>7. /\ head \o ids \in Seq(Plain) /\ Len(head \o ids) = 2 + 2 * n
      /\ \A i \in 1 .. 2 : (head \o ids)[i] = head[i]
      /\ \A i \in 1 .. 2 * n : (head \o ids)[2 + i] = ids[i]
  <2>1. /\ head \o ids \in Seq(Plain) /\ Len(head \o ids) = Len(head) + Len(ids)
        /\ \A i \in 1 .. Len(head) : (head \o ids)[i] = head[i]
        /\ \A i \in 1 .. Len(ids) : (head \o ids)[Len(head) + i] = ids[i]
    <3>1. head \in Seq(Plain) /\ ids \in Seq(Plain)
      BY <1>3, <1>4
    <3> QED  BY <3>1, Concat
  <2> QED  BY <1>3, <1>4, <2>1
<1>8. /\ Body(r) \in Seq(Plain) /\ Len(Body(r)) = 2 + 2 * n + m
      /\ \A i \in 1 .. 2 + 2 * n : Body(r)[i] = (head \o ids)[i]
      /\ \A i \in 1 .. m : Body(r)[2 + 2 * n + i] = vecs[i]
  <2> DEFINE front == head \o ids
  <2>1. front \in Seq(Plain) /\ vecs \in Seq(Plain)
    BY <1>5, <1>7
  <2> HIDE DEF front
  <2>2. /\ front \o vecs \in Seq(Plain) /\ Len(front \o vecs) = Len(front) + Len(vecs)
        /\ \A i \in 1 .. Len(front) : (front \o vecs)[i] = front[i]
        /\ \A i \in 1 .. Len(vecs) : (front \o vecs)[Len(front) + i] = vecs[i]
    BY <2>1, Concat
  <2> QED  BY <1>5, <1>6, <1>7, <2>2 DEF front
<1>9. Body(r)[1] = Number(r.op) /\ Body(r)[2] = Number(n)
  <2>1. 1 \in 1 .. 2 + 2 * n /\ 2 \in 1 .. 2 + 2 * n /\ 1 \in 1 .. 2 /\ 2 \in 1 .. 2
    BY <1>1
  <2> QED  BY <1>3, <1>7, <1>8, <2>1
<1>10. ASSUME NEW i \in 1 .. n
       PROVE  Body(r)[1 + 2 * i] = Number(r.ids[i])
  <2>1. 2 * i - 1 \in 1 .. 2 * n /\ (2 * i - 1) % 2 = 1 /\ ((2 * i - 1) + 1) \div 2 = i
    BY <1>1, OddWord
  <2>2. 1 + 2 * i \in 1 .. 2 + 2 * n /\ 1 + 2 * i = 2 + (2 * i - 1)
    BY <1>1
  <2>3. Body(r)[1 + 2 * i] = ids[2 * i - 1]
    BY <2>1, <2>2, <1>7, <1>8
  <2>4. ids[2 * i - 1] = Number(r.ids[((2 * i - 1) + 1) \div 2])
    BY <2>1 DEF ids
  <2> QED  BY <2>1, <2>3, <2>4
<1>11. ASSUME NEW i \in 1 .. m
       PROVE  Body(r)[2 + 2 * n + i] = Number(r.vecs[i])
  BY <1>8 DEF vecs
<1> QED  BY <1>8, <1>9, <1>10, <1>11 DEF n, m

\* What the writer lays out, the reader takes apart: a round trip.
LEMMA RecordOfBody ==
  ASSUME NEW r \in Records, r.ids # <<>>
  PROVE  /\ Decodes(Body(r)) /\ RecordOf(Body(r)) = r
         /\ Payload(r) = 4 * Len(Body(r)) /\ Len(Body(r)) \in Nat /\ Len(Body(r)) >= 2
<1> DEFINE b == Body(r)
           n == Len(r.ids)
           m == Len(r.vecs)
<1>1. /\ n \in Nat /\ m \in Nat /\ r.op \in {1, 2, 3}
      /\ r.ids \in Seq(Nat) /\ r.vecs \in Seq(Nat)
      /\ r = [op |-> r.op, ids |-> r.ids, vecs |-> r.vecs]
  BY RecordType
<1>2. /\ Len(b) = 2 + 2 * n + m /\ b[1].number = r.op /\ b[2].number = n
      /\ \A i \in 1 .. n : b[1 + 2 * i].number = r.ids[i]
      /\ \A i \in 1 .. m : b[2 + 2 * n + i].number = r.vecs[i]
  <2>1. \A k : Number(k).number = k
    BY DEF Number
  <2> QED  BY <2>1, BodyShape
<1> HIDE DEF b
<1>3. Decodes(b)
  <2>1. 2 + 2 * n <= Len(b) /\ Len(b) - 2 - 2 * n = m
    BY <1>1, <1>2
  <2>2. r.op = 2 => n = 1 /\ m = 0
    BY RecordsAssumption DEF kWalRemove
  <2> QED  BY <1>1, <1>2, <2>1, <2>2 DEF Decodes, kWalInsert, kWalRemove, kWalBulk
<1>4. RecordOf(b) = r
  <2>1. [i \in 1 .. n |-> b[1 + 2 * i].number] = r.ids
    <3>1. r.ids = [i \in 1 .. n |-> r.ids[i]]
      BY <1>1, LenProperties
    <3> QED  BY <3>1, <1>2
  <2>2. [i \in 1 .. m |-> b[2 + 2 * n + i].number] = r.vecs
    <3>1. r.vecs = [i \in 1 .. m |-> r.vecs[i]]
      BY <1>1, LenProperties
    <3> QED  BY <3>1, <1>2
  <2>3. Len(b) - 2 - 2 * n = m
    BY <1>1, <1>2
  <2> QED  BY <1>1, <1>2, <2>1, <2>2, <2>3 DEF RecordOf
<1>5. Payload(r) = 4 * Len(b) /\ Len(b) \in Nat /\ Len(b) >= 2
  BY <1>1, <1>2 DEF Payload
<1> QED  BY <1>3, <1>4, <1>5 DEF b

LEMMA FrameShape ==
  ASSUME NEW r \in Records
  PROVE  /\ Frame(r) \in Seq(Cell) /\ Body(r) \in Seq(Cell)
         /\ Len(Frame(r)) = 2 + Len(Body(r)) /\ Len(Body(r)) \in Nat
         /\ Frame(r)[1] = Number(Payload(r)) /\ Frame(r)[2] = Sum(Body(r))
         /\ \A i \in 1 .. Len(Body(r)) : Frame(r)[2 + i] = Body(r)[i]
         /\ \A i \in 1 .. Len(Body(r)) : Body(r)[i].sum = <<>>
<1>1. Body(r) \in Seq(Plain) /\ Payload(r) \in Nat
  BY BodyShape, RecordType
<1>2. Plain \subseteq Cell
  BY DEF Plain, Cell
<1>3. Body(r) \in Seq(Cell)
  BY <1>1, <1>2
<1>4. Number(Payload(r)) \in Cell /\ Sum(Body(r)) \in Cell
  BY <1>1 DEF Number, Sum, Cell, Bodies
<1> DEFINE head == <<Number(Payload(r)), Sum(Body(r))>>
<1>5. /\ head \in Seq(Cell) /\ Len(head) = 2
      /\ head[1] = Number(Payload(r)) /\ head[2] = Sum(Body(r))
  BY <1>4
<1>6. Frame(r) = head \o Body(r)
  BY DEF Frame
<1> HIDE DEF head
<1>7. Len(Body(r)) \in Nat
  BY <1>1, LenProperties
<1>8. /\ Frame(r) \in Seq(Cell) /\ Len(Frame(r)) = 2 + Len(Body(r))
      /\ \A i \in 1 .. 2 : Frame(r)[i] = head[i]
      /\ \A i \in 1 .. Len(Body(r)) : Frame(r)[2 + i] = Body(r)[i]
  <2> DEFINE b == Body(r)
  <2>1. head \in Seq(Cell) /\ b \in Seq(Cell)
    BY <1>3, <1>5
  <2> HIDE DEF b
  <2>2. /\ head \o b \in Seq(Cell) /\ Len(head \o b) = Len(head) + Len(b)
        /\ \A i \in 1 .. Len(head) : (head \o b)[i] = head[i]
        /\ \A i \in 1 .. Len(b) : (head \o b)[Len(head) + i] = b[i]
    BY <2>1, Concat
  <2> QED  BY <1>5, <1>6, <2>2 DEF b
<1>9. ASSUME NEW i \in 1 .. Len(Body(r))
      PROVE  Body(r)[i].sum = <<>>
  <2>1. Body(r)[i] \in Plain
    BY <1>1, ElementOfSeq
  <2> QED  BY <2>1 DEF Plain
<1> QED  BY <1>3, <1>5, <1>7, <1>8, <1>9

-----------------------------------------------------------------------------
(* The inductive invariant.  A checksum cell that is not of nothing stands *)
(* where the writer put it, behind the length of its frame, and is that of *)
(* the frame's payload: nothing else in the file can be taken for one.     *)

Sorted ==
  \A i \in 1 .. Len(log) :
    /\ Fits(log[i].rec) /\ log[i].at < Len(file)
    /\ \A j \in 1 .. i - 1 : log[j].at < log[i].at

SumsSound ==
  \A i \in 1 .. Len(file) :
    file[i].sum # <<>> =>
      /\ file[i].number = 0
      /\ \E j \in 1 .. Len(log) :
           log[j].at + 2 = i /\ file[i].sum = Body(log[j].rec)

FileInv == file \in Seq(Cell) /\ log \in Seq(Entry) /\ Sorted /\ SumsSound

ReadInv ==
  /\ pos \in 0 .. Len(file) /\ records \in Seq(Records)
  /\ stage \in {"reading", "replayed", "appending"}
  /\ stage = "appending" => pos = 0 /\ records = <<>>
  /\ ReadsWhole /\ PrefixContract

Counters == appends \in 0 .. MaxAppends /\ faults \in 0 .. MaxFaults

FramesInv == FileInv /\ ReadInv /\ Counters

LEMMA EntryType ==
  ASSUME log \in Seq(Entry), NEW j \in 1 .. Len(log)
  PROVE  /\ log[j].at \in Nat /\ log[j].rec \in Records
         /\ Payload(log[j].rec) <= MaxPayload
         /\ End(log[j]) = log[j].at + 2 + Len(Body(log[j].rec))
         /\ Len(Body(log[j].rec)) \in Nat /\ End(log[j]) \in Nat
         /\ End(log[j]) > log[j].at
<1>1. log[j] \in Entry
  BY ElementOfSeq
<1>2. /\ log[j].at \in Nat /\ log[j].rec \in Records
      /\ Payload(log[j].rec) <= MaxPayload
  BY <1>1 DEF Entry
<1>3. /\ Len(Frame(log[j].rec)) = 2 + Len(Body(log[j].rec))
      /\ Len(Body(log[j].rec)) \in Nat
  BY <1>2, FrameShape
<1>4. End(log[j]) = log[j].at + Len(Frame(log[j].rec))
  BY DEF End
<1> HIDE DEF Entry
<1> QED  BY <1>2, <1>3, <1>4

\* A frame is whole when its length, its checksum and its payload are.
LEMMA FrameAt ==
  ASSUME file \in Seq(Cell), NEW p \in Nat, NEW r \in Records,
         NEW e, e = p + 2 + Len(Body(r)), e <= Len(file)
  PROVE  SubSeq(file, p + 1, e) = Frame(r)
           <=> /\ file[p + 1] = Number(Payload(r)) /\ file[p + 2] = Sum(Body(r))
               /\ SubSeq(file, p + 3, e) = Body(r)
<1> DEFINE b == Body(r)
           f == Frame(r)
           m == Len(b)
           l == Len(file)
<1>1. /\ f \in Seq(Cell) /\ b \in Seq(Cell) /\ Len(f) = 2 + m /\ m \in Nat
      /\ Len(b) = m
      /\ f[1] = Number(Payload(r)) /\ f[2] = Sum(b)
      /\ \A i \in 1 .. m : f[2 + i] = b[i]
  BY FrameShape
<1>2. l \in Nat /\ \A i \in 1 .. l : file[i] \in Cell
  BY LenProperties, ElementOfSeq
<1>3. e = p + 2 + m /\ e <= l /\ e \in Nat /\ m \in Nat
  BY <1>1
<1> HIDE DEF b, f, m, l
<1> DEFINE whole == SubSeq(file, p + 1, e)
           body  == SubSeq(file, p + 3, e)
<1>4. /\ whole \in Seq(Cell) /\ Len(whole) = 2 + m
      /\ \A i \in 1 .. 2 + m : whole[i] = file[p + i]
  <2>1. \A i \in p + 1 .. e : file[i] \in Cell
    BY <1>2, <1>3
  <2>2. /\ whole \in Seq(Cell)
        /\ Len(whole) = IF p + 1 <= e THEN e - (p + 1) + 1 ELSE 0
        /\ \A i \in 1 .. e - (p + 1) + 1 : whole[i] = file[(p + 1) + i - 1]
    BY <2>1, <1>3, SubSeqProperties
  <2>3. e - (p + 1) + 1 = 2 + m /\ p + 1 <= e
    BY <1>3
  <2>4. \A i \in 1 .. 2 + m : (p + 1) + i - 1 = p + i
    BY <1>3
  <2> HIDE DEF whole
  <2> QED  BY <2>2, <2>3, <2>4
<1>5. /\ body \in Seq(Cell) /\ Len(body) = m
      /\ \A i \in 1 .. m : body[i] = file[p + (2 + i)]
  <2>1. \A i \in p + 3 .. e : file[i] \in Cell
    BY <1>2, <1>3
  <2>2. /\ body \in Seq(Cell)
        /\ Len(body) = IF p + 3 <= e THEN e - (p + 3) + 1 ELSE 0
        /\ \A i \in 1 .. e - (p + 3) + 1 : body[i] = file[(p + 3) + i - 1]
    BY <2>1, <1>3, SubSeqProperties
  <2>3. e - (p + 3) + 1 = m /\ (p + 3 <= e <=> m > 0)
    BY <1>3
  <2>4. \A i \in 1 .. m : (p + 3) + i - 1 = p + (2 + i)
    BY <1>3
  <2> HIDE DEF body
  <2> QED  BY <2>2, <2>3, <2>4, <1>1
<1> HIDE DEF whole, body
<1>6. ASSUME whole = f
      PROVE  file[p + 1] = f[1] /\ file[p + 2] = f[2] /\ body = b
  <2>1. 1 \in 1 .. 2 + m /\ 2 \in 1 .. 2 + m
    BY <1>1
  <2>2. \A i \in 1 .. m : body[i] = b[i]
    <3> SUFFICES ASSUME NEW i \in 1 .. m
                 PROVE  body[i] = b[i]
      OBVIOUS
    <3>1. 2 + i \in 1 .. 2 + m
      BY <1>1
    <3>2. whole[2 + i] = file[p + (2 + i)]
      BY <3>1, <1>4
    <3> QED  BY <3>2, <1>1, <1>5, <1>6
  <2>3. body = b
    BY <2>2, <1>1, <1>5, SeqEqual
  <2> QED  BY <2>1, <2>3, <1>4, <1>6
<1>7. ASSUME file[p + 1] = f[1], file[p + 2] = f[2], body = b
      PROVE  whole = f
  <2>1. ASSUME NEW i \in 1 .. 2 + m
        PROVE  whole[i] = f[i]
    <3>1. CASE i = 1
      BY <3>1, <1>4, <1>7
    <3>2. CASE i = 2
      BY <3>2, <1>4, <1>7
    <3>3. CASE i > 2
      <4>1. i - 2 \in 1 .. m /\ 2 + (i - 2) = i
        BY <3>3, <1>1
      <4>2. f[2 + (i - 2)] = b[i - 2] /\ body[i - 2] = file[p + (2 + (i - 2))]
        BY <4>1, <1>1, <1>5
      <4> QED  BY <4>1, <4>2, <1>4, <1>7
    <3> QED  BY <3>1, <3>2, <3>3, <1>1
  <2> QED  BY <2>1, <1>1, <1>4, SeqEqual
<1> QED  BY <1>1, <1>6, <1>7 DEF whole, body, b, f

\* Where next() returns true a whole frame begins, and it returns its record.
LEMMA ReadableIsWhole ==
  ASSUME FileInv, NEW p \in Nat, Readable(p)
  PROVE  \E j \in 1 .. Len(log) :
           /\ log[j].at = p /\ Whole(log[j])
           /\ RecordOf(BodyAt(p)) = log[j].rec /\ FrameEnd(p) = End(log[j])
<1> DEFINE b     == BodyAt(p)
           bytes == file[p + 1].number
           e     == FrameEnd(p)
<1>1. /\ p + 2 <= Len(file) /\ LengthOK(bytes) /\ e <= Len(file)
      /\ bytes % 4 = 0 /\ file[p + 2] = Sum(b)
  BY DEF Readable
<1>2. /\ Len(file) \in Nat /\ \A i \in 1 .. Len(file) : file[i] \in Cell
  BY LenProperties, ElementOfSeq DEF FileInv
<1>3. p + 1 \in 1 .. Len(file) /\ p + 2 \in 1 .. Len(file)
  BY <1>1, <1>2
<1>4. bytes \in Nat /\ bytes >= 8
  BY <1>1, <1>2, <1>3 DEF Cell, LengthOK
<1>5. e = p + 2 + bytes \div 4 /\ bytes = 4 * (bytes \div 4) /\ bytes \div 4 \in Nat
  <2>1. e = p + 2 + bytes \div 4
    BY DEF FrameEnd
  <2>2. bytes \div 4 \in Nat
    BY <1>4
  <2>3. bytes = 4 * (bytes \div 4)
    BY <1>1, <1>4
  <2> QED  BY <2>1, <2>2, <2>3
<1>6. Len(b) = bytes \div 4 /\ Len(b) >= 2
  <2> DEFINE w == bytes \div 4
  <2>1. /\ w \in Nat /\ w >= 2 /\ e = p + 2 + w
    BY <1>4, <1>5
  <2> HIDE DEF w, e
  <2>2. \A i \in p + 3 .. e : file[i] \in Cell
    BY <1>1, <1>2, <2>1
  <2>3. e \in Int /\ p + 3 \in Int /\ p + 3 <= e /\ e - (p + 3) + 1 = w
    BY <2>1
  <2>4. Len(SubSeq(file, p + 3, e)) = e - (p + 3) + 1
    BY <2>2, <2>3, SubSeqProperties
  <2> QED  BY <2>1, <2>3, <2>4 DEF BodyAt, e, w
<1>7. file[p + 2].sum = b /\ b # <<>>
  <2>1. b # <<>>
    BY <1>6
  <2> QED  BY <2>1, <1>1 DEF Sum
<1>8. PICK j \in 1 .. Len(log) :
        log[j].at + 2 = p + 2 /\ file[p + 2].sum = Body(log[j].rec)
  BY <1>3, <1>7 DEF FileInv, SumsSound
<1> DEFINE r == log[j].rec
<1>9. /\ log[j].at \in Nat /\ r \in Records /\ r.ids # <<>>
      /\ End(log[j]) = log[j].at + 2 + Len(Body(r))
  BY EntryType DEF FileInv, Sorted, Fits
<1>10. log[j].at = p /\ Body(r) = b
  BY <1>7, <1>8, <1>9
<1>11. Payload(r) = 4 * Len(b)
  BY <1>9, <1>10, RecordOfBody
<1>12. End(log[j]) = e /\ bytes = Payload(r)
  <2> HIDE DEF b, bytes, e
  <2>1. End(log[j]) = p + 2 + Len(b)
    BY <1>9, <1>10
  <2> QED  BY <2>1, <1>5, <1>6, <1>11
<1>13. file[p + 1] = Number(Payload(r))
  <2>1. file[p + 1] \in Cell
    BY <1>2, <1>3
  <2>2. file[p + 1].sum = <<>>
    <3>1. file[p + 1].number # 0
      BY <1>4
    <3> QED  BY <3>1, <1>3 DEF FileInv, SumsSound
  <2>3. file[p + 1] = [number |-> file[p + 1].number, sum |-> file[p + 1].sum]
    BY <2>1 DEF Cell
  <2> QED  BY <2>2, <2>3, <1>12 DEF Number
<1>14. Whole(log[j])
  <2>1. /\ file \in Seq(Cell) /\ e = p + 2 + Len(Body(r)) /\ e <= Len(file)
        /\ SubSeq(file, p + 3, e) = Body(r) /\ file[p + 2] = Sum(Body(r))
    BY <1>1, <1>5, <1>6, <1>10 DEF FileInv, BodyAt
  <2> HIDE DEF e, b, bytes, r
  <2>2. SubSeq(file, p + 1, e) = Frame(r)
    BY <2>1, <1>9, <1>13, FrameAt
  <2> QED  BY <2>1, <2>2, <1>10, <1>12 DEF Whole, r
<1>15. RecordOf(b) = r
  BY <1>9, <1>10, RecordOfBody
<1> QED  BY <1>10, <1>12, <1>14, <1>15

\* Where a frame is whole next() returns true: the reader refuses nothing that
\* the writer let through.
LEMMA WholeIsReadable ==
  ASSUME FileInv, NEW j \in 1 .. Len(log), Whole(log[j])
  PROVE  Readable(log[j].at)
<1> DEFINE p == log[j].at
           r == log[j].rec
           m == Len(Body(r))
           e == End(log[j])
<1>1. /\ p \in Nat /\ r \in Records /\ Payload(r) <= MaxPayload /\ m \in Nat
      /\ e = p + 2 + m /\ r.ids # <<>>
  BY EntryType DEF FileInv, Sorted, Fits
<1>2. Decodes(Body(r)) /\ Payload(r) = 4 * m /\ m >= 2
  BY <1>1, RecordOfBody
<1>3. e <= Len(file) /\ SubSeq(file, p + 1, e) = Frame(r)
  BY LenProperties, <1>1 DEF Whole, FileInv
<1> HIDE DEF p, r, m, e
<1>4. /\ file[p + 1] = Number(Payload(r)) /\ file[p + 2] = Sum(Body(r))
      /\ SubSeq(file, p + 3, e) = Body(r)
  BY <1>1, <1>3, FrameAt DEF FileInv, m
<1>5. file[p + 1].number = 4 * m
  BY <1>2, <1>4 DEF Number
<1>6. FrameEnd(p) = e
  <2>1. (4 * m) \div 4 = m
    BY <1>1
  <2> QED  BY <2>1, <1>1, <1>5 DEF FrameEnd
<1>7. BodyAt(p) = Body(r)
  BY <1>4, <1>6 DEF BodyAt
<1>8. LengthOK(4 * m) /\ (4 * m) % 4 = 0
  BY <1>1, <1>2, BoundsAssumption DEF LengthOK
<1>9. p + 2 <= Len(file)
  <2>1. Len(file) \in Nat
    BY LenProperties DEF FileInv
  <2> QED  BY <2>1, <1>1, <1>3
<1>10. Readable(p)
  BY <1>2, <1>3, <1>4, <1>5, <1>6, <1>7, <1>8, <1>9 DEF Readable
<1> QED  BY <1>10 DEF p

-----------------------------------------------------------------------------
(* The steps.                                                              *)

LEMMA InitInv == Init => FramesInv
<1> SUFFICES ASSUME Init
             PROVE  FramesInv
  OBVIOUS
<1>1. Len(file) = 0 /\ Len(log) = 0 /\ Len(records) = 0
  BY EmptySeq DEF Init
<1>2. FileInv
  BY <1>1, EmptySeq DEF Init, FileInv, Sorted, SumsSound
<1>3. ReadsWhole
  <2>1. [i \in 1 .. 0 |-> 0] \in [1 .. Len(records) -> 1 .. Len(log)]
    BY <1>1
  <2>2. ReadAs([i \in 1 .. 0 |-> 0])
    BY <1>1 DEF ReadAs, Init
  <2> QED  BY <2>1, <2>2 DEF ReadsWhole, Init
<1>4. PrefixContract
  BY <1>1 DEF PrefixContract, Intact, Init
<1>5. ReadInv
  BY <1>1, <1>3, <1>4, EmptySeq DEF ReadInv, Init
<1>6. Counters
  BY BoundsAssumption DEF Counters, Init
<1> QED  BY <1>2, <1>5, <1>6 DEF FramesInv

\* A reader that has read nothing has not misread.
LEMMA RewoundReads ==
  ASSUME Rewound, FileInv', stage' \in {"reading", "appending"}
  PROVE  ReadInv'
<1>1. /\ pos' = 0 /\ records' = <<>> /\ Len(records') = 0
      /\ Len(log') \in Nat /\ Len(file') \in Nat
  BY EmptySeq, LenProperties DEF Rewound, FileInv
<1>2. ReadsWhole'
  <2>1. [i \in 1 .. 0 |-> 0] \in [1 .. Len(records') -> 1 .. Len(log')]
    BY <1>1
  <2>2. ReadAs([i \in 1 .. 0 |-> 0])'
    BY <1>1 DEF ReadAs
  <2>3. stage' # "replayed"
    OBVIOUS
  <2> QED  BY <2>1, <2>2, <2>3 DEF ReadsWhole
<1>3. PrefixContract'
  BY <1>1 DEF PrefixContract, Intact
<1> QED  BY <1>1, <1>2, <1>3, EmptySeq DEF ReadInv

LEMMA LogRecordFile ==
  ASSUME FileInv, NEW r \in Records, LogRecord(r)
  PROVE  FileInv'
<1>1. CASE ~Fits(r)
  <2>1. UNCHANGED <<file, log>>
    BY <1>1 DEF LogRecord
  <2> QED  BY <2>1 DEF FileInv, Sorted, SumsSound
<1>2. CASE Fits(r)
  <2> DEFINE entry == [at |-> Len(file), rec |-> r]
             f == Frame(r)
             l == Len(file)
             n == Len(log)
             m == Len(Body(r))
  <2>1. /\ file' = file \o f /\ log' = Append(log, entry)
        /\ file \in Seq(Cell) /\ log \in Seq(Entry)
    BY <1>2 DEF LogRecord, FileInv
  <2>2. /\ f \in Seq(Cell) /\ Len(f) = 2 + m /\ m \in Nat
        /\ f[1] = Number(Payload(r)) /\ f[2] = Sum(Body(r))
        /\ \A i \in 1 .. m : f[2 + i] = Body(r)[i] /\ Body(r)[i].sum = <<>>
    BY FrameShape
  <2>3. entry \in Entry /\ entry.at = l /\ entry.rec = r
    BY <1>2, LenProperties, <2>1 DEF Entry, Fits
  <2> HIDE DEF f, entry
  <2>4. /\ log' \in Seq(Entry) /\ n \in Nat /\ Len(log') = n + 1
        /\ \A i \in 1 .. n : log'[i] = log[i]
        /\ log'[n + 1] = entry
    BY <2>1, <2>3, AppendProperties, LenProperties
  <2>5. /\ file' \in Seq(Cell) /\ l \in Nat /\ Len(file') = l + (2 + m)
        /\ \A i \in 1 .. l : file'[i] = file[i]
        /\ \A i \in 1 .. 2 + m : file'[l + i] = f[i]
    <3>1. file \in Seq(Cell) /\ f \in Seq(Cell)
      BY <2>1, <2>2
    <3>2. /\ file \o f \in Seq(Cell) /\ Len(file \o f) = Len(file) + Len(f)
          /\ Len(file) \in Nat
          /\ \A i \in 1 .. Len(file) : (file \o f)[i] = file[i]
          /\ \A i \in 1 .. Len(f) : (file \o f)[Len(file) + i] = f[i]
      BY <3>1, Concat
    <3> QED  BY <3>2, <2>1, <2>2
  <2>6. Sorted'
    <3> SUFFICES ASSUME NEW i \in 1 .. n + 1
                 PROVE  /\ Fits(log'[i].rec) /\ log'[i].at < Len(file')
                        /\ \A j \in 1 .. i - 1 : log'[j].at < log'[i].at
      BY <2>4 DEF Sorted, Fits
    <3>1. CASE i \in 1 .. n
      <4>1. /\ Fits(log[i].rec) /\ log[i].at < l /\ log[i].at \in Nat
            /\ \A j \in 1 .. i - 1 : log[j].at < log[i].at
        BY <3>1, EntryType DEF FileInv, Sorted
      <4>2. \A j \in 1 .. i - 1 : j \in 1 .. n
        BY <3>1, <2>4
      <4> HIDE DEF l
      <4>3. log'[i].at < Len(file')
        BY <3>1, <4>1, <2>2, <2>4, <2>5
      <4> QED  BY <3>1, <4>1, <4>2, <4>3, <2>4
    <3>2. CASE i = n + 1
      <4>1. \A j \in 1 .. n : log[j].at < l
        BY DEF FileInv, Sorted
      <4>2. i - 1 = n
        BY <3>2, <2>4
      <4>3. l < Len(file')
        BY <2>2, <2>5
      <4> QED  BY <1>2, <3>2, <4>1, <4>2, <4>3, <2>3, <2>4
    <3> QED  BY <3>1, <3>2, <2>4
  <2>7. SumsSound'
    <3> SUFFICES ASSUME NEW i \in 1 .. l + (2 + m), file'[i].sum # <<>>
                 PROVE  /\ file'[i].number = 0
                        /\ \E j \in 1 .. n + 1 :
                             log'[j].at + 2 = i /\ file'[i].sum = Body(log'[j].rec)
      BY <2>4, <2>5 DEF SumsSound
    <3>1. CASE i \in 1 .. l
      <4>1. file'[i] = file[i]
        BY <3>1, <2>5
      <4>2. PICK j \in 1 .. n : log[j].at + 2 = i /\ file[i].sum = Body(log[j].rec)
        BY <3>1, <4>1 DEF FileInv, SumsSound
      <4>3. file[i].number = 0
        BY <3>1, <4>1 DEF FileInv, SumsSound
      <4>4. j \in 1 .. n + 1
        BY <2>4
      <4> QED  BY <4>1, <4>2, <4>3, <4>4, <2>4
    <3>2. CASE i = l + 1
      <4>1. file'[i] = f[1]
        BY <3>2, <2>2, <2>5
      <4> QED  BY <4>1, <2>2 DEF Number
    <3>3. CASE i = l + 2
      <4>1. file'[i] = f[2]
        BY <3>3, <2>2, <2>5
      <4>2. file'[i].number = 0 /\ file'[i].sum = Body(r)
        BY <4>1, <2>2 DEF Sum
      <4>3. n + 1 \in 1 .. n + 1
        BY <2>4
      <4> QED  BY <3>3, <4>2, <4>3, <2>3, <2>4
    <3>4. CASE i > l + 2
      <4>1. i - l - 2 \in 1 .. m /\ 2 + (i - l - 2) \in 1 .. 2 + m
            /\ l + (2 + (i - l - 2)) = i
        BY <3>4, <2>2, <2>5
      <4>2. file'[i] = Body(r)[i - l - 2] /\ Body(r)[i - l - 2].sum = <<>>
        BY <4>1, <2>2, <2>5
      <4> QED  BY <4>2
    <3> QED  BY <3>1, <3>2, <3>3, <3>4, <2>5
  <2> QED  BY <2>4, <2>5, <2>6, <2>7 DEF FileInv
<1> QED  BY <1>1, <1>2

LEMMA TruncateFile ==
  ASSUME Truncate
  PROVE  FileInv'
<1>1. file' = <<>> /\ log' = <<>> /\ Len(file') = 0 /\ Len(log') = 0
  BY EmptySeq DEF Truncate
<1> QED  BY <1>1, EmptySeq DEF FileInv, Sorted, SumsSound

\* A cut leaves every checksum it keeps with the frame it is of.
LEMMA CrashFile ==
  ASSUME FileInv, NEW kept \in 0 .. Len(file), NEW zeros \in 0 .. MaxZeros,
         Crash(kept, zeros)
  PROVE  FileInv'
<1> DEFINE left == SubSeq(file, 1, kept)
           grown == [i \in 1 .. zeros |-> Zero]
<1>1. PICK n \in 0 .. Len(log) :
        /\ \A i \in 1 .. Len(log) : i <= n <=> log[i].at < kept
        /\ log' = SubSeq(log, 1, n)
  BY DEF Crash
<1>2. /\ file \in Seq(Cell) /\ log \in Seq(Entry)
      /\ Len(file) \in Nat /\ Len(log) \in Nat /\ kept \in Nat /\ zeros \in Nat
      /\ n \in Nat /\ kept <= Len(file) /\ n <= Len(log)
  BY LenProperties, BoundsAssumption DEF FileInv
<1>3. /\ left \in Seq(Cell) /\ Len(left) = kept
      /\ \A i \in 1 .. kept : left[i] = file[i]
  <2>1. \A i \in 1 .. kept : file[i] \in Cell
    BY <1>2, ElementOfSeq
  <2>2. /\ left \in Seq(Cell) /\ Len(left) = IF 1 <= kept THEN kept - 1 + 1 ELSE 0
        /\ \A i \in 1 .. kept - 1 + 1 : left[i] = file[1 + i - 1]
    BY <1>2, <2>1, SubSeqProperties
  <2>3. kept - 1 + 1 = kept /\ \A i \in 1 .. kept : 1 + i - 1 = i
    BY <1>2
  <2> HIDE DEF left
  <2> QED  BY <1>2, <2>2, <2>3
<1>4. /\ log' \in Seq(Entry) /\ Len(log') = n
      /\ \A i \in 1 .. n : log'[i] = log[i]
  <2> DEFINE s == SubSeq(log, 1, n)
  <2>1. \A i \in 1 .. n : log[i] \in Entry
    BY <1>2, ElementOfSeq
  <2>2. /\ s \in Seq(Entry) /\ Len(s) = IF 1 <= n THEN n - 1 + 1 ELSE 0
        /\ \A i \in 1 .. n - 1 + 1 : s[i] = log[1 + i - 1]
    BY <1>2, <2>1, SubSeqProperties
  <2>3. n - 1 + 1 = n /\ \A i \in 1 .. n : 1 + i - 1 = i
    BY <1>2
  <2>4. log' = s
    BY <1>1
  <2> HIDE DEF s
  <2> QED  BY <1>2, <2>2, <2>3, <2>4
<1>5. /\ grown \in Seq(Cell) /\ Len(grown) = zeros
      /\ \A i \in 1 .. zeros : grown[i].sum = <<>>
  <2>1. Zero \in Cell /\ Zero.sum = <<>>
    BY DEF Zero, Number, Cell
  <2> QED  BY <1>2, <2>1
<1>6. file' = left \o grown
  BY DEF Crash
<1> HIDE DEF left, grown
<1>7. /\ file' \in Seq(Cell) /\ Len(file') = kept + zeros
      /\ \A i \in 1 .. kept : file'[i] = file[i]
      /\ \A i \in 1 .. zeros : file'[kept + i].sum = <<>>
  <2>1. /\ left \o grown \in Seq(Cell) /\ Len(left \o grown) = Len(left) + Len(grown)
        /\ \A i \in 1 .. Len(left) : (left \o grown)[i] = left[i]
        /\ \A i \in 1 .. Len(grown) : (left \o grown)[Len(left) + i] = grown[i]
    <3>1. left \in Seq(Cell) /\ grown \in Seq(Cell)
      BY <1>3, <1>5
    <3> QED  BY <3>1, Concat
  <2> QED  BY <2>1, <1>3, <1>5, <1>6
<1>8. Sorted'
  <2> SUFFICES ASSUME NEW i \in 1 .. n
               PROVE  /\ Fits(log'[i].rec) /\ log'[i].at < Len(file')
                      /\ \A j \in 1 .. i - 1 : log'[j].at < log'[i].at
    BY <1>4 DEF Sorted, Fits
  <2>1. i \in 1 .. Len(log) /\ i <= n /\ \A j \in 1 .. i - 1 : j \in 1 .. n
    BY <1>2
  <2>2. log[i].at < kept /\ log[i].at \in Nat
    BY <2>1, <1>1, <1>2, EntryType
  <2>3. Fits(log[i].rec) /\ \A j \in 1 .. i - 1 : log[j].at < log[i].at
    BY <2>1 DEF FileInv, Sorted
  <2>4. log[i].at < Len(file')
    BY <2>2, <1>2, <1>7
  <2> QED  BY <2>1, <2>3, <2>4, <1>4
<1>9. SumsSound'
  <2> SUFFICES ASSUME NEW i \in 1 .. kept + zeros, file'[i].sum # <<>>
               PROVE  /\ file'[i].number = 0
                      /\ \E j \in 1 .. n :
                           log'[j].at + 2 = i /\ file'[i].sum = Body(log'[j].rec)
    BY <1>4, <1>7 DEF SumsSound
  <2>1. i \in 1 .. kept
    <3>1. CASE i > kept
      <4>1. i - kept \in 1 .. zeros /\ kept + (i - kept) = i
        BY <3>1, <1>2
      <4> QED  BY <4>1, <1>7
    <3> QED  BY <3>1, <1>2
  <2>2. file'[i] = file[i] /\ i \in 1 .. Len(file)
    BY <2>1, <1>2, <1>7
  <2>3. file[i].number = 0
    BY <2>2 DEF FileInv, SumsSound
  <2>4. PICK j \in 1 .. Len(log) : log[j].at + 2 = i /\ file[i].sum = Body(log[j].rec)
    BY <2>2 DEF FileInv, SumsSound
  <2>5. log[j].at < kept
    BY <2>1, <2>4, <1>2, EntryType
  <2>6. j \in 1 .. n
    BY <2>5, <1>1, <1>2
  <2> QED  BY <2>2, <2>3, <2>4, <2>6, <1>4
<1> QED  BY <1>4, <1>7, <1>8, <1>9 DEF FileInv

LEMMA BadCellFile ==
  ASSUME FileInv, NEW i \in 1 .. Len(file), NEW n \in BadNumbers, BadCell(i, n)
  PROVE  FileInv'
<1>1. /\ file' = [file EXCEPT ![i] = Number(n)] /\ log' = log
      /\ file \in Seq(Cell) /\ log \in Seq(Entry)
  BY DEF BadCell, FileInv
<1>2. Number(n) \in Cell /\ Number(n).sum = <<>>
  BY BoundsAssumption DEF Number, Cell
<1>3. /\ file' \in Seq(Cell) /\ Len(file') = Len(file)
      /\ \A j \in 1 .. Len(file) : file'[j] = IF j = i THEN Number(n) ELSE file[j]
  BY <1>1, <1>2, ExceptSeq
<1>4. Sorted'
  BY <1>1, <1>3 DEF FileInv, Sorted, Fits
<1>5. SumsSound'
  BY <1>1, <1>2, <1>3 DEF FileInv, SumsSound
<1> QED  BY <1>1, <1>3, <1>4, <1>5 DEF FileInv

\* One record more is one whole entry more; unless frames overlap it is the next
\* one of the log, because the frames lie in the order of the log.
LEMMA ReadRecordReads ==
  ASSUME FileInv, ReadInv, ReadRecord
  PROVE  ReadInv'
<1> DEFINE n == Len(records)
           m == Len(log)
<1>1. /\ stage = "reading" /\ Readable(pos) /\ stage' = stage
      /\ records' = Append(records, RecordOf(BodyAt(pos)))
      /\ pos' = FrameEnd(pos) /\ file' = file /\ log' = log
  BY DEF ReadRecord
<1>2. /\ n \in Nat /\ m \in Nat /\ Len(file) \in Nat /\ pos \in Nat
      /\ records \in Seq(Records)
  BY LenProperties DEF ReadInv, FileInv
<1>3. PICK j \in 1 .. m :
        /\ log[j].at = pos /\ Whole(log[j])
        /\ RecordOf(BodyAt(pos)) = log[j].rec /\ FrameEnd(pos) = End(log[j])
  BY <1>1, <1>2, ReadableIsWhole
<1>4. log[j].rec \in Records /\ End(log[j]) \in Nat
  BY EntryType DEF FileInv
<1>5. /\ records' \in Seq(Records) /\ Len(records') = n + 1
      /\ \A i \in 1 .. n : records'[i] = records[i]
      /\ records'[n + 1] = log[j].rec
  BY <1>1, <1>2, <1>3, <1>4, AppendProperties
<1>6. pos' \in 0 .. Len(file') /\ pos' = End(log[j])
  BY <1>1, <1>2, <1>3, <1>4 DEF Whole
<1>7. \A k \in 1 .. m : Whole(log[k])' <=> Whole(log[k])
  BY <1>1 DEF Whole, End
<1>8. \A k \in 1 .. m : End(log[k])' = End(log[k])
  BY <1>1 DEF End
<1> HIDE DEF n, m
<1>9. ReadsWhole'
  <2>0. PICK s \in [1 .. n -> 1 .. m] : ReadAs(s)
    BY DEF ReadInv, ReadsWhole, n, m
  <2>1. /\ \A i \in 1 .. n :
             /\ Whole(log[s[i]]) /\ records[i] = log[s[i]].rec
             /\ log[s[i]].at = IF i = 1 THEN 0 ELSE End(log[s[i - 1]])
        /\ pos = IF n = 0 THEN 0 ELSE End(log[s[n]])
    BY <2>0 DEF ReadAs, n
  <2>2. PICK t \in [1 .. n + 1 -> 1 .. m] :
          t[n + 1] = j /\ \A i \in 1 .. n : t[i] = s[i]
    <3> DEFINE u == [i \in 1 .. n + 1 |-> IF i <= n THEN s[i] ELSE j]
    <3>1. /\ u \in [1 .. n + 1 -> 1 .. m] /\ u[n + 1] = j
          /\ \A i \in 1 .. n : u[i] = s[i]
      BY <1>2
    <3> QED  BY <3>1
  <2>3. ASSUME NEW i \in 1 .. n + 1
        PROVE  /\ Whole(log[t[i]]) /\ records'[i] = log[t[i]].rec
               /\ log[t[i]].at = IF i = 1 THEN 0 ELSE End(log[t[i - 1]])
    <3>1. CASE i \in 1 .. n
      <4>1. i # 1 => i - 1 \in 1 .. n
        BY <3>1, <1>2
      <4> QED  BY <3>1, <4>1, <2>1, <2>2, <1>5
    <3>2. CASE i = n + 1
      <4>1. i # 1 => i - 1 = n /\ n \in 1 .. n /\ n # 0
        BY <3>2, <1>2
      <4>2. i = 1 => n = 0
        BY <3>2, <1>2
      <4> QED  BY <3>2, <4>1, <4>2, <2>1, <2>2, <1>3, <1>5
    <3> QED  BY <3>1, <3>2, <1>2
  <2>4. pos' = End(log[t[n + 1]]) /\ n + 1 # 0
    BY <2>2, <1>2, <1>6
  <2>5. \A i \in 1 .. n + 1 : t[i] \in 1 .. m /\ (i # 1 => t[i - 1] \in 1 .. m)
    <3> SUFFICES ASSUME NEW i \in 1 .. n + 1
                 PROVE  t[i] \in 1 .. m /\ (i # 1 => t[i - 1] \in 1 .. m)
      OBVIOUS
    <3>1. i # 1 => i - 1 \in 1 .. n + 1
      BY <1>2
    <3> QED  BY <3>1, <2>2
  <2>6. ReadAs(t)'
    <3>1. \A i \in 1 .. n + 1 : Whole(log[t[i]])'
      BY <2>3, <1>1 DEF Whole, End
    <3>2. \A i \in 1 .. n + 1 :
            /\ records'[i] = log'[t[i]].rec
            /\ log'[t[i]].at = IF i = 1 THEN 0 ELSE End(log'[t[i - 1]])
      BY <2>3, <1>1 DEF End
    <3>3. pos' = IF n + 1 = 0 THEN 0 ELSE End(log'[t[n + 1]])
      BY <2>4, <1>1 DEF End
    <3> QED  BY <3>1, <3>2, <3>3, <1>5 DEF ReadAs
  <2>7. t \in [1 .. Len(records') -> 1 .. Len(log')]
    BY <2>2, <1>1, <1>5 DEF m
  <2>8. stage' # "replayed"
    BY <1>1
  <2> QED  BY <2>6, <2>7, <2>8 DEF ReadsWhole
<1>10. PrefixContract'
  <2> SUFFICES ASSUME Apart'
               PROVE  /\ n + 1 <= m /\ Intact(n + 1)
                      /\ \A i \in 1 .. n + 1 : records'[i] = log[i].rec
                      /\ pos' = End(log[n + 1])
    <3>1. Len(records') = n + 1 /\ n + 1 # 0 /\ log' = log /\ file' = file
      BY <1>1, <1>2, <1>5
    <3>2. stage' # "replayed"
      BY <1>1
    <3> QED  BY <3>1, <3>2 DEF PrefixContract, Intact, Whole, End, m
  <2>1. Apart
    BY <1>1 DEF Apart, Whole, End
  <2>2. /\ n <= m /\ Intact(n)
        /\ \A i \in 1 .. n : records[i] = log[i].rec
        /\ pos = IF n = 0 THEN 0 ELSE End(log[n])
    BY <2>1 DEF ReadInv, PrefixContract, n, m
  <2>3. \A k \in 1 .. m : log[k].at \in Nat /\ End(log[k]) \in Nat /\ End(log[k]) > log[k].at
    BY EntryType DEF FileInv, m
  <2>4. \A k \in 1 .. m : \A i \in 1 .. k - 1 : log[i].at < log[k].at
    BY DEF FileInv, Sorted, m
  <2>5. j = n + 1
    <3>1. CASE n = 0
      <4>1. log[j].at = 0
        BY <3>1, <2>2, <1>3
      <4>2. CASE j > 1
        <5>1. 1 \in 1 .. j - 1 /\ 1 \in 1 .. m
          BY <4>2, <1>2
        <5>2. log[1].at < log[j].at /\ log[1].at \in Nat
          BY <5>1, <2>3, <2>4
        <5> QED  BY <4>1, <5>2
      <4> QED  BY <3>1, <4>2, <1>2
    <3>2. CASE n > 0
      <4>1. n \in 1 .. m /\ log[j].at = End(log[n]) /\ Whole(log[n])
        BY <3>2, <2>2, <1>2, <1>3 DEF Intact
      <4>2. log[j].at > log[n].at
        BY <4>1, <2>3
      <4>3. j > n
        <5>1. CASE j = n
          BY <5>1, <4>2, <2>3
        <5>2. CASE j < n
          <6>1. j \in 1 .. n - 1
            BY <5>2, <4>1, <1>2
          <6>2. log[j].at < log[n].at
            BY <6>1, <4>1, <2>4
          <6> QED  BY <6>2, <4>1, <4>2, <2>3
        <5> QED  BY <5>1, <5>2, <1>2
      <4>4. CASE j > n + 1
        <5>1. /\ n + 1 \in 1 .. j - 1 /\ n + 1 \in 2 .. m /\ n + 1 \in 1 .. m
              /\ (n + 1) - 1 = n
          BY <4>4, <3>2, <1>2
        <5>2. log[n + 1].at < log[j].at
          BY <5>1, <2>4
        <5>3. log[n + 1].at >= End(log[n])
          BY <5>1, <4>1, <2>1 DEF Apart, m
        <5> QED  BY <5>1, <5>2, <5>3, <4>1, <2>3
      <4> QED  BY <4>3, <4>4, <1>2
    <3> QED  BY <3>1, <3>2, <1>2
  <2>6. ASSUME NEW i \in 1 .. n + 1
        PROVE  /\ Whole(log[i]) /\ records'[i] = log[i].rec
               /\ log[i].at = IF i = 1 THEN 0 ELSE End(log[i - 1])
    <3>1. CASE i \in 1 .. n
      BY <3>1, <2>2, <1>5 DEF Intact
    <3>2. CASE i = n + 1
      <4>1. IF i = 1 THEN n = 0 ELSE i - 1 = n /\ n # 0
        BY <3>2, <1>2
      <4> QED  BY <3>2, <4>1, <2>2, <2>5, <1>3, <1>5
    <3> QED  BY <3>1, <3>2, <1>2
  <2> QED  BY <2>5, <2>6, <1>2, <1>6 DEF Intact
<1>11. stage' = "reading"
  BY <1>1
<1> QED  BY <1>5, <1>6, <1>9, <1>10, <1>11 DEF ReadInv

LEMMA StopReadingReads ==
  ASSUME FileInv, ReadInv, StopReading
  PROVE  ReadInv'
<1>1. /\ ~Readable(pos) /\ stage' = "replayed"
      /\ records' = records /\ pos' = pos /\ file' = file /\ log' = log
  BY DEF StopReading
<1>2. \A j \in 1 .. Len(log) : ~(log[j].at = pos /\ Whole(log[j]))
  BY <1>1, WholeIsReadable
<1>3. ReadsWhole'
  <2>1. \E s \in [1 .. Len(records) -> 1 .. Len(log)] : ReadAs(s)
    BY DEF ReadInv, ReadsWhole
  <2> QED  BY <2>1, <1>1, <1>2 DEF ReadsWhole, ReadAs, Whole, End
<1>4. PrefixContract'
  <2> SUFFICES ASSUME Apart
               PROVE  LET n == Len(records)
                      IN  /\ n <= Len(log) /\ Intact(n)
                          /\ \A i \in 1 .. n : records[i] = log[i].rec
                          /\ pos = IF n = 0 THEN 0 ELSE End(log[n])
                          /\ n < Len(log) => ~Intact(n + 1)
    BY <1>1 DEF PrefixContract, Apart, Intact, Whole, End
  <2> DEFINE n == Len(records)
  <2>1. n \in Nat /\ Len(log) \in Nat
    BY LenProperties DEF ReadInv, FileInv
  <2>2. /\ n <= Len(log) /\ Intact(n)
        /\ \A i \in 1 .. n : records[i] = log[i].rec
        /\ pos = IF n = 0 THEN 0 ELSE End(log[n])
    BY DEF ReadInv, PrefixContract
  <2> HIDE DEF n
  <2>3. ASSUME n < Len(log), Intact(n + 1)
        PROVE  FALSE
    <3>1. n + 1 \in 1 .. n + 1 /\ n + 1 \in 1 .. Len(log) /\ (n + 1) - 1 = n
          /\ (n + 1 = 1 <=> n = 0)
      BY <2>1, <2>3
    <3>2. Whole(log[n + 1]) /\ log[n + 1].at = IF n + 1 = 1 THEN 0 ELSE End(log[(n + 1) - 1])
      BY <3>1, <2>3 DEF Intact
    <3> QED  BY <3>1, <3>2, <2>2, <1>2
  <2> QED  BY <2>2, <2>3 DEF n
<1> QED  BY <1>1, <1>3, <1>4 DEF ReadInv

LEMMA StepInv == FramesInv /\ [Next]_vars => FramesInv'
<1> SUFFICES ASSUME FramesInv, [Next]_vars
             PROVE  FramesInv'
  OBVIOUS
<1>1. FileInv /\ ReadInv /\ Counters
  BY DEF FramesInv
<1>2. ASSUME UNCHANGED <<file, log>>
      PROVE  FileInv'
  BY <1>1, <1>2 DEF FileInv, Sorted, SumsSound
<1>3. CASE OpenReader
  <2>1. FileInv' /\ Rewound /\ stage' = "reading" /\ Counters'
    BY <1>1, <1>2, <1>3 DEF OpenReader, Counters
  <2> QED  BY <2>1, RewoundReads DEF FramesInv
<1>4. CASE ReadRecord
  <2>1. FileInv' /\ Counters'
    BY <1>1, <1>2, <1>4 DEF ReadRecord, Counters
  <2> QED  BY <2>1, <1>1, <1>4, ReadRecordReads DEF FramesInv
<1>5. CASE StopReading
  <2>1. FileInv' /\ Counters'
    BY <1>1, <1>2, <1>5 DEF StopReading, Counters
  <2> QED  BY <2>1, <1>1, <1>5, StopReadingReads DEF FramesInv
<1>6. CASE OpenWriter
  <2>1. FileInv' /\ Rewound /\ stage' = "appending" /\ Counters'
    BY <1>1, <1>2, <1>6 DEF OpenWriter, Counters
  <2> QED  BY <2>1, RewoundReads DEF FramesInv
<1>7. ASSUME NEW r \in Records, LogRecord(r)
      PROVE  FramesInv'
  <2>1. FileInv'
    BY <1>1, <1>7, LogRecordFile
  <2>2. stage = "appending" /\ stage' = stage /\ pos' = pos /\ records' = records
    BY <1>7 DEF LogRecord
  <2>3. ReadInv'
    BY <2>1, <2>2, <1>1, RewoundReads DEF ReadInv, Rewound
  <2>4. Counters'
    BY <1>1, <1>7, BoundsAssumption DEF LogRecord, Counters
  <2> QED  BY <2>1, <2>3, <2>4 DEF FramesInv
<1>8. CASE Truncate
  <2>1. FileInv'
    BY <1>8, TruncateFile
  <2>2. stage = "appending" /\ stage' = stage /\ pos' = pos /\ records' = records
    BY <1>8 DEF Truncate
  <2>3. ReadInv'
    BY <2>1, <2>2, <1>1, RewoundReads DEF ReadInv, Rewound
  <2>4. Counters'
    BY <1>1, <1>8 DEF Truncate, Counters
  <2> QED  BY <2>1, <2>3, <2>4 DEF FramesInv
<1>9. ASSUME NEW kept \in 0 .. Len(file), NEW zeros \in 0 .. MaxZeros,
             Crash(kept, zeros)
      PROVE  FramesInv'
  <2>1. FileInv'
    BY <1>1, <1>9, CrashFile
  <2>2. ReadInv'
    BY <2>1, <1>9, RewoundReads DEF Crash
  <2>3. Counters'
    BY <1>1, <1>9, BoundsAssumption DEF Crash, Fault, Counters
  <2> QED  BY <2>1, <2>2, <2>3 DEF FramesInv
<1>10. ASSUME NEW i \in 1 .. Len(file), NEW n \in BadNumbers, BadCell(i, n)
       PROVE  FramesInv'
  <2>1. FileInv'
    BY <1>1, <1>10, BadCellFile
  <2>2. stage = "appending" /\ stage' = stage /\ pos' = pos /\ records' = records
    BY <1>10 DEF BadCell
  <2>3. ReadInv'
    BY <2>1, <2>2, <1>1, RewoundReads DEF ReadInv, Rewound
  <2>4. Counters'
    BY <1>1, <1>10, BoundsAssumption DEF BadCell, Fault, Counters
  <2> QED  BY <2>1, <2>3, <2>4 DEF FramesInv
<1>11. CASE UNCHANGED vars
  <2>1. FileInv'
    BY <1>2, <1>11 DEF vars
  <2>2. ReadsWhole' /\ PrefixContract'
    <3>1. file' = file /\ log' = log /\ stage' = stage /\ pos' = pos /\ records' = records
      BY <1>11 DEF vars
    <3>2. PICK s \in [1 .. Len(records) -> 1 .. Len(log)] : ReadAs(s)
      BY <1>1 DEF ReadInv, ReadsWhole
    <3>3. ReadAs(s)'
      BY <3>1, <3>2 DEF ReadAs, Whole, End
    <3>4. ReadsWhole'
      BY <1>1, <3>1, <3>3 DEF ReadInv, ReadsWhole, Whole, End
    <3>5. PrefixContract'
      BY <1>1, <3>1 DEF ReadInv, PrefixContract, Apart, Intact, Whole, End
    <3> QED  BY <3>4, <3>5
  <2>3. ReadInv' /\ Counters'
    BY <1>1, <1>11, <2>2 DEF vars, ReadInv, Counters
  <2> QED  BY <2>1, <2>3 DEF FramesInv
<1> QED  BY <1>3, <1>4, <1>5, <1>6, <1>7, <1>8, <1>9, <1>10, <1>11 DEF Next

-----------------------------------------------------------------------------
(* The results.                                                            *)

LEMMA InvHolds == Spec => []FramesInv
<1> QED  BY InitInv, StepInv, PTL DEF Spec

\* What is in the file is typed; no checksum in it is of anything but a record
\* that may be logged.
THEOREM TypesHold == Spec => []TypeOK
<1>1. FramesInv => TypeOK
  BY DEF FramesInv, FileInv, ReadInv, Counters, TypeOK, Cell, Bodies, Entry
<1> QED  BY <1>1, InvHolds, PTL

\* However the file was cut, filled with zeros, damaged and appended to, the
\* reader returns unchanged frames, each where the last one ended, and misses
\* none where it stops.
THEOREM ReadsWholeFrames == Spec => []ReadsWhole
<1>1. FramesInv => ReadsWhole
  BY DEF FramesInv, ReadInv
<1> QED  BY <1>1, InvHolds, PTL

\* The prefix contract of wal.hpp, unless a cut frame was completed by the
\* first cells of the next.
THEOREM PrefixContractHolds == Spec => []PrefixContract
<1>1. FramesInv => PrefixContract
  BY DEF FramesInv, ReadInv
<1> QED  BY <1>1, InvHolds, PTL
=============================================================================
