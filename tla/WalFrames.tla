----------------------------- MODULE WalFrames ------------------------------
(***************************************************************************)
(* The bytes of wal.log: WalWriter::append, WalReader::next, and what a    *)
(* crash or a bad sector makes of a file.  This is what lets DurableStore  *)
(* take a log for a sequence of frames, in which a frame that is cut hides *)
(* all that follow.                                                        *)
(*                                                                         *)
(* A file is a sequence of cells of four bytes.  A cell holds a number or  *)
(* the checksum of a sequence of cells, which is taken to be injective;    *)
(* the checksum of no cells is zero, as it is for CRC-32.                  *)
(*                                                                         *)
(* Auxiliary: "log" is what the writer put into the file and where, less   *)
(* the records of which a crash left nothing; "records" is what next()     *)
(* has handed to replay_wal.                                               *)
(***************************************************************************)
EXTENDS Integers, Sequences

CONSTANTS
  Records,      \* [op, ids, vecs]: what the engine may log
  MaxPayload,   \* kMaxPayload, in bytes
  BadNumbers,   \* what a bad sector may hold
  MaxZeros,     \* bound: cells that grew and were not written
  MaxAppends,   \* bound: append calls
  MaxFaults     \* bound: crashes and bad cells

VARIABLES
  file, log, appends, faults,
  stage,        \* "reading", "replayed", "appending"
  pos,          \* pos_, in cells
  records

vars == <<file, log, appends, faults, stage, pos, records>>

kWalInsert == 1
kWalRemove == 2
kWalBulk   == 3

ASSUME BoundsAssumption ==
  /\ MaxPayload \in Nat /\ BadNumbers \subseteq Nat
  /\ MaxZeros \in Nat /\ MaxAppends \in Nat /\ MaxFaults \in Nat

\* insert() and insert_bulk() log ids and vectors, remove() one id.
ASSUME RecordsAssumption ==
  \A r \in Records :
    /\ r \in [op : {kWalInsert, kWalRemove, kWalBulk}, ids : Seq(Nat), vecs : Seq(Nat)]
    /\ r.op = kWalRemove => Len(r.ids) = 1 /\ r.vecs = <<>>

Number(n) == [number |-> n, sum |-> <<>>]
Sum(body) == [number |-> 0, sum |-> body]
Zero      == Number(0)

-----------------------------------------------------------------------------
(* The writer: [length][checksum] [op, 3 reserved][count] ids vectors.     *)

Payload(r) == 8 + 8 * Len(r.ids) + 4 * Len(r.vecs)

Body(r) ==
  <<Number(r.op), Number(Len(r.ids))>>
  \o [i \in 1 .. 2 * Len(r.ids) |->
        IF i % 2 = 1 THEN Number(r.ids[(i + 1) \div 2]) ELSE Zero]
  \o [i \in 1 .. Len(r.vecs) |-> Number(r.vecs[i])]

Frame(r) == <<Number(Payload(r)), Sum(Body(r))>> \o Body(r)

\* Mutant of Fits: the writer has no limit.
FitsAlways(r) == r.ids # <<>>

Fits(r) == r.ids # <<>> /\ Payload(r) <= MaxPayload

-----------------------------------------------------------------------------
(* The reader.                                                             *)

\* Mutant of LengthOK: the longest frame of the writer is refused.
LengthBelow(bytes) == bytes >= 8 /\ bytes < MaxPayload

LengthOK(bytes) == bytes >= 8 /\ bytes <= MaxPayload

\* The checks of a payload whose checksum is right.
Decodes(body) ==
  LET op    == body[1].number
      count == body[2].number
      vecs  == Len(body) - 2 - 2 * count
  IN  /\ op \in {kWalInsert, kWalRemove, kWalBulk}
      /\ 2 + 2 * count <= Len(body)
      /\ op = kWalRemove => count = 1 /\ vecs = 0

RecordOf(body) ==
  LET count == body[2].number
  IN  [op   |-> body[1].number,
       ids  |-> [i \in 1 .. count |-> body[1 + 2 * i].number],
       vecs |-> [i \in 1 .. Len(body) - 2 - 2 * count |->
                   body[2 + 2 * count + i].number]]

\* The end of the frame that the length at a position promises.
FrameEnd(p) == p + 2 + file[p + 1].number \div 4

BodyAt(p) == SubSeq(file, p + 3, FrameEnd(p))

\* Mutant of Readable: the checksum is not compared.
ReadableUnsummed(p) ==
  /\ p + 2 <= Len(file)
  /\ LengthOK(file[p + 1].number)
  /\ FrameEnd(p) <= Len(file)
  /\ Decodes(BodyAt(p))

\* next() returns true.  The checksum of a payload that is not whole cells is
\* none that the writer made.
Readable(p) ==
  /\ p + 2 <= Len(file)
  /\ LengthOK(file[p + 1].number)
  /\ FrameEnd(p) <= Len(file)
  /\ file[p + 1].number % 4 = 0 /\ file[p + 2] = Sum(BodyAt(p))
  /\ Decodes(BodyAt(p))

-----------------------------------------------------------------------------
\* A reader at the start of the file.
Rewound == pos' = 0 /\ records' = <<>>

Init ==
  /\ file = <<>> /\ log = <<>> /\ appends = 0 /\ faults = 0
  /\ stage = "reading" /\ pos = 0 /\ records = <<>>

\* WalReader::open(): a copy of the file is read, which then stays the same.
OpenReader ==
  /\ stage = "appending"
  /\ stage' = "reading" /\ Rewound
  /\ UNCHANGED <<file, log, appends, faults>>

ReadRecord ==
  /\ stage = "reading" /\ Readable(pos)
  /\ records' = Append(records, RecordOf(BodyAt(pos)))
  /\ pos' = FrameEnd(pos)
  /\ UNCHANGED <<file, log, appends, faults, stage>>

StopReading ==
  /\ stage = "reading" /\ ~Readable(pos)
  /\ stage' = "replayed"
  /\ UNCHANGED <<file, log, appends, faults, pos, records>>

\* WalWriter::open(), wherever the reader stopped; the reader is gone.
OpenWriter ==
  /\ stage = "replayed"
  /\ stage' = "appending" /\ Rewound
  /\ UNCHANGED <<file, log, appends, faults>>

\* append(): the file is open with "ab", so a frame goes behind whatever is
\* there; a call that does not fit writes nothing.
LogRecord(r) ==
  /\ stage = "appending"
  /\ appends < MaxAppends
  /\ appends' = appends + 1
  /\ IF Fits(r)
     THEN /\ file' = file \o Frame(r)
          /\ log' = Append(log, [at |-> Len(file), rec |-> r])
     ELSE UNCHANGED <<file, log>>
  /\ UNCHANGED <<faults, stage, pos, records>>

Truncate ==
  /\ stage = "appending" /\ file # <<>>
  /\ file' = <<>> /\ log' = <<>>
  /\ UNCHANGED <<appends, faults, stage, pos, records>>

Fault == faults < MaxFaults /\ faults' = faults + 1

\* A crash keeps a part of the file; cells whose length was written and whose
\* content was not are zero.  The next open() reads what is left.  A write
\* that fails half way leaves files of the same kind.
Crash(kept, zeros) ==
  /\ Fault
  /\ kept + zeros <= Len(file)
  /\ file' = SubSeq(file, 1, kept) \o [i \in 1 .. zeros |-> Zero]
  /\ \E n \in 0 .. Len(log) :
       /\ \A i \in 1 .. Len(log) : i <= n <=> log[i].at < kept
       /\ log' = SubSeq(log, 1, n)
  /\ stage' = "reading" /\ Rewound
  /\ UNCHANGED appends

\* A bad sector shows at the next open().
BadCell(i, n) ==
  /\ stage = "appending" /\ Fault
  /\ file' = [file EXCEPT ![i] = Number(n)]
  /\ UNCHANGED <<log, appends, stage, pos, records>>

Next ==
  \/ OpenReader \/ ReadRecord \/ StopReading \/ OpenWriter
  \/ \E r \in Records : LogRecord(r)
  \/ Truncate
  \/ \E kept \in 0 .. Len(file), zeros \in 0 .. MaxZeros : Crash(kept, zeros)
  \/ \E i \in 1 .. Len(file), n \in BadNumbers : BadCell(i, n)

Spec == Init /\ [][Next]_vars

-----------------------------------------------------------------------------
\* A checksum is that of a record; the log holds what the reader accepts.
TypeOK ==
  /\ file \in Seq([number : Nat, sum : {<<>>} \cup {Body(r) : r \in Records}])
  /\ log \in Seq([at : Nat, rec : {r \in Records : Payload(r) <= MaxPayload}])
  /\ appends \in 0 .. MaxAppends /\ faults \in 0 .. MaxFaults
  /\ stage \in {"reading", "replayed", "appending"}
  /\ pos \in 0 .. Len(file) /\ records \in Seq(Records)

End(entry) == entry.at + Len(Frame(entry.rec))

\* The frame is as it was written.
Whole(entry) ==
  Len(file) >= End(entry) /\ SubSeq(file, entry.at + 1, End(entry)) = Frame(entry.rec)

\* The records read are those of these entries, whole and without a gap.
ReadAs(s) ==
  LET n == Len(records)
  IN  /\ \A i \in 1 .. n :
           /\ Whole(log[s[i]])
           /\ records[i] = log[s[i]].rec
           /\ log[s[i]].at = IF i = 1 THEN 0 ELSE End(log[s[i - 1]])
      /\ pos = IF n = 0 THEN 0 ELSE End(log[s[n]])

\* "Everything before it is applied verbatim" (wal.hpp): however a file is
\* cut, filled with zeros, damaged and appended to, the reader returns frames
\* that were appended and are unchanged, each where the last one ended, and
\* stops where none begins.
ReadsWhole ==
  /\ \E s \in [1 .. Len(records) -> 1 .. Len(log)] : ReadAs(s)
  /\ stage = "replayed" =>
       \A j \in 1 .. Len(log) : ~(log[j].at = pos /\ Whole(log[j]))

\* No frame lost its first cells to a cut frame before it, which they completed.
Apart ==
  \A i \in 2 .. Len(log) : Whole(log[i - 1]) => log[i].at >= End(log[i - 1])

\* The entries up to the n-th are whole and stand without a gap.
Intact(n) ==
  \A i \in 1 .. n : Whole(log[i]) /\ log[i].at = IF i = 1 THEN 0 ELSE End(log[i - 1])

\* "Decodes the next valid record ... returns false at EOF or at the first
\* invalid frame (the prefix contract)" (wal.hpp): the records read are the
\* first ones of the log, all that come before the first damaged one.
PrefixContract ==
  Apart =>
    LET n == Len(records)
    IN  /\ n <= Len(log) /\ Intact(n)
        /\ \A i \in 1 .. n : records[i] = log[i].rec
        /\ pos = IF n = 0 THEN 0 ELSE End(log[n])
        /\ stage = "replayed" /\ n < Len(log) => ~Intact(n + 1)
=============================================================================
