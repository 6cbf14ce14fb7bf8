-------------------------- MODULE EventSpool_proofs --------------------------
(***************************************************************************)
(* Proofs about EventSpool, for every segment size, byte cap, record size  *)
(* and number of pushes and crashes.                                       *)
(***************************************************************************)
EXTENDS EventSpool, TLAPS, WellFoundedInduction, NaturalsInduction

\* The part of the type invariant the argument rests on.
DiskTypes ==
    /\ Dir(jsonl) /\ Dir(inflight)
    /\ head \in [seq : Nat, records : Nat, bytes : Nat]
    /\ in_flight \in Nat \union {None}
    /\ up \in BOOLEAN
    /\ pushes \in Nat

\* No segment is numbered beyond the one a rotation would start.
Bounded == \A s \in DOMAIN jsonl \union DOMAIN inflight : s <= head.seq + 1

\* While no write fails, a running spool appends after a whole line.
HeadClosed ==
    ~failed /\ up /\ head.seq \in DOMAIN jsonl => ~jsonl[head.seq].open

\* The inductive invariant behind NoSilentLoss.
IInv ==
    /\ DiskTypes
    /\ SegmentNames
    /\ Bounded
    /\ HeadClosed
    /\ NoSilentLoss
-----------------------------------------------------------------------------
\* Appending to a file that ends in a newline keeps every record in it, and a
\* whole line adds its own.
LEMMA ExtendFile ==
    ASSUME NEW f \in File, NEW line \in Line, NEW n \in Nat, NEW c \in BOOLEAN
    PROVE  /\ Extend(f, line, n, c) \in File
           /\ ~f.open => RecordsOf(f) \subseteq RecordsOf(Extend(f, line, n, c))
           /\ ~f.open /\ n # 0 /\ line.kind = "record"
                => line.rec \in RecordsOf(Extend(f, line, n, c))
<1> DEFINE e == Extend(f, line, n, c)
<1>1. /\ f = [lines |-> f.lines, bytes |-> f.bytes, open |-> f.open]
      /\ f.lines \in Seq(Line) /\ f.bytes \in Nat /\ f.open \in BOOLEAN
    BY DEF File
<1>2. e.lines \in Seq(Line)
    <2> DEFINE k == Len(f.lines)
               glued == [kind |-> IF "invalid" \in {f.lines[k].kind, line.kind}
                                  THEN "invalid" ELSE "torn",
                         rec |-> line.rec]
               g == [f.lines EXCEPT ![k] = glued]
    <2>1. glued \in Line
        BY DEF Line, LineKinds
    <2>2. g \in Seq(Line)
        <3>1. f.lines \in [1 .. k -> Line] /\ k \in Nat
            BY <1>1
        <3> HIDE DEF glued
        <3>2. g \in [1 .. k -> Line]
            BY Zenon, <2>1, <3>1
        <3>3. QED  BY <3>1, <3>2
    <2>3. e.lines \in {f.lines, g, Append(f.lines, line)}
        BY DEF Extend
    <2>4. Append(f.lines, line) \in Seq(Line)
        BY <1>1
    <2> HIDE DEF e, g
    <2>5. QED  BY Zenon, <1>1, <2>2, <2>3, <2>4
<1>3. e \in File
    <2> DEFINE o == IF n = 0 THEN f.open ELSE ~c
    <2>1. e = [lines |-> e.lines, bytes |-> f.bytes + n, open |-> o]
        BY DEF Extend
    <2>2. o \in BOOLEAN
        BY Zenon, <1>1
    <2> HIDE DEF e, o
    <2>3. f.bytes + n \in Nat
        BY <1>1
    <2>4. QED  BY <1>2, <2>1, <2>2, <2>3 DEF File
<1>4. ASSUME ~f.open, n # 0
      PROVE  /\ RecordsOf(f) \subseteq RecordsOf(e)
             /\ line.kind = "record" => line.rec \in RecordsOf(e)
    <2>1. e.lines = Append(f.lines, line)
        BY <1>4 DEF Extend
    <2>2. /\ DOMAIN e.lines = 1 .. Len(f.lines) + 1
          /\ DOMAIN f.lines = 1 .. Len(f.lines)
          /\ Len(f.lines) \in Nat
          /\ \A i \in 1 .. Len(f.lines) : e.lines[i] = f.lines[i]
          /\ e.lines[Len(f.lines) + 1] = line
        BY <1>1, <2>1
    <2> HIDE DEF e
    <2>3. ASSUME NEW r \in RecordsOf(f)  PROVE r \in RecordsOf(e)
        <3>1. PICK i \in DOMAIN f.lines : f.lines[i].kind = "record" /\ f.lines[i].rec = r
            BY <2>3 DEF RecordsOf
        <3>2. i \in DOMAIN e.lines /\ e.lines[i] = f.lines[i]
            BY <2>2
        <3>3. QED  BY <3>1, <3>2 DEF RecordsOf
    <2>4. line.kind = "record" => line.rec \in RecordsOf(e)
        BY <2>2 DEF RecordsOf
    <2>5. QED  BY <2>3, <2>4
<1>5. ASSUME n = 0  PROVE RecordsOf(f) \subseteq RecordsOf(e)
    BY <1>5 DEF Extend, RecordsOf
<1>6. QED  BY <1>3, <1>4, <1>5

\* Writing the file at one name changes no other, and loses no record when the
\* new contents keep those of the old.
LEMMA PutFile ==
    ASSUME NEW d, Dir(d), NEW s \in Nat, NEW f \in File,
           s \in DOMAIN d => RecordsOf(d[s]) \subseteq RecordsOf(f)
    PROVE  /\ DOMAIN Put(d, s, f) = DOMAIN d \union {s}
           /\ Dir(Put(d, s, f))
           /\ Put(d, s, f)[s] = f
           /\ RecordsIn(d, DOMAIN d) \union RecordsOf(f)
                \subseteq RecordsIn(Put(d, s, f), DOMAIN Put(d, s, f))
<1>1. /\ DOMAIN Put(d, s, f) = DOMAIN d \union {s}
      /\ Put(d, s, f)[s] = f
      /\ \A t \in DOMAIN d : t # s => Put(d, s, f)[t] = d[t]
    BY DEF Put
<1>2. Dir(Put(d, s, f))
    BY <1>1 DEF Dir
<1> DEFINE p == Put(d, s, f)
<1> HIDE DEF p
<1>3. \A t \in DOMAIN d : RecordsOf(d[t]) \subseteq RecordsOf(p[t])
    BY <1>1 DEF p
<1>4. RecordsIn(d, DOMAIN d) \union RecordsOf(f) \subseteq RecordsIn(p, DOMAIN p)
    BY <1>1, <1>3 DEF RecordsIn, p
<1>5. QED  BY <1>1, <1>2, <1>4 DEF p

\* Removing files keeps the rest, and every record is in one part or the other.
LEMMA RemoveFiles ==
    ASSUME NEW d, Dir(d), NEW S
    PROVE  /\ DOMAIN Remove(d, S) = DOMAIN d \ S
           /\ \A t \in DOMAIN d \ S : Remove(d, S)[t] = d[t]
           /\ Dir(Remove(d, S))
           /\ RecordsIn(d, DOMAIN d) \subseteq
                RecordsIn(Remove(d, S), DOMAIN Remove(d, S)) \union RecordsIn(d, S)
<1>1. /\ DOMAIN Remove(d, S) = DOMAIN d \ S
      /\ \A t \in DOMAIN d \ S : Remove(d, S)[t] = d[t]
    BY DEF Remove
<1>2. Dir(Remove(d, S))
    BY <1>1 DEF Dir
<1> DEFINE r == Remove(d, S)
<1> HIDE DEF r
<1>3. RecordsIn(d, DOMAIN d) \subseteq RecordsIn(r, DOMAIN r) \union RecordsIn(d, S)
    BY <1>1 DEF RecordsIn, r
<1>4. QED  BY <1>1, <1>2, <1>3 DEF r
-----------------------------------------------------------------------------
\* A push writes into a segment that is not in flight, at or one above the
\* active one, and its target is the file there or a new one.
LEMMA PushTarget ==
    ASSUME IInv, up, NEW b \in Sizes
    PROVE  /\ PushSeq(b) \in Nat
           /\ PushSeq(b) \in {head.seq, head.seq + 1}
           /\ PushSeq(b) \notin DOMAIN inflight
           /\ \A s \in DOMAIN jsonl : s <= PushSeq(b)
           /\ Target(b) \in File
           /\ PushSeq(b) \in DOMAIN jsonl => Target(b) = jsonl[PushSeq(b)]
           /\ ~failed => ~Target(b).open
           /\ HeadUnwritten(b) \in [seq : Nat, records : Nat, bytes : Nat]
           /\ HeadAfter(b) \in [seq : Nat, records : Nat, bytes : Nat]
           /\ HeadAfter(b).seq \in {PushSeq(b), PushSeq(b) + 1}
<1>0. b \in Nat /\ b > 1
    BY SpoolAssumption
<1>1. /\ head \in [seq : Nat, records : Nat, bytes : Nat]
      /\ Dir(jsonl)
      /\ \A s \in DOMAIN jsonl : s <= head.seq /\ s \in Nat
      /\ \A s \in DOMAIN inflight : s < head.seq /\ s \in Nat
    BY DEF IInv, DiskTypes, SegmentNames, Dir
<1>2. HeadUnwritten(b) \in [seq : Nat, records : Nat, bytes : Nat]
    BY <1>1 DEF HeadUnwritten, FreshHead
<1>3. PushSeq(b) \in Nat /\ PushSeq(b) \in {head.seq, head.seq + 1}
    BY <1>1, <1>2 DEF PushSeq, HeadUnwritten, FreshHead
<1>4. /\ HeadAfter(b) \in [seq : Nat, records : Nat, bytes : Nat]
      /\ HeadAfter(b).seq \in {PushSeq(b), PushSeq(b) + 1}
    <2> DEFINE h == HeadUnwritten(b)
    <2>1. h.seq \in Nat /\ h.records \in Nat /\ h.bytes \in Nat
        BY <1>2
    <2>2. HeadAfter(b) = IF h.records + 1 >= SEGMENT_RECORDS
                         THEN FreshHead(h.seq + 1)
                         ELSE [seq |-> h.seq, records |-> h.records + 1,
                               bytes |-> h.bytes + b]
        BY DEF HeadAfter
    <2>3. PushSeq(b) = h.seq
        BY DEF PushSeq
    <2> HIDE DEF h
    <2>5. CASE h.records + 1 >= SEGMENT_RECORDS
        BY <2>1, <2>2, <2>3, <2>5 DEF FreshHead
    <2>6. CASE ~(h.records + 1 >= SEGMENT_RECORDS)
        BY <1>0, <2>1, <2>2, <2>3, <2>6
    <2>7. QED  BY <2>5, <2>6
<1>5. /\ PushSeq(b) \notin DOMAIN inflight
      /\ \A s \in DOMAIN jsonl : s <= PushSeq(b)
    BY <1>1, <1>3
<1>6. /\ Target(b) \in File
      /\ PushSeq(b) \in DOMAIN jsonl => Target(b) = jsonl[PushSeq(b)]
      /\ PushSeq(b) \notin DOMAIN jsonl => Target(b) = EmptyFile
    BY <1>1 DEF Target, Dir, EmptyFile, File
<1>7. ~failed => ~Target(b).open
    BY <1>1, <1>3, <1>6 DEF IInv, HeadClosed, EmptyFile
<1>8. QED  BY <1>2, <1>3, <1>4, <1>5, <1>6, <1>7

\* The directory after the write of a push, whole or in part: no record is
\* lost while appends do not fail, and a whole line adds the pushed record.
\* The directory after the write of a push, whole or in part: no record is
\* lost while appends do not fail, and a whole line adds the pushed record.
LEMMA PushWhole ==
    ASSUME IInv, up, NEW b \in Sizes, NEW r \in Nat, NEW d,
           d = Put(jsonl, PushSeq(b), Whole(r, b))
    PROVE  /\ Dir(d) /\ DOMAIN d = DOMAIN jsonl \union {PushSeq(b)}
           /\ ~d[PushSeq(b)].open
           /\ ~failed => RecordsIn(jsonl, DOMAIN jsonl) \union {r}
                                \subseteq RecordsIn(d, DOMAIN d)
<1>0. b \in Nat /\ b # 0 /\ WriteErrors \in BOOLEAN
    BY SpoolAssumption
<1>1. /\ PushSeq(b) \in Nat /\ Target(b) \in File /\ Dir(jsonl)
      /\ PushSeq(b) \in DOMAIN jsonl => Target(b) = jsonl[PushSeq(b)]
      /\ ~failed => ~Target(b).open
    BY PushTarget DEF IInv, DiskTypes
<1> DEFINE line == [kind |-> "record", rec |-> r]
           f == Whole(r, b)
<1>2. line \in Line /\ line.kind = "record" /\ line.rec = r
    BY DEF Line, LineKinds
<1>3. f = Extend(Target(b), line, b, TRUE)
    BY DEF Whole
<1> HIDE DEF line, f
<1>4. /\ f \in File
      /\ ~Target(b).open => /\ RecordsOf(Target(b)) \subseteq RecordsOf(f)
                            /\ r \in RecordsOf(f)
    BY Zenon, <1>0, <1>1, <1>2, <1>3, ExtendFile
<1>5. ~f.open
    BY Zenon, <1>0, <1>3 DEF Extend
<1>6. d = Put(jsonl, PushSeq(b), f)
    BY DEF f
<1>7. /\ Dir(d) /\ DOMAIN d = DOMAIN jsonl \union {PushSeq(b)}
      /\ d[PushSeq(b)] = f
    BY <1>1, <1>4, <1>6 DEF Put, Dir
<1>8. ASSUME ~failed
      PROVE  RecordsIn(jsonl, DOMAIN jsonl) \union {r}
               \subseteq RecordsIn(d, DOMAIN d)
    <2>1. PushSeq(b) \in DOMAIN jsonl
            => RecordsOf(jsonl[PushSeq(b)]) \subseteq RecordsOf(f)
        BY <1>1, <1>4, <1>8
    <2>2. RecordsIn(jsonl, DOMAIN jsonl) \union RecordsOf(f)
            \subseteq RecordsIn(Put(jsonl, PushSeq(b), f),
                               DOMAIN Put(jsonl, PushSeq(b), f))
        BY <1>1, <1>4, <2>1, PutFile, Zenon
    <2>3. QED  BY <1>1, <1>4, <1>6, <1>8, <2>2
<1>9. QED  BY <1>5, <1>7, <1>8

LEMMA PushPartial ==
    ASSUME IInv, up, NEW b \in Sizes, NEW r \in Nat, NEW n \in 0 .. b - 1,
           NEW kind \in TornKinds, NEW d,
           d = Put(jsonl, PushSeq(b), Partial(r, b, n, kind))
    PROVE  /\ Dir(d) /\ DOMAIN d = DOMAIN jsonl \union {PushSeq(b)}
           /\ ~failed => RecordsIn(jsonl, DOMAIN jsonl)
                                \subseteq RecordsIn(d, DOMAIN d)
<1>0. b \in Nat /\ n \in Nat /\ WriteErrors \in BOOLEAN
    BY SpoolAssumption
<1>1. /\ PushSeq(b) \in Nat /\ Target(b) \in File /\ Dir(jsonl)
      /\ PushSeq(b) \in DOMAIN jsonl => Target(b) = jsonl[PushSeq(b)]
      /\ ~failed => ~Target(b).open
    BY PushTarget DEF IInv, DiskTypes
<1> DEFINE line == [kind |-> IF n = b - 1 THEN "record" ELSE kind, rec |-> r]
           f == Partial(r, b, n, kind)
<1>2. line \in Line
    BY DEF Line, LineKinds, TornKinds
<1>3. f = Extend(Target(b), line, n, FALSE)
    BY DEF Partial
<1> HIDE DEF line, f
<1>4. /\ f \in File
      /\ ~Target(b).open => RecordsOf(Target(b)) \subseteq RecordsOf(f)
    BY Zenon, <1>0, <1>1, <1>2, <1>3, ExtendFile
<1>5. d = Put(jsonl, PushSeq(b), f)
    BY DEF f
<1>6. Dir(d) /\ DOMAIN d = DOMAIN jsonl \union {PushSeq(b)}
    BY <1>1, <1>4, <1>5 DEF Put, Dir
<1>7. ASSUME ~failed
      PROVE  RecordsIn(jsonl, DOMAIN jsonl) \subseteq RecordsIn(d, DOMAIN d)
    <2>1. PushSeq(b) \in DOMAIN jsonl
            => RecordsOf(jsonl[PushSeq(b)]) \subseteq RecordsOf(f)
        BY <1>1, <1>4, <1>7
    <2>2. RecordsIn(jsonl, DOMAIN jsonl) \union RecordsOf(f)
            \subseteq RecordsIn(Put(jsonl, PushSeq(b), f),
                               DOMAIN Put(jsonl, PushSeq(b), f))
        BY <1>1, <1>4, <2>1, PutFile, Zenon
    <2>3. QED  BY <1>5, <2>2
<1>8. QED  BY <1>6, <1>7
-----------------------------------------------------------------------------
\* A non-empty set of naturals has a least element, and a bounded one has a
\* greatest: what segment_seqs' sorted listing gives open and drain_oldest.
LEMMA LeastNat ==
    ASSUME NEW T, T \subseteq Nat, T # {}
    PROVE  \E x \in T : \A y \in T : x <= y
<1>1. \E x \in T : \A y \in T : ~ (<<y, x>> \in OpToRel(<, Nat))
    BY Zenon, NatLessThanWellFounded, WFMin
<1>2. PICK x \in T : \A y \in T : ~ (<<y, x>> \in OpToRel(<, Nat))
    BY Zenon, <1>1
<1>3. \A y \in T : x <= y
    <2> TAKE y \in T
    <2>1. x \in Nat /\ y \in Nat
        OBVIOUS
    <2>2. y < x => <<y, x>> \in OpToRel(<, Nat)
        BY <2>1 DEF OpToRel
    <2>3. ~(y < x)
        BY Zenon, <1>2, <2>2
    <2>4. QED  BY <2>1, <2>3
<1>4. QED  BY <1>3

LEMMA OldestSegment ==
    ASSUME NEW d, DOMAIN d \subseteq Nat, DOMAIN d # {}
    PROVE  Oldest(d) \in DOMAIN d /\ \A s \in DOMAIN d : Oldest(d) <= s
<1>1. \E x \in DOMAIN d : \A y \in DOMAIN d : x <= y
    BY LeastNat
<1>2. QED  BY <1>1 DEF Oldest

LEMMA NewestSegment ==
    ASSUME NEW d, DOMAIN d \subseteq Nat, DOMAIN d # {}, NEW B \in Nat,
           \A s \in DOMAIN d : s <= B
    PROVE  Newest(d) \in DOMAIN d /\ \A s \in DOMAIN d : s <= Newest(d)
<1> DEFINE gaps == {B - s : s \in DOMAIN d}
<1>1. gaps \subseteq Nat /\ gaps # {}
    OBVIOUS
<1>2. PICK g \in gaps : \A h \in gaps : g <= h
    BY Zenon, <1>1, LeastNat
<1>3. PICK m \in DOMAIN d : g = B - m
    BY <1>2
<1>4. \A s \in DOMAIN d : s <= m
    <2> TAKE s \in DOMAIN d
    <2>1. B - s \in gaps
        OBVIOUS
    <2>2. g <= B - s
        BY <1>2, <2>1
    <2>3. s \in Nat /\ m \in Nat
        OBVIOUS
    <2>4. QED  BY <1>3, <2>2, <2>3
<1>5. QED  BY <1>4 DEF Newest

\* enforce_cap moves records from the disk to the shed ones, and loses none.
LEMMA CapKeepsRecords ==
    ASSUME NEW d, Dir(d), NEW S, EnforceCap(d, S)
    PROVE  /\ Dir(jsonl') /\ DOMAIN jsonl' \subseteq DOMAIN d
           /\ \A t \in DOMAIN jsonl' : jsonl'[t] = d[t]
           /\ RecordsIn(d, DOMAIN d) \union shed
                \subseteq RecordsIn(jsonl', DOMAIN jsonl') \union shed'
<1>1. jsonl' = Remove(d, S) /\ shed' = shed \union RecordsIn(d, S)
    BY DEF EnforceCap
<1>2. /\ DOMAIN Remove(d, S) = DOMAIN d \ S
      /\ \A t \in DOMAIN d \ S : Remove(d, S)[t] = d[t]
      /\ Dir(Remove(d, S))
      /\ RecordsIn(d, DOMAIN d) \subseteq
           RecordsIn(Remove(d, S), DOMAIN Remove(d, S)) \union RecordsIn(d, S)
    BY RemoveFiles, Zenon
<1>3. QED  BY <1>1, <1>2
-----------------------------------------------------------------------------
\* Whatever part of a push is done, given the directory d its write leaves,
\* segment names stay apart: in the running process, and after a crash.
LEMMA NamesAfterWrite ==
    ASSUME IInv, up, NEW b \in Sizes, NEW d, Dir(d),
           DOMAIN d = DOMAIN jsonl \union {PushSeq(b)},
           DOMAIN jsonl' \subseteq DOMAIN d,
           inflight' = inflight, in_flight' = in_flight,
           head'.seq \in Nat, head'.seq >= PushSeq(b)
    PROVE  SegmentNames' /\ Bounded'
<1>1. /\ PushSeq(b) \in Nat /\ PushSeq(b) \notin DOMAIN inflight
      /\ PushSeq(b) \in {head.seq, head.seq + 1}
      /\ \A s \in DOMAIN jsonl : s <= PushSeq(b) /\ s \in Nat
    BY PushTarget DEF IInv, DiskTypes, Dir
<1>2. /\ DOMAIN jsonl \intersect DOMAIN inflight = {}
      /\ \A s \in DOMAIN inflight : s < head.seq /\ s \in Nat
      /\ DOMAIN inflight = IF in_flight = None THEN {} ELSE {in_flight}
      /\ head.seq \in Nat
    BY DEF IInv, DiskTypes, SegmentNames, Dir
<1>3. \A s \in DOMAIN jsonl' : s <= head'.seq /\ s \in Nat
    BY <1>1
<1>4. \A s \in DOMAIN inflight : s < head'.seq
    BY <1>1, <1>2
<1>5. DOMAIN jsonl' \intersect DOMAIN inflight = {}
    BY <1>1, <1>2
<1>6. SegmentNames'
    BY <1>2, <1>3, <1>4, <1>5 DEF SegmentNames, None
<1>7. Bounded'
    BY <1>2, <1>3, <1>4 DEF Bounded
<1>8. QED  BY <1>6, <1>7

LEMMA PushStep ==
    ASSUME IInv, NEW b \in Sizes, Push(b)
    PROVE  IInv'
<1> DEFINE d == Put(jsonl, PushSeq(b), Whole(pushes, b))
           S == Shed(d, HeadAfter(b).seq)
<1>1. /\ up /\ pushes \in Nat /\ pushes' = pushes + 1 /\ head' = HeadAfter(b)
      /\ EnforceCap(d, S)
      /\ accepted' = accepted \union {pushes}
      /\ UNCHANGED <<inflight, in_flight, up, handed, acked, failed>>
    BY DEF Push, IInv, DiskTypes
<1> HIDE DEF S
<1>2. /\ Dir(d) /\ DOMAIN d = DOMAIN jsonl \union {PushSeq(b)}
      /\ ~d[PushSeq(b)].open
      /\ ~failed => RecordsIn(jsonl, DOMAIN jsonl) \union {pushes}
                           \subseteq RecordsIn(d, DOMAIN d)
    BY Zenon, <1>1, PushWhole
<1> HIDE DEF d
<1>3. /\ Dir(jsonl') /\ DOMAIN jsonl' \subseteq DOMAIN d
      /\ \A t \in DOMAIN jsonl' : jsonl'[t] = d[t]
      /\ RecordsIn(d, DOMAIN d) \union shed
           \subseteq RecordsIn(jsonl', DOMAIN jsonl') \union shed'
    BY <1>1, <1>2, CapKeepsRecords
<1>4. /\ PushSeq(b) \in Nat
      /\ \A s \in DOMAIN jsonl : s <= PushSeq(b)
      /\ HeadAfter(b) \in [seq : Nat, records : Nat, bytes : Nat]
      /\ HeadAfter(b).seq \in {PushSeq(b), PushSeq(b) + 1}
    BY <1>1, PushTarget
<1>5. DiskTypes'
    BY <1>1, <1>3, <1>4 DEF IInv, DiskTypes, Dir
<1>6. SegmentNames' /\ Bounded'
    BY <1>1, <1>2, <1>3, <1>4, NamesAfterWrite
<1>7. HeadClosed'
    <2>1. \A s \in DOMAIN jsonl' : s <= PushSeq(b) /\ s \in Nat
        BY <1>2, <1>3, <1>4 DEF IInv, DiskTypes, Dir
    <2>2. head'.seq \in DOMAIN jsonl' => head'.seq = PushSeq(b)
        BY <1>1, <1>4, <2>1
    <2>3. QED  BY <1>2, <1>3, <2>2 DEF HeadClosed
<1>8. NoSilentLoss'
    <2>1. ~failed => accepted \subseteq OnDisk \union acked \union shed
        BY DEF IInv, NoSilentLoss
    <2>2. OnDisk' = RecordsIn(jsonl', DOMAIN jsonl') \union RecordsIn(inflight, DOMAIN inflight)
        BY <1>1 DEF OnDisk
    <2>3. QED  BY <1>1, <1>2, <1>3, <2>1, <2>2 DEF NoSilentLoss, OnDisk
<1>9. QED  BY <1>5, <1>6, <1>7, <1>8 DEF IInv

LEMMA PushFailsStep ==
    ASSUME IInv, NEW b \in Sizes, PushFails(b)
    PROVE  IInv'
<1>1. /\ up /\ failed' /\ pushes \in Nat /\ pushes' = pushes + 1
      /\ head' = HeadUnwritten(b)
      /\ UNCHANGED <<inflight, in_flight, up>>
    BY DEF PushFails, IInv, DiskTypes
<1>2. /\ HeadUnwritten(b) \in [seq : Nat, records : Nat, bytes : Nat]
      /\ HeadUnwritten(b).seq = PushSeq(b) /\ PushSeq(b) \in Nat
    BY <1>1, PushTarget DEF PushSeq
<1>3. PICK d : /\ Dir(d) /\ DOMAIN d = DOMAIN jsonl \union {PushSeq(b)}
               /\ Dir(jsonl') /\ DOMAIN jsonl' \subseteq DOMAIN d
    <2>1. CASE jsonl' = jsonl
        <3> DEFINE e == Put(jsonl, PushSeq(b), Whole(pushes, b))
        <3>1. Dir(e) /\ DOMAIN e = DOMAIN jsonl \union {PushSeq(b)}
            BY <1>1, PushWhole
        <3> HIDE DEF e
        <3>2. QED  BY <2>1, <3>1 DEF IInv, DiskTypes
    <2>2. CASE \E n \in 0 .. b - 1, kind \in TornKinds :
                  jsonl' = Put(jsonl, PushSeq(b), Partial(pushes, b, n, kind))
        <3>1. Dir(jsonl') /\ DOMAIN jsonl' = DOMAIN jsonl \union {PushSeq(b)}
            BY <1>1, <2>2, PushPartial
        <3>2. QED  BY <3>1
    <2>3. CASE jsonl' = Put(jsonl, PushSeq(b), Whole(pushes, b))
        <3>1. Dir(jsonl') /\ DOMAIN jsonl' = DOMAIN jsonl \union {PushSeq(b)}
            BY Zenon, <1>1, <2>3, PushWhole
        <3>2. QED  BY <3>1
    <2>4. QED  BY Zenon, <2>1, <2>2, <2>3 DEF PushFails
<1>4. SegmentNames' /\ Bounded'
    BY <1>1, <1>2, <1>3, NamesAfterWrite
<1>5. DiskTypes'
    BY <1>1, <1>2, <1>3 DEF IInv, DiskTypes, Dir
<1>6. QED  BY <1>1, <1>4, <1>5 DEF IInv, HeadClosed, NoSilentLoss

LEMMA PushCapFailsStep ==
    ASSUME IInv, NEW b \in Sizes, PushCapFails(b)
    PROVE  IInv'
<1> DEFINE d == Put(jsonl, PushSeq(b), Whole(pushes, b))
<1>1. /\ up /\ failed' /\ pushes \in Nat /\ pushes' = pushes + 1
      /\ head' = HeadAfter(b)
      /\ \E S : EnforceCap(d, S)
      /\ UNCHANGED <<inflight, in_flight, up>>
    BY DEF PushCapFails, IInv, DiskTypes
<1>2. Dir(d) /\ DOMAIN d = DOMAIN jsonl \union {PushSeq(b)}
    BY Zenon, <1>1, PushWhole
<1> HIDE DEF d
<1>3. Dir(jsonl') /\ DOMAIN jsonl' \subseteq DOMAIN d
    BY <1>1, <1>2, CapKeepsRecords
<1>4. /\ HeadAfter(b) \in [seq : Nat, records : Nat, bytes : Nat]
      /\ HeadAfter(b).seq \in {PushSeq(b), PushSeq(b) + 1} /\ PushSeq(b) \in Nat
    BY <1>1, PushTarget
<1>5. SegmentNames' /\ Bounded'
    BY <1>1, <1>2, <1>3, <1>4, NamesAfterWrite
<1>6. DiskTypes'
    BY <1>1, <1>3, <1>4 DEF IInv, DiskTypes, Dir
<1>7. QED  BY <1>1, <1>5, <1>6 DEF IInv, HeadClosed, NoSilentLoss

LEMMA CrashInPushStep ==
    ASSUME IInv, NEW b \in Sizes, CrashInPush(b)
    PROVE  IInv'
<1>1. /\ up /\ ~up' /\ up' \in BOOLEAN /\ pushes \in Nat /\ pushes' = pushes + 1
      /\ UNCHANGED <<inflight, head, in_flight, accepted, acked, failed>>
    <2>1. pushes \in Nat
        BY DEF IInv, DiskTypes
    <2>2. QED  BY Zenon, <2>1 DEF CrashInPush
<1>2. /\ Dir(jsonl') /\ DOMAIN jsonl' \subseteq DOMAIN jsonl \union {PushSeq(b)}
      /\ ~failed => RecordsIn(jsonl, DOMAIN jsonl) \union shed
                           \subseteq RecordsIn(jsonl', DOMAIN jsonl') \union shed'
    <2>1. CASE \E n \in 0 .. b - 1, kind \in TornKinds :
                  /\ jsonl' = Put(jsonl, PushSeq(b), Partial(pushes, b, n, kind))
                  /\ UNCHANGED <<dropped_records, shed>>
        <3>1. /\ Dir(jsonl') /\ DOMAIN jsonl' = DOMAIN jsonl \union {PushSeq(b)}
              /\ ~failed => RecordsIn(jsonl, DOMAIN jsonl)
                                   \subseteq RecordsIn(jsonl', DOMAIN jsonl')
              /\ shed' = shed
            BY <1>1, <2>1, PushPartial
        <3>2. QED  BY <3>1
    <2>2. CASE \E S : EnforceCap(Put(jsonl, PushSeq(b), Whole(pushes, b)), S)
        <3> DEFINE d == Put(jsonl, PushSeq(b), Whole(pushes, b))
        <3>1. /\ Dir(d) /\ DOMAIN d = DOMAIN jsonl \union {PushSeq(b)}
              /\ ~failed => RecordsIn(jsonl, DOMAIN jsonl) \union {pushes}
                                   \subseteq RecordsIn(d, DOMAIN d)
            BY Zenon, <1>1, PushWhole
        <3>2. \E S : EnforceCap(d, S)
            BY <2>2
        <3> HIDE DEF d
        <3>3. /\ Dir(jsonl') /\ DOMAIN jsonl' \subseteq DOMAIN d
              /\ RecordsIn(d, DOMAIN d) \union shed
                   \subseteq RecordsIn(jsonl', DOMAIN jsonl') \union shed'
            BY <3>1, <3>2, CapKeepsRecords
        <3>4. QED  BY <3>1, <3>3
    <2>3. QED  BY Zenon, <2>1, <2>2 DEF CrashInPush
<1>3. /\ PushSeq(b) \in {head.seq, head.seq + 1} /\ PushSeq(b) \notin DOMAIN inflight
    BY <1>1, PushTarget
<1>4. DiskTypes'
    BY <1>1, <1>2 DEF IInv, DiskTypes, Dir
<1>5. Bounded'
    BY <1>1, <1>2, <1>3 DEF IInv, Bounded, DiskTypes
<1>6. SegmentNames'
    BY <1>1, <1>2, <1>3 DEF IInv, SegmentNames
<1>7. NoSilentLoss'
    <2>1. ~failed => accepted \subseteq OnDisk \union acked \union shed
        BY DEF IInv, NoSilentLoss
    <2>2. QED  BY <1>1, <1>2, <2>1 DEF NoSilentLoss, OnDisk
<1>8. QED  BY <1>1, <1>4, <1>5, <1>6, <1>7 DEF IInv, HeadClosed
-----------------------------------------------------------------------------
LEMMA DrainStep ==
    ASSUME IInv, DrainOldest
    PROVE  IInv'
<1>1. /\ Dir(jsonl) /\ Dir(inflight) /\ DOMAIN jsonl \subseteq Nat
      /\ head \in [seq : Nat, records : Nat, bytes : Nat] /\ head.seq \in Nat
      /\ in_flight \in Nat \union {None} /\ up /\ pushes \in Nat
      /\ UNCHANGED <<up, failed, pushes, accepted, acked, shed>>
    BY DEF IInv, DiskTypes, Dir, DrainOldest
<1>2. CASE in_flight # None
    <2>1. UNCHANGED <<jsonl, inflight, in_flight, head>>
        BY <1>2 DEF DrainOldest
    <2>2. QED  BY <1>1, <2>1 DEF IInv, DiskTypes, SegmentNames, Bounded,
                                 HeadClosed, NoSilentLoss, OnDisk
<1>3. CASE in_flight = None
    <2> DEFINE s == Oldest(jsonl)
    <2>1. /\ DOMAIN jsonl # {} /\ jsonl' = Remove(jsonl, {s})
          /\ inflight' = Put(inflight, s, jsonl[s]) /\ in_flight' = s
          /\ head' = IF s = head.seq THEN FreshHead(s + 1) ELSE head
        BY <1>3 DEF DrainOldest
    <2>2. s \in DOMAIN jsonl /\ s \in Nat /\ s # None
        BY <1>1, <2>1, OldestSegment DEF None
    <2> HIDE DEF s
    <2>3. DOMAIN inflight = {} /\ \A t \in DOMAIN jsonl : t <= head.seq
        BY <1>1, <1>3 DEF IInv, SegmentNames
    <2>4. /\ DOMAIN jsonl' = DOMAIN jsonl \ {s} /\ Dir(jsonl')
          /\ \A t \in DOMAIN jsonl \ {s} : jsonl'[t] = jsonl[t]
        BY <1>1, <2>1, RemoveFiles, Zenon
    <2>5. DOMAIN inflight' = {s} /\ inflight'[s] = jsonl[s]
        BY <2>1, <2>3 DEF Put
    <2>6. Dir(inflight')
        BY <1>1, <2>2, <2>5 DEF Dir
    <2>7. /\ head' \in [seq : Nat, records : Nat, bytes : Nat]
          /\ head'.seq \in Nat /\ s < head'.seq /\ head.seq <= head'.seq
          /\ head'.seq = head.seq \/ head'.seq \notin DOMAIN jsonl
        BY <1>1, <2>1, <2>2, <2>3 DEF FreshHead
    <2>8. DiskTypes'
        BY <1>1, <2>1, <2>2, <2>4, <2>6, <2>7 DEF DiskTypes, Dir
    <2>9. SegmentNames'
        <3>1. \A t \in DOMAIN jsonl' : t <= head'.seq
            BY <1>1, <2>3, <2>4, <2>7
        <3>2. DOMAIN inflight' = IF in_flight' = None THEN {} ELSE {in_flight'}
            BY <2>1, <2>2, <2>5
        <3>3. \A t \in DOMAIN inflight' : t < head'.seq
            BY <2>5, <2>7
        <3>4. DOMAIN jsonl' \intersect DOMAIN inflight' = {}
            BY <2>4, <2>5
        <3>5. QED  BY <3>1, <3>2, <3>3, <3>4 DEF SegmentNames
    <2>10. Bounded'
        <3>1. \A t \in DOMAIN jsonl' \union DOMAIN inflight' : t \in Nat /\ t <= head.seq
            BY <1>1, <2>2, <2>3, <2>4, <2>5
        <3>2. QED  BY <1>1, <2>7, <3>1 DEF Bounded
    <2>11. HeadClosed'
        BY <1>1, <2>4, <2>7 DEF IInv, HeadClosed
    <2>12. NoSilentLoss'
        <3>1. ~failed => accepted \subseteq OnDisk \union acked \union shed
            BY DEF IInv, NoSilentLoss
        <3>2. OnDisk \subseteq OnDisk'
            BY <2>2, <2>3, <2>4, <2>5 DEF OnDisk, RecordsIn
        <3>3. QED  BY <1>1, <3>1, <3>2 DEF NoSilentLoss
    <2>13. QED  BY <2>8, <2>9, <2>10, <2>11, <2>12 DEF IInv
<1>4. QED  BY <1>2, <1>3

\* ack and skip both retire the segment in flight; what it held is ack'd or
\* shed.
LEMMA RetireStep ==
    ASSUME IInv, Ack \/ Skip
    PROVE  IInv'
<1>1. /\ Dir(jsonl) /\ Dir(inflight) /\ up /\ in_flight # None
      /\ inflight' = Remove(inflight, {in_flight}) /\ in_flight' = None
      /\ UNCHANGED <<jsonl, head, up, failed, pushes, accepted>>
    <2>1. Dir(jsonl) /\ Dir(inflight)
        BY DEF IInv, DiskTypes
    <2>2. QED  BY <2>1 DEF Ack, Skip
<1>2. DOMAIN inflight = {in_flight}
    BY <1>1 DEF IInv, SegmentNames
<1>3. DOMAIN inflight' = {} /\ Dir(inflight')
    BY <1>1, <1>2 DEF Remove, Dir
<1>4. DiskTypes'
    BY Zenon, <1>1, <1>3 DEF IInv, DiskTypes, None, Dir
<1>5. SegmentNames' /\ Bounded' /\ HeadClosed'
    BY Zenon, <1>1, <1>3 DEF IInv, SegmentNames, Bounded, HeadClosed
<1>6. NoSilentLoss'
    <2>1. ~failed => accepted \subseteq OnDisk \union acked \union shed
        BY DEF IInv, NoSilentLoss
    <2>2. acked' \union shed' = acked \union shed \union RecordsOf(inflight[in_flight])
        BY DEF Ack, Skip
    <2>3. OnDisk \subseteq OnDisk' \union RecordsOf(inflight[in_flight])
        BY <1>1, <1>2, <1>3 DEF OnDisk, RecordsIn
    <2>4. QED  BY <1>1, <2>1, <2>2, <2>3 DEF NoSilentLoss
<1>7. QED  BY <1>4, <1>5, <1>6 DEF IInv

LEMMA RetireFailsStep ==
    ASSUME IInv, RetireFails
    PROVE  IInv'
BY DEF IInv, RetireFails, disk, DiskTypes, Dir, SegmentNames, Bounded,
       HeadClosed, NoSilentLoss

LEMMA CrashStep ==
    ASSUME IInv, Crash
    PROVE  IInv'
BY Zenon DEF IInv, Crash, disk, history, DiskTypes, Dir, SegmentNames, Bounded,
       HeadClosed, NoSilentLoss, OnDisk

LEMMA OpenStep ==
    ASSUME IInv, Open
    PROVE  IInv'
<1> DEFINE dir == [s \in DOMAIN jsonl \union DOMAIN inflight |->
                     IF s \in DOMAIN inflight THEN inflight[s] ELSE jsonl[s]]
<1>1. /\ ~up /\ up' /\ up' \in BOOLEAN /\ jsonl' = dir
      /\ head' = FreshHead(IF DOMAIN dir = {} THEN 0 ELSE Newest(dir) + 1)
      /\ inflight' = <<>> /\ in_flight' = None
      /\ UNCHANGED <<failed, pushes, accepted, acked, shed>>
    BY DEF Open
<1>2. /\ Dir(jsonl) /\ Dir(inflight) /\ pushes \in Nat /\ head.seq \in Nat
      /\ DOMAIN jsonl \intersect DOMAIN inflight = {}
    BY DEF IInv, DiskTypes, SegmentNames
<1>3. /\ DOMAIN dir = DOMAIN jsonl \union DOMAIN inflight
      /\ \A s \in DOMAIN inflight : dir[s] = inflight[s]
      /\ \A s \in DOMAIN jsonl : dir[s] = jsonl[s]
    BY <1>2
<1>4. Dir(dir)
    BY <1>2, <1>3 DEF Dir
<1>5. \A s \in DOMAIN dir : s <= head.seq + 1
    BY <1>3 DEF IInv, Bounded
<1> HIDE DEF dir
<1>6. DOMAIN dir # {} => Newest(dir) \in DOMAIN dir /\ \A s \in DOMAIN dir : s <= Newest(dir)
    BY <1>2, <1>4, <1>5, NewestSegment DEF Dir
<1>7. /\ head' \in [seq : Nat, records : Nat, bytes : Nat]
      /\ \A s \in DOMAIN dir : s < head'.seq /\ s \in Nat
      /\ head'.seq \in Nat
    <2> DEFINE h == IF DOMAIN dir = {} THEN 0 ELSE Newest(dir) + 1
    <2>1. DOMAIN dir \subseteq Nat
        BY <1>4 DEF Dir
    <2>2. h \in Nat /\ \A s \in DOMAIN dir : s < h
        BY <1>6, <2>1
    <2> HIDE DEF h
    <2>3. head' = [seq |-> h, records |-> 0, bytes |-> 0]
        BY <1>1 DEF FreshHead, h
    <2>4. QED  BY <2>1, <2>2, <2>3
<1>8. DOMAIN inflight' = {}
    BY <1>1
<1>9. DiskTypes'
    BY <1>1, <1>2, <1>4, <1>7, <1>8 DEF DiskTypes, Dir
<1>10. SegmentNames' /\ Bounded'
    BY <1>1, <1>7, <1>8 DEF SegmentNames, Bounded
<1>11. HeadClosed'
    BY <1>1, <1>7 DEF HeadClosed
<1>12. NoSilentLoss'
    <2>1. ~failed => accepted \subseteq OnDisk \union acked \union shed
        BY DEF IInv, NoSilentLoss
    <2>2. OnDisk \subseteq OnDisk'
        BY <1>1, <1>3 DEF OnDisk, RecordsIn
    <2>3. QED  BY <1>1, <2>1, <2>2 DEF NoSilentLoss
<1>13. QED  BY <1>9, <1>10, <1>11, <1>12 DEF IInv
-----------------------------------------------------------------------------
LEMMA Inductive ==
    Spec => []IInv
<1>1. Init => IInv
    BY SpoolAssumption DEF Init, IInv, DiskTypes, Dir, SegmentNames, Bounded,
       HeadClosed, NoSilentLoss, FreshHead, None
<1>2. IInv /\ [Next]_vars => IInv'
    <2> SUFFICES ASSUME IInv, [Next]_vars  PROVE IInv'
        OBVIOUS
    <2>1. ASSUME NEW b \in Sizes, Push(b)  PROVE IInv'
        BY <2>1, PushStep
    <2>2. ASSUME NEW b \in Sizes, PushFails(b)  PROVE IInv'
        BY <2>2, PushFailsStep
    <2>3. ASSUME NEW b \in Sizes, PushCapFails(b)  PROVE IInv'
        BY <2>3, PushCapFailsStep
    <2>4. ASSUME NEW b \in Sizes, CrashInPush(b)  PROVE IInv'
        BY <2>4, CrashInPushStep
    <2>5. CASE DrainOldest
        BY <2>5, DrainStep
    <2>6. CASE Ack \/ Skip
        BY <2>6, RetireStep
    <2>7. CASE Crash
        BY <2>7, CrashStep
    <2>8. CASE Open
        BY <2>8, OpenStep
    <2>9. CASE UNCHANGED vars
        BY <2>9 DEF vars, disk, history, IInv, DiskTypes, Dir, SegmentNames,
           Bounded, HeadClosed, NoSilentLoss, OnDisk
    <2>10. CASE RetireFails
        BY <2>10, RetireFailsStep
    <2>11. QED  BY <2>1, <2>2, <2>3, <2>4, <2>5, <2>6, <2>7, <2>8, <2>9, <2>10 DEF Next
<1>3. QED  BY <1>1, <1>2, PTL DEF Spec

\* A segment number never names two files, and a running spool appends at or
\* above every segment it lists (open's renames, push's rotation and
\* drain_oldest's rename keep it so), with or without I/O errors.
THEOREM SegmentNamesHold == Spec => []SegmentNames
<1>1. IInv => SegmentNames
    BY DEF IInv
<1>2. QED  BY <1>1, Inductive, PTL

\* As long as no file operation has failed, a record whose push returned Ok is never
\* lost but by ack, enforce_cap or skip, whatever crashes happen between and
\* inside calls.
THEOREM NothingLostSilently == Spec => []NoSilentLoss
<1>1. IInv => NoSilentLoss
    BY DEF IInv
<1>2. QED  BY <1>1, Inductive, PTL
=============================================================================
