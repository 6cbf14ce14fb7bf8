----------------------------- MODULE EventSpool -----------------------------
(***************************************************************************)
(* The durable store-and-forward spool of crates/store/src/spool.rs: a     *)
(* directory of append-only segments, spool-N.jsonl while it waits and     *)
(* spool-N.inflight while an uploader holds it.  The process may crash     *)
(* between any two file operations and is reopened on the same directory.  *)
(*                                                                         *)
(* A record is the number of the push call that offered it; a line of a    *)
(* segment is a whole record, a torn fragment, or a fragment cut inside a  *)
(* multi-byte character, which makes the whole file invalid UTF-8.         *)
(***************************************************************************)
EXTENDS Integers, Sequences, FiniteSets, FiniteSetsExt

CONSTANTS
    SEGMENT_RECORDS,    \* records per segment before rotation
    SEGMENT_MAX_BYTES,  \* bytes per segment before rotation
    MaxBytes,           \* the spool's total byte cap
    Sizes,              \* sizes of a serialized record with its newline
    WriteErrors,        \* may an append, an fsync or a delete fail?
    MultiByte,          \* may a torn fragment end inside a character?
    MaxPushes,          \* bound: push calls explored
    MaxCrashes          \* bound: crashes explored

ASSUME SpoolAssumption ==
    /\ SEGMENT_RECORDS \in Nat \ {0}
    /\ SEGMENT_MAX_BYTES \in Nat \ {0}
    /\ MaxBytes \in Nat
    /\ Sizes \subseteq Nat \ {0, 1}
    /\ WriteErrors \in BOOLEAN
    /\ MultiByte \in BOOLEAN
    /\ MaxPushes \in Nat
    /\ MaxCrashes \in Nat

VARIABLES
    jsonl,            \* seq -> contents of spool-seq.jsonl
    inflight,         \* seq -> contents of spool-seq.inflight
    head,             \* head_seq, head_records and head_bytes
    dropped_records,
    in_flight,        \* the seq drained and not yet ack'd, or None
    up,               \* is the process running?
    crashes,          \* history: crashes so far
    pushes,           \* history: push calls so far
    accepted,         \* history: records whose push returned Ok
    handed,           \* history: records the last drain returned
    acked,            \* history: records of segments deleted by ack
    shed,             \* history: records of segments deleted by cap or skip
    shedAtOpen,       \* history: how many were shed before this process
    failed            \* history: has a file operation failed?

disk == <<jsonl, inflight>>
history == <<pushes, accepted, handed, acked, shed, shedAtOpen, failed>>
vars == <<disk, head, dropped_records, in_flight, up, crashes, history>>

None == -1

LineKinds == {"record", "torn", "invalid"}
Line == [kind : LineKinds, rec : Nat]
File == [lines : Seq(Line), bytes : Nat, open : BOOLEAN]
EmptyFile == [lines |-> <<>>, bytes |-> 0, open |-> FALSE]

\* The records a file holds in a parseable line.
RecordsOf(f) ==
    {f.lines[i].rec : i \in {j \in DOMAIN f.lines : f.lines[j].kind = "record"}}

\* fs::read_to_string succeeds exactly when the file is valid UTF-8.
Readable(f) == \A i \in DOMAIN f.lines : f.lines[i].kind # "invalid"

\* Files present under a directory listing, and their total size.
BytesOf(dir, S) == MapThenSumSet(LAMBDA s : dir[s].bytes, S)

\* A file name is created, replaced or removed.
Put(dir, s, f) == [t \in DOMAIN dir \union {s} |-> IF t = s THEN f ELSE dir[t]]
Remove(dir, S) == [t \in DOMAIN dir \ S |-> dir[t]]

Newest(dir) == CHOOSE s \in DOMAIN dir : \A t \in DOMAIN dir : s >= t
Oldest(dir) == CHOOSE s \in DOMAIN dir : \A t \in DOMAIN dir : s <= t
-----------------------------------------------------------------------------
(* Appending. `n` bytes of `line` reach the file; `closed` says whether the *)
(* newline did.  After an unterminated line the new bytes extend that line, *)
(* and two glued lines never parse.                                         *)
Extend(f, line, n, closed) ==
    LET k == Len(f.lines)
        glued == [kind |-> IF "invalid" \in {f.lines[k].kind, line.kind}
                           THEN "invalid" ELSE "torn",
                  rec |-> line.rec]
    IN  [lines |-> IF n = 0 THEN f.lines
                   ELSE IF f.open THEN [f.lines EXCEPT ![k] = glued]
                   ELSE Append(f.lines, line),
         bytes |-> f.bytes + n,
         open  |-> IF n = 0 THEN f.open ELSE ~closed]

\* The byte-threshold rotation, done before a push of b bytes is written, and
\* the segment the push goes to.
RotateFirst(b) == head.records > 0 /\ head.bytes + b > SEGMENT_MAX_BYTES
FreshHead(s) == [seq |-> s, records |-> 0, bytes |-> 0]
HeadUnwritten(b) == IF RotateFirst(b) THEN FreshHead(head.seq + 1) ELSE head
PushSeq(b) == HeadUnwritten(b).seq

\* What fs::OpenOptions create+append finds at that name.
Target(b) ==
    IF PushSeq(b) \in DOMAIN jsonl THEN jsonl[PushSeq(b)] ELSE EmptyFile

\* Part of the line of record r reaches the file: all of it without its
\* newline (n = b - 1), or a fragment.
Partial(r, b, n, kind) ==
    Extend(Target(b),
           [kind |-> IF n = b - 1 THEN "record" ELSE kind, rec |-> r],
           n, FALSE)

Whole(r, b) == Extend(Target(b), [kind |-> "record", rec |-> r], b, TRUE)

TornKinds == IF MultiByte THEN {"torn", "invalid"} ELSE {"torn"}

\* The segments enforce_cap deletes from `dir`, oldest first, while the rest
\* is over the cap: never the in-flight file, never the active segment.
Shed(dir, hseq) ==
    {s \in DOMAIN dir :
        /\ s # in_flight
        /\ \A t \in DOMAIN dir : t <= s => t # hseq
        /\ BytesOf(dir, {t \in DOMAIN dir : t >= s})
             + BytesOf(inflight, DOMAIN inflight) > MaxBytes}

\* Lines counted as dropped when the segments S of dir are deleted: a file
\* that cannot be read counts for nothing.
LinesLost(dir, S) ==
    MapThenSumSet(LAMBDA s : IF Readable(dir[s]) THEN Len(dir[s].lines) ELSE 0, S)

RecordsIn(dir, S) == UNION {RecordsOf(dir[s]) : s \in S}
-----------------------------------------------------------------------------
\* Mutant: rotation carries the excess over, and underflows.
HeadAfter_Carries(b) ==
    LET h == HeadUnwritten(b)
    IN  IF h.records + 1 >= SEGMENT_RECORDS
        THEN [seq |-> h.seq + 1, records |-> 0,
              bytes |-> h.bytes + b - SEGMENT_MAX_BYTES]
        ELSE [seq |-> h.seq, records |-> h.records + 1, bytes |-> h.bytes + b]

\* The counters after a push of b bytes was written and fsync'd.
HeadAfter(b) ==
    LET h == HeadUnwritten(b)
    IN  IF h.records + 1 >= SEGMENT_RECORDS
        THEN FreshHead(h.seq + 1)
        ELSE [seq |-> h.seq, records |-> h.records + 1, bytes |-> h.bytes + b]

\* enforce_cap on the directory dir: the segments S, a prefix of what is to
\* go when a delete fails, disappear and are counted.
EnforceCap(dir, S) ==
    /\ jsonl' = Remove(dir, S)
    /\ dropped_records' = dropped_records + LinesLost(dir, S)
    /\ shed' = shed \union RecordsIn(dir, S)

Push(b) ==
    /\ up /\ pushes < MaxPushes
    /\ pushes' = pushes + 1
    /\ head' = HeadAfter(b)
    /\ LET dir == Put(jsonl, PushSeq(b), Whole(pushes, b))
       IN  EnforceCap(dir, Shed(dir, HeadAfter(b).seq))
    /\ accepted' = accepted \union {pushes}
    /\ UNCHANGED <<inflight, in_flight, up, crashes, failed, handed, acked, shedAtOpen>>

\* push fails at the append or the fsync and returns an error.
PushFails(b) ==
    /\ WriteErrors /\ up /\ pushes < MaxPushes
    /\ pushes' = pushes + 1
    /\ failed' = TRUE
    /\ head' = HeadUnwritten(b)
    /\ \/ UNCHANGED jsonl
       \/ \E n \in 0 .. b - 1, kind \in TornKinds :
            jsonl' = Put(jsonl, PushSeq(b), Partial(pushes, b, n, kind))
       \/ jsonl' = Put(jsonl, PushSeq(b), Whole(pushes, b))
    /\ UNCHANGED <<inflight, dropped_records, in_flight, up, crashes,
                   accepted, handed, acked, shed, shedAtOpen>>

\* The append succeeds and a delete of enforce_cap fails: push returns an
\* error after some of the segments to shed are gone.
PushCapFails(b) ==
    /\ WriteErrors /\ up /\ pushes < MaxPushes
    /\ pushes' = pushes + 1
    /\ failed' = TRUE
    /\ head' = HeadAfter(b)
    /\ LET dir == Put(jsonl, PushSeq(b), Whole(pushes, b))
           due == Shed(dir, HeadAfter(b).seq)
       IN  \E s \in due : EnforceCap(dir, {t \in due : t < s})
    /\ UNCHANGED <<inflight, in_flight, up, crashes, accepted, handed, acked,
                   shedAtOpen>>

\* Mutant: draining the active segment does not rotate the head.
DrainOldest_KeepsHead ==
    /\ up /\ in_flight = None /\ DOMAIN jsonl # {}
    /\ LET s == Oldest(jsonl) IN
       /\ handed' = RecordsOf(jsonl[s])
       /\ jsonl' = Remove(jsonl, {s})
       /\ inflight' = Put(inflight, s, jsonl[s])
       /\ in_flight' = s
    /\ UNCHANGED <<head, dropped_records, up, crashes, failed, pushes, accepted, acked,
                   shed, shedAtOpen>>

\* drain_oldest: the in-flight segment again, else the oldest one, which
\* becomes in flight; draining the active segment rotates the head.
DrainOldest ==
    /\ up
    /\ IF in_flight # None
       THEN /\ in_flight \in DOMAIN inflight /\ Readable(inflight[in_flight])
            /\ handed' = RecordsOf(inflight[in_flight])
            /\ UNCHANGED <<jsonl, inflight, in_flight, head>>
       ELSE /\ DOMAIN jsonl # {}
            /\ LET s == Oldest(jsonl) IN
               /\ Readable(jsonl[s])
               /\ handed' = RecordsOf(jsonl[s])
               /\ jsonl' = Remove(jsonl, {s})
               /\ inflight' = Put(inflight, s, jsonl[s])
               /\ in_flight' = s
               /\ head' = IF s = head.seq THEN FreshHead(s + 1) ELSE head
    /\ UNCHANGED <<dropped_records, up, crashes, failed, pushes, accepted, acked, shed,
                   shedAtOpen>>

Ack ==
    /\ up /\ in_flight # None
    /\ acked' = acked \union RecordsOf(inflight[in_flight])
    /\ inflight' = Remove(inflight, {in_flight})
    /\ in_flight' = None
    /\ UNCHANGED <<jsonl, head, dropped_records, up, crashes, failed, pushes, accepted,
                   handed, shed, shedAtOpen>>

\* Mutant: skip does not count what it discards.
Skip_Uncounted ==
    /\ up /\ in_flight # None
    /\ shed' = shed \union RecordsOf(inflight[in_flight])
    /\ inflight' = Remove(inflight, {in_flight})
    /\ in_flight' = None
    /\ UNCHANGED <<jsonl, head, dropped_records, up, crashes, failed, pushes, accepted,
                   handed, acked, shedAtOpen>>

Skip ==
    /\ up /\ in_flight # None
    /\ shed' = shed \union RecordsOf(inflight[in_flight])
    /\ dropped_records' = dropped_records + LinesLost(inflight, {in_flight})
    /\ inflight' = Remove(inflight, {in_flight})
    /\ in_flight' = None
    /\ UNCHANGED <<jsonl, head, up, crashes, failed, pushes, accepted, handed, acked,
                   shedAtOpen>>

\* The delete of ack or skip fails, and the segment stays in flight.
RetireFails ==
    /\ WriteErrors /\ up /\ in_flight # None
    /\ failed' = TRUE
    /\ UNCHANGED <<disk, head, dropped_records, in_flight, up, crashes, pushes,
                   accepted, handed, acked, shed, shedAtOpen>>
-----------------------------------------------------------------------------
\* The process dies between two calls.
Crash ==
    /\ up /\ crashes < MaxCrashes
    /\ up' = FALSE
    /\ crashes' = crashes + 1
    /\ UNCHANGED <<disk, head, dropped_records, in_flight, history>>

\* The process dies inside push, before or after the whole line is written,
\* or with enforce_cap part of the way.
CrashInPush(b) ==
    /\ up /\ pushes < MaxPushes /\ crashes < MaxCrashes
    /\ up' = FALSE
    /\ crashes' = crashes + 1
    /\ pushes' = pushes + 1
    /\ \/ \E n \in 0 .. b - 1, kind \in TornKinds :
            /\ jsonl' = Put(jsonl, PushSeq(b), Partial(pushes, b, n, kind))
            /\ UNCHANGED <<dropped_records, shed>>
       \/ LET dir == Put(jsonl, PushSeq(b), Whole(pushes, b))
              due == Shed(dir, HeadAfter(b).seq)
          IN  \E s \in 0 .. PushSeq(b) : EnforceCap(dir, {t \in due : t < s})
    /\ UNCHANGED <<inflight, head, in_flight, accepted, handed, acked, shedAtOpen, failed>>

\* Mutant: appending resumes in the newest segment, after its torn tail.
Open_AppendsToNewest ==
    /\ ~up
    /\ up' = TRUE
    /\ LET dir == [s \in DOMAIN jsonl \union DOMAIN inflight |->
                     IF s \in DOMAIN inflight THEN inflight[s] ELSE jsonl[s]]
       IN  /\ jsonl' = dir
           /\ head' = FreshHead(IF DOMAIN dir = {} THEN 0 ELSE Newest(dir))
    /\ inflight' = <<>> /\ in_flight' = None /\ dropped_records' = 0
    /\ handed' = {} /\ shedAtOpen' = Cardinality(shed)
    /\ UNCHANGED <<crashes, failed, pushes, accepted, acked, shed>>

\* open: every .inflight file is renamed back (a rename replaces what is at
\* its new name), and appending starts after the newest segment.
Open ==
    /\ ~up
    /\ up' = TRUE
    /\ LET dir == [s \in DOMAIN jsonl \union DOMAIN inflight |->
                     IF s \in DOMAIN inflight THEN inflight[s] ELSE jsonl[s]]
       IN  /\ jsonl' = dir
           /\ head' = FreshHead(IF DOMAIN dir = {} THEN 0 ELSE Newest(dir) + 1)
    /\ inflight' = <<>>
    /\ in_flight' = None
    /\ dropped_records' = 0
    /\ handed' = {}
    /\ shedAtOpen' = Cardinality(shed)
    /\ UNCHANGED <<crashes, failed, pushes, accepted, acked, shed>>

Init ==
    /\ jsonl = <<>> /\ inflight = <<>>
    /\ head = FreshHead(0)
    /\ dropped_records = 0 /\ in_flight = None /\ up = TRUE /\ crashes = 0
    /\ pushes = 0 /\ accepted = {} /\ handed = {} /\ acked = {}
    /\ shed = {} /\ shedAtOpen = 0 /\ failed = FALSE

Next ==
    \/ \E b \in Sizes : Push(b) \/ PushFails(b) \/ PushCapFails(b) \/ CrashInPush(b)
    \/ DrainOldest \/ Ack \/ Skip \/ RetireFails
    \/ Crash \/ Open

Spec == Init /\ [][Next]_vars
-----------------------------------------------------------------------------
Dir(d) == /\ DOMAIN d \subseteq Nat
          /\ \A s \in DOMAIN d : d[s] \in File

\* Type correctness of the spool's directory and of EventSpool's fields.
TypeOK ==
    /\ Dir(jsonl) /\ Dir(inflight)
    /\ head \in [seq : Nat, records : Nat, bytes : Nat]
    /\ dropped_records \in Nat
    /\ in_flight \in Nat \union {None}
    /\ up \in BOOLEAN /\ failed \in BOOLEAN
    /\ crashes \in Nat /\ pushes \in Nat /\ shedAtOpen \in Nat
    /\ accepted \subseteq Nat /\ handed \subseteq Nat
    /\ acked \subseteq Nat /\ shed \subseteq Nat

OnDisk == RecordsIn(jsonl, DOMAIN jsonl) \union RecordsIn(inflight, DOMAIN inflight)

\* A segment number names one file: the segments a running spool lists are at
\* or below the one it appends to, the one in flight is strictly below, and
\* no number is both waiting and in flight, so the renames of open (and the
\* debug_assert of enforce_cap) never meet a second file.
SegmentNames ==
    /\ DOMAIN jsonl \intersect DOMAIN inflight = {}
    /\ up => /\ \A s \in DOMAIN jsonl : s <= head.seq
             /\ \A s \in DOMAIN inflight : s < head.seq
             /\ DOMAIN inflight = IF in_flight = None THEN {} ELSE {in_flight}

\* A record whose push returned Ok is on disk in a parseable line, was ack'd,
\* or was shed: whatever the crash, rotation and drain interleaving, the spool
\* never loses it in another way, as long as no file
\* operation has failed.
NoSilentLoss == ~failed => accepted \subseteq OnDisk \union acked \union shed

\* The loss is counted: dropped_records is at least the number of whole
\* records this process deleted by enforce_cap or skip, as long as no segment
\* was cut inside a character (then enforce_cap reads no line and counts none).
LossIsCounted == up => Cardinality(shed) - shedAtOpen <= dropped_records

=============================================================================
