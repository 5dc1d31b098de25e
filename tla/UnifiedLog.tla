---------------------------- MODULE UnifiedLog -----------------------------
(***************************************************************************)
(* cu29_unifiedlog: streams append entries to sections of a log file that  *)
(* is mapped to memory and continued in further files, the slabs.  A       *)
(* section is a header and data; the header's count of used bytes is       *)
(* written when the section is closed.  After the newest section there is  *)
(* an end marker, which the next section overwrites.  A slab whose         *)
(* sections are all closed is unmapped, and its file cut to what was used. *)
(*                                                                         *)
(* An entry, a section header and a marker take one unit; a page is Page   *)
(* units.  A store to a mapping is in the file at once for whoever opens   *)
(* it, also when the process dies.                                         *)
(***************************************************************************)
EXTENDS Integers, SequencesExt

CONSTANTS
  Stream,
  SectionSize,   \* stream -> minimum_allocation_amount
  SlabSize, Page,
  MaxEntries,    \* bound: entries of a stream
  MaxSlab,       \* bound: the last slab's suffix
  MaxRuns        \* bound: runs of the program, each over the former's files

ASSUME UnifiedLogAssumption ==
  /\ SectionSize \in [Stream -> Nat \ {0, 1}]
  /\ Page \in Nat \ {0} /\ SlabSize \in Nat \ {0} /\ SlabSize % Page = 0
  /\ MaxEntries \in Nat /\ MaxSlab \in Nat /\ MaxRuns \in Nat \ {0}

Unit == 1                       \* of a header, a marker, an entry
LastEntry == "LastEntry"
ASSUME MarkerIsNoStream == LastEntry \notin Stream

VARIABLES
  files,     \* suffix -> [len, headers: offset -> header, data: offset -> entries]
  slabs,     \* suffix -> SlabEntry, of the slabs that are mapped
  front,     \* front_slab_suffix; the other mapped slabs are back_slabs
  streams,   \* stream -> LogStream
  lock,      \* what the holder of the logger's mutex is about to do
  closed,    \* the logger was dropped
  \* history
  run, logged

vars == <<files, slabs, front, streams, lock, closed, run, logged>>

Lowest(a, b) == IF a <= b THEN a ELSE b
With(f, x, v) == [y \in DOMAIN f \cup {x} |-> IF y = x THEN v ELSE f[y]]
align_to_next_page(x) == ((x + Page - 1) \div Page) * Page

NewFile == [len |-> SlabSize, headers |-> <<>>, data |-> <<>>]
NewSlab == [pos |-> 0, in_flight |-> <<>>, flushed_until |-> 0, marker |-> {},
            synced |-> {}]
NoStream == [status |-> "none", slab |-> 0, start |-> 0, used |-> 0]
Free == [holder |-> LastEntry, entry |-> "none"]

\* MmapUnifiedLoggerWrite::new: the main header takes the first page.
Init ==
  /\ files = With(<<>>, 0, NewFile) /\ front = 0
  /\ slabs = With(<<>>, 0, [NewSlab EXCEPT !.pos = Page])
  /\ streams = [s \in Stream |-> NoStream] /\ lock = Free /\ closed = FALSE
  /\ run = 1 /\ logged = [s \in Stream |-> 0]

----------------------------------------------------------------------------
(* SlabEntry. *)

\* A store makes a unit differ from what the disk holds.
Dirty(slab, unit) == [slab EXCEPT !.synced = @ \ {unit}]
WriteHeader(file, offset, header) ==
  [file EXCEPT !.headers = With(@, offset, header)]

flush_range(slab, start, len) ==
  [slab EXCEPT !.synced = @ \cup start..(start + len - 1)]

flush_until(slab, until) ==
  IF slab.flushed_until = until \/ until = 0 THEN slab
  ELSE [flush_range(slab, slab.flushed_until, until - slab.flushed_until)
          EXCEPT !.flushed_until = until]

clear_marker_keep_cursor(slab) ==
  IF slab.marker = {} THEN slab
  ELSE LET at == CHOOSE m \in slab.marker : TRUE IN
       [slab EXCEPT !.pos = at, !.marker = {}]
clear_temporary_end_marker(slab) ==
  IF slab.marker = {} THEN slab
  ELSE LET at == CHOOSE m \in slab.marker : TRUE IN
       [slab EXCEPT !.pos = at, !.marker = {},
                    !.flushed_until = Lowest(@, at)]

\* Where the marker goes; there may be no room.
MarkerAt(slab) == align_to_next_page(slab.pos)
MarkerFits(slab) == MarkerAt(slab) + Unit <= SlabSize
MarkerHeader(temporary) ==
  [entry_type |-> LastEntry, next |-> Unit, used |-> 0, is_open |-> temporary]
Marked(slab) ==
  [Dirty(slab, MarkerAt(slab)) EXCEPT !.pos = MarkerAt(slab) + Unit,
                                      !.marker = {MarkerAt(slab)}]

\* add_section: where the section goes; without room only pos moves.
SectionAt(slab) == align_to_next_page(slab.pos)
SectionFits(slab, size) == SectionAt(slab) + align_to_next_page(size) <= SlabSize
SectionHeader(s, used, is_open) ==
  [entry_type |-> s, next |-> align_to_next_page(SectionSize[s]), used |-> used,
   is_open |-> is_open]
OpenedIn(file, offset, s) ==
  [WriteHeader(file, offset, SectionHeader(s, 0, TRUE))
     EXCEPT !.data = With(@, offset, <<>>)]
WithSection(slab, size) ==
  [Dirty(slab, SectionAt(slab)) EXCEPT
     !.in_flight = Append(@, SectionAt(slab)), !.pos = SectionAt(slab) + size]
NoRoom(slab) == [slab EXCEPT !.pos = SectionAt(slab)]

\* retain(|&x| x != start), of offsets that are distinct.
Retained(offsets, start) ==
  IF start \notin ToSet(offsets) THEN offsets
  ELSE RemoveAt(offsets, CHOOSE k \in DOMAIN offsets : offsets[k] = start)

\* flush_section: past an open section, the closed one is flushed by itself.
FlushClosed_prefix(slab, start, len) ==
  LET left == Retained(slab.in_flight, start)
      rest == [slab EXCEPT !.in_flight = left]
  IN  flush_until(rest, IF left = <<>> THEN rest.pos ELSE left[1])
FlushClosed(slab, start, len) ==
  LET left == Retained(slab.in_flight, start)
      rest == [slab EXCEPT !.in_flight = left]
      upto == IF left # <<>> /\ rest.flushed_until < left[1]
                THEN flush_until(rest, left[1]) ELSE rest
  IN  CASE left = <<>> -> flush_until(rest, rest.pos)
        [] left # <<>> /\ start + len > upto.flushed_until
             -> flush_range(upto, start, len)
        [] OTHER -> upto

----------------------------------------------------------------------------
(* MmapUnifiedLoggerWrite, on the mapped slabs m and the files f. *)

\* Unmapping a slab cuts its file to the part used.
Trim_skipped(file, len) == file
Trim(file, len) ==
  [len |-> len,
   headers |-> [p \in {q \in DOMAIN file.headers : q < len} |-> file.headers[p]],
   data |-> file.data]

Stale(m) == {i \in DOMAIN m \ {front} : m[i].in_flight = <<>>}
Mapped(m) == [i \in DOMAIN m \ Stale(m) |-> m[i]]
Trimmed(f, m) ==
  [i \in DOMAIN f |-> IF i \in Stale(m) THEN Trim(f[i], m[i].pos) ELSE f[i]]

\* flush_section of stream s, in the slab its section lies in.
SectionsFlushed(m, s) ==
  LET t == streams[s] IN
  [m EXCEPT ![t.slab] =
     FlushClosed(Dirty(@, t.start), t.start, align_to_next_page(SectionSize[s]))]
HeaderClosed(f, s) ==
  LET t == streams[s] IN
  [f EXCEPT ![t.slab] =
     WriteHeader(@, t.start, SectionHeader(s, t.used, FALSE))]

\* add_section for stream s up to the store of the section's header: stale
\* back slabs go, the marker is forgotten, and a full slab becomes a back one.
AddSection(s, f, m) ==
  LET kept == [Mapped(m) EXCEPT ![front] = clear_temporary_end_marker(@)]
      size == SectionSize[s]
      fits == SectionFits(kept[front], size)
      to == IF fits THEN front ELSE front + 1
      room == IF fits THEN kept
              ELSE With([kept EXCEPT ![front] = NoRoom(@)], to, NewSlab)
      cut == IF fits THEN Trimmed(f, m) ELSE With(Trimmed(f, m), to, NewFile)
      at == SectionAt(room[to])
  IN  /\ to <= MaxSlab /\ SectionFits(room[to], size)
      /\ front' = to
      /\ slabs' = [room EXCEPT ![to] = WithSection(@, size)]
      /\ files' = [cut EXCEPT ![to] = OpenedIn(@, at, s)]
      /\ streams' = [streams EXCEPT ![s] =
           [status |-> "open", slab |-> to, start |-> at, used |-> 0]]

----------------------------------------------------------------------------
(* LogStream. *)

Put(s, t, f, m) ==
  /\ files' = [f EXCEPT ![t.slab].data[t.start] =
                 Append(@, <<run, logged[s] + 1>>)]
  /\ slabs' = [m EXCEPT ![t.slab] = Dirty(@, t.start + Unit + t.used)]
  /\ streams' = [streams EXCEPT ![s] = [t EXCEPT !.used = @ + 1]]
  /\ logged' = [logged EXCEPT ![s] = @ + 1]

\* LogStream::new
Open(s) ==
  /\ ~closed /\ lock = Free /\ streams[s].status = "none"
  /\ AddSection(s, files, slabs)
  /\ lock' = [holder |-> s, entry |-> "none"]
  /\ UNCHANGED <<closed, run, logged>>

HasSpace(s) == Unit + streams[s].used < SectionSize[s]

\* log() while the section has room takes no lock.
LogEntry(s) ==
  /\ streams[s].status = "open" /\ lock.holder # s /\ logged[s] < MaxEntries
  /\ HasSpace(s)
  /\ Put(s, streams[s], files, slabs)
  /\ UNCHANGED <<front, lock, closed, run>>

\* Otherwise the section is closed and another one taken.  An entry that does
\* not fit there either is an error, and not logged.  (Bound: such an entry is
\* a stream's first one.)
Roll(s) ==
  /\ streams[s].status = "open" /\ lock = Free /\ logged[s] < MaxEntries
  /\ \/ ~HasSpace(s) /\ lock' = [holder |-> s, entry |-> "fits"]
     \/ logged[s] = 0 /\ lock' = [holder |-> s, entry |-> "none"]
  /\ AddSection(s, HeaderClosed(files, s), SectionsFlushed(slabs, s))
  /\ UNCHANGED <<closed, run, logged>>

\* place_end_marker: a slab that is full to the end becomes a back one.
Marker_if_room(f, m, temporary) ==
  IF ~MarkerFits(m[front]) THEN [front |-> front, slabs |-> m, files |-> f]
  ELSE [front |-> front, slabs |-> [m EXCEPT ![front] = Marked(@)],
        files |-> [f EXCEPT ![front] =
          WriteHeader(@, MarkerAt(m[front]), MarkerHeader(temporary))]]
Marker(f, m, temporary) ==
  IF MarkerFits(m[front])
    THEN [front |-> front,
          slabs |-> [m EXCEPT ![front] = Marked(@)],
          files |-> [f EXCEPT ![front] =
            WriteHeader(@, MarkerAt(m[front]), MarkerHeader(temporary))]]
    ELSE [front |-> front + 1,
          slabs |-> With(m, front + 1, Marked(NewSlab)),
          files |-> With(f, front + 1,
                      WriteHeader(NewFile, 0, MarkerHeader(temporary)))]

\* The rest of add_section and of the log() or new() that called it.
PlaceEndMarker ==
  /\ lock # Free
  /\ LET p == Marker(files, slabs, TRUE)
         s == lock.holder
     IN  /\ p.front <= MaxSlab + 1
         /\ front' = p.front
         /\ IF lock.entry = "fits" THEN Put(s, streams[s], p.files, p.slabs)
            ELSE files' = p.files /\ slabs' = p.slabs /\ UNCHANGED <<streams, logged>>
  /\ lock' = Free
  /\ UNCHANGED <<closed, run>>

\* A stream is dropped.
CloseStream(s) ==
  /\ streams[s].status = "open" /\ lock = Free
  /\ files' = HeaderClosed(files, s)
  /\ slabs' = SectionsFlushed(slabs, s)
  /\ streams' = [streams EXCEPT ![s].status = "closed"]
  /\ UNCHANGED <<front, lock, closed, run, logged>>

\* The logger is dropped after every stream: a final marker, all files cut.
CloseLog ==
  /\ ~closed /\ lock = Free /\ \A s \in Stream : streams[s].status # "open"
  /\ LET p == Marker(files, [slabs EXCEPT ![front] = clear_temporary_end_marker(@)],
                     FALSE)
     IN  /\ front' = p.front
         /\ files' = [i \in DOMAIN p.files |->
              IF i \in DOMAIN p.slabs THEN Trim(p.files[i], p.slabs[i].pos)
              ELSE p.files[i]]
  /\ slabs' = <<>> /\ closed' = TRUE
  /\ UNCHANGED <<streams, lock, run, logged>>

\* The process ends, in any way, and another one logs under the same name:
\* the first file is made anew, the others stay until they are reached.
NextRun ==
  /\ run < MaxRuns /\ run' = run + 1
  /\ files' = With(files, 0, NewFile) /\ front' = 0
  /\ slabs' = With(<<>>, 0, [NewSlab EXCEPT !.pos = Page])
  /\ streams' = [s \in Stream |-> NoStream] /\ lock' = Free /\ closed' = FALSE
  /\ logged' = [s \in Stream |-> 0]

Next ==
  \/ \E s \in Stream : Open(s) \/ LogEntry(s) \/ Roll(s) \/ CloseStream(s)
  \/ PlaceEndMarker \/ CloseLog \/ NextRun

Spec == Init /\ [][Next]_vars

----------------------------------------------------------------------------
(* MmapUnifiedLoggerRead: from a position, the sections up to the marker or  *)
(* the first header that is none, and the content of each stream's.          *)

prolog(i) == IF i = 0 THEN Page ELSE 0

IsHeader(i, p) == i \in DOMAIN files /\ p \in DOMAIN files[i].headers
EndOfFile(i, p) == i \in DOMAIN files /\ p >= files[i].len

Content(i, p) == SubSeq(files[i].data[p], 1, files[i].headers[p].used)

NothingRead(ends) ==
  [ends |-> ends, sections |-> <<>>, content |-> [s \in Stream |-> <<>>]]

Position == (0..(MaxSlab + 2)) \X (0..(SlabSize + Page))
SectionRead(rest, i, p) ==
  [rest EXCEPT !.sections = <<<<i, p>>>> \o @,
               !.content[files[i].headers[p].entry_type] = Content(i, p) \o @]

\* (No file is ever empty, so that next_slab leads to a header.)
Scan[at \in Position] ==
  LET i == at[1] p == at[2] IN
  IF EndOfFile(i, p) THEN Scan[<<i + 1, prolog(i + 1)>>]
  ELSE IF ~IsHeader(i, p) THEN NothingRead(FALSE)
  ELSE IF files[i].headers[p].entry_type = LastEntry THEN NothingRead(TRUE)
  ELSE SectionRead(Scan[<<i, p + files[i].headers[p].next>>], i, p)

Reading == Scan[<<0, prolog(0)>>]

----------------------------------------------------------------------------
(* Properties. *)

\* The cursor never has to go back: flush_until would compute a negative length.
SlabOK(slab) ==
  /\ slab.pos \in 0..SlabSize /\ slab.flushed_until \in 0..slab.pos
  /\ slab.marker \subseteq 0..(slab.pos - Unit) /\ Cardinality(slab.marker) <= 1
  /\ \A k \in DOMAIN slab.in_flight : slab.in_flight[k] \in 0..(slab.pos - Unit)

TypeOK ==
  /\ DOMAIN slabs \subseteq DOMAIN files /\ (~closed => front \in DOMAIN slabs)
  /\ \A i \in DOMAIN slabs : SlabOK(slabs[i])
  /\ \A s \in Stream : streams[s].status = "open"
       => /\ streams[s].slab \in DOMAIN slabs
          /\ streams[s].start \in ToSet(slabs[streams[s].slab].in_flight)

(* A closed section was flushed, which is asynchronous (flush_async_range): *)
(* what it holds now was handed to the system to be written, also behind an *)
(* earlier section still open.  Nothing still to be written is counted as   *)
(* flushed.                                                                 *)
ClosedIsFlushed ==
  \A i \in DOMAIN slabs :
    /\ \A p \in DOMAIN files[i].headers :
         ~files[i].headers[p].is_open
           => p..(p + files[i].headers[p].used) \subseteq slabs[i].synced
    /\ \A k \in DOMAIN slabs[i].in_flight :
         slabs[i].flushed_until <= slabs[i].in_flight[k]

(* Whenever the process dies outside add_section, a reader comes to a marker *)
(* and not to a header that is none.                                         *)
ReaderReachesMarker ==
  (lock = Free /\ \E s \in Stream : streams[s].status # "none") => Reading.ends

(* A marker is the end of the log: no section behind it is closed by now.    *)
MarkerEndsLog ==
  (lock = Free /\ Reading.ends) =>
    \A i \in DOMAIN slabs : \A p \in DOMAIN files[i].headers :
      \/ files[i].headers[p].is_open \/ files[i].headers[p].used = 0
      \/ <<i, p>> \in ToSet(Reading.sections)

\* How much of this run's log is read back; none of it if anything is amiss.
\* Until the marker is placed nothing keeps a reader from going on, at the end
\* of a full slab, to what an earlier run left.
Intact[entries \in Seq(Nat \X Nat)] ==
  IF \A k \in DOMAIN entries : \/ entries[k] = <<run, k>>
                               \/ entries[k][1] < run /\ lock # Free
    THEN Cardinality({k \in DOMAIN entries : entries[k][1] = run})
    ELSE -1
recoverable ==
  [s \in Stream |-> Intact[Reading.content[s]]]

(* At every moment each stream reads back as a prefix of what this run       *)
(* logged, never of an earlier run, which does not shrink; and as all of it  *)
(* when the log was closed.                                                  *)
AL == INSTANCE AppendLog
ImplementsAppendLog == AL!ALSpec
=============================================================================
