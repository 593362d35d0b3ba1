---------------------------- MODULE DeskFileProofs ----------------------------
(***************************************************************************)
(* Proofs about the files around the transfers, of MCDesk: the queue's own *)
(* file, editing in place, the saved sites with their passwords and the    *)
(* recent connections, and the comparison of folders.  Each section has    *)
(* its inductive invariant, one lemma for each step of the part, and what  *)
(* follows from the invariant.                                             *)
(***************************************************************************)
EXTENDS MCDesk, FiniteSetTheorems, SequenceTheorems, TLAPS

-----------------------------------------------------------------------------
(* The queue's file                                                        *)

States == [Transfers -> Statuses]
Histories == {h \in Seq(Transfers) : Len(h) <= HistoryMax}
Snapshot == [items : States, history : Histories]
Singles == {{t} : t \in Transfers}

FileParts ==
  /\ caller \in [Callers -> [pc : {"free", "archive", "mark"}, done : {{}} \cup Singles]]
  /\ saver \in [pc : {"asleep", "items", "history", "write", "written"},
                items : States, history : Histories]
  /\ file \in {Torn} \cup Snapshot

\* What the saver has read so far is what is there ...
ItemsRead(t) ==
  saver.pc \in {"history", "write", "written"} =>
    Restarted(saver.items)[t] = Restarted(items)[t]

Quiet == ~dirty /\ \A c \in Callers : caller[c] = Free

\* ... as a whole, when nobody is in the middle of anything and the file is not
\* known to be old ...
ReadWhole ==
  Quiet =>
    /\ \A t \in Transfers : ItemsRead(t)
    /\ saver.pc \in {"write", "written"} => saver.history = history

\* ... and for each transfer, until it changes.
ReadUnchanged ==
  \A t \in Transfers \ unsaved :
    /\ ItemsRead(t)
    /\ saver.pc \in {"write", "written"} =>
         (t \in ToSet(saver.history)) = (t \in ToSet(history))
    /\ saver = Asleep /\ ~lost =>
         /\ Loaded(file).items[t] = Restarted(items)[t]
         /\ (t \in ToSet(Loaded(file).history)) = (t \in ToSet(history))

FileInv == FileTypeOK /\ FileParts /\ ReadWhole /\ ReadUnchanged /\ QuietFileAgrees

LEMMA RestartTwice ==
  ASSUME NEW i \in States
  PROVE  /\ Restarted(i) \in States
         /\ Restarted(Restarted(i)) = Restarted(i)
         /\ \A t \in Transfers : Restarted(i)[t] = IF i[t] = "active" THEN "queued" ELSE i[t]
  BY DEF States, Statuses, Kept, Restarted

LEMMA SnapshotType ==
  /\ Nobody \in States /\ Restarted(Nobody) = Nobody
  /\ <<>> \in Histories /\ Empty \in Snapshot
<1>1. <<>> \in Histories
  BY FileAssumption, EmptySeq DEF Histories
<1> QED BY <1>1 DEF Nobody, States, Restarted, Empty, Snapshot, Statuses, Kept

\* A file that is read twice shows the same.
LEMMA LoadedType ==
  ASSUME FileParts
  PROVE  /\ Loaded(file).items \in States /\ Loaded(file).history \in Histories
         /\ Loaded(file) = [items |-> Loaded(file).items, history |-> Loaded(file).history]
         /\ Restarted(Loaded(file).items) = Loaded(file).items
<1>1. CASE file = Torn
  BY <1>1, SnapshotType DEF Loaded, Empty
<1>2. CASE file # Torn
  <2>1. file.items \in States /\ file.history \in Histories
    BY <1>2 DEF FileParts, Snapshot
  <2> QED BY <1>2, <2>1, RestartTwice DEF Loaded
<1> QED BY <1>1, <1>2

\* What is written is read back.
LEMMA WrittenRead ==
  ASSUME FileParts, file' = [items |-> Stored(saver.items), history |-> saver.history]
  PROVE  /\ file' \in Snapshot
         /\ Loaded(file') = [items |-> Restarted(saver.items), history |-> saver.history]
<1>1. file' \in Snapshot /\ file' # Torn
  BY FileAssumption DEF FileParts, Stored, Snapshot, States, Histories
<1> QED BY <1>1 DEF Loaded, Stored

LEMMA FileInitial == ASSUME FileInit PROVE FileInv
<1>1. FileTypeOK /\ FileParts
  BY SnapshotType, EmptySeq, FileAssumption
  DEF FileInit, FileTypeOK, FileParts, States, Histories, Snapshot, Nobody, Empty, Free, Asleep
<1>2. Loaded(file) = [items |-> Restarted(items), history |-> history]
  BY SnapshotType DEF FileInit, Loaded, Empty
<1>3. ReadWhole /\ ReadUnchanged /\ QuietFileAgrees
  BY <1>2 DEF FileInit, ReadWhole, ReadUnchanged, QuietFileAgrees, ItemsRead, Asleep
<1> QED BY <1>1, <1>3 DEF FileInv

\* Once somebody is in the middle of something, only what is unsaved differs.
LEMMA CallerMoves ==
  ASSUME FileInv, NEW c \in Callers, NEW turn \in [pc : {"archive", "mark"}, done : {{}} \cup Singles],
         (turn.done # {}) = (turn.pc = "archive"),
         caller' = [caller EXCEPT ![c] = turn],
         items' \in States, history' \in Histories, unsaved' \subseteq Transfers,
         unsaved \subseteq unsaved',
         \A t \in Transfers \ unsaved' :
           items'[t] = items[t] /\ (t \in ToSet(history')) = (t \in ToSet(history)),
         UNCHANGED <<dirty, saver, file, lost>>
  PROVE  FileInv'
<1>1. FileTypeOK' /\ FileParts'
  BY DEF FileInv, FileTypeOK, FileParts, States, Histories
<1>2. caller'[c] # Free
  BY DEF FileInv, FileParts, Free
<1>3. ~Quiet' /\ (\E d \in Callers : caller'[d] # Free)
  BY <1>2 DEF Quiet
<1>4. ReadWhole' /\ QuietFileAgrees'
  BY <1>3 DEF ReadWhole, QuietFileAgrees
<1>5. ASSUME NEW t \in Transfers, t \notin unsaved'
      PROVE  t \notin unsaved /\ Restarted(items')[t] = Restarted(items)[t]
  BY <1>5 DEF Restarted
<1>6. ReadUnchanged'
  BY <1>5 DEF FileInv, ReadUnchanged, ItemsRead
<1> QED BY <1>1, <1>4, <1>6 DEF FileInv

\* Whoever has changed the queue still has to say so.
LEMMA ToMark ==
  ASSUME FileParts, NEW c \in Callers, caller[c] = Free,
         caller' = [caller EXCEPT ![c].pc = "mark"]
  PROVE  caller' = [caller EXCEPT ![c] = [pc |-> "mark", done |-> {}]]
<1>1. [caller[c] EXCEPT !.pc = "mark"] = [pc |-> "mark", done |-> {}]
  BY DEF Free
<1> QED BY <1>1

LEMMA TurnKeeps ==
  ASSUME FileInv, NEW c \in Callers, NEW S \in SUBSET Transfers, NEW from, NEW to \in Kept,
         Turn(c, S, from, to)
  PROVE  FileInv'
<1> DEFINE turn == [pc |-> "mark", done |-> {}]
<1>1. caller' = [caller EXCEPT ![c] = turn]
  BY ToMark DEF Turn, FileInv
<1>2. /\ items' \in States /\ history' \in Histories /\ unsaved' \subseteq Transfers
      /\ unsaved \subseteq unsaved'
      /\ \A t \in Transfers \ unsaved' :
           items'[t] = items[t] /\ (t \in ToSet(history')) = (t \in ToSet(history))
      /\ UNCHANGED <<dirty, saver, file, lost>>
  BY DEF Turn, FileInv, FileTypeOK, States, Statuses, Kept, Histories
<1>3. turn \in [pc : {"archive", "mark"}, done : {{}} \cup Singles]
      /\ (turn.done # {}) = (turn.pc = "archive")
  OBVIOUS
<1> HIDE DEF turn
<1> QED BY <1>1, <1>2, <1>3, CallerMoves

LEMMA LeaveKeeps ==
  ASSUME FileInv, NEW c \in Callers, NEW S \in SUBSET Transfers, Leave(c, S)
  PROVE  FileInv'
<1> DEFINE turn == [pc |-> "mark", done |-> {}]
<1>1. caller' = [caller EXCEPT ![c] = turn]
  BY ToMark DEF Leave, FileInv
<1>2. /\ items' \in States /\ history' \in Histories /\ unsaved' \subseteq Transfers
      /\ unsaved \subseteq unsaved'
      /\ \A t \in Transfers \ unsaved' :
           items'[t] = items[t] /\ (t \in ToSet(history')) = (t \in ToSet(history))
      /\ UNCHANGED <<dirty, saver, file, lost>>
  BY DEF Leave, FileInv, FileTypeOK, States, Statuses, Kept, Histories
<1>3. turn \in [pc : {"archive", "mark"}, done : {{}} \cup Singles]
      /\ (turn.done # {}) = (turn.pc = "archive")
  OBVIOUS
<1> HIDE DEF turn
<1> QED BY <1>1, <1>2, <1>3, CallerMoves

LEMMA FinishKeeps ==
  ASSUME FileInv, NEW c \in Callers, NEW t \in Transfers, Finish(c, t)
  PROVE  FileInv'
<1> DEFINE turn == [pc |-> "archive", done |-> {t}]
<1>1. caller' = [caller EXCEPT ![c] = turn]
  BY DEF Finish
<1>2. /\ items' \in States /\ history' \in Histories /\ unsaved' \subseteq Transfers
      /\ unsaved \subseteq unsaved'
      /\ \A s \in Transfers \ unsaved' :
           items'[s] = items[s] /\ (s \in ToSet(history')) = (s \in ToSet(history))
      /\ UNCHANGED <<dirty, saver, file, lost>>
  BY DEF Finish, FileInv, FileTypeOK, States, Statuses, Histories
<1>3. turn \in [pc : {"archive", "mark"}, done : {{}} \cup Singles]
      /\ (turn.done # {}) = (turn.pc = "archive")
  BY DEF Singles
<1> HIDE DEF turn
<1> QED BY <1>1, <1>2, <1>3, CallerMoves

LEMMA OneInOrder ==
  ASSUME NEW t \in Transfers
  PROVE  SetToSeq({t}) \in Seq(Transfers) /\ ToSet(SetToSeq({t})) = {t}
<1>1. Cardinality({t}) = 1
  BY FS_Singleton
<1> DEFINE f == [i \in 1 .. 1 |-> t]
<1>2. f \in [1 .. 1 -> {t}] /\ IsInjective(f)
  BY DEF IsInjective
<1> DEFINE s == SetToSeq({t})
<1>3. s \in [1 .. 1 -> {t}]
  BY <1>1, <1>2 DEF SetToSeq
<1> HIDE DEF s
<1>4. s \in Seq(Transfers) /\ DOMAIN s = 1 .. 1 /\ s[1] = t
  BY <1>3
<1>5. ToSet(s) = {t}
  BY <1>4 DEF ToSet
<1> QED BY <1>4, <1>5 DEF s

LEMMA Joins ==
  ASSUME NEW s \in Seq(Transfers), NEW u \in Seq(Transfers), NEW n \in 0 .. Len(s \o u)
  PROVE  /\ s \o u \in Seq(Transfers) /\ ToSet(s \o u) = ToSet(s) \cup ToSet(u)
         /\ SubSeq(s \o u, 1, n) \in Seq(Transfers) /\ Len(SubSeq(s \o u, 1, n)) = n
         /\ ToSet(SubSeq(s \o u, 1, n)) \subseteq ToSet(s \o u)
<1> DEFINE w == s \o u
<1>1. w \in Seq(Transfers) /\ Len(w) = Len(s) + Len(u)
      /\ \A i \in 1 .. Len(w) : w[i] = IF i <= Len(s) THEN s[i] ELSE u[i - Len(s)]
  OBVIOUS
<1>2. ToSet(w) \subseteq ToSet(s) \cup ToSet(u)
  BY <1>1 DEF ToSet
<1>3. \A i \in 1 .. Len(s) : s[i] = w[i]
  BY <1>1
<1>4. \A i \in 1 .. Len(u) : u[i] = w[i + Len(s)] /\ i + Len(s) \in 1 .. Len(w)
  BY <1>1
<1> HIDE DEF w
<1>5. ToSet(s) \cup ToSet(u) \subseteq ToSet(w)
  <2>1. DOMAIN s = 1 .. Len(s) /\ DOMAIN u = 1 .. Len(u) /\ DOMAIN w = 1 .. Len(w)
        /\ Len(s) \in Nat /\ Len(u) \in Nat
    BY <1>1
  <2>2. \A i \in 1 .. Len(s) : i \in 1 .. Len(w)
    BY <2>1, <1>1
  <2> QED BY <2>1, <2>2, <1>3, <1>4 DEF ToSet
<1>6. /\ SubSeq(w, 1, n) \in Seq(Transfers) /\ Len(SubSeq(w, 1, n)) = n
      /\ \A i \in 1 .. n : SubSeq(w, 1, n)[i] = w[i]
  BY <1>1 DEF w
<1>7. ToSet(SubSeq(w, 1, n)) \subseteq ToSet(w)
  BY <1>6, <1>1 DEF ToSet, w
<1> QED BY <1>1, <1>2, <1>5, <1>6, <1>7 DEF w

LEMMA ArchiveKeeps ==
  ASSUME FileInv, NEW c \in Callers, Archive(c)
  PROVE  FileInv'
<1> DEFINE turn == [pc |-> "mark", done |-> {}]
           first == SetToSeq(caller[c].done)
           longer == first \o history
           n == IF Len(longer) < HistoryMax THEN Len(longer) ELSE HistoryMax
           shorter == SubSeq(longer, 1, n)
<1>1. PICK t \in Transfers : caller[c].done = {t}
  BY DEF Archive, FileInv, FileTypeOK, FileParts, Singles
<1>2. first \in Seq(Transfers) /\ ToSet(first) = {t} /\ history \in Seq(Transfers)
  BY <1>1, OneInOrder DEF FileInv, FileTypeOK
<1> HIDE DEF first
<1>3. Len(longer) \in Nat /\ n \in 0 .. Len(longer) /\ n <= HistoryMax
  BY <1>2, FileAssumption
<1>4. /\ history' = shorter
      /\ unsaved' = unsaved \cup {t} \cup (ToSet(longer) \ ToSet(shorter))
      /\ UNCHANGED <<items, dirty, saver, file, lost>>
      /\ caller' = [caller EXCEPT ![c] = turn]
  BY <1>1 DEF Archive, first
<1> HIDE DEF n
<1>5. /\ ToSet(longer) = {t} \cup ToSet(history) /\ ToSet(shorter) \subseteq ToSet(longer)
      /\ shorter \in Seq(Transfers) /\ Len(shorter) <= HistoryMax
  BY <1>2, <1>3, Joins
<1> HIDE DEF longer, shorter
<1>6. ToSet(history) \subseteq Transfers
  BY <1>2 DEF ToSet
<1>7. /\ items' \in States /\ history' \in Histories /\ unsaved' \subseteq Transfers
      /\ unsaved \subseteq unsaved'
  BY <1>4, <1>5, <1>6 DEF FileInv, FileTypeOK, States, Histories
<1>8. \A s \in Transfers \ unsaved' :
         items'[s] = items[s] /\ (s \in ToSet(history')) = (s \in ToSet(history))
  BY <1>4, <1>5
<1>9. turn \in [pc : {"archive", "mark"}, done : {{}} \cup Singles]
      /\ (turn.done # {}) = (turn.pc = "archive")
  OBVIOUS
<1> HIDE DEF turn
<1> QED BY <1>4, <1>7, <1>8, <1>9, CallerMoves

LEMMA ClearHistoryKeeps ==
  ASSUME FileInv, NEW c \in Callers, ClearHistory(c)
  PROVE  FileInv'
<1> DEFINE turn == [pc |-> "mark", done |-> {}]
<1>1. caller' = [caller EXCEPT ![c] = turn]
  BY ToMark DEF ClearHistory, FileInv
<1>2. ToSet(history) \subseteq Transfers /\ history' = <<>> /\ ToSet(history') = {}
  BY DEF ClearHistory, FileInv, FileTypeOK, ToSet
<1>3. /\ items' \in States /\ history' \in Histories /\ unsaved' \subseteq Transfers
      /\ unsaved \subseteq unsaved'
      /\ \A s \in Transfers \ unsaved' :
           items'[s] = items[s] /\ (s \in ToSet(history')) = (s \in ToSet(history))
      /\ UNCHANGED <<dirty, saver, file, lost>>
  BY <1>2, SnapshotType DEF ClearHistory, FileInv, FileTypeOK, States
<1>4. turn \in [pc : {"archive", "mark"}, done : {{}} \cup Singles]
      /\ (turn.done # {}) = (turn.pc = "archive")
  OBVIOUS
<1> HIDE DEF turn
<1> QED BY <1>1, <1>3, <1>4, CallerMoves

LEMMA FileChangedKeeps ==
  ASSUME FileInv, NEW c \in Callers, Changed(c)
  PROVE  FileInv'
<1>1. FileTypeOK' /\ FileParts'
  BY DEF FileInv, FileTypeOK, FileParts, Changed, Free
<1>2. ReadWhole' /\ QuietFileAgrees'
  BY DEF Changed, ReadWhole, QuietFileAgrees, Quiet
<1>3. ReadUnchanged'
  BY DEF FileInv, Changed, ReadUnchanged, ItemsRead
<1> QED BY <1>1, <1>2, <1>3 DEF FileInv

\* What is dispatched waits again after a restart: nothing to save.
LEMMA DispatchKeeps ==
  ASSUME FileInv, NEW S \in SUBSET Transfers, Dispatch(S)
  PROVE  FileInv'
<1>1. FileTypeOK' /\ FileParts'
  BY DEF FileInv, FileTypeOK, FileParts, Dispatch, Statuses, Kept
<1>2. Restarted(items') = Restarted(items)
  BY DEF FileInv, FileTypeOK, Dispatch, Restarted
<1>3. ReadWhole' /\ QuietFileAgrees' /\ ReadUnchanged'
  BY <1>2 DEF FileInv, Dispatch, ReadWhole, QuietFileAgrees, ReadUnchanged, ItemsRead, Quiet
<1> QED BY <1>1, <1>3 DEF FileInv

LEMMA ReadKeeps ==
  ASSUME FileInv, SwapDirty \/ ReadItems \/ ReadHistory
  PROVE  FileInv'
<1> USE DEF FileInv
<1>1. CASE SwapDirty
  <2>1. FileTypeOK' /\ FileParts'
    BY <1>1 DEF SwapDirty, FileTypeOK, FileParts, Asleep
  <2>2. saver'.pc = "items" /\ saver' # Asleep
    BY <1>1 DEF SwapDirty, FileParts, Asleep
  <2> QED BY <1>1, <2>1, <2>2 DEF ReadWhole, ReadUnchanged, QuietFileAgrees, ItemsRead
<1>2. CASE ReadItems
  <2>1. FileTypeOK' /\ FileParts'
    BY <1>2 DEF ReadItems, FileTypeOK, FileParts, States
  <2>2. saver'.pc = "history" /\ saver' # Asleep /\ saver'.items = items'
    BY <1>2 DEF ReadItems, FileParts, Asleep
  <2> QED BY <2>1, <2>2 DEF ReadWhole, ReadUnchanged, QuietFileAgrees, ItemsRead
<1>3. CASE ReadHistory
  <2>1. FileTypeOK' /\ FileParts'
    BY <1>3 DEF ReadHistory, FileTypeOK, FileParts, Histories
  <2>2. /\ saver'.pc = "write" /\ saver' # Asleep /\ saver'.history = history'
        /\ saver'.items = saver.items
    BY <1>3 DEF ReadHistory, FileParts, Asleep
  <2> QED BY <1>3, <2>1, <2>2
      DEF ReadHistory, ReadWhole, ReadUnchanged, QuietFileAgrees, ItemsRead, Quiet
<1> QED BY <1>1, <1>2, <1>3

LEMMA WriteKeeps ==
  ASSUME FileInv, Truncate \/ Written \/ WriteFails
  PROVE  FileInv'
<1> USE DEF FileInv
<1>1. CASE Truncate
  <2>1. FileTypeOK' /\ FileParts'
    BY <1>1 DEF Truncate, FileTypeOK, FileParts
  <2>2. saver' # Asleep /\ lost' /\ saver'.items = saver.items /\ saver'.history = saver.history
    BY <1>1 DEF Truncate, FileParts, Asleep
  <2> QED BY <1>1, <2>1, <2>2
      DEF Truncate, ReadWhole, ReadUnchanged, QuietFileAgrees, ItemsRead, Quiet
<1>2. CASE Written
  <2>1. /\ file' \in Snapshot
        /\ Loaded(file') = [items |-> Restarted(saver.items), history |-> saver.history]
    BY <1>2, WrittenRead DEF Written
  <2>2. FileTypeOK' /\ FileParts'
    BY <1>2, <2>1, SnapshotType DEF Written, FileTypeOK, FileParts, Asleep
  <2>3. saver'.pc = "asleep"
    BY <1>2 DEF Written, Asleep
  <2>4. ASSUME Quiet PROVE Restarted(saver.items) = Restarted(items) /\ saver.history = history
    BY <1>2, <2>4 DEF Written, ReadWhole, ItemsRead, Restarted
  <2>5. QuietFileAgrees'
    BY <1>2, <2>1, <2>4 DEF Written, QuietFileAgrees, Quiet
  <2>6. ReadUnchanged'
    BY <1>2, <2>1, <2>3 DEF Written, ReadUnchanged, ItemsRead
  <2> QED BY <2>2, <2>3, <2>5, <2>6 DEF ReadWhole, ItemsRead
<1>3. CASE WriteFails
  <2>1. FileTypeOK' /\ FileParts'
    BY <1>3, SnapshotType DEF WriteFails, FileTypeOK, FileParts, Asleep
  <2>2. saver'.pc = "asleep" /\ lost'
    BY <1>3 DEF WriteFails, Asleep
  <2> QED BY <2>1, <2>2 DEF ReadWhole, ReadUnchanged, QuietFileAgrees, ItemsRead
<1> QED BY <1>1, <1>2, <1>3

LEMMA CrashKeeps == ASSUME FileInv, Crash PROVE FileInv'
<1>1. /\ items' = Loaded(file).items /\ history' = Loaded(file).history
      /\ saver' = Asleep /\ saver'.pc = "asleep"
  BY DEF Crash, Asleep
<1>2. FileTypeOK' /\ FileParts'
  <2>1. items' \in States /\ history' \in Histories
    BY <1>1, LoadedType DEF FileInv
  <2>2. /\ caller' \in [Callers -> [pc : {"free", "archive", "mark"}, done : {{}} \cup Singles]]
        /\ \A c \in Callers : caller'[c].pc = "free" /\ caller'[c].done = {}
    BY DEF Crash, Free
  <2>3. saver' \in [pc : {"asleep", "items", "history", "write", "written"},
                    items : States, history : Histories]
    BY <1>1, SnapshotType DEF Asleep
  <2>4. file' \in {Torn} \cup Snapshot
    BY DEF Crash, FileInv, FileParts
  <2> QED BY <1>1, <2>1, <2>2, <2>3, <2>4
      DEF Crash, FileTypeOK, FileParts, States, Histories
<1>3. file' = file /\ Loaded(file') = [items |-> Restarted(items'), history |-> history']
  BY <1>1, LoadedType DEF FileInv, Crash
<1>4. ReadWhole' /\ ReadUnchanged' /\ QuietFileAgrees'
  BY <1>1, <1>3 DEF ReadWhole, ReadUnchanged, QuietFileAgrees, ItemsRead
<1> QED BY <1>2, <1>4 DEF FileInv

LEMMA FileStep == ASSUME FileInv, [FileNext]_fileVars PROVE FileInv'
<1>1. CASE UNCHANGED fileVars
  BY <1>1 DEF fileVars, FileInv, FileTypeOK, FileParts, ReadWhole, ReadUnchanged,
              QuietFileAgrees, ItemsRead, Quiet
<1>2. CASE FileNext
  BY <1>2, TurnKeeps, LeaveKeeps, FinishKeeps, ArchiveKeeps, ClearHistoryKeeps, FileChangedKeeps,
     DispatchKeeps, ReadKeeps, WriteKeeps, CrashKeeps DEF FileNext, Kept
<1> QED BY <1>1, <1>2

\* The inductive invariant of the saving of the queue.
THEOREM FileInvariant == FileSpec => []FileInv
<1> QED BY FileInitial, FileStep, PTL DEF FileSpec

\* Nothing that changed while a save was under way is forgotten: when nobody is
\* in the middle of anything and `dirty` is clear, the file is the queue, for any
\* number of commands, ending tasks and transfers, and through any crashes.
THEOREM QuietFileAgreesAlways == FileSpec => []QuietFileAgrees
<1>1. FileInv => QuietFileAgrees
  BY DEF FileInv
<1> QED BY <1>1, FileInvariant, PTL

\* A crash while nothing is being saved takes back no transfer but those that
\* changed since the last save began.
THEOREM CrashTakesOnlyTheUnsaved == FileSpec => CrashTakesTheUnsaved
<1> DEFINE Takes ==
      \A t \in Transfers \ unsaved :
        Crash /\ saver.pc \notin {"items", "history", "write", "written"} /\ ~lost =>
          /\ items'[t] = Restarted(items)[t]
          /\ (t \in ToSet(history)') = (t \in ToSet(history))
<1>1. ASSUME FileInv PROVE [Takes]_fileVars
  <2>1. ASSUME NEW t \in Transfers \ unsaved, Crash, ~lost,
               saver.pc \notin {"items", "history", "write", "written"}
        PROVE  /\ items'[t] = Restarted(items)[t]
               /\ (t \in ToSet(history)') = (t \in ToSet(history))
    <3>1. saver = Asleep
      BY <1>1, <2>1 DEF FileInv, FileTypeOK
    <3>2. /\ Loaded(file).items[t] = Restarted(items)[t]
          /\ (t \in ToSet(Loaded(file).history)) = (t \in ToSet(history))
      BY <1>1, <2>1, <3>1 DEF FileInv, ReadUnchanged
    <3> QED BY <2>1, <3>2 DEF Crash
  <2> QED BY <2>1
<1> QED BY <1>1, FileInvariant, PTL DEF CrashTakesTheUnsaved

-----------------------------------------------------------------------------
(* Editing in place                                                        *)

\* A save that is not on the server has been read by an upload, or is in the
\* file and somebody still has to look at it.
OnItsWayUp ==
  \/ remote = saves
  \/ \E u \in Uploads : upload[u] = saves
  \/ content = saves /\ (events \/ announced \/ \E u \in Uploads : upload[u] = Queued)

\* What is behind the debounce, and nothing is newer than the last save.
EditParts ==
  /\ since = shown
  /\ content <= saves /\ remote <= saves
  /\ \A u \in Uploads : upload[u] <= saves
  /\ opening = "downloading" => content = Half

EditInv == EditTypeOK /\ EditParts /\ (reason = None => OnItsWayUp)

Constants == Missing = -1 /\ Half = -2 /\ Queued = -3 /\ Unused = -4

LEMMA Numbers == Constants
  BY DEF Constants, Missing, Half, Queued, Unused

LEMMA EditInitial == ASSUME EditInit PROVE EditInv
<1>1. /\ saves = 0 /\ content = -1 /\ remote = 0 /\ opening = "no" /\ ~watched
      /\ since = Debounce /\ shown = Debounce /\ ~events /\ ~announced /\ ~online
      /\ upload = [u \in Uploads |-> -4] /\ -4 \in -4 .. LastSave
  BY EditAssumption DEF EditInit, Missing, Unused
<1>4. /\ 0 \in 0 .. LastSave /\ -1 \in -2 .. LastSave /\ 0 \in -2 .. LastSave
      /\ Debounce \in 0 .. Debounce
  BY EditAssumption
<1>5. upload \in [Uploads -> -4 .. LastSave]
  BY <1>1
<1>6. (events \in BOOLEAN) /\ (announced \in BOOLEAN) /\ watched \in BOOLEAN /\ online \in BOOLEAN
  BY DEF EditInit
<1>2. EditTypeOK
  BY <1>1, <1>4, <1>5, <1>6 DEF EditTypeOK
<1>3. EditParts
  BY <1>1 DEF EditParts
<1> QED BY <1>1, <1>2, <1>3 DEF EditInv, OnItsWayUp

\* Whatever leaves the counters of the debounce together.
LEMMA OpeningKeeps ==
  ASSUME EditInv, Online \/ OpenEdit \/ Downloaded \/ OpenFails \/ Watch
  PROVE  EditInv'
<1>1. CASE Online
  BY <1>1 DEF Online, EditInv, EditTypeOK, EditParts, OnItsWayUp
<1>2. CASE OpenEdit
  <2>3. content' = -2 /\ opening' = "downloading" /\ events' \in BOOLEAN /\ (events' => watched)
    BY <1>2 DEF OpenEdit, EditInv, EditTypeOK, Half
  <2>4. EditTypeOK'
    BY <1>2, <2>3, EditAssumption DEF OpenEdit, EditInv, EditTypeOK
  <2>5. EditParts'
    BY <1>2, <2>3 DEF OpenEdit, EditInv, EditTypeOK, EditParts, Half
  <2>1. EditTypeOK' /\ EditParts'
    BY <2>4, <2>5
  <2>2. reason' # None
    BY <1>2 DEF OpenEdit, Because, None
  <2> QED BY <2>1, <2>2 DEF EditInv
<1>3. CASE Downloaded
  <2>1. EditTypeOK' /\ EditParts'
    BY <1>3 DEF Downloaded, EditInv, EditTypeOK, EditParts
  <2>2. ASSUME reason' = None PROVE remote = saves \/ OnItsWayUp
    BY <1>3, <2>2 DEF Downloaded, EditInv
  <2>3. content # saves
    BY <1>3 DEF Downloaded, EditInv, EditTypeOK, EditParts, Half
  <2>4. reason' = None => OnItsWayUp'
    BY <1>3, <2>2, <2>3 DEF Downloaded, OnItsWayUp
  <2> QED BY <2>1, <2>4 DEF EditInv
<1>4. CASE OpenFails
  BY <1>4 DEF OpenFails, EditInv, EditTypeOK, EditParts, OnItsWayUp
<1>5. CASE Watch
  <2>2. watched' \in BOOLEAN /\ (events' => watched') /\ (announced' => watched')
    BY <1>5 DEF Watch, EditInv, EditTypeOK
  <2>3. since' = 0 /\ shown' = 0 /\ 0 \in 0 .. Debounce
    BY <1>5, EditAssumption DEF Watch
  <2>1. EditTypeOK' /\ EditParts'
    BY <1>5, <2>2, <2>3 DEF Watch, EditInv, EditTypeOK, EditParts
  <2> QED BY <1>5, <2>1 DEF Watch, EditInv, OnItsWayUp
<1> QED BY <1>1, <1>2, <1>3, <1>4, <1>5

LEMMA SaveInFileKeeps == ASSUME EditInv, SaveInFile PROVE EditInv'
<1>1. EditTypeOK'
  BY EditAssumption DEF SaveInFile, EditInv, EditTypeOK
<1>2. EditParts'
  BY EditAssumption DEF SaveInFile, EditInv, EditTypeOK, EditParts, Half
<1>3. reason' = None => watched
  BY DEF SaveInFile, Because, None
<1>4. reason' = None => OnItsWayUp'
  BY <1>3 DEF SaveInFile, OnItsWayUp
<1> QED BY <1>1, <1>2, <1>4 DEF EditInv

LEMMA NotifyKeeps == ASSUME EditInv, Notify PROVE EditInv'
<1>4. since' \in 0 .. Debounce /\ since' = shown'
  BY EditAssumption DEF Notify, EditInv, EditTypeOK, EditParts
<1>5. events' = FALSE /\ (announced' \in BOOLEAN) /\ (announced' => watched')
  BY DEF Notify, EditInv, EditTypeOK
<1>1. EditTypeOK' /\ EditParts'
  BY <1>4, <1>5 DEF Notify, EditInv, EditTypeOK, EditParts
<1>2. CASE since < Debounce
  <2>1. reason' # None
    BY <1>2 DEF Notify, Because, None, EditInv, EditParts
  <2> QED BY <1>1, <2>1 DEF EditInv
<1>3. CASE ~(since < Debounce)
  BY <1>1, <1>3 DEF Notify, EditInv, OnItsWayUp
<1> QED BY <1>2, <1>3

LEMMA TimePassesKeeps == ASSUME EditInv, TimePasses PROVE EditInv'
<1>1. EditTypeOK' /\ EditParts'
  BY EditAssumption DEF TimePasses, EditInv, EditTypeOK, EditParts
<1> QED BY <1>1 DEF TimePasses, EditInv, OnItsWayUp

LEMMA DeclineKeeps == ASSUME EditInv, Decline PROVE EditInv'
<1>1. EditTypeOK' /\ EditParts'
  BY DEF Decline, EditInv, EditTypeOK, EditParts
<1>2. reason' # None
  BY DEF Decline, Because, None
<1> QED BY <1>1, <1>2 DEF EditInv

LEMMA AcceptKeeps == ASSUME EditInv, NEW u \in Uploads, Accept(u) PROVE EditInv'
<1>1. CASE online
  <2>1. upload[u] = Unused /\ upload' = [upload EXCEPT ![u] = Queued]
    BY <1>1 DEF Accept
  <2>2. Queued \in -4..LastSave /\ upload'[u] = Queued /\ Queued <= saves
    BY <2>1, EditAssumption DEF EditInv, EditTypeOK, Queued
  <2>3. EditTypeOK' /\ EditParts'
    BY <2>1, <2>2 DEF Accept, EditInv, EditTypeOK, EditParts
  <2>4. \A v \in Uploads : upload[v] = saves => upload'[v] = saves
    BY <2>1 DEF EditInv, EditTypeOK, Unused
  <2>5. reason' = None => OnItsWayUp'
    BY <1>1, <2>2, <2>4 DEF Accept, EditInv, OnItsWayUp
  <2> QED BY <2>3, <2>5 DEF EditInv
<1>2. CASE ~online
  <2>1. EditTypeOK' /\ EditParts'
    BY <1>2 DEF Accept, EditInv, EditTypeOK, EditParts
  <2>2. reason' # None
    BY <1>2 DEF Accept, Because, None
  <2> QED BY <2>1, <2>2 DEF EditInv
<1> QED BY <1>1, <1>2

LEMMA ReadsKeeps == ASSUME EditInv, NEW u \in Uploads, Reads(u) PROVE EditInv'
<1>1. upload' = [upload EXCEPT ![u] = content] /\ upload[u] = Queued
  BY DEF Reads
<1>2. upload'[u] = content
  BY <1>1 DEF EditInv, EditTypeOK
<1>3. EditTypeOK' /\ EditParts'
  BY <1>1 DEF Reads, EditInv, EditTypeOK, EditParts
<1>4. \A v \in Uploads : upload[v] = saves => upload'[v] = saves
  BY <1>1 DEF EditInv, EditTypeOK, Queued
<1>5. reason' = None => OnItsWayUp'
  BY <1>2, <1>4 DEF Reads, EditInv, OnItsWayUp
<1> QED BY <1>3, <1>5 DEF EditInv

LEMMA UploadEndsKeeps == ASSUME EditInv, NEW u \in Uploads, UploadEnds(u) PROVE EditInv'
<1>1. upload' = [upload EXCEPT ![u] = Unused] /\ remote' = upload[u]
      /\ upload[u] # Unused /\ upload[u] # Queued
  BY DEF UploadEnds
<1>2. Unused \in -4..LastSave /\ Unused <= saves
  BY EditAssumption DEF EditInv, EditTypeOK, Unused
<1>3. EditTypeOK' /\ EditParts'
  BY <1>1, <1>2 DEF UploadEnds, EditInv, EditTypeOK, EditParts, Queued, Unused
<1>4. CASE upload[u] = saves
  BY <1>1, <1>3, <1>4 DEF UploadEnds, EditInv, OnItsWayUp
<1>5. CASE upload[u] # saves
  <2>1. \A v \in Uploads : v # u => upload'[v] = upload[v]
    BY <1>1 DEF EditInv, EditTypeOK
  <2>2. ASSUME reason' = None
        PROVE  OnItsWayUp /\ remote # saves
    <3>1. reason = None /\ ~(remote > upload[u])
      BY <1>5, <2>2 DEF UploadEnds, Because, None
    <3> QED BY <1>5, <3>1 DEF EditInv, EditParts, EditTypeOK
  <2>3. reason' = None => OnItsWayUp'
    BY <1>1, <1>5, <2>1, <2>2 DEF UploadEnds, OnItsWayUp
  <2> QED BY <1>3, <2>3 DEF EditInv
<1> QED BY <1>4, <1>5

LEMMA EditStep == ASSUME EditInv, [EditNext]_editVars PROVE EditInv'
<1>1. CASE UNCHANGED editVars
  BY <1>1 DEF editVars, EditInv, EditTypeOK, EditParts, OnItsWayUp
<1>2. CASE EditNext
  BY <1>2, OpeningKeeps, SaveInFileKeeps, NotifyKeeps, TimePassesKeeps, DeclineKeeps, AcceptKeeps,
     ReadsKeeps, UploadEndsKeeps DEF EditNext
<1> QED BY <1>1, <1>2

\* The inductive invariant of editing in place.
THEOREM EditInvariant == EditSpec => []EditInv
<1> QED BY EditInitial, EditStep, PTL DEF EditSpec

\* There is no way for a save not to reach the server but the six that the
\* model names, for any number of saves and of uploads side by side, and any
\* length of the debounce.
THEOREM LostSavesAreExplainedAlways == EditSpec => []LostSavesAreExplained
<1>1. EditInv => LostSavesAreExplained
  BY DEF EditInv, EditTypeOK, OnItsWayUp, LostSavesAreExplained, Queued, Unused
<1> QED BY <1>1, EditInvariant, PTL

-----------------------------------------------------------------------------
(* The saved sites, their passwords and the recent connections             *)

SiteParts ==
  /\ command \in [pc : {"none", "put", "drop", "rename", "renamed"}, tree : SUBSET Sites,
                  drop : SUBSET Sites, put : SUBSET Sites]
  /\ manager \in [open : BOOLEAN, tree : SUBSET Sites, typed : SUBSET Sites]

\* The file is the tree in memory, but between the last two steps of a command.
FileFollows == disk = IF command.pc = "renamed" THEN command.tree ELSE tree

\* What a command still has to do, to which sites.
LeftToDo ==
  /\ command.put \subseteq command.tree
  /\ command.put # {} => command.pc = "put"
  /\ command.drop \subseteq tree \ command.tree
  /\ command.drop # {} => command.pc = "drop"

Known == IF command.pc = "none" THEN tree ELSE tree \cup command.tree

\* The sites that have, or had until this command took it, a password.
StillThere ==
  IF command.pc \in {"none", "put"} THEN Known
  ELSE command.tree \cup command.drop

\* Why PasswordsFollowTree holds: through all steps of a command, what is stored
\* is what the user gave to a site that the command keeps or has yet to drop.
StoredAsGiven ==
  \A s \in Sites \ excused :
    /\ s \in given => s \in Known
    /\ (s \in secret) = (s \in given /\ s \in StillThere)

SiteInv == SiteTypeOK /\ SiteParts /\ FileFollows /\ LeftToDo /\ StoredAsGiven

LEMMA SiteInitial == ASSUME SiteInit PROVE SiteInv
  BY DEF SiteInit, SiteInv, SiteTypeOK, SiteParts, FileFollows, LeftToDo, StoredAsGiven, Known,
         StillThere, NoCommand, Closed

LEMMA ManagerType ==
  ASSUME SiteParts, manager' \in {Closed, manager}
  PROVE  manager' \in [open : BOOLEAN, tree : SUBSET Sites, typed : SUBSET Sites]
<1>1. Closed \in [open : BOOLEAN, tree : SUBSET Sites, typed : SUBSET Sites]
  BY DEF Closed
<1> QED BY <1>1 DEF SiteParts

LEMMA ManagerKeeps ==
  ASSUME SiteInv, NEW S \in SUBSET Sites, NEW P \in SUBSET Sites, OpenManager \/ Edit(S, P)
  PROVE  SiteInv'
<1>1. UNCHANGED <<tree, disk, secret, command, given, excused>>
  BY DEF OpenManager, Edit
<1>2. manager' \in [open : BOOLEAN, tree : SUBSET Sites, typed : SUBSET Sites]
  <2>1. CASE OpenManager
    BY <2>1 DEF OpenManager, SiteInv, SiteTypeOK
  <2>2. CASE Edit(S, P)
    BY <2>2 DEF Edit, SiteInv, SiteParts
  <2> QED BY <2>1, <2>2
<1> QED BY <1>1, <1>2 DEF SiteInv, SiteTypeOK, SiteParts, FileFollows, LeftToDo, StoredAsGiven,
                          Known, StillThere

\* A save, or an import, of the tree T with the passwords P.
LEMMA BeginKeeps ==
  ASSUME SiteInv, command = NoCommand, NEW T \in SUBSET Sites, NEW P \in SUBSET T,
         command' = [pc |-> "put", tree |-> T, drop |-> {}, put |-> P],
         manager' \in {Closed, manager}, UNCHANGED <<tree, disk, secret, given, excused>>
  PROVE  SiteInv'
<1>1. /\ command'.pc = "put" /\ command'.tree = T /\ command'.drop = {} /\ command'.put = P
      /\ command.pc = "none"
  BY DEF NoCommand
<1>2. command' \in [pc : {"none", "put", "drop", "rename", "renamed"}, tree : SUBSET Sites,
                    drop : SUBSET Sites, put : SUBSET Sites]
  OBVIOUS
<1>3. SiteTypeOK' /\ SiteParts'
  <2>1. T \subseteq Sites /\ P \subseteq Sites
    OBVIOUS
  <2>2. SiteParts'
    BY <1>2, ManagerType DEF SiteInv, SiteParts
  <2> QED BY <1>1, <2>1, <2>2 DEF SiteInv, SiteTypeOK
<1>4. FileFollows' /\ LeftToDo'
  BY <1>1 DEF SiteInv, FileFollows, LeftToDo
<1>5. StoredAsGiven'
  BY <1>1 DEF SiteInv, StoredAsGiven, Known, StillThere
<1> QED BY <1>3, <1>4, <1>5 DEF SiteInv

LEMMA PersistKeeps == ASSUME SiteInv, Persist PROVE SiteInv'
<1>1. manager.tree \in SUBSET Sites /\ manager.typed \cap manager.tree \in SUBSET manager.tree
  BY DEF SiteInv, SiteParts
<1> QED BY <1>1, BeginKeeps DEF Persist

LEMMA ImportKeeps ==
  ASSUME SiteInv, NEW N \in SUBSET Sites, NEW P \in SUBSET Sites, Import(N, P)
  PROVE  SiteInv'
<1>1. tree \cup N \in SUBSET Sites /\ P \in SUBSET (tree \cup N)
  BY DEF Import, SiteInv, SiteTypeOK
<1> DEFINE T == tree \cup N
<1>2. command' = [pc |-> "put", tree |-> T, drop |-> {}, put |-> P]
  BY DEF Import
<1> HIDE DEF T
<1> QED BY <1>1, <1>2, BeginKeeps DEF Import, T

\* A step of the command that leaves the tree and the file.
LEMMA Goes ==
  ASSUME SiteInv, NEW q \in {"put", "drop", "rename"}, NEW D \in SUBSET Sites, NEW P \in SUBSET Sites,
         command' = [pc |-> q, tree |-> command.tree, drop |-> D, put |-> P],
         UNCHANGED <<tree, disk, manager>>, command.pc \in {"put", "drop"},
         secret' \subseteq Sites, given' \subseteq Sites, excused' \subseteq Sites,
         P \subseteq command.put, P # {} => q = "put",
         D \subseteq tree \ command.tree, D # {} => q = "drop"
  PROVE  SiteTypeOK' /\ SiteParts' /\ FileFollows' /\ LeftToDo' /\ command'.pc = q
<1>1. /\ command'.pc = q /\ command'.tree = command.tree /\ command'.drop = D /\ command'.put = P
      /\ command'.pc # "none" /\ command'.pc # "renamed" /\ command.tree \subseteq Sites
  BY DEF SiteInv, SiteTypeOK
<1>2. command' \in [pc : {"none", "put", "drop", "rename", "renamed"}, tree : SUBSET Sites,
                    drop : SUBSET Sites, put : SUBSET Sites]
  BY <1>1
<1> QED BY <1>1, <1>2 DEF SiteInv, SiteTypeOK, SiteParts, FileFollows, LeftToDo

LEMMA CommandRecord ==
  ASSUME SiteParts
  PROVE  command = [pc |-> command.pc, tree |-> command.tree, drop |-> command.drop,
                    put |-> command.put]
  BY DEF SiteParts

LEMMA PutPasswordKeeps == ASSUME SiteInv, NEW s \in Sites, PutPassword(s) PROVE SiteInv'
<1> DEFINE D == {}  P == command.put \ {s}
<1>1. command' = [pc |-> "put", tree |-> command.tree, drop |-> D, put |-> P]
  BY CommandRecord DEF PutPassword, SiteInv, LeftToDo
<1>2. /\ secret' \subseteq Sites /\ given' \subseteq Sites /\ excused' \subseteq Sites
      /\ UNCHANGED <<tree, disk, manager>> /\ command.pc = "put" /\ P \subseteq command.put
      /\ D = {} /\ D \in SUBSET Sites /\ P \in SUBSET Sites
  BY DEF PutPassword, SiteInv, SiteTypeOK
<1>3. command'.tree = command.tree /\ command'.pc = "put"
  BY <1>1
<1> HIDE DEF D, P
<1>4. SiteTypeOK' /\ SiteParts' /\ FileFollows' /\ LeftToDo'
  BY <1>1, <1>2, Goes
<1>5. s \in command.tree
  BY DEF PutPassword, SiteInv, LeftToDo
<1>6. StoredAsGiven'
  BY <1>2, <1>3, <1>5 DEF PutPassword, SiteInv, StoredAsGiven, Known, StillThere
<1> QED BY <1>4, <1>6 DEF SiteInv

LEMMA SaveTreeKeeps == ASSUME SiteInv, SaveTree PROVE SiteInv'
<1> DEFINE D == tree \ command.tree  P == {}
<1>1. command' = [pc |-> "drop", tree |-> command.tree, drop |-> D, put |-> P]
  BY CommandRecord DEF SaveTree, Removed, SiteInv
<1>2. /\ secret' \subseteq Sites /\ given' \subseteq Sites /\ excused' \subseteq Sites
      /\ UNCHANGED <<tree, disk, manager, secret, given, excused>> /\ command.pc = "put"
      /\ P \subseteq command.put /\ P = {} /\ D \in SUBSET Sites /\ P \in SUBSET Sites
      /\ D \subseteq tree \ command.tree
  BY DEF SaveTree, SiteInv, SiteTypeOK
<1>3. command'.tree = command.tree /\ command'.pc = "drop" /\ command'.drop = tree \ command.tree
  BY <1>1
<1> HIDE DEF D, P
<1>4. SiteTypeOK' /\ SiteParts' /\ FileFollows' /\ LeftToDo'
  BY <1>1, <1>2, Goes
<1>5. StoredAsGiven'
  BY <1>2, <1>3 DEF SiteInv, StoredAsGiven, Known, StillThere
<1> QED BY <1>4, <1>5 DEF SiteInv

LEMMA DropPasswordKeeps == ASSUME SiteInv, NEW s \in Sites, DropPassword(s) PROVE SiteInv'
<1> DEFINE D == command.drop \ {s}  P == {}
<1>1. command' = [pc |-> "drop", tree |-> command.tree, drop |-> D, put |-> P]
  BY CommandRecord DEF DropPassword, SiteInv, LeftToDo
<1>2. /\ secret' \subseteq Sites /\ given' \subseteq Sites /\ excused' \subseteq Sites
      /\ UNCHANGED <<tree, disk, manager, given>> /\ command.pc = "drop"
      /\ P \subseteq command.put /\ P = {} /\ D \in SUBSET Sites /\ P \in SUBSET Sites
      /\ D \subseteq tree \ command.tree
  BY DEF DropPassword, SiteInv, SiteTypeOK, LeftToDo
<1>3. command'.tree = command.tree /\ command'.pc = "drop" /\ command'.drop = command.drop \ {s}
  BY <1>1
<1> HIDE DEF D, P
<1>4. SiteTypeOK' /\ SiteParts' /\ FileFollows' /\ LeftToDo'
  BY <1>1, <1>2, Goes
<1>5. s \in command.drop /\ s \notin command.tree
  BY DEF DropPassword, SiteInv, LeftToDo
<1>6. StoredAsGiven'
  BY <1>2, <1>3, <1>5 DEF DropPassword, SiteInv, StoredAsGiven, Known, StillThere
<1> QED BY <1>4, <1>6 DEF SiteInv

LEMMA WriteTemporaryKeeps == ASSUME SiteInv, WriteTemporary PROVE SiteInv'
<1> DEFINE D == {}  P == {}
<1>1. command' = [pc |-> "rename", tree |-> command.tree, drop |-> D, put |-> P]
  BY CommandRecord DEF WriteTemporary, SiteInv, LeftToDo
<1>2. /\ secret' \subseteq Sites /\ given' \subseteq Sites /\ excused' \subseteq Sites
      /\ UNCHANGED <<tree, disk, manager, secret, given, excused>> /\ command.pc = "drop"
      /\ command.drop = {} /\ P \subseteq command.put /\ P = {} /\ D = {}
      /\ D \in SUBSET Sites /\ P \in SUBSET Sites /\ D \subseteq tree \ command.tree
  BY DEF WriteTemporary, SiteInv, SiteTypeOK, LeftToDo
<1>3. command'.tree = command.tree /\ command'.pc = "rename" /\ command'.drop = {}
  BY <1>1
<1> HIDE DEF D, P
<1>4. SiteTypeOK' /\ SiteParts' /\ FileFollows' /\ LeftToDo'
  BY <1>1, <1>2, Goes
<1>5. StoredAsGiven'
  BY <1>2, <1>3 DEF SiteInv, StoredAsGiven, Known, StillThere
<1> QED BY <1>4, <1>5 DEF SiteInv

LEMMA SiteRenameKeeps == ASSUME SiteInv, Rename PROVE SiteInv'
<1>1. command' = [pc |-> "renamed", tree |-> command.tree, drop |-> {}, put |-> {}]
  BY CommandRecord DEF Rename, SiteInv, LeftToDo
<1>2. /\ command'.tree = command.tree /\ command'.pc = "renamed" /\ command'.drop = {}
      /\ command'.put = {} /\ disk' = command.tree /\ command.pc = "rename"
      /\ command.drop = {} /\ command.tree \subseteq Sites
      /\ UNCHANGED <<tree, secret, manager, given, excused>>
  BY <1>1 DEF Rename, SiteInv, SiteTypeOK, LeftToDo
<1>3. command' \in [pc : {"none", "put", "drop", "rename", "renamed"}, tree : SUBSET Sites,
                    drop : SUBSET Sites, put : SUBSET Sites]
  BY <1>1, <1>2
<1>4. SiteTypeOK' /\ SiteParts'
  BY <1>2, <1>3 DEF SiteInv, SiteTypeOK, SiteParts
<1>5. FileFollows' /\ LeftToDo' /\ StoredAsGiven'
  BY <1>2 DEF SiteInv, FileFollows, LeftToDo, StoredAsGiven, Known, StillThere
<1> QED BY <1>4, <1>5 DEF SiteInv

\* A command is over, one way or another.
LEMMA CommandOver ==
  ASSUME SiteInv, command' = NoCommand, manager' \in {manager, Closed},
         tree' \subseteq Sites, disk' = tree', UNCHANGED secret,
         given' \subseteq given, excused' \subseteq Sites,
         \A s \in Sites \ excused' :
           /\ s \in given' => s \in tree'
           /\ (s \in secret) = (s \in given' /\ s \in tree')
  PROVE  SiteInv'
<1>1. command'.pc = "none" /\ command'.put = {} /\ command'.drop = {} /\ command'.tree = {}
      /\ NoCommand \in [pc : {"none", "put", "drop", "rename", "renamed"}, tree : SUBSET Sites,
                        drop : SUBSET Sites, put : SUBSET Sites]
  BY DEF NoCommand
<1>2. SiteTypeOK' /\ SiteParts'
  <2>1. SiteParts'
    BY <1>1, ManagerType DEF SiteInv, SiteParts
  <2> QED BY <1>1, <2>1 DEF SiteInv, SiteTypeOK
<1>3. FileFollows' /\ LeftToDo' /\ StoredAsGiven'
  BY <1>1 DEF SiteInv, FileFollows, LeftToDo, StoredAsGiven, Known, StillThere
<1> QED BY <1>2, <1>3 DEF SiteInv

LEMMA SetTreeKeeps == ASSUME SiteInv, SetTree PROVE SiteInv'
<1>1. command.pc = "renamed" /\ command.drop = {} /\ command.tree \subseteq Sites
  BY DEF SetTree, SiteInv, LeftToDo, SiteTypeOK
<1>2. \A s \in Sites \ excused' :
        /\ s \in given' => s \in tree'
        /\ (s \in secret) = (s \in given' /\ s \in tree')
  BY <1>1 DEF SetTree, SiteInv, StoredAsGiven, Known, StillThere
<1>3. disk' = tree' /\ tree' \subseteq Sites /\ given' \subseteq given /\ excused' \subseteq Sites
  BY <1>1 DEF SetTree, SiteInv, FileFollows, SiteTypeOK
<1> QED BY <1>2, <1>3, CommandOver DEF SetTree

LEMMA SaveFailsKeeps == ASSUME SiteInv, SaveFails PROVE SiteInv'
<1>1. \A s \in Sites \ excused' :
        /\ s \in given' => s \in tree'
        /\ (s \in secret) = (s \in given' /\ s \in tree')
  BY DEF SaveFails, SiteInv, StoredAsGiven, Known, StillThere
<1>2. disk' = tree' /\ tree' \subseteq Sites /\ given' \subseteq given /\ excused' \subseteq Sites
  BY DEF SaveFails, SiteInv, FileFollows, SiteTypeOK
<1> QED BY <1>1, <1>2, CommandOver DEF SaveFails

LEMMA SiteCrashKeeps == ASSUME SiteInv, SiteCrash PROVE SiteInv'
<1>1. /\ command.pc = "none" => command = NoCommand
      /\ command = NoCommand => command.pc = "none"
  BY DEF SiteInv, SiteTypeOK, NoCommand
<1>2. CASE command = NoCommand
  <2>1. \A s \in Sites \ excused' :
          /\ s \in given' => s \in tree'
          /\ (s \in secret) = (s \in given' /\ s \in tree')
    BY <1>1, <1>2 DEF SiteCrash, SiteInv, StoredAsGiven, FileFollows, Known, StillThere
  <2>2. disk' = tree' /\ tree' \subseteq Sites /\ given' \subseteq given /\ excused' \subseteq Sites
    BY <1>2 DEF SiteCrash, SiteInv, SiteTypeOK
  <2> QED BY <2>1, <2>2, CommandOver DEF SiteCrash
<1>3. CASE command # NoCommand
  <2>1. \A s \in Sites \ excused' : s \notin excused /\ (s \in tree <=> s \in command.tree)
                                    /\ s \notin command.drop
    BY <1>3 DEF SiteCrash, SiteInv, LeftToDo
  <2>2. tree' = tree \/ tree' = command.tree
    BY DEF SiteCrash, SiteInv, FileFollows
  <2>3. \A s \in Sites \ excused' :
          /\ s \in given' => s \in tree'
          /\ (s \in secret) = (s \in given' /\ s \in tree')
    BY <1>1, <1>3, <2>1, <2>2 DEF SiteCrash, SiteInv, StoredAsGiven, Known, StillThere
  <2>4. disk' = tree' /\ tree' \subseteq Sites /\ given' \subseteq given /\ excused' \subseteq Sites
    BY <1>3 DEF SiteCrash, SiteInv, SiteTypeOK
  <2> QED BY <2>3, <2>4, CommandOver DEF SiteCrash
<1> QED BY <1>2, <1>3

LEMMA SiteStep == ASSUME SiteInv, [SiteNext]_siteVars PROVE SiteInv'
<1>1. CASE UNCHANGED siteVars
  BY <1>1 DEF siteVars, SiteInv, SiteTypeOK, SiteParts, FileFollows, LeftToDo, StoredAsGiven, Known,
              StillThere
<1>2. CASE SiteNext
  BY <1>2, ManagerKeeps, PersistKeeps, ImportKeeps, PutPasswordKeeps, SaveTreeKeeps,
     DropPasswordKeeps, WriteTemporaryKeeps, SiteRenameKeeps, SetTreeKeeps, SaveFailsKeeps,
     SiteCrashKeeps DEF SiteNext
<1> QED BY <1>1, <1>2

\* The inductive invariant of the saved sites.
THEOREM SiteInvariant == SiteSpec => []SiteInv
<1> QED BY SiteInitial, SiteStep, PTL DEF SiteSpec

\* A site has the password the user gave it and none outlives its site, whatever
\* step of a command fails and after whatever step the program ends, but for the
\* sites these steps were about: for any number of sites.
THEOREM PasswordsFollowTreeAlways == SiteSpec => []PasswordsFollowTree
<1>1. SiteInv => PasswordsFollowTree
  BY DEF SiteInv, StoredAsGiven, PasswordsFollowTree, Known, StillThere, NoCommand
<1> QED BY <1>1, SiteInvariant, PTL

(* The recent connections *)

LEMMA Injected ==
  ASSUME NEW s \in Seq(Servers), \A i, j \in DOMAIN s : s[i] = s[j] => i = j,
         NEW r \in Servers,
         NEW S, S = {i \in DOMAIN s : s[i] # r}, NEW n \in Nat,
         NEW kept \in [1 .. n -> S], \A i, j \in 1 .. n : i < j => kept[i] < kept[j],
         NEW longer, longer = <<r>> \o [k \in DOMAIN kept |-> s[kept[k]]]
  PROVE  /\ longer \in Seq(Servers) /\ Len(longer) = n + 1
         /\ \A i, j \in 1 .. n + 1 : longer[i] = longer[j] => i = j
<1> DEFINE h == <<r>>  t == [k \in DOMAIN kept |-> s[kept[k]]]
<1>1. h \in Seq(Servers) /\ Len(h) = 1 /\ h[1] = r
  OBVIOUS
<1>2. DOMAIN s \subseteq Nat /\ \A i \in DOMAIN s : s[i] \in Servers
  OBVIOUS
<1>3. DOMAIN kept = 1 .. n /\ \A k \in 1 .. n : kept[k] \in DOMAIN s /\ s[kept[k]] # r
                                                /\ kept[k] \in Nat
  BY <1>2
<1>4. t \in [1 .. n -> Servers] /\ \A k \in 1 .. n : t[k] = s[kept[k]]
  BY <1>2, <1>3
<1>5. t \in Seq(Servers) /\ Len(t) = n
  BY <1>4
<1>6. \A i, j \in 1 .. n : i # j => t[i] # t[j]
  <2> SUFFICES ASSUME NEW i \in 1 .. n, NEW j \in 1 .. n, i < j
               PROVE  t[i] # t[j]
    OBVIOUS
  <2>1. kept[i] # kept[j]
    BY <1>3
  <2> QED BY <1>3, <1>4, <2>1
<1>7. \A i \in 1 .. n : t[i] # r
  BY <1>3, <1>4
<1>15. longer = h \o t
  OBVIOUS
<1> HIDE DEF h, t
<1>8. /\ longer \in Seq(Servers) /\ Len(longer) = n + 1
      /\ longer[1] = r
      /\ \A i \in 2 .. n + 1 : longer[i] = t[i - 1]
  <2>4. /\ h \o t \in Seq(Servers) /\ Len(h \o t) = Len(h) + Len(t)
        /\ \A i \in 1 .. Len(h) + Len(t) :
             (h \o t)[i] = IF i <= Len(h) THEN h[i] ELSE t[i - Len(h)]
    <3>1. h \in Seq(Servers) /\ t \in Seq(Servers)
      BY <1>1, <1>5
    <3> QED BY <3>1, ConcatProperties
  <2>1. longer \in Seq(Servers) /\ Len(longer) = n + 1
    BY <1>1, <1>5, <1>15, <2>4
  <2>2. \A i \in 1 .. Len(h) + Len(t) : longer[i] = IF i <= Len(h) THEN h[i] ELSE t[i - Len(h)]
    BY <1>15, <2>4
  <2>3. longer[1] = r
    BY <1>1, <1>5, <2>2
  <2>5. ASSUME NEW i \in 2 .. n + 1 PROVE longer[i] = t[i - 1]
    <3>1. i \in 1 .. Len(h) + Len(t) /\ ~(i <= Len(h)) /\ i - Len(h) = i - 1
      BY <1>1, <1>5
    <3> QED BY <2>2, <3>1
  <2> QED BY <2>1, <2>3, <2>5
<1>9. \A i, j \in 1 .. n + 1 : longer[i] = longer[j] => i = j
  <2> SUFFICES ASSUME NEW i \in 1 .. n + 1, NEW j \in 1 .. n + 1, i < j
               PROVE  longer[i] # longer[j]
    OBVIOUS
  <2>1. j \in 2 .. n + 1 /\ j - 1 \in 1 .. n
    OBVIOUS
  <2>2. CASE i = 1
    BY <1>7, <1>8, <2>1, <2>2
  <2>3. CASE i # 1
    <3>1. i \in 2 .. n + 1 /\ i - 1 \in 1 .. n /\ i - 1 # j - 1
      BY <2>3
    <3> QED BY <1>6, <1>8, <2>1, <3>1
  <2> QED BY <2>2, <2>3
<1> QED BY <1>8, <1>9

LEMMA Shortened ==
  ASSUME NEW s \in Seq(Servers), \A i, j \in 1 .. Len(s) : s[i] = s[j] => i = j,
         NEW m \in Nat, m <= Len(s)
  PROVE  SubSeq(s, 1, m) \in Seq(Servers) /\ Len(SubSeq(s, 1, m)) = m /\ IsInjective(SubSeq(s, 1, m))
<1> DEFINE sub == SubSeq(s, 1, m)
<1>1. /\ sub \in Seq(Servers) /\ Len(sub) = m /\ DOMAIN sub = 1 .. m
      /\ \A i \in 1 .. m : sub[i] = s[i]
  OBVIOUS
<1> HIDE DEF sub
<1>2. \A i \in DOMAIN sub : i \in 1 .. Len(s) /\ sub[i] = s[i]
  BY <1>1
<1>3. ASSUME NEW i \in DOMAIN sub, NEW j \in DOMAIN sub, sub[i] = sub[j]
      PROVE  i = j
  BY <1>2, <1>3
<1>4. IsInjective(sub)
  BY <1>3 DEF IsInjective
<1> QED BY <1>1, <1>4 DEF sub

LEMMA RecentInitial == ASSUME RecentInit PROVE RecentDistinct
<1>1. <<>> \in Seq(Servers) /\ IsInjective(<<>>) /\ Len(<<>>) <= MaxRecent
  BY SiteAssumption, EmptySeq DEF IsInjective
<1> QED BY <1>1 DEF RecentInit, RecentDistinct

LEMMA RecentStep == ASSUME RecentDistinct, [RecentNext]_recentVars PROVE RecentDistinct'
<1>1. <<>> \in Seq(Servers) /\ IsInjective(<<>>) /\ Len(<<>>) <= MaxRecent
  BY SiteAssumption, EmptySeq DEF IsInjective
<1>2. ASSUME NEW r \in Servers, Remember(r) PROVE RecentDistinct'
  <2> DEFINE others == {i \in DOMAIN recent : recent[i] # r}  n == Cardinality(others)
  <2>1. PICK kept \in [1 .. n -> others] :
          /\ \A i, j \in DOMAIN kept : i < j => kept[i] < kept[j]
          /\ LET longer == <<r>> \o [k \in DOMAIN kept |-> recent[kept[k]]] IN
               recent' = SubSeq(longer, 1, IF Len(longer) < MaxRecent THEN Len(longer)
                                           ELSE MaxRecent)
          /\ recent_disk' \in {recent', recent_disk}
    BY <1>2 DEF Remember
  <2>2. recent \in Seq(Servers) /\ IsInjective(recent)
    BY DEF RecentDistinct
  <2>3. IsFiniteSet(others)
    <3>1. others \subseteq 1 .. Len(recent) /\ IsFiniteSet(1 .. Len(recent))
      BY <2>2, FS_Interval
    <3> QED BY <3>1, FS_Subset
  <2>4. n \in Nat
    BY <2>3, FS_CardinalityType
  <2>5. DOMAIN kept = 1 .. n /\ \A i, j \in 1 .. n : i < j => kept[i] < kept[j]
    BY <2>1
  <2> DEFINE longer == <<r>> \o [k \in DOMAIN kept |-> recent[kept[k]]]
             m == IF Len(longer) < MaxRecent THEN Len(longer) ELSE MaxRecent
  <2>6. recent' = SubSeq(longer, 1, m)
    BY <2>1
  <2>12. longer = <<r>> \o [k \in DOMAIN kept |-> recent[kept[k]]]
    OBVIOUS
  <2> HIDE DEF n, others, m, longer
  <2>7. others = {i \in DOMAIN recent : recent[i] # r}
    BY DEF others
  <2>8. kept \in [1 .. n -> others]
    OBVIOUS
  <2>13. /\ recent \in Seq(Servers) /\ n \in Nat
         /\ \A i, j \in DOMAIN recent : recent[i] = recent[j] => i = j
    BY <2>2, <2>4 DEF IsInjective
  <2>14. \A i, j \in 1 .. n : i < j => kept[i] < kept[j]
    BY <2>5
  <2>15. /\ longer \in Seq(Servers) /\ Len(longer) = n + 1
         /\ \A i, j \in 1 .. n + 1 : longer[i] = longer[j] => i = j
    BY <2>7, <2>8, <2>12, <2>13, <2>14, Injected
  <2>9. /\ longer \in Seq(Servers) /\ Len(longer) = n + 1
        /\ \A i, j \in 1 .. Len(longer) : longer[i] = longer[j] => i = j
    BY <2>15
  <2>10. m \in Nat /\ m <= Len(longer) /\ m <= MaxRecent
    BY <2>4, <2>9, SiteAssumption DEF m
  <2>11. /\ SubSeq(longer, 1, m) \in Seq(Servers) /\ Len(SubSeq(longer, 1, m)) = m
         /\ IsInjective(SubSeq(longer, 1, m))
    BY <2>9, <2>10, Shortened
  <2> QED BY <2>1, <2>6, <2>10, <2>11 DEF RecentDistinct
<1>3. CASE ClearRecent \/ RecentCrash \/ UNCHANGED recentVars
  BY <1>1, <1>3 DEF ClearRecent, RecentCrash, recentVars, RecentDistinct
<1> QED BY <1>2, <1>3 DEF RecentNext

\* Each recent server is listed once, and at most MaxRecent are.
THEOREM RecentInvariant == RecentSpec => []RecentDistinct
<1> QED BY RecentInitial, RecentStep, PTL DEF RecentSpec

-----------------------------------------------------------------------------
(* The comparison of folders                                               *)

Sides == [size : FileSizes \cup {0}, mtime : (0 .. LastTime) \cup {NoTime}, dir : BOOLEAN,
          saved : 0 .. LastSaved]

Dialogs == [pc : {"closed", "local", "shown"}, left : Facts, right : Facts]

\* The times of a server: none at all, or none of the future.
Stamped(f) == f = Absent \/ IF timed THEN f.mtime \in 0 .. now ELSE f.mtime = NoTime

\* What was saved later has no earlier time, where both sides have one.
Ordered ==
  /\ Later(here, there) => here.saved >= there.saved
  /\ Later(there, here) => there.saved >= here.saved

\* What is cached is not newer than what is there.
ListedBefore ==
  listed # <<>> => /\ listed[1] \in Facts /\ Stamped(listed[1])
                   /\ timed => listed[1].mtime <= there.mtime

\* A comparison that nobody misled shows what there is.
DialogKnows ==
  ~misled => /\ dialog.pc # "closed" => dialog.left = here
             /\ dialog.pc = "shown" => dialog.right = there

\* Both sides have the same content, and the comparison has this side's facts.
Copied ==
  /\ here # Absent /\ there # Absent /\ here.size = there.size /\ here.dir = there.dir
  /\ dialog.pc # "closed" => dialog.left = here

\* What is listed is what is there.
Fresh ==
  /\ listed # <<>> => listed[1] = there
  /\ dialog.pc = "shown" => dialog.right = there

\* After a download: no listing is newer than this side, so none leads to another one.
AfterDownload ==
  /\ ~Later(there, here)
  /\ listed # <<>> => ~Later(listed[1], here)
  /\ dialog.pc = "shown" => ~Later(dialog.right, here)

\* After an upload: the other side was stamped anew.
AfterUpload == Fresh /\ ~Later(here, there)

\* After a download of that: both sides have the same time.
Done == Fresh /\ Classify(here, there) = "equal"

Rounds ==
  \/ rounds = 0
  \/ rounds = 1 /\ Copied /\ AfterDownload
  \/ rounds \in {1, 2} /\ Copied /\ AfterUpload
  \/ rounds \in {1, 2, 3} /\ Copied /\ Done

SyncInv ==
  /\ SyncTypeOK /\ dialog \in Dialogs
  /\ misled \in BOOLEAN /\ (listed = <<>> \/ listed = <<listed[1]>>)
  /\ here # Absent => here.mtime \in 0 .. now
  /\ Stamped(there) /\ there.saved <= last_saved /\ here.saved <= last_saved
  /\ Ordered /\ ListedBefore /\ DialogKnows /\ Rounds

\* What the verdicts of the comparison lead to.
LEMMA Verdicts ==
  ASSUME NEW l, NEW r
  PROVE  /\ Proposed(Classify(l, r)) = "upload" => r = Absent \/ Later(l, r)
         /\ Proposed(Classify(l, r)) = "download" => l = Absent \/ Later(r, l)
         /\ Classify(l, r) = "equal" => Proposed(Classify(l, r)) = "none"
  BY DEF Proposed, Classify

LEMMA SameIsEqual ==
  ASSUME NEW l \in Sides, NEW r \in Sides, l # Absent, r # Absent, l.size = r.size,
         l.dir = r.dir, l.mtime = r.mtime
  PROVE  Classify(l, r) = "equal"
<1>1. CASE l.dir \/ r.dir
  BY <1>1 DEF Classify
<1>2. CASE ~ (l.dir \/ r.dir)
  <2>1. NoTime \in {l.mtime, r.mtime} \/ l.mtime - r.mtime \in -Tolerance .. Tolerance
    <3>1. CASE l.mtime = NoTime
      BY <3>1
    <3>2. CASE l.mtime # NoTime
      <4>1. l.mtime \in Int
        BY <3>2, ComparisonAssumption DEF Sides
      <4>2. l.mtime - r.mtime = 0 /\ 0 \in -Tolerance .. Tolerance
        BY <4>1, ComparisonAssumption
      <4> QED BY <4>2
    <3> QED BY <3>1, <3>2
  <2> QED BY <1>2, <2>1 DEF Classify
<1> QED BY <1>1, <1>2

\* The facts of a side: those of nothing, or of a content that was saved.
LEMMA FactsAreSides ==
  /\ Absent \in Facts /\ Absent.mtime = 0 /\ Absent.saved = 0
  /\ \A f \in Facts : f \in Sides
  /\ \A f \in Sides : f.saved # 0 => f \in Facts /\ f # Absent
  /\ \A f \in Facts : f # Absent => f.saved # 0
<1>1. Absent \in Sides /\ Absent.mtime = 0 /\ Absent.saved = 0 /\ Absent \in Facts
  BY ComparisonAssumption DEF Absent, Sides, Facts
<1>2. ASSUME NEW f \in Sides, f.saved # 0 PROVE f \in Facts /\ f # Absent
  BY <1>1, <1>2, ComparisonAssumption DEF Sides, Facts
<1>3. ASSUME NEW f \in Facts, f # Absent PROVE f \in Sides /\ f.saved # 0
  BY <1>3, ComparisonAssumption DEF Facts, Sides
<1> QED BY <1>1, <1>2, <1>3

LEMMA WithTime ==
  ASSUME NEW f \in Facts, f # Absent, NEW m \in (0 .. LastTime) \cup {NoTime}
  PROVE  LET g == [f EXCEPT !.mtime = m]
         IN  /\ g \in Facts /\ g # Absent /\ g.mtime = m /\ g.size = f.size /\ g.dir = f.dir
             /\ g.saved = f.saved
<1> DEFINE g == [f EXCEPT !.mtime = m]
<1>1. f \in Sides /\ f.saved # 0
  BY FactsAreSides
<1>2. g \in Sides /\ g.mtime = m /\ g.size = f.size /\ g.dir = f.dir /\ g.saved = f.saved
  BY <1>1 DEF Sides
<1> HIDE DEF g
<1>3. g \in Facts /\ g # Absent
  BY <1>1, <1>2, FactsAreSides
<1> QED BY <1>2, <1>3 DEF g

LEMMA SyncInitial == ASSUME SyncInit PROVE SyncInv
<1>1. NoDialog \in Dialogs /\ NoDialog.pc = "closed"
  BY FactsAreSides DEF NoDialog, Dialogs
<1>2. SyncTypeOK
  BY <1>1, FactsAreSides, ComparisonAssumption DEF SyncInit, SyncTypeOK, Dialogs
<1>3. /\ here = Absent /\ there = Absent /\ now = 0 /\ last_saved = 0 /\ listed = <<>>
      /\ dialog = NoDialog /\ misled = FALSE /\ rounds = 0
  BY DEF SyncInit
<1>4. Ordered
  BY <1>3, FactsAreSides DEF Ordered, Later
<1>5. ListedBefore /\ Rounds /\ Stamped(there)
  BY <1>3 DEF ListedBefore, Rounds, Stamped
<1>6. DialogKnows
  BY <1>1, <1>3 DEF DialogKnows
<1>7. there.saved <= last_saved /\ here.saved <= last_saved
  BY <1>3, FactsAreSides
<1>8. /\ dialog \in Dialogs /\ misled \in BOOLEAN /\ (listed = <<>> \/ listed = <<listed[1]>>)
      /\ here # Absent => here.mtime \in 0 .. now
  BY <1>1, <1>3
<1> QED BY <1>2, <1>4, <1>5, <1>6, <1>7, <1>8 DEF SyncInv

LEMMA SyncTypes ==
  ASSUME SyncInv
  PROVE  /\ now \in Nat /\ LastTime \in Nat /\ last_saved \in Nat /\ now \in 0 .. LastTime
         /\ here \in Sides /\ there \in Sides /\ here \in Facts /\ there \in Facts
         /\ NoTime \notin Nat /\ NoTime \notin 0 .. now /\ now # NoTime
         /\ here.saved \in Nat /\ there.saved \in Nat /\ timed \in BOOLEAN
<1>1. here \in Facts /\ there \in Facts /\ now \in 0 .. LastTime /\ last_saved \in 0 .. LastSaved
      /\ timed \in BOOLEAN
  BY DEF SyncInv, SyncTypeOK
<1>2. here \in Sides /\ there \in Sides
  BY <1>1, FactsAreSides
<1>3. here.saved \in Nat /\ there.saved \in Nat
  BY <1>2, ComparisonAssumption DEF Sides
<1> QED BY <1>1, <1>2, <1>3, ComparisonAssumption

LEMMA Clocks == ASSUME SyncInv, Clock PROVE SyncInv'
<1> USE DEF Clock
<1>1. now' \in 0 .. LastTime /\ 0 .. now \subseteq 0 .. now'
  BY SyncTypes
<1>2. \A f : Stamped(f) => Stamped(f)'
  BY <1>1 DEF Stamped
<1>3. SyncTypeOK' /\ Ordered' /\ DialogKnows' /\ ListedBefore'
  BY <1>1, <1>2 DEF SyncInv, SyncTypeOK, Ordered, Later, DialogKnows, ListedBefore
<1>4. Rounds'
  BY DEF SyncInv, Rounds, Copied, AfterDownload, AfterUpload, Done, Fresh, Later
<1> QED BY <1>1, <1>2, <1>3, <1>4 DEF SyncInv

\* Nothing there is, and nothing that is listed, has a time of the future.
LEMMA NoFuture ==
  ASSUME SyncInv, NEW f, Stamped(f)
  PROVE  /\ f.mtime # NoTime => f.mtime \in 0 .. now
         /\ timed => f.mtime \in 0 .. now
BY SyncTypes, FactsAreSides DEF Stamped

LEMMA SavedFacts ==
  ASSUME SyncInv, NEW size \in FileSizes \cup {0}, NEW isdir \in BOOLEAN,
         NEW m \in (0 .. now) \cup {NoTime}, last_saved < LastSaved
  PROVE  LET f == [size |-> size, mtime |-> m, dir |-> isdir, saved |-> last_saved + 1]
         IN  f \in Facts /\ f # Absent
<1>1. last_saved + 1 \in 1 .. LastSaved /\ m \in (0 .. LastTime) \cup {NoTime}
  BY SyncTypes, ComparisonAssumption
<1> QED BY <1>1, SyncTypes DEF Facts, Absent

LEMMA EditsHere ==
  ASSUME SyncInv, NEW size \in FileSizes \cup {0}, NEW isdir \in BOOLEAN, EditHere(size, isdir)
  PROVE  SyncInv'
<1> USE DEF EditHere, Content
<1>1. now \in 0 .. now /\ last_saved < LastSaved /\ last_saved' = last_saved + 1
  BY SyncTypes
<1>2. /\ here' \in Facts /\ here' # Absent /\ here'.mtime = now
      /\ here'.saved = last_saved + 1
  BY <1>1, SavedFacts
<1>3. SyncTypeOK' /\ here'.mtime \in 0 .. now
  BY <1>1, <1>2, SyncTypes, ComparisonAssumption DEF SyncInv, SyncTypeOK
<1>4. there.saved <= last_saved /\ (there.mtime # NoTime => there.mtime \in 0 .. now)
  BY NoFuture DEF SyncInv
<1>5. Ordered'
  BY <1>2, <1>4, SyncTypes DEF Ordered, Later
<1>6. ListedBefore' /\ Stamped(there)'
  BY DEF ListedBefore, Stamped, SyncInv
<1>7. DialogKnows' /\ Rounds'
  BY DEF DialogKnows, Rounds
<1> QED BY <1>1, <1>2, <1>3, <1>4, <1>5, <1>6, <1>7, SyncTypes DEF SyncInv

LEMMA EditsThere ==
  ASSUME SyncInv, NEW size \in FileSizes \cup {0}, NEW isdir \in BOOLEAN, EditThere(size, isdir)
  PROVE  SyncInv'
<1> USE DEF EditThere, Content
<1>1. Stamp \in (0 .. now) \cup {NoTime} /\ last_saved < LastSaved /\ last_saved' = last_saved + 1
  BY SyncTypes DEF Stamp
<1>2. /\ there' \in Facts /\ there' # Absent /\ there'.mtime = Stamp
      /\ there'.saved = last_saved + 1
  BY <1>1, SavedFacts
<1>3. SyncTypeOK'
  BY <1>1, <1>2, SyncTypes, ComparisonAssumption DEF SyncInv, SyncTypeOK
<1>4. /\ here.saved <= last_saved /\ here.saved \in Nat /\ last_saved \in Nat
      /\ here.mtime # NoTime => here.mtime \in 0 .. now
  <2>1. here = Absent => here.mtime = 0
    BY FactsAreSides
  <2> QED BY <2>1, SyncTypes DEF SyncInv
<1>5. Ordered'
  BY <1>2, <1>4, SyncTypes DEF Ordered, Later, Stamp
<1>6. Stamped(there)'
  BY <1>2, SyncTypes DEF Stamped, Stamp
<1>7. ListedBefore'
  <2> SUFFICES ASSUME listed # <<>>
               PROVE  /\ listed[1] \in Facts /\ Stamped(listed[1])'
                      /\ timed => listed[1].mtime <= there'.mtime
    BY DEF ListedBefore
  <2>1. listed[1] \in Facts /\ Stamped(listed[1])
    BY DEF SyncInv, ListedBefore
  <2>2. timed => listed[1].mtime \in 0 .. now
    BY <2>1, NoFuture
  <2>3. timed => listed[1].mtime <= there'.mtime
    BY <1>2, <2>2, SyncTypes DEF Stamp
  <2> QED BY <2>1, <2>3 DEF Stamped
<1>8. DialogKnows' /\ Rounds'
  BY DEF DialogKnows, Rounds
<1> QED BY <1>1, <1>2, <1>3, <1>4, <1>5, <1>6, <1>7, <1>8 DEF SyncInv

LEMMA CollectsLocal == ASSUME SyncInv, CollectLocal PROVE SyncInv'
<1> USE DEF CollectLocal
<1>1. dialog' \in Dialogs /\ dialog'.pc = "local" /\ dialog'.left = here
  BY SyncTypes, FactsAreSides DEF Dialogs
<1>2. SyncTypeOK'
  BY <1>1 DEF SyncInv, SyncTypeOK, Dialogs
<1>3. ListedBefore' /\ Ordered' /\ Stamped(there)' /\ DialogKnows'
  BY <1>1 DEF SyncInv, ListedBefore, Ordered, Later, Stamped, DialogKnows
<1>4. Rounds'
  BY <1>1 DEF SyncInv, Rounds, Copied, AfterDownload, AfterUpload, Done, Fresh, Later
<1> QED BY <1>1, <1>2, <1>3, <1>4 DEF SyncInv

LEMMA CollectsRemote == ASSUME SyncInv, CollectRemote PROVE SyncInv'
<1> USE DEF CollectRemote
<1> DEFINE seen == IF listed = <<>> THEN there ELSE listed[1]
<1>1. seen \in Facts /\ Stamped(seen) /\ (timed => seen.mtime <= there.mtime)
  <2>1. timed => there.mtime \in 0 .. now
    BY NoFuture DEF SyncInv
  <2> QED BY <2>1, SyncTypes DEF SyncInv, ListedBefore
<1>2. (listed # <<>> => seen = listed[1]) /\ (listed = <<>> => seen = there)
  OBVIOUS
<1>3. /\ dialog.pc = "local" /\ dialog' = [dialog EXCEPT !.pc = "shown", !.right = seen]
      /\ listed' = <<seen>> /\ misled' = (misled \/ seen # there)
  OBVIOUS
<1> HIDE DEF seen
<1>4. /\ dialog' \in Dialogs /\ dialog'.pc = "shown" /\ dialog'.right = seen
      /\ dialog'.left = dialog.left
  BY <1>1, <1>3 DEF SyncInv, Dialogs
<1>5. listed'[1] = seen /\ listed' = <<listed'[1]>> /\ listed' # <<>>
  BY <1>3
<1>6. SyncTypeOK'
  BY <1>4 DEF SyncInv, SyncTypeOK, Dialogs
<1>7. ListedBefore' /\ Ordered' /\ Stamped(there)'
  BY <1>1, <1>5 DEF SyncInv, ListedBefore, Ordered, Later, Stamped
<1>8. misled' \in BOOLEAN
  BY <1>3
<1>9. DialogKnows'
  BY <1>3, <1>4 DEF SyncInv, DialogKnows
<1>10. Rounds'
  BY <1>2, <1>3, <1>4, <1>5 DEF SyncInv, Rounds, Copied, AfterDownload, AfterUpload, Done, Fresh, Later
<1> QED BY <1>4, <1>5, <1>6, <1>7, <1>8, <1>9, <1>10 DEF SyncInv

LEMMA ListingExpires == ASSUME SyncInv, Expires PROVE SyncInv'
<1> USE DEF Expires
<1>1. SyncTypeOK' /\ ListedBefore' /\ Ordered' /\ Stamped(there)' /\ DialogKnows'
  BY DEF SyncInv, SyncTypeOK, ListedBefore, Ordered, Later, Stamped, DialogKnows
<1>2. Rounds'
  BY DEF SyncInv, Rounds, Copied, AfterDownload, AfterUpload, Done, Fresh, Later
<1> QED BY <1>1, <1>2 DEF SyncInv

LEMMA Closes == ASSUME SyncInv, CloseComparison PROVE SyncInv'
<1> USE DEF CloseComparison
<1>1. dialog' \in Dialogs /\ dialog'.pc = "closed"
  BY FactsAreSides DEF NoDialog, Dialogs
<1>2. SyncTypeOK' /\ ListedBefore' /\ Ordered' /\ Stamped(there)' /\ DialogKnows'
  BY <1>1 DEF SyncInv, SyncTypeOK, Dialogs, ListedBefore, Ordered, Later, Stamped, DialogKnows
<1>3. Rounds'
  BY <1>1 DEF SyncInv, Rounds, Copied, AfterDownload, AfterUpload, Done, Fresh, Later
<1> QED BY <1>1, <1>2, <1>3 DEF SyncInv

\* A comparison that proposes a transfer of what the folders are in.
LEMMA Proposes ==
  ASSUME SyncInv, dialog.pc = "shown"
  PROVE  /\ Proposed(Verdict) = "upload"
            => ~ (Copied /\ AfterUpload) /\ ~ (Copied /\ Done)
         /\ Proposed(Verdict) = "download"
            => ~ (Copied /\ AfterDownload) /\ ~ (Copied /\ Done)
<1>1. ASSUME Copied, Fresh PROVE dialog.left = here /\ dialog.right = there
  BY <1>1 DEF Copied, Fresh
<1>2. ASSUME Copied, Done PROVE Proposed(Verdict) = "none"
  BY <1>1, <1>2, Verdicts DEF Verdict, Done
<1>3. ASSUME Copied, AfterUpload PROVE Proposed(Verdict) # "upload"
  BY <1>1, <1>3, Verdicts DEF Verdict, AfterUpload, Copied
<1>4. ASSUME Copied, AfterDownload PROVE Proposed(Verdict) # "download"
  BY <1>4, Verdicts DEF Verdict, AfterDownload, Copied
<1> QED BY <1>2, <1>3, <1>4

LEMMA UploadKeeps == ASSUME SyncInv, ApplyUpload PROVE SyncInv'
<1> USE DEF ApplyUpload
<1>1. /\ there' \in Facts /\ there' # Absent /\ there'.mtime = Stamp /\ there'.size = here.size
      /\ there'.dir = here.dir /\ there'.saved = here.saved
  <2>1. Stamp \in (0 .. LastTime) \cup {NoTime} /\ here \in Facts /\ here # Absent
    BY SyncTypes DEF Stamp
  <2> QED BY <2>1, WithTime
<1>2. dialog' \in Dialogs /\ dialog'.pc = "closed" /\ listed' = <<>>
  BY FactsAreSides DEF NoDialog, Dialogs
<1>3. SyncTypeOK'
  BY <1>1, <1>2 DEF SyncInv, SyncTypeOK, Dialogs
<1>4. ListedBefore' /\ DialogKnows' /\ Stamped(there)' /\ Ordered'
  BY <1>1, <1>2, SyncTypes DEF ListedBefore, DialogKnows, Stamped, Stamp, Ordered
<1>5. Copied'
  BY <1>1, <1>2 DEF Copied
<1>6. AfterUpload'
  <2>1. here.mtime \in 0 .. now
    BY DEF SyncInv
  <2> QED BY <1>1, <1>2, <2>1, SyncTypes DEF AfterUpload, Fresh, Later, Stamp
<1>7. rounds \in {0, 1, 2}
  BY Proposes DEF SyncInv, Rounds
<1>8. rounds # 2
  BY Proposes DEF SyncInv, Rounds
<1>9. Rounds'
  BY <1>5, <1>6, <1>7, <1>8 DEF Rounds
<1> QED BY <1>1, <1>2, <1>3, <1>4, <1>9 DEF SyncInv

LEMMA DownloadKeeps == ASSUME SyncInv, ApplyDownload PROVE SyncInv'
<1> USE DEF ApplyDownload
<1> DEFINE m == IF timed THEN there.mtime ELSE now
<1>1. timed => there.mtime \in 0 .. now
  BY NoFuture DEF SyncInv
<1>2. m \in 0 .. now /\ m \in (0 .. LastTime) \cup {NoTime}
  BY <1>1, SyncTypes
<1>3. here' = [there EXCEPT !.mtime = m]
  OBVIOUS
<1>4. (timed => m = there.mtime) /\ (~timed => m = now)
  OBVIOUS
<1> HIDE DEF m
<1>5. /\ here' \in Facts /\ here' # Absent /\ here'.mtime = m /\ here'.size = there.size
      /\ here'.dir = there.dir /\ here'.saved = there.saved
  <2>1. there \in Facts /\ there # Absent
    BY SyncTypes
  <2> HIDE DEF ApplyDownload
  <2> QED BY <1>2, <1>3, <2>1, WithTime
<1>6. dialog' \in Dialogs /\ dialog'.pc = "closed"
  BY FactsAreSides DEF NoDialog, Dialogs
<1>7. SyncTypeOK'
  BY <1>2, <1>5, <1>6, SyncTypes DEF SyncInv, SyncTypeOK, Dialogs
<1>8. ListedBefore' /\ DialogKnows' /\ Stamped(there)' /\ Ordered'
  BY <1>5, <1>6, SyncTypes DEF SyncInv, ListedBefore, DialogKnows, Stamped, Ordered
<1>9. Copied'
  BY <1>5, <1>6 DEF Copied
<1>10. ASSUME rounds = 0 PROVE Rounds'
  <2>1. ~Later(there, here)'
    BY <1>4, <1>5, <1>1, SyncTypes DEF Later, SyncInv, Stamped
  <2>2. ASSUME listed # <<>> PROVE ~Later(listed[1], here')
    <3>1. Stamped(listed[1]) /\ (timed => listed[1].mtime <= there.mtime)
      BY <2>2 DEF SyncInv, ListedBefore
    <3>2. /\ listed[1].mtime # NoTime => listed[1].mtime \in 0 .. now
          /\ timed => listed[1].mtime \in 0 .. now
      BY <3>1, NoFuture
    <3> QED BY <1>1, <1>2, <1>4, <1>5, <3>1, <3>2, SyncTypes DEF Later
  <2>3. AfterDownload'
    BY <1>6, <2>1, <2>2 DEF AfterDownload
  <2> QED BY <1>9, <1>10, <2>3 DEF Rounds
<1>11. ASSUME rounds # 0 PROVE Rounds'
  <2>1. Copied /\ AfterUpload /\ rounds \in {1, 2}
    BY <1>11, Proposes DEF SyncInv, Rounds
  <2>2. Later(there, here)
    BY <2>1, Verdicts DEF Verdict, Copied, AfterUpload, Fresh
  <2>3. timed
    BY <2>1, <2>2 DEF SyncInv, Stamped, Later, Copied
  <2>4. here' \in Sides /\ there \in Sides /\ here'.mtime = there.mtime
    BY <1>4, <1>5, <2>3, FactsAreSides, SyncTypes
  <2>5. Classify(here', there) = "equal"
    BY <1>5, <2>4, SameIsEqual
  <2>6. Done'
    BY <1>6, <2>1, <2>5 DEF Done, AfterUpload, Fresh
  <2> QED BY <1>9, <2>1, <2>6 DEF Rounds
<1>12. Rounds'
  BY <1>10, <1>11
<1> QED BY <1>2, <1>5, <1>6, <1>7, <1>8, <1>12 DEF SyncInv

LEMMA SyncStep == ASSUME SyncInv, [SyncNext]_syncVars PROVE SyncInv'
<1>1. CASE Clock
  BY <1>1, Clocks
<1>2. ASSUME NEW size \in FileSizes \cup {0}, NEW isdir \in BOOLEAN, EditHere(size, isdir)
      PROVE  SyncInv'
  BY <1>2, EditsHere
<1>3. ASSUME NEW size \in FileSizes \cup {0}, NEW isdir \in BOOLEAN, EditThere(size, isdir)
      PROVE  SyncInv'
  BY <1>3, EditsThere
<1>4. CASE CollectLocal
  BY <1>4, CollectsLocal
<1>5. CASE CollectRemote
  BY <1>5, CollectsRemote
<1>6. CASE Expires
  BY <1>6, ListingExpires
<1>7. CASE ApplyUpload
  BY <1>7, UploadKeeps
<1>8. CASE ApplyDownload
  BY <1>8, DownloadKeeps
<1>9. CASE CloseComparison
  BY <1>9, Closes
<1>10. CASE UNCHANGED syncVars
  BY <1>10 DEF syncVars, SyncInv, SyncTypeOK, Ordered, Stamped, ListedBefore, DialogKnows,
     Rounds, Copied, AfterDownload, AfterUpload, Done, Fresh, Later
<1> QED BY <1>1, <1>2, <1>3, <1>4, <1>5, <1>6, <1>7, <1>8, <1>9, <1>10 DEF SyncNext

\* What a comparison knows, and what the transfers since the last edit came to:
\* a download leaves no listing newer than this side, an upload leaves the other
\* side stamped anew, and a download of that leaves both equal.
THEOREM SyncInvariant == SyncSpec => []SyncInv
<1> QED BY SyncInitial, SyncStep, PTL DEF SyncSpec

\* After any number of edits, one path is transferred at most three times before
\* the dialog has nothing more to propose for it (sync.rs:104-135,
\* worker.rs:837-840), for every clock, tolerance and set of sizes.
THEOREM SettlesAlways == SyncSpec => []Settles
<1>1. SyncInv => Settles
  BY DEF SyncInv, Rounds, Settles
<1> QED BY <1>1, SyncInvariant, PTL

\* No proposal that rests on what there is replaces a content by an older one
\* (sync.rs:104-135), however the files were copied and stamped before.
THEOREM NewerSurvivesAlways == SyncSpec => NewerSurvives
<1> DEFINE A == /\ here' # here => misled \/ misled' \/ here'.saved >= here.saved
                /\ there' # there => misled \/ misled' \/ there'.saved >= there.saved
<1>1. ASSUME SyncInv, [SyncNext]_syncVars PROVE [A]_syncVars
  <2>1. CASE ApplyUpload
    <3>1. there'.saved = here.saved /\ here' = here
      <4>1. Stamp \in (0 .. LastTime) \cup {NoTime} /\ here \in Facts /\ here # Absent
        BY <1>1, <2>1, SyncTypes DEF Stamp, ApplyUpload
      <4> QED BY <2>1, <4>1, WithTime DEF ApplyUpload
    <3>2. ASSUME ~misled PROVE there = Absent \/ Later(here, there)
      BY <1>1, <2>1, <3>2, Verdicts DEF SyncInv, DialogKnows, ApplyUpload, Verdict
    <3>3. ASSUME ~misled PROVE here.saved >= there.saved
      BY <1>1, <3>2, <3>3, SyncTypes, FactsAreSides DEF SyncInv, Ordered
    <3> QED BY <3>1, <3>3
  <2>2. CASE ApplyDownload
    <3>1. here'.saved = there.saved /\ there' = there
      <4> DEFINE m == IF timed THEN there.mtime ELSE now
      <4>1. m \in (0 .. LastTime) \cup {NoTime} /\ there \in Facts /\ there # Absent
        <5>1. timed => there.mtime \in 0 .. now
          BY <1>1, NoFuture DEF SyncInv
        <5> QED BY <1>1, <2>2, <5>1, SyncTypes DEF ApplyDownload
      <4>2. here' = [there EXCEPT !.mtime = m] /\ there' = there
        BY <2>2 DEF ApplyDownload
      <4> HIDE DEF m
      <4> QED BY <4>1, <4>2, WithTime
    <3>2. ASSUME ~misled PROVE here = Absent \/ Later(there, here)
      BY <1>1, <2>2, <3>2, Verdicts DEF SyncInv, DialogKnows, ApplyDownload, Verdict
    <3>3. ASSUME ~misled PROVE there.saved >= here.saved
      BY <1>1, <3>2, <3>3, SyncTypes, FactsAreSides DEF SyncInv, Ordered
    <3> QED BY <3>1, <3>3
  <2>3. CASE \E size \in FileSizes \cup {0}, isdir \in BOOLEAN :
               EditHere(size, isdir) \/ EditThere(size, isdir)
    BY <2>3 DEF EditHere, EditThere
  <2>4. CASE Clock \/ CollectLocal \/ CollectRemote \/ Expires \/ CloseComparison
    BY <2>4 DEF Clock, CollectLocal, CollectRemote, Expires, CloseComparison
  <2>5. CASE UNCHANGED syncVars
    BY <2>5
  <2> QED BY <1>1, <2>1, <2>2, <2>3, <2>4, <2>5 DEF SyncNext
<1> QED BY <1>1, SyncInvariant, PTL DEF SyncSpec, NewerSurvives
=============================================================================
