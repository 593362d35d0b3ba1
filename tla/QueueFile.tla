------------------------------- MODULE QueueFile -------------------------------
(***************************************************************************)
(* What of the transfer queue survives the program (queue.rs).  Commands   *)
(* and tasks change the queue under its locks and set `dirty` afterwards;  *)
(* the scheduler clears `dirty` and then writes a snapshot, taken under    *)
(* two locks, over the old file.  The program may end at any moment, and   *)
(* closing the window saves nothing: every end is a crash.                 *)
(***************************************************************************)
EXTENDS Integers, Sequences, SequencesExt, FiniteSets

CONSTANTS Transfers,
          Callers,      \* commands and ending tasks that run at one time (bound)
          HistoryMax,   \* max_successful_history; the code keeps at least ten
          Torn          \* a file that cannot be parsed

VARIABLES
  items,     \* status of each transfer, "none" when not in the list
  history,   \* the finished ones, the last one first
  dirty,
  caller,    \* [pc, done]: what a caller has still to do after its first lock
  saver,     \* [pc, items, history]: the scheduler task, with its snapshot
  file,      \* what is on the disk
  lost,      \* history: the last write of the file failed
  unsaved    \* history: the transfers changed since the last save began

fileVars == <<items, history, dirty, caller, saver, file, lost, unsaved>>

\* A paused and a failed transfer are both "stopped": the file makes no difference.
Kept == {"queued", "stopped"}
Statuses == Kept \cup {"none", "active"}

ASSUME FileAssumption ==
  /\ HistoryMax \in Nat \ {0}
  /\ Torn \notin [items : [Transfers -> Statuses], history : Seq(Transfers)]

Nobody == [t \in Transfers |-> "none"]
Empty == [items |-> Nobody, history |-> <<>>]
Asleep == [pc |-> "asleep", items |-> Nobody, history |-> <<>>]
Free == [pc |-> "free", done |-> {}]

\* Slip: only what is pending is written.
PersistPending(i) == [t \in Transfers |-> IF i[t] = "stopped" THEN "none" ELSE i[t]]

\* persist writes the pending and the failed transfers: all that the list holds.
Stored(i) == i

Restarted(i) == [t \in Transfers |-> IF i[t] = "active" THEN "queued" ELSE i[t]]

\* What TransferQueue::new makes of the file: nothing can be read, nothing is
\* kept; an interrupted transfer waits again.
Loaded(f) ==
  IF f = Torn THEN Empty ELSE [items |-> Restarted(f.items), history |-> f.history]

FileInit ==
  /\ items = Nobody /\ history = <<>> /\ file = Empty
  /\ dirty = FALSE /\ lost = FALSE /\ unsaved = {}
  /\ caller = [c \in Callers |-> Free] /\ saver = Asleep

-----------------------------------------------------------------------------
(* Commands and tasks                                                      *)

\* add, pause, resume, retry_failed, set_paused, schedule_retry, complete with
\* a failure: one lock, then changed().
Turn(c, S, from, to) ==
  /\ caller[c] = Free /\ S # {}
  /\ \A t \in S : items[t] \in from
  /\ items' = [t \in Transfers |-> IF t \in S THEN to ELSE items[t]]
  /\ caller' = [caller EXCEPT ![c].pc = "mark"]
  /\ unsaved' = unsaved \cup S
  /\ UNCHANGED <<history, dirty, saver, file, lost>>

\* remove, remove_failed, clear.
Leave(c, S) ==
  /\ caller[c] = Free
  /\ S \subseteq {t \in Transfers : items[t] # "none"} /\ S # {}
  /\ items' = [t \in Transfers |-> IF t \in S THEN "none" ELSE items[t]]
  /\ caller' = [caller EXCEPT ![c].pc = "mark"]
  /\ unsaved' = unsaved \cup S
  /\ UNCHANGED <<history, dirty, saver, file, lost>>

\* complete with Done or Skipped: out of the list ...
Finish(c, t) ==
  /\ caller[c] = Free /\ items[t] = "active"
  /\ items' = [items EXCEPT ![t] = "none"]
  /\ caller' = [caller EXCEPT ![c] = [pc |-> "archive", done |-> {t}]]
  /\ unsaved' = unsaved \cup {t}
  /\ UNCHANGED <<history, dirty, saver, file, lost>>

\* ... and, under another lock, into the history, whose oldest entries fall off.
Archive(c) ==
  LET longer == SetToSeq(caller[c].done) \o history
      shorter == SubSeq(longer, 1, IF Len(longer) < HistoryMax THEN Len(longer)
                                   ELSE HistoryMax)
  IN  /\ caller[c].pc = "archive"
      /\ history' = shorter
      /\ unsaved' = unsaved \cup caller[c].done
                       \cup (ToSet(longer) \ ToSet(shorter))
      /\ caller' = [caller EXCEPT ![c] = [pc |-> "mark", done |-> {}]]
      /\ UNCHANGED <<items, dirty, saver, file, lost>>

ClearHistory(c) ==
  /\ caller[c] = Free /\ history # <<>>
  /\ history' = <<>>
  /\ caller' = [caller EXCEPT ![c].pc = "mark"]
  /\ unsaved' = unsaved \cup ToSet(history)
  /\ UNCHANGED <<items, dirty, saver, file, lost>>

Changed(c) ==
  /\ caller[c].pc = "mark"
  /\ dirty' = TRUE
  /\ caller' = [caller EXCEPT ![c] = Free]
  /\ UNCHANGED <<items, history, saver, file, lost, unsaved>>

-----------------------------------------------------------------------------
(* The scheduler                                                           *)

\* dispatch marks without setting `dirty`: to the file it makes no difference.
Dispatch(S) ==
  /\ saver.pc = "asleep" /\ S # {}
  /\ \A t \in S : items[t] = "queued"
  /\ items' = [t \in Transfers |-> IF t \in S THEN "active" ELSE items[t]]
  /\ UNCHANGED <<history, dirty, caller, saver, file, lost, unsaved>>

SwapDirty ==
  /\ saver.pc = "asleep" /\ dirty
  /\ dirty' = FALSE
  /\ saver' = [saver EXCEPT !.pc = "items"]
  /\ unsaved' = {}
  /\ UNCHANGED <<items, history, caller, file, lost>>

\* snapshot: one lock after the other.
ReadItems ==
  /\ saver.pc = "items"
  /\ saver' = [saver EXCEPT !.pc = "history", !.items = items]
  /\ UNCHANGED <<items, history, dirty, caller, file, lost, unsaved>>

ReadHistory ==
  /\ saver.pc = "history"
  /\ saver' = [saver EXCEPT !.pc = "write", !.history = history]
  /\ UNCHANGED <<items, history, dirty, caller, file, lost, unsaved>>

\* fs::write empties the file, and then fills it; its failure is ignored.
Truncate ==
  /\ saver.pc = "write"
  /\ file' = Torn /\ lost' = TRUE
  /\ saver' = [saver EXCEPT !.pc = "written"]
  /\ UNCHANGED <<items, history, dirty, caller, unsaved>>

\* Slip: `dirty` is cleared when the file is complete.
WrittenThenClean ==
  /\ saver.pc = "written"
  /\ file' = [items |-> Stored(saver.items), history |-> saver.history]
  /\ lost' = FALSE /\ saver' = Asleep /\ dirty' = FALSE
  /\ UNCHANGED <<items, history, caller, unsaved>>

Written ==
  /\ saver.pc = "written"
  /\ file' = [items |-> Stored(saver.items), history |-> saver.history]
  /\ lost' = FALSE /\ saver' = Asleep
  /\ UNCHANGED <<items, history, dirty, caller, unsaved>>

WriteFails ==
  /\ saver.pc \in {"write", "written"}
  /\ lost' = TRUE /\ saver' = Asleep
  /\ UNCHANGED <<items, history, dirty, caller, file, unsaved>>

\* The program ends and is started again.
Crash ==
  /\ items' = Loaded(file).items /\ history' = Loaded(file).history
  /\ dirty' = FALSE /\ lost' = FALSE /\ unsaved' = {}
  /\ caller' = [c \in Callers |-> Free] /\ saver' = Asleep
  /\ UNCHANGED file

FileNext ==
  \/ \E c \in Callers, S \in SUBSET Transfers :
       \/ /\ S \cap ToSet(history) = {}   \* the id of an added transfer is new
          /\ \E to \in Kept : Turn(c, S, {"none"}, to)
       \/ Turn(c, S, {"stopped"}, "queued")
       \/ /\ Cardinality(S) = 1
          /\ \E from \in {"queued", "active"}, to \in Kept : Turn(c, S, {from}, to)
       \/ Leave(c, S)
  \/ \E c \in Callers, t \in Transfers : Finish(c, t)
  \/ \E c \in Callers : Archive(c) \/ ClearHistory(c) \/ Changed(c)
  \/ \E S \in SUBSET Transfers : Dispatch(S)
  \/ SwapDirty \/ ReadItems \/ ReadHistory \/ Truncate \/ Written \/ WriteFails
  \/ Crash

FileSpec == FileInit /\ [][FileNext]_fileVars
-----------------------------------------------------------------------------
\* Types; the saver holds a snapshot only while it saves.
FileTypeOK ==
  /\ items \in [Transfers -> Statuses]
  /\ history \in Seq(Transfers) /\ Len(history) <= HistoryMax
  /\ dirty \in BOOLEAN /\ lost \in BOOLEAN /\ unsaved \subseteq Transfers
  /\ \A c \in Callers : /\ caller[c].pc \in {"free", "archive", "mark"}
                        /\ (caller[c].done # {}) = (caller[c].pc = "archive")
  /\ saver.pc \in {"asleep", "items", "history", "write", "written"}
  /\ saver.pc = "asleep" => saver = Asleep

\* Nothing that changed while a save was under way is forgotten (queue.rs:500-505,
\* 575-591): when nobody is in the middle of anything and `dirty` is not set, a
\* restart would show the queue as it is, unless the last write failed.
QuietFileAgrees ==
  ~dirty /\ saver = Asleep /\ ~lost /\ (\A c \in Callers : caller[c] = Free)
    => Loaded(file) = [items |-> Restarted(items), history |-> history]

\* A crash takes back only what changed since the last save began: every other
\* transfer is found where it was, in the list or in the history, unless the
\* file itself was being written (queue.rs:563) or could not be.
CrashTakesTheUnsaved ==
  [][\A t \in Transfers \ unsaved :
       Crash /\ saver.pc \notin {"items", "history", "write", "written"} /\ ~lost =>
         /\ items'[t] = Restarted(items)[t]
         /\ (t \in ToSet(history)') = (t \in ToSet(history))]_fileVars
=============================================================================
