--------------------------- MODULE FolderComparison ---------------------------
(***************************************************************************)
(* The synchronization of two folders, followed at one relative path       *)
(* (sync.rs and SyncDialog.tsx): both sides are listed, the remote one     *)
(* perhaps from the cache of the session, the pair is classified by size   *)
(* and time, and the transfer the dialog proposes is carried out.  Edits   *)
(* on either side fall between any two steps.  Both computers have the     *)
(* same clock, and `saved` numbers the contents in the order of their      *)
(* saving.                                                                 *)
(***************************************************************************)
EXTENDS Integers

CONSTANTS LastTime,      \* bound of the clock
          LastSaved,     \* how many contents there are (bound)
          FileSizes,
          Tolerance,     \* MTIME_TOLERANCE_SECS
          NoTime         \* of a listing without times

ASSUME ComparisonAssumption ==
  /\ LastTime \in Nat /\ LastSaved \in Nat /\ FileSizes \subseteq Nat
  /\ Tolerance \in Nat /\ NoTime \notin Nat

VARIABLES
  now, last_saved,
  here, there,   \* the local and the remote side: Absent or its facts
  timed,         \* the server's listings have times
  listed,        \* the cached facts of the remote side: <<facts>>, or <<>>
  dialog,        \* [pc, left, right]: the comparison, and the facts it has
  misled,        \* history: a side was edited since, or the listing was old
  rounds         \* history: transfers since the last edit

syncVars == <<now, last_saved, here, there, timed, listed, dialog, misled, rounds>>

Absent == [size |-> 0, mtime |-> 0, dir |-> FALSE, saved |-> 0]
NoDialog == [pc |-> "closed", left |-> Absent, right |-> Absent]
Facts == {Absent} \cup
  [size : FileSizes \cup {0}, mtime : (0..LastTime) \cup {NoTime}, dir : BOOLEAN,
   saved : 1..LastSaved]

SyncInit ==
  /\ now = 0 /\ last_saved = 0 /\ here = Absent /\ there = Absent
  /\ timed \in BOOLEAN /\ listed = <<>> /\ dialog = NoDialog
  /\ misled = FALSE /\ rounds = 0

-----------------------------------------------------------------------------
(* The classification                                                      *)

Later(l, r) == l.mtime # NoTime /\ r.mtime # NoTime /\ l.mtime > r.mtime

\* Slip: the two sides are exchanged when the sizes are equal.
ClassifySwapped(l, r) ==
  IF r = Absent THEN (IF l = Absent THEN "equal" ELSE "local_only")
  ELSE IF l = Absent THEN "remote_only"
  ELSE IF l.dir \/ r.dir THEN (IF l.dir = r.dir THEN "equal" ELSE "different")
  ELSE IF l.size = r.size /\ (\/ NoTime \in {l.mtime, r.mtime}
                              \/ l.mtime - r.mtime \in -Tolerance..Tolerance)
       THEN "equal"
  ELSE IF Later(l, r) THEN (IF l.size = r.size THEN "remote_newer" ELSE "local_newer")
  ELSE IF Later(r, l) THEN (IF l.size = r.size THEN "local_newer" ELSE "remote_newer")
  ELSE "different"

\* classify: the tolerance counts only for equal sizes.
Classify(l, r) ==
  IF r = Absent THEN (IF l = Absent THEN "equal" ELSE "local_only")
  ELSE IF l = Absent THEN "remote_only"
  ELSE IF l.dir \/ r.dir THEN (IF l.dir = r.dir THEN "equal" ELSE "different")
  ELSE IF l.size = r.size /\ (\/ NoTime \in {l.mtime, r.mtime}
                              \/ l.mtime - r.mtime \in -Tolerance..Tolerance)
       THEN "equal"
  ELSE IF Later(l, r) THEN "local_newer"
  ELSE IF Later(r, l) THEN "remote_newer"
  ELSE "different"

\* What the dialog proposes (defaultAction).
Proposed(kind) ==
  IF kind \in {"local_newer", "local_only"} THEN "upload"
  ELSE IF kind \in {"remote_newer", "remote_only"} THEN "download"
  ELSE "none"

Verdict == Classify(dialog.left, dialog.right)

-----------------------------------------------------------------------------
(* Both sides                                                              *)

Clock == /\ now < LastTime /\ now' = now + 1
         /\ UNCHANGED <<last_saved, here, there, timed, listed, dialog, misled, rounds>>

Stamp == IF timed THEN now ELSE NoTime

\* A file is saved, or a directory made where nothing is.
Content(side, size, isdir, time) ==
  /\ isdir => side = Absent /\ size = 0
  /\ side # Absent => ~side.dir
  /\ last_saved < LastSaved

EditHere(size, isdir) ==
  /\ Content(here, size, isdir, now)
  /\ last_saved' = last_saved + 1
  /\ here' = [size |-> size, mtime |-> now, dir |-> isdir, saved |-> last_saved + 1]
  /\ misled' = TRUE /\ rounds' = 0
  /\ UNCHANGED <<now, there, timed, listed, dialog>>

\* By somebody else: what is cached is not touched.
EditThere(size, isdir) ==
  /\ Content(there, size, isdir, now)
  /\ last_saved' = last_saved + 1
  /\ there' = [size |-> size, mtime |-> Stamp, dir |-> isdir, saved |-> last_saved + 1]
  /\ misled' = TRUE /\ rounds' = 0
  /\ UNCHANGED <<now, here, timed, listed, dialog>>

-----------------------------------------------------------------------------
(* The comparison                                                          *)

CollectLocal ==
  /\ dialog.pc = "closed"
  /\ dialog' = [pc |-> "local", left |-> here, right |-> Absent]
  /\ misled' = FALSE
  /\ UNCHANGED <<now, last_saved, here, there, timed, listed, rounds>>

\* Session::list without force.
CollectRemote ==
  /\ dialog.pc = "local"
  /\ LET seen == IF listed = <<>> THEN there ELSE listed[1]
     IN  /\ dialog' = [dialog EXCEPT !.pc = "shown", !.right = seen]
         /\ listed' = <<seen>>
         /\ misled' = (misled \/ seen # there)
  /\ UNCHANGED <<now, last_saved, here, there, timed, rounds>>

Expires == /\ listed # <<>> /\ listed' = <<>>
           /\ UNCHANGED <<now, last_saved, here, there, timed, dialog, misled, rounds>>

\* Applied: an upload leaves the server to stamp the file, and its listing is
\* forgotten.
ApplyUpload ==
  /\ dialog.pc = "shown" /\ Proposed(Verdict) = "upload" /\ here # Absent
  /\ there' = [here EXCEPT !.mtime = Stamp]
  /\ listed' = <<>> /\ rounds' = rounds + 1
  /\ dialog' = NoDialog
  /\ UNCHANGED <<now, last_saved, here, timed, misled>>

\* Slip: the downloaded file keeps the time of its download.
ApplyDownloadUnstamped ==
  /\ dialog.pc = "shown" /\ Proposed(Verdict) = "download" /\ there # Absent
  /\ here' = [there EXCEPT !.mtime = now]
  /\ rounds' = rounds + 1
  /\ dialog' = NoDialog
  /\ UNCHANGED <<now, last_saved, there, timed, listed, misled>>

\* A download gives the file the time of its source, where that has one.
ApplyDownload ==
  /\ dialog.pc = "shown" /\ Proposed(Verdict) = "download" /\ there # Absent
  /\ here' = [there EXCEPT !.mtime = IF timed THEN @ ELSE now]
  /\ rounds' = rounds + 1
  /\ dialog' = NoDialog
  /\ UNCHANGED <<now, last_saved, there, timed, listed, misled>>

\* Nothing is proposed, or the user closes the dialog.
CloseComparison ==
  /\ dialog.pc = "shown" /\ dialog' = NoDialog
  /\ UNCHANGED <<now, last_saved, here, there, timed, listed, misled, rounds>>

SyncNext ==
  \/ Clock
  \/ \E size \in FileSizes \cup {0}, isdir \in BOOLEAN :
       EditHere(size, isdir) \/ EditThere(size, isdir)
  \/ CollectLocal \/ CollectRemote \/ Expires
  \/ ApplyUpload \/ ApplyDownload \/ CloseComparison

SyncSpec == SyncInit /\ [][SyncNext]_syncVars
-----------------------------------------------------------------------------
\* Types; where a side is absent the other one's facts decide.
SyncTypeOK ==
  /\ now \in 0..LastTime /\ last_saved \in 0..LastSaved
  /\ here \in Facts /\ there \in Facts /\ timed \in BOOLEAN
  /\ here # Absent => here.mtime # NoTime
  /\ dialog.pc \in {"closed", "local", "shown"}
  /\ dialog.left \in Facts /\ dialog.right \in Facts

\* What the dialog proposes never replaces a content by one saved earlier
\* (sync.rs:104-135), however often files were copied back and forth and stamped
\* anew, unless a side was edited during the comparison or the listing came from
\* the cache and was old (sync.rs:179).
NewerSurvives ==
  [][/\ here' # here => misled \/ misled' \/ here'.saved >= here.saved
     /\ there' # there => misled \/ misled' \/ there'.saved >= there.saved]_syncVars

\* The folders get in sync: when nobody edits, the same path is transferred at
\* most three times before it compares as equal: the upload makes the remote
\* file newer, which is then downloaded for its time alone (worker.rs:837-840),
\* and an old listing can add one before it is forgotten.
Settles == rounds <= 3
=============================================================================
