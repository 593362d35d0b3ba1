----------------------------- MODULE EditInPlace -----------------------------
(***************************************************************************)
(* A remote file opened in a local program (edit.rs, EditManager): it is   *)
(* downloaded, handed to the program and only then watched; a change that  *)
(* the watcher reports is announced unless the file was announced a short  *)
(* time ago, and the user decides whether to upload it (actions.ts).       *)
(* What the file contains is the number of the save that wrote it.         *)
(***************************************************************************)
EXTENDS Integers, FiniteSets

CONSTANTS Debounce,   \* DEBOUNCE in ticks of the model
          LastSave,   \* how often the user saves (bound)
          Uploads     \* the uploads in the queue at one time (bound)

ASSUME EditAssumption == Debounce \in Nat \ {0} /\ LastSave \in Nat

Missing == -1   \* no local file
Half == -2      \* a download that is under way, or that failed
Queued == -3    \* an upload that has not read the file
Unused == -4

VARIABLES
  saves,      \* the number of the last save
  content,    \* of the local file
  remote,     \* of the file on the server
  opening,    \* "no", "downloading" or "launched"
  watched,
  since,      \* ticks since last_notified, Debounce and more being one
  events,     \* the watcher has something to report
  announced,  \* the announcement is shown
  upload,     \* each upload: what it read, or Queued or Unused
  online,     \* a tab of the site has a session
  shown,      \* history: ticks since the last announcement or the opening
  reason      \* history: the first reason why the last save may be missing
              \* on the server

editVars == <<saves, content, remote, opening, watched, since, events,
              announced, upload, online, shown, reason>>

None == "none"
Because(why) == IF reason = None THEN why ELSE reason

EditInit ==
  /\ saves = 0 /\ content = Missing /\ remote = 0 /\ opening = "no"
  /\ watched = FALSE /\ since = Debounce /\ shown = Debounce /\ events = FALSE
  /\ announced = FALSE /\ upload = [u \in Uploads |-> Unused] /\ online = FALSE
  /\ reason = None

\* session_connect, session_disconnect.
Online == /\ online' = ~online
          /\ UNCHANGED <<saves, content, remote, opening, watched, since, events,
                         announced, upload, shown, reason>>

\* EditManager::open: the local file, edited or not, is emptied at once.
OpenEdit ==
  /\ online /\ opening = "no"
  /\ opening' = "downloading" /\ content' = Half
  /\ events' = (events \/ watched)
  /\ reason' = Because("overwritten")
  /\ UNCHANGED <<saves, remote, watched, since, announced, upload, online, shown>>

Downloaded ==
  /\ opening = "downloading" /\ content' = remote
  /\ opening' = "launched" /\ events' = (events \/ watched)
  /\ reason' = IF remote = saves THEN None ELSE reason
  /\ UNCHANGED <<saves, remote, watched, since, announced, upload, online, shown>>

\* The download or the start of the program fails: what has arrived stays, and
\* a watch from before stays too.
OpenFails ==
  /\ opening # "no" /\ opening' = "no"
  /\ UNCHANGED <<saves, content, remote, watched, since, events, announced, upload,
                 online, shown, reason>>

\* The entry, and with it last_notified, is new even if the watcher refuses.
Watch ==
  /\ opening = "launched" /\ opening' = "no"
  /\ watched' \in {watched, TRUE} /\ since' = 0 /\ shown' = 0
  /\ UNCHANGED <<saves, content, remote, events, announced, upload, online, reason>>

\* The user saves in the program: external, but for who learns of it.
SaveInFile ==
  /\ content >= 0 /\ saves < LastSave
  /\ saves' = saves + 1 /\ content' = saves + 1
  /\ events' = (events \/ watched)
  /\ reason' = IF watched THEN reason ELSE Because("unwatched")
  /\ UNCHANGED <<remote, opening, watched, since, announced, upload, online, shown>>

\* Slip: the debounce starts anew with every event.
NotifySliding ==
  /\ events /\ events' = FALSE /\ since' = 0
  /\ IF since < Debounce
     THEN /\ reason' = IF shown < Debounce THEN Because("burst") ELSE reason
          /\ UNCHANGED <<announced, shown>>
     ELSE announced' = TRUE /\ shown' = 0 /\ UNCHANGED reason
  /\ UNCHANGED <<saves, content, remote, opening, watched, upload, online>>

\* The callback of the watcher; a dialog of the same file is shown once
\* (store.ts, mergeDialog).
Notify ==
  /\ events /\ events' = FALSE
  /\ IF since < Debounce
     THEN /\ reason' = IF shown < Debounce THEN Because("burst") ELSE reason
          /\ UNCHANGED <<since, announced, shown>>
     ELSE since' = 0 /\ announced' = TRUE /\ shown' = 0 /\ UNCHANGED reason
  /\ UNCHANGED <<saves, content, remote, opening, watched, upload, online>>

TimePasses ==
  /\ since < Debounce \/ shown < Debounce
  /\ since' = IF since < Debounce THEN since + 1 ELSE since
  /\ shown' = IF shown < Debounce THEN shown + 1 ELSE shown
  /\ UNCHANGED <<saves, content, remote, opening, watched, events, announced, upload,
                 online, reason>>

-----------------------------------------------------------------------------
(* The announcement and the upload                                         *)

\* uploadEditedFile: without a session of the site there is only a message.
Accept(u) ==
  /\ announced /\ announced' = FALSE
  /\ IF online THEN /\ upload[u] = Unused
                    /\ upload' = [upload EXCEPT ![u] = Queued]
                    /\ UNCHANGED reason
     ELSE reason' = Because("offline") /\ UNCHANGED upload
  /\ UNCHANGED <<saves, content, remote, opening, watched, since, events, online, shown>>

Decline ==
  /\ announced /\ announced' = FALSE /\ reason' = Because("ignored")
  /\ UNCHANGED <<saves, content, remote, opening, watched, since, events, upload,
                 online, shown>>

\* The worker of the upload reads the file as it is then: see TransferFile for
\* what an upload does while its source changes.
Reads(u) ==
  /\ online /\ upload[u] = Queued
  /\ upload' = [upload EXCEPT ![u] = content]
  /\ UNCHANGED <<saves, content, remote, opening, watched, since, events, announced,
                 online, shown, reason>>

\* Two uploads of one file may run side by side and end in either order; one
\* may have read what a new download has left of the file.
UploadEnds(u) ==
  /\ upload[u] \notin {Unused, Queued}
  /\ upload' = [upload EXCEPT ![u] = Unused]
  /\ remote' = upload[u]
  /\ reason' = IF upload[u] = saves THEN None
                ELSE IF \/ upload[u] = Half \/ remote = Half
                        \/ remote > upload[u] THEN Because("overtaken")
                ELSE reason
  /\ UNCHANGED <<saves, content, opening, watched, since, events, announced, online, shown>>

EditNext ==
  \/ Online \/ OpenEdit \/ Downloaded \/ OpenFails \/ Watch
  \/ SaveInFile \/ Notify \/ TimePasses \/ Decline
  \/ \E u \in Uploads : Accept(u) \/ Reads(u) \/ UploadEnds(u)

EditSpec == EditInit /\ [][EditNext]_editVars
-----------------------------------------------------------------------------
\* Types; what is reported or shown belongs to a watched file.
EditTypeOK ==
  /\ saves \in 0..LastSave /\ content \in -2..LastSave /\ remote \in -2..LastSave
  /\ opening \in {"no", "downloading", "launched"}
  /\ watched \in BOOLEAN /\ online \in BOOLEAN
  /\ since \in 0..Debounce /\ shown \in 0..Debounce
  /\ upload \in [Uploads -> -4..LastSave]
  /\ (events \in BOOLEAN) /\ (events => watched)
  /\ (announced \in BOOLEAN) /\ (announced => watched)

\* When nothing is under way, the last save is on the server, or it was made
\* before the file was watched (edit.rs:51-53), shortly after an announcement
\* or the opening (edit.rs:119), its announcement was declined or found no
\* session, the file was opened again over it (edit.rs:65), or an older upload
\* ended after a newer one.  There is no other way for a save to be lost.
LostSavesAreExplained ==
  /\ opening = "no" /\ ~events /\ ~announced
  /\ \A u \in Uploads : upload[u] = Unused
  => remote = saves \/ reason # None
=============================================================================
