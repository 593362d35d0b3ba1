---------------------------- MODULE TransferFile ----------------------------
(***************************************************************************)
(* What the attempts of one transfer do to its destination: planning,      *)
(* conflict, renaming, copying, verification, and the pauses, failures and *)
(* retries in between (transfer/worker.rs, transfer/conflict.rs).          *)
(*                                                                         *)
(* A file is a sequence of blocks, each named after whoever wrote it: a    *)
(* version of the source, somebody else (Foreign), or nobody (Hole, the    *)
(* gap a write past the end leaves).  Names are numbered in the order in   *)
(* which renaming tries them; 0 is the name the item was queued with.      *)
(***************************************************************************)
EXTENDS Naturals, Sequences, FiniteSets

CONSTANTS
  Directions,   \* the directions of the transfers, of Direction
  Policies,     \* what effective_policy may say of this transfer
  Sizes,        \* sizes the source may have, in blocks
  LastVersion,  \* bound: the source is replaced LastVersion - 1 times
  LastName,     \* bound: names renaming tries
  Window,       \* writes in flight: 1 for a stream, more for SFTP
  Hashed,       \* directions verified by hash: settings.verify_hash and a
                \* server that can
  NoFile

Policy == {"ask", "overwrite", "skip", "rename", "resume", "newer"}

Direction == {"download", "upload", "copy"}

ASSUME TransferAssumption == /\ Directions \subseteq Direction
                             /\ Policies \subseteq Policy
ASSUME BoundsAssumption == /\ Sizes \subseteq Nat
                           /\ LastVersion \in Nat \ {0} /\ LastName \in Nat
                           /\ Window \in Nat \ {0}
                           /\ Hashed \subseteq Direction

VARIABLES
  direction, \* TransferItem.direction
  source,   \* the source file: its size and version
  files,    \* the destination directory: what each name holds
  older,    \* the names whose file is older than the source
  policy,   \* the policy of the item
  status,   \* TransferItem.status, or how the item left the queue
  target,   \* the name in TransferItem.local_path or remote_path
  counted,  \* TransferItem.transferred > 0
  work,     \* the worker task
  saved,    \* what the queue file says of the item
  blind     \* history: a plan of it did not see what is on the server

vars == <<direction, source, files, older, policy, status, target, counted,
          work, saved, blind>>

Names == 0 .. LastName
Foreign == 0
Hole == LastVersion + 1
Block == 0 .. LastVersion + 1
Source == [size : Sizes, version : 1 .. LastVersion]
Theirs == <<Foreign>>

ASSUME FilesAssumption == NoFile \notin Seq(Block)

Resting == {"paused", "failed"}
Ended == {"done", "skipped", "gone"}
Status == {"queued", "active"} \cup Resting \cup Ended

\* `size` and `found` are the facts of the two stats that the plan is based
\* on, `at` the bytes read so far, `flight` the blocks written but not
\* acknowledged with the version they carry, `stop` the Control.
WorkPC == {"idle", "planning", "asking", "opening", "copying", "finishing",
           "verifying"}
Work == [pc : WorkPC, size : Nat, found : Nat, older : BOOLEAN, offset : Nat,
         at : Nat, flight : SUBSET (Nat \X (1 .. LastVersion)),
         stop : {"no", "pause", "cancel"}]
IdleWork == [pc |-> "idle", size |-> 0, found |-> 0, older |-> FALSE,
             offset |-> 0, at |-> 0, flight |-> {}, stop |-> "no"]

\* The item as the queue file has it; one that ended is not in it any more.
Saved == [status : {"queued", "gone"} \cup Resting,
          target : Names, counted : BOOLEAN]
Unsaved == [status |-> "gone", target |-> 0, counted |-> FALSE]

TypeOK ==
  /\ direction \in Directions
  /\ source \in Source
  /\ files \in [Names -> {NoFile} \cup Seq(Block)]
  /\ older \subseteq Names
  /\ policy \in Policies
  /\ status \in Status
  /\ target \in Names
  /\ counted \in BOOLEAN
  /\ work \in Work
  /\ work.pc = "idle" <=> status # "active"
  /\ saved \in Saved
  /\ blind \in BOOLEAN

Init ==
  /\ direction \in Directions
  /\ source \in [size : Sizes, version : {1}]
  /\ files \in [Names -> {NoFile, Theirs}]
  /\ older \in SUBSET {n \in Names : files[n] # NoFile}
  /\ policy \in Policies
  /\ status \in {"queued", "paused"}
  /\ target = 0
  /\ counted = FALSE
  /\ work = IdleWork
  /\ saved = [status |-> status, target |-> 0, counted |-> FALSE]
  /\ blind = FALSE

-----------------------------------------------------------------------------
(* Planning: plan_transfer and plan_copy.                                  *)

Start ==
  /\ status = "queued"
  /\ status' = "active"
  /\ work' = [IdleWork EXCEPT !.pc = "planning"]
  /\ UNCHANGED <<direction, source, files, older, policy, target, counted,
                 saved, blind>>

Blocks(n) == IF files[n] = NoFile THEN <<>> ELSE files[n]

\* The plan: write to name n from the offset on.
PlanFrom(n, offset, w) ==
  /\ target' = n
  /\ work' = [w EXCEPT !.pc = "opening", !.offset = offset, !.at = offset]
  /\ UNCHANGED <<status, blind>>

\* A stat or a listing of the server that fails counts as nothing there.
PlanBlindly(n, w) ==
  /\ direction # "download"
  /\ target' = n
  /\ work' = [w EXCEPT !.pc = "opening", !.offset = 0, !.at = 0]
  /\ blind' = TRUE
  /\ UNCHANGED status

SkipIt ==
  /\ status' = "skipped"
  /\ work' = IdleWork
  /\ UNCHANGED <<target, blind>>

\* unique_name: the first that is free.
NextName(n) ==
  /\ n > target /\ files[n] = NoFile
  /\ \A m \in target + 1 .. n - 1 : files[m] # NoFile

\* resolve
Resolve(p, w) ==
  \/ p \in {"ask", "overwrite"} /\ PlanFrom(target, 0, w)
  \/ p = "skip" /\ SkipIt
  \/ p = "rename" /\ \E n \in Names : NextName(n) /\ PlanFrom(n, 0, w)
  \/ p = "rename" /\ \E n \in Names : n = target + 1 /\ PlanBlindly(n, w)
  \/ p = "resume" /\ w.found < w.size /\ PlanFrom(target, w.found, w)
  \/ p = "resume" /\ w.found = w.size /\ SkipIt
  \/ p = "resume" /\ w.found > w.size /\ PlanFrom(target, 0, w)
  \/ p = "newer" /\ (IF w.older THEN PlanFrom(target, 0, w) ELSE SkipIt)

\* The facts a plan is based on: the two stats.
Found(w) == [w EXCEPT !.size = source.size, !.older = target \in older,
                      !.found = Len(Blocks(target))]
PlanGiven(goOn, w) ==
  /\ work.pc = "planning"
  /\ \/ PlanBlindly(target, w)
     \/ IF files[target] = NoFile THEN PlanFrom(target, 0, w)
        ELSE IF goOn THEN PlanFrom(target, w.found, w)
        ELSE IF policy = "ask"
        THEN work' = [w EXCEPT !.pc = "asking"] /\ UNCHANGED <<target,
                                                               status, blind>>
        ELSE Resolve(policy, w)
  /\ UNCHANGED <<direction, source, files, older, policy, counted, saved>>

\* Slips: only a shorter file is gone on with; no conflict is ever seen.
PlanShorter ==
  PlanGiven(counted /\ Found(work).found < source.size, Found(work))
PlanAnyway == PlanGiven(Found(work).found <= source.size, Found(work))

\* A file of this name is there: go on with it if some of it was counted,
\* else it is a conflict.
Plan == PlanGiven(counted /\ Found(work).found <= source.size, Found(work))

\* ask_conflict: the answer is applied to the facts of before the question.
Answer(action) ==
  /\ work.pc = "asking"
  /\ Resolve(action, work)
  /\ UNCHANGED <<direction, source, files, older, policy, counted, saved>>

-----------------------------------------------------------------------------
(* Copying: download, upload and copy_remote_file.                         *)

Write(n, blocks) ==
  /\ files' = [files EXCEPT ![n] = blocks]
  /\ older' = older \ {n}

\* The file is created, emptied for offset 0, and cut at the offset when it
\* is a local one.
Open ==
  /\ work.pc = "opening"
  /\ Write(target, IF direction = "download" \/ work.offset = 0
                   THEN SubSeq(Blocks(target), 1, work.offset)
                   ELSE Blocks(target))
  /\ work' = [work EXCEPT !.pc = "copying"]
  /\ UNCHANGED <<direction, source, policy, status, target, counted, saved,
                 blind>>

\* A block at position k, past the end or not.
Put(blocks, k, b) ==
  [j \in 1 .. (IF k > Len(blocks) THEN k ELSE Len(blocks)) |->
     IF j = k THEN b ELSE IF j <= Len(blocks) THEN blocks[j] ELSE Hole]

\* One turn of the loop: the next block is read and written; the progress
\* reaches the item at most every 200 ms, so maybe.
Copy(reported) ==
  /\ work.pc = "copying" /\ work.stop = "no"
  /\ work.at < source.size
  /\ Cardinality(work.flight) < Window
  /\ LET k == work.at + 1 IN
     IF direction = "download"
     THEN /\ Write(target, Put(Blocks(target), k, source.version))
          /\ work' = [work EXCEPT !.at = k]
     ELSE /\ work' = [work EXCEPT !.at = k,
                                  !.flight = @ \cup {<<k, source.version>>}]
          /\ UNCHANGED <<files, older>>
  /\ counted' = (counted \/ reported)
  /\ UNCHANGED <<direction, source, policy, status, target, saved, blind>>

\* A write that was in flight is carried out and acknowledged.
Land(b) ==
  /\ b \in work.flight
  /\ Write(target, Put(Blocks(target), b[1], b[2]))
  /\ work' = [work EXCEPT !.flight = @ \ {b}]
  /\ UNCHANGED <<direction, source, policy, status, target, counted, saved,
                 blind>>

\* The loop ends at the end of the source or at the Control's word. The
\* writer is then closed, which waits for what is in flight.
Leave ==
  /\ work.pc = "copying"
  /\ work.stop # "no" \/ work.at >= source.size
  /\ work' = [work EXCEPT !.pc = "finishing"]
  /\ UNCHANGED <<direction, source, files, older, policy, status, target,
                 counted, saved, blind>>

\* Slip: a paused attempt goes on.
FinishGoesOn ==
  /\ work.pc = "finishing" /\ work.flight = {}
  /\ counted' = (work.at > 0)
  /\ work' = [work EXCEPT !.pc = "verifying"]
  /\ status' = IF work.stop = "no" THEN status ELSE "paused"
  /\ UNCHANGED <<direction, source, files, older, policy, target, saved,
                 blind>>

\* The progress is recorded. An attempt that was told to stop ends here, and
\* whatever closing the writer said is not looked at.
Finish ==
  /\ work.pc = "finishing"
  /\ counted' = (work.at > 0)
  /\ IF work.stop = "no"
     THEN /\ work.flight = {}
          /\ work' = [work EXCEPT !.pc = "verifying"]
          /\ UNCHANGED status
     ELSE /\ status' = IF work.stop = "pause" THEN "paused" ELSE "gone"
          /\ work' = IdleWork
  /\ UNCHANGED <<direction, source, files, older, policy, target, saved,
                 blind>>

Whole == [k \in 1 .. source.size |-> source.version]

\* verify: the size of the plan, and the hash of the source as it is now.
Intact == /\ Len(Blocks(target)) = work.size
          /\ direction \in Hashed \ {"copy"} => Blocks(target) = Whole

Verify ==
  /\ work.pc = "verifying"
  /\ status' = IF Intact THEN "done" ELSE "failed"
  /\ work' = IdleWork
  /\ UNCHANGED <<direction, source, files, older, policy, target, counted,
                 saved, blind>>

\* Any step may fail, and what is in flight is lost: handle_failure retries
\* or gives up. Closing fails before or after the progress is recorded.
Fail ==
  /\ work.pc # "idle"
  /\ status' \in {"queued", "failed"}
  /\ counted' \in {counted} \cup (IF work.pc = "finishing" THEN {work.at > 0}
                                                          ELSE {})
  /\ work' = IdleWork
  /\ UNCHANGED <<direction, source, files, older, policy, target, saved,
                 blind>>

-----------------------------------------------------------------------------
(* The user, whoever writes the source, and the end of the program.        *)

Stop(how) ==
  /\ status = "active"
  /\ work' = [work EXCEPT !.stop = how]
  /\ UNCHANGED <<direction, source, files, older, policy, status, target,
                 counted, saved, blind>>

Resume ==
  /\ status \in Resting
  /\ status' = "queued"
  /\ UNCHANGED <<direction, source, files, older, policy, target, counted,
                 work, saved, blind>>

ReplaceSource(size) ==
  /\ source.version < LastVersion
  /\ source' = [size |-> size, version |-> source.version + 1]
  /\ older' = {n \in Names : files[n] # NoFile}
  /\ UNCHANGED <<direction, files, policy, status, target, counted, work,
                 saved, blind>>

\* persist, as of a moment: a change of any transfer brings it about, but
\* neither the progress of this one nor its new name does (queue.rs:264).
\* What is Active comes back as Queued.
Save ==
  /\ saved' = IF status \in Ended THEN Unsaved
              ELSE [status |-> IF status = "active" THEN "queued" ELSE status,
                    target |-> target, counted |-> counted]
  /\ UNCHANGED <<direction, source, files, older, policy, status, target,
                 counted, work,
                 blind>>

\* Slip: the progress comes back, but not the name it belongs to.
RestartAtFirstName ==
  /\ status' = saved.status /\ target' = 0 /\ counted' = saved.counted
  /\ work' = IdleWork
  /\ UNCHANGED <<direction, source, files, older, policy, saved, blind>>

\* The program ends, with what is in flight, and starts again from the file.
Restart ==
  /\ status' = saved.status
  /\ target' = saved.target /\ counted' = saved.counted
  /\ work' = IdleWork
  /\ UNCHANGED <<direction, source, files, older, policy, saved, blind>>

Attempt ==
  \/ Start \/ Plan
  \/ \E action \in Policy \ {"ask"} : Answer(action)
  \/ Open \/ Leave \/ Finish \/ Verify
  \/ \E reported \in BOOLEAN : Copy(reported)
  \/ \E b \in work.flight : Land(b)
  \/ Fail

Next ==
  \/ Attempt
  \/ \E how \in {"pause", "cancel"} : Stop(how)
  \/ Resume
  \/ \E size \in Sizes : ReplaceSource(size)
  \/ Save \/ Restart

Spec == Init /\ [][Next]_vars

-----------------------------------------------------------------------------
(* Properties.                                                             *)

\* A transfer that says Done left the whole source behind, whatever failures,
\* pauses, renames and retries it took, as long as the source stayed the
\* same. A foreign block is left only where the user chose to resume; a hole
\* only where several writes were in flight when an attempt failed, because
\* the next attempt goes on at the size of the file (worker.rs:276, 638); and
\* neither where the hash is verified.
DoneIsWhole ==
  status = "done" /\ source.version = 1 =>
    /\ Len(Blocks(target)) = source.size
    /\ \A k \in 1 .. source.size :
         \/ files[target][k] = 1
         \/ /\ direction \notin Hashed \ {"copy"}
            /\ \/ files[target][k] = Foreign /\ policy \in {"resume", "ask"}
               \/ files[target][k] = Hole /\ direction # "download"

IsTheirs(n) == files[n] = Theirs

\* With Skip or Rename, no attempt, the first or a later one, before a restart
\* or after it, writes to a file the transfer did not create, although later
\* attempts go on with what is there (worker.rs:636) without asking whose it
\* is. The exception is a plan whose look at the server failed (worker.rs:606,
\* 690).
KeepsForeign ==
  [][\A n \in Names : IsTheirs(n) /\ policy \in {"skip", "rename"} /\ ~blind
       => (files'[n] = files[n])]_vars

\* What was transferred and counted is not transferred again: no later
\* attempt cuts the file back as long as the source stays the same and the
\* server lets itself be asked.
ProgressKept ==
  [][counted /\ ~blind /\ source.version = 1 /\ target' = target =>
       Len(Blocks(target)') >= Len(Blocks(target))]_vars

\* A transfer is not reported as skipped over the file of its own earlier
\* attempts: it goes on with a file of which it has counted something
\* (worker.rs:636), whatever the policy, as long as the source stays the same.
\* An attempt that was stopped before its first block, or failed before its
\* first report, has not counted anything, and a restart may find nothing
\* counted in the queue file: then its own half file is a conflict like any
\* other.
OwnHalfIsNotSkipped ==
  status = "skipped" /\ source.version = 1 => ~counted
=============================================================================
