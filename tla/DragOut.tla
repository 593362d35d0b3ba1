-------------------------------- MODULE DragOut --------------------------------
(***************************************************************************)
(* Dragging remote files to another program (drag_out.rs): when they are   *)
(* dropped, the drop waits while the transfer queue downloads them as a    *)
(* batch, and asks the queue again and again how much of it is left.  The  *)
(* window works on meanwhile, and a folder becomes its children.           *)
(***************************************************************************)
EXTENDS Integers, FiniteSets

CONSTANTS Things,    \* the files and folders below what is dragged
          Folders,
          Within,    \* Within[t]: the folder of t, or Top for what is dragged
          Top

ASSUME DragAssumption ==
  IsFiniteSet(Things) /\ Folders \subseteq Things /\ Top \notin Things /\ Within \in [Things -> Folders \cup {Top}]

VARIABLES
  drag,       \* [pc, outcome]
  thing,      \* its item: "none", "pending", "failed", "done" or "removed"
  expansion,  \* of each folder: "no", "listing" or "inserted"
  doomed,     \* the ids remove_batch has still to remove
  escape,     \* the key is down
  late        \* history: what entered the queue after remove_batch had looked

dragVars == <<drag, thing, expansion, doomed, escape, late>>

Listed == {t \in Things : thing[t] \in {"pending", "failed"}}
Count(status) == Cardinality({t \in Things : thing[t] = status})

DragInit ==
  /\ drag = [pc |-> "idle", outcome |-> "none"]
  /\ thing = [t \in Things |-> "none"] /\ expansion = [d \in Folders |-> "no"]
  /\ doomed = {} /\ escape = FALSE /\ late = {}

Over(outcome) == drag' = [pc |-> "over", outcome |-> outcome]

-----------------------------------------------------------------------------
(* The drag                                                                *)

StartDrag ==
  /\ drag.pc = "idle" /\ drag' = [drag EXCEPT !.pc = "dragging"]
  /\ UNCHANGED <<thing, expansion, doomed, escape, late>>

\* QueryContinueDrag: Escape, or released where nothing can be dropped.
DropNowhere ==
  /\ drag.pc = "dragging" /\ Over("cancelled")
  /\ UNCHANGED <<thing, expansion, doomed, escape, late>>

\* Released over another program: the batch enters the queue as a whole, or,
\* without a session, not at all.
Drop ==
  /\ drag.pc = "dragging"
  /\ \/ /\ drag' = [drag EXCEPT !.pc = "polling"]
        /\ thing' = [t \in Things |-> IF Within[t] = Top THEN "pending" ELSE thing[t]]
     \/ Over("failed") /\ UNCHANGED thing
  /\ UNCHANGED <<expansion, doomed, escape, late>>

PressEscape == /\ escape' = ~escape
               /\ UNCHANGED <<drag, thing, expansion, doomed, late>>

\* Slip: the key is not looked at.
PollDeaf ==
  /\ drag.pc = "polling"
  /\ \/ /\ Count("failed") > 0
        /\ drag' = [pc |-> "removing", outcome |-> "failed"]
     \/ /\ Count("failed") = 0 /\ Count("pending") = 0
        /\ Over("dropped")
  /\ UNCHANGED <<thing, expansion, doomed, escape, late>>

\* download_now, with batch_status: failures count first, then what is
\* pending, then the key.
Poll ==
  /\ drag.pc = "polling"
  /\ \/ /\ Count("failed") > 0
        /\ drag' = [pc |-> "removing", outcome |-> "failed"]
     \/ /\ Count("failed") = 0 /\ Count("pending") = 0
        /\ Over("dropped")
     \/ /\ Count("failed") = 0 /\ Count("pending") > 0 /\ escape
        /\ drag' = [pc |-> "removing", outcome |-> "cancelled"]
  /\ UNCHANGED <<thing, expansion, doomed, escape, late>>

\* remove_batch: the ids under one lock ...
Collect ==
  /\ drag.pc = "removing" /\ drag' = [drag EXCEPT !.pc = "forgetting"]
  /\ doomed' = Listed
  /\ UNCHANGED <<thing, expansion, escape, late>>

\* ... and one lock for each; what has ended meanwhile is gone.
RemoveNext(t) ==
  /\ t \in doomed /\ doomed' = doomed \ {t}
  /\ thing' = [thing EXCEPT ![t] = IF t \in Listed THEN "removed" ELSE @]
  /\ UNCHANGED <<drag, expansion, escape, late>>

GiveUpDrop ==
  /\ drag.pc = "forgetting" /\ doomed = {} /\ drag' = [drag EXCEPT !.pc = "over"]
  /\ UNCHANGED <<thing, expansion, doomed, escape, late>>

-----------------------------------------------------------------------------
(* The queue: waiting, running, paused and retried are all pending         *)

DownloadEnds(t) ==
  /\ t \notin Folders /\ thing[t] = "pending"
  /\ \E s \in {"done", "failed"} : thing' = [thing EXCEPT ![t] = s]
  /\ UNCHANGED <<drag, expansion, doomed, escape, late>>

\* resume, retry_failed; remove, remove_failed, clear.
UserActs(t) ==
  /\ t \in Listed
  /\ \/ thing[t] = "failed" /\ thing' = [thing EXCEPT ![t] = "pending"]
     \/ thing' = [thing EXCEPT ![t] = "removed"]
  /\ UNCHANGED <<drag, expansion, doomed, escape, late>>

ListFolder(d) ==
  /\ thing[d] = "pending" /\ expansion[d] = "no"
  /\ expansion' = [expansion EXCEPT ![d] = "listing"]
  /\ UNCHANGED <<drag, thing, doomed, escape, late>>

\* For another attempt, or for good.
ListFails(d) ==
  /\ expansion[d] = "listing" /\ expansion' = [expansion EXCEPT ![d] = "no"]
  /\ thing' \in {thing} \cup (IF thing[d] = "pending"
                              THEN {[thing EXCEPT ![d] = "failed"]} ELSE {})
  /\ UNCHANGED <<drag, doomed, escape, late>>

\* insert_children, whether their folder is still in the queue or not.
InsertChildren(d) ==
  /\ expansion[d] = "listing" /\ expansion' = [expansion EXCEPT ![d] = "inserted"]
  /\ thing' = [t \in Things |-> IF Within[t] = d THEN "pending" ELSE thing[t]]
  /\ late' = IF drag.pc \in {"forgetting", "over"}
             THEN late \cup {t \in Things : Within[t] = d} ELSE late
  /\ UNCHANGED <<drag, doomed, escape>>

\* Slip: a folder is done as soon as it is listed.
FolderDoneEarly(d) ==
  /\ expansion[d] \in {"listing", "inserted"}
  /\ expansion' = [expansion EXCEPT ![d] = IF @ = "inserted" THEN "no" ELSE @]
  /\ thing' = [thing EXCEPT ![d] = IF @ = "pending" THEN "done" ELSE @]
  /\ UNCHANGED <<drag, doomed, escape, late>>

FolderDone(d) ==
  /\ expansion[d] = "inserted" /\ expansion' = [expansion EXCEPT ![d] = "no"]
  /\ thing' = [thing EXCEPT ![d] = IF @ = "pending" THEN "done" ELSE @]
  /\ UNCHANGED <<drag, doomed, escape, late>>

DragNext ==
  \/ StartDrag \/ DropNowhere \/ Drop \/ PressEscape
  \/ Poll \/ Collect \/ GiveUpDrop
  \/ \E t \in Things : RemoveNext(t) \/ DownloadEnds(t) \/ UserActs(t)
  \/ \E d \in Folders : ListFolder(d) \/ ListFails(d) \/ InsertChildren(d) \/ FolderDone(d)

\* The drop polls every 50 ms, and a task that lists a folder ends.
DragFairness ==
  /\ WF_dragVars(Poll) /\ WF_dragVars(Collect) /\ WF_dragVars(GiveUpDrop)
  /\ \A t \in Things : WF_dragVars(RemoveNext(t))

DragSpec == DragInit /\ [][DragNext]_dragVars /\ DragFairness
-----------------------------------------------------------------------------
\* Types; ids to remove are there only while remove_batch runs.
DragTypeOK ==
  /\ drag \in [pc : {"idle", "dragging", "polling", "removing", "forgetting", "over"},
               outcome : {"none", "dropped", "cancelled", "failed"}]
  /\ (drag.outcome = "none") = (drag.pc \in {"idle", "dragging", "polling"})
  /\ thing \in [Things -> {"none", "pending", "failed", "done", "removed"}]
  /\ expansion \in [Folders -> {"no", "listing", "inserted"}]
  /\ doomed \subseteq Things /\ (doomed # {} => drag.pc = "forgetting")
  /\ escape \in BOOLEAN /\ late \subseteq Things

\* The other program is given the files only when all of them are there, below
\* every folder as well (drag_out.rs:307-316): what is missing was removed from
\* the queue by the user, itself or its folder.  A folder removed while it is
\* being listed may still bring in its files after the drop.
DropIsComplete ==
  drag.outcome = "dropped" =>
    \A t \in Things \ late : Within[t] = Top \/ thing[Within[t]] = "done" =>
      thing[t] \in {"done", "removed"}

\* A drop that failed or was cancelled leaves nothing of the batch in the queue
\* (queue.rs:233-244), but for what a folder that was being listed brought in
\* afterwards: expand_directory is not told.
CancelledIsGone ==
  drag.pc = "over" /\ drag.outcome \in {"failed", "cancelled"} => Listed \subseteq late

\* What a drag leaves behind: all files in the other program, or none in the
\* queue (drag_out.rs:266-281).
DropEndsWell == DropIsComplete /\ CancelledIsGone

\* The drop, which holds the main thread, comes to its end once Escape is held
\* down, whatever the queue does.
EscapeEndsDrop == [](drag.pc = "polling" /\ escape => <>(drag.pc = "over" \/ ~escape))
=============================================================================
