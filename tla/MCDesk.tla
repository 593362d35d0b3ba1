-------------------------------- MODULE MCDesk ---------------------------------
(***************************************************************************)
(* Model checking of what lies around the transfers: the queue's file, the *)
(* prompts, editing in place, the saved sites, the recent connections, the *)
(* throttle, the comparison of folders, the drag to other programs and the *)
(* tabs of the window.                                                     *)
(* They share no state: `part` says of which a behaviour is, as in         *)
(* MCSession.                                                              *)
(***************************************************************************)
EXTENDS QueueFile, ConflictPrompts, EditInPlace, SiteStore, Throttle, FolderComparison,
        DragOut, BrowserTabs

MCWithin == [t \in Things |-> IF t = "g" THEN "e" ELSE IF t = "e" THEN "d" ELSE Top]

VARIABLE part

vars == <<part, fileVars, promptVars, editVars, siteVars, recentVars, throttleVars,
          syncVars, dragVars, tabVars>>

Init ==
  /\ part \in {"file", "prompts", "edit", "sites", "recent", "throttle", "folders", "drag",
               "tabs"}
  /\ FileInit /\ PromptInit /\ EditInit /\ SiteInit /\ RecentInit
  /\ ThrottleInit /\ SyncInit /\ DragInit /\ TabInit
  /\ part = "throttle" \/ limit = 0
  /\ part = "folders" \/ timed

Next ==
  /\ UNCHANGED part
  /\ \/ /\ part = "file" /\ FileNext
        /\ UNCHANGED <<promptVars, editVars, siteVars, recentVars, throttleVars, syncVars,
                       dragVars, tabVars>>
     \/ /\ part = "prompts" /\ PromptNext
        /\ UNCHANGED <<fileVars, editVars, siteVars, recentVars, throttleVars, syncVars,
                       dragVars, tabVars>>
     \/ /\ part = "edit" /\ EditNext
        /\ UNCHANGED <<fileVars, promptVars, siteVars, recentVars, throttleVars, syncVars,
                       dragVars, tabVars>>
     \/ /\ part = "sites" /\ SiteNext
        /\ UNCHANGED <<fileVars, promptVars, editVars, recentVars, throttleVars, syncVars,
                       dragVars, tabVars>>
     \/ /\ part = "recent" /\ RecentNext
        /\ UNCHANGED <<fileVars, promptVars, editVars, siteVars, throttleVars, syncVars,
                       dragVars, tabVars>>
     \/ /\ part = "throttle" /\ ThrottleNext
        /\ UNCHANGED <<fileVars, promptVars, editVars, siteVars, recentVars, syncVars,
                       dragVars, tabVars>>
     \/ /\ part = "folders" /\ SyncNext
        /\ UNCHANGED <<fileVars, promptVars, editVars, siteVars, recentVars, throttleVars,
                       dragVars, tabVars>>
     \/ /\ part = "drag" /\ DragNext
        /\ UNCHANGED <<fileVars, promptVars, editVars, siteVars, recentVars, throttleVars,
                       syncVars, tabVars>>
     \/ /\ part = "tabs" /\ TabNext
        /\ UNCHANGED <<fileVars, promptVars, editVars, siteVars, recentVars, throttleVars,
                       syncVars, dragVars>>

Spec == Init /\ [][Next]_vars /\ PromptFairness /\ DragFairness

\* The state of each part has its type, and each recent server is listed once.
DeskTypeOK ==
  /\ FileTypeOK /\ PromptTypeOK /\ EditTypeOK /\ SiteTypeOK /\ RecentDistinct
  /\ ThrottleTypeOK /\ SyncTypeOK /\ DragTypeOK /\ TabTypeOK
=============================================================================
