------------------------------ MODULE SiteStore ------------------------------
(***************************************************************************)
(* The saved sites and their passwords (sites/store.rs, credentials.rs):   *)
(* the tree, in memory and in a file that is replaced as a whole, and the  *)
(* credential store of the system, which is written one entry at a time    *)
(* before the file.  A command runs to its end before the next one starts, *)
(* but every step of it may fail and the program may end after any step.   *)
(* The list of recent connections shares nothing with them.                *)
(***************************************************************************)
EXTENDS Integers, Sequences, SequencesExt, FiniteSets

CONSTANTS Sites,      \* the ids of sites
          Servers,    \* host, port, user and protocol of recent connections
          MaxRecent   \* MAX_RECENT

ASSUME SiteAssumption == MaxRecent \in Nat \ {0}

VARIABLES
  tree,       \* the sites in memory
  disk,       \* the sites in the file
  secret,     \* the sites with a password in the credential store
  command,    \* [pc, tree, drop, put]: the command that is running
  manager,    \* [open, tree, typed]: the site manager, a copy being edited
  recent, recent_disk,
  given,      \* history: the sites whose password the user last set and keeps
  excused     \* history: the sites for which a step failed

siteVars == <<tree, disk, secret, command, manager, given, excused>>
recentVars == <<recent, recent_disk>>

NoCommand == [pc |-> "none", tree |-> {}, drop |-> {}, put |-> {}]
Closed == [open |-> FALSE, tree |-> {}, typed |-> {}]

SiteInit ==
  /\ tree = {} /\ disk = {} /\ secret = {} /\ given = {} /\ excused = {}
  /\ command = NoCommand /\ manager = Closed

RecentInit == recent = <<>> /\ recent_disk = <<>>

-----------------------------------------------------------------------------
(* The interface                                                           *)

OpenManager ==
  /\ ~manager.open
  /\ manager' = [open |-> TRUE, tree |-> tree, typed |-> {}]
  /\ UNCHANGED <<tree, disk, secret, command, given, excused>>

\* The user edits the copy and types passwords; an import replaces it.
Edit(T, P) ==
  /\ manager.open /\ manager' = [manager EXCEPT !.tree = T, !.typed = P]
  /\ UNCHANGED <<tree, disk, secret, command, given, excused>>

\* persist: the passwords of the sites it holds, one command each, then the tree.
Persist ==
  /\ manager.open /\ command = NoCommand
  /\ command' = [pc |-> "put", tree |-> manager.tree, drop |-> {},
                 put |-> manager.typed \cap manager.tree]
  /\ manager' = Closed
  /\ UNCHANGED <<tree, disk, secret, given, excused>>

\* merge_import: to the tree as it is in memory; the sites are new ones.
Import(N, P) ==
  /\ command = NoCommand /\ N # {} /\ P \subseteq N
  /\ N \cap (tree \cup secret) = {}
  /\ command' = [pc |-> "put", tree |-> tree \cup N, drop |-> {}, put |-> P]
  /\ UNCHANGED <<tree, disk, secret, manager, given, excused>>

-----------------------------------------------------------------------------
(* The command                                                             *)

\* set_password, which for an empty password takes the stored one away; its
\* failure is shown, or ignored, and the command goes on.
PutPassword(s) ==
  /\ command.pc = "put" /\ s \in command.put
  /\ command' = [command EXCEPT !.put = @ \ {s}]
  /\ \/ secret' = secret \cup {s} /\ given' = given \cup {s} /\ UNCHANGED excused
     \/ s \in tree /\ secret' = secret \ {s} /\ given' = given \ {s} /\ UNCHANGED excused
     \/ excused' = excused \cup {s} /\ UNCHANGED <<secret, given>>
  /\ UNCHANGED <<tree, disk, manager>>

\* Slip: the passwords of the sites that stay.
RemovedKept == command.tree \cap tree

\* save_tree: the sites that the new tree has no longer.
Removed == tree \ command.tree

SaveTree ==
  /\ command.pc = "put" /\ command.put = {}
  /\ command' = [command EXCEPT !.pc = "drop", !.drop = Removed]
  /\ UNCHANGED <<tree, disk, secret, manager, given, excused>>

DropPassword(s) ==
  /\ command.pc = "drop" /\ s \in command.drop
  /\ command' = [command EXCEPT !.drop = @ \ {s}]
  /\ \/ secret' = secret \ {s} /\ UNCHANGED excused
     \/ excused' = excused \cup {s} /\ UNCHANGED secret
  /\ UNCHANGED <<tree, disk, manager, given>>

\* write_json: a file beside the old one ...
WriteTemporary ==
  /\ command.pc = "drop" /\ command.drop = {}
  /\ command' = [command EXCEPT !.pc = "rename"]
  /\ UNCHANGED <<tree, disk, secret, manager, given, excused>>

\* ... which then takes its place.
Rename ==
  /\ command.pc = "rename" /\ command' = [command EXCEPT !.pc = "renamed"]
  /\ disk' = command.tree
  /\ UNCHANGED <<tree, secret, manager, given, excused>>

SetTree ==
  /\ command.pc = "renamed" /\ command' = NoCommand
  /\ tree' = command.tree
  /\ given' = given \cap command.tree
  /\ excused' = {s \in excused : s \in command.tree \/ s \in secret}
  /\ UNCHANGED <<disk, secret, manager>>

\* Either step of it may fail: the tree stays, the passwords are gone.
SaveFails ==
  /\ command.pc \in {"drop", "rename"} /\ command.drop = {}
  /\ command' = NoCommand
  /\ excused' = excused \cup (tree \ command.tree) \cup (command.tree \ tree)
  /\ UNCHANGED <<tree, disk, secret, manager, given>>

\* The program ends and is started again, and can read its file; the credential
\* store is that of Windows, which keeps what it has.
SiteCrash ==
  /\ tree' = disk
  /\ command' = NoCommand /\ manager' = Closed
  /\ excused' = IF command = NoCommand THEN excused
                ELSE excused \cup (tree \ command.tree) \cup (command.tree \ tree)
                       \cup command.put
  /\ UNCHANGED <<disk, secret, given>>

-----------------------------------------------------------------------------
(* Recent connections, each under the lock of the list                     *)

\* Slip: a server is remembered once more.
RememberTwice(r) ==
  /\ recent' = SubSeq(<<r>> \o recent, 1,
                      IF Len(recent) < MaxRecent THEN Len(recent) + 1 ELSE MaxRecent)
  /\ recent_disk' \in {recent', recent_disk}

\* remember_recent puts the server before all others, in the order they have;
\* a failure to write is ignored by session_connect.
Remember(r) ==
  LET others == {i \in DOMAIN recent : recent[i] # r} IN
  \E kept \in [1..Cardinality(others) -> others] :
    /\ \A i, j \in DOMAIN kept : i < j => kept[i] < kept[j]
    /\ LET longer == <<r>> \o [k \in DOMAIN kept |-> recent[kept[k]]] IN
         recent' = SubSeq(longer, 1, IF Len(longer) < MaxRecent THEN Len(longer)
                                     ELSE MaxRecent)
    /\ recent_disk' \in {recent', recent_disk}

ClearRecent ==
  /\ recent # <<>> /\ recent' = <<>> /\ recent_disk' \in {<<>>, recent_disk}

RecentCrash == recent' = recent_disk /\ UNCHANGED recent_disk

SiteNext ==
  \/ OpenManager \/ Persist
  \/ \E S, T \in SUBSET Sites : Edit(S, T) \/ Import(S, T)
  \/ \E s \in Sites : PutPassword(s) \/ DropPassword(s)
  \/ SaveTree \/ WriteTemporary \/ Rename \/ SetTree \/ SaveFails \/ SiteCrash

SiteSpec == SiteInit /\ [][SiteNext]_siteVars

RecentNext == (\E r \in Servers : Remember(r)) \/ ClearRecent \/ RecentCrash

RecentSpec == RecentInit /\ [][RecentNext]_recentVars
-----------------------------------------------------------------------------
\* Types; a command that is over has nothing left to do.
SiteTypeOK ==
  /\ tree \subseteq Sites /\ disk \subseteq Sites /\ secret \subseteq Sites
  /\ given \subseteq Sites /\ excused \subseteq Sites
  /\ command.pc \in {"none", "put", "drop", "rename", "renamed"}
  /\ command.tree \subseteq Sites /\ command.drop \subseteq Sites
  /\ command.put \subseteq Sites
  /\ command.pc = "none" => command = NoCommand

\* The recent connections are few and each is listed once, also after a restart
\* with a list that was not written (sites/store.rs:74-94).
RecentDistinct ==
  \A r \in {recent, recent_disk} :
    r \in Seq(Servers) /\ IsInjective(r) /\ Len(r) <= MaxRecent

\* The file and the credential store, which are not written together, agree
\* about who has a password (sites/store.rs:45-57, commands.rs:127-137): a site
\* has the one the user gave it, and no password outlives its site, but where
\* a step failed or the program ended in between.
PasswordsFollowTree ==
  command = NoCommand =>
    \A s \in Sites \ excused : (s \in secret) = (s \in tree /\ s \in given)
=============================================================================
