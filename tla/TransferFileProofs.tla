-------------------------- MODULE TransferFileProofs --------------------------
(* Theorems about TransferFile for every value of its constants.           *)
EXTENDS TransferFile, SequenceTheorems, TLAPS

Copying == {"copying", "finishing", "verifying"}

\* What an attempt may leave behind while the source stays the same.
OkBlock(b) == \/ b = 1
              \/ b = Foreign /\ policy \in {"resume", "ask"}
              \/ b = Hole /\ direction # "download"

Fits(n) == /\ files[n] # NoFile
           /\ Len(files[n]) <= source.size
           /\ \A k \in 1 .. Len(files[n]) : OkBlock(files[n][k])

\* The facts a plan was based on are still those of the directory, and only
\* an attempt that copies has writes in flight.
PlanOK ==
  /\ work.pc = "asking" => /\ policy = "ask" /\ files[target] # NoFile
                           /\ work.found = Len(Blocks(target))
  /\ work.pc = "opening" => /\ work.at = work.offset
                            /\ work.offset \in {0, Len(Blocks(target))}
  /\ work.pc \notin {"copying", "finishing"} \/ direction = "download" =>
       work.flight = {}
  /\ \A b \in work.flight : b[1] # 0

DoneOK ==
  /\ Len(Blocks(target)) = source.size
  /\ \A k \in 1 .. source.size :
       \/ files[target][k] = 1
       \/ direction \notin Hashed \ {"copy"} /\ OkBlock(files[target][k])

\* While the source stays the same, every file is somebody else's or fits the
\* source, and what was counted, by the item or by its copy in the queue file,
\* is in the target.
SameSource ==
  /\ \A n \in Names : files[n] \in {NoFile, Theirs} \/ Fits(n)
  /\ counted => Fits(target)
  /\ work.pc \notin {"idle", "planning"} => work.size = source.size
  /\ work.pc = "asking" \/ status = "skipped" => ~counted
  /\ work.pc = "opening" =>
       /\ work.offset # 0 => Fits(target)
       /\ counted /\ ~blind => work.offset = Len(Blocks(target))
  /\ work.pc \in Copying =>
       /\ Fits(target) /\ work.at <= source.size
       /\ direction = "download" => work.at = Len(Blocks(target))
  /\ \A b \in work.flight : b[1] <= source.size /\ b[2] = 1
  /\ status = "done" => DoneOK
  /\ saved.counted => Fits(saved.target)

\* When no attempt may touch a file of somebody else.
Careful == policy \in {"skip", "rename"} /\ ~blind
Alone == /\ counted \/ work.pc \in {"opening"} \cup Copying => ~IsTheirs(target)
         /\ saved.counted => ~IsTheirs(saved.target)

\* The inductive invariant.
FInv == /\ TypeOK
        /\ PlanOK
        /\ source.version = 1 => SameSource
        /\ Careful => Alone

\* The action properties, of one step.
KeepStep ==
  \A n \in Names : IsTheirs(n) /\ policy \in {"skip", "rename"} /\ ~blind
    => (files'[n] = files[n])
ProgressStep ==
  counted /\ ~blind /\ source.version = 1 /\ target' = target =>
    Len(Blocks(target)') >= Len(Blocks(target))
StepOK == FInv' /\ KeepStep /\ ProgressStep

-----------------------------------------------------------------------------
(* Files as sequences of blocks.                                           *)

LEMMA BlocksType ==
  ASSUME TypeOK, NEW n \in Names
  PROVE  /\ Blocks(n) \in Seq(Block)
         /\ Len(Blocks(n)) \in Nat
         /\ files[n] # NoFile => files[n] = Blocks(n)
<1>1. Blocks(n) \in Seq(Block)
  BY EmptySeq DEF TypeOK, Blocks
<1>2. QED
  BY <1>1, LenProperties DEF Blocks

LEMMA TheirsFacts ==
  Theirs \in Seq(Block) /\ Len(Theirs) = 1 /\ Theirs[1] = Foreign
    /\ Theirs # NoFile
<1>1. 0 \in Block
  BY BoundsAssumption DEF Block
<1>2. Theirs \in Seq(Block) /\ Len(Theirs) = 1 /\ Theirs[1] = Foreign
  BY <1>1 DEF Theirs, Foreign
<1>3. QED
  BY <1>2, FilesAssumption

\* A block put at position k, with a hole before it when that is past the end.
IsPut(new, blocks, k, b) ==
  /\ new \in Seq(Block)
  /\ Len(new) = IF k > Len(blocks) THEN k ELSE Len(blocks)
  /\ \A j \in 1 .. Len(new) :
       new[j] = IF j = k THEN b
                ELSE IF j <= Len(blocks) THEN blocks[j] ELSE Hole
  /\ new # Theirs

LEMMA PutBlocks ==
  ASSUME NEW blocks \in Seq(Block), NEW k \in Nat \ {0},
         NEW b \in 1 .. LastVersion
  PROVE  IsPut(Put(blocks, k, b), blocks, k, b)
<1> DEFINE m == IF k > Len(blocks) THEN k ELSE Len(blocks)
           new == Put(blocks, k, b)
<1>1. Len(blocks) \in Nat /\ m \in Nat /\ k \in 1 .. m
  BY LenProperties
<1>2. b \in Block /\ Hole \in Block /\ b # Foreign
  BY BoundsAssumption DEF Block, Hole, Foreign
<1>3. new = [j \in 1 .. m |-> IF j = k THEN b
               ELSE IF j <= Len(blocks) THEN blocks[j] ELSE Hole]
  BY DEF Put
<1>4. \A j \in 1 .. m : (IF j = k THEN b
          ELSE IF j <= Len(blocks) THEN blocks[j] ELSE Hole) \in Block
  BY <1>1, <1>2, ElementOfSeq
<1>5. new \in [1 .. m -> Block]
  BY <1>3, <1>4
<1>6. new \in Seq(Block) /\ Len(new) = m
  BY <1>1, <1>5, SeqDef, LenProperties
<1>7. \A j \in 1 .. m : new[j] = IF j = k THEN b
               ELSE IF j <= Len(blocks) THEN blocks[j] ELSE Hole
  BY <1>3
<1>8. new # Theirs
  <2>1. new[k] = b
    BY <1>1, <1>7
  <2> HIDE DEF new, m
  <2>2. ASSUME new = Theirs PROVE FALSE
    <3>1. m = 1
      BY <1>6, <2>2, TheirsFacts
    <3>2. k = 1
      BY <1>1, <3>1
    <3>3. new[1] = Foreign
      BY <2>2, TheirsFacts
    <3>4. QED
      BY <1>2, <2>1, <3>2, <3>3
  <2>3. QED
    BY <2>2
<1>9. QED
  BY <1>6, <1>7, <1>8 DEF IsPut

-----------------------------------------------------------------------------
(* Planning.                                                               *)

\* A plan to write from the offset on keeps what was known of its record.
Planned(w, o) == [w EXCEPT !.pc = "opening", !.offset = o, !.at = o]

LEMMA PlannedWork ==
  ASSUME NEW w \in Work, NEW o \in Nat
  PROVE  LET v == Planned(w, o)
         IN  /\ v \in Work /\ v.pc = "opening" /\ v.offset = o /\ v.at = o
             /\ v.size = w.size /\ v.found = w.found /\ v.flight = w.flight
BY DEF Planned, Work, WorkPC

LEMMA IdleWorkOK ==
  /\ IdleWork \in Work /\ IdleWork.pc = "idle" /\ IdleWork.flight = {}
BY DEF IdleWork, Work, WorkPC

\* Files, source and policy as they are: what is known of the files stays.
LEMMA FilesStay ==
  ASSUME UNCHANGED <<direction, source, files, policy>>
  PROVE  /\ \A n \in Names : Fits(n)' <=> Fits(n)
         /\ \A n \in Names : Blocks(n)' = Blocks(n) /\ IsTheirs(n)' = IsTheirs(n)
         /\ (target' = target => (DoneOK' <=> DoneOK))
BY DEF Fits, OkBlock, Blocks, IsTheirs, DoneOK

LEMMA SavedStays ==
  ASSUME FInv, UNCHANGED <<direction, source, files, policy, saved>>
  PROVE  /\ source.version = 1 => (saved.counted => Fits(saved.target))'
         /\ Careful => (saved.counted => ~IsTheirs(saved.target))'
<1>1. saved.target \in Names
  BY DEF FInv, TypeOK, Saved
<1>2. source.version = 1 => (saved.counted => Fits(saved.target))'
  BY <1>1, FilesStay DEF FInv, SameSource
<1>3. Careful => (saved.counted => ~IsTheirs(saved.target))'
  BY <1>1, FilesStay DEF FInv, Alone
<1>4. QED
  BY <1>2, <1>3

\* A plan, made from the facts of the directory or blindly.
LEMMA PlannedStep ==
  ASSUME FInv, UNCHANGED <<direction, source, files, older, policy, status, counted,
                     saved>>,
         blind' \in BOOLEAN, blind => blind', status = "active",
         NEW w \in Work, w.flight = {}, source.version = 1 => w.size = source.size,
         NEW n \in Names, NEW o \in Nat, target' = n,
         work' = [w EXCEPT !.pc = "opening", !.offset = o, !.at = o],
         o \in {0, Len(Blocks(n))},
         source.version = 1 /\ o # 0 => Fits(n),
         source.version = 1 /\ counted =>
           n = target /\ (blind' \/ o = Len(Blocks(n))),
         ~blind' /\ Careful => ~IsTheirs(n)
  PROVE  StepOK
<1> DEFINE v == Planned(w, o)
<1>1. /\ v \in Work /\ v.pc = "opening" /\ v.offset = o /\ v.at = o
      /\ v.size = w.size /\ v.flight = {}
  BY PlannedWork
<1>2. target' = n /\ work' = v /\ status' = status
  <2>1. target' = n /\ status' = status
    OBVIOUS
  <2>2. work' = v
    BY DEF Planned
  <2>3. QED
    BY <2>1, <2>2
<1> HIDE DEF v
<1>3. TypeOK'
  BY <1>1, <1>2 DEF FInv, TypeOK
<1>4. PlanOK'
  BY <1>1, <1>2, FilesStay DEF PlanOK
<1>5. ASSUME source'.version = 1 PROVE SameSource'
  <2>1. source.version = 1 /\ SameSource
    BY <1>5 DEF FInv
  <2>2. \A m \in Names : files'[m] \in {NoFile, Theirs} \/ Fits(m)'
    BY <2>1, FilesStay DEF SameSource
  <2>3. counted' => Fits(target)'
    BY <1>2, <2>1, FilesStay DEF SameSource, FInv, TypeOK
  <2>4. /\ work'.offset # 0 => Fits(target)'
        /\ counted' /\ ~blind' => work'.offset = Len(Blocks(target))'
    BY <1>1, <1>2, <2>1, FilesStay
  <2>5. QED
    BY <1>1, <1>2, <2>1, <2>2, <2>3, <2>4, SavedStays DEF SameSource, Copying
<1>6. Careful' => Alone'
  BY <1>2, FilesStay, SavedStays DEF Alone, Careful
<1>7. KeepStep /\ ProgressStep
  <2>1. Len(Blocks(target)) \in Nat
    BY BlocksType DEF FInv, TypeOK
  <2>2. QED
    BY <1>2, <2>1, FilesStay DEF KeepStep, ProgressStep, FInv, TypeOK
<1>8. QED
  BY <1>3, <1>4, <1>5, <1>6, <1>7 DEF StepOK, FInv

LEMMA PlanFromStep ==
  ASSUME FInv, UNCHANGED <<direction, source, files, older, policy, counted, saved>>,
         NEW w \in Work, w.flight = {}, source.version = 1 => w.size = source.size,
         NEW n \in Names, NEW o \in Nat, PlanFrom(n, o, w),
         status = "active",
         o \in {0, Len(Blocks(n))},
         source.version = 1 /\ o # 0 => Fits(n),
         source.version = 1 /\ counted => n = target /\ o = Len(Blocks(n)),
         Careful => ~IsTheirs(n)
  PROVE  StepOK
<1>1. /\ target' = n /\ UNCHANGED <<status, blind>>
      /\ work' = [w EXCEPT !.pc = "opening", !.offset = o, !.at = o]
  BY DEF PlanFrom
<1>2. blind \in BOOLEAN
  BY DEF FInv, TypeOK
<1>3. QED
  BY <1>1, <1>2, PlannedStep

LEMMA PlanBlindlyStep ==
  ASSUME FInv, UNCHANGED <<direction, source, files, older, policy, counted, saved>>,
         NEW w \in Work, w.flight = {}, source.version = 1 => w.size = source.size,
         NEW n \in Names, PlanBlindly(n, w), status = "active",
         source.version = 1 /\ counted => n = target
  PROVE  StepOK
<1>1. /\ target' = n /\ UNCHANGED status /\ blind' = TRUE
      /\ work' = [w EXCEPT !.pc = "opening", !.offset = 0, !.at = 0]
  BY DEF PlanBlindly
<1>2. QED
  BY <1>1, PlannedStep

\* The task ends, with the files as they are.
LEMMA RestStep ==
  ASSUME FInv, UNCHANGED <<direction, source, files, policy, target, saved, blind>>,
         older' \subseteq Names,
         work' = IdleWork, status' \in Status \ {"active"},
         counted' \in BOOLEAN,
         source.version = 1 /\ status' = "skipped" => ~counted',
         source.version = 1 /\ status' = "done" => DoneOK,
         source.version = 1 /\ counted' => Fits(target),
         Careful /\ counted' => ~IsTheirs(target)
  PROVE  StepOK
<1>1. TypeOK'
  BY IdleWorkOK DEF FInv, TypeOK
<1>2. PlanOK'
  BY IdleWorkOK DEF PlanOK
<1>3. ASSUME source'.version = 1 PROVE SameSource'
  <2>1. source.version = 1 /\ SameSource
    BY <1>3 DEF FInv
  <2>2. target \in Names /\ target' = target
    BY DEF FInv, TypeOK
  <2>3. \A m \in Names : files'[m] \in {NoFile, Theirs} \/ Fits(m)'
    BY <2>1, FilesStay DEF SameSource
  <2>4. counted' => Fits(target)'
    BY <2>1, <2>2, FilesStay
  <2>5. status' = "done" => DoneOK'
    BY <2>1, <2>2, FilesStay
  <2>6. QED
    BY <2>1, <2>3, <2>4, <2>5, IdleWorkOK, SavedStays DEF SameSource, Copying
<1>4. Careful' => Alone'
  BY IdleWorkOK, FilesStay, SavedStays DEF Alone, Careful, Copying, FInv, TypeOK
<1>5. KeepStep /\ ProgressStep
  <2>1. Len(Blocks(target)) \in Nat /\ target \in Names
    BY BlocksType DEF FInv, TypeOK
  <2>2. QED
    BY <2>1, FilesStay DEF KeepStep, ProgressStep
<1>6. QED
  BY <1>1, <1>2, <1>3, <1>4, <1>5 DEF StepOK, FInv

\* Nothing but the record of the task and the status moves.
LEMMA WorkStep ==
  ASSUME FInv,
         UNCHANGED <<direction, source, files, older, policy, target, counted,
                     saved, blind>>,
         work' \in Work, status' \in Status,
         work'.pc = "idle" <=> status' # "active",
         PlanOK',
         source.version = 1 /\ work'.pc \notin {"idle", "planning"} =>
           work'.size = source.size,
         source.version = 1 =>
           /\ work'.pc = "asking" \/ status' = "skipped" => ~counted
           /\ work'.pc # "opening" \/ (work.pc = "opening" /\ work'.offset = work.offset)
           /\ work'.pc \in Copying => work.pc \in Copying /\ work'.at = work.at
           /\ work'.flight \subseteq work.flight
           /\ status' # "done" \/ status = "done",
         work'.pc \in {"opening"} \cup Copying =>
           work.pc \in {"opening"} \cup Copying
  PROVE  StepOK
<1>0. target \in Names /\ target' = target
  BY DEF FInv, TypeOK
<1>1. TypeOK'
  BY DEF FInv, TypeOK
<1>2. ASSUME source'.version = 1 PROVE SameSource'
  <2>1. source.version = 1 /\ SameSource
    BY <1>2 DEF FInv
  <2>2. \A m \in Names : files'[m] \in {NoFile, Theirs} \/ Fits(m)'
    BY <2>1, FilesStay DEF SameSource
  <2>3. counted' => Fits(target)'
    BY <1>0, <2>1, FilesStay DEF SameSource
  <2>4. work'.pc = "opening" =>
          /\ work'.offset # 0 => Fits(target)'
          /\ counted' /\ ~blind' => work'.offset = Len(Blocks(target))'
    BY <1>0, <2>1, FilesStay DEF SameSource
  <2>5. work'.pc \in Copying =>
          /\ Fits(target)' /\ work'.at <= source'.size
          /\ direction' = "download" => work'.at = Len(Blocks(target))'
    BY <1>0, <2>1, FilesStay DEF SameSource
  <2>6. status' = "done" => DoneOK'
    BY <1>0, <2>1, FilesStay DEF SameSource
  <2>7. \A b \in work'.flight : b[1] <= source'.size /\ b[2] = 1
    BY <2>1 DEF SameSource
  <2>8. QED
    BY <2>1, <2>2, <2>3, <2>4, <2>5, <2>6, <2>7, SavedStays DEF SameSource
<1>3. Careful' => Alone'
  BY <1>0, FilesStay, SavedStays DEF Alone, Careful, FInv
<1>4. KeepStep /\ ProgressStep
  <2>1. Len(Blocks(target)) \in Nat
    BY <1>0, BlocksType DEF FInv
  <2>2. QED
    BY <1>0, <2>1, FilesStay DEF KeepStep, ProgressStep
<1>5. QED
  BY <1>1, <1>2, <1>3, <1>4 DEF StepOK, FInv

LEMMA StartStep == ASSUME FInv, Start PROVE StepOK
<1>1. /\ work' = [IdleWork EXCEPT !.pc = "planning"]
      /\ work' \in Work /\ work'.pc = "planning" /\ work'.flight = {}
  BY IdleWorkOK DEF Start, IdleWork, Work, WorkPC
<1>2. PlanOK'
  BY <1>1 DEF PlanOK
<1>3. QED
  BY <1>1, <1>2, WorkStep DEF Start, Status, Copying

LEMMA ResumeStep == ASSUME FInv, Resume PROVE StepOK
<1>1. work.pc = "idle" /\ work \in Work
  BY DEF FInv, TypeOK, Resume, Resting
<1>2. PlanOK'
  BY <1>1 DEF PlanOK, Resume, FInv
<1>3. QED
  BY <1>1, <1>2, WorkStep DEF Resume, Status, Copying

\* Stop and Leave: the record keeps its numbers.
LEMMA GoOnStep ==
  ASSUME FInv, Leave \/ \E how \in {"pause", "cancel"} : Stop(how)
  PROVE  StepOK
<1>1. /\ work \in Work /\ status \in Status
      /\ work.pc = "idle" <=> status # "active"
  BY DEF FInv, TypeOK
<1>2. /\ work' \in Work /\ UNCHANGED status
      /\ work'.size = work.size /\ work'.found = work.found
      /\ work'.offset = work.offset /\ work'.at = work.at
      /\ work'.flight = work.flight
      /\ \/ work'.pc = work.pc
         \/ work.pc = "copying" /\ work'.pc = "finishing"
  <2>1. CASE Leave
    <3>1. work.pc = "copying" /\ work' = [work EXCEPT !.pc = "finishing"]
      BY <2>1 DEF Leave
    <3>2. QED
      BY <1>1, <2>1, <3>1 DEF Leave, Work, WorkPC
  <2>2. ASSUME NEW how \in {"pause", "cancel"}, Stop(how)
        PROVE  /\ work' \in Work /\ UNCHANGED status
               /\ work'.size = work.size /\ work'.found = work.found
               /\ work'.offset = work.offset /\ work'.at = work.at
               /\ work'.flight = work.flight /\ work'.pc = work.pc
    BY <1>1, <2>2 DEF Stop, Work, WorkPC
  <2>3. QED
    BY <2>1, <2>2
<1>3. UNCHANGED <<direction, source, files, older, policy, target, counted,
                  saved, blind>>
  BY DEF Leave, Stop
<1>4. PlanOK'
  BY <1>2, <1>3, FilesStay DEF PlanOK, FInv, TypeOK
<1>5. source.version = 1 => SameSource
  BY DEF FInv
<1>6. QED
  BY <1>1, <1>2, <1>3, <1>4, <1>5, WorkStep DEF SameSource, Copying

\* The facts of the two stats.
LEMMA FoundFacts ==
  ASSUME FInv, work.pc = "planning"
  PROVE  LET w == Found(work)
         IN  /\ w \in Work /\ w.pc = "planning" /\ w.flight = {}
             /\ w.size = source.size /\ w.found = Len(Blocks(target))
<1>1. work \in Work /\ target \in Names
  BY DEF FInv, TypeOK
<1>2. source.size \in Nat
  BY BoundsAssumption DEF FInv, TypeOK, Source
<1>3. Len(Blocks(target)) \in Nat
  BY <1>1, BlocksType DEF FInv
<1>4. work.flight = {}
  BY DEF FInv, PlanOK
<1>5. (target \in older) \in BOOLEAN
  OBVIOUS
<1> DEFINE old == target \in older
           len == Len(Blocks(target))
<1>6. old \in BOOLEAN /\ len \in Nat
  BY <1>3, <1>5
<1> HIDE DEF old, len
<1>7. [work EXCEPT !.size = source.size, !.older = old, !.found = len] \in Work
  BY <1>1, <1>2, <1>6 DEF Work
<1>8. QED
  BY <1>1, <1>4, <1>7 DEF Found, Work, old, len

\* resolve, applied to facts that are still those of the directory.
LEMMA ResolveStep ==
  ASSUME FInv, UNCHANGED <<direction, source, files, older, policy, counted, saved>>,
         NEW w \in Work, NEW p \in Policy, Resolve(p, w), status = "active",
         w.flight = {}, w.found = Len(Blocks(target)),
         source.version = 1 => w.size = source.size /\ ~counted,
         files[target] # NoFile,
         p = policy \/ policy = "ask"
  PROVE  StepOK
<1>0. /\ target \in Names /\ w.found \in Nat /\ w.size \in Nat
      /\ source.version = 1 => SameSource
  BY DEF FInv, TypeOK, Work
<1>1. ASSUME SkipIt PROVE StepOK
  <2>1. /\ status' = "skipped" /\ work' = IdleWork /\ UNCHANGED <<target, blind>>
    BY <1>1 DEF SkipIt
  <2>2. Careful /\ counted => ~IsTheirs(target)
    BY DEF FInv, Alone
  <2>3. QED
    BY <1>0, <2>1, <2>2, RestStep DEF Status, Ended, FInv, TypeOK
<1>2. ASSUME PlanFrom(target, 0, w), ~Careful PROVE StepOK
  BY <1>0, <1>2, PlanFromStep
<1>3. ASSUME NEW n \in Names, NextName(n), p = "rename", PlanFrom(n, 0, w)
      PROVE  StepOK
  <2>1. ~IsTheirs(n)
    BY <1>3, TheirsFacts DEF NextName, IsTheirs
  <2>2. QED
    BY <1>0, <1>3, <2>1, PlanFromStep
<1>4. ASSUME p = "resume", w.found < w.size, PlanFrom(target, w.found, w)
      PROVE  StepOK
  <2>1. ~Careful /\ policy \in {"resume", "ask"}
    BY <1>4 DEF Careful
  <2>2. source.version = 1 => Fits(target)
    <3>1. SUFFICES ASSUME source.version = 1, files[target] = Theirs
                   PROVE  Fits(target)
      BY <1>0 DEF SameSource
    <3>2. Len(files[target]) <= source.size
      BY <1>0, <1>4, <3>1, TheirsFacts DEF Blocks
    <3>3. \A k \in 1 .. Len(files[target]) : OkBlock(files[target][k])
      BY <2>1, <3>1, TheirsFacts DEF OkBlock
    <3>4. QED
      BY <3>1, <3>2, <3>3, TheirsFacts DEF Fits
  <2>3. QED
    BY <1>0, <1>4, <2>1, <2>2, PlanFromStep
<1>5. ASSUME NEW n \in Names, PlanBlindly(n, w) PROVE StepOK
  BY <1>0, <1>5, PlanBlindlyStep
<1>6. p \in {"ask", "overwrite", "resume", "newer"} => ~Careful
  BY DEF Careful, Policy
<1>7. \/ SkipIt
      \/ ~Careful /\ PlanFrom(target, 0, w)
      \/ p = "rename" /\ \E n \in Names : NextName(n) /\ PlanFrom(n, 0, w)
      \/ \E n \in Names : PlanBlindly(n, w)
      \/ p = "resume" /\ w.found < w.size /\ PlanFrom(target, w.found, w)
  <2> HIDE DEF SkipIt, PlanFrom, PlanBlindly, NextName, Careful
  <2>1. QED
    BY <1>6 DEF Resolve
<1>8. QED
  BY <1>1, <1>2, <1>3, <1>4, <1>5, <1>7

\* The first stats of an attempt.
LEMMA PlanStep == ASSUME FInv, Plan PROVE StepOK
<1> DEFINE w == Found(work)
<1>1. /\ w \in Work /\ w.flight = {}
      /\ w.size = source.size /\ w.found = Len(Blocks(target))
  BY FoundFacts DEF Plan, PlanGiven
<1>2. /\ target \in Names /\ status = "active" /\ policy \in Policy
      /\ source.version = 1 => SameSource
      /\ UNCHANGED <<direction, source, files, older, policy, counted, saved>>
  BY TransferAssumption DEF FInv, TypeOK, Plan, PlanGiven
<1>3. w.found \in Nat
  BY <1>1, <1>2, BlocksType DEF FInv
<1>4. \/ PlanBlindly(target, w)
      \/ files[target] = NoFile /\ PlanFrom(target, 0, w)
      \/ /\ files[target] # NoFile /\ counted /\ w.found <= source.size
         /\ PlanFrom(target, w.found, w)
      \/ /\ files[target] # NoFile /\ ~(counted /\ w.found <= source.size)
         /\ policy = "ask" /\ work' = [w EXCEPT !.pc = "asking"]
         /\ UNCHANGED <<target, status, blind>>
      \/ /\ files[target] # NoFile /\ ~(counted /\ w.found <= source.size)
         /\ Resolve(policy, w)
  BY DEF Plan, PlanGiven
<1> HIDE DEF w
<1>5. source.version = 1 /\ counted => Fits(target)
  BY <1>2 DEF SameSource
<1>6. CASE files[target] = NoFile /\ PlanFrom(target, 0, w)
  <2>1. ~Fits(target) /\ ~IsTheirs(target)
    BY <1>6, TheirsFacts DEF Fits, IsTheirs
  <2>2. QED
    BY <1>1, <1>2, <1>5, <1>6, <2>1, PlanFromStep
<1>7. CASE counted /\ PlanFrom(target, w.found, w)
  <2>1. Careful => ~IsTheirs(target)
    BY <1>7 DEF FInv, Alone
  <2>2. QED
    BY <1>1, <1>2, <1>3, <1>5, <1>7, <2>1, PlanFromStep
<1>8. ASSUME files[target] # NoFile, ~(counted /\ w.found <= source.size)
      PROVE  source.version = 1 => ~counted
  <2>1. Fits(target) => w.found <= source.size
    BY <1>1, <1>8 DEF Fits, Blocks
  <2>2. QED
    BY <1>5, <1>8, <2>1
<1>9. CASE /\ files[target] # NoFile /\ ~(counted /\ w.found <= source.size)
           /\ policy = "ask" /\ work' = [w EXCEPT !.pc = "asking"]
           /\ UNCHANGED <<target, status, blind>>
  <2>1. /\ work' \in Work /\ work'.pc = "asking" /\ work'.flight = {}
        /\ work'.size = source.size /\ work'.found = Len(Blocks(target))
    BY <1>1, <1>9 DEF Work, WorkPC
  <2>2. PlanOK'
    BY <1>2, <1>9, <2>1, FilesStay DEF PlanOK
  <2>3. source.version = 1 => ~counted
    BY <1>8, <1>9
  <2>4. QED
    BY <1>2, <1>9, <2>1, <2>2, <2>3, WorkStep DEF Status, Copying
<1>10. CASE /\ files[target] # NoFile /\ ~(counted /\ w.found <= source.size)
            /\ Resolve(policy, w)
  BY <1>1, <1>2, <1>8, <1>10, ResolveStep
<1>11. CASE PlanBlindly(target, w)
  BY <1>1, <1>2, <1>11, PlanBlindlyStep
<1>12. QED
  BY <1>4, <1>6, <1>7, <1>9, <1>10, <1>11

\* The answer to a conflict, applied to the facts of before the question.
LEMMA AnswerStep ==
  ASSUME FInv, NEW action \in Policy \ {"ask"}, Answer(action)
  PROVE  StepOK
<1>1. /\ work \in Work /\ status = "active" /\ work.pc = "asking"
      /\ Resolve(action, work)
      /\ UNCHANGED <<direction, source, files, older, policy, counted, saved>>
  BY DEF FInv, TypeOK, Answer
<1>2. /\ work.flight = {} /\ work.found = Len(Blocks(target)) /\ policy = "ask"
      /\ files[target] # NoFile
  BY <1>1 DEF FInv, PlanOK
<1>3. source.version = 1 => work.size = source.size /\ ~counted
  BY <1>1 DEF FInv, SameSource
<1>4. QED
  BY <1>1, <1>2, <1>3, ResolveStep

-----------------------------------------------------------------------------
(* Copying.                                                                *)

\* The target is written by an attempt that has opened it, or opens it now.
LEMMA WriteStep ==
  ASSUME FInv, UNCHANGED <<direction, source, policy, status, target, saved, blind>>,
         NEW blocks \in Seq(Block), Write(target, blocks), counted' \in BOOLEAN,
         work' \in Work, work'.pc \in {"copying", "finishing"},
         work.pc \in {"opening", "copying", "finishing"}, PlanOK',
         Careful => blocks # Theirs,
         source.version = 1 =>
           /\ Len(blocks) <= source.size
           /\ \A k \in 1 .. Len(blocks) : OkBlock(blocks[k])
           /\ counted /\ ~blind => Len(blocks) >= Len(Blocks(target))
           /\ work'.size = source.size /\ work'.at <= source.size
           /\ direction = "download" => work'.at = Len(blocks)
           /\ \A b \in work'.flight : b[1] <= source.size /\ b[2] = 1
  PROVE  StepOK
<1>1. /\ target \in Names /\ target' = target /\ status = "active"
      /\ files \in [Names -> {NoFile} \cup Seq(Block)]
      /\ files' = [files EXCEPT ![target] = blocks] /\ older' = older \ {target}
      /\ saved.target \in Names /\ saved' = saved
  BY DEF FInv, TypeOK, Write, Saved
<1>2. /\ files'[target] = blocks
      /\ \A n \in Names \ {target} : files'[n] = files[n]
      /\ blocks # NoFile /\ Blocks(target)' = blocks
  BY <1>1, FilesAssumption DEF Blocks
<1>3. files' \in [Names -> {NoFile} \cup Seq(Block)]
  BY <1>1
<1>4. TypeOK'
  BY <1>1, <1>3 DEF FInv, TypeOK
<1>5. ASSUME source'.version = 1 PROVE SameSource'
  <2>1. source.version = 1 /\ SameSource /\ source' = source
    BY <1>5 DEF FInv
  <2>2. Fits(target)'
    BY <1>1, <1>2, <2>1 DEF Fits, OkBlock
  <2>3. ASSUME NEW n \in Names PROVE files'[n] \in {NoFile, Theirs} \/ Fits(n)'
    <3>1. CASE n = target
      BY <1>1, <2>2, <3>1
    <3>2. CASE n # target
      BY <1>2, <2>1, <3>2 DEF SameSource, Fits, OkBlock
    <3>3. QED
      BY <3>1, <3>2
  <2>4. saved'.counted => Fits(saved.target)'
    <3>1. CASE saved.target = target
      BY <1>1, <2>2, <3>1
    <3>2. CASE saved.target # target
      BY <1>1, <1>2, <2>1, <3>2 DEF SameSource, Fits, OkBlock
    <3>3. QED
      BY <3>1, <3>2
  <2>5. QED
    BY <1>1, <1>2, <2>1, <2>2, <2>3, <2>4 DEF SameSource, Copying
<1>6. Careful' => Alone'
  BY <1>1, <1>2 DEF Alone, Careful, IsTheirs, FInv
<1>7. KeepStep
  <2>1. Careful => ~IsTheirs(target)
    BY DEF FInv, Alone, Copying
  <2>2. QED
    BY <1>2, <2>1 DEF KeepStep, Careful
<1>8. ProgressStep
  BY <1>2 DEF ProgressStep
<1>9. QED
  BY <1>4, <1>5, <1>6, <1>7, <1>8 DEF StepOK, FInv

LEMMA OpenStep == ASSUME FInv, Open PROVE StepOK
<1> DEFINE blocks == IF work.offset = 0 THEN <<>> ELSE Blocks(target)
<1>1. /\ target \in Names /\ Blocks(target) \in Seq(Block)
      /\ Len(Blocks(target)) \in Nat /\ work \in Work /\ counted \in BOOLEAN
      /\ files[target] # NoFile => files[target] = Blocks(target)
  BY BlocksType DEF FInv, TypeOK
<1>2. /\ work.pc = "opening" /\ work.at = work.offset /\ work.flight = {}
      /\ work.offset \in {0, Len(Blocks(target))}
  BY DEF FInv, PlanOK, Open
<1>3. /\ SubSeq(Blocks(target), 1, 0) = <<>>
      /\ SubSeq(Blocks(target), 1, Len(Blocks(target))) = Blocks(target)
  <2>1. SubSeq(Blocks(target), 1, 0) = <<>>
    BY <1>1, SubSeqEmpty
  <2>2. QED
    BY <1>1, <2>1, SubSeqFull
<1>4. /\ Write(target, blocks)
      /\ work' \in Work /\ work'.pc = "copying" /\ work'.at = work.offset
      /\ work'.size = work.size /\ work'.flight = {}
      /\ UNCHANGED <<direction, source, policy, status, target, counted,
                     saved, blind>>
  BY <1>1, <1>2, <1>3 DEF Open, Work, WorkPC
<1>5. /\ blocks \in Seq(Block) /\ Len(blocks) = work.offset
  BY <1>1, <1>2, EmptySeq
<1>6. Careful => blocks # Theirs
  <2>1. Careful => files[target] # Theirs
    BY <1>2 DEF FInv, Alone, IsTheirs
  <2>2. <<>> # Theirs
    BY DEF Theirs
  <2>3. Careful => Blocks(target) # Theirs
    BY <2>1, <2>2 DEF Blocks
  <2>4. QED
    BY <2>2, <2>3
<1>7. source.version = 1 =>
        /\ Len(blocks) <= source.size
        /\ \A k \in 1 .. Len(blocks) : OkBlock(blocks[k])
        /\ counted /\ ~blind => Len(blocks) >= Len(Blocks(target))
        /\ work.size = source.size
  <2>1. SUFFICES ASSUME source.version = 1, SameSource
                 PROVE  /\ Len(blocks) <= source.size
                        /\ \A k \in 1 .. Len(blocks) : OkBlock(blocks[k])
                        /\ counted /\ ~blind => Len(blocks) >= Len(Blocks(target))
                        /\ work.size = source.size
    BY DEF FInv
  <2>2. source.size \in Nat
    BY BoundsAssumption DEF FInv, TypeOK, Source
  <2>3. /\ work.size = source.size
        /\ work.offset # 0 => Fits(target)
        /\ counted /\ ~blind => work.offset = Len(Blocks(target))
    BY <1>2, <2>1 DEF SameSource
  <2>4. CASE work.offset = 0
    BY <1>1, <1>5, <2>2, <2>3, <2>4
  <2>5. CASE work.offset # 0
    BY <1>1, <1>2, <1>5, <2>3, <2>5 DEF Fits
  <2>6. QED
    BY <2>4, <2>5
<1> HIDE DEF blocks
<1>8. PlanOK'
  BY <1>4 DEF PlanOK
<1>9. QED
  BY <1>1, <1>2, <1>4, <1>5, <1>6, <1>7, <1>8, WriteStep

\* A file with one more block, of the version the source has had.
LEMMA PutFits ==
  ASSUME FInv, NEW k \in Nat \ {0}, NEW b \in 1 .. LastVersion,
         source.version = 1 => /\ b = 1 /\ k <= source.size /\ Fits(target)
                               /\ \/ direction # "download"
                                  \/ k = Len(Blocks(target)) + 1
  PROVE  LET new == Put(Blocks(target), k, b)
         IN  /\ new \in Seq(Block) /\ new # Theirs
             /\ Len(new) = IF k > Len(Blocks(target)) THEN k
                           ELSE Len(Blocks(target))
             /\ source.version = 1 =>
                  /\ Len(new) <= source.size
                  /\ \A j \in 1 .. Len(new) : OkBlock(new[j])
<1> DEFINE old == Blocks(target)
           new == Put(old, k, b)
<1>1. /\ old \in Seq(Block) /\ Len(old) \in Nat
      /\ files[target] # NoFile => files[target] = old
  BY BlocksType DEF FInv, TypeOK
<1> HIDE DEF old
<1>5. new = Put(old, k, b)
  OBVIOUS
<1> HIDE DEF new
<1>2. /\ new \in Seq(Block) /\ new # Theirs
      /\ Len(new) = IF k > Len(old) THEN k ELSE Len(old)
      /\ \A j \in 1 .. Len(new) :
           new[j] = IF j = k THEN b ELSE IF j <= Len(old) THEN old[j] ELSE Hole
  <2>1. IsPut(new, old, k, b)
    BY <1>1, <1>5, PutBlocks, Zenon
  <2>2. QED
    BY <2>1 DEF IsPut
<1>3. ASSUME source.version = 1
      PROVE  /\ Len(new) <= source.size
             /\ \A j \in 1 .. Len(new) : OkBlock(new[j])
  <2>1. /\ b = 1 /\ k <= source.size /\ Len(old) <= source.size
        /\ \A j \in 1 .. Len(old) : OkBlock(old[j])
        /\ direction # "download" \/ k = Len(old) + 1
    BY <1>1, <1>3 DEF Fits, old
  <2>2. ASSUME NEW j \in 1 .. Len(new) PROVE OkBlock(new[j])
    <3>1. CASE j = k
      BY <1>2, <2>1, <3>1 DEF OkBlock
    <3>2. CASE j # k /\ j <= Len(old)
      BY <1>1, <1>2, <2>1, <3>2
    <3>3. CASE j # k /\ j > Len(old)
      <4>1. direction # "download" /\ new[j] = Hole
        BY <1>1, <1>2, <2>1, <3>3
      <4>2. QED
        BY <4>1 DEF OkBlock
    <3>4. QED
      BY <1>1, <1>2, <3>1, <3>2, <3>3
  <2>3. QED
    BY <1>1, <1>2, <2>1, <2>2
<1>4. QED
  BY <1>2, <1>3 DEF new, old

\* The files stay; what was counted is in the file of an attempt that copies.
LEMMA TurnStep ==
  ASSUME FInv, UNCHANGED <<direction, source, files, older, policy, status, target,
                           saved, blind>>,
         counted' \in BOOLEAN, work' \in Work, PlanOK',
         work.pc \in Copying, work'.pc \in Copying,
         source.version = 1 =>
           /\ work'.size = source.size /\ work'.at <= source.size
           /\ direction = "download" => work'.at = work.at
           /\ \A b \in work'.flight : b[1] <= source.size /\ b[2] = 1
  PROVE  StepOK
<1>1. target \in Names /\ target' = target /\ status = "active"
  BY DEF FInv, TypeOK, Copying
<1>2. TypeOK'
  BY <1>1 DEF FInv, TypeOK, Copying
<1>3. ASSUME source'.version = 1 PROVE SameSource'
  <2>1. source.version = 1 /\ SameSource
    BY <1>3 DEF FInv
  <2>2. \A m \in Names : files'[m] \in {NoFile, Theirs} \/ Fits(m)'
    BY <2>1, FilesStay DEF SameSource
  <2>3. /\ Fits(target)'
        /\ direction = "download" => work'.at = Len(Blocks(target))'
    BY <1>1, <2>1, FilesStay DEF SameSource
  <2>4. QED
    BY <1>1, <2>1, <2>2, <2>3, SavedStays DEF SameSource, Copying
<1>4. Careful' => Alone'
  BY <1>1, FilesStay, SavedStays DEF Alone, Careful, FInv
<1>5. KeepStep /\ ProgressStep
  <2>1. Len(Blocks(target)) \in Nat
    BY <1>1, BlocksType DEF FInv
  <2>2. QED
    BY <1>1, <2>1, FilesStay DEF KeepStep, ProgressStep
<1>6. QED
  BY <1>2, <1>3, <1>4, <1>5 DEF StepOK, FInv

LEMMA CopyStep ==
  ASSUME FInv, NEW reported \in BOOLEAN, Copy(reported)
  PROVE  StepOK
<1> DEFINE k == work.at + 1
           b == source.version
<1>1. /\ work \in Work /\ work.pc = "copying" /\ counted' \in BOOLEAN
      /\ work.at < source.size
      /\ UNCHANGED <<direction, source, policy, status, target, saved, blind>>
  BY DEF FInv, TypeOK, Copy
<1>2. /\ source.size \in Nat /\ b \in 1 .. LastVersion
      /\ work.at \in Nat /\ k \in Nat \ {0} /\ k <= source.size
      /\ source.version = 1 => SameSource
  <2>1. source \in Source /\ (source.version = 1 => SameSource)
    BY DEF FInv, TypeOK
  <2>2. source.size \in Nat /\ b \in 1 .. LastVersion
    BY <2>1, BoundsAssumption DEF Source
  <2>3. work.at \in Nat
    BY <1>1 DEF Work
  <2>4. QED
    BY <1>1, <2>1, <2>2, <2>3
<1> HIDE DEF k, b
<1>3. source.version = 1 =>
        /\ Fits(target) /\ work.size = source.size
        /\ direction = "download" => work.at = Len(Blocks(target))
        /\ \A f \in work.flight : f[1] <= source.size /\ f[2] = 1
  BY <1>1, <1>2 DEF SameSource, Copying
<1>4. CASE direction = "download"
  <2> DEFINE new == Put(Blocks(target), k, b)
  <2>1. Write(target, new) /\ work' = [work EXCEPT !.at = k]
    BY <1>4 DEF Copy, k, b
  <2>2. /\ work' \in Work /\ work'.pc = "copying" /\ work'.at = k
        /\ work'.size = work.size /\ work'.flight = work.flight
    BY <1>1, <1>2, <2>1 DEF Work
  <2>3. source.version = 1 => k = Len(Blocks(target)) + 1
    BY <1>3, <1>4 DEF k
  <2>4. /\ new \in Seq(Block) /\ new # Theirs
        /\ Len(new) = IF k > Len(Blocks(target)) THEN k ELSE Len(Blocks(target))
        /\ source.version = 1 =>
             /\ Len(new) <= source.size
             /\ \A j \in 1 .. Len(new) : OkBlock(new[j])
    BY <1>2, <1>3, <2>3, PutFits DEF b
  <2> HIDE DEF new
  <2>5. PlanOK'
    BY <1>1, <2>2 DEF PlanOK, FInv
  <2>6. Len(Blocks(target)) \in Nat
    BY BlocksType DEF FInv, TypeOK
  <2>7. QED
    BY <1>1, <1>2, <1>3, <2>1, <2>2, <2>3, <2>4, <2>5, <2>6, WriteStep
<1>5. CASE direction # "download"
  <2>1. /\ work' = [work EXCEPT !.at = k, !.flight = @ \cup {<<k, b>>}]
        /\ UNCHANGED <<files, older>>
    BY <1>5 DEF Copy, k, b
  <2>2. /\ work' \in Work /\ work'.pc = "copying" /\ work'.at = k
        /\ work'.size = work.size
        /\ work'.flight = work.flight \cup {<<k, b>>}
    <3>1. <<k, b>> \in Nat \X (1 .. LastVersion)
      BY <1>2
    <3> DEFINE f == work.flight \cup {<<k, b>>}
    <3>2. f \in SUBSET (Nat \X (1 .. LastVersion))
      BY <1>1, <3>1 DEF Work
    <3>3. work' = [work EXCEPT !.at = k, !.flight = f]
      BY <2>1
    <3> HIDE DEF f
    <3>4. /\ work' \in Work /\ work'.pc = "copying" /\ work'.at = k
          /\ work'.size = work.size /\ work'.flight = f
      BY <1>1, <1>2, <3>2, <3>3 DEF Work
    <3>5. QED
      BY <3>4 DEF f
  <2>3. PlanOK'
    BY <1>1, <1>2, <1>5, <2>2 DEF PlanOK, FInv
  <2>4. \A f \in work'.flight : f \in work.flight \/ f = <<k, b>>
    BY <2>2
  <2>5. source.version = 1 => \A f \in work'.flight : f[1] <= source.size /\ f[2] = 1
    BY <1>2, <1>3, <2>4 DEF b
  <2>6. QED
    BY <1>1, <1>2, <1>3, <1>5, <2>1, <2>2, <2>3, <2>5, TurnStep DEF Copying
<1>6. QED
  BY <1>4, <1>5

LEMMA LandStep ==
  ASSUME FInv, NEW b \in work.flight, Land(b)
  PROVE  StepOK
<1> DEFINE new == Put(Blocks(target), b[1], b[2])
<1>1. /\ work \in Work /\ counted \in BOOLEAN
      /\ Write(target, new) /\ work' = [work EXCEPT !.flight = @ \ {b}]
      /\ UNCHANGED <<direction, source, policy, status, target, counted,
                     saved, blind>>
  BY DEF FInv, TypeOK, Land
<1>2. b[1] \in Nat \ {0} /\ b[2] \in 1 .. LastVersion
  <2>1. b \in Nat \X (1 .. LastVersion) /\ b[1] # 0
    BY <1>1 DEF Work, FInv, PlanOK
  <2>2. QED
    BY <2>1
<1>3. work.pc \in {"copying", "finishing"} /\ direction # "download"
  BY DEF FInv, PlanOK
<1>4. source.version = 1 =>
        /\ Fits(target) /\ work.size = source.size /\ work.at <= source.size
        /\ \A f \in work.flight : f[1] <= source.size /\ f[2] = 1
  BY <1>3 DEF FInv, SameSource, Copying
<1>5. /\ new \in Seq(Block) /\ new # Theirs
      /\ Len(new) = IF b[1] > Len(Blocks(target)) THEN b[1]
                    ELSE Len(Blocks(target))
      /\ source.version = 1 =>
           /\ Len(new) <= source.size
           /\ \A j \in 1 .. Len(new) : OkBlock(new[j])
  BY <1>2, <1>3, <1>4, PutFits
<1> HIDE DEF new
<1>6. /\ work' \in Work /\ work'.pc = work.pc /\ work'.at = work.at
      /\ work'.size = work.size /\ work'.flight = work.flight \ {b}
  BY <1>1 DEF Work
<1>7. PlanOK'
  BY <1>1, <1>3, <1>6 DEF PlanOK, FInv
<1>8. Len(Blocks(target)) \in Nat
  BY BlocksType DEF FInv, TypeOK
<1>9. source.version = 1 =>
        /\ Len(new) <= source.size
        /\ \A k \in 1 .. Len(new) : OkBlock(new[k])
        /\ counted /\ ~blind => Len(new) >= Len(Blocks(target))
        /\ work'.size = source.size /\ work'.at <= source.size
        /\ direction = "download" => work'.at = Len(new)
        /\ \A f \in work'.flight : f[1] <= source.size /\ f[2] = 1
  BY <1>2, <1>3, <1>4, <1>5, <1>6, <1>8
<1>10. QED
  BY <1>1, <1>3, <1>5, <1>6, <1>7, <1>9, WriteStep

\* The progress is recorded.
LEMMA FinishStep == ASSUME FInv, Finish PROVE StepOK
<1>1. /\ work \in Work /\ work.pc = "finishing" /\ target \in Names
      /\ counted' \in BOOLEAN
      /\ UNCHANGED <<direction, source, files, older, policy, target, saved, blind>>
  BY DEF FInv, TypeOK, Finish
<1>2. source.version = 1 =>
        /\ Fits(target) /\ work.size = source.size /\ work.at <= source.size
        /\ \A f \in work.flight : f[1] <= source.size /\ f[2] = 1
  BY <1>1 DEF FInv, SameSource, Copying
<1>3. CASE work.stop = "no"
  <2>1. /\ work.flight = {} /\ work' = [work EXCEPT !.pc = "verifying"]
        /\ UNCHANGED status
    BY <1>3 DEF Finish
  <2>2. /\ work' \in Work /\ work'.pc = "verifying" /\ work'.at = work.at
        /\ work'.size = work.size /\ work'.flight = {}
    BY <1>1, <2>1 DEF Work, WorkPC
  <2>3. PlanOK'
    BY <2>2 DEF PlanOK
  <2>4. QED
    BY <1>1, <1>2, <2>1, <2>2, <2>3, TurnStep DEF Copying
<1>4. CASE work.stop # "no"
  <2>1. work' = IdleWork /\ status' \in {"paused", "gone"}
    BY <1>4 DEF Finish
  <2>2. Careful => ~IsTheirs(target)
    BY <1>1 DEF FInv, Alone, Copying
  <2>3. older' \subseteq Names
    BY <1>1 DEF FInv, TypeOK
  <2>4. QED
    BY <1>1, <1>2, <2>1, <2>2, <2>3, RestStep DEF Status, Resting, Ended
<1>5. QED
  BY <1>3, <1>4

\* The size, and the hash where there is one.
LEMMA VerifyStep == ASSUME FInv, Verify PROVE StepOK
<1>1. /\ work.pc = "verifying" /\ work' = IdleWork
      /\ status' = IF Intact THEN "done" ELSE "failed"
      /\ older' \subseteq Names /\ counted' \in BOOLEAN
      /\ UNCHANGED <<direction, source, files, policy, target, counted, saved, blind>>
  BY DEF FInv, TypeOK, Verify
<1>2. source.version = 1 =>
        Fits(target) /\ work.size = source.size
  BY <1>1 DEF FInv, SameSource, Copying
<1>3. ASSUME source.version = 1, status' = "done" PROVE DoneOK
  <2>1. Intact /\ Fits(target) /\ files[target] = Blocks(target)
    BY <1>1, <1>2, <1>3 DEF Fits, Blocks
  <2>2. Len(Blocks(target)) = source.size
    BY <1>2, <1>3, <2>1 DEF Intact
  <2>3. ASSUME NEW k \in 1 .. source.size
        PROVE  \/ files[target][k] = 1
               \/ /\ direction \notin Hashed \ {"copy"}
                  /\ OkBlock(files[target][k])
    <3>1. OkBlock(files[target][k])
      BY <2>1, <2>2 DEF Fits
    <3>2. CASE direction \in Hashed \ {"copy"}
      <4>1. files[target] = Whole
        BY <2>1, <3>2 DEF Intact
      <4>2. QED
        BY <1>3, <4>1 DEF Whole
    <3>3. QED
      BY <3>1, <3>2
  <2>4. QED
    BY <2>2, <2>3 DEF DoneOK
<1>4. Careful => ~IsTheirs(target)
  BY <1>1 DEF FInv, Alone, Copying
<1>5. status' \in {"done", "failed"}
  BY <1>1
<1>6. QED
  BY <1>1, <1>2, <1>3, <1>4, <1>5, RestStep DEF Status, Resting, Ended

LEMMA FailStep == ASSUME FInv, Fail PROVE StepOK
<1>1. /\ work \in Work /\ work' = IdleWork /\ status' \in {"queued", "failed"}
      /\ older' \subseteq Names
      /\ UNCHANGED <<direction, source, files, policy, target, saved, blind>>
  BY DEF FInv, TypeOK, Fail
<1>2. \/ counted' = counted
      \/ work.pc = "finishing" /\ counted' = (work.at > 0)
  BY DEF Fail
<1>3. counted' \in BOOLEAN
  <2>1. CASE counted' = counted
    BY <2>1 DEF FInv, TypeOK
  <2>2. CASE counted' = (work.at > 0)
    BY <2>2
  <2>3. QED
    BY <1>2, <2>1, <2>2
<1>4. source.version = 1 /\ counted' => Fits(target)
  BY <1>2 DEF FInv, SameSource, Copying
<1>5. Careful /\ counted' => ~IsTheirs(target)
  BY <1>2 DEF FInv, Alone, Copying
<1>6. QED
  BY <1>1, <1>3, <1>4, <1>5, RestStep DEF Status, Resting

\* After the source has changed, nothing is claimed of what is in the files.
LEMMA ReplaceStep ==
  ASSUME FInv, NEW size \in Sizes, ReplaceSource(size)
  PROVE  StepOK
<1>1. /\ source' = [size |-> size, version |-> source.version + 1]
      /\ older' = {n \in Names : files[n] # NoFile}
      /\ UNCHANGED <<direction, files, policy, status, target, counted, work,
                     saved, blind>>
  BY DEF ReplaceSource
<1>2. source' \in Source /\ source'.version # 1
  <2>1. source.version \in 1 .. LastVersion /\ source.version < LastVersion
    BY DEF FInv, TypeOK, Source, ReplaceSource
  <2>2. source.version + 1 \in 1 .. LastVersion /\ source.version + 1 # 1
    BY <2>1, BoundsAssumption
  <2>3. QED
    BY <1>1, <2>2 DEF Source
<1>3. TypeOK'
  BY <1>1, <1>2 DEF FInv, TypeOK
<1>4. PlanOK' /\ (Careful' => Alone')
  BY <1>1 DEF FInv, PlanOK, Careful, Alone, IsTheirs, Blocks
<1>5. KeepStep /\ ProgressStep
  <2>1. Len(Blocks(target)) \in Nat
    BY BlocksType DEF FInv, TypeOK
  <2>2. QED
    BY <1>1, <2>1 DEF KeepStep, ProgressStep, Blocks
<1>6. QED
  BY <1>2, <1>3, <1>4, <1>5 DEF StepOK, FInv

LEMMA StutterStep == ASSUME FInv, UNCHANGED vars PROVE StepOK
<1>1. UNCHANGED <<direction, source, files, older, policy, status, target, counted,
                  work, saved, blind>>
  BY DEF vars
<1>2. FInv'
  BY <1>1 DEF FInv, TypeOK, PlanOK, SameSource, Fits, OkBlock, Blocks, DoneOK,
              Careful, Alone, IsTheirs
<1>3. Len(Blocks(target)) \in Nat
  BY BlocksType DEF FInv, TypeOK
<1>4. QED
  BY <1>1, <1>2, <1>3 DEF StepOK, KeepStep, ProgressStep, Blocks

\* The item as the queue file has it is the item as it once was.
LEMMA SaveStep == ASSUME FInv, Save PROVE StepOK
<1>1. /\ target \in Names /\ counted \in BOOLEAN /\ status \in Status
      /\ UNCHANGED <<direction, source, files, older, policy, status, target, counted,
                     work, blind>>
  BY DEF FInv, TypeOK, Save
<1>2. /\ saved' \in Saved
      /\ saved'.counted => counted /\ saved'.target = target
  <2>1. CASE status \in Ended
    <3>1. saved' = Unsaved /\ 0 \in Names
      BY <2>1, BoundsAssumption DEF Save, Names
    <3>2. QED
      BY <3>1 DEF Unsaved, Saved
  <2>2. CASE status \notin Ended
    <3> DEFINE stays == IF status = "active" THEN "queued" ELSE status
    <3>1. saved' = [status |-> stays, target |-> target, counted |-> counted]
      BY <2>2 DEF Save
    <3>2. stays \in {"queued", "gone"} \cup Resting
      BY <1>1, <2>2 DEF Status
    <3> HIDE DEF stays
    <3>3. QED
      BY <1>1, <3>1, <3>2 DEF Saved
  <2>3. QED
    BY <2>1, <2>2
<1>3. TypeOK'
  BY <1>1, <1>2 DEF FInv, TypeOK
<1>4. PlanOK'
  BY <1>1 DEF FInv, PlanOK, Blocks
<1>5. ASSUME source'.version = 1 PROVE SameSource'
  <2>1. source.version = 1 /\ SameSource
    BY <1>1, <1>5 DEF FInv
  <2>2. /\ \A m \in Names : files'[m] \in {NoFile, Theirs} \/ Fits(m)'
        /\ Fits(target) => Fits(target)'
        /\ Blocks(target)' = Blocks(target)
        /\ DoneOK => DoneOK'
    BY <1>1, <2>1, FilesStay DEF SameSource
  <2>3. saved'.counted => Fits(saved.target)'
    <3>1. saved'.counted => saved'.target = target /\ Fits(target)
      BY <1>2, <2>1 DEF SameSource
    <3>2. QED
      BY <1>1, <2>2, <3>1 DEF Fits, OkBlock
  <2>4. QED
    BY <1>1, <2>1, <2>2, <2>3 DEF SameSource, Copying
<1>6. Careful' => Alone'
  BY <1>1, <1>2 DEF FInv, Careful, Alone, IsTheirs
<1>7. KeepStep /\ ProgressStep
  <2>1. Len(Blocks(target)) \in Nat
    BY BlocksType DEF FInv, TypeOK
  <2>2. QED
    BY <1>1, <2>1, FilesStay DEF KeepStep, ProgressStep
<1>8. QED
  BY <1>3, <1>4, <1>5, <1>6, <1>7 DEF StepOK, FInv

LEMMA RestartStep == ASSUME FInv, Restart PROVE StepOK
<1>1. /\ saved \in Saved /\ work' = IdleWork
      /\ status' = saved.status /\ target' = saved.target
      /\ counted' = saved.counted
      /\ UNCHANGED <<direction, source, files, older, policy, saved, blind>>
  BY DEF FInv, TypeOK, Restart
<1>2. /\ saved.target \in Names /\ saved.counted \in BOOLEAN
      /\ saved.status \in {"queued", "gone", "paused", "failed"}
  BY <1>1 DEF Saved, Resting
<1>3. TypeOK'
  BY <1>1, <1>2, IdleWorkOK DEF FInv, TypeOK, Status, Resting, Ended
<1>4. PlanOK'
  BY <1>1, IdleWorkOK DEF PlanOK
<1>5. ASSUME source'.version = 1 PROVE SameSource'
  <2>1. source.version = 1 /\ SameSource
    BY <1>1, <1>5 DEF FInv
  <2>2. \A m \in Names : files'[m] \in {NoFile, Theirs} \/ Fits(m)'
    BY <1>1, <2>1, FilesStay DEF SameSource
  <2>3. saved.counted => Fits(saved.target)' /\ Fits(target)'
    BY <1>1, <1>2, <2>1 DEF SameSource, Fits, OkBlock
  <2>4. QED
    BY <1>1, <1>2, <2>1, <2>2, <2>3, IdleWorkOK DEF SameSource, Copying
<1>6. Careful' => Alone'
  BY <1>1, IdleWorkOK DEF FInv, Careful, Alone, IsTheirs, Copying
<1>7. KeepStep /\ ProgressStep
  <2>1. Len(Blocks(target)) \in Nat
    BY BlocksType DEF FInv, TypeOK
  <2>2. QED
    BY <1>1, <2>1 DEF KeepStep, ProgressStep, Blocks
<1>8. QED
  BY <1>3, <1>4, <1>5, <1>6, <1>7 DEF StepOK, FInv

-----------------------------------------------------------------------------
(* The theorems.                                                           *)

LEMMA InitOK == Init => FInv
<1> SUFFICES ASSUME Init PROVE FInv
  OBVIOUS
<1>1. /\ direction \in Directions /\ policy \in Policies
      /\ status \in {"queued", "paused"}
      /\ blind = FALSE /\ target = 0 /\ counted = FALSE /\ work = IdleWork
      /\ files \in [Names -> {NoFile, Theirs}] /\ older \subseteq Names
      /\ saved = [status |-> status, target |-> 0, counted |-> FALSE]
  BY DEF Init
<1>2. source \in Source
  <2>1. 1 \in 1 .. LastVersion
    BY BoundsAssumption
  <2>2. QED
    BY <2>1 DEF Init, Source
<1>3. TypeOK
  <2>1. 0 \in Names
    BY BoundsAssumption DEF Names
  <2>2. files \in [Names -> {NoFile} \cup Seq(Block)]
    BY <1>1, TheirsFacts
  <2>3. QED
    BY <1>1, <1>2, <2>1, <2>2, IdleWorkOK DEF TypeOK, Status, Saved
<1>4. PlanOK /\ SameSource /\ Alone
  BY <1>1, IdleWorkOK DEF PlanOK, SameSource, Alone, Copying
<1>5. QED
  BY <1>3, <1>4 DEF FInv

LEMMA StepIsOK == FInv /\ [Next]_vars => StepOK
<1> SUFFICES ASSUME FInv, [Next]_vars PROVE StepOK
  OBVIOUS
<1>1. CASE Attempt
  <2>1. CASE Start
    BY <2>1, StartStep
  <2>2. CASE Plan
    BY <2>2, PlanStep
  <2>3. CASE \E action \in Policy \ {"ask"} : Answer(action)
    BY <2>3, AnswerStep
  <2>4. CASE Open
    BY <2>4, OpenStep
  <2>5. CASE Leave
    BY <2>5, GoOnStep
  <2>6. CASE Finish
    BY <2>6, FinishStep
  <2>7. CASE Verify
    BY <2>7, VerifyStep
  <2>8. CASE \E reported \in BOOLEAN : Copy(reported)
    BY <2>8, CopyStep
  <2>9. CASE \E b \in work.flight : Land(b)
    BY <2>9, LandStep
  <2>10. CASE Fail
    BY <2>10, FailStep
  <2>11. QED
    BY <1>1, <2>1, <2>2, <2>3, <2>4, <2>5, <2>6, <2>7, <2>8, <2>9, <2>10
       DEF Attempt
<1>2. CASE \E how \in {"pause", "cancel"} : Stop(how)
  BY <1>2, GoOnStep
<1>3. CASE Resume
  BY <1>3, ResumeStep
<1>4. CASE \E size \in Sizes : ReplaceSource(size)
  BY <1>4, ReplaceStep
<1>5. CASE Save
  BY <1>5, SaveStep
<1>6. CASE Restart
  BY <1>6, RestartStep
<1>7. CASE UNCHANGED vars
  BY <1>7, StutterStep
<1>8. QED
  BY <1>1, <1>2, <1>3, <1>4, <1>5, <1>6, <1>7 DEF Next

LEMMA Inductive == Spec => []FInv
<1>1. FInv /\ [Next]_vars => FInv'
  BY StepIsOK DEF StepOK
<1>2. QED
  BY InitOK, <1>1, PTL DEF Spec

\* The state of a transfer's attempts keeps its types: what an attempt puts
\* into a file is always a sequence of blocks.
THEOREM FileTypeCorrect == Spec => []TypeOK
<1>1. FInv => TypeOK
  BY DEF FInv
<1>2. QED
  BY Inductive, <1>1, PTL

\* Done means the whole source, whatever failures, pauses, renames and retries
\* came before, for every size, window, number of names and of attempts.
THEOREM DoneWhole == Spec => []DoneIsWhole
<1>1. FInv => DoneIsWhole
  BY DEF FInv, SameSource, DoneOK, OkBlock, DoneIsWhole
<1>2. QED
  BY Inductive, <1>1, PTL

\* A transfer is not reported as skipped over what it has counted itself.
THEOREM OwnHalfKept == Spec => []OwnHalfIsNotSkipped
<1>1. FInv => OwnHalfIsNotSkipped
  BY DEF FInv, SameSource, OwnHalfIsNotSkipped
<1>2. QED
  BY Inductive, <1>1, PTL

\* Under Skip and under Rename, no attempt touches a file the transfer did not
\* create, before a restart or after it, as long as it could look at the server.
THEOREM ForeignKept == Spec => KeepsForeign
<1>1. FInv /\ [Next]_vars => KeepStep
  BY StepIsOK DEF StepOK
<1>2. FInv /\ [Next]_vars =>
        [\A n \in Names : IsTheirs(n) /\ policy \in {"skip", "rename"} /\ ~blind
           => (files'[n] = files[n])]_vars
  BY <1>1 DEF KeepStep
<1>3. QED
  BY Inductive, <1>2, PTL DEF Spec, KeepsForeign

\* No later attempt cuts back what was counted while the source stays the same
\* and the server lets itself be asked.
THEOREM ProgressIsKept == Spec => ProgressKept
<1>1. FInv /\ [Next]_vars => ProgressStep
  BY StepIsOK DEF StepOK
<1>2. FInv /\ [Next]_vars =>
        [counted /\ ~blind /\ source.version = 1 /\ target' = target =>
           Len(Blocks(target)') >= Len(Blocks(target))]_vars
  BY <1>1 DEF ProgressStep
<1>3. QED
  BY Inductive, <1>2, PTL DEF Spec, ProgressKept
=============================================================================
