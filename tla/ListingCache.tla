----------------------------- MODULE ListingCache -----------------------------
(***************************************************************************)
(* The directory listings a session keeps (session.rs, ListingCache), the  *)
(* calls that fill them and the commands and uploads that change the       *)
(* server and invalidate them afterwards.  What a directory contains is a  *)
(* version number; a command is the list of its steps, each change on the  *)
(* server and each removal from the cache in its order.                    *)
(***************************************************************************)
EXTENDS Integers, Sequences, SequencesExt, FiniteSets

CONSTANTS Paths, Dirs,   \* the remote paths, and which of them are directories
          Parent,        \* Parent[p]: the directory p is listed in
          Readers, Writers,
          LastChange,    \* how often the content of a directory changes (bound)
          NotCached

ASSUME CacheAssumption ==
  /\ Dirs \subseteq Paths /\ Parent \in [Paths -> Dirs]
  /\ IsFiniteSet(Paths)
  /\ LastChange \in Nat /\ NotCached \notin Nat

VARIABLES
  version,  \* of the content of each directory on the server
  cache,    \* the version each cached listing shows
  reader,   \* each call of list: [pc, dir, seen, late]
  todo,     \* each command: the steps it has left
  due,      \* of each command: the directories it changed and did not yet drop
  excused   \* history: the directories whose stale listing has a known cause

cacheVars == <<version, cache, reader, todo, due, excused>>

\* The directories around p, nearest or not: the least set that holds its own
\* and, with each directory, the one that is in.
Above(p) ==
  IF Parent[p] = p THEN {}
  ELSE {d \in Dirs : \A S \in SUBSET Dirs :
          Parent[p] \in S /\ (\A e \in S : Parent[e] \in S) => d \in S}

Tree(p) == {p} \cup {q \in Paths : p \in Above(q)}

-----------------------------------------------------------------------------
(* The commands                                                            *)

\* A change of what `dirs` contain, and the directories `below` one that moved.
Move(dirs, below) == [do |-> "change", dirs |-> dirs, below |-> below]
Change(dirs) == Move(dirs, {})
DropPath(p)  == [do |-> "drop", dirs |-> {p}, below |-> {}]

\* Session::invalidate: the entry of the path, then that of its parent.
Invalidate(p) == <<DropPath(p), DropPath(Parent[p])>>

\* Slip: the cache is emptied before the server is asked.
MakeTooEarly(p) == Append(Invalidate(p), Change({Parent[p]}))

\* remote_mkdir, remote_touch, each path of remote_chmod, ensure_remote_dir.
Make(p) == <<Change({Parent[p]})>> \o Invalidate(p)

\* A directory that moves takes what is below it along, which nothing
\* invalidates.
Rename(p, q) ==
  <<Move({Parent[p], Parent[q]} \cup ({p} \cap Dirs), (Tree(p) \ {p}) \cap Dirs)>>
    \o Invalidate(p) \o Invalidate(q)

\* delete_remote_tree: every file below, then the directories, each after those
\* in it, whose entries go with it.  remote_delete invalidates the target once
\* more.
Rmdir(d) == <<Change({d, Parent[d]})>> \o Invalidate(d)

RmdirEach(dirs) ==
  [i \in 1 .. 3 * Len(dirs) |-> Rmdir(dirs[(i + 2) \div 3])[((i + 2) % 3) + 1]]

Delete(p, files, dirs) ==
  [i \in DOMAIN files |-> Change({Parent[files[i]]})]
    \o RmdirEach(dirs) \o Invalidate(p)

InnerFirst(dirs) ==
  \A i, j \in DOMAIN dirs : dirs[i] \in Above(dirs[j]) => j < i

\* An upload, or the target of a copy: the file appears and grows; only a
\* transfer that is done invalidates its listing.
Upload(p) == <<Change({Parent[p]}), Change({Parent[p]})>> \o Invalidate(p)

Commands ==
  {Make(p) : p \in Paths} \cup {Upload(p) : p \in Paths \ Dirs}
    \cup {Rename(p, q) : p, q \in {r \in Paths : Above(r) # {}}}
    \cup UNION {{Delete(p, files, dirs) : files \in SetToSeqs(Tree(p) \ Dirs),
                   dirs \in {s \in SetToSeqs(Tree(p) \cap Dirs) : InnerFirst(s)}} :
                p \in {q \in Paths : Above(q) # {}}}

-----------------------------------------------------------------------------
Away == [pc |-> "away", dir |-> NotCached, seen |-> 0, late |-> FALSE]

CacheInit ==
  /\ version = [d \in Dirs |-> 0]
  /\ cache = [d \in Dirs |-> NotCached]
  /\ reader = [r \in Readers |-> Away]
  /\ todo = [w \in Writers |-> <<>>]
  /\ due = [w \in Writers |-> {}]
  /\ excused = {}

\* list finds nothing fresh in the cache, or is told not to look (force).
List(r, d) ==
  /\ reader[r].pc = "away"
  /\ reader' = [reader EXCEPT ![r] =
       [Away EXCEPT !.pc = "asked", !.dir = d]]
  /\ UNCHANGED <<version, cache, todo, due, excused>>

\* The server reads the directory for the answer.
Answered(r) ==
  /\ reader[r].pc = "asked"
  /\ reader' = [reader EXCEPT ![r].pc = "read", ![r].seen = version[reader[r].dir]]
  /\ UNCHANGED <<version, cache, todo, due, excused>>

\* The call fails and leaves the cache as it was.
ListFails(r) ==
  /\ reader[r].pc \in {"asked", "read"}
  /\ reader' = [reader EXCEPT ![r] = Away]
  /\ UNCHANGED <<version, cache, todo, due, excused>>

\* The listing has arrived: put.  It is excused if its directory was dropped
\* from the cache while it was on its way.
Put(r) ==
  LET d == reader[r].dir IN
  /\ reader[r].pc = "read"
  /\ cache' = [cache EXCEPT ![d] = reader[r].seen]
  /\ reader' = [reader EXCEPT ![r] = Away]
  /\ excused' = IF reader[r].seen = version[d] THEN excused \ {d}
                ELSE IF reader[r].late THEN excused \cup {d}
                ELSE excused
  /\ UNCHANGED <<version, todo, due>>

\* get finds the entry older than the ttl (cache_ttl_secs, at least 1).
Expire(d) ==
  /\ cache[d] # NotCached
  /\ cache' = [cache EXCEPT ![d] = NotCached]
  /\ excused' = excused \ {d}
  /\ UNCHANGED <<version, reader, todo, due>>

-----------------------------------------------------------------------------
Begin(w, command) ==
  /\ todo[w] = <<>>
  /\ todo' = [todo EXCEPT ![w] = command]
  /\ UNCHANGED <<version, cache, reader, due, excused>>

Applied(step) ==
  LET dirs == step.dirs \cup step.below IN
  /\ \A d \in dirs : version[d] < LastChange
  /\ version' = [d \in Dirs |-> version[d] + (IF d \in dirs THEN 1 ELSE 0)]

\* The command that runs out of steps, or gives up, forgets what it owes.
Rest(w, steps, owed) ==
  /\ todo' = [todo EXCEPT ![w] = steps]
  /\ due' = [due EXCEPT ![w] = IF steps = <<>> THEN {} ELSE owed]

\* History: nobody will invalidate these directories any more, and answers of
\* the server that are on their way come too late to be right.
IsLate(r, dirs) == reader[r].late \/ (reader[r].pc = "read" /\ reader[r].dir \in dirs)
Late(dirs) ==
  reader' = [r \in Readers |-> [reader[r] EXCEPT !.late = IsLate(r, dirs)]]
Excuse(dirs) == excused' = excused \cup dirs /\ Late(dirs)

\* The server does what the call asks, and the call returns.
Changed(w) ==
  /\ todo[w] # <<>> /\ Head(todo[w]).do = "change"
  /\ Applied(Head(todo[w]))
  /\ Excuse(Head(todo[w]).below)
  /\ Rest(w, Tail(todo[w]), due[w] \cup Head(todo[w]).dirs)
  /\ UNCHANGED cache

\* The call fails, before or after it took effect, or a transfer is
\* paused or cancelled: the command is over and the rest of it is left out.
GivesUp(w) ==
  /\ todo[w] # <<>> /\ Head(todo[w]).do = "change"
  /\ \/ UNCHANGED version /\ Excuse(due[w])
     \/ /\ Applied(Head(todo[w]))
        /\ Excuse(due[w] \cup Head(todo[w]).dirs \cup Head(todo[w]).below)
  /\ Rest(w, <<>>, {})
  /\ UNCHANGED cache

\* One removal from the cache, under its lock.
Dropped(w) ==
  /\ todo[w] # <<>> /\ Head(todo[w]).do = "drop"
  /\ LET gone == Head(todo[w]).dirs \cap Dirs
         owed == due[w] \ gone
     IN /\ cache' = [d \in Dirs |-> IF d \in gone THEN NotCached ELSE cache[d]]
        /\ Rest(w, Tail(todo[w]), owed)
        /\ Late(gone)
        /\ excused' = excused \ gone
  /\ UNCHANGED version

CacheNext ==
  \/ \E r \in Readers : \/ \E d \in Dirs : List(r, d)
                        \/ Answered(r) \/ ListFails(r) \/ Put(r)
  \/ \E d \in Dirs : Expire(d)
  \/ \E w \in Writers : \/ \E command \in Commands : Begin(w, command)
                        \/ Changed(w) \/ GivesUp(w) \/ Dropped(w)

CacheSpec == CacheInit /\ [][CacheNext]_cacheVars
-----------------------------------------------------------------------------
Reader == [pc : {"away", "asked", "read"}, dir : Dirs \cup {NotCached},
           seen : 0 .. LastChange, late : BOOLEAN]

CacheTypeOK ==
  /\ version \in [Dirs -> 0 .. LastChange]
  /\ cache \in [Dirs -> (0 .. LastChange) \cup {NotCached}]
  /\ reader \in [Readers -> Reader]
  /\ due \in [Writers -> SUBSET Dirs]
  /\ \A w \in Writers : todo[w] = <<>> => due[w] = {}
  /\ excused \subseteq Dirs

\* A listing served from the cache is what the server has, unless a command is
\* just between its change and its invalidation (session.rs:225-228) or the
\* stale listing has one of the three known causes: it was on its way when its
\* directory was invalidated, the command that made the change stopped before
\* invalidating it, or a directory above it was renamed.
CacheFresh ==
  \A d \in Dirs :
    cache[d] \in {version[d], NotCached} \/ d \in excused
      \/ \E w \in Writers : d \in due[w]

=============================================================================
