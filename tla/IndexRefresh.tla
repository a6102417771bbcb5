---------------------------- MODULE IndexRefresh ----------------------------
(***************************************************************************)
(* The index of the repository's symbols, refreshed after a run's edits    *)
(*   apps/server/src/semantic-index-refresh-executor.ts                    *)
(*   apps/server/src/incremental-index-refresh.ts                          *)
(*   packages/repository-index/src/indexer.ts, repository-store.ts         *)
(*                                                                         *)
(* The runs of one server edit files; each then waits for a refresh of its *)
(* own, and the refreshes form a queue (refreshTail).  A refresh walks the *)
(* whole repository and goes from file to file and from statement to       *)
(* statement; no transaction holds them together.  A version stands for a  *)
(* file's content and for its hash.  A symbol's row has an id made of its  *)
(* place; the edges of a file come and go with its symbols.                *)
(***************************************************************************)
EXTENDS Integers, Sequences

CONSTANTS
  Source, Version, Gone,  \* files, contents, and no file or no row
  Place, Defines,         \* ids within a file; those at which a version has a symbol
  Editor,                 \* runs
  MaxChanges, MaxBreaks   \* bounds

ASSUME GoneAssumption == Gone \notin Version /\ Source # {}
ASSUME IndexAssumption == /\ Defines \in [Version -> SUBSET Place]
                          /\ {MaxChanges, MaxBreaks} \subseteq Nat

VARIABLES
  disk,      \* the files
  hashOf,    \* repository_files
  symbolAt,  \* code_symbols: which version a row was extracted from
  tail,      \* refreshTail: the runs that wait for their refresh, the first one's under way
  told,      \* a run is "idle", "waiting", or was told "fresh" or "stale"
  target,    \* the file that a run edited last
  step,      \* of the refresh: "none", "walk", "files", "delete", "deleteHash", "insert"
  seen,      \* the hashes of its walk
  left,      \* files to walk, or to drop and index
  file, text, \* the file under way, and what was read of it; Gone when it is dropped
  changes, breaks, \* bounds: what has been used
  \* history
  since      \* what the target of a run has held since it was edited

tables == <<hashOf, symbolAt>>
runs   == <<tail, told, target>>
scan   == <<step, seen, left, file, text>>
ixVars == <<disk, tables, runs, scan, changes, breaks, since>>

NoSymbols  == [s \in Place |-> Gone]
AllOf(v)   == [s \in Place |-> IF s \in Defines[v] THEN v ELSE Gone]
SomeFile   == CHOOSE p \in Source : TRUE
Waiters    == {e \in Editor : told[e] = "waiting"}

-----------------------------------------------------------------------------
(* Changes of files. *)

Put(p, v) == /\ changes < MaxChanges /\ changes' = changes + 1
             /\ v # disk[p] /\ disk' = [disk EXCEPT ![p] = v]

\* A mutation of a run, and the refresh that its executor asks for.
Edit(e, p, v) ==
  /\ e \notin Waiters /\ Put(p, v)
  /\ tail' = Append(tail, e)
  /\ told' = [told EXCEPT ![e] = "waiting"] /\ target' = [target EXCEPT ![e] = p]
  /\ since' = [d \in Editor |-> IF d = e THEN {v}
                                ELSE IF target[d] = p THEN since[d] \cup {v} ELSE since[d]]
  /\ UNCHANGED <<tables, scan, breaks>>

\* A shell, git, a rollback or the user: nothing is refreshed.
ChangeElsewhere(p, v) ==
  /\ Put(p, v)
  /\ since' = [d \in Editor |-> IF target[d] = p THEN since[d] \cup {v} ELSE since[d]]
  /\ UNCHANGED <<tables, runs, scan, breaks>>

-----------------------------------------------------------------------------
(* doRefresh: indexAll, and then a script that declares how symbols are embedded. *)

StartRefresh ==
  /\ step = "none" /\ tail # <<>>
  /\ step' = "walk" /\ left' = Source
  /\ UNCHANGED <<disk, tables, runs, seen, file, text, changes, breaks, since>>

\* listSourceFiles and buildIndexPlan read the files one after the other.
Walk(p) ==
  /\ step = "walk" /\ p \in left
  /\ seen' = [seen EXCEPT ![p] = disk[p]] /\ left' = left \ {p}
  /\ UNCHANGED <<disk, tables, runs, step, file, text, changes, breaks, since>>

\* toIndex and toDrop.
Plan ==
  /\ step = "walk" /\ left = {}
  /\ left' = {p \in Source : seen[p] # hashOf[p]}
  /\ step' = "files"
  /\ UNCHANGED <<disk, tables, runs, seen, file, text, changes, breaks, since>>

\* The refresh of the first run is over.
Answer(word) ==
  /\ told' = [told EXCEPT ![Head(tail)] = word]
  /\ tail' = Tail(tail) /\ step' = "none"
  /\ UNCHANGED target

\* What has gone is dropped first; the rest is read again and indexed.  A file that has gone
\* meanwhile ends the refresh.
TakeFile(p) ==
  /\ step = "files" /\ p \in left
  /\ seen[p] # Gone => \A q \in left : seen[q] # Gone
  /\ IF seen[p] # Gone /\ disk[p] = Gone
     THEN Answer("stale") /\ UNCHANGED <<left, file, text>>
     ELSE /\ step' = "delete" /\ left' = left \ {p} /\ file' = p
          /\ text' = IF seen[p] = Gone THEN Gone ELSE disk[p]
          /\ UNCHANGED runs
  /\ UNCHANGED <<disk, tables, seen, changes, breaks, since>>

\* deleteFile: symbols and edges, then the hash.
DeleteSymbols ==
  /\ step = "delete" /\ step' = "deleteHash"
  /\ symbolAt' = [symbolAt EXCEPT ![file] = NoSymbols]
  /\ UNCHANGED <<disk, hashOf, runs, seen, left, file, text, changes, breaks, since>>
DeleteHash ==
  /\ step = "deleteHash" /\ step' = IF text = Gone THEN "files" ELSE "insert"
  /\ hashOf' = [hashOf EXCEPT ![file] = Gone]
  /\ UNCHANGED <<disk, symbolAt, runs, seen, left, file, text, changes, breaks, since>>

\* upsertSymbol, one after the other.
Insert(s) ==
  /\ step = "insert" /\ s \in Defines[text] /\ symbolAt[file][s] # text
  /\ symbolAt' = [symbolAt EXCEPT ![file][s] = text]
  /\ UNCHANGED <<disk, hashOf, runs, scan, changes, breaks, since>>

\* Mutant: the hash does not wait for the symbols.
PutHashAtOnce ==
  /\ step = "insert" /\ step' = "files"
  /\ hashOf' = [hashOf EXCEPT ![file] = text]
  /\ UNCHANGED <<disk, symbolAt, runs, seen, left, file, text, changes, breaks, since>>
\* upsertFileHash comes last.
PutHash ==
  /\ step = "insert" /\ symbolAt[file] = AllOf(text) /\ step' = "files"
  /\ hashOf' = [hashOf EXCEPT ![file] = text]
  /\ UNCHANGED <<disk, symbolAt, runs, seen, left, file, text, changes, breaks, since>>

\* Mutant: whoever waits is told, since one refresh has just been made.
RefreshedAll ==
  /\ step = "files" /\ left = {} /\ step' = "none"
  /\ told' = [e \in Editor |-> IF e \in Waiters THEN "fresh" ELSE told[e]] /\ tail' = <<>>
  /\ UNCHANGED <<disk, tables, target, seen, left, file, text, changes, breaks, since>>
\* SEMANTIC_INDEX_REFRESHED.
Refreshed ==
  /\ step = "files" /\ left = {}
  /\ Answer("fresh")
  /\ UNCHANGED <<disk, tables, seen, left, file, text, changes, breaks, since>>

-----------------------------------------------------------------------------
\* A statement or the script fails, or the run was aborted: SEMANTIC_INDEX_STALE, and the
\* next refresh begins all the same.
Break == breaks < MaxBreaks /\ breaks' = breaks + 1
BreakOff ==
  /\ step # "none" /\ Break
  /\ Answer("stale")
  /\ UNCHANGED <<disk, tables, seen, left, file, text, changes, since>>

\* The process ends, and its runs with it.
ServerEnds ==
  /\ tail # <<>> /\ Break
  /\ tail' = <<>> /\ step' = "none"
  /\ told' = [e \in Editor |-> "idle"]
  /\ UNCHANGED <<disk, tables, target, seen, left, file, text, changes, since>>

-----------------------------------------------------------------------------
\* Everything is indexed, and nothing has been edited.
IxInit ==
  /\ disk \in [Source -> Version \cup {Gone}] /\ hashOf = disk
  /\ symbolAt = [p \in Source |-> IF disk[p] = Gone THEN NoSymbols ELSE AllOf(disk[p])]
  /\ tail = <<>> /\ told = [e \in Editor |-> "idle"] /\ target = [e \in Editor |-> SomeFile]
  /\ step = "none" /\ seen = disk /\ left = {} /\ file = SomeFile /\ text = Gone
  /\ changes = 0 /\ breaks = 0 /\ since = [e \in Editor |-> {}]

IxNext ==
  \/ \E p \in Source, v \in Version \cup {Gone} :
       ChangeElsewhere(p, v) \/ \E e \in Editor : Edit(e, p, v)
  \/ StartRefresh \/ Plan \/ DeleteSymbols \/ DeleteHash \/ PutHash \/ Refreshed
  \/ \E p \in Source : Walk(p) \/ TakeFile(p)
  \/ \E s \in Place : Insert(s)
  \/ BreakOff \/ ServerEnds

IxSpec == IxInit /\ [][IxNext]_ixVars

-----------------------------------------------------------------------------
IxTypeOK ==
  /\ disk \in [Source -> Version \cup {Gone}] /\ hashOf \in [Source -> Version \cup {Gone}]
  /\ symbolAt \in [Source -> [Place -> Version \cup {Gone}]]
  /\ \A i \in 1..Len(tail) : tail[i] \in Waiters
  /\ told \in [Editor -> {"idle", "waiting", "fresh", "stale"}] /\ target \in [Editor -> Source]
  /\ step \in {"none", "walk", "files", "delete", "deleteHash", "insert"}
  /\ seen \in [Source -> Version \cup {Gone}] /\ left \subseteq Source
  /\ file \in Source /\ text \in Version \cup {Gone}
  /\ changes \in 0..MaxChanges /\ breaks \in 0..MaxBreaks
  /\ since \in [Editor -> SUBSET (Version \cup {Gone})]

\* "Only re-extracts files whose content hash changed": a hash that stands for a file vouches
\* for all of its symbols, and for none of another version, wherever an indexing was broken
\* off; or a deletion was broken off after the symbols, and then there are none.
HashVouches ==
  \A p \in Source : hashOf[p] # Gone => symbolAt[p] \in {AllOf(hashOf[p]), NoSymbols}

\* "Structural symbols were refreshed from current repository contents": a run is told so
\* only when the index has its file as it was at its edit or later, whoever else edited and
\* whichever refreshes came before.
FreshIsCurrent ==
  [][\A e \in Waiters : told'[e] = "fresh" => hashOf[target[e]] \in since[e]]_ixVars
=============================================================================
