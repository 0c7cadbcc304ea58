------------------------------ MODULE CacheIndex ----------------------------
(***************************************************************************)
(* What damsel keeps beside a dyld shared cache: the inventory index with  *)
(* its symbol rows (<cache>.didx, SQLite) and the reconstructed images     *)
(* (<cache>.dproj/).  Both are made from one state of the cache files and  *)
(* must not be served for another one.  A command is a process; it may end *)
(* between any two of its steps, and the cache files may be replaced by an *)
(* upgrade at any time.                                                    *)
(*                                                                         *)
(* A version stands for the contents of all member files.  The index is    *)
(* compared with the files by size, the image store by UUID and sizes.     *)
(***************************************************************************)
EXTENDS Naturals

CONSTANTS Procs,       \* commands that may run at the same time
          Images,
          MaxVersion,  \* bound: the cache is upgraded MaxVersion - 1 times
          Size,        \* the member sizes of each version
          None

Versions == 1..MaxVersion
\* Every version of the cache differs in the size of some member.
DistinctSizes == [v \in Versions |-> v]
ASSUME MaxVersionAssumption == MaxVersion \in Nat \ {0}
ASSUME NoneAssumption == None \notin Versions

VARIABLES disk,   \* the version of the cache files
          index,  \* the index: inventory, symbol rows
          meta,   \* the digest in the image store's meta.json
          file,   \* the image store's files: whose bytes they hold
          job     \* the command each process runs

vars == <<disk, index, meta, file, job>>
store == <<meta, file>>

Idle == [at |-> "idle"]
At(p, step) == job[p].at = step
Goto(p, step) == job' = [job EXCEPT ![p].at = step]
Finish(p) == job' = [job EXCEPT ![p] = Idle]

Init ==
  /\ disk = 1
  /\ index = [inventory |-> None, symbols |-> None]
  /\ meta = None
  /\ file = [i \in Images |-> None]
  /\ job = [p \in Procs |-> Idle]

\* try_load_fresh: an inventory is there and every member has its size.
Fresh == IF index.inventory = None THEN FALSE ELSE Size[index.inventory] = Size[disk]
-----------------------------------------------------------------------------
(* Every command opens a session: the inventory of the index if it is      *)
(* fresh, read after the check, or a parse of all members.                 *)

Commands == [name : {"index", "symbols", "lookup"}] \cup [name : {"project"}, image : Images]

Session(step, c, v) == [at |-> step, command |-> c, session |-> v, opened |-> disk,
                        rows |-> None, bytes |-> None]

Inspect(p, c) ==
  /\ At(p, "idle")
  /\ job' = [job EXCEPT ![p] = IF Fresh
                               THEN Session("inventory", c, None)
                               ELSE Session(c.name, c, disk)]
  /\ UNCHANGED <<disk, index, store>>

LoadInventory(p) ==
  /\ At(p, "inventory")
  /\ job' = [job EXCEPT ![p].at = job[p].command.name, ![p].session = index.inventory]
  /\ UNCHANGED <<disk, index, store>>
-----------------------------------------------------------------------------
(* damsel cache index [--symbols]: two transactions. *)

\* Mutant: the symbol rows survive a new inventory.
KeepSymbols(p) == [inventory |-> job[p].session, symbols |-> index.symbols]
Rebuilt(p) == [inventory |-> job[p].session, symbols |-> None]

BuildIndex(p) ==
  /\ At(p, "index") \/ At(p, "symbols")
  /\ index' = Rebuilt(p)
  /\ IF At(p, "index") THEN Finish(p) ELSE Goto(p, "rows")
  /\ UNCHANGED <<disk, store>>

\* The rows are extracted from the member bytes of this moment, by the
\* session's image records.
SymbolRows(p) ==
  /\ At(p, "rows")
  /\ job' = [job EXCEPT ![p].at = "commit",
                        ![p].rows = [inventory |-> job[p].session, bytes |-> disk]]
  /\ UNCHANGED <<disk, index, store>>

BuildSymbolIndex(p) ==
  /\ At(p, "commit")
  /\ index' = [index EXCEPT !.symbols = job[p].rows]
  /\ Finish(p)
  /\ UNCHANGED <<disk, store>>
-----------------------------------------------------------------------------
(* damsel cache a2s / s2a. *)

\* Mutant: the rows are served without a second look at the sizes.
PresentOnly == index.symbols # None
SymbolIndexUsable == Fresh /\ index.symbols # None

RequireFreshSymbolIndex(p) ==
  /\ At(p, "lookup")
  /\ IF SymbolIndexUsable THEN Goto(p, "query") ELSE Finish(p)
  /\ UNCHANGED <<disk, index, store>>

\* The query opens the index again; the table may be gone by then.
QuerySymbols(p) ==
  /\ At(p, "query")
  /\ IF index.symbols = None
     THEN Finish(p)
     ELSE job' = [job EXCEPT ![p].at = "answered", ![p].rows = index.symbols]
  /\ UNCHANGED <<disk, index, store>>
-----------------------------------------------------------------------------
(* project_real_image: the stored image, or a reconstruction that stores. *)

\* Mutant: the stored image is taken whatever the digest says.
AnyDigest(p) == meta # None
DigestMatches(p) == meta = job[p].session

ReadDigest(p) ==
  /\ At(p, "project")
  /\ Goto(p, IF DigestMatches(p) THEN "stored" ELSE "reconstruct")
  /\ UNCHANGED <<disk, index, store>>

ReadProjection(p) ==
  LET bytes == file[job[p].command.image]
  IN  /\ At(p, "stored")
      /\ IF bytes = None
         THEN Goto(p, "reconstruct")
         ELSE job' = [job EXCEPT ![p].at = "served", ![p].bytes = bytes]
      /\ UNCHANGED <<disk, index, store>>

Reconstruct(p) ==
  /\ At(p, "reconstruct")
  /\ job' = [job EXCEPT ![p].at = "write", ![p].bytes = disk]
  /\ UNCHANGED <<disk, index, store>>

\* write_projection: the file appears whole, by a rename; a failed write ends
\* it without the digest.
StoreImage(p) ==
  /\ At(p, "write")
  /\ \/ /\ file' = [file EXCEPT ![job[p].command.image] = job[p].bytes]
        /\ Goto(p, "meta")
     \/ UNCHANGED file /\ Finish(p)
  /\ UNCHANGED <<disk, index, meta>>

WriteMeta(p) ==
  /\ At(p, "meta")
  /\ meta' = job[p].session
  /\ Finish(p)
  /\ UNCHANGED <<disk, index, file>>
-----------------------------------------------------------------------------
\* A command ends: it has answered, fails, or is killed.
Ends(p) ==
  /\ ~At(p, "idle")
  /\ Finish(p)
  /\ UNCHANGED <<disk, index, store>>

Upgrade ==
  /\ disk < MaxVersion
  /\ disk' = disk + 1
  /\ UNCHANGED <<index, store, job>>

Next ==
  \/ Upgrade
  \/ \E p \in Procs :
       \/ \E c \in Commands : Inspect(p, c)
       \/ LoadInventory(p) \/ BuildIndex(p) \/ SymbolRows(p) \/ BuildSymbolIndex(p)
       \/ RequireFreshSymbolIndex(p) \/ QuerySymbols(p)
       \/ ReadDigest(p) \/ ReadProjection(p) \/ Reconstruct(p)
       \/ StoreImage(p) \/ WriteMeta(p)
       \/ Ends(p)

Spec == Init /\ [][Next]_vars
-----------------------------------------------------------------------------
Rows == [inventory : Versions, bytes : Versions]
Steps == {"inventory", "index", "symbols", "rows", "commit", "lookup", "query", "answered",
          "project", "stored", "served", "reconstruct", "write", "meta"}

TypeOK ==
  /\ disk \in Versions
  /\ index \in [inventory : Versions \cup {None}, symbols : Rows \cup {None}]
  /\ meta \in Versions \cup {None}
  /\ file \in [Images -> Versions \cup {None}]
  /\ \A p \in Procs :
       job[p] # Idle => job[p] \in [at : Steps, command : Commands,
                                    session : Versions \cup {None}, opened : Versions,
                                    rows : Rows \cup {None}, bytes : Versions \cup {None}]

\* Symbol rows in the index were extracted by the inventory they lie beside:
\* rebuilding the inventory drops them, and a command that indexes writes both.
SymbolsOfInventory ==
  index.symbols # None => index.symbols.inventory = index.inventory

\* The inventory a command works with is the one of the files as they were
\* when it looked, whether it came from the index or from the members.
SessionOfFiles ==
  \A p \in Procs : job[p] # Idle /\ job[p].session # None => job[p].session = job[p].opened

\* A symbol lookup answers with rows of the very cache its session describes:
\* the image numbers in the rows index the session's image list.
LookupMatchesSession ==
  \A p \in Procs : At(p, "answered") =>
    job[p].rows = [inventory |-> job[p].session, bytes |-> job[p].session]

\* An image served from the store has the bytes of the cache the session
\* describes: any drift of the cache ignores the store.
StoredProjectionFresh ==
  \A p \in Procs : At(p, "served") => job[p].bytes = job[p].session

\* Where the store holds several images that is not so, since the digest is the
\* directory's (write_projection); but an image served is never of a newer cache than
\* the session, and of an older one only beside another that was stored since, from a
\* cache as new as the session.
StaleOnlyBesideNewer ==
  \A p \in Procs : At(p, "served") /\ job[p].bytes # job[p].session =>
    /\ job[p].bytes < job[p].session
    /\ \E i \in Images \ {job[p].command.image} : file[i] # None /\ file[i] >= job[p].session

\* The index and every command that runs describe one cache: rows lie beside the
\* inventory they come from, sessions are of the files (build_index,
\* try_load_fresh).
IndexIsOfOneCache == TypeOK /\ SymbolsOfInventory /\ SessionOfFiles
=============================================================================
