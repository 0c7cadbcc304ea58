-------------------------- MODULE CacheIndex_proofs --------------------------
(***************************************************************************)
(* What holds of the index of a cache however often the cache is replaced  *)
(* and wherever a command ends, if one command works at a time and every   *)
(* upgrade changes the size of a member.                                   *)
(*                                                                         *)
(* What is inductive is an order: the inventory is at most as new as its   *)
(* rows, those as the files, and the inventory a lookup finds as its       *)
(* session.  A second look at the sizes then makes them all equal.         *)
(***************************************************************************)
EXTENDS CacheIndex, TLAPS

OneAtATime == \A p, q \in Procs : p = q
UpgradesShow == \A v, w \in Versions : Size[v] = Size[w] => v = w

Working == [at : Steps, command : Commands, session : Versions \cup {None}, opened : Versions,
            rows : Rows \cup {None}, bytes : Versions \cup {None}]
JobsTyped == job \in [Procs -> Working \cup {Idle}]

StoresTyped ==
  /\ disk \in Versions
  /\ index \in [inventory : Versions \cup {None}, symbols : Rows \cup {None}]
  /\ meta \in Versions \cup {None}
  /\ file \in [Images -> Versions \cup {None}]

\* The index is not newer than the files.
IndexInOrder ==
  /\ index.inventory # None => index.inventory <= disk
  /\ index.symbols # None =>
       /\ index.symbols.inventory = index.inventory
       /\ index.symbols.inventory <= index.symbols.bytes
       /\ index.symbols.bytes <= disk

\* The steps of a command about an image.
Projects == {"project", "stored", "served", "reconstruct", "write", "meta"}

\* What a command that works knows.
JobInOrder(p) ==
  /\ job[p].at \in Projects => job[p].command.image \in Images
  /\ job[p].opened <= disk
  /\ job[p].session # None => job[p].session = job[p].opened
  /\ job[p].at # "inventory" => job[p].session # None
  /\ job[p].at = "inventory" => index.inventory = job[p].opened
  /\ job[p].at = "lookup" /\ index.inventory # None => index.inventory <= job[p].opened
  /\ job[p].at \in {"rows", "commit"} => index.inventory = job[p].session
  /\ job[p].at = "commit" => /\ job[p].rows \in Rows
                             /\ job[p].rows.inventory = job[p].session
                             /\ job[p].rows.inventory <= job[p].rows.bytes
                             /\ job[p].rows.bytes <= disk
  /\ job[p].at = "query" /\ index.symbols # None =>
       index.symbols = [inventory |-> job[p].session, bytes |-> job[p].session]
  /\ job[p].at = "answered" =>
       job[p].rows = [inventory |-> job[p].session, bytes |-> job[p].session]

JobsInOrder == \A p \in Procs : job[p] \in Working => JobInOrder(p)

IInv == StoresTyped /\ JobsTyped /\ IndexInOrder /\ JobsInOrder

-----------------------------------------------------------------------------
\* None is no version, and an idle process does not work.
LEMMA Versioned == Versions \subseteq Nat /\ None \notin Versions /\ None \notin 1 .. MaxVersion
BY NoneAssumption, MaxVersionAssumption DEF Versions

LEMMA IdleDoesNot == Idle \notin Working
<1>1. Idle.at = "idle" /\ "idle" \notin Steps
  BY DEF Idle, Steps
<1> QED
  BY <1>1 DEF Working

\* A process at a step works.
LEMMA AtWorks ==
  ASSUME JobsTyped, NEW p \in Procs, NEW step \in Steps, At(p, step)
  PROVE  job[p] \in Working /\ job[p].at = step
<1>1. Idle.at = "idle" /\ "idle" \notin Steps
  BY DEF Idle, Steps
<1> QED
  BY <1>1 DEF JobsTyped, At

\* With one process at a time, the step of a command is about that one only.
LEMMA OneWorks ==
  ASSUME OneAtATime, JobsTyped, NEW p \in Procs, NEW new \in Working \cup {Idle},
         job' = [job EXCEPT ![p] = new],
         new \in Working => JobInOrder(p)'
  PROVE  JobsTyped' /\ job'[p] = new /\ JobsInOrder'
<1>1. JobsTyped' /\ job'[p] = new
  BY DEF JobsTyped
<1>2. ASSUME NEW q \in Procs, job'[q] \in Working PROVE JobInOrder(q)'
  <2>1. q = p
    BY DEF OneAtATime
  <2> QED
    BY <1>1, <1>2, <2>1
<1> QED
  BY <1>1, <1>2 DEF JobsInOrder

\* The next step of a command that keeps what it knows.
LEMMA GoesOn ==
  ASSUME JobsTyped, NEW p \in Procs, job[p] \in Working, NEW step \in Steps, Goto(p, step)
  PROVE  \E new \in Working :
           /\ job' = [job EXCEPT ![p] = new]
           /\ job'[p] = new
           /\ new.at = step /\ new.session = job[p].session /\ new.opened = job[p].opened
           /\ new.rows = job[p].rows /\ new.bytes = job[p].bytes /\ new.command = job[p].command
<1> DEFINE new == [at |-> step, command |-> job[p].command, session |-> job[p].session,
                   opened |-> job[p].opened, rows |-> job[p].rows, bytes |-> job[p].bytes]
<1>1. new \in Working
  BY DEF Working
<1>2. [job[p] EXCEPT !.at = step] = new
  BY DEF Working
<1>3. job' = [job EXCEPT ![p] = [job[p] EXCEPT !.at = step]]
  BY DEF Goto, JobsTyped
<1>4. job' = [job EXCEPT ![p] = new] /\ job'[p] = new
  BY <1>2, <1>3 DEF JobsTyped
<1> WITNESS new \in Working
<1> QED
  BY <1>4

\* Only one kind of command is about an image.
LEMMA ProjectOfImage ==
  ASSUME NEW c \in Commands
  PROVE  /\ c.name \in Steps /\ c.name \in {"index", "symbols", "lookup", "project"}
         /\ c.name \in Projects => c.image \in Images
BY DEF Commands, Steps, Projects

-----------------------------------------------------------------------------
LEMMA InitInvariant == Init => IInv
<1> SUFFICES ASSUME Init PROVE IInv
  OBVIOUS
<1>1. StoresTyped /\ IndexInOrder
  BY MaxVersionAssumption DEF Init, StoresTyped, IndexInOrder, Versions
<1>2. JobsTyped
  BY DEF Init, JobsTyped
<1>3. JobsInOrder
  BY IdleDoesNot DEF Init, JobsInOrder
<1> QED
  BY <1>1, <1>2, <1>3 DEF IInv

\* A fresh inventory is that of the files.
LEMMA FreshIsNow ==
  ASSUME IInv, UpgradesShow, Fresh
  PROVE  index.inventory = disk /\ index.inventory \in Versions
BY DEF IInv, StoresTyped, UpgradesShow, Fresh

\* An upgrade of the files leaves everything else behind.
LEMMA UpgradeKeeps == ASSUME IInv, Upgrade PROVE IInv'
<1> USE DEF IInv
<1>1. disk' = disk + 1 /\ disk < MaxVersion /\ UNCHANGED <<index, meta, file, job>>
  BY DEF Upgrade, store
<1>2. disk \in Nat /\ disk' \in Versions /\ disk < disk'
  BY <1>1, MaxVersionAssumption DEF StoresTyped, Versions
<1>3. StoresTyped' /\ JobsTyped'
  BY <1>1, <1>2 DEF StoresTyped, JobsTyped
<1>later. ASSUME NEW v \in Versions, v <= disk PROVE v <= disk'
  BY <1>1, <1>2, <1>later, Versioned
<1>4. IndexInOrder'
  <2>2. index.inventory # None => index.inventory <= disk'
    <3>1. index.inventory # None => index.inventory \in Versions
      BY DEF StoresTyped
    <3> QED
      BY <1>later, <3>1 DEF IndexInOrder
  <2>3. index.symbols # None => index.symbols.bytes <= disk'
    <3>1. index.symbols # None => index.symbols.bytes \in Versions
      BY DEF StoresTyped, Rows
    <3> QED
      BY <1>later, <3>1 DEF IndexInOrder
  <2> QED
    BY <1>1, <2>2, <2>3 DEF IndexInOrder
<1>5. JobsInOrder'
  <2> SUFFICES ASSUME NEW p \in Procs, job[p] \in Working PROVE JobInOrder(p)'
    BY <1>1 DEF JobsInOrder
  <2>1. JobInOrder(p)
    BY DEF JobsInOrder
  <2>2. job[p].opened <= disk'
    <3>1. job[p].opened \in Versions
      BY DEF Working
    <3> QED
      BY <1>later, <2>1, <3>1 DEF JobInOrder
  <2>3. job[p].at = "commit" => job[p].rows.bytes <= disk'
    <3>1. job[p].rows \in Rows => job[p].rows.bytes \in Versions
      BY DEF Rows
    <3> QED
      BY <1>later, <2>1, <3>1 DEF JobInOrder
  <2> QED
    BY <1>1, <2>1, <2>2, <2>3 DEF JobInOrder
<1> QED
  BY <1>3, <1>4, <1>5

\* A command looks at the sizes.
LEMMA InspectKeeps ==
  ASSUME IInv, OneAtATime, UpgradesShow, NEW p \in Procs, NEW c \in Commands, Inspect(p, c)
  PROVE  IInv'
<1> USE DEF IInv
<1> DEFINE new == IF Fresh THEN Session("inventory", c, None) ELSE Session(c.name, c, disk)
<1>1. job' = [job EXCEPT ![p] = new] /\ UNCHANGED <<disk, index, meta, file>>
  BY DEF Inspect, store
<1>2. /\ c.name \in Steps /\ c.name \in {"index", "symbols", "lookup", "project"}
      /\ c.name \in Projects => c.image \in Images
  BY ProjectOfImage
<1>3. new \in Working
  <2>1. disk \in Versions
    BY DEF StoresTyped
  <2>2. Session("inventory", c, None) \in Working
    BY <2>1 DEF Session, Working, Steps
  <2>3. Session(c.name, c, disk) \in Working
    BY <1>2, <2>1 DEF Session, Working
  <2> QED
    BY <2>2, <2>3
<1>4. job'[p] = new
  BY <1>1 DEF JobsTyped
<1>5. JobInOrder(p)'
  <2>1. disk \in Nat /\ disk # None
    BY Versioned DEF StoresTyped
  <2>2. CASE Fresh
    <3>1. job'[p] = Session("inventory", c, None) /\ index.inventory = disk
      BY <1>4, <2>2, FreshIsNow
    <3> QED
      BY <1>1, <2>1, <3>1 DEF JobInOrder, Session, Projects
  <2>3. CASE ~Fresh
    <3>1. job'[p] = Session(c.name, c, disk)
      BY <1>4, <2>3
    <3> QED
      BY <1>1, <1>2, <2>1, <3>1 DEF JobInOrder, Session, IndexInOrder, Projects
  <2> QED
    BY <2>2, <2>3
<1>6. JobsTyped' /\ JobsInOrder'
  BY <1>1, <1>3, <1>5, OneWorks
<1>7. StoresTyped' /\ IndexInOrder'
  BY <1>1 DEF StoresTyped, IndexInOrder
<1> QED
  BY <1>6, <1>7

\* The inventory is read after the look at the sizes.
LEMMA LoadKeeps ==
  ASSUME IInv, OneAtATime, NEW p \in Procs, LoadInventory(p)
  PROVE  IInv'
<1> USE DEF IInv
<1> DEFINE j == job[p]
           new == [at |-> j.command.name, command |-> j.command, session |-> index.inventory,
                   opened |-> j.opened, rows |-> j.rows, bytes |-> j.bytes]
<1>1. j \in Working /\ j.at = "inventory" /\ UNCHANGED <<disk, index, meta, file>>
  BY AtWorks DEF LoadInventory, Steps, store
<1>2. JobInOrder(p) /\ index.inventory = j.opened /\ j.opened \in Versions
  BY <1>1 DEF JobsInOrder, JobInOrder, Working
<1>3. /\ j.command.name \in Steps /\ j.command.name \in {"index", "symbols", "lookup", "project"}
      /\ j.command.name \in Projects => j.command.image \in Images
  BY <1>1, ProjectOfImage DEF Working
<1>4. new \in Working
  BY <1>1, <1>2, <1>3 DEF Working
<1>5. job' = [job EXCEPT ![p] = new]
  <2>1. job' = [job EXCEPT ![p] = [[j EXCEPT !.at = j.command.name] EXCEPT !.session = index.inventory]]
    BY DEF LoadInventory, JobsTyped
  <2> DEFINE mid == [at |-> j.command.name, command |-> j.command, session |-> j.session,
                     opened |-> j.opened, rows |-> j.rows, bytes |-> j.bytes]
  <2>2. [j EXCEPT !.at = j.command.name] = mid
    BY <1>1 DEF Working
  <2>3. [mid EXCEPT !.session = index.inventory] = new
    OBVIOUS
  <2> HIDE DEF new, j, mid
  <2> QED
    BY <2>1, <2>2, <2>3
<1>6. job'[p] = new
  BY <1>5 DEF JobsTyped
<1>7. JobInOrder(p)'
  <2>1. j.opened \in Nat /\ j.opened <= disk /\ j.opened # None
    BY <1>2, Versioned DEF JobInOrder
  <2> QED
    BY <1>1, <1>2, <1>3, <1>6, <2>1 DEF JobInOrder, Projects
<1>8. JobsTyped' /\ JobsInOrder'
  BY <1>4, <1>5, <1>7, OneWorks
<1>9. StoresTyped' /\ IndexInOrder'
  BY <1>1 DEF StoresTyped, IndexInOrder
<1> QED
  BY <1>8, <1>9

\* A command that ends leaves the index as it is, or as another step makes it.
LEMMA EndsTyped ==
  ASSUME IInv, OneAtATime, NEW p \in Procs, Finish(p)
  PROVE  JobsTyped' /\ JobsInOrder'
<1>1. job' = [job EXCEPT ![p] = Idle] /\ Idle \notin Working
  BY IdleDoesNot DEF Finish
<1> QED
  BY <1>1, OneWorks DEF IInv

LEMMA FinishKeeps ==
  ASSUME IInv, OneAtATime, NEW p \in Procs, Finish(p), UNCHANGED <<disk, index>>,
         meta' \in Versions \cup {None}, file' \in [Images -> Versions \cup {None}]
  PROVE  IInv'
<1>1. JobsTyped' /\ JobsInOrder'
  BY EndsTyped
<1>2. StoresTyped' /\ IndexInOrder'
  BY DEF IInv, StoresTyped, IndexInOrder
<1> QED
  BY <1>1, <1>2 DEF IInv

\* What a command does about images does not concern the index.
LEMMA ProjectKeeps ==
  ASSUME IInv, OneAtATime, NEW p \in Procs, job[p] \in Working, job[p].at \in Projects,
         NEW new \in Working, job' = [job EXCEPT ![p] = new], new.at \in Projects,
         new.session = job[p].session, new.opened = job[p].opened,
         new.command = job[p].command,
         UNCHANGED <<disk, index>>,
         meta' \in Versions \cup {None}, file' \in [Images -> Versions \cup {None}]
  PROVE  IInv'
<1> USE DEF IInv
<1>1. job'[p] = new
  BY DEF JobsTyped
<1>2. JobInOrder(p)
  BY DEF JobsInOrder
<1>3. JobInOrder(p)'
  BY <1>1, <1>2 DEF JobInOrder, Projects
<1>4. JobsTyped' /\ JobsInOrder'
  BY <1>3, OneWorks
<1>5. StoresTyped' /\ IndexInOrder'
  BY DEF StoresTyped, IndexInOrder
<1> QED
  BY <1>4, <1>5

\* An inventory replaces the one before and its rows.
LEMMA BuildKeeps ==
  ASSUME IInv, OneAtATime, NEW p \in Procs, BuildIndex(p)
  PROVE  IInv'
<1> USE DEF IInv
<1>1. job[p] \in Working /\ job[p].at \in {"index", "symbols"}
  BY AtWorks DEF BuildIndex, Steps
<1>2. JobInOrder(p)
  BY <1>1 DEF JobsInOrder
<1>3. job[p].session \in Versions /\ job[p].session <= disk
  BY <1>1, <1>2 DEF JobInOrder, Working
<1>4. index' = [inventory |-> job[p].session, symbols |-> None] /\ UNCHANGED <<disk, meta, file>>
  BY DEF BuildIndex, Rebuilt, store
<1>5. StoresTyped'
  BY <1>3, <1>4 DEF StoresTyped
<1>6. IndexInOrder'
  BY <1>3, <1>4 DEF IndexInOrder
<1>7. CASE At(p, "index")
  <2>1. Finish(p)
    BY <1>7 DEF BuildIndex
  <2> QED
    BY <1>5, <1>6, <2>1, EndsTyped
<1>8. CASE ~At(p, "index")
  <2>1. Goto(p, "rows")
    BY <1>8 DEF BuildIndex
  <2>2. PICK new \in Working :
          /\ job' = [job EXCEPT ![p] = new] /\ job'[p] = new /\ new.at = "rows"
          /\ new.session = job[p].session /\ new.opened = job[p].opened
    BY <1>1, <2>1, GoesOn DEF Steps
  <2>3. JobInOrder(p)'
    BY <1>1, <1>2, <1>4, <2>2 DEF JobInOrder, Projects
  <2>4. JobsTyped' /\ JobsInOrder'
    BY <2>2, <2>3, OneWorks
  <2> QED
    BY <1>5, <1>6, <2>4
<1> QED
  BY <1>7, <1>8

\* The rows are read from the files as they are by then.
LEMMA RowsKeep ==
  ASSUME IInv, OneAtATime, NEW p \in Procs, SymbolRows(p)
  PROVE  IInv'
<1> USE DEF IInv
<1> DEFINE j == job[p]
           rows == [inventory |-> j.session, bytes |-> disk]
           mid == [at |-> "commit", command |-> j.command, session |-> j.session,
                   opened |-> j.opened, rows |-> j.rows, bytes |-> j.bytes]
           new == [at |-> "commit", command |-> j.command, session |-> j.session,
                   opened |-> j.opened, rows |-> rows, bytes |-> j.bytes]
<1>1. j \in Working /\ j.at = "rows" /\ UNCHANGED <<disk, index, meta, file>>
  BY AtWorks DEF SymbolRows, Steps, store
<1>2. JobInOrder(p)
  BY <1>1 DEF JobsInOrder
<1>3. j.session \in Versions /\ j.session <= disk /\ j.session = index.inventory /\ disk \in Versions
  BY <1>1, <1>2 DEF JobInOrder, Working, StoresTyped
<1>4. rows \in Rows
  BY <1>3 DEF Rows
<1>5. new \in Working
  BY <1>1, <1>4 DEF Working, Steps
<1>6. job' = [job EXCEPT ![p] = new]
  <2>1. job' = [job EXCEPT ![p] = [[j EXCEPT !.at = "commit"] EXCEPT !.rows = rows]]
    BY DEF SymbolRows, JobsTyped
  <2>2. [j EXCEPT !.at = "commit"] = mid
    BY <1>1 DEF Working
  <2>3. [mid EXCEPT !.rows = rows] = new
    OBVIOUS
  <2> HIDE DEF new, j, mid, rows
  <2> QED
    BY <2>1, <2>2, <2>3
<1>7. job'[p] = new
  BY <1>6 DEF JobsTyped
<1>8. JobInOrder(p)'
  <2>1. disk \in Nat /\ disk <= disk
    BY <1>3, Versioned
  <2>2. new.at = "commit" /\ new.session = j.session /\ new.opened = j.opened /\ new.rows = rows
    OBVIOUS
  <2>3. new.rows \in Rows /\ new.rows.inventory = j.session /\ new.rows.bytes = disk
    BY <1>4
  <2> HIDE DEF new, rows
  <2> QED
    BY <1>1, <1>2, <1>3, <1>7, <2>1, <2>2, <2>3 DEF JobInOrder, Projects
<1>9. JobsTyped' /\ JobsInOrder'
  BY <1>5, <1>6, <1>8, OneWorks
<1>10. StoresTyped' /\ IndexInOrder'
  BY <1>1 DEF StoresTyped, IndexInOrder
<1> QED
  BY <1>9, <1>10

\* The rows are committed beside the inventory they were read with.
LEMMA CommitKeeps ==
  ASSUME IInv, OneAtATime, NEW p \in Procs, BuildSymbolIndex(p)
  PROVE  IInv'
<1> USE DEF IInv
<1>1. job[p] \in Working /\ job[p].at = "commit" /\ UNCHANGED <<disk, meta, file>> /\ Finish(p)
  BY AtWorks DEF BuildSymbolIndex, Steps, store
<1>2. JobInOrder(p)
  BY <1>1 DEF JobsInOrder
<1>3. index' = [inventory |-> index.inventory, symbols |-> job[p].rows]
  BY DEF BuildSymbolIndex, StoresTyped
<1>4. StoresTyped'
  <2>1. job[p].rows \in Rows
    BY <1>1, <1>2 DEF JobInOrder
  <2> QED
    BY <1>1, <1>3, <2>1 DEF StoresTyped
<1>5. IndexInOrder'
  BY <1>1, <1>2, <1>3 DEF IndexInOrder, JobInOrder
<1>6. JobsTyped' /\ JobsInOrder'
  BY <1>1, EndsTyped
<1> QED
  BY <1>4, <1>5, <1>6

\* The second look at the sizes.
LEMMA RequireKeeps ==
  ASSUME IInv, OneAtATime, UpgradesShow, NEW p \in Procs, RequireFreshSymbolIndex(p)
  PROVE  IInv'
<1> USE DEF IInv
<1>1. job[p] \in Working /\ job[p].at = "lookup" /\ UNCHANGED <<disk, index, meta, file>>
  BY AtWorks DEF RequireFreshSymbolIndex, Steps, store
<1>2. JobInOrder(p)
  BY <1>1 DEF JobsInOrder
<1>3. CASE SymbolIndexUsable
  <2>1. Goto(p, "query")
    BY <1>3 DEF RequireFreshSymbolIndex
  <2>2. PICK new \in Working :
          /\ job' = [job EXCEPT ![p] = new] /\ job'[p] = new /\ new.at = "query"
          /\ new.session = job[p].session /\ new.opened = job[p].opened
    BY <1>1, <2>1, GoesOn DEF Steps
  <2>3. index.inventory = disk /\ index.inventory \in Versions /\ index.symbols # None
    BY <1>3, FreshIsNow DEF SymbolIndexUsable
  <2>4. job[p].session = disk
    <3>1. disk \in Nat /\ job[p].opened \in Nat /\ disk # None
      BY <1>1, Versioned DEF Working, StoresTyped
    <3>2. disk <= job[p].opened /\ job[p].opened <= disk /\ job[p].session = job[p].opened
      BY <1>1, <1>2, <2>3, <3>1 DEF JobInOrder
    <3> QED
      BY <3>1, <3>2
  <2>5. index.symbols = [inventory |-> disk, bytes |-> disk]
    <3>1. index.symbols \in Rows
      BY <2>3 DEF StoresTyped
    <3>2. index.symbols.bytes \in Nat /\ disk \in Nat
      BY <3>1, Versioned DEF Rows, StoresTyped
    <3>3. index.symbols.inventory = disk /\ disk <= index.symbols.bytes /\ index.symbols.bytes <= disk
      BY <2>3 DEF IndexInOrder
    <3>4. index.symbols.bytes = disk
      BY <3>2, <3>3
    <3> QED
      BY <3>1, <3>3, <3>4 DEF Rows
  <2>6. JobInOrder(p)'
    BY <1>1, <1>2, <2>2, <2>4, <2>5 DEF JobInOrder, Projects
  <2>7. JobsTyped' /\ JobsInOrder'
    BY <2>2, <2>6, OneWorks
  <2>8. StoresTyped' /\ IndexInOrder'
    BY <1>1 DEF StoresTyped, IndexInOrder
  <2> QED
    BY <2>7, <2>8
<1>4. CASE ~SymbolIndexUsable
  <2>1. Finish(p)
    BY <1>4 DEF RequireFreshSymbolIndex
  <2> QED
    BY <1>1, <2>1, FinishKeeps DEF StoresTyped
<1> QED
  BY <1>3, <1>4

\* The rows of an answer are those there were at that look.
LEMMA QueryKeeps ==
  ASSUME IInv, OneAtATime, NEW p \in Procs, QuerySymbols(p)
  PROVE  IInv'
<1> USE DEF IInv
<1> DEFINE j == job[p]
           mid == [at |-> "answered", command |-> j.command, session |-> j.session,
                   opened |-> j.opened, rows |-> j.rows, bytes |-> j.bytes]
           new == [at |-> "answered", command |-> j.command, session |-> j.session,
                   opened |-> j.opened, rows |-> index.symbols, bytes |-> j.bytes]
<1>1. j \in Working /\ j.at = "query" /\ UNCHANGED <<disk, index, meta, file>>
  BY AtWorks DEF QuerySymbols, Steps, store
<1>2. JobInOrder(p)
  BY <1>1 DEF JobsInOrder
<1>3. CASE index.symbols = None
  BY <1>1, <1>3, FinishKeeps DEF QuerySymbols, StoresTyped
<1>4. CASE index.symbols # None
  <2>1. job' = [job EXCEPT ![p] = new]
    <3>1. job' = [job EXCEPT ![p] = [[j EXCEPT !.at = "answered"] EXCEPT !.rows = index.symbols]]
      BY <1>4 DEF QuerySymbols, JobsTyped
    <3>2. [j EXCEPT !.at = "answered"] = mid
      BY <1>1 DEF Working
    <3>3. [mid EXCEPT !.rows = index.symbols] = new
      OBVIOUS
    <3> HIDE DEF new, j, mid
    <3> QED
      BY <3>1, <3>2, <3>3
  <2>2. new \in Working
    <3>1. index.symbols \in Rows \cup {None}
      BY DEF StoresTyped
    <3> QED
      BY <1>1, <3>1 DEF Working, Steps
  <2>3. job'[p] = new
    BY <2>1 DEF JobsTyped
  <2>4. JobInOrder(p)'
    <3>1. /\ new.at = "answered" /\ new.session = j.session /\ new.opened = j.opened
          /\ new.rows = [inventory |-> j.session, bytes |-> j.session]
      BY <1>1, <1>2, <1>4 DEF JobInOrder
    <3> HIDE DEF new
    <3> QED
      BY <1>1, <1>2, <2>3, <3>1 DEF JobInOrder, Projects
  <2>5. JobsTyped' /\ JobsInOrder'
    BY <2>1, <2>2, <2>4, OneWorks
  <2>6. StoresTyped' /\ IndexInOrder'
    BY <1>1 DEF StoresTyped, IndexInOrder
  <2> QED
    BY <2>5, <2>6
<1> QED
  BY <1>3, <1>4

-----------------------------------------------------------------------------
\* A step of a command about images that only moves on.
LEMMA GotoKeeps ==
  ASSUME IInv, OneAtATime, NEW p \in Procs, job[p] \in Working, job[p].at \in Projects,
         NEW step \in Projects, Goto(p, step), UNCHANGED <<disk, index>>,
         meta' \in Versions \cup {None}, file' \in [Images -> Versions \cup {None}]
  PROVE  IInv'
<1>1. step \in Steps
  BY DEF Projects, Steps
<1>2. PICK new \in Working :
        /\ job' = [job EXCEPT ![p] = new] /\ new.at = step
        /\ new.session = job[p].session /\ new.opened = job[p].opened
        /\ new.command = job[p].command
  BY <1>1, GoesOn DEF IInv
<1> QED
  BY <1>2, ProjectKeeps

\* The stored image, or a reconstruction.
LEMMA DigestKeeps ==
  ASSUME IInv, OneAtATime, NEW p \in Procs, ReadDigest(p)
  PROVE  IInv'
<1> USE DEF IInv
<1>1. job[p] \in Working /\ job[p].at = "project" /\ UNCHANGED <<disk, index, meta, file>>
  BY AtWorks DEF ReadDigest, Steps, store
<1>2. PICK step \in Projects : Goto(p, step)
  BY DEF ReadDigest, Projects
<1> QED
  BY <1>1, <1>2, GotoKeeps DEF StoresTyped, Projects

LEMMA ReadKeeps ==
  ASSUME IInv, OneAtATime, NEW p \in Procs, ReadProjection(p)
  PROVE  IInv'
<1> USE DEF IInv
<1> DEFINE j == job[p]
           bytes == file[j.command.image]
           mid == [at |-> "served", command |-> j.command, session |-> j.session,
                   opened |-> j.opened, rows |-> j.rows, bytes |-> j.bytes]
           new == [at |-> "served", command |-> j.command, session |-> j.session,
                   opened |-> j.opened, rows |-> j.rows, bytes |-> bytes]
<1>1. j \in Working /\ j.at = "stored" /\ UNCHANGED <<disk, index, meta, file>>
  BY AtWorks DEF ReadProjection, Steps, store
<1>2. CASE bytes = None
  BY <1>1, <1>2, GotoKeeps DEF ReadProjection, StoresTyped, Projects
<1>3. CASE bytes # None
  <2>1. job' = [job EXCEPT ![p] = new]
    <3>1. job' = [job EXCEPT ![p] = [[j EXCEPT !.at = "served"] EXCEPT !.bytes = bytes]]
      BY <1>3 DEF ReadProjection, JobsTyped
    <3>2. [j EXCEPT !.at = "served"] = mid
      BY <1>1 DEF Working
    <3>3. [mid EXCEPT !.bytes = bytes] = new
      OBVIOUS
    <3> HIDE DEF new, j, mid, bytes
    <3> QED
      BY <3>1, <3>2, <3>3
  <2>2. bytes \in Versions \cup {None}
    <3>1. j.command.image \in Images
      BY <1>1 DEF JobsInOrder, JobInOrder, Projects
    <3> QED
      BY <3>1 DEF StoresTyped
  <2>3. new \in Working
    BY <1>1, <2>2 DEF Working, Steps
  <2>4. /\ new.at \in Projects /\ new.session = j.session /\ new.opened = j.opened
        /\ new.command = j.command
    BY DEF Projects
  <2> HIDE DEF new
  <2> QED
    BY <1>1, <2>1, <2>3, <2>4, ProjectKeeps DEF StoresTyped, Projects
<1> QED
  BY <1>2, <1>3

LEMMA ReconstructKeeps ==
  ASSUME IInv, OneAtATime, NEW p \in Procs, Reconstruct(p)
  PROVE  IInv'
<1> USE DEF IInv
<1> DEFINE j == job[p]
           mid == [at |-> "write", command |-> j.command, session |-> j.session,
                   opened |-> j.opened, rows |-> j.rows, bytes |-> j.bytes]
           new == [at |-> "write", command |-> j.command, session |-> j.session,
                   opened |-> j.opened, rows |-> j.rows, bytes |-> disk]
<1>1. j \in Working /\ j.at = "reconstruct" /\ UNCHANGED <<disk, index, meta, file>>
  BY AtWorks DEF Reconstruct, Steps, store
<1>2. job' = [job EXCEPT ![p] = new]
  <2>1. job' = [job EXCEPT ![p] = [[j EXCEPT !.at = "write"] EXCEPT !.bytes = disk]]
    BY DEF Reconstruct, JobsTyped
  <2>2. [j EXCEPT !.at = "write"] = mid
    BY <1>1 DEF Working
  <2>3. [mid EXCEPT !.bytes = disk] = new
    OBVIOUS
  <2> HIDE DEF new, j, mid
  <2> QED
    BY <2>1, <2>2, <2>3
<1>3. new \in Working
  <2>1. disk \in Versions
    BY DEF StoresTyped
  <2> QED
    BY <1>1, <2>1 DEF Working, Steps
<1>4. /\ new.at \in Projects /\ new.session = j.session /\ new.opened = j.opened
        /\ new.command = j.command
  BY DEF Projects
<1> HIDE DEF new
<1> QED
  BY <1>1, <1>2, <1>3, <1>4, ProjectKeeps DEF StoresTyped, Projects

\* The image store's files and digest.
LEMMA StoreKeeps ==
  ASSUME IInv, OneAtATime, NEW p \in Procs, StoreImage(p)
  PROVE  IInv'
<1> USE DEF IInv
<1>1. job[p] \in Working /\ job[p].at = "write" /\ UNCHANGED <<disk, index, meta>>
  BY AtWorks DEF StoreImage, Steps
<1>2. meta' \in Versions \cup {None}
  BY <1>1 DEF StoresTyped
<1>3. ASSUME file' = [file EXCEPT ![job[p].command.image] = job[p].bytes], Goto(p, "meta")
      PROVE  IInv'
  <2>1. job[p].bytes \in Versions \cup {None}
    BY <1>1 DEF Working
  <2>2. file' \in [Images -> Versions \cup {None}]
    BY <1>3, <2>1 DEF StoresTyped
  <2> QED
    BY <1>1, <1>2, <1>3, <2>2, GotoKeeps DEF Projects
<1>4. ASSUME UNCHANGED file, Finish(p) PROVE IInv'
  BY <1>1, <1>2, <1>4, FinishKeeps DEF StoresTyped
<1> QED
  BY <1>3, <1>4 DEF StoreImage

LEMMA MetaKeeps ==
  ASSUME IInv, OneAtATime, NEW p \in Procs, WriteMeta(p)
  PROVE  IInv'
<1> USE DEF IInv
<1>1. job[p] \in Working /\ UNCHANGED <<disk, index, file>> /\ Finish(p) /\ meta' = job[p].session
  BY AtWorks DEF WriteMeta, Steps
<1>2. meta' \in Versions \cup {None}
  BY <1>1 DEF Working
<1> QED
  BY <1>1, <1>2, FinishKeeps DEF StoresTyped

LEMMA EndKeeps ==
  ASSUME IInv, OneAtATime, NEW p \in Procs, Ends(p)
  PROVE  IInv'
BY FinishKeeps DEF IInv, StoresTyped, Ends, store

\* Nothing happens.
LEMMA StutterKeeps == ASSUME IInv, UNCHANGED vars PROVE IInv'
<1>1. StoresTyped' /\ JobsTyped' /\ IndexInOrder'
  BY DEF IInv, vars, StoresTyped, JobsTyped, IndexInOrder
<1>2. JobsInOrder'
  BY DEF IInv, vars, JobsInOrder, JobInOrder
<1> QED
  BY <1>1, <1>2 DEF IInv

LEMMA StepInvariant ==
  ASSUME OneAtATime, UpgradesShow, IInv, [Next]_vars
  PROVE  IInv'
<1>1. CASE Upgrade
  BY <1>1, UpgradeKeeps
<1>2. ASSUME NEW p \in Procs, NEW c \in Commands, Inspect(p, c) PROVE IInv'
  BY <1>2, InspectKeeps
<1>3. ASSUME NEW p \in Procs, LoadInventory(p) PROVE IInv'
  BY <1>3, LoadKeeps
<1>4. ASSUME NEW p \in Procs, BuildIndex(p) PROVE IInv'
  BY <1>4, BuildKeeps
<1>5. ASSUME NEW p \in Procs, SymbolRows(p) PROVE IInv'
  BY <1>5, RowsKeep
<1>6. ASSUME NEW p \in Procs, BuildSymbolIndex(p) PROVE IInv'
  BY <1>6, CommitKeeps
<1>7. ASSUME NEW p \in Procs, RequireFreshSymbolIndex(p) PROVE IInv'
  BY <1>7, RequireKeeps
<1>8. ASSUME NEW p \in Procs, QuerySymbols(p) PROVE IInv'
  BY <1>8, QueryKeeps
<1>9. ASSUME NEW p \in Procs, ReadDigest(p) \/ ReadProjection(p) \/ Reconstruct(p) PROVE IInv'
  BY <1>9, DigestKeeps, ReadKeeps, ReconstructKeeps
<1>10. ASSUME NEW p \in Procs, StoreImage(p) \/ WriteMeta(p) \/ Ends(p) PROVE IInv'
  BY <1>10, StoreKeeps, MetaKeeps, EndKeeps
<1>11. CASE UNCHANGED vars
  BY <1>11, StutterKeeps
<1> QED
  BY <1>1, <1>2, <1>3, <1>4, <1>5, <1>6, <1>7, <1>8, <1>9, <1>10, <1>11 DEF Next

-----------------------------------------------------------------------------
\* The order makes the index and every session one of a single cache.
LEMMA OrderMeansOne == ASSUME IInv PROVE IndexIsOfOneCache
<1> USE DEF IInv
<1>1. TypeOK
  BY DEF TypeOK, StoresTyped, JobsTyped, Working
<1>2. SymbolsOfInventory
  BY DEF SymbolsOfInventory, IndexInOrder
<1>3. SessionOfFiles
  <2> SUFFICES ASSUME NEW p \in Procs, job[p] # Idle, job[p].session # None
               PROVE  job[p].session = job[p].opened
    BY DEF SessionOfFiles
  <2>1. job[p] \in Working
    BY DEF JobsTyped
  <2> QED
    BY <2>1 DEF JobsInOrder, JobInOrder
<1> QED
  BY <1>1, <1>2, <1>3 DEF IndexIsOfOneCache

LEMMA OrderMatches == ASSUME IInv PROVE LookupMatchesSession
<1> SUFFICES ASSUME NEW p \in Procs, At(p, "answered")
             PROVE  job[p].rows = [inventory |-> job[p].session, bytes |-> job[p].session]
  BY DEF LookupMatchesSession
<1>1. job[p] \in Working /\ job[p].at = "answered"
  BY AtWorks DEF IInv, Steps
<1> QED
  BY <1>1 DEF IInv, JobsInOrder, JobInOrder

LEMMA InvariantHolds == ASSUME OneAtATime, UpgradesShow PROVE Spec => []IInv
<1>1. IInv /\ [Next]_vars => IInv'
  BY StepInvariant
<1> QED
  BY <1>1, InitInvariant, PTL DEF Spec

\* If one command works at a time and every upgrade shows in a size, the rows of
\* the index are those of its inventory and every session is of the files as they
\* were when it was opened (build_index, try_load_fresh), for any number of
\* versions and images.
THEOREM IndexCorrect == ASSUME OneAtATime, UpgradesShow PROVE Spec => []IndexIsOfOneCache
<1>1. IInv => IndexIsOfOneCache
  BY OrderMeansOne
<1> QED
  BY <1>1, InvariantHolds, PTL

\* Under the same assumptions a symbol lookup answers with rows of the cache of
\* its session, although the files may be replaced between its steps and the query
\* opens the index again (require_fresh_symbol_index, query_symbols_by_name).
THEOREM LookupsMatch == ASSUME OneAtATime, UpgradesShow PROVE Spec => []LookupMatchesSession
<1>1. IInv => LookupMatchesSession
  BY OrderMatches
<1> QED
  BY <1>1, InvariantHolds, PTL

-----------------------------------------------------------------------------
(* The stored images.  Files, digest and sessions are ordered: some stored *)
(* image is at least as new as the cache the digest describes, since one   *)
(* is written before the digest is, and a session that may read the files  *)
(* is at least as new as every one of them.                                *)

StoreInOrder ==
  /\ meta # None => \E k \in Images : file[k] # None /\ meta <= file[k]
  /\ \A i \in Images : file[i] # None => file[i] <= disk

\* Some image lies in the store that is of version v or newer, other than those in E.
NewerThan(v, E) == \E k \in Images \ E : file[k] # None /\ file[k] >= v

JobStores(p) ==
  /\ job[p].at \in {"inventory", "project", "stored"} =>
       \A i \in Images : file[i] # None => file[i] <= job[p].opened
  /\ job[p].at = "stored" => meta = job[p].session
  /\ job[p].at = "served" /\ job[p].bytes # job[p].session =>
       job[p].bytes < job[p].session /\ NewerThan(job[p].session, {job[p].command.image})
  /\ job[p].at = "write" => /\ job[p].bytes \in Versions
                            /\ job[p].session <= job[p].bytes /\ job[p].bytes <= disk
                            /\ meta # None => meta <= job[p].bytes
  /\ job[p].at = "meta" => \E k \in Images : file[k] # None /\ job[p].session <= file[k]

JobsStore == \A p \in Procs : job[p] \in Working => JobStores(p)

Stored == StoreInOrder /\ JobsStore

\* None is not compared with a version, and the versions in the store are numbers.
LEMMA StoresAreNumbers ==
  ASSUME StoresTyped
  PROVE  /\ disk \in Nat
         /\ meta # None => meta \in Nat
         /\ \A i \in Images : file[i] # None => file[i] \in Nat
BY Versioned DEF StoresTyped

\* So are those of a command that works.
LEMMA JobsAreNumbers ==
  ASSUME IInv, NEW p \in Procs, job[p] \in Working
  PROVE  /\ job[p].opened \in Nat /\ job[p].opened <= disk
         /\ job[p].at # "inventory" =>
              job[p].session = job[p].opened /\ job[p].session # None
         /\ job[p].bytes \in Versions => job[p].bytes \in Nat
<1>1. JobInOrder(p) /\ job[p].opened \in Versions
  BY DEF IInv, JobsInOrder, Working
<1> QED
  BY <1>1, Versioned DEF JobInOrder

\* With one process at a time, the step of a command is about that one only.
LEMMA OneStores ==
  ASSUME OneAtATime, NEW p \in Procs, job'[p] \in Working => JobStores(p)'
  PROVE  JobsStore'
BY DEF OneAtATime, JobsStore

\* A step that leaves the image store alone, by which the command comes to no
\* step about the store's files.
LEMMA ElsewhereStores ==
  ASSUME Stored, OneAtATime, NEW p \in Procs, UNCHANGED <<disk, meta, file>>,
         job'[p] \in Working =>
           job'[p].at \notin {"inventory", "project", "stored", "served", "write", "meta"}
  PROVE  Stored'
<1>1. StoreInOrder'
  BY DEF Stored, StoreInOrder
<1>2. job'[p] \in Working => JobStores(p)'
  BY DEF JobStores
<1> QED
  BY <1>1, <1>2, OneStores DEF Stored

\* An upgrade makes the files newer than all else.
LEMMA UpgradeStores == ASSUME IInv, Stored, Upgrade PROVE Stored'
<1>1. disk' = disk + 1 /\ UNCHANGED <<index, meta, file, job>>
  BY DEF Upgrade, store
<1>2. disk \in Nat /\ \A i \in Images : file[i] # None => file[i] \in Nat
  BY StoresAreNumbers DEF IInv
<1>3. StoreInOrder'
  BY <1>1, <1>2 DEF Stored, StoreInOrder
<1>4. ASSUME NEW p \in Procs, job[p] \in Working PROVE JobStores(p)'
  <2>1. JobStores(p) /\ (job[p].bytes \in Versions => job[p].bytes \in Nat)
    BY <1>4, JobsAreNumbers DEF Stored, JobsStore
  <2> QED
    BY <1>1, <1>2, <2>1 DEF JobStores, NewerThan
<1> QED
  BY <1>1, <1>3, <1>4 DEF Stored, JobsStore

\* A session that is opened is as new as the files.
LEMMA OpenStores ==
  ASSUME IInv, Stored, OneAtATime, NEW p \in Procs,
         LoadInventory(p) \/ \E c \in Commands : Inspect(p, c)
  PROVE  Stored'
<1>1. UNCHANGED <<disk, meta, file>> /\ StoreInOrder'
  BY DEF LoadInventory, Inspect, store, Stored, StoreInOrder
<1>2. CASE \E c \in Commands : Inspect(p, c)
  <2>1. PICK c \in Commands : Inspect(p, c)
    BY <1>2
  <2>2. c.name \in {"index", "symbols", "lookup", "project"}
    BY ProjectOfImage
  <2>3. job'[p] = IF Fresh THEN Session("inventory", c, None) ELSE Session(c.name, c, disk)
    BY <2>1 DEF Inspect, IInv, JobsTyped
  <2>4. job'[p].opened = disk /\ job'[p].at \in {"inventory", "index", "symbols", "lookup", "project"}
    BY <2>2, <2>3 DEF Session
  <2>5. JobStores(p)'
    BY <1>1, <2>4 DEF JobStores, Stored, StoreInOrder
  <2> QED
    BY <1>1, <2>5, OneStores DEF Stored
<1>3. CASE LoadInventory(p)
  <2>1. job[p] \in Working /\ job[p].at = "inventory"
    BY <1>3, AtWorks DEF LoadInventory, Steps, IInv
  <2>2. job[p].command.name \in {"index", "symbols", "lookup", "project"}
    BY <2>1, ProjectOfImage DEF Working
  <2>3. job'[p] = [[job[p] EXCEPT !.at = job[p].command.name] EXCEPT !.session = index.inventory]
    BY <1>3 DEF LoadInventory, IInv, JobsTyped
  <2>4. job'[p].at = job[p].command.name /\ job'[p].opened = job[p].opened
    BY <2>1, <2>3 DEF Working
  <2>5. JobStores(p)'
    BY <1>1, <2>1, <2>2, <2>4 DEF JobStores, Stored, JobsStore
  <2> QED
    BY <1>1, <2>5, OneStores DEF Stored
<1> QED
  BY <1>2, <1>3

\* The steps of the index and of the lookups are not about images.
LEMMA IndexStores ==
  ASSUME IInv, Stored, OneAtATime, NEW p \in Procs,
         \/ BuildIndex(p) \/ SymbolRows(p) \/ BuildSymbolIndex(p)
         \/ RequireFreshSymbolIndex(p) \/ QuerySymbols(p) \/ Ends(p)
  PROVE  Stored'
<1>1. UNCHANGED <<disk, meta, file>>
  BY DEF BuildIndex, SymbolRows, BuildSymbolIndex, RequireFreshSymbolIndex, QuerySymbols, Ends, store
<1>2. Finish(p) => job'[p] \notin Working
  BY IdleDoesNot DEF Finish, IInv, JobsTyped
<1>3. ASSUME ~Finish(p)
      PROVE  job'[p].at \in {"rows", "commit", "query", "answered"}
  <2>1. \E step \in {"index", "symbols", "rows", "lookup", "query"} : At(p, step)
    BY <1>3 DEF BuildIndex, SymbolRows, BuildSymbolIndex, RequireFreshSymbolIndex, QuerySymbols, Ends
  <2>2. job[p] \in Working
    BY <2>1, AtWorks DEF IInv, Steps
  <2>3. CASE BuildIndex(p) \/ RequireFreshSymbolIndex(p)
    <3>1. job'[p] = [job[p] EXCEPT !.at = "rows"] \/ job'[p] = [job[p] EXCEPT !.at = "query"]
      BY <1>3, <2>3 DEF BuildIndex, RequireFreshSymbolIndex, Goto, IInv, JobsTyped
    <3> QED
      BY <2>2, <3>1 DEF Working
  <2>4. CASE SymbolRows(p)
    <3>1. job'[p] = [[job[p] EXCEPT !.at = "commit"]
                       EXCEPT !.rows = [inventory |-> job[p].session, bytes |-> disk]]
      BY <2>4 DEF SymbolRows, IInv, JobsTyped
    <3> QED
      BY <2>2, <3>1 DEF Working
  <2>5. CASE QuerySymbols(p)
    <3>1. job'[p] = [[job[p] EXCEPT !.at = "answered"] EXCEPT !.rows = index.symbols]
      BY <1>3, <2>5 DEF QuerySymbols, IInv, JobsTyped
    <3> QED
      BY <2>2, <3>1 DEF Working
  <2> QED
    BY <1>3, <2>3, <2>4, <2>5 DEF BuildSymbolIndex, Ends
<1> QED
  BY <1>1, <1>2, <1>3, ElsewhereStores

\* The stored image is read when the digest describes the session: then it is as new
\* as the session, or older and the digest was written after another one.
LEMMA StoredIsOlder ==
  ASSUME IInv, Stored, NEW p \in Procs, job[p] \in Working, job[p].at = "stored",
         NEW i \in Images, file[i] # None, file[i] # job[p].session
  PROVE  file[i] < job[p].session /\ NewerThan(job[p].session, {i})
<1>1. /\ meta = job[p].session /\ file[i] <= job[p].opened
      /\ job[p].session = job[p].opened /\ job[p].session # None
  BY JobsAreNumbers DEF Stored, JobsStore, JobStores
<1>2. PICK k \in Images : file[k] # None /\ meta <= file[k]
  BY <1>1 DEF Stored, StoreInOrder
<1>3. file[i] \in Nat /\ file[k] \in Nat /\ job[p].opened \in Nat
  BY <1>2, JobsAreNumbers, StoresAreNumbers DEF IInv
<1>4. file[i] < job[p].session /\ file[k] >= job[p].session
  BY <1>1, <1>2, <1>3
<1>5. k # i
  BY <1>1, <1>3, <1>4
<1> QED
  BY <1>2, <1>4, <1>5 DEF NewerThan

\* The digest is compared, and the stored image read.
LEMMA ServeStores ==
  ASSUME IInv, Stored, OneAtATime, NEW p \in Procs, ReadDigest(p) \/ ReadProjection(p)
  PROVE  Stored'
<1>1. UNCHANGED <<disk, meta, file>> /\ StoreInOrder'
  BY DEF ReadDigest, ReadProjection, store, Stored, StoreInOrder
<1>2. CASE ReadDigest(p)
  <2>1. job[p] \in Working /\ job[p].at = "project"
    BY <1>2, AtWorks DEF ReadDigest, Steps, IInv
  <2>2. job'[p] = [job[p] EXCEPT !.at = IF meta = job[p].session THEN "stored" ELSE "reconstruct"]
    BY <1>2 DEF ReadDigest, DigestMatches, Goto, IInv, JobsTyped
  <2>3. /\ job'[p].at = IF meta = job[p].session THEN "stored" ELSE "reconstruct"
        /\ job'[p].opened = job[p].opened /\ job'[p].session = job[p].session
    BY <2>1, <2>2 DEF Working
  <2>4. JobStores(p)'
    BY <1>1, <2>1, <2>3 DEF JobStores, Stored, JobsStore
  <2> QED
    BY <1>1, <2>4, OneStores DEF Stored
<1>3. CASE ReadProjection(p)
  <2>1. job[p] \in Working /\ job[p].at = "stored"
    BY <1>3, AtWorks DEF ReadProjection, Steps, IInv
  <2>2. PICK i \in Images : i = job[p].command.image
    BY <2>1 DEF IInv, JobsInOrder, JobInOrder, Projects
  <2>3. CASE file[i] = None
    <3>1. job'[p] = [job[p] EXCEPT !.at = "reconstruct"]
      BY <1>3, <2>2, <2>3 DEF ReadProjection, Goto, IInv, JobsTyped
    <3>2. job'[p].at = "reconstruct"
      BY <2>1, <3>1 DEF Working
    <3> QED
      BY <1>1, <3>2, ElsewhereStores
  <2>4. CASE file[i] # None
    <3>1. job'[p] = [[job[p] EXCEPT !.at = "served"] EXCEPT !.bytes = file[i]]
      BY <1>3, <2>2, <2>4 DEF ReadProjection, IInv, JobsTyped
    <3>2. /\ job'[p].at = "served" /\ job'[p].bytes = file[i]
          /\ job'[p].session = job[p].session /\ job'[p].command = job[p].command
      BY <2>1, <3>1 DEF Working
    <3>3. file[i] # job[p].session => file[i] < job[p].session /\ NewerThan(job[p].session, {i})
      BY <2>1, <2>4, StoredIsOlder
    <3>4. JobStores(p)'
      BY <1>1, <2>2, <3>2, <3>3 DEF JobStores, NewerThan
    <3> QED
      BY <1>1, <3>4, OneStores DEF Stored
  <2> QED
    BY <2>3, <2>4
<1> QED
  BY <1>2, <1>3

\* What is reconstructed is of the files of this moment, which are at least as
\* new as the session.
LEMMA ReconstructStores ==
  ASSUME IInv, Stored, OneAtATime, NEW p \in Procs, Reconstruct(p)
  PROVE  Stored'
<1>1. UNCHANGED <<disk, meta, file>> /\ StoreInOrder'
  BY DEF Reconstruct, store, Stored, StoreInOrder
<1>2. job[p] \in Working /\ job[p].at = "reconstruct"
  BY AtWorks DEF Reconstruct, Steps, IInv
<1>3. job'[p] = [[job[p] EXCEPT !.at = "write"] EXCEPT !.bytes = disk]
  BY DEF Reconstruct, IInv, JobsTyped
<1>4. job'[p].at = "write" /\ job'[p].bytes = disk /\ job'[p].session = job[p].session
  BY <1>2, <1>3 DEF Working
<1>5. disk \in Versions /\ disk \in Nat /\ job[p].session \in Nat /\ job[p].session <= disk
  BY <1>2, JobsAreNumbers, StoresAreNumbers DEF IInv, StoresTyped
<1>6. meta # None => meta <= disk
  <2> SUFFICES ASSUME meta # None PROVE meta <= disk
    OBVIOUS
  <2>1. PICK k \in Images : file[k] # None /\ meta <= file[k] /\ file[k] <= disk
    BY DEF Stored, StoreInOrder
  <2>2. meta \in Nat /\ file[k] \in Nat
    BY <2>1, StoresAreNumbers DEF IInv
  <2> QED
    BY <1>5, <2>1, <2>2
<1>7. JobStores(p)'
  BY <1>1, <1>4, <1>5, <1>6 DEF JobStores
<1> QED
  BY <1>1, <1>7, OneStores DEF Stored

\* The file that is written is at least as new as the digest, which describes
\* an older session until it is written itself.
LEMMA WriteStores ==
  ASSUME IInv, Stored, OneAtATime, NEW p \in Procs, StoreImage(p) \/ WriteMeta(p)
  PROVE  Stored'
<1>1. CASE StoreImage(p)
  <2>1. job[p] \in Working /\ job[p].at = "write" /\ UNCHANGED <<disk, meta>>
    BY <1>1, AtWorks DEF StoreImage, Steps, IInv
  <2>2. PICK i \in Images : i = job[p].command.image
    BY <2>1 DEF IInv, JobsInOrder, JobInOrder, Projects
  <2>3. /\ job[p].bytes \in Versions /\ job[p].bytes # None
        /\ job[p].session <= job[p].bytes /\ job[p].bytes <= disk
        /\ meta # None => meta <= job[p].bytes
    BY <2>1, Versioned DEF Stored, JobsStore, JobStores
  <2>4. CASE file' = [file EXCEPT ![i] = job[p].bytes] /\ Goto(p, "meta")
    <3>1. file'[i] = job[p].bytes /\ \A k \in Images \ {i} : file'[k] = file[k]
      BY <2>4 DEF IInv, StoresTyped
    <3>2. StoreInOrder'
      BY <2>1, <2>3, <3>1 DEF Stored, StoreInOrder
    <3>3. job'[p] = [job[p] EXCEPT !.at = "meta"]
      BY <2>4 DEF Goto, IInv, JobsTyped
    <3>4. job'[p].at = "meta" /\ job'[p].session = job[p].session
      BY <2>1, <3>3 DEF Working
    <3>5. JobStores(p)'
      BY <2>3, <3>1, <3>4 DEF JobStores
    <3> QED
      BY <3>2, <3>5, OneStores DEF Stored
  <2>5. CASE UNCHANGED file /\ Finish(p)
    <3>1. job'[p] \notin Working
      BY <2>5, IdleDoesNot DEF Finish, IInv, JobsTyped
    <3> QED
      BY <2>1, <2>5, <3>1, ElsewhereStores
  <2> QED
    BY <1>1, <2>2, <2>4, <2>5 DEF StoreImage
<1>2. CASE WriteMeta(p)
  <2>1. /\ job[p] \in Working /\ job[p].at = "meta" /\ UNCHANGED <<disk, file>>
        /\ meta' = job[p].session /\ Finish(p)
    BY <1>2, AtWorks DEF WriteMeta, Steps, IInv
  <2>2. StoreInOrder'
    BY <2>1 DEF Stored, JobsStore, JobStores, StoreInOrder
  <2>3. job'[p] \notin Working
    BY <2>1, IdleDoesNot DEF Finish, IInv, JobsTyped
  <2> QED
    BY <2>2, <2>3, OneStores DEF Stored
<1> QED
  BY <1>1, <1>2

\* Every step keeps the order of the image store.
LEMMA StepStores ==
  ASSUME OneAtATime, IInv, Stored, [Next]_vars
  PROVE  Stored'
<1>1. CASE Upgrade
  BY <1>1, UpgradeStores
<1>2. ASSUME NEW p \in Procs, LoadInventory(p) \/ \E c \in Commands : Inspect(p, c)
      PROVE  Stored'
  BY <1>2, OpenStores
<1>3. ASSUME NEW p \in Procs,
             \/ BuildIndex(p) \/ SymbolRows(p) \/ BuildSymbolIndex(p)
             \/ RequireFreshSymbolIndex(p) \/ QuerySymbols(p) \/ Ends(p)
      PROVE  Stored'
  BY <1>3, IndexStores
<1>4. ASSUME NEW p \in Procs, ReadDigest(p) \/ ReadProjection(p) \/ Reconstruct(p)
      PROVE  Stored'
  BY <1>4, ServeStores, ReconstructStores
<1>5. ASSUME NEW p \in Procs, StoreImage(p) \/ WriteMeta(p) PROVE Stored'
  BY <1>5, WriteStores
<1>6. CASE UNCHANGED vars
  BY <1>6 DEF vars, store, Stored, StoreInOrder, JobsStore, JobStores, NewerThan
<1> QED
  BY <1>1, <1>2, <1>3, <1>4, <1>5, <1>6 DEF Next

\* If one command works at a time and every upgrade shows in a size, an image served
\* from the store, of however many, is the session's or an older one, and an older one
\* only where another image was stored since, although the file and the digest are
\* written one after the other and the cache may be replaced in between: the digest
\* of the directory is all that can be wrong (project_real_image, write_projection).
THEOREM StoredImagesAge ==
  ASSUME OneAtATime, UpgradesShow
  PROVE  Spec => []StaleOnlyBesideNewer
<1>1. Init => Stored
  BY IdleDoesNot DEF Init, Stored, StoreInOrder, JobsStore
<1>2. IInv /\ Stored /\ [Next]_vars => Stored'
  BY StepStores
<1>3. IInv /\ Stored => StaleOnlyBesideNewer
  <2> SUFFICES ASSUME IInv, Stored, NEW p \in Procs, At(p, "served"), job[p].bytes # job[p].session
               PROVE  /\ job[p].bytes < job[p].session
                      /\ NewerThan(job[p].session, {job[p].command.image})
    BY DEF StaleOnlyBesideNewer, NewerThan
  <2>1. job[p] \in Working /\ job[p].at = "served"
    BY AtWorks DEF IInv, Steps
  <2> QED
    BY <2>1 DEF Stored, JobsStore, JobStores
<1> QED
  BY <1>1, <1>2, <1>3, InvariantHolds, PTL DEF Spec
=============================================================================
