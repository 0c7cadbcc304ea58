----------------------------- MODULE ServerLaunch ---------------------------
(***************************************************************************)
(* The damsel child process behind the Workbench: the start() calls of     *)
(* DamselServerProcess, the coordinator by which the readiness banner, the *)
(* end of the child and a timeout race to answer one continuation, the     *)
(* bootstrap of WorkbenchStore that shares one start among its callers,    *)
(* and the shutdown when the app quits.                                    *)
(*                                                                         *)
(* The store is on the main actor: its steps are atomic between awaits.    *)
(* start() is not, so its steps interleave with the store's and with       *)
(* those of another start().  DAMSEL_UI_BASE_URL, which replaces the child *)
(* by a server of the developer's, is left out.                            *)
(***************************************************************************)
EXTENDS Naturals, FiniteSets

CONSTANTS Calls,   \* callers of bootstrap(); one may call again later
          Starts,  \* the start() calls there can be, and their children
          None

ASSUME NoneAssumption == None \notin Starts

VARIABLES client,    \* the store's client: the child whose URL it has
          task,      \* bootstrapTask
          awaits,    \* the start each bootstrap() call awaits
          pc,        \* where each start() is
          child,     \* the child process each start() ran
          printed,   \* children that wrote their URL to stdout
          answer,    \* what the coordinator resumed the continuation with
          resumed,   \* how often it resumed it
          url,       \* what start() returned
          process,   \* DamselServerProcess.process
          readyURL,  \* DamselServerProcess.readyURL
          app,       \* the app is up, in applicationWillTerminate, or gone
          raced      \* starts that overlapped another or a stop (history)

store == <<client, task, awaits>>
server == <<process, readyURL>>
vars == <<store, pc, child, printed, answer, resumed, url, server, app, raced>>

Running(s) == child[s] \in {"live", "told"}
ServerKnown == IF readyURL = None \/ process = None THEN FALSE ELSE Running(process)
InFlight == {s \in Starts : pc[s] \in {"begun", "ran", "waiting"}}
Over(s) == pc[s] \in {"ok", "failed"}
Terminate(s) == IF child[s] = "live" THEN [child EXCEPT ![s] = "told"] ELSE child

Init ==
  /\ client = None /\ task = None
  /\ awaits = [c \in Calls |-> None]
  /\ pc = [s \in Starts |-> "unused"]
  /\ child = [s \in Starts |-> "none"]
  /\ printed = {} /\ raced = {}
  /\ answer = [s \in Starts |-> "none"]
  /\ resumed = [s \in Starts |-> 0]
  /\ url = [s \in Starts |-> None]
  /\ process = None /\ readyURL = None
  /\ app = "up"
-----------------------------------------------------------------------------
(* WorkbenchStore, on the main actor. *)

\* bootstrap() without a client joins the start under way or begins one.
Bootstrap(c) ==
  /\ app = "up" /\ awaits[c] = None /\ client = None
  /\ \/ /\ task # None
        /\ awaits' = [awaits EXCEPT ![c] = task]
        /\ UNCHANGED <<task, pc>>
     \/ /\ task = None
        /\ \E s \in Starts :
             /\ pc[s] = "unused"
             /\ task' = s
             /\ pc' = [pc EXCEPT ![s] = "begun"]
             /\ awaits' = [awaits EXCEPT ![c] = s]
  /\ UNCHANGED <<client, child, printed, answer, resumed, url, server, app, raced>>

\* Each caller of finishBootstrap takes the result and clears bootstrapTask,
\* the caller that wakes late the task of a newer start.
FinishBootstrap(c) ==
  /\ app = "up" /\ awaits[c] # None
  /\ Over(awaits[c])
  /\ client' = IF pc[awaits[c]] = "ok" THEN url[awaits[c]] ELSE client
  /\ task' = None
  /\ awaits' = [awaits EXCEPT ![c] = None]
  /\ UNCHANGED <<pc, child, printed, answer, resumed, url, server, app, raced>>

\* Mutant: stop() forgets the child without terminating it.
ForgetOnly == /\ process' = None /\ readyURL' = None /\ UNCHANGED child
\* DamselServerProcess.stop().
Stop ==
  IF process = None
  THEN UNCHANGED <<process, readyURL, child>>
  ELSE /\ process' = None
       /\ readyURL' = None
       /\ child' = Terminate(process)

\* applicationWillTerminate runs shutdown() and blocks the main thread.
Shutdown ==
  /\ app = "up"
  /\ app' = "quit"
  /\ task' = None /\ client' = None
  /\ Stop
  /\ raced' = raced \cup InFlight
  /\ UNCHANGED <<awaits, pc, printed, answer, resumed, url>>

Exit ==
  /\ app = "quit" /\ app' = "gone"
  /\ UNCHANGED <<store, pc, child, printed, answer, resumed, url, server, raced>>
-----------------------------------------------------------------------------
(* start(), off the main actor. *)

\* The child started earlier still runs and its URL is known.
Reuse(s) ==
  /\ app # "gone" /\ pc[s] = "begun"
  /\ ServerKnown
  /\ url' = [url EXCEPT ![s] = readyURL]
  /\ pc' = [pc EXCEPT ![s] = "ok"]
  /\ UNCHANGED <<store, child, printed, answer, resumed, server, app, raced>>

\* Otherwise it runs a child, which may be impossible.
Launch(s) ==
  /\ app # "gone" /\ pc[s] = "begun"
  /\ ~ServerKnown
  /\ \/ /\ pc' = [pc EXCEPT ![s] = "failed"]
        /\ UNCHANGED child
     \/ /\ pc' = [pc EXCEPT ![s] = "ran"]
        /\ child' = [child EXCEPT ![s] = "live"]
  /\ raced' = IF InFlight = {s} THEN raced ELSE raced \cup InFlight
  /\ UNCHANGED <<store, printed, answer, resumed, url, server, app>>

\* It remembers the child and installs the handlers and the timer.
Remember(s) ==
  /\ app # "gone" /\ pc[s] = "ran"
  /\ process' = s
  /\ pc' = [pc EXCEPT ![s] = "waiting"]
  /\ UNCHANGED <<store, child, printed, answer, resumed, url, readyURL, app, raced>>

StartFails(s) ==
  /\ pc' = [pc EXCEPT ![s] = "failed"]
  /\ child' = Terminate(s)
  /\ UNCHANGED <<url, readyURL>>

StartReturns(s) ==
  /\ app # "gone" /\ pc[s] = "waiting"
  /\ \/ /\ answer[s] = "ok"
        /\ readyURL' = s
        /\ url' = [url EXCEPT ![s] = s]
        /\ pc' = [pc EXCEPT ![s] = "ok"]
        /\ UNCHANGED child
     \/ /\ answer[s] = "failed"
        /\ StartFails(s)
  /\ UNCHANGED <<store, printed, answer, resumed, process, app, raced>>
-----------------------------------------------------------------------------
(* The coordinator.  finish() holds its lock and works once. *)

\* Mutant: finish without the completed flag.
FinishAlways(s, result) ==
  /\ answer' = [answer EXCEPT ![s] = result]
  /\ resumed' = [resumed EXCEPT ![s] = @ + 1]
Finish(s, result) ==
  IF answer[s] = "none"
  THEN /\ answer' = [answer EXCEPT ![s] = result]
       /\ resumed' = [resumed EXCEPT ![s] = 1]
  ELSE UNCHANGED <<answer, resumed>>

Handlers(s) == app # "gone" /\ pc[s] \notin {"unused", "begun", "ran"} /\ child[s] # "none"
CoordinatorKeeps == UNCHANGED <<store, pc, child, printed, url, server, app, raced>>

AppendStdout(s) ==
  /\ Handlers(s) /\ s \in printed /\ Finish(s, "ok") /\ CoordinatorKeeps

FailFromTermination(s) ==
  /\ Handlers(s) /\ child[s] = "ended" /\ Finish(s, "failed") /\ CoordinatorKeeps

\* Mutant: no timer is set.
NoTimeout(s) == FALSE
\* Ten seconds after the handlers were installed, whatever happened meanwhile.
FailFromTimeout(s) ==
  /\ Handlers(s) /\ Finish(s, "failed") /\ CoordinatorKeeps

(* The children.  They outlive the app. *)
ChildPrints(s) ==
  /\ child[s] = "live" /\ s \notin printed
  /\ printed' = printed \cup {s}
  /\ UNCHANGED <<store, pc, child, answer, resumed, url, server, app, raced>>

ChildEnds(s) ==
  /\ Running(s)
  /\ child' = [child EXCEPT ![s] = "ended"]
  /\ UNCHANGED <<store, pc, printed, answer, resumed, url, server, app, raced>>
-----------------------------------------------------------------------------
StartSteps(s) == Reuse(s) \/ Launch(s) \/ Remember(s) \/ StartReturns(s)

Next ==
  \/ \E c \in Calls : Bootstrap(c) \/ FinishBootstrap(c)
  \/ Shutdown \/ Exit
  \/ \E s \in Starts : \/ Reuse(s) \/ Launch(s) \/ Remember(s) \/ StartReturns(s)
                       \/ AppendStdout(s) \/ FailFromTermination(s) \/ FailFromTimeout(s)
                       \/ ChildPrints(s) \/ ChildEnds(s)

\* The executors run what is ready, and the timer of a dispatch queue fires.
\* Nothing is assumed of the child: it may stay silent for ever.
Fairness ==
  /\ \A c \in Calls : WF_vars(FinishBootstrap(c))
  /\ \A s \in Starts : WF_vars(StartSteps(s)) /\ WF_vars(FailFromTimeout(s))

Spec == Init /\ [][Next]_vars /\ Fairness
-----------------------------------------------------------------------------
TypeOK ==
  /\ client \in Starts \cup {None} /\ task \in Starts \cup {None}
  /\ awaits \in [Calls -> Starts \cup {None}]
  /\ pc \in [Starts -> {"unused", "begun", "ran", "waiting", "ok", "failed"}]
  /\ child \in [Starts -> {"none", "live", "told", "ended"}]
  /\ printed \subseteq Starts /\ raced \subseteq Starts
  /\ answer \in [Starts -> {"none", "ok", "failed"}]
  /\ resumed \in [Starts -> Nat]
  /\ url \in [Starts -> Starts \cup {None}]
  /\ \A s \in Starts : pc[s] = "ok" => url[s] # None
  /\ process \in Starts \cup {None} /\ readyURL \in Starts \cup {None}
  /\ app \in {"up", "quit", "gone"}

\* Banner, end of the child and timeout may all come, in any order; the
\* continuation is resumed at most once (a second resume traps), and once a
\* start is over after waiting it was resumed exactly once.
ResumedOnce ==
  \A s \in Starts : /\ resumed[s] <= 1
                    /\ Over(s) /\ child[s] # "none" => resumed[s] = 1

\* The URL the store holds, or a start may hand out again, is one a child
\* printed.
ClientOfPrintedBanner == {client, readyURL} \subseteq printed \cup {None}

\* A child that runs unasked although its start is over is the remembered one,
\* which a later start reuses and the shutdown stops, unless two starts ran at
\* once or the shutdown met a start under way.  So the app quits without
\* leaving a server behind, with the same exceptions.
Orphan(s) == child[s] = "live" /\ Over(s) /\ process # s
OrphansOnlyFromRaces == \A s \in Starts : Orphan(s) => s \in raced

\* While only one caller asks at a time there is one server at a time: a start
\* runs a child only when every earlier child has been told to end or ended.
OneServerWithoutRaces ==
  raced = {} => \A s, t \in Starts : child[s] = "live" /\ child[t] = "live" => s = t

\* Every caller of bootstrap() comes back, at the latest by the timeout, unless
\* the app quits.
BootstrapReturns ==
  \A c \in Calls : awaits[c] # None ~> awaits[c] = None \/ app # "up"

\* What a start hands out: its continuation is resumed once, with a URL a child
\* printed, and the store holds no other (finish, bootstrap).
StartsAnswerOnce == TypeOK /\ ResumedOnce /\ ClientOfPrintedBanner

\* No server is left behind or started twice but by starts that overlap (start,
\* stop, shutdown).
ServersAreOwned == OrphansOnlyFromRaces /\ OneServerWithoutRaces
=============================================================================
