------------------------- MODULE ServerLaunch_proofs ------------------------
(***************************************************************************)
(* What holds of the server process for any number of callers and starts,  *)
(* whatever the child prints and whenever it ends.                         *)
(*                                                                         *)
(* A child is owned as long as its start is the only one that has launched *)
(* and not returned, or it is the one remembered and its URL is known, so  *)
(* that no other start launches.                                           *)
(***************************************************************************)
EXTENDS ServerLaunch, TLAPS

Stages == {"unused", "begun", "ran", "waiting", "ok", "failed"}
MaybeStart == Starts \cup {None}

Typed ==
  /\ client \in MaybeStart /\ task \in MaybeStart
  /\ awaits \in [Calls -> MaybeStart]
  /\ pc \in [Starts -> Stages]
  /\ child \in [Starts -> {"none", "live", "told", "ended"}]
  /\ printed \subseteq Starts /\ raced \subseteq Starts
  /\ answer \in [Starts -> {"none", "ok", "failed"}]
  /\ resumed \in [Starts -> Nat]
  /\ url \in [Starts -> MaybeStart]
  /\ process \in MaybeStart /\ readyURL \in MaybeStart
  /\ app \in {"up", "quit", "gone"}

-----------------------------------------------------------------------------
(* How far a start has come says what its coordinator and child have done. *)

Launched(s) == pc[s] \in {"ran", "waiting"}

Staged(s) ==
  /\ pc[s] \in {"unused", "begun"} => child[s] = "none"
  /\ Launched(s) => child[s] # "none"
  /\ answer[s] # "none" => pc[s] \in {"waiting", "ok", "failed"}
  /\ Over(s) /\ child[s] # "none" => answer[s] # "none"
  /\ pc[s] = "failed" => child[s] # "live"
  /\ pc[s] = "ok" => url[s] # None

Answered(s) ==
  /\ resumed[s] = IF answer[s] = "none" THEN 0 ELSE 1
  /\ answer[s] = "ok" => s \in printed
  /\ url[s] # None => url[s] \in printed

Answers ==
  /\ \A s \in Starts : Staged(s) /\ Answered(s)
  /\ client # None => client \in printed
  /\ readyURL # None => readyURL \in printed

-----------------------------------------------------------------------------
(* Who owns the children.                                                  *)

\* Two starts that have launched and not returned overlap.
PairsRaced ==
  \A s, t \in Starts :
    s # t /\ Launched(s) /\ Launched(t) => s \in raced /\ t \in raced

\* A child that runs unasked is remembered, once its start has got that far.
Remembered ==
  \A s \in Starts :
    child[s] = "live" /\ pc[s] # "ran" => process = s \/ s \in raced

\* The child that is remembered runs beside another launch only by a race.
BesideLaunch ==
  \A s, t \in Starts :
    pc[t] = "ran" /\ process = s /\ Over(s) /\ child[s] = "live" => s \in raced

\* The URL of the child that is remembered is known when its start has returned.
KnownURL ==
  \A s \in Starts :
    pc[s] = "ok" /\ process = s /\ child[s] # "none" => readyURL # None

Owned == PairsRaced /\ Remembered /\ BesideLaunch /\ KnownURL

IInv == Typed /\ Answers /\ Owned /\ OneServerWithoutRaces
-----------------------------------------------------------------------------
(* Every step keeps each part of the invariant.                            *)

\* Every step keeps the kinds.
LEMMA StepTyped ==
  ASSUME Typed, [Next]_vars
  PROVE  Typed'
<1>1. ASSUME NEW c \in Calls, Bootstrap(c) PROVE Typed'
  BY <1>1 DEF Typed, MaybeStart, Stages, Bootstrap, server
<1>2. ASSUME NEW c \in Calls, FinishBootstrap(c) PROVE Typed'
  BY <1>2 DEF Typed, MaybeStart, FinishBootstrap, server
<1>3. ASSUME Shutdown PROVE Typed'
  BY <1>3 DEF Typed, MaybeStart, Shutdown, Stop, Terminate, InFlight
<1>4. ASSUME Exit PROVE Typed'
  BY <1>4 DEF Typed, Exit, store, server
<1>5. ASSUME NEW s \in Starts, Reuse(s) PROVE Typed'
  BY <1>5 DEF Typed, Stages, Reuse, store, server
<1>6. ASSUME NEW s \in Starts, Launch(s) PROVE Typed'
  BY <1>6 DEF Typed, Stages, Launch, InFlight, store, server
<1>7. ASSUME NEW s \in Starts, Remember(s) PROVE Typed'
  BY <1>7 DEF Typed, MaybeStart, Stages, Remember, store
<1>8. ASSUME NEW s \in Starts, StartReturns(s) PROVE Typed'
  BY <1>8 DEF Typed, MaybeStart, Stages, StartReturns, StartFails, Terminate,
              store
<1>9. ASSUME NEW s \in Starts, AppendStdout(s) PROVE Typed'
  BY <1>9 DEF Typed, AppendStdout, Finish, CoordinatorKeeps, store, server
<1>10. ASSUME NEW s \in Starts, FailFromTermination(s) PROVE Typed'
  BY <1>10 DEF Typed, FailFromTermination, Finish, CoordinatorKeeps, store,
               server
<1>11. ASSUME NEW s \in Starts, FailFromTimeout(s) PROVE Typed'
  BY <1>11 DEF Typed, FailFromTimeout, Finish, CoordinatorKeeps, store, server
<1>12. ASSUME NEW s \in Starts, ChildPrints(s) PROVE Typed'
  BY <1>12 DEF Typed, ChildPrints, store, server
<1>13. ASSUME NEW s \in Starts, ChildEnds(s) PROVE Typed'
  BY <1>13 DEF Typed, ChildEnds, store, server
<1>14. CASE UNCHANGED vars
  BY <1>14 DEF Typed, vars, store, server
<1> QED
  BY <1>1, <1>2, <1>3, <1>4, <1>5, <1>6, <1>7, <1>8, <1>9, <1>10, <1>11,
     <1>12, <1>13, <1>14 DEF Next

\* Every step keeps what the stage of a start says of its coordinator, its child
\* and its URL: whichever of banner, end and timeout comes second finds the
\* continuation gone.
LEMMA StepAnswers ==
  ASSUME Typed, Answers, [Next]_vars
  PROVE  Answers'
<1>1. ASSUME NEW c \in Calls, Bootstrap(c) PROVE Answers'
  BY <1>1, NoneAssumption DEF Answers, Staged, Answered, Launched, Typed, Over,
                        Bootstrap, server
<1>2. ASSUME NEW c \in Calls, FinishBootstrap(c) PROVE Answers'
  BY <1>2, NoneAssumption DEF Answers, Staged, Answered, Launched, Typed,
                        MaybeStart, Over, FinishBootstrap, server
<1>3. ASSUME Shutdown PROVE Answers'
  BY <1>3, NoneAssumption DEF Answers, Staged, Answered, Launched, Typed, Over,
                        Shutdown, Stop, Terminate
<1>4. ASSUME Exit PROVE Answers'
  BY <1>4, NoneAssumption DEF Answers, Staged, Answered, Launched, Over, Exit,
                        store, server
<1>5. ASSUME NEW s \in Starts, Reuse(s) PROVE Answers'
  BY <1>5, NoneAssumption DEF Answers, Staged, Answered, Launched, Typed, Over,
                        Reuse, ServerKnown, store, server
<1>6. ASSUME NEW s \in Starts, Launch(s) PROVE Answers'
  BY <1>6, NoneAssumption DEF Answers, Staged, Answered, Launched, Typed, Over,
                        Launch, store, server
<1>7. ASSUME NEW s \in Starts, Remember(s) PROVE Answers'
  BY <1>7, NoneAssumption DEF Answers, Staged, Answered, Launched, Over,
                        Remember, store
<1>8. ASSUME NEW s \in Starts, StartReturns(s) PROVE Answers'
  BY <1>8, NoneAssumption DEF Answers, Staged, Answered, Launched, Typed, Over,
                        StartReturns, StartFails, Terminate, store
<1>9. ASSUME NEW s \in Starts, AppendStdout(s) PROVE Answers'
  BY <1>9, NoneAssumption DEF Answers, Staged, Answered, Launched, Typed,
                        Stages, Over, AppendStdout, Finish, CoordinatorKeeps,
                        Handlers, store, server
<1>10. ASSUME NEW s \in Starts, FailFromTermination(s) PROVE Answers'
  BY <1>10, NoneAssumption DEF Answers, Staged, Answered, Launched, Typed,
                        Stages, Over, FailFromTermination, Finish,
                        CoordinatorKeeps, Handlers, store, server
<1>11. ASSUME NEW s \in Starts, FailFromTimeout(s) PROVE Answers'
  BY <1>11, NoneAssumption DEF Answers, Staged, Answered, Launched, Typed,
                        Stages, Over, FailFromTimeout, Finish,
                        CoordinatorKeeps, Handlers, store, server
<1>12. ASSUME NEW s \in Starts, ChildPrints(s) PROVE Answers'
  BY <1>12, NoneAssumption DEF Answers, Staged, Answered, Launched, Over,
                        ChildPrints, store, server
<1>13. ASSUME NEW s \in Starts, ChildEnds(s) PROVE Answers'
  BY <1>13, NoneAssumption DEF Answers, Staged, Answered, Launched, Over,
                        ChildEnds, Running, store, server
<1>14. CASE UNCHANGED vars
  BY <1>14 DEF Answers, Staged, Answered, Launched, Over, vars, store, server
<1> QED
  BY <1>1, <1>2, <1>3, <1>4, <1>5, <1>6, <1>7, <1>8, <1>9, <1>10, <1>11,
     <1>12, <1>13, <1>14 DEF Next

\* A start that launches while another is between launch and return makes a race
\* of both.
LEMMA StepPairsRaced ==
  ASSUME Typed, PairsRaced, [Next]_vars
  PROVE  PairsRaced'
<1>1. ASSUME NEW c \in Calls, Bootstrap(c) PROVE PairsRaced'
  BY <1>1 DEF PairsRaced, Launched, Typed, Bootstrap
<1>2. ASSUME NEW c \in Calls, FinishBootstrap(c) PROVE PairsRaced'
  BY <1>2 DEF PairsRaced, Launched, FinishBootstrap
<1>3. ASSUME Shutdown PROVE PairsRaced'
  BY <1>3 DEF PairsRaced, Launched, Shutdown
<1>4. ASSUME Exit PROVE PairsRaced'
  BY <1>4 DEF PairsRaced, Launched, Exit
<1>5. ASSUME NEW s \in Starts, Reuse(s) PROVE PairsRaced'
  BY <1>5 DEF PairsRaced, Launched, Reuse
<1>6. ASSUME NEW s \in Starts, Launch(s) PROVE PairsRaced'
  BY <1>6 DEF PairsRaced, Launched, Typed, Launch, InFlight
<1>7. ASSUME NEW s \in Starts, Remember(s) PROVE PairsRaced'
  BY <1>7 DEF PairsRaced, Launched, Remember
<1>8. ASSUME NEW s \in Starts, StartReturns(s) PROVE PairsRaced'
  BY <1>8 DEF PairsRaced, Launched, Typed, StartReturns, StartFails
<1>9. ASSUME NEW s \in Starts, AppendStdout(s) PROVE PairsRaced'
  BY <1>9 DEF PairsRaced, Launched, AppendStdout, CoordinatorKeeps
<1>10. ASSUME NEW s \in Starts, FailFromTermination(s) PROVE PairsRaced'
  BY <1>10 DEF PairsRaced, Launched, FailFromTermination, CoordinatorKeeps
<1>11. ASSUME NEW s \in Starts, FailFromTimeout(s) PROVE PairsRaced'
  BY <1>11 DEF PairsRaced, Launched, FailFromTimeout, CoordinatorKeeps
<1>12. ASSUME NEW s \in Starts, ChildPrints(s) PROVE PairsRaced'
  BY <1>12 DEF PairsRaced, Launched, ChildPrints
<1>13. ASSUME NEW s \in Starts, ChildEnds(s) PROVE PairsRaced'
  BY <1>13 DEF PairsRaced, Launched, ChildEnds
<1>14. CASE UNCHANGED vars
  BY <1>14 DEF PairsRaced, Launched, vars
<1> QED
  BY <1>1, <1>2, <1>3, <1>4, <1>5, <1>6, <1>7, <1>8, <1>9, <1>10, <1>11,
     <1>12, <1>13, <1>14 DEF Next

\* A child whose start is past its launch stays remembered, unless another start
\* that overlapped, or the shutdown, took its place.
LEMMA StepRemembered ==
  ASSUME Typed, Answers, PairsRaced, Remembered, BesideLaunch, [Next]_vars
  PROVE  Remembered'
<1>1. ASSUME NEW c \in Calls, Bootstrap(c) PROVE Remembered'
  BY <1>1, NoneAssumption DEF Remembered, Typed, Bootstrap, server
<1>2. ASSUME NEW c \in Calls, FinishBootstrap(c) PROVE Remembered'
  BY <1>2, NoneAssumption DEF Remembered, FinishBootstrap, server
<1>3. ASSUME Shutdown PROVE Remembered'
  BY <1>3, NoneAssumption DEF Remembered, Typed, Shutdown, Stop, Terminate
<1>4. ASSUME Exit PROVE Remembered'
  BY <1>4, NoneAssumption DEF Remembered, Exit, server
<1>5. ASSUME NEW s \in Starts, Reuse(s) PROVE Remembered'
  BY <1>5, NoneAssumption DEF Remembered, Reuse, server
<1>6. ASSUME NEW s \in Starts, Launch(s) PROVE Remembered'
  BY <1>6, NoneAssumption DEF Remembered, Typed, Launch, server
<1>7. ASSUME NEW s \in Starts, Remember(s) PROVE Remembered'
  BY <1>7, NoneAssumption DEF PairsRaced, Remembered, BesideLaunch, Answers,
                        Staged, Launched, Typed, Stages, Over, Remember
<1>8. ASSUME NEW s \in Starts, StartReturns(s) PROVE Remembered'
  BY <1>8, NoneAssumption DEF Remembered, Typed, StartReturns, StartFails,
                        Terminate
<1>9. ASSUME NEW s \in Starts, AppendStdout(s) PROVE Remembered'
  BY <1>9, NoneAssumption DEF Remembered, AppendStdout, CoordinatorKeeps,
                        server
<1>10. ASSUME NEW s \in Starts, FailFromTermination(s) PROVE Remembered'
  BY <1>10, NoneAssumption DEF Remembered, FailFromTermination,
                        CoordinatorKeeps, server
<1>11. ASSUME NEW s \in Starts, FailFromTimeout(s) PROVE Remembered'
  BY <1>11, NoneAssumption DEF Remembered, FailFromTimeout, CoordinatorKeeps,
                        server
<1>12. ASSUME NEW s \in Starts, ChildPrints(s) PROVE Remembered'
  BY <1>12, NoneAssumption DEF Remembered, ChildPrints, server
<1>13. ASSUME NEW s \in Starts, ChildEnds(s) PROVE Remembered'
  BY <1>13, NoneAssumption DEF Remembered, ChildEnds, server
<1>14. CASE UNCHANGED vars
  BY <1>14 DEF Remembered, vars, server
<1> QED
  BY <1>1, <1>2, <1>3, <1>4, <1>5, <1>6, <1>7, <1>8, <1>9, <1>10, <1>11,
     <1>12, <1>13, <1>14 DEF Next

\* A start only launches beside the remembered child while that child's URL is
\* not known, so while its own start is still out.
LEMMA StepBesideLaunch ==
  ASSUME Typed, Answers, PairsRaced, BesideLaunch, KnownURL, [Next]_vars
  PROVE  BesideLaunch'
<1>1. ASSUME NEW c \in Calls, Bootstrap(c) PROVE BesideLaunch'
  BY <1>1, NoneAssumption DEF BesideLaunch, Typed, Over, Bootstrap, server
<1>2. ASSUME NEW c \in Calls, FinishBootstrap(c) PROVE BesideLaunch'
  BY <1>2, NoneAssumption DEF BesideLaunch, Over, FinishBootstrap, server
<1>3. ASSUME Shutdown PROVE BesideLaunch'
  BY <1>3, NoneAssumption DEF BesideLaunch, Shutdown, Stop
<1>4. ASSUME Exit PROVE BesideLaunch'
  BY <1>4, NoneAssumption DEF BesideLaunch, Over, Exit, server
<1>5. ASSUME NEW s \in Starts, Reuse(s) PROVE BesideLaunch'
  BY <1>5, NoneAssumption DEF BesideLaunch, Answers, Staged, Over, Reuse,
                        server
<1>6. ASSUME NEW s \in Starts, Launch(s) PROVE BesideLaunch'
  BY <1>6, NoneAssumption DEF BesideLaunch, KnownURL, Answers, Staged, Typed,
                        Over, Launch, ServerKnown, Running, server
<1>7. ASSUME NEW s \in Starts, Remember(s) PROVE BesideLaunch'
  BY <1>7, NoneAssumption DEF BesideLaunch, Over, Remember
<1>8. ASSUME NEW s \in Starts, StartReturns(s) PROVE BesideLaunch'
  BY <1>8, NoneAssumption DEF PairsRaced, BesideLaunch, Launched, Typed, Over,
                        StartReturns, StartFails, Terminate
<1>9. ASSUME NEW s \in Starts, AppendStdout(s) PROVE BesideLaunch'
  BY <1>9, NoneAssumption DEF BesideLaunch, Over, AppendStdout,
                        CoordinatorKeeps, server
<1>10. ASSUME NEW s \in Starts, FailFromTermination(s) PROVE BesideLaunch'
  BY <1>10, NoneAssumption DEF BesideLaunch, Over, FailFromTermination,
                        CoordinatorKeeps, server
<1>11. ASSUME NEW s \in Starts, FailFromTimeout(s) PROVE BesideLaunch'
  BY <1>11, NoneAssumption DEF BesideLaunch, Over, FailFromTimeout,
                        CoordinatorKeeps, server
<1>12. ASSUME NEW s \in Starts, ChildPrints(s) PROVE BesideLaunch'
  BY <1>12, NoneAssumption DEF BesideLaunch, Over, ChildPrints, server
<1>13. ASSUME NEW s \in Starts, ChildEnds(s) PROVE BesideLaunch'
  BY <1>13, NoneAssumption DEF BesideLaunch, Over, ChildEnds, server
<1>14. CASE UNCHANGED vars
  BY <1>14 DEF BesideLaunch, Over, vars, server
<1> QED
  BY <1>1, <1>2, <1>3, <1>4, <1>5, <1>6, <1>7, <1>8, <1>9, <1>10, <1>11,
     <1>12, <1>13, <1>14 DEF Next

\* A start that succeeds leaves its URL in the manager.
LEMMA StepKnownURL ==
  ASSUME Typed, Answers, KnownURL, [Next]_vars
  PROVE  KnownURL'
<1>1. ASSUME NEW c \in Calls, Bootstrap(c) PROVE KnownURL'
  BY <1>1, NoneAssumption DEF KnownURL, Typed, Bootstrap, server
<1>2. ASSUME NEW c \in Calls, FinishBootstrap(c) PROVE KnownURL'
  BY <1>2, NoneAssumption DEF KnownURL, FinishBootstrap, server
<1>3. ASSUME Shutdown PROVE KnownURL'
  BY <1>3, NoneAssumption DEF KnownURL, Shutdown, Stop
<1>4. ASSUME Exit PROVE KnownURL'
  BY <1>4, NoneAssumption DEF KnownURL, Exit, server
<1>5. ASSUME NEW s \in Starts, Reuse(s) PROVE KnownURL'
  BY <1>5, NoneAssumption DEF KnownURL, Reuse, ServerKnown, server
<1>6. ASSUME NEW s \in Starts, Launch(s) PROVE KnownURL'
  BY <1>6, NoneAssumption DEF KnownURL, Typed, Launch, server
<1>7. ASSUME NEW s \in Starts, Remember(s) PROVE KnownURL'
  BY <1>7, NoneAssumption DEF KnownURL, Remember
<1>8. ASSUME NEW s \in Starts, StartReturns(s) PROVE KnownURL'
  BY <1>8, NoneAssumption DEF KnownURL, Typed, StartReturns, StartFails,
                        Terminate
<1>9. ASSUME NEW s \in Starts, AppendStdout(s) PROVE KnownURL'
  BY <1>9, NoneAssumption DEF KnownURL, AppendStdout, CoordinatorKeeps, server
<1>10. ASSUME NEW s \in Starts, FailFromTermination(s) PROVE KnownURL'
  BY <1>10, NoneAssumption DEF KnownURL, FailFromTermination, CoordinatorKeeps,
                        server
<1>11. ASSUME NEW s \in Starts, FailFromTimeout(s) PROVE KnownURL'
  BY <1>11, NoneAssumption DEF KnownURL, FailFromTimeout, CoordinatorKeeps,
                        server
<1>12. ASSUME NEW s \in Starts, ChildPrints(s) PROVE KnownURL'
  BY <1>12, NoneAssumption DEF KnownURL, ChildPrints, server
<1>13. ASSUME NEW s \in Starts, ChildEnds(s) PROVE KnownURL'
  BY <1>13, NoneAssumption DEF KnownURL, ChildEnds, Running, server
<1>14. CASE UNCHANGED vars
  BY <1>14 DEF KnownURL, vars, server
<1> QED
  BY <1>1, <1>2, <1>3, <1>4, <1>5, <1>6, <1>7, <1>8, <1>9, <1>10, <1>11,
     <1>12, <1>13, <1>14 DEF Next

\* Two children that run at once come from starts that overlapped.
LEMMA StepOneServer ==
  ASSUME Typed, Answers, PairsRaced, Remembered, BesideLaunch, KnownURL,
         OneServerWithoutRaces, [Next]_vars
  PROVE  OneServerWithoutRaces'
<1>1. ASSUME NEW c \in Calls, Bootstrap(c) PROVE OneServerWithoutRaces'
  BY <1>1, NoneAssumption DEF OneServerWithoutRaces, Bootstrap
<1>2. ASSUME NEW c \in Calls, FinishBootstrap(c) PROVE OneServerWithoutRaces'
  BY <1>2, NoneAssumption DEF OneServerWithoutRaces, FinishBootstrap
<1>3. ASSUME Shutdown PROVE OneServerWithoutRaces'
  BY <1>3, NoneAssumption DEF OneServerWithoutRaces, Typed, Shutdown, Stop,
                        Terminate
<1>4. ASSUME Exit PROVE OneServerWithoutRaces'
  BY <1>4, NoneAssumption DEF OneServerWithoutRaces, Exit
<1>5. ASSUME NEW s \in Starts, Reuse(s) PROVE OneServerWithoutRaces'
  BY <1>5, NoneAssumption DEF OneServerWithoutRaces, Reuse
<1>6. ASSUME NEW s \in Starts, Launch(s) PROVE OneServerWithoutRaces'
  BY <1>6, NoneAssumption DEF Remembered, KnownURL, OneServerWithoutRaces,
                        Answers, Staged, Typed, Stages, Running, Launch,
                        InFlight, ServerKnown, Running
<1>7. ASSUME NEW s \in Starts, Remember(s) PROVE OneServerWithoutRaces'
  BY <1>7, NoneAssumption DEF OneServerWithoutRaces, Remember
<1>8. ASSUME NEW s \in Starts, StartReturns(s) PROVE OneServerWithoutRaces'
  BY <1>8, NoneAssumption DEF OneServerWithoutRaces, Typed, StartReturns,
                        StartFails, Terminate
<1>9. ASSUME NEW s \in Starts, AppendStdout(s) PROVE OneServerWithoutRaces'
  BY <1>9, NoneAssumption DEF OneServerWithoutRaces, AppendStdout,
                        CoordinatorKeeps
<1>10. ASSUME NEW s \in Starts, FailFromTermination(s)
       PROVE  OneServerWithoutRaces'
  BY <1>10, NoneAssumption DEF OneServerWithoutRaces, FailFromTermination,
                        CoordinatorKeeps
<1>11. ASSUME NEW s \in Starts, FailFromTimeout(s) PROVE OneServerWithoutRaces'
  BY <1>11, NoneAssumption DEF OneServerWithoutRaces, FailFromTimeout,
                        CoordinatorKeeps
<1>12. ASSUME NEW s \in Starts, ChildPrints(s) PROVE OneServerWithoutRaces'
  BY <1>12, NoneAssumption DEF OneServerWithoutRaces, ChildPrints
<1>13. ASSUME NEW s \in Starts, ChildEnds(s) PROVE OneServerWithoutRaces'
  BY <1>13, NoneAssumption DEF OneServerWithoutRaces, ChildEnds
<1>14. CASE UNCHANGED vars
  BY <1>14 DEF OneServerWithoutRaces, vars
<1> QED
  BY <1>1, <1>2, <1>3, <1>4, <1>5, <1>6, <1>7, <1>8, <1>9, <1>10, <1>11,
     <1>12, <1>13, <1>14 DEF Next

-----------------------------------------------------------------------------
(* The invariant, and what the runs check.                                 *)

\* No start is under way and no child runs in the first state.
LEMMA InitInvariant == Init => IInv
BY NoneAssumption DEF Init, IInv, Typed, MaybeStart, Stages, Answers, Staged,
     Answered, Launched, Over, Owned, PairsRaced, Remembered, BesideLaunch,
     KnownURL, OneServerWithoutRaces

\* Every step keeps the invariant.
LEMMA StepInvariant == IInv /\ [Next]_vars => IInv'
<1> SUFFICES ASSUME IInv, [Next]_vars PROVE IInv'
  OBVIOUS
<1>1. Typed' BY StepTyped DEF IInv
<1>2. Answers' BY StepAnswers DEF IInv
<1>3. PairsRaced' BY StepPairsRaced DEF IInv, Owned
<1>4. Remembered' BY StepRemembered DEF IInv, Owned
<1>5. BesideLaunch' BY StepBesideLaunch DEF IInv, Owned
<1>6. KnownURL' BY StepKnownURL DEF IInv, Owned
<1>7. OneServerWithoutRaces' BY StepOneServer DEF IInv, Owned
<1> QED BY <1>1, <1>2, <1>3, <1>4, <1>5, <1>6, <1>7 DEF IInv, Owned

\* The invariant holds of every state that is reached.
LEMMA InvariantHolds == Spec => []IInv
BY InitInvariant, StepInvariant, PTL DEF Spec

\* How often a continuation was resumed and where a URL comes from follow from
\* how far the starts have come.
LEMMA AnswersOnce == IInv => StartsAnswerOnce
<1> SUFFICES ASSUME IInv PROVE StartsAnswerOnce
  OBVIOUS
<1>1. TypeOK
  BY DEF IInv, Typed, MaybeStart, Stages, Answers, Staged, TypeOK
<1>2. ResumedOnce
  BY DEF IInv, Typed, Answers, Staged, Answered, ResumedOnce
<1>3. ClientOfPrintedBanner
  BY DEF IInv, Answers, ClientOfPrintedBanner
<1> QED BY <1>1, <1>2, <1>3 DEF StartsAnswerOnce

\* A child that runs unasked after its start is the remembered one or raced.
LEMMA ChildrenOwned == IInv => ServersAreOwned
BY DEF IInv, Owned, Remembered, Orphan, OrphansOnlyFromRaces, Over,
       ServersAreOwned

\* The banner, the end of the child and the timeout resume the continuation of
\* a start once at most, exactly once when a start with a child is over, and
\* the store holds no URL but one that a child printed.
THEOREM StartsCorrect == Spec => []StartsAnswerOnce
BY InvariantHolds, AnswersOnce, PTL

\* Children left behind by a start, or running side by side, are the work of
\* starts that overlapped each other or the shutdown.
THEOREM ServersOwned == Spec => []ServersAreOwned
BY InvariantHolds, ChildrenOwned, PTL
=============================================================================
