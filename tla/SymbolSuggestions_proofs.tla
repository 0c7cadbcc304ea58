----------------------- MODULE SymbolSuggestions_proofs -----------------------
(***************************************************************************)
(* The suggestion list fits what is on screen, and requests from before a  *)
(* change of target kind are ignored, for any number of fetch tasks, any   *)
(* texts and any number of changes.                                        *)
(*                                                                         *)
(* The generation is what makes both inductive: every request that is out  *)
(* carries one not above the current, and the requests left behind by an   *)
(* assignment of the target kind carry a smaller one.                      *)
(***************************************************************************)
EXTENDS SymbolSuggestions, TLAPS

\* No request is from the future.
Generations == \A f \in Out : fetches[f].generation <= generation

\* Requests left behind are still out, and carry an older generation.
LeftAreOlder ==
  \A f \in left : f \in Out /\ fetches[f].generation < generation

IInv == TypeOK /\ ListFits /\ Generations /\ LeftAreOlder

\* The state the program starts in satisfies the inductive invariant.
LEMMA InitInv == Init => IInv
<1> SUFFICES ASSUME Init PROVE IInv
  OBVIOUS
<1>1. TypeOK
  BY DEF Init, TypeOK, Kinds, Texts, NoList, Idle, Fetch
<1>2. ListFits
  BY DEF Init, ListFits
<1>3. Generations /\ LeftAreOlder
  BY DEF Init, Generations, LeftAreOlder, Out, Idle
<1> QED
  BY <1>1, <1>2, <1>3 DEF IInv

\* Assigning the target kind raises the generation above every request that
\* is out, and leaves no list beside another kind.
LEMMA AssignKindKeeps ==
  ASSUME IInv, NEW k \in Kinds, AssignKind(k), UNCHANGED fetches
  PROVE  /\ generation' \in Nat /\ kind' \in Kinds /\ left' \in SUBSET Fetches
         /\ list' \in {list, NoList}
         /\ list' # NoList => kind' = "symbol"
         /\ Generations' /\ LeftAreOlder'
<1> USE DEF IInv, TypeOK, AssignKind
<1>1. generation + 1 \in Nat /\ generation < generation + 1
  OBVIOUS
<1>2. \A f \in Out : fetches[f] \in Fetch /\ fetches[f].pc = "out"
  BY DEF Out
<1>3. \A f \in Out : fetches[f].generation \in Nat
  BY <1>2 DEF Fetch
<1>4. \A f \in Out : fetches[f].generation < generation + 1
  BY <1>1, <1>3 DEF Generations
<1>5. Out' = Out
  BY DEF Out
<1>6. Generations' /\ LeftAreOlder'
  BY <1>3, <1>4, <1>5, <1>1 DEF Generations, LeftAreOlder
<1> QED
  BY <1>1, <1>6 DEF Out

\* The end of a task disturbs no other task.
LEMMA ReturnKeeps ==
  ASSUME IInv, NEW f \in Fetches, Return(f), UNCHANGED generation
  PROVE  /\ fetches' \in [Fetches -> Fetch] /\ left' \in SUBSET Fetches
         /\ Generations' /\ LeftAreOlder'
<1> USE DEF IInv, TypeOK, Return
<1>1. Idle \in Fetch
  BY DEF Idle, Fetch
<1>2. fetches' \in [Fetches -> Fetch] /\ left' \in SUBSET Fetches
  BY <1>1
<1>3. Out' = Out \ {f}
  BY DEF Out, Idle
<1>4. \A g \in Out' : fetches'[g] = fetches[g]
  BY <1>3 DEF Out
<1>5. Generations'
  BY <1>3, <1>4 DEF Generations
<1>6. LeftAreOlder'
  BY <1>3, <1>4 DEF LeftAreOlder
<1> QED
  BY <1>2, <1>5, <1>6

\* Cancelling a task changes nothing but its flag.
LEMMA CancelKeeps ==
  ASSUME TypeOK
  PROVE  /\ CancelCurrent \in [Fetches -> Fetch]
         /\ \A f \in Fetches :
              /\ CancelCurrent[f].pc = fetches[f].pc
              /\ CancelCurrent[f].generation = fetches[f].generation
<1> USE DEF TypeOK
<1>1. CASE current = NoTask
  BY <1>1 DEF CancelCurrent
<1>2. CASE current # NoTask
  <2>1. current \in Fetches /\ fetches[current] \in Fetch
    BY <1>2
  <2> DEFINE flag == fetches[current].cancelled \/ fetches[current].pc # "idle"
  <2>2. CancelCurrent = [fetches EXCEPT ![current].cancelled = flag]
    BY <1>2 DEF CancelCurrent
  <2>3. flag \in BOOLEAN
    OBVIOUS
  <2> HIDE DEF flag
  <2>4. [fetches[current] EXCEPT !.cancelled = flag] \in Fetch
    BY <2>1, <2>3 DEF Fetch
  <2> QED
    BY <2>1, <2>2, <2>4
<1> QED
  BY <1>1, <1>2

\* The user's gestures preserve the inductive invariant.
LEMMA GesturesKeep ==
  ASSUME IInv,
         \/ \E k \in Kinds : PickKind(k)
         \/ \E t \in Texts : Type(t)
         \/ \E t \in Texts : SelectSymbolSuggestion(t)
  PROVE  IInv'
<1>1. CASE \E k \in Kinds : PickKind(k)
  <2> PICK k \in Kinds : PickKind(k)
    BY <1>1
  <2>1. AssignKind(k) /\ UNCHANGED <<client, image, text, seen, current, fetches, typed>>
    BY DEF PickKind, view
  <2>2. dismissed' = FALSE
    BY DEF PickKind
  <2>3. /\ generation' \in Nat /\ kind' \in Kinds /\ left' \in SUBSET Fetches
        /\ list' \in {list, NoList}
        /\ list' # NoList => kind' = "symbol"
        /\ Generations' /\ LeftAreOlder'
    BY <2>1, AssignKindKeeps
  <2>4. NoList \in [image : Nat, query : Texts]
    BY DEF NoList, Texts
  <2>7. list' \in [image : Nat, query : Texts]
    BY <2>3, <2>4 DEF IInv, TypeOK
  <2>5. TypeOK'
    BY <2>1, <2>2, <2>3, <2>7 DEF IInv, TypeOK
  <2>6. ListFits'
    BY <2>1, <2>3 DEF IInv, ListFits
  <2> QED
    BY <2>3, <2>5, <2>6 DEF IInv
<1>2. CASE \E t \in Texts : Type(t)
  <2> PICK t \in Texts : Type(t)
    BY <1>2
  <2>1. UNCHANGED <<client, image, kind, generation, seen, current, fetches, left>>
    BY DEF Type, view
  <2>2. /\ kind = "symbol" /\ text' = t /\ dismissed' = FALSE
        /\ typed' = typed + 1
        /\ list' = IF t \in Long THEN list ELSE NoList
    BY DEF Type, AfterText
  <2>7. NoList \in [image : Nat, query : Texts]
    BY DEF NoList, Texts
  <2>3. typed + 1 \in Nat /\ list' \in [image : Nat, query : Texts]
    BY <2>2, <2>7 DEF IInv, TypeOK
  <2>4. TypeOK'
    BY <2>1, <2>2, <2>3 DEF IInv, TypeOK
  <2>5. ListFits'
    BY <2>1, <2>2 DEF IInv, ListFits
  <2>6. Generations' /\ LeftAreOlder'
    BY <2>1 DEF IInv, Generations, LeftAreOlder, Out
  <2> QED
    BY <2>4, <2>5, <2>6 DEF IInv
<1>3. CASE \E t \in Texts : SelectSymbolSuggestion(t)
  <2> PICK t \in Texts : SelectSymbolSuggestion(t)
    BY <1>3
  <2>1. UNCHANGED <<client, image, kind, generation, seen, current, fetches, left>>
    BY DEF SelectSymbolSuggestion, view
  <2>2. /\ text' = t /\ dismissed' = TRUE /\ typed' = typed + 1
        /\ list' = NoList
    BY DEF SelectSymbolSuggestion
  <2>3. NoList \in [image : Nat, query : Texts]
    BY DEF NoList, Texts
  <2>4. TypeOK'
    BY <2>1, <2>2, <2>3 DEF IInv, TypeOK
  <2>5. ListFits'
    BY <2>2 DEF ListFits
  <2>6. Generations' /\ LeftAreOlder'
    BY <2>1 DEF IInv, Generations, LeftAreOlder, Out
  <2> QED
    BY <2>4, <2>5, <2>6 DEF IInv
<1> QED
  BY <1>1, <1>2, <1>3

\* Loads, jumps and the coming and going of the server preserve it too.
LEMMA StoreKeeps ==
  ASSUME IInv, ResetForLoadedImage \/ LeaveSymbolTarget \/ SetClient
  PROVE  IInv'
<1>0. NoList \in [image : Nat, query : Texts] /\ Empty \in Texts
  BY DEF NoList, Texts
<1>1. CASE ResetForLoadedImage
  <2>1. /\ AssignKind("other") /\ text' = Empty /\ dismissed' = FALSE
        /\ image' = image + 1
        /\ UNCHANGED <<client, seen, current, fetches, typed>>
    BY <1>1 DEF ResetForLoadedImage, view
  <2>2. "other" \in Kinds /\ kind' # "symbol"
    BY <2>1 DEF Kinds, AssignKind
  <2>3. /\ generation' \in Nat /\ kind' \in Kinds /\ left' \in SUBSET Fetches
        /\ list' \in {list, NoList}
        /\ list' # NoList => kind' = "symbol"
        /\ Generations' /\ LeftAreOlder'
    BY <2>1, <2>2, AssignKindKeeps
  <2>4. image + 1 \in Nat
    BY DEF IInv, TypeOK
  <2>5. TypeOK'
    BY <1>0, <2>1, <2>3, <2>4 DEF IInv, TypeOK
  <2>6. ListFits'
    BY <2>2, <2>3 DEF ListFits
  <2> QED
    BY <2>3, <2>5, <2>6 DEF IInv
<1>2. CASE LeaveSymbolTarget
  <2>1. /\ AssignKind("other") /\ dismissed' = FALSE
        /\ UNCHANGED <<client, image, text, seen, current, fetches, typed>>
    BY <1>2 DEF LeaveSymbolTarget, view
  <2>2. "other" \in Kinds /\ kind' # "symbol"
    BY <2>1 DEF Kinds, AssignKind
  <2>3. /\ generation' \in Nat /\ kind' \in Kinds /\ left' \in SUBSET Fetches
        /\ list' \in {list, NoList}
        /\ list' # NoList => kind' = "symbol"
        /\ Generations' /\ LeftAreOlder'
    BY <2>1, <2>2, AssignKindKeeps
  <2>4. TypeOK'
    BY <1>0, <2>1, <2>3 DEF IInv, TypeOK
  <2>5. ListFits'
    BY <2>2, <2>3 DEF ListFits
  <2> QED
    BY <2>3, <2>4, <2>5 DEF IInv
<1>3. CASE SetClient
  <2>1. /\ client' \in BOOLEAN
        /\ UNCHANGED <<image, kind, text, generation, list, seen, current,
                       fetches, left, dismissed, typed>>
    BY <1>3 DEF SetClient, view
  <2> QED
    BY <2>1 DEF IInv, TypeOK, ListFits, Generations, LeftAreOlder, Out
<1> QED
  BY <1>1, <1>2, <1>3

\* So does the view, which cancels one task and starts another.
LEMMA ViewUpdateKeeps ==
  ASSUME IInv, ViewUpdate
  PROVE  IInv' /\ UNCHANGED list
<1>1. /\ UNCHANGED <<client, image, kind, text, generation, list, left,
                     dismissed, typed>>
      /\ seen' = [kind |-> kind, text |-> text]
  BY DEF ViewUpdate, store
<1>2. /\ CancelCurrent \in [Fetches -> Fetch]
      /\ \A f \in Fetches : /\ CancelCurrent[f].pc = fetches[f].pc
                            /\ CancelCurrent[f].generation = fetches[f].generation
  BY CancelKeeps DEF IInv
<1>3. /\ fetches' \in [Fetches -> Fetch] /\ current' \in Fetches \cup {NoTask}
      /\ \A f \in Out \cup Out' : /\ fetches'[f].pc = fetches[f].pc
                                  /\ fetches'[f].generation = fetches[f].generation
  <2>1. CASE fetches' = CancelCurrent /\ current' = NoTask
    BY <1>2, <2>1 DEF Out
  <2>2. CASE \E f \in Fetches :
               /\ fetches[f].pc = "idle"
               /\ fetches' = [CancelCurrent EXCEPT ![f] = Asleep]
               /\ current' = f
    <3> PICK f \in Fetches : /\ fetches[f].pc = "idle"
                             /\ fetches' = [CancelCurrent EXCEPT ![f] = Asleep]
                             /\ current' = f
      BY <2>2
    <3>1. Asleep \in Fetch /\ Asleep.pc = "asleep"
      BY DEF Asleep, Idle, Fetch
    <3>2. \A g \in Fetches \ {f} : fetches'[g] = CancelCurrent[g]
      BY <1>2
    <3>3. fetches'[f] = Asleep
      BY <1>2
    <3>4. f \notin Out \cup Out'
      BY <3>1, <3>3 DEF Out
    <3>5. \A g \in Out \cup Out' : g \in Fetches \ {f}
      BY <3>4 DEF Out
    <3> QED
      BY <1>2, <3>1, <3>2, <3>3, <3>5
  <2> QED
    BY <2>1, <2>2 DEF ViewUpdate
<1>4. Out' = Out
  BY <1>3 DEF Out
<1>5. TypeOK'
  BY <1>1, <1>3 DEF IInv, TypeOK
<1>6. ListFits'
  BY <1>1 DEF IInv, ListFits
<1>7. Generations' /\ LeftAreOlder'
  BY <1>1, <1>3, <1>4 DEF IInv, Generations, LeftAreOlder
<1> QED
  BY <1>1, <1>5, <1>6, <1>7 DEF IInv

\* Every way a task moves on preserves it, and leaves the list alone when the
\* task was left behind by a change of target kind.
LEMMA SettleKeeps ==
  ASSUME IInv, NEW f \in Fetches, Settle(f)
  PROVE  IInv' /\ (f \in left => UNCHANGED list)
<1>0. NoList \in [image : Nat, query : Texts]
  BY DEF NoList, Texts
<1>1. ASSUME Return(f), list' \in {list, NoList},
             UNCHANGED <<client, image, kind, text, generation, seen, current,
                         dismissed, typed>>
      PROVE  IInv'
  <2>1. /\ fetches' \in [Fetches -> Fetch] /\ left' \in SUBSET Fetches
        /\ Generations' /\ LeftAreOlder'
    BY <1>1, ReturnKeeps
  <2>2. TypeOK'
    BY <1>0, <1>1, <2>1 DEF IInv, TypeOK
  <2>3. ListFits'
    BY <1>1 DEF IInv, ListFits
  <2> QED
    BY <2>1, <2>2, <2>3 DEF IInv
<1>2. f \in left => fetches[f].pc = "out" /\ ~Current(f)
  <2>1. ASSUME f \in left
        PROVE  fetches[f].pc = "out" /\ fetches[f].generation < generation
    BY <2>1 DEF IInv, LeftAreOlder, Out
  <2>2. ASSUME f \in left, fetches[f].generation = generation
        PROVE  FALSE
    BY <2>1, <2>2 DEF IInv, TypeOK
  <2> QED
    BY <2>1, <2>2 DEF Current
<1>3. CASE WakeCancelled(f)
  BY <1>1, <1>3 DEF WakeCancelled, store, view
<1>4. CASE WakeCleared(f)
  BY <1>1, <1>2, <1>4 DEF WakeCleared, view
<1>5. CASE WakeAsks(f)
  <2> DEFINE asked == [pc |-> "out", cancelled |-> FALSE, image |-> image,
                       query |-> text, generation |-> generation]
  <2>1. /\ fetches' = [fetches EXCEPT ![f] = asked]
        /\ fetches[f].pc = "asleep" /\ image # 0 /\ text \in Long
        /\ UNCHANGED <<client, image, kind, text, generation, list, seen,
                       current, left, dismissed, typed>>
    BY <1>5 DEF WakeAsks, store, view
  <2>2. asked \in Fetch /\ asked.generation = generation
    BY <2>1 DEF IInv, TypeOK, Fetch
  <2> HIDE DEF asked
  <2>3. TypeOK'
    BY <2>1, <2>2 DEF IInv, TypeOK
  <2>4. ListFits'
    BY <2>1 DEF IInv, ListFits
  <2>5. \A g \in Fetches \ {f} : fetches'[g] = fetches[g]
    BY <2>1 DEF IInv, TypeOK
  <2>6. fetches'[f].generation = generation /\ generation \in Nat
    BY <2>1, <2>2 DEF IInv, TypeOK
  <2>7. Generations'
    BY <2>1, <2>5, <2>6 DEF IInv, Generations, Out
  <2>8. f \notin left
    BY <1>2, <2>1
  <2>9. LeftAreOlder'
    BY <2>1, <2>5, <2>8 DEF IInv, TypeOK, LeftAreOlder, Out
  <2> QED
    BY <2>1, <2>3, <2>4, <2>7, <2>9 DEF IInv
<1>6. CASE \E names \in BOOLEAN : Answer(f, names)
  <2> PICK names \in BOOLEAN : Answer(f, names)
    BY <1>6
  <2>1. /\ Return(f) /\ fetches[f].pc = "out"
        /\ UNCHANGED <<client, image, kind, text, generation, seen, current,
                       dismissed, typed>>
    BY DEF Answer, view
  <2>2. f \in left => UNCHANGED list
    BY <1>2 DEF Answer
  <2>3. CASE list' \in {list, NoList}
    BY <1>1, <2>1, <2>2, <2>3
  <2>4. CASE list' \notin {list, NoList}
    <3>1. /\ Current(f)
          /\ list' = [image |-> fetches[f].image, query |-> fetches[f].query]
      BY <2>4 DEF Answer
    <3>2. /\ fetches[f].image = image /\ fetches[f].query = text
          /\ kind = "symbol"
      BY <3>1 DEF Current
    <3>3. fetches[f].query \in Long /\ fetches[f].image \in Nat
      BY <2>1 DEF IInv, TypeOK, Fetch
    <3>4. list' = [image |-> image, query |-> text] /\ text \in Long
      BY <3>1, <3>2, <3>3
    <3>5. /\ fetches' \in [Fetches -> Fetch] /\ left' \in SUBSET Fetches
          /\ Generations' /\ LeftAreOlder'
      BY <2>1, ReturnKeeps
    <3>6. list' \in [image : Nat, query : Texts]
      BY <3>4 DEF IInv, TypeOK
    <3>7. TypeOK'
      BY <2>1, <3>5, <3>6 DEF IInv, TypeOK
    <3>8. ListFits'
      BY <2>1, <3>2, <3>4 DEF ListFits
    <3> QED
      BY <2>2, <3>5, <3>7, <3>8 DEF IInv
  <2> QED
    BY <2>3, <2>4
<1>7. CASE Fail(f)
  <2>1. /\ Return(f)
        /\ list' \in {list, NoList}
        /\ UNCHANGED <<client, image, kind, text, generation, seen, current,
                       dismissed, typed>>
    BY <1>7 DEF Fail, view
  <2>2. f \in left => UNCHANGED list
    BY <1>2, <1>7 DEF Fail
  <2> QED
    BY <1>1, <2>1, <2>2
<1> QED
  BY <1>3, <1>4, <1>5, <1>6, <1>7 DEF Settle

\* A task that settles moves no other task.
LEMMA SettleMovesOne ==
  ASSUME TypeOK, NEW f \in Fetches, Settle(f), NEW g \in Fetches, g # f
  PROVE  fetches'[g] = fetches[g]
  BY DEF TypeOK, Settle, WakeCancelled, WakeCleared, WakeAsks, Answer, Fail,
         Return

\* Every step preserves the inductive invariant.
LEMMA NextInv == IInv /\ [Next]_vars => IInv'
<1> SUFFICES ASSUME IInv, [Next]_vars PROVE IInv'
  OBVIOUS
<1>1. CASE Next
  BY <1>1, GesturesKeep, StoreKeeps, ViewUpdateKeeps, SettleKeeps DEF Next
<1>2. CASE UNCHANGED vars
  BY <1>2 DEF vars, IInv, TypeOK, ListFits, Generations, LeftAreOlder, Out
<1> QED
  BY <1>1, <1>2

\* The inductive invariant holds in every reachable state.
LEMMA Invariance == Spec => []IInv
  BY InitInv, NextInv, PTL DEF Spec

\* The store and the view keep values of their types.
THEOREM SuggestionsTyped == Spec => []TypeOK
<1>1. IInv => TypeOK
  BY DEF IInv
<1> QED
  BY <1>1, Invariance, PTL

\* Whatever was loaded, picked or typed while a request was out, a list on
\* screen is one for a symbol field with a searchable text, and of the image
\* that is loaded (fetchSymbolSuggestions and the didSets).
THEOREM SuggestionsFit == Spec => []ListFits
<1>1. IInv => ListFits
  BY DEF IInv
<1> QED
  BY <1>1, Invariance, PTL

\* A request that was out when the target kind was assigned never changes
\* the list, however long it takes (symbolSuggestionGeneration).
THEOREM LeftBehind == Spec => LeftBehindIsIgnored
<1> DEFINE Ignored ==
      \A f \in left : fetches'[f] # fetches[f] => UNCHANGED list
<1>1. IInv /\ [Next]_vars => [Ignored]_vars
  <2> SUFFICES ASSUME IInv, Next, NEW f \in left, fetches'[f] # fetches[f]
               PROVE  UNCHANGED list
    BY DEF vars
  <2>1. f \in Fetches /\ TypeOK
    BY DEF IInv, TypeOK
  <2>2. CASE ViewUpdate
    BY <2>2, ViewUpdateKeeps
  <2>3. CASE \E g \in Fetches : Settle(g)
    <3> PICK g \in Fetches : Settle(g)
      BY <2>3
    <3>1. g = f
      BY <2>1, SettleMovesOne
    <3> QED
      BY <3>1, SettleKeeps
  <2>4. CASE UNCHANGED fetches
    BY <2>4
  <2>5. ASSUME ~ViewUpdate, ~\E g \in Fetches : Settle(g)
        PROVE  UNCHANGED fetches
    BY <2>5 DEF Next, PickKind, Type, SelectSymbolSuggestion,
                ResetForLoadedImage, LeaveSymbolTarget, SetClient
  <2> QED
    BY <2>2, <2>3, <2>4, <2>5
<1> QED
  BY <1>1, Invariance, PTL DEF Spec, LeftBehindIsIgnored
=============================================================================
