-------------------------- MODULE SymbolSuggestions --------------------------
(***************************************************************************)
(* The list of symbol names under the Workbench's symbol field: the part   *)
(* of WorkbenchStore that keeps it, and the tasks by which ContentView     *)
(* fetches it.                                                             *)
(*                                                                         *)
(* Everything runs on the main actor, but a view learns of a change of the *)
(* store only when it is next rendered, a fetch sleeps before it asks the  *)
(* server, and a cancelled task still returns.  Those are the steps that   *)
(* interleave: ViewUpdate, Wake and Answer, with the user's gestures and   *)
(* with the loads and jumps of WorkbenchStore that rewrite the controls.   *)
(*                                                                         *)
(* A text stands for its trimmed form.  Closing the window ends the app,   *)
(* so the task it cancels is not modelled.                                 *)
(***************************************************************************)
EXTENDS Naturals, FiniteSets

CONSTANTS
  Fetches,     \* tasks that may exist at once
  Empty,       \* the empty text
  Short, Long, \* other texts: under two characters, and searchable
  NoTask,      \* nil, as a task
  MaxKinds,    \* bound: assignments to targetKind
  MaxTyped     \* bound: edits of the text by the user

Texts == {Empty} \cup Short \cup Long
Kinds == {"symbol", "other"}

ASSUME TextsAssumption == Long \cap ({Empty} \cup Short) = {}
ASSUME NoTaskAssumption == NoTask \notin Fetches
ASSUME BoundsAssumption == MaxKinds \in Nat /\ MaxTyped \in Nat

VARIABLES
  client,      \* client # nil
  image,       \* loadedImage, numbered by load; 0 is nil
  kind,        \* targetKind
  text,        \* symbolText
  generation,  \* symbolSuggestionGeneration
  list,        \* symbolSuggestions: what was asked to get it, or NoList
  seen,        \* the kind and text the view was last rendered with
  current,     \* symbolSuggestionTask
  fetches,     \* the tasks
  left,        \* history: fetches out when targetKind was last assigned
  dismissed,   \* history: a suggestion was chosen, and nothing edited since
  typed        \* bound counter: edits so far

store == <<client, image, kind, text, generation, list>>
view  == <<seen, current>>
vars  == <<client, image, kind, text, generation, list, seen, current,
           fetches, left, dismissed, typed>>
-----------------------------------------------------------------------------
NoList == [image |-> 0, query |-> Empty]

Idle == [pc |-> "idle", cancelled |-> FALSE, image |-> 0, query |-> Empty,
         generation |-> 0]
Asleep == [Idle EXCEPT !.pc = "asleep"]

Out == {f \in Fetches : fetches[f].pc = "out"}
Rendered == seen = [kind |-> kind, text |-> text]

\* didSet of targetKind
AssignKind(k) ==
  /\ kind' = k
  /\ generation' = generation + 1
  /\ list' = IF k = "symbol" THEN list ELSE NoList
  /\ left' = Out

\* didSet of symbolText
AfterText(t) == IF t \in Long THEN list ELSE NoList

\* The task ends.
Return(f) == fetches' = [fetches EXCEPT ![f] = Idle] /\ left' = left \ {f}
-----------------------------------------------------------------------------
(* Gestures reach the store through a rendered view.                       *)

PickKind(k) ==
  /\ Rendered /\ generation < MaxKinds
  /\ k # kind
  /\ AssignKind(k)
  /\ dismissed' = FALSE
  /\ UNCHANGED <<client, image, text, view, fetches, typed>>

Type(t) ==
  /\ Rendered /\ typed < MaxTyped
  /\ kind = "symbol"
  /\ t # text
  /\ text' = t
  /\ list' = AfterText(t)
  /\ dismissed' = FALSE
  /\ typed' = typed + 1
  /\ UNCHANGED <<client, image, kind, generation, view, fetches, left>>

\* selectSymbolSuggestion: every name offered is a searchable text.
SelectSymbolSuggestion(t) ==
  /\ Rendered /\ typed < MaxTyped
  /\ list # NoList
  /\ t \in Long
  /\ text' = t
  /\ list' = NoList
  /\ dismissed' = TRUE
  /\ typed' = typed + 1
  /\ UNCHANGED <<client, image, kind, generation, view, fetches, left>>
-----------------------------------------------------------------------------
(* The rest of the store, as far as it touches this state.                 *)

\* resetForLoadedImage
ResetForLoadedImage ==
  /\ generation < MaxKinds
  /\ image' = image + 1
  /\ AssignKind("other")
  /\ text' = Empty
  /\ dismissed' = FALSE
  /\ UNCHANGED <<client, view, fetches, typed>>

\* decodeAddressRoute and openSection
LeaveSymbolTarget ==
  /\ generation < MaxKinds
  /\ AssignKind("other")
  /\ dismissed' = FALSE
  /\ UNCHANGED <<client, image, text, view, fetches, typed>>

\* finishBootstrap and shutdown
SetClient ==
  /\ client' \in BOOLEAN
  /\ UNCHANGED <<image, kind, text, generation, list, view, fetches, left,
                 dismissed, typed>>
-----------------------------------------------------------------------------
(* ContentView.                                                            *)

CancelCurrent ==
  IF current = NoTask THEN fetches
  ELSE [fetches EXCEPT ![current].cancelled = @ \/ fetches[current].pc # "idle"]

\* The two onChange handlers: cancelSymbolSuggestionFetch, and for a symbol
\* target scheduleSymbolSuggestionFetch.
ViewUpdate ==
  /\ ~Rendered
  /\ seen' = [kind |-> kind, text |-> text]
  /\ \/ /\ kind # "symbol"
        /\ fetches' = CancelCurrent
        /\ current' = NoTask
     \/ /\ kind = "symbol"
        /\ \E f \in Fetches :
             /\ fetches[f].pc = "idle"
             /\ fetches' = [CancelCurrent EXCEPT ![f] = Asleep]
             /\ current' = f
  /\ UNCHANGED <<store, left, dismissed, typed>>

\* The task was cancelled in its sleep.
WakeCancelled(f) ==
  /\ fetches[f].pc = "asleep" /\ fetches[f].cancelled
  /\ Return(f)
  /\ UNCHANGED <<store, view, dismissed, typed>>

\* fetchSymbolSuggestions returns at one of its first guards.
WakeCleared(f) ==
  /\ fetches[f].pc = "asleep" /\ ~fetches[f].cancelled
  /\ kind # "symbol" \/ ~client \/ image = 0 \/ text \notin Long
  /\ list' = NoList
  /\ Return(f)
  /\ UNCHANGED <<client, image, kind, text, generation, view, dismissed, typed>>

\* fetchSymbolSuggestions up to its await.
WakeAsks(f) ==
  /\ fetches[f].pc = "asleep" /\ ~fetches[f].cancelled
  /\ kind = "symbol" /\ client /\ image # 0 /\ text \in Long
  /\ fetches' = [fetches EXCEPT ![f] =
                   [pc |-> "out", cancelled |-> FALSE, image |-> image,
                    query |-> text, generation |-> generation]]
  /\ UNCHANGED <<store, view, left, dismissed, typed>>

\* Mutants of the guards after the await: the text alone; no generation.
CurrentByText(f) == fetches[f].query = text
CurrentByTarget(f) ==
  kind = "symbol" /\ fetches[f].image = image /\ fetches[f].query = text

\* What both branches after the await compare.
Current(f) ==
  /\ kind = "symbol"
  /\ fetches[f].image = image
  /\ fetches[f].query = text
  /\ fetches[f].generation = generation

\* The server answers; it may know no such symbol.
Answer(f, names) ==
  /\ fetches[f].pc = "out"
  /\ list' = IF fetches[f].cancelled \/ ~Current(f) THEN list
             ELSE IF names
             THEN [image |-> fetches[f].image, query |-> fetches[f].query]
             ELSE NoList
  /\ Return(f)
  /\ UNCHANGED <<client, image, kind, text, generation, view, dismissed, typed>>

\* Mutant: an error leaves the previous list.
FailKeepsList(f) ==
  /\ fetches[f].pc = "out"
  /\ Return(f)
  /\ UNCHANGED <<store, view, dismissed, typed>>

\* The request throws, because of the server or of the cancellation; this
\* branch does not ask whether the task was cancelled.
Fail(f) ==
  /\ fetches[f].pc = "out"
  /\ list' = IF Current(f) THEN NoList ELSE list
  /\ Return(f)
  /\ UNCHANGED <<client, image, kind, text, generation, view, dismissed, typed>>
-----------------------------------------------------------------------------
Init ==
  /\ client = FALSE /\ image = 0
  /\ kind = "other" /\ text = Empty
  /\ generation = 0
  /\ list = NoList
  /\ seen = [kind |-> kind, text |-> text]
  /\ current = NoTask
  /\ fetches = [f \in Fetches |-> Idle]
  /\ left = {}
  /\ dismissed = FALSE
  /\ typed = 0

Settle(f) ==
  \/ WakeCancelled(f)
  \/ WakeCleared(f)
  \/ WakeAsks(f)
  \/ \E names \in BOOLEAN : Answer(f, names)
  \/ Fail(f)

Next ==
  \/ \E k \in Kinds : PickKind(k)
  \/ \E t \in Texts : Type(t)
  \/ \E t \in Texts : SelectSymbolSuggestion(t)
  \/ ResetForLoadedImage
  \/ LeaveSymbolTarget
  \/ SetClient
  \/ ViewUpdate
  \/ \E f \in Fetches : Settle(f)

Spec == Init /\ [][Next]_vars

\* The view is rendered, sleeps end, and requests return or time out.
Fairness == WF_vars(ViewUpdate) /\ \A f \in Fetches : WF_vars(Settle(f))
FairSpec == Spec /\ Fairness
-----------------------------------------------------------------------------
Fetch ==
  [pc : {"idle", "asleep"}, cancelled : BOOLEAN, image : {0}, query : {Empty},
   generation : {0}]
  \cup
  [pc : {"out"}, cancelled : BOOLEAN, image : Nat \ {0}, query : Long,
   generation : Nat]

\* The values the store and the view keep; a task that has asked the server
\* asked of an image, and for a searchable text.
TypeOK ==
  /\ client \in BOOLEAN /\ image \in Nat
  /\ kind \in Kinds /\ text \in Texts
  /\ generation \in Nat
  /\ list \in [image : Nat, query : Texts]
  /\ seen \in [kind : Kinds, text : Texts]
  /\ current \in Fetches \cup {NoTask}
  /\ fetches \in [Fetches -> Fetch]
  /\ left \in SUBSET Fetches
  /\ dismissed \in BOOLEAN /\ typed \in Nat

\* A list is only on screen beside a symbol field that holds a searchable
\* text, and was asked of the image loaded now, whatever was loaded, picked
\* or typed while the request was out.
ListFits ==
  list # NoList => kind = "symbol" /\ text \in Long /\ list.image = image

\* A request that was out when the target kind was assigned never changes the
\* list, not even when the same kind and text are back by the time it returns
\* (testInFlightSymbolSuggestionsAreInvalidatedByTargetChanges).
LeftBehindIsIgnored ==
  [][\A f \in left : fetches'[f] # fetches[f] => UNCHANGED list]_vars

\* Choosing a suggestion puts the list away until the user edits again
\* (testSelectingSymbolSuggestionDismissesSuggestionList).
DismissedStaysAway == [][dismissed /\ dismissed' => list' = list]_vars

\* A list for another text than the field holds does not stay: once the user
\* stops typing it is replaced or taken away.
StaleListGoes ==
  list # NoList /\ list.query # text ~> list = NoList \/ list.query = text
=============================================================================
