--------------------------- MODULE WorkbenchStore ---------------------------
(***************************************************************************)
(* WorkbenchStore, the @MainActor state machine of the macOS Workbench.    *)
(*                                                                         *)
(* Every public async method runs on the main actor and gives it up only   *)
(* at an await.  A call in flight is therefore a program counter that      *)
(* names the await it is suspended at, with the local values it captured   *)
(* before; everything between two awaits is one action.  Other gestures,   *)
(* and the answers to other calls, happen between the actions.             *)
(*                                                                         *)
(* Images are numbered by the loadFile request that uploaded them (the     *)
(* server mints a fresh image id per upload); 0 stands for nil.  An        *)
(* address is an image together with an offset into it, which is what      *)
(* lets a property say that a route belongs to the image on screen.        *)
(***************************************************************************)
EXTENDS Integers, Sequences, Functions

CONSTANTS
  Calls,          \* the async calls that may be in flight at once
  Gestures,       \* which entry points the user exercises in this instance
  Offsets,        \* instruction offsets an image may contain
  Filters,        \* the filter texts, each by the offsets it lets through
  NoAddress,      \* nil, as an address
  ClientAtStart,  \* does the server client exist in the first state?
  MaxRequests,    \* bound: gestures that take a request number
  MaxRecent,      \* Self.maxRecentAddressRoutes, 20 in the code
  MaxNavigation   \* Self.maxNavigationAddressRoutes, 100 in the code

AllGestures == {"bootstrap", "load", "badFile", "run", "jump", "back",
                "forward", "pseudocode", "cfg", "hex", "cancel", "shutdown",
                "select", "target", "window", "filter"}

FunctionSurfaces == {"pseudocode", "cfg"}
Surfaces == FunctionSurfaces \cup {"hex"}

Address == Nat \X Offsets
MaybeAddress == Address \cup {NoAddress}
TargetKind == {"section", "symbol", "address"}

ASSUME GesturesAssumption == Gestures \subseteq AllGestures
ASSUME OffsetsAssumption ==
  /\ Offsets \subseteq Nat
  /\ \A S \in SUBSET Offsets : S # {} => \E m \in S : \A n \in S : m <= n
ASSUME FiltersAssumption == Filters \subseteq SUBSET Offsets
ASSUME NoAddressAssumption == NoAddress \notin Address
ASSUME BoundsAssumption ==
  /\ ClientAtStart \in BOOLEAN
  /\ MaxRequests \in Nat
  /\ MaxRecent \in Nat \ {0}
  /\ MaxNavigation \in Nat \ {0}

-----------------------------------------------------------------------------
\* The bounded, duplicate-free, most-recent-first address lists: recentAddressRoutes,
\* backAddressRoutes and forwardAddressRoutes all take an address the same way:
\* remove it where it stands, put it in front, cut the list at its capacity.

\* The place of address a in a list that holds it.
Position(s, a) == CHOOSE i \in DOMAIN s : s[i] = a

\* removeAll { $0 == a }.  The lists never repeat an address (RouteListsSound), so
\* removing every occurrence removes one place.
Without(s, a) ==
  IF a \in Range(s)
  THEN SubSeq(s, 1, Position(s, a) - 1) \o SubSeq(s, Position(s, a) + 1, Len(s))
  ELSE s

\* removeSubrange(max...) when the list has grown beyond max.
Truncate(s, max) == IF Len(s) > max THEN SubSeq(s, 1, max) ELSE s

\* Mutant: an address that is in the list already is not removed first.
PushFrontNoDedupe(s, a, max) == Truncate(<<a>> \o s, max)

\* insertNavigationRoute, and the list half of recordRecentAddressRoute.
PushFront(s, a, max) == Truncate(<<a>> \o Without(s, a), max)
-----------------------------------------------------------------------------

VARIABLES
  client,     \* client # nil
  loadID,     \* loadRequestID
  disasmID,   \* disassemblyRequestID
  image,      \* loadedImage
  form,       \* the target and window controls buildRequest reads
  filter,     \* the offsets instructionFilterText lets through
  disasm,     \* disassembly with lastDisassemblyRequest; id is history
  selected,   \* selectedInstructionAddress
  active,     \* activeAddressRoute
  recent, back, forward,  \* the three route lists
  surface,    \* the image whose pseudocode, cfg, hex is on screen
  busy,       \* isBusy
  calls,      \* the suspended async calls
  cancelled   \* history: calls in flight when Cancel was last pressed

vars == <<client, loadID, disasmID, image, form, filter, disasm, selected,
          active, recent, back, forward, surface, busy, calls, cancelled>>
requests == <<loadID, disasmID>>
routes   == <<active, recent, back, forward>>
display  == <<disasm, selected, active, recent, back, forward>>
-----------------------------------------------------------------------------
(* Requests, rows and the selection.                                       *)

NoRequest == [kind |-> "section", at |-> NoAddress]
NoResult  == [image |-> 0, id |-> 0, request |-> NoRequest, rows |-> {}]

RowsOf(i) == {i} \X Offsets
First(rows) == CHOOSE r \in rows : \A s \in rows : r[2] <= s[2]

\* buildRequest succeeds: the target field is filled and parses, the window
\* fields are integers that do not contradict each other.
Builds(f) ==
  /\ IF f.kind = "address" THEN f.at # NoAddress ELSE f.name
  /\ f.range
  /\ f.limit

RequestOf(f) ==
  [kind |-> f.kind, at |-> IF f.kind = "address" THEN f.at ELSE NoAddress]

\* The rows the server may answer with: any of the image's instructions for a
\* section or symbol; a run that starts at the address for an address target.
RowsFor(request, i) ==
  {rows \in SUBSET RowsOf(i) :
     request.kind = "address" => rows = {} \/ First(rows) = request.at}

Visible(rows, f) == {r \in rows : r[2] \in f}

\* Mutant: a hidden selection is dropped instead of moved to a visible row.
ReconcileDrops(sel, rows, f) == IF sel \in Visible(rows, f) THEN sel ELSE NoAddress

\* reconcileSelectedInstructionWithFilter: what the selection becomes.
Reconcile(sel, rows, f) ==
  IF Visible(rows, f) = {} THEN NoAddress
  ELSE IF sel \in Visible(rows, f) THEN sel
  ELSE First(Visible(rows, f))

\* selectedInstruction (the computed property).
SelectedInstruction ==
  IF disasm.rows = {} THEN NoAddress
  ELSE IF selected \in disasm.rows THEN selected
  ELSE IF filter # Offsets THEN NoAddress
  ELSE First(disasm.rows)

\* functionTarget # nil
HasFunctionTarget ==
  \/ form.kind = "symbol" /\ form.name
  \/ form.kind = "address" /\ form.at # NoAddress
  \/ form.kind = "section" /\ SelectedInstruction # NoAddress

\* Mutant: recordRecentAddressRoute without its guard on nil.
RecordRecentNil(a) == active' = a /\ recent' = PushFront(recent, a, MaxRecent)

\* recordRecentAddressRoute
RecordRecent(a) ==
  IF a = NoAddress
  THEN UNCHANGED <<active, recent>>
  ELSE /\ active' = a
       /\ recent' = PushFront(recent, a, MaxRecent)

\* insertNavigationRoute of an optional source that differs from dest.
PushSource(list, source, dest) ==
  IF source = NoAddress \/ source = dest
  THEN list
  ELSE PushFront(list, source, MaxNavigation)
-----------------------------------------------------------------------------
(* Suspended calls.                                                        *)

Boots == {"boot", "bootLoad", "bootRun", "bootSurface"}
PC == {"idle", "upload", "decode", "fetch"} \cup Boots
Ops == {"none", "bootstrap", "load", "run", "jump", "back", "forward"}
         \cup Surfaces

Idle == [pc |-> "idle", op |-> "none", load |-> 0, dis |-> 0, image |-> 0,
         request |-> NoRequest, source |-> NoAddress, dest |-> NoAddress,
         rest |-> <<>>]
Call(op) == [Idle EXCEPT !.op = op]

Suspend(c, call, pc) == calls' = [calls EXCEPT ![c] = [call EXCEPT !.pc = pc]]
Finish(c) ==
  /\ calls' = [calls EXCEPT ![c] = Idle]
  /\ cancelled' = cancelled \ {c}

Free(c, gesture) == gesture \in Gestures /\ calls[c].pc = "idle"
Budget == disasmID < MaxRequests

\* An early `return false` of runDisassembly, before it owns the busy flag.
\* Inside loadFile the flag is then dropped by loadFile's own defer.
ReturnFalse(c, call) ==
  /\ Finish(c)
  /\ busy' = (busy /\ ~(call.op = "load" /\ call.load = loadID))

\* runDisassembly from buildRequest to the await on the server.
SendDecode(c, call) ==
  \/ /\ ~Builds(form')
     /\ ReturnFalse(c, call)
  \/ /\ Builds(form')
     /\ busy' = TRUE
     /\ Suspend(c, [call EXCEPT !.image = image',
                                !.request = RequestOf(form')], "decode")
     /\ UNCHANGED cancelled

\* runDisassembly from its first line to its first await.  image' and form'
\* are the values the caller left before it called.
BeginRun(c, call) ==
  LET numbered == [call EXCEPT !.dis = disasmID + 1] IN
  /\ disasmID' = disasmID + 1
  /\ \/ /\ image' = 0
        /\ ReturnFalse(c, numbered)
     \/ /\ image' # 0 /\ ~client
        /\ Suspend(c, numbered, "bootRun")
        /\ UNCHANGED <<busy, cancelled>>
     \/ /\ image' # 0 /\ client
        /\ SendDecode(c, numbered)

\* decodeAddressRoute: point the controls at the address, then decode.
DecodeAddressRoute(c, call) ==
  /\ form' = [form EXCEPT !.kind = "address", !.at = call.dest, !.range = TRUE]
  /\ UNCHANGED <<client, loadID, image, filter, surface, display>>
  /\ BeginRun(c, call)
-----------------------------------------------------------------------------
(* Gestures.                                                               *)

\* ContentView.onAppear
Bootstrap(c) ==
  /\ Free(c, "bootstrap")
  /\ ~client
  /\ Suspend(c, Call("bootstrap"), "boot")
  /\ UNCHANGED <<client, requests, image, form, filter, surface, busy,
                 cancelled, display>>

\* loadFile of a file that fails local validation: the request numbers move,
\* the busy flag drops, and the call returns without an await.
LoadBadFile ==
  /\ "badFile" \in Gestures /\ Budget
  /\ loadID' = loadID + 1
  /\ disasmID' = disasmID + 1
  /\ busy' = FALSE
  /\ UNCHANGED <<client, image, form, filter, surface, calls, cancelled,
                 display>>

\* loadFile of an acceptable file, up to its first await.
LoadFile(c) ==
  /\ Free(c, "load") /\ Budget
  /\ loadID' = loadID + 1
  /\ disasmID' = disasmID + 1
  /\ LET call == [Call("load") EXCEPT !.load = loadID + 1] IN
     IF client
     THEN busy' = TRUE /\ Suspend(c, call, "upload")
     ELSE UNCHANGED busy /\ Suspend(c, call, "bootLoad")
  /\ UNCHANGED <<client, image, form, filter, surface, cancelled, display>>

\* runDisassembly from the toolbar, the menu or openSection.
Run(c) ==
  /\ Free(c, "run") /\ Budget
  /\ UNCHANGED <<client, loadID, image, form, filter, surface, display>>
  /\ BeginRun(c, Call("run"))

\* jump(to:) remembers where it came from before it awaits the decode.
Jump(c) ==
  /\ Free(c, "jump") /\ Budget
  /\ \E a \in RowsOf(image) :
       DecodeAddressRoute(c, [Call("jump") EXCEPT !.source = active,
                                                  !.dest = a])

\* navigateBack and navigateForward capture what will remain of their list.
Navigate(c, op, list) ==
  /\ Free(c, op) /\ Budget
  /\ ~busy
  /\ list # <<>>
  /\ DecodeAddressRoute(c, [Call(op) EXCEPT !.source = active,
                                            !.dest = Head(list),
                                            !.rest = Tail(list)])
NavigateBack(c) == Navigate(c, "back", back)
NavigateForward(c) == Navigate(c, "forward", forward)

\* loadPseudocode, loadCfg and loadHex, up to their first await.
LoadSurface(c, s) ==
  /\ Free(c, s)
  /\ image # 0
  /\ s \in FunctionSurfaces => HasFunctionTarget
  /\ IF client
     THEN busy' = TRUE /\ Suspend(c, [Call(s) EXCEPT !.image = image], "fetch")
     ELSE UNCHANGED busy /\ Suspend(c, Call(s), "bootSurface")
  /\ UNCHANGED <<client, requests, image, form, filter, surface, cancelled,
                 display>>

\* cancelCurrentOperation
CancelCurrentOperation ==
  /\ "cancel" \in Gestures /\ Budget
  /\ busy
  /\ loadID' = loadID + 1
  /\ disasmID' = disasmID + 1
  /\ busy' = FALSE
  /\ cancelled' = {c \in Calls : calls[c].pc # "idle"}
  /\ UNCHANGED <<client, image, form, filter, surface, calls, display>>

\* shutdown: calls that already hold the client keep it.
Shutdown ==
  /\ "shutdown" \in Gestures
  /\ client
  /\ client' = FALSE
  /\ UNCHANGED <<requests, image, form, filter, surface, busy, calls,
                 cancelled, display>>

\* selectInstruction; the palette also records the navigation.
SelectInstruction(a, recordsNavigation) ==
  /\ "select" \in Gestures
  /\ a \in disasm.rows
  /\ selected' = a
  /\ IF recordsNavigation /\ active \notin {NoAddress, a}
     THEN /\ back' = PushSource(back, active, a)
          /\ forward' = <<>>
     ELSE UNCHANGED <<back, forward>>
  /\ RecordRecent(a)
  /\ UNCHANGED <<client, requests, image, form, filter, disasm, surface, busy,
                 calls, cancelled>>

\* The user edits the target fields, the window fields, the filter.
EditTarget(kind, at, name) ==
  /\ "target" \in Gestures
  /\ form' = [form EXCEPT !.kind = kind, !.at = at, !.name = name]
  /\ UNCHANGED <<client, requests, image, filter, surface, busy, calls,
                 cancelled, display>>

EditWindow(range, limit) ==
  /\ "window" \in Gestures
  /\ form' = [form EXCEPT !.range = range, !.limit = limit]
  /\ UNCHANGED <<client, requests, image, filter, surface, busy, calls,
                 cancelled, display>>

EditFilter(f) ==
  /\ "filter" \in Gestures
  /\ filter' = f
  /\ selected' = Reconcile(selected, disasm.rows, f)
  /\ UNCHANGED <<client, requests, image, form, disasm, routes, surface, busy,
                 calls, cancelled>>
-----------------------------------------------------------------------------
(* Resumptions: what the awaited task or the server answers.               *)

\* finishBootstrap, and the method that awaited it up to its next await.  A
\* call whose own bootstrap failed still goes on if another made the client.
BootstrapReply(c, ok) ==
  /\ calls[c].pc \in Boots
  /\ client' = (client \/ ok)
  /\ UNCHANGED <<requests, image, form, filter, surface, display>>
  /\ \/ /\ calls[c].pc = "boot" \/ (~client' /\ calls[c].pc # "bootRun")
        /\ Finish(c)
        /\ UNCHANGED busy
     \/ /\ calls[c].pc = "bootRun" /\ ~client'
        /\ ReturnFalse(c, calls[c])
     \/ /\ calls[c].pc = "bootRun" /\ client'
        /\ SendDecode(c, calls[c])
     \/ /\ calls[c].pc = "bootLoad" /\ client'
        /\ busy' = TRUE
        /\ Suspend(c, calls[c], "upload")
        /\ UNCHANGED cancelled
     \/ /\ calls[c].pc = "bootSurface" /\ client'
        /\ busy' = TRUE
        /\ Suspend(c, [calls[c] EXCEPT !.image = image], "fetch")
        /\ UNCHANGED cancelled

\* Mutant: no guard after the upload.
FreshLoadAlways(c) == TRUE

\* guard requestID == loadRequestID
FreshLoad(c) == calls[c].load = loadID

\* The upload of a superseded load, or one that failed.
UploadDropped(c, ok) ==
  /\ calls[c].pc = "upload"
  /\ FreshLoad(c) => ~ok
  /\ busy' = (busy /\ ~FreshLoad(c))
  /\ Finish(c)
  /\ UNCHANGED <<client, requests, image, form, filter, surface, display>>

\* Mutant: the routes of the old image stay.
ResetKeepsRoutes(i, named) ==
  /\ image' = i
  /\ form' = [kind |-> "section", at |-> NoAddress, name |-> named,
              range |-> TRUE, limit |-> TRUE]
  /\ filter' = Offsets
  /\ disasm' = NoResult
  /\ selected' = NoAddress
  /\ UNCHANGED routes

\* resetForLoadedImage: every control and result of the old image goes; the
\* pseudocode, graph and hex surfaces are not touched.
ResetForLoadedImage(i, named) ==
  /\ image' = i
  /\ form' = [kind |-> "section", at |-> NoAddress, name |-> named,
              range |-> TRUE, limit |-> TRUE]
  /\ filter' = Offsets
  /\ disasm' = NoResult
  /\ selected' = NoAddress
  /\ active' = NoAddress
  /\ recent' = <<>> /\ back' = <<>> /\ forward' = <<>>

\* The upload of the current load: install the image and decode it.
UploadInstalled(c, named) ==
  /\ calls[c].pc = "upload"
  /\ FreshLoad(c)
  /\ ResetForLoadedImage(calls[c].load, named)
  /\ UNCHANGED <<client, loadID, surface>>
  /\ BeginRun(c, calls[c])

\* Mutants: no guard after the decode; only the image is compared.
FreshDecodeAlways(c) == TRUE
FreshDecodeImageOnly(c) == calls[c].image = image

\* guard requestID == disassemblyRequestID, loadedImage?.imageId == imageId
FreshDecode(c) == calls[c].dis = disasmID /\ calls[c].image = image

\* Mutant: neither defer is there.
BusyKept(c) == busy

\* The defers of runDisassembly and, around it, of loadFile.
BusyAfterDecode(c) ==
  /\ busy
  /\ calls[c].dis # disasmID
  /\ ~(calls[c].op = "load" /\ calls[c].load = loadID)

\* What a navigation commits once its decode has succeeded.
CommitNavigation(call) ==
  \/ /\ call.op = "jump"
     /\ back' = PushSource(back, call.source, call.dest)
     /\ forward' = IF call.source \in {NoAddress, call.dest}
                   THEN forward ELSE <<>>
  \/ /\ call.op = "back"
     /\ back' = call.rest
     /\ forward' = PushSource(forward, call.source, call.dest)
  \/ /\ call.op = "forward"
     /\ forward' = call.rest
     /\ back' = PushSource(back, call.source, call.dest)
  \/ /\ call.op \in {"run", "load"}
     /\ UNCHANGED <<back, forward>>

\* Mutant: jump and Back ignore what decodeAddressRoute returned.
DecodeDroppedCommits(c, ok) ==
  /\ calls[c].pc = "decode"
  /\ FreshDecode(c) => ~ok
  /\ busy' = BusyAfterDecode(c)
  /\ CommitNavigation(calls[c])
  /\ Finish(c)
  /\ UNCHANGED <<client, requests, image, form, filter, surface, disasm,
                 selected, active, recent>>

\* A decode that was superseded, or that the server refused.
DecodeDropped(c, ok) ==
  /\ calls[c].pc = "decode"
  /\ FreshDecode(c) => ~ok
  /\ busy' = BusyAfterDecode(c)
  /\ Finish(c)
  /\ UNCHANGED <<client, requests, image, form, filter, surface, display>>

\* The decode on the current request: show it, reconcile the selection,
\* record the route, and let the navigation that asked for it commit.
DecodeShown(c, rows) ==
  LET call == calls[c]
      kept == IF selected \in rows THEN selected
              ELSE IF rows = {} THEN NoAddress ELSE First(rows)
  IN
  /\ call.pc = "decode"
  /\ FreshDecode(c)
  /\ disasm' = [image |-> call.image, id |-> call.dis,
                request |-> call.request, rows |-> rows]
  /\ selected' = Reconcile(kept, rows, filter)
  /\ RecordRecent(IF call.request.kind = "address"
                  THEN call.request.at ELSE selected')
  /\ CommitNavigation(call)
  /\ busy' = BusyAfterDecode(c)
  /\ Finish(c)
  /\ UNCHANGED <<client, requests, image, form, filter, surface>>

\* A surface request returns: no request number is compared, and the busy
\* flag drops whoever holds it.
SurfaceReply(c, ok) ==
  /\ calls[c].pc = "fetch"
  /\ busy' = FALSE
  /\ surface' = IF ok
                THEN [surface EXCEPT ![calls[c].op] = calls[c].image]
                ELSE surface
  /\ Finish(c)
  /\ UNCHANGED <<client, requests, image, form, filter, display>>
-----------------------------------------------------------------------------
Init ==
  /\ client = ClientAtStart
  /\ loadID = 0 /\ disasmID = 0
  /\ image = 0
  /\ form = [kind |-> "section", at |-> NoAddress, name |-> FALSE,
             range |-> TRUE, limit |-> TRUE]
  /\ filter = Offsets
  /\ disasm = NoResult
  /\ selected = NoAddress /\ active = NoAddress
  /\ recent = <<>> /\ back = <<>> /\ forward = <<>>
  /\ surface = [s \in Surfaces |-> 0]
  /\ busy = FALSE
  /\ calls = [c \in Calls |-> Idle]
  /\ cancelled = {}

StartCall(c) ==
  \/ Bootstrap(c)
  \/ LoadFile(c)
  \/ Run(c)
  \/ Jump(c)
  \/ NavigateBack(c)
  \/ NavigateForward(c)
  \/ \E s \in Surfaces : LoadSurface(c, s)

Gesture ==
  \/ LoadBadFile
  \/ CancelCurrentOperation
  \/ Shutdown
  \/ \E a \in disasm.rows, r \in BOOLEAN : SelectInstruction(a, r)
  \/ \E k \in TargetKind, a \in RowsOf(image) \cup {NoAddress}, n \in BOOLEAN :
       EditTarget(k, a, n)
  \/ \E r, l \in BOOLEAN : EditWindow(r, l)
  \/ \E f \in Filters : EditFilter(f)

Resume(c) ==
  \/ \E ok \in BOOLEAN : BootstrapReply(c, ok)
  \/ \E ok \in BOOLEAN : UploadDropped(c, ok)
  \/ \E named \in BOOLEAN : UploadInstalled(c, named)
  \/ \E ok \in BOOLEAN : DecodeDropped(c, ok)
  \/ \E rows \in RowsFor(calls[c].request, calls[c].image) :
       DecodeShown(c, rows)
  \/ \E ok \in BOOLEAN : SurfaceReply(c, ok)

Next ==
  \/ Gesture
  \/ \E c \in Calls : StartCall(c) \/ Resume(c)

Spec == Init /\ [][Next]_vars

\* The server answers every request or its connection times out, the server
\* start has its own timeout, and the main actor runs what is ready.
Fairness == \A c \in Calls : WF_vars(Resume(c))
FairSpec == Spec /\ Fairness
-----------------------------------------------------------------------------
(* Properties.                                                             *)

Form == [kind : TargetKind, at : MaybeAddress, name : BOOLEAN,
         range : BOOLEAN, limit : BOOLEAN]
Request == [kind : TargetKind, at : MaybeAddress]
CallRecord == [pc : PC, op : Ops, load : Nat, dis : Nat, image : Nat,
               request : Request, source : MaybeAddress, dest : MaybeAddress,
               rest : Seq(Address)]

\* Every variable holds a value of its declared kind (the optionals, lists
\* and counters declared at the head of WorkbenchStore).
TypeOK ==
  /\ client \in BOOLEAN /\ busy \in BOOLEAN
  /\ loadID \in Nat /\ disasmID \in Nat /\ image \in Nat
  /\ form \in Form
  /\ filter \in SUBSET Offsets
  /\ disasm \in [image : Nat, id : Nat, request : Request,
                 rows : SUBSET Address]
  /\ selected \in MaybeAddress /\ active \in MaybeAddress
  /\ recent \in Seq(Address)
  /\ back \in Seq(Address) /\ forward \in Seq(Address)
  /\ surface \in [Surfaces -> Nat]
  /\ calls \in [Calls -> CallRecord]
  /\ cancelled \in SUBSET Calls

\* The listing on screen, and every row of it, was decoded from the image that
\* is loaded now, however late its answer came (the guard after the await in
\* runDisassembly together with resetForLoadedImage).
ResultOfLoadedImage ==
  disasm # NoResult =>
    /\ disasm.image = image
    /\ disasm.rows \subseteq RowsOf(image)

\* Selection, active route, history and recent routes all point into the
\* loaded image: nothing captured before an await survives a load
\* (testLoadingFileDropsStaleRecentRoutesForPreviousImage).
RoutesOfLoadedImage ==
  {selected, active} \cup Range(recent) \cup Range(back) \cup Range(forward)
    \subseteq RowsOf(image) \cup {NoAddress}

\* The three lists stay free of repeats and within their capacities, also
\* when a list captured before an await is written back after it.
RouteListsSound ==
  /\ \A list \in {recent, back, forward} : IsInjective(list)
  /\ Len(recent) <= MaxRecent
  /\ Len(back) <= MaxNavigation /\ Len(forward) <= MaxNavigation

\* The selection is a row of the listing, and is nil only when the filter
\* hides every row (reconcileSelectedInstructionWithFilter after each change
\* of listing or filter).
SelectionFollowsListing ==
  IF selected = NoAddress
  THEN Visible(disasm.rows, filter) = {}
  ELSE selected \in disasm.rows

\* A listing is only replaced by the answer to a later request: answers that
\* arrive out of order never bring an older request back on screen.
NewestRequestWins ==
  [][disasm' # disasm /\ disasm' # NoResult
       => /\ disasm'.id > disasm.id
          /\ \A c \in Calls : calls[c].dis <= disasm'.id]_vars

\* Once Cancel was pressed, no call that was in flight then changes what is
\* on screen (testCancelCurrentDisassemblyIgnoresLateResult; the button's
\* help says "Cancel the current Damsel operation.").
CancelIsFinal ==
  [][\A c \in cancelled :
       calls'[c] # calls[c] => UNCHANGED <<image, surface, display>>]_vars

\* The history lists only move together with what is displayed: a failed,
\* superseded or cancelled navigation leaves both lists alone
\* (testFailedJumpDoesNotCommitNavigationHistory).
HistoryMovesWithDisplay ==
  [][<<back, forward>>' # <<back, forward>>
       => disasm' # disasm \/ active' # active]_vars

\* Back and Forward shuffle addresses between the two lists and the active
\* route: unless a row was selected while the decode was out, and while a list
\* is below capacity, no address is lost on the way
\* (testNavigationBackAndForwardUseAddressRouteStack).
Reachable == (Range(back) \cup Range(forward) \cup {active}) \ {NoAddress}
Unmoved(call) ==
  /\ active = call.source
  /\ <<call.dest>> \o call.rest = IF call.op = "back" THEN back ELSE forward
BackForwardLoseNothing ==
  [][\A c \in Calls :
       /\ calls[c].op \in {"back", "forward"}
       /\ disasm' # disasm /\ disasm'.id = calls[c].dis
       /\ Unmoved(calls[c])
       /\ Len(back) < MaxNavigation /\ Len(forward) < MaxNavigation
       => Reachable \subseteq Reachable']_vars

\* isBusy is only up while some call is out whose return will take it down:
\* "Wait for the current Damsel operation to finish." has something to wait for.
Owner(c) ==
  \/ calls[c].pc = "upload" /\ calls[c].load = loadID
  \/ calls[c].pc = "decode" /\ calls[c].dis = disasmID
  \/ calls[c].pc = "fetch"
BusyHasOwner == busy => \E c \in Calls : Owner(c)

\* When isBusy is down, no load or decode is out whose answer would still be
\* shown: the menu then says "No Damsel operation is running."
IdleHasNoRequest ==
  ~busy => \A c \in Calls :
             /\ calls[c].pc = "upload" => ~FreshLoad(c)
             /\ calls[c].pc = "decode" => ~FreshDecode(c)

\* The spinner always stops again: every load and decode settles.
BusySettles == busy ~> ~busy

\* What the screen promises, as an abstract specification.
Screen == INSTANCE ListingScreen WITH
            shown  <- [image |-> disasm.image, request |-> disasm.id],
            newest <- disasmID
ScreenSpec == Screen!Spec

\* Back, Forward and jumps keep the history: it moves with the display and loses
\* no address (commit of jump, navigateBack, navigateForward).
HistoryIsKept == HistoryMovesWithDisplay /\ BackForwardLoseNothing
=============================================================================
