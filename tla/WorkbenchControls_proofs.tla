---------------------- MODULE WorkbenchControls_proofs ----------------------
(***************************************************************************)
(* What WorkbenchStore guarantees of the controls around the listing: the  *)
(* route lists, the selection, the busy flag, Cancel and the history.      *)
(***************************************************************************)
EXTENDS WorkbenchStore_proofs
-----------------------------------------------------------------------------
(* What a step leaves of the suspended calls.                              *)

\* The record `new` still carries what `call` captured before its await.
Captured(new, call) ==
  /\ new.op = call.op /\ new.load = call.load
  /\ new.source = call.source /\ new.dest = call.dest /\ new.rest = call.rest

Others(c) == \A d \in Calls \ {c} : calls'[d] = calls[d]

\* What runDisassembly leaves of the call `call` that runs in it.
Runs(c, call) ==
  /\ Captured(calls'[c], call) /\ calls'[c].dis = call.dis
  /\ \/ calls'[c].pc = "bootRun"
     \/ /\ calls'[c].pc = "decode" /\ calls'[c].image = image'
        /\ calls'[c].request = RequestOf(form')

\* Writing one call's record leaves the other calls alone.
LEMMA OneCall ==
  ASSUME TypeOK, NEW c \in Calls, NEW new, calls' = [calls EXCEPT ![c] = new]
  PROVE  calls'[c] = new /\ Others(c)
BY DEF TypeOK, Others

\* runDisassembly drops the call or keeps all that it captured.
LEMMA RunKeepsCapture ==
  ASSUME TypeOK, NEW c \in Calls, NEW call \in CallRecord, RunOutcome(c, call)
  PROVE  Others(c) /\ (calls'[c] = Idle \/ Runs(c, call))
<1>1. CASE calls' = [calls EXCEPT ![c] = Idle]
  BY <1>1, OneCall
<1>2. CASE calls' = [calls EXCEPT ![c] = [call EXCEPT !.pc = "bootRun"]]
  <2> DEFINE new == [call EXCEPT !.pc = "bootRun"]
  <2>1. Captured(new, call) /\ new.dis = call.dis /\ new.pc = "bootRun"
    BY DEF CallRecord, Captured
  <2> HIDE DEF new
  <2> QED BY <1>2, <2>1, OneCall DEF Runs, new
<1>3. CASE calls' = [calls EXCEPT ![c] = [call EXCEPT !.image = image',
                                            !.request = RequestOf(form'),
                                            !.pc = "decode"]]
  <2> DEFINE new == [call EXCEPT !.image = image', !.request = RequestOf(form'),
                                 !.pc = "decode"]
  <2>1. /\ Captured(new, call) /\ new.dis = call.dis /\ new.pc = "decode"
        /\ new.image = image' /\ new.request = RequestOf(form')
    BY DEF CallRecord, Captured
  <2> HIDE DEF new
  <2> QED BY <1>3, <2>1, OneCall DEF Runs, new
<1> QED BY <1>1, <1>2, <1>3 DEF RunOutcome

\* The same from the first line of runDisassembly, which numbers the call.
LEMMA BeginRunKeepsCapture ==
  ASSUME TypeOK, NEW c \in Calls, NEW call \in CallRecord, BeginRun(c, call)
  PROVE  /\ disasmID' = disasmID + 1 /\ Others(c)
         /\ \/ calls'[c] = Idle
            \/ Runs(c, [call EXCEPT !.dis = disasmID + 1])
<1> DEFINE numbered == [call EXCEPT !.dis = disasmID + 1]
<1>1. disasmID' = disasmID + 1 /\ RunOutcome(c, numbered)
  BY BeginRunOutcome
<1>2. disasmID + 1 \in Nat
  BY DEF TypeOK
<1>3. numbered \in CallRecord
  BY <1>2 DEF CallRecord
<1> HIDE DEF numbered
<1>4. Others(c) /\ (calls'[c] = Idle \/ Runs(c, numbered))
  BY <1>1, <1>3, RunKeepsCapture
<1> QED BY <1>1, <1>4 DEF numbered

\* An answer changes its own call: it ends it, or lets it go on with what it
\* captured.
LEMMA ResumeKeepsCapture ==
  ASSUME TypeOK, NEW c \in Calls, Resume(c)
  PROVE  Others(c) /\ (calls'[c] = Idle \/ Captured(calls'[c], calls[c]))
<1>0. calls[c] \in CallRecord
  BY DEF TypeOK
<1>1. CASE Finish(c)
  BY <1>1, OneCall DEF Finish
<1>2. ASSUME NEW pc, Suspend(c, calls[c], pc)
      PROVE  Others(c) /\ Captured(calls'[c], calls[c])
  <2> DEFINE new == [calls[c] EXCEPT !.pc = pc]
  <2>1. Captured(new, calls[c])
    BY <1>0 DEF CallRecord, Captured
  <2> HIDE DEF new
  <2> QED BY <1>2, <2>1, OneCall DEF Suspend, new
<1>3. CASE Suspend(c, [calls[c] EXCEPT !.image = image], "fetch")
  <2> DEFINE new == [calls[c] EXCEPT !.image = image, !.pc = "fetch"]
  <2>1. Captured(new, calls[c])
    BY <1>0 DEF CallRecord, Captured
  <2>2. calls' = [calls EXCEPT ![c] = new]
    BY <1>3 DEF Suspend
  <2> HIDE DEF new
  <2> QED BY <2>1, <2>2, OneCall
<1>4. CASE SendDecode(c, calls[c])
  BY <1>0, <1>4, SendDecodeOutcome, RunKeepsCapture DEF Runs
<1>5. CASE BeginRun(c, calls[c])
  <2> DEFINE numbered == [calls[c] EXCEPT !.dis = disasmID + 1]
  <2>1. Captured(numbered, calls[c])
    BY <1>0 DEF CallRecord, Captured
  <2> HIDE DEF numbered
  <2>2. Others(c) /\ (calls'[c] = Idle \/ Runs(c, numbered))
    BY <1>0, <1>5, BeginRunKeepsCapture DEF numbered
  <2> QED BY <2>1, <2>2 DEF Runs, Captured
<1> QED BY <1>1, <1>2, <1>3, <1>4, <1>5
        DEF Resume, BootstrapReply, ReturnFalse, UploadDropped, UploadInstalled,
            DecodeDropped, DecodeShown, SurfaceReply

\* A navigation starts as runDisassembly on the controls set to its address.
Aims(call) ==
  /\ call.pc = "decode" => /\ call.request.kind = "address"
                           /\ call.request.at = call.dest
  /\ call.pc = "bootRun" => form.kind = "address" /\ form.at = call.dest

\* decodeAddressRoute leaves the call aimed at its address, in the controls
\* while it waits for the server and in its request once that is sent.
LEMMA DecodeAddressRouteAims ==
  ASSUME TypeOK, NEW c \in Calls, NEW call \in CallRecord,
         DecodeAddressRoute(c, call)
  PROVE  /\ Others(c) /\ disasmID' = disasmID + 1
         /\ \/ calls'[c] = Idle
            \/ /\ Captured(calls'[c], call) /\ calls'[c].pc \in Running
               /\ calls'[c].dis = disasmID' /\ Aims(calls[c])'
<1>1. /\ form'.kind = "address" /\ form'.at = call.dest
      /\ BeginRun(c, call)
  BY DEF DecodeAddressRoute, TypeOK, Form
<1>2. /\ RequestOf(form').kind = "address" /\ RequestOf(form').at = call.dest
  BY <1>1 DEF RequestOf
<1> DEFINE n == disasmID + 1
           numbered == [call EXCEPT !.dis = n]
<1>3. Captured(numbered, call) /\ numbered.dis = n
  BY DEF CallRecord, Captured
<1>4. /\ Others(c) /\ disasmID' = n
      /\ calls'[c] = Idle \/ Runs(c, numbered)
  BY <1>1, BeginRunKeepsCapture
<1> HIDE DEF n, numbered
<1>5. CASE Runs(c, numbered)
  <2>1. /\ Captured(calls'[c], call) /\ calls'[c].dis = disasmID'
        /\ calls'[c].pc \in Running /\ calls'[c].dest = call.dest
    BY <1>3, <1>4, <1>5 DEF Runs, Captured, Running
  <2>2. Aims(calls[c])'
    BY <1>1, <1>2, <1>5, <2>1 DEF Aims, Runs
  <2> QED BY <1>4, <2>1, <2>2 DEF n
<1> QED BY <1>4, <1>5 DEF n

\* A call starts from a free record.  Only Back and Forward capture what will
\* remain of a list, and a navigation starts aimed at its address.
LEMMA StartCallCaptures ==
  ASSUME TypeOK, NEW c \in Calls, StartCall(c)
  PROVE  /\ calls[c].pc = "idle" /\ Others(c)
         /\ calls'[c].rest \in
              {<<>>} \cup {Tail(list) : list \in {back, forward} \ {<<>>}}
         /\ calls'[c].op \in Navigations
              => /\ calls'[c].pc \in Running /\ calls'[c].dis = disasmID'
                 /\ disasmID' = disasmID + 1 /\ Aims(calls[c])'
         /\ calls'[c].pc \in {"fetch", "bootSurface"}
              => Gestures \cap Surfaces # {}
<1>0. /\ Idle \in CallRecord /\ Idle.op = "none" /\ Idle.rest = <<>>
      /\ Idle.pc = "idle" /\ calls[c].pc = "idle"
  BY ConstantsTyped
     DEF Idle, StartCall, Bootstrap, LoadFile, Run, Jump, NavigateBack,
         NavigateForward, Navigate, LoadSurface, Free
<1>1. ASSUME NEW new, calls' = [calls EXCEPT ![c] = new],
             new.op \notin Navigations, new.rest = <<>>
      PROVE  /\ Others(c) /\ calls'[c].op \notin Navigations
             /\ calls'[c].rest = <<>> /\ calls'[c].pc = new.pc
  BY <1>1, OneCall
<1>2. ASSUME NEW op \in {"bootstrap", "load"} \cup Surfaces
      PROVE  /\ Call(op) \in CallRecord /\ Call(op).op = op
             /\ Call(op).rest = <<>> /\ op \notin Navigations
  BY <1>0 DEF Call, CallRecord, Ops, Surfaces, FunctionSurfaces, Navigations
<1>3. CASE Bootstrap(c)
  <2> DEFINE new == [Call("bootstrap") EXCEPT !.pc = "boot"]
  <2>1. new.op = "bootstrap" /\ new.rest = <<>> /\ new.pc = "boot"
    BY <1>2 DEF CallRecord
  <2>2. calls' = [calls EXCEPT ![c] = new]
    BY <1>3 DEF Bootstrap, Suspend
  <2> HIDE DEF new
  <2> QED BY <1>0, <1>1, <1>2, <2>1, <2>2
<1>4. CASE LoadFile(c)
  <2> DEFINE call == [Call("load") EXCEPT !.load = loadID + 1]
  <2>1. PICK pc \in {"upload", "bootLoad"} :
          calls' = [calls EXCEPT ![c] = [call EXCEPT !.pc = pc]]
    BY <1>4 DEF LoadFile, Suspend
  <2>2. /\ [call EXCEPT !.pc = pc].op = "load"
        /\ [call EXCEPT !.pc = pc].rest = <<>> /\ [call EXCEPT !.pc = pc].pc = pc
    BY <1>2 DEF CallRecord
  <2> HIDE DEF call
  <2> QED BY <1>0, <1>1, <1>2, <2>1, <2>2
<1>5. ASSUME NEW s \in Surfaces, LoadSurface(c, s)
       PROVE  /\ Others(c) /\ calls'[c].op \notin Navigations
              /\ calls'[c].rest = <<>> /\ Gestures \cap Surfaces # {}
  <2>1. PICK new \in {[Call(s) EXCEPT !.image = image, !.pc = "fetch"],
                      [Call(s) EXCEPT !.pc = "bootSurface"]} :
          calls' = [calls EXCEPT ![c] = new]
    BY <1>5 DEF LoadSurface, Suspend
  <2>2. /\ [Call(s) EXCEPT !.image = image, !.pc = "fetch"].op = s
        /\ [Call(s) EXCEPT !.image = image, !.pc = "fetch"].rest = <<>>
        /\ [Call(s) EXCEPT !.pc = "bootSurface"].op = s
        /\ [Call(s) EXCEPT !.pc = "bootSurface"].rest = <<>>
    BY <1>2 DEF CallRecord
  <2>3. new.op \notin Navigations /\ new.rest = <<>>
    BY <1>2, <2>2
  <2>4. s \in Gestures
    BY <1>5 DEF LoadSurface, Free
  <2> QED BY <1>1, <2>1, <2>3, <2>4
<1>6. CASE Run(c)
  <2>1. BeginRun(c, Call("run"))
    BY <1>6 DEF Run
  <2>2. /\ Call("run") \in CallRecord /\ Call("run").op = "run"
        /\ Call("run").rest = <<>>
    BY <1>0 DEF Call, CallRecord, Ops
  <2> DEFINE numbered == [Call("run") EXCEPT !.dis = disasmID + 1]
  <2>3. Captured(numbered, Call("run"))
    BY <2>2 DEF CallRecord, Captured
  <2>4. Others(c) /\ (calls'[c] = Idle \/ Runs(c, numbered))
    BY <2>1, <2>2, BeginRunKeepsCapture
  <2> HIDE DEF numbered
  <2> QED BY <1>0, <2>2, <2>3, <2>4 DEF Runs, Captured, Navigations
<1>7. CASE Jump(c)
  <2>1. PICK a \in RowsOf(image) :
          DecodeAddressRoute(c, [Call("jump") EXCEPT !.source = active,
                                                     !.dest = a])
    BY <1>7 DEF Jump
  <2> DEFINE call == [Call("jump") EXCEPT !.source = active, !.dest = a]
  <2>2. a \in MaybeAddress
    BY RowsTyped DEF MaybeAddress, TypeOK
  <2>3. call \in CallRecord /\ call.rest = <<>>
    BY <1>0, <2>2 DEF Call, CallRecord, TypeOK, Ops
  <2> HIDE DEF call
  <2> QED BY <1>0, <2>1, <2>3, DecodeAddressRouteAims
          DEF Captured, call, Navigations, Running
<1>8. ASSUME NEW op \in {"back", "forward"}, NEW list \in {back, forward},
             Navigate(c, op, list)
      PROVE  /\ Others(c) /\ calls'[c].rest \in {<<>>, Tail(list)} /\ list # <<>>
             /\ calls'[c].op \in Navigations
                  => /\ calls'[c].pc \in Running /\ calls'[c].dis = disasmID'
                     /\ disasmID' = disasmID + 1 /\ Aims(calls[c])'
             /\ calls'[c].pc \notin {"fetch", "bootSurface"}
  <2> DEFINE call == [Call(op) EXCEPT !.source = active, !.dest = Head(list),
                                      !.rest = Tail(list)]
  <2>1. list # <<>> /\ DecodeAddressRoute(c, call)
    BY <1>8 DEF Navigate
  <2>2. Head(list) \in Address /\ Tail(list) \in Seq(Address)
    BY <2>1, HeadTailProperties DEF TypeOK
  <2>3. call \in CallRecord /\ call.rest = Tail(list)
    BY <1>0, <2>2 DEF Call, CallRecord, TypeOK, Ops, MaybeAddress
  <2> HIDE DEF call
  <2> QED BY <1>0, <2>1, <2>3, DecodeAddressRouteAims
          DEF Captured, Navigations, Running
<1>9. CASE NavigateBack(c) \/ NavigateForward(c)
  BY <1>0, <1>8, <1>9 DEF NavigateBack, NavigateForward
<1> QED BY <1>0, <1>3, <1>4, <1>5, <1>6, <1>7, <1>9 DEF StartCall
-----------------------------------------------------------------------------
(* The route lists.                                                        *)

\* What Back and Forward captured of a list is as sound as the list.
CapturedSound ==
  \A c \in Calls :
    IsInjective(calls[c].rest) /\ Len(calls[c].rest) <= MaxNavigation
ListsInv == RouteListsSound /\ CapturedSound

\* What remains of a list without repeats has none, and is no longer.
LEMMA TailSound ==
  ASSUME NEW S, NEW s \in Seq(S), s # <<>>
  PROVE  /\ IsInjective(s) => IsInjective(Tail(s))
         /\ \A n \in Nat : Len(s) <= n => Len(Tail(s)) <= n
<1>1. /\ Tail(s) \in Seq(S) /\ Len(Tail(s)) = Len(s) - 1
      /\ \A i \in 1 .. Len(Tail(s)) : Tail(s)[i] = s[i + 1]
  BY HeadTailProperties
<1>2. /\ Len(s) \in Nat /\ DOMAIN s = 1 .. Len(s)
      /\ DOMAIN Tail(s) = 1 .. Len(Tail(s))
  BY <1>1, LenProperties
<1>3. ASSUME IsInjective(s), NEW i \in DOMAIN Tail(s), NEW j \in DOMAIN Tail(s),
             Tail(s)[i] = Tail(s)[j]
      PROVE  i = j
  <2>1. /\ i + 1 \in DOMAIN s /\ j + 1 \in DOMAIN s /\ s[i + 1] = s[j + 1]
        /\ i \in Nat /\ j \in Nat
    BY <1>1, <1>2, <1>3
  <2>2. i + 1 = j + 1
    BY <1>3, <2>1 DEF IsInjective
  <2> QED BY <2>1, <2>2
<1> QED BY <1>1, <1>2, <1>3 DEF IsInjective

\* The empty list is sound.
LEMMA EmptySound == IsInjective(<<>>) /\ Len(<<>>) = 0 /\ Range(<<>>) = {}
BY DEF IsInjective, Range

\* A list that a suspended call captured stays sound, whatever a step does.
LEMMA StepCaptured ==
  ASSUME TypeOK, ListsInv, [Next]_vars
  PROVE  CapturedSound'
<1>0. /\ MaxNavigation \in Nat /\ Idle.rest = <<>>
      /\ back \in Seq(Address) /\ forward \in Seq(Address)
  BY BoundsAssumption DEF TypeOK, Idle
<1>1. CASE Gesture \/ UNCHANGED vars
  <2>1. calls' = calls
    BY <1>1 DEF vars, Gesture, LoadBadFile, CancelCurrentOperation, Shutdown,
                SelectInstruction, EditTarget, EditWindow, EditFilter
  <2> QED BY <2>1 DEF ListsInv, CapturedSound
<1>2. ASSUME NEW c \in Calls, Others(c),
             IsInjective(calls'[c].rest) /\ Len(calls'[c].rest) <= MaxNavigation
      PROVE  CapturedSound'
  BY <1>2 DEF ListsInv, CapturedSound, Others
<1>3. ASSUME NEW c \in Calls, StartCall(c) PROVE CapturedSound'
  <2>1. /\ Others(c)
        /\ calls'[c].rest \in
             {<<>>} \cup {Tail(list) : list \in {back, forward} \ {<<>>}}
    BY <1>3, StartCallCaptures
  <2>2. ASSUME NEW list \in {back, forward} \ {<<>>}
        PROVE  IsInjective(Tail(list)) /\ Len(Tail(list)) <= MaxNavigation
    BY <1>0, TailSound DEF ListsInv, RouteListsSound
  <2>3. IsInjective(<<>>) /\ Len(<<>>) <= MaxNavigation
    BY <1>0, EmptySound
  <2>4. IsInjective(calls'[c].rest) /\ Len(calls'[c].rest) <= MaxNavigation
    <3>1. CASE calls'[c].rest = <<>>
      BY <2>3, <3>1
    <3>2. ASSUME NEW list \in {back, forward} \ {<<>>}, calls'[c].rest = Tail(list)
          PROVE  IsInjective(calls'[c].rest) /\ Len(calls'[c].rest) <= MaxNavigation
      BY <2>2, <3>2
    <3> QED BY <2>1, <3>1, <3>2
  <2> QED BY <1>2, <2>1, <2>4
<1>4. ASSUME NEW c \in Calls, Resume(c) PROVE CapturedSound'
  <2>1. Others(c) /\ calls'[c].rest \in {<<>>, calls[c].rest}
    BY <1>0, <1>4, ResumeKeepsCapture DEF Captured
  <2>2. /\ IsInjective(calls[c].rest) /\ Len(calls[c].rest) <= MaxNavigation
        /\ IsInjective(<<>>) /\ Len(<<>>) <= MaxNavigation
    BY <1>0, EmptySound DEF ListsInv, CapturedSound
  <2>3. IsInjective(calls'[c].rest) /\ Len(calls'[c].rest) <= MaxNavigation
    <3>1. CASE calls'[c].rest = <<>>
      BY <2>2, <3>1
    <3>2. CASE calls'[c].rest = calls[c].rest
      BY <2>2, <3>2
    <3> QED BY <2>1, <3>1, <3>2
  <2> QED BY <1>2, <2>1, <2>3
<1> QED BY <1>1, <1>3, <1>4 DEF Next

\* The steps that touch the listing, the selection, a route list or the filter.
LEMMA DisplayChange ==
  ASSUME [Next]_vars
  PROVE  \/ UNCHANGED <<display, filter>>
         \/ \E a \in disasm.rows, r \in BOOLEAN : SelectInstruction(a, r)
         \/ \E f \in Filters : EditFilter(f)
         \/ \E c \in Calls, named \in BOOLEAN : UploadInstalled(c, named)
         \/ \E c \in Calls :
              \E rows \in RowsFor(calls[c].request, calls[c].image) :
                DecodeShown(c, rows)
<1>1. CASE Gesture
  BY <1>1 DEF Gesture, LoadBadFile, CancelCurrentOperation, Shutdown, EditTarget,
              EditWindow
<1>2. ASSUME NEW c \in Calls, StartCall(c) PROVE UNCHANGED <<display, filter>>
  BY <1>2 DEF StartCall, Bootstrap, LoadFile, Run, Jump, NavigateBack,
              NavigateForward, Navigate, LoadSurface, DecodeAddressRoute
<1>3. ASSUME NEW c \in Calls, NEW ok \in BOOLEAN,
             \/ BootstrapReply(c, ok) \/ UploadDropped(c, ok)
             \/ DecodeDropped(c, ok) \/ SurfaceReply(c, ok)
      PROVE  UNCHANGED <<display, filter>>
  BY <1>3 DEF BootstrapReply, UploadDropped, DecodeDropped, SurfaceReply
<1>4. CASE UNCHANGED vars
  BY <1>4 DEF vars, display
<1> QED BY <1>1, <1>2, <1>3, <1>4 DEF Next, Resume

\* Every step keeps the lists free of repeats and within their capacities.
LEMMA StepLists ==
  ASSUME TypeOK, TypeOK', ListsInv, [Next]_vars
  PROVE  RouteListsSound'
<1>0. /\ recent \in Seq(Address) /\ back \in Seq(Address)
      /\ forward \in Seq(Address) /\ active \in MaybeAddress
      /\ MaxRecent \in Nat /\ MaxNavigation \in Nat
  BY BoundsAssumption DEF TypeOK
<1>1. CASE UNCHANGED display \/ \E f \in Filters : EditFilter(f)
  BY <1>1 DEF display, EditFilter, routes, ListsInv, RouteListsSound
<1>2. ASSUME NEW a \in disasm.rows, NEW r \in BOOLEAN, SelectInstruction(a, r)
      PROVE  RouteListsSound'
  <2>1. a \in MaybeAddress
    BY DEF TypeOK, MaybeAddress
  <2>2. IsInjective(recent') /\ Len(recent') <= MaxRecent
    BY <1>0, <1>2, <2>1, RecordRecentSound
       DEF SelectInstruction, ListsInv, RouteListsSound
  <2>3. /\ IsInjective(PushSource(back, active, a))
        /\ Len(PushSource(back, active, a)) <= MaxNavigation
    BY <1>0, PushSourceSound DEF ListsInv, RouteListsSound
  <2>4. /\ IsInjective(back') /\ Len(back') <= MaxNavigation
        /\ IsInjective(forward') /\ Len(forward') <= MaxNavigation
    BY <1>0, <1>2, <2>3, EmptySound
       DEF SelectInstruction, ListsInv, RouteListsSound
  <2> QED BY <2>2, <2>4 DEF RouteListsSound
<1>3. ASSUME NEW c \in Calls, NEW named \in BOOLEAN, UploadInstalled(c, named)
      PROVE  RouteListsSound'
  BY <1>0, <1>3, EmptySound
     DEF UploadInstalled, ResetForLoadedImage, RouteListsSound
<1>4. ASSUME NEW c \in Calls,
             NEW rows \in RowsFor(calls[c].request, calls[c].image),
             DecodeShown(c, rows)
      PROVE  RouteListsSound'
  <2> DEFINE a == IF calls[c].request.kind = "address"
                  THEN calls[c].request.at ELSE selected'
  <2>1. calls[c] \in CallRecord /\ selected' \in MaybeAddress
    BY DEF TypeOK
  <2>2. a \in MaybeAddress /\ RecordRecent(a)
    BY <1>4, <2>1 DEF CallRecord, Request, DecodeShown
  <2> HIDE DEF a
  <2>3. IsInjective(recent') /\ Len(recent') <= MaxRecent
    BY <1>0, <2>2, RecordRecentSound DEF ListsInv, RouteListsSound
  <2>4. ASSUME NEW list \in {back, forward}
        PROVE  /\ IsInjective(PushSource(list, calls[c].source, calls[c].dest))
               /\ Len(PushSource(list, calls[c].source, calls[c].dest))
                    <= MaxNavigation
    BY <1>0, <2>1, PushSourceSound DEF CallRecord, ListsInv, RouteListsSound
  <2>5. IsInjective(calls[c].rest) /\ Len(calls[c].rest) <= MaxNavigation
    BY DEF ListsInv, CapturedSound
  <2>6. CommitNavigation(calls[c])
    BY <1>4 DEF DecodeShown
  <2>7. /\ IsInjective(back') /\ Len(back') <= MaxNavigation
        /\ IsInjective(forward') /\ Len(forward') <= MaxNavigation
    BY <1>0, <2>4, <2>5, <2>6, EmptySound
       DEF CommitNavigation, ListsInv, RouteListsSound
  <2> QED BY <2>3, <2>7 DEF RouteListsSound
<1> QED BY <1>1, <1>2, <1>3, <1>4, DisplayChange

\* The recent, back and forward lists never repeat an address and never outgrow
\* their capacities: also not when Back or Forward commits, after its decode, the
\* list it captured before (navigateBack, navigateForward, insertNavigationRoute).
THEOREM ListsSound == Spec => []RouteListsSound
<1>1. Init => ListsInv
  <2> SUFFICES ASSUME Init PROVE ListsInv
    OBVIOUS
  <2>1. \A c \in Calls : calls[c].rest = <<>>
    BY DEF Init, Idle
  <2>2. MaxRecent \in Nat /\ MaxNavigation \in Nat
    BY BoundsAssumption
  <2> QED BY <2>1, <2>2, EmptySound
          DEF Init, ListsInv, RouteListsSound, CapturedSound
<1>2. TypeOK /\ TypeOK' /\ ListsInv /\ [Next]_vars => ListsInv'
  BY StepCaptured, StepLists DEF ListsInv
<1>3. ListsInv => RouteListsSound
  BY DEF ListsInv
<1> QED BY <1>1, <1>2, <1>3, TypeCorrect, PTL DEF Spec
-----------------------------------------------------------------------------
(* The selection.                                                          *)

\* The reconciled selection is a row, or nil because no row is visible.
LEMMA ReconcileFollows ==
  ASSUME NEW sel, NEW rows \in SUBSET Address, NEW f
  PROVE  \/ Reconcile(sel, rows, f) \in rows
         \/ Reconcile(sel, rows, f) = NoAddress /\ Visible(rows, f) = {}
<1>1. Visible(rows, f) \subseteq rows
  BY DEF Visible
<1>2. Visible(rows, f) # {} => First(Visible(rows, f)) \in rows
  BY <1>1, FirstRow
<1> QED BY <1>1, <1>2 DEF Reconcile

\* Every step that changes listing, selection or filter reconciles them.
LEMMA StepSelection ==
  ASSUME TypeOK, TypeOK', SelectionFollowsListing, [Next]_vars
  PROVE  SelectionFollowsListing'
<1>0. \A rows \in SUBSET Address : NoAddress \notin rows
  BY NoAddressAssumption
<1>1. CASE UNCHANGED <<display, filter>>
  BY <1>1 DEF display, SelectionFollowsListing
<1>2. ASSUME NEW a \in disasm.rows, NEW r \in BOOLEAN, SelectInstruction(a, r)
      PROVE  SelectionFollowsListing'
  BY <1>0, <1>2 DEF SelectInstruction, SelectionFollowsListing, TypeOK
<1>3. ASSUME NEW f \in Filters, EditFilter(f) PROVE SelectionFollowsListing'
  <2>1. disasm' = disasm /\ filter' = f /\ disasm.rows \in SUBSET Address
    BY <1>3 DEF EditFilter, TypeOK
  <2>2. \/ selected' \in disasm.rows
        \/ selected' = NoAddress /\ Visible(disasm.rows, f) = {}
    BY <1>3, <2>1, ReconcileFollows DEF EditFilter
  <2> QED BY <1>0, <2>1, <2>2 DEF SelectionFollowsListing
<1>4. ASSUME NEW c \in Calls, NEW named \in BOOLEAN, UploadInstalled(c, named)
      PROVE  SelectionFollowsListing'
  <2>1. selected' = NoAddress /\ disasm'.rows = {}
    BY <1>4 DEF UploadInstalled, ResetForLoadedImage, NoResult
  <2> QED BY <2>1 DEF SelectionFollowsListing, Visible
<1>5. ASSUME NEW c \in Calls,
             NEW rows \in RowsFor(calls[c].request, calls[c].image),
             DecodeShown(c, rows)
      PROVE  SelectionFollowsListing'
  <2>1. disasm'.rows = rows /\ filter' = filter
    BY <1>5 DEF DecodeShown
  <2>2. rows \in SUBSET Address
    BY <2>1 DEF TypeOK
  <2>3. PICK kept : selected' = Reconcile(kept, rows, filter)
    BY <1>5 DEF DecodeShown
  <2>4. \/ selected' \in rows
        \/ selected' = NoAddress /\ Visible(rows, filter) = {}
    BY <2>2, <2>3, ReconcileFollows
  <2> QED BY <1>0, <2>1, <2>2, <2>4 DEF SelectionFollowsListing
<1> QED BY <1>1, <1>2, <1>3, <1>4, <1>5, DisplayChange

\* The selection is a row of the listing, or nil because the filter hides every
\* row, after any order of answers, selections and edits of the filter
\* (reconcileSelectedInstructionWithFilter).
THEOREM SelectionFollows == Spec => []SelectionFollowsListing
<1>1. Init => SelectionFollowsListing
  BY DEF Init, SelectionFollowsListing, NoResult, Visible
<1>2. TypeOK /\ TypeOK' /\ SelectionFollowsListing /\ [Next]_vars
        => SelectionFollowsListing'
  BY StepSelection
<1> QED BY <1>1, <1>2, TypeCorrect, PTL DEF Spec
-----------------------------------------------------------------------------
(* Back and forward history.                                               *)

\* There is history only while there is a listing.
HistoryHasListing == disasm = NoResult => back = <<>> /\ forward = <<>>

\* A selected row is no other address than a row of the listing, so it implies
\* that there is one; and an answer shown is of a request, hence not NoResult.
LEMMA HistoryStep ==
  ASSUME IInv, HistoryHasListing, [Next]_vars
  PROVE  /\ HistoryHasListing'
         /\ <<back, forward>>' # <<back, forward>>
              => disasm' # disasm \/ active' # active
<1>0. /\ TypeOK' /\ disasm.id \in Nat /\ disasmID \in Nat /\ NoResult.id = 0
      /\ NoResult.rows = {}
  BY GestureTyped, StartCallTyped, ResumeTyped, StutterTyped
     DEF Next, IInv, TypeOK, NoResult
<1>1. CASE UNCHANGED <<display, filter>> \/ \E f \in Filters : EditFilter(f)
  BY <1>1 DEF display, EditFilter, routes, HistoryHasListing
<1>2. ASSUME NEW a \in disasm.rows, NEW r \in BOOLEAN, SelectInstruction(a, r)
      PROVE  /\ disasm' = disasm /\ disasm # NoResult
             /\ <<back, forward>>' # <<back, forward>> => active' # active
  <2>1. a # NoAddress
    BY NoAddressAssumption DEF IInv, TypeOK
  <2> QED BY <1>0, <1>2, <2>1 DEF SelectInstruction, RecordRecent
<1>3. ASSUME NEW c \in Calls, NEW named \in BOOLEAN, UploadInstalled(c, named)
      PROVE  back' = <<>> /\ forward' = <<>> /\ disasm' = NoResult
  BY <1>3 DEF UploadInstalled, ResetForLoadedImage
<1>4. ASSUME NEW c \in Calls,
             NEW rows \in RowsFor(calls[c].request, calls[c].image),
             DecodeShown(c, rows)
      PROVE  disasm' # disasm /\ disasm' # NoResult
  <2>1. disasm'.id = disasmID /\ disasm.id < disasmID
    BY <1>0, <1>4, DecodeShownKeeps
  <2> QED BY <1>0, <2>1
<1> QED BY <1>1, <1>2, <1>3, <1>4, DisplayChange DEF HistoryHasListing

\* A failed, superseded or cancelled navigation leaves both lists alone: they
\* only change in a step that changes the listing or the active route.
THEOREM HistoryMoves == Spec => HistoryMovesWithDisplay
<1>1. Init => HistoryHasListing
  BY DEF Init, HistoryHasListing
<1>2. IInv /\ HistoryHasListing /\ [Next]_vars => HistoryHasListing'
  BY HistoryStep
<1>3. IInv /\ HistoryHasListing /\ [Next]_vars
        => [<<back, forward>>' # <<back, forward>>
              => disasm' # disasm \/ active' # active]_vars
  BY HistoryStep
<1> QED BY <1>1, <1>2, <1>3, Invariance, PTL DEF Spec, HistoryMovesWithDisplay
-----------------------------------------------------------------------------
(* Cancel.                                                                 *)

\* A call in flight when Cancel was pressed has an old number for as long as it
\* is out; no surface is fetched, whose answers carry no number.
CancelledStale ==
  /\ \A c \in Calls : calls[c].pc \notin {"fetch", "bootSurface"}
  /\ \A c \in cancelled :
       /\ calls[c].pc # "idle"
       /\ calls[c].pc \in Loading => calls[c].load < loadID
       /\ calls[c].pc \in Running => calls[c].dis < disasmID

\* After the wait for the server a call has returned, or goes on with its
\* numbers: into its decode, its upload or its fetch.
LEMMA BootstrapReplyCalls ==
  ASSUME TypeOK, NEW c \in Calls, NEW ok \in BOOLEAN, BootstrapReply(c, ok)
  PROVE  /\ Others(c) /\ UNCHANGED requests /\ cancelled' \subseteq cancelled
         /\ \/ calls'[c] = Idle /\ c \notin cancelled'
            \/ calls[c].pc = "bootRun" /\ Runs(c, calls[c])
            \/ /\ calls[c].pc = "bootLoad" /\ calls'[c].pc = "upload"
               /\ Captured(calls'[c], calls[c])
            \/ calls[c].pc = "bootSurface" /\ calls'[c].pc = "fetch"
<1>0. calls[c] \in CallRecord /\ UNCHANGED requests
  BY DEF TypeOK, BootstrapReply
<1>1. CASE Finish(c)
  BY <1>0, <1>1, OneCall DEF Finish
<1>2. CASE calls[c].pc = "bootRun" /\ SendDecode(c, calls[c])
  <2>1. CASE ReturnFalse(c, calls[c])
    BY <1>1, <2>1 DEF ReturnFalse
  <2>2. CASE /\ UNCHANGED cancelled
             /\ Suspend(c, [calls[c] EXCEPT !.image = image',
                                            !.request = RequestOf(form')],
                        "decode")
    <3> DEFINE new == [calls[c] EXCEPT !.image = image',
                                       !.request = RequestOf(form'),
                                       !.pc = "decode"]
    <3>1. /\ Captured(new, calls[c]) /\ new.dis = calls[c].dis
          /\ new.pc = "decode" /\ new.image = image'
          /\ new.request = RequestOf(form')
      BY <1>0 DEF CallRecord, Captured
    <3>2. calls' = [calls EXCEPT ![c] = new]
      BY <2>2 DEF Suspend
    <3> HIDE DEF new
    <3> QED BY <1>0, <1>2, <2>2, <3>1, <3>2, OneCall DEF Runs
  <2> QED BY <1>2, <2>1, <2>2 DEF SendDecode
<1>3. CASE /\ calls[c].pc = "bootLoad" /\ Suspend(c, calls[c], "upload")
           /\ UNCHANGED cancelled
  <2> DEFINE new == [calls[c] EXCEPT !.pc = "upload"]
  <2>1. Captured(new, calls[c]) /\ new.pc = "upload"
    BY <1>0 DEF CallRecord, Captured
  <2>2. calls' = [calls EXCEPT ![c] = new]
    BY <1>3 DEF Suspend
  <2> HIDE DEF new
  <2> QED BY <1>0, <1>3, <2>1, <2>2, OneCall
<1>4. CASE /\ calls[c].pc = "bootSurface" /\ UNCHANGED cancelled
           /\ Suspend(c, [calls[c] EXCEPT !.image = image], "fetch")
  <2> DEFINE new == [calls[c] EXCEPT !.image = image, !.pc = "fetch"]
  <2>1. new.pc = "fetch"
    BY <1>0 DEF CallRecord
  <2>2. calls' = [calls EXCEPT ![c] = new]
    BY <1>4 DEF Suspend
  <2> HIDE DEF new
  <2> QED BY <1>0, <1>4, <2>1, <2>2, OneCall
<1> QED BY <1>1, <1>2, <1>3, <1>4 DEF BootstrapReply, ReturnFalse

\* The answer to a call in flight when Cancel was pressed is dropped.
LEMMA CancelledDropped ==
  ASSUME IInv, CancelledStale, NEW c \in cancelled, Resume(c)
  PROVE  /\ UNCHANGED <<image, surface, display>>
         /\ \/ \E ok \in BOOLEAN : BootstrapReply(c, ok)
            \/ Finish(c) /\ UNCHANGED requests
<1>1. ~(FreshLoad(c) /\ calls[c].pc = "upload")
  BY DEF IInv, TypeOK, CancelledStale, FreshLoad, Loading
<1>2. ~(FreshDecode(c) /\ calls[c].pc = "decode")
  BY DEF IInv, TypeOK, CancelledStale, FreshDecode, Running
<1>3. calls[c].pc # "fetch"
  BY DEF IInv, TypeOK, CancelledStale
<1> QED BY <1>1, <1>2, <1>3
        DEF Resume, BootstrapReply, UploadDropped, UploadInstalled, DecodeDropped,
            DecodeShown, SurfaceReply

\* A step moves at most one call.
LEMMA OneActor ==
  ASSUME TypeOK, [Next]_vars
  PROVE  \/ UNCHANGED calls
         \/ \E c \in Calls : (StartCall(c) \/ Resume(c)) /\ Others(c)
<1>1. CASE Gesture \/ UNCHANGED vars
  BY <1>1 DEF vars, Gesture, LoadBadFile, CancelCurrentOperation, Shutdown,
              SelectInstruction, EditTarget, EditWindow, EditFilter
<1> QED BY <1>1, StartCallCaptures, ResumeKeepsCapture DEF Next

\* A step of a cancelled call leaves the screen alone.
LEMMA CancelledStep ==
  ASSUME IInv, CancelledStale, [Next]_vars, NEW c \in cancelled,
         calls'[c] # calls[c]
  PROVE  UNCHANGED <<image, surface, display>>
<1>1. TypeOK /\ c \in Calls
  BY DEF IInv, TypeOK
<1>2. StartCall(c) \/ Resume(c)
  BY <1>1, OneActor DEF Others
<1>3. ~StartCall(c)
  BY <1>1, StartCallCaptures DEF CancelledStale
<1> QED BY <1>2, <1>3, CancelledDropped

\* Old numbers stay old: Cancel makes them so, and a call that is out takes no
\* new one except by an answer on the current number.
LEMMA StepStale ==
  ASSUME IInv, TypeOK', CancelledStale, [Next]_vars, Gestures \cap Surfaces = {}
  PROVE  CancelledStale'
<1>0. /\ TypeOK /\ loadID \in Nat /\ disasmID \in Nat /\ cancelled \subseteq Calls
      /\ \A c \in Calls : calls[c].load \in Nat /\ calls[c].dis \in Nat
      /\ loadID' \in Nat /\ disasmID' \in Nat /\ Idle.pc = "idle"
  BY DEF IInv, TypeOK, CallRecord, Idle
<1>1. CASE CancelCurrentOperation
  <2>1. /\ calls' = calls /\ loadID' = loadID + 1 /\ disasmID' = disasmID + 1
        /\ cancelled' = {c \in Calls : calls[c].pc # "idle"}
    BY <1>1 DEF CancelCurrentOperation
  <2>2. \A c \in Calls : /\ calls[c].pc \in Loading => calls[c].load <= loadID
                         /\ calls[c].dis <= disasmID
    BY DEF IInv, LoadsNumbered, RunsNumbered
  <2> QED BY <1>0, <2>1, <2>2 DEF CancelledStale
<1>2. ASSUME UNCHANGED <<calls, cancelled>>,
             UNCHANGED requests \/ LoadBadFile
      PROVE  CancelledStale'
  <2>1. loadID <= loadID' /\ disasmID <= disasmID'
    BY <1>0, <1>2 DEF LoadBadFile, requests
  <2> QED BY <1>0, <1>2, <2>1 DEF CancelledStale
<1>3. ASSUME NEW c \in Calls, Others(c), c \notin cancelled',
             cancelled' \subseteq cancelled,
             calls'[c].pc \notin {"fetch", "bootSurface"},
             loadID <= loadID', disasmID <= disasmID'
      PROVE  CancelledStale'
  BY <1>0, <1>3 DEF CancelledStale, Others
<1>4. ASSUME NEW c \in Calls, StartCall(c) PROVE CancelledStale'
  <2>1. /\ calls[c].pc = "idle" /\ Others(c)
        /\ calls'[c].pc \notin {"fetch", "bootSurface"}
    BY <1>0, <1>4, StartCallCaptures
  <2>2. cancelled' \subseteq cancelled
    BY <1>4 DEF StartCall, Bootstrap, LoadFile, Run, Jump, NavigateBack,
                NavigateForward, Navigate, LoadSurface, DecodeAddressRoute,
                BeginRun, SendDecode, ReturnFalse, Finish
  <2>3. loadID <= loadID' /\ disasmID <= disasmID'
    BY <1>0, <1>4, StartCallStarts DEF Starts
  <2> QED BY <1>3, <2>1, <2>2, <2>3 DEF CancelledStale
<1>5. ASSUME NEW c \in Calls, Finish(c), UNCHANGED requests PROVE CancelledStale'
  <2>1. Others(c) /\ calls'[c] = Idle
    BY <1>0, <1>5, OneCall DEF Finish
  <2> QED BY <1>0, <1>3, <1>5, <2>1 DEF Finish, requests
<1>6. ASSUME NEW c \in Calls, NEW ok \in BOOLEAN, BootstrapReply(c, ok)
      PROVE  CancelledStale'
  <2>1. /\ Others(c) /\ loadID' = loadID /\ disasmID' = disasmID
        /\ cancelled' \subseteq cancelled
        /\ \/ calls'[c] = Idle /\ c \notin cancelled'
           \/ calls[c].pc = "bootRun" /\ Runs(c, calls[c])
           \/ /\ calls[c].pc = "bootLoad" /\ calls'[c].pc = "upload"
              /\ Captured(calls'[c], calls[c])
           \/ calls[c].pc = "bootSurface" /\ calls'[c].pc = "fetch"
    BY <1>0, <1>6, BootstrapReplyCalls DEF requests
  <2>2. CASE calls'[c] = Idle /\ c \notin cancelled'
    BY <1>0, <1>3, <2>1, <2>2
  <2>3. CASE calls[c].pc = "bootRun" /\ Runs(c, calls[c])
    BY <1>0, <2>1, <2>3 DEF CancelledStale, Runs, Others, Loading, Running
  <2>4. CASE /\ calls[c].pc = "bootLoad" /\ calls'[c].pc = "upload"
             /\ Captured(calls'[c], calls[c])
    BY <1>0, <2>1, <2>4 DEF CancelledStale, Captured, Others, Loading, Running
  <2>5. calls[c].pc # "bootSurface"
    BY DEF CancelledStale
  <2> QED BY <2>1, <2>2, <2>3, <2>4, <2>5
<1>7. ASSUME NEW c \in Calls, NEW named \in BOOLEAN, UploadInstalled(c, named)
      PROVE  CancelledStale'
  <2>1. c \notin cancelled
    BY <1>0, <1>7 DEF UploadInstalled, FreshLoad, CancelledStale, Loading
  <2>2. /\ cancelled' \subseteq cancelled /\ loadID' = loadID
        /\ disasmID' = disasmID + 1 /\ BeginRun(c, calls[c])
    BY <1>7 DEF UploadInstalled, BeginRun, SendDecode, ReturnFalse, Finish
  <2>3. /\ Others(c)
        /\ calls'[c] = Idle \/ Runs(c, [calls[c] EXCEPT !.dis = disasmID + 1])
    BY <1>0, <2>2, BeginRunKeepsCapture DEF TypeOK
  <2>4. calls'[c].pc \notin {"fetch", "bootSurface"}
    BY <1>0, <2>3 DEF Runs
  <2> QED BY <1>0, <1>3, <2>1, <2>2, <2>3, <2>4
<1>8. ASSUME NEW c \in Calls, Resume(c) PROVE CancelledStale'
  BY <1>5, <1>6, <1>7, <1>8
     DEF Resume, UploadDropped, DecodeDropped, DecodeShown, SurfaceReply
<1>9. CASE Gesture \/ UNCHANGED vars
  <2>1. \/ CancelCurrentOperation
        \/ UNCHANGED <<calls, cancelled>> /\ (UNCHANGED requests \/ LoadBadFile)
    BY <1>9 DEF vars, Gesture, LoadBadFile, Shutdown, SelectInstruction,
                EditTarget, EditWindow, EditFilter, requests
  <2> QED BY <1>1, <1>2, <2>1
<1> QED BY <1>4, <1>8, <1>9 DEF Next

\* Where loads and decodes are what can be cancelled, Cancel is final: no answer
\* to a call that was in flight changes the screen, also not after other calls
\* took newer numbers (cancelCurrentOperation advances both request numbers).
THEOREM CancelFinal ==
  ASSUME Gestures \cap Surfaces = {}
  PROVE  Spec => CancelIsFinal
<1>1. Init => CancelledStale
  BY DEF Init, CancelledStale, Idle
<1>2. IInv /\ IInv' /\ CancelledStale /\ [Next]_vars => CancelledStale'
  BY StepStale DEF IInv
<1>3. IInv /\ CancelledStale /\ [Next]_vars
        => [\A c \in cancelled :
              calls'[c] # calls[c] => UNCHANGED <<image, surface, display>>]_vars
  BY CancelledStep
<1> QED BY <1>1, <1>2, <1>3, Invariance, PTL DEF Spec, CancelIsFinal
-----------------------------------------------------------------------------
(* The client that stays up.                                               *)

\* The client exists from the first state on and is never shut down.
AlwaysUp == ClientAtStart /\ "shutdown" \notin Gestures
StaysUp == client /\ \A c \in Calls : calls[c].pc \notin Boots

\* While the client is up, runDisassembly either returns at once, because there
\* is no image or the controls build no request, or it owns the busy flag.
LEMMA RunWhileUp ==
  ASSUME TypeOK, NEW c \in Calls, NEW call \in CallRecord, client,
         BeginRun(c, call)
  PROVE  /\ disasmID' = disasmID + 1 /\ Others(c)
         /\ \/ /\ calls'[c] = Idle /\ (image' = 0 \/ ~Builds(form'))
               /\ busy' = (busy /\ ~(call.op = "load" /\ call.load = loadID))
            \/ /\ calls'[c].pc = "decode" /\ calls'[c].dis = disasmID'
               /\ image' # 0 /\ Builds(form')
<1> DEFINE n == disasmID + 1
           numbered == [call EXCEPT !.dis = n]
<1>1. /\ disasmID' = n
      /\ \/ image' = 0 /\ ReturnFalse(c, numbered)
         \/ ~Builds(form') /\ ReturnFalse(c, numbered)
         \/ /\ image' # 0 /\ Builds(form')
            /\ Suspend(c, [numbered EXCEPT !.image = image',
                                           !.request = RequestOf(form')],
                       "decode")
  BY DEF BeginRun, SendDecode
<1>2. /\ numbered.op = call.op /\ numbered.load = call.load
      /\ numbered.dis = n
  BY DEF CallRecord
<1>3. ASSUME ReturnFalse(c, numbered)
      PROVE  /\ Others(c) /\ calls'[c] = Idle
             /\ busy' = (busy /\ ~(call.op = "load" /\ call.load = loadID))
  BY <1>2, <1>3, OneCall DEF ReturnFalse, Finish
<1>4. ASSUME Suspend(c, [numbered EXCEPT !.image = image',
                                         !.request = RequestOf(form')], "decode")
      PROVE  /\ Others(c) /\ calls'[c].pc = "decode" /\ calls'[c].dis = n
  <2> DEFINE new == [numbered EXCEPT !.image = image',
                                     !.request = RequestOf(form'),
                                     !.pc = "decode"]
  <2>1. new.pc = "decode" /\ new.dis = n
    BY DEF CallRecord
  <2>2. calls' = [calls EXCEPT ![c] = new]
    BY <1>4 DEF Suspend
  <2> HIDE DEF new
  <2> QED BY <2>1, <2>2, OneCall
<1> HIDE DEF n, numbered
<1> QED BY <1>1, <1>3, <1>4 DEF n

\* What starting a call does while the client is up: a load owns its upload, a
\* surface its fetch, and every other call is in runDisassembly.
LEMMA StartWhileUp ==
  ASSUME TypeOK, client, NEW c \in Calls, StartCall(c)
  PROVE  /\ Others(c) /\ client' = client /\ image' = image
         /\ calls[c].pc = "idle"
         /\ form.range /\ form.limit => form'.range /\ form'.limit
         /\ \/ /\ calls'[c].pc = "upload" /\ loadID' = loadID + 1
               /\ calls'[c].load = loadID' /\ disasmID' = disasmID + 1
            \/ /\ calls'[c].pc = "fetch"
               /\ UNCHANGED <<loadID, disasmID, form>>
            \/ /\ calls'[c] = Idle /\ disasmID' = disasmID + 1
               /\ loadID' = loadID /\ (busy' => busy)
               /\ image = 0 \/ ~Builds(form)
            \/ /\ calls'[c].pc = "decode" /\ calls'[c].dis = disasmID'
               /\ disasmID' = disasmID + 1
               /\ image # 0 /\ Builds(form')
<1>0. /\ calls[c].pc = "idle"
      /\ \A op \in Ops : Call(op) \in CallRecord
  BY ConstantsTyped
     DEF StartCall, Bootstrap, LoadFile, Run, Jump, NavigateBack,
         NavigateForward, Navigate, LoadSurface, Free, Call, CallRecord
<1>1. ~Bootstrap(c)
  BY DEF Bootstrap
<1>2. CASE LoadFile(c)
  <2> DEFINE m == loadID + 1
             new == [Call("load") EXCEPT !.load = m, !.pc = "upload"]
  <2>1. new.pc = "upload" /\ new.load = m
    BY <1>0 DEF CallRecord, Ops
  <2>2. calls' = [calls EXCEPT ![c] = new]
    BY <1>2 DEF LoadFile, Suspend
  <2>3. /\ loadID' = m /\ disasmID' = disasmID + 1
        /\ UNCHANGED <<client, image, form>>
    BY <1>2 DEF LoadFile
  <2> HIDE DEF new, m
  <2> QED BY <1>0, <2>1, <2>2, <2>3, OneCall DEF m
<1>3. CASE Run(c)
  <2>1. Call("run") \in CallRecord
    BY <1>0 DEF Ops
  <2> QED BY <1>0, <1>3, <2>1, RunWhileUp DEF Run
<1>4. ASSUME NEW call \in CallRecord, call.dest \in Address,
             DecodeAddressRoute(c, call)
      PROVE  /\ Others(c) /\ client' = client /\ image' = image
             /\ loadID' = loadID /\ disasmID' = disasmID + 1
             /\ form.range /\ form.limit => form'.range /\ form'.limit
             /\ \/ /\ calls'[c] = Idle /\ (busy' => busy)
                   /\ image = 0 \/ ~Builds(form)
                \/ /\ calls'[c].pc = "decode" /\ calls'[c].dis = disasmID'
                   /\ image # 0 /\ Builds(form')
  <2>1. /\ form'.kind = "address" /\ form'.at = call.dest /\ form'.range
        /\ form'.limit = form.limit
        /\ UNCHANGED <<client, image, loadID>> /\ BeginRun(c, call)
    BY <1>4 DEF DecodeAddressRoute, TypeOK, Form
  <2>2. /\ disasmID' = disasmID + 1 /\ Others(c)
        /\ \/ calls'[c] = Idle /\ (image' = 0 \/ ~Builds(form')) /\ (busy' => busy)
           \/ /\ calls'[c].pc = "decode" /\ calls'[c].dis = disasmID'
              /\ image' # 0 /\ Builds(form')
    BY <1>4, <2>1, RunWhileUp
  <2>3. ~Builds(form') => ~Builds(form)
    BY <1>4, <2>1, NoAddressAssumption DEF Builds
  <2> QED BY <2>1, <2>2, <2>3
<1>5. CASE Jump(c)
  <2>1. PICK a \in RowsOf(image) :
          DecodeAddressRoute(c, [Call("jump") EXCEPT !.source = active,
                                                     !.dest = a])
    BY <1>5 DEF Jump
  <2> DEFINE call == [Call("jump") EXCEPT !.source = active, !.dest = a]
  <2>2. /\ a \in Address /\ a \in MaybeAddress
        /\ active \in MaybeAddress /\ Call("jump") \in CallRecord
    BY <1>0, RowsTyped DEF TypeOK, MaybeAddress, Ops
  <2>3. call \in CallRecord /\ call.dest = a
    BY <2>2 DEF CallRecord
  <2> HIDE DEF call
  <2> QED BY <1>0, <1>4, <2>1, <2>2, <2>3 DEF call
<1>6. ASSUME NEW op \in {"back", "forward"}, NEW list \in {back, forward},
             Navigate(c, op, list)
      PROVE  \E call \in CallRecord :
               call.dest \in Address /\ DecodeAddressRoute(c, call)
  <2> DEFINE call == [Call(op) EXCEPT !.source = active, !.dest = Head(list),
                                      !.rest = Tail(list)]
  <2>1. list # <<>> /\ DecodeAddressRoute(c, call)
    BY <1>6 DEF Navigate
  <2>2. Head(list) \in Address /\ Tail(list) \in Seq(Address)
    BY <2>1, HeadTailProperties DEF TypeOK
  <2>3. /\ Head(list) \in MaybeAddress /\ active \in MaybeAddress
        /\ Call(op) \in CallRecord
    BY <1>0, <2>2 DEF TypeOK, MaybeAddress, Ops
  <2>4. call \in CallRecord /\ call.dest = Head(list)
    BY <2>2, <2>3 DEF CallRecord
  <2> HIDE DEF call
  <2> QED BY <2>1, <2>2, <2>4
<1>7. CASE NavigateBack(c) \/ NavigateForward(c)
  BY <1>0, <1>4, <1>6, <1>7 DEF NavigateBack, NavigateForward
<1>8. ASSUME NEW s \in Surfaces, LoadSurface(c, s)
      PROVE  /\ Others(c) /\ calls'[c].pc = "fetch"
             /\ UNCHANGED <<client, loadID, disasmID, image, form>>
  <2> DEFINE new == [Call(s) EXCEPT !.image = image, !.pc = "fetch"]
  <2>1. new.pc = "fetch"
    BY <1>0 DEF CallRecord, Ops
  <2>2. calls' = [calls EXCEPT ![c] = new]
    BY <1>8 DEF LoadSurface, Suspend
  <2> HIDE DEF new
  <2> QED BY <1>8, <2>1, <2>2, OneCall DEF LoadSurface, requests
<1> QED BY <1>0, <1>1, <1>2, <1>3, <1>5, <1>7, <1>8 DEF StartCall

\* While nobody waits for the server, an answer ends its call, or takes an
\* installed image to its first decode.
LEMMA ResumeWhileUp ==
  ASSUME TypeOK, StaysUp, NEW c \in Calls, Resume(c)
  PROVE  /\ client' = client /\ Others(c)
         /\ calls'[c] = Idle \/ calls'[c].pc = "decode"
         /\ \/ \E ok \in BOOLEAN : \/ UploadDropped(c, ok)
                                  \/ DecodeDropped(c, ok)
                                  \/ SurfaceReply(c, ok)
            \/ \E rows \in RowsFor(calls[c].request, calls[c].image) :
                 DecodeShown(c, rows)
            \/ \E named \in BOOLEAN : UploadInstalled(c, named)
<1>1. \A ok \in BOOLEAN : ~BootstrapReply(c, ok)
  BY DEF StaysUp, BootstrapReply
<1>2. client' = client
  BY <1>1 DEF Resume, UploadDropped, UploadInstalled, DecodeDropped, DecodeShown,
              SurfaceReply
<1>3. CASE Finish(c)
  BY <1>1, <1>2, <1>3, OneCall DEF Finish, Resume
<1>4. ASSUME NEW named \in BOOLEAN, UploadInstalled(c, named)
      PROVE  Others(c) /\ (calls'[c] = Idle \/ calls'[c].pc = "decode")
  BY <1>4, RunWhileUp DEF UploadInstalled, TypeOK, StaysUp
<1> QED BY <1>1, <1>2, <1>3, <1>4
        DEF Resume, UploadDropped, DecodeDropped, DecodeShown, SurfaceReply

\* The client stays up.
LEMMA StepUp ==
  ASSUME TypeOK, StaysUp, [Next]_vars, "shutdown" \notin Gestures
  PROVE  StaysUp'
<1>0. Idle.pc = "idle"
  BY DEF Idle
<1>1. CASE Gesture \/ UNCHANGED vars
  BY <1>1 DEF vars, Gesture, LoadBadFile, CancelCurrentOperation, Shutdown,
              SelectInstruction, EditTarget, EditWindow, EditFilter, StaysUp
<1>2. ASSUME NEW c \in Calls, Others(c), client' = client,
             calls'[c].pc \in {"idle", "upload", "fetch", "decode"}
      PROVE  StaysUp'
  BY <1>2 DEF StaysUp, Others, Boots
<1>3. ASSUME NEW c \in Calls, StartCall(c) PROVE StaysUp'
  BY <1>0, <1>2, <1>3, StartWhileUp DEF StaysUp
<1>4. ASSUME NEW c \in Calls, Resume(c) PROVE StaysUp'
  BY <1>0, <1>2, <1>4, ResumeWhileUp
<1> QED BY <1>1, <1>3, <1>4 DEF Next

\* A client that exists at the start and is not shut down is there for good, and
\* no call ever waits for the server to start.
LEMMA UpForGood ==
  ASSUME AlwaysUp
  PROVE  Spec => []StaysUp
<1>1. Init => StaysUp
  BY DEF Init, AlwaysUp, StaysUp, Idle, Boots
<1>2. TypeOK /\ StaysUp /\ [Next]_vars => StaysUp'
  BY StepUp DEF AlwaysUp
<1> QED BY <1>1, <1>2, TypeCorrect, PTL DEF Spec
-----------------------------------------------------------------------------
(* The busy flag.                                                          *)

\* The decode on the current number has an image, and controls that build its
\* request again: a run that takes the number over does not return at once and
\* leave the flag behind.
FlagOK ==
  /\ form.range /\ form.limit
  /\ \A c \in Calls :
       /\ calls[c].pc \in Loading => calls[c].load > 0
       /\ calls[c].pc = "decode" /\ calls[c].dis = disasmID
            => image # 0 /\ Builds(form)
  /\ BusyHasOwner

\* What has to be shown of a step that moves the call c alone.
LEMMA FlagKept ==
  ASSUME IInv, FlagOK, NEW c \in Calls, Others(c), disasmID' \in Nat,
         form'.range, form'.limit,
         calls'[c].pc \in Loading => calls'[c].load > 0,
         calls'[c].pc = "decode" /\ calls'[c].dis = disasmID'
           => image' # 0 /\ Builds(form'),
         \/ UNCHANGED <<disasmID, form, image>>
         \/ disasmID' = disasmID + 1,
         BusyHasOwner'
  PROVE  FlagOK'
<1>1. ASSUME NEW d \in Calls \ {c}
      PROVE  /\ calls'[d].pc \in Loading => calls'[d].load > 0
             /\ calls'[d].pc = "decode" /\ calls'[d].dis = disasmID'
                  => image' # 0 /\ Builds(form')
  <2>1. /\ calls'[d] = calls[d] /\ calls[d].dis \in Nat
        /\ calls[d].dis <= disasmID /\ disasmID \in Nat
    BY <1>1 DEF Others, IInv, TypeOK, CallRecord, RunsNumbered
  <2>2. calls[d].pc \in Loading => calls[d].load > 0
    BY DEF FlagOK
  <2>3. CASE UNCHANGED <<disasmID, form, image>>
    BY <2>1, <2>2, <2>3 DEF FlagOK
  <2>4. CASE disasmID' = disasmID + 1
    BY <2>1, <2>2, <2>4
  <2> QED BY <2>3, <2>4
<1> QED BY <1>1 DEF FlagOK

\* Who holds the flag still holds it after a step of another call.
LEMMA OwnerKept ==
  ASSUME NEW c \in Calls, NEW d \in Calls, Owner(d), c # d, Others(c),
         loadID' = loadID,
         disasmID' = disasmID \/ calls[d].pc # "decode" \/ calls[d].dis # disasmID
  PROVE  Owner(d)'
BY DEF Owner, Others

\* Starting a call either takes the flag over or leaves it with its holder.
LEMMA StartFlag ==
  ASSUME IInv, TypeOK', StaysUp, FlagOK, NEW c \in Calls, StartCall(c)
  PROVE  FlagOK'
<1>0. /\ TypeOK /\ client /\ loadID \in Nat /\ disasmID \in Nat
      /\ disasmID' \in Nat /\ Idle.pc = "idle"
  BY DEF IInv, TypeOK, StaysUp, Idle
<1>1. /\ Others(c) /\ image' = image /\ calls[c].pc = "idle"
      /\ form'.range /\ form'.limit
  BY <1>0, StartWhileUp DEF FlagOK
<1>2. CASE /\ calls'[c].pc = "upload" /\ loadID' = loadID + 1
           /\ calls'[c].load = loadID' /\ disasmID' = disasmID + 1
  <2>1. BusyHasOwner'
    BY <1>2 DEF BusyHasOwner, Owner
  <2> QED BY <1>0, <1>1, <1>2, <2>1, FlagKept
<1>3. CASE /\ calls'[c].pc = "fetch"
           /\ UNCHANGED <<loadID, disasmID, form>>
  <2>1. BusyHasOwner'
    BY <1>3 DEF BusyHasOwner, Owner
  <2> QED BY <1>0, <1>1, <1>3, <2>1, FlagKept DEF Loading
<1>4. CASE /\ calls'[c] = Idle /\ disasmID' = disasmID + 1
           /\ loadID' = loadID /\ (busy' => busy)
           /\ image = 0 \/ ~Builds(form)
  <2>1. ASSUME busy PROVE \E d \in Calls : Owner(d)'
    <3>1. PICK d \in Calls : Owner(d)
      BY <2>1 DEF FlagOK, BusyHasOwner
    <3>2. d # c
      BY <1>1, <3>1 DEF Owner
    <3>3. calls[d].pc # "decode" \/ calls[d].dis # disasmID
      BY <1>4 DEF FlagOK
    <3> QED BY <1>1, <1>4, <3>1, <3>2, <3>3, OwnerKept
  <2>2. BusyHasOwner'
    BY <1>4, <2>1 DEF BusyHasOwner
  <2> QED BY <1>0, <1>1, <1>4, <2>2, FlagKept DEF Loading
<1>5. CASE /\ calls'[c].pc = "decode" /\ calls'[c].dis = disasmID'
           /\ disasmID' = disasmID + 1
           /\ image # 0 /\ Builds(form')
  <2>1. BusyHasOwner'
    BY <1>5 DEF BusyHasOwner, Owner
  <2> QED BY <1>0, <1>1, <1>5, <2>1, FlagKept DEF Loading
<1> QED BY <1>0, <1>2, <1>3, <1>4, <1>5, StartWhileUp

\* An answer takes the flag down if its call holds it, and only a surface's
\* answer takes it down for others too.
LEMMA ResumeFlag ==
  ASSUME IInv, TypeOK', StaysUp, FlagOK, NEW c \in Calls, Resume(c)
  PROVE  FlagOK'
<1>0. /\ TypeOK /\ loadID \in Nat /\ disasmID \in Nat /\ disasmID' \in Nat
      /\ Idle.pc = "idle" /\ client /\ calls[c] \in CallRecord
  BY DEF IInv, TypeOK, StaysUp, Idle
<1>1. Others(c)
  BY <1>0, ResumeWhileUp
<1>2. ASSUME Finish(c), UNCHANGED <<requests, form, image>>,
             busy' => busy /\ ~Owner(c)
      PROVE  FlagOK'
  <2>1. calls'[c] = Idle
    BY <1>0, <1>2, OneCall DEF Finish
  <2>2. ASSUME busy' PROVE \E d \in Calls : Owner(d)'
    <3>1. PICK d \in Calls : Owner(d)
      BY <1>2, <2>2 DEF FlagOK, BusyHasOwner
    <3>2. d # c
      BY <1>2, <2>2, <3>1
    <3> QED BY <1>1, <1>2, <3>1, <3>2, OwnerKept DEF requests
  <2>3. BusyHasOwner'
    BY <2>2 DEF BusyHasOwner
  <2> QED BY <1>0, <1>1, <1>2, <2>1, <2>3, FlagKept DEF Loading, FlagOK, requests
<1>3. ASSUME NEW ok \in BOOLEAN, UploadDropped(c, ok) PROVE FlagOK'
  BY <1>2, <1>3 DEF UploadDropped, Owner, FreshLoad
<1>4. ASSUME NEW ok \in BOOLEAN, DecodeDropped(c, ok) PROVE FlagOK'
  BY <1>2, <1>4 DEF DecodeDropped, Owner, BusyAfterDecode
<1>5. ASSUME NEW rows \in RowsFor(calls[c].request, calls[c].image),
             DecodeShown(c, rows)
      PROVE  FlagOK'
  BY <1>2, <1>5 DEF DecodeShown, Owner, BusyAfterDecode
<1>6. ASSUME NEW ok \in BOOLEAN, SurfaceReply(c, ok) PROVE FlagOK'
  BY <1>2, <1>6 DEF SurfaceReply
<1>7. ASSUME NEW named \in BOOLEAN, UploadInstalled(c, named) PROVE FlagOK'
  <2>1. /\ calls[c].load = loadID /\ calls[c].op = "load"
        /\ form'.range /\ form'.limit /\ BeginRun(c, calls[c])
    BY <1>7 DEF UploadInstalled, FreshLoad, ResetForLoadedImage, IInv,
                LoadsNumbered, Loading
  <2>2. /\ disasmID' = disasmID + 1
        /\ \/ calls'[c] = Idle /\ ~busy'
           \/ /\ calls'[c].pc = "decode" /\ calls'[c].dis = disasmID'
              /\ image' # 0 /\ Builds(form')
    BY <1>0, <2>1, RunWhileUp
  <2>3. BusyHasOwner'
    BY <2>2 DEF BusyHasOwner, Owner
  <2> QED BY <1>0, <1>1, <2>1, <2>2, <2>3, FlagKept DEF Loading
<1> QED BY <1>0, <1>3, <1>4, <1>5, <1>6, <1>7, ResumeWhileUp

\* Cancel and a bad file take the flag down; selecting and filtering do not
\* touch what holds it.
LEMMA GestureFlag ==
  ASSUME IInv, TypeOK', FlagOK, Gesture,
         Gestures \cap {"shutdown", "target", "window"} = {}
  PROVE  FlagOK'
<1>0. disasmID \in Nat /\ \A c \in Calls : calls[c].dis <= disasmID
                                           /\ calls[c].dis \in Nat
  BY DEF IInv, TypeOK, CallRecord, RunsNumbered
<1>1. CASE LoadBadFile \/ CancelCurrentOperation
  <2>1. /\ UNCHANGED <<calls, form, image>> /\ ~busy'
        /\ disasmID' = disasmID + 1
    BY <1>1 DEF LoadBadFile, CancelCurrentOperation
  <2>2. \A c \in Calls : calls'[c].dis # disasmID'
    BY <1>0, <2>1
  <2> QED BY <2>1, <2>2 DEF FlagOK, BusyHasOwner
<1>2. CASE UNCHANGED <<calls, form, image, requests, busy>>
  BY <1>2 DEF FlagOK, BusyHasOwner, Owner, requests, Builds
<1>3. \/ LoadBadFile \/ CancelCurrentOperation
      \/ UNCHANGED <<calls, form, image, requests, busy>>
  BY DEF Gesture, Shutdown, EditTarget, EditWindow, SelectInstruction, EditFilter
<1> QED BY <1>1, <1>2, <1>3

\* With the client up and the controls unedited, isBusy is never left behind:
\* while it is up, some call is out whose return takes it down, so whoever is told
\* to wait for the current operation waits for an answer.  (The defers of
\* runDisassembly and loadFile only drop it for the current number, and a run
\* that returns before its own defer has taken that number.)
THEOREM BusyOwned ==
  ASSUME AlwaysUp, Gestures \cap {"target", "window"} = {}
  PROVE  Spec => []BusyHasOwner
<1>1. Init => FlagOK
  BY DEF Init, FlagOK, BusyHasOwner, Idle, Loading
<1>2. IInv /\ IInv' /\ StaysUp /\ FlagOK /\ [Next]_vars => FlagOK'
  <2> SUFFICES ASSUME IInv, IInv', StaysUp, FlagOK, [Next]_vars PROVE FlagOK'
    OBVIOUS
  <2>1. TypeOK' /\ Gestures \cap {"shutdown", "target", "window"} = {}
    BY DEF IInv, AlwaysUp
  <2>2. CASE UNCHANGED vars
    BY <2>2 DEF vars, FlagOK, BusyHasOwner, Owner, Builds
  <2> QED BY <2>1, <2>2, GestureFlag, StartFlag, ResumeFlag DEF Next
<1>3. FlagOK => BusyHasOwner
  BY DEF FlagOK
<1> QED BY <1>1, <1>2, <1>3, Invariance, UpForGood, PTL DEF Spec
-----------------------------------------------------------------------------
(* Back and Forward.                                                       *)

\* What a navigation waits for is its own address: the controls still hold it
\* while it waits for the server to start, its request does once that is sent.
NavigationsAimed ==
  \A c \in Calls : calls[c].op \in Navigations
    => /\ calls[c].pc \in Running
       /\ calls[c].dis = disasmID => Aims(calls[c])

\* Nobody edits the target during the wait for the server.
Pinned == AlwaysUp \/ "target" \notin Gestures

\* A navigation keeps its aim: other calls take another number before they change
\* the controls.
LEMMA StepAimed ==
  ASSUME IInv, TypeOK', NavigationsAimed, [Next]_vars,
         "target" \in Gestures => StaysUp
  PROVE  NavigationsAimed'
<1>0. /\ TypeOK /\ disasmID \in Nat /\ Idle.op \notin Navigations
      /\ \A c \in Calls : calls[c].dis \in Nat /\ calls[c].dis <= disasmID
  BY DEF IInv, TypeOK, CallRecord, RunsNumbered, Idle, Navigations
<1>1. CASE Gesture \/ UNCHANGED vars
  <2>1. CASE UNCHANGED <<calls, form, disasmID>>
    BY <2>1 DEF NavigationsAimed, Aims
  <2>2. CASE calls' = calls /\ disasmID' = disasmID + 1
    BY <1>0, <2>2 DEF NavigationsAimed
  <2>3. ASSUME NEW r \in BOOLEAN, NEW l \in BOOLEAN, EditWindow(r, l)
        PROVE  NavigationsAimed'
    <3>1. /\ calls' = calls /\ disasmID' = disasmID
          /\ form'.kind = form.kind /\ form'.at = form.at
      BY <1>0, <2>3 DEF EditWindow, requests, TypeOK, Form
    <3> QED BY <3>1 DEF NavigationsAimed, Aims
  <2>4. ASSUME NEW k, NEW a, NEW n, EditTarget(k, a, n) PROVE NavigationsAimed'
    <3>1. calls' = calls /\ disasmID' = disasmID /\ StaysUp
      BY <2>4 DEF EditTarget, requests
    <3> QED BY <3>1 DEF NavigationsAimed, Aims, StaysUp, Boots
  <2> QED BY <1>1, <2>1, <2>2, <2>3, <2>4
          DEF Gesture, vars, LoadBadFile, CancelCurrentOperation, Shutdown,
              SelectInstruction, EditFilter, requests
<1>2. ASSUME NEW c \in Calls, Others(c),
             UNCHANGED <<form, disasmID>> \/ disasmID' = disasmID + 1,
             calls'[c].op \in Navigations
               => /\ calls'[c].pc \in Running
                  /\ calls'[c].dis = disasmID' => Aims(calls[c])'
      PROVE  NavigationsAimed'
  <2>1. ASSUME NEW d \in Calls \ {c}, calls'[d].op \in Navigations
        PROVE  /\ calls'[d].pc \in Running
               /\ calls'[d].dis = disasmID' => Aims(calls[d])'
    <3>1. calls'[d] = calls[d] /\ calls[d].op \in Navigations
      BY <1>2, <2>1 DEF Others
    <3>2. CASE UNCHANGED <<form, disasmID>>
      BY <3>1, <3>2 DEF NavigationsAimed, Aims
    <3>3. CASE disasmID' = disasmID + 1
      BY <1>0, <3>1, <3>3 DEF NavigationsAimed
    <3> QED BY <1>2, <3>2, <3>3
  <2> QED BY <1>2, <2>1 DEF NavigationsAimed
<1>3. ASSUME NEW c \in Calls, StartCall(c) PROVE NavigationsAimed'
  <2>1. /\ Others(c)
        /\ calls'[c].op \in Navigations
             => calls'[c].pc \in Running /\ Aims(calls[c])'
    BY <1>0, <1>3, StartCallCaptures
  <2>2. UNCHANGED <<form, disasmID>> \/ disasmID' = disasmID + 1
    BY <1>3 DEF StartCall, Bootstrap, LoadFile, Run, Jump, NavigateBack,
                NavigateForward, Navigate, LoadSurface, DecodeAddressRoute,
                BeginRun, requests
  <2> QED BY <1>2, <2>1, <2>2
<1>4. ASSUME NEW c \in Calls, Resume(c) PROVE NavigationsAimed'
  <2>1. Others(c) /\ (calls'[c] = Idle \/ Captured(calls'[c], calls[c]))
    BY <1>0, <1>4, ResumeKeepsCapture
  <2>2. UNCHANGED <<form, disasmID>> \/ disasmID' = disasmID + 1
    BY <1>4 DEF Resume, BootstrapReply, UploadDropped, UploadInstalled,
                DecodeDropped, DecodeShown, SurfaceReply, BeginRun, requests
  <2>3. CASE calls'[c] = Idle \/ calls[c].op \notin Navigations
    BY <1>0, <1>2, <2>1, <2>2, <2>3 DEF Captured
  <2>4. ASSUME NEW ok \in BOOLEAN, BootstrapReply(c, ok),
               calls[c].op \in Navigations, calls'[c] # Idle
        PROVE  NavigationsAimed'
    <3>1. calls[c].pc = "bootRun" /\ Runs(c, calls[c])
      BY <1>0, <2>4, BootstrapReplyCalls DEF NavigationsAimed, Running
    <3>2. form' = form /\ disasmID' = disasmID
      BY <2>4 DEF BootstrapReply, requests
    <3>3. /\ calls'[c].pc \in Running /\ calls'[c].dis = calls[c].dis
          /\ calls'[c].dest = calls[c].dest
      BY <3>1 DEF Runs, Captured, Running
    <3>4. ASSUME calls'[c].dis = disasmID' PROVE Aims(calls[c])'
      <4>1. form.kind = "address" /\ form.at = calls[c].dest
        BY <2>4, <3>1, <3>2, <3>3, <3>4 DEF NavigationsAimed, Aims
      <4> QED BY <3>1, <3>2, <3>3, <4>1 DEF Aims, Runs, RequestOf
    <3> QED BY <1>2, <2>1, <3>2, <3>3, <3>4
  <2>5. ASSUME NEW named \in BOOLEAN, UploadInstalled(c, named)
        PROVE  calls[c].op \notin Navigations
    BY <2>5 DEF UploadInstalled, IInv, LoadsNumbered, Loading, Navigations
  <2>6. Finish(c) => calls'[c] = Idle
    BY <1>0, OneCall DEF Finish
  <2> QED BY <1>4, <2>3, <2>4, <2>5, <2>6
          DEF Resume, UploadDropped, DecodeDropped, DecodeShown, SurfaceReply
<1> QED BY <1>1, <1>3, <1>4 DEF Next

\* A Back or Forward that commits moves its address from one list to the active
\* route, and the route it left to the other list.
LEMMA StepReachable ==
  ASSUME IInv, TypeOK', NavigationsAimed, [Next]_vars, NEW c \in Calls,
         calls[c].op \in {"back", "forward"},
         disasm' # disasm, disasm'.id = calls[c].dis, Unmoved(calls[c]),
         Len(back) < MaxNavigation, Len(forward) < MaxNavigation
  PROVE  Reachable \subseteq Reachable'
<1> DEFINE call == calls[c]
<1>0. /\ TypeOK /\ call \in CallRecord /\ call.rest \in Seq(Address)
      /\ back \in Seq(Address) /\ forward \in Seq(Address)
      /\ call.dest \in MaybeAddress /\ call.source \in MaybeAddress
      /\ call.pc \in Running /\ call.dis > 0
  BY DEF IInv, TypeOK, CallRecord, NavigationsAimed, Navigations, RunsNumbered
<1>1. PICK rows \in RowsFor(call.request, call.image) : DecodeShown(c, rows)
  <2>1. ASSUME NEW d \in Calls,
               NEW rows \in RowsFor(calls[d].request, calls[d].image),
               DecodeShown(d, rows)
        PROVE  d = c
    <3>1. calls[d].pc \in Running /\ disasm'.id = calls[d].dis
      BY <2>1 DEF DecodeShown, Running
    <3> QED BY <1>0, <3>1 DEF IInv, RunsNumbered
  <2>2. \A d \in Calls, named \in BOOLEAN : ~UploadInstalled(d, named)
    BY <1>0 DEF UploadInstalled, ResetForLoadedImage, NoResult
  <2> QED BY <2>1, <2>2, DisplayChange
          DEF display, SelectInstruction, EditFilter
<1>2. call.request.kind = "address" /\ call.request.at = call.dest
  BY <1>1 DEF DecodeShown, FreshDecode, NavigationsAimed, Navigations, Aims
<1>3. /\ RecordRecent(call.dest) /\ CommitNavigation(call)
  BY <1>1, <1>2 DEF DecodeShown
<1>4. Range(<<call.dest>> \o call.rest) = {call.dest} \cup Range(call.rest)
  <2>1. call.rest \in Seq(MaybeAddress)
    BY <1>0, SeqMonotonic DEF MaybeAddress
  <2> QED BY <1>0, <2>1, ConsSound
<1>5. active = call.source
  BY DEF Unmoved
<1>6. /\ Range(back) \subseteq Address /\ Range(forward) \subseteq Address
  BY <1>0, RangeOfSeq
<1>7. ASSUME NEW from \in {back, forward}, NEW to \in Seq(Address),
             from = <<call.dest>> \o call.rest, Len(to) < MaxNavigation,
             Reachable = (Range(from) \cup Range(to) \cup {active}) \ {NoAddress},
             Reachable' = (Range(call.rest) \cup {active'}
                 \cup Range(PushSource(to, call.source, call.dest))) \ {NoAddress}
      PROVE  Reachable \subseteq Reachable'
  <2>1. /\ Range(from) = {call.dest} \cup Range(call.rest)
        /\ call.dest \in Address
    BY <1>4, <1>6, <1>7
  <2>2. active' = call.dest
    BY <1>3, <2>1, NoAddressAssumption DEF RecordRecent
  <2>3. Range(to) \cup ({call.source} \ {NoAddress, call.dest})
          \subseteq Range(PushSource(to, call.source, call.dest))
    BY <1>0, <1>7, PushSourceSound
  <2> QED BY <1>5, <1>7, <2>1, <2>2, <2>3
<1>8. CASE call.op = "back"
  <2>1. back' = call.rest /\ forward' = PushSource(forward, call.source, call.dest)
    BY <1>3, <1>8 DEF CommitNavigation
  <2>2. back = <<call.dest>> \o call.rest
    BY <1>8 DEF Unmoved
  <2> QED BY <1>0, <1>7, <2>1, <2>2 DEF Reachable
<1>9. CASE call.op = "forward"
  <2>1. forward' = call.rest /\ back' = PushSource(back, call.source, call.dest)
    BY <1>3, <1>9 DEF CommitNavigation
  <2>2. forward = <<call.dest>> \o call.rest
    BY <1>9 DEF Unmoved
  <2> QED BY <1>0, <1>7, <2>1, <2>2 DEF Reachable
<1> QED BY <1>8, <1>9

\* Back, Forward and jumps keep the history: the lists move with the display,
\* and a Back or Forward loses no address below capacity, whatever else was in
\* flight.  (An edit of the target while the call waits for the server would
\* change what it asks for: then another address becomes the active route.)
THEOREM HistoryKept ==
  ASSUME Pinned
  PROVE  Spec => HistoryIsKept
<1>1. Spec => []("target" \in Gestures => StaysUp)
  <2>1. CASE AlwaysUp
    <3>1. Spec => []StaysUp
      BY <2>1, UpForGood
    <3>2. StaysUp => ("target" \in Gestures => StaysUp)
      OBVIOUS
    <3> QED BY <3>1, <3>2, PTL
  <2>2. CASE "target" \notin Gestures
    <3>1. "target" \in Gestures => StaysUp
      BY <2>2
    <3> QED BY <3>1, PTL
  <2> QED BY <2>1, <2>2 DEF Pinned
<1>2. Init => NavigationsAimed
  BY DEF Init, NavigationsAimed, Navigations, Idle
<1>3. /\ IInv /\ IInv' /\ ("target" \in Gestures => StaysUp)
      /\ NavigationsAimed /\ [Next]_vars
      => NavigationsAimed'
  <2> SUFFICES ASSUME IInv, IInv', "target" \in Gestures => StaysUp,
                      NavigationsAimed, [Next]_vars
               PROVE  NavigationsAimed'
    OBVIOUS
  <2>1. TypeOK'
    BY DEF IInv
  <2> QED BY <2>1, StepAimed
<1>4. IInv /\ IInv' /\ NavigationsAimed /\ [Next]_vars
        => [\A c \in Calls :
              /\ calls[c].op \in {"back", "forward"}
              /\ disasm' # disasm /\ disasm'.id = calls[c].dis
              /\ Unmoved(calls[c])
              /\ Len(back) < MaxNavigation /\ Len(forward) < MaxNavigation
              => Reachable \subseteq Reachable']_vars
  BY StepReachable DEF IInv
<1>5. Spec => BackForwardLoseNothing
  BY <1>1, <1>2, <1>3, <1>4, Invariance, PTL DEF Spec, BackForwardLoseNothing
<1> QED BY <1>5, HistoryMoves, PTL DEF HistoryIsKept
=============================================================================
