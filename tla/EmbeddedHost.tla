---------------------------- MODULE EmbeddedHost ----------------------------
(***************************************************************************)
(* Preparing and compositing one embedded view                             *)
(* (src/src/Rendering/Embedded.cpp): Attach, Detach, ReplaceDevice,        *)
(* SetVisible, Prepare, PrepareInteraction, the input entries and the      *)
(* notification that asks the application for the next preparation.        *)
(*                                                                         *)
(* One thread runs everything, but nearly every operation calls controls   *)
(* and through them the application, which may call the view again.  The   *)
(* calls in progress are the frames of "stack", the last one running.  A   *)
(* frame at a callout stage waits for the code it called; what that code   *)
(* does to the view are operations of their own, pushed above it.          *)
(*                                                                         *)
(* The code compares revisions it captured with the current ones.  All it  *)
(* learns is whether they moved, so a frame holds that and no number:      *)
(*   same     _attachmentRevision, and _state is the captured one          *)
(*   current  _operationRevision                                           *)
(*   clean    State.revision, which MarkDirty moves                        *)
(*   tree     _interactionRevision, which geometry and tree changes move   *)
(*                                                                         *)
(* "owed" and "adrift" are of the model, not of the code; no guard reads   *)
(* them.                                                                   *)
(***************************************************************************)
EXTENDS Naturals, Sequences, SequencesExt

CONSTANTS
  MaxDepth,   \* bound on nested operations; notifications come on top
  Preparers   \* the operations whose callbacks may prepare the view

ASSUME DepthAssumption == MaxDepth \in Nat \ {0}

VARIABLES
  attached,    \* is there a _state?
  detaching,   \* _detaching
  replacing,   \* _replacingDevice
  view,        \* the State
  visual,      \* _host._pendingVisualPreparation
  stack,       \* the calls in progress
  owed,        \* does the application know that it must call Prepare?
  adrift       \* did _interactionRevision move last without a word to the application?

host == <<attached, detaching, replacing>>
vars == <<host, view, visual, stack, owed, adrift>>

View == [visible : BOOLEAN,      \* visible
         dirty : BOOLEAN,        \* dirty
         coherent : BOOLEAN,     \* coherent
         layout : BOOLEAN,       \* interactionLayoutAvailable
         arranged : BOOLEAN,     \* preparedInteractionRevision is the current one
         zeroSized : BOOLEAN,    \* zeroSized
         surface : BOOLEAN,      \* texture, view and bitmap are allocated
         graphics : BOOLEAN,     \* graphics is set
         requested : BOOLEAN,    \* preparationRequested
         inputWake : BOOLEAN,    \* inputWakePending
         recoveryWake : BOOLEAN, \* recoveryWakePending
         preparing : BOOLEAN,    \* preparing
         prepareCall : BOOLEAN]  \* prepareCallActive

NewView == [visible |-> TRUE, dirty |-> TRUE, coherent |-> FALSE, layout |-> FALSE,
            arranged |-> FALSE, zeroSized |-> FALSE, surface |-> FALSE, graphics |-> FALSE,
            requested |-> TRUE, inputWake |-> FALSE, recoveryWake |-> FALSE,
            preparing |-> FALSE, prepareCall |-> FALSE]

Op == {"attach", "detach", "replace", "hide", "prepare", "interact", "input", "wake"}

\* The stages at which a frame has called a control or the application ...
CalloutStage == {"release", "released", "discard", "detach", "cancel", "layout", "content",
                 "paint", "publish", "invalid", "acknowledge", "input"}
\* ... and those at which the scheduling callback runs, or has returned.
Stage == CalloutStage \cup {"wake", "finish"}

Frame == [op : Op, at : Stage, same : BOOLEAN, current : BOOLEAN, clean : BOOLEAN,
          tree : BOOLEAN, resized : BOOLEAN, ask : BOOLEAN]

NewFrame(op, at) == [op |-> op, at |-> at, same |-> TRUE, current |-> TRUE, clean |-> TRUE,
                     tree |-> TRUE, resized |-> FALSE, ask |-> FALSE]

TypeOK ==
  /\ attached \in BOOLEAN /\ detaching \in BOOLEAN /\ replacing \in BOOLEAN
  /\ view \in View
  /\ visual \in BOOLEAN /\ owed \in BOOLEAN /\ adrift \in BOOLEAN
  /\ stack \in Seq(Frame)
  /\ ~attached => view = NewView

Init ==
  /\ attached = FALSE /\ detaching = FALSE /\ replacing = FALSE
  /\ view = NewView
  /\ visual = FALSE /\ owed = FALSE /\ adrift = FALSE
  /\ stack = <<>>

-----------------------------------------------------------------------------
(* The stack.                                                              *)

Top == Last(stack)
Below == Front(stack)
Calls == Len(SelectSeq(stack, LAMBDA f : f.op # "wake"))

Return == stack' = Below
Continue(f) == stack' = Append(Below, f)

Mapped(frames, Change(_)) == [i \in DOMAIN frames |-> Change(frames[i])]
NewAttachment(frames) == Mapped(frames, LAMBDA f : [f EXCEPT !.same = FALSE, !.current = FALSE])
NewOperation(frames)  == Mapped(frames, LAMBDA f : [f EXCEPT !.current = FALSE])
NewRevision(frames)   == Mapped(frames, LAMBDA f : [f EXCEPT !.clean = FALSE])
Drifted(frames)       == Mapped(frames, LAMBDA f : [f EXCEPT !.tree = FALSE])
NewTree(frames)       == Mapped(frames, LAMBDA f : [f EXCEPT !.clean = FALSE, !.tree = FALSE])

\* The running code may call the view: nothing runs, or a control does.
MayCall == Calls < MaxDepth /\ (stack # <<>> => Top.at \in CalloutStage)
\* A frame of the application prepares; it may be run by a modal loop inside a callback.
MayPrepare == MayCall /\ \A i \in DOMAIN stack : stack[i].op \in Preparers
\* The scheduling callback may change controls, and no more ("must not re-enter EmbeddedHost").
MayChange == stack # <<>> => Top.at \in CalloutStage \cup {"wake"}
\* The frame goes on after what it called.
Resumes(at) == stack # <<>> /\ Top.at = at

IsCurrent(f) == f.same /\ f.current /\ ~detaching

\* Mutant of PreparationIsCurrent: forgets _operationRevision.
AttachmentIsCurrent(f) == f.same /\ ~detaching /\ ~replacing

PreparationIsCurrent(f) == IsCurrent(f) /\ ~replacing

-----------------------------------------------------------------------------
(* RequestPreparation, by a view that became v, with frames in progress:   *)
(* one notification at a time, none during a preparation, and those of an  *)
(* input entry when it is over.                                            *)

InputActive(frames) == \E i \in DOMAIN frames : frames[i].op = "input"

\* Mutant of MayRequest: asks in the middle of a preparation.
MayRequestAlways(v) == v.visible /\ ~v.zeroSized /\ ~v.requested /\ ~detaching

MayRequest(v) == v.visible /\ ~v.zeroSized /\ ~v.preparing /\ ~v.requested /\ ~detaching

RequestPreparation(v, frames) ==
  \/ /\ ~MayRequest(v)
     /\ view' = v /\ stack' = frames /\ UNCHANGED owed
  \/ /\ MayRequest(v) /\ InputActive(frames)
     /\ view' = [v EXCEPT !.inputWake = TRUE] /\ stack' = frames /\ UNCHANGED owed
  \/ /\ MayRequest(v) /\ ~InputActive(frames)
     /\ view' = [v EXCEPT !.requested = TRUE]
     /\ stack' = Append(frames, NewFrame("wake", "wake"))
     /\ owed' = TRUE

\* The application has taken note of the notification.
WakeReturns == Resumes("wake") /\ Return /\ UNCHANGED <<host, view, visual, owed, adrift>>

\* MarkDirty, when pixels change and when the tree or its geometry does.  What a setter calls between
\* the two steps of ChangeTree finds the view as after SetClipboardPreference.
ChangePixels ==
  /\ attached /\ MayChange
  /\ \E v \in {visual, TRUE} : visual' = v
  /\ RequestPreparation([view EXCEPT !.dirty = TRUE], NewRevision(stack))
  /\ adrift' = FALSE
  /\ UNCHANGED host

ChangeTree ==
  /\ attached /\ MayChange
  /\ \E v \in {visual, TRUE} : visual' = v
  /\ RequestPreparation([view EXCEPT !.dirty = TRUE, !.arranged = FALSE], NewTree(stack))
  /\ adrift' = FALSE
  /\ UNCHANGED host

\* The interaction revision moves, but no pixel is called stale and nobody is asked.
SetClipboardPreference ==
  /\ attached /\ MayChange
  /\ view' = [view EXCEPT !.arranged = FALSE]
  /\ stack' = Drifted(stack)
  /\ adrift' = TRUE
  /\ UNCHANGED <<host, visual, owed>>

-----------------------------------------------------------------------------
(* Attach, Detach, ReplaceDevice and SetVisible.                           *)

Attach ==
  /\ MayCall /\ ~attached /\ ~detaching
  /\ attached' = TRUE
  /\ view' = NewView
  /\ detaching' = replacing
  /\ replacing' = TRUE
  /\ stack' = Append(NewAttachment(stack), NewFrame("attach", IF replacing THEN "detach" ELSE "release"))
  /\ UNCHANGED <<visual, owed, adrift>>

Detach ==
  /\ MayCall /\ attached /\ ~detaching
  /\ detaching' = TRUE
  /\ stack' = Append(NewAttachment(stack), NewFrame("detach", "detach"))
  /\ UNCHANGED <<attached, replacing, view, visual, owed, adrift>>

\* Mutant of Detached: keeps the State.
DetachedKeepsState ==
  /\ Resumes("detach")
  /\ attached' = FALSE /\ detaching' = FALSE
  /\ adrift' = FALSE
  /\ Return
  /\ UNCHANGED <<replacing, view, visual, owed>>

Detached ==
  /\ Resumes("detach")
  /\ attached' = FALSE /\ detaching' = FALSE
  /\ view' = NewView
  /\ adrift' = FALSE
  /\ Return
  /\ UNCHANGED <<replacing, visual, owed>>

ReplaceDevice ==
  /\ MayCall /\ attached /\ ~detaching /\ ~replacing
  /\ replacing' = TRUE
  /\ stack' = Append(NewOperation(stack), NewFrame("replace", "release"))
  /\ UNCHANGED <<attached, detaching, view, visual, owed, adrift>>

Hide ==
  /\ MayCall /\ attached /\ ~detaching /\ view.visible
  /\ view' = [view EXCEPT !.visible = FALSE, !.recoveryWake = FALSE]
  /\ stack' = Append(NewOperation(stack), NewFrame("hide", "release"))
  /\ UNCHANGED <<host, visual, owed, adrift>>

Show ==
  LET shown == [view EXCEPT !.visible = TRUE, !.dirty = TRUE] IN
  /\ MayCall /\ attached /\ ~detaching /\ ~view.visible
  /\ IF view.prepareCall
     THEN /\ view' = [shown EXCEPT !.recoveryWake = TRUE]
          /\ stack' = NewOperation(stack)
          /\ UNCHANGED owed
     ELSE RequestPreparation(shown, NewOperation(stack))
  /\ UNCHANGED <<host, visual, adrift>>

\* Attach and ReplaceDevice that did not come through; a failed Attach detaches what is attached.
ReplacementFails ==
  /\ replacing' = FALSE
  /\ owed' = TRUE
  /\ IF Top.op = "attach" /\ attached /\ ~detaching
     THEN /\ detaching' = TRUE
          /\ stack' = Append(NewAttachment(Below), NewFrame("attach", "detach"))
     ELSE Return /\ UNCHANGED detaching
  /\ UNCHANGED <<attached, view, visual, adrift>>

DiscardDevice ==
  /\ Resumes("released") /\ Top.op \in {"attach", "replace"} /\ IsCurrent(Top)
  /\ view' = [view EXCEPT !.graphics = FALSE]
  /\ Continue([Top EXCEPT !.at = "discard"])
  /\ UNCHANGED <<host, visual, owed, adrift>>

\* Mutant of DeviceReplaced: replaced during a preparation, it leaves the wake to nobody.
DeviceReplacedSilently ==
  /\ Resumes("discard") /\ IsCurrent(Top)
  /\ replacing' = FALSE
  /\ view' = [view EXCEPT !.graphics = TRUE, !.requested = (Top.op = "attach")]
  /\ owed' = (owed \/ ~view.prepareCall)
  /\ Return
  /\ UNCHANGED <<attached, detaching, visual, adrift>>

\* A replacement in the middle of a preparation leaves the wake to that preparation.
DeviceReplaced ==
  /\ Resumes("discard") /\ IsCurrent(Top)
  /\ replacing' = FALSE
  /\ view' = [view EXCEPT !.graphics = TRUE, !.requested = (Top.op = "attach"),
                          !.recoveryWake = @ \/ view.prepareCall]
  /\ owed' = (owed \/ ~view.prepareCall)
  /\ Return
  /\ UNCHANGED <<attached, detaching, visual, adrift>>

DeviceFails == Resumes("discard") /\ ReplacementFails

HideReturns ==
  /\ Resumes("released") /\ Top.op = "hide"
  /\ Return
  /\ UNCHANGED <<host, view, visual, owed, adrift>>

-----------------------------------------------------------------------------
(* Prepare.                                                                *)

\* What it does on every way out, result being S_OK, S_FALSE, E_ABORT or a failure: clear the
\* flags of the attachment it began with and ask for another preparation if one is due.
Finish(f, v, result) ==
  LET request == /\ v.visible /\ ~v.zeroSized /\ ~detaching /\ ~replacing
                 /\ v.recoveryWake \/ (f.current /\ (f.ask \/ ~f.clean))
      done    == [v EXCEPT !.preparing = FALSE, !.recoveryWake = FALSE]
      frames  == Append(Below, [f EXCEPT !.at = "finish"])
      told    == result = "failure"
  IN IF ~f.same
     THEN view' = view /\ Return /\ owed' = (owed \/ told)
     ELSE IF request /\ MayRequest(done)
     THEN IF InputActive(frames)
          THEN view' = [done EXCEPT !.inputWake = TRUE] /\ stack' = frames /\ owed' = (owed \/ told)
          ELSE /\ view' = [done EXCEPT !.requested = TRUE]
               /\ stack' = Append(frames, NewFrame("wake", "wake"))
               /\ owed' = TRUE
     ELSE view' = done /\ stack' = frames /\ owed' = (owed \/ told)

Finished ==
  /\ Resumes("finish")
  /\ view' = IF Top.same THEN [view EXCEPT !.prepareCall = FALSE] ELSE view
  /\ Return
  /\ UNCHANGED <<host, visual, owed, adrift>>

Prepare(zero, valid, resized) ==
  LET begun == [view EXCEPT !.prepareCall = TRUE, !.preparing = TRUE, !.requested = FALSE,
                            !.zeroSized = zero]
      f(at) == [NewFrame("prepare", at) EXCEPT !.resized = resized]
  IN
  /\ MayPrepare /\ attached /\ view.graphics /\ ~detaching /\ ~replacing /\ ~view.prepareCall
  /\ resized => view.surface /\ ~zero /\ valid
  /\ owed' = FALSE
  /\ \/ /\ ~view.visible \/ zero
        /\ view' = begun
        /\ stack' = Append(stack, f("release"))
     \/ /\ view.visible /\ ~zero /\ ~valid
        /\ view' = [begun EXCEPT !.coherent = FALSE, !.layout = FALSE]
        /\ stack' = Append(stack, f("invalid"))
     \/ /\ view.visible /\ ~zero /\ valid
        /\ view' = begun
        /\ stack' = Append(stack, f("cancel"))
  /\ UNCHANGED <<host, visual, adrift>>

\* Hidden or without extent: the surface is gone.
PrepareSuspended ==
  /\ Resumes("released") /\ Top.op = "prepare"
  /\ Finish(Top, view, IF PreparationIsCurrent(Top) THEN "S_FALSE" ELSE "E_ABORT")
  /\ UNCHANGED <<host, visual, adrift>>

PrepareInvalid ==
  /\ Resumes("invalid") /\ Top.op = "prepare"
  /\ Finish(Top, view, "failure")
  /\ UNCHANGED <<host, visual, adrift>>

\* A callback replaced what the preparation is about.
PrepareAborts ==
  /\ stack # <<>> /\ Top.op = "prepare"
  /\ \/ Top.at \in {"cancel", "layout", "content", "publish"} /\ ~PreparationIsCurrent(Top)
     \/ Top.at = "paint" /\ ~(PreparationIsCurrent(Top) /\ Top.tree)
     \/ Top.at = "content" /\ ~Top.tree
  /\ Finish(Top, view, "E_ABORT")
  /\ UNCHANGED <<host, visual, adrift>>

\* Nothing changed, or the surface is allocated and layout begins.
PrepareSurface ==
  LET begun == [view EXCEPT !.coherent = FALSE, !.layout = FALSE, !.dirty = TRUE] IN
  /\ Resumes("cancel") /\ PreparationIsCurrent(Top)
  /\ IF ~view.dirty /\ ~visual /\ view.coherent /\ ~Top.resized
     THEN Finish(Top, view, "S_FALSE")
     ELSE \/ (Top.resized \/ ~view.surface) /\ Finish(Top, begun, "failure")
          \/ /\ view' = [begun EXCEPT !.surface = TRUE]
             /\ Continue([Top EXCEPT !.at = "layout"])
             /\ UNCHANGED owed
  /\ UNCHANGED <<host, visual, adrift>>

PrepareContent ==
  /\ Resumes("layout") /\ PreparationIsCurrent(Top)
  /\ visual' = FALSE
  /\ Continue([Top EXCEPT !.at = "content", !.clean = TRUE, !.tree = TRUE])
  /\ UNCHANGED <<host, view, owed, adrift>>

\* Content is ready, needs another turn, or failed; optional visuals may need one too.
PreparePaint ==
  /\ Resumes("content") /\ PreparationIsCurrent(Top)
  /\ \E v \in {visual, TRUE} : visual' = v
  /\ \/ Continue([Top EXCEPT !.at = "paint", !.clean = TRUE, !.tree = TRUE]) /\ UNCHANGED <<view, owed>>
     \/ Finish([Top EXCEPT !.ask = TRUE], view, "S_FALSE")
     \/ Finish(Top, view, "failure")
  /\ UNCHANGED <<host, adrift>>

PreparePublish ==
  /\ Resumes("paint") /\ PreparationIsCurrent(Top) /\ Top.tree
  /\ \/ Finish(Top, view, "failure") /\ UNCHANGED adrift
     \/ /\ adrift' = FALSE
        /\ view' = [view EXCEPT !.arranged = TRUE, !.coherent = TRUE, !.layout = TRUE, !.dirty = ~Top.clean]
        /\ Continue([Top EXCEPT !.at = "publish"])
        /\ UNCHANGED owed
  /\ UNCHANGED <<host, visual>>

PrepareEnds ==
  LET v == [view EXCEPT !.coherent = @ /\ Top.tree, !.dirty = ~Top.clean] IN
  /\ Resumes("publish") /\ PreparationIsCurrent(Top)
  /\ Finish([Top EXCEPT !.ask = v.dirty \/ visual], v, IF v.coherent THEN "S_OK" ELSE "E_ABORT")
  /\ UNCHANGED <<host, visual, adrift>>

-----------------------------------------------------------------------------
(* ReleaseSurface, by whichever operation is running.                      *)

\* Mutant of SurfaceReleased: the view stays coherent without its surface.
SurfaceReleasedCoherent ==
  /\ Resumes("release") /\ IsCurrent(Top)
  /\ view' = [view EXCEPT !.surface = FALSE, !.layout = FALSE, !.requested = FALSE, !.dirty = TRUE]
  /\ visual' = TRUE
  /\ Continue([Top EXCEPT !.at = "released"])
  /\ UNCHANGED <<host, owed, adrift>>

SurfaceReleased ==
  /\ Resumes("release") /\ IsCurrent(Top)
  /\ view' = [view EXCEPT !.surface = FALSE, !.coherent = FALSE, !.layout = FALSE,
                          !.requested = FALSE, !.dirty = TRUE]
  /\ visual' = TRUE
  /\ Continue([Top EXCEPT !.at = "released"])
  /\ UNCHANGED <<host, owed, adrift>>

\* A callback replaced the operation: the surface is that one's now.
ReleaseAbandoned ==
  /\ stack # <<>> /\ Top.at \in {"release", "released"} /\ ~IsCurrent(Top)
  /\ Top.at = "released" => Top.op \in {"attach", "replace"}
  /\ CASE Top.op = "hide"    -> Return /\ UNCHANGED <<host, view, visual, owed, adrift>>
       [] Top.op = "prepare" -> Finish(Top, view, "E_ABORT") /\ UNCHANGED <<host, visual, adrift>>
       [] OTHER              -> ReplacementFails

-----------------------------------------------------------------------------
(* PrepareInteraction and the input entries.                               *)

\* Acknowledges an arrangement at the extent of the last painted surface, and refuses any other.
PrepareInteraction(matches) ==
  LET accepted == /\ view.visible /\ ~view.zeroSized /\ view.layout /\ view.surface /\ matches IN
  /\ MayPrepare /\ attached /\ view.graphics /\ ~detaching /\ ~replacing
  /\ accepted => ~(view.coherent /\ view.arranged)
  /\ view' = IF accepted THEN view ELSE [view EXCEPT !.coherent = FALSE, !.layout = FALSE]
  /\ stack' = Append(stack, NewFrame("interact", IF accepted THEN "acknowledge" ELSE "invalid"))
  /\ UNCHANGED <<host, visual, owed, adrift>>

InteractionRefused ==
  /\ Resumes("invalid") /\ Top.op = "interact"
  /\ Return
  /\ owed' = TRUE
  /\ UNCHANGED <<host, view, visual, adrift>>

\* Mutant of InteractionAcknowledged: does not ask whether it is still current.
InteractionAlwaysAcknowledged ==
  /\ Resumes("acknowledge")
  /\ Return
  /\ owed' = TRUE
  /\ view' = IF ~Top.tree THEN [view EXCEPT !.coherent = FALSE]
             ELSE [view EXCEPT !.arranged = TRUE, !.coherent = TRUE, !.dirty = TRUE]
  /\ adrift' = (adrift /\ ~view'.arranged)
  /\ UNCHANGED <<host, visual>>

InteractionAcknowledged ==
  /\ Resumes("acknowledge")
  /\ Return
  /\ owed' = TRUE
  /\ view' = IF ~PreparationIsCurrent(Top) THEN view
             ELSE IF ~Top.tree THEN [view EXCEPT !.coherent = FALSE]
             ELSE [view EXCEPT !.arranged = TRUE, !.coherent = TRUE, !.dirty = TRUE]
  /\ adrift' = (adrift /\ ~view'.arranged)
  /\ UNCHANGED <<host, visual>>

\* Input on geometry that moved is refused until it is prepared (InputIsCoherent).
Input ==
  /\ MayCall /\ attached /\ view.visible /\ ~detaching
  /\ view' = [view EXCEPT !.coherent = @ /\ view.arranged]
  /\ stack' = Append(stack, NewFrame("input", "input"))
  /\ UNCHANGED <<host, visual, owed, adrift>>

InputRechecks ==
  /\ Resumes("input") /\ attached /\ view.visible /\ view.coherent /\ ~view.arranged
  /\ view' = [view EXCEPT !.coherent = FALSE]
  /\ UNCHANGED <<host, visual, stack, owed, adrift>>

\* Mutant of InputReturns: forgets the wake that was held back.
InputReturnsSilently ==
  /\ Resumes("input")
  /\ Return
  /\ UNCHANGED <<host, view, visual, owed, adrift>>

\* ~InputScope: the outermost entry delivers the wake that was held back.
InputReturns ==
  /\ Resumes("input")
  /\ IF attached /\ view.inputWake /\ ~InputActive(Below)
     THEN RequestPreparation([view EXCEPT !.inputWake = FALSE], Below)
     ELSE Return /\ UNCHANGED <<view, owed>>
  /\ UNCHANGED <<host, visual, adrift>>

-----------------------------------------------------------------------------
Lifecycle ==
  \/ Attach \/ Detach \/ Detached \/ ReplaceDevice \/ Hide \/ Show
  \/ DiscardDevice \/ DeviceReplaced \/ DeviceFails \/ HideReturns
  \/ SurfaceReleased \/ ReleaseAbandoned

Preparation ==
  \/ \E zero, valid, resized \in BOOLEAN : Prepare(zero, valid, resized)
  \/ PrepareSuspended \/ PrepareInvalid \/ PrepareAborts \/ PrepareSurface
  \/ PrepareContent \/ PreparePaint \/ PreparePublish \/ PrepareEnds \/ Finished

Interaction ==
  \/ \E matches \in BOOLEAN : PrepareInteraction(matches)
  \/ InteractionRefused \/ InteractionAcknowledged
  \/ Input \/ InputRechecks \/ InputReturns

Change == ChangePixels \/ ChangeTree \/ SetClipboardPreference

Next == Lifecycle \/ Preparation \/ Interaction \/ Change \/ WakeReturns

Spec == Init /\ [][Next]_vars

-----------------------------------------------------------------------------
\* Composite draws the surface whenever the view is visible and coherent: whatever callbacks did to
\* the view, there is a surface of the current device then.
CompositeHasSurface == attached /\ view.visible /\ view.coherent => view.surface /\ view.graphics

\* When nothing runs, a visible view with an extent whose pixels are stale is known to be so: the
\* application was notified, or an operation it called told it.  No wake is lost between the
\* preparing, the input and the recovery flags.  The code keeps this only for changes that are
\* announced at all: SetClipboardPreference is not (DxUi.WindowHost.cpp:2847-2854).
StaleIsAnnounced ==
  stack = <<>> /\ attached /\ view.visible /\ ~view.zeroSized
    /\ (view.dirty \/ visual \/ ~view.coherent) => owed \/ adrift

\* "A hidden or zero-extent view holds no surface" (Rendering_EmbeddedD3D11.md), hidden.
HiddenHasNoSurface == stack = <<>> /\ attached /\ ~view.visible => ~view.surface /\ ~view.coherent

\* What is composited has a surface, and what is hidden has none.
SurfaceIsAsShown == CompositeHasSurface /\ HiddenHasNoSurface

\* "Never invoke application scheduling while a control paint or layout callback is still on the
\* stack": the application is not notified from inside a preparation of the attachment.
NoWakeInsidePreparation ==
  \A i, j \in DOMAIN stack :
    i < j /\ stack[i].op = "prepare" /\ stack[i].same /\ stack[j].op = "wake" => stack[i].at = "finish"

\* When nothing runs no flag of an operation is left behind, so that nothing is refused for ever.
RestIsIdle ==
  stack = <<>> =>
    /\ ~detaching /\ ~replacing
    /\ ~view.preparing /\ ~view.prepareCall /\ ~view.recoveryWake /\ ~view.inputWake

\* A frame that outlived its attachment returns without touching the state of the next one.
TopGoesOn == stack # <<>> /\ (Len(stack') < Len(stack) \/ stack'[Len(stack)].at # Top.at)
RetiredTouchNothing ==
  [][TopGoesOn /\ ~Top.same /\ Top.op \in {"prepare", "replace", "hide", "interact"} => view' = view]_vars

=============================================================================
