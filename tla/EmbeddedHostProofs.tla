------------------------- MODULE EmbeddedHostProofs -------------------------
(***************************************************************************)
(* Proofs about EmbeddedHost, for calls of any depth and an application    *)
(* that prepares from any callback.  None of the properties is inductive:  *)
(* that a stale view was announced depends on what the operations in       *)
(* progress still owe, and that in turn on what each of them may assume at *)
(* its stage although callbacks ran in between.  EmbeddedInv says both.    *)
(*                                                                         *)
(* Its parts are operators of a state, not of the variables: an action     *)
(* that ends in RequestPreparation is proved in two steps, a state that is *)
(* sound (Sound), and the notification that makes it known (RequestKeeps). *)
(***************************************************************************)
EXTENDS EmbeddedHost, SequenceTheorems, TLAPS

-----------------------------------------------------------------------------
(* The invariant.  In its parts a, d, r, v, x, s, w and z stand for        *)
(* attached, detaching, replacing, view, visual, stack, owed and adrift.   *)

\* The frame's revisions are the view's; a preparation, and a replacement, that is not over.
Live(f)      == f.same /\ f.current
Preparing(f) == f.op = "prepare" /\ f.same
Replacing(f) == f.op \in {"attach", "replace"} /\ f.at \in {"release", "released", "discard"}

\* The stages of each operation.
AtFits(f) ==
  \/ f.op = "attach"   /\ f.at \in {"release", "released", "discard", "detach"}
  \/ f.op = "detach"   /\ f.at = "detach"
  \/ f.op = "replace"  /\ f.at \in {"release", "released", "discard"}
  \/ f.op = "hide"     /\ f.at \in {"release", "released"}
  \/ f.op = "prepare"  /\ f.at \in {"release", "released", "invalid", "cancel", "layout", "content",
                                    "paint", "publish", "finish"}
  \/ f.op = "interact" /\ f.at \in {"acknowledge", "invalid"}
  \/ f.op = "input"    /\ f.at = "input"
  \/ f.op = "wake"     /\ f.at = "wake"

\* Every frame but the last waits for what it called.
FramesFit(s) ==
  \A i \in 1 .. Len(s) :
    /\ AtFits(s[i])
    /\ i < Len(s) => \/ s[i].at \in CalloutStage
                     \/ s[i].at = "finish" /\ i + 1 = Len(s) /\ s[i + 1].op = "wake"

\* Detaching and replacing are those of a frame, and what such an operation interrupted is not current.
HostKnows(a, d, r, s) ==
  /\ ~a => \A i \in 1 .. Len(s) : ~s[i].same
  /\ d => s # <<>> /\ s[Len(s)].at = "detach" /\ \A i \in 1 .. Len(s) - 1 : ~s[i].same
  /\ \A i \in 1 .. Len(s) : s[i].at = "detach" => i = Len(s) /\ d
  /\ r => \E i \in 1 .. Len(s) : Replacing(s[i])
  /\ \A i \in 1 .. Len(s) : Replacing(s[i]) /\ Live(s[i]) => r
  /\ \A i, j \in 1 .. Len(s) :
       i < j /\ s[j].op \in {"attach", "detach", "replace", "hide"} => ~s[i].current

\* One preparation of an attachment at most, whose flags they are; no notification during it.
FlagsKnow(d, v, s) ==
  /\ \A i, j \in 1 .. Len(s) : Preparing(s[i]) /\ Preparing(s[j]) => i = j
  /\ \A i \in 1 .. Len(s) : Preparing(s[i]) => v.prepareCall /\ (v.preparing <=> s[i].at # "finish")
  /\ v.prepareCall \/ v.preparing => d \/ \E i \in 1 .. Len(s) : Preparing(s[i])
  /\ v.recoveryWake => v.preparing
  /\ v.inputWake => \E i \in 1 .. Len(s) : s[i].op = "input"
  /\ \A i \in 1 .. Len(s) : s[i].op = "wake" => v.requested /\ ~v.preparing

\* What a frame whose revisions are the view's may assume of it at its stage.
FrameKnows(v, f) ==
  Live(f) =>
    /\ f.op \in {"prepare", "interact"} => v.graphics
    /\ f.op = "attach" /\ f.at \in {"release", "released", "discard"} => ~v.prepareCall
    /\ f.op = "prepare" /\ f.at \in {"release", "released"} => ~v.visible \/ v.zeroSized
    /\ f.op = "prepare" /\ f.at \in {"cancel", "layout", "content", "paint", "publish"} =>
         v.visible /\ ~v.zeroSized
    /\ f.op = "hide" => ~v.visible
    /\ f.at = "released" => ~v.surface
    /\ f.at \in {"layout", "content", "paint", "publish"} => v.surface
    /\ f.at = "publish" /\ f.tree => v.arranged

FramesKnow(v, s) == \A i \in 1 .. Len(s) : FrameKnows(v, s[i])

\* What is coherent has a surface, if nothing prepares under PrepareInteraction.
DrawnKnows(v, s) ==
  "interact" \notin Preparers =>
    /\ v.coherent => v.surface /\ v.graphics
    /\ \A i \in 1 .. Len(s) : Live(s[i]) /\ s[i].at = "acknowledge" => v.surface
    /\ \A i, j \in 1 .. Len(s) : i < j /\ s[j].op = "prepare" => s[i].op # "interact"

\* A hidden view has lost its surface, or somebody is about to release it.
HiddenKnows(a, d, v, s) ==
  a /\ ~v.visible /\ v.surface => d \/ \E i \in 1 .. Len(s) : Live(s[i]) /\ s[i].at = "release"

\* The application knows, or an operation in progress tells it when it returns.
Announcing(d, s, w) == w \/ d \/ \E i \in 1 .. Len(s) : Replacing(s[i])
Told(d, s, w)       == Announcing(d, s, w) \/ \E i \in 1 .. Len(s) : s[i].op = "interact"

\* Who announces what a preparation that was interrupted leaves undone.
FrameOwes(d, v, s, w, f) ==
  /\ Preparing(f) /\ f.at # "finish" /\ ~f.current => ~v.visible \/ v.recoveryWake \/ Announcing(d, s, w)
  /\ Preparing(f) /\ f.at = "publish" /\ f.current /\ f.tree => v.coherent \/ Told(d, s, w)

\* A request that was made is known.
WakesKnow(a, d, v, s, w) ==
  /\ a /\ v.requested => Announcing(d, s, w)
  /\ \A i \in 1 .. Len(s) : FrameOwes(d, v, s, w, s[i])

\* Stale pixels that are visible are known, held back by input, being prepared, or adrift.
Stale(a, v, x) == a /\ v.visible /\ ~v.zeroSized /\ (v.dirty \/ x \/ ~v.coherent)
StaleKnown(a, d, v, x, s, w, z) == Stale(a, v, x) => z \/ Told(d, s, w) \/ v.inputWake \/ v.preparing

\* A preparation whose tree has changed ends with stale pixels, is told, or it is adrift; its own
\* arrangement is the current one until something else moves it.
TreeOwes(v, w, z, f) ==
  Preparing(f) =>
    /\ ~f.tree => ~f.clean \/ w \/ z
    /\ f.at = "publish" /\ ~v.arranged => ~f.clean \/ z

\* Pixels of another arrangement are stale, unless the revision moved without a word.
TreesKnow(v, s, w, z) ==
  /\ ~v.arranged => v.dirty \/ z
  /\ \A i \in 1 .. Len(s) : TreeOwes(v, w, z, s[i])

Typed(a, d, r, v, x, s, w) ==
  /\ a \in BOOLEAN /\ d \in BOOLEAN /\ r \in BOOLEAN
  /\ v \in View /\ x \in BOOLEAN /\ w \in BOOLEAN
  /\ s \in Seq(Frame)
  /\ ~a => v = NewView

Sound(a, d, r, v, x, s, w) ==
  /\ Typed(a, d, r, v, x, s, w)
  /\ FramesFit(s) /\ HostKnows(a, d, r, s) /\ FlagsKnow(d, v, s) /\ FramesKnow(v, s)
  /\ DrawnKnows(v, s) /\ HiddenKnows(a, d, v, s) /\ WakesKnow(a, d, v, s, w)

\* The inductive invariant is EmbeddedInv with TreeInv.
EmbeddedInv ==
  /\ Sound(attached, detaching, replacing, view, visual, stack, owed)
  /\ StaleKnown(attached, detaching, view, visual, stack, owed, adrift)

TreeInv == adrift \in BOOLEAN /\ TreesKnow(view, stack, owed, adrift)

-----------------------------------------------------------------------------
(* Stacks.                                                                 *)

LEMMA StackFacts ==
  ASSUME NEW s \in Seq(Frame)
  PROVE  /\ Len(s) \in Nat /\ DOMAIN s = 1 .. Len(s)
         /\ \A i \in 1 .. Len(s) : s[i] \in Frame
         /\ s = <<>> <=> Len(s) = 0
  OBVIOUS

LEMMA FrontFacts ==
  ASSUME NEW s \in Seq(Frame), s # <<>>
  PROVE  /\ Len(s) \in Nat \ {0} /\ DOMAIN s = 1 .. Len(s)
         /\ Last(s) = s[Len(s)] /\ Last(s) \in Frame
         /\ Front(s) \in Seq(Frame) /\ Len(Front(s)) = Len(s) - 1
         /\ DOMAIN Front(s) = 1 .. Len(s) - 1
         /\ \A i \in 1 .. Len(s) - 1 : Front(s)[i] = s[i]
<1>1. Len(s) \in Nat \ {0} /\ DOMAIN s = 1 .. Len(s) /\ \A i \in 1 .. Len(s) : s[i] \in Frame
  OBVIOUS
<1>2. SubSeq(s, 1, Len(s) - 1) \in Seq(Frame)
  BY <1>1, SubSeqProperties
<1>3. Len(SubSeq(s, 1, Len(s) - 1)) = Len(s) - 1 /\ \A i \in 1 .. Len(s) - 1 : SubSeq(s, 1, Len(s) - 1)[i] = s[i]
  BY <1>1, SubSeqProperties
<1> QED BY <1>1, <1>2, <1>3 DEF Front, Last

LEMMA PushFacts ==
  ASSUME NEW s \in Seq(Frame), NEW f \in Frame
  PROVE  /\ Append(s, f) \in Seq(Frame) /\ Len(Append(s, f)) = Len(s) + 1
         /\ DOMAIN Append(s, f) = 1 .. Len(s) + 1
         /\ \A i \in 1 .. Len(s) : Append(s, f)[i] = s[i]
         /\ Append(s, f)[Len(s) + 1] = f
         /\ Append(s, f) # <<>>
  OBVIOUS

LEMMA NewAttachmentFacts ==
  ASSUME NEW s \in Seq(Frame)
  PROVE  /\ NewAttachment(s) \in Seq(Frame) /\ Len(NewAttachment(s)) = Len(s)
         /\ \A i \in 1 .. Len(s) :
              /\ NewAttachment(s)[i].op = s[i].op
              /\ NewAttachment(s)[i].at = s[i].at
              /\ NewAttachment(s)[i].same = FALSE
              /\ NewAttachment(s)[i].current = FALSE
              /\ NewAttachment(s)[i].clean = s[i].clean
              /\ NewAttachment(s)[i].tree = s[i].tree
              /\ NewAttachment(s)[i].resized = s[i].resized
              /\ NewAttachment(s)[i].ask = s[i].ask
<1>1. \A i \in 1 .. Len(s) : s[i] \in Frame
  BY StackFacts
<1>2. \A f \in Frame : [f EXCEPT !.same = FALSE, !.current = FALSE] \in Frame
  BY DEF Frame
<1>3. NewAttachment(s) = [i \in 1 .. Len(s) |-> [s[i] EXCEPT !.same = FALSE, !.current = FALSE]]
  BY StackFacts DEF NewAttachment, Mapped
<1>4. NewAttachment(s) \in [1 .. Len(s) -> Frame]
  BY <1>1, <1>2, <1>3
<1>5. NewAttachment(s) \in Seq(Frame) /\ Len(NewAttachment(s)) = Len(s)
  BY <1>4, StackFacts
<1>6. ASSUME NEW i \in 1 .. Len(s)
      PROVE  /\ NewAttachment(s)[i].op = s[i].op
             /\ NewAttachment(s)[i].at = s[i].at
             /\ NewAttachment(s)[i].same = FALSE
             /\ NewAttachment(s)[i].current = FALSE
             /\ NewAttachment(s)[i].clean = s[i].clean
             /\ NewAttachment(s)[i].tree = s[i].tree
             /\ NewAttachment(s)[i].resized = s[i].resized
             /\ NewAttachment(s)[i].ask = s[i].ask
  <2>1. NewAttachment(s)[i] = [s[i] EXCEPT !.same = FALSE, !.current = FALSE] /\ s[i] \in Frame
    BY <1>1, <1>3
  <2> QED BY <2>1 DEF Frame
<1> QED BY <1>5, <1>6

LEMMA NewOperationFacts ==
  ASSUME NEW s \in Seq(Frame)
  PROVE  /\ NewOperation(s) \in Seq(Frame) /\ Len(NewOperation(s)) = Len(s)
         /\ \A i \in 1 .. Len(s) :
              /\ NewOperation(s)[i].op = s[i].op
              /\ NewOperation(s)[i].at = s[i].at
              /\ NewOperation(s)[i].same = s[i].same
              /\ NewOperation(s)[i].current = FALSE
              /\ NewOperation(s)[i].clean = s[i].clean
              /\ NewOperation(s)[i].tree = s[i].tree
              /\ NewOperation(s)[i].resized = s[i].resized
              /\ NewOperation(s)[i].ask = s[i].ask
<1>1. \A i \in 1 .. Len(s) : s[i] \in Frame
  BY StackFacts
<1>2. \A f \in Frame : [f EXCEPT !.current = FALSE] \in Frame
  BY DEF Frame
<1>3. NewOperation(s) = [i \in 1 .. Len(s) |-> [s[i] EXCEPT !.current = FALSE]]
  BY StackFacts DEF NewOperation, Mapped
<1>4. NewOperation(s) \in [1 .. Len(s) -> Frame]
  BY <1>1, <1>2, <1>3
<1>5. NewOperation(s) \in Seq(Frame) /\ Len(NewOperation(s)) = Len(s)
  BY <1>4, StackFacts
<1>6. ASSUME NEW i \in 1 .. Len(s)
      PROVE  /\ NewOperation(s)[i].op = s[i].op
             /\ NewOperation(s)[i].at = s[i].at
             /\ NewOperation(s)[i].same = s[i].same
             /\ NewOperation(s)[i].current = FALSE
             /\ NewOperation(s)[i].clean = s[i].clean
             /\ NewOperation(s)[i].tree = s[i].tree
             /\ NewOperation(s)[i].resized = s[i].resized
             /\ NewOperation(s)[i].ask = s[i].ask
  <2>1. NewOperation(s)[i] = [s[i] EXCEPT !.current = FALSE] /\ s[i] \in Frame
    BY <1>1, <1>3
  <2> QED BY <2>1 DEF Frame
<1> QED BY <1>5, <1>6

LEMMA NewRevisionFacts ==
  ASSUME NEW s \in Seq(Frame)
  PROVE  /\ NewRevision(s) \in Seq(Frame) /\ Len(NewRevision(s)) = Len(s)
         /\ \A i \in 1 .. Len(s) :
              /\ NewRevision(s)[i].op = s[i].op
              /\ NewRevision(s)[i].at = s[i].at
              /\ NewRevision(s)[i].same = s[i].same
              /\ NewRevision(s)[i].current = s[i].current
              /\ NewRevision(s)[i].clean = FALSE
              /\ NewRevision(s)[i].tree = s[i].tree
              /\ NewRevision(s)[i].resized = s[i].resized
              /\ NewRevision(s)[i].ask = s[i].ask
<1>1. \A i \in 1 .. Len(s) : s[i] \in Frame
  BY StackFacts
<1>2. \A f \in Frame : [f EXCEPT !.clean = FALSE] \in Frame
  BY DEF Frame
<1>3. NewRevision(s) = [i \in 1 .. Len(s) |-> [s[i] EXCEPT !.clean = FALSE]]
  BY StackFacts DEF NewRevision, Mapped
<1>4. NewRevision(s) \in [1 .. Len(s) -> Frame]
  BY <1>1, <1>2, <1>3
<1>5. NewRevision(s) \in Seq(Frame) /\ Len(NewRevision(s)) = Len(s)
  BY <1>4, StackFacts
<1>6. ASSUME NEW i \in 1 .. Len(s)
      PROVE  /\ NewRevision(s)[i].op = s[i].op
             /\ NewRevision(s)[i].at = s[i].at
             /\ NewRevision(s)[i].same = s[i].same
             /\ NewRevision(s)[i].current = s[i].current
             /\ NewRevision(s)[i].clean = FALSE
             /\ NewRevision(s)[i].tree = s[i].tree
             /\ NewRevision(s)[i].resized = s[i].resized
             /\ NewRevision(s)[i].ask = s[i].ask
  <2>1. NewRevision(s)[i] = [s[i] EXCEPT !.clean = FALSE] /\ s[i] \in Frame
    BY <1>1, <1>3
  <2> QED BY <2>1 DEF Frame
<1> QED BY <1>5, <1>6

LEMMA NewTreeFacts ==
  ASSUME NEW s \in Seq(Frame)
  PROVE  /\ NewTree(s) \in Seq(Frame) /\ Len(NewTree(s)) = Len(s)
         /\ \A i \in 1 .. Len(s) :
              /\ NewTree(s)[i].op = s[i].op
              /\ NewTree(s)[i].at = s[i].at
              /\ NewTree(s)[i].same = s[i].same
              /\ NewTree(s)[i].current = s[i].current
              /\ NewTree(s)[i].clean = FALSE
              /\ NewTree(s)[i].tree = FALSE
              /\ NewTree(s)[i].resized = s[i].resized
              /\ NewTree(s)[i].ask = s[i].ask
<1>1. \A i \in 1 .. Len(s) : s[i] \in Frame
  BY StackFacts
<1>2. \A f \in Frame : [f EXCEPT !.clean = FALSE, !.tree = FALSE] \in Frame
  BY DEF Frame
<1>3. NewTree(s) = [i \in 1 .. Len(s) |-> [s[i] EXCEPT !.clean = FALSE, !.tree = FALSE]]
  BY StackFacts DEF NewTree, Mapped
<1>4. NewTree(s) \in [1 .. Len(s) -> Frame]
  BY <1>1, <1>2, <1>3
<1>5. NewTree(s) \in Seq(Frame) /\ Len(NewTree(s)) = Len(s)
  BY <1>4, StackFacts
<1>6. ASSUME NEW i \in 1 .. Len(s)
      PROVE  /\ NewTree(s)[i].op = s[i].op
             /\ NewTree(s)[i].at = s[i].at
             /\ NewTree(s)[i].same = s[i].same
             /\ NewTree(s)[i].current = s[i].current
             /\ NewTree(s)[i].clean = FALSE
             /\ NewTree(s)[i].tree = FALSE
             /\ NewTree(s)[i].resized = s[i].resized
             /\ NewTree(s)[i].ask = s[i].ask
  <2>1. NewTree(s)[i] = [s[i] EXCEPT !.clean = FALSE, !.tree = FALSE] /\ s[i] \in Frame
    BY <1>1, <1>3
  <2> QED BY <2>1 DEF Frame
<1> QED BY <1>5, <1>6

LEMMA DriftedFacts ==
  ASSUME NEW s \in Seq(Frame)
  PROVE  /\ Drifted(s) \in Seq(Frame) /\ Len(Drifted(s)) = Len(s)
         /\ \A i \in 1 .. Len(s) :
              /\ Drifted(s)[i].op = s[i].op
              /\ Drifted(s)[i].at = s[i].at
              /\ Drifted(s)[i].same = s[i].same
              /\ Drifted(s)[i].current = s[i].current
              /\ Drifted(s)[i].clean = s[i].clean
              /\ Drifted(s)[i].tree = FALSE
              /\ Drifted(s)[i].resized = s[i].resized
              /\ Drifted(s)[i].ask = s[i].ask
<1>1. \A i \in 1 .. Len(s) : s[i] \in Frame
  BY StackFacts
<1>2. \A f \in Frame : [f EXCEPT !.tree = FALSE] \in Frame
  BY DEF Frame
<1>3. Drifted(s) = [i \in 1 .. Len(s) |-> [s[i] EXCEPT !.tree = FALSE]]
  BY StackFacts DEF Drifted, Mapped
<1>4. Drifted(s) \in [1 .. Len(s) -> Frame]
  BY <1>1, <1>2, <1>3
<1>5. Drifted(s) \in Seq(Frame) /\ Len(Drifted(s)) = Len(s)
  BY <1>4, StackFacts
<1>6. ASSUME NEW i \in 1 .. Len(s)
      PROVE  /\ Drifted(s)[i].op = s[i].op
             /\ Drifted(s)[i].at = s[i].at
             /\ Drifted(s)[i].same = s[i].same
             /\ Drifted(s)[i].current = s[i].current
             /\ Drifted(s)[i].clean = s[i].clean
             /\ Drifted(s)[i].tree = FALSE
             /\ Drifted(s)[i].resized = s[i].resized
             /\ Drifted(s)[i].ask = s[i].ask
  <2>1. Drifted(s)[i] = [s[i] EXCEPT !.tree = FALSE] /\ s[i] \in Frame
    BY <1>1, <1>3
  <2> QED BY <2>1 DEF Frame
<1> QED BY <1>5, <1>6

\* A frame pushed above one that calls out, and the last frame at another stage.
LEMMA FitsPushed ==
  ASSUME NEW s \in Seq(Frame), NEW t, FramesFit(s), Len(t) = Len(s) + 1, AtFits(t[Len(s) + 1]),
         s # <<>> => s[Len(s)].at \in CalloutStage,
         \A i \in 1 .. Len(s) : t[i].op = s[i].op /\ t[i].at = s[i].at
  PROVE  FramesFit(t)
<1>1. Len(s) \in Nat /\ (s = <<>> <=> Len(s) = 0)
  BY StackFacts
<1>2. \A i \in 1 .. Len(s) : AtFits(s[i]) => AtFits(t[i])
  BY DEF AtFits
<1>3. s # <<>> => s[Len(s)].op # "wake"
  BY <1>1 DEF FramesFit, AtFits, CalloutStage
<1>4. \A i \in 1 .. Len(s) : s[i].at \in CalloutStage
  BY <1>1, <1>3 DEF FramesFit
<1> QED BY <1>1, <1>2, <1>4 DEF FramesFit

LEMMA FitsReplaced ==
  ASSUME NEW s \in Seq(Frame), s # <<>>, NEW t, FramesFit(s), Len(t) = Len(s), AtFits(t[Len(s)]), s[Len(s)].op # "wake",
         \A i \in 1 .. Len(s) - 1 : t[i] = s[i]
  PROVE  FramesFit(t)
<1>1. Len(s) \in Nat \ {0}
  BY FrontFacts
<1> QED BY <1>1 DEF FramesFit

-----------------------------------------------------------------------------
(* Notifications.                                                          *)

MayAsk(d, v) == v.visible /\ ~v.zeroSized /\ ~v.preparing /\ ~v.requested /\ ~d

\* The scheduling callback is called by a state that may call it.
LEMMA WakePushed ==
  ASSUME NEW a, NEW d, NEW r, NEW v, NEW x, NEW s, NEW w, Sound(a, d, r, v, x, s, w), a, MayAsk(d, v)
  PROVE  Sound(a, d, r, [v EXCEPT !.requested = TRUE], x, Append(s, NewFrame("wake", "wake")), TRUE)
<1> DEFINE f == NewFrame("wake", "wake")
           t == Append(s, f)
           u == [v EXCEPT !.requested = TRUE]
<1>s. v \in View /\ s \in Seq(Frame)
  BY DEF Sound, Typed
<1>f. /\ f \in Frame /\ f.op = "wake" /\ f.at = "wake" /\ f.same /\ f.current /\ f.tree /\ f.clean
  BY DEF NewFrame, Frame, Op, Stage, CalloutStage
<1>l. /\ Len(s) \in Nat /\ \A i \in 1 .. Len(s) : s[i] \in Frame
  BY <1>s, StackFacts
<1>t. /\ t \in Seq(Frame) /\ Len(t) = Len(s) + 1 /\ t[Len(s) + 1] = f
      /\ \A i \in 1 .. Len(s) : t[i] = s[i]
  BY <1>s, <1>f, PushFacts
<1>u. /\ u \in View /\ u.requested
      /\ u.visible = v.visible /\ u.dirty = v.dirty /\ u.coherent = v.coherent /\ u.arranged = v.arranged
      /\ u.zeroSized = v.zeroSized /\ u.surface = v.surface /\ u.graphics = v.graphics
      /\ u.inputWake = v.inputWake /\ u.recoveryWake = v.recoveryWake
      /\ u.preparing = v.preparing /\ u.prepareCall = v.prepareCall
  BY <1>s DEF View
<1> HIDE DEF f, t, u
<1>1. Typed(a, d, r, u, x, t, TRUE)
  BY <1>t, <1>u DEF Sound, Typed
<1>2. FramesFit(t)
  <2>1. \A i \in 1 .. Len(s) : s[i].at # "wake" /\ s[i].at # "detach"
    BY DEF Sound, FlagsKnow, MayAsk, HostKnows, FramesFit, AtFits
  <2>2. \A i \in 1 .. Len(s) : s[i].at \in CalloutStage \/ s[i].at = "finish"
    BY <2>1, <1>l DEF Frame, Stage
  <2>3. \A i \in 1 .. Len(s) : i < Len(s) => s[i].at \in CalloutStage
    BY <2>1, <1>l DEF Sound, FramesFit, AtFits
  <2> QED BY <2>2, <2>3, <1>f, <1>l, <1>t DEF Sound, FramesFit, AtFits
<1>3. HostKnows(a, d, r, t)
  BY <1>l, <1>f, <1>t DEF Sound, HostKnows, MayAsk, Replacing, Live
<1>4. FlagsKnow(d, u, t)
  BY <1>l, <1>f, <1>t, <1>u DEF Sound, FlagsKnow, MayAsk, Preparing
<1>5. FramesKnow(u, t)
  BY <1>l, <1>f, <1>t, <1>u DEF Sound, FramesKnow, FrameKnows, Live
<1>6. DrawnKnows(u, t)
  BY <1>l, <1>f, <1>t, <1>u DEF Sound, DrawnKnows, Live
<1>7. HiddenKnows(a, d, u, t)
  BY <1>l, <1>f, <1>t, <1>u DEF Sound, HiddenKnows, MayAsk
<1>8. WakesKnow(a, d, u, t, TRUE)
  BY <1>l, <1>f, <1>t, <1>u DEF Sound, WakesKnow, FrameOwes, Announcing, Told, Preparing
<1> QED BY <1>1, <1>2, <1>3, <1>4, <1>5, <1>6, <1>7, <1>8 DEF Sound, f, t, u

\* Or it is held back, until the input entry is over.
LEMMA WakeHeld ==
  ASSUME NEW a, NEW d, NEW r, NEW v, NEW x, NEW s, NEW w, Sound(a, d, r, v, x, s, w), a, InputActive(s)
  PROVE  Sound(a, d, r, [v EXCEPT !.inputWake = TRUE], x, s, w)
<1> DEFINE u == [v EXCEPT !.inputWake = TRUE]
<1>s. v \in View /\ s \in Seq(Frame) /\ \E i \in 1 .. Len(s) : s[i].op = "input"
  BY StackFacts DEF Sound, Typed, InputActive
<1>u. /\ u \in View /\ u.visible = v.visible /\ u.dirty = v.dirty /\ u.coherent = v.coherent
      /\ u.arranged = v.arranged /\ u.zeroSized = v.zeroSized /\ u.surface = v.surface
      /\ u.graphics = v.graphics /\ u.requested = v.requested /\ u.inputWake
      /\ u.recoveryWake = v.recoveryWake /\ u.preparing = v.preparing /\ u.prepareCall = v.prepareCall
  BY <1>s DEF View
<1> HIDE DEF u
<1>1. Typed(a, d, r, u, x, s, w)
  BY <1>s, <1>u DEF Sound, Typed, NewView
<1>2. FramesFit(s)
  BY <1>s, <1>u DEF Sound, FramesFit, AtFits, CalloutStage
<1>3. HostKnows(a, d, r, s)
  BY <1>s, <1>u DEF Sound, HostKnows, Replacing, Live
<1>4. FlagsKnow(d, u, s)
  BY <1>s, <1>u DEF Sound, FlagsKnow, Preparing
<1>5. FramesKnow(u, s)
  BY <1>s, <1>u DEF Sound, FramesKnow, FrameKnows, Live
<1>6. DrawnKnows(u, s)
  BY <1>s, <1>u DEF Sound, DrawnKnows, Live
<1>7. HiddenKnows(a, d, u, s)
  BY <1>s, <1>u DEF Sound, HiddenKnows, Live
<1>8. WakesKnow(a, d, u, s, w)
  BY <1>s, <1>u DEF Sound, WakesKnow, FrameOwes, Announcing, Told, Preparing, Replacing
<1> QED BY <1>1, <1>2, <1>3, <1>4, <1>5, <1>6, <1>7, <1>8 DEF Sound, u

\* Asking for a preparation, in a state that is sound but may be stale.
LEMMA RequestKeeps ==
  ASSUME NEW v, NEW s, Sound(attached, detaching, replacing, v, visual', s, owed), attached,
         RequestPreparation(v, s), UNCHANGED host
  PROVE  EmbeddedInv'
<1>h. attached' = attached /\ detaching' = detaching /\ replacing' = replacing
  BY DEF host
<1>s. v \in View /\ s \in Seq(Frame)
  BY DEF Sound, Typed
<1>1. CASE ~MayRequest(v)
  <2>1. view' = v /\ stack' = s /\ owed' = owed
    BY <1>1 DEF RequestPreparation
  <2>2. StaleKnown(attached, detaching, v, visual', s, owed, adrift')
    BY <1>1 DEF Sound, WakesKnow, StaleKnown, Stale, Told, Announcing, MayRequest
  <2> QED BY <2>1, <2>2, <1>h DEF EmbeddedInv
<1>2. CASE MayRequest(v) /\ InputActive(s)
  <2>1. view' = [v EXCEPT !.inputWake = TRUE] /\ stack' = s /\ owed' = owed
    BY <1>2 DEF RequestPreparation
  <2>2. Sound(attached, detaching, replacing, view', visual', s, owed)
    BY <1>2, <2>1, WakeHeld
  <2>3. view'.inputWake
    BY <2>1, <1>s DEF View
  <2> QED BY <2>1, <2>2, <2>3, <1>h DEF EmbeddedInv, StaleKnown
<1>3. CASE MayRequest(v) /\ ~InputActive(s)
  <2>1. view' = [v EXCEPT !.requested = TRUE] /\ stack' = Append(s, NewFrame("wake", "wake")) /\ owed' = TRUE
    BY <1>3 DEF RequestPreparation
  <2>2. Sound(attached, detaching, replacing, view', visual', stack', TRUE)
    BY <1>3, <2>1, WakePushed DEF MayRequest, MayAsk
  <2> QED BY <2>1, <2>2, <1>h DEF EmbeddedInv, StaleKnown, Told, Announcing
<1> QED BY <1>1, <1>2, <1>3

\* Pixels change.
LEMMA ChangePixelsKeeps ==
  ASSUME EmbeddedInv, ChangePixels
  PROVE  EmbeddedInv'
<1> DEFINE u == [view EXCEPT !.dirty = TRUE]
           t == NewRevision(stack)
<1>l. /\ view \in View /\ stack \in Seq(Frame) /\ Len(stack) \in Nat
      /\ \A i \in 1 .. Len(stack) : stack[i] \in Frame
      /\ stack = <<>> <=> Len(stack) = 0
  BY StackFacts DEF EmbeddedInv, Sound, Typed
<1>a. /\ attached /\ visual' \in BOOLEAN
      /\ RequestPreparation(u, t) /\ UNCHANGED host
  BY DEF EmbeddedInv, Sound, ChangePixels, Typed
<1>t. /\ t \in Seq(Frame) /\ Len(t) = Len(stack) /\ (t = <<>> <=> Len(t) = 0)
      /\ \A i \in 1 .. Len(stack) :
           /\ t[i].op = stack[i].op /\ t[i].at = stack[i].at /\ t[i].same = stack[i].same
           /\ t[i].current = stack[i].current /\ ~t[i].clean /\ t[i].tree = stack[i].tree
  BY <1>l, NewRevisionFacts, StackFacts
<1>u. /\ u \in View /\ u.visible = view.visible /\ u.dirty /\ u.coherent = view.coherent
      /\ u.arranged = view.arranged /\ u.zeroSized = view.zeroSized /\ u.surface = view.surface
      /\ u.graphics = view.graphics /\ u.requested = view.requested /\ u.inputWake = view.inputWake
      /\ u.recoveryWake = view.recoveryWake /\ u.preparing = view.preparing
      /\ u.prepareCall = view.prepareCall
  BY <1>l DEF View
<1> HIDE DEF u, t
<1>1. Typed(attached, detaching, replacing, u, visual', t, owed)
  BY <1>l, <1>t, <1>u, <1>a DEF EmbeddedInv, Sound, Typed, NewView
<1>2. FramesFit(t)
  BY <1>l, <1>t DEF EmbeddedInv, Sound, FramesFit, AtFits, CalloutStage
<1>3. HostKnows(attached, detaching, replacing, t)
  <2>1. HostKnows(attached, detaching, replacing, stack)
    BY DEF EmbeddedInv, Sound
  <2> QED BY <1>l, <1>t, <2>1 DEF HostKnows, Replacing, Live
<1>4. FlagsKnow(detaching, u, t)
  <2>1. \A i \in 1 .. Len(stack) : Preparing(t[i]) <=> Preparing(stack[i])
    BY <1>t DEF Preparing
  <2> QED BY <1>l, <1>t, <1>u, <2>1 DEF EmbeddedInv, Sound, FlagsKnow
<1>5. FramesKnow(u, t)
  BY <1>l, <1>t, <1>u DEF EmbeddedInv, Sound, FramesKnow, FrameKnows, Live
<1>6. DrawnKnows(u, t)
  BY SMTT(20), <1>l, <1>t, <1>u DEF EmbeddedInv, Sound, DrawnKnows, Live
<1>7. HiddenKnows(attached, detaching, u, t)
  BY <1>l, <1>t, <1>u DEF EmbeddedInv, Sound, HiddenKnows, Live
<1>8. WakesKnow(attached, detaching, u, t, owed)
  <2>1. WakesKnow(attached, detaching, view, stack, owed)
    BY DEF EmbeddedInv, Sound
  <2>2. \A i \in 1 .. Len(stack) : /\ Preparing(t[i]) <=> Preparing(stack[i])
                                   /\ Replacing(t[i]) <=> Replacing(stack[i])
    BY <1>t DEF Preparing, Replacing
  <2>3. /\ Announcing(detaching, stack, owed) => Announcing(detaching, t, owed)
        /\ Told(detaching, stack, owed) => Told(detaching, t, owed)
    BY <1>t, <2>2 DEF Announcing, Told
  <2>4. \A i \in 1 .. Len(stack) : FrameOwes(detaching, view, stack, owed, stack[i]) => FrameOwes(detaching, u, t, owed, t[i])
    BY <1>t, <1>u, <2>2, <2>3 DEF FrameOwes
  <2> QED BY <1>t, <1>u, <2>1, <2>3, <2>4 DEF WakesKnow
<1>k. Sound(attached, detaching, replacing, u, visual', t, owed)
  BY <1>1, <1>2, <1>3, <1>4, <1>5, <1>6, <1>7, <1>8 DEF Sound
<1> QED BY <1>a, <1>k, RequestKeeps

\* The tree or its geometry changes.
LEMMA ChangeTreeKeeps ==
  ASSUME EmbeddedInv, ChangeTree
  PROVE  EmbeddedInv'
<1> DEFINE u == [view EXCEPT !.dirty = TRUE, !.arranged = FALSE]
           t == NewTree(stack)
<1>l. /\ view \in View /\ stack \in Seq(Frame) /\ Len(stack) \in Nat
      /\ \A i \in 1 .. Len(stack) : stack[i] \in Frame
      /\ stack = <<>> <=> Len(stack) = 0
  BY StackFacts DEF EmbeddedInv, Sound, Typed
<1>a. /\ attached /\ visual' \in BOOLEAN
      /\ RequestPreparation(u, t) /\ UNCHANGED host
  BY DEF EmbeddedInv, Sound, ChangeTree, Typed
<1>t. /\ t \in Seq(Frame) /\ Len(t) = Len(stack) /\ (t = <<>> <=> Len(t) = 0)
      /\ \A i \in 1 .. Len(stack) :
           /\ t[i].op = stack[i].op /\ t[i].at = stack[i].at /\ t[i].same = stack[i].same
           /\ t[i].current = stack[i].current /\ ~t[i].clean /\ ~t[i].tree
  BY <1>l, NewTreeFacts, StackFacts
<1>u. /\ u \in View /\ u.visible = view.visible /\ u.dirty /\ u.coherent = view.coherent /\ ~u.arranged
      /\ u.zeroSized = view.zeroSized /\ u.surface = view.surface /\ u.graphics = view.graphics
      /\ u.requested = view.requested /\ u.inputWake = view.inputWake /\ u.recoveryWake = view.recoveryWake
      /\ u.preparing = view.preparing /\ u.prepareCall = view.prepareCall
  BY <1>l DEF View
<1> HIDE DEF u, t
<1>1. Typed(attached, detaching, replacing, u, visual', t, owed)
  BY <1>l, <1>t, <1>u, <1>a DEF EmbeddedInv, Sound, Typed, NewView
<1>2. FramesFit(t)
  <2>1. \A i \in 1 .. Len(stack) : AtFits(stack[i]) => AtFits(t[i])
    BY <1>t DEF AtFits
  <2> QED BY <1>l, <1>t, <2>1 DEF EmbeddedInv, Sound, FramesFit
<1>3. HostKnows(attached, detaching, replacing, t)
  <2>1. HostKnows(attached, detaching, replacing, stack)
    BY DEF EmbeddedInv, Sound
  <2> QED BY <1>l, <1>t, <2>1 DEF HostKnows, Replacing, Live
<1>4. FlagsKnow(detaching, u, t)
  <2>1. \A i \in 1 .. Len(stack) : Preparing(t[i]) <=> Preparing(stack[i])
    BY <1>t DEF Preparing
  <2> QED BY <1>l, <1>t, <1>u, <2>1 DEF EmbeddedInv, Sound, FlagsKnow
<1>5. FramesKnow(u, t)
  BY <1>l, <1>t, <1>u DEF EmbeddedInv, Sound, FramesKnow, FrameKnows, Live
<1>6. DrawnKnows(u, t)
  BY <1>l, <1>t, <1>u DEF EmbeddedInv, Sound, DrawnKnows, Live
<1>7. HiddenKnows(attached, detaching, u, t)
  BY <1>l, <1>t, <1>u DEF EmbeddedInv, Sound, HiddenKnows, Live
<1>8. WakesKnow(attached, detaching, u, t, owed)
  <2>1. WakesKnow(attached, detaching, view, stack, owed)
    BY DEF EmbeddedInv, Sound
  <2>2. \A i \in 1 .. Len(stack) : /\ Preparing(t[i]) <=> Preparing(stack[i])
                                   /\ Replacing(t[i]) <=> Replacing(stack[i])
    BY <1>t DEF Preparing, Replacing
  <2>3. /\ Announcing(detaching, stack, owed) => Announcing(detaching, t, owed)
        /\ Told(detaching, stack, owed) => Told(detaching, t, owed)
    BY <1>t, <2>2 DEF Announcing, Told
  <2>4. \A i \in 1 .. Len(stack) : FrameOwes(detaching, view, stack, owed, stack[i]) => FrameOwes(detaching, u, t, owed, t[i])
    BY <1>t, <1>u, <2>2, <2>3 DEF FrameOwes
  <2> QED BY <1>t, <1>u, <2>1, <2>3, <2>4 DEF WakesKnow
<1>k. Sound(attached, detaching, replacing, u, visual', t, owed)
  BY <1>1, <1>2, <1>3, <1>4, <1>5, <1>6, <1>7, <1>8 DEF Sound
<1> QED BY <1>a, <1>k, RequestKeeps

LEMMA SetClipboardPreferenceKeeps ==
  ASSUME EmbeddedInv, SetClipboardPreference
  PROVE  EmbeddedInv'
<1> DEFINE u == [view EXCEPT !.arranged = FALSE]
           t == Drifted(stack)
<1>h. adrift' = TRUE /\ UNCHANGED <<attached, detaching, replacing, visual, owed>> /\ view' = u /\ stack' = t /\ attached
  BY DEF SetClipboardPreference, host
<1>s. view \in View /\ stack \in Seq(Frame)
  BY DEF EmbeddedInv, Sound, Typed
<1>l. Len(stack) \in Nat /\ (stack = <<>> <=> Len(stack) = 0) /\ (t = <<>> <=> Len(t) = 0)
  BY <1>s, StackFacts, DriftedFacts
<1>t. /\ t \in Seq(Frame) /\ Len(t) = Len(stack)
      /\ \A i \in 1 .. Len(stack) :
           /\ t[i].op = stack[i].op /\ t[i].at = stack[i].at /\ t[i].same = stack[i].same
           /\ t[i].current = stack[i].current /\ t[i].tree = FALSE
  BY <1>s, DriftedFacts
<1>u. /\ u \in View /\ u.visible = view.visible /\ u.dirty = view.dirty /\ u.coherent = view.coherent
      /\ u.zeroSized = view.zeroSized /\ u.surface = view.surface
      /\ u.graphics = view.graphics /\ u.requested = view.requested /\ u.inputWake = view.inputWake
      /\ u.recoveryWake = view.recoveryWake /\ u.preparing = view.preparing
      /\ u.prepareCall = view.prepareCall
  BY <1>s DEF View
<1> HIDE DEF u, t
<1>1. Typed(attached, detaching, replacing, u, visual, t, owed)
  BY <1>h, <1>t, <1>u DEF EmbeddedInv, Sound, Typed
<1>2. FramesFit(t)
  BY <1>l, <1>t DEF EmbeddedInv, Sound, FramesFit, AtFits
<1>3. HostKnows(attached, detaching, replacing, t)
  <2>1. HostKnows(attached, detaching, replacing, stack)
    BY DEF EmbeddedInv, Sound
  <2> QED BY <1>l, <1>t, <2>1 DEF HostKnows, Replacing, Live
<1>4. FlagsKnow(detaching, u, t)
  <2>1. \A i \in 1 .. Len(stack) : Preparing(t[i]) <=> Preparing(stack[i])
    BY <1>t DEF Preparing
  <2> QED BY <1>l, <1>t, <1>u, <2>1 DEF EmbeddedInv, Sound, FlagsKnow
<1>5. FramesKnow(u, t)
  BY <1>l, <1>t, <1>u DEF EmbeddedInv, Sound, FramesKnow, FrameKnows, Live
<1>6. DrawnKnows(u, t)
  BY <1>l, <1>t, <1>u DEF EmbeddedInv, Sound, DrawnKnows, Live
<1>7. HiddenKnows(attached, detaching, u, t)
  BY <1>l, <1>t, <1>u DEF EmbeddedInv, Sound, HiddenKnows, Live
<1>8. WakesKnow(attached, detaching, u, t, owed)
  <2>1. WakesKnow(attached, detaching, view, stack, owed)
    BY DEF EmbeddedInv, Sound
  <2>2. \A i \in 1 .. Len(stack) : /\ Preparing(t[i]) <=> Preparing(stack[i])
                                   /\ Replacing(t[i]) <=> Replacing(stack[i])
    BY <1>t DEF Preparing, Replacing
  <2>3. /\ Announcing(detaching, stack, owed) => Announcing(detaching, t, owed)
        /\ Told(detaching, stack, owed) => Told(detaching, t, owed)
    BY <1>t, <2>2 DEF Announcing, Told
  <2>4. \A i \in 1 .. Len(stack) : FrameOwes(detaching, view, stack, owed, stack[i]) => FrameOwes(detaching, u, t, owed, t[i])
    BY <1>t, <1>u, <2>2, <2>3 DEF FrameOwes
  <2> QED BY <1>t, <1>u, <2>1, <2>3, <2>4 DEF WakesKnow
<1> QED BY <1>h, <1>1, <1>2, <1>3, <1>4, <1>5, <1>6, <1>7, <1>8 DEF EmbeddedInv, Sound, StaleKnown

-----------------------------------------------------------------------------
(* Taking the running frame off the stack.                                 *)

LEMMA TopFacts ==
  ASSUME EmbeddedInv, stack # <<>>
  PROVE  /\ stack \in Seq(Frame) /\ Len(stack) \in Nat \ {0}
         /\ \A i \in 1 .. Len(stack) : stack[i] \in Frame
         /\ Top = stack[Len(stack)] /\ Top \in Frame
         /\ Below \in Seq(Frame) /\ Len(Below) = Len(stack) - 1 /\ Len(Below) \in Nat
         /\ \A i \in 1 .. Len(Below) : Below[i] = stack[i] /\ Below[i] \in Frame
         /\ Below = <<>> <=> Len(Below) = 0
BY FrontFacts, StackFacts DEF EmbeddedInv, Sound, Typed, Top, Below

\* What held of the stack holds of the frames below, when the frame is not what it was about:
\* all of it, but for the flags of preparations and input entries.
LEMMA PopRest ==
  ASSUME EmbeddedInv, stack # <<>>, Top.at # "detach", ~(Live(Top) /\ Top.at = "release"),
         NEW r \in BOOLEAN, NEW w \in BOOLEAN,
         Replacing(Top) => ~r, ~Replacing(Top) => r = replacing,
         w \/ (~owed /\ ~Replacing(Top) /\ Top.op # "interact")
  PROVE  /\ ~detaching
         /\ Typed(attached, detaching, r, view, visual, Below, w)
         /\ FramesFit(Below) /\ HostKnows(attached, detaching, r, Below)
         /\ FramesKnow(view, Below) /\ DrawnKnows(view, Below)
         /\ HiddenKnows(attached, detaching, view, Below)
         /\ WakesKnow(attached, detaching, view, Below, w)
<1>l. /\ Len(stack) \in Nat \ {0} /\ Top = stack[Len(stack)] /\ Len(Below) = Len(stack) - 1
      /\ Below \in Seq(Frame) /\ \A i \in 1 .. Len(Below) : Below[i] = stack[i]
  BY TopFacts
<1>d. ~detaching
  BY <1>l DEF EmbeddedInv, Sound, HostKnows
<1>i. \A i \in 1 .. Len(stack) : i = Len(stack) \/ i \in 1 .. Len(Below)
  BY <1>l
<1>e. /\ (\E i \in 1 .. Len(stack) : Replacing(stack[i])) /\ ~Replacing(Top) =>
           \E i \in 1 .. Len(Below) : Replacing(Below[i])
      /\ (\E i \in 1 .. Len(stack) : stack[i].op = "interact") /\ Top.op # "interact" =>
           \E i \in 1 .. Len(Below) : Below[i].op = "interact"
  BY <1>l, <1>i
<1>1. Typed(attached, detaching, r, view, visual, Below, w)
  BY <1>l DEF EmbeddedInv, Sound, Typed
<1>2. FramesFit(Below)
  BY <1>l DEF EmbeddedInv, Sound, FramesFit
<1>3. HostKnows(attached, detaching, r, Below)
  <2>1. \A i \in 1 .. Len(Below) : Replacing(Below[i]) /\ Live(Below[i]) => r
    BY <1>l DEF EmbeddedInv, Sound, HostKnows, Replacing, Live
  <2>2. r => \E i \in 1 .. Len(Below) : Replacing(Below[i])
    BY <1>e DEF EmbeddedInv, Sound, HostKnows
  <2>3. \A i \in 1 .. Len(Below) : Below[i].at # "detach"
    BY <1>l, <1>d DEF EmbeddedInv, Sound, HostKnows
  <2>4. \A i, j \in 1 .. Len(Below) :
          i < j /\ Below[j].op \in {"attach", "detach", "replace", "hide"} => ~Below[i].current
    BY <1>l DEF EmbeddedInv, Sound, HostKnows
  <2>5. ~attached => \A i \in 1 .. Len(Below) : ~Below[i].same
    BY <1>l DEF EmbeddedInv, Sound, HostKnows
  <2> QED BY <2>1, <2>2, <2>3, <2>4, <2>5, <1>d DEF HostKnows
<1>5. FramesKnow(view, Below)
  BY <1>l DEF EmbeddedInv, Sound, FramesKnow
<1>6. DrawnKnows(view, Below)
  <2>1. DrawnKnows(view, stack)
    BY DEF EmbeddedInv, Sound
  <2> QED BY <2>1, <1>l DEF DrawnKnows
<1>7. HiddenKnows(attached, detaching, view, Below)
  BY <1>l DEF EmbeddedInv, Sound, HiddenKnows
<1>8. WakesKnow(attached, detaching, view, Below, w)
  <2>1. Announcing(detaching, stack, owed) => Announcing(detaching, Below, w)
    BY <1>e DEF Announcing, EmbeddedInv, Sound, Typed
  <2>2. Told(detaching, stack, owed) => Told(detaching, Below, w)
    BY <1>e, <2>1 DEF Told, Announcing
  <2>3. \A i \in 1 .. Len(Below) : FrameOwes(detaching, view, Below, w, Below[i])
    <3> TAKE i \in 1 .. Len(Below)
    <3>1. FrameOwes(detaching, view, stack, owed, stack[i])
      BY <1>l DEF EmbeddedInv, Sound, WakesKnow
    <3> QED BY <1>l, <2>1, <2>2, <3>1 DEF FrameOwes
  <2> QED BY <2>1, <2>3 DEF EmbeddedInv, Sound, WakesKnow
<1> QED BY <1>d, <1>1, <1>2, <1>3, <1>5, <1>6, <1>7, <1>8

LEMMA PopSound ==
  ASSUME EmbeddedInv, stack # <<>>, Top.at # "detach", ~Preparing(Top),
         Top.op # "input" \/ ~view.inputWake \/ InputActive(Below), ~(Live(Top) /\ Top.at = "release"),
         NEW r \in BOOLEAN, NEW w \in BOOLEAN,
         Replacing(Top) => ~r, ~Replacing(Top) => r = replacing,
         w \/ (~owed /\ ~Replacing(Top) /\ Top.op # "interact")
  PROVE  Sound(attached, detaching, r, view, visual, Below, w)
<1>l. /\ Len(stack) \in Nat \ {0} /\ Top = stack[Len(stack)] /\ Len(Below) = Len(stack) - 1
      /\ Below \in Seq(Frame) /\ \A i \in 1 .. Len(Below) : Below[i] = stack[i]
  BY TopFacts
<1>i. \A i \in 1 .. Len(stack) : i = Len(stack) \/ i \in 1 .. Len(Below)
  BY <1>l
<1>e. /\ (\E i \in 1 .. Len(stack) : Preparing(stack[i])) => \E i \in 1 .. Len(Below) : Preparing(Below[i])
      /\ (\E i \in 1 .. Len(stack) : stack[i].op = "input") /\ (Top.op # "input" \/ InputActive(Below)) =>
           \E i \in 1 .. Len(Below) : Below[i].op = "input"
  BY <1>l, <1>i, StackFacts DEF InputActive
<1>1. FlagsKnow(detaching, view, Below)
  BY <1>l, <1>e DEF EmbeddedInv, Sound, FlagsKnow
<1> QED BY <1>1, PopRest DEF Sound

\* The notification, SetVisible(false) and a refused PrepareInteraction return.
LEMMA WakeReturnsKeeps ==
  ASSUME EmbeddedInv, WakeReturns
  PROVE  EmbeddedInv'
<1>1. /\ stack # <<>> /\ Top.at = "wake" /\ stack' = Below
      /\ UNCHANGED <<attached, detaching, replacing, view, visual, owed, adrift>>
  BY DEF WakeReturns, Resumes, Return, host
<1>2. Top.op = "wake"
  BY <1>1, TopFacts DEF EmbeddedInv, Sound, FramesFit, AtFits
<1>3. Sound(attached, detaching, replacing, view, visual, Below, owed)
  BY <1>1, <1>2, PopSound DEF EmbeddedInv, Sound, Typed, Preparing, Replacing
<1>4. StaleKnown(attached, detaching, view, visual, Below, owed, adrift)
  <2>1. (\E i \in 1 .. Len(stack) : Replacing(stack[i])) => \E i \in 1 .. Len(Below) : Replacing(Below[i])
    BY <1>2, TopFacts, <1>1 DEF Replacing
  <2>2. (\E i \in 1 .. Len(stack) : stack[i].op = "interact") => \E i \in 1 .. Len(Below) : Below[i].op = "interact"
    BY <1>2, TopFacts, <1>1
  <2> QED BY <2>1, <2>2 DEF EmbeddedInv, StaleKnown, Told, Announcing
<1> QED BY <1>1, <1>3, <1>4 DEF EmbeddedInv

LEMMA HideReturnsKeeps ==
  ASSUME EmbeddedInv, stack # <<>>, Top.op = "hide", Top.at = "released" \/ ~IsCurrent(Top),
         Return, UNCHANGED <<host, view, visual, owed, adrift>>
  PROVE  EmbeddedInv'
<1>1. stack' = Below /\ UNCHANGED <<attached, detaching, replacing, view, visual, owed, adrift>>
  BY DEF Return, host
<1>2. Top.at # "detach"
  BY TopFacts DEF EmbeddedInv, Sound, FramesFit, AtFits
<1>3. ~(Live(Top) /\ Top.at = "release")
  BY TopFacts DEF EmbeddedInv, Sound, HostKnows, IsCurrent, Live, FramesFit, AtFits
<1>4. Sound(attached, detaching, replacing, view, visual, Below, owed)
  BY <1>1, <1>2, <1>3, PopSound DEF EmbeddedInv, Sound, Typed, Preparing, Replacing
<1>5. StaleKnown(attached, detaching, view, visual, Below, owed, adrift)
  <2>1. (\E i \in 1 .. Len(stack) : Replacing(stack[i])) => \E i \in 1 .. Len(Below) : Replacing(Below[i])
    BY TopFacts DEF Replacing
  <2>2. (\E i \in 1 .. Len(stack) : stack[i].op = "interact") => \E i \in 1 .. Len(Below) : Below[i].op = "interact"
    BY TopFacts
  <2> QED BY <2>1, <2>2 DEF EmbeddedInv, StaleKnown, Told, Announcing
<1> QED BY <1>1, <1>4, <1>5 DEF EmbeddedInv

LEMMA InteractionRefusedKeeps ==
  ASSUME EmbeddedInv, InteractionRefused
  PROVE  EmbeddedInv'
<1>1. /\ stack # <<>> /\ Top.at = "invalid" /\ Top.op = "interact" /\ stack' = Below /\ owed' = TRUE
      /\ UNCHANGED <<attached, detaching, replacing, view, visual>>
  BY DEF InteractionRefused, Resumes, Return, host
<1>2. Sound(attached, detaching, replacing, view, visual, Below, TRUE)
  BY <1>1, PopSound DEF EmbeddedInv, Sound, Typed, Preparing, Replacing
<1> QED BY <1>1, <1>2 DEF EmbeddedInv, StaleKnown, Told, Announcing

-----------------------------------------------------------------------------
(* The lifecycle.                                                          *)

\* Detaching begins, by Detach or by an Attach that failed.
LEMMA DetachSound ==
  ASSUME NEW r, NEW w, NEW s, NEW op \in {"attach", "detach"}, attached,
         Sound(attached, FALSE, r, view, visual, s, w), s # <<>> => s[Len(s)].at \in CalloutStage
  PROVE  Sound(attached, TRUE, r, view, visual, Append(NewAttachment(s), NewFrame(op, "detach")), w)
<1> DEFINE t == Append(NewAttachment(s), NewFrame(op, "detach"))
<1>l. s \in Seq(Frame) /\ Len(s) \in Nat /\ (s = <<>> <=> Len(s) = 0)
  BY StackFacts DEF Sound, Typed
<1>f. /\ NewFrame(op, "detach") \in Frame /\ NewFrame(op, "detach").op = op
      /\ NewFrame(op, "detach").op = op /\ NewFrame(op, "detach").at = "detach"
      /\ NewFrame(op, "detach").same /\ NewFrame(op, "detach").current /\ NewFrame(op, "detach").clean
      /\ NewFrame(op, "detach").tree
  BY DEF NewFrame, Frame, Op, Stage, CalloutStage
<1>m. /\ NewAttachment(s) \in Seq(Frame) /\ Len(NewAttachment(s)) = Len(s)
      /\ \A i \in 1 .. Len(s) :
           /\ NewAttachment(s)[i].op = s[i].op /\ NewAttachment(s)[i].at = s[i].at
           /\ ~NewAttachment(s)[i].same /\ ~NewAttachment(s)[i].current
           /\ NewAttachment(s)[i].clean = s[i].clean /\ NewAttachment(s)[i].tree = s[i].tree
  BY <1>l, NewAttachmentFacts
<1>t. /\ t \in Seq(Frame) /\ Len(t) = Len(s) + 1 /\ t # <<>> /\ t[Len(s) + 1].op = op
      /\ t[Len(s) + 1].op = op /\ t[Len(s) + 1].at = "detach" /\ t[Len(s) + 1].same /\ t[Len(s) + 1].current
      /\ t[Len(s) + 1].clean /\ t[Len(s) + 1].tree
      /\ \A i \in 1 .. Len(s) :
           /\ t[i].op = s[i].op /\ t[i].at = s[i].at /\ ~t[i].same /\ ~t[i].current
           /\ t[i].clean = s[i].clean /\ t[i].tree = s[i].tree
  <2>1. /\ t \in Seq(Frame) /\ Len(t) = Len(NewAttachment(s)) + 1 /\ t # <<>>
        /\ t[Len(NewAttachment(s)) + 1] = NewFrame(op, "detach")
        /\ \A i \in 1 .. Len(NewAttachment(s)) : t[i] = NewAttachment(s)[i]
    BY <1>f, <1>m, PushFacts
  <2> QED BY <2>1, <1>f, <1>m
<1> HIDE DEF t
<1>1. Typed(attached, TRUE, r, view, visual, t, w)
  BY <1>l, <1>t DEF Sound, Typed, NewView
<1>2. FramesFit(t)
  BY <1>l, <1>t DEF Sound, FramesFit, AtFits, CalloutStage
<1>3. HostKnows(attached, TRUE, r, t)
  BY <1>l, <1>t DEF Sound, HostKnows, Replacing, Live
<1>4. FlagsKnow(TRUE, view, t)
  BY <1>l, <1>t DEF Sound, FlagsKnow, Preparing
<1>5. FramesKnow(view, t)
  BY <1>l, <1>t DEF Sound, FramesKnow, FrameKnows, Live
<1>6. DrawnKnows(view, t)
  BY <1>l, <1>t DEF Sound, DrawnKnows, Live
<1>7. HiddenKnows(attached, TRUE, view, t)
  BY <1>l, <1>t DEF Sound, HiddenKnows, Live
<1>8. WakesKnow(attached, TRUE, view, t, w)
  BY <1>l, <1>t DEF Sound, WakesKnow, FrameOwes, Announcing, Told, Preparing, Replacing
<1> QED BY <1>1, <1>2, <1>3, <1>4, <1>5, <1>6, <1>7, <1>8 DEF Sound, t

LEMMA DetachKeeps ==
  ASSUME EmbeddedInv, Detach
  PROVE  EmbeddedInv'
<1>1. /\ attached /\ detaching' = TRUE /\ UNCHANGED <<attached, replacing, view, visual, owed>>
      /\ stack' = Append(NewAttachment(stack), NewFrame("detach", "detach"))
  BY DEF Detach
<1>2. stack # <<>> => stack[Len(stack)].at \in CalloutStage
  BY TopFacts DEF Detach, MayCall
<1>3. Sound(attached, FALSE, replacing, view, visual, stack, owed)
  BY DEF EmbeddedInv, Detach, Sound, Typed
<1>4. Sound(attached, TRUE, replacing, view, visual, Append(NewAttachment(stack), NewFrame("detach", "detach")), owed)
  BY <1>1, <1>2, <1>3, DetachSound
<1> QED BY <1>1, <1>4 DEF EmbeddedInv, StaleKnown, Told, Announcing

\* ReplaceDevice begins.
LEMMA ReplaceDeviceKeeps ==
  ASSUME EmbeddedInv, ReplaceDevice
  PROVE  EmbeddedInv'
<1>l. /\ view \in View /\ stack \in Seq(Frame) /\ Len(stack) \in Nat
      /\ \A i \in 1 .. Len(stack) : stack[i] \in Frame
      /\ stack = <<>> <=> Len(stack) = 0
  BY StackFacts DEF EmbeddedInv, Sound, Typed
<1>g. /\ attached /\ ~detaching /\ ~replacing /\ (stack # <<>> => stack[Len(stack)].at \in CalloutStage)
  BY <1>l DEF ReplaceDevice, MayCall, Top, Last
<1>h. /\ replacing' = TRUE /\ attached' = attached /\ detaching' = detaching /\ visual' = visual
      /\ owed' = owed /\ adrift' = adrift
  BY <1>l DEF ReplaceDevice, MayCall, Top, Last
<1>p. stack' = Append(NewOperation(stack), NewFrame("replace", "release"))
  BY <1>l DEF ReplaceDevice, MayCall, Top, Last
<1>v. view' = view
  BY <1>l DEF ReplaceDevice, MayCall, Top, Last
<1>f. NewFrame("replace", "release") \in Frame
  BY DEF NewFrame, Frame, Op, Stage, CalloutStage
<1>m. /\ NewOperation(stack) \in Seq(Frame) /\ Len(NewOperation(stack)) = Len(stack)
      /\ \A i \in 1 .. Len(stack) :
           /\ NewOperation(stack)[i].op = stack[i].op /\ NewOperation(stack)[i].at = stack[i].at
           /\ NewOperation(stack)[i].same = stack[i].same
           /\ ~NewOperation(stack)[i].current /\ NewOperation(stack)[i].clean = stack[i].clean
           /\ NewOperation(stack)[i].tree = stack[i].tree
  BY <1>l, NewOperationFacts
<1>t. /\ stack' \in Seq(Frame) /\ Len(stack') = Len(stack) + 1 /\ stack' # <<>>
      /\ stack'[Len(stack) + 1].op = "replace" /\ stack'[Len(stack) + 1].at = "release"
      /\ stack'[Len(stack) + 1].same /\ stack'[Len(stack) + 1].current /\ stack'[Len(stack) + 1].clean
      /\ stack'[Len(stack) + 1].tree
      /\ \A i \in 1 .. Len(stack) :
           /\ stack'[i].op = stack[i].op /\ stack'[i].at = stack[i].at /\ stack'[i].same = stack[i].same
           /\ ~stack'[i].current /\ stack'[i].clean = stack[i].clean /\ stack'[i].tree = stack[i].tree
  <2>1. /\ stack' \in Seq(Frame) /\ Len(stack') = Len(NewOperation(stack)) + 1 /\ stack' # <<>>
        /\ stack'[Len(NewOperation(stack)) + 1] = NewFrame("replace", "release")
        /\ \A i \in 1 .. Len(NewOperation(stack)) : stack'[i] = NewOperation(stack)[i]
    BY <1>f, <1>p, <1>m, PushFacts
  <2>2. /\ NewFrame("replace", "release").op = "replace" /\ NewFrame("replace", "release").at = "release"
        /\ NewFrame("replace", "release").same /\ NewFrame("replace", "release").current
        /\ NewFrame("replace", "release").clean /\ NewFrame("replace", "release").tree
    BY DEF NewFrame, Frame, Op, Stage, CalloutStage
  <2> QED BY <2>1, <2>2, <1>m
<1>u. view' = view
  BY <1>v
<1>1. Typed(attached', detaching', replacing', view', visual', stack', owed')
  BY <1>l, <1>g, <1>h, <1>t, <1>u DEF EmbeddedInv, Sound, Typed, NewView
<1>2. FramesFit(stack')
  BY <1>l, <1>g, <1>t DEF EmbeddedInv, Sound, FramesFit, AtFits, CalloutStage
<1>3. HostKnows(attached', detaching', replacing', stack')
  BY <1>l, <1>g, <1>h, <1>t DEF EmbeddedInv, Sound, HostKnows, Replacing, Live
<1>4. FlagsKnow(detaching', view', stack')
  BY SMTT(20), <1>l, <1>g, <1>h, <1>t, <1>u DEF EmbeddedInv, Sound, FlagsKnow, Preparing
<1>5. FramesKnow(view', stack')
  BY <1>l, <1>g, <1>t, <1>u DEF EmbeddedInv, Sound, FramesKnow, FrameKnows, Live
<1>6. DrawnKnows(view', stack')
  BY <1>l, <1>g, <1>t, <1>u DEF EmbeddedInv, Sound, DrawnKnows, Live
<1>7. HiddenKnows(attached', detaching', view', stack')
  BY <1>l, <1>g, <1>h, <1>t, <1>u DEF EmbeddedInv, Sound, HiddenKnows, Live
<1>8. WakesKnow(attached', detaching', view', stack', owed')
  BY <1>l, <1>g, <1>h, <1>t, <1>u DEF EmbeddedInv, Sound, WakesKnow, FrameOwes, Announcing, Told, Preparing, Replacing
<1>9. StaleKnown(attached', detaching', view', visual', stack', owed', adrift')
  BY <1>l, <1>g, <1>h, <1>t, <1>u DEF EmbeddedInv, Sound, StaleKnown, Stale, Announcing, Told, Replacing
<1> QED BY <1>1, <1>2, <1>3, <1>4, <1>5, <1>6, <1>7, <1>8, <1>9 DEF EmbeddedInv, Sound

\* SetVisible(false) begins.
LEMMA HideKeeps ==
  ASSUME EmbeddedInv, Hide
  PROVE  EmbeddedInv'
<1>l. /\ view \in View /\ stack \in Seq(Frame) /\ Len(stack) \in Nat
      /\ \A i \in 1 .. Len(stack) : stack[i] \in Frame
      /\ stack = <<>> <=> Len(stack) = 0
  BY StackFacts DEF EmbeddedInv, Sound, Typed
<1>v. view' = [view EXCEPT !.visible = FALSE, !.recoveryWake = FALSE]
  BY DEF Hide
<1>g. /\ attached /\ ~detaching /\ view.visible /\ (stack # <<>> => stack[Len(stack)].at \in CalloutStage)
  BY <1>l DEF Hide, MayCall, Top, Last, host
<1>h. /\ attached' = attached /\ detaching' = detaching /\ replacing' = replacing /\ visual' = visual
      /\ owed' = owed /\ adrift' = adrift
  BY <1>l DEF Hide, MayCall, Top, Last, host
<1>p. stack' = Append(NewOperation(stack), NewFrame("hide", "release"))
  BY <1>l DEF Hide, MayCall, Top, Last, host
<1>f. NewFrame("hide", "release") \in Frame
  BY DEF NewFrame, Frame, Op, Stage, CalloutStage
<1>m. /\ NewOperation(stack) \in Seq(Frame) /\ Len(NewOperation(stack)) = Len(stack)
      /\ \A i \in 1 .. Len(stack) :
           /\ NewOperation(stack)[i].op = stack[i].op /\ NewOperation(stack)[i].at = stack[i].at
           /\ NewOperation(stack)[i].same = stack[i].same
           /\ ~NewOperation(stack)[i].current /\ NewOperation(stack)[i].clean = stack[i].clean
           /\ NewOperation(stack)[i].tree = stack[i].tree
  BY <1>l, NewOperationFacts
<1>t. /\ stack' \in Seq(Frame) /\ Len(stack') = Len(stack) + 1 /\ stack' # <<>>
      /\ stack'[Len(stack) + 1].op = "hide" /\ stack'[Len(stack) + 1].at = "release"
      /\ stack'[Len(stack) + 1].same /\ stack'[Len(stack) + 1].current /\ stack'[Len(stack) + 1].clean
      /\ stack'[Len(stack) + 1].tree
      /\ \A i \in 1 .. Len(stack) :
           /\ stack'[i].op = stack[i].op /\ stack'[i].at = stack[i].at /\ stack'[i].same = stack[i].same
           /\ ~stack'[i].current /\ stack'[i].clean = stack[i].clean /\ stack'[i].tree = stack[i].tree
  <2>1. /\ stack' \in Seq(Frame) /\ Len(stack') = Len(NewOperation(stack)) + 1 /\ stack' # <<>>
        /\ stack'[Len(NewOperation(stack)) + 1] = NewFrame("hide", "release")
        /\ \A i \in 1 .. Len(NewOperation(stack)) : stack'[i] = NewOperation(stack)[i]
    BY <1>f, <1>p, <1>m, PushFacts
  <2>2. /\ NewFrame("hide", "release").op = "hide" /\ NewFrame("hide", "release").at = "release"
        /\ NewFrame("hide", "release").same /\ NewFrame("hide", "release").current
        /\ NewFrame("hide", "release").clean /\ NewFrame("hide", "release").tree
    BY DEF NewFrame, Frame, Op, Stage, CalloutStage
  <2> QED BY <2>1, <2>2, <1>m
<1>u. /\ view' \in View /\ ~view'.visible /\ view'.dirty = view.dirty /\ view'.coherent = view.coherent
      /\ view'.arranged = view.arranged /\ view'.zeroSized = view.zeroSized /\ view'.surface = view.surface
      /\ view'.graphics = view.graphics /\ view'.requested = view.requested
      /\ view'.inputWake = view.inputWake /\ ~view'.recoveryWake /\ view'.preparing = view.preparing
      /\ view'.prepareCall = view.prepareCall
  BY <1>l, <1>v DEF View
<1>1. Typed(attached', detaching', replacing', view', visual', stack', owed')
  BY <1>l, <1>g, <1>h, <1>t, <1>u DEF EmbeddedInv, Sound, Typed, NewView
<1>2. FramesFit(stack')
  <2>1. FramesFit(stack) /\ AtFits(stack'[Len(stack) + 1])
    BY <1>t DEF EmbeddedInv, Sound, AtFits
  <2> QED BY <1>l, <1>g, <1>t, <2>1, FitsPushed
<1>3. HostKnows(attached', detaching', replacing', stack')
  BY <1>l, <1>g, <1>h, <1>t DEF EmbeddedInv, Sound, HostKnows, Replacing, Live
<1>4. FlagsKnow(detaching', view', stack')
  <2>1. \A i \in 1 .. Len(stack) : Preparing(stack'[i]) <=> Preparing(stack[i])
    BY <1>t DEF Preparing
  <2>2. ~Preparing(stack'[Len(stack) + 1])
    BY <1>t DEF Preparing
  <2> QED BY <1>l, <1>h, <1>t, <1>u, <2>1, <2>2, SMTT(30) DEF EmbeddedInv, Sound, FlagsKnow
<1>5. FramesKnow(view', stack')
  BY <1>l, <1>g, <1>t, <1>u DEF EmbeddedInv, Sound, FramesKnow, FrameKnows, Live
<1>6. DrawnKnows(view', stack')
  BY <1>l, <1>g, <1>t, <1>u DEF EmbeddedInv, Sound, DrawnKnows, Live
<1>7. HiddenKnows(attached', detaching', view', stack')
  BY <1>l, <1>g, <1>h, <1>t, <1>u DEF EmbeddedInv, Sound, HiddenKnows, Live
<1>8. WakesKnow(attached', detaching', view', stack', owed')
  BY <1>l, <1>g, <1>h, <1>t, <1>u DEF EmbeddedInv, Sound, WakesKnow, FrameOwes, Announcing, Told, Preparing, Replacing
<1>9. StaleKnown(attached', detaching', view', visual', stack', owed', adrift')
  BY <1>l, <1>g, <1>h, <1>t, <1>u DEF EmbeddedInv, Sound, StaleKnown, Stale, Announcing, Told, Replacing
<1> QED BY <1>1, <1>2, <1>3, <1>4, <1>5, <1>6, <1>7, <1>8, <1>9 DEF EmbeddedInv, Sound

\* Attach begins.
LEMMA AttachNewKeeps ==
  ASSUME EmbeddedInv, Attach, ~replacing
  PROVE  EmbeddedInv'
<1>l. /\ view \in View /\ stack \in Seq(Frame) /\ Len(stack) \in Nat
      /\ \A i \in 1 .. Len(stack) : stack[i] \in Frame
      /\ stack = <<>> <=> Len(stack) = 0
  BY StackFacts DEF EmbeddedInv, Sound, Typed
<1>g. /\ ~attached /\ ~detaching /\ ~replacing /\ (stack # <<>> => stack[Len(stack)].at \in CalloutStage)
  BY <1>l DEF EmbeddedInv, Sound, Attach, MayCall, Top, Last, Typed
<1>h. /\ attached' = TRUE /\ detaching' = FALSE /\ replacing' = TRUE /\ visual' = visual /\ owed' = owed
  BY <1>l DEF EmbeddedInv, Sound, Attach, MayCall, Top, Last, Typed
<1>p. stack' = Append(NewAttachment(stack), NewFrame("attach", "release"))
  BY <1>l DEF EmbeddedInv, Sound, Attach, MayCall, Top, Last, Typed
<1>v. view' = NewView
  BY <1>l DEF EmbeddedInv, Sound, Attach, MayCall, Top, Last, Typed
<1>f. NewFrame("attach", "release") \in Frame
  BY DEF NewFrame, Frame, Op, Stage, CalloutStage
<1>m. /\ NewAttachment(stack) \in Seq(Frame) /\ Len(NewAttachment(stack)) = Len(stack)
      /\ \A i \in 1 .. Len(stack) :
           /\ NewAttachment(stack)[i].op = stack[i].op /\ NewAttachment(stack)[i].at = stack[i].at
           /\ ~NewAttachment(stack)[i].same
           /\ ~NewAttachment(stack)[i].current /\ NewAttachment(stack)[i].clean = stack[i].clean
           /\ NewAttachment(stack)[i].tree = stack[i].tree
  BY <1>l, NewAttachmentFacts
<1>t. /\ stack' \in Seq(Frame) /\ Len(stack') = Len(stack) + 1 /\ stack' # <<>>
      /\ stack'[Len(stack) + 1].op = "attach" /\ stack'[Len(stack) + 1].at = "release"
      /\ stack'[Len(stack) + 1].same /\ stack'[Len(stack) + 1].current /\ stack'[Len(stack) + 1].clean
      /\ stack'[Len(stack) + 1].tree
      /\ \A i \in 1 .. Len(stack) :
           /\ stack'[i].op = stack[i].op /\ stack'[i].at = stack[i].at /\ ~stack'[i].same
           /\ ~stack'[i].current /\ stack'[i].clean = stack[i].clean /\ stack'[i].tree = stack[i].tree
  <2>1. /\ stack' \in Seq(Frame) /\ Len(stack') = Len(NewAttachment(stack)) + 1 /\ stack' # <<>>
        /\ stack'[Len(NewAttachment(stack)) + 1] = NewFrame("attach", "release")
        /\ \A i \in 1 .. Len(NewAttachment(stack)) : stack'[i] = NewAttachment(stack)[i]
    BY <1>f, <1>p, <1>m, PushFacts
  <2>2. /\ NewFrame("attach", "release").op = "attach" /\ NewFrame("attach", "release").at = "release"
        /\ NewFrame("attach", "release").same /\ NewFrame("attach", "release").current
        /\ NewFrame("attach", "release").clean /\ NewFrame("attach", "release").tree
    BY DEF NewFrame, Frame, Op, Stage, CalloutStage
  <2> QED BY <2>1, <2>2, <1>m
<1>u. /\ view' \in View /\ view'.visible /\ view'.dirty /\ ~view'.coherent /\ ~view'.arranged
      /\ ~view'.zeroSized /\ ~view'.surface /\ ~view'.graphics /\ view'.requested /\ ~view'.inputWake
      /\ ~view'.recoveryWake /\ ~view'.preparing /\ ~view'.prepareCall
  BY <1>v DEF View, NewView
<1>1. Typed(attached', detaching', replacing', view', visual', stack', owed')
  BY <1>l, <1>g, <1>h, <1>t, <1>u DEF EmbeddedInv, Sound, Typed, NewView
<1>2. FramesFit(stack')
  BY SMTT(20), <1>l, <1>g, <1>t DEF EmbeddedInv, Sound, FramesFit, AtFits, CalloutStage
<1>3. HostKnows(attached', detaching', replacing', stack')
  BY <1>l, <1>g, <1>h, <1>t DEF EmbeddedInv, Sound, HostKnows, Replacing, Live
<1>4. FlagsKnow(detaching', view', stack')
  BY <1>l, <1>g, <1>h, <1>t, <1>u DEF EmbeddedInv, Sound, FlagsKnow, Preparing
<1>5. FramesKnow(view', stack')
  BY <1>l, <1>g, <1>t, <1>u DEF EmbeddedInv, Sound, FramesKnow, FrameKnows, Live
<1>6. DrawnKnows(view', stack')
  BY <1>l, <1>g, <1>t, <1>u DEF EmbeddedInv, Sound, DrawnKnows, Live
<1>7. HiddenKnows(attached', detaching', view', stack')
  BY <1>l, <1>g, <1>h, <1>t, <1>u DEF EmbeddedInv, Sound, HiddenKnows, Live
<1>8. WakesKnow(attached', detaching', view', stack', owed')
  BY <1>l, <1>g, <1>h, <1>t, <1>u DEF EmbeddedInv, Sound, WakesKnow, FrameOwes, Announcing, Told, Preparing, Replacing
<1>9. StaleKnown(attached', detaching', view', visual', stack', owed', adrift')
  BY <1>l, <1>g, <1>h, <1>t, <1>u DEF EmbeddedInv, Sound, StaleKnown, Stale, Announcing, Told, Replacing
<1> QED BY <1>1, <1>2, <1>3, <1>4, <1>5, <1>6, <1>7, <1>8, <1>9 DEF EmbeddedInv, Sound

\* Attach begins, in the callback of another replacement: it is refused and detaches.
LEMMA AttachDuringKeeps ==
  ASSUME EmbeddedInv, Attach, replacing
  PROVE  EmbeddedInv'
<1>l. /\ view \in View /\ stack \in Seq(Frame) /\ Len(stack) \in Nat
      /\ \A i \in 1 .. Len(stack) : stack[i] \in Frame
      /\ stack = <<>> <=> Len(stack) = 0
  BY StackFacts DEF EmbeddedInv, Sound, Typed
<1>g. /\ ~attached /\ ~detaching /\ replacing /\ (stack # <<>> => stack[Len(stack)].at \in CalloutStage)
  BY <1>l DEF EmbeddedInv, Sound, Attach, MayCall, Top, Last, Typed
<1>h. /\ attached' = TRUE /\ detaching' = TRUE /\ replacing' = TRUE /\ visual' = visual /\ owed' = owed
  BY <1>l DEF EmbeddedInv, Sound, Attach, MayCall, Top, Last, Typed
<1>p. stack' = Append(NewAttachment(stack), NewFrame("attach", "detach"))
  BY <1>l DEF EmbeddedInv, Sound, Attach, MayCall, Top, Last, Typed
<1>v. view' = NewView
  BY <1>l DEF EmbeddedInv, Sound, Attach, MayCall, Top, Last, Typed
<1>f. NewFrame("attach", "detach") \in Frame
  BY DEF NewFrame, Frame, Op, Stage, CalloutStage
<1>m. /\ NewAttachment(stack) \in Seq(Frame) /\ Len(NewAttachment(stack)) = Len(stack)
      /\ \A i \in 1 .. Len(stack) :
           /\ NewAttachment(stack)[i].op = stack[i].op /\ NewAttachment(stack)[i].at = stack[i].at
           /\ ~NewAttachment(stack)[i].same
           /\ ~NewAttachment(stack)[i].current /\ NewAttachment(stack)[i].clean = stack[i].clean
           /\ NewAttachment(stack)[i].tree = stack[i].tree
  BY <1>l, NewAttachmentFacts
<1>t. /\ stack' \in Seq(Frame) /\ Len(stack') = Len(stack) + 1 /\ stack' # <<>>
      /\ stack'[Len(stack) + 1].op = "attach" /\ stack'[Len(stack) + 1].at = "detach"
      /\ stack'[Len(stack) + 1].same /\ stack'[Len(stack) + 1].current /\ stack'[Len(stack) + 1].clean
      /\ stack'[Len(stack) + 1].tree
      /\ \A i \in 1 .. Len(stack) :
           /\ stack'[i].op = stack[i].op /\ stack'[i].at = stack[i].at /\ ~stack'[i].same
           /\ ~stack'[i].current /\ stack'[i].clean = stack[i].clean /\ stack'[i].tree = stack[i].tree
  <2>1. /\ stack' \in Seq(Frame) /\ Len(stack') = Len(NewAttachment(stack)) + 1 /\ stack' # <<>>
        /\ stack'[Len(NewAttachment(stack)) + 1] = NewFrame("attach", "detach")
        /\ \A i \in 1 .. Len(NewAttachment(stack)) : stack'[i] = NewAttachment(stack)[i]
    BY <1>f, <1>p, <1>m, PushFacts
  <2>2. /\ NewFrame("attach", "detach").op = "attach" /\ NewFrame("attach", "detach").at = "detach"
        /\ NewFrame("attach", "detach").same /\ NewFrame("attach", "detach").current
        /\ NewFrame("attach", "detach").clean /\ NewFrame("attach", "detach").tree
    BY DEF NewFrame, Frame, Op, Stage, CalloutStage
  <2> QED BY <2>1, <2>2, <1>m
<1>u. /\ view' \in View /\ view'.visible /\ view'.dirty /\ ~view'.coherent /\ ~view'.arranged
      /\ ~view'.zeroSized /\ ~view'.surface /\ ~view'.graphics /\ view'.requested /\ ~view'.inputWake
      /\ ~view'.recoveryWake /\ ~view'.preparing /\ ~view'.prepareCall
  BY <1>v DEF View, NewView
<1>1. Typed(attached', detaching', replacing', view', visual', stack', owed')
  BY <1>l, <1>g, <1>h, <1>t, <1>u DEF EmbeddedInv, Sound, Typed, NewView
<1>2. FramesFit(stack')
  BY SMTT(20), <1>l, <1>g, <1>t DEF EmbeddedInv, Sound, FramesFit, AtFits, CalloutStage
<1>3. HostKnows(attached', detaching', replacing', stack')
  BY SMTT(20), <1>l, <1>g, <1>h, <1>t DEF EmbeddedInv, Sound, HostKnows, Replacing, Live
<1>4. FlagsKnow(detaching', view', stack')
  BY <1>l, <1>g, <1>h, <1>t, <1>u DEF EmbeddedInv, Sound, FlagsKnow, Preparing
<1>5. FramesKnow(view', stack')
  BY <1>l, <1>g, <1>t, <1>u DEF EmbeddedInv, Sound, FramesKnow, FrameKnows, Live
<1>6. DrawnKnows(view', stack')
  BY <1>l, <1>g, <1>t, <1>u DEF EmbeddedInv, Sound, DrawnKnows, Live
<1>7. HiddenKnows(attached', detaching', view', stack')
  BY <1>l, <1>g, <1>h, <1>t, <1>u DEF EmbeddedInv, Sound, HiddenKnows, Live
<1>8. WakesKnow(attached', detaching', view', stack', owed')
  BY <1>l, <1>g, <1>h, <1>t, <1>u DEF EmbeddedInv, Sound, WakesKnow, FrameOwes, Announcing, Told, Preparing, Replacing
<1>9. StaleKnown(attached', detaching', view', visual', stack', owed', adrift')
  BY <1>l, <1>g, <1>h, <1>t, <1>u DEF EmbeddedInv, Sound, StaleKnown, Stale, Announcing, Told, Replacing
<1> QED BY <1>1, <1>2, <1>3, <1>4, <1>5, <1>6, <1>7, <1>8, <1>9 DEF EmbeddedInv, Sound

LEMMA AttachKeeps ==
  ASSUME EmbeddedInv, Attach
  PROVE  EmbeddedInv'
BY AttachNewKeeps, AttachDuringKeeps

\* Detach ends.
LEMMA DetachedKeeps ==
  ASSUME EmbeddedInv, Detached
  PROVE  EmbeddedInv'
<1>l. /\ view \in View /\ stack \in Seq(Frame) /\ Len(stack) \in Nat
      /\ \A i \in 1 .. Len(stack) : stack[i] \in Frame
      /\ stack = <<>> <=> Len(stack) = 0
  BY StackFacts DEF EmbeddedInv, Sound, Typed
<1>o. /\ stack # <<>> /\ Len(stack) \in Nat \ {0} /\ Top = stack[Len(stack)] /\ Top \in Frame
      /\ Below \in Seq(Frame) /\ Len(Below) = Len(stack) - 1
      /\ \A i \in 1 .. Len(stack) - 1 : Below[i] = stack[i]
  BY <1>l, FrontFacts DEF Top, Below, Resumes, Detached
<1>k. \A i \in 1 .. Len(stack) - 1 : ~stack[i].same
  BY <1>o DEF EmbeddedInv, Sound, HostKnows, Detached, Resumes
<1>e. (\E i \in 1 .. Len(stack) : Replacing(stack[i])) => \E i \in 1 .. Len(stack) - 1 : Replacing(stack[i])
  BY <1>o DEF Replacing, Detached, Resumes
<1>g. stack[Len(stack)].at = "detach"
  BY <1>o DEF Detached, Return, Resumes
<1>h. /\ attached' = FALSE /\ detaching' = FALSE /\ replacing' = replacing /\ visual' = visual
      /\ owed' = owed
  BY <1>o DEF Detached, Return, Resumes
<1>p. stack' = Below
  BY <1>o DEF Detached, Return, Resumes
<1>v. view' = NewView
  BY <1>o DEF Detached, Return, Resumes
<1>t. /\ stack' \in Seq(Frame) /\ Len(stack') = Len(stack) - 1 /\ (stack' = <<>> <=> Len(stack') = 0)
      /\ \A i \in 1 .. Len(stack) - 1 : stack'[i] = stack[i]
  BY <1>o, <1>p, StackFacts
<1>u. /\ view' \in View /\ view'.visible /\ view'.dirty /\ ~view'.coherent /\ ~view'.arranged
      /\ ~view'.zeroSized /\ ~view'.surface /\ ~view'.graphics /\ view'.requested /\ ~view'.inputWake
      /\ ~view'.recoveryWake /\ ~view'.preparing /\ ~view'.prepareCall
  BY <1>v DEF View, NewView
<1>1. Typed(attached', detaching', replacing', view', visual', stack', owed')
  BY <1>l, <1>o, <1>h, <1>t, <1>k, <1>u, <1>v DEF EmbeddedInv, Sound, Typed, NewView
<1>2. FramesFit(stack')
  <2>1. FramesFit(stack)
    BY DEF EmbeddedInv, Sound
  <2> QED BY <2>1, <1>o, <1>t DEF FramesFit
<1>3. HostKnows(attached', detaching', replacing', stack')
  BY SMTT(20), <1>l, <1>o, <1>h, <1>t, <1>k, <1>e, <1>g DEF EmbeddedInv, Sound, HostKnows, Replacing, Live
<1>4. FlagsKnow(detaching', view', stack')
  BY <1>l, <1>o, <1>h, <1>t, <1>k, <1>u DEF FlagsKnow, Preparing
<1>5. FramesKnow(view', stack')
  BY <1>l, <1>o, <1>t, <1>k, <1>u DEF FramesKnow, FrameKnows, Live
<1>6. DrawnKnows(view', stack')
  BY <1>l, <1>o, <1>t, <1>k, <1>u DEF EmbeddedInv, Sound, DrawnKnows, Live
<1>7. HiddenKnows(attached', detaching', view', stack')
  BY <1>l, <1>o, <1>h, <1>t, <1>k, <1>u DEF HiddenKnows, Live
<1>8. WakesKnow(attached', detaching', view', stack', owed')
  BY <1>l, <1>o, <1>h, <1>t, <1>k, <1>u DEF WakesKnow, FrameOwes, Announcing, Told, Preparing, Replacing
<1>9. StaleKnown(attached', detaching', view', visual', stack', owed', adrift')
  BY <1>l, <1>o, <1>h, <1>t, <1>k, <1>u DEF StaleKnown, Stale, Announcing, Told, Replacing
<1> QED BY <1>1, <1>2, <1>3, <1>4, <1>5, <1>6, <1>7, <1>8, <1>9 DEF EmbeddedInv, Sound

\* SetVisible(true).
LEMMA ShowKeeps ==
  ASSUME EmbeddedInv, Show
  PROVE  EmbeddedInv'
<1> DEFINE u == [view EXCEPT !.visible = TRUE, !.dirty = TRUE]
           t == NewOperation(stack)
<1>l. /\ view \in View /\ stack \in Seq(Frame) /\ Len(stack) \in Nat
      /\ \A i \in 1 .. Len(stack) : stack[i] \in Frame
      /\ stack = <<>> <=> Len(stack) = 0
  BY StackFacts DEF EmbeddedInv, Sound, Typed
<1>g. /\ attached /\ ~detaching /\ ~view.visible /\ (stack # <<>> => stack[Len(stack)].at \in CalloutStage)
  BY <1>l, TopFacts DEF Show, MayCall
<1>t. /\ t \in Seq(Frame) /\ Len(t) = Len(stack) /\ (t = <<>> <=> Len(t) = 0)
      /\ \A i \in 1 .. Len(stack) :
           /\ t[i].op = stack[i].op /\ t[i].at = stack[i].at /\ t[i].same = stack[i].same /\ ~t[i].current
           /\ t[i].clean = stack[i].clean /\ t[i].tree = stack[i].tree
  BY <1>l, NewOperationFacts, StackFacts
<1>u. /\ u \in View /\ u.visible /\ u.dirty /\ u.coherent = view.coherent /\ u.arranged = view.arranged
      /\ u.zeroSized = view.zeroSized /\ u.surface = view.surface /\ u.graphics = view.graphics
      /\ u.requested = view.requested /\ u.inputWake = view.inputWake /\ u.recoveryWake = view.recoveryWake
      /\ u.preparing = view.preparing /\ u.prepareCall = view.prepareCall
  BY <1>l DEF View
<1>h. UNCHANGED <<attached, detaching, replacing, visual>>
  BY DEF Show, host
<1>a. CASE ~view.prepareCall
  <2>1. Sound(attached, detaching, replacing, u, visual, t, owed)
    <3> HIDE DEF u, t
    <3>1. Typed(attached, detaching, replacing, u, visual, t, owed)
      BY <1>l, <1>g, <1>t, <1>u DEF EmbeddedInv, Sound, Typed, NewView
    <3>2. FramesFit(t)
      BY <1>l, <1>g, <1>t DEF EmbeddedInv, Sound, FramesFit, AtFits, CalloutStage
    <3>3. HostKnows(attached, detaching, replacing, t)
      BY <1>l, <1>g, <1>t DEF EmbeddedInv, Sound, HostKnows, Replacing, Live
    <3>4. FlagsKnow(detaching, u, t)
      <4>1. \A i \in 1 .. Len(stack) : Preparing(t[i]) <=> Preparing(stack[i])
        BY <1>t DEF Preparing
      <4> QED BY <1>l, <1>t, <1>u, <4>1 DEF EmbeddedInv, Sound, FlagsKnow
    <3>5. FramesKnow(u, t)
      BY <1>l, <1>g, <1>t, <1>u DEF EmbeddedInv, Sound, FramesKnow, FrameKnows, Live
    <3>6. DrawnKnows(u, t)
      BY <1>l, <1>g, <1>t, <1>u DEF EmbeddedInv, Sound, DrawnKnows, Live
    <3>7. HiddenKnows(attached, detaching, u, t)
      BY <1>l, <1>g, <1>t, <1>u DEF EmbeddedInv, Sound, HiddenKnows, Live
    <3>8. WakesKnow(attached, detaching, u, t, owed)
      <4>1. \A i \in 1 .. Len(stack) : Preparing(stack[i]) => FALSE
        BY <1>a DEF EmbeddedInv, Sound, FlagsKnow
      <4>2. ~view.prepareCall
        BY <1>a
      <4>3. \A i \in 1 .. Len(t) : ~Preparing(t[i])
        BY <1>t, <4>1 DEF Preparing
      <4> QED BY <1>l, <1>g, <1>t, <1>u, <4>3 DEF EmbeddedInv, Sound, WakesKnow, FrameOwes, Announcing, Replacing
    <3> QED BY <3>1, <3>2, <3>3, <3>4, <3>5, <3>6, <3>7, <3>8 DEF Sound
  <2>2. RequestPreparation(u, t)
    BY <1>a DEF Show
  <2> QED BY <1>g, <1>h, <2>1, <2>2, RequestKeeps DEF host
<1>b. CASE view.prepareCall
  <2> DEFINE q == [u EXCEPT !.recoveryWake = TRUE]
  <2>1. view' = q /\ stack' = t /\ owed' = owed
    BY <1>b DEF Show
  <2>q. /\ q \in View /\ q.visible /\ q.dirty /\ q.coherent = view.coherent /\ q.arranged = view.arranged
        /\ q.zeroSized = view.zeroSized /\ q.surface = view.surface /\ q.graphics = view.graphics
        /\ q.requested = view.requested /\ q.inputWake = view.inputWake /\ q.recoveryWake
        /\ q.preparing = view.preparing /\ q.prepareCall = view.prepareCall
    <3> HIDE DEF u
    <3> QED BY <1>u DEF View
  <2>n. \A i \in 1 .. Len(stack) : stack[i].at # "finish"
    BY <1>l, <1>g DEF EmbeddedInv, Sound, FramesFit, AtFits, CalloutStage
  <2>2. Sound(attached, detaching, replacing, q, visual, t, owed)
    <3> HIDE DEF u, t, q
    <3>1. Typed(attached, detaching, replacing, q, visual, t, owed)
      BY <1>l, <1>g, <1>t, <2>q DEF EmbeddedInv, Sound, Typed, NewView
    <3>2. FramesFit(t)
      BY <1>l, <1>g, <1>t, <2>q DEF EmbeddedInv, Sound, FramesFit, AtFits, CalloutStage
    <3>3. HostKnows(attached, detaching, replacing, t)
      <4>1. HostKnows(attached, detaching, replacing, stack)
        BY DEF EmbeddedInv, Sound
      <4> QED BY <1>l, <1>g, <1>t, <4>1 DEF HostKnows, Replacing, Live
    <3>4. FlagsKnow(detaching, q, t)
      <4>1. \A i \in 1 .. Len(stack) : Preparing(t[i]) <=> Preparing(stack[i])
        BY <1>t DEF Preparing
      <4> QED BY <2>n, <1>b, <1>g, <1>l, <1>t, <2>q, <4>1 DEF EmbeddedInv, Sound, FlagsKnow
    <3>5. FramesKnow(q, t)
      BY <1>l, <1>g, <1>t, <2>q DEF EmbeddedInv, Sound, FramesKnow, FrameKnows, Live
    <3>6. DrawnKnows(q, t)
      BY <1>l, <1>g, <1>t, <2>q DEF EmbeddedInv, Sound, DrawnKnows, Live
    <3>7. HiddenKnows(attached, detaching, q, t)
      BY <1>l, <1>g, <1>t, <2>q DEF EmbeddedInv, Sound, HiddenKnows, Live
    <3>8. WakesKnow(attached, detaching, q, t, owed)
      BY <1>l, <1>g, <1>t, <2>q DEF EmbeddedInv, Sound, WakesKnow, FrameOwes, Announcing, Told, Preparing, Replacing
    <3> QED BY <3>1, <3>2, <3>3, <3>4, <3>5, <3>6, <3>7, <3>8 DEF Sound
  <2>3. view.preparing
    BY <1>b, <1>g, <2>n DEF EmbeddedInv, Sound, FlagsKnow
  <2> QED BY <1>h, <2>1, <2>2, <2>3, <2>q DEF EmbeddedInv, StaleKnown
<1> QED BY <1>a, <1>b

\* Attach or ReplaceDevice does not come through.
LEMMA ReplacementFailsKeeps ==
  ASSUME EmbeddedInv, stack # <<>>, Top.op \in {"attach", "replace"}, Top.at \in {"release", "released", "discard"},
         Top.at = "release" => ~IsCurrent(Top), ReplacementFails
  PROVE  EmbeddedInv'
<1>h. replacing' = FALSE /\ owed' = TRUE /\ UNCHANGED <<attached, view, visual>>
  BY DEF ReplacementFails
<1>d. ~detaching
  BY TopFacts DEF EmbeddedInv, Sound, HostKnows
<1>1. Sound(attached, detaching, FALSE, view, visual, Below, TRUE)
  BY <1>d, PopSound DEF EmbeddedInv, Sound, Typed, Preparing, Replacing, IsCurrent, Live
<1>2. CASE Top.op = "attach" /\ attached
  <2>1. detaching' = TRUE /\ stack' = Append(NewAttachment(Below), NewFrame("attach", "detach"))
    BY <1>2, <1>d DEF ReplacementFails
  <2>2. Below # <<>> => Below[Len(Below)].at \in CalloutStage
    BY TopFacts DEF EmbeddedInv, Sound, FramesFit
  <2>3. Sound(attached, FALSE, FALSE, view, visual, Below, TRUE)
    BY <1>1, <1>d DEF Sound, Typed
  <2>4. Sound(attached, TRUE, FALSE, view, visual, Append(NewAttachment(Below), NewFrame("attach", "detach")), TRUE)
    BY <1>2, <2>2, <2>3, DetachSound
  <2> QED BY <1>h, <2>1, <2>4 DEF EmbeddedInv, StaleKnown, Told, Announcing
<1>3. CASE ~(Top.op = "attach" /\ attached)
  <2>1. stack' = Below /\ detaching' = detaching
    BY <1>3 DEF ReplacementFails, Return
  <2> QED BY <1>h, <1>1, <2>1 DEF EmbeddedInv, StaleKnown, Told, Announcing
<1> QED BY <1>2, <1>3

LEMMA DeviceFailsKeeps ==
  ASSUME EmbeddedInv, DeviceFails
  PROVE  EmbeddedInv'
BY ReplacementFailsKeeps, TopFacts DEF EmbeddedInv, Sound, FramesFit, AtFits, DeviceFails, Resumes

\* The device is discarded.
LEMMA DiscardDeviceKeeps ==
  ASSUME EmbeddedInv, DiscardDevice
  PROVE  EmbeddedInv'
<1>l. /\ view \in View /\ stack \in Seq(Frame) /\ Len(stack) \in Nat
      /\ \A i \in 1 .. Len(stack) : stack[i] \in Frame
      /\ stack = <<>> <=> Len(stack) = 0
  BY StackFacts DEF EmbeddedInv, Sound, Typed
<1>o. /\ stack # <<>> /\ Len(stack) \in Nat \ {0} /\ Top = stack[Len(stack)] /\ Top \in Frame
      /\ Below \in Seq(Frame) /\ Len(Below) = Len(stack) - 1
      /\ \A i \in 1 .. Len(stack) - 1 : Below[i] = stack[i]
  BY <1>l, FrontFacts DEF Top, Below, Resumes, DiscardDevice
<1>g. /\ stack[Len(stack)].at = "released" /\ stack[Len(stack)].op \in {"attach", "replace"}
      /\ stack[Len(stack)].same /\ stack[Len(stack)].current /\ ~detaching
  BY <1>o DEF DiscardDevice, Continue, Resumes, IsCurrent, host
<1>h. /\ attached' = attached /\ detaching' = detaching /\ replacing' = replacing /\ visual' = visual
      /\ owed' = owed /\ adrift' = adrift
  BY <1>o DEF DiscardDevice, Continue, Resumes, IsCurrent, host
<1>p. stack' = Append(Below, [Top EXCEPT !.at = "discard"])
  BY <1>o DEF DiscardDevice, Continue, Resumes, IsCurrent, host
<1>v. view' = [view EXCEPT !.graphics = FALSE]
  BY <1>o DEF DiscardDevice, Continue, Resumes, IsCurrent, host
<1>t. /\ stack' \in Seq(Frame) /\ Len(stack') = Len(stack) /\ stack' # <<>>
      /\ stack'[Len(stack)].op = stack[Len(stack)].op /\ stack'[Len(stack)].at = "discard"
      /\ stack'[Len(stack)].same = stack[Len(stack)].same
      /\ stack'[Len(stack)].current = stack[Len(stack)].current
      /\ stack'[Len(stack)].clean = stack[Len(stack)].clean
      /\ stack'[Len(stack)].tree = stack[Len(stack)].tree
      /\ \A i \in 1 .. Len(stack) - 1 : stack'[i] = stack[i]
  <2>1. [Top EXCEPT !.at = "discard"] \in Frame
    BY <1>o DEF NewFrame, Frame, Op, Stage, CalloutStage
  <2>2. /\ [Top EXCEPT !.at = "discard"].op = Top.op /\ [Top EXCEPT !.at = "discard"].at = "discard"
        /\ [Top EXCEPT !.at = "discard"].same = Top.same
        /\ [Top EXCEPT !.at = "discard"].current = Top.current
        /\ [Top EXCEPT !.at = "discard"].clean = Top.clean /\ [Top EXCEPT !.at = "discard"].tree = Top.tree
    BY <1>o DEF NewFrame, Frame, Op, Stage, CalloutStage
  <2> QED BY <2>1, <2>2, <1>o, <1>p, PushFacts
<1>i. \A i \in 1 .. Len(stack) : i = Len(stack) \/ i \in 1 .. Len(stack) - 1
  BY <1>o
<1>e. /\ (\E i \in 1 .. Len(stack) : Preparing(stack[i])) => \E i \in 1 .. Len(stack) : Preparing(stack'[i])
      /\ (\E i \in 1 .. Len(stack) : Replacing(stack[i])) => \E i \in 1 .. Len(stack) : Replacing(stack'[i])
      /\ (\E i \in 1 .. Len(stack) : stack[i].op = "input") => \E i \in 1 .. Len(stack) : stack'[i].op = "input"
      /\ (\E i \in 1 .. Len(stack) : stack[i].op = "interact") => \E i \in 1 .. Len(stack) : stack'[i].op = "interact"
  BY <1>o, <1>t, <1>i, <1>g DEF Preparing, Replacing
<1>u. /\ view' \in View /\ view'.visible = view.visible /\ view'.dirty = view.dirty
      /\ view'.coherent = view.coherent /\ view'.arranged = view.arranged
      /\ view'.zeroSized = view.zeroSized /\ view'.surface = view.surface /\ ~view'.graphics
      /\ view'.requested = view.requested /\ view'.inputWake = view.inputWake
      /\ view'.recoveryWake = view.recoveryWake /\ view'.preparing = view.preparing
      /\ view'.prepareCall = view.prepareCall
  BY <1>l, <1>v DEF View
<1>a. attached
  BY <1>g, <1>o DEF EmbeddedInv, Sound, HostKnows
<1>k. \A i \in 1 .. Len(stack) - 1 : ~stack[i].current
  BY <1>g, <1>o DEF EmbeddedInv, Sound, HostKnows
<1>1. Typed(attached', detaching', replacing', view', visual', stack', owed')
  BY <1>l, <1>o, <1>g, <1>h, <1>t, <1>u, <1>a DEF EmbeddedInv, Sound, Typed, NewView
<1>2. FramesFit(stack')
  <2>1. FramesFit(stack) /\ AtFits(stack'[Len(stack)])
    BY <1>g, <1>t DEF EmbeddedInv, Sound, AtFits
  <2>2. stack[Len(stack)].op # "wake"
    BY <1>g
  <2> QED BY <1>l, <1>o, <1>t, <2>1, <2>2, FitsReplaced
<1>3. HostKnows(attached', detaching', replacing', stack')
  <2>1. \A i \in 1 .. Len(stack) : Replacing(stack'[i]) /\ Live(stack'[i]) => replacing
    BY <1>o, <1>l, <1>i, <1>g, <1>t DEF EmbeddedInv, Sound, HostKnows, Replacing, Live
  <2>2. \A i, j \in 1 .. Len(stack) :
          i < j /\ stack'[j].op \in {"attach", "detach", "replace", "hide"} => ~stack'[i].current
    BY <1>o, <1>l, <1>i, <1>g, <1>t DEF EmbeddedInv, Sound, HostKnows
  <2> QED BY <1>l, <1>i, <1>g, <1>h, <1>t, <1>e, <1>a, <2>1, <2>2 DEF EmbeddedInv, Sound, HostKnows
<1>4. FlagsKnow(detaching', view', stack')
  <2>1. \A i \in 1 .. Len(stack) : Preparing(stack'[i]) <=> Preparing(stack[i])
    BY <1>o, <1>i, <1>t DEF Preparing
  <2>2. \A i \in 1 .. Len(stack) : stack'[i].op = stack[i].op /\ (stack'[i].at = "finish" <=> stack[i].at = "finish")
    BY <1>o, <1>i, <1>t, <1>g
  <2> QED BY SMTT(20), <1>l, <1>h, <1>t, <1>u, <1>e, <2>1, <2>2 DEF EmbeddedInv, Sound, FlagsKnow
<1>5. FramesKnow(view', stack')
  BY <1>l, <1>o, <1>g, <1>t, <1>u, <1>o, <1>k DEF EmbeddedInv, Sound, FramesKnow, FrameKnows, Live
<1>6. DrawnKnows(view', stack')
  <2>1. FrameKnows(view, stack[Len(stack)])
    BY <1>o DEF EmbeddedInv, Sound, FramesKnow
  <2>2. ~view.surface
    BY <2>1, <1>g DEF FrameKnows, Live
  <2>3. ASSUME NEW i \in 1 .. Len(stack), Live(stack'[i])  PROVE stack'[i].at # "acknowledge"
    BY <2>3, <1>o, <1>i, <1>k, <1>t DEF Live
  <2>4. ASSUME NEW i \in 1 .. Len(stack), NEW j \in 1 .. Len(stack), "interact" \notin Preparers,
               i < j, stack'[j].op = "prepare"
        PROVE  stack'[i].op # "interact"
    <3>1. stack'[i].op = stack[i].op /\ stack'[j].op = stack[j].op
      BY <1>o, <1>i, <1>t
    <3> QED BY <3>1, <2>4, <1>l DEF EmbeddedInv, Sound, DrawnKnows
  <2> QED BY <1>t, <1>u, <2>2, <2>3, <2>4 DEF EmbeddedInv, Sound, DrawnKnows
<1>7. HiddenKnows(attached', detaching', view', stack')
  BY <1>l, <1>o, <1>g, <1>h, <1>t, <1>u DEF EmbeddedInv, Sound, HiddenKnows, Live
<1>8. WakesKnow(attached', detaching', view', stack', owed')
  BY <1>l, <1>o, <1>g, <1>h, <1>t, <1>u DEF EmbeddedInv, Sound, WakesKnow, FrameOwes, Announcing, Told, Preparing, Replacing
<1>9. StaleKnown(attached', detaching', view', visual', stack', owed', adrift')
  BY <1>l, <1>o, <1>g, <1>h, <1>t, <1>u DEF EmbeddedInv, Sound, StaleKnown, Stale, Announcing, Told, Replacing
<1> QED BY <1>1, <1>2, <1>3, <1>4, <1>5, <1>6, <1>7, <1>8, <1>9 DEF EmbeddedInv, Sound

\* ReleaseSurface returns.
LEMMA SurfaceReleasedKeeps ==
  ASSUME EmbeddedInv, SurfaceReleased
  PROVE  EmbeddedInv'
<1>l. /\ view \in View /\ stack \in Seq(Frame) /\ Len(stack) \in Nat
      /\ \A i \in 1 .. Len(stack) : stack[i] \in Frame
      /\ stack = <<>> <=> Len(stack) = 0
  BY StackFacts DEF EmbeddedInv, Sound, Typed
<1>o. /\ stack # <<>> /\ Len(stack) \in Nat \ {0} /\ Top = stack[Len(stack)] /\ Top \in Frame
      /\ Below \in Seq(Frame) /\ Len(Below) = Len(stack) - 1
      /\ \A i \in 1 .. Len(stack) - 1 : Below[i] = stack[i]
  BY <1>l, FrontFacts DEF Top, Below, Resumes, SurfaceReleased
<1>g. /\ stack[Len(stack)].at = "release" /\ stack[Len(stack)].same /\ stack[Len(stack)].current
      /\ stack[Len(stack)].op \in {"attach", "replace", "hide", "prepare"} /\ ~detaching
  BY <1>o, <1>l DEF EmbeddedInv, Sound, FramesFit, AtFits, SurfaceReleased, Continue, Resumes, IsCurrent, host
<1>h. /\ attached' = attached /\ detaching' = detaching /\ replacing' = replacing /\ visual' = TRUE
      /\ owed' = owed /\ adrift' = adrift
  BY <1>o, <1>l DEF EmbeddedInv, Sound, FramesFit, AtFits, SurfaceReleased, Continue, Resumes, IsCurrent, host
<1>p. stack' = Append(Below, [Top EXCEPT !.at = "released"])
  BY <1>o, <1>l DEF EmbeddedInv, Sound, FramesFit, AtFits, SurfaceReleased, Continue, Resumes, IsCurrent, host
<1>v. view' = [view EXCEPT !.surface = FALSE, !.coherent = FALSE, !.layout = FALSE, !.requested = FALSE, !.dirty = TRUE]
  BY <1>o, <1>l DEF EmbeddedInv, Sound, FramesFit, AtFits, SurfaceReleased, Continue, Resumes, IsCurrent, host
<1>t. /\ stack' \in Seq(Frame) /\ Len(stack') = Len(stack) /\ stack' # <<>>
      /\ stack'[Len(stack)].op = stack[Len(stack)].op /\ stack'[Len(stack)].at = "released"
      /\ stack'[Len(stack)].same = stack[Len(stack)].same
      /\ stack'[Len(stack)].current = stack[Len(stack)].current
      /\ stack'[Len(stack)].clean = stack[Len(stack)].clean
      /\ stack'[Len(stack)].tree = stack[Len(stack)].tree
      /\ \A i \in 1 .. Len(stack) - 1 : stack'[i] = stack[i]
  <2>1. [Top EXCEPT !.at = "released"] \in Frame
    BY <1>o DEF NewFrame, Frame, Op, Stage, CalloutStage
  <2>2. /\ [Top EXCEPT !.at = "released"].op = Top.op /\ [Top EXCEPT !.at = "released"].at = "released"
        /\ [Top EXCEPT !.at = "released"].same = Top.same
        /\ [Top EXCEPT !.at = "released"].current = Top.current
        /\ [Top EXCEPT !.at = "released"].clean = Top.clean
        /\ [Top EXCEPT !.at = "released"].tree = Top.tree
    BY <1>o DEF NewFrame, Frame, Op, Stage, CalloutStage
  <2> QED BY <2>1, <2>2, <1>o, <1>p, PushFacts
<1>i. \A i \in 1 .. Len(stack) : i = Len(stack) \/ i \in 1 .. Len(stack) - 1
  BY <1>o
<1>e. /\ (\E i \in 1 .. Len(stack) : Preparing(stack[i])) => \E i \in 1 .. Len(stack) : Preparing(stack'[i])
      /\ (\E i \in 1 .. Len(stack) : Replacing(stack[i])) => \E i \in 1 .. Len(stack) : Replacing(stack'[i])
      /\ (\E i \in 1 .. Len(stack) : stack[i].op = "input") => \E i \in 1 .. Len(stack) : stack'[i].op = "input"
      /\ (\E i \in 1 .. Len(stack) : stack[i].op = "interact") => \E i \in 1 .. Len(stack) : stack'[i].op = "interact"
  BY <1>o, <1>t, <1>i, <1>g DEF Preparing, Replacing
<1>u. /\ view' \in View /\ view'.visible = view.visible /\ view'.dirty /\ ~view'.coherent
      /\ view'.arranged = view.arranged /\ view'.zeroSized = view.zeroSized /\ ~view'.surface
      /\ view'.graphics = view.graphics /\ ~view'.requested /\ view'.inputWake = view.inputWake
      /\ view'.recoveryWake = view.recoveryWake /\ view'.preparing = view.preparing
      /\ view'.prepareCall = view.prepareCall
  BY <1>l, <1>v DEF View
<1>a. attached
  BY <1>g, <1>o DEF EmbeddedInv, Sound, HostKnows
<1>k. /\ stack[Len(stack)].op # "prepare" => \A i \in 1 .. Len(stack) - 1 : ~stack[i].current
      /\ stack[Len(stack)].op = "prepare" => \A i \in 1 .. Len(stack) - 1 : ~Preparing(stack[i])
  <2>1. HostKnows(attached, detaching, replacing, stack) /\ FlagsKnow(detaching, view, stack)
    BY DEF EmbeddedInv, Sound
  <2>2. stack[Len(stack)].op # "prepare" => \A i \in 1 .. Len(stack) - 1 : ~stack[i].current
    BY <1>g, <1>o, <2>1 DEF HostKnows
  <2>3. stack[Len(stack)].op = "prepare" => Preparing(stack[Len(stack)])
    BY <1>g DEF Preparing
  <2>4. stack[Len(stack)].op = "prepare" => \A i \in 1 .. Len(stack) - 1 : ~Preparing(stack[i])
    BY <1>o, <2>1, <2>3 DEF FlagsKnow
  <2> QED BY <2>2, <2>4
<1>n. \A i \in 1 .. Len(stack) - 1 : stack[i].at \in CalloutStage /\ stack[i].at # "wake"
  BY <1>o, <1>g, <1>l DEF EmbeddedInv, Sound, FramesFit, AtFits, CalloutStage
<1>1. Typed(attached', detaching', replacing', view', visual', stack', owed')
  BY <1>l, <1>o, <1>g, <1>h, <1>t, <1>u, <1>a DEF EmbeddedInv, Sound, Typed, NewView
<1>2. FramesFit(stack')
  <2>1. FramesFit(stack) /\ AtFits(stack'[Len(stack)])
    BY <1>g, <1>t DEF EmbeddedInv, Sound, AtFits
  <2>2. stack[Len(stack)].op # "wake"
    BY <1>g
  <2> QED BY <1>l, <1>o, <1>t, <2>1, <2>2, FitsReplaced
<1>3. HostKnows(attached', detaching', replacing', stack')
  <2>1. \A i \in 1 .. Len(stack) : Replacing(stack'[i]) /\ Live(stack'[i]) => replacing
    BY <1>o, <1>l, <1>i, <1>g, <1>t DEF EmbeddedInv, Sound, HostKnows, Replacing, Live
  <2>2. \A i, j \in 1 .. Len(stack) :
          i < j /\ stack'[j].op \in {"attach", "detach", "replace", "hide"} => ~stack'[i].current
    BY <1>o, <1>l, <1>i, <1>g, <1>t DEF EmbeddedInv, Sound, HostKnows
  <2> QED BY SMTT(20), <1>l, <1>i, <1>g, <1>h, <1>t, <1>e, <1>a, <2>1, <2>2 DEF EmbeddedInv, Sound, HostKnows
<1>4. FlagsKnow(detaching', view', stack')
  <2>1. \A i \in 1 .. Len(stack) : Preparing(stack'[i]) <=> Preparing(stack[i])
    BY <1>o, <1>i, <1>t DEF Preparing
  <2>2. \A i \in 1 .. Len(stack) : stack'[i].op # "wake"
    BY <1>o, <1>i, <1>t, <1>n, <1>g DEF EmbeddedInv, Sound, FramesFit, AtFits
  <2>3. \A i \in 1 .. Len(stack) : stack'[i].at # "finish" /\ stack[i].at # "finish"
    BY <1>o, <1>i, <1>t, <1>n, <1>g DEF CalloutStage
  <2> QED BY <1>l, <1>h, <1>t, <1>u, <1>e, <2>1, <2>2, <2>3 DEF EmbeddedInv, Sound, FlagsKnow
<1>5. FramesKnow(view', stack')
  <2>1. FrameKnows(view', stack'[Len(stack)])
    <3>1. FrameKnows(view, stack[Len(stack)])
      BY <1>o DEF EmbeddedInv, Sound, FramesKnow
    <3> QED BY <3>1, <1>o, <1>t, <1>g, <1>u DEF FrameKnows, Live
  <2>2. ASSUME NEW i \in 1 .. Len(stack) - 1  PROVE FrameKnows(view', stack[i])
    <3>1. FrameKnows(view, stack[i]) /\ AtFits(stack[i])
      BY <1>o DEF EmbeddedInv, Sound, FramesKnow, FramesFit
    <3> QED BY <3>1, <1>k, <1>u DEF FrameKnows, Live, AtFits, Preparing
  <2> QED BY <1>i, <1>t, <2>1, <2>2 DEF FramesKnow
<1>6. DrawnKnows(view', stack')
  <2>1. ASSUME "interact" \notin Preparers, NEW i \in 1 .. Len(stack) - 1, Live(stack[i])
        PROVE  stack[i].at # "acknowledge"
    <3>1. stack[i].op # "interact"
      BY <2>1, <1>k, <1>g, <1>o DEF EmbeddedInv, Sound, DrawnKnows, Live
    <3> QED BY <3>1, <1>o DEF EmbeddedInv, Sound, FramesFit, AtFits
  <2>3. ASSUME "interact" \notin Preparers, NEW i \in 1 .. Len(stack), Live(stack'[i])
        PROVE  stack'[i].at # "acknowledge"
    BY <2>1, <2>3, <1>o, <1>i, <1>t DEF Live
  <2>4. ASSUME NEW i \in 1 .. Len(stack), NEW j \in 1 .. Len(stack), "interact" \notin Preparers,
               i < j, stack'[j].op = "prepare"
        PROVE  stack'[i].op # "interact"
    <3>1. stack'[i].op = stack[i].op /\ stack'[j].op = stack[j].op
      BY <1>o, <1>i, <1>t
    <3> QED BY <3>1, <2>4, <1>l DEF EmbeddedInv, Sound, DrawnKnows
  <2> QED BY <1>t, <1>u, <2>3, <2>4 DEF DrawnKnows
<1>7. HiddenKnows(attached', detaching', view', stack')
  BY <1>l, <1>o, <1>g, <1>h, <1>t, <1>u DEF EmbeddedInv, Sound, HiddenKnows, Live
<1>8. WakesKnow(attached', detaching', view', stack', owed')
  <2>1. Announcing(detaching, stack, owed) => Announcing(detaching, stack', owed)
    BY <1>t, <1>e DEF Announcing
  <2>2. ASSUME NEW i \in 1 .. Len(stack)  PROVE FrameOwes(detaching, view', stack', owed, stack'[i])
    <3>1. FrameOwes(detaching, view, stack, owed, stack[i]) /\ AtFits(stack[i])
      BY DEF EmbeddedInv, Sound, WakesKnow, FramesFit
    <3> QED BY <3>1, <2>1, <1>o, <1>k, <1>i, <1>t, <1>g, <1>u DEF FrameOwes, Preparing
  <2> QED BY <2>1, <2>2, <1>h, <1>t, <1>u DEF WakesKnow
<1>9. StaleKnown(attached', detaching', view', visual', stack', owed', adrift')
  <2>1. CASE stack[Len(stack)].op \in {"attach", "replace"}
    BY <2>1, <1>o, <1>t, <1>g DEF StaleKnown, Told, Announcing, Replacing
  <2>2. CASE stack[Len(stack)].op \in {"hide", "prepare"}
    <3>1. FrameKnows(view, stack[Len(stack)])
      BY <1>o DEF EmbeddedInv, Sound, FramesKnow
    <3> QED BY <2>2, <3>1, <1>g, <1>u DEF FrameKnows, Live, StaleKnown, Stale
  <2> QED BY <2>1, <2>2, <1>g
<1> QED BY <1>1, <1>2, <1>3, <1>4, <1>5, <1>6, <1>7, <1>8, <1>9 DEF EmbeddedInv, Sound

\* The device is there.
LEMMA DeviceReplacedKeeps ==
  ASSUME EmbeddedInv, DeviceReplaced
  PROVE  EmbeddedInv'
<1> DEFINE w == owed \/ ~view.prepareCall
           u == [view EXCEPT !.graphics = TRUE, !.requested = (Top.op = "attach"),
                             !.recoveryWake = @ \/ view.prepareCall]
<1>h. replacing' = FALSE /\ owed' = w /\ UNCHANGED <<attached, detaching, visual, adrift>>
      /\ view' = u /\ stack' = Below
  BY DEF DeviceReplaced, Return
<1>g. stack # <<>> /\ Top.at = "discard" /\ Top.op \in {"attach", "replace"} /\ ~detaching /\ attached
  BY TopFacts DEF DeviceReplaced, Resumes, IsCurrent, EmbeddedInv, Sound, FramesFit, AtFits, HostKnows
<1>s. Sound(attached, detaching, FALSE, view, visual, Below, TRUE)
  BY <1>g, PopSound DEF EmbeddedInv, Sound, Typed, Preparing, Replacing
<1>l. Len(Below) \in Nat /\ view \in View
  BY <1>g, TopFacts DEF EmbeddedInv, Sound, Typed
<1>n. \A i \in 1 .. Len(Below) : Below[i].at \in CalloutStage /\ Below[i].op # "wake"
  BY <1>g, TopFacts DEF EmbeddedInv, Sound, FramesFit, AtFits, CalloutStage
<1>c. Top.current /\ (Top.op = "attach" => ~view.prepareCall)
  BY <1>g, TopFacts DEF DeviceReplaced, IsCurrent, EmbeddedInv, Sound, FramesKnow, FrameKnows, Live
<1>r. \A i \in 1 .. Len(Below) : ~Below[i].current
  BY <1>g, TopFacts DEF EmbeddedInv, Sound, HostKnows
<1>w. w \in BOOLEAN /\ (~view.prepareCall => w = TRUE)
  BY DEF EmbeddedInv, Sound, Typed, View
<1>u. /\ u \in View /\ u.visible = view.visible /\ u.dirty = view.dirty /\ u.coherent = view.coherent
      /\ u.arranged = view.arranged /\ u.zeroSized = view.zeroSized /\ u.surface = view.surface
      /\ u.graphics /\ u.requested = (Top.op = "attach") /\ u.inputWake = view.inputWake
      /\ u.recoveryWake = (view.recoveryWake \/ view.prepareCall) /\ u.preparing = view.preparing
      /\ u.prepareCall = view.prepareCall
  <2> DEFINE c == Top.op = "attach"
             d == view.recoveryWake \/ view.prepareCall
  <2>1. c \in BOOLEAN /\ d \in BOOLEAN /\ u = [view EXCEPT !.graphics = TRUE, !.requested = c, !.recoveryWake = d]
    BY <1>l DEF View
  <2> HIDE DEF c, d, u
  <2>2. u \in View
    BY <1>l, <2>1 DEF View
  <2>3. /\ u.visible = view.visible /\ u.dirty = view.dirty /\ u.coherent = view.coherent
        /\ u.arranged = view.arranged /\ u.zeroSized = view.zeroSized /\ u.surface = view.surface
        /\ u.graphics /\ u.requested = c /\ u.inputWake = view.inputWake
        /\ u.recoveryWake = d /\ u.preparing = view.preparing /\ u.prepareCall = view.prepareCall
    BY <1>l, <2>1 DEF View
  <2> QED BY <2>2, <2>3 DEF c, d
<1> HIDE DEF u, w
<1>1. Typed(attached, detaching, FALSE, u, visual, Below, w)
  BY <1>l, <1>w, <1>g, <1>s, <1>n, <1>u DEF Sound, Typed, NewView
<1>2. FramesFit(Below)
  BY <1>l, <1>g, <1>s, <1>n DEF Sound, FramesFit, AtFits, CalloutStage
<1>3. HostKnows(attached, detaching, FALSE, Below)
  BY <1>l, <1>g, <1>s, <1>n DEF Sound, HostKnows, Replacing, Live
<1>p. view.prepareCall => view.preparing
  <2>1. \A i \in 1 .. Len(Below) : Below[i].at # "finish"
    BY <1>n DEF Sound, CalloutStage
  <2> QED BY <1>g, <1>s, <2>1 DEF Sound, FlagsKnow
<1>4. FlagsKnow(detaching, u, Below)
  BY <1>s, <1>n, <1>u, <1>p DEF Sound, FlagsKnow
<1>5. FramesKnow(u, Below)
  BY <1>l, <1>g, <1>s, <1>n, <1>u DEF Sound, FramesKnow, FrameKnows, Live
<1>6. DrawnKnows(u, Below)
  BY <1>l, <1>g, <1>s, <1>n, <1>u DEF Sound, DrawnKnows, Live
<1>7. HiddenKnows(attached, detaching, u, Below)
  BY <1>l, <1>g, <1>s, <1>n, <1>u DEF Sound, HiddenKnows, Live
<1>8. WakesKnow(attached, detaching, u, Below, w)
  <2>1. u.requested => w
    BY <1>u, <1>c, <1>w
  <2>2. ASSUME NEW i \in 1 .. Len(Below)  PROVE  FrameOwes(detaching, u, Below, w, Below[i])
    <3>1. Preparing(Below[i]) => u.recoveryWake = TRUE
      BY <1>s, <1>u DEF Sound, FlagsKnow
    <3> QED BY <3>1, <1>r DEF FrameOwes
  <2> QED BY <2>1, <2>2 DEF WakesKnow, Announcing
<1>9. StaleKnown(attached, detaching, u, visual, Below, w, adrift)
  BY <1>w, <1>u, <1>p DEF StaleKnown, Told, Announcing
<1> QED BY <1>h, <1>1, <1>2, <1>3, <1>4, <1>5, <1>6, <1>7, <1>8, <1>9 DEF EmbeddedInv, Sound

-----------------------------------------------------------------------------
(* Preparation.                                                            *)

\* A preparation of the attachment of today has cleared its flags, and has not asked yet.
LEMMA FinishSound ==
  ASSUME EmbeddedInv, stack # <<>>, NEW f \in Frame,
         f.op = "prepare" /\ f.same /\ f.same = Top.same /\ f.current = Top.current /\ f.clean = Top.clean /\ f.tree = Top.tree,
         Top.op = "prepare" /\ Top.at # "finish" /\ ~(Live(Top) /\ Top.at = "release"),
         NEW v \in View, NEW x \in BOOLEAN, NEW w \in BOOLEAN, owed => w,
         /\ v.visible = view.visible /\ v.zeroSized = view.zeroSized /\ v.surface = view.surface
         /\ v.graphics = view.graphics /\ v.requested = view.requested /\ v.inputWake = view.inputWake
         /\ v.recoveryWake = view.recoveryWake /\ v.arranged = view.arranged
         /\ v.prepareCall = view.prepareCall,
         v.coherent => view.coherent
  PROVE  Sound(attached, detaching, replacing, [v EXCEPT !.preparing = FALSE, !.recoveryWake = FALSE], x,
               Append(Below, [f EXCEPT !.at = "finish"]), w)
<1> DEFINE u == [v EXCEPT !.preparing = FALSE, !.recoveryWake = FALSE]
           t == Append(Below, [f EXCEPT !.at = "finish"])
<1>o. /\ stack \in Seq(Frame) /\ Len(stack) \in Nat \ {0} /\ Top = stack[Len(stack)] /\ Top \in Frame
      /\ Below \in Seq(Frame) /\ Len(Below) = Len(stack) - 1
      /\ \A i \in 1 .. Len(stack) - 1 : Below[i] = stack[i]
  BY TopFacts
<1>g. /\ stack[Len(stack)].op = "prepare" /\ stack[Len(stack)].at # "finish" /\ stack[Len(stack)].same
  BY <1>o
<1>t. /\ t \in Seq(Frame) /\ Len(t) = Len(stack) /\ t # <<>>
      /\ t[Len(stack)].op = "prepare" /\ t[Len(stack)].at = "finish" /\ t[Len(stack)].same
      /\ t[Len(stack)].current = stack[Len(stack)].current /\ t[Len(stack)].clean = stack[Len(stack)].clean
      /\ t[Len(stack)].tree = stack[Len(stack)].tree
      /\ \A i \in 1 .. Len(stack) - 1 : t[i] = stack[i]
  <2>1. [f EXCEPT !.at = "finish"] \in Frame
    BY DEF Frame, Stage
  <2>2. /\ [f EXCEPT !.at = "finish"].op = "prepare" /\ [f EXCEPT !.at = "finish"].at = "finish"
        /\ [f EXCEPT !.at = "finish"].same /\ [f EXCEPT !.at = "finish"].current = Top.current
        /\ [f EXCEPT !.at = "finish"].clean = Top.clean /\ [f EXCEPT !.at = "finish"].tree = Top.tree
    BY DEF Frame
  <2> QED BY <2>1, <2>2, <1>o, PushFacts
<1>u. /\ u \in View /\ u.visible = v.visible /\ u.dirty = v.dirty /\ u.coherent = v.coherent
      /\ u.arranged = v.arranged /\ u.zeroSized = v.zeroSized /\ u.surface = v.surface
      /\ u.graphics = v.graphics /\ u.requested = v.requested /\ u.inputWake = v.inputWake
      /\ ~u.recoveryWake /\ ~u.preparing /\ u.prepareCall = v.prepareCall
  BY DEF View
<1> HIDE DEF u, t
<1>i. \A i \in 1 .. Len(stack) : i = Len(stack) \/ i \in 1 .. Len(stack) - 1
  BY <1>o
<1>p. \A i \in 1 .. Len(stack) : Preparing(stack[i]) => i = Len(stack)
  BY <1>g, <1>o DEF EmbeddedInv, Sound, FlagsKnow, Preparing
<1>q. \A i \in 1 .. Len(stack) : Preparing(t[i]) <=> i = Len(stack)
  BY <1>o, <1>p, <1>t, <1>g, <1>i DEF Preparing
<1>a. attached /\ ~detaching
  BY <1>o, <1>g DEF EmbeddedInv, Sound, HostKnows, FramesFit, AtFits
<1>e. /\ (\E i \in 1 .. Len(stack) : Replacing(stack[i])) => \E i \in 1 .. Len(stack) : Replacing(t[i])
      /\ (\E i \in 1 .. Len(stack) : stack[i].op = "input") => \E i \in 1 .. Len(stack) : t[i].op = "input"
  BY <1>o, <1>t, <1>i, <1>g DEF Replacing
<1>1. Typed(attached, detaching, replacing, u, x, t, w)
  BY <1>a, <1>u, <1>t DEF EmbeddedInv, Sound, Typed
<1>2. FramesFit(t)
  BY <1>o, <1>t, <1>g, SMTT(30) DEF EmbeddedInv, Sound, FramesFit, AtFits
<1>3. HostKnows(attached, detaching, replacing, t)
  <2>1. \A i \in 1 .. Len(stack) : Replacing(t[i]) /\ Live(t[i]) => replacing
    BY <1>o, <1>i, <1>t DEF EmbeddedInv, Sound, HostKnows, Replacing, Live
  <2>2. \A i, j \in 1 .. Len(stack) :
          i < j /\ t[j].op \in {"attach", "detach", "replace", "hide"} => ~t[i].current
    <3>1. \A i \in 1 .. Len(stack) : t[i].op = stack[i].op /\ t[i].current = stack[i].current
      BY <1>o, <1>i, <1>t
    <3> QED BY <3>1 DEF EmbeddedInv, Sound, HostKnows
  <2>3. \A i \in 1 .. Len(stack) : t[i].at # "detach"
    BY <1>o, <1>i, <1>t, <1>a DEF EmbeddedInv, Sound, HostKnows
  <2> QED BY <1>t, <1>e, <1>a, <2>1, <2>2, <2>3 DEF EmbeddedInv, Sound, HostKnows
<1>4. FlagsKnow(detaching, u, t)
  <2>1. \A i \in 1 .. Len(stack) : t[i].op = stack[i].op
    BY <1>o, <1>i, <1>t
  <2>2. Len(stack) \in 1 .. Len(t) /\ view.prepareCall
    BY <1>o, <1>t, <1>g DEF EmbeddedInv, Sound, FlagsKnow, Preparing
  <2> QED BY <1>t, <1>u, <1>e, <1>q, <2>1, <2>2 DEF EmbeddedInv, Sound, FlagsKnow
<1>5. FramesKnow(u, t)
  <2>1. FrameKnows(u, t[Len(stack)])
    <3>1. FrameKnows(view, stack[Len(stack)])
      BY <1>o DEF EmbeddedInv, Sound, FramesKnow
    <3> QED BY <3>1, <1>t, <1>g, <1>u DEF FrameKnows, Live
  <2>2. ASSUME NEW i \in 1 .. Len(stack) - 1  PROVE FrameKnows(u, stack[i])
    <3>1. FrameKnows(view, stack[i])
      BY <1>o DEF EmbeddedInv, Sound, FramesKnow
    <3> QED BY <3>1, <1>u DEF FrameKnows
  <2> QED BY <1>i, <1>t, <2>1, <2>2 DEF FramesKnow
<1>6. DrawnKnows(u, t)
  <2>1. ASSUME NEW i \in 1 .. Len(stack), Live(t[i]), t[i].at = "acknowledge"
        PROVE  Live(stack[i]) /\ stack[i].at = "acknowledge"
    BY <2>1, <1>i, <1>t DEF Live
  <2>2. ASSUME NEW i \in 1 .. Len(stack), NEW j \in 1 .. Len(stack), "interact" \notin Preparers,
               i < j, t[j].op = "prepare"
        PROVE  t[i].op # "interact"
    <3>1. t[i].op = stack[i].op /\ t[j].op = stack[j].op
      BY <1>o, <1>i, <1>t
    <3> QED BY <3>1, <2>2, <1>o DEF EmbeddedInv, Sound, DrawnKnows
  <2> QED BY <1>t, <1>u, <2>1, <2>2 DEF EmbeddedInv, Sound, DrawnKnows
<1>7. HiddenKnows(attached, detaching, u, t)
  <2>1. (\E i \in 1 .. Len(stack) : Live(stack[i]) /\ stack[i].at = "release") =>
          \E i \in 1 .. Len(stack) : Live(t[i]) /\ t[i].at = "release"
    BY <1>o, <1>i, <1>t DEF Live
  <2> QED BY <1>t, <1>u, <2>1 DEF EmbeddedInv, Sound, HiddenKnows
<1>8. WakesKnow(attached, detaching, u, t, w)
  <2>1. Announcing(detaching, stack, owed) => Announcing(detaching, t, w)
    BY <1>t, <1>e DEF Announcing
  <2>2. \A i \in 1 .. Len(stack) : FrameOwes(detaching, u, t, w, t[i])
    BY <1>q, <1>t DEF FrameOwes
  <2> QED BY <1>t, <1>u, <2>1, <2>2 DEF EmbeddedInv, Sound, WakesKnow
<1> QED BY <1>1, <1>2, <1>3, <1>4, <1>5, <1>6, <1>7, <1>8 DEF Sound, t, u

\* Finish, on every way out of Prepare.
LEMMA FinishKeeps ==
  ASSUME EmbeddedInv, stack # <<>>, NEW f \in Frame,
         f.op = "prepare" /\ f.same = Top.same /\ f.current = Top.current /\ f.clean = Top.clean /\ f.tree = Top.tree,
         Top.op = "prepare" /\ Top.at # "finish" /\ ~(Live(Top) /\ Top.at = "release"),
         NEW v \in View, NEW result, Finish(f, v, result), UNCHANGED <<host, adrift>>, visual' \in BOOLEAN,
         f.same \/ visual' = visual,
         /\ v.visible = view.visible /\ v.zeroSized = view.zeroSized /\ v.surface = view.surface
         /\ v.graphics = view.graphics /\ v.requested = view.requested /\ v.inputWake = view.inputWake
         /\ v.recoveryWake = view.recoveryWake /\ v.arranged = view.arranged
         /\ v.prepareCall = view.prepareCall,
         v.coherent => view.coherent,
         f.same /\ Stale(attached, v, visual') =>
           adrift \/ Told(detaching, stack, owed) \/ result = "failure" \/ v.recoveryWake \/ (f.current /\ (f.ask \/ ~f.clean))
  PROVE  EmbeddedInv'
<1> DEFINE done   == [v EXCEPT !.preparing = FALSE, !.recoveryWake = FALSE]
           frames == Append(Below, [f EXCEPT !.at = "finish"])
           told   == owed \/ result = "failure"
<1>h. UNCHANGED <<attached, detaching, replacing, adrift>>
  BY DEF host
<1>b. owed \in BOOLEAN /\ told \in BOOLEAN /\ replacing \in BOOLEAN
  BY DEF EmbeddedInv, Sound, Typed
<1>1. CASE ~f.same
  <2>1. view' = view /\ stack' = Below /\ owed' = told
    BY <1>1 DEF Finish, Return
  <2>2. Top.at # "detach"
    BY TopFacts DEF EmbeddedInv, Sound, FramesFit, AtFits
  <2>3. Sound(attached, detaching, replacing, view, visual, Below, told)
    <3> HIDE DEF told
    <3>1. told \/ ~owed
      BY DEF told
    <3> QED BY <1>1, <1>b, <2>2, <3>1, PopSound DEF Preparing, Replacing
  <2>4. (\E i \in 1 .. Len(stack) : Replacing(stack[i])) => \E i \in 1 .. Len(Below) : Replacing(Below[i])
    BY TopFacts DEF Replacing
  <2>5. (\E i \in 1 .. Len(stack) : stack[i].op = "interact") => \E i \in 1 .. Len(Below) : Below[i].op = "interact"
    BY TopFacts
  <2>6. StaleKnown(attached, detaching, view, visual, Below, told, adrift)
    BY <2>4, <2>5 DEF EmbeddedInv, StaleKnown, Told, Announcing
  <2> QED BY <1>1, <1>h, <2>1, <2>3, <2>6 DEF EmbeddedInv
<1>2. CASE f.same
  <2>s. Sound(attached, detaching, replacing, done, visual', frames, told)
    BY <1>2, <1>b, FinishSound
  <2>a. attached
    <3>1. Len(stack) \in 1 .. Len(stack) /\ Top = stack[Len(stack)]
      BY TopFacts
    <3>2. Top.same
      BY <1>2
    <3> QED BY <3>1, <3>2 DEF EmbeddedInv, Sound, HostKnows
  <2>u. /\ done.visible = v.visible /\ done.zeroSized = v.zeroSized /\ done.requested = v.requested
        /\ done.dirty = v.dirty /\ done.coherent = v.coherent /\ ~done.preparing /\ done \in View
    BY DEF View
  <2>1. CASE MayRequest(done) /\ InputActive(frames) /\ view' = [done EXCEPT !.inputWake = TRUE] /\ stack' = frames /\ owed' = told
    <3>1. Sound(attached, detaching, replacing, view', visual', frames, told)
      BY <2>s, <2>a, <2>1, WakeHeld
    <3>2. view'.inputWake
      BY <2>1, <2>u DEF View
    <3> QED BY <1>h, <2>1, <3>1, <3>2 DEF EmbeddedInv, StaleKnown
  <2>2. CASE MayRequest(done) /\ view' = [done EXCEPT !.requested = TRUE]
             /\ stack' = Append(frames, NewFrame("wake", "wake")) /\ owed' = TRUE
    <3>1. Sound(attached, detaching, replacing, view', visual', stack', TRUE)
      BY <2>s, <2>a, <2>2, WakePushed DEF MayRequest, MayAsk
    <3> QED BY <1>h, <2>2, <3>1 DEF EmbeddedInv, StaleKnown, Told, Announcing
  <2>3. CASE /\ view' = done /\ stack' = frames /\ owed' = told
             /\ ~(MayRequest(done) /\ v.visible /\ ~v.zeroSized /\ ~detaching /\ ~replacing
                    /\ (v.recoveryWake \/ (f.current /\ (f.ask \/ ~f.clean))))
    <3>1. ASSUME Stale(attached, done, visual'), ~adrift  PROVE Told(detaching, frames, told)
      <4>1. Stale(attached, v, visual')
        BY <3>1, <2>u DEF Stale
      <4>2. detaching \/ replacing \/ done.requested => Announcing(detaching, frames, told)
        BY <2>s, <2>a DEF Sound, HostKnows, WakesKnow, Announcing
      <4>3. CASE Told(detaching, stack, owed)
        <5>1. Len(frames) = Len(stack)
              /\ \A i \in 1 .. Len(stack) : (Replacing(stack[i]) => Replacing(frames[i]))
                                           /\ (stack[i].op = "interact" => frames[i].op = "interact")
          <6>1. [f EXCEPT !.at = "finish"] \in Frame
            BY DEF Frame, Stage
          <6> QED BY <6>1, TopFacts, PushFacts DEF Replacing
        <5> QED BY <4>3, <5>1 DEF Told, Announcing
      <4>4. CASE ~Told(detaching, stack, owed) /\ result # "failure"
        <5>1. v.recoveryWake \/ (f.current /\ (f.ask \/ ~f.clean))
          BY <1>2, <3>1, <4>1, <4>4
        <5>2. detaching \/ replacing \/ ~MayRequest(done)
          BY <5>1, <4>1, <2>3 DEF Stale
        <5>3. MayRequest(done) \/ done.requested \/ detaching
          BY <4>1, <2>u DEF MayRequest, Stale
        <5> QED BY <4>2, <5>2, <5>3 DEF Told
      <4> QED BY <4>3, <4>4 DEF Told, Announcing
    <3> QED BY <1>h, <2>3, <2>s, <3>1 DEF EmbeddedInv, StaleKnown
  <2> QED BY <1>2, <2>1, <2>2, <2>3 DEF Finish
<1> QED BY <1>1, <1>2

LEMMA PrepareSuspendedKeeps ==
  ASSUME EmbeddedInv, PrepareSuspended
  PROVE  EmbeddedInv'
<1>1. /\ stack # <<>> /\ Top.at = "released" /\ Top.op = "prepare" /\ UNCHANGED <<host, adrift>> /\ visual' = visual
      /\ Finish(Top, view, IF PreparationIsCurrent(Top) THEN "S_FALSE" ELSE "E_ABORT")
  BY DEF PrepareSuspended, Resumes
<1>2. FrameKnows(view, Top) /\ FrameOwes(detaching, view, stack, owed, Top)
  BY <1>1, TopFacts DEF EmbeddedInv, Sound, FramesKnow, WakesKnow
<1>3. ASSUME Top.same, Stale(attached, view, visual)
      PROVE  Told(detaching, stack, owed) \/ view.recoveryWake
  BY <1>1, <1>2, <1>3 DEF FrameKnows, FrameOwes, Live, Preparing, Stale, Told
<1> QED BY <1>1, <1>2, <1>3, TopFacts, FinishKeeps DEF EmbeddedInv, Sound, Typed

LEMMA PrepareInvalidKeeps ==
  ASSUME EmbeddedInv, PrepareInvalid
  PROVE  EmbeddedInv'
<1>1. /\ stack # <<>> /\ Top.at = "invalid" /\ Top.op = "prepare" /\ UNCHANGED <<host, adrift>> /\ visual' = visual
      /\ Finish(Top, view, "failure")
  BY DEF PrepareInvalid, Resumes
<1> QED BY <1>1, TopFacts, FinishKeeps DEF EmbeddedInv, Sound, Typed

\* What a preparation that is not current owes, another operation or its end announces.
LEMMA AbortKeeps ==
  ASSUME EmbeddedInv, TreeInv, stack # <<>>, Top.op = "prepare", Top.at # "finish", Finish(Top, view, "E_ABORT"),
         UNCHANGED <<host, visual, adrift>>, ~PreparationIsCurrent(Top) \/ (~Top.tree /\ Top.at # "release"),
         Top.at = "release" => ~IsCurrent(Top)
  PROVE  EmbeddedInv'
<1>1. /\ FrameOwes(detaching, view, stack, owed, Top)
      /\ TreeOwes(view, owed, adrift, Top)
      /\ replacing => Told(detaching, stack, owed)
      /\ Top.same => ~detaching
  <2>1. FrameOwes(detaching, view, stack, owed, Top) /\ TreeOwes(view, owed, adrift, Top)
    BY TopFacts DEF EmbeddedInv, TreeInv, TreesKnow, Sound, WakesKnow
  <2>2. replacing => Told(detaching, stack, owed)
    BY DEF EmbeddedInv, Sound, HostKnows, Told, Announcing
  <2>3. AtFits(Top) /\ (detaching => Top.at = "detach")
    BY TopFacts DEF EmbeddedInv, Sound, HostKnows, FramesFit
  <2> QED BY <2>1, <2>2, <2>3 DEF AtFits
<1>2. ASSUME Top.same, Stale(attached, view, visual)
      PROVE  adrift \/ Told(detaching, stack, owed) \/ view.recoveryWake \/ (Top.current /\ ~Top.clean)
  BY <1>1, <1>2 DEF FrameOwes, TreeOwes, Preparing, Stale, Told, Announcing, PreparationIsCurrent, IsCurrent
<1>3. ~(Live(Top) /\ Top.at = "release")
  BY <1>1 DEF IsCurrent, Live
<1> QED BY <1>1, <1>2, <1>3, TopFacts, FinishKeeps DEF EmbeddedInv, Sound, Typed

LEMMA PrepareAbortsKeeps ==
  ASSUME EmbeddedInv, TreeInv, PrepareAborts
  PROVE  EmbeddedInv'
BY AbortKeeps DEF PrepareAborts

LEMMA ReleaseAbandonedKeeps ==
  ASSUME EmbeddedInv, TreeInv, ReleaseAbandoned
  PROVE  EmbeddedInv'
<1>1. /\ stack # <<>> /\ Top.at \in {"release", "released"} /\ ~IsCurrent(Top)
      /\ Top.op \in {"attach", "replace", "hide", "prepare"}
  BY TopFacts DEF ReleaseAbandoned, EmbeddedInv, Sound, FramesFit, AtFits
<1>2. CASE Top.op = "hide"
  BY <1>1, <1>2, HideReturnsKeeps DEF ReleaseAbandoned
<1>3. CASE Top.op = "prepare"
  BY <1>1, <1>3, AbortKeeps DEF ReleaseAbandoned, PreparationIsCurrent
<1>4. CASE Top.op \in {"attach", "replace"}
  BY <1>1, <1>4, ReplacementFailsKeeps DEF ReleaseAbandoned
<1> QED BY <1>1, <1>2, <1>3, <1>4

LEMMA FinishedKeeps ==
  ASSUME EmbeddedInv, Finished
  PROVE  EmbeddedInv'
<1>1. /\ stack # <<>> /\ Top.at = "finish" /\ Top.op = "prepare" /\ stack' = Below
      /\ UNCHANGED <<attached, detaching, replacing, visual, owed, adrift>>
      /\ view' = IF Top.same THEN [view EXCEPT !.prepareCall = FALSE] ELSE view
  BY TopFacts DEF Finished, Resumes, Return, host, EmbeddedInv, Sound, FramesFit, AtFits
<1>b. owed \in BOOLEAN /\ replacing \in BOOLEAN /\ view \in View
  BY DEF EmbeddedInv, Sound, Typed
<1>e. /\ (\E i \in 1 .. Len(stack) : Replacing(stack[i])) => \E i \in 1 .. Len(Below) : Replacing(Below[i])
      /\ (\E i \in 1 .. Len(stack) : stack[i].op = "interact") => \E i \in 1 .. Len(Below) : Below[i].op = "interact"
  BY <1>1, TopFacts DEF Replacing
<1>k. StaleKnown(attached, detaching, view, visual, Below, owed, adrift)
  BY <1>e DEF EmbeddedInv, StaleKnown, Told, Announcing
<1>3. CASE ~Top.same
  <2>1. Sound(attached, detaching, replacing, view, visual, Below, owed)
    BY <1>1, <1>b, <1>3, PopSound DEF Preparing, Replacing, Live
  <2> QED BY <1>1, <1>3, <1>k, <2>1 DEF EmbeddedInv
<1>4. CASE Top.same
  <2> DEFINE u == [view EXCEPT !.prepareCall = FALSE]
  <2>l. /\ Len(stack) \in Nat \ {0} /\ Top = stack[Len(stack)] /\ Len(Below) = Len(stack) - 1
        /\ Below \in Seq(Frame) /\ \A i \in 1 .. Len(Below) : Below[i] = stack[i]
    BY <1>1, TopFacts
  <2>2. stack[Len(stack)].op = "prepare" /\ stack[Len(stack)].same /\ attached
    BY <1>1, <1>4, <2>l DEF EmbeddedInv, Sound, HostKnows
  <2>s. /\ Typed(attached, detaching, replacing, view, visual, Below, owed) /\ FramesFit(Below)
        /\ HostKnows(attached, detaching, replacing, Below) /\ FramesKnow(view, Below)
        /\ DrawnKnows(view, Below)
        /\ HiddenKnows(attached, detaching, view, Below) /\ WakesKnow(attached, detaching, view, Below, owed)
    BY <1>1, <1>b, PopRest DEF Replacing
  <2>u. /\ u \in View /\ u.visible = view.visible /\ u.dirty = view.dirty /\ u.coherent = view.coherent
        /\ u.arranged = view.arranged /\ u.zeroSized = view.zeroSized /\ u.surface = view.surface
        /\ u.graphics = view.graphics /\ u.requested = view.requested /\ u.inputWake = view.inputWake
        /\ u.recoveryWake = view.recoveryWake /\ u.preparing = view.preparing /\ ~u.prepareCall
    BY <1>b DEF View
  <2>v. view' = u
    BY <1>1, <1>4
  <2> HIDE DEF u
  <2>r. Sound(attached, detaching, replacing, u, visual, Below, owed)
    <3>1. Typed(attached, detaching, replacing, u, visual, Below, owed)
      BY <2>l, <2>s, <2>u, <2>2 DEF Typed, NewView
    <3>2. FramesFit(Below)
      BY <2>l, <2>s DEF FramesFit, AtFits, CalloutStage
    <3>3. HostKnows(attached, detaching, replacing, Below)
      BY <2>l, <2>s DEF HostKnows, Replacing, Live
    <3>4. FlagsKnow(detaching, u, Below)
      <4>1. \A i \in 1 .. Len(stack) : Preparing(stack[i]) => i = Len(stack)
        BY <2>l, <2>2 DEF EmbeddedInv, Sound, FlagsKnow, Preparing
      <4>2. ~view.preparing
        BY <2>l, <1>1, <2>2 DEF EmbeddedInv, Sound, FlagsKnow, Preparing
      <4>3. \A i \in 1 .. Len(Below) : ~Preparing(Below[i]) /\ Below[i].op = stack[i].op
        BY <2>l, <4>1
      <4>4. (\E i \in 1 .. Len(stack) : stack[i].op = "input") => \E i \in 1 .. Len(Below) : Below[i].op = "input"
        BY <2>l, <1>1
      <4> QED BY <2>l, <2>u, <4>2, <4>3, <4>4 DEF EmbeddedInv, Sound, FlagsKnow
    <3>5. FramesKnow(u, Below)
      BY <2>l, <2>s, <2>u DEF FramesKnow, FrameKnows, Live
    <3>6. DrawnKnows(u, Below)
      BY <2>l, <2>s, <2>u DEF DrawnKnows, Live
    <3>7. HiddenKnows(attached, detaching, u, Below)
      BY <2>l, <2>s, <2>u DEF HiddenKnows, Live
    <3>8. WakesKnow(attached, detaching, u, Below, owed)
      BY <2>l, <2>s, <2>u DEF WakesKnow, FrameOwes, Announcing, Told, Preparing, Replacing
    <3> QED BY <3>1, <3>2, <3>3, <3>4, <3>5, <3>6, <3>7, <3>8 DEF Sound
  <2> QED BY <1>1, <1>k, <2>v, <2>u, <2>r DEF EmbeddedInv, StaleKnown, Stale
<1> QED BY <1>3, <1>4

\* A preparation that is current goes on to its next stage.
LEMMA PrepareGoesOn ==
  ASSUME EmbeddedInv, stack # <<>>, Top.op = "prepare", Top.at \in {"cancel", "layout", "content", "paint"},
         PreparationIsCurrent(Top), NEW f \in Frame, f.op = "prepare", f.same, f.current,
         f.at \in {"layout", "content", "paint", "publish"},
         stack' = Append(Below, f), UNCHANGED <<host, owed>>, visual' \in BOOLEAN, view' \in View,
         /\ view'.visible = view.visible /\ view'.zeroSized = view.zeroSized
         /\ view'.graphics = view.graphics /\ view'.requested = view.requested
         /\ view'.inputWake = view.inputWake /\ view'.recoveryWake = view.recoveryWake
         /\ view'.preparing = view.preparing /\ view'.prepareCall = view.prepareCall,
         view'.surface, f.at = "publish" => view'.arranged /\ view'.coherent
  PROVE  EmbeddedInv'
<1>l. /\ view \in View /\ stack \in Seq(Frame) /\ Len(stack) \in Nat
      /\ \A i \in 1 .. Len(stack) : stack[i] \in Frame
      /\ stack = <<>> <=> Len(stack) = 0
  BY StackFacts DEF EmbeddedInv, Sound, Typed
<1>o. /\ stack # <<>> /\ Len(stack) \in Nat \ {0} /\ Top = stack[Len(stack)] /\ Top \in Frame
      /\ Below \in Seq(Frame) /\ Len(Below) = Len(stack) - 1
      /\ \A i \in 1 .. Len(stack) - 1 : Below[i] = stack[i]
  BY <1>l, FrontFacts DEF Top, Below
<1>g. /\ stack[Len(stack)].op = "prepare" /\ stack[Len(stack)].at \in {"cancel", "layout", "content", "paint"}
      /\ stack[Len(stack)].same /\ stack[Len(stack)].current /\ ~detaching /\ ~replacing
  BY <1>o DEF PreparationIsCurrent, IsCurrent
<1>h. UNCHANGED <<attached, detaching, replacing, owed>> /\ visual' \in BOOLEAN
  BY DEF host
<1>u. view' \in View /\ view'.surface /\ (f.at = "publish" => view'.arranged /\ view'.coherent)
      /\ view'.visible = view.visible /\ view'.zeroSized = view.zeroSized /\ view'.graphics = view.graphics
      /\ view'.requested = view.requested /\ view'.inputWake = view.inputWake
      /\ view'.recoveryWake = view.recoveryWake /\ view'.preparing = view.preparing
      /\ view'.prepareCall = view.prepareCall
  OBVIOUS
<1>t. /\ stack' \in Seq(Frame) /\ Len(stack') = Len(stack) /\ stack' # <<>>
      /\ stack'[Len(stack)].op = "prepare" /\ stack'[Len(stack)].same /\ stack'[Len(stack)].current
      /\ stack'[Len(stack)].at \in {"layout", "content", "paint", "publish"}
      /\ stack'[Len(stack)].at = f.at
      /\ \A i \in 1 .. Len(stack) - 1 : stack'[i] = stack[i]
  <2>1. stack' \in Seq(Frame) /\ Len(stack') = Len(stack) /\ stack' # <<>> /\ stack'[Len(stack)] = f
        /\ \A i \in 1 .. Len(stack) - 1 : stack'[i] = stack[i]
    BY <1>o, PushFacts
  <2> QED BY <2>1
<1>i. \A i \in 1 .. Len(stack) : i = Len(stack) \/ i \in 1 .. Len(stack) - 1
  BY <1>o
<1>e. /\ (\E i \in 1 .. Len(stack) : Replacing(stack[i])) => \E i \in 1 .. Len(stack) : Replacing(stack'[i])
      /\ (\E i \in 1 .. Len(stack) : stack[i].op = "input") => \E i \in 1 .. Len(stack) : stack'[i].op = "input"
      /\ (\E i \in 1 .. Len(stack) : stack[i].op = "interact") => \E i \in 1 .. Len(stack) : stack'[i].op = "interact"
  <2>1. \A i \in 1 .. Len(stack) : /\ stack'[i].op = stack[i].op
                                   /\ Replacing(stack[i]) => Replacing(stack'[i])
    BY <1>o, <1>t, <1>i, <1>g DEF Replacing
  <2> QED BY <2>1
<1>a. attached
  BY <1>g, <1>o DEF EmbeddedInv, Sound, HostKnows
<1>k. \A i \in 1 .. Len(stack) - 1 : ~Preparing(stack[i])
  BY <1>g, <1>o DEF EmbeddedInv, Sound, FlagsKnow, Preparing
<1>m. view.preparing /\ view.visible /\ ~view.zeroSized /\ view.graphics
  <2>1. FrameKnows(view, stack[Len(stack)])
    BY <1>o DEF EmbeddedInv, Sound, FramesKnow
  <2>2. view.preparing
    BY <1>g, <1>o DEF EmbeddedInv, Sound, FlagsKnow, Preparing
  <2> QED BY <2>1, <2>2, <1>g DEF FrameKnows, Live, EmbeddedInv, Sound, FramesFit, AtFits
<1>1. Typed(attached', detaching', replacing', view', visual', stack', owed')
  BY <1>l, <1>o, <1>g, <1>h, <1>t, <1>u, <1>a DEF EmbeddedInv, Sound, Typed, NewView
<1>2. FramesFit(stack')
  <2>1. FramesFit(stack) /\ AtFits(stack'[Len(stack)])
    BY <1>g, <1>t DEF EmbeddedInv, Sound, AtFits
  <2>2. stack[Len(stack)].op # "wake"
    BY <1>g
  <2> QED BY <1>l, <1>o, <1>t, <2>1, <2>2, FitsReplaced
<1>3. HostKnows(attached', detaching', replacing', stack')
  <2>1. \A i \in 1 .. Len(stack) : Replacing(stack'[i]) /\ Live(stack'[i]) => replacing
    BY <1>o, <1>l, <1>i, <1>g, <1>t DEF EmbeddedInv, Sound, HostKnows, Replacing, Live
  <2>2. \A i, j \in 1 .. Len(stack) :
          i < j /\ stack'[j].op \in {"attach", "detach", "replace", "hide"} => ~stack'[i].current
    BY <1>o, <1>l, <1>i, <1>g, <1>t DEF EmbeddedInv, Sound, HostKnows
  <2>3. \A i \in 1 .. Len(stack) : stack'[i].at # "detach"
    BY <1>o, <1>i, <1>g, <1>t DEF EmbeddedInv, Sound, HostKnows
  <2> QED BY <2>3, <1>l, <1>i, <1>g, <1>h, <1>t, <1>e, <1>a, <2>1, <2>2 DEF EmbeddedInv, Sound, HostKnows
<1>4. FlagsKnow(detaching', view', stack')
  <2>1. \A i \in 1 .. Len(stack) : Preparing(stack'[i]) <=> i = Len(stack)
    BY <1>o, <1>i, <1>k, <1>t DEF Preparing
  <2>2. view.prepareCall /\ Len(stack) \in 1 .. Len(stack') /\ stack'[Len(stack)].at # "finish"
    BY <1>o, <1>g, <1>t DEF EmbeddedInv, Sound, FlagsKnow, Preparing
  <2>3. \A i \in 1 .. Len(stack) : stack'[i].op = stack[i].op
    BY <1>o, <1>i, <1>t, <1>g
  <2>4. view'.inputWake => \E i \in 1 .. Len(stack) : stack'[i].op = "input"
    BY <1>u, <1>e DEF EmbeddedInv, Sound, FlagsKnow
  <2>5. \A i \in 1 .. Len(stack) : stack'[i].op = "wake" => view'.requested /\ ~view'.preparing
    BY <1>u, <2>3 DEF EmbeddedInv, Sound, FlagsKnow
  <2> QED BY <1>t, <1>u, <1>m, <2>1, <2>2, <2>4, <2>5 DEF FlagsKnow
<1>5. FramesKnow(view', stack')
  <2>1. FrameKnows(view', stack'[Len(stack)])
    BY <1>t, <1>u, <1>m DEF FrameKnows
  <2>2. ASSUME NEW i \in 1 .. Len(stack) - 1  PROVE FrameKnows(view', stack[i])
    <3>1. FrameKnows(view, stack[i]) /\ AtFits(stack[i])
      BY <1>o DEF EmbeddedInv, Sound, FramesKnow, FramesFit
    <3>2. ~(Replacing(stack[i]) /\ Live(stack[i]))
      BY <1>o, <1>g DEF EmbeddedInv, Sound, HostKnows
    <3> QED BY <3>1, <3>2, <1>k, <1>m, <1>u DEF FrameKnows, Live, AtFits, Preparing, Replacing
  <2> QED BY <1>i, <1>t, <2>1, <2>2 DEF FramesKnow
<1>6. DrawnKnows(view', stack')
  <2>4. ASSUME NEW i \in 1 .. Len(stack), NEW j \in 1 .. Len(stack), "interact" \notin Preparers,
               i < j, stack'[j].op = "prepare"
        PROVE  stack'[i].op # "interact"
    <3>1. stack'[i].op = stack[i].op /\ stack'[j].op = stack[j].op
      BY <1>o, <1>i, <1>t
    <3> QED BY <3>1, <2>4, <1>l DEF EmbeddedInv, Sound, DrawnKnows
  <2> QED BY <1>t, <1>u, <1>m, <2>4 DEF DrawnKnows
<1>7. HiddenKnows(attached', detaching', view', stack')
  BY <1>u, <1>m DEF HiddenKnows
<1>8. WakesKnow(attached', detaching', view', stack', owed')
  <2>1. Announcing(detaching, stack, owed) => Announcing(detaching, stack', owed)
    BY <1>t, <1>e DEF Announcing
  <2>2. ASSUME NEW i \in 1 .. Len(stack)  PROVE FrameOwes(detaching, view', stack', owed, stack'[i])
    BY <1>k, <1>i, <1>t, <1>u DEF FrameOwes, Preparing
  <2> QED BY <2>1, <2>2, <1>h, <1>t, <1>u DEF EmbeddedInv, Sound, WakesKnow
<1>9. StaleKnown(attached', detaching', view', visual', stack', owed', adrift')
  BY <1>u, <1>m DEF StaleKnown
<1> QED BY <1>1, <1>2, <1>3, <1>4, <1>5, <1>6, <1>7, <1>8, <1>9 DEF EmbeddedInv, Sound

LEMMA PrepareSurfaceKeeps ==
  ASSUME EmbeddedInv, PrepareSurface
  PROVE  EmbeddedInv'
<1> DEFINE begun == [view EXCEPT !.coherent = FALSE, !.layout = FALSE, !.dirty = TRUE]
<1>1. /\ stack # <<>> /\ Top.at = "cancel" /\ Top.op = "prepare" /\ PreparationIsCurrent(Top)
      /\ UNCHANGED <<host, adrift>> /\ visual' = visual /\ Top \in Frame
  BY TopFacts DEF PrepareSurface, Resumes, EmbeddedInv, Sound, FramesFit, AtFits
<1>2. view \in View /\ visual \in BOOLEAN
  BY DEF EmbeddedInv, Sound, Typed
<1>u. /\ begun \in View /\ begun.visible = view.visible /\ begun.dirty /\ ~begun.coherent
      /\ begun.arranged = view.arranged /\ begun.zeroSized = view.zeroSized /\ begun.surface = view.surface
      /\ begun.graphics = view.graphics /\ begun.requested = view.requested
      /\ begun.inputWake = view.inputWake /\ begun.recoveryWake = view.recoveryWake
      /\ begun.preparing = view.preparing /\ begun.prepareCall = view.prepareCall
  BY <1>2 DEF View
<1>3. CASE ~view.dirty /\ ~visual /\ view.coherent /\ Finish(Top, view, "S_FALSE")
  BY <1>1, <1>2, <1>3, FinishKeeps DEF Stale
<1>4. CASE Finish(Top, begun, "failure")
  <2> HIDE DEF begun
  <2> QED BY <1>1, <1>2, <1>4, <1>u, FinishKeeps
<1>5. CASE view' = [begun EXCEPT !.surface = TRUE] /\ Continue([Top EXCEPT !.at = "layout"]) /\ UNCHANGED owed
  <2> DEFINE f == [Top EXCEPT !.at = "layout"]
  <2>f. f \in Frame /\ f.op = Top.op /\ f.at = "layout" /\ f.same = Top.same /\ f.current = Top.current
        /\ f.clean = Top.clean /\ f.tree = Top.tree
    BY <1>1 DEF Frame, Stage, CalloutStage
  <2>u. /\ view' \in View /\ view'.visible = view.visible /\ view'.dirty /\ ~view'.coherent
        /\ view'.arranged = view.arranged /\ view'.zeroSized = view.zeroSized /\ view'.surface
        /\ view'.graphics = view.graphics /\ view'.requested = view.requested
        /\ view'.inputWake = view.inputWake /\ view'.recoveryWake = view.recoveryWake
        /\ view'.preparing = view.preparing /\ view'.prepareCall = view.prepareCall
    <3> HIDE DEF begun
    <3> QED BY <1>5, <1>u DEF View
  <2>s. stack' = Append(Below, f) /\ owed' = owed
    BY <1>5 DEF Continue
  <2> HIDE DEF f
  <2> QED BY <1>1, <1>2, <2>f, <2>u, <2>s, PrepareGoesOn DEF PreparationIsCurrent, IsCurrent
<1> QED BY <1>3, <1>4, <1>5 DEF PrepareSurface

LEMMA PrepareContentKeeps ==
  ASSUME EmbeddedInv, PrepareContent
  PROVE  EmbeddedInv'
<1> DEFINE f == [Top EXCEPT !.at = "content", !.clean = TRUE, !.tree = TRUE]
<1>1. /\ stack # <<>> /\ Top.at = "layout" /\ Top.op = "prepare" /\ PreparationIsCurrent(Top)
      /\ UNCHANGED <<host, view, owed>> /\ visual' = FALSE /\ Top \in Frame /\ stack' = Append(Below, f)
  BY TopFacts DEF PrepareContent, Continue, Resumes, EmbeddedInv, Sound, FramesFit, AtFits
<1>2. view \in View
  BY DEF EmbeddedInv, Sound, Typed
<1>3. FrameKnows(view, Top)
  BY <1>1, TopFacts DEF EmbeddedInv, Sound, FramesKnow
<1>f. f \in Frame /\ f.op = Top.op /\ f.at = "content" /\ f.same = Top.same /\ f.current = Top.current /\ f.tree
  BY <1>1 DEF Frame, Stage, CalloutStage
<1>s. Top.same /\ Top.current /\ view.surface
  BY <1>1, <1>3 DEF PreparationIsCurrent, IsCurrent, FrameKnows, Live
<1> HIDE DEF f
<1> QED BY <1>1, <1>2, <1>f, <1>s, PrepareGoesOn

LEMMA PreparePaintKeeps ==
  ASSUME EmbeddedInv, PreparePaint
  PROVE  EmbeddedInv'
<1>1. /\ stack # <<>> /\ Top.at = "content" /\ Top.op = "prepare" /\ PreparationIsCurrent(Top)
      /\ UNCHANGED <<host, adrift>> /\ visual' \in BOOLEAN /\ Top \in Frame
  <2>1. stack # <<>> /\ Top.at = "content" /\ PreparationIsCurrent(Top) /\ UNCHANGED <<host, adrift>>
    BY DEF PreparePaint, Resumes
  <2>2. visual' \in {visual, TRUE} /\ visual \in BOOLEAN
    BY DEF PreparePaint, EmbeddedInv, Sound, Typed
  <2>3. AtFits(Top) /\ Top \in Frame
    BY <2>1, TopFacts DEF EmbeddedInv, Sound, FramesFit
  <2> QED BY <2>1, <2>2, <2>3 DEF AtFits
<1>2. view \in View
  BY DEF EmbeddedInv, Sound, Typed
<1>3. FrameKnows(view, Top)
  BY <1>1, TopFacts DEF EmbeddedInv, Sound, FramesKnow
<1>4. Top.same /\ Top.current /\ view.surface
  BY <1>1, <1>3 DEF PreparationIsCurrent, IsCurrent, FrameKnows, Live
<1>5. CASE Continue([Top EXCEPT !.at = "paint", !.clean = TRUE, !.tree = TRUE]) /\ UNCHANGED <<view, owed>>
  <2> DEFINE f == [Top EXCEPT !.at = "paint", !.clean = TRUE, !.tree = TRUE]
  <2>f. f \in Frame /\ f.op = Top.op /\ f.at = "paint" /\ f.same = Top.same /\ f.current = Top.current /\ f.tree
    BY <1>1 DEF Frame, Stage, CalloutStage
  <2>s. stack' = Append(Below, f) /\ UNCHANGED <<view, owed>>
    BY <1>5 DEF Continue
  <2> HIDE DEF f
  <2> QED BY <1>1, <1>2, <1>4, <2>f, <2>s, PrepareGoesOn
<1>6. CASE Finish([Top EXCEPT !.ask = TRUE], view, "S_FALSE")
  <2> DEFINE f == [Top EXCEPT !.ask = TRUE]
  <2>f. f \in Frame /\ f.op = Top.op /\ f.at = Top.at /\ f.same = Top.same /\ f.current = Top.current
        /\ f.clean = Top.clean /\ f.tree = Top.tree /\ f.ask
    BY <1>1 DEF Frame
  <2>s. Finish(f, view, "S_FALSE")
    BY <1>6
  <2> HIDE DEF f
  <2> QED BY <1>1, <1>2, <1>4, <2>f, <2>s, FinishKeeps
<1>7. CASE Finish(Top, view, "failure")
  BY <1>1, <1>2, <1>4, <1>7, FinishKeeps
<1> QED BY <1>5, <1>6, <1>7 DEF PreparePaint

LEMMA PreparePublishKeeps ==
  ASSUME EmbeddedInv, PreparePublish
  PROVE  EmbeddedInv'
<1>1. /\ stack # <<>> /\ Top.at = "paint" /\ Top.op = "prepare" /\ PreparationIsCurrent(Top) /\ Top.tree
      /\ UNCHANGED host /\ visual' = visual /\ Top \in Frame
  BY TopFacts DEF PreparePublish, Resumes, EmbeddedInv, Sound, FramesFit, AtFits
<1>2. view \in View /\ visual \in BOOLEAN
  BY DEF EmbeddedInv, Sound, Typed
<1>3. FrameKnows(view, Top)
  BY <1>1, TopFacts DEF EmbeddedInv, Sound, FramesKnow
<1>4. Top.same /\ Top.current /\ view.surface
  BY <1>1, <1>3 DEF PreparationIsCurrent, IsCurrent, FrameKnows, Live
<1>5. CASE Finish(Top, view, "failure") /\ UNCHANGED adrift
  BY <1>1, <1>2, <1>4, <1>5, FinishKeeps
<1>6. CASE /\ view' = [view EXCEPT !.arranged = TRUE, !.coherent = TRUE, !.layout = TRUE, !.dirty = ~Top.clean]
           /\ Continue([Top EXCEPT !.at = "publish"]) /\ UNCHANGED owed
  <2> DEFINE f == [Top EXCEPT !.at = "publish"]
  <2>f. f \in Frame /\ f.op = Top.op /\ f.at = "publish" /\ f.same = Top.same /\ f.current = Top.current /\ f.tree = Top.tree
    BY <1>1 DEF Frame, Stage, CalloutStage
  <2>u. /\ view' \in View /\ view'.visible = view.visible /\ view'.dirty = (~Top.clean) /\ view'.coherent
        /\ view'.arranged /\ view'.zeroSized = view.zeroSized /\ view'.surface = view.surface
        /\ view'.graphics = view.graphics /\ view'.requested = view.requested
        /\ view'.inputWake = view.inputWake /\ view'.recoveryWake = view.recoveryWake
        /\ view'.preparing = view.preparing /\ view'.prepareCall = view.prepareCall
    <3> DEFINE c == ~Top.clean
    <3>1. c \in BOOLEAN /\ view' = [view EXCEPT !.arranged = TRUE, !.coherent = TRUE, !.layout = TRUE, !.dirty = c]
      BY <1>6
    <3> HIDE DEF c
    <3>2. view' \in View
      BY <1>2, <3>1 DEF View
    <3>3. /\ view'.visible = view.visible /\ view'.dirty = c /\ view'.coherent
          /\ view'.arranged /\ view'.zeroSized = view.zeroSized /\ view'.surface = view.surface
          /\ view'.graphics = view.graphics /\ view'.requested = view.requested
          /\ view'.inputWake = view.inputWake /\ view'.recoveryWake = view.recoveryWake
          /\ view'.preparing = view.preparing /\ view'.prepareCall = view.prepareCall
      BY <1>2, <3>1 DEF View
    <3> QED BY <3>2, <3>3 DEF c
  <2>s. stack' = Append(Below, f) /\ owed' = owed
    BY <1>6 DEF Continue
  <2> HIDE DEF f
  <2> QED BY <1>1, <1>2, <1>4, <2>f, <2>u, <2>s, PrepareGoesOn
<1> QED BY <1>5, <1>6 DEF PreparePublish

LEMMA PrepareEndsKeeps ==
  ASSUME EmbeddedInv, TreeInv, PrepareEnds
  PROVE  EmbeddedInv'
<1> DEFINE v == [view EXCEPT !.coherent = @ /\ Top.tree, !.dirty = ~Top.clean]
           f == [Top EXCEPT !.ask = v.dirty \/ visual]
<1>1. /\ stack # <<>> /\ Top.at = "publish" /\ Top.op = "prepare" /\ PreparationIsCurrent(Top)
      /\ UNCHANGED <<host, adrift>> /\ visual' = visual /\ Top \in Frame
      /\ Finish(f, v, IF v.coherent THEN "S_OK" ELSE "E_ABORT")
  BY TopFacts DEF PrepareEnds, Resumes, EmbeddedInv, Sound, FramesFit, AtFits
<1>2. view \in View /\ visual \in BOOLEAN
  BY DEF EmbeddedInv, Sound, Typed
<1>3. /\ FrameKnows(view, Top) /\ FrameOwes(detaching, view, stack, owed, Top)
      /\ TreeOwes(view, owed, adrift, Top)
  BY <1>1, TopFacts DEF EmbeddedInv, Sound, FramesKnow, WakesKnow, TreeInv, TreesKnow
<1>4. /\ Top.same /\ Top.current /\ (Top.tree => view.arranged)
      /\ Top.tree => view.coherent \/ Told(detaching, stack, owed)
  BY <1>1, <1>3 DEF PreparationIsCurrent, IsCurrent, FrameKnows, FrameOwes, Preparing, Live
<1>v. /\ v \in View /\ v.visible = view.visible /\ v.dirty = (~Top.clean)
      /\ v.coherent = (view.coherent /\ Top.tree) /\ v.arranged = view.arranged
      /\ v.zeroSized = view.zeroSized /\ v.surface = view.surface /\ v.graphics = view.graphics
      /\ v.requested = view.requested /\ v.inputWake = view.inputWake /\ v.recoveryWake = view.recoveryWake
      /\ v.preparing = view.preparing /\ v.prepareCall = view.prepareCall
  <2> DEFINE c == ~Top.clean
             d == view.coherent /\ Top.tree
  <2>1. c \in BOOLEAN /\ d \in BOOLEAN /\ v = [view EXCEPT !.coherent = d, !.dirty = c]
    BY <1>2 DEF View
  <2> HIDE DEF c, d, v
  <2>2. /\ v \in View /\ v.visible = view.visible /\ v.dirty = c /\ v.coherent = d
        /\ v.arranged = view.arranged /\ v.zeroSized = view.zeroSized /\ v.surface = view.surface
        /\ v.graphics = view.graphics /\ v.requested = view.requested /\ v.inputWake = view.inputWake
        /\ v.recoveryWake = view.recoveryWake /\ v.preparing = view.preparing
        /\ v.prepareCall = view.prepareCall
    BY <1>2, <2>1 DEF View
  <2> QED BY <2>2 DEF c, d
<1> HIDE DEF v
<1>f. f \in Frame /\ f.op = Top.op /\ f.same = Top.same /\ f.current = Top.current
      /\ f.clean = Top.clean /\ f.tree = Top.tree /\ f.ask = (v.dirty \/ visual)
  <2>1. (v.dirty \/ visual) \in BOOLEAN
    OBVIOUS
  <2> QED BY <1>1, <2>1 DEF Frame
<1> HIDE DEF f
<1>5. ASSUME Stale(attached, v, visual)  PROVE adrift \/ Told(detaching, stack, owed) \/ f.ask
  BY <1>5, <1>3, <1>4, <1>v, <1>f, <1>1 DEF Stale, Frame, TreeOwes, Preparing, Told, Announcing
<1>6. v.coherent => view.coherent
  BY <1>v
<1> QED BY <1>1, <1>2, <1>4, <1>5, <1>6, <1>v, <1>f, FinishKeeps

\* Prepare begins.
LEMMA PrepareBegins ==
  ASSUME EmbeddedInv, MayPrepare, attached, view.graphics, ~detaching, ~replacing, ~view.prepareCall,
         NEW f \in Frame, f.op = "prepare", f.same, f.current, f.tree, f.at \in {"release", "invalid", "cancel"},
         stack' = Append(stack, f), owed' = FALSE, UNCHANGED <<host, visual>>, view' \in View,
         /\ view'.visible = view.visible /\ view'.surface = view.surface /\ view'.graphics = view.graphics
         /\ view'.inputWake = view.inputWake /\ view'.recoveryWake = view.recoveryWake
         /\ view'.arranged = view.arranged /\ view'.dirty = view.dirty,
         view'.prepareCall, view'.preparing, ~view'.requested, view'.coherent => view.coherent,
         f.at = "release" => ~view'.visible \/ view'.zeroSized, f.at = "cancel" => view'.visible /\ ~view'.zeroSized
  PROVE  EmbeddedInv'
<1>l. /\ view \in View /\ stack \in Seq(Frame) /\ Len(stack) \in Nat
      /\ \A i \in 1 .. Len(stack) : stack[i] \in Frame
      /\ stack = <<>> <=> Len(stack) = 0
  BY StackFacts DEF EmbeddedInv, Sound, Typed
<1>g. /\ attached /\ ~detaching /\ ~replacing /\ view.graphics
      /\ (stack # <<>> => stack[Len(stack)].at \in CalloutStage)
      /\ \A i \in 1 .. Len(stack) : stack[i].op \in Preparers
  BY <1>l, TopFacts, StackFacts DEF MayPrepare, MayCall
<1>h. UNCHANGED <<attached, detaching, replacing, visual>> /\ owed' = FALSE
  BY DEF host
<1>u. /\ view' \in View /\ view'.prepareCall /\ view'.preparing /\ ~view'.requested
      /\ (view'.coherent => view.coherent)
      /\ view'.visible = view.visible /\ view'.surface = view.surface /\ view'.graphics = view.graphics
      /\ view'.inputWake = view.inputWake /\ view'.recoveryWake = view.recoveryWake
      /\ view'.arranged = view.arranged /\ view'.dirty = view.dirty
  OBVIOUS
<1>t. /\ stack' \in Seq(Frame) /\ Len(stack') = Len(stack) + 1 /\ stack' # <<>>
      /\ stack'[Len(stack) + 1].op = "prepare" /\ stack'[Len(stack) + 1].same /\ stack'[Len(stack) + 1].current
      /\ stack'[Len(stack) + 1].tree /\ stack'[Len(stack) + 1].at \in {"release", "invalid", "cancel"}
      /\ \A i \in 1 .. Len(stack) : stack'[i] = stack[i]
  <2>1. /\ stack' \in Seq(Frame) /\ Len(stack') = Len(stack) + 1 /\ stack' # <<>> /\ stack'[Len(stack) + 1] = f
        /\ \A i \in 1 .. Len(stack) : stack'[i] = stack[i]
    BY <1>l, PushFacts
  <2> QED BY <2>1
<1>i. \A i \in 1 .. Len(stack') : i = Len(stack) + 1 \/ i \in 1 .. Len(stack)
  BY <1>l, <1>t
<1>k. \A i \in 1 .. Len(stack) : ~Preparing(stack[i])
  BY DEF EmbeddedInv, Sound, FlagsKnow
<1>c. FrameKnows(view', stack'[Len(stack) + 1])
  <2>1. stack'[Len(stack) + 1] = f
    BY <1>l, PushFacts
  <2> QED BY <2>1, <1>u, <1>g DEF FrameKnows, Live
<1>1. Typed(attached', detaching', replacing', view', visual', stack', owed')
  BY <1>l, <1>g, <1>h, <1>t, <1>u DEF EmbeddedInv, Sound, Typed, NewView
<1>2. FramesFit(stack')
  BY <1>l, <1>g, <1>t DEF EmbeddedInv, Sound, FramesFit, AtFits, CalloutStage
<1>3. HostKnows(attached', detaching', replacing', stack')
  BY <1>l, <1>g, <1>h, <1>t DEF EmbeddedInv, Sound, HostKnows, Replacing, Live
<1>4. FlagsKnow(detaching', view', stack')
  <2>1. \A i \in 1 .. Len(stack') : Preparing(stack'[i]) <=> i = Len(stack) + 1
    BY <1>l, <1>i, <1>k, <1>t DEF Preparing
  <2>2. \A i \in 1 .. Len(stack') : stack'[i].op # "wake"
    BY <1>l, <1>i, <1>t, <1>g DEF EmbeddedInv, Sound, FramesFit, AtFits, CalloutStage
  <2>3. view'.inputWake => \E i \in 1 .. Len(stack') : stack'[i].op = "input"
    BY <1>l, <1>t, <1>u DEF EmbeddedInv, Sound, FlagsKnow
  <2> QED BY <1>l, <1>t, <1>u, <2>1, <2>2, <2>3 DEF FlagsKnow
<1>5. FramesKnow(view', stack')
  <2>1. ASSUME NEW i \in 1 .. Len(stack)  PROVE FrameKnows(view', stack[i])
    <3>1. FrameKnows(view, stack[i]) /\ AtFits(stack[i])
      BY DEF EmbeddedInv, Sound, FramesKnow, FramesFit
    <3>2. ~(Replacing(stack[i]) /\ Live(stack[i]))
      BY <1>g DEF EmbeddedInv, Sound, HostKnows
    <3> QED BY <3>1, <3>2, <1>k, <1>u DEF FrameKnows, Live, AtFits, Preparing, Replacing
  <2> QED BY <1>i, <1>t, <1>c, <2>1 DEF FramesKnow
<1>6. DrawnKnows(view', stack')
  <2>1. ASSUME "interact" \notin Preparers, NEW i \in 1 .. Len(stack'), Live(stack'[i])
        PROVE  stack'[i].at # "acknowledge"
    BY <2>1, <1>l, <1>i, <1>g, <1>t DEF EmbeddedInv, Sound, FramesFit, AtFits
  <2>2. ASSUME "interact" \notin Preparers, NEW i \in 1 .. Len(stack'), NEW j \in 1 .. Len(stack'), i < j
        PROVE  stack'[i].op # "interact"
    BY <2>2, <1>l, <1>i, <1>g, <1>t
  <2> QED BY <1>u, <2>1, <2>2 DEF EmbeddedInv, Sound, DrawnKnows
<1>7. HiddenKnows(attached', detaching', view', stack')
  BY <1>l, <1>g, <1>h, <1>t, <1>u DEF EmbeddedInv, Sound, HiddenKnows, Live
<1>8. WakesKnow(attached', detaching', view', stack', owed')
  <2>1. ASSUME NEW i \in 1 .. Len(stack')  PROVE FrameOwes(detaching, view', stack', FALSE, stack'[i])
    BY <1>k, <1>i, <1>t DEF FrameOwes, Preparing
  <2> QED BY <2>1, <1>h, <1>u DEF EmbeddedInv, Sound, WakesKnow
<1>9. StaleKnown(attached', detaching', view', visual', stack', owed', adrift')
  BY <1>u DEF StaleKnown
<1> QED BY <1>1, <1>2, <1>3, <1>4, <1>5, <1>6, <1>7, <1>8, <1>9 DEF EmbeddedInv, Sound

LEMMA PrepareKeeps ==
  ASSUME EmbeddedInv, NEW zero \in BOOLEAN, NEW valid \in BOOLEAN, NEW resized \in BOOLEAN,
         Prepare(zero, valid, resized)
  PROVE  EmbeddedInv'
<1> DEFINE f(at) == [NewFrame("prepare", at) EXCEPT !.resized = resized]
           begun == [view EXCEPT !.prepareCall = TRUE, !.preparing = TRUE, !.requested = FALSE, !.zeroSized = zero]
<1>1. /\ MayPrepare /\ attached /\ view.graphics /\ ~detaching /\ ~replacing /\ ~view.prepareCall
      /\ owed' = FALSE /\ UNCHANGED <<host, visual>>
  BY DEF Prepare
<1>2. view \in View
  BY DEF EmbeddedInv, Sound, Typed
<1>f. \A at \in {"release", "invalid", "cancel"} :
        f(at) \in Frame /\ f(at).op = "prepare" /\ f(at).at = at /\ f(at).same /\ f(at).current /\ f(at).tree
  BY DEF Frame, Op, Stage, CalloutStage, NewFrame
<1>3. CASE (~view.visible \/ zero) /\ view' = begun /\ stack' = Append(stack, f("release"))
  <2>1. /\ view' \in View /\ view'.visible = view.visible /\ view'.dirty = view.dirty
      /\ view'.coherent = view.coherent /\ view'.arranged = view.arranged /\ view'.zeroSized = zero
      /\ view'.surface = view.surface /\ view'.graphics = view.graphics /\ ~view'.requested
      /\ view'.inputWake = view.inputWake /\ view'.recoveryWake = view.recoveryWake /\ view'.preparing
      /\ view'.prepareCall
    BY <1>2, <1>3 DEF View
  <2> HIDE DEF f, begun
  <2> QED BY <1>1, <1>3, <1>f, <2>1, PrepareBegins
<1>4. CASE view.visible /\ ~zero /\ view' = [begun EXCEPT !.coherent = FALSE, !.layout = FALSE] /\ stack' = Append(stack, f("invalid"))
  <2>1. view' = [view EXCEPT !.prepareCall = TRUE, !.preparing = TRUE, !.requested = FALSE, !.zeroSized = zero,
                             !.coherent = FALSE, !.layout = FALSE]
    BY <1>2, <1>4 DEF View
  <2>2. view' \in View
    <3>1. begun \in View
      BY <1>2 DEF View
    <3> HIDE DEF begun
    <3> QED BY <1>4, <3>1 DEF View
  <2>3. /\ view'.visible = view.visible /\ view'.dirty = view.dirty /\ ~view'.coherent
        /\ view'.arranged = view.arranged /\ view'.zeroSized = zero /\ view'.surface = view.surface
        /\ view'.graphics = view.graphics /\ ~view'.requested /\ view'.inputWake = view.inputWake
        /\ view'.recoveryWake = view.recoveryWake /\ view'.preparing /\ view'.prepareCall
    BY <1>2, <2>1 DEF View
  <2> HIDE DEF f, begun
  <2> QED BY <1>1, <1>4, <1>f, <2>2, <2>3, PrepareBegins
<1>5. CASE view.visible /\ ~zero /\ view' = begun /\ stack' = Append(stack, f("cancel"))
  <2>1. /\ view' \in View /\ view'.visible = view.visible /\ view'.dirty = view.dirty
      /\ view'.coherent = view.coherent /\ view'.arranged = view.arranged /\ view'.zeroSized = zero
      /\ view'.surface = view.surface /\ view'.graphics = view.graphics /\ ~view'.requested
      /\ view'.inputWake = view.inputWake /\ view'.recoveryWake = view.recoveryWake /\ view'.preparing
      /\ view'.prepareCall
    BY <1>2, <1>5 DEF View
  <2> HIDE DEF f, begun
  <2> QED BY <1>1, <1>5, <1>f, <2>1, PrepareBegins
<1> QED BY <1>3, <1>4, <1>5 DEF Prepare

-----------------------------------------------------------------------------
(* PrepareInteraction and input.                                           *)

LEMMA PrepareInteractionKeeps ==
  ASSUME EmbeddedInv, NEW matches \in BOOLEAN, PrepareInteraction(matches)
  PROVE  EmbeddedInv'
<1> DEFINE accepted == view.visible /\ ~view.zeroSized /\ view.layout /\ view.surface /\ matches
<1>l. /\ view \in View /\ stack \in Seq(Frame) /\ Len(stack) \in Nat
      /\ \A i \in 1 .. Len(stack) : stack[i] \in Frame
      /\ stack = <<>> <=> Len(stack) = 0
  BY StackFacts DEF EmbeddedInv, Sound, Typed
<1>g. /\ attached /\ ~detaching /\ ~replacing /\ view.graphics
      /\ (stack # <<>> => stack[Len(stack)].at \in CalloutStage)
  BY <1>l, TopFacts DEF PrepareInteraction, MayPrepare, MayCall
<1>h. UNCHANGED <<attached, detaching, replacing, visual, owed>>
  BY DEF PrepareInteraction, host
<1>t. /\ stack' \in Seq(Frame) /\ Len(stack') = Len(stack) + 1 /\ stack' # <<>>
      /\ stack'[Len(stack) + 1].op = "interact" /\ stack'[Len(stack) + 1].same /\ stack'[Len(stack) + 1].current
      /\ stack'[Len(stack) + 1].tree /\ stack'[Len(stack) + 1].at \in {"acknowledge", "invalid"}
      /\ (stack'[Len(stack) + 1].at = "acknowledge" => view.surface)
      /\ \A i \in 1 .. Len(stack) : stack'[i] = stack[i]
  <2> DEFINE at == IF accepted THEN "acknowledge" ELSE "invalid"
             f == NewFrame("interact", at)
  <2>1. at \in {"acknowledge", "invalid"} /\ (at = "acknowledge" => accepted) /\ stack' = Append(stack, NewFrame("interact", at))
    BY DEF PrepareInteraction
  <2> HIDE DEF at, accepted
  <2>2. f \in Frame /\ f.op = "interact" /\ f.at = at /\ f.same /\ f.current /\ f.tree
    BY <2>1 DEF Frame, Op, Stage, CalloutStage, NewFrame
  <2> HIDE DEF f
  <2>3. stack' = Append(stack, f)
    BY <2>1 DEF f
  <2>4. /\ stack' \in Seq(Frame) /\ Len(stack') = Len(stack) + 1 /\ stack' # <<>> /\ stack'[Len(stack) + 1] = f
        /\ \A i \in 1 .. Len(stack) : stack'[i] = stack[i]
    BY <1>l, <2>2, <2>3, PushFacts
  <2>5. accepted => view.surface
    BY DEF accepted
  <2> QED BY <2>1, <2>2, <2>4, <2>5
<1>u. /\ view' \in View /\ (view'.coherent => view.coherent)
      /\ view'.visible = view.visible /\ view'.dirty = view.dirty /\ view'.zeroSized = view.zeroSized
      /\ view'.surface = view.surface /\ view'.graphics = view.graphics /\ view'.requested = view.requested
      /\ view'.inputWake = view.inputWake /\ view'.recoveryWake = view.recoveryWake
      /\ view'.arranged = view.arranged /\ view'.preparing = view.preparing
      /\ view'.prepareCall = view.prepareCall
  <2>1. view' = view \/ view' = [view EXCEPT !.coherent = FALSE, !.layout = FALSE]
    BY DEF PrepareInteraction
  <2> QED BY <2>1, <1>l DEF View
<1> HIDE DEF accepted
<1>1. Typed(attached', detaching', replacing', view', visual', stack', owed')
  BY <1>l, <1>g, <1>h, <1>t, <1>u DEF EmbeddedInv, Sound, Typed, NewView
<1>2. FramesFit(stack')
  <2>1. FramesFit(stack) /\ AtFits(stack'[Len(stack) + 1])
    BY <1>t DEF EmbeddedInv, Sound, AtFits
  <2> QED BY <1>l, <1>g, <1>t, <2>1, FitsPushed
<1>3. HostKnows(attached', detaching', replacing', stack')
  BY <1>l, <1>g, <1>h, <1>t DEF EmbeddedInv, Sound, HostKnows, Replacing, Live
<1>4. FlagsKnow(detaching', view', stack')
  <2>1. \A i \in 1 .. Len(stack') : i = Len(stack) + 1 \/ i \in 1 .. Len(stack)
    BY <1>l, <1>t
  <2>2. ~Preparing(stack'[Len(stack) + 1]) /\ stack'[Len(stack) + 1].op # "wake"
    BY <1>t DEF Preparing
  <2>3. (\E i \in 1 .. Len(stack) : Preparing(stack[i])) => \E i \in 1 .. Len(stack') : Preparing(stack'[i])
    BY <1>l, <1>t
  <2> QED BY <1>l, <1>h, <1>t, <1>u, <2>1, <2>2, <2>3 DEF EmbeddedInv, Sound, FlagsKnow
<1>5. FramesKnow(view', stack')
  BY <1>l, <1>g, <1>t, <1>u DEF EmbeddedInv, Sound, FramesKnow, FrameKnows, Live
<1>6. DrawnKnows(view', stack')
  BY <1>l, <1>g, <1>t, <1>u DEF EmbeddedInv, Sound, DrawnKnows, Live
<1>7. HiddenKnows(attached', detaching', view', stack')
  BY <1>l, <1>g, <1>h, <1>t, <1>u DEF EmbeddedInv, Sound, HiddenKnows, Live
<1>8. WakesKnow(attached', detaching', view', stack', owed')
  <2>1. Told(detaching, stack', owed)
    BY <1>l, <1>t DEF Told
  <2>2. \A i \in 1 .. Len(stack') : i = Len(stack) + 1 \/ i \in 1 .. Len(stack)
    BY <1>l, <1>t
  <2>3. Announcing(detaching, stack, owed) => Announcing(detaching, stack', owed)
    BY <1>l, <1>t DEF Announcing
  <2>4. ASSUME NEW i \in 1 .. Len(stack')  PROVE FrameOwes(detaching, view', stack', owed, stack'[i])
    <3>1. CASE i = Len(stack) + 1
      BY <3>1, <1>t DEF FrameOwes, Preparing
    <3>2. CASE i \in 1 .. Len(stack)
      <4>1. FrameOwes(detaching, view, stack, owed, stack[i])
        BY <3>2 DEF EmbeddedInv, Sound, WakesKnow
      <4> QED BY <3>2, <4>1, <2>1, <2>3, <1>t, <1>u DEF FrameOwes
    <3> QED BY <2>2, <3>1, <3>2
  <2> QED BY <2>3, <2>4, <1>h, <1>u DEF EmbeddedInv, Sound, WakesKnow
<1>9. StaleKnown(attached', detaching', view', visual', stack', owed', adrift')
  BY <1>l, <1>t, <1>h DEF StaleKnown, Told
<1> QED BY <1>1, <1>2, <1>3, <1>4, <1>5, <1>6, <1>7, <1>8, <1>9 DEF EmbeddedInv, Sound

\* Input on geometry that moved makes the view incoherent, and it was stale.
LEMMA IncoherentSound ==
  ASSUME EmbeddedInv, TreeInv, attached, ~view.arranged
  PROVE  /\ Sound(attached, detaching, replacing, [view EXCEPT !.coherent = FALSE], visual, stack, owed)
         /\ StaleKnown(attached, detaching, [view EXCEPT !.coherent = FALSE], visual, stack, owed, adrift)
<1> DEFINE u == [view EXCEPT !.coherent = FALSE]
<1>l. /\ view \in View /\ stack \in Seq(Frame) /\ Len(stack) \in Nat
      /\ \A i \in 1 .. Len(stack) : stack[i] \in Frame
      /\ stack = <<>> <=> Len(stack) = 0
  BY StackFacts DEF EmbeddedInv, Sound, Typed
<1>a. attached /\ ~view.arranged
  OBVIOUS
<1>u. /\ u \in View /\ u.visible = view.visible /\ u.dirty = view.dirty /\ ~u.coherent
      /\ u.arranged = view.arranged /\ u.zeroSized = view.zeroSized /\ u.surface = view.surface
      /\ u.graphics = view.graphics /\ u.requested = view.requested /\ u.inputWake = view.inputWake
      /\ u.recoveryWake = view.recoveryWake /\ u.preparing = view.preparing
      /\ u.prepareCall = view.prepareCall
  BY <1>l DEF View
<1> HIDE DEF u
<1>1. Typed(attached, detaching, replacing, u, visual, stack, owed)
  BY <1>l, <1>u, <1>a DEF EmbeddedInv, Sound, Typed, NewView
<1>2. FramesFit(stack)
  BY <1>l DEF EmbeddedInv, Sound, FramesFit, AtFits, CalloutStage
<1>3. HostKnows(attached, detaching, replacing, stack)
  BY <1>l DEF EmbeddedInv, Sound, HostKnows, Replacing, Live
<1>4. FlagsKnow(detaching, u, stack)
  BY <1>l, <1>u DEF EmbeddedInv, Sound, FlagsKnow, Preparing
<1>5. FramesKnow(u, stack)
  BY <1>l, <1>u DEF EmbeddedInv, Sound, FramesKnow, FrameKnows, Live
<1>6. DrawnKnows(u, stack)
  BY <1>l, <1>u DEF EmbeddedInv, Sound, DrawnKnows, Live
<1>7. HiddenKnows(attached, detaching, u, stack)
  BY <1>l, <1>u DEF EmbeddedInv, Sound, HiddenKnows, Live
<1>8. WakesKnow(attached, detaching, u, stack, owed)
  <2>1. ASSUME NEW i \in 1 .. Len(stack)  PROVE FrameOwes(detaching, u, stack, owed, stack[i])
    <3>1. FrameOwes(detaching, view, stack, owed, stack[i]) /\ FrameKnows(view, stack[i])
      BY DEF EmbeddedInv, Sound, WakesKnow, FramesKnow
    <3> QED BY <3>1, <1>a, <1>u DEF FrameOwes, FrameKnows, Live, Preparing
  <2> QED BY <2>1, <1>u DEF EmbeddedInv, Sound, WakesKnow
<1>9. StaleKnown(attached, detaching, u, visual, stack, owed, adrift)
  <2>1. view.dirty \/ adrift
    BY <1>a DEF TreeInv, TreesKnow
  <2> QED BY <2>1, <1>u DEF EmbeddedInv, StaleKnown, Stale
<1> QED BY <1>1, <1>2, <1>3, <1>4, <1>5, <1>6, <1>7, <1>8, <1>9 DEF Sound, u

LEMMA InputRechecksKeeps ==
  ASSUME EmbeddedInv, TreeInv, InputRechecks
  PROVE  EmbeddedInv'
BY IncoherentSound DEF InputRechecks, host, EmbeddedInv

\* An input entry begins.
LEMMA InputSound ==
  ASSUME NEW v, Sound(attached, detaching, replacing, v, visual, stack, owed),
         StaleKnown(attached, detaching, v, visual, stack, owed, adrift), attached, ~detaching, MayCall
  PROVE  /\ Sound(attached, detaching, replacing, v, visual, Append(stack, NewFrame("input", "input")), owed)
         /\ StaleKnown(attached, detaching, v, visual, Append(stack, NewFrame("input", "input")), owed, adrift)
<1> DEFINE t == Append(stack, NewFrame("input", "input"))
<1>z. /\ stack \in Seq(Frame) /\ Len(stack) \in Nat /\ attached /\ ~detaching
      /\ (stack # <<>> => stack[Len(stack)].at \in CalloutStage) /\ (stack = <<>> <=> Len(stack) = 0)
  <2>1. stack \in Seq(Frame)
    BY DEF Sound, Typed
  <2> QED BY <2>1, StackFacts, FrontFacts DEF MayCall, Top
<1>t. /\ t \in Seq(Frame) /\ Len(t) = Len(stack) + 1 /\ t # <<>>
      /\ t[Len(stack) + 1].op = "input" /\ t[Len(stack) + 1].at = "input" /\ t[Len(stack) + 1].same
      /\ t[Len(stack) + 1].current /\ t[Len(stack) + 1].tree
      /\ \A i \in 1 .. Len(stack) : t[i] = stack[i]
  <2> DEFINE f == NewFrame("input", "input")
  <2>1. f \in Frame /\ f.op = "input" /\ f.at = "input" /\ f.same /\ f.current /\ f.tree
    BY DEF Frame, Op, Stage, CalloutStage, NewFrame
  <2> HIDE DEF f
  <2>2. t = Append(stack, f)
    BY DEF f
  <2> HIDE DEF t
  <2> QED BY <1>z, <2>1, <2>2, PushFacts
<1> HIDE DEF t
<1>1. Typed(attached, detaching, replacing, v, visual, t, owed)
  BY <1>z, <1>t DEF Sound, Typed, NewView
<1>2. FramesFit(t)
  BY <1>z, <1>t DEF Sound, FramesFit, AtFits, CalloutStage
<1>3. HostKnows(attached, detaching, replacing, t)
  BY <1>z, <1>t DEF Sound, HostKnows, Replacing, Live
<1>4. FlagsKnow(detaching, v, t)
  <2>1. \A i \in 1 .. Len(t) : i = Len(stack) + 1 \/ i \in 1 .. Len(stack)
    BY <1>z, <1>t
  <2>2. ~Preparing(t[Len(stack) + 1]) /\ t[Len(stack) + 1].op # "wake"
    BY <1>t DEF Preparing
  <2>3. (\E i \in 1 .. Len(stack) : Preparing(stack[i])) => \E i \in 1 .. Len(t) : Preparing(t[i])
    BY <1>z, <1>t
  <2> QED BY <1>z, <1>t, <2>1, <2>2, <2>3 DEF Sound, FlagsKnow
<1>5. FramesKnow(v, t)
  BY <1>z, <1>t DEF Sound, FramesKnow, FrameKnows, Live
<1>6. DrawnKnows(v, t)
  BY <1>z, <1>t DEF Sound, DrawnKnows, Live
<1>7. HiddenKnows(attached, detaching, v, t)
  BY <1>z, <1>t DEF Sound, HiddenKnows, Live
<1>8. WakesKnow(attached, detaching, v, t, owed)
  BY <1>z, <1>t DEF Sound, WakesKnow, FrameOwes, Announcing, Told, Preparing, Replacing
<1>9. StaleKnown(attached, detaching, v, visual, t, owed, adrift)
  BY <1>z, <1>t DEF Sound, StaleKnown, Stale, Announcing, Told, Replacing
<1> QED BY <1>1, <1>2, <1>3, <1>4, <1>5, <1>6, <1>7, <1>8, <1>9 DEF Sound, t

LEMMA InputKeeps ==
  ASSUME EmbeddedInv, TreeInv, Input
  PROVE  EmbeddedInv'
<1>1. /\ MayCall /\ attached /\ ~detaching /\ UNCHANGED <<attached, detaching, replacing, visual, owed, adrift>>
      /\ stack' = Append(stack, NewFrame("input", "input"))
      /\ view' = [view EXCEPT !.coherent = @ /\ view.arranged]
  BY DEF Input, host
<1>2. view \in View
  BY DEF EmbeddedInv, Sound, Typed
<1>3. CASE view.arranged
  <2>1. view' = view
    BY <1>1, <1>2, <1>3 DEF View
  <2> QED BY <1>1, <2>1, InputSound DEF EmbeddedInv
<1>4. CASE ~view.arranged
  <2>1. view' = [view EXCEPT !.coherent = FALSE]
    BY <1>1, <1>4
  <2> QED BY <1>1, <1>4, <2>1, IncoherentSound, InputSound DEF EmbeddedInv
<1> QED BY <1>3, <1>4

LEMMA InputReturnsKeeps ==
  ASSUME EmbeddedInv, InputReturns
  PROVE  EmbeddedInv'
<1>1. /\ stack # <<>> /\ Top.at = "input" /\ Top.op = "input" /\ UNCHANGED <<host, adrift>> /\ visual' = visual
  BY TopFacts DEF InputReturns, Resumes, EmbeddedInv, Sound, FramesFit, AtFits
<1>b. owed \in BOOLEAN /\ replacing \in BOOLEAN /\ view \in View /\ (~attached => view = NewView)
  BY DEF EmbeddedInv, Sound, Typed
<1>3. CASE attached /\ view.inputWake /\ ~InputActive(Below)
  <2> DEFINE u == [view EXCEPT !.inputWake = FALSE]
  <2>l. /\ Len(stack) \in Nat \ {0} /\ Top = stack[Len(stack)] /\ Len(Below) = Len(stack) - 1
        /\ stack[Len(stack)].op = "input"
        /\ Below \in Seq(Frame) /\ \A i \in 1 .. Len(Below) : Below[i] = stack[i]
    BY <1>1, TopFacts
  <2>s. /\ Typed(attached, detaching, replacing, view, visual, Below, owed) /\ FramesFit(Below)
        /\ HostKnows(attached, detaching, replacing, Below) /\ FramesKnow(view, Below)
        /\ DrawnKnows(view, Below)
        /\ HiddenKnows(attached, detaching, view, Below) /\ WakesKnow(attached, detaching, view, Below, owed)
    BY <1>1, <1>b, PopRest DEF Replacing
  <2>u. /\ u \in View /\ u.visible = view.visible /\ u.dirty = view.dirty /\ u.coherent = view.coherent
        /\ u.arranged = view.arranged /\ u.zeroSized = view.zeroSized /\ u.surface = view.surface
        /\ u.graphics = view.graphics /\ u.requested = view.requested /\ ~u.inputWake
        /\ u.recoveryWake = view.recoveryWake /\ u.preparing = view.preparing
        /\ u.prepareCall = view.prepareCall
    BY <1>b DEF View
  <2>v. RequestPreparation(u, Below)
    BY <1>3 DEF InputReturns
  <2> HIDE DEF u
  <2>r. Sound(attached, detaching, replacing, u, visual, Below, owed)
    <3>1. Typed(attached, detaching, replacing, u, visual, Below, owed)
      BY <2>l, <2>s, <2>u, <1>3 DEF Typed, NewView
    <3>2. FramesFit(Below)
      BY <2>l, <2>s, <2>u DEF FramesFit, AtFits, CalloutStage
    <3>3. HostKnows(attached, detaching, replacing, Below)
      BY <2>l, <2>s, <2>u DEF HostKnows, Replacing, Live
    <3>4. FlagsKnow(detaching, u, Below)
      <4>1. (\E i \in 1 .. Len(stack) : Preparing(stack[i])) => \E i \in 1 .. Len(Below) : Preparing(Below[i])
        BY <2>l DEF Preparing
      <4> QED BY <2>l, <2>u, <4>1 DEF EmbeddedInv, Sound, FlagsKnow
    <3>5. FramesKnow(u, Below)
      BY <2>l, <2>s, <2>u DEF FramesKnow, FrameKnows, Live
    <3>6. DrawnKnows(u, Below)
      BY <2>l, <2>s, <2>u DEF DrawnKnows, Live
    <3>7. HiddenKnows(attached, detaching, u, Below)
      BY <2>l, <2>s, <2>u DEF HiddenKnows, Live
    <3>8. WakesKnow(attached, detaching, u, Below, owed)
      BY <2>l, <2>s, <2>u DEF WakesKnow, FrameOwes, Announcing, Told, Preparing, Replacing
    <3> QED BY <3>1, <3>2, <3>3, <3>4, <3>5, <3>6, <3>7, <3>8 DEF Sound
  <2> QED BY <1>1, <1>3, <2>r, <2>v, RequestKeeps
<1>4. CASE ~(attached /\ view.inputWake /\ ~InputActive(Below))
  <2>1. stack' = Below /\ UNCHANGED <<view, owed>>
    BY <1>4 DEF InputReturns, Return
  <2>2. ~view.inputWake \/ InputActive(Below)
    BY <1>4, <1>b DEF NewView
  <2>3. Sound(attached, detaching, replacing, view, visual, Below, owed)
    BY <1>1, <1>b, <2>2, PopSound DEF Preparing, Replacing
  <2>4. /\ (\E i \in 1 .. Len(stack) : Replacing(stack[i])) => \E i \in 1 .. Len(Below) : Replacing(Below[i])
        /\ (\E i \in 1 .. Len(stack) : stack[i].op = "interact") => \E i \in 1 .. Len(Below) : Below[i].op = "interact"
    BY <1>1, TopFacts DEF Replacing
  <2>5. StaleKnown(attached, detaching, view, visual, Below, owed, adrift)
    BY <2>4 DEF EmbeddedInv, StaleKnown, Told, Announcing
  <2> QED BY <1>1, <2>1, <2>3, <2>5 DEF EmbeddedInv, host
<1> QED BY <1>3, <1>4

LEMMA InteractionAcknowledgedKeeps ==
  ASSUME EmbeddedInv, InteractionAcknowledged
  PROVE  EmbeddedInv'
<1>1. /\ stack # <<>> /\ Top.at = "acknowledge" /\ Top.op = "interact" /\ stack' = Below /\ owed' = TRUE
      /\ UNCHANGED <<attached, detaching, replacing, visual>>
  BY TopFacts DEF InteractionAcknowledged, Resumes, Return, host, EmbeddedInv, Sound, FramesFit, AtFits
<1>s. Sound(attached, detaching, replacing, view, visual, Below, TRUE)
  BY <1>1, PopSound DEF EmbeddedInv, Sound, Typed, Preparing, Replacing
<1>l. Len(Below) \in Nat /\ view \in View
  BY <1>1, TopFacts DEF EmbeddedInv, Sound, Typed
<1>2. CASE view' = view
  BY <1>1, <1>2, <1>s DEF EmbeddedInv, StaleKnown, Told, Announcing
<1>3. CASE /\ PreparationIsCurrent(Top)
           /\ \/ view' = [view EXCEPT !.coherent = FALSE]
              \/ view' = [view EXCEPT !.arranged = TRUE, !.coherent = TRUE, !.dirty = TRUE]
  <2>c. attached /\ Live(Top)
    <3>1. Len(stack) \in 1 .. Len(stack) /\ Top = stack[Len(stack)]
      BY <1>1, TopFacts
    <3>2. Top.same /\ Top.current
      BY <1>3 DEF PreparationIsCurrent, IsCurrent
    <3> QED BY <3>1, <3>2 DEF Live, EmbeddedInv, Sound, HostKnows
  <2>d. "interact" \notin Preparers => view.surface /\ view.graphics
    <3>1. FrameKnows(view, Top)
      BY <1>1, TopFacts DEF EmbeddedInv, Sound, FramesKnow
    <3>2. "interact" \notin Preparers => view.surface
      BY <1>1, <2>c, TopFacts DEF EmbeddedInv, Sound, DrawnKnows
    <3> QED BY <1>1, <2>c, <3>1, <3>2 DEF FrameKnows
  <2>u. /\ view' \in View /\ (view.arranged => view'.arranged)
        /\ view'.visible = view.visible /\ view'.zeroSized = view.zeroSized /\ view'.surface = view.surface
        /\ view'.graphics = view.graphics /\ view'.requested = view.requested
        /\ view'.inputWake = view.inputWake /\ view'.recoveryWake = view.recoveryWake
        /\ view'.preparing = view.preparing /\ view'.prepareCall = view.prepareCall
    <3>1. CASE view' = [view EXCEPT !.coherent = FALSE]
      BY <1>l, <3>1 DEF View
    <3>2. CASE view' = [view EXCEPT !.arranged = TRUE, !.coherent = TRUE, !.dirty = TRUE]
      BY <1>l, <3>2 DEF View
    <3> QED BY <1>3, <3>1, <3>2
  <2>1. Typed(attached, detaching, replacing, view', visual, Below, TRUE)
    BY <1>l, <1>s, <2>u, <2>c DEF Sound, Typed, NewView
  <2>2. FramesFit(Below)
    BY <1>l, <1>s DEF Sound, FramesFit, AtFits, CalloutStage
  <2>3. HostKnows(attached, detaching, replacing, Below)
    BY <1>l, <1>s DEF Sound, HostKnows, Replacing, Live
  <2>4. FlagsKnow(detaching, view', Below)
    BY <1>l, <1>s, <2>u DEF Sound, FlagsKnow, Preparing
  <2>5. FramesKnow(view', Below)
    BY <1>l, <1>s, <2>u DEF Sound, FramesKnow, FrameKnows, Live
  <2>6. DrawnKnows(view', Below)
    BY <1>l, <1>s, <2>u, <2>d DEF Sound, DrawnKnows, Live
  <2>7. HiddenKnows(attached, detaching, view', Below)
    BY <1>l, <1>s, <2>u DEF Sound, HiddenKnows, Live
  <2>8. WakesKnow(attached, detaching, view', Below, TRUE)
    BY <1>l, <1>s, <2>u DEF Sound, WakesKnow, FrameOwes, Announcing, Told, Preparing, Replacing
  <2> QED BY <1>1, <2>1, <2>2, <2>3, <2>4, <2>5, <2>6, <2>7, <2>8 DEF EmbeddedInv, Sound, StaleKnown, Told, Announcing
<1> QED BY <1>2, <1>3 DEF InteractionAcknowledged

-----------------------------------------------------------------------------
(* The revision of the tree.  That TreeInv is kept is proved from what the *)
(* steps do to the view (TreesView) and to the stack (TreesPop, TreesPush, *)
(* TreesFrames).                                                           *)

LEMMA TreesView ==
  ASSUME NEW v, NEW s, NEW w, NEW z, NEW u, NEW w2, NEW z2, TreesKnow(v, s, w, z),
         v.arranged => u.arranged, ~u.arranged => u.dirty \/ z2, w => w2, z => z2
  PROVE  TreesKnow(u, s, w2, z2)
BY DEF TreesKnow, TreeOwes

LEMMA TreesNone ==
  ASSUME NEW v, NEW s, NEW w, NEW z, ~v.arranged => v.dirty \/ z, \A i \in 1 .. Len(s) : ~Preparing(s[i])
  PROVE  TreesKnow(v, s, w, z)
BY DEF TreesKnow, TreeOwes

LEMMA TreesPop ==
  ASSUME EmbeddedInv, stack # <<>>, NEW v, NEW w, NEW z, TreesKnow(v, stack, w, z)
  PROVE  TreesKnow(v, Below, w, z) /\ TreeOwes(v, w, z, Top)
BY TopFacts DEF TreesKnow

LEMMA TreesPush ==
  ASSUME NEW v, NEW s \in Seq(Frame), NEW w, NEW z, NEW f \in Frame, TreesKnow(v, s, w, z), TreeOwes(v, w, z, f)
  PROVE  TreesKnow(v, Append(s, f), w, z)
<1>1. \A i \in 1 .. Len(Append(s, f)) : i \in 1 .. Len(s) \/ i = Len(s) + 1
  BY PushFacts, StackFacts
<1> QED BY <1>1, PushFacts DEF TreesKnow

\* Retired frames owe nothing, and interrupted ones what they owed.
LEMMA TreesFrames ==
  ASSUME NEW v, NEW s \in Seq(Frame), NEW w, NEW z, TreesKnow(v, s, w, z)
  PROVE  TreesKnow(v, NewAttachment(s), w, z) /\ TreesKnow(v, NewOperation(s), w, z)
<1>1. TreesKnow(v, NewAttachment(s), w, z)
  BY NewAttachmentFacts DEF TreesKnow, TreeOwes, Preparing
<1>2. \A i \in 1 .. Len(s) : TreeOwes(v, w, z, s[i]) => TreeOwes(v, w, z, NewOperation(s)[i])
  BY NewOperationFacts DEF TreeOwes, Preparing
<1>3. TreesKnow(v, NewOperation(s), w, z)
  BY <1>2, NewOperationFacts DEF TreesKnow
<1> QED BY <1>1, <1>3

\* Only a preparation owes a prepared tree.
LEMMA NewFrameOwes ==
  ASSUME NEW v, NEW w, NEW z, NEW op \in Op \ {"prepare"}, NEW at \in Stage
  PROVE  NewFrame(op, at) \in Frame /\ TreeOwes(v, w, z, NewFrame(op, at))
BY DEF NewFrame, Frame, TreeOwes, Preparing

LEMMA TreesRequest ==
  ASSUME NEW v \in View, NEW s \in Seq(Frame), NEW z, TreesKnow(v, s, owed, z), RequestPreparation(v, s)
  PROVE  TreesKnow(view', stack', owed', z)
<1>1. CASE view' = v /\ stack' = s /\ owed' = owed
  BY <1>1
<1>2. CASE view' = [v EXCEPT !.inputWake = TRUE] /\ stack' = s /\ owed' = owed
  <2>1. view'.arranged = v.arranged /\ view'.dirty = v.dirty
    BY <1>2 DEF View
  <2> QED BY <1>2, <2>1 DEF TreesKnow, TreeOwes
<1>3. CASE view' = [v EXCEPT !.requested = TRUE] /\ stack' = Append(s, NewFrame("wake", "wake")) /\ owed' = TRUE
  <2>1. view'.arranged = v.arranged /\ view'.dirty = v.dirty
    BY <1>3 DEF View
  <2>2. TreesKnow(view', s, TRUE, z)
    BY <2>1 DEF TreesKnow, TreeOwes
  <2>3. NewFrame("wake", "wake") \in Frame /\ TreeOwes(view', TRUE, z, NewFrame("wake", "wake"))
    BY NewFrameOwes DEF Op, Stage
  <2>4. TreesKnow(view', Append(s, NewFrame("wake", "wake")), TRUE, z)
    BY <2>2, <2>3, TreesPush
  <2> QED BY <1>3, <2>4
<1> QED BY <1>1, <1>2, <1>3 DEF RequestPreparation

\* What the step of an action may use.
LEMMA TreeFacts ==
  ASSUME EmbeddedInv, TreeInv
  PROVE  /\ view \in View /\ stack \in Seq(Frame) /\ owed \in BOOLEAN /\ adrift \in BOOLEAN
         /\ TreesKnow(view, stack, owed, adrift) /\ (~view.arranged => view.dirty \/ adrift)
         /\ stack # <<>> => /\ Below \in Seq(Frame) /\ Top \in Frame /\ AtFits(Top)
                            /\ TreesKnow(view, Below, owed, adrift) /\ TreeOwes(view, owed, adrift, Top)
<1>1. view \in View /\ stack \in Seq(Frame) /\ owed \in BOOLEAN /\ adrift \in BOOLEAN
  BY DEF EmbeddedInv, Sound, Typed, TreeInv
<1>2. TreesKnow(view, stack, owed, adrift) /\ (~view.arranged => view.dirty \/ adrift)
  BY DEF TreeInv, TreesKnow
<1>3. ASSUME stack # <<>>  PROVE Below \in Seq(Frame) /\ Top \in Frame /\ AtFits(Top)
  BY <1>3, TopFacts DEF EmbeddedInv, Sound, FramesFit
<1> QED BY <1>1, <1>2, <1>3, TreesPop

\* ReplacementFails announces, and drops or retires a frame that does not prepare.
LEMMA ReplacementFailsTrees ==
  ASSUME EmbeddedInv, TreeInv, stack # <<>>, ReplacementFails
  PROVE  TreeInv'
<1>1. UNCHANGED <<view, adrift>> /\ owed' = TRUE
      /\ stack' \in {Below, Append(NewAttachment(Below), NewFrame("attach", "detach"))}
  BY DEF ReplacementFails, Return
<1>2. TreesKnow(view, Below, TRUE, adrift) /\ Below \in Seq(Frame)
  BY TreeFacts DEF TreesKnow, TreeOwes
<1>3. TreesKnow(view, NewAttachment(Below), TRUE, adrift) /\ NewAttachment(Below) \in Seq(Frame)
  BY <1>2, TreesFrames, NewAttachmentFacts
<1>4. NewFrame("attach", "detach") \in Frame /\ TreeOwes(view, TRUE, adrift, NewFrame("attach", "detach"))
  BY NewFrameOwes DEF Op, Stage, CalloutStage
<1>5. TreesKnow(view, Append(NewAttachment(Below), NewFrame("attach", "detach")), TRUE, adrift)
  BY <1>3, <1>4, TreesPush
<1> QED BY <1>1, <1>2, <1>5, TreeFacts DEF TreeInv

\* A preparation that ends owes what it owed.
LEMMA FinishTrees ==
  ASSUME EmbeddedInv, TreeInv, stack # <<>>, Top.op = "prepare", NEW f \in Frame,
         f.same = Top.same /\ f.op = Top.op /\ f.clean = Top.clean /\ f.tree = Top.tree,
         NEW v \in View, NEW result, Finish(f, v, result), adrift' = adrift,
         v.arranged = view.arranged, f.same /\ ~v.arranged => v.dirty \/ adrift
  PROVE  TreeInv'
<1> DEFINE done   == [v EXCEPT !.preparing = FALSE, !.recoveryWake = FALSE]
           ended  == [f EXCEPT !.at = "finish"]
           frames == Append(Below, ended)
           told   == owed \/ result = "failure"
<1>b. told \in BOOLEAN /\ (owed => told) /\ adrift \in BOOLEAN /\ Below \in Seq(Frame)
  BY TreeFacts
<1>1. CASE ~f.same
  <2>1. view' = view /\ stack' = Below /\ owed' = told
    BY <1>1 DEF Finish, Return
  <2> HIDE DEF told
  <2>2. TreesKnow(view, Below, told, adrift)
    BY <1>b, TreeFacts DEF TreesKnow, TreeOwes
  <2> QED BY <1>b, <2>1, <2>2 DEF TreeInv
<1>2. CASE f.same
  <2>f. ended \in Frame /\ ended.op = "prepare" /\ ended.at = "finish" /\ ended.same = f.same
        /\ ended.clean = Top.clean /\ ended.tree = Top.tree
    BY DEF Frame, Stage
  <2>d. done \in View /\ done.arranged = view.arranged /\ (~done.arranged => done.dirty \/ adrift)
    BY <1>2 DEF View
  <2> DEFINE Fits(u) == u.arranged = view.arranged /\ (~u.arranged => u.dirty \/ adrift)
  <2>k. ASSUME NEW u, Fits(u), NEW w \in BOOLEAN, owed => w
        PROVE  TreesKnow(u, frames, w, adrift)
    <3> HIDE DEF ended
    <3>1. TreesKnow(u, Below, w, adrift)
      BY <2>k, <1>b, TreeFacts DEF TreesKnow, TreeOwes
    <3>2. TreeOwes(u, w, adrift, ended)
      BY <2>k, <2>f, <1>2, TreeFacts DEF TreeOwes, Preparing
    <3> QED BY <3>1, <3>2, <1>b, <2>f, TreesPush
  <2>1. CASE view' = done /\ stack' = frames /\ owed' = told
    <3> HIDE DEF done, frames, told
    <3> QED BY <1>b, <2>d, <2>k, <2>1 DEF TreeInv
  <2>2. CASE view' = [done EXCEPT !.inputWake = TRUE] /\ stack' = frames /\ owed' = told
    <3> HIDE DEF done, frames, told
    <3>1. Fits(view')
      BY <2>d, <2>2 DEF View
    <3> QED BY <1>b, <2>k, <2>2, <3>1 DEF TreeInv
  <2>3. CASE view' = [done EXCEPT !.requested = TRUE] /\ stack' = Append(frames, NewFrame("wake", "wake")) /\ owed' = TRUE
    <3>0. frames \in Seq(Frame)
      BY <1>b, <2>f, PushFacts
    <3> HIDE DEF done, frames, told
    <3>1. Fits(view')
      BY <2>d, <2>3 DEF View
    <3>2. TreesKnow(view', frames, TRUE, adrift)
      BY <2>k, <3>1
    <3>3. NewFrame("wake", "wake") \in Frame /\ TreeOwes(view', TRUE, adrift, NewFrame("wake", "wake"))
      BY NewFrameOwes DEF Op, Stage
    <3>4. TreesKnow(view', Append(frames, NewFrame("wake", "wake")), TRUE, adrift)
      BY <3>0, <3>2, <3>3, TreesPush
    <3> QED BY <1>b, <2>3, <3>4 DEF TreeInv
  <2> QED BY <1>2, <2>1, <2>2, <2>3 DEF Finish
<1> QED BY <1>1, <1>2

\* Attach, Detach, ReplaceDevice and SetVisible.
LEMMA LifecycleTrees ==
  ASSUME EmbeddedInv, TreeInv, Lifecycle
  PROVE  TreeInv'
<1>n. NewView \in View /\ NewView.dirty /\ ~NewView.arranged
  BY DEF NewView, View
<1>1. CASE Attach
  <2> DEFINE at == IF replacing THEN "detach" ELSE "release"
  <2>1. /\ view' = NewView /\ stack' = Append(NewAttachment(stack), NewFrame("attach", at)) /\ UNCHANGED <<owed, adrift>>
        /\ at \in Stage
    BY <1>1 DEF Attach, Stage, CalloutStage
  <2> HIDE DEF at
  <2>2. \A i \in 1 .. Len(NewAttachment(stack)) : ~Preparing(NewAttachment(stack)[i])
    BY TreeFacts, NewAttachmentFacts DEF Preparing
  <2>3. TreesKnow(NewView, NewAttachment(stack), owed, adrift) /\ NewAttachment(stack) \in Seq(Frame)
    BY <1>n, <2>2, TreesNone, TreeFacts, NewAttachmentFacts
  <2>4. NewFrame("attach", at) \in Frame /\ TreeOwes(NewView, owed, adrift, NewFrame("attach", at))
    BY <2>1, NewFrameOwes DEF Op
  <2>5. TreesKnow(view', stack', owed', adrift')
    BY <2>1, <2>3, <2>4, TreesPush
  <2> QED BY <2>1, <2>5, TreeFacts DEF TreeInv
<1>2. CASE Detach
  <2>1. UNCHANGED <<view, owed, adrift>> /\ stack' = Append(NewAttachment(stack), NewFrame("detach", "detach"))
    BY <1>2 DEF Detach
  <2>2. TreesKnow(view, NewAttachment(stack), owed, adrift) /\ NewAttachment(stack) \in Seq(Frame)
    BY TreeFacts, TreesFrames, NewAttachmentFacts
  <2>3. NewFrame("detach", "detach") \in Frame /\ TreeOwes(view, owed, adrift, NewFrame("detach", "detach"))
    BY NewFrameOwes DEF Op, Stage, CalloutStage
  <2>4. TreesKnow(view', stack', owed', adrift')
    BY <2>1, <2>2, <2>3, TreesPush
  <2> QED BY <2>1, <2>4, TreeFacts DEF TreeInv
<1>3. CASE Detached
  <2>1. stack # <<>> /\ Top.at = "detach" /\ view' = NewView /\ stack' = Below /\ adrift' = FALSE
    BY <1>3 DEF Detached, Resumes, Return
  <2>2. Len(stack) \in Nat \ {0} /\ Top = stack[Len(stack)]
    BY <2>1, TopFacts
  <2>3. detaching
    BY <2>1, <2>2 DEF EmbeddedInv, Sound, HostKnows
  <2>4. \A i \in 1 .. Len(stack) - 1 : ~stack[i].same
    BY <2>2, <2>3 DEF EmbeddedInv, Sound, HostKnows
  <2>5. \A i \in 1 .. Len(Below) : ~Preparing(Below[i])
    BY <2>1, <2>4, TopFacts DEF Preparing
  <2>6. TreesKnow(view', stack', owed', adrift')
    BY <1>n, <2>1, <2>5, TreesNone
  <2> QED BY <2>1, <2>6 DEF TreeInv
<1>4. CASE ReplaceDevice
  <2>1. UNCHANGED <<view, owed, adrift>> /\ stack' = Append(NewOperation(stack), NewFrame("replace", "release"))
    BY <1>4 DEF ReplaceDevice
  <2>2. TreesKnow(view, NewOperation(stack), owed, adrift) /\ NewOperation(stack) \in Seq(Frame)
    BY TreeFacts, TreesFrames, NewOperationFacts
  <2>3. NewFrame("replace", "release") \in Frame /\ TreeOwes(view, owed, adrift, NewFrame("replace", "release"))
    BY NewFrameOwes DEF Op, Stage, CalloutStage
  <2>4. TreesKnow(view', stack', owed', adrift')
    BY <2>1, <2>2, <2>3, TreesPush
  <2> QED BY <2>1, <2>4, TreeFacts DEF TreeInv
<1>5. CASE Hide
  <2>1. /\ UNCHANGED <<owed, adrift>> /\ stack' = Append(NewOperation(stack), NewFrame("hide", "release"))
        /\ view' = [view EXCEPT !.visible = FALSE, !.recoveryWake = FALSE]
    BY <1>5 DEF Hide
  <2>2. view'.arranged = view.arranged /\ view'.dirty = view.dirty
    BY <2>1, TreeFacts DEF View
  <2>3. TreesKnow(view', stack, owed, adrift)
    BY <2>2, TreeFacts, TreesView
  <2>4. TreesKnow(view', NewOperation(stack), owed, adrift) /\ NewOperation(stack) \in Seq(Frame)
    BY <2>3, TreeFacts, TreesFrames, NewOperationFacts
  <2>5. NewFrame("hide", "release") \in Frame /\ TreeOwes(view', owed, adrift, NewFrame("hide", "release"))
    BY NewFrameOwes DEF Op, Stage, CalloutStage
  <2>6. TreesKnow(view', stack', owed', adrift')
    BY <2>1, <2>4, <2>5, TreesPush
  <2> QED BY <2>1, <2>6, TreeFacts DEF TreeInv
<1>6. CASE Show
  <2> DEFINE shown == [view EXCEPT !.visible = TRUE, !.dirty = TRUE]
  <2>1. shown \in View /\ shown.dirty /\ shown.arranged = view.arranged /\ adrift' = adrift
    BY <1>6, TreeFacts DEF View, Show
  <2>2. \/ view' = [shown EXCEPT !.recoveryWake = TRUE] /\ stack' = NewOperation(stack) /\ owed' = owed
        \/ RequestPreparation(shown, NewOperation(stack))
    BY <1>6 DEF Show
  <2> HIDE DEF shown
  <2>3. TreesKnow(shown, NewOperation(stack), owed, adrift) /\ NewOperation(stack) \in Seq(Frame)
    <3>1. TreesKnow(shown, stack, owed, adrift)
      BY <2>1, TreeFacts, TreesView
    <3> QED BY <3>1, TreeFacts, TreesFrames, NewOperationFacts
  <2>4. CASE view' = [shown EXCEPT !.recoveryWake = TRUE] /\ stack' = NewOperation(stack) /\ owed' = owed
    <3>1. view'.arranged = shown.arranged /\ view'.dirty = shown.dirty
      BY <2>1, <2>4 DEF View
    <3>2. TreesKnow(view', NewOperation(stack), owed, adrift)
      BY <2>3, <3>1 DEF TreesKnow, TreeOwes
    <3> QED BY <2>1, <2>4, <3>2, TreeFacts DEF TreeInv
  <2>5. CASE RequestPreparation(shown, NewOperation(stack))
    <3>1. TreesKnow(view', stack', owed', adrift)
      BY <2>1, <2>3, <2>5, TreesRequest
    <3> QED BY <2>1, <3>1, TreeFacts DEF TreeInv
  <2> QED BY <2>2, <2>4, <2>5
<1>7. CASE DiscardDevice
  <2> DEFINE f == [Top EXCEPT !.at = "discard"]
  <2>1. /\ stack # <<>> /\ UNCHANGED <<owed, adrift>> /\ view' = [view EXCEPT !.graphics = FALSE]
        /\ stack' = Append(Below, f) /\ Top.op \in {"attach", "replace"}
    BY <1>7 DEF DiscardDevice, Continue, Resumes
  <2>2. view'.arranged = view.arranged /\ view'.dirty = view.dirty
    BY <2>1, TreeFacts DEF View
  <2>3. f \in Frame /\ f.op # "prepare"
    BY <2>1, TreeFacts DEF Frame, Stage, CalloutStage
  <2> HIDE DEF f
  <2>4. TreesKnow(view', Below, owed, adrift)
    BY <2>1, <2>2, TreeFacts DEF TreesKnow, TreeOwes
  <2>5. TreesKnow(view', stack', owed', adrift')
    BY <2>1, <2>3, <2>4, TreeFacts, TreesPush DEF TreeOwes, Preparing
  <2> QED BY <2>1, <2>5, TreeFacts DEF TreeInv
<1>8. CASE DeviceReplaced
  <2>1. /\ stack # <<>> /\ stack' = Below /\ owed' = (owed \/ ~view.prepareCall) /\ adrift' = adrift
        /\ view'.arranged = view.arranged /\ view'.dirty = view.dirty
    BY <1>8, TreeFacts DEF DeviceReplaced, Resumes, Return, View
  <2>2. TreesKnow(view', Below, owed', adrift)
    BY <2>1, TreeFacts, TreesView
  <2> QED BY <2>1, <2>2, TreeFacts DEF TreeInv
<1>9. CASE DeviceFails
  BY <1>9, ReplacementFailsTrees DEF DeviceFails, Resumes
<1>10. CASE HideReturns
  BY <1>10, TreeFacts DEF HideReturns, Resumes, Return, TreeInv
<1>11. CASE SurfaceReleased
  <2> DEFINE f == [Top EXCEPT !.at = "released"]
  <2>1. /\ stack # <<>> /\ UNCHANGED <<owed, adrift>> /\ stack' = Append(Below, f)
        /\ view' = [view EXCEPT !.surface = FALSE, !.coherent = FALSE, !.layout = FALSE, !.requested = FALSE, !.dirty = TRUE]
    BY <1>11 DEF SurfaceReleased, Continue, Resumes
  <2>2. view'.arranged = view.arranged /\ view'.dirty
    BY <2>1, TreeFacts DEF View
  <2>3. f \in Frame /\ f.at = "released" /\ f.op = Top.op /\ f.same = Top.same /\ f.clean = Top.clean /\ f.tree = Top.tree
    BY <2>1, TreeFacts DEF Frame, Stage, CalloutStage
  <2> HIDE DEF f
  <2>4. TreesKnow(view', Below, owed, adrift)
    BY <2>1, <2>2, TreeFacts DEF TreesKnow, TreeOwes
  <2>5. TreeOwes(view', owed, adrift, f)
    BY <2>1, <2>3, TreeFacts DEF TreeOwes, Preparing
  <2>6. TreesKnow(view', stack', owed', adrift')
    BY <2>1, <2>3, <2>4, <2>5, TreeFacts, TreesPush
  <2> QED BY <2>1, <2>6, TreeFacts DEF TreeInv
<1>12. CASE ReleaseAbandoned
  <2>1. stack # <<>> /\ Top.op \in {"attach", "replace", "hide", "prepare"}
    BY <1>12, TreeFacts DEF ReleaseAbandoned, AtFits
  <2>2. CASE Top.op = "hide"
    BY <1>12, <2>1, <2>2, TreeFacts DEF ReleaseAbandoned, Return, TreeInv
  <2>3. CASE Top.op = "prepare"
    BY <1>12, <2>1, <2>3, TreeFacts, FinishTrees DEF ReleaseAbandoned
  <2>4. CASE Top.op \in {"attach", "replace"}
    BY <1>12, <2>1, <2>4, ReplacementFailsTrees DEF ReleaseAbandoned
  <2> QED BY <2>1, <2>2, <2>3, <2>4
<1> QED BY <1>1, <1>2, <1>3, <1>4, <1>5, <1>6, <1>7, <1>8, <1>9, <1>10, <1>11, <1>12 DEF Lifecycle

\* Prepare begins: there is no other preparation of the attachment.
LEMMA PrepareTrees ==
  ASSUME EmbeddedInv, TreeInv, NEW zero \in BOOLEAN, NEW valid \in BOOLEAN, NEW resized \in BOOLEAN,
         Prepare(zero, valid, resized)
  PROVE  TreeInv'
<1> DEFINE begun == [view EXCEPT !.prepareCall = TRUE, !.preparing = TRUE, !.requested = FALSE, !.zeroSized = zero]
           f(at) == [NewFrame("prepare", at) EXCEPT !.resized = resized]
<1>1. PICK at \in {"release", "invalid", "cancel"} :
        /\ stack' = Append(stack, f(at)) /\ adrift' = adrift /\ ~view.prepareCall
        /\ view' = begun \/ view' = [begun EXCEPT !.coherent = FALSE, !.layout = FALSE]
  BY DEF Prepare
<1>2. begun \in View /\ begun.arranged = view.arranged /\ begun.dirty = view.dirty
  BY TreeFacts DEF View
<1>3. f(at) \in Frame /\ f(at).at = at /\ f(at).tree
  BY DEF NewFrame, Frame, Op, Stage, CalloutStage
<1> HIDE DEF begun, f
<1>4. view'.arranged = view.arranged /\ view'.dirty = view.dirty
  BY <1>1, <1>2 DEF View
<1>5. \A i \in 1 .. Len(stack) : ~Preparing(stack[i])
  BY <1>1 DEF EmbeddedInv, Sound, FlagsKnow
<1>6. TreesKnow(view', stack, owed', adrift)
  BY <1>4, <1>5, TreeFacts, TreesNone
<1>7. TreeOwes(view', owed', adrift, f(at))
  BY <1>3 DEF TreeOwes
<1>8. TreesKnow(view', Append(stack, f(at)), owed', adrift)
  BY <1>3, <1>6, <1>7, TreeFacts, TreesPush
<1> QED BY <1>1, <1>8, TreeFacts DEF TreeInv

\* A preparation that goes on to its next stage.
LEMMA PrepareGoesOnTrees ==
  ASSUME EmbeddedInv, TreeInv, stack # <<>>, NEW f \in Frame, f.at # "publish",
         f.tree = TRUE \/ (f.op = Top.op /\ f.same = Top.same /\ f.clean = Top.clean /\ f.tree = Top.tree),
         stack' = Append(Below, f), UNCHANGED <<owed, adrift>>,
         view'.arranged = view.arranged, view.dirty => view'.dirty
  PROVE  TreeInv'
<1>1. TreesKnow(view', Below, owed, adrift)
  BY TreeFacts DEF TreesKnow, TreeOwes
<1>2. TreeOwes(view', owed, adrift, f)
  BY TreeFacts DEF TreeOwes, Preparing
<1>3. TreesKnow(view', Append(Below, f), owed, adrift)
  BY <1>1, <1>2, TreeFacts, TreesPush
<1> QED BY <1>3, TreeFacts DEF TreeInv

\* What a preparation publishes is the current arrangement, and nobody else prepares.
LEMMA PublishTrees ==
  ASSUME EmbeddedInv, TreeInv, PreparePublish
  PROVE  TreeInv'
<1>1. stack # <<>> /\ Top.op = "prepare" /\ Top.same /\ Top.tree
  BY TreeFacts DEF PreparePublish, Resumes, PreparationIsCurrent, IsCurrent, AtFits
<1>2. CASE Finish(Top, view, "failure") /\ UNCHANGED adrift
  BY <1>1, <1>2, TreeFacts, FinishTrees
<1>3. CASE /\ adrift' = FALSE /\ owed' = owed /\ Continue([Top EXCEPT !.at = "publish"])
           /\ view' = [view EXCEPT !.arranged = TRUE, !.coherent = TRUE, !.layout = TRUE, !.dirty = ~Top.clean]
  <2> DEFINE f == [Top EXCEPT !.at = "publish"]
  <2>1. f \in Frame /\ f.tree /\ stack' = Append(Below, f)
    BY <1>1, <1>3, TreeFacts DEF Frame, Stage, CalloutStage, Continue
  <2> HIDE DEF f
  <2>2. view'.arranged = TRUE
    BY <1>3, TreeFacts DEF View
  <2>3. Len(stack) \in Nat \ {0} /\ Top = stack[Len(stack)]
    BY <1>1, TopFacts
  <2>4. Preparing(stack[Len(stack)])
    BY <1>1, <2>3 DEF Preparing
  <2>5. \A i \in 1 .. Len(stack) - 1 : ~Preparing(stack[i])
    BY <2>3, <2>4 DEF EmbeddedInv, Sound, FlagsKnow
  <2>6. \A i \in 1 .. Len(Below) : ~Preparing(Below[i])
    BY <1>1, <2>5, TopFacts
  <2>7. TreesKnow(view', Below, owed, FALSE)
    BY <2>2, <2>6, TreesNone
  <2>8. TreeOwes(view', owed, FALSE, f)
    BY <2>1, <2>2 DEF TreeOwes
  <2>9. TreesKnow(view', Append(Below, f), owed, FALSE)
    BY <1>1, <2>1, <2>7, <2>8, TreeFacts, TreesPush
  <2> QED BY <1>3, <2>1, <2>9 DEF TreeInv
<1> QED BY <1>2, <1>3 DEF PreparePublish

\* Its end makes stale what its frame found changed.
LEMMA PrepareEndsTrees ==
  ASSUME EmbeddedInv, TreeInv, PrepareEnds
  PROVE  TreeInv'
<1> DEFINE c == ~Top.clean
           d == view.coherent /\ Top.tree
           v == [view EXCEPT !.coherent = d, !.dirty = c]
           e == v.dirty \/ visual
           f == [Top EXCEPT !.ask = e]
<1>1. /\ stack # <<>> /\ Top.at = "publish" /\ Top.op = "prepare" /\ Top.same /\ adrift' = adrift
      /\ Finish(f, v, IF v.coherent THEN "S_OK" ELSE "E_ABORT")
  <2>1. stack # <<>> /\ Top.at = "publish" /\ Top.same /\ adrift' = adrift
    BY DEF PrepareEnds, Resumes, PreparationIsCurrent, IsCurrent
  <2>2. Top.op = "prepare"
    BY <2>1, TreeFacts DEF AtFits
  <2>3. Finish(f, v, IF v.coherent THEN "S_OK" ELSE "E_ABORT")
    BY TreeFacts DEF PrepareEnds, View
  <2> QED BY <2>1, <2>2, <2>3
<1>2. c \in BOOLEAN /\ d \in BOOLEAN /\ e \in BOOLEAN
  BY TreeFacts DEF View
<1>v. v \in View /\ v.arranged = view.arranged /\ v.dirty = c
  <2> HIDE DEF c, d
  <2> QED BY <1>2, TreeFacts DEF View
<1>f. f \in Frame /\ f.op = Top.op /\ f.same = Top.same /\ f.clean = Top.clean /\ f.tree = Top.tree
  <2> HIDE DEF e
  <2> QED BY <1>1, <1>2, TreeFacts DEF Frame
<1> HIDE DEF v, f
<1>3. ~v.arranged => v.dirty \/ adrift
  BY <1>1, <1>v, TreeFacts DEF TreeOwes, Preparing
<1> QED BY <1>1, <1>v, <1>f, <1>3, FinishTrees

LEMMA PreparationTrees ==
  ASSUME EmbeddedInv, TreeInv, Preparation
  PROVE  TreeInv'
<1>1. CASE PrepareSuspended \/ PrepareInvalid \/ PrepareAborts
  <2>1. PICK result : stack # <<>> /\ Top.op = "prepare" /\ adrift' = adrift /\ Finish(Top, view, result)
    BY <1>1 DEF PrepareSuspended, PrepareInvalid, PrepareAborts, Resumes
  <2> QED BY <2>1, TreeFacts, FinishTrees
<1>2. CASE PrepareSurface
  <2> DEFINE begun == [view EXCEPT !.coherent = FALSE, !.layout = FALSE, !.dirty = TRUE]
             f == [Top EXCEPT !.at = "layout"]
  <2>1. /\ stack # <<>> /\ Top.op = "prepare" /\ adrift' = adrift
        /\ \/ Finish(Top, view, "S_FALSE") \/ Finish(Top, begun, "failure")
           \/ view' = [begun EXCEPT !.surface = TRUE] /\ stack' = Append(Below, f) /\ owed' = owed
    BY <1>2, TreeFacts DEF PrepareSurface, Resumes, AtFits, Continue
  <2>2. begun \in View /\ begun.dirty /\ begun.arranged = view.arranged
    BY TreeFacts DEF View
  <2>3. f \in Frame /\ f.at = "layout" /\ f.op = Top.op /\ f.same = Top.same /\ f.clean = Top.clean /\ f.tree = Top.tree
    BY <2>1, TreeFacts DEF Frame, Stage, CalloutStage
  <2> HIDE DEF begun, f
  <2>4. CASE Finish(Top, view, "S_FALSE")
    BY <2>1, <2>4, TreeFacts, FinishTrees
  <2>5. CASE Finish(Top, begun, "failure")
    BY <2>1, <2>2, <2>5, TreeFacts, FinishTrees
  <2>6. CASE view' = [begun EXCEPT !.surface = TRUE] /\ stack' = Append(Below, f) /\ owed' = owed
    <3>1. view'.arranged = view.arranged /\ view'.dirty
      BY <2>2, <2>6 DEF View
    <3> QED BY <2>1, <2>3, <2>6, <3>1, PrepareGoesOnTrees
  <2> QED BY <2>1, <2>4, <2>5, <2>6
<1>3. CASE PrepareContent
  <2> DEFINE f == [Top EXCEPT !.at = "content", !.clean = TRUE, !.tree = TRUE]
  <2>1. stack # <<>> /\ UNCHANGED <<view, owed, adrift>> /\ stack' = Append(Below, f)
    BY <1>3 DEF PrepareContent, Resumes, Continue
  <2>2. f \in Frame /\ f.at = "content" /\ f.tree = TRUE
    BY <2>1, TreeFacts DEF Frame, Stage, CalloutStage
  <2> HIDE DEF f
  <2> QED BY <2>1, <2>2, PrepareGoesOnTrees
<1>4. CASE PreparePaint
  <2> DEFINE f == [Top EXCEPT !.at = "paint", !.clean = TRUE, !.tree = TRUE]
             g == [Top EXCEPT !.ask = TRUE]
  <2>1. /\ stack # <<>> /\ Top.op = "prepare" /\ adrift' = adrift
        /\ \/ UNCHANGED <<view, owed>> /\ stack' = Append(Below, f)
           \/ Finish(g, view, "S_FALSE") \/ Finish(Top, view, "failure")
    BY <1>4, TreeFacts DEF PreparePaint, Resumes, AtFits, Continue
  <2>2. f \in Frame /\ f.at = "paint" /\ f.tree = TRUE
    BY <2>1, TreeFacts DEF Frame, Stage, CalloutStage
  <2>3. g \in Frame /\ g.op = Top.op /\ g.same = Top.same /\ g.clean = Top.clean /\ g.tree = Top.tree
    BY <2>1, TreeFacts DEF Frame
  <2> HIDE DEF f, g
  <2>4. CASE UNCHANGED <<view, owed>> /\ stack' = Append(Below, f)
    BY <2>1, <2>2, <2>4, PrepareGoesOnTrees
  <2>5. CASE Finish(g, view, "S_FALSE")
    BY <2>1, <2>3, <2>5, TreeFacts, FinishTrees
  <2>6. CASE Finish(Top, view, "failure")
    BY <2>1, <2>6, TreeFacts, FinishTrees
  <2> QED BY <2>1, <2>4, <2>5, <2>6
<1>5. CASE Finished
  <2>1. /\ stack # <<>> /\ UNCHANGED <<owed, adrift>> /\ stack' = Below
        /\ view'.arranged = view.arranged /\ view'.dirty = view.dirty
    BY <1>5, TreeFacts DEF Finished, Resumes, Return, View
  <2>2. TreesKnow(view', Below, owed, adrift)
    BY <2>1, TreeFacts DEF TreesKnow, TreeOwes
  <2> QED BY <2>1, <2>2, TreeFacts DEF TreeInv
<1> QED BY <1>1, <1>2, <1>3, <1>4, <1>5, PrepareTrees, PublishTrees, PrepareEndsTrees DEF Preparation

LEMMA InteractionTrees ==
  ASSUME EmbeddedInv, TreeInv, Interaction
  PROVE  TreeInv'
<1>1. ASSUME NEW matches \in BOOLEAN, PrepareInteraction(matches)  PROVE TreeInv'
  <2>1. PICK at \in {"acknowledge", "invalid"} :
          /\ stack' = Append(stack, NewFrame("interact", at)) /\ UNCHANGED <<owed, adrift>>
          /\ view' = view \/ view' = [view EXCEPT !.coherent = FALSE, !.layout = FALSE]
    BY <1>1 DEF PrepareInteraction
  <2>2. view'.arranged = view.arranged /\ view'.dirty = view.dirty
    BY <2>1, TreeFacts DEF View
  <2>3. TreesKnow(view', stack, owed, adrift)
    BY <2>2, TreeFacts DEF TreesKnow, TreeOwes
  <2>4. NewFrame("interact", at) \in Frame /\ TreeOwes(view', owed, adrift, NewFrame("interact", at))
    BY NewFrameOwes DEF Op, Stage, CalloutStage
  <2>5. TreesKnow(view', Append(stack, NewFrame("interact", at)), owed, adrift)
    BY <2>3, <2>4, TreeFacts, TreesPush
  <2> QED BY <2>1, <2>5, TreeFacts DEF TreeInv
<1>2. CASE InteractionRefused
  <2>1. stack # <<>> /\ UNCHANGED <<view, adrift>> /\ owed' = TRUE /\ stack' = Below
    BY <1>2 DEF InteractionRefused, Resumes, Return
  <2>2. TreesKnow(view, Below, TRUE, adrift)
    BY <2>1, TreeFacts DEF TreesKnow, TreeOwes
  <2> QED BY <2>1, <2>2, TreeFacts DEF TreeInv
<1>3. CASE InteractionAcknowledged
  <2>1. /\ stack # <<>> /\ owed' = TRUE /\ stack' = Below /\ adrift' = (adrift /\ ~view'.arranged)
        /\ \/ view' = view \/ view' = [view EXCEPT !.coherent = FALSE]
           \/ view' = [view EXCEPT !.arranged = TRUE, !.coherent = TRUE, !.dirty = TRUE]
    BY <1>3 DEF InteractionAcknowledged, Resumes, Return
  <2>2. \/ view'.arranged = TRUE
        \/ view'.arranged = view.arranged /\ view'.dirty = view.dirty
    BY <2>1, TreeFacts DEF View
  <2>3. adrift' \in BOOLEAN /\ (~view'.arranged => adrift' = adrift)
    BY <2>1, TreeFacts
  <2>4. TreesKnow(view', Below, TRUE, adrift')
    BY <2>1, <2>2, <2>3, TreeFacts DEF TreesKnow, TreeOwes
  <2> QED BY <2>1, <2>3, <2>4 DEF TreeInv
<1>4. CASE Input
  <2> DEFINE d == view.coherent /\ view.arranged
  <2>1. /\ stack' = Append(stack, NewFrame("input", "input")) /\ UNCHANGED <<owed, adrift>>
        /\ view' = [view EXCEPT !.coherent = d]
    BY <1>4, TreeFacts DEF Input, View
  <2> HIDE DEF d
  <2>2. view'.arranged = view.arranged /\ view'.dirty = view.dirty
    BY <2>1, TreeFacts DEF View
  <2>3. TreesKnow(view', stack, owed, adrift)
    BY <2>2, TreeFacts DEF TreesKnow, TreeOwes
  <2>4. NewFrame("input", "input") \in Frame /\ TreeOwes(view', owed, adrift, NewFrame("input", "input"))
    BY NewFrameOwes DEF Op, Stage, CalloutStage
  <2>5. TreesKnow(view', Append(stack, NewFrame("input", "input")), owed, adrift)
    BY <2>3, <2>4, TreeFacts, TreesPush
  <2> QED BY <2>1, <2>5, TreeFacts DEF TreeInv
<1>5. CASE InputRechecks
  <2>1. UNCHANGED <<stack, owed, adrift>> /\ view' = [view EXCEPT !.coherent = FALSE]
    BY <1>5 DEF InputRechecks
  <2>2. view'.arranged = view.arranged /\ view'.dirty = view.dirty
    BY <2>1, TreeFacts DEF View
  <2>3. TreesKnow(view', stack, owed, adrift)
    BY <2>2, TreeFacts DEF TreesKnow, TreeOwes
  <2> QED BY <2>1, <2>3, TreeFacts DEF TreeInv
<1>6. CASE InputReturns
  <2> DEFINE v == [view EXCEPT !.inputWake = FALSE]
  <2>1. /\ stack # <<>> /\ adrift' = adrift
        /\ RequestPreparation(v, Below) \/ (stack' = Below /\ UNCHANGED <<view, owed>>)
    BY <1>6 DEF InputReturns, Resumes, Return
  <2>2. v \in View /\ v.arranged = view.arranged /\ v.dirty = view.dirty
    BY TreeFacts DEF View
  <2> HIDE DEF v
  <2>3. CASE RequestPreparation(v, Below)
    <3>1. TreesKnow(v, Below, owed, adrift)
      BY <2>1, <2>2, TreeFacts DEF TreesKnow, TreeOwes
    <3>2. TreesKnow(view', stack', owed', adrift)
      BY <2>1, <2>2, <2>3, <3>1, TreeFacts, TreesRequest
    <3> QED BY <2>1, <3>2, TreeFacts DEF TreeInv
  <2>4. CASE stack' = Below /\ UNCHANGED <<view, owed>>
    BY <2>1, <2>4, TreeFacts DEF TreeInv
  <2> QED BY <2>1, <2>3, <2>4
<1> QED BY <1>1, <1>2, <1>3, <1>4, <1>5, <1>6 DEF Interaction

\* What changes the tree makes the frames' pixels stale, or sets the view adrift.
LEMMA ChangeTrees ==
  ASSUME EmbeddedInv, TreeInv, Change \/ WakeReturns
  PROVE  TreeInv'
<1>1. CASE ChangePixels
  <2> DEFINE v == [view EXCEPT !.dirty = TRUE]
  <2>1. RequestPreparation(v, NewRevision(stack)) /\ adrift' = FALSE
    BY <1>1 DEF ChangePixels
  <2>2. v \in View /\ v.dirty
    BY TreeFacts DEF View
  <2> HIDE DEF v
  <2>3. TreesKnow(v, NewRevision(stack), owed, FALSE) /\ NewRevision(stack) \in Seq(Frame)
    BY <2>2, TreeFacts, NewRevisionFacts DEF TreesKnow, TreeOwes
  <2>4. TreesKnow(view', stack', owed', FALSE)
    BY <2>1, <2>2, <2>3, TreesRequest
  <2> QED BY <2>1, <2>4 DEF TreeInv
<1>2. CASE ChangeTree
  <2> DEFINE v == [view EXCEPT !.dirty = TRUE, !.arranged = FALSE]
  <2>1. RequestPreparation(v, NewTree(stack)) /\ adrift' = FALSE
    BY <1>2 DEF ChangeTree
  <2>2. v \in View /\ v.dirty
    BY TreeFacts DEF View
  <2> HIDE DEF v
  <2>3. TreesKnow(v, NewTree(stack), owed, FALSE) /\ NewTree(stack) \in Seq(Frame)
    BY <2>2, TreeFacts, NewTreeFacts DEF TreesKnow, TreeOwes
  <2>4. TreesKnow(view', stack', owed', FALSE)
    BY <2>1, <2>2, <2>3, TreesRequest
  <2> QED BY <2>1, <2>4 DEF TreeInv
<1>3. CASE SetClipboardPreference
  BY <1>3 DEF SetClipboardPreference, TreeInv, TreesKnow, TreeOwes
<1>4. CASE WakeReturns
  BY <1>4, TreeFacts DEF WakeReturns, Resumes, Return, TreeInv
<1> QED BY <1>1, <1>2, <1>3, <1>4 DEF Change

-----------------------------------------------------------------------------
(* The theorems.                                                           *)

LEMMA InitKeeps == Init => EmbeddedInv /\ TreeInv
<1> SUFFICES ASSUME Init PROVE EmbeddedInv /\ TreeInv
  OBVIOUS
<1>1. /\ attached = FALSE /\ detaching = FALSE /\ replacing = FALSE /\ view = NewView
      /\ visual = FALSE /\ owed = FALSE /\ adrift = FALSE /\ stack = <<>>
  BY DEF Init
<1>2. stack \in Seq(Frame) /\ Len(stack) = 0
  BY <1>1
<1>3. NewView \in View /\ ~NewView.coherent /\ ~NewView.surface /\ ~NewView.preparing /\ ~NewView.prepareCall
      /\ ~NewView.recoveryWake /\ ~NewView.inputWake /\ NewView.dirty
  BY DEF NewView, View
<1>4. Typed(attached, detaching, replacing, view, visual, stack, owed)
  BY <1>1, <1>2, <1>3 DEF Typed
<1>5. FramesFit(stack) /\ HostKnows(attached, detaching, replacing, stack)
  BY <1>1, <1>2 DEF FramesFit, HostKnows
<1>6. FlagsKnow(detaching, view, stack) /\ FramesKnow(view, stack) /\ DrawnKnows(view, stack)
  BY <1>1, <1>2, <1>3 DEF FlagsKnow, FramesKnow, DrawnKnows
<1>7. HiddenKnows(attached, detaching, view, stack) /\ WakesKnow(attached, detaching, view, stack, owed)
  BY <1>1, <1>2, <1>3 DEF HiddenKnows, WakesKnow
<1>8. StaleKnown(attached, detaching, view, visual, stack, owed, adrift)
  BY <1>1 DEF StaleKnown, Stale
<1>9. TreeInv
  <2>1. adrift \in BOOLEAN /\ view.dirty
    BY <1>1, <1>3
  <2>2. \A i \in 1 .. Len(stack) : ~Preparing(stack[i])
    BY <1>2
  <2> QED BY <2>1, <2>2, TreesNone DEF TreeInv
<1> QED BY <1>4, <1>5, <1>6, <1>7, <1>8, <1>9 DEF EmbeddedInv, Sound

LEMMA NextKeeps == EmbeddedInv /\ TreeInv /\ [Next]_vars => EmbeddedInv' /\ TreeInv'
<1> SUFFICES ASSUME EmbeddedInv, TreeInv, [Next]_vars PROVE EmbeddedInv' /\ TreeInv'
  OBVIOUS
<1>1. CASE UNCHANGED vars
  <2>1. UNCHANGED <<attached, detaching, replacing, view, visual, stack, owed, adrift>>
    BY <1>1 DEF vars, host
  <2> QED BY <2>1 DEF EmbeddedInv, TreeInv
<1>2. CASE Lifecycle
  BY <1>2, AttachKeeps, DetachKeeps, DetachedKeeps, ReplaceDeviceKeeps, HideKeeps, ShowKeeps, DiscardDeviceKeeps,
     DeviceReplacedKeeps, DeviceFailsKeeps, HideReturnsKeeps, SurfaceReleasedKeeps, ReleaseAbandonedKeeps, LifecycleTrees
     DEF Lifecycle, HideReturns, Resumes
<1>3. CASE Preparation
  BY <1>3, PrepareKeeps, PrepareSuspendedKeeps, PrepareInvalidKeeps, PrepareAbortsKeeps, PrepareSurfaceKeeps,
     PrepareContentKeeps, PreparePaintKeeps, PreparePublishKeeps, PrepareEndsKeeps, FinishedKeeps, PreparationTrees
     DEF Preparation
<1>4. CASE Interaction
  BY <1>4, PrepareInteractionKeeps, InteractionRefusedKeeps, InteractionAcknowledgedKeeps, InputKeeps,
     InputRechecksKeeps, InputReturnsKeeps, InteractionTrees DEF Interaction
<1>5. CASE Change \/ WakeReturns
  BY <1>5, ChangePixelsKeeps, ChangeTreeKeeps, SetClipboardPreferenceKeeps, WakeReturnsKeeps, ChangeTrees DEF Change
<1> QED BY <1>1, <1>2, <1>3, <1>4, <1>5 DEF Next

\* The invariant from which the other theorems follow.
THEOREM EmbeddedInvariant == Spec => [](EmbeddedInv /\ TreeInv)
BY InitKeeps, NextKeeps, PTL DEF Spec

\* The state, the flags and the calls in progress keep their types however deep they nest, and
\* Detach and a failed Attach leave the State as new (Embedded.cpp:133-156, 230-249).
THEOREM EmbeddedTypes == Spec => []TypeOK
<1>1. EmbeddedInv /\ TreeInv => TypeOK
  BY DEF EmbeddedInv, TreeInv, Sound, Typed, TypeOK
<1> QED BY <1>1, EmbeddedInvariant, PTL

\* When nothing runs, no flag of an operation is left behind: whatever callbacks do to the view and
\* wherever an operation is abandoned, the next Prepare, Attach, ReplaceDevice and input entry are
\* not refused for ever (Embedded.cpp:160-190, 221-229, 250-300, 467-490).
THEOREM EmbeddedRests == Spec => []RestIsIdle
<1>1. EmbeddedInv => RestIsIdle
  <2> SUFFICES ASSUME EmbeddedInv, stack = <<>>
               PROVE  ~detaching /\ ~replacing /\ ~view.preparing /\ ~view.prepareCall /\ ~view.recoveryWake /\ ~view.inputWake
    BY DEF RestIsIdle
  <2>1. Len(stack) = 0
    OBVIOUS
  <2>2. ~detaching /\ ~replacing
    BY <2>1 DEF EmbeddedInv, Sound, HostKnows
  <2> QED BY <2>1, <2>2 DEF EmbeddedInv, Sound, FlagsKnow
<1> QED BY <1>1, EmbeddedInvariant, PTL

\* No announced change is lost: when nothing runs and a visible view is stale, the application was
\* notified or told by an operation it called, although preparations, input entries and replacements
\* hold wakes back for one another (Embedded.cpp:160-190, 301-328, 393-404, 467-490), unless what
\* changed last was the clipboard preference, which nobody announces (DxUi.WindowHost.cpp:2847-2854).
THEOREM EmbeddedAnnounces == Spec => []StaleIsAnnounced
<1>1. EmbeddedInv => StaleIsAnnounced
  <2> SUFFICES ASSUME EmbeddedInv, stack = <<>>, Stale(attached, view, visual) PROVE owed \/ adrift
    BY DEF StaleIsAnnounced, Stale
  <2>1. Len(stack) = 0
    OBVIOUS
  <2>2. ~detaching
    BY <2>1 DEF EmbeddedInv, Sound, HostKnows
  <2>3. ~view.preparing /\ ~view.inputWake
    BY <2>1, <2>2 DEF EmbeddedInv, Sound, FlagsKnow
  <2> QED BY <2>1, <2>2, <2>3 DEF EmbeddedInv, StaleKnown, Told, Announcing
<1> QED BY <1>1, EmbeddedInvariant, PTL

\* The application is never notified from inside a preparation of the attachment, only when the
\* preparation has cleared its flags (Embedded.cpp:314-328, 467-490).
THEOREM NoPreparationIsReentered == Spec => []NoWakeInsidePreparation
<1>1. EmbeddedInv => NoWakeInsidePreparation
  <2>1. EmbeddedInv => DOMAIN stack = 1 .. Len(stack)
    BY StackFacts DEF EmbeddedInv, Sound, Typed
  <2> QED BY <2>1 DEF NoWakeInsidePreparation, EmbeddedInv, Sound, FlagsKnow, Preparing
<1> QED BY <1>1, EmbeddedInvariant, PTL

\* What Composite draws has a surface of the current device, and a hidden view holds none
\* (Embedded.cpp:329-404, 524-742), if the application does not prepare the view from a callback of
\* PrepareInteraction: where it does, the run embedded_nested_prepare shows that this is false.
THEOREM EmbeddedShows ==
  ASSUME "interact" \notin Preparers
  PROVE  Spec => []SurfaceIsAsShown
<1>1. EmbeddedInv => SurfaceIsAsShown
  <2> SUFFICES ASSUME EmbeddedInv PROVE SurfaceIsAsShown
    OBVIOUS
  <2>1. view.coherent => view.surface /\ view.graphics
    BY DEF EmbeddedInv, Sound, DrawnKnows
  <2>2. ASSUME stack = <<>>  PROVE Len(stack) = 0 /\ ~detaching
    <3>1. Len(stack) = 0
      BY <2>2
    <3> QED BY <2>2, <3>1 DEF EmbeddedInv, Sound, HostKnows
  <2>3. stack = <<>> /\ attached /\ ~view.visible => ~view.surface
    BY <2>2 DEF EmbeddedInv, Sound, HiddenKnows
  <2> QED BY <2>1, <2>3 DEF SurfaceIsAsShown, CompositeHasSurface, HiddenHasNoSurface
<1> QED BY <1>1, EmbeddedInvariant, PTL

-----------------------------------------------------------------------------
(* Retired frames.                                                         *)

\* What is called from the running frame leaves it where it is.
LEMMA TopStays ==
  ASSUME EmbeddedInv, NEW s \in Seq(Frame), NEW f, Len(s) = Len(stack),
         \A i \in 1 .. Len(stack) : s[i].at = stack[i].at,
         stack' = s \/ stack' = Append(s, f)
  PROVE  ~TopGoesOn
<1> SUFFICES ASSUME stack # <<>> PROVE ~TopGoesOn
  BY DEF TopGoesOn
<1>1. Len(stack) \in Nat \ {0} /\ Top = stack[Len(stack)]
  BY TopFacts
<1>2. Len(stack') \in {Len(stack), Len(stack) + 1} /\ stack'[Len(stack)] = s[Len(stack)]
  BY <1>1
<1> QED BY <1>1, <1>2 DEF TopGoesOn

LEMMA CallsStay ==
  ASSUME EmbeddedInv, NEW f,
         \/ stack' \in {stack, NewOperation(stack), NewRevision(stack), NewTree(stack), Drifted(stack)}
         \/ stack' \in {Append(stack, f), Append(NewAttachment(stack), f), Append(NewOperation(stack), f),
                        Append(NewRevision(stack), f), Append(NewTree(stack), f)}
  PROVE  ~TopGoesOn
<1>1. stack \in Seq(Frame)
  BY DEF EmbeddedInv, Sound, Typed
<1>2. CASE stack' \in {stack, Append(stack, f)}
  BY <1>1, <1>2, TopStays
<1>3. CASE stack' \in {NewOperation(stack), Append(NewOperation(stack), f)}
  BY <1>1, <1>3, TopStays, NewOperationFacts
<1>4. CASE stack' = Append(NewAttachment(stack), f)
  BY <1>1, <1>4, TopStays, NewAttachmentFacts
<1>5. CASE stack' \in {NewRevision(stack), Append(NewRevision(stack), f)}
  BY <1>1, <1>5, TopStays, NewRevisionFacts
<1>6. CASE stack' \in {NewTree(stack), Append(NewTree(stack), f)}
  BY <1>1, <1>6, TopStays, NewTreeFacts
<1>7. CASE stack' = Drifted(stack)
  BY <1>1, <1>7, TopStays, DriftedFacts
<1> QED BY <1>2, <1>3, <1>4, <1>5, <1>6, <1>7

\* An operation whose attachment was replaced by a callback returns without a change to the state of
\* the next one (Embedded.cpp:333-337, 443-490, 690-742).
THEOREM RetiredFramesTouchNothing == Spec => RetiredTouchNothing
<1> DEFINE Quiet == TopGoesOn /\ ~Top.same /\ Top.op \in {"prepare", "replace", "hide", "interact"} => view' = view
<1>1. EmbeddedInv /\ [Next]_vars => [Quiet]_vars
  <2> SUFFICES ASSUME EmbeddedInv, Next, TopGoesOn, ~Top.same, Top.op \in {"prepare", "replace", "hide", "interact"}
               PROVE  view' = view
    OBVIOUS
  <2>1. CASE Lifecycle
    <3>1. ~Attach /\ ~Detach /\ ~ReplaceDevice /\ ~Hide
      BY CallsStay DEF Attach, Detach, ReplaceDevice, Hide
    <3>2. ~Show
      BY CallsStay DEF Show, RequestPreparation
    <3>3. ~Detached
      BY TopFacts DEF Detached, Resumes, EmbeddedInv, Sound, FramesFit, AtFits
    <3>4. ~DiscardDevice /\ ~DeviceReplaced /\ ~SurfaceReleased
      BY DEF DiscardDevice, DeviceReplaced, SurfaceReleased, IsCurrent
    <3>5. ASSUME DeviceFails \/ HideReturns  PROVE view' = view
      BY <3>5 DEF DeviceFails, HideReturns, ReplacementFails
    <3>6. ASSUME ReleaseAbandoned  PROVE view' = view
      BY <3>6 DEF ReleaseAbandoned, ReplacementFails, Finish
    <3> QED BY <2>1, <3>1, <3>2, <3>3, <3>4, <3>5, <3>6 DEF Lifecycle
  <2>2. CASE Preparation
    <3>1. ASSUME NEW zero \in BOOLEAN, NEW valid \in BOOLEAN, NEW resized \in BOOLEAN  PROVE ~Prepare(zero, valid, resized)
      BY CallsStay DEF Prepare
    <3>2. ASSUME PrepareSuspended \/ PrepareInvalid \/ PrepareAborts \/ Finished  PROVE view' = view
      BY <3>2 DEF PrepareSuspended, PrepareInvalid, PrepareAborts, Finished, Finish
    <3>3. ~PrepareSurface /\ ~PrepareContent /\ ~PreparePaint /\ ~PreparePublish /\ ~PrepareEnds
      BY DEF PrepareSurface, PrepareContent, PreparePaint, PreparePublish, PrepareEnds, PreparationIsCurrent, IsCurrent
    <3> QED BY <2>2, <3>1, <3>2, <3>3 DEF Preparation
  <2>3. CASE Interaction
    <3>1. ASSUME NEW matches \in BOOLEAN  PROVE ~PrepareInteraction(matches)
      BY CallsStay DEF PrepareInteraction
    <3>2. ~Input /\ ~InputRechecks
      BY CallsStay DEF Input, InputRechecks
    <3>3. ~InputReturns
      BY TopFacts DEF InputReturns, Resumes, EmbeddedInv, Sound, FramesFit, AtFits
    <3>4. ASSUME InteractionRefused \/ InteractionAcknowledged  PROVE view' = view
      BY <3>4 DEF InteractionRefused, InteractionAcknowledged, PreparationIsCurrent, IsCurrent
    <3> QED BY <2>3, <3>1, <3>2, <3>3, <3>4 DEF Interaction
  <2>4. CASE Change
    BY <2>4, CallsStay DEF Change, ChangePixels, ChangeTree, SetClipboardPreference, RequestPreparation
  <2>5. CASE WakeReturns
    BY <2>5 DEF WakeReturns
  <2> QED BY <2>1, <2>2, <2>3, <2>4, <2>5 DEF Next
<1> QED BY <1>1, EmbeddedInvariant, PTL DEF Spec, RetiredTouchNothing

=============================================================================
