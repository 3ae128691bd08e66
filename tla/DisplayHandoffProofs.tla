----------------------- MODULE DisplayHandoffProofs -----------------------
(***************************************************************************)
(* The hand-over of frames is correct for every height of the screen, every *)
(* number of TMDS buffers and every number of pictures told apart.          *)
(*                                                                          *)
(* The inductive invariant follows one frame around: it is drawn (Drawing), *)
(* it is whole in memory before it is published (Complete), and while core  *)
(* 0 spins it is in one of four places (Handover): in the write buffer of   *)
(* core 0, in pending_frame, taken and not yet released, released.          *)
(***************************************************************************)
EXTENDS DisplayHandoff, TLAPS

Uniform(b, p) == \A r \in Rows : pixels[b][r] = p

(* The frame being encoded is whole, and the next one is its successor. *)
Active ==
  \E p \in Picture :
    /\ Uniform(active_frame, p)
    /\ back # active_frame => drawing = Following(p)

(* Core 1 changes frames only before the first row. *)
Boundary == pc1 \in {"check", "take", "release"} => y = 0

(* Every row drawn so far is in memory or on the way. *)
Drawing ==
  /\ pc0 = "draw" => drawn < Height
  /\ pc0 # "draw" => drawn = Height
  /\ \A s \in stores : s.frame = back /\ s.picture = drawing
  /\ \A r \in Rows : r < drawn /\ back # active_frame =>
       \/ pixels[back][r] = drawing
       \/ [frame |-> back, row |-> r, picture |-> drawing] \in stores

Complete ==
  pc0 \in {"publish", "spin"} => stores = {} /\ Uniform(back, drawing)

Apart ==
  pc0 # "spin" => /\ pending_frame = NULL /\ publishing = NULL
                  /\ back # active_frame
                  /\ pc1 \notin {"take", "release"}

Handover ==
  pc0 = "spin" =>
    \/ /\ publishing = back /\ pending_frame = NULL /\ back # active_frame
       /\ pc1 \notin {"take", "release"}
    \/ /\ publishing = NULL /\ pending_frame = back /\ back # active_frame
       /\ pc1 # "release"
    \/ /\ publishing = NULL /\ pending_frame = back /\ back = active_frame
       /\ pc1 = "release"
    \/ /\ publishing = NULL /\ pending_frame = NULL /\ back = active_frame
       /\ pc1 \notin {"take", "release"}

IInv ==
  TypeOK /\ Active /\ Boundary /\ Drawing /\ Complete /\ Apart /\ Handover
-----------------------------------------------------------------------------
LEMMA FollowingTyped == \A p \in Picture : Following(p) \in Picture
BY HandoffAssumption DEF Following, Picture

LEMMA OtherTyped == \A b \in Buffers : Other(b) \in Buffers /\ Other(b) # b
BY DEF Other, Buffers

LEMMA NullApart == NULL \notin Buffers
BY DEF NULL, Buffers

LEMMA InitIInv == Init => IInv
<1> SUFFICES ASSUME Init PROVE IInv
  OBVIOUS
<1> USE DEF Init
<1>1. 0 \in Picture /\ 1 \in Picture /\ Following(0) = 1
  BY HandoffAssumption DEF Picture, Following
<1>2. 0 \in Rows /\ Height - 1 \in Rows /\ 0 < Height
  BY HandoffAssumption DEF Rows
<1>3. TypeOK
  BY <1>1, <1>2, HandoffAssumption DEF TypeOK, Buffers
<1>4. Uniform(active_frame, 0)
  BY DEF Uniform, Buffers
<1>5. Active
  BY <1>1, <1>4 DEF Active
<1>6. Drawing
  BY <1>2, HandoffAssumption DEF Drawing, Rows
<1>7. Boundary /\ Complete /\ Apart /\ Handover
  BY DEF Boundary, Complete, Apart, Handover
<1> QED BY <1>3, <1>5, <1>6, <1>7 DEF IInv

(* Core 0 draws a row: it is on the way. *)
LEMMA DrawRowStep == IInv /\ DrawRow => IInv'
<1> SUFFICES ASSUME IInv, DrawRow PROVE IInv'
  OBVIOUS
<1> USE DEF IInv, DrawRow, core1, queues
<1>1. /\ drawn \in Rows /\ drawn + 1 \in 0 .. Height
      /\ drawn + 1 # Height => drawn + 1 < Height
  BY HandoffAssumption DEF TypeOK, Drawing, Rows
<1>2. TypeOK'
  BY <1>1 DEF TypeOK, Stores
<1>3. Active' /\ Boundary'
  BY DEF Active, Boundary, Uniform
<1>4. Drawing'
  <2>1. \A r \in Rows : r < drawn' => r < drawn \/ r = drawn
    BY <1>1, HandoffAssumption DEF Rows
  <2>2. \A s \in stores' : s.frame = back' /\ s.picture = drawing'
    BY DEF Drawing
  <2>3. /\ pc0' = "draw" => drawn' < Height
        /\ pc0' # "draw" => drawn' = Height
    BY <1>1
  <2>4. \A r \in Rows : r < drawn' /\ back' # active_frame' =>
          \/ pixels'[back'][r] = drawing'
          \/ [frame |-> back', row |-> r, picture |-> drawing'] \in stores'
    BY <2>1 DEF Drawing
  <2> QED BY <2>2, <2>3, <2>4 DEF Drawing
<1>5. Complete' /\ Apart' /\ Handover'
  BY DEF Complete, Apart, Handover
<1> QED BY <1>2, <1>3, <1>4, <1>5

(* With an empty write buffer every row drawn is in memory. *)
LEMMA FenceStep == IInv /\ Fence => IInv'
<1> SUFFICES ASSUME IInv, Fence PROVE IInv'
  OBVIOUS
<1> USE DEF IInv, Fence, core1, queues, writes
<1>1. TypeOK' /\ Active' /\ Boundary' /\ Drawing'
  BY DEF TypeOK, Active, Boundary, Drawing, Uniform
<1>2. Uniform(back, drawing)
  <2>1. drawn = Height /\ back # active_frame
    BY DEF Drawing, Apart
  <2>2. \A r \in Rows : r < drawn
    BY <2>1, HandoffAssumption DEF Rows
  <2> QED BY <2>1, <2>2 DEF Drawing, Uniform
<1>3. Complete' /\ Apart' /\ Handover'
  BY <1>2 DEF Complete, Apart, Handover, Uniform
<1> QED BY <1>1, <1>3

LEMMA PublishStep == IInv /\ Publish => IInv'
<1> SUFFICES ASSUME IInv, Publish PROVE IInv'
  OBVIOUS
<1> USE DEF IInv, Publish, core1, queues
<1>1. TypeOK' /\ Active' /\ Boundary' /\ Drawing'
  BY DEF TypeOK, Active, Boundary, Drawing, Uniform
<1>2. Complete' /\ Apart' /\ Handover'
  BY DEF Complete, Apart, Handover, Uniform
<1> QED BY <1>1, <1>2

(* Core 0 returns from the wait: the frame it gave is the one being shown. *)
LEMMA ReturnStep == IInv /\ Return => IInv'
<1> SUFFICES ASSUME IInv, Return PROVE IInv'
  OBVIOUS
<1> USE DEF IInv, Return, core1, queues, writes
<1>1. back = active_frame /\ pc1 \notin {"take", "release"}
  BY NullApart DEF Handover, TypeOK
<1>2. back' \in Buffers /\ back' # active_frame /\ drawing' \in Picture
  BY <1>1, OtherTyped, FollowingTyped DEF TypeOK
<1>3. TypeOK' /\ Boundary'
  BY <1>2, HandoffAssumption DEF TypeOK, Boundary
<1>4. Active'
  <2>1. Uniform(active_frame, drawing)
    BY <1>1 DEF Complete
  <2> QED BY <1>1, <2>1 DEF Active, Uniform, TypeOK
<1>5. Drawing'
  BY HandoffAssumption DEF Drawing, Rows
<1>6. Complete' /\ Apart' /\ Handover'
  BY <1>1, <1>2 DEF Complete, Apart, Handover
<1> QED BY <1>3, <1>4, <1>5, <1>6

(* A store becomes visible: the framebuffer being encoded is not concerned. *)
LEMMA DrainPixelsStep == IInv /\ DrainPixels => IInv'
<1> SUFFICES ASSUME IInv, DrainPixels PROVE IInv'
  OBVIOUS
<1> USE DEF IInv, core0, core1, queues
<1>1. PICK s \in stores :
        /\ stores' = stores \ {s}
        /\ pixels' = [pixels EXCEPT ![s.frame][s.row] = s.picture]
  BY DEF DrainPixels
<1>2. UNCHANGED <<core0, publishing, pending_frame, core1, queues>>
  BY DEF DrainPixels
<1>3. s \in Stores /\ s.frame = back /\ s.picture = drawing
  BY DEF TypeOK, Drawing
<1>4. pc0 \notin {"publish", "spin"} /\ back # active_frame
  BY DEF Complete, Apart, TypeOK
<1>5. TypeOK'
  <2>1. pixels' \in [Buffers -> [Rows -> Picture]]
    BY <1>1, <1>3 DEF TypeOK, Stores
  <2> QED BY <1>1, <1>2, <2>1 DEF TypeOK
<1>6. pixels'[active_frame] = pixels[active_frame]
  BY <1>1, <1>3, <1>4 DEF TypeOK
<1>7. Active' /\ Boundary'
  BY <1>2, <1>6 DEF Active, Boundary, Uniform
<1>8. Drawing'
  <2>1. \A r \in Rows :
          pixels'[back][r] = IF r = s.row THEN drawing ELSE pixels[back][r]
    BY <1>1, <1>3 DEF TypeOK, Stores
  <2>2. \A r \in Rows :
          [frame |-> back, row |-> r, picture |-> drawing] = s => r = s.row
    OBVIOUS
  <2> QED BY <1>1, <1>2, <2>1, <2>2 DEF Drawing
<1>9. Complete' /\ Apart' /\ Handover'
  BY <1>2, <1>4 DEF Complete, Apart, Handover
<1> QED BY <1>5, <1>7, <1>8, <1>9

LEMMA DrainPointerStep == IInv /\ DrainPointer => IInv'
<1> SUFFICES ASSUME IInv, DrainPointer PROVE IInv'
  OBVIOUS
<1> USE DEF IInv, DrainPointer, core0, core1, queues
<1>1. TypeOK' /\ Active' /\ Boundary' /\ Drawing'
  BY DEF TypeOK, Active, Boundary, Drawing, Uniform
<1>2. Complete' /\ Apart' /\ Handover'
  BY NullApart DEF Complete, Apart, Handover, Uniform, TypeOK
<1> QED BY <1>1, <1>2

LEMMA CheckStep == IInv /\ Check => IInv'
<1> SUFFICES ASSUME IInv, Check PROVE IInv'
  OBVIOUS
<1> USE DEF IInv, Check, core0, queues, writes
<1>1. TypeOK' /\ Active' /\ Boundary' /\ Drawing' /\ Complete'
  BY DEF TypeOK, Active, Boundary, Drawing, Complete, Uniform
<1>2. Apart' /\ Handover'
  BY NullApart DEF Apart, Handover, TypeOK
<1> QED BY <1>1, <1>2

(* Core 1 takes the frame core 0 is waiting with: the shown picture becomes *)
(* the one that was drawn.                                                  *)
LEMMA TakeStep == IInv /\ Take => IInv'
<1> SUFFICES ASSUME IInv, Take PROVE IInv'
  OBVIOUS
<1> USE DEF IInv, Take, core0, queues, writes
<1>1. /\ pc0 = "spin" /\ pending_frame = back /\ publishing = NULL
      /\ stores = {} /\ Uniform(back, drawing)
  BY DEF Apart, Handover, Complete
<1>2. TypeOK' /\ Boundary'
  BY <1>1 DEF TypeOK, Boundary
<1>3. Active'
  BY <1>1 DEF Active, Uniform, TypeOK
<1>4. Drawing' /\ Complete'
  BY <1>1 DEF Drawing, Complete, Uniform
<1>5. Apart' /\ Handover'
  BY <1>1 DEF Apart, Handover
<1> QED BY <1>2, <1>3, <1>4, <1>5

LEMMA ReleaseStep == IInv /\ Release => IInv'
<1> SUFFICES ASSUME IInv, Release PROVE IInv'
  OBVIOUS
<1> USE DEF IInv, Release, core0, queues, writes
<1>1. TypeOK' /\ Active' /\ Boundary' /\ Drawing' /\ Complete'
  BY DEF TypeOK, Active, Boundary, Drawing, Complete, Uniform
<1>2. Apart' /\ Handover'
  BY NullApart DEF Apart, Handover, TypeOK
<1> QED BY <1>1, <1>2

LEMMA FetchStep == IInv /\ Fetch => IInv'
<1> SUFFICES ASSUME IInv, Fetch PROVE IInv'
  OBVIOUS
<1> USE DEF IInv, Fetch, core0, writes
<1>1. TypeOK'
  BY HandoffAssumption DEF TypeOK
<1>2. Active' /\ Boundary' /\ Drawing' /\ Complete'
  BY DEF Active, Boundary, Drawing, Complete, Uniform
<1>3. Apart' /\ Handover'
  BY DEF Apart, Handover
<1> QED BY <1>1, <1>2, <1>3

LEMMA EncodeStep == IInv /\ Encode => IInv'
<1> SUFFICES ASSUME IInv, Encode PROVE IInv'
  OBVIOUS
<1> USE DEF IInv, Encode, core0, writes
<1>1. TypeOK'
  <2>1. y' \in Rows /\ pixels[active_frame][y] \in Picture
    BY HandoffAssumption DEF TypeOK, Rows
  <2>2. /\ free' \in 0 .. TmdsBuffers /\ valid' \in 0 .. TmdsBuffers
        /\ free' + valid' + (IF pc1' = "encode" THEN 1 ELSE 0) = TmdsBuffers
    BY HandoffAssumption DEF TypeOK
  <2> QED BY <2>1, <2>2 DEF TypeOK
<1>2. Active' /\ Boundary' /\ Drawing' /\ Complete'
  BY DEF Active, Boundary, Drawing, Complete, Uniform
<1>3. Apart' /\ Handover'
  BY DEF Apart, Handover
<1> QED BY <1>1, <1>2, <1>3

LEMMA TransmitStep == IInv /\ Transmit => IInv'
<1> SUFFICES ASSUME IInv, Transmit PROVE IInv'
  OBVIOUS
<1> USE DEF IInv, Transmit, core0, core1, writes
<1>1. TypeOK'
  BY HandoffAssumption DEF TypeOK
<1>2. Active' /\ Boundary' /\ Drawing' /\ Complete' /\ Apart' /\ Handover'
  BY DEF Active, Boundary, Drawing, Complete, Apart, Handover, Uniform
<1> QED BY <1>1, <1>2

LEMMA StepIInv == IInv /\ [Next]_vars => IInv'
<1>1. IInv /\ UNCHANGED vars => IInv'
  BY DEF vars, core0, writes, core1, queues, IInv, TypeOK, Active, Boundary,
         Drawing, Complete, Apart, Handover, Uniform
<1> QED BY <1>1, DrawRowStep, FenceStep, PublishStep, ReturnStep,
           DrainPixelsStep, DrainPointerStep, CheckStep, TakeStep,
           ReleaseStep, FetchStep, EncodeStep, TransmitStep
        DEF Next, Core0, Drain, Core1

LEMMA Invariance == Spec => []IInv
BY InitIInv, StepIInv, PTL DEF Spec

(* Types, and with them: no TMDS buffer is lost or made. *)
THEOREM HandoffTyped == Spec => []TypeOK
<1>1. IInv => TypeOK
  BY DEF IInv
<1> QED BY <1>1, Invariance, PTL

(* The cores never work on the same framebuffer, the stores that core 0     *)
(* issued but that are not yet visible included.                            *)
THEOREM CoresApart == Spec => []NoOverlap
<1>1. IInv => NoOverlap
  BY DEF IInv, TypeOK, Drawing, Complete, Apart, NoOverlap
<1> QED BY <1>1, Invariance, PTL

(* A frame that is being sent is whole, and stays so.                       *)
THEOREM FramesWhole == Spec => []NoTear
<1>1. IInv => NoTear
  BY DEF IInv, Active, Uniform, NoTear
<1> QED BY <1>1, Invariance, PTL
-----------------------------------------------------------------------------
(***************************************************************************)
(* Refinement of FrameStream.                                               *)
(***************************************************************************)
Waiting == IF pending_frame \in Buffers \ {active_frame}
           THEN Shown(pending_frame) ELSE -1

LEMMA ShownUniform ==
  ASSUME NEW b, NEW p \in Picture, Uniform(b, p)
  PROVE  Shown(b) = p
<1>1. 0 \in Rows
  BY HandoffAssumption DEF Rows
<1> QED BY <1>1 DEF Uniform, Shown

(* Of the steps of core 0, only the pointer becoming visible is seen: the   *)
(* client has presented the picture that follows the one being sent.        *)
LEMMA PointerPresents == IInv /\ DrainPointer => Stream!Present
<1> SUFFICES ASSUME IInv, DrainPointer PROVE Stream!Present
  OBVIOUS
<1> USE DEF IInv, DrainPointer, core1
<1>1. /\ publishing = back /\ pending_frame = NULL /\ back # active_frame
      /\ Uniform(back, drawing)
  BY DEF Apart, Handover, Complete
<1>2. PICK p \in Picture : Uniform(active_frame, p) /\ drawing = Following(p)
  BY <1>1 DEF Active
<1>3. Shown(active_frame) = p /\ Shown(active_frame)' = p
  BY <1>2, ShownUniform DEF Shown
<1>4. pending_frame' = back /\ back \in Buffers \ {active_frame'}
  BY <1>1 DEF TypeOK
<1>5. Shown(back) = drawing /\ Shown(pending_frame)' = drawing
  BY <1>1, <1>4, ShownUniform DEF TypeOK, Shown
<1>6. Waiting = -1 /\ Waiting' = drawing
  BY <1>1, <1>4, <1>5, NullApart DEF Waiting
<1>7. Stream!Following(p) = Following(p)
  BY DEF Stream!Following, Following
<1> QED BY <1>2, <1>3, <1>6, <1>7 DEF Stream!Present, Stream!None, Waiting

LEMMA TakeTakesUp == IInv /\ Take => Stream!TakeUp
<1> SUFFICES ASSUME IInv, Take PROVE Stream!TakeUp
  OBVIOUS
<1> USE DEF IInv, Take
<1>1. /\ pending_frame = back /\ back # active_frame /\ Uniform(back, drawing)
      /\ y = 0
  BY DEF Apart, Handover, Complete, Boundary
<1>2. active_frame' = back /\ UNCHANGED <<pixels, pending_frame, y, encoded>>
  BY <1>1
<1>3. Shown(back) = drawing /\ drawing \in Picture
  BY <1>1, ShownUniform DEF TypeOK
<1>4. Waiting = drawing /\ drawing # -1
  BY <1>1, <1>3, HandoffAssumption DEF Waiting, TypeOK, Picture
<1>5. Shown(active_frame)' = drawing
  BY <1>2, <1>3 DEF Shown
<1>6. Waiting' = -1
  BY <1>1, <1>2 DEF Waiting
<1> QED BY <1>1, <1>2, <1>4, <1>5, <1>6
        DEF Stream!TakeUp, Stream!None, Waiting

LEMMA EncodeSends == IInv /\ Encode => Stream!SendRow
<1> SUFFICES ASSUME IInv, Encode PROVE Stream!SendRow
  OBVIOUS
<1> USE DEF IInv, Encode
<1>1. PICK p \in Picture : Uniform(active_frame, p)
  BY DEF Active
<1>2. pixels[active_frame][y] = p /\ Shown(active_frame) = p
  BY <1>1, ShownUniform DEF Uniform, TypeOK
<1>3. UNCHANGED <<pixels, active_frame, pending_frame>>
  OBVIOUS
<1>4. Shown(active_frame)' = Shown(active_frame) /\ Waiting' = Waiting
  BY <1>3 DEF Shown, Waiting
<1> QED BY <1>2, <1>4 DEF Stream!SendRow, Waiting

(* Every other step is invisible to the client. *)
LEMMA Invisible ==
  IInv /\ (DrawRow \/ Fence \/ Publish \/ Return \/ DrainPixels
            \/ Check \/ Release \/ Fetch \/ Transmit \/ UNCHANGED vars)
    => UNCHANGED Stream!frameVars
<1> DEFINE Same == /\ Shown(active_frame)' = Shown(active_frame)
                   /\ Waiting' = Waiting
                   /\ UNCHANGED <<y, encoded>>
<1>1. Same => UNCHANGED Stream!frameVars
  BY DEF Stream!frameVars, Waiting
<1>2. ASSUME UNCHANGED <<pixels, active_frame, pending_frame, y, encoded>>
      PROVE  Same
  BY <1>2 DEF Shown, Waiting
<1>3. ASSUME DrawRow \/ Fence \/ Publish \/ Return \/ UNCHANGED vars
      PROVE  UNCHANGED <<pixels, active_frame, pending_frame, y, encoded>>
  BY <1>3 DEF DrawRow, Fence, Publish, Return, core1, writes, vars
<1>4. ASSUME Check \/ Fetch \/ Transmit
      PROVE  UNCHANGED <<pixels, active_frame, pending_frame, y, encoded>>
  BY <1>4 DEF Check, Fetch, Transmit, core1
<1>5. ASSUME IInv, DrainPixels PROVE Same
  <2>1. PICK s \in stores :
          pixels' = [pixels EXCEPT ![s.frame][s.row] = s.picture]
    BY <1>5 DEF DrainPixels
  <2>2. s.frame = back /\ back # active_frame /\ pending_frame = NULL
    BY <1>5 DEF IInv, TypeOK, Drawing, Complete, Apart
  <2>3. pixels'[active_frame] = pixels[active_frame]
    BY <1>5, <2>1, <2>2 DEF IInv, TypeOK
  <2>4. UNCHANGED <<active_frame, pending_frame, y, encoded>>
    BY <1>5 DEF DrainPixels, core1
  <2>5. Shown(active_frame)' = Shown(active_frame)
    BY <2>3, <2>4 DEF Shown
  <2>6. Waiting = -1 /\ Waiting' = -1
    BY <2>2, <2>4, NullApart DEF Waiting
  <2> QED BY <2>4, <2>5, <2>6
<1>6. ASSUME IInv, Release PROVE Same
  <2>1. pending_frame = active_frame /\ pending_frame' = NULL
    BY <1>6 DEF IInv, Release, Apart, Handover
  <2>2. UNCHANGED <<pixels, active_frame, y, encoded>>
    BY <1>6 DEF Release
  <2>3. Waiting = -1 /\ Waiting' = -1
    BY <2>1, <2>2, NullApart DEF Waiting
  <2> QED BY <2>2, <2>3 DEF Shown
<1> HIDE DEF Same
<1> QED BY <1>1, <1>2, <1>3, <1>4, <1>5, <1>6

LEMMA StreamInit == Init => Stream!Init
<1> SUFFICES ASSUME Init PROVE Stream!Init
  OBVIOUS
<1>1. 0 \in Picture
  BY HandoffAssumption DEF Picture
<1>2. Uniform(active_frame, 0)
  BY DEF Init, Uniform, Buffers
<1>3. Shown(active_frame) = 0
  BY <1>1, <1>2, ShownUniform
<1> QED BY <1>3, NullApart DEF Init, Stream!Init, Stream!None

(* Every frame sent is one picture, in the order of presentation, and none  *)
(* is skipped: the two cores implement FrameStream.                         *)
THEOREM HandoffImplementsStream == Spec => ImplementsStream
<1>1. IInv /\ [Next]_vars => [Stream!Next]_Stream!frameVars
  BY PointerPresents, TakeTakesUp, EncodeSends, Invisible
  DEF Next, Core0, Drain, Core1, Stream!Next
<1> QED BY <1>1, StreamInit, Invariance, PTL
        DEF Spec, ImplementsStream, Stream!Spec
=============================================================================
