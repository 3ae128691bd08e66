-------------------------- MODULE DisplayHandoff --------------------------
(***************************************************************************)
(* The hand-over of frames from the main loop to the second core            *)
(* (src/display_output.c).                                                  *)
(*                                                                          *)
(* Core 0 draws into one framebuffer while core 1 encodes the other, row by *)
(* row, into TMDS buffers that the DMA interrupt of libdvi sends and gives  *)
(* back.  The two cores share the pixels of both framebuffers and the word  *)
(* pending_frame, with no lock: what orders their accesses is __dmb().      *)
(*                                                                          *)
(* A store of core 0 is therefore two events: it is issued into a write     *)
(* buffer and becomes visible to core 1 some time later, in any order with  *)
(* the other stores of that buffer; __dmb() waits until the buffer is       *)
(* empty.  Core 1 stores only the two pointers, and the order of those is   *)
(* kept by its own __dmb(), so its stores take effect at once.              *)
(*                                                                          *)
(* The pixels are abstracted to the number of the picture each row was last *)
(* drawn for, counted modulo Pictures.                                      *)
(***************************************************************************)
EXTENDS Integers

CONSTANTS
  Pictures,         \* how many pictures are told apart
  Height,           \* DISPLAY_HEIGHT
  TmdsBuffers       \* DVI_N_TMDS_BUFFERS

ASSUME HandoffAssumption ==
  /\ Pictures \in Nat \ {0, 1, 2}
  /\ Height \in Nat \ {0}
  /\ TmdsBuffers \in Nat \ {0}

Picture == 0 .. Pictures - 1
Rows    == 0 .. Height - 1
Following(p) == IF p = Pictures - 1 THEN 0 ELSE p + 1

Buffers == {"display", "display_back"}
Other(b) == IF b = "display" THEN "display_back" ELSE "display"
NULL == "null"

Stores == [frame : Buffers, row : Rows, picture : Picture]

VARIABLES
  pc0,            \* core 0: "draw", "fence", "publish", "spin"
  back,           \* the framebuffer core 0 draws into
  drawn,          \* rows of it drawn so far
  drawing,        \* number of the picture being drawn
  stores,         \* pixel stores in core 0's write buffer
  publishing,     \* store to pending_frame in core 0's write buffer, or NULL
  pixels,         \* the two framebuffers in memory
  pending_frame,
  pc1,            \* core 1: "check", "take", "release", "fetch", "encode"
  active_frame,
  y,              \* next row to encode
  free,           \* length of q_tmds_free
  valid,          \* length of q_tmds_valid
  encoded         \* the last row encoded: picture and row number

core0  == <<pc0, back, drawn, drawing>>
writes == <<stores, publishing>>
core1  == <<pc1, active_frame, y, encoded>>
queues == <<free, valid>>
vars == <<core0, writes, pixels, pending_frame, core1, queues>>

TypeOK ==
  /\ pc0 \in {"draw", "fence", "publish", "spin"}
  /\ back \in Buffers /\ drawn \in 0 .. Height /\ drawing \in Picture
  /\ stores \subseteq Stores /\ publishing \in Buffers \union {NULL}
  /\ pixels \in [Buffers -> [Rows -> Picture]]
  /\ pending_frame \in Buffers \union {NULL}
  /\ pc1 \in {"check", "take", "release", "fetch", "encode"}
  /\ active_frame \in Buffers /\ y \in Rows
  /\ free \in 0 .. TmdsBuffers /\ valid \in 0 .. TmdsBuffers
  /\ free + valid + (IF pc1 = "encode" THEN 1 ELSE 0) = TmdsBuffers
  /\ encoded \in [picture : Picture, row : Rows]
-----------------------------------------------------------------------------
(* display_output_start, called with the cleared framebuffer `display'. *)
Init ==
  /\ pc0 = "draw" /\ back = "display_back" /\ drawn = 0 /\ drawing = 1
  /\ stores = {} /\ publishing = NULL
  /\ pixels = [b \in Buffers |-> [r \in Rows |-> 0]]
  /\ pending_frame = NULL
  /\ pc1 = "check" /\ active_frame = "display" /\ y = 0
  /\ free = TmdsBuffers /\ valid = 0
  /\ encoded = [picture |-> 0, row |-> Height - 1]
-----------------------------------------------------------------------------
(***************************************************************************)
(* Core 0.                                                                  *)
(***************************************************************************)

(* runtime_render_view clears and redraws every row of the back buffer. *)
DrawRow ==
  /\ pc0 = "draw"
  /\ stores' = stores \union
                 {[frame |-> back, row |-> drawn, picture |-> drawing]}
  /\ drawn' = drawn + 1
  /\ pc0' = IF drawn + 1 = Height THEN "fence" ELSE "draw"
  /\ UNCHANGED <<back, drawing, publishing, pixels, pending_frame, core1,
                 queues>>

(* Variant: without the __dmb() in front of the publication. *)
Fence_Missing ==
  /\ pc0 = "fence" /\ pc0' = "publish"
  /\ UNCHANGED <<back, drawn, drawing, writes, pixels, pending_frame, core1,
                 queues>>

(* The first __dmb() of display_output_present. *)
Fence ==
  /\ pc0 = "fence" /\ pc0' = "publish"
  /\ stores = {} /\ publishing = NULL
  /\ UNCHANGED <<back, drawn, drawing, writes, pixels, pending_frame, core1,
                 queues>>

(* pending_frame = frame *)
Publish ==
  /\ pc0 = "publish" /\ pc0' = "spin"
  /\ publishing' = back
  /\ UNCHANGED <<back, drawn, drawing, stores, pixels, pending_frame, core1,
                 queues>>

(* Variant: display_output_present returns without waiting. *)
Return_AtOnce ==
  /\ pc0 = "spin" /\ pc0' = "draw"
  /\ publishing = NULL
  /\ back' = Other(back) /\ drawn' = 0 /\ drawing' = Following(drawing)
  /\ UNCHANGED <<writes, pixels, pending_frame, core1, queues>>

(* The loop of display_output_present ends; a core sees its own store even  *)
(* before others do.  Then runtime_run swaps the framebuffers.              *)
Return ==
  /\ pc0 = "spin" /\ pc0' = "draw"
  /\ publishing = NULL /\ pending_frame = NULL
  /\ stores = {}                      \* the second __dmb()
  /\ back' = Other(back) /\ drawn' = 0 /\ drawing' = Following(drawing)
  /\ UNCHANGED <<writes, pixels, pending_frame, core1, queues>>

(* The write buffer of core 0 drains, in any order. *)
DrainPixels ==
  /\ \E s \in stores :
       /\ stores' = stores \ {s}
       /\ pixels' = [pixels EXCEPT ![s.frame][s.row] = s.picture]
  /\ UNCHANGED <<core0, publishing, pending_frame, core1, queues>>

DrainPointer ==
  /\ publishing # NULL
  /\ pending_frame' = publishing /\ publishing' = NULL
  /\ UNCHANGED <<core0, stores, pixels, core1, queues>>
-----------------------------------------------------------------------------
(***************************************************************************)
(* Core 1, display_video_worker.                                            *)
(***************************************************************************)

(* Variant: the worker keeps the frame it has. *)
Check_Ignored ==
  /\ pc1 = "check" /\ pc1' = "fetch"
  /\ UNCHANGED <<core0, writes, pixels, pending_frame, active_frame, y,
                 encoded, queues>>

(* The test between two frames. *)
Check ==
  /\ pc1 = "check"
  /\ pc1' = IF pending_frame # NULL THEN "take" ELSE "fetch"
  /\ UNCHANGED <<core0, writes, pixels, pending_frame, active_frame, y,
                 encoded, queues>>

(* active_frame = pending_frame, a second load of the same word. *)
Take ==
  /\ pc1 = "take" /\ pc1' = "release"
  /\ active_frame' = pending_frame
  /\ UNCHANGED <<core0, writes, pixels, pending_frame, y, encoded, queues>>

(* Variant: the worker does not say that it has taken the frame. *)
Release_Silent ==
  /\ pc1 = "release" /\ pc1' = "fetch"
  /\ UNCHANGED <<core0, writes, pixels, pending_frame, active_frame, y,
                 encoded, queues>>

(* pending_frame = NULL *)
Release ==
  /\ pc1 = "release" /\ pc1' = "fetch"
  /\ pending_frame' = NULL
  /\ UNCHANGED <<core0, writes, pixels, active_frame, y, encoded, queues>>

(* queue_remove_blocking_u32(&dvi.q_tmds_free) *)
Fetch ==
  /\ pc1 = "fetch" /\ pc1' = "encode"
  /\ free > 0 /\ free' = free - 1
  /\ UNCHANGED <<core0, writes, pixels, pending_frame, active_frame, y,
                 encoded, valid>>

(* Variant: pending_frame is looked at before every row. *)
Encode_ChecksEveryRow ==
  /\ pc1 = "encode" /\ pc1' = "check"
  /\ encoded' = [picture |-> pixels[active_frame][y], row |-> y]
  /\ valid' = valid + 1
  /\ y' = IF y = Height - 1 THEN 0 ELSE y + 1
  /\ UNCHANGED <<core0, writes, pixels, pending_frame, active_frame, free>>

(* Variant: the encoded row is not handed on. *)
Encode_KeepsBuffer ==
  /\ pc1 = "encode"
  /\ encoded' = [picture |-> pixels[active_frame][y], row |-> y]
  /\ y' = IF y = Height - 1 THEN 0 ELSE y + 1
  /\ pc1' = IF y = Height - 1 THEN "check" ELSE "fetch"
  /\ UNCHANGED <<core0, writes, pixels, pending_frame, active_frame, queues>>

(* tmds_encode_1bpp reads row y, queue_add_blocking_u32 hands it to libdvi. *)
Encode ==
  /\ pc1 = "encode"
  /\ encoded' = [picture |-> pixels[active_frame][y], row |-> y]
  /\ valid' = valid + 1
  /\ y' = IF y = Height - 1 THEN 0 ELSE y + 1
  /\ pc1' = IF y = Height - 1 THEN "check" ELSE "fetch"
  /\ UNCHANGED <<core0, writes, pixels, pending_frame, active_frame, free>>

(* The DMA interrupt of libdvi: a row is on the wire, its buffer is free. *)
Transmit ==
  /\ valid > 0
  /\ valid' = valid - 1 /\ free' = free + 1
  /\ UNCHANGED <<core0, writes, pixels, pending_frame, core1>>

Core0 == DrawRow \/ Fence \/ Publish \/ Return
Drain == DrainPixels \/ DrainPointer
Core1 == Check \/ Take \/ Release \/ Fetch \/ Encode

Next == Core0 \/ Drain \/ Core1 \/ Transmit

Spec == Init /\ [][Next]_vars

(* Neither core stops, stores become visible, the DMA keeps sending. *)
FairSpec ==
  Spec /\ WF_vars(Core0) /\ WF_vars(Drain) /\ WF_vars(Core1)
       /\ WF_vars(Transmit)
-----------------------------------------------------------------------------
(* Core 0 writes to no framebuffer that core 1 is encoding, and none of its *)
(* earlier stores to that framebuffer is still on the way.                  *)
NoOverlap ==
  /\ pc0 \in {"draw", "fence", "publish"} => back # active_frame
  /\ \A s \in stores : s.frame # active_frame

(* The framebuffer being encoded shows one picture: "rendering cannot tear  *)
(* a transmitted frame" (README.md).                                        *)
NoTear ==
  \A r, s \in Rows : pixels[active_frame][r] = pixels[active_frame][s]

(* display_output_present returns. *)
PresentReturns == pc0 = "spin" ~> pc0 = "draw"

(* The video output as its client sees it. *)
Shown(b) ==
  IF \E p \in Picture : \A r \in Rows : pixels[b][r] = p
  THEN pixels[b][0] ELSE -2

Stream == INSTANCE FrameStream WITH
  picture <- Shown(active_frame),
  row     <- y,
  waiting <- IF pending_frame \in Buffers \ {active_frame}
             THEN Shown(pending_frame) ELSE -1,
  sent    <- encoded

(* Every frame sent is one picture, the pictures come in the order they     *)
(* were presented, and none is skipped.                                     *)
ImplementsStream == Stream!Spec

(* Every picture presented is sent. *)
StreamFlows == Stream!FairSpec
=============================================================================
