-------------------------- MODULE VulkanFrameProofs --------------------------
(***************************************************************************)
(* For any number of sizes and delays, and either number of images the     *)
(* arrays have room for: no fence is lost, no submission meets an earlier  *)
(* one on its image, and no frame is recorded with what belongs to another *)
(* swapchain.                                                              *)
(*                                                                         *)
(* Fences: those of pending submissions are not signalled, and each        *)
(* pending submission is the one images_in_flight has for its image.       *)
(* Sizes: the events lead from the size the engine knows to that of the    *)
(* window, each one to another size, so that a swapchain created for a     *)
(* size the program has not heard of leaves an event behind.               *)
(***************************************************************************)
EXTENDS VulkanFrame, SequenceTheorems, TLAPS

\* What the wait for a fence relies on.
FenceInv ==
  /\ FencesReturn
  /\ \A b \in pending : b.frame \notin fence /\ inFlight[b.image] = b.frame
  /\ \A b, c \in pending : b.frame = c.frame => b = c
  /\ pc = "views" => frame \in fence
  /\ pc = "submit" => frame \notin fence /\ inFlight[image] = frame
  /\ ImageFree

\* What the program has from the presentation engine, as long as nothing failed:
\* nothing between frames, and one image and one semaphore within.
UnsentInv ==
  /\ (Unfailed /\ pc \in {"pump", "begin"}) => available = {} /\ acquired = {}
  /\ (Unfailed /\ pc \in {"views", "submit"}) => available = {frame} /\ acquired = {image}
  /\ pc \in {"views", "submit"} => frame \in available /\ image \in acquired

\* The events lead to the size of the window, and none repeats a size.
EventInv ==
  /\ surface = IF events = <<>> THEN size ELSE events[Len(events)]
  /\ events # <<>> => events[1] # size
  /\ \A i \in 1 .. Len(events) - 1 : events[i] # events[i + 1]
  /\ suspended <=> size = Minimized
  /\ size # Minimized => wanted = size
  /\ ~resizing => framebuffer = wanted
  /\ pc # "pump" => ~resizing /\ size # Minimized
  /\ resized => pc = "begin"

\* An event to a size with an area is waiting.
Coming == \E i \in 1 .. Len(events) : events[i] # Minimized

\* The size of the swapchain, or its render targets, are those of another one
\* only as long as a resize is on its way, or the window is minimized.
StaleInv ==
  /\ (~resized /\ extent # framebuffer) => resizing \/ Coming \/ surface = Minimized
  /\ (~resized /\ targets = "size") => resizing \/ Coming
  /\ (pc # "pump" /\ ~resized) => extent = framebuffer /\ targets # "size"

IInv == TypeOK /\ FenceInv /\ UnsentInv /\ EventInv /\ StaleInv

-----------------------------------------------------------------------------
LEMMA Constants == /\ Images \in {2, 3} /\ 0 \in Image /\ 0 \in Frame /\ None \notin Frame
                   /\ Image \subseteq Int /\ Frame \subseteq Int
                   /\ Delay \in Nat \ {0} /\ Minimized \in Size /\ MaxEvents \in Nat
                   /\ Visible \subseteq Size /\ Minimized \notin Visible
                   /\ \A s \in Size : s # Minimized => s \in Visible
BY ImagesAssumption, SizeAssumption DEF Image, Frame, Visible

LEMMA NextFrame == ASSUME NEW f \in Frame PROVE (f + 1) % (Images - 1) \in Frame
<1>1. CASE Images = 2  BY <1>1 DEF Frame
<1>2. CASE Images = 3
  <2>1. f \in {0, 1}  BY <1>2 DEF Frame
  <2>2. (f + 1) % 2 \in {0, 1}  BY <2>1
  <2> QED  BY <1>2, <2>2 DEF Frame
<1> QED  BY <1>1, <1>2, ImagesAssumption

LEMMA Rest ==
  ASSUME TypeOK, events # <<>>
  PROVE  /\ Head(events) = events[1] /\ events[1] \in Size /\ Len(events) \in Nat \ {0}
         /\ Tail(events) \in Seq(Size) /\ Len(Tail(events)) = Len(events) - 1
         /\ \A i \in 1 .. Len(events) - 1 : Tail(events)[i] = events[i + 1]
         /\ Tail(events) = <<>> <=> Len(events) = 1
<1>1. events \in Seq(Size) /\ Len(events) \in Nat \ {0}  BY DEF TypeOK
<1>2. /\ Head(events) \in Size /\ Tail(events) \in Seq(Size) /\ Len(Tail(events)) = Len(events) - 1
      /\ \A i \in 1 .. Len(Tail(events)) : Tail(events)[i] = events[i + 1]
  BY <1>1, HeadTailProperties
<1>3. Head(events) = events[1]  BY <1>1
<1>4. Tail(events) = <<>> <=> Len(Tail(events)) = 0  BY <1>2
<1> QED  BY <1>1, <1>2, <1>3, <1>4

LEMMA InitInv == Init => IInv
<1> SUFFICES ASSUME Init PROVE IInv
  OBVIOUS
<1>1. TypeOK  BY Constants DEF Init, TypeOK
<1>2. FenceInv  BY DEF Init, FenceInv, FencesReturn, ImageFree
<1>3. UnsentInv  BY DEF Init, UnsentInv
<1>4. EventInv  BY Constants DEF Init, EventInv
<1>5. StaleInv  BY DEF Init, StaleInv
<1> QED  BY <1>1, <1>2, <1>3, <1>4, <1>5 DEF IInv

-----------------------------------------------------------------------------
\* The shape of the state.
LEMMA TypesStep == ASSUME IInv, [Next]_vars PROVE TypeOK'
<1> USE Constants DEF IInv
<1>1. ASSUME NEW s \in Size, Window(s) PROVE TypeOK'
  BY <1>1 DEF Window, TypeOK, engine, frontend, context, swapchain, sync
<1>2. ASSUME NEW b \in pending, Execute(b) PROVE TypeOK'
  BY <1>2 DEF Execute, TypeOK, window, engine, frontend, context, swapchain
<1>3. CASE FlagSet
  BY <1>3 DEF FlagSet, TypeOK, window, engine, frontend, swapchain, sync
<1>4. CASE Pump
  <2>1. events' \in Seq(Size) /\ size' \in Size
    BY <1>4, Rest DEF Pump, TypeOK
  <2>3. suspended' \in BOOLEAN
    <3>1. suspended' = IF Head(events) = size THEN suspended ELSE Head(events) = Minimized
      BY <1>4 DEF Pump
    <3>2. (Head(events) = Minimized) \in BOOLEAN  OBVIOUS
    <3> QED  BY <3>1, <3>2 DEF TypeOK
  <2>2. resizing' \in BOOLEAN /\ since' \in 0 .. Delay - 1 /\ wanted' \in Visible
    <3>1. Head(events) \in Size  BY <1>4, Rest DEF Pump
    <3>2. CASE Head(events) \in {size, Minimized}
      BY <1>4, <3>2 DEF Pump, TypeOK, frontend
    <3>3. CASE Head(events) \notin {size, Minimized}
      <4>1. resizing' = TRUE /\ since' = 0 /\ wanted' = Head(events)
        BY <1>4, <3>3 DEF Pump, OnResized
      <4> QED  BY <3>1, <3>3, <4>1
    <3> QED  BY <3>2, <3>3
  <2> QED  BY <1>4, <2>1, <2>2, <2>3 DEF Pump, TypeOK, context, swapchain, sync
<1>5. CASE SkipFrame
  BY <1>5 DEF SkipFrame, Draws, TypeOK, window, engine, context, swapchain, sync
<1>6. CASE ApplyResize
  BY <1>6 DEF ApplyResize, Draws, TypeOK, window, engine, swapchain, sync
<1>7. CASE DrawFrame
  BY <1>7 DEF DrawFrame, Draws, TypeOK, window, engine, frontend, context, swapchain, sync
<1>8. CASE Recreate
  BY <1>8 DEF Recreate, Idle, NewSwapchain, TypeOK, window, engine, frontend
<1>9. CASE Acquire
  BY <1>9 DEF Acquire, FrameFree, TypeOK, window, engine, frontend, context, swapchain
<1>10. CASE OutOfDate
  BY <1>10 DEF OutOfDate, FrameFree, Idle, NewSwapchain, TypeOK, window, engine, frontend, context
<1>11. CASE ViewFails
  BY <1>11 DEF ViewFails, TypeOK, window, engine, frontend, context, swapchain, sync
<1>12. CASE MarkImage
  BY <1>12 DEF MarkImage, TypeOK, window, engine, frontend, context, swapchain
<1>13. CASE Submit
  <2>1. frame' \in Frame  BY <1>13, NextFrame DEF Submit, TypeOK
  <2>2. [frame |-> frame, image |-> image] \in [frame : Frame, image : Image]  BY DEF TypeOK
  <2> HIDE Constants
  <2> QED  BY <1>13, <2>1, <2>2 DEF Submit, TypeOK, window, engine, frontend, context, swapchain
<1>14. CASE SubmitFails
  BY <1>14 DEF SubmitFails, TypeOK, window, engine, frontend, context, swapchain, sync
<1>15. CASE UNCHANGED vars
  BY <1>15 DEF TypeOK, vars, window, engine, frontend, context, swapchain, sync
<1> QED  BY <1>1, <1>2, <1>3, <1>4, <1>5, <1>6, <1>7, <1>8,
           <1>9, <1>10, <1>11, <1>12, <1>13, <1>14, <1>15 DEF Next, Main

-----------------------------------------------------------------------------
\* Fences and images in flight.
LEMMA FencesStep == ASSUME IInv, [Next]_vars PROVE FenceInv'
<1> USE Constants DEF IInv
<1>1. ASSUME NEW s \in Size, Window(s) PROVE FenceInv'
  BY <1>1 DEF Window, FenceInv, FencesReturn, ImageFree, TypeOK, engine, frontend, context,
         swapchain, sync
<1>2. ASSUME NEW b \in pending, Execute(b) PROVE FenceInv'
  BY <1>2 DEF Execute, FenceInv, FencesReturn, ImageFree, TypeOK, window, engine, frontend,
         context, swapchain
<1>3. CASE FlagSet
  BY <1>3 DEF FlagSet, FenceInv, FencesReturn, ImageFree, TypeOK, window, engine, frontend,
         swapchain, sync
<1>4. CASE Pump
  BY <1>4 DEF Pump, OnResized, FenceInv, FencesReturn, ImageFree, TypeOK, frontend, context,
         swapchain, sync
<1>5. CASE SkipFrame
  BY <1>5 DEF SkipFrame, Draws, FenceInv, FencesReturn, ImageFree, TypeOK, window, engine,
         context, swapchain, sync
<1>6. CASE ApplyResize
  BY <1>6 DEF ApplyResize, Draws, FenceInv, FencesReturn, ImageFree, TypeOK, window, engine,
         swapchain, sync
<1>7. CASE DrawFrame
  BY <1>7 DEF DrawFrame, Draws, FenceInv, FencesReturn, ImageFree, TypeOK, window, engine,
         frontend, context, swapchain, sync
<1>8. CASE Recreate
  BY <1>8 DEF Recreate, Idle, NewSwapchain, FenceInv, FencesReturn, ImageFree, TypeOK, window,
         engine, frontend
<1>9. CASE Acquire
  BY <1>9 DEF Acquire, FrameFree, FenceInv, FencesReturn, ImageFree, TypeOK, window, engine,
         frontend, context, swapchain
<1>10. CASE OutOfDate
  BY <1>10 DEF OutOfDate, FrameFree, Idle, NewSwapchain, FenceInv, FencesReturn, ImageFree,
         TypeOK, window, engine, frontend, context
<1>11. CASE ViewFails
  BY <1>11 DEF ViewFails, FenceInv, FencesReturn, ImageFree, TypeOK, window, engine, frontend,
         context, swapchain, sync
<1>12. CASE MarkImage
  BY <1>12 DEF MarkImage, FenceInv, FencesReturn, ImageFree, TypeOK, window, engine, frontend,
         context, swapchain
<1>13. CASE Submit
  <2> DEFINE new == [frame |-> frame, image |-> image]
  <2>1. /\ pc = "submit" /\ pc' = "pump" /\ pending' = pending \cup {new}
        /\ UNCHANGED <<image, inFlight, fence, failed>>
    BY <1>13 DEF Submit
  <2>2. new.frame = frame /\ new.image = image /\ frame \in Frame  BY DEF TypeOK
  <2>3. new.frame \notin fence /\ inFlight[new.image] = new.frame
    BY <2>1, <2>2 DEF FenceInv
  <2>4. \A b \in pending : b.frame # new.frame
    BY <2>1, <2>2 DEF FenceInv, ImageFree
  <2>5. FencesReturn'
    BY <2>1, <2>2 DEF FenceInv, FencesReturn
  <2>6. \A b \in pending' : b.frame \notin fence' /\ inFlight'[b.image] = b.frame
    BY <2>1, <2>3 DEF FenceInv
  <2>7. \A b, c \in pending' : b.frame = c.frame => b = c
    BY <2>1, <2>4 DEF FenceInv
  <2> QED  BY <2>1, <2>5, <2>6, <2>7 DEF FenceInv, ImageFree
<1>14. CASE SubmitFails
  BY <1>14 DEF SubmitFails, FenceInv, FencesReturn, ImageFree, TypeOK, window, engine, frontend,
         context, swapchain, sync
<1>15. CASE UNCHANGED vars
  BY <1>15 DEF FenceInv, FencesReturn, ImageFree, TypeOK, vars, window, engine, frontend, context,
         swapchain, sync
<1> QED  BY <1>1, <1>2, <1>3, <1>4, <1>5, <1>6, <1>7, <1>8,
           <1>9, <1>10, <1>11, <1>12, <1>13, <1>14, <1>15 DEF Next, Main

-----------------------------------------------------------------------------
\* Semaphores and acquired images.
LEMMA UnsentStep == ASSUME IInv, [Next]_vars PROVE UnsentInv'
<1> USE Constants DEF IInv
<1>1. ASSUME NEW s \in Size, Window(s) PROVE UnsentInv'
  BY <1>1 DEF Window, UnsentInv, Unfailed, TypeOK, engine, frontend, context, swapchain, sync
<1>2. ASSUME NEW b \in pending, Execute(b) PROVE UnsentInv'
  BY <1>2 DEF Execute, UnsentInv, Unfailed, TypeOK, window, engine, frontend, context, swapchain
<1>3. CASE FlagSet
  BY <1>3 DEF FlagSet, UnsentInv, Unfailed, TypeOK, window, engine, frontend, swapchain, sync
<1>4. CASE Pump
  BY <1>4 DEF Pump, OnResized, UnsentInv, Unfailed, TypeOK, frontend, context, swapchain, sync
<1>5. CASE SkipFrame
  BY <1>5 DEF SkipFrame, Draws, UnsentInv, Unfailed, TypeOK, window, engine, context, swapchain,
         sync
<1>6. CASE ApplyResize
  BY <1>6 DEF ApplyResize, Draws, UnsentInv, Unfailed, TypeOK, window, engine, swapchain, sync
<1>7. CASE DrawFrame
  BY <1>7 DEF DrawFrame, Draws, UnsentInv, Unfailed, TypeOK, window, engine, frontend, context,
         swapchain, sync
<1>8. CASE Recreate
  BY <1>8 DEF Recreate, Idle, NewSwapchain, UnsentInv, Unfailed, TypeOK, window, engine, frontend
<1>9. CASE Acquire
  BY <1>9 DEF Acquire, FrameFree, UnsentInv, Unfailed, TypeOK, window, engine, frontend, context,
         swapchain
<1>10. CASE OutOfDate
  BY <1>10 DEF OutOfDate, FrameFree, Idle, NewSwapchain, UnsentInv, Unfailed, TypeOK, window,
         engine, frontend, context
<1>11. CASE ViewFails
  BY <1>11 DEF ViewFails, UnsentInv, Unfailed, TypeOK, window, engine, frontend, context,
         swapchain, sync
<1>12. CASE MarkImage
  BY <1>12 DEF MarkImage, UnsentInv, Unfailed, TypeOK, window, engine, frontend, context, swapchain
<1>13. CASE Submit
  BY <1>13 DEF Submit, UnsentInv, Unfailed, TypeOK, window, engine, frontend, context, swapchain
<1>14. CASE SubmitFails
  BY <1>14 DEF SubmitFails, UnsentInv, Unfailed, TypeOK, window, engine, frontend, context,
         swapchain, sync
<1>15. CASE UNCHANGED vars
  BY <1>15 DEF UnsentInv, Unfailed, TypeOK, vars, window, engine, frontend, context, swapchain, sync
<1> QED  BY <1>1, <1>2, <1>3, <1>4, <1>5, <1>6, <1>7, <1>8,
           <1>9, <1>10, <1>11, <1>12, <1>13, <1>14, <1>15 DEF Next, Main

-----------------------------------------------------------------------------
\* Events and sizes.
LEMMA EventsStep == ASSUME IInv, [Next]_vars PROVE EventInv'
<1> USE Constants DEF IInv
<1>1. ASSUME NEW s \in Size, Window(s) PROVE EventInv'
  BY <1>1 DEF Window, EventInv, TypeOK, engine, frontend, context, swapchain, sync
<1>2. ASSUME NEW b \in pending, Execute(b) PROVE EventInv'
  BY <1>2 DEF Execute, EventInv, TypeOK, window, engine, frontend, context, swapchain
<1>3. CASE FlagSet
  BY <1>3 DEF FlagSet, EventInv, TypeOK, window, engine, frontend, swapchain, sync
<1>4. CASE Pump
  <2>1. /\ pc = "pump" /\ pc' = pc /\ events # <<>> /\ events' = Tail(events) /\ size' = events[1]
        /\ events[1] # size /\ suspended' = (events[1] = Minimized)
        /\ UNCHANGED <<surface, framebuffer, resized>>
    BY <1>4, Rest DEF Pump, EventInv, context
  <2>2. IF events[1] = Minimized THEN UNCHANGED <<resizing, wanted>>
                                 ELSE resizing' = TRUE /\ wanted' = events[1]
    BY <1>4, <2>1, Rest DEF Pump, OnResized, frontend
  <2>3. surface' = IF events' = <<>> THEN size' ELSE events'[Len(events')]
    BY <2>1, Rest DEF EventInv
  <2>4. events' # <<>> => events'[1] # size'
    BY <2>1, Rest DEF EventInv
  <2>5. \A i \in 1 .. Len(events') - 1 : events'[i] # events'[i + 1]
    <3> SUFFICES ASSUME NEW i \in 1 .. Len(events') - 1 PROVE events'[i] # events'[i + 1]
      OBVIOUS
    <3>1. i + 1 \in 1 .. Len(events) - 1 /\ i \in 1 .. Len(events) - 1  BY <2>1, Rest
    <3> QED  BY <2>1, <3>1, Rest DEF EventInv
  <2> QED  BY <2>1, <2>2, <2>3, <2>4, <2>5 DEF EventInv
<1>5. CASE SkipFrame
  BY <1>5 DEF SkipFrame, Draws, EventInv, TypeOK, window, engine, context, swapchain, sync
<1>6. CASE ApplyResize
  BY <1>6 DEF ApplyResize, Draws, EventInv, TypeOK, window, engine, swapchain, sync
<1>7. CASE DrawFrame
  BY <1>7 DEF DrawFrame, Draws, EventInv, TypeOK, window, engine, frontend, context, swapchain, sync
<1>8. CASE Recreate
  BY <1>8 DEF Recreate, Idle, NewSwapchain, EventInv, TypeOK, window, engine, frontend
<1>9. CASE Acquire
  BY <1>9 DEF Acquire, FrameFree, EventInv, TypeOK, window, engine, frontend, context, swapchain
<1>10. CASE OutOfDate
  BY <1>10 DEF OutOfDate, FrameFree, Idle, NewSwapchain, EventInv, TypeOK, window, engine,
         frontend, context
<1>11. CASE ViewFails
  BY <1>11 DEF ViewFails, EventInv, TypeOK, window, engine, frontend, context, swapchain, sync
<1>12. CASE MarkImage
  BY <1>12 DEF MarkImage, EventInv, TypeOK, window, engine, frontend, context, swapchain
<1>13. CASE Submit
  BY <1>13 DEF Submit, EventInv, TypeOK, window, engine, frontend, context, swapchain
<1>14. CASE SubmitFails
  BY <1>14 DEF SubmitFails, EventInv, TypeOK, window, engine, frontend, context, swapchain, sync
<1>15. CASE UNCHANGED vars
  BY <1>15 DEF EventInv, TypeOK, vars, window, engine, frontend, context, swapchain, sync
<1> QED  BY <1>1, <1>2, <1>3, <1>4, <1>5, <1>6, <1>7, <1>8,
           <1>9, <1>10, <1>11, <1>12, <1>13, <1>14, <1>15 DEF Next, Main

-----------------------------------------------------------------------------
\* The swapchain against the size of the window.
LEMMA StaleStep == ASSUME IInv, [Next]_vars PROVE StaleInv'
<1> USE Constants DEF IInv
<1>1. ASSUME NEW s \in Size, Window(s) PROVE StaleInv'
  BY <1>1 DEF Window, StaleInv, EventInv, Coming, TypeOK, engine, frontend, context, swapchain, sync
<1>2. ASSUME NEW b \in pending, Execute(b) PROVE StaleInv'
  BY <1>2 DEF Execute, StaleInv, EventInv, Coming, TypeOK, window, engine, frontend, context,
         swapchain
<1>3. CASE FlagSet
  BY <1>3 DEF FlagSet, StaleInv, EventInv, Coming, TypeOK, window, engine, frontend, swapchain, sync
<1>4. CASE Pump
  BY <1>4 DEF Pump, OnResized, StaleInv, EventInv, Coming, TypeOK, frontend, context, swapchain,
         sync
<1>5. CASE SkipFrame
  BY <1>5 DEF SkipFrame, Draws, StaleInv, EventInv, Coming, TypeOK, window, engine, context,
         swapchain, sync
<1>6. CASE ApplyResize
  BY <1>6 DEF ApplyResize, Draws, StaleInv, EventInv, Coming, TypeOK, window, engine, swapchain,
         sync
<1>7. CASE DrawFrame
  BY <1>7 DEF DrawFrame, Draws, StaleInv, EventInv, Coming, TypeOK, window, engine, frontend,
         context, swapchain, sync
<1>8. CASE Recreate
  BY <1>8 DEF Recreate, Idle, NewSwapchain, StaleInv, EventInv, Coming, TypeOK, window, engine,
         frontend
<1>9. CASE Acquire
  BY <1>9 DEF Acquire, FrameFree, StaleInv, EventInv, Coming, TypeOK, window, engine, frontend,
         context, swapchain
<1>10. CASE OutOfDate
  BY <1>10 DEF OutOfDate, FrameFree, Idle, NewSwapchain, StaleInv, EventInv, Coming, TypeOK,
         window, engine, frontend, context
<1>11. CASE ViewFails
  BY <1>11 DEF ViewFails, StaleInv, EventInv, Coming, TypeOK, window, engine, frontend, context,
         swapchain, sync
<1>12. CASE MarkImage
  BY <1>12 DEF MarkImage, StaleInv, EventInv, Coming, TypeOK, window, engine, frontend, context,
         swapchain
<1>13. CASE Submit
  BY <1>13 DEF Submit, StaleInv, EventInv, Coming, TypeOK, window, engine, frontend, context,
         swapchain
<1>14. CASE SubmitFails
  BY <1>14 DEF SubmitFails, StaleInv, EventInv, Coming, TypeOK, window, engine, frontend, context,
         swapchain, sync
<1>15. CASE UNCHANGED vars
  BY <1>15 DEF StaleInv, EventInv, Coming, TypeOK, vars, window, engine, frontend, context,
         swapchain, sync
<1> QED  BY <1>1, <1>2, <1>3, <1>4, <1>5, <1>6, <1>7, <1>8,
           <1>9, <1>10, <1>11, <1>12, <1>13, <1>14, <1>15 DEF Next, Main

LEMMA Invariance == Spec => []IInv
<1>1. IInv /\ [Next]_vars => IInv'
  BY TypesStep, FencesStep, UnsentStep, EventsStep, StaleStep DEF IInv
<1> QED  BY <1>1, InitInv, PTL DEF Spec

-----------------------------------------------------------------------------
\* The shape of the state: the frame index loops (vulkan_swapchain_present).
THEOREM TypesHold == Spec => []TypeOK
<1>1. IInv => TypeOK  BY DEF IInv
<1> QED  BY <1>1, Invariance, PTL

\* vulkan_renderer_frame_begin and _end never wait for a fence that nobody
\* will signal, as long as no submission failed.
THEOREM FencesNotLost == Spec => []FencesReturn
<1>1. IInv => FencesReturn  BY DEF IInv, FenceInv
<1> QED  BY <1>1, Invariance, PTL

\* images_in_flight: frame_end submits to an image only when the earlier
\* submission to it is over.
THEOREM ImagesInFlightKept == Spec => []ImageFree
<1>1. IInv => ImageFree  BY DEF IInv, FenceInv
<1> QED  BY <1>1, Invariance, PTL

\* Each image_available semaphore is signalled and waited for in turn.
THEOREM SemaphoresAlternate == Spec => []SemaphoreAlternates
<1>1. IInv => SemaphoreAlternates
  BY DEF IInv, UnsentInv, SemaphoreAlternates, FrameFree
<1> QED  BY <1>1, Invariance, PTL

\* Between acquire and present the size and the render targets are those of
\* the swapchain (recreate_swapchain, engine_on_resized).
THEOREM RecordsToItsSwapchain == Spec => []RecordsToSwapchain
<1>1. IInv => RecordsToSwapchain
  BY DEF IInv, EventInv, StaleInv, RecordsToSwapchain
<1> QED  BY <1>1, Invariance, PTL

\* vulkan_swapchain_present gives back every image that was acquired.
THEOREM ImagesGoBack == Spec => []ImagesReturned
<1>1. IInv => ImagesReturned  BY DEF IInv, UnsentInv, ImagesReturned
<1> QED  BY <1>1, Invariance, PTL

\* Acquire, submit and present take turns.
THEOREM TakesTurns == Spec => []PresentedInTurn
  BY SemaphoresAlternate, ImagesGoBack, PTL DEF PresentedInTurn
=============================================================================
