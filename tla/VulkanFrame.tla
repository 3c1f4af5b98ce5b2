----------------------------- MODULE VulkanFrame -----------------------------
(***************************************************************************)
(* The frame loop over the Vulkan backend: engine.c (render_loop,          *)
(* engine_on_resized), renderer_frontend.c (renderer_on_resized,           *)
(* renderer_draw_frame), and vulkan_backend.c with vulkan_swapchain.c      *)
(* (frame_begin, acquire, frame_end, present, the recreations of the       *)
(* swapchain).                                                             *)
(*                                                                         *)
(* The main thread runs against the GPU, which executes what was submitted *)
(* when it likes, against the presentation engine, which may give out any  *)
(* image the program has not acquired, and against a window that changes   *)
(* its size at any time and tells the program by events.                   *)
(***************************************************************************)
EXTENDS Integers, FiniteSets, Sequences

CONSTANTS Images,    \* images of the swapchain
          Delay,     \* frames skipped after a resize: 30 in the source
          Size,      \* sizes of the window
          Minimized, \* the size with a side of 0
          MaxEvents, \* size events that may wait for the pump
          None

Image == 0 .. Images - 1
Frame == 0 .. Images - 2    \* max_frames_in_flight is image_count - 1

\* The arrays of VULKAN_CONTEXT have room for three images and two fences.
ASSUME ImagesAssumption == Images \in {2, 3}
ASSUME SizeAssumption == Minimized \in Size /\ None \notin Int /\ Delay \in Nat \ {0} /\ MaxEvents \in Nat

VARIABLES surface,    \* the size of the window
          events,     \* the sizes the platform has not told yet
          size, suspended,             \* ENGINE_STATE_T
          resizing, since, wanted,     \* RENDERER_SYSTEM_STATE: resizing,
                                       \* frames_since_resize, framebuffer size
          framebuffer, resized, flagged,   \* VULKAN_CONTEXT: its size, the two
                                       \* generations differ, render_flag_changed
          extent,     \* the size the swapchain was created with
          targets,    \* whose the render targets are: "current", or those of a swapchain that
                      \* was recreated for the size of the window or for "another" reason
          frame, image,   \* current_frame and image_index
          inFlight,   \* images_in_flight: the frame with the fence, or None
          fence,      \* the in_flight_fences that are signalled
          available,  \* the frames whose image_available semaphore an acquire has signalled
          acquired,   \* the images the program has from the presentation engine
          pending,    \* the submissions the GPU has not finished, as [frame, image]
          pc,
          failed      \* history: what has failed, once in a behaviour

window == <<surface, events>>
engine == <<size, suspended>>
frontend == <<resizing, since, wanted>>
context == <<framebuffer, resized, flagged>>
swapchain == <<extent, targets>>
sync == <<inFlight, fence, available, acquired, pending>>
vars == <<window, engine, frontend, context, swapchain, frame, image, sync, pc, failed>>

Visible == Size \ {Minimized}

TypeOK ==
  /\ surface \in Size /\ events \in Seq(Size) /\ size \in Size
  /\ suspended \in BOOLEAN /\ resizing \in BOOLEAN /\ resized \in BOOLEAN
  /\ flagged \in BOOLEAN /\ targets \in {"current", "size", "another"}
  /\ since \in 0 .. Delay - 1
  /\ wanted \in Visible /\ framebuffer \in Visible /\ extent \in Visible
  /\ frame \in Frame /\ image \in Image
  /\ inFlight \in [Image -> Frame \cup {None}]
  /\ fence \subseteq Frame /\ available \subseteq Frame /\ acquired \subseteq Image
  /\ pending \subseteq [frame : Frame, image : Image]
  /\ pc \in {"pump", "begin", "views", "submit"}
  /\ failed \in {"none", "view", "submit"}

\* vulkan_renderer_backend_initialize, and engine_create, which resizes once.
Init ==
  /\ \E s \in Visible : /\ surface = s /\ size = s /\ wanted = s
                        /\ framebuffer = s /\ extent = s
  /\ events = <<>> /\ suspended = FALSE
  /\ resizing = TRUE /\ since = 0
  /\ resized = FALSE /\ flagged = FALSE /\ targets = "current"
  /\ frame = 0 /\ image = 0
  /\ inFlight = [i \in Image |-> None]
  /\ fence = Frame /\ available = {} /\ acquired = {} /\ pending = {}
  /\ pc = "pump" /\ failed = "none"

-----------------------------------------------------------------------------
\* The window: external.
Window(s) ==
  /\ s # surface /\ Len(events) < MaxEvents
  /\ surface' = s /\ events' = Append(events, s)
  /\ UNCHANGED <<engine, frontend, context, swapchain, frame, image, sync, pc, failed>>

\* The GPU finishes a submission and signals its fence: external.
Execute(b) ==
  /\ pending' = pending \ {b} /\ fence' = fence \cup {b.frame}
  /\ UNCHANGED <<window, engine, frontend, context, swapchain, frame, image, inFlight, available,
                 acquired, pc, failed>>

\* renderer_flag_enabled_set, from the update of the application.
FlagSet ==
  /\ pc = "pump" /\ flagged' = TRUE
  /\ UNCHANGED <<window, engine, frontend, framebuffer, resized, swapchain, frame, image, sync, pc,
                 failed>>

\* renderer_on_resized
OnResized(s) == resizing' = TRUE /\ since' = 0 /\ wanted' = s

\* Mutant: of several events only the last is seen.
PumpLast ==
  LET last == events[Len(events)] IN
  /\ pc = "pump" /\ events # <<>>
  /\ events' = <<>> /\ size' = last
  /\ IF last \in {size, Minimized} THEN UNCHANGED frontend ELSE OnResized(last)
  /\ suspended' = IF last = size THEN suspended ELSE last = Minimized
  /\ UNCHANGED <<surface, context, swapchain, frame, image, sync, pc, failed>>

\* Mutant: a restored window is only resumed.
PumpRestored ==
  /\ pc = "pump" /\ events # <<>>
  /\ events' = Tail(events) /\ size' = Head(events)
  /\ IF Head(events) \in {size, Minimized} \/ suspended THEN UNCHANGED frontend
                                                       ELSE OnResized(Head(events))
  /\ suspended' = IF Head(events) = size THEN suspended ELSE Head(events) = Minimized
  /\ UNCHANGED <<surface, context, swapchain, frame, image, sync, pc, failed>>

\* engine_on_resized, for the next event of the platform.
Pump ==
  /\ pc = "pump" /\ events # <<>>
  /\ events' = Tail(events) /\ size' = Head(events)
  /\ IF Head(events) \in {size, Minimized} THEN UNCHANGED frontend ELSE OnResized(Head(events))
  /\ suspended' = IF Head(events) = size THEN suspended ELSE Head(events) = Minimized
  /\ UNCHANGED <<surface, context, swapchain, frame, image, sync, pc, failed>>

\* render_loop goes on when there are no more.
Draws == pc = "pump" /\ events = <<>> /\ ~suspended

\* renderer_draw_frame, until the designated number of frames have passed.
SkipFrame ==
  /\ Draws /\ resizing /\ since + 1 < Delay
  /\ since' = since + 1
  /\ UNCHANGED <<window, engine, resizing, wanted, context, swapchain, frame, image, sync, pc,
                 failed>>

\* They have: vulkan_renderer_backend_on_resized.
ApplyResize ==
  /\ Draws /\ resizing /\ since + 1 >= Delay
  /\ framebuffer' = wanted /\ resized' = TRUE
  /\ since' = 0 /\ resizing' = FALSE
  /\ pc' = "begin"
  /\ UNCHANGED <<window, engine, wanted, flagged, swapchain, frame, image, sync, failed>>

DrawFrame ==
  /\ Draws /\ ~resizing
  /\ pc' = "begin"
  /\ UNCHANGED <<window, engine, frontend, context, swapchain, frame, image, sync, failed>>

-----------------------------------------------------------------------------
\* vkDeviceWaitIdle returns.
Idle == pending = {}

\* vulkan_swapchain_recreate: a swapchain of the size the surface has now, and
\* no image of the old one.  Two things are left out: a surface that leaves its
\* size to the swapchain (currentExtent of UINT32_MAX), where the size of the
\* framebuffer is taken; and that vkCreateSwapchainKHR may fail for a surface of
\* size 0, for which the swapchain keeps the size it had here.
NewSwapchain ==
  /\ extent' = IF surface = Minimized THEN extent ELSE surface
  /\ frame' = 0 /\ acquired' = {}

\* frame_begin after a resize or a change of flags: recreate_swapchain, which
\* also has the render targets made again.
Recreate ==
  /\ pc = "begin" /\ (resized \/ flagged)
  /\ Idle
  /\ NewSwapchain
  /\ inFlight' = [i \in Image |-> None]
  /\ targets' = "current" /\ resized' = FALSE /\ flagged' = FALSE
  /\ pc' = "pump"
  /\ UNCHANGED <<window, engine, frontend, framebuffer, image, fence, available, pending, failed>>

\* Otherwise it waits for the fence of the current frame.
FrameFree == pc = "begin" /\ ~resized /\ ~flagged /\ frame \in fence

\* The presentation engine gives an image, and recording begins: also when the
\* swapchain is only suboptimal because the surface has another size by now.  An
\* acquire that fails for another reason than being out of date is left out.
Acquire ==
  /\ FrameFree
  /\ \E i \in Image \ acquired : image' = i /\ acquired' = acquired \cup {i}
  /\ available' = available \cup {frame}
  /\ pc' = "views"
  /\ UNCHANGED <<window, engine, frontend, context, swapchain, frame, inFlight, fence, pending,
                 failed>>

\* Mutant: the fence is reset next to the wait for it.
OutOfDateReset ==
  /\ FrameFree
  /\ Idle
  /\ NewSwapchain
  /\ targets' = IF surface \in {extent, Minimized} \/ targets = "another" THEN "another" ELSE "size"
  /\ fence' = fence \ {frame}
  /\ pc' = "pump"
  /\ UNCHANGED <<window, engine, frontend, context, image, inFlight, available, pending, failed>>

\* Mutant: so is a suboptimal one, of which an image was acquired.
OutOfDateSuboptimal ==
  /\ FrameFree
  /\ Idle
  /\ NewSwapchain
  /\ targets' = IF surface \in {extent, Minimized} \/ targets = "another" THEN "another" ELSE "size"
  /\ available' = available \cup {frame}
  /\ pc' = "pump"
  /\ UNCHANGED <<window, engine, frontend, context, image, inFlight, fence, pending, failed>>

\* Or the swapchain is out of date, because the window has another size by now
\* or for a reason of the system's, and only it is recreated.
OutOfDate ==
  /\ FrameFree
  /\ Idle
  /\ NewSwapchain
  /\ targets' = IF surface \in {extent, Minimized} \/ targets = "another" THEN "another" ELSE "size"
  /\ pc' = "pump"
  /\ UNCHANGED <<window, engine, frontend, context, image, inFlight, fence, available, pending, failed>>

\* A view fails: the frame is not ended, and the engine goes on.
ViewFails ==
  /\ pc = "views" /\ failed = "none"
  /\ pc' = "pump" /\ failed' = "view"
  /\ UNCHANGED <<window, engine, frontend, context, swapchain, frame, image, sync>>

\* Mutant: the image is not waited for.
MarkImageAtOnce ==
  /\ pc = "views"
  /\ inFlight' = [inFlight EXCEPT ![image] = frame]
  /\ fence' = fence \ {frame}
  /\ pc' = "submit"
  /\ UNCHANGED <<window, engine, frontend, context, swapchain, frame, image, available, acquired,
                 pending, failed>>

\* Mutant: the fence is reset before the image is waited for.
MarkImageReset ==
  /\ pc = "views" /\ inFlight[image] \in (fence \ {frame}) \cup {None}
  /\ inFlight' = [inFlight EXCEPT ![image] = frame]
  /\ fence' = fence \ {frame}
  /\ pc' = "submit"
  /\ UNCHANGED <<window, engine, frontend, context, swapchain, frame, image, available, acquired,
                 pending, failed>>

\* The views are rendered.  frame_end: the previous frame that used the image is waited for, the image
\* is marked with the fence of this one, and the fence is reset.
MarkImage ==
  /\ pc = "views" /\ inFlight[image] \in fence \cup {None}
  /\ inFlight' = [inFlight EXCEPT ![image] = frame]
  /\ fence' = fence \ {frame}
  /\ pc' = "submit"
  /\ UNCHANGED <<window, engine, frontend, context, swapchain, frame, image, available, acquired,
                 pending, failed>>

\* vkQueueSubmit takes over the semaphore and the fence; present gives the
\* image back and goes to the next frame.
Submit ==
  /\ pc = "submit"
  /\ pending' = pending \cup {[frame |-> frame, image |-> image]}
  /\ available' = available \ {frame}
  /\ acquired' = acquired \ {image}
  /\ frame' = (frame + 1) % (Images - 1)
  /\ pc' = "pump"
  /\ UNCHANGED <<window, engine, frontend, context, swapchain, image, inFlight, fence, failed>>

\* vkQueueSubmit fails: the fence stays reset, and the engine goes on.
SubmitFails ==
  /\ pc = "submit" /\ failed = "none"
  /\ pc' = "pump" /\ failed' = "submit"
  /\ UNCHANGED <<window, engine, frontend, context, swapchain, frame, image, sync>>

\* No frame was begun and not ended.
Unfailed == failed = "none"

Main == \/ Pump \/ SkipFrame \/ ApplyResize \/ DrawFrame \/ Recreate \/ Acquire \/ OutOfDate
        \/ MarkImage \/ Submit

Next == \/ \E s \in Size : Window(s)
        \/ \E b \in pending : Execute(b)
        \/ FlagSet \/ Main \/ ViewFails \/ SubmitFails
        \/ ~Unfailed /\ UNCHANGED vars    \* the main thread may wait for good

Spec == Init /\ [][Next]_vars

\* The main thread goes on where it is not blocked and nothing fails, and the GPU finishes what it has.
Fairness == WF_vars(Main) /\ \A f \in Frame, i \in Image :
              WF_vars(LET b == [frame |-> f, image |-> i] IN b \in pending /\ Execute(b))
FairSpec == Spec /\ Fairness
-----------------------------------------------------------------------------
(***************************************************************************)
(* Properties.                                                             *)
(***************************************************************************)
\* A fence somebody may wait for without an end is signalled, belongs to a
\* submission the GPU still has, or to the frame about to be submitted: it is
\* lost only where a submission has failed.  So neither wait of a frame is
\* endless, whatever swapchains were recreated in between.
FencesReturn ==
  failed # "submit" =>
    \A f \in Frame : f \in fence \/ (\E b \in pending : b.frame = f) \/ (pc = "submit" /\ f = frame)

\* vulkan_backend.c:545: when a frame is submitted, no earlier submission that
\* renders to its image or uses its fence is still with the GPU, in whatever
\* order the presentation engine gives out the images.
ImageFree ==
  pc = "submit" => \A b \in pending : b.image # image /\ b.frame # frame

\* A semaphore is signalled once for each wait: an acquire finds that of its
\* frame unsignalled and a submission finds it signalled, unless a frame was begun
\* and not submitted.
SemaphoreAlternates ==
  /\ (Unfailed /\ FrameFree) => frame \notin available
  /\ pc \in {"views", "submit"} => frame \in available /\ image \in acquired

\* A frame is recorded only with render targets of the swapchain it acquired
\* from and with a viewport of its size.  An acquire that finds the swapchain out
\* of date leaves old targets, but where it does so because of the size of the
\* window, the event of the resize comes before the next frame.
RecordsToSwapchain ==
  pc \in {"views", "submit"} => framebuffer = extent /\ targets # "size"

\* No image is kept: outside of a frame the presentation engine has them all,
\* unless a frame was begun and not ended.
ImagesReturned == (Unfailed /\ pc \in {"pump", "begin"}) => acquired = {}

\* Acquire, submit and present take turns: with the semaphore and with the image.
PresentedInTurn == SemaphoreAlternates /\ ImagesReturned

\* The main thread never stops for good: it comes back to the events, unless a
\* frame was begun and not submitted, or the window stays minimized.
NeverStuck == pc # "pump" ~> (pc = "pump" \/ ~Unfailed)

\* A resize takes effect: when the window keeps its size, the swapchain
\* and the viewport get it, unless a frame has failed.
ResizeTakesEffect ==
  \A s \in Visible : <>[](surface = s) => (<>[](extent = s /\ framebuffer = s) \/ <>(~Unfailed))
=============================================================================
