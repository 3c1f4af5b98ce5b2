CONSTANTS
  Images = 3
  Delay = 2
  Size = {0, 1, 2}
  Minimized = 0
  MaxEvents = 2
  None = None
SPECIFICATION FairSpec
INVARIANTS FencesReturn ImageFree PresentedInTurn RecordsToSwapchain
PROPERTIES NeverStuck ResizeTakesEffect
