\* Every effect of disp-jpeg.c on small displays.
CONSTANT Jobs <- SmallJobs
SPECIFICATION Spec
INVARIANTS TypeOK CompletePicture OverrunsByOnePixel MoveSlides GrowsWhole
PROPERTY PaintsOnce
