---------------------------- MODULE MCKmsRequest ----------------------------
(* KmsRequest on four atomic controllers and a legacy one.                *)
EXTENDS KmsRequest

Plane(type, formats, zmin, zmax, fixed) ==
    [type |-> type, formats |-> formats, zmin |-> zmin, zmax |-> zmax,
     fixed |-> fixed, rotates |-> type # "cursor", fences |-> type # "overlay",
     blends |-> TRUE]

Any == {"opaque", "alpha", "video"}

Flexible ==
    [atomic |-> TRUE, zpos |-> TRUE,
     planes |-> <<Plane("primary", {"opaque"}, 0, 3, FALSE),
                  Plane("overlay", Any, 0, 3, FALSE),
                  Plane("overlay", {"opaque", "alpha"}, 0, 3, FALSE)>>]
Fixed ==
    [atomic |-> TRUE, zpos |-> TRUE,
     planes |-> <<Plane("primary", {"opaque", "alpha"}, 0, 0, TRUE),
                  Plane("overlay", Any, 1, 1, TRUE),
                  Plane("cursor", {"alpha"}, 2, 2, TRUE)>>]
Shuffled ==
    [atomic |-> TRUE, zpos |-> TRUE,
     planes |-> <<Plane("primary", {"opaque", "alpha"}, 1, 1, TRUE),
                  Plane("overlay", Any, 2, 3, FALSE),
                  Plane("overlay", Any, 0, 0, TRUE)>>]
NoZpos ==
    [atomic |-> TRUE, zpos |-> FALSE,
     planes |-> <<Plane("primary", {"opaque", "alpha"}, 0, 0, FALSE),
                  Plane("overlay", Any, 0, 0, FALSE),
                  Plane("cursor", {"alpha"}, 0, 0, FALSE)>>]
LegacyDevice == [NoZpos EXCEPT !.atomic = FALSE]

MCDevices == {Flexible, Fixed, Shuffled, NoZpos, LegacyDevice}
OneDevice == {NoZpos}

Layer(fb, format, rotation, fence) ==
    [fresh |-> FALSE, fb |-> fb, format |-> format, rotation |-> rotation, enforce |-> FALSE,
     fence |-> fence, prefer_cursor |-> FALSE, cursor |-> 0]

Scene == Layer(2, "opaque", TRUE, FALSE)
Page == Layer(3, "alpha", TRUE, TRUE)
Video == Layer(4, "video", FALSE, FALSE)

MCCompositions == {<<Scene>>, <<Page, Video>>, <<Scene, Page>>}
FewCompositions == {<<[Scene EXCEPT !.fresh = TRUE]>>}

=============================================================================
