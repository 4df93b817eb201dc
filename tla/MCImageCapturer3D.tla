------------------------- MODULE MCImageCapturer3D --------------------------
(* A small instance of ImageCapturer3D for TLC; the .cfg file gives the values. *)
EXTENDS ImageCapturer3D
=============================================================================
