---------------------------- MODULE MCImagePipeline ---------------------------
(* Small instances of ImagePipeline for TLC; the .cfg files give the values. *)
EXTENDS ImagePipeline
===============================================================================
