---------------------------- MODULE MCLineBreaks ----------------------------
(* Texts of up to five bytes, each a break or not.                          *)
EXTENDS LineBreaks
=============================================================================
