----------------------------- MODULE MCGallery ------------------------------
(* TLC instance of Gallery: model values for the streams.                   *)
EXTENDS Gallery

CONSTANTS s1, s2
=============================================================================
