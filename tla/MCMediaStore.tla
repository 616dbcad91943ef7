---------------------------- MODULE MCMediaStore ----------------------------
(* TLC instance of the media cache.                                        *)
EXTENDS MediaStore
=============================================================================
