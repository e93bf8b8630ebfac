--------------------------- MODULE MCCacheVolumes ---------------------------
(***************************************************************************)
(* A small instance of CacheVolumes: two of the four volumes, of which one  *)
(* is ccache's.                                                             *)
(***************************************************************************)
EXTENDS CacheVolumes

TwoVolumes == <<"ccache", "modules">>
=============================================================================
