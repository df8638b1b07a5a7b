--------------------------- MODULE MCCachedReplies ---------------------------
(* CachedStore with histories on a small instance: see MCCachedLive.cfg. *)
EXTENDS CachedReplies

MCListKeys == {"list", "search"}
=============================================================================
