---------------------------- MODULE MCCacheStore ----------------------------
(* CacheStore for TLC: callers and bodies are model values of the configuration. *)
EXTENDS CacheStore
=============================================================================
