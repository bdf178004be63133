---------------------------- MODULE MCEventDispatch ----------------------------
(***************************************************************************)
(* EventDispatch with endpoints that want every event, or only the first.  *)
(***************************************************************************)
EXTENDS EventDispatch

MCFilters == {Rows, {CHOOSE r \in Rows : \A u \in Rows : r <= u}}
===============================================================================
