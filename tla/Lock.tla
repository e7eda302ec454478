-------------------------------- MODULE Lock --------------------------------
(***************************************************************************)
(* What session_manager.py's Mutex promises to "with Mutex(...)": at most  *)
(* one process is inside at a time.  Nothing is said of time, redis or     *)
(* retries.                                                                *)
(***************************************************************************)
CONSTANT Proc
VARIABLE inside

Init == inside = {}
Enter(p) == inside = {} /\ inside' = {p}
Leave(p) == inside = {p} /\ inside' = {}
Next == \E p \in Proc : Enter(p) \/ Leave(p)
Spec == Init /\ [][Next]_inside
=============================================================================
