------------------------ MODULE MCRetentionLifecycle ------------------------
(***************************************************************************)
(* Small instances of RetentionLifecycle for TLC: the goroutines are model  *)
(* values, and a behaviour picks one of the scenarios of its run.           *)
(***************************************************************************)
EXTENDS RetentionLifecycle

CONSTANTS cycle1, cycle2, restore1, restore2

AnyMishap == {"fault", "crash", "close", "damage"}

Interleavings ==
    {\* one mishap of any kind, at any one step of a cycle and a restore
     [actors |-> {cycle1, restore1}, exports |-> {1, 2}, mishaps |-> AnyMishap, most |-> 1, revisions |-> 1],
     \* two mishaps, such as a failed deletion met by a restore, a crash followed by a recovery that fails
     [actors |-> {cycle1, restore1}, exports |-> {1}, mishaps |-> AnyMishap, most |-> 2, revisions |-> 1],
     \* a mishap and a policy that changes meanwhile
     [actors |-> {cycle1, restore1}, exports |-> {1}, mishaps |-> AnyMishap, most |-> 1, revisions |-> 2],
     \* two restores compete with a maintenance cycle
     [actors |-> {cycle1, restore1, restore2}, exports |-> {1, 2}, mishaps |-> {}, most |-> 0, revisions |-> 2],
     \* a second maintenance cycle begins while the first still runs
     [actors |-> {cycle1, cycle2}, exports |-> {1, 2, 3}, mishaps |-> {}, most |-> 0, revisions |-> 2]}

\* A cycle and two restores across two interruptions.
Interruptions ==
    {[actors |-> {cycle1, restore1, restore2}, exports |-> {1}, mishaps |-> {"crash", "close"}, most |-> 2, revisions |-> 1]}

\* A cycle and a restore when the process is told to stop.
Shutdown ==
    {[actors |-> {cycle1, restore1}, exports |-> {1, 2}, mishaps |-> {"close"}, most |-> 1, revisions |-> 1]}
=============================================================================
