------------------------------- MODULE Timeouts -------------------------------
(***************************************************************************)
(* What setTimeout promises: a function is kept until its frame has come,  *)
(* and in the pass made on each frame every function that is due is called *)
(* once, the earlier frame first and, on one frame, the one set first.  A  *)
(* function set by a function that is being called takes part in the same  *)
(* pass unless its frame lies before the caller's.  Unloading a map drops  *)
(* the functions that were not set to survive it.  ServerTimeouts and      *)
(* ClientTimeouts implement this with a sorted list and an iterator.       *)
(***************************************************************************)
EXTENDS Integers

CONSTANTS
  FrameMod,    \* frames are counted modulo this
  MaxId,       \* bound on the number of functions ever set
  NoTimeout    \* nothing is being called

VARIABLES
  frame,       \* the frame of the game
  passing,     \* a pass is being made
  nextId,      \* what the next function will be known by
  pending,     \* set and not yet called to the end
  due,         \* those this pass has still to call
  current      \* the one being called

tVars == <<frame, passing, nextId, pending, due, current>>

Timeout == [Id : 1 .. MaxId, Frame : 0 .. FrameMod - 1, Persist : BOOLEAN]

Before(r, s) ==
  \/ r.Frame < s.Frame
  \/ (r.Frame = s.Frame /\ r.Id < s.Id)

TInit ==
  /\ frame \in 0 .. FrameMod - 1
  /\ passing = FALSE
  /\ nextId = 1
  /\ pending = {}
  /\ due = {}
  /\ current = NoTimeout

Tick ==
  /\ ~passing
  /\ frame' = (frame + 1) % FrameMod
  /\ UNCHANGED <<passing, nextId, pending, due, current>>

Set(f, p) ==
  LET r == [Id |-> nextId, Frame |-> f, Persist |-> p]
  IN  /\ nextId <= MaxId
      /\ passing => current # NoTimeout
      /\ nextId' = nextId + 1
      /\ pending' = pending \cup {r}
      /\ due' = IF passing /\ current.Frame <= f /\ f <= frame
                  THEN due \cup {r} ELSE due
      /\ UNCHANGED <<frame, passing, current>>

BeginPass ==
  /\ ~passing
  /\ passing' = TRUE
  /\ due' = {r \in pending : r.Frame <= frame}
  /\ UNCHANGED <<frame, nextId, pending, current>>

Call(r) ==
  /\ current = NoTimeout
  /\ r \in due
  /\ \A s \in due \ {r} : Before(r, s)
  /\ current' = r
  /\ due' = due \ {r}
  /\ UNCHANGED <<frame, passing, nextId, pending>>

Return ==
  /\ current # NoTimeout
  /\ pending' = pending \ {current}
  /\ current' = NoTimeout
  /\ UNCHANGED <<frame, passing, nextId, due>>

EndPass ==
  /\ passing
  /\ current = NoTimeout
  /\ due = {}
  /\ passing' = FALSE
  /\ UNCHANGED <<frame, nextId, pending, due, current>>

Unload ==
  /\ ~passing
  /\ pending' = {r \in pending : r.Persist}
  /\ UNCHANGED <<frame, passing, nextId, due, current>>

TNext ==
  \/ Tick
  \/ \E f \in 0 .. FrameMod - 1, p \in BOOLEAN : Set(f, p)
  \/ BeginPass
  \/ \E r \in due : Call(r)
  \/ Return
  \/ EndPass
  \/ Unload

TSpec == TInit /\ [][TNext]_tVars
=============================================================================
