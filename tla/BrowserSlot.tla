----------------------------- MODULE BrowserSlot -----------------------------
(***************************************************************************)
(* What the life cycle of a profile promises to whoever launches and       *)
(* closes its browser: one slot, with at most one registered browser and   *)
(* at most one process on the profile's directory.  Both may be lost at    *)
(* any time; neither is ever replaced by another browser's.                *)
(* ProfileLifecycle implements it.                                         *)
(***************************************************************************)
EXTENDS Naturals

CONSTANTS Browsers, NoBrowser

VARIABLES entry,   \* active_browsers[id]
          proc,    \* the process that holds the directory
          started  \* browsers started so far

slotVars == <<entry, proc, started>>

Init == entry = NoBrowser /\ proc = NoBrowser /\ started = {}

\* A browser starts in an empty slot.  Each one does so once.
Start(b) ==
    /\ b \notin started /\ entry = NoBrowser /\ proc = NoBrowser
    /\ started' = started \cup {b}
    /\ proc' = b
    /\ UNCHANGED entry

\* A browser that was started, alive or not, is registered in an empty entry;
\* if there is a process, it is its own.
Register(b) ==
    /\ b \in started /\ entry = NoBrowser /\ proc \in {NoBrowser, b}
    /\ entry' = b
    /\ UNCHANGED <<proc, started>>

\* A close, a clean-up, a crash: the entry, the process or both are gone.
Lose ==
    /\ entry' \in {entry, NoBrowser} /\ proc' \in {proc, NoBrowser}
    /\ UNCHANGED started

Next == Lose \/ \E b \in Browsers : Start(b) \/ Register(b)

Spec == Init /\ [][Next]_slotVars

-----------------------------------------------------------------------------
\* A browser that runs while one is registered is the registered one.
OneBrowser == entry # NoBrowser /\ proc # NoBrowser => entry = proc
=============================================================================
